------------------------------ MODULE MCRabbitMq ------------------------------
(***************************************************************************)
(* Subscriptions of one recovering RabbitMQ broker.                         *)
(***************************************************************************)
EXTENDS RabbitMqBroker
===============================================================================
