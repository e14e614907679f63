------------------------------ MODULE MCMqttLive ----------------------------
(* Instantiates MqttLive for TLC with two browsers as model values.         *)
EXTENDS MqttLive, TLC

CONSTANTS b1, b2

MCClients == {b1, b2}

=============================================================================
