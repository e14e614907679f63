------------------------- MODULE MCRedisWsBackend --------------------------
(* Model-checking instance of RedisWsBackend: two clients, two keys.       *)
EXTENDS RedisWsBackend, TLC

CONSTANTS c1, c2

MCClients == {c1, c2}

\* Clients are interchangeable: the backend broadcasts to all of them alike.
ClientSymmetry == Permutations(MCClients)
=============================================================================
