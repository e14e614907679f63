------------------------------ MODULE TileHub ------------------------------
(***************************************************************************)
(* What the live push path of the KPI#13 viewer promises a browser, with   *)
(* the tester, Redis, the backend's handlers and the channels hidden: a    *)
(* register per client and tile that a writer moves forward.  A tile of an *)
(* open client may change to any version of its key written so far that   *)
(* is newer than the one it shows, and to nothing else; it changes only    *)
(* while the client is connected; versions may be skipped.                 *)
(***************************************************************************)
EXTENDS Naturals

CONSTANTS Keys, Clients

VARIABLES
    versions,   \* versions[k]: versions of k written so far
    connected,  \* the clients that are connected
    shown       \* shown[c][k]: version of k that c shows (0: none yet)

hubVars == <<versions, connected, shown>>

Init ==
    /\ versions = [k \in Keys |-> 0]
    /\ connected = {}
    /\ shown = [c \in Clients |-> [k \in Keys |-> 0]]

\* A new version of k is written.
Write(k) ==
    /\ versions' = [versions EXCEPT ![k] = @ + 1]
    /\ UNCHANGED <<connected, shown>>

Connect(c) ==
    /\ c \notin connected
    /\ connected' = connected \cup {c}
    /\ UNCHANGED <<versions, shown>>

\* A client goes away; its tiles keep what they show.
Disconnect(c) ==
    /\ c \in connected
    /\ connected' = connected \ {c}
    /\ UNCHANGED <<versions, shown>>

\* The tile k of client c moves forward to version v.
Show(c, k, v) ==
    /\ c \in connected
    /\ shown[c][k] < v /\ v <= versions[k]
    /\ shown' = [shown EXCEPT ![c][k] = v]
    /\ UNCHANGED <<versions, connected>>

Next ==
    \/ \E k \in Keys : Write(k)
    \/ \E c \in Clients : Connect(c) \/ Disconnect(c)
    \/ \E c \in Clients, k \in Keys : \E v \in 1..versions[k] : Show(c, k, v)

Spec == Init /\ [][Next]_hubVars

=============================================================================
