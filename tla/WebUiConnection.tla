-------------------------- MODULE WebUiConnection --------------------------
(***************************************************************************)
(* The connection logic of the KPI#13 web UI (webui/src/App.tsx):          *)
(* connectToWs, disconnectFromWs and the onopen / onerror / onclose        *)
(* handlers every socket it creates installs.  The handlers close over the *)
(* React setters, not over the socket that is current, so an event of a    *)
(* replaced socket still changes what the UI shows.                        *)
(*                                                                         *)
(* A socket follows the browser's WebSocket life cycle; "error" and        *)
(* "closeq" are CLOSED sockets whose error / close event is still queued:  *)
(*   connecting --open--> open --close()--> closing --handshake--> closeq  *)
(*   connecting --fail or close()--> error --onerror--> closeq             *)
(*   open --network drop--> closeq --onclose--> closed                     *)
(* The user may click between any two of these browser tasks.              *)
(***************************************************************************)
EXTENDS Naturals

CONSTANTS
    MaxSockets,     \* bound on `new WebSocket(wsUrl)` calls
    None            \* `ws` is null

ASSUME MaxSockets \in Nat \ {0}

Sockets    == 1..MaxSockets
SockState  == {"unused", "connecting", "open", "closing", "error", "closeq", "closed"}
Status     == {"connecting", "connected", "disconnected"}

VARIABLES
    connectionStatus,   \* React state `connectionStatus`
    ws,                 \* React state `ws`: the current socket, or None
    tileStatus,         \* status shown on every tile (all are set alike)
    sock,               \* sock[s]: life-cycle state of socket s
    created             \* number of sockets created so far

vars == <<connectionStatus, ws, tileStatus, sock, created>>

TypeOK ==
    /\ connectionStatus \in Status
    /\ ws \in Sockets \cup {None}
    /\ tileStatus \in {"connected", "disconnected"}
    /\ sock \in [Sockets -> SockState]
    /\ created \in 0..MaxSockets

Init ==
    /\ connectionStatus = "disconnected"
    /\ ws = None
    /\ tileStatus = "disconnected"
    /\ sock = [s \in Sockets |-> "unused"]
    /\ created = 0

\* WebSocket.close(): fails a connecting socket, starts the closing
\* handshake of an open one, and does nothing otherwise.
Close(st) ==
    CASE st = "connecting" -> "error"
      [] st = "open"       -> "closing"
      [] OTHER             -> st

-----------------------------------------------------------------------------
(* Faulty variant: connectToWs without `if (ws) { ws.close(); }`.          *)
ConnectToWsNoClose ==
    LET s == created + 1 IN
    /\ connectionStatus = "disconnected"
    /\ created < MaxSockets
    /\ sock' = [sock EXCEPT ![s] = "connecting"]
    /\ created' = s
    /\ ws' = s
    /\ connectionStatus' = "connecting"
    /\ UNCHANGED tileStatus

(* connectToWs, reachable only through the Connect button, which is shown   *)
(* while connectionStatus = 'disconnected': close the current socket if     *)
(* any, then create a new one and make it current.                          *)
ConnectToWs ==
    LET s == created + 1
        closed == IF ws = None THEN sock ELSE [sock EXCEPT ![ws] = Close(@)]
    IN
    /\ connectionStatus = "disconnected"
    /\ created < MaxSockets
    /\ sock' = [closed EXCEPT ![s] = "connecting"]
    /\ created' = s
    /\ ws' = s
    /\ connectionStatus' = "connecting"
    /\ UNCHANGED tileStatus

(* connectToWs when `new window.WebSocket(wsUrl)` throws (a malformed URL   *)
(* typed in the input): the old socket was already closed, `ws` keeps it,   *)
(* and the catch sets 'disconnected'.                                       *)
ConnectToWsThrows ==
    /\ connectionStatus = "disconnected"
    /\ ws # None
    /\ sock' = [sock EXCEPT ![ws] = Close(@)]
    /\ UNCHANGED <<connectionStatus, ws, tileStatus, created>>

(* disconnectFromWs, behind the Disconnect button shown while the status is *)
(* 'connecting' or 'connected'; it does nothing when `ws` is null.          *)
DisconnectFromWs ==
    /\ connectionStatus # "disconnected"
    /\ ws # None
    /\ sock' = [sock EXCEPT ![ws] = Close(@)]
    /\ ws' = None
    /\ connectionStatus' = "disconnected"
    /\ tileStatus' = "disconnected"
    /\ UNCHANGED created

(* socket.onopen of socket s, whichever socket is current.                  *)
OnOpen(s) ==
    /\ sock[s] = "connecting"
    /\ sock' = [sock EXCEPT ![s] = "open"]
    /\ connectionStatus' = "connected"
    /\ tileStatus' = "connected"
    /\ UNCHANGED <<ws, created>>

(* The connection attempt of s fails (server down, refused).                *)
ConnectFails(s) ==
    /\ sock[s] = "connecting"
    /\ sock' = [sock EXCEPT ![s] = "error"]
    /\ UNCHANGED <<connectionStatus, ws, tileStatus, created>>

(* socket.onerror of s.                                                     *)
OnError(s) ==
    /\ sock[s] = "error"
    /\ sock' = [sock EXCEPT ![s] = "closeq"]
    /\ connectionStatus' = "disconnected"
    /\ UNCHANGED <<ws, tileStatus, created>>

(* The backend closes or the network drops an open socket.                  *)
Dropped(s) ==
    /\ sock[s] = "open"
    /\ sock' = [sock EXCEPT ![s] = "closeq"]
    /\ UNCHANGED <<connectionStatus, ws, tileStatus, created>>

(* The closing handshake started by close() completes.                      *)
CloseHandshake(s) ==
    /\ sock[s] = "closing"
    /\ sock' = [sock EXCEPT ![s] = "closeq"]
    /\ UNCHANGED <<connectionStatus, ws, tileStatus, created>>

(* socket.onclose of s, whichever socket is current.                        *)
OnClose(s) ==
    /\ sock[s] = "closeq"
    /\ sock' = [sock EXCEPT ![s] = "closed"]
    /\ connectionStatus' = "disconnected"
    /\ tileStatus' = "disconnected"
    /\ UNCHANGED <<ws, created>>

Next ==
    \/ ConnectToWs \/ ConnectToWsThrows \/ DisconnectFromWs
    \/ \E s \in Sockets :
         \/ OnOpen(s) \/ ConnectFails(s) \/ OnError(s) \/ Dropped(s)
         \/ CloseHandshake(s) \/ OnClose(s)

(* The browser dispatches every queued event and completes every closing    *)
(* handshake (it times out if the server is silent).  The user, the server  *)
(* and the network owe nothing.                                             *)
Fairness ==
    \A s \in Sockets :
        /\ WF_vars(OnError(s)) /\ WF_vars(OnClose(s)) /\ WF_vars(CloseHandshake(s))

Spec == Init /\ [][Next]_vars /\ Fairness

-----------------------------------------------------------------------------
(* Properties                                                              *)

LiveSockets == {s \in Sockets : sock[s] \in {"connecting", "open"}}

(* The UI never keeps a socket alive that it no longer tracks: every socket *)
(* that is connecting or open is the current `ws`.  connectToWs and         *)
(* disconnectFromWs must close the old socket before they drop it, even     *)
(* when a stale event has reset the status.                                 *)
AtMostOneLiveSocket == \A s \in LiveSockets : s = ws

(* What the UI shows matches the socket it uses: while the current socket  *)
(* is open, the status is 'connected' (and the Disconnect button shown).   *)
CurrentOpenShownConnected ==
    (ws # None /\ sock[ws] = "open") => connectionStatus = "connected"

=============================================================================
