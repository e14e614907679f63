-------------------------------- MODULE WebUi --------------------------------
(***************************************************************************)
(* The KPI#13 web UI as one component (webui/src/App.tsx): the connection  *)
(* logic of WebUiConnection and the tile statistics of TileStats, joined   *)
(* by the `onmessage` handler every socket installs, which hands an image  *)
(* to updateTileImage.  One tile is modelled (the tiles behave alike); a   *)
(* message for another key leaves it unchanged.  The log list written by   *)
(* addLog in every handler is display only and left out.                   *)
(***************************************************************************)
EXTENDS Integers

CONSTANTS MaxSockets, None, MaxTime, MaxUpdates, StatsWindow, BinCount

VARIABLES
    connectionStatus, ws, tileStatus, sock, created,        \* WebUiConnection
    now, lastUpdate, previousUpdate, interarrivalTimes,     \* TileStats
    avgInterarrival, minInterarrival, maxInterarrival, totalUpdates, updates

Conn  == INSTANCE WebUiConnection
Stats == INSTANCE TileStats

connVars  == <<connectionStatus, ws, tileStatus, sock, created>>
statsVars == <<now, lastUpdate, previousUpdate, interarrivalTimes, avgInterarrival,
               minInterarrival, maxInterarrival, totalUpdates, updates>>
vars == <<connVars, statsVars>>

Init == Conn!Init /\ Stats!Init

(* socket.onmessage of socket s: the browser dispatches a message only      *)
(* while s is OPEN, whichever socket is current; the key "1" parses         *)
(* (`/(\d+)/`, minus one) to this tile's index and the image is applied     *)
(* with updateTileImage.                                                    *)
OnMessage(s) ==
    /\ sock[s] = "open"
    /\ Stats!UpdateTileImage
    /\ UNCHANGED connVars

(* A click, a socket event or a browser task of the connection logic.       *)
ConnStep == Conn!Next /\ UNCHANGED statsVars

(* The browser clock advances.                                              *)
Tick == Stats!Tick /\ UNCHANGED connVars

Next ==
    \/ ConnStep
    \/ Tick
    \/ \E s \in Conn!Sockets : OnMessage(s)

Spec == Init /\ [][Next]_vars

-----------------------------------------------------------------------------
(* Properties                                                              *)

(* The UI never keeps a socket alive that it no longer tracks, so only the *)
(* current socket can feed images to the tiles.                           *)
AtMostOneLiveSocket == Conn!AtMostOneLiveSocket

(* Every histogram bar counts exactly the recorded interarrival times its  *)
(* title range covers.                                                     *)
HistogramBinsHoldSamples == Stats!HistogramBinsHoldSamples

=============================================================================
