--------------------------- MODULE RedisWsBackend ---------------------------
(***************************************************************************)
(* The live push path of the KPI#13 fractal viewer.                        *)
(*                                                                         *)
(*   tester-mandelbrot-redis.ts   SETs keys 1..9 in order, frame after     *)
(*                                frame (one `await redis.set` at a time). *)
(*   Redis                        executes SET/DEL, publishes a keyspace   *)
(*                                notification on the `sub` connection,    *)
(*                                executes the backend's GETs in order.    *)
(*   redis-ws-backend.ts          `pmessage` handler: on 'set' it sends    *)
(*                                GET key, and when the reply arrives      *)
(*                                sends {key, image} to every OPEN         *)
(*                                WebSocket client.                        *)
(*   WebSocket clients            connect, receive, close, reconnect.      *)
(*                                                                         *)
(* An image is abstracted to the version of the key that produced it: the  *)
(* n-th SET of key k writes version n.  Absent (0) is Redis's null reply. *)
(* The hex-to-base64 re-encoding of the handler keeps the bytes, so the    *)
(* pushed message carries the version it read.                             *)
(***************************************************************************)
EXTENDS Integers, Sequences, FiniteSets

CONSTANTS
    NKeys,          \* the tester writes keys 1..NKeys (9 in the code)
    MaxFrames,      \* bound on the tester's frame loop (`while (true)`)
    Clients,        \* WebSocket client connections (model values)
    MaxSessions,    \* bound on connections per client (reconnects)
    ExternalDeletes,\* whether another Redis client may DEL a key
    GetMayFail,     \* whether `await redis.get(key)` may reject
    MaxSubDrops,    \* bound on losses of the `sub` connection
    SlowClients     \* clients whose browser may stop reading its socket

ASSUME NKeys \in 1..9 /\ MaxFrames \in Nat \ {0} /\ MaxSessions \in Nat \ {0}
ASSUME ExternalDeletes \in BOOLEAN /\ GetMayFail \in BOOLEAN /\ MaxSubDrops \in Nat
ASSUME SlowClients \subseteq Clients

Keys    == 1..NKeys
Absent  == 0                      \* `redis.get` resolves to null
Err     == -1                     \* `redis.get` rejects
Version == 0..MaxFrames

VARIABLES
    store,      \* store[k]: version held by Redis for key k, or Absent
    written,    \* written[k]: number of SETs of k so far (next version - 1)
    tIdx,       \* tester loop: index i of the next `redis.set(i, ...)`
    frame,      \* tester loop: completed frames
    subUp,      \* the `sub` connection is up and psubscribed
    subDrops,   \* losses of the `sub` connection so far
    notif,      \* keys of keyspace notifications in flight to `sub` (FIFO)
    pending,    \* GETs sent on `redis`, not yet executed (FIFO)
    replies,    \* executed GETs, reply not yet handled (FIFO)
    cstate,     \* cstate[c]: "open" or "closed" (server readyState)
    session,    \* session[c]: number of connections c has opened
    chan,       \* chan[c]: messages sent to c, not yet received (FIFO)
    view,       \* view[c][k]: version of k the client last received
    setDuring,  \* history: <<k, v>> SET while c's current session is open
    rcvd        \* history: <<k, v>> received in c's current session

vars == <<store, written, tIdx, frame, subUp, subDrops, notif, pending, replies,
          cstate, session, chan, view, setDuring, rcvd>>

Msg == [key : Keys, image : Version \ {Absent}]

TypeOK ==
    /\ store \in [Keys -> Version]
    /\ written \in [Keys -> Version]
    /\ tIdx \in Keys /\ frame \in 0..MaxFrames
    /\ subUp \in BOOLEAN /\ subDrops \in 0..MaxSubDrops
    /\ notif \in Seq(Keys)
    /\ pending \in Seq(Keys)
    /\ replies \in Seq([key : Keys, value : Version \cup {Err}])
    /\ cstate \in [Clients -> {"open", "closed"}]
    /\ session \in [Clients -> 0..MaxSessions]
    /\ chan \in [Clients -> Seq(Msg)]
    /\ view \in [Clients -> [Keys -> Version]]
    /\ setDuring \in [Clients -> SUBSET (Keys \X Version)]
    /\ rcvd \in [Clients -> SUBSET (Keys \X Version)]

Init ==
    /\ store = [k \in Keys |-> Absent]
    /\ written = [k \in Keys |-> 0]
    /\ tIdx = 1 /\ frame = 0
    /\ subUp = TRUE /\ subDrops = 0
    /\ notif = <<>> /\ pending = <<>> /\ replies = <<>>
    /\ cstate = [c \in Clients |-> "closed"]
    /\ session = [c \in Clients |-> 0]
    /\ chan = [c \in Clients |-> <<>>]
    /\ view = [c \in Clients |-> [k \in Keys |-> Absent]]
    /\ setDuring = [c \in Clients |-> {}]
    /\ rcvd = [c \in Clients |-> {}]

OpenClients == {c \in Clients : cstate[c] = "open"}

-----------------------------------------------------------------------------
(* Tester: one iteration of `for (let i = 1; i <= 9; i++)` executes         *)
(* `await redis.set(i.toString(), hexPng)`; Redis applies the SET and       *)
(* publishes `set` on __keyspace@0__:i, which reaches `sub` only while it  *)
(* is subscribed (pub/sub keeps nothing).  After i = 9 the frame ends.      *)
TesterSet ==
    LET v == written[tIdx] + 1 IN
    /\ frame < MaxFrames
    /\ store' = [store EXCEPT ![tIdx] = v]
    /\ written' = [written EXCEPT ![tIdx] = v]
    /\ notif' = IF subUp THEN Append(notif, tIdx) ELSE notif
    /\ setDuring' = [c \in Clients |->
                        IF cstate[c] = "open" THEN setDuring[c] \cup {<<tIdx, v>>}
                        ELSE setDuring[c]]
    /\ tIdx' = IF tIdx = NKeys THEN 1 ELSE tIdx + 1
    /\ frame' = IF tIdx = NKeys THEN frame + 1 ELSE frame
    /\ UNCHANGED <<subUp, subDrops, pending, replies, cstate, session, chan, view,
                   rcvd>>

(* Another Redis client deletes a key.  With the configuration the backend *)
(* requires, `notify-keyspace-events K$`, DEL (a generic command) publishes *)
(* no notification.                                                         *)
ExternalDel(k) ==
    /\ ExternalDeletes
    /\ store[k] # Absent
    /\ store' = [store EXCEPT ![k] = Absent]
    /\ UNCHANGED <<written, tIdx, frame, subUp, subDrops, notif, pending, replies,
                   cstate, session, chan, view, setDuring, rcvd>>

(* The `sub` connection is lost: the notifications in flight on it are     *)
(* gone, and those Redis publishes until ioredis has reconnected and        *)
(* re-issued the psubscribe (autoResubscribe) reach no one.                 *)
SubConnectionLost ==
    /\ subUp /\ subDrops < MaxSubDrops
    /\ subUp' = FALSE /\ subDrops' = subDrops + 1 /\ notif' = <<>>
    /\ UNCHANGED <<store, written, tIdx, frame, pending, replies, cstate, session,
                   chan, view, setDuring, rcvd>>

(* ioredis reconnects `sub` and re-subscribes to __keyspace@0__:*.          *)
SubResubscribed ==
    /\ ~subUp
    /\ subUp' = TRUE
    /\ UNCHANGED <<store, written, tIdx, frame, subDrops, notif, pending, replies,
                   cstate, session, chan, view, setDuring, rcvd>>

(* Faulty variant: a 'set' is skipped when a GET for the same key is       *)
(* already pending or answered, as a de-duplicating handler would do.      *)
OnPmessageSkipInFlight ==
    /\ notif # <<>>
    /\ LET k == Head(notif)
           inFlight == \/ \E i \in 1..Len(pending) : pending[i] = k
                       \/ \E j \in 1..Len(replies) : replies[j].key = k
       IN pending' = IF inFlight THEN pending ELSE Append(pending, k)
    /\ notif' = Tail(notif)
    /\ UNCHANGED <<store, written, tIdx, frame, subUp, subDrops, replies, cstate,
                   session, chan, view, setDuring, rcvd>>

(* sub.on('pmessage'): the synchronous part of the async handler.  Under   *)
(* K$ the only event the keys receive is 'set' (the tester issues nothing  *)
(* else), so the `message === 'set'` test passes; the key is cut from the  *)
(* channel name and GET is sent on the `redis` connection; the handler     *)
(* then awaits the reply.                                                   *)
OnPmessage ==
    /\ notif # <<>>
    /\ pending' = Append(pending, Head(notif))
    /\ notif' = Tail(notif)
    /\ UNCHANGED <<store, written, tIdx, frame, subUp, subDrops, replies, cstate,
                   session, chan, view, setDuring, rcvd>>

(* Redis executes the oldest GET of the `redis` connection.  The value is   *)
(* the one the key holds now, not the one that caused the notification.    *)
RedisGet ==
    /\ pending # <<>>
    /\ \E val \in {store[Head(pending)]} \cup (IF GetMayFail THEN {Err} ELSE {}) :
         replies' = Append(replies, [key |-> Head(pending), value |-> val])
    /\ pending' = Tail(pending)
    /\ UNCHANGED <<store, written, tIdx, frame, subUp, subDrops, notif, cstate,
                   session, chan, view, setDuring, rcvd>>

(* Faulty variant: the broadcast waits until every open client has taken  *)
(* what was sent to it before (a send that awaits the socket's drain).     *)
OnGetReplyAwaitDrain ==
    /\ \A c \in OpenClients : chan[c] = <<>>
    /\ replies # <<>>
    /\ LET r == Head(replies) IN
         chan' = IF r.value \in {Err, Absent} THEN chan
                 ELSE [c \in Clients |->
                         IF cstate[c] = "open"
                         THEN Append(chan[c], [key |-> r.key, image |-> r.value])
                         ELSE chan[c]]
    /\ replies' = Tail(replies)
    /\ UNCHANGED <<store, written, tIdx, frame, subUp, subDrops, notif, pending,
                   cstate, session, view, setDuring, rcvd>>

(* Faulty variant: without `if (!value) return` a null reply is pushed.    *)
OnGetReplyPushNull ==
    /\ replies # <<>>
    /\ LET r == Head(replies) IN
         chan' = IF r.value = Err THEN chan
                 ELSE [c \in Clients |->
                         IF cstate[c] = "open"
                         THEN Append(chan[c], [key |-> r.key, image |-> r.value])
                         ELSE chan[c]]
    /\ replies' = Tail(replies)
    /\ UNCHANGED <<store, written, tIdx, frame, subUp, subDrops, notif, pending,
                   cstate, session, view, setDuring, rcvd>>

(* The handler resumes after `await redis.get(key)`: a rejection is caught  *)
(* and logged, `if (!value) return`, otherwise the image is sent to every   *)
(* client whose readyState is OPEN at this moment.  client.send only queues *)
(* the message on the socket: the handler never waits for a client to read. *)
OnGetReply ==
    /\ replies # <<>>
    /\ LET r == Head(replies) IN
         chan' = IF r.value \in {Err, Absent} THEN chan
                 ELSE [c \in Clients |->
                         IF cstate[c] = "open"
                         THEN Append(chan[c], [key |-> r.key, image |-> r.value])
                         ELSE chan[c]]
    /\ replies' = Tail(replies)
    /\ UNCHANGED <<store, written, tIdx, frame, subUp, subDrops, notif, pending,
                   cstate, session, view, setDuring, rcvd>>

(* wss.on('connection'): a client (re)connects; it is a new connection and  *)
(* is sent nothing that was pushed before.                                  *)
Connection(c) ==
    /\ cstate[c] = "closed"
    /\ session[c] < MaxSessions
    /\ cstate' = [cstate EXCEPT ![c] = "open"]
    /\ session' = [session EXCEPT ![c] = @ + 1]
    /\ setDuring' = [setDuring EXCEPT ![c] = {}]
    /\ rcvd' = [rcvd EXCEPT ![c] = {}]
    /\ UNCHANGED <<store, written, tIdx, frame, subUp, subDrops, notif, pending,
                   replies, chan, view>>

(* The connection closes; whatever was in flight to the client is lost.     *)
ClientClose(c) ==
    /\ cstate[c] = "open"
    /\ cstate' = [cstate EXCEPT ![c] = "closed"]
    /\ chan' = [chan EXCEPT ![c] = <<>>]
    /\ UNCHANGED <<store, written, tIdx, frame, subUp, subDrops, notif, pending,
                   replies, session, view, setDuring, rcvd>>

(* The browser's onmessage: the tile of `key` now shows `image`.            *)
ClientReceive(c) ==
    /\ cstate[c] = "open"
    /\ chan[c] # <<>>
    /\ LET m == Head(chan[c]) IN
         /\ view' = [view EXCEPT ![c][m.key] = m.image]
         /\ rcvd' = [rcvd EXCEPT ![c] = @ \cup {<<m.key, m.image>>}]
    /\ chan' = [chan EXCEPT ![c] = Tail(@)]
    /\ UNCHANGED <<store, written, tIdx, frame, subUp, subDrops, notif, pending,
                   replies, cstate, session, setDuring>>

Next ==
    \/ TesterSet
    \/ \E k \in Keys : ExternalDel(k)
    \/ SubConnectionLost \/ SubResubscribed
    \/ OnPmessage
    \/ RedisGet
    \/ OnGetReply
    \/ \E c \in Clients : Connection(c) \/ ClientClose(c) \/ ClientReceive(c)

(* The Node event loop runs every queued handler, Redis executes every      *)
(* command it has received, ioredis reconnects a lost connection, and TCP  *)
(* delivers to an open socket whose browser reads it.  The tester, other    *)
(* Redis clients, the users of the browsers and a browser that has stopped *)
(* reading (a SlowClient) owe nothing.                                      *)
Fairness ==
    /\ WF_vars(SubResubscribed)
    /\ WF_vars(OnPmessage)
    /\ WF_vars(RedisGet)
    /\ WF_vars(OnGetReply)
    /\ \A c \in Clients \ SlowClients : WF_vars(ClientReceive(c))

Spec == Init /\ [][Next]_vars /\ Fairness

-----------------------------------------------------------------------------
(* Properties                                                              *)

\* Nothing is in flight between Redis, the backend and client c.
Quiescent(c) == notif = <<>> /\ pending = <<>> /\ replies = <<>> /\ chan[c] = <<>>

(* Once the writes stop and the pipeline drains, every open client shows    *)
(* the current image of every present key that was SET during its session: *)
(* a notification handled while another GET for the same key is in flight  *)
(* must not leave the client with an older image, and a client that has    *)
(* stopped reading its socket must not hold back the others.                *)
Converged ==
    \A c \in OpenClients \ SlowClients : \A k \in Keys :
        (store[k] # Absent /\ \E v \in Version : <<k, v>> \in setDuring[c])
            => view[c][k] = store[k]
EventuallyConverged == <>[]Converged

(* Spec, section 8: every event published while a subscriber is Active is  *)
(* eventually observed by it.  Checked at quiescence: every version SET     *)
(* during an open client's session has been received by it.                *)
EveryWriteDelivered ==
    \A c \in OpenClients : Quiescent(c) => setDuring[c] \subseteq rcvd[c]

(* The live path implements the abstract TileHub: with Redis, the handlers  *)
(* and the channels hidden, every tile of a browser only ever moves to a    *)
(* version of its key that has been written and is newer than the one it    *)
(* shows, and only while the browser is connected, whatever is lost on     *)
(* `sub`, failed on `redis` or deleted by another client.  The mapping:    *)
(* the versions written are the tester's SETs, the connected clients those *)
(* whose readyState is OPEN, and a tile shows what the browser last        *)
(* received for it.                                                         *)
Hub == INSTANCE TileHub
           WITH versions <- written, connected <- OpenClients, shown <- view
HubSpec == Hub!Spec

=============================================================================
