------------------------------ MODULE MqttLive ------------------------------
(***************************************************************************)
(* The ingestion adapter of es_middleware/app.js (initMqttSubscriber): an  *)
(* MQTT client subscribed to the counters and metrics topics whose         *)
(* 'message' handler JSON.parses each payload and emits it as a 'counter'  *)
(* or 'metric' event on the socket.io namespace '/live', beside two        *)
(* setInterval generators that emit synthetic events on the same           *)
(* namespace.  (The call `initMqttSubscriber()` is commented out in        *)
(* app.js; this models the adapter as written, as it runs once enabled.)   *)
(*                                                                         *)
(* The broker delivers QoS 0 publishes in order on one connection and only *)
(* while the subscription is active; a dropped connection loses what is in *)
(* flight, and mqtt.js reconnects and fires 'connect' again.  A socket.io  *)
(* client receives, in order, what is emitted while it is connected; a     *)
(* reconnecting client starts afresh.  An exception thrown by a listener   *)
(* is uncaught: the Node process exits.                                    *)
(***************************************************************************)
EXTENDS Naturals, Sequences

CONSTANTS
    Clients,        \* socket.io clients of '/live'
    MaxMsgs,        \* bound on upstream publishes (numbered 1..MaxMsgs)
    MaxDrops,       \* bound on MQTT connection losses
    MaxSessions,    \* bound on socket.io connections per client
    MaxTicks,       \* bound on firings of each setInterval generator
    MayBeMalformed  \* whether an upstream payload may be invalid JSON

ASSUME MaxMsgs \in Nat /\ MaxDrops \in Nat /\ MaxSessions \in Nat /\ MaxTicks \in Nat

Topics   == {"counters", "metrics"}     \* 'edgeless-uw-uc-counters', '-metrics'
Msg      == [n : 1..MaxMsgs, topic : Topics, json : BOOLEAN]
Event    == [src : {"mqtt", "timer"}, kind : {"counter", "metric"}, n : 0..MaxMsgs]

VARIABLES
    up,         \* the Node process is running
    mqtt,       \* "connecting" | "subscribing" | "subscribed" | "unsubscribed"
    broker,     \* publishes in flight to the adapter, in order
    sent,       \* number of upstream publishes so far
    drops,      \* MQTT connection losses so far
    ticks,      \* ticks[k]: firings of the generator of kind k
    handled,    \* numbers of the publishes the 'message' handler ran on
    sio,        \* sio[c]: "conn" or "disc"
    sessions,   \* sessions[c]: connections of c so far
    since,      \* since[c]: Len(handled) when c last connected
    inbox,      \* inbox[c]: events emitted to c, not yet received
    got         \* got[c]: numbers of the MQTT events c received this session

vars == <<up, mqtt, broker, sent, drops, ticks, handled, sio, sessions, since, inbox, got>>

TypeOK ==
    /\ up \in BOOLEAN
    /\ mqtt \in {"connecting", "subscribing", "subscribed", "unsubscribed"}
    /\ broker \in Seq(Msg) /\ sent \in 0..MaxMsgs /\ drops \in 0..MaxDrops
    /\ ticks \in [{"counter", "metric"} -> 0..MaxTicks]
    /\ handled \in Seq(1..MaxMsgs)
    /\ sio \in [Clients -> {"conn", "disc"}] /\ sessions \in [Clients -> 0..MaxSessions]
    /\ since \in [Clients -> Nat]
    /\ inbox \in [Clients -> Seq(Event)] /\ got \in [Clients -> SUBSET (1..MaxMsgs)]

Init ==
    /\ up = TRUE
    /\ mqtt = "connecting"
    /\ broker = <<>> /\ sent = 0 /\ drops = 0
    /\ ticks = [k \in {"counter", "metric"} |-> 0]
    /\ handled = <<>>
    /\ sio = [c \in Clients |-> "disc"] /\ sessions = [c \in Clients |-> 0]
    /\ since = [c \in Clients |-> 0]
    /\ inbox = [c \in Clients |-> <<>>] /\ got = [c \in Clients |-> {}]

\* io.of('/live').emit(kind, e): queued to every connected client.
Emit(e) == inbox' = [c \in Clients |-> IF sio[c] = "conn" THEN Append(inbox[c], e) ELSE inbox[c]]

-----------------------------------------------------------------------------
(* mqttClient.on('connect'): subscribe to both topics.                      *)
MqttConnect ==
    /\ up /\ mqtt = "connecting"
    /\ mqtt' = "subscribing"
    /\ UNCHANGED <<up, broker, sent, drops, ticks, handled, sio, sessions, since, inbox, got>>

(* The subscribe callback runs: without an error the broker now routes the *)
(* topics to the client; with one (the SUBACK refused them) it only logs,   *)
(* and the client stays connected with no subscription until the next      *)
(* reconnect.                                                               *)
SubAck(ok) ==
    /\ up /\ mqtt = "subscribing"
    /\ mqtt' = IF ok THEN "subscribed" ELSE "unsubscribed"
    /\ UNCHANGED <<up, broker, sent, drops, ticks, handled, sio, sessions, since, inbox, got>>

(* The MQTT connection drops: QoS 0 messages in flight are lost and mqtt.js *)
(* reconnects (reconnectPeriod), fresh session, no subscription.            *)
MqttDrop ==
    /\ up /\ mqtt # "connecting" /\ drops < MaxDrops
    /\ mqtt' = "connecting" /\ broker' = <<>> /\ drops' = drops + 1
    /\ UNCHANGED <<up, sent, ticks, handled, sio, sessions, since, inbox, got>>

(* Environment: a device publishes on a topic; it reaches the adapter only  *)
(* while the subscription is active.                                        *)
Publish(t, j) ==
    /\ sent < MaxMsgs /\ (j \/ MayBeMalformed)
    /\ sent' = sent + 1
    /\ broker' = IF up /\ mqtt = "subscribed"
                 THEN Append(broker, [n |-> sent + 1, topic |-> t, json |-> j])
                 ELSE broker
    /\ UNCHANGED <<up, mqtt, drops, ticks, handled, sio, sessions, since, inbox, got>>

(* mqttClient.on('message'): the counters topic is emitted as 'counter',    *)
(* the metrics topic as 'metric', each with `JSON.parse(message)`; when the *)
(* payload is not JSON the parse throws out of the listener and the process *)
(* exits.                                                                   *)
OnMessage ==
    LET m    == Head(broker)
        kind == IF m.topic = "counters" THEN "counter" ELSE "metric"
    IN
    /\ up /\ broker # <<>>
    /\ broker' = Tail(broker) /\ handled' = Append(handled, m.n)
    /\ IF m.json THEN Emit([src |-> "mqtt", kind |-> kind, n |-> m.n]) /\ UNCHANGED up
       ELSE up' = FALSE /\ UNCHANGED inbox
    /\ UNCHANGED <<mqtt, sent, drops, ticks, sio, sessions, since, got>>

(* A setInterval generator fires: random counter or metric data.            *)
Timer(k) ==
    /\ up /\ ticks[k] < MaxTicks
    /\ ticks' = [ticks EXCEPT ![k] = @ + 1]
    /\ Emit([src |-> "timer", kind |-> k, n |-> 0])
    /\ UNCHANGED <<up, mqtt, broker, sent, drops, handled, sio, sessions, since, got>>

(* A browser connects to '/live' (io.on('connection')).                     *)
SioConnect(c) ==
    /\ up /\ sio[c] = "disc" /\ sessions[c] < MaxSessions
    /\ sio' = [sio EXCEPT ![c] = "conn"] /\ sessions' = [sessions EXCEPT ![c] = @ + 1]
    /\ since' = [since EXCEPT ![c] = Len(handled)]
    /\ got' = [got EXCEPT ![c] = {}]
    /\ UNCHANGED <<up, mqtt, broker, sent, drops, ticks, handled, inbox>>

(* A browser disconnects ('disconnect'); what was queued to it is lost.     *)
SioDisconnect(c) ==
    /\ up /\ sio[c] = "conn"
    /\ sio' = [sio EXCEPT ![c] = "disc"] /\ inbox' = [inbox EXCEPT ![c] = <<>>]
    /\ UNCHANGED <<up, mqtt, broker, sent, drops, ticks, handled, sessions, since, got>>

(* The browser receives the oldest event queued to it.                      *)
SioReceive(c) ==
    LET e == Head(inbox[c]) IN
    /\ up /\ inbox[c] # <<>>
    /\ inbox' = [inbox EXCEPT ![c] = Tail(@)]
    /\ got' = IF e.src = "mqtt" THEN [got EXCEPT ![c] = @ \cup {e.n}] ELSE got
    /\ UNCHANGED <<up, mqtt, broker, sent, drops, ticks, handled, sio, sessions, since>>

Next ==
    \/ MqttConnect \/ (\E ok \in BOOLEAN : SubAck(ok)) \/ MqttDrop \/ OnMessage
    \/ \E t \in Topics, j \in BOOLEAN : Publish(t, j)
    \/ \E k \in {"counter", "metric"} : Timer(k)
    \/ \E c \in Clients : SioConnect(c) \/ SioDisconnect(c) \/ SioReceive(c)

(* The event loop runs every queued callback, mqtt.js keeps reconnecting,   *)
(* and TCP delivers to a connected browser.  Devices, browsers and the      *)
(* network owe nothing.                                                     *)
Fairness ==
    /\ WF_vars(MqttConnect) /\ WF_vars(\E ok \in BOOLEAN : SubAck(ok)) /\ WF_vars(OnMessage)
    /\ \A c \in Clients : WF_vars(SioReceive(c))

Spec == Init /\ [][Next]_vars /\ Fairness

-----------------------------------------------------------------------------
(* Properties                                                              *)

(* Spec 7 and 8 (DecodeError): a malformed upstream payload is dropped and *)
(* counted at the adapter and never stops the live path.                   *)
MalformedPayloadDropped == up

=============================================================================
