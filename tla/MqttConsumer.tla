---------------------------- MODULE MqttConsumer ----------------------------
(***************************************************************************)
(* PahoMqttConsumer: one consumer process between an MQTT broker and the   *)
(* ingestion runtime, with a persistent session, QoS 1 and manual          *)
(* acknowledgement.                                                        *)
(*                                                                         *)
(* The broker and the client library are external and are modelled by what *)
(* the code relies on.  The broker creates the session when it accepts     *)
(* CONNECT, keeps subscription and unacknowledged messages while the       *)
(* client is away, sends at most Window unacknowledged messages, and sends *)
(* them again on the next connection, never on the same one.  The library  *)
(* runs every callback on one thread, which also reconnects.  TCP delivers *)
(* in order until the connection breaks, and then loses what is under way. *)
(***************************************************************************)
EXTENDS MqttRuntime

CONSTANTS
    Consumer,       \* the process; Runtimes is {Consumer}
    Window,         \* the broker's limit of messages in flight
    MaxPublished,   \* bound: messages published
    MaxLosses       \* bound: broken connections, stops, crashes and so on

ASSUME ConsumerAssumption ==
    /\ Runtimes = {Consumer}
    /\ Window \in Nat \ {0}
    /\ MaxPublished \in Nat
    /\ MaxLosses \in Nat

VARIABLES
    \* the broker
    session,        \* it holds a session for the client id
    subscribed,     \* that session has the subscription
    queue,          \* messages of the session not acknowledged, oldest first
    given,          \* the mids of those sent on the present connection
    published,      \* messages published so far; also the last mid used
    \* the connection
    link,           \* "down", "connack" under way, "up", "broken" unnoticed
    present,        \* session_present of the CONNACK
    toBroker,       \* packets under way to the broker
    \* the consumer
    app,            \* the application thread: see Apps
    connected,      \* _connected
    ever,           \* _ever_connected
    handling,       \* mid of the message on_message is at work on, or 0
    errors,         \* kinds of entries in _callback_errors
    \* ghosts
    owed,           \* messages the broker took charge of for the session
    settled,        \* messages some delivery rejected
    interrupted,    \* the session was set up without its subscription: the
                    \* connection broke first, or the broker refused it
    losses

clientVars == <<app, connected, ever, handling, errors>>
brokerVars == <<session, subscribed, queue, given, published, owed>>
linkVars == <<link, present, toBroker>>
consumerVars == <<clientVars, brokerVars, linkVars, settled, interrupted, losses>>
vars == <<runtimeVars, consumerVars>>

(* stopped: no network thread.  starting: start waits for _connected.      *)
(* timed_out: it has given up and is about to stop the loop.               *)
Apps == {"stopped", "starting", "timed_out", "running"}
LoopRuns == app # "stopped"

Subscribe == [kind |-> "SUBSCRIBE", mid |-> 0]
Puback(mid) == [kind |-> "PUBACK", mid |-> mid]

MidsOf(q) == {q[i].mid : i \in DOMAIN q}
MessagesOf(q) == {q[i].msg : i \in DOMAIN q}

-----------------------------------------------------------------------------
Init ==
    /\ RuntimeInit
    /\ session = FALSE /\ subscribed = FALSE
    /\ queue = <<>> /\ given = {} /\ published = 0 /\ owed = {}
    /\ link = "down" /\ present = FALSE /\ toBroker = <<>>
    /\ app = "stopped" /\ connected = FALSE /\ ever = FALSE
    /\ handling = 0 /\ errors = {}
    /\ settled = {} /\ interrupted = FALSE /\ losses = 0

-----------------------------------------------------------------------------
(* The broker.                                                             *)

(* A publication reaches the session only if it has the subscription.      *)
Publish(m) ==
    /\ published < MaxPublished
    /\ published' = published + 1
    /\ IF subscribed
       THEN /\ queue' = Append(queue, [mid |-> published + 1, msg |-> m])
            /\ owed' = owed \union {m}
       ELSE UNCHANGED <<queue, owed>>
    /\ UNCHANGED <<runtimeVars, clientVars, linkVars, session, subscribed,
                   given, settled, interrupted, losses>>

BrokerSubscribe ==
    /\ toBroker # <<>> /\ Head(toBroker) = Subscribe
    /\ toBroker' = Tail(toBroker)
    /\ subscribed' = TRUE /\ interrupted' = FALSE
    /\ UNCHANGED <<runtimeVars, clientVars, session, queue, given, published,
                   owed, link, present, settled, losses>>

(* A SUBACK with a failure code: nothing in the consumer looks at it.      *)
BrokerRefuses ==
    /\ toBroker # <<>> /\ Head(toBroker) = Subscribe
    /\ losses < MaxLosses /\ losses' = losses + 1
    /\ toBroker' = Tail(toBroker)
    /\ interrupted' = TRUE
    /\ UNCHANGED <<runtimeVars, clientVars, brokerVars, link, present, settled>>

BrokerPuback ==
    /\ toBroker # <<>> /\ Head(toBroker).kind = "PUBACK"
    /\ toBroker' = Tail(toBroker)
    /\ LET mid == Head(toBroker).mid
           at == {i \in DOMAIN queue : queue[i].mid = mid}
       IN  /\ queue' = IF at = {} THEN queue
                       ELSE RemoveAt(queue, CHOOSE i \in at : TRUE)
           /\ given' = given \ {mid}
    /\ UNCHANGED <<runtimeVars, clientVars, session, subscribed, published,
                   owed, link, present, settled, interrupted, losses>>

(* The session expires or its store is lost while the client is away.      *)
BrokerForgets ==
    /\ link \in {"down", "broken"} /\ session
    /\ losses < MaxLosses /\ losses' = losses + 1
    /\ session' = FALSE /\ subscribed' = FALSE /\ interrupted' = FALSE
    /\ queue' = <<>>
    /\ owed' = owed \ MessagesOf(queue)
    /\ UNCHANGED <<runtimeVars, clientVars, linkVars, given, published, settled>>

-----------------------------------------------------------------------------
(* The connection.                                                         *)

(* Both ends forget what was under way; the client has not noticed yet.    *)
CloseLink(state) ==
    /\ link' = state
    /\ interrupted' =
        (interrupted \/ (link \in {"connack", "up"} /\ session /\ ~subscribed))
    /\ present' = FALSE
    /\ toBroker' = <<>>
    /\ given' = {}

Break ==
    /\ link \in {"connack", "up"}
    /\ losses < MaxLosses /\ losses' = losses + 1
    /\ CloseLink("broken")
    /\ UNCHANGED <<runtimeVars, clientVars, session, subscribed, queue,
                   published, owed, settled>>

(* The network thread connects, first or again; the broker accepts.        *)
Connect ==
    /\ LoopRuns /\ link = "down" /\ handling = 0
    /\ link' = "connack"
    /\ present' = session
    /\ session' = TRUE
    /\ UNCHANGED <<runtimeVars, clientVars, subscribed, queue, given,
                   published, owed, toBroker, settled, interrupted, losses>>

-----------------------------------------------------------------------------
(* The callbacks of the network thread.                                    *)

Connected ==
    /\ connected' = TRUE
    /\ ever' = TRUE
    /\ IF ever THEN RecordReconnect(Consumer) ELSE UNCHANGED runtimeVars

(* _on_connect with reason code 0.                                         *)
MustSubscribeOnce == ~ever          \* fault: only the first connection subscribes

MustSubscribe == ~present

OnConnect ==
    /\ LoopRuns /\ link = "connack" /\ handling = 0
    /\ link' = "up"
    /\ toBroker' = IF MustSubscribe THEN Append(toBroker, Subscribe) ELSE toBroker
    /\ Connected
    /\ UNCHANGED <<brokerVars, present, app, handling, errors, settled,
                   interrupted, losses>>

(* subscribe returns an error: the connection is going away under it.      *)
OnConnectSubscribeFails ==
    /\ LoopRuns /\ link = "connack" /\ handling = 0
    /\ MustSubscribe
    /\ losses < MaxLosses /\ losses' = losses + 1
    /\ errors' = errors \union {"subscribe_failed"}
    /\ CloseLink("broken")
    /\ UNCHANGED <<runtimeVars, session, subscribed, queue, published, owed,
                   app, connected, ever, handling, settled>>

(* _on_disconnect with a reason code other than 0.                         *)
OnDisconnect ==
    /\ LoopRuns /\ link = "broken" /\ handling = 0
    /\ link' = "down"
    /\ connected' = FALSE
    /\ RecordDisconnect(Consumer)
    /\ UNCHANGED <<brokerVars, present, toBroker, app, ever, handling, errors,
                   settled, interrupted, losses>>

(* _on_message begins: the oldest message not sent on this connection.     *)
Sendable(i) ==
    /\ queue[i].mid \notin given
    /\ \A j \in 1 .. i - 1 : queue[j].mid \in given
    /\ Cardinality(given) < Window

EarlyAck(mid) == Append(toBroker, Puback(mid))  \* fault: automatic acknowledgement

PacketsAtReceipt(mid) == toBroker

OnMessage ==
    /\ LoopRuns /\ link = "up" /\ handling = 0
    /\ \E i \in DOMAIN queue, now \in Times :
        /\ Sendable(i)
        /\ given' = given \union {queue[i].mid}
        /\ handling' = queue[i].mid
        /\ toBroker' = PacketsAtReceipt(queue[i].mid)
        /\ Receive(Consumer, queue[i].msg, now)
    /\ UNCHANGED <<session, subscribed, queue, published, owed, link, present,
                   app, connected, ever, errors, settled, interrupted, losses>>

(* The runtime is at work, inside _on_message.                             *)
Classify ==
    /\ handling # 0
    /\ LookUp(Consumer) \/ Ingest(Consumer) \/ Count(Consumer)
    /\ UNCHANGED consumerVars

ClassifyRaises ==
    /\ handling # 0
    /\ Raise(Consumer)
    /\ UNCHANGED consumerVars

(* The runtime has classified the message; it is acknowledged.             *)
ClassifiedEarly ==                  \* fault: does not wait for the runtime
    handling # 0 /\ last[Consumer].disposition # "raised"

Classified == handling # 0 /\ stage[Consumer] = "idle" /\ last[Consumer].disposition # "raised"

Settle ==
    settled' = IF last[Consumer].disposition = "rejected"
               THEN settled \union {message[Consumer]} ELSE settled

OnMessageAcks ==
    /\ Classified
    /\ toBroker' = IF link = "up" THEN Append(toBroker, Puback(handling))
                   ELSE toBroker        \* queued on a dead connection, dropped
    /\ handling' = 0
    /\ Settle
    /\ UNCHANGED <<runtimeVars, brokerVars, link, present, app, connected, ever,
                   errors, interrupted, losses>>

(* client.ack returns an error.                                            *)
OnMessageAckFails ==
    /\ Classified
    /\ link = "broken"
    /\ errors' = errors \union {"ack_failed"}
    /\ handling' = 0
    /\ Settle
    /\ UNCHANGED <<runtimeVars, brokerVars, linkVars, app, connected, ever,
                   interrupted, losses>>

(* The exception is recorded and the message stays unacknowledged.         *)
ErrorsForgotten == errors           \* fault: the exception is swallowed

ErrorsAfterRaise == errors \union {"message_processing_failed"}

OnMessageRaisedEscapes == FALSE     \* fault: the exception ends the thread

OnMessageRaised ==
    /\ handling # 0 /\ stage[Consumer] = "idle"
    /\ last[Consumer].disposition = "raised"
    /\ errors' = ErrorsAfterRaise
    /\ handling' = 0
    /\ UNCHANGED <<runtimeVars, brokerVars, linkVars, app, connected, ever,
                   settled, interrupted, losses>>

-----------------------------------------------------------------------------
(* The application thread.                                                 *)

(* start: connect_async closes what an earlier start left open.            *)
Start ==
    /\ app = "stopped"
    /\ app' = "starting"
    /\ CloseLink("down")
    /\ UNCHANGED <<runtimeVars, session, subscribed, queue, published, owed,
                   connected, ever, handling, errors, settled, losses>>

StartReturns ==
    /\ app = "starting" /\ connected
    /\ app' = "running"
    /\ UNCHANGED <<runtimeVars, brokerVars, linkVars, connected, ever, handling,
                   errors, settled, interrupted, losses>>

(* The wait times out; loop_stop then joins the network thread, which may  *)
(* still run its callbacks, and leaves the socket alone.                   *)
StartTimesOut ==
    /\ app = "starting" /\ ~connected
    /\ losses < MaxLosses /\ losses' = losses + 1
    /\ app' = "timed_out"
    /\ UNCHANGED <<runtimeVars, brokerVars, linkVars, connected, ever, handling,
                   errors, settled, interrupted>>

LoopStop ==
    /\ app = "timed_out" /\ handling = 0
    /\ app' = "stopped"
    /\ UNCHANGED <<runtimeVars, brokerVars, linkVars, connected, ever, handling,
                   errors, settled, interrupted, losses>>

(* stop: DISCONNECT, whose callback has reason code 0, then loop_stop.     *)
Stop ==
    /\ app = "running" /\ link # "broken" /\ handling = 0
    /\ losses < MaxLosses /\ losses' = losses + 1
    /\ app' = "stopped"
    /\ connected' = FALSE
    /\ CloseLink("down")
    /\ UNCHANGED <<runtimeVars, session, subscribed, queue, published, owed,
                   ever, handling, errors, settled>>

(* The process is killed; another one may be started.                      *)
Crash ==
    /\ app # "stopped"
    /\ losses < MaxLosses /\ losses' = losses + 1
    /\ Die(Consumer)
    /\ CloseLink("down")
    /\ app' = "stopped" /\ connected' = FALSE /\ ever' = FALSE
    /\ handling' = 0 /\ errors' = {}
    /\ UNCHANGED <<session, subscribed, queue, published, owed, settled>>

-----------------------------------------------------------------------------
NetworkThread ==
    \/ Connect \/ OnConnect \/ OnDisconnect
    \/ OnMessage \/ Classify
    \/ OnMessageAcks \/ OnMessageAckFails \/ OnMessageRaised

Broker == BrokerSubscribe \/ BrokerPuback

Environment ==
    \/ \E m \in Deliveries : Publish(m)
    \/ BrokerForgets \/ BrokerRefuses \/ Break \/ OnConnectSubscribeFails \/ ClassifyRaises
    \/ Start \/ StartTimesOut \/ Stop \/ Crash

Application == StartReturns \/ LoopStop

Next == NetworkThread \/ Broker \/ Application \/ Environment

Spec == Init /\ [][Next]_vars

(* The network thread, the broker and the application thread keep going;   *)
(* nothing is assumed of publications, failures, starts and stops.         *)
FairSpec ==
    /\ Spec
    /\ WF_vars(NetworkThread)
    /\ WF_vars(Broker)
    /\ WF_vars(Application)

-----------------------------------------------------------------------------
(* Properties.                                                             *)

(* Types; a message is in the hands of the runtime only inside _on_message.*)
TypeOK ==
    /\ RuntimeTypeOK
    /\ session \in BOOLEAN /\ subscribed \in BOOLEAN
    /\ queue \in Seq([mid : 1 .. MaxPublished, msg : Deliveries])
    /\ given \subseteq MidsOf(queue)
    /\ published \in 0 .. MaxPublished
    /\ owed \subseteq Deliveries /\ settled \subseteq Deliveries
    /\ link \in {"down", "connack", "up", "broken"}
    /\ present \in BOOLEAN
    /\ toBroker \in Seq([kind : {"SUBSCRIBE", "PUBACK"}, mid : 0 .. MaxPublished])
    /\ app \in Apps
    /\ connected \in BOOLEAN /\ ever \in BOOLEAN
    /\ handling \in 0 .. MaxPublished
    /\ errors \subseteq {"subscribe_failed", "ack_failed",
                         "message_processing_failed"}
    /\ interrupted \in BOOLEAN
    /\ losses \in 0 .. MaxLosses
    /\ stage[Consumer] # "idle" => handling # 0

(* The ledger holds the document of the message, or the message was        *)
(* rejected on its merits.                                                 *)
Done(m) == (m \in Messages /\ Matching(EventFrom(m, 0)) # {}) \/ m \in settled

(* Every message the broker took charge of for the session is still with   *)
(* the broker, in the ledger, or rejected: none is acknowledged and then   *)
(* lost, whatever breaks, raises or crashes (paho_consumer.py:179-195).    *)
NothingLost == \A m \in owed : m \in MessagesOf(queue) \/ Done(m)

(* A message that was sent on this connection, is no longer being handled  *)
(* and has no acknowledgement under way.                                   *)
Stuck(mid) ==
    /\ mid \in given
    /\ handling # mid
    /\ ~Contains(toBroker, Puback(mid))

(* A message left unacknowledged on a live connection is never left so     *)
(* silently: callback_errors says that processing failed.                  *)
StuckIsReported ==
    \A mid \in given : Stuck(mid) => "message_processing_failed" \in errors

(* Every message of the session is eventually acknowledged, or is left     *)
(* unacknowledged with an error, or waits behind a window full of such     *)
(* messages, as long as the application runs.                              *)
Pending(m) == m \in MessagesOf(queue)

Answered ==
    \A m \in Deliveries :
        Pending(m) ~>
            \/ ~Pending(m)
            \/ app = "stopped"
            \/ \E i \in DOMAIN queue : queue[i].msg = m /\ Stuck(queue[i].mid)
            \/ Cardinality({mid \in given : Stuck(mid)}) = Window

Unsubscribed == connected /\ app = "running" /\ ~subscribed

(* A consumer that is connected has, or gets, its subscription back, also  *)
(* when the broker forgot its session meanwhile, except where the setup of *)
(* the session was interrupted: by a connection that broke between CONNECT *)
(* and SUBSCRIBE, or by a refusal (paho_consumer.py:148-160).              *)
SubscriptionKept == Unsubscribed ~> ~Unsubscribed \/ interrupted

(* docs/mqtt-integration-campaign-v1.md:20 and README.md:48: a consumer    *)
(* that is connected has, or gets, its subscription back, so that          *)
(* ingestion resumes.                                                      *)
SubscriptionRestored == Unsubscribed ~> ~Unsubscribed
=============================================================================
