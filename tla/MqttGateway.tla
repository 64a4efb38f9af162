---------------------------- MODULE MqttGateway ----------------------------
(***************************************************************************)
(* The MQTT client and the Home Assistant entities                         *)
(* (components/mqtt_gateway/mqtt_gateway.c).  Four tasks run its code: the *)
(* client's own task (the event handler), the network event loop (start    *)
(* and stop), the timer task (the status timer) and the modem's reader     *)
(* (publish_inbound).                                                      *)
(*                                                                         *)
(* What a task has still to do is a list of steps, todo[t]: publications   *)
(* and calls.  ESP-IDF's client, external here, dispatches an event with   *)
(* its API lock held, so the lock is free when the client's task has       *)
(* nothing to do; esp_mqtt_client_publish, start and stop wait for it.     *)
(***************************************************************************)
EXTENDS Naturals, Sequences

CONSTANTS
  Watched,      \* the topics a model follows; publications to others leave no trace
  WireRoom,     \* publications the connection takes before a write blocks
  OutboxRoom,   \* publications there is memory to keep without a connection
  EarlierCount, \* the number an earlier start of the gateway last published
  MaxCommands,  \* bound: commands from Home Assistant
  MaxInbound,   \* bound: messages the modem receives while connected
  MaxLosses     \* bound: connections broken and networks lost

ASSUME RoomAssumption ==
  WireRoom \in Nat \ {0} /\ OutboxRoom \in Nat /\ EarlierCount \in Nat

(* The two topics that are published without the retain flag are no state. *)
ASSUME WatchedAssumption == Watched \cap {"none", "incoming", "message_received/event"} = {}

Tasks == {"mqtt", "evloop", "timer", "reader"}

VARIABLES
  s_connected, s_discovery_done,
  s_number_buf, s_message_buf,  \* what Home Assistant's text entities hold: "empty" or "text"
  s_sent_count, s_recv_count,
  todo,       \* steps each task has left; the client's task: of its event handler
  at_mutex,   \* who talks to the modem, "none" if nobody does
  link,       \* the client: stopped, without a connection, connected, or broken unnoticed
  wire,       \* publications written to the connection and not taken by the broker
  unacked,    \* the client's outbox: to be sent when there is a connection again
  session,    \* the broker takes the connection for alive
  retained,   \* the publication the broker keeps of each topic
  commands, losses

bufVars    == <<s_number_buf, s_message_buf>>
counts     == <<s_sent_count, s_recv_count>>
flags      == <<s_connected, s_discovery_done>>
clientVars == <<link, wire, unacked>>
brokerVars == <<session, retained>>
bounds     == <<commands, losses>>
vars == <<flags, bufVars, counts, todo, at_mutex, clientVars, brokerVars, bounds>>

Step(op, topic, word) == [op |-> op, topic |-> topic, word |-> word, n |-> 0]

(* The word "count" stands for a number that is formatted with the rest.   *)
Say(topic, word) == IF topic \in Watched THEN <<Step("pub", topic, word)>> ELSE <<>>
Call(op) == <<Step(op, "none", "none")>>

(* Mutation: the status leaves out what was received.                      *)
CountsSentOnly == Say("sent_count", "count")

Counts == Say("sent_count", "count") \o Say("received_count", "count")
SendStatus(word) == Say("send_status", word)
ButtonState(word) == Say("send_button/state", word)

(* publish_discovery                                                       *)
Config(entity) == Say(entity, "config")

Entities ==
  Config("binary_sensor/gateway_status") \o Config("text/number") \o Config("text/message")
  \o Config("button/send_button") \o Config("sensor/incoming_from")
  \o Config("sensor/incoming_body") \o Config("sensor/incoming_time") \o Config("sensor/signal")
  \o Config("sensor/operator") \o Config("sensor/send_status") \o Config("sensor/last_sent_to")
  \o Config("sensor/last_sent_body") \o Config("sensor/sent_count")
  \o Config("sensor/received_count")

Automations == Config("message_received/config") \o Config("send_sms/config")

(* What the broker has kept of an earlier start.  The counters are in RAM  *)
(* only and start again from zero; the broker's session of that start may  *)
(* not have ended, and its will not have been published.                   *)
Old(topic, word, n) == [op |-> "earlier", topic |-> topic, word |-> word, n |-> n]

Earlier(alive) ==
  {pub \in {Old("status", IF alive THEN "online" ELSE "offline", 0),
            Old("sent_count", "count", EarlierCount),
            Old("received_count", "count", EarlierCount)} : pub.topic \in Watched}

Init ==
  /\ s_connected = FALSE /\ s_discovery_done = FALSE
  /\ s_number_buf = "empty" /\ s_message_buf = "empty"
  /\ s_sent_count = 0 /\ s_recv_count = 0
  /\ todo = [t \in Tasks |-> <<>>]
  /\ at_mutex = "none"
  /\ link = "down" /\ wire = <<>> /\ unacked = <<>>
  /\ session \in BOOLEAN
  /\ retained = Earlier(session) \/ (retained = {} /\ ~session)
  /\ commands = 0 /\ losses = 0

Free(t) == todo[t] = <<>>
LockFree == Free("mqtt")
At(t, op) == ~Free(t) /\ Head(todo[t]).op = op
Begin(t, steps) == Free(t) /\ todo' = [todo EXCEPT ![t] = steps]
Go(t, steps) == todo' = [todo EXCEPT ![t] = steps \o Tail(@)]

-----------------------------------------------------------------------------
(* Steps of any task                                                       *)

Number(topic) == IF topic = "sent_count" THEN s_sent_count ELSE s_recv_count

Formatted(step) ==
  [step EXCEPT !.op = "enqueue", !.n = IF step.word = "count" THEN Number(step.topic) ELSE 0]

(* pub and pub_rel: nothing is published without a connection.  The check  *)
(* and the value come before the wait for the client's lock.               *)
Pub(t) ==
  /\ At(t, "pub")
  /\ Go(t, IF s_connected THEN <<Formatted(Head(todo[t]))>> ELSE <<>>)
  /\ UNCHANGED <<flags, bufVars, counts, at_mutex, clientVars, brokerVars, bounds>>

(* esp_mqtt_client_publish with QoS 1.                                     *)
Enqueue(t) ==
  /\ At(t, "enqueue")
  /\ t = "mqtt" \/ LockFree
  /\ IF link = "up"
       THEN Len(wire) < WireRoom /\ wire' = Append(wire, Head(todo[t])) /\ UNCHANGED unacked
       ELSE /\ unacked' = IF Len(unacked) < OutboxRoom
                            THEN Append(unacked, Head(todo[t])) ELSE unacked
            /\ UNCHANGED wire
  /\ Go(t, <<>>)
  /\ UNCHANGED <<flags, bufVars, counts, at_mutex, link, brokerVars, bounds>>

(* mqtt_gw_publish_status asks the modem for its signal first.             *)
StatusCall(t) ==
  /\ At(t, "publish_status")
  /\ Go(t, IF s_connected THEN Call("csq") \o Say("signal", "text") \o Say("operator", "text") \o Counts
           ELSE <<>>)
  /\ UNCHANGED <<flags, bufVars, counts, at_mutex, clientVars, brokerVars, bounds>>

(* The modem's AT channel: one command at a time.                          *)
AtEnter(t) ==
  /\ \/ At(t, "csq") /\ Go(t, Call("csq_answer"))
     \/ At(t, "sms") /\ Go(t, Call("sms_answer"))
  /\ at_mutex = "none" /\ at_mutex' = t
  /\ UNCHANGED <<flags, bufVars, counts, clientVars, brokerVars, bounds>>

(* Mutation: the failure is reported as a success.                         *)
AfterSendAlwaysSent(ok) == SendStatus("sent")

(* Mutation: a failure is not reported.                                    *)
AfterSendSilent(ok) == IF ok THEN SendStatus("sent") ELSE <<>>

AfterSend(ok) ==
  IF ok THEN SendStatus("sent") \o Say("last_sent_to", "text") \o Say("last_sent_body", "text")
  ELSE SendStatus("failed")

(* Mutation: a failed send does not give the mutex back.                   *)
SmsEndKeepsMutex(t, ok) ==
  /\ At(t, "sms_answer")
  /\ at_mutex' = IF ok THEN "none" ELSE at_mutex
  /\ s_sent_count' = IF ok THEN s_sent_count + 1 ELSE s_sent_count
  /\ Go(t, AfterSend(ok))
  /\ UNCHANGED <<flags, bufVars, s_recv_count, clientVars, brokerVars, bounds>>

(* a7670e_send_sms returns; s_sent_count is raised before anything is      *)
(* published.                                                              *)
SmsEnd(t, ok) ==
  /\ At(t, "sms_answer")
  /\ at_mutex' = "none"
  /\ s_sent_count' = IF ok THEN s_sent_count + 1 ELSE s_sent_count
  /\ Go(t, AfterSend(ok))
  /\ UNCHANGED <<flags, bufVars, s_recv_count, clientVars, brokerVars, bounds>>

(* a7670e_get_status returns ESP_OK whatever the modem says.               *)
CsqEnd(t) ==
  /\ At(t, "csq_answer")
  /\ at_mutex' = "none"
  /\ Go(t, <<>>)
  /\ UNCHANGED <<flags, bufVars, counts, clientVars, brokerVars, bounds>>

(* An answer reaches its caller through the reader, which may be in        *)
(* on_sms_received.                                                        *)
AtAnswer(t) == Free("reader") /\ (CsqEnd(t) \/ \E ok \in BOOLEAN : SmsEnd(t, ok))

(* Mutation: a command that is not answered in time is tried again.        *)
AtTimeoutRetries(t) ==
  /\ \/ At(t, "csq_answer") /\ Go(t, Call("csq"))
     \/ At(t, "sms_answer") /\ Go(t, Call("sms"))
  /\ at_mutex' = "none"
  /\ UNCHANGED <<flags, bufVars, counts, clientVars, brokerVars, bounds>>

AtTimeout(t) == CsqEnd(t) \/ SmsEnd(t, FALSE)

-----------------------------------------------------------------------------
(* mqtt_event_handler, in the client's task                                *)

(* Mutation: "online" is published with the discovery, the first time.     *)
OnConnectedOnlineOnce ==
  (IF s_discovery_done THEN <<>> ELSE Say("status", "online") \o Entities \o Automations)
  \o Say("number/state", s_number_buf) \o Say("message/state", s_message_buf)
  \o ButtonState("idle") \o Call("publish_status")

(* What the handler publishes on MQTT_EVENT_CONNECTED, behind its four     *)
(* subscriptions, which change nothing here.                               *)
OnConnected ==
  Say("status", "online")
  \o (IF s_discovery_done THEN <<>> ELSE Entities \o Automations)
  \o Say("number/state", s_number_buf) \o Say("message/state", s_message_buf)
  \o ButtonState("idle") \o Call("publish_status")

(* The broker publishes the will of a session that did not end properly,   *)
(* at the latest when the client comes back.                               *)
Will == Step("enqueue", "status", "offline")

Kept(pub) == {p \in retained : p.topic # pub.topic} \cup {pub}

WillPublished == retained' = IF session /\ "status" \in Watched THEN Kept(Will) ELSE retained

Connected ==
  /\ link = "down" /\ link' = "up"
  /\ s_connected' = TRUE /\ s_discovery_done' = TRUE
  /\ Begin("mqtt", OnConnected)
  /\ WillPublished /\ session' = TRUE
  /\ wire' = <<>>
  /\ UNCHANGED <<bufVars, counts, at_mutex, unacked, bounds>>

(* The client finds the connection broken between two events, or when a    *)
(* handler publishes.                                                      *)
Disconnected ==
  /\ link = "broken" /\ link' = "down"
  /\ LockFree \/ At("mqtt", "enqueue")
  /\ s_connected' = FALSE
  /\ UNCHANGED <<s_discovery_done, bufVars, counts, todo, at_mutex, wire, unacked, brokerVars,
                 bounds>>

(* handle_incoming_command.                                                *)
Command(steps) ==
  /\ link = "up"
  /\ commands < MaxCommands /\ commands' = commands + 1
  /\ Begin("mqtt", steps)
  /\ UNCHANGED <<flags, counts, at_mutex, clientVars, brokerVars, losses>>

NumberSet(word) ==
  Command(Say("number/state", word)) /\ s_number_buf' = word /\ UNCHANGED s_message_buf

MessageSet(word) ==
  Command(Say("message/state", word)) /\ s_message_buf' = word /\ UNCHANGED s_number_buf

SendButton ==
  /\ Command(IF s_number_buf = "empty" \/ s_message_buf = "empty" THEN SendStatus("failed")
             ELSE SendStatus("sending") \o ButtonState("sending") \o Call("sms")
                  \o ButtonState("idle"))
  /\ UNCHANGED bufVars

(* The "send" topic; what is not JSON with a number and a body is dropped. *)
SendJson(valid) ==
  /\ Command(IF valid THEN SendStatus("sending") \o Call("sms") ELSE <<>>)
  /\ UNCHANGED bufVars

Handler ==
  \/ Connected \/ Disconnected \/ SendButton
  \/ \E word \in {"empty", "text"} : NumberSet(word) \/ MessageSet(word)
  \/ \E valid \in BOOLEAN : SendJson(valid)

-----------------------------------------------------------------------------
(* The other tasks                                                         *)

(* status_timer_cb, once a minute.                                         *)
StatusTimer ==
  /\ Begin("timer", Call("publish_status"))
  /\ UNCHANGED <<flags, bufVars, counts, at_mutex, clientVars, brokerVars, bounds>>

(* on_sms_received, which calls mqtt_gw_publish_inbound.                   *)
InboundSms ==
  /\ s_recv_count < MaxInbound
  /\ Begin("reader", Call("publish_inbound"))
  /\ UNCHANGED <<flags, bufVars, counts, at_mutex, clientVars, brokerVars, bounds>>

(* The incoming message is named by its number.                            *)
PublishInbound ==
  /\ At("reader", "publish_inbound")
  /\ s_recv_count' = IF s_connected THEN s_recv_count + 1 ELSE s_recv_count
  /\ Go("reader", IF s_connected
                    THEN Say("incoming/from", "count") \o Say("incoming/body", "count")
                         \o Say("incoming/time", "count") \o Say("incoming", "count")
                         \o Say("message_received/event", "count") \o Say("received_count", "count")
                    ELSE <<>>)
  /\ UNCHANGED <<flags, bufVars, s_sent_count, at_mutex, clientVars, brokerVars, bounds>>

(* mqtt_gw_wifi_disconnected: the flag first, then the client.             *)
NetworkLost ==
  /\ losses < MaxLosses /\ losses' = losses + 1
  /\ link # "stopped"
  /\ Begin("evloop", Call("stop"))
  /\ s_connected' = FALSE
  /\ UNCHANGED <<s_discovery_done, bufVars, counts, at_mutex, clientVars, brokerVars, commands>>

(* esp_mqtt_client_stop: the outbox goes with the client's task; the       *)
(* broker is told, if it can be reached.                                   *)
Stop ==
  /\ At("evloop", "stop") /\ Go("evloop", <<>>)
  /\ LockFree
  /\ link' = "stopped"
  /\ unacked' = <<>>
  /\ session' = session \/ (link = "up" /\ wire = <<>> /\ session' = FALSE)
  /\ UNCHANGED <<flags, bufVars, counts, at_mutex, wire, retained, bounds>>

(* mqtt_gw_wifi_connected                                                  *)
NetworkBack ==
  /\ link = "stopped"
  /\ Begin("evloop", Call("start"))
  /\ UNCHANGED <<flags, bufVars, counts, at_mutex, clientVars, brokerVars, bounds>>

Start ==
  /\ At("evloop", "start") /\ Go("evloop", <<>>)
  /\ link' = "down"
  /\ UNCHANGED <<flags, bufVars, counts, at_mutex, wire, unacked, brokerVars, bounds>>

-----------------------------------------------------------------------------
(* The connection and the broker.  What is written arrives in order, until *)
(* the session ends; after a break nobody knows how much of it did, and    *)
(* the client sends all of it again, when it is back and idle.             *)

Break ==
  /\ losses < MaxLosses /\ losses' = losses + 1
  /\ link = "up" /\ link' = "broken"
  /\ unacked' = unacked \o wire
  /\ UNCHANGED <<flags, bufVars, counts, todo, at_mutex, wire, brokerVars, commands>>

BrokerTakes ==
  /\ session /\ wire # <<>>
  /\ retained' = Kept(Head(wire))
  /\ wire' = Tail(wire)
  /\ UNCHANGED <<flags, bufVars, counts, todo, at_mutex, link, unacked, session, bounds>>

SessionExpires ==
  /\ session /\ link # "up"
  /\ session' = FALSE
  /\ WillPublished
  /\ UNCHANGED <<flags, bufVars, counts, todo, at_mutex, clientVars, bounds>>

Resend ==
  /\ link = "up" /\ LockFree
  /\ unacked # <<>> /\ Len(wire) < WireRoom
  /\ wire' = Append(wire, Head(unacked)) /\ unacked' = Tail(unacked)
  /\ UNCHANGED <<flags, bufVars, counts, todo, at_mutex, link, brokerVars, bounds>>

-----------------------------------------------------------------------------
Act(t) == Pub(t) \/ Enqueue(t) \/ StatusCall(t) \/ AtEnter(t) \/ AtAnswer(t) \/ AtTimeout(t)

Own == StatusTimer \/ PublishInbound \/ Stop \/ Start

World == InboundSms \/ NetworkLost \/ NetworkBack \/ Break \/ BrokerTakes \/ SessionExpires \/ Resend

Next == (\E t \in Tasks : Act(t)) \/ Handler \/ Own \/ World

Spec == Init /\ [][Next]_vars

(* FreeRTOS runs every task that can run and gives a mutex to a task that  *)
(* waits for it; the client connects, notices a broken connection and      *)
(* sends what it has kept; the timer fires; the broker reads.              *)
FairSpec ==
  /\ Spec
  /\ \A t \in Tasks : SF_vars(Act(t))
  /\ SF_vars(Stop) /\ WF_vars(Start) /\ WF_vars(PublishInbound) /\ WF_vars(StatusTimer)
  /\ WF_vars(Connected \/ Disconnected)
  /\ SF_vars(Resend) /\ WF_vars(BrokerTakes)

-----------------------------------------------------------------------------
Ops == {"pub", "enqueue", "publish_status", "csq", "csq_answer", "sms", "sms_answer",
        "publish_inbound", "stop", "start"}
Words == {"none", "empty", "text", "online", "offline", "config", "idle", "sending", "sent",
          "failed", "count"}

Steps == [op : Ops, topic : Watched \cup {"none"}, word : Words, n : Nat]
Publications == {s \in Steps : s.op = "enqueue" /\ s.topic \in Watched}
OldPublications == [op : {"earlier"}, topic : Watched, word : Words, n : Nat]

(* Every variable has the values the code can give it; the broker keeps    *)
(* one publication of a topic, and who holds at_mutex waits for the modem. *)
TypeOK ==
  /\ s_connected \in BOOLEAN /\ s_discovery_done \in BOOLEAN
  /\ s_number_buf \in {"empty", "text"} /\ s_message_buf \in {"empty", "text"}
  /\ s_sent_count \in Nat /\ s_recv_count \in Nat
  /\ todo \in [Tasks -> Seq(Steps)]
  /\ at_mutex \in Tasks \cup {"none"}
  /\ \A t \in Tasks : at_mutex = t <=> At(t, "csq_answer") \/ At(t, "sms_answer")
  /\ link \in {"stopped", "down", "up", "broken"}
  /\ wire \in Seq(Publications) /\ unacked \in Seq(Publications)
  /\ Len(wire) <= WireRoom
  /\ session \in BOOLEAN
  /\ retained \subseteq Publications \cup OldPublications
  /\ \A p, q \in retained : p.topic = q.topic => p = q
  /\ commands \in Nat /\ losses \in Nat

True(pub) ==
  /\ pub.word = "count" => pub.n <= Number(pub.topic)
  /\ pub.word = "sent" => s_sent_count > 0

(* What was published since the start: kept by the broker, on its way, or  *)
(* to be sent again.                                                       *)
InTransit ==
  (retained \ OldPublications)
    \cup {wire[i] : i \in DOMAIN wire} \cup {unacked[i] : i \in DOMAIN unacked}

(* Since its start the gateway has never told Home Assistant of a message  *)
(* that was not sent or not received, whatever is sent again after a       *)
(* break: no counter it published is ahead of its own, and "sent"          *)
(* (mqtt_gateway.c:183) follows a send.  Nothing is said of what the       *)
(* broker has kept of an earlier start.                                    *)
ReportsTrue == \A pub \in InTransit : True(pub)

Shown(topic, word) == \E pub \in retained : pub.topic = topic /\ pub.word = word

ShownCount(topic, n) == \E pub \in retained : pub.topic = topic /\ pub.n = n

(* Every event handler and every callback of the modem's reader returns:   *)
(* the handler that waits for the modem with the client's lock held, the   *)
(* reader that waits for the lock in publish_inbound and the timer that    *)
(* waits for both never wait for each other for good.                      *)
HandlersEnd == \A t \in Tasks : []<>Free(t)

(* When the connection lasts the broker has "online" in the end, although  *)
(* the will of the last session and kept publications come in between.     *)
OnlineTold == <>[](link = "up") => <>[]Shown("status", "online")

(* The network's event loop is about to stop the client.                   *)
Stopping == At("evloop", "stop")

(* A connection is used: pub, which publishes nothing when s_connected is  *)
(* FALSE, drops nothing on a connection that is there to stay, although    *)
(* the client's task and the event loop both write the flag.               *)
ConnectionUsed == link = "up" => s_connected \/ Stopping

(* When nothing is left to be sent on such a connection the broker shows   *)
(* the gateway online, whatever wills and kept publications came before.   *)
OnlineShown ==
  link = "up" /\ ~Stopping /\ "status" \in Watched
    /\ Free("mqtt") /\ wire = <<>> /\ unacked = <<>> => Shown("status", "online")

(* t waits for a lock that u has: the client's, or the modem's mutex.      *)
WaitsFor(t, u) ==
  \/ (At(t, "enqueue") \/ At(t, "stop")) /\ t # "mqtt" /\ u = "mqtt" /\ ~LockFree
  \/ (At(t, "csq") \/ At(t, "sms")) /\ u = at_mutex

(* Who waits for a lock waits for a task that has the modem's mutex and so *)
(* an answer or a timeout ahead, or for the client's task, which waits for *)
(* such a task at most: nobody waits in a circle.                          *)
NoCircularWait ==
  \A t, u, v, w \in Tasks : ~(WaitsFor(t, u) /\ WaitsFor(u, v) /\ WaitsFor(v, w))

(* When the connection lasts the broker has the right count in the end,    *)
(* although publish_inbound publishes nothing without a connection and     *)
(* two tasks publish the counter in either order, and although the broker  *)
(* may have kept the number of an earlier start.                           *)
CountsCatchUp == <>[](link = "up") => <>[]ShownCount("received_count", s_recv_count)

(* The send status does not stay "sending" on a connection that was never  *)
(* broken.  After a break it can: what comes after is not published.       *)
SendReported == Shown("send_status", "sending") ~> ~Shown("send_status", "sending") \/ losses > 0

=============================================================================
