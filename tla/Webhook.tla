------------------------------ MODULE Webhook ------------------------------
(***************************************************************************)
(* From the modem to the webhook (components/webhook/webhook.c,            *)
(* on_sms_received in main/main.c), over the configuration it reads: the   *)
(* modem's reader stores a message and queues it; the worker takes one     *)
(* after the other and posts it to webhook_url.  The reader runs from      *)
(* a7670e_init on, the queue exists only after webhook_init, the last      *)
(* thing app_main does.  A restart empties everything but NVS.             *)
(***************************************************************************)
EXTENDS GwConfig, Sequences, FiniteSets

CONSTANTS
  QueueSize,   \* WEBHOOK_QUEUE_SIZE, 8
  BadUrls,     \* those of Urls esp_http_client_init cannot parse
  MaxArrivals  \* bound: messages the modem delivers

ASSUME WebhookAssumption ==
  QueueSize \in Nat \ {0} /\ BadUrls \subseteq Urls /\ MaxArrivals \in Nat

VARIABLES
  s_queue,   \* the queue: is it there yet (webhook_init), and the messages in it
  reader,    \* what the reader is doing, and with which message
  worker,    \* what the worker is doing, and with which message
  arrivals,  \* number of messages delivered: a message's name
  inbox,     \* messages in the store
  accepted,  \* messages xQueueSend took
  posted,    \* messages the worker's requests have delivered, in that order
  undelivered, \* messages whose request failed
  excused    \* accepted messages a restart took, or the configuration forbade

fates == <<posted, undelivered>>
hookVars == <<s_queue, reader, worker, arrivals, inbox, accepted, fates, excused>>
vars == <<configVars, hookVars>>

Task(at, msg) == [at |-> at, msg |-> msg]
Resting == Task("idle", 0)

InitHook ==
  /\ s_queue = [ready |-> FALSE, items |-> <<>>]
  /\ reader = Resting /\ worker = Resting
  /\ arrivals = 0
  /\ inbox = {} /\ accepted = {} /\ excused = {}
  /\ posted = <<>> /\ undelivered = {}

Init == InitConfig /\ InitHook

(* What a restart does to the rest of the program.                         *)
RestartHook ==
  /\ s_queue' = [ready |-> FALSE, items |-> <<>>]
  /\ reader' = Resting /\ worker' = Resting
  /\ inbox' = {}
  /\ excused' = excused \cup {s_queue.items[i] : i \in DOMAIN s_queue.items}
                        \cup (IF worker.msg # 0 THEN {worker.msg} ELSE {})
  /\ UNCHANGED <<arrivals, accepted, fates>>

(* A task aborts the program.                                              *)
Crash == Restart /\ RestartHook /\ UNCHANGED <<restarts, faults>>

-----------------------------------------------------------------------------
(* The modem's reader task: on_sms_received.                               *)

Arrive ==
  /\ boot = "up" /\ reader = Resting
  /\ arrivals < MaxArrivals /\ arrivals' = arrivals + 1
  /\ inbox' = inbox \cup {arrivals'}
  /\ reader' = Task("webhook_send", arrivals')
  /\ UNCHANGED <<configVars, s_queue, worker, accepted, fates, excused>>

(* webhook_send                                                            *)
SendDisabled ==
  /\ reader.at = "webhook_send"
  /\ s_config["webhook_en"] = "false"
  /\ reader' = Resting
  /\ UNCHANGED <<configVars, s_queue, worker, arrivals, inbox, accepted, fates, excused>>

SendEnabled ==
  /\ reader.at = "webhook_send"
  /\ s_config["webhook_en"] = "true"
  /\ reader' = [reader EXCEPT !.at = "xQueueSend"]
  /\ UNCHANGED <<configVars, s_queue, worker, arrivals, inbox, accepted, fates, excused>>

(* xQueueSend asserts that there is a queue.                               *)
SendToNull == reader.at = "xQueueSend" /\ ~s_queue.ready /\ Crash

SendQueued ==
  /\ reader.at = "xQueueSend" /\ s_queue.ready
  /\ Len(s_queue.items) < QueueSize
  /\ s_queue' = [s_queue EXCEPT !.items = Append(@, reader.msg)]
  /\ accepted' = accepted \cup {reader.msg}
  /\ reader' = Resting
  /\ UNCHANGED <<configVars, worker, arrivals, inbox, fates, excused>>

(* The queue was full for 100 ms: the message is not posted.               *)
SendDropped ==
  /\ reader.at = "xQueueSend" /\ s_queue.ready
  /\ Len(s_queue.items) = QueueSize
  /\ reader' = Resting
  /\ UNCHANGED <<configVars, s_queue, worker, arrivals, inbox, accepted, fates, excused>>

Reader == SendDisabled \/ SendEnabled \/ SendToNull \/ SendQueued \/ SendDropped

-----------------------------------------------------------------------------
(* webhook_init and webhook_task                                           *)

WebhookInit ==
  /\ boot = "up" /\ ~s_queue.ready
  /\ s_queue' = [s_queue EXCEPT !.ready = TRUE]
  /\ UNCHANGED <<configVars, reader, worker, arrivals, inbox, accepted, fates, excused>>

(* Mutation: a copy of the message stays in the queue.                     *)
WorkerPeeks ==
  /\ worker = Resting /\ s_queue.items # <<>>
  /\ worker' = Task("check", Head(s_queue.items))
  /\ UNCHANGED <<configVars, s_queue, reader, arrivals, inbox, accepted, fates, excused>>

WorkerReceives ==
  /\ worker = Resting /\ s_queue.items # <<>>
  /\ worker' = Task("check", Head(s_queue.items))
  /\ s_queue' = [s_queue EXCEPT !.items = Tail(@)]
  /\ UNCHANGED <<configVars, reader, arrivals, inbox, accepted, fates, excused>>

Forbidden == s_config["webhook_en"] = "false" \/ s_config["webhook_url"] = ""

(* The configuration is looked at again; the client is given the URL later.*)
WorkerChecks ==
  /\ worker.at = "check"
  /\ worker' = IF Forbidden THEN Resting ELSE [worker EXCEPT !.at = "post"]
  /\ excused' = IF Forbidden THEN excused \cup {worker.msg} ELSE excused
  /\ UNCHANGED <<configVars, s_queue, reader, arrivals, inbox, accepted, fates>>

(* esp_http_client_init returns NULL for a URL it cannot parse, and the    *)
(* header is set all the same.                                             *)
WorkerNoClient ==
  worker.at = "post" /\ s_config["webhook_url"] \in BadUrls \cup {""} /\ Crash

(* Mutation: the worker ends when a request fails.                         *)
WorkerFailsForGood ==
  /\ worker.at = "post"
  /\ s_config["webhook_url"] \notin BadUrls \cup {""}
  /\ undelivered' = undelivered \cup {worker.msg}
  /\ worker' = Task("ended", 0)
  /\ UNCHANGED <<configVars, s_queue, reader, arrivals, inbox, accepted, posted, excused>>

(* Mutation: a message whose request failed goes back to the queue.        *)
WorkerTriesAgain ==
  /\ worker.at = "post"
  /\ s_config["webhook_url"] \notin BadUrls \cup {""}
  /\ s_queue' = [s_queue EXCEPT !.items =
                   IF Len(@) < QueueSize THEN Append(@, worker.msg) ELSE @]
  /\ worker' = Resting
  /\ UNCHANGED <<configVars, reader, arrivals, inbox, accepted, fates, excused>>

(* esp_http_client_perform, ten seconds at most, returns ESP_OK: the       *)
(* webhook has answered.                                                   *)
WorkerPosts ==
  /\ worker.at = "post"
  /\ s_config["webhook_url"] \notin BadUrls \cup {""}
  /\ posted' = Append(posted, worker.msg)
  /\ worker' = Resting
  /\ UNCHANGED <<configVars, s_queue, reader, arrivals, inbox, accepted, undelivered, excused>>

(* It returns an error, which is logged; there is no second request.       *)
WorkerFails ==
  /\ worker.at = "post"
  /\ s_config["webhook_url"] \notin BadUrls \cup {""}
  /\ undelivered' = undelivered \cup {worker.msg}
  /\ worker' = Resting
  /\ UNCHANGED <<configVars, s_queue, reader, arrivals, inbox, accepted, posted, excused>>

Worker == WorkerReceives \/ WorkerChecks \/ WorkerNoClient \/ WorkerPosts \/ WorkerFails

-----------------------------------------------------------------------------
(* The configuration's own steps; those that restart the program restart   *)
(* all of it.                                                              *)
ConfigSteps ==
  \/ (FlashErased \/ Load \/ LoadFails \/ KeepKey \/ GenerateKey \/ Posting \/ SaveKey \/ SaveEnd)
     /\ UNCHANGED hookVars
  \/ (PowerFails \/ OpenFails) /\ RestartHook

Next == ConfigSteps \/ Arrive \/ Reader \/ WebhookInit \/ Worker

Spec == Init /\ [][Next]_vars

(* Every task that can run does; app_main gets to its end.                 *)
FairSpec ==
  /\ Spec
  /\ WF_vars(ConfigSteps /\ boot # "up" /\ faults' = faults) /\ WF_vars(Reader)
  /\ WF_vars(WebhookInit) /\ WF_vars(Worker)

-----------------------------------------------------------------------------
Waiting == {s_queue.items[i] : i \in DOMAIN s_queue.items}
InHand == IF worker.msg = 0 THEN {} ELSE {worker.msg}

(* Every variable has the values the code can give it; nobody runs before  *)
(* the configuration is there, and no queue is longer than its size.       *)
HookTypeOK ==
  /\ s_queue \in [ready : BOOLEAN, items : Seq(Nat)]
  /\ Len(s_queue.items) <= QueueSize
  /\ reader \in [at : {"idle", "webhook_send", "xQueueSend"}, msg : Nat]
  /\ worker \in [at : {"idle", "check", "post"}, msg : Nat]
  /\ boot # "up" => reader = Resting /\ worker = Resting /\ ~s_queue.ready
  /\ arrivals \in Nat
  /\ inbox \subseteq 1..arrivals /\ accepted \subseteq 1..arrivals /\ excused \subseteq 1..arrivals
  /\ posted \in Seq(Nat) /\ undelivered \subseteq 1..arrivals

(* A message the queue took is posted, was given up because its request    *)
(* failed, is still on its way, was taken by a restart or was held back by *)
(* the configuration: no other way out, and only one of them.  So nothing  *)
(* that was posted or failed is tried a second time, nothing is both given *)
(* up and delivered, and nothing disappears on the way.                    *)
NothingLost ==
  LET done == {posted[i] : i \in DOMAIN posted} IN
  /\ accepted = done \cup undelivered \cup Waiting \cup InHand \cup excused
  /\ Waiting \cap InHand = {} /\ done \cap undelivered = {}
  /\ (done \cup undelivered) \cap (Waiting \cup InHand \cup excused) = {}
  /\ excused \cap (Waiting \cup InHand) = {}

(* The webhook is told of messages in the order they came, and once of     *)
(* each, over restarts and requests that fail.                             *)
PostedInOrder == \A i, j \in DOMAIN posted : i < j => posted[i] < posted[j]

(* What the queue took and what is still to be decided, oldest first: the  *)
(* message in the worker's hand is part of it.                             *)
Backlog == (IF worker.msg = 0 THEN <<>> ELSE <<worker.msg>>) \o s_queue.items

Queue == INSTANCE MessageQueue WITH
  backlog <- Backlog, Numbers <- 1..MaxArrivals, Room <- QueueSize + 1

(* Reader, queue and worker together are a bounded queue that gives        *)
(* messages out in order, one request for each, and loses them otherwise   *)
(* only all at once, by a restart: no interleaving of them, of changes of  *)
(* the configuration and of failures of power and flash shows anything     *)
(* else.                                                                   *)
ImplementsQueue == Queue!Spec

(* What waits in the queue is taken out of it, however often the program   *)
(* restarts and the configuration changes.                                 *)
QueueDrains == s_queue.items # <<>> ~> s_queue.items = <<>>

=============================================================================
