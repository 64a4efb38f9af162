------------------------------ MODULE SmsStore ------------------------------
(***************************************************************************)
(* The in-memory message store (components/sms_store/sms_store.c) and the  *)
(* REST handlers that work on it (components/rest_api/rest_api.c).  The    *)
(* modem's reader task adds inbound messages, the MQTT task and the httpd  *)
(* task add outbound ones, and the httpd task, which does one thing at a   *)
(* time, also lists a box and deletes by id.                               *)
(*                                                                         *)
(* The boxes are protected by s_mutex.  What is not: the counts a listing  *)
(* starts from, and sms_store_next_id, a load, an addition and a store,    *)
(* when it is called from outside the store, as the MQTT task does; its    *)
(* store may put s_id_counter back, and ids are given a second time.       *)
(***************************************************************************)
EXTENDS Naturals, Sequences, FiniteSets, Functions

CONSTANTS
  InboxWriters,  \* tasks that add to the inbox: the modem's reader
  OutboxWriters, \* tasks that add to the outbox: MQTT and httpd
  BareCallers,   \* those that call sms_store_next_id first, without s_mutex: MQTT
  Httpd,         \* the task that serves the REST API
  NoTask,        \* s_mutex when nobody holds it
  Max,           \* CONFIG_SMS_MAX_INBOX and CONFIG_SMS_MAX_OUTBOX, both 50
  ListRoom,      \* messages a listing has room for (JSON_BUF_SIZE)
  MaxAdds        \* bound: messages added in a behaviour

Writers == InboxWriters \cup OutboxWriters
Boxes   == {"inbox", "outbox"}

ASSUME WriterAssumption ==
  /\ InboxWriters \cap OutboxWriters = {}
  /\ BareCallers \subseteq OutboxWriters
  /\ NoTask \notin Writers \cup {Httpd}
ASSUME SizeAssumption == Max \in Nat \ {0} /\ ListRoom \in Nat \ {0} /\ MaxAdds \in Nat

BoxOf(t) == IF t \in InboxWriters THEN "inbox" ELSE "outbox"

VARIABLES
  box,          \* s_inbox and s_outbox, oldest first
  s_id_counter,
  setback,      \* has a bare sms_store_next_id put the counter back?
  s_mutex,
  pc,           \* where each writer is
  loaded,       \* the counter value each writer has loaded
  adds,         \* number of messages ever added: a message's name
  list,         \* the listing being built or last built
  request,      \* the DELETE being served
  deleted       \* what each DELETE was for and what it removed

storeVars == <<box, s_id_counter, setback, s_mutex>>
httpVars  == <<list, request, deleted>>
vars == <<storeVars, pc, loaded, adds, httpVars>>

(* out: the messages written so far, newest first; next: the index to read *)
(* next; start: the box when the count was read; evicted: has a message    *)
(* been pushed out of the box since?                                       *)
NoListing == [open |-> FALSE, of |-> "inbox", next |-> 0, out |-> <<>>, start |-> <<>>,
              evicted |-> FALSE]
NoRequest == [at |-> "none", id |-> 0, name |-> 0]

Init ==
  /\ box = [b \in Boxes |-> <<>>]
  /\ s_id_counter = 1 /\ setback = FALSE
  /\ s_mutex = NoTask
  /\ pc = [t \in Writers |-> "idle"]
  /\ loaded = [t \in Writers |-> 0]
  /\ adds = 0
  /\ list = NoListing
  /\ request = NoRequest
  /\ deleted = {}

Goto(t, to) == pc' = [pc EXCEPT ![t] = to]

(* The httpd task does one thing at a time.                                *)
Serving == list.open \/ request.at # "none"

Idle(t) == pc[t] = "idle" /\ (t = Httpd => ~Serving)

-----------------------------------------------------------------------------
(* Writers.                                                                *)

(* sms_store_next_id outside the mutex, as the MQTT task calls it before   *)
(* it adds the message: its value is overwritten by the store, its store   *)
(* to s_id_counter is not.                                                 *)
BareLoad(t) ==
  /\ Idle(t) /\ t \in BareCallers
  /\ adds < MaxAdds
  /\ loaded' = [loaded EXCEPT ![t] = s_id_counter]
  /\ Goto(t, "bare")
  /\ UNCHANGED <<storeVars, adds, httpVars>>

BareStore(t) ==
  /\ pc[t] = "bare"
  /\ s_id_counter' = loaded[t] + 1
  /\ setback' = (setback \/ loaded[t] + 1 < s_id_counter)
  /\ Goto(t, "enter")
  /\ UNCHANGED <<box, s_mutex, loaded, adds, httpVars>>

(* Mutation: sms_store_inbox_add and _outbox_add do not take the mutex.    *)
AddBeginUnlocked(t) ==
  LET b == BoxOf(t) IN
  /\ pc[t] = "enter" \/ (Idle(t) /\ t \notin BareCallers)
  /\ adds < MaxAdds
  /\ s_mutex' = t
  /\ box' = IF Len(box[b]) >= Max THEN [box EXCEPT ![b] = Tail(@)] ELSE box
  /\ UNCHANGED list
  /\ loaded' = [loaded EXCEPT ![t] = s_id_counter]
  /\ Goto(t, "number")
  /\ UNCHANGED <<s_id_counter, setback, adds, request, deleted>>

(* Mutation: a full box keeps its oldest message.                          *)
AddBeginKeepsOldest(t) ==
  /\ pc[t] = "enter" \/ (Idle(t) /\ t \notin BareCallers)
  /\ adds < MaxAdds
  /\ s_mutex = NoTask
  /\ s_mutex' = t
  /\ loaded' = [loaded EXCEPT ![t] = s_id_counter]
  /\ Goto(t, "number")
  /\ UNCHANGED <<box, s_id_counter, setback, adds, httpVars>>

(* sms_store_inbox_add, sms_store_outbox_add: take the mutex and make      *)
(* room; then number the message; then count it and give the mutex back.   *)
(* In between a reader of the count sees the box without the evicted and   *)
(* without the new message.                                                *)
AddBegin(t) ==
  LET b == BoxOf(t)
      full == Len(box[b]) >= Max IN
  /\ pc[t] = "enter" \/ (Idle(t) /\ t \notin BareCallers)
  /\ adds < MaxAdds
  /\ s_mutex = NoTask
  /\ s_mutex' = t
  /\ box' = IF full THEN [box EXCEPT ![b] = Tail(@)] ELSE box
  /\ list' = IF full /\ list.open /\ list.of = b THEN [list EXCEPT !.evicted = TRUE] ELSE list
  /\ loaded' = [loaded EXCEPT ![t] = s_id_counter]
  /\ Goto(t, "number")
  /\ UNCHANGED <<s_id_counter, setback, adds, request, deleted>>

AddNumber(t) ==
  /\ pc[t] = "number"
  /\ s_id_counter' = loaded[t] + 1
  /\ Goto(t, "count")
  /\ UNCHANGED <<box, setback, s_mutex, loaded, adds, httpVars>>

AddEnd(t) ==
  /\ pc[t] = "count"
  /\ adds' = adds + 1
  /\ box' = [box EXCEPT ![BoxOf(t)] = Append(@, [id |-> loaded[t], name |-> adds + 1])]
  /\ s_mutex' = NoTask
  /\ Goto(t, "idle")
  /\ UNCHANGED <<s_id_counter, setback, loaded, httpVars>>

-----------------------------------------------------------------------------
(* The httpd task: GET /api/sms/inbox, GET /api/sms/outbox and DELETE.     *)
(* While it adds to the outbox (POST /api/sms/send) it serves nothing.     *)

HttpdFree == ~Serving /\ (Httpd \in Writers => pc[Httpd] = "idle")

(* handler_sms_list reads the count without the mutex.                     *)
ListBegin(b) ==
  /\ HttpdFree
  /\ list' = [open |-> TRUE, of |-> b, next |-> Len(box[b]), out |-> <<>>,
              start |-> box[b], evicted |-> FALSE]
  /\ UNCHANGED <<storeVars, pc, loaded, adds, request, deleted>>

(* Mutation: the loop runs upwards.                                        *)
ListGetUpwards ==
  LET i == Len(list.start) - list.next + 1 IN
  /\ list.open
  /\ list.next > 0
  /\ Len(list.out) < ListRoom
  /\ s_mutex = NoTask
  /\ list' = [list EXCEPT !.next = @ - 1,
                !.out = IF i \in DOMAIN box[list.of] THEN Append(@, box[list.of][i]) ELSE @]
  /\ UNCHANGED <<storeVars, pc, loaded, adds, request, deleted>>

(* One turn of its loop, newest first: sms_store_inbox_get copies under    *)
(* the mutex what is at the index by now, if anything is.                  *)
ListGet ==
  /\ list.open
  /\ list.next > 0
  /\ Len(list.out) < ListRoom
  /\ s_mutex = NoTask
  /\ list' = [list EXCEPT !.next = @ - 1,
                !.out = IF list.next <= Len(box[list.of])
                          THEN Append(@, box[list.of][list.next]) ELSE @]
  /\ UNCHANGED <<storeVars, pc, loaded, adds, request, deleted>>

(* The loop ends below the first message or when the buffer is full.       *)
ListEnd ==
  /\ list.open
  /\ list.next = 0 \/ Len(list.out) >= ListRoom
  /\ list' = [list EXCEPT !.open = FALSE]
  /\ UNCHANGED <<storeVars, pc, loaded, adds, request, deleted>>

(* A client asks for the deletion of a message of the last listing.        *)
DeleteBegin(m) ==
  /\ HttpdFree
  /\ m \in Range(list.out)
  /\ request' = [at |-> "inbox", id |-> m.id, name |-> m.name]
  /\ UNCHANGED <<storeVars, pc, loaded, adds, list, deleted>>

Without(s, i) == [j \in 1..(Len(s) - 1) |-> IF j < i THEN s[j] ELSE s[j + 1]]

Ids(b) == {m.id : m \in Range(box[b])}

(* Mutation: the message is remembered by its place, not looked up by id.  *)
DeleteFromByPlace(b) ==
  /\ request.at = b
  /\ s_mutex = NoTask
  /\ \E i \in DOMAIN box[b] :
       /\ i <= Len(list.start) /\ list.start[i].name = request.name
       /\ box' = [box EXCEPT ![b] = Without(@, i)]
       /\ deleted' = deleted \cup {[asked |-> request.name, removed |-> box[b][i].name]}
  /\ request' = NoRequest
  /\ UNCHANGED <<s_id_counter, setback, s_mutex, pc, loaded, adds, list>>

(* sms_store_inbox_delete, sms_store_outbox_delete: the first message with *)
(* the id goes.                                                            *)
DeleteFrom(b) ==
  /\ request.at = b
  /\ s_mutex = NoTask
  /\ \E i \in DOMAIN box[b] :
       /\ box[b][i].id = request.id
       /\ \A j \in 1..(i - 1) : box[b][j].id # request.id
       /\ box' = [box EXCEPT ![b] = Without(@, i)]
       /\ deleted' = deleted \cup {[asked |-> request.name, removed |-> box[b][i].name]}
  /\ request' = NoRequest
  /\ UNCHANGED <<s_id_counter, setback, s_mutex, pc, loaded, adds, list>>

(* handler_delete: an id the inbox does not have is looked for in the      *)
(* outbox, under the mutex again; if neither has it the answer is 404.     *)
DeleteMisses(b) ==
  /\ request.at = b
  /\ s_mutex = NoTask
  /\ request.id \notin Ids(b)
  /\ request' = IF b = "inbox" THEN [request EXCEPT !.at = "outbox"] ELSE NoRequest
  /\ UNCHANGED <<storeVars, pc, loaded, adds, list, deleted>>

-----------------------------------------------------------------------------
Write(t) == BareLoad(t) \/ BareStore(t) \/ AddBegin(t) \/ AddNumber(t) \/ AddEnd(t)

Serve ==
  \/ \E b \in Boxes : ListBegin(b) \/ DeleteFrom(b) \/ DeleteMisses(b)
  \/ ListGet \/ ListEnd
  \/ \E m \in Range(list.out) : DeleteBegin(m)

Next == (\E t \in Writers : Write(t)) \/ Serve

Spec == Init /\ [][Next]_vars

-----------------------------------------------------------------------------
Messages == [id : Nat, name : Nat]

(* Every variable has the values the code can give it; in particular no    *)
(* box ever holds more than CONFIG_SMS_MAX messages.                       *)
TypeOK ==
  /\ box \in [Boxes -> Seq(Messages)]
  /\ \A b \in Boxes : Len(box[b]) <= Max
  /\ s_id_counter \in Nat /\ setback \in BOOLEAN
  /\ s_mutex \in Writers \cup {NoTask}
  /\ pc \in [Writers -> {"idle", "bare", "enter", "number", "count"}]
  /\ loaded \in [Writers -> Nat]
  /\ adds \in Nat
  /\ list \in [open : BOOLEAN, of : Boxes, next : Nat, out : Seq(Messages),
               start : Seq(Messages), evicted : BOOLEAN]
  /\ request \in [at : Boxes \cup {"none"}, id : Nat, name : Nat]
  /\ deleted \subseteq [asked : Nat, removed : Nat]

Distinct ==
  \A b, c \in Boxes : \A i \in DOMAIN box[b], j \in DOMAIN box[c] :
    box[b][i].id = box[c][j].id => b = c /\ i = j

(* No two stored messages have the same id, unless the MQTT task's bare    *)
(* sms_store_next_id has put the counter back: the one way it can be torn. *)
UniqueIds == ~setback => Distinct

(* A DELETE removes the message the client was shown under that id, or     *)
(* none: not a message that took the id or the place meanwhile; with the   *)
(* same exception.                                                         *)
DeleteHitsTarget == ~setback => \A d \in deleted : d.asked = d.removed

(* A finished listing that had room shows every message that was in the    *)
(* box when it began and still is, although messages are pushed out and    *)
(* added between its reads.                                                *)
ListingComplete ==
  ~list.open /\ Len(list.out) < ListRoom =>
    Range(list.start) \cap Range(box[list.of]) \subseteq Range(list.out)

(* A listing shows messages newest first and each once, unless one was     *)
(* pushed out of the full box meanwhile.                                   *)
ListingNewestFirst ==
  ~list.evicted => \A i, j \in DOMAIN list.out : i < j => list.out[i].name > list.out[j].name

=============================================================================
