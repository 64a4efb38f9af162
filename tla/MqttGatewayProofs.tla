------------------------- MODULE MqttGatewayProofs -------------------------
(***************************************************************************)
(* Proofs about MqttGateway: whatever is watched, lost and sent again, and *)
(* however much room there is, the variables keep their types and what     *)
(* Home Assistant is told is true.                                         *)
(***************************************************************************)
EXTENDS MqttGateway, SequenceTheorems, TLAPS

Answers == {"csq_answer", "sms_answer"}

(* A step that is waiting its turn: its number is not read yet, and "sent" *)
(* waits only behind a send.                                               *)
Sound ==
  {x \in Steps : /\ x.op \notin Answers \cup {"enqueue"} /\ x.n = 0
                 /\ x.op = "pub" => x.topic \in Watched
                 /\ x.word = "sent" => s_sent_count > 0}

(* A step whose turn it is.                                                *)
Current ==
  {x \in Steps : (x.op \in {"pub", "enqueue"} => x.topic \in Watched) /\ True(x)}

TruePublications == {p \in Publications : True(p)}

TodoInv ==
  /\ todo \in [Tasks -> Seq(Current)]
  /\ \A t \in Tasks : ~Free(t) => Tail(todo[t]) \in Seq(Sound)

MutexInv == \A t \in Tasks : at_mutex = t <=> At(t, "csq_answer") \/ At(t, "sms_answer")

ListInv == TodoInv /\ MutexInv

FlagInv ==
  /\ s_connected \in BOOLEAN /\ s_discovery_done \in BOOLEAN
  /\ s_number_buf \in {"empty", "text"} /\ s_message_buf \in {"empty", "text"}
  /\ s_sent_count \in Nat /\ s_recv_count \in Nat
  /\ at_mutex \in Tasks \cup {"none"}
  /\ link \in {"stopped", "down", "up", "broken"}
  /\ session \in BOOLEAN
  /\ commands \in Nat /\ losses \in Nat

PipeInv ==
  /\ wire \in Seq(TruePublications) /\ unacked \in Seq(TruePublications)
  /\ Len(wire) <= WireRoom
  /\ retained \subseteq TruePublications \cup OldPublications
  /\ \A p, q \in retained : p.topic = q.topic => p = q

Inv == FlagInv /\ ListInv /\ PipeInv

CountsGrow == s_sent_count' >= s_sent_count /\ s_recv_count' >= s_recv_count

-----------------------------------------------------------------------------
(* What waits can have its turn.                                           *)
LEMMA SoundIsCurrent == FlagInv => Sound \subseteq Current
<1> SUFFICES ASSUME FlagInv, NEW x \in Sound PROVE x \in Current
  OBVIOUS
<1>1. x \in Steps /\ x.n = 0 /\ x.op # "enqueue"
  BY DEF Sound
<1>2. Number(x.topic) \in Nat
  BY DEF FlagInv, Number
<1>3. True(x)
  <2>1. 0 <= Number(x.topic)
    BY <1>2
  <2>2. x.word = "sent" => s_sent_count > 0
    BY DEF Sound
  <2> QED
    BY <1>1, <2>1, <2>2 DEF True
<1>4. x.op \in {"pub", "enqueue"} => x.topic \in Watched
  BY <1>1 DEF Sound
<1> QED
  BY <1>1, <1>3, <1>4 DEF Current

LEMMA SoundIsCurrentNext == (FlagInv => Sound \subseteq Current)'
BY SoundIsCurrent, PTL

(* What was true remains true: the counters grow.                          *)
LEMMA TruthLasts ==
  ASSUME FlagInv, FlagInv', CountsGrow
  PROVE  /\ Sound \subseteq Sound' /\ Current \subseteq Current'
         /\ TruePublications \subseteq TruePublications'
<1>0. s_sent_count > 0 => s_sent_count' > 0
  <2>1. s_sent_count \in Nat /\ s_sent_count' \in Nat
    BY DEF FlagInv
  <2>2. s_sent_count' >= s_sent_count
    BY DEF CountsGrow
  <2> QED
    BY <2>1, <2>2
<1>1. ASSUME NEW x \in Steps, True(x) PROVE True(x)'
  <2>1. /\ Number(x.topic) \in Nat /\ Number(x.topic)' \in Nat
        /\ Number(x.topic) <= Number(x.topic)'
    BY DEF FlagInv, CountsGrow, Number
  <2>2. x.n \in Nat
    BY DEF Steps
  <2>3. x.word = "count" => x.n <= Number(x.topic)'
    BY <1>1, <2>1, <2>2 DEF True
  <2>4. x.word = "sent" => s_sent_count' > 0
    BY <1>0, <1>1 DEF True
  <2> QED
    BY <2>3, <2>4 DEF True
<1>2. Sound \subseteq Sound'
  BY <1>0 DEF Sound
<1>3. Current \subseteq Current'
  BY <1>1 DEF Current
<1>4. TruePublications \subseteq TruePublications'
  BY <1>1 DEF TruePublications, Publications
<1> QED
  BY <1>2, <1>3, <1>4

(* The invariant says what the runs check.                                 *)
LEMMA InvImplies == Inv => TypeOK /\ ReportsTrue
<1> SUFFICES ASSUME Inv PROVE TypeOK /\ ReportsTrue
  OBVIOUS
<1> USE DEF Inv, ListInv, PipeInv
<1>1. Current \subseteq Steps /\ TruePublications \subseteq Publications
  BY DEF Current, TruePublications
<1>2. todo \in [Tasks -> Seq(Steps)]
  <2>1. \A t \in Tasks : todo[t] \in Seq(Steps)
    BY <1>1, SeqMonotonic DEF TodoInv
  <2> QED
    BY <2>1 DEF TodoInv
<1>3. wire \in Seq(Publications) /\ unacked \in Seq(Publications)
  BY <1>1, SeqMonotonic
<1>4. TypeOK
  BY <1>1, <1>2, <1>3 DEF FlagInv, MutexInv, TypeOK
<1>5. \A i \in DOMAIN wire : wire[i] \in TruePublications
  BY ElementOfSeq, LenProperties
<1>6. \A i \in DOMAIN unacked : unacked[i] \in TruePublications
  BY ElementOfSeq, LenProperties
<1>7. ReportsTrue
  BY <1>5, <1>6 DEF ReportsTrue, InTransit, TruePublications
<1> QED
  BY <1>4, <1>7

-----------------------------------------------------------------------------
LEMMA OneStep ==
  ASSUME NEW S, NEW x \in S PROVE <<x>> \in Seq(S)
OBVIOUS

(* The lists of steps the code makes.                                      *)
LEMMA ListsAreSound ==
  ASSUME FlagInv
  PROVE  /\ \A topic : \A word \in Words \ {"sent"} : Say(topic, word) \in Seq(Sound)
         /\ \A op \in Ops \ (Answers \cup {"pub", "enqueue"}) : Call(op) \in Seq(Sound)
         /\ \A s, u \in Seq(Sound) : s \o u \in Seq(Sound)
         /\ <<>> \in Seq(Sound)
<1>1. ASSUME NEW topic, NEW word \in Words \ {"sent"}
      PROVE  Say(topic, word) \in Seq(Sound)
  <2>1. CASE topic \in Watched
    <3>1. Step("pub", topic, word) \in Sound
      BY <2>1 DEF Step, Sound, Steps, Ops, Words, Answers
    <3> QED
      BY <2>1, <3>1 DEF Say
  <2>2. CASE topic \notin Watched
    BY <2>2 DEF Say
  <2> QED
    BY <2>1, <2>2
<1>2. ASSUME NEW op \in Ops \ (Answers \cup {"pub", "enqueue"})
      PROVE  Call(op) \in Seq(Sound)
  <2>1. Step(op, "none", "none") \in Sound
    BY DEF Step, Sound, Steps, Ops, Words, Answers
  <2> QED
    BY <2>1, OneStep DEF Call
<1>3. \A s, u \in Seq(Sound) : s \o u \in Seq(Sound)
  BY ConcatProperties
<1> QED
  BY <1>1, <1>2, <1>3, EmptySeq

(* Home Assistant's entities.                                              *)
LEMMA DiscoverySound ==
  ASSUME FlagInv PROVE Entities \in Seq(Sound) /\ Automations \in Seq(Sound)
<1> DEFINE S == Seq(Sound)
<1>0. "config" \in Words \ {"sent"}
  BY DEF Words
<1>1. \A topic : Config(topic) \in S
  BY <1>0, ListsAreSound DEF Config
<1>2. \A s, u \in S : s \o u \in S
  BY ListsAreSound
<1> HIDE DEF S
<1>3. Automations \in S
  BY <1>1, <1>2 DEF Automations
<1>4. Entities \in S
  BY <1>1, <1>2 DEF Entities
<1> QED
  BY <1>3, <1>4 DEF S

(* The rest of what the handlers and callbacks publish.                    *)
LEMMA MadeSound ==
  ASSUME FlagInv
  PROVE  /\ Counts \in Seq(Sound)
         /\ SendStatus("sending") \in Seq(Sound) /\ SendStatus("failed") \in Seq(Sound)
         /\ ButtonState("idle") \in Seq(Sound) /\ ButtonState("sending") \in Seq(Sound)
         /\ OnConnected \in Seq(Sound)
<1> DEFINE S == Seq(Sound)
<1>1. \A topic : \A word \in Words \ {"sent"} : Say(topic, word) \in S
  BY ListsAreSound
<1>2. \A s, u \in S : s \o u \in S
  BY ListsAreSound
<1>3. Call("publish_status") \in S /\ <<>> \in S /\ Entities \in S /\ Automations \in S
  BY ListsAreSound, DiscoverySound DEF Ops, Answers
<1>4. s_number_buf \in Words \ {"sent"} /\ s_message_buf \in Words \ {"sent"}
  BY DEF FlagInv, Words
<1> HIDE DEF S
<1>5. Counts \in S
  BY <1>1, <1>2 DEF Counts, Words
<1>6. SendStatus("sending") \in S /\ SendStatus("failed") \in S
  BY <1>1 DEF SendStatus, Words
<1>7. ButtonState("idle") \in S /\ ButtonState("sending") \in S
  BY <1>1 DEF ButtonState, Words
<1>8. Say("status", "online") \in S /\ Say("number/state", s_number_buf) \in S
      /\ Say("message/state", s_message_buf) \in S
  BY <1>1, <1>4 DEF Words
<1>9. OnConnected \in S
  <2>1. (IF s_discovery_done THEN <<>> ELSE Entities \o Automations) \in S
    BY <1>2, <1>3
  <2> QED
    BY <1>2, <1>3, <1>7, <1>8, <2>1 DEF OnConnected
<1> QED
  BY <1>5, <1>6, <1>7, <1>9 DEF S

(* After a send that succeeded there is a message that was sent.           *)
LEMMA AfterSendSound ==
  FlagInv => \A ok \in BOOLEAN :
               (ok => s_sent_count > 0) => AfterSend(ok) \in Seq(Sound)
<1> SUFFICES ASSUME FlagInv, NEW ok \in BOOLEAN, ok => s_sent_count > 0
             PROVE  AfterSend(ok) \in Seq(Sound)
  OBVIOUS
<1>1. CASE ok
  <2>1. SendStatus("sent") \in Seq(Sound)
    <3>1. CASE "send_status" \in Watched
      <4>1. Step("pub", "send_status", "sent") \in Sound
        BY <1>1, <3>1 DEF Step, Sound, Steps, Ops, Words, Answers, FlagInv
      <4> QED
        BY <3>1, <4>1 DEF SendStatus, Say
    <3>2. CASE "send_status" \notin Watched
      BY <3>2 DEF SendStatus, Say
    <3> QED
      BY <3>1, <3>2
  <2>2. Say("last_sent_to", "text") \in Seq(Sound) /\ Say("last_sent_body", "text") \in Seq(Sound)
    BY ListsAreSound DEF Words
  <2> QED
    BY <1>1, <2>1, <2>2, ConcatProperties DEF AfterSend
<1>2. CASE ~ok
  BY <1>2, MadeSound DEF AfterSend
<1> QED
  BY <1>1, <1>2

LEMMA AfterSendSoundNext ==
  (FlagInv => \A ok \in BOOLEAN :
                (ok => s_sent_count > 0) => AfterSend(ok) \in Seq(Sound))'
BY AfterSendSound, PTL

-----------------------------------------------------------------------------
(* A list may take the place of a task's list if what is in it is true,    *)
(* and if it starts with an answer exactly when the task has the mutex.    *)
LEMMA Replaced ==
  ASSUME Inv, FlagInv', CountsGrow, NEW t \in Tasks, NEW s,
         (s \in Seq(Current))', s # <<>> => (Tail(s) \in Seq(Sound))',
         todo' = [todo EXCEPT ![t] = s],
         at_mutex' = t <=> s # <<>> /\ Head(s).op \in Answers,
         \A u \in Tasks \ {t} : at_mutex' = u <=> at_mutex = u
  PROVE  ListInv'
<1>1. Sound \subseteq Sound' /\ Current \subseteq Current'
  BY TruthLasts DEF Inv
<1>2. \A u \in Tasks : todo'[u] = IF u = t THEN s ELSE todo[u]
  BY DEF Inv, ListInv, TodoInv
<1>3. TodoInv'
  <2>1. \A u \in Tasks \ {t} : todo[u] \in Seq(Current')
    BY <1>1, SeqMonotonic DEF Inv, ListInv, TodoInv
  <2>2. \A u \in Tasks \ {t} : todo[u] # <<>> => Tail(todo[u]) \in Seq(Sound')
    BY <1>1, SeqMonotonic DEF Inv, ListInv, TodoInv, Free
  <2>3. todo' \in [Tasks -> Seq(Current')]
    BY <1>2, <2>1 DEF Inv, ListInv, TodoInv
  <2>4. \A u \in Tasks : todo'[u] # <<>> => Tail(todo'[u]) \in Seq(Sound')
    BY <1>2, <2>2
  <2> QED
    BY <2>3, <2>4 DEF TodoInv, Free
<1>4. MutexInv'
  <2>1. ASSUME NEW u \in Tasks
        PROVE  at_mutex' = u <=> todo'[u] # <<>> /\ Head(todo'[u]).op \in Answers
    <3>1. CASE u = t
      BY <1>2, <3>1
    <3>2. CASE u # t
      BY <1>2, <3>2 DEF Inv, ListInv, MutexInv, At, Free, Answers
    <3> QED
      BY <3>1, <3>2
  <2> QED
    BY <2>1 DEF MutexInv, At, Free, Answers
<1> QED
  BY <1>3, <1>4 DEF ListInv

(* Go, with steps of the code in place of the first step of a task that    *)
(* has the mutex at most until then.                                       *)
LEMMA Gone ==
  ASSUME Inv, FlagInv', CountsGrow, NEW t \in Tasks, ~Free(t), NEW steps,
         (steps \in Seq(Sound))', Go(t, steps),
         at_mutex' # t, \A u \in Tasks \ {t} : at_mutex' = u <=> at_mutex = u
  PROVE  ListInv'
<1> DEFINE s == steps \o Tail(todo[t])
<1>1. Sound \subseteq Sound' /\ Sound' \subseteq Current'
  BY TruthLasts, SoundIsCurrentNext DEF Inv
<1>2. Tail(todo[t]) \in Seq(Sound')
  BY <1>1, SeqMonotonic DEF Inv, ListInv, TodoInv
<1>3. s \in Seq(Sound')
  BY <1>2, ConcatProperties
<1>4. todo' = [todo EXCEPT ![t] = s]
  BY DEF Go
<1> HIDE DEF s
<1>5. s \in Seq(Current') /\ (s # <<>> => Tail(s) \in Seq(Sound') /\ Head(s) \in Sound')
  BY <1>1, <1>3, SeqMonotonic, HeadTailProperties
<1>6. s # <<>> => Head(s).op \notin Answers
  BY <1>5 DEF Sound
<1> QED
  BY <1>4, <1>5, <1>6, Replaced

(* Go, with one step that has its turn at once.                            *)
LEMMA Turned ==
  ASSUME Inv, FlagInv', CountsGrow, NEW t \in Tasks, ~Free(t), NEW x,
         (x \in Current)', Go(t, <<x>>),
         at_mutex' = t <=> x.op \in Answers,
         \A u \in Tasks \ {t} : at_mutex' = u <=> at_mutex = u
  PROVE  ListInv'
<1> DEFINE s == <<x>> \o Tail(todo[t])
<1>1. Sound \subseteq Sound' /\ Sound' \subseteq Current'
  BY TruthLasts, SoundIsCurrentNext DEF Inv
<1>2. Tail(todo[t]) \in Seq(Sound') /\ Tail(todo[t]) \in Seq(Current')
  BY <1>1, SeqMonotonic DEF Inv, ListInv, TodoInv
<1>3. s \in Seq(Current')
  BY <1>2, OneStep, ConcatProperties
<1>4. s # <<>> /\ Head(s) = x /\ Tail(s) = Tail(todo[t])
  BY <1>2
<1>5. todo' = [todo EXCEPT ![t] = s]
  BY DEF Go
<1> HIDE DEF s
<1> QED
  BY <1>2, <1>3, <1>4, <1>5, Replaced

(* Begin: a handler starts, with steps of the code.                        *)
LEMMA Begun ==
  ASSUME Inv, FlagInv', CountsGrow, NEW t \in Tasks, NEW steps,
         (steps \in Seq(Sound))', Begin(t, steps), at_mutex' = at_mutex
  PROVE  ListInv'
<1>1. Sound' \subseteq Current'
  BY SoundIsCurrentNext
<1>2. /\ steps \in Seq(Current')
      /\ steps # <<>> => Tail(steps) \in Seq(Sound') /\ Head(steps) \in Sound'
  BY <1>1, SeqMonotonic, HeadTailProperties
<1>3. steps # <<>> => Head(steps).op \notin Answers
  BY <1>2 DEF Sound
<1>4. at_mutex # t /\ todo' = [todo EXCEPT ![t] = steps]
  BY DEF Begin, Inv, ListInv, MutexInv, At
<1> QED
  BY <1>2, <1>3, <1>4, Replaced

(* Steps that leave the lists alone.                                       *)
LEMMA ListsLast ==
  ASSUME Inv, FlagInv', CountsGrow, UNCHANGED <<todo, at_mutex>>
  PROVE  ListInv'
<1>1. Sound \subseteq Sound' /\ Current \subseteq Current'
  BY TruthLasts DEF Inv
<1>2. \A u \in Tasks : todo[u] \in Seq(Current')
  BY <1>1, SeqMonotonic DEF Inv, ListInv, TodoInv
<1>3. \A u \in Tasks : todo[u] # <<>> => Tail(todo[u]) \in Seq(Sound')
  BY <1>1, SeqMonotonic DEF Inv, ListInv, TodoInv, Free
<1>4. TodoInv'
  BY <1>2, <1>3 DEF Inv, ListInv, TodoInv, Free
<1>5. MutexInv'
  BY DEF Inv, ListInv, MutexInv, At, Free
<1> QED
  BY <1>4, <1>5 DEF ListInv

(* Steps that leave the connection, what is kept and the broker alone.     *)
LEMMA PipesLast ==
  ASSUME Inv, FlagInv', CountsGrow, UNCHANGED <<wire, unacked, retained>>
  PROVE  PipeInv'
<1>1. TruePublications \subseteq TruePublications'
  BY TruthLasts DEF Inv
<1> QED
  BY <1>1, SeqMonotonic DEF Inv, PipeInv

-----------------------------------------------------------------------------
(* The initial state.                                                      *)
LEMMA InitInv == Init => Inv
<1> SUFFICES ASSUME Init PROVE Inv
  OBVIOUS
<1>1. FlagInv
  BY DEF Init, FlagInv
<1>2. todo \in [Tasks -> Seq(Current)] /\ \A t \in Tasks : todo[t] = <<>>
  BY EmptySeq DEF Init
<1>3. ListInv
  BY <1>2 DEF Init, ListInv, TodoInv, MutexInv, At, Free, Tasks
<1>4. PipeInv
  <2>1. /\ retained \subseteq OldPublications
        /\ \A p, q \in retained : p.topic = q.topic => p = q
    <3>1. retained = {} \/ \E alive \in BOOLEAN : retained = Earlier(alive)
      BY DEF Init
    <3>2. ASSUME NEW alive \in BOOLEAN
          PROVE  /\ Earlier(alive) \subseteq OldPublications
                 /\ \A p, q \in Earlier(alive) : p.topic = q.topic => p = q
      <4>1. Earlier(alive) \subseteq OldPublications
        BY RoomAssumption DEF Earlier, Old, OldPublications, Words
      <4>2. \A p, q \in Earlier(alive) : p.topic = q.topic => p = q
        BY DEF Earlier, Old
      <4> QED
        BY <4>1, <4>2
    <3> QED
      BY <3>1, <3>2
  <2> QED
    BY <2>1, EmptySeq, RoomAssumption DEF Init, PipeInv
<1> QED
  BY <1>1, <1>3, <1>4 DEF Inv

(* The simple variables keep their types, and no counter goes back.        *)
LEMMA FlagStep ==
  ASSUME Inv, Next PROVE FlagInv' /\ CountsGrow
<1> USE DEF Inv, FlagInv, CountsGrow
<1>1. ASSUME NEW t \in Tasks, Act(t) PROVE FlagInv' /\ CountsGrow
  <2>1. CASE Pub(t)
    BY <2>1 DEF Pub, flags, bufVars, counts, clientVars, brokerVars, bounds
  <2>2. CASE Enqueue(t)
    BY <2>2 DEF Enqueue, flags, bufVars, counts, brokerVars, bounds
  <2>3. CASE StatusCall(t)
    BY <2>3 DEF StatusCall, flags, bufVars, counts, clientVars, brokerVars, bounds
  <2>4. CASE AtEnter(t)
    BY <2>4 DEF AtEnter, flags, bufVars, counts, clientVars, brokerVars, bounds
  <2>5. CASE CsqEnd(t)
    BY <2>5 DEF CsqEnd, flags, bufVars, counts, clientVars, brokerVars, bounds
  <2>6. ASSUME NEW ok \in BOOLEAN, SmsEnd(t, ok) PROVE FlagInv' /\ CountsGrow
    BY <2>6 DEF SmsEnd, flags, bufVars, clientVars, brokerVars, bounds
  <2> QED
    BY <1>1, <2>1, <2>2, <2>3, <2>4, <2>5, <2>6 DEF Act, AtAnswer, AtTimeout
<1>2. CASE Handler
  <2>1. CASE Connected
    BY <2>1 DEF Connected, bufVars, counts, bounds
  <2>2. CASE Disconnected
    <3>1. s_connected' \in BOOLEAN /\ session' \in BOOLEAN
      BY <2>2 DEF Disconnected, brokerVars
    <3>2. UNCHANGED <<s_sent_count, s_recv_count>>
      BY <2>2 DEF Disconnected, counts
    <3>3. CountsGrow
      BY <3>2
    <3> QED
      BY <2>2, <3>1, <3>2, <3>3, Zenon DEF Disconnected, bufVars, counts, brokerVars, bounds
  <2>3. ASSUME NEW steps, Command(steps), s_number_buf' \in {"empty", "text"},
               s_message_buf' \in {"empty", "text"}
        PROVE  FlagInv' /\ CountsGrow
    BY <2>3 DEF Command, flags, counts, clientVars, brokerVars
  <2>4. CASE SendButton
    BY <2>3, <2>4 DEF SendButton, bufVars
  <2>5. ASSUME NEW word \in {"empty", "text"}, NumberSet(word) \/ MessageSet(word)
        PROVE  FlagInv' /\ CountsGrow
    BY <2>3, <2>5 DEF NumberSet, MessageSet
  <2>6. ASSUME NEW valid \in BOOLEAN, SendJson(valid) PROVE FlagInv' /\ CountsGrow
    BY <2>3, <2>6 DEF SendJson, bufVars
  <2> QED
    BY <1>2, <2>1, <2>2, <2>4, <2>5, <2>6 DEF Handler
<1>3. CASE Own
  <2>1. CASE StatusTimer
    BY <2>1 DEF StatusTimer, flags, bufVars, counts, clientVars, brokerVars, bounds
  <2>2. CASE PublishInbound
    BY <2>2 DEF PublishInbound, flags, bufVars, clientVars, brokerVars, bounds
  <2>3. CASE Stop
    <3>1. s_connected' \in BOOLEAN /\ session' \in BOOLEAN
      BY <2>3 DEF Stop, flags
    <3>2. UNCHANGED <<s_sent_count, s_recv_count>>
      BY <2>3 DEF Stop, counts
    <3>3. CountsGrow
      BY <3>2
    <3> QED
      BY <2>3, <3>1, <3>2, <3>3, Zenon DEF Stop, flags, bufVars, counts, bounds
  <2>4. CASE Start
    BY <2>4 DEF Start, flags, bufVars, counts, brokerVars, bounds
  <2> QED
    BY <1>3, <2>1, <2>2, <2>3, <2>4 DEF Own
<1>4. CASE World
  <2>1. CASE InboundSms
    BY <2>1 DEF InboundSms, flags, bufVars, counts, clientVars, brokerVars, bounds
  <2>2. CASE NetworkLost
    <3>1. s_connected' \in BOOLEAN /\ session' \in BOOLEAN
      BY <2>2 DEF NetworkLost, brokerVars
    <3>2. UNCHANGED <<s_sent_count, s_recv_count>>
      BY <2>2 DEF NetworkLost, counts
    <3>3. CountsGrow
      BY <3>2
    <3>4. losses' \in Nat
      BY <2>2 DEF NetworkLost
    <3> QED
      BY <2>2, <3>1, <3>2, <3>3, <3>4, Zenon DEF NetworkLost, bufVars, counts, clientVars, brokerVars
  <2>3. CASE NetworkBack
    BY <2>3 DEF NetworkBack, flags, bufVars, counts, clientVars, brokerVars, bounds
  <2>4. CASE Break
    BY <2>4 DEF Break, flags, bufVars, counts, brokerVars
  <2>5. CASE BrokerTakes
    BY <2>5 DEF BrokerTakes, flags, bufVars, counts, bounds
  <2>6. CASE SessionExpires
    <3>1. s_connected' \in BOOLEAN /\ session' \in BOOLEAN
      BY <2>6 DEF SessionExpires, flags
    <3>2. UNCHANGED <<s_sent_count, s_recv_count>>
      BY <2>6 DEF SessionExpires, counts
    <3>3. CountsGrow
      BY <3>2
    <3> QED
      BY <2>6, <3>1, <3>2, <3>3, Zenon DEF SessionExpires, flags, bufVars, counts, clientVars, bounds
  <2>7. CASE Resend
    BY <2>7 DEF Resend, flags, bufVars, counts, brokerVars, bounds
  <2> QED
    BY <1>4, <2>1, <2>2, <2>3, <2>4, <2>5, <2>6, <2>7 DEF World
<1> QED
  BY <1>1, <1>2, <1>3, <1>4 DEF Next

-----------------------------------------------------------------------------
(* A task at a step that is no answer has not got the mutex.               *)
LEMMA Waiting ==
  ASSUME Inv, NEW t \in Tasks, NEW op \in Ops \ Answers, At(t, op)
  PROVE  ~Free(t) /\ at_mutex # t /\ Head(todo[t]) \in Current /\ Head(todo[t]).op = op
<1>1. ~Free(t) /\ Head(todo[t]).op = op
  BY DEF At
<1>2. Head(todo[t]) \in Current
  BY <1>1, HeadTailProperties DEF Free, Inv, ListInv, TodoInv
<1>3. at_mutex # t
  BY <1>1 DEF Inv, ListInv, MutexInv, At, Answers
<1> QED
  BY <1>1, <1>2, <1>3

(* Steps of the code may also follow when the counters have grown.         *)
LEMMA StillSound ==
  ASSUME Inv, FlagInv', CountsGrow, NEW steps \in Seq(Sound)
  PROVE  steps \in Seq(Sound')
BY TruthLasts, SeqMonotonic DEF Inv

(* What any task does next.                                                *)
LEMMA ActLists ==
  ASSUME Inv, FlagInv', CountsGrow, NEW t \in Tasks, Act(t)
  PROVE  ListInv'
<1>0. FlagInv /\ <<>> \in Seq(Sound) /\ <<>> \in Seq(Sound')
  BY EmptySeq DEF Inv
<1>1. CASE Pub(t)
  <2>1. ~Free(t) /\ at_mutex # t /\ Head(todo[t]) \in Current /\ Head(todo[t]).op = "pub"
    BY <1>1, Waiting DEF Pub, Ops, Answers
  <2>2. CASE s_connected
    <3> DEFINE x == Formatted(Head(todo[t]))
    <3>1. x \in Current
      <4>1. /\ x \in Steps /\ x.op = "enqueue" /\ x.topic \in Watched
            /\ x.topic = Head(todo[t]).topic /\ x.word = Head(todo[t]).word
            /\ x.word = "count" => x.n = Number(x.topic)
        <5>1. Number(Head(todo[t]).topic) \in Nat
          BY <1>0 DEF FlagInv, Number
        <5> QED
          BY <2>1, <5>1 DEF Formatted, Current, Steps, Ops
      <4>2. x.word = "count" => x.n <= Number(x.topic)
        <5>1. Number(x.topic) \in Nat
          BY <1>0 DEF FlagInv, Number
        <5> HIDE DEF x
        <5> QED
          BY <4>1, <5>1
      <4>3. x.word = "sent" => s_sent_count > 0
        BY <2>1, <4>1 DEF Current, True
      <4> HIDE DEF x
      <4> QED
        BY <4>1, <4>2, <4>3 DEF Current, True
    <3>2. x.op = "enqueue"
      BY <2>1 DEF Formatted, Current, Steps
    <3>3. Go(t, <<x>>) /\ at_mutex' = at_mutex
      BY <1>1, <2>2 DEF Pub
    <3> HIDE DEF x
    <3>4. x \in Current'
      BY <3>1, TruthLasts DEF Inv
    <3>5. at_mutex' = t <=> x.op \in Answers
      BY <2>1, <3>2, <3>3 DEF Answers
    <3> QED
      BY <2>1, <3>3, <3>4, <3>5, Turned
  <2>3. CASE ~s_connected
    <3>1. Go(t, <<>>) /\ at_mutex' = at_mutex
      BY <1>1, <2>3 DEF Pub
    <3> QED
      BY <1>0, <2>1, <3>1, Gone
  <2> QED
    BY <2>2, <2>3
<1>2. CASE Enqueue(t)
  <2>1. ~Free(t) /\ at_mutex # t
    BY <1>2, Waiting DEF Enqueue, Ops, Answers
  <2>2. Go(t, <<>>) /\ at_mutex' = at_mutex
    BY <1>2 DEF Enqueue
  <2> QED
    BY <1>0, <2>1, <2>2, Gone
<1>3. CASE StatusCall(t)
  <2> DEFINE s == IF s_connected
                  THEN Call("csq") \o Say("signal", "text") \o Say("operator", "text") \o Counts
                  ELSE <<>>
  <2>1. ~Free(t) /\ at_mutex # t
    BY <1>3, Waiting DEF StatusCall, Ops, Answers
  <2>2. s \in Seq(Sound)
    <3>1. Call("csq") \in Seq(Sound)
      BY <1>0, ListsAreSound DEF Ops, Answers
    <3>2. Say("signal", "text") \in Seq(Sound) /\ Say("operator", "text") \in Seq(Sound)
      BY <1>0, ListsAreSound DEF Words
    <3>3. Counts \in Seq(Sound)
      BY <1>0, MadeSound
    <3> QED
      BY <1>0, <3>1, <3>2, <3>3, ListsAreSound
  <2>3. Go(t, s) /\ at_mutex' = at_mutex
    BY <1>3 DEF StatusCall
  <2> HIDE DEF s
  <2>4. s \in Seq(Sound')
    BY <2>2, StillSound
  <2> QED
    BY <2>1, <2>3, <2>4, Gone
<1>4. ASSUME NEW op \in Answers, at_mutex = "none", at_mutex' = t, Go(t, Call(op)),
             At(t, "csq") \/ At(t, "sms")
      PROVE  ListInv'
  <2> DEFINE x == Step(op, "none", "none")
  <2>1. ~Free(t)
    BY <1>4 DEF At
  <2>2. x \in Current' /\ x.op = op
    BY <1>4 DEF Step, Current, Steps, Ops, Words, Answers, True
  <2>3. Go(t, <<x>>)
    BY <1>4 DEF Call
  <2> HIDE DEF x
  <2>4. \A u \in Tasks \ {t} : at_mutex' = u <=> at_mutex = u
    BY <1>4 DEF Tasks
  <2> QED
    BY <1>4, <2>1, <2>2, <2>3, <2>4, Turned
<1>5. CASE AtEnter(t)
  BY <1>4, <1>5 DEF AtEnter, Answers
<1>6. ASSUME NEW steps, steps \in Seq(Sound'), At(t, "csq_answer") \/ At(t, "sms_answer"),
             at_mutex' = "none", Go(t, steps)
      PROVE  ListInv'
  <2>1. ~Free(t) /\ at_mutex = t
    BY <1>6 DEF At, Inv, ListInv, MutexInv
  <2>2. "none" \notin Tasks
    BY DEF Tasks
  <2> QED
    BY <1>6, <2>1, <2>2, Gone
<1>7. CASE CsqEnd(t)
  BY <1>0, <1>6, <1>7 DEF CsqEnd
<1>8. ASSUME NEW ok \in BOOLEAN, SmsEnd(t, ok) PROVE ListInv'
  <2>1. ok => s_sent_count' > 0
    <3>1. s_sent_count \in Nat
      BY <1>0 DEF FlagInv
    <3> QED
      BY <1>8, <3>1 DEF SmsEnd
  <2>2. AfterSend(ok)' \in Seq(Sound')
    BY <2>1, AfterSendSoundNext
  <2>3. AfterSend(ok)' = AfterSend(ok)
    BY DEF AfterSend, SendStatus, Say, Step
  <2> QED
    BY <1>6, <1>8, <2>2, <2>3 DEF SmsEnd
<1> QED
  BY <1>1, <1>2, <1>3, <1>5, <1>7, <1>8 DEF Act, AtAnswer, AtTimeout

(* What the event handler, the other callbacks and the world do.           *)
LEMMA OtherLists ==
  ASSUME Inv, FlagInv', CountsGrow, Handler \/ Own \/ World
  PROVE  ListInv'
<1>0. FlagInv /\ <<>> \in Seq(Sound) /\ \A op \in Ops \ (Answers \cup {"pub", "enqueue"}) :
        Call(op) \in Seq(Sound)
  BY EmptySeq, ListsAreSound DEF Inv
<1>1. ASSUME NEW t \in Tasks, NEW steps \in Seq(Sound), Begin(t, steps), at_mutex' = at_mutex
      PROVE  ListInv'
  <2>1. steps \in Seq(Sound')
    BY StillSound
  <2> QED
    BY <1>1, <2>1, Begun
<1>2. ASSUME NEW t \in Tasks, NEW steps \in Seq(Sound), Go(t, steps), at_mutex' = at_mutex,
             NEW op \in Ops \ Answers, At(t, op)
      PROVE  ListInv'
  <2>1. ~Free(t) /\ at_mutex # t
    BY <1>2, Waiting
  <2>2. steps \in Seq(Sound')
    BY StillSound
  <2> QED
    BY <1>2, <2>1, <2>2, Gone
<1>3. ASSUME NEW steps \in Seq(Sound), Command(steps) PROVE ListInv'
  BY <1>1, <1>3 DEF Command, Tasks
<1>4. CASE Handler
  <2>1. CASE Connected
    <3>1. OnConnected \in Seq(Sound)
      BY <1>0, MadeSound
    <3>2. "mqtt" \in Tasks /\ Begin("mqtt", OnConnected) /\ at_mutex' = at_mutex
      BY <2>1 DEF Connected, Tasks
    <3> QED
      BY <1>1, <3>1, <3>2
  <2>2. CASE Disconnected
    BY <2>2, ListsLast DEF Disconnected
  <2>3. CASE SendButton
    <3>1. SendStatus("failed") \in Seq(Sound)
      BY <1>0, MadeSound
    <3>2. SendStatus("sending") \o ButtonState("sending") \o Call("sms") \o ButtonState("idle")
            \in Seq(Sound)
      BY <1>0, MadeSound, ListsAreSound DEF Ops, Answers
    <3> QED
      BY <1>3, <2>3, <3>1, <3>2 DEF SendButton
  <2>4. ASSUME NEW word \in {"empty", "text"}, NumberSet(word) \/ MessageSet(word)
        PROVE  ListInv'
    <3>1. /\ Say("number/state", word) \in Seq(Sound)
          /\ Say("message/state", word) \in Seq(Sound)
      BY <1>0, ListsAreSound DEF Words
    <3> QED
      BY <1>3, <2>4, <3>1 DEF NumberSet, MessageSet
  <2>5. ASSUME NEW valid \in BOOLEAN, SendJson(valid) PROVE ListInv'
    <3>1. SendStatus("sending") \o Call("sms") \in Seq(Sound)
      BY <1>0, MadeSound, ListsAreSound DEF Ops, Answers
    <3> QED
      BY <1>0, <1>3, <2>5, <3>1 DEF SendJson
  <2> QED
    BY <1>4, <2>1, <2>2, <2>3, <2>4, <2>5 DEF Handler
<1>5. CASE Own
  <2>1. CASE StatusTimer
    <3>1. Call("publish_status") \in Seq(Sound)
      BY <1>0 DEF Ops, Answers
    <3> QED
      BY <1>1, <2>1, <3>1 DEF StatusTimer, Tasks
  <2>2. CASE PublishInbound
    <3> DEFINE s == IF s_connected
                    THEN Say("incoming/from", "count") \o Say("incoming/body", "count")
                         \o Say("incoming/time", "count") \o Say("incoming", "count")
                         \o Say("message_received/event", "count") \o Say("received_count", "count")
                    ELSE <<>>
           S == Seq(Sound)
    <3>1. \A topic : Say(topic, "count") \in S
      BY <1>0, ListsAreSound DEF Words
    <3>2. <<>> \in S /\ \A u, v \in S : u \o v \in S
      BY <1>0, ListsAreSound
    <3>3. s \in S
      <4> HIDE DEF S
      <4> QED
        BY <3>1, <3>2
    <3>4. Go("reader", s) /\ at_mutex' = at_mutex /\ At("reader", "publish_inbound")
      BY <2>2 DEF PublishInbound
    <3> HIDE DEF s
    <3> QED
      BY <1>2, <3>3, <3>4 DEF Tasks, Ops, Answers
  <2>3. CASE Stop
    BY <1>0, <1>2, <2>3 DEF Stop, Tasks, Ops, Answers
  <2>4. CASE Start
    BY <1>0, <1>2, <2>4 DEF Start, Tasks, Ops, Answers
  <2> QED
    BY <1>5, <2>1, <2>2, <2>3, <2>4 DEF Own
<1>6. CASE World
  <2>1. Call("publish_inbound") \in Seq(Sound) /\ Call("stop") \in Seq(Sound)
        /\ Call("start") \in Seq(Sound)
    BY <1>0 DEF Ops, Answers
  <2>2. CASE InboundSms
    BY <1>1, <2>1, <2>2 DEF InboundSms, Tasks
  <2>3. CASE NetworkLost
    BY <1>1, <2>1, <2>3 DEF NetworkLost, Tasks
  <2>4. CASE NetworkBack
    BY <1>1, <2>1, <2>4 DEF NetworkBack, Tasks
  <2>5. CASE Break \/ BrokerTakes \/ SessionExpires \/ Resend
    <3>1. UNCHANGED <<todo, at_mutex>>
      BY <2>5 DEF Break, BrokerTakes, SessionExpires, Resend
    <3> QED
      BY <3>1, ListsLast
  <2> QED
    BY <1>6, <2>2, <2>3, <2>4, <2>5 DEF World
<1> QED
  BY <1>4, <1>5, <1>6

-----------------------------------------------------------------------------
(* The broker keeps one publication of each topic.                         *)
LEMMA KeptTrue ==
  ASSUME PipeInv, NEW S, TruePublications \cup OldPublications \subseteq S, NEW pub \in S
  PROVE  Kept(pub) \subseteq S /\ \A p, q \in Kept(pub) : p.topic = q.topic => p = q
BY DEF PipeInv, Kept

(* The will says nothing that could be wrong.                              *)
LEMMA WillTrue ==
  ASSUME "status" \in Watched PROVE Will \in TruePublications
BY DEF Will, Step, TruePublications, Publications, Steps, Ops, Words, True

(* What is on its way, kept or shown stays true.                           *)
LEMMA PipeStep ==
  ASSUME Inv, FlagInv', CountsGrow, Next PROVE PipeInv'
<1> DEFINE P == TruePublications'
<1>1. TruePublications \subseteq P
  BY TruthLasts DEF Inv
<1> DEFINE K == P \cup OldPublications
<1>2. /\ wire \in Seq(P) /\ unacked \in Seq(P) /\ retained \subseteq K
      /\ Len(wire) <= WireRoom /\ Len(wire) \in Nat
      /\ \A p, q \in retained : p.topic = q.topic => p = q
  BY <1>1, SeqMonotonic, LenProperties DEF Inv, PipeInv
<1>3. ASSUME wire' \in Seq(P), unacked' \in Seq(P), Len(wire') <= WireRoom, retained' \subseteq K,
             \A p, q \in retained' : p.topic = q.topic => p = q
      PROVE  PipeInv'
  BY <1>3 DEF PipeInv
<1>4. ASSUME WillPublished
      PROVE  retained' \subseteq K /\ \A p, q \in retained' : p.topic = q.topic => p = q
  <2>1. "status" \in Watched => Will \in P
    BY <1>1, WillTrue
  <2> HIDE DEF P, K
  <2>2. CASE session /\ "status" \in Watched
    <3>1. retained' = Kept(Will)
      BY <1>4, <2>2 DEF WillPublished
    <3>2. TruePublications \cup OldPublications \subseteq K /\ Will \in K
      BY <1>1, <2>1, <2>2 DEF K
    <3> QED
      BY <3>1, <3>2, KeptTrue DEF Inv
  <2>3. CASE ~(session /\ "status" \in Watched)
    BY <1>2, <1>4, <2>3 DEF WillPublished
  <2> QED
    BY <2>2, <2>3
<1>5. CASE UNCHANGED <<wire, unacked, retained>>
  BY <1>5, PipesLast
<1>6. ASSUME NEW t \in Tasks, Enqueue(t) PROVE PipeInv'
  <2> DEFINE x == Head(todo[t])
  <2>1. x \in P
    <3>1. x \in Current /\ x.op = "enqueue"
      BY <1>6, Waiting DEF Enqueue, Ops, Answers
    <3>2. x \in TruePublications
      BY <3>1 DEF Current, TruePublications, Publications
    <3> QED
      BY <1>1, <3>2
  <2>2. retained' = retained
    BY <1>6 DEF Enqueue, brokerVars
  <2>3. CASE link = "up"
    <3>1. Len(wire) < WireRoom /\ wire' = Append(wire, x) /\ unacked' = unacked
      BY <1>6, <2>3 DEF Enqueue
    <3> HIDE DEF P, x
    <3>2. wire' \in Seq(P) /\ Len(wire') = Len(wire) + 1
      BY <1>2, <2>1, <3>1, AppendProperties
    <3>3. Len(wire') <= WireRoom
      BY <1>2, <3>1, <3>2, RoomAssumption
    <3> QED
      BY <1>2, <1>3, <2>2, <3>1, <3>2, <3>3
  <2>4. CASE link # "up"
    <3>1. wire' = wire /\ (unacked' = Append(unacked, x) \/ unacked' = unacked)
      BY <1>6, <2>4 DEF Enqueue
    <3> HIDE DEF P, x
    <3>2. unacked' \in Seq(P)
      BY <1>2, <2>1, <3>1, AppendProperties
    <3> QED
      BY <1>2, <1>3, <2>2, <3>1, <3>2
  <2> QED
    BY <2>3, <2>4
<1>7. CASE Connected
  <2>1. wire' = <<>> /\ unacked' = unacked /\ WillPublished
    BY <1>7 DEF Connected
  <2>2. wire' \in Seq(P) /\ Len(wire') <= WireRoom
    BY <2>1, EmptySeq, RoomAssumption
  <2> HIDE DEF P, K
  <2> QED
    BY <1>2, <1>3, <1>4, <2>1, <2>2
<1>8. CASE Stop
  <2>1. unacked' = <<>> /\ wire' = wire /\ retained' = retained
    BY <1>8 DEF Stop
  <2>2. unacked' \in Seq(P)
    BY <2>1, EmptySeq
  <2> HIDE DEF P, K
  <2> QED
    BY <1>2, <1>3, <2>1, <2>2
<1>9. CASE Break
  <2>1. unacked' = unacked \o wire /\ wire' = wire /\ retained' = retained
    BY <1>9 DEF Break, brokerVars
  <2> HIDE DEF P, K
  <2>2. unacked' \in Seq(P)
    BY <1>2, <2>1, ConcatProperties
  <2> QED
    BY <1>2, <1>3, <2>1, <2>2
<1>10. CASE BrokerTakes
  <2>1. wire # <<>> /\ retained' = Kept(Head(wire)) /\ wire' = Tail(wire) /\ unacked' = unacked
    BY <1>10 DEF BrokerTakes
  <2>2. Head(wire) \in P /\ Tail(wire) \in Seq(P) /\ Len(Tail(wire)) <= WireRoom
    <3> HIDE DEF P
    <3>1. Head(wire) \in P /\ Tail(wire) \in Seq(P)
      BY <1>2, <2>1, HeadTailProperties
    <3>2. Len(Tail(wire)) = Len(wire) - 1
      BY <1>2, <2>1
    <3> QED
      BY <1>2, <3>1, <3>2, RoomAssumption
  <2> HIDE DEF P, K
  <2>3. retained' \subseteq K /\ \A p, q \in retained' : p.topic = q.topic => p = q
    <3>1. TruePublications \cup OldPublications \subseteq K /\ Head(wire) \in K
      BY <1>1, <2>2 DEF K
    <3> QED
      BY <2>1, <3>1, KeptTrue DEF Inv
  <2> QED
    BY <1>2, <1>3, <2>1, <2>2, <2>3
<1>11. CASE SessionExpires
  <2>1. wire' = wire /\ unacked' = unacked /\ WillPublished
    BY <1>11 DEF SessionExpires, clientVars
  <2> HIDE DEF P, K
  <2> QED
    BY <1>2, <1>3, <1>4, <2>1
<1>12. CASE Resend
  <2>1. /\ unacked # <<>> /\ Len(wire) < WireRoom /\ retained' = retained
        /\ wire' = Append(wire, Head(unacked)) /\ unacked' = Tail(unacked)
    BY <1>12 DEF Resend, brokerVars
  <2> HIDE DEF P, K
  <2>2. Head(unacked) \in P /\ Tail(unacked) \in Seq(P)
    BY <1>2, <2>1, HeadTailProperties
  <2>3. wire' \in Seq(P) /\ Len(wire') = Len(wire) + 1
    BY <1>2, <2>1, <2>2, AppendProperties
  <2>4. Len(wire') <= WireRoom
    BY <1>2, <2>1, <2>3, RoomAssumption
  <2> QED
    BY <1>2, <1>3, <2>1, <2>2, <2>3, <2>4
<1>13. ASSUME NEW t \in Tasks, Act(t), ~Enqueue(t) PROVE UNCHANGED <<wire, unacked, retained>>
  BY <1>13 DEF Act, AtAnswer, AtTimeout, Pub, StatusCall, AtEnter, CsqEnd, SmsEnd, clientVars,
     brokerVars
<1>14. ASSUME Handler, ~Connected PROVE UNCHANGED <<wire, unacked, retained>>
  BY <1>14 DEF Handler, Disconnected, SendButton, NumberSet, MessageSet, SendJson, Command,
     clientVars, brokerVars
<1>15. ASSUME Own, ~Stop PROVE UNCHANGED <<wire, unacked, retained>>
  BY <1>15 DEF Own, StatusTimer, PublishInbound, Start, clientVars, brokerVars
<1>16. CASE InboundSms \/ NetworkLost \/ NetworkBack
  <2>1. UNCHANGED <<wire, unacked, retained>>
    BY <1>16 DEF InboundSms, NetworkLost, NetworkBack, clientVars, brokerVars
  <2> QED
    BY <1>5, <2>1
<1> QED
  BY <1>5, <1>6, <1>7, <1>8, <1>9, <1>10, <1>11, <1>12, <1>13, <1>14, <1>15, <1>16
     DEF Next, World

(* Every step keeps the invariant.                                         *)
LEMMA StepInv == Inv /\ [Next]_vars => Inv'
<1> SUFFICES ASSUME Inv, [Next]_vars PROVE Inv'
  OBVIOUS
<1>1. CASE Next
  <2>1. FlagInv' /\ CountsGrow
    BY <1>1, FlagStep
  <2>2. ListInv'
    BY <1>1, <2>1, ActLists, OtherLists DEF Next
  <2>3. PipeInv'
    BY <1>1, <2>1, PipeStep
  <2> QED
    BY <2>1, <2>2, <2>3 DEF Inv
<1>2. CASE UNCHANGED vars
  <2>1. /\ UNCHANGED <<s_connected, s_discovery_done, s_number_buf, s_message_buf, s_sent_count>>
        /\ UNCHANGED <<s_recv_count, todo, at_mutex, link, wire, unacked, session, retained>>
        /\ UNCHANGED <<commands, losses>>
    BY <1>2 DEF vars, flags, bufVars, counts, clientVars, brokerVars, bounds
  <2>2. FlagInv'
    BY <2>1 DEF Inv, FlagInv
  <2>3. CountsGrow
    BY <2>1 DEF Inv, FlagInv, CountsGrow
  <2> QED
    BY <2>1, <2>2, <2>3, ListsLast, PipesLast DEF Inv
<1> QED
  BY <1>1, <1>2

LEMMA AlwaysInv == Spec => []Inv
BY InitInv, StepInv, PTL DEF Spec

-----------------------------------------------------------------------------
(* The types of the gateway's, the client's and the broker's state.        *)
THEOREM TypeCorrect == Spec => []TypeOK
<1>1. Inv => TypeOK
  BY InvImplies
<1> QED
  BY <1>1, AlwaysInv, PTL

(* No counter Home Assistant is told is ahead of the gateway's, and "sent" *)
(* is only said after a message was sent.                                  *)
THEOREM ReportsAreTrue == Spec => []ReportsTrue
<1>1. Inv => ReportsTrue
  BY InvImplies
<1> QED
  BY <1>1, AlwaysInv, PTL

(* Nobody waits in a circle, for both locks together.                      *)
THEOREM WaitsEnd == Spec => []NoCircularWait
<1>1. TypeOK => NoCircularWait
  <2> SUFFICES ASSUME TypeOK, NEW t \in Tasks, NEW u \in Tasks, NEW v \in Tasks, NEW w \in Tasks,
                      WaitsFor(t, u), WaitsFor(u, v), WaitsFor(v, w)
               PROVE  FALSE
    BY DEF NoCircularWait
  <2>1. \A x \in Tasks : at_mutex = x => At(x, "csq_answer") \/ At(x, "sms_answer")
    BY DEF TypeOK
  <2>2. u # at_mutex /\ v # at_mutex
    BY <2>1 DEF WaitsFor, At
  <2>3. u = "mqtt" /\ v = "mqtt"
    BY <2>2 DEF WaitsFor
  <2> QED
    BY <2>2, <2>3 DEF WaitsFor
<1> QED
  BY <1>1, TypeCorrect, PTL

-----------------------------------------------------------------------------
(* "online".  What is published of the gateway's own status is "online".   *)
Plain ==
  {x \in Steps : x.topic = "status" => x.op \in {"pub", "enqueue"} /\ x.word = "online"}

PlainInv ==
  /\ todo \in [Tasks -> Seq(Plain)]
  /\ wire \in Seq(Plain) /\ unacked \in Seq(Plain)

Carries(list) == \E i \in DOMAIN list : list[i].topic = "status"

(* On a connection that is there to stay "online" is shown or still to be  *)
(* sent.                                                                   *)
OnlineComing ==
  link = "up" /\ ~Stopping /\ "status" \in Watched =>
    Shown("status", "online") \/ Carries(wire) \/ Carries(unacked) \/ Carries(todo["mqtt"])

OnlineInv == PlainInv /\ ConnectionUsed /\ OnlineComing

(* The lists of steps the code makes.                                      *)
LEMMA PlainLists ==
  ASSUME TypeOK
  PROVE  /\ \A topic : \A word \in Words :
              (topic = "status" => word = "online") => Say(topic, word) \in Seq(Plain)
         /\ \A op \in Ops : Call(op) \in Seq(Plain)
         /\ \A s, u \in Seq(Plain) : s \o u \in Seq(Plain)
         /\ <<>> \in Seq(Plain)
<1>1. ASSUME NEW topic, NEW word \in Words, topic = "status" => word = "online"
      PROVE  Say(topic, word) \in Seq(Plain)
  <2>1. CASE topic \in Watched
    <3>1. Step("pub", topic, word) \in Plain
      BY <1>1, <2>1 DEF Step, Plain, Steps, Ops
    <3> QED
      BY <2>1, <3>1, OneStep DEF Say
  <2>2. CASE topic \notin Watched
    BY <2>2, EmptySeq DEF Say
  <2> QED
    BY <2>1, <2>2
<1>2. ASSUME NEW op \in Ops PROVE Call(op) \in Seq(Plain)
  <2>1. Step(op, "none", "none") \in Plain
    BY DEF Step, Plain, Steps, Words
  <2> QED
    BY <2>1, OneStep DEF Call
<1>3. \A s, u \in Seq(Plain) : s \o u \in Seq(Plain)
  BY ConcatProperties
<1> QED
  BY <1>1, <1>2, <1>3, EmptySeq

(* What the handlers and callbacks publish.                                *)
LEMMA PlainMade ==
  ASSUME TypeOK
  PROVE  /\ Counts \in Seq(Plain) /\ OnConnected \in Seq(Plain)
         /\ \A ok \in BOOLEAN : AfterSend(ok) \in Seq(Plain)
         /\ SendStatus("sending") \in Seq(Plain) /\ SendStatus("failed") \in Seq(Plain)
         /\ ButtonState("idle") \in Seq(Plain) /\ ButtonState("sending") \in Seq(Plain)
<1> DEFINE S == Seq(Plain)
<1>1. \A topic : \A word \in Words : (topic = "status" => word = "online") => Say(topic, word) \in S
  BY PlainLists
<1>2. /\ \A s, u \in S : s \o u \in S
      /\ <<>> \in S /\ Call("publish_status") \in S
  BY PlainLists DEF Ops
<1>3. s_number_buf \in Words /\ s_message_buf \in Words
  BY DEF TypeOK, Words
<1> HIDE DEF S
<1>4. \A topic : topic # "status" => Config(topic) \in S
  BY <1>1 DEF Config, Words
<1>5. Counts \in S
  BY <1>1, <1>2 DEF Counts, Words
<1>6. /\ SendStatus("sending") \in S /\ SendStatus("failed") \in S /\ SendStatus("sent") \in S
      /\ Say("last_sent_to", "text") \in S /\ Say("last_sent_body", "text") \in S
  BY <1>1 DEF SendStatus, Words
<1>7. ButtonState("idle") \in S /\ ButtonState("sending") \in S
  BY <1>1 DEF ButtonState, Words
<1>8. Automations \in S
  BY <1>2, <1>4 DEF Automations
<1>9. Entities \in S
  BY <1>2, <1>4 DEF Entities
<1>10. /\ Say("status", "online") \in S /\ Say("number/state", s_number_buf) \in S
       /\ Say("message/state", s_message_buf) \in S
  BY <1>1, <1>3 DEF Words
<1>11. OnConnected \in S
  <2>1. (IF s_discovery_done THEN <<>> ELSE Entities \o Automations) \in S
    BY <1>2, <1>8, <1>9
  <2> QED
    BY <1>2, <1>7, <1>10, <2>1 DEF OnConnected
<1>12. \A ok \in BOOLEAN : AfterSend(ok) \in S
  BY <1>2, <1>6 DEF AfterSend
<1> QED
  BY <1>5, <1>6, <1>7, <1>11, <1>12 DEF S

(* The first step of a task gives way to others.                           *)
LEMMA PlainGo ==
  ASSUME PlainInv, NEW t \in Tasks, ~Free(t), NEW steps \in Seq(Plain), Go(t, steps)
  PROVE  todo' \in [Tasks -> Seq(Plain)]
<1>1. Tail(todo[t]) \in Seq(Plain)
  BY HeadTailProperties DEF PlainInv, Free
<1>2. steps \o Tail(todo[t]) \in Seq(Plain)
  BY <1>1, ConcatProperties
<1> QED
  BY <1>2 DEF PlainInv, Go

LEMMA PlainBegin ==
  ASSUME PlainInv, NEW t \in Tasks, NEW steps \in Seq(Plain), Begin(t, steps)
  PROVE  todo' \in [Tasks -> Seq(Plain)]
BY DEF PlainInv, Begin

(* Nothing else is ever published of the status.                           *)
LEMMA PlainNext ==
  ASSUME TypeOK, PlainInv, Next
  PROVE  PlainInv'
<1>1. <<>> \in Seq(Plain) /\ \A op \in Ops : Call(op) \in Seq(Plain)
  BY PlainLists
<1>2. ASSUME NEW t \in Tasks, ~Free(t)
      PROVE  Head(todo[t]) \in Plain /\ Tail(todo[t]) \in Seq(Plain)
  BY <1>2, HeadTailProperties DEF PlainInv, Free
<1>3. ASSUME NEW t \in Tasks, NEW steps \in Seq(Plain), Go(t, steps), ~Free(t),
             UNCHANGED <<wire, unacked>>
      PROVE  PlainInv'
  BY <1>3, PlainGo DEF PlainInv
<1>4. ASSUME NEW t \in Tasks, NEW steps \in Seq(Plain), Begin(t, steps), UNCHANGED <<wire, unacked>>
      PROVE  PlainInv'
  BY <1>4, PlainBegin DEF PlainInv
<1>5. ASSUME NEW t \in Tasks, Act(t) PROVE PlainInv'
  <2>1. CASE Pub(t)
    <3>1. ~Free(t) /\ UNCHANGED <<wire, unacked>>
      BY <2>1 DEF Pub, At, clientVars
    <3>2. Formatted(Head(todo[t])) \in Plain
      <4>1. Number(Head(todo[t]).topic) \in Nat
        BY DEF TypeOK, Number
      <4> QED
        BY <1>2, <3>1, <4>1 DEF Formatted, Plain, Steps, Ops
    <3>3. <<Formatted(Head(todo[t]))>> \in Seq(Plain)
      BY <3>2, OneStep
    <3>4. PICK steps \in Seq(Plain) : Go(t, steps)
      BY <1>1, <2>1, <3>3 DEF Pub
    <3> QED
      BY <1>3, <3>1, <3>4
  <2>2. CASE Enqueue(t)
    <3>1. ~Free(t) /\ Go(t, <<>>)
      BY <2>2 DEF Enqueue, At
    <3>2. wire' \in {wire, Append(wire, Head(todo[t]))}
      BY <2>2 DEF Enqueue
    <3>3. unacked' \in {unacked, Append(unacked, Head(todo[t]))}
      BY <2>2 DEF Enqueue
    <3>4. wire' \in Seq(Plain) /\ unacked' \in Seq(Plain)
      <4>1. Head(todo[t]) \in Plain /\ wire \in Seq(Plain) /\ unacked \in Seq(Plain)
        BY <1>2, <3>1 DEF PlainInv
      <4>2. /\ Append(wire, Head(todo[t])) \in Seq(Plain)
            /\ Append(unacked, Head(todo[t])) \in Seq(Plain)
        BY <4>1, AppendProperties
      <4> QED
        BY <3>2, <3>3, <4>1, <4>2
    <3>5. todo' \in [Tasks -> Seq(Plain)]
      BY <1>1, <3>1, PlainGo
    <3> QED
      BY <3>4, <3>5 DEF PlainInv
  <2>3. CASE StatusCall(t)
    <3>1. ~Free(t) /\ UNCHANGED <<wire, unacked>>
      BY <2>3 DEF StatusCall, At, clientVars
    <3>2. /\ Call("csq") \in Seq(Plain) /\ Counts \in Seq(Plain)
          /\ Say("signal", "text") \in Seq(Plain) /\ Say("operator", "text") \in Seq(Plain)
      BY PlainLists, PlainMade DEF Ops, Words
    <3>3. Call("csq") \o Say("signal", "text") \o Say("operator", "text") \o Counts \in Seq(Plain)
      BY <3>2, ConcatProperties
    <3>4. PICK steps \in Seq(Plain) : Go(t, steps)
      BY <1>1, <2>3, <3>3 DEF StatusCall
    <3> QED
      BY <1>3, <3>1, <3>4
  <2>4. CASE AtEnter(t)
    BY <1>1, <1>3, <2>4 DEF AtEnter, At, clientVars, Ops
  <2>5. CASE CsqEnd(t)
    BY <1>1, <1>3, <2>5 DEF CsqEnd, At, clientVars
  <2>6. ASSUME NEW ok \in BOOLEAN, SmsEnd(t, ok) PROVE PlainInv'
    BY <1>3, <2>6, PlainMade DEF SmsEnd, At, clientVars
  <2> QED
    BY <1>5, <2>1, <2>2, <2>3, <2>4, <2>5, <2>6 DEF Act, AtAnswer, AtTimeout
<1>6. CASE Handler
  <2>1. CASE Connected
    <3>1. Begin("mqtt", OnConnected) /\ wire' = <<>> /\ unacked' = unacked
      BY <2>1 DEF Connected
    <3>2. todo' \in [Tasks -> Seq(Plain)]
      BY <3>1, PlainMade, PlainBegin DEF Tasks
    <3> QED
      BY <1>1, <3>1, <3>2 DEF PlainInv
  <2>2. CASE Disconnected
    BY <2>2 DEF Disconnected, PlainInv
  <2>3. ASSUME NEW steps \in Seq(Plain), Command(steps) PROVE PlainInv'
    BY <1>4, <2>3 DEF Command, clientVars, Tasks
  <2>4. CASE SendButton
    <3>1. SendStatus("sending") \o ButtonState("sending") \o Call("sms") \o ButtonState("idle")
            \in Seq(Plain)
      BY <1>1, PlainMade, ConcatProperties DEF Ops
    <3> QED
      BY <2>3, <2>4, <3>1, PlainMade DEF SendButton
  <2>5. ASSUME NEW word \in {"empty", "text"}, NumberSet(word) \/ MessageSet(word)
        PROVE  PlainInv'
    <3>1. Say("number/state", word) \in Seq(Plain) /\ Say("message/state", word) \in Seq(Plain)
      BY PlainLists DEF Words
    <3> QED
      BY <2>3, <2>5, <3>1 DEF NumberSet, MessageSet
  <2>6. ASSUME NEW valid \in BOOLEAN, SendJson(valid) PROVE PlainInv'
    <3>1. SendStatus("sending") \o Call("sms") \in Seq(Plain)
      BY <1>1, PlainMade, ConcatProperties DEF Ops
    <3> QED
      BY <1>1, <2>3, <2>6, <3>1 DEF SendJson
  <2> QED
    BY <1>6, <2>1, <2>2, <2>4, <2>5, <2>6 DEF Handler
<1>7. CASE Own
  <2>1. CASE StatusTimer
    BY <1>1, <1>4, <2>1 DEF StatusTimer, clientVars, Tasks, Ops
  <2>2. CASE PublishInbound
    <3> DEFINE made == Say("incoming/from", "count") \o Say("incoming/body", "count")
                       \o Say("incoming/time", "count") \o Say("incoming", "count")
                       \o Say("message_received/event", "count") \o Say("received_count", "count")
               S == Seq(Plain)
    <3>1. \A topic : topic # "status" => Say(topic, "count") \in S
      BY PlainLists DEF Words
    <3>2. \A s, u \in S : s \o u \in S
      BY PlainLists
    <3> HIDE DEF S
    <3>3. made \in S
      BY <3>1, <3>2
    <3>4. Go("reader", IF s_connected THEN made ELSE <<>>) /\ UNCHANGED <<wire, unacked>>
      BY <2>2 DEF PublishInbound, clientVars
    <3> HIDE DEF made
    <3>5. PICK steps \in Seq(Plain) : Go("reader", steps)
      BY <1>1, <3>3, <3>4 DEF S
    <3> QED
      BY <1>3, <2>2, <3>4, <3>5 DEF PublishInbound, At, Tasks
  <2>3. CASE Stop
    BY <1>1, <2>3, PlainGo DEF Stop, At, PlainInv, Tasks
  <2>4. CASE Start
    BY <1>1, <1>3, <2>4 DEF Start, At, Tasks
  <2> QED
    BY <1>7, <2>1, <2>2, <2>3, <2>4 DEF Own
<1>8. CASE World
  <2>1. CASE InboundSms \/ NetworkLost \/ NetworkBack
    BY <1>1, <1>4, <2>1 DEF InboundSms, NetworkLost, NetworkBack, clientVars, Tasks, Ops
  <2>2. CASE Break
    BY <2>2, ConcatProperties DEF Break, PlainInv
  <2>3. CASE BrokerTakes
    BY <2>3, HeadTailProperties DEF BrokerTakes, PlainInv
  <2>4. CASE SessionExpires
    BY <2>4 DEF SessionExpires, PlainInv, clientVars
  <2>5. CASE Resend
    BY <2>5, HeadTailProperties, AppendProperties DEF Resend, PlainInv
  <2> QED
    BY <1>8, <2>1, <2>2, <2>3, <2>4, <2>5 DEF World
<1> QED
  BY <1>5, <1>6, <1>7, <1>8 DEF Next

(* A stop that is waiting waits on, whatever the other tasks do.           *)
LEMMA StopWaits ==
  ASSUME TypeOK, Stopping, Next, ~Stop
  PROVE  Stopping'
<1>1. At("evloop", "stop") /\ ~Free("evloop")
  BY DEF Stopping, At
<1>2. ASSUME UNCHANGED todo PROVE Stopping'
  BY <1>2 DEF Stopping, At, Free
<1>3. ASSUME NEW t \in Tasks, NEW steps, Go(t, steps), t # "evloop" PROVE Stopping'
  BY <1>3 DEF Stopping, At, Free, Go, TypeOK, Tasks
<1>4. ASSUME NEW t \in Tasks, NEW steps, Begin(t, steps) PROVE Stopping'
  <2>1. t # "evloop"
    BY <1>1, <1>4 DEF Begin
  <2> QED
    BY <1>4, <2>1 DEF Stopping, At, Free, Begin, TypeOK, Tasks
<1>5. ASSUME NEW t \in Tasks, Act(t) PROVE Stopping'
  <2>1. t # "evloop"
    BY <1>1, <1>5 DEF Act, AtAnswer, AtTimeout, Pub, Enqueue, StatusCall, AtEnter, CsqEnd, SmsEnd,
                      At
  <2>2. \E steps : Go(t, steps)
    BY <1>5 DEF Act, AtAnswer, AtTimeout, Pub, Enqueue, StatusCall, AtEnter, CsqEnd, SmsEnd
  <2> QED
    BY <1>3, <2>1, <2>2
<1>6. CASE Handler
  <2>1. (\E steps : Begin("mqtt", steps)) \/ UNCHANGED todo
    BY <1>6 DEF Handler, Connected, Disconnected, SendButton, NumberSet, MessageSet, SendJson,
                Command
  <2> QED
    BY <1>2, <1>4, <2>1 DEF Tasks
<1>7. CASE Own
  <2>1. CASE StatusTimer
    BY <1>4, <2>1 DEF StatusTimer, Tasks
  <2>2. CASE PublishInbound
    BY <1>3, <2>2 DEF PublishInbound, Tasks
  <2>3. ~Start
    BY <1>1 DEF Start, At
  <2> QED
    BY <1>7, <2>1, <2>2, <2>3 DEF Own
<1>8. CASE World
  <2>1. CASE InboundSms \/ NetworkLost \/ NetworkBack
    BY <1>4, <2>1 DEF InboundSms, NetworkLost, NetworkBack, Tasks
  <2>2. CASE Break \/ BrokerTakes \/ SessionExpires \/ Resend
    BY <1>2, <2>2 DEF Break, BrokerTakes, SessionExpires, Resend
  <2> QED
    BY <1>8, <2>1, <2>2 DEF World
<1> QED
  BY <1>5, <1>6, <1>7, <1>8 DEF Next

(* The two tasks that write the flag: a connection on which nothing would  *)
(* be published is about to be stopped.                                    *)
LEMMA UsedNext ==
  ASSUME TypeOK, ConnectionUsed, Next
  PROVE  ConnectionUsed'
<1>1. CASE Stopping /\ ~Stop
  BY <1>1, StopWaits DEF ConnectionUsed
<1>2. CASE Stop
  BY <1>2 DEF Stop, ConnectionUsed
<1>3. CASE ~Stopping /\ ~Stop
  <2>1. ASSUME UNCHANGED <<link, s_connected>> PROVE ConnectionUsed'
    BY <1>3, <2>1 DEF ConnectionUsed
  <2>2. ASSUME NEW t \in Tasks, Act(t) PROVE ConnectionUsed'
    BY <2>1, <2>2 DEF Act, AtAnswer, AtTimeout, Pub, Enqueue, StatusCall, AtEnter, CsqEnd, SmsEnd,
                      clientVars, flags
  <2>3. CASE Handler
    BY <2>1, <2>3 DEF Handler, Connected, Disconnected, SendButton, NumberSet, MessageSet,
                      SendJson, Command, clientVars, flags, ConnectionUsed
  <2>4. CASE Own
    BY <1>3, <2>1, <2>4 DEF Own, StatusTimer, PublishInbound, Start, clientVars, flags,
                            ConnectionUsed
  <2>5. CASE NetworkLost
    <3>1. todo' = [todo EXCEPT !["evloop"] = Call("stop")]
      BY <2>5 DEF NetworkLost, Begin
    <3>2. todo'["evloop"] = <<Step("stop", "none", "none")>>
      BY <3>1 DEF TypeOK, Tasks, Call
    <3>3. Stopping'
      BY <3>2 DEF Stopping, At, Free, Step
    <3> QED
      BY <3>3 DEF ConnectionUsed
  <2>6. CASE World /\ ~NetworkLost
    BY <2>1, <2>6 DEF World, InboundSms, NetworkBack, Break, BrokerTakes, SessionExpires, Resend,
                      clientVars, flags, ConnectionUsed
  <2> QED
    BY <2>2, <2>3, <2>4, <2>5, <2>6 DEF Next
<1> QED
  BY <1>1, <1>2, <1>3

(* Where a report of the status is after its list has changed.             *)
LEMMA CarriesOn ==
  ASSUME NEW s \in Seq(Plain), NEW u \in Seq(Plain)
  PROVE  /\ Carries(s) \/ Carries(u) => Carries(s \o u)
         /\ s # <<>> => Head(s) \in Plain /\ Tail(s) \in Seq(Plain)
         /\ s # <<>> /\ Carries(s) => Head(s).topic = "status" \/ Carries(Tail(s))
         /\ \A x \in Plain : /\ Carries(s) => Carries(Append(s, x))
                             /\ x.topic = "status" => Carries(Append(s, x))
                             /\ x.topic = "status" => Carries(<<x>>)
         /\ ~Carries(<<>>)
<1>1. ASSUME Carries(s) \/ Carries(u) PROVE Carries(s \o u)
  <2>1. /\ Len(s) \in Nat /\ Len(u) \in Nat /\ DOMAIN s = 1..Len(s) /\ DOMAIN u = 1..Len(u)
        /\ DOMAIN (s \o u) = 1..(Len(s) + Len(u))
        /\ \A i \in 1..Len(s) : (s \o u)[i] = s[i]
        /\ \A i \in 1..Len(u) : (s \o u)[Len(s) + i] = u[i]
    OBVIOUS
  <2>2. CASE Carries(s)
    <3>1. PICK i \in 1..Len(s) : s[i].topic = "status"
      BY <2>1, <2>2 DEF Carries
    <3>2. i \in DOMAIN (s \o u) /\ (s \o u)[i].topic = "status"
      BY <2>1, <3>1
    <3> QED
      BY <3>2 DEF Carries
  <2>3. CASE Carries(u)
    <3>1. PICK i \in 1..Len(u) : u[i].topic = "status"
      BY <2>1, <2>3 DEF Carries
    <3>2. Len(s) + i \in DOMAIN (s \o u) /\ (s \o u)[Len(s) + i].topic = "status"
      BY <2>1, <3>1
    <3> QED
      BY <3>2 DEF Carries
  <2> QED
    BY <1>1, <2>2, <2>3
<1>2. s # <<>> => Head(s) \in Plain /\ Tail(s) \in Seq(Plain)
  BY HeadTailProperties
<1>3. ASSUME s # <<>>, Carries(s), Head(s).topic # "status" PROVE Carries(Tail(s))
  <2>1. /\ Len(s) \in Nat /\ DOMAIN s = 1..Len(s) /\ Head(s) = s[1]
        /\ DOMAIN Tail(s) = 1..(Len(s) - 1)
        /\ \A i \in 1..(Len(s) - 1) : Tail(s)[i] = s[i + 1]
    BY <1>3
  <2>2. PICK i \in 1..Len(s) : s[i].topic = "status"
    BY <1>3, <2>1 DEF Carries
  <2>3. i # 1
    BY <1>3, <2>1, <2>2
  <2>4. i - 1 \in 1..(Len(s) - 1) /\ Tail(s)[i - 1] = s[i]
    BY <2>1, <2>2, <2>3
  <2> QED
    BY <2>1, <2>2, <2>4 DEF Carries
<1>4. ASSUME NEW x \in Plain, Carries(s) \/ x.topic = "status" PROVE Carries(Append(s, x))
  <2>1. /\ Len(s) \in Nat /\ DOMAIN s = 1..Len(s) /\ DOMAIN Append(s, x) = 1..(Len(s) + 1)
        /\ \A i \in 1..Len(s) : Append(s, x)[i] = s[i]
        /\ Append(s, x)[Len(s) + 1] = x
    BY AppendProperties, LenProperties
  <2> QED
    BY <1>4, <2>1 DEF Carries
<1>5. ASSUME NEW x \in Plain, x.topic = "status" PROVE Carries(<<x>>)
  <2>1. 1 \in DOMAIN <<x>> /\ <<x>>[1] = x
    OBVIOUS
  <2> QED
    BY <1>5, <2>1 DEF Carries
<1>6. ~Carries(<<>>)
  BY DEF Carries
<1> QED
  BY <1>1, <1>2, <1>3, <1>4, <1>5, <1>6

(* A report of the status is there to be sent first when the client has    *)
(* connected.                                                              *)
LEMMA ConnectedCarries ==
  ASSUME TypeOK, "status" \in Watched PROVE Carries(OnConnected)
<1> DEFINE first == Say("status", "online")
           rest  == (IF s_discovery_done THEN <<>> ELSE Entities \o Automations)
           last  == Say("number/state", s_number_buf) \o Say("message/state", s_message_buf)
                    \o ButtonState("idle") \o Call("publish_status")
           S     == Seq(Plain)
<1>1. \A topic : \A word \in Words : (topic = "status" => word = "online") => Say(topic, word) \in S
  BY PlainLists
<1>2. (\A s, u \in S : s \o u \in S) /\ <<>> \in S /\ Call("publish_status") \in S
  BY PlainLists DEF Ops
<1>3. \A s, u \in S : Carries(s) => Carries(s \o u)
  BY CarriesOn
<1>4. Carries(first)
  <2>1. first = <<Step("pub", "status", "online")>> /\ Step("pub", "status", "online") \in Plain
    BY DEF Say, Step, Plain, Steps, Ops, Words
  <2>2. Step("pub", "status", "online").topic = "status"
    BY DEF Step
  <2> QED
    BY <2>1, <2>2, CarriesOn, EmptySeq
<1>5. ButtonState("idle") \in S
  BY PlainMade
<1> HIDE DEF S
<1>6. s_number_buf \in Words /\ s_message_buf \in Words
  BY DEF TypeOK, Words
<1>7. \A topic : topic # "status" => Config(topic) \in S
  BY <1>1 DEF Config, Words
<1>8. Entities \in S
  BY <1>2, <1>7 DEF Entities
<1>9. Automations \in S
  BY <1>2, <1>7 DEF Automations
<1>10. first \in S /\ rest \in S
  BY <1>1, <1>2, <1>8, <1>9 DEF Words
<1>11. Say("number/state", s_number_buf) \in S /\ Say("message/state", s_message_buf) \in S
  BY <1>1, <1>6
<1> HIDE DEF first, rest
<1>12. Carries(first \o rest \o Say("number/state", s_number_buf)
               \o Say("message/state", s_message_buf) \o ButtonState("idle")
               \o Call("publish_status"))
  BY <1>2, <1>3, <1>4, <1>5, <1>10, <1>11
<1> QED
  BY <1>12 DEF OnConnected, first, rest

(* What a task does with its list when its first step is done.             *)
LEMMA GoCarries ==
  ASSUME TypeOK, PlainInv, NEW t \in Tasks, ~Free(t), NEW steps \in Seq(Plain), Go(t, steps),
         t = "mqtt" /\ Head(todo[t]).topic = "status" => Carries(steps),
         Carries(todo["mqtt"])
  PROVE  Carries(todo["mqtt"])'
<1>1. CASE t # "mqtt"
  BY <1>1 DEF Go, TypeOK, Tasks
<1>2. CASE t = "mqtt"
  <2>1. todo[t] \in Seq(Plain) /\ todo[t] # <<>> /\ Carries(todo[t])
    BY <1>2 DEF PlainInv, Free
  <2>2. Tail(todo[t]) \in Seq(Plain) /\ (Carries(Tail(todo[t])) \/ Carries(steps))
    BY <1>2, <2>1, CarriesOn
  <2>3. Carries(steps \o Tail(todo[t]))
    BY <2>2, CarriesOn
  <2>4. todo'["mqtt"] = steps \o Tail(todo[t])
    BY <1>2 DEF Go, TypeOK
  <2> QED
    BY <2>3, <2>4
<1> QED
  BY <1>1, <1>2

(* What the broker has taken it shows, until it takes something newer of   *)
(* the topic.                                                              *)
LEMMA KeptShown ==
  ASSUME NEW pub \in Plain, retained' = Kept(pub),
         pub.topic = "status" \/ Shown("status", "online")
  PROVE  Shown("status", "online")'
BY DEF Plain, Kept, Shown

(* "online" is not lost between the list of a task, the client's outbox,   *)
(* the connection and the broker.                                          *)
LEMMA OnlineNext ==
  ASSUME TypeOK, OnlineInv, Next
  PROVE  OnlineComing'
<1>1. PlainInv /\ ConnectionUsed /\ OnlineComing
  BY DEF OnlineInv
<1>2. CASE Stop \/ Stopping
  <2>1. CASE Stop
    BY <2>1 DEF Stop, OnlineComing
  <2>2. CASE ~Stop /\ Stopping
    BY <2>2, StopWaits DEF OnlineComing
  <2> QED
    BY <1>2, <2>1, <2>2
<1>3. CASE ~Stop /\ ~Stopping
  <2> SUFFICES ASSUME link' = "up", "status" \in Watched, ~Connected
               PROVE  Shown("status", "online")' \/ Carries(wire)' \/ Carries(unacked)'
                      \/ Carries(todo["mqtt"])'
    <3>1. CASE Connected /\ "status" \in Watched
      <4>1. todo'["mqtt"] = OnConnected
        BY <3>1 DEF Connected, Begin, TypeOK, Tasks
      <4>2. Carries(todo["mqtt"])'
        BY <3>1, <4>1, ConnectedCarries
      <4> QED
        BY <4>2 DEF OnlineComing
    <3> QED
      BY <3>1 DEF OnlineComing
  <2>1. /\ wire \in Seq(Plain) /\ unacked \in Seq(Plain)
        /\ \A t \in Tasks : todo[t] \in Seq(Plain)
    BY <1>1 DEF PlainInv
  <2>2. link = "up" => Shown("status", "online") \/ Carries(wire) \/ Carries(unacked)
                       \/ Carries(todo["mqtt"])
    BY <1>1, <1>3 DEF OnlineComing
  <2>3. link = "up" => s_connected
    BY <1>1, <1>3 DEF ConnectionUsed
  <2>4. ASSUME link = "up", UNCHANGED <<wire, unacked, retained>>,
               Carries(todo["mqtt"]) => Carries(todo["mqtt"])'
        PROVE  Shown("status", "online")' \/ Carries(wire)' \/ Carries(unacked)'
               \/ Carries(todo["mqtt"])'
    BY <2>2, <2>4 DEF Shown
  <2>5. ASSUME NEW t \in Tasks, Act(t)
        PROVE  Shown("status", "online")' \/ Carries(wire)' \/ Carries(unacked)'
               \/ Carries(todo["mqtt"])'
    <3>1. link = "up" /\ retained' = retained
      BY <2>5 DEF Act, AtAnswer, AtTimeout, Pub, Enqueue, StatusCall, AtEnter, CsqEnd, SmsEnd,
                  clientVars, brokerVars
    <3>2. ~Free(t)
      BY <2>5 DEF Act, AtAnswer, AtTimeout, Pub, Enqueue, StatusCall, AtEnter, CsqEnd, SmsEnd, At
    <3>3. Head(todo[t]) \in Plain
      BY <2>1, <3>2, CarriesOn DEF Free
    <3>4. CASE Pub(t)
      <4>1. Go(t, <<Formatted(Head(todo[t]))>>) /\ UNCHANGED <<wire, unacked>>
        BY <2>3, <3>1, <3>4 DEF Pub, clientVars
      <4>2. Formatted(Head(todo[t])) \in Plain
        <5>1. Number(Head(todo[t]).topic) \in Nat
          BY DEF TypeOK, Number
        <5> QED
          BY <3>3, <5>1 DEF Formatted, Plain, Steps, Ops
      <4>3. Formatted(Head(todo[t])).topic = Head(todo[t]).topic
        BY <3>3 DEF Formatted, Plain, Steps
      <4> DEFINE x == Formatted(Head(todo[t]))
      <4> HIDE DEF x
      <4>4. x \in Plain /\ x.topic = Head(todo[t]).topic /\ Go(t, <<x>>)
        BY <4>1, <4>2, <4>3 DEF x
      <4>5. <<x>> \in Seq(Plain) /\ (x.topic = "status" => Carries(<<x>>))
        BY <4>4, OneStep, CarriesOn, EmptySeq
      <4>6. Carries(todo["mqtt"]) => Carries(todo["mqtt"])'
        BY <1>1, <3>2, <4>4, <4>5, GoCarries
      <4> QED
        BY <2>4, <3>1, <4>1, <4>6
    <3>5. CASE Enqueue(t)
      <4>1. /\ wire' = Append(wire, Head(todo[t])) /\ UNCHANGED unacked
            /\ Go(t, <<>>) /\ <<>> \in Seq(Plain)
        BY <3>1, <3>5, EmptySeq DEF Enqueue
      <4>2. CASE Head(todo[t]).topic = "status"
        BY <2>1, <3>3, <4>1, <4>2, CarriesOn
      <4>3. CASE Head(todo[t]).topic # "status"
        <5>1. Carries(wire) => Carries(wire)'
          BY <2>1, <3>3, <4>1, CarriesOn
        <5>2. Carries(todo["mqtt"]) => Carries(todo["mqtt"])'
          BY <1>1, <3>2, <4>1, <4>3, GoCarries
        <5> QED
          BY <2>2, <3>1, <4>1, <5>1, <5>2 DEF Shown
      <4> QED
        BY <4>2, <4>3
    <3>6. CASE ~Pub(t) /\ ~Enqueue(t)
      <4>1. UNCHANGED <<wire, unacked>>
        BY <2>5, <3>6 DEF Act, AtAnswer, AtTimeout, StatusCall, AtEnter, CsqEnd, SmsEnd, clientVars
      <4>2. Head(todo[t]).op \notin {"pub", "enqueue"}
        BY <2>5, <3>6 DEF Act, AtAnswer, AtTimeout, StatusCall, AtEnter, CsqEnd, SmsEnd, At
      <4>3. Head(todo[t]).topic # "status"
        BY <3>3, <4>2 DEF Plain
      <4>4. PICK steps : Go(t, steps)
        BY <2>5, <3>6 DEF Act, AtAnswer, AtTimeout, StatusCall, AtEnter, CsqEnd, SmsEnd
      <4>5. Carries(todo["mqtt"]) => Carries(todo["mqtt"])'
        <5>1. CASE t # "mqtt"
          BY <4>4, <5>1 DEF Go, TypeOK, Tasks
        <5>2. CASE t = "mqtt"
          <6>1. \E made \in Seq(Plain) : Go(t, made)
            <7>1. CASE StatusCall(t)
              <8>1. /\ Call("csq") \in Seq(Plain) /\ Counts \in Seq(Plain)
                    /\ Say("signal", "text") \in Seq(Plain)
                    /\ Say("operator", "text") \in Seq(Plain)
                BY PlainLists, PlainMade DEF Ops, Words
              <8>2. Call("csq") \o Say("signal", "text") \o Say("operator", "text") \o Counts
                      \in Seq(Plain)
                BY <8>1, ConcatProperties
              <8> QED
                BY <7>1, <8>2, EmptySeq DEF StatusCall
            <7>2. CASE AtEnter(t)
              BY <7>2, PlainLists DEF AtEnter, Ops
            <7>3. CASE CsqEnd(t)
              BY <7>3, EmptySeq DEF CsqEnd
            <7>4. CASE \E ok \in BOOLEAN : SmsEnd(t, ok)
              BY <7>4, PlainMade DEF SmsEnd
            <7> QED
              BY <2>5, <3>6, <7>1, <7>2, <7>3, <7>4 DEF Act, AtAnswer, AtTimeout
          <6> QED
            BY <1>1, <3>2, <4>3, <6>1, GoCarries
        <5> QED
          BY <5>1, <5>2
      <4> QED
        BY <2>4, <3>1, <4>1, <4>5
    <3> QED
      BY <3>4, <3>5, <3>6
  <2>6. ASSUME NEW t \in Tasks, NEW steps, Begin(t, steps), UNCHANGED <<wire, unacked, retained>>,
               link = "up"
        PROVE  Shown("status", "online")' \/ Carries(wire)' \/ Carries(unacked)'
               \/ Carries(todo["mqtt"])'
    <3>1. Carries(todo["mqtt"]) => Carries(todo["mqtt"])'
      <4>1. CASE t = "mqtt"
        BY <2>6, <4>1, CarriesOn, EmptySeq DEF Begin, Free
      <4>2. CASE t # "mqtt"
        BY <2>6, <4>2 DEF Begin, TypeOK, Tasks
      <4> QED
        BY <4>1, <4>2
    <3> QED
      BY <2>4, <2>6, <3>1
  <2>7. CASE Handler
    <3>1. ~Disconnected
      BY DEF Disconnected
    <3>2. \E steps : Command(steps)
      BY <2>7, <3>1 DEF Handler, SendButton, NumberSet, MessageSet, SendJson
    <3> QED
      BY <2>6, <3>2 DEF Command, clientVars, brokerVars, Tasks
  <2>8. CASE Own
    <3>1. CASE StatusTimer
      BY <2>6, <3>1 DEF StatusTimer, clientVars, brokerVars, Tasks
    <3>2. CASE PublishInbound
      <4>1. Carries(todo["mqtt"]) => Carries(todo["mqtt"])'
        BY <3>2 DEF PublishInbound, Go, TypeOK, Tasks
      <4> QED
        BY <2>4, <3>2, <4>1 DEF PublishInbound, clientVars, brokerVars
    <3>3. ~Start
      BY DEF Start
    <3> QED
      BY <1>3, <2>8, <3>1, <3>2, <3>3 DEF Own
  <2>9. CASE World
    <3>1. CASE InboundSms \/ NetworkLost \/ NetworkBack
      BY <2>6, <3>1 DEF InboundSms, NetworkLost, NetworkBack, clientVars, brokerVars, Tasks
    <3>2. CASE BrokerTakes
      <4>1. /\ wire # <<>> /\ retained' = Kept(Head(wire)) /\ wire' = Tail(wire)
            /\ UNCHANGED <<unacked, todo>> /\ link = "up"
        BY <3>2 DEF BrokerTakes
      <4>2. Head(wire) \in Plain
        BY <2>1, <4>1, CarriesOn
      <4>3. CASE Head(wire).topic = "status"
        BY <4>1, <4>2, <4>3, KeptShown
      <4>4. CASE Head(wire).topic # "status"
        <5>1. Carries(wire) => Carries(wire)'
          BY <2>1, <4>1, <4>4, CarriesOn
        <5>2. Shown("status", "online") => Shown("status", "online")'
          BY <4>1, <4>2, KeptShown
        <5> QED
          BY <2>2, <4>1, <5>1, <5>2
      <4> QED
        BY <4>3, <4>4
    <3>3. CASE Resend
      <4>1. /\ unacked # <<>> /\ wire' = Append(wire, Head(unacked)) /\ unacked' = Tail(unacked)
            /\ UNCHANGED <<todo, retained>> /\ link = "up"
        BY <3>3 DEF Resend, brokerVars
      <4>2. Head(unacked) \in Plain
        BY <2>1, <4>1, CarriesOn
      <4>3. Carries(wire) => Carries(wire)'
        BY <2>1, <4>1, <4>2, CarriesOn
      <4>4. Carries(unacked) => Carries(wire)' \/ Carries(unacked)'
        BY <2>1, <4>1, <4>2, CarriesOn
      <4> QED
        BY <2>2, <4>1, <4>3, <4>4 DEF Shown
    <3>4. ~Break /\ ~SessionExpires
      BY DEF Break, SessionExpires, clientVars
    <3> QED
      BY <2>9, <3>1, <3>2, <3>3, <3>4 DEF World
  <2> QED
    BY <2>5, <2>7, <2>8, <2>9 DEF Next
<1> QED
  BY <1>2, <1>3

LEMMA AlwaysOnlineInv == Spec => []OnlineInv
<1>1. Init => OnlineInv
  BY EmptySeq DEF Init, OnlineInv, PlainInv, ConnectionUsed, OnlineComing
<1>2. TypeOK /\ OnlineInv /\ [Next]_vars => OnlineInv'
  <2> SUFFICES ASSUME TypeOK, OnlineInv, [Next]_vars PROVE OnlineInv'
    OBVIOUS
  <2>1. CASE Next
    BY <2>1, PlainNext, UsedNext, OnlineNext DEF OnlineInv
  <2>2. CASE UNCHANGED vars
    BY <2>2 DEF vars, flags, clientVars, brokerVars, OnlineInv, PlainInv, ConnectionUsed,
                OnlineComing, Stopping, At, Free, Shown
  <2> QED
    BY <2>1, <2>2
<1> QED
  BY <1>1, <1>2, TypeCorrect, PTL DEF Spec

(* pub drops nothing on a connection that nobody is about to stop.         *)
THEOREM ConnectionIsUsed == Spec => []ConnectionUsed
<1>1. OnlineInv => ConnectionUsed
  BY DEF OnlineInv
<1> QED
  BY <1>1, AlwaysOnlineInv, PTL

(* On such a connection the gateway is shown online once everything it had *)
(* to say is sent.                                                         *)
THEOREM OnlineIsShown == Spec => []OnlineShown
<1>1. OnlineInv => OnlineShown
  BY DEF OnlineInv, OnlineComing, OnlineShown, Carries, Free
<1> QED
  BY <1>1, AlwaysOnlineInv, PTL

=============================================================================
