---------------------------- MODULE TcpLogProofs ----------------------------
(***************************************************************************)
(* Proofs about TcpLog: for any number of tasks, descriptors and monitors  *)
(* and any size of the ring, the ring is the end of the history, every     *)
(* replay is a run of it, and the first monitor on a descriptor hears what *)
(* a task logs without a gap.                                              *)
(***************************************************************************)
EXTENDS TcpLog, SequenceTheorems, TLAPS

(* Adding a line to a sequence of lines.                                   *)
LEMMA AppendIndex ==
  ASSUME NEW s \in Seq(Lines), NEW m \in Lines
  PROVE  /\ Append(s, m) \in Seq(Lines) /\ Len(Append(s, m)) = Len(s) + 1 /\ Len(s) \in Nat
         /\ DOMAIN s = 1..Len(s) /\ DOMAIN Append(s, m) = 1..(Len(s) + 1)
         /\ \A k \in 1..Len(s) : Append(s, m)[k] = s[k] /\ s[k] \in Lines
         /\ Append(s, m)[Len(s) + 1] = m
BY AppendProperties, LenProperties, ElementOfSeq

(* What % does where the ring uses it.                                     *)
LEMMA Modulo ==
  ASSUME NEW N \in Nat \ {0}, NEW j \in Nat, j < 2 * N
  PROVE  j % N = (IF j < N THEN j ELSE j - N) /\ j % N \in 0..(N - 1)
<1>1. ASSUME NEW n \in Nat \ {0}, NEW i \in 0..(n - 1) PROVE i % n = i
  OBVIOUS
<1>2. ASSUME NEW n \in Nat \ {0}, NEW i \in n..(2 * n - 1) PROVE i % n = i - n
  OBVIOUS
<1>3. CASE j < N
  <2>1. j \in 0..(N - 1)
    BY <1>3
  <2> QED
    BY <1>1, <1>3, <2>1
<1>4. CASE j >= N
  <2>1. j \in N..(2 * N - 1)
    BY <1>4
  <2>2. j % N = j - N
    BY <1>2, <2>1
  <2>3. j - N \in 0..(N - 1)
    BY <2>1
  <2> QED
    BY <1>4, <2>2, <2>3
<1> QED
  BY <1>3, <1>4

Place(i) ==
  IF s_ring_count < RingLines THEN i
  ELSE IF s_ring_head + i < RingLines THEN s_ring_head + i ELSE s_ring_head + i - RingLines

(* Until the ring is full it is written from the start.                    *)
RingInv ==
  /\ s_ring_count < RingLines => s_ring_head = s_ring_count
  /\ s_ring_count = IF Len(history) < RingLines THEN Len(history) ELSE RingLines
  /\ \A i \in 0..(s_ring_count - 1) :
       s_ring[Place(i)] = history[Len(history) - s_ring_count + i + 1]

ClientInv == task.at # "accept" => task.client \in Fds

Inv == TypeOK /\ RingInv /\ ClientInv

(* Where a replay reads.                                                   *)
LEMMA ReplayedPlace ==
  ASSUME TypeOK, NEW i \in 0..(s_ring_count - 1)
  PROVE  Replayed(i) = s_ring[Place(i)] /\ Place(i) \in 0..(RingLines - 1) /\ i \in Nat
<1>1. /\ RingLines \in Nat \ {0} /\ s_ring_head \in Nat /\ s_ring_head < RingLines
      /\ s_ring_count \in Nat /\ s_ring_count <= RingLines
      /\ i \in Nat /\ i < s_ring_count
  BY SizeAssumption DEF TypeOK
<1>2. CASE s_ring_count < RingLines
  <2>1. (0 + i) % RingLines = i
    BY <1>1, Modulo
  <2> QED
    BY <1>1, <1>2, <2>1 DEF Replayed, Start, Place
<1>3. CASE ~(s_ring_count < RingLines)
  <2> DEFINE j == s_ring_head + i
  <2>1. j \in Nat /\ j < 2 * RingLines
    BY <1>1
  <2> HIDE DEF j
  <2>2. j % RingLines = IF j < RingLines THEN j ELSE j - RingLines
    BY <1>1, <2>1, Modulo
  <2> USE DEF j
  <2> QED
    BY <1>1, <1>3, <2>1, <2>2 DEF Replayed, Start, Place
<1> QED
  BY <1>2, <1>3

(* So a replay reads the end of the history.                               *)
LEMMA ReplayedHistory ==
  ASSUME Inv, NEW i \in 0..(s_ring_count - 1)
  PROVE  /\ Replayed(i) = history[Len(history) - s_ring_count + i + 1]
         /\ Len(history) - s_ring_count + i + 1 \in 1..Len(history)
         /\ Replayed(i) \in Lines
<1>1. Replayed(i) = history[Len(history) - s_ring_count + i + 1]
  BY ReplayedPlace DEF Inv, RingInv
<1>2. history \in Seq(Lines) /\ Len(history) \in Nat /\ s_ring_count \in Nat
  BY DEF Inv, TypeOK
<1>3. s_ring_count <= Len(history)
  BY <1>2, SizeAssumption DEF Inv, RingInv
<1>4. Len(history) - s_ring_count + i + 1 \in 1..Len(history)
  BY <1>2, <1>3
<1> QED
  BY <1>1, <1>2, <1>4, ElementOfSeq

(* The initial state.                                                      *)
LEMMA InitInv == Init => Inv
<1> SUFFICES ASSUME Init PROVE Inv
  OBVIOUS
<1>1. s_ring \in [0..(RingLines - 1) -> Lines \cup {<<>>}]
  BY DEF Init
<1>2. history = <<>> /\ history \in Seq(Lines) /\ Len(history) = 0
  BY DEF Init
<1>3. stream \in [1..MaxMonitors -> [replayed : Seq(Lines), live : Seq(Lines)]]
  BY DEF Init
<1>4. TypeOK
  BY <1>1, <1>2, <1>3, TaskAssumption, SizeAssumption DEF Init, TypeOK, Accepting
<1>5. RingInv
  BY <1>2, SizeAssumption DEF Init, RingInv
<1> QED
  BY <1>4, <1>5 DEF Init, Inv, ClientInv, Accepting

(* Writing a line moves the window over the history by one.                *)
LEMMA PushMoves ==
  ASSUME Inv, NEW t \in Loggers, PushWrites(t)
  PROVE  /\ RingInv'
         /\ s_ring' \in [0..(RingLines - 1) -> Lines \cup {<<>>}]
         /\ s_ring_head' \in 0..(RingLines - 1) /\ s_ring_count' \in 0..RingLines
         /\ history' \in Seq(Lines)
<1> DEFINE line == Line(t, logged[t])
           N == RingLines
           L == Len(history)
<1>1. line \in Lines
  BY DEF Inv, TypeOK, Line, Lines
<1> HIDE DEF line
<1>2. /\ s_ring' = [s_ring EXCEPT ![s_ring_head] = line]
      /\ s_ring_head' = (s_ring_head + 1) % N
      /\ s_ring_count' = IF s_ring_count < N THEN s_ring_count + 1 ELSE s_ring_count
      /\ history' = Append(history, line)
  BY DEF PushWrites, line
<1>3. /\ N \in Nat \ {0} /\ s_ring_head \in Nat /\ s_ring_head < N
      /\ s_ring_count \in Nat /\ s_ring_count <= N /\ L \in Nat
      /\ s_ring_count = IF L < N THEN L ELSE N
      /\ s_ring_count < N => s_ring_head = s_ring_count
  BY SizeAssumption DEF Inv, TypeOK, RingInv
<1>4. /\ history' \in Seq(Lines) /\ Len(history') = L + 1
      /\ \A k \in 1..L : history'[k] = history[k]
      /\ history'[L + 1] = line
  BY <1>1, <1>2, AppendIndex DEF Inv, TypeOK
<1> HIDE DEF N, L
<1>5. s_ring_head' = IF s_ring_head + 1 < N THEN s_ring_head + 1 ELSE 0
  <2> DEFINE j == s_ring_head + 1
  <2>1. j \in Nat /\ j < 2 * N /\ j <= N
    BY <1>3
  <2> HIDE DEF j
  <2>2. j % N = IF j < N THEN j ELSE j - N
    BY <1>3, <2>1, Modulo
  <2>3. j - N = 0 \/ j < N
    BY <1>3, <2>1
  <2> QED
    BY <1>2, <2>2, <2>3 DEF j
<1>6. \A p \in 0..(N - 1) : s_ring'[p] = IF p = s_ring_head THEN line ELSE s_ring[p]
  BY <1>2 DEF Inv, TypeOK, N
<1>7. s_ring_count' = IF L + 1 < N THEN L + 1 ELSE N
  BY <1>2, <1>3
<1>8. s_ring_count' < N => s_ring_head' = s_ring_count'
  BY <1>2, <1>3, <1>5
<1>9. \A i \in 0..(s_ring_count - 1) :
        Place(i) \in 0..(N - 1) /\ s_ring[Place(i)] = history[L - s_ring_count + i + 1]
  BY ReplayedPlace DEF Inv, RingInv, N, L
<1>10. \A i \in 0..(s_ring_count' - 1) :
         s_ring'[Place(i)'] = history'[Len(history') - s_ring_count' + i + 1]
  <2> SUFFICES ASSUME NEW i \in Nat, i < s_ring_count'
               PROVE  s_ring'[Place(i)'] = history'[Len(history') - s_ring_count' + i + 1]
    BY <1>3, <1>7
  <2>1. i \in Nat /\ i < s_ring_count' /\ s_ring_count' \in Nat
    BY <1>3, <1>7
  <2>2. CASE s_ring_count < N
    <3>1. s_ring_head = L /\ s_ring_count' = L + 1 /\ s_ring_count = L
      BY <1>2, <1>3, <2>2
    <3>2. Place(i)' = i
      BY <1>3, <1>5, <2>1, <2>2, <3>1 DEF Place, N
    <3>3. i = L => s_ring'[i] = history'[i + 1]
      BY <1>3, <1>4, <1>6, <2>2, <3>1
    <3>4. i # L => s_ring'[i] = history'[i + 1]
      <4>1. i # L => i \in 0..(s_ring_count - 1) /\ i + 1 \in 1..L /\ Place(i) = i
        BY <1>3, <2>1, <2>2, <3>1 DEF Place, N
      <4>2. i # L => s_ring[i] = history[i + 1]
        BY <1>3, <1>9, <3>1, <4>1
      <4>3. i # L => i \in 0..(N - 1) /\ i # s_ring_head
        BY <1>3, <2>2, <3>1, <4>1
      <4> QED
        BY <1>4, <1>6, <4>1, <4>2, <4>3
    <3>5. Len(history') - s_ring_count' + i + 1 = i + 1
      BY <1>3, <1>4, <2>1, <3>1
    <3> QED
      BY <3>2, <3>3, <3>4, <3>5
  <2>3. CASE s_ring_count = N
    <3>1. s_ring_count' = N /\ L >= N
      BY <1>2, <1>3, <2>3
    <3>2. Place(i)' = IF i = N - 1 THEN s_ring_head
                      ELSE IF s_ring_head + 1 + i < N THEN s_ring_head + 1 + i
                      ELSE s_ring_head + 1 + i - N
      BY <1>3, <1>5, <2>1, <3>1 DEF Place, N
    <3>3. Len(history') - s_ring_count' + i + 1 = L - N + i + 2
      BY <1>3, <1>4, <2>1, <3>1
    <3>4. CASE i = N - 1
      BY <1>3, <1>4, <1>6, <3>2, <3>3, <3>4
    <3>5. CASE i # N - 1
      <4>1. i + 1 \in 0..(s_ring_count - 1) /\ L - N + i + 2 \in 1..L
        BY <1>3, <2>1, <2>3, <3>1, <3>5
      <4>2. Place(i)' = Place(i + 1) /\ Place(i + 1) # s_ring_head
        BY <1>3, <2>1, <2>3, <3>1, <3>2, <3>5 DEF Place, N
      <4>3. s_ring[Place(i + 1)] = history[L - s_ring_count + (i + 1) + 1]
        BY <1>9, <4>1
      <4>4. L - s_ring_count + (i + 1) + 1 = L - N + i + 2
        BY <1>3, <2>1, <2>3
      <4>5. s_ring'[Place(i + 1)] = s_ring[Place(i + 1)]
        BY <1>6, <1>9, <4>1, <4>2
      <4> QED
        BY <1>4, <3>3, <4>1, <4>2, <4>3, <4>4, <4>5
    <3> QED
      BY <3>4, <3>5
  <2> QED
    BY <1>3, <2>2, <2>3
<1>11. RingInv'
  BY <1>4, <1>7, <1>8, <1>10 DEF RingInv, N
<1>12. s_ring' \in [0..(N - 1) -> Lines \cup {<<>>}]
  BY <1>1, <1>2 DEF Inv, TypeOK, N
<1>13. s_ring_head' \in 0..(N - 1) /\ s_ring_count' \in 0..N
  BY <1>2, <1>3, <1>5
<1> QED
  BY <1>4, <1>11, <1>12, <1>13 DEF N

(* A step that leaves the ring alone.                                      *)
LEMMA RingStays ==
  ASSUME RingInv, UNCHANGED ringVars
  PROVE  RingInv'
BY DEF RingInv, Place, ringVars

(* Each step of a task that logs.                                          *)
LEMMA LoggerNext ==
  ASSUME Inv, NEW t \in Loggers, Log(t) \/ Vprintf(t)
  PROVE  Inv'
<1> USE TaskAssumption, SizeAssumption
<1>1. TypeOK /\ RingInv /\ ClientInv
  BY DEF Inv
<1>2. LogTask # t /\ NoTask # t /\ LogTask # NoTask
  OBVIOUS
<1>3. ASSUME UNCHANGED <<ringVars, s_ring_mutex, task, stream, monitors, first>>,
             pc' \in [Loggers -> {"idle", "push", "write", "look", "load", "send", "reload",
                                  "close", "clear"}],
             \A u \in Loggers : pc'[u] = "write" <=> pc[u] = "write",
             logged' \in [Loggers -> Nat], fd' \in [Loggers -> Fds \cup {None}],
             s_client_sock' \in Fds \cup {None}, user' \in [Fds -> 0..monitors]
      PROVE  Inv'
  BY <1>1, <1>3, RingStays DEF Inv, TypeOK, ClientInv, ringVars
<1>4. ASSUME NEW from, NEW to \in {"idle", "push", "write", "look", "load", "send", "reload",
                                   "close", "clear"},
             Goto(t, from, to), from # "write", to # "write"
      PROVE  /\ pc' \in [Loggers -> {"idle", "push", "write", "look", "load", "send", "reload",
                                     "close", "clear"}]
             /\ \A u \in Loggers : pc'[u] = "write" <=> pc[u] = "write"
  BY <1>1, <1>4 DEF Goto, TypeOK
<1>5. ASSUME Log(t) PROVE Inv'
  <2>1. logged' \in [Loggers -> Nat]
    <3>1. logged' = [logged EXCEPT ![t] = logged[t] + 1]
      BY <1>5 DEF Log
    <3>2. logged \in [Loggers -> Nat]
      BY <1>1 DEF TypeOK
    <3> QED
      BY <3>1, <3>2
  <2> QED
    BY <1>1, <1>3, <1>4, <1>5, <2>1 DEF Log, TypeOK, sockVars
<1>6. ASSUME PushTakes(t) PROVE Inv'
  <2>1. /\ pc' = [pc EXCEPT ![t] = "write"] /\ s_ring_mutex = NoTask /\ s_ring_mutex' = t
        /\ UNCHANGED <<ringVars, fd, logged, task, sockVars, stream>>
    BY <1>6 DEF PushTakes, Goto
  <2>2. \A u \in Loggers : s_ring_mutex' = u <=> pc'[u] = "write"
    BY <1>1, <2>1 DEF TypeOK
  <2>3. s_ring_mutex' = LogTask <=> task'.at = "send"
    BY <1>1, <1>2, <2>1 DEF TypeOK
  <2> QED
    BY <1>1, <2>1, <2>2, <2>3, RingStays DEF Inv, TypeOK, ClientInv, ringVars, sockVars
<1>7. ASSUME PushTimesOut(t) PROVE Inv'
  BY <1>1, <1>3, <1>4, <1>7 DEF PushTimesOut, TypeOK, sockVars
<1>8. ASSUME PushWrites(t) PROVE Inv'
  <2>1. /\ pc[t] = "write" /\ pc' = [pc EXCEPT ![t] = "look"] /\ s_ring_mutex' = NoTask
        /\ UNCHANGED <<fd, logged, task, sockVars, stream>>
    BY <1>8 DEF PushWrites, Goto
  <2>2. \A u \in Loggers : s_ring_mutex' = u <=> pc'[u] = "write"
    BY <1>1, <2>1 DEF TypeOK
  <2>3. s_ring_mutex' = LogTask <=> task'.at = "send"
    BY <1>1, <1>2, <2>1 DEF TypeOK
  <2> QED
    BY <1>1, <1>8, <2>1, <2>2, <2>3, PushMoves DEF Inv, TypeOK, ClientInv, sockVars
<1>9. ASSUME Look(t) PROVE Inv'
  BY <1>1, <1>3, <1>4, <1>9 DEF Look, TypeOK, sockVars
<1>10. ASSUME NEW from, NEW to \in {"send", "close"}, from # "write", Load(t, from, to) PROVE Inv'
  <2>1. fd' \in [Loggers -> Fds \cup {None}]
    BY <1>1, <1>10 DEF Load, TypeOK
  <2> QED
    BY <1>1, <1>3, <1>4, <1>10, <2>1 DEF Load, TypeOK, sockVars
<1>11. ASSUME SendReaches(t) PROVE Inv'
  <2> DEFINE m == UserOf(fd[t])
  <2>1. m \in 1..MaxMonitors
    BY <1>1, <1>11 DEF SendReaches, UserOf, TypeOK
  <2>2. Line(t, logged[t]) \in Lines
    BY <1>1 DEF TypeOK, Line, Lines
  <2>3. stream' \in [1..MaxMonitors -> [replayed : Seq(Lines), live : Seq(Lines)]]
    <3>1. stream[m] \in [replayed : Seq(Lines), live : Seq(Lines)]
      BY <1>1, <2>1 DEF TypeOK
    <3>2. Append(stream[m].live, Line(t, logged[t])) \in Seq(Lines)
      BY <2>2, <3>1, AppendProperties
    <3>3. stream' = [stream EXCEPT ![m].live = Append(stream[m].live, Line(t, logged[t]))]
      BY <1>11 DEF SendReaches
    <3> QED
      BY <1>1, <3>1, <3>2, <3>3 DEF TypeOK
  <2>4. fd' \in [Loggers -> Fds \cup {None}]
    BY <1>1, <1>11 DEF SendReaches, Forget, TypeOK
  <2>5. \A u \in Loggers : pc'[u] = "write" <=> pc[u] = "write"
    BY <1>4, <1>11 DEF SendReaches
  <2>6. pc' \in [Loggers -> {"idle", "push", "write", "look", "load", "send", "reload",
                             "close", "clear"}]
    BY <1>4, <1>11 DEF SendReaches
  <2> QED
    BY <1>1, <1>11, <2>3, <2>4, <2>5, <2>6, RingStays
       DEF SendReaches, Inv, TypeOK, ClientInv, ringVars, sockVars
<1>12. ASSUME SendFails(t) PROVE Inv'
  <2>1. fd' \in [Loggers -> Fds \cup {None}]
    BY <1>1, <1>12 DEF SendFails, Forget, TypeOK
  <2> QED
    BY <1>1, <1>3, <1>4, <1>12, <2>1 DEF SendFails, TypeOK, sockVars
<1>13. ASSUME HookCloses(t) PROVE Inv'
  <2>1. fd' \in [Loggers -> Fds \cup {None}] /\ user' \in [Fds -> 0..monitors]
    BY <1>1, <1>13 DEF HookCloses, Forget, Shut, TypeOK
  <2> QED
    BY <1>1, <1>3, <1>4, <1>13, <2>1 DEF HookCloses, TypeOK
<1>14. ASSUME HookClears(t) PROVE Inv'
  BY <1>1, <1>3, <1>4, <1>14 DEF HookClears, TypeOK
<1> QED
  BY <1>5, <1>6, <1>7, <1>8, <1>9, <1>10, <1>11, <1>12, <1>13, <1>14 DEF Vprintf

(* Each step of tcp_log_task.                                              *)
LEMMA TaskNext ==
  ASSUME Inv, LogTaskStep
  PROVE  Inv'
<1> USE TaskAssumption, SizeAssumption
<1> DEFINE Ats == {"accept", "replay", "send", "set", "recv", "clear", "close"}
           Tasks == [at : Ats, client : Fds \cup {None}, i : 0..RingLines]
<1>1. TypeOK /\ RingInv /\ ClientInv /\ task \in Tasks
  BY DEF Inv, TypeOK
<1>2. \A t \in Loggers : LogTask # t /\ NoTask # t
  OBVIOUS
<1>3. ASSUME UNCHANGED <<ringVars, logVars>>,
             task' \in Tasks, ClientInv', s_client_sock' \in Fds \cup {None},
             monitors' \in 0..MaxMonitors,
             user' \in [Fds -> 0..monitors'], first' \in [Fds -> 0..monitors'],
             stream' \in [1..MaxMonitors -> [replayed : Seq(Lines), live : Seq(Lines)]],
             \/ s_ring_mutex' = s_ring_mutex /\ (task'.at = "send" <=> task.at = "send")
             \/ s_ring_mutex = NoTask /\ s_ring_mutex' = LogTask /\ task'.at = "send"
             \/ task.at = "send" /\ s_ring_mutex' = NoTask /\ task'.at # "send"
      PROVE  Inv'
  <2>1. \A t \in Loggers : s_ring_mutex' = t <=> pc'[t] = "write"
    BY <1>1, <1>2, <1>3 DEF TypeOK, logVars
  <2>2. s_ring_mutex' = LogTask <=> task'.at = "send"
    BY <1>1, <1>3 DEF TypeOK
  <2>3. s_ring_mutex' \in Loggers \cup {LogTask, NoTask}
    BY <1>1, <1>3 DEF TypeOK
  <2>4. TypeOK'
    BY <1>1, <1>3, <2>1, <2>2, <2>3 DEF TypeOK, ringVars, logVars
  <2> QED
    BY <1>1, <1>3, <2>4, RingStays DEF Inv
<1>4. ASSUME NEW from \in Ats, NEW to \in Ats, TaskGoes(from, to)
      PROVE  /\ task' \in Tasks /\ task.at = from /\ task'.at = to
             /\ task'.client = task.client /\ task'.i = task.i
  BY <1>1, <1>4 DEF TaskGoes
<1>5. ASSUME NEW f \in Fds, Accepts(f) PROVE Inv'
  <2>1. task' = [at |-> "replay", client |-> f, i |-> 0] /\ task' \in Tasks
    BY <1>5 DEF Accepts
  <2>2. monitors' = monitors + 1 /\ monitors' \in 0..MaxMonitors
    BY <1>1, <1>5 DEF Accepts, TypeOK
  <2>3. user' \in [Fds -> 0..monitors'] /\ first' \in [Fds -> 0..monitors']
    <3>1. user \in [Fds -> 0..monitors'] /\ first \in [Fds -> 0..monitors'] /\ monitors + 1 \in 0..monitors'
      BY <1>1, <2>2 DEF TypeOK
    <3> QED
      BY <1>5, <3>1 DEF Accepts
  <2> QED
    BY <1>1, <1>3, <1>5, <2>1, <2>2, <2>3 DEF Accepts, ClientInv, TypeOK
<1>6. ASSUME ReplayTakes PROVE Inv'
  <2>1. task' \in Tasks /\ ClientInv' /\ task.at = "replay" /\ task'.at = "send"
    BY <1>1, <1>4, <1>6 DEF ReplayTakes, ClientInv
  <2> QED
    BY <1>1, <1>3, <1>6, <2>1 DEF ReplayTakes, TypeOK, sockVars
<1>7. ASSUME ReplayTimesOut PROVE Inv'
  <2>1. task' \in Tasks /\ ClientInv' /\ task.at = "replay" /\ task'.at = "set"
    BY <1>1, <1>4, <1>7 DEF ReplayTimesOut, ClientInv
  <2> QED
    BY <1>1, <1>3, <1>7, <2>1 DEF ReplayTimesOut, TypeOK, sockVars
<1>8. ASSUME ReplaySends PROVE Inv'
  <2>1. /\ task.at = "send" /\ task.i \in 0..(s_ring_count - 1) /\ task.client \in Fds
        /\ s_ring_count <= RingLines
    BY <1>1, <1>8 DEF ReplaySends, TypeOK, ClientInv
  <2>2. task' \in Tasks /\ task'.at = "send" /\ task'.client = task.client
    <3>1. task.i + 1 \in 0..RingLines
      BY <1>1, <2>1 DEF TypeOK
    <3>2. task' = [task EXCEPT !.i = task.i + 1]
      BY <1>8 DEF ReplaySends
    <3> HIDE DEF Ats
    <3> QED
      BY <1>1, <2>1, <3>1, <3>2
  <2>3. stream' \in [1..MaxMonitors -> [replayed : Seq(Lines), live : Seq(Lines)]]
    <3> DEFINE m == user[task.client]
               r == Append(stream[m].replayed, Replayed(task.i))
    <3>1. CASE m = 0
      BY <1>1, <1>8, <3>1 DEF ReplaySends, TypeOK
    <3>2. CASE m # 0
      <4>1. m \in 1..MaxMonitors
        <5>1. m \in 0..monitors /\ monitors \in 0..MaxMonitors
          BY <1>1, <2>1 DEF TypeOK
        <5> QED
          BY <3>2, <5>1
      <4>2. stream[m] \in [replayed : Seq(Lines), live : Seq(Lines)]
        BY <1>1, <4>1 DEF TypeOK
      <4>3. r \in Seq(Lines)
        BY <2>1, <4>2, ReplayedHistory, AppendProperties
      <4>4. stream' = [stream EXCEPT ![m].replayed = r]
        BY <1>8, <3>2 DEF ReplaySends
      <4> QED
        BY <1>1, <4>2, <4>3, <4>4 DEF TypeOK
    <3> QED
      BY <3>1, <3>2
  <2> QED
    BY <1>1, <1>3, <1>8, <2>1, <2>2, <2>3 DEF ReplaySends, ClientInv, TypeOK, sockVars
<1>9. ASSUME ReplayGives PROVE Inv'
  <2>1. task' \in Tasks /\ task.at = "send" /\ task'.at = "set" /\ task'.client = task.client
    <3>1. task.at = "send" /\ task' = [task EXCEPT !.at = "set", !.i = 0] /\ 0 \in 0..RingLines
      BY <1>9 DEF ReplayGives
    <3> QED
      BY <1>1, <3>1
  <2> QED
    BY <1>1, <1>3, <1>9, <2>1 DEF ReplayGives, ClientInv, TypeOK, sockVars
<1>10. ASSUME Sets PROVE Inv'
  <2>1. task' \in Tasks /\ ClientInv' /\ task.at = "set" /\ task'.at = "recv"
    BY <1>1, <1>4, <1>10 DEF Sets, ClientInv
  <2> QED
    BY <1>1, <1>3, <1>10, <2>1 DEF Sets, TypeOK
<1>11. ASSUME RecvEnds PROVE Inv'
  <2>1. task' \in Tasks /\ ClientInv' /\ task.at = "recv" /\ task'.at = "clear"
    BY <1>1, <1>4, <1>11 DEF RecvEnds, ClientInv
  <2> QED
    BY <1>1, <1>3, <1>11, <2>1 DEF RecvEnds, TypeOK, sockVars
<1>12. ASSUME Clears PROVE Inv'
  <2>1. task' \in Tasks /\ ClientInv' /\ task.at = "clear" /\ task'.at = "close"
    BY <1>1, <1>4, <1>12 DEF Clears, ClientInv
  <2> QED
    BY <1>1, <1>3, <1>12, <2>1 DEF Clears, TypeOK
<1>13. ASSUME Closes PROVE Inv'
  <2>1. task' \in Tasks /\ ClientInv' /\ task.at = "close" /\ task'.at = "accept"
    BY <1>13 DEF Closes, Accepting, ClientInv
  <2>2. user' \in [Fds -> 0..monitors]
    BY <1>1, <1>13 DEF Closes, Shut, TypeOK
  <2> QED
    BY <1>1, <1>3, <1>13, <2>1, <2>2 DEF Closes, TypeOK
<1> QED
  BY <1>5, <1>6, <1>7, <1>8, <1>9, <1>10, <1>11, <1>12, <1>13 DEF LogTaskStep

(* Every step.                                                             *)
LEMMA InvNext ==
  ASSUME Inv, [Next]_vars
  PROVE  Inv'
<1>1. CASE UNCHANGED vars
  BY <1>1, RingStays
     DEF vars, Inv, TypeOK, ClientInv, ringVars, logVars, sockVars
<1> QED
  BY <1>1, LoggerNext, TaskNext DEF Next

(* What is shown inductively.                                              *)
LEMMA InvCorrect == Spec => []Inv
  BY InitInv, InvNext, PTL DEF Spec

(* Type correctness, and mutual exclusion over the ring.                   *)
THEOREM TypeCorrect == Spec => []TypeOK
<1>1. Inv => TypeOK
  BY DEF Inv
<1> QED
  BY <1>1, InvCorrect, PTL

(* The ring is the end of the history, oldest line first.                  *)
THEOREM RingCorrect == Spec => []RingIsHistory
<1>1. Inv => RingIsHistory
  <2>1. Inv => s_ring_count = IF Len(history) < RingLines THEN Len(history) ELSE RingLines
    BY DEF Inv, RingInv
  <2> QED
    BY <2>1, ReplayedHistory DEF RingIsHistory
<1> QED
  BY <1>1, InvCorrect, PTL

-----------------------------------------------------------------------------
(* Replays.  What the monitor that is being served has been replayed so    *)
(* far is the beginning of what the ring holds, and the ring does not      *)
(* change meanwhile: tcp_log_task has its mutex.                           *)
SoFar(m) ==
  LET r == stream[m].replayed IN
  /\ Len(r) = task.i /\ task.i <= s_ring_count
  /\ \A k \in 1..task.i : r[k] = history[Len(history) - s_ring_count + k]

Serving(f) ==
  user[f] # 0 =>
    /\ task.at = "replay" => stream[user[f]].replayed = <<>>
    /\ task.at = "send" => SoFar(user[f])

RunInv ==
  /\ task.at # "send" => task.i = 0
  /\ \A m \in 1..MaxMonitors : m > monitors => stream[m].replayed = <<>>
  /\ task.at # "accept" => Serving(task.client)
  /\ ReplayIsRun

(* A run of a history is a run of a longer one.                            *)
LEMMA InfixAppend ==
  ASSUME NEW s \in Seq(Lines), NEW h \in Seq(Lines), NEW line \in Lines, Infix(s, h)
  PROVE  Infix(s, Append(h, line))
<1>1. PICK k \in 0..(Len(h) - Len(s)) : \A i \in DOMAIN s : s[i] = h[k + i]
  BY DEF Infix
<1>2. /\ Len(h) \in Nat /\ Len(s) \in Nat /\ DOMAIN s = 1..Len(s)
      /\ Len(Append(h, line)) = Len(h) + 1
      /\ \A j \in 1..Len(h) : Append(h, line)[j] = h[j]
  BY AppendIndex, LenProperties
<1>3. k \in 0..(Len(Append(h, line)) - Len(s))
  BY <1>2
<1>4. \A i \in DOMAIN s : s[i] = Append(h, line)[k + i]
  <2> SUFFICES ASSUME NEW i \in DOMAIN s PROVE s[i] = Append(h, line)[k + i]
    OBVIOUS
  <2>1. k + i \in 1..Len(h)
    BY <1>2
  <2> QED
    BY <1>1, <1>2, <2>1
<1> QED
  BY <1>3, <1>4 DEF Infix

(* What the invariant says of the variables.                               *)
LEMMA RunTypes ==
  ASSUME TypeOK
  PROVE  /\ monitors \in Nat /\ monitors <= MaxMonitors /\ MaxMonitors \in Nat
         /\ history \in Seq(Lines)
         /\ \A m \in 1..MaxMonitors : stream[m].replayed \in Seq(Lines)
         /\ \A f \in Fds : user[f] # 0 => user[f] \in 1..MaxMonitors /\ user[f] \in 1..monitors
<1>1. monitors \in 0..MaxMonitors /\ MaxMonitors \in Nat
  BY SizeAssumption DEF TypeOK
<1>2. \A f \in Fds : user[f] \in 0..monitors
  BY DEF TypeOK
<1>3. \A m \in 1..MaxMonitors : stream[m] \in [replayed : Seq(Lines), live : Seq(Lines)]
  BY DEF TypeOK
<1> QED
  BY <1>1, <1>2, <1>3 DEF TypeOK

(* A step that replays nothing.                                            *)
LEMMA RunStays ==
  ASSUME Inv, RunInv, monitors' = monitors,
         \A m \in 1..MaxMonitors : stream'[m].replayed = stream[m].replayed,
         \A f \in Fds : user'[f] = user[f] \/ user'[f] = 0,
         task' = task \/ (task'.at \notin {"replay", "send"} /\ task'.i = 0),
         task'.at # "accept" => task'.client \in Fds,
         \/ UNCHANGED <<history, s_ring_count>>
         \/ task'.at # "send" /\ \E line \in Lines : history' = Append(history, line)
  PROVE  RunInv'
<1>1. TypeOK /\ ClientInv
  BY DEF Inv
<1>2. ReplayIsRun'
  <2> SUFFICES ASSUME NEW m \in 1..monitors
               PROVE  Infix(stream'[m].replayed, history')
    BY DEF ReplayIsRun
  <2>1. m \in 1..MaxMonitors
    BY <1>1, RunTypes
  <2>2. Infix(stream[m].replayed, history)
    BY DEF RunInv, ReplayIsRun
  <2>3. stream[m].replayed \in Seq(Lines) /\ history \in Seq(Lines)
    BY <1>1, <2>1, RunTypes
  <2>4. CASE history' = history
    BY <2>1, <2>2, <2>4
  <2>5. ASSUME NEW line \in Lines, history' = Append(history, line)
        PROVE  Infix(stream'[m].replayed, history')
    BY <2>1, <2>2, <2>3, <2>5, InfixAppend
  <2> QED
    BY <2>4, <2>5
<1>3. ASSUME task'.at # "accept" PROVE Serving(task.client)'
  <2>1. CASE task' = task
    <3>1. task.client \in Fds /\ Serving(task.client) /\ task'.client = task.client
      BY <1>3, <2>1 DEF RunInv
    <3>2. CASE user'[task.client] = 0
      BY <3>1, <3>2 DEF Serving
    <3>3. ASSUME NEW m, m = user[task.client], user'[task.client] = m, m # 0
          PROVE  Serving(task.client)'
      <4>1. stream'[m].replayed = stream[m].replayed
        BY <1>1, <3>1, <3>3, RunTypes
      <4>2. task.at = "replay" => stream'[m].replayed = <<>>
        BY <3>1, <3>3, <4>1 DEF Serving
      <4>3. task.at = "send" => SoFar(m) /\ history' = history /\ s_ring_count' = s_ring_count
        BY <2>1, <3>1, <3>3 DEF Serving
      <4>4. task.at = "send" =>
              /\ Len(stream'[m].replayed) = task'.i /\ task'.i <= s_ring_count'
              /\ \A k \in 1..task'.i :
                   stream'[m].replayed[k] = history'[Len(history') - s_ring_count' + k]
        BY <2>1, <4>1, <4>3 DEF SoFar
      <4> QED
        BY <2>1, <3>1, <3>3, <4>2, <4>4 DEF Serving, SoFar
    <3> QED
      BY <3>1, <3>2, <3>3
  <2>2. CASE task'.at \notin {"replay", "send"}
    BY <2>2 DEF Serving
  <2> QED
    BY <2>1, <2>2
<1>4. \A m \in 1..MaxMonitors : m > monitors => stream'[m].replayed = <<>>
  BY DEF RunInv
<1>5. task'.at # "send" => task'.i = 0
  BY DEF RunInv
<1> QED
  BY <1>2, <1>3, <1>4, <1>5 DEF RunInv

(* Each step of a task that logs.                                          *)
LEMMA RunLogger ==
  ASSUME Inv, RunInv, NEW t \in Loggers, Log(t) \/ Vprintf(t)
  PROVE  RunInv'
<1>1. TypeOK /\ ClientInv
  BY DEF Inv
<1>2. task' = task /\ monitors' = monitors /\ (task.at # "accept" => task.client \in Fds)
  BY <1>1 DEF ClientInv, Log, Vprintf, PushTakes, PushTimesOut, PushWrites, Look, Load, SendReaches,
              SendFails, HookCloses, HookClears, sockVars
<1>3. \A m \in 1..MaxMonitors : stream'[m].replayed = stream[m].replayed
  <2>1. CASE SendReaches(t)
    <3>1. stream' = [stream EXCEPT ![UserOf(fd[t])].live = Append(@, Line(t, logged[t]))]
      BY <2>1 DEF SendReaches
    <3>2. \A m \in 1..MaxMonitors :
            m \in DOMAIN stream /\ stream[m] \in [replayed : Seq(Lines), live : Seq(Lines)]
      BY <1>1 DEF TypeOK
    <3> QED
      BY <3>1, <3>2
  <2>2. CASE ~SendReaches(t)
    BY <2>2 DEF Log, Vprintf, PushTakes, PushTimesOut, PushWrites, Look, Load, SendFails,
                HookCloses, HookClears
  <2> QED
    BY <2>1, <2>2
<1>4. \A f \in Fds : user'[f] = user[f] \/ user'[f] = 0
  <2>1. CASE HookCloses(t)
    BY <2>1 DEF HookCloses, Shut
  <2>2. CASE ~HookCloses(t)
    BY <2>2 DEF Log, Vprintf, PushTakes, PushTimesOut, PushWrites, Look, Load, SendReaches, SendFails,
                HookClears, sockVars
  <2> QED
    BY <2>1, <2>2
<1>5. \/ UNCHANGED <<history, s_ring_count>>
      \/ task.at # "send" /\ \E line \in Lines : history' = Append(history, line)
  <2>1. CASE PushWrites(t)
    <3>1. pc[t] = "write" /\ history' = Append(history, Line(t, logged[t]))
      BY <2>1 DEF PushWrites, Goto
    <3>2. task.at # "send"
      BY <1>1, <3>1, TaskAssumption DEF TypeOK
    <3>3. Line(t, logged[t]) \in Lines
      BY <1>1 DEF TypeOK, Line, Lines
    <3> QED
      BY <3>1, <3>2, <3>3
  <2>2. CASE ~PushWrites(t)
    BY <2>2 DEF Log, Vprintf, PushTakes, PushTimesOut, Look, Load, SendReaches, SendFails,
                HookCloses, HookClears, ringVars
  <2> QED
    BY <2>1, <2>2
<1> QED
  BY <1>2, <1>3, <1>4, <1>5, RunStays

(* Each step of tcp_log_task.                                              *)
LEMMA RunTask ==
  ASSUME Inv, RunInv, LogTaskStep
  PROVE  RunInv'
<1>1. TypeOK /\ ClientInv /\ RingInv
  BY DEF Inv
<1>2. ASSUME NEW f \in Fds, Accepts(f) PROVE RunInv'
  <2>1. /\ task' = [at |-> "replay", client |-> f, i |-> 0]
        /\ monitors' = monitors + 1 /\ monitors + 1 \in 1..MaxMonitors
        /\ user'[f] = monitors + 1 /\ stream' = stream /\ history' = history
    <3>1. monitors \in Nat /\ MaxMonitors \in Nat /\ user \in [Fds -> 0..monitors]
      BY <1>1, SizeAssumption DEF TypeOK
    <3> QED
      BY <1>2, <3>1 DEF Accepts, ringVars
  <2>2. stream[monitors + 1].replayed = <<>>
    BY <1>1, <2>1, RunTypes DEF RunInv
  <2>3. Serving(task.client)'
    BY <2>1, <2>2 DEF Serving
  <2>4. ReplayIsRun'
    <3> SUFFICES ASSUME NEW m \in 1..(monitors + 1) PROVE Infix(stream[m].replayed, history)
      BY <2>1 DEF ReplayIsRun
    <3>1. CASE m = monitors + 1
      <4>1. Len(<<>>) = 0 /\ Len(history) \in Nat /\ DOMAIN <<>> = {}
        BY <1>1, RunTypes
      <4>2. 0 \in 0..(Len(history) - Len(<<>>))
        BY <4>1
      <4> QED
        BY <2>2, <3>1, <4>1, <4>2 DEF Infix
    <3>2. CASE m # monitors + 1
      <4>1. m \in 1..monitors
        BY <1>1, <3>2, RunTypes
      <4> QED
        BY <4>1 DEF RunInv, ReplayIsRun
    <3> QED
      BY <3>1, <3>2
  <2>5. \A m \in 1..MaxMonitors : m > monitors' => stream'[m].replayed = <<>>
    BY <1>1, <2>1, RunTypes DEF RunInv
  <2> QED
    BY <2>1, <2>3, <2>4, <2>5 DEF RunInv
<1>3. ASSUME ReplayTakes PROVE RunInv'
  <2>1. /\ task.at = "replay" /\ task'.at = "send" /\ task'.client = task.client
        /\ task'.i = 0 /\ task.client \in Fds
        /\ UNCHANGED <<history, s_ring_count, stream, user, monitors>>
    BY <1>1, <1>3 DEF ReplayTakes, TaskGoes, TypeOK, RunInv, ClientInv, ringVars, sockVars
  <2>2. user[task.client] # 0 => stream[user[task.client]].replayed = <<>>
    BY <2>1 DEF RunInv, Serving
  <2>3. s_ring_count \in Nat
    BY <1>1, SizeAssumption DEF TypeOK
  <2>4. Serving(task.client)'
    <3>1. Len(<<>>) = 0 /\ 1..0 = {}
      OBVIOUS
    <3> QED
      BY <2>1, <2>2, <2>3, <3>1 DEF Serving, SoFar
  <2> QED
    BY <2>1, <2>4 DEF RunInv, ReplayIsRun
<1>4. ASSUME ReplaySends PROVE RunInv'
  <2> DEFINE m == user[task.client]
             r == stream[m].replayed
             base == Len(history) - s_ring_count
  <2>1. /\ task.at = "send" /\ task.client \in Fds /\ task.i \in 0..(s_ring_count - 1)
        /\ task.i \in Nat /\ s_ring_count \in Nat
        /\ UNCHANGED <<history, s_ring_count, user, monitors>>
    BY <1>1, <1>4 DEF ReplaySends, TypeOK, ClientInv, ringVars, sockVars
  <2>2. task'.at = "send" /\ task'.client = task.client /\ task'.i = task.i + 1
    <3>1. task' = [task EXCEPT !.i = task.i + 1]
      BY <1>4 DEF ReplaySends
    <3> QED
      BY <1>1, <2>1, <3>1 DEF TypeOK
  <2>3. CASE m = 0
    <3>1. stream' = stream
      BY <1>4, <2>3 DEF ReplaySends
    <3> QED
      BY <2>1, <2>2, <2>3, <3>1 DEF RunInv, ReplayIsRun, Serving
  <2>4. CASE m # 0
    <3>1. m \in 1..MaxMonitors /\ m \in 1..monitors /\ monitors \in Nat /\ MaxMonitors \in Nat
      BY <1>1, <2>1, <2>4, RunTypes
    <3>2. SoFar(m)
      BY <2>1, <2>4 DEF RunInv, Serving
    <3>3. /\ Replayed(task.i) = history[base + task.i + 1] /\ Replayed(task.i) \in Lines
          /\ base + task.i + 1 \in 1..Len(history)
      BY <2>1, ReplayedHistory
    <3>4. r \in Seq(Lines) /\ stream[m] \in [replayed : Seq(Lines), live : Seq(Lines)]
      BY <1>1, <3>1 DEF TypeOK
    <3> DEFINE s == Append(r, Replayed(task.i))
    <3>5. /\ s \in Seq(Lines) /\ Len(s) = Len(r) + 1 /\ DOMAIN s = 1..(Len(r) + 1)
          /\ \A k \in 1..Len(r) : s[k] = r[k]
          /\ s[Len(r) + 1] = Replayed(task.i)
      BY <3>3, <3>4, AppendIndex
    <3> HIDE DEF s
    <3>6. /\ stream'[m].replayed = s
          /\ \A q \in 1..MaxMonitors : q # m => stream'[q] = stream[q]
      <4>1. stream' = [stream EXCEPT ![m].replayed = s]
        BY <1>4, <2>4 DEF ReplaySends, s
      <4> QED
        BY <1>1, <3>1, <3>4, <4>1 DEF TypeOK
    <3>7. Len(r) = task.i /\ \A k \in 1..task.i : r[k] = history[base + k]
      BY <3>2 DEF SoFar
    <3>8. \A k \in 1..(task.i + 1) : s[k] = history[base + k]
      <4> SUFFICES ASSUME NEW k \in 1..(task.i + 1) PROVE s[k] = history[base + k]
        OBVIOUS
      <4>1. CASE k = task.i + 1
        <5>1. base + k = base + task.i + 1
          BY <2>1, <4>1, LenProperties, RunTypes, <1>1
        <5> QED
          BY <3>3, <3>5, <3>7, <4>1, <5>1
      <4>2. CASE k \in 1..task.i
        BY <3>5, <3>7, <4>2
      <4> QED
        BY <2>1, <4>1, <4>2
    <3>9. Serving(task.client)'
      <4>1. task'.i <= s_ring_count'
        BY <2>1, <2>2
      <4>2. Len(s) = task'.i
        BY <2>2, <3>5, <3>7
      <4>3. \A k \in 1..task'.i : s[k] = history'[Len(history') - s_ring_count' + k]
        BY <2>1, <2>2, <3>8
      <4> HIDE DEF m, r, base
      <4>4. task'.at = "send" /\ user'[task'.client] = m
        BY <2>1, <2>2 DEF m
      <4> QED
        BY <3>6, <4>1, <4>2, <4>3, <4>4 DEF Serving, SoFar
    <3>10. Infix(s, history)
      <4>1. base \in 0..(Len(history) - Len(s))
        <5>1. Len(history) \in Nat /\ s_ring_count <= Len(history)
          <6>1. Len(history) \in Nat
            BY <1>1 DEF TypeOK
          <6> QED
            BY <1>1, <2>1, <6>1, SizeAssumption DEF RingInv
        <5>2. Len(s) = task.i + 1
          BY <3>5, <3>7
        <5> QED
          BY <2>1, <5>1, <5>2
      <4>2. \A k \in DOMAIN s : s[k] = history[base + k]
        BY <3>5, <3>7, <3>8
      <4> QED
        BY <4>1, <4>2 DEF Infix
    <3>11. ReplayIsRun'
      <4> SUFFICES ASSUME NEW q \in 1..monitors PROVE Infix(stream'[q].replayed, history)
        BY <2>1 DEF ReplayIsRun
      <4>1. q \in 1..MaxMonitors
        BY <1>1, RunTypes
      <4>2. Infix(stream[q].replayed, history)
        BY DEF RunInv, ReplayIsRun
      <4> QED
        BY <3>6, <3>10, <4>1, <4>2
    <3>12. \A q \in 1..MaxMonitors : q > monitors' => stream'[q].replayed = <<>>
      <4> SUFFICES ASSUME NEW q \in 1..MaxMonitors, q > monitors PROVE stream'[q].replayed = <<>>
        BY <2>1
      <4>1. q # m
        BY <3>1
      <4> QED
        BY <3>6, <4>1 DEF RunInv
    <3> QED
      BY <2>2, <3>9, <3>11, <3>12 DEF RunInv
  <2> QED
    BY <2>3, <2>4
<1>5. ASSUME task'.at \notin {"replay", "send"}, task'.i = 0,
             task'.at # "accept" => task'.client \in Fds,
             UNCHANGED <<history, s_ring_count, stream, monitors>>,
             \A f \in Fds : user'[f] = user[f] \/ user'[f] = 0
      PROVE  RunInv'
  BY <1>5, RunStays
<1>6. ASSUME NEW from \in {"replay", "set", "recv", "clear"}, NEW to \in {"set", "recv", "clear", "close"},
             TaskGoes(from, to)
      PROVE  task'.at = to /\ task'.i = 0 /\ task'.client \in Fds
  BY <1>1, <1>6 DEF TaskGoes, TypeOK, ClientInv, RunInv
<1>7. CASE ReplayTimesOut \/ Sets \/ RecvEnds \/ Clears
  BY <1>5, <1>6, <1>7 DEF ReplayTimesOut, Sets, RecvEnds, Clears, ringVars, sockVars
<1>8. CASE ReplayGives
  <2>1. task'.at = "set" /\ task'.i = 0 /\ task'.client \in Fds
    <3>1. task.at = "send" /\ task' = [task EXCEPT !.at = "set", !.i = 0]
      BY <1>8 DEF ReplayGives
    <3> QED
      BY <1>1, <3>1 DEF TypeOK, ClientInv
  <2> QED
    BY <1>5, <1>8, <2>1 DEF ReplayGives, ringVars, sockVars
<1>9. CASE Closes
  BY <1>5, <1>9 DEF Closes, Accepting, Shut, ringVars
<1> QED
  BY <1>2, <1>3, <1>4, <1>7, <1>8, <1>9 DEF LogTaskStep

(* Every step.                                                             *)
LEMMA RunNext ==
  ASSUME Inv, RunInv, [Next]_vars
  PROVE  RunInv'
<1>1. CASE UNCHANGED vars
  BY <1>1, RunStays DEF vars, ringVars, sockVars, Inv, ClientInv
<1> QED
  BY <1>1, RunLogger, RunTask DEF Next

(* Every replay is a run of lines that were pushed one after the other.    *)
THEOREM ReplaysAreRuns == Spec => []ReplayIsRun
<1>1. Init => RunInv
  BY SizeAssumption DEF Init, RunInv, ReplayIsRun, Accepting
<1>2. RunInv => ReplayIsRun
  BY DEF RunInv
<1> QED
  BY <1>1, <1>2, RunNext, InvCorrect, PTL DEF Spec

-----------------------------------------------------------------------------
(* What the first monitor on a descriptor hears.  The two parts of         *)
(* StreamInOrder: the live lines of a task follow one another, and none is *)
(* older than a replayed one.                                              *)
Gapless(live) ==
  \A i, j \in DOMAIN live :
    /\ i < j /\ live[i].by = live[j].by
    /\ \A k \in (i + 1)..(j - 1) : live[k].by # live[j].by
    => live[j].n = live[i].n + 1

NotOlder(replayed, live) ==
  \A i \in DOMAIN replayed, j \in DOMAIN live :
    replayed[i].by = live[j].by => replayed[i].n <= live[j].n

(* The line that task t has sent last if it has sent all it has logged     *)
(* before the line it is busy with.                                        *)
Due(t) == IF pc[t] = "idle" THEN logged[t] ELSE logged[t] - 1

UpToDate(t, live) ==
  \A i \in DOMAIN live :
    /\ live[i].by = t
    /\ \A k \in DOMAIN live : k > i => live[k].by # t
    => live[i].n = Due(t)

(* Task t can still send to the monitor on f: no send to it has failed.    *)
Sends(t, f) ==
  \/ pc[t] = "send" /\ fd[t] = f
  \/ pc[t] \in {"idle", "push", "write", "look", "load"} /\ s_client_sock = f

Unused(f) == s_client_sock # f /\ \A t \in Loggers : fd[t] # f

(* The first monitor on f is connected.                                    *)
FirstOn(f) == user[f] # 0 /\ first[f] = user[f]

(* Only the client of tcp_log_task is connected, and a monitor only on the *)
(* descriptor it came with.                                                *)
OneClient == \A f \in Fds : user[f] # 0 => task.at # "accept" /\ task.client = f
OneName   == \A f, g \in Fds : user[f] # 0 /\ first[g] = user[f] => f = g

(* Nobody has the number of a descriptor that accept has never returned.   *)
FreshFd ==
  \A f \in Fds : first[f] = 0 =>
    /\ user[f] = 0 /\ Unused(f)
    /\ task.at # "accept" => task.client # f

(* Before s_client_sock is set the first monitor on a descriptor hears     *)
(* nothing live; from then on a task that can send to it has sent it all   *)
(* that it logged since its first line there.                              *)
Before ==
  \A f \in Fds : FirstOn(f) /\ task.at \in {"replay", "send", "set"} =>
    stream[first[f]].live = <<>> /\ Unused(f)

InStep ==
  \A f \in Fds : FirstOn(f) =>
    \A t \in Loggers : Sends(t, f) => UpToDate(t, stream[first[f]].live)

(* No line is ahead of the task that logs it.                              *)
Past(lines) == \A i \in DOMAIN lines : lines[i].n <= logged[lines[i].by]

AllPast ==
  /\ Past(history)
  /\ \A m \in 1..MaxMonitors : Past(stream[m].replayed)

NotYet == \A m \in 1..MaxMonitors : m > monitors => stream[m].live = <<>>

(* Inductive strengthening of StreamInOrder.                               *)
StreamInv ==
  OneClient /\ OneName /\ FreshFd /\ Before /\ InStep /\ AllPast /\ NotYet /\ StreamInOrder

(* StreamInOrder by its parts.                                             *)
LEMMA InOrderParts ==
  StreamInOrder <=>
    \A f \in Fds : first[f] # 0 =>
      /\ Gapless(stream[first[f]].live)
      /\ NotOlder(stream[first[f]].replayed, stream[first[f]].live)
  BY DEF StreamInOrder, Gapless, NotOlder

(* A line appended to the live lines.                                      *)
LEMMA LiveAppend ==
  ASSUME NEW live \in Seq(Lines), NEW t \in Loggers, NEW n \in Nat,
         Gapless(live),
         \A i \in DOMAIN live :
           /\ live[i].by = t
           /\ \A k \in DOMAIN live : k > i => live[k].by # t
           => live[i].n = n - 1
  PROVE  Gapless(Append(live, Line(t, n)))
<1>s. PICK s : s = Append(live, Line(t, n))
  OBVIOUS
<1>1. Line(t, n) \in Lines /\ Line(t, n).by = t /\ Line(t, n).n = n
  BY DEF Line, Lines
<1>2. /\ Len(live) \in Nat /\ DOMAIN live = 1..Len(live) /\ DOMAIN s = 1..(Len(live) + 1)
      /\ \A k \in 1..Len(live) : s[k] = live[k] /\ live[k] \in Lines
      /\ s[Len(live) + 1] = Line(t, n)
  BY <1>s, <1>1, AppendIndex
<1> SUFFICES ASSUME NEW i \in DOMAIN s, NEW j \in DOMAIN s, i < j, s[i].by = s[j].by,
                    \A k \in (i + 1)..(j - 1) : s[k].by # s[j].by
             PROVE  s[j].n = s[i].n + 1
  BY <1>s DEF Gapless
<1>3. i \in 1..Len(live) /\ s[i] = live[i]
  BY <1>2
<1>4. CASE j \in 1..Len(live)
  <2>1. s[j] = live[j] /\ \A k \in (i + 1)..(j - 1) : k \in 1..Len(live)
    BY <1>2, <1>3, <1>4
  <2>2. \A k \in (i + 1)..(j - 1) : live[k].by # live[j].by
    BY <1>2, <2>1
  <2> QED
    BY <1>2, <1>3, <1>4, <2>1, <2>2 DEF Gapless
<1>5. CASE j = Len(live) + 1
  <2>1. s[j].by = t /\ s[j].n = n
    BY <1>1, <1>2, <1>5
  <2>2. ASSUME NEW k \in DOMAIN live, k > i PROVE live[k].by # t
    <3>1. k \in (i + 1)..(j - 1) /\ s[k] = live[k]
      BY <1>2, <1>3, <1>5, <2>2
    <3> QED
      BY <2>1, <3>1
  <2>3. live[i].n = n - 1
    BY <1>2, <1>3, <2>1, <2>2
  <2>4. live[i].n \in Nat
    BY <1>2, <1>3 DEF Lines
  <2> QED
    BY <1>3, <2>1, <2>3, <2>4
<1> QED
  BY <1>2, <1>4, <1>5

(* What is connected and on which descriptors, by type.                    *)
LEMMA StreamTypes ==
  ASSUME TypeOK
  PROVE  /\ monitors \in Nat /\ MaxMonitors \in Nat /\ monitors <= MaxMonitors
         /\ user \in [Fds -> 0..monitors] /\ first \in [Fds -> 0..monitors]
         /\ \A f \in Fds : user[f] # 0 => user[f] \in 1..MaxMonitors /\ user[f] \in 1..monitors
         /\ \A f \in Fds : first[f] # 0 => first[f] \in 1..MaxMonitors /\ first[f] \in 1..monitors
         /\ stream \in [1..MaxMonitors -> [replayed : Seq(Lines), live : Seq(Lines)]]
         /\ \A m \in 1..MaxMonitors : stream[m].live \in Seq(Lines)
         /\ \A m \in 1..MaxMonitors : stream[m].replayed \in Seq(Lines)
         /\ history \in Seq(Lines)
         /\ logged \in [Loggers -> Nat] /\ fd \in [Loggers -> Fds \cup {None}]
         /\ pc \in [Loggers -> {"idle", "push", "write", "look", "load", "send", "reload",
                                "close", "clear"}]
         /\ None \notin Fds /\ s_client_sock \in Fds \cup {None}
<1>1. monitors \in 0..MaxMonitors /\ MaxMonitors \in Nat
  BY SizeAssumption DEF TypeOK
<1>2. user \in [Fds -> 0..monitors] /\ first \in [Fds -> 0..monitors]
  BY DEF TypeOK
<1>3. stream \in [1..MaxMonitors -> [replayed : Seq(Lines), live : Seq(Lines)]]
  BY DEF TypeOK
<1>4. None \notin Fds
  BY SizeAssumption DEF None
<1>5. /\ \A f \in Fds : user[f] # 0 => user[f] \in 1..MaxMonitors /\ user[f] \in 1..monitors
      /\ \A f \in Fds : first[f] # 0 => first[f] \in 1..MaxMonitors /\ first[f] \in 1..monitors
  BY <1>1, <1>2
<1> QED
  BY <1>1, <1>2, <1>3, <1>4, <1>5 DEF TypeOK

(* A line that is pushed is not ahead of its task, nor does a task that    *)
(* goes on leave its lines ahead of it.                                    *)
LEMMA PastStays ==
  ASSUME TypeOK, NEW lines \in Seq(Lines), Past(lines),
         \A t \in Loggers : logged'[t] \in Nat /\ logged'[t] >= logged[t]
  PROVE  \A i \in DOMAIN lines : lines[i].n <= logged'[lines[i].by]
<1> SUFFICES ASSUME NEW i \in DOMAIN lines PROVE lines[i].n <= logged'[lines[i].by]
  OBVIOUS
<1>1. lines[i] \in Lines /\ lines[i].by \in Loggers /\ lines[i].n \in Nat
  <2>1. lines[i] \in Lines
    OBVIOUS
  <2> QED
    BY <2>1 DEF Lines
<1>2. lines[i].n <= logged[lines[i].by] /\ logged[lines[i].by] \in Nat
  BY <1>1 DEF Past, TypeOK
<1> QED
  BY <1>1, <1>2

(* A step of a task that logs, as far as the monitors are concerned.       *)
LoggerFrame(t) ==
  /\ UNCHANGED <<task, first, monitors>>
  /\ \A f \in Fds : user'[f] = user[f] \/ user'[f] = 0
  /\ s_client_sock' = s_client_sock \/ s_client_sock' = None
  /\ \A u \in Loggers : fd'[u] = fd[u] \/ fd'[u] = None \/ fd'[u] = s_client_sock
  /\ \A u \in Loggers \ {t} : pc'[u] = pc[u] /\ fd'[u] = fd[u] /\ logged'[u] = logged[u]
  /\ \A u \in Loggers : logged'[u] \in Nat /\ logged'[u] >= logged[u]
  /\ \A m \in 1..MaxMonitors : stream'[m].replayed = stream[m].replayed
  /\ history' = history \/ (history' = Append(history, Line(t, logged[t])) /\ logged' = logged)

LEMMA LoggerFrames ==
  ASSUME TypeOK, NEW t \in Loggers, Log(t) \/ Vprintf(t)
  PROVE  LoggerFrame(t)
<1>1. /\ pc \in [Loggers -> {"idle", "push", "write", "look", "load", "send", "reload",
                             "close", "clear"}]
      /\ fd \in [Loggers -> Fds \cup {None}] /\ logged \in [Loggers -> Nat]
      /\ stream \in [1..MaxMonitors -> [replayed : Seq(Lines), live : Seq(Lines)]]
  BY StreamTypes
<1> USE DEF Goto, ringVars, sockVars, logVars
<1>2. /\ UNCHANGED <<task, first, monitors>>
      /\ s_client_sock' = s_client_sock \/ s_client_sock' = None
  BY DEF Log, Vprintf, PushTakes, PushTimesOut, PushWrites, Look, Load, SendReaches, SendFails,
         HookCloses, HookClears
<1>3. \A f \in Fds : user'[f] = user[f] \/ user'[f] = 0
  <2>1. user' = user \/ Shut(fd[t])
    BY DEF Log, Vprintf, PushTakes, PushTimesOut, PushWrites, Look, Load, SendReaches,
           SendFails, HookCloses, HookClears
  <2> QED
    BY <2>1 DEF Shut
<1>4. \A u \in Loggers : /\ fd'[u] = fd[u] \/ fd'[u] = None \/ fd'[u] = s_client_sock
                         /\ u # t => fd'[u] = fd[u]
  <2>1. \/ fd' = fd
        \/ fd' = [fd EXCEPT ![t] = None]
        \/ fd' = [fd EXCEPT ![t] = s_client_sock]
    BY DEF Log, Vprintf, PushTakes, PushTimesOut, PushWrites, Look, Load, SendReaches,
           SendFails, HookCloses, HookClears, Forget
  <2> QED
    BY <1>1, <2>1
<1>5. \A u \in Loggers \ {t} : pc'[u] = pc[u]
  BY <1>1 DEF Log, Vprintf, PushTakes, PushTimesOut, PushWrites, Look, Load, SendReaches,
              SendFails, HookCloses, HookClears
<1>6. logged' = logged \/ logged' = [logged EXCEPT ![t] = logged[t] + 1]
  BY DEF Log, Vprintf, PushTakes, PushTimesOut, PushWrites, Look, Load, SendReaches, SendFails,
         HookCloses, HookClears
<1>7. \A u \in Loggers : /\ logged'[u] \in Nat /\ logged'[u] >= logged[u]
                         /\ u # t => logged'[u] = logged[u]
  BY <1>1, <1>6
<1>8. \A m \in 1..MaxMonitors : stream'[m].replayed = stream[m].replayed
  <2>1. CASE SendReaches(t)
    <3>1. stream' = [stream EXCEPT ![UserOf(fd[t])].live = Append(@, Line(t, logged[t]))]
      BY <2>1 DEF SendReaches
    <3> QED
      BY <1>1, <3>1
  <2>2. CASE ~SendReaches(t)
    BY <2>2 DEF Log, Vprintf, PushTakes, PushTimesOut, PushWrites, Look, Load, SendFails,
                HookCloses, HookClears
  <2> QED
    BY <2>1, <2>2
<1>9. history' = history \/ (history' = Append(history, Line(t, logged[t])) /\ logged' = logged)
  BY DEF Log, Vprintf, PushTakes, PushTimesOut, PushWrites, Look, Load, SendReaches, SendFails,
         HookCloses, HookClears
<1> QED
  BY <1>2, <1>3, <1>4, <1>5, <1>7, <1>8, <1>9 DEF LoggerFrame

(* What every step of a task that logs keeps.                              *)
LEMMA FrameKeeps ==
  ASSUME TypeOK, StreamInv, NEW t \in Loggers, LoggerFrame(t)
  PROVE  /\ OneClient' /\ OneName' /\ FreshFd' /\ AllPast'
         /\ \A f \in Fds : FirstOn(f)' => FirstOn(f)
         /\ \A f \in Fds : Unused(f) => Unused(f)'
         /\ \A u \in Loggers \ {t}, f \in Fds : Sends(u, f)' => Sends(u, f) /\ Due(u)' = Due(u)
<1>1. None \notin Fds
  BY StreamTypes
<1>2. \A f \in Fds : Unused(f) => Unused(f)'
  BY <1>1 DEF LoggerFrame, Unused
<1>3. OneClient' /\ OneName' /\ \A f \in Fds : FirstOn(f)' => FirstOn(f)
  BY DEF LoggerFrame, StreamInv, OneClient, OneName, FirstOn
<1>4. FreshFd'
  BY <1>2 DEF LoggerFrame, StreamInv, FreshFd
<1>5. \A u \in Loggers \ {t}, f \in Fds : Sends(u, f)' => Sends(u, f) /\ Due(u)' = Due(u)
  BY <1>1 DEF LoggerFrame, Sends, Due
<1>6. Past(history)'
  <2>1. CASE history' = history
    <3>1. \A i \in DOMAIN history : history[i].n <= logged'[history[i].by]
      BY StreamTypes, PastStays DEF LoggerFrame, StreamInv, AllPast
    <3> QED
      BY <2>1, <3>1 DEF Past
  <2>2. CASE history' = Append(history, Line(t, logged[t])) /\ logged' = logged
    <3>1. /\ history \in Seq(Lines) /\ logged[t] \in Nat
          /\ Line(t, logged[t]) \in Lines
          /\ Line(t, logged[t]).by = t /\ Line(t, logged[t]).n = logged[t]
      BY StreamTypes DEF Line, Lines
    <3>2. /\ Len(history) \in Nat
          /\ DOMAIN history = 1..Len(history) /\ DOMAIN history' = 1..(Len(history) + 1)
          /\ \A k \in 1..Len(history) : history'[k] = history[k]
          /\ history'[Len(history) + 1] = Line(t, logged[t])
      BY <2>2, <3>1, AppendIndex
    <3> QED
      BY <2>2, <3>1, <3>2 DEF Past, StreamInv, AllPast
  <2> QED
    BY <2>1, <2>2 DEF LoggerFrame
<1>7. ASSUME NEW m \in 1..MaxMonitors PROVE Past(stream[m].replayed)'
  <2>1. \A i \in DOMAIN stream[m].replayed :
          stream[m].replayed[i].n <= logged'[stream[m].replayed[i].by]
    BY StreamTypes, PastStays DEF LoggerFrame, StreamInv, AllPast
  <2>2. stream'[m].replayed = stream[m].replayed
    BY DEF LoggerFrame
  <2> QED
    BY <2>1, <2>2 DEF Past
<1> QED
  BY <1>2, <1>3, <1>4, <1>5, <1>6, <1>7 DEF AllPast

(* A task that logs takes a step and sends nothing: if it can send to a    *)
(* monitor afterwards, it could before, and is as far as it was.           *)
LEMMA StreamSilent ==
  ASSUME Inv, StreamInv, NEW t \in Loggers, Log(t) \/ Vprintf(t), ~SendReaches(t)
  PROVE  StreamInv'
<1>1. TypeOK /\ LoggerFrame(t)
  BY LoggerFrames DEF Inv
<1>2. stream' = stream
  BY DEF Log, Vprintf, PushTakes, PushTimesOut, PushWrites, Look, Load, SendFails,
         HookCloses, HookClears
<1>3. ASSUME NEW f \in Fds, Sends(t, f)' PROVE Sends(t, f) /\ Due(t)' = Due(t)
  <2>1. /\ pc \in [Loggers -> {"idle", "push", "write", "look", "load", "send", "reload",
                               "close", "clear"}]
        /\ fd \in [Loggers -> Fds \cup {None}] /\ logged \in [Loggers -> Nat]
        /\ f # None
    BY <1>1, StreamTypes
  <2> USE DEF Goto, Sends, Due, logVars, sockVars
  <2>2. CASE Log(t)
    <3>1. pc[t] = "idle" /\ pc'[t] = "push" /\ logged'[t] = logged[t] + 1 /\ logged[t] \in Nat
      BY <2>1, <2>2 DEF Log
    <3>2. s_client_sock' = s_client_sock /\ fd' = fd
      BY <2>2 DEF Log
    <3> QED
      BY <1>3, <3>1, <3>2
  <2>3. CASE PushTakes(t) \/ PushTimesOut(t) \/ PushWrites(t)
    BY <1>3, <2>1, <2>3 DEF PushTakes, PushTimesOut, PushWrites
  <2>4. CASE Look(t)
    BY <1>3, <2>1, <2>4 DEF Look
  <2>5. CASE Load(t, "load", "send")
    BY <1>3, <2>1, <2>5 DEF Load
  <2>6. CASE Load(t, "reload", "close") \/ SendFails(t)
    BY <1>3, <2>1, <2>6 DEF Load, SendFails
  <2>7. CASE HookCloses(t) \/ HookClears(t)
    BY <1>3, <2>1, <2>7 DEF HookCloses, HookClears
  <2> QED
    BY <2>2, <2>3, <2>4, <2>5, <2>6, <2>7 DEF Vprintf
<1>4. /\ OneClient' /\ OneName' /\ FreshFd' /\ AllPast'
      /\ \A f \in Fds : FirstOn(f)' => FirstOn(f)
      /\ \A f \in Fds : Unused(f) => Unused(f)'
      /\ \A u \in Loggers, f \in Fds : Sends(u, f)' => Sends(u, f) /\ Due(u)' = Due(u)
  BY <1>1, <1>3, FrameKeeps
<1>5. UNCHANGED <<task, first, monitors>>
  BY <1>1 DEF LoggerFrame
<1>6. Before'
  BY <1>2, <1>4, <1>5 DEF StreamInv, Before
<1>7. InStep'
  BY <1>2, <1>4, <1>5 DEF StreamInv, InStep, UpToDate
<1>8. NotYet' /\ StreamInOrder'
  BY <1>2, <1>5 DEF StreamInv, NotYet, StreamInOrder
<1> QED
  BY <1>4, <1>6, <1>7, <1>8 DEF StreamInv

(* A line that reaches the monitor is the one due.                         *)
LEMMA StreamReaches ==
  ASSUME Inv, StreamInv, NEW t \in Loggers, SendReaches(t)
  PROVE  StreamInv'
<1>1. TypeOK /\ LoggerFrame(t)
  BY LoggerFrames DEF Inv, Vprintf
<1>h. PICK h : h = fd[t]
  OBVIOUS
<1>m. PICK m : m = UserOf(h)
  OBVIOUS
<1>2. /\ pc[t] = "send" /\ pc'[t] = "idle" /\ logged' = logged
      /\ UNCHANGED <<task, s_client_sock, user, monitors, first, history>>
      /\ stream' = [stream EXCEPT ![m].live = Append(stream[m].live, Line(t, logged[t]))]
      /\ m # 0
  <2>1. pc \in [Loggers -> {"idle", "push", "write", "look", "load", "send", "reload",
                            "close", "clear"}]
    BY <1>1, StreamTypes
  <2> QED
    BY <2>1, <1>h, <1>m DEF SendReaches, Goto, ringVars, sockVars
<1>3. h \in Fds /\ m = user[h] /\ m \in 1..MaxMonitors /\ m \in 1..monitors
      /\ logged[t] \in Nat
  <2>1. fd[t] \in Fds \cup {None} /\ logged[t] \in Nat
    BY <1>1, StreamTypes
  <2>2. h \in Fds /\ m = user[h]
    BY <1>h, <1>m, <1>2, <2>1 DEF UserOf
  <2> QED
    BY <1>1, <1>2, <2>1, <2>2, StreamTypes
<1>4. /\ stream'[m].live = Append(stream[m].live, Line(t, logged[t]))
      /\ stream'[m].replayed = stream[m].replayed
      /\ \A q \in 1..MaxMonitors : q # m => stream'[q] = stream[q]
      /\ stream[m].live \in Seq(Lines) /\ stream[m].replayed \in Seq(Lines)
  <2>1. /\ stream \in [1..MaxMonitors -> [replayed : Seq(Lines), live : Seq(Lines)]]
        /\ stream[m].live \in Seq(Lines) /\ stream[m].replayed \in Seq(Lines)
    BY <1>1, <1>3, StreamTypes
  <2> QED
    BY <1>2, <1>3, <2>1
<1>5. /\ OneClient' /\ OneName' /\ FreshFd' /\ AllPast'
      /\ \A f \in Fds : Unused(f) => Unused(f)'
      /\ \A u \in Loggers \ {t}, f \in Fds : Sends(u, f)' => Sends(u, f) /\ Due(u)' = Due(u)
  BY <1>1, FrameKeeps
<1>6. ~Unused(h) /\ Sends(t, h)
  BY <1>h, <1>2 DEF Unused, Sends
<1>7. \A f \in Fds : user[f] # 0 => f = h
  BY <1>2, <1>3 DEF StreamInv, OneClient
<1>8. ASSUME NEW f \in Fds, first[f] = m PROVE f = h /\ FirstOn(h)
  BY <1>2, <1>3, <1>8 DEF StreamInv, OneName, FirstOn
<1>9. Before'
  <2> SUFFICES ASSUME NEW f \in Fds, FirstOn(f)', task'.at \in {"replay", "send", "set"}
               PROVE  FALSE
    BY DEF Before
  <2>1. FirstOn(f) /\ f = h
    BY <1>2, <1>7 DEF FirstOn
  <2> QED
    BY <1>2, <1>6, <2>1 DEF StreamInv, Before
<1>10. PICK live : live = stream[m].live
  OBVIOUS
<1>11. FirstOn(h) => UpToDate(t, live)
  BY <1>2, <1>3, <1>6, <1>10 DEF StreamInv, InStep, FirstOn
<1>12. Due(t) = logged[t] - 1 /\ Due(t)' = logged[t]
  BY <1>2 DEF Due
<1>s. PICK s : s = Append(live, Line(t, logged[t]))
  OBVIOUS
<1>13. /\ Len(live) \in Nat /\ DOMAIN live = 1..Len(live) /\ DOMAIN s = 1..(Len(live) + 1)
       /\ \A k \in 1..Len(live) : s[k] = live[k]
       /\ s[Len(live) + 1].by = t /\ s[Len(live) + 1].n = logged[t]
  <2>1. Line(t, logged[t]) \in Lines /\ Line(t, logged[t]).by = t /\ Line(t, logged[t]).n = logged[t]
    BY <1>3 DEF Line, Lines
  <2> QED
    BY <1>4, <1>10, <1>s, <2>1, AppendIndex
<1>14. InStep'
  <2> SUFFICES ASSUME NEW f \in Fds, FirstOn(f)', NEW u \in Loggers, Sends(u, f)'
               PROVE  UpToDate(u, stream[first[f]].live)'
    BY DEF InStep
  <2>1. f = h /\ FirstOn(h) /\ first'[f] = m /\ stream'[first'[f]].live = s
    BY <1>2, <1>3, <1>4, <1>7, <1>10, <1>s DEF FirstOn
  <2>2. CASE u = t
    <3>1. ASSUME NEW i \in DOMAIN s, \A k \in DOMAIN s : k > i => s[k].by # t PROVE s[i].n = Due(t)'
      <4>1. i = Len(live) + 1
        BY <1>13, <3>1
      <4> QED
        BY <1>12, <1>13, <4>1
    <3> QED
      BY <2>1, <2>2, <3>1 DEF UpToDate
  <2>3. CASE u # t
    <3>1. UpToDate(u, live) /\ Due(u)' = Due(u)
      BY <1>3, <1>5, <1>10, <2>1, <2>3 DEF StreamInv, InStep, FirstOn
    <3>2. ASSUME NEW i \in DOMAIN s, s[i].by = u, \A k \in DOMAIN s : k > i => s[k].by # u
          PROVE  s[i].n = Due(u)'
      <4>1. i \in DOMAIN live /\ s[i] = live[i]
        BY <1>13, <2>3, <3>2
      <4>2. \A k \in DOMAIN live : k > i => live[k].by # u
        BY <1>13, <3>2
      <4> QED
        BY <3>1, <3>2, <4>1, <4>2 DEF UpToDate
    <3> QED
      BY <2>1, <3>2 DEF UpToDate
  <2> QED
    BY <2>2, <2>3
<1>15. NotYet'
  <2> SUFFICES ASSUME NEW q \in 1..MaxMonitors, q > monitors PROVE stream'[q].live = <<>>
    BY <1>2 DEF NotYet
  <2>1. q # m
    BY <1>1, <1>3, StreamTypes
  <2> QED
    BY <1>4, <2>1 DEF StreamInv, NotYet
<1>16. StreamInOrder'
  <2>1. ASSUME NEW f \in Fds, first[f] # 0
        PROVE  /\ Gapless(stream[first[f]].live)
               /\ NotOlder(stream[first[f]].replayed, stream[first[f]].live)
               /\ first[f] \in 1..MaxMonitors
    BY <1>1, <2>1, InOrderParts, StreamTypes DEF StreamInv
  <2>2. ASSUME NEW f \in Fds, first[f] # 0
        PROVE  /\ Gapless(stream'[first[f]].live)
               /\ NotOlder(stream'[first[f]].replayed, stream'[first[f]].live)
    <3>1. CASE first[f] # m
      BY <1>4, <2>1, <2>2, <3>1
    <3>2. CASE first[f] = m
      <4>1. Gapless(live) /\ NotOlder(stream[m].replayed, live) /\ UpToDate(t, live)
        BY <1>8, <1>10, <1>11, <2>1, <2>2, <3>2
      <4>2. Gapless(s)
        BY <1>3, <1>4, <1>10, <1>12, <1>s, <4>1, LiveAppend DEF UpToDate
      <4>3. NotOlder(stream[m].replayed, s)
        <5> SUFFICES ASSUME NEW i \in DOMAIN stream[m].replayed, NEW j \in DOMAIN s,
                            stream[m].replayed[i].by = s[j].by
                     PROVE  stream[m].replayed[i].n <= s[j].n
          BY DEF NotOlder
        <5>1. CASE j \in DOMAIN live
          BY <1>13, <4>1, <5>1 DEF NotOlder
        <5>2. CASE j = Len(live) + 1
          <6>1. s[j].by = t /\ s[j].n = logged[t]
            BY <1>13, <5>2
          <6> QED
            BY <1>3, <6>1 DEF StreamInv, AllPast, Past
        <5> QED
          BY <1>13, <5>1, <5>2
      <4> QED
        BY <1>4, <1>10, <1>s, <3>2, <4>2, <4>3
    <3> QED
      BY <3>1, <3>2
  <2>3. first' = first
    BY <1>2
  <2> QED
    BY <2>2, <2>3 DEF StreamInOrder, Gapless, NotOlder
<1> QED
  BY <1>5, <1>9, <1>14, <1>15, <1>16 DEF StreamInv

(* What every step of tcp_log_task leaves alone.                           *)
LEMMA TaskLeaves ==
  ASSUME LogTaskStep
  PROVE  UNCHANGED <<history, pc, fd, logged>>
  BY DEF LogTaskStep, Accepts, ReplayTakes, ReplayTimesOut, ReplaySends, ReplayGives, Sets,
         RecvEnds, Clears, Closes, ringVars, logVars

(* A monitor that connects has heard nothing; if it is the first on its    *)
(* descriptor, nobody has the descriptor's number yet.                     *)
LEMMA StreamAccepts ==
  ASSUME Inv, StreamInv, NEW f \in Fds, Accepts(f)
  PROVE  StreamInv'
<1>1. /\ task.at = "accept" /\ user[f] = 0 /\ monitors < MaxMonitors
      /\ task' = [at |-> "replay", client |-> f, i |-> 0]
      /\ UNCHANGED <<history, pc, fd, logged, s_client_sock, stream>>
      /\ monitors' = monitors + 1
      /\ user' = [user EXCEPT ![f] = monitors + 1]
      /\ first' = IF first[f] = 0 THEN [first EXCEPT ![f] = monitors + 1] ELSE first
  BY DEF Accepts, ringVars, logVars
<1>2. /\ monitors \in Nat /\ MaxMonitors \in Nat
      /\ user \in [Fds -> 0..monitors] /\ first \in [Fds -> 0..monitors]
  BY StreamTypes DEF Inv
<1>3. \A g \in Fds : user[g] = 0
  BY <1>1 DEF StreamInv, OneClient
<1>4. \A g \in Fds : user'[g] = IF g = f THEN monitors + 1 ELSE 0
  BY <1>1, <1>2, <1>3
<1>5. \A g \in Fds : /\ first[g] # monitors + 1
                     /\ first'[g] = IF g = f /\ first[f] = 0 THEN monitors + 1 ELSE first[g]
  BY <1>1, <1>2
<1>6. \A g \in Fds : Unused(g)' = Unused(g)
  BY <1>1 DEF Unused
<1>7. OneClient' /\ OneName'
  BY <1>1, <1>2, <1>4, <1>5 DEF OneClient, OneName
<1>8. FreshFd'
  BY <1>1, <1>2, <1>4, <1>5, <1>6 DEF StreamInv, FreshFd
<1>9. \A g \in Fds : FirstOn(g)' => g = f /\ first[f] = 0 /\ first'[g] = monitors + 1
  BY <1>2, <1>4, <1>5 DEF FirstOn
<1>10. stream[monitors + 1].live = <<>> /\ monitors + 1 \in 1..MaxMonitors
  BY <1>1, <1>2 DEF StreamInv, NotYet
<1>11. Before' /\ InStep'
  BY <1>1, <1>6, <1>9, <1>10 DEF StreamInv, FreshFd, Before, InStep, UpToDate
<1>12. AllPast' /\ NotYet'
  BY <1>1, <1>2 DEF StreamInv, AllPast, Past, NotYet
<1>13. StreamInOrder'
  <2> SUFFICES ASSUME NEW g \in Fds, first'[g] # 0
               PROVE  /\ Gapless(stream[first'[g]].live)
                      /\ NotOlder(stream[first'[g]].replayed, stream[first'[g]].live)
    BY <1>1 DEF StreamInOrder, Gapless, NotOlder
  <2>1. CASE first'[g] = first[g]
    BY <2>1, InOrderParts DEF StreamInv
  <2>2. CASE first'[g] = monitors + 1
    BY <1>10, <2>2 DEF Gapless, NotOlder
  <2> QED
    BY <1>5, <2>1, <2>2
<1> QED
  BY <1>7, <1>8, <1>11, <1>12, <1>13 DEF StreamInv

(* A step of tcp_log_task that sends nothing and accepts nobody.           *)
LEMMA StreamGoesOn ==
  ASSUME Inv, StreamInv, UNCHANGED <<history, pc, fd, logged, stream, first, monitors>>,
         \A f \in Fds : user'[f] = user[f] \/ user'[f] = 0,
         \/ task.at # "accept" /\ task'.at # "accept" /\ task'.client = task.client
         \/ task' = task
         \/ task'.at = "accept" /\ \A f \in Fds : user'[f] = 0,
         \/ s_client_sock' = s_client_sock \/ s_client_sock' = None
         \/ s_client_sock' = task.client /\ task.at = "set",
         task'.at \in {"replay", "send", "set"} =>
           task.at \in {"replay", "send", "set"} /\ s_client_sock' = s_client_sock
  PROVE  StreamInv'
<1>1. None \notin Fds
  BY StreamTypes DEF Inv
<1>2. OneClient' /\ OneName' /\ \A f \in Fds : FirstOn(f)' => FirstOn(f)
  BY DEF StreamInv, OneClient, OneName, FirstOn
<1>3. FreshFd'
  BY <1>1 DEF StreamInv, FreshFd, Unused
<1>4. Before'
  BY <1>2 DEF StreamInv, Before, Unused
<1>5. InStep'
  <2> SUFFICES ASSUME NEW f \in Fds, FirstOn(f)', NEW t \in Loggers, Sends(t, f)'
               PROVE  UpToDate(t, stream[first[f]].live)'
    BY DEF InStep
  <2>1. FirstOn(f) /\ Due(t)' = Due(t)
    BY <1>2 DEF Due
  <2>2. CASE Sends(t, f)
    BY <2>1, <2>2 DEF StreamInv, InStep, UpToDate
  <2>3. CASE ~Sends(t, f)
    <3>1. task.at = "set"
      BY <1>1, <2>3 DEF Sends
    <3>2. stream[first[f]].live = <<>>
      BY <2>1, <3>1 DEF StreamInv, Before
    <3> QED
      BY <3>2 DEF UpToDate
  <2> QED
    BY <2>2, <2>3
<1>6. AllPast' /\ NotYet' /\ StreamInOrder'
  BY DEF StreamInv, AllPast, Past, NotYet, StreamInOrder
<1> QED
  BY <1>2, <1>3, <1>4, <1>5, <1>6 DEF StreamInv

(* A line that is replayed is one that was pushed, and its monitor has     *)
(* heard nothing live yet.                                                 *)
LEMMA StreamReplays ==
  ASSUME Inv, StreamInv, ReplaySends
  PROVE  StreamInv'
<1>1. TypeOK /\ ClientInv
  BY DEF Inv
<1>2. /\ task.at = "send" /\ task.client \in Fds /\ task.i \in 0..(s_ring_count - 1)
      /\ UNCHANGED <<history, pc, fd, logged, s_client_sock, user, monitors, first>>
  BY <1>1 DEF ReplaySends, TypeOK, ClientInv, ringVars, logVars, sockVars
<1>3. task'.at = "send" /\ task'.client = task.client
  <2>1. task' = [task EXCEPT !.i = task.i + 1]
    BY DEF ReplaySends
  <2> QED
    BY <1>1, <1>2, <2>1 DEF TypeOK
<1>4. CASE user[task.client] = 0
  <2>1. stream' = stream
    BY <1>4 DEF ReplaySends
  <2> QED
    BY <1>2, <1>3, <2>1, StreamGoesOn
<1>5. CASE user[task.client] # 0
  <2>m. PICK m : m = user[task.client]
    OBVIOUS
  <2>1. m \in 1..MaxMonitors /\ m \in 1..monitors
    BY <1>1, <1>2, <1>5, <2>m, StreamTypes
  <2>2. Replayed(task.i) \in Lines
    BY <1>2, ReplayedHistory
  <2>3. Replayed(task.i).n <= logged[Replayed(task.i).by]
    <3>1. /\ Replayed(task.i) = history[Len(history) - s_ring_count + task.i + 1]
          /\ Len(history) - s_ring_count + task.i + 1 \in 1..Len(history)
      BY <1>2, ReplayedHistory
    <3>2. DOMAIN history = 1..Len(history)
      BY <1>1, StreamTypes, LenProperties
    <3> QED
      BY <3>1, <3>2 DEF StreamInv, AllPast, Past
  <2>r. PICK r : r = Append(stream[m].replayed, Replayed(task.i))
    OBVIOUS
  <2>4. /\ stream'[m].replayed = r /\ stream'[m].live = stream[m].live
        /\ \A q \in 1..MaxMonitors : q # m => stream'[q] = stream[q]
        /\ stream[m].replayed \in Seq(Lines)
    <3>1. stream' = [stream EXCEPT ![m].replayed = r]
      BY <1>5, <2>m, <2>r DEF ReplaySends
    <3>2. /\ stream \in [1..MaxMonitors -> [replayed : Seq(Lines), live : Seq(Lines)]]
          /\ stream[m].replayed \in Seq(Lines)
      BY <1>1, <2>1, StreamTypes
    <3> QED
      BY <2>1, <3>1, <3>2
  <2>5. \A q \in 1..MaxMonitors : stream'[q].live = stream[q].live
    BY <2>4
  <2>6. \A f \in Fds : first[f] # 0 => first[f] \in 1..MaxMonitors
    BY <1>1, StreamTypes
  <2>7. OneClient' /\ OneName' /\ FreshFd'
    BY <1>2, <1>3 DEF StreamInv, OneClient, OneName, FreshFd, Unused
  <2>8. \A f \in Fds : FirstOn(f)' = FirstOn(f) /\ (FirstOn(f) => first[f] # 0)
    BY <1>2 DEF FirstOn
  <2>9. Before'
    BY <1>2, <2>5, <2>6, <2>8 DEF StreamInv, Before, Unused
  <2>10. InStep'
    <3>1. \A t \in Loggers, f \in Fds : Sends(t, f)' = Sends(t, f) /\ Due(t)' = Due(t)
      BY <1>2 DEF Sends, Due
    <3> QED
      BY <1>2, <2>5, <2>6, <2>8, <3>1 DEF StreamInv, InStep, UpToDate
  <2>11. NotYet'
    BY <1>2, <2>5 DEF StreamInv, NotYet
  <2>12. AllPast'
    <3>1. /\ Len(stream[m].replayed) \in Nat
          /\ DOMAIN stream[m].replayed = 1..Len(stream[m].replayed)
          /\ DOMAIN r = 1..(Len(stream[m].replayed) + 1)
          /\ \A k \in 1..Len(stream[m].replayed) : r[k] = stream[m].replayed[k]
          /\ r[Len(stream[m].replayed) + 1] = Replayed(task.i)
      BY <2>2, <2>4, <2>r, AppendIndex
    <3>2. Past(stream[m].replayed)
      BY <2>1 DEF StreamInv, AllPast
    <3>3. \A k \in DOMAIN r : r[k].n <= logged[r[k].by]
      <4> SUFFICES ASSUME NEW k \in DOMAIN r PROVE r[k].n <= logged[r[k].by]
        OBVIOUS
      <4>1. CASE k \in DOMAIN stream[m].replayed
        BY <3>1, <3>2, <4>1 DEF Past
      <4>2. CASE k = Len(stream[m].replayed) + 1
        BY <2>3, <3>1, <4>2
      <4> QED
        BY <3>1, <4>1, <4>2
    <3>4. Past(stream[m].replayed)'
      BY <1>2, <2>4, <3>3 DEF Past
    <3>5. \A q \in 1..MaxMonitors : q # m => Past(stream[q].replayed)'
      BY <1>2, <2>4 DEF StreamInv, AllPast, Past
    <3>6. Past(history)'
      BY <1>2 DEF StreamInv, AllPast, Past
    <3> QED
      BY <3>4, <3>5, <3>6 DEF AllPast
  <2>13. StreamInOrder'
    <3> SUFFICES ASSUME NEW f \in Fds, first[f] # 0
                 PROVE  /\ Gapless(stream'[first[f]].live)
                        /\ NotOlder(stream'[first[f]].replayed, stream'[first[f]].live)
      BY <1>2 DEF StreamInOrder, Gapless, NotOlder
    <3>1. /\ Gapless(stream[first[f]].live)
          /\ NotOlder(stream[first[f]].replayed, stream[first[f]].live)
      BY InOrderParts DEF StreamInv
    <3>2. CASE first[f] # m
      BY <2>4, <2>6, <3>1, <3>2
    <3>3. CASE first[f] = m
      <4>1. task.client = f
        BY <1>2, <1>5, <2>m, <3>3 DEF StreamInv, OneName
      <4>2. FirstOn(f)
        BY <1>5, <2>m, <3>3, <4>1 DEF FirstOn
      <4>3. stream[m].live = <<>>
        BY <1>2, <3>3, <4>2 DEF StreamInv, Before
      <4> QED
        BY <2>4, <3>3, <4>3 DEF Gapless, NotOlder
    <3> QED
      BY <3>2, <3>3
  <2> QED
    BY <2>7, <2>9, <2>10, <2>11, <2>12, <2>13 DEF StreamInv
<1> QED
  BY <1>4, <1>5

(* Every step.                                                             *)
LEMMA StreamNext ==
  ASSUME Inv, StreamInv, [Next]_vars
  PROVE  StreamInv'
<1>1. ASSUME NEW t \in Loggers, Log(t) \/ Vprintf(t) PROVE StreamInv'
  BY <1>1, StreamSilent, StreamReaches
<1>2. TypeOK /\ ClientInv
  BY DEF Inv
<1>3. ASSUME NEW from, NEW to, TaskGoes(from, to)
      PROVE  task.at = from /\ task'.at = to /\ task'.client = task.client
  BY <1>2, <1>3 DEF TaskGoes, TypeOK
<1>4. CASE ReplayTakes \/ ReplayTimesOut \/ Sets \/ RecvEnds \/ Clears
  <2>1. UNCHANGED <<history, pc, fd, logged, stream, first, monitors, user>>
    BY <1>4 DEF ReplayTakes, ReplayTimesOut, Sets, RecvEnds, Clears, ringVars, logVars, sockVars
  <2>2. /\ task.at # "accept" /\ task'.at # "accept" /\ task'.client = task.client
        /\ \/ s_client_sock' = s_client_sock \/ s_client_sock' = None
           \/ s_client_sock' = task.client /\ task.at = "set"
        /\ task'.at \in {"replay", "send", "set"} =>
              task.at \in {"replay", "send", "set"} /\ s_client_sock' = s_client_sock
    BY <1>3, <1>4 DEF ReplayTakes, ReplayTimesOut, Sets, RecvEnds, Clears, sockVars
  <2> QED
    BY <2>1, <2>2, StreamGoesOn
<1>5. CASE ReplayGives
  <2>1. task.at = "send" /\ task'.at = "set" /\ task'.client = task.client
    BY <1>2, <1>5 DEF ReplayGives, TypeOK
  <2>2. UNCHANGED <<history, pc, fd, logged, stream, first, monitors, user, s_client_sock>>
    BY <1>5 DEF ReplayGives, ringVars, logVars, sockVars
  <2> QED
    BY <2>1, <2>2, StreamGoesOn
<1>6. CASE Closes
  <2>1. /\ task'.at = "accept" /\ task.at = "close"
        /\ UNCHANGED <<history, pc, fd, logged, stream, first, monitors, s_client_sock>>
        /\ \A f \in Fds : user'[f] = IF f = task.client THEN 0 ELSE user[f]
    BY <1>6 DEF Closes, Accepting, Shut, ringVars, logVars
  <2>2. \A f \in Fds : user'[f] = 0
    BY <2>1 DEF StreamInv, OneClient
  <2> QED
    BY <2>1, <2>2, StreamGoesOn
<1>7. CASE UNCHANGED vars
  <2>1. UNCHANGED <<history, pc, fd, logged, stream, first, monitors, user, s_client_sock, task>>
    BY <1>7 DEF vars, ringVars, logVars, sockVars
  <2> QED
    BY <2>1, StreamGoesOn
<1> QED
  BY <1>1, <1>4, <1>5, <1>6, <1>7, StreamAccepts, StreamReplays DEF Next, LogTaskStep

(* Though s_client_sock is read anew for the check, for send and for close *)
(* without a lock, the first monitor on a descriptor hears what a task     *)
(* logs without a gap and nothing that is older than what was replayed: a  *)
(* task that once fails to send to it never sends to it again.             *)
THEOREM StreamsInOrder == Spec => []StreamInOrder
<1>1. Init => StreamInv
  <2> SUFFICES ASSUME Init PROVE StreamInv
    OBVIOUS
  <2>1. /\ task.at = "accept" /\ history = <<>> /\ s_client_sock = None
        /\ \A f \in Fds : user[f] = 0 /\ first[f] = 0
        /\ \A t \in Loggers : fd[t] = None
        /\ \A m \in 1..MaxMonitors : stream[m].live = <<>> /\ stream[m].replayed = <<>>
    BY DEF Init, Accepting
  <2>2. None \notin Fds
    BY SizeAssumption DEF None
  <2>3. OneClient /\ OneName /\ FreshFd
    BY <2>1, <2>2 DEF OneClient, OneName, FreshFd, Unused
  <2>4. Before /\ InStep
    BY <2>1 DEF Before, InStep, FirstOn
  <2>5. AllPast /\ NotYet
    BY <2>1 DEF AllPast, Past, NotYet
  <2>6. StreamInOrder
    BY <2>1 DEF StreamInOrder
  <2> QED
    BY <2>3, <2>4, <2>5, <2>6 DEF StreamInv
<1>2. StreamInv => StreamInOrder
  BY DEF StreamInv
<1> QED
  BY <1>1, <1>2, StreamNext, InvCorrect, PTL DEF Spec

=============================================================================
