--------------------------- MODULE SmsStoreProofs ---------------------------
(* Proofs about SmsStore: for every set of tasks and every box size.       *)
EXTENDS SmsStore, TLAPS

(* Where the elements of a box are after one was added.                    *)
LEMMA AppendIndex ==
  ASSUME NEW S, NEW s \in Seq(S), NEW x \in S
  PROVE  /\ Append(s, x) \in Seq(S)
         /\ Len(Append(s, x)) = Len(s) + 1
         /\ Append(s, x)[Len(s) + 1] = x
         /\ \A i \in 1..Len(s) : Append(s, x)[i] = s[i]
         /\ DOMAIN Append(s, x) = 1..(Len(s) + 1)
         /\ DOMAIN s = 1..Len(s)
         /\ Len(s) \in Nat
  OBVIOUS

(* Dropping the oldest message of a box leaves a shorter box.              *)
LEMMA TailIndex ==
  ASSUME NEW S, NEW s \in Seq(S), s # <<>>
  PROVE  /\ Tail(s) \in Seq(S)
         /\ Len(Tail(s)) = Len(s) - 1
         /\ Len(Tail(s)) \in Nat
         /\ DOMAIN Tail(s) = 1..(Len(s) - 1)
         /\ DOMAIN s = 1..Len(s)
         /\ \A i \in DOMAIN Tail(s) : i + 1 \in DOMAIN s /\ Tail(s)[i] = s[i + 1]
  OBVIOUS

(* Taking one message out of a sequence.                                   *)
LEMMA WithoutIndex ==
  ASSUME NEW S, NEW s \in Seq(S), NEW i \in DOMAIN s
  PROVE  /\ Without(s, i) \in Seq(S)
         /\ Len(Without(s, i)) = Len(s) - 1
         /\ DOMAIN Without(s, i) = 1..(Len(s) - 1)
         /\ \A j \in DOMAIN Without(s, i) :
              /\ j \in DOMAIN s /\ j + 1 \in DOMAIN s
              /\ Without(s, i)[j] = IF j < i THEN s[j] ELSE s[j + 1]
<1>1. DOMAIN s = 1..Len(s) /\ Len(s) \in Nat /\ Len(s) - 1 \in Nat
  OBVIOUS
<1>2. Without(s, i) \in [1..(Len(s) - 1) -> S]
  <2>1. ASSUME NEW j \in 1..(Len(s) - 1) PROVE s[j] \in S /\ s[j + 1] \in S
    BY <1>1
  <2> QED
    BY <2>1 DEF Without
<1>3. \A n \in Nat : \A f \in [1..n -> S] : f \in Seq(S) /\ Len(f) = n
  OBVIOUS
<1>4. \A j \in 1..(Len(s) - 1) : j \in DOMAIN s /\ j + 1 \in DOMAIN s
  BY <1>1
<1> QED
  BY <1>1, <1>2, <1>3, <1>4 DEF Without

(* The initial values are of the right types.                              *)
LEMMA TypeInit == Init => TypeOK
<1> SUFFICES ASSUME Init PROVE TypeOK
  OBVIOUS
<1>1. box \in [Boxes -> Seq(Messages)] /\ \A b \in Boxes : Len(box[b]) <= Max
  BY SizeAssumption DEF Init
<1>2. list \in [open : BOOLEAN, of : Boxes, next : Nat, out : Seq(Messages),
                start : Seq(Messages), evicted : BOOLEAN]
  BY DEF Init, NoListing, Boxes
<1>3. request \in [at : Boxes \cup {"none"}, id : Nat, name : Nat]
  BY DEF Init, NoRequest
<1> QED
  BY <1>1, <1>2, <1>3 DEF Init, TypeOK

(* No task is between making room and counting the message unless it has   *)
(* the mutex; so the box it made room in still has room.                   *)
Holding(t) == pc[t] \in {"number", "count"}

RoomInv ==
  /\ \A t \in Writers : Holding(t) <=> s_mutex = t
  /\ \A t \in Writers : Holding(t) => Len(box[BoxOf(t)]) < Max

(* At first nobody is adding.                                              *)
LEMMA RoomInit == Init => RoomInv
  BY WriterAssumption DEF Init, RoomInv, Holding

(* Every writer adds to one of the two boxes.                              *)
LEMMA BoxOfType == \A t \in Writers : BoxOf(t) \in Boxes
  BY DEF BoxOf, Boxes

(* Every action keeps the types and the bound: a box has room when its     *)
(* writer counts the message, since nobody else adds while it has the      *)
(* mutex.                                                                  *)
LEMMA TypeNext == TypeOK /\ RoomInv /\ [Next]_vars => TypeOK' /\ RoomInv'
<1> SUFFICES ASSUME TypeOK, RoomInv, [Next]_vars PROVE TypeOK' /\ RoomInv'
  OBVIOUS
<1> USE DEF storeVars, httpVars, Goto
<1>1. /\ box \in [Boxes -> Seq(Messages)]
      /\ \A b \in Boxes : Len(box[b]) <= Max /\ Len(box[b]) \in Nat
      /\ pc \in [Writers -> {"idle", "bare", "enter", "number", "count"}]
      /\ loaded \in [Writers -> Nat]
      /\ Max \in Nat \ {0}
      /\ NoTask \notin Writers
  BY SizeAssumption, WriterAssumption DEF TypeOK
<1>2. ASSUME NEW t \in Writers, BareLoad(t) PROVE TypeOK' /\ RoomInv'
  <2>1. \A u \in Writers : Holding(u)' <=> Holding(u)
    BY <1>1, <1>2 DEF BareLoad, Idle, Holding
  <2>2. RoomInv'
    BY <1>2, <2>1 DEF BareLoad, RoomInv
  <2>3. TypeOK'
    BY <1>1, <1>2 DEF BareLoad, TypeOK
  <2> QED
    BY <2>2, <2>3
<1>3. ASSUME NEW t \in Writers, BareStore(t) PROVE TypeOK' /\ RoomInv'
  BY <1>1, <1>3 DEF BareStore, TypeOK, RoomInv, Holding
<1>4. ASSUME NEW t \in Writers, AddBegin(t) PROVE TypeOK' /\ RoomInv'
  <2>1. BoxOf(t) \in Boxes
    BY BoxOfType
  <2>2. ASSUME Len(box[BoxOf(t)]) >= Max
        PROVE  /\ Tail(box[BoxOf(t)]) \in Seq(Messages)
               /\ Len(Tail(box[BoxOf(t)])) < Max
    <3>1. box[BoxOf(t)] \in Seq(Messages) /\ box[BoxOf(t)] # <<>>
      BY <1>1, <2>1, <2>2
    <3> QED
      BY <1>1, <2>1, <3>1, TailIndex
  <2>3. /\ box' \in [Boxes -> Seq(Messages)]
        /\ \A b \in Boxes : Len(box'[b]) <= Max
        /\ Len(box'[BoxOf(t)]) < Max
    <3>1. CASE Len(box[BoxOf(t)]) >= Max
      <4>1. box' = [box EXCEPT ![BoxOf(t)] = Tail(@)]
        BY <1>4, <3>1 DEF AddBegin
      <4> QED
        BY <1>1, <2>1, <2>2, <3>1, <4>1
    <3>2. CASE ~(Len(box[BoxOf(t)]) >= Max)
      <4>1. box' = box
        BY <1>4, <3>2 DEF AddBegin
      <4> QED
        BY <1>1, <2>1, <3>2, <4>1
    <3> QED
      BY <3>1, <3>2
  <2>4. list' \in [open : BOOLEAN, of : Boxes, next : Nat, out : Seq(Messages),
                   start : Seq(Messages), evicted : BOOLEAN]
    BY <1>4 DEF AddBegin, TypeOK
  <2>5. \A u \in Writers : ~Holding(u)
    BY <1>1, <1>4 DEF AddBegin, RoomInv
  <2>6. RoomInv'
    BY <1>1, <1>4, <2>3, <2>5 DEF AddBegin, RoomInv, Holding
  <2> QED
    BY <1>1, <1>4, <2>3, <2>4, <2>6 DEF AddBegin, TypeOK
<1>5. ASSUME NEW t \in Writers, AddNumber(t) PROVE TypeOK' /\ RoomInv'
  BY <1>1, <1>5 DEF AddNumber, TypeOK, RoomInv, Holding
<1>6. ASSUME NEW t \in Writers, AddEnd(t) PROVE TypeOK' /\ RoomInv'
  <2> DEFINE m == [id |-> loaded[t], name |-> adds + 1]
  <2>1. BoxOf(t) \in Boxes /\ m \in Messages /\ adds + 1 \in Nat
    BY <1>1, BoxOfType DEF Messages, TypeOK
  <2>2. Len(box[BoxOf(t)]) < Max /\ s_mutex = t
    BY <1>6 DEF AddEnd, RoomInv, Holding
  <2>3. /\ Append(box[BoxOf(t)], m) \in Seq(Messages)
        /\ Len(Append(box[BoxOf(t)], m)) <= Max
    <3>1. box[BoxOf(t)] \in Seq(Messages)
      BY <1>1, <2>1
    <3> HIDE DEF m
    <3> QED
      BY <1>1, <2>1, <2>2, <3>1, AppendIndex
  <2>4. box' = [box EXCEPT ![BoxOf(t)] = Append(@, m)]
    BY <1>6 DEF AddEnd
  <2>5. box' \in [Boxes -> Seq(Messages)] /\ \A b \in Boxes : Len(box'[b]) <= Max
    <3> HIDE DEF m
    <3> QED
      BY <1>1, <2>1, <2>3, <2>4
  <2>6. RoomInv'
    <3>1. \A u \in Writers : Holding(u) <=> u = t
      BY <1>1, <2>2 DEF RoomInv
    <3> QED
      BY <1>1, <1>6, <3>1 DEF AddEnd, RoomInv, Holding
  <2> QED
    BY <1>1, <1>6, <2>1, <2>5, <2>6 DEF AddEnd, TypeOK
<1>7. ASSUME NEW b \in Boxes, ListBegin(b) PROVE TypeOK' /\ RoomInv'
  BY <1>1, <1>7 DEF ListBegin, TypeOK, RoomInv, Holding
<1>8. CASE ListGet
  <2>1. list' \in [open : BOOLEAN, of : Boxes, next : Nat, out : Seq(Messages),
                   start : Seq(Messages), evicted : BOOLEAN]
    <3>1. /\ list.next \in Nat /\ list.next - 1 \in Nat /\ list.of \in Boxes
          /\ list.out \in Seq(Messages)
      BY <1>8 DEF ListGet, TypeOK
    <3>2. list.next <= Len(box[list.of]) =>
            Append(list.out, box[list.of][list.next]) \in Seq(Messages)
      <4>1. ASSUME list.next <= Len(box[list.of]) PROVE box[list.of][list.next] \in Messages
        <5>1. box[list.of] \in Seq(Messages) /\ list.next \in 1..Len(box[list.of])
          BY <1>1, <1>8, <3>1, <4>1 DEF ListGet
        <5> QED
          BY <5>1
      <4> QED
        BY <3>1, <4>1, AppendIndex
    <3> QED
      BY <1>8, <3>1, <3>2 DEF ListGet, TypeOK
  <2> QED
    BY <1>8, <2>1 DEF ListGet, TypeOK, RoomInv, Holding
<1>9. CASE ListEnd
  BY <1>9 DEF ListEnd, TypeOK, RoomInv, Holding
<1>10. ASSUME NEW m \in Range(list.out), DeleteBegin(m) PROVE TypeOK' /\ RoomInv'
  <2>1. m \in Messages
    BY DEF TypeOK, Range
  <2> QED
    BY <1>10, <2>1 DEF DeleteBegin, TypeOK, RoomInv, Holding, Messages, Boxes
<1>11. ASSUME NEW b \in Boxes, DeleteFrom(b) PROVE TypeOK' /\ RoomInv'
  <2>1. PICK i \in DOMAIN box[b] :
          /\ box' = [box EXCEPT ![b] = Without(@, i)]
          /\ deleted' = deleted \cup {[asked |-> request.name, removed |-> box[b][i].name]}
    BY <1>11 DEF DeleteFrom
  <2>2. box[b][i].name \in Nat /\ request.name \in Nat
    <3>1. box[b][i] \in Messages
      BY <1>1, <2>1
    <3> QED
      BY <3>1 DEF Messages, TypeOK
  <2>3. Without(box[b], i) \in Seq(Messages) /\ Len(Without(box[b], i)) <= Max
    BY <1>1, <2>1, WithoutIndex
  <2>4. box' \in [Boxes -> Seq(Messages)] /\ \A c \in Boxes : Len(box'[c]) <= Max
    BY <1>1, <2>1, <2>3
  <2>5. deleted' \subseteq [asked : Nat, removed : Nat]
    BY <2>1, <2>2 DEF TypeOK
  <2>6. \A u \in Writers : ~Holding(u)
    BY <1>1, <1>11 DEF DeleteFrom, RoomInv
  <2>7. NoRequest \in [at : Boxes \cup {"none"}, id : Nat, name : Nat]
    BY DEF NoRequest
  <2> QED
    BY <1>11, <2>4, <2>5, <2>6, <2>7 DEF DeleteFrom, TypeOK, RoomInv, Holding
<1>12. ASSUME NEW b \in Boxes, DeleteMisses(b) PROVE TypeOK' /\ RoomInv'
  <2>1. request' \in [at : Boxes \cup {"none"}, id : Nat, name : Nat]
    BY <1>12 DEF DeleteMisses, TypeOK, NoRequest, Boxes
  <2> QED
    BY <1>12, <2>1 DEF DeleteMisses, TypeOK, RoomInv, Holding
<1>13. CASE UNCHANGED vars
  BY <1>13 DEF vars, TypeOK, RoomInv, Holding
<1> QED
  BY <1>2, <1>3, <1>4, <1>5, <1>6, <1>7, <1>8, <1>9, <1>10, <1>11, <1>12, <1>13
     DEF Next, Write, Serve

(* The store is always well typed and no box ever holds more than          *)
(* CONFIG_SMS_MAX messages, bare callers of sms_store_next_id or not.      *)
THEOREM TypeCorrect == Spec => []TypeOK
<1>1. Spec => [](TypeOK /\ RoomInv)
  BY TypeInit, RoomInit, TypeNext, PTL DEF Spec
<1> QED
  BY <1>1, PTL

(* The mutex is held exactly by the task that has made room.               *)
LEMMA RoomCorrect == Spec => []RoomInv
<1>1. Spec => [](TypeOK /\ RoomInv)
  BY TypeInit, RoomInit, TypeNext, PTL DEF Spec
<1> QED
  BY <1>1, PTL

-----------------------------------------------------------------------------
(* A message's number is its own as long as the counter is not put back.   *)
(* Inductively: whatever a client or the httpd task has seen, in a box, a  *)
(* listing or a request, has an id below the counter, and below the number *)
(* of the message that is being added; and an id stands for one message.   *)
InBox(r) == \E b \in Boxes : \E i \in DOMAIN box[b] : box[b][i] = r
InListing(r) == \E i \in DOMAIN list.out : list.out[i] = r
Asked(r) == request.at # "none" /\ r = [id |-> request.id, name |-> request.name]

Seen == {r \in Messages : InBox(r) \/ InListing(r) \/ Asked(r)}
SeenBelow(n) == \A r \in Seen : r.id < n

Numbered ==
  /\ SeenBelow(s_id_counter)
  /\ \A t \in Writers : pc[t] = "number" => SeenBelow(loaded[t])
  /\ \A t \in Writers : pc[t] = "count" => SeenBelow(loaded[t]) /\ loaded[t] < s_id_counter

Consistent == \A q, r \in Seen : q.id = r.id => q = r
Hits == \A d \in deleted : d.asked = d.removed

IdInv == ~setback => Numbered /\ Distinct /\ Consistent /\ Hits

(* A box loses messages and keeps the others, in their order.              *)
Shrinks(s, r) ==
  \E f \in [DOMAIN r -> DOMAIN s] :
    /\ \A i \in DOMAIN r : r[i] = s[f[i]] /\ i <= f[i]
    /\ \A i, j \in DOMAIN r : f[i] = f[j] => i = j
    /\ \A i, j \in DOMAIN r : i < j => f[i] < f[j]

(* A box that drops its oldest message only loses messages.                *)
LEMMA TailShrinks ==
  ASSUME NEW S, NEW s \in Seq(S), s # <<>>
  PROVE  Shrinks(s, Tail(s))
<1> DEFINE f == [i \in DOMAIN Tail(s) |-> i + 1]
<1>1. /\ DOMAIN Tail(s) = 1..(Len(s) - 1)
      /\ \A i \in DOMAIN Tail(s) : i + 1 \in DOMAIN s /\ Tail(s)[i] = s[i + 1]
  BY TailIndex
<1>2. f \in [DOMAIN Tail(s) -> DOMAIN s]
  BY <1>1
<1>3. \A i \in DOMAIN Tail(s) : Tail(s)[i] = s[f[i]] /\ i <= f[i]
  BY <1>1
<1>4. \A i, j \in DOMAIN Tail(s) : (f[i] = f[j] => i = j) /\ (i < j => f[i] < f[j])
  BY <1>1
<1> QED
  BY <1>2, <1>3, <1>4 DEF Shrinks

(* A box from which one message is deleted only loses messages.            *)
LEMMA WithoutShrinks ==
  ASSUME NEW S, NEW s \in Seq(S), NEW k \in DOMAIN s
  PROVE  Shrinks(s, Without(s, k))
<1> DEFINE r == Without(s, k)
           f == [i \in DOMAIN r |-> IF i < k THEN i ELSE i + 1]
<1>1. /\ DOMAIN r = 1..(Len(s) - 1) /\ DOMAIN s = 1..Len(s)
      /\ \A i \in DOMAIN r : /\ i \in DOMAIN s /\ i + 1 \in DOMAIN s
                           /\ r[i] = IF i < k THEN s[i] ELSE s[i + 1]
  BY WithoutIndex
<1> HIDE DEF r
<1>2. f \in [DOMAIN r -> DOMAIN s]
  BY <1>1
<1>3. \A i \in DOMAIN r : r[i] = s[f[i]] /\ i <= f[i]
  BY <1>1
<1>4. \A i, j \in DOMAIN r : (f[i] = f[j] => i = j) /\ (i < j => f[i] < f[j])
  BY <1>1
<1>5. Shrinks(s, r)
  BY <1>2, <1>3, <1>4 DEF Shrinks
<1> QED
  BY <1>5 DEF r

(* Losing messages makes no ids equal and brings no message back.          *)
LEMMA ShrinkKeeps ==
  ASSUME NEW b \in Boxes, NEW r, box \in [Boxes -> Seq(Messages)], Shrinks(box[b], r),
         box' = [box EXCEPT ![b] = r]
  PROVE  /\ Distinct => Distinct'
         /\ \A q : InBox(q)' => InBox(q)
<1>1. PICK f \in [DOMAIN r -> DOMAIN box[b]] :
        /\ \A i \in DOMAIN r : r[i] = box[b][f[i]]
        /\ \A i, j \in DOMAIN r : f[i] = f[j] => i = j
  BY DEF Shrinks
<1>2. box'[b] = r /\ \A c \in Boxes : c # b => box'[c] = box[c]
  OBVIOUS
<1>3. Distinct => Distinct'
  BY <1>1, <1>2 DEF Distinct
<1>4. \A q : InBox(q)' => InBox(q)
  <2> SUFFICES ASSUME NEW q, NEW c \in Boxes, NEW i \in DOMAIN box'[c], box'[c][i] = q
               PROVE  InBox(q)
    BY DEF InBox
  <2>1. CASE c = b
    BY <1>1, <1>2, <2>1 DEF InBox
  <2>2. CASE c # b
    BY <1>2, <2>2 DEF InBox
  <2> QED
    BY <2>1, <2>2
<1> QED
  BY <1>3, <1>4

(* A step that shows nothing new and starts no numbering keeps the numbers.*)
LEMMA NothingNew ==
  ASSUME Seen' \subseteq Seen, Numbered, Consistent,
         pc' = pc, loaded' = loaded, s_id_counter' = s_id_counter
  PROVE  Numbered' /\ Consistent'
  BY DEF Numbered, Consistent, SeenBelow

(* Each action keeps ids below the counter and apart from each other.      *)
LEMMA IdNext ==
  ASSUME TypeOK, RoomInv, IdInv, [Next]_vars
  PROVE  IdInv'
<1> USE DEF storeVars, httpVars, Goto
<1>1. /\ box \in [Boxes -> Seq(Messages)]
      /\ pc \in [Writers -> {"idle", "bare", "enter", "number", "count"}]
      /\ loaded \in [Writers -> Nat]
      /\ s_id_counter \in Nat
      /\ NoTask \notin Writers
      /\ \A b \in Boxes : \A i \in DOMAIN box[b] : box[b][i] \in Messages
      /\ \A i \in DOMAIN list.out : list.out[i] \in Messages
  BY WriterAssumption DEF TypeOK
<1>2. \A t \in Writers : pc[t] \in {"number", "count"} <=> s_mutex = t
  BY DEF RoomInv, Holding
<1>3. Seen \subseteq Messages /\ \A r \in Seen : r.id \in Nat
  BY DEF Seen, Messages
<1>4. SUFFICES ASSUME ~setback'
               PROVE  Numbered' /\ Distinct' /\ Consistent' /\ Hits'
  BY DEF IdInv
<1>5. ~setback
  BY <1>4 DEF Next, Write, Serve, vars, BareLoad, BareStore, AddBegin, AddNumber, AddEnd,
              ListBegin, ListGet, ListEnd, DeleteBegin, DeleteFrom, DeleteMisses
<1>6. Numbered /\ Distinct /\ Consistent /\ Hits
  BY <1>5 DEF IdInv
<1>7. ASSUME NEW t \in Writers, BareLoad(t) PROVE Numbered' /\ Distinct' /\ Consistent' /\ Hits'
  <2>1. /\ box' = box /\ list' = list /\ request' = request /\ deleted' = deleted
        /\ s_id_counter' = s_id_counter
        /\ pc' = [pc EXCEPT ![t] = "bare"] /\ loaded' = [loaded EXCEPT ![t] = s_id_counter]
    BY <1>7 DEF BareLoad
  <2>2. Seen' = Seen
    BY <2>1 DEF Seen, InBox, InListing, Asked
  <2>3. \A u \in Writers : pc'[u] \in {"number", "count"} => u # t /\ pc'[u] = pc[u] /\ loaded'[u] = loaded[u]
    BY <1>1, <2>1
  <2>4. Numbered' /\ Consistent'
    BY <1>6, <2>1, <2>2, <2>3 DEF Numbered, Consistent, SeenBelow
  <2> QED
    BY <1>6, <2>1, <2>4 DEF Distinct, Hits
<1>8. ASSUME NEW t \in Writers, BareStore(t) PROVE Numbered' /\ Distinct' /\ Consistent' /\ Hits'
  <2>1. /\ box' = box /\ list' = list /\ request' = request /\ deleted' = deleted
        /\ loaded' = loaded /\ pc' = [pc EXCEPT ![t] = "enter"]
        /\ s_id_counter' = loaded[t] + 1
    BY <1>8 DEF BareStore
  <2>2. Seen' = Seen
    BY <2>1 DEF Seen, InBox, InListing, Asked
  <2>3. s_id_counter' >= s_id_counter /\ s_id_counter' \in Nat
    <3>1. ~(loaded[t] + 1 < s_id_counter)
      BY <1>4, <1>8 DEF BareStore
    <3> QED
      BY <1>1, <2>1, <3>1
  <2>4. \A u \in Writers : pc'[u] \in {"number", "count"} => pc'[u] = pc[u]
    BY <1>1, <2>1
  <2>5. Numbered' /\ Consistent'
    BY <1>1, <1>3, <1>6, <2>1, <2>2, <2>3, <2>4 DEF Numbered, Consistent, SeenBelow
  <2> QED
    BY <1>6, <2>1, <2>5 DEF Distinct, Hits
<1>9. ASSUME NEW t \in Writers, AddBegin(t) PROVE Numbered' /\ Distinct' /\ Consistent' /\ Hits'
  <2>1. BoxOf(t) \in Boxes
    BY BoxOfType
  <2>2. Distinct' /\ (\A q : InBox(q)' => InBox(q))
    <3>1. CASE Len(box[BoxOf(t)]) >= Max
      <4>1. box' = [box EXCEPT ![BoxOf(t)] = Tail(@)]
        BY <1>9, <3>1 DEF AddBegin
      <4>2. box[BoxOf(t)] \in Seq(Messages) /\ box[BoxOf(t)] # <<>>
        BY <1>1, <2>1, <3>1, SizeAssumption
      <4>3. Shrinks(box[BoxOf(t)], Tail(box[BoxOf(t)]))
        BY <4>2, TailShrinks
      <4>4. box' = [box EXCEPT ![BoxOf(t)] = Tail(box[BoxOf(t)])]
        BY <4>1
      <4> QED
        BY <1>1, <1>6, <2>1, <4>3, <4>4, ShrinkKeeps
    <3>2. CASE ~(Len(box[BoxOf(t)]) >= Max)
      <4>1. box' = box
        BY <1>9, <3>2 DEF AddBegin
      <4> QED
        BY <1>6, <4>1 DEF Distinct, InBox
    <3> QED
      BY <3>1, <3>2
  <2>3. \A u \in Writers : pc[u] \notin {"number", "count"}
    BY <1>1, <1>2, <1>9 DEF AddBegin
  <2>4. /\ s_id_counter' = s_id_counter
        /\ loaded' = [loaded EXCEPT ![t] = s_id_counter]
        /\ pc' = [pc EXCEPT ![t] = "number"]
        /\ request' = request /\ deleted' = deleted
    BY <1>9 DEF AddBegin
  <2>5. list'.out = list.out
    BY <1>9 DEF AddBegin, TypeOK
  <2>6. Seen' \subseteq Seen
    BY <2>2, <2>4, <2>5 DEF Seen, InListing, Asked
  <2>7. Numbered' /\ Consistent'
    BY <1>1, <1>6, <2>3, <2>4, <2>6 DEF Numbered, Consistent, SeenBelow
  <2> QED
    BY <1>6, <2>2, <2>4, <2>7 DEF Hits
<1>10. ASSUME NEW t \in Writers, AddNumber(t) PROVE Numbered' /\ Distinct' /\ Consistent' /\ Hits'
  <2>1. /\ box' = box /\ list' = list /\ request' = request /\ deleted' = deleted
        /\ loaded' = loaded /\ pc' = [pc EXCEPT ![t] = "count"] /\ pc[t] = "number"
        /\ s_id_counter' = loaded[t] + 1
    BY <1>10 DEF AddNumber
  <2>2. Seen' = Seen
    BY <2>1 DEF Seen, InBox, InListing, Asked
  <2>3. \A u \in Writers : u # t => pc[u] \notin {"number", "count"}
    BY <1>2, <2>1
  <2>4. SeenBelow(loaded[t]) /\ loaded[t] \in Nat
    BY <1>1, <1>6, <2>1 DEF Numbered
  <2>5. \A r \in Seen : r.id < loaded[t] + 1
    BY <1>3, <2>4 DEF SeenBelow
  <2>6. Numbered' /\ Consistent'
    BY <1>1, <1>6, <2>1, <2>2, <2>3, <2>4, <2>5 DEF Numbered, Consistent, SeenBelow
  <2> QED
    BY <1>6, <2>1, <2>6 DEF Distinct, Hits
<1>11. ASSUME NEW t \in Writers, AddEnd(t) PROVE Numbered' /\ Distinct' /\ Consistent' /\ Hits'
  <2> DEFINE m == [id |-> loaded[t], name |-> adds + 1]
             c == BoxOf(t)
  <2>1. c \in Boxes /\ m \in Messages /\ m.id = loaded[t] /\ loaded[t] \in Nat
    BY <1>1, BoxOfType DEF Messages, TypeOK
  <2>2. /\ box' = [box EXCEPT ![c] = Append(box[c], m)]
        /\ s_id_counter' = s_id_counter /\ loaded' = loaded
        /\ pc' = [pc EXCEPT ![t] = "idle"]
        /\ list' = list /\ request' = request /\ deleted' = deleted
        /\ pc[t] = "count"
    BY <1>11 DEF AddEnd
  <2>3. \A u \in Writers : u # t => pc[u] \notin {"number", "count"}
    BY <1>2, <2>2
  <2>4. SeenBelow(loaded[t]) /\ loaded[t] < s_id_counter
    BY <1>6, <2>2 DEF Numbered
  <2> HIDE DEF m, c
  <2>5. /\ DOMAIN box'[c] = 1..(Len(box[c]) + 1) /\ DOMAIN box[c] = 1..Len(box[c])
        /\ \A i \in DOMAIN box[c] : box'[c][i] = box[c][i]
        /\ box'[c][Len(box[c]) + 1] = m
        /\ \A b \in Boxes : b # c => box'[b] = box[b]
        /\ Len(box[c]) \in Nat
    <3>1. box[c] \in Seq(Messages)
      BY <1>1, <2>1
    <3>2. box'[c] = Append(box[c], m) /\ \A b \in Boxes : b # c => box'[b] = box[b]
      BY <1>1, <2>1, <2>2
    <3> QED
      BY <2>1, <3>1, <3>2, AppendIndex
  <2>6. \A b \in Boxes : \A i \in DOMAIN box'[b] :
          \/ b = c /\ i = Len(box[c]) + 1 /\ box'[b][i] = m
          \/ i \in DOMAIN box[b] /\ box'[b][i] = box[b][i]
    BY <2>1, <2>5
  <2>7. \A b \in Boxes : \A i \in DOMAIN box[b] : box[b][i].id \in Nat /\ box[b][i].id < loaded[t]
    <3>1. \A b \in Boxes : \A i \in DOMAIN box[b] : box[b][i] \in Seen
      BY <1>1 DEF Seen, InBox
    <3> QED
      BY <1>3, <2>4, <3>1 DEF SeenBelow
  <2>8. Distinct'
    <3> SUFFICES ASSUME NEW b \in Boxes, NEW d \in Boxes,
                        NEW i \in DOMAIN box'[b], NEW j \in DOMAIN box'[d],
                        box'[b][i].id = box'[d][j].id
                 PROVE  b = d /\ i = j
      BY DEF Distinct
    <3>1. CASE b = c /\ i = Len(box[c]) + 1 /\ box'[b][i] = m
      <4>1. ~(j \in DOMAIN box[d] /\ box'[d][j] = box[d][j])
        BY <2>1, <2>7, <3>1
      <4> QED
        BY <2>6, <3>1, <4>1
    <3>2. CASE i \in DOMAIN box[b] /\ box'[b][i] = box[b][i]
      <4>1. box'[d][j] # m
        BY <2>1, <2>7, <3>2
      <4>2. j \in DOMAIN box[d] /\ box'[d][j] = box[d][j]
        BY <2>6, <4>1
      <4> QED
        BY <1>6, <3>2, <4>2 DEF Distinct
    <3> QED
      BY <2>6, <3>1, <3>2
  <2>9. Seen' \subseteq Seen \cup {m}
    <3>1. \A r : InBox(r)' => r = m \/ InBox(r)
      BY <2>6 DEF InBox
    <3> QED
      BY <2>2, <3>1 DEF Seen, InListing, Asked
  <2>10. Consistent'
    <3>1. \A r \in Seen : r.id # m.id
      BY <1>3, <2>1, <2>4 DEF SeenBelow
    <3> QED
      BY <1>6, <2>9, <3>1 DEF Consistent
  <2>11. Numbered'
    <3>1. \A r \in Seen' : r.id < s_id_counter
      BY <1>1, <1>6, <2>1, <2>4, <2>9 DEF Numbered, SeenBelow
    <3>2. \A u \in Writers : pc'[u] \notin {"number", "count"}
      BY <1>1, <2>2, <2>3
    <3> QED
      BY <2>2, <3>1, <3>2 DEF Numbered, SeenBelow
  <2> QED
    BY <1>6, <2>2, <2>8, <2>10, <2>11 DEF Hits
<1>12. ASSUME NEW b \in Boxes, ListBegin(b) PROVE Numbered' /\ Distinct' /\ Consistent' /\ Hits'
  <2>1. /\ box' = box /\ request' = request /\ list'.out = <<>> /\ deleted' = deleted
        /\ pc' = pc /\ loaded' = loaded /\ s_id_counter' = s_id_counter
    BY <1>12 DEF ListBegin
  <2>2. Seen' \subseteq Seen
    BY <2>1 DEF Seen, InBox, InListing, Asked
  <2> QED
    BY <1>6, <2>1, <2>2, NothingNew DEF Distinct, Hits
<1>13. CASE ListGet
  <2>1. /\ box' = box /\ request' = request /\ deleted' = deleted
        /\ pc' = pc /\ loaded' = loaded /\ s_id_counter' = s_id_counter
    BY <1>13 DEF ListGet
  <2>2. \A r : InListing(r)' => InListing(r) \/ InBox(r)
    <3>1. CASE list.next <= Len(box[list.of])
      <4> DEFINE q == box[list.of][list.next]
      <4>1. list.of \in Boxes /\ list.next \in DOMAIN box[list.of] /\ list.out \in Seq(Messages)
        <5>1. list.of \in Boxes /\ list.next \in Nat /\ list.next > 0 /\ list.out \in Seq(Messages)
          BY <1>13 DEF ListGet, TypeOK
        <5>2. box[list.of] \in Seq(Messages)
          BY <1>1, <5>1
        <5> QED
          BY <3>1, <5>1, <5>2
      <4>2. InBox(q) /\ q \in Messages
        BY <1>1, <4>1 DEF InBox
      <4>3. list'.out = Append(list.out, q)
        BY <1>13, <3>1 DEF ListGet, TypeOK
      <4> HIDE DEF q
      <4>4. \A i \in DOMAIN list'.out : list'.out[i] = q \/ (i \in DOMAIN list.out /\ list'.out[i] = list.out[i])
        BY <4>1, <4>2, <4>3, AppendIndex
      <4> QED
        BY <4>2, <4>4 DEF InListing
    <3>2. CASE ~(list.next <= Len(box[list.of]))
      <4>1. list'.out = list.out
        BY <1>13, <3>2 DEF ListGet, TypeOK
      <4> QED
        BY <4>1 DEF InListing
    <3> QED
      BY <3>1, <3>2
  <2>3. Seen' \subseteq Seen
    BY <2>1, <2>2 DEF Seen, InBox, Asked
  <2> QED
    BY <1>6, <2>1, <2>3, NothingNew DEF Distinct, Hits
<1>14. CASE ListEnd
  <2>1. /\ box' = box /\ request' = request /\ deleted' = deleted /\ list'.out = list.out
        /\ pc' = pc /\ loaded' = loaded /\ s_id_counter' = s_id_counter
    BY <1>14 DEF ListEnd, TypeOK
  <2>2. Seen' \subseteq Seen
    BY <2>1 DEF Seen, InBox, InListing, Asked
  <2> QED
    BY <1>6, <2>1, <2>2, NothingNew DEF Distinct, Hits
<1>15. ASSUME NEW m \in Range(list.out), DeleteBegin(m)
       PROVE  Numbered' /\ Distinct' /\ Consistent' /\ Hits'
  <2>1. /\ box' = box /\ list' = list /\ deleted' = deleted
        /\ request' = [at |-> "inbox", id |-> m.id, name |-> m.name]
        /\ pc' = pc /\ loaded' = loaded /\ s_id_counter' = s_id_counter
    BY <1>15 DEF DeleteBegin
  <2>2. m \in Messages /\ InListing(m)
    BY <1>1 DEF InListing, Range
  <2>3. m = [id |-> m.id, name |-> m.name]
    BY <2>2 DEF Messages
  <2>4. \A r : Asked(r)' => r = m
    BY <2>1, <2>3 DEF Asked
  <2>5. Seen' \subseteq Seen
    BY <2>1, <2>2, <2>4 DEF Seen, InBox, InListing
  <2> QED
    BY <1>6, <2>1, <2>5, NothingNew DEF Distinct, Hits
<1>16. ASSUME NEW b \in Boxes, DeleteFrom(b) PROVE Numbered' /\ Distinct' /\ Consistent' /\ Hits'
  <2>1. PICK i \in DOMAIN box[b] :
          /\ box[b][i].id = request.id
          /\ box' = [box EXCEPT ![b] = Without(@, i)]
          /\ deleted' = deleted \cup {[asked |-> request.name, removed |-> box[b][i].name]}
    BY <1>16 DEF DeleteFrom
  <2>2. /\ request.at = b /\ request'.at = "none" /\ list' = list
        /\ pc' = pc /\ loaded' = loaded /\ s_id_counter' = s_id_counter
    BY <1>16 DEF DeleteFrom, NoRequest
  <2>3. Distinct' /\ \A q : InBox(q)' => InBox(q)
    <3>1. Shrinks(box[b], Without(box[b], i))
      BY <1>1, <2>1, WithoutShrinks
    <3>2. box' = [box EXCEPT ![b] = Without(box[b], i)]
      BY <2>1
    <3> QED
      BY <1>1, <1>6, <3>1, <3>2, ShrinkKeeps
  <2>4. Seen' \subseteq Seen
    BY <2>2, <2>3 DEF Seen, InListing, Asked
  <2>5. request.name = box[b][i].name
    <3> DEFINE asked == [id |-> request.id, name |-> request.name]
    <3>1. asked \in Messages /\ box[b][i] \in Messages
      BY <1>1, <2>1 DEF Messages, TypeOK
    <3>2. asked \in Seen /\ box[b][i] \in Seen
      BY <2>1, <2>2, <3>1 DEF Seen, InBox, Asked, Boxes
    <3>3. asked.id = box[b][i].id
      BY <2>1
    <3>4. asked = box[b][i]
      BY <1>6, <3>2, <3>3 DEF Consistent
    <3> QED
      BY <3>4
  <2>6. Hits'
    BY <1>6, <2>1, <2>5 DEF Hits
  <2> QED
    BY <1>6, <2>2, <2>3, <2>4, <2>6, NothingNew
<1>17. ASSUME NEW b \in Boxes, DeleteMisses(b) PROVE Numbered' /\ Distinct' /\ Consistent' /\ Hits'
  <2>1. /\ box' = box /\ list' = list /\ deleted' = deleted
        /\ pc' = pc /\ loaded' = loaded /\ s_id_counter' = s_id_counter
        /\ request.at = b
    BY <1>17 DEF DeleteMisses
  <2>2. \/ request'.at = "none"
        \/ request'.id = request.id /\ request'.name = request.name
    BY <1>17 DEF DeleteMisses, TypeOK, NoRequest
  <2>3. \A r : Asked(r)' => Asked(r)
    BY <2>1, <2>2 DEF Asked, Boxes
  <2>4. Seen' \subseteq Seen
    BY <2>1, <2>3 DEF Seen, InBox, InListing
  <2> QED
    BY <1>6, <2>1, <2>4, NothingNew DEF Distinct, Hits
<1>18. CASE UNCHANGED vars
  <2>1. Seen' = Seen
    BY <1>18 DEF vars, Seen, InBox, InListing, Asked
  <2> QED
    BY <1>6, <1>18, <2>1, NothingNew DEF vars, Distinct, Hits
<1> QED
  BY <1>7, <1>8, <1>9, <1>10, <1>11, <1>12, <1>13, <1>14, <1>15, <1>16, <1>17, <1>18
     DEF Next, Write, Serve

(* At first nothing has been seen.                                         *)
LEMMA IdInit == Init => IdInv
  BY DEF Init, IdInv, Numbered, SeenBelow, Seen, InBox, InListing, Asked, NoListing,
         NoRequest, Distinct, Consistent, Hits

(* What is shown inductively.                                              *)
LEMMA IdCorrect == Spec => []IdInv
  BY IdInit, IdNext, TypeCorrect, RoomCorrect, PTL DEF Spec

(* As long as sms_store_next_id, called without the mutex, has not put the *)
(* counter back, no two stored messages ever share an id.                  *)
THEOREM IdsUnique == Spec => []UniqueIds
<1>1. IdInv => UniqueIds
  BY DEF IdInv, UniqueIds
<1> QED
  BY <1>1, IdCorrect, PTL

(* And a DELETE by id removes the message that was listed under the id, or *)
(* none, whatever came, went or was pushed out since the listing.          *)
THEOREM DeleteHits == Spec => []DeleteHitsTarget
<1>1. IdInv => DeleteHitsTarget
  BY DEF IdInv, Hits, DeleteHitsTarget
<1> QED
  BY <1>1, IdCorrect, PTL

-----------------------------------------------------------------------------
(* Listings.  Names are given in the order of arrival, so a box is sorted  *)
(* by them, and what a box has pushed out never comes back.                *)
Ordered ==
  /\ \A b \in Boxes : \A i, j \in DOMAIN box[b] : i < j => box[b][i].name < box[b][j].name
  /\ \A b \in Boxes : \A i \in DOMAIN box[b] : box[b][i].name <= adds
  /\ \A i \in DOMAIN list.start : list.start[i].name <= adds
  /\ list.open => request.at = "none"

Shown(r) == InListing(r)
Was(r) == \E i \in DOMAIN list.start : list.start[i] = r

(* What the listing has still to show is below the index it reads next; an *)
(* eviction only moves it further down.                                    *)
StillToShow ==
  \A k \in DOMAIN box[list.of] :
    Was(box[list.of][k]) =>
      \/ Shown(box[list.of][k])
      \/ list.open /\ k <= list.next
      \/ ~list.open /\ Len(list.out) >= ListRoom

(* And unless something was evicted, it is older than what has been shown. *)
NewestFirst ==
  ~list.evicted =>
    /\ \A i, j \in DOMAIN list.out : i < j => list.out[i].name > list.out[j].name
    /\ list.open =>
         /\ list.next <= Len(box[list.of])
         /\ \A i \in DOMAIN list.out, k \in DOMAIN box[list.of] :
              k <= list.next => box[list.of][k].name < list.out[i].name

ListInv == Ordered /\ StillToShow /\ NewestFirst

(* Losing messages keeps a box in order.                                   *)
LEMMA ShrinkOrdered ==
  ASSUME TypeOK, Ordered, NEW b \in Boxes, NEW r, Shrinks(box[b], r), box' = [box EXCEPT ![b] = r]
  PROVE  /\ \A c \in Boxes : \A i, j \in DOMAIN box'[c] : i < j => box'[c][i].name < box'[c][j].name
         /\ \A c \in Boxes : \A i \in DOMAIN box'[c] : box'[c][i].name <= adds
         /\ \A c \in Boxes : \A i \in DOMAIN box'[c] :
              \E k \in DOMAIN box[c] : box[c][k] = box'[c][i] /\ i <= k
<1>1. PICK f \in [DOMAIN r -> DOMAIN box[b]] :
        /\ \A i \in DOMAIN r : r[i] = box[b][f[i]] /\ i <= f[i]
        /\ \A i, j \in DOMAIN r : i < j => f[i] < f[j]
  BY DEF Shrinks
<1>2. box'[b] = r /\ \A c \in Boxes : c # b => box'[c] = box[c]
  BY DEF TypeOK
<1>3. \A c \in Boxes : \A i \in DOMAIN box[c] : i <= i
  BY DEF TypeOK
<1> QED
  BY <1>1, <1>2, <1>3 DEF Ordered

(* At first there is neither a listing nor a message.                      *)
LEMMA ListInit == Init => ListInv
  BY DEF Init, ListInv, Ordered, StillToShow, NewestFirst, NoListing, NoRequest, Was, Boxes

(* Each action keeps the boxes sorted and the listing on its way.          *)
LEMMA ListNext ==
  ASSUME TypeOK, TypeOK', ListInv, [Next]_vars
  PROVE  ListInv'
<1> USE DEF storeVars, httpVars, Goto
<1>1. /\ box \in [Boxes -> Seq(Messages)]
      /\ adds \in Nat /\ list.next \in Nat /\ list.of \in Boxes
      /\ list.out \in Seq(Messages) /\ list.start \in Seq(Messages)
      /\ \A b \in Boxes : Len(box[b]) \in Nat /\ DOMAIN box[b] = 1..Len(box[b])
      /\ \A b \in Boxes : \A i \in DOMAIN box[b] : box[b][i].name \in Nat
  <2>1. box \in [Boxes -> Seq(Messages)]
    BY DEF TypeOK
  <2>2. \A b \in Boxes : \A i \in DOMAIN box[b] : box[b][i] \in Messages
    BY <2>1
  <2>3. \A b \in Boxes : \A i \in DOMAIN box[b] : box[b][i].name \in Nat
    BY <2>2 DEF Messages
  <2>4. adds \in Nat /\ list.next \in Nat /\ list.of \in Boxes
    BY DEF TypeOK
  <2>5. list.out \in Seq(Messages) /\ list.start \in Seq(Messages)
    BY DEF TypeOK
  <2>6. \A b \in Boxes : Len(box[b]) \in Nat /\ DOMAIN box[b] = 1..Len(box[b])
    BY <2>1
  <2> QED
    BY <2>1, <2>3, <2>4, <2>5, <2>6
<1>2. Ordered /\ StillToShow /\ NewestFirst
  BY DEF ListInv
<1>3. ASSUME box' = box, adds' = adds, list' = list, request' = request PROVE ListInv'
  BY <1>3 DEF ListInv, Ordered, StillToShow, NewestFirst, Was, Shown, InListing
<1>4. ASSUME NEW t \in Writers, BareLoad(t) \/ BareStore(t) \/ AddNumber(t) PROVE ListInv'
  BY <1>3, <1>4 DEF BareLoad, BareStore, AddNumber
<1>5. ASSUME NEW t \in Writers, AddBegin(t) PROVE ListInv'
  <2>1. BoxOf(t) \in Boxes /\ adds' = adds /\ request' = request
    BY <1>5, BoxOfType DEF AddBegin
  <2>2. CASE Len(box[BoxOf(t)]) >= Max
    <3> DEFINE b == BoxOf(t)
    <3>1. /\ box' = [box EXCEPT ![b] = Tail(box[b])]
          /\ list' = IF list.open /\ list.of = b THEN [list EXCEPT !.evicted = TRUE] ELSE list
      BY <1>5, <2>2 DEF AddBegin
    <3>2. Shrinks(box[b], Tail(box[b]))
      <4>1. box[b] \in Seq(Messages) /\ box[b] # <<>>
        BY <1>1, <2>1, <2>2, SizeAssumption
      <4> QED
        BY <4>1, TailShrinks
    <3> HIDE DEF b
    <3>3. b \in Boxes
      BY <2>1 DEF b
    <3>4. /\ list'.open = list.open /\ list'.of = list.of /\ list'.next = list.next
          /\ list'.out = list.out /\ list'.start = list.start
          /\ ~list'.evicted => ~list.evicted /\ ~(list.open /\ list.of = b)
      BY <3>1 DEF TypeOK
    <3>5. /\ \A c \in Boxes : \A i, j \in DOMAIN box'[c] : i < j => box'[c][i].name < box'[c][j].name
          /\ \A c \in Boxes : \A i \in DOMAIN box'[c] : box'[c][i].name <= adds
          /\ \A c \in Boxes : \A i \in DOMAIN box'[c] :
               \E k \in DOMAIN box[c] : box[c][k] = box'[c][i] /\ i <= k
      BY <1>2, <3>1, <3>2, <3>3, ShrinkOrdered
    <3>6. Ordered'
      BY <1>2, <2>1, <3>4, <3>5 DEF Ordered
    <3>7. StillToShow'
      <4> SUFFICES ASSUME NEW i \in DOMAIN box'[list.of], Was(box'[list.of][i])
                   PROVE  \/ Shown(box'[list.of][i])
                          \/ list.open /\ i <= list.next
                          \/ ~list.open /\ Len(list.out) >= ListRoom
        BY <3>4 DEF StillToShow, Was, Shown, InListing
      <4>1. PICK k \in DOMAIN box[list.of] : box[list.of][k] = box'[list.of][i] /\ i <= k
        BY <1>1, <3>5
      <4>2. i \in Nat /\ k \in Nat
        <5>1. box'[list.of] \in Seq(Messages)
          BY <1>1 DEF TypeOK
        <5>2. i \in 1..Len(box'[list.of]) /\ Len(box'[list.of]) \in Nat
          BY <5>1
        <5> QED
          BY <1>1, <4>1, <5>2
      <4> QED
        BY <1>1, <1>2, <4>1, <4>2 DEF StillToShow
    <3>8. NewestFirst'
      <4>1. CASE list.open /\ list.of = b
        BY <3>4, <4>1 DEF NewestFirst
      <4>2. CASE ~list.open
        BY <1>2, <3>4, <4>2 DEF NewestFirst
      <4>3. CASE list.of # b
        <5>1. box'[list.of] = box[list.of]
          BY <1>1, <3>1, <3>3, <4>3
        <5> QED
          BY <1>2, <3>4, <5>1 DEF NewestFirst
      <4> QED
        BY <4>1, <4>2, <4>3
    <3> QED
      BY <3>6, <3>7, <3>8 DEF ListInv
  <2>3. CASE ~(Len(box[BoxOf(t)]) >= Max)
    <3>1. box' = box /\ list' = list
      BY <1>5, <2>3 DEF AddBegin
    <3> QED
      BY <1>3, <2>1, <3>1
  <2> QED
    BY <2>2, <2>3
<1>6. ASSUME NEW t \in Writers, AddEnd(t) PROVE ListInv'
  <2> DEFINE m == [id |-> loaded[t], name |-> adds + 1]
             c == BoxOf(t)
  <2>1. c \in Boxes /\ m \in Messages /\ m.name = adds + 1
    BY <1>1, BoxOfType DEF Messages, TypeOK
  <2>2. /\ box' = [box EXCEPT ![c] = Append(box[c], m)]
        /\ adds' = adds + 1 /\ list' = list /\ request' = request
    BY <1>6 DEF AddEnd
  <2> HIDE DEF m, c
  <2>3. /\ DOMAIN box'[c] = 1..(Len(box[c]) + 1) /\ Len(box'[c]) = Len(box[c]) + 1
        /\ \A i \in DOMAIN box[c] : box'[c][i] = box[c][i]
        /\ box'[c][Len(box[c]) + 1] = m
        /\ \A b \in Boxes : b # c => box'[b] = box[b]
    <3>1. box[c] \in Seq(Messages)
      BY <1>1, <2>1
    <3>2. box'[c] = Append(box[c], m) /\ \A b \in Boxes : b # c => box'[b] = box[b]
      BY <1>1, <2>1, <2>2
    <3> QED
      BY <2>1, <3>1, <3>2, AppendIndex
  <2>4. \A b \in Boxes : \A i \in DOMAIN box'[b] :
          \/ b = c /\ i = Len(box[c]) + 1 /\ box'[b][i] = m
          \/ i \in DOMAIN box[b] /\ box'[b][i] = box[b][i]
    BY <1>1, <2>1, <2>3
  <2>5. Ordered'
    <3>1. ASSUME NEW b \in Boxes, NEW i \in DOMAIN box'[b]
          PROVE  box'[b][i].name <= adds + 1
      <4>1. CASE box'[b][i] = m
        BY <1>1, <2>1, <4>1
      <4>2. CASE i \in DOMAIN box[b] /\ box'[b][i] = box[b][i]
        <5>1. box[b][i].name \in Nat /\ adds \in Nat
          BY <1>1, <4>2
        <5>2. box[b][i].name <= adds
          BY <1>2, <4>2 DEF Ordered
        <5> QED
          BY <4>2, <5>1, <5>2
      <4> QED
        BY <2>4, <4>1, <4>2
    <3>2. ASSUME NEW b \in Boxes, NEW i \in DOMAIN box'[b], NEW j \in DOMAIN box'[b], i < j
          PROVE  box'[b][i].name < box'[b][j].name
      <4>1. i \in DOMAIN box[b] /\ box'[b][i] = box[b][i]
        BY <1>1, <2>1, <2>3, <2>4, <3>2
      <4>2. CASE j \in DOMAIN box[b] /\ box'[b][j] = box[b][j]
        BY <1>2, <3>2, <4>1, <4>2 DEF Ordered
      <4>3. CASE box'[b][j] = m
        BY <1>1, <1>2, <2>1, <4>1, <4>3 DEF Ordered
      <4> QED
        BY <2>4, <4>2, <4>3
    <3>3. \A i \in DOMAIN list.start : list.start[i].name <= adds + 1
      <4>1. \A i \in DOMAIN list.start : list.start[i].name \in Nat
        <5>1. \A i \in DOMAIN list.start : list.start[i] \in Messages
          BY <1>1
        <5> QED
          BY <5>1 DEF Messages
      <4> QED
        BY <1>1, <1>2, <4>1 DEF Ordered
    <3> QED
      BY <1>2, <2>2, <3>1, <3>2, <3>3 DEF Ordered
  <2>6. StillToShow'
    <3>1. ~Was(m)
      <4>1. \A i \in DOMAIN list.start : list.start[i].name # adds + 1
        <5>1. \A i \in DOMAIN list.start : list.start[i] \in Messages
          BY <1>1
        <5> QED
          BY <1>1, <1>2, <5>1 DEF Ordered, Messages
      <4> QED
        BY <2>1, <4>1 DEF Was
    <3>2. \A i \in DOMAIN box'[list.of] :
            Was(box'[list.of][i]) => i \in DOMAIN box[list.of] /\ box'[list.of][i] = box[list.of][i]
      BY <1>1, <2>4, <3>1
    <3> QED
      BY <1>2, <2>2, <3>2 DEF StillToShow, Was, Shown, InListing
  <2>7. NewestFirst'
    <3> SUFFICES ASSUME ~list.evicted PROVE NewestFirst'
      BY <2>2 DEF NewestFirst
    <3>1. CASE ~list.open
      BY <1>2, <2>2, <3>1 DEF NewestFirst
    <3>2. CASE list.open
      <4>1. list.next <= Len(box[list.of]) /\ Len(box[list.of]) <= Len(box'[list.of])
        BY <1>1, <1>2, <2>1, <2>3, <3>2 DEF NewestFirst
      <4>2. \A k \in DOMAIN box'[list.of] : k <= list.next =>
              k \in DOMAIN box[list.of] /\ box'[list.of][k] = box[list.of][k]
        BY <1>1, <2>1, <2>3, <2>4, <4>1
      <4>3. list.next <= Len(box'[list.of])
        <5>1. Len(box'[list.of]) \in Nat
          BY <1>1, <2>1, <2>3
        <5> QED
          BY <1>1, <4>1, <5>1
      <4> QED
        BY <1>2, <2>2, <3>2, <4>2, <4>3 DEF NewestFirst
    <3> QED
      BY <3>1, <3>2
  <2> QED
    BY <2>5, <2>6, <2>7 DEF ListInv
<1>7. ASSUME NEW b \in Boxes, ListBegin(b) PROVE ListInv'
  <2>1. /\ box' = box /\ adds' = adds /\ request' = request /\ request.at = "none"
        /\ list' = [open |-> TRUE, of |-> b, next |-> Len(box[b]), out |-> <<>>,
                    start |-> box[b], evicted |-> FALSE]
    BY <1>7 DEF ListBegin, HttpdFree, Serving
  <2>2. Ordered'
    BY <1>2, <2>1 DEF Ordered
  <2>3. StillToShow' /\ NewestFirst'
    BY <1>1, <2>1 DEF StillToShow, NewestFirst
  <2> QED
    BY <2>2, <2>3 DEF ListInv
<1>8. CASE ListGet
  <2> DEFINE k == list.next
             here == box[list.of]
  <2>1. /\ list.open /\ k \in Nat /\ k > 0 /\ box' = box /\ adds' = adds /\ request' = request
        /\ list' = [list EXCEPT !.next = k - 1,
                      !.out = IF k <= Len(here) THEN Append(list.out, here[k]) ELSE list.out]
    BY <1>1, <1>8 DEF ListGet
  <2>2. /\ list'.open = list.open /\ list'.of = list.of /\ list'.start = list.start
        /\ list'.evicted = list.evicted /\ list'.next = k - 1
        /\ list'.out = IF k <= Len(here) THEN Append(list.out, here[k]) ELSE list.out
    BY <2>1 DEF TypeOK
  <2>3. here \in Seq(Messages) /\ (k <= Len(here) => k \in DOMAIN here /\ here[k] \in Messages)
    BY <1>1, <2>1
  <2>4. /\ \A i \in DOMAIN list.out : i \in DOMAIN list'.out /\ list'.out[i] = list.out[i]
        /\ k <= Len(here) => \E i \in DOMAIN list'.out : list'.out[i] = here[k]
        /\ \A i \in DOMAIN list'.out :
             \/ i \in DOMAIN list.out /\ list'.out[i] = list.out[i]
             \/ i = Len(list.out) + 1 /\ k <= Len(here) /\ list'.out[i] = here[k]
    <3> HIDE DEF here, k
    <3>1. CASE k <= Len(here)
      <4>1. list'.out = Append(list.out, here[k])
        BY <2>2, <3>1
      <4>2. /\ \A i \in 1..Len(list.out) : Append(list.out, here[k])[i] = list.out[i]
            /\ DOMAIN Append(list.out, here[k]) = 1..(Len(list.out) + 1)
            /\ DOMAIN list.out = 1..Len(list.out)
            /\ Append(list.out, here[k])[Len(list.out) + 1] = here[k]
            /\ Len(list.out) \in Nat
        BY <1>1, <2>3, <3>1, AppendIndex
      <4> QED
        BY <3>1, <4>1, <4>2
    <3>2. CASE ~(k <= Len(here))
      BY <2>2, <3>2
    <3> QED
      BY <3>1, <3>2
  <2>5. Ordered'
    BY <1>2, <2>1, <2>2 DEF Ordered
  <2>6. StillToShow'
    <3> SUFFICES ASSUME NEW i \in DOMAIN here, Was(here[i])
                 PROVE  (\E j \in DOMAIN list'.out : list'.out[j] = here[i]) \/ i <= k - 1
      BY <2>1, <2>2 DEF StillToShow, Was, Shown, InListing
    <3>1. Shown(here[i]) \/ i <= k
      BY <1>2, <2>1 DEF StillToShow
    <3>2. CASE Shown(here[i])
      BY <2>4, <3>2 DEF Shown, InListing
    <3>3. CASE i <= k
      <4>1. i \in Nat /\ (i = k => k <= Len(here))
        BY <1>1, <2>1
      <4>2. i = k \/ i <= k - 1
        BY <2>1, <3>3, <4>1
      <4> QED
        BY <2>4, <4>1, <4>2
    <3> QED
      BY <3>1, <3>2, <3>3
  <2>7. NewestFirst'
    <3> SUFFICES ASSUME ~list.evicted PROVE NewestFirst'
      BY <2>2 DEF NewestFirst
    <3>1. /\ \A i, j \in DOMAIN list.out : i < j => list.out[i].name > list.out[j].name
          /\ k <= Len(here)
          /\ \A i \in DOMAIN list.out, l \in DOMAIN here : l <= k => here[l].name < list.out[i].name
      BY <1>2, <2>1 DEF NewestFirst
    <3>2. k \in DOMAIN here /\ DOMAIN here \subseteq Nat /\ k <= k
      BY <1>1, <2>1, <2>3, <3>1
    <3>3. \A i, j \in DOMAIN list'.out : i < j => list'.out[i].name > list'.out[j].name
      <4> SUFFICES ASSUME NEW i \in DOMAIN list'.out, NEW j \in DOMAIN list'.out, i < j
                   PROVE  list'.out[i].name > list'.out[j].name
        OBVIOUS
      <4>1. i \in DOMAIN list.out /\ list'.out[i] = list.out[i]
        <5>1. DOMAIN list.out = 1..Len(list.out) /\ Len(list.out) \in Nat
          BY <1>1
        <5> QED
          BY <2>4, <5>1
      <4>2. CASE j \in DOMAIN list.out /\ list'.out[j] = list.out[j]
        BY <3>1, <4>1, <4>2
      <4>3. CASE list'.out[j] = here[k]
        <5>1. here[k].name < list.out[i].name
          BY <3>1, <3>2, <4>1
        <5>2. here[k].name \in Nat /\ list.out[i].name \in Nat
          <6>1. list.out[i] \in Messages
            BY <1>1, <4>1
          <6> QED
            BY <2>3, <3>1, <6>1 DEF Messages
        <5> QED
          BY <4>1, <4>3, <5>1, <5>2
      <4> QED
        BY <2>4, <4>2, <4>3
    <3>4. k - 1 <= Len(here)
      BY <1>1, <2>1, <3>1
    <3>5. ASSUME NEW i \in DOMAIN list'.out, NEW l \in DOMAIN here, l <= k - 1
          PROVE  here[l].name < list'.out[i].name
      <4>1. l < k /\ l <= k
        BY <2>1, <3>2, <3>5
      <4>2. CASE i \in DOMAIN list.out /\ list'.out[i] = list.out[i]
        BY <3>1, <4>1, <4>2
      <4>3. CASE list'.out[i] = here[k]
        BY <1>1, <1>2, <3>2, <4>1, <4>3 DEF Ordered
      <4> QED
        BY <2>4, <4>2, <4>3
    <3> QED
      BY <2>1, <2>2, <3>3, <3>4, <3>5 DEF NewestFirst
  <2> QED
    BY <2>5, <2>6, <2>7 DEF ListInv
<1>9. CASE ListEnd
  <2>1. /\ list.next = 0 \/ Len(list.out) >= ListRoom
        /\ box' = box /\ adds' = adds /\ request' = request
        /\ list'.open = FALSE /\ list'.of = list.of /\ list'.start = list.start
        /\ list'.evicted = list.evicted /\ list'.out = list.out /\ list.open
    BY <1>9 DEF ListEnd, TypeOK
  <2>2. Ordered'
    BY <1>2, <2>1 DEF Ordered
  <2>3. StillToShow'
    <3>1. \A k \in DOMAIN box[list.of] : ~(k <= 0)
      BY <1>1
    <3> QED
      BY <1>2, <2>1, <3>1 DEF StillToShow, Was, Shown, InListing
  <2>4. NewestFirst'
    BY <1>2, <2>1 DEF NewestFirst
  <2> QED
    BY <2>2, <2>3, <2>4 DEF ListInv
<1>10. ASSUME NEW m \in Range(list.out), DeleteBegin(m) PROVE ListInv'
  <2>1. box' = box /\ adds' = adds /\ list' = list /\ ~list.open
    BY <1>10 DEF DeleteBegin, HttpdFree, Serving
  <2>2. Ordered'
    BY <1>2, <2>1 DEF Ordered
  <2>3. StillToShow' /\ NewestFirst'
    BY <1>2, <2>1 DEF StillToShow, NewestFirst, Was, Shown, InListing
  <2> QED
    BY <2>2, <2>3 DEF ListInv
<1>11. ASSUME NEW b \in Boxes, DeleteFrom(b) PROVE ListInv'
  <2>1. PICK i \in DOMAIN box[b] : box' = [box EXCEPT ![b] = Without(box[b], i)]
    BY <1>11 DEF DeleteFrom
  <2>2. adds' = adds /\ list' = list /\ ~list.open
    BY <1>2, <1>11 DEF DeleteFrom, Ordered, Boxes
  <2>3. Shrinks(box[b], Without(box[b], i))
    BY <1>1, <2>1, WithoutShrinks
  <2>4. /\ \A c \in Boxes : \A h, j \in DOMAIN box'[c] : h < j => box'[c][h].name < box'[c][j].name
        /\ \A c \in Boxes : \A h \in DOMAIN box'[c] : box'[c][h].name <= adds
        /\ \A c \in Boxes : \A h \in DOMAIN box'[c] :
             \E k \in DOMAIN box[c] : box[c][k] = box'[c][h] /\ h <= k
    BY <1>2, <2>1, <2>3, ShrinkOrdered
  <2>5. Ordered'
    BY <1>2, <2>2, <2>4 DEF Ordered
  <2>6. StillToShow'
    <3> SUFFICES ASSUME NEW h \in DOMAIN box'[list.of], Was(box'[list.of][h])
                 PROVE  Shown(box'[list.of][h]) \/ Len(list.out) >= ListRoom
      BY <2>2 DEF StillToShow, Was, Shown, InListing
    <3>1. PICK k \in DOMAIN box[list.of] : box[list.of][k] = box'[list.of][h]
      BY <1>1, <2>4
    <3> QED
      BY <1>2, <2>2, <3>1 DEF StillToShow
  <2>7. NewestFirst'
    BY <1>2, <2>2 DEF NewestFirst
  <2> QED
    BY <2>5, <2>6, <2>7 DEF ListInv
<1>12. ASSUME NEW b \in Boxes, DeleteMisses(b) PROVE ListInv'
  <2>1. box' = box /\ adds' = adds /\ list' = list /\ ~list.open
    BY <1>2, <1>12 DEF DeleteMisses, Ordered, Boxes
  <2>2. Ordered'
    BY <1>2, <2>1 DEF Ordered
  <2>3. StillToShow' /\ NewestFirst'
    BY <1>2, <2>1 DEF StillToShow, NewestFirst, Was, Shown, InListing
  <2> QED
    BY <2>2, <2>3 DEF ListInv
<1>13. CASE UNCHANGED vars
  BY <1>3, <1>13 DEF vars
<1> QED
  BY <1>4, <1>5, <1>6, <1>7, <1>8, <1>9, <1>10, <1>11, <1>12, <1>13 DEF Next, Write, Serve

(* What is shown inductively.                                              *)
LEMMA ListCorrect == Spec => []ListInv
  BY ListInit, ListNext, TypeCorrect, PTL DEF Spec

(* A finished listing that had room misses no message that stayed in the   *)
(* box, for any number of writers, any box size and any interleaving.      *)
THEOREM ListingsComplete == Spec => []ListingComplete
<1>1. TypeOK /\ ListInv => ListingComplete
  <2> SUFFICES ASSUME TypeOK, ListInv, ~list.open, Len(list.out) < ListRoom,
                      NEW r \in Range(list.start), r \in Range(box[list.of])
               PROVE  r \in Range(list.out)
    BY DEF ListingComplete
  <2>1. PICK k \in DOMAIN box[list.of] : box[list.of][k] = r
    BY DEF Range
  <2>2. Was(box[list.of][k])
    BY <2>1 DEF Range, Was
  <2>3. ~(Len(list.out) >= ListRoom)
    <3>1. list.out \in Seq(Messages)
      BY DEF TypeOK
    <3> QED
      BY <3>1, SizeAssumption
  <2>4. Shown(box[list.of][k])
    BY <2>1, <2>2, <2>3 DEF ListInv, StillToShow
  <2> QED
    BY <2>1, <2>4 DEF Shown, InListing, Range
<1> QED
  BY <1>1, TypeCorrect, ListCorrect, PTL

(* A listing during which nothing was pushed out is in order and shows     *)
(* nothing twice.                                                          *)
THEOREM ListingsInOrder == Spec => []ListingNewestFirst
<1>1. ListInv => ListingNewestFirst
  BY DEF ListInv, NewestFirst, ListingNewestFirst
<1> QED
  BY <1>1, ListCorrect, PTL

=============================================================================
