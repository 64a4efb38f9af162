-------------------------- MODULE WebSocketProofs --------------------------
(***************************************************************************)
(* Proofs about WebSocket: for any number of descriptors, connections and  *)
(* slots, the entries of s_ws_fds that connected browsers depend on stay.  *)
(***************************************************************************)
EXTENDS WebSocket, FiniteSetTheorems, TLAPS

(* Before web_server_start there is neither a connection nor a broadcast,  *)
(* and who is about to remove an entry has just read it.                   *)
BeforeStart == ~s_server_handle => Open = {} /\ cast = Idle /\ adding = NotAdding

Removing ==
  cast.at = "remove" =>
    cast.i \in Slots /\ cast.fd # 0 /\ s_ws_fds[cast.i] = cast.fd

TypeInv == TypeOK /\ BeforeStart /\ Removing

(* What the obligations below need of the constants.                       *)
LEMMA Constants == MaxWsClients \in Nat /\ Fds \subseteq Nat /\ 0 \notin Fds /\ MaxOpen \in Nat
  BY SizeAssumption, FdAssumption

(* Connections are numbered from 1.                                        *)
LEMMA OpenSessions ==
  ASSUME TypeOK
  PROVE  \A fd \in Open : fd \in Fds /\ session[fd] \in 1..sessions
BY DEF TypeOK, Open

(* A step to the next slot, or to the removal.                             *)
LEMMA CastStep ==
  ASSUME TypeOK, Sending
  PROVE  /\ cast # Idle
         /\ NextSlot =>
              /\ cast' \in [at : {"send"}, i : 0..(MaxWsClients + 1), fd : Fds \cup {0}]
              /\ cast'.i = cast.i + 1
         /\ \A fd \in Fds : cast' = [cast EXCEPT !.at = "remove", !.fd = fd] =>
              /\ cast' \in [at : {"remove"}, i : 0..(MaxWsClients + 1), fd : Fds \cup {0}]
              /\ cast'.i = cast.i /\ cast'.fd = fd
<1> DEFINE Places == 0..(MaxWsClients + 1)
<1>1. cast.at = "send" /\ cast.i + 1 \in Places /\ cast.i \in Places /\ cast.fd \in Fds \cup {0}
  BY Constants DEF Sending, Slots, TypeOK
<1>2. cast \in [at : {"idle", "send", "remove"}, i : Places, fd : Fds \cup {0}]
  BY DEF TypeOK
<1> HIDE DEF Places
<1>3. NextSlot =>
        cast' \in [at : {"send"}, i : Places, fd : Fds \cup {0}] /\ cast'.i = cast.i + 1
  BY <1>1, <1>2 DEF NextSlot
<1>4. \A fd \in Fds : cast' = [cast EXCEPT !.at = "remove", !.fd = fd] =>
        /\ cast' \in [at : {"remove"}, i : Places, fd : Fds \cup {0}]
        /\ cast'.i = cast.i /\ cast'.fd = fd
  BY <1>1, <1>2
<1>5. cast # Idle
  BY <1>1 DEF Idle
<1> QED
  BY <1>3, <1>4, <1>5 DEF Places

(* A step that leaves the httpd task's variables alone keeps the types if  *)
(* it keeps those of the others.                                           *)
LEMMA CastTypes ==
  ASSUME TypeInv, UNCHANGED httpdVars, s_server_handle,
         s_ws_fds' \in [Slots -> Fds \cup {0}], messages' \in Nat,
         cast' \in [at : {"idle", "send", "remove"}, i : 0..(MaxWsClients + 1), fd : Fds \cup {0}],
         dropped' \subseteq 1..sessions, audience' \subseteq 1..sessions,
         heard' \subseteq 1..sessions, vacant' \subseteq Fds,
         Removing'
  PROVE  TypeInv'
BY DEF TypeInv, TypeOK, BeforeStart, httpdVars, Open

(* The initial state.                                                      *)
LEMMA TypeInit == Init => TypeInv
<1> SUFFICES ASSUME Init PROVE TypeInv
  OBVIOUS
<1> USE Constants
<1>1. Open = {}
  BY DEF Init, Open
<1>2. BeforeStart /\ Removing
  BY <1>1 DEF Init, BeforeStart, Removing, Idle
<1>3. /\ adding \in [fd : Fds \cup {0}, i : 0..(MaxWsClients + 1)]
      /\ cast \in [at : {"idle", "send", "remove"}, i : 0..(MaxWsClients + 1), fd : Fds \cup {0}]
  BY DEF Init, Idle, NotAdding
<1>4. adding.fd = 0
  BY DEF Init, NotAdding
<1>5. s_ws_fds \in [Slots -> Fds \cup {0}] /\ session \in [Fds -> 0..sessions]
  BY DEF Init
<1> QED
  BY <1>1, <1>2, <1>3, <1>4, <1>5 DEF Init, TypeInv, TypeOK

(* Each step of either task.                                               *)
LEMMA TypeNext ==
  ASSUME TypeInv, [Next]_vars
  PROVE  TypeInv'
<1> USE Constants DEF httpdVars, castVars
<1>1. TypeOK /\ BeforeStart /\ Removing
  BY DEF TypeInv
<1>2. ASSUME WebServerStart PROVE TypeInv'
  BY <1>1, <1>2 DEF WebServerStart, TypeInv, TypeOK, BeforeStart, Removing, Open, Idle
<1>3. ASSUME NEW fd \in Fds, Accept(fd) PROVE TypeInv'
  BY <1>1, <1>3 DEF Accept, TypeInv, TypeOK, BeforeStart, Removing, Open
<1>4. ASSUME NEW fd \in Fds, Close(fd) PROVE TypeInv'
  <2>1. Open' = Open \ {fd}
    BY <1>1, <1>4 DEF Close, Open, TypeOK
  <2>2. adding.fd = 0
    BY <1>4 DEF Close, NotAdding
  <2>3. \A f, g \in Open' : session'[f] = session'[g] => f = g
    BY <1>1, <1>4, <2>1 DEF Close, Open, TypeOK
  <2>4. session' \in [Fds -> 0..sessions]
    BY <1>1, <1>4 DEF Close, TypeOK
  <2> QED
    BY <1>1, <1>4, <2>1, <2>2, <2>3, <2>4 DEF Close, TypeInv, TypeOK, BeforeStart, Removing
<1>5. ASSUME NEW fd \in Fds, Upgrade(fd) PROVE TypeInv'
  BY <1>1, <1>5 DEF Upgrade, TypeInv, TypeOK, BeforeStart, Removing, Open, NotAdding
<1>6. ASSUME AddTakes PROVE TypeInv'
  <2>1. adding.fd \in Open /\ session[adding.fd] \in 1..sessions
    <3>1. adding # NotAdding
      BY <1>6 DEF AddTakes, NotAdding, Slots
    <3> QED
      BY <1>1, <3>1, OpenSessions DEF TypeOK
  <2>2. s_ws_fds' \in [Slots -> Fds \cup {0}] /\ Open' = Open
    BY <1>1, <1>6 DEF AddTakes, TypeOK, Open
  <2>3. adding' \in [fd : Fds \cup {0}, i : 0..(MaxWsClients + 1)] /\ adding'.fd = 0
    BY <1>6 DEF AddTakes, NotAdding
  <2>4. Removing'
    BY <1>1, <1>6 DEF AddTakes, Removing, TypeOK
  <2> QED
    BY <1>1, <1>6, <2>1, <2>2, <2>3, <2>4 DEF AddTakes, TypeInv, TypeOK, BeforeStart
<1>7. ASSUME AddLooksOn PROVE TypeInv'
  BY <1>1, <1>7 DEF AddLooksOn, TypeInv, TypeOK, BeforeStart, Removing, Open, NotAdding, Slots
<1>8. ASSUME AddFindsNone PROVE TypeInv'
  <2>1. adding.fd \in Open /\ session[adding.fd] \in 1..sessions
    BY <1>1, <1>8, OpenSessions DEF AddFindsNone, TypeOK
  <2>2. adding' \in [fd : Fds \cup {0}, i : 0..(MaxWsClients + 1)] /\ adding'.fd = 0
    BY <1>8 DEF AddFindsNone, NotAdding
  <2> QED
    BY <1>1, <1>8, <2>1, <2>2
       DEF AddFindsNone, TypeInv, TypeOK, BeforeStart, Removing, Open
<1>9. ASSUME CastBegin PROVE TypeInv'
  BY <1>1, <1>9 DEF CastBegin, TypeInv, TypeOK, BeforeStart, Removing, Open
<1>10. ASSUME CastSkips PROVE TypeInv'
  <2>1. cast' \in [at : {"send"}, i : 0..(MaxWsClients + 1), fd : Fds \cup {0}] /\ cast # Idle
    BY <1>1, <1>10, CastStep DEF CastSkips
  <2> QED
    BY <1>1, <1>10, <2>1, CastTypes DEF CastSkips, TypeInv, TypeOK, BeforeStart, Removing
<1>11. ASSUME CastReaches PROVE TypeInv'
  <2>1. cast' \in [at : {"send"}, i : 0..(MaxWsClients + 1), fd : Fds \cup {0}] /\ cast # Idle
    BY <1>1, <1>11, CastStep DEF CastReaches
  <2>2. session[s_ws_fds[cast.i]] \in 1..sessions
    BY <1>1, <1>11, OpenSessions DEF CastReaches
  <2> QED
    BY <1>1, <1>11, <2>1, <2>2, CastTypes DEF CastReaches, TypeInv, TypeOK, BeforeStart, Removing
<1>12. ASSUME CastFails PROVE TypeInv'
  <2>1. s_ws_fds[cast.i] \in Fds /\ cast.i \in Slots
    BY <1>1, <1>12 DEF CastFails, Sending, TypeOK
  <2>2. /\ cast' \in [at : {"remove"}, i : 0..(MaxWsClients + 1), fd : Fds \cup {0}]
        /\ cast'.i = cast.i /\ cast'.fd = s_ws_fds[cast.i] /\ cast # Idle
    BY <1>1, <1>12, <2>1, CastStep DEF CastFails
  <2>3. dropped' \subseteq 1..sessions
    BY <1>1, <1>12, <2>1 DEF CastFails, TypeOK
  <2>4. Removing'
    BY <1>12, <2>1, <2>2 DEF CastFails, Removing
  <2> QED
    BY <1>1, <1>12, <2>2, <2>3, <2>4, CastTypes DEF CastFails, TypeInv, TypeOK, BeforeStart
<1>13. ASSUME CastRemoves PROVE TypeInv'
  <2>1. cast.i \in Slots /\ cast # Idle
    BY <1>1, <1>13 DEF CastRemoves, Removing, Idle
  <2>2. cast' \in [at : {"send"}, i : 0..(MaxWsClients + 1), fd : Fds \cup {0}]
    BY <1>13, <2>1 DEF CastRemoves, Slots
  <2>3. s_ws_fds' \in [Slots -> Fds \cup {0}]
    BY <1>1, <1>13 DEF CastRemoves, TypeOK
  <2> QED
    BY <1>1, <1>13, <2>1, <2>2, <2>3, CastTypes DEF CastRemoves, TypeInv, TypeOK, BeforeStart, Removing
<1>14. ASSUME CastEnd PROVE TypeInv'
  <2>1. cast' \in [at : {"idle"}, i : 0..(MaxWsClients + 1), fd : Fds \cup {0}] /\ cast # Idle
    BY <1>14 DEF CastEnd, Idle
  <2> QED
    BY <1>1, <1>14, <2>1, CastTypes DEF CastEnd, TypeInv, TypeOK, BeforeStart, Removing
<1>15. CASE UNCHANGED vars
  BY <1>1, <1>15 DEF vars, TypeInv, TypeOK, BeforeStart, Removing, Open
<1> QED
  BY <1>2, <1>3, <1>4, <1>5, <1>6, <1>7, <1>8, <1>9, <1>10, <1>11, <1>12, <1>13, <1>14, <1>15
     DEF Next, Httpd, Reader

(* The variables always have the values the code can give them.            *)
LEMMA TypeInvariant == Spec => []TypeInv
  BY TypeInit, TypeNext, PTL DEF Spec

(* Type correctness.                                                       *)
THEOREM TypeCorrect == Spec => []TypeOK
<1>1. TypeInv => TypeOK
  BY DEF TypeInv
<1> QED
  BY <1>1, TypeInvariant, PTL

-----------------------------------------------------------------------------
(* Seats.  While an entry is about to be removed whose descriptor has a    *)
(* new connection, that connection has another entry.                      *)
SecondSeat ==
  cast.at = "remove" /\ Live(cast.fd) =>
    \E j \in Slots : j # cast.i /\ s_ws_fds[j] = cast.fd

SeatInv == SeatKept /\ SecondSeat

(* A step after which no descriptor is live that was not, no entry is gone *)
(* and nothing else is about to be removed, keeps the seats.               *)
LEMMA SeatsStay ==
  ASSUME SeatInv, \A fd \in Fds : Live(fd)' => Live(fd),
         s_ws_fds' = s_ws_fds, cast'.at = "remove" => cast' = cast, cast.fd \in Fds \cup {0}
  PROVE  SeatInv'
<1>1. cast'.at = "remove" /\ Live(cast.fd)' => cast.fd \in Fds
  BY DEF Live, Open
<1> QED
  BY <1>1 DEF SeatInv, SeatKept, SecondSeat

(* Every step keeps them.                                                  *)
LEMMA SeatNext ==
  ASSUME TypeInv, TypeInv', SeatInv, [Next]_vars
  PROVE  SeatInv'
<1> USE Constants DEF httpdVars, castVars
<1>1. TypeOK /\ BeforeStart /\ Removing /\ TypeOK' /\ Removing'
  BY DEF TypeInv
<1>2. cast.fd \in Fds \cup {0}
  BY <1>1 DEF TypeOK
<1>3. ASSUME WebServerStart PROVE SeatInv'
  <2>1. Open' = {} /\ cast'.at = "idle"
    BY <1>1, <1>3 DEF WebServerStart, BeforeStart, Open, Idle
  <2> QED
    BY <2>1 DEF SeatInv, SeatKept, SecondSeat, Live
<1>4. ASSUME NEW fd \in Fds, Accept(fd) PROVE SeatInv'
  <2>1. \A g \in Fds : g # fd => session'[g] = session[g]
    BY <1>1, <1>4 DEF Accept, TypeOK
  <2>2. session'[fd] = sessions + 1 /\ sessions + 1 \notin seated
    BY <1>1, <1>4 DEF Accept, TypeOK
  <2>3. \A g \in Fds : Live(g)' => Live(g)
    BY <1>4, <2>1, <2>2 DEF Accept, Live, Open
  <2> QED
    BY <1>2, <1>4, <2>3, SeatsStay DEF Accept
<1>5. ASSUME NEW fd \in Fds, Close(fd) PROVE SeatInv'
  <2>1. \A g \in Fds : Live(g)' => Live(g)
    BY <1>1, <1>5 DEF Close, Live, Open, TypeOK
  <2> QED
    BY <1>2, <1>5, <2>1, SeatsStay DEF Close
<1>6. ASSUME UNCHANGED <<session, seated, dropped, s_ws_fds, cast>> PROVE SeatInv'
  BY <1>2, <1>6, SeatsStay DEF Live, Open
<1>7. ASSUME AddTakes PROVE SeatInv'
  <2>1. adding.fd \in Fds /\ adding.i \in Slots /\ s_ws_fds[adding.i] = 0
    <3>1. adding # NotAdding
      BY <1>7 DEF AddTakes, NotAdding, Slots
    <3> QED
      BY <1>1, <1>7, <3>1 DEF AddTakes, TypeOK, Open
  <2>2. /\ s_ws_fds'[adding.i] = adding.fd
        /\ \A j \in Slots : s_ws_fds[j] # 0 => s_ws_fds'[j] = s_ws_fds[j]
    BY <1>1, <1>7, <2>1 DEF AddTakes, TypeOK
  <2>3. \A fd \in Fds : Live(fd)' => Live(fd) \/ fd = adding.fd
    <3>1. \A fd \in Open : session[fd] = session[adding.fd] => fd = adding.fd
      BY <1>1, <2>1 DEF TypeOK, Open
    <3> QED
      BY <1>7, <3>1 DEF AddTakes, Live, Open
  <2>4. SeatKept'
    BY <2>1, <2>2, <2>3 DEF SeatInv, SeatKept
  <2>5. SecondSeat'
    <3> SUFFICES ASSUME cast.at = "remove", Live(cast.fd)'
                 PROVE  \E j \in Slots : j # cast.i /\ s_ws_fds'[j] = cast.fd
      BY <1>7 DEF AddTakes, SecondSeat
    <3>1. cast.fd \in Fds /\ cast.i # adding.i
      BY <1>1, <2>1 DEF Removing, TypeOK
    <3>2. Live(cast.fd) \/ cast.fd = adding.fd
      <4>1. cast' = cast
        BY <1>7 DEF AddTakes
      <4>2. \A fd \in Fds : fd = cast.fd /\ Live(fd)' => Live(fd) \/ fd = adding.fd
        BY <2>3
      <4> QED
        BY <3>1, <4>1, <4>2 DEF Live
    <3>3. CASE Live(cast.fd)
      <4>1. PICK j \in Slots : j # cast.i /\ s_ws_fds[j] = cast.fd
        BY <3>3 DEF SeatInv, SecondSeat
      <4> QED
        BY <2>2, <3>1, <4>1
    <3>4. CASE cast.fd = adding.fd
      BY <2>1, <2>2, <3>1, <3>4
    <3> QED
      BY <3>2, <3>3, <3>4
  <2> QED
    BY <2>4, <2>5 DEF SeatInv
<1>8. ASSUME cast'.at # "remove", UNCHANGED <<session, seated, dropped, s_ws_fds>> PROVE SeatInv'
  BY <1>2, <1>8, SeatsStay DEF Live, Open
<1>9. ASSUME CastFails PROVE SeatInv'
  <2>1. s_ws_fds[cast.i] \in Fds
    BY <1>1, <1>9 DEF CastFails, Sending, TypeOK
  <2>2. cast'.fd = s_ws_fds[cast.i]
    BY <1>1, <1>9, <2>1, CastStep DEF CastFails
  <2>3. ~Live(cast.fd)'
    <3>1. session' = session /\ seated' = seated
          /\ dropped' = dropped \cup ({session[cast'.fd]} \ {0})
      BY <1>9, <2>2 DEF CastFails
    <3> QED
      BY <3>1 DEF Live, Open
  <2>4. \A fd \in Fds : Live(fd)' => Live(fd)
    BY <1>9 DEF CastFails, Live, Open
  <2>5. SecondSeat'
    BY <2>3 DEF SecondSeat
  <2> QED
    BY <1>9, <2>4, <2>5 DEF CastFails, SeatInv, SeatKept
<1>10. ASSUME CastRemoves PROVE SeatInv'
  <2>1. PICK j \in 1..cast.i :
          s_ws_fds[j] = cast.fd /\ s_ws_fds' = [s_ws_fds EXCEPT ![j] = 0]
    BY <1>10 DEF CastRemoves
  <2>2. \A k \in Slots : k # j => s_ws_fds'[k] = s_ws_fds[k]
    BY <1>1, <2>1 DEF TypeOK
  <2>3. cast.at = "remove" /\ cast.i \in Slots /\ s_ws_fds[cast.i] = cast.fd
    BY <1>1, <1>10 DEF CastRemoves, Removing
  <2>4. \A fd : Live(fd)' <=> Live(fd)
    BY <1>10 DEF CastRemoves, Live, Open
  <2>5. ASSUME NEW fd \in Fds, Live(fd) PROVE \E k \in Slots : s_ws_fds'[k] = fd
    <3>1. CASE fd = cast.fd
      <4>1. PICK k \in Slots : k # cast.i /\ s_ws_fds[k] = cast.fd
        BY <2>3, <2>5, <3>1 DEF SeatInv, SecondSeat
      <4> QED
        BY <2>2, <2>3, <3>1, <4>1
    <3>2. CASE fd # cast.fd
      <4>1. PICK k \in Slots : s_ws_fds[k] = fd
        BY <2>5 DEF SeatInv, SeatKept
      <4> QED
        BY <2>1, <2>2, <3>2, <4>1
    <3> QED
      BY <3>1, <3>2
  <2>6. SeatKept'
    BY <2>4, <2>5 DEF SeatKept
  <2>7. cast'.at = "send"
    BY <1>10 DEF CastRemoves
  <2> QED
    BY <2>6, <2>7 DEF SeatInv, SecondSeat
<1>11. CASE \/ AddLooksOn \/ AddFindsNone \/ \E fd \in Fds : Upgrade(fd)
  BY <1>6, <1>11 DEF AddLooksOn, AddFindsNone, Upgrade
<1>12. CASE CastBegin \/ CastEnd
  BY <1>8, <1>12 DEF CastBegin, CastEnd, Idle
<1>13. CASE CastSkips \/ CastReaches
  <2>1. cast'.at = "send"
    BY <1>1, <1>13, CastStep DEF CastSkips, CastReaches
  <2> QED
    BY <1>8, <1>13, <2>1 DEF CastSkips, CastReaches
<1>14. CASE UNCHANGED vars
  BY <1>6, <1>14 DEF vars
<1> QED
  BY <1>3, <1>4, <1>5, <1>7, <1>9, <1>10, <1>11, <1>12, <1>13, <1>14 DEF Next, Httpd, Reader

(* A connected browser that has had a slot keeps one.                      *)
THEOREM SeatsKept == Spec => []SeatKept
<1>1. Init => SeatInv
  BY DEF Init, SeatInv, SeatKept, SecondSeat, Live, Idle
<1>2. SeatInv => SeatKept
  BY DEF SeatInv
<1> QED
  BY <1>1, <1>2, SeatNext, TypeInvariant, PTL DEF Spec

-----------------------------------------------------------------------------
(* Broadcasts.  Whoever has still to be sent the message has an entry that *)
(* the loop has not come to, and it is not the one about to be removed.    *)
Waiting(fd) == fd \in Open /\ session[fd] \in audience \ (dropped \cup heard)

Ahead(fd, i) == \E j \in Slots : j >= i /\ s_ws_fds[j] = fd

Reach ==
  /\ \A a \in audience : \E fd \in Open : session[fd] = a
  /\ cast.at = "send" => cast.i >= 1
  /\ \A fd \in Fds : Waiting(fd) =>
       \/ cast.at = "send" /\ Ahead(fd, cast.i)
       \/ cast.at = "remove" /\ fd # cast.fd /\ Ahead(fd, cast.i + 1)

(* Nothing the httpd task does takes an entry from one who waits.          *)
LEMMA ReachStays ==
  ASSUME Reach, \A fd \in Fds : Waiting(fd)' => Waiting(fd), cast' = cast,
         \A j \in Slots : s_ws_fds[j] \in Fds => s_ws_fds'[j] = s_ws_fds[j],
         \A a \in audience' : \E fd \in Open' : session'[fd] = a
  PROVE  Reach'
BY DEF Reach, Ahead

(* Every step keeps the invariant.                                         *)
LEMMA ReachNext ==
  ASSUME TypeInv, TypeInv', SeatInv, Reach, [Next]_vars
  PROVE  Reach'
<1> USE Constants DEF httpdVars, castVars
<1>1. TypeOK /\ BeforeStart /\ Removing /\ TypeOK' /\ Removing'
  BY DEF TypeInv
<1>2. cast.i \in Nat /\ Slots \subseteq Nat
  BY <1>1 DEF TypeOK, Slots
<1>3. ASSUME WebServerStart PROVE Reach'
  <2>1. Open = {} /\ Open' = {} /\ audience' = {} /\ cast'.at = "idle"
    BY <1>1, <1>3 DEF WebServerStart, BeforeStart, Open, Idle, Reach
  <2> QED
    BY <2>1 DEF Reach, Waiting
<1>4. ASSUME NEW fd \in Fds, Accept(fd) PROVE Reach'
  <2>1. session'[fd] = sessions + 1 /\ sessions + 1 \notin audience
    BY <1>1, <1>4 DEF Accept, TypeOK
  <2>2. \A g \in Fds : g # fd => session'[g] = session[g]
    BY <1>1, <1>4 DEF Accept, TypeOK
  <2>3. \A g \in Fds : Waiting(g)' => Waiting(g)
    BY <1>4, <2>1, <2>2 DEF Accept, Waiting, Open
  <2>4. \A a \in audience' : \E g \in Open' : session'[g] = a
    BY <1>4, <2>2 DEF Accept, Open, Reach
  <2> QED
    BY <1>4, <2>3, <2>4, ReachStays DEF Accept
<1>5. ASSUME NEW fd \in Fds, Close(fd) PROVE Reach'
  <2>1. \A g \in Fds : g # fd => session'[g] = session[g]
    BY <1>1, <1>5 DEF Close, TypeOK
  <2>2. session'[fd] = 0 /\ audience' = audience \ {session[fd]}
    BY <1>1, <1>5 DEF Close, TypeOK
  <2>3. \A g \in Fds : Waiting(g)' => Waiting(g)
    BY <1>5, <2>1, <2>2 DEF Close, Waiting, Open
  <2>4. \A a \in audience' : \E g \in Open' : session'[g] = a
    BY <2>1, <2>2 DEF Open, Reach
  <2> QED
    BY <1>5, <2>3, <2>4, ReachStays DEF Close
<1>6. ASSUME UNCHANGED <<session, audience, dropped, heard, cast, s_ws_fds>> PROVE Reach'
  BY <1>6 DEF Reach, Waiting, Open, Ahead
<1>7. ASSUME AddTakes PROVE Reach'
  <2>1. \A j \in Slots : s_ws_fds[j] \in Fds => s_ws_fds'[j] = s_ws_fds[j]
    BY <1>1, <1>7 DEF AddTakes, TypeOK
  <2>2. \A fd \in Fds : Waiting(fd)' => Waiting(fd)
    BY <1>7 DEF AddTakes, Waiting, Open
  <2>3. \A a \in audience' : \E fd \in Open' : session'[fd] = a
    BY <1>7 DEF AddTakes, Open, Reach
  <2> QED
    BY <1>7, <2>1, <2>2, <2>3, ReachStays DEF AddTakes
<1>8. ASSUME CastBegin PROVE Reach'
  <2>1. /\ cast'.at = "send" /\ cast'.i = 1 /\ dropped' = dropped
        /\ session' = session /\ s_ws_fds' = s_ws_fds
        /\ audience' = seated \cap {session[fd] : fd \in Fds}
    BY <1>8 DEF CastBegin
  <2>2. \A a \in audience' : \E fd \in Open' : session'[fd] = a
    BY <1>1, <2>1 DEF Open, TypeOK
  <2>3. \A fd \in Fds : Waiting(fd)' => Live(fd)
    BY <2>1 DEF Waiting, Live, Open
  <2>4. \A fd \in Fds : Live(fd) => Ahead(fd, 1)
    BY DEF SeatInv, SeatKept, Ahead, Slots
  <2> QED
    BY <2>1, <2>2, <2>3, <2>4 DEF Reach, Ahead
<1>9. ASSUME CastSkips PROVE Reach'
  <2>1. cast'.at = "send" /\ cast'.i = cast.i + 1 /\ cast.at = "send"
    BY <1>1, <1>9, CastStep DEF CastSkips, Sending
  <2>2. \A fd \in Fds : Ahead(fd, cast.i) => Ahead(fd, cast.i + 1)
    BY <1>2, <1>9 DEF CastSkips, Ahead
  <2> QED
    BY <1>2, <1>9, <2>1, <2>2 DEF CastSkips, Reach, Waiting, Open, Ahead
<1>10. ASSUME CastReaches PROVE Reach'
  <2>1. cast'.at = "send" /\ cast'.i = cast.i + 1 /\ cast.at = "send"
    BY <1>1, <1>10, CastStep DEF CastReaches, Sending
  <2>2. \A fd \in Fds : Waiting(fd)' => Waiting(fd) /\ fd # s_ws_fds[cast.i]
    BY <1>10 DEF CastReaches, Waiting, Open
  <2>3. \A fd \in Fds :
          Ahead(fd, cast.i) /\ fd # s_ws_fds[cast.i] => Ahead(fd, cast.i + 1)
    BY <1>2 DEF Ahead
  <2> QED
    BY <1>2, <1>10, <2>1, <2>2, <2>3 DEF CastReaches, Reach, Open, Ahead
<1>11. ASSUME CastFails PROVE Reach'
  <2>1. s_ws_fds[cast.i] \in Fds /\ cast.at = "send"
    BY <1>1, <1>11 DEF CastFails, Sending, TypeOK
  <2>2. cast'.at = "remove" /\ cast'.i = cast.i /\ cast'.fd = s_ws_fds[cast.i]
    BY <1>1, <1>11, <2>1, CastStep DEF CastFails
  <2>3. \A fd \in Fds : Waiting(fd)' => Waiting(fd) /\ fd # s_ws_fds[cast.i]
    BY <1>11 DEF CastFails, Waiting, Open
  <2>4. \A fd \in Fds :
          Ahead(fd, cast.i) /\ fd # s_ws_fds[cast.i] => Ahead(fd, cast.i + 1)
    BY <1>2 DEF Ahead
  <2> QED
    BY <1>11, <2>1, <2>2, <2>3, <2>4 DEF CastFails, Reach, Open, Ahead
<1>12. ASSUME CastRemoves PROVE Reach'
  <2>1. PICK j \in 1..cast.i :
          s_ws_fds[j] = cast.fd /\ s_ws_fds' = [s_ws_fds EXCEPT ![j] = 0]
    BY <1>12 DEF CastRemoves
  <2>2. \A k \in Slots : k # j => s_ws_fds'[k] = s_ws_fds[k]
    BY <1>1, <2>1 DEF TypeOK
  <2>3. cast.at = "remove" /\ cast'.at = "send" /\ cast'.i = cast.i + 1
    BY <1>12 DEF CastRemoves
  <2>4. \A fd \in Fds : Ahead(fd, cast.i + 1) =>
          \E k \in Slots : k >= cast.i + 1 /\ s_ws_fds'[k] = fd
    BY <1>2, <2>1, <2>2 DEF Ahead
  <2> QED
    BY <1>2, <1>12, <2>3, <2>4 DEF CastRemoves, Reach, Waiting, Open, Ahead
<1>13. ASSUME CastEnd PROVE Reach'
  <2>1. \A fd \in Fds : ~Ahead(fd, cast.i)
    BY <1>2, <1>13 DEF CastEnd, Ahead, Reach, Slots
  <2>2. \A fd \in Fds : ~Waiting(fd)
    BY <1>13, <2>1 DEF CastEnd, Reach
  <2> QED
    BY <1>13, <2>2 DEF CastEnd, Reach, Waiting, Open, Idle
<1>14. CASE \/ AddLooksOn \/ AddFindsNone \/ \E fd \in Fds : Upgrade(fd)
  BY <1>6, <1>14 DEF AddLooksOn, AddFindsNone, Upgrade
<1>15. CASE UNCHANGED vars
  BY <1>6, <1>15 DEF vars
<1> QED
  BY <1>3, <1>4, <1>5, <1>7, <1>8, <1>9, <1>10, <1>11, <1>12, <1>13, <1>14, <1>15
     DEF Next, Httpd, Reader

(* When a broadcast is over, every browser that was connected all the time *)
(* has been sent the message.                                              *)
THEOREM BroadcastsReach == Spec => []BroadcastReaches
<1>1. Init => SeatInv /\ Reach
  BY DEF Init, SeatInv, SeatKept, SecondSeat, Live, Reach, Waiting, Idle
<1>2. Reach => BroadcastReaches
  BY DEF Reach, BroadcastReaches, Waiting, Open, Idle
<1> QED
  BY <1>1, <1>2, SeatNext, ReachNext, TypeInvariant, PTL DEF Spec

-----------------------------------------------------------------------------
(* Stale entries.  Behind the loop there is none of a descriptor that has  *)
(* been closed all the time.                                               *)
Behind ==
  /\ \A fd \in Open : fd \notin vacant
  /\ cast.at = "send" => cast.i >= 1
  /\ cast.at # "idle" => \A j \in Slots : j < cast.i => s_ws_fds[j] \notin vacant

(* Every step keeps it so.                                                 *)
LEMMA BehindNext ==
  ASSUME TypeInv, TypeInv', Behind, [Next]_vars
  PROVE  Behind'
<1> USE Constants DEF httpdVars, castVars
<1>1. TypeOK /\ BeforeStart /\ Removing /\ TypeOK' /\ Removing'
  BY DEF TypeInv
<1>2. cast.i \in Nat /\ Slots \subseteq Nat /\ vacant \subseteq Fds
  BY <1>1 DEF TypeOK, Slots
<1>3. ASSUME WebServerStart PROVE Behind'
  BY <1>1, <1>3 DEF WebServerStart, BeforeStart, Open, Idle, Behind
<1>4. ASSUME NEW fd \in Fds, Accept(fd) PROVE Behind'
  <2>1. Open' \subseteq Open \cup {fd}
    BY <1>1, <1>4 DEF Accept, TypeOK, Open
  <2> QED
    BY <1>4, <2>1 DEF Accept, Behind
<1>5. ASSUME NEW fd \in Fds, Close(fd) PROVE Behind'
  <2>1. Open' \subseteq Open
    BY <1>1, <1>5 DEF Close, TypeOK, Open
  <2> QED
    BY <1>5, <2>1 DEF Close, Behind
<1>6. ASSUME UNCHANGED <<session, vacant, cast, s_ws_fds>> PROVE Behind'
  BY <1>6 DEF Behind, Open
<1>7. ASSUME AddTakes PROVE Behind'
  <2>1. adding # NotAdding
    BY <1>7 DEF AddTakes, NotAdding, Slots
  <2>2. adding.fd \in Open
    BY <1>1, <2>1 DEF TypeOK
  <2>3. \A j \in Slots : s_ws_fds'[j] = IF j = adding.i THEN adding.fd ELSE s_ws_fds[j]
    BY <1>1, <1>7 DEF AddTakes, TypeOK
  <2>4. session' = session /\ vacant' = vacant /\ cast' = cast
    BY <1>7 DEF AddTakes
  <2>5. \A j \in Slots : s_ws_fds[j] \notin vacant => s_ws_fds'[j] \notin vacant
    BY <2>2, <2>3 DEF Behind
  <2> QED
    BY <2>4, <2>5 DEF Behind, Open
<1>8. ASSUME CastBegin PROVE Behind'
  BY <1>2, <1>8 DEF CastBegin, Behind, Open, Slots
<1>9. ASSUME CastSkips \/ CastReaches PROVE Behind'
  <2>1. cast'.at = "send" /\ cast'.i = cast.i + 1 /\ cast.at = "send"
    BY <1>1, <1>9, CastStep DEF CastSkips, CastReaches, Sending
  <2>2. s_ws_fds[cast.i] \notin vacant
    BY <1>2, <1>9 DEF CastSkips, CastReaches, Behind
  <2> QED
    BY <1>2, <1>9, <2>1, <2>2 DEF CastSkips, CastReaches, Behind, Open
<1>10. ASSUME CastFails PROVE Behind'
  <2>1. s_ws_fds[cast.i] \in Fds /\ cast.at = "send"
    BY <1>1, <1>10 DEF CastFails, Sending, TypeOK
  <2>2. cast'.at = "remove" /\ cast'.i = cast.i
    BY <1>1, <1>10, <2>1, CastStep DEF CastFails
  <2> QED
    BY <1>10, <2>1, <2>2 DEF CastFails, Behind, Open
<1>11. ASSUME CastRemoves PROVE Behind'
  <2>1. PICK j \in 1..cast.i :
          s_ws_fds[j] = cast.fd /\ s_ws_fds' = [s_ws_fds EXCEPT ![j] = 0]
    BY <1>11 DEF CastRemoves
  <2>2. cast.at = "remove" /\ cast'.at = "send" /\ cast'.i = cast.i + 1
    BY <1>11 DEF CastRemoves
  <2>3. cast.i \in Slots /\ s_ws_fds[cast.i] = cast.fd /\ j \in Slots
    BY <1>1, <2>1, <2>2 DEF Removing, Slots
  <2>4. j = cast.i \/ cast.fd \notin vacant
    BY <1>2, <2>1, <2>2, <2>3 DEF Behind
  <2>5. \A k \in Slots : s_ws_fds'[k] = IF k = j THEN 0 ELSE s_ws_fds[k]
    BY <1>1, <2>1 DEF TypeOK
  <2>6. \A k \in Slots : k < cast.i + 1 => s_ws_fds'[k] \notin vacant
    BY <1>2, <2>2, <2>3, <2>4, <2>5 DEF Behind
  <2> QED
    BY <1>2, <1>11, <2>2, <2>6 DEF CastRemoves, Behind, Open
<1>12. ASSUME CastEnd PROVE Behind'
  BY <1>12 DEF CastEnd, Behind, Open, Idle
<1>13. CASE \/ AddLooksOn \/ AddFindsNone \/ \E fd \in Fds : Upgrade(fd)
  BY <1>6, <1>13 DEF AddLooksOn, AddFindsNone, Upgrade
<1>14. CASE UNCHANGED vars
  BY <1>6, <1>14 DEF vars
<1> QED
  BY <1>3, <1>4, <1>5, <1>7, <1>8, <1>9, <1>10, <1>11, <1>12, <1>13, <1>14
     DEF Next, Httpd, Reader

(* A broadcast leaves no entry of a connection that had gone before.       *)
THEOREM BroadcastsClear == Spec => []StaleCleared
<1>1. Init => Behind
  BY DEF Init, Behind, Open, Idle
<1>2. TypeInv /\ Behind => StaleCleared
  BY Constants DEF TypeInv, TypeOK, Behind, StaleCleared, Slots
<1> QED
  BY <1>1, <1>2, BehindNext, TypeInvariant, PTL DEF Spec

-----------------------------------------------------------------------------
(* Being turned away.  There are no more connections than the server takes.*)
Room == IsFiniteSet(Open) /\ Cardinality(Open) <= MaxOpen

(* Connections come one by one.                                            *)
LEMMA RoomNext ==
  ASSUME TypeInv, Room, [Next]_vars
  PROVE  Room'
<1> USE Constants DEF httpdVars, castVars
<1>1. TypeOK
  BY DEF TypeInv
<1>2. ASSUME session' = session PROVE Room'
  BY <1>2 DEF Room, Open
<1>3. ASSUME NEW fd \in Fds, Accept(fd) PROVE Room'
  <2>1. Open' = Open \cup {fd}
    BY <1>1, <1>3 DEF Accept, TypeOK, Open
  <2>2. IsFiniteSet(Open') /\ Cardinality(Open') <= Cardinality(Open) + 1
    <3>1. IsFiniteSet(Open) /\ Cardinality(Open) \in Nat
      BY FS_CardinalityType DEF Room
    <3>2. /\ IsFiniteSet(Open \cup {fd})
          /\ Cardinality(Open \cup {fd}) =
               IF fd \in Open THEN Cardinality(Open) ELSE Cardinality(Open) + 1
      BY <3>1, FS_AddElement
    <3> QED
      BY <2>1, <3>1, <3>2
  <2> QED
    BY <1>3, <2>2, FS_CardinalityType DEF Accept, Room
<1>4. ASSUME NEW fd \in Fds, Close(fd) PROVE Room'
  <2>1. Open' = Open \ {fd}
    BY <1>1, <1>4 DEF Close, TypeOK, Open
  <2>2. IsFiniteSet(Open') /\ Cardinality(Open') <= Cardinality(Open)
    <3>1. IsFiniteSet(Open) /\ Cardinality(Open) \in Nat
      BY FS_CardinalityType DEF Room
    <3>2. /\ IsFiniteSet(Open \ {fd})
          /\ Cardinality(Open \ {fd}) =
               IF fd \in Open THEN Cardinality(Open) - 1 ELSE Cardinality(Open)
      BY <3>1, FS_RemoveElement
    <3> QED
      BY <2>1, <3>1, <3>2
  <2> QED
    BY <2>2, FS_CardinalityType DEF Room
<1>5. CASE Reader \/ UNCHANGED vars
  BY <1>2, <1>5 DEF Reader, CastBegin, CastSkips, CastReaches, CastFails, CastRemoves, CastEnd, vars
<1> QED
  BY <1>2, <1>3, <1>4, <1>5
     DEF Next, Httpd, WebServerStart, AddTakes, AddLooksOn, AddFindsNone, Upgrade

(* More slots than connections: if each is taken, by a connection, then    *)
(* some connection has two.                                                *)
LEMMA Pigeons ==
  ASSUME TypeInv, Room, AddFindsNone,
         \A i \in Slots : s_ws_fds[i] \in Open \ {adding.fd}
  PROVE  \E i, j \in Slots : i # j /\ s_ws_fds[i] = s_ws_fds[j]
<1> DEFINE others == Open \ {adding.fd}
<1>1. IsFiniteSet(Slots) /\ Cardinality(Slots) = MaxWsClients
  BY Constants, FS_Interval DEF Slots
<1>2. adding.fd \in Open
  BY DEF AddFindsNone, TypeInv, TypeOK
<1>3. IsFiniteSet(others) /\ Cardinality(others) = Cardinality(Open) - 1
  BY <1>2, FS_RemoveElement DEF Room
<1>4. Cardinality(others) < Cardinality(Slots)
  <2>1. Cardinality(Open) \in Nat
    BY FS_CardinalityType DEF Room
  <2> QED
    BY <1>1, <1>3, <2>1, SizeAssumption DEF Room
<1>5. s_ws_fds \in [Slots -> others]
  BY DEF TypeInv, TypeOK
<1> QED
  BY <1>1, <1>3, <1>4, <1>5, FS_PigeonHole

(* A browser that finds no slot is turned away by entries that belong to   *)
(* nobody or are there twice.                                              *)
THEOREM OnlyStaleTurnAway == Spec => TurnedAwayByStale
<1> DEFINE why == \/ \E i \in Slots : s_ws_fds[i] \notin Open \ {adding.fd}
                  \/ \E i, j \in Slots : i # j /\ s_ws_fds[i] = s_ws_fds[j]
<1>1. Init => Room
  <2>1. Init => Open = {}
    BY DEF Init, Open
  <2> QED
    BY <2>1, FS_EmptySet, Constants DEF Room
<1>2. ASSUME TypeInv, Room, [Next]_vars PROVE [away' # away => why]_vars
  <2>1. CASE AddFindsNone
    BY <1>2, <2>1, Pigeons
  <2>2. ASSUME ~AddFindsNone PROVE away' = away
    BY <1>2, <2>2 DEF Next, Httpd, Reader, WebServerStart, Accept, Close, Upgrade, AddTakes,
       AddLooksOn, CastBegin, CastSkips, CastReaches, CastFails, CastRemoves, CastEnd,
       httpdVars, castVars, vars
  <2> QED
    BY <2>1, <2>2
<1> QED
  BY <1>1, <1>2, RoomNext, TypeInvariant, PTL DEF Spec, TurnedAwayByStale

=============================================================================
