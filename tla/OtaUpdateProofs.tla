-------------------------- MODULE OtaUpdateProofs --------------------------
(* Proofs about OtaUpdate: for any number of updates, of restarts and of   *)
(* chunks in an image.                                                     *)
EXTENDS OtaUpdate, TLAPS

(* One chunk of a partition is written and the others are left alone.      *)
LEMMA ChunkWritten ==
  ASSUME TypeOK, NEW s \in Slots, NEW n \in 1..Chunks, NEW u,
         flash' = [flash EXCEPT ![s][n] = u]
  PROVE  /\ flash'[s][n] = u
         /\ \A m \in 1..Chunks : m # n => flash'[s][m] = flash[s][m]
         /\ \A r \in Slots : r # s => flash'[r] = flash[r]
         /\ u \in Chunk => flash' \in [Slots -> [1..Chunks -> Chunk]]
<1> DEFINE part == [flash[s] EXCEPT ![n] = u]
<1>1. flash \in [Slots -> [1..Chunks -> Chunk]] /\ flash[s] \in [1..Chunks -> Chunk]
  BY DEF TypeOK
<1>2. /\ part[n] = u
      /\ \A m \in 1..Chunks : m # n => part[m] = flash[s][m]
      /\ u \in Chunk => part \in [1..Chunks -> Chunk]
  BY <1>1
<1>3. flash' = [flash EXCEPT ![s] = part]
  OBVIOUS
<1> QED
  BY <1>1, <1>2, <1>3

(* The two partitions.                                                     *)
LEMMA OtherSlot ==
  \A s \in Slots : Other(s) \in Slots /\ Other(s) # s /\ (\A r \in Slots : r = s \/ r = Other(s))
  BY DEF Slots, Other

(* The initial values are of the right types.                              *)
LEMMA TypeInit == Init => TypeOK
  BY OtaAssumption DEF Init, TypeOK, Slots, Tasks, Chunk, Images, Places

(* Acquiring and giving back change one count of one task.                 *)
LEMMA HoldsChange ==
  ASSUME TypeOK, NEW i \in Tasks
  PROVE  /\ \A r \in Resources : Acquire(i, r) =>
              /\ holds' \in [Tasks -> [Resources -> Int]]
              /\ \A q \in Resources : holds'[i][q] = IF q = r THEN holds[i][q] + 1 ELSE holds[i][q]
              /\ \A j \in Tasks : j # i => holds'[j] = holds[j]
         /\ \A set : GiveBack(i, set) =>
              /\ holds' \in [Tasks -> [Resources -> Int]]
              /\ \A q \in Resources :
                   holds'[i][q] = IF q \in set THEN holds[i][q] - 1 ELSE holds[i][q]
              /\ \A j \in Tasks : j # i => holds'[j] = holds[j]
<1>1. holds \in [Tasks -> [Resources -> Int]] /\ holds[i] \in [Resources -> Int]
  BY DEF TypeOK
<1>2. ASSUME NEW r \in Resources, Acquire(i, r)
      PROVE  /\ holds' \in [Tasks -> [Resources -> Int]]
             /\ \A q \in Resources : holds'[i][q] = IF q = r THEN holds[i][q] + 1 ELSE holds[i][q]
             /\ \A j \in Tasks : j # i => holds'[j] = holds[j]
  <2> DEFINE own == [holds[i] EXCEPT ![r] = @ + 1]
  <2>1. own \in [Resources -> Int]
    BY <1>1
  <2>2. holds' = [holds EXCEPT ![i] = own]
    BY <1>2 DEF Acquire
  <2> QED
    BY <1>1, <2>1, <2>2
<1>3. ASSUME NEW set, GiveBack(i, set)
      PROVE  /\ holds' \in [Tasks -> [Resources -> Int]]
             /\ \A q \in Resources :
                  holds'[i][q] = IF q \in set THEN holds[i][q] - 1 ELSE holds[i][q]
             /\ \A j \in Tasks : j # i => holds'[j] = holds[j]
  <2> DEFINE own == [r \in Resources |-> IF r \in set THEN holds[i][r] - 1 ELSE holds[i][r]]
  <2>1. own \in [Resources -> Int]
    BY <1>1
  <2>2. holds' = [holds EXCEPT ![i] = own]
    BY <1>3 DEF GiveBack
  <2> QED
    BY <1>1, <2>1, <2>2
<1> QED
  BY <1>2, <1>3

(* Every action keeps the types; a download never runs past its partition. *)
LEMMA TypeNext == TypeOK /\ [Next]_vars => TypeOK'
<1> SUFFICES ASSUME TypeOK, [Next]_vars PROVE TypeOK'
  OBVIOUS
<1> USE OtaAssumption DEF Places
<1>1. ASSUME NEW u \in Urls, Start(u) PROVE TypeOK'
  <2>1. starts + 1 \in Tasks /\ starts + 1 \in 0..MaxStarts
    BY <1>1 DEF Start, Tasks, TypeOK
  <2> QED
    BY <1>1, <2>1 DEF Start, TypeOK
<1>2. ASSUME NEW i \in Tasks, Fails(i) PROVE TypeOK'
  <2>1. PICK set : Fail(i, set)
    BY <1>2 DEF Fails, ClientInitFails, OpenFails, BeginFails, AllocFails, WriteFails, EndFails,
                SetBootFails
  <2>2. holds' \in [Tasks -> [Resources -> Int]]
    BY <2>1, HoldsChange DEF Fail
  <2> QED
    BY <2>1, <2>2 DEF Fail, TypeOK
<1>3. ASSUME NEW i \in Tasks, Run(i) \/ Open(i) PROVE TypeOK'
  BY <1>3 DEF Run, Open, TypeOK
<1>4. ASSUME NEW i \in Tasks, ClientInit(i) PROVE TypeOK'
  <2>1. holds' \in [Tasks -> [Resources -> Int]]
    BY <1>4, HoldsChange DEF ClientInit, Resources
  <2> QED
    BY <1>4, <2>1 DEF ClientInit, TypeOK
<1>5. ASSUME NEW i \in Tasks, Begin(i) \/ Alloc(i) PROVE TypeOK'
  <2>1. Other(running) \in Slots
    BY OtherSlot DEF TypeOK
  <2>2. holds' \in [Tasks -> [Resources -> Int]]
    BY <1>5, HoldsChange DEF Begin, Alloc, Resources
  <2> QED
    BY <1>5, <2>1, <2>2 DEF Begin, Alloc, TypeOK
<1>6. ASSUME NEW i \in Tasks, WriteChunk(i) PROVE TypeOK'
  <2>1. wrote[i] + 1 \in 1..Chunks
    BY <1>6 DEF WriteChunk, TypeOK
  <2>2. flash' \in [Slots -> [1..Chunks -> Chunk]]
    BY <1>6, <2>1, ChunkWritten DEF WriteChunk, Chunk, Images, TypeOK
  <2>3. wrote' \in [Tasks -> 0..Chunks]
    BY <1>6, <2>1 DEF WriteChunk, TypeOK
  <2> QED
    BY <1>6, <2>2, <2>3 DEF WriteChunk, TypeOK
<1>7. ASSUME NEW i \in Tasks, ReadEnds(i) \/ End(i) PROVE TypeOK'
  <2>1. holds' \in [Tasks -> [Resources -> Int]]
    BY <1>7, HoldsChange DEF ReadEnds, End
  <2> QED
    BY <1>7, <2>1 DEF ReadEnds, End, TypeOK
<1>8. ASSUME NEW i \in Tasks, SetBoot(i) \/ Announce(i) PROVE TypeOK'
  <2>1. target[i] \in Slots
    BY DEF TypeOK
  <2>2. CASE SetBoot(i)
    BY <2>1, <2>2 DEF SetBoot, TypeOK
  <2>3. CASE Announce(i)
    BY <2>3 DEF Announce, TypeOK
  <2> QED
    BY <1>8, <2>2, <2>3
<1>9. ASSUME Reboot PROVE TypeOK'
  BY <1>9, OtherSlot DEF Reboot, TypeOK
<1>10. CASE UNCHANGED vars
  BY <1>10 DEF vars, taskVars, TypeOK
<1> QED
  BY <1>1, <1>2, <1>3, <1>4, <1>5, <1>6, <1>7, <1>8, <1>9, <1>10
     DEF Next, Ota, Goes, Restart, PowerLoss

(* The update works on values of the right types only.                     *)
THEOREM TypeCorrect == Spec => []TypeOK
  BY TypeInit, TypeNext, PTL DEF Spec

-----------------------------------------------------------------------------
(* The running partition has a complete image and nobody writes to it.     *)
Placed == {"malloc", "read", "end", "boot", "announce", "delay"}

RunningSafe ==
  /\ Valid(flash[running])
  /\ \A i \in Tasks : task[i] \in Placed => target[i] # running

(* The device runs a complete image at first.                              *)
LEMMA RunningInit == Init => RunningSafe
  BY DEF Init, RunningSafe, Placed, Valid, Images, Slots

(* The partition to write to is chosen among those that are not running,   *)
(* and only a restart changes which one is running.                        *)
LEMMA RunningNext == TypeOK /\ RunningSafe /\ [Next]_vars => RunningSafe'
<1> SUFFICES ASSUME TypeOK, RunningSafe, [Next]_vars PROVE RunningSafe'
  OBVIOUS
<1> USE DEF RunningSafe, Placed
<1>0. task \in [Tasks -> Places] /\ target \in [Tasks -> Slots] /\ running \in Slots /\ boot \in Slots
  BY DEF TypeOK
<1>1. ASSUME NEW u \in Urls, Start(u) PROVE RunningSafe'
  BY <1>0, <1>1 DEF Start
<1>2. ASSUME NEW i \in Tasks, Fails(i) PROVE RunningSafe'
  <2>1. PICK set : Fail(i, set)
    BY <1>2 DEF Fails, ClientInitFails, OpenFails, BeginFails, AllocFails, WriteFails, EndFails,
                SetBootFails
  <2> QED
    BY <1>0, <2>1 DEF Fail
<1>3. ASSUME NEW i \in Tasks,
             \/ Run(i) \/ ClientInit(i) \/ Open(i) \/ Alloc(i)
             \/ ReadEnds(i) \/ End(i) \/ SetBoot(i) \/ Announce(i)
      PROVE  RunningSafe'
  <2>1. \E to \in Placed \cup {"connect", "open", "begin"} :
          task' = [task EXCEPT ![i] = to] /\ (to \in Placed => task[i] \in Placed)
    BY <1>3 DEF Run, ClientInit, Open, Alloc, ReadEnds, End, SetBoot, Announce
  <2>2. target' = target /\ flash' = flash /\ running' = running
    BY <1>3 DEF Run, ClientInit, Open, Alloc, ReadEnds, End, SetBoot, Announce
  <2> QED
    BY <1>0, <2>1, <2>2
<1>4. ASSUME NEW i \in Tasks, Begin(i) PROVE RunningSafe'
  BY <1>0, <1>4, OtherSlot DEF Begin
<1>5. ASSUME NEW i \in Tasks, WriteChunk(i) PROVE RunningSafe'
  <2>1. wrote[i] + 1 \in 1..Chunks
    BY <1>5, OtaAssumption DEF WriteChunk, TypeOK
  <2>2. flash'[running] = flash[running]
    BY <1>0, <1>5, <2>1, ChunkWritten DEF WriteChunk
  <2> QED
    BY <1>5, <2>2 DEF WriteChunk
<1>6. ASSUME Reboot PROVE RunningSafe'
  <2>1. Valid(flash[running'])
    BY <1>0, <1>6, OtherSlot DEF Reboot
  <2>2. \A i \in Tasks : task'[i] \notin Placed
    BY <1>6 DEF Reboot
  <2> QED
    BY <1>6, <2>1, <2>2 DEF Reboot
<1>7. CASE UNCHANGED vars
  BY <1>7 DEF vars, taskVars
<1> QED
  BY <1>1, <1>2, <1>3, <1>4, <1>5, <1>6, <1>7 DEF Next, Ota, Goes, Restart, PowerLoss

(* Whatever the clients do, however often the power fails, and whatever    *)
(* the servers send, there is a complete image for the bootloader to take: *)
(* an update only ever writes to the partition that is not running.        *)
THEOREM Bootable == Spec => []NeverBricked
<1>1. TypeOK /\ RunningSafe => NeverBricked
  BY OtherSlot DEF TypeOK, RunningSafe, NeverBricked
<1> QED
  BY <1>1, RunningInit, RunningNext, TypeCorrect, PTL DEF Spec

-----------------------------------------------------------------------------
(* A task that has not been asked for does not exist.                      *)
Unused == \A i \in Tasks : i > starts => task[i] = "none"

(* Tasks are created in turn, and only those that exist make steps.        *)
LEMMA UnusedCorrect == Spec => []Unused
<1>1. Init => Unused
  BY DEF Init, Unused
<1>2. TypeOK /\ Unused /\ [Next]_vars => Unused'
  <2> SUFFICES ASSUME TypeOK, Unused, [Next]_vars PROVE Unused'
    OBVIOUS
  <2>0. task \in [Tasks -> Places] /\ starts \in Nat /\ Tasks \subseteq Nat
    BY OtaAssumption DEF TypeOK, Tasks
  <2>1. ASSUME NEW u \in Urls, Start(u) PROVE Unused'
    BY <2>0, <2>1 DEF Start, Unused
  <2>2. ASSUME NEW i \in Tasks, Goes(i) \/ Fails(i) PROVE Unused'
    <3>1. task[i] # "none" /\ starts' = starts
      BY <2>2 DEF Goes, Run, ClientInit, Open, Begin, Alloc, WriteChunk, ReadEnds, End, SetBoot,
                  Announce, Fails, ClientInitFails, OpenFails, BeginFails, AllocFails,
                  WriteFails, EndFails, SetBootFails, Fail
    <3>2. \A j \in Tasks : j # i => task'[j] = task[j]
      BY <2>0, <2>2 DEF Goes, Run, ClientInit, Open, Begin, Alloc, WriteChunk, ReadEnds, End,
                  SetBoot, Announce, Fails, ClientInitFails, OpenFails, BeginFails, AllocFails,
                  WriteFails, EndFails, SetBootFails, Fail
    <3> QED
      BY <3>1, <3>2 DEF Unused
  <2>3. ASSUME Reboot PROVE Unused'
    BY <2>0, <2>3 DEF Reboot, Unused
  <2>4. CASE UNCHANGED vars
    BY <2>4 DEF vars, taskVars, Unused
  <2> QED
    BY <2>1, <2>2, <2>3, <2>4 DEF Next, Ota, Restart, PowerLoss
<1> QED
  BY <1>1, <1>2, TypeCorrect, PTL DEF Spec

(* What ota_task has in its hands at each place.                           *)
InHands(place) ==
  CASE place \in {"open", "begin"} -> {"client"}
    [] place = "malloc" -> {"client", "handle"}
    [] place = "read" -> Resources
    [] place = "end" -> {"handle"}
    [] OTHER -> {}

Accounted ==
  \A i \in Tasks : \A r \in Resources : holds[i][r] = IF r \in InHands(task[i]) THEN 1 ELSE 0

(* A step of one task, by what it takes or gives back, keeps the accounts. *)
LEMMA AccountedStep ==
  ASSUME TypeOK, Accounted, NEW i \in Tasks, NEW to \in Places,
         task' = [task EXCEPT ![i] = to],
         \/ /\ holds' = holds
            /\ InHands(to) = InHands(task[i])
         \/ \E r \in Resources : /\ Acquire(i, r)
                                 /\ r \notin InHands(task[i])
                                 /\ InHands(to) = InHands(task[i]) \cup {r}
         \/ \E set \in SUBSET Resources : /\ GiveBack(i, set)
                                          /\ set \subseteq InHands(task[i])
                                          /\ InHands(to) = InHands(task[i]) \ set
  PROVE  Accounted'
<1>1. /\ task \in [Tasks -> Places] /\ task'[i] = to
      /\ \A j \in Tasks : j # i => task'[j] = task[j]
  BY DEF TypeOK
<1>2. \A j \in Tasks : j # i => holds'[j] = holds[j]
  BY HoldsChange
<1>3. \A r \in Resources : holds[i][r] = IF r \in InHands(task[i]) THEN 1 ELSE 0
  BY DEF Accounted
<1>4. \A r \in Resources : holds'[i][r] = IF r \in InHands(to) THEN 1 ELSE 0
  <2>1. CASE holds' = holds /\ InHands(to) = InHands(task[i])
    BY <1>3, <2>1
  <2>2. ASSUME NEW r \in Resources, Acquire(i, r), r \notin InHands(task[i]),
               InHands(to) = InHands(task[i]) \cup {r}
        PROVE  \A q \in Resources : holds'[i][q] = IF q \in InHands(to) THEN 1 ELSE 0
    <3>1. \A q \in Resources : holds'[i][q] = IF q = r THEN holds[i][q] + 1 ELSE holds[i][q]
      BY <2>2, HoldsChange
    <3> QED
      BY <1>3, <2>2, <3>1
  <2>3. ASSUME NEW set \in SUBSET Resources, GiveBack(i, set), set \subseteq InHands(task[i]),
               InHands(to) = InHands(task[i]) \ set
        PROVE  \A q \in Resources : holds'[i][q] = IF q \in InHands(to) THEN 1 ELSE 0
    <3>1. \A q \in Resources :
            holds'[i][q] = IF q \in set THEN holds[i][q] - 1 ELSE holds[i][q]
      BY <2>3, HoldsChange
    <3> QED
      BY <1>3, <2>3, <3>1
  <2> QED
    BY <2>1, <2>2, <2>3
<1> QED
  BY <1>1, <1>2, <1>4 DEF Accounted

(* The branches of ota_task, each with its own calls, keep the accounts.   *)
LEMMA AccountedNext == TypeOK /\ Unused /\ Accounted /\ [Next]_vars => Accounted'
<1> SUFFICES ASSUME TypeOK, Unused, Accounted, [Next]_vars PROVE Accounted'
  OBVIOUS
<1>1. task \in [Tasks -> Places] /\ starts \in 0..MaxStarts
  BY DEF TypeOK
<1>2. /\ InHands("connect") = {} /\ InHands("open") = {"client"} /\ InHands("begin") = {"client"}
      /\ InHands("malloc") = {"client", "handle"} /\ InHands("read") = Resources
      /\ InHands("end") = {"handle"} /\ InHands("boot") = {} /\ InHands("announce") = {}
      /\ InHands("delay") = {} /\ InHands("ended") = {} /\ InHands("none") = {}
      /\ InHands("created") = {} /\ InHands("refused") = {}
  BY DEF InHands
<1>3. ASSUME NEW u \in Urls, Start(u) PROVE Accounted'
  <2>1. starts + 1 \in Tasks
    BY <1>1, <1>3, OtaAssumption DEF Start, Tasks
  <2>2. PICK outcome \in {"created", "refused"} : task' = [task EXCEPT ![starts + 1] = outcome]
    BY <1>3 DEF Start
  <2>3. task[starts + 1] = "none"
    BY <1>1, <2>1 DEF Unused
  <2> QED
    BY <1>2, <1>3, <2>1, <2>2, <2>3, AccountedStep DEF Start, Places
<1>4. ASSUME NEW i \in Tasks, Goes(i) PROVE Accounted'
  <2>1. CASE Run(i) \/ Open(i) \/ SetBoot(i) \/ Announce(i)
    BY <1>2, <2>1, AccountedStep DEF Run, Open, SetBoot, Announce, Places
  <2>2. CASE ClientInit(i)
    BY <1>2, <2>2, AccountedStep DEF ClientInit, Places, Resources
  <2>3. CASE Begin(i)
    BY <1>2, <2>3, AccountedStep DEF Begin, Places, Resources
  <2>4. CASE Alloc(i)
    BY <1>2, <2>4, AccountedStep DEF Alloc, Places, Resources
  <2>5. CASE WriteChunk(i)
    BY <2>5 DEF WriteChunk, Accounted
  <2>6. CASE ReadEnds(i)
    <3>1. /\ {"buffer", "client"} \in SUBSET Resources
          /\ {"buffer", "client"} \subseteq InHands("read")
          /\ InHands("end") = InHands("read") \ {"buffer", "client"}
      BY <1>2 DEF Resources
    <3>2. /\ task[i] = "read" /\ GiveBack(i, {"buffer", "client"})
          /\ task' = [task EXCEPT ![i] = "end"] /\ "end" \in Places
      BY <2>6 DEF ReadEnds, Places
    <3> QED
      BY <3>1, <3>2, AccountedStep
  <2>7. CASE End(i)
    <3>1. /\ {"handle"} \in SUBSET Resources /\ {"handle"} \subseteq InHands("end")
          /\ InHands("boot") = InHands("end") \ {"handle"}
      BY <1>2 DEF Resources
    <3>2. /\ task[i] = "end" /\ GiveBack(i, {"handle"})
          /\ task' = [task EXCEPT ![i] = "boot"] /\ "boot" \in Places
      BY <2>7 DEF End, Places
    <3> QED
      BY <3>1, <3>2, AccountedStep
  <2> QED
    BY <1>4, <2>1, <2>2, <2>3, <2>4, <2>5, <2>6, <2>7 DEF Goes
<1>5. ASSUME NEW i \in Tasks, Fails(i) PROVE Accounted'
  <2>1. \E set \in SUBSET Resources : Fail(i, set) /\ set = InHands(task[i])
    BY <1>2, <1>5 DEF Fails, ClientInitFails, OpenFails, BeginFails, AllocFails, WriteFails,
                      EndFails, SetBootFails, Resources
  <2>2. PICK set \in SUBSET Resources : Fail(i, set) /\ set = InHands(task[i])
    BY <2>1
  <2>3. set \subseteq InHands(task[i]) /\ InHands("ended") = InHands(task[i]) \ set
    BY <1>2, <2>2
  <2>4. GiveBack(i, set) /\ task' = [task EXCEPT ![i] = "ended"] /\ "ended" \in Places
    BY <2>2 DEF Fail, Places
  <2> QED
    BY <2>2, <2>3, <2>4, AccountedStep
<1>6. ASSUME Reboot PROVE Accounted'
  BY <1>2, <1>6 DEF Reboot, Accounted
<1>7. CASE UNCHANGED vars
  BY <1>7 DEF vars, taskVars, Accounted
<1> QED
  BY <1>3, <1>4, <1>5, <1>6, <1>7 DEF Next, Ota, Restart, PowerLoss

(* Every way out of ota_task gives back the client, the handle and the     *)
(* buffer as far as it has them, once each: the branches release what has  *)
(* been acquired at their place in the code, no less and no more.          *)
THEOREM Released == Spec => []NothingKept
<1>1. Init => Accounted
  BY DEF Init, Accounted, InHands
<1>2. Accounted => NothingKept
  BY DEF Accounted, NothingKept, Active, InHands
<1> QED
  BY <1>1, <1>2, AccountedNext, TypeCorrect, UnusedCorrect, PTL DEF Spec

-----------------------------------------------------------------------------
(* With patient clients.  There is one update at a time, and the status    *)
(* tells whether there is one; an update writes, verifies and chooses the  *)
(* image it was asked for; the boot partition is the running one until the *)
(* update has chosen.                                                      *)
Chosen == {"announce", "delay"}

(* What the answer "OTA already in progress." (ota_update.c:124) is for.   *)
OneAtATime == \A i, j \in Tasks : Active(i) /\ Active(j) => i = j

(* While the status is "starting" nothing is done.                         *)
NotYetRun == s_status = "starting" => \A i \in Tasks : Active(i) => task[i] = "created"

OneUpdate == StatusHonest /\ OneAtATime /\ NotYetRun

Fresh ==
  \A i \in Tasks :
    /\ i > starts => task[i] = "none"
    /\ task[i] \in {"none", "created", "connect", "open", "begin", "malloc"} => wrote[i] = 0

AskedFor ==
  \A i \in Tasks :
    /\ Active(i) => asked[i] \in Urls
    /\ task[i] \in {"created", "connect"} => s_url = asked[i]
    /\ task[i] \in {"open", "begin", "malloc", "read", "end"} => url[i] = asked[i]
    /\ task[i] \in {"read", "end"} /\ wrote[i] > 0 => flash[target[i]][1] = asked[i]
    /\ task[i] \in {"boot"} \cup Chosen => \A n \in 1..Chunks : flash[target[i]][n] = asked[i]

BootChosen ==
  /\ \A i \in Tasks : task[i] \in Chosen => boot = target[i]
  /\ (\A i \in Tasks : task[i] \notin Chosen) => boot = running

PatientInv == OneUpdate /\ Fresh /\ AskedFor /\ BootChosen

(* The boot partition is the running one at first.                         *)
LEMMA PatientInit == Init => PatientInv
  BY OtaAssumption DEF Init, PatientInv, OneUpdate, StatusHonest, OneAtATime, NotYetRun, Fresh, AskedFor,
                       BootChosen, Active, Chosen, Tasks

(* A patient client starts an update when there is none.                   *)
LEMMA PatientStart ==
  ASSUME Patient, TypeOK, PatientInv, NEW u \in Urls, Start(u)
  PROVE  PatientInv'
<1> USE DEF PatientInv, Active
<1>1. /\ task \in [Tasks -> Places]
      /\ asked \in [Tasks -> Urls \cup {NoUrl}]
      /\ starts \in 0..MaxStarts /\ MaxStarts \in Nat
  BY OtaAssumption DEF TypeOK
<1>2. starts + 1 \in Tasks /\ task[starts + 1] = "none" /\ Tasks \subseteq Nat
  BY <1>1 DEF Start, Fresh, Tasks
<1>3. \A i \in Tasks : task[i] \in {"none", "refused", "ended"}
  BY DEF Start, OneUpdate, StatusHonest
<1>4. /\ task'[starts + 1] \in {"created", "refused"} /\ asked'[starts + 1] = u
      /\ \A i \in Tasks : i # starts + 1 => task'[i] = task[i] /\ asked'[i] = asked[i]
  BY <1>1, <1>2 DEF Start
<1>5. OneUpdate'
  <2>1. starts' = starts + 1 /\ s_status' = "starting" /\ starts' > 0
    BY <1>1 DEF Start
  <2> QED
    BY <1>2, <1>3, <1>4, <2>1 DEF OneUpdate, StatusHonest, OneAtATime, NotYetRun
<1>6. Fresh'
  <2>1. starts' = starts + 1 /\ wrote' = wrote
    BY DEF Start
  <2> QED
    BY <1>1, <1>2, <1>4, <2>1 DEF Fresh
<1>7. AskedFor'
  BY <1>2, <1>3, <1>4 DEF Start, AskedFor, Chosen
<1>8. BootChosen'
  BY <1>2, <1>3, <1>4 DEF Start, BootChosen, Chosen
<1> QED
  BY <1>5, <1>6, <1>7, <1>8

(* The update that is being made fails.                                    *)
LEMMA PatientFails ==
  ASSUME TypeOK, PatientInv, NEW i \in Tasks, Fails(i)
  PROVE  PatientInv'
<1> USE DEF PatientInv, Active
<1>1. PICK set : Fail(i, set)
  BY DEF Fails, ClientInitFails, OpenFails, BeginFails, AllocFails, WriteFails, EndFails,
         SetBootFails
<1>2. Active(i) /\ task[i] \notin Chosen
  BY DEF Fails, ClientInitFails, OpenFails, BeginFails, AllocFails, WriteFails, EndFails,
         SetBootFails, Chosen
<1>3. \A j \in Tasks : j # i => task[j] \in {"none", "refused", "ended"}
  BY <1>2 DEF OneUpdate, OneAtATime
<1>4. /\ task'[i] = "ended" /\ s_status' = "failed"
      /\ \A j \in Tasks : j # i => task'[j] = task[j]
      /\ UNCHANGED <<s_url, starts, asked, url, target, wrote, flash, boot, running>>
  BY <1>1 DEF Fail, TypeOK
<1>5. \A j \in Tasks : task'[j] \in {"none", "refused", "ended"}
  BY <1>3, <1>4
<1>6. OneUpdate'
  BY <1>4, <1>5 DEF OneUpdate, StatusHonest, OneAtATime, NotYetRun
<1>7. Fresh'
  BY <1>2, <1>4 DEF Fresh
<1>8. AskedFor'
  BY <1>5 DEF AskedFor, Chosen
<1>9. BootChosen'
  BY <1>2, <1>3, <1>4, <1>5 DEF BootChosen, Chosen
<1> QED
  BY <1>6, <1>7, <1>8, <1>9

(* The update that is being made goes on.                                  *)
LEMMA PatientStep ==
  ASSUME TypeOK, RunningSafe, PatientInv, NEW i \in Tasks, Goes(i)
  PROVE  PatientInv'
<1> USE DEF PatientInv, Active, Goes
<1>1. /\ task \in [Tasks -> Places]
      /\ s_url \in Urls \cup {NoUrl}
      /\ asked \in [Tasks -> Urls \cup {NoUrl}]
      /\ url \in [Tasks -> Urls \cup {NoUrl}]
      /\ target \in [Tasks -> Slots]
      /\ wrote \in [Tasks -> 0..Chunks]
      /\ boot \in Slots /\ running \in Slots
      /\ Chunks \in Nat \ {0}
  BY OtaAssumption DEF TypeOK
<1>2. Active(i)
  BY DEF Run, ClientInit, Open, Begin, Alloc, WriteChunk, ReadEnds, End, SetBoot, Announce
<1>3. \A j \in Tasks : j # i => task[j] \in {"none", "refused", "ended"}
  BY <1>2 DEF OneUpdate, OneAtATime
<1>4. /\ starts' = starts /\ asked' = asked /\ s_url' = s_url /\ running' = running
      /\ \A j \in Tasks : j # i => /\ task'[j] = task[j] /\ url'[j] = url[j]
                                  /\ target'[j] = target[j] /\ wrote'[j] = wrote[j]
  BY <1>1 DEF Run, ClientInit, Open, Begin, Alloc, WriteChunk, ReadEnds, End, SetBoot, Announce
<1>5. task'[i] \notin {"none", "refused", "ended", "created"}
  BY <1>1, <1>2 DEF Run, ClientInit, Open, Begin, Alloc, WriteChunk, ReadEnds, End, SetBoot,
                    Announce
<1>6. OneUpdate'
  <2>1. s_status' \notin {"idle", "failed"}
    BY <1>2 DEF Run, ClientInit, Open, Begin, Alloc, WriteChunk, ReadEnds, End, SetBoot,
                Announce, OneUpdate, StatusHonest
  <2>2. s_status' # "starting"
    <3>1. CASE Run(i) \/ Announce(i)
      BY <3>1 DEF Run, Announce
    <3>2. CASE ~Run(i) /\ ~Announce(i)
      <4>1. s_status' = s_status /\ task[i] # "created"
        BY <3>2 DEF ClientInit, Open, Begin, Alloc, WriteChunk, ReadEnds, End, SetBoot
      <4> QED
        BY <1>2, <4>1 DEF OneUpdate, NotYetRun
    <3> QED
      BY <3>1, <3>2
  <2> QED
    BY <1>3, <1>4, <1>5, <2>1, <2>2 DEF OneUpdate, StatusHonest, OneAtATime, NotYetRun
<1>7. Fresh'
  <2>1. task'[i] \in {"connect", "open", "begin", "malloc"} =>
          wrote'[i] = wrote[i] /\ task[i] \in {"created", "connect", "open", "begin"}
    BY <1>1 DEF Run, ClientInit, Open, Begin, Alloc, WriteChunk, ReadEnds, End, SetBoot,
                Announce
  <2> QED
    BY <1>2, <1>4, <1>5, <2>1 DEF Fresh
<1>8. /\ asked[i] \in Urls
      /\ task'[i] = "connect" => s_url = asked[i]
      /\ task'[i] \in {"open", "begin", "malloc", "read", "end"} => url'[i] = asked[i]
  <2>1. asked[i] \in Urls
    BY <1>2 DEF AskedFor
  <2>2. CASE Run(i) \/ ClientInit(i)
    BY <1>1, <2>2 DEF Run, ClientInit, AskedFor
  <2>3. CASE ~Run(i) /\ ~ClientInit(i)
    <3>1. url' = url /\ task'[i] # "connect"
      BY <1>1, <2>3 DEF Open, Begin, Alloc, WriteChunk, ReadEnds, End, SetBoot, Announce
    <3>2. task'[i] \in {"open", "begin", "malloc", "read", "end"} =>
            task[i] \in {"open", "begin", "malloc", "read", "end"}
      BY <1>1, <2>3 DEF Open, Begin, Alloc, WriteChunk, ReadEnds, End, SetBoot, Announce
    <3>3. task[i] \in {"open", "begin", "malloc", "read", "end"} => url[i] = asked[i]
      BY DEF AskedFor
    <3> QED
      BY <2>1, <3>1, <3>2, <3>3
  <2> QED
    BY <2>1, <2>2, <2>3
<1>9. task'[i] \in {"read", "end"} /\ wrote'[i] > 0 => flash'[target'[i]][1] = asked[i]
  <2>1. CASE WriteChunk(i)
    <3>1. wrote[i] + 1 \in 1..Chunks /\ 1 \in 1..Chunks /\ target[i] \in Slots
      BY <1>1, <2>1 DEF WriteChunk
    <3>2. url[i] = asked[i] /\ (wrote[i] > 0 => flash[target[i]][1] = asked[i])
      BY <2>1 DEF WriteChunk, AskedFor
    <3>3. /\ flash'[target[i]][wrote[i] + 1] = url[i]
          /\ wrote[i] + 1 # 1 => flash'[target[i]][1] = flash[target[i]][1]
      <4>1. PICK s \in Slots, n \in 1..Chunks : s = target[i] /\ n = wrote[i] + 1
        BY <3>1
      <4>2. flash' = [flash EXCEPT ![s][n] = url[i]]
        BY <2>1, <4>1 DEF WriteChunk
      <4>3. flash'[s][n] = url[i] /\ \A m \in 1..Chunks : m # n => flash'[s][m] = flash[s][m]
        <5> DEFINE part == [flash[s] EXCEPT ![n] = url[i]]
        <5>1. flash \in [Slots -> [1..Chunks -> Chunk]] /\ flash[s] \in [1..Chunks -> Chunk]
          BY DEF TypeOK
        <5>2. part[n] = url[i] /\ \A m \in 1..Chunks : m # n => part[m] = flash[s][m]
          BY <5>1
        <5>3. flash' = [flash EXCEPT ![s] = part]
          BY <4>2
        <5> QED
          BY <5>1, <5>2, <5>3
      <4> QED
        BY <3>1, <4>1, <4>3
    <3>4. wrote[i] + 1 = 1 \/ wrote[i] > 0
      BY <1>1
    <3>5. flash'[target[i]][1] = asked[i]
      BY <3>2, <3>3, <3>4
    <3> QED
      BY <2>1, <3>5 DEF WriteChunk
  <2>2. CASE Alloc(i)
    <3>1. wrote'[i] = 0
      BY <2>2 DEF Alloc, Fresh
    <3> QED
      BY <3>1
  <2>3. CASE ReadEnds(i)
    BY <1>1, <2>3 DEF ReadEnds, AskedFor
  <2>4. CASE ~WriteChunk(i) /\ ~Alloc(i) /\ ~ReadEnds(i)
    <3>1. task'[i] \notin {"read", "end"}
      BY <1>1, <2>4 DEF Run, ClientInit, Open, Begin, End, SetBoot, Announce
    <3> QED
      BY <3>1
  <2> QED
    BY <2>1, <2>2, <2>3, <2>4
<1>10. task'[i] \in {"boot"} \cup Chosen =>
         \A n \in 1..Chunks : flash'[target'[i]][n] = asked[i]
  <2>1. CASE End(i)
    <3>1. Valid(flash[target[i]]) /\ flash[target[i]][1] = asked[i]
      BY <1>1, <2>1 DEF End, AskedFor
    <3>2. \A n \in 1..Chunks : flash[target[i]][n] = asked[i]
      BY <1>1, <3>1 DEF Valid
    <3> QED
      BY <2>1, <3>2 DEF End
  <2>2. CASE ~End(i)
    BY <1>1, <2>2 DEF AskedFor, Chosen, Run, ClientInit, Open, Begin, Alloc, WriteChunk,
                      ReadEnds, SetBoot, Announce
  <2> QED
    BY <2>1, <2>2
<1>11. AskedFor'
  <2>1. \A j \in Tasks : j # i => task'[j] \in {"none", "refused", "ended"}
    BY <1>3, <1>4
  <2> QED
    BY <1>4, <1>5, <1>8, <1>9, <1>10, <2>1 DEF AskedFor, Chosen
<1>12. BootChosen'
  <2>1. \A j \in Tasks : j # i => task[j] \notin Chosen /\ task'[j] \notin Chosen
    BY <1>3, <1>4 DEF Chosen
  <2>2. CASE SetBoot(i)
    BY <1>1, <2>1, <2>2 DEF SetBoot, BootChosen, Chosen
  <2>3. CASE ~SetBoot(i)
    <3>1. /\ boot' = boot
          /\ task'[i] \in Chosen <=> task[i] \in Chosen
          /\ task'[i] \in Chosen => target'[i] = target[i]
      BY <1>1, <2>3 DEF Chosen, Run, ClientInit, Open, Begin, Alloc, WriteChunk, ReadEnds, End,
                        Announce
    <3> QED
      BY <1>4, <2>1, <3>1 DEF BootChosen
  <2> QED
    BY <2>2, <2>3
<1> QED
  BY <1>6, <1>7, <1>11, <1>12

(* The boot partition holds an image: the running one, or the one chosen.  *)
LEMMA BootHasImage == TypeOK /\ RunningSafe /\ PatientInv => AlwaysBootable
<1> SUFFICES ASSUME TypeOK, RunningSafe, PatientInv PROVE AlwaysBootable
  OBVIOUS
<1>1. CASE \E i \in Tasks : task[i] \in Chosen
  <2>1. PICK i \in Tasks : task[i] \in Chosen
    BY <1>1
  <2>2. boot = target[i] /\ asked[i] \in Urls /\ \A n \in 1..Chunks : flash[target[i]][n] = asked[i]
    BY <2>1 DEF PatientInv, BootChosen, AskedFor, Active, Chosen
  <2> QED
    BY <2>2 DEF AlwaysBootable, Valid, Images
<1>2. CASE \A i \in Tasks : task[i] \notin Chosen
  BY <1>2 DEF PatientInv, BootChosen, RunningSafe, AlwaysBootable
<1> QED
  BY <1>1, <1>2

(* A restart takes the boot partition: it has an image.                    *)
LEMMA PatientReboot ==
  ASSUME TypeOK, RunningSafe, PatientInv, Reboot
  PROVE  PatientInv'
<1>1. running' = boot /\ boot' = boot
  BY BootHasImage DEF Reboot, AlwaysBootable
<1>2. \A i \in Tasks : task'[i] = IF i <= starts THEN "ended" ELSE "none"
  BY DEF Reboot
<1>3. Fresh'
  <2>1. starts \in Nat /\ starts' = starts /\ wrote' = wrote /\ Tasks \subseteq Nat
    BY OtaAssumption DEF TypeOK, Reboot, Tasks
  <2> QED
    BY <1>2, <2>1 DEF Fresh, PatientInv
<1> QED
  BY <1>1, <1>2, <1>3 DEF Reboot, PatientInv, OneUpdate, StatusHonest, OneAtATime, NotYetRun, AskedFor,
     BootChosen, Active, Chosen

(* The four parts hold together while clients are patient.                 *)
LEMMA PatientCorrect ==
  ASSUME Patient PROVE Spec => [](TypeOK /\ RunningSafe /\ PatientInv)
<1>1. TypeOK /\ RunningSafe /\ PatientInv /\ [Next]_vars => PatientInv'
  <2> SUFFICES ASSUME TypeOK, RunningSafe, PatientInv, [Next]_vars PROVE PatientInv'
    OBVIOUS
  <2>1. CASE UNCHANGED vars
    BY <2>1 DEF vars, taskVars, PatientInv, OneUpdate, StatusHonest, OneAtATime, NotYetRun, Fresh,
                AskedFor, BootChosen, Active
  <2> QED
    BY <2>1, PatientStart, PatientFails, PatientStep, PatientReboot
       DEF Next, Ota, Restart, PowerLoss
<1> QED
  BY <1>1, TypeInit, TypeNext, RunningInit, RunningNext, PatientInit, PTL DEF Spec

(* If clients wait for the end of an update before they ask for the next,  *)
(* the boot partition has a complete image at every moment the power may   *)
(* fail.                                                                   *)
THEOREM BootAlwaysWhole ==
  ASSUME Patient PROVE Spec => []AlwaysBootable
  BY PatientCorrect, BootHasImage, PTL

(* If clients are patient, what is chosen to boot is the image that was    *)
(* asked for, and nothing else: neither what an earlier update has left in *)
(* the partition nor the image of another request.                         *)
THEOREM BootsTheRequest ==
  ASSUME Patient PROVE Spec => []BootsWhatWasAsked
<1>1. PatientInv => BootsWhatWasAsked
  BY DEF PatientInv, BootChosen, AskedFor, BootsWhatWasAsked, Chosen
<1> QED
  BY <1>1, PatientCorrect, PTL

(* If clients are patient, "downloading" and "success" mean that an update *)
(* is being made, "idle" and "failed" that none is, and "starting" that    *)
(* the task of the last request has not run yet or was never created.      *)
THEOREM StatusTold ==
  ASSUME Patient PROVE Spec => []StatusHonest
<1>1. PatientInv => StatusHonest
  BY DEF PatientInv, OneUpdate
<1> QED
  BY <1>1, PatientCorrect, PTL

=============================================================================
