--------------------------- MODULE WebhookProofs ---------------------------
(***************************************************************************)
(* Proofs about Webhook and the configuration in GwConfig: for any number  *)
(* of requests, restarts, flash faults and messages and any length of the  *)
(* queue.                                                                  *)
EXTENDS Webhook, SequenceTheorems, TLAPS

USE DEF fates

-----------------------------------------------------------------------------
(* The configuration.                                                      *)

(* The nine keys and the values they can have.                             *)
LEMMA KeyFacts ==
  /\ DOMAIN KeyAt = 1..9
  /\ \A i \in 1..9 : KeyAt[i] \in Keys
  /\ \A k \in Keys : \E i \in 1..9 : KeyAt[i] = k
  /\ "api_key" \in Keys
<1>1. DOMAIN KeyAt = 1..9
  BY DEF KeyAt
<1>2. KeyAt[8] = "api_key"
  BY DEF KeyAt
<1>3. 8 \in 1..9
  OBVIOUS
<1> QED
  BY <1>1, <1>2, <1>3 DEF Keys

(* No value is taken for a missing one, and a later start makes something  *)
(* else only of a weak API key.                                            *)
LEMMA ValueFacts ==
  /\ "missing" \notin Values
  /\ NewKeys \subseteq Values
  /\ \A k \in Keys : Default(k) \in Values /\ Domain(k) \subseteq Values
  /\ \A k \in Keys : \A v \in Values : Outcome(k, v) \subseteq Values /\ v \in Outcome(k, v)
  /\ \A v \in NewKeys : ~Weak(v)
<1>1. "missing" \notin Values
  BY UrlAssumption DEF Values
<1>2. NewKeys \subseteq Values
  BY DEF Values
<1>3. \A k \in Keys : Default(k) \in Values
  BY DEF Default, Values
<1>4. \A k \in Keys : Domain(k) \subseteq Values
  BY DEF Domain, Values
<1>5. \A k \in Keys : \A v \in Values : Outcome(k, v) \subseteq Values /\ v \in Outcome(k, v)
  BY <1>2 DEF Outcome
<1>6. \A v \in NewKeys : ~Weak(v)
  BY NewKeyAssumption DEF Weak
<1> QED
  BY <1>1, <1>2, <1>3, <1>4, <1>5, <1>6

(* What a client may find covers what NVS holds and what the gateway uses, *)
(* with everything a later start could make of it; and what a save has     *)
(* written, and did not fail on, is in NVS.                                *)
Covered ==
  /\ \A k \in Keys : Outcome(k, Stored(k)) \subseteq promised[k]
  /\ boot # "load" => \A k \in Keys : Outcome(k, s_config[k]) \subseteq promised[k]
  /\ \A i \in 1..9 : i < saving /\ KeyAt[i] \notin failed => nvs[KeyAt[i]] = s_config[KeyAt[i]]

ConfigInv == TypeOK /\ Covered

(* What NVS holds is a value.                                              *)
LEMMA StoredType ==
  ASSUME TypeOK
  PROVE  \A k \in Keys : Stored(k) \in Values
BY ValueFacts DEF Stored, TypeOK

(* An empty flash is covered by the defaults.                              *)
LEMMA ConfigInit == InitConfig => ConfigInv
<1> SUFFICES ASSUME InitConfig PROVE ConfigInv
  OBVIOUS
<1>1. TypeOK
  BY ValueFacts DEF InitConfig, TypeOK
<1>2. \A k \in Keys : Stored(k) = Default(k) /\ promised[k] = Outcome(k, Default(k))
  BY DEF InitConfig, Stored
<1> QED
  BY <1>1, <1>2 DEF InitConfig, ConfigInv, Covered

(* A restart keeps what NVS holds.                                         *)
LEMMA ConfigRestart ==
  ASSUME ConfigInv, Restart, restarts' \in Nat, faults' \in Nat
  PROVE  ConfigInv'
BY DEF ConfigInv, TypeOK, Covered, Restart, Stored

(* Each step of gw_config_init, of a request and of the flash.             *)
LEMMA ConfigNext ==
  ASSUME ConfigInv, NextConfig
  PROVE  ConfigInv'
<1>1. TypeOK /\ Covered
  BY DEF ConfigInv
<1>2. ASSUME FlashErased PROVE ConfigInv'
  <2>1. TypeOK'
    BY <1>1, <1>2, ValueFacts DEF FlashErased, Fault, TypeOK
  <2>2. \A k \in Keys : /\ Stored(k)' = Default(k)
                        /\ promised'[k] = promised[k] \cup Outcome(k, Default(k))
    BY <1>2 DEF FlashErased, Stored
  <2>3. boot' = "load" /\ saving' = 0
    BY <1>1, <1>2 DEF FlashErased, TypeOK
  <2> QED
    BY <2>1, <2>2, <2>3 DEF ConfigInv, Covered
<1>3. ASSUME NEW lost \in SUBSET Keys, LoadBut(lost), faults' \in Nat PROVE ConfigInv'
  <2>1. /\ boot = "load" /\ boot' = "key" /\ nvs' = nvs /\ failed' = failed
        /\ saving' = 0 /\ saving = 0 /\ posts' = posts /\ restarts' = restarts
    BY <1>1, <1>3 DEF LoadBut, TypeOK
  <2>2. \A k \in Keys :
          /\ Stored(k)' = Stored(k)
          /\ s_config'[k] = IF k \in lost THEN Default(k) ELSE Stored(k)
          /\ promised'[k] = IF k \in lost THEN promised[k] \cup Outcome(k, Default(k))
                            ELSE promised[k]
    BY <1>3 DEF LoadBut, Stored
  <2>3. s_config' \in [Keys -> Values] /\ promised' \in [Keys -> SUBSET Values]
    <3>1. s_config' = [k \in Keys |-> s_config'[k]] /\ promised' = [k \in Keys |-> promised'[k]]
      BY <1>3 DEF LoadBut
    <3>2. \A k \in Keys : s_config'[k] \in Values /\ promised'[k] \subseteq Values
      BY <1>1, <2>2, StoredType, ValueFacts DEF TypeOK
    <3> QED
      BY <3>1, <3>2
  <2>4. TypeOK'
    BY <1>1, <1>3, <2>1, <2>3 DEF TypeOK
  <2>5. \A k \in Keys : /\ Outcome(k, Stored(k)) \subseteq promised'[k]
                        /\ Outcome(k, s_config'[k]) \subseteq promised'[k]
    BY <1>1, <2>2 DEF Covered
  <2>6. \A k \in Keys : /\ Outcome(k, Stored(k))' = Outcome(k, Stored(k))
                        /\ Outcome(k, s_config[k])' = Outcome(k, s_config'[k])
    BY <2>2 DEF Outcome
  <2> QED
    BY <2>1, <2>4, <2>5, <2>6 DEF ConfigInv, Covered
<1>4. CASE Load \/ LoadFails
  <2>1. PICK lost \in SUBSET Keys : LoadBut(lost)
    BY <1>4, KeyFacts, VariedAssumption DEF Load, LoadFails, Settable
  <2>2. faults' \in Nat
    BY <1>1, <1>4 DEF Load, LoadFails, Fault, TypeOK
  <2> QED
    BY <1>3, <2>1, <2>2
<1>5. ASSUME NEW config \in [Keys -> Values], Up(config), ~Weak(config["api_key"]),
             \A k \in Keys : config[k] \in promised[k],
             \A k \in Keys : Stored(k)' \in {Stored(k), config[k]},
             nvs' \in [Keys -> Values \cup {"missing"}], faults' \in Nat
      PROVE  ConfigInv'
  <2>1. /\ boot' = "up" /\ s_config' = config /\ saving' = 0 /\ failed' = failed
        /\ posts' = posts /\ restarts' = restarts
    BY <1>1, <1>5 DEF Up, TypeOK
  <2>2. \A k \in Keys : promised'[k] = IF Stored(k)' = config[k] THEN {config[k]}
                                       ELSE promised[k]
    BY <1>5 DEF Up
  <2>3. \A k \in Keys : Outcome(k, config[k]) = {config[k]}
    BY <1>5 DEF Outcome
  <2>4. promised' \in [Keys -> SUBSET Values]
    <3>1. promised' = [k \in Keys |-> promised'[k]]
      BY <1>5 DEF Up
    <3>2. \A k \in Keys : promised'[k] \subseteq Values
      BY <1>1, <1>5, <2>2 DEF TypeOK
    <3> QED
      BY <3>1, <3>2
  <2>5. TypeOK'
    BY <1>1, <1>5, <2>1, <2>4 DEF TypeOK
  <2>6. \A k \in Keys : /\ Outcome(k, config[k]) \subseteq promised'[k]
                        /\ Outcome(k, Stored(k)') \subseteq promised'[k]
    BY <1>1, <1>5, <2>2, <2>3 DEF Covered
  <2>7. \A k \in Keys : /\ Outcome(k, Stored(k))' = Outcome(k, Stored(k)')
                        /\ Outcome(k, s_config[k])' = Outcome(k, config[k])
    BY <2>1 DEF Outcome
  <2> QED
    BY <2>1, <2>5, <2>6, <2>7 DEF ConfigInv, Covered
<1>10. CASE KeepKey
  <2>1. /\ Up(s_config) /\ boot = "key" /\ nvs' = nvs /\ faults' = faults
        /\ ~Weak(s_config["api_key"])
    BY <1>10 DEF KeepKey, Up
  <2>2. \A k \in Keys : s_config[k] \in promised[k] /\ Stored(k)' = Stored(k)
    BY <1>1, <2>1, ValueFacts DEF Covered, TypeOK, Stored
  <2> QED
    BY <1>1, <1>5, <2>1, <2>2 DEF TypeOK
<1>11. CASE GenerateKey
  <2>1. PICK key \in NewKeys :
          /\ Weak(s_config["api_key"])
          /\ \/ nvs' = [nvs EXCEPT !["api_key"] = key] /\ UNCHANGED faults
             \/ Fault /\ UNCHANGED nvs
          /\ Up([s_config EXCEPT !["api_key"] = key])
    BY <1>11 DEF GenerateKey
  <2> DEFINE config == [s_config EXCEPT !["api_key"] = key]
  <2>2. /\ config \in [Keys -> Values] /\ config["api_key"] = key
        /\ \A k \in Keys : k # "api_key" => config[k] = s_config[k]
    BY <1>1, ValueFacts, KeyFacts DEF TypeOK
  <2>3. Up(config)
    BY <2>1
  <2> HIDE DEF config
  <2>4. ~Weak(key) /\ key \in Values /\ key # "missing"
    BY ValueFacts
  <2>5. \A k \in Keys : config[k] \in promised[k]
    <3>1. \A k \in Keys : Outcome(k, s_config[k]) \subseteq promised[k]
      BY <1>1, <2>3 DEF Covered, Up
    <3>2. key \in Outcome("api_key", s_config["api_key"])
      BY <2>1 DEF Outcome
    <3>3. \A k \in Keys : s_config[k] \in Outcome(k, s_config[k])
      BY DEF Outcome
    <3> QED
      BY <2>2, <3>1, <3>2, <3>3, KeyFacts
  <2>6. /\ nvs' \in [Keys -> Values \cup {"missing"}]
        /\ \A k \in Keys : nvs'[k] = nvs[k] \/ (k = "api_key" /\ nvs'[k] = key)
    BY <1>1, <2>1, <2>4 DEF TypeOK
  <2>7. \A k \in Keys : Stored(k)' \in {Stored(k), config[k]}
    BY <2>2, <2>4, <2>6 DEF Stored
  <2>8. faults' \in Nat
    BY <1>1, <2>1 DEF Fault, TypeOK
  <2> QED
    BY <1>5, <2>2, <2>3, <2>4, <2>5, <2>6, <2>7, <2>8
<1>6. ASSUME NEW keys \in SUBSET Varied, NEW change \in Changes(keys), Post(change)
      PROVE  ConfigInv'
  <2>1. /\ boot = "up" /\ boot' = "up" /\ nvs' = nvs /\ saving' = 1 /\ posts' \in Nat
        /\ restarts' = restarts /\ faults' = faults /\ failed' = {}
    BY <1>1, <1>6 DEF Post, TypeOK
  <2>2. keys \subseteq Keys /\ DOMAIN change = keys /\ \A k \in keys : change[k] \in Values
    BY VariedAssumption, ValueFacts DEF Changes, Settable
  <2>3. \A k \in Keys :
          /\ s_config'[k] = IF k \in keys THEN change[k] ELSE s_config[k]
          /\ promised'[k] = IF k \in keys THEN promised[k] \cup Outcome(k, change[k])
                            ELSE promised[k]
    BY <1>6, <2>2 DEF Post
  <2>4. s_config' \in [Keys -> Values] /\ promised' \in [Keys -> SUBSET Values]
    <3>1. s_config' = [k \in Keys |-> s_config'[k]] /\ promised' = [k \in Keys |-> promised'[k]]
      BY <1>6 DEF Post
    <3>2. \A k \in Keys : s_config'[k] \in Values /\ promised'[k] \subseteq Values
      BY <1>1, <2>2, <2>3, ValueFacts DEF TypeOK
    <3> QED
      BY <3>1, <3>2
  <2>5. \A k \in Keys : Stored(k)' = Stored(k)
    BY <2>1 DEF Stored
  <2>6. TypeOK'
    BY <1>1, <2>1, <2>4 DEF TypeOK
  <2>7. \A k \in Keys : Outcome(k, Stored(k)) \subseteq promised'[k]
    BY <1>1, <2>3 DEF Covered
  <2>8. \A k \in Keys : Outcome(k, s_config'[k]) \subseteq promised'[k]
    <3>1. \A k \in keys : Outcome(k, s_config'[k]) \subseteq promised'[k]
      BY <2>2, <2>3
    <3>2. \A k \in Keys : k \notin keys => Outcome(k, s_config'[k]) \subseteq promised'[k]
      BY <1>1, <2>1, <2>3 DEF Covered
    <3> QED
      BY <3>1, <3>2
  <2>9. \A k \in Keys : Outcome(k, Stored(k)') \subseteq promised'[k]
    BY <2>5, <2>7
  <2>10. \A i \in 1..9 : ~(i < saving')
    BY <2>1
  <2> QED
    BY <2>1, <2>6, <2>8, <2>9, <2>10 DEF ConfigInv, Covered, Outcome
<1>7. ASSUME SaveKey PROVE ConfigInv'
  <2>1. /\ saving \in 1..9 /\ boot = "up" /\ boot' = "up" /\ saving' = saving + 1
        /\ s_config' = s_config /\ promised' = promised /\ KeyAt[saving] \in Keys
    BY <1>1, <1>7, KeyFacts DEF SaveKey, TypeOK
  <2>2. TypeOK'
    BY <1>1, <1>7, <2>1 DEF SaveKey, Fault, TypeOK
  <2>3. CASE nvs' = nvs /\ failed' = failed \cup {KeyAt[saving]}
    BY <1>1, <2>1, <2>2, <2>3 DEF ConfigInv, Covered, Stored
  <2>4. CASE nvs' = [nvs EXCEPT ![KeyAt[saving]] = s_config[KeyAt[saving]]] /\ failed' = failed
    <3>1. \A k \in Keys : nvs'[k] = IF k = KeyAt[saving] THEN s_config[k] ELSE nvs[k]
      BY <1>1, <2>4 DEF TypeOK
    <3>2. \A k \in Keys : s_config[k] # "missing"
      BY <1>1, ValueFacts DEF TypeOK
    <3>3. \A k \in Keys : Stored(k)' = IF k = KeyAt[saving] THEN s_config[k] ELSE Stored(k)
      BY <3>1, <3>2 DEF Stored
    <3> QED
      BY <1>1, <2>1, <2>2, <2>4, <3>1, <3>3, KeyFacts DEF ConfigInv, Covered
  <2> QED
    BY <1>7, <2>3, <2>4 DEF SaveKey
<1>8. ASSUME SaveEnd PROVE ConfigInv'
  <2>1. /\ saving = 10 /\ saving' = 0 /\ boot = "up" /\ boot' = "up"
        /\ s_config' = s_config /\ nvs' = nvs /\ failed' = failed
    BY <1>1, <1>8 DEF SaveEnd, TypeOK
  <2>2. \A k \in Keys : k \notin failed => Stored(k) = s_config[k]
    <3>1. \A i \in 1..9 : i < saving
      BY <2>1
    <3>2. \A k \in Keys : k \notin failed => nvs[k] = s_config[k]
      BY <1>1, <3>1, KeyFacts DEF Covered
    <3> QED
      BY <1>1, <3>2, ValueFacts DEF Stored, TypeOK
  <2>3. \A k \in Keys :
          promised'[k] = IF k \in failed THEN promised[k] ELSE Outcome(k, s_config[k])
    BY <1>8 DEF SaveEnd
  <2>4. promised' \in [Keys -> SUBSET Values]
    <3>1. promised' = [k \in Keys |-> promised'[k]]
      BY <1>8 DEF SaveEnd
    <3>2. \A k \in Keys : promised'[k] \subseteq Values
      BY <1>1, <2>3, ValueFacts DEF TypeOK
    <3> QED
      BY <3>1, <3>2
  <2>5. TypeOK'
    BY <1>1, <1>8, <2>1, <2>4 DEF SaveEnd, TypeOK
  <2>6. \A k \in Keys : Stored(k)' = Stored(k)
    BY <2>1 DEF Stored
  <2> QED
    BY <1>1, <2>1, <2>2, <2>3, <2>5, <2>6 DEF ConfigInv, Covered
<1>9. ASSUME PowerFails \/ OpenFails PROVE ConfigInv'
  <2>1. Restart /\ restarts' \in Nat /\ faults' \in Nat
    BY <1>1, <1>9 DEF PowerFails, OpenFails, Fault, TypeOK
  <2> QED
    BY <2>1, ConfigRestart
<1> QED
  BY <1>2, <1>4, <1>6, <1>7, <1>8, <1>9, <1>10, <1>11 DEF NextConfig, Posting

(* Beside the configuration's own steps only a crash changes it.           *)
LEMMA ConfigStep ==
  ASSUME ConfigInv, [Next]_vars
  PROVE  ConfigInv'
<1>1. ASSUME UNCHANGED configVars PROVE ConfigInv'
  BY <1>1 DEF configVars, ConfigInv, TypeOK, Covered, Stored
<1>2. ASSUME Crash PROVE ConfigInv'
  BY <1>2, ConfigRestart DEF Crash, ConfigInv, TypeOK
<1>3. CASE ConfigSteps
  BY <1>3, ConfigNext DEF ConfigSteps, NextConfig
<1>4. CASE Arrive \/ Reader \/ WebhookInit \/ Worker \/ UNCHANGED vars
  BY <1>1, <1>2, <1>4
     DEF Arrive, Reader, SendDisabled, SendEnabled, SendToNull, SendQueued, SendDropped,
         WebhookInit, Worker, WorkerReceives, WorkerChecks, WorkerNoClient, WorkerPosts, WorkerFails,
         vars
<1> QED
  BY <1>3, <1>4 DEF Next

(* The configuration's invariant, in the whole system.                     *)
LEMMA ConfigCorrect == Spec => []ConfigInv
  BY ConfigInit, ConfigStep, PTL DEF Spec, Init

(* Type correctness of the configuration.                                  *)
THEOREM ConfigTypes == Spec => []TypeOK
<1>1. ConfigInv => TypeOK
  BY DEF ConfigInv
<1> QED
  BY <1>1, ConfigCorrect, PTL

(* Power failures, failing flash operations and interrupted saves leave    *)
(* every key with a value its clients expect.                              *)
THEOREM ConfigSafe == Spec => []ConfigKept
<1>1. ConfigInv => ConfigKept
  BY ValueFacts DEF ConfigInv, Covered, ConfigKept, TypeOK
<1> QED
  BY <1>1, ConfigCorrect, PTL

-----------------------------------------------------------------------------
(* The queue.                                                              *)

(* Taking the first message, and adding one at the end.                    *)
LEMMA TailIndex ==
  ASSUME NEW s \in Seq(Nat), s # <<>>
  PROVE  /\ Tail(s) \in Seq(Nat) /\ Len(Tail(s)) = Len(s) - 1
         /\ Head(s) = s[1] /\ s[1] \in Nat /\ Len(s) >= 1 /\ Len(s) \in Nat
         /\ DOMAIN s = 1..Len(s) /\ DOMAIN Tail(s) = 1..(Len(s) - 1)
         /\ \A k \in 1..(Len(s) - 1) : Tail(s)[k] = s[k + 1]
<1>1. Len(s) \in Nat /\ Len(s) >= 1 /\ DOMAIN s = 1..Len(s)
  BY EmptySeq, LenProperties
<1>2. /\ Tail(s) \in Seq(Nat) /\ Len(Tail(s)) = Len(s) - 1
      /\ \A k \in 1..(Len(s) - 1) : Tail(s)[k] = s[k + 1]
      /\ Head(s) = s[1] /\ s[1] \in Nat
  BY <1>1, HeadTailProperties
<1> QED
  BY <1>1, <1>2, LenProperties

(* The same for the other end.                                             *)
LEMMA AppendIndex ==
  ASSUME NEW s \in Seq(Nat), NEW m \in Nat
  PROVE  /\ Append(s, m) \in Seq(Nat) /\ Len(Append(s, m)) = Len(s) + 1 /\ Len(s) \in Nat
         /\ DOMAIN s = 1..Len(s) /\ DOMAIN Append(s, m) = 1..(Len(s) + 1)
         /\ \A k \in 1..Len(s) : Append(s, m)[k] = s[k]
         /\ Append(s, m)[Len(s) + 1] = m
BY AppendProperties, LenProperties

Done == {posted[i] : i \in DOMAIN posted}

(* The reader holds the newest message; without a queue nothing waits; the *)
(* worker is at rest when it has no message.                               *)
Holding ==
  /\ reader.at # "idle" => reader.msg = arrivals /\ arrivals >= 1 /\ arrivals \notin accepted
  /\ ~s_queue.ready => s_queue.items = <<>>
  /\ worker.msg = 0 <=> worker.at = "idle"

(* Messages are numbered as they come, and those a request was made for,   *)
(* held and queued ones follow each other in this order.                   *)
InLine ==
  /\ PostedInOrder
  /\ \A i, j \in DOMAIN s_queue.items : i < j => s_queue.items[i] < s_queue.items[j]
  /\ \A m \in Waiting : \A h \in InHand : h < m
  /\ \A p \in Done \cup undelivered : \A m \in Waiting \cup InHand : p < m

(* Every message is in one place.                                          *)
OnePlace ==
  /\ accepted = Done \cup undelivered \cup Waiting \cup InHand \cup excused
  /\ (Done \cup undelivered) \cap excused = {} /\ Done \cap undelivered = {}
  /\ excused \cap (Waiting \cup InHand) = {}

HookInv == HookTypeOK /\ Holding /\ InLine /\ OnePlace

(* At first there is no message.                                           *)
LEMMA HookInit == Init => HookInv
<1> SUFFICES ASSUME Init PROVE HookInv
  OBVIOUS
<1>1. /\ s_queue = [ready |-> FALSE, items |-> <<>>] /\ posted = <<>> /\ undelivered = {}
      /\ reader = [at |-> "idle", msg |-> 0] /\ worker = [at |-> "idle", msg |-> 0]
      /\ arrivals = 0 /\ accepted = {} /\ excused = {} /\ inbox = {} /\ boot = "load"
  BY DEF Init, InitHook, InitConfig, Resting, Task
<1>2. <<>> \in Seq(Nat) /\ Len(<<>>) = 0 /\ DOMAIN <<>> = {}
  OBVIOUS
<1>3. Waiting = {} /\ Done = {} /\ InHand = {}
  BY <1>1, <1>2 DEF Waiting, Done, InHand
<1>4. HookTypeOK
  BY <1>1, <1>2, WebhookAssumption DEF HookTypeOK, Resting, Task
<1>5. Holding
  BY <1>1 DEF Holding
<1>6. InLine
  BY <1>1, <1>2, <1>3 DEF InLine, PostedInOrder
<1> QED
  BY <1>1, <1>3, <1>4, <1>5, <1>6 DEF HookInv, OnePlace

(* A restart empties the queue.                                            *)
LEMMA HookRestart ==
  ASSUME HookInv, RestartHook, boot' = "load"
  PROVE  HookInv'
<1>1. HookTypeOK /\ Holding /\ InLine /\ OnePlace
  BY DEF HookInv
<1>2. /\ s_queue' = [ready |-> FALSE, items |-> <<>>] /\ posted' = posted
      /\ undelivered' = undelivered
      /\ reader' = [at |-> "idle", msg |-> 0] /\ worker' = [at |-> "idle", msg |-> 0]
      /\ arrivals' = arrivals /\ accepted' = accepted /\ inbox' = {}
      /\ excused' = excused \cup Waiting \cup InHand
  BY DEF RestartHook, Resting, Task, Waiting, InHand
<1>3. <<>> \in Seq(Nat) /\ Len(<<>>) = 0 /\ DOMAIN <<>> = {}
  OBVIOUS
<1>4. Waiting' = {} /\ Done' = Done /\ InHand' = {}
  BY <1>2, <1>3 DEF Waiting, Done, InHand
<1>5. \A p \in Done \cup undelivered : p \notin Waiting \cup InHand
  <2>1. \A p \in Done \cup undelivered : p \in Nat
    <3>1. accepted \subseteq Nat
      BY <1>1 DEF HookTypeOK
    <3> QED
      BY <1>1, <3>1 DEF OnePlace
  <2> QED
    BY <1>1, <2>1 DEF InLine
<1>6. excused' \subseteq 1..arrivals
  BY <1>1, <1>2 DEF HookTypeOK, OnePlace
<1>7. HookTypeOK'
  BY <1>1, <1>2, <1>3, <1>6, WebhookAssumption DEF HookTypeOK, Resting, Task
<1>8. InLine'
  BY <1>1, <1>2, <1>3, <1>4 DEF InLine, PostedInOrder
<1>9. OnePlace'
  BY <1>1, <1>2, <1>4, <1>5 DEF OnePlace
<1> QED
  BY <1>2, <1>7, <1>8, <1>9 DEF HookInv, Holding

(* The steps of the queue's three users.                                   *)
LEMMA HookNext ==
  ASSUME HookInv, [Next]_vars
  PROVE  HookInv'
<1>1. HookTypeOK /\ Holding /\ InLine /\ OnePlace
  BY DEF HookInv
<1>2. /\ s_queue.items \in Seq(Nat) /\ posted \in Seq(Nat) /\ arrivals \in Nat
      /\ worker.msg \in Nat /\ reader.msg \in Nat
  BY <1>1 DEF HookTypeOK
<1>3. /\ DOMAIN s_queue.items = 1..Len(s_queue.items) /\ DOMAIN posted = 1..Len(posted)
      /\ Len(s_queue.items) \in Nat /\ Len(posted) \in Nat
  BY <1>2
<1>4. \A m \in accepted : m \in Nat /\ m >= 1 /\ m <= arrivals
  BY <1>1 DEF HookTypeOK
<1>5. ASSUME UNCHANGED hookVars, boot = "up" => boot' = "up" PROVE HookInv'
  <2>1. /\ UNCHANGED <<s_queue, reader, worker, arrivals, inbox, accepted>>
        /\ UNCHANGED <<posted, undelivered, excused>>
    BY <1>5 DEF hookVars
  <2>2. Waiting' = Waiting /\ Done' = Done /\ InHand' = InHand
    BY <2>1 DEF Waiting, Done, InHand
  <2>3. HookTypeOK'
    BY <1>1, <1>5, <2>1 DEF HookTypeOK
  <2> QED
    BY <1>1, <2>1, <2>2, <2>3 DEF HookInv, Holding, InLine, OnePlace, PostedInOrder
<1>6. ASSUME Crash PROVE HookInv'
  BY <1>6, HookRestart DEF Crash, Restart
<1>7. CASE ConfigSteps
  <2>1. CASE (PowerFails \/ OpenFails) /\ RestartHook
    BY <2>1, HookRestart DEF PowerFails, OpenFails, Restart
  <2>2. CASE (FlashErased \/ Load \/ LoadFails \/ KeepKey \/ GenerateKey \/ Posting \/ SaveKey \/ SaveEnd)
             /\ UNCHANGED hookVars
    <3>1. boot = "up" => boot' = "up"
      BY <2>2 DEF FlashErased, Load, LoadFails, LoadBut, KeepKey, GenerateKey, Up, Posting, Post, SaveKey, SaveEnd
    <3> QED
      BY <1>5, <2>2, <3>1
  <2> QED
    BY <1>7, <2>1, <2>2 DEF ConfigSteps
<1>8. ASSUME UNCHANGED <<boot, s_queue, worker, accepted, posted, undelivered, excused>>,
             boot = "up", reader' \in [at : {"idle", "webhook_send", "xQueueSend"}, msg : Nat],
             arrivals' \in Nat, arrivals' >= arrivals, inbox' \subseteq 1..arrivals',
             reader'.at # "idle" =>
               reader'.msg = arrivals' /\ arrivals' >= 1 /\ arrivals' \notin accepted
      PROVE  HookInv'
  <2>1. Waiting' = Waiting /\ Done' = Done /\ InHand' = InHand
    BY <1>8 DEF Waiting, Done, InHand
  <2>2. accepted \subseteq 1..arrivals' /\ excused \subseteq 1..arrivals'
    BY <1>1, <1>2, <1>8 DEF HookTypeOK
  <2>3. HookTypeOK'
    BY <1>1, <1>8, <2>2 DEF HookTypeOK
  <2>4. Holding' /\ InLine' /\ OnePlace'
    BY <1>1, <1>8, <2>1 DEF Holding, InLine, OnePlace, PostedInOrder
  <2> QED
    BY <2>3, <2>4 DEF HookInv
<1>9. CASE Arrive
  <2>1. /\ boot = "up" /\ arrivals' = arrivals + 1 /\ inbox' = inbox \cup {arrivals'}
        /\ reader' = [at |-> "webhook_send", msg |-> arrivals']
        /\ UNCHANGED <<boot, s_queue, worker, accepted, posted, undelivered, excused>>
    BY <1>9 DEF Arrive, Task, configVars
  <2>2. inbox' \subseteq 1..arrivals' /\ arrivals' \notin accepted
    BY <1>1, <1>2, <1>4, <2>1 DEF HookTypeOK
  <2> QED
    BY <1>2, <1>8, <2>1, <2>2
<1>10. CASE SendDisabled \/ SendEnabled \/ SendDropped
  <2>1. reader.at # "idle" /\ boot = "up"
    BY <1>1, <1>10 DEF SendDisabled, SendEnabled, SendDropped, HookTypeOK, Resting, Task
  <2>2. /\ reader'.at # "idle" => reader'.msg = reader.msg
        /\ reader' \in [at : {"idle", "webhook_send", "xQueueSend"}, msg : Nat]
        /\ UNCHANGED <<boot, s_queue, worker, accepted, posted, undelivered, excused,
                        arrivals, inbox>>
    BY <1>1, <1>10 DEF SendDisabled, SendEnabled, SendDropped, configVars, HookTypeOK, Resting,
                       Task
  <2>3. inbox' \subseteq 1..arrivals'
    BY <1>1, <2>2 DEF HookTypeOK
  <2> QED
    BY <1>1, <1>2, <1>8, <2>1, <2>2, <2>3 DEF Holding
<1>11. CASE SendQueued
  <2> DEFINE items == s_queue.items
  <2>1. /\ boot = "up" /\ reader.msg = arrivals /\ arrivals >= 1 /\ arrivals \notin accepted
        /\ s_queue' = [s_queue EXCEPT !.items = Append(items, arrivals)]
        /\ s_queue.ready /\ Len(items) < QueueSize /\ reader' = [at |-> "idle", msg |-> 0]
        /\ accepted' = accepted \cup {arrivals}
        /\ UNCHANGED <<boot, worker, arrivals, inbox, posted, undelivered, excused>>
    BY <1>1, <1>11 DEF SendQueued, Holding, configVars, Resting, Task, HookTypeOK
  <2>2. /\ s_queue' \in [ready : BOOLEAN, items : Seq(Nat)] /\ s_queue'.ready
        /\ s_queue'.items = Append(items, arrivals)
    BY <1>1, <1>2, <2>1, AppendIndex DEF HookTypeOK
  <2>3. /\ Len(s_queue'.items) = Len(items) + 1
        /\ DOMAIN s_queue'.items = 1..(Len(items) + 1)
        /\ \A k \in 1..Len(items) : s_queue'.items[k] = items[k]
        /\ s_queue'.items[Len(items) + 1] = arrivals
    BY <1>2, <2>2, AppendIndex
  <2>4. Waiting' = Waiting \cup {arrivals} /\ Done' = Done /\ InHand' = InHand
    <3>1. Waiting' = {s_queue'.items[k] : k \in 1..(Len(items) + 1)}
      BY <2>3 DEF Waiting
    <3>2. Waiting = {items[k] : k \in 1..Len(items)}
      BY <1>3 DEF Waiting
    <3>3. \A k : k \in 1..(Len(items) + 1) <=> k \in 1..Len(items) \/ k = Len(items) + 1
      BY <1>3
    <3> QED
      BY <2>1, <2>3, <3>1, <3>2, <3>3 DEF Done, InHand
  <2>5. \A m \in Done \cup undelivered \cup Waiting \cup InHand \cup excused :
          m \in Nat /\ m < arrivals
    <3>1. \A m \in accepted : m < arrivals
      BY <1>2, <1>4, <2>1
    <3> QED
      BY <1>1, <1>4, <3>1 DEF OnePlace
  <2>6. \A i, j \in DOMAIN s_queue'.items : i < j => s_queue'.items[i] < s_queue'.items[j]
    <3> SUFFICES ASSUME NEW i \in 1..(Len(items) + 1), NEW j \in 1..(Len(items) + 1), i < j
                 PROVE  s_queue'.items[i] < s_queue'.items[j]
      BY <2>3
    <3>1. i \in 1..Len(items) /\ s_queue'.items[i] = items[i] /\ items[i] \in Waiting
      BY <1>3, <2>3 DEF Waiting
    <3>2. CASE j = Len(items) + 1
      BY <2>3, <2>5, <3>1, <3>2
    <3>3. CASE j \in 1..Len(items)
      BY <1>1, <1>3, <2>3, <3>1, <3>3 DEF InLine
    <3> QED
      BY <1>3, <3>2, <3>3
  <2>7. InLine'
    BY <1>1, <2>1, <2>4, <2>5, <2>6 DEF InLine, PostedInOrder
  <2>8. OnePlace'
    BY <1>1, <1>2, <2>1, <2>4, <2>5 DEF OnePlace
  <2>9. HookTypeOK'
    BY <1>1, <1>2, <1>3, <2>1, <2>2, <2>3, WebhookAssumption DEF HookTypeOK
  <2>10. Holding'
    BY <1>1, <2>1, <2>2 DEF Holding
  <2> QED
    BY <2>7, <2>8, <2>9, <2>10 DEF HookInv
<1>12. CASE WebhookInit
  <2>1. /\ s_queue' \in [ready : BOOLEAN, items : Seq(Nat)] /\ s_queue'.items = s_queue.items
        /\ s_queue'.ready /\ boot = "up"
        /\ UNCHANGED <<boot, reader, worker, arrivals, inbox, accepted, posted, undelivered, excused>>
    BY <1>1, <1>12 DEF WebhookInit, configVars, HookTypeOK
  <2>2. Waiting' = Waiting /\ Done' = Done /\ InHand' = InHand
    BY <2>1 DEF Waiting, Done, InHand
  <2>3. HookTypeOK'
    BY <1>1, <2>1 DEF HookTypeOK
  <2> QED
    BY <1>1, <2>1, <2>2, <2>3 DEF HookInv, Holding, InLine, OnePlace, PostedInOrder
<1>13. CASE WorkerReceives
  <2> DEFINE items == s_queue.items
  <2>1. /\ items # <<>> /\ worker = [at |-> "idle", msg |-> 0]
        /\ worker' = [at |-> "check", msg |-> Head(items)]
        /\ s_queue' = [s_queue EXCEPT !.items = Tail(items)]
        /\ UNCHANGED <<boot, reader, arrivals, inbox, accepted, posted, undelivered, excused>>
    BY <1>13 DEF WorkerReceives, configVars, Resting, Task
  <2>2. /\ Tail(items) \in Seq(Nat) /\ Len(Tail(items)) = Len(items) - 1
        /\ Head(items) = items[1] /\ items[1] \in Nat /\ Len(items) >= 1
        /\ DOMAIN Tail(items) = 1..(Len(items) - 1)
        /\ \A k \in 1..(Len(items) - 1) : Tail(items)[k] = items[k + 1]
    BY <1>2, <2>1, TailIndex
  <2>3. /\ s_queue' \in [ready : BOOLEAN, items : Seq(Nat)] /\ s_queue'.ready
        /\ s_queue.ready /\ s_queue'.items = Tail(items) /\ boot = "up"
    BY <1>1, <2>1, <2>2 DEF HookTypeOK, Holding
  <2>4. 1 \in DOMAIN items /\ items[1] \in Waiting /\ items[1] >= 1
    <3>1. 1 \in DOMAIN items /\ items[1] \in Waiting
      BY <1>3, <2>2 DEF Waiting
    <3> QED
      BY <1>1, <1>4, <3>1 DEF OnePlace
  <2>5. InHand = {} /\ InHand' = {items[1]} /\ Done' = Done
    BY <2>1, <2>2, <2>4 DEF InHand, Done
  <2>6. /\ \A m \in Waiting' : m \in Waiting /\ items[1] < m
        /\ \A m \in Waiting : m = items[1] \/ m \in Waiting'
    <3>1. Waiting' = {Tail(items)[k] : k \in 1..(Len(items) - 1)}
      BY <2>2, <2>3 DEF Waiting
    <3>2. Waiting = {items[k] : k \in 1..Len(items)}
      BY <1>3 DEF Waiting
    <3>3. \A k \in 1..(Len(items) - 1) :
            k + 1 \in DOMAIN items /\ 1 < k + 1 /\ items[k + 1] \in Waiting
      BY <1>3 DEF Waiting
    <3>4. \A k \in 1..(Len(items) - 1) : items[1] < items[k + 1]
      BY <1>1, <2>4, <3>3 DEF InLine
    <3>5. \A k \in 1..Len(items) : k # 1 => k - 1 \in 1..(Len(items) - 1) /\ k = (k - 1) + 1
      BY <1>3
    <3>6. \A k \in 1..Len(items) : k # 1 => items[k] = Tail(items)[k - 1]
      BY <2>2, <3>5
    <3>7. ASSUME NEW m \in Waiting' PROVE m \in Waiting /\ items[1] < m
      <4>1. PICK k \in 1..(Len(items) - 1) : m = Tail(items)[k]
        BY <3>1
      <4>2. m = items[k + 1]
        BY <2>2, <4>1
      <4> QED
        BY <3>3, <3>4, <4>2
    <3>8. ASSUME NEW m \in Waiting, m # items[1] PROVE m \in Waiting'
      <4>1. PICK k \in 1..Len(items) : m = items[k]
        BY <3>2
      <4>2. k # 1
        BY <3>8, <4>1
      <4>3. m = Tail(items)[k - 1] /\ k - 1 \in 1..(Len(items) - 1)
        BY <3>5, <3>6, <4>1, <4>2
      <4> QED
        BY <3>1, <4>3
    <3> QED
      BY <3>7, <3>8
  <2>7. \A i, j \in DOMAIN s_queue'.items : i < j => s_queue'.items[i] < s_queue'.items[j]
    <3> SUFFICES ASSUME NEW i \in 1..(Len(items) - 1), NEW j \in 1..(Len(items) - 1), i < j
                 PROVE  Tail(items)[i] < Tail(items)[j]
      BY <2>2, <2>3
    <3>1. i + 1 \in DOMAIN items /\ j + 1 \in DOMAIN items /\ i + 1 < j + 1
      BY <1>3
    <3> QED
      BY <1>1, <2>2, <3>1 DEF InLine
  <2>8. InLine'
    <3>1. \A p \in Done \cup undelivered : \A m \in Waiting : p < m
      BY <1>1 DEF InLine
    <3> QED
      BY <1>1, <2>1, <2>4, <2>5, <2>6, <2>7, <3>1 DEF InLine, PostedInOrder
  <2>9. OnePlace'
    BY <1>1, <2>1, <2>4, <2>5, <2>6 DEF OnePlace
  <2>10. worker' \in [at : {"idle", "check", "post"}, msg : Nat]
    BY <2>1, <2>2
  <2>11. HookTypeOK'
    BY <1>1, <1>3, <2>1, <2>2, <2>3, <2>10, WebhookAssumption DEF HookTypeOK
  <2>12. Holding'
    BY <1>1, <2>1, <2>2, <2>3, <2>4 DEF Holding
  <2> QED
    BY <2>8, <2>9, <2>11, <2>12 DEF HookInv
<1>14. CASE WorkerChecks
  <2>1. /\ worker.at = "check" /\ worker.msg # 0 /\ boot = "up"
        /\ UNCHANGED <<boot, s_queue, reader, arrivals, inbox, accepted, posted, undelivered>>
    BY <1>1, <1>14 DEF WorkerChecks, configVars, Holding, HookTypeOK, Resting, Task
  <2>2. InHand = {worker.msg} /\ Waiting' = Waiting /\ Done' = Done
    BY <2>1 DEF InHand, Waiting, Done
  <2>3. CASE Forbidden
    <3>1. worker' = [at |-> "idle", msg |-> 0] /\ excused' = excused \cup {worker.msg}
      BY <1>14, <2>3 DEF WorkerChecks, Resting, Task
    <3>2. InHand' = {} /\ worker.msg \in accepted
      BY <1>1, <2>2, <3>1 DEF InHand, OnePlace
    <3>3. worker.msg \notin Done \cup undelivered \cup Waiting
      <4>1. \A m \in Done \cup undelivered : m < worker.msg /\ m \in Nat
        BY <1>1, <1>4, <2>2 DEF InLine, OnePlace
      <4>2. \A m \in Waiting : worker.msg < m /\ m \in Nat
        BY <1>1, <1>4, <2>2 DEF InLine, OnePlace
      <4> QED
        BY <1>2, <4>1, <4>2
    <3>4. HookTypeOK'
      BY <1>1, <2>1, <3>1, <3>2 DEF HookTypeOK
    <3>5. OnePlace'
      BY <1>1, <2>1, <2>2, <3>1, <3>2, <3>3 DEF OnePlace
    <3> QED
      BY <1>1, <2>1, <2>2, <3>1, <3>2, <3>4, <3>5 DEF HookInv, Holding, InLine, PostedInOrder
  <2>4. CASE ~Forbidden
    <3>1. /\ worker' \in [at : {"idle", "check", "post"}, msg : Nat]
          /\ worker'.at = "post" /\ worker'.msg = worker.msg /\ excused' = excused
      BY <1>1, <1>14, <2>4 DEF WorkerChecks, HookTypeOK
    <3>2. InHand' = InHand
      BY <3>1 DEF InHand
    <3>3. HookTypeOK'
      BY <1>1, <2>1, <3>1 DEF HookTypeOK
    <3> QED
      BY <1>1, <2>1, <2>2, <3>1, <3>2, <3>3
         DEF HookInv, Holding, InLine, OnePlace, PostedInOrder
  <2> QED
    BY <2>3, <2>4
<1>15. CASE WorkerPosts
  <2>1. /\ worker.at = "post" /\ worker.msg # 0 /\ boot = "up"
        /\ posted' = Append(posted, worker.msg) /\ worker' = [at |-> "idle", msg |-> 0]
        /\ UNCHANGED <<boot, s_queue, reader, arrivals, inbox, accepted, undelivered, excused>>
    BY <1>1, <1>15 DEF WorkerPosts, configVars, Holding, HookTypeOK, Resting, Task
  <2>2. /\ posted' \in Seq(Nat) /\ DOMAIN posted' = 1..(Len(posted) + 1)
        /\ \A k \in 1..Len(posted) : posted'[k] = posted[k]
        /\ posted'[Len(posted) + 1] = worker.msg
    BY <1>2, <2>1, AppendIndex
  <2>3. /\ InHand = {worker.msg} /\ InHand' = {} /\ Waiting' = Waiting
        /\ Done' = Done \cup {worker.msg}
    <3>1. Done' = {posted'[k] : k \in 1..(Len(posted) + 1)}
      BY <2>2 DEF Done
    <3>2. Done = {posted[k] : k \in 1..Len(posted)}
      BY <1>3 DEF Done
    <3>3. \A k : k \in 1..(Len(posted) + 1) <=> k \in 1..Len(posted) \/ k = Len(posted) + 1
      BY <1>3
    <3> QED
      BY <2>1, <2>2, <3>1, <3>2, <3>3 DEF InHand, Waiting
  <2>4. \A p \in Done : p < worker.msg
    BY <1>1, <2>3 DEF InLine
  <2>5. PostedInOrder'
    <3> SUFFICES ASSUME NEW i \in 1..(Len(posted) + 1), NEW j \in 1..(Len(posted) + 1), i < j
                 PROVE  posted'[i] < posted'[j]
      BY <2>2 DEF PostedInOrder
    <3>1. i \in 1..Len(posted) /\ posted'[i] = posted[i] /\ posted[i] \in Done
      BY <1>3, <2>2 DEF Done
    <3>2. CASE j = Len(posted) + 1
      BY <2>2, <2>4, <3>1, <3>2
    <3>3. CASE j \in 1..Len(posted)
      BY <1>1, <1>3, <2>2, <3>1, <3>3 DEF InLine, PostedInOrder
    <3> QED
      BY <1>3, <3>2, <3>3
  <2>6. InLine'
    BY <1>1, <2>1, <2>3, <2>5 DEF InLine
  <2>7. OnePlace'
    <3>1. worker.msg \notin undelivered
      <4>1. ~(worker.msg < worker.msg)
        BY <1>2
      <4> QED
        BY <1>1, <2>3, <4>1 DEF InLine
    <3> QED
      BY <1>1, <2>1, <2>3, <3>1 DEF OnePlace
  <2>8. HookTypeOK' /\ Holding'
    BY <1>1, <2>1, <2>2 DEF HookTypeOK, Holding
  <2> QED
    BY <2>6, <2>7, <2>8 DEF HookInv
<1>16. CASE WorkerFails
  <2>1. /\ worker.at = "post" /\ worker.msg # 0 /\ boot = "up"
        /\ undelivered' = undelivered \cup {worker.msg}
        /\ worker' = [at |-> "idle", msg |-> 0]
        /\ UNCHANGED <<boot, s_queue, reader, arrivals, inbox, accepted, posted, excused>>
    BY <1>1, <1>16 DEF WorkerFails, configVars, Holding, HookTypeOK, Resting, Task
  <2>2. InHand = {worker.msg} /\ InHand' = {} /\ Waiting' = Waiting /\ Done' = Done
    BY <2>1 DEF InHand, Waiting, Done
  <2>3. worker.msg \in accepted /\ worker.msg \notin Done
    <3>1. ~(worker.msg < worker.msg)
      BY <1>2
    <3> QED
      BY <1>1, <2>2, <3>1 DEF InLine, OnePlace
  <2>4. InLine'
    BY <1>1, <2>1, <2>2 DEF InLine, PostedInOrder
  <2>5. OnePlace'
    BY <1>1, <2>1, <2>2, <2>3 DEF OnePlace
  <2>6. HookTypeOK' /\ Holding'
    BY <1>1, <2>1, <2>3 DEF HookTypeOK, Holding
  <2> QED
    BY <2>4, <2>5, <2>6 DEF HookInv
<1>17. CASE SendToNull \/ WorkerNoClient
  BY <1>6, <1>17 DEF SendToNull, WorkerNoClient
<1>18. CASE UNCHANGED vars
  BY <1>5, <1>18 DEF vars, configVars
<1> QED
  BY <1>7, <1>9, <1>10, <1>11, <1>12, <1>13, <1>14, <1>15, <1>16, <1>17, <1>18
     DEF Next, Reader, Worker

(* What is shown inductively.                                              *)
LEMMA HookCorrect == Spec => []HookInv
  BY HookInit, HookNext, PTL DEF Spec

(* Type correctness of the queue and its users.                            *)
THEOREM HookTypes == Spec => []HookTypeOK
<1>1. HookInv => HookTypeOK
  BY DEF HookInv
<1> QED
  BY <1>1, HookCorrect, PTL

(* A message the queue took has exactly one fate.                          *)
THEOREM NoneLost == Spec => []NothingLost
<1>1. ASSUME HookInv PROVE NothingLost
  <2>1. \A m \in accepted : m \in Nat
    BY <1>1 DEF HookInv, HookTypeOK
  <2>2. \A m \in Done \cup undelivered \cup Waiting \cup InHand : ~(m < m)
    BY <1>1, <2>1 DEF HookInv, OnePlace
  <2>3. Waiting \cap InHand = {} /\ (Done \cup undelivered) \cap (Waiting \cup InHand) = {}
    BY <1>1, <2>2 DEF HookInv, InLine
  <2> QED
    BY <1>1, <2>3 DEF HookInv, OnePlace, NothingLost, Done
<1> QED
  BY <1>1, HookCorrect, PTL

(* The webhook hears of messages in order and once of each.                *)
THEOREM InOrderOnce == Spec => []PostedInOrder
<1>1. HookInv => PostedInOrder
  BY DEF HookInv, InLine
<1> QED
  BY <1>1, HookCorrect, PTL

-----------------------------------------------------------------------------
(* The abstract queue.                                                     *)

(* A message's number is within the bound.                                 *)
Bounded == arrivals \in 0..MaxArrivals

LEMMA ArrivalsBounded == Spec => []Bounded
<1>1. Init => Bounded
  BY WebhookAssumption DEF Init, InitHook, Bounded
<1>2. Bounded /\ [Next]_vars => Bounded'
  <2> SUFFICES ASSUME arrivals \in 0..MaxArrivals, [Next]_vars
               PROVE  arrivals' \in 0..MaxArrivals
    BY DEF Bounded
  <2>1. CASE Arrive
    BY <2>1, WebhookAssumption DEF Arrive
  <2>2. CASE ~Arrive
    <3>1. arrivals' = arrivals
      BY <2>2 DEF Next, ConfigSteps, Reader, WebhookInit, Worker, SendDisabled, SendEnabled,
                  SendToNull, SendQueued, SendDropped, WorkerReceives, WorkerChecks,
                  WorkerNoClient, WorkerPosts, WorkerFails, Crash, RestartHook, hookVars,
                  vars
    <3> QED
      BY <3>1
  <2> QED
    BY <2>1, <2>2
<1> QED
  BY <1>1, <1>2, PTL DEF Spec

(* The backlog of a worker at rest is what is in the queue; otherwise its  *)
(* message comes first.                                                    *)
LEMMA BacklogFacts ==
  ASSUME NEW s \in Seq(Nat), NEW m \in Nat
  PROVE  /\ <<>> \o s = s
         /\ <<m>> \o s # <<>> /\ Head(<<m>> \o s) = m /\ Tail(<<m>> \o s) = s
         /\ Len(<<m>> \o s) = Len(s) + 1
         /\ s # <<>> => s = <<Head(s)>> \o Tail(s)
         /\ \A n \in Nat : Append(<<m>> \o s, n) = <<m>> \o Append(s, n)
<1>1. <<>> \o s = s
  OBVIOUS
<1>2. <<m>> \o s # <<>> /\ Head(<<m>> \o s) = m /\ Len(<<m>> \o s) = Len(s) + 1
  OBVIOUS
<1>3. Tail(<<m>> \o s) = s
  OBVIOUS
<1>4. s # <<>> => s = <<Head(s)>> \o Tail(s)
  OBVIOUS
<1>5. ASSUME NEW n \in Nat PROVE Append(<<m>> \o s, n) = <<m>> \o Append(s, n)
  OBVIOUS
<1> QED
  BY <1>1, <1>2, <1>3, <1>4, <1>5

(* Every step is one of the abstract queue's, or none of them.             *)
LEMMA QueueStep ==
  ASSUME HookInv, Bounded, [Next]_vars
  PROVE  [Queue!Next]_Queue!vars
<1>1. HookTypeOK /\ Holding /\ OnePlace
  BY DEF HookInv
<1>2. /\ s_queue.items \in Seq(Nat) /\ Len(s_queue.items) \in Nat
      /\ worker.msg \in Nat /\ arrivals \in Nat
  BY <1>1 DEF HookTypeOK
<1>3. ASSUME UNCHANGED <<accepted, posted, undelivered, worker, s_queue>> PROVE [Queue!Next]_Queue!vars
  BY <1>3 DEF Queue!vars, Backlog
<1>4. ASSUME RestartHook PROVE [Queue!Next]_Queue!vars
  <2>1. /\ s_queue'.items = <<>> /\ worker'.msg = 0
        /\ UNCHANGED <<accepted, posted, undelivered>>
    BY <1>4 DEF RestartHook, Resting, Task
  <2>2. Backlog' = <<>>
    BY <2>1 DEF Backlog
  <2> QED
    BY <2>1, <2>2 DEF Queue!Next, Queue!Restart
<1>5. CASE ConfigSteps
  BY <1>3, <1>4, <1>5 DEF ConfigSteps, hookVars
<1>6. CASE Arrive \/ SendDisabled \/ SendEnabled \/ SendDropped
  BY <1>3, <1>6 DEF Arrive, SendDisabled, SendEnabled, SendDropped
<1>7. CASE SendToNull \/ WorkerNoClient
  BY <1>4, <1>7 DEF SendToNull, WorkerNoClient, Crash
<1>8. CASE SendQueued
  <2>1. /\ reader.msg = arrivals /\ arrivals >= 1 /\ arrivals \notin accepted
        /\ s_queue'.items = Append(s_queue.items, arrivals)
        /\ accepted' = accepted \cup {arrivals}
        /\ Len(s_queue.items) < QueueSize
        /\ UNCHANGED <<worker, posted, undelivered>>
    BY <1>1, <1>8 DEF SendQueued, Holding, HookTypeOK
  <2>2. \A a \in accepted : a < arrivals
    BY <1>1, <1>2, <2>1 DEF HookTypeOK
  <2>3. arrivals \in 1..MaxArrivals
    BY <1>2, <2>1 DEF Bounded
  <2>4. Backlog' = Append(Backlog, arrivals)
    <3>1. CASE worker.msg = 0
      BY <1>2, <2>1, <3>1, BacklogFacts, AppendIndex DEF Backlog
    <3>2. CASE worker.msg # 0
      BY <1>2, <2>1, <3>2, BacklogFacts DEF Backlog
    <3> QED
      BY <3>1, <3>2
  <2>5. Len(Backlog) < QueueSize + 1
    <3>1. Len(Backlog) \in {Len(s_queue.items), Len(s_queue.items) + 1}
      BY <1>2, BacklogFacts DEF Backlog
    <3> QED
      BY <1>2, <2>1, <3>1, WebhookAssumption
  <2>6. Queue!Accept(arrivals)
    BY <2>1, <2>2, <2>4, <2>5 DEF Queue!Accept
  <2> QED
    BY <2>3, <2>6 DEF Queue!Next
<1>9. CASE WebhookInit
  <2>1. s_queue'.items = s_queue.items /\ UNCHANGED <<accepted, posted, undelivered, worker>>
    BY <1>1, <1>9 DEF WebhookInit, HookTypeOK
  <2> QED
    BY <2>1 DEF Queue!vars, Backlog
<1>10. CASE WorkerReceives
  <2>1. /\ s_queue.items # <<>> /\ worker.msg = 0 /\ worker'.msg = Head(s_queue.items)
        /\ s_queue'.items = Tail(s_queue.items)
        /\ UNCHANGED <<accepted, posted, undelivered>>
    BY <1>1, <1>10 DEF WorkerReceives, Resting, Task, HookTypeOK
  <2>2. Head(s_queue.items) # 0
    <3>1. Head(s_queue.items) \in Waiting
      BY <1>2, <2>1, TailIndex DEF Waiting
    <3>2. Waiting \subseteq 1..arrivals
      BY <1>1 DEF OnePlace, HookTypeOK
    <3> QED
      BY <1>2, <3>1, <3>2
  <2>3. Backlog' = Backlog
    BY <1>2, <2>1, <2>2, BacklogFacts DEF Backlog
  <2> QED
    BY <2>1, <2>3 DEF Queue!vars
<1>11. CASE WorkerChecks
  <2>1. worker.msg # 0 /\ UNCHANGED <<s_queue, accepted, posted, undelivered>>
    BY <1>1, <1>11 DEF WorkerChecks, Holding
  <2>2. CASE Forbidden
    <3>1. worker'.msg = 0
      BY <1>11, <2>2 DEF WorkerChecks, Resting, Task
    <3>2. Backlog # <<>> /\ Backlog' = Tail(Backlog)
      BY <1>2, <2>1, <3>1, BacklogFacts DEF Backlog
    <3> QED
      BY <2>1, <3>2 DEF Queue!Next, Queue!Withhold
  <2>3. CASE ~Forbidden
    <3>1. worker'.msg = worker.msg
      BY <1>1, <1>11, <2>3 DEF WorkerChecks, HookTypeOK
    <3> QED
      BY <2>1, <3>1 DEF Queue!vars, Backlog
  <2> QED
    BY <2>2, <2>3
<1>12. CASE WorkerPosts
  <2>1. /\ worker.msg # 0 /\ worker'.msg = 0 /\ posted' = Append(posted, worker.msg)
        /\ UNCHANGED <<s_queue, accepted, undelivered>>
    BY <1>1, <1>12 DEF WorkerPosts, Holding, Resting, Task
  <2>2. Backlog # <<>> /\ Head(Backlog) = worker.msg /\ Backlog' = Tail(Backlog)
    BY <1>2, <2>1, BacklogFacts DEF Backlog
  <2> QED
    BY <2>1, <2>2 DEF Queue!Next, Queue!Post
<1>13. CASE WorkerFails
  <2>1. /\ worker.msg # 0 /\ worker'.msg = 0
        /\ undelivered' = undelivered \cup {worker.msg}
        /\ UNCHANGED <<s_queue, accepted, posted>>
    BY <1>1, <1>13 DEF WorkerFails, Holding, Resting, Task
  <2>2. Backlog # <<>> /\ Head(Backlog) = worker.msg /\ Backlog' = Tail(Backlog)
    BY <1>2, <2>1, BacklogFacts DEF Backlog
  <2> QED
    BY <2>1, <2>2 DEF Queue!Next, Queue!GiveUp
<1>14. CASE UNCHANGED vars
  BY <1>3, <1>14 DEF vars, hookVars
<1> QED
  BY <1>5, <1>6, <1>7, <1>8, <1>9, <1>10, <1>11, <1>12, <1>13, <1>14
     DEF Next, Reader, Worker

(* Reader, queue and worker are a bounded queue, for any size of it and    *)
(* whatever fails or is configured meanwhile.                              *)
THEOREM QueueImplemented == Spec => ImplementsQueue
<1>1. Init => Queue!Init
  BY BacklogFacts DEF Init, InitHook, Queue!Init, Backlog, Resting, Task
<1> QED
  BY <1>1, QueueStep, HookCorrect, ArrivalsBounded, PTL DEF Spec, ImplementsQueue, Queue!Spec

=============================================================================
