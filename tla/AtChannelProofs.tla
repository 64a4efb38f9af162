-------------------------- MODULE AtChannelProofs --------------------------
(* Proofs about AtChannel, for every set of tasks, every modem and every   *)
(* bound.                                                                  *)
EXTENDS AtChannel, TLAPS

(* A sequence of lines made from a sequence of kinds, and a concatenation. *)
LEMMA LinesOf ==
  ASSUME NEW kinds \in Seq(LineKinds), NEW m \in Inbound \cup {NoMsg}
  PROVE  [i \in DOMAIN kinds |-> [kind |-> kinds[i], msg |-> m]] \in Seq(Lines)
<1>1. DOMAIN kinds = 1..Len(kinds) /\ Len(kinds) \in Nat
  OBVIOUS
<1>2. \A i \in 1..Len(kinds) : kinds[i] \in LineKinds
  OBVIOUS
<1>3. [i \in 1..Len(kinds) |-> [kind |-> kinds[i], msg |-> m]] \in [1..Len(kinds) -> Lines]
  BY <1>2 DEF Lines
<1>4. \A n \in Nat : [1..n -> Lines] \subseteq Seq(Lines)
  OBVIOUS
<1> QED
  BY <1>1, <1>3, <1>4

(* Appending an element keeps a sequence over its set.                     *)
LEMMA AppendType ==
  ASSUME NEW S, NEW s \in Seq(S), NEW x \in S
  PROVE  Append(s, x) \in Seq(S)
  OBVIOUS

(* Where the elements of a sequence are after one was appended.            *)
LEMMA AppendIndex ==
  ASSUME NEW S, NEW s \in Seq(S), NEW x
  PROVE  /\ Len(Append(s, x)) = Len(s) + 1
         /\ Append(s, x)[Len(s) + 1] = x
         /\ \A i \in 1..Len(s) : Append(s, x)[i] = s[i]
         /\ DOMAIN Append(s, x) = 1..(Len(s) + 1)
         /\ DOMAIN s = 1..Len(s)
  OBVIOUS

(* What the modem says joins the lines in the UART.                        *)
LEMMA SayType ==
  ASSUME rx \in Seq(Lines), NEW kinds \in Seq(LineKinds), Say(kinds)
  PROVE  rx' \in Seq(Lines)
<1>1. [i \in DOMAIN kinds |-> [kind |-> kinds[i], msg |-> NoMsg]] \in Seq(Lines)
  BY LinesOf
<1> QED
  BY <1>1 DEF Say

(* Every answer of the modem is made of known kinds of lines.              *)
LEMMA Answers ==
  /\ <<"INFO", "OK">> \in Seq(LineKinds)
  /\ <<"ERROR">> \in Seq(LineKinds)
  /\ <<"PROMPT">> \in Seq(LineKinds)
  /\ <<>> \in Seq(LineKinds)
  /\ \A kind \in {"CREG_ON", "CREG_OFF"} : <<kind>> \in Seq(LineKinds)
  BY DEF LineKinds, Terminators

(* The lines in the UART.                                                  *)
LEMMA HeadTail ==
  ASSUME rx \in Seq(Lines), rx # <<>>
  PROVE  /\ Head(rx) \in Lines
         /\ Tail(rx) \in Seq(Lines)
  OBVIOUS

(* What the modem reads next.                                              *)
LEMMA NextItemType ==
  ASSUME TypeOK, modem.taken < Len(wire)
  PROVE  NextItem \in Items /\ NextItem.call \in 0..MaxCalls
<1>1. wire \in Seq(Items) /\ modem.taken \in Nat
  BY DEF TypeOK
<1>2. modem.taken + 1 \in 1..Len(wire)
  BY <1>1
<1>3. NextItem \in Items
  BY <1>1, <1>2 DEF NextItem
<1> QED
  BY <1>3 DEF Items

(* The initial values are of the right types.                              *)
LEMMA TypeInit == Init => TypeOK
<1> SUFFICES ASSUME Init PROVE TypeOK
  OBVIOUS
<1> USE BoundAssumption DEF Init
<1>1. /\ pc \in [Tasks -> {"idle"} \cup SendStates \cup CmdStates]
      /\ cur \in [Tasks -> 0..MaxCalls]
      /\ got \in [Tasks -> BOOLEAN]
      /\ verdict \in [Calls -> Verdicts]
      /\ submitted \in [Calls -> {"none", "accepted", "rejected"}]
  BY DEF Verdicts
<1>2. /\ reader \in [at : {"read", "store", "give"}, line : LineKinds]
      /\ modem \in [taken : Nat, mode : {"command", "text"}, da : 0..MaxCalls, typed : BOOLEAN]
  BY DEF LineKinds
<1>3. /\ at_response \in Seq(LineKinds)
      /\ delivered \in Seq([from : Inbound, body : Lines])
      /\ wire \in Seq(Items)
      /\ rx \in Seq(Lines)
      /\ arrived \in Seq(Inbound)
  OBVIOUS
<1>4. sms \subseteq [da : 0..MaxCalls, text : 0..MaxCalls, typed : BOOLEAN]
  OBVIOUS
<1>5. /\ at_mutex \in Tasks \cup {NoTask}
      /\ at_response_sem \in {0, 1}
      /\ waiting_for_response \in BOOLEAN
      /\ registered \in BOOLEAN
      /\ prev_was_cmt \in Inbound \cup {NoMsg}
  OBVIOUS
<1>6. calls \in 0..MaxCalls /\ urcs \in 0..MaxUrcs /\ okSince \subseteq 0..MaxCalls
  OBVIOUS
<1> QED
  BY <1>1, <1>2, <1>3, <1>4, <1>5, <1>6 DEF TypeOK

(* Every action of the callers, the reader, the modem and the network      *)
(* keeps the types; the semaphore in particular stays below two.           *)
LEMMA TypeNext == TypeOK /\ [Next]_vars => TypeOK'
<1> SUFFICES ASSUME TypeOK, [Next]_vars PROVE TypeOK'
  OBVIOUS
<1> USE BoundAssumption DEF TypeOK, Calls, callerVars, driverVars, readerVars, modemVars
<1>1. ASSUME NEW t \in Senders, SendCall(t) PROVE TypeOK'
  <2>1. calls + 1 \in Calls /\ cur' \in [Tasks -> 0..MaxCalls]
    BY <1>1 DEF SendCall, NewCall, Tasks
  <2>2. CASE registered
    BY <1>1, <2>1, <2>2 DEF SendCall, NewCall, Goto, Tasks, SendStates
  <2>3. CASE ~registered
    BY <1>1, <2>1, <2>3 DEF SendCall, NewCall, Tasks, Verdicts
  <2> QED
    BY <2>2, <2>3
<1>2. ASSUME NEW t \in Pollers, CmdCall(t) PROVE TypeOK'
  BY <1>2 DEF CmdCall, NewCall, Goto, Tasks, CmdStates
<1>3. ASSUME NEW t \in Senders, SendBegin(t) PROVE TypeOK'
  BY <1>3 DEF SendBegin, Begin, Goto, Write, Tasks, SendStates, Items
<1>4. ASSUME NEW t \in Pollers, CmdBegin(t) PROVE TypeOK'
  BY <1>4 DEF CmdBegin, Begin, Goto, Write, Tasks, CmdStates, Items
<1>5. ASSUME NEW t \in Senders, PromptWait(t) PROVE TypeOK'
  BY <1>5 DEF PromptWait, Wait, SemTake, SemTimeout, Goto, Tasks, SendStates
<1>6. ASSUME NEW t \in Senders, ResultWait(t) PROVE TypeOK'
  BY <1>6 DEF ResultWait, Wait, SemTake, SemTimeout, Goto, Tasks, SendStates, TextStates
<1>7. ASSUME NEW t \in Pollers, CmdWait(t) PROVE TypeOK'
  BY <1>7 DEF CmdWait, Wait, SemTake, SemTimeout, Goto, Tasks, CmdStates
<1>8. ASSUME NEW t \in Senders, PromptMissing(t) PROVE TypeOK'
  BY <1>8 DEF PromptMissing, Release, Return, Goto, Tasks, Verdicts
<1>9. ASSUME NEW t \in Senders, SendText(t) PROVE TypeOK'
  BY <1>9 DEF SendText, Goto, Write, Tasks, SendStates, TextStates, Items
<1>22. ASSUME NEW t \in Senders, SendClear(t) PROVE TypeOK'
  BY <1>22 DEF SendClear, Goto, Tasks, SendStates, TextStates
<1>10. ASSUME NEW t \in Senders, SendRelease(t) PROVE TypeOK'
  BY <1>10 DEF SendRelease, GiveBack, Release, Goto, Tasks, SendStates, TextStates
<1>11. ASSUME NEW t \in Pollers, CmdRelease(t) PROVE TypeOK'
  BY <1>11 DEF CmdRelease, GiveBack, Release, Goto, Tasks, CmdStates
<1>12. ASSUME NEW t \in Senders, SendVerdict(t) PROVE TypeOK'
  BY <1>12 DEF SendVerdict, Return, Goto, Tasks, Verdicts
<1>13. ASSUME NEW t \in Pollers, CmdVerdict(t) PROVE TypeOK'
  BY <1>13 DEF CmdVerdict, Return, Goto, Tasks, Verdicts
<1>14. CASE ReadPrompt
  BY <1>14, HeadTail DEF ReadPrompt, Capture, LineKinds, Terminators
<1>15. CASE ReadLine
  <2>1. Head(rx) \in Lines /\ Tail(rx) \in Seq(Lines)
    BY <1>15, HeadTail DEF ReadLine
  <2>2. reader' \in [at : {"read", "store", "give"}, line : LineKinds]
    BY <1>15, <2>1 DEF ReadLine, Capture, Lines
  <2>3. prev_was_cmt' \in Inbound \cup {NoMsg}
    BY <1>15, <2>1 DEF ReadLine, Lines
  <2>4. delivered' \in Seq([from : Inbound, body : Lines])
    <3>1. CASE prev_was_cmt # NoMsg
      <4>1. [from |-> prev_was_cmt, body |-> Head(rx)] \in [from : Inbound, body : Lines]
        BY <2>1, <3>1
      <4>2. delivered' = Append(delivered, [from |-> prev_was_cmt, body |-> Head(rx)])
        BY <1>15, <3>1 DEF ReadLine
      <4>3. delivered \in Seq([from : Inbound, body : Lines])
        OBVIOUS
      <4> HIDE DEF TypeOK
      <4> QED
        BY <4>1, <4>2, <4>3, AppendType
    <3>2. CASE prev_was_cmt = NoMsg
      BY <1>15, <3>2 DEF ReadLine
    <3> QED
      BY <3>1, <3>2
  <2>5. registered' \in BOOLEAN
    BY <1>15 DEF ReadLine
  <2> QED
    BY <1>15, <2>1, <2>2, <2>3, <2>4, <2>5 DEF ReadLine
<1>16. CASE ReaderStore
  <2>1. Answering \subseteq 0..MaxCalls
    BY DEF Answering, Tasks
  <2>2. at_response' \in Seq(LineKinds)
    <3>1. <<"PROMPT">> \in Seq(LineKinds)
      BY Answers
    <3>2. Append(at_response, reader.line) \in Seq(LineKinds)
      OBVIOUS
    <3>3. \/ at_response' = <<"PROMPT">>
          \/ at_response' = Append(at_response, reader.line)
          \/ at_response' = at_response
      BY <1>16 DEF ReaderStore
    <3> QED
      BY <3>1, <3>2, <3>3
  <2>3. reader' \in [at : {"read", "store", "give"}, line : LineKinds]
    BY <1>16 DEF ReaderStore, LineKinds
  <2>4. okSince' \subseteq 0..MaxCalls
    BY <1>16, <2>1 DEF ReaderStore
  <2> QED
    BY <1>16, <2>2, <2>3, <2>4 DEF ReaderStore
<1>17. CASE ReaderGive
  BY <1>17 DEF ReaderGive, LineKinds
<1>18. CASE Modem
  <2> USE DEF ModemReads
  <2>1. CASE ModemCommand
    <3>1. PICK kinds \in Seq(LineKinds) : Say(kinds)
      BY <2>1, Answers DEF ModemCommand
    <3>2. rx' \in Seq(Lines)
      BY <3>1, SayType
    <3> QED
      BY <2>1, <3>2 DEF ModemCommand
  <2>2. CASE ModemOpensText
    <3>1. NextItem.call \in 0..MaxCalls
      BY <2>2, NextItemType DEF ModemOpensText
    <3>2. rx' \in Seq(Lines)
      BY <2>2, Answers, SayType DEF ModemOpensText
    <3> QED
      BY <2>2, <3>1, <3>2 DEF ModemOpensText
  <2>3. CASE ModemRefusesText
    <3>1. PICK kinds \in Seq(LineKinds) : Say(kinds)
      BY <2>3, Answers DEF ModemRefusesText
    <3>2. rx' \in Seq(Lines)
      BY <3>1, SayType
    <3> QED
      BY <2>3, <3>2 DEF ModemRefusesText
  <2>4. CASE ModemIgnoresText
    BY <2>4 DEF ModemIgnoresText
  <2>5. CASE ModemTakesLine
    <3>1. PICK kinds \in Seq(LineKinds) : Say(kinds)
      BY <2>5, Answers DEF ModemTakesLine
    <3>2. rx' \in Seq(Lines)
      BY <3>1, SayType
    <3> QED
      BY <2>5, <3>2 DEF ModemTakesLine
  <2>6. CASE ModemSubmits
    <3>1. NextItem.call \in 0..MaxCalls
      BY <2>6, NextItemType DEF ModemSubmits
    <3>2. rx' \in Seq(Lines)
      BY <2>6, Answers, SayType DEF ModemSubmits
    <3>3. submitted' \in [Calls -> {"none", "accepted", "rejected"}]
      BY <2>6 DEF ModemSubmits
    <3>4. sms' \subseteq [da : 0..MaxCalls, text : 0..MaxCalls, typed : BOOLEAN]
      BY <2>6, <3>1 DEF ModemSubmits
    <3> QED
      BY <2>6, <3>2, <3>3, <3>4 DEF ModemSubmits
  <2> QED
    BY <1>18, <2>1, <2>2, <2>3, <2>4, <2>5, <2>6 DEF Modem
<1>19. ASSUME NEW m \in Inbound, MessageArrives(m) PROVE TypeOK'
  <2>1. BodyLines[m] \in Seq(LineKinds)
    BY BodyAssumption
  <2>2. <<[kind |-> "CMT", msg |-> m]>> \in Seq(Lines)
    BY DEF Lines, LineKinds
  <2>3. [i \in DOMAIN BodyLines[m] |-> [kind |-> BodyLines[m][i], msg |-> m]] \in Seq(Lines)
    BY <2>1, LinesOf
  <2>4. rx' \in Seq(Lines)
    BY <1>19, <2>2, <2>3 DEF MessageArrives
  <2> QED
    BY <1>19, <2>4 DEF MessageArrives
<1>20. ASSUME NEW kind \in {"CREG_ON", "CREG_OFF"}, RegistrationChanges(kind) PROVE TypeOK'
  <2>1. rx' \in Seq(Lines)
    BY <1>20, Answers, SayType DEF RegistrationChanges
  <2>2. Len(arrived) \in Nat
    OBVIOUS
  <2>3. urcs' \in 0..MaxUrcs
    BY <1>20, <2>2 DEF RegistrationChanges
  <2> QED
    BY <1>20, <2>1, <2>3 DEF RegistrationChanges
<1>21. CASE UNCHANGED vars
  BY <1>21 DEF vars
<1> QED
  BY <1>1, <1>2, <1>3, <1>4, <1>5, <1>6, <1>7, <1>8, <1>9, <1>10, <1>11, <1>12, <1>13,
     <1>14, <1>15, <1>16, <1>17, <1>18, <1>19, <1>20, <1>21, <1>22
     DEF Next, Sending, Commanding, Reader

(* Every variable of the driver always has the values its code can give    *)
(* it, whatever the modem says and however the tasks interleave.           *)
THEOREM TypeCorrect == Spec => []TypeOK
  BY TypeInit, TypeNext, PTL DEF Spec

-----------------------------------------------------------------------------
(* The mutex and the waiting flag are inductive together: the flag is only *)
(* ever set by the task that takes the mutex, and cleared with it.         *)
LEMMA SessionNext == TypeOK /\ SessionDiscipline /\ [Next]_vars => SessionDiscipline'
<1> SUFFICES ASSUME TypeOK, SessionDiscipline, [Next]_vars PROVE SessionDiscipline'
  OBVIOUS
<1> USE TaskAssumption
    DEF SessionDiscipline, Session, callerVars, driverVars, readerVars, modemVars, Goto
<1>1. pc \in [Tasks -> {"idle"} \cup SendStates \cup CmdStates]
  BY DEF TypeOK
<1>2. ASSUME NEW t \in Senders, SendCall(t) PROVE SessionDiscipline'
  BY <1>1, <1>2 DEF SendCall, NewCall, Tasks
<1>3. ASSUME NEW t \in Pollers, CmdCall(t) PROVE SessionDiscipline'
  BY <1>1, <1>3 DEF CmdCall, NewCall, Tasks
<1>4. ASSUME NEW t \in Senders, SendBegin(t) PROVE SessionDiscipline'
  BY <1>1, <1>4 DEF SendBegin, Begin, Tasks
<1>5. ASSUME NEW t \in Pollers, CmdBegin(t) PROVE SessionDiscipline'
  BY <1>1, <1>5 DEF CmdBegin, Begin, Tasks
<1>6. ASSUME NEW t \in Tasks, PromptWait(t) \/ ResultWait(t) \/ CmdWait(t)
      PROVE  SessionDiscipline'
  BY <1>1, <1>6 DEF PromptWait, ResultWait, CmdWait, Wait
<1>7. ASSUME NEW t \in Senders, PromptMissing(t) PROVE SessionDiscipline'
  BY <1>1, <1>7 DEF PromptMissing, Release, Return, Tasks
<1>8. ASSUME NEW t \in Senders, SendClear(t) \/ SendText(t) PROVE SessionDiscipline'
  BY <1>1, <1>8 DEF SendClear, SendText, Tasks
<1>9. ASSUME NEW t \in Tasks, SendRelease(t) \/ CmdRelease(t) PROVE SessionDiscipline'
  BY <1>1, <1>9 DEF SendRelease, CmdRelease, GiveBack, Release
<1>10. ASSUME NEW t \in Tasks, SendVerdict(t) \/ CmdVerdict(t) PROVE SessionDiscipline'
  BY <1>1, <1>10 DEF SendVerdict, CmdVerdict, Return
<1>11. CASE Reader
  BY <1>11 DEF Reader, ReadPrompt, ReadLine, ReaderStore, ReaderGive
<1>12. CASE Modem
  BY <1>12 DEF Modem, ModemReads, ModemCommand, ModemOpensText, ModemRefusesText,
               ModemIgnoresText, ModemTakesLine, ModemSubmits
<1>13. ASSUME NEW m \in Inbound, MessageArrives(m) PROVE SessionDiscipline'
  BY <1>13 DEF MessageArrives
<1>14. ASSUME NEW kind \in {"CREG_ON", "CREG_OFF"}, RegistrationChanges(kind)
       PROVE  SessionDiscipline'
  BY <1>14 DEF RegistrationChanges
<1>15. CASE UNCHANGED vars
  BY <1>15 DEF vars
<1> QED
  BY <1>2, <1>3, <1>4, <1>5, <1>6, <1>7, <1>8, <1>9, <1>10, <1>11, <1>12, <1>13, <1>14,
     <1>15 DEF Next, Sending, Commanding, Tasks

(* No way out of a7670e_send_sms or at_cmd leaves the mutex held or the    *)
(* flag waiting_for_response set, and nobody holds them outside one.       *)
THEOREM Discipline == Spec => []SessionDiscipline
<1>1. Init => SessionDiscipline
  BY TaskAssumption DEF Init, SessionDiscipline, Session
<1> QED
  BY <1>1, SessionNext, TypeCorrect, PTL DEF Spec

-----------------------------------------------------------------------------
(* What is on the wire while a task waits for the prompt: its own AT+CMGS  *)
(* is the last thing written.  A task in a call knows the call's name.     *)
CallNamed == \A t \in Tasks : pc[t] # "idle" => cur[t] \in Calls

PromptPending ==
  \A t \in Tasks : pc[t] \in TextComes =>
    wire # <<>> /\ wire[Len(wire)] = [kind |-> "cmgs", call |-> cur[t]]

(* A task takes its number when it starts a call and keeps it until the    *)
(* call returns, so a task in a call has the number of a call.             *)
LEMMA CallNamedNext == TypeOK /\ CallNamed /\ [Next]_vars => CallNamed'
<1> SUFFICES ASSUME TypeOK, CallNamed, [Next]_vars PROVE CallNamed'
  OBVIOUS
<1> USE DEF CallNamed, callerVars, Goto, Calls
<1>1. /\ pc \in [Tasks -> {"idle"} \cup SendStates \cup CmdStates]
      /\ cur \in [Tasks -> 0..MaxCalls]
      /\ calls \in 0..MaxCalls
      /\ MaxCalls \in Nat
  BY BoundAssumption DEF TypeOK
<1>2. ASSUME NEW t \in Senders, SendCall(t) PROVE CallNamed'
  BY <1>1, <1>2 DEF SendCall, NewCall, Tasks
<1>3. ASSUME NEW t \in Pollers, CmdCall(t) PROVE CallNamed'
  BY <1>1, <1>3 DEF CmdCall, NewCall, Tasks
<1>4. ASSUME NEW t \in Tasks, SendBegin(t) \/ CmdBegin(t) PROVE CallNamed'
  BY <1>1, <1>4 DEF SendBegin, CmdBegin, Begin
<1>5. ASSUME NEW t \in Tasks, PromptWait(t) \/ ResultWait(t) \/ CmdWait(t) PROVE CallNamed'
  BY <1>1, <1>5 DEF PromptWait, ResultWait, CmdWait, Wait
<1>6. ASSUME NEW t \in Tasks, PromptMissing(t) \/ SendClear(t) \/ SendText(t)
      PROVE  CallNamed'
  BY <1>1, <1>6 DEF PromptMissing, Return, SendClear, SendText
<1>7. ASSUME NEW t \in Tasks, SendRelease(t) \/ CmdRelease(t) PROVE CallNamed'
  BY <1>1, <1>7 DEF SendRelease, CmdRelease, GiveBack
<1>8. ASSUME NEW t \in Tasks, SendVerdict(t) \/ CmdVerdict(t) PROVE CallNamed'
  BY <1>1, <1>8 DEF SendVerdict, CmdVerdict, Return
<1>9. CASE Reader
  BY <1>9 DEF Reader, ReadPrompt, ReadLine, ReaderStore, ReaderGive
<1>10. CASE Modem
  BY <1>10 DEF Modem, ModemReads, ModemCommand, ModemOpensText, ModemRefusesText,
               ModemIgnoresText, ModemTakesLine, ModemSubmits
<1>11. ASSUME NEW m \in Inbound, MessageArrives(m) PROVE CallNamed'
  BY <1>11 DEF MessageArrives
<1>12. ASSUME NEW kind \in {"CREG_ON", "CREG_OFF"}, RegistrationChanges(kind) PROVE CallNamed'
  BY <1>12 DEF RegistrationChanges
<1>13. CASE UNCHANGED vars
  BY <1>13 DEF vars
<1> QED
  BY <1>2, <1>3, <1>4, <1>5, <1>6, <1>7, <1>8, <1>9, <1>10, <1>11, <1>12, <1>13
     DEF Next, Sending, Commanding, Tasks

(* The steps that change neither the wire nor who has the line.            *)
LinkUnchanged ==
  /\ wire' = wire
  /\ at_mutex' = at_mutex
  /\ cur' = cur
  /\ \A t \in Tasks : pc[t] \in Session =>
       pc'[t] = pc[t] \/ (pc[t] = "prompt_wait" /\ pc'[t] = "prompt_check")
                     \/ (pc[t] = "prompt_check" /\ pc'[t] = "send_text")
                     \/ (pc[t] = "result_wait" /\ pc'[t] = "result_release")
                     \/ (pc[t] = "cmd_wait" /\ pc'[t] = "cmd_release")
  /\ \A t \in Tasks : pc[t] \notin Session => pc'[t] \notin Session

(* Every other step is one of three: the line is taken with a command, the *)
(* text is written, the line is given back.                                *)
Opens(t) ==
  /\ at_mutex = NoTask /\ at_mutex' = t
  /\ cur' = cur
  /\ pc[t] \in {"send_enter", "cmd_enter"}
  /\ \/ wire' = Append(wire, [kind |-> "cmgs", call |-> cur[t]])
        /\ pc' = [pc EXCEPT ![t] = "prompt_wait"]
     \/ wire' = Append(wire, [kind |-> "cmd", call |-> cur[t]])
        /\ pc' = [pc EXCEPT ![t] = "cmd_wait"]

Closes(t) ==
  /\ pc[t] \in {"prompt_check", "result_release", "cmd_release"}
  /\ at_mutex' = NoTask
  /\ wire' = wire /\ cur' = cur
  /\ \E to \in {"idle", "send_verdict", "cmd_verdict"} : pc' = [pc EXCEPT ![t] = to]

(* A call that starts changes cur of a task that is in no session.         *)
Starts(t) ==
  /\ pc[t] = "idle"
  /\ wire' = wire /\ at_mutex' = at_mutex
  /\ \E c \in Calls : cur' = [cur EXCEPT ![t] = c]
  /\ \E to \in {"idle", "send_enter", "cmd_enter"} : pc' = [pc EXCEPT ![t] = to]

(* As far as the line is concerned there are five kinds of steps: those    *)
(* that leave it alone, the start of a call, taking the mutex with a       *)
(* command, the text, and giving the mutex back.                           *)
LEMMA StepKinds ==
  ASSUME TypeOK, [Next]_vars
  PROVE  LinkUnchanged \/ \E t \in Tasks : Starts(t) \/ Opens(t) \/ SendText(t) \/ Closes(t)
<1> USE DEF Goto, callerVars, driverVars, readerVars, modemVars
<1>1. /\ pc \in [Tasks -> {"idle"} \cup SendStates \cup CmdStates]
      /\ cur \in [Tasks -> 0..MaxCalls]
      /\ calls \in 0..MaxCalls
      /\ MaxCalls \in Nat
  BY BoundAssumption DEF TypeOK
<1>2. ASSUME NEW t \in Tasks, SendCall(t) PROVE Starts(t)
  <2>1. calls + 1 \in Calls
    BY <1>1, <1>2 DEF SendCall, NewCall, Calls
  <2>2. pc' = [pc EXCEPT ![t] = "idle"] \/ pc' = [pc EXCEPT ![t] = "send_enter"]
    BY <1>1, <1>2 DEF SendCall, NewCall
  <2> QED
    BY <1>2, <2>1, <2>2 DEF SendCall, NewCall, Starts
<1>3. ASSUME NEW t \in Tasks, CmdCall(t) PROVE Starts(t)
  <2>1. calls + 1 \in Calls
    BY <1>1, <1>3 DEF CmdCall, NewCall, Calls
  <2> QED
    BY <1>3, <2>1 DEF CmdCall, NewCall, Starts
<1>4. ASSUME NEW t \in Tasks, SendBegin(t) \/ CmdBegin(t) PROVE Opens(t)
  BY <1>4 DEF SendBegin, CmdBegin, Begin, Write, Opens
<1>5. ASSUME NEW t \in Tasks, PromptWait(t) \/ ResultWait(t) \/ CmdWait(t) \/ SendClear(t)
      PROVE  LinkUnchanged
  BY <1>1, <1>5
     DEF PromptWait, ResultWait, CmdWait, Wait, SendClear, LinkUnchanged, Session
<1>6. ASSUME NEW t \in Tasks, PromptMissing(t) PROVE Closes(t)
  BY <1>6 DEF PromptMissing, Release, Return, Closes
<1>7. ASSUME NEW t \in Tasks, SendRelease(t) \/ CmdRelease(t) PROVE Closes(t)
  BY <1>7 DEF SendRelease, CmdRelease, GiveBack, Release, Closes
<1>8. ASSUME NEW t \in Tasks, SendVerdict(t) \/ CmdVerdict(t) PROVE LinkUnchanged
  BY <1>1, <1>8 DEF SendVerdict, CmdVerdict, Return, LinkUnchanged, Session
<1>9. ASSUME Reader \/ Modem PROVE LinkUnchanged
  BY <1>9 DEF Reader, ReadPrompt, ReadLine, ReaderStore, ReaderGive, Modem, ModemReads,
              ModemCommand, ModemOpensText, ModemRefusesText, ModemIgnoresText,
              ModemTakesLine, ModemSubmits, LinkUnchanged
<1>10. ASSUME NEW m \in Inbound, MessageArrives(m) PROVE LinkUnchanged
  BY <1>10 DEF MessageArrives, LinkUnchanged
<1>11. ASSUME NEW kind \in {"CREG_ON", "CREG_OFF"}, RegistrationChanges(kind)
       PROVE  LinkUnchanged
  BY <1>11 DEF RegistrationChanges, LinkUnchanged
<1>12. CASE UNCHANGED vars
  BY <1>12 DEF vars, LinkUnchanged
<1> QED
  BY <1>2, <1>3, <1>4, <1>5, <1>6, <1>7, <1>8, <1>9, <1>10, <1>11, <1>12
     DEF Next, Sending, Commanding, Tasks

(* Nothing is on the wire at first.                                        *)
LEMMA WireInit == Init => CallNamed /\ PromptPending /\ WireSerialised
  BY DEF Init, CallNamed, PromptPending, TextComes, WireSerialised

(* No step comes between an AT+CMGS and its text: the one who may write is *)
(* the holder of the mutex.                                                *)
LEMMA PromptNext ==
  ASSUME TypeOK, SessionDiscipline, CallNamed, PromptPending, WireSerialised, [Next]_vars
  PROVE  PromptPending' /\ WireSerialised'
<1>1. /\ pc \in [Tasks -> {"idle"} \cup SendStates \cup CmdStates]
      /\ cur \in [Tasks -> 0..MaxCalls]
      /\ wire \in Seq(Items)
      /\ NoTask \notin Tasks
  BY TaskAssumption DEF TypeOK
<1>2. \A t \in Tasks : pc[t] \in Session <=> at_mutex = t
  BY DEF SessionDiscipline
<1>3. CASE LinkUnchanged
  <2>1. \A t \in Tasks : pc'[t] \in TextComes =>
                          pc[t] \in TextComes
    BY <1>3 DEF LinkUnchanged, Session, TextComes
  <2> QED
    BY <1>3, <2>1 DEF LinkUnchanged, PromptPending, WireSerialised
<1>4. ASSUME NEW t \in Tasks, Starts(t) PROVE PromptPending' /\ WireSerialised'
  <2>1. \A u \in Tasks : pc'[u] \in TextComes =>
          u # t /\ pc'[u] = pc[u] /\ cur'[u] = cur[u]
    BY <1>1, <1>4 DEF Starts, TextComes
  <2> QED
    BY <1>4, <2>1 DEF Starts, PromptPending, WireSerialised
<1>5. ASSUME NEW t \in Tasks, Opens(t) PROVE PromptPending' /\ WireSerialised'
  <2>1. PICK kind \in {"cmgs", "cmd"} :
          /\ wire' = Append(wire, [kind |-> kind, call |-> cur[t]])
          /\ pc' = [pc EXCEPT ![t] = IF kind = "cmgs" THEN "prompt_wait" ELSE "cmd_wait"]
    BY <1>5 DEF Opens
  <2>2. /\ Len(wire') = Len(wire) + 1 /\ wire' # <<>>
        /\ wire'[Len(wire) + 1] = [kind |-> kind, call |-> cur[t]]
        /\ \A i \in 1..Len(wire) : wire'[i] = wire[i]
        /\ DOMAIN wire' = 1..(Len(wire) + 1) /\ DOMAIN wire = 1..Len(wire)
    <3>1. Len(wire) \in Nat
      BY <1>1
    <3> QED
      BY <1>1, <2>1, <3>1, AppendIndex
  <2>3. \A u \in Tasks : u # t => pc[u] \notin Session /\ pc'[u] = pc[u]
    BY <1>1, <1>2, <1>5, <2>1 DEF Opens
  <2>4. PromptPending'
    BY <1>1, <1>5, <2>1, <2>2, <2>3 DEF PromptPending, Session, TextComes, Opens
  <2>5. WireSerialised'
    BY <2>2 DEF WireSerialised
  <2> QED
    BY <2>4, <2>5
<1>6. ASSUME NEW t \in Tasks, SendText(t) PROVE PromptPending' /\ WireSerialised'
  <2>1. /\ wire' = Append(wire, [kind |-> "text", call |-> cur[t]])
        /\ pc[t] = "send_text" /\ pc' = [pc EXCEPT ![t] = "result_wait"]
    BY <1>6 DEF SendText, Write, Goto
  <2>2. /\ Len(wire') = Len(wire) + 1
        /\ wire'[Len(wire) + 1] = [kind |-> "text", call |-> cur[t]]
        /\ \A i \in 1..Len(wire) : wire'[i] = wire[i]
        /\ DOMAIN wire' = 1..(Len(wire) + 1) /\ DOMAIN wire = 1..Len(wire)
    BY <1>1, <2>1, AppendIndex
  <2>3. /\ wire # <<>> /\ Len(wire) \in 1..Len(wire)
        /\ wire[Len(wire)] = [kind |-> "cmgs", call |-> cur[t]]
    BY <1>1, <2>1 DEF PromptPending, TextComes
  <2>4. PromptPending'
    BY <1>1, <1>2, <2>1 DEF PromptPending, Session, TextComes
  <2>5. WireSerialised'
    BY <2>2, <2>3 DEF WireSerialised
  <2> QED
    BY <2>4, <2>5
<1>7. ASSUME NEW t \in Tasks, Closes(t) PROVE PromptPending' /\ WireSerialised'
  <2>1. \A u \in Tasks : pc'[u] \in TextComes =>
          pc'[u] = pc[u]
    BY <1>1, <1>7 DEF Closes, TextComes
  <2> QED
    BY <1>7, <2>1 DEF Closes, PromptPending, WireSerialised
<1> QED
  BY <1>3, <1>4, <1>5, <1>6, <1>7, StepKinds

(* Whatever the tasks and the modem do, a text is never separated from the *)
(* AT+CMGS it belongs to.                                                  *)
THEOREM Serialised == Spec => []WireSerialised
<1>1. TypeOK /\ SessionDiscipline /\ CallNamed /\ PromptPending /\ WireSerialised
        /\ [Next]_vars => CallNamed' /\ PromptPending' /\ WireSerialised'
  BY CallNamedNext, PromptNext
<1> QED
  BY <1>1, WireInit, TypeCorrect, Discipline, PTL DEF Spec

-----------------------------------------------------------------------------
(* Every step of the driver is a step of SerialLink or a stutter.          *)
LEMMA LinkNext ==
  ASSUME TypeOK, SessionDiscipline, CallNamed, PromptPending, SessionDiscipline', [Next]_vars
  PROVE  [Link!Next]_Link!vars
<1>1. /\ pc \in [Tasks -> {"idle"} \cup SendStates \cup CmdStates]
      /\ cur \in [Tasks -> 0..MaxCalls]
      /\ wire \in Seq(Items)
      /\ NoTask \notin Tasks
      /\ at_mutex \in Tasks \cup {NoTask}
  BY TaskAssumption DEF TypeOK
<1>2. \A t \in Tasks : pc[t] \in Session <=> at_mutex = t
  BY DEF SessionDiscipline
<1>3. CASE LinkUnchanged
  <2>1. LinkStage' = LinkStage
    BY <1>1, <1>2, <1>3 DEF LinkStage, LinkUnchanged, Session, TextComes
  <2> QED
    BY <1>3, <2>1 DEF LinkUnchanged, Link!vars
<1>4. ASSUME NEW t \in Tasks, Starts(t) PROVE [Link!Next]_Link!vars
  <2>1. LinkStage' = LinkStage
    BY <1>1, <1>2, <1>4 DEF LinkStage, Starts, Session
  <2> QED
    BY <1>4, <2>1 DEF Starts, Link!vars
<1>5. ASSUME NEW t \in Tasks, Opens(t) PROVE [Link!Next]_Link!vars
  <2>1. cur[t] \in Calls
    BY <1>5 DEF Opens, CallNamed
  <2>2. Link!Open(t, cur[t])
    BY <1>1, <1>5 DEF Opens, Link!Open, LinkStage, TextComes
  <2> QED
    BY <2>1, <2>2 DEF Link!Next
<1>6. ASSUME NEW t \in Tasks, SendText(t) PROVE [Link!Next]_Link!vars
  <2>1. at_mutex = t /\ at_mutex' = t
    BY <1>2, <1>6 DEF SendText, Session, driverVars
  <2>2. wire' = Append(wire, [kind |-> "text", call |-> cur[t]])
    BY <1>6 DEF SendText, Write
  <2>3. wire[Len(wire)].call = cur[t]
    <3>1. wire[Len(wire)] = [kind |-> "cmgs", call |-> cur[t]]
      BY <1>6 DEF SendText, PromptPending, TextComes
    <3> QED
      BY <3>1
  <2>4. LinkStage = "prompt" /\ LinkStage' = "answer"
    BY <1>1, <1>6, <2>1 DEF SendText, Goto, LinkStage, TextComes
  <2>5. Link!Text(t)
    BY <2>1, <2>2, <2>3, <2>4 DEF Link!Text
  <2> QED
    BY <2>5 DEF Link!Next
<1>7. ASSUME NEW t \in Tasks, Closes(t) PROVE [Link!Next]_Link!vars
  <2>1. at_mutex = t
    BY <1>2, <1>7 DEF Closes, Session
  <2>2. Link!Close(t)
    BY <1>7, <2>1 DEF Closes, Link!Close, LinkStage
  <2> QED
    BY <2>2 DEF Link!Next
<1> QED
  BY <1>3, <1>4, <1>5, <1>6, <1>7, StepKinds

(* The driver implements the abstract serial line: each step of a caller   *)
(* is an Open, a Text, a Close or a stutter of SerialLink, and no step of  *)
(* the reader, the modem or the network touches the line.                  *)
THEOREM Refinement == Spec => Link!Spec
<1>1. Init => Link!Init
  BY DEF Init, Link!Init, LinkStage
<1>2. Spec => [](TypeOK /\ SessionDiscipline /\ CallNamed /\ PromptPending)
  <2>1. TypeOK /\ SessionDiscipline /\ CallNamed /\ PromptPending /\ WireSerialised
          /\ [Next]_vars => CallNamed' /\ PromptPending' /\ WireSerialised'
    BY CallNamedNext, PromptNext
  <2> QED
    BY <2>1, WireInit, TypeCorrect, Discipline, PTL DEF Spec
<1> QED
  BY <1>1, <1>2, LinkNext, PTL DEF Spec, Link!Spec

-----------------------------------------------------------------------------
(* Inductive strengthening of SuccessNeedsFreshOk: while a call waits for  *)
(* the outcome of its text, or is about to judge it, an OK in at_response  *)
(* was stored since the call cleared at_response for that outcome.         *)
OkIsFresh ==
  \A t \in Senders : pc[t] \in TextStates => (Has("OK") => cur[t] \in okSince)

(* A step that leaves the buffer and the history alone, and brings no task *)
(* into TextStates.                                                        *)
LEMMA OkIsFreshKept ==
  ASSUME OkIsFresh, SuccessNeedsFreshOk,
         at_response' = at_response, okSince' = okSince,
         \A t \in Senders : pc'[t] \in TextStates => pc[t] \in TextStates /\ cur'[t] = cur[t],
         \A c \in Calls : verdict'[c] = "SENT" => verdict[c] = "SENT" \/ c \in okSince
  PROVE  OkIsFresh' /\ SuccessNeedsFreshOk'
<1>1. Has("OK")' = Has("OK")
  BY DEF Has
<1> QED
  BY <1>1 DEF OkIsFresh, SuccessNeedsFreshOk

(* No action makes an old OK count: a caller finds at_response empty when  *)
(* it begins to wait for the outcome of its text, and from then on an OK   *)
(* that the reader stores is noted for it.                                 *)
LEMMA FreshNext ==
  ASSUME TypeOK, OkIsFresh, SuccessNeedsFreshOk, [Next]_vars
  PROVE  OkIsFresh' /\ SuccessNeedsFreshOk'
<1> USE DEF callerVars, driverVars, readerVars, modemVars, Goto
<1>1. /\ pc \in [Tasks -> {"idle"} \cup SendStates \cup CmdStates]
      /\ cur \in [Tasks -> 0..MaxCalls]
      /\ verdict \in [Calls -> Verdicts]
      /\ wire \in Seq(Items)
      /\ at_response \in Seq(LineKinds)
      /\ Senders \subseteq Tasks
  BY DEF TypeOK, Tasks
<1>2. ASSUME NEW t \in Tasks, SendCall(t) \/ CmdCall(t)
      PROVE  OkIsFresh' /\ SuccessNeedsFreshOk'
  <2>1. \A u \in Senders : pc'[u] \in TextStates => pc[u] \in TextStates /\ cur'[u] = cur[u]
    BY <1>1, <1>2 DEF SendCall, CmdCall, NewCall, TextStates
  <2>2. \A c \in Calls : verdict'[c] = "SENT" => verdict[c] = "SENT"
    BY <1>1, <1>2 DEF SendCall, CmdCall
  <2> QED
    BY <1>2, <2>1, <2>2, OkIsFreshKept DEF SendCall, CmdCall
<1>3. ASSUME NEW t \in Tasks, SendBegin(t) \/ CmdBegin(t)
      PROVE  OkIsFresh' /\ SuccessNeedsFreshOk'
  <2>1. ~Has("OK")'
    BY <1>3 DEF SendBegin, CmdBegin, Begin, Has, Range
  <2>3. \A u \in Senders : pc'[u] \in TextStates => pc[u] \in TextStates /\ cur'[u] = cur[u]
    BY <1>1, <1>3 DEF SendBegin, CmdBegin, Begin, TextStates
  <2> QED
    BY <1>3, <2>1, <2>3
       DEF SendBegin, CmdBegin, Begin, OkIsFresh, SuccessNeedsFreshOk
<1>4. ASSUME NEW t \in Tasks, SendClear(t) PROVE OkIsFresh' /\ SuccessNeedsFreshOk'
  <2>1. ~Has("OK")'
    BY <1>4 DEF SendClear, Has, Range
  <2> QED
    BY <1>4, <2>1 DEF SendClear, OkIsFresh, SuccessNeedsFreshOk
<1>14. ASSUME NEW t \in Tasks, SendText(t) PROVE OkIsFresh' /\ SuccessNeedsFreshOk'
  <2>1. \A u \in Senders : pc'[u] \in TextStates => pc[u] \in TextStates /\ cur'[u] = cur[u]
    BY <1>1, <1>14 DEF SendText, TextStates
  <2> QED
    BY <1>14, <2>1, OkIsFreshKept DEF SendText
<1>5. ASSUME NEW t \in Tasks,
             PromptWait(t) \/ ResultWait(t) \/ CmdWait(t) \/ SendRelease(t) \/ CmdRelease(t)
      PROVE  OkIsFresh' /\ SuccessNeedsFreshOk'
  <2>1. \A u \in Senders : pc'[u] \in TextStates => pc[u] \in TextStates /\ cur'[u] = cur[u]
    BY <1>1, <1>5 DEF PromptWait, ResultWait, CmdWait, Wait, SendRelease, CmdRelease,
                      GiveBack, TextStates
  <2> QED
    BY <1>5, <2>1, OkIsFreshKept
       DEF PromptWait, ResultWait, CmdWait, Wait, SendRelease, CmdRelease, GiveBack
<1>6. ASSUME NEW t \in Tasks, PromptMissing(t) \/ CmdVerdict(t)
      PROVE  OkIsFresh' /\ SuccessNeedsFreshOk'
  <2>1. \A u \in Senders : pc'[u] \in TextStates => pc[u] \in TextStates /\ cur'[u] = cur[u]
    BY <1>1, <1>6 DEF PromptMissing, CmdVerdict, Return, TextStates
  <2>2. \A c \in Calls : verdict'[c] = "SENT" => verdict[c] = "SENT"
    BY <1>1, <1>6 DEF PromptMissing, CmdVerdict, Return
  <2> QED
    BY <1>6, <2>1, <2>2, OkIsFreshKept DEF PromptMissing, CmdVerdict
<1>7. ASSUME NEW t \in Senders, SendVerdict(t) PROVE OkIsFresh' /\ SuccessNeedsFreshOk'
  <2>1. \A u \in Senders : pc'[u] \in TextStates => pc[u] \in TextStates /\ cur'[u] = cur[u]
    BY <1>1, <1>7 DEF SendVerdict, Return, TextStates
  <2>2. \A c \in Calls : verdict'[c] = "SENT" => verdict[c] = "SENT" \/ c \in okSince
    BY <1>1, <1>7 DEF SendVerdict, Return, OkIsFresh, TextStates
  <2> QED
    BY <1>7, <2>1, <2>2, OkIsFreshKept DEF SendVerdict
<1>8. CASE ReaderStore
  <2>1. CASE okSince' = okSince \cup Answering
    <3>1. \A t \in Senders : pc[t] \in TextStates => cur[t] \in Answering
      BY DEF Answering
    <3> QED
      BY <1>8, <2>1, <3>1 DEF ReaderStore, OkIsFresh, SuccessNeedsFreshOk
  <2>2. CASE okSince' = okSince /\ (Has("OK")' => Has("OK"))
    BY <1>8, <2>2 DEF ReaderStore, OkIsFresh, SuccessNeedsFreshOk
  <2>3. \/ at_response' = at_response
        \/ at_response' = <<"PROMPT">> /\ reader.line = "PROMPT"
        \/ at_response' = Append(at_response, reader.line)
    BY <1>8 DEF ReaderStore
  <2>4. ASSUME reader.line \notin Containing["OK"] PROVE Has("OK")' => Has("OK")
    <3>1. CASE at_response' = at_response
      BY <3>1 DEF Has
    <3>2. CASE at_response' = <<"PROMPT">> /\ reader.line = "PROMPT"
      BY <3>2 DEF Has, Range, Containing
    <3>3. CASE at_response' = Append(at_response, reader.line)
      <4>1. /\ \A i \in 1..Len(at_response) : at_response'[i] = at_response[i]
            /\ at_response'[Len(at_response) + 1] = reader.line
            /\ DOMAIN at_response' = 1..(Len(at_response) + 1)
            /\ DOMAIN at_response = 1..Len(at_response)
            /\ Len(at_response) \in Nat
        BY <1>1, <3>3, AppendIndex
      <4>2. Range(at_response') \subseteq Range(at_response) \cup {reader.line}
        BY <4>1 DEF Range
      <4> QED
        BY <2>4, <4>2 DEF Has
    <3> QED
      BY <2>3, <3>1, <3>2, <3>3
  <2>5. ASSUME reader.line \in Containing["OK"], ~(Len(at_response) < MaxResponse)
        PROVE  at_response' = at_response /\ okSince' = okSince
    BY <1>8, <2>5 DEF ReaderStore, Containing
  <2>6. ASSUME reader.line \in Containing["OK"], Len(at_response) < MaxResponse
        PROVE  okSince' = okSince \cup Answering
    BY <1>8, <2>6 DEF ReaderStore
  <2>7. ASSUME reader.line \notin Containing["OK"] PROVE okSince' = okSince
    BY <1>8, <2>7 DEF ReaderStore
  <2>8. at_response' = at_response => (Has("OK")' => Has("OK"))
    BY DEF Has
  <2> QED
    BY <2>1, <2>2, <2>4, <2>5, <2>6, <2>7, <2>8
<1>9. ASSUME ReadPrompt \/ ReadLine \/ ReaderGive PROVE OkIsFresh' /\ SuccessNeedsFreshOk'
  BY <1>9, OkIsFreshKept DEF ReadPrompt, ReadLine, ReaderGive
<1>10. CASE Modem
  BY <1>10, OkIsFreshKept
     DEF Modem, ModemReads, ModemCommand, ModemOpensText, ModemRefusesText,
         ModemIgnoresText, ModemTakesLine, ModemSubmits
<1>11. ASSUME NEW m \in Inbound, MessageArrives(m) PROVE OkIsFresh' /\ SuccessNeedsFreshOk'
  BY <1>11, OkIsFreshKept DEF MessageArrives
<1>12. ASSUME NEW kind \in {"CREG_ON", "CREG_OFF"}, RegistrationChanges(kind)
       PROVE  OkIsFresh' /\ SuccessNeedsFreshOk'
  BY <1>12, OkIsFreshKept DEF RegistrationChanges
<1>13. CASE UNCHANGED vars
  BY <1>13, OkIsFreshKept DEF vars
<1> QED
  BY <1>2, <1>3, <1>4, <1>5, <1>6, <1>7, <1>8, <1>9, <1>10, <1>11, <1>12, <1>13,
     <1>14 DEF Next, Sending, Commanding, Reader, Tasks

(* a7670e_send_sms never reports success on an answer that was in the      *)
(* buffer when it found its prompt: it reports success only if an OK was   *)
(* stored after it had cleared the buffer, which it does before it writes  *)
(* the text, though it reads the buffer after giving the mutex back.  That *)
(* OK can be a late answer to an earlier command.                          *)
THEOREM FreshOk == Spec => []SuccessNeedsFreshOk
<1>1. Init => OkIsFresh /\ SuccessNeedsFreshOk
  BY DEF Init, OkIsFresh, TextStates, SuccessNeedsFreshOk, Tasks
<1> QED
  BY <1>1, FreshNext, TypeCorrect, PTL DEF Spec

-----------------------------------------------------------------------------
(* Inbound messages.  What the reader hands over of a plain message.       *)
FirstLine(m) == [kind |-> BodyLines[m][1], msg |-> m]

(* The messages whose header the reader has read, and which of the first n *)
(* have one that is still to be read.                                      *)
Told    == Len(delivered) + (IF prev_was_cmt = NoMsg THEN 0 ELSE 1)
Owed(n) == (Told + 1)..n

(* Line p of the UART is the header of m and the line behind it its body.  *)
HeaderAt(p, m) == rx[p] = [kind |-> "CMT", msg |-> m] /\ rx[p + 1] = FirstLine(m)

(* h says where among the first "end" lines of the UART the header of each *)
(* of the first n messages still owed is: they are in the order of         *)
(* arrival, and no other line there can be taken for a header.             *)
Headers(h, n, end) ==
  /\ \A i, j \in Owed(n) : i < j => h[i] + 1 < h[j]
  /\ \A i \in Owed(n) : h[i] < end /\ HeaderAt(h[i], arrived[i])
  /\ prev_was_cmt # NoMsg => \A i \in Owed(n) : h[i] > 1
  /\ \A p \in 1..end : rx[p].kind = "CMT" =>
       \/ p = 1 /\ prev_was_cmt # NoMsg
       \/ \E i \in Owed(n) : h[i] = p \/ h[i] + 1 = p

(* Between a header and its body the reader has nothing else to read.      *)
HeaderRead(end) ==
  prev_was_cmt # NoMsg => end > 0 /\ arrived[Told] = prev_was_cmt /\ rx[1] = FirstLine(prev_was_cmt)

(* The reader is among the first n messages, whose lines end at "end".     *)
Follows(n, end) ==
  /\ Told <= n
  /\ n = Len(arrived) => end = Len(rx)
  /\ HeaderRead(end)
  /\ \E h \in [Owed(n) -> 1..end] : Headers(h, n, end)

(* The messages before the first that is not plain are n, and those of     *)
(* them that were handed over are right.                                   *)
Faithful(n) ==
  /\ \A i \in 1..n : Plain(arrived[i])
  /\ n < Len(arrived) => ~Plain(arrived[n + 1])
  /\ \A i \in 1..n : i <= Len(delivered) =>
       delivered[i] = [from |-> arrived[i], body |-> FirstLine(arrived[i])]

(* Inductive strengthening of InboundFaithful: the reader is among these   *)
(* messages, or all of them were handed over.                              *)
InboundInv ==
  \E n \in 0..Len(arrived) :
    /\ Faithful(n)
    /\ \/ \E end \in 0..Len(rx) : Follows(n, end)
       \/ n < Len(arrived) /\ n <= Len(delivered)

(* Where the elements of a concatenation are.                              *)
LEMMA ConcatIndex ==
  ASSUME NEW S, NEW s \in Seq(S), NEW t \in Seq(S)
  PROVE  /\ Len(s \o t) = Len(s) + Len(t) /\ Len(s) \in Nat /\ Len(t) \in Nat
         /\ DOMAIN (s \o t) = 1..(Len(s) + Len(t))
         /\ DOMAIN s = 1..Len(s) /\ DOMAIN t = 1..Len(t)
         /\ \A p \in 1..Len(s) : (s \o t)[p] = s[p]
         /\ \A p \in 1..Len(t) : (s \o t)[Len(s) + p] = t[p]
  OBVIOUS

(* The variables InboundInv is about.                                      *)
inboundVars == <<rx, arrived, delivered, prev_was_cmt>>

(* How many messages have been read, as a number.                          *)
LEMMA ToldType ==
  ASSUME TypeOK
  PROVE  /\ Told \in Nat /\ Len(delivered) \in Nat /\ Len(arrived) \in Nat
         /\ Len(rx) \in Nat /\ DOMAIN rx = 1..Len(rx)
         /\ DOMAIN delivered = 1..Len(delivered) /\ DOMAIN arrived = 1..Len(arrived)
         /\ \A p \in DOMAIN rx : rx[p] \in Lines
         /\ prev_was_cmt = NoMsg => Told = Len(delivered)
         /\ prev_was_cmt # NoMsg => Told = Len(delivered) + 1
  BY DEF TypeOK, Told

(* What the invariant says of the messages that were handed over.          *)
LEMMA InvFaithful == TypeOK /\ InboundInv => InboundFaithful
<1> SUFFICES ASSUME TypeOK, InboundInv, NEW i \in DOMAIN delivered, PlainUpTo(i)
             PROVE  /\ i \in DOMAIN arrived
                    /\ delivered[i] = [from |-> arrived[i],
                                       body |-> [kind |-> BodyLines[arrived[i]][1],
                                                 msg |-> arrived[i]]]
  BY DEF InboundFaithful
<1>1. PICK n \in 0..Len(arrived) :
        /\ Faithful(n)
        /\ \/ \E end \in 0..Len(rx) : Follows(n, end)
           \/ n < Len(arrived) /\ n <= Len(delivered)
  BY DEF InboundInv
<1>2. /\ Len(arrived) \in Nat /\ Len(delivered) \in Nat /\ Told \in Nat
      /\ DOMAIN arrived = 1..Len(arrived) /\ DOMAIN delivered = 1..Len(delivered)
      /\ Len(delivered) <= Told
  BY ToldType
<1>n. n \in Nat /\ n <= Len(arrived) /\ i \in Nat
  BY <1>2
<1>3. i <= n
  <2>1. SUFFICES ASSUME n < i PROVE FALSE
    BY <1>2
  <2>2. CASE n < Len(arrived)
    <3>1. n + 1 \in DOMAIN arrived /\ n + 1 <= i
      BY <1>2, <2>1, <2>2
    <3> QED
      BY <1>1, <2>2, <3>1 DEF PlainUpTo, Faithful
  <2>3. CASE n = Len(arrived)
    <3>1. Told <= n
      BY <1>1, <1>2, <2>3 DEF Follows
    <3> QED
      BY <1>2, <2>1, <3>1
  <2> QED
    BY <1>n, <2>2, <2>3
<1>4. i \in 1..n /\ i <= Len(delivered) /\ i \in DOMAIN arrived
  BY <1>2, <1>3
<1> QED
  BY <1>1, <1>4 DEF Faithful, FirstLine

(* What joins at the end of the UART leaves the lines the reader still has *)
(* to follow where they are; only when these were all the lines must the   *)
(* new ones be without a header.                                           *)
LEMMA FollowsJoined ==
  ASSUME TypeOK, NEW s \in Seq(Lines), rx' = rx \o s, UNCHANGED <<delivered, prev_was_cmt>>,
         NEW n \in 0..Len(arrived), NEW end \in 0..Len(rx), Follows(n, end),
         \A i \in 1..Len(arrived) : arrived'[i] = arrived[i],
         NEW end2 \in end..Len(rx'), n = Len(arrived') => end2 = Len(rx'),
         end2 = end \/ (end = Len(rx) /\ \A p \in 1..Len(s) : s[p].kind # "CMT")
  PROVE  Follows(n, end2)'
<1>1. Told' = Told /\ Owed(n)' = Owed(n)
  BY DEF Told, Owed
<1>2. /\ Len(rx') = Len(rx) + Len(s)
      /\ \A p \in 1..Len(rx) : rx'[p] = rx[p]
      /\ \A p \in 1..Len(s) : rx'[Len(rx) + p] = s[p]
      /\ Len(rx) \in Nat /\ Len(s) \in Nat
  BY ConcatIndex DEF TypeOK
<1>e. end \in Nat /\ end <= Len(rx) /\ end2 \in Nat /\ end <= end2
  BY <1>2
<1>3. /\ Told \in Nat /\ Len(arrived) \in Nat /\ Told <= n /\ Owed(n) \subseteq 1..n
      /\ prev_was_cmt # NoMsg => Told \in 1..Len(arrived)
  <2>1. Told <= n
    BY DEF Follows
  <2>2. /\ Told \in Nat /\ Len(delivered) \in Nat /\ Len(arrived) \in Nat
        /\ prev_was_cmt # NoMsg => Told = Len(delivered) + 1
    BY ToldType
  <2>3. Owed(n) \subseteq 1..n
    BY <2>2 DEF Owed
  <2> QED
    BY <2>1, <2>2, <2>3
<1>4. HeaderRead(end2)'
  <2>1. HeaderRead(end)
    BY DEF Follows
  <2> QED
    BY <1>1, <1>2, <1>3, <2>1 DEF HeaderRead
<1>5. PICK h \in [Owed(n) -> 1..end] : Headers(h, n, end)
  BY DEF Follows
<1>6. h \in [Owed(n)' -> 1..end2]
  BY <1>1, <1>2
<1>7. ASSUME NEW i \in Owed(n) PROVE h[i] < end2 /\ HeaderAt(h[i], arrived[i])'
  <2>1. h[i] \in 1..end /\ h[i] < end /\ HeaderAt(h[i], arrived[i])
    BY <1>5 DEF Headers
  <2>2. arrived'[i] = arrived[i]
    <3>1. i \in 1..Len(arrived)
      BY <1>3
    <3> QED
      BY <3>1
  <2>3. h[i] \in 1..Len(rx) /\ h[i] + 1 \in 1..Len(rx) /\ h[i] < end2
    BY <1>2, <1>e, <2>1
  <2> QED
    BY <1>2, <2>1, <2>2, <2>3 DEF HeaderAt, FirstLine
<1>8. ASSUME NEW p \in 1..end2, rx'[p].kind = "CMT"
      PROVE  \/ p = 1 /\ prev_was_cmt # NoMsg
             \/ \E i \in Owed(n) : h[i] = p \/ h[i] + 1 = p
  <2>1. CASE p <= end
    BY <1>2, <1>5, <1>8, <2>1 DEF Headers
  <2>2. CASE p > end
    <3>1. end = Len(rx) /\ p - Len(rx) \in 1..Len(s) /\ Len(rx) + (p - Len(rx)) = p
      BY <1>2, <2>2
    <3> QED
      BY <1>2, <1>8, <2>2, <3>1
  <2> QED
    BY <1>2, <2>1, <2>2
<1>9. Headers(h, n, end2)'
  BY <1>1, <1>5, <1>7, <1>8 DEF Headers
<1> QED
  BY <1>1, <1>3, <1>4, <1>6, <1>9 DEF Follows

(* Lines without a header that join.                                       *)
LEMMA InboundSays ==
  ASSUME TypeOK, InboundInv, NEW s \in Seq(Lines), rx' = rx \o s,
         \A p \in DOMAIN s : s[p].kind # "CMT",
         UNCHANGED <<arrived, delivered, prev_was_cmt>>
  PROVE  InboundInv'
<1>1. PICK n \in 0..Len(arrived) :
        /\ Faithful(n)
        /\ \/ \E end \in 0..Len(rx) : Follows(n, end)
           \/ n < Len(arrived) /\ n <= Len(delivered)
  BY DEF InboundInv
<1>2. /\ Len(rx') = Len(rx) + Len(s) /\ Len(rx) \in Nat /\ Len(s) \in Nat
      /\ DOMAIN s = 1..Len(s)
  BY ConcatIndex DEF TypeOK
<1>3. Faithful(n)'
  BY <1>1 DEF Faithful, FirstLine
<1>4. ASSUME NEW end \in 0..Len(rx), Follows(n, end)
      PROVE  \E end2 \in 0..Len(rx') : Follows(n, end2)'
  <2>1. CASE n = Len(arrived)
    <3>1. end = Len(rx)
      BY <1>4, <2>1 DEF Follows
    <3>2. PICK end2 : end2 = Len(rx')
      OBVIOUS
    <3>3. end2 \in end..Len(rx') /\ end2 \in 0..Len(rx')
      BY <1>2, <3>1, <3>2
    <3>4. Follows(n, end2)'
      BY <1>2, <1>4, <3>1, <3>2, <3>3, FollowsJoined
    <3> QED
      BY <3>3, <3>4
  <2>2. CASE n # Len(arrived)
    <3>1. end \in end..Len(rx') /\ end \in 0..Len(rx')
      BY <1>2
    <3>2. Follows(n, end)'
      BY <1>4, <2>2, <3>1, FollowsJoined
    <3> QED
      BY <3>1, <3>2
  <2> QED
    BY <2>1, <2>2
<1> QED
  BY <1>1, <1>3, <1>4 DEF InboundInv

(* What the modem and the network say besides messages has no header.      *)
LEMMA InboundSay ==
  ASSUME TypeOK, InboundInv, NEW kinds \in Seq(LineKinds), Say(kinds),
         \A i \in DOMAIN kinds : kinds[i] # "CMT",
         UNCHANGED <<arrived, delivered, prev_was_cmt>>
  PROVE  InboundInv'
<1> DEFINE s == [i \in DOMAIN kinds |-> [kind |-> kinds[i], msg |-> NoMsg]]
<1>1. s \in Seq(Lines)
  BY LinesOf
<1>2. rx' = rx \o s
  BY DEF Say
<1>3. \A p \in DOMAIN s : s[p].kind # "CMT"
  OBVIOUS
<1> HIDE DEF s
<1> QED
  BY <1>1, <1>2, <1>3, InboundSays

(* The lines of a message that arrives, behind the others.                 *)
LEMMA ArrivesIndex ==
  ASSUME TypeOK, NEW m \in Inbound, MessageArrives(m)
  PROVE  /\ arrived' = Append(arrived, m) /\ UNCHANGED <<delivered, prev_was_cmt>>
         /\ Len(BodyLines[m]) \in Nat
         /\ Len(rx') = Len(rx) + 1 + Len(BodyLines[m])
         /\ \A p \in 1..Len(rx) : rx'[p] = rx[p]
         /\ rx'[Len(rx) + 1] = [kind |-> "CMT", msg |-> m]
         /\ \A p \in 1..Len(BodyLines[m]) :
              rx'[Len(rx) + 1 + p] = [kind |-> BodyLines[m][p], msg |-> m]
         /\ \E s \in Seq(Lines) : rx' = rx \o s
<1>body. PICK body : body = [i \in DOMAIN BodyLines[m] |-> [kind |-> BodyLines[m][i], msg |-> m]]
  OBVIOUS
<1>n. PICK n : n = Len(rx)
  OBVIOUS
<1>b. PICK b : b = Len(BodyLines[m])
  OBVIOUS
<1>1. /\ BodyLines[m] \in Seq(LineKinds) /\ b \in Nat /\ n \in Nat
      /\ DOMAIN BodyLines[m] = 1..b
      /\ \A i \in 1..b : BodyLines[m][i] \in LineKinds
  BY <1>n, <1>b, BodyAssumption DEF TypeOK
<1>2. /\ body \in Seq(Lines) /\ Len(body) = b
      /\ \A i \in 1..b : body[i] = [kind |-> BodyLines[m][i], msg |-> m]
  <2>1. body = [i \in 1..b |-> [kind |-> BodyLines[m][i], msg |-> m]]
    BY <1>1, <1>body
  <2>2. \A i \in 1..b : [kind |-> BodyLines[m][i], msg |-> m] \in Lines
    BY <1>1 DEF Lines
  <2>3. body \in [1..b -> Lines]
    BY <2>1, <2>2
  <2> QED
    BY <1>1, <2>1, <2>3
<1>head. PICK head : head = <<[kind |-> "CMT", msg |-> m]>>
  OBVIOUS
<1>3. head \in Seq(Lines) /\ rx \in Seq(Lines) /\ Len(head) = 1
      /\ head[1] = [kind |-> "CMT", msg |-> m]
  BY <1>head DEF Lines, LineKinds, TypeOK
<1>r. PICK r : r = rx \o head
  OBVIOUS
<1>4. /\ r \in Seq(Lines) /\ Len(r) = n + 1 /\ \A p \in 1..n : r[p] = rx[p]
      /\ r[n + 1] = [kind |-> "CMT", msg |-> m]
  <2>1. r \in Seq(Lines)
    BY <1>3, <1>r
  <2>2. /\ Len(rx \o head) = Len(rx) + Len(head)
        /\ \A p \in 1..Len(rx) : (rx \o head)[p] = rx[p]
        /\ \A p \in 1..Len(head) : (rx \o head)[Len(rx) + p] = head[p]
    <3>1. rx \in Seq(Lines) /\ head \in Seq(Lines)
      BY <1>3
    <3> QED
      BY <3>1, ConcatIndex
  <2>3. 1 \in 1..Len(head)
    BY <1>3
  <2>4. (rx \o head)[n + 1] = head[1]
    BY <1>n, <2>2, <2>3
  <2> QED
    BY <1>n, <1>3, <1>r, <2>1, <2>2, <2>4
<1>5. rx' = r \o body /\ rx' = rx \o (head \o body) /\ head \o body \in Seq(Lines)
  <2>1. rx' = r \o body
    BY <1>body, <1>head, <1>r DEF MessageArrives
  <2> QED
    BY <1>2, <1>3, <1>r, <2>1
<1>6. /\ Len(r \o body) = n + 1 + b
      /\ \A p \in 1..(n + 1) : (r \o body)[p] = r[p]
      /\ \A p \in 1..b : (r \o body)[n + 1 + p] = body[p]
  <2>1. /\ Len(r \o body) = Len(r) + Len(body)
        /\ \A p \in 1..Len(r) : (r \o body)[p] = r[p]
        /\ \A p \in 1..Len(body) : (r \o body)[Len(r) + p] = body[p]
    <3>1. r \in Seq(Lines) /\ body \in Seq(Lines)
      BY <1>2, <1>4
    <3> QED
      BY <3>1, ConcatIndex
  <2> QED
    BY <1>2, <1>4, <2>1
<1>7. 1..n \subseteq 1..(n + 1) /\ n + 1 \in 1..(n + 1)
  BY <1>1
<1>8. arrived' = Append(arrived, m) /\ UNCHANGED <<delivered, prev_was_cmt>>
  BY DEF MessageArrives, readerVars
<1> QED
  BY <1>1, <1>2, <1>4, <1>5, <1>6, <1>7, <1>8, <1>n, <1>b

(* A plain message that arrives behind plain ones is owed last.            *)
LEMMA FollowsArrival ==
  ASSUME TypeOK, NEW m \in Inbound, MessageArrives(m), Plain(m),
         NEW n, n = Len(arrived), Follows(n, Len(rx)), NEW end2, end2 = Len(rx')
  PROVE  Follows(n + 1, end2)'
<1>e. PICK e : e = Len(rx)
  OBVIOUS
<1>b. PICK b : b = Len(BodyLines[m])
  OBVIOUS
<1>1. /\ arrived' = Append(arrived, m) /\ UNCHANGED <<delivered, prev_was_cmt>>
      /\ b \in Nat /\ end2 = e + 1 + b /\ e \in Nat
      /\ \A p \in 1..e : rx'[p] = rx[p]
      /\ rx'[e + 1] = [kind |-> "CMT", msg |-> m]
      /\ \A p \in 1..b : rx'[e + 1 + p] = [kind |-> BodyLines[m][p], msg |-> m]
  BY <1>e, <1>b, ArrivesIndex, ToldType
<1>2. b > 0 /\ \A i \in 2..b : BodyLines[m][i] # "CMT"
  <2>1. BodyLines[m] \in Seq(LineKinds) /\ BodyLines[m] # <<>>
    BY BodyAssumption DEF Plain
  <2> QED
    BY <1>b, <2>1 DEF Plain
<1>3. /\ Len(arrived') = n + 1 /\ n \in Nat /\ arrived'[n + 1] = m
      /\ \A i \in 1..n : arrived'[i] = arrived[i]
  BY <1>1, AppendIndex DEF TypeOK
<1>4. Told' = Told /\ Told \in Nat /\ Told <= n
  BY <1>1, ToldType DEF Told, Follows
<1>5. Owed(n + 1)' = Owed(n) \cup {n + 1} /\ Owed(n) \subseteq 1..n
  BY <1>3, <1>4 DEF Owed
<1>6. HeaderRead(end2)'
  <2>1. HeaderRead(e)
    BY <1>e DEF Follows
  <2>2. prev_was_cmt # NoMsg => Told \in 1..n
    <3>1. prev_was_cmt # NoMsg => Told = Len(delivered) + 1 /\ Len(delivered) \in Nat
      BY ToldType
    <3>2. n \in Nat
      BY <1>3
    <3> QED
      BY <1>4, <3>1, <3>2
  <2> QED
    BY <1>1, <1>3, <1>4, <2>1, <2>2 DEF HeaderRead, FirstLine
<1>7. PICK h \in [Owed(n) -> 1..e] : Headers(h, n, e)
  BY <1>e DEF Follows
<1>g. PICK g : g = [i \in Owed(n + 1)' |-> IF i = n + 1 THEN e + 1 ELSE h[i]]
  OBVIOUS
<1>8. /\ g[n + 1] = e + 1
      /\ \A i \in Owed(n) : g[i] = h[i] /\ h[i] \in 1..e /\ h[i] < e
  BY <1>3, <1>5, <1>7, <1>g DEF Headers
<1>9. g \in [Owed(n + 1)' -> 1..end2]
  <2>1. \A i \in Owed(n + 1)' : g[i] \in 1..end2
    BY <1>1, <1>5, <1>8
  <2> QED
    BY <1>g, <2>1
<1>10. ASSUME NEW i \in Owed(n + 1)', NEW j \in Owed(n + 1)', i < j PROVE g[i] + 1 < g[j]
  <2>1. i \in Owed(n)
    BY <1>3, <1>5, <1>10
  <2>2. CASE j \in Owed(n)
    BY <1>7, <1>8, <1>10, <2>1, <2>2 DEF Headers
  <2>3. CASE j = n + 1
    BY <1>1, <1>8, <2>1, <2>3
  <2> QED
    BY <1>5, <2>2, <2>3
<1>11. ASSUME NEW i \in Owed(n + 1)' PROVE g[i] < end2 /\ HeaderAt(g[i], arrived[i])'
  <2>1. CASE i \in Owed(n)
    <3>1. HeaderAt(h[i], arrived[i]) /\ arrived'[i] = arrived[i]
      BY <1>3, <1>5, <1>7, <2>1 DEF Headers
    <3>2. h[i] \in 1..e /\ h[i] + 1 \in 1..e
      BY <1>1, <1>8, <2>1
    <3> QED
      BY <1>1, <1>8, <2>1, <3>1, <3>2 DEF HeaderAt, FirstLine
  <2>2. CASE i = n + 1
    <3>0. 1 \in 1..b
      BY <1>1, <1>2
    <3>1. rx'[e + 1 + 1] = [kind |-> BodyLines[m][1], msg |-> m]
      BY <1>1, <3>0
    <3> QED
      BY <1>1, <1>2, <1>3, <1>8, <2>2, <3>1 DEF HeaderAt, FirstLine
  <2> QED
    BY <1>5, <2>1, <2>2
<1>12. prev_was_cmt # NoMsg => \A i \in Owed(n + 1)' : g[i] > 1
  <2>1. prev_was_cmt # NoMsg => e > 0
    BY <1>e DEF Follows, HeaderRead
  <2> QED
    BY <1>1, <1>5, <1>7, <1>8, <2>1 DEF Headers
<1>13. ASSUME NEW p \in 1..end2, rx'[p].kind = "CMT"
       PROVE  \/ p = 1 /\ prev_was_cmt # NoMsg
              \/ \E i \in Owed(n + 1)' : g[i] = p \/ g[i] + 1 = p
  <2>1. CASE p \in 1..e
    <3>1. \/ p = 1 /\ prev_was_cmt # NoMsg
          \/ \E i \in Owed(n) : h[i] = p \/ h[i] + 1 = p
      BY <1>1, <1>7, <1>13, <2>1 DEF Headers
    <3> QED
      BY <1>5, <1>8, <3>1
  <2>2. CASE p = e + 1 \/ p = e + 2
    <3>1. n + 1 \in Owed(n + 1)' /\ (g[n + 1] = p \/ g[n + 1] + 1 = p)
      BY <1>1, <1>5, <1>8, <2>2
    <3> QED
      BY <3>1
  <2>3. CASE p > e + 2
    <3>q. PICK q : q = p - (e + 1)
      OBVIOUS
    <3>1. q \in 2..b /\ q \in 1..b /\ e + 1 + q = p
      BY <1>1, <2>3, <3>q
    <3>2. rx'[p] = [kind |-> BodyLines[m][q], msg |-> m]
      BY <1>1, <3>1
    <3> QED
      BY <1>2, <1>13, <3>1, <3>2
  <2> QED
    BY <1>1, <2>1, <2>2, <2>3
<1>14. Headers(g, n + 1, end2)'
  BY <1>1, <1>10, <1>11, <1>12, <1>13 DEF Headers
<1> QED
  BY <1>3, <1>4, <1>6, <1>9, <1>14 DEF Follows

(* A message that arrives.                                                 *)
LEMMA InboundArrives ==
  ASSUME TypeOK, InboundInv, NEW m \in Inbound, MessageArrives(m)
  PROVE  InboundInv'
<1>1. PICK n \in 0..Len(arrived) :
        /\ Faithful(n)
        /\ \/ \E end \in 0..Len(rx) : Follows(n, end)
           \/ n < Len(arrived) /\ n <= Len(delivered)
  BY DEF InboundInv
<1>2. PICK s \in Seq(Lines) : rx' = rx \o s
  BY ArrivesIndex
<1>b. PICK b : b = Len(BodyLines[m])
  OBVIOUS
<1>3. /\ arrived' = Append(arrived, m) /\ UNCHANGED <<delivered, prev_was_cmt>>
      /\ b \in Nat /\ Len(rx') = Len(rx) + 1 + b
  BY <1>b, ArrivesIndex
<1>k. PICK k : k = Len(arrived)
  OBVIOUS
<1>7. /\ Len(arrived') = k + 1 /\ k \in Nat /\ arrived'[k + 1] = m
      /\ \A i \in 1..k : arrived'[i] = arrived[i]
  BY <1>3, <1>k, AppendIndex DEF TypeOK
<1>8. Len(rx) \in Nat /\ Len(delivered) \in Nat /\ n \in Nat /\ n <= k
  <2>1. Len(arrived) \in Nat /\ Len(rx) \in Nat /\ Len(delivered) \in Nat
    BY ToldType
  <2> QED
    BY <1>k, <2>1
<1>4. CASE n < k
  <2>1. Faithful(n)'
    <3>1. \A i \in 1..n : arrived'[i] = arrived[i] /\ delivered'[i] = delivered[i]
      BY <1>3, <1>7, <1>8
    <3>2. arrived'[n + 1] = arrived[n + 1]
      BY <1>4, <1>7, <1>8
    <3>3. n < Len(arrived)
      BY <1>4, <1>k
    <3> QED
      BY <1>1, <1>3, <3>1, <3>2, <3>3 DEF Faithful, FirstLine
  <2>2. n \in 0..Len(arrived') /\ n < Len(arrived') /\ n # Len(arrived')
    BY <1>4, <1>7, <1>8
  <2>3. ASSUME NEW end \in 0..Len(rx), Follows(n, end)
        PROVE  end \in 0..Len(rx') /\ Follows(n, end)'
    <3>1. end \in end..Len(rx') /\ end \in 0..Len(rx')
      BY <1>3, <1>8
    <3>2. Follows(n, end)'
      BY <1>2, <1>3, <1>7, <1>k, <2>2, <2>3, <3>1, FollowsJoined
    <3> QED
      BY <3>1, <3>2
  <2>4. CASE \E end \in 0..Len(rx) : Follows(n, end)
    BY <2>1, <2>2, <2>3, <2>4 DEF InboundInv
  <2>5. CASE n <= Len(delivered)
    BY <1>3, <2>1, <2>2, <2>5 DEF InboundInv
  <2> QED
    BY <1>1, <2>4, <2>5
<1>5. CASE n = k /\ ~Plain(m)
  <2>1. PICK end \in 0..Len(rx) : Follows(n, end)
    BY <1>1, <1>5, <1>8, <1>k
  <2>2. Faithful(n)'
    <3>1. \A i \in 1..n : arrived'[i] = arrived[i]
      BY <1>5, <1>7
    <3>2. ~Plain(arrived'[n + 1])
      BY <1>5, <1>7
    <3> QED
      BY <1>1, <1>3, <3>1, <3>2 DEF Faithful, FirstLine
  <2>3. n \in 0..Len(arrived') /\ n # Len(arrived')
    BY <1>5, <1>7, <1>8
  <2>4. end \in end..Len(rx') /\ end \in 0..Len(rx')
    BY <1>3, <1>8
  <2>5. Follows(n, end)'
    BY <1>2, <1>3, <1>7, <1>k, <2>1, <2>3, <2>4, FollowsJoined
  <2> QED
    BY <2>2, <2>3, <2>4, <2>5 DEF InboundInv
<1>6. CASE n = k /\ Plain(m)
  <2>1. Follows(n, Len(rx)) /\ Told <= n
    BY <1>1, <1>6, <1>8, <1>k DEF Follows
  <2>2. PICK end2 : end2 = Len(rx')
    OBVIOUS
  <2>3. Follows(n + 1, end2)'
    BY <1>6, <1>k, <2>1, <2>2, FollowsArrival
  <2>4. Len(delivered) <= n
    <3>1. Told \in Nat /\ Len(delivered) <= Told
      BY ToldType
    <3> QED
      BY <1>8, <2>1, <3>1
  <2>5. Faithful(n + 1)'
    <3>1. \A i \in 1..(n + 1) : i <= n \/ i = n + 1
      BY <1>8
    <3>2. \A i \in 1..n : arrived'[i] = arrived[i]
      BY <1>6, <1>7
    <3>3. arrived'[n + 1] = m
      BY <1>6, <1>7
    <3>4. ~(n + 1 < Len(arrived')) /\ ~(n + 1 <= Len(delivered))
      BY <1>6, <1>7, <1>8, <2>4
    <3>5. \A i \in 1..(n + 1) : Plain(arrived'[i])
      BY <1>1, <1>6, <1>8, <3>1, <3>2, <3>3 DEF Faithful
    <3>6. ASSUME NEW i \in 1..(n + 1), i <= Len(delivered)
          PROVE  delivered[i] = [from |-> arrived'[i], body |-> FirstLine(arrived'[i])]
      <4>1. i \in 1..n /\ arrived'[i] = arrived[i]
        BY <1>8, <3>1, <3>2, <3>4, <3>6
      <4> QED
        BY <1>1, <3>6, <4>1 DEF Faithful
    <3> QED
      BY <1>3, <3>4, <3>5, <3>6 DEF Faithful, FirstLine, Plain
  <2>6. n + 1 \in 0..Len(arrived') /\ end2 \in 0..Len(rx')
    BY <1>3, <1>6, <1>7, <1>8, <2>2
  <2> QED
    BY <2>3, <2>5, <2>6 DEF InboundInv
<1> QED
  BY <1>4, <1>5, <1>6, <1>7, <1>8

(* Where the lines are after the first was read.                           *)
LEMMA TailIndex ==
  ASSUME TypeOK, rx # <<>>, rx' = Tail(rx)
  PROVE  /\ Len(rx) \in Nat \ {0} /\ Len(rx') = Len(rx) - 1
         /\ DOMAIN rx = 1..Len(rx) /\ DOMAIN rx' = 1..(Len(rx) - 1)
         /\ \A p \in DOMAIN rx' : rx'[p] = rx[p + 1]
         /\ Head(rx) = rx[1]
  BY DEF TypeOK

(* The headers that remain after a line was read.                          *)
LEMMA HeadersTail ==
  ASSUME TypeOK, rx # <<>>, rx' = Tail(rx), arrived' = arrived,
         NEW n \in 0..Len(arrived), NEW end \in 1..Len(rx),
         NEW h \in [Owed(n) -> 1..end], Headers(h, n, end),
         Owed(n)' \subseteq Owed(n), Owed(n) \subseteq Nat,
         \A i \in Owed(n)' : h[i] > 1 /\ (prev_was_cmt' # NoMsg => h[i] > 2),
         \A p \in 2..end : rx[p].kind = "CMT" =>
           \/ p = 2 /\ prev_was_cmt' # NoMsg
           \/ \E i \in Owed(n)' : h[i] = p \/ h[i] + 1 = p
  PROVE  \E g \in [Owed(n)' -> 1..(end - 1)] : Headers(g, n, end - 1)'
<1>1. /\ Len(rx) \in Nat \ {0} /\ end \in Nat /\ end <= Len(rx)
      /\ \A p \in 1..(Len(rx) - 1) : rx'[p] = rx[p + 1]
  BY TailIndex
<1>g. PICK g : g = [i \in Owed(n)' |-> h[i] - 1]
  OBVIOUS
<1>2. \A i \in Owed(n)' : g[i] = h[i] - 1 /\ h[i] \in 2..end /\ h[i] < end /\ i \in Owed(n)
  BY <1>1, <1>g DEF Headers
<1>3. g \in [Owed(n)' -> 1..(end - 1)]
  <2>1. \A i \in Owed(n)' : g[i] \in 1..(end - 1)
    BY <1>1, <1>2
  <2> QED
    BY <1>g, <2>1
<1>4. ASSUME NEW i \in Owed(n)', NEW j \in Owed(n)', i < j PROVE g[i] + 1 < g[j]
  BY <1>1, <1>2, <1>4 DEF Headers
<1>5. ASSUME NEW i \in Owed(n)' PROVE g[i] < end - 1 /\ HeaderAt(g[i], arrived[i])'
  <2>1. HeaderAt(h[i], arrived[i])
    BY <1>2 DEF Headers
  <2>2. rx'[g[i]] = rx[h[i]] /\ rx'[g[i] + 1] = rx[h[i] + 1]
    BY <1>1, <1>2
  <2> QED
    BY <1>1, <1>2, <2>1, <2>2 DEF HeaderAt, FirstLine
<1>6. prev_was_cmt' # NoMsg => \A i \in Owed(n)' : g[i] > 1
  BY <1>1, <1>2
<1>7. ASSUME NEW p \in 1..(end - 1), rx'[p].kind = "CMT"
      PROVE  \/ p = 1 /\ prev_was_cmt' # NoMsg
             \/ \E i \in Owed(n)' : g[i] = p \/ g[i] + 1 = p
  <2>1. p + 1 \in 2..end /\ rx[p + 1].kind = "CMT"
    BY <1>1, <1>7
  <2>2. CASE p + 1 = 2 /\ prev_was_cmt' # NoMsg
    BY <1>1, <2>2
  <2>3. ASSUME NEW i \in Owed(n)', h[i] = p + 1 \/ h[i] + 1 = p + 1
        PROVE  g[i] = p \/ g[i] + 1 = p
    BY <1>1, <1>2, <2>3
  <2> QED
    BY <2>1, <2>2, <2>3
<1>8. Headers(g, n, end - 1)'
  BY <1>4, <1>5, <1>6, <1>7 DEF Headers
<1> QED
  BY <1>3, <1>8

(* What the reader makes of the next line: the body of the message whose   *)
(* header it has read, the header of another, or nothing.                  *)
TakesBody ==
  /\ prev_was_cmt # NoMsg /\ rx[1].kind # "PROMPT"
  /\ delivered' = Append(delivered, [from |-> prev_was_cmt, body |-> rx[1]])
  /\ prev_was_cmt' = NoMsg

TakesHeader ==
  /\ prev_was_cmt = NoMsg /\ rx[1].kind = "CMT"
  /\ delivered' = delivered /\ prev_was_cmt' = rx[1].msg

TakesNothing ==
  /\ rx[1].kind = "PROMPT" \/ (prev_was_cmt = NoMsg /\ rx[1].kind # "CMT")
  /\ delivered' = delivered /\ prev_was_cmt' = prev_was_cmt

LEMMA ReadKinds ==
  ASSUME TypeOK, ReadPrompt \/ ReadLine
  PROVE  /\ rx # <<>> /\ rx' = Tail(rx) /\ arrived' = arrived
         /\ TakesBody \/ TakesHeader \/ TakesNothing
<1>1. rx # <<>> /\ rx' = Tail(rx) /\ arrived' = arrived
  BY DEF ReadPrompt, ReadLine, modemVars
<1>2. Head(rx) = rx[1]
  BY <1>1, TailIndex
<1>3. CASE ReadPrompt
  BY <1>1, <1>2, <1>3 DEF ReadPrompt, TakesNothing
<1>4. CASE ReadLine
  <2>1. rx[1].kind # "PROMPT"
    BY <1>2, <1>4 DEF ReadLine
  <2>2. CASE prev_was_cmt # NoMsg
    BY <1>1, <1>2, <1>4, <2>1, <2>2 DEF ReadLine, TakesBody
  <2>3. CASE prev_was_cmt = NoMsg
    BY <1>1, <1>2, <1>4, <2>1, <2>3 DEF ReadLine, TakesHeader, TakesNothing
  <2> QED
    BY <2>2, <2>3
<1> QED
  BY <1>3, <1>4

(* A line of the messages the reader follows.                              *)
LEMMA FollowsRead ==
  ASSUME TypeOK, ReadPrompt \/ ReadLine,
         NEW n \in 0..Len(arrived), Faithful(n), NEW end \in 1..Len(rx), Follows(n, end)
  PROVE  Follows(n, end - 1)' /\ Faithful(n)'
<1>1. /\ rx # <<>> /\ rx' = Tail(rx) /\ arrived' = arrived
      /\ TakesBody \/ TakesHeader \/ TakesNothing
  BY ReadKinds
<1>2. /\ Len(rx) \in Nat \ {0} /\ Len(rx') = Len(rx) - 1
      /\ \A p \in 1..(Len(rx) - 1) : rx'[p] = rx[p + 1]
      /\ end \in Nat /\ end <= Len(rx)
  BY <1>1, TailIndex
<1>3. /\ Told \in Nat /\ Len(delivered) \in Nat /\ Len(arrived) \in Nat /\ Told <= n
      /\ prev_was_cmt = NoMsg => Told = Len(delivered)
      /\ prev_was_cmt # NoMsg => Told = Len(delivered) + 1 /\ Told \in 1..n
      /\ \A i \in 1..Len(arrived) : arrived[i] \in Inbound
      /\ n \in Nat /\ n <= Len(arrived)
  BY ToldType DEF Follows, TypeOK
<1>4. n = Len(arrived') => end - 1 = Len(rx')
  BY <1>1, <1>2 DEF Follows
<1>5. PICK h \in [Owed(n) -> 1..end] : Headers(h, n, end)
  BY DEF Follows
<1>6. /\ Owed(n) \subseteq Nat /\ Owed(n) \subseteq 1..n
      /\ \A i \in Owed(n) : h[i] \in 1..end /\ h[i] \in Nat
  BY <1>2, <1>3, <1>5 DEF Owed
<1>7. HeaderRead(end)
  BY DEF Follows
<1>8. CASE TakesBody
  <2>1. /\ Len(delivered') = Len(delivered) + 1
        /\ delivered'[Len(delivered) + 1] = [from |-> prev_was_cmt, body |-> rx[1]]
        /\ \A i \in 1..Len(delivered) : delivered'[i] = delivered[i]
    BY <1>8, AppendIndex DEF TypeOK, TakesBody
  <2>2. Told' = Told /\ Owed(n)' = Owed(n)
    BY <1>3, <1>8, <2>1 DEF TakesBody, Told, Owed
  <2>3. Faithful(n)'
    <3>1. arrived[Told] = prev_was_cmt /\ rx[1] = FirstLine(prev_was_cmt)
      BY <1>7, <1>8 DEF HeaderRead, TakesBody
    <3>2. \A i \in 1..n : i <= Len(delivered') => i = Told \/ i <= Len(delivered)
      BY <1>3, <1>8, <2>1 DEF TakesBody
    <3>3. delivered'[Told] = [from |-> arrived[Told], body |-> FirstLine(arrived[Told])]
      BY <1>3, <1>8, <2>1, <3>1 DEF TakesBody
    <3> QED
      <4>1. ASSUME NEW i \in 1..n, i <= Len(delivered')
            PROVE  delivered'[i] = [from |-> arrived[i], body |-> FirstLine(arrived[i])]
        <5>1. CASE i = Told
          BY <3>3, <5>1
        <5>2. CASE i <= Len(delivered)
          <6>1. i \in 1..Len(delivered)
            BY <1>3, <5>2
          <6> QED
            BY <2>1, <5>2, <6>1 DEF Faithful
        <5> QED
          BY <3>2, <4>1, <5>1, <5>2
      <4> QED
        BY <1>1, <4>1 DEF Faithful, FirstLine
  <2>4. \E g \in [Owed(n)' -> 1..(end - 1)] : Headers(g, n, end - 1)'
    <3>1. \A i \in Owed(n)' : h[i] > 1 /\ (prev_was_cmt' # NoMsg => h[i] > 2)
      BY <1>5, <1>8, <2>2 DEF Headers, TakesBody
    <3>2. \A p \in 2..end : rx[p].kind = "CMT" =>
            \/ p = 2 /\ prev_was_cmt' # NoMsg
            \/ \E i \in Owed(n)' : h[i] = p \/ h[i] + 1 = p
      BY <1>2, <1>5, <2>2 DEF Headers
    <3> QED
      BY <1>1, <1>5, <1>6, <2>2, <3>1, <3>2, HeadersTail
  <2> QED
    BY <1>3, <1>4, <1>8, <2>2, <2>3, <2>4 DEF Follows, HeaderRead, TakesBody
<1>9. CASE TakesNothing
  <2>1. prev_was_cmt = NoMsg /\ rx[1].kind # "CMT"
    <3>1. CASE prev_was_cmt # NoMsg
      <4>1. Plain(prev_was_cmt) /\ rx[1] = FirstLine(prev_was_cmt)
        BY <1>3, <1>7, <3>1 DEF HeaderRead, Faithful
      <4> QED
        BY <1>9, <3>1, <4>1 DEF TakesNothing, FirstLine, Plain
    <3> QED
      BY <1>9, <3>1 DEF TakesNothing
  <2>2. Told' = Told /\ Owed(n)' = Owed(n)
    BY <1>9 DEF TakesNothing, Told, Owed
  <2>3. Faithful(n)'
    BY <1>1, <1>9 DEF TakesNothing, Faithful, FirstLine
  <2>4. \E g \in [Owed(n)' -> 1..(end - 1)] : Headers(g, n, end - 1)'
    <3>1. \A i \in Owed(n) : h[i] # 1
      <4>1. \A i \in Owed(n) : HeaderAt(h[i], arrived[i])
        BY <1>5 DEF Headers
      <4>2. ASSUME NEW i \in Owed(n), h[i] = 1 PROVE FALSE
        <5>1. rx[1] = [kind |-> "CMT", msg |-> arrived[i]]
          BY <4>1, <4>2 DEF HeaderAt
        <5> QED
          BY <2>1, <5>1
      <4> QED
        BY <4>2
    <3>2. \A i \in Owed(n)' : h[i] > 1 /\ (prev_was_cmt' # NoMsg => h[i] > 2)
      BY <1>6, <1>9, <2>1, <2>2, <3>1 DEF TakesNothing
    <3>3. \A p \in 2..end : rx[p].kind = "CMT" =>
            \/ p = 2 /\ prev_was_cmt' # NoMsg
            \/ \E i \in Owed(n)' : h[i] = p \/ h[i] + 1 = p
      BY <1>2, <1>5, <2>1, <2>2 DEF Headers
    <3> QED
      BY <1>1, <1>5, <1>6, <2>2, <3>2, <3>3, HeadersTail
  <2> QED
    BY <1>3, <1>4, <1>9, <2>1, <2>2, <2>3, <2>4 DEF Follows, HeaderRead, TakesNothing
<1>10. CASE TakesHeader
  <2>1. PICK k \in Owed(n) : h[k] = 1
    <3>1. 1 \in 1..end /\ rx[1].kind = "CMT" /\ prev_was_cmt = NoMsg
      BY <1>2, <1>10 DEF TakesHeader
    <3>2. PICK k \in Owed(n) : h[k] = 1 \/ h[k] + 1 = 1
      BY <1>5, <3>1 DEF Headers
    <3> QED
      BY <1>6, <3>2
  <2>2. k = Told + 1 /\ k \in 1..n
    <3>1. k \in (Told + 1)..n
      BY DEF Owed
    <3>2. ASSUME k # Told + 1 PROVE FALSE
      <4>1. Told + 1 \in Owed(n) /\ Told + 1 < k
        BY <1>3, <3>1, <3>2 DEF Owed
      <4> QED
        BY <1>5, <1>6, <2>1, <4>1 DEF Headers
    <3> QED
      BY <1>3, <3>1, <3>2
  <2>3. /\ h[k] < end /\ rx[1] = [kind |-> "CMT", msg |-> arrived[k]]
        /\ rx[2] = FirstLine(arrived[k])
    BY <1>5, <2>1 DEF Headers, HeaderAt
  <2>4. prev_was_cmt' = arrived[k] /\ prev_was_cmt' # NoMsg
    BY <1>3, <1>10, <2>2, <2>3, NoMsgAssumption DEF TakesHeader
  <2>5. Told' = Told + 1 /\ Owed(n)' = Owed(n) \ {k}
    <3>1. Told' = Told + 1
      BY <1>3, <1>10, <2>4 DEF TakesHeader, Told
    <3> QED
      BY <1>3, <2>2, <3>1 DEF Owed
  <2>6. HeaderRead(end - 1)'
    <3>1. end - 1 > 0 /\ rx'[1] = rx[2]
      BY <1>2, <2>1, <2>3
    <3> QED
      BY <1>1, <2>2, <2>3, <2>4, <2>5, <3>1 DEF HeaderRead, FirstLine
  <2>7. Faithful(n)'
    BY <1>1, <1>10 DEF TakesHeader, Faithful, FirstLine
  <2>8. \E g \in [Owed(n)' -> 1..(end - 1)] : Headers(g, n, end - 1)'
    <3>1. ASSUME NEW i \in Owed(n)' PROVE h[i] > 2
      <4>1. i \in Owed(n) /\ k < i
        BY <1>3, <2>2, <2>5 DEF Owed
      <4> QED
        BY <1>5, <1>6, <2>1, <4>1 DEF Headers
    <3>2. \A i \in Owed(n)' : h[i] > 1 /\ (prev_was_cmt' # NoMsg => h[i] > 2)
      BY <1>6, <2>5, <3>1
    <3>3. ASSUME NEW p \in 2..end, rx[p].kind = "CMT"
          PROVE  \/ p = 2 /\ prev_was_cmt' # NoMsg
                 \/ \E i \in Owed(n)' : h[i] = p \/ h[i] + 1 = p
      <4>1. PICK i \in Owed(n) : h[i] = p \/ h[i] + 1 = p
        BY <1>2, <1>5, <1>10, <3>3 DEF Headers, TakesHeader
      <4>2. CASE i = k
        BY <2>1, <2>4, <3>3, <4>1, <4>2
      <4> QED
        BY <2>5, <4>1, <4>2
    <3>4. Owed(n)' \subseteq Owed(n)
      BY <2>5
    <3> QED
      BY <1>1, <1>5, <1>6, <3>2, <3>3, <3>4, HeadersTail
  <2>9. Told' <= n
    BY <1>3, <2>2, <2>5
  <2> QED
    BY <1>4, <2>6, <2>7, <2>8, <2>9 DEF Follows
<1> QED
  BY <1>1, <1>8, <1>9, <1>10

(* The reader reads a line: one of the messages it follows, or the first   *)
(* behind them, when it has handed over all of them.                       *)
LEMMA InboundReads ==
  ASSUME TypeOK, InboundInv, ReadPrompt \/ ReadLine
  PROVE  InboundInv'
<1>1. PICK n \in 0..Len(arrived) :
        /\ Faithful(n)
        /\ \/ \E end \in 0..Len(rx) : Follows(n, end)
           \/ n < Len(arrived) /\ n <= Len(delivered)
  BY DEF InboundInv
<1>2. /\ rx # <<>> /\ rx' = Tail(rx) /\ arrived' = arrived
      /\ TakesBody \/ TakesHeader \/ TakesNothing
  BY ReadKinds
<1>3. /\ Len(rx) \in Nat \ {0} /\ Len(rx') = Len(rx) - 1
      /\ Told \in Nat /\ Len(delivered) \in Nat /\ Len(arrived) \in Nat
      /\ prev_was_cmt = NoMsg => Told = Len(delivered)
  BY <1>2, TailIndex, ToldType
<1>4. CASE n < Len(arrived) /\ n <= Len(delivered)
  <2>1. /\ Len(delivered') \in Nat /\ Len(delivered') >= Len(delivered)
        /\ \A i \in 1..Len(delivered) : delivered'[i] = delivered[i]
    <3>1. CASE TakesBody
      BY <1>3, <3>1, AppendIndex DEF TakesBody, TypeOK
    <3>2. CASE TakesHeader \/ TakesNothing
      BY <1>3, <3>2 DEF TakesHeader, TakesNothing
    <3> QED
      BY <1>2, <3>1, <3>2
  <2>2. Faithful(n)'
    BY <1>1, <1>2, <1>3, <1>4, <2>1 DEF Faithful, FirstLine
  <2> QED
    BY <1>2, <1>3, <1>4, <2>1, <2>2 DEF InboundInv
<1>5. ASSUME NEW end \in 0..Len(rx), Follows(n, end) PROVE InboundInv'
  <2>1. CASE end = 0
    <3>1. n # Len(arrived) /\ prev_was_cmt = NoMsg
      BY <1>3, <1>5, <2>1 DEF Follows, HeaderRead
    <3>2. Owed(n) = {}
      <4>1. PICK h \in [Owed(n) -> 1..0] : TRUE
        BY <1>5, <2>1 DEF Follows
      <4> QED
        BY <4>1
    <3>3. n <= Len(delivered)
      BY <1>3, <3>1, <3>2 DEF Owed
    <3> QED
      BY <1>3, <1>4, <3>1, <3>3
  <2>2. CASE end # 0
    <3>1. Follows(n, end - 1)' /\ Faithful(n)'
      BY <1>1, <1>3, <1>5, <2>2, FollowsRead
    <3>2. end - 1 \in 0..Len(rx')
      BY <1>3, <2>2
    <3> QED
      BY <1>2, <3>1, <3>2 DEF InboundInv
  <2> QED
    BY <2>1, <2>2
<1> QED
  BY <1>1, <1>4, <1>5

(* The kinds of line of which no answer of the modem is made.              *)
LEMMA AnswersPlain ==
  /\ \A i \in DOMAIN <<"INFO", "OK">> : <<"INFO", "OK">>[i] \notin {"CMT"}
  /\ \A i \in DOMAIN <<"ERROR">> : <<"ERROR">>[i] \notin {"CMT"}
  /\ \A i \in DOMAIN <<"PROMPT">> : <<"PROMPT">>[i] \notin {"CMT"}
  /\ \A i \in DOMAIN <<>> : <<>>[i] \notin {"CMT"}
  /\ \A kind \in {"CREG_ON", "CREG_OFF"} : \A i \in DOMAIN <<kind>> : <<kind>>[i] \notin {"CMT"}
  OBVIOUS

(* Every step keeps the headers in the order of arrival.                   *)
LEMMA InboundNext ==
  ASSUME TypeOK, InboundInv, [Next]_vars
  PROVE  InboundInv'
<1>1. ASSUME UNCHANGED inboundVars PROVE InboundInv'
  <2>1. rx' = rx /\ arrived' = arrived /\ delivered' = delivered /\ prev_was_cmt' = prev_was_cmt
    BY <1>1 DEF inboundVars
  <2>2. Told' = Told /\ \A n : Owed(n)' = Owed(n)
    BY <2>1 DEF Told, Owed
  <2>3. \A n : Faithful(n)' <=> Faithful(n)
    BY <2>1 DEF Faithful, FirstLine
  <2>4. \A h, n, end : Headers(h, n, end)' <=> Headers(h, n, end)
    BY <2>1, <2>2 DEF Headers, HeaderAt, FirstLine
  <2>5. \A end : HeaderRead(end)' <=> HeaderRead(end)
    BY <2>1, <2>2 DEF HeaderRead, FirstLine
  <2>6. \A n, end : Follows(n, end)' <=> Follows(n, end)
    BY <2>1, <2>2, <2>4, <2>5 DEF Follows
  <2> QED
    BY <2>1, <2>3, <2>6 DEF InboundInv
<1>2. ASSUME NEW t \in Tasks, Sending(t) \/ Commanding(t) \/ SendCall(t) \/ CmdCall(t)
      PROVE  InboundInv'
  <2>1. UNCHANGED inboundVars
    BY <1>2 DEF Sending, Commanding, SendCall, CmdCall, SendBegin, CmdBegin, Begin,
                PromptWait, ResultWait, CmdWait, Wait, PromptMissing, SendClear, SendText, SendRelease,
                CmdRelease, GiveBack, SendVerdict, CmdVerdict, inboundVars, readerVars,
                modemVars
  <2> QED
    BY <1>1, <2>1
<1>3. ASSUME ReaderStore \/ ReaderGive PROVE InboundInv'
  BY <1>1, <1>3 DEF ReaderStore, ReaderGive, inboundVars, modemVars
<1>4. CASE Modem
  <2>1. UNCHANGED <<arrived, delivered, prev_was_cmt>>
    BY <1>4 DEF Modem, ModemReads, ModemCommand, ModemOpensText, ModemRefusesText,
                ModemIgnoresText, ModemTakesLine, ModemSubmits, readerVars
  <2>2. CASE rx' = rx
    BY <1>1, <2>1, <2>2 DEF inboundVars
  <2>3. CASE Say(<<"INFO", "OK">>)
    BY <2>1, <2>3, Answers, AnswersPlain, InboundSay
  <2>4. CASE Say(<<"ERROR">>)
    BY <2>1, <2>4, Answers, AnswersPlain, InboundSay
  <2>5. CASE Say(<<"PROMPT">>)
    BY <2>1, <2>5, Answers, AnswersPlain, InboundSay
  <2>6. CASE Say(<<>>)
    BY <2>1, <2>6, Answers, AnswersPlain, InboundSay
  <2> QED
    BY <1>4, <2>2, <2>3, <2>4, <2>5, <2>6
       DEF Modem, ModemCommand, ModemOpensText, ModemRefusesText, ModemIgnoresText,
           ModemTakesLine, ModemSubmits
<1>5. ASSUME NEW m \in Inbound, MessageArrives(m) PROVE InboundInv'
  BY <1>5, InboundArrives
<1>6. ASSUME NEW kind \in {"CREG_ON", "CREG_OFF"}, RegistrationChanges(kind) PROVE InboundInv'
  <2>1. Say(<<kind>>) /\ UNCHANGED <<arrived, delivered, prev_was_cmt>>
    BY <1>6 DEF RegistrationChanges, readerVars
  <2> QED
    BY <2>1, Answers, AnswersPlain, InboundSay
<1>7. CASE UNCHANGED vars
  BY <1>1, <1>7 DEF vars, readerVars, modemVars, inboundVars
<1> QED
  BY <1>2, <1>3, <1>4, <1>5, <1>6, <1>7, InboundReads
     DEF Next, Reader, Tasks

(* parse_cmt is called once for every message that arrives, in the order   *)
(* of arrival, with the line that follows the message's own header,        *)
(* whatever the tasks ask of the modem meanwhile and wherever an answer of *)
(* the modem falls among the lines: up to the first message whose first    *)
(* line is missing or begins with ">", or whose body has another line that *)
(* begins with +CMT:.                                                      *)
THEOREM InboundInOrder == Spec => []InboundFaithful
<1>1. Init => InboundInv
  <2> SUFFICES ASSUME Init PROVE InboundInv
    OBVIOUS
  <2>1. rx = <<>> /\ arrived = <<>> /\ delivered = <<>> /\ prev_was_cmt = NoMsg
    BY DEF Init
  <2>2. Told = 0 /\ Owed(0) = {} /\ Len(rx) = 0 /\ Len(arrived) = 0
    BY <2>1 DEF Told, Owed
  <2>3. PICK h : h = [i \in {} |-> i]
    OBVIOUS
  <2>4. h \in [Owed(0) -> 1..0] /\ Headers(h, 0, 0)
    BY <2>2, <2>3 DEF Headers
  <2>5. Follows(0, 0) /\ Faithful(0)
    BY <2>1, <2>2, <2>4 DEF Follows, HeaderRead, Faithful
  <2> QED
    BY <2>2, <2>5 DEF InboundInv
<1>2. TypeOK /\ InboundInv /\ [Next]_vars => InboundInv'
  BY InboundNext
<1> QED
  BY <1>1, <1>2, InvFaithful, TypeCorrect, PTL DEF Spec

-----------------------------------------------------------------------------
(* A modem that answers before the timeouts.  The assumption of the two    *)
(* theorems below: no answer is on its way any more when a timeout         *)
(* expires, and no line of a body ends a response.                         *)
FastModemPlainBodies ==
  /\ SlowModem = FALSE
  /\ \A m \in Inbound : \A i \in DOMAIN BodyLines[m] : BodyLines[m][i] \notin Terminators

(* Where an answer can be: the modem has not read what it will answer, or  *)
(* a line that ends a response is in the UART, or with the reader, or the  *)
(* semaphore has been given.                                               *)
AllRead == modem.taken = Len(wire)
Unread  == modem.taken + 1 = Len(wire)
NoTerm  == \A p \in DOMAIN rx : rx[p].kind \notin Terminators
OneTerm == \E p \in DOMAIN rx :
             /\ rx[p].kind \in Terminators
             /\ \A q \in DOMAIN rx : rx[q].kind \in Terminators => q = p
ReaderHas == reader.at = "give" \/ (reader.at = "store" /\ reader.line \in Terminators)

(* There is at most one answer under way, in one place.                    *)
OneAnswer ==
  /\ AllRead \/ Unread
  /\ NoTerm \/ OneTerm
  /\ Unread => NoTerm
  /\ Unread \/ ~NoTerm => ~ReaderHas
  /\ Unread \/ ~NoTerm \/ ReaderHas => at_response_sem = 0

(* An answer is only under way while the task it answers waits for it.     *)
Waiting == {"prompt_wait", "result_wait", "cmd_wait"}
Busy    == at_mutex # NoTask /\ pc[at_mutex] \in Waiting
Quiet   == AllRead /\ NoTerm /\ ~ReaderHas /\ at_response_sem = 0

(* What the modem has not read is what the task that waits has written.    *)
Written == [prompt_wait |-> "cmgs", result_wait |-> "text", cmd_wait |-> "cmd"]

ItemIsOwn ==
  Unread => Busy /\ NextItem = [kind |-> Written[pc[at_mutex]], call |-> cur[at_mutex]]

(* The answer under way is a prompt.                                       *)
PromptSent == \E p \in DOMAIN rx : rx[p].kind = "PROMPT"

PromptComes ==
  \/ PromptSent
  \/ reader.at = "store" /\ reader.line = "PROMPT"
  \/ (reader.at = "give" \/ at_response_sem = 1) /\ "PROMPT" \in Range(at_response)

(* The modem is in text mode only for the holder of the mutex, who is      *)
(* about to learn it, has learned it, or has written the text.             *)
TextModeIsOwn ==
  modem.mode = "text" =>
    /\ ~modem.typed
    /\ at_mutex # NoTask
    /\ modem.da = cur[at_mutex]
    /\ \/ pc[at_mutex] = "prompt_wait" /\ AllRead /\ PromptComes
       \/ pc[at_mutex] = "prompt_check" /\ AllRead /\ "PROMPT" \in Range(at_response)
       \/ pc[at_mutex] = "send_text" /\ AllRead
       \/ pc[at_mutex] = "result_wait" /\ Unread

(* Inductive strengthening of NoStaleToken and NoCrossedSms.               *)
AnswerInv ==
  /\ OneAnswer
  /\ Busy \/ Quiet
  /\ ItemIsOwn
  /\ TextModeIsOwn
  /\ NoCrossedSms

(* What is known of who holds the mutex.                                   *)
LEMMA HolderIs ==
  ASSUME TypeOK, SessionDiscipline
  PROVE  /\ at_mutex # NoTask => at_mutex \in Tasks /\ pc[at_mutex] \in Session
         /\ \A t \in Tasks : pc[t] \in Session => at_mutex = t /\ waiting_for_response
         /\ NoTask \notin Tasks
         /\ pc \in [Tasks -> {"idle"} \cup SendStates \cup CmdStates]
         /\ cur \in [Tasks -> 0..MaxCalls]
         /\ at_response_sem \in {0, 1}
         /\ wire \in Seq(Items) /\ Len(wire) \in Nat /\ modem.taken \in Nat
  BY TaskAssumption DEF TypeOK, SessionDiscipline

(* The lines left when the first has been read.                            *)
LEMMA TermTail ==
  ASSUME TypeOK, rx # <<>>, rx' = Tail(rx)
  PROVE  /\ Head(rx).kind \notin Terminators /\ NoTerm => NoTerm'
         /\ Head(rx).kind \notin Terminators /\ OneTerm => OneTerm'
         /\ Head(rx).kind \in Terminators => ~NoTerm
         /\ Head(rx).kind \in Terminators /\ OneTerm => NoTerm'
         /\ Head(rx).kind # "PROMPT" /\ PromptSent => PromptSent'
         /\ Head(rx).kind \in Terminators /\ OneTerm /\ PromptSent => Head(rx).kind = "PROMPT"
<1>1. /\ Len(rx) \in Nat \ {0} /\ Len(rx') = Len(rx) - 1
      /\ DOMAIN rx = 1..Len(rx) /\ DOMAIN rx' = 1..(Len(rx) - 1)
      /\ \A p \in DOMAIN rx' : rx'[p] = rx[p + 1]
      /\ Head(rx) = rx[1]
  BY TailIndex
<1>2. 1 \in DOMAIN rx /\ \A p \in DOMAIN rx' : p + 1 \in DOMAIN rx /\ p + 1 # 1
  BY <1>1
<1>3. \A p \in DOMAIN rx : p # 1 => p - 1 \in DOMAIN rx' /\ rx'[p - 1] = rx[p]
  BY <1>1
<1>4. ASSUME Head(rx).kind \notin Terminators, NoTerm PROVE NoTerm'
  BY <1>1, <1>2, <1>4 DEF NoTerm
<1>5. ASSUME Head(rx).kind \notin Terminators, OneTerm PROVE OneTerm'
  <2>1. PICK p \in DOMAIN rx : /\ rx[p].kind \in Terminators
                               /\ \A q \in DOMAIN rx : rx[q].kind \in Terminators => q = p
    BY <1>5 DEF OneTerm
  <2>2. p # 1
    BY <1>1, <1>5, <2>1
  <2>3. p - 1 \in DOMAIN rx' /\ rx'[p - 1].kind \in Terminators
    BY <1>3, <2>1, <2>2
  <2>4. ASSUME NEW q \in DOMAIN rx', rx'[q].kind \in Terminators PROVE q = p - 1
    <3>1. q + 1 = p
      BY <1>1, <1>2, <2>1, <2>4
    <3> QED
      BY <1>1, <3>1
  <2> QED
    BY <2>3, <2>4 DEF OneTerm
<1>6. Head(rx).kind \in Terminators => ~NoTerm
  BY <1>1, <1>2 DEF NoTerm
<1>7. ASSUME Head(rx).kind \in Terminators, OneTerm PROVE NoTerm'
  BY <1>1, <1>2, <1>7 DEF NoTerm, OneTerm
<1>8. ASSUME Head(rx).kind # "PROMPT", NEW p \in DOMAIN rx, rx[p].kind = "PROMPT"
      PROVE  \E q \in DOMAIN rx' : rx'[q].kind = "PROMPT"
  <2>1. p # 1
    BY <1>1, <1>8
  <2> QED
    BY <1>3, <1>8, <2>1
<1>9. ASSUME Head(rx).kind \in Terminators, OneTerm, NEW p \in DOMAIN rx, rx[p].kind = "PROMPT"
      PROVE  Head(rx).kind = "PROMPT"
  BY <1>1, <1>2, <1>9 DEF OneTerm, Terminators
<1> QED
  BY <1>4, <1>5, <1>6, <1>7, <1>8, <1>9 DEF PromptSent

(* The lines when others have joined that end no response.                 *)
LEMMA TermJoin ==
  ASSUME rx \in Seq(Lines), NEW s \in Seq(Lines), rx' = rx \o s,
         \A p \in DOMAIN s : s[p].kind \notin Terminators
  PROVE  /\ NoTerm' = NoTerm
         /\ OneTerm => OneTerm'
         /\ PromptSent => PromptSent'
<1>1. /\ Len(rx) \in Nat /\ Len(s) \in Nat
      /\ DOMAIN rx' = 1..(Len(rx) + Len(s)) /\ DOMAIN rx = 1..Len(rx) /\ DOMAIN s = 1..Len(s)
      /\ \A p \in 1..Len(rx) : rx'[p] = rx[p]
      /\ \A p \in 1..Len(s) : rx'[Len(rx) + p] = s[p]
  BY ConcatIndex
<1>2. \A p \in DOMAIN rx : p \in DOMAIN rx' /\ rx'[p] = rx[p]
  BY <1>1
<1>3. ASSUME NEW p \in DOMAIN rx', rx'[p].kind \in Terminators PROVE p \in DOMAIN rx
  <2>1. SUFFICES ASSUME p \notin DOMAIN rx PROVE FALSE
    OBVIOUS
  <2>2. p - Len(rx) \in 1..Len(s) /\ Len(rx) + (p - Len(rx)) = p
    BY <1>1, <2>1
  <2>3. rx'[p] = s[p - Len(rx)]
    BY <1>1, <2>2
  <2> QED
    BY <1>1, <1>3, <2>2, <2>3
<1> QED
  BY <1>2, <1>3 DEF NoTerm, OneTerm, PromptSent

(* The lines when an answer has joined, which ends with a line that ends   *)
(* a response.                                                             *)
LEMMA TermAnswer ==
  ASSUME rx \in Seq(Lines), NEW s \in Seq(Lines), s # <<>>, rx' = rx \o s, NoTerm,
         \A p \in DOMAIN s : s[p].kind \in Terminators <=> p = Len(s)
  PROVE  /\ OneTerm' /\ ~NoTerm'
         /\ s[Len(s)].kind = "PROMPT" => PromptSent'
<1>1. /\ Len(rx) \in Nat /\ Len(s) \in Nat
      /\ DOMAIN rx' = 1..(Len(rx) + Len(s)) /\ DOMAIN rx = 1..Len(rx) /\ DOMAIN s = 1..Len(s)
      /\ \A p \in 1..Len(rx) : rx'[p] = rx[p]
      /\ \A p \in 1..Len(s) : rx'[Len(rx) + p] = s[p]
  BY ConcatIndex
<1>2. Len(s) \in 1..Len(s)
  BY <1>1
<1>3. /\ Len(rx) + Len(s) \in DOMAIN rx' /\ rx'[Len(rx) + Len(s)] = s[Len(s)]
  BY <1>1, <1>2
<1>4. s[Len(s)].kind \in Terminators
  BY <1>1, <1>2
<1>5. ASSUME NEW p \in DOMAIN rx', rx'[p].kind \in Terminators PROVE p = Len(rx) + Len(s)
  <2>1. p \notin DOMAIN rx
    BY <1>1, <1>5 DEF NoTerm
  <2>2. p - Len(rx) \in 1..Len(s) /\ Len(rx) + (p - Len(rx)) = p
    BY <1>1, <2>1
  <2>3. rx'[p] = s[p - Len(rx)]
    BY <1>1, <2>2
  <2>4. p - Len(rx) = Len(s)
    BY <1>1, <1>5, <2>2, <2>3
  <2> QED
    BY <1>1, <2>2, <2>4
<1> QED
  BY <1>3, <1>4, <1>5 DEF NoTerm, OneTerm, PromptSent

(* The same of what the modem says.                                        *)
LEMMA SayAnswer ==
  ASSUME TypeOK, NEW kinds \in Seq(LineKinds), kinds # <<>>, Say(kinds), NoTerm,
         \A p \in DOMAIN kinds : kinds[p] \in Terminators <=> p = Len(kinds)
  PROVE  /\ OneTerm' /\ ~NoTerm'
         /\ kinds[Len(kinds)] = "PROMPT" => PromptSent'
<1>s. PICK s : s = [i \in DOMAIN kinds |-> [kind |-> kinds[i], msg |-> NoMsg]]
  OBVIOUS
<1>1. s \in Seq(Lines) /\ rx' = rx \o s /\ rx \in Seq(Lines)
  BY <1>s, LinesOf DEF Say, TypeOK
<1>2. /\ DOMAIN kinds = 1..Len(kinds) /\ Len(kinds) \in Nat \ {0} /\ Len(s) = Len(kinds)
      /\ DOMAIN s = DOMAIN kinds
  BY <1>s
<1>3. \A p \in DOMAIN s : s[p].kind = kinds[p]
  BY <1>s
<1>4. Len(s) \in DOMAIN s /\ s # <<>>
  BY <1>1, <1>2
<1> QED
  BY <1>1, <1>2, <1>3, <1>4, TermAnswer

(* And of what the modem says that ends no response.                       *)
LEMMA SayPlain ==
  ASSUME TypeOK, NEW kinds \in Seq(LineKinds), Say(kinds),
         \A p \in DOMAIN kinds : kinds[p] \notin Terminators
  PROVE  /\ NoTerm' = NoTerm
         /\ OneTerm => OneTerm'
         /\ PromptSent => PromptSent'
<1>s. PICK s : s = [i \in DOMAIN kinds |-> [kind |-> kinds[i], msg |-> NoMsg]]
  OBVIOUS
<1>1. s \in Seq(Lines) /\ rx' = rx \o s /\ rx \in Seq(Lines)
  BY <1>s, LinesOf DEF Say, TypeOK
<1>2. \A p \in DOMAIN s : s[p].kind \notin Terminators
  BY <1>s
<1> QED
  BY <1>1, <1>2, TermJoin

(* What each answer of the modem does to the lines when there is no other  *)
(* answer among them.                                                      *)
LEMMA AnswerEnds ==
  ASSUME TypeOK, NoTerm,
         \/ Say(<<"INFO", "OK">>) \/ Say(<<"ERROR">>) \/ Say(<<"PROMPT">>) \/ Say(<<>>)
  PROVE  /\ NoTerm' \/ OneTerm'
         /\ Say(<<"PROMPT">>) => PromptSent' /\ OneTerm' /\ ~NoTerm'
<1>1. \A p \in DOMAIN <<"INFO", "OK">> :
        <<"INFO", "OK">>[p] \in Terminators <=> p = Len(<<"INFO", "OK">>)
  BY DEF Terminators
<1>2. \A p \in DOMAIN <<"ERROR">> : <<"ERROR">>[p] \in Terminators <=> p = Len(<<"ERROR">>)
  BY DEF Terminators
<1>3. \A p \in DOMAIN <<"PROMPT">> : <<"PROMPT">>[p] \in Terminators <=> p = Len(<<"PROMPT">>)
  BY DEF Terminators
<1>4. \A p \in DOMAIN <<>> : <<>>[p] \notin Terminators
  OBVIOUS
<1>5. Say(<<"INFO", "OK">>) => OneTerm'
  BY <1>1, Answers, SayAnswer
<1>6. Say(<<"ERROR">>) => OneTerm'
  BY <1>2, Answers, SayAnswer
<1>7. Say(<<>>) => NoTerm'
  BY <1>4, Answers, SayPlain
<1>8. ASSUME Say(<<"PROMPT">>) PROVE PromptSent' /\ OneTerm' /\ ~NoTerm'
  <2>1. <<"PROMPT">> # <<>> /\ <<"PROMPT">>[Len(<<"PROMPT">>)] = "PROMPT"
    OBVIOUS
  <2> QED
    BY <1>3, <1>8, <2>1, Answers, SayAnswer
<1> QED
  BY <1>5, <1>6, <1>7, <1>8

(* A step that changes neither the lines nor who holds the mutex, nor      *)
(* where its holder is.                                                    *)
LEMMA AnswerKept ==
  ASSUME AnswerInv,
         UNCHANGED <<at_mutex, at_response_sem, at_response, reader, wire, rx, modem, sms>>,
         at_mutex # NoTask => pc'[at_mutex] = pc[at_mutex] /\ cur'[at_mutex] = cur[at_mutex]
  PROVE  AnswerInv'
<1>1. /\ NoTerm' = NoTerm /\ OneTerm' = OneTerm /\ PromptSent' = PromptSent
      /\ AllRead' = AllRead /\ Unread' = Unread /\ NextItem' = NextItem
      /\ ReaderHas' = ReaderHas /\ NoCrossedSms' = NoCrossedSms
  BY DEF NoTerm, OneTerm, PromptSent, AllRead, Unread, NextItem, ReaderHas, NoCrossedSms
<1>2. PromptComes' = PromptComes
  BY <1>1 DEF PromptComes
<1>3. Busy' = Busy
  BY DEF Busy
<1>4. OneAnswer' /\ (Busy \/ Quiet)'
  BY <1>1, <1>3 DEF AnswerInv, OneAnswer, Quiet
<1>5. ItemIsOwn'
  BY <1>1, <1>3 DEF AnswerInv, ItemIsOwn, Busy
<1>6. TextModeIsOwn'
  BY <1>1, <1>2 DEF AnswerInv, TextModeIsOwn
<1> QED
  BY <1>1, <1>4, <1>5, <1>6 DEF AnswerInv

(* A task that takes the mutex finds no answer under way; what it writes   *)
(* is the one thing the modem has not read.                                *)
LEMMA AnswerBegins ==
  ASSUME TypeOK, SessionDiscipline, AnswerInv, NEW t \in Tasks, SendBegin(t) \/ CmdBegin(t)
  PROVE  AnswerInv'
<1>1. PICK kind \in {"cmgs", "cmd"} :
        /\ wire' = Append(wire, [kind |-> kind, call |-> cur[t]])
        /\ pc' = [pc EXCEPT ![t] = IF kind = "cmgs" THEN "prompt_wait" ELSE "cmd_wait"]
  BY DEF SendBegin, CmdBegin, Begin, Write, Goto
<1>2. /\ at_mutex = NoTask /\ at_mutex' = t /\ cur' = cur
      /\ at_response_sem' = at_response_sem /\ reader' = reader /\ rx' = rx
      /\ modem' = modem /\ sms' = sms
  BY DEF SendBegin, CmdBegin, Begin, readerVars, modemVars
<1>3. Quiet /\ modem.mode # "text"
  BY <1>2 DEF AnswerInv, Busy, TextModeIsOwn
<1>4. /\ Len(wire') = Len(wire) + 1
      /\ wire'[Len(wire) + 1] = [kind |-> kind, call |-> cur[t]]
      /\ Len(wire) \in Nat /\ modem.taken \in Nat /\ modem.taken = Len(wire)
  BY <1>1, <1>3, AppendIndex, HolderIs DEF Quiet, AllRead
<1>5. Unread' /\ ~AllRead'
  BY <1>2, <1>4 DEF Unread, AllRead
<1>6. NoTerm' /\ ~ReaderHas' /\ at_response_sem' = 0
  BY <1>2, <1>3 DEF Quiet, NoTerm, ReaderHas
<1>7. Busy' /\ pc'[t] = (IF kind = "cmgs" THEN "prompt_wait" ELSE "cmd_wait")
  BY <1>1, <1>2, HolderIs DEF Busy, Waiting
<1>8. NextItem' = [kind |-> kind, call |-> cur[t]]
  BY <1>2, <1>4 DEF NextItem
<1>9. OneAnswer'
  BY <1>5, <1>6 DEF OneAnswer
<1>10. ItemIsOwn'
  BY <1>2, <1>7, <1>8 DEF ItemIsOwn, Written
<1>11. TextModeIsOwn' /\ NoCrossedSms'
  BY <1>2, <1>3 DEF TextModeIsOwn, AnswerInv, NoCrossedSms
<1> QED
  BY <1>7, <1>9, <1>10, <1>11 DEF AnswerInv

(* A task that stops waiting leaves no answer under way: it took the       *)
(* token, or the modem had said all it had to say.                         *)
LEMMA AnswerTaken ==
  ASSUME TypeOK, SessionDiscipline, AnswerInv, SlowModem = FALSE, NEW t \in Tasks,
         PromptWait(t) \/ ResultWait(t) \/ CmdWait(t)
  PROVE  AnswerInv'
<1>1. /\ pc[t] \in Waiting /\ (SemTake(t) \/ SemTimeout(t))
      /\ UNCHANGED <<cur, at_mutex, at_response, reader, wire, rx, modem, sms>>
      /\ \/ pc[t] = "prompt_wait" /\ pc' = [pc EXCEPT ![t] = "prompt_check"]
         \/ pc[t] = "result_wait" /\ pc' = [pc EXCEPT ![t] = "result_release"]
         \/ pc[t] = "cmd_wait" /\ pc' = [pc EXCEPT ![t] = "cmd_release"]
  BY DEF PromptWait, ResultWait, CmdWait, Wait, Goto, Waiting, readerVars, modemVars
<1>2. at_mutex = t /\ t # NoTask /\ at_mutex' = t
  BY <1>1, HolderIs DEF Session, Waiting
<1>3. /\ NoTerm' = NoTerm /\ PromptSent' = PromptSent
      /\ AllRead' = AllRead /\ Unread' = Unread
      /\ ReaderHas' = ReaderHas /\ NoCrossedSms' = NoCrossedSms
  BY <1>1 DEF NoTerm, PromptSent, AllRead, Unread, ReaderHas, NoCrossedSms
<1>4. at_response_sem' = 0 /\ AllRead /\ NoTerm /\ ~ReaderHas
  <2>1. CASE SemTake(t)
    BY <2>1 DEF SemTake, AnswerInv, OneAnswer
  <2>2. CASE SemTimeout(t)
    <3>1. at_response_sem' = 0 /\ rx = <<>> /\ AllRead /\ reader.at = "read"
      BY <2>2 DEF SemTimeout, QuietModem, AllRead
    <3> QED
      BY <3>1 DEF NoTerm, ReaderHas
  <2> QED
    BY <1>1, <2>1, <2>2
<1>5. ~Unread
  <2>1. Len(wire) \in Nat /\ modem.taken \in Nat
    BY HolderIs
  <2> QED
    BY <1>4, <2>1 DEF AllRead, Unread
<1>6. OneAnswer' /\ Quiet' /\ ItemIsOwn'
  BY <1>3, <1>4, <1>5 DEF OneAnswer, Quiet, ItemIsOwn
<1>7. TextModeIsOwn'
  <2> SUFFICES ASSUME modem.mode = "text" PROVE TextModeIsOwn'
    BY <1>1 DEF TextModeIsOwn
  <2>1. /\ ~modem.typed /\ modem.da = cur[t]
        /\ pc[t] = "prompt_wait" /\ PromptComes
    BY <1>1, <1>2, <1>5 DEF AnswerInv, TextModeIsOwn, Waiting
  <2>2. pc'[t] = "prompt_check"
    BY <1>1, <2>1, HolderIs
  <2>3. ~PromptSent /\ (reader.at = "store" => reader.line # "PROMPT") /\ reader.at # "give"
    BY <1>4 DEF PromptSent, NoTerm, ReaderHas, Terminators
  <2>4. "PROMPT" \in Range(at_response)
    BY <2>1, <2>3 DEF PromptComes
  <2> QED
    BY <1>1, <1>2, <1>3, <1>4, <2>1, <2>2, <2>4 DEF TextModeIsOwn
<1> QED
  BY <1>3, <1>6, <1>7 DEF AnswerInv

(* A task that gives the mutex back leaves no answer under way and no      *)
(* modem in text mode.                                                     *)
LEMMA AnswerEnded ==
  ASSUME TypeOK, SessionDiscipline, AnswerInv, NEW t \in Tasks,
         PromptMissing(t) \/ SendRelease(t) \/ CmdRelease(t)
  PROVE  AnswerInv'
<1>1. /\ pc[t] \in {"prompt_check", "result_release", "cmd_release"}
      /\ pc[t] = "prompt_check" => ~Has("PROMPT")
      /\ at_mutex' = NoTask
      /\ UNCHANGED <<at_response_sem, reader, wire, rx, modem, sms>>
  BY DEF PromptMissing, SendRelease, CmdRelease, GiveBack, Release, readerVars, modemVars
<1>2. at_mutex = t
  BY <1>1, HolderIs DEF Session
<1>3. Quiet
  BY <1>1, <1>2 DEF AnswerInv, Busy, Waiting
<1>4. modem.mode # "text"
  <2>1. "PROMPT" \in Range(at_response) => Has("PROMPT")
    BY DEF Has, Containing
  <2> QED
    BY <1>1, <1>2, <2>1 DEF AnswerInv, TextModeIsOwn
<1>5. Len(wire) \in Nat /\ modem.taken \in Nat
  BY HolderIs
<1>6. Quiet' /\ ~Unread'
  BY <1>1, <1>3, <1>5 DEF Quiet, AllRead, NoTerm, ReaderHas, Unread
<1>7. OneAnswer' /\ ItemIsOwn'
  BY <1>6 DEF Quiet, OneAnswer, ItemIsOwn
<1>8. TextModeIsOwn' /\ NoCrossedSms'
  BY <1>1, <1>4 DEF TextModeIsOwn, AnswerInv, NoCrossedSms
<1> QED
  BY <1>6, <1>7, <1>8 DEF AnswerInv

(* A task that clears at_response for the answer to its text has the       *)
(* prompt: no other answer is under way.                                   *)
LEMMA AnswerCleared ==
  ASSUME TypeOK, SessionDiscipline, AnswerInv, NEW t \in Tasks, SendClear(t)
  PROVE  AnswerInv'
<1>1. /\ pc[t] = "prompt_check" /\ pc' = [pc EXCEPT ![t] = "send_text"]
      /\ UNCHANGED <<cur, at_mutex, at_response_sem, reader, wire, rx, modem, sms>>
  BY DEF SendClear, Goto, readerVars, modemVars
<1>2. at_mutex = t /\ t # NoTask /\ pc'[t] = "send_text"
  BY <1>1, HolderIs DEF Session
<1>3. Quiet
  BY <1>1, <1>2 DEF AnswerInv, Busy, Waiting
<1>4. Len(wire) \in Nat /\ modem.taken \in Nat
  BY HolderIs
<1>5. Quiet' /\ ~Unread'
  BY <1>1, <1>3, <1>4 DEF Quiet, AllRead, NoTerm, ReaderHas, Unread
<1>6. OneAnswer' /\ ItemIsOwn'
  BY <1>5 DEF Quiet, OneAnswer, ItemIsOwn
<1>7. TextModeIsOwn' /\ NoCrossedSms'
  BY <1>1, <1>2, <1>5 DEF TextModeIsOwn, AnswerInv, NoCrossedSms, Quiet
<1> QED
  BY <1>5, <1>6, <1>7 DEF AnswerInv

(* A task that writes its text has taken the prompt; the text is the one   *)
(* thing the modem has not read.                                           *)
LEMMA AnswerText ==
  ASSUME TypeOK, SessionDiscipline, AnswerInv, NEW t \in Tasks, SendText(t)
  PROVE  AnswerInv'
<1>1. /\ pc[t] = "send_text" /\ pc' = [pc EXCEPT ![t] = "result_wait"]
      /\ wire' = Append(wire, [kind |-> "text", call |-> cur[t]])
      /\ UNCHANGED <<cur, at_mutex, at_response_sem, reader, rx, modem, sms>>
  BY DEF SendText, Write, Goto, driverVars, readerVars, modemVars
<1>2. at_mutex = t /\ t # NoTask /\ pc'[t] = "result_wait"
  BY <1>1, HolderIs DEF Session
<1>3. Quiet
  BY <1>1, <1>2 DEF AnswerInv, Busy, Waiting
<1>4. /\ Len(wire') = Len(wire) + 1
      /\ wire'[Len(wire) + 1] = [kind |-> "text", call |-> cur[t]]
      /\ Len(wire) \in Nat /\ modem.taken \in Nat /\ modem.taken = Len(wire)
  BY <1>1, <1>3, AppendIndex, HolderIs DEF Quiet, AllRead
<1>5. Unread' /\ ~AllRead'
  BY <1>1, <1>4 DEF Unread, AllRead
<1>6. NoTerm' /\ ~ReaderHas' /\ at_response_sem' = 0
  BY <1>1, <1>3 DEF Quiet, NoTerm, ReaderHas
<1>7. Busy'
  BY <1>1, <1>2 DEF Busy, Waiting
<1>8. NextItem' = [kind |-> "text", call |-> cur[t]]
  BY <1>1, <1>4 DEF NextItem
<1>9. OneAnswer'
  BY <1>5, <1>6 DEF OneAnswer
<1>10. ItemIsOwn'
  BY <1>1, <1>2, <1>7, <1>8 DEF ItemIsOwn, Written
<1>11. TextModeIsOwn' /\ NoCrossedSms'
  BY <1>1, <1>2, <1>5 DEF TextModeIsOwn, AnswerInv, NoCrossedSms
<1> QED
  BY <1>7, <1>9, <1>10, <1>11 DEF AnswerInv

(* The reader takes an answer from the UART only while a command waits, so *)
(* it always goes on to store it.                                          *)
LEMMA AnswerRead ==
  ASSUME TypeOK, SessionDiscipline, AnswerInv, ReadPrompt \/ ReadLine
  PROVE  AnswerInv'
<1>1. /\ reader.at = "read" /\ rx # <<>> /\ rx' = Tail(rx) /\ Capture(Head(rx).kind)
      /\ UNCHANGED <<pc, cur, at_mutex, at_response_sem, at_response, wire, modem, sms>>
      /\ ReadLine => Head(rx).kind # "PROMPT"
  BY DEF ReadPrompt, ReadLine, callerVars, driverVars, modemVars
<1>2. ~ReaderHas
  BY <1>1 DEF ReaderHas
<1>3. /\ AllRead' = AllRead /\ Unread' = Unread /\ NoCrossedSms' = NoCrossedSms
      /\ Busy' = Busy /\ NextItem' = NextItem
  BY <1>1 DEF AllRead, Unread, NoCrossedSms, Busy, NextItem
<1>4. ItemIsOwn'
  BY <1>1, <1>3 DEF AnswerInv, ItemIsOwn
<1>5. CASE Head(rx).kind \in Terminators
  <2>1. ~NoTerm /\ NoTerm' /\ OneTerm
    BY <1>1, <1>5, TermTail DEF AnswerInv, OneAnswer
  <2>2. Busy /\ AllRead /\ ~Unread /\ at_response_sem = 0
    BY <2>1 DEF AnswerInv, OneAnswer, Quiet
  <2>3. reader' = [at |-> "store", line |-> Head(rx).kind]
    BY <1>1, <2>2, HolderIs DEF Capture, Busy, Waiting, Session
  <2>4. OneAnswer'
    BY <1>1, <1>3, <2>1, <2>2 DEF OneAnswer
  <2>5. PromptComes => PromptComes'
    <3>1. PromptComes => PromptSent
      BY <1>1, <2>2 DEF PromptComes
    <3>2. PromptSent => Head(rx).kind = "PROMPT"
      BY <1>1, <1>5, <2>1, TermTail
    <3> QED
      BY <2>3, <3>1, <3>2 DEF PromptComes
  <2>6. TextModeIsOwn'
    BY <1>1, <1>3, <2>5 DEF AnswerInv, TextModeIsOwn
  <2> QED
    BY <1>3, <1>4, <2>2, <2>4, <2>6 DEF AnswerInv
<1>6. CASE Head(rx).kind \notin Terminators
  <2>1. (NoTerm => NoTerm') /\ (OneTerm => OneTerm') /\ (PromptSent => PromptSent')
    BY <1>1, <1>6, TermTail DEF Terminators
  <2>2. ~ReaderHas'
    BY <1>1, <1>6 DEF Capture, ReaderHas
  <2>3. OneTerm' => ~NoTerm'
    BY DEF OneTerm, NoTerm
  <2>4. OneAnswer'
    <3>1. NoTerm \/ OneTerm
      BY DEF AnswerInv, OneAnswer
    <3> QED
      BY <1>1, <1>3, <2>1, <2>2, <2>3, <3>1 DEF AnswerInv, OneAnswer
  <2>5. (Busy \/ Quiet)'
    BY <1>1, <1>3, <2>1, <2>2 DEF AnswerInv, Quiet
  <2>6. PromptComes => PromptComes'
    BY <1>1, <2>1 DEF PromptComes
  <2>7. TextModeIsOwn'
    BY <1>1, <1>3, <2>6 DEF AnswerInv, TextModeIsOwn
  <2> QED
    BY <1>3, <1>4, <2>4, <2>5, <2>7 DEF AnswerInv
<1> QED
  BY <1>5, <1>6

(* Storing a line keeps a prompt that is already in at_response.           *)
LEMMA AnswerStored ==
  ASSUME TypeOK, AnswerInv, ReaderStore
  PROVE  AnswerInv'
<1>1. /\ reader.at = "store"
      /\ reader' = [at |-> IF reader.line \in Terminators THEN "give" ELSE "read",
                    line |-> "INFO"]
      /\ UNCHANGED <<pc, cur, at_mutex, at_response_sem, wire, rx, modem, sms>>
  BY DEF ReaderStore, callerVars, modemVars
<1>2. /\ NoTerm' = NoTerm /\ OneTerm' = OneTerm /\ PromptSent' = PromptSent
      /\ AllRead' = AllRead /\ Unread' = Unread /\ NextItem' = NextItem
      /\ NoCrossedSms' = NoCrossedSms /\ Busy' = Busy
  BY <1>1 DEF NoTerm, OneTerm, PromptSent, AllRead, Unread, NextItem, NoCrossedSms, Busy
<1>3. ReaderHas' = ReaderHas
  BY <1>1 DEF ReaderHas
<1>4. OneAnswer' /\ (Busy \/ Quiet)' /\ ItemIsOwn'
  BY <1>1, <1>2, <1>3 DEF AnswerInv, OneAnswer, Quiet, ItemIsOwn
<1>5. /\ "PROMPT" \in Range(at_response) => "PROMPT" \in Range(at_response')
      /\ reader.line = "PROMPT" => "PROMPT" \in Range(at_response')
  <2>1. \/ at_response' = <<"PROMPT">>
        \/ reader.line # "PROMPT" /\ at_response' = Append(at_response, reader.line)
        \/ reader.line # "PROMPT" /\ at_response' = at_response
    BY DEF ReaderStore
  <2>2. "PROMPT" \in Range(<<"PROMPT">>)
    BY DEF Range
  <2>3. Range(at_response) \subseteq Range(Append(at_response, reader.line))
    <3>1. at_response \in Seq(LineKinds)
      BY DEF TypeOK
    <3> QED
      BY <3>1, AppendIndex DEF Range
  <2> QED
    BY <2>1, <2>2, <2>3
<1>6. PromptComes => PromptComes'
  BY <1>1, <1>2, <1>5 DEF PromptComes, Terminators
<1>7. TextModeIsOwn'
  BY <1>1, <1>2, <1>5, <1>6 DEF AnswerInv, TextModeIsOwn
<1> QED
  BY <1>2, <1>4, <1>7 DEF AnswerInv

(* The token goes to the task the answer is for: the reader had the answer *)
(* in its hand, so that task still waits.                                  *)
LEMMA AnswerGiven ==
  ASSUME TypeOK, AnswerInv, ReaderGive
  PROVE  AnswerInv'
<1>1. /\ reader.at = "give" /\ reader'.at = "read" /\ at_response_sem' = 1
      /\ UNCHANGED <<pc, cur, at_mutex, at_response, wire, rx, modem, sms>>
  BY DEF ReaderGive, callerVars, modemVars
<1>2. /\ NoTerm' = NoTerm /\ OneTerm' = OneTerm /\ PromptSent' = PromptSent
      /\ AllRead' = AllRead /\ Unread' = Unread /\ NextItem' = NextItem
      /\ NoCrossedSms' = NoCrossedSms /\ Busy' = Busy
  BY <1>1 DEF NoTerm, OneTerm, PromptSent, AllRead, Unread, NextItem, NoCrossedSms, Busy
<1>3. ReaderHas /\ ~ReaderHas'
  BY <1>1 DEF ReaderHas
<1>4. Busy /\ NoTerm /\ AllRead /\ ~Unread
  BY <1>3 DEF AnswerInv, OneAnswer, Quiet
<1>5. OneAnswer' /\ ItemIsOwn'
  BY <1>2, <1>3, <1>4 DEF OneAnswer, ItemIsOwn
<1>6. PromptComes => PromptComes'
  BY <1>1, <1>2 DEF PromptComes
<1>7. TextModeIsOwn'
  BY <1>1, <1>2, <1>6 DEF AnswerInv, TextModeIsOwn
<1> QED
  BY <1>2, <1>4, <1>5, <1>7 DEF AnswerInv

(* The modem reads what the task that waits has written.                   *)
LEMMA AnswerModem ==
  ASSUME TypeOK, SessionDiscipline, AnswerInv, Modem
  PROVE  AnswerInv'
<1>1. /\ modem.taken < Len(wire) /\ modem'.taken = modem.taken + 1
      /\ UNCHANGED <<pc, cur, at_mutex, at_response_sem, at_response, reader, wire>>
  BY DEF Modem, ModemCommand, ModemOpensText, ModemRefusesText, ModemIgnoresText,
         ModemTakesLine, ModemSubmits, ModemReads, callerVars, driverVars, readerVars
<1>2. Len(wire) \in Nat /\ modem.taken \in Nat
  BY HolderIs
<1>3. Unread /\ ~AllRead
  BY <1>1, <1>2 DEF AnswerInv, OneAnswer, AllRead, Unread
<1>4. /\ NoTerm /\ ~ReaderHas /\ at_response_sem = 0
      /\ Busy /\ NextItem = [kind |-> Written[pc[at_mutex]], call |-> cur[at_mutex]]
  BY <1>3 DEF AnswerInv, OneAnswer, ItemIsOwn
<1>5. AllRead' /\ ~Unread' /\ ~ReaderHas' /\ Busy' /\ at_response_sem' = 0
  BY <1>1, <1>2, <1>3, <1>4 DEF AllRead, Unread, ReaderHas, Busy
<1>6. NextItem.kind # "text" => modem.mode # "text"
  BY <1>3, <1>4 DEF AnswerInv, TextModeIsOwn, AllRead, Written, Waiting
<1>7. NoTerm' \/ OneTerm'
  <2>1. CASE rx' = rx
    BY <1>4, <2>1 DEF NoTerm
  <2>2. CASE Say(<<"INFO", "OK">>) \/ Say(<<"ERROR">>) \/ Say(<<"PROMPT">>) \/ Say(<<>>)
    BY <1>4, <2>2, AnswerEnds
  <2> QED
    BY <2>1, <2>2 DEF Modem, ModemCommand, ModemOpensText, ModemRefusesText,
                      ModemIgnoresText, ModemTakesLine, ModemSubmits
<1>8. OneAnswer' /\ ItemIsOwn'
  BY <1>5, <1>7 DEF OneAnswer, ItemIsOwn
<1>9. CASE ModemOpensText
  <2>1. modem' = [taken |-> modem.taken + 1, mode |-> "text", da |-> NextItem.call, typed |-> FALSE]
    BY <1>9 DEF ModemOpensText, ModemReads
  <2>2. PromptSent' /\ sms' = sms
    BY <1>4, <1>9, AnswerEnds DEF ModemOpensText
  <2>3. pc[at_mutex] = "prompt_wait" /\ NextItem.call = cur[at_mutex] /\ at_mutex # NoTask
    BY <1>4, <1>9 DEF ModemOpensText, Written, Waiting, Busy
  <2>4. TextModeIsOwn'
    BY <1>1, <1>5, <2>1, <2>2, <2>3 DEF TextModeIsOwn, PromptComes
  <2> QED
    BY <1>5, <1>8, <2>2, <2>4 DEF AnswerInv, NoCrossedSms
<1>10. CASE ModemSubmits
  <2>1. modem.mode = "text" /\ modem'.mode = "command"
    BY <1>10 DEF ModemSubmits, ModemReads
  <2>2. ~modem.typed /\ modem.da = cur[at_mutex] /\ NextItem.call = cur[at_mutex]
    BY <1>4, <2>1 DEF AnswerInv, TextModeIsOwn
  <2>3. NoCrossedSms'
    <3>1. \/ sms' = sms
          \/ sms' = sms \cup {[da |-> modem.da, text |-> NextItem.call, typed |-> modem.typed]}
      BY <1>10 DEF ModemSubmits
    <3> QED
      BY <2>2, <3>1 DEF AnswerInv, NoCrossedSms
  <2> QED
    BY <1>5, <1>8, <2>1, <2>3 DEF AnswerInv, TextModeIsOwn
<1>11. CASE ModemTakesLine
  BY <1>6, <1>11 DEF ModemTakesLine
<1>12. CASE ModemCommand \/ ModemRefusesText \/ ModemIgnoresText
  <2>1. modem'.mode = "command" /\ sms' = sms
    BY <1>12 DEF ModemCommand, ModemRefusesText, ModemIgnoresText, ModemReads
  <2> QED
    BY <1>5, <1>8, <2>1 DEF AnswerInv, TextModeIsOwn, NoCrossedSms
<1> QED
  BY <1>9, <1>10, <1>11, <1>12 DEF Modem

(* What the network sends is not an answer.                                *)
LEMMA AnswerNetwork ==
  ASSUME AnswerInv,
         UNCHANGED <<pc, cur, at_mutex, at_response_sem, at_response, reader, wire, modem, sms>>,
         NoTerm' = NoTerm, OneTerm => OneTerm', PromptSent => PromptSent'
  PROVE  AnswerInv'
<1>1. /\ AllRead' = AllRead /\ Unread' = Unread /\ NextItem' = NextItem
      /\ ReaderHas' = ReaderHas /\ NoCrossedSms' = NoCrossedSms /\ Busy' = Busy
  BY DEF AllRead, Unread, NextItem, ReaderHas, NoCrossedSms, Busy
<1>2. PromptComes => PromptComes'
  BY DEF PromptComes
<1>3. OneAnswer' /\ (Busy \/ Quiet)'
  BY <1>1 DEF AnswerInv, OneAnswer, Quiet
<1>4. ItemIsOwn' /\ TextModeIsOwn'
  BY <1>1, <1>2 DEF AnswerInv, ItemIsOwn, TextModeIsOwn
<1> QED
  BY <1>1, <1>3, <1>4 DEF AnswerInv

(* The lines of a message end no response.                                 *)
LEMMA AnswerArrives ==
  ASSUME TypeOK, FastModemPlainBodies, AnswerInv, NEW m \in Inbound, MessageArrives(m)
  PROVE  AnswerInv'
<1>body. PICK body : body = [i \in DOMAIN BodyLines[m] |-> [kind |-> BodyLines[m][i], msg |-> m]]
  OBVIOUS
<1>head. PICK head : head = <<[kind |-> "CMT", msg |-> m]>>
  OBVIOUS
<1>1. BodyLines[m] \in Seq(LineKinds)
  BY BodyAssumption
<1>2. body \in Seq(Lines) /\ head \in Seq(Lines) /\ rx \in Seq(Lines)
  <2>1. body \in Seq(Lines)
    BY <1>1, <1>body, LinesOf
  <2>2. [kind |-> "CMT", msg |-> m] \in Lines
    BY DEF Lines, LineKinds
  <2> QED
    BY <1>head, <2>1, <2>2 DEF TypeOK
<1>3. rx' = (rx \o head) \o body
  BY <1>body, <1>head DEF MessageArrives
<1>4. rx' = rx \o (head \o body) /\ head \o body \in Seq(Lines)
  BY <1>2, <1>3
<1>5. \A p \in DOMAIN (head \o body) : (head \o body)[p].kind \notin Terminators
  <2>1. /\ DOMAIN (head \o body) = 1..(Len(head) + Len(body))
        /\ Len(head) \in Nat /\ Len(body) \in Nat
        /\ \A p \in 1..Len(head) : (head \o body)[p] = head[p]
        /\ \A p \in 1..Len(body) : (head \o body)[Len(head) + p] = body[p]
    BY <1>2, ConcatIndex
  <2>2. Len(head) = 1 /\ head[1].kind = "CMT"
    BY <1>head
  <2>3. \A p \in 1..Len(body) : body[p].kind \notin Terminators
    BY <1>1, <1>2, <1>body DEF FastModemPlainBodies
  <2> SUFFICES ASSUME NEW p \in 1..(Len(head) + Len(body))
               PROVE  (head \o body)[p].kind \notin Terminators
    BY <2>1
  <2>4. CASE p = 1
    BY <2>1, <2>2, <2>4 DEF Terminators
  <2>5. CASE p # 1
    <3>1. p - 1 \in 1..Len(body) /\ Len(head) + (p - 1) = p
      BY <2>1, <2>2, <2>5
    <3> QED
      BY <2>1, <2>3, <3>1
  <2> QED
    BY <2>4, <2>5
<1>6. NoTerm' = NoTerm /\ (OneTerm => OneTerm') /\ (PromptSent => PromptSent')
  BY <1>2, <1>4, <1>5, TermJoin
<1> QED
  BY <1>6, AnswerNetwork DEF MessageArrives, callerVars, driverVars, readerVars

(* No step brings a second answer under way, or one nobody waits for.      *)
LEMMA AnswerNext ==
  ASSUME TypeOK, SessionDiscipline, FastModemPlainBodies, AnswerInv, [Next]_vars
  PROVE  AnswerInv'
<1>1. ASSUME NEW t \in Tasks, SendCall(t) \/ CmdCall(t) \/ SendVerdict(t) \/ CmdVerdict(t)
      PROVE  AnswerInv'
  <2>1. /\ pc[t] \notin Session /\ \A u \in Tasks : u # t => pc'[u] = pc[u] /\ cur'[u] = cur[u]
        /\ UNCHANGED <<at_mutex, at_response_sem, at_response, reader, wire, rx, modem, sms>>
    BY <1>1, HolderIs
       DEF SendCall, CmdCall, NewCall, SendVerdict, CmdVerdict, Return, Goto, Session,
           driverVars, readerVars, modemVars
  <2>2. at_mutex # NoTask => at_mutex \in Tasks /\ at_mutex # t
    BY <2>1, HolderIs
  <2> QED
    BY <2>1, <2>2, AnswerKept
<1>2. ASSUME NEW t \in Tasks,
             \/ SendBegin(t) \/ CmdBegin(t) \/ PromptWait(t) \/ ResultWait(t) \/ CmdWait(t)
             \/ PromptMissing(t) \/ SendRelease(t) \/ CmdRelease(t) \/ SendClear(t) \/ SendText(t)
      PROVE  AnswerInv'
  BY <1>2, AnswerBegins, AnswerTaken, AnswerEnded, AnswerCleared, AnswerText DEF FastModemPlainBodies
<1>3. CASE Reader
  BY <1>3, AnswerRead, AnswerStored, AnswerGiven DEF Reader
<1>4. CASE Modem
  BY <1>4, AnswerModem
<1>5. ASSUME NEW m \in Inbound, MessageArrives(m) PROVE AnswerInv'
  BY <1>5, AnswerArrives
<1>6. ASSUME NEW kind \in {"CREG_ON", "CREG_OFF"}, RegistrationChanges(kind) PROVE AnswerInv'
  <2>1. \A p \in DOMAIN <<kind>> : <<kind>>[p] \notin Terminators
    BY DEF Terminators
  <2>2. NoTerm' = NoTerm /\ (OneTerm => OneTerm') /\ (PromptSent => PromptSent')
    BY <1>6, <2>1, Answers, SayPlain DEF RegistrationChanges
  <2> QED
    BY <1>6, <2>2, AnswerNetwork DEF RegistrationChanges, callerVars, driverVars, readerVars
<1>7. CASE UNCHANGED vars
  BY <1>7, AnswerKept DEF vars, callerVars, driverVars, readerVars, modemVars
<1> QED
  BY <1>1, <1>2, <1>3, <1>4, <1>5, <1>6, <1>7 DEF Next, Sending, Commanding, Tasks

(* When the driver starts nothing has been asked.                          *)
LEMMA AnswerInit == Init => AnswerInv
<1> SUFFICES ASSUME Init PROVE AnswerInv
  OBVIOUS
<1>1. /\ wire = <<>> /\ rx = <<>> /\ modem.taken = 0 /\ modem.mode = "command"
      /\ reader.at = "read" /\ at_response_sem = 0 /\ sms = {}
  BY DEF Init
<1>2. AllRead /\ ~Unread /\ NoTerm /\ ~ReaderHas
  BY <1>1 DEF AllRead, Unread, NoTerm, ReaderHas
<1> QED
  BY <1>1, <1>2 DEF AnswerInv, OneAnswer, Quiet, ItemIsOwn, TextModeIsOwn, NoCrossedSms

LEMMA AnswerAlways ==
  ASSUME FastModemPlainBodies
  PROVE  Spec => []AnswerInv
<1>1. TypeOK /\ SessionDiscipline /\ AnswerInv /\ [Next]_vars => AnswerInv'
  BY AnswerNext
<1> QED
  BY <1>1, AnswerInit, TypeCorrect, Discipline, PTL DEF Spec

(* The semaphore is never left holding the answer to an earlier command,   *)
(* though no command drains it before it is written: with a modem that     *)
(* answers in time, a token is there only while the command it answers     *)
(* has the mutex.                                                          *)
THEOREM TokenIsOwn ==
  ASSUME FastModemPlainBodies
  PROVE  Spec => []NoStaleToken
<1>1. AnswerInv => NoStaleToken
  BY DEF AnswerInv, Quiet, Busy, NoStaleToken
<1> QED
  BY <1>1, AnswerAlways, PTL

(* With a modem that answers in time, every message goes out with the      *)
(* recipient of the call whose text it carries, and nothing of another     *)
(* command is typed into it.                                               *)
THEOREM SmsNotCrossed ==
  ASSUME FastModemPlainBodies
  PROVE  Spec => []NoCrossedSms
<1>1. AnswerInv => NoCrossedSms
  BY DEF AnswerInv
<1> QED
  BY <1>1, AnswerAlways, PTL

=============================================================================
