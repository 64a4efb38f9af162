------------------------------ MODULE AtChannel ------------------------------
(***************************************************************************)
(* The AT command channel of the modem driver                              *)
(* (components/a7670e/a7670e.c).  Several FreeRTOS tasks call              *)
(* a7670e_send_sms and, through a7670e_get_status, at_cmd.  They share one *)
(* UART, one response buffer (at_response), one flag                       *)
(* (waiting_for_response), one binary semaphore (at_response_sem) and a    *)
(* mutex (at_mutex).  One more task, uart_reader_task, turns what the      *)
(* modem says into lines, hands inbound messages to the application,       *)
(* copies lines into at_response while a command is waiting and gives the  *)
(* semaphore when a line ends a response.                                  *)
(*                                                                         *)
(* A step of a caller is what it does between two points where another     *)
(* task can make a difference: taking the mutex, taking the semaphore or   *)
(* timing out, giving the mutex back, and reading at_response once more    *)
(* AFTER the mutex has been given back, which is what the code does.       *)
(***************************************************************************)
EXTENDS Naturals, Sequences, Functions

CONSTANTS
  Senders,    \* tasks that call a7670e_send_sms: the MQTT task, the httpd task
  Pollers,    \* tasks that call at_cmd via a7670e_get_status: MQTT, httpd, timer
  NoTask,     \* at_mutex when nobody holds it
  MaxCalls,   \* bound: calls made in a behaviour
  Inbound,    \* messages that can arrive from the network, each at most once
  NoMsg,      \* the message of a line that belongs to none
  BodyLines,  \* the non-empty lines of each inbound message's body, in order
  MaxResponse, \* lines at_response has room for
  MaxUrcs,    \* bound: messages and +CREG lines that come unasked
  SlowModem   \* can an answer still be on its way when a timeout expires?

Tasks == Senders \cup Pollers
Calls == 1..MaxCalls

(* A line that ends a response makes the reader give the semaphore; "OK"   *)
(* stands for OK and SEND OK, "ERROR" for the three error lines.  The      *)
(* callers look for words with strstr, so a line that only contains the    *)
(* word is found as well.  A line of a body can be of any kind: nothing in *)
(* it tells the reader that it is not the modem's own.                     *)
Terminators == {"OK", "ERROR", "PROMPT"}
LineKinds   == Terminators \cup
  {"TEXT", "SAYS_OK", "SAYS_ERROR", "SAYS_PROMPT", "INFO", "CMT", "CREG_ON", "CREG_OFF"}
Lines       == [kind : LineKinds, msg : Inbound \cup {NoMsg}]
Containing  == [OK |-> {"OK", "SAYS_OK"}, ERROR |-> {"ERROR", "SAYS_ERROR"},
                PROMPT |-> {"PROMPT", "SAYS_PROMPT"}]

ASSUME TaskAssumption  == NoTask \notin Tasks
ASSUME BoundAssumption ==
  MaxCalls \in Nat /\ MaxResponse \in Nat \ {0} /\ MaxUrcs \in Nat /\ SlowModem \in BOOLEAN
ASSUME BodyAssumption  == BodyLines \in [Inbound -> Seq(LineKinds)]
ASSUME NoMsgAssumption == NoMsg \notin Inbound

VARIABLES
  pc,          \* where each caller is
  cur,         \* the call each caller is executing (0 before its first)
  got,         \* what the last xSemaphoreTake returned to the caller
  calls,       \* number of calls made so far
  verdict,     \* what each call returned
  at_mutex, at_response_sem, at_response, waiting_for_response, registered,
  reader,      \* uart_reader_task: reading, or about to store a line in
               \* at_response, or about to give the semaphore
  prev_was_cmt, \* the message of the previous line when that began with +CMT:
  delivered,   \* the calls of on_sms_received, in order
  wire,        \* everything written to the UART, in order
  rx,          \* lines the modem has sent and the reader has not read
  modem,       \* the modem: items of wire it has read, mode, open recipient
  submitted,   \* what became of the text of each call
  sms,         \* what the modem put on the air
  arrived,     \* the messages the network has delivered to the modem
  urcs,        \* number of unsolicited +CREG lines so far
  okSince      \* calls with an OK stored in at_response since it was cleared for
               \* the answer to their text

callerVars == <<pc, cur, got, calls, verdict>>
driverVars == <<at_mutex, at_response_sem, at_response, waiting_for_response>>
readerVars == <<reader, prev_was_cmt, delivered, registered>>
modemVars  == <<modem, submitted, sms, arrived, urcs>>
vars == <<callerVars, driverVars, readerVars, wire, rx, modemVars, okSince>>

Init ==
  /\ pc = [t \in Tasks |-> "idle"]
  /\ cur = [t \in Tasks |-> 0]
  /\ got = [t \in Tasks |-> FALSE]
  /\ calls = 0
  /\ verdict = [c \in Calls |-> "none"]
  /\ at_mutex = NoTask
  /\ at_response_sem = 0
  /\ at_response = <<>>
  /\ waiting_for_response = FALSE
  /\ registered \in BOOLEAN
  /\ reader = [at |-> "read", line |-> "INFO"]
  /\ prev_was_cmt = NoMsg
  /\ delivered = <<>>
  /\ wire = <<>>
  /\ rx = <<>>
  /\ modem = [taken |-> 0, mode |-> "command", da |-> 0, typed |-> FALSE]
  /\ submitted = [c \in Calls |-> "none"]
  /\ sms = {}
  /\ arrived = <<>>
  /\ urcs = 0
  /\ okSince = {}

-----------------------------------------------------------------------------
(* Callers.                                                                *)

(* strstr(at_response, word)                                               *)
Has(word) == \E line \in Range(at_response) : line \in Containing[word]

Goto(t, to) == pc' = [pc EXCEPT ![t] = to]

Return(t, result) ==
  /\ verdict' = [verdict EXCEPT ![cur[t]] = result]
  /\ Goto(t, "idle")

NewCall(t) ==
  /\ pc[t] = "idle"
  /\ calls < MaxCalls
  /\ calls' = calls + 1
  /\ cur' = [cur EXCEPT ![t] = calls + 1]

(* a7670e_send_sms refuses at once, before it queues for the mutex, when   *)
(* the modem is not registered.                                            *)
SendCall(t) ==
  /\ NewCall(t)
  /\ IF registered
       THEN Goto(t, "send_enter") /\ UNCHANGED verdict
       ELSE verdict' = [verdict EXCEPT ![calls + 1] = "INVALID_STATE"] /\ UNCHANGED pc
  /\ UNCHANGED <<got, driverVars, readerVars, wire, rx, modemVars, okSince>>

CmdCall(t) ==
  /\ NewCall(t)
  /\ Goto(t, "cmd_enter")
  /\ UNCHANGED <<got, verdict, driverVars, readerVars, wire, rx, modemVars, okSince>>

Write(t, kind) == wire' = Append(wire, [kind |-> kind, call |-> cur[t]])

(* Mutation: the mutex is not waited for.                                  *)
BeginWithoutMutex(t, from, kind, to) ==
  /\ pc[t] = from
  /\ at_mutex' = t
  /\ at_response' = <<>>
  /\ waiting_for_response' = TRUE
  /\ Write(t, kind)
  /\ Goto(t, to)
  /\ UNCHANGED <<cur, got, calls, verdict, at_response_sem, readerVars, rx,
                 modemVars, okSince>>

(* Take the mutex, clear at_response, set waiting_for_response and write   *)
(* the command.  The semaphore is not drained.                             *)
Begin(t, from, kind, to) ==
  /\ pc[t] = from
  /\ at_mutex = NoTask
  /\ at_mutex' = t
  /\ at_response' = <<>>
  /\ waiting_for_response' = TRUE
  /\ Write(t, kind)
  /\ Goto(t, to)
  /\ UNCHANGED <<cur, got, calls, verdict, at_response_sem, readerVars, rx,
                 modemVars, okSince>>

SendBegin(t) == Begin(t, "send_enter", "cmgs", "prompt_wait")
CmdBegin(t)  == Begin(t, "cmd_enter", "cmd", "cmd_wait")

(* xSemaphoreTake(at_response_sem, timeout): succeeds at once when a token *)
(* is there, and otherwise may time out.  A fast modem has said all it has *)
(* to say, and the reader has read it, before a timeout expires.           *)
SemTake(t) ==
  /\ at_response_sem = 1
  /\ at_response_sem' = 0
  /\ got' = [got EXCEPT ![t] = TRUE]

QuietModem == rx = <<>> /\ modem.taken = Len(wire) /\ reader.at = "read"

SemTimeout(t) ==
  /\ at_response_sem = 0
  /\ SlowModem \/ QuietModem
  /\ got' = [got EXCEPT ![t] = FALSE]
  /\ UNCHANGED at_response_sem

(* Mutation: portMAX_DELAY in place of the timeout.                        *)
WaitForever(t, from, to) ==
  /\ pc[t] = from
  /\ SemTake(t)
  /\ Goto(t, to)
  /\ UNCHANGED <<cur, calls, verdict, at_mutex, at_response, waiting_for_response,
                 readerVars, wire, rx, modemVars, okSince>>

Wait(t, from, to) ==
  /\ pc[t] = from
  /\ SemTake(t) \/ SemTimeout(t)
  /\ Goto(t, to)
  /\ UNCHANGED <<cur, calls, verdict, at_mutex, at_response, waiting_for_response,
                 readerVars, wire, rx, modemVars, okSince>>

PromptWait(t) == Wait(t, "prompt_wait", "prompt_check")
ResultWait(t) == Wait(t, "result_wait", "result_release")
CmdWait(t)    == Wait(t, "cmd_wait", "cmd_release")

Release ==
  /\ waiting_for_response' = FALSE
  /\ at_mutex' = NoTask

(* Mutation: the early return does not give the mutex back.                *)
PromptMissingKeepsMutex(t) ==
  /\ pc[t] = "prompt_check"
  /\ ~Has("PROMPT")
  /\ waiting_for_response' = FALSE
  /\ Return(t, "FAIL")
  /\ UNCHANGED <<cur, got, calls, at_mutex, at_response_sem, at_response, readerVars,
                 wire, rx, modemVars, okSince>>

(* No '>' in at_response, whether the semaphore was taken or not: give up. *)
PromptMissing(t) ==
  /\ pc[t] = "prompt_check"
  /\ ~Has("PROMPT")
  /\ Release
  /\ Return(t, "FAIL")
  /\ UNCHANGED <<cur, got, calls, at_response_sem, at_response, readerVars, wire, rx,
                 modemVars, okSince>>

(* Mutation: at_response is not cleared between the prompt and the text.   *)
SendClearKeepsResponse(t) ==
  /\ pc[t] = "prompt_check"
  /\ Has("PROMPT")
  /\ Goto(t, "send_text")
  /\ UNCHANGED <<cur, got, calls, verdict, driverVars, readerVars, wire, rx, modemVars,
                 okSince>>

(* There is a prompt: clear at_response for the answer to the text ...     *)
SendClear(t) ==
  /\ pc[t] = "prompt_check"
  /\ Has("PROMPT")
  /\ at_response' = <<>>
  /\ Goto(t, "send_text")
  /\ UNCHANGED <<cur, got, calls, verdict, at_mutex, at_response_sem,
                 waiting_for_response, readerVars, wire, rx, modemVars, okSince>>

(* ... and write the text and Ctrl-Z.  The reader, whose priority is       *)
(* higher, can store a line between the two.                               *)
SendText(t) ==
  /\ pc[t] = "send_text"
  /\ Write(t, "text")
  /\ Goto(t, "result_wait")
  /\ UNCHANGED <<cur, got, calls, verdict, driverVars, readerVars, rx, modemVars, okSince>>

GiveBack(t, from, to) ==
  /\ pc[t] = from
  /\ Release
  /\ Goto(t, to)
  /\ UNCHANGED <<cur, got, calls, verdict, at_response_sem, at_response, readerVars,
                 wire, rx, modemVars, okSince>>

SendRelease(t) == GiveBack(t, "result_release", "send_verdict")
CmdRelease(t)  == GiveBack(t, "cmd_release", "cmd_verdict")

(* at_response is read here without the mutex.  "SENT" is the ESP_OK of    *)
(* a7670e_send_sms, "OK" that of at_cmd.                                   *)
SendVerdict(t) ==
  /\ pc[t] = "send_verdict"
  /\ Return(t, IF got[t] /\ Has("OK") THEN "SENT" ELSE "FAIL")
  /\ UNCHANGED <<cur, got, calls, driverVars, readerVars, wire, rx, modemVars, okSince>>

CmdVerdict(t) ==
  /\ pc[t] = "cmd_verdict"
  /\ Return(t, IF ~got[t] THEN "TIMEOUT"
               ELSE IF Has("ERROR") THEN "FAIL" ELSE "OK")
  /\ UNCHANGED <<cur, got, calls, driverVars, readerVars, wire, rx, modemVars, okSince>>

-----------------------------------------------------------------------------
(* uart_reader_task.                                                       *)

(* The reader looks at waiting_for_response, then stores the line, then    *)
(* gives the semaphore: a caller can act between any two of these.         *)
Capture(kind) ==
  IF waiting_for_response THEN reader' = [at |-> "store", line |-> kind]
                          ELSE UNCHANGED reader

(* '>' as the first character of a line is acted upon before the line is   *)
(* complete and does not reach the line logic.                             *)
ReadPrompt ==
  /\ reader.at = "read" /\ rx # <<>>
  /\ Head(rx).kind = "PROMPT"
  /\ rx' = Tail(rx)
  /\ Capture("PROMPT")
  /\ UNCHANGED <<callerVars, driverVars, prev_was_cmt, delivered, registered, wire,
                 modemVars, okSince>>

(* Mutation: prev_was_cmt is not cleared after the body.                   *)
ReadLineKeepsCmt ==
  /\ reader.at = "read" /\ rx # <<>>
  /\ Head(rx).kind # "PROMPT"
  /\ rx' = Tail(rx)
  /\ LET line == Head(rx) IN
       /\ \/ /\ prev_was_cmt # NoMsg
             /\ delivered' = Append(delivered, [from |-> prev_was_cmt, body |-> line])
             /\ UNCHANGED <<prev_was_cmt, registered>>
          \/ /\ prev_was_cmt = NoMsg
             /\ prev_was_cmt' = IF line.kind = "CMT" THEN line.msg ELSE NoMsg
             /\ UNCHANGED <<delivered, registered>>
       /\ Capture(line.kind)
  /\ UNCHANGED <<callerVars, driverVars, wire, modemVars, okSince>>

(* Mutation: while a command is waiting, a body is only captured.          *)
ReadLineBodyOrCapture ==
  /\ reader.at = "read" /\ rx # <<>>
  /\ Head(rx).kind # "PROMPT"
  /\ rx' = Tail(rx)
  /\ LET line == Head(rx) IN
       /\ delivered' = IF prev_was_cmt # NoMsg /\ ~waiting_for_response
                         THEN Append(delivered, [from |-> prev_was_cmt, body |-> line])
                         ELSE delivered
       /\ prev_was_cmt' = IF prev_was_cmt = NoMsg /\ line.kind = "CMT" THEN line.msg ELSE NoMsg
       /\ Capture(line.kind)
  /\ UNCHANGED <<callerVars, driverVars, registered, wire, modemVars, okSince>>

(* A complete line.  After a +CMT header it is the message body, whatever  *)
(* it says: parse_cmt calls on_sms_received.  Otherwise a +CMT line is     *)
(* remembered and a +CREG line updates the status.  In every case the line *)
(* is then captured.                                                       *)
ReadLine ==
  /\ reader.at = "read" /\ rx # <<>>
  /\ Head(rx).kind # "PROMPT"
  /\ rx' = Tail(rx)
  /\ LET line == Head(rx) IN
       /\ \/ /\ prev_was_cmt # NoMsg
             /\ delivered' = Append(delivered, [from |-> prev_was_cmt, body |-> line])
             /\ prev_was_cmt' = NoMsg
             /\ UNCHANGED registered
          \/ /\ prev_was_cmt = NoMsg
             /\ prev_was_cmt' = IF line.kind = "CMT" THEN line.msg ELSE NoMsg
             /\ registered' = IF line.kind \in {"CREG_ON", "CREG_OFF"}
                                THEN line.kind = "CREG_ON" ELSE registered
             /\ UNCHANGED delivered
       /\ Capture(line.kind)
  /\ UNCHANGED <<callerVars, driverVars, wire, modemVars, okSince>>

(* The calls that wait for the answer to their text, or are about to judge *)
(* it: at_response was cleared for that answer.                            *)
TextStates == {"send_text", "result_wait", "result_release", "send_verdict"}
Answering  == {cur[t] : t \in {u \in Senders : pc[u] \in TextStates}}

(* Mutation: every captured line is taken for the end of a response.       *)
ReaderStoreGivesAlways ==
  /\ reader.at = "store"
  /\ at_response' = IF reader.line = "PROMPT" THEN <<"PROMPT">>
                    ELSE IF Len(at_response) < MaxResponse THEN Append(at_response, reader.line)
                    ELSE at_response
  /\ reader' = [at |-> "give", line |-> "INFO"]
  /\ UNCHANGED <<callerVars, at_mutex, at_response_sem, waiting_for_response, prev_was_cmt,
                 delivered, registered, wire, rx, modemVars, okSince>>

(* A prompt overwrites at_response; any other line is appended if it fits. *)
(* Fitting or not, a line that ends a response makes the reader give next. *)
ReaderStore ==
  /\ reader.at = "store"
  /\ LET room == Len(at_response) < MaxResponse IN
       /\ at_response' = CASE reader.line = "PROMPT" -> <<"PROMPT">>
                            [] reader.line # "PROMPT" /\ room -> Append(at_response, reader.line)
                            [] OTHER -> at_response
       /\ okSince' = IF room /\ reader.line \in Containing["OK"]
                        THEN okSince \cup Answering ELSE okSince
  /\ reader' = [at |-> IF reader.line \in Terminators THEN "give" ELSE "read",
                 line |-> "INFO"]
  /\ UNCHANGED <<callerVars, at_mutex, at_response_sem, waiting_for_response,
                 prev_was_cmt, delivered, registered, wire, rx, modemVars>>

(* Mutation: a counting semaphore in place of a binary one.                *)
ReaderGiveCounts ==
  /\ reader.at = "give"
  /\ reader' = [at |-> "read", line |-> "INFO"]
  /\ at_response_sem' = at_response_sem + 1
  /\ UNCHANGED <<callerVars, at_mutex, at_response, waiting_for_response, prev_was_cmt,
                 delivered, registered, wire, rx, modemVars, okSince>>

(* xSemaphoreGive on a binary semaphore: a second token is lost.           *)
ReaderGive ==
  /\ reader.at = "give"
  /\ reader' = [at |-> "read", line |-> "INFO"]
  /\ at_response_sem' = 1
  /\ UNCHANGED <<callerVars, at_mutex, at_response, waiting_for_response, prev_was_cmt,
                 delivered, registered, wire, rx, modemVars, okSince>>

-----------------------------------------------------------------------------
(* The modem and the network, as the driver uses them.                     *)

Say(kinds) == rx' = rx \o [i \in DOMAIN kinds |-> [kind |-> kinds[i], msg |-> NoMsg]]

NextItem == wire[modem.taken + 1]

(* The modem reads the next thing written to it.                           *)
ModemReads(mode, da, typed) ==
  /\ modem.taken < Len(wire)
  /\ modem' = [taken |-> modem.taken + 1, mode |-> mode, da |-> da, typed |-> typed]
  /\ UNCHANGED <<callerVars, driverVars, readerVars, wire, arrived, urcs, okSince>>

(* A command that is not AT+CMGS is answered, refused or ignored.          *)
ModemCommand ==
  /\ modem.mode = "command"
  /\ ModemReads("command", 0, FALSE)
  /\ NextItem.kind = "cmd"
  /\ \E answer \in {<<"INFO", "OK">>, <<"ERROR">>, <<>>} : Say(answer)
  /\ UNCHANGED <<submitted, sms>>

(* AT+CMGS opens text mode with a prompt, or is refused or ignored.        *)
ModemOpensText ==
  /\ modem.mode = "command"
  /\ ModemReads("text", NextItem.call, FALSE)
  /\ NextItem.kind = "cmgs"
  /\ Say(<<"PROMPT">>)
  /\ UNCHANGED <<submitted, sms>>

ModemRefusesText ==
  /\ modem.mode = "command"
  /\ ModemReads("command", 0, FALSE)
  /\ NextItem.kind = "cmgs"
  /\ \E answer \in {<<"ERROR">>, <<>>} : Say(answer)
  /\ UNCHANGED <<submitted, sms>>

(* Text outside text mode is not a command.                                *)
ModemIgnoresText ==
  /\ modem.mode = "command"
  /\ ModemReads("command", 0, FALSE)
  /\ NextItem.kind = "text"
  /\ UNCHANGED <<rx, submitted, sms>>

(* In text mode a command line is typed into the message, and its carriage *)
(* return may bring another prompt.                                        *)
ModemTakesLine ==
  /\ modem.mode = "text"
  /\ ModemReads("text", modem.da, TRUE)
  /\ NextItem.kind \in {"cmd", "cmgs"}
  /\ \E answer \in {<<"PROMPT">>, <<>>} : Say(answer)
  /\ UNCHANGED <<submitted, sms>>

(* Ctrl-Z ends the message: it is sent to the number text mode was opened  *)
(* with, or refused by the network.                                        *)
ModemSubmits ==
  /\ modem.mode = "text"
  /\ ModemReads("command", 0, FALSE)
  /\ NextItem.kind = "text"
  /\ \/ /\ Say(<<"INFO", "OK">>)
        /\ submitted' = [submitted EXCEPT ![NextItem.call] = "accepted"]
        /\ sms' = sms \cup {[da |-> modem.da, text |-> NextItem.call, typed |-> modem.typed]}
     \/ /\ Say(<<"ERROR">>)
        /\ submitted' = [submitted EXCEPT ![NextItem.call] = "rejected"]
        /\ UNCHANGED sms

(* An inbound message: the +CMT header and the lines of its body.          *)
MessageArrives(m) ==
  /\ Len(arrived) + urcs < MaxUrcs
  /\ m \notin Range(arrived)
  /\ arrived' = Append(arrived, m)
  /\ rx' = rx \o <<[kind |-> "CMT", msg |-> m]>>
              \o [i \in DOMAIN BodyLines[m] |-> [kind |-> BodyLines[m][i], msg |-> m]]
  /\ UNCHANGED <<callerVars, driverVars, readerVars, wire, modem, submitted, sms, urcs,
                 okSince>>

RegistrationChanges(kind) ==
  /\ Len(arrived) + urcs < MaxUrcs
  /\ urcs' = urcs + 1
  /\ Say(<<kind>>)
  /\ UNCHANGED <<callerVars, driverVars, readerVars, wire, modem, submitted, sms,
                 arrived, okSince>>

-----------------------------------------------------------------------------
Sending(t) ==
  \/ SendBegin(t) \/ PromptWait(t) \/ PromptMissing(t) \/ SendClear(t) \/ SendText(t)
  \/ ResultWait(t) \/ SendRelease(t) \/ SendVerdict(t)

Commanding(t) == CmdBegin(t) \/ CmdWait(t) \/ CmdRelease(t) \/ CmdVerdict(t)

Reader == ReadPrompt \/ ReadLine \/ ReaderStore \/ ReaderGive

Modem ==
  \/ ModemCommand \/ ModemOpensText \/ ModemRefusesText \/ ModemIgnoresText
  \/ ModemTakesLine \/ ModemSubmits

Next ==
  \/ \E t \in Senders : SendCall(t) \/ Sending(t)
  \/ \E t \in Pollers : CmdCall(t) \/ Commanding(t)
  \/ Reader
  \/ Modem
  \/ \E m \in Inbound : MessageArrives(m)
  \/ \E kind \in {"CREG_ON", "CREG_OFF"} : RegistrationChanges(kind)

Spec == Init /\ [][Next]_vars

(* The scheduler runs every task that can run, a timeout expires, and a    *)
(* task queued for the mutex gets it when it keeps being given back.  The  *)
(* modem and the network promise nothing.                                  *)
Fairness ==
  /\ \A t \in Senders : WF_vars(Sending(t)) /\ SF_vars(SendBegin(t))
  /\ \A t \in Pollers : WF_vars(Commanding(t)) /\ SF_vars(CmdBegin(t))
  /\ WF_vars(Reader)

FairSpec == Spec /\ Fairness

-----------------------------------------------------------------------------
(* What holds of the driver whatever the modem, the network and the        *)
(* scheduler do.                                                           *)

SendStates == {"send_enter", "prompt_wait", "prompt_check"} \cup TextStates
CmdStates  == {"cmd_enter", "cmd_wait", "cmd_release", "cmd_verdict"}
Session    == {"prompt_wait", "prompt_check", "send_text", "result_wait",
               "result_release", "cmd_wait", "cmd_release"}
Verdicts   == {"none", "SENT", "OK", "FAIL", "TIMEOUT", "INVALID_STATE"}
Items      == [kind : {"cmd", "cmgs", "text"}, call : 0..MaxCalls]

(* Every variable has the values the code can give it; in particular the   *)
(* binary semaphore never holds two tokens.                                *)
TypeOK ==
  /\ pc \in [Tasks -> {"idle"} \cup SendStates \cup CmdStates]
  /\ cur \in [Tasks -> 0..MaxCalls]
  /\ got \in [Tasks -> BOOLEAN]
  /\ calls \in 0..MaxCalls
  /\ verdict \in [Calls -> Verdicts]
  /\ at_mutex \in Tasks \cup {NoTask}
  /\ at_response_sem \in {0, 1}
  /\ at_response \in Seq(LineKinds)
  /\ waiting_for_response \in BOOLEAN
  /\ registered \in BOOLEAN
  /\ reader \in [at : {"read", "store", "give"}, line : LineKinds]
  /\ prev_was_cmt \in Inbound \cup {NoMsg}
  /\ delivered \in Seq([from : Inbound, body : Lines])
  /\ wire \in Seq(Items)
  /\ rx \in Seq(Lines)
  /\ modem \in [taken : Nat, mode : {"command", "text"}, da : 0..MaxCalls, typed : BOOLEAN]
  /\ submitted \in [Calls -> {"none", "accepted", "rejected"}]
  /\ sms \subseteq [da : 0..MaxCalls, text : 0..MaxCalls, typed : BOOLEAN]
  /\ arrived \in Seq(Inbound)
  /\ urcs \in 0..MaxUrcs
  /\ okSince \subseteq 0..MaxCalls

(* The mutex is held exactly by the task that is between sending a command *)
(* and being done with its answer, and a command is marked as waiting      *)
(* exactly while the mutex is held: no path out of a7670e_send_sms or      *)
(* at_cmd, early returns and timeouts included, leaves either behind.      *)
SessionDiscipline ==
  /\ \A t \in Tasks : pc[t] \in Session <=> at_mutex = t
  /\ waiting_for_response <=> at_mutex # NoTask

(* A text is always written right behind the AT+CMGS of its own call: no   *)
(* other command of any task comes between them on the UART.               *)
WireSerialised ==
  \A i \in DOMAIN wire : wire[i].kind = "text" =>
    /\ i > 1
    /\ wire[i - 1] = [kind |-> "cmgs", call |-> wire[i].call]

(* a7670e_send_sms reports success only if a line with an OK in it was     *)
(* stored after that very call had found its prompt and cleared            *)
(* at_response for the answer to its text: an OK stored before that, with  *)
(* the prompt or for another command, never counts, though at_response is  *)
(* read after the mutex was given back.  It need not be the answer to the  *)
(* text: an OK that is late, and stored after at_response was cleared,     *)
(* counts, even when the text has not been written yet.                    *)
SuccessNeedsFreshOk ==
  \A c \in Calls : verdict[c] = "SENT" => c \in okSince

(* Every call of a7670e_send_sms and at_cmd returns, though the modem may  *)
(* answer nothing: every wait for an answer is bounded.                    *)
CallsReturn == \A t \in Tasks : pc[t] # "idle" ~> pc[t] = "idle"

(* The abstract serial line.                                               *)
TextComes == {"prompt_wait", "prompt_check", "send_text"}

LinkStage ==
  IF at_mutex = NoTask THEN "free"
  ELSE IF pc[at_mutex] \in TextComes THEN "prompt" ELSE "answer"

Link == INSTANCE SerialLink WITH owner <- at_mutex, stage <- LinkStage

(* The driver implements the serial line that SerialLink describes: one    *)
(* owner at a time, who writes one command, or one AT+CMGS and at most one *)
(* text, and always gives the line back.                                   *)
ImplementsLink == Link!FairSpec

-----------------------------------------------------------------------------
(* Inbound messages.  The code takes the first line of a body for all of   *)
(* it, and reads the others as it reads the modem's own lines.             *)

(* The message is handed over as it should be, and leaves the reader as it *)
(* found it: its first line exists and has no ">" in front, and no line    *)
(* behind it begins with +CMT:.                                            *)
Plain(m) ==
  /\ BodyLines[m] # <<>>
  /\ BodyLines[m][1] # "PROMPT"
  /\ \A i \in 2..Len(BodyLines[m]) : BodyLines[m][i] # "CMT"

PlainUpTo(i) == \A j \in DOMAIN arrived : j <= i => Plain(arrived[j])

(* Whatever commands are being executed meanwhile, and wherever their      *)
(* answers fall among the lines, the application is told of the messages   *)
(* once, in the order of their arrival, each with the first line of its    *)
(* own body, up to the first message that is not plain.  From that one on  *)
(* there is no such promise: a second line that begins with +CMT: makes    *)
(* the reader take the next message's header for a body.                   *)
InboundFaithful ==
  \A i \in DOMAIN delivered : PlainUpTo(i) =>
    /\ i \in DOMAIN arrived
    /\ delivered[i] = [from |-> arrived[i],
                       body |-> [kind |-> BodyLines[arrived[i]][1], msg |-> arrived[i]]]

(* And it is told of each of these messages in the end.                    *)
InboundDelivered ==
  \A m \in Inbound :
    (\E i \in DOMAIN arrived : arrived[i] = m /\ PlainUpTo(i))
      ~> (\E d \in Range(delivered) : d.from = m)

-----------------------------------------------------------------------------
(* What holds when no line of a body ends a response and the modem answers *)
(* before the timeouts.                                                    *)

(* A token in the semaphore answers the command that is being executed.    *)
NoStaleToken == at_response_sem = 1 => at_mutex # NoTask

(* What is put on the air is the text of the call whose recipient it goes  *)
(* to, with nothing else typed into it.                                    *)
NoCrossedSms == \A m \in sms : m.da = m.text /\ ~m.typed

-----------------------------------------------------------------------------
(* What the source says of itself and a run refutes.                       *)

(* "Serialise AT commands" (a7670e.c:27): the answer a caller judges is    *)
(* the answer to its own command, so a message that the network took is    *)
(* not reported as failed.                                                 *)
OwnAnswerJudged ==
  \A c \in Calls : submitted[c] = "accepted" /\ verdict[c] # "none" => verdict[c] = "SENT"

=============================================================================
