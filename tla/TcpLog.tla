------------------------------- MODULE TcpLog -------------------------------
(***************************************************************************)
(* The log stream (components/tcp_log/tcp_log.c).  Every task that logs    *)
(* runs tcp_log_vprintf: it pushes the line into a ring of the last lines  *)
(* and sends it to the monitor.  tcp_log_task accepts one monitor at a     *)
(* time, replays the ring, makes its socket s_client_sock and waits for it *)
(* to leave.  The ring has a mutex that a line waits 10 ms for;            *)
(* s_client_sock has none, and every use of it reads it anew.              *)
(***************************************************************************)
EXTENDS Integers, Sequences, Functions

CONSTANTS
  Loggers,    \* tasks that log
  NoTask,     \* s_ring_mutex when nobody holds it
  LogTask,    \* tcp_log_task
  RingLines,  \* RING_BUF_LINES, 200
  Fds,        \* descriptors accept may return
  MaxLines,   \* bound: lines logged
  MaxMonitors \* bound: monitors that connect

ASSUME TaskAssumption == NoTask \notin Loggers /\ LogTask \notin Loggers \cup {NoTask}
ASSUME SizeAssumption == RingLines \in Nat \ {0} /\ Fds \subseteq Nat /\ MaxMonitors \in Nat

None == -1
Line(t, n) == [by |-> t, n |-> n]
Lines == [by : Loggers, n : Nat]

VARIABLES
  s_ring, s_ring_head, s_ring_count, s_ring_mutex, s_client_sock,
  history,  \* every line ever pushed
  pc,       \* where each logging task is
  fd,       \* the descriptor it has read
  logged,   \* number of lines it has logged
  task,     \* where tcp_log_task is, its client, and the line it replays next
  user,     \* the monitor that is connected on a descriptor, 0 if none
  monitors, \* number of monitors that have connected: a monitor's name
  first,    \* the first of them on each descriptor
  stream    \* what each was sent: the replayed lines and the live ones

ringVars == <<s_ring, s_ring_head, s_ring_count, history>>
logVars == <<pc, fd, logged>>
sockVars == <<s_client_sock, user, monitors, first>>
vars == <<ringVars, s_ring_mutex, logVars, task, sockVars, stream>>

Accepting == [at |-> "accept", client |-> None, i |-> 0]

Init ==
  /\ s_ring \in [0..(RingLines - 1) -> {<<>>}]
  /\ s_ring_head = 0 /\ s_ring_count = 0 /\ s_ring_mutex = NoTask
  /\ history = <<>>
  /\ pc = [t \in Loggers |-> "idle"]
  /\ fd = [t \in Loggers |-> None]
  /\ logged = [t \in Loggers |-> 0]
  /\ task = Accepting
  /\ s_client_sock = None
  /\ user = [f \in Fds |-> 0]
  /\ monitors = 0 /\ first = [f \in Fds |-> 0]
  /\ stream = [m \in 1..MaxMonitors |-> [replayed |-> <<>>, live |-> <<>>]]

-----------------------------------------------------------------------------
(* tcp_log_vprintf                                                         *)

Goto(t, from, to) == pc[t] = from /\ pc' = [pc EXCEPT ![t] = to]

Log(t) ==
  /\ Goto(t, "idle", "push")
  /\ FoldFunction(+, 0, logged) < MaxLines
  /\ logged' = [logged EXCEPT ![t] = @ + 1]
  /\ UNCHANGED <<ringVars, s_ring_mutex, fd, task, sockVars, stream>>

PushTakes(t) ==
  /\ Goto(t, "push", "write")
  /\ s_ring_mutex = NoTask /\ s_ring_mutex' = t
  /\ UNCHANGED <<ringVars, fd, logged, task, sockVars, stream>>

(* Mutation: portMAX_DELAY.                                                *)
PushTimesOutNever(t) == FALSE /\ UNCHANGED vars

(* Mutation: the line is written all the same.                             *)
PushTimesOutAndWrites(t) ==
  /\ Goto(t, "push", "write")
  /\ s_ring_mutex # NoTask
  /\ UNCHANGED <<ringVars, s_ring_mutex, fd, logged, task, sockVars, stream>>

(* After 10 ms the line is left out of the ring.                           *)
PushTimesOut(t) ==
  /\ Goto(t, "push", "look")
  /\ s_ring_mutex # NoTask
  /\ UNCHANGED <<ringVars, s_ring_mutex, fd, logged, task, sockVars, stream>>

(* Mutation: the count goes on when the ring is full.                      *)
PushWritesPastEnd(t) ==
  /\ Goto(t, "write", "look")
  /\ s_ring' = [s_ring EXCEPT ![s_ring_head] = Line(t, logged[t])]
  /\ s_ring_head' = IF s_ring_head < RingLines - 1 THEN s_ring_head + 1 ELSE s_ring_head
  /\ s_ring_count' = IF s_ring_count < RingLines THEN s_ring_count + 1 ELSE s_ring_count
  /\ history' = Append(history, Line(t, logged[t]))
  /\ s_ring_mutex' = NoTask
  /\ UNCHANGED <<fd, logged, task, sockVars, stream>>

PushWrites(t) ==
  /\ Goto(t, "write", "look")
  /\ s_ring' = [s_ring EXCEPT ![s_ring_head] = Line(t, logged[t])]
  /\ s_ring_head' = (s_ring_head + 1) % RingLines
  /\ s_ring_count' = IF s_ring_count < RingLines THEN s_ring_count + 1 ELSE s_ring_count
  /\ history' = Append(history, Line(t, logged[t]))
  /\ s_ring_mutex' = NoTask
  /\ UNCHANGED <<fd, logged, task, sockVars, stream>>

(* Is there a monitor?                                                     *)
Look(t) ==
  /\ Goto(t, "look", IF s_client_sock # None THEN "load" ELSE "idle")
  /\ UNCHANGED <<ringVars, s_ring_mutex, fd, logged, task, sockVars, stream>>

(* The descriptor is read for send, and later again for close.             *)
Load(t, from, to) ==
  /\ Goto(t, from, to)
  /\ fd' = [fd EXCEPT ![t] = s_client_sock]
  /\ UNCHANGED <<ringVars, s_ring_mutex, logged, task, sockVars, stream>>

Forget(t) == fd' = [fd EXCEPT ![t] = None]

UserOf(f) == IF f = None THEN 0 ELSE user[f]

SendReaches(t) ==
  /\ Goto(t, "send", "idle")
  /\ UserOf(fd[t]) # 0
  /\ stream' = [stream EXCEPT ![UserOf(fd[t])].live = Append(@, Line(t, logged[t]))]
  /\ Forget(t)
  /\ UNCHANGED <<ringVars, s_ring_mutex, logged, task, sockVars>>

(* Mutation: a line that cannot be sent is left out.                       *)
SendSkips(t) ==
  /\ Goto(t, "send", "idle")
  /\ Forget(t)
  /\ UNCHANGED <<ringVars, s_ring_mutex, logged, task, sockVars, stream>>

(* The monitor has gone, or there is no room (MSG_DONTWAIT).               *)
SendFails(t) ==
  /\ Goto(t, "send", "reload")
  /\ Forget(t)
  /\ UNCHANGED <<ringVars, s_ring_mutex, logged, task, sockVars, stream>>

Shut(f) == user' = [g \in Fds |-> IF g = f THEN 0 ELSE user[g]]

HookCloses(t) ==
  /\ Goto(t, "close", "clear")
  /\ Shut(fd[t]) /\ Forget(t)
  /\ UNCHANGED <<ringVars, s_ring_mutex, logged, task, s_client_sock, monitors, first, stream>>

HookClears(t) ==
  /\ Goto(t, "clear", "idle")
  /\ s_client_sock' = None
  /\ UNCHANGED <<ringVars, s_ring_mutex, fd, logged, task, user, monitors, first, stream>>

Vprintf(t) ==
  \/ PushTakes(t) \/ PushTimesOut(t) \/ PushWrites(t) \/ Look(t)
  \/ Load(t, "load", "send") \/ SendReaches(t) \/ SendFails(t)
  \/ Load(t, "reload", "close") \/ HookCloses(t) \/ HookClears(t)

-----------------------------------------------------------------------------
(* tcp_log_task                                                            *)

TaskGoes(from, to) == task.at = from /\ task' = [task EXCEPT !.at = to]

Accepts(f) ==
  /\ task.at = "accept" /\ user[f] = 0
  /\ monitors < MaxMonitors /\ monitors' = monitors + 1
  /\ task' = [at |-> "replay", client |-> f, i |-> 0]
  /\ user' = [user EXCEPT ![f] = monitors + 1]
  /\ first' = IF first[f] = 0 THEN [first EXCEPT ![f] = monitors + 1] ELSE first
  /\ UNCHANGED <<ringVars, s_ring_mutex, logVars, s_client_sock, stream>>

(* ring_replay; after 100 ms it goes without the mutex, and sends nothing. *)
ReplayTakes ==
  /\ TaskGoes("replay", "send")
  /\ s_ring_mutex = NoTask /\ s_ring_mutex' = LogTask
  /\ UNCHANGED <<ringVars, logVars, sockVars, stream>>

ReplayTimesOut ==
  /\ TaskGoes("replay", "set")
  /\ s_ring_mutex # NoTask
  /\ UNCHANGED <<ringVars, s_ring_mutex, logVars, sockVars, stream>>

Start == IF s_ring_count < RingLines THEN 0 ELSE s_ring_head
Replayed(i) == s_ring[(Start + i) % RingLines]

(* send waits as long as the monitor takes nothing, and may fail.          *)
ReplaySends ==
  /\ task.at = "send" /\ task.i < s_ring_count
  /\ task' = [task EXCEPT !.i = @ + 1]
  /\ stream' = IF user[task.client] = 0 THEN stream
               ELSE [stream EXCEPT ![user[task.client]].replayed = Append(@, Replayed(task.i))]
  /\ UNCHANGED <<ringVars, s_ring_mutex, logVars, sockVars>>

ReplayGives ==
  /\ task.at = "send" /\ task.i = s_ring_count
  /\ task' = [task EXCEPT !.at = "set", !.i = 0]
  /\ s_ring_mutex' = NoTask
  /\ UNCHANGED <<ringVars, logVars, sockVars, stream>>

Sets ==
  /\ TaskGoes("set", "recv")
  /\ s_client_sock' = task.client
  /\ UNCHANGED <<ringVars, s_ring_mutex, logVars, user, monitors, first, stream>>

(* recv returns: the monitor has left, or the hook has closed the socket.  *)
RecvEnds ==
  /\ TaskGoes("recv", "clear")
  /\ UNCHANGED <<ringVars, s_ring_mutex, logVars, sockVars, stream>>

Clears ==
  /\ TaskGoes("clear", "close")
  /\ s_client_sock' = None
  /\ UNCHANGED <<ringVars, s_ring_mutex, logVars, user, monitors, first, stream>>

Closes ==
  /\ task.at = "close" /\ task' = Accepting
  /\ Shut(task.client)
  /\ UNCHANGED <<ringVars, s_ring_mutex, logVars, s_client_sock, monitors, first, stream>>

LogTaskStep ==
  \/ \E f \in Fds : Accepts(f)
  \/ ReplayTakes \/ ReplayTimesOut \/ ReplaySends \/ ReplayGives
  \/ Sets \/ RecvEnds \/ Clears \/ Closes

Next == (\E t \in Loggers : Log(t) \/ Vprintf(t)) \/ LogTaskStep

Spec == Init /\ [][Next]_vars

(* A task that logs runs; nothing is asked of tcp_log_task, which waits as *)
(* long as the monitor takes nothing.                                      *)
FairSpec == Spec /\ \A t \in Loggers : WF_vars(Vprintf(t))

-----------------------------------------------------------------------------
(* Every variable has the values the code can give it; the mutex is with   *)
(* the task that is inside.                                                *)
TypeOK ==
  /\ s_ring \in [0..(RingLines - 1) -> Lines \cup {<<>>}]
  /\ s_ring_head \in 0..(RingLines - 1) /\ s_ring_count \in 0..RingLines
  /\ history \in Seq(Lines)
  /\ pc \in [Loggers -> {"idle", "push", "write", "look", "load", "send", "reload", "close", "clear"}]
  /\ fd \in [Loggers -> Fds \cup {None}] /\ logged \in [Loggers -> Nat]
  /\ task \in [at : {"accept", "replay", "send", "set", "recv", "clear", "close"},
               client : Fds \cup {None}, i : 0..RingLines]
  /\ \A t \in Loggers : s_ring_mutex = t <=> pc[t] = "write"
  /\ s_ring_mutex = LogTask <=> task.at = "send"
  /\ s_ring_mutex \in Loggers \cup {LogTask, NoTask}
  /\ s_client_sock \in Fds \cup {None}
  /\ monitors \in 0..MaxMonitors
  /\ user \in [Fds -> 0..monitors] /\ first \in [Fds -> 0..monitors]
  /\ stream \in [1..MaxMonitors -> [replayed : Seq(Lines), live : Seq(Lines)]]

(* What a replay would send is the last RING_BUF_LINES lines that were     *)
(* pushed, or all of them, oldest first, wherever the ring stands.         *)
RingIsHistory ==
  /\ s_ring_count = IF Len(history) < RingLines THEN Len(history) ELSE RingLines
  /\ \A i \in 0..(s_ring_count - 1) : Replayed(i) = history[Len(history) - s_ring_count + i + 1]

Infix(s, t) == \E k \in 0..(Len(t) - Len(s)) : \A i \in DOMAIN s : s[i] = t[k + i]

(* Every replay is a run of lines that were pushed one after the other:    *)
(* no line that is pushed meanwhile gets into it, none is left out.        *)
ReplayIsRun == \A m \in 1..monitors : Infix(stream[m].replayed, history)

(* A monitor on a descriptor that none had before it hears what one task   *)
(* logs in order, without a gap from the first line on, and nothing of it  *)
(* that is older than what was replayed; the last line of each task may    *)
(* come twice, once replayed and once live.                                *)
StreamInOrder ==
  \A f \in Fds : first[f] # 0 =>
    LET live == stream[first[f]].live
        replayed == stream[first[f]].replayed IN
    /\ \A i, j \in DOMAIN live :
         /\ i < j /\ live[i].by = live[j].by
         /\ \A k \in (i + 1)..(j - 1) : live[k].by # live[j].by
         => live[j].n = live[i].n + 1
    /\ \A i \in DOMAIN replayed, j \in DOMAIN live :
         replayed[i].by = live[j].by => replayed[i].n <= live[j].n

(* Logging never stops a task for good, although the ring's mutex is held  *)
(* while a monitor that reads nothing is sent the history.                 *)
LoggingReturns == \A t \in Loggers : pc[t] # "idle" ~> pc[t] = "idle"

=============================================================================
