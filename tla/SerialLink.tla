----------------------------- MODULE SerialLink -----------------------------
(***************************************************************************)
(* What the modem driver promises of the serial line: it belongs to one    *)
(* task at a time, and what a task writes while it owns the line is either *)
(* one command, or one AT+CMGS with at most one text right behind it.      *)
(* AtChannel implements this specification.                                *)
(***************************************************************************)
EXTENDS Naturals, Sequences

CONSTANTS
  Tasks,   \* the tasks that talk to the modem
  NoTask,  \* owner of a free line
  Calls    \* names of the calls

VARIABLES
  owner,   \* the task that owns the line
  stage,   \* "free", "prompt": a text may follow, "answer": nothing may
  wire     \* what has been written, in order

vars == <<owner, stage, wire>>

Init == owner = NoTask /\ stage = "free" /\ wire = <<>>

(* A task takes the free line and writes the command of a call.            *)
Open(t, c) ==
  /\ owner = NoTask
  /\ owner' = t
  /\ \/ wire' = Append(wire, [kind |-> "cmd", call |-> c]) /\ stage' = "answer"
     \/ wire' = Append(wire, [kind |-> "cmgs", call |-> c]) /\ stage' = "prompt"

(* The owner writes the text that goes with its AT+CMGS.                   *)
Text(t) ==
  /\ owner = t
  /\ stage = "prompt"
  /\ wire' = Append(wire, [kind |-> "text", call |-> wire[Len(wire)].call])
  /\ stage' = "answer"
  /\ UNCHANGED owner

(* The owner gives the line back, at any stage.                            *)
Close(t) ==
  /\ owner = t
  /\ owner' = NoTask
  /\ stage' = "free"
  /\ UNCHANGED wire

Next == \E t \in Tasks : (\E c \in Calls : Open(t, c)) \/ Text(t) \/ Close(t)

Spec == Init /\ [][Next]_vars

(* Whoever takes the line gives it back.                                   *)
FairSpec == Spec /\ \A t \in Tasks : WF_vars(Close(t))

=============================================================================
