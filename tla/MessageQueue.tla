---------------------------- MODULE MessageQueue ----------------------------
(***************************************************************************)
(* What the webhook promises for the messages it has accepted: they leave  *)
(* in the order they came, each of them once, from the front: posted,      *)
(* given up because the one request made for it failed, or withheld.  Only *)
(* a restart takes them all at once, and never are more of them under way  *)
(* than there is room for.  Webhook implements this specification.         *)
(***************************************************************************)
EXTENDS Naturals, Sequences

CONSTANTS
  Numbers,  \* the numbers of the messages, given as they come
  Room      \* messages that can be under way

VARIABLES
  accepted,    \* every message ever accepted, by number
  backlog,     \* those under way, oldest first
  posted,      \* those posted, in that order
  undelivered  \* those whose request failed

vars == <<accepted, backlog, posted, undelivered>>

Init == accepted = {} /\ backlog = <<>> /\ posted = <<>> /\ undelivered = {}

(* A message is newer than all before it.                                  *)
Accept(m) ==
  /\ \A a \in accepted : a < m
  /\ Len(backlog) < Room
  /\ accepted' = accepted \cup {m}
  /\ backlog' = Append(backlog, m)
  /\ UNCHANGED <<posted, undelivered>>

Post ==
  /\ backlog # <<>>
  /\ posted' = Append(posted, Head(backlog))
  /\ backlog' = Tail(backlog)
  /\ UNCHANGED <<accepted, undelivered>>

(* The request for the oldest message fails, and nobody makes another.     *)
GiveUp ==
  /\ backlog # <<>>
  /\ undelivered' = undelivered \cup {Head(backlog)}
  /\ backlog' = Tail(backlog)
  /\ UNCHANGED <<accepted, posted>>

(* The configuration forbids the oldest message.                           *)
Withhold ==
  /\ backlog # <<>>
  /\ backlog' = Tail(backlog)
  /\ UNCHANGED <<accepted, posted, undelivered>>

Restart == backlog' = <<>> /\ UNCHANGED <<accepted, posted, undelivered>>

Next == (\E m \in Numbers : Accept(m)) \/ Post \/ GiveUp \/ Withhold \/ Restart

Spec == Init /\ [][Next]_vars

=============================================================================
