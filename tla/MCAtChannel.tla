---------------------------- MODULE MCAtChannel ----------------------------
(* Instances of AtChannel for TLC: what the bodies of the inbound messages *)
(* look like.                                                              *)
EXTENDS AtChannel

CONSTANT Spoilt  \* the messages with a second line that begins with +CMT:

(* A body of two lines; while a command waits, the first is taken for a    *)
(* prompt and the second for the end of the response.                      *)
TrickyBodies == [m \in Inbound |-> <<"SAYS_PROMPT", "OK">>]

(* Bodies of which no line ends a response, though one is taken for a      *)
(* change of registration and one for a header.                            *)
SpeakingBodies ==
  [m \in Inbound |-> IF m \in Spoilt THEN <<"SAYS_OK", "CMT">>
                                     ELSE <<"SAYS_PROMPT", "CREG_OFF">>]

=============================================================================
