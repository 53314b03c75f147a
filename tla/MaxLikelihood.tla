--------------------------- MODULE MaxLikelihood ---------------------------
(***************************************************************************)
(* What a decoder of the code promises: in one step, and once, it answers  *)
(* with inputs whose code word is as close to the received bits as that of *)
(* any other inputs of the same length.                                    *)
(***************************************************************************)
EXTENDS Sequences

CONSTANTS Bit,
          Closest(_)    \* the closest inputs, defined with the code

VARIABLES received, answered, inputs

vars == <<received, answered, inputs>>

Init == received \in Seq(Bit) /\ answered = FALSE /\ inputs = <<>>

Answer ==
    /\ ~answered
    /\ answered' = TRUE
    /\ inputs' \in Closest(received)
    /\ UNCHANGED received

Safety == Init /\ [][Answer]_vars
Spec   == Safety /\ WF_vars(Answer)
=============================================================================
