--------------------------- MODULE MCStepComplete ---------------------------
(* StepComplete for a small tree. *)
EXTENDS StepComplete

\* The worst last exit status at a leaf, and a worse one that is not the last.
Tasks == [r \in Rank |-> IF r = 2 THEN <<0, 512>> ELSE IF r = 1 THEN <<1024, 256>> ELSE <<0>>]
=============================================================================
