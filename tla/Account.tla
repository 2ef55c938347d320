------------------------------ MODULE Account ------------------------------
(***************************************************************************)
(* What the withdrawal module promises: a seller's settled earnings are an *)
(* account from which a withdrawal takes money only while enough is left,  *)
(* and to which nothing but a rejection returns any.                       *)
(***************************************************************************)
EXTENDS Integers

VARIABLES settled, taken     \* cents earned and cents spoken for

Init == settled = 0 /\ taken = 0

Earn == settled' > settled /\ UNCHANGED taken
Take == taken' > taken /\ taken' <= settled /\ UNCHANGED settled
Return == taken' \in 0 .. taken - 1 /\ UNCHANGED settled

Next == Earn \/ Take \/ Return
Spec == Init /\ [][Next]_<<settled, taken>>
=============================================================================
