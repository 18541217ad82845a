------------------------------ MODULE MCParallel ------------------------------
(***************************************************************************)
(* Three calls on two processes.  The first may fail; it has a result that *)
(* does not fit in the queue at once, and more output than fits in its     *)
(* pipe, as the second has.  The third has a large result too, has written *)
(* half of a line when its function returns, and leaves more in its buffer *)
(* than fits in its pipe.  Lines take one chunk or two.  So both waits of  *)
(* EndsOrWaits occur, each in all its forms.                               *)
(***************************************************************************)
EXTENDS ParallelCalls

OutMany == <<3, 3, 4>>
EarlySome == <<2, 3, 1>>
LongLines == <<{2, 3}, {2, 3}, {2, 4}>>
TwoLarge == <<4, 2, 4>>
================================================================================
