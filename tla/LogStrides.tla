------------------------------ MODULE LogStrides ------------------------------
(***************************************************************************)
(* The class LogStride of trace2ll.py: a stride of a memory trace, in      *)
(* bytes, with what a linked list makes of it: its length in list entries  *)
(* of eight bytes and its magnitude, the integer logarithm of that length. *)
(***************************************************************************)
EXTENDS Integers

List_Entry_Size_B == 8

Abs(x) == IF x < 0 THEN -x ELSE x

Larger(x, y) == IF x < y THEN y ELSE x
Smaller(x, y) == IF x < y THEN x ELSE y

\* 1 << n
Pow2[n \in Nat] == IF n = 0 THEN 1 ELSE 2 * Pow2[n - 1]

\* The integer logarithm to base two of a positive length.
Log2(v) == CHOOSE m \in 0 .. v : Pow2[m] <= v /\ v < Pow2[m + 1]

\* Division rounds down, so that -1 is of length -1 and yet infinitesimal.
LogStride(stride) ==
  LET length == stride \div List_Entry_Size_B
      tiny == Abs(stride) < List_Entry_Size_B
  IN  [is_infinitesimal |-> tiny,
       is_negative      |-> ~ tiny /\ stride < 0,
       magnitude        |-> IF tiny THEN 0 ELSE Log2(Abs(length)),
       linear_value     |-> length,
       \* in eighths of an entry: what rounding has added to the stride
       linear_fractional_err |-> List_Entry_Size_B * length - stride]

\* What a dictionary keyed by strides tells apart (__hash__); __eq__ alone takes
\* *0 for +0.
Key(s) == <<s.is_infinitesimal, s.is_negative, s.magnitude>>

\* abs() of a key.
AbsKey(k) == <<k[1], FALSE, k[3]>>

\* __lt__ on keys: from the largest negative to the largest positive stride.
KeyBelow(k, l) ==
  \/ k[2] /\ ~ l[2]
  \/ k[2] = l[2] /\ IF k[1] THEN ~ l[1] ELSE IF k[2] THEN k[3] > l[3] ELSE k[3] < l[3]
================================================================================
