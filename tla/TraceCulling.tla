----------------------------- MODULE TraceCulling -----------------------------
(***************************************************************************)
(* Trace.cull of trace2ll.py: which strides of a trace become array        *)
(* accesses and leave the trace, and how the others are stretched so that  *)
(* the trace still spans the memory it did.  Strides are culled from the   *)
(* smallest up, signs apart, each size spread evenly over the trace.       *)
(***************************************************************************)
EXTENDS LogStrides, SequencesExt

CONSTANTS
  Inputs,      \* the traces and their parameters: strides in bytes, store_ratio and
               \* min_array_access_ratio in percent, min_list_stride, prune_bad_lists
  NoMinimum    \* min_list_stride is None

ASSUME InputsAssumption ==
  \A p \in Inputs :
    /\ p.strides \in Seq(Int)
    /\ p.store_ratio \in Nat /\ p.min_array_access_ratio \in Nat
    /\ p.min_list_stride \in Nat \cup {NoMinimum} /\ p.prune_bad_lists \in BOOLEAN

VARIABLES
  original,        \* history: the trace as it was given
  parameters,      \* what else was given
  log_strides,
  culled_strides,  \* how many strides of each length were culled, over all culls
  stride_delta,    \* how far the kept strides lead the original's, in eighths
  round,           \* of the cull that is on, or was last: see BeginCull
  phase            \* of the trace: raw, culling, culled, or how cull() ended

cull_vars == <<original, parameters, log_strides, culled_strides, stride_delta, round, phase>>

Keys(strides) == {AbsKey(Key(strides[i])) : i \in DOMAIN strides}
abs_counts(strides) ==
  [k \in Keys(strides) |-> Cardinality({i \in DOMAIN strides : AbsKey(Key(strides[i])) = k})]

Total(f, S) == SumFunctionOnSet(f, S)

\* int(n * ratio + 0.5), the ratio being num / den.
Rounded(n, num, den) == (2 * n * num + den) \div (2 * den)

\* Strides too small for the linked list.
array_small_accesses(strides, minimum) ==
  IF minimum = NoMinimum THEN 0
  ELSE LET counts == abs_counts(strides)
       IN  Total(counts, {k \in DOMAIN counts : k[1] \/ k[3] < minimum})

\* How many strides the parameters ask to cull.
array_total_accesses(strides, p) ==
  LET n == Len(strides)
  IN  Larger(Larger(Rounded(n, p.min_array_access_ratio, 100),
                    array_small_accesses(strides, p.min_list_stride)),
             Rounded(n, p.store_ratio, 100))

\* The whole of each size from the smallest up, until the total is reached.
abs_stride_cull_targets(strides, total) ==
  LET counts == abs_counts(strides)
      Before(k) == Total(counts, {l \in DOMAIN counts : KeyBelow(l, k)})
  IN  [k \in {l \in DOMAIN counts : Before(l) < total} |-> Smaller(counts[k], total - Before(k))]

NoRound == [next |-> 1, kept |-> << >>, counts |-> << >>, targets |-> << >>,
            encountered |-> << >>, culled |-> << >>]

Init ==
  /\ parameters \in Inputs
  /\ original = parameters.strides
  /\ log_strides = [i \in DOMAIN original |-> LogStride(original[i])]
  /\ culled_strides = << >>
  /\ stride_delta = 0
  /\ round = NoRound
  /\ phase = "raw"

\* cull() begins: what each size has, and what it must lose.
BeginCull(total) ==
  LET targets == abs_stride_cull_targets(log_strides, total)
      none == [k \in DOMAIN targets |-> 0]
  IN  /\ round' = [next |-> 1, kept |-> << >>, counts |-> abs_counts(log_strides),
                   targets |-> targets, encountered |-> none, culled |-> none]
      /\ phase' = "culling"
      /\ UNCHANGED <<original, parameters, log_strides, culled_strides, stride_delta>>

CullByParameters ==
  /\ phase = "raw" /\ log_strides # << >>
  /\ BeginCull(array_total_accesses(log_strides, parameters))

Here == log_strides[round.next]
HereKey == AbsKey(Key(Here))

\* Mutant: what should be gone before this stride.
target_culled_count_late ==
  Rounded(round.encountered[HereKey], round.targets[HereKey], round.counts[HereKey])

\* What of this size should be gone by now, this stride included.
target_culled_count ==
  Rounded(round.encountered[HereKey] + 1, round.targets[HereKey], round.counts[HereKey])

Keeps ==
  HereKey \in DOMAIN round.targets => round.culled[HereKey] >= target_culled_count

\* int() of eighths rounds toward zero.
Truncated(eighths) == IF eighths < 0 THEN -((-eighths) \div 8) ELSE eighths \div 8

\* The stride that makes up for most of the lead, a fifth off at most and still
\* of its magnitude.
NewStride(s, delta) ==
  LET size == Abs(s.linear_value)
      least == Larger(Pow2[s.magnitude], (10 * size) \div 12)
      most == Smaller(Pow2[s.magnitude + 1] - 1, (12 * size) \div 10)
      target == s.linear_value - Truncated(delta)
  IN  IF s.is_negative THEN Smaller(Larger(-most, target), -least)
      ELSE Smaller(Larger(least, target), most)

\* The round after this stride, which is in none of the targets or counted in one.
Counted(kept, more) ==
  LET Bump(f, by) == IF HereKey \in DOMAIN f THEN [f EXCEPT ![HereKey] = @ + by] ELSE f
  IN  [round EXCEPT !.next = @ + 1, !.kept = kept,
                    !.encountered = Bump(@, 1), !.culled = Bump(@, more)]

KeepStride ==
  /\ phase = "culling" /\ round.next \in DOMAIN log_strides /\ Keeps
  /\ LET new_stride == IF Here.is_infinitesimal THEN Here.linear_value
                       ELSE NewStride(Here, stride_delta)
         lead == stride_delta + 8 * (new_stride - Here.linear_value)
     IN  IF Abs(lead) > Abs(stride_delta)
         THEN phase' = "assertion" /\ UNCHANGED <<stride_delta, round>>
         ELSE /\ stride_delta' = lead + Here.linear_fractional_err
              /\ round' = Counted(Append(round.kept, [Here EXCEPT !.linear_value = new_stride,
                                                                  !.linear_fractional_err = 0]), 0)
              /\ phase' = phase
  /\ UNCHANGED <<original, parameters, log_strides, culled_strides>>

\* Mutant: a culled stride leaves no trace in the delta.
CullStride_no_delta ==
  /\ phase = "culling" /\ round.next \in DOMAIN log_strides /\ ~ Keeps
  /\ stride_delta' = stride_delta + Here.linear_fractional_err
  /\ culled_strides' = [v \in DOMAIN culled_strides \cup {Here.linear_value} |->
       (IF v \in DOMAIN culled_strides THEN culled_strides[v] ELSE 0)
         + IF v = Here.linear_value THEN 1 ELSE 0]
  /\ round' = Counted(round.kept, 1)
  /\ UNCHANGED <<original, parameters, log_strides, phase>>

CullStride ==
  /\ phase = "culling" /\ round.next \in DOMAIN log_strides /\ ~ Keeps
  /\ stride_delta' = stride_delta - 8 * Here.linear_value + Here.linear_fractional_err
  /\ culled_strides' = [v \in DOMAIN culled_strides \cup {Here.linear_value} |->
       (IF v \in DOMAIN culled_strides THEN culled_strides[v] ELSE 0)
         + IF v = Here.linear_value THEN 1 ELSE 0]
  /\ round' = Counted(round.kept, 1)
  /\ UNCHANGED <<original, parameters, log_strides, phase>>

\* The counts are asserted; then the smallest stride kept is looked up, and there
\* may be none.
EndCull ==
  /\ phase = "culling" /\ round.next = Len(log_strides) + 1
  /\ IF round.culled # round.targets THEN phase' = "assertion" /\ UNCHANGED log_strides
     ELSE /\ log_strides' = round.kept
          /\ phase' = IF round.kept = << >> THEN "IndexError" ELSE "culled"
  /\ UNCHANGED <<original, parameters, culled_strides, stride_delta, round>>

CullNext == KeepStride \/ CullStride \/ EndCull

--------------------------------------------------------------------------------
(* Properties *)

\* The strides as they are now: the kept, then those the cull has yet to reach.
Current ==
  IF phase \in {"culling", "assertion"}
  THEN round.kept \o SubSeq(log_strides, round.next, Len(log_strides))
  ELSE log_strides

\* What strides have in eighths of an entry, which is bytes.
Bytes(strides) ==
  [i \in DOMAIN strides |-> 8 * strides[i].linear_value - strides[i].linear_fractional_err]

DeltaIsLead == stride_delta = SumFunction(Bytes(Current)) - SumFunction(original)

MagnitudeKept ==
  \A i \in DOMAIN Current :
    Current[i].is_infinitesimal \/ Key(LogStride(8 * Current[i].linear_value)) = Key(Current[i])

NothingLost ==
  Len(Current) + Total(culled_strides, DOMAIN culled_strides) = Len(original)

\* What cull() is for ("adjusts the trace footprint to match the original"): after any
\* number of culls the delta it works off is exactly the lead of the strides that are
\* left over the original ones, culled strides and roundings included; a stride, however
\* often it is stretched, keeps its sign and the magnitude determined once, so that the
\* histogram is not disturbed; and the strides kept and culled make up the trace, from
\* which make_json derives the ratio of array accesses.
StandsForOriginal == DeltaIsLead /\ MagnitudeKept /\ NothingLost

SpreadEvenly ==
  phase = "culling" =>
    \A k \in DOMAIN round.targets :
      round.culled[k] = Rounded(round.encountered[k], round.targets[k], round.counts[k])

SmallestFirst ==
  phase = "culled" =>
    \A k \in DOMAIN round.culled : round.culled[k] > 0 =>
      \A l \in Keys(log_strides) : ~ KeyBelow(l, k)

\* At every stride the strides culled of its size are the share due so far ("try to
\* distribute culled strides as evenly as possible"), so that the counts asserted at the
\* end come out; and no stride is kept while a larger one has been culled.
CullsEvenly == SpreadEvenly /\ SmallestFirst
================================================================================
