-------------------------------- MODULE Regions -------------------------------
(***************************************************************************)
(* trace_to_log_converter.cpp reads a trace twice: get_region_counts finds *)
(* the NUM_REG macroblocks with the most accesses, get_reg_traces deals    *)
(* the strides out to a region for each and one for all the others.        *)
(* ll_json_creator.py then reads the printed regions.                      *)
(*                                                                         *)
(* With HALO (no third argument) the lines  are HALO's and name their      *)
(* macroblock and stride; without it they are the proxy's own trace, and   *)
(* the converter computes both.  The array last_addr has NUM_REG elements  *)
(* and is indexed with NUM_REG for the other macroblocks:                  *)
(* last_addr[NUM_REG] is what lies behind it, and nothing else that the    *)
(* converter uses.                                                         *)
(***************************************************************************)
EXTENDS Integers, Sequences, FiniteSets, FiniteSetsExt, SequencesExt, Functions

CONSTANTS
  NUM_REG,
  BLOCK_SIZE,   \* 2^NUM_MB_BITS
  INT_RANGE,    \* the number of values of an int, 2^32
  Beyond,       \* what may lie behind last_addr
  HaloLines, TraceLines, \* the accesses a file may list: macroblock, address, stride
  HEAD_LINES,   \* lines of the tool that wrote a trace, before the accesses
  MAX_ACCESSES  \* bound on the length of the file

ASSUME RegionsAssumption ==
  /\ NUM_REG \in Nat \ {0} /\ BLOCK_SIZE \in Nat \ {0}
  /\ INT_RANGE \in Nat \ {0} /\ INT_RANGE % 2 = 0 /\ 2 * BLOCK_SIZE <= INT_RANGE
  /\ HaloLines \cup TraceLines \subseteq [mb : Nat, addr : Nat, offset : Int]
  /\ Beyond \subseteq Nat /\ HEAD_LINES \in Nat /\ MAX_ACCESSES \in Nat

VARIABLES
  HALO,
  trace,        \* the file, as far as the first reader has come
  mb_counts,    \* of the macroblocks met
  dom_mb,       \* the macroblock of each region, in increasing order
  split,        \* how many lines the second reader has dealt out
  last_addr,    \* of each region, and of what lies behind the array
  reg_traces,   \* the strides of each region
  printed,      \* the lines for the regions
  json,         \* the strides of each region, as the placement will read them
  at            \* "counting", "splitting", "printed", "made" or "failed"

vars == <<HALO, trace, mb_counts, dom_mb, split, last_addr, reg_traces, printed, json, at>>

Regions == 0 .. NUM_REG

\* A head line has no fields: every number read from it is 0.
HeadLine == [mb |-> 0, addr |-> 0, offset |-> 0]

Lines == IF HALO THEN HaloLines ELSE TraceLines
Heads == IF HALO THEN 0 ELSE HEAD_LINES

Init ==
  /\ HALO \in BOOLEAN
  /\ trace = [i \in 1 .. Heads |-> HeadLine]
  /\ mb_counts = << >>
  /\ dom_mb = << >>
  /\ split = 0
  /\ \E garbage \in IF HALO THEN {0} ELSE Beyond :
       last_addr = [r \in Regions |-> IF r < NUM_REG THEN 0 ELSE garbage]
  /\ reg_traces = [r \in Regions |-> << >>]
  /\ printed = {}
  /\ json = << >>
  /\ at = "counting"

Block(line) == IF HALO THEN line.mb ELSE line.addr \div BLOCK_SIZE

\* get_region_counts, on a line; it has skipped the head lines.
Count(line) ==
  /\ at = "counting" /\ Len(trace) < Heads + MAX_ACCESSES
  /\ trace' = Append(trace, line)
  /\ LET mb == Block(line)
     IN mb_counts' = [b \in DOMAIN mb_counts \cup {mb} |->
          (IF b \in DOMAIN mb_counts THEN mb_counts[b] ELSE 0) + (IF b = mb THEN 1 ELSE 0)]
  /\ UNCHANGED <<HALO, dom_mb, split, last_addr, reg_traces, printed, json, at>>

\* The first NUM_REG after sorting by count; which ones of equal count is the sort's choice.
Dominant(mbs) ==
  /\ Cardinality(mbs) = Min({NUM_REG, Cardinality(DOMAIN mb_counts)})
  /\ \A mb \in mbs, other \in DOMAIN mb_counts \ mbs : mb_counts[mb] >= mb_counts[other]

\* sort()
Sorted(mbs) ==
  [i \in 1 .. Cardinality(mbs) |-> CHOOSE mb \in mbs : Cardinality({b \in mbs : b <= mb}) = i]

\* resize() makes up for missing macroblocks with number 0.
ChooseRegions ==
  /\ at = "counting"
  /\ \E mbs \in {s \in SUBSET DOMAIN mb_counts : Dominant(s)} :
       dom_mb' = [i \in 1 .. NUM_REG - Cardinality(mbs) |-> 0] \o Sorted(mbs)
  /\ at' = "splitting"
  /\ UNCHANGED <<HALO, trace, mb_counts, split, last_addr, reg_traces, printed, json>>

\* Mutant: every macroblock goes to the last region that does not start above it.
Index_below(mb) ==
  IF dom_mb[1] <= mb THEN Max({i \in 1 .. NUM_REG : dom_mb[i] <= mb}) - 1 ELSE NUM_REG

\* find(): the first region with this macroblock, or the region of all the others.
Index(mb) ==
  IF \E i \in 1 .. NUM_REG : dom_mb[i] = mb
  THEN Min({i \in 1 .. NUM_REG : dom_mb[i] = mb}) - 1
  ELSE NUM_REG

\* A stride becomes an int when it is pushed.
Stride(offset) == ((offset + INT_RANGE \div 2) % INT_RANGE) - INT_RANGE \div 2

\* Mutant: the difference to the line before.
Offset_of_line(line, r) ==
  IF HALO THEN line.offset ELSE IF split > 0 THEN line.addr - trace[split].addr ELSE 0

\* "Calculating offset for specified region"
Offset(line, r) ==
  IF HALO THEN line.offset ELSE IF last_addr[r] # 0 THEN line.addr - last_addr[r] ELSE 0

\* get_reg_traces, on a line, head lines included
Split ==
  /\ at = "splitting" /\ split < Len(trace)
  /\ LET line == trace[split + 1]
         r == Index(Block(line))
     IN /\ last_addr' = IF HALO THEN last_addr ELSE [last_addr EXCEPT ![r] = line.addr]
        /\ reg_traces' = [reg_traces EXCEPT ![r] = Append(@, Stride(Offset(line, r)))]
  /\ split' = split + 1
  /\ UNCHANGED <<HALO, trace, mb_counts, dom_mb, printed, json, at>>

Filled == {r \in Regions : reg_traces[r] # << >>}

\* Only strides end a line: it begins with the labels of the empty regions before.
Line(r) ==
  [labels  |-> {q \in Regions : q <= r /\ \A s \in Filled : s < r => s < q},
   strides |-> reg_traces[r]]

\* The labels of the regions after the last stride.  get_reg_traces lacks its return:
\* main may die of the vector it did not get, and what follows the last line end is lost.
LastLine == [labels |-> {q \in Regions : \A s \in Filled : s < q}, strides |-> << >>]

Output ==
  /\ at = "splitting" /\ split = Len(trace)
  /\ \E tail \in IF NUM_REG \in Filled THEN {{}} ELSE {{LastLine}, {}} :
       printed' = {Line(r) : r \in Filled} \cup tail
  /\ at' = "printed"
  /\ UNCHANGED <<HALO, trace, mb_counts, dom_mb, split, last_addr, reg_traces, json>>

\* Mutant: a line of several labels counts for the first.
Readable_first(line) == line.strides # << >>

\* What follows the first label and its colon must be integers.
Readable(line) == Cardinality(line.labels) = 1 /\ line.strides # << >>

\* proxy_offset_collector: a line that cannot be read ends it before the file is written.
MakeJson ==
  /\ at = "printed"
  /\ IF \A line \in printed : Readable(line)
     THEN /\ json' = [r \in {Min(line.labels) : line \in printed} |->
               (CHOOSE line \in printed : Min(line.labels) = r).strides]
          /\ at' = "made"
     ELSE /\ at' = "failed"
          /\ UNCHANGED json
  /\ UNCHANGED <<HALO, trace, mb_counts, dom_mb, split, last_addr, reg_traces, printed>>

Terminated == at \in {"made", "failed"} /\ UNCHANGED vars

Next ==
  \/ \E line \in Lines : Count(line)
  \/ ChooseRegions \/ Split \/ Output \/ MakeJson
  \/ Terminated

Spec == Init /\ [][Next]_vars

--------------------------------------------------------------------------------
(* Properties *)

Split_ended == at \in {"printed", "made", "failed"}

Reported == SumFunctionOnSet(mb_counts, ToSet(dom_mb) \cap DOMAIN mb_counts)

\* What the first reader reports for "-1", the accesses outside the dominant macroblocks,
\* is what the second reader puts into the last region, but for the head lines of a
\* trace, which only the second counts: both agree on the macroblock of every line,
\* although resize() may have made up several regions 0.  And the regions were worth
\* choosing: no other NUM_REG macroblocks would have left fewer accesses to the last.
OverflowCounted ==
  Split_ended =>
    LET others == Len(trace) - Heads - Reported
        left == Len(reg_traces[NUM_REG])
    IN  /\ left - others = IF 0 \in ToSet(dom_mb) THEN 0 ELSE Heads
        /\ \A mbs \in SUBSET DOMAIN mb_counts :
             Cardinality(mbs) <= NUM_REG =>
               SumFunctionOnSet(mb_counts, DOMAIN mb_counts \ mbs) >= others

\* The addresses of macroblock 0, if it was accessed at all, are 0.  get_reg_traces takes a
\* last address of 0 for none yet, which it then is: there is no other to lead on from it.
ZeroIsAlone == \A line \in TraceLines : line.addr = 0 \/ line.addr >= BLOCK_SIZE

Accesses(mb) == {i \in 1 .. split : Block(trace[i]) = mb}

\* A macroblock of a trace that got a region of its own can be replayed from it: from its
\* first address on, the strides lead through all of its addresses in their order.
StridesReplay ==
  ~ HALO /\ at # "counting" => \A r \in 0 .. NUM_REG - 1 :
    LET mine == Accesses(dom_mb[r + 1])
        nth(i) == Cardinality({j \in mine : j <= i})
    IN Index(dom_mb[r + 1]) = r =>
         /\ Len(reg_traces[r]) = Cardinality(mine)
         /\ \A i, j \in mine :
              nth(j) = nth(i) + 1 => trace[j].addr = trace[i].addr + reg_traces[r][nth(j)]

Ints == - (INT_RANGE \div 2) .. INT_RANGE \div 2 - 1

\* What the placement reads is what was dealt out, every region under its own label and
\* every stride an int, whatever the empty regions did to the printed lines; and if there
\* are more macroblocks than regions, the file is always made.
JsonIsRegions ==
  /\ at = "made" => /\ DOMAIN json = Filled
                    /\ \A r \in Filled : json[r] = reg_traces[r] /\ ToSet(json[r]) \subseteq Ints
  /\ Cardinality(DOMAIN mb_counts) > NUM_REG => at # "failed"
================================================================================
