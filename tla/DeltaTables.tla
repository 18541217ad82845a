------------------------------ MODULE DeltaTables ------------------------------
(***************************************************************************)
(* The global delta tables of the HALO memory profiler                     *)
(* (memory_profiler/proxy_rand_reuse_delta_v4.cpp, classes DELTA_ENTRY and *)
(* DELTA_TABLES).                                                          *)
(*                                                                         *)
(* A delta is the distance between two consecutive accesses to the same    *)
(* macroblock.  For every history of 1..MAX_DELTA consecutive deltas the   *)
(* tables count the deltas that followed it.  The program keeps one map    *)
(* per history length, keyed by a string built from the history; here one  *)
(* function maps each recorded history (a sequence) to its entry.          *)
(***************************************************************************)
EXTENDS Integers, Sequences, FiniteSets

CONSTANTS
  MAX_DELTA,          \* longest history of deltas that is recorded
  MACROBLOCK_SIZE     \* bytes in a macroblock

ASSUME DeltaAssumption ==
  /\ MAX_DELTA \in Nat \ {0}
  /\ MACROBLOCK_SIZE \in Nat \ {0}

\* The macroblock an address lies in (addr >> MACROBLOCK_SIZE_BITS).
MB(addr) == addr \div MACROBLOCK_SIZE

\* The last n elements of a history (get_partial_delta_string).
Suffix(hist, n) == SubSeq(hist, Len(hist) - n + 1, Len(hist))

--------------------------------------------------------------------------------
(* Recording *)

DELTA_ENTRY ==
  [next_deltas |-> [d \in {} |-> 0], valid |-> TRUE, most_freq_foll |-> 0]

\* How often d followed the history of entry e.
Followed(e, d) == IF d \in DOMAIN e.next_deltas THEN e.next_deltas[d] ELSE 0

access(e, nd) ==
  [e EXCEPT !.next_deltas =
     [d \in DOMAIN e.next_deltas \cup {nd} |->
        Followed(e, d) + (IF d = nd THEN 1 ELSE 0)]]

\* Mutant: counts after the prefixes of the history.
update_tables_prefixes(tables, hist, nd) ==
  LET keys == {SubSeq(hist, 1, i) : i \in 1 .. Len(hist)}
  IN  [k \in DOMAIN tables \cup keys |->
         IF k \notin keys THEN tables[k]
         ELSE access(IF k \in DOMAIN tables THEN tables[k] ELSE DELTA_ENTRY, nd)]

\* Delta nd is counted after every suffix of the history of its macroblock.
update_tables(tables, hist, nd) ==
  LET keys == {Suffix(hist, i) : i \in 1 .. Len(hist)}
  IN  [k \in DOMAIN tables \cup keys |->
         IF k \notin keys THEN tables[k]
         ELSE access(IF k \in DOMAIN tables THEN tables[k] ELSE DELTA_ENTRY, nd)]

--------------------------------------------------------------------------------
(* Closing a phase *)

\* The history has had one follower only, so it predicts the next delta.
access_full_perc(e) == \E d \in DOMAIN e.next_deltas : DOMAIN e.next_deltas = {d}

\* The most frequent follower, the least one among equals (print_entry).
MostFrequent(e) ==
  CHOOSE d \in DOMAIN e.next_deltas :
    \A o \in DOMAIN e.next_deltas :
      \/ e.next_deltas[o] < e.next_deltas[d]
      \/ e.next_deltas[o] = e.next_deltas[d] /\ d <= o

\* Mutant: a history that predicts the next delta itself is dropped as well.
Keeps_none_full(tables, k) == ~ \E j \in 1 .. Len(k) : access_full_perc(tables[Suffix(k, j)])

\* A history is dropped when a shorter suffix already predicts the next delta;
\* of the shortest histories only those that predict it are kept.
Keeps(tables, k) ==
  IF Len(k) = 1
  THEN access_full_perc(tables[k])
  ELSE ~ \E j \in 1 .. Len(k) - 1 : access_full_perc(tables[Suffix(k, j)])

manage_cascaded_tables(tables) ==
  [k \in DOMAIN tables |->
     [tables[k] EXCEPT !.valid = Keeps(tables, k),
                       !.most_freq_foll = MostFrequent(tables[k])]]

--------------------------------------------------------------------------------
(* Drawing *)

\* Mutant: forgets that the address must stay in the macroblock.
LiveFollowers_anywhere(e, last_addr, mb) == {d \in DOMAIN e.next_deltas : e.next_deltas[d] > 0}

\* The followers still to be replayed that keep the address in macroblock mb.
LiveFollowers(e, last_addr, mb) ==
  {d \in DOMAIN e.next_deltas : e.next_deltas[d] > 0 /\ MB(last_addr + d) = mb}

is_any_delta_valid(e, last_addr, mb) == LiveFollowers(e, last_addr, mb) # {}

get_forced_delta(e, last_addr, mb) ==
  CHOOSE d \in LiveFollowers(e, last_addr, mb) :
    \A o \in LiveFollowers(e, last_addr, mb) : d <= o

\* What rand() can make of an entry: any follower with a count left; once some
\* count is used up, a hundred misses in a row yield the most frequent one.
get_rand_delta(e) ==
  {d \in DOMAIN e.next_deltas :
     \/ e.next_deltas[d] > 0
     \/ /\ d = e.most_freq_foll
        /\ \E o \in DOMAIN e.next_deltas : e.next_deltas[o] = 0}

\* A drawn delta is taken out of its entry.
update_proxy(tables, k, nd) ==
  [tables EXCEPT ![k].next_deltas[nd] = IF @ > 0 THEN @ - 1 ELSE @]

================================================================================
