----------------------------- MODULE HaloLocality -----------------------------
(***************************************************************************)
(* The HALO memory profiler, memory_profiler/proxy_rand_reuse_delta_v4.cpp. *)
(*                                                                         *)
(* The program reads a trace of addresses.  For every PHASE_LEN of them it *)
(* has recorded                                                            *)
(*   - per macroblock, the first address, the first MAX_DELTA deltas and   *)
(*     the number of accesses (per_MB_historytable),                       *)
(*   - the reuse distances of macroblocks on a bounded LRU list            *)
(*     (last_macroblock_list, MB_reuse), and                               *)
(*   - the delta tables (module DeltaTables),                              *)
(* and from them it generates PHASE_LEN / 5 proxy accesses, consuming the  *)
(* recorded statistics as it goes; then it clears everything.  rand() is   *)
(* the only source of nondeterminism.  An assert() that fails ends the     *)
(* behaviour in control state "abort", assert_failed naming its line.      *)
(***************************************************************************)
EXTENDS DeltaTables, Functions

CONSTANTS
  MAX_MB_REUSE,       \* capacity of the LRU list, and the reuse distance "none"
  MAX_INIT_ELEMS,     \* 1 + this many first addresses are replayed verbatim
  PHASE_LEN,          \* accesses in a phase
  Traces              \* the traces the program may be run on

ASSUME HaloAssumption ==
  /\ MAX_MB_REUSE \in Nat \ {0}
  /\ MAX_INIT_ELEMS \in Nat
  /\ PHASE_LEN \in Nat \ {0}
  /\ MAX_INIT_ELEMS < PHASE_LEN
  /\ PHASE_LEN \div 5 <= (95 * (PHASE_LEN - 10)) \div 100
  /\ Traces \subseteq Seq(Nat)

GEN_LEN == PHASE_LEN \div 5

VARIABLES
  trace, num_elems,         \* the input and how much of it has been read
  per_MB_historytable,      \* macroblock -> MACRO_BLOCK_LOC
  global_delta_tables,
  last_macroblock_list,     \* most recently used first
  MB_reuse,                 \* reuse distance -> accesses (left)
  unique_mbs, unique_mb_ct,             \* macroblocks in order of first touch
  unique_MB_reuse,          \* reuse distance seen in the phase -> accesses left
  init_addrs,
  pc, assert_failed,        \* control state; line of the assert that failed
  gen_elems, new_MBs,       \* generated so far, in total and per macroblock
  temp_reuse,               \* the reuse distance being tried
  this                      \* the access chosen: mb, addr, reuse, delta, first

profile == <<per_MB_historytable, global_delta_tables, last_macroblock_list, MB_reuse,
             unique_mbs, unique_mb_ct, unique_MB_reuse, init_addrs>>
input == <<trace, num_elems>>
generator == <<gen_elems, new_MBs, temp_reuse, this>>
vars == <<input, profile, generator, pc, assert_failed>>

NoAccess == [mb |-> 0, addr |-> 0, reuse |-> 0, delta |-> 0, first |-> FALSE]
NoEntries == [x \in {} |-> 0]

--------------------------------------------------------------------------------
(* One macroblock: class MACRO_BLOCK_LOC *)

MACRO_BLOCK_LOC(addr) ==
  [last_addr |-> addr, first_addr |-> addr, last_N_deltas |-> << >>,
   first_N_deltas |-> << >>, saved_first_N_deltas |-> << >>,
   num_accesses |-> 1, first_proxy_gen |-> FALSE]

\* Mutant: off by one, MAX_DELTA + 1 deltas are held.
PushDelta_one_more(hist, d) ==
  Append(IF Len(hist) > MAX_DELTA THEN Tail(hist) ELSE hist, d)

\* A bounded history: the oldest delta leaves when MAX_DELTA are held.
PushDelta(hist, d) ==
  Append(IF Len(hist) = MAX_DELTA THEN Tail(hist) ELSE hist, d)

\* Mutant: keeps the last deltas instead of the first.
KeepFirst_last(m, deltas, d) == PushDelta(deltas, d)

\* The first MAX_DELTA deltas of a macroblock are kept (update_first_M_deltas).
KeepFirst(m, deltas, d) == IF Len(m.first_N_deltas) < MAX_DELTA THEN Append(deltas, d) ELSE deltas

access_mb(m, addr) ==
  LET d == addr - m.last_addr
  IN  [m EXCEPT !.first_N_deltas = KeepFirst(m, @, d),
                !.saved_first_N_deltas = KeepFirst(m, @, d),
                !.last_N_deltas = PushDelta(@, d),
                !.last_addr = addr,
                !.num_accesses = @ + 1]

\* Mutant: clears the number of accesses too.
reset_all(m) == [m EXCEPT !.last_N_deltas = << >>, !.last_addr = 0, !.num_accesses = 0]

reset(m) == [m EXCEPT !.last_N_deltas = << >>, !.last_addr = 0]

\* Mutant: the access of a first address is not counted.
proxy_access_first_free(m, d, first, addr) ==
  [m EXCEPT !.last_N_deltas = IF first THEN @ ELSE PushDelta(@, d),
            !.last_addr = addr,
            !.num_accesses = IF first THEN @ ELSE @ - 1]

\* Mutant: a first address does not become the last address.
proxy_access_first_unplaced(m, d, first, addr) ==
  [m EXCEPT !.last_N_deltas = IF first THEN @ ELSE PushDelta(@, d),
            !.last_addr = IF first THEN @ ELSE addr,
            !.num_accesses = @ - 1]

proxy_access(m, d, first, addr) ==
  [m EXCEPT !.last_N_deltas = IF first THEN @ ELSE PushDelta(@, d),
            !.last_addr = addr,
            !.num_accesses = @ - 1]

reuse_first_addr(m, mb) == MB(m.first_addr + Head(m.saved_first_N_deltas)) = mb

\* Mutant: the first deltas are not restored.
reinit_first_addr_no_deltas(m) ==
  [m EXCEPT !.last_N_deltas = << >>, !.last_addr = m.first_addr]

reinit_first_addr(m) ==
  [m EXCEPT !.first_N_deltas = m.saved_first_N_deltas,
            !.last_N_deltas = << >>,
            !.last_addr = m.first_addr]

--------------------------------------------------------------------------------
(* The LRU list of macroblocks *)

\* Temporal position of a macroblock, MAX_MB_REUSE when it is not on the list.
is_mb_used(list, mb) ==
  IF \E i \in 1 .. Len(list) : list[i] = mb
  THEN (CHOOSE i \in 1 .. Len(list) : list[i] = mb /\ \A j \in 1 .. i - 1 : list[j] # mb) - 1
  ELSE MAX_MB_REUSE

\* Mutant: the oldest leaves a full list even when the macroblock was found on it.
update_mb_reuse_list_evicts_early(list, mb) ==
  LET kept == IF Len(list) = MAX_MB_REUSE THEN SubSeq(list, 1, Len(list) - 1) ELSE list
  IN  <<mb>> \o SelectSeq(kept, LAMBDA b : b # mb)

\* Mutant: off by one, the list holds MAX_MB_REUSE - 1 macroblocks.
update_mb_reuse_list_one_less(list, mb) ==
  LET rest == SelectSeq(list, LAMBDA b : b # mb)
  IN  <<mb>> \o (IF Len(rest) + 1 = MAX_MB_REUSE THEN SubSeq(rest, 1, Len(rest) - 1) ELSE rest)

\* Mutant: the macroblock is not taken out from where it was.
update_mb_reuse_list_twice(list, mb) ==
  <<mb>> \o (IF Len(list) = MAX_MB_REUSE THEN SubSeq(list, 1, Len(list) - 1) ELSE list)

\* Drop the macroblock where it is found, then the oldest if the list is full,
\* and put the macroblock in front.
update_mb_reuse_list(list, mb) ==
  LET pos  == is_mb_used(list, mb)
      rest == IF pos < Len(list) THEN SubSeq(list, 1, pos) \o SubSeq(list, pos + 2, Len(list))
              ELSE list
  IN  <<mb>> \o (IF Len(rest) = MAX_MB_REUSE THEN SubSeq(rest, 1, Len(rest) - 1) ELSE rest)

--------------------------------------------------------------------------------
(* Profiling *)

\* mem_access: count the reuse distance, then open or extend the macroblock.
mem_access(addr) ==
  LET mb  == MB(addr)
      pos == is_mb_used(last_macroblock_list, mb)
  IN  /\ MB_reuse' = [MB_reuse EXCEPT ![pos] = @ + 1]
      /\ last_macroblock_list' = update_mb_reuse_list(last_macroblock_list, mb)
      /\ IF mb \in DOMAIN per_MB_historytable
         THEN LET m == per_MB_historytable[mb]
              IN  /\ per_MB_historytable' = [per_MB_historytable EXCEPT ![mb] = access_mb(m, addr)]
                  /\ global_delta_tables' =
                       update_tables(global_delta_tables, m.last_N_deltas, addr - m.last_addr)
                  /\ UNCHANGED unique_mbs
         ELSE /\ per_MB_historytable' =
                   [b \in DOMAIN per_MB_historytable \cup {mb} |->
                      IF b = mb THEN MACRO_BLOCK_LOC(addr) ELSE per_MB_historytable[b]]
              /\ unique_mbs' = Append(unique_mbs, mb)
              /\ UNCHANGED global_delta_tables
      /\ init_addrs' = IF Len(init_addrs) <= MAX_INIT_ELEMS THEN Append(init_addrs, addr)
                       ELSE init_addrs
      /\ UNCHANGED <<unique_mb_ct, unique_MB_reuse>>

\* One line of the trace; every PHASE_LEN of them close a phase.
ReadElement ==
  /\ pc = "profile"
  /\ num_elems < Len(trace)
  /\ mem_access(trace[num_elems + 1])
  /\ num_elems' = num_elems + 1
  /\ pc' = IF num_elems' % PHASE_LEN = 0 THEN "prepare" ELSE pc
  /\ UNCHANGED <<trace, generator, assert_failed>>

\* End of file: a phase that is not complete generates nothing.
EndOfTrace ==
  /\ pc = "profile"
  /\ num_elems = Len(trace)
  /\ pc' = "done"
  /\ UNCHANGED <<input, profile, generator, assert_failed>>

\* print_locality_info, which cascades the tables, and prep4proxygen.
Prepare ==
  LET seen == {r \in 0 .. MAX_MB_REUSE : MB_reuse[r] > 0}
  IN  /\ pc = "prepare"
      /\ global_delta_tables' = manage_cascaded_tables(global_delta_tables)
      /\ last_macroblock_list' = << >>
      /\ per_MB_historytable' =
           [b \in DOMAIN per_MB_historytable |-> reset(per_MB_historytable[b])]
      /\ unique_mb_ct' = unique_mb_ct \o
           [i \in 1 .. Len(unique_mbs) |-> per_MB_historytable[unique_mbs[i]].num_accesses]
      /\ unique_MB_reuse' = [r \in seen |-> MB_reuse[r]]
      /\ pc' = "next"
      /\ UNCHANGED <<input, MB_reuse, unique_mbs, init_addrs, generator, assert_failed>>

\* The phase has generated its share: generate_proxy_access returns, so its
\* locals are gone, and phase_clear empties the statistics.
PhaseClear ==
  /\ pc = "next"
  /\ gen_elems = GEN_LEN
  /\ last_macroblock_list' = << >>
  /\ per_MB_historytable' = NoEntries
  /\ unique_mbs' = << >>
  /\ unique_mb_ct' = << >>
  /\ global_delta_tables' = NoEntries
  /\ MB_reuse' = [r \in 0 .. MAX_MB_REUSE |-> 0]
  /\ unique_MB_reuse' = NoEntries
  /\ init_addrs' = << >>
  /\ gen_elems' = 0
  /\ new_MBs' = NoEntries
  /\ temp_reuse' = 0
  /\ this' = NoAccess
  /\ pc' = "profile"
  /\ UNCHANGED <<input, assert_failed>>

--------------------------------------------------------------------------------
(* Generating: what an access is made of *)

Abort(line) ==
  /\ pc' = "abort"
  /\ assert_failed' = line
  /\ UNCHANGED <<input, profile, generator>>

Choose(mb, addr, reuse, delta, first) ==
  /\ this' = [mb |-> mb, addr |-> addr, reuse |-> reuse, delta |-> delta, first |-> first]
  /\ pc' = "commit"

UNCHANGED_but_MB ==
  UNCHANGED <<input, global_delta_tables, last_macroblock_list, MB_reuse, unique_mbs, unique_mb_ct,
              unique_MB_reuse, gen_elems, new_MBs, temp_reuse, assert_failed>>

Left(mb) == per_MB_historytable[mb].num_accesses
OnList(mb) == is_mb_used(last_macroblock_list, mb) # MAX_MB_REUSE

\* What rand() % 100 can select from a table of weights: the first index whose
\* cumulative percentage reaches the number drawn.
roulette(ct) ==
  LET prob[i \in DOMAIN ct] ==
        (SumFunctionOnSet(ct, {j \in DOMAIN ct : j <= i}) * 100) \div SumFunction(ct)
  IN  {i \in DOMAIN ct :
         \E p \in 0 .. 99 : p <= prob[i] /\ \A j \in DOMAIN ct : j < i => prob[j] < p}

\* The macroblocks a retry loop may come up with.
PickableMBs == {unique_mbs[i] : i \in roulette(unique_mb_ct)}

\* is_first_access, then the first address of a macroblock not generated yet.
TakeNewMB(mb) ==
  LET m == per_MB_historytable[mb]
  IN  IF m.first_proxy_gen THEN Abort("1334")
      ELSE IF Len(m.first_N_deltas) # Len(m.saved_first_N_deltas) THEN Abort("422")
      ELSE /\ per_MB_historytable' = [per_MB_historytable EXCEPT ![mb].first_proxy_gen = TRUE]
           /\ Choose(mb, m.first_addr, MAX_MB_REUSE, 0, TRUE)
           /\ UNCHANGED init_addrs
           /\ UNCHANGED_but_MB

\* Mutant: forgets to look the macroblock up in new_MBs.
Fresh_or_evicted(mb) == ~ OnList(mb) /\ Left(mb) > 0

Fresh(mb) == ~ OnList(mb) /\ mb \notin DOMAIN new_MBs /\ Left(mb) > 0

--------------------------------------------------------------------------------
(* Generating: the next delta of a macroblock, get_next_delta *)

\* The lengths of history for which m finds a valid entry, and that entry.
Usable(m) ==
  {n \in 1 .. Len(m.last_N_deltas) :
     LET k == Suffix(m.last_N_deltas, n)
     IN  k \in DOMAIN global_delta_tables /\ global_delta_tables[k].valid}

Entry(m, n) == global_delta_tables[Suffix(m.last_N_deltas, n)]

\* All random tries on an entry may leave the macroblock.
MayMiss(mb, m, n) == \E d \in get_rand_delta(Entry(m, n)) : MB(m.last_addr + d) # mb

\* Random tries, from the longest history to the shortest.
RandomDraws(mb, m) ==
  {draw \in Usable(m) \X UNION {get_rand_delta(Entry(m, n)) : n \in Usable(m)} :
     /\ draw[2] \in get_rand_delta(Entry(m, draw[1]))
     /\ MB(m.last_addr + draw[2]) = mb
     /\ \A l \in Usable(m) : l > draw[1] => MayMiss(mb, m, l)}

\* Without luck, the least live follower of the longest history that has one.
ForcedDraws(mb, m) ==
  LET alive == {n \in Usable(m) : is_any_delta_valid(Entry(m, n), m.last_addr, mb)}
  IN  IF \A n \in Usable(m) : MayMiss(mb, m, n)
      THEN {<<n, get_forced_delta(Entry(m, n), m.last_addr, mb)>> :
              n \in {a \in alive : \A l \in alive : l <= a}}
      ELSE {}

\* get_next_delta can return false.
NoDelta(mb) ==
  LET m == per_MB_historytable[mb]
  IN  /\ m.first_N_deltas = << >>
      /\ \A n \in Usable(m) : MayMiss(mb, m, n)
      /\ ForcedDraws(mb, m) = {}

\* The first deltas of a macroblock are replayed before the tables are drawn from.
ReplayDelta(mb, reuse) ==
  LET m == per_MB_historytable[mb]
      d == Head(m.first_N_deltas)
  IN  /\ m.first_N_deltas # << >>
      /\ IF MB(m.last_addr + d) # mb THEN Abort("935")
         ELSE /\ per_MB_historytable' = [per_MB_historytable EXCEPT ![mb].first_N_deltas = Tail(@)]
              /\ Choose(mb, m.last_addr + d, reuse, d, FALSE)
              /\ UNCHANGED init_addrs
              /\ UNCHANGED_but_MB

DrawDelta(mb, reuse) ==
  LET m == per_MB_historytable[mb]
  IN  /\ m.first_N_deltas = << >>
      /\ \E draw \in RandomDraws(mb, m) \cup ForcedDraws(mb, m) :
           /\ global_delta_tables' =
                update_proxy(global_delta_tables, Suffix(m.last_N_deltas, draw[1]), draw[2])
           /\ Choose(mb, m.last_addr + draw[2], reuse, draw[2], FALSE)
      /\ UNCHANGED <<input, per_MB_historytable, last_macroblock_list, MB_reuse, unique_mbs,
                     unique_mb_ct, unique_MB_reuse, init_addrs, gen_elems,
                     new_MBs, temp_reuse, assert_failed>>

get_next_delta(mb, reuse) == ReplayDelta(mb, reuse) \/ DrawDelta(mb, reuse)

--------------------------------------------------------------------------------
(* Generating: giving a macroblock a history it can go on from *)

\* Some suffix of history hist has a live follower.
Continues(hist, m, mb) ==
  \E n \in 1 .. Len(hist) :
    LET k == Suffix(hist, n)
    IN  /\ k \in DOMAIN global_delta_tables
        /\ global_delta_tables[k].valid
        /\ is_any_delta_valid(global_delta_tables[k], m.last_addr, mb)

\* The assert of reinit_MB_delta that macroblock m would fail, "none" if none.
ReinitAssert(m, mb) ==
  IF MB(m.last_addr) # mb THEN "1090"
  ELSE IF m.first_N_deltas # << >> THEN "none"
  ELSE IF m.last_N_deltas = << >> THEN "1100"
  ELSE IF \E n \in 1 .. Len(m.last_N_deltas) : Continues(SubSeq(m.last_N_deltas, 1, n), m, mb) THEN "none"
  ELSE IF ~ reuse_first_addr(m, mb) THEN "1149"
  ELSE "none"

\* The newest deltas are forgotten until the rest can be continued; with none
\* left the macroblock starts over from its first address.
StartsOver(m, mb) ==
  /\ m.first_N_deltas = << >>
  /\ ~ \E n \in 1 .. Len(m.last_N_deltas) : Continues(SubSeq(m.last_N_deltas, 1, n), m, mb)

reinit_MB_delta(m, mb) ==
  IF m.first_N_deltas # << >> THEN m
  ELSE IF StartsOver(m, mb) THEN reinit_first_addr(m)
  ELSE LET kept == CHOOSE n \in 1 .. Len(m.last_N_deltas) :
                     /\ Continues(SubSeq(m.last_N_deltas, 1, n), m, mb)
                     /\ \A l \in n + 1 .. Len(m.last_N_deltas) :
                          ~ Continues(SubSeq(m.last_N_deltas, 1, l), m, mb)
       IN  [m EXCEPT !.last_N_deltas = SubSeq(@, 1, kept)]

\* Draw a delta for macroblock mb; failing that, start it over if its history is
\* of no use, or else do as Otherwise says.
ContinueMB(mb, reuse, Otherwise) ==
  \/ get_next_delta(mb, reuse)
  \/ LET m == per_MB_historytable[mb]
     IN  /\ NoDelta(mb)
         /\ IF ReinitAssert(m, mb) # "none" THEN Abort(ReinitAssert(m, mb))
            ELSE /\ per_MB_historytable' =
                      [per_MB_historytable EXCEPT ![mb] = reinit_MB_delta(m, mb)]
                 /\ IF StartsOver(m, mb)
                    THEN Choose(mb, m.first_addr, reuse, 0, TRUE)
                    ELSE Otherwise
                 /\ UNCHANGED init_addrs
                 /\ UNCHANGED_but_MB

GoTo(label) == pc' = label /\ UNCHANGED this

\* With nothing better at hand the last address of the macroblock is repeated.
RepeatLast(mb, reuse) == Choose(mb, per_MB_historytable[mb].last_addr, reuse, 0, TRUE)

--------------------------------------------------------------------------------
(* Generating: the cases of generate_proxy_access *)

\* Case 1: the first addresses of the phase are repeated as they were.
InitAccess ==
  LET addr == Head(init_addrs)
      mb   == MB(addr)
      m    == per_MB_historytable[mb]
      d    == addr - m.last_addr
      reuse == is_mb_used(last_macroblock_list, mb)
      rest == IF m.first_proxy_gen /\ m.first_N_deltas # << >> THEN Tail(m.first_N_deltas)
              ELSE m.first_N_deltas
  IN  /\ pc = "next"
      /\ gen_elems < GEN_LEN
      /\ gen_elems <= MAX_INIT_ELEMS
      /\ IF init_addrs = << >> THEN Abort("1272")
         ELSE IF ~ m.first_proxy_gen /\ Len(m.first_N_deltas) # Len(m.saved_first_N_deltas)
              THEN Abort("422")
         ELSE IF m.first_proxy_gen /\ m.first_N_deltas # << >> /\ d # Head(m.first_N_deltas)
              THEN Abort("1282")
         ELSE /\ per_MB_historytable' =
                   [per_MB_historytable EXCEPT
                      ![mb].first_proxy_gen = TRUE, ![mb].first_N_deltas = rest]
              /\ IF m.first_proxy_gen
                 THEN Choose(mb, addr, reuse, d, FALSE)
                 ELSE Choose(mb, addr, reuse, 0, TRUE)
              /\ init_addrs' = Tail(init_addrs)
              /\ UNCHANGED_but_MB

\* A reuse distance is drawn by its frequency; what it allows decides what is
\* tried first: a macroblock that is not on the list ("new"), the macroblock at
\* that distance ("lower"), or a macroblock to make the list longer ("grow").
PickReuse ==
  /\ pc = "next"
  /\ gen_elems < GEN_LEN
  /\ gen_elems > MAX_INIT_ELEMS
  /\ \E reuse \in roulette(unique_MB_reuse) :
       /\ temp_reuse' = reuse
       /\ pc' = IF MB_reuse[reuse] = 0 THEN "fallback"
                ELSE IF reuse = MAX_MB_REUSE THEN "new"
                ELSE IF reuse < Len(last_macroblock_list) THEN "lower"
                ELSE "grow"
  /\ UNCHANGED <<input, profile, gen_elems, new_MBs, this, assert_failed>>

\* Cases 2 and 5: a macroblock that has not been generated yet.
PickFresh ==
  /\ pc \in {"new", "grow"}
  /\ \E mb \in PickableMBs : Fresh(mb) /\ TakeNewMB(mb)

\* Cases 3 and 6: one that was generated and has left the list since.
PickEvicted ==
  /\ pc \in {"new", "grow"}
  /\ \E mb \in PickableMBs :
       /\ ~ OnList(mb)
       /\ mb \in DOMAIN new_MBs
       /\ Left(mb) > 0
       /\ ContinueMB(mb, MAX_MB_REUSE, GoTo(pc))

\* The 1000 (500) tries are used up: each of them can fall on a macroblock that
\* is on the list or has no accesses left.
GiveUp ==
  /\ pc \in {"new", "grow"}
  /\ \E mb \in PickableMBs : OnList(mb) \/ Left(mb) = 0
  /\ GoTo("fallback")
  /\ UNCHANGED <<per_MB_historytable, init_addrs>>
  /\ UNCHANGED_but_MB

\* Case 4: the macroblock at the reuse distance drawn.
PickLower ==
  LET mb == last_macroblock_list[temp_reuse + 1]
  IN  /\ pc = "lower"
      /\ \/ /\ Left(mb) > 0
            /\ ContinueMB(mb, temp_reuse, GoTo("fallback"))
         \/ /\ Left(mb) = 0
            /\ GoTo("fallback")
            /\ UNCHANGED <<per_MB_historytable, init_addrs>>
            /\ UNCHANGED_but_MB

\* The greatest reuse distance that is still to be generated, -1 if none.
max_nonzero_reuse ==
  LET left == {r \in DOMAIN unique_MB_reuse : r # MAX_MB_REUSE /\ MB_reuse[r] > 0}
  IN  IF left = {} THEN -1 ELSE CHOOSE r \in left : \A o \in left : o <= r

\* Case 7: the list is too short for it, so a new macroblock may be added.
FallbackFresh ==
  /\ pc = "fallback"
  /\ max_nonzero_reuse >= Len(last_macroblock_list)
  /\ \E mb \in PickableMBs : Fresh(mb) /\ TakeNewMB(mb)

\* Mutant: takes macroblocks that have no accesses left.
HigherReuse_any ==
  {p \in max_nonzero_reuse + 1 .. Len(last_macroblock_list) - 1 :
     Left(last_macroblock_list[max_nonzero_reuse + 1]) = 0}

\* Case 8: its macroblock has no accesses left; the one farthest down the list
\* that has some is used, its last address repeated if nothing else will do.
HigherReuse ==
  {p \in max_nonzero_reuse + 1 .. Len(last_macroblock_list) - 1 :
     /\ Left(last_macroblock_list[max_nonzero_reuse + 1]) = 0
     /\ Left(last_macroblock_list[p + 1]) > 0}

FallbackHigher ==
  /\ pc = "fallback"
  /\ max_nonzero_reuse >= 0
  /\ \E p \in HigherReuse :
       LET mb == last_macroblock_list[p + 1]
       IN  /\ \A o \in HigherReuse : o <= p
           /\ ContinueMB(mb, p, RepeatLast(mb, temp_reuse))

\* Mutant: draws another reuse distance instead.
FallbackMiss_draw_again ==
  /\ pc = "fallback"
  /\ IF max_nonzero_reuse >= Len(last_macroblock_list)
     THEN \E mb \in PickableMBs : ~ Fresh(mb)
     ELSE max_nonzero_reuse >= 0 => HigherReuse = {}
  /\ GoTo("next")
  /\ UNCHANGED <<per_MB_historytable, init_addrs>>
  /\ UNCHANGED_but_MB

\* Neither applies, or the 500 tries of case 7 are used up.
FallbackMiss ==
  /\ pc = "fallback"
  /\ IF max_nonzero_reuse >= Len(last_macroblock_list)
     THEN \E mb \in PickableMBs : ~ Fresh(mb)
     ELSE max_nonzero_reuse >= 0 => HigherReuse = {}
  /\ GoTo("forced")
  /\ UNCHANGED <<per_MB_historytable, init_addrs>>
  /\ UNCHANGED_but_MB

\* Case 9: any macroblock that is not on the list, from its first address.  The 10000
\* uniform tries are used up if each of them falls on another one.
OffList == {mb \in DOMAIN per_MB_historytable : ~ OnList(mb) /\ Left(mb) > 0}

ForceMaxReuse ==
  /\ pc = "forced"
  /\ MB_reuse[MAX_MB_REUSE] > 0
  /\ \/ DOMAIN per_MB_historytable \ OffList # {} /\ Abort("1716")
     \/ /\ \E mb \in OffList :
             Choose(mb, per_MB_historytable[mb].first_addr, MAX_MB_REUSE, 0, TRUE)
        /\ UNCHANGED <<per_MB_historytable, init_addrs>>
        /\ UNCHANGED_but_MB

\* Case 10: from the end of the list, the first macroblock whose reuse distance
\* is still to be generated and that has a delta to go on with.
OnListCandidates ==
  {p \in 0 .. Len(last_macroblock_list) - 1 :
     Left(last_macroblock_list[p + 1]) > 0 /\ MB_reuse[p] > 0}

ForceOnList ==
  /\ pc = "forced"
  /\ MB_reuse[MAX_MB_REUSE] = 0
  /\ \E p \in OnListCandidates :
       /\ \A o \in OnListCandidates : o > p => NoDelta(last_macroblock_list[o + 1])
       /\ get_next_delta(last_macroblock_list[p + 1], p)

\* Case 11: the first macroblock that has been generated and has accesses left.
ForceVisited ==
  LET rest == {mb \in DOMAIN new_MBs : Left(mb) > 0}
  IN  /\ pc = "forced"
      /\ MB_reuse[MAX_MB_REUSE] = 0
      /\ \A p \in OnListCandidates : NoDelta(last_macroblock_list[p + 1])
      /\ IF rest = {} THEN Abort("1803")
         ELSE LET mb == CHOOSE b \in rest : \A o \in rest : b <= o
                  reuse == is_mb_used(last_macroblock_list, mb)
              IN  ContinueMB(mb, reuse, RepeatLast(mb, reuse))

\* Mutant: counts below zero.
Spend_below_zero(ct, hits) == [i \in DOMAIN ct |-> IF i \in hits THEN ct[i] - 1 ELSE ct[i]]

\* One access less at the weights that are hit, never below zero.
Spend(ct, hits) == [i \in DOMAIN ct |-> IF i \in hits /\ ct[i] > 0 THEN ct[i] - 1 ELSE ct[i]]

\* The access is output and taken out of all statistics; the macroblock gets a
\* history it can go on from.
Commit ==
  LET mb    == this.mb
      m     == proxy_access(per_MB_historytable[mb], this.delta, this.first, this.addr)
      known == mb \in DOMAIN new_MBs
      again == known /\ m.last_N_deltas # << >>
      reuse_ct == Spend(unique_MB_reuse, {this.reuse})
      mb_ct    == Spend(unique_mb_ct, {i \in DOMAIN unique_mbs : unique_mbs[i] = mb})
  IN  /\ pc = "commit"
      /\ IF Left(mb) = 0 THEN Abort("570")
         ELSE IF ~ known /\ this.reuse # MAX_MB_REUSE THEN Abort("1839")
         ELSE IF again /\ ReinitAssert(m, mb) # "none" THEN Abort(ReinitAssert(m, mb))
         ELSE IF SumFunction(reuse_ct) = 0 THEN Abort("1884")
         ELSE IF SumFunction(mb_ct) = 0 THEN Abort("1924")
         ELSE /\ per_MB_historytable' =
                   [per_MB_historytable EXCEPT ![mb] = IF again THEN reinit_MB_delta(m, mb) ELSE m]
              /\ last_macroblock_list' = update_mb_reuse_list(last_macroblock_list, mb)
              /\ MB_reuse' = [MB_reuse EXCEPT ![this.reuse] = IF @ > 0 THEN @ - 1 ELSE @]
              /\ new_MBs' = [b \in DOMAIN new_MBs \cup {mb} |->
                               (IF b \in DOMAIN new_MBs THEN new_MBs[b] ELSE 0)
                               + (IF b = mb THEN 1 ELSE 0)]
              /\ unique_MB_reuse' = reuse_ct
              /\ unique_mb_ct' = mb_ct
              /\ gen_elems' = gen_elems + 1
              /\ this' = NoAccess
              /\ pc' = "next"
              /\ UNCHANGED <<input, global_delta_tables, unique_mbs, init_addrs, temp_reuse,
                             assert_failed>>

--------------------------------------------------------------------------------
(* The specification *)

Init ==
  /\ trace \in Traces
  /\ num_elems = 0
  /\ per_MB_historytable = NoEntries
  /\ global_delta_tables = NoEntries
  /\ last_macroblock_list = << >>
  /\ MB_reuse = [r \in 0 .. MAX_MB_REUSE |-> 0]
  /\ unique_mbs = << >>
  /\ unique_mb_ct = << >>
  /\ unique_MB_reuse = NoEntries
  /\ init_addrs = << >>
  /\ pc = "profile"
  /\ assert_failed = "none"
  /\ gen_elems = 0
  /\ new_MBs = NoEntries
  /\ temp_reuse = 0
  /\ this = NoAccess

\* The process has ended, or assert() has ended it.
Terminated == pc \in {"done", "abort"} /\ UNCHANGED vars

Step ==
  \/ ReadElement
  \/ EndOfTrace
  \/ Prepare
  \/ InitAccess
  \/ PickReuse
  \/ PickFresh
  \/ PickEvicted
  \/ GiveUp
  \/ PickLower
  \/ FallbackFresh
  \/ FallbackHigher
  \/ FallbackMiss
  \/ ForceMaxReuse
  \/ ForceOnList
  \/ ForceVisited
  \/ Commit
  \/ PhaseClear

Next == Step \/ Terminated

Spec == Init /\ [][Next]_vars

\* A single thread that never blocks: it keeps taking steps.
FairSpec == Spec /\ WF_vars(Step)

--------------------------------------------------------------------------------
(* Properties: the statistics against their definitions *)

Generating == pc \in {"next", "new", "grow", "lower", "fallback", "forced", "commit"}

\* The indices of the accesses of the phase that is being profiled or generated.
Phase ==
  LET begin == IF pc \in {"profile", "done"} THEN num_elems - (num_elems % PHASE_LEN)
               ELSE num_elems - PHASE_LEN
  IN  begin + 1 .. num_elems

Touches(mb) == {i \in Phase : MB(trace[i]) = mb}
Generated(mb) == IF mb \in DOMAIN new_MBs THEN new_MBs[mb] ELSE 0

MacroBlocks ==
  [last_addr : Int, first_addr : Int, last_N_deltas : Seq(Int), first_N_deltas : Seq(Int),
   saved_first_N_deltas : Seq(Int), num_accesses : Nat, first_proxy_gen : BOOLEAN]

\* The statistics keep their types; no history of deltas is longer than MAX_DELTA
\* (access_mb, proxy_access) and no reuse distance greater than MAX_MB_REUSE.
TypeOK ==
  /\ trace \in Traces
  /\ num_elems \in 0 .. Len(trace)
  /\ \A mb \in DOMAIN per_MB_historytable :
       /\ per_MB_historytable[mb] \in MacroBlocks
       /\ Len(per_MB_historytable[mb].last_N_deltas) <= MAX_DELTA
       /\ Len(per_MB_historytable[mb].saved_first_N_deltas) <= MAX_DELTA
  /\ \A k \in DOMAIN global_delta_tables : k \in Seq(Int) /\ Len(k) \in 1 .. MAX_DELTA
  /\ MB_reuse \in [0 .. MAX_MB_REUSE -> Nat]
  /\ pc \in {"profile", "prepare", "next", "new", "grow", "lower", "fallback", "forced", "commit",
             "done", "abort"}
  /\ gen_elems \in 0 .. GEN_LEN
  /\ temp_reuse \in 0 .. MAX_MB_REUSE
  /\ this.reuse \in 0 .. MAX_MB_REUSE

\* The reuse distance of access i of the phase: how many other macroblocks were
\* touched since the last touch of its own.
ReuseDistance(i) ==
  LET before == {j \in Phase : j < i /\ MB(trace[j]) = MB(trace[i])}
      since  == {j \in Phase : j < i /\ \A b \in before : b < j}
      others == {MB(trace[j]) : j \in since}
  IN  IF before = {} \/ Cardinality(others) >= MAX_MB_REUSE THEN MAX_MB_REUSE
      ELSE Cardinality(others)

\* While a phase is profiled the bounded LRU list yields for every access the
\* reuse distance of its definition, or MAX_MB_REUSE: check_addr_reuse.
ReuseIsDistinctBlocksBetween ==
  pc \in {"profile", "prepare"} =>
    \A r \in 0 .. MAX_MB_REUSE : MB_reuse[r] = Cardinality({i \in Phase : ReuseDistance(i) = r})

\* Where the trace touches a macroblock for the n-th time in this phase.
Touch(mb, n) == CHOOSE i \in Touches(mb) : Cardinality({j \in Touches(mb) : j <= i}) = n

\* The deltas between consecutive touches of a macroblock in this phase.
DeltasOf(mb) ==
  [n \in 1 .. Cardinality(Touches(mb)) - 1 |-> trace[Touch(mb, n + 1)] - trace[Touch(mb, n)]]

\* While a phase is profiled the tables count, for every history of up to
\* MAX_DELTA deltas of one macroblock, exactly what followed it: access_mb.
TablesCountFollowers ==
  pc \in {"profile", "prepare"} =>
    LET deltas == [mb \in DOMAIN per_MB_historytable |-> DeltasOf(mb)]
        occurrences == {o \in (DOMAIN deltas) \X (1 .. MAX_DELTA) \X (1 .. PHASE_LEN) :
                          o[2] < o[3] /\ o[3] <= Len(deltas[o[1]])}
        history(o)  == SubSeq(deltas[o[1]], o[3] - o[2], o[3] - 1)
        follower(o) == deltas[o[1]][o[3]]
    IN  /\ DOMAIN global_delta_tables = {history(o) : o \in occurrences}
        /\ \A o \in occurrences :
             Followed(global_delta_tables[history(o)], follower(o)) =
               Cardinality({p \in occurrences : history(p) = history(o) /\ follower(p) = follower(o)})

\* Cascading the tables loses no prediction: the longest history that is kept
\* of a recorded one (longer than one delta) has all its followers, and predicts
\* the next delta if any suffix does: manage_cascaded_tables.
CascadeKeepsPredictions ==
  pc = "next" /\ gen_elems = 0 =>
    \A k \in DOMAIN global_delta_tables : Len(k) > 1 =>
      LET suffixes == {Suffix(k, n) : n \in 1 .. Len(k)}
      IN  \E s \in suffixes :
            /\ global_delta_tables[s].valid
            /\ \A o \in suffixes : global_delta_tables[o].valid => Len(o) <= Len(s)
            /\ DOMAIN global_delta_tables[k].next_deltas \subseteq DOMAIN global_delta_tables[s].next_deltas
            /\ (\E o \in suffixes : access_full_perc(global_delta_tables[o]))
                 => access_full_perc(global_delta_tables[s])

--------------------------------------------------------------------------------
(* Properties: what the generator may consume *)

\* Every profiled access of a macroblock is either still to be generated or has
\* been: num_accesses and new_MBs add up to what the trace holds, in every phase.
BudgetConserved ==
  pc # "abort" =>
    /\ DOMAIN per_MB_historytable = {MB(trace[i]) : i \in Phase}
    /\ DOMAIN new_MBs \subseteq DOMAIN per_MB_historytable
    /\ \A mb \in DOMAIN per_MB_historytable :
         Left(mb) + Generated(mb) = Cardinality(Touches(mb))

\* The weights rand() is matched against are copies kept by hand of the counts
\* they were taken from, and stay equal to them.
WeightsInSync ==
  Generating =>
    /\ Len(unique_mb_ct) = Len(unique_mbs)
    /\ \A i \in 1 .. Len(unique_mbs) : unique_mb_ct[i] = Left(unique_mbs[i])
    /\ \A r \in DOMAIN unique_MB_reuse : unique_MB_reuse[r] = MB_reuse[r]
    /\ \A r \in 0 .. MAX_MB_REUSE : MB_reuse[r] > 0 => r \in DOMAIN unique_MB_reuse

\* The list never holds a macroblock twice nor too many, and in the generator
\* only macroblocks that have been generated (is_mb_used asserts the bound).
ListSound ==
  /\ Len(last_macroblock_list) <= MAX_MB_REUSE
  /\ \A i, j \in 1 .. Len(last_macroblock_list) :
       last_macroblock_list[i] = last_macroblock_list[j] => i = j
  /\ Generating =>
       \A i \in 1 .. Len(last_macroblock_list) : last_macroblock_list[i] \in DOMAIN new_MBs

\* As long as no macroblock can leave the list, an access that is due at the maximal
\* reuse distance has a macroblock that has not been generated to be made of.  There
\* may be fewer such accesses than macroblocks: case 8 can repeat the last address of
\* a listed one at the distance that was drawn.
NewBlocksFunded ==
  Generating /\ Cardinality(DOMAIN per_MB_historytable) <= MAX_MB_REUSE =>
    MB_reuse[MAX_MB_REUSE] <= Cardinality(DOMAIN per_MB_historytable \ DOMAIN new_MBs)

\* An access is output in its own macroblock, at the delta it is recorded with.
AccessConsistent ==
  pc = "commit" =>
    /\ MB(this.addr) = this.mb
    /\ ~ this.first => this.addr = per_MB_historytable[this.mb].last_addr + this.delta

\* A macroblock that has been generated and has accesses left has a history or
\* first deltas to go on from, and its last address is its own.
VisitedCanGoOn ==
  pc = "next" =>
    \A mb \in DOMAIN new_MBs :
      LET m == per_MB_historytable[mb]
      IN  /\ MB(m.last_addr) = mb
          /\ m.num_accesses > 0 => m.first_N_deltas # << >> \/ m.last_N_deltas # << >>

--------------------------------------------------------------------------------
(* Properties: the assertions of the program *)

\* get_next_delta: the first deltas of a macroblock, replayed from its first
\* address, never leave it.
ReplayStaysInBlock == assert_failed # "935"

\* The first addresses of a phase, generated again, meet the recorded deltas.
PrefixMeetsRecord == assert_failed # "1282"

\* A macroblock that is generated for the first time in a phase has not been started on
\* before, and is generated at the maximal reuse distance.  (The converse does not hold
\* once macroblocks leave the list.)
NewBlocksAreFirst == assert_failed \notin {"422", "1334", "1839"}

\* No counter of accesses to generate is used up before the phase is over.
NothingRunsOut == assert_failed \notin {"570", "1272", "1884", "1924"}

\* Where the generator must use the maximal reuse distance, whose 10000 tries end in an
\* assert(0), there is a macroblock off the list with accesses left for them to find:
\* only bad luck makes that assertion fail.
NewBlockAvailable == pc = "forced" /\ MB_reuse[MAX_MB_REUSE] > 0 => OffList # {}

\* A macroblock that is generated has a history, or else a first address, to go on from
\* (reinit_MB_delta).
ReinitSucceeds == assert_failed \notin {"1090", "1100", "1149"}

\* There is always a macroblock to generate an access for: the last resort of
\* generate_proxy_access finds one that has been generated and has accesses left.
NeverStuck == assert_failed # "1803"

--------------------------------------------------------------------------------
(* The abstract specification *)

\* The generator draws the accesses of each phase without replacement, and as
\* many as the phase is due, before it reads on: HaloBudget, with num_accesses
\* for the budget of a macroblock.
Budget ==
  INSTANCE HaloBudget WITH
    left <- [mb \in DOMAIN per_MB_historytable |-> per_MB_historytable[mb].num_accesses],
    drawn <- gen_elems,
    mode <- IF pc = "profile" THEN "count" ELSE IF pc \in {"done", "abort"} THEN "end" ELSE "draw"

DrawsWithoutReplacement == Budget!Spec

\* While a phase is due an access, some macroblock has one left to generate.
EnoughAccessesLeft == Budget!EnoughLeft

--------------------------------------------------------------------------------
(* Progress *)

\* The retry loops of the generator come to an end in every phase, and so does
\* the program.
EndsEventually == <>(pc \in {"done", "abort"})

================================================================================
