-------------------------------- MODULE MCHalo --------------------------------
(***************************************************************************)
(* Small traces for HaloLocality.  A macroblock is two bytes, so block 0   *)
(* holds addresses 0 and 1, block 1 holds 2 and 3, block 2 holds 4 and 5.  *)
(* A phase is a run over block 0 with a few short visits of the others:    *)
(* their accesses can be used up by the PHASE_LEN / 5 that are generated.  *)
(***************************************************************************)
EXTENDS HaloLocality

Motifs == {<<0, 1>>, <<0, 0, 1>>, <<1, 0, 1, 1, 0>>}

\* The first n addresses of a motif repeated for ever.
Repeat(motif, n) == [i \in 1 .. n |-> motif[((i - 1) % Len(motif)) + 1]]

\* Sequence s with the addresses of visit inserted after its first i.
Visit(s, i, visit) == SubSeq(s, 1, i) \o visit \o SubSeq(s, i + 1, Len(s))

TwoBlockPhases ==
  {Visit(Visit(Repeat(m, PHASE_LEN - Len(v) - Len(w)), i, v), j, w) :
     m \in Motifs, i \in {0, 3}, j \in {5, 12},
     v \in {<<2>>, <<3, 2>>}, w \in {<<2>>, <<2, 3>>, <<3, 2, 2, 3>>}}

ThreeBlockPhases ==
  {Visit(Visit(Visit(Repeat(m, PHASE_LEN - Len(v) - 2), i, v), j, <<5>>), 12, <<3>>) :
     m \in Motifs, i \in {0, 3}, j \in {2, 9}, v \in {<<2>>, <<3, 2>>}}

SingleAccessPhases ==
  {Visit(Repeat(m, PHASE_LEN - 1), i, <<2>>) : m \in Motifs, i \in {5, PHASE_LEN - 1}}

OnePhase == TwoBlockPhases \cup ThreeBlockPhases \cup SingleAccessPhases

\* Phases in which blocks alternate and none is used up soon, two of them and
\* the beginning of a third.
MixedPhases ==
  {Repeat(<<0, 2, 3, 1, 0, 3>>, PHASE_LEN), Repeat(<<2, 2, 3, 0, 1>>, PHASE_LEN),
   Repeat(<<0, 1, 4, 2, 0, 5, 3>>, PHASE_LEN), Repeat(<<4, 5, 4, 4, 5, 0>>, PHASE_LEN),
   Visit(Repeat(<<0, 1>>, PHASE_LEN - 1), 7, <<3>>)}

SeveralPhases == {p \o q \o <<1, 2, 0>> : p, q \in MixedPhases}

\* Two short blocks, of two accesses each, and a long run over a third.
ShortBlocksPhase == {<<0, 1, 2, 3>> \o Repeat(<<4>>, PHASE_LEN - 4)}

--------------------------------------------------------------------------------
(* Without bad luck: the retry loops find what their weights let them find. *)

Eligible == {mb \in PickableMBs : ~ OnList(mb) /\ Left(mb) > 0}

Patient ==
  /\ pc \in {"new", "grow"} /\ pc' = "fallback" => Eligible = {}
  /\ pc = "fallback" /\ pc' = "forced" /\ max_nonzero_reuse >= Len(last_macroblock_list)
       => ~ \E mb \in PickableMBs : Fresh(mb)
  /\ pc = "forced" /\ assert_failed' = "1716" => OffList = {}

PatientSpec == Init /\ [][Next /\ Patient]_vars
================================================================================
