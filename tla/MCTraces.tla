------------------------------- MODULE MCTraces -------------------------------
(* Short traces of four kinds, each with parameters that make something of it. *)
EXTENDS LinkedList

Given(traces, store, array, minimum, prune) ==
  [strides : traces, store_ratio : {store}, min_array_access_ratio : {array},
   min_list_stride : {minimum}, prune_bad_lists : {prune}]

\* Strides of every kind, none, less than an entry, of both signs and of neighbouring
\* magnitudes, culled as MindProx.py configures it or with a minimum for the list's strides.
MixedTraces == UNION {[1 .. n -> {0, -4, 56, -44, 100}] : n \in 1 .. 4}
Culled == Given(MixedTraces, 40, 20, NoMinimum, FALSE) \cup Given(MixedTraces, 0, 20, 1, FALSE)

\* Lists whose nodes push each other aside.
Dense == Given([1 .. 6 -> {0, 8, -8}], 0, 0, NoMinimum, FALSE)

\* Lists that are worth optimizing.
Loose == Given([1 .. 4 -> {0, 16, -24, 64}], 0, 0, NoMinimum, FALSE)

\* Traces that go back and forth: their lists spread, and are pruned.
Looping == Given([1 .. 7 -> {8, -14, 44}], 0, 0, NoMinimum, TRUE)

AllInputs == Culled \cup Dense \cup Loose \cup Looping
================================================================================
