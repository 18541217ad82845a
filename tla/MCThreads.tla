------------------------------- MODULE MCThreads ------------------------------
(* Two threads, and two branches. *)
EXTENDS BranchThreads

CONSTANTS t1, t2

TwoThreads == {t1, t2}
TwoBranches == {1, 2}
================================================================================
