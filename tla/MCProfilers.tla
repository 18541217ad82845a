----------------------------- MODULE MCProfilers ------------------------------
(* Two branches; intervals that end within basic blocks and right before them; a ring  *)
(* that wraps; threads that are in the tool at the same time.                          *)
EXTENDS Profilers

CONSTANTS t1, t2

TwoThreads == {t1, t2}
TwoBranches == {1, 2}
================================================================================
