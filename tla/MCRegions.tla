------------------------------- MODULE MCRegions ------------------------------
(* Two regions.  HALO's lines name one of four macroblocks and a stride; the   *)
(* proxy's addresses lie in four macroblocks of four bytes, and behind the     *)
(* array is zero, or not.                                                      *)
EXTENDS Regions

FourBlocks == [mb : 1 .. 4, addr : {0}, offset : {0, 3}]
SomeAddresses == [mb : {0}, addr : {4, 6, 9, 13, 15, 30}, offset : {0}]
Anything == {0, 11}

\* The hypothesis of StridesReplayAddresses.
ASSUME NothingNearZero == ZeroIsAlone
================================================================================
