------------------------------- MODULE Layout -------------------------------
(***************************************************************************)
(* How a buffer is cut into parts (src/rank/layout.rs).  Positions and     *)
(* partitions count from 0, as in the code; a range is its start and its   *)
(* length.                                                                 *)
(***************************************************************************)
EXTENDS Integers

Smaller(a, b) == IF a <= b THEN a ELSE b

(* The length of part p: the first length % partitions parts get one more.  *)
BalancedLength(length, partitions, p) ==
  length \div partitions + (IF p < length % partitions THEN 1 ELSE 0)

(* Mutant: the longer parts are not counted in the starts.                  *)
BalancedStartNoRemainder(length, partitions, p) == p * (length \div partitions)

(* What the running `start' of balanced_ranges is when it reaches part p.   *)
BalancedStart(length, partitions, p) ==
  p * (length \div partitions) + Smaller(p, length % partitions)
=============================================================================
