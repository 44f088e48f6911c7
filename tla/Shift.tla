---------------------------------- MODULE Shift ----------------------------------
(***************************************************************************)
(* Powers of two as the code writes them, 1 << n, up to the first one that *)
(* does not fit a usize.                                                   *)
(***************************************************************************)
EXTENDS Integers

CONSTANT UBITS     \* bits of a usize

ASSUME ShiftAssumption == UBITS \in Nat

\* 1 << n
Shl[n \in 0..UBITS] == IF n = 0 THEN 1 ELSE 2 * Shl[n - 1]
====
