----------------------------- MODULE MCHaLease -----------------------------
(* Small groups for HaLease. The worst clocks are a leader 10% slow under    *)
(* voters 10% fast.                                                          *)
EXTENDS HaLeaseInv

CONSTANTS a, b, w

SlowA == [n \in Voters |-> IF n = a THEN {9} ELSE {11}]

=============================================================================
