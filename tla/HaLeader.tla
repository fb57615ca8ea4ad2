----------------------------- MODULE HaLeader ------------------------------
(***************************************************************************)
(* What the lease protocol promises the rest of the program: at most one   *)
(* member holds the lease, it is the winner of the newest term, and a new  *)
(* term begins only while nobody holds it.                                 *)
(***************************************************************************)
EXTENDS Naturals

CONSTANTS Members, None

VARIABLES
    term,      \* the newest term anybody won
    winner,    \* who won it
    holder     \* who holds the lease, None for nobody

vars == <<term, winner, holder>>

Init == term \in Nat /\ winner \in Members /\ holder = winner

(* A member wins a later term: nobody may hold the lease of an earlier one. *)
Elect ==
    /\ holder = None
    /\ term' \in Nat /\ term' > term
    /\ winner' \in Members
    /\ UNCHANGED holder

(* Only the winner of the newest term is given the lease. *)
Gain == holder = None /\ holder' = winner /\ UNCHANGED <<term, winner>>

(* The lease ran out, was given up or handed on, or its process ended. *)
Lapse == holder # None /\ holder' = None /\ UNCHANGED <<term, winner>>

Next == Elect \/ Gain \/ Lapse

Spec == Init /\ [][Next]_vars

=============================================================================
