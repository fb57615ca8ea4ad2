---------------------------- MODULE MCAuthSession ----------------------------
(* A browser with two users for TLC. *)
EXTENDS AuthSession
=============================================================================
