---------------------------- MODULE MCVncConsole ----------------------------
(* Instances of VncConsole for TLC.                                        *)
EXTENDS VncConsole
=============================================================================
