----------------------------- MODULE MCRealtime -----------------------------
(* A page, the worker it is connected to, and one slot more than a page      *)
(* holds at once.                                                            *)
EXTENDS Realtime, TLC
=============================================================================
