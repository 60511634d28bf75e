------------------------------ MODULE BufListMC ------------------------------
(***************************************************************************)
(* The pool on its own, under a caller that reads, writes and frees in any *)
(* order and with any result of the system calls: two frames are in the    *)
(* pool at most, so a run of MaxBytes bytes sends every buffer round       *)
(* several times.                                                          *)
(***************************************************************************)
EXTENDS BufList
=============================================================================
