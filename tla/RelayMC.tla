------------------------------- MODULE RelayMC -------------------------------
(***************************************************************************)
(* Instances of the program for model checking; the .cfg files give the    *)
(* sizes.                                                                  *)
(***************************************************************************)
EXTENDS Relay
=============================================================================
