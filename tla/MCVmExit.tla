------------------------------ MODULE MCVmExit ------------------------------
(***************************************************************************)
(* VmExit with every clean bit set at an exit.                             *)
(***************************************************************************)
EXTENDS VmExit

AllClean == {Groups}
=============================================================================
