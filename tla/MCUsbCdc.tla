------------------------------ MODULE MCUsbCdc ------------------------------
(***************************************************************************)
(* UsbCdc for model checking: its writers are interchangeable, and so are  *)
(* the URBs of the bulk-out pipe.  The initial state puts these into the   *)
(* pipe in one order; the steps treat them alike, so any other order would *)
(* only rename the states that follow.                                     *)
(***************************************************************************)
EXTENDS UsbCdc, TLC

Symmetry == Permutations(OutUrbs) \cup Permutations(Writers)
=============================================================================
