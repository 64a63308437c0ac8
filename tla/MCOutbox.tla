------------------------------ MODULE MCOutbox ------------------------------
(***************************************************************************)
(* Instances of MutationOutbox for TLC.                                    *)
(***************************************************************************)
EXTENDS MutationOutbox
=============================================================================
