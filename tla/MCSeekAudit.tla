---------------------------- MODULE MCSeekAudit ----------------------------
(***************************************************************************)
(* SeekAudit for model checking.                                           *)
(***************************************************************************)
EXTENDS SeekAudit
=============================================================================
