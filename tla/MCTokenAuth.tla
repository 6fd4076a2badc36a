---------------------------- MODULE MCTokenAuth ----------------------------
(***************************************************************************)
(* TokenAuth for model checking: one account's token, good for one of two  *)
(* sender_ids, used by two requests.                                       *)
(***************************************************************************)
EXTENDS TokenAuth, TLC

CONSTANTS t1, s1, s2, account

MCSubOf == t1 :> account
MCValidFor == t1 :> {s1}
=============================================================================
