--------------------------- MODULE MCSeekPipeline ---------------------------
(***************************************************************************)
(* Small instances of SeekPipeline: calls r1 and r2 share a transaction_id. *)
(***************************************************************************)
EXTENDS SeekPipeline

CONSTANTS r1, r2, t1

MCTxnOf == [r \in Request |-> t1]

(***************************************************************************)
(* The two calls differ in nothing but how they arrive, so of two          *)
(* behaviours that differ by an exchange of r1 and r2 one is enough: the   *)
(* one in which the kind of r1, in an arbitrary order, is not after that   *)
(* of r2.  (A symmetry set would not be sound for the liveness properties; *)
(* this removes arrivals only, which no fairness condition is about.)      *)
(***************************************************************************)
MCRank == [v1 |-> 0, v2 |-> 3, complete |-> 0, no_sender_uri |-> 1, malformed |-> 2]
MCKind(r) == MCRank[door[r]] + MCRank[form[r]]

MCOneOrder ==
  stage'[r1] # "new" /\ stage'[r2] # "new" => MCKind(r1)' <= MCKind(r2)'
=============================================================================
