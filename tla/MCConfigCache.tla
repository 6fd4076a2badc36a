--------------------------- MODULE MCConfigCache ---------------------------
(***************************************************************************)
(* ConfigCache for model checking: the row is there, goes, and comes back. *)
(***************************************************************************)
EXTENDS ConfigCache, TLC

CONSTANTS r1, r2

MCReader == {r1, r2}
MCOccupied == {0, 2}
MCSymmetry == Permutations(MCReader)
=============================================================================
