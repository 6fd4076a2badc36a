---------------------------- MODULE MCSeekDoors ----------------------------
(***************************************************************************)
(* SeekDoors for model checking: two keys, the home state and another one. *)
(* One call, since no call's step looks at another's; three restarts, for  *)
(* a gateway that is connected and then has its key rotated.               *)
(***************************************************************************)
EXTENDS SeekDoors, TLC

CONSTANTS c1, k1, k2

MCCall == {c1}
MCKey == {k1, k2}
MCSymmetry == Permutations(MCKey)
=============================================================================
