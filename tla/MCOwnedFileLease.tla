-------------------------- MODULE MCOwnedFileLease --------------------------
(***************************************************************************)
(* Instances of OwnedFileLease: three contenders, and as many inodes as   *)
(* there can be open candidates.                                           *)
(***************************************************************************)
EXTENDS OwnedFileLease, TLC

CONSTANTS p1, p2, p3, i1, i2, i3

Sym == Permutations({i1, i2, i3}) \union Permutations({p2, p3})
=============================================================================
