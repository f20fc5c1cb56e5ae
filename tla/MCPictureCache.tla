-------------------------- MODULE MCPictureCache --------------------------
(* PictureCache with the symmetry of its threads and objects, for TLC. *)
EXTENDS PictureCache, TLC

Symmetry == Permutations(Threads) \union Permutations(Objects)
=============================================================================
