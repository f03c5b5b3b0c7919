----------------------------- MODULE MCTransfer -----------------------------
(***************************************************************************)
(* Transfer with values for its constants, for TLC.                        *)
(***************************************************************************)
EXTENDS Transfer, TLC

OneChunk == <<"a">>
TwoChunks == <<"a", "b">>
ThreeChunks == <<"a", "b", "c">>
FourChunks == <<"a", "b", "c", "d">>

\* The children differ in nothing but their address.
ChildSymmetry == Permutations(Child)
=============================================================================
