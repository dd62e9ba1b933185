---------------------------- MODULE MCUploadPool ----------------------------
(***************************************************************************)
(* Small instances of UploadPool for TLC.                                  *)
(***************************************************************************)
EXTENDS UploadPool, TLC

\* Paths are interchangeable, and so are legal keys; model values of the .cfg.
PoolSymmetry == Permutations(Path) \cup Permutations(LegalKey)

\* The files sent to a key, over all the calls of a behaviour.
MaxSent == 4

FewSent == Cardinality(sent) <= MaxSent
=============================================================================
