-------------------------- MODULE MCS3Credentials ---------------------------
(***************************************************************************)
(* Small instances of S3Credentials for TLC.                               *)
(***************************************************************************)
EXTENDS S3Credentials, TLC

\* Workers are interchangeable; model values of the .cfg.
WorkerSymmetry == Permutations(Caller)
=============================================================================
