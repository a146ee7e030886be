----------------------------- MODULE MCFileStore -----------------------------
(* FileStore for TLC: callers, users and contents are interchangeable. *)
EXTENDS FileStore, TLC

FileSymmetry == Permutations(Callers) \cup Permutations(Users) \cup Permutations(Keys)
=============================================================================
