---------------------------- MODULE MCPasswordFile ----------------------------
(* Two vtlocks, each run twice, and two passwords, for TLC.                *)
EXTENDS PasswordFile, TLC

SetupSymmetry == Permutations(Procs) \cup Permutations(Passwords)
=============================================================================
