------------------------------ MODULE MCVtLock ------------------------------
(* Model checking of VtLock: the constants' values for TLC.                *)
EXTENDS VtLock, TLC

(* uint32_t wraps after 2^32 tries; here after MCTriesModulus.             *)
MCTriesModulus == 2

(* No property depends on which of the passwords is which.                 *)
PasswordSymmetry == Permutations(Passwords)
=============================================================================
