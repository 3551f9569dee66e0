----------------------------- MODULE MCSettings -----------------------------
(* Model-checking instance of Settings: profiles with and without a         *)
(* blocklist, policies that differ in their row, their lists, or both.      *)
EXTENDS Settings

CONSTANTS e1, u1, f1, f2, l1, l2
=============================================================================
