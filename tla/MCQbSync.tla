------------------------------ MODULE MCQbSync ------------------------------
(* Model-checking instance of QbSync.                                       *)
EXTENDS QbSync
=============================================================================
