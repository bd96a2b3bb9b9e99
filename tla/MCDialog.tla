------------------------------ MODULE MCDialog ------------------------------
(* Three CTask objects: one that is ending, one that runs, one to come.     *)
EXTENDS Dialog
=============================================================================
