------------------------ MODULE MCRundownProtection ------------------------
(* Three threads on the word with the sign bit the program uses.           *)
EXTENDS RundownProtection

MCv_init == -2147483647 - 1
=============================================================================
