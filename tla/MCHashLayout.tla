---------------------------- MODULE MCHashLayout ----------------------------
EXTENDS HashLayout
=============================================================================
