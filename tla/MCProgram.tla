----------------------------- MODULE MCProgram -----------------------------
EXTENDS Program

\* The first of the two fragments has two hashes, both begun by its first read and
\* the second of them ended by its last; MCBegun and MCEnded are what the cfg gives
\* Begun and Ended.
MCHashes(i) == IF i = 0 THEN 2 ELSE 1
MCBegun == [i \in 0 .. 1 |-> [r \in 0 .. NReads |-> IF r = 0 THEN 0 ELSE MCHashes(i)]]
MCEnded == [i \in 0 .. 1 |-> [r \in 0 .. NReads |->
              IF r = NReads THEN MCHashes(i) ELSE IF r = 0 THEN 0 ELSE 1]]
=============================================================================
