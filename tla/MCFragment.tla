----------------------------- MODULE MCFragment -----------------------------
(* Small files, block sizes and sector sizes, and one file at true scale.   *)
EXTENDS Fragment

MCGood == {f \in [eof : 1 .. 40, cbBlock : 1 .. 18, sector : {1, 2, 4},
                  hashMayFail : {FALSE}] : f.eof > f.cbBlock \/ f.eof % 5 = 0}
MCBad == [eof : 1 .. 12, cbBlock : 1 .. 9, sector : {1, 2}, hashMayFail : {TRUE}]
MCFiles == MCGood \cup MCBad

\* At their true scale: IDC_EDIT3 = 3, "KB", a file that ends 100 bytes behind
\* its first fragment, a disk with sectors of 4096 bytes.
MCThreeKB == [eof : {1050724}, cbBlock : {3072}, sector : {4096}, hashMayFail : {FALSE}]
=============================================================================
