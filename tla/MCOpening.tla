----------------------------- MODULE MCOpening -----------------------------
(* Every system with one ordinary input, and every input with an ordinary   *)
(* system.  Devices ask for byte, long, quad and 512-byte alignment, the    *)
(* answers of two are refused; names need no, one or two larger buffers,    *)
(* and a volume's that needs one may be refused as too small.  The integer  *)
(* types are scaled down: UINT has 8 bits, ULONGLONG 16, units are shifts   *)
(* by 1, 3 and 6.  In the last family fragments share sectors.              *)
EXTENDS Opening

Devices == {<<a, 512>> : a \in {0, 3, 5, 7, 511}} \cup {<<a, 520>> : a \in {7, 511}}

Case(complete, eof, blocks, unit, n, cached, f, h, vols, tooSmall, volume, file, pen) ==
  [complete |-> complete, eof |-> eof, blocks |-> blocks, unit |-> unit, nIO |-> n,
   cached |-> cached, fileAlign |-> f[1], fileSector |-> f[2],
   hashAlign |-> h[1], hashSector |-> h[2],
   volumes |-> vols, tooSmall |-> tooSmall, volume |-> volume, file |-> file, penalty |-> pen]

MCCases ==
  {Case(TRUE, eof, 1, 3, n, cached, f, h, a[1], a[2], volume, file, pen) :
     eof \in {0, 100}, n \in {1, 8}, cached \in BOOLEAN, f \in Devices, h \in Devices,
     a \in {<<TRUE, TRUE>>, <<TRUE, FALSE>>, <<FALSE, FALSE>>},
     volume \in {1, 9}, file \in {1, 12}, pen \in BOOLEAN}
  \cup
  {Case(complete, eof, blocks, unit, n, TRUE, <<0, 512>>, <<0, 512>>,
        TRUE, FALSE, 1, 1, TRUE) :
     complete \in BOOLEAN, eof \in {1, 8, 127, 128, 255, 16383, 32767},
     blocks \in {0, 1, 2, 3, 128, 255}, unit \in {1, 3, 6}, n \in {0, 1, 2, 99, 100, 255}}
  \cup
  {Case(TRUE, eof, blocks, unit, 2, FALSE, <<0, sector>>, <<0, 512>>,
        TRUE, FALSE, 1, 1, TRUE) :
     eof \in {1, 8, 9, 16, 17, 127, 16383, 32767}, blocks \in {0, 1, 3, 5, 255},
     unit \in {1, 3}, sector \in {4, 5, 6}}
=============================================================================
