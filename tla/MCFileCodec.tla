---------------------------- MODULE MCFileCodec ----------------------------
(***************************************************************************)
(* Codes and sizes for TLC.  Sizes around the multiples of the buffer; the *)
(* parameters of the storage servers are k = 4, m = 2, w = 8.              *)
(***************************************************************************)
EXTENDS FileCodec

Case(tech, k, m, w, size, buffersize) ==
  [tech |-> tech, k |-> k, m |-> m, w |-> w, size |-> size, buffersize |-> buffersize]

MCTableWidths == {2, 3, 4, 8, 10}
MCCases ==
  {Case("cauchy_good", 2, 2, 2, size, 7) : size \in {1, 7, 8, 9, 16, 19, 25}}
    \cup {Case("cauchy_orig", 3, 2, 3, size, 9) : size \in {9, 10}}
    \cup {Case("cauchy_good", 3, 3, 3, 20, 18), Case("cauchy_good", 4, 2, 8, 40, 32),
          Case("liberation", 3, 2, 3, 28, 9), Case("blaum_roth", 2, 2, 4, 9, 8),
          Case("cauchy_good", 2, 3, 10, 20, 20), Case("cauchy_orig", 2, 2, 23, 46, 46),
          Case("liber8tion", 2, 2, 8, 33, 16),
          Case("reed_sol_van", 2, 2, 32, 9, 64),
          Case("reed_sol_van", 4, 2, 8, 33, 32), Case("reed_sol_r6_op", 4, 2, 8, 32, 32)}
=============================================================================
