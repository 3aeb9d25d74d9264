-------------------------------- MODULE Codes --------------------------------
(***************************************************************************)
(* S/cauchy.c, S/reed_sol.c and S/liberation.c: the coding matrices.  A    *)
(* matrix is a function of rows and columns to words.  A bit matrix has    *)
(* sets of columns as rows: row i * w + l makes packet l of coding drive   *)
(* i, column j * w + x is packet x of data drive j.                        *)
(***************************************************************************)
EXTENDS Galois

NoMatrix == <<>>      \* NULL: the parameters do not allow the code

Reciprocal(x, w) == galois_single_divide(One, x, w)
ScaleRow(row, c, w) == [j \in DOMAIN row |-> galois_single_multiply(row[j], c, w)]

-----------------------------------------------------------------------------
(* cauchy.c *)

\* The number of ones of the w x w bit matrix of n, kept up from one column,
\* n * 2^i, to the next by looking at the bits of the polynomial only.
OnesOfNext(s, PP, w) ==
  LET high == w - 1 \in s.n
      n2   == Xor(ShiftLeft(s.n, 1, w), IF high THEN PP ELSE Zero)
      cno2 == IF high THEN s.cno - 1 + Cardinality(n2 \cap PP) - Cardinality(PP \ n2) ELSE s.cno
  IN  [n |-> n2, cno |-> cno2, no |-> s.no + cno2]

OnesOfSquare(n, PP, w) ==
  Loop(LAMBDA s, i : OnesOfNext(s, PP, w),
       [n |-> n, cno |-> Cardinality(n), no |-> Cardinality(n)], w - 1).no

cauchy_n_ones(n, w) == OnesOfSquare(n, galois_single_multiply({w - 1}, {1}, w), w)

cauchy_xy_coding_matrix(k, m, w, X, Y) ==
  [i \in 0..m-1 |-> [j \in 0..k-1 |-> Reciprocal(Xor(X[i], Y[j]), w)]]

cauchy_original_coding_matrix(k, m, w) ==
  IF w < 31 /\ k + m > 2^w THEN NoMatrix
  ELSE [i \in 0..m-1 |-> [j \in 0..k-1 |-> Reciprocal(Xor(Bits(i), Bits(m + j)), w)]]

RowOnes(row, w) == MapThenSumSet(LAMBDA j : cauchy_n_ones(row[j], w), DOMAIN row)

Divided(row, j, w) == ScaleRow(row, Reciprocal(row[j], w), w)

\* The first of the quotients with the fewest ones, if fewer than the row has.
\* costs[j] is the number of ones of the row divided by element j, `ones' the row's own.
CheapestRow(row, ones, costs, w) ==
  LET better == {j \in DOMAIN costs : costs[j] < ones}
      Best(j) == \A l \in better : costs[j] < costs[l] \/ (costs[j] = costs[l] /\ j <= l)
  IN  IF better = {} THEN row ELSE Divided(row, CHOOSE j \in better : Best(j), w)

ImprovedRow(row, w) ==
  CheapestRow(row, RowOnes(row, w),
              [j \in {c \in DOMAIN row : row[c] # One} |-> RowOnes(Divided(row, j, w), w)], w)

OnesInRow0(matrix, w) ==
  [i \in DOMAIN matrix |-> [j \in DOMAIN matrix[0] |->
     galois_single_multiply(matrix[i][j], Reciprocal(matrix[0][j], w), w)]]

ImproveOtherRows(matrix, w) ==
  [i \in DOMAIN matrix |-> IF i = 0 THEN matrix[i] ELSE ImprovedRow(matrix[i], w)]

\* Divide each column by its first element; then divide each other row by
\* the first of its elements with which the row gets the fewest ones.
cauchy_improve_coding_matrix(k, m, w, matrix) ==
  IF matrix = NoMatrix THEN NoMatrix ELSE ImproveOtherRows(OnesInRow0(matrix, w), w)

\* Second rows found by search for m = 2: the first elements of the tables for
\* w = 2, 3, 4 and 8, and how many there are.
cbest_max_k == <<-1, 3, 7, 15, 31, 63, 127, 255, 511, 1023, 1023>>
cbest_all(w) == CASE w = 2 -> <<1, 2, 3>>
                  [] w = 3 -> <<1, 2, 5, 4, 7, 3, 6>>
                  [] w = 4 -> <<1, 2, 9, 4, 8, 13, 3, 6>>
                  [] w = 8 -> <<1, 2, 142, 4, 71, 8, 70, 173>>

cauchy_good_general_coding_matrix(k, m, w) ==
  IF m = 2 /\ w <= 11 /\ k <= cbest_max_k[w]
  THEN [i \in 0..1 |-> [j \in 0..k-1 |-> IF i = 0 THEN One ELSE Bits(cbest_all(w)[j + 1])]]
  ELSE cauchy_improve_coding_matrix(k, m, w, cauchy_original_coding_matrix(k, m, w))

-----------------------------------------------------------------------------
(* reed_sol.c *)

\* Row i is 1, i, i^2, ...; the first row is the first unit vector and the
\* last row the last one.
reed_sol_extended_vandermonde_matrix(rows, cols, w) ==
  IF w < 30 /\ (2^w < rows \/ 2^w < cols) THEN NoMatrix
  ELSE [i \in 0..rows-1 |->
          LET power[j \in 0..cols-1] ==
                IF j = 0 THEN One ELSE galois_single_multiply(power[j-1], Bits(i), w)
          IN  [j \in 0..cols-1 |->
                 CASE i = 0 -> IF j = 0 THEN One ELSE Zero
                   [] i # 0 /\ i = rows - 1 -> IF j = cols - 1 THEN One ELSE Zero
                   [] OTHER -> power[j]]]

\* Column i divided by its element in row i, then subtracted from the others
\* as often as row i says.
DivideColumn(d, i, w) ==
  [j \in DOMAIN d |->
     [d[j] EXCEPT ![i] = galois_single_multiply(Reciprocal(d[i][i], w), d[j][i], w)]]

SubtractColumn(e, i, w) ==
  [j \in DOMAIN e |-> [c \in DOMAIN e[j] |->
     IF c = i THEN e[j][c] ELSE Xor(e[j][c], galois_single_multiply(e[i][c], e[j][i], w))]]

\* Column i of the way to an identity on top: swap in a row with a diagonal element.
UnitRow(dist, i, w) ==
  LET r == Min({j \in DOMAIN dist : j >= i /\ dist[j][i] # Zero})
  IN  SubtractColumn(DivideColumn(SwapRows(dist, i, r), i, w), i, w)

\* The columns below row `cols' are divided by their elements in it, then the
\* rows below by their first elements.
OnesBelow(dist, cols, w) ==
  [i \in DOMAIN dist |->
     IF i < cols THEN dist[i]
     ELSE [j \in DOMAIN dist[i] |->
             galois_single_multiply(Reciprocal(dist[cols][j], w), dist[i][j], w)]]

OnesInColumn0(dist, cols, w) ==
  [i \in DOMAIN dist |-> IF i <= cols THEN dist[i] ELSE Divided(dist[i], 0, w)]

\* The first coding row and the first column of the coding rows are made ones.
SystematicMatrix(vdm, cols, w) ==
  IF vdm = NoMatrix THEN NoMatrix
  ELSE OnesInColumn0(OnesBelow(Loop(LAMBDA d, i : UnitRow(d, i + 1, w), vdm, cols - 1), cols, w),
                     cols, w)

reed_sol_big_vandermonde_distribution_matrix(rows, cols, w) ==
  IF cols >= rows THEN NoMatrix
  ELSE SystematicMatrix(reed_sol_extended_vandermonde_matrix(rows, cols, w), cols, w)

CodingRows(dist, k) ==
  IF dist = NoMatrix THEN NoMatrix ELSE [i \in 0..Cardinality(DOMAIN dist)-k-1 |-> dist[k + i]]

reed_sol_vandermonde_coding_matrix(k, m, w) ==
  CodingRows(reed_sol_big_vandermonde_distribution_matrix(k + m, k, w), k)

reed_sol_r6_coding_matrix(k, w) ==
  LET tmp[i \in 0..k-1] == IF i = 0 THEN One ELSE galois_single_multiply(tmp[i-1], {1}, w)
  IN  IF w \notin {8, 16, 32} THEN NoMatrix
      ELSE [i \in 0..1 |-> [j \in 0..k-1 |-> IF i = 0 THEN One ELSE tmp[j]]]

\* All lanes of w bits of a word of `word' bits are doubled at once: the lanes
\* whose high bit is set get a mask of ones by a subtraction that borrows.
region_multby_2(l, w, word) ==
  LET All(x) == {n * w + b : n \in 0..(word \div w)-1, b \in x}
      high   == l \cap All({w - 1})
      ones   == Bits((Number(ShiftLeft(high, 1, word)) - Number(ShiftRight(high, w - 1)))
                       % 2^word)
  IN  Xor(ShiftLeft(l, 1, word) \cap All(1..w-1),
          ones \cap All(galois_single_multiply({w - 1}, {1}, w)))

\* Regions of one word for each drive: their sum, and by Horner's rule the sum
\* of 2^j * D_j.
reed_sol_r6_encode(k, w, data) ==
  [i \in 0..1 |->
     IF i = 0 THEN XorAll(data, 0..k-1)
     ELSE Loop(LAMBDA s, n : Xor(region_multby_2(s, w, w), data[k - 2 - n]), data[k - 1], k - 1)]

-----------------------------------------------------------------------------
(* liberation.c: bit matrices for two coding drives *)

\* Coding drive 0 is the sum of the data drives, 1 is given by the columns
\* Block(j, l) of data drive j in its row l.
TwoCodingDrives(Block(_, _), k, w) ==
  [r \in 0..2*w-1 |->
     IF r < w THEN {j * w + r : j \in 0..k-1}
     ELSE UNION {{j * w + c : c \in Block(j, r - w)} : j \in 0..k-1}]

liberation_coding_bitmatrix(k, w) ==
  IF k > w THEN NoMatrix
  ELSE TwoCodingDrives(
         LAMBDA j, l : {(j + l) % w} \cup (IF j > 0 /\ l = (j * ((w - 1) \div 2)) % w
                                          THEN {(l + j - 1) % w} ELSE {}), k, w)

liber8tion_blocks == <<
  <<{0}, {1}, {2}, {3}, {4}, {5}, {6}, {7}>>,
  <<{7}, {3}, {0}, {2}, {6, 7}, {1}, {5}, {4}>>,
  <<{6}, {2, 3}, {4}, {0}, {7}, {3}, {1}, {5}>>,
  <<{2}, {5}, {7}, {6}, {0}, {3, 4}, {4}, {1}>>,
  <<{5}, {6}, {0, 1}, {7}, {2}, {4}, {3}, {0}>>,
  <<{1}, {2}, {3}, {4}, {5}, {6}, {7}, {0, 2}>>,
  <<{3}, {0}, {6}, {5}, {1}, {7}, {4, 5}, {2}>>,
  <<{4}, {7}, {1}, {1, 5}, {3}, {2}, {0}, {6}>> >>

liber8tion_coding_bitmatrix(k) ==
  IF k > 8 THEN NoMatrix
  ELSE TwoCodingDrives(LAMBDA j, l : liber8tion_blocks[j + 1][l + 1], k, 8)

blaum_roth_block(j, l, p) ==
  CASE j = 0 -> {l - 1}
    [] j # 0 /\ l # p - j -> {(IF l + j >= p THEN l + j - p ELSE l + j) - 1}
    [] OTHER -> {j - 1, (IF j % 2 = 0 THEN j \div 2 ELSE (p \div 2) + 1 + (j \div 2)) - 1}

blaum_roth_coding_bitmatrix(k, w) ==
  IF k > w THEN NoMatrix
  ELSE TwoCodingDrives(LAMBDA j, l : blaum_roth_block(j, l + 1, w + 1), k, w)
=============================================================================
