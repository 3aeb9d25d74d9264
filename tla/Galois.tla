------------------------------- MODULE Galois -------------------------------
(***************************************************************************)
(* S/galois.c: the arithmetic of the Galois fields GF(2^w) under the       *)
(* erasure code.  A word of w bits is the set of the positions of its 1    *)
(* bits, so `^' is the symmetric difference, `&' the intersection and      *)
(* `1 << i' the set {i}; bits pushed out of the word are dropped as in the *)
(* code.  A region is a function from 0..n-1 to words.                     *)
(***************************************************************************)
EXTENDS Integers, FiniteSets, FiniteSetsExt, SequencesExt, Loops

CONSTANT TableWidths   \* the widths used whose tables are built

ASSUME TableWidthsAssumption == TableWidths \subseteq 1..22

\* A word as a number and a number (below 2^31) as a word.
Number(x) == MapThenSumSet(LAMBDA b : 2^b, x)
Bits(n) == {b \in 0..30 : (n \div 2^b) % 2 = 1}

Field(w) == SUBSET (0..w-1)
Zero == {}
One == {0}
Error == {-1}      \* what the functions return for a division by zero

Xor(x, y) == SymDiff(x, y)
XorAll(f, S) == FoldFunctionOnSet(Xor, Zero, f, S)   \* the sum of the f[i], i \in S
ShiftLeft(x, n, w) == {b + n : b \in x} \cap (0..w-1)
ShiftRight(x, n) == {b - n : b \in {c \in x : c >= n}}

\* The polynomials, by their exponents; that of 32 without its high bit.
prim_poly == <<
  {0}, {0, 1, 2}, {0, 1, 3}, {0, 1, 4}, {0, 2, 5}, {0, 1, 6}, {0, 3, 7},
  {0, 2, 3, 4, 8}, {0, 4, 9}, {0, 3, 10}, {0, 2, 11}, {0, 1, 4, 6, 12},
  {0, 1, 3, 4, 13}, {0, 1, 6, 10, 14}, {0, 1, 15}, {0, 1, 3, 12, 16},
  {0, 3, 17}, {0, 7, 18}, {0, 1, 2, 5, 19}, {0, 3, 20}, {0, 2, 21}, {0, 1, 22},
  {0, 5, 23}, {0, 1, 2, 7, 24}, {0, 3, 25}, {0, 1, 2, 6, 26}, {0, 1, 2, 5, 27},
  {0, 3, 28}, {0, 2, 29}, {0, 1, 2, 23, 30}, {0, 3, 31}, {0, 1, 2, 22} >>

mult_type(w) == CASE w \in 1..9   -> "TABLE"
                  [] w \in 10..22 -> "LOGS"
                  [] w \in 23..31 -> "SHIFT"
                  [] w = 32       -> "SPLITW8"

\* y << 1, reduced: one step of every loop that runs through the powers of 2.
Times2(y, w) ==
  Xor(ShiftLeft(y, 1, w), IF w - 1 \in y THEN prim_poly[w] \cap (0..w-1) ELSE Zero)

-----------------------------------------------------------------------------
(* Tables of logarithms *)

\* Powers of 2 one after the other; log is -1 where no power has been met.  A
\* power met twice ends the program: the tables do not change any more.  That
\* of the inverse function is the same three times over, so that sums and
\* differences of logarithms need no reduction.
NextPower(s, j, w) ==
  IF s.log[s.b] # -1 THEN s
  ELSE [b |-> Times2(s.b, w), log |-> [s.log EXCEPT ![s.b] = j], powers |-> Append(s.powers, s.b)]

ThreeTimes(t) == [log |-> t.log, ilog |-> t.powers \o t.powers \o t.powers]

galois_create_log_tables(w) ==
  ThreeTimes(Loop(LAMBDA s, j : NextPower(s, j, w),
                  [b |-> One, log |-> [x \in Field(w) |-> -1], powers |-> <<>>], 2^w - 1))

\* Tables are built once, at the first use.
LogTables == [w \in TableWidths |-> galois_create_log_tables(w)]

\* With the tables of w; ilog is read from its second copy on.
galois_log(tables, value) == tables.log[value]
galois_ilog(tables, value, w) == tables.ilog[2^w + value]

LogProduct(t, x, y, w) == galois_ilog(t, galois_log(t, x) + galois_log(t, y), w)
LogQuotient(t, x, y, w) == galois_ilog(t, galois_log(t, x) - galois_log(t, y), w)

galois_logtable_multiply(x, y, w) ==
  IF x = Zero \/ y = Zero THEN Zero ELSE LogProduct(LogTables[w], x, y, w)

galois_logtable_divide(x, y, w) ==
  CASE y = Zero -> Error
    [] y # Zero /\ x = Zero -> Zero
    [] OTHER -> LogQuotient(LogTables[w], x, y, w)

\* Rows of the multiplication and of the division table.
galois_create_mult_tables(w) ==
  [mult |-> [x \in Field(w) |-> [y \in Field(w) |-> galois_logtable_multiply(x, y, w)]],
   div  |-> [x \in Field(w) |-> [y \in Field(w) |-> galois_logtable_divide(x, y, w)]]]

MultTables == [w \in {v \in TableWidths : mult_type(v) = "TABLE"} |-> galois_create_mult_tables(w)]

-----------------------------------------------------------------------------
(* Multiplication without tables *)

\* scratch[i] is y * 2^i; those of the bits of x are added up.
galois_shift_multiply(x, y, w) ==
  LET scratch[i \in 0..w-1] == IF i = 0 THEN y ELSE Times2(scratch[i-1], w)
  IN  XorAll(scratch, x \cap (0..w-1))

\* Mutation: the tables for the high bytes are built as those for the low ones.
galois_create_split_w8_tables_low(n, a, b) ==
  galois_shift_multiply(a, ShiftLeft(b, 8 * n, 32), 32)

\* Entry [a|b] of the table for bytes i of x and j of y.  Only i + j matters;
\* the tables are built with i = 0 as long as they can be and with i = 3 then.
galois_create_split_w8_tables(n, a, b) ==
  LET i == IF n <= 3 THEN 0 ELSE 3
  IN  galois_shift_multiply(ShiftLeft(a, 8 * i, 32), ShiftLeft(b, 8 * (n - i), 32), 32)

Byte(x, i) == ShiftRight(x, 8 * i) \cap (0..7)

galois_split_w8_multiply(x, y) ==
  LET bytes == (0..3) \X (0..3)
  IN  XorAll([p \in bytes |-> galois_create_split_w8_tables(p[1] + p[2], Byte(x, p[1]), Byte(y, p[2]))],
             bytes)

galois_single_multiply(x, y, w) ==
  IF x = Zero \/ y = Zero THEN Zero
  ELSE CASE mult_type(w) = "TABLE"   -> MultTables[w].mult[x][y]
         [] mult_type(w) = "LOGS"    -> galois_logtable_multiply(x, y, w)
         [] mult_type(w) = "SPLITW8" -> galois_split_w8_multiply(x, y)
         [] mult_type(w) = "SHIFT"   -> galois_shift_multiply(x, y, w)

-----------------------------------------------------------------------------
(* Inversion of binary matrices: rows are sets of columns *)

SwapRows(mat, i, j) == [mat EXCEPT ![i] = mat[j], ![j] = mat[i]]

\* Row i is added to the rows below it that have a 1 in column i.
ClearBelow(mat, inv, i) ==
  LET Cleared(a) == [j \in DOMAIN a |-> IF j > i /\ i \in mat[j] THEN Xor(a[j], a[i]) ELSE a[j]]
  IN  [ok |-> TRUE, mat |-> Cleared(mat), inv |-> Cleared(inv)]

\* Column i of the way to a triangular matrix: bring a row with a 1 to the
\* diagonal, clear the column below it.  No such row: not invertible.
EliminateColumn(s, i, rows) ==
  LET pivots == {j \in i..rows-1 : i \in s.mat[j]}
  IN  IF ~s.ok \/ pivots = {} THEN [s EXCEPT !.ok = FALSE]
      ELSE ClearBelow(SwapRows(s.mat, i, Min(pivots)), SwapRows(s.inv, i, Min(pivots)), i)

Triangular(mat, rows) ==
  Loop(LAMBDA s, i : EliminateColumn(s, i, rows),
       [ok |-> TRUE, mat |-> mat, inv |-> [i \in 0..rows-1 |-> {i}]], rows)

\* From the last row up: clear the column above the diagonal.
ClearAbove(inv, mat, i) ==
  [j \in DOMAIN inv |-> IF j < i /\ i \in mat[j] THEN Xor(inv[j], inv[i]) ELSE inv[j]]

BackSubstituted(t, rows) ==
  IF t.ok
  THEN [ok |-> TRUE, inv |-> Loop(LAMBDA s, n : ClearAbove(s, t.mat, rows - 1 - n), t.inv, rows)]
  ELSE [ok |-> FALSE, inv |-> t.inv]

\* Exits when the matrix is not invertible: the result has ok = FALSE.
galois_invert_binary_matrix(mat, rows) == BackSubstituted(Triangular(mat, rows), rows)

\* The rows of the matrix are y * 2^i; the first row of its inverse is 1/y.
galois_shift_inverse(y, w) ==
  LET mat2[i \in 0..w-1] == IF i = 0 THEN y ELSE Times2(mat2[i-1], w)
  IN  galois_invert_binary_matrix([i \in 0..w-1 |-> mat2[i]], w).inv[0]

galois_shift_divide(a, b, w) ==
  CASE b = Zero -> Error
    [] b # Zero /\ a = Zero -> Zero
    [] OTHER -> galois_shift_multiply(a, galois_shift_inverse(b, w), w)

\* galois_inverse is inlined: the widths that come here have no tables.
galois_single_divide(a, b, w) ==
  CASE mult_type(w) = "TABLE" -> MultTables[w].div[a][b]
    [] mult_type(w) = "LOGS"  -> galois_logtable_divide(a, b, w)
    [] OTHER -> IF b = Zero THEN Error
                ELSE IF a = Zero THEN Zero
                ELSE galois_single_multiply(a, galois_shift_inverse(b, w), w)

-----------------------------------------------------------------------------
(* Regions *)

\* Words are handled in groups of sizeof(long): a region that does not end at
\* the border of a group is processed up to the next one.
WholeGroups(n, group) == ((n + group - 1) \div group) * group

galois_region_xor(r1, r2, n, group) ==
  [i \in DOMAIN r2 |-> IF i < WholeGroups(n, group) THEN Xor(r1[i], r2[i]) ELSE r2[i]]

\* The region functions for w = 8 and 16 add in whole groups: of the products,
\* the bytes after the last of the region are added, too.
galois_w08_w16_region_multiply(region, multby, n, r2, add, w, group) ==
  [i \in DOMAIN r2 |->
     IF i >= (IF add THEN WholeGroups(n, group) ELSE n) THEN r2[i]
     ELSE Xor(galois_single_multiply(region[i], multby, w), IF add THEN r2[i] ELSE Zero)]

\* The one for 32 takes words one by one, split into four bytes.
galois_w32_region_multiply(region, multby, n, r2, add) ==
  [i \in DOMAIN r2 |->
     IF i >= n THEN r2[i]
     ELSE Xor(galois_split_w8_multiply(region[i], multby), IF add THEN r2[i] ELSE Zero)]

galois_region_multiply(region, multby, n, r2, add, w, group) ==
  IF w = 32 THEN galois_w32_region_multiply(region, multby, n, r2, add)
  ELSE galois_w08_w16_region_multiply(region, multby, n, r2, add, w, group)
=============================================================================
