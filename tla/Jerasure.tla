------------------------------ MODULE Jerasure ------------------------------
(***************************************************************************)
(* S/jerasure.c: encoding and decoding with a coding matrix, a bit matrix  *)
(* or a schedule of packet operations.  `mem' is what the data and coding  *)
(* pointers point to: for each drive, data first, its w packets (bit       *)
(* matrices) or its region (matrices).  Contents are symbolic, so one      *)
(* evaluation stands for all data: a packet is the set of the packets it   *)
(* is the sum of, a region the function of its coefficients.  Blocks are   *)
(* handled in groups of w packets, all alike; mem has one group.           *)
(***************************************************************************)
EXTENDS Codes

Failure == [ok |-> FALSE]        \* the functions return -1 or NULL

Sorted(S) == [n \in 1..Cardinality(S) |-> CHOOSE x \in S : Cardinality({y \in S : y < x}) = n - 1]
Identity(n) == [i \in 0..n-1 |-> [j \in 0..n-1 |-> IF i = j THEN One ELSE Zero]]

\* Rows of drive i in a bit matrix.
RowsOf(bitmatrix, i, w) == [j \in 0..w-1 |-> bitmatrix[i * w + j]]

\* Column x of the square of an element is the element times 2^x.
TimesPowerOf2(elt, x, w) == Loop(LAMBDA e, n : galois_single_multiply(e, {1}, w), elt, x)

RowsOfColumns(column, m, w) ==
  [r \in 0..m*w-1 |-> {c \in DOMAIN column[0] : r % w \in column[r \div w][c]}]

jerasure_matrix_to_bitmatrix(k, m, w, matrix) ==
  RowsOfColumns(Now([i \in 0..m-1 |-> [c \in 0..k*w-1 |->
                       TimesPowerOf2(matrix[i][c \div w], c % w, w)]]), m, w)

\* At most m drives may be erased.
jerasure_erasures_to_erased(k, m, erasures) ==
  IF Cardinality(ToSet(erasures)) > m THEN Failure
  ELSE [ok |-> TRUE, erased |-> ToSet(erasures)]

-----------------------------------------------------------------------------
(* Inversion *)

\* Row i, times the factor of the row, is added to the rows in DOMAIN factors.
AddRow(a, i, factors, w) ==
  [j \in DOMAIN a |->
     IF j \notin DOMAIN factors THEN a[j]
     ELSE [c \in DOMAIN a[j] |-> Xor(a[j][c], galois_single_multiply(factors[j], a[i][c], w))]]

\* Row p, divided by its element x on the diagonal, changes places with row i.
PivotRow(a, i, p, x, w) == [SwapRows(a, i, p) EXCEPT ![i] = ScaleRow(a[p], Reciprocal(x, w), w)]

\* ab[1] is the matrix, ab[2] what becomes its inverse.
Pivoted(ab, i, p, w) == [n \in 1..2 |-> PivotRow(ab[n], i, p, ab[1][p][i], w)]

AddBelow(ab, i, w) ==
  LET factors == [j \in {r \in DOMAIN ab[1] : r > i} |-> ab[1][j][i]]
  IN  [n \in 1..2 |-> AddRow(ab[n], i, factors, w)]

\* Column i of the way to a triangular matrix with ones on the diagonal.
EliminateElement(s, i, rows, w) ==
  LET pivots == {j \in i..rows-1 : s.ab[1][j][i] # Zero}
  IN  IF ~s.ok \/ pivots = {} THEN [s EXCEPT !.ok = FALSE]
      ELSE [s EXCEPT !.ab = AddBelow(Pivoted(s.ab, i, Min(pivots), w), i, w)]

EliminateElements(mat, rows, w) ==
  Loop(LAMBDA s, i : EliminateElement(s, i, rows, w),
       [ok |-> TRUE, ab |-> <<mat, Identity(rows)>>], rows)

jerasure_invertible_matrix(mat, rows, w) == EliminateElements(mat, rows, w).ok

\* From the last row up: what is above the diagonal is cleared.
AddAbove(inv, mat, i, w) == AddRow(inv, i, [j \in {r \in DOMAIN mat : r < i} |-> mat[j][i]], w)

Inverted(t, rows, w) ==
  IF t.ok
  THEN [ok |-> TRUE, inv |-> Loop(LAMBDA s, n : AddAbove(s, t.ab[1], rows - 1 - n, w), t.ab[2], rows)]
  ELSE [ok |-> FALSE, inv |-> t.ab[2]]

jerasure_invert_matrix(mat, rows, w) == Inverted(EliminateElements(mat, rows, w), rows, w)

jerasure_matrix_multiply(m1, m2, r1, c2, r2, w) ==
  [i \in 0..r1-1 |-> [j \in 0..c2-1 |->
     XorAll([l \in 0..r2-1 |-> galois_single_multiply(m1[i][l], m2[l][j], w)], 0..r2-1)]]

jerasure_invertible_bitmatrix(mat, rows) == Triangular(mat, rows).ok

jerasure_invert_bitmatrix(mat, rows) == galois_invert_binary_matrix(mat, rows)

-----------------------------------------------------------------------------
(* Products: one drive from k others *)

\* The factors that are 1 first, then the others; the first region met is
\* copied (init is false), the others are added to it.
jerasure_matrix_dotprod(k, w, row, src_ids, dest, mem) ==
  LET IsTurn(i) == IF i < k THEN row[i] = One ELSE row[i - k] \notin {Zero, One}
      Add(s, i) == [init |-> TRUE,
                    sum |-> galois_region_multiply(mem[src_ids[i]], row[i], k, s.sum, s.init, w, 1)]
  IN  [mem EXCEPT ![dest] =
         Loop(LAMBDA s, i : IF IsTurn(i) THEN Add(s, i % k) ELSE s,
              [init |-> FALSE, sum |-> mem[dest]], 2 * k).sum]

\* A row without ones leaves its packet as it is.
jerasure_bitmatrix_dotprod(k, w, rows, src_ids, dest, mem) ==
  [mem EXCEPT ![dest] =
     [j \in 0..w-1 |->
        IF rows[j] = {} THEN mem[dest][j]
        ELSE XorAll([c \in 0..k*w-1 |-> mem[src_ids[c \div w]][c % w]], rows[j])]]

jerasure_do_parity(k, regions) == XorAll(regions, 0..k-1)

Data(k) == [i \in 0..k-1 |-> i]

jerasure_matrix_encode(k, m, w, matrix, mem) ==
  Loop(LAMBDA s, i : jerasure_matrix_dotprod(k, w, matrix[i], Data(k), k + i, s), mem, m)

jerasure_bitmatrix_encode(k, m, w, bitmatrix, mem) ==
  Loop(LAMBDA s, i : jerasure_bitmatrix_dotprod(k, w, RowsOf(bitmatrix, i, w), Data(k), k + i, s),
       mem, m)

-----------------------------------------------------------------------------
(* Decoding with an inverted matrix *)

\* The first k drives that are left.
dm_ids(k, m, erased) == [i \in 0..k-1 |-> Sorted((0..k+m-1) \ erased)[i + 1]]

jerasure_make_decoding_matrix(k, m, w, matrix, erased) ==
  LET ids == dm_ids(k, m, erased)
  IN  jerasure_invert_matrix(
        [i \in 0..k-1 |-> IF ids[i] < k THEN Identity(k)[ids[i]] ELSE matrix[ids[i] - k]], k, w)

jerasure_make_decoding_bitmatrix(k, m, w, bitmatrix, erased) ==
  LET ids == dm_ids(k, m, erased)
  IN  jerasure_invert_bitmatrix(
        [r \in 0..k*w-1 |->
           LET d == ids[r \div w]
           IN  IF d < k THEN {d * w + (r % w)} ELSE bitmatrix[(d - k) * w + (r % w)]], k * w)

\* Mutation: that coding drive 0 may be erased, too, is forgotten.
lastdrive_no_check(k, row_k_ones, erased) ==
  IF ~row_k_ones \/ erased \cap (0..k-1) = {} THEN k ELSE Max(erased \cap (0..k-1))

\* The last erased data drive, if the sum of all drives and coding drive 0 will
\* do for it; k if not.
lastdrive(k, row_k_ones, erased) ==
  IF ~row_k_ones \/ k \in erased \/ erased \cap (0..k-1) = {} THEN k
  ELSE Max(erased \cap (0..k-1))

\* Erased data drives before lastdrive from the inverted matrix, lastdrive from
\* coding drive 0, then the erased coding drives from the data.  Product(row,
\* ids, dest, mem) is one of the two above, Row(inverse, i) drive i's part.
DecodeDrives(k, m, row_k_ones, erased, inverse, Row(_, _), coding, Product(_, _, _, _), mem) ==
  LET last == lastdrive(k, row_k_ones, erased)
      lost == {i \in erased : i < k}
      Step(s, n) ==
        CASE n \in lost /\ n < last -> Product(Row(inverse.inv, n), dm_ids(k, m, erased), n, s)
          [] n = k /\ last # k ->
               Product(Row(coding, 0), [i \in 0..k-1 |-> IF i < last THEN i ELSE i + 1], last, s)
          [] n > k /\ n - 1 \in erased -> Product(Row(coding, n - 1 - k), Data(k), n - 1, s)
          [] OTHER -> s
  IN  IF lost = {} \/ (Cardinality(lost) = 1 /\ last # k) \/ inverse.ok
      THEN [ok |-> TRUE, mem |-> Loop(LAMBDA s, n : Step(s, n), mem, k + m + 1)]
      ELSE Failure

jerasure_matrix_decode(k, m, w, matrix, row_k_ones, erasures, mem) ==
  LET e == jerasure_erasures_to_erased(k, m, erasures)
  IN  IF w \notin {8, 16, 32} \/ ~e.ok THEN Failure
      ELSE DecodeDrives(k, m, row_k_ones, e.erased,
                        jerasure_make_decoding_matrix(k, m, w, matrix, e.erased),
                        LAMBDA rows, i : rows[i], matrix,
                        LAMBDA row, ids, d, s : jerasure_matrix_dotprod(k, w, row, ids, d, s), mem)

jerasure_bitmatrix_decode(k, m, w, bitmatrix, row_k_ones, erasures, mem) ==
  LET e == jerasure_erasures_to_erased(k, m, erasures)
  IN  IF ~e.ok THEN Failure
      ELSE DecodeDrives(k, m, row_k_ones, e.erased,
                        jerasure_make_decoding_bitmatrix(k, m, w, bitmatrix, e.erased),
                        LAMBDA rows, i : RowsOf(rows, i, w), bitmatrix,
                        LAMBDA row, ids, d, s : jerasure_bitmatrix_dotprod(k, w, row, ids, d, s), mem)

-----------------------------------------------------------------------------
(* Schedules: sequences of copies and additions of packets *)

Operation(from, packet, to, row, xor) ==
  [from |-> from, packet |-> packet, to |-> to, row |-> row, xor |-> xor]

\* Row r of the bit matrix from the columns given; the first of them is copied
\* unless the row has been started.
RowOperations(columns, r, k, w, started) ==
  LET c == Sorted(columns)
  IN  [n \in 1..Len(c) |->
         Operation(c[n] \div w, c[n] % w, k + (r \div w), r % w, started \/ n > 1)]

jerasure_dumb_bitmatrix_to_schedule(k, m, w, bitmatrix) ==
  Loop(LAMBDA ops, r : ops \o RowOperations(bitmatrix[r], r, k, w, FALSE), <<>>, m * w)

\* The first of the rows with the fewest operations.
bestrow(todo, diff) ==
  CHOOSE r \in todo : \A i \in todo : diff[r] < diff[i] \/ (diff[r] = diff[i] /\ r <= i)

\* Mutation: the first operation of a row made from another adds to what is there.
ScheduleRow_no_copy(s, k, w, bitmatrix) ==
  LET r == bestrow(s.todo, s.diff)
      b == s.from[r]
      ops == IF b = -1 THEN RowOperations(bitmatrix[r], r, k, w, FALSE)
             ELSE RowOperations(Xor(bitmatrix[r], bitmatrix[b]), r, k, w, TRUE)
      no == [i \in DOMAIN s.diff |-> 1 + Cardinality(Xor(bitmatrix[r], bitmatrix[i]))]
      nearer == {i \in s.todo \ {r} : no[i] < s.diff[i]}
  IN  [todo |-> s.todo \ {r}, ops |-> s.ops \o ops,
       diff |-> [i \in DOMAIN s.diff |-> IF i \in nearer THEN no[i] ELSE s.diff[i]],
       from |-> [i \in DOMAIN s.from |-> IF i \in nearer THEN r ELSE s.from[i]]]

\* Always the cheapest row left: from scratch, or from a row already there and
\* the columns in which they differ.
ScheduleRow(s, k, w, bitmatrix) ==
  LET r == bestrow(s.todo, s.diff)
      b == s.from[r]
      ops == IF b = -1 THEN RowOperations(bitmatrix[r], r, k, w, FALSE)
             ELSE <<Operation(k + (b \div w), b % w, k + (r \div w), r % w, FALSE)>>
                    \o RowOperations(Xor(bitmatrix[r], bitmatrix[b]), r, k, w, TRUE)
      no == [i \in DOMAIN s.diff |-> 1 + Cardinality(Xor(bitmatrix[r], bitmatrix[i]))]
      nearer == {i \in s.todo \ {r} : no[i] < s.diff[i]}
  IN  [todo |-> s.todo \ {r}, ops |-> s.ops \o ops,
       diff |-> [i \in DOMAIN s.diff |-> IF i \in nearer THEN no[i] ELSE s.diff[i]],
       from |-> [i \in DOMAIN s.from |-> IF i \in nearer THEN r ELSE s.from[i]]]

jerasure_smart_bitmatrix_to_schedule(k, m, w, bitmatrix) ==
  LET rows == 0..m*w-1
  IN  Loop(LAMBDA s, n : ScheduleRow(s, k, w, bitmatrix),
           [todo |-> rows, ops |-> <<>>, from |-> [i \in rows |-> -1],
            diff |-> [i \in rows |-> Cardinality(bitmatrix[i])]], m * w).ops

\* ptrs[i] is the drive that stands in place i.
jerasure_do_scheduled_operations(ptrs, operations, mem) ==
  Loop(LAMBDA s, n :
         LET op == operations[n + 1]
             source == s[ptrs[op.from]][op.packet]
         IN  [s EXCEPT ![ptrs[op.to]][op.row] = IF op.xor THEN Xor(source, @) ELSE source],
       mem, Len(operations))

jerasure_schedule_encode(k, m, schedule, mem) ==
  jerasure_do_scheduled_operations([i \in 0..k+m-1 |-> i], schedule, mem)

\* Mutation: coding drives are taken in order, the erased ones too.
set_up_ptrs_for_scheduled_decoding_any(k, m, erased) ==
  LET lost == Sorted({i \in erased : i < k}) \o Sorted({i \in erased : i >= k})
  IN  [i \in 0..k+Cardinality(erased)-1 |->
         CASE i < k /\ i \notin erased -> i
           [] i < k /\ i \in erased    -> k + Cardinality({d \in erased : d < i})
           [] OTHER                    -> lost[i - k + 1]]

\* The places: each erased data drive is replaced by the lowest coding drive
\* that is left; erased data drives, then erased coding drives follow.
set_up_ptrs_for_scheduled_decoding(k, m, erased) ==
  LET lost  == Sorted({i \in erased : i < k}) \o Sorted({i \in erased : i >= k})
      spare == Sorted((k..k+m-1) \ erased)
      Before(i) == Cardinality({d \in erased : d < i})
  IN  [i \in 0..k+Cardinality(erased)-1 |->
         CASE i < k /\ i \notin erased -> i
           [] i < k /\ i \in erased    -> spare[Before(i) + 1]
           [] OTHER                    -> lost[i - k + 1]]

\* row_ids are the places; ind_to_row is the place of a drive.
set_up_ids_for_scheduled_decoding(k, m, erased) ==
  LET ptrs == set_up_ptrs_for_scheduled_decoding(k, m, erased)
  IN  [row_ids |-> ptrs,
       ind_to_row |-> [d \in Range(ptrs) |-> CHOOSE i \in DOMAIN ptrs : ptrs[i] = d]]

DecodingInverse(k, w, bitmatrix, ids) ==
  jerasure_invert_bitmatrix(
    [r \in 0..k*w-1 |->
       IF ids.row_ids[r \div w] = r \div w THEN {r}
       ELSE bitmatrix[(ids.row_ids[r \div w] - k) * w + (r % w)]], k * w).inv

\* Rows of erased data drives, made from the inverse.
DataRows(k, w, ddf, ids, inverse) ==
  [r \in 0..ddf*w-1 |-> inverse[ids.row_ids[k + (r \div w)] * w + (r % w)]]

\* Row of an erased coding drive: each column of an erased data drive is replaced by
\* that drive's row.
CodingRow(row, k, w, erased, ids, data) ==
  LET gone == {c \in row : (c \div w) \in erased}
  IN  Xor(row \ gone,
          XorAll([c \in gone |-> data[(ids.ind_to_row[c \div w] - k) * w + (c % w)]], gone))

\* One matrix that makes all erased drives, data drives first.
real_decoding_matrix(k, w, bitmatrix, erased, ids, data) ==
  [r \in 0..Cardinality(erased)*w-1 |->
     IF r \in DOMAIN data THEN data[r]
     ELSE CodingRow(bitmatrix[(ids.row_ids[k + (r \div w)] - k) * w + (r % w)],
                    k, w, erased, ids, data)]

ScheduleOf(k, m, w, bitmatrix, smart) ==
  IF smart THEN jerasure_smart_bitmatrix_to_schedule(k, m, w, bitmatrix)
  ELSE jerasure_dumb_bitmatrix_to_schedule(k, m, w, bitmatrix)

jerasure_generate_decoding_schedule(k, m, w, bitmatrix, erasures, smart) ==
  LET erased == ToSet(erasures)
      ids    == set_up_ids_for_scheduled_decoding(k, m, erased)
      ddf    == Cardinality({d \in erased : d < k})
  IN  ScheduleOf(k, Cardinality(erased), w,
        real_decoding_matrix(k, w, bitmatrix, erased, ids,
          DataRows(k, w, ddf, ids, DecodingInverse(k, w, bitmatrix, ids))), smart)

jerasure_schedule_decode_lazy(k, m, w, bitmatrix, erasures, smart, mem) ==
  IF ~jerasure_erasures_to_erased(k, m, erasures).ok THEN Failure
  ELSE [ok |-> TRUE,
        mem |-> jerasure_do_scheduled_operations(
                  set_up_ptrs_for_scheduled_decoding(k, m, ToSet(erasures)),
                  jerasure_generate_decoding_schedule(k, m, w, bitmatrix, erasures, smart), mem)]

\* For m = 2: a schedule for each drive and each pair, made once for both orders.
jerasure_generate_schedule_cache(k, m, w, bitmatrix, smart) ==
  [e \in (0..k+m-1) \X (0..k+m-1) |->
     jerasure_generate_decoding_schedule(k, m, w, bitmatrix,
       IF e[1] = e[2] THEN <<e[1]>>
       ELSE IF e[1] > e[2] THEN <<e[1], e[2]>> ELSE <<e[2], e[1]>>, smart)]

jerasure_schedule_decode_cache(k, m, scache, erasures, mem) ==
  IF Len(erasures) > 2 THEN Failure
  ELSE [ok |-> TRUE,
        mem |-> jerasure_do_scheduled_operations(
                  set_up_ptrs_for_scheduled_decoding(k, m, ToSet(erasures)),
                  scache[<<erasures[1], erasures[Len(erasures)]>>], mem)]
=============================================================================
