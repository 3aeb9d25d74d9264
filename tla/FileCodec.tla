----------------------------- MODULE FileCodec ------------------------------
(***************************************************************************)
(* J/encoder.cpp and J/decoder.cpp, two programs that call the coding      *)
(* library of the storage servers one after the other.  The encoder reads  *)
(* a file round by round and writes each round to k + m files, then a file *)
(* with the parameters; some of the k + m files are lost; the decoder      *)
(* reads the parameters and what is left, round by round.                  *)
(*   packetsize and sizeof(int) are 1: a block is one group of w packets,  *)
(* handled like all the others.  A round is kept as the bytes read (in     *)
(* `blocks') and, for each drive, what its part is made of: w packets for  *)
(* bit matrices, coefficients of the data drives for the other codes.      *)
(***************************************************************************)
EXTENDS Jerasure

CONSTANT Cases   \* [tech, k, m, w, size, buffersize]: parameters of the encoder, size of the file

ASSUME CasesAssumption ==
  \A c \in Cases : /\ c.k \in Nat /\ c.m \in Nat /\ c.w \in Nat /\ c.size \in Nat /\ c.buffersize \in Nat
                   /\ c.k > 1 /\ c.m > 0 /\ c.w > 0 /\ c.size > 0 /\ c.buffersize > 0

VARIABLES
  pc,       \* which program runs, and how far it is
  case,     \* the member of Cases: source_path's size and the program's constants
  code,     \* the matrices and schedules that the library has made for the case
  enc,      \* locals of the encoder: buffersize, blocksize, readins, n, total
  blocks,   \* the bytes the rounds have put into block
  files,    \* the k + m files; DOMAIN files are those that can be opened
  meta,     \* the file with the parameters
  dec,      \* locals of the decoder
  mem,      \* what the decoder's data and coding pointers point to
  decoded   \* the file the decoder writes

vars == <<pc, case, code, enc, blocks, files, meta, dec, mem, decoded>>

MatrixTechs == {"reed_sol_van", "reed_sol_r6_op"}
Drives(c) == 0..c.k+c.m-1
Pad == -1                    \* the byte '0'
Junk(i) == -2 - i            \* byte i of memory that has not been written
None == [readins |-> 0]      \* no locals, no parameter file

\* What a drive holds before anything is written to it.
Unwritten(c) == IF c.tech \in MatrixTechs THEN [j \in 0..c.k-1 |-> Zero]
                ELSE [x \in 0..c.w-1 |-> {-1}]

\* Data drive d holds its own packets.
OwnPart(c, d) == IF c.tech \in MatrixTechs THEN [j \in 0..c.k-1 |-> IF j = d THEN One ELSE Zero]
                 ELSE [x \in 0..c.w-1 |-> {d * c.w + x}]

-----------------------------------------------------------------------------
(* Coding matrices *)

matrix(c) ==
  CASE c.tech = "reed_sol_van"   -> reed_sol_vandermonde_coding_matrix(c.k, c.m, c.w)
    [] c.tech = "reed_sol_r6_op" -> reed_sol_r6_coding_matrix(c.k, c.w)
    [] c.tech = "cauchy_orig"    -> cauchy_original_coding_matrix(c.k, c.m, c.w)
    [] c.tech = "cauchy_good"    -> cauchy_good_general_coding_matrix(c.k, c.m, c.w)
    [] OTHER                     -> NoMatrix

bitmatrix(c, mat) ==
  CASE c.tech = "liberation" -> liberation_coding_bitmatrix(c.k, c.w)
    [] c.tech = "blaum_roth" -> blaum_roth_coding_bitmatrix(c.k, c.w)
    [] c.tech = "liber8tion" -> liber8tion_coding_bitmatrix(c.k)
    [] c.tech \in {"cauchy_orig", "cauchy_good"} -> jerasure_matrix_to_bitmatrix(c.k, c.m, c.w, mat)
    [] OTHER -> NoMatrix

\* The sizes are those the library allows for the code: there is a bit matrix, and each
\* of its rows makes a packet of a coding drive from one packet or more of the data drives.
ASSUME BitmatrixAssumption ==
  \A c \in {x \in Cases : x.tech \notin MatrixTechs} :
    LET bits == bitmatrix(c, matrix(c))
    IN  bits # NoMatrix /\ \A r \in 0..c.m*c.w-1 : bits[r] \in (SUBSET (0..c.k*c.w-1)) \ {{}}

\* `cache', all decoding schedules made beforehand, is not used by the two programs.
WithSchedules(c, mat, bits) ==
  [matrix    |-> mat,
   bitmatrix |-> bits,
   schedule  |-> IF bits = NoMatrix THEN <<>>
                 ELSE jerasure_smart_bitmatrix_to_schedule(c.k, c.m, c.w, bits),
   cache     |-> IF bits = NoMatrix \/ c.m # 2 THEN <<>>
                 ELSE jerasure_generate_schedule_cache(c.k, c.m, c.w, bits, TRUE)]

WithBitmatrix(c, mat) == WithSchedules(c, mat, bitmatrix(c, mat))

\* Each of the two programs makes them before its first round, with the same result.
MakeCode(c) == WithBitmatrix(c, matrix(c))

\* The parts of all drives before and after the encoder's second switch.
NotEncoded == [d \in Drives(case) |-> IF d < case.k THEN OwnPart(case, d) ELSE Unwritten(case)]

Encoded ==
  LET Unit(j) == [i \in 0..case.k-1 |-> IF i = j THEN One ELSE Zero]
  IN  CASE case.tech = "reed_sol_van" ->
             jerasure_matrix_encode(case.k, case.m, case.w, code.matrix, NotEncoded)
        [] case.tech = "reed_sol_r6_op" ->
             [d \in Drives(case) |->
                IF d < case.k THEN OwnPart(case, d)
                ELSE [j \in 0..case.k-1 |-> reed_sol_r6_encode(case.k, case.w, Unit(j))[d - case.k]]]
        [] OTHER -> jerasure_schedule_encode(case.k, case.m, code.schedule, NotEncoded)

-----------------------------------------------------------------------------
(* The encoder *)

RoundUp(n, unit) == ((n + unit - 1) \div unit) * unit

\* Mutation: newsize is not rounded up to the buffer.
StartEncoder_one_rounding ==
  /\ pc = "start"
  /\ LET unit    == case.k * case.w
         buffer  == RoundUp(case.buffersize, unit)
         newsize == RoundUp(case.size, unit)
     IN  enc' = IF case.size > buffer
                THEN [buffersize |-> buffer, blocksize |-> buffer \div case.k,
                      readins |-> newsize \div buffer, n |-> 1, total |-> 0]
                ELSE [buffersize |-> case.size, blocksize |-> newsize \div case.k,
                      readins |-> 1, n |-> 1, total |-> 0]
  /\ code' = MakeCode(case)
  /\ pc' = "encode"
  /\ UNCHANGED <<case, blocks, files, meta, dec, mem, decoded>>

\* buffersize becomes the next multiple of k * w; a file that is not longer
\* than that is read at once, and buffersize is the size of the file then.
StartEncoder ==
  /\ pc = "start"
  /\ LET unit    == case.k * case.w
         buffer  == RoundUp(case.buffersize, unit)
         newsize == RoundUp(RoundUp(case.size, unit), buffer)
     IN  enc' = IF case.size > buffer
                THEN [buffersize |-> buffer, blocksize |-> buffer \div case.k,
                      readins |-> newsize \div buffer, n |-> 1, total |-> 0]
                ELSE [buffersize |-> case.size, blocksize |-> newsize \div case.k,
                      readins |-> 1, n |-> 1, total |-> 0]
  /\ code' = MakeCode(case)
  /\ pc' = "encode"
  /\ UNCHANGED <<case, blocks, files, meta, dec, mem, decoded>>

\* The bytes of block: read from the file, filled up with '0', never written.
ReadBlock ==
  LET Read(i) == enc.total + i < case.size
  IN  [i \in 0..enc.blocksize*case.k-1 |->
         CASE i >= enc.buffersize -> Junk(i)
           [] i < enc.buffersize /\ Read(i) -> enc.total + i
           [] OTHER -> Pad]

WrittenFiles(parts, old) ==
  [d \in Drives(case) |->
     Append(old[d], [round |-> enc.n, bytes |-> enc.blocksize, holds |-> parts[d]])]

\* Mutation: the files are opened for writing in every round.
EncodeRound_truncates ==
  /\ pc = "encode" /\ enc.n <= enc.readins
  /\ blocks' = Append(blocks, ReadBlock)
  /\ enc' = [enc EXCEPT !.n = @ + 1,
               !.total = IF @ < case.size /\ @ + enc.buffersize <= case.size
                         THEN @ + enc.buffersize ELSE @]
  /\ files' = WrittenFiles(Encoded, [d \in Drives(case) |-> <<>>])
  /\ UNCHANGED <<pc, case, code, meta, dec, mem, decoded>>

\* One turn of the loop: read, encode, write or append to the k + m files.
EncodeRound ==
  /\ pc = "encode" /\ enc.n <= enc.readins
  /\ blocks' = Append(blocks, ReadBlock)
  /\ enc' = [enc EXCEPT !.n = @ + 1,
               !.total = IF @ < case.size /\ @ + enc.buffersize <= case.size
                         THEN @ + enc.buffersize ELSE @]
  /\ files' = WrittenFiles(Encoded, IF enc.n = 1 THEN [d \in Drives(case) |-> <<>>] ELSE files)
  /\ UNCHANGED <<pc, case, code, meta, dec, mem, decoded>>

WriteMeta ==
  /\ pc = "encode" /\ enc.n > enc.readins
  /\ meta' = [size |-> case.size, k |-> case.k, m |-> case.m, w |-> case.w, tech |-> case.tech,
              buffersize |-> enc.buffersize, readins |-> enc.readins]
  /\ pc' = "stored"
  /\ UNCHANGED <<case, code, enc, blocks, files, dec, mem, decoded>>

\* A file is lost.  Up to m + 1 are, but m with the codes that do not count
\* the erased drives: the decoder reads past the end of `erased' then.
Lose(d) ==
  /\ pc = "stored" /\ d \in DOMAIN files
  /\ Cardinality(DOMAIN files) > case.k - (IF case.tech \in MatrixTechs THEN 0 ELSE 1)
  /\ files' = [e \in DOMAIN files \ {d} |-> files[e]]
  /\ UNCHANGED <<pc, case, code, enc, blocks, meta, dec, mem, decoded>>

-----------------------------------------------------------------------------
(* The decoder *)

\* Without buffers of a known size the length of a file is the block's.
StartDecoder ==
  /\ pc = "stored"
  /\ dec' = [buffersize |-> meta.buffersize, readins |-> meta.readins, n |-> 1, total |-> 0,
             blocksize |-> IF meta.buffersize # meta.size THEN meta.buffersize \div meta.k ELSE 0]
  /\ mem' = [d \in Drives(meta) |-> Unwritten(meta)]
  /\ pc' = "decode"
  /\ UNCHANGED <<case, code, enc, blocks, files, meta, decoded>>

erased == Drives(case) \ DOMAIN files
erasures == Sorted(erased)

ReadParts == [d \in Drives(meta) |-> IF d \in erased THEN mem[d] ELSE files[d][dec.n].holds]

\* The matrix codes make drive 3 from the first row of the inverted matrix.
MatrixDecoded(inverse) ==
  IF ~inverse.ok THEN Failure
  ELSE [ok |-> TRUE,
        mem |-> jerasure_matrix_dotprod(meta.k, meta.w, inverse.inv[0],
                  dm_ids(meta.k, meta.m, erased), 3, ReadParts)]

DecodeParts ==
  IF meta.tech \in MatrixTechs
  THEN MatrixDecoded(jerasure_make_decoding_matrix(meta.k, meta.m, meta.w, code.matrix, erased))
  ELSE jerasure_bitmatrix_decode(meta.k, meta.m, meta.w, code.bitmatrix, TRUE, erasures, ReadParts)

\* The length of the last file that is there, or the block's.
bytes == IF dec.buffersize = meta.size THEN files[Max(DOMAIN files)][1].bytes ELSE dec.blocksize

WriteDecoded(result, count) ==
  IF result.ok
  THEN /\ mem' = result.mem
       /\ decoded' = Append(decoded, [holds |-> result.mem[meta.k], bytes |-> count])
       /\ dec' = [dec EXCEPT !.n = @ + 1, !.total = @ + count, !.blocksize = bytes]
       /\ UNCHANGED pc
  ELSE /\ pc' = "unsuccessful"
       /\ UNCHANGED <<mem, decoded, dec>>

\* Mutation: the last block is not cut at the size of the original.
DecodeRound_whole_blocks ==
  /\ pc = "decode" /\ dec.n <= dec.readins
  /\ WriteDecoded(DecodeParts, bytes)
  /\ UNCHANGED <<case, code, enc, blocks, files, meta>>

\* One turn of the loop: read, decode, write coding drive 0 to the decoded
\* file, up to the size of the original.
DecodeRound ==
  /\ pc = "decode" /\ dec.n <= dec.readins
  /\ WriteDecoded(DecodeParts, Min({bytes, meta.size - dec.total}))
  /\ UNCHANGED <<case, code, enc, blocks, files, meta>>

FinishDecoder ==
  /\ pc = "decode" /\ dec.n > dec.readins
  /\ pc' = "done"
  /\ UNCHANGED <<case, code, enc, blocks, files, meta, dec, mem, decoded>>

-----------------------------------------------------------------------------
Init ==
  /\ pc = "start" /\ case \in Cases
  /\ code = None /\ enc = None /\ dec = None /\ meta = None
  /\ blocks = <<>> /\ files = <<>> /\ mem = <<>> /\ decoded = <<>>

Next ==
  \/ StartEncoder \/ EncodeRound \/ WriteMeta
  \/ \E d \in Drives(case) : Lose(d)
  \/ StartDecoder \/ DecodeRound \/ FinishDecoder

Spec == Init /\ [][Next]_vars

-----------------------------------------------------------------------------
(* Properties *)

Counts == [buffersize : Nat, blocksize : Nat, readins : Nat, n : Nat, total : Nat]
Parts(c) == IF c.tech \in MatrixTechs THEN [0..c.k-1 -> Field(c.w)]
            ELSE [0..c.w-1 -> SUBSET (-1..c.k*c.w-1)]

\* Everything has the shape its comment says, in every state of both programs.
TypeOK ==
  /\ pc \in {"start", "encode", "stored", "decode", "done", "unsuccessful"}
  /\ case \in Cases
  /\ enc = None \/ enc \in Counts
  /\ dec = None \/ dec \in Counts
  /\ \A r \in DOMAIN blocks : \A i \in DOMAIN blocks[r] : blocks[r][i] \in Int
  /\ DOMAIN files \subseteq Drives(case)
  /\ \A d \in DOMAIN files : \A r \in DOMAIN files[d] : files[d][r].round = r
  /\ mem = <<>> \/ \A d \in Drives(case) : mem[d] \in Parts(case)
  /\ pc \in {"stored", "decode", "done", "unsuccessful"} <=> meta # None

\* With nothing but the parameter file and the length of a file the byte b of
\* the original is found: no byte is lost, doubled or moved by the rounding of
\* the buffer, by the last, short read or by a file shorter than the buffer
\* (J/encoder.cpp 147-305, 392-413 against J/decoder.cpp 166-178, 246-261).
MetaFindsEveryByte ==
  meta # None =>
    LET d == CHOOSE e \in DOMAIN files : TRUE
        blocksize == IF meta.buffersize = meta.size THEN files[d][1].bytes
                     ELSE meta.buffersize \div meta.k
        round == blocksize * meta.k
    IN  /\ Len(blocks) = meta.readins /\ \A e \in DOMAIN files : Len(files[e]) = meta.readins
        /\ meta.readins * round >= meta.size
        /\ \A b \in 0..meta.size-1 : blocks[(b \div round) + 1][b % round] = b
        /\ \A r \in DOMAIN blocks : \A i \in DOMAIN blocks[r] :
             (r - 1) * round + i >= meta.size => blocks[r][i] < 0

\* What a drive has to hold, by the matrix alone.
Product(c, d) ==
  CASE d < c.k -> OwnPart(c, d)
    [] d >= c.k /\ c.tech \in MatrixTechs -> code.matrix[d - c.k]
    [] OTHER -> RowsOf(code.bitmatrix, d - c.k, c.w)

\* Each part written to a file is the product that the decoder's matrix says it
\* is, though the encoder gets it from a schedule that reuses rows already made
\* or, for RAID-6, by doubling sums and from no matrix at all.
FilesHoldProducts ==
  \A d \in DOMAIN files : \A r \in DOMAIN files[d] : files[d][r].holds = Product(case, d)

\* The first coding drive is the plain sum of the data drives.
SumFirst(c) == code.bitmatrix # NoMatrix
                 /\ \A x \in 0..c.w-1 : code.bitmatrix[x] = {j * c.w + x : j \in 0..c.k-1}

Restored(m) == \A d \in Drives(case) : m[d] = Product(case, d)

\* After each round all data and coding buffers hold what was stored, whichever
\* files are lost, with the codes for which row_k_ones may be passed as 1.
BuffersRestored ==
  dec # None /\ dec.n > 1 /\ SumFirst(case) => Restored(mem)

\* The decoded file has a block of coding drive 0 for each round, cut at the size
\* of the original (J/decoder.cpp 342-394).
DecodedLength ==
  /\ decoded # <<>> => dec.total = Min({meta.size, Len(decoded) * enc.blocksize})
  /\ pc = "done" => Len(decoded) = meta.readins

\* For the codes with a bit matrix the decoded file is coding drive 0 from its first
\* byte on, even if that drive or others were lost (J/decoder.cpp 331-377). For every
\* code it is cut at the size of the original, and not finished if more than m drives
\* were lost. What the matrix codes write is left out: with a data drive lost it may be
\* a buffer that nothing was decoded into.
DecodedIsCodingDrive0 ==
  /\ case.tech \notin MatrixTechs =>
       \A r \in DOMAIN decoded : decoded[r].holds = Product(case, case.k)
  /\ DecodedLength
  /\ pc = "done" => Cardinality(erased) <= case.m

\* Decoding is not given up unless more than m files are lost; the matrix codes put
\* data drive 0 into buffer 3, from any files that are enough.
EnoughIsDecoded ==
  /\ pc = "unsuccessful" => Cardinality(erased) > case.m
  /\ decoded # <<>> /\ case.tech \in MatrixTechs => mem[3] = OwnPart(case, 0)

-----------------------------------------------------------------------------
(* The library's other ways to decode, with the files that are left *)

Orders == {erasures, Reverse(erasures)}
Left == [d \in Drives(case) |-> IF d \in erased THEN Unwritten(case) ELSE files[d][1].holds]
Decodes(result) == IF Cardinality(erased) <= case.m THEN result.ok /\ Restored(result.mem)
                   ELSE ~result.ok

\* Schedules made for the case, clever or not, in either order of the erasures,
\* restore all drives; more than m lost are refused.
ScheduledDecodeRestores ==
  pc = "stored" /\ case.tech \notin MatrixTechs =>
    \A e \in Orders : \A smart \in BOOLEAN :
      Decodes(jerasure_schedule_decode_lazy(case.k, case.m, case.w, code.bitmatrix, e, smart, Left))

\* So do the schedules made beforehand for any two drives.
CachedDecodeRestores ==
  pc = "stored" /\ case.tech \notin MatrixTechs /\ case.m = 2 /\ Cardinality(erased) \in 1..2 =>
    \A e \in Orders :
      LET r == jerasure_schedule_decode_cache(case.k, case.m, code.cache, e, Left)
      IN  r.ok /\ Restored(r.mem)

\* Without the short cut over the plain sum bit matrices of every code decode;
\* the matrix codes with it, too: their first coding row is all ones.
InverseDecodeRestores ==
  pc = "stored" =>
    IF case.tech \in MatrixTechs
    THEN \A e \in Orders : \A ones \in BOOLEAN :
           Decodes(jerasure_matrix_decode(case.k, case.m, case.w, code.matrix, ones, e, Left))
    ELSE \A e \in Orders :
           Decodes(jerasure_bitmatrix_decode(case.k, case.m, case.w, code.bitmatrix, FALSE, e, Left))

\* The schedule the encoder gets is not longer than the straightforward one, and
\* both make the same coding drives (J/encoder.cpp:361 takes the clever one).
SmartScheduleIsNoLonger ==
  pc = "encode" /\ enc.n = 2 /\ case.tech \notin MatrixTechs =>
    LET dumb == jerasure_dumb_bitmatrix_to_schedule(case.k, case.m, case.w, code.bitmatrix)
        stored == [d \in Drives(case) |-> files[d][1].holds]
    IN  /\ Len(code.schedule) <= Len(dumb)
        /\ jerasure_schedule_encode(case.k, case.m, dumb, NotEncoded) = stored
        /\ jerasure_bitmatrix_encode(case.k, case.m, case.w, code.bitmatrix, NotEncoded) = stored
        /\ SumFirst(case) =>
             \A x \in 0..case.w-1 :
               stored[case.k][x]
                 = jerasure_do_parity(case.k, [j \in 0..case.k-1 |-> OwnPart(case, j)[x]])

\* All functions of jerasure.c that decode restore all drives, or refuse beyond m losses
\* and only there, when they are called with the files that are left as when the
\* decoder calls them.
LibraryDecodes ==
  ScheduledDecodeRestores /\ CachedDecodeRestores /\ InverseDecodeRestores /\ EnoughIsDecoded

\* All functions of jerasure.c that encode packets make what the bit matrix says, the
\* clever schedule with no more operations than the straightforward one.
PacketsEncoded == (case.tech \notin MatrixTechs => FilesHoldProducts) /\ SmartScheduleIsNoLonger

\* The functions that encode words multiply as the matrix says, one of them without a
\* matrix, by doublings alone.
WordsEncoded == case.tech \in MatrixTechs => FilesHoldProducts

-----------------------------------------------------------------------------
(* The arithmetic below, against its definition *)

\* The product of polynomials, reduced from the highest exponent down.
Polynomial(x, y, w) ==
  LET product == XorAll([b \in x |-> {b + e : e \in y}], x)
      Reduce(p, n) == LET d == 2 * w - 2 - n
                      IN  IF d \notin p THEN p
                          ELSE Xor(p, {d} \cup {d - w + e : e \in prim_poly[w] \ {w}})
  IN  Loop(LAMBDA p, n : Reduce(p, n), product, w - 1)

Positions(w) == CASE w <= 4 -> 0..w-1 [] w = 8 -> {0, 1, 4, 7} [] OTHER -> {0, w \div 2, w - 1}
Units(w) == {{b} : b \in Positions(w)}
Words(w) == CASE w <= 4 -> Field(w) [] w = 8 -> {{a, b} : a, b \in Positions(w)}
              [] OTHER -> {Zero, {1}, {0, w - 1}}

\* The multiplication of each width - by tables, by logarithms, by split tables of
\* bytes or by shifts - is that of the field, and division undoes it.
FieldsAgree ==
  pc = "start" =>
    LET w == case.w
    IN  \A x \in Units(w) : \A y \in Words(w) :
          /\ galois_single_multiply(x, y, w) = Polynomial(x, y, w)
          /\ galois_shift_multiply(x, y, w) = Polynomial(x, y, w)
          /\ IF y = Zero THEN galois_single_divide(x, y, w) = Error
             ELSE /\ galois_single_multiply(galois_single_divide(x, y, w), y, w) = x
                  /\ x = One => galois_shift_divide(x, y, w) = galois_single_divide(x, y, w)

\* The counts that cauchy.c keeps while it shifts are the ones of the bit matrix
\* of the word, the subtraction that borrows doubles every lane of a word, and the
\* xor of regions reaches up to the end of the group the region ends in.
BitTricksAgree ==
  pc = "start" =>
    LET w == case.w
        Bitmatrix(y) == jerasure_matrix_to_bitmatrix(1, 1, w, [i \in {0} |-> [j \in {0} |-> y]])
        Ones(bits) == MapThenSumSet(LAMBDA r : Cardinality(bits[r]), 0..w-1)
    IN  /\ \A y \in Words(w) : w <= 8 => cauchy_n_ones(y, w) = Ones(Bitmatrix(y))
        /\ w \in {4, 8} =>
             \A x \in Units(w) : \A y \in Words(w) :
               region_multby_2(x \cup {b + w : b \in y}, w, 2 * w)
                 = Times2(x, w) \cup {b + w : b \in Times2(y, w)}
        /\ \A n \in 0..5 :
             galois_region_xor([i \in 0..5 |-> {1}], [i \in 0..5 |-> {0}], n, 2)
               = [i \in 0..5 |-> IF i < n \/ (i = n /\ n % 2 = 1) THEN {0, 1} ELSE {0}]

\* A matrix is found to be invertible exactly when its determinant is not zero,
\* by both functions, and the product with what is found is the identity.  The
\* original Cauchy matrix is that of the sets 0..m-1 and m..m+k-1.
InversesAgree ==
  /\ pc = "encode" /\ case.tech = "cauchy_orig" =>
       code.matrix = cauchy_xy_coding_matrix(case.k, case.m, case.w,
                          [i \in 0..case.m-1 |-> Bits(i)], [j \in 0..case.k-1 |-> Bits(case.m + j)])
  /\ pc = "start" /\ case.w = 2 =>
    \A a, b, c, d \in Field(2) :
      LET mat == [i \in 0..1 |-> [j \in 0..1 |-> IF i = 0 THEN (IF j = 0 THEN a ELSE b)
                                                ELSE (IF j = 0 THEN c ELSE d)]]
          regular == galois_single_multiply(a, d, 2) # galois_single_multiply(b, c, 2)
          r == jerasure_invert_matrix(mat, 2, 2)
          bits == jerasure_matrix_to_bitmatrix(2, 2, 2, mat)
      IN  /\ jerasure_invertible_matrix(mat, 2, 2) = regular
          /\ r.ok = regular
          /\ jerasure_invertible_bitmatrix(bits, 4) = regular
          /\ regular => jerasure_matrix_multiply(mat, r.inv, 2, 2, 2, 2) = Identity(2)

\* galois.c, the counts of cauchy.c, the inversions of jerasure.c and the sums and
\* doublings of the encoder agree with the definitions of the field, of the bit matrix,
\* of an inverse and of the coding matrix.
ArithmeticAgrees == FieldsAgree /\ BitTricksAgree /\ InversesAgree /\ WordsEncoded
=============================================================================
