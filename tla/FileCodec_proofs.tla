-------------------------- MODULE FileCodec_proofs --------------------------
(***************************************************************************)
(* Proofs about the rounds of J/encoder.cpp and J/decoder.cpp, for every   *)
(* file, every buffer, every number of drives, every packet width and      *)
(* every loss of files.  In the first part what a drive's part holds is    *)
(* the value of Encoded, whatever that is; in the second part, for the     *)
(* codes with a bit matrix, it is what the library makes it.               *)
(***************************************************************************)
EXTENDS FileCodec, Jerasure_proofs, FiniteSetTheorems, SequenceTheorems,
        WellFoundedInduction, TLAPS

(***************************************************************************)
(* Arithmetic                                                              *)
(***************************************************************************)
\* Quotient and remainder of natural numbers, as both programs compute them.
LEMMA Division ==
  ASSUME NEW a \in Nat, NEW b \in Nat \ {0}
  PROVE  /\ a \div b \in Nat /\ a % b \in 0 .. b - 1
         /\ a = b * (a \div b) + (a % b)
BY SMTT(20)

\* A multiple divided by its factor.
LEMMA Exact ==
  ASSUME NEW b \in Nat \ {0}, NEW q \in Nat
  PROVE  (b * q) \div b = q
BY SMTT(20)

\* Products of counts are counts, in either order.
LEMMA Products ==
  ASSUME NEW a \in Nat, NEW b \in Nat
  PROVE  a * b \in Nat /\ a * b = b * a /\ (a # 0 /\ b # 0 => a * b # 0)
BY SMTT(20)

\* Multiples of the same number are a whole one apart.
LEMMA Apart ==
  ASSUME NEW b \in Nat \ {0}, NEW x \in Int, NEW y \in Int, b * x < b * y
  PROVE  b * x + b <= b * y
BY SMTT(20)

\* The same, of numbers that are in order themselves.
LEMMA Ordered ==
  ASSUME NEW b \in Nat \ {0}, NEW x \in Int, NEW y \in Int, x < y
  PROVE  b * x + b <= b * y
BY SMTT(20)

\* Three factors may be grouped either way.
LEMMA Grouped ==
  ASSUME NEW a \in Nat, NEW b \in Nat, NEW c \in Nat
  PROVE  a * (b * c) = (a * b) * c /\ a * (b * c) = b * (a * c)
BY SMTT(20)

\* What the loops of the encoder that add 1 until a size is a multiple end with
\* (J/encoder.cpp 147-192).
LEMMA RoundedUp ==
  ASSUME NEW n \in Nat \ {0}, NEW unit \in Nat \ {0}
  PROVE  \E q \in Nat \ {0} : /\ RoundUp(n, unit) = unit * q
                              /\ n <= unit * q /\ unit * q < n + unit
<1> DEFINE q == (n + unit - 1) \div unit
           r == (n + unit - 1) % unit
<1>1. n + unit - 1 \in Nat
  OBVIOUS
<1>2. q \in Nat /\ r \in 0 .. unit - 1 /\ n + unit - 1 = unit * q + r
  BY <1>1, Division
<1> HIDE DEF q, r
<1>3. unit * q \in Nat /\ q * unit = unit * q /\ (q = 0 => unit * q = 0)
  BY <1>2, Products
<1>4. n <= unit * q /\ unit * q < n + unit
  BY <1>2, <1>3
<1>5. q # 0
  BY <1>3, <1>4
<1>6. RoundUp(n, unit) = unit * q
  BY <1>3 DEF RoundUp, q
<1> QED BY <1>2, <1>4, <1>5, <1>6

\* The rounds are functions on 1 .. n, which are the sequences of length n.
LEMMA RoundsAreSequence ==
  ASSUME NEW S, NEW n \in Nat, NEW f \in [1 .. n -> S]
  PROVE  f \in Seq(S) /\ Len(f) = n
OBVIOUS

\* A round is appended to the rounds 1 .. n.
LEMMA Appended ==
  ASSUME NEW S, NEW n \in Nat, NEW f \in [1 .. n -> S], NEW e \in S
  PROVE  /\ Append(f, e) \in [1 .. n + 1 -> S]
         /\ \A r \in 1 .. n : Append(f, e)[r] = f[r]
         /\ Append(f, e)[n + 1] = e
<1>1. f \in Seq(S) /\ Len(f) = n
  BY RoundsAreSequence
<1>2. /\ Append(f, e) \in Seq(S) /\ Len(Append(f, e)) = n + 1
      /\ \A r \in 1 .. n : Append(f, e)[r] = f[r]
      /\ Append(f, e)[n + 1] = e
  BY <1>1, AppendProperties
<1>3. Append(f, e) \in [1 .. Len(Append(f, e)) -> S]
  BY <1>2, LenProperties
<1> QED BY <1>2, <1>3
\* A set of drives has a last one, and Max finds it: the least distance from the
\* number of all drives.
LEMMA LastDrive ==
  ASSUME NEW n \in Nat, NEW D \in SUBSET (0 .. n), D # {}
  PROVE  Max(D) \in D
<1> DEFINE T == {n - d : d \in D}
           Less == OpToRel(<, Nat)
<1>1. T \subseteq Nat /\ T # {}
  <2>1. \A d \in D : n - d \in Nat
    OBVIOUS
  <2> QED BY <2>1
<1>2. \E x \in T : \A y \in T : <<y, x>> \notin Less
  BY <1>1, NatLessThanWellFounded, WFMin, Zenon
<1>3. PICK x \in T : \A y \in T : <<y, x>> \notin Less
  BY <1>2, Zenon
<1>4. \A y \in T : ~ y < x
  BY <1>1, <1>3 DEF OpToRel
<1>5. PICK d \in D : x = n - d
  BY <1>3, Zenon
<1>6. \A e \in D : d >= e
  <2> SUFFICES ASSUME NEW e \in D PROVE d >= e
    OBVIOUS
  <2>1. ~ n - e < n - d
    BY <1>4, <1>5
  <2> QED BY <2>1
<1> QED BY <1>6 DEF Max

\* The lesser of two lengths.
LEMMA Lesser ==
  ASSUME NEW a \in Int, NEW b \in Int
  PROVE  Min({a, b}) = IF a <= b THEN a ELSE b
<1> DEFINE m == IF a <= b THEN a ELSE b
<1>1. m \in {a, b} /\ \A y \in {a, b} : m <= y
  OBVIOUS
<1>2. \A x \in {a, b} : (\A y \in {a, b} : x <= y) => x = m
  OBVIOUS
<1> HIDE DEF m
<1>3. Min({a, b}) = m
  BY <1>1, <1>2 DEF Min
<1> QED BY <1>3 DEF m
-----------------------------------------------------------------------------
(***************************************************************************)
(* The inductive invariant                                                 *)
(***************************************************************************)
round == enc.blocksize * case.k
Written == {"stored", "decode", "done", "unsuccessful"}

\* The rounds cover the file and the last one is needed; the bytes read in a
\* round fill its block, unless one round takes a file that is shorter.
SizeInv ==
  pc # "start" =>
    /\ enc \in Counts /\ enc.blocksize # 0 /\ enc.readins # 0
    /\ enc.n \in 1 .. enc.readins + 1
    /\ case.size <= enc.readins * round /\ (enc.readins - 1) * round < case.size
    /\ \/ enc.buffersize = round /\ enc.buffersize < case.size
       \/ enc.buffersize = case.size /\ enc.readins = 1
    /\ enc.n <= enc.readins => enc.total = (enc.n - 1) * round

\* Byte b of the file is byte b - (r-1) * round of round r; what is behind the
\* end of the file is not a byte of it.
RoundsInv ==
  /\ pc = "start" => blocks = <<>>
  /\ pc # "start" =>
       /\ blocks \in [1 .. enc.n - 1 -> [0 .. round - 1 -> Int]]
       /\ \A r \in 1 .. enc.n - 1 : \A i \in 0 .. round - 1 :
            LET b == (r - 1) * round + i
            IN  IF b < case.size THEN blocks[r][i] = b ELSE blocks[r][i] < 0

\* What the encoder has written for a drive, round after round.
Stored(d) == [r \in 1 .. enc.n - 1 |->
                [round |-> r, bytes |-> enc.blocksize, holds |-> Encoded[d]]]

\* As many files are left as the decoder can do with, one fewer if it counts them.
Fewest(c) == IF c.tech \in MatrixTechs THEN c.k ELSE c.k - 1

\* The files that are there hold all rounds so far; none is lost while they are
\* written, and one is left then.
FilesInv ==
  /\ pc = "start" => files = <<>>
  /\ pc = "encode" => DOMAIN files = IF enc.n = 1 THEN {} ELSE Drives(case)
  /\ pc \in Written =>
       /\ DOMAIN files \subseteq Drives(case)
       /\ Cardinality(DOMAIN files) >= Fewest(case)
  /\ pc # "start" => \A d \in DOMAIN files : files[d] = Stored(d)

MetaInv ==
  IF pc \in Written
  THEN /\ enc.n = enc.readins + 1
       /\ meta = [size |-> case.size, k |-> case.k, m |-> case.m, w |-> case.w, tech |-> case.tech,
                  buffersize |-> enc.buffersize, readins |-> enc.readins]
  ELSE pc \in {"start", "encode"} /\ meta = None

IInv == case \in Cases /\ SizeInv /\ RoundsInv /\ FilesInv /\ MetaInv
-----------------------------------------------------------------------------
\* The parameters of a case are the counts the programs take them for.
LEMMA CaseCounts ==
  ASSUME case \in Cases
  PROVE  /\ case.k \in Nat \ {0} /\ case.k > 1 /\ case.m \in Nat \ {0} /\ case.w \in Nat \ {0}
         /\ case.size \in Nat \ {0} /\ case.buffersize \in Nat \ {0}
BY CasesAssumption

\* There are k + m drives.
LEMMA AllDrives ==
  ASSUME case \in Cases
  PROVE  /\ IsFiniteSet(Drives(case)) /\ Cardinality(Drives(case)) = case.k + case.m
         /\ Drives(case) \in SUBSET Int
<1> DEFINE last == case.k + case.m - 1
<1>1. case.k \in Nat \ {0} /\ case.m \in Nat \ {0}
  BY CaseCounts
<1>2. last \in Int /\ ~ 0 > last /\ last - 0 + 1 = case.k + case.m
  BY <1>1
<1>3. Drives(case) = 0 .. last
  BY DEF Drives
<1> HIDE DEF last
<1>4. IsFiniteSet(0 .. last) /\ Cardinality(0 .. last) = last - 0 + 1
  BY <1>2, FS_Interval
<1> QED BY <1>2, <1>3, <1>4

\* The sizes the encoder starts with: with rounds as long as the buffer, or one
\* round that is as long as the buffer though the file is shorter
\* (J/encoder.cpp 147-192).
LEMMA StartSizes ==
  ASSUME case \in Cases,
         NEW unit, unit = case.k * case.w,
         NEW buffer, buffer = RoundUp(case.buffersize, unit),
         NEW newsize, newsize = RoundUp(RoundUp(case.size, unit), buffer)
  PROVE  /\ buffer \in Nat \ {0} /\ buffer \div case.k \in Nat \ {0}
         /\ (buffer \div case.k) * case.k = buffer
         /\ newsize \div buffer \in Nat \ {0}
         /\ case.size <= (newsize \div buffer) * buffer
         /\ (newsize \div buffer - 1) * buffer < case.size
         /\ case.size <= buffer => newsize = buffer
<1>0. /\ case.k \in Nat \ {0} /\ case.w \in Nat \ {0}
      /\ case.size \in Nat \ {0} /\ case.buffersize \in Nat \ {0}
  BY CaseCounts
<1>1. unit \in Nat \ {0}
  BY <1>0, Products
<1>2. PICK q \in Nat \ {0} : buffer = unit * q
  BY <1>0, <1>1, RoundedUp, ZenonT(60)
<1>3. PICK p \in Nat \ {0} : /\ RoundUp(case.size, unit) = unit * p
                             /\ case.size <= unit * p /\ unit * p < case.size + unit
  BY <1>0, <1>1, RoundedUp
<1>4. buffer \in Nat \ {0} /\ unit * p \in Nat \ {0}
  BY <1>1, <1>2, <1>3, Products
<1>5. PICK t \in Nat \ {0} : /\ newsize = buffer * t
                             /\ unit * p <= buffer * t /\ buffer * t < unit * p + buffer
  BY <1>3, <1>4, RoundedUp
<1>6. newsize \div buffer = t /\ t * buffer = buffer * t
  BY <1>4, <1>5, Exact, Products, SMTT(60)
<1>7. buffer = case.k * (case.w * q) /\ case.w * q \in Nat \ {0}
  BY <1>0, <1>2, Products, Grouped
<1>8. buffer \div case.k = case.w * q /\ (case.w * q) * case.k = buffer
  BY <1>0, <1>7, Exact, Products
<1>9. (t - 1) * buffer < case.size
  <2>1. t - 1 \in Nat /\ (t - 1) * buffer = buffer * (t - 1)
    BY <1>4, Products
  <2>2. buffer * (t - 1) = buffer * t - buffer
    BY <1>4, SMTT(20)
  <2>3. buffer * t \in Nat
    BY <1>4, Products
  <2>4. buffer * (t - 1) < unit * p
    BY <1>4, <1>5, <2>2, <2>3
  <2>5. buffer * (t - 1) = unit * (q * (t - 1)) /\ q * (t - 1) \in Nat
    BY <1>1, <1>2, <2>1, Grouped, Products
  <2>6. unit * (q * (t - 1)) + unit <= unit * p
    BY <1>1, <2>4, <2>5, Apart
  <2>7. buffer * (t - 1) \in Nat
    BY <1>4, <2>1, Products
  <2> QED BY <1>0, <1>1, <1>3, <1>4, <2>1, <2>5, <2>6, <2>7
<1>10. ASSUME case.size <= buffer PROVE newsize = buffer
  <2>1. unit * p < unit * q + unit
    BY <1>0, <1>1, <1>2, <1>3, <1>4, <1>10
  <2>2. unit * p <= unit * q
    <3>1. CASE q < p
      BY <1>1, <1>2, <1>4, <2>1, <3>1, Ordered
    <3>2. CASE p = q
      BY <1>4, <3>2
    <3>3. CASE p < q
      BY <1>1, <1>2, <1>4, <3>3, Ordered
    <3> QED BY <3>1, <3>2, <3>3
  <2>3. buffer * t < buffer + buffer
    BY <1>2, <1>4, <1>5, <2>2, Products
  <2>4. t = 1
    <3>1. CASE 1 < t
      <4>1. buffer * 1 + buffer <= buffer * t
        BY <1>4, <3>1, Ordered
      <4>2. buffer * t \in Nat
        BY <1>4, Products
      <4> QED BY <1>4, <2>3, <4>1, <4>2
    <3> QED BY <3>1
  <2> QED BY <1>4, <1>5, <2>4
<1>11. unit * p \in Nat /\ case.size <= buffer * t
  BY <1>0, <1>3, <1>4, <1>5, Products
<1> QED BY <1>4, <1>6, <1>7, <1>8, <1>9, <1>10, <1>11
-----------------------------------------------------------------------------
\* Nothing is read or written before the encoder starts.
LEMMA InitIInv == Init => IInv
BY DEF Init, IInv, SizeInv, RoundsInv, FilesInv, MetaInv, Written

\* The sizes the encoder computes first fit one another.
LEMMA StartKeeps == IInv /\ StartEncoder => IInv'
<1> SUFFICES ASSUME IInv, StartEncoder PROVE IInv'
  OBVIOUS
<1> DEFINE unit == case.k * case.w
           buffer == RoundUp(case.buffersize, unit)
           newsize == RoundUp(RoundUp(case.size, unit), buffer)
<1>1. /\ pc = "start" /\ pc' = "encode"
      /\ enc' = IF case.size > buffer
                THEN [buffersize |-> buffer, blocksize |-> buffer \div case.k,
                      readins |-> newsize \div buffer, n |-> 1, total |-> 0]
                ELSE [buffersize |-> case.size, blocksize |-> newsize \div case.k,
                      readins |-> 1, n |-> 1, total |-> 0]
      /\ UNCHANGED <<case, blocks, files, meta>>
  BY DEF StartEncoder
<1>2. case \in Cases /\ meta = None
  BY <1>1 DEF IInv, MetaInv, Written
<1>3. /\ case.k \in Nat \ {0} /\ case.size \in Nat \ {0}
  BY <1>2, CaseCounts
<1>4. /\ buffer \in Nat \ {0} /\ buffer \div case.k \in Nat \ {0}
      /\ (buffer \div case.k) * case.k = buffer
      /\ newsize \div buffer \in Nat \ {0}
      /\ case.size <= (newsize \div buffer) * buffer
      /\ (newsize \div buffer - 1) * buffer < case.size
      /\ case.size <= buffer => newsize = buffer
  BY <1>2, StartSizes
<1> HIDE DEF unit, buffer, newsize
<1>5. round' = buffer /\ enc' \in Counts /\ enc'.n = 1 /\ enc'.total = 0
  <2>1. CASE case.size > buffer
    <3>1. enc' = [buffersize |-> buffer, blocksize |-> buffer \div case.k,
                  readins |-> newsize \div buffer, n |-> 1, total |-> 0]
      BY <1>1, <2>1
    <3> QED BY <1>1, <1>4, <3>1 DEF round, Counts
  <2>2. CASE ~ case.size > buffer
    <3>1. newsize = buffer
      BY <1>3, <1>4, <2>2
    <3>2. enc' = [buffersize |-> case.size, blocksize |-> buffer \div case.k,
                  readins |-> 1, n |-> 1, total |-> 0]
      BY <1>1, <2>2, <3>1
    <3> QED BY <1>1, <1>3, <1>4, <3>2 DEF round, Counts
  <2> QED BY <2>1, <2>2
<1>6. SizeInv'
  <2>1. enc'.blocksize # 0 /\ enc'.readins # 0 /\ 0 * buffer = 0 /\ 1 * buffer = buffer
    BY <1>1, <1>3, <1>4
  <2>2. enc'.n \in 1 .. enc'.readins + 1
    BY <1>5, <2>1 DEF Counts
  <2>3. enc'.total = (enc'.n - 1) * buffer
    BY <1>5, <2>1
  <2>4. CASE case.size > buffer
    <3>1. /\ case'.size <= enc'.readins * round' /\ (enc'.readins - 1) * round' < case'.size
          /\ enc'.buffersize = round' /\ enc'.buffersize < case'.size
      BY <1>1, <1>4, <1>5, <2>4
    <3> QED BY <1>1, <1>5, <2>1, <2>2, <2>3, <3>1 DEF SizeInv
  <2>5. CASE ~ case.size > buffer
    <3>1. enc'.readins = 1 /\ enc'.buffersize = case'.size
      BY <1>1, <2>5
    <3>2. case'.size <= enc'.readins * round' /\ (enc'.readins - 1) * round' < case'.size
      <4>0. case' = case
        BY <1>1
      <4>1. case'.size <= buffer /\ case'.size > 0
        <5>1. buffer \in Nat /\ case.size \in Nat \ {0} /\ ~ case.size > buffer
          BY <1>3, <1>4, <2>5
        <5> QED BY <4>0, <5>1
      <4>2. enc'.readins * round' = buffer /\ (enc'.readins - 1) * round' = 0
        BY <1>5, <2>1, <3>1
      <4> QED BY <4>1, <4>2
    <3> QED BY <1>1, <1>5, <2>1, <2>2, <2>3, <3>1, <3>2 DEF SizeInv
  <2> QED BY <2>4, <2>5
<1>7. RoundsInv'
  <2>1. blocks' = <<>>
    BY <1>1 DEF IInv, RoundsInv
  <2> QED BY <1>1, <1>5, <2>1 DEF RoundsInv
<1>8. FilesInv'
  <2>1. files' = <<>> /\ DOMAIN files' = {}
    BY <1>1 DEF IInv, FilesInv
  <2> QED BY <1>1, <1>5, <2>1 DEF FilesInv, Written
<1>9. MetaInv'
  BY <1>1, <1>2 DEF MetaInv, Written
<1> QED BY <1>1, <1>2, <1>6, <1>7, <1>8, <1>9 DEF IInv

\* A round of the encoder adds the bytes that follow those of the rounds before,
\* and a part for each drive.
LEMMA RoundKeeps == IInv /\ EncodeRound => IInv'
<1> SUFFICES ASSUME IInv, EncodeRound PROVE IInv'
  OBVIOUS
<1>1. /\ pc = "encode" /\ enc.n <= enc.readins
      /\ blocks' = Append(blocks, ReadBlock)
      /\ enc' = [enc EXCEPT !.n = enc.n + 1,
                   !.total = IF enc.total < case.size /\ enc.total + enc.buffersize <= case.size
                             THEN enc.total + enc.buffersize ELSE enc.total]
      /\ files' = WrittenFiles(Encoded, IF enc.n = 1 THEN [d \in Drives(case) |-> <<>>] ELSE files)
      /\ UNCHANGED <<pc, case, code, meta>>
  BY DEF EncodeRound
<1>2. case \in Cases /\ meta = None
  BY <1>1 DEF IInv, MetaInv, Written
<1>3. case.k \in Nat \ {0} /\ case.size \in Nat \ {0}
  BY <1>2, CaseCounts
<1>4. /\ enc \in Counts /\ enc.blocksize # 0 /\ enc.readins # 0 /\ enc.n \in 1 .. enc.readins + 1
      /\ case.size <= enc.readins * round /\ (enc.readins - 1) * round < case.size
      /\ \/ enc.buffersize = round /\ enc.buffersize < case.size
         \/ enc.buffersize = case.size /\ enc.readins = 1
      /\ enc.total = (enc.n - 1) * round
  BY <1>1 DEF IInv, SizeInv
<1>5. /\ enc.n \in Nat \ {0} /\ enc.blocksize \in Nat \ {0} /\ enc.readins \in Nat \ {0}
      /\ enc.total \in Nat /\ enc.buffersize \in Nat
  BY <1>4 DEF Counts
<1>6. round \in Nat \ {0}
  BY <1>3, <1>5, Products DEF round
<1>7. /\ enc'.n = enc.n + 1 /\ enc'.blocksize = enc.blocksize /\ enc'.readins = enc.readins
      /\ enc'.buffersize = enc.buffersize /\ round' = round
  BY <1>1, <1>4 DEF round, Counts
<1>8. enc'.total = IF enc.total < case.size /\ enc.total + enc.buffersize <= case.size
                   THEN enc.total + enc.buffersize ELSE enc.total
  BY <1>1, <1>4 DEF Counts
<1>9. SizeInv'
  <2>1. enc' \in Counts
    <3> DEFINE total == IF enc.total < case.size /\ enc.total + enc.buffersize <= case.size
                        THEN enc.total + enc.buffersize ELSE enc.total
    <3>1. total \in Nat /\ enc.n + 1 \in Nat
      BY <1>3, <1>5
    <3> HIDE DEF total
    <3>2. enc' = [enc EXCEPT !.n = enc.n + 1, !.total = total]
      BY <1>1 DEF total
    <3> QED BY <1>4, <3>1, <3>2 DEF Counts
  <2>2. enc'.n <= enc'.readins => enc'.total = (enc'.n - 1) * round'
    <3>1. SUFFICES ASSUME enc.n < enc.readins PROVE enc'.total = enc.n * round
      BY <1>5, <1>7
    <3>2. enc.readins # 1 /\ enc.buffersize = round
      BY <1>4, <1>5, <3>1
    <3>3. enc.n * round = enc.total + round
      <4>1. enc.n * round = round * enc.n /\ (enc.n - 1) * round = round * (enc.n - 1)
        BY <1>5, <1>6, Products
      <4>2. round * (enc.n - 1) = round * enc.n - round /\ round * enc.n \in Nat
        BY <1>5, <1>6, SMTT(20)
      <4> QED BY <1>4, <1>6, <4>1, <4>2
    <3>4. enc.n * round <= (enc.readins - 1) * round
      <4>1. enc.n * round = round * enc.n /\ (enc.readins - 1) * round = round * (enc.readins - 1)
        BY <1>5, <1>6, Products
      <4>2. CASE enc.n = enc.readins - 1
        BY <1>5, <1>6, <4>2, Products
      <4>3. CASE enc.n < enc.readins - 1
        <5>1. round * enc.n + round <= round * (enc.readins - 1)
          BY <1>5, <1>6, <4>3, Ordered
        <5>2. round * enc.n \in Nat /\ round * (enc.readins - 1) \in Nat
          BY <1>5, <1>6, Products
        <5> QED BY <1>6, <4>1, <5>1, <5>2
      <4> QED BY <1>5, <3>1, <4>2, <4>3
    <3>5. (enc.readins - 1) * round \in Nat
      BY <1>5, <1>6, Products
    <3> QED BY <1>3, <1>4, <1>5, <1>6, <1>8, <3>2, <3>3, <3>4, <3>5
  <2>3. enc'.n \in 1 .. enc'.readins + 1
    BY <1>1, <1>5, <1>7
  <2> QED BY <1>1, <1>4, <1>7, <2>1, <2>2, <2>3 DEF SizeInv
<1>10. ReadBlock \in [0 .. round - 1 -> Int]
  BY <1>3, <1>5, <1>6 DEF ReadBlock, round, Junk, Pad
<1>11. \A i \in 0 .. round - 1 :
         LET b == (enc.n - 1) * round + i
         IN  IF b < case.size THEN ReadBlock[i] = b ELSE ReadBlock[i] < 0
  <2> SUFFICES ASSUME NEW i \in 0 .. round - 1
               PROVE  IF enc.total + i < case.size THEN ReadBlock[i] = enc.total + i ELSE ReadBlock[i] < 0
    BY <1>4
  <2>1. i \in Nat /\ i < round
    BY <1>6
  <2>2. ReadBlock[i] = CASE i >= enc.buffersize -> Junk(i)
                         [] i < enc.buffersize /\ enc.total + i < case.size -> enc.total + i
                         [] OTHER -> Pad
    BY DEF ReadBlock, round
  <2>3. enc.total + i < case.size => i < enc.buffersize
    BY <1>3, <1>4, <1>5, <1>6, <2>1
  <2> QED BY <1>3, <1>5, <2>1, <2>2, <2>3 DEF Junk, Pad
<1>12. RoundsInv'
  <2>1. blocks \in [1 .. enc.n - 1 -> [0 .. round - 1 -> Int]]
    BY <1>1 DEF IInv, RoundsInv
  <2>2. /\ blocks' \in [1 .. (enc.n - 1) + 1 -> [0 .. round - 1 -> Int]]
        /\ \A r \in 1 .. enc.n - 1 : blocks'[r] = blocks[r]
        /\ blocks'[(enc.n - 1) + 1] = ReadBlock
    <3>1. enc.n - 1 \in Nat
      BY <1>5
    <3> DEFINE S == [0 .. round - 1 -> Int]
               last == enc.n - 1
    <3>2. last \in Nat /\ blocks \in [1 .. last -> S] /\ ReadBlock \in S
      BY <1>10, <2>1, <3>1
    <3> HIDE DEF S, last
    <3>3. Append(blocks, ReadBlock) \in [1 .. last + 1 -> S]
      BY <3>2, Appended, Zenon
    <3>4. \A r \in 1 .. last : Append(blocks, ReadBlock)[r] = blocks[r]
      BY <3>2, Appended
    <3>5. Append(blocks, ReadBlock)[last + 1] = ReadBlock
      BY <3>2, Appended
    <3> QED BY <1>1, <3>3, <3>4, <3>5 DEF S, last
  <2>3. (enc.n - 1) + 1 = enc.n /\ enc'.n - 1 = enc.n
    BY <1>5, <1>7
  <2>4. ASSUME NEW r \in 1 .. enc.n, NEW i \in 0 .. round - 1
        PROVE  LET b == (r - 1) * round + i
               IN  IF b < case.size THEN blocks'[r][i] = b ELSE blocks'[r][i] < 0
    <3>1. CASE r = enc.n
      BY <1>11, <2>2, <2>3, <3>1
    <3>2. CASE r # enc.n
      <4>1. r \in 1 .. enc.n - 1
        BY <1>5, <3>2
      <4> QED BY <1>1, <2>2, <4>1 DEF IInv, RoundsInv
    <3> QED BY <3>1, <3>2
  <2> QED BY <1>1, <1>7, <2>2, <2>3, <2>4 DEF RoundsInv
<1>13. FilesInv'
  <2>1. Encoded' = Encoded
    BY <1>1 DEF Encoded, NotEncoded
  <2> DEFINE old == IF enc.n = 1 THEN [d \in Drives(case) |-> <<>>] ELSE files
  <2>2. ASSUME NEW d \in Drives(case) PROVE old[d] = Stored(d)
    <3>1. CASE enc.n = 1
      BY <3>1 DEF Stored
    <3>2. CASE enc.n # 1
      BY <1>1, <3>2 DEF IInv, FilesInv
    <3> QED BY <3>1, <3>2
  <2> HIDE DEF old
  <2>3. files' = [d \in Drives(case) |->
                    Append(old[d], [round |-> enc.n, bytes |-> enc.blocksize, holds |-> Encoded[d]])]
    BY <1>1 DEF WrittenFiles, old
  <2>4. ASSUME NEW d \in Drives(case) PROVE files'[d] = Stored(d)'
    <3> DEFINE entry(r) == [round |-> r, bytes |-> enc.blocksize, holds |-> Encoded[d]]
               S == {entry(r) : r \in 1 .. enc.n}
               longer == Append(Stored(d), entry(enc.n))
    <3>1. enc.n - 1 \in Nat /\ (enc.n - 1) + 1 = enc.n
      BY <1>5
    <3>2. Stored(d) \in [1 .. enc.n - 1 -> S] /\ \A r \in 1 .. enc.n - 1 : Stored(d)[r] = entry(r)
      BY <1>5 DEF Stored
    <3>3. entry(enc.n) \in S
      BY <1>5
    <3> HIDE DEF entry, S
    <3>4. /\ longer \in [1 .. enc.n -> S]
          /\ \A r \in 1 .. enc.n - 1 : longer[r] = Stored(d)[r]
          /\ longer[enc.n] = entry(enc.n)
      <4> DEFINE last == enc.n - 1
      <4>1. last \in Nat /\ last + 1 = enc.n /\ Stored(d) \in [1 .. last -> S]
        BY <3>1, <3>2
      <4> HIDE DEF last
      <4>2. longer \in [1 .. last + 1 -> S]
        BY <3>3, <4>1, Appended, Zenon
      <4>3. \A r \in 1 .. last : longer[r] = Stored(d)[r]
        BY <3>3, <4>1, Appended
      <4>4. longer[last + 1] = entry(enc.n)
        BY <3>3, <4>1, Appended
      <4> QED BY <4>1, <4>2, <4>3, <4>4 DEF last
    <3>5. \A r \in 1 .. enc.n : longer[r] = entry(r)
      <4> SUFFICES ASSUME NEW r \in 1 .. enc.n PROVE longer[r] = entry(r)
        OBVIOUS
      <4>1. r = enc.n \/ r \in 1 .. enc.n - 1
        BY <1>5
      <4> QED BY <3>2, <3>4, <4>1
    <3>6. longer = [r \in 1 .. enc.n |-> entry(r)]
      BY <3>4, <3>5
    <3>7. files'[d] = longer
      BY <2>2, <2>3 DEF entry
    <3>8. Stored(d)' = [r \in 1 .. enc.n |-> entry(r)]
      BY <1>5, <1>7, <2>1 DEF Stored, entry
    <3> QED BY <3>6, <3>7, <3>8
  <2>5. DOMAIN files' = Drives(case) /\ enc'.n # 1 /\ pc' = "encode" /\ case' = case
    BY <1>1, <1>5, <1>7, <2>3
  <2> QED BY <2>4, <2>5 DEF FilesInv, Written, Drives
<1>14. MetaInv'
  BY <1>1, <1>2 DEF MetaInv, Written
<1> QED BY <1>1, <1>2, <1>9, <1>12, <1>13, <1>14 DEF IInv

\* The parameter file is written when all rounds are.
LEMMA MetaKeeps == IInv /\ WriteMeta => IInv'
<1> SUFFICES ASSUME IInv, WriteMeta PROVE IInv'
  OBVIOUS
<1>1. /\ pc = "encode" /\ pc' = "stored" /\ enc.n > enc.readins
      /\ meta' = [size |-> case.size, k |-> case.k, m |-> case.m, w |-> case.w, tech |-> case.tech,
                  buffersize |-> enc.buffersize, readins |-> enc.readins]
      /\ UNCHANGED <<case, code, enc, blocks, files>>
  BY DEF WriteMeta
<1>2. case \in Cases /\ SizeInv /\ RoundsInv /\ FilesInv
  BY DEF IInv
<1>3. enc.n = enc.readins + 1 /\ enc.readins \in Nat \ {0}
  BY <1>1, <1>2 DEF SizeInv, Counts
<1>4. SizeInv'
  BY <1>1, <1>2 DEF SizeInv, round
<1>5. RoundsInv'
  BY <1>1, <1>2 DEF RoundsInv, round
<1>6. FilesInv'
  <2>1. DOMAIN files = Drives(case)
    BY <1>1, <1>2, <1>3 DEF FilesInv
  <2>2. Cardinality(Drives(case)) >= Fewest(case)
    BY <1>2, CaseCounts, AllDrives DEF Fewest
  <2>3. \A d \in DOMAIN files : Stored(d)' = Stored(d)
    BY <1>1 DEF Stored, Encoded, NotEncoded
  <2> QED BY <1>1, <1>2, <2>1, <2>2, <2>3 DEF FilesInv, Fewest, Written
<1>7. MetaInv'
  BY <1>1, <1>3 DEF MetaInv, Written
<1> QED BY <1>1, <1>2, <1>4, <1>5, <1>6, <1>7 DEF IInv

\* A lost file leaves the others as they are, and one of them at least.
LEMMA LoseKeeps == IInv /\ (\E d \in Drives(case) : Lose(d)) => IInv'
<1> SUFFICES ASSUME IInv, NEW d \in Drives(case), Lose(d) PROVE IInv'
  OBVIOUS
<1>1. /\ pc = "stored" /\ d \in DOMAIN files
      /\ Cardinality(DOMAIN files) > case.k - (IF case.tech \in MatrixTechs THEN 0 ELSE 1)
      /\ files' = [e \in DOMAIN files \ {d} |-> files[e]]
      /\ UNCHANGED <<pc, case, code, enc, blocks, meta>>
  BY DEF Lose
<1>2. case \in Cases /\ SizeInv /\ RoundsInv /\ FilesInv /\ MetaInv
  BY DEF IInv
<1>3. SizeInv' /\ RoundsInv' /\ MetaInv'
  BY <1>1, <1>2 DEF SizeInv, RoundsInv, MetaInv, round
<1>4. FilesInv'
  <2>1. DOMAIN files \subseteq Drives(case) /\ \A e \in DOMAIN files : files[e] = Stored(e)
    BY <1>1, <1>2 DEF FilesInv, Written
  <2>2. case.k \in Nat \ {0} /\ case.m \in Nat \ {0}
    BY <1>2, CaseCounts
  <2>3. IsFiniteSet(DOMAIN files)
    BY <1>2, <2>1, AllDrives, FS_Subset
  <2>4. /\ Cardinality(DOMAIN files \ {d}) = Cardinality(DOMAIN files) - 1
        /\ Cardinality(DOMAIN files) \in Nat
    BY <1>1, <2>3, FS_RemoveElement, FS_CardinalityType
  <2>5. Cardinality(DOMAIN files \ {d}) >= Fewest(case)
    BY <1>1, <2>2, <2>4 DEF Fewest
  <2>6. \A e \in DOMAIN files : Stored(e)' = Stored(e)
    BY <1>1 DEF Stored, Encoded, NotEncoded
  <2>7. DOMAIN files' = DOMAIN files \ {d} /\ \A e \in DOMAIN files' : files'[e] = files[e]
    BY <1>1
  <2> QED BY <1>1, <2>1, <2>5, <2>6, <2>7 DEF FilesInv, Fewest, Written
<1> QED BY <1>1, <1>2, <1>3, <1>4 DEF IInv

\* The decoder changes nothing that the encoder has written.
LEMMA DecoderKeeps ==
  ASSUME IInv, pc \in Written, pc' \in Written, UNCHANGED <<case, code, enc, blocks, files, meta>>
  PROVE  IInv'
<1>1. case \in Cases /\ SizeInv /\ RoundsInv /\ FilesInv /\ MetaInv
  BY DEF IInv
<1>2. SizeInv' /\ RoundsInv' /\ MetaInv'
  BY <1>1 DEF SizeInv, RoundsInv, MetaInv, round, Written
<1>3. FilesInv'
  <2>1. \A d \in DOMAIN files : Stored(d)' = Stored(d)
    BY DEF Stored, Encoded, NotEncoded
  <2> QED BY <1>1, <2>1 DEF FilesInv, Fewest, Written
<1> QED BY <1>1, <1>2, <1>3 DEF IInv

\* Every step of the two programs keeps the invariant.
LEMMA NextIInv == IInv /\ [Next]_vars => IInv'
<1> SUFFICES ASSUME IInv, [Next]_vars PROVE IInv'
  OBVIOUS
<1>1. CASE StartEncoder
  BY <1>1, StartKeeps
<1>2. CASE EncodeRound
  BY <1>2, RoundKeeps
<1>3. CASE WriteMeta
  BY <1>3, MetaKeeps
<1>4. CASE \E d \in Drives(case) : Lose(d)
  BY <1>4, LoseKeeps
<1>5. CASE StartDecoder
  BY <1>5, DecoderKeeps DEF StartDecoder, Written
<1>6. CASE DecodeRound
  BY <1>6, DecoderKeeps DEF DecodeRound, WriteDecoded, Written
<1>7. CASE FinishDecoder
  BY <1>7, DecoderKeeps DEF FinishDecoder, Written
<1>8. CASE UNCHANGED vars
  <2>1. CASE pc \in Written
    BY <1>8, <2>1, DecoderKeeps DEF vars
  <2>2. CASE pc \notin Written
    <3>1. \A d : Stored(d)' = Stored(d)
      BY <1>8 DEF vars, Stored, Encoded, NotEncoded
    <3> QED BY <1>8, <2>2, <3>1 DEF vars, IInv, SizeInv, RoundsInv, FilesInv, Fewest, MetaInv, round
  <2> QED BY <2>1, <2>2
<1> QED BY <1>1, <1>2, <1>3, <1>4, <1>5, <1>6, <1>7, <1>8 DEF Next

\* Once the parameter file is there, every byte is where its number says.
LEMMA EveryByte == IInv => MetaFindsEveryByte
<1> SUFFICES ASSUME IInv, meta # None PROVE MetaFindsEveryByte
  BY DEF MetaFindsEveryByte
<1> DEFINE d == CHOOSE e \in DOMAIN files : TRUE
           blocksize == IF meta.buffersize = meta.size THEN files[d][1].bytes
                        ELSE meta.buffersize \div meta.k
<1>1. /\ pc \in Written /\ pc # "start" /\ enc.n = enc.readins + 1
      /\ meta = [size |-> case.size, k |-> case.k, m |-> case.m, w |-> case.w, tech |-> case.tech,
                 buffersize |-> enc.buffersize, readins |-> enc.readins]
  BY DEF IInv, MetaInv, Written
<1>2. /\ meta.size = case.size /\ meta.k = case.k /\ meta.buffersize = enc.buffersize
      /\ meta.readins = enc.readins
  BY <1>1
<1>3. /\ enc \in Counts /\ enc.blocksize # 0 /\ enc.readins # 0
      /\ case.size <= enc.readins * round
      /\ \/ enc.buffersize = round /\ enc.buffersize < case.size
         \/ enc.buffersize = case.size /\ enc.readins = 1
  BY <1>1 DEF IInv, SizeInv
<1>4. /\ enc.blocksize \in Nat \ {0} /\ enc.readins \in Nat \ {0} /\ enc.n - 1 = enc.readins
  BY <1>1, <1>3 DEF Counts
<1>5. case.k \in Nat \ {0} /\ case.k > 1 /\ case.m \in Nat \ {0} /\ case.size \in Nat \ {0}
  BY CaseCounts DEF IInv
<1>6. round \in Nat \ {0}
  BY <1>4, <1>5, Products DEF round
<1>7. d \in DOMAIN files
  <2>1. DOMAIN files \subseteq Drives(case) /\ Cardinality(DOMAIN files) >= Fewest(case)
    BY <1>1 DEF IInv, FilesInv
  <2>a. ~ 0 >= Fewest(case)
    BY <1>5 DEF Fewest
  <2>2. DOMAIN files # {}
    BY <2>1, <2>a, FS_EmptySet
  <2> QED BY <2>2
<1>8. \A e \in DOMAIN files : Len(files[e]) = enc.readins /\ files[e][1].bytes = enc.blocksize
  <2> SUFFICES ASSUME NEW e \in DOMAIN files
               PROVE  Len(files[e]) = enc.readins /\ files[e][1].bytes = enc.blocksize
    OBVIOUS
  <2> DEFINE entry(r) == [round |-> r, bytes |-> enc.blocksize, holds |-> Encoded[e]]
             S == {entry(r) : r \in 1 .. enc.readins}
  <2>1. files[e] = [r \in 1 .. enc.readins |-> entry(r)]
    BY <1>1, <1>4 DEF IInv, FilesInv, Stored
  <2>2. files[e] \in [1 .. enc.readins -> S]
    BY <2>1
  <2>3. files[e][1] = entry(1)
    BY <1>4, <2>1
  <2>4. Len(files[e]) = enc.readins
    <3> HIDE DEF S
    <3> QED BY <1>4, <2>2, RoundsAreSequence
  <2> QED BY <2>3, <2>4
<1>9. blocksize = enc.blocksize
  <2>1. CASE meta.buffersize = meta.size
    BY <1>7, <1>8, <2>1
  <2>2. CASE meta.buffersize # meta.size
    <3>1. enc.buffersize = case.k * enc.blocksize
      BY <1>2, <1>3, <1>4, <1>5, <2>2, Products DEF round
    <3> QED BY <1>2, <1>4, <1>5, <2>2, <3>1, Exact
  <2> QED BY <2>1, <2>2
<1>10. blocksize * meta.k = round
  BY <1>2, <1>9 DEF round
<1>11. /\ blocks \in [1 .. enc.readins -> [0 .. round - 1 -> Int]]
       /\ \A r \in 1 .. enc.readins : \A i \in 0 .. round - 1 :
            LET b == (r - 1) * round + i
            IN  IF b < case.size THEN blocks[r][i] = b ELSE blocks[r][i] < 0
  BY <1>1, <1>4 DEF IInv, RoundsInv
<1>12. Len(blocks) = enc.readins
  <2> DEFINE S == [0 .. round - 1 -> Int]
  <2>1. blocks \in [1 .. enc.readins -> S]
    BY <1>11
  <2> HIDE DEF S
  <2> QED BY <1>4, <2>1, RoundsAreSequence
<1> HIDE DEF d, blocksize
<1>13. ASSUME NEW b \in 0 .. case.size - 1
       PROVE  blocks[(b \div round) + 1][b % round] = b
  <2> DEFINE q == b \div round
             i == b % round
  <2>1. b \in Nat /\ b < case.size
    BY <1>5
  <2>2. q \in Nat /\ i \in 0 .. round - 1 /\ b = round * q + i /\ round * q \in Nat
        /\ round * q = q * round
    BY <1>6, <2>1, Division, Products
  <2> HIDE DEF q, i
  <2>3. q < enc.readins
    <3>1. CASE enc.readins <= q
      <4>1. enc.readins * round <= round * q
        <5>1. enc.readins * round = round * enc.readins /\ enc.readins * round \in Nat
          BY <1>4, <1>6, Products
        <5>2. CASE enc.readins = q
          BY <2>2, <5>1, <5>2
        <5>3. CASE enc.readins < q
          BY <1>4, <1>6, <2>2, <5>1, <5>3, Ordered
        <5> QED BY <1>4, <2>2, <3>1, <5>2, <5>3
      <4>2. enc.readins * round \in Nat
        BY <1>4, <1>6, Products
      <4> QED BY <1>3, <1>5, <1>6, <2>1, <2>2, <4>1, <4>2
    <3> QED BY <1>4, <2>2, <3>1
  <2>4. q + 1 \in 1 .. enc.readins /\ (q + 1) - 1 = q
    BY <1>4, <2>2, <2>3
  <2>5. blocks[q + 1][i] = b
    BY <1>11, <2>1, <2>2, <2>4
  <2> QED BY <2>5 DEF q, i
<1>14. ASSUME NEW r \in DOMAIN blocks, NEW i \in DOMAIN blocks[r], (r - 1) * round + i >= case.size
       PROVE  blocks[r][i] < 0
  <2>1. r \in 1 .. enc.readins /\ i \in 0 .. round - 1
    BY <1>11
  <2>2. (r - 1) * round + i \in Nat
    BY <1>4, <1>6, <2>1, Products
  <2> QED BY <1>5, <1>11, <1>14, <2>1, <2>2
<1>15. meta.readins * round >= meta.size
  <2>1. enc.readins * round \in Nat
    BY <1>4, <1>6, Products
  <2> QED BY <1>2, <1>3, <1>5, <2>1
<1>16. /\ Len(blocks) = meta.readins /\ \A e \in DOMAIN files : Len(files[e]) = meta.readins
       /\ \A b \in 0 .. meta.size - 1 : blocks[(b \div round) + 1][b % round] = b
       /\ \A r \in DOMAIN blocks : \A i \in DOMAIN blocks[r] :
            (r - 1) * round + i >= meta.size => blocks[r][i] < 0
  BY <1>2, <1>8, <1>12, <1>13, <1>14
<1>17. LET bytes_of_round == blocksize * meta.k
       IN  /\ Len(blocks) = meta.readins /\ \A e \in DOMAIN files : Len(files[e]) = meta.readins
           /\ meta.readins * bytes_of_round >= meta.size
           /\ \A b \in 0 .. meta.size - 1 :
                blocks[(b \div bytes_of_round) + 1][b % bytes_of_round] = b
           /\ \A r \in DOMAIN blocks : \A i \in DOMAIN blocks[r] :
                (r - 1) * bytes_of_round + i >= meta.size => blocks[r][i] < 0
  BY <1>10, <1>15, <1>16, Zenon
<1> QED BY <1>17, Zenon DEF MetaFindsEveryByte, d, blocksize

\* The rounds of the encoder, for every file and every code.
THEOREM EncodingInductive == Spec => []IInv
<1> QED BY InitIInv, NextIInv, PTL DEF Spec

\* No byte is lost, doubled or moved between the two programs
\* (J/encoder.cpp 147-305, 392-413 against J/decoder.cpp 166-178, 246-261).
THEOREM EveryByteIsFound == Spec => []MetaFindsEveryByte
<1> QED BY EncodingInductive, EveryByte, PTL
-----------------------------------------------------------------------------
(***************************************************************************)
(* The decoder's count of the bytes it writes                              *)
(***************************************************************************)
Decoding == {"decode", "done", "unsuccessful"}

\* The sizes are the encoder's, the block's as soon as a round is over; so far
\* each round has given a block, and the last one what was left of the size.
DecodeInv ==
  /\ pc \notin Decoding => decoded = <<>>
  /\ pc \in Decoding =>
       /\ dec \in Counts /\ dec.buffersize = enc.buffersize /\ dec.readins = enc.readins
       /\ dec.n \in 1 .. dec.readins + 1
       /\ decoded = [r \in 1 .. dec.n - 1 |-> decoded[r]]
       /\ enc.buffersize # case.size => dec.blocksize = enc.blocksize
       /\ dec.total = Min({case.size, (dec.n - 1) * enc.blocksize})
       /\ pc = "done" => dec.n = dec.readins + 1

\* What the invariant says when the parameter file is there.
LEMMA WrittenFacts ==
  ASSUME IInv, pc \in Written
  PROVE  /\ case.k \in Nat \ {0} /\ case.size \in Nat \ {0}
         /\ meta.size = case.size /\ meta.k = case.k /\ meta.buffersize = enc.buffersize
         /\ meta.readins = enc.readins
         /\ enc.blocksize \in Nat \ {0} /\ enc.readins \in Nat \ {0} /\ enc.buffersize \in Nat
         /\ enc.buffersize # case.size => meta.buffersize \div meta.k = enc.blocksize
<1>1. pc # "start" /\ case \in Cases /\ SizeInv /\ MetaInv
  BY DEF IInv, Written
<1>2. /\ case.k \in Nat \ {0} /\ case.size \in Nat \ {0}
  BY <1>1, CaseCounts
<1>3. meta = [size |-> case.size, k |-> case.k, m |-> case.m, w |-> case.w, tech |-> case.tech,
              buffersize |-> enc.buffersize, readins |-> enc.readins]
  BY <1>1 DEF MetaInv
<1>4. /\ enc.blocksize \in Nat \ {0} /\ enc.readins \in Nat \ {0} /\ enc.buffersize \in Nat
  BY <1>1 DEF SizeInv, Counts
<1>5. enc.buffersize # case.size => (enc.buffersize \div case.k) = enc.blocksize
  <2>1. enc.buffersize # case.size => enc.buffersize = case.k * enc.blocksize
    BY <1>1, <1>2, <1>4, Products DEF SizeInv, round
  <2> QED BY <1>2, <1>4, <2>1, Exact
<1> QED BY <1>2, <1>3, <1>4, <1>5

\* A file that is left tells the length of its blocks.
LEMMA LastFile ==
  ASSUME IInv, pc \in Written
  PROVE  files[Max(DOMAIN files)][1].bytes = enc.blocksize
<1>1. /\ case \in Cases /\ pc # "start" /\ enc.n = enc.readins + 1
      /\ DOMAIN files \subseteq Drives(case) /\ Cardinality(DOMAIN files) >= Fewest(case)
      /\ \A d \in DOMAIN files : files[d] = Stored(d)
  BY DEF IInv, FilesInv, MetaInv, Written
<1>2. enc.readins \in Nat \ {0}
  BY WrittenFacts
<1>3. case.k \in Nat /\ case.k > 1 /\ case.m \in Nat
  BY <1>1, CaseCounts
<1>4. DOMAIN files # {}
  <2>1. ~ 0 >= Fewest(case)
    BY <1>3 DEF Fewest
  <2> QED BY <1>1, <2>1, FS_EmptySet
<1>5. Max(DOMAIN files) \in DOMAIN files
  <2> DEFINE n == case.k + case.m - 1
  <2>1. n \in Nat /\ DOMAIN files \in SUBSET (0 .. n)
    BY <1>1, <1>3 DEF Drives
  <2> HIDE DEF n
  <2> QED BY <1>4, <2>1, LastDrive
<1> QED BY <1>1, <1>2, <1>5 DEF Stored

\* The decoder's turn of the loop: the block's length is known, and one block
\* more is written or what is missing of the size.
LEMMA DecodeRoundCounts == IInv /\ DecodeInv /\ DecodeRound => DecodeInv'
<1> SUFFICES ASSUME IInv, DecodeInv, DecodeRound PROVE DecodeInv'
  OBVIOUS
<1>1. /\ pc = "decode" /\ dec.n <= dec.readins /\ UNCHANGED <<case, enc>>
      /\ WriteDecoded(DecodeParts, Min({bytes, meta.size - dec.total}))
  BY DEF DecodeRound
<1>2. /\ dec \in Counts /\ dec.buffersize = enc.buffersize /\ dec.readins = enc.readins
      /\ dec.n \in 1 .. dec.readins + 1
      /\ decoded = [r \in 1 .. dec.n - 1 |-> decoded[r]]
      /\ enc.buffersize # case.size => dec.blocksize = enc.blocksize
      /\ dec.total = Min({case.size, (dec.n - 1) * enc.blocksize})
  BY <1>1 DEF DecodeInv, Decoding
<1>3. pc \in Written
  BY <1>1 DEF Written
<1>4. /\ case.size \in Nat \ {0} /\ meta.size = case.size
      /\ enc.blocksize \in Nat \ {0} /\ enc.readins \in Nat \ {0}
  BY <1>3, WrittenFacts
<1>5. dec.n \in Nat \ {0} /\ dec.total \in Nat /\ dec.n - 1 \in Nat
  BY <1>2, <1>4 DEF Counts
<1>6. bytes = enc.blocksize
  BY <1>2, <1>3, <1>4, LastFile DEF bytes
<1> DEFINE count == Min({bytes, meta.size - dec.total})
<1>7. count = IF enc.blocksize <= case.size - dec.total THEN enc.blocksize ELSE case.size - dec.total
  BY <1>4, <1>5, <1>6, Lesser
<1>8. (dec.n - 1) * enc.blocksize \in Nat
      /\ dec.n * enc.blocksize = (dec.n - 1) * enc.blocksize + enc.blocksize
  <2>1. /\ (dec.n - 1) * enc.blocksize = enc.blocksize * (dec.n - 1)
        /\ dec.n * enc.blocksize = enc.blocksize * dec.n
        /\ (dec.n - 1) * enc.blocksize \in Nat
    BY <1>4, <1>5, Products
  <2>2. enc.blocksize * (dec.n - 1) = enc.blocksize * dec.n - enc.blocksize
    BY <1>4, <1>5, SMTT(20)
  <2>3. enc.blocksize * dec.n \in Nat
    BY <1>4, <1>5, Products
  <2> QED BY <1>4, <2>1, <2>2, <2>3
<1>9. count \in Nat /\ dec.total + count = Min({case.size, dec.n * enc.blocksize})
  <2> DEFINE before == (dec.n - 1) * enc.blocksize
             after == dec.n * enc.blocksize
  <2>1. before \in Nat /\ after \in Nat /\ after = before + enc.blocksize
    BY <1>4, <1>8
  <2> HIDE DEF before, after, count
  <2>2. dec.total = IF case.size <= before THEN case.size ELSE before
    BY <1>2, <1>4, <2>1, Lesser, SMTT(60) DEF before
  <2>3. Min({case.size, after}) = IF case.size <= after THEN case.size ELSE after
    BY <1>4, <2>1, Lesser
  <2>4. count \in Nat /\ dec.total + count = IF case.size <= after THEN case.size ELSE after
    BY <1>4, <1>5, <1>7, <2>1, <2>2
  <2> QED BY <2>3, <2>4 DEF after
<1> HIDE DEF count
<1>10. CASE DecodeParts.ok
  <2> DEFINE e == [holds |-> DecodeParts.mem[meta.k], bytes |-> count]
  <2>1. /\ decoded' = Append(decoded, e) /\ pc' = pc
        /\ dec' = [dec EXCEPT !.n = dec.n + 1, !.total = dec.total + count, !.blocksize = bytes]
    BY <1>1, <1>10 DEF WriteDecoded, count
  <2>2. dec.total + count \in Nat /\ dec.n + 1 \in Nat
    BY <1>5, <1>9
  <2>3. /\ dec' \in Counts /\ dec'.n = dec.n + 1 /\ dec'.total = dec.total + count
        /\ dec'.blocksize = enc.blocksize /\ dec'.readins = dec.readins
        /\ dec'.buffersize = dec.buffersize
    BY <1>2, <1>4, <1>6, <2>1, <2>2 DEF Counts
  <2>4. decoded' = [r \in 1 .. dec'.n - 1 |-> decoded'[r]]
    <3> DEFINE S == {decoded[r] : r \in 1 .. dec.n - 1} \cup {e}
               last == dec.n - 1
    <3>1. last \in Nat /\ decoded \in [1 .. last -> S] /\ e \in S
      BY <1>2, <1>5
    <3> HIDE DEF S, last, e
    <3>2. Append(decoded, e) \in [1 .. last + 1 -> S]
      BY <3>1, Appended, Zenon
    <3>3. last + 1 = dec'.n - 1
      BY <1>5, <2>3 DEF last
    <3> QED BY <2>1, <3>2, <3>3
  <2>5. dec'.n - 1 = dec.n /\ dec'.n \in 1 .. dec'.readins + 1
    BY <1>1, <1>2, <1>4, <1>5, <2>3
  <2>6. dec'.total = Min({case'.size, (dec'.n - 1) * enc'.blocksize})
    BY <1>1, <1>9, <2>3, <2>5
  <2> QED BY <1>1, <1>2, <2>1, <2>3, <2>4, <2>5, <2>6 DEF DecodeInv, Decoding
<1>11. CASE ~ DecodeParts.ok
  <2>1. pc' = "unsuccessful" /\ UNCHANGED <<decoded, dec>>
    BY <1>1, <1>11 DEF WriteDecoded
  <2> QED BY <1>1, <1>2, <2>1 DEF DecodeInv, Decoding
<1> QED BY <1>10, <1>11

\* The decoder starts with nothing written; the other steps change none of its
\* counts.
LEMMA NextCounts == IInv /\ DecodeInv /\ [Next]_vars => DecodeInv'
<1> SUFFICES ASSUME IInv, DecodeInv, [Next]_vars PROVE DecodeInv'
  OBVIOUS
<1>1. CASE StartEncoder
  BY <1>1 DEF StartEncoder, DecodeInv, Decoding
<1>2. CASE EncodeRound
  BY <1>2 DEF EncodeRound, DecodeInv, Decoding
<1>3. CASE WriteMeta
  BY <1>3 DEF WriteMeta, DecodeInv, Decoding
<1>4. CASE \E d \in Drives(case) : Lose(d)
  BY <1>4 DEF Lose, DecodeInv, Decoding
<1>5. CASE StartDecoder
  <2>1. /\ pc = "stored" /\ pc' = "decode" /\ UNCHANGED <<case, enc, decoded>>
        /\ dec' = [buffersize |-> meta.buffersize, readins |-> meta.readins, n |-> 1, total |-> 0,
             blocksize |-> IF meta.buffersize # meta.size THEN meta.buffersize \div meta.k ELSE 0]
    BY <1>5 DEF StartDecoder
  <2>2. pc \in Written /\ decoded = <<>>
    BY <2>1 DEF Written, DecodeInv, Decoding
  <2>3. /\ case.size \in Nat \ {0} /\ meta.size = case.size /\ meta.buffersize = enc.buffersize
        /\ meta.readins = enc.readins
        /\ enc.blocksize \in Nat \ {0} /\ enc.readins \in Nat \ {0} /\ enc.buffersize \in Nat
        /\ enc.buffersize # case.size => meta.buffersize \div meta.k = enc.blocksize
    BY <2>2, WrittenFacts
  <2>4. /\ dec' \in Counts /\ dec'.n = 1 /\ dec'.total = 0 /\ dec'.readins = enc.readins
        /\ dec'.buffersize = enc.buffersize
        /\ enc.buffersize # case.size => dec'.blocksize = enc.blocksize
    <3>1. CASE meta.buffersize # meta.size
      BY <2>1, <2>3, <3>1 DEF Counts
    <3>2. CASE meta.buffersize = meta.size
      BY <2>1, <2>3, <3>2 DEF Counts
    <3> QED BY <3>1, <3>2
  <2>5. Min({case.size, 0}) = 0 /\ (1 - 1) * enc.blocksize = 0
    BY <2>3, Lesser
  <2>6. decoded' = [r \in 1 .. dec'.n - 1 |-> decoded'[r]]
    BY <2>1, <2>2, <2>4
  <2>7. dec'.total = Min({case'.size, (dec'.n - 1) * enc'.blocksize})
    BY <2>1, <2>4, <2>5
  <2>8. dec'.n \in 1 .. dec'.readins + 1
    BY <2>3, <2>4
  <2> QED BY <2>1, <2>4, <2>6, <2>7, <2>8 DEF DecodeInv, Decoding
<1>6. CASE DecodeRound
  BY <1>6, DecodeRoundCounts
<1>7. CASE FinishDecoder
  <2>1. dec.n > dec.readins /\ pc = "decode" /\ pc' = "done" /\ UNCHANGED <<case, enc, dec, decoded>>
    BY <1>7 DEF FinishDecoder
  <2>2. dec \in Counts /\ dec.n \in 1 .. dec.readins + 1
    BY <2>1 DEF DecodeInv, Decoding
  <2>3. dec.n = dec.readins + 1
    BY <2>1, <2>2 DEF Counts
  <2> QED BY <2>1, <2>3 DEF DecodeInv, Decoding
<1>8. CASE UNCHANGED vars
  BY <1>8 DEF vars, DecodeInv, Decoding
<1> QED BY <1>1, <1>2, <1>3, <1>4, <1>5, <1>6, <1>7, <1>8 DEF Next

\* The decoded file has the length of the blocks of coding drive 0, cut at the
\* size of the original, in every round (J/decoder.cpp 342-394).
THEOREM LengthDecoded == Spec => []DecodedLength
<1>1. Init => DecodeInv
  BY DEF Init, DecodeInv, Decoding
<1>2. IInv /\ DecodeInv => DecodedLength
  <2> SUFFICES ASSUME IInv, DecodeInv PROVE DecodedLength
    OBVIOUS
  <2>1. CASE pc \in Decoding
    <3>1. pc \in Written /\ dec \in Counts /\ dec.n \in 1 .. dec.readins + 1
      BY <2>1 DEF DecodeInv, Decoding, Written
    <3>2. meta.size = case.size /\ meta.readins = enc.readins /\ dec.readins \in Nat
      BY <3>1, WrittenFacts DEF Counts
    <3>3. Len(decoded) = dec.n - 1
      <4> DEFINE S == {decoded[r] : r \in 1 .. dec.n - 1}
                 last == dec.n - 1
      <4>1. last \in Nat /\ decoded \in [1 .. last -> S]
        BY <2>1, <3>1, <3>2 DEF DecodeInv
      <4> HIDE DEF S, last
      <4>2. Len(decoded) = last
        BY <4>1, RoundsAreSequence
      <4> QED BY <4>2 DEF last
    <3>4. dec.total = Min({meta.size, Len(decoded) * enc.blocksize})
      BY <2>1, <3>2, <3>3 DEF DecodeInv
    <3>5. pc = "done" => Len(decoded) = meta.readins
      BY <2>1, <3>1, <3>2, <3>3 DEF DecodeInv, Counts
    <3> QED BY <3>4, <3>5 DEF DecodedLength
  <2>2. CASE pc \notin Decoding
    BY <2>2 DEF DecodeInv, DecodedLength, Decoding
  <2> QED BY <2>1, <2>2
<1> QED BY <1>1, <1>2, EncodingInductive, NextCounts, PTL DEF Spec

-----------------------------------------------------------------------------
(***************************************************************************)
(* What the parts of the drives hold, for the codes with a bit matrix      *)
(***************************************************************************)
\* The library's matrices and schedules are those of the case from the start on.
CodeInv == pc # "start" => code = MakeCode(case)

BitCoded == pc # "start" /\ case.tech \notin MatrixTechs

\* What the library makes for a case with a bit matrix: the schedule is made from it,
\* and the code is none of those that have a matrix only.
LEMMA BitCodeMade ==
  ASSUME case \in Cases, CodeInv, BitCoded
  PROVE  /\ BitCode(case.k, case.m, case.w, code.bitmatrix)
         /\ code.schedule
              = jerasure_smart_bitmatrix_to_schedule(case.k, case.m, case.w, code.bitmatrix)
<1> DEFINE bits == bitmatrix(case, matrix(case))
<1>1. code = WithSchedules(case, matrix(case), bits)
  BY DEF CodeInv, BitCoded, MakeCode, WithBitmatrix
<1>2. bits # NoMatrix /\ \A r \in 0..case.m*case.w-1 : bits[r] \in (SUBSET (0..case.k*case.w-1)) \ {{}}
  <2>1. case \in {x \in Cases : x.tech \notin MatrixTechs}
    BY DEF BitCoded
  <2> QED BY <2>1, BitmatrixAssumption
<1> HIDE DEF bits
<1>3. code.bitmatrix = bits
  BY <1>1 DEF WithSchedules
<1>4. code.schedule = jerasure_smart_bitmatrix_to_schedule(case.k, case.m, case.w, bits)
  BY <1>1, <1>2 DEF WithSchedules
<1>5. /\ case.k \in Nat \ {0} /\ case.m \in Nat \ {0} /\ case.w \in Nat \ {0}
  BY CaseCounts
<1>6. BitCode(case.k, case.m, case.w, bits)
  BY <1>2, <1>5 DEF BitCode
<1> QED BY <1>3, <1>4, <1>6

\* The codes with a plain sum have a bit matrix.
LEMMA SumIsBitCoded ==
  ASSUME CodeInv, pc # "start", SumFirst(case)
  PROVE  BitCoded
<1> DEFINE bits == bitmatrix(case, matrix(case))
<1>1. code = WithSchedules(case, matrix(case), bits)
  BY DEF CodeInv, MakeCode, WithBitmatrix
<1>2. case.tech \in MatrixTechs => bits = NoMatrix
  BY DEF bitmatrix, MatrixTechs
<1> HIDE DEF bits
<1>3. code.bitmatrix = bits
  BY <1>1 DEF WithSchedules
<1> QED BY <1>2, <1>3 DEF SumFirst, BitCoded

\* Before the rounds the data drives hold their own packets.
LEMMA OwnPackets ==
  ASSUME case \in Cases, BitCoded
  PROVE  NotEncoded \in Memories(case.k, case.m, case.w) /\ Own(case.k, case.w, NotEncoded)
<1> DEFINE k == case.k
           m == case.m
           w == case.w
<1>1. k \in Nat \ {0} /\ m \in Nat \ {0} /\ w \in Nat \ {0}
  BY CaseCounts
<1>3. /\ \A e : OwnPart(case, e) = [x \in 0..w-1 |-> {e * w + x}]
      /\ Unwritten(case) = [x \in 0..w-1 |-> {-1}]
      /\ Drives(case) = 0..k+m-1
  BY DEF BitCoded, OwnPart, Unwritten, Drives
<1>4. NotEncoded = [e \in 0..k+m-1 |-> IF e < k THEN OwnPart(case, e) ELSE Unwritten(case)]
  BY <1>3 DEF NotEncoded
<1> HIDE DEF k, m, w
<1>5. NotEncoded \in Memories(k, m, w)
  <2>1. \A e \in 0..k+m-1 : \A x \in 0..w-1 : {e * w + x} \in SUBSET Int
    <3> TAKE e \in 0..k+m-1
    <3> TAKE x \in 0..w-1
    <3>1. e \in Int /\ x \in Int
      BY <1>1
    <3>2. e * w \in Int
      BY <1>1, <3>1, SMTT(30)
    <3> QED BY <3>1, <3>2
  <2>2. \A e \in 0..k+m-1 : NotEncoded[e] \in [0..w-1 -> SUBSET Int]
    <3> TAKE e \in 0..k+m-1
    <3>1. CASE e < k
      BY <1>3, <1>4, <2>1, <3>1
    <3>2. CASE ~ e < k
      BY <1>3, <1>4, <3>2
    <3> QED BY <3>1, <3>2
  <2> QED BY <1>4, <2>2 DEF Memories
<1>6. Own(k, w, NotEncoded)
  <2> SUFFICES ASSUME NEW e \in 0..k-1, NEW x \in 0..w-1 PROVE NotEncoded[e][x] = {e * w + x}
    BY DEF Own
  <2>1. e \in 0..k+m-1 /\ e < k
    BY <1>1
  <2>2. NotEncoded[e] = OwnPart(case, e)
    BY <1>4, <2>1
  <2>3. OwnPart(case, e) = [y \in 0..w-1 |-> {e * w + y}]
    BY <1>3
  <2> QED BY <2>2, <2>3
<1> QED BY <1>5, <1>6 DEF k, m, w

\* With a bit matrix the encoder's schedule makes what the matrix says
\* (J/encoder.cpp:361 and 413-458).
LEMMA EncodedIs ==
  ASSUME case \in Cases, CodeInv, BitCoded, NEW d \in Drives(case)
  PROVE  /\ Encoded[d] = Contents(case.k, case.w, code.bitmatrix, d)
         /\ Product(case, d) = Contents(case.k, case.w, code.bitmatrix, d)
<1> DEFINE k == case.k
           m == case.m
           w == case.w
           bits == code.bitmatrix
<1>1. /\ BitCode(k, m, w, bits) /\ case.tech \notin MatrixTechs
      /\ code.schedule = jerasure_smart_bitmatrix_to_schedule(k, m, w, bits)
  BY BitCodeMade DEF BitCoded
<1>2. k \in Nat \ {0} /\ m \in Nat \ {0} /\ w \in Nat \ {0}
  BY CaseCounts
<1>3. /\ \A e : OwnPart(case, e) = [x \in 0..w-1 |-> {e * w + x}]
      /\ Drives(case) = 0..k+m-1
  BY DEF BitCoded, OwnPart, Drives
<1>6. NotEncoded \in Memories(k, m, w) /\ Own(k, w, NotEncoded)
  BY OwnPackets
<1> HIDE DEF k, m, w, bits
<1>7. jerasure_schedule_encode(k, m, code.schedule, NotEncoded) = [e \in 0..k+m-1 |-> Contents(k, w, bits, e)]
  BY <1>1, <1>6, SmartScheduleEncodes
<1>8. Encoded = jerasure_schedule_encode(k, m, code.schedule, NotEncoded)
  <2> DEFINE van == jerasure_matrix_encode(case.k, case.m, case.w, code.matrix, NotEncoded)
             Unit(j) == [i \in 0..case.k-1 |-> IF i = j THEN One ELSE Zero]
             r6 == [e \in Drives(case) |->
                      IF e < case.k THEN OwnPart(case, e)
                      ELSE [j \in 0..case.k-1 |->
                              reed_sol_r6_encode(case.k, case.w, Unit(j))[e - case.k]]]
             packets == jerasure_schedule_encode(case.k, case.m, code.schedule, NotEncoded)
  <2>1. Encoded = CASE case.tech = "reed_sol_van" -> van
                    [] case.tech = "reed_sol_r6_op" -> r6
                    [] OTHER -> packets
    BY Zenon DEF Encoded
  <2> HIDE DEF van, r6, packets
  <2>2. case.tech # "reed_sol_van" /\ case.tech # "reed_sol_r6_op"
    BY <1>1 DEF MatrixTechs
  <2>3. Encoded = packets
    BY <2>1, <2>2
  <2> QED BY <2>3 DEF packets, k, m
<1>9. d \in 0..k+m-1
  BY <1>3
<1>10. Encoded[d] = Contents(k, w, bits, d)
  BY <1>7, <1>8, <1>9
<1>11. Product(case, d) = Contents(k, w, bits, d)
  <2>1. CASE d < k
    <3>1. OwnPart(case, d) = [x \in 0..w-1 |-> {d * w + x}]
      BY <1>3
    <3>2. d < case.k /\ ~ d >= case.k
      BY <1>2, <1>9, <2>1 DEF k
    <3>3. Product(case, d) = CASE d < case.k -> OwnPart(case, d)
                               [] d >= case.k /\ case.tech \in MatrixTechs -> code.matrix[d - case.k]
                               [] OTHER -> RowsOf(code.bitmatrix, d - case.k, case.w)
      BY Zenon DEF Product
    <3> QED BY <2>1, <3>1, <3>2, <3>3 DEF Contents
  <2>2. CASE ~ d < k
    <3> DEFINE rows == RowsOf(code.bitmatrix, d - case.k, case.w)
    <3>1. ~ d < case.k
      BY <2>2 DEF k
    <3>2. Product(case, d) = CASE d < case.k -> OwnPart(case, d)
                               [] d >= case.k /\ case.tech \in MatrixTechs -> code.matrix[d - case.k]
                               [] OTHER -> rows
      BY Zenon DEF Product
    <3>3. Contents(k, w, bits, d) = rows
      BY <2>2 DEF Contents, k, w, bits
    <3> HIDE DEF rows
    <3> QED BY <1>1, <3>1, <3>2, <3>3
  <2> QED BY <2>1, <2>2
<1> QED BY <1>10, <1>11 DEF k, w, bits

\* Sorted(S) has the members of S and no others.
LEMMA SortedSet ==
  ASSUME NEW S \in SUBSET Int, IsFiniteSet(S)
  PROVE  ToSet(Sorted(S)) = S
<1> DEFINE n == Cardinality(S)
           s == Sorted(S)
<1>1. s \in [1..n -> S] /\ \A x \in S : \E i \in 1..n : s[i] = x
  BY SortedIs
<1> HIDE DEF n, s
<1>2. ToSet(s) = {s[i] : i \in 1..n}
  BY <1>1 DEF ToSet
<1> QED BY <1>1, <1>2 DEF s

\* The decoder's list of the files that are missing has all of them.
LEMMA ErasuresAre ==
  ASSUME case \in Cases
  PROVE  ToSet(erasures) = erased
<1> DEFINE n == case.k + case.m - 1
<1>1. n \in Int /\ Drives(case) = 0..n
  BY CaseCounts DEF Drives
<1> HIDE DEF n
<1>2. IsFiniteSet(0..n) /\ 0..n \in SUBSET Int
  BY <1>1, FS_Interval
<1>3. erased \in SUBSET Int /\ IsFiniteSet(erased)
  BY <1>1, <1>2, FS_Subset DEF erased
<1> QED BY <1>3, SortedSet DEF erasures

\* With a bit matrix the files hold what the matrix says, round after round.
LEMMA PacketsInFiles ==
  ASSUME IInv, CodeInv, BitCoded, NEW d \in DOMAIN files, NEW r \in 1 .. enc.n - 1
  PROVE  files[d][r].holds = Contents(case.k, case.w, code.bitmatrix, d)
<1>1. case \in Cases /\ pc # "start" /\ FilesInv /\ MetaInv
  BY DEF IInv, BitCoded
<1>2. d \in Drives(case) /\ files[d] = Stored(d)
  <2>1. pc \in Written \/ pc = "encode"
    BY <1>1 DEF MetaInv
  <2> QED BY <1>1, <2>1 DEF FilesInv
<1>3. files[d][r].holds = Encoded[d]
  BY <1>2 DEF Stored
<1> QED BY <1>1, <1>2, <1>3, EncodedIs

-----------------------------------------------------------------------------
\* While the decoder runs, and after it: not more than m files are lost if a round is
\* over; with a plain sum first the buffers hold what was stored; and every block of the
\* decoded file is coding drive 0, with each code that has a bit matrix.
BuffersInv ==
  /\ pc \notin Decoding => dec = None
  /\ pc \in Decoding =>
       /\ dec.n > 1 => Cardinality(erased) <= case.m
       /\ dec.n > 1 /\ SumFirst(case) => Restored(mem)
       /\ BitCoded => \A r \in DOMAIN decoded : decoded[r].holds = Product(case, case.k)

\* The matrix codes are not left with fewer than k files.
LEMMA FewErased ==
  ASSUME IInv, pc \in Written, case.tech \in MatrixTechs
  PROVE  Cardinality(erased) <= case.m
<1>1. case \in Cases /\ DOMAIN files \in SUBSET Drives(case) /\ Cardinality(DOMAIN files) >= case.k
  BY DEF IInv, FilesInv, Fewest
<1>2. case.k \in Nat /\ case.m \in Nat
  BY <1>1, CaseCounts
<1>3. IsFiniteSet(Drives(case)) /\ Cardinality(Drives(case)) = case.k + case.m
  BY <1>1, AllDrives
<1>4. Cardinality(erased) = Cardinality(Drives(case)) - Cardinality(Drives(case) \cap DOMAIN files)
  BY <1>3, FS_Difference DEF erased
<1>5. Drives(case) \cap DOMAIN files = DOMAIN files
  BY <1>1
<1>6. Cardinality(DOMAIN files) \in Nat
  BY <1>1, <1>3, FS_Subset, FS_CardinalityType
<1> QED BY <1>1, <1>2, <1>3, <1>4, <1>5, <1>6

\* A round that does not fail restores the buffers, lost files or not.
LEMMA RoundRestores ==
  ASSUME IInv, CodeInv, DecodeInv, pc = "decode", dec.n <= dec.readins,
         BitCoded, SumFirst(case) \/ case.k \in erased, DecodeParts.ok
  PROVE  \A d \in Drives(case) : DecodeParts.mem[d] = Product(case, d)
<1> DEFINE k == case.k
           m == case.m
           w == case.w
           bits == code.bitmatrix
           parts == ReadParts
           yes == TRUE
<1>1. case \in Cases /\ pc \in Written /\ BitCoded /\ pc \in Decoding
  BY DEF IInv, Written, BitCoded, Decoding
<1>2. BitCode(k, m, w, bits) /\ case.tech \notin MatrixTechs
  BY <1>1, BitCodeMade DEF BitCoded
<1>3. /\ meta.k = k /\ meta.m = m /\ meta.w = w /\ meta.tech = case.tech
      /\ enc.n = enc.readins + 1 /\ Drives(meta) = 0..k+m-1 /\ Drives(case) = 0..k+m-1
  BY <1>1 DEF IInv, MetaInv, Drives
<1>4. k \in Nat \ {0} /\ m \in Nat \ {0} /\ w \in Nat \ {0} /\ enc.readins \in Nat \ {0}
  BY <1>1, CaseCounts, WrittenFacts
<1>5. dec.n \in 1 .. enc.n - 1
  BY <1>1, <1>3, <1>4 DEF DecodeInv
<1>6. DecodeParts = jerasure_bitmatrix_decode(k, m, w, bits, yes, erasures, parts)
  BY <1>2, <1>3, Zenon DEF DecodeParts
<1>7. PlainSumFirst(k, m, w, bits) \/ k \in erased
  BY <1>4 DEF SumFirst, PlainSumFirst
<1>8. ToSet(erasures) = erased /\ erased \in SUBSET (0..k+m-1)
  BY <1>1, <1>3, ErasuresAre DEF erased
<1>9. parts = [d \in 0..k+m-1 |-> parts[d]]
  BY <1>3 DEF ReadParts
<1>10. \A d \in (0..k+m-1) \ erased : parts[d] = Contents(k, w, bits, d)
  <2> TAKE d \in (0..k+m-1) \ erased
  <2>1. d \in DOMAIN files
    BY <1>3 DEF erased
  <2>2. parts[d] = files[d][dec.n].holds
    BY <1>3 DEF ReadParts
  <2> QED BY <1>1, <1>5, <2>1, <2>2, PacketsInFiles
<1> HIDE DEF parts
<1>11. yes \in BOOLEAN
  OBVIOUS
<1> HIDE DEF yes, k, m, w, bits
<1>i. Intact(k, m, w, bits, erasures, parts)
  BY <1>8, <1>9, <1>10 DEF Intact
<1>a. Allowed(k, m, w, bits, yes, ToSet(erasures))
  BY <1>7, <1>8 DEF Allowed
<1>12. jerasure_bitmatrix_decode(k, m, w, bits, yes, erasures, parts).mem
         = [d \in 0..k+m-1 |-> Contents(k, w, bits, d)]
  BY <1>2, <1>6, <1>11, <1>a, <1>i, DecodeRestores
<1> SUFFICES ASSUME NEW d \in Drives(case) PROVE DecodeParts.mem[d] = Product(case, d)
  OBVIOUS
<1>13. Product(case, d) = Contents(k, w, bits, d)
  BY <1>1, EncodedIs DEF k, w, bits
<1> QED BY <1>3, <1>6, <1>12, <1>13

\* A round that does not fail leaves coding drive 0 in its buffer, whatever is lost, and
\* not more than m files are.
LEMMA RoundOutcome ==
  ASSUME IInv, CodeInv, DecodeInv, pc = "decode", dec.n <= dec.readins, BitCoded, DecodeParts.ok
  PROVE  /\ DecodeParts.mem[case.k] = Product(case, case.k)
         /\ Cardinality(erased) <= case.m
<1> DEFINE k == case.k
           m == case.m
           w == case.w
           bits == code.bitmatrix
           parts == ReadParts
           yes == TRUE
<1>1. case \in Cases /\ pc \in Written /\ BitCoded /\ pc \in Decoding
  BY DEF IInv, Written, BitCoded, Decoding
<1>3. /\ meta.k = k /\ meta.m = m /\ meta.w = w /\ meta.tech = case.tech
      /\ enc.n = enc.readins + 1 /\ Drives(meta) = 0..k+m-1 /\ Drives(case) = 0..k+m-1
  BY <1>1 DEF IInv, MetaInv, Drives
<1>4. k \in Nat \ {0} /\ m \in Nat \ {0} /\ enc.readins \in Nat \ {0} /\ k \in 0..k+m-1
  BY <1>1, CaseCounts, WrittenFacts
<1>5. dec.n \in 1 .. enc.n - 1
  BY <1>1, <1>3, <1>4 DEF DecodeInv
<1>6. DecodeParts = jerasure_bitmatrix_decode(k, m, w, bits, yes, erasures, parts)
  BY <1>1, <1>3, Zenon DEF DecodeParts, BitCoded
<1>8. ToSet(erasures) = erased /\ erased \in SUBSET (0..k+m-1)
  BY <1>1, <1>3, ErasuresAre DEF erased
<1>9. parts = [d \in 0..k+m-1 |-> parts[d]]
  BY <1>3 DEF ReadParts
<1>10. k \notin erased => parts[k] = Product(case, k)
  <2> HAVE k \notin erased
  <2>1. k \in DOMAIN files /\ k \in Drives(case)
    BY <1>3, <1>4 DEF erased
  <2>2. parts[k] = files[k][dec.n].holds
    BY <1>3, <1>4 DEF ReadParts
  <2> HIDE DEF parts, k
  <2>3. files[k][dec.n].holds = Contents(case.k, case.w, code.bitmatrix, k)
    BY <1>1, <1>5, <2>1, PacketsInFiles
  <2>4. Product(case, k) = Contents(case.k, case.w, code.bitmatrix, k)
    BY <1>1, <2>1, EncodedIs
  <2> QED BY <2>2, <2>3, <2>4
<1>11. yes \in BOOLEAN
  OBVIOUS
<1> DEFINE lost == erased
<1>s. ToSet(erasures) = lost /\ lost \in SUBSET (0..k+m-1)
  BY <1>8
<1> HIDE DEF parts, yes, bits, lost
<1>12. /\ ~ Cardinality(lost) > m
       /\ \A d \in (0..k+m-1) \ lost : DecodeParts.mem[d] = parts[d]
  <2> HIDE DEF k, m, w
  <2>1. jerasure_bitmatrix_decode(k, m, w, bits, yes, erasures, parts).ok
    BY <1>6
  <2>2. /\ ~ Cardinality(ToSet(erasures)) > m
        /\ \A d \in (0..k+m-1) \ ToSet(erasures) :
             jerasure_bitmatrix_decode(k, m, w, bits, yes, erasures, parts).mem[d] = parts[d]
    <3>1. Given(k, m, erasures, parts)
      BY <1>4, <1>9, <1>s DEF Given
    <3> QED BY <1>11, <2>1, <3>1, DecodeKeeps
  <2> QED BY <1>6, <1>s, <2>2
<1>13. Cardinality(erased) <= case.m
  <2>1. IsFiniteSet(lost)
    BY <1>1, <1>3, <1>s, AllDrives, FS_Subset
  <2>2. Cardinality(lost) \in Nat
    BY <2>1, FS_CardinalityType
  <2>3. Cardinality(lost) <= m
    BY <1>4, <1>12, <2>2
  <2> QED BY <2>3 DEF lost
<1>14. DecodeParts.mem[case.k] = Product(case, case.k)
  <2>1. CASE k \in erased
    <3>1. \A d \in Drives(case) : DecodeParts.mem[d] = Product(case, d)
      BY <2>1, RoundRestores
    <3> QED BY <1>3, <1>4, <3>1
  <2>2. CASE k \notin erased
    <3>1. k \in (0..k+m-1) \ lost
      BY <1>4, <2>2 DEF lost
    <3> QED BY <1>10, <1>12, <2>2, <3>1
  <2> QED BY <2>1, <2>2
<1> QED BY <1>13, <1>14

\* A block that holds what all others hold is appended to them.
LEMMA HoldsAppended ==
  ASSUME NEW n \in Nat, NEW f, f = [r \in 1 .. n |-> f[r]], NEW e, NEW v, e.holds = v,
         \A r \in 1 .. n : f[r].holds = v
  PROVE  \A r \in DOMAIN Append(f, e) : Append(f, e)[r].holds = v
<1> DEFINE S == {f[r] : r \in 1 .. n} \cup {e}
           g == Append(f, e)
<1>0. e \in S /\ \A r \in 1 .. n : f[r] \in S
  OBVIOUS
<1> HIDE DEF S
<1>1. f \in [1 .. n -> S]
  <2>1. [r \in 1 .. n |-> f[r]] \in [1 .. n -> S]
    BY <1>0, Zenon
  <2>2. f = [r \in 1 .. n |-> f[r]]
    OBVIOUS
  <2> QED BY <2>1, <2>2, Zenon
<1>2. /\ g \in [1 .. n + 1 -> S]
      /\ \A r \in 1 .. n : g[r] = f[r]
      /\ g[n + 1] = e
  BY <1>0, <1>1, Appended
<1> HIDE DEF g
<1>3. \A r \in 1 .. n + 1 : r \in 1 .. n \/ r = n + 1
  OBVIOUS
<1>4. \A r \in DOMAIN g : g[r].holds = v
  BY <1>2, <1>3
<1> QED BY <1>4 DEF g

\* The decoder's turn of the loop.
LEMMA RoundKeepsBuffers ==
  ASSUME IInv, CodeInv, DecodeInv, BuffersInv, DecodeRound
  PROVE  BuffersInv'
<1>1. /\ pc = "decode" /\ dec.n <= dec.readins /\ UNCHANGED <<case, code, files, meta>>
      /\ WriteDecoded(DecodeParts, Min({bytes, meta.size - dec.total}))
  BY DEF DecodeRound
<1>2. pc \in Decoding /\ pc \in Written /\ case \in Cases /\ pc # "start"
  BY <1>1 DEF Decoding, Written, IInv
<1>3. case.k \in Nat /\ case.m \in Nat \ {0} /\ meta.k = case.k
  BY <1>2, CaseCounts, WrittenFacts
<1>4. /\ \A d \in Drives(case) : Product(case, d)' = Product(case, d)
      /\ Product(case, case.k)' = Product(case, case.k) /\ erased' = erased
      /\ SumFirst(case)' = SumFirst(case) /\ Drives(case)' = Drives(case)
  BY <1>1 DEF Product, SumFirst, Drives, erased
<1>5. CASE DecodeParts.ok
  <2> DEFINE count == Min({bytes, meta.size - dec.total})
             e == [holds |-> DecodeParts.mem[meta.k], bytes |-> count]
  <2>1. mem' = DecodeParts.mem /\ decoded' = Append(decoded, e) /\ pc' = pc
    BY <1>1, <1>5 DEF WriteDecoded
  <2>b. BitCoded' = BitCoded
    BY <1>1, <2>1 DEF BitCoded
  <2>2. Cardinality(erased) <= case.m
    <3>1. CASE case.tech \in MatrixTechs
      BY <1>2, <3>1, FewErased
    <3>2. CASE case.tech \notin MatrixTechs
      <4>1. BitCoded
        BY <1>2, <3>2 DEF BitCoded
      <4> QED BY <1>1, <1>5, <4>1, RoundOutcome
    <3> QED BY <3>1, <3>2
  <2>3. SumFirst(case) => Restored(mem)'
    <3> HAVE SumFirst(case)
    <3>1. BitCoded
      BY <1>2, SumIsBitCoded
    <3>2. \A d \in Drives(case) : DecodeParts.mem[d] = Product(case, d)
      BY <1>1, <1>5, <3>1, RoundRestores
    <3> QED BY <1>1, <1>4, <2>1, <3>2 DEF Restored
  <2>4. ASSUME BitCoded
        PROVE  \A r \in DOMAIN decoded' : decoded'[r].holds = Product(case, case.k)
    <3> DEFINE last == dec.n - 1
    <3>1. last \in Nat /\ decoded = [r \in 1 .. last |-> decoded[r]]
      BY <1>2 DEF DecodeInv, Counts
    <3>2. \A r \in 1 .. last : decoded[r].holds = Product(case, case.k)
      BY <1>2, <2>4, <3>1 DEF BuffersInv
    <3>3. e.holds = Product(case, case.k)
      BY <1>1, <1>3, <1>5, <2>4, RoundOutcome
    <3> HIDE DEF last, e
    <3>4. \A r \in DOMAIN Append(decoded, e) : Append(decoded, e)[r].holds = Product(case, case.k)
      BY <3>1, <3>2, <3>3, HoldsAppended
    <3> QED BY <2>1, <3>4
  <2> HIDE DEF e
  <2> QED BY <1>1, <1>2, <1>4, <2>1, <2>b, <2>2, <2>3, <2>4 DEF BuffersInv
<1>6. CASE ~ DecodeParts.ok
  <2>1. pc' = "unsuccessful" /\ UNCHANGED <<mem, decoded, dec>>
    BY <1>1, <1>6 DEF WriteDecoded
  <2>2. Restored(mem)' = Restored(mem) /\ BitCoded' = BitCoded
    BY <1>1, <1>2, <1>4, <2>1 DEF Restored, BitCoded
  <2> QED BY <1>1, <1>2, <1>4, <2>1, <2>2 DEF BuffersInv, Decoding
<1> QED BY <1>5, <1>6

\* The code is made once; a round of the decoder restores the buffers, and nothing
\* else changes them.
LEMMA NextBuffers ==
  IInv /\ CodeInv /\ DecodeInv /\ BuffersInv /\ [Next]_vars => CodeInv' /\ BuffersInv'
<1> SUFFICES ASSUME IInv, CodeInv, DecodeInv, BuffersInv, [Next]_vars
             PROVE  CodeInv' /\ BuffersInv'
  OBVIOUS
<1>1. ASSUME UNCHANGED <<case, code, dec, mem, decoded>>, pc # "start",
             pc' # "start", pc' \in Decoding <=> pc \in Decoding,
             pc \in Decoding => UNCHANGED files
      PROVE  CodeInv' /\ BuffersInv'
  <2>1. /\ Product(case, case.k)' = Product(case, case.k)
        /\ SumFirst(case)' = SumFirst(case)
        /\ Restored(mem)' = Restored(mem)
        /\ pc \in Decoding => erased' = erased
        /\ BitCoded' = BitCoded
    BY <1>1 DEF Product, SumFirst, Restored, Drives, erased, BitCoded
  <2>2. BuffersInv'
    BY <1>1, <2>1 DEF BuffersInv
  <2>3. MakeCode(case)' = MakeCode(case)
    BY <1>1
  <2> QED BY <1>1, <2>2, <2>3 DEF CodeInv
<1>2. CASE StartEncoder
  <2>1. pc = "start" /\ code' = MakeCode(case) /\ pc' = "encode" /\ case' = case /\ dec' = dec
    BY <1>2 DEF StartEncoder
  <2>2. MakeCode(case)' = MakeCode(case)
    BY <2>1
  <2> QED BY <2>1, <2>2 DEF CodeInv, BuffersInv, Decoding
<1>3. CASE EncodeRound
  BY <1>1, <1>3 DEF EncodeRound, Decoding
<1>4. CASE WriteMeta
  BY <1>1, <1>4 DEF WriteMeta, Decoding
<1>5. CASE \E d \in Drives(case) : Lose(d)
  BY <1>1, <1>5 DEF Lose, Decoding
<1>6. CASE StartDecoder
  <2>1. /\ pc = "stored" /\ pc' = "decode" /\ UNCHANGED <<case, code, decoded>>
        /\ dec'.n = 1
    BY <1>6 DEF StartDecoder
  <2>2. decoded' = <<>>
    BY <2>1 DEF DecodeInv, Decoding
  <2>3. BuffersInv'
    BY <2>1, <2>2 DEF BuffersInv, Decoding
  <2>4. MakeCode(case)' = MakeCode(case)
    BY <2>1
  <2> QED BY <2>1, <2>3, <2>4 DEF CodeInv
<1>7. CASE DecodeRound
  <2>1. /\ pc = "decode" /\ UNCHANGED <<case, code>> /\ (pc' = pc \/ pc' = "unsuccessful")
    BY <1>7 DEF DecodeRound, WriteDecoded
  <2>2. MakeCode(case)' = MakeCode(case)
    BY <2>1
  <2> QED BY <1>7, <2>1, <2>2, RoundKeepsBuffers DEF CodeInv
<1>8. CASE FinishDecoder
  BY <1>1, <1>8 DEF FinishDecoder, Decoding
<1>9. CASE UNCHANGED vars
  <2>1. UNCHANGED <<pc, case, code, files, dec, mem, decoded>>
    BY <1>9 DEF vars
  <2>2. CASE pc = "start"
    BY <2>1, <2>2 DEF CodeInv, BuffersInv, Decoding
  <2> QED BY <1>1, <2>1, <2>2
<1> QED BY <1>2, <1>3, <1>4, <1>5, <1>6, <1>7, <1>8, <1>9 DEF Next

\* The four invariants hold together in every state of both programs.
THEOREM DecodingInductive == Spec => [](IInv /\ CodeInv /\ DecodeInv /\ BuffersInv)
<1>1. Init => CodeInv /\ DecodeInv /\ BuffersInv
  BY DEF Init, CodeInv, DecodeInv, BuffersInv, Decoding
<1> QED BY <1>1, InitIInv, NextIInv, NextCounts, NextBuffers, PTL DEF Spec

\* After each round all data and coding buffers hold what was stored, whichever files
\* are lost and whatever the library's bit matrix, if its first coding drive is the
\* plain sum (J/decoder.cpp 269-394, S/jerasure.c jerasure_bitmatrix_decode).
THEOREM BuffersAreRestored == Spec => []BuffersRestored
<1>1. IInv /\ CodeInv /\ DecodeInv /\ BuffersInv => BuffersRestored
  BY DEF BuffersInv, BuffersRestored
<1> QED BY <1>1, DecodingInductive, PTL

\* With a bit matrix every part of every file is the sum of packets that the matrix
\* asks for, though the encoder makes it from parts already made.
LEMMA PacketsHeld ==
  ASSUME IInv, CodeInv, case.tech \notin MatrixTechs
  PROVE  FilesHoldProducts
<1> SUFFICES ASSUME NEW d \in DOMAIN files, NEW r \in DOMAIN files[d]
             PROVE  files[d][r].holds = Product(case, d)
  BY DEF FilesHoldProducts
<1>1. case \in Cases /\ FilesInv /\ MetaInv
  BY DEF IInv
<1>2. pc # "start"
  BY <1>1 DEF FilesInv
<1>3. BitCoded
  BY <1>2 DEF BitCoded
<1>4. d \in Drives(case) /\ files[d] = Stored(d)
  <2>1. pc \in Written \/ pc = "encode"
    BY <1>1, <1>2 DEF MetaInv
  <2> QED BY <1>1, <2>1 DEF FilesInv
<1>5. r \in 1 .. enc.n - 1
  BY <1>4 DEF Stored
<1> QED BY <1>1, <1>3, <1>4, <1>5, PacketsInFiles, EncodedIs

\* After the first round the files hold what all functions that encode packets make,
\* and the schedule is not longer than the straightforward one.
LEMMA ScheduleChosen == IInv /\ CodeInv => SmartScheduleIsNoLonger
<1> SUFFICES ASSUME IInv, CodeInv, pc = "encode", enc.n = 2, case.tech \notin MatrixTechs
             PROVE  SmartScheduleIsNoLonger
  BY DEF SmartScheduleIsNoLonger
<1> DEFINE k == case.k
           m == case.m
           w == case.w
           bits == code.bitmatrix
           dumb == jerasure_dumb_bitmatrix_to_schedule(k, m, w, bits)
           stored == [d \in Drives(case) |-> files[d][1].holds]
           all == [d \in 0..k+m-1 |-> Contents(k, w, bits, d)]
<1>1. case \in Cases /\ BitCoded /\ FilesInv
  BY DEF IInv, BitCoded
<1>2. BitCode(k, m, w, bits) /\ code.schedule = jerasure_smart_bitmatrix_to_schedule(k, m, w, bits)
  BY <1>1, BitCodeMade
<1>3. /\ k \in Nat \ {0} /\ m \in Nat \ {0} /\ w \in Nat \ {0} /\ k \in 0..k+m-1
      /\ Drives(case) = 0..k+m-1
  BY <1>1, CaseCounts DEF Drives
<1>4. NotEncoded \in Memories(k, m, w) /\ Own(k, w, NotEncoded)
  BY <1>1, OwnPackets
<1>5. \A d \in Drives(case) : files[d][1].holds = Contents(k, w, bits, d)
  <2> TAKE d \in Drives(case)
  <2>1. d \in DOMAIN files /\ 1 \in 1 .. enc.n - 1
    BY <1>1 DEF FilesInv
  <2> QED BY <1>1, <2>1, PacketsInFiles
<1>6. stored = all
  BY <1>3, <1>5
<1>7. \A j \in 0..k-1 : OwnPart(case, j) = [x \in 0..w-1 |-> {j * w + x}]
  BY DEF OwnPart
<1> HIDE DEF bits, dumb, stored, k, m, w
<1>8. Len(code.schedule) <= Len(dumb)
  BY <1>2, <1>4, SmartIsNoLonger DEF dumb
<1>9. jerasure_schedule_encode(k, m, dumb, NotEncoded) = all
  BY <1>2, <1>4, DumbScheduleEncodes DEF dumb
<1>10. jerasure_bitmatrix_encode(k, m, w, bits, NotEncoded) = all
  BY <1>2, <1>4, RowsEncode
<1>11. ASSUME SumFirst(case), NEW x \in 0..w-1
       PROVE  stored[k][x] = jerasure_do_parity(k, [j \in 0..k-1 |-> OwnPart(case, j)[x]])
  <2> DEFINE regions == [j \in 0..k-1 |-> OwnPart(case, j)[x]]
  <2>1. \A j \in 0..k-1 : regions[j] = {j * w + x}
    <3> TAKE j \in 0..k-1
    <3>1. OwnPart(case, j) = [y \in 0..w-1 |-> {j * w + y}]
      BY <1>7
    <3> QED BY <3>1
  <2> HIDE DEF regions
  <2>2. jerasure_do_parity(k, regions) = {j * w + x : j \in 0..k-1}
    <3>1. Regions(k, w, x, regions)
      BY <1>3, <2>1 DEF Regions
    <3> QED BY <3>1, ParityIsSum
  <2>3. bits[x] = {j * w + x : j \in 0..k-1}
    BY <1>11 DEF SumFirst, bits, k, w
  <2>4. stored[k][x] = bits[x]
    <3>1. stored[k] = RowsOf(bits, k - k, w)
      BY <1>3, <1>6 DEF Contents
    <3>2. k - k = 0 /\ 0 * w + x = x
      BY <1>3
    <3>3. RowsOf(bits, 0, w)[x] = bits[0 * w + x]
      BY DEF RowsOf
    <3> QED BY <3>1, <3>2, <3>3
  <2> QED BY <2>2, <2>3, <2>4 DEF regions
<1> QED BY <1>6, <1>8, <1>9, <1>10, <1>11 DEF SmartScheduleIsNoLonger, dumb, stored, bits, k, m, w

\* Whatever the bit matrix, the files hold what it says, which the clever schedule, the
\* straightforward one, the products of the rows and the parity all agree about; and the
\* clever schedule is no longer (J/encoder.cpp:361 and 413-458, S/jerasure.c).
THEOREM PacketsAreEncoded == Spec => []PacketsEncoded
<1>1. IInv /\ CodeInv => PacketsEncoded
  BY PacketsHeld, ScheduleChosen DEF PacketsEncoded
<1> QED BY <1>1, DecodingInductive, PTL

\* For a code with a bit matrix, whatever the matrix, the decoded file is coding drive 0
\* in every block, even if that drive or others were lost; for every code it is as long as
\* the original at most, and finished only if not more than m files are lost
\* (J/decoder.cpp 261-394).
THEOREM CodingDrive0IsDecoded == Spec => []DecodedIsCodingDrive0
<1>1. IInv /\ DecodeInv /\ BuffersInv /\ DecodedLength => DecodedIsCodingDrive0
  <2> SUFFICES ASSUME IInv, DecodeInv, BuffersInv, DecodedLength PROVE DecodedIsCodingDrive0
    OBVIOUS
  <2>1. case.tech \notin MatrixTechs =>
          \A r \in DOMAIN decoded : decoded[r].holds = Product(case, case.k)
    <3>1. CASE pc \in Decoding
      <4>1. case.tech \notin MatrixTechs => BitCoded
        BY <3>1 DEF BitCoded, Decoding
      <4> QED BY <3>1, <4>1 DEF BuffersInv
    <3>2. CASE pc \notin Decoding
      BY <3>2 DEF DecodeInv
    <3> QED BY <3>1, <3>2
  <2>2. pc = "done" => Cardinality(erased) <= case.m
    <3> HAVE pc = "done"
    <3>1. pc \in Decoding /\ pc \in Written
      BY DEF Decoding, Written
    <3>2. dec.n = dec.readins + 1 /\ dec.readins = enc.readins /\ enc.readins \in Nat \ {0}
      BY <3>1, WrittenFacts DEF DecodeInv
    <3>3. dec.n > 1
      BY <3>2
    <3> QED BY <3>1, <3>3 DEF BuffersInv
  <2> QED BY <2>1, <2>2 DEF DecodedIsCodingDrive0
<1> QED BY <1>1, DecodingInductive, LengthDecoded, PTL
=============================================================================
