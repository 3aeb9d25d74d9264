-------------------------- MODULE Placement_proofs --------------------------
(***************************************************************************)
(* Proofs about Placement, for every K, every size of the blocks, every    *)
(* ring that is large enough, every set of file sizes and any number of    *)
(* requests.                                                               *)
(***************************************************************************)
EXTENDS Placement, TLAPS

(***************************************************************************)
(* Arithmetic: SMT proves these by themselves, the steps below cite them.  *)
(***************************************************************************)
\* Quotient and remainder of any number: encoder.cpp, proxy and UPDATE divide.
LEMMA DivMod ==
  ASSUME NEW a \in Int, NEW b \in Nat \ {0}
  PROVE  /\ a \div b \in Int /\ a % b \in 0 .. b - 1
         /\ a = b * (a \div b) + (a % b)
         /\ a >= 0 => a \div b >= 0
BY SMTT(20)

\* Lengths are products of counts.
LEMMA ProductNat ==
  ASSUME NEW a \in Nat, NEW b \in Nat
  PROVE  a * b \in Nat /\ a * b = b * a /\ (a # 0 /\ b # 0 => a * b # 0)
BY SMTT(20)

\* The same for natural numbers, with the bounds the blocks have.
LEMMA DivNat ==
  ASSUME NEW a \in Nat, NEW b \in Nat \ {0}
  PROVE  /\ a \div b \in Nat /\ a % b \in Nat /\ a % b < b /\ a % b <= a
         /\ a = b * (a \div b) + (a % b)
         /\ b * (a \div b) \in Nat /\ b * (a \div b) <= a /\ a < b * (a \div b) + b
<1>1. a \div b \in Int /\ a \div b >= 0 /\ a % b \in 0 .. b - 1 /\ a = b * (a \div b) + (a % b)
  <2>1. a \in Int /\ a >= 0
    OBVIOUS
  <2> QED BY <2>1, DivMod
<1>2. b * (a \div b) \in Nat
  BY <1>1, ProductNat
<1> QED BY <1>1, <1>2

\* A position composed of block and offset is taken apart into them again.
LEMMA DivUnique ==
  ASSUME NEW b \in Nat \ {0}, NEW q \in Int, NEW r \in 0 .. b - 1
  PROVE  (b * q + r) \div b = q /\ (b * q + r) % b = r
BY SMTT(20)

\* One factor more is at least one block more: blocks do not overlap.
LEMMA ProductOrder ==
  ASSUME NEW b \in Nat \ {0}, NEW x \in Int, NEW y \in Int, x < y
  PROVE  b * x + b <= b * y
BY SMTT(20)

\* An unsigned value that fits does not wrap.
LEMMA SmallMod ==
  ASSUME NEW a \in Nat, NEW b \in Nat \ {0}, a < b
  PROVE  a \div b = 0 /\ a % b = a
<1>1. a = b * 0 + a /\ a \in 0 .. b - 1
  OBVIOUS
<1> QED BY <1>1, DivUnique

\* The streams are written as functions on 1 .. n.
LEMMA FcnIsSeq ==
  ASSUME NEW S, NEW n \in Nat, NEW f \in [1 .. n -> S]
  PROVE  f \in Seq(S) /\ Len(f) = n
OBVIOUS
-----------------------------------------------------------------------------
\* Going round the ring once more than half subtracts its size.
LEMMA Round ==
  ASSUME NEW x \in 0 .. 2 * N - 1
  PROVE  x % N = IF x < N THEN x ELSE x - N
<1>1. N \in Nat \ {0}
  BY PlacementAssumption
<1>2. CASE x < N
  <2>1. x = N * 0 + x /\ x \in 0 .. N - 1
    BY <1>1, <1>2
  <2> QED BY <1>1, <1>2, <2>1, DivUnique
<1>3. CASE ~ x < N
  <2>1. x = N * 1 + (x - N) /\ x - N \in 0 .. N - 1
    BY <1>1, <1>3
  <2>2. (N * 1 + (x - N)) % N = x - N
    BY <1>1, <2>1, DivUnique
  <2> QED BY <1>1, <1>3, <2>1, <2>2
<1> QED BY <1>2, <1>3

\* Block i is on the ring, and the server of block i has data_type i
\* (encoder.cpp and decoder.cpp compute the server, the header carries i).
LEMMA PlaceOfBlock ==
  ASSUME master \in Servers, NEW i \in 0 .. K + M
  PROVE  next_target_server(i) \in Servers /\ BlockOf(next_target_server(i)) = i
<1>1. K \in Nat /\ M \in Nat /\ N \in Nat /\ Start \in Nat /\ N > K + M
  BY PlacementAssumption
<1>2. next_target_server(i) \in Servers
  BY <1>1 DEF next_target_server, Wrap, Servers
<1>3. next_target_server(i) - master + N \in 0 .. 2 * N - 1
  BY <1>1 DEF next_target_server, Wrap, Servers
<1>4. next_target_server(i) - master + N = i \/ next_target_server(i) - master + N = i + N
  BY <1>1 DEF next_target_server, Wrap, Servers
<1>5. BlockOf(next_target_server(i)) = i
  BY <1>1, <1>3, <1>4, Round DEF BlockOf
<1> QED BY <1>2, <1>5

\* Every server has one block number, the master number 0.
LEMMA BlockOfPlace ==
  ASSUME master \in Servers, NEW s \in Servers
  PROVE  /\ BlockOf(s) \in 0 .. N - 1
         /\ next_target_server(BlockOf(s)) = s
         /\ BlockOf(s) = 0 <=> s = master
<1>1. N \in Nat /\ Start \in Nat /\ N > 0
  BY PlacementAssumption
<1>2. s - master + N \in 0 .. 2 * N - 1
  BY <1>1 DEF Servers
<1>3. BlockOf(s) = IF s - master + N < N THEN s - master + N ELSE s - master
  BY <1>1, <1>2, Round DEF BlockOf, Servers
<1> QED BY <1>1, <1>3 DEF next_target_server, Wrap, Servers
-----------------------------------------------------------------------------
\* What is written is bytes.
LEMMA Fillers ==
  /\ \A p \in Nat, i \in Nat : Posted(p, i) \in Bytes /\ Updated(p, i) \in Bytes
  /\ \A what \in {"pad", "junk", "code", "hole"} : Filler(what) \in Bytes
BY DEF Posted, Updated, Filler, Bytes

\* The number of rounds of encode_file is a natural number.
LEMMA Readins ==
  ASSUME NEW size \in Nat
  PROVE  /\ U \in Nat \ {0}
         /\ readins(size) \in Nat
         /\ readins(size) * Unit \in Nat
<1>1. K \in Nat \ {0} /\ Unit \in Nat \ {0}
  BY PlacementAssumption
<1>2. U \in Nat \ {0}
  BY <1>1, ProductNat DEF U
<1>3. readins(size) \in Nat
  BY <1>2, DivMod DEF readins
<1> QED BY <1>1, <1>2, <1>3, ProductNat

\* The streams encode_file sends have readins * Unit bytes.
LEMMA StreamType ==
  ASSUME NEW file \in Seq(Bytes), NEW d \in 1 .. K
  PROVE  /\ data_stream(file, d) \in Seq(Bytes)
         /\ Len(data_stream(file, d)) = readins(Len(file)) * Unit
         /\ code_stream(file) \in Seq(Bytes)
         /\ Len(code_stream(file)) = readins(Len(file)) * Unit
<1> DEFINE n == readins(Len(file)) * Unit
           from(i) == ((i - 1) \div Unit) * U + (d - 1) * Unit + ((i - 1) % Unit)
           byte(i) == IF from(i) < Len(file) THEN file[from(i) + 1]
                      ELSE Filler(IF Len(file) > U THEN "pad" ELSE "junk")
<1>1. n \in Nat /\ U \in Nat \ {0} /\ Unit \in Nat \ {0} /\ K \in Nat
  BY Readins, PlacementAssumption
<1>2. ASSUME NEW i \in 1 .. n PROVE byte(i) \in Bytes
  <2> HIDE DEF n
  <2>0. i - 1 \in Nat
    BY <1>1
  <2>1. (i - 1) \div Unit \in Nat /\ (i - 1) % Unit \in Nat
    BY <1>1, <2>0, DivNat
  <2>2. ((i - 1) \div Unit) * U \in Nat /\ (d - 1) * Unit \in Nat
    BY <1>1, <2>1, ProductNat
  <2>3. from(i) \in Nat
    BY <2>1, <2>2
  <2> HIDE DEF from
  <2> QED BY <2>3, Fillers
<1>3. data_stream(file, d) = [i \in 1 .. n |-> byte(i)]
  BY DEF data_stream
<1>4. code_stream(file) = [i \in 1 .. n |-> Filler("code")]
  BY DEF code_stream
<1> HIDE DEF n, byte
<1>5. data_stream(file, d) \in [1 .. n -> Bytes]
  BY <1>2, <1>3
<1>6. code_stream(file) \in [1 .. n -> Bytes]
  BY <1>4, Fillers
<1> QED BY <1>1, <1>5, <1>6, FcnIsSeq DEF n

\* update_file does not shorten a file, and puts what it was given where it was told to,
\* also past the end.
LEMMA UpdateFileType ==
  ASSUME NEW file \in Seq(Bytes), NEW offset \in Nat, NEW content \in Seq(Bytes)
  PROVE  /\ update_file(file, offset, content) \in Seq(Bytes)
         /\ Len(update_file(file, offset, content)) >= Len(file)
         /\ \A i \in 1 .. Len(file) :
              update_file(file, offset, content)[i]
                = IF i > offset /\ i <= offset + Len(content) THEN content[i - offset] ELSE file[i]
         /\ \A i \in offset + 1 .. offset + Len(content) :
              /\ i <= Len(update_file(file, offset, content))
              /\ update_file(file, offset, content)[i] = content[i - offset]
<1> DEFINE last == offset + Len(content)
           n == IF last > Len(file) THEN last ELSE Len(file)
           byte(i) == IF i > offset /\ i <= last THEN content[i - offset]
                      ELSE IF i <= Len(file) THEN file[i] ELSE Filler("hole")
<1>1. n \in Nat /\ n >= Len(file)
  OBVIOUS
<1>2. ASSUME NEW i \in 1 .. n PROVE byte(i) \in Bytes
  BY Fillers
<1>3. update_file(file, offset, content) = [i \in 1 .. n |-> byte(i)]
  BY DEF update_file
<1>4. \A i \in 1 .. Len(file) :
        byte(i) = IF i > offset /\ i <= offset + Len(content) THEN content[i - offset] ELSE file[i]
  OBVIOUS
<1>6. \A i \in offset + 1 .. offset + Len(content) : i \in 1 .. n /\ byte(i) = content[i - offset]
  OBVIOUS
<1> HIDE DEF n, byte
<1>5. update_file(file, offset, content) \in [1 .. n -> Bytes]
  BY <1>2, <1>3
<1> QED BY <1>1, <1>3, <1>4, <1>5, <1>6, FcnIsSeq

\* What a receiving loop keeps of a stream.
LEMMA Prefix ==
  ASSUME NEW seq \in Seq(Bytes), NEW n \in 0 .. Len(seq)
  PROVE  /\ SubSeq(seq, 1, n) \in Seq(Bytes)
         /\ Len(SubSeq(seq, 1, n)) = n
         /\ \A i \in 1 .. n : SubSeq(seq, 1, n)[i] = seq[i]
OBVIOUS
-----------------------------------------------------------------------------
(***************************************************************************)
(* The inductive invariant.                                                *)
(***************************************************************************)
\* Before the first POST no server has anything; after it each of the K + M + 1
\* servers has an entry with its own data_type, those of the data blocks with a
\* K-th of the length in the master's.
TablesInv ==
  /\ posts = 0 =>
       /\ object = <<>> /\ decoding = 0
       /\ \A s \in Servers : entry[s] = NoEntry /\ disk[s] = <<>>
  /\ posts > 0 =>
       \A s \in Servers : BlockOf(s) <= K + M =>
         /\ entry[s].data_type = BlockOf(s)
         /\ BlockOf(s) \in 1 .. K => entry[s].content_length = entry[master].content_length \div K
  /\ posts = 1 => entry[master].content_length = Len(object) /\ Len(object) \in Sizes

\* The part of the object that is on the master while block number decoding is awaited.
CopyInv ==
  (Aligned /\ \A d \in 1 .. K : Len(disk[next_target_server(d)]) = Unit) =>
    /\ decoding = 0 => disk[master] = object
    /\ decoding > 1 => /\ Len(disk[master]) = Unit * (decoding - 1)
                       /\ \A j \in 1 .. Len(disk[master]) : disk[master][j] = object[j]

\* An UPDATE does not begin before the object.
WritesInv ==
  Aligned => \A p \in 1 .. Len(object) : object[p].by = "update" => object[p].at \in 1 .. p

CollectInv == (Aligned /\ decoding > 0) => per_block = Unit

IInv == TypeOK /\ TablesInv /\ WritesInv /\ BlocksHoldObject /\ CollectInv /\ CopyInv

\* The assumptions about the constants, in the form the steps use.
LEMMA Constants ==
  /\ K \in Nat \ {0} /\ M = 2 /\ M \in Nat /\ Unit \in Nat \ {0} /\ U \in Nat \ {0}
  /\ Start \in Nat /\ N \in Nat \ {0} /\ N > K + M /\ N >= 2 * K
  /\ RecvSize \in Nat /\ Word \in Nat \ {0} /\ Sizes \subseteq Nat \ {0}
BY PlacementAssumption, Readins

\* An object that is not empty when cut in K has blocks that are not empty.
LEMMA BlockLength ==
  ASSUME NEW L \in Nat
  PROVE  L \div K \in Nat /\ K * (L \div K) <= L /\ L < K * (L \div K) + K
BY Constants, DivMod

\* The server the proxy computes for an update is on the ring, also if a last block
\* that K does not divide makes the quotient larger than K.
LEMMA TargetOnRing ==
  ASSUME master \in Servers, NEW L \in Nat, NEW offset \in 0 .. L - 1, L \div K > 0
  PROVE  /\ target_of(offset, L) \in Servers
         /\ offset \div (L \div K) \in Nat
<1> DEFINE c == L \div K
           q == offset \div c
<1>1. c \in Nat \ {0} /\ L < K * c + K
  BY BlockLength
<1> HIDE DEF c
<1>2. q \in Nat /\ c * q <= offset
  <2>1. offset \in Nat
    BY Constants
  <2> QED BY <1>1, <2>1, DivNat
<1> HIDE DEF q
<1>3. q < 2 * K - 1
  <2> SUFFICES ASSUME q >= 2 * K - 1 PROVE FALSE
    BY <1>2, Constants
  <2>1. c * q >= c * (2 * K - 1)
    BY <1>1, <1>2, Constants
  <2>2. c * (2 * K - 1) = K * c + c * (K - 1)
    BY <1>1, Constants
  <2>3. c * (K - 1) >= K - 1
    BY <1>1, Constants
  <2>4. c * q \in Int /\ K * c \in Int /\ c * (K - 1) \in Int
    BY <1>1, <1>2, Constants
  <2> QED BY <1>1, <1>2, <2>1, <2>2, <2>3, <2>4, Constants
<1>4. Wrap(master + q + 1) \in Servers
  BY <1>2, <1>3, Constants DEF Wrap, Servers
<1> QED BY <1>2, <1>4 DEF c, q, target_of
-----------------------------------------------------------------------------
\* A system without requests is consistent.
LEMMA InitIInv == Init => IInv
<1> SUFFICES ASSUME Init PROVE IInv
  OBVIOUS
<1>1. TypeOK
  BY Constants, PlacementAssumption DEF Init, TypeOK, NoEntry
<1>2. TablesInv
  BY DEF Init, TablesInv
<1>3. ~ Aligned
  BY DEF Init, Aligned
<1> QED BY <1>1, <1>2, <1>3 DEF IInv, WritesInv, BlocksHoldObject, CollectInv, CopyInv

\* What POST puts into object, and the master's file after it.
PostedFile(size) == [i \in 1 .. size |-> Posted(posts + 1, i)]
MasterFile(size) == disk[master] \o PostedFile(size)

\* The posted file and the file the encoder reads are files.
LEMMA PostFiles ==
  ASSUME TypeOK, NEW size \in Sizes
  PROVE  /\ PostedFile(size) \in Seq(Bytes) /\ Len(PostedFile(size)) = size
         /\ MasterFile(size) \in Seq(Bytes)
<1>1. size \in Nat /\ posts + 1 \in Nat
  BY Constants DEF TypeOK
<1>2. PostedFile(size) \in [1 .. size -> Bytes]
  BY <1>1, Fillers DEF PostedFile
<1>3. PostedFile(size) \in Seq(Bytes) /\ Len(PostedFile(size)) = size
  BY <1>1, <1>2, FcnIsSeq
<1>4. disk[master] \in Seq(Bytes)
  BY DEF TypeOK
<1> QED BY <1>3, <1>4 DEF MasterFile

\* What the servers have after a POST: as much of their stream as they received.
LEMMA PostStores ==
  ASSUME TypeOK, NEW size \in Sizes, Post(size), NEW s \in Servers
  PROVE  /\ disk'[s] \in Seq(Bytes)
         /\ s = master => disk'[s] = MasterFile(size)
         /\ BlockOf(s) \in 1 .. K =>
              \E n \in Received(readins(Len(MasterFile(size))) * Unit, size \div K) :
                disk'[s] = SubSeq(data_stream(MasterFile(size), BlockOf(s)), 1, n)
<1> DEFINE file == MasterFile(size)
           length == readins(Len(file)) * Unit
           Stream(i) == IF i <= K THEN data_stream(file, i) ELSE code_stream(file)
<1>1. PICK stored \in [1 .. K + M -> Received(length, size \div K)] :
        disk' = [t \in Servers |->
          IF t = master THEN file
          ELSE IF BlockOf(t) <= K + M THEN SubSeq(Stream(BlockOf(t)), 1, stored[BlockOf(t)])
          ELSE disk[t]]
  BY DEF Post, MasterFile, PostedFile
<1>2. file \in Seq(Bytes) /\ Len(file) \in Nat
  BY PostFiles
<1>3. length \in Nat
  BY <1>2, Readins
<1> HIDE DEF file
<1>4. master \in Servers /\ disk[s] \in Seq(Bytes)
  BY DEF TypeOK
<1>5. BlockOf(s) \in Nat /\ (BlockOf(s) = 0 <=> s = master)
  BY <1>4, BlockOfPlace, Constants
<1>6. ASSUME s # master, BlockOf(s) <= K + M
      PROVE  /\ disk'[s] = SubSeq(Stream(BlockOf(s)), 1, stored[BlockOf(s)])
             /\ stored[BlockOf(s)] \in Received(length, size \div K)
             /\ disk'[s] \in Seq(Bytes)
  <2>1. disk'[s] = SubSeq(Stream(BlockOf(s)), 1, stored[BlockOf(s)])
    BY <1>1, <1>6
  <2>2. BlockOf(s) \in 1 .. K + M
    BY <1>5, <1>6, Constants
  <2>3. stored[BlockOf(s)] \in Received(length, size \div K)
    BY <1>1, <2>2
  <2>4. stored[BlockOf(s)] \in 0 .. length
    BY <1>3, <2>3 DEF Received
  <2>5. Stream(BlockOf(s)) \in Seq(Bytes) /\ Len(Stream(BlockOf(s))) = length
    <3>1. CASE BlockOf(s) <= K
      <4>1. BlockOf(s) \in 1 .. K
        BY <3>1, <2>2, Constants
      <4> QED BY <3>1, <4>1, <1>2, StreamType
    <3>2. CASE ~ BlockOf(s) <= K
      <4>1. 1 \in 1 .. K
        BY Constants
      <4> QED BY <3>2, <4>1, <1>2, StreamType
    <3> QED BY <3>1, <3>2
  <2> HIDE DEF Stream, length
  <2> QED BY <2>1, <2>3, <2>4, <2>5, Prefix
<1>7. disk'[s] \in Seq(Bytes)
  BY <1>1, <1>2, <1>4, <1>6
<1>8. s = master => disk'[s] = file
  BY <1>1
<1>9. ASSUME BlockOf(s) \in 1 .. K
      PROVE  \E n \in Received(length, size \div K) :
                disk'[s] = SubSeq(data_stream(file, BlockOf(s)), 1, n)
  BY <1>5, <1>6, <1>9, Constants
<1> QED BY <1>7, <1>8, <1>9 DEF file
-----------------------------------------------------------------------------
\* What POST makes of the tables: the first one fills them, a later one finds an
\* entry on every server it concerns and leaves it (map::insert).
LEMMA PostTables ==
  ASSUME TypeOK, TablesInv, NEW size \in Sizes, Post(size), NEW s \in Servers
  PROVE  /\ entry'[s] \in [data_type : -1 .. K + M, content_length : Nat]
         /\ posts > 0 => entry'[s] = entry[s]
         /\ (posts = 0 /\ BlockOf(s) <= K + M) =>
              entry'[s] = [data_type |-> BlockOf(s),
                           content_length |-> IF s = master THEN size ELSE size \div K]
<1>1. size \in Nat /\ size \div K \in Nat
  BY Constants, BlockLength
<1>2. BlockOf(s) \in Nat /\ (BlockOf(s) = 0 <=> s = master)
  BY BlockOfPlace, Constants DEF TypeOK
<1>3. entry'[s] = IF s = master THEN EntryAfter(s, size)
                  ELSE IF BlockOf(s) <= K + M THEN EntryAfter(s, size \div K)
                  ELSE entry[s]
  BY DEF Post
<1>4. CASE posts = 0
  <2>1. entry[s] = NoEntry /\ disk[s] = <<>>
    BY <1>4 DEF TablesInv
  <2>2. \A length : EntryAfter(s, length) = [data_type |-> BlockOf(s), content_length |-> length]
    BY <2>1 DEF EntryAfter
  <2>3. entry[s] \in [data_type : -1 .. K + M, content_length : Nat]
    BY DEF TypeOK
  <2> QED BY <1>1, <1>2, <1>3, <1>4, <2>2, <2>3, Constants
<1>5. CASE posts > 0
  <2>1. BlockOf(s) <= K + M => entry[s].data_type = BlockOf(s)
    BY <1>5 DEF TablesInv
  <2>2. BlockOf(s) <= K + M => entry[s] # NoEntry
    BY <2>1, <1>2 DEF NoEntry
  <2>3. s = master => entry[s] # NoEntry
    BY <2>2, <1>2, Constants
  <2>4. entry'[s] = entry[s]
    BY <1>3, <2>2, <2>3 DEF EntryAfter
  <2> QED BY <1>5, <2>4 DEF TypeOK
<1> QED BY <1>4, <1>5 DEF TypeOK

\* POST keeps the types and the tables.
LEMMA PostTypeOK ==
  ASSUME TypeOK, TablesInv, NEW size \in Sizes, Post(size)
  PROVE  TypeOK' /\ TablesInv'
<1>1. object' = PostedFile(size) /\ posts' = posts + 1 /\ master' = master /\ decoding' = 0
      /\ decoding = 0
  BY DEF Post, PostedFile
<1>2. TypeOK'
  <2>1. entry' = [s \in Servers |-> entry'[s]] /\ disk' = [s \in Servers |-> disk'[s]]
    BY DEF Post
  <2>2. entry' \in [Servers -> [data_type : -1 .. K + M, content_length : Nat]]
    BY <2>1, PostTables
  <2>3. disk' \in [Servers -> Seq(Bytes)]
    BY <2>1, PostStores
  <2>4. object' \in Seq(Bytes)
    BY <1>1, PostFiles
  <2>5. posts' \in 0 .. MaxPosts
    BY PlacementAssumption DEF Post, TypeOK
  <2> QED BY <2>2, <2>3, <2>4, <2>5 DEF Post, TypeOK
<1>3. TablesInv'
  <2>1. posts \in Nat /\ posts' # 0 /\ posts' > 0 /\ (posts' = 1 => posts = 0)
    BY <1>1, PlacementAssumption DEF TypeOK
  <2>2. \A s \in Servers : BlockOf(s)' = BlockOf(s)
    BY <1>1 DEF BlockOf
  <2>3. master \in Servers /\ BlockOf(master) = 0 /\ BlockOf(master) <= K + M
    BY BlockOfPlace, Constants DEF TypeOK
  <2>4. posts = 0 => entry'[master].content_length = size
    <3> SUFFICES ASSUME posts = 0 PROVE entry'[master].content_length = size
      OBVIOUS
    <3>1. entry'[master] = [data_type |-> BlockOf(master), content_length |-> size]
      BY <2>3, PostTables
    <3> QED BY <3>1
  <2>5. ASSUME NEW s \in Servers, BlockOf(s) <= K + M
        PROVE  /\ entry'[s].data_type = BlockOf(s)
               /\ BlockOf(s) \in 1 .. K => entry'[s].content_length = entry'[master].content_length \div K
    <3>1. CASE posts = 0
      <4>1. entry'[s] = [data_type |-> BlockOf(s),
                         content_length |-> IF s = master THEN size ELSE size \div K]
        BY <3>1, <2>5, PostTables
      <4>2. BlockOf(s) \in 1 .. K => s # master
        BY <2>3, Constants
      <4> QED BY <3>1, <4>1, <4>2, <2>4
    <3>2. CASE posts > 0
      BY <3>2, <2>3, <2>5, PostTables DEF TablesInv
    <3> QED BY <3>1, <3>2, <2>1
  <2>6. ASSUME posts' = 1
        PROVE  entry'[master].content_length = Len(object') /\ Len(object') \in Sizes
    BY <2>1, <2>4, <2>6, <1>1, PostFiles
  <2> QED BY <1>1, <2>1, <2>2, <2>5, <2>6 DEF TablesInv
<1> QED BY <1>2, <1>3
-----------------------------------------------------------------------------
\* What UPDATE makes of the object.
UpdatedFile(offset, length) ==
  [i \in 1 .. Len(object) |->
     IF i > offset /\ i <= offset + length
       THEN Updated(updates + 1, i - offset) ELSE object[i]]
UpdateContent(length) == [i \in 1 .. length |-> Updated(updates + 1, i)]

\* UPDATE reaches a server of the ring, and what it makes of object and disk.
LEMMA UpdateFiles ==
  ASSUME TypeOK, NEW offset \in 0 .. Len(object) - 1, NEW length \in 1 .. MaxLength,
         Update(offset, length)
  PROVE  /\ UpdateContent(length) \in Seq(Bytes) /\ Len(UpdateContent(length)) = length
         /\ UpdatedFile(offset, length) \in Seq(Bytes)
         /\ Len(UpdatedFile(offset, length)) = Len(object)
         /\ target_of(offset, Len(object)) \in Servers
         /\ object' \in {object, UpdatedFile(offset, length)}
         /\ entry[target_of(offset, Len(object))] # NoEntry =>
              /\ object' = UpdatedFile(offset, length)
              /\ disk' = [disk EXCEPT ![target_of(offset, Len(object))] =
                   update_file(@, real_offset(offset, entry[target_of(offset, Len(object))]),
                               UpdateContent(length))]
<1> DEFINE content == [i \in 1 .. length |-> Updated(updates + 1, i)]
           target == target_of(offset, Len(object))
           after == [i \in 1 .. Len(object) |->
                   IF i > offset /\ i <= offset + length THEN content[i - offset] ELSE object[i]]
<1>1. updates + 1 \in Nat /\ length \in Nat /\ offset \in Nat /\ object \in Seq(Bytes)
      /\ Len(object) \in Nat
  BY PlacementAssumption DEF TypeOK
<1>2. content \in [1 .. length -> Bytes]
  BY <1>1, Fillers
<1>3. content \in Seq(Bytes) /\ Len(content) = length
  BY <1>1, <1>2, FcnIsSeq
<1>4. after = UpdatedFile(offset, length)
  BY <1>1 DEF UpdatedFile
<1>5. UpdatedFile(offset, length) \in [1 .. Len(object) -> Bytes]
  BY <1>1, Fillers DEF UpdatedFile
<1>6. UpdatedFile(offset, length) \in Seq(Bytes) /\ Len(UpdatedFile(offset, length)) = Len(object)
  BY <1>1, <1>5, FcnIsSeq
<1>7. target \in Servers
  BY <1>1, TargetOnRing DEF TypeOK, Update
<1>8. object' \in {object, after}
      /\ (entry[target] # NoEntry =>
           /\ object' = after
           /\ disk' = [disk EXCEPT ![target] =
                   update_file(@, real_offset(offset, entry[target]), content)])
  BY DEF Update
<1> QED BY <1>3, <1>4, <1>6, <1>7, <1>8 DEF UpdateContent

\* UPDATE keeps the types and the tables.
LEMMA UpdateTypeOK ==
  ASSUME TypeOK, TablesInv, NEW offset \in 0 .. Len(object) - 1, NEW length \in 1 .. MaxLength,
         Update(offset, length)
  PROVE  TypeOK' /\ TablesInv'
<1> DEFINE target == target_of(offset, Len(object))
<1>1. target \in Servers /\ object' \in Seq(Bytes) /\ Len(object') = Len(object)
  <2> HIDE DEF target
  <2>1. /\ UpdatedFile(offset, length) \in Seq(Bytes)
        /\ Len(UpdatedFile(offset, length)) = Len(object)
        /\ target \in Servers
        /\ object' \in {object, UpdatedFile(offset, length)}
    BY UpdateFiles DEF target
  <2>2. object \in Seq(Bytes)
    BY DEF TypeOK
  <2> QED BY <2>1, <2>2
<1>2. /\ UNCHANGED <<master, posts, entry, proxy_up>>
      /\ updates' = updates + 1 /\ posts + updates < MaxRequests
  BY DEF Update
<1>3. disk' \in [Servers -> Seq(Bytes)] /\ decoding' \in 0 .. K /\ per_block' \in Nat
  <2>1. CASE entry[target] = NoEntry
    BY <2>1 DEF Update, TypeOK
  <2>2. CASE entry[target] # NoEntry
    <3>1. entry[target] \in [data_type : -1 .. K + M, content_length : Nat]
      BY <1>1 DEF TypeOK
    <3>2. real_offset(offset, entry[target]) \in Nat
      <4>1. entry[target].data_type - 1 \in Int /\ entry[target].content_length \in Int
            /\ offset \in Int
        BY <3>1, Constants
      <4>2. offset - (entry[target].data_type - 1) * entry[target].content_length \in Int
        BY <4>1
      <4>3. (offset - (entry[target].data_type - 1) * entry[target].content_length) % Word
              \in 0 .. Word - 1
        BY <4>2, Constants, DivMod
      <4> QED BY <4>3, Constants DEF real_offset
    <3>3. update_file(disk[target], real_offset(offset, entry[target]), UpdateContent(length))
            \in Seq(Bytes)
      <4>1. disk[target] \in Seq(Bytes)
        BY <1>1 DEF TypeOK
      <4> QED BY <3>2, <4>1, UpdateFiles, UpdateFileType
    <3>4. disk' \in [Servers -> Seq(Bytes)]
      <4> HIDE DEF target
      <4>1. disk' = [disk EXCEPT ![target] =
              update_file(@, real_offset(offset, entry[target]), UpdateContent(length))]
        BY <2>2, UpdateFiles DEF target
      <4> QED BY <3>3, <4>1 DEF TypeOK
    <3>5. decoding' = 1 /\ per_block' = entry[target].content_length
      BY <2>2 DEF Update
    <3> QED BY <3>1, <3>4, <3>5, Constants
  <2> QED BY <2>1, <2>2
<1>4. TypeOK'
  BY <1>1, <1>2, <1>3, PlacementAssumption, SMTT(60) DEF TypeOK
<1>5. posts # 0
  BY DEF TablesInv
<1>6. TablesInv'
  BY <1>1, <1>2, <1>5 DEF TablesInv, BlockOf
<1> QED BY <1>4, <1>6

\* The decoder keeps the types and the tables.
LEMMA CollectTypeOK ==
  ASSUME TypeOK, TablesInv, CollectBlock
  PROVE  TypeOK' /\ TablesInv'
<1> DEFINE sent == disk[next_target_server(decoding)]
           copy == IF decoding = 1 THEN <<>> ELSE disk[master]
<1>1. PICK n \in Received(Len(sent), per_block) :
        disk' = [disk EXCEPT ![master] = copy \o SubSeq(sent, 1, n)]
  BY DEF CollectBlock
<1>2. decoding \in 0 .. K + M /\ decoding > 0
  BY Constants DEF CollectBlock, TypeOK
<1>3. sent \in Seq(Bytes) /\ copy \in Seq(Bytes)
  BY <1>2, PlaceOfBlock DEF TypeOK
<1>4. n \in 0 .. Len(sent)
  BY <1>1, <1>3 DEF Received
<1> HIDE DEF sent, copy
<1>5. SubSeq(sent, 1, n) \in Seq(Bytes)
  BY <1>3, <1>4, Prefix
<1>6. copy \o SubSeq(sent, 1, n) \in Seq(Bytes)
  BY <1>3, <1>5
<1>7. disk' \in [Servers -> Seq(Bytes)]
  BY <1>1, <1>6 DEF TypeOK
<1>8. TypeOK'
  <2>1. decoding' \in 0 .. K
    BY <1>2, Constants DEF CollectBlock, TypeOK
  <2> QED BY <1>7, <2>1 DEF TypeOK, CollectBlock
<1>9. posts # 0 /\ UNCHANGED <<master, object, posts, entry>>
  BY <1>2 DEF TablesInv, CollectBlock
<1> QED BY <1>8, <1>9 DEF TablesInv, BlockOf
-----------------------------------------------------------------------------
\* If K divides the length, the proxy's quotient names the data block of the offset.
LEMMA TargetOfOffset ==
  ASSUME master \in Servers, NEW L \in Nat, L % K = 0, NEW offset \in 0 .. L - 1
  PROVE  LET c == L \div K  q == offset \div c
         IN  /\ c \in Nat \ {0} /\ L = K * c
             /\ q \in 0 .. K - 1
             /\ c * q \in Nat /\ offset - c * q \in 0 .. c - 1
             /\ target_of(offset, L) = next_target_server(q + 1)
<1> DEFINE c == L \div K
           q == offset \div c
<1>1. c \in Nat /\ L = K * c /\ offset \in Nat
  <2>1. L = K * c + (L % K)
    BY Constants, DivNat
  <2> QED BY <2>1, BlockLength, Constants
<1>2. c # 0
  BY <1>1, Constants
<1> HIDE DEF c
<1>3. q \in Nat /\ c * q \in Nat /\ c * q <= offset /\ offset < c * q + c
  BY <1>1, <1>2, DivNat
<1> HIDE DEF q
<1>4. q < K
  <2> SUFFICES ASSUME q >= K PROVE FALSE
    BY <1>3, Constants
  <2>1. c * q >= c * K
    BY <1>1, <1>3, Constants
  <2>2. c * K = K * c /\ K * c \in Nat
    BY <1>1, Constants, ProductNat
  <2> QED BY <1>1, <1>3, <2>1, <2>2
<1>5. Wrap(master + q + 1) = Wrap(master + (q + 1))
  BY <1>3, Constants DEF Servers
<1> QED BY <1>1, <1>2, <1>3, <1>4, <1>5, Constants DEF c, q, target_of, next_target_server

\* What the server that UPDATE reaches finds in its table.
LEMMA EntryOfTarget ==
  ASSUME TypeOK, TablesInv, posts > 0, NEW L \in Nat, L % K = 0,
         entry[master].content_length = L, NEW offset \in 0 .. L - 1
  PROVE  LET c == L \div K  q == offset \div c  e == entry[target_of(offset, L)]
         IN  /\ e.data_type = q + 1 /\ e.content_length = c
             /\ real_offset(offset, e) = (offset - c * q) % Word
<1> DEFINE c == L \div K
           q == offset \div c
           s == target_of(offset, L)
<1>1. /\ c \in Nat \ {0} /\ q \in 0 .. K - 1 /\ c * q \in Nat
      /\ s = next_target_server(q + 1)
  BY TargetOfOffset DEF TypeOK
<1> HIDE DEF q, s
<1>2. q + 1 \in 1 .. K /\ q + 1 \in 0 .. K + M /\ q + 1 <= K + M
  BY <1>1, Constants
<1>3. s \in Servers /\ BlockOf(s) = q + 1
  BY <1>1, <1>2, PlaceOfBlock DEF TypeOK
<1>4. entry[s].data_type = q + 1 /\ entry[s].content_length = c
  BY <1>2, <1>3 DEF TablesInv
<1>5. (entry[s].data_type - 1) * entry[s].content_length = c * q
  <2>1. (entry[s].data_type - 1) = q
    BY <1>1, <1>4, Constants
  <2> HIDE DEF c
  <2> QED BY <1>1, <1>4, <2>1, Constants
<1>6. real_offset(offset, entry[s]) = (offset - c * q) % Word
  BY <1>5 DEF real_offset
<1> QED BY <1>4, <1>6 DEF q, s

\* The proxy, which divides, and the server, which subtracts, agree about the
\* block of an update and the place in it.
LEMMA ReachesBlock ==
  ASSUME TypeOK, TablesInv
  PROVE  UpdatesReachTheirBlock
<1> SUFFICES ASSUME Len(object) = entry[master].content_length, Len(object) % K = 0,
                    NEW offset \in 0 .. Len(object) - 1
             PROVE  LET e == entry[target_of(offset, Len(object))]
                    IN  e.data_type \in 1 .. K /\ real_offset(offset, e) < e.content_length
  BY DEF UpdatesReachTheirBlock
<1> DEFINE L == Len(object)
           c == L \div K
           q == offset \div c
           e == entry[target_of(offset, L)]
<1>1. L \in Nat /\ posts > 0
  <2>1. L \in Nat
    BY DEF TypeOK
  <2>2. posts # 0
    BY <2>1 DEF TablesInv
  <2> QED BY <2>1, <2>2, PlacementAssumption DEF TypeOK
<1>2. c \in Nat \ {0} /\ q \in 0 .. K - 1 /\ offset - c * q \in 0 .. c - 1 /\ c * q \in Nat
  BY <1>1, TargetOfOffset DEF TypeOK
<1>3. e.data_type = q + 1 /\ e.content_length = c /\ real_offset(offset, e) = (offset - c * q) % Word
  BY <1>1, EntryOfTarget
<1> HIDE DEF c, q, e
<1>4. offset - c * q \in Nat
  BY <1>2
<1>5. (offset - c * q) % Word <= offset - c * q /\ (offset - c * q) % Word \in Nat
  BY <1>4, Constants, DivNat
<1>6. real_offset(offset, e) < c
  BY <1>2, <1>3, <1>4, <1>5
<1> QED BY <1>2, <1>3, <1>6, Constants DEF e
-----------------------------------------------------------------------------
(***************************************************************************)
(* The bytes of an object of length U.                                     *)
(***************************************************************************)
\* A file of length U takes one round, and its receivers keep Unit bytes of it.
LEMMA OneRound ==
  /\ U = K * Unit /\ U \div K = Unit /\ U % K = 0
  /\ readins(U) = 1 /\ readins(U) * Unit = Unit
  /\ Received(Unit, Unit) \subseteq {Unit}
<1>1. U = K * Unit + 0 /\ 0 \in 0 .. K - 1 /\ U = K * Unit
  BY Constants DEF U
<1>2. U \div K = Unit /\ U % K = 0
  BY <1>1, Constants, DivUnique
<1>3. readins(U) = 1
  <2>1. U + U - 1 = U * 1 + (U - 1) /\ U - 1 \in 0 .. U - 1
    BY Constants
  <2>2. (U * 1 + (U - 1)) \div U = 1
    BY <2>1, Constants, DivUnique
  <2> QED BY <2>1, <2>2 DEF readins
<1>4. Received(Unit, Unit) \subseteq {Unit}
  BY Constants DEF Received
<1> QED BY <1>1, <1>2, <1>3, <1>4, Constants

\* Position i of block d, counted in the object.
LEMMA Position ==
  ASSUME NEW d \in 1 .. K, NEW i \in 1 .. Unit
  PROVE  /\ (d - 1) * Unit + i \in 1 .. U
         /\ ((d - 1) * Unit + i - 1) \div Unit = d - 1
         /\ (d - 1) * Unit = Unit * (d - 1) /\ (d - 1) * Unit \in Nat
<1>1. d - 1 \in Nat /\ d - 1 < K /\ i - 1 \in 0 .. Unit - 1
  BY Constants
<1>2. (d - 1) * Unit = Unit * (d - 1) /\ (d - 1) * Unit \in Nat
  BY <1>1, Constants, ProductNat
<1>3. Unit * (d - 1) + Unit <= Unit * K /\ Unit * K = U /\ U \in Nat
  BY <1>1, Constants, ProductOrder, ProductNat DEF U
<1>4. (Unit * (d - 1) + (i - 1)) \div Unit = d - 1
  BY <1>1, Constants, DivUnique
<1>5. (d - 1) * Unit + i - 1 = Unit * (d - 1) + (i - 1)
  BY <1>1, <1>2
<1> QED BY <1>1, <1>2, <1>3, <1>4, <1>5, Constants

\* Data block d of such a file is its d-th part.
LEMMA StreamOfOneRound ==
  ASSUME NEW file \in Seq(Bytes), Len(file) = U, NEW d \in 1 .. K, NEW i \in 1 .. Unit
  PROVE  data_stream(file, d)[i] = file[(d - 1) * Unit + i]
<1> DEFINE from(x) == ((x - 1) \div Unit) * U + (d - 1) * Unit + ((x - 1) % Unit)
           byte(x) == IF from(x) < Len(file) THEN file[from(x) + 1]
                      ELSE Filler(IF Len(file) > U THEN "pad" ELSE "junk")
<1>1. data_stream(file, d) = [x \in 1 .. Unit |-> byte(x)]
  BY OneRound DEF data_stream
<1>2. (i - 1) \div Unit = 0 /\ (i - 1) % Unit = i - 1
  <2>1. i - 1 \in Nat /\ i - 1 < Unit
    BY Constants
  <2> QED BY <2>1, Constants, SmallMod
<1>3. from(i) = (d - 1) * Unit + (i - 1)
  <2>1. (d - 1) * Unit \in Nat /\ i - 1 \in Nat
    BY Position, Constants
  <2> QED BY <1>2, <2>1, Constants
<1> HIDE DEF from
<1>4. from(i) < Len(file) /\ from(i) + 1 = (d - 1) * Unit + i
  <2>1. (d - 1) * Unit + i \in 1 .. U /\ (d - 1) * Unit \in Nat
    BY Position
  <2>2. i \in Nat /\ U \in Nat
    BY Constants
  <2> QED BY <1>3, <2>1, <2>2
<1>5. byte(i) = file[(d - 1) * Unit + i]
  BY <1>4
<1> HIDE DEF byte
<1> QED BY <1>1, <1>5

\* Appending a block to the copy.
LEMMA Concatenated ==
  ASSUME NEW S, NEW s \in Seq(S), NEW t \in Seq(S)
  PROVE  s \o t \in Seq(S) /\ Len(s \o t) = Len(s) + Len(t)
OBVIOUS

\* Files with the same bytes are the same.
LEMMA SameFile ==
  ASSUME NEW S, NEW s \in Seq(S), NEW t \in Seq(S), Len(s) = Len(t),
         \A i \in 1 .. Len(s) : s[i] = t[i]
  PROVE  s = t
OBVIOUS

\* The servers of the data blocks are on the ring, are not the master and are as
\* many as there are blocks.
LEMMA DataServers ==
  ASSUME master \in Servers, NEW d \in 1 .. K
  PROVE  /\ next_target_server(d) \in Servers /\ next_target_server(d) # master
         /\ BlockOf(next_target_server(d)) = d
         /\ \A b \in 1 .. K : next_target_server(b) = next_target_server(d) => b = d
<1>1. \A b \in 1 .. K : /\ next_target_server(b) \in Servers
                        /\ BlockOf(next_target_server(b)) = b
  <2>1. \A b \in 1 .. K : b \in 0 .. K + M
    BY Constants
  <2> QED BY <2>1, PlaceOfBlock
<1>2. BlockOf(master) = 0
  BY BlockOfPlace
<1> QED BY <1>1, <1>2, Constants
-----------------------------------------------------------------------------
\* A byte of the object is in a data block, at a position of it that is not before the
\* byte's own in the object, and as far from the first byte of its writer as in the object.
LEMMA PlaceOfWrite ==
  ASSUME NEW p \in 1 .. U, NEW before \in 0 .. p - 1
  PROVE  LET d == before \div Unit + 1
         IN  /\ d \in 1 .. K /\ d - 1 = before \div Unit
             /\ (d - 1) * Unit = Unit * (d - 1) /\ (d - 1) * Unit \in Nat
             /\ (d - 1) * Unit <= before /\ before < (d - 1) * Unit + Unit
             /\ p - (d - 1) * Unit \in Nat \ {0}
<1> DEFINE q == before \div Unit
           d == q + 1
<1>1. before \in Nat /\ p \in Nat /\ before < p /\ p <= U /\ U \in Nat
  BY Constants
<1>2. q \in Nat /\ Unit * q \in Nat /\ Unit * q <= before /\ before < Unit * q + Unit
  BY <1>1, Constants, DivNat
<1> HIDE DEF q
<1>3. q < K
  <2> SUFFICES ASSUME q >= K PROVE FALSE
    BY <1>2, Constants
  <2>1. Unit * q >= Unit * K /\ Unit * K = U
    BY <1>2, Constants, SMTT(20) DEF U
  <2> QED BY <1>1, <1>2, <2>1, Constants
<1>4. d \in 1 .. K /\ d - 1 = q
  BY <1>2, <1>3, Constants
<1>5. q * Unit = Unit * q
  BY <1>2, Constants, ProductNat
<1> HIDE DEF d
<1>6. p - (d - 1) * Unit \in Nat \ {0}
  BY <1>1, <1>2, <1>4, <1>5
<1> QED BY <1>1, <1>2, <1>4, <1>5, <1>6 DEF q, d

\* The byte before the first one of the writer of byte p, and its block.
Before(p) == IF object[p].by = "update" THEN p - object[p].at ELSE p - 1
LEMMA WrittenPlace ==
  ASSUME TypeOK, WritesInv, Aligned, NEW p \in 1 .. U
  PROVE  /\ Before(p) \in 0 .. p - 1 /\ WrittenTo(p) = Before(p) \div Unit + 1
         /\ WrittenTo(p) \in 1 .. K
         /\ (WrittenTo(p) - 1) * Unit \in Nat /\ (WrittenTo(p) - 1) * Unit <= Before(p)
         /\ Before(p) < (WrittenTo(p) - 1) * Unit + Unit
         /\ p - (WrittenTo(p) - 1) * Unit \in Nat \ {0}
<1>1. Before(p) \in 0 .. p - 1
  <2>1. Len(object) = U /\ U \in Nat
    BY Constants DEF Aligned
  <2>2. object[p].by = "update" => object[p].at \in 1 .. p
    BY <2>1 DEF WritesInv
  <2> QED BY <2>1, <2>2 DEF Before
<1>2. WrittenTo(p) = Before(p) \div Unit + 1
  BY DEF WrittenTo, Before
<1> QED BY <1>1, <1>2, PlaceOfWrite

\* If no block is longer than Unit no byte was carried over an end: each is in its block.
LEMMA NothingSpilled ==
  ASSUME TypeOK, WritesInv, BlocksHoldObject, Aligned,
         \A d \in 1 .. K : Len(disk[next_target_server(d)]) = Unit,
         NEW d \in 1 .. K, NEW i \in 1 .. Unit
  PROVE  disk[next_target_server(d)][i] = object[(d - 1) * Unit + i]
<1> DEFINE p == (d - 1) * Unit + i
           w == WrittenTo(p)
<1>1. p \in 1 .. U /\ (d - 1) * Unit = Unit * (d - 1) /\ (d - 1) * Unit \in Nat
  BY Position
<1>2. Len(object) = U /\ U \in Nat /\ i \in Nat /\ i >= 1 /\ i <= Unit /\ d \in Nat /\ Unit \in Nat \ {0}
  BY Constants DEF Aligned
<1> HIDE DEF p
<1>3. /\ w \in 1 .. K /\ (w - 1) * Unit \in Nat /\ (w - 1) * Unit <= Before(p)
      /\ Before(p) \in 0 .. p - 1
      /\ p - (w - 1) * Unit \in Nat
  BY <1>1, WrittenPlace
<1>4. /\ p - (w - 1) * Unit <= Len(disk[next_target_server(w)])
      /\ disk[next_target_server(w)][p - (w - 1) * Unit] = object[p]
  BY <1>1, <1>2 DEF BlocksHoldObject
<1>5. p - (w - 1) * Unit <= Unit
  BY <1>3, <1>4
<1> HIDE DEF w
<1>6. (w - 1) * Unit = Unit * (w - 1) /\ w - 1 \in Int /\ d - 1 \in Int
  BY <1>2, <1>3, Constants
<1>7. w <= d
  <2> SUFFICES ASSUME d - 1 < w - 1 PROVE FALSE
    BY <1>2, <1>3, Constants
  <2>1. Unit * (d - 1) + Unit <= Unit * (w - 1)
    BY <1>2, <1>6, ProductOrder
  <2> QED BY <1>1, <1>2, <1>3, <1>6, <2>1 DEF p
<1>8. d <= w
  <2> SUFFICES ASSUME w - 1 < d - 1 PROVE FALSE
    BY <1>2, <1>3, Constants
  <2>1. Unit * (w - 1) + Unit <= Unit * (d - 1)
    BY <1>2, <1>6, ProductOrder
  <2> QED BY <1>1, <1>2, <1>3, <1>5, <1>6, <2>1 DEF p
<1>9. w = d
  BY <1>2, <1>3, <1>7, <1>8, Constants
<1>10. p - (w - 1) * Unit = i
  BY <1>1, <1>2, <1>9 DEF p
<1> QED BY <1>4, <1>9, <1>10 DEF p

\* POST puts each part of an aligned object into its block.
LEMMA PostData ==
  ASSUME IInv, NEW size \in Sizes, Post(size)
  PROVE  WritesInv' /\ BlocksHoldObject' /\ CollectInv' /\ CopyInv'
<1> DEFINE file == MasterFile(size)
<1>1. /\ decoding' = 0 /\ master' = master /\ master \in Servers
      /\ object' = PostedFile(size) /\ posts' = posts + 1
  BY DEF Post, PostedFile, IInv, TypeOK
<1>2. CollectInv'
  BY <1>1 DEF CollectInv
<1> SUFFICES ASSUME Aligned' PROVE WritesInv' /\ BlocksHoldObject' /\ disk'[master] = object'
  BY <1>1, <1>2 DEF WritesInv, BlocksHoldObject, CopyInv
<1>3. posts = 0 /\ size = U
  BY <1>1, PostFiles, PlacementAssumption DEF Aligned, IInv, TypeOK
<1>4. file = object' /\ file \in Seq(Bytes) /\ Len(file) = U
  <2>1. disk[master] = <<>>
    BY <1>1, <1>3 DEF IInv, TablesInv
  <2>2. PostedFile(size) \in Seq(Bytes) /\ Len(PostedFile(size)) = size
    BY PostFiles DEF IInv
  <2> QED BY <1>1, <1>3, <2>1, <2>2 DEF MasterFile
<1> HIDE DEF file
<1>5. disk'[master] = object'
  BY <1>1, <1>4, PostStores DEF file, IInv
<1>6. ASSUME NEW d \in 1 .. K, NEW i \in 1 .. Unit
      PROVE  /\ Len(disk'[next_target_server(d)]) = Unit
             /\ disk'[next_target_server(d)][i] = object'[(d - 1) * Unit + i]
  <2> DEFINE s == next_target_server(d)
  <2>1. s \in Servers /\ BlockOf(s) = d
    BY <1>1, DataServers
  <2> HIDE DEF s
  <2>2. readins(Len(file)) * Unit = Unit /\ size \div K = Unit
    BY <1>3, <1>4, OneRound
  <2>3. PICK n \in Received(Unit, Unit) : disk'[s] = SubSeq(data_stream(file, d), 1, n)
    <3>1. \E n \in Received(readins(Len(file)) * Unit, size \div K) :
            disk'[s] = SubSeq(data_stream(file, BlockOf(s)), 1, n)
      BY <2>1, PostStores DEF file, IInv
    <3> QED BY <3>1, <2>1, <2>2
  <2>4. n = Unit
    BY OneRound
  <2>5. data_stream(file, d) \in Seq(Bytes) /\ Len(data_stream(file, d)) = Unit
    BY <1>4, <2>2, StreamType
  <2>6. Len(disk'[s]) = Unit /\ disk'[s][i] = data_stream(file, d)[i]
    <3>1. Unit \in 0 .. Len(data_stream(file, d))
      BY <2>5, Constants
    <3> QED BY <2>3, <2>4, <2>5, <3>1, Prefix
  <2>7. data_stream(file, d)[i] = file[(d - 1) * Unit + i]
    BY <1>4, StreamOfOneRound
  <2> QED BY <1>4, <2>6, <2>7, Constants DEF s
<1>7. Len(object') = U /\ \A p \in 1 .. U : object'[p].by = "post"
  <2>1. Len(object') = U
    BY <1>4
  <2> QED BY <1>1, <1>3, <2>1, Constants DEF PostedFile, Posted
<1>8. \A d : next_target_server(d)' = next_target_server(d)
  BY <1>1 DEF next_target_server
<1>9. WritesInv'
  BY <1>7 DEF WritesInv
<1>10. \A p \in 1 .. U : WrittenTo(p)' = (p - 1) \div Unit + 1
  BY <1>7 DEF WrittenTo
<1>11. ASSUME NEW p \in 1 .. U
       PROVE  LET block == disk'[next_target_server(WrittenTo(p)')]
                  i     == p - (WrittenTo(p)' - 1) * Unit
              IN  i <= Len(block) /\ block[i] = object'[p]
  <2> DEFINE before == p - 1
             d == before \div Unit + 1
             i == p - (d - 1) * Unit
  <2>1. before \in 0 .. p - 1 /\ p \in Nat /\ before = p - 1
    BY Constants
  <2>2. /\ d \in 1 .. K /\ (d - 1) * Unit \in Nat /\ (d - 1) * Unit <= before
        /\ before < (d - 1) * Unit + Unit
    BY <2>1, PlaceOfWrite
  <2>3. WrittenTo(p)' = d
    BY <1>10
  <2> HIDE DEF before, d
  <2>4. i \in 1 .. Unit /\ (d - 1) * Unit + i = p
    BY <2>1, <2>2, Constants
  <2> HIDE DEF i
  <2>5. Len(disk'[next_target_server(d)]) = Unit /\ disk'[next_target_server(d)][i] = object'[p]
    BY <1>6, <2>2, <2>4
  <2>6. i <= Unit
    BY <2>4
  <2> QED BY <2>3, <2>5, <2>6 DEF i
<1>12. \A d \in 1 .. K : Len(disk'[next_target_server(d)]) >= Unit
  <2>1. 1 \in 1 .. Unit /\ Unit >= Unit
    BY Constants
  <2> QED BY <1>6, <2>1
<1>13. BlocksHoldObject'
  BY <1>7, <1>8, <1>11, <1>12 DEF BlocksHoldObject
<1> QED BY <1>5, <1>9, <1>13

\* UPDATE writes all its bytes into the file of one block, from the place that its first
\* byte has in the object on; what was in that file at these places was in the object too.
LEMMA UpdateData ==
  ASSUME IInv, NEW offset \in 0 .. Len(object) - 1, NEW length \in 1 .. MaxLength,
         Update(offset, length)
  PROVE  WritesInv' /\ BlocksHoldObject' /\ CollectInv' /\ CopyInv'
<1> DEFINE target == target_of(offset, Len(object))
           q == offset \div Unit
           r == real_offset(offset, entry[target])
           content == UpdateContent(length)
<1>1. /\ master' = master /\ master \in Servers /\ posts' = posts /\ posts \in Nat
      /\ updates \in Nat /\ length \in Nat
      /\ object \in Seq(Bytes) /\ disk \in [Servers -> Seq(Bytes)]
  <2>1. master' = master /\ posts' = posts
    BY DEF Update
  <2>2. TypeOK
    BY DEF IInv
  <2> QED BY <2>1, <2>2, PlacementAssumption DEF TypeOK
<1>2. object' \in {object, UpdatedFile(offset, length)} /\ Len(object') = Len(object)
  BY UpdateFiles DEF IInv
<1> SUFFICES ASSUME Aligned'
             PROVE  WritesInv' /\ BlocksHoldObject' /\ decoding' = 1 /\ per_block' = Unit
  BY <1>1 DEF WritesInv, BlocksHoldObject, CollectInv, CopyInv
<1>3. Aligned /\ posts = 1 /\ Len(object) = U /\ U \in Sizes /\ entry[master].content_length = U
  BY <1>1, <1>2 DEF Aligned, IInv, TablesInv
<1>4. /\ offset \in 0 .. U - 1 /\ U \in Nat /\ U \div K = Unit /\ U % K = 0
      /\ U < Word /\ offset \in Nat
  BY <1>3, OneRound, Constants, PlacementAssumption
<1>5. /\ q \in 0 .. K - 1 /\ Unit * q \in Nat /\ offset - Unit * q \in 0 .. Unit - 1
      /\ target = next_target_server(q + 1)
  BY <1>1, <1>3, <1>4, TargetOfOffset
<1>6. /\ entry[target].data_type = q + 1 /\ entry[target].content_length = Unit
      /\ r = (offset - Unit * q) % Word
  BY <1>3, <1>4, EntryOfTarget DEF IInv
<1> HIDE DEF q
<1>7. r = offset - Unit * q /\ r \in Nat /\ r < Unit
  <2>1. Unit <= U
    BY <1>4, Constants, DivNat
  <2>2. offset - Unit * q \in Nat /\ offset - Unit * q < Word
    BY <1>4, <1>5, <2>1, Constants
  <2>3. (offset - Unit * q) % Word = offset - Unit * q
    BY <2>2, Constants, SmallMod
  <2> QED BY <1>5, <1>6, <2>3, Constants
<1>8. entry[target] # NoEntry
  BY <1>5, <1>6, Constants DEF NoEntry
<1>9. decoding' = 1 /\ per_block' = Unit
  BY <1>6, <1>8 DEF Update
<1>10. /\ object' = UpdatedFile(offset, length) /\ target \in Servers
       /\ disk' = [disk EXCEPT ![target] = update_file(@, r, content)]
       /\ content \in Seq(Bytes) /\ Len(content) = length
  BY <1>8, UpdateFiles DEF IInv
<1> HIDE DEF r, target
<1>11. \A p \in 1 .. U : object'[p] = IF p > offset /\ p <= offset + length
                                       THEN Updated(updates + 1, p - offset) ELSE object[p]
  BY <1>3, <1>10 DEF UpdatedFile
<1>12. Len(object') = U /\ TypeOK /\ WritesInv /\ BlocksHoldObject
  BY <1>2, <1>3 DEF IInv
<1>13. ASSUME NEW p \in 1 .. U PROVE object'[p].by = "update" => object'[p].at \in 1 .. p
  <2>1. CASE p > offset /\ p <= offset + length
    <3>1. object'[p] = Updated(updates + 1, p - offset)
      BY <1>11, <2>1
    <3>2. object'[p].at = p - offset
      BY <3>1 DEF Updated
    <3> QED BY <1>1, <1>4, <2>1, <3>2, Constants
  <2>2. CASE ~ (p > offset /\ p <= offset + length)
    BY <2>2, <1>3, <1>11, <1>12 DEF WritesInv
  <2> QED BY <2>1, <2>2
<1>14. WritesInv'
  BY <1>12, <1>13 DEF WritesInv
<1>15. ASSUME NEW s \in Servers
       PROVE  /\ s # target => disk'[s] = disk[s]
              /\ s = target => disk'[s] = update_file(disk[s], r, content)
  BY <1>1, <1>10
<1>16. disk[target] \in Seq(Bytes) /\ q + 1 \in 1 .. K /\ q \in Int
  BY <1>1, <1>5, <1>10, Constants
<1>17. LET after == disk'[target]
       IN  /\ after \in Seq(Bytes) /\ Len(after) >= Len(disk[target])
           /\ \A x \in 1 .. Len(disk[target]) : after[x]
                = IF x > r /\ x <= r + length THEN content[x - r] ELSE disk[target][x]
           /\ \A x \in r + 1 .. r + length : x <= Len(after) /\ after[x] = content[x - r]
  <2> DEFINE after == update_file(disk[target], r, content)
  <2>1. /\ after \in Seq(Bytes) /\ Len(after) >= Len(disk[target])
        /\ \A x \in 1 .. Len(disk[target]) : after[x]
             = IF x > r /\ x <= r + Len(content) THEN content[x - r] ELSE disk[target][x]
        /\ \A x \in r + 1 .. r + Len(content) : x <= Len(after) /\ after[x] = content[x - r]
    <3>1. disk[target] \in Seq(Bytes) /\ r \in Nat /\ content \in Seq(Bytes)
      BY <1>7, <1>10, <1>16
    <3> HIDE DEF content
    <3> QED BY <3>1, UpdateFileType
  <2> HIDE DEF after
  <2>2. disk'[target] = after /\ Len(content) = length
    BY <1>10, <1>15 DEF after
  <2> QED BY <2>1, <2>2
<1>18. \A x \in 1 .. length : content[x] = Updated(updates + 1, x)
  BY DEF content, UpdateContent
<1> HIDE DEF content
<1>19. \A d \in 1 .. K : /\ next_target_server(d) \in Servers
                         /\ next_target_server(d) = target <=> d = q + 1
  BY <1>1, <1>5, <1>16, DataServers
<1>20. ASSUME NEW p \in 1 .. U
       PROVE  LET block == disk'[next_target_server(WrittenTo(p)')]
                  i     == p - (WrittenTo(p)' - 1) * Unit
              IN  i <= Len(block) /\ block[i] = object'[p]
  <2>0. p \in Nat /\ Unit \in Nat \ {0}
    BY Constants
  <2>1. CASE p > offset /\ p <= offset + length
    <3>1. object'[p].by = "update" /\ object'[p].at = p - offset
      <4>1. object'[p] = Updated(updates + 1, p - offset)
        BY <1>11, <2>1
      <4> QED BY <4>1 DEF Updated
    <3>2. WrittenTo(p)' = q + 1
      <4>1. p - (p - offset) = offset
        BY <1>4, <2>0
      <4> QED BY <3>1, <4>1 DEF WrittenTo, q
    <3>3. p - ((q + 1) - 1) * Unit = r + (p - offset)
      <4>1. ((q + 1) - 1) * Unit = Unit * q
        BY <1>5, <2>0, Constants
      <4> QED BY <1>4, <1>5, <1>7, <2>0, <4>1
    <3> DEFINE i == r + (p - offset)
    <3>4. i \in r + 1 .. r + length /\ i - r = p - offset /\ p - offset \in 1 .. length
      BY <1>1, <1>4, <1>7, <2>0, <2>1
    <3> HIDE DEF i
    <3>5. i <= Len(disk'[target]) /\ disk'[target][i] = Updated(updates + 1, p - offset)
      BY <1>17, <1>18, <3>4
    <3> QED BY <1>5, <1>11, <2>1, <3>2, <3>3, <3>5 DEF i
  <2>2. CASE ~ (p > offset /\ p <= offset + length)
    <3> DEFINE w == WrittenTo(p)
               s == next_target_server(w)
               i == p - (w - 1) * Unit
    <3>1. w \in 1 .. K /\ i \in Nat \ {0}
      BY <1>3, <1>12, WrittenPlace
    <3>2. i <= Len(disk[s]) /\ disk[s][i] = object[p]
      BY <1>3, <1>12 DEF BlocksHoldObject
    <3>3. WrittenTo(p)' = w /\ object'[p] = object[p]
      BY <1>11, <2>2 DEF WrittenTo
    <3>4. CASE w = q + 1
      <4>1. s = target
        BY <1>5, <3>4
      <4>2. i = p - Unit * q
        <5>1. ((q + 1) - 1) * Unit = Unit * q
          BY <1>5, <2>0, Constants
        <5> QED BY <3>4, <5>1
      <4> HIDE DEF w, i
      <4>3. ~ (i > r /\ i <= r + length)
        BY <1>1, <1>4, <1>5, <1>7, <2>0, <2>2, <4>2
      <4> HIDE DEF s
      <4>4. i \in 1 .. Len(disk[target]) /\ Len(disk'[target]) \in Nat /\ Len(disk[target]) \in Nat
        BY <1>16, <1>17, <3>1, <3>2, <4>1
      <4>5. disk'[s][i] = object[p]
        BY <1>17, <3>2, <4>1, <4>3, <4>4
      <4>6. i <= Len(disk'[s])
        BY <1>17, <4>1, <4>4
      <4> QED BY <3>3, <4>5, <4>6 DEF s, i
    <3>5. CASE w # q + 1
      <4>1. disk'[s] = disk[s]
        BY <1>15, <1>19, <3>1, <3>5
      <4> QED BY <3>2, <3>3, <4>1
    <3> QED BY <3>4, <3>5
  <2> QED BY <2>1, <2>2
<1>21. ASSUME NEW d \in 1 .. K PROVE Len(disk'[next_target_server(d)]) >= Unit
  <2> DEFINE s == next_target_server(d)
  <2>1. s \in Servers /\ Len(disk[s]) >= Unit /\ Len(disk[s]) \in Nat
    BY <1>1, <1>3, <1>12, <1>19 DEF BlocksHoldObject
  <2> HIDE DEF s
  <2>2. CASE s = target
    <3>1. Len(disk'[s]) >= Len(disk[s]) /\ Len(disk'[s]) \in Nat
      BY <1>17, <2>2
    <3> QED BY <2>1, <3>1, Constants DEF s
  <2>3. CASE s # target
    BY <1>15, <2>1, <2>3 DEF s
  <2> QED BY <2>2, <2>3
<1>22. \A d : next_target_server(d)' = next_target_server(d)
  BY <1>1 DEF next_target_server
<1>23. BlocksHoldObject'
  BY <1>12, <1>20, <1>21, <1>22 DEF BlocksHoldObject
<1> QED BY <1>9, <1>14, <1>23

\* Each block the decoder collects continues the copy where the last one ended.
LEMMA CollectData ==
  ASSUME IInv, CollectBlock
  PROVE  WritesInv' /\ BlocksHoldObject' /\ CollectInv' /\ CopyInv'
<1> DEFINE sent == disk[next_target_server(decoding)]
           copy == IF decoding = 1 THEN <<>> ELSE disk[master]
<1>1. UNCHANGED <<master, object, posts, per_block>>
      /\ decoding' = (IF decoding = K THEN 0 ELSE decoding + 1)
      /\ decoding > 0
  BY DEF CollectBlock
<1>2. /\ decoding \in 1 .. K /\ master \in Servers /\ object \in Seq(Bytes)
      /\ disk \in [Servers -> Seq(Bytes)]
  <2>1. TypeOK
    BY DEF IInv
  <2> QED BY <1>1, <2>1, Constants DEF TypeOK
<1>3. PICK n \in Received(Len(sent), per_block) :
        disk' = [disk EXCEPT ![master] = copy \o SubSeq(sent, 1, n)]
  BY DEF CollectBlock
<1>4. \A d : next_target_server(d)' = next_target_server(d)
  BY <1>1 DEF next_target_server
<1>5. \A d \in 1 .. K : disk'[next_target_server(d)] = disk[next_target_server(d)]
  BY <1>2, <1>3, DataServers
<1>6. CollectInv'
  BY <1>1 DEF IInv, CollectInv, Aligned
<1>7. WritesInv' /\ BlocksHoldObject'
  <2>1. \A p : WrittenTo(p)' = WrittenTo(p)
    BY <1>1 DEF WrittenTo
  <2> SUFFICES ASSUME Aligned
               PROVE  WritesInv' /\ BlocksHoldObject'
    BY <1>1 DEF WritesInv, BlocksHoldObject, Aligned
  <2>2. WritesInv'
    BY <1>1 DEF IInv, WritesInv, Aligned
  <2>3. \A p \in 1 .. Len(object) : WrittenTo(p) \in 1 .. K
    <3>1. Len(object) = U
      BY DEF Aligned
    <3> QED BY <3>1, WrittenPlace DEF IInv
  <2> QED BY <1>1, <1>4, <1>5, <2>1, <2>2, <2>3 DEF IInv, BlocksHoldObject
<1>8. CopyInv'
  <2> SUFFICES ASSUME Aligned, \A d \in 1 .. K : Len(disk[next_target_server(d)]) = Unit
               PROVE  /\ decoding' = 0 => disk'[master] = object
                      /\ decoding' > 1 =>
                           /\ Len(disk'[master]) = Unit * (decoding' - 1)
                           /\ \A j \in 1 .. Len(disk'[master]) : disk'[master][j] = object[j]
    BY <1>1, <1>4, <1>5 DEF CopyInv, Aligned
  <2>1. per_block = Unit /\ Len(sent) = Unit
    BY <1>1, <1>2 DEF IInv, CollectInv
  <2>2. n = Unit
    BY <1>3, <2>1, OneRound
  <2>3. sent \in Seq(Bytes)
    BY <1>2, DataServers
  <2>4. \A i \in 1 .. Unit : sent[i] = object[(decoding - 1) * Unit + i]
    BY <1>2, NothingSpilled DEF IInv
  <2>5. /\ copy \in Seq(Bytes) /\ Len(copy) = Unit * (decoding - 1)
        /\ \A j \in 1 .. Len(copy) : copy[j] = object[j]
    <3>1. CASE decoding = 1
      BY <3>1, Constants
    <3>2. CASE decoding # 1
      <4>1. decoding > 1 /\ copy = disk[master]
        BY <1>2, <3>2, Constants
      <4> QED BY <1>2, <4>1 DEF IInv, CopyInv
    <3> QED BY <3>1, <3>2
  <2>6. (decoding - 1) * Unit = Unit * (decoding - 1) /\ (decoding - 1) * Unit \in Nat
        /\ Unit \in Nat /\ Unit \in 0 .. Unit
    <3>1. decoding - 1 \in Nat
      BY <1>2, Constants
    <3> QED BY <3>1, Constants, ProductNat
  <2> HIDE DEF sent, copy
  <2> DEFINE block == SubSeq(sent, 1, Unit)
             new == copy \o block
  <2>7. block \in Seq(Bytes) /\ Len(block) = Unit /\ \A i \in 1 .. Unit : block[i] = sent[i]
    BY <2>1, <2>3, <2>6, Prefix
  <2> HIDE DEF block
  <2>8. new \in Seq(Bytes) /\ Len(new) = Unit * (decoding - 1) + Unit
    <3>1. new \in Seq(Bytes) /\ Len(new) = Len(copy) + Len(block)
      BY <2>5, <2>7, Concatenated
    <3> QED BY <3>1, <2>5, <2>7
  <2>9. ASSUME NEW j \in 1 .. Len(new) PROVE new[j] = object[j]
    <3>1. CASE j <= Len(copy)
      BY <3>1, <2>5, <2>7
    <3>2. CASE j > Len(copy)
      <4>1. j - Len(copy) \in 1 .. Unit /\ (decoding - 1) * Unit + (j - Len(copy)) = j
        BY <3>2, <2>5, <2>6, <2>8
      <4>2. new[j] = block[j - Len(copy)]
        BY <3>2, <4>1, <2>5, <2>7
      <4> QED BY <4>1, <4>2, <2>4, <2>7
    <3> QED BY <3>1, <3>2, <2>5, <2>8
  <2>10. disk'[master] = new
    BY <1>2, <1>3, <2>2 DEF block
  <2> HIDE DEF new
  <2>11. Len(new) = Unit * decoding
    BY <1>2, <2>8, Constants
  <2>12. CASE decoding = K
    <3>1. Len(new) = Len(object)
      BY <2>11, <2>12, OneRound, Constants, ProductNat DEF Aligned
    <3>2. new = object
      BY <3>1, <1>2, <2>8, <2>9, SameFile
    <3> QED BY <1>1, <2>10, <2>12, <3>2
  <2>13. CASE decoding # K
    BY <1>1, <1>2, <2>9, <2>10, <2>11, <2>13, Constants
  <2> QED BY <2>12, <2>13
<1> QED BY <1>6, <1>7, <1>8
-----------------------------------------------------------------------------
(***************************************************************************)
(* Objects of several rounds.                                              *)
(***************************************************************************)
\* A file of m buffers takes m rounds, and each server is sent m times Unit.
LEMMA Rounds ==
  ASSUME NEW size \in Nat \ {0}, size % U = 0
  PROVE  LET m == size \div U
         IN  /\ m \in Nat /\ size = U * m /\ readins(size) = m
             /\ m * Unit \in Nat \ {0} /\ size \div K = m * Unit
             /\ Received(m * Unit, m * Unit) \subseteq {m * Unit}
<1> DEFINE m == size \div U
<1>1. m \in Nat /\ size = U * m
  <2>1. m \in Nat /\ size = U * m + (size % U) /\ U * m \in Nat
    BY Constants, DivNat
  <2> QED BY <2>1
<1>2. m # 0
  <2> SUFFICES ASSUME m = 0 PROVE FALSE
    OBVIOUS
  <2>1. U * 0 = 0
    BY Constants
  <2> QED BY <1>1, <2>1
<1> HIDE DEF m
<1>3. readins(size) = m
  <2>1. U - 1 \in 0 .. U - 1
    BY Constants
  <2>2. (U * m + (U - 1)) \div U = m
    BY <1>1, <2>1, Constants, DivUnique
  <2>3. size + U - 1 = U * m + (U - 1)
    BY <1>1, Constants
  <2> QED BY <2>2, <2>3 DEF readins
<1>4. m * Unit \in Nat /\ m * Unit # 0
  BY <1>1, <1>2, Constants, ProductNat
<1>5. size \div K = m * Unit
  <2>1. size = K * (m * Unit)
    BY <1>1, Constants, SMTT(20) DEF U
  <2>2. (K * (m * Unit) + 0) \div K = m * Unit
    <3>1. m * Unit \in Int /\ 0 \in 0 .. K - 1
      BY <1>4, Constants
    <3> HIDE DEF m
    <3> QED BY <3>1, Constants, DivUnique
  <2>3. K * (m * Unit) + 0 = K * (m * Unit)
    BY <2>1
  <2> QED BY <2>1, <2>2, <2>3
<1>6. Received(m * Unit, m * Unit) \subseteq {m * Unit}
  BY <1>4 DEF Received
<1> QED BY <1>1, <1>3, <1>4, <1>5, <1>6 DEF m

\* The stream and the position in it where byte a + 1 of such a file goes.
LEMMA PlaceOfByte ==
  ASSUME NEW file \in Seq(Bytes), Len(file) % U = 0, NEW i \in 1 .. Len(file)
  PROVE  \E d \in 1 .. K, j \in 1 .. (Len(file) \div U) * Unit : data_stream(file, d)[j] = file[i]
<1> DEFINE size == Len(file)
           m == size \div U
           r == (i - 1) \div U
           b == (i - 1) % U
           e == b \div Unit
           x == b % Unit
           j == r * Unit + x + 1
<1>0. size \in Nat \ {0} /\ i - 1 \in Nat /\ i - 1 < size
  OBVIOUS
<1>1. m \in Nat /\ size = U * m /\ readins(size) = m /\ m * Unit \in Nat
  BY <1>0, Rounds
<1> HIDE DEF m
<1>2. r \in Nat /\ b \in Nat /\ b < U /\ i - 1 = U * r + b /\ U * r \in Nat /\ U * r <= i - 1
  BY <1>0, Constants, DivNat
<1> HIDE DEF r, b
<1>3. e \in Nat /\ x \in Nat /\ x < Unit /\ b = Unit * e + x /\ Unit * e \in Nat /\ Unit * e <= b
  BY <1>2, Constants, DivNat
<1> HIDE DEF e, x
<1>4. e < K
  <2> SUFFICES ASSUME e >= K PROVE FALSE
    BY <1>3, Constants
  <2>1. Unit * e >= Unit * K /\ Unit * K = U
    BY <1>3, Constants, SMTT(20) DEF U
  <2> QED BY <1>2, <1>3, <2>1, Constants
<1>5. r < m
  <2> SUFFICES ASSUME r >= m PROVE FALSE
    BY <1>1, <1>2
  <2>1. U * r >= U * m
    BY <1>1, <1>2, Constants, SMTT(20)
  <2> QED BY <1>0, <1>1, <1>2, <2>1, Constants
<1>6. /\ r * Unit \in Nat /\ r * Unit = Unit * r /\ r * U = U * r /\ e * Unit = Unit * e
      /\ r * Unit + Unit <= m * Unit
  <2>1. Unit * r + Unit <= Unit * m /\ Unit * m = m * Unit
    BY <1>1, <1>2, <1>5, Constants, ProductOrder, ProductNat
  <2> QED BY <1>2, <1>3, <2>1, Constants, ProductNat
<1>7. j \in 1 .. m * Unit
  BY <1>1, <1>3, <1>6, Constants, SMTT(60)
<1>8. (j - 1) \div Unit = r /\ (j - 1) % Unit = x
  <2>1. j - 1 = Unit * r + x /\ x \in 0 .. Unit - 1
    BY <1>3, <1>6, Constants
  <2>2. r \in Int
    BY <1>2
  <2>3. (Unit * r + x) \div Unit = r /\ (Unit * r + x) % Unit = x
    BY <2>1, <2>2, Constants, DivUnique
  <2> HIDE DEF j
  <2> QED BY <2>1, <2>3
<1> HIDE DEF j
<1> DEFINE d == e + 1
           from(y) == ((y - 1) \div Unit) * U + (d - 1) * Unit + ((y - 1) % Unit)
           byte(y) == IF from(y) < Len(file) THEN file[from(y) + 1]
                      ELSE Filler(IF Len(file) > U THEN "pad" ELSE "junk")
<1>9. d \in 1 .. K /\ d - 1 = e
  BY <1>3, <1>4, Constants
<1>10. data_stream(file, d) = [y \in 1 .. m * Unit |-> byte(y)]
  BY <1>1 DEF data_stream
<1> HIDE DEF d
<1>11. from(j) = i - 1
  BY <1>2, <1>3, <1>6, <1>8, <1>9, SMTT(60)
<1> HIDE DEF from
<1>12. byte(j) = file[i]
  BY <1>0, <1>11
<1> HIDE DEF byte
<1>13. data_stream(file, d)[j] = file[i]
  BY <1>7, <1>10, <1>12
<1> QED BY <1>7, <1>9, <1>13 DEF m

\* After the POST of full buffers every byte is on a data node.
LEMMA PostRounds ==
  ASSUME IInv, NEW size \in Sizes, Post(size)
  PROVE  NothingLostInRounds'
<1> DEFINE file == MasterFile(size)
           m == size \div U
<1>1. /\ master' = master /\ master \in Servers
      /\ object' = PostedFile(size) /\ posts' = posts + 1
  BY DEF Post, PostedFile, IInv, TypeOK
<1> SUFFICES ASSUME posts' = 1, Len(object') % U = 0, NEW i \in 1 .. Len(object')
             PROVE  \E d \in 1 .. K :
                      \E j \in DOMAIN disk'[next_target_server(d)] :
                        disk'[next_target_server(d)][j] = object'[i]
  <2>1. \A d : next_target_server(d)' = next_target_server(d)
    BY <1>1 DEF next_target_server
  <2>2. object' \in Seq(Bytes)
    BY <1>1, PostFiles DEF IInv
  <2>3. DOMAIN object' = 1 .. Len(object')
    BY <2>2
  <2> QED BY <2>1, <2>3 DEF NothingLostInRounds
<1>2. posts = 0
  BY <1>1, PlacementAssumption DEF IInv, TypeOK
<1>3. file = object' /\ file \in Seq(Bytes) /\ Len(file) = size
  <2>1. disk[master] = <<>>
    BY <1>1, <1>2 DEF IInv, TablesInv
  <2>2. PostedFile(size) \in Seq(Bytes) /\ Len(PostedFile(size)) = size
    BY PostFiles DEF IInv
  <2> QED BY <1>1, <2>1, <2>2 DEF MasterFile
<1> HIDE DEF file
<1>4. /\ m \in Nat /\ readins(Len(file)) = m /\ m * Unit \in Nat \ {0} /\ size \div K = m * Unit
      /\ Received(m * Unit, m * Unit) \subseteq {m * Unit}
  BY <1>3, Constants, Rounds
<1>5. PICK d \in 1 .. K, j \in 1 .. m * Unit : data_stream(file, d)[j] = file[i]
  BY <1>3, PlaceOfByte
<1> HIDE DEF m
<1> DEFINE s == next_target_server(d)
<1>6. s \in Servers /\ BlockOf(s) = d
  BY <1>1, DataServers
<1> HIDE DEF s
<1>7. PICK n \in Received(m * Unit, m * Unit) : disk'[s] = SubSeq(data_stream(file, d), 1, n)
  <2>1. \E n \in Received(readins(Len(file)) * Unit, size \div K) :
          disk'[s] = SubSeq(data_stream(file, BlockOf(s)), 1, n)
    BY <1>6, PostStores DEF file, IInv
  <2> QED BY <2>1, <1>4, <1>6
<1>8. n = m * Unit
  BY <1>4
<1>9. data_stream(file, d) \in Seq(Bytes) /\ Len(data_stream(file, d)) = m * Unit
  BY <1>3, <1>4, StreamType
<1>10. disk'[s] \in Seq(Bytes) /\ Len(disk'[s]) = m * Unit /\ disk'[s][j] = data_stream(file, d)[j]
  <2>1. m * Unit \in 0 .. Len(data_stream(file, d))
    BY <1>4, <1>9
  <2> QED BY <1>5, <1>7, <1>8, <1>9, <2>1, Prefix
<1>11. j \in DOMAIN disk'[s]
  BY <1>5, <1>10
<1> QED BY <1>3, <1>5, <1>10, <1>11 DEF s

\* No later request brings the situation back in which nothing may be missing.
LEMMA LaterRounds ==
  ASSUME IInv, NothingLostInRounds, [Next]_vars
  PROVE  NothingLostInRounds'
<1>1. ASSUME NEW size \in Sizes, Post(size) PROVE NothingLostInRounds'
  BY <1>1, PostRounds
<1>2. ASSUME NEW offset \in 0 .. Len(object) - 1, NEW length \in 1 .. MaxLength,
             Update(offset, length)
      PROVE  NothingLostInRounds'
  <2>1. updates \in Nat /\ updates' = updates + 1
    BY <1>2, PlacementAssumption DEF Update, IInv, TypeOK
  <2> QED BY <2>1 DEF NothingLostInRounds
<1>3. CASE CollectBlock
  <2>1. UNCHANGED <<master, object, posts, updates>> /\ master \in Servers
    BY <1>3 DEF CollectBlock, IInv, TypeOK
  <2>2. \A d : next_target_server(d)' = next_target_server(d)
    BY <2>1 DEF next_target_server
  <2>3. \A s \in Servers : s # master => disk'[s] = disk[s]
    BY <1>3 DEF CollectBlock, IInv, TypeOK
  <2>4. \A d \in 1 .. K : disk'[next_target_server(d)] = disk[next_target_server(d)]
    BY <2>1, <2>3, DataServers
  <2> QED BY <2>1, <2>2, <2>4 DEF NothingLostInRounds
<1>4. CASE UpdateTiny \/ UNCHANGED vars
  <2>1. UNCHANGED <<master, object, posts, updates, disk>>
    BY <1>4 DEF UpdateTiny, vars
  <2>2. \A d : next_target_server(d)' = next_target_server(d)
    BY <2>1 DEF next_target_server
  <2> QED BY <2>1, <2>2 DEF NothingLostInRounds
<1> QED BY <1>1, <1>2, <1>3, <1>4 DEF Next
-----------------------------------------------------------------------------
\* Every step keeps the invariant.
LEMMA NextIInv == IInv /\ [Next]_vars => IInv'
<1> SUFFICES ASSUME IInv, [Next]_vars PROVE IInv'
  OBVIOUS
<1>1. ASSUME NEW size \in Sizes, Post(size) PROVE IInv'
  BY <1>1, PostTypeOK, PostData DEF IInv
<1>2. ASSUME NEW offset \in 0 .. Len(object) - 1, NEW length \in 1 .. MaxLength,
             Update(offset, length)
      PROVE  IInv'
  BY <1>2, UpdateTypeOK, UpdateData DEF IInv
<1>3. CASE CollectBlock
  BY <1>3, CollectTypeOK, CollectData DEF IInv
<1>4. CASE UpdateTiny \/ UNCHANGED vars
  <2>1. /\ UNCHANGED <<master, object, posts, updates, entry, disk, decoding, per_block>>
        /\ proxy_up' \in BOOLEAN
    BY <1>4 DEF UpdateTiny, vars, IInv, TypeOK
  <2>2. (\A d : next_target_server(d)' = next_target_server(d)) /\ (\A s : BlockOf(s)' = BlockOf(s))
    BY <2>1 DEF next_target_server, BlockOf
  <2>3. TypeOK'
    BY <2>1 DEF IInv, TypeOK
  <2>4. TablesInv' /\ WritesInv'
    BY <2>1, <2>2 DEF IInv, TablesInv, WritesInv, Aligned
  <2>5. BlocksHoldObject' /\ CollectInv' /\ CopyInv'
    <3>1. (\A p : WrittenTo(p)' = WrittenTo(p)) /\ (Aligned' <=> Aligned)
      BY <2>1 DEF WrittenTo, Aligned
    <3> QED BY <2>1, <2>2, <3>1 DEF IInv, BlocksHoldObject, CollectInv, CopyInv
  <2> QED BY <2>3, <2>4, <2>5 DEF IInv
<1> QED BY <1>1, <1>2, <1>3, <1>4 DEF Next

\* The invariant holds in every reachable state.
THEOREM Invariance == Spec => []IInv
BY InitIInv, NextIInv, PTL DEF Spec

\* Every reachable state is well typed: no request ever computes a server outside
\* the ring or a negative offset.
THEOREM TypeCorrect == Spec => []TypeOK
<1>1. IInv => TypeOK
  BY DEF IInv
<1> QED BY <1>1, Invariance, PTL

\* The proxy's quotient (proxy connection.cpp:102) and the server's subtraction
\* (connection.cpp:166) agree for every K and length, in every reachable state.
THEOREM UpdatesReach == Spec => []UpdatesReachTheirBlock
<1>1. IInv => UpdatesReachTheirBlock
  BY ReachesBlock DEF IInv
<1> QED BY <1>1, Invariance, PTL

\* For an object of one buffer, the data blocks hold it after any updates.
THEOREM BlocksHold == Spec => []BlocksHoldObject
<1>1. IInv => BlocksHoldObject
  BY DEF IInv
<1> QED BY <1>1, Invariance, PTL

\* For an object of one buffer, what decode_file puts together is the object.
THEOREM CopyRebuilt == Spec => []CopyIsObject
<1>1. IInv => CopyIsObject
  BY DEF IInv, CopyInv, CopyIsObject
<1> QED BY <1>1, Invariance, PTL
\* A posted object of full buffers is completely on the data nodes, for any number
\* of rounds (encoder.cpp:338-460).
THEOREM NothingLost == Spec => []NothingLostInRounds
<1>1. Init => NothingLostInRounds
  BY DEF Init, NothingLostInRounds
<1>2. IInv /\ NothingLostInRounds /\ [Next]_vars => NothingLostInRounds'
  BY LaterRounds
<1> QED BY <1>1, <1>2, Invariance, PTL DEF Spec
=============================================================================
