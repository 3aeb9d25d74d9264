----------------------------- MODULE Placement -----------------------------
(***************************************************************************)
(* Where the bytes of one object are.  The encoder cuts the posted file    *)
(* into streams for the servers that follow the master on the ring, the    *)
(* TRANSMIT handlers store what their receiving loops take from them, the  *)
(* proxy computes from offset and length which server an update goes to,   *)
(* that server where in its block the update starts, and the light-weight  *)
(* decoder puts the full copy together from the blocks again.  Each of     *)
(* them does its own arithmetic; this module sets them side by side.       *)
(*                                                                         *)
(* One request runs at a time (UpdateProtocol has the interleavings).      *)
(***************************************************************************)
EXTENDS Integers, Sequences

CONSTANTS
  K, M,        \* ERASURE_CODE_K, ERASURE_CODE_M
  Unit,        \* w * packetsize * unit_size: the bytes of a block per read-in
  Start, N,    \* STARTING_SERVER_ID, NUMBER_OF_SERVER
  RecvSize,    \* RECEIVE_BUFFER_SIZE
  Word,        \* the values of an unsigned int: 2^32
  Sizes,       \* the sizes of the files that clients post
  MaxLength,   \* bound: bytes of an update
  MaxPosts,    \* bound: POSTs in a behaviour
  MaxRequests  \* bound: POSTs and UPDATEs in a behaviour

ASSUME PlacementAssumption ==
  /\ K \in Nat \ {0} /\ M = 2 /\ Unit \in Nat \ {0}
  /\ Start \in Nat /\ N \in Nat /\ N > K + M /\ N >= 2 * K
  /\ RecvSize \in Nat /\ RecvSize >= Unit
  /\ Word \in Nat \ {0} /\ \A s \in Sizes : s < Word
  /\ Sizes \subseteq Nat \ {0}
  /\ MaxLength \in Nat /\ MaxPosts \in Nat /\ MaxRequests \in Nat

Servers == Start .. Start + N - 1
U       == K * Unit          \* buffersize after it was rounded up

\* A byte is named by who wrote it and as which of its bytes.
Posted(p, i)  == [by |-> "post", number |-> p, at |-> i]
Updated(u, i) == [by |-> "update", number |-> u, at |-> i]
Filler(what)  == [by |-> what, number |-> 0, at |-> 0]
Bytes   == [by : {"post", "update", "pad", "junk", "code", "hole"}, number : Nat, at : Nat]
NoEntry == [data_type |-> -1, content_length |-> 0]

VARIABLES
  master,     \* the server the name of the object hashes to
  object,     \* the file as its clients mean it: posted, with every update written to
              \* it in full; its length stays the posted one, with which the proxy divides
  posts, updates,  \* how many so far
  entry,      \* the object's entry in obj_meta_table of each server
  disk,       \* the object's file on each server, empty if there is none
  decoding,   \* the data block the master's decoder collects next, 0 if idle
  per_block,  \* content_length in the request it works on
  proxy_up

vars == <<master, object, posts, updates, entry, disk, decoding, per_block, proxy_up>>

Init ==
  /\ master \in Servers
  /\ object = <<>>
  /\ posts = 0 /\ updates = 0
  /\ entry = [s \in Servers |-> NoEntry]
  /\ disk = [s \in Servers |-> <<>>]
  /\ decoding = 0 /\ per_block = 0
  /\ proxy_up = TRUE
-----------------------------------------------------------------------------
(***************************************************************************)
(* Arithmetic of the components.                                           *)
(***************************************************************************)
\* "Round circle calculation": ids past the last server start over, once.
Wrap(id) == IF id > Start + N - 1 THEN id - N ELSE id

\* encoder, decoder: the server that holds block i of the object.
next_target_server(i) == Wrap(master + i)

\* Mutation: the proxy forgets that the master itself has no block.
target_of_from_master(offset, length) == Wrap(master + offset \div (length \div K))

\* proxy: the server for an update of an object of that length.
target_of(offset, length) == Wrap(master + offset \div (length \div K) + 1)

\* Mutation: data_type counted from 0.
real_offset_from_zero(offset, e) == (offset - e.data_type * e.content_length) % Word

\* UPDATE: where in its block the server that holds entry e starts to write.
real_offset(offset, e) == (offset - (e.data_type - 1) * e.content_length) % Word

\* How many bytes a receiving loop can have stored when it stops: it counts until
\* it has content_length, recv returns any number of bytes up to its buffer.
Received(length, content_length) ==
  LET least == IF content_length = 0 THEN 1 ELSE content_length
  IN  {n \in 1 .. length : (n >= least \/ n = length) /\ n < least + RecvSize}

\* update_file: overwrites, extends, and leaves a hole before an offset past the end.
update_file(file, offset, content) ==
  LET last == offset + Len(content)
  IN  [i \in 1 .. (IF last > Len(file) THEN last ELSE Len(file)) |->
        IF i > offset /\ i <= last THEN content[i - offset]
        ELSE IF i <= Len(file) THEN file[i] ELSE Filler("hole")]

\* encode_file: newsize / buffersize rounds, and what data block d is sent in them.
\* Past the end of the file a round of many is filled up with '0', a single one
\* with what malloc returned.
readins(size) == (size + U - 1) \div U
\* Mutation: a round is taken to have the length of a block.
data_stream_short_rounds(file, d) ==
  [i \in 1 .. readins(Len(file)) * Unit |->
    LET from == ((i - 1) \div Unit) * Unit + (d - 1) * Unit + ((i - 1) % Unit)
    IN  IF from < Len(file) THEN file[from + 1]
        ELSE Filler(IF Len(file) > U THEN "pad" ELSE "junk")]

data_stream(file, d) ==
  [i \in 1 .. readins(Len(file)) * Unit |->
    LET from == ((i - 1) \div Unit) * U + (d - 1) * Unit + ((i - 1) % Unit)
    IN  IF from < Len(file) THEN file[from + 1]
        ELSE Filler(IF Len(file) > U THEN "pad" ELSE "junk")]
code_stream(file) == [i \in 1 .. readins(Len(file)) * Unit |-> Filler("code")]
-----------------------------------------------------------------------------
(***************************************************************************)
(* Requests.                                                               *)
(***************************************************************************)
\* The block that server s has: 0 is the full copy, 1 .. K data, K + 1 .. K + M parity.
BlockOf(s) == (s - master + N) % N

\* The entry of the server after a POST or TRANSMIT that announced content_length:
\* map::insert leaves an old one, a block whose file exists is a TOTAL_RECONSTRUCT.
EntryAfter(s, content_length) ==
  IF entry[s] # NoEntry \/ (s # master /\ disk[s] # <<>>) THEN entry[s]
  ELSE [data_type |-> BlockOf(s), content_length |-> content_length]

\* POST: the master appends what it receives to its file, encodes that file and
\* transmits the streams, each with a K-th of the posted length in its header.
Post(size) ==
  LET posted == [i \in 1 .. size |-> Posted(posts + 1, i)]
      file   == disk[master] \o posted
      Stream(i) == IF i <= K THEN data_stream(file, i) ELSE code_stream(file)
  IN  /\ decoding = 0 /\ proxy_up
      /\ posts < MaxPosts /\ posts + updates < MaxRequests
      /\ posts' = posts + 1
      /\ object' = posted
      /\ \E stored \in [1 .. K + M -> Received(readins(Len(file)) * Unit, size \div K)] :
           disk' = [s \in Servers |->
             IF s = master THEN file
             ELSE IF BlockOf(s) <= K + M THEN SubSeq(Stream(BlockOf(s)), 1, stored[BlockOf(s)])
             ELSE disk[s]]
      /\ entry' = [s \in Servers |->
           IF s = master THEN EntryAfter(s, size)
           ELSE IF BlockOf(s) <= K + M THEN EntryAfter(s, size \div K)
           ELSE entry[s]]
      /\ UNCHANGED <<master, updates, decoding, per_block, proxy_up>>

\* UPDATE: the proxy names the server of the first byte; that one writes all of them,
\* also those that belong to the next block, and has the master decode. If the server
\* has no entry of the object nothing is written.
Update(offset, length) ==
  LET of_block == Len(object) \div K
      target   == target_of(offset, Len(object))
      content  == [i \in 1 .. length |-> Updated(updates + 1, i)]
  IN  /\ decoding = 0 /\ proxy_up
      /\ offset < Len(object) /\ of_block > 0
      /\ posts + updates < MaxRequests
      /\ updates' = updates + 1
      /\ IF entry[target] = NoEntry THEN UNCHANGED <<disk, object, decoding, per_block>>
         ELSE /\ disk' = [disk EXCEPT ![target] =
                   update_file(@, real_offset(offset, entry[target]), content)]
              /\ object' = [i \in 1 .. Len(object) |->
                   IF i > offset /\ i <= offset + length THEN content[i - offset] ELSE object[i]]
              /\ decoding' = 1
              /\ per_block' = entry[target].content_length
      /\ UNCHANGED <<master, posts, entry, proxy_up>>

\* The proxy divides by the length of a block: it does not survive length 0.
UpdateTiny ==
  /\ decoding = 0 /\ proxy_up
  /\ posts > 0
  /\ Len(object) \div K = 0
  /\ proxy_up' = FALSE
  /\ UNCHANGED <<master, object, posts, updates, entry, disk, decoding, per_block>>

\* Mutations: the old copy is appended to, or the loop takes one block too many.
CollectBlock_appends ==
  LET sent == disk[next_target_server(decoding)]
  IN  /\ decoding > 0
      /\ \E n \in Received(Len(sent), per_block) :
           disk' = [disk EXCEPT ![master] = @ \o SubSeq(sent, 1, n)]
      /\ decoding' = IF decoding = K THEN 0 ELSE decoding + 1
      /\ UNCHANGED <<master, object, posts, updates, entry, per_block, proxy_up>>
CollectBlock_too_many ==
  LET sent == disk[next_target_server(decoding)]
      copy == IF decoding = 1 THEN <<>> ELSE disk[master]
  IN  /\ decoding > 0
      /\ \E n \in Received(Len(sent), per_block) :
           disk' = [disk EXCEPT ![master] = copy \o SubSeq(sent, 1, n)]
      /\ decoding' = IF decoding > K THEN 0 ELSE decoding + 1
      /\ UNCHANGED <<master, object, posts, updates, entry, per_block, proxy_up>>

\* decode_file, light-weight: the server of the block sends its whole file, the
\* master takes what its receiving loop takes; the first block truncates the copy.
CollectBlock ==
  LET sent == disk[next_target_server(decoding)]
      copy == IF decoding = 1 THEN <<>> ELSE disk[master]
  IN  /\ decoding > 0
      /\ \E n \in Received(Len(sent), per_block) :
           disk' = [disk EXCEPT ![master] = copy \o SubSeq(sent, 1, n)]
      /\ decoding' = IF decoding = K THEN 0 ELSE decoding + 1
      /\ UNCHANGED <<master, object, posts, updates, entry, per_block, proxy_up>>

Next ==
  \/ \E size \in Sizes : Post(size)
  \/ \E offset \in 0 .. Len(object) - 1, length \in 1 .. MaxLength : Update(offset, length)
  \/ UpdateTiny
  \/ CollectBlock

Spec == Init /\ [][Next]_vars
-----------------------------------------------------------------------------
(***************************************************************************)
(* Properties.                                                             *)
(***************************************************************************)
TypeOK ==
  /\ master \in Servers
  /\ object \in Seq(Bytes)
  /\ posts \in 0 .. MaxPosts /\ updates \in 0 .. MaxRequests
  /\ entry \in [Servers -> [data_type : -1 .. K + M, content_length : Nat]]
  /\ disk \in [Servers -> Seq(Bytes)]
  /\ decoding \in 0 .. K
  /\ per_block \in Nat
  /\ proxy_up \in BOOLEAN

\* An object that the encoder cuts without padding and without rounds, the setting
\* that encoder.cpp:108-109 has in mind.
Aligned == posts = 1 /\ Len(object) = U

\* The data block that byte p of an aligned object was written to: the one the posted
\* byte belongs to, or the one in which the UPDATE that wrote the byte began.
WrittenTo(p) ==
  LET before == IF object[p].by = "update" THEN p - object[p].at ELSE p - 1
  IN  before \div Unit + 1

\* If K divides the length of the object and it is the length it was first posted with,
\* the proxy (proxy connection.cpp:102) sends every update to a server that has a
\* data block of it, and the offset that server computes (connection.cpp:166) is
\* in that block.
UpdatesReachTheirBlock ==
  (Len(object) = entry[master].content_length /\ Len(object) % K = 0) =>
    \A offset \in 0 .. Len(object) - 1 :
      LET e == entry[target_of(offset, Len(object))]
      IN  /\ e.data_type \in 1 .. K
          /\ real_offset(offset, e) < e.content_length

\* Encoder, proxy and UPDATE agree about an aligned object: after any updates each of
\* its bytes is in the data block it was written to, as far from the block's start as
\* in the object. A byte that an UPDATE carried over the end of a block is therefore
\* past the end of that block's file, and the next block has an older one in its place.
BlocksHoldObject ==
  Aligned =>
    /\ \A d \in 1 .. K : Len(disk[next_target_server(d)]) >= Unit
    /\ \A p \in 1 .. Len(object) :
         LET block == disk[next_target_server(WrittenTo(p))]
             i     == p - (WrittenTo(p) - 1) * Unit
         IN  i <= Len(block) /\ block[i] = object[p]

\* The decoder rebuilds an aligned object byte by byte, all updates included, as long as
\* none of them was written past the end of a block. (Of one that was, the copy loses
\* the bytes that belong to the next block, and has them where they do not belong.)
CopyIsObject ==
  (/\ Aligned /\ decoding = 0
   /\ \A d \in 1 .. K : Len(disk[next_target_server(d)]) = Unit)
  => disk[master] = object

\* A posted object whose length is a multiple of buffersize is completely on the
\* data nodes, in however many rounds it was sent (encoder.cpp:338-460).
NothingLostInRounds ==
  (posts = 1 /\ updates = 0 /\ Len(object) % U = 0) =>
    \A i \in DOMAIN object : \E d \in 1 .. K :
      \E j \in DOMAIN disk[next_target_server(d)] : disk[next_target_server(d)][j] = object[i]
=============================================================================
