----------------------------- MODULE Reconstruct -----------------------------
(***************************************************************************)
(* decode_file when files are missing: an object whose full copy or some   *)
(* of whose blocks are lost, GETs and UPDATEs of it, the decoders they     *)
(* start, and the RECONSTRUCT handlers on the other servers.               *)
(*   Files are lost before, not during, the requests.  Lookups hit (module *)
(* Server has the misses).  Processes end only by what they do themselves  *)
(* (UpdateProtocol has the crashes, and the blocks they cut).  Node 0 is   *)
(* the master, node n the server master + n.  A decoder on the master has  *)
(* level 0, one on a data node n has level n.  What the light-weight path  *)
(* does to the bytes is in UpdateProtocol and Placement.                   *)
(***************************************************************************)
EXTENDS Integers, FiniteSets

CONSTANTS
  K, M,               \* ERASURE_CODE_K, ERASURE_CODE_M
  Gets, Updates,      \* requests: GETs at the master, UPDATEs at some data node
  Free,               \* holder of a lock nobody holds
  MaxLost,            \* bound: blocks lost
  MaxRequests,        \* bound: requests that are made
  Sizes,              \* sizes of a block's file
  RECEIVE_BUFFER_SIZE,
  Word                \* the values of an unsigned int: 2^32

Master   == 0
Data     == 1..K
Others   == 1..K+M
Nodes    == {Master} \cup Others
Requests == Gets \cup Updates

ASSUME ReconstructAssumption ==
  /\ K \in Nat \ {0} /\ M \in Nat \ {0} /\ MaxLost \in Nat /\ MaxRequests \in Nat
  /\ Gets \cap Updates = {} /\ Free \notin Requests \cup (Requests \X Others)
  /\ Requests \cap (Requests \X Others) = {}
  /\ RECEIVE_BUFFER_SIZE \in Nat \ {0} /\ Word \in Nat /\ Word > RECEIVE_BUFFER_SIZE
  /\ Word % RECEIVE_BUFFER_SIZE = 0
  /\ \A s \in Sizes : s \in 1..Word-1

VARIABLES
  lost,       \* the nodes that have lost the file of their block
  copy,       \* the full copy: absent, empty, truncated, whole, junk
  at_start,   \* its state when everything began
  size,       \* the size of a block's file
  fits,       \* whether sockets whose other end is not read take all that is written
  ended,      \* the nodes whose process has ended by an error
  pc,         \* of each request: how far its handler, with its decoder, is
  host,       \* of each request: the node on which that handler runs
  peer,       \* the RECONSTRUCT handlers of each request
  left,       \* their `left' in the loop of the NORMAL branch
  asked,      \* the block that a heavy reconstruction waits for
  file_lock,  \* who holds the file lock of the object on each node
  sent        \* what each GET has sent

vars == <<lost, copy, at_start, size, fits, ended, pc, host, peer, left, asked, file_lock, sent>>
disks == <<lost, copy, at_start, size, fits>>

\* How a GET at the master or an UPDATE at node n is at its place.
At(r, p) == pc[r] = p /\ host[r] \notin ended
Goto(r, p) == pc' = [pc EXCEPT ![r] = p]
Peer(r, n, st) == peer[r][n] = st /\ n \notin ended

\* A process ends; its file locks are released.
End(n) ==
  /\ ended' = ended \cup {n}
  /\ file_lock' = [file_lock EXCEPT ![n] = Free]
Unlock(n) == file_lock' = [file_lock EXCEPT ![n] = Free]
Lock(n, who) == file_lock[n] = Free /\ file_lock' = [file_lock EXCEPT ![n] = who]

\* A GET that sends has the full copy open and shares it for reading only.
InUse == \E g \in Gets : pc[g] = "sending"
test_existence == copy # "absent" /\ ~InUse

-----------------------------------------------------------------------------
(* The handlers that start a decoder *)

\* One request more may be made.
Another == Cardinality({r \in Requests : pc[r] # "idle"}) < MaxRequests

GetTest(g) ==
  /\ At(g, "idle") /\ g \in Gets /\ Another
  /\ Goto(g, IF test_existence THEN "open" ELSE "connect")
  /\ UNCHANGED <<disks, ended, host, peer, left, asked, file_lock, sent>>

\* UPDATE takes the lock of its segment before it looks for the file.
UpdateLock(u, d) ==
  /\ At(u, "idle") /\ u \in Updates /\ d \notin ended /\ Another
  /\ Lock(d, u)
  /\ host' = [host EXCEPT ![u] = d]
  /\ Goto(u, "locked")
  /\ UNCHANGED <<disks, ended, peer, left, asked, sent>>

\* The file is there: it is written and unlocked; when the parity nodes have their
\* deltas the master is told to decode.
SegmentFound(u) ==
  /\ At(u, "locked") /\ host[u] \notin lost
  /\ Unlock(host[u])
  /\ host' = [host EXCEPT ![u] = Master]
  /\ Goto(u, "connect")
  /\ UNCHANGED <<disks, ended, peer, left, asked, sent>>

\* Mutation: the lock is not held while the segment is decoded.
SegmentMissing_unlocks(u) ==
  /\ At(u, "locked") /\ host[u] \in lost
  /\ Unlock(host[u])
  /\ Goto(u, "connect")
  /\ UNCHANGED <<disks, ended, host, peer, left, asked, sent>>

\* The file is missing: it is decoded here, with the lock held.
SegmentMissing(u) ==
  /\ At(u, "locked") /\ host[u] \in lost
  /\ Goto(u, "connect")
  /\ UNCHANGED <<disks, ended, host, peer, left, asked, file_lock, sent>>

-----------------------------------------------------------------------------
(* decode_file: connecting, answers, what to do *)

\* An exception: a GET is outside of try, which ends the process; an UPDATE gives its
\* lock back and leaves its sockets open.
Throw(r) ==
  IF r \in Gets THEN End(Master) /\ UNCHANGED pc
  ELSE /\ Goto(r, "abandoned")
       /\ IF file_lock[host[r]] = r THEN Unlock(host[r]) ELSE UNCHANGED file_lock
       /\ UNCHANGED ended

\* Connect to all the others in order, and send RECONSTRUCT to each.
Connect(r) ==
  LET peers   == Others \ {host[r]}
      reached == {n \in peers : \A m \in peers : m <= n => m \notin ended}
  IN  /\ At(r, "connect")
      /\ peer' = [peer EXCEPT ![r] = [n \in Others |-> IF n \in reached THEN "asked" ELSE @[n]]]
      /\ IF reached = peers THEN Goto(r, "statuses") /\ UNCHANGED <<ended, file_lock>>
                            ELSE Throw(r)
      /\ UNCHANGED <<disks, host, left, asked, sent>>

Peers(r, st) == {n \in Others : peer[r][n] = st}
Answered(r) == Peers(r, "asked") = {}
positive_response(r) == Cardinality(Peers(r, "ready"))

\* A server has ended before it answered.
AnswerLost(r) ==
  /\ At(r, "statuses")
  /\ \E n \in Others \cap ended : peer[r][n] = "asked" /\ \A m \in 1..n-1 : peer[r][m] # "asked"
  /\ Throw(r)
  /\ UNCHANGED <<disks, host, peer, left, asked, sent>>

\* What decode_file's 1 leads to: GET goes on as if all were well; on the master
\* encode_file looks for a file that is not there and exits; update_file has none
\* to open, and the UPDATE ends.
AfterGivingUp(r) ==
  CASE r \in Gets       -> Goto(r, "open") /\ UNCHANGED <<ended, file_lock>>
    [] r \in Updates /\ host[r] = Master -> End(Master) /\ UNCHANGED pc
    [] OTHER            -> Goto(r, "failed") /\ Unlock(host[r]) /\ UNCHANGED ended

\* Mutation: one server more is asked for.
GiveUp_too_early(r) ==
  /\ At(r, "statuses") /\ Answered(r) /\ positive_response(r) <= K
  /\ host[r] # Master \/ ~(Data \subseteq Peers(r, "ready"))
  /\ peer' = [peer EXCEPT ![r] = [n \in Others |-> IF @[n] = "ready" THEN "cut" ELSE @[n]]]
  /\ AfterGivingUp(r)
  /\ UNCHANGED <<disks, host, left, asked, sent>>

\* Less than K blocks are there: all sockets are closed.
GiveUp(r) ==
  /\ At(r, "statuses") /\ Answered(r) /\ positive_response(r) < K
  /\ peer' = [peer EXCEPT ![r] = [n \in Others |-> IF @[n] = "ready" THEN "cut" ELSE @[n]]]
  /\ AfterGivingUp(r)
  /\ UNCHANGED <<disks, host, left, asked, sent>>

Light(r) == host[r] = Master /\ Data \subseteq Peers(r, "ready")

\* Mutation: the last data node gets no order.
LightOrders_one_short(before) ==
  [n \in Others |-> IF n \in 1..K-1 THEN "light"
                    ELSE IF n > K /\ before[n] = "ready" THEN "closed" ELSE before[n]]

\* The data nodes are to send, the parity nodes to abort.
LightOrders(before) ==
  [n \in Others |-> IF n \in Data THEN "light"
                    ELSE IF before[n] = "ready" THEN "closed" ELSE before[n]]

\* Mutation: the data node sends the client's path on to the master.
OrderLight_client_path(r) ==
  /\ At(r, "statuses") /\ Answered(r) /\ Light(r)
  /\ peer' = [peer EXCEPT ![r] = LightOrders(@)]
  /\ End(Master)
  /\ UNCHANGED <<disks, pc, host, left, asked, sent>>

\* All data blocks are there.  The path of a GET is the client's: there is no lock of that name.
OrderLight(r) ==
  /\ At(r, "statuses") /\ Answered(r) /\ Light(r)
  /\ peer' = [peer EXCEPT ![r] = LightOrders(@)]
  /\ IF r \in Gets THEN End(Master) /\ UNCHANGED pc
                   ELSE Goto(r, "copy_lock") /\ UNCHANGED <<ended, file_lock>>
  /\ UNCHANGED <<disks, host, left, asked, sent>>

DecideHeavy(r) ==
  /\ At(r, "statuses") /\ Answered(r) /\ positive_response(r) >= K /\ ~Light(r)
  /\ Goto(r, "heavy_lock")
  /\ UNCHANGED <<disks, ended, host, peer, left, asked, file_lock, sent>>

-----------------------------------------------------------------------------
(* Light-weight reconstruction, on the master after an update *)

\* The file is truncated, or cannot be opened; nobody looks which.
Truncated == IF InUse THEN copy ELSE "truncated"

\* Blocks that go into a file which is not open go nowhere.
CopyLock(u) ==
  /\ At(u, "copy_lock")
  /\ Lock(Master, u)
  /\ copy' = Truncated
  /\ Goto(u, IF InUse THEN "discard" ELSE "collect")
  /\ UNCHANGED <<lost, at_start, size, fits, ended, host, peer, left, asked, sent>>

\* The data nodes have all begun to send.  The blocks are read in turn.
Streamed(u) == \A d \in Data : peer[u][d] \in {"streaming", "closed"}

\* Mutation: the lock is not given back.
Collect_keeps_lock(u) ==
  /\ At(u, "collect") /\ Streamed(u)
  /\ copy' = "whole"
  /\ Goto(u, "recorded")
  /\ UNCHANGED <<lost, at_start, size, fits, ended, host, peer, left, asked, file_lock, sent>>

\* All blocks have come; decode_file returns 0 and the update is recorded.
Collect(u) ==
  /\ At(u, "collect") /\ Streamed(u)
  /\ copy' = "whole"
  /\ Unlock(Master)
  /\ Goto(u, "recorded")
  /\ UNCHANGED <<lost, at_start, size, fits, ended, host, peer, left, asked, sent>>

\* The same return value, and the same record, with the old copy.
Discard(u) ==
  /\ At(u, "discard") /\ Streamed(u)
  /\ Unlock(Master)
  /\ Goto(u, "unchanged")
  /\ UNCHANGED <<disks, ended, host, peer, left, asked, sent>>

-----------------------------------------------------------------------------
(* Heavy reconstruction *)

\* The lock of the file to be written is taken, and the file is created or truncated.
HeavyLock(r) ==
  /\ At(r, "heavy_lock")
  /\ Lock(host[r], r)
  /\ copy' = IF host[r] = Master THEN Truncated ELSE copy
  /\ lost' = lost \ {host[r]}
  /\ Goto(r, "heavy")
  /\ UNCHANGED <<at_start, size, fits, ended, host, peer, left, asked, sent>>

\* The next server that is ready is asked for its block; not before the last one's
\* block has come.
AskBlock(r, n) ==
  /\ At(r, "heavy") /\ peer[r][n] = "ready" /\ \A m \in 1..n-1 : peer[r][m] # "ready"
  /\ peer' = [peer EXCEPT ![r][n] = "normal"]
  /\ asked' = [asked EXCEPT ![r] = n]
  /\ Goto(r, "receive")
  /\ UNCHANGED <<disks, ended, host, left, file_lock, sent>>

\* Only a recv that fills the whole buffer ends the loop, or one that fails: its -1 is
\* read as a large number.
Receive(r) ==
  /\ At(r, "receive")
  /\ peer[r][asked[r]] \in {"sending", "closed"} \/ asked[r] \in ended
  /\ Goto(r, IF Peers(r, "ready") = {} THEN "decode" ELSE "heavy")
  /\ UNCHANGED <<disks, ended, host, peer, left, asked, file_lock, sent>>

\* The block came in parts, each of which was thrown away, and there is no more: recv
\* returns 0 for ever.
Spin(r) ==
  /\ At(r, "receive")
  /\ peer[r][asked[r]] = "closed" \/ asked[r] \in ended
  /\ Goto(r, "spinning")
  /\ UNCHANGED <<disks, ended, host, peer, left, asked, file_lock, sent>>

\* Each data block is copied up to its first zero byte, the library works on more bytes
\* than were allocated, and a file that was never opened is closed: the process ends, or
\* goes on with what it has written.
HeavyCrash(r) ==
  /\ At(r, "decode") \/ (At(r, "heavy") /\ asked[r] \in Data)
  /\ End(host[r])
  /\ UNCHANGED <<disks, pc, host, peer, left, asked, sent>>

HeavyReturn(r) ==
  /\ At(r, "decode")
  /\ copy' = IF host[r] = Master /\ copy = "truncated" THEN "junk" ELSE copy
  /\ Unlock(host[r])
  /\ Goto(r, IF r \in Gets THEN "open" ELSE "recorded")
  /\ UNCHANGED <<lost, at_start, size, fits, ended, host, peer, left, asked, sent>>

-----------------------------------------------------------------------------
(* RECONSTRUCT, on node n for request r *)

PeerGoto(r, n, st) == peer' = [peer EXCEPT ![r][n] = st]

Answer(r, n) ==
  /\ Peer(r, n, "asked")
  /\ PeerGoto(r, n, IF n \in lost THEN "closed" ELSE "ready")
  /\ UNCHANGED <<disks, ended, pc, host, left, asked, file_lock, sent>>

\* The decoder has closed the connection or is gone: the read of its order is outside
\* of try and ends the process.
OrderLost(r, n) ==
  /\ Peer(r, n, "cut") \/ (Peer(r, n, "ready") /\ host[r] \in ended)
  /\ End(n)
  /\ UNCHANGED <<disks, pc, host, peer, left, asked, sent>>

\* The lock of the block is taken; what follows is written under it.
LockLight(r, n) ==
  /\ Peer(r, n, "light")
  /\ Lock(n, <<r, n>>)
  /\ PeerGoto(r, n, "streaming")
  /\ UNCHANGED <<disks, ended, pc, host, left, asked, sent>>

\* The decoder reads what comes from n, or its sockets are closed: those of an update
\* when it is over, those of a GET, which never sets after_ec, with its process.
Drained(r, n) ==
  \/ fits
  \/ host[r] \in ended \/ pc[r] \in {"recorded", "unchanged"}
  \/ pc[r] \in {"collect", "discard"} /\ \A d \in 1..n-1 : peer[r][d] \in {"streaming", "closed"}
  \/ pc[r] = "receive" /\ asked[r] = n

\* The write of the block has returned.
EndLight(r, n) ==
  /\ Peer(r, n, "streaming") /\ Drained(r, n)
  /\ Unlock(n)
  /\ PeerGoto(r, n, "closed")
  /\ UNCHANGED <<disks, ended, pc, host, left, asked, sent>>

\* Mutation: left is signed, as in the light-weight branch.
Rest_signed(n) == IF n > RECEIVE_BUFFER_SIZE THEN n - RECEIVE_BUFFER_SIZE ELSE 0

\* left -= RECEIVE_BUFFER_SIZE, of an unsigned left.
Rest(n) == (n - RECEIVE_BUFFER_SIZE) % Word

\* The lock is taken; left is what remains after the piece being written.
SendNormal(r, n) ==
  /\ Peer(r, n, "normal")
  /\ Lock(n, <<r, n>>)
  /\ left' = [left EXCEPT ![r][n] = Rest(size)]
  /\ PeerGoto(r, n, "sending")
  /\ UNCHANGED <<disks, ended, pc, host, asked, sent>>

\* The write of a piece has returned, and there is one more.
WriteNormal(r, n) ==
  /\ Peer(r, n, "sending") /\ left[r][n] > 0 /\ Drained(r, n)
  /\ left' = [left EXCEPT ![r][n] = Rest(@)]
  /\ UNCHANGED <<disks, ended, pc, host, peer, asked, file_lock, sent>>

EndNormal(r, n) ==
  /\ Peer(r, n, "sending") /\ left[r][n] = 0 /\ Drained(r, n)
  /\ Unlock(n)
  /\ PeerGoto(r, n, "closed")
  /\ UNCHANGED <<disks, ended, pc, host, left, asked, sent>>

-----------------------------------------------------------------------------
(* GET, after the decoding if there was one *)

\* Mutation: only a file that is there is opened.
OpenCopy_existing(g) ==
  /\ At(g, "open") /\ file_lock[Master] = Free
  /\ Goto(g, "sending")
  /\ UNCHANGED <<disks, ended, host, peer, left, asked, file_lock, sent>>

\* Mutation: without the lock.
OpenCopy_no_lock(g) ==
  /\ At(g, "open")
  /\ copy' = IF copy = "absent" THEN "empty" ELSE copy
  /\ Goto(g, "sending")
  /\ UNCHANGED <<lost, at_start, size, fits, ended, host, peer, left, asked, file_lock, sent>>

\* A file that is not there is created.
OpenCopy(g) ==
  /\ At(g, "open") /\ file_lock[Master] = Free
  /\ copy' = IF copy = "absent" THEN "empty" ELSE copy
  /\ Goto(g, "sending")
  /\ UNCHANGED <<lost, at_start, size, fits, ended, host, peer, left, asked, file_lock, sent>>

\* Another GET's test_existence has the file open for writing, which CreateFile does not
\* share: the connection is closed and nothing sent.
OpenFails(g, h) ==
  /\ At(g, "open") /\ file_lock[Master] = Free
  /\ At(h, "idle") /\ h \in Gets /\ test_existence /\ Another
  /\ sent' = [sent EXCEPT ![g] = "nothing"]
  /\ pc' = [pc EXCEPT ![g] = "done", ![h] = "open"]
  /\ UNCHANGED <<disks, ended, host, peer, left, asked, file_lock>>

SendCopy(g) ==
  /\ At(g, "sending")
  /\ sent' = [sent EXCEPT ![g] = copy]
  /\ Goto(g, "done")
  /\ UNCHANGED <<disks, ended, host, peer, left, asked, file_lock>>

-----------------------------------------------------------------------------
Init ==
  /\ lost \in {S \in SUBSET Others : Cardinality(S) <= MaxLost}
  /\ copy \in {"whole", "absent"} /\ at_start = copy
  /\ size \in Sizes /\ fits \in BOOLEAN
  /\ ended = {}
  /\ pc = [r \in Requests |-> "idle"]
  /\ host = [r \in Requests |-> Master]
  /\ peer = [r \in Requests |-> [n \in Others |-> "none"]]
  /\ left = [r \in Requests |-> [n \in Others |-> 0]]
  /\ asked = [r \in Requests |-> 0]
  /\ file_lock = [n \in Nodes |-> Free]
  /\ sent = [g \in Gets |-> "none"]

Step(r) ==
  \/ SegmentFound(r) \/ SegmentMissing(r)
  \/ Connect(r) \/ AnswerLost(r) \/ GiveUp(r) \/ OrderLight(r) \/ DecideHeavy(r)
  \/ CopyLock(r) \/ Collect(r) \/ Discard(r)
  \/ HeavyLock(r) \/ \E n \in Others : AskBlock(r, n)
  \/ Receive(r) \/ Spin(r) \/ HeavyCrash(r) \/ HeavyReturn(r)
  \/ OpenCopy(r) \/ SendCopy(r)

PeerStep(r, n) ==
  \/ Answer(r, n) \/ OrderLost(r, n)
  \/ LockLight(r, n) \/ EndLight(r, n) \/ SendNormal(r, n) \/ WriteNormal(r, n) \/ EndNormal(r, n)

Next ==
  \/ \E g \in Gets : GetTest(g) \/ \E h \in Gets : OpenFails(g, h)
  \/ \E u \in Updates : \E d \in Data : UpdateLock(u, d)
  \/ \E r \in Requests : Step(r) \/ \E n \in Others : PeerStep(r, n)

Spec == Init /\ [][Next]_vars

\* A thread goes on when it can; requests need not be made.
FairSpec ==
  /\ Spec
  /\ \A r \in Requests : WF_vars(Step(r)) /\ \A n \in Others : WF_vars(PeerStep(r, n))
-----------------------------------------------------------------------------
\* The type invariant.
TypeOK ==
  /\ lost \subseteq Others /\ at_start \in {"whole", "absent"} /\ size \in Sizes /\ fits \in BOOLEAN
  /\ copy \in {"absent", "empty", "truncated", "whole", "junk"}
  /\ ended \subseteq Nodes
  /\ pc \in [Requests -> {"idle", "locked", "connect", "statuses", "copy_lock", "collect", "discard",
                          "recorded", "unchanged", "heavy_lock", "heavy", "receive", "spinning", "decode",
                          "open", "sending", "done", "failed", "abandoned"}]
  /\ host \in [Requests -> {Master} \cup Data]
  /\ peer \in [Requests -> [Others -> {"none", "asked", "ready", "cut", "light", "streaming",
                                       "normal", "sending", "closed"}]]
  /\ left \in [Requests -> [Others -> 0..Word-1]]
  /\ asked \in [Requests -> Others \cup {0}]
  /\ file_lock \in [Nodes -> {Free} \cup Requests \cup (Requests \X Others)]
  /\ sent \in [Gets -> {"none", "nothing", "empty", "truncated", "whole", "junk"}]

\* No decoder ever restores a lost block: an UPDATE decodes its missing segment with the
\* lock held that decode_file wants, and the other decoders write the full copy.
LostBlockStaysLost == [][lost \subseteq lost']_vars

\* RECONSTRUCT handlers read their order outside of try.  As long as the master is up and
\* no more than M blocks are lost, no decoder leaves one of them without an order, so no
\* server of a block ends.
BlockServersStayUp ==
  Cardinality(lost) <= M /\ Master \notin ended => Others \cap ended = {}

\* With all data blocks and the full copy on disk, the master is ended by nothing but a
\* GET that finds the full copy in use by another GET, and decodes.
MasterEndsByTwoGets ==
  Master \in ended /\ at_start = "whole" /\ lost \cap Data = {} =>
     \E g \in Gets : \E h \in Gets \ {g} : pc[g] = "statuses" /\ pc[h] \in {"sending", "done"}

\* What a GET sends: never a copy that a decoder is writing; an empty one only when too
\* many blocks and the copy are lost; an undecodable one only when a data block is lost.
SentIsSound ==
  \A g \in Gets :
     /\ sent[g] # "truncated"
     /\ sent[g] = "empty" => Cardinality(lost) > M /\ at_start = "absent"
     /\ sent[g] = "junk"  => lost \cap Data # {}

\* A handler of the NORMAL branch whose block is not a multiple of RECEIVE_BUFFER_SIZE
\* never gives the lock of its block back: its unsigned rest passes zero.
SendsForEver ==
  [][\A r \in Requests, n \in Others :
       peer[r][n] = "sending" /\ size % RECEIVE_BUFFER_SIZE # 0
         => file_lock'[n] = <<r, n>> \/ n \in ended']_vars

-----------------------------------------------------------------------------
\* The lock of node n is not given back as long as the requests S stand still: one of them
\* has it, or a handler that sends them its block through full sockets, or one that sends
\* through the full sockets of a GET that is over, or one whose rest has passed zero.
HeldFor(n, S) ==
  \/ file_lock[n] \in S
  \/ \E q \in Requests : /\ file_lock[n] = <<q, n>> /\ host[q] \notin ended
                         /\ ~fits /\ (q \in S \/ pc[q] = "done")
  \/ size % RECEIVE_BUFFER_SIZE # 0 /\ \E q \in Requests : file_lock[n] = <<q, n>> /\ peer[q][n] = "sending"

\* Request r stands still as long as S does: it spins, or waits for such a lock, or for a
\* block that is sent under such a lock.
Blocked(r, S) ==
  \/ pc[r] = "spinning"
  \/ pc[r] \in {"heavy_lock", "copy_lock", "open"} /\ HeldFor(host[r], S)
  \/ pc[r] = "receive" /\ peer[r][asked[r]] = "normal" /\ HeldFor(asked[r], S)
  \/ /\ pc[r] \in {"collect", "discard"}
     /\ \E d \in Data : peer[r][d] = "light" /\ HeldFor(d, S)

\* The requests that stand still because all of them do, found among those that would
\* stand still if every request did.
Stuck ==
  LET waiting == {r \in Requests : Blocked(r, Requests)}
  IN  UNION {S \in SUBSET waiting : \A r \in S : Blocked(r, S)}

\* Every request that is made comes to its end, or its process ends, or it is one of a set
\* of requests that wait for each other, for a recv that returns 0 for ever, for an endless
\* send or for one into the full sockets of a GET: decode_file and the handlers that serve
\* it have no other way to wait for ever.
RequestsEnd ==
  \A r \in Requests :
     pc[r] # "idle" ~> \/ pc[r] \in {"done", "recorded", "unchanged", "failed", "abandoned"}
                      \/ host[r] \in ended \/ r \in Stuck

\* Decoding v has the full copy and waits for the block of node d; that is being written to
\* decoding w, which waits for the full copy.
CrossWait ==
  /\ ~fits
  /\ \E v, w \in Updates : \E d \in Data :
       /\ pc[v] \in {"collect", "discard"} /\ peer[v][d] = "light"
       /\ pc[w] = "copy_lock" /\ file_lock[d] = <<w, d>>

\* With all data blocks on disk every UPDATE is merged: the full copy is written anew from
\* blocks that hold it, however many parity blocks are lost and whoever else decodes.  The
\* exceptions: a GET has the copy open and it stays as it was; the master ends; two
\* decodings wait for each other.
MergesComplete ==
  \A u \in Updates :
     pc[u] # "idle" /\ lost \cap Data = {} ~>
       \/ pc[u] = "recorded"
       \/ pc[u] = "unchanged" /\ \E g \in Gets : pc[g] \in {"sending", "done"}
       \/ Master \in ended \/ CrossWait
=============================================================================
