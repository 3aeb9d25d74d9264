# A TLA+ model of the erasure-coded object store

The repository is a distributed object store for Windows, written with
boost::asio and the Jerasure library: clients ask a proxy where an object lives,
post it to that server (its *master*), which keeps a full copy, cuts it into
K = 4 data blocks and M = 2 parity blocks and sends those to the next six servers
on a ring of 256. An update goes to the data block it falls in, spreads from there
to the parities and the master, and the master rebuilds its full copy from the
blocks. This directory models that system in TLA+, checks the models with TLC and
proves theorems about them with TLAPS.

Short names for paths below: `S/` is
`src/VS2010_Workspace/for_all_kinds_of_servers/for_all_kinds_of_servers/`, `P/` is
`src/VS2010_Workspace/proxy_server/proxy_server/`, `C/` is
`src/VS2010_Workspace/for_all_kinds_of_clients/for_all_kinds_of_clients/`, `J/` is
`src/VS2010_Workspace/j_lib_test/j_lib_test/`.

## 1. Inventory

| Component | Code | State it keeps | Operations | Hard behaviour |
|---|---|---|---|---|
| Server process | `S/server.cpp`, `S/io_service_pool.cpp`, `S/metadata.cpp` | pool of io_services with one thread each, `connection_pool`, `obj_meta_table` behind `table_lock`, `ip_port_table`, `ec_port_lock` | accept, dispatch to the next io_service, stop | handlers block the thread they run on; the acceptor has no thread of its own; the table is in memory only |
| Connection handlers | `S/connection.cpp` `handle_read` | the request, the socket, up to six outgoing sockets, an iterator into the table | GET, POST, UPDATE, TRANSMIT_DATA/PARITY_BLOCK, TRANSMIT_DELTA_CONTENT, TRANSMIT_UPDATE_CONTENT, RECONSTRUCT | blocking dialogues between up to seven servers, locks released on some paths only, reads outside try blocks, iterators kept past the lock |
| Encoder | `S/encoder.cpp` | counters `n`, `readins` | cut a file into rounds, pad, code, send to K + M servers | sizes that are not multiples of the unit, wrap of the ring |
| Decoder, light-weight | `S/decoder.cpp` 1-327 | sockets, statuses of the peers | all data blocks are there: put them together | concurrent decodings of one object, byte counts of recv, order of locking |
| Decoder, heavy | `S/decoder.cpp` 333-602 | erased blocks, buffers | some blocks are lost: ask K servers in turn, decode | a lock taken twice, unsigned counters, an order nobody gives |
| File helpers | `S/common.cpp` | lock files, block files, update logs | update_file, test_existence, caculate_ec_port | append without lock, 16-bit ports |
| Proxy | `P/` | none that changes | name → master; offset → data server | division, wrap |
| Client | `C/client.cpp`, `C/request.cpp` | its sockets, its files | GET, POST, UPDATE, one at a time per client | acts on the first acknowledgement; reports errors as success; no time limit |
| Parser, reply buffers | `*/request_parser.cpp`, `*/reply.cpp` | – | headers to requests and back | fields that are not in the header |
| Jerasure library | `S/` and `J/` `galois.c`, `jerasure.c`, `cauchy.c`, `reed_sol.c`, `liberation.c` | tables built at the first use | arithmetic in GF(2^w), coding matrices, schedules, encode, decode | wrap of exponents, pivoting, order of erasures, reuse of rows in schedules |
| Encoder and decoder programs | `J/encoder.cpp`, `J/decoder.cpp` | the block files and the parameter file | encode a file, decode what is left of it | rounding of sizes, several rounds, short cut over the plain sum |
| Configuration and start-up | `*/common.cpp`, `S/server.cpp`, `P/proxy_server.cpp` | table of servers, thread_num, run_mode | read lines "name:value" | a missing line leaves a default |
| Library examples, other tests, asio samples | `J/` and elsewhere | – | – | – |

Components interact by TCP messages (a request line with headers, `ready_for_*` /
`update_done` / `post_done` / `object_not_found` answers, raw blocks), by the table
and the two mutexes inside a process, and by files with boost file locks
(`obj.lock` beside `obj`) inside and across processes.

What makes each of them correct:

* server: sections of `table_lock` exclude each other and always end; iterators stay
  valid; no version is lost; every request ends; stored blocks have metadata;
* update: acknowledged ⇒ in the block and with every parity; no half-written block is
  read; the rebuilt copy has the update; versions at the master are in order; the
  parities' logs are complete; every update completes;
* encoder, proxy, decoder: they agree about the place of each byte and about lengths;
* lost files: a decoder leaves no server waiting for an order, gives its locks back,
  and a GET sends no copy that is being written;
* requests from end to end: what the client is told is true; every client ends;
* library: the arithmetic is that of the field, matrices are inverted exactly when
  they can be, every function that decodes restores all drives or refuses.

`PROJECT.json` lists the hazards, each at its line, with the property that watches it
or the reason there is none.

## 2. Modules

| Module | What it is |
|---|---|
| `Server` | one server process: threads, accept loop, handlers, `table_lock`, `obj_meta_table` |
| `Server_proofs` | its theorems |
| `UpdateProtocol` | one object, all its servers: the dialogue of an update and of the light-weight reconstruction it triggers, with crashes |
| `AbstractUpdate` | what that protocol promises: store, log, acknowledge, merge |
| `UpdateProtocol_proofs` | theorems about the two, the refinement among them |
| `Placement` | one object, the ring: encoder, proxy, UPDATE's offset, receiving loops, decoder, byte by byte |
| `Placement_proofs` | its theorems |
| `Reconstruct` | one object whose full copy or blocks are lost: GETs, UPDATEs, both paths of the decoder, the RECONSTRUCT handlers |
| `Reconstruct_proofs` | its types, what its locks keep from being restored, which of its servers end and what its GETs send |
| `Front` | clients, proxy, several storage servers, several objects: a request from end to end |
| `Front_proofs` | its theorems |
| `Galois`, `Codes`, `Jerasure` | the coding library: `galois.c`; the coding matrices of `reed_sol.c`, `cauchy.c`, `liberation.c`; `jerasure.c` |
| `Loops` | a counted loop as a function, which the library's loops are instances of |
| `Loops_proofs`, `Jerasure_proofs` | induction over such a loop; what the library does with a bit matrix |
| `FileCodec` | the encoder and the decoder program, which call that library, with files lost in between |
| `FileCodec_proofs` | theorems about their rounds, sizes and files, and what the files and buffers hold |
| `MCServer`, `MCUpdateProtocol`, `MCPlacement`, `MCReconstruct`, `MCFront`, `MCFileCodec` | constants for TLC |

The models of the servers cut the system along its kinds of shared state: the memory
of one process (`Server`), the dialogues between processes (`UpdateProtocol`,
`Reconstruct`), the bytes on the disks (`Placement`), and what the client sees of all
that (`Front`). What one of them shows the others use: the sections of `table_lock`
are single steps in the other modules because `Server` shows that they exclude each
other; `Placement` runs one request at a time because `UpdateProtocol` has the
interleavings; coded blocks are opaque everywhere but in `FileCodec`, whose modules
say what the library makes of them.

Operators whose comment begins with *Mutation* are not part of the models: they are
mutated forms of the definition that follows them, used to see that the properties
notice such a bug.

### Server

`phase[c]` is the place of connection c's handler between its blocking calls,
`it[c]` the iterator its lookup returned, `seen[c]` the vector it reads before it
pushes to it (so the push is two steps, as it is for threads). An entry of the table
is named by the connection that inserted it, so that "the iterator still names the
entry found" can be said. `Stored` is in the table at the start, `OnDisk` additionally
has the files that an earlier life of the process left; the table itself is never
persisted. Lock and unlock are placed as in the code: the four lookups (GET, UPDATE,
TRANSMIT_UPDATE_CONTENT, RECONSTRUCT) unlock only when the object was found.
`Idle(t)` is the rule that a handler blocks the thread of its io_service: no other
completion (accept, read, TransmitFile's `handle_write`, signals) of the same
io_service runs meanwhile. With `Faults`, peers vanish: a read outside try ends the
process (`PeerLostUnprotected`), one inside is abandoned without closing
(`PeerLostProtected`), the loops of POST, of TRANSMIT and of the NORMAL branch that
count recv's result or the rest wrongly do not end, and who needs a file lock that such a
handler holds waits with it (`LoopForever`).

| Action | Code |
|---|---|
| `handle_accept`, `start_accept` | `S/server.cpp:85-137` |
| `handle_read` | `S/connection.cpp:49-72` and the head of each branch |
| `Received` | 139, 359, 551-582, 675-722 |
| `LockForLookup`, `LookupHit`, `LookupMiss` | 74-114, 149-152/327, 419-426/500, 763-768/880 |
| `LockForRecord` and `InsertRecord`, `InsertEntry`, `ClearAndInsertRecord` | 177-184, 376-385, 462-464, 611-639, 730-741 |
| `WorkThenRecord`, `WorkThenEnd`, `WorkFails`, `Finish` | what runs without the lock |
| `handle_write` | 907-939 |

### UpdateProtocol

Handlers are indexed by the update that started them, as every update opens its own
connections; several updates run at once. `update_pc` is the UPDATE handler on the
target, `round` its loop over master and parities, `delta_pc` the handlers on the
parities, `master_pc` the handler and decoder on the master, `recon_pc` the handlers
that send blocks. A block is the set of updates written to it and whether it is
whole; a delta in a log is the update's name. The file locks are variables because
the order in which they are taken is what goes wrong; the append to the log is the
two steps of the C library. Message loss is not modelled (TCP); a crash closes all
sockets of a process, releases its file locks, empties its table, and lets every
process that reads from it outside a try block end too.

A data node sends its block in two steps, `LockBlock` and `UnlockBlock`, because its
writes block: if the sockets do not hold the block (`fits`, chosen by `Capacity`), the
second one waits until the decoder reads this block. The decoder reads the blocks in
turn (`ec_count`), after it has the lock of the full copy, so that two decodings can
wait for each other (`CrossWait`). If the node of a block has ended, what it had sent
stays in the connection (`Remains`: all of it, a part, or nothing), the decoder goes on
with the next block and returns 0 (`LoseBlock`). If a GET has the full copy open
(`GetsSendCopy`), the open of the decoder may fail, and the blocks are received and
dropped ("discard").

`Abstract == INSTANCE AbstractUpdate WITH ...` maps the union of the data files to
`stored`, finished delta handlers to `logged`, the clients' knowledge to `acked`, and
finished master handlers to `merged`.

### Placement

A byte is named by who wrote it. `Post` is POST with encode_file and the TRANSMIT
handlers, `Update` the proxy's routing and update_file, `CollectBlock` one round of
the light-weight decoder's outer loop. `Received` gives all lengths a receiving loop
can end with. `Word` is 2^32 in the code. The master is any server of the ring, so the
wrap is met. `object` is what the clients mean: the posted file with their updates, each
of them in full. Nothing in the program cuts an update at the border of its block: the
server of its first byte writes all of it, past the end of its own block, and the next
block keeps what it had. `WrittenTo` says which block a byte of the object went to, and
BlocksHoldObject that it is there; CopyIsObject is about the objects without such an update.

### Reconstruct

The files are lost before the requests begin; lookups hit. Node 0 is the master, node
n the server master + n. `pc[r]` is the handler of request r with its decoder, `peer[r]`
the RECONSTRUCT handlers it talks to, `file_lock` the file locks. Processes end only by
what the code itself does; `End` releases the locks, as Windows does. The copy is one
of absent, empty, truncated, whole, junk; the content of blocks is left out, except
that a heavy decoding works beyond its buffers (`S/decoder.cpp:396-560`: strings
copied to their first zero byte, 2048 bytes allocated for groups of 8192, a file closed
that was never opened): the process ends, or goes on with any content
(`HeavyCrash`, `HeavyReturn`).

| Action | Code |
|---|---|
| `GetTest`, `OpenCopy`, `OpenFails`, `SendCopy` | GET, `S/connection.cpp:69-107` |
| `UpdateLock`, `SegmentFound`, `SegmentMissing` | UPDATE up to the decoder, 124-187 |
| `Connect`, `AnswerLost`, `GiveUp`, `OrderLight`, `DecideHeavy` | `S/decoder.cpp` up to 280 |
| `CopyLock`, `Collect`, `Discard` | the light-weight path, 281-327 |
| `HeavyLock`, `AskBlock`, `Receive`, `Spin`, `HeavyCrash`, `HeavyReturn` | the heavy path |
| `Answer`, `OrderLost`, `LockLight`, `EndLight`, `SendNormal`, `WriteNormal`, `EndNormal` | RECONSTRUCT, `S/connection.cpp:757-885` |

A handler that sends a block goes on only if its write returns (`Drained`): the sockets
take all of it (`fits`, chosen at the start), or the decoder reads this block, or its end
is closed. The light-weight decoder reads the blocks in turn, the heavy one takes one recv
of each; an UPDATE closes its sockets when it is over (`after_ec`, `S/connection.cpp:472`),
a GET never does.

What is easy to overlook in the code and is in the model: a GET that decodes hands on
the client's path, for which there is no lock file, so that its light-weight path throws
outside try; GET opens the copy with OPEN_ALWAYS, which creates an empty one; giving
up closes the sockets, and the peers' read of the order (781) is outside try; after
giving up the master encodes a file it does not have and calls exit(0); `left` in the
NORMAL branch is unsigned; of recv's results only one that fills the whole buffer ends
the receiving loop, or -1, which is read as a large number; a decoding whose copy a GET
has open ends as well as any, and is recorded, with the copy unchanged; a GET whose open
meets another GET's test_existence closes the connection without a byte (`OpenFails`).

### Front

Each client makes one request; two clients may share files, and one may update what
the other posts. `client` has what the client knows and reports, `conn` the
storage server's end of its connection, `table` and `copy` the metadata and files of
each server, `held` a `table_lock` left locked, `pend` the headers of blocks whose
TRANSMIT handler has not inserted its entry. `Deployments` are the configuration
files, which processes are up, which somebody stops, the clients' files and the
objects stored before. Headers arrive whole (one short write); contents arrive in
pieces, and `RecvFails` has what the loops make of 0 and -1. Every handler has a
thread of its own. Left out: GET and POST meeting on one object, the loss of files
(`Reconstruct`), the bytes of updates (`UpdateProtocol`), ids and timestamps. A POST over
an existing copy appends to it and keeps the entry; a TRANSMIT over an existing file
inserts none; an encoding is one step that reaches the servers it can connect to, in
order.

### Galois, Codes, Jerasure, FileCodec

A word is the set of the bits that are one, so xor is symmetric difference and all
widths of the library (up to 32) are finite sets of positions. The tables, the
logarithms with their three copies, the split tables and the loops of shifts are
functions built as the code builds them. The contents of drives are symbolic: for bit
matrices a packet is the set of the data packets whose sum it is, for the other codes a
block is its row of coefficients. So one state stands for all contents of a file, and
"decoded" means that every drive holds what the definition of the code says.
`FileCodec` runs encoder, loss, decoder: `blocks` are the bytes the encoder has put in
its buffer, `files` the k + m files, `meta` the parameter file, `mem` what the decoder's
pointers point to, with what earlier rounds left there.

## 3. Runs

| Run | Bounds | Distinct states | Shows |
|---|---|---|---|
| `Server_safety` | 2 objects (one stored), 13 kinds of requests, 2 threads, 3 connections, faults | 1.0 M | TypeOK, LockDiscipline, LeakedOnlyByMiss, IteratorValid, HistoryKept, LeakFreezesTable |
| `Server_live` | 1 stored object, 7 methods, 2 threads, 3 connections, no faults | 53 k | EveryRequestEnds |
| `UpdateProtocol_safety` | 2 clients, 1 update each, K = 2, M = 1, one crash, GETs of the copy; clients symmetric | 0.59 M | TypeOK, AckedIsDurable, NoTornBlock, DecodeYieldsItsUpdate, ImplementsAbstract |
| `UpdateProtocol_live` | 2 clients, K = M = 1, both kinds of sockets, GETs of the copy, no crash | 24 k | EveryUpdateCompletes |
| `UpdateProtocol_blocked` | 2 clients, K = M = 1, full sockets | violation | LightWeightCompletes: two decodings wait for each other |
| `UpdateProtocol_stale` | 2 clients, K = 2, M = 1 | violation | RecordedIsInFullCopy: an older copy overwrites a newer |
| `UpdateProtocol_order` | 1 client, 2 updates | violation | MasterHistoryInOrder |
| `UpdateProtocol_append` | 2 clients | violation | AckedIsLogged: one delta overwrites another |
| `Placement_bytes` | K = M = 2, 2 bytes per block, 5 servers, sizes 1, 2, 3, 4, 8; 3 requests, up to 2 of them POSTs, updates of up to 3 bytes | 0.95 M | TypeOK, UpdatesReachTheirBlock, BlocksHoldObject, CopyIsObject, NothingLostInRounds |
| `Reconstruct_lost` | K = 2, M = 1, any 2 of 2 GETs and 2 UPDATEs, up to 2 blocks and the copy lost, blocks of 3 and 4 for a buffer of 2, both kinds of sockets | 0.24 M | TypeOK, BlockServersStayUp, MasterEndsByTwoGets, SentIsSound, LostBlockStaysLost, SendsForEver, RequestsEnd, MergesComplete |
| `Front_requests` | 2 clients with shared files, K = 3, M = 1, 6 servers, 7 deployments | 0.11 M | TypeOK, DoneIsRecorded, RecordedIsWhole, ProxyEndsByShortUpdate, FinishedGetIsWhole, EarlyUpdateBlocksPost, EveryClientEnds |
| `FileCodec_codes` | 19 cases: all seven codes, w from 2 to 32, k from 2 to 4, m 2 or 3, sizes around the multiples of the buffer, every set of lost files | 1.9 k | TypeOK, MetaFindsEveryByte, PacketsEncoded, BuffersRestored, DecodedIsCodingDrive0, LibraryDecodes, ArithmeticAgrees |

Why the bounds are enough: in `Server`, two handlers compete for the lock while a
third has leaked it or runs on the same thread; nothing in the code counts beyond
that. In `UpdateProtocol` two updates meet on the same or on different data nodes; K
= 2 makes a copy that mixes two blocks possible, and one that goes on after a block that
was cut; with M = 1 enough_for_rec is full at the first answer of a parity node, and the
proofs are for every M; a second crash only shortens behaviours. The safety run has
sockets that hold a block, because they allow every step that full ones do. In `Placement` the sizes are one of
each class the encoder and the proxy distinguish (smaller than K; not a multiple of
K; smaller than, equal to, twice the unit), the receive buffer is larger than one
block and smaller than two, and every offset and length of update occurs, also
those that cross the end of a block; with two of them one can overwrite what the other
one carried over an end. In `Reconstruct` two losses are more than M; two requests of
either kind can each have a decoder at the same time, or one sends what the other decodes
(three at a time are left to the proofs, which are about the safety properties only); and a block is two buffers, so that a write can find the
sockets full, or no multiple of one. A block of one buffer is like one of two whose sockets
take it. In `Front` the second client posts, updates or
reads what the first one does; with K = 3 a short file makes the proxy divide by zero
or name a server without a block; each deployment has one thing wrong (a server
down or not in the table, no configuration, missing or empty client files, a process
that is stopped). In `FileCodec` the parameters of the storage servers (k = 4, m = 2, w = 8)
are among the cases, and 3 rounds are the first, one in the middle and the last. All
runs have `CHECK_DEADLOCK FALSE`: the bounds on requests end every behaviour, and a
server that leaked its lock really stops.

Fairness. `Server`: strong fairness of each connection's steps; an io_service runs
ready handlers in order and a free thread runs, so a handler that is enabled again
and again is dispatched, and Windows' mutex does not starve a waiter that finds it
free infinitely often. `UpdateProtocol`: every handler has a thread of its own, a file
lock that is released again and again is obtained; clients need not issue updates and
no crash is fair. Neither assumes that peers vanish or that they do not: the liveness
runs switch faults off, because with a vanished peer the code does not promise to
end. `UpdateProtocol_blocked` has the same fairness: its two decodings do not wait because
a step is never taken, but because none is possible. `Front` and `Reconstruct`: weak fairness of each client's, handler's and peer's next
step, which is that a thread that can go on does; requests need not be made, nothing has
to crash or be stopped. There the faults stay on, and `EveryClientEnds` and `RequestsEnd`
name every way to be stuck: a client, or a decoder, that does not end is in one of
the named states.

## 4. Findings

Each violation run contradicts a comment of the code; `PROJECT.json` quotes them.
Two concurrent updates can leave the master with a copy that misses a version it has recorded, and if the blocks are larger than the
socket buffers they can wait for each other for ever; an acknowledged client can overtake
its own last update; the update log loses deltas.

Some passing properties say what the code does where a reader would expect
something else:

* `LeakedOnlyByMiss` and `LeakFreezesTable`: a missed lookup quits ("Object doesn't exist,
  quit", `S/connection.cpp:110`) with `table_lock` held, and nothing the process can do
  afterwards gets past it.
* `BuffersRestored` holds for codes whose first coding row is all ones only. With
  `row_k_ones` = 1 (`J/decoder.cpp:331`) and `cauchy_orig` a lost data drive is rebuilt
  from a plain sum that coding drive 0 is not.
* `DecodedIsCodingDrive0`: what `J/decoder.cpp` writes as the decoded file is coding drive 0
  (for the codes with a bit matrix; what it writes for the others is left out).
* `MasterEndsByTwoGets`: a GET takes a full copy that another GET is sending for missing,
  and its decoder ends the master. It is the only way in which a master with all its
  files ends.
* `LostBlockStaysLost`: an UPDATE of a lost block decodes with the lock held that the
  decoder wants (`S/connection.cpp:157`: "we assume it always works"); it waits for ever,
  and no block is restored.
* `SendsForEver`: a block that is not a multiple of the buffer is sent without end, with
  its lock held.
* `RequestsEnd`: its exceptions, `HeldFor` and `Blocked`, are all the ways to wait for ever
  that these handlers have. One is a block of two buffers: the heavy decoder takes one recv
  of it, and the write of the rest stops with the lock held once the sockets are full, for
  ever if the decoder is that of a GET, whose sockets nobody closes.
* `DecodeYieldsItsUpdate`: a decoding whose data node ends while it sends, or whose copy a
  GET has open, ends like any other, and a clean version is recorded over a copy that is
  truncated or old. `MergesComplete` tells the second case apart from a merge.
* `EveryUpdateCompletes` and `MergesComplete` except two decodings that wait for each
  other; `LightWeightCompletes` shows that they do.
* `BlocksHoldObject`: a byte that an update carries over the end of its block is past the
  end of that block's file, where the decoder that rebuilds the copy takes it for what
  follows, and not in the block it belongs to.
* `EarlyUpdateBlocksPost`: an update that comes earlier than the entries of its object
  keeps the POST from ever being recorded.

## 5. Proofs

`Server_proofs` proves, for all sets of requests, all numbers of threads and
connections, with and without faults (`ServerAssumption`): TypeOK, LockDiscipline,
LeakedOnlyByMiss, IteratorValid as invariants, HistoryKept and LeakFreezesTable as
action properties. The inductive invariant `IInv` adds to these four: which
connections exist (`AcceptInv`), that a handler without a request has no iterator
(`RequestInv`), and that the vector read in a recording section is still the one in
the table (`SeenInv`; it is what makes HistoryKept inductive). The steps are grouped:
the many actions that only move a handler between phases outside the sections are
shown to be one kind of quiet step, and only the others are taken one by one.

`UpdateProtocol_proofs` proves all five safety properties of the update protocol, for
all K, M, clients, updates and crashes (`UpdateAssumption`), and among them that it
implements `AbstractUpdate`. The inductive invariant `IInv` says how far the news of an
update may be: nobody but its client knows of it before it is stored (`StoredInv`); the
parity nodes that the loop of UPDATE has passed have answered and those it has not
reached know nothing (`RoundInv`); the client hears after all parity nodes and before
the master decodes (`AckInv`); who has answered has the record (`RecordInv`). For the
bytes it says that a block is torn only under its lock (`WholeInv`), what a block sent
contains (`BlockInv`), and that the decoder that collects has the lock of the copy,
made of its own blocks (`CopyInv`). DecodeYieldsItsUpdate has two exceptions: a data node
that ended before its block was sent, which leaves it "lost" or "cut" in every later state,
and a copy that could not be opened. There is one lemma per action. The refinement then
needs a step per abstract action (`WriteIsStore`, `RecordIsLog`, `ReplyIsAck`,
`RecordIsMerge`) and that all other steps leave the mapped values alone (`Stutter`).

`Placement_proofs` proves all five properties of `Placement`, for all K, all block
sizes, all rings, all sets of file sizes and any number of requests
(`PlacementAssumption`; it asks for a ring of at least 2K servers because the proxy's
quotient can reach 2K - 2 if K does not divide the length, and the id wraps only once:
with K = 4 and 256 servers the code is far from that). The inductive invariant `IInv`
adds to the type invariant: `TablesInv`, after the first POST each of the K + M + 1
servers has an entry with its own data_type, those of the data blocks with a K-th of
the master's length (map::insert never replaces one); `CollectInv`, the decoder works
with the length of the block; `WritesInv`, no update began before the object; `CopyInv`,
if no block is longer than it should be, the copy the decoder has made so far is a prefix
of the object. Then UpdatesReachTheirBlock follows from `TablesInv` by the
uniqueness of quotient and remainder (`TargetOfOffset`, `EntryOfTarget`);
BlocksHoldObject is kept by an update because a byte of the object that was written to the
same block is overwritten in its file exactly if it is in the object (`PlaceOfWrite`,
`WrittenPlace`); if no block is longer than Unit nothing was carried over an end, so each
byte is in its own block (`NothingSpilled`), which the copy needs; NothingLostInRounds finds for
every byte the round, the block and the place (`PlaceOfByte`). What a receiving loop
stores is nondeterministic in the model; the proofs show that it is exactly a block
in these cases (`OneRound`, `Rounds`).

`Reconstruct_proofs` proves TypeOK, LostBlockStaysLost and SendsForEver for all numbers
of blocks, requests, losses, sizes and widths of integers (`ReconstructAssumption`: the
buffer divides 2^32, as 32768 does, and requests are not names of locks). `IInv` adds
that an UPDATE on a data node decodes with its segment's lock held (`OwnLockInv`, the
reason why no block is ever restored), that a sender has the lock of its block while its
writes block and keeps the remainder of what is left by the buffer (`SendInv`, by
`RestKeepsRemainder`: unsigned subtraction keeps it), that a GET sends from a file that is there (`CopyInv`), and that
nobody sends before it was asked (`OrderInv`).

The second part of the module proves the other three invariants from a second inductive
invariant, `SInv`, that rests on `IInv`. The step from losses to processes is a count: with
at most M of the K + M blocks lost, K servers are ready when all have answered (`AnswerInv`,
`EnoughAreReady`), so no decoder gives up, no connection is cut, and no server ends before
the master (`UpInv`: BlockServersStayUp). A decoder that is heavy misses a data block
(`HeavyInv`, by `HeavyForData`), so with all data blocks there the master can end only by
the light-weight path's exception under a foreign lock; `GetInv` says that a GET of a whole
object decodes only because another one is sending it, which makes the two GETs of
MasterEndsByTwoGets. For SentIsSound, whoever writes the full copy has its lock (`WriteInv`)
and nobody sends a truncated one (`TruncatedInv`); what else it may be follows from what is
lost (`StateInv`).

`Front_proofs` proves the six invariants of `Front`, for all numbers of clients, all rings,
files and deployments, with any processes down, stopped or killed.
`DeploymentsAssumption` and `NamesAssumption` ask for a ring that holds the K + M + 1 servers
of an object and, as in `Placement`, 2K - 1 servers for the id of an update's block, and
that every name has a hash on the ring, which a remainder by N is. The inductive
invariant `IInv` has the types (`ShapeInv`); what a client asks for and what its phase says
of the phase of its connection (`RequestInv`, `PhaseInv`); that the proxy names the object's
server (`TargetInv`); how many bytes have been sent, received and stored (`CountInv`,
`FileInv`), and that nobody has a file of a new object before it is posted (`FreshInv`);
that each block of a posted object is on its way or recorded with the entry that this POST
describes (`PendInv`, `BlocksInv`), and each entry is of an object stored before or posted
(`RecordInv`); whose lock an early update leaves locked (`HeldInv`); why servers, the proxy
and GETs end (`UpInv`, `ProxyInv`, `FinishInv`). There is one lemma per action or branch
of it; the lemmas before them say what each part of the invariant needs of a step (`...Stays`,
`...Kept`), so that an action argues only about the parts it can disturb. The lock is what
makes it inductive that a missed entry stays missed: only who holds `table_lock` inserts,
and a lock left locked is never opened (`HeldKept`).

FinishedGetIsWhole was first stated with one cause too few. The proof failed at the
decoder that ends servers, and three clients are enough for a counterexample, where the
run has two: a GET of a file that another GET is sending decodes, does not reach one of the
block servers, and ends the master of the object and every block server that waits for its
order; a third GET, of another object whose full copy one of those servers has, is cut off
and reported as finished. The property now names that cause,
with the GET that is never answered.

`FileCodec_proofs` proves four invariants of the two programs, for every size of file and
buffer, every k, m and w, and whichever files are lost. It assumes that the parameters are
positive with k > 1 (`CasesAssumption`) and that for the codes with a bit matrix (all but
the two Reed-Solomon ones) the library makes one, each row of which is a sum of at least
one data packet (`BitmatrixAssumption`): the library makes none, or returns an error, for
parameters a code does not have, and a coding packet of nothing would protect nothing. The
proofs use nothing else about the matrix, so they hold for any code the library could be
given. TLC evaluates both assumptions for the 19 cases.

* MetaFindsEveryByte. `StartSizes` is the arithmetic of the two roundings in
  `J/encoder.cpp`: the rounds cover the file, the last one is needed, and a file that fits
  into one buffer takes one round of the whole buffer. `IInv` says which byte each place of
  each round has (`RoundsInv`) and that each file holds one part of the same length per
  round, and that as many files are left as the decoder of the code can begin with (`FilesInv`,
  `Stored`, `Fewest`). That the last file left exists is the least-number principle
  (`LastDrive`).
* PacketsEncoded. The library's matrices and schedules are those of the case from the first
  step on (`CodeInv`); the parts are then what `SmartScheduleEncodes` says, and the four ways
  to make them agree by `DumbScheduleEncodes`, `RowsEncode` and `ParityIsSum`.
* BuffersRestored and DecodedIsCodingDrive0, from `DecodeInv` and `BuffersInv`: a round reads
  the drives of the files that are left (`PacketsInFiles`), so that `DecodeRestores` applies
  whatever the buffers of the lost ones still have in them (`RoundRestores`). Coding drive 0
  comes out right even where others do not (`RoundOutcome`): the short cut, which is wrong if
  coding drive 0 is no sum, is taken only if it was read from its file. DecodedIsCodingDrive0
  adds the count of the bytes (`LengthDecoded`), and for all codes that no file is finished
  with more than m lost. For the matrix codes the two properties say no more than that; what
  their buffers hold is part of LibraryDecodes, which TLC checks.

`Jerasure_proofs` has what those rest on, for every number of drives, every packet width and
every bit matrix. `InverseIsInverse`: after the first half of the elimination the matrix is
triangular and each of its rows the sum of the original's rows that the inverse says; the
second half keeps the sums and leaves unit vectors (`TriangularInv`, `BackInv`).
`SmartScheduleEncodes`: whatever order the rows are chosen in, and whichever finished row each
one starts from, a row not in `todo` holds what the matrix says (`Partly`, `RowFromMakes`); a
row once finished is not written again. `SmartIsNoLonger` charges each row no more than its own
ones, since `diff` never exceeds them. `DecodeRestores` and `DecodeKeeps` follow the three
phases of jerasure_bitmatrix_decode: data drives from the inverse of the rows that are left,
the last one by the plain sum where that is allowed, then the coding drives.

What makes that possible is `Loops_proofs`. The library's loops are instances of `Loop`,
a recursive function; the module takes the turn and the invariant as constant operators, so
that the lemmas `LoopTurns` (one turn more) and `LoopKeeps` (the invariant after the last
turn) are proved once, from the least-number principle, and each loop uses an instance of the module with its
own turn and invariant. Sums over a set are folds, and `XorAllIs` characterises them
likewise (`SetInduct`).

Only model-checked:

* all liveness properties, which are out of the prover's reach;
* `FileCodec`'s ArithmeticAgrees and TypeOK. They are about the field GF(2^w) itself: that
  logarithms, split tables and shifts multiply alike, that the loops of doublings of the
  Reed-Solomon codes make the products of their matrix, and that all entries stay elements
  of the field. A proof needs that the primitive polynomial of each width generates the
  field, a computation for each of the 32 widths, and the run makes it for those of its
  cases;
* LibraryDecodes. That m losses can always be decoded is a fact about each code's matrix
  (every matrix of the drives that are left is invertible), which the proofs about any
  matrix cannot have. It is besides about the decoding schedules
  (jerasure_schedule_decode_lazy and the cache), which stand data drives in for coding
  drives; their order of drives is followed by TLC only.

## 6. Not modelled

* TOTAL_RECONSTRUCT (`S/encoder.cpp`, `S/connection.cpp`): a request that nothing in
  the repository sends.
* `caculate_ec_port` (`S/common.cpp:8-24`): its 35 ports and their cut to 16 bits matter
  while closed sockets are in TIME_WAIT, and no model has time.
* Several masters at once whose servers wait for each other on blocked threads: two
  pools and six connections are beyond what TLC enumerates; one process is in `Server`,
  one object's servers in `UpdateProtocol` and `Reconstruct`.
* A loss of files, or a crash, while a heavy reconstruction runs; what the
  heavy path computes, which is undefined behaviour and any outcome here.
* A peer lost in the middle of a round of the encoder (`Front` has it unreachable from
  the start).
* The asynchronous client and other functions that nothing calls; the program that
  starts clients, which is not in `src/`.
* The request handler, the connection manager and the MIME types of the HTTP sample
  the servers grew from: they print, or are not called.
* Printing and statistics of the library, its example programs, the asio samples.
* The text of headers (a message is a record), logging, TCP itself.
