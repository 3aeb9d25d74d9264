--------------------------- MODULE UpdateProtocol ---------------------------
(***************************************************************************)
(* How an update of one stored object spreads over the nodes that keep it: *)
(* the UPDATE handler on the data node it was routed to, the               *)
(* TRANSMIT_DELTA_CONTENT handlers on the parity nodes, the                *)
(* TRANSMIT_UPDATE_CONTENT handler on the master, and the light-weight     *)
(* reconstruction by which the master's decoder rebuilds the full copy     *)
(* from the data blocks (the RECONSTRUCT handlers on the other nodes).     *)
(*                                                                         *)
(* Every update has its own connections, so the pcs of its handlers are    *)
(* indexed by the update.  The object was posted and no block is missing:  *)
(* lookups hit and files exist.  The critical sections of table_lock are   *)
(* single steps (module Server shows they exclude each other); those of    *)
(* the file locks are not: a data node keeps the lock of its block during  *)
(* a write that blocks while the sockets are full and the decoder does not *)
(* read.  A decoder that cannot open the full copy, because a GET has it   *)
(* open, receives the blocks all the same (Reconstruct has the GETs).      *)
(***************************************************************************)
EXTENDS Naturals, Sequences

CONSTANTS K, M,         \* ERASURE_CODE_K data and ERASURE_CODE_M parity nodes
          Clients,
          PerClient,    \* bound: updates a client issues
          NoUpdate,     \* holder of a lock nobody holds
          MaxCrashes,   \* bound: processes that crash on their own
          Capacity,     \* the values fits may have
          GetsSendCopy  \* whether a GET may have the full copy open

Updates  == Clients \X (1 .. PerClient)
Master   == 0
Data     == 1 .. K             \* node i is the server master_node + i
Parities == K + 1 .. K + M
Others   == 1 .. K + M
Nodes    == 0 .. K + M

ASSUME UpdateAssumption ==
  /\ K \in Nat \ {0} /\ M \in Nat \ {0} /\ PerClient \in Nat \ {0} /\ MaxCrashes \in Nat
  /\ NoUpdate \notin Updates
  /\ Capacity \subseteq BOOLEAN /\ GetsSendCopy \in BOOLEAN

VARIABLES
  up,          \* the nodes whose process runs
  crashes,     \* crashes so far, see MaxCrashes
  fits,        \* whether the socket buffers of a connection hold a block nobody reads
  target,      \* the data node each update goes to; Master before it is issued
  update_pc,   \* the UPDATE handler, on target[u]
  round,        \* its loop variable i: 1 is the master, i > 1 the parity K + i - 1
  delta_pc,    \* the TRANSMIT_DELTA_CONTENT handlers, per parity node
  master_pc,   \* the TRANSMIT_UPDATE_CONTENT handler and its decoder
  recon_pc,    \* the RECONSTRUCT handlers, per data and parity node
  data_file,   \* the block on each data node
  update_log,  \* the update\obj file of each parity node
  log_end,     \* where a delta handler found the end of that file
  full_copy,   \* the master's file, block by block
  file_lock,   \* who holds the file lock of the object on master and data nodes
  block,       \* the block each RECONSTRUCT handler sends
  ec_count,    \* the decoder's loop variable: the block it receives
  history,     \* history_record of the object on each node
  client_ack   \* the updates whose client has read UPDATE_DONE

nodeVars == <<up, crashes, fits>>
targetVars == <<target, update_pc, round, client_ack>>
peerVars == <<delta_pc, master_pc, recon_pc>>
fileVars == <<data_file, update_log, log_end, full_copy, file_lock, block, ec_count>>
vars == <<up, crashes, fits, target, update_pc, round, delta_pc, master_pc, recon_pc, data_file,
          update_log, log_end, full_copy, file_lock, block, ec_count, history, client_ack>>

\* A block is the set of updates written to it; whole is FALSE while one is
\* being written, and of a block of the full copy unless all its bytes are there
\* and in their place.
Block     == [done : SUBSET Updates, whole : BOOLEAN]
Fresh     == [done |-> {}, whole |-> TRUE]
Truncated == [done |-> {}, whole |-> FALSE]
Version   == [update : Updates, clean : BOOLEAN]

\* The node the loop of UPDATE talks to in round i.
Peer(i) == IF i = 1 THEN Master ELSE K + i - 1

Init ==
  /\ up = Nodes
  /\ crashes = 0
  /\ fits \in Capacity
  /\ target = [u \in Updates |-> Master]
  /\ update_pc = [u \in Updates |-> "idle"]
  /\ round = [u \in Updates |-> 1]
  /\ delta_pc = [u \in Updates |-> [p \in Parities |-> "none"]]
  /\ master_pc = [u \in Updates |-> "none"]
  /\ recon_pc = [u \in Updates |-> [n \in Others |-> "none"]]
  /\ data_file = [d \in Data |-> Fresh]
  /\ update_log = [p \in Parities |-> <<>>]
  /\ log_end = [u \in Updates |-> [p \in Parities |-> 0]]
  /\ full_copy = [d \in Data |-> Fresh]
  /\ file_lock = [n \in {Master} \cup Data |-> NoUpdate]
  /\ block = [u \in Updates |-> [d \in Data |-> Truncated]]
  /\ ec_count = [u \in Updates |-> 1]
  /\ history = [n \in Nodes |-> <<>>]
  /\ client_ack = {}

insert_new_record(n, u, c) ==
  history' = [history EXCEPT ![n] = Append(@, [update |-> u, clean |-> c])]
-----------------------------------------------------------------------------
(***************************************************************************)
(* UPDATE, on the target node.                                             *)
(***************************************************************************)
AtUpdate(u, pc) == update_pc[u] = pc /\ target[u] \in up
UpdateGoto(u, pc) == update_pc' = [update_pc EXCEPT ![u] = pc]

\* A client issues its next update once the last one is acknowledged.  The
\* handler answers READY, receives the content and finds the object.
IssueUpdate(u, d) ==
  /\ update_pc[u] = "idle"
  /\ u[2] > 1 => <<u[1], u[2] - 1>> \in client_ack
  /\ d \in up
  /\ target' = [target EXCEPT ![u] = d]
  /\ UpdateGoto(u, "file_lock")
  /\ UNCHANGED <<nodeVars, round, client_ack, peerVars, fileVars, history>>

\* tmp_lock.lock(); update_file starts to write at real_offset.
LockSegment(u) ==
  /\ AtUpdate(u, "file_lock")
  /\ file_lock[target[u]] = NoUpdate
  /\ file_lock' = [file_lock EXCEPT ![target[u]] = u]
  /\ data_file' = [data_file EXCEPT ![target[u]].whole = FALSE]
  /\ UpdateGoto(u, "write")
  /\ UNCHANGED <<nodeVars, target, round, client_ack, peerVars, update_log, log_end,
                 full_copy, block, ec_count, history>>

\* update_file returns 1; tmp_lock.unlock().
WriteSegment(u) ==
  /\ AtUpdate(u, "write")
  /\ data_file' = [data_file EXCEPT ![target[u]] = [done |-> @.done \cup {u}, whole |-> TRUE]]
  /\ file_lock' = [file_lock EXCEPT ![target[u]] = NoUpdate]
  /\ UpdateGoto(u, "record")
  /\ UNCHANGED <<nodeVars, target, round, client_ack, peerVars, update_log, log_end,
                 full_copy, block, ec_count, history>>

RecordAtTarget(u) ==
  /\ AtUpdate(u, "record")
  /\ insert_new_record(target[u], u, TRUE)
  /\ UpdateGoto(u, "connect")
  /\ UNCHANGED <<nodeVars, target, round, client_ack, peerVars, fileVars>>

\* The head of the loop: connect to the next node and send the request header.
ConnectMaster(u) ==
  /\ AtUpdate(u, "connect") /\ round[u] = 1
  /\ Master \in up
  /\ master_pc' = [master_pc EXCEPT ![u] = "asked"]
  /\ UpdateGoto(u, "await_ready")
  /\ UNCHANGED <<nodeVars, target, round, client_ack, delta_pc, recon_pc, fileVars, history>>

ConnectParity(u) ==
  /\ AtUpdate(u, "connect") /\ round[u] > 1
  /\ Peer(round[u]) \in up
  /\ delta_pc' = [delta_pc EXCEPT ![u][Peer(round[u])] = "asked"]
  /\ UpdateGoto(u, "await_ready")
  /\ UNCHANGED <<nodeVars, target, round, client_ack, master_pc, recon_pc, fileVars, history>>

\* Mutation: enough_for_rec counts the READY of the master as well.
MasterReady_counts(u) ==
  /\ AtUpdate(u, "await_ready") /\ round[u] = 1
  /\ master_pc[u] = "await_ack"
  /\ IF round[u] >= M
       THEN UpdateGoto(u, "reply") /\ UNCHANGED round
       ELSE UpdateGoto(u, "connect") /\ round' = [round EXCEPT ![u] = 2]
  /\ UNCHANGED <<nodeVars, target, client_ack, peerVars, fileVars, history>>

\* READY arrives.  There is no content to send to the master.
MasterReady(u) ==
  /\ AtUpdate(u, "await_ready") /\ round[u] = 1
  /\ master_pc[u] = "await_ack"
  /\ round' = [round EXCEPT ![u] = 2]
  /\ UpdateGoto(u, "connect")
  /\ UNCHANGED <<nodeVars, target, client_ack, peerVars, fileVars, history>>

ParityReady(u) ==
  /\ AtUpdate(u, "await_ready") /\ round[u] > 1
  /\ delta_pc[u][Peer(round[u])] = "await_content"
  /\ delta_pc' = [delta_pc EXCEPT ![u][Peer(round[u])] = "append"]
  /\ UpdateGoto(u, "await_ack")
  /\ UNCHANGED <<nodeVars, target, round, client_ack, master_pc, recon_pc, fileVars, history>>

\* Mutation: the loop runs once too often.
ParityAcked_too_late(u) ==
  /\ AtUpdate(u, "await_ack")
  /\ delta_pc[u][Peer(round[u])] = "acked"
  /\ IF round[u] - 1 > M
       THEN UpdateGoto(u, "reply") /\ UNCHANGED round
       ELSE UpdateGoto(u, "connect") /\ round' = [round EXCEPT ![u] = @ + 1]
  /\ UNCHANGED <<nodeVars, target, client_ack, peerVars, fileVars, history>>

\* UPDATE_DONE arrives from a parity node.  enough_for_rec counts these, one per
\* parity round, so it reaches ERASURE_CODE_M in the last round.
ParityAcked(u) ==
  /\ AtUpdate(u, "await_ack")
  /\ delta_pc[u][Peer(round[u])] = "acked"
  /\ IF round[u] - 1 >= M
       THEN UpdateGoto(u, "reply") /\ UNCHANGED round
       ELSE UpdateGoto(u, "connect") /\ round' = [round EXCEPT ![u] = @ + 1]
  /\ UNCHANGED <<nodeVars, target, client_ack, peerVars, fileVars, history>>

\* The client is told first, the master second.
ReplyToClient(u) ==
  /\ AtUpdate(u, "reply")
  /\ client_ack' = client_ack \cup {u}
  /\ UpdateGoto(u, "notify")
  /\ UNCHANGED <<nodeVars, target, round, peerVars, fileVars, history>>

NotifyMaster(u) ==
  /\ AtUpdate(u, "notify")
  /\ master_pc' = IF master_pc[u] = "await_ack"
                    THEN [master_pc EXCEPT ![u] = "decode"] ELSE master_pc
  /\ UpdateGoto(u, "closed")
  /\ UNCHANGED <<nodeVars, target, round, client_ack, delta_pc, recon_pc, fileVars, history>>

\* Mutation: the exception of one peer does not keep UPDATE from replying.
AbandonUpdate_replies(u) ==
  /\ \E pc \in {"connect", "await_ready", "await_ack"} : AtUpdate(u, pc)
  /\ Peer(round[u]) \notin up
  /\ update_pc[u] = "await_ack" => delta_pc[u][Peer(round[u])] # "acked"
  /\ UpdateGoto(u, "reply")
  /\ UNCHANGED <<nodeVars, target, round, client_ack, peerVars, fileVars, history>>

\* connect or read_until throws because the peer's process is gone: the catch
\* block prints, the sockets stay open.
AbandonUpdate(u) ==
  /\ \E pc \in {"connect", "await_ready", "await_ack"} : AtUpdate(u, pc)
  /\ Peer(round[u]) \notin up
  /\ update_pc[u] = "await_ack" => delta_pc[u][Peer(round[u])] # "acked"
  /\ UpdateGoto(u, "abandoned")
  /\ UNCHANGED <<nodeVars, target, round, client_ack, peerVars, fileVars, history>>
-----------------------------------------------------------------------------
(***************************************************************************)
(* TRANSMIT_DELTA_CONTENT, on parity node p.                               *)
(***************************************************************************)
AtDelta(u, p, pc) == p \in up /\ delta_pc[u][p] = pc
DeltaGoto(u, p, pc) == delta_pc' = [delta_pc EXCEPT ![u][p] = pc]

DeltaReady(u, p) ==
  /\ AtDelta(u, p, "asked")
  /\ DeltaGoto(u, p, "await_content")
  /\ UNCHANGED <<nodeVars, targetVars, master_pc, recon_pc, fileVars, history>>

\* Appending to update\obj takes no lock.  The C library seeks to the end of the
\* file and then writes there: another handler may have written in between.
SeekLogEnd(u, p) ==
  /\ AtDelta(u, p, "append")
  /\ log_end' = [log_end EXCEPT ![u][p] = Len(update_log[p])]
  /\ DeltaGoto(u, p, "write")
  /\ UNCHANGED <<nodeVars, targetVars, master_pc, recon_pc, data_file, update_log, full_copy,
                 file_lock, block, ec_count, history>>

WriteLog(u, p) ==
  /\ AtDelta(u, p, "write")
  /\ update_log' = [update_log EXCEPT ![p] =
       IF log_end[u][p] = Len(@) THEN Append(@, u) ELSE [@ EXCEPT ![log_end[u][p] + 1] = u]]
  /\ DeltaGoto(u, p, "record")
  /\ UNCHANGED <<nodeVars, targetVars, master_pc, recon_pc, data_file, log_end, full_copy,
                 file_lock, block, ec_count, history>>

\* A dirty record, then UPDATE_DONE to the target and handle_write.
RecordDelta(u, p) ==
  /\ AtDelta(u, p, "record")
  /\ insert_new_record(p, u, FALSE)
  /\ DeltaGoto(u, p, "acked")
  /\ UNCHANGED <<nodeVars, targetVars, master_pc, recon_pc, fileVars>>
-----------------------------------------------------------------------------
(***************************************************************************)
(* TRANSMIT_UPDATE_CONTENT and decode_file at level 0, on the master.      *)
(***************************************************************************)
AtMaster(u, pc) == Master \in up /\ master_pc[u] = pc
MasterGoto(u, pc) == master_pc' = [master_pc EXCEPT ![u] = pc]

\* The object is found; READY is sent and the ultimate ack awaited.
MasterAnswers(u) ==
  /\ AtMaster(u, "asked")
  /\ MasterGoto(u, "await_ack")
  /\ UNCHANGED <<nodeVars, targetVars, delta_pc, recon_pc, fileVars, history>>

\* decode_file connects to the other nodes in order and sends RECONSTRUCT.  At a
\* node that is down connect throws, and those asked already keep waiting.
ConnectNodes(u) ==
  LET reached == {n \in Others : \A m \in 1 .. n : m \in up}
  IN  /\ AtMaster(u, "decode")
      /\ recon_pc' = [recon_pc EXCEPT ![u] =
           [n \in Others |-> IF n \in reached THEN "asked" ELSE @[n]]]
      /\ MasterGoto(u, IF reached = Others THEN "statuses" ELSE "abandoned")
      /\ UNCHANGED <<nodeVars, targetVars, delta_pc, fileVars, history>>

\* All K data nodes are READY: the answers of the parity nodes are read and they
\* are told to abort, the data nodes are told to send their blocks.  The answer of
\* a node that has ended since may still be there; the errors of these writes are
\* ignored.
OrderLightWeight(u) ==
  /\ AtMaster(u, "statuses")
  /\ \A n \in Others : recon_pc[u][n] \in {"ready", "gone"}
  /\ recon_pc' = [recon_pc EXCEPT ![u] =
       [n \in Others |-> IF n \notin Data THEN "closed" ELSE
                         IF @[n] = "ready" THEN "send" ELSE "lost"]]
  /\ MasterGoto(u, "full_lock")
  /\ UNCHANGED <<nodeVars, targetVars, delta_pc, fileVars, history>>

\* Mutation: the full copy is overwritten without its lock.
LockFullCopy_no_wait(u) ==
  /\ AtMaster(u, "full_lock")
  /\ full_copy' = [d \in Data |-> Truncated]
  /\ MasterGoto(u, "collect")
  /\ UNCHANGED <<nodeVars, targetVars, delta_pc, recon_pc, data_file, update_log, log_end,
                 file_lock, block, ec_count, history>>

\* Only now is the lock of the full copy taken and the file truncated.  The open
\* fails while a GET sends the copy, which nobody notices: what is written to the
\* stream from then on is dropped.
LockFullCopy(u) ==
  /\ AtMaster(u, "full_lock")
  /\ file_lock[Master] = NoUpdate
  /\ file_lock' = [file_lock EXCEPT ![Master] = u]
  /\ \/ full_copy' = [d \in Data |-> Truncated] /\ MasterGoto(u, "collect")
     \/ GetsSendCopy /\ UNCHANGED full_copy /\ MasterGoto(u, "discard")
  /\ UNCHANGED <<nodeVars, targetVars, delta_pc, recon_pc, data_file, update_log, log_end,
                 block, ec_count, history>>

\* The blocks are received in the order of the data nodes.
Receives(u, d) ==
  /\ AtMaster(u, "collect") \/ AtMaster(u, "discard")
  /\ ec_count[u] = d
NextBlock(u) == ec_count' = [ec_count EXCEPT ![u] = @ + 1]

\* A block is written where the last one ended: it is in its place only if those
\* before it are.
WriteToCopy(u, d, b) ==
  full_copy' = IF master_pc[u] = "collect"
                 THEN [full_copy EXCEPT ![d] =
                         [b EXCEPT !.whole = @ /\ \A e \in 1 .. d - 1 : full_copy[e].whole]]
                 ELSE full_copy

\* content_length bytes are in, whether or not the sender has closed.
CollectBlock(u, d) ==
  /\ Receives(u, d)
  /\ recon_pc[u][d] \in {"sending", "sent", "cut"}
  /\ WriteToCopy(u, d, block[u][d])
  /\ NextBlock(u)
  /\ UNCHANGED <<nodeVars, targetVars, peerVars, data_file, update_log, log_end, file_lock,
                 block, history>>

\* The sender has ended, and recv returns 0.  After a part of the block the loop is
\* left, and the bytes of the next block follow those that have come.  With no byte
\* at all the decoder first asks its own console for a number, with the lock held,
\* for as long as nobody types one.
LoseBlock(u, d) ==
  /\ Receives(u, d)
  /\ recon_pc[u][d] \in {"lost", "cut"}
  /\ WriteToCopy(u, d, Truncated)
  /\ NextBlock(u)
  /\ UNCHANGED <<nodeVars, targetVars, peerVars, data_file, update_log, log_end, file_lock,
                 block, history>>

\* Mutation: the lock of the full copy is not released.
UnlockFullCopy_keeps_it(u) ==
  /\ Receives(u, K + 1)
  /\ MasterGoto(u, "record")
  /\ UNCHANGED <<nodeVars, targetVars, delta_pc, recon_pc, fileVars, history>>

\* The loop is over: the file is closed and unlocked, decode_file returns 0.
UnlockFullCopy(u) ==
  /\ Receives(u, K + 1)
  /\ file_lock' = [file_lock EXCEPT ![Master] = NoUpdate]
  /\ MasterGoto(u, "record")
  /\ UNCHANGED <<nodeVars, targetVars, delta_pc, recon_pc, data_file, update_log, log_end,
                 full_copy, block, ec_count, history>>

RecordAtMaster(u) ==
  /\ AtMaster(u, "record")
  /\ insert_new_record(Master, u, TRUE)
  /\ MasterGoto(u, "closed")
  /\ UNCHANGED <<nodeVars, targetVars, delta_pc, recon_pc, fileVars>>

\* read_until throws while a status of a dead node is awaited.
AbandonDecode(u) ==
  /\ AtMaster(u, "statuses")
  /\ \E n \in Others : n \notin up /\ recon_pc[u][n] # "ready"
  /\ MasterGoto(u, "abandoned")
  /\ UNCHANGED <<nodeVars, targetVars, delta_pc, recon_pc, fileVars, history>>
-----------------------------------------------------------------------------
(***************************************************************************)
(* RECONSTRUCT, on data or parity node n.                                  *)
(***************************************************************************)
ReconReady(u, n) ==
  /\ n \in up
  /\ recon_pc[u][n] = "asked"
  /\ recon_pc' = [recon_pc EXCEPT ![u][n] = "ready"]
  /\ UNCHANGED <<nodeVars, targetVars, delta_pc, master_pc, fileVars, history>>

\* Mutation: the block is read without its lock.
LockBlock_no_wait(u, d) ==
  /\ d \in up
  /\ recon_pc[u][d] = "send"
  /\ block' = [block EXCEPT ![u][d] = data_file[d]]
  /\ recon_pc' = [recon_pc EXCEPT ![u][d] = "sending"]
  /\ UNCHANGED <<nodeVars, targetVars, delta_pc, master_pc, data_file, update_log, log_end,
                 full_copy, file_lock, ec_count, history>>

\* The light-weight branch: the block is read and sent under the file lock.
LockBlock(u, d) ==
  /\ d \in up
  /\ recon_pc[u][d] = "send"
  /\ file_lock[d] = NoUpdate
  /\ file_lock' = [file_lock EXCEPT ![d] = u]
  /\ block' = [block EXCEPT ![u][d] = data_file[d]]
  /\ recon_pc' = [recon_pc EXCEPT ![u][d] = "sending"]
  /\ UNCHANGED <<nodeVars, targetVars, delta_pc, master_pc, data_file, update_log, log_end,
                 full_copy, ec_count, history>>

\* The last write returns: the sockets hold the rest, or the decoder has come to
\* this block and takes it, or it is gone and the error is ignored.
UnlockBlock(u, d) ==
  /\ d \in up
  /\ recon_pc[u][d] = "sending"
  /\ fits \/ Receives(u, d) \/ ec_count[u] > d \/ Master \notin up
  /\ file_lock' = [file_lock EXCEPT ![d] = NoUpdate]
  /\ recon_pc' = [recon_pc EXCEPT ![u][d] = "sent"]
  /\ UNCHANGED <<nodeVars, targetVars, delta_pc, master_pc, data_file, update_log, log_end,
                 full_copy, block, ec_count, history>>
-----------------------------------------------------------------------------
(***************************************************************************)
(* A process ends: its handlers are gone, the system releases its file     *)
(* locks, its table is lost, its files stay.  What it had sent stays sent, *)
(* which may be a part of a block or the answer READY.                     *)
(***************************************************************************)
Remains(pc) == CASE pc \in {"none", "sent", "closed"} -> pc
                 [] pc = "ready"   -> "gone"
                 [] pc = "sending" -> "cut"
                 [] OTHER          -> "lost"

Ends(n) ==
  /\ up' = up \ {n}
  /\ update_pc' = [u \in Updates |->
       IF target[u] = n /\ update_pc[u] \notin {"idle", "closed"} THEN "lost" ELSE update_pc[u]]
  /\ delta_pc' = [u \in Updates |-> [p \in Parities |->
       IF p = n /\ delta_pc[u][p] \notin {"none", "acked"} THEN "lost" ELSE delta_pc[u][p]]]
  /\ master_pc' = [u \in Updates |->
       IF n = Master /\ master_pc[u] \notin {"none", "closed"} THEN "lost" ELSE master_pc[u]]
  /\ recon_pc' = [u \in Updates |-> [m \in Others |->
       IF m = n THEN Remains(recon_pc[u][m]) ELSE recon_pc[u][m]]]
  /\ file_lock' = [m \in {Master} \cup Data |-> IF m = n THEN NoUpdate ELSE file_lock[m]]
  /\ history' = [history EXCEPT ![n] = <<>>]
  /\ UNCHANGED <<target, round, client_ack, data_file, update_log, log_end, full_copy,
                 block, ec_count>>

Crash(n) ==
  /\ n \in up
  /\ crashes < MaxCrashes
  /\ crashes' = crashes + 1
  /\ UNCHANGED fits
  /\ Ends(n)

\* A blocking read outside every try block finds its peer gone, and the exception
\* ends this process too: a parity node that awaits content, the master that
\* awaits the ultimate ack, any node that awaits the master's instruction; or
\* the decoder adds recv's -1 to its unsigned counter and writes off its buffer.
DiesWithPeer(n) ==
  /\ n \in up
  /\ \E u \in Updates :
       \/ n \in Parities /\ delta_pc[u][n] = "await_content" /\ target[u] \notin up
       \/ n = Master /\ master_pc[u] = "await_ack" /\ target[u] \notin up
       \/ n \in Others /\ recon_pc[u][n] = "ready" /\ Master \notin up
       \/ n = Master /\ master_pc[u] = "collect"
            /\ \E d \in Data : ec_count[u] = d /\ recon_pc[u][d] \in {"lost", "cut"}
  /\ UNCHANGED <<crashes, fits>>
  /\ Ends(n)

UpdateStep(u) ==
  \/ LockSegment(u) \/ WriteSegment(u) \/ RecordAtTarget(u) \/ ConnectMaster(u)
  \/ ConnectParity(u) \/ MasterReady(u) \/ ParityReady(u) \/ ParityAcked(u)
  \/ ReplyToClient(u) \/ NotifyMaster(u)

DeltaStep(u, p) == DeltaReady(u, p) \/ SeekLogEnd(u, p) \/ WriteLog(u, p) \/ RecordDelta(u, p)

MasterStep(u) ==
  \/ MasterAnswers(u) \/ ConnectNodes(u) \/ OrderLightWeight(u) \/ LockFullCopy(u)
  \/ UnlockFullCopy(u) \/ RecordAtMaster(u)
  \/ \E d \in Data : CollectBlock(u, d)

ReconStep(u, n) == ReconReady(u, n) \/ (n \in Data /\ (LockBlock(u, n) \/ UnlockBlock(u, n)))

PeerFault(u) == AbandonUpdate(u) \/ AbandonDecode(u) \/ \E d \in Data : LoseBlock(u, d)

Next ==
  \/ \E u \in Updates :
       \/ \E d \in Data : IssueUpdate(u, d)
       \/ UpdateStep(u)
       \/ \E p \in Parities : DeltaStep(u, p)
       \/ MasterStep(u)
       \/ \E n \in Others : ReconStep(u, n)
       \/ PeerFault(u)
  \/ \E n \in Nodes : Crash(n) \/ DiesWithPeer(n)

Spec == Init /\ [][Next]_vars

\* Every handler has a thread of its own, which runs unless it waits for a peer or
\* a lock; a file lock released again and again is obtained.  Clients need not
\* issue updates and processes need not crash.
Fairness ==
  \A u \in Updates :
    /\ SF_vars(UpdateStep(u))
    /\ SF_vars(MasterStep(u))
    /\ \A p \in Parities : WF_vars(DeltaStep(u, p))
    /\ \A n \in Others : SF_vars(ReconStep(u, n))

FairSpec == Spec /\ Fairness

-----------------------------------------------------------------------------
(***************************************************************************)
(* Properties.                                                             *)
(***************************************************************************)
UpdatePhases == {"idle", "file_lock", "write", "record", "connect", "await_ready", "await_ack",
                 "reply", "notify", "closed", "abandoned", "lost"}
DeltaPhases  == {"none", "asked", "await_content", "append", "write", "record", "acked", "lost"}
MasterPhases == {"none", "asked", "await_ack", "decode", "statuses", "full_lock", "collect",
                 "discard", "record", "closed", "abandoned", "lost"}
ReconPhases  == {"none", "asked", "ready", "send", "sending", "sent", "closed", "gone", "cut",
                 "lost"}

TypeOK ==
  /\ up \subseteq Nodes
  /\ crashes \in 0 .. MaxCrashes
  /\ fits \in BOOLEAN
  /\ target \in [Updates -> Data \cup {Master}]
  /\ update_pc \in [Updates -> UpdatePhases]
  /\ round \in [Updates -> 1 .. M + 1]
  /\ delta_pc \in [Updates -> [Parities -> DeltaPhases]]
  /\ master_pc \in [Updates -> MasterPhases]
  /\ recon_pc \in [Updates -> [Others -> ReconPhases]]
  /\ data_file \in [Data -> Block]
  /\ update_log \in [Parities -> Seq(Updates)]
  /\ log_end \in [Updates -> [Parities -> Nat]]
  /\ full_copy \in [Data -> Block]
  /\ file_lock \in [{Master} \cup Data -> Updates \cup {NoUpdate}]
  /\ block \in [Updates -> [Data -> Block]]
  /\ ec_count \in [Updates -> 1 .. K + 1]
  /\ history \in [Nodes -> Seq(Version)]
  /\ client_ack \subseteq Updates

Recorded(n, u, c) == \E i \in DOMAIN history[n] : history[n][i] = [update |-> u, clean |-> c]

\* An update whose client was told UPDATE_DONE (connection.cpp:316) is in the block
\* of its data node, and every parity node that still runs has its record.
AckedIsDurable ==
  \A u \in client_ack :
    /\ u \in data_file[target[u]].done
    /\ \A p \in Parities \cap up : Recorded(p, u, FALSE)

\* The node of one of the blocks ended before or while it sent it.
SenderEnded(u) == \E d \in Data : recon_pc[u][d] \in {"lost", "cut"}

\* The decoding that an update triggers (connection.cpp:452) rebuilds a full copy
\* of whole blocks that contains that update, whatever other updates and
\* decodings run at the same time, unless a data node ended before its block was
\* sent or the copy could not be opened: in both cases decode_file also returns 0
\* (decoder.cpp:286, 299, 304, 327) and a clean version is recorded.
DecodeYieldsItsUpdate ==
  [][\A u \in Updates :
       (master_pc[u] \in {"collect", "discard"} /\ master_pc'[u] = "record")
         => \/ /\ u \in full_copy[target[u]].done
               /\ \A d \in Data : full_copy[d].whole
            \/ SenderEnded(u)
            \/ master_pc[u] = "discard"]_vars

\* A block that a data node sends was not half written (connection.cpp:160, 796).
NoTornBlock ==
  \A u \in Updates, d \in Data :
    recon_pc[u][d] \in {"sending", "sent", "cut"} => block[u][d].whole

\* The protocol implements its abstract specification.
Abstract == INSTANCE AbstractUpdate WITH
  stored <- UNION {data_file[d].done : d \in Data},
  logged <- [u \in Updates |-> {p \in Parities : delta_pc[u][p] = "acked"}],
  acked  <- client_ack,
  merged <- {u \in Updates : master_pc[u] = "closed"}
ImplementsAbstract == Abstract!Spec

\* Two decodings wait for each other: v has the lock of the full copy and receives
\* block d, whose sender waits for the lock of the block; the sender of w has that
\* lock and writes into full sockets, which w does not read before it has the lock
\* of the full copy (decoder.cpp:285, 297, connection.cpp:796).
CrossWait ==
  /\ ~ fits
  /\ \E v, w \in Updates, d \in Data :
       /\ Receives(v, d) /\ recon_pc[v][d] = "send"
       /\ AtMaster(w, "full_lock") /\ file_lock[d] = w

\* Without crashes every update issued is acknowledged, and every acknowledged
\* update gets its clean record at the master, unless two decodings of blocks
\* larger than the socket buffers wait for each other.
EveryUpdateCompletes ==
  \A u \in Updates : update_pc[u] = "file_lock" ~>
    \/ Recorded(Master, u, TRUE) /\ u \in client_ack
    \/ CrossWait

\* decoder.cpp:254-256 "It means the K data node is normal, light weight reconstruction
\* could be executed, and it's totally ok to happen entirely in this for-loop": a
\* decoding whose K data nodes all answered, and run on, ends.
LightWeightCompletes ==
  \A u \in Updates : master_pc[u] = "full_lock" ~> master_pc[u] = "closed"

\* connection.cpp:457-459 "Decoding went smoothly and now insert the newest
\* versoin", "All things went well": a version the master has recorded is in its
\* full copy, when nobody is writing it.
RecordedIsInFullCopy ==
  file_lock[Master] = NoUpdate =>
    \A u \in Updates : Recorded(Master, u, TRUE) => u \in full_copy[target[u]].done

\* connection.cpp:415-416: client_id and timestamp identify the newest version,
\* because a client launches its next update after the last one is confirmed.  So
\* a client's versions stand in the master's history in the order of its updates.
MasterHistoryInOrder ==
  \A i, j \in DOMAIN history[Master] :
    LET u == history[Master][i].update
        v == history[Master][j].update
    IN  (i < j /\ u[1] = v[1]) => u[2] < v[2]

\* connection.cpp:366 "no lock is needed, cause this could imitate the logging
\* update of parity node": the delta of an acknowledged update is in the log.
AckedIsLogged ==
  \A u \in client_ack, p \in Parities : \E i \in DOMAIN update_log[p] : update_log[p][i] = u
=============================================================================
