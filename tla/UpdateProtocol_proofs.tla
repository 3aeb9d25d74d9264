------------------------ MODULE UpdateProtocol_proofs ------------------------
(***************************************************************************)
(* Proofs about UpdateProtocol, for all numbers of nodes, clients, updates *)
(* and crashes.                                                            *)
(***************************************************************************)
EXTENDS UpdateProtocol, SequenceTheorems, TLAPS

\* An update that has been issued went to a data node, and the client had been told
\* that its last one was done.
IssuedInv ==
  \A u \in Updates : update_pc[u] # "idle" =>
    /\ target[u] \in Data
    /\ u[2] > 1 => <<u[1], u[2] - 1>> \in client_ack

\* The update is in the block of its data node.
Stored(u) == update_pc[u] # "idle" /\ u \in data_file[target[u]].done

\* Nobody but the client hears of an update before it is stored.
StoredInv ==
  \A u \in Updates :
    /\ update_pc[u] \notin {"idle", "file_lock", "write", "lost"} => Stored(u)
    /\ u \in client_ack \/ master_pc[u] # "none" => Stored(u)
    /\ \A p \in Parities : delta_pc[u][p] # "none" => Stored(u)
    /\ \A n \in Others : recon_pc[u][n] # "none" => Stored(u)

\* The parity nodes that the loop of UPDATE has passed have the update; those it has
\* not reached, and the master before round 1, know nothing of it.
RoundInv ==
  \A u \in Updates :
    /\ update_pc[u] \in {"idle", "file_lock", "write", "record"} =>
         /\ round[u] = 1
         /\ \A p \in Parities : delta_pc[u][p] = "none"
    /\ update_pc[u] \in {"connect", "await_ready", "await_ack"} =>
         \A p \in Parities :
           /\ p < K + round[u] - 1 => delta_pc[u][p] = "acked"
           /\ p > K + round[u] - 1 => delta_pc[u][p] = "none"
    /\ update_pc[u] = "connect" =>
         \A p \in Parities : p = K + round[u] - 1 => delta_pc[u][p] = "none"
    /\ update_pc[u] = "await_ack" => round[u] > 1
    /\ update_pc[u] \in {"reply", "notify", "closed"} =>
         \A p \in Parities : delta_pc[u][p] = "acked"

\* The client is told before the master decodes, and after all parity nodes have answered.
AckInv ==
  \A u \in Updates :
    /\ u \in client_ack =>
         /\ update_pc[u] \in {"notify", "closed", "lost"}
         /\ \A p \in Parities : delta_pc[u][p] = "acked"
    /\ update_pc[u] = "notify" => u \in client_ack
    /\ master_pc[u] \in {"decode", "statuses", "full_lock", "collect", "discard", "record",
                       "closed"} => u \in client_ack
    /\ update_pc[u] \in {"idle", "file_lock", "write", "record"} => master_pc[u] = "none"
    /\ update_pc[u] = "connect" /\ round[u] = 1 => master_pc[u] = "none"

\* A parity node that has answered, and has not crashed, has the record.
RecordInv ==
  \A u \in Updates, p \in Parities \cap up : delta_pc[u][p] = "acked" => Recorded(p, u, FALSE)

\* A block is half written only while its lock is held.
WholeInv == \A d \in Data \cap up : file_lock[d] = NoUpdate => data_file[d].whole

\* Who has the lock of a block: the update that writes it, or the decoding whose
\* handler sends it; a block that is being sent is not being written.
LockInv ==
  \A u \in Updates :
    /\ update_pc[u] = "write" => file_lock[target[u]] = u
    /\ \A n \in Others : recon_pc[u][n] # "none" => u \in client_ack
    /\ \A d \in Data : recon_pc[u][d] = "sending" => file_lock[d] = u /\ data_file[d].whole

\* What a data node sends is whole and has the update it was asked for.
BlockInv ==
  \A u \in Updates, d \in Data : recon_pc[u][d] \in {"sending", "sent", "cut"} =>
    block[u][d].whole /\ (target[u] = d => u \in block[u][d].done)

\* The decoder that receives has the lock of the full copy.  Its blocks are those the
\* data nodes sent, as long as none of them has ended.
CopyInv ==
  \A u \in Updates :
    /\ master_pc[u] \in {"none", "asked", "await_ack", "decode", "statuses", "full_lock"} =>
         ec_count[u] = 1
    /\ AtMaster(u, "collect") \/ AtMaster(u, "discard") => file_lock[Master] = u
    /\ AtMaster(u, "collect") =>
         \/ SenderEnded(u)
         \/ \A d \in Data : d < ec_count[u] =>
              recon_pc[u][d] \in {"sending", "sent"} /\ full_copy[d] = block[u][d]

\* The inductive invariant.
IInv ==
  /\ TypeOK /\ IssuedInv /\ StoredInv /\ RoundInv /\ AckInv /\ RecordInv /\ WholeInv
  /\ LockInv /\ BlockInv /\ CopyInv

-----------------------------------------------------------------------------
(* Every step keeps the invariant *)

\* How the sets of nodes lie, and that nobody is not an update.
LEMMA Places ==
  /\ K \in Nat \ {0} /\ M \in Nat \ {0}
  /\ Others \subseteq Nat /\ Data \subseteq Others /\ Parities \subseteq Others
  /\ Data \cap Parities = {} /\ Master \notin Others
  /\ Nodes = {Master} \cup Others
  /\ \A p \in Parities : p > K
  /\ NoUpdate \notin Updates
BY UpdateAssumption DEF Data, Parities, Others, Nodes, Master

\* An object that was just posted satisfies the invariant.
LEMMA InitIInv == Init => IInv
<1> SUFFICES ASSUME Init PROVE IInv
  OBVIOUS
<1>1. TypeOK
  BY Places, UpdateAssumption DEF Init, TypeOK, Block, Fresh, Truncated, UpdatePhases, DeltaPhases,
     MasterPhases, ReconPhases
<1>2. IssuedInv /\ StoredInv /\ RoundInv /\ AckInv /\ RecordInv
  BY Places DEF Init, IssuedInv, StoredInv, RoundInv, AckInv, RecordInv
<1>3. WholeInv /\ LockInv /\ BlockInv /\ CopyInv
  BY Places DEF Init, WholeInv, LockInv, BlockInv, CopyInv, Fresh, AtMaster
<1> QED BY <1>1, <1>2, <1>3 DEF IInv

\* What is in the histories when nothing is recorded, and when something is.
LEMMA SameHistory ==
  ASSUME history' = history
  PROVE  \A n \in Nodes, u \in Updates, c \in BOOLEAN : Recorded(n, u, c) => Recorded(n, u, c)'
BY DEF Recorded

LEMMA LongerHistory ==
  ASSUME history \in [Nodes -> Seq(Version)], NEW n \in Nodes, NEW u \in Updates,
         NEW c \in BOOLEAN, insert_new_record(n, u, c)
  PROVE  /\ history' \in [Nodes -> Seq(Version)]
         /\ Recorded(n, u, c)'
         /\ \A m \in Nodes, v \in Updates, b \in BOOLEAN : Recorded(m, v, b) => Recorded(m, v, b)'
<1> DEFINE e == [update |-> u, clean |-> c]
<1>1. history' = [history EXCEPT ![n] = Append(history[n], e)]
  BY DEF insert_new_record
<1>2. e \in Version /\ history[n] \in Seq(Version)
  BY DEF Version
<1>3. /\ Append(history[n], e) \in Seq(Version)
      /\ Len(Append(history[n], e)) = Len(history[n]) + 1
      /\ \A i \in 1..Len(history[n]) : Append(history[n], e)[i] = history[n][i]
      /\ Append(history[n], e)[Len(history[n]) + 1] = e
  BY <1>2, AppendProperties
<1>4. history' \in [Nodes -> Seq(Version)]
  BY <1>1, <1>3
<1>5. Recorded(n, u, c)'
  BY <1>1, <1>2, <1>3, LenProperties DEF Recorded
<1>6. \A m \in Nodes, v \in Updates, b \in BOOLEAN : Recorded(m, v, b) => Recorded(m, v, b)'
  <2> SUFFICES ASSUME NEW m \in Nodes, NEW v \in Updates, NEW b \in BOOLEAN, Recorded(m, v, b)
               PROVE  Recorded(m, v, b)'
    OBVIOUS
  <2>1. CASE m # n
    BY <1>1, <2>1 DEF Recorded
  <2>2. CASE m = n
    <3>1. PICK i \in DOMAIN history[n] : history[n][i] = [update |-> v, clean |-> b]
      BY <2>2 DEF Recorded
    <3>2. i \in 1..Len(history[n]) /\ history'[n] = Append(history[n], e)
      BY <1>1, <1>2, <3>1, LenProperties
    <3>3. i \in DOMAIN history'[n]
      BY <1>2, <1>3, <3>2, LenProperties
    <3>4. history'[n][i] = [update |-> v, clean |-> b]
      BY <1>3, <3>1, <3>2
    <3> QED BY <2>2, <3>3, <3>4 DEF Recorded
  <2> QED BY <2>1, <2>2
<1> QED BY <1>4, <1>5, <1>6

\* A step that no decoder takes keeps what is known of the copy, if the senders keep
\* what they have sent.
LEMMA CopyKept ==
  ASSUME CopyInv,
         UNCHANGED <<ec_count, full_copy, block>>, up' \subseteq up,
         file_lock'[Master] = file_lock[Master],
         \A v \in Updates :
           /\ master_pc'[v] \in {"collect", "discard"} => master_pc[v] = master_pc'[v]
           /\ master_pc'[v] \in {"none", "asked", "await_ack", "decode", "statuses", "full_lock"} =>
                master_pc[v] \in {"none", "asked", "await_ack", "decode", "statuses", "full_lock"},
         \A v \in Updates : SenderEnded(v) => SenderEnded(v)',
         \A v \in Updates, d \in Data : recon_pc[v][d] \in {"sending", "sent"} =>
           recon_pc'[v][d] \in {"sending", "sent"}
  PROVE  CopyInv'
BY DEF CopyInv, AtMaster

\* IssueUpdate keeps the invariant (connection.cpp:124-157).
LEMMA IssueUpdateKeeps ==
  ASSUME IInv, NEW u \in Updates, NEW d \in Data, IssueUpdate(u, d)
  PROVE  IInv'
<1>1. TypeOK'
  BY Places DEF IInv, TypeOK, UpdatePhases, IssueUpdate, UpdateGoto, nodeVars, peerVars, fileVars
<1>2. IssuedInv'
  BY Places DEF IInv, IssuedInv, TypeOK, IssueUpdate, UpdateGoto, nodeVars, peerVars, fileVars
<1>3. StoredInv'
  BY Places DEF IInv, StoredInv, Stored, TypeOK, IssueUpdate, UpdateGoto, nodeVars, peerVars,
     fileVars
<1>4. RoundInv'
  BY Places DEF IInv, RoundInv, TypeOK, IssueUpdate, UpdateGoto, nodeVars, peerVars, fileVars
<1>5. AckInv'
  BY Places DEF IInv, AckInv, TypeOK, IssueUpdate, UpdateGoto, nodeVars, peerVars, fileVars
<1>6. BlockInv'
  BY Places DEF IInv, BlockInv, StoredInv, Stored, TypeOK, IssueUpdate, UpdateGoto, nodeVars,
     peerVars, fileVars
<1>7. RecordInv' /\ WholeInv' /\ CopyInv'
  BY DEF IInv, RecordInv, WholeInv, CopyInv, SenderEnded, Recorded, AtMaster, IssueUpdate, nodeVars, peerVars,
     fileVars
<1>L. LockInv'
  BY Places DEF IInv, LockInv, TypeOK, IssueUpdate, UpdateGoto, nodeVars, peerVars, fileVars
<1> QED BY <1>L, <1>1, <1>2, <1>3, <1>4, <1>5, <1>6, <1>7 DEF IInv

\* LockSegment keeps the invariant (connection.cpp:158-167).
LEMMA LockSegmentKeeps ==
  ASSUME IInv, NEW u \in Updates, LockSegment(u)
  PROVE  IInv'
<1>a. target[u] \in Data /\ target[u] # Master
  BY Places DEF IInv, IssuedInv, LockSegment, AtUpdate
<1>b. data_file' \in [Data -> Block]
  <2>1. data_file[target[u]] \in Block
    BY <1>a DEF IInv, TypeOK
  <2>2. [data_file[target[u]] EXCEPT !.whole = FALSE] \in Block
    BY <2>1 DEF Block
  <2> QED BY <1>a, <2>2 DEF IInv, TypeOK, LockSegment
<1>1. TypeOK'
  BY <1>a, <1>b, Places DEF IInv, TypeOK, UpdatePhases, LockSegment, UpdateGoto, AtUpdate,
     nodeVars, peerVars
<1>2. IssuedInv'
  BY Places DEF IInv, IssuedInv, TypeOK, LockSegment, UpdateGoto, AtUpdate, nodeVars, peerVars
<1>3. StoredInv'
  BY Places, SMTT(60) DEF IInv, StoredInv, Stored, TypeOK, LockSegment, UpdateGoto, AtUpdate, nodeVars,
     peerVars
<1>4. RoundInv'
  BY Places DEF IInv, RoundInv, TypeOK, LockSegment, UpdateGoto, AtUpdate, nodeVars, peerVars
<1>5. AckInv'
  BY Places DEF IInv, AckInv, TypeOK, LockSegment, UpdateGoto, AtUpdate, nodeVars, peerVars
<1>6. WholeInv'
  BY Places DEF IInv, WholeInv, TypeOK, LockSegment, UpdateGoto, AtUpdate, nodeVars, peerVars
<1>7. CopyInv'
  <2>1. file_lock'[Master] = file_lock[Master]
    BY <1>a DEF IInv, TypeOK, LockSegment
  <2>2. UNCHANGED <<up, master_pc, recon_pc, ec_count, full_copy, block>>
    BY DEF LockSegment, nodeVars, peerVars
  <2> QED BY <2>1, <2>2, CopyKept DEF IInv, SenderEnded
<1>8. RecordInv' /\ BlockInv'
  BY DEF IInv, RecordInv, BlockInv, Recorded, LockSegment, nodeVars, peerVars
<1>L. LockInv'
  BY Places DEF IInv, LockInv, TypeOK, LockSegment, UpdateGoto, AtUpdate, nodeVars, peerVars
<1> QED BY <1>L, <1>1, <1>2, <1>3, <1>4, <1>5, <1>6, <1>7, <1>8 DEF IInv

\* WriteSegment keeps the invariant (common.cpp:126-142).
LEMMA WriteSegmentKeeps ==
  ASSUME IInv, NEW u \in Updates, WriteSegment(u)
  PROVE  IInv'
<1>a. target[u] \in Data /\ target[u] # Master
  BY Places DEF IInv, IssuedInv, WriteSegment, AtUpdate
<1>b. /\ u \in data_file'[target[u]].done
      /\ \A d \in Data : data_file[d].done \subseteq data_file'[d].done
  BY <1>a DEF IInv, TypeOK, Block, WriteSegment
<1>1. TypeOK'
  BY <1>a, Places, ZenonT(60) DEF IInv, TypeOK, UpdatePhases, Block, WriteSegment, UpdateGoto, AtUpdate,
     nodeVars, peerVars
<1>2. IssuedInv'
  BY Places DEF IInv, IssuedInv, TypeOK, WriteSegment, UpdateGoto, AtUpdate, nodeVars, peerVars
<1>3. StoredInv'
  <2>1. \A v \in Updates : Stored(v) => Stored(v)'
    BY <1>b DEF IInv, IssuedInv, TypeOK, Stored, WriteSegment, UpdateGoto, AtUpdate
  <2>2. Stored(u)'
    BY <1>b DEF IInv, TypeOK, Stored, WriteSegment, UpdateGoto
  <2>3. /\ \A v \in Updates \ {u} : update_pc'[v] = update_pc[v]
        /\ UNCHANGED <<client_ack, master_pc, delta_pc, recon_pc>>
    BY DEF IInv, TypeOK, WriteSegment, UpdateGoto, peerVars
  <2> QED BY <2>1, <2>2, <2>3 DEF IInv, StoredInv
<1>4. RoundInv'
  BY Places DEF IInv, RoundInv, TypeOK, WriteSegment, UpdateGoto, AtUpdate, nodeVars, peerVars
<1>5. AckInv'
  BY Places DEF IInv, AckInv, TypeOK, WriteSegment, UpdateGoto, AtUpdate, nodeVars, peerVars
<1>6. WholeInv'
  BY Places DEF IInv, WholeInv, TypeOK, WriteSegment, UpdateGoto, AtUpdate, nodeVars, peerVars
<1>7. CopyInv'
  BY <1>a, Places DEF IInv, CopyInv, SenderEnded, AtMaster, TypeOK, WriteSegment, UpdateGoto, AtUpdate,
     nodeVars, peerVars
<1>8. RecordInv' /\ BlockInv'
  BY DEF IInv, RecordInv, BlockInv, Recorded, WriteSegment, nodeVars, peerVars
<1>L. LockInv'
  <2>1. /\ update_pc[u] = "write" /\ file_lock[target[u]] = u /\ u \notin client_ack
        /\ \A d \in Data \ {target[u]} :
             file_lock'[d] = file_lock[d] /\ data_file'[d] = data_file[d]
    <3>1. update_pc[u] = "write"
      BY DEF WriteSegment, AtUpdate
    <3>2. file_lock[target[u]] = u /\ u \notin client_ack
      BY <3>1 DEF IInv, LockInv, AckInv
    <3>3. \A d \in Data \ {target[u]} :
            file_lock'[d] = file_lock[d] /\ data_file'[d] = data_file[d]
      BY DEF IInv, TypeOK, WriteSegment
    <3> QED BY <3>1, <3>2, <3>3
  <2>2. UNCHANGED <<target, client_ack, recon_pc>> /\ update_pc'[u] # "write"
    BY DEF IInv, TypeOK, WriteSegment, UpdateGoto, peerVars
  <2>3. ASSUME NEW v \in Updates, update_pc'[v] = "write" PROVE file_lock'[target[v]] = v
    <3>1. v # u /\ update_pc[v] = "write" /\ target[v] \in Data
      BY <2>2, <2>3 DEF IInv, TypeOK, IssuedInv, WriteSegment, UpdateGoto
    <3> QED BY <2>1, <3>1 DEF IInv, LockInv
  <2>4. ASSUME NEW v \in Updates, NEW d \in Data, recon_pc[v][d] = "sending"
        PROVE  file_lock'[d] = v /\ data_file'[d].whole
    <3>1. file_lock[d] = v /\ data_file[d].whole /\ v \in client_ack
      BY <2>4, Places DEF IInv, LockInv
    <3> QED BY <2>1, <3>1
  <2> QED BY <2>2, <2>3, <2>4 DEF IInv, LockInv
<1> QED BY <1>L, <1>1, <1>2, <1>3, <1>4, <1>5, <1>6, <1>7, <1>8 DEF IInv

\* RecordAtTarget keeps the invariant (connection.cpp:168-187).
LEMMA RecordAtTargetKeeps ==
  ASSUME IInv, NEW u \in Updates, RecordAtTarget(u)
  PROVE  IInv'
<1>c. /\ history' \in [Nodes -> Seq(Version)]
      /\ Recorded(target[u], u, TRUE)'
      /\ \A m \in Nodes, v \in Updates, c \in BOOLEAN : Recorded(m, v, c) => Recorded(m, v, c)'
  BY Places, LongerHistory DEF IInv, TypeOK, IssuedInv, RecordAtTarget, AtUpdate
<1>1. TypeOK'
  BY Places, <1>c DEF IInv, TypeOK, UpdatePhases, RecordAtTarget, UpdateGoto, AtUpdate, nodeVars,
     peerVars, fileVars
<1>2. IssuedInv'
  BY Places DEF IInv, IssuedInv, TypeOK, RecordAtTarget, UpdateGoto, insert_new_record, AtUpdate,
     nodeVars, peerVars, fileVars
<1>3. StoredInv'
  BY Places DEF IInv, StoredInv, Stored, TypeOK, RecordAtTarget, UpdateGoto, insert_new_record,
     AtUpdate, nodeVars, peerVars, fileVars
<1>4. RoundInv'
  BY Places, SMTT(60) DEF IInv, RoundInv, TypeOK, RecordAtTarget, UpdateGoto, insert_new_record, AtUpdate,
     nodeVars, peerVars, fileVars
<1>5. AckInv'
  BY Places DEF IInv, AckInv, TypeOK, RecordAtTarget, UpdateGoto, insert_new_record, AtUpdate,
     nodeVars, peerVars, fileVars
<1>6. RecordInv'
  BY <1>c, Places DEF IInv, RecordInv, TypeOK, RecordAtTarget, UpdateGoto, AtUpdate, nodeVars,
     peerVars, fileVars
<1>7. WholeInv' /\ BlockInv' /\ CopyInv'
  BY DEF IInv, WholeInv, BlockInv, CopyInv, SenderEnded, AtMaster, RecordAtTarget, nodeVars, peerVars, fileVars
<1>L. LockInv'
  BY Places DEF IInv, LockInv, TypeOK, RecordAtTarget, UpdateGoto, insert_new_record, AtUpdate,
     nodeVars, peerVars, fileVars
<1> QED BY <1>L, <1>1, <1>2, <1>3, <1>4, <1>5, <1>6, <1>7 DEF IInv

\* ConnectMaster keeps the invariant (connection.cpp:194-234).
LEMMA ConnectMasterKeeps ==
  ASSUME IInv, NEW u \in Updates, ConnectMaster(u)
  PROVE  IInv'
<1>1. TypeOK'
  BY Places DEF IInv, TypeOK, UpdatePhases, MasterPhases, ConnectMaster, UpdateGoto, AtUpdate,
     nodeVars, fileVars
<1>2. IssuedInv'
  BY Places DEF IInv, IssuedInv, TypeOK, ConnectMaster, UpdateGoto, AtUpdate, nodeVars, fileVars
<1>3. StoredInv'
  BY Places DEF IInv, StoredInv, Stored, TypeOK, ConnectMaster, UpdateGoto, AtUpdate, nodeVars,
     fileVars
<1>4. RoundInv'
  BY Places DEF IInv, RoundInv, TypeOK, ConnectMaster, UpdateGoto, AtUpdate, nodeVars, fileVars
<1>5. AckInv'
  BY Places DEF IInv, AckInv, TypeOK, ConnectMaster, UpdateGoto, AtUpdate, nodeVars, fileVars
<1>6. CopyInv'
  <2>1. \A v \in Updates : master_pc'[v] = IF v = u THEN "asked" ELSE master_pc[v]
    BY DEF IInv, TypeOK, ConnectMaster
  <2>2. master_pc[u] = "none" /\ UNCHANGED <<up, recon_pc, ec_count, full_copy, block, file_lock>>
    BY DEF IInv, AckInv, ConnectMaster, AtUpdate, nodeVars, fileVars
  <2> QED BY <2>1, <2>2, CopyKept DEF IInv, SenderEnded
<1>7. RecordInv' /\ WholeInv' /\ BlockInv'
  BY DEF IInv, RecordInv, WholeInv, BlockInv, Recorded, ConnectMaster, nodeVars, fileVars
<1>L. LockInv'
  BY Places DEF IInv, LockInv, TypeOK, ConnectMaster, UpdateGoto, AtUpdate, nodeVars, fileVars
<1> QED BY <1>L, <1>1, <1>2, <1>3, <1>4, <1>5, <1>6, <1>7 DEF IInv

\* ConnectParity keeps the invariant (connection.cpp:235-249).
LEMMA ConnectParityKeeps ==
  ASSUME IInv, NEW u \in Updates, ConnectParity(u)
  PROVE  IInv'
<1>1. TypeOK'
  BY Places DEF IInv, TypeOK, UpdatePhases, DeltaPhases, ConnectParity, UpdateGoto, AtUpdate,
     Peer, nodeVars, fileVars
<1>2. IssuedInv'
  BY Places DEF IInv, IssuedInv, TypeOK, ConnectParity, UpdateGoto, AtUpdate, Peer, nodeVars,
     fileVars
<1>3. StoredInv'
  BY Places DEF IInv, StoredInv, Stored, TypeOK, ConnectParity, UpdateGoto, AtUpdate, Peer,
     nodeVars, fileVars
<1>4. RoundInv'
  BY Places, SMTT(60) DEF IInv, RoundInv, TypeOK, ConnectParity, UpdateGoto, AtUpdate, Peer, nodeVars,
     fileVars
<1>5. AckInv'
  BY Places DEF IInv, AckInv, TypeOK, ConnectParity, UpdateGoto, AtUpdate, Peer, nodeVars, fileVars
<1>6. RecordInv'
  BY SameHistory, Places DEF IInv, RecordInv, TypeOK, ConnectParity, UpdateGoto, AtUpdate, Peer,
     nodeVars, fileVars
<1>7. WholeInv' /\ BlockInv' /\ CopyInv'
  BY DEF IInv, WholeInv, BlockInv, CopyInv, SenderEnded, AtMaster, ConnectParity, nodeVars, fileVars
<1>L. LockInv'
  BY Places DEF IInv, LockInv, TypeOK, ConnectParity, UpdateGoto, AtUpdate, Peer, nodeVars,
     fileVars
<1> QED BY <1>L, <1>1, <1>2, <1>3, <1>4, <1>5, <1>6, <1>7 DEF IInv

\* MasterReady keeps the invariant (connection.cpp:250-276).
LEMMA MasterReadyKeeps ==
  ASSUME IInv, NEW u \in Updates, MasterReady(u)
  PROVE  IInv'
<1>1. TypeOK'
  BY Places DEF IInv, TypeOK, UpdatePhases, MasterReady, UpdateGoto, AtUpdate, nodeVars, peerVars,
     fileVars
<1>2. IssuedInv'
  BY Places DEF IInv, IssuedInv, TypeOK, MasterReady, UpdateGoto, AtUpdate, nodeVars, peerVars,
     fileVars
<1>3. StoredInv'
  BY Places DEF IInv, StoredInv, Stored, TypeOK, MasterReady, UpdateGoto, AtUpdate, nodeVars,
     peerVars, fileVars
<1>4. RoundInv'
  BY Places DEF IInv, RoundInv, TypeOK, MasterReady, UpdateGoto, AtUpdate, nodeVars, peerVars,
     fileVars
<1>5. AckInv'
  BY Places DEF IInv, AckInv, TypeOK, MasterReady, UpdateGoto, AtUpdate, nodeVars, peerVars,
     fileVars
<1>6. RecordInv' /\ WholeInv' /\ BlockInv' /\ CopyInv'
  BY DEF IInv, RecordInv, WholeInv, BlockInv, CopyInv, SenderEnded, Recorded, AtMaster, MasterReady, nodeVars,
     peerVars, fileVars
<1>L. LockInv'
  BY Places DEF IInv, LockInv, TypeOK, MasterReady, UpdateGoto, AtUpdate, nodeVars, peerVars,
     fileVars
<1> QED BY <1>L, <1>1, <1>2, <1>3, <1>4, <1>5, <1>6 DEF IInv

\* ParityReady keeps the invariant (connection.cpp:277-281).
LEMMA ParityReadyKeeps ==
  ASSUME IInv, NEW u \in Updates, ParityReady(u)
  PROVE  IInv'
<1>1. TypeOK'
  BY Places DEF IInv, TypeOK, UpdatePhases, DeltaPhases, ParityReady, UpdateGoto, AtUpdate, Peer,
     nodeVars, fileVars
<1>2. IssuedInv'
  BY Places DEF IInv, IssuedInv, TypeOK, ParityReady, UpdateGoto, AtUpdate, Peer, nodeVars, fileVars
<1>3. StoredInv'
  BY Places, SMTT(60) DEF IInv, StoredInv, Stored, TypeOK, ParityReady, UpdateGoto, AtUpdate, Peer,
     nodeVars, fileVars
<1>4. RoundInv'
  BY Places, SMTT(60) DEF IInv, RoundInv, TypeOK, ParityReady, UpdateGoto, AtUpdate, Peer, nodeVars, fileVars
<1>5. AckInv'
  BY Places DEF IInv, AckInv, TypeOK, ParityReady, UpdateGoto, AtUpdate, Peer, nodeVars, fileVars
<1>6. RecordInv'
  BY SameHistory, Places DEF IInv, RecordInv, TypeOK, ParityReady, UpdateGoto, AtUpdate, Peer,
     nodeVars, fileVars
<1>7. WholeInv' /\ BlockInv' /\ CopyInv'
  BY DEF IInv, WholeInv, BlockInv, CopyInv, SenderEnded, AtMaster, ParityReady, nodeVars, fileVars
<1>L. LockInv'
  BY Places DEF IInv, LockInv, TypeOK, ParityReady, UpdateGoto, AtUpdate, Peer, nodeVars,
     fileVars
<1> QED BY <1>L, <1>1, <1>2, <1>3, <1>4, <1>5, <1>6, <1>7 DEF IInv

\* ParityAcked keeps the invariant (connection.cpp:282-309).
LEMMA ParityAckedKeeps ==
  ASSUME IInv, NEW u \in Updates, ParityAcked(u)
  PROVE  IInv'
<1>a. /\ round[u] \in 2..M+1 /\ update_pc[u] = "await_ack"
      /\ \A p \in Parities :
           /\ p <= K + round[u] - 1 => delta_pc[u][p] = "acked"
           /\ p > K + round[u] - 1 => delta_pc[u][p] = "none"
  <2>1. round[u] \in 1..M+1 /\ update_pc[u] = "await_ack"
    BY DEF IInv, TypeOK, ParityAcked, AtUpdate
  <2>2. round[u] > 1
    BY <2>1 DEF IInv, RoundInv
  <2>3. Peer(round[u]) = K + round[u] - 1 /\ delta_pc[u][Peer(round[u])] = "acked"
    BY <2>1, <2>2 DEF Peer, ParityAcked
  <2>4. ASSUME NEW p \in Parities
        PROVE  /\ p <= K + round[u] - 1 => delta_pc[u][p] = "acked"
               /\ p > K + round[u] - 1 => delta_pc[u][p] = "none"
    <3>1. /\ p < K + round[u] - 1 => delta_pc[u][p] = "acked"
          /\ p > K + round[u] - 1 => delta_pc[u][p] = "none"
      BY <2>1 DEF IInv, RoundInv
    <3>2. p <= K + round[u] - 1 => p < K + round[u] - 1 \/ p = K + round[u] - 1
      BY <2>1, Places
    <3> QED BY <2>3, <3>1, <3>2
  <2>5. round[u] \in 2..M+1
    BY <2>1, <2>2, Places
  <2> QED BY <2>1, <2>4, <2>5
<1>b. UNCHANGED <<target, client_ack, delta_pc, master_pc>>
  BY DEF ParityAcked, peerVars
<1>c. \A v \in Updates \ {u} : update_pc'[v] = update_pc[v] /\ round'[v] = round[v]
  BY DEF IInv, TypeOK, ParityAcked, UpdateGoto
<1>d. \/ /\ update_pc'[u] = "reply" /\ round'[u] = round[u]
         /\ \A p \in Parities : delta_pc[u][p] = "acked"
      \/ update_pc'[u] = "connect" /\ round'[u] = round[u] + 1 /\ round[u] + 1 \in 1..M+1
  <2>1. CASE round[u] - 1 >= M
    <3>1. \A p \in Parities : p <= K + round[u] - 1
      BY <1>a, <2>1, Places DEF Parities
    <3>2. update_pc'[u] = "reply" /\ round'[u] = round[u]
      BY <2>1 DEF IInv, TypeOK, ParityAcked, UpdateGoto
    <3>3. \A p \in Parities : delta_pc[u][p] = "acked"
      BY <1>a, <3>1, Zenon
    <3> QED BY <3>2, <3>3
  <2>2. CASE ~(round[u] - 1 >= M)
    <3>1. round[u] + 1 \in 1..M+1
      BY <1>a, <2>2, Places
    <3>2. update_pc'[u] = "connect" /\ round'[u] = round[u] + 1
      BY <2>2 DEF IInv, TypeOK, ParityAcked, UpdateGoto
    <3> QED BY <3>1, <3>2
  <2> QED BY <2>1, <2>2
<1>1. TypeOK'
  <2>1. round' \in [Updates -> 1..M+1] /\ update_pc' \in [Updates -> UpdatePhases]
    <3>1. round' \in [Updates -> Int] /\ update_pc' = [v \in Updates |-> update_pc'[v]]
      BY <1>a DEF IInv, TypeOK, ParityAcked, UpdateGoto
    <3>2. \A v \in Updates : round'[v] \in 1..M+1 /\ update_pc'[v] \in UpdatePhases
      BY <1>a, <1>c, <1>d, Places DEF IInv, TypeOK, UpdatePhases
    <3> QED BY <3>1, <3>2
  <2> QED BY <2>1 DEF IInv, TypeOK, ParityAcked, nodeVars, peerVars, fileVars
<1>2. IssuedInv'
  BY Places, ZenonT(60) DEF IInv, IssuedInv, TypeOK, ParityAcked, UpdateGoto, AtUpdate, Peer, nodeVars,
     peerVars, fileVars
<1>3. StoredInv'
  <2>1. \A v \in Updates : Stored(v) => Stored(v)'
    BY <1>b, <1>c, <1>d DEF Stored, ParityAcked, fileVars
  <2>2. UNCHANGED recon_pc
    BY DEF ParityAcked, peerVars
  <2> QED BY <1>a, <1>b, <1>c, <1>d, <2>1, <2>2 DEF IInv, StoredInv
<1>4. RoundInv'
  <2>1. ASSUME NEW p \in Parities, update_pc'[u] = "connect"
        PROVE  /\ p < K + round'[u] - 1 => delta_pc[u][p] = "acked"
               /\ p >= K + round'[u] - 1 => delta_pc[u][p] = "none"
    <3>1. round'[u] = round[u] + 1
      BY <1>d, <2>1
    <3>0. K \in Nat /\ p \in Nat /\ round[u] \in Nat
      BY Places DEF IInv, TypeOK
    <3>2. /\ p < K + (round[u] + 1) - 1 => p <= K + round[u] - 1
          /\ p >= K + (round[u] + 1) - 1 => p > K + round[u] - 1
      BY <3>0
    <3>3. /\ p <= K + round[u] - 1 => delta_pc[u][p] = "acked"
          /\ p > K + round[u] - 1 => delta_pc[u][p] = "none"
      BY <1>a
    <3> QED BY <3>1, <3>2, <3>3, Zenon
  <2>2. ASSUME NEW p \in Parities, p > K + round'[u] - 1 \/ p = K + round'[u] - 1
        PROVE  p >= K + round'[u] - 1
    <3>0. round'[u] = round[u] \/ round'[u] = round[u] + 1
      BY <1>d, Zenon
    <3>1. K \in Nat /\ p \in Nat /\ round'[u] \in Nat
      <4>1. round[u] \in Nat
        BY DEF IInv, TypeOK
      <4>2. round'[u] \in Nat
        BY <3>0, <4>1
      <4> QED BY <4>2, Places
    <3>2. \A x, y \in Int : x > y \/ x = y => x >= y
      OBVIOUS
    <3>3. K + round'[u] - 1 \in Int /\ p \in Int
      BY <3>1
    <3> QED BY <2>2, <3>2, <3>3
  <2> QED BY <1>b, <1>c, <1>d, <2>1, <2>2 DEF IInv, RoundInv
<1>5. AckInv'
  BY <1>a, <1>b, <1>c, <1>d DEF IInv, AckInv
<1>6. RecordInv' /\ WholeInv' /\ BlockInv' /\ CopyInv'
  BY DEF IInv, RecordInv, WholeInv, BlockInv, CopyInv, SenderEnded, Recorded, AtMaster, ParityAcked, nodeVars,
     peerVars, fileVars
<1>L. LockInv'
  BY Places DEF IInv, LockInv, TypeOK, ParityAcked, UpdateGoto, AtUpdate, Peer, nodeVars,
     peerVars, fileVars
<1> QED BY <1>L, <1>1, <1>2, <1>3, <1>4, <1>5, <1>6 DEF IInv

\* ReplyToClient keeps the invariant (connection.cpp:310-316).
LEMMA ReplyToClientKeeps ==
  ASSUME IInv, NEW u \in Updates, ReplyToClient(u)
  PROVE  IInv'
<1>1. TypeOK'
  BY Places DEF IInv, TypeOK, UpdatePhases, ReplyToClient, UpdateGoto, AtUpdate, nodeVars,
     peerVars, fileVars
<1>2. IssuedInv'
  BY Places DEF IInv, IssuedInv, TypeOK, ReplyToClient, UpdateGoto, AtUpdate, nodeVars, peerVars,
     fileVars
<1>3. StoredInv'
  BY Places DEF IInv, StoredInv, Stored, TypeOK, ReplyToClient, UpdateGoto, AtUpdate, nodeVars,
     peerVars, fileVars
<1>4. RoundInv'
  BY Places DEF IInv, RoundInv, TypeOK, ReplyToClient, UpdateGoto, AtUpdate, nodeVars, peerVars,
     fileVars
<1>5. AckInv'
  BY Places DEF IInv, AckInv, RoundInv, TypeOK, ReplyToClient, UpdateGoto, AtUpdate, nodeVars,
     peerVars, fileVars
<1>6. RecordInv' /\ WholeInv' /\ BlockInv' /\ CopyInv'
  BY DEF IInv, RecordInv, WholeInv, BlockInv, CopyInv, SenderEnded, Recorded, AtMaster, ReplyToClient,
     nodeVars, peerVars, fileVars
<1>L. LockInv'
  BY Places DEF IInv, LockInv, TypeOK, ReplyToClient, UpdateGoto, AtUpdate, nodeVars, peerVars,
     fileVars
<1> QED BY <1>L, <1>1, <1>2, <1>3, <1>4, <1>5, <1>6 DEF IInv

\* NotifyMaster keeps the invariant (connection.cpp:317-326).
LEMMA NotifyMasterKeeps ==
  ASSUME IInv, NEW u \in Updates, NotifyMaster(u)
  PROVE  IInv'
<1>1. TypeOK'
  BY Places DEF IInv, TypeOK, UpdatePhases, MasterPhases, NotifyMaster, UpdateGoto, AtUpdate,
     nodeVars, fileVars
<1>2. IssuedInv'
  BY Places DEF IInv, IssuedInv, TypeOK, NotifyMaster, UpdateGoto, AtUpdate, nodeVars, fileVars
<1>3. StoredInv'
  BY Places DEF IInv, StoredInv, Stored, TypeOK, NotifyMaster, UpdateGoto, AtUpdate, nodeVars,
     fileVars
<1>4. RoundInv'
  BY Places DEF IInv, RoundInv, TypeOK, NotifyMaster, UpdateGoto, AtUpdate, nodeVars, fileVars
<1>5. AckInv'
  BY Places DEF IInv, AckInv, TypeOK, NotifyMaster, UpdateGoto, AtUpdate, nodeVars, fileVars
<1>6. CopyInv'
  <2>1. \A v \in Updates : master_pc'[v] # master_pc[v] =>
          master_pc[v] = "await_ack" /\ master_pc'[v] = "decode"
    BY DEF IInv, TypeOK, NotifyMaster
  <2>2. UNCHANGED <<up, recon_pc, ec_count, full_copy, block, file_lock>>
    BY DEF NotifyMaster, nodeVars, fileVars
  <2> QED BY <2>1, <2>2, CopyKept DEF IInv, SenderEnded
<1>7. RecordInv' /\ WholeInv' /\ BlockInv'
  BY DEF IInv, RecordInv, WholeInv, BlockInv, Recorded, NotifyMaster, nodeVars, fileVars
<1>L. LockInv'
  BY Places DEF IInv, LockInv, TypeOK, NotifyMaster, UpdateGoto, AtUpdate, nodeVars, fileVars
<1> QED BY <1>L, <1>1, <1>2, <1>3, <1>4, <1>5, <1>6, <1>7 DEF IInv

\* AbandonUpdate keeps the invariant (connection.cpp:333-337).
LEMMA AbandonUpdateKeeps ==
  ASSUME IInv, NEW u \in Updates, AbandonUpdate(u)
  PROVE  IInv'
<1>1. TypeOK'
  BY Places DEF IInv, TypeOK, UpdatePhases, AbandonUpdate, UpdateGoto, AtUpdate, Peer, nodeVars,
     peerVars, fileVars
<1>2. IssuedInv'
  BY Places DEF IInv, IssuedInv, TypeOK, AbandonUpdate, UpdateGoto, AtUpdate, Peer, nodeVars,
     peerVars, fileVars
<1>3. StoredInv'
  BY Places DEF IInv, StoredInv, Stored, TypeOK, AbandonUpdate, UpdateGoto, AtUpdate, Peer,
     nodeVars, peerVars, fileVars
<1>4. RoundInv'
  BY Places DEF IInv, RoundInv, TypeOK, AbandonUpdate, UpdateGoto, AtUpdate, Peer, nodeVars,
     peerVars, fileVars
<1>5. AckInv'
  BY Places DEF IInv, AckInv, TypeOK, AbandonUpdate, UpdateGoto, AtUpdate, Peer, nodeVars,
     peerVars, fileVars
<1>6. RecordInv' /\ WholeInv' /\ BlockInv' /\ CopyInv'
  BY DEF IInv, RecordInv, WholeInv, BlockInv, CopyInv, SenderEnded, Recorded, AtMaster, AbandonUpdate,
     nodeVars, peerVars, fileVars
<1>L. LockInv'
  BY Places DEF IInv, LockInv, TypeOK, AbandonUpdate, UpdateGoto, AtUpdate, Peer, nodeVars,
     peerVars, fileVars
<1> QED BY <1>L, <1>1, <1>2, <1>3, <1>4, <1>5, <1>6 DEF IInv

\* DeltaReady keeps the invariant (connection.cpp:344-356).
LEMMA DeltaReadyKeeps ==
  ASSUME IInv, NEW u \in Updates, NEW p \in Parities, DeltaReady(u, p)
  PROVE  IInv'
<1>a. delta_pc[u][p] \notin {"none", "acked"} /\ UNCHANGED <<up, update_pc, round>>
  BY DEF DeltaReady, AtDelta, nodeVars, targetVars
<1>b. \A v \in Updates, q \in Parities :
        delta_pc'[v][q] = IF v = u /\ q = p THEN "await_content" ELSE delta_pc[v][q]
  BY DEF IInv, TypeOK, DeltaReady, DeltaGoto
<1>1. TypeOK'
  BY Places DEF IInv, TypeOK, DeltaPhases, DeltaReady, DeltaGoto, AtDelta, nodeVars, targetVars,
     fileVars
<1>2. StoredInv'
  BY Places DEF IInv, StoredInv, Stored, TypeOK, DeltaReady, DeltaGoto, AtDelta, nodeVars,
     targetVars, fileVars
<1>3. RoundInv'
  BY <1>a, <1>b DEF IInv, RoundInv
<1>4. AckInv'
  BY Places DEF IInv, AckInv, TypeOK, DeltaReady, DeltaGoto, AtDelta, nodeVars, targetVars, fileVars
<1>5. RecordInv'
  BY <1>a, <1>b, SameHistory, Places DEF IInv, RecordInv, DeltaReady, nodeVars
<1>6. IssuedInv' /\ WholeInv' /\ BlockInv' /\ CopyInv'
  BY DEF IInv, IssuedInv, WholeInv, BlockInv, CopyInv, SenderEnded, AtMaster, DeltaReady, nodeVars, targetVars,
     fileVars
<1>L. LockInv'
  BY Places DEF IInv, LockInv, TypeOK, DeltaReady, DeltaGoto, AtDelta, nodeVars, targetVars,
     fileVars
<1> QED BY <1>L, <1>1, <1>2, <1>3, <1>4, <1>5, <1>6 DEF IInv

\* SeekLogEnd keeps the invariant (connection.cpp:364-368).
LEMMA SeekLogEndKeeps ==
  ASSUME IInv, NEW u \in Updates, NEW p \in Parities, SeekLogEnd(u, p)
  PROVE  IInv'
<1>a. delta_pc[u][p] \notin {"none", "acked"} /\ UNCHANGED <<up, update_pc, round>>
  BY DEF SeekLogEnd, AtDelta, nodeVars, targetVars
<1>b. \A v \in Updates, q \in Parities :
        delta_pc'[v][q] = IF v = u /\ q = p THEN "write" ELSE delta_pc[v][q]
  BY DEF IInv, TypeOK, SeekLogEnd, DeltaGoto
<1>1. TypeOK'
  <2>1. update_log[p] \in Seq(Updates)
    BY DEF IInv, TypeOK
  <2>2. Len(update_log[p]) \in Nat
    BY <2>1
  <2>3. log_end' \in [Updates -> [Parities -> Nat]]
    BY <2>2 DEF IInv, TypeOK, SeekLogEnd
  <2>4. delta_pc' \in [Updates -> [Parities -> DeltaPhases]]
    BY DEF IInv, TypeOK, DeltaPhases, SeekLogEnd, DeltaGoto
  <2> QED BY <2>3, <2>4 DEF IInv, TypeOK, SeekLogEnd, nodeVars, targetVars
<1>2. StoredInv'
  BY Places, SMTT(60) DEF IInv, StoredInv, Stored, TypeOK, SeekLogEnd, DeltaGoto, AtDelta, nodeVars,
     targetVars
<1>3. RoundInv'
  BY <1>a, <1>b DEF IInv, RoundInv
<1>4. AckInv'
  BY Places DEF IInv, AckInv, TypeOK, SeekLogEnd, DeltaGoto, AtDelta, nodeVars, targetVars
<1>5. RecordInv'
  BY <1>a, <1>b, SameHistory, Places DEF IInv, RecordInv, SeekLogEnd, nodeVars
<1>6. IssuedInv' /\ WholeInv' /\ BlockInv' /\ CopyInv'
  BY DEF IInv, IssuedInv, WholeInv, BlockInv, CopyInv, SenderEnded, AtMaster, SeekLogEnd, nodeVars, targetVars
<1>L. LockInv'
  BY Places DEF IInv, LockInv, TypeOK, SeekLogEnd, DeltaGoto, AtDelta, nodeVars, targetVars
<1> QED BY <1>L, <1>1, <1>2, <1>3, <1>4, <1>5, <1>6 DEF IInv

\* WriteLog keeps the invariant (connection.cpp:369-372).
LEMMA WriteLogKeeps ==
  ASSUME IInv, NEW u \in Updates, NEW p \in Parities, WriteLog(u, p)
  PROVE  IInv'
<1>a. delta_pc[u][p] \notin {"none", "acked"} /\ UNCHANGED <<up, update_pc, round>>
  BY DEF WriteLog, AtDelta, nodeVars, targetVars
<1>b. \A v \in Updates, q \in Parities :
        delta_pc'[v][q] = IF v = u /\ q = p THEN "record" ELSE delta_pc[v][q]
  BY DEF IInv, TypeOK, WriteLog, DeltaGoto
<1>c. update_log' \in [Parities -> Seq(Updates)]
  <2>1. update_log[p] \in Seq(Updates) /\ log_end[u][p] \in Nat
    BY DEF IInv, TypeOK
  <2>2. Append(update_log[p], u) \in Seq(Updates)
    BY <2>1, AppendProperties
  <2>3. [update_log[p] EXCEPT ![log_end[u][p] + 1] = u] \in Seq(Updates)
    <3>1. CASE log_end[u][p] + 1 \in 1..Len(update_log[p])
      BY <2>1, <3>1, ExceptSeq
    <3>2. CASE log_end[u][p] + 1 \notin 1..Len(update_log[p])
      <4>1. DOMAIN update_log[p] = 1..Len(update_log[p])
        BY <2>1, LenProperties
      <4>2. [update_log[p] EXCEPT ![log_end[u][p] + 1] = u] = update_log[p]
        BY <2>1, <3>2, <4>1, LenProperties
      <4> QED BY <2>1, <4>2
    <3> QED BY <3>1, <3>2
  <2> QED BY <2>2, <2>3 DEF IInv, TypeOK, WriteLog
<1>1. TypeOK'
  BY <1>c, Places DEF IInv, TypeOK, DeltaPhases, WriteLog, DeltaGoto, AtDelta, nodeVars, targetVars
<1>2. StoredInv'
  BY Places, SMTT(60) DEF IInv, StoredInv, Stored, TypeOK, WriteLog, DeltaGoto, AtDelta, nodeVars, targetVars
<1>3. RoundInv'
  BY <1>a, <1>b DEF IInv, RoundInv
<1>4. AckInv'
  BY Places DEF IInv, AckInv, TypeOK, WriteLog, DeltaGoto, AtDelta, nodeVars, targetVars
<1>5. RecordInv'
  BY <1>a, <1>b, SameHistory, Places DEF IInv, RecordInv, WriteLog, nodeVars
<1>6. IssuedInv' /\ WholeInv' /\ BlockInv' /\ CopyInv'
  BY DEF IInv, IssuedInv, WholeInv, BlockInv, CopyInv, SenderEnded, AtMaster, WriteLog, nodeVars, targetVars
<1>L. LockInv'
  BY Places DEF IInv, LockInv, TypeOK, WriteLog, DeltaGoto, AtDelta, nodeVars, targetVars
<1> QED BY <1>L, <1>1, <1>2, <1>3, <1>4, <1>5, <1>6 DEF IInv

\* RecordDelta keeps the invariant (connection.cpp:373-395).
LEMMA RecordDeltaKeeps ==
  ASSUME IInv, NEW u \in Updates, NEW p \in Parities, RecordDelta(u, p)
  PROVE  IInv'
<1>a. delta_pc[u][p] \notin {"none", "acked"} /\ UNCHANGED <<up, update_pc, round>>
  BY DEF RecordDelta, AtDelta, nodeVars, targetVars
<1>b. \A v \in Updates, q \in Parities :
        delta_pc'[v][q] = IF v = u /\ q = p THEN "acked" ELSE delta_pc[v][q]
  BY DEF IInv, TypeOK, RecordDelta, DeltaGoto
<1>c. /\ history' \in [Nodes -> Seq(Version)]
      /\ Recorded(p, u, FALSE)'
      /\ \A m \in Nodes, v \in Updates, c \in BOOLEAN : Recorded(m, v, c) => Recorded(m, v, c)'
  BY Places, LongerHistory DEF IInv, TypeOK, IssuedInv, RecordDelta, AtUpdate
<1>1. TypeOK'
  BY Places, <1>c DEF IInv, TypeOK, DeltaPhases, RecordDelta, DeltaGoto, AtDelta, nodeVars,
     targetVars, fileVars
<1>2. StoredInv'
  BY Places, SMTT(60) DEF IInv, StoredInv, Stored, TypeOK, RecordDelta, DeltaGoto, insert_new_record,
     AtDelta, nodeVars, targetVars, fileVars
<1>3. RoundInv'
  BY <1>a, <1>b DEF IInv, RoundInv
<1>4. AckInv'
  BY Places DEF IInv, AckInv, TypeOK, RecordDelta, DeltaGoto, insert_new_record, AtDelta,
     nodeVars, targetVars, fileVars
<1>5. RecordInv'
  BY <1>a, <1>b, <1>c, Places DEF IInv, RecordInv, RecordDelta, nodeVars
<1>6. IssuedInv' /\ WholeInv' /\ BlockInv' /\ CopyInv'
  BY DEF IInv, IssuedInv, WholeInv, BlockInv, CopyInv, SenderEnded, AtMaster, RecordDelta, nodeVars,
     targetVars, fileVars
<1>L. LockInv'
  BY Places DEF IInv, LockInv, TypeOK, RecordDelta, DeltaGoto, insert_new_record, AtDelta,
     nodeVars, targetVars, fileVars
<1> QED BY <1>L, <1>1, <1>2, <1>3, <1>4, <1>5, <1>6 DEF IInv

\* MasterAnswers keeps the invariant (connection.cpp:406-435).
LEMMA MasterAnswersKeeps ==
  ASSUME IInv, NEW u \in Updates, MasterAnswers(u)
  PROVE  IInv'
<1>1. TypeOK'
  BY Places DEF IInv, TypeOK, MasterPhases, MasterAnswers, MasterGoto, AtMaster, nodeVars,
     targetVars, fileVars
<1>2. StoredInv'
  BY Places DEF IInv, StoredInv, Stored, TypeOK, MasterAnswers, MasterGoto, AtMaster, nodeVars,
     targetVars, fileVars
<1>3. AckInv'
  BY Places DEF IInv, AckInv, TypeOK, MasterAnswers, MasterGoto, AtMaster, nodeVars, targetVars,
     fileVars
<1>4. CopyInv'
  BY Places DEF IInv, CopyInv, SenderEnded, AtMaster, TypeOK, MasterAnswers, MasterGoto, nodeVars, targetVars,
     fileVars
<1>5. IssuedInv' /\ RoundInv' /\ RecordInv' /\ WholeInv' /\ BlockInv'
  BY DEF IInv, IssuedInv, RoundInv, RecordInv, WholeInv, BlockInv, Recorded, MasterAnswers,
     nodeVars, targetVars, fileVars
<1>L. LockInv'
  BY Places DEF IInv, LockInv, TypeOK, MasterAnswers, MasterGoto, AtMaster, nodeVars,
     targetVars, fileVars
<1> QED BY <1>L, <1>1, <1>2, <1>3, <1>4, <1>5 DEF IInv

\* ConnectNodes keeps the invariant (decoder.cpp:139-198).
LEMMA ConnectNodesKeeps ==
  ASSUME IInv, NEW u \in Updates, ConnectNodes(u)
  PROVE  IInv'
<1>1. TypeOK'
  BY Places DEF IInv, TypeOK, MasterPhases, ReconPhases, ConnectNodes, MasterGoto, AtMaster,
     nodeVars, targetVars, fileVars
<1>2. StoredInv'
  BY Places DEF IInv, StoredInv, Stored, TypeOK, ConnectNodes, MasterGoto, AtMaster, nodeVars,
     targetVars, fileVars
<1>3. AckInv'
  BY Places DEF IInv, AckInv, TypeOK, ConnectNodes, MasterGoto, AtMaster, nodeVars, targetVars,
     fileVars
<1>4. BlockInv'
  BY Places DEF IInv, BlockInv, TypeOK, ConnectNodes, MasterGoto, AtMaster, nodeVars, targetVars,
     fileVars
<1>5. CopyInv'
  BY Places DEF IInv, CopyInv, SenderEnded, AtMaster, TypeOK, ConnectNodes, MasterGoto, nodeVars, targetVars,
     fileVars
<1>6. IssuedInv' /\ RoundInv' /\ RecordInv' /\ WholeInv'
  BY DEF IInv, IssuedInv, RoundInv, RecordInv, WholeInv, Recorded, ConnectNodes, nodeVars,
     targetVars, fileVars
<1>L. LockInv'
  <2>1. u \in client_ack
    BY DEF IInv, AckInv, ConnectNodes, AtMaster
  <2>2. \A v \in Updates, n \in Others : recon_pc'[v][n] # "none" => recon_pc[v][n] # "none" \/ v = u
    BY DEF IInv, TypeOK, ConnectNodes
  <2>3. \A v \in Updates, n \in Others : recon_pc'[v][n] = "sending" => recon_pc[v][n] = "sending"
    BY DEF IInv, TypeOK, ConnectNodes
  <2>4. UNCHANGED <<update_pc, target, client_ack, file_lock, data_file>>
    BY DEF ConnectNodes, targetVars, fileVars
  <2> QED BY <2>1, <2>2, <2>3, <2>4, Places DEF IInv, LockInv
<1> QED BY <1>L, <1>1, <1>2, <1>3, <1>4, <1>5, <1>6 DEF IInv

\* OrderLightWeight keeps the invariant (decoder.cpp:209-279).
LEMMA OrderLightWeightKeeps ==
  ASSUME IInv, NEW u \in Updates, OrderLightWeight(u)
  PROVE  IInv'
<1>1. TypeOK'
  BY Places DEF IInv, TypeOK, MasterPhases, ReconPhases, OrderLightWeight, MasterGoto, AtMaster,
     nodeVars, targetVars, fileVars
<1>2. StoredInv'
  BY Places DEF IInv, StoredInv, Stored, TypeOK, OrderLightWeight, MasterGoto, AtMaster, nodeVars,
     targetVars, fileVars
<1>3. AckInv'
  BY Places DEF IInv, AckInv, TypeOK, OrderLightWeight, MasterGoto, AtMaster, nodeVars,
     targetVars, fileVars
<1>4. BlockInv'
  BY Places DEF IInv, BlockInv, TypeOK, OrderLightWeight, MasterGoto, AtMaster, nodeVars,
     targetVars, fileVars
<1>5. CopyInv'
  BY Places DEF IInv, CopyInv, SenderEnded, AtMaster, TypeOK, OrderLightWeight, MasterGoto, nodeVars,
     targetVars, fileVars
<1>6. IssuedInv' /\ RoundInv' /\ RecordInv' /\ WholeInv'
  BY DEF IInv, IssuedInv, RoundInv, RecordInv, WholeInv, Recorded, OrderLightWeight, nodeVars,
     targetVars, fileVars
<1>L. LockInv'
  BY Places DEF IInv, LockInv, TypeOK, OrderLightWeight, MasterGoto, AtMaster, nodeVars,
     targetVars, fileVars
<1> QED BY <1>L, <1>1, <1>2, <1>3, <1>4, <1>5, <1>6 DEF IInv

\* LockFullCopy keeps the invariant (decoder.cpp:281-286).
LEMMA LockFullCopyKeeps ==
  ASSUME IInv, NEW u \in Updates, LockFullCopy(u)
  PROVE  IInv'
<1>a. /\ \E pc \in {"collect", "discard"} : master_pc' = [master_pc EXCEPT ![u] = pc]
      /\ full_copy' \in [Data -> Block]
      /\ file_lock' = [file_lock EXCEPT ![Master] = u]
  <2>1. CASE full_copy' = [d \in Data |-> Truncated] /\ MasterGoto(u, "collect")
    BY <2>1 DEF LockFullCopy, MasterGoto, Block, Truncated
  <2>2. CASE UNCHANGED full_copy /\ MasterGoto(u, "discard")
    BY <2>2 DEF LockFullCopy, MasterGoto, IInv, TypeOK
  <2> QED BY <2>1, <2>2 DEF LockFullCopy
<1>b. master_pc[u] = "full_lock" /\ file_lock[Master] = NoUpdate
  BY DEF LockFullCopy, AtMaster
<1>c. UNCHANGED <<up, crashes, fits, target, update_pc, round, client_ack, delta_pc, recon_pc,
                  data_file, update_log, log_end, block, ec_count, history>>
  BY DEF LockFullCopy, nodeVars, targetVars
<1>1. TypeOK'
  BY <1>a, <1>c, Places DEF IInv, TypeOK, MasterPhases
<1>2. StoredInv'
  BY <1>a, <1>b, <1>c DEF IInv, StoredInv, Stored, TypeOK
<1>3. AckInv'
  BY <1>a, <1>b, <1>c DEF IInv, AckInv, TypeOK
<1>4. WholeInv'
  BY <1>a, <1>c, Places DEF IInv, WholeInv, TypeOK
<1>5. LockInv'
  <2>1. \A d \in Data : file_lock'[d] = file_lock[d]
    BY <1>a, Places DEF IInv, TypeOK
  <2>2. \A v \in Updates : update_pc[v] = "write" => target[v] \in Data
    BY DEF IInv, IssuedInv
  <2> QED BY <1>c, <2>1, <2>2 DEF IInv, LockInv
<1>6. CopyInv'
  <2>1. ASSUME NEW v \in Updates \ {u} PROVE ~ AtMaster(v, "collect") /\ ~ AtMaster(v, "discard")
    BY <1>b, Places DEF IInv, CopyInv
  <2>2. \A v \in Updates \ {u} : master_pc'[v] = master_pc[v]
    BY <1>a DEF IInv, TypeOK
  <2>3. master_pc'[u] \in {"collect", "discard"} /\ ec_count[u] = 1 /\ file_lock'[Master] = u
    BY <1>a, <1>b DEF IInv, TypeOK, CopyInv
  <2>4. \A d \in Data : ~(d < 1)
    BY Places DEF Data
  <2> QED BY <1>b, <1>c, <2>1, <2>2, <2>3, <2>4 DEF IInv, CopyInv, AtMaster, SenderEnded
<1>7. IssuedInv' /\ RoundInv' /\ RecordInv' /\ BlockInv'
  BY <1>c DEF IInv, IssuedInv, RoundInv, RecordInv, BlockInv, Recorded
<1> QED BY <1>1, <1>2, <1>3, <1>4, <1>5, <1>6, <1>7 DEF IInv

\* What is written to the copy is a block, whole only where the blocks before it are;
\* the blocks written earlier stay.
LEMMA Written ==
  ASSUME IInv, NEW u \in Updates, NEW d \in Data, NEW b \in Block, WriteToCopy(u, d, b)
  PROVE  /\ full_copy' \in [Data -> Block]
         /\ \A e \in Data \ {d} : full_copy'[e] = full_copy[e]
         /\ master_pc[u] = "collect" /\ (\A e \in 1 .. d - 1 : full_copy[e].whole)
              => full_copy'[d] = b
<1> DEFINE w == b.whole /\ \A e \in 1 .. d - 1 : full_copy[e].whole
           c == [b EXCEPT !.whole = w]
<1>1. full_copy \in [Data -> Block]
  BY DEF IInv, TypeOK
<1>2. w \in BOOLEAN
  OBVIOUS
<1>3. c \in Block
  BY <1>2 DEF Block
<1>4. full_copy' = IF master_pc[u] = "collect" THEN [full_copy EXCEPT ![d] = c] ELSE full_copy
  BY DEF WriteToCopy
<1>5. (\A e \in 1 .. d - 1 : full_copy[e].whole) => c = b
  <2>1. (\A e \in 1 .. d - 1 : full_copy[e].whole) => w = b.whole
    BY DEF Block
  <2> HIDE DEF w
  <2> QED BY <2>1 DEF Block
<1> HIDE DEF c
<1> QED BY <1>1, <1>3, <1>4, <1>5

\* What a step that goes on to the next block leaves alone.
LEMMA NextBlockKeeps ==
  ASSUME IInv, NEW u \in Updates, NEW d \in Data, NEW b \in Block, Receives(u, d),
         WriteToCopy(u, d, b), NextBlock(u),
         UNCHANGED <<nodeVars, targetVars, peerVars, data_file, update_log, log_end, file_lock,
                     block, history>>,
         \/ SenderEnded(u)
         \/ b = block[u][d] /\ recon_pc[u][d] \in {"sending", "sent"}
  PROVE  IInv'
<1>a. UNCHANGED <<up, crashes, fits, target, update_pc, round, client_ack, delta_pc, master_pc,
                  recon_pc>>
  BY DEF nodeVars, targetVars, peerVars
<1>b. ec_count[u] = d /\ ec_count' = [ec_count EXCEPT ![u] = d + 1] /\ d \in 1 .. K
  BY DEF Receives, NextBlock, Data
<1>1. TypeOK'
  <2>1. ec_count' \in [Updates -> 1 .. K + 1]
    BY <1>b, Places DEF IInv, TypeOK
  <2> QED BY <1>a, <2>1, Written DEF IInv, TypeOK
<1>2. CopyInv'
  <2> SUFFICES ASSUME NEW v \in Updates
               PROVE  /\ master_pc[v] \in {"none", "asked", "await_ack", "decode", "statuses",
                                           "full_lock"} => ec_count'[v] = 1
                      /\ AtMaster(v, "collect") \/ AtMaster(v, "discard") => file_lock[Master] = v
                      /\ AtMaster(v, "collect") =>
                           \/ SenderEnded(v)
                           \/ \A e \in Data : e < ec_count'[v] =>
                                /\ recon_pc[v][e] \in {"sending", "sent"}
                                /\ full_copy'[e] = block[v][e]
    BY <1>a DEF CopyInv, AtMaster, SenderEnded
  <2>1. AtMaster(v, "collect") \/ AtMaster(v, "discard") => file_lock[Master] = v
    BY DEF IInv, CopyInv
  <2>2. CASE v # u
    <3>1. ~ AtMaster(v, "collect") /\ ~ AtMaster(v, "discard") /\ ec_count'[v] = ec_count[v]
      BY <2>2, <1>b DEF Receives, IInv, CopyInv, TypeOK
    <3> QED BY <2>1, <3>1 DEF IInv, CopyInv
  <2>3. CASE v = u
    <3>1. master_pc[u] \in {"collect", "discard"}
      BY DEF Receives, AtMaster
    <3>2. ASSUME AtMaster(u, "collect"), ~ SenderEnded(u), NEW e \in Data, e < ec_count'[u]
          PROVE  /\ recon_pc[u][e] \in {"sending", "sent"}
                 /\ full_copy'[e] = block[u][e]
      <4>1. \A f \in Data : f < d =>
              recon_pc[u][f] \in {"sending", "sent"} /\ full_copy[f] = block[u][f]
        BY <1>b, <3>2 DEF IInv, CopyInv
      <4>2. ASSUME NEW f \in 1 .. d - 1 PROVE full_copy[f].whole
        <5>1. f \in Data /\ f < d
          BY <1>b, Places DEF Data
        <5> QED BY <4>1, <5>1 DEF IInv, BlockInv
      <4>3. full_copy'[d] = b /\ \A f \in Data \ {d} : full_copy'[f] = full_copy[f]
        BY <3>2, <4>2, Written DEF AtMaster
      <4>4. e = d \/ e < d
        <5>1. ec_count'[u] = d + 1
          BY <1>b DEF IInv, TypeOK
        <5> QED BY <3>2, <5>1, Places DEF Data
      <4> QED BY <3>2, <4>1, <4>3, <4>4
    <3> QED BY <2>1, <2>3, <3>1, <3>2
  <2> QED BY <2>2, <2>3
<1>3. IssuedInv' /\ StoredInv' /\ RoundInv' /\ AckInv' /\ LockInv' /\ BlockInv'
  BY <1>a DEF IInv, IssuedInv, StoredInv, Stored, RoundInv, AckInv, LockInv, BlockInv
<1>4. RecordInv' /\ WholeInv'
  BY <1>a DEF IInv, RecordInv, Recorded, WholeInv
<1> QED BY <1>1, <1>2, <1>3, <1>4 DEF IInv

\* CollectBlock keeps the invariant (decoder.cpp:288-324).
LEMMA CollectBlockKeeps ==
  ASSUME IInv, NEW u \in Updates, NEW d \in Data, CollectBlock(u, d)
  PROVE  IInv'
<1>1. block[u][d] \in Block
  BY DEF IInv, TypeOK
<1>2. SenderEnded(u) \/ recon_pc[u][d] \in {"sending", "sent"}
  BY DEF CollectBlock, SenderEnded
<1> QED BY <1>1, <1>2, NextBlockKeeps DEF CollectBlock

\* LoseBlock keeps the invariant (decoder.cpp:299-309).
LEMMA LoseBlockKeeps ==
  ASSUME IInv, NEW u \in Updates, NEW d \in Data, LoseBlock(u, d)
  PROVE  IInv'
<1>1. Truncated \in Block
  BY DEF Block, Truncated
<1>2. SenderEnded(u)
  BY DEF LoseBlock, SenderEnded
<1> QED BY <1>1, <1>2, NextBlockKeeps DEF LoseBlock

\* UnlockFullCopy keeps the invariant (decoder.cpp:325-328).
LEMMA UnlockFullCopyKeeps ==
  ASSUME IInv, NEW u \in Updates, UnlockFullCopy(u)
  PROVE  IInv'
<1>a. /\ master_pc[u] \in {"collect", "discard"} /\ Master \in up
      /\ master_pc' = [master_pc EXCEPT ![u] = "record"]
      /\ file_lock[Master] = u /\ file_lock' = [file_lock EXCEPT ![Master] = NoUpdate]
  BY DEF UnlockFullCopy, Receives, MasterGoto, AtMaster, IInv, CopyInv
<1>b. UNCHANGED <<up, crashes, fits, target, update_pc, round, client_ack, delta_pc, recon_pc,
                  data_file, update_log, log_end, full_copy, block, ec_count, history>>
  BY DEF UnlockFullCopy, nodeVars, targetVars
<1>1. TypeOK'
  BY <1>a, <1>b, Places DEF IInv, TypeOK, MasterPhases
<1>2. StoredInv'
  BY <1>a, <1>b DEF IInv, StoredInv, Stored, TypeOK
<1>3. AckInv'
  BY <1>a, <1>b DEF IInv, AckInv, TypeOK
<1>4. WholeInv'
  BY <1>a, <1>b, Places DEF IInv, WholeInv, TypeOK
<1>5. LockInv'
  <2>1. \A d \in Data : file_lock'[d] = file_lock[d]
    BY <1>a, Places DEF IInv, TypeOK
  <2>2. \A v \in Updates : update_pc[v] = "write" => target[v] \in Data
    BY DEF IInv, IssuedInv
  <2> QED BY <1>b, <2>1, <2>2 DEF IInv, LockInv
<1>6. CopyInv'
  <2>1. \A v \in Updates \ {u} : ~ AtMaster(v, "collect") /\ ~ AtMaster(v, "discard")
    BY <1>a DEF IInv, CopyInv
  <2>2. \A v \in Updates \ {u} : master_pc'[v] = master_pc[v]
    BY <1>a DEF IInv, TypeOK
  <2>3. master_pc'[u] = "record"
    BY <1>a DEF IInv, TypeOK
  <2> QED BY <1>b, <2>1, <2>2, <2>3 DEF IInv, CopyInv, AtMaster
<1>7. IssuedInv' /\ RoundInv' /\ RecordInv' /\ BlockInv'
  BY <1>b DEF IInv, IssuedInv, RoundInv, RecordInv, BlockInv, Recorded
<1> QED BY <1>1, <1>2, <1>3, <1>4, <1>5, <1>6, <1>7 DEF IInv

\* RecordAtMaster keeps the invariant (connection.cpp:447-475).
LEMMA RecordAtMasterKeeps ==
  ASSUME IInv, NEW u \in Updates, RecordAtMaster(u)
  PROVE  IInv'
<1>c. /\ history' \in [Nodes -> Seq(Version)]
      /\ Recorded(Master, u, TRUE)'
      /\ \A m \in Nodes, v \in Updates, c \in BOOLEAN : Recorded(m, v, c) => Recorded(m, v, c)'
  BY Places, LongerHistory DEF IInv, TypeOK, IssuedInv, RecordAtMaster, AtUpdate
<1>1. TypeOK'
  BY Places, <1>c DEF IInv, TypeOK, MasterPhases, RecordAtMaster, MasterGoto, AtMaster, nodeVars,
     targetVars, fileVars
<1>2. StoredInv'
  BY Places DEF IInv, StoredInv, Stored, TypeOK, RecordAtMaster, MasterGoto, insert_new_record,
     AtMaster, nodeVars, targetVars, fileVars
<1>3. AckInv'
  BY Places DEF IInv, AckInv, TypeOK, RecordAtMaster, MasterGoto, insert_new_record, AtMaster,
     nodeVars, targetVars, fileVars
<1>4. RecordInv'
  BY <1>c, Places DEF IInv, RecordInv, TypeOK, RecordAtMaster, MasterGoto, AtMaster, nodeVars,
     targetVars, fileVars
<1>5. CopyInv'
  BY Places DEF IInv, CopyInv, SenderEnded, AtMaster, TypeOK, RecordAtMaster, MasterGoto, insert_new_record,
     nodeVars, targetVars, fileVars
<1>6. IssuedInv' /\ RoundInv' /\ WholeInv' /\ BlockInv'
  BY DEF IInv, IssuedInv, RoundInv, WholeInv, BlockInv, RecordAtMaster, nodeVars, targetVars,
     fileVars
<1>L. LockInv'
  BY Places DEF IInv, LockInv, TypeOK, RecordAtMaster, MasterGoto, insert_new_record, AtMaster,
     nodeVars, targetVars, fileVars
<1> QED BY <1>L, <1>1, <1>2, <1>3, <1>4, <1>5, <1>6 DEF IInv

\* AbandonDecode keeps the invariant (connection.cpp:490-498).
LEMMA AbandonDecodeKeeps ==
  ASSUME IInv, NEW u \in Updates, AbandonDecode(u)
  PROVE  IInv'
<1>1. TypeOK'
  BY Places DEF IInv, TypeOK, MasterPhases, AbandonDecode, MasterGoto, AtMaster, nodeVars,
     targetVars, fileVars
<1>2. StoredInv'
  BY Places DEF IInv, StoredInv, Stored, TypeOK, AbandonDecode, MasterGoto, AtMaster, nodeVars,
     targetVars, fileVars
<1>3. AckInv'
  BY Places DEF IInv, AckInv, TypeOK, AbandonDecode, MasterGoto, AtMaster, nodeVars, targetVars,
     fileVars
<1>4. CopyInv'
  BY Places DEF IInv, CopyInv, SenderEnded, AtMaster, TypeOK, AbandonDecode, MasterGoto, nodeVars, targetVars,
     fileVars
<1>5. IssuedInv' /\ RoundInv' /\ RecordInv' /\ WholeInv' /\ BlockInv'
  BY DEF IInv, IssuedInv, RoundInv, RecordInv, WholeInv, BlockInv, Recorded, AbandonDecode,
     nodeVars, targetVars, fileVars
<1>L. LockInv'
  BY Places DEF IInv, LockInv, TypeOK, AbandonDecode, MasterGoto, AtMaster, nodeVars,
     targetVars, fileVars
<1> QED BY <1>L, <1>1, <1>2, <1>3, <1>4, <1>5 DEF IInv

\* ReconReady keeps the invariant (connection.cpp:758-786).
LEMMA ReconReadyKeeps ==
  ASSUME IInv, NEW u \in Updates, NEW n \in Others, ReconReady(u, n)
  PROVE  IInv'
<1>1. TypeOK'
  BY Places DEF IInv, TypeOK, ReconPhases, ReconReady, nodeVars, targetVars, fileVars
<1>2. StoredInv'
  BY Places DEF IInv, StoredInv, Stored, TypeOK, ReconReady, nodeVars, targetVars, fileVars
<1>3. BlockInv'
  BY Places DEF IInv, BlockInv, TypeOK, ReconReady, nodeVars, targetVars, fileVars
<1>4. CopyInv'
  <2>1. \A v \in Updates, m \in Others :
          recon_pc'[v][m] = IF v = u /\ m = n THEN "ready" ELSE recon_pc[v][m]
    BY DEF IInv, TypeOK, ReconReady
  <2>2. recon_pc[u][n] = "asked" /\ UNCHANGED <<up, master_pc, ec_count, full_copy, block, file_lock>>
    BY DEF ReconReady, nodeVars, fileVars
  <2>3. \A v \in Updates : SenderEnded(v) => SenderEnded(v)'
    BY <2>1, <2>2, Places DEF SenderEnded
  <2>4. \A v \in Updates, d \in Data : recon_pc[v][d] \in {"sending", "sent"} =>
          recon_pc'[v][d] \in {"sending", "sent"}
    BY <2>1, <2>2, Places
  <2> QED BY <2>2, <2>3, <2>4, CopyKept DEF IInv
<1>5. IssuedInv' /\ RoundInv' /\ AckInv' /\ RecordInv' /\ WholeInv'
  BY DEF IInv, IssuedInv, RoundInv, AckInv, RecordInv, WholeInv, Recorded, ReconReady, nodeVars,
     targetVars, fileVars
<1>L. LockInv'
  BY Places DEF IInv, LockInv, TypeOK, ReconReady, nodeVars, targetVars, fileVars
<1> QED BY <1>L, <1>1, <1>2, <1>3, <1>4, <1>5 DEF IInv

\* LockBlock keeps the invariant (connection.cpp:788-818).
LEMMA LockBlockKeeps ==
  ASSUME IInv, NEW u \in Updates, NEW d \in Data, LockBlock(u, d)
  PROVE  IInv'
<1>a. /\ d \in up /\ recon_pc[u][d] = "send" /\ file_lock[d] = NoUpdate
      /\ file_lock' = [file_lock EXCEPT ![d] = u]
      /\ block' = [block EXCEPT ![u][d] = data_file[d]]
      /\ recon_pc' = [recon_pc EXCEPT ![u][d] = "sending"]
  BY DEF LockBlock
<1>b. UNCHANGED <<up, crashes, fits, target, update_pc, round, client_ack, delta_pc, master_pc,
                  data_file, update_log, log_end, full_copy, ec_count, history>>
  BY DEF LockBlock, nodeVars, targetVars
<1>c. d \in Others /\ d # Master /\ data_file[d].whole
  BY <1>a, Places DEF IInv, WholeInv
<1>d. \A v \in Updates, n \in Others :
        recon_pc'[v][n] = IF v = u /\ n = d THEN "sending" ELSE recon_pc[v][n]
  BY <1>a, <1>c DEF IInv, TypeOK
<1>e. \A v \in Updates, e \in Data :
        block'[v][e] = IF v = u /\ e = d THEN data_file[d] ELSE block[v][e]
  BY <1>a DEF IInv, TypeOK
<1>1. TypeOK'
  BY <1>a, <1>b, Places DEF IInv, TypeOK, ReconPhases
<1>2. StoredInv'
  BY <1>a, <1>b, <1>c, <1>d DEF IInv, StoredInv, Stored
<1>3. LockInv'
  <2>1. ASSUME NEW v \in Updates, update_pc[v] = "write" PROVE file_lock'[target[v]] = v
    <3>1. target[v] \in Data /\ file_lock[target[v]] = v
      BY <2>1 DEF IInv, LockInv, IssuedInv
    <3> QED BY <1>a, <3>1, Places DEF IInv, TypeOK
  <2>2. \A v \in Updates, n \in Others : recon_pc'[v][n] # "none" => v \in client_ack
    BY <1>a, <1>c, <1>d DEF IInv, LockInv
  <2>3. ASSUME NEW v \in Updates, NEW e \in Data, recon_pc'[v][e] = "sending"
        PROVE  file_lock'[e] = v /\ data_file[e].whole
    <3>1. CASE v = u /\ e = d
      BY <1>a, <1>c, <3>1 DEF IInv, TypeOK
    <3>2. CASE ~(v = u /\ e = d)
      <4>1. file_lock[e] = v /\ data_file[e].whole
        BY <1>d, <2>3, <3>2, Places DEF IInv, LockInv
      <4> QED BY <1>a, <4>1, Places DEF IInv, TypeOK
    <3> QED BY <3>1, <3>2
  <2> QED BY <1>b, <2>1, <2>2, <2>3 DEF LockInv
<1>4. WholeInv'
  BY <1>a, <1>b, <1>c, Places DEF IInv, WholeInv, TypeOK
<1>5. BlockInv'
  <2>1. target[u] = d => u \in data_file[d].done
    BY <1>a, <1>c DEF IInv, StoredInv, Stored
  <2> QED BY <1>b, <1>c, <1>d, <1>e, <2>1, Places DEF IInv, BlockInv
<1>6. CopyInv'
  <2>1. \A v \in Updates : SenderEnded(v) => SenderEnded(v)'
    BY <1>a, <1>d, Places DEF SenderEnded
  <2>2. \A v \in Updates, e \in Data : recon_pc[v][e] \in {"sending", "sent"} =>
          recon_pc'[v][e] = recon_pc[v][e] /\ block'[v][e] = block[v][e]
    BY <1>a, <1>d, <1>e, Places
  <2>3. file_lock'[Master] = file_lock[Master]
    BY <1>a, <1>c DEF IInv, TypeOK
  <2> QED BY <1>b, <2>1, <2>2, <2>3 DEF IInv, CopyInv, AtMaster
<1>7. IssuedInv' /\ RoundInv' /\ AckInv' /\ RecordInv'
  BY <1>b DEF IInv, IssuedInv, RoundInv, AckInv, RecordInv, Recorded
<1> QED BY <1>1, <1>2, <1>3, <1>4, <1>5, <1>6, <1>7 DEF IInv

\* UnlockBlock keeps the invariant (connection.cpp:812-826).
LEMMA UnlockBlockKeeps ==
  ASSUME IInv, NEW u \in Updates, NEW d \in Data, UnlockBlock(u, d)
  PROVE  IInv'
<1>a. /\ recon_pc[u][d] = "sending"
      /\ file_lock' = [file_lock EXCEPT ![d] = NoUpdate]
      /\ recon_pc' = [recon_pc EXCEPT ![u][d] = "sent"]
  BY DEF UnlockBlock
<1>b. UNCHANGED <<up, crashes, fits, target, update_pc, round, client_ack, delta_pc, master_pc,
                  data_file, update_log, log_end, full_copy, block, ec_count, history>>
  BY DEF UnlockBlock, nodeVars, targetVars
<1>c. d \in Others /\ d # Master /\ file_lock[d] = u /\ data_file[d].whole /\ u \in client_ack
  BY <1>a, Places DEF IInv, LockInv
<1>d. \A v \in Updates, n \in Others :
        recon_pc'[v][n] = IF v = u /\ n = d THEN "sent" ELSE recon_pc[v][n]
  BY <1>a, <1>c DEF IInv, TypeOK
<1>1. TypeOK'
  BY <1>a, <1>b, Places DEF IInv, TypeOK, ReconPhases
<1>2. StoredInv'
  BY <1>a, <1>b, <1>c, <1>d DEF IInv, StoredInv, Stored
<1>3. LockInv'
  <2>1. ASSUME NEW v \in Updates, update_pc[v] = "write" PROVE file_lock'[target[v]] = v
    <3>1. target[v] \in Data /\ file_lock[target[v]] = v
      BY <2>1 DEF IInv, LockInv, IssuedInv
    <3>2. v # u
      BY <1>c, <2>1 DEF IInv, AckInv
    <3> QED BY <1>a, <1>c, <3>1, <3>2 DEF IInv, TypeOK
  <2>2. \A v \in Updates, n \in Others : recon_pc'[v][n] # "none" => v \in client_ack
    BY <1>c, <1>d DEF IInv, LockInv
  <2>3. ASSUME NEW v \in Updates, NEW e \in Data, recon_pc'[v][e] = "sending"
        PROVE  file_lock'[e] = v /\ data_file[e].whole
    <3>1. ~(v = u /\ e = d) /\ recon_pc[v][e] = "sending"
      BY <1>d, <2>3, Places
    <3>2. file_lock[e] = v /\ data_file[e].whole
      BY <3>1 DEF IInv, LockInv
    <3> QED BY <1>a, <1>c, <3>1, <3>2 DEF IInv, TypeOK
  <2> QED BY <1>b, <2>1, <2>2, <2>3 DEF LockInv
<1>4. WholeInv'
  BY <1>a, <1>b, <1>c DEF IInv, WholeInv, TypeOK
<1>5. BlockInv'
  BY <1>a, <1>b, <1>d, Places DEF IInv, BlockInv
<1>6. CopyInv'
  <2>1. \A v \in Updates : SenderEnded(v) => SenderEnded(v)'
    BY <1>a, <1>d, Places DEF SenderEnded
  <2>2. \A v \in Updates, e \in Data : recon_pc[v][e] \in {"sending", "sent"} =>
          recon_pc'[v][e] \in {"sending", "sent"}
    BY <1>d, Places
  <2>3. file_lock'[Master] = file_lock[Master]
    BY <1>a, <1>c DEF IInv, TypeOK
  <2> QED BY <1>b, <2>1, <2>2, <2>3 DEF IInv, CopyInv, AtMaster
<1>7. IssuedInv' /\ RoundInv' /\ AckInv' /\ RecordInv'
  BY <1>b DEF IInv, IssuedInv, RoundInv, AckInv, RecordInv, Recorded
<1> QED BY <1>1, <1>2, <1>3, <1>4, <1>5, <1>6, <1>7 DEF IInv

\* Ends keeps the invariant.
LEMMA EndsKeeps ==
  ASSUME IInv, NEW n \in Nodes, crashes' \in 0..MaxCrashes, fits' = fits, Ends(n)
  PROVE  IInv'
<1>1. TypeOK'
  <2>1. update_pc' \in [Updates -> UpdatePhases] /\ master_pc' \in [Updates -> MasterPhases]
    BY DEF IInv, TypeOK, UpdatePhases, MasterPhases, Ends
  <2>2. delta_pc' \in [Updates -> [Parities -> DeltaPhases]]
    BY DEF IInv, TypeOK, DeltaPhases, Ends
  <2>3. recon_pc' \in [Updates -> [Others -> ReconPhases]]
    BY DEF IInv, TypeOK, ReconPhases, Ends, Remains
  <2>4. file_lock' \in [{Master} \cup Data -> Updates \cup {NoUpdate}]
    BY DEF IInv, TypeOK, Ends
  <2>5. history' \in [Nodes -> Seq(Version)]
    BY EmptySeq DEF IInv, TypeOK, Ends
  <2>6. up' \subseteq Nodes /\ crashes' \in 0..MaxCrashes /\ fits' \in BOOLEAN
    BY DEF IInv, TypeOK, Ends
  <2> QED BY <2>1, <2>2, <2>3, <2>4, <2>5, <2>6 DEF IInv, TypeOK, Ends
<1>2. IssuedInv'
  BY Places DEF IInv, IssuedInv, TypeOK, Ends
<1>a. \A v \in Updates, m \in Others :
        recon_pc'[v][m] = IF m = n THEN Remains(recon_pc[v][m]) ELSE recon_pc[v][m]
  BY DEF Ends
<1>b. \A pc \in ReconPhases :
        /\ Remains(pc) = "none" <=> pc = "none"
        /\ Remains(pc) # "sending"
        /\ Remains(pc) = "sent" <=> pc = "sent"
        /\ Remains(pc) = "cut" <=> pc = "sending"
        /\ pc \in {"cut", "lost"} => Remains(pc) = "lost"
  BY DEF ReconPhases, Remains
<1>c. \A v \in Updates, m \in Others : recon_pc[v][m] \in ReconPhases
  BY DEF IInv, TypeOK
<1>3. StoredInv'
  <2>1. \A v \in Updates, m \in Others : recon_pc'[v][m] # "none" => recon_pc[v][m] # "none"
    BY <1>a, <1>b, <1>c
  <2> QED BY <2>1, Places DEF IInv, StoredInv, Stored, TypeOK, Ends
<1>4. RoundInv'
  BY Places DEF IInv, RoundInv, TypeOK, Ends
<1>5. AckInv'
  BY Places DEF IInv, AckInv, TypeOK, Ends
<1>6. RecordInv'
  <2>1. \A m \in Nodes \ {n} : history'[m] = history[m]
    BY DEF IInv, TypeOK, Ends
  <2>2. \A m \in Nodes \ {n}, v \in Updates : Recorded(m, v, FALSE) => Recorded(m, v, FALSE)'
    BY <2>1 DEF Recorded
  <2>3. \A v \in Updates, p \in Parities : delta_pc'[v][p] = "acked" => delta_pc[v][p] = "acked"
    BY DEF Ends
  <2>4. up' = up \ {n}
    BY DEF Ends
  <2> QED BY <2>2, <2>3, <2>4, Places DEF IInv, RecordInv
<1>7. WholeInv'
  BY Places DEF IInv, WholeInv, TypeOK, Ends
<1>8. BlockInv'
  <2>1. \A v \in Updates, d \in Data : recon_pc'[v][d] \in {"sending", "sent", "cut"} =>
          recon_pc[v][d] \in {"sending", "sent", "cut"}
    BY <1>a, <1>b, <1>c, Places
  <2> QED BY <2>1 DEF IInv, BlockInv, Ends
<1>9. CopyInv'
  <2>1. \A v \in Updates : SenderEnded(v) => SenderEnded(v)'
    BY <1>a, <1>b, <1>c, Places DEF SenderEnded
  <2>2. \A v \in Updates, d \in Data : recon_pc[v][d] \in {"sending", "sent"} =>
          recon_pc'[v][d] \in {"sending", "sent"} \/ recon_pc'[v][d] = "cut"
    BY <1>a, <1>b, <1>c, Places
  <2>3. \A v \in Updates : ~ SenderEnded(v)' => \A d \in Data : recon_pc'[v][d] # "cut"
    BY DEF SenderEnded
  <2>4. \A v \in Updates : master_pc'[v] # "lost" => master_pc'[v] = master_pc[v]
    BY DEF Ends
  <2>5. \A v \in Updates, pc \in {"collect", "discard"} : AtMaster(v, pc)' =>
          AtMaster(v, pc) /\ n # Master
    BY DEF Ends, AtMaster
  <2>6. n # Master => file_lock'[Master] = file_lock[Master]
    BY DEF Ends
  <2>7. UNCHANGED <<ec_count, block, full_copy>>
    BY DEF Ends
  <2> SUFFICES ASSUME NEW v \in Updates
               PROVE  /\ master_pc'[v] \in {"none", "asked", "await_ack", "decode", "statuses",
                                            "full_lock"} => ec_count'[v] = 1
                      /\ (AtMaster(v, "collect") \/ AtMaster(v, "discard"))' =>
                           file_lock'[Master] = v
                      /\ AtMaster(v, "collect")' =>
                           \/ SenderEnded(v)'
                           \/ \A d \in Data : d < ec_count'[v] =>
                                /\ recon_pc'[v][d] \in {"sending", "sent"}
                                /\ full_copy'[d] = block'[v][d]
    BY DEF CopyInv
  <2>8. master_pc'[v] \in {"none", "asked", "await_ack", "decode", "statuses", "full_lock"} =>
          ec_count'[v] = 1
    BY <2>4, <2>7 DEF IInv, CopyInv
  <2>9. (AtMaster(v, "collect") \/ AtMaster(v, "discard"))' => file_lock'[Master] = v
    BY <2>5, <2>6 DEF IInv, CopyInv
  <2>10. ASSUME AtMaster(v, "collect")', ~ SenderEnded(v)', NEW d \in Data, d < ec_count'[v]
         PROVE  recon_pc'[v][d] \in {"sending", "sent"} /\ full_copy'[d] = block'[v][d]
    <3>1. AtMaster(v, "collect") /\ ~ SenderEnded(v)
      BY <2>1, <2>5, <2>10
    <3>2. recon_pc[v][d] \in {"sending", "sent"} /\ full_copy[d] = block[v][d]
      BY <2>7, <2>10, <3>1 DEF IInv, CopyInv
    <3> QED BY <2>2, <2>3, <2>7, <2>10, <3>2
  <2> QED BY <2>8, <2>9, <2>10
<1>10. LockInv'
  <2>1. ASSUME NEW v \in Updates, update_pc'[v] = "write" PROVE file_lock'[target[v]] = v
    <3>1. update_pc[v] = "write" /\ target[v] # n /\ target[v] \in Data
      BY <2>1 DEF Ends, IInv, IssuedInv, TypeOK
    <3> QED BY <3>1 DEF IInv, LockInv, Ends
  <2>2. \A v \in Updates, m \in Others : recon_pc'[v][m] # "none" => v \in client_ack
    BY <1>a, <1>b, <1>c DEF IInv, LockInv
  <2>3. ASSUME NEW v \in Updates, NEW d \in Data, recon_pc'[v][d] = "sending"
        PROVE  file_lock'[d] = v /\ data_file[d].whole
    <3>1. d # n /\ recon_pc[v][d] = "sending"
      BY <1>a, <1>b, <1>c, <2>3, Places
    <3> QED BY <3>1 DEF IInv, LockInv, Ends
  <2> QED BY <2>1, <2>2, <2>3 DEF LockInv, Ends
<1> QED BY <1>1, <1>2, <1>3, <1>4, <1>5, <1>6, <1>7, <1>8, <1>9, <1>10 DEF IInv
-----------------------------------------------------------------------------
(* The theorems *)

\* Each step of a handler, and each end of a process, keeps the invariant.
LEMMA NextIInv == IInv /\ [Next]_vars => IInv'
<1> SUFFICES ASSUME IInv, [Next]_vars PROVE IInv'
  OBVIOUS
<1>1. ASSUME NEW u \in Updates, NEW d \in Data, IssueUpdate(u, d) PROVE IInv'
  BY <1>1, IssueUpdateKeeps
<1>2. ASSUME NEW u \in Updates, UpdateStep(u) PROVE IInv'
  BY <1>2, LockSegmentKeeps, WriteSegmentKeeps, RecordAtTargetKeeps, ConnectMasterKeeps,
     ConnectParityKeeps, MasterReadyKeeps, ParityReadyKeeps, ParityAckedKeeps,
     ReplyToClientKeeps, NotifyMasterKeeps DEF UpdateStep
<1>3. ASSUME NEW u \in Updates, NEW p \in Parities, DeltaStep(u, p) PROVE IInv'
  BY <1>3, DeltaReadyKeeps, SeekLogEndKeeps, WriteLogKeeps, RecordDeltaKeeps DEF DeltaStep
<1>4. ASSUME NEW u \in Updates, MasterStep(u) PROVE IInv'
  BY <1>4, MasterAnswersKeeps, ConnectNodesKeeps, OrderLightWeightKeeps, LockFullCopyKeeps,
     UnlockFullCopyKeeps, RecordAtMasterKeeps, CollectBlockKeeps DEF MasterStep
<1>5. ASSUME NEW u \in Updates, NEW n \in Others, ReconStep(u, n) PROVE IInv'
  BY <1>5, ReconReadyKeeps, LockBlockKeeps, UnlockBlockKeeps DEF ReconStep
<1>6. ASSUME NEW u \in Updates, PeerFault(u) PROVE IInv'
  BY <1>6, AbandonUpdateKeeps, AbandonDecodeKeeps, LoseBlockKeeps DEF PeerFault
<1>7. ASSUME NEW n \in Nodes, Crash(n) \/ DiesWithPeer(n) PROVE IInv'
  <2>1. crashes \in 0..MaxCrashes
    BY DEF IInv, TypeOK
  <2>2. crashes' \in 0..MaxCrashes /\ fits' = fits /\ Ends(n)
    BY <1>7, <2>1, UpdateAssumption DEF Crash, DiesWithPeer
  <2> QED BY <2>2, EndsKeeps
<1>8. CASE UNCHANGED vars
  BY <1>8 DEF IInv, TypeOK, IssuedInv, StoredInv, Stored, RoundInv, AckInv, RecordInv, Recorded,
     WholeInv, LockInv, BlockInv, CopyInv, SenderEnded, AtMaster, vars
<1> QED BY <1>1, <1>2, <1>3, <1>4, <1>5, <1>6, <1>7, <1>8 DEF Next

\* The invariant holds of all executions.
THEOREM Inductive == Spec => []IInv
<1> QED BY InitIInv, NextIInv, PTL DEF Spec

\* All variables keep their types.
THEOREM TypeCorrect == Spec => []TypeOK
<1>1. IInv => TypeOK
  BY DEF IInv
<1> QED BY <1>1, Inductive, PTL

\* UPDATE_DONE is not sent before the block and all parity nodes have the update
\* (connection.cpp:161-316), however many updates run and whoever crashes.
THEOREM AckedDurable == Spec => []AckedIsDurable
<1>1. IInv => AckedIsDurable
  BY Places DEF IInv, StoredInv, Stored, AckInv, RecordInv, AckedIsDurable, TypeOK
<1> QED BY <1>1, Inductive, PTL

\* The lock of a block keeps its readers from half-written contents (connection.cpp:160, 796).
THEOREM NoneTorn == Spec => []NoTornBlock
<1>1. IInv => NoTornBlock
  BY DEF IInv, BlockInv, NoTornBlock
<1> QED BY <1>1, Inductive, PTL

\* What a decoding that ends has put together.
LEMMA DecodingYields ==
  ASSUME IInv, [Next]_vars, NEW u \in Updates, master_pc[u] \in {"collect", "discard"},
         master_pc'[u] = "record"
  PROVE  \/ u \in full_copy[target[u]].done /\ \A d \in Data : full_copy[d].whole
         \/ SenderEnded(u)
         \/ master_pc[u] = "discard"
<1>1. UnlockFullCopy(u)
  <2>1. ASSUME NEW v \in Updates, UpdateStep(v) PROVE master_pc'[u] # "record"
    BY <2>1 DEF UpdateStep, LockSegment, WriteSegment, RecordAtTarget, ConnectMaster, ConnectParity,
       MasterReady, ParityReady, ParityAcked, ReplyToClient, NotifyMaster, peerVars, IInv, TypeOK
  <2>2. ASSUME NEW v \in Updates, NEW p \in Parities, DeltaStep(v, p) PROVE master_pc'[u] # "record"
    BY <2>2 DEF DeltaStep, DeltaReady, SeekLogEnd, WriteLog, RecordDelta
  <2>3. ASSUME NEW v \in Updates, MasterStep(v) PROVE UnlockFullCopy(u)
    <3>1. v = u
      BY <2>3 DEF MasterStep, MasterAnswers, ConnectNodes, OrderLightWeight, LockFullCopy,
         CollectBlock, UnlockFullCopy, RecordAtMaster, MasterGoto, AtMaster, peerVars, IInv, TypeOK
    <3> QED BY <2>3, <3>1 DEF MasterStep, MasterAnswers, ConnectNodes, OrderLightWeight,
         LockFullCopy, CollectBlock, RecordAtMaster, MasterGoto, AtMaster, peerVars, IInv, TypeOK
  <2>4. ASSUME NEW v \in Updates, \/ \E d \in Data : IssueUpdate(v, d)
                                  \/ \E n \in Others : ReconStep(v, n)
                                  \/ PeerFault(v)
        PROVE master_pc'[u] # "record"
    BY <2>4 DEF IssueUpdate, ReconStep, ReconReady, LockBlock, UnlockBlock, PeerFault,
       AbandonUpdate, AbandonDecode, LoseBlock, MasterGoto, peerVars, IInv, TypeOK
  <2>5. ASSUME NEW n \in Nodes, Crash(n) \/ DiesWithPeer(n) PROVE master_pc'[u] # "record"
    BY <2>5 DEF Crash, DiesWithPeer, Ends
  <2>6. CASE UNCHANGED vars
    BY <2>6 DEF vars
  <2> QED BY <2>1, <2>2, <2>3, <2>4, <2>5, <2>6 DEF Next
<1>2. SUFFICES ASSUME ~ SenderEnded(u), master_pc[u] = "collect"
               PROVE  u \in full_copy[target[u]].done /\ \A d \in Data : full_copy[d].whole
  OBVIOUS
<1>3. \A d \in Data : recon_pc[u][d] \in {"sending", "sent"} /\ full_copy[d] = block[u][d]
  <2>1. AtMaster(u, "collect") /\ ec_count[u] = K + 1
    BY <1>1, <1>2 DEF UnlockFullCopy, Receives, AtMaster
  <2>2. \A d \in Data : d < K + 1
    BY Places DEF Data
  <2> QED BY <1>2, <2>1, <2>2 DEF IInv, CopyInv
<1>4. target[u] \in Data
  <2>1. u \in client_ack
    BY <1>2 DEF IInv, AckInv
  <2> QED BY <2>1 DEF IInv, StoredInv, Stored, IssuedInv
<1> QED BY <1>3, <1>4 DEF IInv, BlockInv

\* The decoding that an update triggers (connection.cpp:452) yields a copy of whole blocks
\* with that update, for all numbers of blocks, of updates and of decodings at the same
\* time, except where decode_file reports success for a block whose sender has ended or
\* for a copy it could not open (decoder.cpp:286, 299).
THEOREM DecodeYields == Spec => DecodeYieldsItsUpdate
<1>1. IInv /\ [Next]_vars =>
        [\A u \in Updates :
            (master_pc[u] \in {"collect", "discard"} /\ master_pc'[u] = "record")
              => \/ /\ u \in full_copy[target[u]].done
                    /\ \A d \in Data : full_copy[d].whole
                 \/ SenderEnded(u)
                 \/ master_pc[u] = "discard"]_vars
  BY DecodingYields
<1> QED BY <1>1, Inductive, PTL DEF Spec, DecodeYieldsItsUpdate

-----------------------------------------------------------------------------
(* The protocol implements AbstractUpdate *)

\* The values the refinement mapping gives to the variables of AbstractUpdate.
InBlocks == UNION {data_file[d].done : d \in Data}
Answered == [u \in Updates |-> {p \in Parities : delta_pc[u][p] = "acked"}]
Merged == {u \in Updates : master_pc[u] = "closed"}

\* A step that changes none of them is a stutter.
LEMMA Stutter ==
  ASSUME \A d \in Data : data_file'[d].done = data_file[d].done,
         \A u \in Updates, p \in Parities : delta_pc'[u][p] = "acked" <=> delta_pc[u][p] = "acked",
         \A u \in Updates : master_pc'[u] = "closed" <=> master_pc[u] = "closed",
         client_ack' = client_ack
  PROVE  UNCHANGED <<InBlocks, Answered, client_ack, Merged>>
<1>1. InBlocks' = InBlocks
  BY DEF InBlocks
<1>2. Answered' = Answered
  <2>1. \A u \in Updates :
          {p \in Parities : delta_pc'[u][p] = "acked"} = {p \in Parities : delta_pc[u][p] = "acked"}
    OBVIOUS
  <2> QED BY <2>1 DEF Answered
<1>3. Merged' = Merged
  BY DEF Merged
<1> QED BY <1>1, <1>2, <1>3

\* A posted object without updates.
LEMMA AbstractInit == Init => Abstract!Init
<1> SUFFICES ASSUME Init PROVE Abstract!Init
  OBVIOUS
<1>1. UNION {data_file[d].done : d \in Data} = {}
  BY DEF Init, Fresh
<1>2. [u \in Updates |-> {p \in Parities : delta_pc[u][p] = "acked"}] = [u \in Updates |-> {}]
  BY DEF Init
<1>3. {u \in Updates : master_pc[u] = "closed"} = {}
  BY DEF Init
<1> QED BY <1>1, <1>2, <1>3 DEF Init, Abstract!Init, Abstract!Updates, Updates

\* Writing the block is the abstract Store.
LEMMA WriteIsStore ==
  ASSUME IInv, NEW u \in Updates, WriteSegment(u)
  PROVE  Abstract!Store(u)
<1>1. target[u] \in Data /\ (u[2] > 1 => <<u[1], u[2] - 1>> \in client_ack)
  BY DEF IInv, IssuedInv, WriteSegment, AtUpdate
<1>2. \A d \in Data : data_file'[d].done =
        IF d = target[u] THEN data_file[d].done \cup {u} ELSE data_file[d].done
  BY <1>1 DEF IInv, TypeOK, Block, WriteSegment
<1>3. InBlocks' = InBlocks \cup {u}
  <2>1. ASSUME NEW x \in InBlocks' PROVE x \in InBlocks \cup {u}
    <3>1. PICK d \in Data : x \in data_file'[d].done
      BY DEF InBlocks
    <3> QED BY <1>2, <3>1, ZenonT(60) DEF InBlocks
  <2>2. ASSUME NEW x \in InBlocks \cup {u} PROVE x \in InBlocks'
    <3>1. CASE x = u
      BY <1>1, <1>2, <3>1 DEF InBlocks
    <3>2. CASE x \in InBlocks
      <4>1. PICK d \in Data : x \in data_file[d].done
        BY <3>2 DEF InBlocks
      <4> QED BY <1>2, <4>1 DEF InBlocks
    <3> QED BY <2>2, <3>1, <3>2
  <2> QED BY <2>1, <2>2
<1>4. UNCHANGED <<client_ack, delta_pc, master_pc>>
  BY DEF WriteSegment, peerVars
<1>5. UNCHANGED <<Answered, Merged>>
  BY <1>4 DEF Answered, Merged
<1> QED BY <1>1, <1>3, <1>4, <1>5 DEF Abstract!Store, InBlocks, Answered, Merged

\* The record of a delta is the abstract Log.
LEMMA RecordIsLog ==
  ASSUME IInv, NEW u \in Updates, NEW p \in Parities, RecordDelta(u, p)
  PROVE  Abstract!Log(u, p)
<1>1. u \in InBlocks
  <2>1. Stored(u) /\ target[u] \in Data
    BY DEF IInv, StoredInv, Stored, IssuedInv, RecordDelta, AtDelta
  <2> QED BY <2>1 DEF InBlocks, Stored
<1>2. \A v \in Updates, q \in Parities :
        delta_pc'[v][q] = IF v = u /\ q = p THEN "acked" ELSE delta_pc[v][q]
  BY DEF IInv, TypeOK, RecordDelta, DeltaGoto
<1>3. Answered' = [Answered EXCEPT ![u] = @ \cup {p}]
  <2>1. {q \in Parities : delta_pc'[u][q] = "acked"} =
          {q \in Parities : delta_pc[u][q] = "acked"} \cup {p}
    BY <1>2
  <2>2. \A v \in Updates \ {u} :
          {q \in Parities : delta_pc'[v][q] = "acked"} = {q \in Parities : delta_pc[v][q] = "acked"}
    BY <1>2
  <2> QED BY <2>1, <2>2 DEF Answered
<1>4. UNCHANGED <<InBlocks, client_ack, Merged>>
  BY DEF RecordDelta, targetVars, fileVars, InBlocks, Merged
<1> QED BY <1>1, <1>3, <1>4 DEF Abstract!Log, InBlocks, Answered, Merged

\* The reply to the client is the abstract Ack.
LEMMA ReplyIsAck ==
  ASSUME IInv, NEW u \in Updates, ReplyToClient(u)
  PROVE  Abstract!Ack(u)
<1>1. Stored(u) /\ target[u] \in Data /\ \A p \in Parities : delta_pc[u][p] = "acked"
  BY DEF IInv, StoredInv, Stored, IssuedInv, RoundInv, ReplyToClient, AtUpdate
<1>2. u \in InBlocks
  BY <1>1 DEF InBlocks, Stored
<1>3. Answered[u] = Parities
  <2>1. {p \in Parities : delta_pc[u][p] = "acked"} = Parities
    BY <1>1
  <2> QED BY <2>1 DEF Answered
<1>4. UNCHANGED <<InBlocks, Answered, Merged>> /\ client_ack' = client_ack \cup {u}
  BY DEF ReplyToClient, peerVars, fileVars, InBlocks, Answered, Merged
<1> QED BY <1>2, <1>3, <1>4 DEF Abstract!Ack, InBlocks, Answered, Merged

\* The master's record is the abstract Merge.
LEMMA RecordIsMerge ==
  ASSUME IInv, NEW u \in Updates, RecordAtMaster(u)
  PROVE  Abstract!Merge(u)
<1>1. u \in client_ack
  BY DEF IInv, AckInv, RecordAtMaster, AtMaster
<1>2. Merged' = Merged \cup {u}
  BY DEF IInv, TypeOK, RecordAtMaster, MasterGoto, Merged
<1>3. UNCHANGED <<InBlocks, Answered, client_ack>>
  BY DEF RecordAtMaster, targetVars, fileVars, InBlocks, Answered
<1> QED BY <1>1, <1>2, <1>3 DEF Abstract!Merge, InBlocks, Answered, Merged

\* Every step of the protocol is a step of AbstractUpdate or a stutter.
LEMMA AbstractStep ==
  ASSUME IInv, [Next]_vars
  PROVE  [Abstract!Next]_(Abstract!avars)
<1> DEFINE Same == UNCHANGED <<InBlocks, Answered, client_ack, Merged>>
<1>0. Same => [Abstract!Next]_(Abstract!avars)
  BY DEF Abstract!avars, InBlocks, Answered, Merged
<1> HIDE DEF Same
<1>1. ASSUME NEW u \in Updates, NEW d \in Data, IssueUpdate(u, d) PROVE Same
  BY <1>1, Stutter DEF Same, IssueUpdate, peerVars, fileVars
<1>2. ASSUME NEW u \in Updates, UpdateStep(u) PROVE Same \/ Abstract!Store(u) \/ Abstract!Ack(u)
  <2>1. CASE WriteSegment(u)
    BY <2>1, WriteIsStore
  <2>2. CASE ReplyToClient(u)
    BY <2>2, ReplyIsAck
  <2>3. CASE LockSegment(u)
    <3>1. \A d \in Data : data_file'[d].done = data_file[d].done
      BY <2>3 DEF IInv, TypeOK, Block, LockSegment
    <3> QED BY <2>3, <3>1, Stutter DEF Same, LockSegment, peerVars
  <2>4. CASE RecordAtTarget(u) \/ MasterReady(u) \/ ParityAcked(u)
    BY <2>4, Stutter DEF Same, RecordAtTarget, MasterReady, ParityAcked, peerVars, fileVars
  <2>5. CASE ConnectMaster(u)
    <3>1. \A v \in Updates : master_pc'[v] = "closed" <=> master_pc[v] = "closed"
      BY <2>5 DEF IInv, TypeOK, AckInv, ConnectMaster, AtUpdate
    <3> QED BY <2>5, <3>1, Stutter DEF Same, ConnectMaster, fileVars
  <2>6. CASE ConnectParity(u)
    <3>1. \A v \in Updates, p \in Parities : delta_pc'[v][p] = "acked" <=> delta_pc[v][p] = "acked"
      BY <2>6 DEF IInv, TypeOK, RoundInv, ConnectParity, AtUpdate, Peer
    <3> QED BY <2>6, <3>1, Stutter DEF Same, ConnectParity, fileVars
  <2>7. CASE ParityReady(u)
    <3>1. \A v \in Updates, p \in Parities : delta_pc'[v][p] = "acked" <=> delta_pc[v][p] = "acked"
      BY <2>7 DEF IInv, TypeOK, ParityReady
    <3> QED BY <2>7, <3>1, Stutter DEF Same, ParityReady, fileVars
  <2>8. CASE NotifyMaster(u)
    <3>1. \A v \in Updates : master_pc'[v] = "closed" <=> master_pc[v] = "closed"
      BY <2>8 DEF IInv, TypeOK, NotifyMaster
    <3> QED BY <2>8, <3>1, Stutter DEF Same, NotifyMaster, fileVars
  <2> QED BY <1>2, <2>1, <2>2, <2>3, <2>4, <2>5, <2>6, <2>7, <2>8 DEF UpdateStep
<1>3. ASSUME NEW u \in Updates, NEW p \in Parities, DeltaStep(u, p) PROVE Same \/ Abstract!Log(u, p)
  <2>1. CASE RecordDelta(u, p)
    BY <2>1, RecordIsLog
  <2>2. CASE DeltaReady(u, p) \/ SeekLogEnd(u, p) \/ WriteLog(u, p)
    <3>1. \A v \in Updates, q \in Parities : delta_pc'[v][q] = "acked" <=> delta_pc[v][q] = "acked"
      <4>1. delta_pc[u][p] # "acked" /\ \E st \in {"await_content", "write", "record"} :
              delta_pc' = [delta_pc EXCEPT ![u][p] = st]
        BY <2>2 DEF DeltaReady, SeekLogEnd, WriteLog, AtDelta, DeltaGoto
      <4> QED BY <4>1 DEF IInv, TypeOK
    <3>2. UNCHANGED <<data_file, master_pc, client_ack>>
      BY <2>2 DEF DeltaReady, SeekLogEnd, WriteLog, targetVars, fileVars
    <3> QED BY <3>1, <3>2, Stutter DEF Same
  <2> QED BY <1>3, <2>1, <2>2 DEF DeltaStep
<1>4. ASSUME NEW u \in Updates, MasterStep(u) PROVE Same \/ Abstract!Merge(u)
  <2>1. CASE RecordAtMaster(u)
    BY <2>1, RecordIsMerge
  <2>2. CASE ~RecordAtMaster(u)
    <3>1. \A v \in Updates : master_pc'[v] = "closed" <=> master_pc[v] = "closed"
      BY <1>4, <2>2 DEF IInv, TypeOK, MasterStep, MasterAnswers, ConnectNodes, OrderLightWeight,
         LockFullCopy, CollectBlock, UnlockFullCopy, Receives, AtMaster, MasterGoto, peerVars
    <3>2. UNCHANGED <<data_file, delta_pc, client_ack>>
      BY <1>4, <2>2 DEF MasterStep, MasterAnswers, ConnectNodes, OrderLightWeight,
         LockFullCopy, CollectBlock, UnlockFullCopy, targetVars, peerVars, fileVars
    <3> QED BY <3>1, <3>2, Stutter DEF Same
  <2> QED BY <2>1, <2>2
<1>5. ASSUME NEW u \in Updates, NEW n \in Others, ReconStep(u, n) PROVE Same
  BY <1>5, Stutter DEF Same, ReconStep, ReconReady, LockBlock, UnlockBlock, targetVars,
     fileVars
<1>6. ASSUME NEW u \in Updates, PeerFault(u) PROVE Same
  <2>1. \A v \in Updates : master_pc'[v] = "closed" <=> master_pc[v] = "closed"
    BY <1>6 DEF IInv, TypeOK, PeerFault, AbandonUpdate, AbandonDecode, LoseBlock, AtMaster,
       MasterGoto, peerVars
  <2>2. UNCHANGED <<data_file, delta_pc, client_ack>>
    BY <1>6 DEF PeerFault, AbandonUpdate, AbandonDecode, LoseBlock, targetVars, peerVars, fileVars
  <2> QED BY <2>1, <2>2, Stutter DEF Same
<1>7. ASSUME NEW n \in Nodes, Crash(n) \/ DiesWithPeer(n) PROVE Same
  <2>1. Ends(n)
    BY <1>7 DEF Crash, DiesWithPeer
  <2>2. \A v \in Updates : master_pc'[v] = "closed" <=> master_pc[v] = "closed"
    BY <2>1 DEF Ends
  <2>3. \A v \in Updates, p \in Parities : delta_pc'[v][p] = "acked" <=> delta_pc[v][p] = "acked"
    BY <2>1 DEF Ends
  <2> QED BY <2>1, <2>2, <2>3, Stutter DEF Same, Ends
<1>8. ASSUME UNCHANGED vars PROVE Same
  <2>1. UNCHANGED <<data_file, delta_pc, master_pc, client_ack>>
    BY <1>8 DEF vars
  <2> QED BY <2>1, Stutter DEF Same
<1> DEFINE Step(u) == \/ Abstract!Store(u) \/ Abstract!Ack(u) \/ Abstract!Merge(u)
                      \/ \E p \in Parities : Abstract!Log(u, p)
<1>9. ASSUME NEW u \in Updates,
             \/ (\E d \in Data : IssueUpdate(u, d)) \/ UpdateStep(u)
             \/ (\E p \in Parities : DeltaStep(u, p)) \/ MasterStep(u)
             \/ (\E n \in Others : ReconStep(u, n)) \/ PeerFault(u)
      PROVE  Same \/ Step(u)
  BY <1>1, <1>2, <1>3, <1>4, <1>5, <1>6, <1>9
<1> HIDE DEF Step
<1>10. Same \/ \E u \in Updates : Step(u)
  BY <1>7, <1>8, <1>9 DEF Next
<1> QED BY <1>0, <1>10 DEF Step, Abstract!Next, Abstract!Updates, Updates

\* The protocol implements AbstractUpdate: stored before logged by every parity node,
\* logged before acknowledged, acknowledged before merged, whoever crashes.
THEOREM Implements == Spec => ImplementsAbstract
<1>1. Init => Abstract!Init
  BY AbstractInit
<1>2. IInv /\ [Next]_vars => [Abstract!Next]_(Abstract!avars)
  BY AbstractStep
<1> QED BY <1>1, <1>2, Inductive, PTL DEF Spec, ImplementsAbstract, Abstract!Spec

=============================================================================
