-------------------------- MODULE Reconstruct_proofs --------------------------
(***************************************************************************)
(* Proofs about Reconstruct, for all numbers of blocks, all sets of        *)
(* requests, all losses and all sizes of blocks and buffers: its types and *)
(* locks first, then which processes end and what a GET sends.             *)
(***************************************************************************)
EXTENDS Reconstruct, FiniteSetTheorems, TLAPS

\* An UPDATE that runs on a data node decodes with the lock of its segment held; all
\* other requests run on the master.
OwnLockInv ==
  \A r \in Requests :
    /\ pc[r] = "locked" => host[r] \in Data
    /\ host[r] # Master =>
         /\ r \in Updates
         /\ pc[r] \in {"locked", "connect", "statuses", "heavy_lock", "failed", "abandoned"}
         /\ pc[r] \notin {"failed", "abandoned"} /\ host[r] \notin ended => file_lock[host[r]] = r

\* What a handler that writes its block is at, in the light-weight and the NORMAL branch.
Writing == {"streaming", "sending"}

\* Such a handler holds the lock of its block, and what is left to send in the NORMAL
\* branch leaves the rest by the buffer that the block leaves.
SendInv ==
  \A r \in Requests, n \in Others :
    peer[r][n] \in Writing /\ n \notin ended =>
      /\ file_lock[n] = <<r, n>>
      /\ peer[r][n] = "sending" => left[r][n] % RECEIVE_BUFFER_SIZE = size % RECEIVE_BUFFER_SIZE

\* A GET sends from a file that is there.
CopyInv == \A r \in Requests : pc[r] = "sending" => copy # "absent"

\* No block is sent before the heavy reconstruction has asked for it.
OrderInv ==
  \A r \in Requests : pc[r] \in {"idle", "locked", "connect", "statuses", "heavy_lock"} =>
     \A n \in Others : peer[r][n] \notin {"normal", "sending"}

\* The places of a request and the holders of a lock, as TypeOK has them.
PCs == {"idle", "locked", "connect", "statuses", "copy_lock", "collect", "discard", "recorded",
        "unchanged", "heavy_lock", "heavy", "receive", "spinning", "decode", "open", "sending", "done",
        "failed", "abandoned"}
Holders == {Free} \cup Requests \cup (Requests \X Others)

\* The inductive invariant.
IInv == TypeOK /\ OwnLockInv /\ SendInv /\ CopyInv /\ OrderInv

-----------------------------------------------------------------------------
\* Quotient and remainder are unique.
LEMMA DivUnique ==
  ASSUME NEW b \in Nat \ {0}, NEW q \in Int, NEW r \in 0..b-1
  PROVE  (b * q + r) \div b = q /\ (b * q + r) % b = r
BY SMTT(20)

\* Every integer is a multiple of b and a remainder.
LEMMA DivMod ==
  ASSUME NEW a \in Int, NEW b \in Nat \ {0}
  PROVE  a \div b \in Int /\ a % b \in 0..b-1 /\ a = b * (a \div b) + (a % b)
BY SMTT(20)

\* Multiples of b do not change the remainder by b.
LEMMA ModShift ==
  ASSUME NEW a \in Int, NEW b \in Nat \ {0}, NEW c \in Int
  PROVE  (a + b * c) % b = a % b
<1>1. a \div b \in Int /\ a % b \in 0..b-1 /\ a = b * (a \div b) + (a % b)
  BY DivMod
<1>2. a + b * c = b * ((a \div b) + c) + (a % b)
  <2>1. b * ((a \div b) + c) = b * (a \div b) + b * c
    BY <1>1, SMTT(20)
  <2>2. b * (a \div b) \in Int /\ b * c \in Int
    BY <1>1, SMTT(20)
  <2> QED BY <1>1, <2>1, <2>2
<1>3. (a \div b) + c \in Int
  BY <1>1
<1>4. (b * ((a \div b) + c) + (a % b)) % b = a % b
  BY <1>1, <1>3, DivUnique
<1> QED BY <1>2, <1>4

\* An unsigned subtraction of the size of the buffer, which divides the number of values
\* of an unsigned int, keeps the remainder (connection.cpp:853).
LEMMA RestKeepsRemainder ==
  ASSUME NEW n \in 0..Word-1
  PROVE  Rest(n) \in 0..Word-1 /\ Rest(n) % RECEIVE_BUFFER_SIZE = n % RECEIVE_BUFFER_SIZE
<1> DEFINE B == RECEIVE_BUFFER_SIZE
           c == Word \div B
<1>1. B \in Nat \ {0} /\ Word \in Nat \ {0} /\ Word > B /\ Word % B = 0 /\ n \in Int
  BY ReconstructAssumption
<1>2. c \in Int /\ Word = B * c
  BY <1>1, DivMod
<1> HIDE DEF B, c
<1>0. \A x \in Int : (n + B * x) % B = n % B
  BY <1>1, ModShift
<1>3. B * (-1) = -B /\ B * (c - 1) = B * c - B /\ c - 1 \in Int
  BY <1>1, <1>2, SMTT(20)
<1>4. CASE n >= B
  <2>1. n - B = Word * 0 + (n - B) /\ n - B \in 0..Word-1
    BY <1>1, <1>4
  <2>2. (n - B) % Word = n - B
    BY <1>1, <2>1, DivUnique
  <2>3. (n + B * (-1)) % B = n % B
    BY <1>0
  <2>4. n + B * (-1) = n - B
    BY <1>1, <1>3
  <2> QED BY <2>1, <2>2, <2>3, <2>4 DEF Rest, B
<1>5. CASE n < B
  <2>1. n - B = Word * (-1) + (n - B + Word) /\ n - B + Word \in 0..Word-1
    BY <1>1, <1>5, SMTT(20)
  <2>2. (n - B) % Word = n - B + Word
    BY <1>1, <2>1, DivUnique
  <2>3. n - B + Word = n + B * (c - 1)
    BY <1>1, <1>2, <1>3
  <2>4. (n + B * (c - 1)) % B = n % B
    BY <1>1, <1>3, ModShift
  <2> QED BY <2>1, <2>2, <2>3, <2>4 DEF Rest, B
<1> QED BY <1>1, <1>4, <1>5
-----------------------------------------------------------------------------
(* Every step keeps the invariant *)

\* The requests that are there when everything begins satisfy the invariant.
LEMMA InitIInv == Init => IInv
<1> SUFFICES ASSUME Init PROVE IInv
  OBVIOUS
<1>0. K \in Nat \ {0} /\ Word \in Nat /\ Word > 0
  BY ReconstructAssumption
<1>1. TypeOK
  BY <1>0 DEF Init, TypeOK, Others, Nodes, Data, Master, Requests
<1>2. OwnLockInv /\ SendInv /\ CopyInv /\ OrderInv
  BY DEF Init, OwnLockInv, SendInv, Writing, CopyInv, OrderInv, Master
<1> QED BY <1>1, <1>2 DEF IInv

\* Where requests run, and what names of nodes and holders of locks are.
LEMMA Places ==
  ASSUME TypeOK
  PROVE  /\ Data \subseteq Others /\ Master \notin Others /\ Others \subseteq Nodes /\ Master \in Nodes
         /\ Others \subseteq Int
         /\ \A r \in Requests : host[r] \in Nodes
<1>1. K \in Nat \ {0} /\ M \in Nat \ {0}
  BY ReconstructAssumption
<1>2. Data \subseteq Others /\ Master \notin Others /\ Others \subseteq Int
  BY <1>1 DEF Data, Others, Master
<1>3. \A r \in Requests : host[r] \in Nodes
  BY <1>2 DEF TypeOK, Nodes
<1> QED BY <1>2, <1>3 DEF Nodes

\* The holders of locks are told apart.
LEMMA Names ==
  /\ \A q, r \in Requests, n \in Others : q # <<r, n>>
  /\ \A q \in Requests, n \in Others : Free # <<q, n>>
  /\ \A q \in Requests : Free # q
BY ReconstructAssumption

\* Where a block is sent, no request runs that could give a lock back.
LEMMA SenderElsewhere ==
  ASSUME TypeOK, OwnLockInv, SendInv, NEW r \in Requests, host[r] \notin ended,
         pc[r] \notin {"failed", "abandoned"},
         NEW q \in Requests, NEW n \in Others, peer[q][n] \in Writing, n \notin ended
  PROVE  host[r] # n
<1> SUFFICES ASSUME host[r] = n PROVE FALSE
  OBVIOUS
<1>1. host[r] # Master
  BY Places
<1>2. file_lock[n] = r
  BY <1>1 DEF OwnLockInv
<1>3. file_lock[n] = <<q, n>>
  BY DEF SendInv
<1> QED BY <1>2, <1>3, Names

USE DEF At, Goto, Peer, disks

\* GetTest keeps the invariant (connection.cpp:69-87).
LEMMA GetTestKeeps ==
  ASSUME IInv, NEW r \in Requests, r \in Gets, GetTest(r)
  PROVE  IInv'
<1>0. TypeOK /\ OwnLockInv /\ SendInv /\ CopyInv /\ OrderInv
  BY DEF IInv
<1>1. TypeOK'
  BY <1>0, Places DEF TypeOK, GetTest
<1>2. OwnLockInv'
  BY <1>0, Places DEF OwnLockInv, TypeOK, GetTest
<1>3. SendInv'
  BY <1>0, Places DEF SendInv, OwnLockInv, TypeOK, GetTest
<1>4. CopyInv'
  BY <1>0, Places DEF CopyInv, TypeOK, GetTest
<1>5. OrderInv'
  BY <1>0, Places DEF OrderInv, TypeOK, GetTest
<1> QED BY <1>1, <1>2, <1>3, <1>4, <1>5 DEF IInv

\* UpdateLock keeps the invariant (connection.cpp:124-160).
LEMMA UpdateLockKeeps ==
  ASSUME IInv, NEW r \in Requests, NEW d \in Data, UpdateLock(r, d)
  PROVE  IInv'
<1>0. TypeOK /\ OwnLockInv /\ SendInv /\ CopyInv /\ OrderInv
  BY DEF IInv
<1>1. TypeOK'
  BY <1>0, Places DEF TypeOK, UpdateLock, Lock
<1>2. OwnLockInv'
  BY <1>0, Places, Names DEF OwnLockInv, TypeOK, UpdateLock, Lock
<1>3. SendInv'
  <2> SUFFICES ASSUME NEW q \in Requests, NEW m \in Others, peer'[q][m] \in Writing, m \notin ended'
               PROVE  /\ file_lock'[m] = <<q, m>>
                      /\ peer'[q][m] = "sending" =>
                           left'[q][m] % RECEIVE_BUFFER_SIZE = size' % RECEIVE_BUFFER_SIZE
    BY DEF SendInv
  <2>1. peer[q][m] \in Writing /\ peer[q][m] = peer'[q][m] /\ m \notin ended
    BY <1>0 DEF TypeOK, UpdateLock, Lock
  <2>2. /\ file_lock[m] = <<q, m>>
        /\ peer[q][m] = "sending" => left[q][m] % RECEIVE_BUFFER_SIZE = size % RECEIVE_BUFFER_SIZE
    BY <1>0, <2>1 DEF SendInv
  <2> QED BY <1>0, <2>1, <2>2, Places, Names DEF TypeOK, UpdateLock, Lock
<1>4. CopyInv'
  BY <1>0, Places DEF CopyInv, TypeOK, UpdateLock, Lock
<1>5. OrderInv'
  BY <1>0, Places DEF OrderInv, TypeOK, UpdateLock, Lock
<1> QED BY <1>1, <1>2, <1>3, <1>4, <1>5 DEF IInv

\* SegmentFound keeps the invariant (connection.cpp:161-187).
LEMMA SegmentFoundKeeps ==
  ASSUME IInv, NEW r \in Requests, SegmentFound(r)
  PROVE  IInv'
<1>0. TypeOK /\ OwnLockInv /\ SendInv /\ CopyInv /\ OrderInv
  BY DEF IInv
<1>1. TypeOK'
  BY <1>0, Places DEF TypeOK, SegmentFound, Unlock
<1>2. OwnLockInv'
  BY <1>0, Places DEF OwnLockInv, TypeOK, SegmentFound, Unlock
<1>3. SendInv'
  <2> SUFFICES ASSUME NEW q \in Requests, NEW m \in Others, peer'[q][m] \in Writing, m \notin ended'
               PROVE  /\ file_lock'[m] = <<q, m>>
                      /\ peer'[q][m] = "sending" =>
                           left'[q][m] % RECEIVE_BUFFER_SIZE = size' % RECEIVE_BUFFER_SIZE
    BY DEF SendInv
  <2>1. peer[q][m] \in Writing /\ peer[q][m] = peer'[q][m] /\ m \notin ended
    BY <1>0 DEF TypeOK, SegmentFound, Unlock
  <2>2. /\ file_lock[m] = <<q, m>>
        /\ peer[q][m] = "sending" => left[q][m] % RECEIVE_BUFFER_SIZE = size % RECEIVE_BUFFER_SIZE
    BY <1>0, <2>1 DEF SendInv
  <2> QED BY <1>0, <2>1, <2>2, Places, Names, SenderElsewhere DEF TypeOK, SegmentFound, Unlock
<1>4. CopyInv'
  BY <1>0, Places DEF CopyInv, TypeOK, SegmentFound, Unlock
<1>5. OrderInv'
  BY <1>0, Places DEF OrderInv, TypeOK, SegmentFound, Unlock
<1> QED BY <1>1, <1>2, <1>3, <1>4, <1>5 DEF IInv

\* SegmentMissing keeps the invariant (connection.cpp:157-165).
LEMMA SegmentMissingKeeps ==
  ASSUME IInv, NEW r \in Requests, SegmentMissing(r)
  PROVE  IInv'
<1>0. TypeOK /\ OwnLockInv /\ SendInv /\ CopyInv /\ OrderInv
  BY DEF IInv
<1>1. TypeOK'
  BY <1>0, Places DEF TypeOK, SegmentMissing
<1>2. OwnLockInv'
  BY <1>0, Places DEF OwnLockInv, TypeOK, SegmentMissing
<1>3. SendInv'
  BY <1>0, Places DEF SendInv, OwnLockInv, TypeOK, SegmentMissing
<1>4. CopyInv'
  BY <1>0, Places DEF CopyInv, TypeOK, SegmentMissing
<1>5. OrderInv'
  BY <1>0, Places DEF OrderInv, TypeOK, SegmentMissing
<1> QED BY <1>1, <1>2, <1>3, <1>4, <1>5 DEF IInv

\* Connect keeps the invariant (decoder.cpp:139-206).
LEMMA ConnectKeeps ==
  ASSUME IInv, NEW r \in Requests, Connect(r)
  PROVE  IInv'
<1>0. TypeOK /\ OwnLockInv /\ SendInv /\ CopyInv /\ OrderInv
  BY DEF IInv
<1>1. TypeOK'
  <2>1. peer' \in [Requests -> [Others -> {"none", "asked", "ready", "cut", "light", "streaming", "normal", "sending", "closed"}]]
    BY <1>0 DEF TypeOK, Connect
  <2>2. pc' \in [Requests -> PCs] /\ ended' \subseteq Nodes /\ file_lock' \in [Nodes -> Holders]
    <3>1. pc' \in [Requests -> PCs]
      <4>1. pc \in [Requests -> PCs] /\ {"statuses", "abandoned"} \subseteq PCs
        BY <1>0 DEF TypeOK, PCs
      <4> QED BY <4>1 DEF Connect, Throw, Goto
    <3>2. ended' \subseteq Nodes
      BY <1>0, Places DEF TypeOK, Connect, Throw, End
    <3>3. file_lock' \in [Nodes -> Holders]
      BY <1>0 DEF TypeOK, Holders, Connect, Throw, End, Unlock
    <3> QED BY <3>1, <3>2, <3>3
  <2> QED BY <1>0, <2>1, <2>2 DEF TypeOK, PCs, Holders, Connect
<1>2. OwnLockInv'
  BY <1>0, Places DEF OwnLockInv, TypeOK, Connect, Throw, End, Unlock
<1>3. SendInv'
  <2> SUFFICES ASSUME NEW q \in Requests, NEW m \in Others, peer'[q][m] \in Writing, m \notin ended'
               PROVE  /\ file_lock'[m] = <<q, m>>
                      /\ peer'[q][m] = "sending" =>
                           left'[q][m] % RECEIVE_BUFFER_SIZE = size' % RECEIVE_BUFFER_SIZE
    BY DEF SendInv
  <2>1. peer[q][m] \in Writing /\ peer[q][m] = peer'[q][m] /\ m \notin ended
    <3>1. m \notin ended
      BY DEF Connect, Throw, End
    <3>2. peer[q][m] = peer'[q][m]
      BY <1>0 DEF TypeOK, Connect, Writing
    <3> QED BY <3>1, <3>2
  <2>2. /\ file_lock[m] = <<q, m>>
        /\ peer[q][m] = "sending" => left[q][m] % RECEIVE_BUFFER_SIZE = size % RECEIVE_BUFFER_SIZE
    BY <1>0, <2>1 DEF SendInv
  <2>3. host[r] \notin ended /\ pc[r] = "connect"
    BY DEF Connect
  <2>4. host[r] # m /\ Master # m
    BY <1>0, <2>1, <2>3, Places, SenderElsewhere
  <2>5. file_lock'[m] = file_lock[m]
    <3>1. m \in Nodes /\ DOMAIN file_lock = Nodes
      BY <1>0, Places DEF TypeOK
    <3>2. CASE UNCHANGED file_lock
      BY <3>2
    <3>3. CASE Throw(r)
      BY <2>4, <3>1, <3>3 DEF Throw, End, Unlock
    <3> QED BY <3>2, <3>3 DEF Connect
  <2> QED BY <2>1, <2>2, <2>5 DEF Connect
<1>4. CopyInv'
  BY <1>0, Places DEF CopyInv, TypeOK, Connect, Throw, End, Unlock
<1>5. OrderInv'
  BY <1>0, Places DEF OrderInv, TypeOK, Connect, Throw, End, Unlock
<1> QED BY <1>1, <1>2, <1>3, <1>4, <1>5 DEF IInv

\* AnswerLost keeps the invariant (decoder.cpp:216-224).
LEMMA AnswerLostKeeps ==
  ASSUME IInv, NEW r \in Requests, AnswerLost(r)
  PROVE  IInv'
<1>0. TypeOK /\ OwnLockInv /\ SendInv /\ CopyInv /\ OrderInv
  BY DEF IInv
<1>1. TypeOK'
  <2>1. pc' \in [Requests -> PCs]
    <3>1. pc \in [Requests -> PCs] /\ {"statuses", "abandoned"} \subseteq PCs
      BY <1>0 DEF TypeOK, PCs
    <3> QED BY <3>1 DEF AnswerLost, Throw, Goto
  <2>2. ended' \subseteq Nodes
    BY <1>0, Places DEF TypeOK, AnswerLost, Throw, End
  <2>3. file_lock' \in [Nodes -> Holders]
    BY <1>0 DEF TypeOK, Holders, AnswerLost, Throw, End, Unlock
  <2> QED BY <1>0, <2>1, <2>2, <2>3 DEF TypeOK, PCs, Holders, AnswerLost, disks
<1>2. OwnLockInv'
  BY <1>0, Places DEF OwnLockInv, TypeOK, AnswerLost, Throw, End, Unlock
<1>3. SendInv'
  <2> SUFFICES ASSUME NEW q \in Requests, NEW m \in Others, peer'[q][m] \in Writing, m \notin ended'
               PROVE  /\ file_lock'[m] = <<q, m>>
                      /\ peer'[q][m] = "sending" =>
                           left'[q][m] % RECEIVE_BUFFER_SIZE = size' % RECEIVE_BUFFER_SIZE
    BY DEF SendInv
  <2>1. peer[q][m] \in Writing /\ peer[q][m] = peer'[q][m] /\ m \notin ended
    BY <1>0 DEF TypeOK, AnswerLost, Throw, End, Unlock
  <2>2. /\ file_lock[m] = <<q, m>>
        /\ peer[q][m] = "sending" => left[q][m] % RECEIVE_BUFFER_SIZE = size % RECEIVE_BUFFER_SIZE
    BY <1>0, <2>1 DEF SendInv
  <2>3. host[r] \notin ended /\ pc[r] = "statuses"
    BY DEF AnswerLost, At
  <2>4. host[r] # m /\ Master # m
    BY <1>0, <2>1, <2>3, Places, SenderElsewhere
  <2>5. file_lock'[m] = file_lock[m]
    <3>1. m \in Nodes /\ DOMAIN file_lock = Nodes
      BY <1>0, Places DEF TypeOK
    <3>2. CASE r \in Gets
      BY <2>4, <3>1, <3>2 DEF AnswerLost, Throw, End
    <3>3. CASE r \notin Gets
      BY <2>4, <3>1, <3>3 DEF AnswerLost, Throw, Unlock
    <3> QED BY <3>2, <3>3
  <2> QED BY <2>2, <2>5 DEF AnswerLost, disks
<1>4. CopyInv'
  BY <1>0, Places DEF CopyInv, TypeOK, AnswerLost, Throw, End, Unlock
<1>5. OrderInv'
  BY <1>0, Places DEF OrderInv, TypeOK, AnswerLost, Throw, End, Unlock
<1> QED BY <1>1, <1>2, <1>3, <1>4, <1>5 DEF IInv

\* GiveUp keeps the invariant (decoder.cpp:333-364).
LEMMA GiveUpKeeps ==
  ASSUME IInv, NEW r \in Requests, GiveUp(r)
  PROVE  IInv'
<1>0. TypeOK /\ OwnLockInv /\ SendInv /\ CopyInv /\ OrderInv
  BY DEF IInv
<1>a. \/ r \in Gets /\ Goto(r, "open") /\ UNCHANGED <<ended, file_lock>>
      \/ r \in Updates /\ host[r] = Master /\ End(Master) /\ UNCHANGED pc
      \/ r \in Updates /\ host[r] # Master /\ Goto(r, "failed") /\ Unlock(host[r]) /\ UNCHANGED ended
  BY DEF GiveUp, AfterGivingUp, Requests
<1>1. TypeOK'
  <2>1. peer' \in [Requests -> [Others -> {"none", "asked", "ready", "cut", "light", "streaming", "normal", "sending", "closed"}]]
    BY <1>0 DEF TypeOK, GiveUp
  <2>2. pc' \in [Requests -> PCs] /\ ended' \subseteq Nodes /\ file_lock' \in [Nodes -> Holders]
    <3>1. CASE r \in Gets /\ Goto(r, "open") /\ UNCHANGED <<ended, file_lock>>
      BY <1>0, <3>1 DEF TypeOK, PCs, Holders
    <3>2. CASE r \in Updates /\ host[r] = Master /\ End(Master) /\ UNCHANGED pc
      BY <1>0, <3>2, Places DEF TypeOK, PCs, Holders, End
    <3>3. CASE /\ r \in Updates /\ host[r] # Master
               /\ Goto(r, "failed") /\ Unlock(host[r]) /\ UNCHANGED ended
      BY <1>0, <3>3, Places DEF TypeOK, PCs, Holders, Unlock
    <3> QED BY <1>a, <3>1, <3>2, <3>3
  <2> QED BY <1>0, <2>1, <2>2 DEF TypeOK, PCs, Holders, GiveUp
<1>2. OwnLockInv'
  <2>a. host' = host /\ pc[r] = "statuses" /\ host[r] \notin ended
    BY DEF GiveUp
  <2>1. CASE r \in Gets /\ Goto(r, "open") /\ UNCHANGED <<ended, file_lock>>
    <3>1. host[r] = Master
      BY <1>0, <2>1, ReconstructAssumption DEF OwnLockInv
    <3> QED BY <1>0, <2>a, <2>1, <3>1, Places DEF OwnLockInv, TypeOK
  <2>2. CASE r \in Updates /\ host[r] = Master /\ End(Master) /\ UNCHANGED pc
    BY <1>0, <2>a, <2>2, Places DEF OwnLockInv, TypeOK, End
  <2>3. CASE /\ r \in Updates /\ host[r] # Master
             /\ Goto(r, "failed") /\ Unlock(host[r]) /\ UNCHANGED ended
    BY <1>0, <2>a, <2>3, Places, Names DEF OwnLockInv, TypeOK, Unlock
  <2> QED BY <1>a, <2>1, <2>2, <2>3
<1>3. SendInv'
  <2> SUFFICES ASSUME NEW q \in Requests, NEW m \in Others, peer'[q][m] \in Writing, m \notin ended'
               PROVE  /\ file_lock'[m] = <<q, m>>
                      /\ peer'[q][m] = "sending" =>
                           left'[q][m] % RECEIVE_BUFFER_SIZE = size' % RECEIVE_BUFFER_SIZE
    BY DEF SendInv
  <2>1. peer[q][m] \in Writing /\ peer[q][m] = peer'[q][m] /\ m \notin ended
    BY <1>0 DEF TypeOK, GiveUp, AfterGivingUp, End, Unlock, Writing
  <2>2. /\ file_lock[m] = <<q, m>>
        /\ peer[q][m] = "sending" => left[q][m] % RECEIVE_BUFFER_SIZE = size % RECEIVE_BUFFER_SIZE
    BY <1>0, <2>1 DEF SendInv
  <2> QED BY <1>0, <2>1, <2>2, Places, Names, SenderElsewhere, SMTT(60) DEF TypeOK, GiveUp, AfterGivingUp, End, Unlock
<1>4. CopyInv'
  BY <1>0, Places DEF CopyInv, TypeOK, GiveUp, AfterGivingUp, End, Unlock
<1>5. OrderInv'
  BY <1>0, Places DEF OrderInv, TypeOK, GiveUp, AfterGivingUp, End, Unlock
<1> QED BY <1>1, <1>2, <1>3, <1>4, <1>5 DEF IInv

\* OrderLight keeps the invariant (decoder.cpp:251-284).
LEMMA OrderLightKeeps ==
  ASSUME IInv, NEW r \in Requests, OrderLight(r)
  PROVE  IInv'
<1>0. TypeOK /\ OwnLockInv /\ SendInv /\ CopyInv /\ OrderInv
  BY DEF IInv
<1>1. TypeOK'
  <2>1. peer' \in [Requests -> [Others -> {"none", "asked", "ready", "cut", "light", "streaming", "normal", "sending", "closed"}]]
    BY <1>0 DEF TypeOK, OrderLight, LightOrders
  <2>2. pc' \in [Requests -> PCs] /\ ended' \subseteq Nodes /\ file_lock' \in [Nodes -> Holders]
    <3>1. \/ End(Master) /\ pc' = pc
          \/ Goto(r, "copy_lock") /\ ended' = ended /\ file_lock' = file_lock
      BY DEF OrderLight
    <3> QED BY <1>0, <3>1, Places DEF TypeOK, PCs, Holders, End
  <2> QED BY <1>0, <2>1, <2>2 DEF TypeOK, PCs, Holders, OrderLight
<1>2. OwnLockInv'
  BY <1>0, Places DEF OwnLockInv, TypeOK, OrderLight, LightOrders, Light, End
<1>3. SendInv'
  BY <1>0, Places DEF SendInv, Writing, OwnLockInv, TypeOK, OrderLight, LightOrders, Light, End
<1>4. CopyInv'
  BY <1>0, Places DEF CopyInv, TypeOK, OrderLight, LightOrders, Light, End
<1>5. OrderInv'
  BY <1>0, Places DEF OrderInv, TypeOK, OrderLight, LightOrders, Light, End
<1> QED BY <1>1, <1>2, <1>3, <1>4, <1>5 DEF IInv

\* DecideHeavy keeps the invariant (decoder.cpp:337-371).
LEMMA DecideHeavyKeeps ==
  ASSUME IInv, NEW r \in Requests, DecideHeavy(r)
  PROVE  IInv'
<1>0. TypeOK /\ OwnLockInv /\ SendInv /\ CopyInv /\ OrderInv
  BY DEF IInv
<1>1. TypeOK'
  BY <1>0, Places DEF TypeOK, DecideHeavy
<1>2. OwnLockInv'
  BY <1>0, Places DEF OwnLockInv, TypeOK, DecideHeavy
<1>3. SendInv'
  BY <1>0, Places DEF SendInv, OwnLockInv, TypeOK, DecideHeavy
<1>4. CopyInv'
  BY <1>0, Places DEF CopyInv, TypeOK, DecideHeavy
<1>5. OrderInv'
  BY <1>0, Places DEF OrderInv, TypeOK, DecideHeavy
<1> QED BY <1>1, <1>2, <1>3, <1>4, <1>5 DEF IInv

\* CopyLock keeps the invariant (decoder.cpp:281-286).
LEMMA CopyLockKeeps ==
  ASSUME IInv, NEW r \in Requests, CopyLock(r)
  PROVE  IInv'
<1>0. TypeOK /\ OwnLockInv /\ SendInv /\ CopyInv /\ OrderInv
  BY DEF IInv
<1>1. TypeOK'
  BY <1>0, Places DEF TypeOK, CopyLock, Lock, Truncated
<1>2. OwnLockInv'
  BY <1>0, Places DEF OwnLockInv, TypeOK, CopyLock, Lock, Truncated
<1>3. SendInv'
  BY <1>0, Places DEF SendInv, OwnLockInv, TypeOK, CopyLock, Lock, Truncated
<1>4. CopyInv'
  BY <1>0, Places DEF CopyInv, TypeOK, CopyLock, Lock, Truncated
<1>5. OrderInv'
  BY <1>0, Places DEF OrderInv, TypeOK, CopyLock, Lock, Truncated
<1> QED BY <1>1, <1>2, <1>3, <1>4, <1>5 DEF IInv

\* Collect keeps the invariant (decoder.cpp:288-327).
LEMMA CollectKeeps ==
  ASSUME IInv, NEW r \in Requests, Collect(r)
  PROVE  IInv'
<1>0. TypeOK /\ OwnLockInv /\ SendInv /\ CopyInv /\ OrderInv
  BY DEF IInv
<1>1. TypeOK'
  BY <1>0, Places DEF TypeOK, Collect, Unlock
<1>2. OwnLockInv'
  BY <1>0, Places DEF OwnLockInv, TypeOK, Collect, Unlock
<1>3. SendInv'
  BY <1>0, Places DEF SendInv, OwnLockInv, TypeOK, Collect, Unlock
<1>4. CopyInv'
  BY <1>0, Places DEF CopyInv, TypeOK, Collect, Unlock
<1>5. OrderInv'
  BY <1>0, Places DEF OrderInv, TypeOK, Collect, Unlock
<1> QED BY <1>1, <1>2, <1>3, <1>4, <1>5 DEF IInv

\* Discard keeps the invariant (decoder.cpp:286-327).
LEMMA DiscardKeeps ==
  ASSUME IInv, NEW r \in Requests, Discard(r)
  PROVE  IInv'
<1>0. TypeOK /\ OwnLockInv /\ SendInv /\ CopyInv /\ OrderInv
  BY DEF IInv
<1>1. TypeOK'
  BY <1>0, Places DEF TypeOK, Discard, Unlock
<1>2. OwnLockInv'
  BY <1>0, Places DEF OwnLockInv, TypeOK, Discard, Unlock
<1>3. SendInv'
  BY <1>0, Places DEF SendInv, OwnLockInv, TypeOK, Discard, Unlock
<1>4. CopyInv'
  BY <1>0, Places DEF CopyInv, TypeOK, Discard, Unlock
<1>5. OrderInv'
  BY <1>0, Places DEF OrderInv, TypeOK, Discard, Unlock
<1> QED BY <1>1, <1>2, <1>3, <1>4, <1>5 DEF IInv

\* HeavyLock keeps the invariant (decoder.cpp:382-390).
LEMMA HeavyLockKeeps ==
  ASSUME IInv, NEW r \in Requests, HeavyLock(r)
  PROVE  IInv'
<1>0. TypeOK /\ OwnLockInv /\ SendInv /\ CopyInv /\ OrderInv
  BY DEF IInv
<1>1. TypeOK'
  BY <1>0, Places DEF TypeOK, HeavyLock, Lock, Truncated
<1>2. OwnLockInv'
  BY <1>0, Places, Names DEF OwnLockInv, TypeOK, HeavyLock, Lock, Truncated
<1>3. SendInv'
  <2> SUFFICES ASSUME NEW q \in Requests, NEW m \in Others, peer'[q][m] \in Writing, m \notin ended'
               PROVE  /\ file_lock'[m] = <<q, m>>
                      /\ peer'[q][m] = "sending" =>
                           left'[q][m] % RECEIVE_BUFFER_SIZE = size' % RECEIVE_BUFFER_SIZE
    BY DEF SendInv
  <2>1. peer[q][m] \in Writing /\ peer[q][m] = peer'[q][m] /\ m \notin ended
    BY <1>0 DEF TypeOK, HeavyLock, Lock, Truncated
  <2>2. /\ file_lock[m] = <<q, m>>
        /\ peer[q][m] = "sending" => left[q][m] % RECEIVE_BUFFER_SIZE = size % RECEIVE_BUFFER_SIZE
    BY <1>0, <2>1 DEF SendInv
  <2> QED BY <1>0, <2>1, <2>2, Places, Names DEF TypeOK, HeavyLock, Lock, Truncated
<1>4. CopyInv'
  BY <1>0, Places DEF CopyInv, TypeOK, HeavyLock, Lock, Truncated
<1>5. OrderInv'
  BY <1>0, Places DEF OrderInv, TypeOK, HeavyLock, Lock, Truncated
<1> QED BY <1>1, <1>2, <1>3, <1>4, <1>5 DEF IInv

\* AskBlock keeps the invariant (decoder.cpp:393-431).
LEMMA AskBlockKeeps ==
  ASSUME IInv, NEW r \in Requests, NEW n \in Others, AskBlock(r, n)
  PROVE  IInv'
<1>0. TypeOK /\ OwnLockInv /\ SendInv /\ CopyInv /\ OrderInv
  BY DEF IInv
<1>1. TypeOK'
  BY <1>0, Places DEF TypeOK, AskBlock
<1>2. OwnLockInv'
  BY <1>0, Places DEF OwnLockInv, TypeOK, AskBlock
<1>3. SendInv'
  BY <1>0, Places DEF SendInv, Writing, OwnLockInv, TypeOK, AskBlock
<1>4. CopyInv'
  BY <1>0, Places DEF CopyInv, TypeOK, AskBlock
<1>5. OrderInv'
  BY <1>0, Places DEF OrderInv, TypeOK, AskBlock
<1> QED BY <1>1, <1>2, <1>3, <1>4, <1>5 DEF IInv

\* Receive keeps the invariant (decoder.cpp:433-485).
LEMMA ReceiveKeeps ==
  ASSUME IInv, NEW r \in Requests, Receive(r)
  PROVE  IInv'
<1>0. TypeOK /\ OwnLockInv /\ SendInv /\ CopyInv /\ OrderInv
  BY DEF IInv
<1>1. TypeOK'
  BY <1>0, Places DEF TypeOK, Receive
<1>2. OwnLockInv'
  BY <1>0, Places DEF OwnLockInv, TypeOK, Receive
<1>3. SendInv'
  BY <1>0, Places DEF SendInv, OwnLockInv, TypeOK, Receive
<1>4. CopyInv'
  BY <1>0, Places DEF CopyInv, TypeOK, Receive
<1>5. OrderInv'
  BY <1>0, Places DEF OrderInv, TypeOK, Receive
<1> QED BY <1>1, <1>2, <1>3, <1>4, <1>5 DEF IInv

\* Spin keeps the invariant (decoder.cpp:466-483).
LEMMA SpinKeeps ==
  ASSUME IInv, NEW r \in Requests, Spin(r)
  PROVE  IInv'
<1>0. TypeOK /\ OwnLockInv /\ SendInv /\ CopyInv /\ OrderInv
  BY DEF IInv
<1>1. TypeOK'
  BY <1>0, Places DEF TypeOK, Spin
<1>2. OwnLockInv'
  BY <1>0, Places DEF OwnLockInv, TypeOK, Spin
<1>3. SendInv'
  BY <1>0, Places DEF SendInv, OwnLockInv, TypeOK, Spin
<1>4. CopyInv'
  BY <1>0, Places DEF CopyInv, TypeOK, Spin
<1>5. OrderInv'
  BY <1>0, Places DEF OrderInv, TypeOK, Spin
<1> QED BY <1>1, <1>2, <1>3, <1>4, <1>5 DEF IInv

\* HeavyCrash keeps the invariant (decoder.cpp:488-520).
LEMMA HeavyCrashKeeps ==
  ASSUME IInv, NEW r \in Requests, HeavyCrash(r)
  PROVE  IInv'
<1>0. TypeOK /\ OwnLockInv /\ SendInv /\ CopyInv /\ OrderInv
  BY DEF IInv
<1>1. TypeOK'
  BY <1>0, Places DEF TypeOK, HeavyCrash, End
<1>2. OwnLockInv'
  BY <1>0, Places DEF OwnLockInv, TypeOK, HeavyCrash, End
<1>3. SendInv'
  BY <1>0, Places DEF SendInv, OwnLockInv, TypeOK, HeavyCrash, End
<1>4. CopyInv'
  BY <1>0, Places DEF CopyInv, TypeOK, HeavyCrash, End
<1>5. OrderInv'
  BY <1>0, Places DEF OrderInv, TypeOK, HeavyCrash, End
<1> QED BY <1>1, <1>2, <1>3, <1>4, <1>5 DEF IInv

\* HeavyReturn keeps the invariant (decoder.cpp:522-624).
LEMMA HeavyReturnKeeps ==
  ASSUME IInv, NEW r \in Requests, HeavyReturn(r)
  PROVE  IInv'
<1>0. TypeOK /\ OwnLockInv /\ SendInv /\ CopyInv /\ OrderInv
  BY DEF IInv
<1>1. TypeOK'
  BY <1>0, Places DEF TypeOK, HeavyReturn, Unlock
<1>2. OwnLockInv'
  BY <1>0, Places DEF OwnLockInv, TypeOK, HeavyReturn, Unlock
<1>3. SendInv'
  <2> SUFFICES ASSUME NEW q \in Requests, NEW m \in Others, peer[q][m] \in Writing, m \notin ended
               PROVE  /\ file_lock'[m] = <<q, m>>
                      /\ peer[q][m] = "sending" =>
                           left[q][m] % RECEIVE_BUFFER_SIZE = size % RECEIVE_BUFFER_SIZE
    BY DEF SendInv, HeavyReturn
  <2>1. /\ file_lock[m] = <<q, m>>
        /\ peer[q][m] = "sending" => left[q][m] % RECEIVE_BUFFER_SIZE = size % RECEIVE_BUFFER_SIZE
    BY <1>0 DEF SendInv
  <2>2. host[r] \notin ended /\ pc[r] = "decode"
    BY DEF HeavyReturn, At
  <2>3. host[r] # m /\ m \in Nodes /\ DOMAIN file_lock = Nodes
    BY <1>0, <2>2, Places, SenderElsewhere DEF TypeOK
  <2> QED BY <2>1, <2>3 DEF HeavyReturn, Unlock
<1>4. CopyInv'
  BY <1>0, Places DEF CopyInv, TypeOK, HeavyReturn, Unlock
<1>5. OrderInv'
  BY <1>0, Places DEF OrderInv, TypeOK, HeavyReturn, Unlock
<1> QED BY <1>1, <1>2, <1>3, <1>4, <1>5 DEF IInv

\* OpenCopy keeps the invariant (connection.cpp:89-95).
LEMMA OpenCopyKeeps ==
  ASSUME IInv, NEW r \in Requests, OpenCopy(r)
  PROVE  IInv'
<1>0. TypeOK /\ OwnLockInv /\ SendInv /\ CopyInv /\ OrderInv
  BY DEF IInv
<1>1. TypeOK'
  BY <1>0, Places DEF TypeOK, OpenCopy
<1>2. OwnLockInv'
  BY <1>0, Places DEF OwnLockInv, TypeOK, OpenCopy
<1>3. SendInv'
  BY <1>0, Places DEF SendInv, OwnLockInv, TypeOK, OpenCopy
<1>4. CopyInv'
  BY <1>0, Places DEF CopyInv, TypeOK, OpenCopy
<1>5. OrderInv'
  BY <1>0, Places DEF OrderInv, TypeOK, OpenCopy
<1> QED BY <1>1, <1>2, <1>3, <1>4, <1>5 DEF IInv

\* OpenFails keeps the invariant (connection.cpp:97-112).
LEMMA OpenFailsKeeps ==
  ASSUME IInv, NEW r \in Requests, r \in Gets, NEW h \in Requests, OpenFails(r, h)
  PROVE  IInv'
<1>0. TypeOK /\ OwnLockInv /\ SendInv /\ CopyInv /\ OrderInv
  BY DEF IInv
<1>1. TypeOK'
  BY <1>0, Places DEF TypeOK, OpenFails
<1>2. OwnLockInv'
  BY <1>0, Places DEF OwnLockInv, TypeOK, OpenFails
<1>3. SendInv'
  BY <1>0, Places DEF SendInv, OwnLockInv, TypeOK, OpenFails
<1>4. CopyInv'
  BY <1>0, Places DEF CopyInv, TypeOK, OpenFails
<1>5. OrderInv'
  BY <1>0, Places DEF OrderInv, TypeOK, OpenFails
<1> QED BY <1>1, <1>2, <1>3, <1>4, <1>5 DEF IInv

\* SendCopy keeps the invariant (connection.cpp:96-106).
LEMMA SendCopyKeeps ==
  ASSUME IInv, NEW r \in Requests, SendCopy(r)
  PROVE  IInv'
<1>0. TypeOK /\ OwnLockInv /\ SendInv /\ CopyInv /\ OrderInv
  BY DEF IInv
<1>1. TypeOK'
  <2>1. copy \in {"empty", "truncated", "whole", "junk"}
    BY <1>0 DEF TypeOK, CopyInv, SendCopy
  <2>2. sent' \in [Gets -> {"none", "nothing", "empty", "truncated", "whole", "junk"}]
    BY <1>0, <2>1 DEF TypeOK, SendCopy
  <2> QED BY <1>0, <2>2 DEF TypeOK, SendCopy
<1>2. OwnLockInv'
  BY <1>0, Places DEF OwnLockInv, TypeOK, SendCopy
<1>3. SendInv'
  BY <1>0, Places DEF SendInv, OwnLockInv, TypeOK, SendCopy
<1>4. CopyInv'
  BY <1>0, Places DEF CopyInv, TypeOK, SendCopy
<1>5. OrderInv'
  BY <1>0, Places DEF OrderInv, TypeOK, SendCopy
<1> QED BY <1>1, <1>2, <1>3, <1>4, <1>5 DEF IInv

\* Answer keeps the invariant (connection.cpp:758-779).
LEMMA AnswerKeeps ==
  ASSUME IInv, NEW r \in Requests, NEW n \in Others, Answer(r, n)
  PROVE  IInv'
<1>0. TypeOK /\ OwnLockInv /\ SendInv /\ CopyInv /\ OrderInv
  BY DEF IInv
<1>1. TypeOK'
  BY <1>0, Places DEF TypeOK, Answer, PeerGoto
<1>2. OwnLockInv'
  BY <1>0, Places DEF OwnLockInv, TypeOK, Answer, PeerGoto
<1>3. SendInv'
  BY <1>0, Places DEF SendInv, Writing, OwnLockInv, TypeOK, Answer, PeerGoto
<1>4. CopyInv'
  BY <1>0, Places DEF CopyInv, TypeOK, Answer, PeerGoto
<1>5. OrderInv'
  BY <1>0, Places DEF OrderInv, TypeOK, Answer, PeerGoto
<1> QED BY <1>1, <1>2, <1>3, <1>4, <1>5 DEF IInv

\* OrderLost keeps the invariant (connection.cpp:780-787).
LEMMA OrderLostKeeps ==
  ASSUME IInv, NEW r \in Requests, NEW n \in Others, OrderLost(r, n)
  PROVE  IInv'
<1>0. TypeOK /\ OwnLockInv /\ SendInv /\ CopyInv /\ OrderInv
  BY DEF IInv
<1>1. TypeOK'
  BY <1>0, Places DEF TypeOK, OrderLost, End
<1>2. OwnLockInv'
  BY <1>0, Places DEF OwnLockInv, TypeOK, OrderLost, End
<1>3. SendInv'
  BY <1>0, Places DEF SendInv, OwnLockInv, TypeOK, OrderLost, End
<1>4. CopyInv'
  BY <1>0, Places DEF CopyInv, TypeOK, OrderLost, End
<1>5. OrderInv'
  BY <1>0, Places DEF OrderInv, TypeOK, OrderLost, End
<1> QED BY <1>1, <1>2, <1>3, <1>4, <1>5 DEF IInv

\* LockLight keeps the invariant (connection.cpp:788-801).
LEMMA LockLightKeeps ==
  ASSUME IInv, NEW r \in Requests, NEW n \in Others, LockLight(r, n)
  PROVE  IInv'
<1>0. TypeOK /\ OwnLockInv /\ SendInv /\ CopyInv /\ OrderInv
  BY DEF IInv
<1>1. TypeOK'
  BY <1>0, Places DEF TypeOK, LockLight, PeerGoto, Lock
<1>2. OwnLockInv'
  BY <1>0, Places, Names DEF OwnLockInv, TypeOK, LockLight, PeerGoto, Lock
<1>3. SendInv'
  <2> SUFFICES ASSUME NEW q \in Requests, NEW m \in Others, peer'[q][m] \in Writing, m \notin ended'
               PROVE  /\ file_lock'[m] = <<q, m>>
                      /\ peer'[q][m] = "sending" =>
                           left'[q][m] % RECEIVE_BUFFER_SIZE = size' % RECEIVE_BUFFER_SIZE
    BY DEF SendInv
  <2>0. file_lock[n] = Free /\ file_lock' = [file_lock EXCEPT ![n] = <<r, n>>] /\ n \in Nodes
    BY Places, <1>0 DEF LockLight, Lock
  <2>1. CASE q = r /\ m = n
    <3>1. peer'[q][m] = "streaming"
      BY <1>0, <2>1 DEF TypeOK, LockLight, PeerGoto
    <3> QED BY <1>0, <2>0, <2>1, <3>1 DEF TypeOK
  <2>2. CASE ~(q = r /\ m = n)
    <3>1. peer[q][m] = peer'[q][m] /\ m \notin ended
      BY <1>0, <2>2 DEF TypeOK, LockLight, PeerGoto
    <3>2. /\ file_lock[m] = <<q, m>>
          /\ peer[q][m] = "sending" => left[q][m] % RECEIVE_BUFFER_SIZE = size % RECEIVE_BUFFER_SIZE
      BY <3>1 , <1>0 DEF SendInv
    <3>3. m # n
      BY <2>0, <3>2, Names
    <3> QED BY <1>0, <2>0, <3>1, <3>2, <3>3, Places DEF TypeOK, LockLight
  <2> QED BY <2>1, <2>2
<1>4. CopyInv'
  BY <1>0, Places DEF CopyInv, TypeOK, LockLight, PeerGoto, Lock
<1>5. OrderInv'
  BY <1>0, Places DEF OrderInv, TypeOK, LockLight, PeerGoto, Lock
<1> QED BY <1>1, <1>2, <1>3, <1>4, <1>5 DEF IInv

\* EndLight keeps the invariant (connection.cpp:802-826).
LEMMA EndLightKeeps ==
  ASSUME IInv, NEW r \in Requests, NEW n \in Others, EndLight(r, n)
  PROVE  IInv'
<1>0. TypeOK /\ OwnLockInv /\ SendInv /\ CopyInv /\ OrderInv
  BY DEF IInv
<1>h. file_lock[n] = <<r, n>>
  BY <1>0 DEF SendInv, EndLight, Writing
<1>1. TypeOK'
  BY <1>0, Places DEF TypeOK, EndLight, PeerGoto, Unlock
<1>2. OwnLockInv'
  <2>1. n \notin ended /\ file_lock' = [file_lock EXCEPT ![n] = Free]
    BY DEF EndLight, Unlock
  <2>2. UNCHANGED <<pc, host, ended>>
    BY DEF EndLight
  <2> SUFFICES ASSUME NEW q \in Requests, host[q] # Master, host[q] \notin ended,
                      pc[q] \notin {"failed", "abandoned"}
               PROVE  file_lock'[host[q]] = q
    BY <1>0, <2>2 DEF OwnLockInv
  <2>3. file_lock[host[q]] = q
    BY <1>0 DEF OwnLockInv
  <2>4. host[q] # n
    BY <1>h, <2>3, Names
  <2> QED BY <1>0, <2>1, <2>3, <2>4, Places DEF TypeOK
<1>3. SendInv'
  <2> SUFFICES ASSUME NEW q \in Requests, NEW m \in Others, peer'[q][m] \in Writing, m \notin ended'
               PROVE  /\ file_lock'[m] = <<q, m>>
                      /\ peer'[q][m] = "sending" =>
                           left'[q][m] % RECEIVE_BUFFER_SIZE = size' % RECEIVE_BUFFER_SIZE
    BY DEF SendInv
  <2>1. ~(q = r /\ m = n)
    BY <1>0 DEF TypeOK, EndLight, PeerGoto, Writing
  <2>2. peer[q][m] = peer'[q][m] /\ m \notin ended
    BY <1>0, <2>1 DEF TypeOK, EndLight, PeerGoto
  <2>3. /\ file_lock[m] = <<q, m>>
        /\ peer[q][m] = "sending" => left[q][m] % RECEIVE_BUFFER_SIZE = size % RECEIVE_BUFFER_SIZE
    BY <2>2, <1>0 DEF SendInv
  <2>4. m # n
    BY <1>h, <2>1, <2>3
  <2> QED BY <1>0, <2>2, <2>3, <2>4, Places DEF TypeOK, EndLight, Unlock
<1>4. CopyInv'
  BY <1>0, Places DEF CopyInv, TypeOK, EndLight, PeerGoto, Unlock
<1>5. OrderInv'
  BY <1>0, Places DEF OrderInv, TypeOK, EndLight, PeerGoto, Unlock
<1> QED BY <1>1, <1>2, <1>3, <1>4, <1>5 DEF IInv

\* SendNormal keeps the invariant (connection.cpp:827-853).
LEMMA SendNormalKeeps ==
  ASSUME IInv, NEW r \in Requests, NEW n \in Others, SendNormal(r, n)
  PROVE  IInv'
<1>0. TypeOK /\ OwnLockInv /\ SendInv /\ CopyInv /\ OrderInv
  BY DEF IInv
<1>a. size \in 0..Word-1
  BY <1>0, ReconstructAssumption DEF TypeOK
<1>b. Rest(size) \in 0..Word-1 /\ Rest(size) % RECEIVE_BUFFER_SIZE = size % RECEIVE_BUFFER_SIZE
  BY <1>a, RestKeepsRemainder
<1>c. left' = [left EXCEPT ![r] = [left[r] EXCEPT ![n] = Rest(size)]]
  BY <1>0 DEF SendNormal, TypeOK
<1>d. /\ left'[r][n] = Rest(size)
      /\ \A q \in Requests, m \in Others : <<q, m>> # <<r, n>> => left'[q][m] = left[q][m]
  BY <1>0, <1>c DEF TypeOK
<1>1. TypeOK'
  <2>1. left' \in [Requests -> [Others -> 0..Word-1]]
    BY <1>0, <1>b, <1>c DEF TypeOK
  <2>2. peer' \in [Requests -> [Others -> {"none", "asked", "ready", "cut", "light", "streaming", "normal", "sending", "closed"}]]
    BY <1>0 DEF TypeOK, SendNormal, PeerGoto
  <2>3. file_lock' \in [Nodes -> Holders]
    BY <1>0, Places DEF TypeOK, Holders, SendNormal, Lock
  <2> QED BY <1>0, <2>1, <2>2, <2>3 DEF TypeOK, Holders, SendNormal
<1>2. OwnLockInv'
  BY <1>0, Places, Names DEF OwnLockInv, TypeOK, SendNormal, Lock
<1>3. SendInv'
  <2> SUFFICES ASSUME NEW q \in Requests, NEW m \in Others, peer'[q][m] \in Writing, m \notin ended'
               PROVE  /\ file_lock'[m] = <<q, m>>
                      /\ peer'[q][m] = "sending" =>
                           left'[q][m] % RECEIVE_BUFFER_SIZE = size' % RECEIVE_BUFFER_SIZE
    BY DEF SendInv
  <2>1. CASE q = r /\ m = n
    BY <1>0, <1>b, <1>d, <2>1, Places DEF TypeOK, SendNormal, Lock
  <2>2. CASE ~(q = r /\ m = n)
    <3>1. peer[q][m] = peer'[q][m] /\ m \notin ended
      BY <1>0, <2>2 DEF TypeOK, SendNormal, PeerGoto
    <3>2. /\ file_lock[m] = <<q, m>>
          /\ peer[q][m] = "sending" => left[q][m] % RECEIVE_BUFFER_SIZE = size % RECEIVE_BUFFER_SIZE
      BY <1>0, <3>1 DEF SendInv
    <3>3. m # n
      BY <3>2, Names DEF SendNormal, Lock
    <3>4. left'[q][m] = left[q][m]
      BY <1>d, <2>2
    <3> QED BY <1>0, <3>1, <3>2, <3>3, <3>4, Places DEF TypeOK, SendNormal, Lock
  <2> QED BY <2>1, <2>2
<1>4. CopyInv'
  BY <1>0, Places DEF CopyInv, TypeOK, SendNormal, Lock, PeerGoto
<1>5. OrderInv'
  BY <1>0, Places DEF OrderInv, TypeOK, SendNormal, Lock, PeerGoto
<1> QED BY <1>1, <1>2, <1>3, <1>4, <1>5 DEF IInv

\* WriteNormal keeps the invariant (connection.cpp:839-854).
LEMMA WriteNormalKeeps ==
  ASSUME IInv, NEW r \in Requests, NEW n \in Others, WriteNormal(r, n)
  PROVE  IInv'
<1>0. TypeOK /\ OwnLockInv /\ SendInv /\ CopyInv /\ OrderInv
  BY DEF IInv
<1>a. left[r][n] \in 0..Word-1
  BY <1>0, ReconstructAssumption DEF TypeOK
<1>b. Rest(left[r][n]) \in 0..Word-1 /\ Rest(left[r][n]) % RECEIVE_BUFFER_SIZE = left[r][n] % RECEIVE_BUFFER_SIZE
  BY <1>a, RestKeepsRemainder
<1>c. left' = [left EXCEPT ![r] = [left[r] EXCEPT ![n] = Rest(left[r][n])]]
  BY <1>0 DEF WriteNormal, TypeOK
<1>d. /\ left'[r][n] = Rest(left[r][n])
      /\ \A q \in Requests, m \in Others : <<q, m>> # <<r, n>> => left'[q][m] = left[q][m]
  BY <1>0, <1>c DEF TypeOK
<1>1. TypeOK'
  <2>1. left' \in [Requests -> [Others -> 0..Word-1]]
    BY <1>0, <1>b, <1>c DEF TypeOK
  <2> QED BY <1>0, <2>1 DEF TypeOK, WriteNormal
<1>2. OwnLockInv'
  BY <1>0, Places DEF OwnLockInv, TypeOK, WriteNormal
<1>3. SendInv'
  <2> SUFFICES ASSUME NEW q \in Requests, NEW m \in Others, peer'[q][m] \in Writing, m \notin ended'
               PROVE  /\ file_lock'[m] = <<q, m>>
                      /\ peer'[q][m] = "sending" =>
                           left'[q][m] % RECEIVE_BUFFER_SIZE = size' % RECEIVE_BUFFER_SIZE
    BY DEF SendInv
  <2>1. peer[q][m] \in Writing /\ peer[q][m] = peer'[q][m] /\ m \notin ended
    BY DEF WriteNormal
  <2>2. /\ file_lock[m] = <<q, m>>
        /\ peer[q][m] = "sending" => left[q][m] % RECEIVE_BUFFER_SIZE = size % RECEIVE_BUFFER_SIZE
    BY <1>0, <2>1 DEF SendInv
  <2>3. file_lock' = file_lock /\ size' = size
    BY DEF WriteNormal
  <2>4. CASE <<q, m>> = <<r, n>>
    BY <1>b, <1>d, <2>1, <2>2, <2>3, <2>4
  <2>5. CASE <<q, m>> # <<r, n>>
    BY <1>d, <2>1, <2>2, <2>3, <2>5
  <2> QED BY <2>4, <2>5
<1>4. CopyInv'
  BY <1>0, Places DEF CopyInv, TypeOK, WriteNormal
<1>5. OrderInv'
  BY <1>0, Places DEF OrderInv, TypeOK, WriteNormal
<1> QED BY <1>1, <1>2, <1>3, <1>4, <1>5 DEF IInv

\* EndNormal keeps the invariant (connection.cpp:855-860).
LEMMA EndNormalKeeps ==
  ASSUME IInv, NEW r \in Requests, NEW n \in Others, EndNormal(r, n)
  PROVE  IInv'
<1>0. TypeOK /\ OwnLockInv /\ SendInv /\ CopyInv /\ OrderInv
  BY DEF IInv
<1>1. TypeOK'
  BY <1>0, Places DEF TypeOK, EndNormal, Unlock, PeerGoto
<1>2. OwnLockInv'
  <2>1. n \notin ended /\ file_lock[n] = <<r, n>> /\ file_lock' = [file_lock EXCEPT ![n] = Free]
    BY <1>0 DEF SendInv, Writing, EndNormal, Unlock
  <2>2. UNCHANGED <<pc, host, ended>>
    BY DEF EndNormal
  <2> SUFFICES ASSUME NEW q \in Requests, host[q] # Master, host[q] \notin ended,
                      pc[q] \notin {"failed", "abandoned"}
               PROVE  file_lock'[host[q]] = q
    BY <1>0, <2>2 DEF OwnLockInv
  <2>3. file_lock[host[q]] = q
    BY <1>0 DEF OwnLockInv
  <2>4. host[q] # n
    BY <2>1, <2>3, Names
  <2> QED BY <1>0, <2>1, <2>3, <2>4, Places DEF TypeOK
<1>3. SendInv'
  <2> SUFFICES ASSUME NEW q \in Requests, NEW m \in Others, peer'[q][m] \in Writing, m \notin ended'
               PROVE  /\ file_lock'[m] = <<q, m>>
                      /\ peer'[q][m] = "sending" =>
                           left'[q][m] % RECEIVE_BUFFER_SIZE = size' % RECEIVE_BUFFER_SIZE
    BY DEF SendInv
  <2>0. file_lock[n] = <<r, n>>
    BY <1>0 DEF SendInv, Writing, EndNormal
  <2>1. ~(q = r /\ m = n)
    BY <1>0 DEF TypeOK, EndNormal, PeerGoto, Writing
  <2>2. peer[q][m] = peer'[q][m] /\ m \notin ended
    BY <1>0, <2>1 DEF TypeOK, EndNormal, PeerGoto
  <2>3. /\ file_lock[m] = <<q, m>>
        /\ peer[q][m] = "sending" => left[q][m] % RECEIVE_BUFFER_SIZE = size % RECEIVE_BUFFER_SIZE
    BY <2>2, <1>0 DEF SendInv
  <2>4. m # n
    BY <2>0, <2>1, <2>3
  <2> QED BY <1>0, <2>2, <2>3, <2>4, Places DEF TypeOK, EndNormal, Unlock
<1>4. CopyInv'
  BY <1>0, Places DEF CopyInv, TypeOK, EndNormal, Unlock, PeerGoto
<1>5. OrderInv'
  BY <1>0, Places DEF OrderInv, TypeOK, EndNormal, Unlock, PeerGoto
<1> QED BY <1>1, <1>2, <1>3, <1>4, <1>5 DEF IInv

-----------------------------------------------------------------------------
(* The theorems *)

\* A step of a request or of one of its peers keeps the invariant.
LEMMA NextIInv == IInv /\ [Next]_vars => IInv'
<1> SUFFICES ASSUME IInv, [Next]_vars PROVE IInv'
  OBVIOUS
<1>1. CASE \E g \in Gets : GetTest(g) \/ \E h \in Gets : OpenFails(g, h)
  BY <1>1, GetTestKeeps, OpenFailsKeeps DEF Requests
<1>2. CASE \E u \in Updates : \E d \in Data : UpdateLock(u, d)
  BY <1>2, UpdateLockKeeps DEF Requests
<1>3. ASSUME NEW r \in Requests, Step(r) PROVE IInv'
  <2>1. CASE SegmentFound(r) \/ SegmentMissing(r) \/ Connect(r) \/ AnswerLost(r) \/ GiveUp(r)
    BY <2>1, SegmentFoundKeeps, SegmentMissingKeeps, ConnectKeeps, AnswerLostKeeps, GiveUpKeeps
  <2>2. CASE OrderLight(r) \/ DecideHeavy(r) \/ CopyLock(r) \/ Collect(r) \/ Discard(r)
          \/ HeavyLock(r)
    BY <2>2, OrderLightKeeps, DecideHeavyKeeps, CopyLockKeeps, CollectKeeps, DiscardKeeps,
       HeavyLockKeeps
  <2>3. CASE \E n \in Others : AskBlock(r, n)
    BY <2>3, AskBlockKeeps
  <2>4. CASE Receive(r) \/ Spin(r) \/ HeavyCrash(r) \/ HeavyReturn(r) \/ OpenCopy(r) \/ SendCopy(r)
    BY <2>4, ReceiveKeeps, SpinKeeps, HeavyCrashKeeps, HeavyReturnKeeps, OpenCopyKeeps, SendCopyKeeps
  <2> QED BY <1>3, <2>1, <2>2, <2>3, <2>4 DEF Step
<1>4. ASSUME NEW r \in Requests, NEW n \in Others, PeerStep(r, n) PROVE IInv'
  BY <1>4, AnswerKeeps, OrderLostKeeps, LockLightKeeps, EndLightKeeps, SendNormalKeeps,
     WriteNormalKeeps, EndNormalKeeps DEF PeerStep
<1>5. CASE UNCHANGED vars
  BY <1>5 DEF IInv, TypeOK, OwnLockInv, SendInv, CopyInv, OrderInv, vars
<1> QED BY <1>1, <1>2, <1>3, <1>4, <1>5 DEF Next

\* The invariant holds of all executions.
THEOREM Inductive == Spec => []IInv
<1> QED BY InitIInv, NextIInv, PTL DEF Spec

\* All variables keep their types.
THEOREM TypeCorrect == Spec => []TypeOK
<1>1. IInv => TypeOK
  BY DEF IInv
<1> QED BY <1>1, Inductive, PTL

\* The only step that writes to the file of a block waits for the lock that the handler
\* of the UPDATE on that node holds (connection.cpp:160, decoder.cpp:389).
LEMMA LostStaysLost ==
  ASSUME IInv, [Next]_vars
  PROVE  lost \subseteq lost'
<1>1. CASE \E r \in Requests : HeavyLock(r)
  <2>1. PICK r \in Requests : HeavyLock(r)
    BY <1>1
  <2>2. pc[r] = "heavy_lock" /\ host[r] \notin ended /\ file_lock[host[r]] = Free
    BY <2>1 DEF HeavyLock, Lock
  <2>3. host[r] = Master
    BY <2>2, Names DEF IInv, OwnLockInv
  <2>4. lost \subseteq Others /\ Master \notin Others
    BY Places DEF IInv, TypeOK
  <2> QED BY <2>1, <2>3, <2>4 DEF HeavyLock
<1>2. CASE ~ \E r \in Requests : HeavyLock(r)
  <2>1. lost' = lost
    <3>1. CASE \E g \in Gets : GetTest(g) \/ \E h \in Gets : OpenFails(g, h)
      BY <3>1 DEF GetTest, OpenFails
    <3>2. CASE \E u \in Updates : \E d \in Data : UpdateLock(u, d)
      BY <3>2 DEF UpdateLock
    <3>3. CASE \E r \in Requests : Step(r)
      <4>1. PICK r \in Requests : Step(r)
        BY <3>3
      <4>2. CASE SegmentFound(r) \/ SegmentMissing(r) \/ Connect(r) \/ AnswerLost(r) \/ GiveUp(r)
        BY <4>2 DEF SegmentFound, SegmentMissing, Connect, AnswerLost, GiveUp, disks
      <4>3. CASE OrderLight(r) \/ DecideHeavy(r) \/ CopyLock(r) \/ Collect(r) \/ Discard(r)
        BY <4>3 DEF OrderLight, DecideHeavy, CopyLock, Collect, Discard, disks
      <4>4. CASE (\E n \in Others : AskBlock(r, n)) \/ Receive(r) \/ Spin(r) \/ HeavyCrash(r)
        BY <4>4 DEF AskBlock, Receive, Spin, HeavyCrash, disks
      <4>5. CASE HeavyReturn(r) \/ OpenCopy(r) \/ SendCopy(r)
        BY <4>5 DEF HeavyReturn, OpenCopy, SendCopy, disks
      <4> QED BY <1>2, <4>1, <4>2, <4>3, <4>4, <4>5 DEF Step
    <3>4. CASE \E r \in Requests, n \in Others : PeerStep(r, n)
      BY <3>4 DEF PeerStep, Answer, OrderLost, LockLight, EndLight, SendNormal, WriteNormal,
         EndNormal, disks
    <3>5. CASE UNCHANGED vars
      BY <3>5 DEF vars
    <3> QED BY <3>1, <3>2, <3>3, <3>4, <3>5 DEF Next
  <2> QED BY <2>1
<1> QED BY <1>1, <1>2

\* A lost block is never restored, however many requests there are.
THEOREM LostForGood == Spec => LostBlockStaysLost
<1>1. IInv /\ [Next]_vars => [lost \subseteq lost']_vars
  BY LostStaysLost
<1> QED BY <1>1, Inductive, PTL DEF Spec, LostBlockStaysLost

\* A handler whose block is not a multiple of the buffer goes on sending with the lock.
LEMMA KeepsSending ==
  ASSUME IInv, IInv', [Next]_vars, NEW r \in Requests, NEW n \in Others,
         peer[r][n] = "sending", size % RECEIVE_BUFFER_SIZE # 0
  PROVE  file_lock'[n] = <<r, n>> \/ n \in ended'
<1> SUFFICES ASSUME n \notin ended' PROVE file_lock'[n] = <<r, n>>
  OBVIOUS
<1>0. TypeOK /\ OwnLockInv /\ SendInv
  BY DEF IInv
<1>1. peer'[r][n] = "sending"
  <2>1. ~EndNormal(r, n)
    <3>1. n \notin ended => left[r][n] % RECEIVE_BUFFER_SIZE # 0
      BY <1>0 DEF SendInv, Writing
    <3>2. 0 % RECEIVE_BUFFER_SIZE = 0
      BY ReconstructAssumption, SMTT(20)
    <3> QED BY <3>1, <3>2 DEF EndNormal
  <2>2. ~Connect(r) /\ ~OrderLight(r)
    BY DEF IInv, OrderInv, Connect, OrderLight
  <2>3. ASSUME NEW q \in Requests, Step(q) PROVE peer'[r][n] = "sending"
    <3>1. CASE q # r
      BY <1>0, <2>3, <3>1 DEF TypeOK, Step, SegmentFound, SegmentMissing, Connect, AnswerLost,
         GiveUp, OrderLight, DecideHeavy, CopyLock, Collect, Discard, HeavyLock, AskBlock, Receive, Spin,
         HeavyCrash, HeavyReturn, OpenCopy, SendCopy
    <3>2. CASE q = r
      BY <1>0, <2>2, <2>3, <3>2 DEF TypeOK, Step, SegmentFound, SegmentMissing, AnswerLost,
         GiveUp, DecideHeavy, CopyLock, Collect, Discard, HeavyLock, AskBlock, Receive, Spin,
         HeavyCrash, HeavyReturn, OpenCopy, SendCopy
    <3> QED BY <3>1, <3>2
  <2>4. ASSUME NEW q \in Requests, NEW m \in Others, PeerStep(q, m) PROVE peer'[r][n] = "sending"
    BY <1>0, <2>1, <2>4 DEF TypeOK, PeerStep, Answer, OrderLost, LockLight, EndLight, SendNormal,
       WriteNormal, EndNormal, PeerGoto
  <2>5. CASE UNCHANGED peer
    BY <2>5
  <2> QED BY <2>3, <2>4, <2>5 DEF Next, vars, GetTest, OpenFails, UpdateLock
<1> QED BY <1>1 DEF IInv, SendInv, Writing

\* For every size of a block and of the buffer, and every width of unsigned numbers.
THEOREM LockKeptForEver == Spec => SendsForEver
<1>1. IInv /\ IInv' /\ [Next]_vars =>
        [\A r \in Requests, n \in Others :
           peer[r][n] = "sending" /\ size % RECEIVE_BUFFER_SIZE # 0
             => file_lock'[n] = <<r, n>> \/ n \in ended']_vars
  BY KeepsSending
<1> QED BY <1>1, Inductive, PTL DEF Spec, SendsForEver

-----------------------------------------------------------------------------
(***************************************************************************)
(* Which processes end, and what a GET sends                               *)
(***************************************************************************)
\* Decoders that reconstruct heavily, and requests that write the full copy at the master.
HeavyPCs == {"heavy_lock", "heavy", "receive", "spinning", "decode"}
WritePCs == {"collect", "discard", "heavy", "receive", "spinning", "decode"}

\* Only a GET sends; a data node decodes only a segment that it has lost.
PlaceInv ==
  \A r \in Requests :
    /\ pc[r] \in {"open", "sending", "done"} => r \in Gets
    /\ host[r] # Master /\ pc[r] # "locked" => host[r] \in lost

\* While a decoder waits for answers, every server has still to answer, or is ready, or has
\* lost its block.
AnswerInv ==
  \A r \in Requests : pc[r] = "statuses" /\ host[r] \notin ended =>
     \A n \in Others \ {host[r]} : peer[r][n] \in {"asked", "ready"} \/ n \in lost

\* With enough blocks no decoder gives up, and no server of a block ends before the master.
UpInv ==
  Cardinality(lost) <= M /\ Master \notin ended =>
    /\ Others \cap ended = {}
    /\ \A r \in Requests, n \in Others : peer[r][n] # "cut"

\* No decoder is heavy while all data blocks are there.
HeavyInv == \A r \in Requests : pc[r] \in HeavyPCs => lost \cap Data # {}

\* A GET of an object whose full copy was there decodes because of another GET.
GetInv ==
  at_start = "whole" =>
    /\ copy # "absent"
    /\ \A g \in Gets : pc[g] \notin {"idle", "open", "sending", "done"} =>
         \E h \in Gets \ {g} : pc[h] \in {"sending", "done"}

\* Who writes the full copy has the lock of it.
WriteInv ==
  Master \notin ended => \A r \in Requests : pc[r] \in WritePCs <=> file_lock[Master] = r

\* The full copy is truncated only under that lock, and not while it is sent, nor when a
\* decoder could not open it.
TruncatedInv ==
  Master \notin ended =>
    /\ copy = "truncated" => \E r \in Requests : file_lock[Master] = r
    /\ \A r \in Requests : pc[r] \in {"sending", "discard"} => copy # "truncated"

\* What the full copy is, by what is lost.
StateInv ==
  /\ \A r \in Requests : pc[r] \in WritePCs => copy # "absent"
  /\ \A r \in Requests : pc[r] = "open" /\ copy = "absent" => ~(Cardinality(lost) <= M)
  /\ copy = "empty" => ~(Cardinality(lost) <= M) /\ at_start = "absent"
  /\ copy = "junk" => lost \cap Data # {}

\* The inductive invariant of the safety properties, on top of IInv.
SInv ==
  /\ PlaceInv /\ AnswerInv /\ UpInv /\ HeavyInv /\ GetInv /\ WriteInv /\ TruncatedInv
  /\ StateInv /\ SentIsSound /\ MasterEndsByTwoGets

-----------------------------------------------------------------------------
(* What the polls of the servers tell *)

USE DEF At, Goto, Peer, disks

\* A heavy decoder gets its lock at the master only, where no block is lost by it.
LEMMA HeavyLockAtMaster ==
  ASSUME IInv, NEW r \in Requests, HeavyLock(r)
  PROVE  lost' = lost /\ host[r] = Master
<1>1. pc[r] = "heavy_lock" /\ host[r] \notin ended /\ file_lock[host[r]] = Free
  BY DEF HeavyLock, Lock
<1>2. host[r] = Master
  BY <1>1, Names DEF IInv, OwnLockInv
<1>3. lost \subseteq Others /\ Master \notin Others
  BY Places DEF IInv, TypeOK
<1> QED BY <1>2, <1>3 DEF HeavyLock

\* GETs run on the master.
LEMMA GetsAtMaster ==
  ASSUME OwnLockInv, NEW g \in Gets
  PROVE  host[g] = Master /\ g \in Requests
BY ReconstructAssumption DEF OwnLockInv, Requests

\* How many servers are left of K + M when at most M are taken away.
LEMMA EnoughAreLeft ==
  ASSUME NEW S \in SUBSET Others, Cardinality(S) <= M
  PROVE  /\ IsFiniteSet(Others \ S)
         /\ Cardinality(Others \ S) >= K
<1>1. K \in Nat /\ M \in Nat /\ K > 0
  BY ReconstructAssumption
<1>2. IsFiniteSet(Others) /\ Cardinality(Others) = K + M
  BY <1>1, FS_Interval DEF Others
<1>3. Others \cap S = S /\ IsFiniteSet(S)
  BY <1>2, FS_Subset
<1>4. /\ IsFiniteSet(Others \ S)
      /\ Cardinality(Others \ S) = Cardinality(Others) - Cardinality(S)
  BY <1>2, <1>3, FS_Difference
<1>5. Cardinality(S) \in Nat
  BY <1>3, FS_CardinalityType
<1> QED BY <1>1, <1>2, <1>4, <1>5

\* The number of lost blocks is a number.
LEMMA LostIsFinite ==
  ASSUME TypeOK
  PROVE  ~(Cardinality(lost) <= M) => Cardinality(lost) > M
<1>1. K + M \in Int /\ M \in Nat /\ lost \in SUBSET Others
  BY ReconstructAssumption DEF TypeOK
<1>2. IsFiniteSet(Others)
  BY <1>1, FS_Interval DEF Others
<1>3. Cardinality(lost) \in Nat
  BY <1>1, <1>2, FS_Subset, FS_CardinalityType
<1> QED BY <1>1, <1>3

\* With at most M blocks lost, K servers are ready when all have answered
\* (decoder.cpp:333).
LEMMA EnoughAreReady ==
  ASSUME IInv, SInv, NEW r \in Requests, At(r, "statuses"), Answered(r), Cardinality(lost) <= M
  PROVE  ~(positive_response(r) < K)
<1>1. TypeOK /\ lost \subseteq Others /\ host[r] \in {Master} \cup Data
  BY DEF IInv, TypeOK
<1>2. \A n \in Others \ {host[r]} : n \notin lost => peer[r][n] = "ready"
  BY DEF SInv, AnswerInv, Answered, Peers
<1>3. host[r] # Master => host[r] \in lost
  BY DEF SInv, PlaceInv
<1>4. Others \ lost \subseteq Peers(r, "ready")
  BY <1>1, <1>2, <1>3, Places DEF Peers
<1>5. IsFiniteSet(Peers(r, "ready"))
  <2>1. K + M \in Int /\ Peers(r, "ready") \in SUBSET Others
    BY ReconstructAssumption DEF Peers
  <2>2. IsFiniteSet(Others)
    BY <2>1, FS_Interval DEF Others
  <2> QED BY <2>1, <2>2, FS_Subset
<1>6. IsFiniteSet(Others \ lost) /\ Cardinality(Others \ lost) >= K
  BY <1>1, EnoughAreLeft
<1>7. Cardinality(Others \ lost) <= Cardinality(Peers(r, "ready"))
  BY <1>4, <1>5, FS_Subset
<1>8. Cardinality(Others \ lost) \in Nat /\ Cardinality(Peers(r, "ready")) \in Nat /\ K \in Nat
  BY <1>5, <1>6, FS_CardinalityType, ReconstructAssumption
<1> QED BY <1>6, <1>7, <1>8 DEF positive_response

\* A decoder that does not choose the light-weight path misses a data block
\* (decoder.cpp:375).
LEMMA HeavyForData ==
  ASSUME IInv, SInv, NEW r \in Requests, At(r, "statuses"), Answered(r), ~Light(r)
  PROVE  lost \cap Data # {}
<1>1. TypeOK /\ host[r] \in {Master} \cup Data
  BY DEF IInv, TypeOK
<1>2. CASE host[r] # Master
  BY <1>1, <1>2 DEF SInv, PlaceInv
<1>3. CASE host[r] = Master
  <2>1. PICK d \in Data : peer[r][d] # "ready"
    BY <1>1, <1>3, Places DEF Light, Peers
  <2>2. d \in Others \ {host[r]}
    BY <1>1, <1>3, Places
  <2>3. peer[r][d] # "asked"
    BY <2>2 DEF Answered, Peers
  <2>4. d \in lost
    BY <2>1, <2>2, <2>3 DEF SInv, AnswerInv
  <2> QED BY <2>4
<1> QED BY <1>2, <1>3

\* No more than M blocks are lost when no data block is.
LEMMA ParityLossIsSmall ==
  ASSUME IInv, lost \cap Data = {}
  PROVE  Cardinality(lost) <= M
<1>1. K \in Nat /\ M \in Nat /\ K > 0 /\ M > 0
  BY ReconstructAssumption
<1>2. lost \subseteq K+1..K+M
  BY <1>1 DEF IInv, TypeOK, Others, Data
<1>3. IsFiniteSet(K+1..K+M) /\ Cardinality(K+1..K+M) = M
  BY <1>1, FS_Interval
<1> QED BY <1>2, <1>3, FS_Subset

-----------------------------------------------------------------------------
(* Every step keeps the invariant *)
\* What steps keep of the requests that stand for a GET that decodes.
LEMMA GetsKept ==
  ASSUME GetInv, at_start' = at_start, copy' = "absent" => copy = "absent",
         \A g \in Gets : pc[g] \in {"sending", "done"} => pc'[g] \in {"sending", "done"},
         \A g \in Gets : pc'[g] \notin {"idle", "open", "sending", "done"} =>
                         pc[g] \notin {"idle", "open", "sending", "done"}
  PROVE  GetInv'
<1> SUFFICES ASSUME at_start = "whole"
             PROVE  /\ copy' # "absent"
                    /\ \A g \in Gets : pc'[g] \notin {"idle", "open", "sending", "done"} =>
                         \E h \in Gets \ {g} : pc'[h] \in {"sending", "done"}
  BY DEF GetInv
<1>1. copy' # "absent"
  BY DEF GetInv
<1>2. ASSUME NEW g \in Gets, pc'[g] \notin {"idle", "open", "sending", "done"}
      PROVE  \E h \in Gets \ {g} : pc'[h] \in {"sending", "done"}
  <2>1. PICK h \in Gets \ {g} : pc[h] \in {"sending", "done"}
    BY <1>2 DEF GetInv
  <2>2. pc'[h] \in {"sending", "done"}
    BY <2>1
  <2> QED BY <2>2
<1> QED BY <1>1, <1>2

\* What ended the master keeps its witnesses.
LEMMA EndKept ==
  ASSUME MasterEndsByTwoGets, lost' = lost, at_start' = at_start,
         Master \in ended' => Master \in ended,
         \A g \in Gets : pc[g] \in {"sending", "done"} => pc'[g] \in {"sending", "done"},
         \A g \in Gets : Master \in ended /\ pc[g] = "statuses" => pc'[g] = "statuses"
  PROVE  MasterEndsByTwoGets'
<1> SUFFICES ASSUME Master \in ended, at_start = "whole", lost \cap Data = {}
             PROVE  \E g \in Gets : \E h \in Gets \ {g} :
                       pc'[g] = "statuses" /\ pc'[h] \in {"sending", "done"}
  BY DEF MasterEndsByTwoGets
<1>1. PICK g \in Gets : \E h \in Gets \ {g} : pc[g] = "statuses" /\ pc[h] \in {"sending", "done"}
  BY DEF MasterEndsByTwoGets
<1>2. PICK h \in Gets \ {g} : pc[g] = "statuses" /\ pc[h] \in {"sending", "done"}
  BY <1>1
<1> QED BY <1>2

\* An exception is thrown while the lock of the full copy is another's, and when a server
\* of a block has ended: with all data blocks there the master has ended before.
LEMMA ThrowSafe ==
  ASSUME IInv, SInv, NEW r \in Requests, pc[r] \in {"connect", "statuses"}, host[r] \notin ended,
         Throw(r), Others \cap ended # {}, UNCHANGED disks
  PROVE  /\ Master \notin ended' => file_lock'[Master] = file_lock[Master]
         /\ \A g \in Gets : pc'[g] = pc[g]
         /\ \A q \in Requests : pc'[q] = pc[q] \/ pc'[q] = "abandoned"
         /\ GetInv' /\ MasterEndsByTwoGets'
<1>0. TypeOK /\ OwnLockInv
  BY DEF IInv
<1>1. \A g \in Gets : pc'[g] = pc[g]
  BY <1>0, GetsAtMaster DEF TypeOK, Throw, End
<1>2. \A q \in Requests : pc'[q] = pc[q] \/ pc'[q] = "abandoned"
  BY <1>0 DEF TypeOK, Throw, End
<1>3. Master \notin ended' => file_lock'[Master] = file_lock[Master]
  <2> SUFFICES ASSUME Master \notin ended' PROVE file_lock'[Master] = file_lock[Master]
    OBVIOUS
  <2>1. Master \notin ended /\ r \notin Gets
    BY DEF Throw, End
  <2>2. file_lock[Master] # r
    BY <2>1 DEF SInv, WriteInv, WritePCs
  <2>3. host[r] # Master \/ file_lock' = file_lock
    BY <2>1, <2>2 DEF Throw
  <2> QED BY <1>0, <2>1, <2>3, Places DEF Throw, Unlock, TypeOK
<1>4. GetInv'
  BY <1>1, GetsKept DEF SInv
<1>5. MasterEndsByTwoGets'
  <2>1. CASE lost \cap Data = {} /\ Master \notin ended
    BY <2>1, ParityLossIsSmall DEF SInv, UpInv
  <2>2. CASE lost \cap Data # {}
    BY <2>2 DEF MasterEndsByTwoGets
  <2>3. CASE Master \in ended
    BY <1>1, <2>3, EndKept DEF SInv
  <2> QED BY <2>1, <2>2, <2>3
<1> QED BY <1>1, <1>2, <1>3, <1>4, <1>5

\* The requests that are there when everything begins satisfy the invariant.
LEMMA InitSInv == Init => SInv
<1> SUFFICES ASSUME Init PROVE SInv
  OBVIOUS
<1>1. Master \in Nodes /\ Gets \subseteq Requests /\ Free \notin Requests
  BY ReconstructAssumption DEF Nodes, Requests
<1>2. PlaceInv /\ AnswerInv /\ UpInv /\ HeavyInv
  BY DEF Init, PlaceInv, AnswerInv, UpInv, HeavyInv, HeavyPCs
<1>3. GetInv /\ WriteInv /\ TruncatedInv
  BY <1>1 DEF Init, GetInv, WriteInv, TruncatedInv, WritePCs
<1>4. StateInv /\ SentIsSound /\ MasterEndsByTwoGets
  BY DEF Init, StateInv, SentIsSound, MasterEndsByTwoGets, WritePCs
<1> QED BY <1>2, <1>3, <1>4 DEF SInv

\* GetTest keeps the invariant (connection.cpp:69-87).
LEMMA GetTestSafe ==
  ASSUME IInv, SInv, NEW r \in Requests, r \in Gets, GetTest(r)
  PROVE  SInv'
<1>0. TypeOK /\ OwnLockInv /\ SendInv /\ CopyInv /\ OrderInv
  BY DEF IInv
<1>s. /\ PlaceInv /\ AnswerInv /\ UpInv /\ HeavyInv /\ GetInv /\ WriteInv /\ TruncatedInv
      /\ StateInv /\ SentIsSound /\ MasterEndsByTwoGets
  BY DEF SInv
<1>1. PlaceInv'
  BY <1>0, <1>s, Places, Names DEF PlaceInv, TypeOK, OwnLockInv, GetTest, test_existence, InUse
<1>2. AnswerInv'
  BY <1>0, <1>s, Places, Names DEF AnswerInv, TypeOK, OwnLockInv, GetTest, test_existence, InUse
<1>3. HeavyInv'
  BY <1>0, <1>s, Places, Names DEF HeavyInv, HeavyPCs, TypeOK, OwnLockInv, GetTest, test_existence, InUse
<1>4. GetInv'
  <2> SUFFICES ASSUME at_start = "whole"
               PROVE  /\ copy # "absent"
                      /\ \A g \in Gets : pc'[g] \notin {"idle", "open", "sending", "done"} =>
                           \E h \in Gets \ {g} : pc'[h] \in {"sending", "done"}
    BY DEF GetInv, GetTest
  <2>1. copy # "absent"
    BY <1>s DEF GetInv
  <2>2. \A h \in Gets : pc[h] \in {"sending", "done"} => pc'[h] \in {"sending", "done"}
    BY <1>0 DEF GetTest, TypeOK
  <2>3. ASSUME NEW g \in Gets, pc'[g] \notin {"idle", "open", "sending", "done"}
        PROVE  \E h \in Gets \ {g} : pc[h] \in {"sending", "done"}
    <3>1. CASE g = r
      BY <1>0, <2>1, <2>3, <3>1 DEF GetTest, test_existence, InUse, TypeOK
    <3>2. CASE g # r
      <4>1. pc'[g] = pc[g]
        BY <1>0, <3>2 DEF GetTest, TypeOK
      <4> QED BY <1>s, <2>3, <4>1 DEF GetInv
    <3> QED BY <3>1, <3>2
  <2> QED BY <2>1, <2>2, <2>3
<1>5. WriteInv'
  BY <1>0, <1>s, Places, Names DEF WriteInv, WritePCs, TypeOK, OwnLockInv, GetTest, test_existence, InUse
<1>6. TruncatedInv'
  BY <1>0, <1>s, Places, Names DEF TruncatedInv, TypeOK, OwnLockInv, GetTest, test_existence, InUse
<1>7. StateInv'
  BY <1>0, <1>s, Places, Names DEF StateInv, WritePCs, TypeOK, OwnLockInv, GetTest, test_existence, InUse
<1>8. MasterEndsByTwoGets'
  BY <1>0, <1>s, Places, Names DEF MasterEndsByTwoGets, TypeOK, OwnLockInv, GetTest, test_existence, InUse
<1>9. UpInv' /\ SentIsSound'
  BY <1>s DEF UpInv, SentIsSound, GetTest
<1> QED BY <1>1, <1>2, <1>3, <1>4, <1>5, <1>6, <1>7, <1>8, <1>9 DEF SInv

\* UpdateLock keeps the invariant (connection.cpp:124-160).
LEMMA UpdateLockSafe ==
  ASSUME IInv, SInv, NEW r \in Requests, NEW d \in Data, UpdateLock(r, d)
  PROVE  SInv'
<1>0. TypeOK /\ OwnLockInv /\ SendInv /\ CopyInv /\ OrderInv
  BY DEF IInv
<1>s. /\ PlaceInv /\ AnswerInv /\ UpInv /\ HeavyInv /\ GetInv /\ WriteInv /\ TruncatedInv
      /\ StateInv /\ SentIsSound /\ MasterEndsByTwoGets
  BY DEF SInv
<1>p. \A g \in Gets : pc'[g] = pc[g]
  BY <1>0, ReconstructAssumption DEF UpdateLock, TypeOK
<1>1. PlaceInv'
  BY <1>0, <1>s, Places, Names DEF PlaceInv, TypeOK, OwnLockInv, UpdateLock, Lock
<1>2. AnswerInv'
  BY <1>0, <1>s, Places, Names DEF AnswerInv, TypeOK, OwnLockInv, UpdateLock, Lock
<1>3. HeavyInv'
  BY <1>0, <1>s, Places, Names DEF HeavyInv, HeavyPCs, TypeOK, OwnLockInv, UpdateLock, Lock
<1>4. GetInv'
  BY <1>p, GetsKept, <1>s DEF UpdateLock
<1>5. WriteInv'
  BY <1>0, <1>s, Places, Names DEF WriteInv, WritePCs, TypeOK, OwnLockInv, UpdateLock, Lock
<1>6. TruncatedInv'
  BY <1>0, <1>s, Places, Names DEF TruncatedInv, TypeOK, OwnLockInv, UpdateLock, Lock
<1>7. StateInv'
  BY <1>0, <1>s, Places, Names DEF StateInv, WritePCs, TypeOK, OwnLockInv, UpdateLock, Lock
<1>8. MasterEndsByTwoGets'
  BY <1>0, <1>s, Places, Names DEF MasterEndsByTwoGets, TypeOK, OwnLockInv, UpdateLock, Lock
<1>9. UpInv' /\ SentIsSound'
  BY <1>s DEF UpInv, SentIsSound, UpdateLock
<1> QED BY <1>1, <1>2, <1>3, <1>4, <1>5, <1>6, <1>7, <1>8, <1>9 DEF SInv

\* SegmentFound keeps the invariant (connection.cpp:161-187).
LEMMA SegmentFoundSafe ==
  ASSUME IInv, SInv, NEW r \in Requests, SegmentFound(r)
  PROVE  SInv'
<1>0. TypeOK /\ OwnLockInv /\ SendInv /\ CopyInv /\ OrderInv
  BY DEF IInv
<1>s. /\ PlaceInv /\ AnswerInv /\ UpInv /\ HeavyInv /\ GetInv /\ WriteInv /\ TruncatedInv
      /\ StateInv /\ SentIsSound /\ MasterEndsByTwoGets
  BY DEF SInv
<1>1. PlaceInv'
  BY <1>0, <1>s, Places, Names DEF PlaceInv, TypeOK, OwnLockInv, SegmentFound, Unlock
<1>2. AnswerInv'
  BY <1>0, <1>s, Places, Names DEF AnswerInv, TypeOK, OwnLockInv, SegmentFound, Unlock
<1>3. HeavyInv'
  BY <1>0, <1>s, Places, Names DEF HeavyInv, HeavyPCs, TypeOK, OwnLockInv, SegmentFound, Unlock
<1>4. GetInv'
  <2>1. /\ \A g \in Gets : g # r => pc'[g] = pc[g]
        /\ pc[r] = "locked" /\ UNCHANGED <<at_start, copy>>
    BY <1>0 DEF TypeOK, Requests, SegmentFound
  <2> QED BY <1>s, <2>1, GetsKept
<1>5. WriteInv'
  BY <1>0, <1>s, Places, Names DEF WriteInv, WritePCs, TypeOK, OwnLockInv, SegmentFound, Unlock
<1>6. TruncatedInv'
  BY <1>0, <1>s, Places, Names DEF TruncatedInv, TypeOK, OwnLockInv, SegmentFound, Unlock
<1>7. StateInv'
  BY <1>0, <1>s, Places, Names DEF StateInv, WritePCs, TypeOK, OwnLockInv, SegmentFound, Unlock
<1>8. MasterEndsByTwoGets'
  BY <1>0, <1>s, Places, Names, SMTT(60) DEF MasterEndsByTwoGets, TypeOK, OwnLockInv, SegmentFound, Unlock
<1>9. UpInv' /\ SentIsSound'
  BY <1>s DEF UpInv, SentIsSound, SegmentFound
<1> QED BY <1>1, <1>2, <1>3, <1>4, <1>5, <1>6, <1>7, <1>8, <1>9 DEF SInv

\* SegmentMissing keeps the invariant (connection.cpp:157-165).
LEMMA SegmentMissingSafe ==
  ASSUME IInv, SInv, NEW r \in Requests, SegmentMissing(r)
  PROVE  SInv'
<1>0. TypeOK /\ OwnLockInv /\ SendInv /\ CopyInv /\ OrderInv
  BY DEF IInv
<1>s. /\ PlaceInv /\ AnswerInv /\ UpInv /\ HeavyInv /\ GetInv /\ WriteInv /\ TruncatedInv
      /\ StateInv /\ SentIsSound /\ MasterEndsByTwoGets
  BY DEF SInv
<1>1. PlaceInv'
  BY <1>0, <1>s, Places, Names DEF PlaceInv, TypeOK, OwnLockInv, SegmentMissing
<1>2. AnswerInv'
  BY <1>0, <1>s, Places, Names DEF AnswerInv, TypeOK, OwnLockInv, SegmentMissing
<1>3. HeavyInv'
  BY <1>0, <1>s, Places, Names DEF HeavyInv, HeavyPCs, TypeOK, OwnLockInv, SegmentMissing
<1>4. GetInv'
  BY <1>0, <1>s, Places, Names DEF GetInv, TypeOK, OwnLockInv, SegmentMissing
<1>5. WriteInv'
  BY <1>0, <1>s, Places, Names DEF WriteInv, WritePCs, TypeOK, OwnLockInv, SegmentMissing
<1>6. TruncatedInv'
  BY <1>0, <1>s, Places, Names DEF TruncatedInv, TypeOK, OwnLockInv, SegmentMissing
<1>7. StateInv'
  BY <1>0, <1>s, Places, Names DEF StateInv, WritePCs, TypeOK, OwnLockInv, SegmentMissing
<1>8. MasterEndsByTwoGets'
  BY <1>0, <1>s, Places, Names DEF MasterEndsByTwoGets, TypeOK, OwnLockInv, SegmentMissing
<1>9. UpInv' /\ SentIsSound'
  BY <1>s DEF UpInv, SentIsSound, SegmentMissing
<1> QED BY <1>1, <1>2, <1>3, <1>4, <1>5, <1>6, <1>7, <1>8, <1>9 DEF SInv

\* Connect keeps the invariant (decoder.cpp:139-206).
LEMMA ConnectSafe ==
  ASSUME IInv, SInv, NEW r \in Requests, Connect(r)
  PROVE  SInv'
<1>0. TypeOK /\ OwnLockInv /\ SendInv /\ CopyInv /\ OrderInv
  BY DEF IInv
<1>s. /\ PlaceInv /\ AnswerInv /\ UpInv /\ HeavyInv /\ GetInv /\ WriteInv /\ TruncatedInv
      /\ StateInv /\ SentIsSound /\ MasterEndsByTwoGets
  BY DEF SInv
<1>a. /\ pc[r] = "connect" /\ host[r] \notin ended
      /\ \/ pc' = [pc EXCEPT ![r] = "statuses"] /\ UNCHANGED <<ended, file_lock>>
         \/ Throw(r) /\ Others \cap ended # {}
  BY DEF Connect
<1>p. /\ Master \notin ended' => file_lock'[Master] = file_lock[Master]
      /\ \A g \in Gets : pc'[g] = pc[g] \/ (g = r /\ pc'[g] = "statuses")
      /\ \A q \in Requests : pc'[q] = pc[q] \/ pc'[q] \in {"statuses", "abandoned"}
      /\ GetInv' /\ MasterEndsByTwoGets'
  <2>1. CASE pc' = [pc EXCEPT ![r] = "statuses"] /\ UNCHANGED <<ended, file_lock>>
    <3>1. /\ \A g \in Gets : pc'[g] = pc[g] \/ (g = r /\ pc'[g] = "statuses")
          /\ \A q \in Requests : pc'[q] = pc[q] \/ pc'[q] \in {"statuses", "abandoned"}
          /\ UNCHANGED <<lost, at_start, copy>>
      BY <1>0, <2>1, GetsAtMaster DEF TypeOK, Connect
    <3>2. GetInv'
      BY <1>s, <1>a, <3>1, GetsKept
    <3>3. MasterEndsByTwoGets'
      BY <1>s, <1>a, <2>1, <3>1, EndKept
    <3> QED BY <2>1, <3>1, <3>2, <3>3
  <2>2. CASE Throw(r) /\ Others \cap ended # {}
    BY <1>a, <2>2, ThrowSafe DEF Connect
  <2> QED BY <1>a, <2>1, <2>2
<1>1. PlaceInv'
  BY <1>0, <1>s, Places, Names DEF PlaceInv, TypeOK, OwnLockInv, Connect, Throw, End, Unlock
<1>2. AnswerInv'
  BY <1>0, <1>s, Places, Names DEF AnswerInv, TypeOK, OwnLockInv, Connect, Throw, End, Unlock
<1>3. UpInv'
  BY <1>0, <1>s, Places, Names DEF UpInv, TypeOK, OwnLockInv, Connect, Throw, End, Unlock
<1>4. HeavyInv'
  BY <1>0, <1>s, Places, Names DEF HeavyInv, HeavyPCs, TypeOK, OwnLockInv, Connect, Throw, End, Unlock
<1>5. GetInv'
  BY <1>p
<1>6. WriteInv'
  <2>1. \A q \in Requests : q # r => pc'[q] = pc[q]
    BY <1>0 DEF TypeOK, Connect, Throw
  <2>2. \A q \in Requests : pc'[q] \in WritePCs <=> pc[q] \in WritePCs
    BY <1>a, <1>p, <2>1 DEF WritePCs
  <2>3. Master \notin ended' => Master \notin ended
    BY DEF Connect, Throw, End
  <2> QED BY <1>s, <1>p, <2>2, <2>3 DEF WriteInv
<1>7. TruncatedInv'
  BY <1>s, <1>p DEF TruncatedInv, Connect, Throw, End
<1>8. StateInv'
  BY <1>0, <1>s, Places, Names DEF StateInv, WritePCs, TypeOK, OwnLockInv, Connect, Throw, End, Unlock
<1>9. MasterEndsByTwoGets'
  BY <1>p
<1>10. SentIsSound'
  BY <1>s DEF SentIsSound, Connect
<1> QED BY <1>1, <1>2, <1>3, <1>4, <1>5, <1>6, <1>7, <1>8, <1>9, <1>10 DEF SInv

\* AnswerLost keeps the invariant (decoder.cpp:216-224).
LEMMA AnswerLostSafe ==
  ASSUME IInv, SInv, NEW r \in Requests, AnswerLost(r)
  PROVE  SInv'
<1>0. TypeOK /\ OwnLockInv /\ SendInv /\ CopyInv /\ OrderInv
  BY DEF IInv
<1>s. /\ PlaceInv /\ AnswerInv /\ UpInv /\ HeavyInv /\ GetInv /\ WriteInv /\ TruncatedInv
      /\ StateInv /\ SentIsSound /\ MasterEndsByTwoGets
  BY DEF SInv
<1>a. /\ pc[r] = "statuses" /\ host[r] \notin ended
      /\ Throw(r) /\ Others \cap ended # {} /\ UNCHANGED disks
  BY DEF AnswerLost
<1>p. /\ Master \notin ended' => file_lock'[Master] = file_lock[Master]
      /\ \A g \in Gets : pc'[g] = pc[g]
      /\ \A q \in Requests : pc'[q] = pc[q] \/ pc'[q] = "abandoned"
      /\ GetInv' /\ MasterEndsByTwoGets'
  BY <1>a, ThrowSafe
<1>1. PlaceInv'
  BY <1>0, <1>s, Places, Names DEF PlaceInv, TypeOK, OwnLockInv, AnswerLost, Throw, End, Unlock
<1>2. AnswerInv'
  BY <1>0, <1>s, Places, Names DEF AnswerInv, TypeOK, OwnLockInv, AnswerLost, Throw, End, Unlock
<1>3. UpInv'
  BY <1>0, <1>s, Places, Names DEF UpInv, TypeOK, OwnLockInv, AnswerLost, Throw, End, Unlock
<1>4. HeavyInv'
  BY <1>0, <1>s, Places, Names DEF HeavyInv, HeavyPCs, TypeOK, OwnLockInv, AnswerLost, Throw, End, Unlock
<1>5. GetInv'
  BY <1>p
<1>6. WriteInv'
  BY <1>0, <1>s, Places, Names DEF WriteInv, WritePCs, TypeOK, OwnLockInv, AnswerLost, Throw, End, Unlock
<1>7. TruncatedInv'
  BY <1>s, <1>p DEF TruncatedInv, AnswerLost, Throw, End
<1>8. StateInv'
  BY <1>0, <1>s, Places, Names DEF StateInv, WritePCs, TypeOK, OwnLockInv, AnswerLost, Throw, End, Unlock
<1>9. MasterEndsByTwoGets'
  BY <1>p
<1>10. SentIsSound'
  BY <1>s DEF SentIsSound, AnswerLost
<1> QED BY <1>1, <1>2, <1>3, <1>4, <1>5, <1>6, <1>7, <1>8, <1>9, <1>10 DEF SInv

\* GiveUp keeps the invariant (decoder.cpp:333-364).
LEMMA GiveUpSafe ==
  ASSUME IInv, SInv, NEW r \in Requests, GiveUp(r)
  PROVE  SInv'
<1>0. TypeOK /\ OwnLockInv /\ SendInv /\ CopyInv /\ OrderInv
  BY DEF IInv
<1>s. /\ PlaceInv /\ AnswerInv /\ UpInv /\ HeavyInv /\ GetInv /\ WriteInv /\ TruncatedInv
      /\ StateInv /\ SentIsSound /\ MasterEndsByTwoGets
  BY DEF SInv
<1>n. ~(Cardinality(lost) <= M)
  BY EnoughAreReady DEF GiveUp
<1>a. /\ pc[r] = "statuses" /\ host[r] \notin ended /\ UNCHANGED <<lost, copy, at_start, host>>
      /\ \/ r \in Gets /\ pc' = [pc EXCEPT ![r] = "open"] /\ UNCHANGED <<ended, file_lock>>
         \/ pc' = pc /\ End(Master)
         \/ /\ r \notin Gets /\ host[r] # Master
            /\ pc' = [pc EXCEPT ![r] = "failed"] /\ Unlock(host[r]) /\ UNCHANGED ended
  BY DEF GiveUp, AfterGivingUp, Requests
<1>p. /\ Master \notin ended' => file_lock'[Master] = file_lock[Master] /\ Master \notin ended
      /\ \A q \in Requests : pc'[q] = pc[q] \/ (q = r /\ pc'[q] \in {"open", "failed"})
  BY <1>0, <1>a, Places DEF TypeOK, End, Unlock
<1>1. PlaceInv'
  BY <1>0, <1>s, Places, Names DEF PlaceInv, TypeOK, OwnLockInv, GiveUp, AfterGivingUp, End, Unlock
<1>2. AnswerInv'
  BY <1>0, <1>s, Places, Names DEF AnswerInv, TypeOK, OwnLockInv, GiveUp, AfterGivingUp, End, Unlock
<1>3. UpInv'
  BY <1>n, <1>a DEF UpInv
<1>4. HeavyInv'
  BY <1>0, <1>s, Places, Names DEF HeavyInv, HeavyPCs, TypeOK, OwnLockInv, GiveUp, AfterGivingUp, End, Unlock
<1>5. GetInv'
  <2>1. /\ \A g \in Gets : pc[g] \in {"sending", "done"} => pc'[g] \in {"sending", "done"}
        /\ \A g \in Gets : pc'[g] \notin {"idle", "open", "sending", "done"} =>
                            pc[g] \notin {"idle", "open", "sending", "done"}
    BY <1>a, <1>p DEF Requests
  <2> QED BY <1>s, <1>a, <2>1, GetsKept
<1>6. WriteInv'
  BY <1>s, <1>a, <1>p DEF WriteInv, WritePCs
<1>7. TruncatedInv'
  BY <1>s, <1>a, <1>p DEF TruncatedInv
<1>8. StateInv'
  BY <1>s, <1>a, <1>n, <1>p DEF StateInv, WritePCs
<1>9. MasterEndsByTwoGets'
  BY <1>n, <1>a, ParityLossIsSmall DEF MasterEndsByTwoGets
<1>10. SentIsSound'
  BY <1>s DEF SentIsSound, GiveUp
<1> QED BY <1>1, <1>2, <1>3, <1>4, <1>5, <1>6, <1>7, <1>8, <1>9, <1>10 DEF SInv

\* OrderLight keeps the invariant (decoder.cpp:251-284).
LEMMA OrderLightSafe ==
  ASSUME IInv, SInv, NEW r \in Requests, OrderLight(r)
  PROVE  SInv'
<1>0. TypeOK /\ OwnLockInv /\ SendInv /\ CopyInv /\ OrderInv
  BY DEF IInv
<1>s. /\ PlaceInv /\ AnswerInv /\ UpInv /\ HeavyInv /\ GetInv /\ WriteInv /\ TruncatedInv
      /\ StateInv /\ SentIsSound /\ MasterEndsByTwoGets
  BY DEF SInv
<1>a. /\ pc[r] = "statuses" /\ host[r] \notin ended /\ UNCHANGED <<lost, copy, at_start, host>>
      /\ peer' = [peer EXCEPT ![r] = LightOrders(@)] /\ host[r] = Master
      /\ \/ r \in Gets /\ pc' = pc /\ End(Master)
         \/ /\ r \notin Gets /\ pc' = [pc EXCEPT ![r] = "copy_lock"]
            /\ UNCHANGED <<ended, file_lock>>
  BY DEF OrderLight, Light
<1>p. \A g \in Gets : pc'[g] = pc[g]
  BY <1>0, <1>a, GetsAtMaster DEF TypeOK
<1>1. PlaceInv'
  BY <1>0, <1>s, Places, Names DEF PlaceInv, TypeOK, OwnLockInv, OrderLight, LightOrders, End
<1>2. AnswerInv'
  <2> SUFFICES ASSUME NEW q \in Requests, pc'[q] = "statuses", host[q] \notin ended',
                      NEW m \in Others \ {host[q]}
               PROVE  peer'[q][m] \in {"asked", "ready"} \/ m \in lost
    BY <1>a DEF AnswerInv
  <2>1. q # r /\ pc[q] = "statuses" /\ host[q] \notin ended
    BY <1>0, <1>a DEF TypeOK, End
  <2>2. peer'[q] = peer[q]
    BY <1>0, <1>a, <2>1 DEF TypeOK
  <2> QED BY <1>s, <2>1, <2>2 DEF AnswerInv
<1>3. UpInv'
  BY <1>0, <1>s, Places, Names DEF UpInv, TypeOK, OwnLockInv, OrderLight, LightOrders, End
<1>4. HeavyInv'
  BY <1>0, <1>s, Places, Names DEF HeavyInv, HeavyPCs, TypeOK, OwnLockInv, OrderLight, LightOrders, End
<1>5. GetInv'
  BY <1>s, <1>a, <1>p, GetsKept
<1>6. WriteInv'
  BY <1>0, <1>s, Places, Names DEF WriteInv, WritePCs, TypeOK, OwnLockInv, OrderLight, LightOrders, End
<1>7. TruncatedInv'
  BY <1>0, <1>s, Places, Names DEF TruncatedInv, TypeOK, OwnLockInv, OrderLight, LightOrders, End
<1>8. StateInv'
  BY <1>0, <1>s, Places, Names DEF StateInv, WritePCs, TypeOK, OwnLockInv, OrderLight, LightOrders, End
<1>9. MasterEndsByTwoGets'
  <2>1. CASE r \in Gets
    BY <1>s, <1>a, <2>1 DEF GetInv, MasterEndsByTwoGets
  <2>2. CASE r \notin Gets
    BY <1>s, <1>a, <1>p, <2>2, EndKept DEF End
  <2> QED BY <2>1, <2>2
<1>10. SentIsSound'
  BY <1>s DEF SentIsSound, OrderLight
<1> QED BY <1>1, <1>2, <1>3, <1>4, <1>5, <1>6, <1>7, <1>8, <1>9, <1>10 DEF SInv

\* DecideHeavy keeps the invariant (decoder.cpp:337-371).
LEMMA DecideHeavySafe ==
  ASSUME IInv, SInv, NEW r \in Requests, DecideHeavy(r)
  PROVE  SInv'
<1>0. TypeOK /\ OwnLockInv /\ SendInv /\ CopyInv /\ OrderInv
  BY DEF IInv
<1>s. /\ PlaceInv /\ AnswerInv /\ UpInv /\ HeavyInv /\ GetInv /\ WriteInv /\ TruncatedInv
      /\ StateInv /\ SentIsSound /\ MasterEndsByTwoGets
  BY DEF SInv
<1>1. PlaceInv'
  BY <1>0, <1>s, Places, Names DEF PlaceInv, TypeOK, OwnLockInv, DecideHeavy
<1>2. AnswerInv'
  BY <1>0, <1>s, Places, Names DEF AnswerInv, TypeOK, OwnLockInv, DecideHeavy
<1>3. HeavyInv'
  <2>1. lost \cap Data # {}
    BY HeavyForData DEF DecideHeavy
  <2> QED BY <2>1 DEF HeavyInv, DecideHeavy
<1>4. GetInv'
  BY <1>0, <1>s, Places, Names, SMTT(60) DEF GetInv, TypeOK, OwnLockInv, DecideHeavy
<1>5. WriteInv'
  BY <1>0, <1>s, Places, Names DEF WriteInv, WritePCs, TypeOK, OwnLockInv, DecideHeavy
<1>6. TruncatedInv'
  BY <1>0, <1>s, Places, Names DEF TruncatedInv, TypeOK, OwnLockInv, DecideHeavy
<1>7. StateInv'
  BY <1>0, <1>s, Places, Names DEF StateInv, WritePCs, TypeOK, OwnLockInv, DecideHeavy
<1>8. MasterEndsByTwoGets'
  <2>1. \A g \in Gets : pc'[g] = pc[g] \/ (pc[g] = "statuses" /\ Master \notin ended)
    BY <1>0, GetsAtMaster DEF TypeOK, DecideHeavy
  <2> QED BY <1>s, <2>1, EndKept DEF DecideHeavy
<1>9. UpInv' /\ SentIsSound'
  BY <1>s DEF UpInv, SentIsSound, DecideHeavy
<1> QED BY <1>1, <1>2, <1>3, <1>4, <1>5, <1>6, <1>7, <1>8, <1>9 DEF SInv

\* CopyLock keeps the invariant (decoder.cpp:281-286).
LEMMA CopyLockSafe ==
  ASSUME IInv, SInv, NEW r \in Requests, CopyLock(r)
  PROVE  SInv'
<1>0. TypeOK /\ OwnLockInv /\ SendInv /\ CopyInv /\ OrderInv
  BY DEF IInv
<1>s. /\ PlaceInv /\ AnswerInv /\ UpInv /\ HeavyInv /\ GetInv /\ WriteInv /\ TruncatedInv
      /\ StateInv /\ SentIsSound /\ MasterEndsByTwoGets
  BY DEF SInv
<1>a. /\ host[r] = Master /\ Master \notin ended /\ UNCHANGED <<lost, at_start, ended>>
      /\ file_lock'[Master] = r
      /\ copy' = IF InUse THEN copy ELSE "truncated"
      /\ pc' = [pc EXCEPT ![r] = IF InUse THEN "discard" ELSE "collect"]
  BY <1>0, Places DEF CopyLock, TypeOK, OwnLockInv, Lock, Truncated
<1>i. /\ \A q \in Requests : pc[q] = "sending" => copy' = copy /\ copy # "absent"
      /\ copy' = copy \/ copy' = "truncated"
      /\ copy' # "absent"
  BY <1>0, <1>s, <1>a DEF InUse, PlaceInv, CopyInv, Requests
<1>j. /\ InUse => copy' = copy /\ copy # "truncated"
      /\ \A q \in Requests : pc[q] # "discard"
  <2>1. InUse => copy' = copy /\ copy # "truncated"
    BY <1>s, <1>a DEF InUse, TruncatedInv, Requests
  <2>2. file_lock[Master] = Free
    BY DEF CopyLock, Lock
  <2>3. \A q \in Requests : pc[q] # "discard"
    BY <1>s, <1>a, <2>2, Names DEF WriteInv, WritePCs
  <2> QED BY <2>1, <2>3
<1>1. PlaceInv'
  BY <1>0, <1>s, Places, Names DEF PlaceInv, TypeOK, OwnLockInv, CopyLock, Lock, Truncated, InUse
<1>2. AnswerInv'
  BY <1>0, <1>s, Places, Names DEF AnswerInv, TypeOK, OwnLockInv, CopyLock, Lock, Truncated, InUse
<1>3. HeavyInv'
  BY <1>0, <1>s, Places, Names DEF HeavyInv, HeavyPCs, TypeOK, OwnLockInv, CopyLock, Lock, Truncated, InUse
<1>4. GetInv'
  BY <1>0, <1>s, Places, Names DEF GetInv, TypeOK, OwnLockInv, CopyLock, Lock, Truncated, InUse
<1>5. WriteInv'
  BY <1>0, <1>s, Places, Names DEF WriteInv, WritePCs, TypeOK, OwnLockInv, CopyLock, Lock, Truncated, InUse
<1>6. TruncatedInv'
  BY <1>0, <1>s, <1>a, <1>i, <1>j DEF TruncatedInv, TypeOK
<1>7. StateInv'
  BY <1>0, <1>s, <1>a, <1>i DEF StateInv, WritePCs, TypeOK
<1>8. MasterEndsByTwoGets'
  BY <1>0, <1>s, Places, Names DEF MasterEndsByTwoGets, TypeOK, OwnLockInv, CopyLock, Lock, Truncated, InUse
<1>9. UpInv' /\ SentIsSound'
  BY <1>s DEF UpInv, SentIsSound, CopyLock
<1> QED BY <1>1, <1>2, <1>3, <1>4, <1>5, <1>6, <1>7, <1>8, <1>9 DEF SInv

\* Collect keeps the invariant (decoder.cpp:288-327).
LEMMA CollectSafe ==
  ASSUME IInv, SInv, NEW r \in Requests, Collect(r)
  PROVE  SInv'
<1>0. TypeOK /\ OwnLockInv /\ SendInv /\ CopyInv /\ OrderInv
  BY DEF IInv
<1>s. /\ PlaceInv /\ AnswerInv /\ UpInv /\ HeavyInv /\ GetInv /\ WriteInv /\ TruncatedInv
      /\ StateInv /\ SentIsSound /\ MasterEndsByTwoGets
  BY DEF SInv
<1>1. PlaceInv'
  BY <1>0, <1>s, Places, Names DEF PlaceInv, TypeOK, OwnLockInv, Collect, Unlock
<1>2. AnswerInv'
  BY <1>0, <1>s, Places, Names DEF AnswerInv, TypeOK, OwnLockInv, Collect, Unlock
<1>3. HeavyInv'
  BY <1>0, <1>s, Places, Names DEF HeavyInv, HeavyPCs, TypeOK, OwnLockInv, Collect, Unlock
<1>4. GetInv'
  BY <1>0, <1>s, Places, Names, SMTT(60) DEF GetInv, TypeOK, OwnLockInv, Collect, Unlock
<1>5. WriteInv'
  BY <1>0, <1>s, Places, Names DEF WriteInv, WritePCs, TypeOK, OwnLockInv, Collect, Unlock
<1>6. TruncatedInv'
  BY <1>0, <1>s, Places, Names DEF TruncatedInv, TypeOK, OwnLockInv, Collect, Unlock
<1>7. StateInv'
  BY <1>0, <1>s, Places, Names DEF StateInv, WritePCs, TypeOK, OwnLockInv, Collect, Unlock
<1>8. MasterEndsByTwoGets'
  BY <1>0, <1>s, Places, Names DEF MasterEndsByTwoGets, TypeOK, OwnLockInv, Collect, Unlock
<1>9. UpInv' /\ SentIsSound'
  BY <1>s DEF UpInv, SentIsSound, Collect
<1> QED BY <1>1, <1>2, <1>3, <1>4, <1>5, <1>6, <1>7, <1>8, <1>9 DEF SInv

\* Discard keeps the invariant (decoder.cpp:286-327).
LEMMA DiscardSafe ==
  ASSUME IInv, SInv, NEW r \in Requests, Discard(r)
  PROVE  SInv'
<1>0. TypeOK /\ OwnLockInv /\ SendInv /\ CopyInv /\ OrderInv
  BY DEF IInv
<1>s. /\ PlaceInv /\ AnswerInv /\ UpInv /\ HeavyInv /\ GetInv /\ WriteInv /\ TruncatedInv
      /\ StateInv /\ SentIsSound /\ MasterEndsByTwoGets
  BY DEF SInv
<1>1. PlaceInv'
  BY <1>0, <1>s, Places, Names DEF PlaceInv, TypeOK, OwnLockInv, Discard, Unlock
<1>2. AnswerInv'
  BY <1>0, <1>s, Places, Names DEF AnswerInv, TypeOK, OwnLockInv, Discard, Unlock
<1>3. HeavyInv'
  BY <1>0, <1>s, Places, Names DEF HeavyInv, HeavyPCs, TypeOK, OwnLockInv, Discard, Unlock
<1>4. GetInv'
  BY <1>0, <1>s, Places, Names, SMTT(60) DEF GetInv, TypeOK, OwnLockInv, Discard, Unlock
<1>5. WriteInv'
  BY <1>0, <1>s, Places, Names DEF WriteInv, WritePCs, TypeOK, OwnLockInv, Discard, Unlock
<1>6. TruncatedInv'
  BY <1>0, <1>s, Places, Names DEF TruncatedInv, TypeOK, OwnLockInv, Discard, Unlock
<1>7. StateInv'
  BY <1>0, <1>s, Places, Names DEF StateInv, WritePCs, TypeOK, OwnLockInv, Discard, Unlock
<1>8. MasterEndsByTwoGets'
  BY <1>0, <1>s, Places, Names DEF MasterEndsByTwoGets, TypeOK, OwnLockInv, Discard, Unlock
<1>9. UpInv' /\ SentIsSound'
  BY <1>s DEF UpInv, SentIsSound, Discard
<1> QED BY <1>1, <1>2, <1>3, <1>4, <1>5, <1>6, <1>7, <1>8, <1>9 DEF SInv

\* HeavyLock keeps the invariant (decoder.cpp:382-390).
LEMMA HeavyLockSafe ==
  ASSUME IInv, SInv, NEW r \in Requests, HeavyLock(r)
  PROVE  SInv'
<1>h. lost' = lost /\ host[r] = Master
  BY HeavyLockAtMaster
<1>0. TypeOK /\ OwnLockInv /\ SendInv /\ CopyInv /\ OrderInv
  BY DEF IInv
<1>s. /\ PlaceInv /\ AnswerInv /\ UpInv /\ HeavyInv /\ GetInv /\ WriteInv /\ TruncatedInv
      /\ StateInv /\ SentIsSound /\ MasterEndsByTwoGets
  BY DEF SInv
<1>a. /\ host[r] = Master /\ Master \notin ended /\ UNCHANGED <<lost, at_start, ended>>
      /\ file_lock'[Master] = r
      /\ copy' = IF InUse THEN copy ELSE "truncated"
      /\ pc' = [pc EXCEPT ![r] = "heavy"]
  BY <1>0, <1>h, Places DEF HeavyLock, TypeOK, OwnLockInv, Lock, Truncated
<1>i. /\ \A q \in Requests : pc[q] = "sending" => copy' = copy /\ copy # "absent"
      /\ copy' = copy \/ copy' = "truncated"
      /\ copy' # "absent"
  BY <1>0, <1>s, <1>a DEF InUse, PlaceInv, CopyInv, Requests
<1>j. /\ InUse => copy' = copy /\ copy # "truncated"
      /\ \A q \in Requests : pc[q] # "discard"
  <2>1. InUse => copy' = copy /\ copy # "truncated"
    BY <1>s, <1>a DEF InUse, TruncatedInv, Requests
  <2>2. file_lock[Master] = Free
    BY <1>h DEF HeavyLock, Lock
  <2>3. \A q \in Requests : pc[q] # "discard"
    BY <1>s, <1>a, <2>2, Names DEF WriteInv, WritePCs
  <2> QED BY <2>1, <2>3
<1>1. PlaceInv'
  BY <1>0, <1>s, <1>h, Places, Names DEF PlaceInv, TypeOK, OwnLockInv, HeavyLock, Lock, Truncated, InUse
<1>2. AnswerInv'
  BY <1>0, <1>s, <1>h, Places, Names DEF AnswerInv, TypeOK, OwnLockInv, HeavyLock, Lock, Truncated, InUse
<1>3. HeavyInv'
  BY <1>0, <1>s, <1>h, Places, Names DEF HeavyInv, HeavyPCs, TypeOK, OwnLockInv, HeavyLock, Lock, Truncated, InUse
<1>4. GetInv'
  BY <1>0, <1>s, <1>h, Places, Names DEF GetInv, TypeOK, OwnLockInv, HeavyLock, Lock, Truncated, InUse
<1>5. WriteInv'
  BY <1>0, <1>s, <1>h, Places, Names DEF WriteInv, WritePCs, TypeOK, OwnLockInv, HeavyLock, Lock, Truncated, InUse
<1>6. TruncatedInv'
  BY <1>0, <1>s, <1>a, <1>i, <1>j DEF TruncatedInv, TypeOK
<1>7. StateInv'
  BY <1>0, <1>s, <1>a, <1>i DEF StateInv, WritePCs, TypeOK
<1>8. MasterEndsByTwoGets'
  BY <1>0, <1>s, <1>h, Places, Names DEF MasterEndsByTwoGets, TypeOK, OwnLockInv, HeavyLock, Lock, Truncated, InUse
<1>9. UpInv' /\ SentIsSound'
  BY <1>s, <1>h DEF UpInv, SentIsSound, HeavyLock
<1> QED BY <1>1, <1>2, <1>3, <1>4, <1>5, <1>6, <1>7, <1>8, <1>9 DEF SInv

\* AskBlock keeps the invariant (decoder.cpp:393-431).
LEMMA AskBlockSafe ==
  ASSUME IInv, SInv, NEW r \in Requests, NEW n \in Others, AskBlock(r, n)
  PROVE  SInv'
<1>0. TypeOK /\ OwnLockInv /\ SendInv /\ CopyInv /\ OrderInv
  BY DEF IInv
<1>s. /\ PlaceInv /\ AnswerInv /\ UpInv /\ HeavyInv /\ GetInv /\ WriteInv /\ TruncatedInv
      /\ StateInv /\ SentIsSound /\ MasterEndsByTwoGets
  BY DEF SInv
<1>1. PlaceInv'
  BY <1>0, <1>s, Places, Names DEF PlaceInv, TypeOK, OwnLockInv, AskBlock
<1>2. AnswerInv'
  BY <1>0, <1>s, Places, Names DEF AnswerInv, TypeOK, OwnLockInv, AskBlock
<1>3. UpInv'
  BY <1>0, <1>s, Places, Names DEF UpInv, TypeOK, OwnLockInv, AskBlock
<1>4. HeavyInv'
  BY <1>0, <1>s, Places, Names DEF HeavyInv, HeavyPCs, TypeOK, OwnLockInv, AskBlock
<1>5. GetInv'
  BY <1>0, <1>s, Places, Names, SMTT(60) DEF GetInv, TypeOK, OwnLockInv, AskBlock
<1>6. WriteInv'
  BY <1>0, <1>s, Places, Names DEF WriteInv, WritePCs, TypeOK, OwnLockInv, AskBlock
<1>7. TruncatedInv'
  BY <1>0, <1>s, Places, Names DEF TruncatedInv, TypeOK, OwnLockInv, AskBlock
<1>8. StateInv'
  BY <1>0, <1>s, Places, Names DEF StateInv, WritePCs, TypeOK, OwnLockInv, AskBlock
<1>9. MasterEndsByTwoGets'
  BY <1>0, <1>s, Places, Names DEF MasterEndsByTwoGets, TypeOK, OwnLockInv, AskBlock
<1>10. SentIsSound'
  BY <1>s DEF SentIsSound, AskBlock
<1> QED BY <1>1, <1>2, <1>3, <1>4, <1>5, <1>6, <1>7, <1>8, <1>9, <1>10 DEF SInv

\* Receive keeps the invariant (decoder.cpp:433-485).
LEMMA ReceiveSafe ==
  ASSUME IInv, SInv, NEW r \in Requests, Receive(r)
  PROVE  SInv'
<1>0. TypeOK /\ OwnLockInv /\ SendInv /\ CopyInv /\ OrderInv
  BY DEF IInv
<1>s. /\ PlaceInv /\ AnswerInv /\ UpInv /\ HeavyInv /\ GetInv /\ WriteInv /\ TruncatedInv
      /\ StateInv /\ SentIsSound /\ MasterEndsByTwoGets
  BY DEF SInv
<1>1. PlaceInv'
  BY <1>0, <1>s, Places, Names DEF PlaceInv, TypeOK, OwnLockInv, Receive
<1>2. AnswerInv'
  BY <1>0, <1>s, Places, Names DEF AnswerInv, TypeOK, OwnLockInv, Receive
<1>3. HeavyInv'
  BY <1>0, <1>s, Places, Names DEF HeavyInv, HeavyPCs, TypeOK, OwnLockInv, Receive
<1>4. GetInv'
  BY <1>0, <1>s, Places, Names, SMTT(60) DEF GetInv, TypeOK, OwnLockInv, Receive
<1>5. WriteInv'
  BY <1>0, <1>s, Places, Names DEF WriteInv, WritePCs, TypeOK, OwnLockInv, Receive
<1>6. TruncatedInv'
  BY <1>0, <1>s, Places, Names DEF TruncatedInv, TypeOK, OwnLockInv, Receive
<1>7. StateInv'
  BY <1>0, <1>s, Places, Names DEF StateInv, WritePCs, TypeOK, OwnLockInv, Receive
<1>8. MasterEndsByTwoGets'
  BY <1>0, <1>s, Places, Names DEF MasterEndsByTwoGets, TypeOK, OwnLockInv, Receive
<1>9. UpInv' /\ SentIsSound'
  BY <1>s DEF UpInv, SentIsSound, Receive
<1> QED BY <1>1, <1>2, <1>3, <1>4, <1>5, <1>6, <1>7, <1>8, <1>9 DEF SInv

\* Spin keeps the invariant (decoder.cpp:466-483).
LEMMA SpinSafe ==
  ASSUME IInv, SInv, NEW r \in Requests, Spin(r)
  PROVE  SInv'
<1>0. TypeOK /\ OwnLockInv /\ SendInv /\ CopyInv /\ OrderInv
  BY DEF IInv
<1>s. /\ PlaceInv /\ AnswerInv /\ UpInv /\ HeavyInv /\ GetInv /\ WriteInv /\ TruncatedInv
      /\ StateInv /\ SentIsSound /\ MasterEndsByTwoGets
  BY DEF SInv
<1>1. PlaceInv'
  BY <1>0, <1>s, Places, Names DEF PlaceInv, TypeOK, OwnLockInv, Spin
<1>2. AnswerInv'
  BY <1>0, <1>s, Places, Names DEF AnswerInv, TypeOK, OwnLockInv, Spin
<1>3. HeavyInv'
  BY <1>0, <1>s, Places, Names DEF HeavyInv, HeavyPCs, TypeOK, OwnLockInv, Spin
<1>4. GetInv'
  BY <1>0, <1>s, Places, Names DEF GetInv, TypeOK, OwnLockInv, Spin
<1>5. WriteInv'
  BY <1>0, <1>s, Places, Names DEF WriteInv, WritePCs, TypeOK, OwnLockInv, Spin
<1>6. TruncatedInv'
  BY <1>0, <1>s, Places, Names DEF TruncatedInv, TypeOK, OwnLockInv, Spin
<1>7. StateInv'
  BY <1>0, <1>s, Places, Names DEF StateInv, WritePCs, TypeOK, OwnLockInv, Spin
<1>8. MasterEndsByTwoGets'
  BY <1>0, <1>s, Places, Names DEF MasterEndsByTwoGets, TypeOK, OwnLockInv, Spin
<1>9. UpInv' /\ SentIsSound'
  BY <1>s DEF UpInv, SentIsSound, Spin
<1> QED BY <1>1, <1>2, <1>3, <1>4, <1>5, <1>6, <1>7, <1>8, <1>9 DEF SInv

\* HeavyCrash keeps the invariant (decoder.cpp:488-520).
LEMMA HeavyCrashSafe ==
  ASSUME IInv, SInv, NEW r \in Requests, HeavyCrash(r)
  PROVE  SInv'
<1>0. TypeOK /\ OwnLockInv /\ SendInv /\ CopyInv /\ OrderInv
  BY DEF IInv
<1>s. /\ PlaceInv /\ AnswerInv /\ UpInv /\ HeavyInv /\ GetInv /\ WriteInv /\ TruncatedInv
      /\ StateInv /\ SentIsSound /\ MasterEndsByTwoGets
  BY DEF SInv
<1>1. AnswerInv'
  BY <1>0, <1>s, Places, Names DEF AnswerInv, TypeOK, OwnLockInv, HeavyCrash, End
<1>2. UpInv'
  BY <1>0, <1>s, Places, Names DEF UpInv, TypeOK, OwnLockInv, HeavyCrash, End
<1>3. WriteInv'
  BY <1>0, <1>s, Places, Names DEF WriteInv, WritePCs, TypeOK, OwnLockInv, HeavyCrash, End
<1>4. TruncatedInv'
  BY <1>0, <1>s, Places, Names DEF TruncatedInv, TypeOK, OwnLockInv, HeavyCrash, End
<1>5. MasterEndsByTwoGets'
  BY <1>s DEF MasterEndsByTwoGets, HeavyInv, HeavyPCs, HeavyCrash
<1>6. PlaceInv' /\ HeavyInv' /\ GetInv' /\ StateInv' /\ SentIsSound'
  BY <1>s DEF PlaceInv, HeavyInv, HeavyPCs, GetInv, StateInv, WritePCs, SentIsSound, HeavyCrash
<1> QED BY <1>1, <1>2, <1>3, <1>4, <1>5, <1>6 DEF SInv

\* HeavyReturn keeps the invariant (decoder.cpp:522-624).
LEMMA HeavyReturnSafe ==
  ASSUME IInv, SInv, NEW r \in Requests, HeavyReturn(r)
  PROVE  SInv'
<1>0. TypeOK /\ OwnLockInv /\ SendInv /\ CopyInv /\ OrderInv
  BY DEF IInv
<1>s. /\ PlaceInv /\ AnswerInv /\ UpInv /\ HeavyInv /\ GetInv /\ WriteInv /\ TruncatedInv
      /\ StateInv /\ SentIsSound /\ MasterEndsByTwoGets
  BY DEF SInv
<1>a. /\ host[r] = Master /\ Master \notin ended /\ UNCHANGED <<lost, at_start, ended>>
      /\ file_lock[Master] = r /\ file_lock'[Master] = Free /\ lost \cap Data # {}
      /\ pc[r] = "decode" /\ pc' = [pc EXCEPT ![r] = IF r \in Gets THEN "open" ELSE "recorded"]
      /\ copy' = IF copy = "truncated" THEN "junk" ELSE copy
  <2>1. pc[r] = "decode" /\ host[r] \notin ended
    BY DEF HeavyReturn
  <2>2. host[r] = Master
    BY <1>0, <2>1 DEF OwnLockInv
  <2>3. file_lock[Master] = r /\ lost \cap Data # {}
    BY <1>s, <2>1, <2>2 DEF WriteInv, WritePCs, HeavyInv, HeavyPCs
  <2>4. file_lock'[Master] = Free
    BY <1>0, <2>2, Places DEF TypeOK, HeavyReturn, Unlock
  <2> QED BY <2>1, <2>2, <2>3, <2>4 DEF HeavyReturn
<1>1. PlaceInv'
  BY <1>0, <1>s, Places, Names DEF PlaceInv, TypeOK, OwnLockInv, HeavyReturn, Unlock
<1>2. AnswerInv'
  BY <1>0, <1>s, Places, Names DEF AnswerInv, TypeOK, OwnLockInv, HeavyReturn, Unlock
<1>3. HeavyInv'
  BY <1>0, <1>s, Places, Names DEF HeavyInv, HeavyPCs, TypeOK, OwnLockInv, HeavyReturn, Unlock
<1>4. GetInv'
  BY <1>0, <1>s, Places, Names, SMTT(60) DEF GetInv, TypeOK, OwnLockInv, HeavyReturn, Unlock
<1>5. WriteInv'
  <2>1. \A q \in Requests : pc'[q] \notin WritePCs
    BY <1>0, <1>s, <1>a DEF WriteInv, WritePCs, TypeOK
  <2> QED BY <1>a, <2>1, Names DEF WriteInv
<1>6. TruncatedInv'
  BY <1>0, <1>s, Places, Names DEF TruncatedInv, TypeOK, OwnLockInv, HeavyReturn, Unlock
<1>7. StateInv'
  <2>1. copy # "absent" /\ (copy' = copy \/ copy' = "junk")
    BY <1>s, <1>a DEF StateInv, WritePCs
  <2> QED BY <1>s, <1>a, <2>1 DEF StateInv, WritePCs
<1>8. MasterEndsByTwoGets'
  BY <1>0, <1>s, Places, Names DEF MasterEndsByTwoGets, TypeOK, OwnLockInv, HeavyReturn, Unlock
<1>9. UpInv' /\ SentIsSound'
  BY <1>s DEF UpInv, SentIsSound, HeavyReturn
<1> QED BY <1>1, <1>2, <1>3, <1>4, <1>5, <1>6, <1>7, <1>8, <1>9 DEF SInv

\* OpenCopy keeps the invariant (connection.cpp:89-95).
LEMMA OpenCopySafe ==
  ASSUME IInv, SInv, NEW r \in Requests, OpenCopy(r)
  PROVE  SInv'
<1>0. TypeOK /\ OwnLockInv /\ SendInv /\ CopyInv /\ OrderInv
  BY DEF IInv
<1>s. /\ PlaceInv /\ AnswerInv /\ UpInv /\ HeavyInv /\ GetInv /\ WriteInv /\ TruncatedInv
      /\ StateInv /\ SentIsSound /\ MasterEndsByTwoGets
  BY DEF SInv
<1>1. PlaceInv'
  BY <1>0, <1>s, Places, Names DEF PlaceInv, TypeOK, OwnLockInv, OpenCopy
<1>2. AnswerInv'
  BY <1>0, <1>s, Places, Names DEF AnswerInv, TypeOK, OwnLockInv, OpenCopy
<1>3. HeavyInv'
  BY <1>0, <1>s, Places, Names DEF HeavyInv, HeavyPCs, TypeOK, OwnLockInv, OpenCopy
<1>4. GetInv'
  BY <1>0, <1>s, Places, Names DEF GetInv, TypeOK, OwnLockInv, OpenCopy
<1>5. WriteInv'
  BY <1>0, <1>s, Places, Names DEF WriteInv, WritePCs, TypeOK, OwnLockInv, OpenCopy
<1>6. TruncatedInv'
  BY <1>0, <1>s, Places, Names DEF TruncatedInv, TypeOK, OwnLockInv, OpenCopy
<1>7. StateInv'
  BY <1>0, <1>s DEF StateInv, GetInv, WritePCs, TypeOK, OpenCopy
<1>8. MasterEndsByTwoGets'
  BY <1>0, <1>s, Places, Names DEF MasterEndsByTwoGets, TypeOK, OwnLockInv, OpenCopy
<1>9. UpInv' /\ SentIsSound'
  BY <1>s DEF UpInv, SentIsSound, OpenCopy
<1> QED BY <1>1, <1>2, <1>3, <1>4, <1>5, <1>6, <1>7, <1>8, <1>9 DEF SInv

\* OpenFails keeps the invariant (connection.cpp:97-112).
LEMMA OpenFailsSafe ==
  ASSUME IInv, SInv, NEW r \in Requests, r \in Gets, NEW h \in Requests, OpenFails(r, h)
  PROVE  SInv'
<1>0. TypeOK /\ OwnLockInv /\ SendInv /\ CopyInv /\ OrderInv
  BY DEF IInv
<1>s. /\ PlaceInv /\ AnswerInv /\ UpInv /\ HeavyInv /\ GetInv /\ WriteInv /\ TruncatedInv
      /\ StateInv /\ SentIsSound /\ MasterEndsByTwoGets
  BY DEF SInv
<1>1. PlaceInv'
  BY <1>0, <1>s, Places, Names DEF PlaceInv, TypeOK, OwnLockInv, OpenFails
<1>2. AnswerInv'
  BY <1>0, <1>s, Places, Names DEF AnswerInv, TypeOK, OwnLockInv, OpenFails
<1>3. HeavyInv'
  BY <1>0, <1>s, Places, Names DEF HeavyInv, HeavyPCs, TypeOK, OwnLockInv, OpenFails
<1>4. GetInv'
  BY <1>0, <1>s, Places, Names DEF GetInv, TypeOK, OwnLockInv, OpenFails
<1>5. WriteInv'
  BY <1>0, <1>s, Places, Names DEF WriteInv, WritePCs, TypeOK, OwnLockInv, OpenFails
<1>6. TruncatedInv'
  BY <1>0, <1>s, Places, Names DEF TruncatedInv, TypeOK, OwnLockInv, OpenFails
<1>7. StateInv'
  BY <1>0, <1>s DEF StateInv, GetInv, WritePCs, TypeOK, OpenFails
<1>8. MasterEndsByTwoGets'
  BY <1>0, <1>s, Places, Names DEF MasterEndsByTwoGets, TypeOK, OwnLockInv, OpenFails
<1>9. UpInv' /\ SentIsSound'
  BY <1>s DEF UpInv, SentIsSound, OpenFails
<1> QED BY <1>1, <1>2, <1>3, <1>4, <1>5, <1>6, <1>7, <1>8, <1>9 DEF SInv

\* SendCopy keeps the invariant (connection.cpp:96-106).
LEMMA SendCopySafe ==
  ASSUME IInv, SInv, NEW r \in Requests, SendCopy(r)
  PROVE  SInv'
<1>0. TypeOK /\ OwnLockInv /\ SendInv /\ CopyInv /\ OrderInv
  BY DEF IInv
<1>s. /\ PlaceInv /\ AnswerInv /\ UpInv /\ HeavyInv /\ GetInv /\ WriteInv /\ TruncatedInv
      /\ StateInv /\ SentIsSound /\ MasterEndsByTwoGets
  BY DEF SInv
<1>1. PlaceInv'
  BY <1>0, <1>s, Places, Names DEF PlaceInv, TypeOK, OwnLockInv, SendCopy
<1>2. AnswerInv'
  BY <1>0, <1>s, Places, Names DEF AnswerInv, TypeOK, OwnLockInv, SendCopy
<1>3. HeavyInv'
  BY <1>0, <1>s, Places, Names DEF HeavyInv, HeavyPCs, TypeOK, OwnLockInv, SendCopy
<1>4. GetInv'
  BY <1>0, <1>s, Places, Names DEF GetInv, TypeOK, OwnLockInv, SendCopy
<1>5. WriteInv'
  BY <1>0, <1>s, Places, Names DEF WriteInv, WritePCs, TypeOK, OwnLockInv, SendCopy
<1>6. TruncatedInv'
  BY <1>0, <1>s, Places, Names DEF TruncatedInv, TypeOK, OwnLockInv, SendCopy
<1>7. StateInv'
  BY <1>0, <1>s, Places, Names DEF StateInv, WritePCs, TypeOK, OwnLockInv, SendCopy
<1>8. SentIsSound'
  <2>1. r \in Gets /\ Master \notin ended
    BY <1>0, <1>s, GetsAtMaster DEF SendCopy, PlaceInv
  <2>2. /\ copy # "truncated"
        /\ copy = "empty" => ~(Cardinality(lost) <= M) /\ at_start = "absent"
        /\ copy = "junk" => lost \cap Data # {}
    BY <1>s, <2>1 DEF SendCopy, TruncatedInv, StateInv
  <2>3. ~(Cardinality(lost) <= M) => Cardinality(lost) > M
    BY <1>0, LostIsFinite
  <2> QED BY <1>0, <1>s, <2>1, <2>2, <2>3 DEF SentIsSound, TypeOK, SendCopy
<1>9. MasterEndsByTwoGets'
  BY <1>0, <1>s, Places, Names DEF MasterEndsByTwoGets, TypeOK, OwnLockInv, SendCopy
<1>10. UpInv'
  BY <1>s DEF UpInv, SendCopy
<1> QED BY <1>1, <1>2, <1>3, <1>4, <1>5, <1>6, <1>7, <1>8, <1>9, <1>10 DEF SInv

\* Answer keeps the invariant (connection.cpp:758-779).
LEMMA AnswerSafe ==
  ASSUME IInv, SInv, NEW r \in Requests, NEW n \in Others, Answer(r, n)
  PROVE  SInv'
<1>0. TypeOK /\ OwnLockInv /\ SendInv /\ CopyInv /\ OrderInv
  BY DEF IInv
<1>s. /\ PlaceInv /\ AnswerInv /\ UpInv /\ HeavyInv /\ GetInv /\ WriteInv /\ TruncatedInv
      /\ StateInv /\ SentIsSound /\ MasterEndsByTwoGets
  BY DEF SInv
<1>1. AnswerInv'
  BY <1>0, <1>s, Places, Names DEF AnswerInv, TypeOK, OwnLockInv, Answer, PeerGoto
<1>2. UpInv'
  BY <1>0, <1>s, Places, Names DEF UpInv, TypeOK, OwnLockInv, Answer, PeerGoto
<1>3. PlaceInv' /\ HeavyInv' /\ GetInv' /\ WriteInv' /\ TruncatedInv' /\ StateInv' /\ SentIsSound' /\ MasterEndsByTwoGets'
  BY <1>s DEF PlaceInv, HeavyInv, HeavyPCs, GetInv, WriteInv, WritePCs, TruncatedInv, StateInv, SentIsSound, MasterEndsByTwoGets, Answer
<1> QED BY <1>1, <1>2, <1>3 DEF SInv

\* OrderLost keeps the invariant (connection.cpp:780-787).
LEMMA OrderLostSafe ==
  ASSUME IInv, SInv, NEW r \in Requests, NEW n \in Others, OrderLost(r, n)
  PROVE  SInv'
<1>0. TypeOK /\ OwnLockInv /\ SendInv /\ CopyInv /\ OrderInv
  BY DEF IInv
<1>s. /\ PlaceInv /\ AnswerInv /\ UpInv /\ HeavyInv /\ GetInv /\ WriteInv /\ TruncatedInv
      /\ StateInv /\ SentIsSound /\ MasterEndsByTwoGets
  BY DEF SInv
<1>1. AnswerInv'
  BY <1>0, <1>s, Places, Names DEF AnswerInv, TypeOK, OwnLockInv, OrderLost, End
<1>2. UpInv'
  BY <1>0, <1>s, Places, Names DEF UpInv, TypeOK, OwnLockInv, OrderLost, End
<1>3. WriteInv'
  BY <1>0, <1>s, Places, Names DEF WriteInv, WritePCs, TypeOK, OwnLockInv, OrderLost, End
<1>4. TruncatedInv'
  BY <1>0, <1>s, Places, Names DEF TruncatedInv, TypeOK, OwnLockInv, OrderLost, End
<1>5. MasterEndsByTwoGets'
  BY <1>0, <1>s, Places, Names DEF MasterEndsByTwoGets, TypeOK, OwnLockInv, OrderLost, End
<1>6. PlaceInv' /\ HeavyInv' /\ GetInv' /\ StateInv' /\ SentIsSound'
  BY <1>s DEF PlaceInv, HeavyInv, HeavyPCs, GetInv, StateInv, WritePCs, SentIsSound, OrderLost
<1> QED BY <1>1, <1>2, <1>3, <1>4, <1>5, <1>6 DEF SInv

\* LockLight keeps the invariant (connection.cpp:788-801).
LEMMA LockLightSafe ==
  ASSUME IInv, SInv, NEW r \in Requests, NEW n \in Others, LockLight(r, n)
  PROVE  SInv'
<1>0. TypeOK /\ OwnLockInv /\ SendInv /\ CopyInv /\ OrderInv
  BY DEF IInv
<1>s. /\ PlaceInv /\ AnswerInv /\ UpInv /\ HeavyInv /\ GetInv /\ WriteInv /\ TruncatedInv
      /\ StateInv /\ SentIsSound /\ MasterEndsByTwoGets
  BY DEF SInv
<1>1. AnswerInv'
  BY <1>0, <1>s, Places, Names DEF AnswerInv, TypeOK, OwnLockInv, LockLight, PeerGoto, Lock
<1>2. UpInv'
  BY <1>0, <1>s, Places, Names DEF UpInv, TypeOK, OwnLockInv, LockLight, PeerGoto, Lock
<1>3. WriteInv'
  BY <1>0, <1>s, Places, Names DEF WriteInv, WritePCs, TypeOK, OwnLockInv, LockLight, PeerGoto, Lock
<1>4. TruncatedInv'
  BY <1>0, <1>s, Places, Names DEF TruncatedInv, TypeOK, OwnLockInv, LockLight, PeerGoto, Lock
<1>5. PlaceInv' /\ HeavyInv' /\ GetInv' /\ StateInv' /\ SentIsSound' /\ MasterEndsByTwoGets'
  BY <1>s DEF PlaceInv, HeavyInv, HeavyPCs, GetInv, StateInv, WritePCs, SentIsSound, MasterEndsByTwoGets, LockLight
<1> QED BY <1>1, <1>2, <1>3, <1>4, <1>5 DEF SInv

\* EndLight keeps the invariant (connection.cpp:802-826).
LEMMA EndLightSafe ==
  ASSUME IInv, SInv, NEW r \in Requests, NEW n \in Others, EndLight(r, n)
  PROVE  SInv'
<1>0. TypeOK /\ OwnLockInv /\ SendInv /\ CopyInv /\ OrderInv
  BY DEF IInv
<1>s. /\ PlaceInv /\ AnswerInv /\ UpInv /\ HeavyInv /\ GetInv /\ WriteInv /\ TruncatedInv
      /\ StateInv /\ SentIsSound /\ MasterEndsByTwoGets
  BY DEF SInv
<1>1. AnswerInv'
  BY <1>0, <1>s, Places, Names DEF AnswerInv, TypeOK, OwnLockInv, EndLight, PeerGoto, Unlock
<1>2. UpInv'
  BY <1>0, <1>s, Places, Names DEF UpInv, TypeOK, OwnLockInv, EndLight, PeerGoto, Unlock
<1>3. WriteInv'
  BY <1>0, <1>s, Places, Names DEF WriteInv, WritePCs, TypeOK, OwnLockInv, EndLight, PeerGoto, Unlock
<1>4. TruncatedInv'
  BY <1>0, <1>s, Places, Names DEF TruncatedInv, TypeOK, OwnLockInv, EndLight, PeerGoto, Unlock
<1>5. PlaceInv' /\ HeavyInv' /\ GetInv' /\ StateInv' /\ SentIsSound' /\ MasterEndsByTwoGets'
  BY <1>s DEF PlaceInv, HeavyInv, HeavyPCs, GetInv, StateInv, WritePCs, SentIsSound, MasterEndsByTwoGets, EndLight
<1> QED BY <1>1, <1>2, <1>3, <1>4, <1>5 DEF SInv

\* SendNormal keeps the invariant (connection.cpp:827-853).
LEMMA SendNormalSafe ==
  ASSUME IInv, SInv, NEW r \in Requests, NEW n \in Others, SendNormal(r, n)
  PROVE  SInv'
<1>0. TypeOK /\ OwnLockInv /\ SendInv /\ CopyInv /\ OrderInv
  BY DEF IInv
<1>s. /\ PlaceInv /\ AnswerInv /\ UpInv /\ HeavyInv /\ GetInv /\ WriteInv /\ TruncatedInv
      /\ StateInv /\ SentIsSound /\ MasterEndsByTwoGets
  BY DEF SInv
<1>1. AnswerInv'
  BY <1>0, <1>s, Places, Names DEF AnswerInv, TypeOK, OwnLockInv, SendNormal, PeerGoto, Lock
<1>2. UpInv'
  BY <1>0, <1>s, Places, Names DEF UpInv, TypeOK, OwnLockInv, SendNormal, PeerGoto, Lock
<1>3. WriteInv'
  BY <1>0, <1>s, Places, Names DEF WriteInv, WritePCs, TypeOK, OwnLockInv, SendNormal, PeerGoto, Lock
<1>4. TruncatedInv'
  BY <1>0, <1>s, Places, Names DEF TruncatedInv, TypeOK, OwnLockInv, SendNormal, PeerGoto, Lock
<1>5. PlaceInv' /\ HeavyInv' /\ GetInv' /\ StateInv' /\ SentIsSound' /\ MasterEndsByTwoGets'
  BY <1>s DEF PlaceInv, HeavyInv, HeavyPCs, GetInv, StateInv, WritePCs, SentIsSound, MasterEndsByTwoGets, SendNormal
<1> QED BY <1>1, <1>2, <1>3, <1>4, <1>5 DEF SInv

\* WriteNormal keeps the invariant (connection.cpp:839-854).
LEMMA WriteNormalSafe ==
  ASSUME IInv, SInv, NEW r \in Requests, NEW n \in Others, WriteNormal(r, n)
  PROVE  SInv'
<1>0. TypeOK /\ OwnLockInv /\ SendInv /\ CopyInv /\ OrderInv
  BY DEF IInv
<1>s. /\ PlaceInv /\ AnswerInv /\ UpInv /\ HeavyInv /\ GetInv /\ WriteInv /\ TruncatedInv
      /\ StateInv /\ SentIsSound /\ MasterEndsByTwoGets
  BY DEF SInv
<1>1. PlaceInv' /\ AnswerInv' /\ UpInv' /\ HeavyInv' /\ GetInv' /\ WriteInv' /\ TruncatedInv' /\ StateInv' /\ SentIsSound' /\ MasterEndsByTwoGets'
  BY <1>s DEF PlaceInv, AnswerInv, UpInv, HeavyInv, HeavyPCs, GetInv, WriteInv, WritePCs, TruncatedInv, StateInv, SentIsSound, MasterEndsByTwoGets, WriteNormal
<1> QED BY <1>1 DEF SInv

\* EndNormal keeps the invariant (connection.cpp:855-860).
LEMMA EndNormalSafe ==
  ASSUME IInv, SInv, NEW r \in Requests, NEW n \in Others, EndNormal(r, n)
  PROVE  SInv'
<1>0. TypeOK /\ OwnLockInv /\ SendInv /\ CopyInv /\ OrderInv
  BY DEF IInv
<1>s. /\ PlaceInv /\ AnswerInv /\ UpInv /\ HeavyInv /\ GetInv /\ WriteInv /\ TruncatedInv
      /\ StateInv /\ SentIsSound /\ MasterEndsByTwoGets
  BY DEF SInv
<1>1. AnswerInv'
  BY <1>0, <1>s, Places, Names DEF AnswerInv, TypeOK, OwnLockInv, EndNormal, PeerGoto, Unlock
<1>2. UpInv'
  BY <1>0, <1>s, Places, Names DEF UpInv, TypeOK, OwnLockInv, EndNormal, PeerGoto, Unlock
<1>3. WriteInv'
  BY <1>0, <1>s, Places, Names DEF WriteInv, WritePCs, TypeOK, OwnLockInv, EndNormal, PeerGoto, Unlock
<1>4. TruncatedInv'
  BY <1>0, <1>s, Places, Names DEF TruncatedInv, TypeOK, OwnLockInv, EndNormal, PeerGoto, Unlock
<1>5. PlaceInv' /\ HeavyInv' /\ GetInv' /\ StateInv' /\ SentIsSound' /\ MasterEndsByTwoGets'
  BY <1>s DEF PlaceInv, HeavyInv, HeavyPCs, GetInv, StateInv, WritePCs, SentIsSound, MasterEndsByTwoGets, EndNormal
<1> QED BY <1>1, <1>2, <1>3, <1>4, <1>5 DEF SInv

\* Every step keeps both invariants.
LEMMA NextSInv == IInv /\ SInv /\ [Next]_vars => SInv'
<1> SUFFICES ASSUME IInv, SInv, [Next]_vars PROVE SInv'
  OBVIOUS
<1>1. CASE \E g \in Gets : GetTest(g) \/ \E h \in Gets : OpenFails(g, h)
  BY <1>1, GetTestSafe, OpenFailsSafe DEF Requests
<1>2. CASE \E u \in Updates : \E d \in Data : UpdateLock(u, d)
  BY <1>2, UpdateLockSafe DEF Requests
<1>3. CASE \E r \in Requests : Step(r)
  <2>1. PICK r \in Requests : Step(r)
    BY <1>3
  <2>2. CASE \E n \in Others : AskBlock(r, n)
    BY <2>2, AskBlockSafe
  <2> QED BY <2>1, <2>2, SegmentFoundSafe, SegmentMissingSafe, ConnectSafe, AnswerLostSafe,
             GiveUpSafe, OrderLightSafe, DecideHeavySafe, CopyLockSafe, CollectSafe, DiscardSafe,
             HeavyLockSafe, ReceiveSafe, SpinSafe, HeavyCrashSafe, HeavyReturnSafe, OpenCopySafe, SendCopySafe
          DEF Step
<1>4. CASE \E r \in Requests, n \in Others : PeerStep(r, n)
  BY <1>4, AnswerSafe, OrderLostSafe, LockLightSafe, EndLightSafe, SendNormalSafe, WriteNormalSafe,
     EndNormalSafe
     DEF PeerStep
<1>5. CASE UNCHANGED vars
  BY <1>5 DEF vars, SInv, PlaceInv, AnswerInv, UpInv, HeavyInv, GetInv, WriteInv, TruncatedInv,
     StateInv, SentIsSound, MasterEndsByTwoGets, HeavyPCs, WritePCs
<1> QED BY <1>1, <1>2, <1>3, <1>4, <1>5 DEF Next

\* The invariant of the safety properties holds of all executions.
THEOREM SafetyInductive == Spec => []SInv
<1>1. Init => SInv
  BY InitSInv
<1>2. IInv /\ SInv /\ [Next]_vars => SInv'
  BY NextSInv
<1> QED BY <1>1, <1>2, Inductive, PTL DEF Spec

\* While the master is up and no more than M blocks are lost, no server of a block ends
\* (connection.cpp:800-812 reads the order outside of try).
THEOREM NoBlockServerEnds == Spec => []BlockServersStayUp
<1>1. SInv => BlockServersStayUp
  BY DEF SInv, UpInv, BlockServersStayUp
<1> QED BY <1>1, SafetyInductive, PTL

\* With all data blocks and the full copy there, the master ends only by two GETs of which
\* one decodes for the other's sake (decoder.cpp:330).
THEOREM TwoGetsEndMaster == Spec => []MasterEndsByTwoGets
<1>1. SInv => MasterEndsByTwoGets
  BY DEF SInv
<1> QED BY <1>1, SafetyInductive, PTL

\* What a GET sends is no copy that a decoder is writing, and empty or undecodable only
\* when blocks are lost (connection.cpp:89-118).
THEOREM GetsSendSound == Spec => []SentIsSound
<1>1. SInv => SentIsSound
  BY DEF SInv
<1> QED BY <1>1, SafetyInductive, PTL
=============================================================================
