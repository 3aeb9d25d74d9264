---------------------------- MODULE Server_proofs ----------------------------
(***************************************************************************)
(* Proofs about Server, for every set of requests, every number of threads *)
(* and of connections, with and without faults.                            *)
(***************************************************************************)
EXTENDS Server, TLAPS

USE DEF Conns, Threads, Boot, Free, End, Unset

\* A connection that no request has reached holds no iterator; one that has a
\* request asks for a known name.
RequestInv ==
  \A c \in Conns :
    /\ phase[c] \in {"absent", "listening", "reading"} => it[c] = Unset
    /\ phase[c] \notin {"absent", "listening"} => Obj(c) \in Objects

\* Only the last connection created can be the one that is being accepted.
AcceptInv ==
  \A c \in Conns :
    /\ c > Len(connection_pool) => phase[c] = "absent"
    /\ phase[c] = "listening" => c = Len(connection_pool)

\* Inside the recording section the history read is the history there is.
SeenInv ==
  \A c \in Conns : phase[c] = "record" => seen[c] = obj_meta_table[Obj(c)].history

\* The inductive invariant.
IInv == TypeOK /\ AcceptInv /\ RequestInv /\ LockDiscipline /\ LeakedOnlyByMiss /\ IteratorValid /\ SeenInv

-----------------------------------------------------------------------------
\* The round robin of io_service_pool (io_service_pool.cpp:46) stays in the pool.
LEMMA GetIoService ==
  ASSUME next_io_service \in Threads
  PROVE  get_io_service \in Threads
BY ServerAssumption DEF get_io_service

\* connection_pool after push_back: it grows by one, the rest is as it was.
LEMMA Pushed ==
  ASSUME NEW S, NEW seq \in Seq(S), NEW e \in S
  PROVE  Append(seq, e) \in Seq(S) /\ Len(Append(seq, e)) = Len(seq) + 1
OBVIOUS

\* The server as its constructor leaves it (server.cpp:23-63) is consistent.
LEMMA InitIInv == Init => IInv
<1> SUFFICES ASSUME Init PROVE IInv
  OBVIOUS
<1>0. 4 % ThreadNum \in Threads
  BY ServerAssumption
<1>1. TypeOK
  BY <1>0, ServerAssumption DEF Init, TypeOK, Phases, OnThread, Ended, NewEntry, Absent, NoRequest
<1>2. \A c \in Conns : phase[c] \in {"absent", "listening"} /\ it[c] = Unset
  BY DEF Init
<1>3. RequestInv /\ SeenInv
  BY <1>2 DEF RequestInv, SeenInv
<1>4. LockDiscipline
  BY <1>2 DEF LockDiscipline, Critical
<1>5. LeakedOnlyByMiss
  BY ServerAssumption DEF Init, LeakedOnlyByMiss
<1>6. IteratorValid
  BY <1>2, ServerAssumption DEF IteratorValid
<1>7. AcceptInv
  BY ServerAssumption DEF Init, AcceptInv
<1> QED BY <1>1, <1>3, <1>4, <1>5, <1>6, <1>7 DEF IInv
-----------------------------------------------------------------------------
(***************************************************************************)
(* Most actions only move one handler between phases outside the sections  *)
(* of table_lock; the others are taken one by one.                         *)
(***************************************************************************)
QuietStep(c) ==
  /\ phase[c] \in Phases \ (Critical \cup Ended \cup {"absent", "listening"})
  /\ \E q \in Phases \ (Critical \cup {"absent", "listening", "reading"}) :
       phase' = [phase EXCEPT ![c] = q]
  /\ alive' \in BOOLEAN
  /\ files' \subseteq Objects
  /\ total' \subseteq Conns
  /\ UNCHANGED <<next_io_service, connection_pool, request, table_lock, obj_meta_table,
                 it, seen>>

MovesHandler(c) ==
  \/ handle_read(c) \/ handle_write(c) \/ Received(c) \/ WorkThenRecord(c)
  \/ WorkThenEnd(c) \/ Finish(c) \/ handle_read_error(c) \/ WorkFails(c)
  \/ PeerLostProtected(c) \/ LoopForever(c)

UsesTable(c) ==
  \/ handle_accept(c) \/ LockForLookup(c) \/ LookupHit(c) \/ LookupMiss(c)
  \/ LockForRecord(c) \/ InsertRecord(c) \/ InsertEntry(c) \/ ClearAndInsertRecord(c)

\* The process ends, and nothing else changes.
EndsProcess ==
  /\ alive' = FALSE
  /\ UNCHANGED <<next_io_service, connection_pool, phase, request, files, total,
                 table_lock, obj_meta_table, it, seen>>

\* Every step is one of four kinds, by what it does to the state all handlers share.
LEMMA StepCases ==
  ASSUME [Next]_vars
  PROVE  \/ \E c \in Conns : MovesHandler(c) \/ UsesTable(c)
         \/ EndsProcess
         \/ UNCHANGED vars
BY DEF Next, ConnectionStep, HandlerStep, PeerFault, MovesHandler, UsesTable, EndsProcess,
       PeerLostUnprotected, handle_stop

\* A handler that works outside the lock changes nothing but its own phase, or the
\* process ends; none of them enters or leaves a section.
LEMMA MovesAreQuiet ==
  ASSUME IInv, NEW c \in Conns, MovesHandler(c)
  PROVE  QuietStep(c)
<1> USE DEF IInv, TypeOK, QuietStep, Phases, OnThread, Ended, Critical
<1>1. CASE handle_read(c)
  <2>1. Obj(c) \in Objects
    BY <1>1 DEF RequestInv, handle_read
  <2>2. files' \subseteq Objects /\ total' \subseteq Conns
    BY <1>1, <2>1 DEF handle_read
  <2>3. \E q \in {"lookup_lock", "await"} : phase' = [phase EXCEPT ![c] = q]
    BY <1>1 DEF handle_read
  <2> QED BY <1>1, <2>2, <2>3 DEF handle_read
<1>2. CASE handle_write(c)        BY <1>2 DEF handle_write
<1>3. CASE Received(c)            BY <1>3 DEF Received
<1>4. CASE WorkThenRecord(c)      BY <1>4 DEF WorkThenRecord
<1>5. CASE WorkThenEnd(c)         BY <1>5 DEF WorkThenEnd
<1>6. CASE Finish(c)              BY <1>6 DEF Finish
<1>7. CASE handle_read_error(c)   BY <1>7 DEF handle_read_error
<1>8. CASE WorkFails(c)           BY <1>8 DEF WorkFails
<1>9. CASE PeerLostProtected(c)   BY <1>9 DEF PeerLostProtected
<1>10. CASE LoopForever(c)        BY <1>10 DEF LoopForever
<1> QED BY <1>1, <1>2, <1>3, <1>4, <1>5, <1>6, <1>7, <1>8, <1>9, <1>10 DEF MovesHandler

\* Such a step keeps the invariant.
LEMMA QuietKeepsIInv ==
  ASSUME IInv, NEW c \in Conns, QuietStep(c)
  PROVE  IInv'
<1> USE DEF IInv, QuietStep
<1>1. TypeOK'
  BY DEF TypeOK
<1>2. RequestInv'
  BY DEF TypeOK, RequestInv, Obj, Phases
<1>3. LockDiscipline'
  BY DEF TypeOK, LockDiscipline
<1>4. LeakedOnlyByMiss'
  BY DEF TypeOK, LeakedOnlyByMiss, Ended, Critical
<1>5. IteratorValid'
  BY DEF IteratorValid, Obj
<1>6. SeenInv'
  BY DEF TypeOK, SeenInv, Obj, Critical
<1>7. AcceptInv'
  BY ServerAssumption DEF TypeOK, AcceptInv, Phases
<1> QED BY <1>1, <1>2, <1>3, <1>4, <1>5, <1>6, <1>7

-----------------------------------------------------------------------------
(***************************************************************************)
(* The steps that use the accept queue or the table.                       *)
(***************************************************************************)
\* Accepting a connection and reading its request keep the invariant.
LEMMA AcceptKeepsIInv ==
  ASSUME IInv, NEW c \in Conns, handle_accept(c)
  PROVE  IInv'
<1> USE DEF IInv, handle_accept
<1>1. TypeOK'
  <2>1. get_io_service \in Threads
    BY GetIoService DEF TypeOK
  <2>2. /\ next_io_service' \in Threads
        /\ connection_pool' \in Seq(Threads)
        /\ Len(connection_pool') \in 1 .. MaxConns
    <3>1. CASE Len(connection_pool) = MaxConns
      BY <3>1 DEF TypeOK, start_accept
    <3>2. CASE Len(connection_pool) # MaxConns
      <4>1. /\ next_io_service' = get_io_service
            /\ connection_pool' = Append(connection_pool, get_io_service)
        BY <3>2 DEF start_accept
      <4>2. connection_pool \in Seq(Threads) /\ get_io_service \in Threads
        BY <2>1 DEF TypeOK
      <4>3. connection_pool' \in Seq(Threads) /\ Len(connection_pool') = Len(connection_pool) + 1
        BY ONLY <4>1, <4>2, Pushed
      <4>4. Len(connection_pool) \in 1 .. MaxConns
        BY DEF TypeOK
      <4>5. Len(connection_pool') \in 1 .. MaxConns
        BY ONLY <3>2, <4>3, <4>4, ServerAssumption DEF ServerAssumption
      <4> QED BY <4>1, <4>2, <4>3, <4>5
    <3> QED BY <3>1, <3>2
  <2>3. request' \in [Conns -> [method : Methods, obj : Objects] \cup {NoRequest}]
    BY ServerAssumption DEF TypeOK
  <2>4. phase' \in [Conns -> Phases]
    BY DEF TypeOK, Phases
  <2> QED BY <2>2, <2>3, <2>4 DEF TypeOK
<1>2. /\ phase[c] = "listening" /\ phase'[c] = "reading"
      /\ request'[c].obj \in Objects
      /\ it[c] = Unset
  BY ServerAssumption DEF TypeOK, RequestInv
<1>3. ASSUME NEW d \in Conns, d # c
      PROVE  /\ request'[d] = request[d]
             /\ \/ phase'[d] = phase[d] /\ d # c + 1
                \/ phase[d] = "absent" /\ phase'[d] = "listening" /\ d = c + 1
  BY <1>3, ServerAssumption DEF TypeOK, AcceptInv
<1>4. AcceptInv'
  <2>1. c = Len(connection_pool)
    BY <1>2 DEF AcceptInv
  <2>2. Len(connection_pool') = IF c = MaxConns THEN c ELSE c + 1
    BY <2>1, GetIoService DEF TypeOK, start_accept
  <2> QED BY <1>2, <1>3, <2>1, <2>2, ServerAssumption DEF AcceptInv
<1>5. RequestInv'
  BY <1>2, <1>3 DEF RequestInv, Obj
<1>6. LockDiscipline'
  BY <1>2, <1>3 DEF LockDiscipline, Critical
<1>7. LeakedOnlyByMiss'
  BY <1>2, <1>3 DEF LeakedOnlyByMiss, Critical, Ended
<1>8. IteratorValid'
  BY <1>2, <1>3, ServerAssumption DEF IteratorValid, Obj
<1>9. SeenInv'
  BY <1>2, <1>3 DEF SeenInv, Obj
<1> QED BY <1>1, <1>4, <1>5, <1>6, <1>7, <1>8, <1>9

\* The two lock() calls: the lock was free, so nobody was in a section.
LEMMA LockKeepsIInv ==
  ASSUME IInv, NEW c \in Conns, LockForLookup(c) \/ LockForRecord(c)
  PROVE  IInv'
<1> USE DEF IInv, LockForLookup, LockForRecord
<1>1. /\ phase[c] \in {"lookup_lock", "record_lock"}
      /\ phase'[c] \in {"lookup", "record"}
      /\ \A d \in Conns : d # c => phase'[d] = phase[d] /\ seen'[d] = seen[d]
      /\ phase'[c] = "record" => seen'[c] = obj_meta_table[Obj(c)].history
      /\ table_lock = Free /\ table_lock' = c
      /\ UNCHANGED <<connection_pool, request, obj_meta_table, it>>
  BY DEF TypeOK
<1>2. Obj(c) \in Objects
  BY <1>1 DEF RequestInv
<1>3. TypeOK'
  BY <1>2 DEF TypeOK, Phases, OnThread
<1>4. AcceptInv' /\ RequestInv'
  BY <1>1 DEF AcceptInv, RequestInv, Obj
<1>5. LockDiscipline' /\ LeakedOnlyByMiss'
  BY <1>1, ServerAssumption DEF LockDiscipline, LeakedOnlyByMiss, Critical
<1>6. IteratorValid' /\ SeenInv'
  BY <1>1 DEF IteratorValid, SeenInv, Obj
<1> QED BY <1>3, <1>4, <1>5, <1>6

\* The lookup keeps it, by a hit that unlocks (connection.cpp:78) or by a miss that
\* does not (connection.cpp:108).
LEMMA LookupKeepsIInv ==
  ASSUME IInv, NEW c \in Conns, LookupHit(c) \/ LookupMiss(c)
  PROVE  IInv'
<1> USE DEF IInv
<1>1. /\ phase[c] = "lookup" /\ table_lock = c
      /\ Obj(c) \in Objects
  BY DEF LookupHit, LookupMiss, LockDiscipline, Critical, RequestInv
<1>2. /\ \/ phase'[c] = "work" /\ table_lock' = Free
         \/ phase'[c] \in Ended /\ table_lock' = c /\ it'[c] = End
      /\ it'[c] = obj_meta_table[Obj(c)].creator
      /\ \A d \in Conns : d # c => phase'[d] = phase[d] /\ it'[d] = it[d]
      /\ UNCHANGED <<alive, next_io_service, connection_pool, request, files, total,
                     obj_meta_table, seen>>
  <2>1. CASE LookupHit(c)
    BY <2>1 DEF TypeOK, LookupHit
  <2>2. CASE LookupMiss(c)
    <3>1. obj_meta_table[Obj(c)].creator = End
      BY <2>2 DEF LookupMiss, Absent
    <3> QED BY <1>1, <2>2, <3>1 DEF TypeOK, LookupMiss, Ended
  <2> QED BY <2>1, <2>2
<1>3. TypeOK'
  <2>1. obj_meta_table[Obj(c)].creator \in 0 .. Unset
    <3>1. obj_meta_table[Obj(c)].creator \in 0 .. End
      BY <1>1 DEF TypeOK
    <3>2. MaxConns \in Nat
      BY ServerAssumption
    <3> QED BY <3>1, <3>2 DEF End, Unset
  <2>2. it' \in [Conns -> 0 .. Unset]
    <3>1. End \in 0 .. Unset
      BY ServerAssumption DEF End, Unset
    <3> QED BY <2>1, <3>1 DEF TypeOK, LookupHit, LookupMiss
  <2>3. phase' \in [Conns -> Phases]
    BY DEF TypeOK, LookupHit, LookupMiss, Phases, OnThread, Ended
  <2>4. table_lock' \in Conns \cup {Free}
    BY <1>2
  <2> QED BY <1>2, <2>2, <2>3, <2>4 DEF TypeOK
<1>4. AcceptInv' /\ RequestInv'
  BY <1>1, <1>2 DEF AcceptInv, RequestInv, Obj, Ended
<1>5. LockDiscipline'
  BY <1>1, <1>2 DEF LockDiscipline, Critical, Ended
<1>6. LeakedOnlyByMiss'
  BY <1>1, <1>2 DEF LeakedOnlyByMiss, Critical
<1>7. IteratorValid'
  BY <1>2 DEF IteratorValid, Obj
<1>8. SeenInv'
  BY <1>1, <1>2 DEF SeenInv, Obj, Ended
<1> QED BY <1>3, <1>4, <1>5, <1>6, <1>7, <1>8

\* The three recording sections change only the entry of the handler's object,
\* and nobody else is in a section.
LEMMA RecordKeepsIInv ==
  ASSUME IInv, NEW c \in Conns,
         InsertRecord(c) \/ InsertEntry(c) \/ ClearAndInsertRecord(c)
  PROVE  IInv'
<1> USE DEF IInv
<1>1. /\ phase[c] = "record" /\ table_lock = c
      /\ Obj(c) \in Objects
  BY DEF InsertRecord, InsertEntry, ClearAndInsertRecord, LockDiscipline, Critical, RequestInv
<1>2. /\ phase'[c] \in {"closed", "finish"}
      /\ table_lock' = Free
      /\ \A d \in Conns : d # c => phase'[d] = phase[d] /\ phase[d] \notin Critical
      /\ UNCHANGED <<alive, next_io_service, connection_pool, request, files, total, it, seen>>
  BY <1>1 DEF TypeOK, InsertRecord, InsertEntry, ClearAndInsertRecord, LockDiscipline
<1>3. obj_meta_table' \in [Objects -> [creator : 0 .. End, history : Seq(0 .. MaxConns)]]
  <2>1. c \in 0 .. MaxConns /\ c \in 0 .. End
    BY ServerAssumption
  <2>2. Append(seen[c], c) \in Seq(0 .. MaxConns) /\ <<c>> \in Seq(0 .. MaxConns)
    BY <2>1, Pushed DEF TypeOK
  <2>3. CASE InsertRecord(c)
    BY <1>1, <2>2, <2>3 DEF TypeOK, InsertRecord
  <2>4. CASE InsertEntry(c)
    BY <1>1, <2>1, <2>2, <2>4 DEF TypeOK, InsertEntry, NewEntry
  <2>5. CASE ClearAndInsertRecord(c)
    BY <1>1, <2>2, <2>5 DEF TypeOK, ClearAndInsertRecord
  <2> QED BY <2>3, <2>4, <2>5
<1>4. \A o \in Objects : obj_meta_table[o].creator # End =>
                         obj_meta_table'[o].creator = obj_meta_table[o].creator
  BY <1>1 DEF TypeOK, InsertRecord, InsertEntry, ClearAndInsertRecord, Absent
<1>5. TypeOK'
  BY <1>2, <1>3 DEF TypeOK, InsertRecord, InsertEntry, ClearAndInsertRecord, Phases, OnThread, Ended
<1>6. AcceptInv' /\ RequestInv'
  BY <1>1, <1>2 DEF AcceptInv, RequestInv, Obj
<1>7. LockDiscipline' /\ LeakedOnlyByMiss'
  BY <1>1, <1>2, ServerAssumption DEF LockDiscipline, LeakedOnlyByMiss, Critical
<1>8. IteratorValid'
  BY <1>2, <1>4, ServerAssumption DEF IteratorValid, Obj, RequestInv
<1>9. SeenInv'
  BY <1>2 DEF SeenInv, Critical
<1> QED BY <1>5, <1>6, <1>7, <1>8, <1>9

\* A step that leaves the variables alone keeps the invariant.
LEMMA UnchangedKeepsIInv ==
  ASSUME IInv, EndsProcess \/ UNCHANGED vars
  PROVE  IInv'
<1> USE DEF IInv
<1>1. /\ alive' \in BOOLEAN
      /\ UNCHANGED <<next_io_service, connection_pool, phase, request, files, total,
                     table_lock, obj_meta_table, it, seen>>
  BY DEF EndsProcess, vars, TypeOK
<1>2. TypeOK'
  BY <1>1 DEF TypeOK
<1>3. AcceptInv' /\ RequestInv' /\ SeenInv' /\ IteratorValid'
  BY <1>1 DEF AcceptInv, RequestInv, SeenInv, IteratorValid, Obj
<1>4. LockDiscipline' /\ LeakedOnlyByMiss'
  BY <1>1 DEF LockDiscipline, LeakedOnlyByMiss
<1> QED BY <1>2, <1>3, <1>4

\* The invariant is inductive.
LEMMA NextKeepsIInv == IInv /\ [Next]_vars => IInv'
<1> SUFFICES ASSUME IInv, [Next]_vars PROVE IInv'
  OBVIOUS
<1>1. CASE \E c \in Conns : MovesHandler(c)
  BY <1>1, MovesAreQuiet, QuietKeepsIInv
<1>2. CASE \E c \in Conns : UsesTable(c)
  BY <1>2, AcceptKeepsIInv, LockKeepsIInv, LookupKeepsIInv, RecordKeepsIInv DEF UsesTable
<1>3. CASE EndsProcess \/ UNCHANGED vars
  BY <1>3, UnchangedKeepsIInv
<1> QED BY <1>1, <1>2, <1>3, StepCases

\* The inductive invariant holds in every behaviour of the server.
THEOREM Invariance == Spec => []IInv
BY InitIInv, NextKeepsIInv, PTL DEF Spec

-----------------------------------------------------------------------------
(***************************************************************************)
(* The properties.                                                         *)
(***************************************************************************)
\* Every variable keeps its type.
THEOREM TypeCorrect == Spec => []TypeOK
<1>1. IInv => TypeOK
  BY DEF IInv
<1> QED BY <1>1, Invariance, PTL

\* A handler inside a section of table_lock holds it, so two never are
\* (connection.cpp:74, 149, 177, 376, 419, 462, 611, 730, 763).
THEOREM SectionsAreLocked == Spec => []LockDiscipline
<1>1. IInv => LockDiscipline
  BY DEF IInv
<1> QED BY <1>1, Invariance, PTL

\* The only way table_lock outlives its holder is a missed lookup.
THEOREM OnlyMissesLeak == Spec => []LeakedOnlyByMiss
<1>1. IInv => LeakedOnlyByMiss
  BY DEF IInv
<1> QED BY <1>1, Invariance, PTL

\* An iterator used after table_lock.unlock() names the entry that was found.
THEOREM IteratorsStayValid == Spec => []IteratorValid
<1>1. IInv => IteratorValid
  BY DEF IInv
<1> QED BY <1>1, Invariance, PTL

\* The step of HistoryKept: only the recording sections touch a history, and
\* they append to the history there is, found an empty one, or clear it.
LEMMA HistoryStep ==
  ASSUME IInv, [Next]_vars, NEW o \in Objects
  PROVE  LET old == obj_meta_table[o].history
             new == obj_meta_table'[o].history
         IN  \/ new = old
             \/ \E c \in Conns : new = Append(old, c)
             \/ \E c \in total : Obj(c) = o /\ new = <<c>>
<1> DEFINE Kept == obj_meta_table'[o].history = obj_meta_table[o].history
<1>1. CASE EndsProcess \/ UNCHANGED vars
  BY <1>1 DEF EndsProcess, vars
<1>2. ASSUME NEW c \in Conns, MovesHandler(c) PROVE Kept
  BY <1>2, MovesAreQuiet DEF QuietStep
<1>3. ASSUME NEW c \in Conns,
             handle_accept(c) \/ LockForLookup(c) \/ LookupHit(c) \/ LookupMiss(c)
               \/ LockForRecord(c)
      PROVE  Kept
  BY <1>3 DEF handle_accept, LockForLookup, LookupHit, LookupMiss, LockForRecord
<1>4. ASSUME NEW c \in Conns, InsertRecord(c)
      PROVE  Kept \/ obj_meta_table'[o].history = Append(obj_meta_table[o].history, c)
  <2>1. seen[c] = obj_meta_table[Obj(c)].history
    BY <1>4 DEF IInv, SeenInv, InsertRecord
  <2> QED BY <1>4, <2>1 DEF IInv, TypeOK, InsertRecord
<1>5. ASSUME NEW c \in Conns, InsertEntry(c)
      PROVE  Kept \/ obj_meta_table'[o].history = Append(obj_meta_table[o].history, c)
  <2>1. CASE obj_meta_table[Obj(c)] = Absent /\ o = Obj(c)
    <3>1. obj_meta_table'[o].history = <<c>> /\ obj_meta_table[o].history = <<>>
      BY <1>5, <2>1 DEF IInv, TypeOK, InsertEntry, NewEntry, Absent
    <3>2. Append(<<>>, c) = <<c>>
      OBVIOUS
    <3> QED BY <3>1, <3>2
  <2>2. CASE ~ (obj_meta_table[Obj(c)] = Absent /\ o = Obj(c))
    BY <1>5, <2>2 DEF IInv, TypeOK, InsertEntry
  <2> QED BY <2>1, <2>2
<1>6. ASSUME NEW c \in Conns, ClearAndInsertRecord(c)
      PROVE  Kept \/ (c \in total /\ Obj(c) = o /\ obj_meta_table'[o].history = <<c>>)
  BY <1>6 DEF IInv, TypeOK, ClearAndInsertRecord
<1> QED BY <1>1, <1>2, <1>3, <1>4, <1>5, <1>6, StepCases DEF UsesTable

\* No recorded version is lost to a concurrent handler.
THEOREM HistoriesAreKept == Spec => HistoryKept
<1>1. IInv /\ [Next]_vars =>
        [\A o \in Objects :
           LET old == obj_meta_table[o].history
               new == obj_meta_table'[o].history
           IN  \/ new = old
               \/ \E c \in Conns : new = Append(old, c)
               \/ \E c \in total : Obj(c) = o /\ new = <<c>>]_vars
  BY HistoryStep
<1> QED BY <1>1, Invariance, PTL DEF Spec, HistoryKept

\* The step of LeakFreezesTable: whoever would touch the table holds the lock,
\* and the one that holds it has ended.
LEMMA LeakStep ==
  ASSUME IInv, [Next]_vars, Leaked
  PROVE  Leaked' /\ UNCHANGED <<obj_meta_table, it>>
<1> USE DEF IInv
<1>1. PICK d \in Conns : table_lock = d /\ phase[d] \in Ended
  BY DEF Leaked
<1>2. \A c \in Conns : phase[c] \notin Critical
  BY <1>1 DEF LockDiscipline, Critical, Ended
<1>3. table_lock # Free
  BY <1>1
<1>4. CASE EndsProcess \/ UNCHANGED vars
  BY <1>1, <1>4 DEF EndsProcess, vars, Leaked
<1>5. ASSUME NEW c \in Conns, MovesHandler(c)
      PROVE  Leaked' /\ UNCHANGED <<obj_meta_table, it>>
  <2>1. QuietStep(c)
    BY <1>5, MovesAreQuiet
  <2>2. c # d
    BY <1>1, <2>1 DEF QuietStep
  <2> QED BY <1>1, <2>1, <2>2 DEF QuietStep, Leaked, TypeOK
<1>6. ASSUME NEW c \in Conns, UsesTable(c)
      PROVE  Leaked' /\ UNCHANGED <<obj_meta_table, it>>
  <2>1. handle_accept(c)
    BY <1>2, <1>3, <1>6 DEF UsesTable, LockForLookup, LookupHit, LookupMiss, LockForRecord,
       InsertRecord, InsertEntry, ClearAndInsertRecord, Critical
  <2>2. phase[c] = "listening" /\ (c + 1 \in Conns => phase[c + 1] = "absent")
    BY <2>1, ServerAssumption DEF handle_accept, AcceptInv, TypeOK
  <2>3. phase'[d] = phase[d]
    BY <1>1, <2>1, <2>2 DEF handle_accept, Ended
  <2> QED BY <1>1, <2>1, <2>3 DEF handle_accept, Leaked
<1> QED BY <1>4, <1>5, <1>6, StepCases

\* After one missed lookup the table is frozen for good.
THEOREM LeaksFreezeTheTable == Spec => LeakFreezesTable
<1>1. IInv /\ [Next]_vars => [Leaked => Leaked' /\ UNCHANGED <<obj_meta_table, it>>]_vars
  BY LeakStep
<1> QED BY <1>1, Invariance, PTL DEF Spec, LeakFreezesTable
=============================================================================
