------------------------------- MODULE Server -------------------------------
(***************************************************************************)
(* One storage server process: the round-robin pool of io_services with    *)
(* one thread each (io_service_pool.cpp), the accept loop (server.cpp),    *)
(* and the handlers of connection::handle_read as far as they touch what   *)
(* all connections of the process share: server::table_lock and            *)
(* server::obj_meta_table.                                                 *)
(*                                                                         *)
(* A handler runs from start to end on the thread of its connection's      *)
(* io_service and blocks that thread while it waits for table_lock or for  *)
(* a peer.  What the handlers say to their peers is the subject of         *)
(* UpdateProtocol; here a peer answers, or is lost if Faults.              *)
(***************************************************************************)
EXTENDS Naturals, Sequences

CONSTANTS Objects,    \* names of stored objects
          Requests,   \* the requests the peers may send: [method, obj]
          Stored,     \* the objects in obj_meta_table when the run starts
          OnDisk,     \* the objects whose file an earlier life of the process left
          ThreadNum,  \* thread_num of the configuration: size of the pool
          MaxConns,   \* bound: connections accepted in a behaviour
          Faults      \* TRUE: peers vanish, files fail to open, the server is stopped

Methods == {"GET", "UPDATE", "TRANSMIT_DELTA_CONTENT", "TRANSMIT_UPDATE_CONTENT",
            "TRANSMIT_BLOCK", "POST", "RECONSTRUCT"}

ASSUME ServerAssumption ==
  /\ Requests \subseteq [method : Methods, obj : Objects]
  /\ Stored \subseteq OnDisk
  /\ OnDisk \subseteq Objects
  /\ ThreadNum \in Nat \ {0}
  /\ MaxConns \in Nat \ {0}
  /\ Faults \in BOOLEAN

Conns   == 1 .. MaxConns
Threads == 0 .. ThreadNum - 1

\* Connection 0 stands for the handlers that filled the table with Stored.
Boot  == 0
Free  == 0                  \* table_lock when no connection holds it
End   == MaxConns + 1       \* the iterator obj_meta_table.end()
Unset == MaxConns + 2       \* the iterator before the lookup

\* An entry of the table is named by the connection that inserted it, a version
\* in its history_record by the connection that pushed it.
Absent    == [creator |-> End, history |-> <<>>]
NewEntry(c) == [creator |-> c, history |-> <<c>>]
NoRequest == [method |-> "none", obj |-> "none"]

VARIABLES
  alive,            \* the process runs
  next_io_service,  \* io_service_pool's cursor
  connection_pool,  \* server's deque of connections: the thread of each
  phase,            \* where the handler of each connection is
  request,          \* request_ of each connection
  files,            \* objects whose block or copy exists on this node's disk
  total,            \* connections whose request became TOTAL_RECONSTRUCT
  table_lock,       \* the connection that holds server::table_lock, or Free
  obj_meta_table,   \* the metadata entry of each object, or Absent
  it,               \* the iterator each handler got from its lookup
  seen              \* history_record as read inside the recording section

vars == <<alive, next_io_service, connection_pool, phase, request, files, total,
          table_lock, obj_meta_table, it, seen>>

\* Where the handler of a connection can be.
\*   absent       not created          listening  its async_accept is pending
\*   reading      async_read_some pending
\*   await        waits for the content or the block, before it uses the table
\*   lookup_lock  at table_lock.lock() before the find      lookup  holds it
\*   work         found; file, decoder and peer work without the lock
\*   record_lock  at table_lock.lock() before the insert    record  holds it
\*   finish       recorded; acknowledgements and replies
\*   transmitting TransmitFile runs, the thread is free
\*   stuck        in a loop, or on a lock, that never ends
\*   closed       handle_write has run
\*   abandoned    the handler returned without handle_write
Critical == {"lookup", "record"}
OnThread == {"await", "lookup_lock", "lookup", "work", "record_lock", "record",
             "finish", "stuck"}
Ended    == {"closed", "abandoned"}
Phases   == {"absent", "listening", "reading", "transmitting"} \cup OnThread \cup Ended

Obj(c)    == request[c].obj
Method(c) == request[c].method
Created(c) == c <= Len(connection_pool)

\* Mutation: the cursor is not reset at the end of the pool.
get_io_service_no_reset == next_io_service + 1

\* The io_service that get_io_service returns and the cursor after the call.
get_io_service == (next_io_service + 1) % ThreadNum

\* signals_, acceptor_ and inner_acceptor_ took the first three io_services.
AcceptorThread == 2 % ThreadNum

Idle(t) == \A c \in Conns : (Created(c) /\ connection_pool[c] = t) => phase[c] \notin OnThread

Init ==
  /\ alive = TRUE
  /\ next_io_service = 4 % ThreadNum
  /\ connection_pool = << 4 % ThreadNum >>
  /\ phase = [c \in Conns |-> IF c = 1 THEN "listening" ELSE "absent"]
  /\ request = [c \in Conns |-> NoRequest]
  /\ files = OnDisk
  /\ total = {}
  /\ table_lock = Free
  /\ obj_meta_table = [o \in Objects |->
       IF o \in Stored THEN NewEntry(Boot) ELSE Absent]
  /\ it = [c \in Conns |-> Unset]
  /\ seen = [c \in Conns |-> <<>>]
-----------------------------------------------------------------------------
(***************************************************************************)
(* The accept loop.  handle_accept starts the accepted connection and      *)
(* calls start_accept, which creates the next one on the next io_service   *)
(* and pushes it on connection_pool; nothing ever pops it.                 *)
(***************************************************************************)
start_accept ==
  IF Len(connection_pool) = MaxConns
    THEN UNCHANGED <<next_io_service, connection_pool>>
    ELSE /\ next_io_service' = get_io_service
         /\ connection_pool' = Append(connection_pool, get_io_service)

handle_accept(c) ==
  /\ alive
  /\ phase[c] = "listening"
  /\ Idle(AcceptorThread)
  /\ \E r \in Requests : request' = [request EXCEPT ![c] = r]
  /\ phase' = [d \in Conns |-> IF d = c THEN "reading"
                               ELSE IF d = c + 1 THEN "listening" ELSE phase[d]]
  /\ start_accept
  /\ UNCHANGED <<alive, files, total, table_lock, obj_meta_table, it, seen>>

\* A block that exists already is not the first arrival: the request becomes a
\* TOTAL_RECONSTRUCT.  Otherwise its file and its lock file are created.
IsTotalReconstruct(c) == Method(c) = "TRANSMIT_BLOCK" /\ Obj(c) \in files
CreatesFile(c)        == Method(c) \in {"TRANSMIT_BLOCK", "POST"}

(***************************************************************************)
(* handle_read: the request is parsed and the branch of its method taken.  *)
(* GET, TRANSMIT_UPDATE_CONTENT and RECONSTRUCT go straight to the table,  *)
(* the others first receive something.  TRANSMIT_* requests test whether   *)
(* the block exists already before they create it.                         *)
(***************************************************************************)
handle_read(c) ==
  /\ alive
  /\ phase[c] = "reading"
  /\ Idle(connection_pool[c])
  /\ phase' = [phase EXCEPT ![c] =
       IF Method(c) \in {"GET", "TRANSMIT_UPDATE_CONTENT", "RECONSTRUCT"}
         THEN "lookup_lock" ELSE "await"]
  /\ total' = IF IsTotalReconstruct(c) THEN total \cup {c} ELSE total
  /\ files' = IF CreatesFile(c) THEN files \cup {Obj(c)} ELSE files
  /\ UNCHANGED <<alive, next_io_service, connection_pool, request, table_lock,
                 obj_meta_table, it, seen>>

\* The error branch: the peer is gone before a request arrived.  After an
\* end-of-file the read is simply started again, which leaves everything as is.
handle_read_error(c) ==
  /\ alive
  /\ Faults
  /\ phase[c] = "reading"
  /\ Idle(connection_pool[c])
  /\ phase' = [phase EXCEPT ![c] = "closed"]
  /\ UNCHANGED <<alive, next_io_service, connection_pool, request, files, total,
                 table_lock, obj_meta_table, it, seen>>

\* The content, the delta, the block or the posted object has been received
\* (and, for POST, encoded and sent to the other nodes).
Received(c) ==
  /\ alive
  /\ phase[c] = "await"
  /\ phase' = [phase EXCEPT ![c] =
       IF Method(c) = "UPDATE" THEN "lookup_lock" ELSE "record_lock"]
  /\ UNCHANGED <<alive, next_io_service, connection_pool, request, files, total,
                 table_lock, obj_meta_table, it, seen>>
-----------------------------------------------------------------------------
(***************************************************************************)
(* The table.  The lookup section of GET, UPDATE, TRANSMIT_UPDATE_CONTENT  *)
(* and RECONSTRUCT unlocks table_lock only in the branch where the object  *)
(* was found.                                                              *)
(***************************************************************************)
\* Mutation: the lookup does not take the lock before it searches.
LockForLookup_no_wait(c) ==
  /\ alive
  /\ phase[c] = "lookup_lock"
  /\ table_lock' = c
  /\ phase' = [phase EXCEPT ![c] = "lookup"]
  /\ UNCHANGED <<alive, next_io_service, connection_pool, request, files, total,
                 obj_meta_table, it, seen>>

LockForLookup(c) ==
  /\ alive
  /\ phase[c] = "lookup_lock"
  /\ table_lock = Free
  /\ table_lock' = c
  /\ phase' = [phase EXCEPT ![c] = "lookup"]
  /\ UNCHANGED <<alive, next_io_service, connection_pool, request, files, total,
                 obj_meta_table, it, seen>>

\* Mutation: a lookup that hits keeps the lock as one that misses does.
LookupHit_no_unlock(c) ==
  /\ alive
  /\ phase[c] = "lookup"
  /\ obj_meta_table[Obj(c)] # Absent
  /\ it' = [it EXCEPT ![c] = obj_meta_table[Obj(c)].creator]
  /\ phase' = [phase EXCEPT ![c] = "work"]
  /\ UNCHANGED <<alive, next_io_service, connection_pool, request, files, total,
                 table_lock, obj_meta_table, seen>>

LookupHit(c) ==
  /\ alive
  /\ phase[c] = "lookup"
  /\ obj_meta_table[Obj(c)] # Absent
  /\ it' = [it EXCEPT ![c] = obj_meta_table[Obj(c)].creator]
  /\ table_lock' = Free
  /\ phase' = [phase EXCEPT ![c] = "work"]
  /\ UNCHANGED <<alive, next_io_service, connection_pool, request, files, total,
                 obj_meta_table, seen>>

LookupMiss(c) ==
  /\ alive
  /\ phase[c] = "lookup"
  /\ obj_meta_table[Obj(c)] = Absent
  /\ it' = [it EXCEPT ![c] = End]
  /\ phase' = [phase EXCEPT ![c] =
       IF Method(c) \in {"GET", "UPDATE"} THEN "closed" ELSE "abandoned"]
  /\ UNCHANGED <<alive, next_io_service, connection_pool, request, files, total,
                 table_lock, obj_meta_table, seen>>

\* Mutation: the history is read and pushed to without the lock.
LockForRecord_no_wait(c) ==
  /\ alive
  /\ phase[c] = "record_lock"
  /\ phase' = [phase EXCEPT ![c] = "record"]
  /\ seen' = [seen EXCEPT ![c] = obj_meta_table[Obj(c)].history]
  /\ UNCHANGED <<alive, next_io_service, connection_pool, request, files, total,
                 table_lock, obj_meta_table, it>>

LockForRecord(c) ==
  /\ alive
  /\ phase[c] = "record_lock"
  /\ table_lock = Free
  /\ table_lock' = c
  /\ phase' = [phase EXCEPT ![c] = "record"]
  /\ seen' = [seen EXCEPT ![c] = obj_meta_table[Obj(c)].history]
  /\ UNCHANGED <<alive, next_io_service, connection_pool, request, files, total,
                 obj_meta_table, it>>

\* Mutation: unlock moved into the branch where the object was found.
InsertRecord_unlock_if_found(c) ==
  /\ alive
  /\ phase[c] = "record"
  /\ Method(c) \in {"UPDATE", "TRANSMIT_DELTA_CONTENT", "TRANSMIT_UPDATE_CONTENT"}
  /\ IF obj_meta_table[Obj(c)] = Absent THEN UNCHANGED <<obj_meta_table, table_lock>>
     ELSE /\ obj_meta_table' = [obj_meta_table EXCEPT ![Obj(c)].history = Append(seen[c], c)]
          /\ table_lock' = Free
  /\ phase' = [phase EXCEPT ![c] =
       IF Method(c) = "TRANSMIT_UPDATE_CONTENT" THEN "closed" ELSE "finish"]
  /\ UNCHANGED <<alive, next_io_service, connection_pool, request, files, total, it, seen>>

\* insert_new_record on the entry: push_back on the history read above.  The
\* delta handler does nothing if the object is unknown here.
InsertRecord(c) ==
  /\ alive
  /\ phase[c] = "record"
  /\ Method(c) \in {"UPDATE", "TRANSMIT_DELTA_CONTENT", "TRANSMIT_UPDATE_CONTENT"}
  /\ obj_meta_table' =
       IF obj_meta_table[Obj(c)] = Absent THEN obj_meta_table
       ELSE [obj_meta_table EXCEPT ![Obj(c)].history = Append(seen[c], c)]
  /\ table_lock' = Free
  /\ phase' = [phase EXCEPT ![c] =
       IF Method(c) = "TRANSMIT_UPDATE_CONTENT" THEN "closed" ELSE "finish"]
  /\ UNCHANGED <<alive, next_io_service, connection_pool, request, files, total, it, seen>>

\* Mutation: the entry is assigned where map::insert leaves an old one alone.
InsertEntry_assigns(c) ==
  /\ alive
  /\ phase[c] = "record"
  /\ Method(c) \in {"TRANSMIT_BLOCK", "POST"}
  /\ c \notin total
  /\ obj_meta_table' = [obj_meta_table EXCEPT ![Obj(c)] = NewEntry(c)]
  /\ table_lock' = Free
  /\ phase' = [phase EXCEPT ![c] = IF Method(c) = "POST" THEN "finish" ELSE "closed"]
  /\ UNCHANGED <<alive, next_io_service, connection_pool, request, files, total, it, seen>>

\* map::insert of the metadata of a new block or object: does nothing if the
\* key is there already.
InsertEntry(c) ==
  /\ alive
  /\ phase[c] = "record"
  /\ Method(c) \in {"TRANSMIT_BLOCK", "POST"}
  /\ c \notin total
  /\ obj_meta_table' =
       IF obj_meta_table[Obj(c)] # Absent THEN obj_meta_table
       ELSE [obj_meta_table EXCEPT ![Obj(c)] = NewEntry(c)]
  /\ table_lock' = Free
  /\ phase' = [phase EXCEPT ![c] = IF Method(c) = "POST" THEN "finish" ELSE "closed"]
  /\ UNCHANGED <<alive, next_io_service, connection_pool, request, files, total, it, seen>>

\* TOTAL_RECONSTRUCT: history_record.clear() and one clean record.
ClearAndInsertRecord(c) ==
  /\ alive
  /\ phase[c] = "record"
  /\ c \in total
  /\ obj_meta_table' =
       IF obj_meta_table[Obj(c)] = Absent THEN obj_meta_table
       ELSE [obj_meta_table EXCEPT ![Obj(c)].history = <<c>>]
  /\ table_lock' = Free
  /\ phase' = [phase EXCEPT ![c] = "closed"]
  /\ UNCHANGED <<alive, next_io_service, connection_pool, request, files, total, it, seen>>
-----------------------------------------------------------------------------
(***************************************************************************)
(* Outside the lock.                                                       *)
(***************************************************************************)
\* A successful UPDATE of the file, or a decoding that returned 0, is recorded.
WorkThenRecord(c) ==
  /\ alive
  /\ phase[c] = "work"
  /\ Method(c) \in {"UPDATE", "TRANSMIT_UPDATE_CONTENT"}
  /\ phase' = [phase EXCEPT ![c] = "record_lock"]
  /\ UNCHANGED <<alive, next_io_service, connection_pool, request, files, total,
                 table_lock, obj_meta_table, it, seen>>

\* GET starts TransmitFile and frees the thread; RECONSTRUCT sends its block (or
\* OBJECT_NOT_FOUND, or is told to abort) and closes.
WorkThenEnd(c) ==
  /\ alive
  /\ phase[c] = "work"
  /\ Method(c) \in {"GET", "RECONSTRUCT"}
  /\ phase' = [phase EXCEPT ![c] = IF Method(c) = "GET" THEN "transmitting" ELSE "closed"]
  /\ UNCHANGED <<alive, next_io_service, connection_pool, request, files, total,
                 table_lock, obj_meta_table, it, seen>>

\* UPDATE's file could not be opened; GET's file could not be opened.
WorkFails(c) ==
  /\ alive
  /\ Faults
  /\ phase[c] = "work"
  /\ Method(c) \in {"UPDATE", "GET"}
  /\ phase' = [phase EXCEPT ![c] = "closed"]
  /\ UNCHANGED <<alive, next_io_service, connection_pool, request, files, total,
                 table_lock, obj_meta_table, it, seen>>

Finish(c) ==
  /\ alive
  /\ phase[c] = "finish"
  /\ phase' = [phase EXCEPT ![c] = "closed"]
  /\ UNCHANGED <<alive, next_io_service, connection_pool, request, files, total,
                 table_lock, obj_meta_table, it, seen>>

\* TransmitFile completes: handle_write runs on the connection's thread.
handle_write(c) ==
  /\ alive
  /\ phase[c] = "transmitting"
  /\ Idle(connection_pool[c])
  /\ phase' = [phase EXCEPT ![c] = "closed"]
  /\ UNCHANGED <<alive, next_io_service, connection_pool, request, files, total,
                 table_lock, obj_meta_table, it, seen>>

(***************************************************************************)
(* A peer vanishes or misbehaves while a handler waits for it.             *)
(***************************************************************************)
\* The blocking reads that no try block covers: the exception leaves
\* handle_read and io_service::run, and ends the process.  The decoder called
\* from GET is as unprotected; a decoding that returns 1 at the master makes
\* encode_file open a file that is not there and exit(0); the -1 of a failed
\* recv in POST, taken as unsigned, makes the write run off the buffer.
Unprotected(c) ==
  \/ phase[c] = "await" /\ Method(c) \in {"UPDATE", "TRANSMIT_DELTA_CONTENT", "POST"}
  \/ phase[c] = "work"  /\ Method(c) \in {"GET", "TRANSMIT_UPDATE_CONTENT", "RECONSTRUCT"}

PeerLostUnprotected(c) ==
  /\ alive
  /\ Faults
  /\ Unprotected(c)
  /\ alive' = FALSE
  /\ UNCHANGED <<next_io_service, connection_pool, phase, request, files, total,
                 table_lock, obj_meta_table, it, seen>>

\* Inside a try block the handler prints the exception and returns; an
\* instruction that RECONSTRUCT or TRANSMIT_UPDATE_CONTENT does not know is
\* dropped in the same way.
PeerLostProtected(c) ==
  /\ alive
  /\ Faults
  /\ \/ phase[c] = "await" /\ Method(c) = "POST"
     \/ phase[c] = "work" /\ Method(c) \in {"UPDATE", "TRANSMIT_UPDATE_CONTENT", "RECONSTRUCT"}
     \/ phase[c] = "finish" /\ Method(c) = "UPDATE"
  /\ phase' = [phase EXCEPT ![c] = "abandoned"]
  /\ UNCHANGED <<alive, next_io_service, connection_pool, request, files, total,
                 table_lock, obj_meta_table, it, seen>>

\* recv returns 0 and the loop of POST goes on with the count unchanged, that of
\* TRANSMIT when nothing has come, with the file lock held; the NORMAL branch of
\* RECONSTRUCT subtracts past zero in an unsigned counter; UPDATE reconstructs a
\* missing segment while it holds the lock the decoder waits for.  Whoever works on
\* a file whose lock such a handler holds waits with it.
LoopForever(c) ==
  /\ alive
  /\ Faults
  /\ \/ phase[c] = "await" /\ Method(c) \in {"POST", "TRANSMIT_BLOCK"}
     \/ phase[c] = "work"
  /\ phase' = [phase EXCEPT ![c] = "stuck"]
  /\ UNCHANGED <<alive, next_io_service, connection_pool, request, files, total,
                 table_lock, obj_meta_table, it, seen>>

\* SIGINT or SIGTERM: the io_services are stopped.
handle_stop ==
  /\ alive
  /\ Faults
  /\ Idle(1 % ThreadNum)
  /\ alive' = FALSE
  /\ UNCHANGED <<next_io_service, connection_pool, phase, request, files, total,
                 table_lock, obj_meta_table, it, seen>>

HandlerStep(c) ==
  \/ Received(c) \/ LockForLookup(c) \/ LookupHit(c) \/ LookupMiss(c)
  \/ LockForRecord(c) \/ InsertRecord(c) \/ InsertEntry(c) \/ ClearAndInsertRecord(c)
  \/ WorkThenRecord(c) \/ WorkThenEnd(c)
  \/ Finish(c)

PeerFault(c) ==
  \/ handle_read_error(c) \/ WorkFails(c) \/ PeerLostUnprotected(c)
  \/ PeerLostProtected(c) \/ LoopForever(c)

ConnectionStep(c) == handle_accept(c) \/ handle_read(c) \/ handle_write(c) \/ HandlerStep(c)

Next ==
  \/ \E c \in Conns : ConnectionStep(c) \/ PeerFault(c)
  \/ handle_stop

Spec == Init /\ [][Next]_vars

\* A thread that is not blocked runs; an io_service runs its ready handlers in
\* the order they became ready, so one that finds the thread idle again and again
\* is dispatched; a waiter that finds table_lock free again and again gets it.
Fairness == \A c \in Conns : SF_vars(ConnectionStep(c))

FairSpec == Spec /\ Fairness
-----------------------------------------------------------------------------
(***************************************************************************)
(* Properties.                                                             *)
(***************************************************************************)
TypeOK ==
  /\ alive \in BOOLEAN
  /\ next_io_service \in Threads
  /\ connection_pool \in Seq(Threads)
  /\ Len(connection_pool) \in 1 .. MaxConns
  /\ phase \in [Conns -> Phases]
  /\ request \in [Conns -> [method : Methods, obj : Objects] \cup {NoRequest}]
  /\ files \subseteq Objects
  /\ total \subseteq Conns
  /\ table_lock \in Conns \cup {Free}
  /\ obj_meta_table \in [Objects -> [creator : 0 .. End, history : Seq(0 .. MaxConns)]]
  /\ it \in [Conns -> 0 .. Unset]
  /\ seen \in [Conns -> Seq(0 .. MaxConns)]

\* A handler holds table_lock exactly while it is in one of its sections.
LockDiscipline ==
  \A c \in Conns : phase[c] \in Critical => table_lock = c

\* table_lock stays with a handler outside its sections only if its lookup
\* missed (connection.cpp:108, 327, 500, 881): no exception and no other return
\* of any method leaves the lock behind.
LeakedOnlyByMiss ==
  \A c \in Conns :
    (table_lock = c /\ phase[c] \notin Critical) => (it[c] = End /\ phase[c] \in Ended)

\* The iterator a handler keeps using after table_lock.unlock() (connection.cpp:86,
\* 155-166, 200-208, 463) still names the entry it found.
IteratorValid ==
  \A c \in Conns :
    it[c] \in 0 .. MaxConns => obj_meta_table[Obj(c)].creator = it[c]

\* A version pushed on a history_record is never lost to a handler that works
\* on the same entry at the same time; only a TOTAL_RECONSTRUCT clears it.
HistoryKept ==
  [][\A o \in Objects :
       LET old == obj_meta_table[o].history
           new == obj_meta_table'[o].history
       IN  \/ new = old
           \/ \E c \in Conns : new = Append(old, c)
           \/ \E c \in total : Obj(c) = o /\ new = <<c>>]_vars

Leaked == \E c \in Conns : table_lock = c /\ phase[c] \in Ended

\* What a single missed lookup costs: from then on the table never changes and
\* no lookup is answered until the process ends.
LeakFreezesTable ==
  [][Leaked => /\ Leaked'
               /\ UNCHANGED <<obj_meta_table, it>>]_vars

\* Every accepted request comes to its end, if lookups hit and peers answer.
EveryRequestEnds ==
  \A c \in Conns : phase[c] = "reading" ~> phase[c] \in Ended
=============================================================================
