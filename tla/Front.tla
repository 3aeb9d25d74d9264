-------------------------------- MODULE Front --------------------------------
(***************************************************************************)
(* A request from end to end: C/client.cpp asks the proxy                  *)
(* (P/connection.cpp) which storage server answers for its object, then    *)
(* speaks to that server (S/connection.cpp), which speaks to its peers.    *)
(*   Every client is a process that makes one request.  A header is one    *)
(* short write and arrives whole; contents arrive in pieces.  Processes    *)
(* start late, stop, or end by an error; clients may be killed.  Every     *)
(* handler has a thread of its own here (module Server has the pool), and  *)
(* what an update does to the bytes is left to module UpdateProtocol.      *)
(***************************************************************************)
EXTENDS Integers, FiniteSets

CONSTANTS
  Clients,          \* client ids, which are their thread ids, too
  K, M,             \* ERASURE_CODE_K, ERASURE_CODE_M
  N, Start,         \* NUMBER_OF_SERVER, STARTING_SERVER_ID
  Hash,             \* get_hash_value: names of objects -> 0..N-1
  Deployments       \* configuration files, processes that are up and that somebody
                    \* stops, files of the clients, objects stored before

Servers == Start..Start+N-1
proxy == Start - 1     \* an id for the proxy's process
Nodes == Servers \cup {proxy}

full_copy == 0   \* the first of types; block i of an object is types[i]
Absent == -1     \* a file that does not exist, a server that is not known

ASSUME DeploymentsAssumption ==
  /\ K \in Nat \ {0} /\ M \in Nat \ {0} /\ N \in Nat /\ N > K + M /\ N >= 2 * K - 1
  /\ Start \in Nat
  /\ \A d \in Deployments :
       /\ DOMAIN d.file = Nodes
       /\ \A n \in Nodes : "thread_num" \in DOMAIN d.file[n] => d.file[n].thread_num \in Int
       /\ \A s \in Servers : d.ip_port_table[s] \subseteq Servers
       /\ d.stops \subseteq Nodes \cup Clients
       /\ \A n \in d.up : "thread_num" \in DOMAIN d.file[n] /\ d.file[n].thread_num > 0
       /\ \A n \in DOMAIN d.disk : d.disk[n] \in Nat \cup {Absent}
       /\ \A o \in DOMAIN d.stored : d.stored[o] \in Nat \ {0} /\ Hash[o] \in 0..N-1

VARIABLES
  conf,      \* the member of Deployments
  disk,      \* the clients' files: name -> length or Absent
  node,      \* of each process: off, running, stopped, ended (by an error)
  client,    \* of each client: how far it is, its request, what it has reported
  conn,      \* the storage server's end of its connection
  table,     \* obj_meta_table of each server: name -> [length, full]
  copy,      \* the files of each server: name -> length
  held,      \* table_lock is left locked by a handler that has returned
  pend       \* headers of blocks whose TRANSMIT handler has still to insert the entry

vars == <<conf, disk, node, client, conn, table, copy, held, pend>>

Wrap(id) == IF id > Start + N - 1 THEN id - N ELSE id
BlockNodes(s) == {Wrap(s + i) : i \in 1..K+M}
Running(n) == node[n] = "running"

\* A map with an entry more, or another one: map's operator [] and insert.
Put(f, x, entry) == [y \in {x} \cup DOMAIN f |-> IF y = x THEN entry ELSE f[y]]

\* Configuration files and headers are lines "name:value", in any order; a line
\* that is not there leaves the value it would set.
Value(lines, name, old) == IF name \in DOMAIN lines THEN lines[name] ELSE old

-----------------------------------------------------------------------------
(* Requests, as the client makes them and as the others read them *)

Empty == ""   \* a string that nothing has been assigned to

\* Of a name only the file is looked at; the ids and the timestamp are left out.
request == [method |-> Empty, obj_id |-> <<>>, content_length |-> 0, update_offset |-> 0]

get_random_file_name(c) == <<"test_transmitfile", c % 3>>
update_request_random_file_name(c) == <<"client_post_request", c % 3>>
remote_path(c) == <<"client_post_request", c>>

\* Every name has a hash, and a client's file exists or not.
ASSUME NamesAssumption ==
  \A c \in Clients :
    /\ \A o \in {get_random_file_name(c), update_request_random_file_name(c), remote_path(c)} :
         Hash[o] \in 0..N-1
    /\ \A d \in Deployments :
         {get_random_file_name(c), update_request_random_file_name(c)} \subseteq DOMAIN d.disk

\* What my_random_long() % content_length may be; none if it divides by zero.
get_random_offset(content_length) == 0..content_length-1

Length(name) == IF disk[name] = Absent THEN request.content_length ELSE disk[name]

make_get_request(c) == [request EXCEPT !.method = "GET", !.obj_id = get_random_file_name(c)]

make_post_request(c) ==
  [request EXCEPT !.method = "POST", !.obj_id = remote_path(c),
                  !.content_length = Length(get_random_file_name(c))]

\* The length of the client's own file is taken for the object's.
make_update_request(c, offset) ==
  [request EXCEPT !.method = "UPDATE", !.obj_id = update_request_random_file_name(c),
                  !.content_length = Length(update_request_random_file_name(c)),
                  !.update_offset = offset]

header_to_buffers(req) ==
  [method |-> req.method, obj_id |-> req.obj_id,
   content_length |-> req.content_length, update_offset |-> req.update_offset]

simple_parse(lines) ==
  [method |-> Value(lines, "method", request.method),
   obj_id |-> Value(lines, "obj_id", request.obj_id),
   content_length |-> Value(lines, "content_length", request.content_length),
   update_offset |-> Value(lines, "update_offset", request.update_offset)]

\* The storage server's: a block comes with a data_type, its index in types.
storage_simple_parse(lines) ==
  [method |-> Value(lines, "method", request.method),
   obj_id |-> Value(lines, "obj_id", request.obj_id),
   content_length |-> Value(lines, "content_length", request.content_length),
   server_id |-> Value(lines, "server_id", 88),
   data_type |-> Value(lines, "data_type", full_copy)]

\* The request_ of the connection with client c.
request_(c) == storage_simple_parse(header_to_buffers(client[c].req))
Object(c) == request_(c).obj_id
Method(c, m) == client[c].req.method = m

Target(c) == client[c].server_id
Known(object, s) == object \in DOMAIN table[s]
At(c, state) == conn[c].st = state /\ Running(Target(c))

-----------------------------------------------------------------------------
(* Processes *)

thread_num(n) == Value(conf.file[n], "thread_num", -1)
run_mode == Value(conf.file[proxy], "run_mode", Empty)

\* The io_services of a process; from an empty pool the acceptor gets none, which
\* ends the process.
io_services(n) == 1..thread_num(n)
Constructed(n) == [node EXCEPT ![n] = IF io_services(n) # {} THEN "running" ELSE "ended"]

StartProxy ==
  /\ node[proxy] = "off"
  /\ node' = Constructed(proxy)
  /\ UNCHANGED <<conf, disk, client, conn, table, copy, held, pend>>

StartServer(s) ==
  /\ node[s] = "off"
  /\ node' = Constructed(s)
  /\ UNCHANGED <<conf, disk, client, conn, table, copy, held, pend>>

\* SIGINT or SIGTERM: all io_services stop, run() returns, the process exits.
StopProxy ==
  /\ Running(proxy) /\ proxy \in conf.stops
  /\ node' = [node EXCEPT ![proxy] = "stopped"]
  /\ UNCHANGED <<conf, disk, client, conn, table, copy, held, pend>>

\* A storage server's process is killed; it is not started again here (module Server).
StopServer(s) ==
  /\ Running(s) /\ s \in conf.stops
  /\ node' = [node EXCEPT ![s] = "stopped"]
  /\ UNCHANGED <<conf, disk, client, conn, table, copy, held, pend>>

\* A client is killed while it speaks to a storage server; what is left of its
\* content is not sent any more.
Kill(c) ==
  /\ client[c].pc \in {"waiting", "acking"} /\ c \in conf.stops
  /\ client' = [client EXCEPT ![c].pc = "killed"]
  /\ \E n \in (IF conn[c].st = "ready" THEN conn[c].count..conn[c].sent ELSE {conn[c].sent}) :
       conn' = [conn EXCEPT ![c].sent = n]
  /\ UNCHANGED <<conf, disk, node, table, copy, held, pend>>

-----------------------------------------------------------------------------
(* Clients and the proxy *)

\* What is reported of an exception: for a GET, success.
Exception(c, method) ==
  [client[c] EXCEPT !.pc = "ended", !.lost = TRUE, !.req.method = method,
     !.report = IF method = "GET" THEN "finished" ELSE "exception"]

\* Connect to the proxy and send the header.
Ask(c, req) ==
  client' = [client EXCEPT ![c] = IF Running(proxy) THEN [@ EXCEPT !.pc = "asking", !.req = req]
                                  ELSE Exception(c, req.method)]

LaunchGet(c) ==
  /\ client[c].pc = "new"
  /\ Ask(c, make_get_request(c))
  /\ UNCHANGED <<conf, disk, node, conn, table, copy, held, pend>>

LaunchPost(c) ==
  /\ client[c].pc = "new"
  /\ Ask(c, make_post_request(c))
  /\ UNCHANGED <<conf, disk, node, conn, table, copy, held, pend>>

\* Without the file no offset is chosen; with an empty one the client crashes.
Offsets(file) ==
  IF disk[file] = Absent THEN {request.update_offset} ELSE get_random_offset(disk[file])

LaunchUpdate(c) ==
  /\ client[c].pc = "new"
  /\ LET offsets == Offsets(update_request_random_file_name(c))
     IN  \/ \E offset \in offsets : Ask(c, make_update_request(c, offset))
         \/ /\ offsets = {}
            /\ client' = [client EXCEPT ![c].pc = "ended", ![c].report = "crash"]
  /\ UNCHANGED <<conf, disk, node, conn, table, copy, held, pend>>

launch_client(c) == LaunchGet(c) \/ LaunchPost(c) \/ LaunchUpdate(c)

target_server_location(obj_id) == Start + Hash[obj_id]
starting_id(obj_id) == IF run_mode = "test" THEN Start ELSE target_server_location(obj_id)

\* Mutation: GET and POST are located by the formula for updates, too.
ServerFor_divides(req) ==
  IF req.content_length \div K = 0 THEN Absent
  ELSE Wrap(starting_id(req.obj_id) + req.update_offset \div (req.content_length \div K))

\* Absent: the division by zero that ends the proxy.
ServerFor(req) ==
  CASE req.method # "UPDATE" -> starting_id(req.obj_id)
    [] req.method = "UPDATE" /\ req.content_length \div K = 0 -> Absent
    [] OTHER -> Wrap(starting_id(req.obj_id)
                       + req.update_offset \div (req.content_length \div K) + 1)

ProxyRead(c) ==
  LET server == ServerFor(simple_parse(header_to_buffers(client[c].req)))
  IN  /\ Running(proxy)
      /\ client[c].pc = "asking" /\ Target(c) = Absent
      /\ node' = IF server = Absent THEN [node EXCEPT ![proxy] = "ended"] ELSE node
      /\ client' = [client EXCEPT ![c].server_id = server]
      /\ UNCHANGED <<conf, disk, conn, table, copy, held, pend>>

\* Connect to the server the proxy has named and send the header to it.
Connect(c, method) ==
  /\ Method(c, method) /\ client[c].pc = "asking" /\ Target(c) # Absent
  /\ IF Running(Target(c))
     THEN /\ client' = [client EXCEPT ![c].pc = "waiting"]
          /\ conn' = [conn EXCEPT ![c].st = "header"]
     ELSE /\ client' = [client EXCEPT ![c] = Exception(c, method)]
          /\ UNCHANGED conn
  /\ UNCHANGED <<conf, disk, node, table, copy, held, pend>>

GetLocated(c) == Connect(c, "GET")
PostLocated(c) == Connect(c, "POST")
UpdateLocated(c) == Connect(c, "UPDATE")

\* The proxy ends before it answers: read_until throws.
ProxyLost(c) ==
  /\ client[c].pc = "asking" /\ Target(c) = Absent /\ ~Running(proxy)
  /\ client' = [client EXCEPT ![c] = Exception(c, @.req.method)]
  /\ UNCHANGED <<conf, disk, node, conn, table, copy, held, pend>>

\* Encoder and decoder connect to the next K + M servers, in this order, as far as they
\* are in ip_port_table and can be connected to, and send each of them a header.
Reachable(s, t) == t \in conf.ip_port_table[s] /\ Running(t)
Reached(s) == {i \in 1..K+M : \A l \in 1..i : Reachable(s, Wrap(s + l))}

-----------------------------------------------------------------------------
(* The storage server: the end of a connection that reads the header *)

\* table_lock stays locked when the object is not known.
Miss(c) ==
  /\ held' = [held EXCEPT ![Target(c)] = TRUE]
  /\ conn' = [conn EXCEPT ![c].st = "missed"]

\* Another GET has the file open, for itself and others that only read: test_existence,
\* which opens it for writing, takes it for missing.
InUse(c) ==
  \E d \in Clients \ {c} :
    At(d, "sending") /\ Target(d) = Target(c) /\ Object(d) = Object(c)

GetRequest(c) ==
  /\ At(c, "header") /\ Method(c, "GET") /\ ~held[Target(c)] /\ ~InUse(c)
  /\ IF Known(Object(c), Target(c))
     THEN /\ conn' = [conn EXCEPT ![c].st = "sending", ![c].sent = copy[Target(c)][Object(c)]]
          /\ UNCHANGED held
     ELSE Miss(c)
  /\ UNCHANGED <<conf, disk, node, client, table, copy, pend>>

\* The decoder asks the block servers.  One that cannot be connected to is an
\* exception, and so is, when all have answered, the name of the lock of the client's
\* path: outside of try both end the process, and then every server that waits for
\* its order.  A block server that does not know the object does not answer.
GetInUse(c) ==
  LET reached == {Wrap(Target(c) + i) : i \in Reached(Target(c))}
      all     == reached = BlockNodes(Target(c))
      silent  == {t \in reached : held[t] \/ ~Known(Object(c), t)}
      ends    == {Target(c)} \cup (IF all THEN {} ELSE reached \ silent)
  IN  /\ At(c, "header") /\ Method(c, "GET") /\ ~held[Target(c)]
      /\ Known(Object(c), Target(c)) /\ InUse(c)
      /\ held' = [t \in Servers |-> held[t] \/ t \in silent]
      /\ IF all /\ silent # {}
         THEN /\ conn' = [conn EXCEPT ![c].st = "stuck"]
              /\ UNCHANGED node
         ELSE /\ node' = [n \in Nodes |-> IF n \in ends THEN "ended" ELSE node[n]]
              /\ UNCHANGED conn
      /\ UNCHANGED <<conf, disk, client, table, copy, pend>>

\* Ready for the content; a POST opens its file for appending.
ReadyRequest(c) ==
  /\ At(c, "header") /\ ~Method(c, "GET")
  /\ conn' = [conn EXCEPT ![c].st = "ready"]
  /\ copy' = IF Method(c, "POST") /\ Object(c) \notin DOMAIN copy[Target(c)]
             THEN [copy EXCEPT ![Target(c)] = Put(@, Object(c), 0)] ELSE copy
  /\ UNCHANGED <<conf, disk, node, client, table, held, pend>>

\* The client reads the ready line and sends its content: an update in one line, a
\* file in pieces, created empty if it does not exist.
SendUpdate(c) ==
  /\ Method(c, "UPDATE") /\ client[c].pc = "waiting" /\ conn[c].st = "ready"
  /\ client' = [client EXCEPT ![c].pc = "acking"]
  /\ conn' = [conn EXCEPT ![c].sent = 1]
  /\ UNCHANGED <<conf, disk, node, table, copy, held, pend>>

SendFile(c) ==
  LET file == get_random_file_name(c)
  IN  /\ Method(c, "POST") /\ client[c].pc = "waiting" /\ conn[c].st = "ready"
      /\ client' = [client EXCEPT ![c].pc = "acking"]
      /\ conn' = [conn EXCEPT ![c].sent = Length(file)]
      /\ disk' = [disk EXCEPT ![file] = Length(file)]
      /\ UNCHANGED <<conf, node, table, copy, held, pend>>

-----------------------------------------------------------------------------
(* GET: the file is sent, then the connection is closed *)

\* Mutation: only an answer ends the client's wait.
Closed_by_answer(c) == conn[c].st = "done"

\* What the client can receive, and when recv returns 0 or less.
Arrived(c) == conn[c].sent - client[c].got
Closed(c) == conn[c].st \in {"missed", "done"} \/ ~Running(Target(c))

GetReceive(c) ==
  /\ client[c].pc = "waiting" /\ Method(c, "GET")
  /\ conn[c].st \in {"sending", "done"}
  /\ \E n \in 1..Arrived(c) : client' = [client EXCEPT ![c].got = @ + n]
  /\ UNCHANGED <<conf, disk, node, conn, table, copy, held, pend>>

\* All is in the client's socket, or the client is gone.
GetSent(c) ==
  /\ At(c, "sending")
  /\ conn' = [conn EXCEPT ![c].st = "done"]
  /\ UNCHANGED <<conf, disk, node, client, table, copy, held, pend>>

\* Mutation: one turn of the loop.
GetEnds_at_once(c) ==
  /\ client[c].pc = "waiting" /\ Method(c, "GET") /\ client[c].got > 0
  /\ client' = [client EXCEPT ![c].pc = "ended", ![c].report = "finished"]
  /\ UNCHANGED <<conf, disk, node, conn, table, copy, held, pend>>

\* The loop ends, and reports what it calls success if anything has come.  What
\* had not been handed over when the server ended does not come any more.
GetEnds(c) ==
  /\ client[c].pc = "waiting" /\ Method(c, "GET") /\ Closed(c)
  /\ conn[c].st = "done" => Arrived(c) = 0
  /\ client' = [client EXCEPT ![c].pc = "ended",
                  ![c].report = IF @ = "none" /\ client[c].got > 0 THEN "finished" ELSE @]
  /\ UNCHANGED <<conf, disk, node, conn, table, copy, held, pend>>

-----------------------------------------------------------------------------
(* POST *)

\* Mutation: the length in the header is taken for what has come.
Left_announced(c) == request_(c).content_length - conn[c].count

Left(c) == conn[c].sent - conn[c].count

\* Mutation: one recv is enough.
Recv_once(c) ==
  /\ At(c, "ready") /\ Method(c, "POST")
  /\ \E n \in 1..Left(c) :
       /\ conn' = [conn EXCEPT ![c].count = @ + n, ![c].st = "received"]
       /\ copy' = [copy EXCEPT ![Target(c)][Object(c)] = @ + n]
  /\ UNCHANGED <<conf, disk, node, client, table, held, pend>>

\* One turn of the receiving loop; at least content_length bytes end it.
Recv(c) ==
  /\ At(c, "ready") /\ Method(c, "POST")
  /\ \E n \in 1..Left(c) :
       /\ conn' = [conn EXCEPT ![c].count = @ + n,
                     ![c].st = IF conn[c].count + n >= request_(c).content_length
                               THEN "received" ELSE @]
       /\ copy' = [copy EXCEPT ![Target(c)][Object(c)] = @ + n]
  /\ UNCHANGED <<conf, disk, node, client, table, held, pend>>

\* The client is gone.  recv's 0 changes no count: the loop ends only if nothing
\* was to come.  Its -1 is a count of 2^32 - 1: writing that many bytes ends the
\* process or, if the file is left alone, the loop, at once or after count + 1 turns.
RecvFails(c) ==
  /\ At(c, "ready") /\ Method(c, "POST") /\ client[c].pc = "killed" /\ Left(c) = 0
  /\ \/ /\ conn' = [conn EXCEPT ![c].st =
                     IF request_(c).content_length = 0 THEN "received" ELSE "spinning"]
        /\ UNCHANGED node
     \/ /\ conn' = [conn EXCEPT ![c].st = "received"]
        /\ UNCHANGED node
     \/ /\ node' = [node EXCEPT ![Target(c)] = "ended"]
        /\ UNCHANGED conn
  /\ UNCHANGED <<conf, disk, client, table, copy, held, pend>>

TransmitRequest(c, i) ==
  [to |-> Wrap(Target(c) + i), obj_id |-> Object(c), server_id |-> Target(c),
   content_length |-> request_(c).content_length \div K, data_type |-> i]

\* A header makes the other server create its file, still empty, unless it has one: then
\* it takes the block for a reconstruction and inserts no entry.  The blocks
\* themselves are sent when all servers are connected.
Encode(c) ==
  LET created == {m \in {TransmitRequest(c, i) : i \in Reached(Target(c))} :
                     m.obj_id \notin DOMAIN copy[m.to]}
      all == Reached(Target(c)) = 1..K+M
  IN  /\ At(c, "received")
      /\ conn' = [conn EXCEPT ![c].st = IF all THEN "encoded" ELSE "abandoned"]
      /\ copy' = [t \in Servers |-> IF \E m \in created : m.to = t
                                    THEN Put(copy[t], Object(c), IF all THEN 1 ELSE 0)
                                    ELSE copy[t]]
      /\ pend' = IF all THEN pend \cup created ELSE pend
      /\ UNCHANGED <<conf, disk, node, client, table, held>>

FullCopy(s, length) == [data_type |-> full_copy, length |-> length, full |-> s]

Block(m) ==
  LET req == storage_simple_parse(m)
  IN  [data_type |-> req.data_type, length |-> req.content_length, full |-> req.server_id]

\* An entry is not replaced.
Inserted(s, o, entry) == [table EXCEPT ![s] = IF o \in DOMAIN @ THEN @ ELSE Put(@, o, entry)]

\* Mutation: the lock is not taken.
TransmitInsert_no_lock(m) ==
  /\ Running(m.to) /\ m \in pend
  /\ table' = Inserted(m.to, m.obj_id, Block(m))
  /\ pend' = pend \ {m}
  /\ UNCHANGED <<conf, disk, node, client, conn, copy, held>>

\* The handler of a block inserts the entry after content_length bytes, when the
\* encoder may have gone on.
TransmitInsert(m) ==
  /\ Running(m.to) /\ m \in pend /\ ~held[m.to]
  /\ table' = Inserted(m.to, m.obj_id, Block(m))
  /\ pend' = pend \ {m}
  /\ UNCHANGED <<conf, disk, node, client, conn, copy, held>>

\* Mutation: the entry is inserted whatever became of the encoding.
PostRecord_after_failure(c) ==
  /\ conn[c].st \in {"encoded", "abandoned"} /\ Method(c, "POST") /\ ~held[Target(c)]
  /\ table' = Inserted(Target(c), Object(c), FullCopy(Target(c), request_(c).content_length))
  /\ conn' = [conn EXCEPT ![c].st = "done"]
  /\ UNCHANGED <<conf, disk, node, client, copy, held, pend>>

PostRecord(c) ==
  /\ At(c, "encoded") /\ ~held[Target(c)]
  /\ table' = Inserted(Target(c), Object(c), FullCopy(Target(c), request_(c).content_length))
  /\ conn' = [conn EXCEPT ![c].st = "done"]
  /\ UNCHANGED <<conf, disk, node, client, copy, held, pend>>

-----------------------------------------------------------------------------
(* UPDATE *)

\* The content has come: the block is changed if the object is known.
UpdateContent(c) ==
  /\ At(c, "ready") /\ Method(c, "UPDATE") /\ conn[c].sent = 1 /\ ~held[Target(c)]
  /\ IF Known(Object(c), Target(c))
     THEN /\ conn' = [conn EXCEPT ![c].st = "changed"]
          /\ UNCHANGED held
     ELSE Miss(c)
  /\ UNCHANGED <<conf, disk, node, client, table, copy, pend>>

\* The client is gone before it has sent the content: read_until throws outside
\* the try block, which ends the process.
UpdateLost(c) ==
  /\ At(c, "ready") /\ Method(c, "UPDATE") /\ conn[c].sent = 0 /\ client[c].pc = "killed"
  /\ node' = [node EXCEPT ![Target(c)] = "ended"]
  /\ UNCHANGED <<conf, disk, client, conn, table, copy, held, pend>>

Full(c) == table[Target(c)][Object(c)].full
Parity(c) == Wrap(Full(c) + K + 1 + conn[c].acks)

\* The server of the full copy is asked first.  If it does not know the object
\* (yet), its table_lock stays locked and no answer comes.
AskFull(c) ==
  /\ At(c, "changed")
  /\ IF ~Reachable(Target(c), Full(c))
     THEN /\ conn' = [conn EXCEPT ![c].st = "abandoned"]
          /\ UNCHANGED held
     ELSE /\ ~held[Full(c)]
          /\ conn' = [conn EXCEPT ![c].st = IF Known(Object(c), Full(c)) THEN "asked" ELSE "stuck"]
          /\ held' = [held EXCEPT ![Full(c)] = ~Known(Object(c), Full(c))]
  /\ UNCHANGED <<conf, disk, node, client, table, copy, pend>>

\* Then the parity servers one after the other; after the last one's answer the
\* client is told.
SendDelta(c) ==
  /\ At(c, "asked")
  /\ IF ~Reachable(Target(c), Parity(c))
     THEN conn' = [conn EXCEPT ![c].st = "abandoned"]
     ELSE /\ ~held[Parity(c)]
          /\ conn' = [conn EXCEPT ![c].acks = @ + 1,
                                   ![c].st = IF conn[c].acks + 1 = M THEN "done" ELSE @]
  /\ UNCHANGED <<conf, disk, node, client, table, copy, held, pend>>

\* The connection to the server of the full copy breaks at last.
StuckLost(c) ==
  /\ At(c, "stuck") /\ ~Running(Full(c))
  /\ conn' = [conn EXCEPT ![c].st = "abandoned"]
  /\ UNCHANGED <<conf, disk, node, client, table, copy, held, pend>>

-----------------------------------------------------------------------------
(* The client's end of a POST or an UPDATE *)

\* The answer has come, or read_until throws.
Ack(c, method, done) ==
  /\ Method(c, method) /\ client[c].pc \in {"waiting", "acking"} /\ Closed(c)
  /\ client' = [client EXCEPT ![c] =
                   IF conn[c].st = "done" THEN [@ EXCEPT !.pc = "ended", !.report = done]
                                          ELSE Exception(c, method)]
  /\ UNCHANGED <<conf, disk, node, conn, table, copy, held, pend>>

PostAck(c) == Ack(c, "POST", "post_done")
UpdateAck(c) == Ack(c, "UPDATE", "update_done")

-----------------------------------------------------------------------------
Init ==
  /\ conf \in Deployments
  /\ disk = conf.disk
  /\ node = [n \in Nodes |-> IF n \in conf.up THEN "running" ELSE "off"]
  /\ client = [c \in Clients |->
                 [pc |-> "new", req |-> request, server_id |-> Absent, got |-> 0,
                  report |-> "none", lost |-> FALSE]]
  /\ conn = [c \in Clients |-> [st |-> "none", count |-> 0, sent |-> 0, acks |-> 0]]
  /\ LET full(o) == starting_id(o)
         index(s, o) == CHOOSE i \in 0..K+M : Wrap(full(o) + i) = s
         at(s) == {o \in DOMAIN conf.stored : \E i \in 0..K+M : Wrap(full(o) + i) = s}
     IN  /\ copy = [s \in Servers |-> [o \in at(s) |-> IF s = full(o) THEN conf.stored[o] ELSE 1]]
         /\ table = [s \in Servers |-> [o \in at(s) |->
                       [data_type |-> index(s, o), full |-> full(o),
                        length |-> IF s = full(o) THEN conf.stored[o] ELSE conf.stored[o] \div K]]]
  /\ held = [s \in Servers |-> FALSE]
  /\ pend = {}

ClientStep(c) ==
  \/ GetLocated(c) \/ PostLocated(c) \/ UpdateLocated(c) \/ ProxyLost(c)
  \/ SendUpdate(c) \/ SendFile(c) \/ GetReceive(c) \/ GetEnds(c) \/ PostAck(c) \/ UpdateAck(c)

ServerStep(c) ==
  \/ GetRequest(c) \/ GetInUse(c) \/ ReadyRequest(c) \/ GetSent(c)
  \/ Recv(c) \/ RecvFails(c) \/ Encode(c) \/ PostRecord(c)
  \/ UpdateContent(c) \/ UpdateLost(c) \/ AskFull(c) \/ SendDelta(c) \/ StuckLost(c)

Next ==
  \/ StartProxy \/ StopProxy
  \/ \E s \in Servers : StartServer(s) \/ StopServer(s)
  \/ \E c \in Clients :
       launch_client(c) \/ Kill(c) \/ ProxyRead(c) \/ ClientStep(c) \/ ServerStep(c)
  \/ \E m \in pend : TransmitInsert(m)

Spec == Init /\ [][Next]_vars

\* Threads go on with what they can do.  Nobody has to start anything.
FairSpec ==
  /\ Spec
  /\ \A c \in Clients : WF_vars(ProxyRead(c)) /\ WF_vars(ClientStep(c)) /\ WF_vars(ServerStep(c))
  /\ WF_vars(\E m \in pend : TransmitInsert(m))

-----------------------------------------------------------------------------
(* Properties *)

\* Everything has the shape its comment says; a connection has a state only when
\* its client has been told a server.
TypeOK ==
  /\ conf \in Deployments
  /\ \A n \in DOMAIN disk : disk[n] \in Nat \cup {Absent}
  /\ node \in [Nodes -> {"off", "running", "stopped", "ended"}]
  /\ \A c \in Clients :
       /\ client[c].pc \in {"new", "asking", "waiting", "acking", "ended", "killed"}
       /\ Target(c) \in Servers \cup {Absent}
       /\ conn[c].st # "none" => Target(c) \in Servers /\ client[c].pc \notin {"new", "asking"}
       /\ conn[c].count <= conn[c].sent
  /\ held \in [Servers -> BOOLEAN]
  /\ \A m \in pend : m.to \in Servers /\ m.obj_id \in DOMAIN copy[m.to]

Stored == DOMAIN conf.stored

\* A client is told that its POST is done only when the server that the proxy names
\* has the entry and all bytes, and of a new object each of the K + M block servers has
\* the entry this POST describes, or a handler about to insert it (S/connection.cpp
\* 720-748).
DoneIsRecorded ==
  \A c \in Clients : client[c].report = "post_done" =>
    /\ Target(c) = starting_id(Object(c))
    /\ Known(Object(c), Target(c))
    /\ copy[Target(c)][Object(c)] >= request_(c).content_length
    /\ Object(c) \notin Stored => \A i \in 1..K+M :
         LET m == TransmitRequest(c, i)
         IN  m \in pend \/ (Known(m.obj_id, m.to) /\ table[m.to][m.obj_id] = Block(m))

\* The length in the entry of a full copy is the length of the file, unless the
\* client was killed in its POST or the object was posted a second time: recv's
\* results are added up without a look at their sign (S/connection.cpp 675-692).
RecordedIsWhole ==
  \A s \in Servers : \A o \in DOMAIN table[s] \ Stored :
    table[s][o].data_type = full_copy =>
      \/ table[s][o].length = copy[s][o]
      \/ \E c \in Clients : Method(c, "POST") /\ Object(c) = o /\ client[c].pc = "killed"

\* The proxy ends by an error only if a client with a file shorter than K asks for
\* an update, whatever the others do (P/connection.cpp 102).
ProxyEndsByShortUpdate ==
  node[proxy] = "ended" =>
    \/ thread_num(proxy) <= 0
    \/ \E c \in Clients : Method(c, "UPDATE") /\ request_(c).content_length < K

\* A GET that is reported as finished after its receiving loop has all bytes, unless
\* the server ended meanwhile: it was stopped, another client was killed, or the
\* decoder for another GET, which is never answered, ended it together with its own
\* server, of which it has a block if it is not that server (C/client.cpp 88-106).
FinishedGetIsWhole ==
  \A c \in Clients :
    Method(c, "GET") /\ client[c].report = "finished" /\ ~client[c].lost =>
      \/ client[c].got = copy[Target(c)][Object(c)]
      \/ node[Target(c)] = "stopped"
      \/ /\ node[Target(c)] = "ended"
         /\ \E d \in Clients \ {c} :
              \/ Target(d) = Target(c) /\ client[d].pc = "killed"
              \/ /\ Method(d, "GET") /\ conn[d].st = "header" /\ node[Target(d)] = "ended"
                 /\ Target(c) \in {Target(d)} \cup BlockNodes(Target(d))

\* An update that finds no entry on a block server of an object whose POST was
\* reported done came before the entry was inserted, and by the lock that it leaves
\* locked the entry never is (S/connection.cpp 149-151 and 333 against 611).
EarlyUpdateLocksItsBlockOut ==
  \A c, d \in Clients :
    /\ client[c].report = "post_done" /\ Object(c) \notin Stored
    /\ Method(d, "UPDATE") /\ conn[d].st = "missed"
    /\ Object(d) = Object(c) /\ Target(d) \in BlockNodes(Target(c))
    => /\ \E m \in pend : m.to = Target(d) /\ m.obj_id = Object(c)
       /\ ~Known(Object(c), Target(d))

\* An update that changes a block before the POST has recorded the full copy waits
\* for an answer of the full copy's server that never comes, and the POST that it
\* has overtaken is never recorded (S/connection.cpp 419-422 and 500 against 730).
StuckUpdateStopsPost ==
  \A c, d \in Clients :
    Method(c, "POST") /\ conn[d].st = "stuck" /\ Object(c) = Object(d) =>
      conn[c].st # "done" /\ client[c].report # "post_done" /\ ~Known(Object(c), Full(d))

\* What an update does that comes earlier than the entries of its object.
EarlyUpdateBlocksPost == EarlyUpdateLocksItsBlockOut /\ StuckUpdateStopsPost

\* Why a client may wait for ever: for a lock left locked, for a server that waits
\* for such a lock, for a handler that gave up without closing the connection, or
\* for the first byte of an empty file.
WaitsForLock(c) ==
  \/ Method(c, "GET") /\ conn[c].st = "header" /\ held[Target(c)]
  \/ Method(c, "UPDATE") /\ conn[c].st = "ready" /\ held[Target(c)]
  \/ Method(c, "UPDATE") /\ conn[c].st = "changed" /\ held[Full(c)]
  \/ Method(c, "UPDATE") /\ conn[c].st = "asked" /\ held[Parity(c)]
  \/ Method(c, "POST") /\ conn[c].st = "encoded" /\ held[Target(c)]
EmptyPost(c) == Method(c, "POST") /\ request_(c).content_length = 0 /\ conn[c].st = "ready"
Stuck(c) == conn[c].st \in {"stuck", "abandoned"} \/ WaitsForLock(c) \/ EmptyPost(c)

\* Each request ends for its client, or is stuck for one of these reasons.
EveryClientEnds ==
  \A c \in Clients :
    client[c].pc # "new" ~> client[c].pc \in {"ended", "killed"} \/ Stuck(c)
=============================================================================
