---------------------------- MODULE Front_proofs ----------------------------
(***************************************************************************)
(* Proofs about Front: requests from end to end, for all numbers of        *)
(* clients, rings, files and deployments.                                  *)
(***************************************************************************)
EXTENDS Front, TLAPS

\* The request of client c, and the states of its two ends.
Req(c) == client[c].req
Obj(c) == client[c].req.obj_id
Pc(c) == client[c].pc
St(c) == conn[c].st

Names == {<<>>} \cup {get_random_file_name(c) : c \in Clients}
           \cup {remote_path(c) : c \in Clients}
           \cup {update_request_random_file_name(c) : c \in Clients}
Methods == {Empty, "GET", "POST", "UPDATE"}
Pcs == {"new", "asking", "waiting", "acking", "ended", "killed"}
Reports == {"none", "finished", "exception", "crash", "post_done", "update_done"}
Sts == {"none", "header", "ready", "sending", "received", "spinning", "encoded", "changed",
        "asked", "missed", "stuck", "abandoned", "done"}

ClientRecords ==
  [pc : Pcs, req : [method : Methods, obj_id : Names, content_length : Nat, update_offset : Nat],
   server_id : Servers \cup {Absent}, got : Nat, report : Reports, lost : BOOLEAN]
ConnRecords == [st : Sts, count : Nat, sent : Nat, acks : Nat]

\* The types of the variables; an entry is of an object whose file is there.
ShapeInv ==
  /\ conf \in Deployments
  /\ DOMAIN disk = DOMAIN conf.disk /\ \A name \in DOMAIN disk : disk[name] \in Nat \cup {Absent}
  /\ node \in [Nodes -> {"off", "running", "stopped", "ended"}]
  /\ client \in [Clients -> ClientRecords]
  /\ conn \in [Clients -> ConnRecords]
  /\ DOMAIN table = Servers /\ DOMAIN copy = Servers
  /\ \A s \in Servers : DOMAIN table[s] \subseteq DOMAIN copy[s]
  /\ \A s \in Servers : \A o \in DOMAIN copy[s] : copy[s][o] \in Nat
  /\ held \in [Servers -> BOOLEAN]

\* What a client asks for; what it has asked for stays, as long as its file does.
RequestInv ==
  \A c \in Clients :
    /\ Method(c, Empty) => Obj(c) = <<>> /\ Pc(c) \in {"new", "ended"}
    /\ Method(c, "GET") => Obj(c) \in {<<>>, get_random_file_name(c)}
    /\ Method(c, "POST") => Obj(c) \in {<<>>, remote_path(c)}
    /\ Method(c, "UPDATE") => Obj(c) \in {<<>>, update_request_random_file_name(c)}
    /\ Obj(c) = <<>> => Pc(c) \in {"new", "ended"} /\ Target(c) = Absent
    /\ Pc(c) = "new" => Method(c, Empty) /\ Target(c) = Absent
    /\ Req(c).content_length = 0 \/ Req(c).update_offset < Req(c).content_length
    /\ Method(c, "POST") /\ Obj(c) # <<>> => Req(c).content_length = Length(get_random_file_name(c))

\* How far the two ends of a connection are.
PhaseInv ==
  \A c \in Clients :
    /\ St(c) # "none" => Target(c) \in Servers /\ Pc(c) \notin {"new", "asking"} /\ Obj(c) # <<>>
    /\ Pc(c) \in {"waiting", "acking", "killed"} => St(c) # "none"
    /\ Method(c, "GET") => St(c) \in {"none", "header", "sending", "done", "missed", "stuck",
                                      "abandoned"}
    /\ Method(c, "POST") =>
         St(c) \in {"none", "header", "ready", "received", "spinning", "encoded", "abandoned", "done"}
    /\ Method(c, "UPDATE") => St(c) \in {"none", "header", "ready", "changed", "asked", "missed",
                                         "stuck", "abandoned", "done"}
    /\ Pc(c) # "ended" => client[c].report = "none"
    /\ client[c].report = "post_done" => Method(c, "POST") /\ St(c) = "done" /\ Pc(c) = "ended"

\* Where the proxy sends a client.
TargetInv ==
  \A c \in Clients : Target(c) # Absent /\ ~Method(c, "UPDATE") => Target(c) = starting_id(Obj(c))

\* How many bytes have been sent and received.
CountInv ==
  \A c \in Clients :
    /\ conn[c].count <= conn[c].sent
    /\ St(c) \in {"none", "header"} => conn[c].sent = 0
    /\ ~Method(c, "POST") => conn[c].count = 0
    /\ Method(c, "POST") => /\ Pc(c) # "killed" => conn[c].sent <= Req(c).content_length
                            /\ Pc(c) = "waiting" => conn[c].sent = 0
                            /\ St(c) \in {"received", "encoded", "done"} /\ Pc(c) # "killed" =>
                                 conn[c].count >= Req(c).content_length
    /\ St(c) \notin {"sending", "done"} => client[c].got = 0

\* What the connection's server has of the file.
FileInv ==
  \A c \in Clients :
    /\ Method(c, "POST") /\ St(c) \notin {"none", "header"} =>
         /\ Obj(c) \in DOMAIN copy[Target(c)]
         /\ copy[Target(c)][Obj(c)] >= conn[c].count
         /\ Obj(c) \notin Stored => copy[Target(c)][Obj(c)] = conn[c].count
    /\ Method(c, "GET") /\ St(c) \in {"sending", "done"} =>
         /\ Obj(c) \in DOMAIN copy[Target(c)]
         /\ conn[c].sent = copy[Target(c)][Obj(c)]

\* Where files of a new object are while it is posted.
FreshInv ==
  \A c \in Clients : remote_path(c) \notin Stored =>
    \A t \in Servers : remote_path(c) \in DOMAIN copy[t] =>
      /\ Method(c, "POST") /\ St(c) \notin {"none", "header"}
      /\ St(c) \in {"ready", "received", "spinning"} => t = Target(c)

\* The header of block i of the object of client c, and the entry it describes.
BlockHeader(c, i) ==
  [to |-> Wrap(Target(c) + i), obj_id |-> Obj(c), server_id |-> Target(c),
   content_length |-> Req(c).content_length \div K, data_type |-> i]
BlockEntry(c, i) ==
  [data_type |-> i, length |-> Req(c).content_length \div K, full |-> Target(c)]

\* Who has sent the blocks whose entries are to be inserted.
PendInv ==
  \A m \in pend :
    /\ \E c \in Clients : /\ Method(c, "POST") /\ St(c) \in {"encoded", "done"}
                          /\ \E i \in 1..K+M : m = BlockHeader(c, i)
    /\ m.obj_id \in DOMAIN copy[m.to] /\ ~Known(m.obj_id, m.to)

\* The blocks of a new object are on their way or recorded.
BlocksInv ==
  \A c \in Clients :
    Method(c, "POST") /\ St(c) \in {"encoded", "done"} =>
      /\ St(c) = "done" => Known(Obj(c), Target(c))
      /\ Obj(c) \notin Stored => \A i \in 1..K+M :
           \/ BlockHeader(c, i) \in pend
           \/ /\ Known(Obj(c), Wrap(Target(c) + i))
              /\ table[Wrap(Target(c) + i)][Obj(c)] = BlockEntry(c, i)

\* All entries of an object name the server that the proxy names; a new one is posted.
RecordInv ==
  \A s \in Servers : \A o \in DOMAIN table[s] :
    /\ table[s][o].full = starting_id(o)
    /\ o \in Stored \/ \E c \in Clients :
         /\ Method(c, "POST") /\ Obj(c) = o /\ St(c) \in {"encoded", "done"}
         /\ table[s][o].data_type = full_copy =>
              /\ s = Target(c) /\ St(c) = "done"
              /\ Pc(c) = "killed" \/ table[s][o].length = copy[s][o]

\* What an update that does not find an entry leaves locked, and whom it waits for.
HeldInv ==
  \A c \in Clients : Method(c, "UPDATE") =>
    /\ St(c) \in {"changed", "asked", "stuck"} => Known(Obj(c), Target(c))
    /\ St(c) = "missed" => held[Target(c)] /\ ~Known(Obj(c), Target(c))
    /\ St(c) = "stuck" => held[starting_id(Obj(c))] /\ ~Known(Obj(c), starting_id(Obj(c)))

\* Why a server has ended: a client was killed, or a GET decodes for its file is in use.
Cause(s) ==
  \E d \in Clients :
    \/ Pc(d) = "killed" /\ Target(d) = s
    \/ /\ Method(d, "GET") /\ St(d) = "header" /\ node[Target(d)] = "ended"
       /\ s \in {Target(d)} \cup BlockNodes(Target(d))

\* Servers that clients have reached were up, and ended by such a cause.
UpInv ==
  \A c \in Clients : St(c) # "none" =>
    /\ node[Target(c)] # "off"
    /\ node[Target(c)] = "ended" => Cause(Target(c))

\* A GET that is reported as finished got all or was left by its server.
FinishInv ==
  \A c \in Clients :
    Method(c, "GET") /\ client[c].report = "finished" /\ ~client[c].lost =>
      /\ Pc(c) = "ended" /\ St(c) \in {"sending", "done"}
      /\ (St(c) = "done" /\ client[c].got = conn[c].sent) \/ node[Target(c)] \in {"stopped", "ended"}

\* Why the proxy has ended; a request is made once.
ProxyInv ==
  node[proxy] = "ended" =>
    \/ thread_num(proxy) <= 0
    \/ \E c \in Clients : Method(c, "UPDATE") /\ Req(c).content_length < K

\* The inductive invariant.
IInv ==
  /\ ShapeInv /\ RequestInv /\ PhaseInv /\ TargetInv /\ CountInv /\ FileInv /\ FreshInv
  /\ PendInv /\ BlocksInv /\ RecordInv /\ HeldInv /\ UpInv /\ FinishInv /\ ProxyInv

-----------------------------------------------------------------------------
(* Requests, the ring, and the names *)

\* The object and the length of a connection are those that its client has asked for.
LEMMA Objects ==
  \A c : Object(c) = Obj(c) /\ request_(c).content_length = Req(c).content_length
BY DEF Object, request_, Obj, Req, storage_simple_parse, header_to_buffers, Value

\* A block's header, now and after a step, and the entry that is made of it.
LEMMA Blocks ==
  \A c, i : /\ TransmitRequest(c, i) = BlockHeader(c, i)
            /\ Block(BlockHeader(c, i)) = BlockEntry(c, i)
BY Objects DEF TransmitRequest, Block, BlockHeader, BlockEntry, storage_simple_parse, Value

\* Ids of servers are neither the proxy's nor that of an unknown server.
LEMMA Ids ==
  /\ Servers \subseteq Nat /\ proxy \notin Servers /\ Absent \notin Servers
  /\ proxy \in Nodes /\ Servers \subseteq Nodes
BY DeploymentsAssumption DEF Servers, proxy, Absent, Nodes

\* At most once around the ring is a server, and the next K + M ones are all different.
LEMMA Ring ==
  ASSUME NEW s \in Servers
  PROVE  /\ \A i \in 0..N : Wrap(s + i) \in Servers
         /\ \A i \in 1..K+M : Wrap(s + i) \in Servers /\ Wrap(s + i) # s
         /\ \A i, j \in 1..K+M : Wrap(s + i) = Wrap(s + j) => i = j
BY DeploymentsAssumption DEF Servers, Wrap

\* No names of different kinds are equal, and no two clients post the same object.
LEMMA Kinds ==
  \A c, d : /\ get_random_file_name(c) # remote_path(d)
            /\ get_random_file_name(c) # update_request_random_file_name(d)
            /\ get_random_file_name(c) # <<>> /\ remote_path(c) # <<>>
            /\ update_request_random_file_name(c) # <<>>
            /\ remote_path(c) = remote_path(d) => c = d
BY DEF get_random_file_name, remote_path, update_request_random_file_name

\* No method has been asked for as long as none has been assigned.
LEMMA Unset == Empty \notin {"GET", "POST", "UPDATE"}
BY DEF Empty

\* The proxy names a server for each object that is asked for.
LEMMA Located ==
  ASSUME conf \in Deployments, NEW o \in Names, o # <<>>
  PROVE  starting_id(o) \in Servers
<1>1. Hash[o] \in 0..N-1
  BY NamesAssumption DEF Names
<1> QED BY <1>1, DeploymentsAssumption DEF starting_id, target_server_location, Servers

\* The server of an update's block is one of the ring's, whatever is asked for: the
\* offset lies in the file, so that the block's number is at most 2K - 1.
LEMMA Updated ==
  ASSUME NEW s \in Servers, NEW length \in Nat, NEW offset \in Nat, offset < length,
         length \div K # 0
  PROVE  Wrap(s + offset \div (length \div K) + 1) \in Servers
<1> DEFINE q == length \div K
<1>1. q \in Nat \ {0}
  BY DeploymentsAssumption
<1>2. offset \div q <= 2 * K - 2 /\ offset \div q \in Nat
  BY <1>1, DeploymentsAssumption, SMTT(30)
<1>3. offset \div q + 1 \in 0..N
  BY <1>2, DeploymentsAssumption
<1>4. s + offset \div q + 1 = s + (offset \div q + 1)
  BY <1>2, Ids
<1> QED BY <1>3, <1>4, Ring

-----------------------------------------------------------------------------
(* Types *)

\* The types of what is known of a client and of its connection.
LEMMA Types ==
  ASSUME ShapeInv, NEW c \in Clients
  PROVE  /\ Pc(c) \in Pcs /\ Target(c) \in Servers \cup {Absent}
         /\ Req(c).method \in Methods /\ Obj(c) \in Names
         /\ Req(c).content_length \in Nat /\ Req(c).update_offset \in Nat
         /\ client[c].got \in Nat /\ client[c].report \in Reports /\ client[c].lost \in BOOLEAN
         /\ St(c) \in Sts /\ conn[c].count \in Nat /\ conn[c].sent \in Nat /\ conn[c].acks \in Nat
BY DEF ShapeInv, ClientRecords, ConnRecords, Pc, Target, Req, Obj, St

\* What a connection does tells what was asked for.
LEMMA AskedFor ==
  ASSUME ShapeInv, RequestInv, PhaseInv, NEW c \in Clients
  PROVE  /\ St(c) = "sending" => Method(c, "GET")
         /\ St(c) \in {"received", "spinning", "encoded"} => Method(c, "POST")
         /\ St(c) \in {"changed", "asked"} => Method(c, "UPDATE")
         /\ Method(c, "GET") \/ Method(c, "POST") \/ Method(c, "UPDATE") \/ Method(c, Empty)
<1>1. client[c].req.method \in Methods
  BY Types DEF Req
<1> QED BY <1>1 DEF RequestInv, PhaseInv, Method, Methods

\* A client's file has a length.
LEMMA Lengths ==
  ASSUME ShapeInv, NEW c \in Clients
  PROVE  /\ get_random_file_name(c) \in DOMAIN disk /\ update_request_random_file_name(c) \in DOMAIN disk
         /\ Length(get_random_file_name(c)) \in Nat
         /\ Length(update_request_random_file_name(c)) \in Nat
<1>1. /\ get_random_file_name(c) \in DOMAIN disk /\ update_request_random_file_name(c) \in DOMAIN disk
  BY NamesAssumption, DeploymentsAssumption DEF ShapeInv
<1>2. ASSUME NEW name \in DOMAIN disk
      PROVE  Length(name) \in Nat
  BY <1>2 DEF ShapeInv, Length, request
<1> QED BY <1>1, <1>2

\* The proxy answers with the object's server, or the one of the block for an update;
\* it has no answer only for an update of less than K bytes (P/connection.cpp 85-110).
LEMMA ServerNamed ==
  ASSUME ShapeInv, RequestInv, NEW c \in Clients, Obj(c) # <<>>
  PROVE  LET server == ServerFor(simple_parse(header_to_buffers(client[c].req)))
         IN  /\ server \in Servers \cup {Absent}
             /\ ~Method(c, "UPDATE") => server = starting_id(Obj(c)) /\ server \in Servers
             /\ server = Absent => Method(c, "UPDATE") /\ Req(c).content_length < K
<1> DEFINE length == Req(c).content_length
           offset == Req(c).update_offset
           req    == simple_parse(header_to_buffers(client[c].req))
<1>1. /\ req.method = Req(c).method /\ req.obj_id = Obj(c)
      /\ req.content_length = length /\ req.update_offset = offset
  BY DEF simple_parse, header_to_buffers, Value, Req, Obj
<1>2. starting_id(Obj(c)) \in Servers /\ length \in Nat /\ offset \in Nat
  BY Located, Types DEF ShapeInv
<1>3. length = 0 \/ offset < length
  BY DEF RequestInv
<1> HIDE DEF req, length, offset
<1>4. CASE ~Method(c, "UPDATE")
  <2>1. ServerFor(req) = starting_id(Obj(c))
    BY <1>1, <1>4 DEF ServerFor, Method, Req
  <2> QED BY <1>2, <1>4, <2>1, Ids DEF req
<1>5. CASE Method(c, "UPDATE") /\ length \div K = 0
  <2>1. ServerFor(req) = Absent
    BY <1>1, <1>5 DEF ServerFor, Method, Req
  <2>2. length < K
    BY <1>2, <1>5, DeploymentsAssumption
  <2> QED BY <1>5, <2>1, <2>2 DEF req, length
<1>6. CASE Method(c, "UPDATE") /\ length \div K # 0
  <2>1. ServerFor(req) = Wrap(starting_id(Obj(c)) + offset \div (length \div K) + 1)
    BY <1>1, <1>6 DEF ServerFor, Method, Req
  <2>2. length # 0
    BY <1>6, DeploymentsAssumption
  <2>3. ServerFor(req) \in Servers
    BY <1>2, <1>3, <1>6, <2>1, <2>2, Updated
  <2> QED BY <1>6, <2>3, Ids DEF req
<1> QED BY <1>4, <1>5, <1>6

\* What is reported of an exception leaves the record a record.
LEMMA Exceptions ==
  ASSUME NEW c \in Clients, client[c] \in ClientRecords, NEW method \in Methods
  PROVE  /\ Exception(c, method) \in ClientRecords
         /\ Exception(c, method).req = [client[c].req EXCEPT !.method = method]
         /\ Exception(c, method).pc = "ended" /\ Exception(c, method).lost
         /\ Exception(c, method).server_id = client[c].server_id
         /\ Exception(c, method).got = client[c].got
         /\ Exception(c, method).report \in {"finished", "exception"}
         /\ Req(c).method = method => Exception(c, method).req = client[c].req
<1>1. [client[c].req EXCEPT !.method = method] \in
        [method : Methods, obj_id : Names, content_length : Nat, update_offset : Nat]
  BY DEF ClientRecords
<1>2. Exception(c, method) = [client[c] EXCEPT !.pc = "ended", !.lost = TRUE,
         !.req = [client[c].req EXCEPT !.method = method],
         !.report = IF method = "GET" THEN "finished" ELSE "exception"]
  BY DEF Exception, ClientRecords
<1>3. Exception(c, method) \in ClientRecords
  BY <1>1, <1>2 DEF ClientRecords, Pcs, Reports
<1>4. Req(c).method = method => [client[c].req EXCEPT !.method = method] = client[c].req
  BY DEF Req, ClientRecords
<1> QED BY <1>2, <1>3, <1>4 DEF ClientRecords

\* The launch of client c, whatever it asks for: it goes on with a request, or
\* ends with the method only.
Launched(c) ==
  /\ Pc(c) = "new" /\ client' \in [Clients -> ClientRecords]
  /\ \A d \in Clients : d # c => client'[d] = client[d]
  /\ client'[c].server_id = client[c].server_id /\ client'[c].got = client[c].got
  /\ client'[c].pc \in {"asking", "ended"} /\ Req(c)'.method \in Methods
  /\ client'[c].pc = "asking" => Obj(c)' # <<>> /\ client'[c].report = "none"
  /\ client'[c].report = "finished" => client'[c].lost
  /\ client'[c].report # "post_done"
  /\ Method(c, Empty)' => Obj(c)' = <<>> /\ client'[c].pc = "ended"
  /\ Method(c, "GET")' => Obj(c)' \in {<<>>, get_random_file_name(c)}
  /\ Method(c, "POST")' => Obj(c)' \in {<<>>, remote_path(c)}
  /\ Method(c, "UPDATE")' => Obj(c)' \in {<<>>, update_request_random_file_name(c)}
  /\ Obj(c)' = <<>> => client'[c].pc = "ended"
  /\ Req(c)'.content_length = 0 \/ Req(c)'.update_offset < Req(c)'.content_length
  /\ Method(c, "POST")' /\ Obj(c)' # <<>> => Req(c)'.content_length = Length(get_random_file_name(c))

\* Asking for a request that fits client c is such a launch.
LEMMA AskLaunches ==
  ASSUME IInv, NEW c \in Clients, Pc(c) = "new", NEW req, Ask(c, req),
         req \in [method : Methods \ {Empty}, obj_id : Names, content_length : Nat, update_offset : Nat],
         req.obj_id # <<>>,
         req.method = "GET" => req.obj_id = get_random_file_name(c),
         req.method = "POST" => /\ req.obj_id = remote_path(c)
                                /\ req.content_length = Length(get_random_file_name(c)),
         req.method = "UPDATE" => req.obj_id = update_request_random_file_name(c),
         req.content_length = 0 \/ req.update_offset < req.content_length
  PROVE  Launched(c)
<1>1. ShapeInv /\ RequestInv /\ PhaseInv
  BY DEF IInv
<1>2. /\ Method(c, Empty) /\ Obj(c) = <<>> /\ Target(c) = Absent /\ client[c].report = "none"
      /\ Req(c).content_length = 0 \/ Req(c).update_offset < Req(c).content_length
  BY <1>1 DEF RequestInv, PhaseInv
<1>3. client[c] \in ClientRecords
  BY <1>1 DEF ShapeInv
<1>6. req.method \in Methods
  OBVIOUS
<1>4. CASE Running(proxy)
  <2>1. client' = [client EXCEPT ![c] = [client[c] EXCEPT !.pc = "asking", !.req = req]]
    BY <1>4 DEF Ask
  <2>2. client'[c] = [client[c] EXCEPT !.pc = "asking", !.req = req]
    BY <1>1, <2>1 DEF ShapeInv
  <2>3. client'[c] \in ClientRecords
    BY <1>3, <2>2 DEF ClientRecords, Pcs
  <2>4. client' \in [Clients -> ClientRecords] /\ \A d \in Clients : d # c => client'[d] = client[d]
    BY <1>1, <2>1, <2>2, <2>3 DEF ShapeInv
  <2>5. /\ client'[c].server_id = client[c].server_id /\ client'[c].got = client[c].got
        /\ client'[c].pc = "asking" /\ client'[c].req = req /\ client'[c].report = client[c].report
    BY <1>3, <2>2 DEF ClientRecords
  <2> QED BY <1>2, <2>4, <2>5 DEF Launched, Req, Obj, Method
<1>5. CASE ~Running(proxy)
  <2>1. client' = [client EXCEPT ![c] = Exception(c, req.method)]
    BY <1>5 DEF Ask
  <2>2. client'[c] = Exception(c, req.method)
    BY <1>1, <2>1 DEF ShapeInv
  <2>3. client'[c] \in ClientRecords
    BY <1>3, <1>6, <2>2, Exceptions
  <2>4. client' \in [Clients -> ClientRecords] /\ \A d \in Clients : d # c => client'[d] = client[d]
    BY <1>1, <2>1, <2>2, <2>3 DEF ShapeInv
  <2>5. /\ client'[c].server_id = client[c].server_id /\ client'[c].got = client[c].got
        /\ client'[c].pc = "ended" /\ client'[c].req = [client[c].req EXCEPT !.method = req.method]
        /\ client'[c].lost /\ client'[c].report \in {"finished", "exception"}
    BY <1>3, <2>2 DEF ClientRecords, Exception
  <2>6. /\ client'[c].req.method = req.method /\ client'[c].req.obj_id = <<>>
        /\ client'[c].req.content_length = Req(c).content_length
        /\ client'[c].req.update_offset = Req(c).update_offset
    BY <1>2, <1>3, <2>5 DEF ClientRecords, Req, Obj
  <2> QED BY <1>2, <2>4, <2>5, <2>6 DEF Launched, Req, Obj, Method
<1> QED BY <1>4, <1>5

\* The three launches (C/client.cpp 32-42, 125-143, 230-244).
LEMMA Launches ==
  ASSUME IInv, NEW c \in Clients, launch_client(c)
  PROVE  Launched(c)
<1>1. ShapeInv /\ RequestInv /\ PhaseInv /\ Pc(c) = "new"
  BY DEF IInv, launch_client, LaunchGet, LaunchPost, LaunchUpdate, Pc
<1>2. CASE LaunchGet(c)
  <2>1. /\ make_get_request(c).method = "GET" /\ make_get_request(c).obj_id = get_random_file_name(c)
        /\ make_get_request(c).content_length = 0
        /\ make_get_request(c) \in [method : Methods \ {Empty}, obj_id : Names, content_length : Nat, update_offset : Nat]
    BY Unset DEF make_get_request, request, Methods, Names
  <2> QED BY <1>1, <1>2, <2>1, AskLaunches, Kinds DEF LaunchGet
<1>3. CASE LaunchPost(c)
  <2>1. /\ make_post_request(c).method = "POST" /\ make_post_request(c).obj_id = remote_path(c)
        /\ make_post_request(c).content_length = Length(get_random_file_name(c))
        /\ make_post_request(c).update_offset = 0
        /\ make_post_request(c) \in [method : Methods \ {Empty}, obj_id : Names, content_length : Nat, update_offset : Nat]
    BY <1>1, Lengths, Unset DEF make_post_request, request, Methods, Names
  <2>2. make_post_request(c).content_length = 0
          \/ make_post_request(c).update_offset < make_post_request(c).content_length
    <3>1. Length(get_random_file_name(c)) \in Nat
      BY <1>1, Lengths
    <3>2. Length(get_random_file_name(c)) = 0 \/ 0 < Length(get_random_file_name(c))
      BY <3>1
    <3> QED BY <2>1, <3>2
  <2> QED BY <1>1, <1>3, <2>1, <2>2, AskLaunches, Kinds DEF LaunchPost
<1>4. CASE LaunchUpdate(c)
  <2> DEFINE name == update_request_random_file_name(c)
  <2>1. disk[name] \in Nat \cup {Absent}
    BY <1>1, Lengths DEF ShapeInv
  <2>2. ASSUME NEW offset \in Offsets(name), Ask(c, make_update_request(c, offset))
        PROVE  Launched(c)
    <3>1. /\ offset \in Nat /\ Length(name) \in Nat
          /\ Length(name) = 0 \/ offset < Length(name)
      BY <2>1, <2>2 DEF Offsets, get_random_offset, Length, request
    <3>2. /\ make_update_request(c, offset).method = "UPDATE" /\ make_update_request(c, offset).obj_id = name
          /\ make_update_request(c, offset).content_length = Length(name)
          /\ make_update_request(c, offset).update_offset = offset
          /\ make_update_request(c, offset) \in
               [method : Methods \ {Empty}, obj_id : Names, content_length : Nat, update_offset : Nat]
      BY <3>1, Unset DEF make_update_request, request, Methods, Names
    <3> QED BY <1>1, <2>2, <3>1, <3>2, AskLaunches, Kinds
  <2>3. CASE client' = [client EXCEPT ![c].pc = "ended", ![c].report = "crash"]
    <3>1. /\ Method(c, Empty) /\ Obj(c) = <<>> /\ Target(c) = Absent
          /\ Req(c).content_length = 0 \/ Req(c).update_offset < Req(c).content_length
      BY <1>1 DEF RequestInv
    <3>2. client[c] \in ClientRecords
      BY <1>1 DEF ShapeInv
    <3>3. client'[c] = [client[c] EXCEPT !.pc = "ended", !.report = "crash"]
      BY <1>1, <2>3 DEF ShapeInv
    <3>4. client'[c] \in ClientRecords
      BY <3>2, <3>3 DEF ClientRecords, Pcs, Reports
    <3>5. client' \in [Clients -> ClientRecords] /\ \A d \in Clients : d # c => client'[d] = client[d]
      BY <1>1, <2>3, <3>3, <3>4 DEF ShapeInv
    <3>6. /\ client'[c].server_id = client[c].server_id /\ client'[c].got = client[c].got
          /\ client'[c].pc = "ended" /\ client'[c].req = client[c].req /\ client'[c].report = "crash"
      BY <3>2, <3>3 DEF ClientRecords
    <3> QED BY <1>1, <3>1, <3>5, <3>6 DEF Launched, Req, Obj, Method, Methods
  <2> QED BY <1>4, <2>2, <2>3 DEF LaunchUpdate
<1> QED BY <1>2, <1>3, <1>4 DEF launch_client

-----------------------------------------------------------------------------
(* A part of the invariant holds as long as the variables that it is about stay *)

\* What clients have asked for, and when.
LEMMA RequestStays ==
  ASSUME RequestInv, UNCHANGED <<client, disk>>
  PROVE  RequestInv'
BY DEF RequestInv, Req, Obj, Pc, Method, Target, Length, request

\* What the phases of a connection and of its client say of each other.
LEMMA PhaseStays ==
  ASSUME PhaseInv, UNCHANGED <<client, conn>>
  PROVE  PhaseInv'
BY DEF PhaseInv, Pc, St, Obj, Method, Target

\* Which server a client was named.
LEMMA TargetStays ==
  ASSUME TargetInv, UNCHANGED <<conf, client>>
  PROVE  TargetInv'
BY DEF TargetInv, Obj, Method, Target, starting_id, target_server_location, run_mode, Value

\* How much of a file is left to be received.
LEMMA CountStays ==
  ASSUME CountInv, UNCHANGED <<client, conn>>
  PROVE  CountInv'
BY DEF CountInv, Pc, St, Req, Method

\* What files the servers have written.
LEMMA FileStays ==
  ASSUME FileInv, UNCHANGED <<conf, client, conn, copy>>
  PROVE  FileInv'
BY DEF FileInv, St, Obj, Method, Target, Stored

\* What no server has before it is posted.
LEMMA FreshStays ==
  ASSUME FreshInv, UNCHANGED <<conf, client, conn, copy>>
  PROVE  FreshInv'
BY DEF FreshInv, St, Method, Target, Stored

\* The blocks that are on their way.
LEMMA PendStays ==
  ASSUME PendInv, UNCHANGED <<client, conn, table, copy, pend>>
  PROVE  PendInv'
BY DEF PendInv, St, Obj, Req, Method, Target, Known, BlockHeader

\* The blocks of a POST, on their way or recorded.
LEMMA BlocksStays ==
  ASSUME BlocksInv, UNCHANGED <<conf, client, conn, table, pend>>
  PROVE  BlocksInv'
BY DEF BlocksInv, St, Obj, Req, Method, Target, Known, BlockHeader, BlockEntry, Stored

\* The entries of full copies.
LEMMA RecordStays ==
  ASSUME RecordInv, UNCHANGED <<conf, client, conn, table, copy>>
  PROVE  RecordInv'
BY DEF RecordInv, Pc, St, Obj, Method, Target, starting_id, target_server_location, run_mode, Value, Stored

\* The locks that nobody opens.
LEMMA HeldStays ==
  ASSUME HeldInv, UNCHANGED <<conf, client, conn, table, held>>
  PROVE  HeldInv'
BY DEF HeldInv, St, Obj, Method, Target, starting_id, target_server_location, run_mode, Value, Known

\* The causes of servers that have ended.
LEMMA UpStays ==
  ASSUME UpInv, UNCHANGED <<node, client, conn>>
  PROVE  UpInv'
BY DEF UpInv, Pc, St, Method, Target, Cause

\* What a client was told at the end of a GET.
LEMMA FinishStays ==
  ASSUME FinishInv, UNCHANGED <<node, client, conn>>
  PROVE  FinishInv'
BY DEF FinishInv, Pc, St, Method, Target

\* The proxy and what ends it.
LEMMA ProxyStays ==
  ASSUME ProxyInv, UNCHANGED <<conf, node, client>>
  PROVE  ProxyInv'
BY DEF ProxyInv, Req, Method, thread_num, Value

\* A client keeps to its request, however far it is.
LEMMA RequestKept ==
  ASSUME RequestInv, NEW c \in Clients,
         \A d \in Clients : Length(get_random_file_name(d))' = Length(get_random_file_name(d)),
         \A d \in Clients : d # c => client'[d] = client[d],
         client'[c].req = client[c].req, client'[c].server_id = client[c].server_id,
         \/ client'[c].pc = client[c].pc
         \/ client[c].pc \notin {"new", "ended"} /\ client'[c].pc # "new"
  PROVE  RequestInv'
<1>1. ASSUME NEW d \in Clients
      PROVE  /\ Req(d)' = Req(d) /\ Obj(d)' = Obj(d) /\ Target(d)' = Target(d)
  BY DEF Req, Obj, Target
<1>2. ASSUME NEW d \in Clients
      PROVE  Pc(d)' = Pc(d) \/ (Pc(d) # "new" /\ Pc(d)' # "new" /\ Obj(d) # <<>>)
  BY DEF Pc, RequestInv
<1> QED BY <1>1, <1>2 DEF RequestInv, Method, Req
-----------------------------------------------------------------------------
(* What a part of the invariant needs of a step *)

\* A client whose header has been sent keeps to its request.
RequestsStay ==
  \A d \in Clients : St(d) # "none" =>
    client'[d].req = client[d].req /\ client'[d].server_id = client[d].server_id

\* POSTs that have sent their blocks stay there, or are done.
PostsStay ==
  \A d \in Clients : Method(d, "POST") /\ St(d) \in {"encoded", "done"} =>
    St(d)' = St(d) \/ St(d)' = "done"

\* Blocks on their way stay so when no POST goes back or forward but to its end.
LEMMA PendKept ==
  ASSUME PendInv, PhaseInv, UNCHANGED <<table, pend>>, RequestsStay, PostsStay,
         \A s \in Servers : DOMAIN copy[s] \subseteq DOMAIN copy'[s]
  PROVE  PendInv'
<1> SUFFICES ASSUME NEW m \in pend
             PROVE  /\ \E c \in Clients : /\ Method(c, "POST")' /\ St(c)' \in {"encoded", "done"}
                                          /\ \E i \in 1..K+M : m = BlockHeader(c, i)'
                    /\ (m.obj_id \in DOMAIN copy[m.to] /\ ~Known(m.obj_id, m.to))'
  BY DEF PendInv
<1>1. PICK c \in Clients, i \in 1..K+M :
         Method(c, "POST") /\ St(c) \in {"encoded", "done"} /\ m = BlockHeader(c, i)
  BY DEF PendInv
<1>2. client'[c].req = client[c].req /\ client'[c].server_id = client[c].server_id
  BY <1>1 DEF RequestsStay
<1>3. Method(c, "POST")' /\ St(c)' \in {"encoded", "done"} /\ m = BlockHeader(c, i)'
  BY <1>1, <1>2 DEF PostsStay, Method, BlockHeader, Obj, Req, Target
<1>4. m.to \in Servers
  BY <1>1, Ring DEF BlockHeader, PhaseInv
<1>5. (m.obj_id \in DOMAIN copy[m.to] /\ ~Known(m.obj_id, m.to))'
  BY <1>4 DEF PendInv, Known
<1> QED BY <1>3, <1>5

\* With entries that are only added the blocks of a POST stay recorded.
LEMMA BlocksKept ==
  ASSUME BlocksInv, UNCHANGED <<conf, table, pend>>, RequestsStay,
         \A d \in Clients : Method(d, "POST")' /\ St(d)' \in {"encoded", "done"} => St(d)' = St(d)
  PROVE  BlocksInv'
<1> SUFFICES ASSUME NEW c \in Clients, Method(c, "POST")', St(c)' \in {"encoded", "done"}
             PROVE  /\ (St(c) = "done" => Known(Obj(c), Target(c)))'
                    /\ (Obj(c) \notin Stored => \A i \in 1..K+M :
                          \/ BlockHeader(c, i) \in pend
                          \/ /\ Known(Obj(c), Wrap(Target(c) + i))
                             /\ table[Wrap(Target(c) + i)][Obj(c)] = BlockEntry(c, i))'
  BY DEF BlocksInv
<1>1. St(c)' = St(c)
  OBVIOUS
<1>2. client'[c].req = client[c].req /\ client'[c].server_id = client[c].server_id
  BY <1>1 DEF RequestsStay
<1>3. /\ Method(c, "POST") /\ Obj(c)' = Obj(c) /\ Target(c)' = Target(c)
      /\ \A i : BlockHeader(c, i)' = BlockHeader(c, i) /\ BlockEntry(c, i)' = BlockEntry(c, i)
  BY <1>2 DEF Method, Obj, Target, BlockHeader, BlockEntry, Req
<1> QED BY <1>1, <1>3 DEF BlocksInv, Known, Stored

\* The entries of full copies stay whole when those that are added are.
LEMMA RecordKept ==
  ASSUME RecordInv, UNCHANGED <<conf, table>>, RequestsStay, PostsStay,
         \A s \in Servers : \A o \in DOMAIN table[s] \ Stored : copy'[s][o] = copy[s][o],
         \A d \in Clients : Pc(d) = "killed" => Pc(d)' = "killed"
  PROVE  RecordInv'
<1> SUFFICES ASSUME NEW s \in Servers, NEW o \in DOMAIN table[s]
             PROVE  /\ table[s][o].full = starting_id(o)'
                    /\ o \in Stored' \/ \E c \in Clients :
                         /\ Method(c, "POST")' /\ Obj(c)' = o /\ St(c)' \in {"encoded", "done"}
                         /\ table[s][o].data_type = full_copy =>
                              /\ s = Target(c)' /\ St(c)' = "done"
                              /\ Pc(c)' = "killed" \/ table[s][o].length = copy'[s][o]
  BY DEF RecordInv
<1>1. table[s][o].full = starting_id(o) /\ starting_id(o)' = starting_id(o) /\ Stored' = Stored
  BY DEF RecordInv, starting_id, target_server_location, run_mode, Value, Stored
<1>2. CASE o \notin Stored
  <2>1. PICK c \in Clients :
           /\ Method(c, "POST") /\ Obj(c) = o /\ St(c) \in {"encoded", "done"}
           /\ table[s][o].data_type = full_copy =>
                /\ s = Target(c) /\ St(c) = "done"
                /\ Pc(c) = "killed" \/ table[s][o].length = copy[s][o]
    BY <1>2 DEF RecordInv
  <2>2. client'[c].req = client[c].req /\ client'[c].server_id = client[c].server_id
    BY <2>1 DEF RequestsStay
  <2>3. Method(c, "POST")' /\ Obj(c)' = Obj(c) /\ Target(c)' = Target(c)
    BY <2>1, <2>2 DEF Method, Obj, Target
  <2>4. St(c)' \in {"encoded", "done"} /\ (St(c) = "done" => St(c)' = "done")
    BY <2>1 DEF PostsStay
  <2> QED BY <1>1, <2>1, <2>3, <2>4
<1> QED BY <1>1, <1>2

\* A cause stays a cause when no GET goes on whose server has ended.
LEMMA CauseStays ==
  ASSUME NEW s, Cause(s), PhaseInv,
         \A d \in Clients : St(d) # "none" /\ node[Target(d)] = "ended" =>
           /\ client'[d].req = client[d].req /\ client'[d].server_id = client[d].server_id
           /\ node'[Target(d)] = "ended" /\ St(d)' = St(d)
           /\ Pc(d) = "killed" => Pc(d)' = "killed",
         \A d \in Clients : Pc(d) = "killed" =>
           client'[d].server_id = client[d].server_id /\ Pc(d)' = "killed"
  PROVE  Cause(s)'
<1>1. PICK d \in Clients :
         \/ Pc(d) = "killed" /\ Target(d) = s
         \/ /\ Method(d, "GET") /\ St(d) = "header" /\ node[Target(d)] = "ended"
            /\ s \in {Target(d)} \cup BlockNodes(Target(d))
  BY DEF Cause
<1>2. CASE Pc(d) = "killed" /\ Target(d) = s
  <2>1. Pc(d)' = "killed" /\ Target(d)' = s
    BY <1>2 DEF Target
  <2> QED BY <2>1 DEF Cause
<1>3. CASE /\ Method(d, "GET") /\ St(d) = "header" /\ node[Target(d)] = "ended"
           /\ s \in {Target(d)} \cup BlockNodes(Target(d))
  <2>1. /\ Method(d, "GET")' /\ St(d)' = "header" /\ node'[Target(d)] = "ended"
        /\ Target(d)' = Target(d)
    BY <1>3 DEF Method, Target
  <2>2. node[Target(d)]' = "ended" /\ (s \in {Target(d)} \cup BlockNodes(Target(d)))'
    BY <1>3, <2>1 DEF BlockNodes
  <2> QED BY <2>1, <2>2 DEF Cause
<1> QED BY <1>1, <1>2, <1>3

\* Servers only go on as they are or end, for connections that stay.
LEMMA UpKept ==
  ASSUME UpInv, PhaseInv, UNCHANGED node, RequestsStay,
         \A d \in Clients : Pc(d) = "killed" => Pc(d)' = "killed",
         \A d \in Clients : St(d)' # "none" => \/ St(d) # "none"
                                               \/ node[Target(d)'] = "running",
         \A d \in Clients : St(d)' = St(d) \/ St(d) = "none" \/ node[Target(d)] = "running"
  PROVE  UpInv'
<1>1. ASSUME NEW d \in Clients, St(d) # "none", node[Target(d)] = "ended"
      PROVE  /\ client'[d].req = client[d].req /\ client'[d].server_id = client[d].server_id
             /\ node'[Target(d)] = "ended" /\ St(d)' = St(d)
             /\ Pc(d) = "killed" => Pc(d)' = "killed"
  BY <1>1 DEF RequestsStay
<1>2. ASSUME NEW d \in Clients, Pc(d) = "killed"
      PROVE  client'[d].server_id = client[d].server_id /\ Pc(d)' = "killed"
  BY <1>2 DEF PhaseInv, RequestsStay
<1>3. ASSUME NEW s, Cause(s)
      PROVE  Cause(s)'
  BY <1>1, <1>2, <1>3, CauseStays
<1>4. ASSUME NEW c \in Clients, St(c)' # "none"
      PROVE  node'[Target(c)'] # "off" /\ (node'[Target(c)'] = "ended" => Cause(Target(c))')
  <2>1. CASE St(c) # "none"
    <3>1. Target(c)' = Target(c)
      BY <2>1 DEF RequestsStay, Target
    <3>2. node[Target(c)] # "off" /\ (node[Target(c)] = "ended" => Cause(Target(c)))
      BY <2>1 DEF UpInv
    <3> QED BY <1>3, <3>1, <3>2
  <2>2. CASE node[Target(c)'] = "running"
    BY <2>2
  <2> QED BY <1>4, <2>1, <2>2
<1> QED BY <1>4 DEF UpInv

\* A client that was named a server keeps it, as long as the ring stays.
LEMMA TargetKept ==
  ASSUME TargetInv, UNCHANGED conf,
         \A d \in Clients : \/ /\ client'[d].req = client[d].req
                               /\ client'[d].server_id = client[d].server_id
                            \/ Target(d)' = Absent
  PROVE  TargetInv'
<1> SUFFICES ASSUME NEW c \in Clients, Target(c)' # Absent, ~Method(c, "UPDATE")'
             PROVE  Target(c)' = starting_id(Obj(c))'
  BY DEF TargetInv, Absent
<1>1. client'[c].req = client[c].req /\ client'[c].server_id = client[c].server_id
  OBVIOUS
<1>2. Target(c)' = Target(c) /\ Obj(c)' = Obj(c) /\ ~Method(c, "UPDATE")
  BY <1>1 DEF Target, Obj, Method
<1>3. Target(c) = starting_id(Obj(c))
  BY <1>2 DEF TargetInv
<1>4. starting_id(Obj(c))' = starting_id(Obj(c))
  BY <1>2 DEF starting_id, target_server_location, run_mode, Value
<1> QED BY <1>2, <1>3, <1>4

\* A proxy that stays as it is has its reason to be up or to have ended.
LEMMA ProxyKept ==
  ASSUME ProxyInv, UNCHANGED conf, node'[proxy] = "ended" => node[proxy] = "ended",
         \A d \in Clients : Method(d, "UPDATE") => client'[d].req = client[d].req
  PROVE  ProxyInv'
BY DEF ProxyInv, thread_num, Value, Method, Req

\* Files are made of the objects of POSTs that have been read.
LEMMA FreshKept ==
  ASSUME FreshInv, UNCHANGED conf, RequestsStay,
         \A s \in Servers : DOMAIN copy'[s] \subseteq DOMAIN copy[s],
         \A d \in Clients : Method(d, "POST") /\ St(d) \notin {"none", "header"} =>
           /\ St(d)' \notin {"none", "header"}
           /\ St(d)' \in {"ready", "received", "spinning"} => St(d) \in {"ready", "received", "spinning"}
  PROVE  FreshInv'
<1> SUFFICES ASSUME NEW c \in Clients, remote_path(c) \notin Stored, NEW t \in Servers,
                    remote_path(c) \in DOMAIN copy'[t]
             PROVE  /\ Method(c, "POST")' /\ St(c)' \notin {"none", "header"}
                    /\ St(c)' \in {"ready", "received", "spinning"} => t = Target(c)'
  BY DEF FreshInv, Stored
<1>1. /\ Method(c, "POST") /\ St(c) \notin {"none", "header"}
      /\ St(c) \in {"ready", "received", "spinning"} => t = Target(c)
  BY DEF FreshInv
<1>2. Method(c, "POST")' /\ Target(c)' = Target(c)
  BY <1>1 DEF RequestsStay, Method, Target
<1> QED BY <1>1, <1>2

\* What a client was told stays true when servers only end.
LEMMA FinishKept ==
  ASSUME FinishInv, UNCHANGED node, RequestsStay,
         \A d \in Clients : Method(d, "GET")' /\ client'[d].report = "finished" /\ ~client'[d].lost =>
           /\ Method(d, "GET") /\ client[d].report = "finished" /\ ~client[d].lost
           /\ client'[d].got = client[d].got,
         \A d \in Clients : Pc(d) = "ended" => Pc(d)' = "ended",
         \A d \in Clients : Method(d, "GET") /\ St(d) \in {"sending", "done"} =>
           /\ St(d)' \in {"sending", "done"} /\ conn'[d].sent = conn[d].sent
           /\ St(d) = "done" => St(d)' = "done"
  PROVE  FinishInv'
<1> SUFFICES ASSUME NEW c \in Clients, Method(c, "GET")', client'[c].report = "finished", ~client'[c].lost
             PROVE  /\ Pc(c)' = "ended" /\ St(c)' \in {"sending", "done"}
                    /\ \/ St(c)' = "done" /\ client'[c].got = conn'[c].sent
                       \/ node[Target(c)'] \in {"stopped", "ended"}
  BY DEF FinishInv
<1>1. /\ Pc(c) = "ended" /\ St(c) \in {"sending", "done"}
      /\ (St(c) = "done" /\ client[c].got = conn[c].sent) \/ node[Target(c)] \in {"stopped", "ended"}
  BY DEF FinishInv
<1>2. Target(c)' = Target(c)
  BY <1>1 DEF RequestsStay, Target
<1> QED BY <1>1, <1>2

\* A process that starts, stops or ends, when those that end have a cause.
LEMMA ServersEnd ==
  ASSUME UpInv, FinishInv, PhaseInv, UNCHANGED <<client, conn>>,
         \A s \in Servers : /\ node[s] \in {"stopped", "ended"} => node'[s] = node[s]
                            /\ node[s] # "off" => node'[s] # "off",
         \A c \in Clients : St(c) # "none" /\ node[Target(c)] # "ended" /\ node'[Target(c)] = "ended"
           => Cause(Target(c))'
  PROVE  UpInv' /\ FinishInv'
<1>1. ASSUME NEW d \in Clients
      PROVE  /\ St(d)' = St(d) /\ Pc(d)' = Pc(d) /\ Target(d)' = Target(d)
             /\ \A m : Method(d, m)' = Method(d, m)
             /\ St(d) # "none" => Target(d) \in Servers
  BY DEF St, Pc, Target, Method, PhaseInv
<1>2. ASSUME NEW s, Cause(s)
      PROVE  Cause(s)'
  <2>1. ASSUME NEW d \in Clients, St(d) # "none", node[Target(d)] = "ended"
        PROVE  /\ client'[d].req = client[d].req /\ client'[d].server_id = client[d].server_id
               /\ node'[Target(d)] = "ended" /\ St(d)' = St(d)
               /\ Pc(d) = "killed" => Pc(d)' = "killed"
    BY <1>1, <2>1
  <2> QED BY <1>1, <1>2, <2>1, CauseStays
<1>3. ASSUME NEW c \in Clients, St(c)' # "none"
      PROVE  node'[Target(c)'] # "off" /\ (node'[Target(c)'] = "ended" => Cause(Target(c))')
  <2>1. /\ St(c) # "none" /\ Target(c)' = Target(c) /\ Target(c) \in Servers /\ node[Target(c)] # "off"
        /\ node[Target(c)] = "ended" => Cause(Target(c))
    BY <1>1, <1>3 DEF UpInv
  <2>2. CASE node[Target(c)] = "ended"
    <3>1. Cause(Target(c))'
      BY <1>2, <2>1, <2>2
    <3> QED BY <2>1, <3>1
  <2>3. CASE node[Target(c)] # "ended"
    BY <2>1, <2>3
  <2> QED BY <2>2, <2>3
<1>4. UpInv'
  BY <1>3 DEF UpInv
<1>5. FinishInv'
  BY <1>1 DEF FinishInv
<1> QED BY <1>4, <1>5

\* A lock that is left locked stays locked, and no entry is inserted under it.
LEMMA HeldKept ==
  ASSUME HeldInv, ShapeInv, PhaseInv, UNCHANGED conf, RequestsStay,
         \A s \in Servers : held[s] => held'[s],
         \A s \in Servers : \A o : Known(o, s) => Known(o, s)',
         \A s \in Servers : \A o : held[s] /\ ~Known(o, s) => ~Known(o, s)',
         \A d \in Clients : Method(d, "UPDATE")' =>
           /\ St(d)' \in {"changed", "asked", "stuck"} =>
                St(d) \in {"changed", "asked", "stuck"} \/ (St(d) # "none" /\ Known(Obj(d), Target(d)))
           /\ St(d)' = "missed" => \/ St(d) = "missed"
                                   \/ /\ St(d) # "none"
                                      /\ held'[Target(d)] /\ ~Known(Obj(d), Target(d))'
           /\ St(d)' = "stuck" => \/ St(d) = "stuck"
                                  \/ /\ St(d) # "none"
                                     /\ held'[starting_id(Obj(d))]
                                     /\ ~Known(Obj(d), starting_id(Obj(d)))'
  PROVE  HeldInv'
<1> SUFFICES ASSUME NEW c \in Clients, Method(c, "UPDATE")',
                    St(c)' \in {"changed", "asked", "stuck", "missed"}
             PROVE  /\ St(c)' \in {"changed", "asked", "stuck"} => Known(Obj(c), Target(c))'
                    /\ St(c)' = "missed" => held'[Target(c)'] /\ ~Known(Obj(c), Target(c))'
                    /\ St(c)' = "stuck" => /\ held'[starting_id(Obj(c))']
                                           /\ ~Known(Obj(c), starting_id(Obj(c)))'
  BY DEF HeldInv
<1>1. St(c) # "none"
  OBVIOUS
<1>2. client'[c].req = client[c].req /\ client'[c].server_id = client[c].server_id
  BY <1>1 DEF RequestsStay
<1>3. /\ Obj(c)' = Obj(c) /\ Target(c)' = Target(c) /\ Method(c, "UPDATE")
      /\ starting_id(Obj(c))' = starting_id(Obj(c))
  BY <1>2 DEF Obj, Target, Method, starting_id, target_server_location, run_mode, Value
<1>4. Target(c) \in Servers /\ Obj(c) # <<>> /\ Obj(c) \in Names
  BY <1>1, Types DEF PhaseInv
<1>5. starting_id(Obj(c)) \in Servers
  BY <1>4, Located DEF ShapeInv
<1>6. \A s : /\ Known(Obj(c), s) <=> Obj(c) \in DOMAIN table[s]
             /\ Known(Obj(c), s)' <=> Obj(c)' \in DOMAIN table'[s]
  BY DEF Known
<1>7. /\ Known(Obj(c), Target(c))' <=> Obj(c) \in DOMAIN table'[Target(c)]
      /\ Known(Obj(c), starting_id(Obj(c)))' <=> Obj(c) \in DOMAIN table'[starting_id(Obj(c))]
  BY <1>3 DEF Known
<1> QED BY <1>3, <1>4, <1>5, <1>6, <1>7 DEF HeldInv

\* An insertion adds at most this entry, and replaces none.
LEMMA Inserts ==
  ASSUME DOMAIN table = Servers, NEW s \in Servers, NEW o, NEW entry, table' = Inserted(s, o, entry)
  PROVE  /\ DOMAIN table' = Servers /\ o \in DOMAIN table'[s]
         /\ \A t \in Servers : \A x \in DOMAIN table[t] :
              x \in DOMAIN table'[t] /\ table'[t][x] = table[t][x]
         /\ \A t \in Servers : \A x \in DOMAIN table'[t] :
              x \in DOMAIN table[t] \/ (t = s /\ x = o /\ table'[t][x] = entry)
<1>1. CASE o \in DOMAIN table[s]
  <2>1. DOMAIN table' = Servers /\ \A t \in Servers : table'[t] = table[t]
    BY <1>1 DEF Inserted
  <2> QED BY <1>1, <2>1
<1>2. CASE o \notin DOMAIN table[s]
  <2>1. table' = [table EXCEPT ![s] = Put(table[s], o, entry)]
    BY <1>2 DEF Inserted
  <2>2. /\ DOMAIN table' = Servers /\ table'[s] = Put(table[s], o, entry)
        /\ \A t \in Servers : t # s => table'[t] = table[t]
    BY <2>1
  <2>3. /\ DOMAIN table'[s] = {o} \cup DOMAIN table[s] /\ table'[s][o] = entry
        /\ \A x \in DOMAIN table[s] : table'[s][x] = table[s][x]
    BY <1>2, <2>2 DEF Put
  <2> QED BY <2>2, <2>3
<1> QED BY <1>1, <1>2


-----------------------------------------------------------------------------
(* Every action keeps the invariant *)

\* The proxy that starts, or ends at once without threads, is the only thing that
\* changes (P/main.cpp 133-196).
LEMMA StartProxySafe ==
  ASSUME IInv, StartProxy
  PROVE  IInv'
<1>i. /\ ShapeInv /\ RequestInv /\ PhaseInv /\ TargetInv /\ CountInv /\ FileInv
      /\ FreshInv /\ PendInv /\ BlocksInv /\ RecordInv /\ HeldInv /\ UpInv
      /\ FinishInv /\ ProxyInv
  BY DEF IInv
<1>u. UNCHANGED <<conf, disk, client, conn, table, copy, held, pend>>
  BY DEF StartProxy, Constructed, io_services, thread_num, Value
<1>z. \A d \in Clients : St(d) # "none" => Target(d) \in Servers
  BY <1>i DEF PhaseInv
<1>s. /\ node' \in [Nodes -> {"off", "running", "stopped", "ended"}]
      /\ node[proxy] = "off" /\ \A s \in Servers : node'[s] = node[s]
  BY <1>i, Ids DEF ShapeInv, StartProxy, Constructed
<1>1. ShapeInv'
  BY <1>i, <1>u, <1>z, <1>s
     DEF ShapeInv, StartProxy, Constructed, io_services, thread_num, Value
<1>2. UpInv' /\ FinishInv'
  BY <1>i, <1>u, <1>z, <1>s, Ids, ServersEnd
<1>3. ProxyInv'
  <2>1. thread_num(proxy) \in Int
    BY <1>i, Ids, DeploymentsAssumption DEF ShapeInv, thread_num, Value
  <2>2. node'[proxy] = "ended" => io_services(proxy) = {}
    BY <1>i, Ids DEF StartProxy, Constructed, ShapeInv
  <2>3. io_services(proxy) = {} => thread_num(proxy) <= 0
    <3>1. thread_num(proxy) > 0 => 1 \in io_services(proxy)
      BY <2>1 DEF io_services
    <3> QED BY <2>1, <3>1
  <2> QED BY <1>u, <2>2, <2>3 DEF ProxyInv, thread_num, Value
<1>4. RequestInv' /\ PhaseInv' /\ TargetInv' /\ CountInv' /\ FileInv' /\ FreshInv' /\ PendInv' /\
     BlocksInv' /\ RecordInv' /\ HeldInv'
  BY <1>i, <1>u, RequestStays, PhaseStays, TargetStays, CountStays, FileStays, FreshStays,
     PendStays, BlocksStays, RecordStays, HeldStays
<1> QED
  BY <1>1, <1>2, <1>3, <1>4 DEF IInv

\* A server starts with the entries of its deployment, before anyone can ask it
\* (S/main.cpp 186-258).
LEMMA StartServerSafe ==
  ASSUME IInv, NEW s \in Servers, StartServer(s)
  PROVE  IInv'
<1>i. /\ ShapeInv /\ RequestInv /\ PhaseInv /\ TargetInv /\ CountInv /\ FileInv
      /\ FreshInv /\ PendInv /\ BlocksInv /\ RecordInv /\ HeldInv /\ UpInv
      /\ FinishInv /\ ProxyInv
  BY DEF IInv
<1>u. UNCHANGED <<conf, disk, client, conn, table, copy, held, pend>>
  BY DEF StartServer, Constructed, io_services
<1>z. \A d \in Clients : St(d) # "none" => Target(d) \in Servers
  BY <1>i DEF PhaseInv
<1>s. /\ node' \in [Nodes -> {"off", "running", "stopped", "ended"}]
      /\ node[s] = "off" /\ node'[s] # "off"
      /\ \A t \in Servers : t # s => node'[t] = node[t]
      /\ node'[proxy] = node[proxy]
  BY <1>i, Ids DEF ShapeInv, StartServer, Constructed
<1>1. ShapeInv'
  BY <1>i, <1>u, <1>z, <1>s DEF ShapeInv, StartServer, Constructed, io_services
<1>2. UpInv' /\ FinishInv'
  <2>1. \A c \in Clients : St(c) # "none" => Target(c) # s
    BY <1>i, <1>s DEF UpInv
  <2>2. \A c \in Clients : St(c) # "none" => node'[Target(c)] = node[Target(c)]
    BY <1>s, <1>z, <2>1
  <2> QED BY <1>i, <1>u, <1>s, <2>2, ServersEnd
<1>3. ProxyInv'
  BY <1>i, <1>u, <1>z, <1>s, AskedFor, ProxyKept DEF PostsStay, Pc, St, Method, Target
<1>4. RequestInv' /\ PhaseInv' /\ TargetInv' /\ CountInv' /\ FileInv' /\ FreshInv' /\ PendInv' /\
     BlocksInv' /\ RecordInv' /\ HeldInv'
  BY <1>i, <1>u, RequestStays, PhaseStays, TargetStays, CountStays, FileStays, FreshStays,
     PendStays, BlocksStays, RecordStays, HeldStays
<1> QED
  BY <1>1, <1>2, <1>3, <1>4 DEF IInv

\* A proxy that is told to stop locates no new request (P/io_service_pool.cpp 23-44).
LEMMA StopProxySafe ==
  ASSUME IInv, StopProxy
  PROVE  IInv'
<1>i. /\ ShapeInv /\ RequestInv /\ PhaseInv /\ TargetInv /\ CountInv /\ FileInv
      /\ FreshInv /\ PendInv /\ BlocksInv /\ RecordInv /\ HeldInv /\ UpInv
      /\ FinishInv /\ ProxyInv
  BY DEF IInv
<1>u. UNCHANGED <<conf, disk, client, conn, table, copy, held, pend>>
  BY DEF StopProxy, Running
<1>z. \A d \in Clients : St(d) # "none" => Target(d) \in Servers
  BY <1>i DEF PhaseInv
<1>s. /\ node' \in [Nodes -> {"off", "running", "stopped", "ended"}]
      /\ \A s \in Servers : node'[s] = node[s]
      /\ node'[proxy] = "stopped"
  BY <1>i, Ids DEF ShapeInv, StopProxy
<1>1. ShapeInv'
  BY <1>i, <1>u, <1>z, <1>s DEF ShapeInv, StopProxy, Running
<1>2. UpInv' /\ FinishInv'
  BY <1>i, <1>u, <1>z, <1>s, Ids, ServersEnd
<1>3. ProxyInv'
  BY <1>i, <1>u, <1>z, <1>s, AskedFor, ProxyKept DEF PostsStay, Pc, St, Method, Target
<1>4. RequestInv' /\ PhaseInv' /\ TargetInv' /\ CountInv' /\ FileInv' /\ FreshInv' /\ PendInv' /\
     BlocksInv' /\ RecordInv' /\ HeldInv'
  BY <1>i, <1>u, RequestStays, PhaseStays, TargetStays, CountStays, FileStays, FreshStays,
     PendStays, BlocksStays, RecordStays, HeldStays
<1> QED
  BY <1>1, <1>2, <1>3, <1>4 DEF IInv

\* A server that is told to stop no longer accepts; its entries stay as they are.
\* Nothing in the code calls for it: the user does.
LEMMA StopServerSafe ==
  ASSUME IInv, NEW s \in Servers, StopServer(s)
  PROVE  IInv'
<1>i. /\ ShapeInv /\ RequestInv /\ PhaseInv /\ TargetInv /\ CountInv /\ FileInv
      /\ FreshInv /\ PendInv /\ BlocksInv /\ RecordInv /\ HeldInv /\ UpInv
      /\ FinishInv /\ ProxyInv
  BY DEF IInv
<1>u. UNCHANGED <<conf, disk, client, conn, table, copy, held, pend>>
  BY DEF StopServer, Running
<1>z. \A d \in Clients : St(d) # "none" => Target(d) \in Servers
  BY <1>i DEF PhaseInv
<1>s. /\ node' \in [Nodes -> {"off", "running", "stopped", "ended"}]
      /\ node[s] = "running" /\ node'[s] = "stopped"
      /\ \A t \in Servers : t # s => node'[t] = node[t]
      /\ node'[proxy] = node[proxy]
  BY <1>i, Ids DEF ShapeInv, StopServer, Running
<1>1. ShapeInv'
  BY <1>i, <1>u, <1>z, <1>s DEF ShapeInv, StopServer, Running
<1>2. UpInv' /\ FinishInv'
  BY <1>i, <1>u, <1>z, <1>s, Ids, ServersEnd
<1>3. ProxyInv'
  BY <1>i, <1>u, <1>z, <1>s, AskedFor, ProxyKept DEF PostsStay, Pc, St, Method, Target
<1>4. RequestInv' /\ PhaseInv' /\ TargetInv' /\ CountInv' /\ FileInv' /\ FreshInv' /\ PendInv' /\
     BlocksInv' /\ RecordInv' /\ HeldInv'
  BY <1>i, <1>u, RequestStays, PhaseStays, TargetStays, CountStays, FileStays, FreshStays,
     PendStays, BlocksStays, RecordStays, HeldStays
<1> QED
  BY <1>1, <1>2, <1>3, <1>4 DEF IInv

\* A killed client does nothing more; its connection stays as it is. The user kills it.
LEMMA KillSafe ==
  ASSUME IInv, NEW c \in Clients, Kill(c)
  PROVE  IInv'
<1>i. /\ ShapeInv /\ RequestInv /\ PhaseInv /\ TargetInv /\ CountInv /\ FileInv
      /\ FreshInv /\ PendInv /\ BlocksInv /\ RecordInv /\ HeldInv /\ UpInv
      /\ FinishInv /\ ProxyInv
  BY DEF IInv
<1>u. UNCHANGED <<conf, disk, node, table, copy, held, pend>>
  BY DEF Kill
<1>c. /\ client' \in [Clients -> ClientRecords]
      /\ \A d \in Clients : d # c => client'[d] = client[d]
      /\ Pc(c) \in {"waiting", "acking"} /\ client'[c].pc = "killed"
      /\ client'[c].req = client[c].req /\ client'[c].server_id = client[c].server_id
      /\ client'[c].got = client[c].got /\ client'[c].report = client[c].report
      /\ client'[c].lost = client[c].lost
  BY <1>i DEF ShapeInv, ClientRecords, Pcs, Pc, Kill
<1>n. /\ conn' \in [Clients -> ConnRecords]
      /\ \A d \in Clients : d # c => conn'[d] = conn[d]
      /\ conn'[c].st = conn[c].st /\ conn'[c].count = conn[c].count /\ conn'[c].acks = conn[c].acks
      /\ conn'[c].count <= conn'[c].sent
      /\ St(c) # "ready" => conn'[c].sent = conn[c].sent
  <2>1. PICK n \in (IF conn[c].st = "ready" THEN conn[c].count..conn[c].sent ELSE {conn[c].sent}) :
           conn' = [conn EXCEPT ![c].sent = n]
    BY DEF Kill
  <2>2. conn[c] \in ConnRecords /\ conn \in [Clients -> ConnRecords] /\ conn[c].count <= conn[c].sent
    BY <1>i DEF ShapeInv, CountInv
  <2>3. n \in Nat /\ conn[c].count <= n /\ (conn[c].st # "ready" => n = conn[c].sent)
    BY <2>2 DEF ConnRecords
  <2> QED BY <2>1, <2>2, <2>3 DEF ConnRecords, St
<1>q. client[c].report = "none" /\ Pc(c) # "ended"
  BY <1>i, <1>c DEF PhaseInv, Pc
<1>k. RequestsStay
  BY <1>i, <1>u, <1>c, <1>n, <1>q DEF RequestsStay, St
<1>1. ShapeInv'
  BY <1>i, <1>u, <1>c, <1>n, <1>q DEF ShapeInv
<1>2. RequestInv'
  BY <1>i, <1>u, <1>c, <1>n, <1>q, RequestKept DEF Pc, St, Length
<1>3. PhaseInv'
  BY <1>i, <1>u, <1>c, <1>n, <1>q, Types, Ids DEF PhaseInv, Pc, St, Obj, Req, Method, Target
<1>4. TargetInv'
  BY <1>i, <1>u, <1>c, <1>n, <1>q, <1>k, AskedFor, TargetKept
     DEF PostsStay, Pc, St, Method, Target
<1>5. CountInv'
  BY <1>i, <1>u, <1>c, <1>n, <1>q, Types, Ids DEF CountInv, Pc, St, Obj, Req, Method, Target
<1>6. FileInv'
  BY <1>i, <1>u, <1>c, <1>n, <1>q, Types, Ids
     DEF FileInv, Pc, St, Obj, Req, Method, Target, Stored
<1>7. FreshInv'
  BY <1>i, <1>u, <1>c, <1>n, <1>q, <1>k, AskedFor, FreshKept
     DEF PostsStay, Pc, St, Method, Target
<1>8. PendInv'
  BY <1>i, <1>u, <1>c, <1>n, <1>q, <1>k, AskedFor, PendKept
     DEF PostsStay, Pc, St, Method, Target
<1>9. BlocksInv'
  BY <1>i, <1>u, <1>c, <1>n, <1>q, <1>k, AskedFor, BlocksKept
     DEF PostsStay, Pc, St, Method, Target
<1>10. RecordInv'
  BY <1>i, <1>u, <1>c, <1>n, <1>q, <1>k, AskedFor, RecordKept
     DEF PostsStay, Pc, St, Method, Target
<1>11. HeldInv'
  BY <1>i, <1>u, <1>c, <1>n, <1>q, <1>k, AskedFor, HeldKept
     DEF PostsStay, Pc, St, Method, Target, Known, Obj
<1>12. UpInv'
  BY <1>i, <1>u, <1>c, <1>n, <1>q, <1>k, AskedFor, UpKept DEF PostsStay, Pc, St, Method, Target
<1>13. FinishInv'
  BY <1>i, <1>u, <1>c, <1>n, <1>q, <1>k, AskedFor, FinishKept
     DEF PostsStay, Pc, St, Method, Target
<1>14. ProxyInv'
  BY <1>i, <1>u, <1>c, <1>n, <1>q, <1>k, AskedFor, ProxyKept
     DEF PostsStay, Pc, St, Method, Target
<1> QED
  BY <1>1, <1>2, <1>3, <1>4, <1>5, <1>6, <1>7, <1>8, <1>9, <1>10, <1>11, <1>12, <1>13, <1>14
     DEF IInv

\* A launch puts down a request that fits the client, in each of the three modes
\* (C/client.cpp 354-372).
LEMMA LaunchSafe ==
  ASSUME IInv, NEW c \in Clients, launch_client(c)
  PROVE  IInv'
<1>i. /\ ShapeInv /\ RequestInv /\ PhaseInv /\ TargetInv /\ CountInv /\ FileInv
      /\ FreshInv /\ PendInv /\ BlocksInv /\ RecordInv /\ HeldInv /\ UpInv
      /\ FinishInv /\ ProxyInv
  BY DEF IInv
<1>u. UNCHANGED <<conf, disk, node, conn, table, copy, held, pend>>
  BY DEF launch_client, LaunchGet, LaunchPost, LaunchUpdate
<1>q. Launched(c)
  BY Launches
<1>c. /\ client' \in [Clients -> ClientRecords]
      /\ \A d \in Clients : d # c => client'[d] = client[d]
      /\ client'[c].pc \in {"asking", "ended"} /\ Target(c)' = Target(c) /\ client'[c].got = client[c].got
      /\ client'[c].report = "finished" => client'[c].lost
      /\ client'[c].report # "post_done" /\ (client'[c].pc = "asking" => client'[c].report = "none")
  BY <1>q DEF Launched, Target
<1>n. /\ Req(c).method = Empty /\ Pc(c) = "new" /\ Target(c) = Absent /\ St(c) = "none"
      /\ client[c].report = "none" /\ client[c].got = 0 /\ conn[c].sent = 0 /\ conn[c].count = 0
      /\ Req(c)'.content_length \in Nat
  BY <1>q, <1>c, <1>i, Ids, Types DEF RequestInv, PhaseInv, CountInv, Launched, Method, Req, Pc, ClientRecords
<1>k. RequestsStay
  BY <1>i, <1>u, <1>c, <1>n DEF RequestsStay, St
<1>1. ShapeInv'
  BY <1>i, <1>u, <1>c, <1>n DEF ShapeInv
<1>2. RequestInv'
  <2>1. ASSUME NEW d \in Clients, d # c
        PROVE  /\ Req(d)' = Req(d) /\ Obj(d)' = Obj(d) /\ Pc(d)' = Pc(d) /\ Target(d)' = Target(d)
               /\ \A m : Method(d, m)' = Method(d, m)
    BY <1>c, <2>1 DEF Req, Obj, Pc, Target, Method
  <2>2. \A d \in Clients : Length(get_random_file_name(d))' = Length(get_random_file_name(d))
    BY <1>u DEF Length
  <2>3. Pc(c)' = client'[c].pc /\ Pc(c)' # "new"
    BY <1>c DEF Pc
  <2> QED BY <1>i, <1>q, <1>n, <1>c, <2>1, <2>2, <2>3 DEF RequestInv, Launched
<1>3. PhaseInv'
  <2>1. ASSUME NEW d \in Clients, d # c
        PROVE  /\ Obj(d)' = Obj(d) /\ Pc(d)' = Pc(d) /\ Target(d)' = Target(d) /\ St(d)' = St(d)
               /\ Req(d)' = Req(d) /\ \A m_1 : Method(d, m_1)' = Method(d, m_1)
               /\ client'[d] = client[d] /\ conn'[d] = conn[d]
    BY <1>u, <1>c, <2>1 DEF Obj, Req, Pc, Target, St, Method
  <2>2. /\ St(c)' = "none" /\ Target(c)' = Absent /\ Pc(c)' = client'[c].pc
    BY <1>u, <1>c, <1>n DEF Pc, St
  <2> QED BY <1>i, <1>c, <2>1, <2>2 DEF PhaseInv
<1>4. TargetInv'
  BY <1>i, <1>u, <1>c, <1>n, <1>k, TargetKept DEF PostsStay, Pc, St, Method, Target
<1>5. CountInv'
  <2>1. ASSUME NEW d \in Clients, d # c
        PROVE  /\ Obj(d)' = Obj(d) /\ Pc(d)' = Pc(d) /\ Target(d)' = Target(d) /\ St(d)' = St(d)
               /\ Req(d)' = Req(d) /\ \A m_1 : Method(d, m_1)' = Method(d, m_1)
               /\ client'[d] = client[d] /\ conn'[d] = conn[d]
    BY <1>u, <1>c, <2>1 DEF Obj, Req, Pc, Target, St, Method
  <2>2. /\ St(c)' = "none" /\ Pc(c)' = client'[c].pc /\ conn'[c].sent = 0 /\ conn'[c].count = 0
        /\ client'[c].got = 0
    BY <1>u, <1>c, <1>n DEF Pc, St
  <2>3. client'[c].req.content_length \in Nat /\ client'[c].req.content_length >= 0
    BY <1>c DEF ClientRecords
  <2> QED BY <1>i, <1>c, <2>1, <2>2, <2>3 DEF CountInv, Req
<1>6. FileInv'
  BY <1>i, <1>u, <1>c, <1>n, Types, Ids DEF FileInv, Pc, St, Obj, Req, Method, Target, Stored
<1>7. FreshInv'
  BY <1>i, <1>u, <1>c, <1>n, <1>k, FreshKept DEF PostsStay, Pc, St, Method, Target
<1>8. PendInv'
  BY <1>i, <1>u, <1>c, <1>n, <1>k, PendKept DEF PostsStay, Pc, St, Method, Target
<1>9. BlocksInv'
  BY <1>i, <1>u, <1>c, <1>n, <1>k, BlocksKept DEF PostsStay, Pc, St, Method, Target
<1>10. RecordInv'
  BY <1>i, <1>u, <1>c, <1>n, <1>k, RecordKept DEF PostsStay, Pc, St, Method, Target
<1>11. HeldInv'
  BY <1>i, <1>u, <1>c, <1>n, <1>k, HeldKept DEF PostsStay, Pc, St, Method, Target, Known, Obj
<1>12. UpInv'
  BY <1>i, <1>u, <1>c, <1>n, <1>k, UpKept DEF PostsStay, Pc, St, Method, Target
<1>13. FinishInv'
  BY <1>i, <1>u, <1>c, <1>n, <1>k, FinishKept DEF PostsStay, Pc, St, Method, Target
<1>14. ProxyInv'
  <2>1. ASSUME NEW d \in Clients, d # c
        PROVE  /\ Obj(d)' = Obj(d) /\ Pc(d)' = Pc(d) /\ Target(d)' = Target(d) /\ St(d)' = St(d)
               /\ Req(d)' = Req(d) /\ \A m_1 : Method(d, m_1)' = Method(d, m_1)
               /\ client'[d] = client[d] /\ conn'[d] = conn[d]
    BY <1>u, <1>c, <2>1 DEF Obj, Req, Pc, Target, St, Method
  <2>2. ~Method(c, "UPDATE")
    BY <1>n, Unset DEF Method, Req
  <2>3. thread_num(proxy)' = thread_num(proxy)
    BY <1>u DEF thread_num, Value
  <2> QED BY <1>i, <1>u, <2>1, <2>2, <2>3 DEF ProxyInv
<1> QED
  BY <1>1, <1>2, <1>3, <1>4, <1>5, <1>6, <1>7, <1>8, <1>9, <1>10, <1>11, <1>12, <1>13, <1>14
     DEF IInv

\* The proxy names the server of the object or of the block, or ends (P/connection.cpp
\* 47-143).
LEMMA ProxyReadSafe ==
  ASSUME IInv, NEW c \in Clients, ProxyRead(c)
  PROVE  IInv'
<1>i. /\ ShapeInv /\ RequestInv /\ PhaseInv /\ TargetInv /\ CountInv /\ FileInv
      /\ FreshInv /\ PendInv /\ BlocksInv /\ RecordInv /\ HeldInv /\ UpInv
      /\ FinishInv /\ ProxyInv
  BY DEF IInv
<1>u. UNCHANGED <<conf, disk, conn, table, copy, held, pend>>
  BY DEF ProxyRead
<1>z. \A d \in Clients : St(d) # "none" => Target(d) \in Servers
  BY <1>i DEF PhaseInv
<1> DEFINE server == ServerFor(simple_parse(header_to_buffers(client[c].req)))
<1>a. /\ Running(proxy) /\ Pc(c) = "asking" /\ Target(c) = Absent /\ St(c) = "none" /\ Obj(c) # <<>>
      /\ node' = IF server = Absent THEN [node EXCEPT ![proxy] = "ended"] ELSE node
      /\ client' = [client EXCEPT ![c].server_id = server]
  BY <1>i, Ids DEF ProxyRead, RequestInv, PhaseInv, Pc
<1>b. /\ server \in Servers \cup {Absent}
      /\ ~Method(c, "UPDATE") => server = starting_id(Obj(c)) /\ server \in Servers
      /\ server = Absent => Method(c, "UPDATE") /\ Req(c).content_length < K
  BY <1>i, <1>a, ServerNamed DEF ShapeInv
<1>t. client \in [Clients -> ClientRecords] /\ client[c] \in ClientRecords
  BY <1>i DEF ShapeInv
<1>c. /\ client' \in [Clients -> ClientRecords]
      /\ \A d \in Clients : d # c => client'[d] = client[d]
      /\ client'[c].pc = client[c].pc /\ client'[c].req = client[c].req /\ client'[c].server_id = server
      /\ client'[c].got = client[c].got /\ client'[c].report = client[c].report
      /\ client'[c].lost = client[c].lost
  BY <1>t, <1>a, <1>b DEF ClientRecords
<1>d. /\ \A s \in Servers : node'[s] = node[s]
      /\ node' \in [Nodes -> {"off", "running", "stopped", "ended"}]
      /\ node'[proxy] = "ended" => node[proxy] = "ended" \/ server = Absent
  BY <1>i, <1>a, Ids DEF ShapeInv
<1> HIDE DEF server
<1>k. RequestsStay
  BY <1>i, <1>u, <1>z, <1>a, <1>b, <1>c, <1>d DEF RequestsStay, St
<1>1. ShapeInv'
  BY <1>i, <1>u, <1>z, <1>a, <1>b, <1>c, <1>d DEF ShapeInv, ProxyRead
<1>2. RequestInv'
  <2>1. ASSUME NEW d \in Clients
        PROVE  /\ Req(d)' = Req(d) /\ Obj(d)' = Obj(d) /\ Pc(d)' = Pc(d)
               /\ \A m : Method(d, m)' = Method(d, m)
               /\ Target(d)' = Target(d) \/ (d = c /\ Pc(d) # "new" /\ Obj(d) # <<>>)
    BY <1>a, <1>c DEF Req, Obj, Pc, Target, Method
  <2>2. \A d \in Clients : Length(get_random_file_name(d))' = Length(get_random_file_name(d))
    BY <1>u DEF Length
  <2> QED BY <1>i, <2>1, <2>2 DEF RequestInv
<1>3. PhaseInv'
  BY <1>i, <1>u, <1>z, <1>a, <1>b, <1>c, <1>d, Types, Ids
     DEF PhaseInv, Pc, St, Obj, Req, Method, Target
<1>4. TargetInv'
  <2>1. ASSUME NEW d \in Clients
        PROVE  /\ Obj(d)' = Obj(d) /\ Method(d, "UPDATE")' = Method(d, "UPDATE")
               /\ starting_id(Obj(d))' = starting_id(Obj(d))
               /\ Target(d)' = IF d = c THEN server ELSE Target(d)
    BY <1>u, <1>c DEF Obj, Method, Target, starting_id, target_server_location, run_mode, Value
  <2> QED BY <1>i, <1>b, <2>1 DEF TargetInv
<1>5. CountInv'
  BY <1>i, <1>u, <1>z, <1>a, <1>b, <1>c, <1>d, Types, Ids
     DEF CountInv, Pc, St, Obj, Req, Method, Target
<1>6. FileInv'
  BY <1>i, <1>u, <1>z, <1>a, <1>b, <1>c, <1>d, Types, Ids
     DEF FileInv, Pc, St, Obj, Req, Method, Target, Stored
<1>7. FreshInv'
  BY <1>i, <1>u, <1>z, <1>a, <1>b, <1>c, <1>d, <1>k, FreshKept
     DEF PostsStay, Pc, St, Method, Target
<1>8. PendInv'
  BY <1>i, <1>u, <1>z, <1>a, <1>b, <1>c, <1>d, <1>k, PendKept
     DEF PostsStay, Pc, St, Method, Target
<1>9. BlocksInv'
  BY <1>i, <1>u, <1>z, <1>a, <1>b, <1>c, <1>d, <1>k, BlocksKept
     DEF PostsStay, Pc, St, Method, Target
<1>10. RecordInv'
  BY <1>i, <1>u, <1>z, <1>a, <1>b, <1>c, <1>d, <1>k, RecordKept
     DEF PostsStay, Pc, St, Method, Target
<1>11. HeldInv'
  BY <1>i, <1>u, <1>z, <1>a, <1>b, <1>c, <1>d, <1>k, HeldKept
     DEF PostsStay, Pc, St, Method, Target, Known, Obj
<1>12. UpInv'
  BY <1>i, <1>u, <1>z, <1>a, <1>b, <1>c, <1>d, Types, Ids
     DEF UpInv, Pc, St, Obj, Req, Method, Target, Cause
<1>13. FinishInv'
  BY <1>i, <1>u, <1>z, <1>a, <1>b, <1>c, <1>d, Types, Ids
     DEF FinishInv, Pc, St, Obj, Req, Method, Target
<1>14. ProxyInv'
  <2>1. /\ thread_num(proxy)' = thread_num(proxy)
        /\ \A d \in Clients : Req(d)' = Req(d) /\ Method(d, "UPDATE")' = Method(d, "UPDATE")
    BY <1>u, <1>c DEF thread_num, Value, Req, Method
  <2> QED BY <1>i, <1>b, <1>d, <2>1 DEF ProxyInv
<1> QED
  BY <1>1, <1>2, <1>3, <1>4, <1>5, <1>6, <1>7, <1>8, <1>9, <1>10, <1>11, <1>12, <1>13, <1>14
     DEF IInv

\* A GET takes what has been sent so far (C/client.cpp 76-106).
LEMMA GetReceiveSafe ==
  ASSUME IInv, NEW c \in Clients, GetReceive(c)
  PROVE  IInv'
<1>i. /\ ShapeInv /\ RequestInv /\ PhaseInv /\ TargetInv /\ CountInv /\ FileInv
      /\ FreshInv /\ PendInv /\ BlocksInv /\ RecordInv /\ HeldInv /\ UpInv
      /\ FinishInv /\ ProxyInv
  BY DEF IInv
<1>u. UNCHANGED <<conf, disk, node, conn, table, copy, held, pend>>
  BY DEF GetReceive
<1>q. /\ client[c].report = "none" /\ Pc(c) = "waiting" /\ Method(c, "GET")
      /\ St(c) \in {"sending", "done"}
  BY <1>i DEF PhaseInv, GetReceive, Pc, St
<1>t. client \in [Clients -> ClientRecords] /\ client[c] \in ClientRecords
  BY <1>i DEF ShapeInv
<1>c. /\ client' \in [Clients -> ClientRecords]
      /\ \A d \in Clients : d # c => client'[d] = client[d]
      /\ client'[c].pc = client[c].pc
      /\ client'[c].req = client[c].req
      /\ client'[c].server_id = client[c].server_id
      /\ client'[c].report = client[c].report
      /\ client'[c].lost = client[c].lost
  BY <1>t DEF ClientRecords, Pcs, Reports, GetReceive
<1>k. RequestsStay
  BY <1>i, <1>u, <1>q, <1>c DEF RequestsStay, St
<1>1. ShapeInv'
  BY <1>i, <1>u, <1>q, <1>c DEF ShapeInv
<1>2. RequestInv'
  BY <1>i, <1>u, <1>q, <1>c, RequestKept DEF Pc, St, Length
<1>3. PhaseInv'
  BY <1>i, <1>u, <1>q, <1>c, Types, Ids DEF PhaseInv, Pc, St, Obj, Req, Method, Target
<1>4. TargetInv'
  BY <1>i, <1>u, <1>q, <1>c, <1>k, AskedFor, TargetKept DEF PostsStay, Pc, St, Method, Target
<1>5. CountInv'
  BY <1>i, <1>u, <1>q, <1>c, Types, Ids DEF CountInv, Pc, St, Obj, Req, Method, Target
<1>6. FileInv'
  BY <1>i, <1>u, <1>q, <1>c, Types, Ids DEF FileInv, Pc, St, Obj, Req, Method, Target, Stored
<1>7. FreshInv'
  BY <1>i, <1>u, <1>q, <1>c, <1>k, AskedFor, FreshKept DEF PostsStay, Pc, St, Method, Target
<1>8. PendInv'
  BY <1>i, <1>u, <1>q, <1>c, <1>k, AskedFor, PendKept DEF PostsStay, Pc, St, Method, Target
<1>9. BlocksInv'
  BY <1>i, <1>u, <1>q, <1>c, <1>k, AskedFor, BlocksKept DEF PostsStay, Pc, St, Method, Target
<1>10. RecordInv'
  BY <1>i, <1>u, <1>q, <1>c, <1>k, AskedFor, RecordKept DEF PostsStay, Pc, St, Method, Target
<1>11. HeldInv'
  BY <1>i, <1>u, <1>q, <1>c, <1>k, AskedFor, HeldKept
     DEF PostsStay, Pc, St, Method, Target, Known, Obj
<1>12. UpInv'
  BY <1>i, <1>u, <1>q, <1>c, <1>k, AskedFor, UpKept DEF PostsStay, Pc, St, Method, Target
<1>13. FinishInv'
  BY <1>i, <1>u, <1>q, <1>c, <1>k, AskedFor, FinishKept DEF PostsStay, Pc, St, Method, Target
<1>14. ProxyInv'
  BY <1>i, <1>u, <1>q, <1>c, <1>k, AskedFor, ProxyKept DEF PostsStay, Pc, St, Method, Target
<1> QED
  BY <1>1, <1>2, <1>3, <1>4, <1>5, <1>6, <1>7, <1>8, <1>9, <1>10, <1>11, <1>12, <1>13, <1>14
     DEF IInv

\* A GET is done when all bytes have been sent (S/connection.cpp 907-939).
LEMMA GetSentSafe ==
  ASSUME IInv, NEW c \in Clients, GetSent(c)
  PROVE  IInv'
<1>i. /\ ShapeInv /\ RequestInv /\ PhaseInv /\ TargetInv /\ CountInv /\ FileInv
      /\ FreshInv /\ PendInv /\ BlocksInv /\ RecordInv /\ HeldInv /\ UpInv
      /\ FinishInv /\ ProxyInv
  BY DEF IInv
<1>u. UNCHANGED <<conf, disk, node, client, table, copy, held, pend>>
  BY DEF GetSent, At, Running
<1>m. Method(c, "GET") /\ St(c) = "sending" /\ node[Target(c)] = "running"
  BY <1>i, AskedFor DEF GetSent, At, St, Running
<1>r. conn \in [Clients -> ConnRecords] /\ conn[c] \in ConnRecords
  BY <1>i DEF ShapeInv
<1>n. /\ conn' \in [Clients -> ConnRecords]
      /\ \A d \in Clients : d # c => conn'[d] = conn[d]
      /\ conn'[c].st = "done"
      /\ conn'[c].count = conn[c].count
      /\ conn'[c].sent = conn[c].sent
      /\ conn'[c].acks = conn[c].acks
  BY <1>r DEF ConnRecords, Sts, GetSent, At, Running
<1>k. RequestsStay
  BY <1>i, <1>u, <1>m, <1>n DEF RequestsStay, St
<1>1. ShapeInv'
  BY <1>i, <1>u, <1>m, <1>n DEF ShapeInv
<1>2. PhaseInv'
  BY <1>i, <1>u, <1>m, <1>n, Types, Ids DEF PhaseInv, Pc, St, Obj, Req, Method, Target
<1>3. CountInv'
  BY <1>i, <1>u, <1>m, <1>n, Types, Ids DEF CountInv, Pc, St, Obj, Req, Method, Target
<1>4. FileInv'
  BY <1>i, <1>u, <1>m, <1>n, Types, Ids DEF FileInv, Pc, St, Obj, Req, Method, Target, Stored
<1>5. FreshInv'
  BY <1>i, <1>u, <1>m, <1>n, <1>k, FreshKept DEF PostsStay, Pc, St, Method, Target
<1>6. PendInv'
  BY <1>i, <1>u, <1>m, <1>n, <1>k, PendKept DEF PostsStay, Pc, St, Method, Target
<1>7. BlocksInv'
  BY <1>i, <1>u, <1>m, <1>n, <1>k, BlocksKept DEF PostsStay, Pc, St, Method, Target
<1>8. RecordInv'
  BY <1>i, <1>u, <1>m, <1>n, <1>k, RecordKept DEF PostsStay, Pc, St, Method, Target
<1>9. HeldInv'
  BY <1>i, <1>u, <1>m, <1>n, <1>k, HeldKept DEF PostsStay, Pc, St, Method, Target, Known, Obj
<1>10. UpInv'
  BY <1>i, <1>u, <1>m, <1>n, <1>k, UpKept DEF PostsStay, Pc, St, Method, Target
<1>11. FinishInv'
  BY <1>i, <1>u, <1>m, <1>n, <1>k, FinishKept DEF PostsStay, Pc, St, Method, Target
<1>12. RequestInv' /\ TargetInv' /\ ProxyInv'
  BY <1>i, <1>u, RequestStays, TargetStays, ProxyStays
<1> QED
  BY <1>1, <1>2, <1>3, <1>4, <1>5, <1>6, <1>7, <1>8, <1>9, <1>10, <1>11, <1>12 DEF IInv

\* An update is sent with the request that the client has made (C/client.cpp 180-197).
LEMMA SendUpdateSafe ==
  ASSUME IInv, NEW c \in Clients, SendUpdate(c)
  PROVE  IInv'
<1>i. /\ ShapeInv /\ RequestInv /\ PhaseInv /\ TargetInv /\ CountInv /\ FileInv
      /\ FreshInv /\ PendInv /\ BlocksInv /\ RecordInv /\ HeldInv /\ UpInv
      /\ FinishInv /\ ProxyInv
  BY DEF IInv
<1>u. UNCHANGED <<conf, disk, node, table, copy, held, pend>>
  BY DEF SendUpdate
<1>m. Method(c, "UPDATE") /\ St(c) = "ready" /\ Pc(c) = "waiting"
  BY DEF SendUpdate, St, Pc
<1>q. client[c].report = "none" /\ Pc(c) # "ended"
  BY <1>i, <1>m DEF PhaseInv
<1>t. client \in [Clients -> ClientRecords] /\ client[c] \in ClientRecords
  BY <1>i DEF ShapeInv
<1>c. /\ client' \in [Clients -> ClientRecords]
      /\ \A d \in Clients : d # c => client'[d] = client[d]
      /\ client'[c].pc = "acking"
      /\ client'[c].req = client[c].req
      /\ client'[c].server_id = client[c].server_id
      /\ client'[c].got = client[c].got
      /\ client'[c].report = client[c].report
      /\ client'[c].lost = client[c].lost
  BY <1>t DEF ClientRecords, Pcs, Reports, SendUpdate
<1>r. conn \in [Clients -> ConnRecords] /\ conn[c] \in ConnRecords
  BY <1>i DEF ShapeInv
<1>n. /\ conn' \in [Clients -> ConnRecords]
      /\ \A d \in Clients : d # c => conn'[d] = conn[d]
      /\ conn'[c].st = conn[c].st
      /\ conn'[c].count = conn[c].count
      /\ conn'[c].sent = 1
      /\ conn'[c].acks = conn[c].acks
  BY <1>r DEF ConnRecords, Sts, SendUpdate
<1>k. RequestsStay
  BY <1>i, <1>u, <1>m, <1>q, <1>c, <1>n DEF RequestsStay, St
<1>1. ShapeInv'
  BY <1>i, <1>u, <1>m, <1>q, <1>c, <1>n DEF ShapeInv
<1>2. RequestInv'
  BY <1>i, <1>u, <1>m, <1>q, <1>c, <1>n, RequestKept DEF Pc, St, Length
<1>3. PhaseInv'
  BY <1>i, <1>u, <1>m, <1>q, <1>c, <1>n, Types, Ids
     DEF PhaseInv, Pc, St, Obj, Req, Method, Target
<1>4. TargetInv'
  BY <1>i, <1>u, <1>m, <1>q, <1>c, <1>n, <1>k, TargetKept DEF PostsStay, Pc, St, Method, Target
<1>5. CountInv'
  BY <1>i, <1>u, <1>m, <1>q, <1>c, <1>n, Types, Ids
     DEF CountInv, Pc, St, Obj, Req, Method, Target
<1>6. FileInv'
  BY <1>i, <1>u, <1>m, <1>q, <1>c, <1>n, Types, Ids
     DEF FileInv, Pc, St, Obj, Req, Method, Target, Stored
<1>7. FreshInv'
  BY <1>i, <1>u, <1>m, <1>q, <1>c, <1>n, <1>k, FreshKept DEF PostsStay, Pc, St, Method, Target
<1>8. PendInv'
  BY <1>i, <1>u, <1>m, <1>q, <1>c, <1>n, <1>k, PendKept DEF PostsStay, Pc, St, Method, Target
<1>9. BlocksInv'
  BY <1>i, <1>u, <1>m, <1>q, <1>c, <1>n, <1>k, BlocksKept DEF PostsStay, Pc, St, Method, Target
<1>10. RecordInv'
  BY <1>i, <1>u, <1>m, <1>q, <1>c, <1>n, <1>k, RecordKept DEF PostsStay, Pc, St, Method, Target
<1>11. HeldInv'
  BY <1>i, <1>u, <1>m, <1>q, <1>c, <1>n, <1>k, HeldKept
     DEF PostsStay, Pc, St, Method, Target, Known, Obj
<1>12. UpInv'
  BY <1>i, <1>u, <1>m, <1>q, <1>c, <1>n, <1>k, UpKept DEF PostsStay, Pc, St, Method, Target
<1>13. FinishInv'
  BY <1>i, <1>u, <1>m, <1>q, <1>c, <1>n, <1>k, FinishKept DEF PostsStay, Pc, St, Method, Target
<1>14. ProxyInv'
  BY <1>i, <1>u, <1>m, <1>q, <1>c, <1>n, <1>k, ProxyKept DEF PostsStay, Pc, St, Method, Target
<1> QED
  BY <1>1, <1>2, <1>3, <1>4, <1>5, <1>6, <1>7, <1>8, <1>9, <1>10, <1>11, <1>12, <1>13, <1>14
     DEF IInv

\* A POST sends its whole file (C/client.cpp 276-316).
LEMMA SendFileSafe ==
  ASSUME IInv, NEW c \in Clients, SendFile(c)
  PROVE  IInv'
<1>i. /\ ShapeInv /\ RequestInv /\ PhaseInv /\ TargetInv /\ CountInv /\ FileInv
      /\ FreshInv /\ PendInv /\ BlocksInv /\ RecordInv /\ HeldInv /\ UpInv
      /\ FinishInv /\ ProxyInv
  BY DEF IInv
<1>u. UNCHANGED <<conf, node, table, copy, held, pend>>
  BY DEF SendFile
<1>m. /\ Method(c, "POST") /\ St(c) = "ready" /\ Pc(c) = "waiting" /\ Obj(c) # <<>>
      /\ Length(get_random_file_name(c)) \in Nat
      /\ Req(c).content_length = Length(get_random_file_name(c))
  BY <1>i, Lengths DEF SendFile, St, Pc, PhaseInv, RequestInv
<1>l. /\ DOMAIN disk' = DOMAIN disk /\ \A name \in DOMAIN disk' : disk'[name] \in Nat \cup {Absent}
      /\ \A d \in Clients : Length(get_random_file_name(d))' = Length(get_random_file_name(d))
  <2>1. disk' = [disk EXCEPT ![get_random_file_name(c)] = Length(get_random_file_name(c))]
    BY DEF SendFile
  <2>2. Length(get_random_file_name(c)) # Absent
    BY <1>m DEF Absent
  <2>3. \A d \in Clients : get_random_file_name(d) \in DOMAIN disk
    BY <1>i, Lengths
  <2>4. DOMAIN disk' = DOMAIN disk /\ \A name \in DOMAIN disk' : disk'[name] \in Nat \cup {Absent}
    BY <1>i, <1>m, <2>1 DEF ShapeInv
  <2> QED BY <1>i, <2>1, <2>2, <2>3, <2>4 DEF Length, request
<1>q. client[c].report = "none" /\ Pc(c) # "ended"
  BY <1>i, <1>m DEF PhaseInv
<1>t. client \in [Clients -> ClientRecords] /\ client[c] \in ClientRecords
  BY <1>i DEF ShapeInv
<1>c. /\ client' \in [Clients -> ClientRecords]
      /\ \A d \in Clients : d # c => client'[d] = client[d]
      /\ client'[c].pc = "acking"
      /\ client'[c].req = client[c].req
      /\ client'[c].server_id = client[c].server_id
      /\ client'[c].got = client[c].got
      /\ client'[c].report = client[c].report
      /\ client'[c].lost = client[c].lost
  BY <1>t DEF ClientRecords, Pcs, Reports, SendFile
<1>r. conn \in [Clients -> ConnRecords] /\ conn[c] \in ConnRecords
  BY <1>i DEF ShapeInv
<1>n. /\ conn' \in [Clients -> ConnRecords]
      /\ \A d \in Clients : d # c => conn'[d] = conn[d]
      /\ conn'[c].st = conn[c].st
      /\ conn'[c].count = conn[c].count
      /\ conn'[c].sent = Length(get_random_file_name(c))
      /\ conn'[c].acks = conn[c].acks
  BY <1>r, <1>m DEF ConnRecords, Sts, SendFile
<1>k. RequestsStay
  BY <1>i, <1>u, <1>m, <1>l, <1>q, <1>c, <1>n DEF RequestsStay, St
<1>1. ShapeInv'
  BY <1>i, <1>u, <1>m, <1>l, <1>q, <1>c, <1>n DEF ShapeInv, SendFile
<1>2. RequestInv'
  BY <1>i, <1>u, <1>m, <1>l, <1>q, <1>c, <1>n, RequestKept DEF Pc, St
<1>3. PhaseInv'
  BY <1>i, <1>u, <1>m, <1>l, <1>q, <1>c, <1>n, Types, Ids
     DEF PhaseInv, Pc, St, Obj, Req, Method, Target
<1>4. TargetInv'
  BY <1>i, <1>u, <1>m, <1>l, <1>q, <1>c, <1>n, <1>k, TargetKept
     DEF PostsStay, Pc, St, Method, Target
<1>5. CountInv'
  BY <1>i, <1>u, <1>m, <1>l, <1>q, <1>c, <1>n, Types, Ids
     DEF CountInv, Pc, St, Obj, Req, Method, Target
<1>6. FileInv'
  BY <1>i, <1>u, <1>m, <1>l, <1>q, <1>c, <1>n, Types, Ids
     DEF FileInv, Pc, St, Obj, Req, Method, Target, Stored
<1>7. FreshInv'
  BY <1>i, <1>u, <1>m, <1>l, <1>q, <1>c, <1>n, <1>k, FreshKept
     DEF PostsStay, Pc, St, Method, Target
<1>8. PendInv'
  BY <1>i, <1>u, <1>m, <1>l, <1>q, <1>c, <1>n, <1>k, PendKept
     DEF PostsStay, Pc, St, Method, Target
<1>9. BlocksInv'
  BY <1>i, <1>u, <1>m, <1>l, <1>q, <1>c, <1>n, <1>k, BlocksKept
     DEF PostsStay, Pc, St, Method, Target
<1>10. RecordInv'
  BY <1>i, <1>u, <1>m, <1>l, <1>q, <1>c, <1>n, <1>k, RecordKept
     DEF PostsStay, Pc, St, Method, Target
<1>11. HeldInv'
  BY <1>i, <1>u, <1>m, <1>l, <1>q, <1>c, <1>n, <1>k, HeldKept
     DEF PostsStay, Pc, St, Method, Target, Known, Obj
<1>12. UpInv'
  BY <1>i, <1>u, <1>m, <1>l, <1>q, <1>c, <1>n, <1>k, UpKept
     DEF PostsStay, Pc, St, Method, Target
<1>13. FinishInv'
  BY <1>i, <1>u, <1>m, <1>l, <1>q, <1>c, <1>n, <1>k, FinishKept
     DEF PostsStay, Pc, St, Method, Target
<1>14. ProxyInv'
  BY <1>i, <1>u, <1>m, <1>l, <1>q, <1>c, <1>n, <1>k, ProxyKept
     DEF PostsStay, Pc, St, Method, Target
<1> QED
  BY <1>1, <1>2, <1>3, <1>4, <1>5, <1>6, <1>7, <1>8, <1>9, <1>10, <1>11, <1>12, <1>13, <1>14
     DEF IInv

\* A client that has an address reaches the server while it is up (C/client.cpp 63-74).
LEMMA ConnectedSafe ==
  ASSUME IInv,
         NEW c \in Clients, NEW m \in Methods, Connect(c, m), Running(Target(c))
  PROVE  IInv'
<1>i. /\ ShapeInv /\ RequestInv /\ PhaseInv /\ TargetInv /\ CountInv /\ FileInv
      /\ FreshInv /\ PendInv /\ BlocksInv /\ RecordInv /\ HeldInv /\ UpInv
      /\ FinishInv /\ ProxyInv
  BY DEF IInv
<1>u. UNCHANGED <<conf, disk, node, table, copy, held, pend>>
  BY DEF Connect, Running
<1>m. /\ Method(c, m) /\ Pc(c) = "asking" /\ Target(c) \in Servers /\ node[Target(c)] = "running"
      /\ St(c) = "none" /\ Obj(c) # <<>> /\ m # Empty
  BY <1>i, Types DEF Connect, Pc, Running, PhaseInv, RequestInv, Method
<1>q. /\ client[c].report = "none" /\ conn[c].sent = 0 /\ conn[c].count = 0 /\ client[c].got = 0
      /\ Req(c).content_length \in Nat
  <2>1. conn[c].count \in Nat /\ Req(c).content_length \in Nat
    BY <1>i, Types
  <2>2. conn[c].sent = 0 /\ client[c].got = 0 /\ conn[c].count <= conn[c].sent
    BY <1>i, <1>m DEF CountInv
  <2>3. client[c].report = "none"
    BY <1>i, <1>m DEF PhaseInv
  <2> QED BY <2>1, <2>2, <2>3
<1>t. client \in [Clients -> ClientRecords] /\ client[c] \in ClientRecords
  BY <1>i DEF ShapeInv
<1>c. /\ client' \in [Clients -> ClientRecords]
      /\ \A d \in Clients : d # c => client'[d] = client[d]
      /\ client'[c].pc = "waiting"
      /\ client'[c].req = client[c].req
      /\ client'[c].server_id = client[c].server_id
      /\ client'[c].got = client[c].got
      /\ client'[c].report = client[c].report
      /\ client'[c].lost = client[c].lost
  BY <1>t DEF ClientRecords, Pcs, Reports, Connect, Running
<1>r. conn \in [Clients -> ConnRecords] /\ conn[c] \in ConnRecords
  BY <1>i DEF ShapeInv
<1>n. /\ conn' \in [Clients -> ConnRecords]
      /\ \A d \in Clients : d # c => conn'[d] = conn[d]
      /\ conn'[c].st = "header"
      /\ conn'[c].count = conn[c].count
      /\ conn'[c].sent = conn[c].sent
      /\ conn'[c].acks = conn[c].acks
  BY <1>r DEF ConnRecords, Sts, Connect, Running
<1>k. RequestsStay
  BY <1>i, <1>u, <1>m, <1>q, <1>c, <1>n DEF RequestsStay, St
<1>1. ShapeInv'
  BY <1>i, <1>u, <1>m, <1>q, <1>c, <1>n DEF ShapeInv
<1>2. RequestInv'
  BY <1>i, <1>u, <1>m, <1>q, <1>c, <1>n, RequestKept DEF Pc, St, Length
<1>3. PhaseInv'
  <2>1. ASSUME NEW d \in Clients, d # c
        PROVE  /\ Obj(d)' = Obj(d) /\ Pc(d)' = Pc(d) /\ Target(d)' = Target(d) /\ St(d)' = St(d)
               /\ Req(d)' = Req(d) /\ \A m_1 : Method(d, m_1)' = Method(d, m_1)
               /\ client'[d] = client[d] /\ conn'[d] = conn[d]
    BY <1>u, <1>c, <1>n, <2>1 DEF Obj, Req, Pc, Target, St, Method
  <2>2. /\ St(c)' = "header" /\ Target(c)' = Target(c) /\ Pc(c)' = "waiting" /\ Obj(c)' = Obj(c)
        /\ client'[c].report = "none"
    BY <1>u, <1>c, <1>n, <1>q DEF Pc, St, Target, Obj
  <2> QED BY <1>i, <1>m, <2>1, <2>2 DEF PhaseInv
<1>4. TargetInv'
  BY <1>i, <1>u, <1>m, <1>q, <1>c, <1>n, <1>k, TargetKept DEF PostsStay, Pc, St, Method, Target
<1>5. CountInv'
  BY <1>i, <1>u, <1>m, <1>q, <1>c, <1>n, Types, Ids
     DEF CountInv, Pc, St, Obj, Req, Method, Target
<1>6. FileInv'
  BY <1>i, <1>u, <1>m, <1>q, <1>c, <1>n, Types, Ids
     DEF FileInv, Pc, St, Obj, Req, Method, Target, Stored
<1>7. FreshInv'
  BY <1>i, <1>u, <1>m, <1>q, <1>c, <1>n, <1>k, FreshKept DEF PostsStay, Pc, St, Method, Target
<1>8. PendInv'
  BY <1>i, <1>u, <1>m, <1>q, <1>c, <1>n, <1>k, PendKept DEF PostsStay, Pc, St, Method, Target
<1>9. BlocksInv'
  BY <1>i, <1>u, <1>m, <1>q, <1>c, <1>n, <1>k, BlocksKept DEF PostsStay, Pc, St, Method, Target
<1>10. RecordInv'
  BY <1>i, <1>u, <1>m, <1>q, <1>c, <1>n, <1>k, RecordKept DEF PostsStay, Pc, St, Method, Target
<1>11. HeldInv'
  BY <1>i, <1>u, <1>m, <1>q, <1>c, <1>n, <1>k, HeldKept
     DEF PostsStay, Pc, St, Method, Target, Known, Obj
<1>12. UpInv'
  BY <1>i, <1>u, <1>m, <1>q, <1>c, <1>n, <1>k, UpKept DEF PostsStay, Pc, St, Method, Target
<1>13. FinishInv'
  BY <1>i, <1>u, <1>m, <1>q, <1>c, <1>n, <1>k, FinishKept DEF PostsStay, Pc, St, Method, Target
<1>14. ProxyInv'
  BY <1>i, <1>u, <1>m, <1>q, <1>c, <1>n, <1>k, ProxyKept DEF PostsStay, Pc, St, Method, Target
<1> QED
  BY <1>1, <1>2, <1>3, <1>4, <1>5, <1>6, <1>7, <1>8, <1>9, <1>10, <1>11, <1>12, <1>13, <1>14
     DEF IInv

\* A client that cannot connect reports that and asks nothing of the server
\* (C/client.cpp 63-74).
LEMMA ConnectFailsSafe ==
  ASSUME IInv,
         NEW c \in Clients, NEW m \in Methods, Connect(c, m), ~Running(Target(c))
  PROVE  IInv'
<1>i. /\ ShapeInv /\ RequestInv /\ PhaseInv /\ TargetInv /\ CountInv /\ FileInv
      /\ FreshInv /\ PendInv /\ BlocksInv /\ RecordInv /\ HeldInv /\ UpInv
      /\ FinishInv /\ ProxyInv
  BY DEF IInv
<1>u. UNCHANGED <<conf, disk, node, conn, table, copy, held, pend>>
  BY DEF Connect
<1>m. Method(c, m) /\ Pc(c) = "asking" /\ client' = [client EXCEPT ![c] = Exception(c, m)]
  BY DEF Connect, Pc
<1>c. /\ client' \in [Clients -> ClientRecords]
      /\ \A d \in Clients : d # c => client'[d] = client[d]
      /\ client'[c].pc = "ended" /\ client'[c].lost /\ client'[c].report \in {"finished", "exception"}
      /\ client'[c].req = client[c].req /\ client'[c].server_id = client[c].server_id
      /\ client'[c].got = client[c].got
  BY <1>i, <1>m, Exceptions DEF ShapeInv, Method, Req
<1>k. RequestsStay
  BY <1>i, <1>u, <1>m, <1>c DEF RequestsStay, St
<1>1. ShapeInv'
  BY <1>i, <1>u, <1>m, <1>c DEF ShapeInv
<1>2. RequestInv'
  BY <1>i, <1>u, <1>m, <1>c, RequestKept DEF Pc, St, Length
<1>3. PhaseInv'
  BY <1>i, <1>u, <1>m, <1>c, Types, Ids DEF PhaseInv, Pc, St, Obj, Req, Method, Target
<1>4. TargetInv'
  BY <1>i, <1>u, <1>m, <1>c, <1>k, TargetKept DEF PostsStay, Pc, St, Method, Target
<1>5. CountInv'
  BY <1>i, <1>u, <1>m, <1>c, Types, Ids DEF CountInv, Pc, St, Obj, Req, Method, Target
<1>6. FileInv'
  BY <1>i, <1>u, <1>m, <1>c, Types, Ids DEF FileInv, Pc, St, Obj, Req, Method, Target, Stored
<1>7. FreshInv'
  BY <1>i, <1>u, <1>m, <1>c, <1>k, FreshKept DEF PostsStay, Pc, St, Method, Target
<1>8. PendInv'
  BY <1>i, <1>u, <1>m, <1>c, <1>k, PendKept DEF PostsStay, Pc, St, Method, Target
<1>9. BlocksInv'
  BY <1>i, <1>u, <1>m, <1>c, <1>k, BlocksKept DEF PostsStay, Pc, St, Method, Target
<1>10. RecordInv'
  BY <1>i, <1>u, <1>m, <1>c, <1>k, RecordKept DEF PostsStay, Pc, St, Method, Target
<1>11. HeldInv'
  BY <1>i, <1>u, <1>m, <1>c, <1>k, HeldKept DEF PostsStay, Pc, St, Method, Target, Known, Obj
<1>12. UpInv'
  BY <1>i, <1>u, <1>m, <1>c, <1>k, UpKept DEF PostsStay, Pc, St, Method, Target
<1>13. FinishInv'
  BY <1>i, <1>u, <1>m, <1>c, <1>k, FinishKept DEF PostsStay, Pc, St, Method, Target
<1>14. ProxyInv'
  BY <1>i, <1>u, <1>m, <1>c, <1>k, ProxyKept DEF PostsStay, Pc, St, Method, Target
<1> QED
  BY <1>1, <1>2, <1>3, <1>4, <1>5, <1>6, <1>7, <1>8, <1>9, <1>10, <1>11, <1>12, <1>13, <1>14
     DEF IInv

\* A client whose proxy has ended asks nobody else (C/client.cpp 222-229).
LEMMA ProxyLostSafe ==
  ASSUME IInv, NEW c \in Clients, ProxyLost(c)
  PROVE  IInv'
<1>i. /\ ShapeInv /\ RequestInv /\ PhaseInv /\ TargetInv /\ CountInv /\ FileInv
      /\ FreshInv /\ PendInv /\ BlocksInv /\ RecordInv /\ HeldInv /\ UpInv
      /\ FinishInv /\ ProxyInv
  BY DEF IInv
<1>u. UNCHANGED <<conf, disk, node, conn, table, copy, held, pend>>
  BY DEF ProxyLost
<1>m. /\ Req(c).method \in Methods /\ Pc(c) = "asking"
      /\ client' = [client EXCEPT ![c] = Exception(c, Req(c).method)]
  BY <1>i, Types DEF ProxyLost, Pc, Req
<1>c. /\ client' \in [Clients -> ClientRecords]
      /\ \A d \in Clients : d # c => client'[d] = client[d]
      /\ client'[c].pc = "ended" /\ client'[c].lost /\ client'[c].report \in {"finished", "exception"}
      /\ client'[c].req = client[c].req /\ client'[c].server_id = client[c].server_id
      /\ client'[c].got = client[c].got
  BY <1>i, <1>m, Exceptions DEF ShapeInv, Method, Req
<1>k. RequestsStay
  BY <1>i, <1>u, <1>m, <1>c DEF RequestsStay, St
<1>1. ShapeInv'
  BY <1>i, <1>u, <1>m, <1>c DEF ShapeInv
<1>2. RequestInv'
  BY <1>i, <1>u, <1>m, <1>c, RequestKept DEF Pc, St, Length
<1>3. PhaseInv'
  BY <1>i, <1>u, <1>m, <1>c, Types, Ids DEF PhaseInv, Pc, St, Obj, Req, Method, Target
<1>4. TargetInv'
  BY <1>i, <1>u, <1>m, <1>c, <1>k, TargetKept DEF PostsStay, Pc, St, Method, Target
<1>5. CountInv'
  BY <1>i, <1>u, <1>m, <1>c, Types, Ids DEF CountInv, Pc, St, Obj, Req, Method, Target
<1>6. FileInv'
  BY <1>i, <1>u, <1>m, <1>c, Types, Ids DEF FileInv, Pc, St, Obj, Req, Method, Target, Stored
<1>7. FreshInv'
  BY <1>i, <1>u, <1>m, <1>c, <1>k, FreshKept DEF PostsStay, Pc, St, Method, Target
<1>8. PendInv'
  BY <1>i, <1>u, <1>m, <1>c, <1>k, PendKept DEF PostsStay, Pc, St, Method, Target
<1>9. BlocksInv'
  BY <1>i, <1>u, <1>m, <1>c, <1>k, BlocksKept DEF PostsStay, Pc, St, Method, Target
<1>10. RecordInv'
  BY <1>i, <1>u, <1>m, <1>c, <1>k, RecordKept DEF PostsStay, Pc, St, Method, Target
<1>11. HeldInv'
  BY <1>i, <1>u, <1>m, <1>c, <1>k, HeldKept DEF PostsStay, Pc, St, Method, Target, Known, Obj
<1>12. UpInv'
  BY <1>i, <1>u, <1>m, <1>c, <1>k, UpKept DEF PostsStay, Pc, St, Method, Target
<1>13. FinishInv'
  BY <1>i, <1>u, <1>m, <1>c, <1>k, FinishKept DEF PostsStay, Pc, St, Method, Target
<1>14. ProxyInv'
  BY <1>i, <1>u, <1>m, <1>c, <1>k, ProxyKept DEF PostsStay, Pc, St, Method, Target
<1> QED
  BY <1>1, <1>2, <1>3, <1>4, <1>5, <1>6, <1>7, <1>8, <1>9, <1>10, <1>11, <1>12, <1>13, <1>14
     DEF IInv

\* A client is told that its request is done by the server that did it (C/client.cpp
\* 319-341).
LEMMA AckDoneSafe ==
  ASSUME IInv,
         NEW c \in Clients, NEW m \in Methods, NEW done \in Reports, Ack(c, m, done), conn[c].st = "done",
         m # "GET", done = "post_done" => m = "POST"
  PROVE  IInv'
<1>i. /\ ShapeInv /\ RequestInv /\ PhaseInv /\ TargetInv /\ CountInv /\ FileInv
      /\ FreshInv /\ PendInv /\ BlocksInv /\ RecordInv /\ HeldInv /\ UpInv
      /\ FinishInv /\ ProxyInv
  BY DEF IInv
<1>u. UNCHANGED <<conf, disk, node, conn, table, copy, held, pend>>
  BY DEF Ack
<1>m. Method(c, m) /\ Pc(c) \in {"waiting", "acking"} /\ St(c) = "done"
  BY DEF Ack, Pc, St
<1>q. client[c].report = "none" /\ Pc(c) # "ended"
  BY <1>i, <1>m DEF PhaseInv
<1>t. client \in [Clients -> ClientRecords] /\ client[c] \in ClientRecords
  BY <1>i DEF ShapeInv
<1>c. /\ client' \in [Clients -> ClientRecords]
      /\ \A d \in Clients : d # c => client'[d] = client[d]
      /\ client'[c].pc = "ended"
      /\ client'[c].req = client[c].req
      /\ client'[c].server_id = client[c].server_id
      /\ client'[c].got = client[c].got
      /\ client'[c].report = done
      /\ client'[c].lost = client[c].lost
  BY <1>t DEF ClientRecords, Pcs, Reports, Ack
<1>k. RequestsStay
  BY <1>i, <1>u, <1>m, <1>q, <1>c DEF RequestsStay, St
<1>1. ShapeInv'
  BY <1>i, <1>u, <1>m, <1>q, <1>c DEF ShapeInv
<1>2. RequestInv'
  BY <1>i, <1>u, <1>m, <1>q, <1>c, RequestKept DEF Pc, St, Length
<1>3. PhaseInv'
  BY <1>i, <1>u, <1>m, <1>q, <1>c, Types, Ids DEF PhaseInv, Pc, St, Obj, Req, Method, Target
<1>4. TargetInv'
  BY <1>i, <1>u, <1>m, <1>q, <1>c, <1>k, TargetKept DEF PostsStay, Pc, St, Method, Target
<1>5. CountInv'
  BY <1>i, <1>u, <1>m, <1>q, <1>c, Types, Ids DEF CountInv, Pc, St, Obj, Req, Method, Target
<1>6. FileInv'
  BY <1>i, <1>u, <1>m, <1>q, <1>c, Types, Ids
     DEF FileInv, Pc, St, Obj, Req, Method, Target, Stored
<1>7. FreshInv'
  BY <1>i, <1>u, <1>m, <1>q, <1>c, <1>k, FreshKept DEF PostsStay, Pc, St, Method, Target
<1>8. PendInv'
  BY <1>i, <1>u, <1>m, <1>q, <1>c, <1>k, PendKept DEF PostsStay, Pc, St, Method, Target
<1>9. BlocksInv'
  BY <1>i, <1>u, <1>m, <1>q, <1>c, <1>k, BlocksKept DEF PostsStay, Pc, St, Method, Target
<1>10. RecordInv'
  BY <1>i, <1>u, <1>m, <1>q, <1>c, <1>k, RecordKept DEF PostsStay, Pc, St, Method, Target
<1>11. HeldInv'
  BY <1>i, <1>u, <1>m, <1>q, <1>c, <1>k, HeldKept
     DEF PostsStay, Pc, St, Method, Target, Known, Obj
<1>12. UpInv'
  BY <1>i, <1>u, <1>m, <1>q, <1>c, <1>k, UpKept DEF PostsStay, Pc, St, Method, Target
<1>13. FinishInv'
  BY <1>i, <1>u, <1>m, <1>q, <1>c, <1>k, FinishKept DEF PostsStay, Pc, St, Method, Target
<1>14. ProxyInv'
  BY <1>i, <1>u, <1>m, <1>q, <1>c, <1>k, ProxyKept DEF PostsStay, Pc, St, Method, Target
<1> QED
  BY <1>1, <1>2, <1>3, <1>4, <1>5, <1>6, <1>7, <1>8, <1>9, <1>10, <1>11, <1>12, <1>13, <1>14
     DEF IInv

\* A client that is told nothing reports that instead (C/client.cpp 319-341).
LEMMA AckFailsSafe ==
  ASSUME IInv,
         NEW c \in Clients, NEW m \in Methods, NEW done, Ack(c, m, done), conn[c].st # "done"
  PROVE  IInv'
<1>i. /\ ShapeInv /\ RequestInv /\ PhaseInv /\ TargetInv /\ CountInv /\ FileInv
      /\ FreshInv /\ PendInv /\ BlocksInv /\ RecordInv /\ HeldInv /\ UpInv
      /\ FinishInv /\ ProxyInv
  BY DEF IInv
<1>u. UNCHANGED <<conf, disk, node, conn, table, copy, held, pend>>
  BY DEF Ack
<1>m. /\ Method(c, m) /\ Pc(c) \in {"waiting", "acking"}
      /\ client' = [client EXCEPT ![c] = Exception(c, m)]
  BY DEF Ack, Pc
<1>c. /\ client' \in [Clients -> ClientRecords]
      /\ \A d \in Clients : d # c => client'[d] = client[d]
      /\ client'[c].pc = "ended" /\ client'[c].lost /\ client'[c].report \in {"finished", "exception"}
      /\ client'[c].req = client[c].req /\ client'[c].server_id = client[c].server_id
      /\ client'[c].got = client[c].got
  BY <1>i, <1>m, Exceptions DEF ShapeInv, Method, Req
<1>k. RequestsStay
  BY <1>i, <1>u, <1>m, <1>c DEF RequestsStay, St
<1>1. ShapeInv'
  BY <1>i, <1>u, <1>m, <1>c DEF ShapeInv
<1>2. RequestInv'
  BY <1>i, <1>u, <1>m, <1>c, RequestKept DEF Pc, St, Length
<1>3. PhaseInv'
  BY <1>i, <1>u, <1>m, <1>c, Types, Ids DEF PhaseInv, Pc, St, Obj, Req, Method, Target
<1>4. TargetInv'
  BY <1>i, <1>u, <1>m, <1>c, <1>k, TargetKept DEF PostsStay, Pc, St, Method, Target
<1>5. CountInv'
  BY <1>i, <1>u, <1>m, <1>c, Types, Ids DEF CountInv, Pc, St, Obj, Req, Method, Target
<1>6. FileInv'
  BY <1>i, <1>u, <1>m, <1>c, Types, Ids DEF FileInv, Pc, St, Obj, Req, Method, Target, Stored
<1>7. FreshInv'
  BY <1>i, <1>u, <1>m, <1>c, <1>k, FreshKept DEF PostsStay, Pc, St, Method, Target
<1>8. PendInv'
  BY <1>i, <1>u, <1>m, <1>c, <1>k, PendKept DEF PostsStay, Pc, St, Method, Target
<1>9. BlocksInv'
  BY <1>i, <1>u, <1>m, <1>c, <1>k, BlocksKept DEF PostsStay, Pc, St, Method, Target
<1>10. RecordInv'
  BY <1>i, <1>u, <1>m, <1>c, <1>k, RecordKept DEF PostsStay, Pc, St, Method, Target
<1>11. HeldInv'
  BY <1>i, <1>u, <1>m, <1>c, <1>k, HeldKept DEF PostsStay, Pc, St, Method, Target, Known, Obj
<1>12. UpInv'
  BY <1>i, <1>u, <1>m, <1>c, <1>k, UpKept DEF PostsStay, Pc, St, Method, Target
<1>13. FinishInv'
  BY <1>i, <1>u, <1>m, <1>c, <1>k, FinishKept DEF PostsStay, Pc, St, Method, Target
<1>14. ProxyInv'
  BY <1>i, <1>u, <1>m, <1>c, <1>k, ProxyKept DEF PostsStay, Pc, St, Method, Target
<1> QED
  BY <1>1, <1>2, <1>3, <1>4, <1>5, <1>6, <1>7, <1>8, <1>9, <1>10, <1>11, <1>12, <1>13, <1>14
     DEF IInv

\* A GET leaves its loop with all bytes, or with a server that has ended (C/client.cpp
\* 92-117).
LEMMA GetEndsSafe ==
  ASSUME IInv, NEW c \in Clients, GetEnds(c)
  PROVE  IInv'
<1>i. /\ ShapeInv /\ RequestInv /\ PhaseInv /\ TargetInv /\ CountInv /\ FileInv
      /\ FreshInv /\ PendInv /\ BlocksInv /\ RecordInv /\ HeldInv /\ UpInv
      /\ FinishInv /\ ProxyInv
  BY DEF IInv
<1>u. UNCHANGED <<conf, disk, node, conn, table, copy, held, pend>>
  BY DEF GetEnds
<1>m. /\ Method(c, "GET") /\ Pc(c) = "waiting" /\ Closed(c)
      /\ St(c) = "done" => conn[c].sent - client[c].got = 0
  BY DEF GetEnds, Pc, St, Arrived
<1>q. /\ client[c].report = "none" /\ Pc(c) = "waiting"
      /\ client[c].got > 0 => St(c) \in {"sending", "done"}
      /\ client[c].got \in Nat /\ conn[c].sent \in Nat
      /\ St(c) \in {"missed", "done"} \/ node[Target(c)] \in {"stopped", "ended"}
  <2>1. /\ client[c].got \in Nat /\ conn[c].sent \in Nat
    BY <1>i, Types
  <2>2. St(c) # "none" /\ Target(c) \in Servers
    BY <1>i, <1>m DEF PhaseInv
  <2>3. node[Target(c)] \in {"running", "stopped", "ended"}
    BY <1>i, <2>2, Ids DEF UpInv, ShapeInv
  <2> QED BY <1>i, <1>m, <2>1, <2>2, <2>3 DEF PhaseInv, CountInv, Closed, Running, St
<1>t. client \in [Clients -> ClientRecords] /\ client[c] \in ClientRecords
  BY <1>i DEF ShapeInv
<1>c. /\ client' \in [Clients -> ClientRecords]
      /\ \A d \in Clients : d # c => client'[d] = client[d]
      /\ client'[c].pc = "ended"
      /\ client'[c].req = client[c].req
      /\ client'[c].server_id = client[c].server_id
      /\ client'[c].got = client[c].got
      /\ (IF client[c].report = "none" /\ client[c].got > 0 THEN client'[c].report = "finished" ELSE client'[c].report = client[c].report)
      /\ client'[c].lost = client[c].lost
  BY <1>t DEF ClientRecords, Pcs, Reports, GetEnds
<1>k. RequestsStay
  BY <1>i, <1>u, <1>m, <1>q, <1>c DEF RequestsStay, St
<1>1. ShapeInv'
  BY <1>i, <1>u, <1>m, <1>q, <1>c DEF ShapeInv
<1>2. RequestInv'
  BY <1>i, <1>u, <1>m, <1>q, <1>c, RequestKept DEF Pc, St, Length
<1>3. PhaseInv'
  BY <1>i, <1>u, <1>m, <1>q, <1>c, Types, Ids DEF PhaseInv, Pc, St, Obj, Req, Method, Target
<1>4. TargetInv'
  BY <1>i, <1>u, <1>m, <1>q, <1>c, <1>k, TargetKept DEF PostsStay, Pc, St, Method, Target
<1>5. CountInv'
  BY <1>i, <1>u, <1>m, <1>q, <1>c, Types, Ids DEF CountInv, Pc, St, Obj, Req, Method, Target
<1>6. FileInv'
  BY <1>i, <1>u, <1>m, <1>q, <1>c, Types, Ids
     DEF FileInv, Pc, St, Obj, Req, Method, Target, Stored
<1>7. FreshInv'
  BY <1>i, <1>u, <1>m, <1>q, <1>c, <1>k, FreshKept DEF PostsStay, Pc, St, Method, Target
<1>8. PendInv'
  BY <1>i, <1>u, <1>m, <1>q, <1>c, <1>k, PendKept DEF PostsStay, Pc, St, Method, Target
<1>9. BlocksInv'
  BY <1>i, <1>u, <1>m, <1>q, <1>c, <1>k, BlocksKept DEF PostsStay, Pc, St, Method, Target
<1>10. RecordInv'
  BY <1>i, <1>u, <1>m, <1>q, <1>c, <1>k, RecordKept DEF PostsStay, Pc, St, Method, Target
<1>11. HeldInv'
  BY <1>i, <1>u, <1>m, <1>q, <1>c, <1>k, HeldKept
     DEF PostsStay, Pc, St, Method, Target, Known, Obj
<1>12. UpInv'
  BY <1>i, <1>u, <1>m, <1>q, <1>c, <1>k, UpKept DEF PostsStay, Pc, St, Method, Target
<1>13. FinishInv'
  <2>1. ASSUME NEW d \in Clients, d # c
        PROVE  /\ Obj(d)' = Obj(d) /\ Pc(d)' = Pc(d) /\ Target(d)' = Target(d) /\ St(d)' = St(d)
               /\ Req(d)' = Req(d) /\ \A m_1 : Method(d, m_1)' = Method(d, m_1)
               /\ client'[d] = client[d] /\ conn'[d] = conn[d]
    BY <1>u, <1>c, <2>1 DEF Obj, Req, Pc, Target, St, Method
  <2>2. /\ Pc(c)' = "ended" /\ Target(c)' = Target(c) /\ St(c)' = St(c)
        /\ client'[c].report = "finished" => client[c].got > 0
    BY <1>u, <1>c, <1>q DEF Pc, St, Target
  <2>3. client[c].got > 0 => \/ St(c) = "done" /\ client[c].got = conn[c].sent
                             \/ node[Target(c)] \in {"stopped", "ended"}
    BY <1>m, <1>q
  <2> QED BY <1>i, <1>u, <1>c, <1>q, <2>1, <2>2, <2>3 DEF FinishInv
<1>14. ProxyInv'
  BY <1>i, <1>u, <1>m, <1>q, <1>c, <1>k, ProxyKept DEF PostsStay, Pc, St, Method, Target
<1> QED
  BY <1>1, <1>2, <1>3, <1>4, <1>5, <1>6, <1>7, <1>8, <1>9, <1>10, <1>11, <1>12, <1>13, <1>14
     DEF IInv

\* A GET is sent the whole file, at its length (S/connection.cpp 69-115).
LEMMA GetFoundSafe ==
  ASSUME IInv, NEW c \in Clients, GetRequest(c), Known(Object(c), Target(c))
  PROVE  IInv'
<1>i. /\ ShapeInv /\ RequestInv /\ PhaseInv /\ TargetInv /\ CountInv /\ FileInv
      /\ FreshInv /\ PendInv /\ BlocksInv /\ RecordInv /\ HeldInv /\ UpInv
      /\ FinishInv /\ ProxyInv
  BY DEF IInv
<1>u. UNCHANGED <<conf, disk, node, client, table, copy, held, pend>>
  BY DEF GetRequest, At, Running
<1>m. /\ Method(c, "GET") /\ St(c) = "header" /\ Target(c) \in Servers /\ node[Target(c)] = "running"
      /\ Obj(c) # <<>> /\ Obj(c) \in DOMAIN copy[Target(c)] /\ copy[Target(c)][Obj(c)] \in Nat
      /\ conn' = [conn EXCEPT ![c].st = "sending", ![c].sent = copy[Target(c)][Obj(c)]]
  BY <1>i, Objects DEF GetRequest, At, St, Running, PhaseInv, ShapeInv, Known
<1>r. conn \in [Clients -> ConnRecords] /\ conn[c] \in ConnRecords
  BY <1>i DEF ShapeInv
<1>n. /\ conn' \in [Clients -> ConnRecords]
      /\ \A d \in Clients : d # c => conn'[d] = conn[d]
      /\ conn'[c].st = "sending"
      /\ conn'[c].count = conn[c].count
      /\ conn'[c].sent = copy[Target(c)][Obj(c)]
      /\ conn'[c].acks = conn[c].acks
  BY <1>r, <1>m DEF ConnRecords, Sts, GetRequest, At, Running
<1>k. RequestsStay
  BY <1>i, <1>u, <1>m, <1>n DEF RequestsStay, St
<1>1. ShapeInv'
  BY <1>i, <1>u, <1>m, <1>n DEF ShapeInv
<1>2. PhaseInv'
  BY <1>i, <1>u, <1>m, <1>n, Types, Ids DEF PhaseInv, Pc, St, Obj, Req, Method, Target
<1>3. CountInv'
  BY <1>i, <1>u, <1>m, <1>n, Types, Ids DEF CountInv, Pc, St, Obj, Req, Method, Target
<1>4. FileInv'
  BY <1>i, <1>u, <1>m, <1>n, Types, Ids DEF FileInv, Pc, St, Obj, Req, Method, Target, Stored
<1>5. FreshInv'
  BY <1>i, <1>u, <1>m, <1>n, <1>k, FreshKept DEF PostsStay, Pc, St, Method, Target
<1>6. PendInv'
  BY <1>i, <1>u, <1>m, <1>n, <1>k, PendKept DEF PostsStay, Pc, St, Method, Target
<1>7. BlocksInv'
  BY <1>i, <1>u, <1>m, <1>n, <1>k, BlocksKept DEF PostsStay, Pc, St, Method, Target
<1>8. RecordInv'
  BY <1>i, <1>u, <1>m, <1>n, <1>k, RecordKept DEF PostsStay, Pc, St, Method, Target
<1>9. HeldInv'
  BY <1>i, <1>u, <1>m, <1>n, <1>k, HeldKept DEF PostsStay, Pc, St, Method, Target, Known, Obj
<1>10. UpInv'
  BY <1>i, <1>u, <1>m, <1>n, <1>k, UpKept DEF PostsStay, Pc, St, Method, Target
<1>11. FinishInv'
  BY <1>i, <1>u, <1>m, <1>n, <1>k, FinishKept DEF PostsStay, Pc, St, Method, Target
<1>12. RequestInv' /\ TargetInv' /\ ProxyInv'
  BY <1>i, <1>u, RequestStays, TargetStays, ProxyStays
<1> QED
  BY <1>1, <1>2, <1>3, <1>4, <1>5, <1>6, <1>7, <1>8, <1>9, <1>10, <1>11, <1>12 DEF IInv

\* A GET of an unknown object leaves its server's table locked (S/connection.cpp 69-115).
LEMMA GetMissedSafe ==
  ASSUME IInv, NEW c \in Clients, GetRequest(c), ~Known(Object(c), Target(c))
  PROVE  IInv'
<1>i. /\ ShapeInv /\ RequestInv /\ PhaseInv /\ TargetInv /\ CountInv /\ FileInv
      /\ FreshInv /\ PendInv /\ BlocksInv /\ RecordInv /\ HeldInv /\ UpInv
      /\ FinishInv /\ ProxyInv
  BY DEF IInv
<1>u. UNCHANGED <<conf, disk, node, client, table, copy, pend>>
  BY DEF GetRequest, At, Running, Miss
<1>m. /\ Method(c, "GET") /\ St(c) = "header" /\ Target(c) \in Servers /\ node[Target(c)] = "running"
      /\ Obj(c) # <<>>
  BY <1>i, AskedFor, Objects DEF GetRequest, At, St, Running, PhaseInv
<1>h. /\ held' = [held EXCEPT ![Target(c)] = TRUE] /\ held' \in [Servers -> BOOLEAN]
      /\ \A s \in Servers : held[s] => held'[s]
  BY <1>i, <1>m DEF GetRequest, Miss, ShapeInv
<1>r. conn \in [Clients -> ConnRecords] /\ conn[c] \in ConnRecords
  BY <1>i DEF ShapeInv
<1>n. /\ conn' \in [Clients -> ConnRecords]
      /\ \A d \in Clients : d # c => conn'[d] = conn[d]
      /\ conn'[c].st = "missed"
      /\ conn'[c].count = conn[c].count
      /\ conn'[c].sent = conn[c].sent
      /\ conn'[c].acks = conn[c].acks
  BY <1>r DEF ConnRecords, Sts, GetRequest, At, Running, Miss
<1>k. RequestsStay
  BY <1>i, <1>u, <1>m, <1>h, <1>n DEF RequestsStay, St
<1>1. ShapeInv'
  BY <1>i, <1>u, <1>m, <1>h, <1>n DEF ShapeInv, GetRequest, At, Running, Miss
<1>2. PhaseInv'
  BY <1>i, <1>u, <1>m, <1>h, <1>n, Types, Ids DEF PhaseInv, Pc, St, Obj, Req, Method, Target
<1>3. CountInv'
  BY <1>i, <1>u, <1>m, <1>h, <1>n, Types, Ids DEF CountInv, Pc, St, Obj, Req, Method, Target
<1>4. FileInv'
  BY <1>i, <1>u, <1>m, <1>h, <1>n, Types, Ids
     DEF FileInv, Pc, St, Obj, Req, Method, Target, Stored
<1>5. FreshInv'
  BY <1>i, <1>u, <1>m, <1>h, <1>n, <1>k, FreshKept DEF PostsStay, Pc, St, Method, Target
<1>6. PendInv'
  BY <1>i, <1>u, <1>m, <1>h, <1>n, <1>k, PendKept DEF PostsStay, Pc, St, Method, Target
<1>7. BlocksInv'
  BY <1>i, <1>u, <1>m, <1>h, <1>n, <1>k, BlocksKept DEF PostsStay, Pc, St, Method, Target
<1>8. RecordInv'
  BY <1>i, <1>u, <1>m, <1>h, <1>n, <1>k, RecordKept DEF PostsStay, Pc, St, Method, Target
<1>9. HeldInv'
  BY <1>i, <1>u, <1>m, <1>h, <1>n, <1>k, HeldKept
     DEF PostsStay, Pc, St, Method, Target, Known, Obj
<1>10. UpInv'
  BY <1>i, <1>u, <1>m, <1>h, <1>n, <1>k, UpKept DEF PostsStay, Pc, St, Method, Target
<1>11. FinishInv'
  BY <1>i, <1>u, <1>m, <1>h, <1>n, <1>k, FinishKept DEF PostsStay, Pc, St, Method, Target
<1>12. RequestInv' /\ TargetInv' /\ ProxyInv'
  BY <1>i, <1>u, RequestStays, TargetStays, ProxyStays
<1> QED
  BY <1>1, <1>2, <1>3, <1>4, <1>5, <1>6, <1>7, <1>8, <1>9, <1>10, <1>11, <1>12 DEF IInv

\* An update changes its block (S/connection.cpp 137-157).
LEMMA UpdateFoundSafe ==
  ASSUME IInv, NEW c \in Clients, UpdateContent(c), Known(Object(c), Target(c))
  PROVE  IInv'
<1>i. /\ ShapeInv /\ RequestInv /\ PhaseInv /\ TargetInv /\ CountInv /\ FileInv
      /\ FreshInv /\ PendInv /\ BlocksInv /\ RecordInv /\ HeldInv /\ UpInv
      /\ FinishInv /\ ProxyInv
  BY DEF IInv
<1>u. UNCHANGED <<conf, disk, node, client, table, copy, held, pend>>
  BY DEF UpdateContent, At, Running
<1>m. /\ Method(c, "UPDATE") /\ St(c) = "ready" /\ Target(c) \in Servers /\ node[Target(c)] = "running"
      /\ Obj(c) # <<>> /\ Known(Obj(c), Target(c))
  BY <1>i, AskedFor, Objects DEF UpdateContent, At, St, Running, PhaseInv
<1>r. conn \in [Clients -> ConnRecords] /\ conn[c] \in ConnRecords
  BY <1>i DEF ShapeInv
<1>n. /\ conn' \in [Clients -> ConnRecords]
      /\ \A d \in Clients : d # c => conn'[d] = conn[d]
      /\ conn'[c].st = "changed"
      /\ conn'[c].count = conn[c].count
      /\ conn'[c].sent = conn[c].sent
      /\ conn'[c].acks = conn[c].acks
  BY <1>r DEF ConnRecords, Sts, UpdateContent, At, Running
<1>k. RequestsStay
  BY <1>i, <1>u, <1>m, <1>n DEF RequestsStay, St
<1>1. ShapeInv'
  BY <1>i, <1>u, <1>m, <1>n DEF ShapeInv
<1>2. PhaseInv'
  BY <1>i, <1>u, <1>m, <1>n, Types, Ids DEF PhaseInv, Pc, St, Obj, Req, Method, Target
<1>3. CountInv'
  BY <1>i, <1>u, <1>m, <1>n, Types, Ids DEF CountInv, Pc, St, Obj, Req, Method, Target
<1>4. FileInv'
  BY <1>i, <1>u, <1>m, <1>n, Types, Ids DEF FileInv, Pc, St, Obj, Req, Method, Target, Stored
<1>5. FreshInv'
  BY <1>i, <1>u, <1>m, <1>n, <1>k, FreshKept DEF PostsStay, Pc, St, Method, Target
<1>6. PendInv'
  BY <1>i, <1>u, <1>m, <1>n, <1>k, PendKept DEF PostsStay, Pc, St, Method, Target
<1>7. BlocksInv'
  BY <1>i, <1>u, <1>m, <1>n, <1>k, BlocksKept DEF PostsStay, Pc, St, Method, Target
<1>8. RecordInv'
  BY <1>i, <1>u, <1>m, <1>n, <1>k, RecordKept DEF PostsStay, Pc, St, Method, Target
<1>9. HeldInv'
  BY <1>i, <1>u, <1>m, <1>n, <1>k, HeldKept DEF PostsStay, Pc, St, Method, Target, Known, Obj
<1>10. UpInv'
  BY <1>i, <1>u, <1>m, <1>n, <1>k, UpKept DEF PostsStay, Pc, St, Method, Target
<1>11. FinishInv'
  BY <1>i, <1>u, <1>m, <1>n, <1>k, FinishKept DEF PostsStay, Pc, St, Method, Target
<1>12. RequestInv' /\ TargetInv' /\ ProxyInv'
  BY <1>i, <1>u, RequestStays, TargetStays, ProxyStays
<1> QED
  BY <1>1, <1>2, <1>3, <1>4, <1>5, <1>6, <1>7, <1>8, <1>9, <1>10, <1>11, <1>12 DEF IInv

\* An update of an unknown object leaves its server's table locked (connection.cpp
\* 137-157).
LEMMA UpdateMissedSafe ==
  ASSUME IInv, NEW c \in Clients, UpdateContent(c), ~Known(Object(c), Target(c))
  PROVE  IInv'
<1>i. /\ ShapeInv /\ RequestInv /\ PhaseInv /\ TargetInv /\ CountInv /\ FileInv
      /\ FreshInv /\ PendInv /\ BlocksInv /\ RecordInv /\ HeldInv /\ UpInv
      /\ FinishInv /\ ProxyInv
  BY DEF IInv
<1>u. UNCHANGED <<conf, disk, node, client, table, copy, pend>>
  BY DEF UpdateContent, At, Running, Miss
<1>m. /\ Method(c, "UPDATE") /\ St(c) = "ready" /\ Target(c) \in Servers /\ node[Target(c)] = "running"
      /\ Obj(c) # <<>> /\ ~Known(Obj(c), Target(c))
  BY <1>i, AskedFor, Objects DEF UpdateContent, At, St, Running, PhaseInv
<1>h. /\ held' = [held EXCEPT ![Target(c)] = TRUE] /\ held' \in [Servers -> BOOLEAN]
      /\ \A s \in Servers : held[s] => held'[s]
  BY <1>i, <1>m DEF UpdateContent, Miss, ShapeInv
<1>r. conn \in [Clients -> ConnRecords] /\ conn[c] \in ConnRecords
  BY <1>i DEF ShapeInv
<1>n. /\ conn' \in [Clients -> ConnRecords]
      /\ \A d \in Clients : d # c => conn'[d] = conn[d]
      /\ conn'[c].st = "missed"
      /\ conn'[c].count = conn[c].count
      /\ conn'[c].sent = conn[c].sent
      /\ conn'[c].acks = conn[c].acks
  BY <1>r DEF ConnRecords, Sts, UpdateContent, At, Running, Miss
<1>k. RequestsStay
  BY <1>i, <1>u, <1>m, <1>h, <1>n DEF RequestsStay, St
<1>1. ShapeInv'
  BY <1>i, <1>u, <1>m, <1>h, <1>n DEF ShapeInv, UpdateContent, At, Running, Miss
<1>2. PhaseInv'
  BY <1>i, <1>u, <1>m, <1>h, <1>n, Types, Ids DEF PhaseInv, Pc, St, Obj, Req, Method, Target
<1>3. CountInv'
  BY <1>i, <1>u, <1>m, <1>h, <1>n, Types, Ids DEF CountInv, Pc, St, Obj, Req, Method, Target
<1>4. FileInv'
  BY <1>i, <1>u, <1>m, <1>h, <1>n, Types, Ids
     DEF FileInv, Pc, St, Obj, Req, Method, Target, Stored
<1>5. FreshInv'
  BY <1>i, <1>u, <1>m, <1>h, <1>n, <1>k, FreshKept DEF PostsStay, Pc, St, Method, Target
<1>6. PendInv'
  BY <1>i, <1>u, <1>m, <1>h, <1>n, <1>k, PendKept DEF PostsStay, Pc, St, Method, Target
<1>7. BlocksInv'
  BY <1>i, <1>u, <1>m, <1>h, <1>n, <1>k, BlocksKept DEF PostsStay, Pc, St, Method, Target
<1>8. RecordInv'
  BY <1>i, <1>u, <1>m, <1>h, <1>n, <1>k, RecordKept DEF PostsStay, Pc, St, Method, Target
<1>9. HeldInv'
  BY <1>i, <1>u, <1>m, <1>h, <1>n, <1>k, HeldKept
     DEF PostsStay, Pc, St, Method, Target, Known, Obj
<1>10. UpInv'
  BY <1>i, <1>u, <1>m, <1>h, <1>n, <1>k, UpKept DEF PostsStay, Pc, St, Method, Target
<1>11. FinishInv'
  BY <1>i, <1>u, <1>m, <1>h, <1>n, <1>k, FinishKept DEF PostsStay, Pc, St, Method, Target
<1>12. RequestInv' /\ TargetInv' /\ ProxyInv'
  BY <1>i, <1>u, RequestStays, TargetStays, ProxyStays
<1> QED
  BY <1>1, <1>2, <1>3, <1>4, <1>5, <1>6, <1>7, <1>8, <1>9, <1>10, <1>11, <1>12 DEF IInv

\* An update whose client is gone ends its server: the killed client is the cause
\* (S/connection.cpp 137-143).
LEMMA UpdateLostSafe ==
  ASSUME IInv, NEW c \in Clients, UpdateLost(c)
  PROVE  IInv'
<1>i. /\ ShapeInv /\ RequestInv /\ PhaseInv /\ TargetInv /\ CountInv /\ FileInv
      /\ FreshInv /\ PendInv /\ BlocksInv /\ RecordInv /\ HeldInv /\ UpInv
      /\ FinishInv /\ ProxyInv
  BY DEF IInv
<1>u. UNCHANGED <<conf, disk, client, conn, table, copy, held, pend>>
  BY DEF UpdateLost, At, Running
<1>z. \A d \in Clients : St(d) # "none" => Target(d) \in Servers
  BY <1>i DEF PhaseInv
<1>m. /\ St(c) = "ready" /\ Target(c) \in Servers /\ node[Target(c)] = "running" /\ Pc(c) = "killed"
  BY <1>i DEF UpdateLost, At, St, Running, PhaseInv, Pc
<1>s. /\ node' \in [Nodes -> {"off", "running", "stopped", "ended"}]
      /\ node'[Target(c)] = "ended" /\ Target(c)' = Target(c) /\ Pc(c)' = "killed"
      /\ \A t \in Servers : t # Target(c) => node'[t] = node[t]
      /\ node'[proxy] = node[proxy]
  BY <1>i, Ids, <1>m, <1>u DEF ShapeInv, UpdateLost, Target, Pc
<1>1. ShapeInv'
  BY <1>i, <1>u, <1>z, <1>m, <1>s DEF ShapeInv, UpdateLost, At, Running
<1>2. UpInv' /\ FinishInv'
  <2>1. ASSUME NEW d \in Clients, Target(d) = Target(c)
        PROVE  Cause(Target(d))'
    <3>1. Target(d)' = Target(c)'
      BY <1>s, <1>u, <2>1 DEF Target
    <3> QED BY <1>s, <3>1 DEF Cause
  <2>2. \A d \in Clients : St(d) # "none" /\ node[Target(d)] # "ended" /\ node'[Target(d)] = "ended" => Cause(Target(d))'
    BY <1>s, <1>z, <2>1
  <2> QED BY <1>i, <1>u, <1>m, <1>s, <2>2, ServersEnd
<1>3. ProxyInv'
  BY <1>i, <1>u, <1>z, <1>m, <1>s, ProxyKept DEF PostsStay, Pc, St, Method, Target
<1>4. RequestInv' /\ PhaseInv' /\ TargetInv' /\ CountInv' /\ FileInv' /\ FreshInv' /\ PendInv' /\
     BlocksInv' /\ RecordInv' /\ HeldInv'
  BY <1>i, <1>u, RequestStays, PhaseStays, TargetStays, CountStays, FileStays, FreshStays,
     PendStays, BlocksStays, RecordStays, HeldStays
<1> QED
  BY <1>1, <1>2, <1>3, <1>4 DEF IInv

\* recv's 0 or -1 ends the loop too early, or never: the file is short, but the client
\* was killed (S/connection.cpp 675-692).
LEMMA RecvFailsSafe ==
  ASSUME IInv, NEW c \in Clients, RecvFails(c), UNCHANGED node
  PROVE  IInv'
<1>i. /\ ShapeInv /\ RequestInv /\ PhaseInv /\ TargetInv /\ CountInv /\ FileInv
      /\ FreshInv /\ PendInv /\ BlocksInv /\ RecordInv /\ HeldInv /\ UpInv
      /\ FinishInv /\ ProxyInv
  BY DEF IInv
<1>u. UNCHANGED <<conf, disk, node, client, table, copy, held, pend>>
  BY DEF RecvFails, At, Running
<1>m. /\ Method(c, "POST") /\ St(c) = "ready" /\ Target(c) \in Servers
      /\ node[Target(c)] = "running" /\ Pc(c) = "killed"
  BY <1>i DEF RecvFails, At, St, Running, PhaseInv, Pc
<1>r. conn \in [Clients -> ConnRecords] /\ conn[c] \in ConnRecords
  BY <1>i DEF ShapeInv
<1>n. /\ conn' \in [Clients -> ConnRecords]
      /\ \A d \in Clients : d # c => conn'[d] = conn[d]
      /\ (conn'[c].st \in {"ready", "received", "spinning"})
      /\ conn'[c].count = conn[c].count
      /\ conn'[c].sent = conn[c].sent
      /\ conn'[c].acks = conn[c].acks
  BY <1>r DEF ConnRecords, Sts, RecvFails, At, Running
<1>k. RequestsStay
  BY <1>i, <1>u, <1>m, <1>n DEF RequestsStay, St
<1>1. ShapeInv'
  BY <1>i, <1>u, <1>m, <1>n DEF ShapeInv
<1>2. PhaseInv'
  BY <1>i, <1>u, <1>m, <1>n, Types, Ids DEF PhaseInv, Pc, St, Obj, Req, Method, Target
<1>3. CountInv'
  BY <1>i, <1>u, <1>m, <1>n, Types, Ids DEF CountInv, Pc, St, Obj, Req, Method, Target
<1>4. FileInv'
  BY <1>i, <1>u, <1>m, <1>n, Types, Ids DEF FileInv, Pc, St, Obj, Req, Method, Target, Stored
<1>5. FreshInv'
  BY <1>i, <1>u, <1>m, <1>n, <1>k, FreshKept DEF PostsStay, Pc, St, Method, Target
<1>6. PendInv'
  BY <1>i, <1>u, <1>m, <1>n, <1>k, PendKept DEF PostsStay, Pc, St, Method, Target
<1>7. BlocksInv'
  BY <1>i, <1>u, <1>m, <1>n, <1>k, BlocksKept DEF PostsStay, Pc, St, Method, Target
<1>8. RecordInv'
  BY <1>i, <1>u, <1>m, <1>n, <1>k, RecordKept DEF PostsStay, Pc, St, Method, Target
<1>9. HeldInv'
  BY <1>i, <1>u, <1>m, <1>n, <1>k, HeldKept DEF PostsStay, Pc, St, Method, Target, Known, Obj
<1>10. UpInv'
  BY <1>i, <1>u, <1>m, <1>n, <1>k, UpKept DEF PostsStay, Pc, St, Method, Target
<1>11. FinishInv'
  BY <1>i, <1>u, <1>m, <1>n, <1>k, FinishKept DEF PostsStay, Pc, St, Method, Target
<1>12. RequestInv' /\ TargetInv' /\ ProxyInv'
  BY <1>i, <1>u, RequestStays, TargetStays, ProxyStays
<1> QED
  BY <1>1, <1>2, <1>3, <1>4, <1>5, <1>6, <1>7, <1>8, <1>9, <1>10, <1>11, <1>12 DEF IInv

\* recv's -1 as a count ends the process: the killed client is the cause
\* (S/connection.cpp 675-692).
LEMMA RecvCrashesSafe ==
  ASSUME IInv, NEW c \in Clients, RecvFails(c), UNCHANGED conn
  PROVE  IInv'
<1>i. /\ ShapeInv /\ RequestInv /\ PhaseInv /\ TargetInv /\ CountInv /\ FileInv
      /\ FreshInv /\ PendInv /\ BlocksInv /\ RecordInv /\ HeldInv /\ UpInv
      /\ FinishInv /\ ProxyInv
  BY DEF IInv
<1>u. UNCHANGED <<conf, disk, client, conn, table, copy, held, pend>>
  BY DEF RecvFails, At, Running
<1>z. \A d \in Clients : St(d) # "none" => Target(d) \in Servers
  BY <1>i DEF PhaseInv
<1>m. /\ Method(c, "POST") /\ St(c) = "ready" /\ Target(c) \in Servers
      /\ node[Target(c)] = "running" /\ Pc(c) = "killed"
  BY <1>i DEF RecvFails, At, St, Running, PhaseInv, Pc
<1>s. /\ node' \in [Nodes -> {"off", "running", "stopped", "ended"}]
      /\ node'[Target(c)] \in {"running", "ended"} /\ Target(c)' = Target(c) /\ Pc(c)' = "killed"
      /\ \A t \in Servers : t # Target(c) => node'[t] = node[t]
      /\ node'[proxy] = node[proxy]
  BY <1>i, Ids, <1>m, <1>u DEF ShapeInv, RecvFails, Target, Pc
<1>1. ShapeInv'
  BY <1>i, <1>u, <1>z, <1>m, <1>s DEF ShapeInv, RecvFails, At, Running
<1>2. UpInv' /\ FinishInv'
  <2>1. ASSUME NEW d \in Clients, Target(d) = Target(c)
        PROVE  Cause(Target(d))'
    <3>1. Target(d)' = Target(c)'
      BY <1>s, <1>u, <2>1 DEF Target
    <3> QED BY <1>s, <3>1 DEF Cause
  <2>2. \A d \in Clients : St(d) # "none" /\ node[Target(d)] # "ended" /\ node'[Target(d)] = "ended" => Cause(Target(d))'
    BY <1>s, <1>z, <2>1
  <2> QED BY <1>i, <1>u, <1>m, <1>s, <2>2, ServersEnd
<1>3. ProxyInv'
  BY <1>i, <1>u, <1>z, <1>m, <1>s, ProxyKept DEF PostsStay, Pc, St, Method, Target
<1>4. RequestInv' /\ PhaseInv' /\ TargetInv' /\ CountInv' /\ FileInv' /\ FreshInv' /\ PendInv' /\
     BlocksInv' /\ RecordInv' /\ HeldInv'
  BY <1>i, <1>u, RequestStays, PhaseStays, TargetStays, CountStays, FileStays, FreshStays,
     PendStays, BlocksStays, RecordStays, HeldStays
<1> QED
  BY <1>1, <1>2, <1>3, <1>4 DEF IInv

\* An update that waits for an answer gives up when the server that owes it has ended
\* (S/connection.cpp 333-337).
LEMMA StuckLostSafe ==
  ASSUME IInv, NEW c \in Clients, StuckLost(c)
  PROVE  IInv'
<1>i. /\ ShapeInv /\ RequestInv /\ PhaseInv /\ TargetInv /\ CountInv /\ FileInv
      /\ FreshInv /\ PendInv /\ BlocksInv /\ RecordInv /\ HeldInv /\ UpInv
      /\ FinishInv /\ ProxyInv
  BY DEF IInv
<1>u. UNCHANGED <<conf, disk, node, client, table, copy, held, pend>>
  BY DEF StuckLost, At, Running
<1>m. /\ St(c) = "stuck" /\ ~Method(c, "POST") /\ node[Target(c)] = "running"
  BY <1>i DEF StuckLost, At, St, PhaseInv, Running
<1>r. conn \in [Clients -> ConnRecords] /\ conn[c] \in ConnRecords
  BY <1>i DEF ShapeInv
<1>n. /\ conn' \in [Clients -> ConnRecords]
      /\ \A d \in Clients : d # c => conn'[d] = conn[d]
      /\ conn'[c].st = "abandoned"
      /\ conn'[c].count = conn[c].count
      /\ conn'[c].sent = conn[c].sent
      /\ conn'[c].acks = conn[c].acks
  BY <1>r DEF ConnRecords, Sts, StuckLost, At, Running
<1>k. RequestsStay
  BY <1>i, <1>u, <1>m, <1>n DEF RequestsStay, St
<1>1. ShapeInv'
  BY <1>i, <1>u, <1>m, <1>n DEF ShapeInv
<1>2. PhaseInv'
  BY <1>i, <1>u, <1>m, <1>n, Types, Ids DEF PhaseInv, Pc, St, Obj, Req, Method, Target
<1>3. CountInv'
  BY <1>i, <1>u, <1>m, <1>n, Types, Ids DEF CountInv, Pc, St, Obj, Req, Method, Target
<1>4. FileInv'
  BY <1>i, <1>u, <1>m, <1>n, Types, Ids DEF FileInv, Pc, St, Obj, Req, Method, Target, Stored
<1>5. FreshInv'
  BY <1>i, <1>u, <1>m, <1>n, <1>k, FreshKept DEF PostsStay, Pc, St, Method, Target
<1>6. PendInv'
  BY <1>i, <1>u, <1>m, <1>n, <1>k, PendKept DEF PostsStay, Pc, St, Method, Target
<1>7. BlocksInv'
  BY <1>i, <1>u, <1>m, <1>n, <1>k, BlocksKept DEF PostsStay, Pc, St, Method, Target
<1>8. RecordInv'
  BY <1>i, <1>u, <1>m, <1>n, <1>k, RecordKept DEF PostsStay, Pc, St, Method, Target
<1>9. HeldInv'
  BY <1>i, <1>u, <1>m, <1>n, <1>k, HeldKept DEF PostsStay, Pc, St, Method, Target, Known, Obj
<1>10. UpInv'
  BY <1>i, <1>u, <1>m, <1>n, <1>k, UpKept DEF PostsStay, Pc, St, Method, Target
<1>11. FinishInv'
  BY <1>i, <1>u, <1>m, <1>n, <1>k, FinishKept DEF PostsStay, Pc, St, Method, Target
<1>12. RequestInv' /\ TargetInv' /\ ProxyInv'
  BY <1>i, <1>u, RequestStays, TargetStays, ProxyStays
<1> QED
  BY <1>1, <1>2, <1>3, <1>4, <1>5, <1>6, <1>7, <1>8, <1>9, <1>10, <1>11, <1>12 DEF IInv

\* The parity servers answer one after the other, or one cannot be reached
\* (S/connection.cpp 277-325).
LEMMA SendDeltaSafe ==
  ASSUME IInv, NEW c \in Clients, SendDelta(c)
  PROVE  IInv'
<1>i. /\ ShapeInv /\ RequestInv /\ PhaseInv /\ TargetInv /\ CountInv /\ FileInv
      /\ FreshInv /\ PendInv /\ BlocksInv /\ RecordInv /\ HeldInv /\ UpInv
      /\ FinishInv /\ ProxyInv
  BY DEF IInv
<1>u. UNCHANGED <<conf, disk, node, client, table, copy, held, pend>>
  BY DEF SendDelta, At, Running
<1>m. /\ Method(c, "UPDATE") /\ St(c) = "asked" /\ Target(c) \in Servers /\ node[Target(c)] = "running"
      /\ Obj(c) # <<>>
  BY <1>i, AskedFor, Objects DEF SendDelta, At, St, Running, PhaseInv
<1>r. conn \in [Clients -> ConnRecords] /\ conn[c] \in ConnRecords
  BY <1>i DEF ShapeInv
<1>n. /\ conn' \in [Clients -> ConnRecords]
      /\ \A d \in Clients : d # c => conn'[d] = conn[d]
      /\ (conn'[c].st \in {"asked", "abandoned", "done"})
      /\ conn'[c].count = conn[c].count
      /\ conn'[c].sent = conn[c].sent
  BY <1>r DEF ConnRecords, Sts, SendDelta, At, Running
<1>k. RequestsStay
  BY <1>i, <1>u, <1>m, <1>n DEF RequestsStay, St
<1>1. ShapeInv'
  BY <1>i, <1>u, <1>m, <1>n DEF ShapeInv
<1>2. PhaseInv'
  BY <1>i, <1>u, <1>m, <1>n, Types, Ids DEF PhaseInv, Pc, St, Obj, Req, Method, Target
<1>3. CountInv'
  BY <1>i, <1>u, <1>m, <1>n, Types, Ids DEF CountInv, Pc, St, Obj, Req, Method, Target
<1>4. FileInv'
  BY <1>i, <1>u, <1>m, <1>n, Types, Ids DEF FileInv, Pc, St, Obj, Req, Method, Target, Stored
<1>5. FreshInv'
  BY <1>i, <1>u, <1>m, <1>n, <1>k, FreshKept DEF PostsStay, Pc, St, Method, Target
<1>6. PendInv'
  BY <1>i, <1>u, <1>m, <1>n, <1>k, PendKept DEF PostsStay, Pc, St, Method, Target
<1>7. BlocksInv'
  BY <1>i, <1>u, <1>m, <1>n, <1>k, BlocksKept DEF PostsStay, Pc, St, Method, Target
<1>8. RecordInv'
  BY <1>i, <1>u, <1>m, <1>n, <1>k, RecordKept DEF PostsStay, Pc, St, Method, Target
<1>9. HeldInv'
  BY <1>i, <1>u, <1>m, <1>n, <1>k, HeldKept DEF PostsStay, Pc, St, Method, Target, Known, Obj
<1>10. UpInv'
  BY <1>i, <1>u, <1>m, <1>n, <1>k, UpKept DEF PostsStay, Pc, St, Method, Target
<1>11. FinishInv'
  BY <1>i, <1>u, <1>m, <1>n, <1>k, FinishKept DEF PostsStay, Pc, St, Method, Target
<1>12. RequestInv' /\ TargetInv' /\ ProxyInv'
  BY <1>i, <1>u, RequestStays, TargetStays, ProxyStays
<1> QED
  BY <1>1, <1>2, <1>3, <1>4, <1>5, <1>6, <1>7, <1>8, <1>9, <1>10, <1>11, <1>12 DEF IInv

\* An update that cannot reach the server of the full copy is given up (connection.cpp
\* 406-426).
LEMMA UnknownAskedSafe ==
  ASSUME IInv, NEW c \in Clients, AskFull(c), ~Reachable(Target(c), Full(c))
  PROVE  IInv'
<1>i. /\ ShapeInv /\ RequestInv /\ PhaseInv /\ TargetInv /\ CountInv /\ FileInv
      /\ FreshInv /\ PendInv /\ BlocksInv /\ RecordInv /\ HeldInv /\ UpInv
      /\ FinishInv /\ ProxyInv
  BY DEF IInv
<1>u. UNCHANGED <<conf, disk, node, client, table, copy, held, pend>>
  BY DEF AskFull, At, Running
<1>m. /\ Method(c, "UPDATE") /\ St(c) = "changed" /\ Target(c) \in Servers /\ node[Target(c)] = "running"
      /\ Obj(c) # <<>>
  BY <1>i, AskedFor, Objects DEF AskFull, At, St, Running, PhaseInv
<1>r. conn \in [Clients -> ConnRecords] /\ conn[c] \in ConnRecords
  BY <1>i DEF ShapeInv
<1>n. /\ conn' \in [Clients -> ConnRecords]
      /\ \A d \in Clients : d # c => conn'[d] = conn[d]
      /\ conn'[c].st = "abandoned"
      /\ conn'[c].count = conn[c].count
      /\ conn'[c].sent = conn[c].sent
      /\ conn'[c].acks = conn[c].acks
  BY <1>r DEF ConnRecords, Sts, AskFull, At, Running
<1>k. RequestsStay
  BY <1>i, <1>u, <1>m, <1>n DEF RequestsStay, St
<1>1. ShapeInv'
  BY <1>i, <1>u, <1>m, <1>n DEF ShapeInv
<1>2. PhaseInv'
  BY <1>i, <1>u, <1>m, <1>n, Types, Ids DEF PhaseInv, Pc, St, Obj, Req, Method, Target
<1>3. CountInv'
  BY <1>i, <1>u, <1>m, <1>n, Types, Ids DEF CountInv, Pc, St, Obj, Req, Method, Target
<1>4. FileInv'
  BY <1>i, <1>u, <1>m, <1>n, Types, Ids DEF FileInv, Pc, St, Obj, Req, Method, Target, Stored
<1>5. FreshInv'
  BY <1>i, <1>u, <1>m, <1>n, <1>k, FreshKept DEF PostsStay, Pc, St, Method, Target
<1>6. PendInv'
  BY <1>i, <1>u, <1>m, <1>n, <1>k, PendKept DEF PostsStay, Pc, St, Method, Target
<1>7. BlocksInv'
  BY <1>i, <1>u, <1>m, <1>n, <1>k, BlocksKept DEF PostsStay, Pc, St, Method, Target
<1>8. RecordInv'
  BY <1>i, <1>u, <1>m, <1>n, <1>k, RecordKept DEF PostsStay, Pc, St, Method, Target
<1>9. HeldInv'
  BY <1>i, <1>u, <1>m, <1>n, <1>k, HeldKept DEF PostsStay, Pc, St, Method, Target, Known, Obj
<1>10. UpInv'
  BY <1>i, <1>u, <1>m, <1>n, <1>k, UpKept DEF PostsStay, Pc, St, Method, Target
<1>11. FinishInv'
  BY <1>i, <1>u, <1>m, <1>n, <1>k, FinishKept DEF PostsStay, Pc, St, Method, Target
<1>12. RequestInv' /\ TargetInv' /\ ProxyInv'
  BY <1>i, <1>u, RequestStays, TargetStays, ProxyStays
<1> QED
  BY <1>1, <1>2, <1>3, <1>4, <1>5, <1>6, <1>7, <1>8, <1>9, <1>10, <1>11, <1>12 DEF IInv

\* The server of the full copy knows the object and answers (S/connection.cpp 406-426).
LEMMA FullAskedSafe ==
  ASSUME IInv,
         NEW c \in Clients, AskFull(c), Reachable(Target(c), Full(c)), Known(Object(c), Full(c))
  PROVE  IInv'
<1>i. /\ ShapeInv /\ RequestInv /\ PhaseInv /\ TargetInv /\ CountInv /\ FileInv
      /\ FreshInv /\ PendInv /\ BlocksInv /\ RecordInv /\ HeldInv /\ UpInv
      /\ FinishInv /\ ProxyInv
  BY DEF IInv
<1>u. UNCHANGED <<conf, disk, node, client, table, copy, pend>>
  BY DEF AskFull, At, Running
<1>m. /\ Method(c, "UPDATE") /\ St(c) = "changed" /\ Target(c) \in Servers /\ node[Target(c)] = "running"
      /\ Obj(c) # <<>>
  BY <1>i, AskedFor, Objects DEF AskFull, At, St, Running, PhaseInv
<1>f. Full(c) = starting_id(Obj(c)) /\ Full(c) \in Servers /\ Known(Obj(c), Target(c))
  <2>1. Known(Obj(c), Target(c))
    BY <1>i, <1>m DEF HeldInv
  <2>2. Full(c) = starting_id(Obj(c))
    BY <1>i, <1>m, <2>1, Objects DEF RecordInv, Full, Known
  <2>3. Obj(c) \in Names
    BY <1>i, Types
  <2> QED BY <1>i, <1>m, <2>1, <2>2, <2>3, Located DEF ShapeInv
<1>h. /\ held' \in [Servers -> BOOLEAN] /\ \A s \in Servers : held[s] => held'[s]
  BY <1>i, <1>f DEF AskFull, ShapeInv
<1>r. conn \in [Clients -> ConnRecords] /\ conn[c] \in ConnRecords
  BY <1>i DEF ShapeInv
<1>n. /\ conn' \in [Clients -> ConnRecords]
      /\ \A d \in Clients : d # c => conn'[d] = conn[d]
      /\ conn'[c].st = "asked"
      /\ conn'[c].count = conn[c].count
      /\ conn'[c].sent = conn[c].sent
      /\ conn'[c].acks = conn[c].acks
  BY <1>r DEF ConnRecords, Sts, AskFull, At, Running
<1>k. RequestsStay
  BY <1>i, <1>u, <1>m, <1>f, <1>h, <1>n DEF RequestsStay, St
<1>1. ShapeInv'
  BY <1>i, <1>u, <1>m, <1>f, <1>h, <1>n DEF ShapeInv, AskFull, At, Running
<1>2. PhaseInv'
  BY <1>i, <1>u, <1>m, <1>f, <1>h, <1>n, Types, Ids
     DEF PhaseInv, Pc, St, Obj, Req, Method, Target
<1>3. CountInv'
  BY <1>i, <1>u, <1>m, <1>f, <1>h, <1>n, Types, Ids
     DEF CountInv, Pc, St, Obj, Req, Method, Target
<1>4. FileInv'
  BY <1>i, <1>u, <1>m, <1>f, <1>h, <1>n, Types, Ids
     DEF FileInv, Pc, St, Obj, Req, Method, Target, Stored
<1>5. FreshInv'
  BY <1>i, <1>u, <1>m, <1>f, <1>h, <1>n, <1>k, FreshKept DEF PostsStay, Pc, St, Method, Target
<1>6. PendInv'
  BY <1>i, <1>u, <1>m, <1>f, <1>h, <1>n, <1>k, PendKept DEF PostsStay, Pc, St, Method, Target
<1>7. BlocksInv'
  BY <1>i, <1>u, <1>m, <1>f, <1>h, <1>n, <1>k, BlocksKept DEF PostsStay, Pc, St, Method, Target
<1>8. RecordInv'
  BY <1>i, <1>u, <1>m, <1>f, <1>h, <1>n, <1>k, RecordKept DEF PostsStay, Pc, St, Method, Target
<1>9. HeldInv'
  BY <1>i, <1>u, <1>m, <1>f, <1>h, <1>n, <1>k, HeldKept
     DEF PostsStay, Pc, St, Method, Target, Known, Obj
<1>10. UpInv'
  BY <1>i, <1>u, <1>m, <1>f, <1>h, <1>n, <1>k, UpKept DEF PostsStay, Pc, St, Method, Target
<1>11. FinishInv'
  BY <1>i, <1>u, <1>m, <1>f, <1>h, <1>n, <1>k, FinishKept DEF PostsStay, Pc, St, Method, Target
<1>12. RequestInv' /\ TargetInv' /\ ProxyInv'
  BY <1>i, <1>u, RequestStays, TargetStays, ProxyStays
<1> QED
  BY <1>1, <1>2, <1>3, <1>4, <1>5, <1>6, <1>7, <1>8, <1>9, <1>10, <1>11, <1>12 DEF IInv

\* The server of the full copy does not know the object: its table stays locked, and no
\* answer comes (S/connection.cpp 406-426).
LEMMA FullMissedSafe ==
  ASSUME IInv,
         NEW c \in Clients, AskFull(c), Reachable(Target(c), Full(c)), ~Known(Object(c), Full(c))
  PROVE  IInv'
<1>i. /\ ShapeInv /\ RequestInv /\ PhaseInv /\ TargetInv /\ CountInv /\ FileInv
      /\ FreshInv /\ PendInv /\ BlocksInv /\ RecordInv /\ HeldInv /\ UpInv
      /\ FinishInv /\ ProxyInv
  BY DEF IInv
<1>u. UNCHANGED <<conf, disk, node, client, table, copy, pend>>
  BY DEF AskFull, At, Running
<1>m. /\ Method(c, "UPDATE") /\ St(c) = "changed" /\ Target(c) \in Servers /\ node[Target(c)] = "running"
      /\ Obj(c) # <<>>
  BY <1>i, AskedFor, Objects DEF AskFull, At, St, Running, PhaseInv
<1>f. Full(c) = starting_id(Obj(c)) /\ Full(c) \in Servers /\ Known(Obj(c), Target(c))
  <2>1. Known(Obj(c), Target(c))
    BY <1>i, <1>m DEF HeldInv
  <2>2. Full(c) = starting_id(Obj(c))
    BY <1>i, <1>m, <2>1, Objects DEF RecordInv, Full, Known
  <2>3. Obj(c) \in Names
    BY <1>i, Types
  <2> QED BY <1>i, <1>m, <2>1, <2>2, <2>3, Located DEF ShapeInv
<1>h. /\ held' \in [Servers -> BOOLEAN] /\ \A s \in Servers : held[s] => held'[s]
      /\ held'[Full(c)] /\ ~Known(Obj(c), Full(c))
  BY <1>i, <1>f, Objects DEF AskFull, ShapeInv
<1>r. conn \in [Clients -> ConnRecords] /\ conn[c] \in ConnRecords
  BY <1>i DEF ShapeInv
<1>n. /\ conn' \in [Clients -> ConnRecords]
      /\ \A d \in Clients : d # c => conn'[d] = conn[d]
      /\ conn'[c].st = "stuck"
      /\ conn'[c].count = conn[c].count
      /\ conn'[c].sent = conn[c].sent
      /\ conn'[c].acks = conn[c].acks
  BY <1>r DEF ConnRecords, Sts, AskFull, At, Running
<1>k. RequestsStay
  BY <1>i, <1>u, <1>m, <1>f, <1>h, <1>n DEF RequestsStay, St
<1>1. ShapeInv'
  BY <1>i, <1>u, <1>m, <1>f, <1>h, <1>n DEF ShapeInv, AskFull, At, Running
<1>2. PhaseInv'
  BY <1>i, <1>u, <1>m, <1>f, <1>h, <1>n, Types, Ids
     DEF PhaseInv, Pc, St, Obj, Req, Method, Target
<1>3. CountInv'
  BY <1>i, <1>u, <1>m, <1>f, <1>h, <1>n, Types, Ids
     DEF CountInv, Pc, St, Obj, Req, Method, Target
<1>4. FileInv'
  BY <1>i, <1>u, <1>m, <1>f, <1>h, <1>n, Types, Ids
     DEF FileInv, Pc, St, Obj, Req, Method, Target, Stored
<1>5. FreshInv'
  BY <1>i, <1>u, <1>m, <1>f, <1>h, <1>n, <1>k, FreshKept DEF PostsStay, Pc, St, Method, Target
<1>6. PendInv'
  BY <1>i, <1>u, <1>m, <1>f, <1>h, <1>n, <1>k, PendKept DEF PostsStay, Pc, St, Method, Target
<1>7. BlocksInv'
  BY <1>i, <1>u, <1>m, <1>f, <1>h, <1>n, <1>k, BlocksKept DEF PostsStay, Pc, St, Method, Target
<1>8. RecordInv'
  BY <1>i, <1>u, <1>m, <1>f, <1>h, <1>n, <1>k, RecordKept DEF PostsStay, Pc, St, Method, Target
<1>9. HeldInv'
  <2>1. \A s \in Servers : \A o : Known(o, s)' <=> Known(o, s)
    BY <1>u DEF Known
  <2>2. /\ Obj(c)' = Obj(c) /\ starting_id(Obj(c))' = starting_id(Obj(c))
        /\ \A d \in Clients : d # c => St(d)' = St(d)
    BY <1>u, <1>n DEF Obj, St, starting_id, target_server_location, run_mode, Value
  <2>3. held'[starting_id(Obj(c))] /\ ~Known(Obj(c), starting_id(Obj(c)))'
    BY <1>u, <1>f, <1>h, <2>2 DEF Known
  <2>4. St(c) = "changed"
    BY <1>m
  <2>5. ASSUME NEW d \in Clients, Method(d, "UPDATE")'
        PROVE  /\ St(d)' \in {"changed", "asked", "stuck"} =>
                    St(d) \in {"changed", "asked", "stuck"} \/ (St(d) # "none" /\ Known(Obj(d), Target(d)))
               /\ St(d)' = "missed" => \/ St(d) = "missed"
                                       \/ /\ St(d) # "none"
                                          /\ held'[Target(d)] /\ ~Known(Obj(d), Target(d))'
               /\ St(d)' = "stuck" => \/ St(d) = "stuck"
                                      \/ /\ St(d) # "none"
                                         /\ held'[starting_id(Obj(d))]
                                         /\ ~Known(Obj(d), starting_id(Obj(d)))'
    <3>1. CASE d = c
      <4>1. St(c)' = "stuck"
        BY <1>n DEF St
      <4> QED BY <2>3, <2>4, <3>1, <4>1
    <3>2. CASE d # c
      BY <2>2, <3>2
    <3> QED BY <3>1, <3>2
  <2> QED BY <1>i, <1>u, <1>k, <1>h, <2>1, <2>5, HeldKept
<1>10. UpInv'
  BY <1>i, <1>u, <1>m, <1>f, <1>h, <1>n, <1>k, UpKept DEF PostsStay, Pc, St, Method, Target
<1>11. FinishInv'
  BY <1>i, <1>u, <1>m, <1>f, <1>h, <1>n, <1>k, FinishKept DEF PostsStay, Pc, St, Method, Target
<1>12. RequestInv' /\ TargetInv' /\ ProxyInv'
  BY <1>i, <1>u, RequestStays, TargetStays, ProxyStays
<1> QED
  BY <1>1, <1>2, <1>3, <1>4, <1>5, <1>6, <1>7, <1>8, <1>9, <1>10, <1>11, <1>12 DEF IInv

\* A GET of a file in use waits for a block server that does not know the object and
\* leaves its table locked (S/decoder.cpp 154-285).
LEMMA GetWaitsSafe ==
  ASSUME IInv, NEW c \in Clients, GetInUse(c), UNCHANGED node, conn'[c].st = "stuck"
  PROVE  IInv'
<1>i. /\ ShapeInv /\ RequestInv /\ PhaseInv /\ TargetInv /\ CountInv /\ FileInv
      /\ FreshInv /\ PendInv /\ BlocksInv /\ RecordInv /\ HeldInv /\ UpInv
      /\ FinishInv /\ ProxyInv
  BY DEF IInv
<1>u. UNCHANGED <<conf, disk, node, client, table, copy, pend>>
  BY DEF GetInUse, At, Running
<1>m. /\ Method(c, "GET") /\ St(c) = "header" /\ Target(c) \in Servers /\ node[Target(c)] = "running"
      /\ Obj(c) # <<>>
  BY <1>i, AskedFor, Objects DEF GetInUse, At, St, Running, PhaseInv
<1>h. /\ held' \in [Servers -> BOOLEAN] /\ \A s \in Servers : held[s] => held'[s]
  BY <1>i DEF GetInUse, ShapeInv
<1>r. conn \in [Clients -> ConnRecords] /\ conn[c] \in ConnRecords
  BY <1>i DEF ShapeInv
<1>n. /\ conn' \in [Clients -> ConnRecords]
      /\ \A d \in Clients : d # c => conn'[d] = conn[d]
      /\ conn'[c].st = "stuck"
      /\ conn'[c].count = conn[c].count
      /\ conn'[c].sent = conn[c].sent
      /\ conn'[c].acks = conn[c].acks
  BY <1>r DEF ConnRecords, Sts, GetInUse, At, Running
<1>k. RequestsStay
  BY <1>i, <1>u, <1>m, <1>h, <1>n DEF RequestsStay, St
<1>1. ShapeInv'
  BY <1>i, <1>u, <1>m, <1>h, <1>n DEF ShapeInv, GetInUse, At, Running
<1>2. PhaseInv'
  BY <1>i, <1>u, <1>m, <1>h, <1>n, Types, Ids DEF PhaseInv, Pc, St, Obj, Req, Method, Target
<1>3. CountInv'
  BY <1>i, <1>u, <1>m, <1>h, <1>n, Types, Ids DEF CountInv, Pc, St, Obj, Req, Method, Target
<1>4. FileInv'
  BY <1>i, <1>u, <1>m, <1>h, <1>n, Types, Ids
     DEF FileInv, Pc, St, Obj, Req, Method, Target, Stored
<1>5. FreshInv'
  BY <1>i, <1>u, <1>m, <1>h, <1>n, <1>k, FreshKept DEF PostsStay, Pc, St, Method, Target
<1>6. PendInv'
  BY <1>i, <1>u, <1>m, <1>h, <1>n, <1>k, PendKept DEF PostsStay, Pc, St, Method, Target
<1>7. BlocksInv'
  BY <1>i, <1>u, <1>m, <1>h, <1>n, <1>k, BlocksKept DEF PostsStay, Pc, St, Method, Target
<1>8. RecordInv'
  BY <1>i, <1>u, <1>m, <1>h, <1>n, <1>k, RecordKept DEF PostsStay, Pc, St, Method, Target
<1>9. HeldInv'
  BY <1>i, <1>u, <1>m, <1>h, <1>n, <1>k, HeldKept
     DEF PostsStay, Pc, St, Method, Target, Known, Obj
<1>10. UpInv'
  BY <1>i, <1>u, <1>m, <1>h, <1>n, <1>k, UpKept DEF PostsStay, Pc, St, Method, Target
<1>11. FinishInv'
  BY <1>i, <1>u, <1>m, <1>h, <1>n, <1>k, FinishKept DEF PostsStay, Pc, St, Method, Target
<1>12. RequestInv' /\ TargetInv' /\ ProxyInv'
  BY <1>i, <1>u, RequestStays, TargetStays, ProxyStays
<1> QED
  BY <1>1, <1>2, <1>3, <1>4, <1>5, <1>6, <1>7, <1>8, <1>9, <1>10, <1>11, <1>12 DEF IInv

\* A GET of a file in use ends its server and those that wait for its order: it is
\* their cause (S/decoder.cpp 154-285).
LEMMA GetDecodesSafe ==
  ASSUME IInv, NEW c \in Clients, GetInUse(c), UNCHANGED conn, conn[c].st = "header"
  PROVE  IInv'
<1>i. /\ ShapeInv /\ RequestInv /\ PhaseInv /\ TargetInv /\ CountInv /\ FileInv
      /\ FreshInv /\ PendInv /\ BlocksInv /\ RecordInv /\ HeldInv /\ UpInv
      /\ FinishInv /\ ProxyInv
  BY DEF IInv
<1>u. UNCHANGED <<conf, disk, client, conn, table, copy, pend>>
  BY DEF GetInUse, At, Running
<1>z. \A d \in Clients : St(d) # "none" => Target(d) \in Servers
  BY <1>i DEF PhaseInv
<1>m. Method(c, "GET") /\ St(c) = "header" /\ Target(c) \in Servers
  BY <1>i DEF GetInUse, At, St, PhaseInv
<1>h. /\ held' \in [Servers -> BOOLEAN] /\ \A s \in Servers : held[s] => held'[s]
  BY <1>i DEF GetInUse, ShapeInv
<1> DEFINE reached == {Wrap(Target(c) + i) : i \in Reached(Target(c))}
           silent  == {t \in reached : held[t] \/ ~Known(Object(c), t)}
           ends    == {Target(c)} \cup (IF reached = BlockNodes(Target(c)) THEN {} ELSE reached \ silent)
<1>e. /\ node' = [n \in Nodes |-> IF n \in ends THEN "ended" ELSE node[n]]
      /\ node[Target(c)] = "running"
  <2> DEFINE all == reached = BlockNodes(Target(c))
  <2>1. /\ node[Target(c)] = "running"
        /\ IF all /\ silent # {}
           THEN conn' = [conn EXCEPT ![c].st = "stuck"]
           ELSE node' = [n \in Nodes |-> IF n \in ends THEN "ended" ELSE node[n]]
    BY DEF GetInUse, At, Running
  <2>2. conn' # [conn EXCEPT ![c].st = "stuck"]
    <3>1. conn[c] \in ConnRecords /\ conn \in [Clients -> ConnRecords]
      BY <1>i DEF ShapeInv
    <3>2. ASSUME conn' = [conn EXCEPT ![c].st = "stuck"]
          PROVE  FALSE
      <4>1. conn'[c].st = "stuck"
        BY <3>1, <3>2 DEF ConnRecords
      <4> QED BY <4>1
    <3> QED BY <3>2
  <2> HIDE DEF ends, silent, all
  <2> QED BY <2>1, <2>2
<1>d. \A t \in reached : t \in BlockNodes(Target(c)) /\ t \in Servers /\ node[t] = "running"
  <2>1. ASSUME NEW i \in Reached(Target(c))
        PROVE  i \in 1..K+M /\ node[Wrap(Target(c) + i)] = "running"
    BY DeploymentsAssumption DEF Reached, Reachable, Running
  <2> QED BY <1>m, <2>1, Ring DEF BlockNodes
<1>s. /\ node' \in [Nodes -> {"off", "running", "stopped", "ended"}]
      /\ \A s \in Servers : \/ node'[s] = node[s]
                            \/ /\ node[s] = "running" /\ node'[s] = "ended"
                               /\ s \in {Target(c)} \cup BlockNodes(Target(c))
      /\ node'[Target(c)] = "ended" /\ node'[proxy] = node[proxy]
  <2>1. ends \subseteq {Target(c)} \cup reached /\ Target(c) \in ends
    OBVIOUS
  <2> HIDE DEF reached, silent, ends
  <2>2. DOMAIN node' = Nodes /\ \A n \in Nodes : node'[n] = IF n \in ends THEN "ended" ELSE node[n]
    BY <1>e
  <2>3. \A n \in ends : n \in Servers /\ n \in {Target(c)} \cup BlockNodes(Target(c)) /\ node[n] = "running"
    BY <1>m, <1>e, <1>d, <2>1
  <2>4. node' \in [Nodes -> {"off", "running", "stopped", "ended"}]
    BY <1>i, <1>e DEF ShapeInv
  <2> QED BY <1>m, <2>1, <2>2, <2>3, <2>4, Ids
<1> HIDE DEF reached, silent, ends
<1>1. ShapeInv'
  BY <1>i, <1>u, <1>z, <1>m, <1>h, <1>s DEF ShapeInv, GetInUse, At, Running
<1>2. HeldInv'
  <2>1. /\ \A s \in Servers : \A o : Known(o, s)' <=> Known(o, s)
        /\ \A d \in Clients : St(d)' = St(d)
    BY <1>u DEF Known, St
  <2>2. RequestsStay
    BY <1>u DEF RequestsStay
  <2>3. ASSUME NEW d \in Clients, St(d) = "stuck"
        PROVE  St(d) # "none"
    BY <2>3
  <2> QED BY <1>i, <1>u, <1>h, <2>1, <2>2, HeldKept
<1>3. UpInv' /\ FinishInv'
  <2>1. ASSUME NEW d \in Clients, Target(d) \in {Target(c)} \cup BlockNodes(Target(c))
        PROVE  Cause(Target(d))'
    <3>1. /\ Target(d)' = Target(d) /\ Target(c)' = Target(c) /\ Method(c, "GET")' /\ St(c)' = "header"
          /\ BlockNodes(Target(c))' = BlockNodes(Target(c))
      BY <1>u, <1>m DEF Target, Method, St, BlockNodes
    <3>2. node[Target(c)]' = "ended"
      BY <1>s, <3>1
    <3> QED BY <2>1, <3>1, <3>2 DEF Cause
  <2>2. \A d \in Clients : St(d) # "none" /\ node[Target(d)] # "ended" /\ node'[Target(d)] = "ended"
          => Cause(Target(d))'
    BY <1>s, <1>z, <2>1
  <2> QED BY <1>i, <1>u, <1>z, <1>s, <2>2, ServersEnd
<1>4. ProxyInv'
  BY <1>i, <1>u, <1>z, <1>m, <1>h, <1>s, ProxyKept DEF PostsStay, Pc, St, Method, Target
<1>5. RequestInv' /\ PhaseInv' /\ TargetInv' /\ CountInv' /\ FileInv' /\ FreshInv' /\ PendInv' /\
     BlocksInv' /\ RecordInv'
  BY <1>i, <1>u, RequestStays, PhaseStays, TargetStays, CountStays, FileStays, FreshStays,
     PendStays, BlocksStays, RecordStays
<1> QED
  BY <1>1, <1>2, <1>3, <1>4, <1>5 DEF IInv

\* A POST opens its file, made empty if it is new; an update waits for its content
\* (S/connection.cpp 651-670).
LEMMA ReadyRequestSafe ==
  ASSUME IInv, NEW c \in Clients, ReadyRequest(c)
  PROVE  IInv'
<1>i. /\ ShapeInv /\ RequestInv /\ PhaseInv /\ TargetInv /\ CountInv /\ FileInv
      /\ FreshInv /\ PendInv /\ BlocksInv /\ RecordInv /\ HeldInv /\ UpInv
      /\ FinishInv /\ ProxyInv
  BY DEF IInv
<1>u. UNCHANGED <<conf, disk, node, client, table, held, pend>>
  BY DEF ReadyRequest, At, Running
<1>m. /\ St(c) = "header" /\ Target(c) \in Servers /\ node[Target(c)] = "running"
      /\ ~Method(c, "GET") /\ Obj(c) # <<>> /\ conn[c].sent = 0 /\ conn[c].count = 0
      /\ Method(c, "POST") => Obj(c) = remote_path(c)
  <2>1. conn[c].count \in Nat
    BY <1>i, Types
  <2>2. St(c) = "header" /\ node[Target(c)] = "running" /\ ~Method(c, "GET")
    BY DEF ReadyRequest, At, St, Running
  <2>3. Target(c) \in Servers /\ Obj(c) # <<>>
    BY <1>i, <2>2 DEF PhaseInv
  <2>4. conn[c].sent = 0 /\ conn[c].count <= conn[c].sent
    BY <1>i, <2>2 DEF CountInv
  <2>5. Method(c, "POST") => Obj(c) = remote_path(c)
    BY <1>i, <2>3 DEF RequestInv
  <2> QED BY <2>1, <2>2, <2>3, <2>4, <2>5
<1>f. /\ DOMAIN copy' = Servers
      /\ \A t \in Servers : \A o \in DOMAIN copy[t] : o \in DOMAIN copy'[t] /\ copy'[t][o] = copy[t][o]
      /\ \A t \in Servers : \A o \in DOMAIN copy'[t] :
           \/ o \in DOMAIN copy[t]
           \/ t = Target(c) /\ o = Obj(c) /\ Method(c, "POST") /\ copy'[t][o] = 0
      /\ Method(c, "POST") => Obj(c) \in DOMAIN copy'[Target(c)]
  <2>1. CASE Method(c, "POST") /\ Obj(c) \notin DOMAIN copy[Target(c)]
    <3>1. copy' = [copy EXCEPT ![Target(c)] = Put(copy[Target(c)], Obj(c), 0)]
      BY <2>1, Objects DEF ReadyRequest
    <3>2. /\ DOMAIN copy' = Servers /\ copy'[Target(c)] = Put(copy[Target(c)], Obj(c), 0)
          /\ \A t \in Servers : t # Target(c) => copy'[t] = copy[t]
      BY <1>i, <1>m, <3>1 DEF ShapeInv
    <3>3. /\ DOMAIN copy'[Target(c)] = {Obj(c)} \cup DOMAIN copy[Target(c)] /\ copy'[Target(c)][Obj(c)] = 0
          /\ \A o \in DOMAIN copy[Target(c)] : copy'[Target(c)][o] = copy[Target(c)][o]
      BY <2>1, <3>2 DEF Put
    <3> QED BY <2>1, <3>2, <3>3
  <2>2. CASE ~(Method(c, "POST") /\ Obj(c) \notin DOMAIN copy[Target(c)])
    <3>1. copy' = copy
      BY <2>2, Objects DEF ReadyRequest
    <3> QED BY <1>i, <2>2, <3>1 DEF ShapeInv
  <2> QED BY <2>1, <2>2
<1>r. conn \in [Clients -> ConnRecords] /\ conn[c] \in ConnRecords
  BY <1>i DEF ShapeInv
<1>n. /\ conn' \in [Clients -> ConnRecords]
      /\ \A d \in Clients : d # c => conn'[d] = conn[d]
      /\ conn'[c].st = "ready"
      /\ conn'[c].count = conn[c].count
      /\ conn'[c].sent = conn[c].sent
      /\ conn'[c].acks = conn[c].acks
  BY <1>r DEF ConnRecords, Sts, ReadyRequest, At, Running
<1>k. RequestsStay
  BY <1>i, <1>u, <1>m, <1>f, <1>n DEF RequestsStay, St
<1>1. ShapeInv'
  BY <1>i, <1>u, <1>m, <1>f, <1>n DEF ShapeInv, ReadyRequest, At, Running
<1>2. PhaseInv'
  BY <1>i, <1>u, <1>m, <1>f, <1>n, Types, Ids DEF PhaseInv, Pc, St, Obj, Req, Method, Target
<1>3. CountInv'
  BY <1>i, <1>u, <1>m, <1>f, <1>n, Types, Ids DEF CountInv, Pc, St, Obj, Req, Method, Target
<1>4. FileInv'
  <2>1. ASSUME NEW d \in Clients, Method(d, "POST")', St(d)' \notin {"none", "header"}
        PROVE  /\ Obj(d) \in DOMAIN copy'[Target(d)] /\ copy'[Target(d)][Obj(d)] >= conn[d].count
               /\ Obj(d) \notin Stored => copy'[Target(d)][Obj(d)] = conn[d].count
    <3>1. Method(d, "POST")
      BY <1>u, <2>1 DEF Method
    <3>2. CASE d = c
      <4>1. Obj(c) \notin Stored => Obj(c) \notin DOMAIN copy[Target(c)]
        BY <1>i, <1>m, <3>1, <3>2 DEF FreshInv
      <4>2. Obj(c) \in DOMAIN copy'[Target(c)] /\ copy'[Target(c)][Obj(c)] \in Nat
        <5>1. Obj(c) \in DOMAIN copy'[Target(c)]
          BY <1>f, <3>1, <3>2
        <5> QED BY <1>i, <1>m, <1>f, <5>1 DEF ShapeInv
      <4>3. Obj(c) \notin Stored => copy'[Target(c)][Obj(c)] = 0
        BY <1>f, <1>m, <4>1, <4>2
      <4> QED BY <1>m, <3>2, <4>2, <4>3
    <3>3. CASE d # c
      <4>1. St(d) \notin {"none", "header"}
        BY <1>n, <2>1, <3>3 DEF St
      <4>2. Target(d) \in Servers
        BY <1>i, <4>1 DEF PhaseInv
      <4> QED BY <1>i, <1>f, <3>1, <4>1, <4>2 DEF FileInv
    <3> QED BY <3>2, <3>3
  <2>2. ASSUME NEW d \in Clients, Method(d, "GET")', St(d)' \in {"sending", "done"}
        PROVE  Obj(d) \in DOMAIN copy'[Target(d)] /\ conn'[d].sent = copy'[Target(d)][Obj(d)]
    <3>1. Method(d, "GET") /\ d # c /\ St(d) \in {"sending", "done"} /\ conn'[d].sent = conn[d].sent
      BY <1>u, <1>m, <1>n, <2>2 DEF Method, St
    <3>2. Target(d) \in Servers
      BY <1>i, <3>1 DEF PhaseInv
    <3> QED BY <1>i, <1>f, <3>1, <3>2 DEF FileInv
  <2>3. /\ \A d \in Clients : Obj(d)' = Obj(d) /\ Target(d)' = Target(d)
        /\ \A d \in Clients : conn'[d].count = conn[d].count
        /\ Stored' = Stored
    BY <1>u, <1>n DEF Obj, Target, Stored
  <2> QED BY <2>1, <2>2, <2>3 DEF FileInv
<1>5. FreshInv'
  <2> SUFFICES ASSUME NEW d \in Clients, remote_path(d) \notin Stored, NEW t \in Servers,
                      remote_path(d) \in DOMAIN copy'[t]
               PROVE  /\ Method(d, "POST")' /\ St(d)' \notin {"none", "header"}
                      /\ St(d)' \in {"ready", "received", "spinning"} => t = Target(d)'
    BY <1>u DEF FreshInv, Stored
  <2>1. CASE remote_path(d) \in DOMAIN copy[t]
    <3>1. /\ Method(d, "POST") /\ St(d) \notin {"none", "header"}
          /\ St(d) \in {"ready", "received", "spinning"} => t = Target(d)
      BY <1>i, <2>1 DEF FreshInv
    <3>2. d # c
      BY <1>m, <3>1
    <3> QED BY <1>u, <1>n, <3>1, <3>2 DEF Method, St, Target
  <2>2. CASE t = Target(c) /\ remote_path(d) = Obj(c) /\ Method(c, "POST")
    <3>1. d = c
      BY <1>m, <2>2, Kinds
    <3> QED BY <1>u, <1>n, <2>2, <3>1 DEF Method, St, Target
  <2> QED BY <1>f, <2>1, <2>2
<1>6. PendInv'
  BY <1>i, <1>u, <1>m, <1>f, <1>n, <1>k, PendKept DEF PostsStay, Pc, St, Method, Target
<1>7. BlocksInv'
  BY <1>i, <1>u, <1>m, <1>f, <1>n, <1>k, BlocksKept DEF PostsStay, Pc, St, Method, Target
<1>8. RecordInv'
  <2>1. \A s \in Servers : \A o \in DOMAIN table[s] \ Stored : copy'[s][o] = copy[s][o]
    BY <1>i, <1>f DEF ShapeInv
  <2>2. PostsStay
    BY <1>m, <1>n DEF PostsStay, St
  <2>3. \A d \in Clients : Pc(d) = "killed" => Pc(d)' = "killed"
    BY <1>u DEF Pc
  <2> QED BY <1>i, <1>u, <1>k, <2>1, <2>2, <2>3, RecordKept
<1>9. HeldInv'
  BY <1>i, <1>u, <1>m, <1>f, <1>n, <1>k, HeldKept
     DEF PostsStay, Pc, St, Method, Target, Known, Obj
<1>10. UpInv'
  BY <1>i, <1>u, <1>m, <1>f, <1>n, <1>k, UpKept DEF PostsStay, Pc, St, Method, Target
<1>11. FinishInv'
  BY <1>i, <1>u, <1>m, <1>f, <1>n, <1>k, FinishKept DEF PostsStay, Pc, St, Method, Target
<1>12. RequestInv' /\ TargetInv' /\ ProxyInv'
  BY <1>i, <1>u, RequestStays, TargetStays, ProxyStays
<1> QED
  BY <1>1, <1>2, <1>3, <1>4, <1>5, <1>6, <1>7, <1>8, <1>9, <1>10, <1>11, <1>12 DEF IInv

\* Each turn adds what was received to the file and to its count (connection.cpp
\* 673-692).
LEMMA RecvSafe ==
  ASSUME IInv, NEW c \in Clients, Recv(c)
  PROVE  IInv'
<1>i. /\ ShapeInv /\ RequestInv /\ PhaseInv /\ TargetInv /\ CountInv /\ FileInv
      /\ FreshInv /\ PendInv /\ BlocksInv /\ RecordInv /\ HeldInv /\ UpInv
      /\ FinishInv /\ ProxyInv
  BY DEF IInv
<1>u. UNCHANGED <<conf, disk, node, client, table, held, pend>>
  BY DEF Recv, At, Running
<1>m. /\ Method(c, "POST") /\ St(c) = "ready" /\ Target(c) \in Servers /\ Obj(c) = remote_path(c)
      /\ Obj(c) # <<>> /\ Obj(c) \in DOMAIN copy[Target(c)] /\ copy[Target(c)][Obj(c)] \in Nat
      /\ conn[c] \in ConnRecords /\ node[Target(c)] = "running" /\ conn[c].count \in Nat /\ conn[c].sent \in Nat
  <2>1. conn[c].count \in Nat /\ conn[c].sent \in Nat
    BY <1>i, Types
  <2>2. /\ Method(c, "POST") /\ St(c) = "ready" /\ Target(c) \in Servers /\ Obj(c) # <<>>
        /\ Obj(c) = remote_path(c) /\ node[Target(c)] = "running"
    BY <1>i DEF Recv, At, St, Running, PhaseInv, RequestInv
  <2> QED BY <1>i, <2>1, <2>2 DEF FileInv, ShapeInv
<1>p. PICK n \in 1..Left(c) :
         /\ conn' = [conn EXCEPT ![c].count = @ + n,
                       ![c].st = IF conn[c].count + n >= Req(c).content_length
                                 THEN "received" ELSE @]
         /\ copy' = [copy EXCEPT ![Target(c)][Obj(c)] = @ + n]
  BY Objects DEF Recv
<1>q. n \in Nat /\ conn[c].count + n <= conn[c].sent
  BY <1>m, <1>p DEF Left
<1>n. /\ conn' \in [Clients -> ConnRecords]
      /\ \A d \in Clients : d # c => conn'[d] = conn[d]
      /\ conn'[c].sent = conn[c].sent /\ conn'[c].acks = conn[c].acks
      /\ conn'[c].count = conn[c].count + n /\ conn'[c].count <= conn[c].sent
      /\ conn'[c].st \in {"ready", "received"}
      /\ conn'[c].st = "received" => conn'[c].count >= Req(c).content_length
  <2>1. /\ conn'[c] = [conn[c] EXCEPT !.count = conn[c].count + n,
                        !.st = IF conn[c].count + n >= Req(c).content_length THEN "received" ELSE @]
        /\ DOMAIN conn' = Clients /\ \A d \in Clients : d # c => conn'[d] = conn[d]
    BY <1>i, <1>p DEF ShapeInv
  <2>2. /\ conn'[c].count = conn[c].count + n /\ conn'[c].sent = conn[c].sent
        /\ conn'[c].acks = conn[c].acks
        /\ conn'[c].st = IF conn[c].count + n >= Req(c).content_length THEN "received" ELSE conn[c].st
        /\ conn'[c] \in ConnRecords
    <3>1. conn[c].count + n \in Nat
      BY <1>m, <1>q
    <3> QED BY <1>m, <2>1, <3>1 DEF ConnRecords, Sts
  <2>3. conn' \in [Clients -> ConnRecords]
    BY <1>i, <1>p, <2>1, <2>2 DEF ShapeInv
  <2> QED BY <1>m, <1>q, <2>1, <2>2, <2>3 DEF St
<1>f. /\ DOMAIN copy' = Servers /\ \A t \in Servers : DOMAIN copy'[t] = DOMAIN copy[t]
      /\ \A t \in Servers : \A o \in DOMAIN copy[t] :
           (t # Target(c) \/ o # Obj(c)) => copy'[t][o] = copy[t][o]
      /\ copy'[Target(c)][Obj(c)] = copy[Target(c)][Obj(c)] + n
  BY <1>i, <1>m, <1>p DEF ShapeInv
<1>k. RequestsStay
  BY <1>i, <1>u, <1>m, <1>q, <1>n, <1>f DEF RequestsStay, St
<1>1. ShapeInv'
  BY <1>i, <1>u, <1>m, <1>q, <1>n, <1>f DEF ShapeInv, Recv, At, Running
<1>2. PhaseInv'
  BY <1>i, <1>u, <1>m, <1>q, <1>n, <1>f, Types, Ids
     DEF PhaseInv, Pc, St, Obj, Req, Method, Target
<1>3. CountInv'
  BY <1>i, <1>u, <1>m, <1>q, <1>n, <1>f, Types, Ids
     DEF CountInv, Pc, St, Obj, Req, Method, Target
<1>4. FileInv'
  <2>1. ASSUME NEW d \in Clients, Method(d, "POST"), St(d)' \notin {"none", "header"}
        PROVE  /\ Obj(d) \in DOMAIN copy'[Target(d)] /\ copy'[Target(d)][Obj(d)] >= conn'[d].count
               /\ Obj(d) \notin Stored => copy'[Target(d)][Obj(d)] = conn'[d].count
    <3>1. CASE d = c
      <4>1. /\ Obj(c) \in DOMAIN copy[Target(c)] /\ copy[Target(c)][Obj(c)] >= conn[c].count
            /\ Obj(c) \notin Stored => copy[Target(c)][Obj(c)] = conn[c].count
        BY <1>i, <1>m DEF FileInv
      <4> QED BY <1>m, <1>q, <1>n, <1>f, <3>1, <4>1
    <3>2. CASE d # c
      <4>1. St(d) \notin {"none", "header"} /\ conn'[d].count = conn[d].count
        BY <1>n, <2>1, <3>2 DEF St
      <4>2. Target(d) \in Servers /\ Obj(d) = remote_path(d)
        BY <1>i, <2>1, <4>1 DEF PhaseInv, RequestInv
      <4>3. Obj(d) # Obj(c)
        BY <1>m, <3>2, <4>2, Kinds
      <4> QED BY <1>i, <1>f, <2>1, <4>1, <4>2, <4>3 DEF FileInv
    <3> QED BY <3>1, <3>2
  <2>2. ASSUME NEW d \in Clients, Method(d, "GET"), St(d)' \in {"sending", "done"}
        PROVE  Obj(d) \in DOMAIN copy'[Target(d)] /\ conn'[d].sent = copy'[Target(d)][Obj(d)]
    <3>1. d # c /\ St(d) \in {"sending", "done"} /\ conn'[d].sent = conn[d].sent
      BY <1>n, <2>2 DEF St
    <3>2. Target(d) \in Servers /\ Obj(d) = get_random_file_name(d)
      BY <1>i, <2>2, <3>1 DEF PhaseInv, RequestInv
    <3>3. Obj(d) # Obj(c)
      BY <1>m, <3>2, Kinds
    <3> QED BY <1>i, <1>f, <2>2, <3>1, <3>2, <3>3 DEF FileInv
  <2>3. /\ \A d \in Clients : Obj(d)' = Obj(d) /\ Target(d)' = Target(d)
        /\ \A d \in Clients : \A m : Method(d, m)' = Method(d, m)
        /\ Stored' = Stored
    BY <1>u DEF Obj, Target, Stored, Method
  <2> QED BY <2>1, <2>2, <2>3 DEF FileInv
<1>5. FreshInv'
  BY <1>i, <1>u, <1>m, <1>q, <1>n, <1>f, <1>k, FreshKept DEF PostsStay, Pc, St, Method, Target
<1>6. PendInv'
  BY <1>i, <1>u, <1>m, <1>q, <1>n, <1>f, <1>k, PendKept DEF PostsStay, Pc, St, Method, Target
<1>7. BlocksInv'
  BY <1>i, <1>u, <1>m, <1>q, <1>n, <1>f, <1>k, BlocksKept DEF PostsStay, Pc, St, Method, Target
<1>8. RecordInv'
  <2>1. ASSUME NEW s \in Servers, NEW o \in DOMAIN table[s] \ Stored
        PROVE  copy'[s][o] = copy[s][o]
    <3>1. PICK d \in Clients : Method(d, "POST") /\ Obj(d) = o /\ St(d) \in {"encoded", "done"}
      BY <1>i DEF RecordInv
    <3>2. d # c /\ Obj(d) \in {<<>>, remote_path(d)}
      BY <1>i, <1>m, <3>1 DEF RequestInv
    <3>3. o # Obj(c)
      BY <1>m, <3>1, <3>2, Kinds
    <3> QED BY <1>i, <1>f, <3>3 DEF ShapeInv
  <2>2. PostsStay
    BY <1>m, <1>n DEF PostsStay, St
  <2>3. \A d \in Clients : Pc(d) = "killed" => Pc(d)' = "killed"
    BY <1>u DEF Pc
  <2> QED BY <1>i, <1>u, <1>k, <2>1, <2>2, <2>3, RecordKept
<1>9. HeldInv'
  BY <1>i, <1>u, <1>m, <1>q, <1>n, <1>f, <1>k, HeldKept
     DEF PostsStay, Pc, St, Method, Target, Known, Obj
<1>10. UpInv'
  <2>1. node[Target(c)] = "running" /\ \A d \in Clients : d # c => St(d)' = St(d)
    BY <1>m, <1>n DEF St
  <2>2. /\ \A d \in Clients : Pc(d)' = Pc(d) /\ Target(d)' = Target(d)
        /\ St(c) # "none"
    BY <1>u, <1>m DEF Pc, Target
  <2> QED BY <1>i, <1>u, <1>k, <2>1, <2>2, UpKept
<1>11. FinishInv'
  BY <1>i, <1>u, <1>m, <1>q, <1>n, <1>f, <1>k, FinishKept DEF PostsStay, Pc, St, Method, Target
<1>12. RequestInv' /\ TargetInv' /\ ProxyInv'
  BY <1>i, <1>u, RequestStays, TargetStays, ProxyStays
<1> QED
  BY <1>1, <1>2, <1>3, <1>4, <1>5, <1>6, <1>7, <1>8, <1>9, <1>10, <1>11, <1>12 DEF IInv

\* The file of a POST is cut into blocks that are sent to the next servers
\* (S/connection.cpp 693-722).
LEMMA EncodeSafe ==
  ASSUME IInv, NEW c \in Clients, Encode(c)
  PROVE  IInv'
<1>i. /\ ShapeInv /\ RequestInv /\ PhaseInv /\ TargetInv /\ CountInv /\ FileInv
      /\ FreshInv /\ PendInv /\ BlocksInv /\ RecordInv /\ HeldInv /\ UpInv
      /\ FinishInv /\ ProxyInv
  BY DEF IInv
<1>u. UNCHANGED <<conf, disk, node, client, table, held>>
  BY DEF Encode, At, Running
<1>m. /\ Method(c, "POST") /\ St(c) = "received" /\ Target(c) \in Servers
      /\ node[Target(c)] = "running" /\ Obj(c) # <<>> /\ Obj(c) = remote_path(c)
  <2>1. St(c) = "received" /\ node[Target(c)] = "running"
    BY DEF Encode, At, St, Running
  <2>2. Method(c, "POST") /\ Target(c) \in Servers /\ Obj(c) # <<>>
    BY <1>i, <2>1, AskedFor DEF PhaseInv
  <2> QED BY <1>i, <2>1, <2>2 DEF RequestInv
<1> DEFINE all     == Reached(Target(c)) = 1..K+M
           created == {m \in {BlockHeader(c, i) : i \in Reached(Target(c))} :
                         m.obj_id \notin DOMAIN copy[m.to]}
<1>b. /\ created = {m \in {TransmitRequest(c, i) : i \in Reached(Target(c))} :
                      m.obj_id \notin DOMAIN copy[m.to]}
      /\ copy' = [t \in Servers |-> IF \E m \in created : m.to = t
                                    THEN Put(copy[t], Obj(c), IF all THEN 1 ELSE 0)
                                    ELSE copy[t]]
      /\ pend' = IF all THEN pend \cup created ELSE pend
      /\ conn' = [conn EXCEPT ![c].st = IF all THEN "encoded" ELSE "abandoned"]
  BY Blocks, Objects DEF Encode
<1>e. \A m \in created :
        /\ \E i \in 1..K+M : m = BlockHeader(c, i)
        /\ m.to \in Servers /\ m.to # Target(c) /\ m.obj_id = Obj(c)
        /\ Obj(c) \notin DOMAIN copy[m.to]
  <2> SUFFICES ASSUME NEW i \in Reached(Target(c)),
                      BlockHeader(c, i).obj_id \notin DOMAIN copy[BlockHeader(c, i).to]
               PROVE  /\ i \in 1..K+M
                      /\ BlockHeader(c, i).to \in Servers /\ BlockHeader(c, i).to # Target(c)
                      /\ BlockHeader(c, i).obj_id = Obj(c)
                      /\ Obj(c) \notin DOMAIN copy[BlockHeader(c, i).to]
    OBVIOUS
  <2>1. i \in 1..K+M
    BY DEF Reached
  <2>2. BlockHeader(c, i).to = Wrap(Target(c) + i) /\ BlockHeader(c, i).obj_id = Obj(c)
    BY DEF BlockHeader
  <2>3. Wrap(Target(c) + i) \in Servers /\ Wrap(Target(c) + i) # Target(c)
    BY <1>m, <2>1, Ring
  <2> QED BY <2>1, <2>2, <2>3
<1>g. all /\ Obj(c) \notin Stored => \A i \in 1..K+M : BlockHeader(c, i) \in created
  <2> SUFFICES ASSUME all, Obj(c) \notin Stored, NEW i \in 1..K+M
               PROVE  BlockHeader(c, i) \in created
    OBVIOUS
  <2>1. BlockHeader(c, i).to = Wrap(Target(c) + i) /\ BlockHeader(c, i).obj_id = Obj(c)
    BY DEF BlockHeader
  <2>2. Wrap(Target(c) + i) \in Servers /\ Wrap(Target(c) + i) # Target(c)
    BY <1>m, Ring
  <2>3. Obj(c) \notin DOMAIN copy[Wrap(Target(c) + i)]
    BY <1>i, <1>m, <2>2 DEF FreshInv
  <2> QED BY <2>1, <2>3
<1> HIDE DEF all, created
<1>f. /\ DOMAIN copy' = Servers
      /\ \A t \in Servers : \A o \in DOMAIN copy[t] : o \in DOMAIN copy'[t] /\ copy'[t][o] = copy[t][o]
      /\ \A t \in Servers : \A o \in DOMAIN copy'[t] :
           o \in DOMAIN copy[t] \/ (o = Obj(c) /\ copy'[t][o] \in {0, 1})
      /\ \A m \in created : Obj(c) \in DOMAIN copy'[m.to]
  <2>1. ASSUME NEW t \in Servers
        PROVE  /\ \A o \in DOMAIN copy[t] : o \in DOMAIN copy'[t] /\ copy'[t][o] = copy[t][o]
               /\ \A o \in DOMAIN copy'[t] :
                    o \in DOMAIN copy[t] \/ (o = Obj(c) /\ copy'[t][o] \in {0, 1})
               /\ (\E m \in created : m.to = t) => Obj(c) \in DOMAIN copy'[t]
    <3>1. CASE \E m \in created : m.to = t
      <4>1. copy'[t] = Put(copy[t], Obj(c), IF all THEN 1 ELSE 0) /\ Obj(c) \notin DOMAIN copy[t]
        BY <1>b, <1>e, <3>1
      <4> QED BY <4>1 DEF Put
    <3>2. CASE ~\E m \in created : m.to = t
      <4>1. copy'[t] = copy[t]
        BY <1>b, <3>2
      <4> QED BY <3>2, <4>1
    <3> QED BY <3>1, <3>2
  <2> QED BY <1>b, <1>e, <2>1
<1>r. conn \in [Clients -> ConnRecords] /\ conn[c] \in ConnRecords
  BY <1>i DEF ShapeInv
<1>n. /\ conn' \in [Clients -> ConnRecords]
      /\ \A d \in Clients : d # c => conn'[d] = conn[d]
      /\ conn'[c].st \in {"encoded", "abandoned"}
      /\ conn'[c].count = conn[c].count
      /\ conn'[c].sent = conn[c].sent
      /\ conn'[c].acks = conn[c].acks
  BY <1>r, <1>b DEF ConnRecords, Sts
<1>k. RequestsStay
  BY <1>i, <1>u, <1>m, <1>f, <1>n DEF RequestsStay, St
<1>1. ShapeInv'
  <2>1. \A s \in Servers : \A o \in DOMAIN copy'[s] : copy'[s][o] \in Nat
    BY <1>i, <1>f DEF ShapeInv
  <2> QED BY <1>i, <1>u, <1>n, <1>f, <2>1 DEF ShapeInv
<1>2. PhaseInv'
  BY <1>i, <1>u, <1>m, <1>f, <1>n, Types, Ids DEF PhaseInv, Pc, St, Obj, Req, Method, Target
<1>3. CountInv'
  BY <1>i, <1>u, <1>m, <1>f, <1>n, Types, Ids DEF CountInv, Pc, St, Obj, Req, Method, Target
<1>4. FileInv'
  <2>1. ASSUME NEW d \in Clients, St(d) \notin {"none", "header"}, Obj(d) \in DOMAIN copy[Target(d)]
        PROVE  Obj(d) \in DOMAIN copy'[Target(d)] /\ copy'[Target(d)][Obj(d)] = copy[Target(d)][Obj(d)]
    <3>1. Target(d) \in Servers
      BY <1>i, <2>1 DEF PhaseInv
    <3> QED BY <1>f, <2>1, <3>1
  <2>2. /\ \A d \in Clients : Obj(d)' = Obj(d) /\ Target(d)' = Target(d)
        /\ \A d \in Clients : \A m : Method(d, m)' = Method(d, m)
        /\ \A d \in Clients : conn'[d].count = conn[d].count /\ conn'[d].sent = conn[d].sent
        /\ \A d \in Clients : St(d)' = St(d) \/ d = c
        /\ St(c)' \in {"encoded", "abandoned"} /\ ~Method(c, "GET")
        /\ Stored' = Stored
    BY <1>u, <1>m, <1>n DEF Obj, Target, Method, Stored, St
  <2> QED BY <1>i, <1>m, <2>1, <2>2 DEF FileInv
<1>5. FreshInv'
  <2> SUFFICES ASSUME NEW d \in Clients, remote_path(d) \notin Stored, NEW t \in Servers,
                      remote_path(d) \in DOMAIN copy'[t]
               PROVE  /\ Method(d, "POST")' /\ St(d)' \notin {"none", "header"}
                      /\ St(d)' \in {"ready", "received", "spinning"} => t = Target(d)'
    BY <1>u DEF FreshInv, Stored
  <2>1. CASE d = c
    <3>1. Method(c, "POST")' /\ St(c)' \in {"encoded", "abandoned"}
      BY <1>u, <1>m, <1>n DEF Method, St
    <3> QED BY <2>1, <3>1
  <2>2. CASE d # c
    <3>1. remote_path(d) # Obj(c)
      BY <1>m, <2>2, Kinds
    <3>2. /\ Method(d, "POST") /\ St(d) \notin {"none", "header"}
          /\ St(d) \in {"ready", "received", "spinning"} => t = Target(d)
      BY <1>i, <1>f, <3>1 DEF FreshInv
    <3> QED BY <1>u, <1>n, <2>2, <3>2 DEF Method, St, Target
  <2> QED BY <2>1, <2>2
<1>6. PendInv'
  <2> SUFFICES ASSUME NEW m \in pend'
               PROVE  /\ \E d \in Clients : /\ Method(d, "POST")' /\ St(d)' \in {"encoded", "done"}
                                            /\ \E i \in 1..K+M : m = BlockHeader(d, i)'
                      /\ m.obj_id \in DOMAIN copy'[m.to] /\ m.obj_id \notin DOMAIN table[m.to]
    BY <1>u DEF PendInv, Known
  <2>1. CASE m \in pend
    <3>1. PICK d \in Clients, i \in 1..K+M :
             Method(d, "POST") /\ St(d) \in {"encoded", "done"} /\ m = BlockHeader(d, i)
      BY <1>i, <2>1 DEF PendInv
    <3>2. m.to \in Servers
      BY <1>i, <3>1, Ring DEF BlockHeader, PhaseInv
    <3>3. m.obj_id \in DOMAIN copy[m.to] /\ m.obj_id \notin DOMAIN table[m.to]
      BY <1>i, <2>1 DEF PendInv, Known
    <3>4. Method(d, "POST")' /\ St(d)' \in {"encoded", "done"} /\ m = BlockHeader(d, i)'
      BY <1>u, <1>m, <1>n, <3>1 DEF Method, St, BlockHeader, Target, Obj, Req
    <3> QED BY <1>f, <3>2, <3>3, <3>4
  <2>2. CASE m \notin pend
    <3>1. all /\ m \in created
      BY <1>b, <2>2
    <3>2. PICK i \in 1..K+M : m = BlockHeader(c, i)
      BY <1>e, <3>1
    <3>3. m.obj_id \in DOMAIN copy'[m.to] /\ m.obj_id \notin DOMAIN table[m.to]
      BY <1>i, <1>e, <1>f, <3>1 DEF ShapeInv
    <3>4. Method(c, "POST")' /\ m = BlockHeader(c, i)'
      BY <1>u, <1>m, <3>2 DEF Method, BlockHeader, Target, Obj, Req
    <3>5. St(c)' = "encoded"
      BY <1>r, <1>b, <3>1 DEF St, ConnRecords
    <3> QED BY <3>3, <3>4, <3>5
  <2> QED BY <2>1, <2>2
<1>7. BlocksInv'
  <2> SUFFICES ASSUME NEW d \in Clients, Method(d, "POST")', St(d)' \in {"encoded", "done"}
               PROVE  /\ (St(d) = "done" => Known(Obj(d), Target(d)))'
                      /\ (Obj(d) \notin Stored => \A i \in 1..K+M :
                            \/ BlockHeader(d, i) \in pend
                            \/ /\ Known(Obj(d), Wrap(Target(d) + i))
                               /\ table[Wrap(Target(d) + i)][Obj(d)] = BlockEntry(d, i))'
    BY DEF BlocksInv
  <2>1. /\ Method(d, "POST") /\ Obj(d)' = Obj(d) /\ Target(d)' = Target(d) /\ Stored' = Stored
        /\ \A i : BlockHeader(d, i)' = BlockHeader(d, i) /\ BlockEntry(d, i)' = BlockEntry(d, i)
    BY <1>u DEF Method, Obj, Target, BlockHeader, BlockEntry, Req, Stored
  <2>2. CASE d = c
    <3>1. St(c)' = "encoded" /\ all
      BY <1>r, <1>b, <2>2 DEF St, ConnRecords
    <3>2. Obj(c) \notin Stored => \A i \in 1..K+M : BlockHeader(c, i) \in pend'
      BY <1>b, <1>g, <3>1
    <3> QED BY <2>1, <2>2, <3>1, <3>2
  <2>3. CASE d # c
    <3>1. St(d)' = St(d) /\ pend \subseteq pend'
      BY <1>b, <1>n, <2>3 DEF St
    <3> QED BY <1>i, <1>u, <2>1, <3>1 DEF BlocksInv, Known
  <2> QED BY <2>2, <2>3
<1>8. RecordInv'
  <2>1. \A s \in Servers : \A o \in DOMAIN table[s] \ Stored : copy'[s][o] = copy[s][o]
    BY <1>i, <1>f DEF ShapeInv
  <2>2. PostsStay
    BY <1>m, <1>n DEF PostsStay, St
  <2>3. \A d \in Clients : Pc(d) = "killed" => Pc(d)' = "killed"
    BY <1>u DEF Pc
  <2> QED BY <1>i, <1>u, <1>k, <2>1, <2>2, <2>3, RecordKept
<1>9. HeldInv'
  <2>1. /\ \A s \in Servers : \A o : Known(o, s)' <=> Known(o, s)
        /\ \A d \in Clients : St(d)' = St(d) \/ ~Method(d, "UPDATE")'
    BY <1>u, <1>m, <1>n DEF Known, St, Method
  <2> QED BY <1>i, <1>u, <1>k, <2>1, HeldKept
<1>10. UpInv'
  BY <1>i, <1>u, <1>m, <1>f, <1>n, <1>k, UpKept DEF PostsStay, Pc, St, Method, Target
<1>11. FinishInv'
  BY <1>i, <1>u, <1>m, <1>f, <1>n, <1>k, FinishKept DEF PostsStay, Pc, St, Method, Target
<1>12. RequestInv' /\ TargetInv' /\ ProxyInv'
  BY <1>i, <1>u, RequestStays, TargetStays, ProxyStays
<1> QED
  BY <1>1, <1>2, <1>3, <1>4, <1>5, <1>6, <1>7, <1>8, <1>9, <1>10, <1>11, <1>12 DEF IInv

\* A block's entry is inserted under the table's lock, unless there is one
\* (S/connection.cpp 511-647).
LEMMA TransmitInsertSafe ==
  ASSUME IInv, NEW m \in pend, TransmitInsert(m)
  PROVE  IInv'
<1>i. /\ ShapeInv /\ RequestInv /\ PhaseInv /\ TargetInv /\ CountInv /\ FileInv
      /\ FreshInv /\ PendInv /\ BlocksInv /\ RecordInv /\ HeldInv /\ UpInv
      /\ FinishInv /\ ProxyInv
  BY DEF IInv
<1>u. UNCHANGED <<conf, disk, node, client, conn, copy, held>>
  BY DEF TransmitInsert, At, Running
<1>m. PICK c \in Clients, i \in 1..K+M :
        Method(c, "POST") /\ St(c) \in {"encoded", "done"} /\ m = BlockHeader(c, i)
  BY <1>i DEF PendInv
<1>o. /\ Obj(c) = remote_path(c) /\ Target(c) \in Servers /\ Target(c) = starting_id(Obj(c))
      /\ m.to \in Servers /\ m.obj_id = Obj(c) /\ m.to = Wrap(Target(c) + i)
      /\ Block(m) = BlockEntry(c, i)
  <2>1. Target(c) \in Servers /\ Obj(c) = remote_path(c)
    BY <1>i, <1>m DEF PhaseInv, RequestInv
  <2>2. m.to = Wrap(Target(c) + i) /\ m.obj_id = Obj(c)
    BY <1>m DEF BlockHeader
  <2>3. Target(c) = starting_id(Obj(c))
    BY <1>i, <1>m, <2>1, Ids DEF TargetInv, Method
  <2> QED BY <1>m, <2>1, <2>2, <2>3, Ring, Blocks
<1>x. ASSUME NEW m2 \in pend, m2.to = m.to, m2.obj_id = m.obj_id
      PROVE  m2 = m
  <2>1. PICK d \in Clients, j \in 1..K+M :
           Method(d, "POST") /\ St(d) \in {"encoded", "done"} /\ m2 = BlockHeader(d, j)
    BY <1>i DEF PendInv
  <2>2. Obj(d) = remote_path(d)
    BY <1>i, <2>1 DEF PhaseInv, RequestInv
  <2>3. m2.to = Wrap(Target(d) + j) /\ m2.obj_id = Obj(d)
    BY <2>1 DEF BlockHeader
  <2>4. d = c
    BY <1>o, <1>x, <2>2, <2>3, Kinds
  <2>5. j = i
    BY <1>o, <1>x, <2>3, <2>4, Ring
  <2> QED BY <1>m, <2>1, <2>4, <2>5
<1>f. /\ m.obj_id \in DOMAIN copy[m.to] /\ ~Known(m.obj_id, m.to) /\ ~held[m.to]
      /\ DOMAIN table' = Servers /\ m.obj_id \in DOMAIN table'[m.to]
      /\ \A t \in Servers : \A x \in DOMAIN table[t] :
           x \in DOMAIN table'[t] /\ table'[t][x] = table[t][x]
      /\ \A t \in Servers : \A x \in DOMAIN table'[t] :
           x \in DOMAIN table[t] \/ (t = m.to /\ x = m.obj_id /\ table'[t][x] = Block(m))
  <2>1. m.obj_id \in DOMAIN copy[m.to] /\ ~Known(m.obj_id, m.to)
    BY <1>i DEF PendInv
  <2>2. DOMAIN table = Servers /\ ~held[m.to] /\ table' = Inserted(m.to, m.obj_id, Block(m))
    BY <1>i DEF ShapeInv, TransmitInsert
  <2> QED BY <1>o, <2>1, <2>2, Inserts
<1>g. pend' = pend \ {m}
  BY DEF TransmitInsert
<1>1. ShapeInv'
  BY <1>i, <1>u, <1>f DEF ShapeInv
<1>2. PendInv'
  <2> SUFFICES ASSUME NEW m2 \in pend, m2 # m
               PROVE  /\ \E d \in Clients : /\ Method(d, "POST")' /\ St(d)' \in {"encoded", "done"}
                                            /\ \E j \in 1..K+M : m2 = BlockHeader(d, j)'
                      /\ m2.obj_id \in DOMAIN copy[m2.to] /\ m2.obj_id \notin DOMAIN table'[m2.to]
    BY <1>u, <1>g DEF PendInv, Known
  <2>1. PICK d \in Clients, j \in 1..K+M :
           Method(d, "POST") /\ St(d) \in {"encoded", "done"} /\ m2 = BlockHeader(d, j)
    BY <1>i DEF PendInv
  <2>2. Method(d, "POST")' /\ St(d)' \in {"encoded", "done"} /\ m2 = BlockHeader(d, j)'
    BY <1>u, <2>1 DEF Method, St, BlockHeader, Target, Obj, Req
  <2>3. m2.to \in Servers
    BY <1>i, <2>1, Ring DEF BlockHeader, PhaseInv
  <2>4. m2.obj_id \in DOMAIN copy[m2.to] /\ m2.obj_id \notin DOMAIN table[m2.to]
    BY <1>i DEF PendInv, Known
  <2>5. m2.to # m.to \/ m2.obj_id # m.obj_id
    BY <1>x
  <2> QED BY <1>f, <2>2, <2>3, <2>4, <2>5
<1>3. BlocksInv'
  <2> SUFFICES ASSUME NEW d \in Clients, Method(d, "POST")', St(d)' \in {"encoded", "done"}
               PROVE  /\ (St(d) = "done" => Known(Obj(d), Target(d)))'
                      /\ (Obj(d) \notin Stored => \A j \in 1..K+M :
                            \/ BlockHeader(d, j) \in pend
                            \/ /\ Known(Obj(d), Wrap(Target(d) + j))
                               /\ table[Wrap(Target(d) + j)][Obj(d)] = BlockEntry(d, j))'
    BY DEF BlocksInv
  <2>1. /\ Method(d, "POST") /\ Obj(d)' = Obj(d) /\ Target(d)' = Target(d) /\ Stored' = Stored
        /\ \A j : BlockHeader(d, j)' = BlockHeader(d, j) /\ BlockEntry(d, j)' = BlockEntry(d, j)
        /\ St(d)' = St(d)
    BY <1>u DEF Method, Obj, Target, BlockHeader, BlockEntry, Req, Stored, St
  <2>2. Target(d) \in Servers
    BY <1>i, <2>1 DEF PhaseInv
  <2>3. St(d) = "done" => Obj(d) \in DOMAIN table'[Target(d)]
    BY <1>i, <1>f, <2>1, <2>2 DEF BlocksInv, Known
  <2>4. ASSUME Obj(d) \notin Stored, NEW j \in 1..K+M
        PROVE  \/ BlockHeader(d, j) \in pend'
               \/ /\ Obj(d) \in DOMAIN table'[Wrap(Target(d) + j)]
                  /\ table'[Wrap(Target(d) + j)][Obj(d)] = BlockEntry(d, j)
    <3>1. Wrap(Target(d) + j) \in Servers
      BY <2>2, Ring
    <3>2. CASE BlockHeader(d, j) = m
      <4>1. m.to = Wrap(Target(d) + j) /\ m.obj_id = Obj(d)
        BY <3>2 DEF BlockHeader
      <4>2. Block(m) = BlockEntry(d, j)
        BY <3>2, Blocks
      <4> QED BY <1>f, <3>1, <4>1, <4>2 DEF Known
    <3>3. CASE BlockHeader(d, j) \in pend /\ BlockHeader(d, j) # m
      BY <1>g, <3>3
    <3>4. CASE /\ Known(Obj(d), Wrap(Target(d) + j))
               /\ table[Wrap(Target(d) + j)][Obj(d)] = BlockEntry(d, j)
      BY <1>f, <3>1, <3>4 DEF Known
    <3>5. \/ BlockHeader(d, j) \in pend
          \/ /\ Known(Obj(d), Wrap(Target(d) + j))
             /\ table[Wrap(Target(d) + j)][Obj(d)] = BlockEntry(d, j)
      BY <1>i, <2>1, <2>4 DEF BlocksInv
    <3> QED BY <3>2, <3>3, <3>4, <3>5
  <2> QED BY <2>1, <2>3, <2>4 DEF Known
<1>4. RecordInv'
  <2> SUFFICES ASSUME NEW s \in Servers, NEW o \in DOMAIN table'[s]
               PROVE  /\ table'[s][o].full = starting_id(o)
                      /\ o \in Stored \/ \E d \in Clients :
                           /\ Method(d, "POST") /\ Obj(d) = o /\ St(d) \in {"encoded", "done"}
                           /\ table'[s][o].data_type = full_copy =>
                                /\ s = Target(d) /\ St(d) = "done"
                                /\ Pc(d) = "killed" \/ table'[s][o].length = copy[s][o]
    BY <1>u DEF RecordInv, Stored, Method, Obj, St, Target, Pc, starting_id, target_server_location,
                run_mode, Value
  <2>1. CASE o \in DOMAIN table[s]
    <3>1. table'[s][o] = table[s][o]
      BY <1>f, <2>1
    <3> QED BY <1>i, <2>1, <3>1 DEF RecordInv
  <2>2. CASE o \notin DOMAIN table[s]
    <3>1. o = Obj(c) /\ table'[s][o] = BlockEntry(c, i)
      BY <1>o, <1>f, <2>2
    <3>2. table'[s][o].full = starting_id(o) /\ table'[s][o].data_type = i
      BY <1>o, <3>1 DEF BlockEntry
    <3>3. i # full_copy
      BY DEF full_copy
    <3> QED BY <1>m, <3>1, <3>2, <3>3
  <2> QED BY <2>1, <2>2
<1>5. HeldInv'
  <2>1. /\ \A s \in Servers : \A o : Known(o, s) => Known(o, s)'
        /\ \A s \in Servers : \A o : held[s] /\ ~Known(o, s) => ~Known(o, s)'
    BY <1>u, <1>f DEF Known
  <2>2. /\ \A d \in Clients : St(d)' = St(d)
        /\ RequestsStay
    BY <1>u DEF St, RequestsStay
  <2> QED BY <1>i, <1>u, <2>1, <2>2, HeldKept
<1>6. RequestInv' /\ PhaseInv' /\ TargetInv' /\ CountInv' /\ FileInv' /\ FreshInv' /\ UpInv' /\
     FinishInv' /\ ProxyInv'
  BY <1>i, <1>u, RequestStays, PhaseStays, TargetStays, CountStays, FileStays, FreshStays,
     UpStays, FinishStays, ProxyStays
<1> QED
  BY <1>1, <1>2, <1>3, <1>4, <1>5, <1>6 DEF IInv

\* The full copy's entry is inserted when all blocks have been sent, unless there is
\* one (S/connection.cpp 724-748).
LEMMA PostRecordSafe ==
  ASSUME IInv, NEW c \in Clients, PostRecord(c)
  PROVE  IInv'
<1>i. /\ ShapeInv /\ RequestInv /\ PhaseInv /\ TargetInv /\ CountInv /\ FileInv
      /\ FreshInv /\ PendInv /\ BlocksInv /\ RecordInv /\ HeldInv /\ UpInv
      /\ FinishInv /\ ProxyInv
  BY DEF IInv
<1>u. UNCHANGED <<conf, disk, node, client, copy, held, pend>>
  BY DEF PostRecord, At, Running
<1>m. /\ Method(c, "POST") /\ St(c) = "encoded" /\ Target(c) \in Servers
      /\ node[Target(c)] = "running" /\ Obj(c) # <<>> /\ Obj(c) = remote_path(c)
  <2>1. St(c) = "encoded" /\ node[Target(c)] = "running"
    BY DEF PostRecord, At, St, Running
  <2>2. Method(c, "POST") /\ Target(c) \in Servers /\ Obj(c) # <<>>
    BY <1>i, <2>1, AskedFor DEF PhaseInv
  <2> QED BY <1>i, <2>1, <2>2 DEF RequestInv
<1> DEFINE entry == FullCopy(Target(c), Req(c).content_length)
<1>f. /\ Obj(c) \in DOMAIN copy[Target(c)] /\ ~held[Target(c)]
      /\ DOMAIN table' = Servers /\ Obj(c) \in DOMAIN table'[Target(c)]
      /\ \A t \in Servers : \A x \in DOMAIN table[t] :
           x \in DOMAIN table'[t] /\ table'[t][x] = table[t][x]
      /\ \A t \in Servers : \A x \in DOMAIN table'[t] :
           x \in DOMAIN table[t] \/ (t = Target(c) /\ x = Obj(c) /\ table'[t][x] = entry)
  <2>1. Obj(c) \in DOMAIN copy[Target(c)]
    BY <1>i, <1>m DEF FileInv
  <2>2. DOMAIN table = Servers /\ ~held[Target(c)] /\ table' = Inserted(Target(c), Obj(c), entry)
    BY <1>i, Objects DEF ShapeInv, PostRecord
  <2> HIDE DEF entry
  <2> QED BY <1>m, <2>1, <2>2, Inserts
<1>e. entry.data_type = full_copy /\ entry.full = Target(c) /\ entry.length = Req(c).content_length
  BY DEF FullCopy
<1> HIDE DEF entry
<1>l. Obj(c) \notin Stored => Pc(c) = "killed" \/ Req(c).content_length = copy[Target(c)][Obj(c)]
  <2>1. conn[c].count \in Nat /\ conn[c].sent \in Nat /\ Req(c).content_length \in Nat
    BY <1>i, Types
  <2>2. Obj(c) \notin Stored => copy[Target(c)][Obj(c)] = conn[c].count
    BY <1>i, <1>m DEF FileInv
  <2>3. Pc(c) # "killed" => /\ conn[c].count >= Req(c).content_length
                            /\ conn[c].count <= conn[c].sent /\ conn[c].sent <= Req(c).content_length
    BY <1>i, <1>m DEF CountInv
  <2>4. Pc(c) # "killed" => Req(c).content_length = conn[c].count
    BY <2>1, <2>3
  <2> QED BY <2>2, <2>4
<1>r. conn \in [Clients -> ConnRecords] /\ conn[c] \in ConnRecords
  BY <1>i DEF ShapeInv
<1>n. /\ conn' \in [Clients -> ConnRecords]
      /\ \A d \in Clients : d # c => conn'[d] = conn[d]
      /\ conn'[c].st = "done"
      /\ conn'[c].count = conn[c].count
      /\ conn'[c].sent = conn[c].sent
      /\ conn'[c].acks = conn[c].acks
  BY <1>r DEF ConnRecords, Sts, PostRecord, At, Running
<1>k. RequestsStay
  BY <1>i, <1>u, <1>m, <1>f, <1>n DEF RequestsStay, St
<1>1. ShapeInv'
  BY <1>i, <1>u, <1>n, <1>f DEF ShapeInv
<1>2. PhaseInv'
  BY <1>i, <1>u, <1>m, <1>f, <1>n, Types, Ids DEF PhaseInv, Pc, St, Obj, Req, Method, Target
<1>3. CountInv'
  BY <1>i, <1>u, <1>m, <1>f, <1>n, Types, Ids DEF CountInv, Pc, St, Obj, Req, Method, Target
<1>4. FileInv'
  BY <1>i, <1>u, <1>m, <1>f, <1>n, Types, Ids
     DEF FileInv, Pc, St, Obj, Req, Method, Target, Stored
<1>5. FreshInv'
  BY <1>i, <1>u, <1>m, <1>f, <1>n, <1>k, FreshKept DEF PostsStay, Pc, St, Method, Target
<1>6. PendInv'
  <2> SUFFICES ASSUME NEW m \in pend
               PROVE  /\ \E d \in Clients : /\ Method(d, "POST")' /\ St(d)' \in {"encoded", "done"}
                                            /\ \E j \in 1..K+M : m = BlockHeader(d, j)'
                      /\ m.obj_id \in DOMAIN copy[m.to] /\ m.obj_id \notin DOMAIN table'[m.to]
    BY <1>u DEF PendInv, Known
  <2>1. PICK d \in Clients, j \in 1..K+M :
           Method(d, "POST") /\ St(d) \in {"encoded", "done"} /\ m = BlockHeader(d, j)
    BY <1>i DEF PendInv
  <2>2. Method(d, "POST")' /\ St(d)' \in {"encoded", "done"} /\ m = BlockHeader(d, j)'
    BY <1>u, <1>n, <2>1 DEF Method, St, BlockHeader, Target, Obj, Req
  <2>3. Target(d) \in Servers /\ Obj(d) = remote_path(d)
    BY <1>i, <2>1 DEF PhaseInv, RequestInv
  <2>4. m.to = Wrap(Target(d) + j) /\ m.obj_id = Obj(d)
    BY <2>1 DEF BlockHeader
  <2>5. m.to \in Servers /\ m.to # Target(d)
    BY <2>3, <2>4, Ring
  <2>6. m.obj_id \in DOMAIN copy[m.to] /\ m.obj_id \notin DOMAIN table[m.to]
    BY <1>i DEF PendInv, Known
  <2>7. Obj(d) = Obj(c) => d = c
    BY <1>m, <2>3, Kinds
  <2> QED BY <1>f, <2>2, <2>4, <2>5, <2>6, <2>7
<1>7. BlocksInv'
  <2> SUFFICES ASSUME NEW d \in Clients, Method(d, "POST")', St(d)' \in {"encoded", "done"}
               PROVE  /\ (St(d) = "done" => Known(Obj(d), Target(d)))'
                      /\ (Obj(d) \notin Stored => \A j \in 1..K+M :
                            \/ BlockHeader(d, j) \in pend
                            \/ /\ Known(Obj(d), Wrap(Target(d) + j))
                               /\ table[Wrap(Target(d) + j)][Obj(d)] = BlockEntry(d, j))'
    BY DEF BlocksInv
  <2>1. /\ Method(d, "POST") /\ Obj(d)' = Obj(d) /\ Target(d)' = Target(d) /\ Stored' = Stored
        /\ \A j : BlockHeader(d, j)' = BlockHeader(d, j) /\ BlockEntry(d, j)' = BlockEntry(d, j)
    BY <1>u DEF Method, Obj, Target, BlockHeader, BlockEntry, Req, Stored
  <2>2. /\ d # c => St(d)' = St(d)
        /\ St(d) \in {"encoded", "done"}
    BY <1>m, <1>n DEF St
  <2>3. Target(d) \in Servers
    BY <1>i, <2>2 DEF PhaseInv
  <2>4. St(d)' = "done" => Obj(d) \in DOMAIN table'[Target(d)]
    <3>1. CASE d = c
      BY <1>f, <3>1
    <3>2. CASE d # c
      BY <1>i, <1>f, <2>1, <2>2, <2>3, <3>2 DEF BlocksInv, Known
    <3> QED BY <3>1, <3>2
  <2>5. ASSUME Obj(d) \notin Stored, NEW j \in 1..K+M
        PROVE  \/ BlockHeader(d, j) \in pend
               \/ /\ Obj(d) \in DOMAIN table'[Wrap(Target(d) + j)]
                  /\ table'[Wrap(Target(d) + j)][Obj(d)] = BlockEntry(d, j)
    <3>1. Wrap(Target(d) + j) \in Servers
      BY <2>3, Ring
    <3>2. \/ BlockHeader(d, j) \in pend
          \/ /\ Obj(d) \in DOMAIN table[Wrap(Target(d) + j)]
             /\ table[Wrap(Target(d) + j)][Obj(d)] = BlockEntry(d, j)
      BY <1>i, <2>1, <2>2, <2>5 DEF BlocksInv, Known
    <3> QED BY <1>f, <3>1, <3>2
  <2> QED BY <1>u, <2>1, <2>4, <2>5 DEF Known
<1>8. RecordInv'
  <2> SUFFICES ASSUME NEW s \in Servers, NEW o \in DOMAIN table'[s]
               PROVE  /\ table'[s][o].full = starting_id(o)
                      /\ o \in Stored \/ \E d \in Clients :
                           /\ Method(d, "POST") /\ Obj(d) = o /\ St(d)' \in {"encoded", "done"}
                           /\ table'[s][o].data_type = full_copy =>
                                /\ s = Target(d) /\ St(d)' = "done"
                                /\ Pc(d) = "killed" \/ table'[s][o].length = copy[s][o]
    BY <1>u DEF RecordInv, Stored, Method, Obj, Target, Pc, starting_id, target_server_location,
                run_mode, Value
  <2>1. \A d \in Clients : St(d) \in {"encoded", "done"} =>
          St(d)' \in {"encoded", "done"} /\ (St(d) = "done" => St(d)' = "done")
    BY <1>n DEF St
  <2>2. CASE o \in DOMAIN table[s]
    <3>1. table'[s][o] = table[s][o]
      BY <1>f, <2>2
    <3>2. table[s][o].full = starting_id(o)
      BY <1>i, <2>2 DEF RecordInv
    <3>3. o \in Stored \/ \E d \in Clients :
             /\ Method(d, "POST") /\ Obj(d) = o /\ St(d) \in {"encoded", "done"}
             /\ table[s][o].data_type = full_copy =>
                  /\ s = Target(d) /\ St(d) = "done"
                  /\ Pc(d) = "killed" \/ table[s][o].length = copy[s][o]
      BY <1>i, <2>2 DEF RecordInv
    <3> QED BY <2>1, <3>1, <3>2, <3>3
  <2>3. CASE o \notin DOMAIN table[s]
    <3>1. s = Target(c) /\ o = Obj(c) /\ table'[s][o] = entry
      BY <1>f, <2>3
    <3>2. Target(c) = starting_id(Obj(c))
      BY <1>i, <1>m, Ids DEF TargetInv, Method
    <3>3. St(c)' = "done"
      BY <1>n DEF St
    <3> QED BY <1>m, <1>e, <1>l, <3>1, <3>2, <3>3
  <2> QED BY <2>2, <2>3
<1>9. HeldInv'
  <2>1. /\ \A s \in Servers : \A o : Known(o, s) => Known(o, s)'
        /\ \A s \in Servers : \A o : held[s] /\ ~Known(o, s) => ~Known(o, s)'
    BY <1>u, <1>f DEF Known
  <2>2. \A d \in Clients : St(d)' = St(d) \/ ~Method(d, "UPDATE")'
    BY <1>u, <1>m, <1>n DEF St, Method
  <2> QED BY <1>i, <1>u, <1>k, <2>1, <2>2, HeldKept
<1>10. UpInv'
  BY <1>i, <1>u, <1>m, <1>f, <1>n, <1>k, UpKept DEF PostsStay, Pc, St, Method, Target
<1>11. FinishInv'
  BY <1>i, <1>u, <1>m, <1>f, <1>n, <1>k, FinishKept DEF PostsStay, Pc, St, Method, Target
<1>12. RequestInv' /\ TargetInv' /\ ProxyInv'
  BY <1>i, <1>u, RequestStays, TargetStays, ProxyStays
<1> QED
  BY <1>1, <1>2, <1>3, <1>4, <1>5, <1>6, <1>7, <1>8, <1>9, <1>10, <1>11, <1>12 DEF IInv

-----------------------------------------------------------------------------
(* The first state, and all steps together *)

\* When processes have been started nobody has asked for anything, and all entries are
\* those of objects stored before.
LEMMA InitSafe == Init => IInv
<1> SUFFICES ASSUME Init
             PROVE  IInv
  OBVIOUS
<1> DEFINE index(s, o) == CHOOSE i \in 0..K+M : Wrap(starting_id(o) + i) = s
           at(s) == {o \in DOMAIN conf.stored : \E i \in 0..K+M : Wrap(starting_id(o) + i) = s}
<1>1. /\ conf \in Deployments /\ disk = conf.disk /\ pend = {}
      /\ node = [n \in Nodes |-> IF n \in conf.up THEN "running" ELSE "off"]
      /\ client = [c \in Clients |->
                     [pc |-> "new", req |-> request, server_id |-> Absent, got |-> 0,
                      report |-> "none", lost |-> FALSE]]
      /\ conn = [c \in Clients |-> [st |-> "none", count |-> 0, sent |-> 0, acks |-> 0]]
      /\ held = [s \in Servers |-> FALSE]
      /\ copy = [s \in Servers |-> [o \in at(s) |-> IF s = starting_id(o) THEN conf.stored[o] ELSE 1]]
      /\ table = [s \in Servers |-> [o \in at(s) |->
                    [data_type |-> index(s, o), full |-> starting_id(o),
                     length |-> IF s = starting_id(o) THEN conf.stored[o] ELSE conf.stored[o] \div K]]]
  BY DEF Init
<1>2. /\ \A n \in DOMAIN disk : disk[n] \in Nat \cup {Absent}
      /\ \A o \in DOMAIN conf.stored : conf.stored[o] \in Nat
  BY <1>1, DeploymentsAssumption
<1>3. \A c \in Clients :
        /\ client[c].pc = "new" /\ client[c].req = request /\ client[c].server_id = Absent
        /\ client[c].got = 0 /\ client[c].report = "none" /\ ~client[c].lost
        /\ conn[c].st = "none" /\ conn[c].count = 0 /\ conn[c].sent = 0
        /\ Req(c).method = Empty /\ Obj(c) = <<>> /\ Req(c).content_length = 0
  BY <1>1 DEF Req, Obj, request
<1>4. \A s \in Servers :
        /\ DOMAIN table[s] = at(s) /\ DOMAIN copy[s] = at(s)
        /\ \A o \in at(s) : /\ copy[s][o] \in Nat /\ table[s][o].full = starting_id(o)
                            /\ o \in Stored
  <2> SUFFICES ASSUME NEW s \in Servers
               PROVE  /\ DOMAIN table[s] = at(s) /\ DOMAIN copy[s] = at(s)
                      /\ \A o \in at(s) : /\ copy[s][o] \in Nat /\ table[s][o].full = starting_id(o)
                                          /\ o \in Stored
    OBVIOUS
  <2>1. \A o \in at(s) : o \in Stored
    BY DEF Stored
  <2> HIDE DEF at, index
  <2>2. DOMAIN table[s] = at(s) /\ DOMAIN copy[s] = at(s)
    BY <1>1
  <2>3. \A o \in at(s) : table[s][o].full = starting_id(o)
    BY <1>1
  <2>4. \A o \in at(s) : copy[s][o] = conf.stored[o] \/ copy[s][o] = 1
    BY <1>1
  <2> QED BY <1>2, <2>1, <2>2, <2>3, <2>4 DEF Stored
<1> HIDE DEF at, index
<1>5. ShapeInv
  <2>1. DOMAIN table = Servers /\ DOMAIN copy = Servers
    BY <1>1
  <2>2. client \in [Clients -> ClientRecords]
    BY <1>1 DEF ClientRecords, request, Pcs, Reports, Methods, Names
  <2>3. conn \in [Clients -> ConnRecords]
    BY <1>1 DEF ConnRecords, Sts
  <2> QED BY <1>1, <1>2, <1>4, <2>1, <2>2, <2>3 DEF ShapeInv
<1>6. RequestInv /\ PhaseInv /\ TargetInv /\ CountInv /\ FileInv /\ HeldInv /\ UpInv /\ FinishInv
  <2>1. \A c \in Clients : /\ Pc(c) = "new" /\ St(c) = "none" /\ Target(c) = Absent
                           /\ \A m : Method(c, m) <=> m = Empty
    BY <1>3 DEF Pc, St, Target, Method, Req
  <2>2. RequestInv
    BY <1>3, <2>1 DEF RequestInv
  <2>3. PhaseInv /\ TargetInv
    BY <1>3, <2>1 DEF PhaseInv, TargetInv
  <2>4. CountInv
    <3>1. \A c \in Clients : /\ conn[c].count = 0 /\ conn[c].sent = 0 /\ client[c].got = 0
                             /\ ~Method(c, "POST")
      BY <1>3, <2>1, Unset
    <3>2. \A c \in Clients : conn[c].count <= conn[c].sent
      BY <3>1
    <3> QED BY <3>1, <3>2 DEF CountInv
  <2> QED BY <1>3, <2>1, <2>2, <2>3, <2>4 DEF FileInv, HeldInv, UpInv, FinishInv
<1>7. FreshInv /\ RecordInv
  BY <1>4 DEF FreshInv, RecordInv
<1>8. PendInv /\ BlocksInv
  BY <1>1, <1>3, Unset DEF PendInv, BlocksInv, Method, Req
<1>9. ProxyInv
  BY <1>1, Ids DEF ProxyInv
<1> QED BY <1>5, <1>6, <1>7, <1>8, <1>9 DEF IInv

\* Whatever nobody changes stays as it should be.
LEMMA Stutters == IInv /\ UNCHANGED vars => IInv'
<1> SUFFICES ASSUME IInv, UNCHANGED vars
             PROVE  IInv'
  OBVIOUS
<1>1. UNCHANGED <<conf, disk, node, client, conn, table, copy, held, pend>>
  BY DEF vars
<1>2. ShapeInv'
  BY <1>1 DEF IInv, ShapeInv
<1> QED BY <1>1, <1>2, RequestStays, PhaseStays, TargetStays, CountStays, FileStays, FreshStays,
           PendStays, BlocksStays, RecordStays, HeldStays, UpStays, FinishStays, ProxyStays
        DEF IInv

\* Connections of clients, and what ends their requests (C/client.cpp 44-352).
LEMMA ClientSafe ==
  ASSUME IInv, NEW c \in Clients, ClientStep(c)
  PROVE  IInv'
<1>1. ASSUME NEW m \in Methods, Connect(c, m)
      PROVE  IInv'
  BY <1>1, ConnectedSafe, ConnectFailsSafe
<1>2. ASSUME NEW m \in Methods, NEW done \in Reports, Ack(c, m, done), m # "GET",
             done = "post_done" => m = "POST"
      PROVE  IInv'
  BY <1>2, AckDoneSafe, AckFailsSafe
<1>3. CASE GetLocated(c) \/ PostLocated(c) \/ UpdateLocated(c)
  BY <1>1, <1>3 DEF GetLocated, PostLocated, UpdateLocated, Methods
<1>4. CASE PostAck(c)
  BY <1>2, <1>4 DEF PostAck, Methods, Reports
<1>5. CASE UpdateAck(c)
  BY <1>2, <1>5 DEF UpdateAck, Methods, Reports
<1>6. CASE ProxyLost(c) \/ SendUpdate(c) \/ SendFile(c) \/ GetReceive(c) \/ GetEnds(c)
  BY <1>6, ProxyLostSafe, SendUpdateSafe, SendFileSafe, GetReceiveSafe, GetEndsSafe
<1> QED BY <1>3, <1>4, <1>5, <1>6 DEF ClientStep

\* What the storage server does for a connection.
LEMMA ServerSafe ==
  ASSUME IInv, NEW c \in Clients, ServerStep(c)
  PROVE  IInv'
<1>1. CASE GetRequest(c)
  BY <1>1, GetFoundSafe, GetMissedSafe
<1>2. CASE GetInUse(c)
  <2>1. conn[c].st = "header" /\ conn \in [Clients -> ConnRecords] /\ conn[c] \in ConnRecords
    BY <1>2 DEF GetInUse, At, IInv, ShapeInv
  <2>2. \/ UNCHANGED node /\ conn' = [conn EXCEPT ![c].st = "stuck"]
        \/ UNCHANGED conn
    BY <1>2 DEF GetInUse
  <2>3. (UNCHANGED node /\ conn'[c].st = "stuck") \/ UNCHANGED conn
    BY <2>1, <2>2 DEF ConnRecords
  <2> QED BY <1>2, <2>1, <2>3, GetWaitsSafe, GetDecodesSafe
<1>3. CASE RecvFails(c)
  <2>1. UNCHANGED node \/ UNCHANGED conn
    BY <1>3 DEF RecvFails
  <2> QED BY <1>3, <2>1, RecvFailsSafe, RecvCrashesSafe
<1>4. CASE UpdateContent(c)
  BY <1>4, UpdateFoundSafe, UpdateMissedSafe
<1>5. CASE AskFull(c)
  BY <1>5, UnknownAskedSafe, FullAskedSafe, FullMissedSafe
<1>6. CASE ReadyRequest(c) \/ GetSent(c) \/ Recv(c) \/ Encode(c) \/ PostRecord(c)
  BY <1>6, ReadyRequestSafe, GetSentSafe, RecvSafe, EncodeSafe, PostRecordSafe
<1>7. CASE UpdateLost(c) \/ SendDelta(c) \/ StuckLost(c)
  BY <1>7, UpdateLostSafe, SendDeltaSafe, StuckLostSafe
<1> QED BY <1>1, <1>2, <1>3, <1>4, <1>5, <1>6, <1>7 DEF ServerStep

\* Every step keeps the invariant.
LEMMA NextSafe == IInv /\ [Next]_vars => IInv'
<1> SUFFICES ASSUME IInv, [Next]_vars
             PROVE  IInv'
  OBVIOUS
<1>1. CASE StartProxy \/ StopProxy
  BY <1>1, StartProxySafe, StopProxySafe
<1>2. CASE \E s \in Servers : StartServer(s) \/ StopServer(s)
  BY <1>2, StartServerSafe, StopServerSafe
<1>3. ASSUME NEW c \in Clients, launch_client(c) \/ Kill(c) \/ ProxyRead(c)
      PROVE  IInv'
  BY <1>3, LaunchSafe, KillSafe, ProxyReadSafe
<1>4. ASSUME NEW c \in Clients, ClientStep(c) \/ ServerStep(c)
      PROVE  IInv'
  BY <1>4, ClientSafe, ServerSafe
<1>5. CASE \E m \in pend : TransmitInsert(m)
  BY <1>5, TransmitInsertSafe
<1>6. CASE UNCHANGED vars
  BY <1>6, Stutters
<1> QED BY <1>1, <1>2, <1>3, <1>4, <1>5, <1>6 DEF Next

-----------------------------------------------------------------------------
(* The properties *)

\* The invariant holds in every reachable state, for all clients, rings, files and
\* deployments that the assumptions allow.
THEOREM RequestsInductive == Spec => []IInv
<1>1. Init => IInv
  BY InitSafe
<1>2. IInv /\ [Next]_vars => IInv'
  BY NextSafe
<1> QED BY <1>1, <1>2, PTL DEF Spec

\* Everything has the shape that its comment says.
THEOREM TypeCorrect == Spec => []TypeOK
<1>1. IInv => TypeOK
  <2> SUFFICES ASSUME IInv
               PROVE  TypeOK
    OBVIOUS
  <2>1. ShapeInv /\ PhaseInv /\ CountInv /\ PendInv
    BY DEF IInv
  <2>2. \A c \in Clients : /\ client[c].pc \in Pcs /\ Target(c) \in Servers \cup {Absent}
                           /\ conn[c].st # "none" => Target(c) \in Servers /\ client[c].pc \notin {"new", "asking"}
                           /\ conn[c].count <= conn[c].sent
    BY <2>1, Types DEF Pc, St, PhaseInv, CountInv
  <2>3. \A m \in pend : m.to \in Servers /\ m.obj_id \in DOMAIN copy[m.to]
    BY <2>1, Ring DEF PendInv, PhaseInv, BlockHeader
  <2> QED BY <2>1, <2>2, <2>3 DEF TypeOK, ShapeInv, Pcs
<1> QED BY <1>1, RequestsInductive, PTL

\* A client is told that its POST is done only when the named server has the entry
\* and all bytes, and each block of a new object is recorded or on its way to be
\* (S/connection.cpp 720-748).
THEOREM PostsAreRecorded == Spec => []DoneIsRecorded
<1>1. IInv => DoneIsRecorded
  <2> SUFFICES ASSUME IInv, NEW c \in Clients, client[c].report = "post_done"
               PROVE  /\ Target(c) = starting_id(Object(c))
                      /\ Known(Object(c), Target(c))
                      /\ copy[Target(c)][Object(c)] >= request_(c).content_length
                      /\ Object(c) \notin Stored => \A i \in 1..K+M :
                           LET m == TransmitRequest(c, i)
                           IN  m \in pend \/ (Known(m.obj_id, m.to) /\ table[m.to][m.obj_id] = Block(m))
    BY DEF DoneIsRecorded
  <2>1. ShapeInv /\ PhaseInv /\ TargetInv /\ CountInv /\ FileInv /\ BlocksInv
    BY DEF IInv
  <2>2. Method(c, "POST") /\ St(c) = "done" /\ Pc(c) = "ended" /\ Target(c) \in Servers
    BY <2>1 DEF PhaseInv
  <2>3. Target(c) = starting_id(Obj(c))
    BY <2>1, <2>2, Ids DEF TargetInv, Method
  <2>4. Known(Obj(c), Target(c))
    BY <2>1, <2>2 DEF BlocksInv
  <2>5. copy[Target(c)][Obj(c)] >= Req(c).content_length
    <3>1. conn[c].count \in Nat /\ Req(c).content_length \in Nat
      BY <2>1, Types
    <3>2. conn[c].count >= Req(c).content_length
      BY <2>1, <2>2 DEF CountInv
    <3>3. Obj(c) \in DOMAIN copy[Target(c)] /\ copy[Target(c)][Obj(c)] >= conn[c].count
      BY <2>1, <2>2 DEF FileInv
    <3>4. copy[Target(c)][Obj(c)] \in Nat
      BY <2>1, <2>2, <3>3 DEF ShapeInv
    <3> QED BY <3>1, <3>2, <3>3, <3>4
  <2>6. ASSUME Obj(c) \notin Stored, NEW i \in 1..K+M
        PROVE  LET m == BlockHeader(c, i)
               IN  m \in pend \/ (Known(m.obj_id, m.to) /\ table[m.to][m.obj_id] = Block(m))
    <3>1. /\ BlockHeader(c, i).obj_id = Obj(c) /\ BlockHeader(c, i).to = Wrap(Target(c) + i)
          /\ Block(BlockHeader(c, i)) = BlockEntry(c, i)
      BY Blocks DEF BlockHeader
    <3> QED BY <2>1, <2>2, <2>6, <3>1 DEF BlocksInv
  <2> QED BY <2>3, <2>4, <2>5, <2>6, Objects, Blocks
<1> QED BY <1>1, RequestsInductive, PTL

\* The length that the entry of a full copy names is that of the file, unless the
\* client that posts it was killed (S/connection.cpp 675-692).
THEOREM RecordsAreWhole == Spec => []RecordedIsWhole
<1>1. IInv => RecordedIsWhole
  BY Objects DEF IInv, RecordInv, RecordedIsWhole, Pc
<1> QED BY <1>1, RequestsInductive, PTL

\* Only an update of a file shorter than K ends the proxy (P/connection.cpp 102).
THEOREM ShortUpdateEndsProxy == Spec => []ProxyEndsByShortUpdate
<1>1. IInv => ProxyEndsByShortUpdate
  BY Objects DEF IInv, ProxyInv, ProxyEndsByShortUpdate
<1> QED BY <1>1, RequestsInductive, PTL

\* A GET that is reported as finished after its loop has all bytes, unless its server
\* was stopped or ended by another client (C/client.cpp 88-106).
THEOREM FinishedGetsAreWhole == Spec => []FinishedGetIsWhole
<1>1. IInv => FinishedGetIsWhole
  <2> SUFFICES ASSUME IInv, NEW c \in Clients, Method(c, "GET"), client[c].report = "finished",
                      ~client[c].lost
               PROVE  \/ client[c].got = copy[Target(c)][Object(c)]
                      \/ node[Target(c)] = "stopped"
                      \/ /\ node[Target(c)] = "ended"
                         /\ \E d \in Clients \ {c} :
                              \/ Target(d) = Target(c) /\ client[d].pc = "killed"
                              \/ /\ Method(d, "GET") /\ conn[d].st = "header" /\ node[Target(d)] = "ended"
                                 /\ Target(c) \in {Target(d)} \cup BlockNodes(Target(d))
    BY DEF FinishedGetIsWhole
  <2>1. /\ Pc(c) = "ended" /\ St(c) \in {"sending", "done"}
        /\ (St(c) = "done" /\ client[c].got = conn[c].sent) \/ node[Target(c)] \in {"stopped", "ended"}
    BY DEF IInv, FinishInv
  <2>2. conn[c].sent = copy[Target(c)][Obj(c)]
    BY <2>1 DEF IInv, FileInv
  <2>3. CASE node[Target(c)] = "ended"
    <3>1. PICK d \in Clients :
             \/ Pc(d) = "killed" /\ Target(d) = Target(c)
             \/ /\ Method(d, "GET") /\ St(d) = "header" /\ node[Target(d)] = "ended"
                /\ Target(c) \in {Target(d)} \cup BlockNodes(Target(d))
      BY <2>1, <2>3 DEF IInv, UpInv, Cause
    <3>2. d # c
      BY <2>1, <3>1
    <3> QED BY <2>3, <3>1, <3>2 DEF Pc, St
  <2> QED BY <2>1, <2>2, <2>3, Objects
<1> QED BY <1>1, RequestsInductive, PTL

\* An update that is too early locks its block out, and stops the POST that it has
\* overtaken (S/connection.cpp 149-151, 333, 419-422, 500, 611 and 730).
THEOREM EarlyUpdatesBlockPosts == Spec => []EarlyUpdateBlocksPost
<1>1. IInv => EarlyUpdateLocksItsBlockOut
  <2> SUFFICES ASSUME IInv, NEW c \in Clients, NEW d \in Clients,
                      client[c].report = "post_done", Object(c) \notin Stored,
                      Method(d, "UPDATE"), conn[d].st = "missed",
                      Object(d) = Object(c), Target(d) \in BlockNodes(Target(c))
               PROVE  /\ \E m \in pend : m.to = Target(d) /\ m.obj_id = Object(c)
                      /\ ~Known(Object(c), Target(d))
    BY DEF EarlyUpdateLocksItsBlockOut
  <2>1. Method(c, "POST") /\ St(c) = "done"
    BY DEF IInv, PhaseInv
  <2>2. ~Known(Obj(c), Target(d))
    BY Objects DEF IInv, HeldInv, St
  <2>3. PICK i \in 1..K+M : Target(d) = Wrap(Target(c) + i)
    BY DEF BlockNodes
  <2>4. BlockHeader(c, i) \in pend
    BY <2>1, <2>2, <2>3, Objects DEF IInv, BlocksInv
  <2>5. BlockHeader(c, i).to = Target(d) /\ BlockHeader(c, i).obj_id = Obj(c)
    BY <2>3 DEF BlockHeader
  <2> QED BY <2>2, <2>4, <2>5, Objects
<1>2. IInv => StuckUpdateStopsPost
  <2> SUFFICES ASSUME IInv, NEW c \in Clients, NEW d \in Clients,
                      Method(c, "POST"), conn[d].st = "stuck", Object(c) = Object(d)
               PROVE  conn[c].st # "done" /\ client[c].report # "post_done" /\ ~Known(Object(c), Full(d))
    BY DEF StuckUpdateStopsPost
  <2>1. ShapeInv /\ RequestInv /\ PhaseInv /\ TargetInv /\ BlocksInv /\ RecordInv /\ HeldInv
    BY DEF IInv
  <2>2. Obj(c) = Obj(d) /\ St(d) = "stuck"
    BY Objects DEF St
  <2>3. Target(d) \in Servers /\ Obj(d) # <<>> /\ Obj(c) = remote_path(c)
    BY <2>1, <2>2 DEF PhaseInv, RequestInv
  <2>4. Method(d, "UPDATE")
    <3>1. ~Method(d, "GET")
      BY <2>1, <2>2, <2>3, Kinds DEF RequestInv
    <3>2. ~Method(d, "POST") /\ ~Method(d, Empty)
      BY <2>1, <2>2, <2>3 DEF PhaseInv, RequestInv
    <3>3. Req(d).method \in Methods
      BY <2>1, Types
    <3> QED BY <3>1, <3>2, <3>3 DEF Methods, Method, Req
  <2>5. Known(Obj(d), Target(d)) /\ ~Known(Obj(d), starting_id(Obj(d)))
    BY <2>1, <2>2, <2>4 DEF HeldInv
  <2>6. Full(d) = starting_id(Obj(d))
    BY <2>1, <2>3, <2>5, Objects DEF RecordInv, Full, Known
  <2>7. St(c) # "done"
    <3>1. St(c) = "done" => Known(Obj(c), Target(c)) /\ Target(c) \in Servers
      BY <2>1 DEF BlocksInv, PhaseInv
    <3>2. Target(c) \in Servers => Target(c) = starting_id(Obj(c))
      BY <2>1, Ids DEF TargetInv, Method
    <3> QED BY <2>2, <2>5, <3>1, <3>2
  <2>8. client[c].report # "post_done"
    BY <2>1, <2>7 DEF PhaseInv
  <2> QED BY <2>2, <2>5, <2>6, <2>7, <2>8, Objects DEF St
<1>3. IInv => EarlyUpdateBlocksPost
  BY <1>1, <1>2 DEF EarlyUpdateBlocksPost
<1> QED BY <1>3, RequestsInductive, PTL
=============================================================================
