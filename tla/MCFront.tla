------------------------------- MODULE MCFront -------------------------------
(***************************************************************************)
(* Two clients that share the files of clients 0, 3, 6, ..., so that one   *)
(* may update what the other one posts; a ring of six servers with K = 3   *)
(* and M = 1, so that an update may be sent to a server without a block.   *)
(***************************************************************************)
EXTENDS Front, TLC

MCClients == {0, 3}
Local == <<"test_transmitfile", 0>>
Posted0 == <<"client_post_request", 0>>
Posted3 == <<"client_post_request", 3>>
MCHash == (Local :> 0) @@ (Posted0 :> 4) @@ (Posted3 :> 1)

None == [x \in {} |-> Absent]
Four == [thread_num |-> 4]
Test == [thread_num |-> 4, run_mode |-> "test"]
Files(lines) == [n \in Nodes |-> IF n = proxy THEN lines ELSE Four]
Everybody == [s \in Servers |-> Servers]
Disk(local, posted) == (Local :> local) @@ (Posted0 :> posted)
Deployment(lines, ips, up, stops, d, stored) ==
  [file |-> Files(lines), ip_port_table |-> ips, up |-> up, stops |-> stops, disk |-> d,
   stored |-> stored]

MCDeployments ==
  { Deployment(Four, Everybody, Nodes, {3, Start + 4}, Disk(2, 3), None),
    Deployment(Four, Everybody, Nodes, {0, proxy}, Disk(2, 5), (Local :> 2) @@ (Posted0 :> 3)),
    Deployment(Four, Everybody, Nodes \ {Start}, {0, 3}, Disk(1, 2), None),
    Deployment(Four, Everybody, Nodes, {}, Disk(0, 0), (Local :> 1)),
    Deployment(None, Everybody, Servers, {}, Disk(Absent, Absent), None),
    Deployment(Four, [s \in Servers |-> Servers \ {Start + 1}], Nodes \ {proxy}, {0},
               Disk(Absent, 3), (Posted0 :> 3) @@ (Local :> 1)),
    Deployment(Test, Everybody, Nodes, {3}, Disk(1, 3), (Local :> 2)) }
=============================================================================
