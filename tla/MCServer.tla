------------------------------ MODULE MCServer ------------------------------
(* Requests for the runs of Server. *)
EXTENDS Server

A == "a"
B == "b"

TwoObjects == {A, B}
OneObject  == {A}
OnlyA      == {A}
NoObject   == {}

\* Every method on a known object; lookups and a delta on an unknown one.
AllRequests ==
  [method : Methods, obj : {A}]
    \cup [method : {"GET", "UPDATE", "TRANSMIT_UPDATE_CONTENT", "RECONSTRUCT",
                    "TRANSMIT_DELTA_CONTENT", "TRANSMIT_BLOCK"}, obj : {B}]

\* Requests whose lookup always hits when A is stored.
HitRequests == [method : Methods, obj : {A}]
=============================================================================
