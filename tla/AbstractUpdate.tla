--------------------------- MODULE AbstractUpdate ---------------------------
(***************************************************************************)
(* What the update protocol promises, without nodes that talk: an update   *)
(* is stored in its data block, logged by every parity node, only then     *)
(* acknowledged to its client, and only then merged into the full copy.    *)
(* A client has one unacknowledged update at a time.                       *)
(***************************************************************************)
EXTENDS Naturals

CONSTANTS Clients, PerClient, Parities

Updates == Clients \X (1 .. PerClient)

VARIABLES stored, logged, acked, merged

avars == <<stored, logged, acked, merged>>

Init ==
  /\ stored = {}
  /\ logged = [u \in Updates |-> {}]
  /\ acked = {}
  /\ merged = {}

Store(u) ==
  /\ u[2] > 1 => <<u[1], u[2] - 1>> \in acked
  /\ stored' = stored \cup {u}
  /\ UNCHANGED <<logged, acked, merged>>

Log(u, p) ==
  /\ u \in stored
  /\ logged' = [logged EXCEPT ![u] = @ \cup {p}]
  /\ UNCHANGED <<stored, acked, merged>>

Ack(u) ==
  /\ u \in stored
  /\ logged[u] = Parities
  /\ acked' = acked \cup {u}
  /\ UNCHANGED <<stored, logged, merged>>

Merge(u) ==
  /\ u \in acked
  /\ merged' = merged \cup {u}
  /\ UNCHANGED <<stored, logged, acked>>

Next ==
  \E u \in Updates : Store(u) \/ (\E p \in Parities : Log(u, p)) \/ Ack(u) \/ Merge(u)

Spec == Init /\ [][Next]_avars
=============================================================================
