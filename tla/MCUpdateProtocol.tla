-------------------------- MODULE MCUpdateProtocol --------------------------
(* Client sets for the runs of UpdateProtocol. *)
EXTENDS UpdateProtocol, TLC

CONSTANTS c1, c2

OneClient  == {c1}
TwoClients == {c1, c2}

\* Nothing in the protocol orders clients.
ClientSymmetry == Permutations(TwoClients)
=============================================================================
