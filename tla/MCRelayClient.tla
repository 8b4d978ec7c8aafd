---------------------------- MODULE MCRelayClient ----------------------------
(* RelayClient with two other players and two addresses. *)
EXTENDS RelayClient, FiniteSets, TLC

CONSTANTS p1, p2

MCPeer == {p1, p2}

\* The last conjunct: after a mishap that both invariants except there is
\* nothing to see before the next Reset has returned.
Few ==
    /\ Cardinality(probes) <= 1
    /\ Cardinality(mishaps) <= 1
    /\ \/ mishaps \subseteq {"late start"}
       \/ events < MaxEvents
       \/ ~RouterUnlocked

Symmetry == Permutations(MCPeer)
=============================================================================
