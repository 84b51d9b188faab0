--------------------------- MODULE MCPeerFollower ---------------------------
EXTENDS PeerFollower

CONSTANTS h1, h2, f, setA, setB

MCPeers  == {h1, h2, f}
MCHonest == {h1, h2}

\* Governance replaces the set at height 2.
MCSetOf == [h \in Heights |-> IF h < 2 THEN setA ELSE setB]

\* One peer serves a checkpoint.
MCSnapshot == [p \in MCPeers |-> IF p = h2 THEN 1 ELSE 0]

\* It gets ahead of the other.
MCReach == [p \in MCHonest |-> IF p = h2 THEN 2 ELSE 1]
MCOrder == [p \in MCPeers |-> IF p = h1 THEN 1 ELSE IF p = f THEN 2 ELSE 3]

MCFaultyClaims == {[height |-> 1, kind |-> "forged"], [height |-> 1, kind |-> "state"]}

=============================================================================
