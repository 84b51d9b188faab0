--------------------------- MODULE MCPeerSession ---------------------------
EXTENDS PeerSession, TLC

CONSTANTS a, b, procA, procB

MCIdentity == (procA :> a) @@ (procB :> b)
=============================================================================
