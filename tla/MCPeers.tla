------------------------------ MODULE MCPeers ------------------------------
\* One Peer seated at the start, one Candidate to dial and one host calling in.
EXTENDS Peers

Blocks == {2}
=============================================================================
