----------------------------- MODULE MCPaxosInv -----------------------------
EXTENDS MCPaxos, PaxosInv
=============================================================================
