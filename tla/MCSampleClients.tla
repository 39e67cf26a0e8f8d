--------------------------- MODULE MCSampleClients --------------------------
(* SampleClients with small numbers of descriptors, sockets and pings.      *)
EXTENDS SampleClients

MCConnections == 1..6
MCDescriptors == 3..5
MCFewDescriptors == 3..4
MCPings == {"ping1", "ping2", "ping3"}
MCTwoPings == {"ping1", "ping2"}
=============================================================================
