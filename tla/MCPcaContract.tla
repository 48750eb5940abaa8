--------------------------- MODULE MCPcaContract ---------------------------
(* Three data and two consumers of one type, as the simulator's channels.  *)
EXTENDS PcaRefinement

CONSTANTS d1, d2, d3, t1, f1

OneType == [d \in Data |-> t1]
OneProcessorType == [c \in Consumers |-> t1]
=============================================================================
