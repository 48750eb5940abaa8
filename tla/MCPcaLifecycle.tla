-------------------------- MODULE MCPcaLifecycle --------------------------
(* Two data and two consumers of one type; every thread is created.        *)
EXTENDS PcaLifecycle

CONSTANTS d1, d2, t1, f1

OneType == [d \in Data |-> t1]
OneProcessorType == [c \in Consumers |-> t1]
=============================================================================
