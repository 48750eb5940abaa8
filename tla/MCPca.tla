------------------------------- MODULE MCPca -------------------------------
(* Two feeders, two data and two consumers of one type.                    *)
EXTENDS Pca

CONSTANTS d1, d2, t1, f1, f2

OneType == [d \in Data |-> t1]
OneProcessorType == [c \in Consumers |-> t1]
=============================================================================
