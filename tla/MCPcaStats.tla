----------------------------- MODULE MCPcaStats -----------------------------
(* Three data, at most MaxFeeds of them fed; d3 has a type no consumer     *)
(* takes, so that the dispatcher also gives back what nobody accepts.      *)
EXTENDS PcaStats, TLC

CONSTANTS d1, d2, d3, t1, t2, f1

TwoTypes == [d \in Data |-> IF d = d3 THEN t2 ELSE t1]
OneProcessorType == [c \in Consumers |-> t1]

SameType == Permutations({d1, d2})
=============================================================================
