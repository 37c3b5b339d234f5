------------------------------ MODULE MCSession ------------------------------
(* Instances of Session for TLC: two connections, the logger pump and one  *)
(* event producer.                                                         *)
EXTENDS Session, TLC

CONSTANTS c1, c2, f1, f2, logpump, producer

MCConns == {c1, c2}
MCFds == {f1, f2}
MCOneFd == {f1}
MCSenders == {logpump, producer}
MCPump == {logpump}
MCOneSender == {producer}
MCNoPump == {}

\* Connections are interchangeable, and so are descriptors.
MCSymmetry == Permutations(MCConns) \cup Permutations(MCFds)
=============================================================================
