--------------------------- MODULE MCSecureChannel ---------------------------
(* Instances of SecureChannel for TLC: a line either end may send, and one *)
(* only a reply or an event may be as long as.                             *)
EXTENDS SecureChannel, TLC

CONSTANTS ping, stats

MCMsgs == {ping, stats}
MCSize == [m \in MCMsgs |-> IF m = ping THEN 1 ELSE 2]
==============================================================================
