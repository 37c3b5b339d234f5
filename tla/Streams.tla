------------------------------- MODULE Streams -------------------------------
(***************************************************************************)
(* What an encrypted session promises its two ends: in each direction a    *)
(* stream of lines from which the other end takes a prefix, in order, each *)
(* line once (docs/protocol.md, "Receiver rules").                         *)
(***************************************************************************)
EXTENDS Naturals, Sequences

CONSTANTS Keys, Msgs

VARIABLES
    sent,   \* sent[k][e]: lines end e sent in the session of key k
    rcvd    \* rcvd[k][e]: lines end e took from its peer there

Ends == {"server", "client"}
Peer(e) == IF e = "server" THEN "client" ELSE "server"

Init ==
    /\ sent = [k \in Keys |-> [e \in Ends |-> <<>>]]
    /\ rcvd = [k \in Keys |-> [e \in Ends |-> <<>>]]

Send(k, e, m) ==
    /\ sent' = [sent EXCEPT ![k][e] = Append(@, m)]
    /\ UNCHANGED rcvd

\* End e takes the next line its peer sent.
Take(k, e) ==
    /\ Len(rcvd[k][e]) < Len(sent[k][Peer(e)])
    /\ rcvd' = [rcvd EXCEPT ![k][e] = Append(@, sent[k][Peer(e)][Len(@) + 1])]
    /\ UNCHANGED sent

Next == \E k \in Keys, e \in Ends : Take(k, e) \/ \E m \in Msgs : Send(k, e, m)

Spec == Init /\ [][Next]_<<sent, rcvd>>
==============================================================================
