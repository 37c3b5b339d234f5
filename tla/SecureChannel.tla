---------------------------- MODULE SecureChannel ----------------------------
(***************************************************************************)
(* The encrypted session between the firmware (components/core proto.c)    *)
(* and esp-ctl (tools/esp-ctl proto.c): sequence numbers, direction bytes, *)
(* sealing, and the receiver's rules.                                      *)
(*                                                                         *)
(* A frame on the wire is what the receiver's checks tell apart: the key   *)
(* and nonce it was sealed under, the sequence number in its header, its   *)
(* line, and whether every byte is as sealed.  The AEAD is ideal: a frame  *)
(* opens under the key and nonce it was sealed with, unaltered, and not    *)
(* otherwise.  The wire is a FIFO, as TCP is; Network is whoever sits on   *)
(* it, and may lose, duplicate, reorder, alter, reflect and replay frames. *)
(***************************************************************************)
EXTENDS Naturals, Sequences, FiniteSets

CONSTANTS
    Msgs,        \* lines
    Size,        \* their lengths
    MaxLine,     \* CONFIG_ESPSHELL_MAX_LINE of the firmware's build
    MaxResp,     \* CONFIG_ESPSHELL_MAX_RESP of the firmware's build
    CtlLine,     \* ESPSHELL_MAX_LINE of esp-ctl
    CtlResp,     \* ESPSHELL_MAX_RESP of esp-ctl
    AckCap,      \* what do_logs' buffer for the first line holds
    MaxSessions, \* bound: sessions
    MaxSeq,      \* bound: frames per direction and session
    MaxSealed,   \* bound: frames in all
    MaxWire      \* bound: frames in flight towards one end

ASSUME ChannelAssumption ==
    /\ Size \in [Msgs -> Nat]
    /\ MaxLine \in Nat /\ MaxResp \in Nat
    /\ CtlLine \in Nat /\ CtlResp \in Nat /\ AckCap \in Nat /\ AckCap <= CtlResp
    /\ MaxSessions \in Nat /\ MaxSeq \in Nat /\ MaxSealed \in Nat /\ MaxWire \in Nat

VARIABLES
    sess,     \* proto_session_t of the firmware and session_t of esp-ctl
    logs,     \* the client runs do_logs
    nextkey,  \* session keys derived so far
    offer,    \* the key of an OK line under way to the client, or 0
    wire,     \* frames under way to each end
    sealed,   \* history: every frame sealed
    sent,     \* history: lines sent under each key, by each end
    rcvd,     \* history: lines taken under each key, by each end
    tampered  \* history: the network did what TCP alone does not

vars == <<sess, logs, nextkey, offer, wire, sealed, sent, rcvd, tampered>>

Keys == 1..MaxSessions
Seqs == 0..MaxSeq
Ends == {"server", "client"}
Peer(e) == IF e = "server" THEN "client" ELSE "server"

Sealed  == [key : Keys, dir : Ends, seq : Nat, msg : Msgs]
Frame   == [seal : Sealed, seq : Nat, intact : BOOLEAN]
Session == [established : BOOLEAN, key : Nat, tx_seq : Nat, rx_seq : Nat]

-----------------------------------------------------------------------------
(* Faults: what a definition below would be with a plausible slip in it.   *)

\* The sequence check moved after a nonce taken from the frame itself.
NextInLineUnchecked(e, f) == f.seq = f.seal.seq

SameKeyAgain == 1

RecvCapOfLines(e) == IF e = "server" THEN MaxLine ELSE CtlLine

AdvanceForgotten(s) == s

OpensAnyDirection(e, f) == f.intact /\ f.seal.key = sess[e].key /\ f.seal.seq = f.seq

-----------------------------------------------------------------------------
(* Both proto.c files.                                                     *)

\* The salt is both fresh nonces, so no session gets the key of another.
DeriveKey == nextkey + 1

Wiped == [established |-> FALSE, key |-> 0, tx_seq |-> 0, rx_seq |-> 0]

Fresh(k) == [established |-> TRUE, key |-> k, tx_seq |-> 0, rx_seq |-> 0]

\* Replies and events may be longer than commands.  Each program has caps of
\* its own: the firmware's are options of its build, esp-ctl's are fixed.
SendCap(e) == IF e = "server" THEN MaxResp ELSE CtlLine

\* do_logs reads its first line, an acknowledgement or an event that overtook
\* it, into a buffer of its own.
FirstOfLogs(e) == e = "client" /\ logs /\ sess[e].rx_seq = 0

RecvCap(e) == IF e = "server" THEN MaxLine
              ELSE IF FirstOfLogs(e) THEN AckCap ELSE CtlResp

Advanced(s) == [s EXCEPT !.tx_seq = @ + 1]

\* The direction byte and the number in the nonce are the sealer's own.
Seal(e, m) == [key |-> sess[e].key, dir |-> e, seq |-> sess[e].tx_seq, msg |-> m]

NextInLine(e, f) == f.seq = sess[e].rx_seq

\* psa_aead_decrypt and EVP_Decrypt: the key, the nonce made of the peer's
\* direction byte and the header's number, the header as additional data.
Opens(e, f) ==
    /\ f.intact
    /\ f.seal.key = sess[e].key
    /\ f.seal.dir = Peer(e)
    /\ f.seal.seq = f.seq

Accepts(e, f) ==
    /\ Size[f.seal.msg] <= RecvCap(e)
    /\ NextInLine(e, f)
    /\ Opens(e, f)

-----------------------------------------------------------------------------

Init ==
    /\ sess = [e \in Ends |-> Wiped]
    /\ logs = FALSE
    /\ nextkey = 0
    /\ offer = 0
    /\ wire = [e \in Ends |-> <<>>]
    /\ sealed = {}
    /\ sent = [k \in Keys |-> [e \in Ends |-> <<>>]]
    /\ rcvd = [k \in Keys |-> [e \in Ends |-> <<>>]]
    /\ tampered = FALSE

\* A handshake on a new connection that auth_verify lets in: the server derives
\* a key, sends OK and opens its session.
ServerUp ==
    /\ nextkey < MaxSessions
    /\ ~sess["server"].established
    /\ ~sess["client"].established
    /\ nextkey' = nextkey + 1
    /\ offer' = DeriveKey
    /\ sess' = [sess EXCEPT !["server"] = Fresh(DeriveKey)]
    /\ wire' = [e \in Ends |-> <<>>]
    /\ UNCHANGED <<logs, sealed, sent, rcvd, tampered>>

\* The client reads OK, derives the same key and opens its session.
ClientUp ==
    /\ offer # 0
    /\ sess' = [sess EXCEPT !["client"] = Fresh(offer)]
    /\ offer' = 0
    /\ logs' \in BOOLEAN
    /\ UNCHANGED <<nextkey, wire, sealed, sent, rcvd, tampered>>

Send(e, m) ==
    LET f == Seal(e, m) IN
    /\ sess[e].established
    /\ sess[e].tx_seq < MaxSeq
    /\ Cardinality(sealed) < MaxSealed
    /\ Len(wire[Peer(e)]) < MaxWire
    /\ Size[m] <= SendCap(e)
    /\ sess' = [sess EXCEPT ![e] = Advanced(@)]
    /\ wire' = [wire EXCEPT ![Peer(e)] = Append(@, [seal |-> f, seq |-> f.seq, intact |-> TRUE])]
    /\ sealed' = sealed \cup {f}
    /\ sent' = [sent EXCEPT ![f.key][e] = Append(@, m)]
    /\ UNCHANGED <<logs, nextkey, offer, rcvd, tampered>>

Receive(e) ==
    LET f == Head(wire[e]) IN
    /\ sess[e].established
    /\ wire[e] # <<>>
    /\ Accepts(e, f)
    /\ sess' = [sess EXCEPT ![e].rx_seq = @ + 1]
    /\ wire' = [wire EXCEPT ![e] = Tail(@)]
    /\ rcvd' = [rcvd EXCEPT ![sess[e].key][e] = Append(@, f.seal.msg)]
    /\ UNCHANGED <<logs, nextkey, offer, sealed, sent, tampered>>

\* Any check fails: both receivers give the session up.
Refuse(e) ==
    /\ sess[e].established
    /\ wire[e] # <<>>
    /\ ~Accepts(e, Head(wire[e]))
    /\ sess' = [sess EXCEPT ![e] = Wiped]
    /\ wire' = [wire EXCEPT ![e] = <<>>]
    /\ UNCHANGED <<logs, nextkey, offer, sealed, sent, rcvd, tampered>>

\* End of stream, a failed send, exit, restart.
Close(e) ==
    /\ sess[e].established
    /\ sess' = [sess EXCEPT ![e] = Wiped]
    /\ wire' = [wire EXCEPT ![e] = <<>>]
    /\ UNCHANGED <<logs, nextkey, offer, sealed, sent, rcvd, tampered>>

End(e) == Receive(e) \/ Refuse(e) \/ Close(e) \/ \E m \in Msgs : Send(e, m)

-----------------------------------------------------------------------------
(* The network.                                                            *)

Lose(e) == wire[e] # <<>> /\ wire' = [wire EXCEPT ![e] = Tail(@)]

\* Any frame sealed so far, delivered again, to either end, or altered: its
\* header may carry another number, its bytes may not verify.
Inject(e) ==
    /\ Len(wire[e]) < MaxWire
    /\ \E f \in sealed, n \in Seqs, b \in BOOLEAN :
          LET g == [seal |-> f, seq |-> n, intact |-> b /\ n = f.seq] IN
          \/ wire' = [wire EXCEPT ![e] = Append(@, g)]
          \/ wire' = [wire EXCEPT ![e] = <<g>> \o @]

Network ==
    /\ tampered' = TRUE
    /\ \E e \in Ends : Lose(e) \/ Inject(e)
    /\ UNCHANGED <<sess, logs, nextkey, offer, sealed, sent, rcvd>>

Next == ServerUp \/ ClientUp \/ (\E e \in Ends : End(e)) \/ Network

Spec == Init /\ [][Next]_vars

-----------------------------------------------------------------------------
(* Properties.                                                             *)

\* Types of both session records, the wires and the histories; no end sends
\* more frames under a key than its sequence numbers allow.
TypeOK ==
    /\ sess \in [Ends -> Session]
    /\ logs \in BOOLEAN
    /\ nextkey \in Nat
    /\ offer \in Nat
    /\ wire \in [Ends -> Seq(Frame)]
    /\ sealed \subseteq Sealed
    /\ sent \in [Keys -> [Ends -> Seq(Msgs)]]
    /\ rcvd \in [Keys -> [Ends -> Seq(Msgs)]]
    /\ tampered \in BOOLEAN
    /\ \A k \in Keys, e \in Ends : Len(sent[k][e]) <= MaxSeq

\* Whatever the network does, an end takes a prefix of what its peer sent in
\* that session: nothing twice, skipped, reflected or from another session
\* (proto.c 118-142, esp-ctl proto.c 83-95).
PrefixDelivered ==
    \A k \in Keys, e \in Ends :
        /\ Len(rcvd[k][e]) <= Len(sent[k][Peer(e)])
        /\ \A i \in 1..Len(rcvd[k][e]) : rcvd[k][e][i] = sent[k][Peer(e)][i]

\* The session is, for its two ends, a pair of streams.
Abstract == INSTANCE Streams
IsStreams == Abstract!Spec

\* As long as the network behaves as TCP does and the firmware was built with
\* caps esp-ctl's agree with (docs/protocol.md 98-102; Kconfig allows others),
\* the one frame of its peer an end may refuse is the first of a do_logs
\* session, an event longer than the acknowledgement it has room for
\* (esp-ctl.c 356-357).
NothingRefused ==
    ~tampered /\ CtlLine <= MaxLine /\ MaxResp <= CtlResp =>
        \A e \in Ends : sess[e].established /\ wire[e] # <<>> =>
            LET f == Head(wire[e]) IN
            Accepts(e, f) \/ (FirstOfLogs(e) /\ Size[f.seal.msg] > AckCap)
==============================================================================
