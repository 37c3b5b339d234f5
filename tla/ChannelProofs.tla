---------------------------- MODULE ChannelProofs ----------------------------
(***************************************************************************)
(* Proofs about SecureChannel for any lines, caps and bounds: over any     *)
(* network an end takes a prefix of what its peer sent, so the channel     *)
(* implements Streams; until the network interferes no frame is refused.   *)
(***************************************************************************)
EXTENDS SecureChannel, TLAPS

\* The counters of a live session are the lengths of its histories, and keys
\* not derived yet have none.
Counters ==
    /\ nextkey <= MaxSessions
    /\ offer <= nextkey
    /\ \A e \in Ends : sess[e].established =>
          /\ sess[e].key \in 1..nextkey
          /\ sess[e].tx_seq = Len(sent[sess[e].key][e])
          /\ sess[e].rx_seq = Len(rcvd[sess[e].key][e])
    /\ \A k \in Keys, e \in Ends : k > nextkey => sent[k][e] = <<>> /\ rcvd[k][e] = <<>>
    /\ offer # 0 => /\ ~sess["client"].established
                    /\ sent[offer]["client"] = <<>> /\ rcvd[offer]["client"] = <<>>

\* A sealed frame holds the line its sender's history has at its number, and
\* the network can only deliver frames somebody sealed.
Provenance ==
    /\ \A f \in sealed : /\ f.seq < Len(sent[f.key][f.dir])
                         /\ sent[f.key][f.dir][f.seq + 1] = f.msg
    /\ \A e \in Ends : \A i \in 1..Len(wire[e]) : wire[e][i].seal \in sealed

Inv == TypeOK /\ Counters /\ Provenance /\ PrefixDelivered

-----------------------------------------------------------------------------

\* An end whose session is open, or will be with the key under way to it.
Live(e)  == sess[e].established \/ (e = "client" /\ offer # 0)
KeyOf(e) == IF sess[e].established THEN sess[e].key ELSE offer
Base(e)  == IF sess[e].established THEN sess[e].rx_seq ELSE 0

\* Until the network interferes the frames under way to a live end are consecutive
\* from the number it expects, up to the number its peer will use next.
Fifo ==
    /\ \A e \in Ends : Live(e) =>
          /\ \A i \in 1..Len(wire[e]) :
                /\ wire[e][i].intact
                /\ wire[e][i].seq = Base(e) + i - 1
                /\ wire[e][i].seal.seq = wire[e][i].seq
                /\ wire[e][i].seal.key = KeyOf(e)
                /\ wire[e][i].seal.dir = Peer(e)
                /\ Size[wire[e][i].seal.msg] <= SendCap(Peer(e))
          /\ sess[Peer(e)].established =>
                /\ sess[Peer(e)].key = KeyOf(e)
                /\ sess[Peer(e)].tx_seq = Base(e) + Len(wire[e])
    /\ offer # 0 /\ sess["server"].established =>
          /\ sess["server"].key = offer
          /\ sess["server"].rx_seq = 0
          /\ wire["server"] = <<>>

FifoInv == ~tampered => Fifo

-----------------------------------------------------------------------------
(* Facts about the data.                                                   *)

USE ChannelAssumption DEF Keys, Ends

LEMMA PeerFacts ==
    /\ \A e \in Ends : Peer(e) \in Ends /\ Peer(e) # e /\ Peer(Peer(e)) = e
    /\ \A e, d \in Ends : d = e \/ d = Peer(e)
    /\ Peer("server") = "client" /\ Peer("client") = "server"
BY DEF Peer

LEMMA AppendFacts ==
    ASSUME NEW T, NEW s \in Seq(T), NEW x \in T
    PROVE  /\ Append(s, x) \in Seq(T)
           /\ Len(Append(s, x)) = Len(s) + 1 /\ Len(s) \in Nat
           /\ \A i \in 1..Len(s) : Append(s, x)[i] = s[i]
           /\ Append(s, x)[Len(s) + 1] = x
OBVIOUS

LEMMA ConsFacts ==
    ASSUME NEW T, NEW s \in Seq(T), NEW x \in T
    PROVE  /\ <<x>> \o s \in Seq(T)
           /\ Len(<<x>> \o s) = Len(s) + 1 /\ Len(s) \in Nat
           /\ (<<x>> \o s)[1] = x
           /\ \A i \in 2..(Len(s) + 1) : (<<x>> \o s)[i] = s[i - 1]
OBVIOUS

\* OneMore(h, g, k, e, m): g is h with the line m after those of k and e.
OneMore(h, g, k, e, m) ==
    /\ g \in [Keys -> [Ends -> Seq(Msgs)]]
    /\ \A j \in Keys, d \in Ends : j # k \/ d # e => g[j][d] = h[j][d]
    /\ g[k][e] = Append(h[k][e], m)
    /\ Len(g[k][e]) = Len(h[k][e]) + 1
    /\ \A j \in Keys, d \in Ends : /\ Len(h[j][d]) \in Nat /\ Len(g[j][d]) \in Nat
                                  /\ Len(h[j][d]) <= Len(g[j][d])
    /\ \A j \in Keys, d \in Ends : \A i \in 1..Len(h[j][d]) : g[j][d][i] = h[j][d][i]
    /\ g[k][e][Len(h[k][e]) + 1] = m

LEMMA HistoryFacts ==
    \A h \in [Keys -> [Ends -> Seq(Msgs)]], k \in Keys, e \in Ends, m \in Msgs :
        OneMore(h, [h EXCEPT ![k][e] = Append(@, m)], k, e, m)
<1> TAKE h \in [Keys -> [Ends -> Seq(Msgs)]], k \in Keys, e \in Ends, m \in Msgs
<1> DEFINE g == [h EXCEPT ![k][e] = Append(@, m)]
<1>1. h[k][e] \in Seq(Msgs)
    OBVIOUS
<1>2. g[k][e] = Append(h[k][e], m)
    OBVIOUS
<1>3. \A j \in Keys, d \in Ends : j # k \/ d # e => g[j][d] = h[j][d]
    OBVIOUS
<1>4. g \in [Keys -> [Ends -> Seq(Msgs)]]
    <2>1. Append(h[k][e], m) \in Seq(Msgs)
        BY <1>1, AppendFacts
    <2>2. [h[k] EXCEPT ![e] = Append(h[k][e], m)] \in [Ends -> Seq(Msgs)]
        BY <2>1
    <2> QED BY <2>2
<1>5. Len(g[k][e]) = Len(h[k][e]) + 1 /\ Len(h[k][e]) \in Nat
    BY <1>1, <1>2, AppendFacts
<1>6. g[k][e][Len(h[k][e]) + 1] = m /\ \A i \in 1..Len(h[k][e]) : g[k][e][i] = h[k][e][i]
    BY <1>1, <1>2, AppendFacts
<1>7. \A j \in Keys, d \in Ends : Len(h[j][d]) \in Nat
    OBVIOUS
<1>8. \A j \in Keys, d \in Ends : Len(h[j][d]) <= Len(g[j][d])
    BY <1>3, <1>5, <1>7
<1>9. \A j \in Keys, d \in Ends : \A i \in 1..Len(h[j][d]) : g[j][d][i] = h[j][d][i]
    BY <1>3, <1>6
<1>10. \A j \in Keys, d \in Ends : Len(g[j][d]) \in Nat
    <2> HIDE DEF g
    <2>1. \A j \in Keys, d \in Ends : g[j][d] \in Seq(Msgs)
        BY <1>4
    <2> QED BY <2>1
<1> QED BY <1>2, <1>3, <1>4, <1>5, <1>6, <1>7, <1>8, <1>9, <1>10 DEF OneMore

\* Parts of TypeOK, so that a case need only look at what it changes.
S(x) == x \in [Ends -> Session]
W(x) == x \in [Ends -> Seq(Frame)]
H(x) == x \in [Keys -> [Ends -> Seq(Msgs)]]

LEMMA WipeType ==
    ASSUME S(sess), W(wire), NEW e \in Ends
    PROVE  S([sess EXCEPT ![e] = Wiped]) /\ W([wire EXCEPT ![e] = <<>>])
<1>1. Wiped \in Session
    BY DEF Wiped, Session
<1>2. <<>> \in Seq(Frame)
    OBVIOUS
<1> QED BY <1>1, <1>2 DEF S, W

LEMMA InitInv == Init => Inv /\ FifoInv
<1> SUFFICES ASSUME Init PROVE Inv /\ FifoInv
    OBVIOUS
<1>1. TypeOK
    <2>1. S(sess)
        <3>1. Wiped \in Session
            BY DEF Wiped, Session
        <3> QED BY <3>1 DEF Init, S
    <2>2. W(wire) /\ H(sent) /\ H(rcvd)
        BY DEF Init, W, H
    <2>3. \A k \in Keys, e \in Ends : Len(sent[k][e]) <= MaxSeq
        BY DEF Init
    <2> QED BY <2>1, <2>2, <2>3 DEF Init, TypeOK, S, W, H
<1>2. Counters
    BY DEF Init, Counters, Wiped
<1>3. Provenance
    BY DEF Init, Provenance
<1>4. PrefixDelivered
    BY PeerFacts DEF Init, PrefixDelivered
<1>5. Fifo
    BY DEF Init, Fifo, Live, Wiped
<1> QED BY <1>1, <1>2, <1>3, <1>4, <1>5 DEF Inv, FifoInv

-----------------------------------------------------------------------------
(* Sending and receiving.                                                  *)

LEMMA SendFacts ==
    ASSUME Inv, NEW e \in Ends, NEW m \in Msgs, Send(e, m)
    PROVE  /\ sess[e].key \in Keys /\ sess[e].key \in 1..nextkey
           /\ Seal(e, m) \in Sealed
           /\ Seal(e, m).key = sess[e].key /\ Seal(e, m).dir = e /\ Seal(e, m).msg = m
           /\ Seal(e, m).seq = Len(sent[sess[e].key][e])
           /\ sess[e].tx_seq = Len(sent[sess[e].key][e])
           /\ Len(sent[sess[e].key][e]) < MaxSeq
           /\ sent' = [sent EXCEPT ![sess[e].key][e] = Append(@, m)]
<1>1. sess[e] \in Session /\ nextkey \in Nat /\ nextkey <= MaxSessions
    BY DEF Inv, TypeOK, Counters
<1>2. sess[e].key \in 1..nextkey /\ sess[e].tx_seq = Len(sent[sess[e].key][e])
    BY DEF Inv, Counters, Send
<1>3. sess[e].key \in Keys
    BY <1>1, <1>2
<1>4. sess[e].tx_seq \in Nat /\ sess[e].tx_seq < MaxSeq
    BY <1>1 DEF Send, Session
<1>5. Seal(e, m) \in Sealed
    BY <1>3, <1>4 DEF Seal, Sealed
<1>6. sent' = [sent EXCEPT ![sess[e].key][e] = Append(@, m)]
    BY DEF Send, Seal
<1> QED BY <1>2, <1>3, <1>4, <1>5, <1>6 DEF Seal

LEMMA ReceiveFacts ==
    ASSUME Inv, NEW e \in Ends, Receive(e)
    PROVE  /\ sess[e].key \in Keys /\ sess[e].key \in 1..nextkey
           /\ Head(wire[e]) = wire[e][1] /\ Len(wire[e]) >= 1 /\ wire[e][1] \in Frame
           /\ Head(wire[e]).seal.msg \in Msgs
           /\ sess[e].rx_seq = Len(rcvd[sess[e].key][e])
           /\ Len(rcvd[sess[e].key][e]) < Len(sent[sess[e].key][Peer(e)])
           /\ sent[sess[e].key][Peer(e)][Len(rcvd[sess[e].key][e]) + 1] = Head(wire[e]).seal.msg
<1>1. sess[e] \in Session /\ nextkey \in Nat /\ nextkey <= MaxSessions /\ wire[e] \in Seq(Frame)
    BY DEF Inv, TypeOK, Counters
<1>2. sess[e].key \in 1..nextkey /\ sess[e].rx_seq = Len(rcvd[sess[e].key][e])
    BY DEF Inv, Counters, Receive
<1>3. sess[e].key \in Keys
    BY <1>1, <1>2
<1>4. wire[e] # <<>>
    BY DEF Receive
<1>5. Head(wire[e]) = wire[e][1] /\ Len(wire[e]) >= 1 /\ wire[e][1] \in Frame
    BY <1>1, <1>4
<1>6. Head(wire[e]).seal \in sealed
    <2>1. 1 \in 1..Len(wire[e])
        BY <1>1, <1>5
    <2> QED BY <1>5, <2>1 DEF Inv, Provenance
<1>7. Head(wire[e]).seal \in Sealed
    BY <1>6 DEF Inv, TypeOK
<1>8. /\ Head(wire[e]).seal.key = sess[e].key
      /\ Head(wire[e]).seal.dir = Peer(e)
      /\ Head(wire[e]).seal.seq = sess[e].rx_seq
    BY DEF Receive, Accepts, NextInLine, Opens
<1> QED BY <1>2, <1>3, <1>5, <1>6, <1>7, <1>8 DEF Inv, Provenance, Sealed

LEMMA SentFacts ==
    ASSUME Inv, NEW e \in Ends, NEW m \in Msgs, Send(e, m)
    PROVE  OneMore(sent, sent', sess[e].key, e, m)
<1>1. sent \in [Keys -> [Ends -> Seq(Msgs)]]
    BY DEF Inv, TypeOK
<1>2. sess[e].key \in Keys /\ sent' = [sent EXCEPT ![sess[e].key][e] = Append(@, m)]
    BY SendFacts
<1> QED BY <1>1, <1>2, HistoryFacts

LEMMA RcvdFacts ==
    ASSUME Inv, NEW e \in Ends, Receive(e)
    PROVE  OneMore(rcvd, rcvd', sess[e].key, e, Head(wire[e]).seal.msg)
<1>1. rcvd \in [Keys -> [Ends -> Seq(Msgs)]]
    BY DEF Inv, TypeOK
<1>2. /\ sess[e].key \in Keys /\ Head(wire[e]).seal.msg \in Msgs
      /\ rcvd' = [rcvd EXCEPT ![sess[e].key][e] = Append(@, Head(wire[e]).seal.msg)]
    BY ReceiveFacts DEF Receive
<1> QED BY <1>1, <1>2, HistoryFacts

-----------------------------------------------------------------------------
(* Type correctness.                                                       *)

LEMMA TypeStep ==
    ASSUME Inv, [Next]_vars
    PROVE  TypeOK'
<1> DEFINE N == nextkey' \in Nat /\ offer' \in Nat
           F == sealed' \subseteq Sealed
           B == \A k \in Keys, e \in Ends : Len(sent'[k][e]) <= MaxSeq
<1>0. TypeOK
    BY DEF Inv
<1>t. tampered' \in BOOLEAN
    <2>1. UNCHANGED tampered \/ tampered' = TRUE
        BY DEF Next, Network, ServerUp, ClientUp, End, Send, Receive, Refuse, Close, vars
    <2> QED BY <1>0, <2>1, Zenon DEF TypeOK
<1>l. logs' \in BOOLEAN
    <2>1. UNCHANGED logs \/ logs' \in BOOLEAN
        BY DEF Next, Network, ServerUp, ClientUp, End, Send, Receive, Refuse, Close, vars
    <2> QED BY <1>0, <2>1, Zenon DEF TypeOK
<1>q. ASSUME S(sess'), W(wire'), H(sent'), H(rcvd'), N, F, B PROVE TypeOK'
    BY <1>q, <1>t, <1>l DEF TypeOK, S, W, H
<1>k. /\ S(sess) /\ W(wire) /\ H(sent) /\ H(rcvd)
      /\ UNCHANGED sess => S(sess')
      /\ UNCHANGED wire => W(wire')
      /\ UNCHANGED sent => H(sent') /\ B
      /\ UNCHANGED rcvd => H(rcvd')
      /\ UNCHANGED <<nextkey, offer>> => N
      /\ UNCHANGED sealed => F
    BY <1>0 DEF TypeOK, S, W, H
<1> HIDE DEF N, F, B
<1>f. \A k \in Nat : Fresh(k) \in Session
    BY DEF Fresh, Session
<1>1. ASSUME ServerUp PROVE TypeOK'
    <2>1. DeriveKey \in Nat
        BY <1>0 DEF TypeOK, DeriveKey
    <2>2. S(sess')
        BY <1>1, <1>k, <1>f, <2>1 DEF ServerUp, S
    <2>3. W(wire')
        BY <1>1 DEF ServerUp, W
    <2>4. N
        BY <1>1, <1>0, <2>1 DEF ServerUp, N, TypeOK
    <2> QED BY <1>1, <1>q, <1>k, <2>2, <2>3, <2>4 DEF ServerUp
<1>2. ASSUME ClientUp PROVE TypeOK'
    <2>1. S(sess')
        BY <1>2, <1>0, <1>k, <1>f DEF ClientUp, S, TypeOK
    <2>2. N
        BY <1>2, <1>0 DEF ClientUp, N, TypeOK
    <2> QED BY <1>2, <1>q, <1>k, <2>1, <2>2 DEF ClientUp
<1>3. ASSUME NEW e \in Ends, NEW m \in Msgs, Send(e, m) PROVE TypeOK'
    <2>1. S(sess')
        <3>1. Advanced(sess[e]) \in Session
            BY <1>k DEF S, Advanced, Session
        <3> QED BY <1>3, <1>k, <3>1 DEF Send, S
    <2>2. W(wire')
        <3>1. [seal |-> Seal(e, m), seq |-> Seal(e, m).seq, intact |-> TRUE] \in Frame
            BY <1>3, SendFacts DEF Frame, Sealed
        <3>2. Append(wire[Peer(e)], [seal |-> Seal(e, m), seq |-> Seal(e, m).seq, intact |-> TRUE])
                  \in Seq(Frame)
            BY <1>k, <3>1, PeerFacts, AppendFacts DEF W
        <3> QED BY <1>3, <1>k, <3>2 DEF Send, W
    <2>3. F
        <3>1. sealed' = sealed \cup {Seal(e, m)} /\ Seal(e, m) \in Sealed
            BY <1>3, SendFacts DEF Send
        <3>2. sealed \subseteq Sealed
            BY <1>0 DEF TypeOK
        <3> QED BY <3>1, <3>2 DEF F
    <2>4. H(sent')
        BY <1>3, SentFacts DEF H, OneMore
    <2>5. B
        <3>1. \A k \in Keys, d \in Ends : Len(sent[k][d]) \in Nat
            BY <1>k DEF H
        <3>2. Len(sent'[sess[e].key][e]) = Len(sent[sess[e].key][e]) + 1
              /\ \A k \in Keys, d \in Ends : k # sess[e].key \/ d # e => sent'[k][d] = sent[k][d]
            BY <1>3, SentFacts DEF OneMore
        <3>3. \A k \in Keys, d \in Ends : Len(sent[k][d]) <= MaxSeq
            BY <1>0 DEF TypeOK
        <3>4. /\ sess[e].key \in Keys
              /\ Len(sent[sess[e].key][e]) \in Nat /\ Len(sent[sess[e].key][e]) < MaxSeq
            BY <1>3, <3>1, SendFacts
        <3>5. Len(sent'[sess[e].key][e]) <= MaxSeq
            BY <3>2, <3>4
        <3> QED BY <3>2, <3>3, <3>5 DEF B
    <2> QED BY <1>3, <1>q, <1>k, <2>1, <2>2, <2>3, <2>4, <2>5 DEF Send
<1>4. ASSUME NEW e \in Ends, Receive(e) PROVE TypeOK'
    <2>1. S(sess')
        <3>1. [sess[e] EXCEPT !.rx_seq = sess[e].rx_seq + 1] \in Session
            BY <1>k DEF S, Session
        <3> QED BY <1>4, <1>k, <3>1 DEF Receive, S
    <2>2. W(wire')
        <3>1. wire[e] \in Seq(Frame) /\ wire[e] # <<>>
            BY <1>4, <1>k DEF W, Receive
        <3>2. Tail(wire[e]) \in Seq(Frame)
            BY <3>1
        <3> QED BY <1>4, <1>k, <3>2 DEF Receive, W
    <2>3. H(rcvd')
        BY <1>4, RcvdFacts DEF H, OneMore
    <2> QED BY <1>4, <1>q, <1>k, <2>1, <2>2, <2>3 DEF Receive
<1>5. ASSUME NEW e \in Ends, Refuse(e) \/ Close(e) PROVE TypeOK'
    BY <1>5, <1>q, <1>k, WipeType DEF Refuse, Close
<1>6. ASSUME Network PROVE TypeOK'
    <2>1. W(wire')
        <3>1. PICK e \in Ends : Lose(e) \/ Inject(e)
            BY <1>6 DEF Network
        <3>2. wire[e] \in Seq(Frame)
            BY <1>k DEF W
        <3>3. CASE Lose(e)
            <4>1. Tail(wire[e]) \in Seq(Frame)
                BY <3>2, <3>3 DEF Lose
            <4> QED BY <1>k, <3>3, <4>1 DEF Lose, W
        <3>4. CASE Inject(e)
            <4>1. PICK f \in sealed, n \in Seqs, b \in BOOLEAN :
                      LET g == [seal |-> f, seq |-> n, intact |-> b /\ n = f.seq] IN
                      \/ wire' = [wire EXCEPT ![e] = Append(@, g)]
                      \/ wire' = [wire EXCEPT ![e] = <<g>> \o @]
                BY <3>4 DEF Inject
            <4> DEFINE g == [seal |-> f, seq |-> n, intact |-> b /\ n = f.seq]
            <4>2. g \in Frame
                <5>1. f \in Sealed /\ n \in Nat
                    BY <1>0 DEF TypeOK, Seqs
                <5>2. (b /\ n = f.seq) \in BOOLEAN
                    OBVIOUS
                <5> QED BY <5>1, <5>2, Zenon DEF Frame
            <4> HIDE DEF g
            <4>3. Append(wire[e], g) \in Seq(Frame) /\ <<g>> \o wire[e] \in Seq(Frame)
                BY <3>2, <4>2
            <4>4. wire' = [wire EXCEPT ![e] = Append(@, g)] \/ wire' = [wire EXCEPT ![e] = <<g>> \o @]
                BY <4>1 DEF g
            <4> QED BY <1>k, <4>3, <4>4 DEF W
        <3> QED BY <3>1, <3>3, <3>4
    <2> QED BY <1>6, <1>q, <1>k, <2>1 DEF Network
<1>7. CASE UNCHANGED vars
    BY <1>7, <1>q, <1>k DEF vars
<1> QED BY <1>1, <1>2, <1>3, <1>4, <1>5, <1>6, <1>7 DEF Next, End

-----------------------------------------------------------------------------
(* Counters are lengths.                                                   *)

LEMMA CounterStep ==
    ASSUME Inv, [Next]_vars
    PROVE  Counters'
<1>0. /\ TypeOK /\ Counters /\ nextkey \in Nat /\ offer \in Nat
      /\ sess \in [Ends -> Session] /\ nextkey <= MaxSessions /\ offer <= nextkey
    BY DEF Inv, TypeOK, Counters
<1>1. ASSUME ServerUp PROVE Counters'
    <2>1. /\ nextkey' = nextkey + 1 /\ offer' = nextkey + 1
          /\ sess' = [sess EXCEPT !["server"] = Fresh(nextkey + 1)]
          /\ nextkey < MaxSessions /\ UNCHANGED <<sent, rcvd>>
          /\ ~sess["client"].established
        BY <1>1 DEF ServerUp, DeriveKey
    <2>2. \A e \in Ends : sent[nextkey + 1][e] = <<>> /\ rcvd[nextkey + 1][e] = <<>>
        BY <1>0, <2>1 DEF Counters
    <2>3. \A e \in Ends : sess'[e].established => e = "server" /\ sess'[e] = Fresh(nextkey + 1)
        BY <1>0, <2>1
    <2>4. \A e \in Ends : sess'[e].established =>
              /\ sess'[e].key \in 1..nextkey'
              /\ sess'[e].tx_seq = Len(sent'[sess'[e].key][e])
              /\ sess'[e].rx_seq = Len(rcvd'[sess'[e].key][e])
        BY <1>0, <2>1, <2>2, <2>3 DEF Fresh
    <2>5. \A k \in Keys, e \in Ends : k > nextkey' => sent'[k][e] = <<>> /\ rcvd'[k][e] = <<>>
        BY <1>0, <2>1 DEF Counters
    <2> QED BY <1>0, <2>1, <2>2, <2>4, <2>5 DEF Counters
<1>2. ASSUME ClientUp PROVE Counters'
    <2>1. \A e \in Ends : sess'[e].established =>
              \/ e = "client" /\ sess'[e] = Fresh(offer)
              \/ e = "server" /\ sess'[e] = sess[e]
        BY <1>0, <1>2 DEF ClientUp
    <2>2. offer \in 1..nextkey /\ UNCHANGED <<nextkey, sent, rcvd>> /\ offer' = 0
        BY <1>0, <1>2 DEF ClientUp
    <2>3. \A e \in Ends : sess'[e].established =>
              /\ sess'[e].key \in 1..nextkey'
              /\ sess'[e].tx_seq = Len(sent'[sess'[e].key][e])
              /\ sess'[e].rx_seq = Len(rcvd'[sess'[e].key][e])
        BY <1>0, <1>2, <2>1, <2>2 DEF Counters, Fresh, ClientUp
    <2> QED BY <1>0, <2>2, <2>3 DEF Counters
<1>3. ASSUME NEW e \in Ends, NEW m \in Msgs, Send(e, m) PROVE Counters'
    <2> DEFINE k == sess[e].key
    <2>1. /\ k \in Keys /\ k \in 1..nextkey /\ sess[e].tx_seq = Len(sent[k][e])
          /\ sess[e].established
        BY <1>3, SendFacts DEF Send
    <2>2. /\ sess' = [sess EXCEPT ![e] = Advanced(sess[e])]
          /\ UNCHANGED <<nextkey, offer, rcvd>>
        BY <1>3 DEF Send
    <2>3. /\ Advanced(sess[e]).established /\ Advanced(sess[e]).key = k
          /\ Advanced(sess[e]).tx_seq = sess[e].tx_seq + 1
          /\ Advanced(sess[e]).rx_seq = sess[e].rx_seq
        BY <1>0, <2>1 DEF Advanced, Session
    <2>4. /\ \A j \in Keys, d \in Ends : j # k \/ d # e => sent'[j][d] = sent[j][d]
          /\ Len(sent'[k][e]) = Len(sent[k][e]) + 1
        BY <1>3, SentFacts DEF OneMore
    <2> HIDE DEF k
    <2>5. \A d \in Ends : sess'[d].established =>
              /\ sess'[d].key \in 1..nextkey'
              /\ sess'[d].tx_seq = Len(sent'[sess'[d].key][d])
              /\ sess'[d].rx_seq = Len(rcvd'[sess'[d].key][d])
        <3> TAKE d \in Ends
        <3>1. CASE d = e
            <4>1. sess'[d] = Advanced(sess[e])
                BY <1>0, <2>2, <3>1
            <4>2. sess[e].rx_seq = Len(rcvd[k][e])
                BY <1>0, <2>1 DEF Counters, k
            <4> QED BY <2>1, <2>2, <2>3, <2>4, <3>1, <4>1, <4>2
        <3>2. CASE d # e
            <4>1. sess'[d] = sess[d]
                BY <1>0, <2>2, <3>2
            <4>2. sess[d].established => sess[d].key \in Keys
                BY <1>0 DEF Counters
            <4> QED BY <1>0, <2>2, <2>4, <3>2, <4>1, <4>2 DEF Counters
        <3> QED BY <3>1, <3>2
    <2>6. \A j \in Keys, d \in Ends : j > nextkey' => sent'[j][d] = <<>> /\ rcvd'[j][d] = <<>>
        <3>1. SUFFICES ASSUME NEW j \in Keys, NEW d \in Ends, j > nextkey'
                       PROVE  sent'[j][d] = <<>> /\ rcvd'[j][d] = <<>>
            OBVIOUS
        <3>2. nextkey' = nextkey /\ nextkey \in Nat /\ k <= nextkey
            BY <1>0, <2>1, <2>2 DEF Counters
        <3>3. j # k
            BY <3>1, <3>2
        <3>4. sent[j][d] = <<>> /\ rcvd[j][d] = <<>>
            BY <1>0, <3>1, <3>2 DEF Counters
        <3> QED BY <2>2, <2>4, <3>3, <3>4
    <2>7. offer' # 0 => /\ ~sess'["client"].established
                        /\ sent'[offer']["client"] = <<>> /\ rcvd'[offer']["client"] = <<>>
        <3>1. offer # 0 => e # "client" /\ offer \in Keys
            BY <1>0, <2>1 DEF Counters
        <3>2. e # "client" => sess'["client"] = sess["client"]
            BY <1>0, <2>2
        <3> QED BY <1>0, <2>2, <2>4, <3>1, <3>2 DEF Counters
    <2> QED BY <1>0, <2>2, <2>5, <2>6, <2>7 DEF Counters
<1>4. ASSUME NEW e \in Ends, Receive(e) PROVE Counters'
    <2> DEFINE k == sess[e].key
               r == [sess[e] EXCEPT !.rx_seq = sess[e].rx_seq + 1]
    <2>1. /\ k \in Keys /\ k \in 1..nextkey /\ sess[e].rx_seq = Len(rcvd[k][e])
          /\ sess[e].established
        BY <1>4, ReceiveFacts DEF Receive
    <2>2. sess' = [sess EXCEPT ![e] = r] /\ UNCHANGED <<nextkey, offer, sent>>
        BY <1>4 DEF Receive
    <2>3. /\ r.established /\ r.key = k
          /\ r.rx_seq = sess[e].rx_seq + 1 /\ r.tx_seq = sess[e].tx_seq
        BY <1>0, <2>1 DEF Session
    <2>4. /\ \A j \in Keys, d \in Ends : j # k \/ d # e => rcvd'[j][d] = rcvd[j][d]
          /\ Len(rcvd'[k][e]) = Len(rcvd[k][e]) + 1
        BY <1>4, RcvdFacts DEF OneMore
    <2> HIDE DEF k, r
    <2>5. \A d \in Ends : sess'[d].established =>
              /\ sess'[d].key \in 1..nextkey'
              /\ sess'[d].tx_seq = Len(sent'[sess'[d].key][d])
              /\ sess'[d].rx_seq = Len(rcvd'[sess'[d].key][d])
        <3> TAKE d \in Ends
        <3>1. CASE d = e
            <4>1. sess'[d] = r
                BY <1>0, <2>2, <3>1
            <4>2. sess[e].tx_seq = Len(sent[k][e])
                BY <1>0, <2>1 DEF Counters, k
            <4> QED BY <2>1, <2>2, <2>3, <2>4, <3>1, <4>1, <4>2
        <3>2. CASE d # e
            <4>1. sess'[d] = sess[d]
                BY <1>0, <2>2, <3>2
            <4>2. sess[d].established => sess[d].key \in Keys
                BY <1>0 DEF Counters
            <4> QED BY <1>0, <2>2, <2>4, <3>2, <4>1, <4>2 DEF Counters
        <3> QED BY <3>1, <3>2
    <2>6. \A j \in Keys, d \in Ends : j > nextkey' => sent'[j][d] = <<>> /\ rcvd'[j][d] = <<>>
        <3>1. SUFFICES ASSUME NEW j \in Keys, NEW d \in Ends, j > nextkey'
                       PROVE  sent'[j][d] = <<>> /\ rcvd'[j][d] = <<>>
            OBVIOUS
        <3>2. nextkey' = nextkey /\ nextkey \in Nat /\ k <= nextkey
            BY <1>0, <2>1, <2>2 DEF Counters
        <3>3. j # k
            BY <3>1, <3>2
        <3>4. sent[j][d] = <<>> /\ rcvd[j][d] = <<>>
            BY <1>0, <3>1, <3>2 DEF Counters
        <3> QED BY <2>2, <2>4, <3>3, <3>4
    <2>7. offer' # 0 => /\ ~sess'["client"].established
                        /\ sent'[offer']["client"] = <<>> /\ rcvd'[offer']["client"] = <<>>
        <3>1. offer # 0 => e # "client" /\ offer \in Keys
            BY <1>0, <2>1 DEF Counters
        <3>2. e # "client" => sess'["client"] = sess["client"]
            BY <1>0, <2>2
        <3> QED BY <1>0, <2>2, <2>4, <3>1, <3>2 DEF Counters
    <2> QED BY <1>0, <2>2, <2>5, <2>6, <2>7 DEF Counters
<1>5. ASSUME NEW e \in Ends, Refuse(e) \/ Close(e) PROVE Counters'
    <2>1. sess' = [sess EXCEPT ![e] = Wiped] /\ UNCHANGED <<nextkey, offer, sent, rcvd>>
        BY <1>5 DEF Refuse, Close
    <2>2. \A d \in Ends : sess'[d].established => sess'[d] = sess[d]
        BY <1>0, <2>1 DEF Wiped
    <2> QED BY <1>0, <2>1, <2>2 DEF Counters
<1>6. CASE Network \/ UNCHANGED vars
    BY <1>0, <1>6 DEF Network, vars, Counters
<1> QED BY <1>1, <1>2, <1>3, <1>4, <1>5, <1>6 DEF Next, End

-----------------------------------------------------------------------------
(* Where frames come from.                                                 *)

LEMMA ProvenanceStep ==
    ASSUME Inv, [Next]_vars
    PROVE  Provenance'
<1>i. TypeOK /\ Provenance
    BY DEF Inv
<1>a. wire \in [Ends -> Seq(Frame)] /\ sealed \subseteq Sealed
    BY <1>i DEF TypeOK
<1>b. ASSUME NEW k \in Keys, NEW d \in Ends PROVE Len(sent[k][d]) \in Nat
    <2>1. sent[k][d] \in Seq(Msgs)
        BY <1>i DEF TypeOK
    <2> QED BY <2>1
<1>0. /\ TypeOK /\ Provenance /\ sealed \subseteq Sealed
      /\ \A d \in Ends : wire[d] \in Seq(Frame)
      /\ \A k \in Keys, d \in Ends : Len(sent[k][d]) \in Nat
    BY <1>i, <1>a, <1>b
<1>1. ASSUME UNCHANGED <<sealed, sent>>,
             \A d \in Ends : \/ wire'[d] = wire[d]
                             \/ wire'[d] = <<>>
                             \/ wire[d] # <<>> /\ wire'[d] = Tail(wire[d])
      PROVE  Provenance'
    <2>1. ASSUME NEW d \in Ends, NEW i \in 1..Len(wire'[d]) PROVE wire'[d][i].seal \in sealed
        <3>1. CASE wire'[d] = wire[d]
            BY <1>0, <2>1, <3>1 DEF Provenance
        <3>2. CASE wire'[d] = <<>>
            BY <2>1, <3>2
        <3>3. CASE wire[d] # <<>> /\ wire'[d] = Tail(wire[d])
            <4>1. i + 1 \in 1..Len(wire[d]) /\ wire'[d][i] = wire[d][i + 1]
                BY <1>0, <2>1, <3>3
            <4> QED BY <1>0, <4>1 DEF Provenance
        <3> QED BY <1>1, <3>1, <3>2, <3>3
    <2> QED BY <1>0, <1>1, <2>1 DEF Provenance
<1>2. ASSUME ServerUp PROVE Provenance'
    BY <1>1, <1>2 DEF ServerUp
<1>3. ASSUME NEW e \in Ends, NEW m \in Msgs, Send(e, m) PROVE Provenance'
    <2> DEFINE k == sess[e].key
               g == [seal |-> Seal(e, m), seq |-> Seal(e, m).seq, intact |-> TRUE]
    <2>1. sealed' = sealed \cup {Seal(e, m)} /\ wire' = [wire EXCEPT ![Peer(e)] = Append(@, g)]
        BY <1>3 DEF Send
    <2>2. /\ k \in Keys /\ Seal(e, m).key = k /\ Seal(e, m).dir = e /\ Seal(e, m).msg = m
          /\ Seal(e, m).seq = Len(sent[k][e])
        BY <1>3, SendFacts
    <2>3. OneMore(sent, sent', k, e, m)
        BY <1>3, SentFacts
    <2>g. g.seal = Seal(e, m)
        OBVIOUS
    <2> HIDE DEF k, g
    <2>4. ASSUME NEW f \in sealed'
          PROVE  f.seq < Len(sent'[f.key][f.dir]) /\ sent'[f.key][f.dir][f.seq + 1] = f.msg
        <3>1. CASE f \in sealed
            <4>1. f.key \in Keys /\ f.dir \in Ends /\ f.seq \in Nat
                BY <1>0, <3>1 DEF Sealed
            <4>2. f.seq < Len(sent[f.key][f.dir]) /\ sent[f.key][f.dir][f.seq + 1] = f.msg
                BY <1>0, <3>1 DEF Provenance
            <4>3. Len(sent[f.key][f.dir]) <= Len(sent'[f.key][f.dir])
                BY <2>3, <4>1 DEF OneMore
            <4>4. Len(sent[f.key][f.dir]) \in Nat /\ Len(sent'[f.key][f.dir]) \in Nat
                BY <2>3, <4>1 DEF OneMore
            <4>5. f.seq + 1 \in 1..Len(sent[f.key][f.dir])
                BY <4>1, <4>2, <4>4
            <4>6. sent'[f.key][f.dir][f.seq + 1] = sent[f.key][f.dir][f.seq + 1]
                BY <2>3, <4>1, <4>5 DEF OneMore
            <4>7. f.seq < Len(sent'[f.key][f.dir])
                <5> DEFINE a == Len(sent[f.key][f.dir])
                           b == Len(sent'[f.key][f.dir])
                <5>1. f.seq \in Nat /\ a \in Nat /\ b \in Nat /\ f.seq < a /\ a <= b
                    BY <4>1, <4>2, <4>3, <4>4
                <5>2. SUFFICES f.seq < b
                    OBVIOUS
                <5> HIDE DEF a, b
                <5> QED BY <5>1
            <4>8. sent'[f.key][f.dir][f.seq + 1] = f.msg
                BY <4>2, <4>6
            <4> QED BY <4>7, <4>8
        <3>2. CASE f = Seal(e, m)
            <4>1. Len(sent'[k][e]) = Len(sent[k][e]) + 1 /\ sent'[k][e][Len(sent[k][e]) + 1] = m
                BY <2>3 DEF OneMore
            <4>2. Len(sent[k][e]) \in Nat
                BY <1>0, <2>2
            <4>3. f.key = k /\ f.dir = e /\ f.msg = m /\ f.seq = Len(sent[k][e])
                BY <2>2, <3>2
            <4>4. Len(sent[k][e]) < Len(sent'[k][e])
                BY <4>1, <4>2
            <4> QED BY <4>1, <4>3, <4>4
        <3> QED BY <2>1, <3>1, <3>2
    <2>5. ASSUME NEW d \in Ends, NEW i \in 1..Len(wire'[d]) PROVE wire'[d][i].seal \in sealed'
        <3>1. CASE d = Peer(e)
            <4>1. wire'[d] = Append(wire[d], g)
                BY <1>a, <2>1, <3>1
            <4>2. Len(wire[d]) \in Nat /\ Len(wire'[d]) = Len(wire[d]) + 1
                  /\ i \in 1..Len(wire'[d])
                BY <1>0, <2>5, <4>1
            <4>3. CASE i \in 1..Len(wire[d])
                <5>1. wire'[d][i] = wire[d][i]
                    BY <1>0, <4>1, <4>3
                <5> QED BY <1>0, <2>1, <4>3, <5>1 DEF Provenance
            <4>4. CASE i = Len(wire[d]) + 1
                BY <1>0, <2>1, <2>g, <4>1, <4>4
            <4> QED BY <4>2, <4>3, <4>4
        <3>2. CASE d # Peer(e)
            <4>1. wire'[d] = wire[d]
                BY <1>a, <2>1, <3>2
            <4>2. i \in 1..Len(wire[d])
                BY <2>5, <4>1
            <4>3. wire[d][i].seal \in sealed
                BY <1>0, <4>2 DEF Provenance
            <4>4. sealed \subseteq sealed'
                BY <2>1
            <4> QED BY <4>1, <4>3, <4>4
        <3> QED BY <3>1, <3>2
    <2> QED BY <2>4, <2>5 DEF Provenance
<1>4. ASSUME NEW e \in Ends, Receive(e) PROVE Provenance'
    BY <1>1, <1>4, <1>a DEF Receive
<1>5. ASSUME NEW e \in Ends, Refuse(e) \/ Close(e) PROVE Provenance'
    BY <1>1, <1>5, <1>a DEF Refuse, Close
<1>6. ASSUME Network PROVE Provenance'
    <2>1. PICK e \in Ends : Lose(e) \/ Inject(e)
        BY <1>6 DEF Network
    <2>2. UNCHANGED <<sealed, sent>>
        BY <1>6 DEF Network
    <2>3. CASE Lose(e)
        BY <1>1, <1>a, <2>2, <2>3 DEF Lose
    <2>4. CASE Inject(e)
        <3>1. PICK f \in sealed, n \in Seqs, b \in BOOLEAN :
                  LET g == [seal |-> f, seq |-> n, intact |-> b /\ n = f.seq] IN
                  \/ wire' = [wire EXCEPT ![e] = Append(@, g)]
                  \/ wire' = [wire EXCEPT ![e] = <<g>> \o @]
            BY <2>4 DEF Inject
        <3> DEFINE g == [seal |-> f, seq |-> n, intact |-> b /\ n = f.seq]
        <3>2. g.seal \in sealed /\ g \in Frame
            <4>1. f \in Sealed /\ n \in Nat
                BY <1>0 DEF Seqs
            <4>2. (b /\ n = f.seq) \in BOOLEAN
                OBVIOUS
            <4> QED BY <4>1, <4>2, Zenon DEF Frame
        <3> HIDE DEF g
        <3>3. wire'[e] = Append(wire[e], g) \/ wire'[e] = <<g>> \o wire[e]
            BY <1>a, <3>1 DEF g
        <3>4. \A d \in Ends : d # e => wire'[d] = wire[d]
            BY <1>a, <3>1 DEF g
        <3>5. ASSUME NEW i \in 1..Len(wire'[e]) PROVE wire'[e][i].seal \in sealed
            <4>1. CASE wire'[e] = Append(wire[e], g)
                <5>1. \/ i = Len(wire[e]) + 1 /\ wire'[e][i] = g
                      \/ i \in 1..Len(wire[e]) /\ wire'[e][i] = wire[e][i]
                    <6>1. wire[e] \in Seq(Frame)
                        BY <1>0
                    <6>2. i \in 1..(Len(wire[e]) + 1)
                        BY <3>2, <3>5, <4>1, <6>1, AppendFacts
                    <6>3. i = Len(wire[e]) + 1 \/ i \in 1..Len(wire[e])
                        BY <6>1, <6>2
                    <6>4. wire'[e][Len(wire[e]) + 1] = g
                          /\ \A j \in 1..Len(wire[e]) : wire'[e][j] = wire[e][j]
                        BY <3>2, <4>1, <6>1, AppendFacts
                    <6> QED BY <6>3, <6>4
                <5> QED BY <1>0, <3>2, <5>1 DEF Provenance
            <4>2. CASE wire'[e] = <<g>> \o wire[e]
                <5>1. \/ i = 1 /\ wire'[e][i] = g
                      \/ i - 1 \in 1..Len(wire[e]) /\ wire'[e][i] = wire[e][i - 1]
                    <6>1. wire[e] \in Seq(Frame)
                        BY <1>0
                    <6>2. i \in 1..(Len(wire[e]) + 1) /\ Len(wire[e]) \in Nat
                        BY <3>2, <3>5, <4>2, <6>1, ConsFacts
                    <6>3. i = 1 \/ i \in 2..(Len(wire[e]) + 1)
                        BY <6>2
                    <6>4. i \in 2..(Len(wire[e]) + 1) => i - 1 \in 1..Len(wire[e])
                        BY <6>2
                    <6>5. wire'[e][1] = g
                          /\ \A j \in 2..(Len(wire[e]) + 1) : wire'[e][j] = wire[e][j - 1]
                        BY <3>2, <4>2, <6>1, ConsFacts
                    <6> QED BY <6>3, <6>4, <6>5
                <5> QED BY <1>0, <3>2, <5>1 DEF Provenance
            <4> QED BY <3>3, <4>1, <4>2
        <3>6. \A d \in Ends : \A i \in 1..Len(wire'[d]) : wire'[d][i].seal \in sealed
            <4> TAKE d \in Ends
            <4> TAKE i \in 1..Len(wire'[d])
            <4> QED BY <1>0, <3>4, <3>5 DEF Provenance
        <3> QED BY <1>0, <2>2, <3>6 DEF Provenance
    <2> QED BY <2>1, <2>3, <2>4
<1>7. CASE ClientUp \/ UNCHANGED vars
    BY <1>1, <1>7 DEF ClientUp, vars
<1> QED BY <1>2, <1>3, <1>4, <1>5, <1>6, <1>7 DEF Next, End

-----------------------------------------------------------------------------
(* Prefixes.                                                               *)

LEMMA PrefixStep ==
    ASSUME Inv, [Next]_vars
    PROVE  PrefixDelivered'
<1>0. /\ PrefixDelivered
      /\ \A k \in Keys, d \in Ends : sent[k][d] \in Seq(Msgs) /\ rcvd[k][d] \in Seq(Msgs)
    BY DEF Inv, TypeOK
<1>1. ASSUME NEW e \in Ends, NEW m \in Msgs, Send(e, m) PROVE PrefixDelivered'
    <2>1. OneMore(sent, sent', sess[e].key, e, m) /\ UNCHANGED rcvd
        BY <1>1, SentFacts DEF Send
    <2> SUFFICES ASSUME NEW k \in Keys, NEW d \in Ends
                 PROVE  /\ Len(rcvd[k][d]) <= Len(sent'[k][Peer(d)])
                        /\ \A i \in 1..Len(rcvd[k][d]) : rcvd[k][d][i] = sent'[k][Peer(d)][i]
        BY <2>1 DEF PrefixDelivered
    <2>2. Peer(d) \in Ends
        BY PeerFacts
    <2>3. /\ Len(sent[k][Peer(d)]) <= Len(sent'[k][Peer(d)])
          /\ \A i \in 1..Len(sent[k][Peer(d)]) : sent'[k][Peer(d)][i] = sent[k][Peer(d)][i]
          /\ Len(sent'[k][Peer(d)]) \in Nat
        BY <2>1, <2>2 DEF OneMore
    <2>4. /\ Len(rcvd[k][d]) <= Len(sent[k][Peer(d)])
          /\ \A i \in 1..Len(rcvd[k][d]) : rcvd[k][d][i] = sent[k][Peer(d)][i]
        BY <1>0 DEF PrefixDelivered
    <2>5. Len(rcvd[k][d]) \in Nat /\ Len(sent[k][Peer(d)]) \in Nat
        BY <1>0, <2>2
    <2>6. Len(rcvd[k][d]) <= Len(sent'[k][Peer(d)])
        BY <2>3, <2>4, <2>5
    <2>7. ASSUME NEW i \in 1..Len(rcvd[k][d])
          PROVE  rcvd[k][d][i] = sent'[k][Peer(d)][i]
        <3>1. i \in 1..Len(sent[k][Peer(d)])
            BY <2>4, <2>5, <2>7
        <3> QED BY <2>3, <2>4, <2>7, <3>1
    <2> QED BY <2>6, <2>7
<1>2. ASSUME NEW e \in Ends, Receive(e) PROVE PrefixDelivered'
    <2> DEFINE c == sess[e].key
               m == Head(wire[e]).seal.msg
    <2>1. OneMore(rcvd, rcvd', c, e, m) /\ UNCHANGED sent
        BY <1>2, RcvdFacts DEF Receive
    <2>2. /\ c \in Keys
          /\ Len(rcvd[c][e]) < Len(sent[c][Peer(e)])
          /\ sent[c][Peer(e)][Len(rcvd[c][e]) + 1] = m
        BY <1>2, ReceiveFacts
    <2> HIDE DEF c, m
    <2> SUFFICES ASSUME NEW k \in Keys, NEW d \in Ends
                 PROVE  /\ Len(rcvd'[k][d]) <= Len(sent[k][Peer(d)])
                        /\ \A i \in 1..Len(rcvd'[k][d]) : rcvd'[k][d][i] = sent[k][Peer(d)][i]
        BY <2>1 DEF PrefixDelivered
    <2>3. /\ Len(rcvd[k][d]) <= Len(sent[k][Peer(d)])
          /\ \A i \in 1..Len(rcvd[k][d]) : rcvd[k][d][i] = sent[k][Peer(d)][i]
        BY <1>0 DEF PrefixDelivered
    <2>4. CASE k = c /\ d = e
        <3>1. /\ Len(rcvd'[c][e]) = Len(rcvd[c][e]) + 1
              /\ \A i \in 1..Len(rcvd[c][e]) : rcvd'[c][e][i] = rcvd[c][e][i]
              /\ rcvd'[c][e][Len(rcvd[c][e]) + 1] = m
            BY <2>1, <2>2 DEF OneMore
        <3>2. Len(rcvd[c][e]) \in Nat /\ Len(sent[c][Peer(e)]) \in Nat
            BY <1>0, <2>2, PeerFacts
        <3>3. Len(rcvd'[c][e]) <= Len(sent[c][Peer(e)])
            BY <2>2, <3>1, <3>2
        <3>4. ASSUME NEW i \in 1..Len(rcvd'[c][e]) PROVE rcvd'[c][e][i] = sent[c][Peer(e)][i]
            <4>1. i \in 1..Len(rcvd[c][e]) \/ i = Len(rcvd[c][e]) + 1
                BY <3>1, <3>2, <3>4
            <4>2. \A j \in 1..Len(rcvd[c][e]) : rcvd[c][e][j] = sent[c][Peer(e)][j]
                BY <2>3, <2>4
            <4> QED BY <2>2, <3>1, <4>1, <4>2
        <3> QED BY <2>2, <2>4, <3>3, <3>4
    <2>5. CASE ~(k = c /\ d = e)
        <3>1. rcvd'[k][d] = rcvd[k][d]
            BY <2>1, <2>5 DEF OneMore
        <3> QED BY <2>3, <3>1
    <2> QED BY <2>4, <2>5
<1>3. CASE UNCHANGED <<sent, rcvd>>
    BY <1>0, <1>3 DEF PrefixDelivered
<1>4. ASSUME ServerUp \/ ClientUp \/ Network \/ (\E e \in Ends : Refuse(e) \/ Close(e))
             \/ UNCHANGED vars
      PROVE  UNCHANGED <<sent, rcvd>>
    BY <1>4 DEF ServerUp, ClientUp, Network, Refuse, Close, vars
<1> QED BY <1>1, <1>2, <1>3, <1>4 DEF Next, End

-----------------------------------------------------------------------------
(* Theorems for any network.                                               *)

\* The invariant behind the next three theorems.
THEOREM Invariance == Spec => []Inv
<1>1. Inv /\ [Next]_vars => Inv'
    BY TypeStep, CounterStep, ProvenanceStep, PrefixStep DEF Inv
<1> QED BY InitInv, <1>1, PTL DEF Spec

\* Types of the two session records, the wires and the histories.
THEOREM TypeCorrect == Spec => []TypeOK
BY Invariance, PTL DEF Inv

\* Whatever the network does, each end takes a prefix of its peer's lines
\* (proto.c 118-142, esp-ctl proto.c 83-95).
THEOREM PrefixOnly == Spec => []PrefixDelivered
BY Invariance, PTL DEF Inv

\* A step of the channel is a step of the two streams, or none.
LEMMA StreamStep ==
    ASSUME Inv, [Next]_vars
    PROVE  [Abstract!Next]_<<sent, rcvd>>
<1>1. ASSUME NEW e \in Ends, NEW m \in Msgs, Send(e, m) PROVE Abstract!Next
    <2>0. UNCHANGED rcvd
        BY <1>1 DEF Send
    <2>1. Abstract!Send(sess[e].key, e, m) /\ sess[e].key \in Keys
        BY <1>1, <2>0, SendFacts DEF Abstract!Send
    <2> QED BY <1>1, <2>1 DEF Abstract!Next, Abstract!Ends
<1>2. ASSUME NEW e \in Ends, Receive(e) PROVE Abstract!Next
    <2>1. sess[e].key \in Keys /\ Abstract!Peer(e) = Peer(e)
        BY <1>2, ReceiveFacts DEF Abstract!Peer, Peer
    <2>2. /\ Len(rcvd[sess[e].key][e]) < Len(sent[sess[e].key][Peer(e)])
          /\ sent[sess[e].key][Peer(e)][Len(rcvd[sess[e].key][e]) + 1] = Head(wire[e]).seal.msg
        BY <1>2, ReceiveFacts
    <2>3. /\ rcvd' = [rcvd EXCEPT ![sess[e].key][e] = Append(@, Head(wire[e]).seal.msg)]
          /\ UNCHANGED sent
        BY <1>2 DEF Receive
    <2>4. Abstract!Take(sess[e].key, e)
        BY <2>1, <2>2, <2>3 DEF Abstract!Take
    <2> QED BY <2>1, <2>4 DEF Abstract!Next, Abstract!Ends
<1>3. ASSUME ServerUp \/ ClientUp \/ Network \/ (\E e \in Ends : Refuse(e) \/ Close(e))
             \/ UNCHANGED vars
      PROVE  UNCHANGED <<sent, rcvd>>
    BY <1>3 DEF ServerUp, ClientUp, Network, Refuse, Close, vars
<1> QED BY <1>1, <1>2, <1>3 DEF Next, End

\* The session implements a pair of streams: nothing is taken twice, skipped,
\* reflected or brought over from another session.
THEOREM ImplementsStreams == Spec => IsStreams
<1>1. Init => Abstract!Init
    BY DEF Init, Abstract!Init, Abstract!Ends
<1> QED BY Invariance, StreamStep, <1>1, PTL DEF Spec, IsStreams, Abstract!Spec

-----------------------------------------------------------------------------
(* A network that has not interfered.                                      *)

\* What Fifo says of one end: of the frame at position i of wire w, and of the
\* peer's counter.
Placed(e, w, b, k) ==
    \A i \in 1..Len(w) :
        /\ w[i].intact
        /\ w[i].seq = b + i - 1
        /\ w[i].seal.seq = w[i].seq
        /\ w[i].seal.key = k
        /\ w[i].seal.dir = Peer(e)
        /\ Size[w[i].seal.msg] <= SendCap(Peer(e))

LEMMA FifoAlt ==
    Fifo <=>
        /\ \A e \in Ends : Live(e) =>
              /\ Placed(e, wire[e], Base(e), KeyOf(e))
              /\ sess[Peer(e)].established =>
                    /\ sess[Peer(e)].key = KeyOf(e)
                    /\ sess[Peer(e)].tx_seq = Base(e) + Len(wire[e])
        /\ offer # 0 /\ sess["server"].established =>
              /\ sess["server"].key = offer
              /\ sess["server"].rx_seq = 0
              /\ wire["server"] = <<>>
BY Zenon DEF Fifo, Placed

LEMMA FifoStep ==
    ASSUME Inv, FifoInv, [Next]_vars
    PROVE  FifoInv'
<1> SUFFICES ASSUME ~tampered' PROVE Fifo'
    BY DEF FifoInv
<1>t. ~tampered /\ ~Network
    <2>1. UNCHANGED tampered \/ Network
        BY DEF Next, ServerUp, ClientUp, End, Send, Receive, Refuse, Close, vars
    <2>2. ~Network
        BY Zenon DEF Network
    <2>3. tampered' = tampered
        BY <2>1, <2>2
    <2> QED BY <2>2, <2>3, Zenon
<1> DEFINE Row(e) ==
               Live(e) => /\ Placed(e, wire[e], Base(e), KeyOf(e))
                          /\ sess[Peer(e)].established =>
                                /\ sess[Peer(e)].key = KeyOf(e)
                                /\ sess[Peer(e)].tx_seq = Base(e) + Len(wire[e])
           Pending == offer # 0 /\ sess["server"].established =>
                          /\ sess["server"].key = offer
                          /\ sess["server"].rx_seq = 0
                          /\ wire["server"] = <<>>
<1>0. /\ sess \in [Ends -> Session] /\ wire \in [Ends -> Seq(Frame)]
      /\ offer \in Nat /\ nextkey \in Nat
      /\ offer # 0 => ~sess["client"].established
    BY DEF Inv, TypeOK, Counters
<1>1. Row("server") /\ Row("client") /\ Pending
    BY <1>t, FifoAlt DEF FifoInv
<1>q. ASSUME Row("server")', Row("client")', Pending' PROVE Fifo'
    <2>1. \A e \in Ends : Row(e)'
        BY <1>q
    <2>2. (Fifo <=> (\A e \in Ends : Row(e)) /\ Pending)'
        BY FifoAlt, PTL
    <2> QED BY <1>q, <2>1, <2>2
<1>p. ASSUME NEW e \in Ends, sess[e].established
      PROVE  /\ offer # 0 => e = "server"
             /\ Live(e) /\ Base(e) = sess[e].rx_seq /\ KeyOf(e) = sess[e].key
    BY <1>0, <1>p DEF Live, Base, KeyOf
<1>r. \A e \in Ends : Row(e)
    BY <1>1
<1>s. ASSUME NEW e \in Ends, Row(e)', Row(Peer(e))', Pending' PROVE Fifo'
    <2> HIDE DEF Row, Pending
    <2>1. \/ (e = "server" /\ Peer(e) = "client")
          \/ (e = "client" /\ Peer(e) = "server")
        BY Zenon DEF Peer, Ends
    <2>2. CASE e = "server" /\ Peer(e) = "client"
        BY <1>q, <1>s, <2>2
    <2>3. CASE e = "client" /\ Peer(e) = "server"
        BY <1>q, <1>s, <2>3
    <2> QED BY <2>1, <2>2, <2>3
\* A row stays when neither end's record nor its wire changes in what it reads.
<1>u. ASSUME NEW e \in Ends, UNCHANGED <<Live(e), Base(e), KeyOf(e)>>, wire'[e] = wire[e],
             sess'[Peer(e)].established =>
                /\ sess[Peer(e)].established
                /\ sess'[Peer(e)].key = sess[Peer(e)].key
                /\ sess'[Peer(e)].tx_seq = sess[Peer(e)].tx_seq
      PROVE  Row(e)'
    <2>1. Live(e) => /\ Placed(e, wire[e], Base(e), KeyOf(e))
                     /\ sess[Peer(e)].established =>
                           /\ sess[Peer(e)].key = KeyOf(e)
                           /\ sess[Peer(e)].tx_seq = Base(e) + Len(wire[e])
        BY <1>r
    <2>2. Placed(e, wire[e], Base(e), KeyOf(e)) => Placed(e, wire'[e], Base(e)', KeyOf(e)')
        BY <1>u
    <2> QED BY <1>u, <2>1, <2>2 DEF Placed
<1>2. ASSUME ServerUp PROVE Fifo'
    <2>1. /\ sess' = [sess EXCEPT !["server"] = Fresh(nextkey + 1)] /\ offer' = nextkey + 1
          /\ wire' = [e \in Ends |-> <<>>] /\ ~sess["client"].established
        BY <1>2 DEF ServerUp, DeriveKey
    <2>2. sess'["server"] = Fresh(nextkey + 1) /\ sess'["client"] = sess["client"]
        BY <1>0, <2>1
    <2>3. wire'["server"] = <<>> /\ wire'["client"] = <<>>
        BY <2>1
    <2>4. Row("server")'
        BY <2>1, <2>2, <2>3, PeerFacts DEF Placed
    <2>5. Row("client")'
        BY <1>0, <2>1, <2>2, <2>3, PeerFacts DEF Placed, Live, Base, KeyOf, Fresh
    <2>6. Pending'
        BY <2>1, <2>2, <2>3 DEF Fresh
    <2> QED BY <1>q, <2>4, <2>5, <2>6
<1>3. ASSUME ClientUp PROVE Fifo'
    <2>1. /\ sess' = [sess EXCEPT !["client"] = Fresh(offer)] /\ offer' = 0 /\ offer # 0
          /\ UNCHANGED wire
        BY <1>3 DEF ClientUp
    <2>2. sess'["client"] = Fresh(offer) /\ sess'["server"] = sess["server"]
          /\ ~sess["client"].established
        BY <1>0, <2>1
    <2>3. Row("client")'
        <3>1. /\ Live("client") /\ Base("client") = 0 /\ KeyOf("client") = offer
              /\ Base("client")' = 0 /\ KeyOf("client")' = offer
            BY <2>1, <2>2 DEF Live, Base, KeyOf, Fresh
        <3>2. UNCHANGED <<sess["server"], wire["client"]>>
            BY <2>1, <2>2
        <3> QED BY <1>1, <3>1, <3>2, PeerFacts DEF Placed
    <2>4. Row("server")'
        <3>1. ASSUME Live("server")'
              PROVE  /\ sess["server"].established
                     /\ Live("server") /\ Base("server")' = Base("server")
                     /\ KeyOf("server")' = KeyOf("server") /\ wire'["server"] = wire["server"]
            BY <2>1, <2>2, <3>1 DEF Live, Base, KeyOf
        <3>2. Live("server") => Placed("server", wire["server"], Base("server"), KeyOf("server"))
            BY <1>1
        <3>3. Live("server") => /\ sess["server"].established /\ KeyOf("server") = offer
                                /\ Base("server") = 0 /\ wire["server"] = <<>>
            BY <1>1, <2>1 DEF Live, Base, KeyOf
        <3>4. sess'["client"].key = offer /\ sess'["client"].tx_seq = 0
            BY <2>2 DEF Fresh
        <3> QED BY <3>1, <3>2, <3>3, <3>4, PeerFacts DEF Placed
    <2>5. Pending'
        BY <2>1
    <2> QED BY <1>q, <2>3, <2>4, <2>5
<1>4. ASSUME NEW e \in Ends, NEW m \in Msgs, Send(e, m) PROVE Fifo'
    <2> DEFINE p == Peer(e)
               g == [seal |-> Seal(e, m), seq |-> Seal(e, m).seq, intact |-> TRUE]
    <2>0. p \in Ends /\ p # e /\ Peer(p) = e
        BY PeerFacts
    <2>1. /\ sess' = [sess EXCEPT ![e] = Advanced(sess[e])] /\ UNCHANGED offer
          /\ wire' = [wire EXCEPT ![p] = Append(wire[p], g)]
          /\ sess[e].established /\ Size[m] <= SendCap(e)
        BY <1>4 DEF Send
    <2>2. /\ g.intact /\ g.seq = sess[e].tx_seq /\ g.seal.seq = g.seq
          /\ g.seal.key = sess[e].key /\ g.seal.dir = e /\ g.seal.msg = m
        BY DEF Seal
    <2>3. g \in Frame
        BY <1>4, SendFacts DEF Frame, Sealed
    <2> HIDE DEF g, p
    <2>4. /\ sess'[e] = Advanced(sess[e]) /\ sess'[p] = sess[p]
          /\ wire'[p] = Append(wire[p], g) /\ wire'[e] = wire[e]
        BY <1>0, <2>0, <2>1
    <2>5. /\ sess'[e].established /\ sess'[e].key = sess[e].key
          /\ sess'[e].rx_seq = sess[e].rx_seq /\ sess'[e].tx_seq = sess[e].tx_seq + 1
          /\ sess[e].tx_seq \in Nat
        BY <1>0, <2>1, <2>4 DEF Advanced, Session
    <2>6. Row(e)'
        <3>1. UNCHANGED <<Live(e), Base(e), KeyOf(e)>>
            BY <2>1, <2>5 DEF Live, Base, KeyOf
        <3>2. sess'[Peer(e)] = sess[Peer(e)]
            BY <2>4 DEF p
        <3> QED BY <1>u, <2>4, <3>1, <3>2
    <2>7. Row(p)'
        <3>1. UNCHANGED <<Live(p), Base(p), KeyOf(p)>>
            BY <2>1, <2>4 DEF Live, Base, KeyOf
        <3>2. Live(p) => /\ Placed(p, wire[p], Base(p), KeyOf(p))
                         /\ sess[e].key = KeyOf(p)
                         /\ sess[e].tx_seq = Base(p) + Len(wire[p])
            BY <1>r, <2>0, <2>1
        <3>3. /\ Len(wire'[p]) = Len(wire[p]) + 1 /\ Len(wire[p]) \in Nat
              /\ \A i \in 1..Len(wire[p]) : wire'[p][i] = wire[p][i]
              /\ wire'[p][Len(wire[p]) + 1] = g
            BY <1>0, <2>0, <2>3, <2>4, AppendFacts
        <3>4. Base(p) \in Nat
            BY <1>0, <2>0 DEF Base, Session
        <3>5. SendCap(e) = SendCap(Peer(p))
            BY <2>0
        <3>6. Live(p) => Placed(p, wire'[p], Base(p), KeyOf(p))
            <4> SUFFICES ASSUME Live(p), NEW i \in 1..Len(wire'[p])
                         PROVE  /\ wire'[p][i].intact
                                /\ wire'[p][i].seq = Base(p) + i - 1
                                /\ wire'[p][i].seal.seq = wire'[p][i].seq
                                /\ wire'[p][i].seal.key = KeyOf(p)
                                /\ wire'[p][i].seal.dir = Peer(p)
                                /\ Size[wire'[p][i].seal.msg] <= SendCap(Peer(p))
                BY DEF Placed
            <4>1. CASE i \in 1..Len(wire[p])
                <5>1. wire'[p][i] = wire[p][i]
                    BY <3>3, <4>1
                <5> QED BY <3>2, <4>1, <5>1 DEF Placed
            <4>2. CASE i = Len(wire[p]) + 1
                <5>1. wire'[p][i] = g
                    BY <3>3, <4>2
                <5>2. sess[e].tx_seq = Base(p) + i - 1 /\ sess[e].key = KeyOf(p)
                    BY <3>2, <3>3, <3>4, <4>2
                <5> QED BY <2>0, <2>1, <2>2, <3>5, <5>1, <5>2
            <4> QED BY <3>3, <4>1, <4>2
        <3>7. Live(p) => sess'[e].key = KeyOf(p) /\ sess'[e].tx_seq = Base(p) + Len(wire'[p])
            BY <2>5, <3>2, <3>3, <3>4
        <3> QED BY <2>0, <3>1, <3>6, <3>7 DEF Placed
    <2>8. Pending'
        <3>1. offer # 0 => e = "server" /\ sess["server"].established
            BY <1>p, <2>1
        <3> QED BY <1>1, <2>1, <2>4, <2>5, <3>1
    <2> QED BY <1>s, <2>6, <2>7, <2>8 DEF p
<1>5. ASSUME NEW e \in Ends, Receive(e) PROVE Fifo'
    <2> DEFINE p == Peer(e)
    <2>0. p \in Ends /\ p # e /\ Peer(p) = e
        BY PeerFacts
    <2>1. /\ sess' = [sess EXCEPT ![e].rx_seq = sess[e].rx_seq + 1] /\ UNCHANGED offer
          /\ wire' = [wire EXCEPT ![e] = Tail(wire[e])]
          /\ sess[e].established /\ wire[e] # <<>>
        BY <1>5 DEF Receive
    <2> HIDE DEF p
    <2>2. sess'[p] = sess[p] /\ wire'[e] = Tail(wire[e]) /\ wire'[p] = wire[p]
        BY <1>0, <2>0, <2>1
    <2>3. /\ sess'[e].established /\ sess'[e].key = sess[e].key
          /\ sess'[e].rx_seq = sess[e].rx_seq + 1 /\ sess'[e].tx_seq = sess[e].tx_seq
          /\ sess[e].rx_seq \in Nat
        BY <1>0, <2>1 DEF Session
    <2>4. Row(e)'
        <3>1. /\ Placed(e, wire[e], Base(e), KeyOf(e))
              /\ sess[p].established => /\ sess[p].key = KeyOf(e)
                                        /\ sess[p].tx_seq = Base(e) + Len(wire[e])
            BY <1>r, <1>p, <2>1 DEF p
        <3>2. /\ Base(e) = sess[e].rx_seq /\ KeyOf(e) = sess[e].key
              /\ Base(e)' = Base(e) + 1 /\ KeyOf(e)' = KeyOf(e)
            BY <2>1, <2>3 DEF Base, KeyOf
        <3>3. /\ Len(wire[e]) \in Nat /\ Len(wire'[e]) = Len(wire[e]) - 1
              /\ \A i \in 1..Len(wire'[e]) :
                    i + 1 \in 1..Len(wire[e]) /\ wire'[e][i] = wire[e][i + 1]
            <4>1. wire[e] \in Seq(Frame) /\ wire[e] # <<>>
                BY <1>0, <2>1
            <4> QED BY <2>2, <4>1
        <3>4. Placed(e, wire'[e], Base(e) + 1, KeyOf(e))
            <4> SUFFICES ASSUME NEW i \in 1..Len(wire'[e])
                         PROVE  /\ wire'[e][i].intact
                                /\ wire'[e][i].seq = Base(e) + 1 + i - 1
                                /\ wire'[e][i].seal.seq = wire'[e][i].seq
                                /\ wire'[e][i].seal.key = KeyOf(e)
                                /\ wire'[e][i].seal.dir = Peer(e)
                                /\ Size[wire'[e][i].seal.msg] <= SendCap(Peer(e))
                BY DEF Placed
            <4>1. i + 1 \in 1..Len(wire[e]) /\ wire'[e][i] = wire[e][i + 1] /\ i \in Nat
                BY <3>3
            <4>2. wire[e][i + 1].seq = Base(e) + (i + 1) - 1
                BY <3>1, <4>1 DEF Placed
            <4>3. Base(e) \in Nat
                BY <2>3, <3>2
            <4>4. Base(e) + 1 + i - 1 = Base(e) + (i + 1) - 1
                BY <4>1, <4>3
            <4> QED BY <3>1, <4>1, <4>2, <4>4 DEF Placed
        <3>5. sess'[p].established => /\ sess'[p].key = KeyOf(e)'
                                      /\ sess'[p].tx_seq = Base(e)' + Len(wire'[e])
            BY <2>2, <2>3, <3>1, <3>2, <3>3
        <3> QED BY <3>2, <3>4, <3>5 DEF Placed, p
    <2>5. Row(p)'
        <3>0. sess'[p] = sess[p] /\ offer' = offer
            BY <2>1, <2>2
        <3>1. UNCHANGED Live(p) /\ UNCHANGED Base(p) /\ UNCHANGED KeyOf(p)
            BY <3>0 DEF Live, Base, KeyOf
        <3> QED BY <1>u, <2>0, <2>1, <2>2, <2>3, <3>1
    <2>6. Pending'
        <3>1. offer # 0 => e = "server" /\ sess["server"].established
            BY <1>p, <2>1
        <3> QED BY <1>1, <2>1, <3>1
    <2> QED BY <1>s, <2>4, <2>5, <2>6 DEF p
<1>6. ASSUME NEW e \in Ends, Refuse(e) \/ Close(e) PROVE Fifo'
    <2> DEFINE p == Peer(e)
    <2>0. p \in Ends /\ p # e /\ Peer(p) = e
        BY PeerFacts
    <2>1. /\ sess' = [sess EXCEPT ![e] = Wiped] /\ UNCHANGED offer
          /\ wire' = [wire EXCEPT ![e] = <<>>] /\ sess[e].established
        BY <1>6 DEF Refuse, Close
    <2> HIDE DEF p
    <2>2. sess'[p] = sess[p] /\ wire'[p] = wire[p] /\ ~sess'[e].established
        BY <1>0, <2>0, <2>1 DEF Wiped
    <2>3. offer # 0 => e = "server"
        BY <1>p, <2>1
    <2>4. Row(e)'
        BY <2>1, <2>2, <2>3 DEF Live
    <2>5. Row(p)'
        <3>0. sess'[p] = sess[p] /\ offer' = offer
            BY <2>1, <2>2
        <3>1. UNCHANGED Live(p) /\ UNCHANGED Base(p) /\ UNCHANGED KeyOf(p)
            BY <3>0 DEF Live, Base, KeyOf
        <3> QED BY <1>u, <2>0, <2>2, <3>1
    <2>6. Pending'
        BY <2>1, <2>2, <2>3
    <2> QED BY <1>s, <2>4, <2>5, <2>6 DEF p
<1>7. CASE UNCHANGED vars
    <2>1. UNCHANGED <<sess, wire, offer>>
        BY <1>7 DEF vars
    <2> QED BY <1>1, <1>q, <2>1 DEF Placed, Live, Base, KeyOf
<1> QED BY <1>t, <1>2, <1>3, <1>4, <1>5, <1>6, <1>7 DEF Next, End

\* Over a network that behaves as TCP does, programs whose caps agree refuse nothing their peer
\* could send, but the first line of a do_logs session longer than its buffer: counters, keys and
\* directions never disagree (docs/protocol.md 98-102, esp-ctl.c 356-357).
THEOREM NoFrameRefused == Spec => []NothingRefused
<1>1. Inv /\ FifoInv /\ [Next]_vars => FifoInv'
    BY FifoStep
<1>2. Inv /\ FifoInv => NothingRefused
    <2> SUFFICES ASSUME Inv, FifoInv, ~tampered, CtlLine <= MaxLine, MaxResp <= CtlResp,
                        NEW e \in Ends, sess[e].established, wire[e] # <<>>,
                        ~(FirstOfLogs(e) /\ Size[Head(wire[e]).seal.msg] > AckCap)
                 PROVE  Accepts(e, Head(wire[e]))
        BY DEF NothingRefused
    <2>1. Live(e) /\ Base(e) = sess[e].rx_seq /\ KeyOf(e) = sess[e].key
        BY DEF Live, Base, KeyOf
    <2>2. wire[e] \in Seq(Frame) /\ sess[e] \in Session
        BY DEF Inv, TypeOK
    <2>3. Head(wire[e]) = wire[e][1] /\ 1 \in 1..Len(wire[e])
        BY <2>2
    <2>4. /\ wire[e][1].intact /\ wire[e][1].seq = Base(e) + 1 - 1
          /\ wire[e][1].seal.seq = wire[e][1].seq /\ wire[e][1].seal.key = KeyOf(e)
          /\ wire[e][1].seal.dir = Peer(e) /\ Size[wire[e][1].seal.msg] <= SendCap(Peer(e))
        BY <2>1, <2>3 DEF FifoInv, Fifo
    <2>5. wire[e][1].seq = sess[e].rx_seq
        BY <2>1, <2>2, <2>4 DEF Session
    <2>6. Size[wire[e][1].seal.msg] <= RecvCap(e)
        <3>1. Size[wire[e][1].seal.msg] \in Nat
            <4>1. wire[e][1] \in Frame
                BY <2>2, <2>3
            <4>2. wire[e][1].seal.msg \in Msgs
                BY <4>1 DEF Frame, Sealed
            <4> QED BY <4>2
        <3>2. CASE e = "server"
            BY <2>4, <3>1, <3>2 DEF SendCap, RecvCap, Peer
        <3>3. CASE e = "client" /\ FirstOfLogs(e)
            BY <2>3, <3>1, <3>3 DEF RecvCap
        <3>4. CASE e = "client" /\ ~FirstOfLogs(e)
            BY <2>4, <3>1, <3>4 DEF SendCap, RecvCap, Peer
        <3> QED BY <3>2, <3>3, <3>4
    <2> QED BY <2>1, <2>3, <2>4, <2>5, <2>6 DEF Accepts, NextInLine, Opens
<1> QED BY InitInv, Invariance, <1>1, <1>2, PTL DEF Spec

==============================================================================
