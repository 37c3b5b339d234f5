--------------------------- MODULE SessionProofs ---------------------------
(***************************************************************************)
(* Proofs about Session, for any number of connections, descriptors,       *)
(* senders, attempts and frames.                                           *)
(*                                                                         *)
(* InOrder is not inductive.  Inv strengthens it with who holds the mutex, *)
(* what the server task's location says of descriptor, flag and key, and,  *)
(* while no teardown has overlapped a frame, how the session's sequence    *)
(* counter, the frame buffer and the stream relate at every step of the    *)
(* frame in progress.                                                      *)
(***************************************************************************)
EXTENDS Session, SequenceTheorems, TLAPS

\* The holder of the mutex is the one task between take and give.
MutexInv == \A t \in Threads : pc[t] \in InMutex <=> s_tx_mtx = t

\* Locations of the server task while s_authed is set for sure, and those
\* where the session holds the peer's key.
Serving  == {"recv", "take"} \cup InMutex
Keyed    == {"okline", "enter"} \cup Serving

ServerInv ==
    /\ pc[Srv] \in SrvLocs \cup Serving
    /\ \A t \in Senders : pc[t] \in {"idle", "take"} \cup InMutex
    /\ cfd = None <=> pc[Srv] = "accept"
    /\ \A f \in Fds : f # cfd => sock[f] = None
    /\ cfd # None => sock[cfd] \in Conns
    /\ s_client_fd = IF pc[Srv] \in {"accept", "out3", "out4"} THEN None ELSE cfd
    /\ s_authed => pc[Srv] \in Serving \cup {"out1"}
    /\ pc[Srv] \in Serving => s_authed
    /\ s_sess.established => pc[Srv] \in Keyed \cup {"out1", "out2", "out3"}
    /\ s_sess.established <=> s_sess.key \in Conns
    /\ s_sess.established => s_sess.key = Peer
    /\ pc[Srv] \in Keyed => s_sess.established
    /\ pc[Srv] \in {"hello", "auth", "reject"} => attempt < MaxAttempts
    /\ s_authed \/ pc[Srv] = "enter" => s_sess.established /\ line[Peer] = "OK"
    /\ \A c \in Conns : cfd # None /\ c = Peer => link[c] \in {"up", "stalled", "gone"}
    /\ \A c \in Conns : ~(cfd # None /\ c = Peer) => link[c] \in {"idle", "queued", "gone"}

\* A connection whose handshake is not over has carried no frame.
Fresh(c) ==
    \/ link[c] \in {"idle", "queued"}
    \/ /\ cfd # None /\ c = Peer
       /\ pc[Srv] \in {"hello", "auth", "reject", "keygen", "okline", "enter",
                       "cooldown"}

FreshInv ==
    ~overlap => \A c \in Conns : Fresh(c) =>
        /\ frames[c] = << >>
        /\ nonces[c] = << >>
        /\ c = s_sess.key => s_sess.tx_seq = 0

\* Nonces sealed under a key count up from 0.
Counted(c) == \A i \in 1..Len(nonces[c]) : nonces[c][i] = i - 1

\* Steps of a frame between its sealing and its write.
Sealed == {"load", "store", "pick", "send"}

\* A frame in progress, step by step.
FrameInv(t) ==
    LET n == s_sess.tx_seq IN
    /\ s_authed
    /\ pc[t] = "seal" => buf.seq = n
    /\ pc[t] \in {"load", "store"} =>
           buf = [seq |-> n, key |-> Peer] /\ Len(nonces[Peer]) = n + 1
    /\ pc[t] = "store" => rd[t] = n
    /\ pc[t] \in {"pick", "send"} =>
           /\ n > 0
           /\ buf = [seq |-> n - 1, key |-> Peer]
           /\ Len(nonces[Peer]) = n
    /\ pc[t] = "send" => wfd[t] = cfd
    /\ pc[t] \in {"header", "seal"} => Len(nonces[Peer]) = n
    /\ link[Peer] # "gone" =>
           Len(frames[Peer]) = IF pc[t] \in {"pick", "send"} THEN n - 1 ELSE n

StreamInv ==
    ~overlap =>
        /\ \A c \in Conns : WellFormed(c) /\ Counted(c)
        /\ \A t \in Threads : pc[t] \in InFrame => FrameInv(t)
        /\ s_authed /\ (\A t \in Threads : pc[t] \notin InFrame) =>
               /\ Len(nonces[Peer]) = s_sess.tx_seq
               /\ link[Peer] # "gone" => Len(frames[Peer]) = s_sess.tx_seq

Inv == TypeOK /\ MutexInv /\ ServerInv /\ FreshInv /\ StreamInv

-----------------------------------------------------------------------------
(* Types.                                                                  *)

\* Every step of the tasks and of the peers keeps the types; the attempt
\* counter stays in range because the loop of do_handshake tests it.
LEMMA TypeStep ==
    ASSUME TypeOK, ServerInv, [Next]_vars
    PROVE  TypeOK'
<1> USE SessionAssumption DEF TypeOK, shared, locals, world, Goto, Threads
<1>1. ASSUME NEW t \in Threads, TakeMutex(t) PROVE TypeOK'
  BY <1>1 DEF TakeMutex, InMutex
<1>2. ASSUME NEW t \in Threads, CheckSession(t) PROVE TypeOK'
  BY <1>2 DEF CheckSession, InMutex, InFrame
<1>3. ASSUME NEW t \in Threads, BuildHeader(t) PROVE TypeOK'
  BY <1>3 DEF BuildHeader, InMutex, InFrame
<1>4. ASSUME NEW t \in Threads, Seal(t) PROVE TypeOK'
  <2>1. nonces' \in [Conns -> Seq(Nat)]
    <3>1. CASE s_sess.key \in Conns
      BY <3>1, <1>4 DEF Seal
    <3>2. CASE s_sess.key \notin Conns
      BY <3>2, <1>4 DEF Seal
    <3>. QED  BY <3>1, <3>2
  <2>2. buf' \in [seq : Nat, key : Conns \cup {None}]
    BY <1>4 DEF Seal
  <2>3. pc' \in [Threads -> {"idle", "take"} \cup InMutex \cup SrvLocs]
    BY <1>4 DEF Seal, InMutex, InFrame
  <2>. QED  BY <2>1, <2>2, <2>3, <1>4 DEF Seal
<1>5. ASSUME NEW t \in Threads, SealFails(t) PROVE TypeOK'
  BY <1>5 DEF SealFails, InMutex
<1>6. ASSUME NEW t \in Threads, LoadSeq(t) PROVE TypeOK'
  BY <1>6 DEF LoadSeq, InMutex, InFrame
<1>7. ASSUME NEW t \in Threads, StoreSeq(t) PROVE TypeOK'
  <2>1. rd[t] + 1 \in Nat
    OBVIOUS
  <2>2. s_sess' \in [key : Conns \cup {None}, tx_seq : Nat, established : BOOLEAN]
    BY <2>1, <1>7 DEF StoreSeq
  <2>. QED  BY <2>2, <1>7 DEF StoreSeq, InMutex, InFrame
<1>8. ASSUME NEW t \in Threads, PickFd(t) PROVE TypeOK'
  BY <1>8 DEF PickFd, InMutex, InFrame
<1>9. ASSUME NEW t \in Threads, SendBytes(t) PROVE TypeOK'
  <2> DEFINE c == Behind(wfd[t])
  <2>1. c \in Conns \cup {None}
    BY DEF Behind
  <2>2. c # None => [seq |-> buf.seq, key |-> buf.key, after |-> line[c]] \in Frame
    BY <2>1 DEF Frame
  <2>3. frames' \in [Conns -> Seq(Frame)]
    BY <2>1, <2>2, <1>9 DEF SendBytes
  <2>. QED  BY <2>3, <1>9 DEF SendBytes, InMutex
<1>10. ASSUME NEW t \in Threads, GiveMutex(t) PROVE TypeOK'
  BY <1>10 DEF GiveMutex, AfterGive, Released, InMutex, SrvLocs
<1>11. ASSUME NEW p \in Senders, Produce(p) PROVE TypeOK'
  <2>1. ncalls' \in 0..MaxFrames
    BY <1>11 DEF Produce
  <2>. QED  BY <2>1, <1>11 DEF Produce
<1> HIDE DEF TypeOK
<1>12. ASSUME NEW c \in Conns, NEW f \in Fds, Accept(c, f) PROVE TypeOK'
  <2>1. CASE s_client_fd = None
    <3>1. sock' = [sock EXCEPT ![f] = c] /\ link' = [link EXCEPT ![c] = "up"]
      BY <2>1, <1>12 DEF Accept
    <3>4. sock' \in [Fds -> Conns \cup {None}]
      BY <3>1 DEF TypeOK
    <3>5. link' \in [Conns -> {"idle", "queued", "up", "stalled", "gone"}]
      BY <3>1 DEF TypeOK
    <3>2. pc' \in [Threads -> {"idle", "take"} \cup InMutex \cup SrvLocs]
      BY <2>1, <1>12 DEF Accept, SrvLocs, TypeOK
    <3>3. /\ cfd' = f /\ s_client_fd' = f /\ s_authed' = FALSE /\ attempt' = 0
          /\ UNCHANGED <<s_sess, s_tx_mtx, buf, ok, rd, wfd, line, frames, nonces,
                         ncalls, overlap>>
      BY <2>1, <1>12 DEF Accept
    <3>6. attempt' \in 0..MaxAttempts /\ cfd' \in Fds \cup {None}
          /\ s_client_fd' \in Fds \cup {None}
      BY <3>3
    <3>8. s_authed' \in BOOLEAN
      BY <3>3, Zenon
    <3>7. UNCHANGED <<s_sess, s_tx_mtx, buf, ok, rd, wfd, line, frames, nonces,
                     ncalls, overlap>>
      BY <3>3
    <3>. QED  BY <3>4, <3>5, <3>2, <3>6, <3>7, <3>8 DEF TypeOK
  <2>2. CASE s_client_fd # None
    <3>1. /\ line' \in [Conns -> Lines]
          /\ link' \in [Conns -> {"idle", "queued", "up", "stalled", "gone"}]
      BY <2>2, <1>12 DEF Accept, Lines, TypeOK
    <3>2. UNCHANGED <<shared, locals, pc, sock, frames, nonces, ncalls, overlap>>
      BY <2>2, <1>12 DEF Accept
    <3>. QED  BY <3>1, <3>2 DEF TypeOK
  <2>. QED  BY <2>1, <2>2
<1>13. CASE Reject
  <2>1. pc[Srv] = "reject" => attempt < MaxAttempts
    BY DEF ServerInv
  <2>2. attempt \in 0..MaxAttempts
    BY DEF TypeOK
  <2>3. attempt' = attempt + 1 /\ pc[Srv] = "reject"
    BY <1>13 DEF Reject
  <2>4. attempt' \in 0..MaxAttempts
    BY <2>1, <2>2, <2>3
  <2>. QED  BY <2>4, <1>13 DEF Reject, SrvLocs, Lines, SendLine, TypeOK
<1>14. CASE SendHello
  BY <1>14 DEF SendHello, SendLine, SrvLocs, Lines, TypeOK
<1>15. CASE KeygenFailed
  BY <1>15 DEF KeygenFailed, SendLine, SrvLocs, Lines, TypeOK
<1>16. CASE SendOk
  BY <1>16 DEF SendOk, SendLine, SrvLocs, Lines, TypeOK
<1>17. CASE AuthGood
  <2>1. pc[Srv] = "auth" => cfd # None
    BY DEF ServerInv
  <2>2. Peer \in Conns
    BY <2>1, <1>17 DEF AuthGood, ServerInv, Peer
  <2>. QED  BY <2>2, <1>17 DEF AuthGood, SrvLocs, TypeOK
<1>18. CASE AuthNoKey \/ AuthBad \/ AuthDropped \/ CoolDown \/ BadFrame \/ EndOfStream
  <2>1. /\ pc' \in [Threads -> {"idle", "take"} \cup InMutex \cup SrvLocs]
        /\ UNCHANGED <<shared, locals, world, nonces, ncalls, overlap>>
    BY <1>18 DEF AuthNoKey, AuthBad, AuthDropped, CoolDown, BadFrame,
                 EndOfStream, SrvLocs, TypeOK
  <2>. QED  BY <2>1 DEF TypeOK
<1>19. CASE EnterSession
  BY <1>19 DEF EnterSession, SrvLocs, TypeOK
<1>20. CASE Command
  <2>1. ncalls' \in 0..MaxFrames
    BY <1>20 DEF Command, TypeOK
  <2>. QED  BY <2>1, <1>20 DEF Command, TypeOK
<1>21. CASE Teardown
  <2>1. CASE ClearAuthed
    BY <2>1 DEF ClearAuthed, SrvLocs, TypeOK
  <2>2. CASE ClearFd
    BY <2>2 DEF ClearFd, SrvLocs, TypeOK
  <2>3. CASE WipeSession
    BY <2>3 DEF WipeSession, SrvLocs, Blank, TypeOK
  <2>4. CASE CloseFd
    BY <2>4 DEF CloseFd, SrvLocs, TypeOK
  <2>. QED  BY <1>21, <2>1, <2>2, <2>3, <2>4 DEF Teardown
<1>22. CASE PeerStep
  <2> PICK c \in Conns : Connect(c) \/ Stall(c) \/ Resume(c) \/ HangUp(c)
    BY <1>22 DEF PeerStep
  <2>1. link \in [Conns -> {"idle", "queued", "up", "stalled", "gone"}]
    BY DEF TypeOK
  <2>2. PICK to \in {"queued", "up", "stalled", "gone"} :
             link' = [link EXCEPT ![c] = to]
    BY DEF Connect, Stall, Resume, HangUp, LinkStep
  <2>3. UNCHANGED <<shared, locals, pc, sock, line, frames, nonces, ncalls, overlap>>
    BY DEF Connect, Stall, Resume, HangUp, LinkStep
  <2>. QED  BY <2>1, <2>2, <2>3 DEF TypeOK
<1>23. CASE UNCHANGED vars
  BY <1>23 DEF vars, TypeOK
<1>. QED
  BY <1>1, <1>2, <1>3, <1>4, <1>5, <1>6, <1>7, <1>8, <1>9, <1>10, <1>11, <1>12,
     <1>13, <1>14, <1>15, <1>16, <1>17, <1>18, <1>19, <1>20, <1>21, <1>22, <1>23
  DEF Next, ServerStep, ServerInput, SendFrame

-----------------------------------------------------------------------------
(* The mutex.                                                              *)

\* Only take enters the critical section, only give leaves it.
LEMMA MutexStep ==
    ASSUME TypeOK, ServerInv, MutexInv, [Next]_vars
    PROVE  MutexInv'
<1> USE SessionAssumption DEF MutexInv, InMutex, InFrame, shared, locals, world,
        Goto, Threads
<1>1. pc \in [Threads -> {"idle", "take"} \cup InMutex \cup SrvLocs]
  BY DEF TypeOK
<1>2. ASSUME NEW t \in Threads, TakeMutex(t) PROVE MutexInv'
  BY <1>1, <1>2 DEF TakeMutex, MutexFree
<1>3. ASSUME NEW t \in Threads, GiveMutex(t) PROVE MutexInv'
  BY <1>1, <1>3 DEF GiveMutex, AfterGive, Released
<1>4. ASSUME NEW t \in Threads,
             CheckSession(t) \/ BuildHeader(t) \/ Seal(t) \/ SealFails(t)
             \/ LoadSeq(t) \/ StoreSeq(t) \/ PickFd(t) \/ SendBytes(t)
      PROVE MutexInv'
  <2>1. /\ pc[t] \in InMutex
        /\ \E to \in InMutex : pc' = [pc EXCEPT ![t] = to]
        /\ s_tx_mtx' = s_tx_mtx
    BY <1>4 DEF CheckSession, BuildHeader, Seal, SealFails, LoadSeq, StoreSeq,
                PickFd, SendBytes
  <2>. QED  BY <1>1, <2>1
<1>5. ASSUME NEW p \in Senders, Produce(p) PROVE MutexInv'
  BY <1>1, <1>5 DEF Produce
<1>6. ASSUME NEW c \in Conns, NEW f \in Fds, Accept(c, f) PROVE MutexInv'
  BY <1>1, <1>6 DEF Accept
<1>7. CASE \/ SendHello \/ AuthDropped \/ Reject \/ CoolDown \/ KeygenFailed
           \/ SendOk \/ EnterSession \/ EndOfStream \/ Teardown
           \/ ServerInput
  <2>1. /\ pc[Srv] \in SrvLocs
        /\ \E to \in SrvLocs \cup {"take"} : pc' = [pc EXCEPT ![Srv] = to]
        /\ s_tx_mtx' = s_tx_mtx
    BY <1>7 DEF SendHello, AuthDropped, Reject, CoolDown, KeygenFailed, SendOk,
                EnterSession, EndOfStream, Teardown, ClearAuthed, ClearFd,
                WipeSession, CloseFd, ServerInput, AuthGood, AuthNoKey, AuthBad,
                Command, BadFrame, SrvLocs
  <2>. QED  BY <1>1, <2>1 DEF SrvLocs
<1>8. CASE PeerStep
  BY <1>8 DEF PeerStep, Connect, Stall, Resume, HangUp, LinkStep
<1>9. CASE UNCHANGED vars
  BY <1>9 DEF vars
<1>. QED
  BY <1>2, <1>3, <1>4, <1>5, <1>6, <1>7, <1>8, <1>9
  DEF Next, ServerStep, SendFrame

-----------------------------------------------------------------------------
(* The server task's location and the session.                             *)

\* Steps of send_frame and of producers leave descriptor, flag and key alone.
LEMMA ServerInvSend ==
    ASSUME TypeOK, ServerInv,
           NEW t \in Threads, SendFrame(t) \/ (t \in Senders /\ Produce(t))
    PROVE  ServerInv'
<1> USE SessionAssumption DEF InMutex, InFrame, shared, locals, world, Goto, Threads
<1>1. pc \in [Threads -> {"idle", "take"} \cup InMutex \cup SrvLocs]
  BY DEF TypeOK
<1>2. /\ \A u \in Threads \ {t} : pc'[u] = pc[u]
      /\ t = Srv => pc[t] \in Serving /\ pc'[t] \in Serving \cup {"out1"}
      /\ t # Srv => pc'[t] \in {"idle", "take"} \cup InMutex
  BY <1>1 DEF SendFrame, TakeMutex, CheckSession, BuildHeader, Seal, SealFails,
              LoadSeq, StoreSeq, PickFd, SendBytes, GiveMutex, AfterGive,
              Produce, Serving
<1>3. UNCHANGED <<cfd, sock, s_client_fd, s_authed, link, line, attempt>>
  BY DEF SendFrame, TakeMutex, CheckSession, BuildHeader, Seal, SealFails,
         LoadSeq, StoreSeq, PickFd, SendBytes, GiveMutex, Produce
<1>4. s_sess'.key = s_sess.key /\ s_sess'.established = s_sess.established
  BY DEF SendFrame, TakeMutex, CheckSession, BuildHeader, Seal, SealFails,
         LoadSeq, StoreSeq, PickFd, SendBytes, GiveMutex, Produce, TypeOK
<1>5. Peer' = Peer
  BY <1>3 DEF Peer
<1>6. pc'[Srv] # pc[Srv] => pc[Srv] \in Serving /\ pc'[Srv] \in Serving \cup {"out1"}
  BY <1>2
<1>. QED  BY <1>2, <1>3, <1>4, <1>5, <1>6 DEF ServerInv, Serving, Keyed, SrvLocs

\* So do the steps of the peers; they move a link within its side of accept.
LEMMA ServerInvPeer ==
    ASSUME TypeOK, ServerInv, PeerStep
    PROVE  ServerInv'
<1> USE DEF shared, locals
<1> PICK c \in Conns : Connect(c) \/ Stall(c) \/ Resume(c) \/ HangUp(c)
  BY DEF PeerStep
<1>1. UNCHANGED <<s_client_fd, s_authed, s_sess, pc, cfd, attempt, sock, line>>
  BY DEF Connect, Stall, Resume, HangUp, LinkStep
<1>2. /\ \A d \in Conns \ {c} : link'[d] = link[d]
      /\ link[c] \in {"idle", "queued"} => link'[c] \in {"queued", "gone"}
      /\ link[c] \in {"up", "stalled"} => link'[c] \in {"up", "stalled", "gone"}
      /\ link[c] # "gone"
  BY DEF Connect, Stall, Resume, HangUp, LinkStep, TypeOK
<1>3. Peer' = Peer
  BY <1>1 DEF Peer
<1>. QED  BY <1>1, <1>2, <1>3 DEF ServerInv

\* accept and the handshake: the key is installed for the connection at hand,
\* and s_authed is set only after the OK line.
LEMMA ServerInvStep ==
    ASSUME TypeOK, ServerInv, [Next]_vars
    PROVE  ServerInv'
<1> USE SessionAssumption DEF shared, locals, world, Goto, Threads
<1>0. pc \in [Threads -> {"idle", "take"} \cup InMutex \cup SrvLocs]
  BY DEF TypeOK
<1>1. ASSUME NEW c \in Conns, NEW f \in Fds, Accept(c, f) PROVE ServerInv'
  <2>1. /\ s_client_fd = None /\ ~s_sess.established /\ cfd = None
        /\ \A g \in Fds : sock[g] = None
    BY <1>1 DEF Accept, ServerInv, Keyed, Serving, InMutex, InFrame
  <2>2. /\ sock' = [sock EXCEPT ![f] = c] /\ link' = [link EXCEPT ![c] = "up"]
        /\ cfd' = f /\ s_client_fd' = f /\ ~s_authed' /\ attempt' = 0
        /\ pc' = [pc EXCEPT ![Srv] = "hello"]
        /\ UNCHANGED <<s_sess, line>>
    BY <2>1, <1>1 DEF Accept
  <2>3. Peer' = c
    BY <2>2 DEF Peer, TypeOK
  <2>4. /\ pc'[Srv] = "hello"
        /\ \A t \in Senders : pc'[t] = pc[t]
    BY <1>0, <2>2
  <2>5. link'[c] = "up" /\ \A d \in Conns \ {c} : link'[d] = link[d]
    BY <2>2 DEF TypeOK
  <2>6. \A g \in Fds : g # f => sock'[g] = None
    BY <2>1, <2>2 DEF TypeOK
  <2>7. f # None
    OBVIOUS
  <2>8. attempt' < MaxAttempts
    BY <2>2
  <2>. QED
    BY <2>1, <2>2, <2>3, <2>4, <2>5, <2>6, <2>7, <2>8
    DEF ServerInv, Keyed, Serving, InMutex, InFrame, SrvLocs, Peer
<1>2. ASSUME NEW t \in Threads, SendFrame(t) \/ (t \in Senders /\ Produce(t))
      PROVE ServerInv'
  BY <1>2, ServerInvSend
<1>3. CASE PeerStep
  BY <1>3, ServerInvPeer
<1>4. CASE CloseFd
  <2>1. /\ pc[Srv] = "out4" /\ cfd # None /\ cfd \in Fds /\ Peer \in Conns
        /\ ~s_authed /\ ~s_sess.established
    BY <1>4 DEF CloseFd, ServerInv, Keyed, Serving, InMutex, InFrame, TypeOK, Peer
  <2>2. /\ sock' = [sock EXCEPT ![cfd] = None] /\ link' = [link EXCEPT ![Peer] = "gone"]
        /\ cfd' = None /\ pc' = [pc EXCEPT ![Srv] = "accept"]
        /\ UNCHANGED <<s_sess, s_client_fd, s_authed>>
    BY <1>4 DEF CloseFd
  <2>3. pc'[Srv] = "accept" /\ \A t \in Senders : pc'[t] = pc[t]
    BY <1>0, <2>2
  <2>4. \A f \in Fds : sock'[f] = None
    BY <2>1, <2>2 DEF ServerInv, TypeOK
  <2>5. \A c \in Conns : link'[c] \in {"idle", "queued", "gone"}
    BY <2>1, <2>2 DEF ServerInv, TypeOK
  <2>. QED
    BY <2>1, <2>2, <2>3, <2>4, <2>5
    DEF ServerInv, Keyed, Serving, InMutex, InFrame, SrvLocs, Peer
<1>5. CASE \/ SendHello \/ Reject \/ KeygenFailed \/ SendOk
  <2>1. /\ pc[Srv] \in {"hello", "reject", "keygen", "okline"}
        /\ UNCHANGED <<s_client_fd, s_authed, s_sess, cfd, sock, link>>
        /\ \A t \in Senders : pc'[t] = pc[t]
    BY <1>0, <1>5 DEF SendHello, Reject, KeygenFailed, SendOk, SendLine
  <2>2. Peer' = Peer
    BY <2>1 DEF Peer
  <2>3. /\ pc[Srv] = "hello" => pc'[Srv] \in {"auth", "out1"} /\ attempt' = attempt
        /\ pc[Srv] = "reject" => pc'[Srv] \in {"hello", "cooldown"}
        /\ pc'[Srv] = "hello" => attempt' < MaxAttempts
        /\ pc[Srv] = "keygen" => pc'[Srv] = "out1"
        /\ pc[Srv] = "okline" => pc'[Srv] \in {"enter", "out1"}
        /\ pc'[Srv] = "enter" => link[Peer] = "up" /\ line' = [line EXCEPT ![Peer] = "OK"]
    BY <1>0, <1>5 DEF SendHello, Reject, KeygenFailed, SendOk, SendLine, LineSent,
                      MoreAttempts
  <2>4. Peer \in Conns /\ ~s_authed
    BY <2>1 DEF ServerInv, Serving, InMutex, InFrame, Peer
  <2>5. pc'[Srv] = "enter" => line'[Peer] = "OK"
    BY <2>3, <2>4 DEF TypeOK
  <2>. QED
    BY <2>1, <2>2, <2>3, <2>4, <2>5
    DEF ServerInv, Keyed, Serving, InMutex, InFrame, SrvLocs
<1>6. CASE AuthGood
  <2>1. /\ pc[Srv] = "auth" /\ pc' = [pc EXCEPT ![Srv] = "okline"]
        /\ s_sess' = [key |-> Peer, tx_seq |-> 0, established |-> TRUE]
        /\ UNCHANGED <<s_client_fd, s_authed, cfd, sock, link, line, attempt>>
    BY <1>6 DEF AuthGood
  <2>2. /\ Peer' = Peer /\ Peer \in Conns /\ ~s_authed
    BY <2>1 DEF ServerInv, Serving, InMutex, InFrame, Peer
  <2>3. pc'[Srv] = "okline" /\ \A t \in Senders : pc'[t] = pc[t]
    BY <1>0, <2>1
  <2>. QED
    BY <2>1, <2>2, <2>3 DEF ServerInv, Keyed, Serving, InMutex, InFrame, SrvLocs
<1>7. CASE AuthNoKey \/ AuthBad \/ AuthDropped \/ CoolDown \/ BadFrame
           \/ EndOfStream \/ Command
  <2>1. /\ UNCHANGED <<s_client_fd, s_authed, s_sess, cfd, sock, link, line, attempt>>
        /\ \A t \in Senders : pc'[t] = pc[t]
        /\ \/ pc[Srv] = "auth" /\ pc'[Srv] \in {"keygen", "reject", "out1"}
           \/ pc[Srv] = "cooldown" /\ pc'[Srv] = "out1"
           \/ pc[Srv] = "recv" /\ pc'[Srv] \in {"out1", "take"}
    BY <1>0, <1>7 DEF AuthNoKey, AuthBad, AuthDropped, CoolDown, BadFrame,
                      EndOfStream, Command
  <2>2. Peer' = Peer
    BY <2>1 DEF Peer
  <2>. QED
    BY <2>1, <2>2 DEF ServerInv, Keyed, Serving, InMutex, InFrame, SrvLocs
<1>8. CASE EnterSession
  <2>1. /\ pc[Srv] = "enter" /\ pc' = [pc EXCEPT ![Srv] = "recv"]
        /\ s_authed'
        /\ UNCHANGED <<s_client_fd, s_sess, cfd, sock, link, line, attempt>>
    BY <1>8 DEF EnterSession
  <2>2. Peer' = Peer
    BY <2>1 DEF Peer
  <2>3. pc'[Srv] = "recv" /\ \A t \in Senders : pc'[t] = pc[t]
    BY <1>0, <2>1
  <2>. QED
    BY <2>1, <2>2, <2>3 DEF ServerInv, Keyed, Serving, InMutex, InFrame, SrvLocs
<1>9. CASE ClearAuthed \/ ClearFd \/ WipeSession
  <2>1. /\ UNCHANGED <<cfd, sock, link, line, attempt>>
        /\ \A t \in Senders : pc'[t] = pc[t]
        /\ \/ /\ pc[Srv] = "out1" /\ pc'[Srv] = "out2"
              /\ ~s_authed' /\ UNCHANGED <<s_client_fd, s_sess>>
           \/ /\ pc[Srv] = "out2" /\ pc'[Srv] = "out3"
              /\ s_client_fd' = None /\ UNCHANGED <<s_authed, s_sess>>
           \/ /\ pc[Srv] = "out3" /\ pc'[Srv] = "out4"
              /\ s_sess' = Blank /\ UNCHANGED <<s_client_fd, s_authed>>
    BY <1>0, <1>9 DEF ClearAuthed, ClearFd, WipeSession
  <2>2. Peer' = Peer
    BY <2>1 DEF Peer
  <2>. QED
    BY <2>1, <2>2 DEF ServerInv, Keyed, Serving, InMutex, InFrame, SrvLocs, Blank
<1>10. CASE UNCHANGED vars
  BY <1>10 DEF vars, ServerInv, Peer
<1>. QED
  BY <1>1, <1>2, <1>3, <1>4, <1>5, <1>6, <1>7, <1>8, <1>9, <1>10
  DEF Next, ServerStep, ServerInput, Teardown

-----------------------------------------------------------------------------
(* The stream.                                                             *)

\* Nobody works on a frame beside the holder of the mutex.
LEMMA Alone ==
    ASSUME MutexInv, NEW t \in Threads, pc[t] \in InMutex
    PROVE  \A u \in Threads : u # t => pc[u] \notin InFrame
  BY DEF MutexInv, InMutex

\* What the invariants say of a task at work on a frame: the session is up,
\* and every object it touches belongs to the peer being served.
LEMMA InFrameFacts ==
    ASSUME TypeOK, ServerInv, StreamInv, ~overlap,
           NEW t \in Threads, pc[t] \in InFrame
    PROVE  /\ FrameInv(t) /\ s_authed
           /\ s_client_fd = cfd /\ cfd \in Fds /\ cfd # None
           /\ Peer \in Conns /\ s_sess.key = Peer /\ line[Peer] = "OK"
           /\ s_sess.established
           /\ ~Fresh(Peer)
           /\ link[Peer] \in {"up", "stalled", "gone"}
<1>1. FrameInv(t) /\ s_authed
  BY DEF StreamInv, FrameInv
<1>2. /\ pc[Srv] \in Serving \cup {"out1"} /\ s_sess.established
      /\ s_sess.key = Peer /\ line[Peer] = "OK"
  BY <1>1 DEF ServerInv
<1>3. cfd # None /\ s_client_fd = cfd
  BY <1>2 DEF ServerInv, Serving, InMutex, InFrame
<1>4. cfd \in Fds /\ Peer \in Conns
  BY <1>3 DEF TypeOK, ServerInv, Peer
<1>5. link[Peer] \in {"up", "stalled", "gone"}
  BY <1>3, <1>4 DEF ServerInv
<1>. QED
  BY <1>1, <1>2, <1>3, <1>4, <1>5 DEF Fresh, Serving, InMutex, InFrame

\* No step gives a frame to a connection whose handshake is not over.
LEMMA FreshStep ==
    ASSUME Inv, [Next]_vars
    PROVE  FreshInv'
<1> SUFFICES ASSUME ~overlap', NEW d \in Conns, Fresh(d)'
             PROVE  /\ frames'[d] = << >> /\ nonces'[d] = << >>
                    /\ d = s_sess'.key => s_sess'.tx_seq = 0
  BY DEF FreshInv
<1> DEFINE Goal == /\ frames'[d] = << >> /\ nonces'[d] = << >>
                   /\ d = s_sess'.key => s_sess'.tx_seq = 0
<1> USE SessionAssumption DEF Inv, shared, locals, world, Goto
<1>0. ~overlap
  BY DEF Next, ServerStep, ServerInput, SendFrame, TakeMutex, CheckSession,
         BuildHeader, Seal, SealFails, LoadSeq, StoreSeq, PickFd, SendBytes,
         GiveMutex, Produce, Accept, SendHello, AuthDropped, Reject, CoolDown,
         KeygenFailed, SendOk, EnterSession, EndOfStream, Teardown, ClearAuthed,
         ClearFd, WipeSession, CloseFd, AuthGood, AuthNoKey, AuthBad, Command,
         BadFrame, PeerStep, Connect, Stall, Resume, HangUp, LinkStep, vars
<1>1. pc \in [Threads -> {"idle", "take"} \cup InMutex \cup SrvLocs]
  BY DEF TypeOK
<1>2. Fresh(d) => /\ frames[d] = << >> /\ nonces[d] = << >>
                  /\ d = s_sess.key => s_sess.tx_seq = 0
  BY <1>0 DEF FreshInv
<1>3. ASSUME NEW t \in Threads, SendFrame(t) \/ (t \in Senders /\ Produce(t))
      PROVE Goal
  <2>1. UNCHANGED <<link, cfd, sock>>
    BY <1>3 DEF SendFrame, TakeMutex, CheckSession, BuildHeader, Seal, SealFails,
                LoadSeq, StoreSeq, PickFd, SendBytes, GiveMutex, Produce
  <2>2. pc'[Srv] # pc[Srv] => pc'[Srv] \in Serving \cup {"out1"}
    BY <1>1, <1>3 DEF SendFrame, TakeMutex, CheckSession, BuildHeader, Seal,
         SealFails, LoadSeq, StoreSeq, PickFd, SendBytes, GiveMutex, AfterGive,
         Produce, Serving, InMutex, InFrame, Threads, ServerInv
  <2>3. Fresh(d)
    BY <2>1, <2>2 DEF Fresh, Peer, Serving, InMutex, InFrame
  <2>4. CASE Seal(t) \/ StoreSeq(t) \/ SendBytes(t)
    <3>1. pc[t] \in InFrame
      BY <2>4 DEF Seal, StoreSeq, SendBytes, InFrame
    <3>2. /\ s_sess.key = Peer /\ Peer \in Conns /\ d # Peer /\ FrameInv(t)
          /\ cfd \in Fds
      BY <3>1, <2>3, <1>0, InFrameFacts
    <3>3. CASE Seal(t)
      BY <3>2, <3>3, <1>2, <2>3 DEF Seal, TypeOK
    <3>4. CASE StoreSeq(t)
      BY <3>2, <3>4, <1>2, <2>3 DEF StoreSeq, TypeOK
    <3>5. CASE SendBytes(t)
      <4>1. Behind(wfd[t]) = Peer
        BY <3>2, <3>5 DEF SendBytes, FrameInv, Behind, Peer
      <4>. QED  BY <4>1, <3>2, <3>5, <1>2, <2>3 DEF SendBytes, TypeOK
    <3>. QED  BY <2>4, <3>3, <3>4, <3>5
  <2>5. CASE ~(Seal(t) \/ StoreSeq(t) \/ SendBytes(t))
    BY <2>5, <1>2, <2>3, <1>3 DEF SendFrame, TakeMutex, CheckSession, BuildHeader,
         SealFails, LoadSeq, PickFd, GiveMutex, Produce
  <2>. QED  BY <2>4, <2>5
<1>4. ASSUME NEW c \in Conns, NEW f \in Fds, Accept(c, f) PROVE Goal
  <2>1. s_client_fd = None
    BY <1>4 DEF Accept, ServerInv
  <2>2. /\ sock' = [sock EXCEPT ![f] = c] /\ link' = [link EXCEPT ![c] = "up"]
        /\ cfd' = f /\ link[c] = "queued"
        /\ UNCHANGED <<s_sess, frames, nonces>>
    BY <2>1, <1>4 DEF Accept
  <2>3. Fresh(d)
    BY <2>2 DEF Fresh, Peer, TypeOK
  <2>. QED  BY <2>2, <2>3, <1>2
<1>5. CASE \/ SendHello \/ AuthDropped \/ Reject \/ CoolDown \/ KeygenFailed
           \/ SendOk \/ EnterSession \/ EndOfStream \/ ClearAuthed \/ ClearFd
           \/ AuthNoKey \/ AuthBad \/ Command \/ BadFrame
  <2>1. /\ UNCHANGED <<link, cfd, sock, s_sess, frames, nonces>>
        /\ pc'[Srv] \in {"auth", "hello", "reject", "keygen", "cooldown", "enter"}
             => pc[Srv] \in {"hello", "auth", "reject", "okline"}
        /\ pc'[Srv] # "okline"
    BY <1>1, <1>5 DEF SendHello, AuthDropped, Reject, CoolDown, KeygenFailed,
         SendOk, EnterSession, EndOfStream, ClearAuthed, ClearFd, AuthNoKey,
         AuthBad, Command, BadFrame, SendLine, Threads
  <2>2. Fresh(d)
    BY <2>1 DEF Fresh, Peer
  <2>. QED  BY <2>1, <2>2, <1>2
<1>6. CASE AuthGood
  <2>1. /\ UNCHANGED <<link, cfd, sock, frames, nonces>> /\ pc[Srv] = "auth"
        /\ s_sess'.tx_seq = 0
    BY <1>6 DEF AuthGood
  <2>2. Fresh(d)
    BY <2>1 DEF Fresh, Peer
  <2>. QED  BY <2>1, <2>2, <1>2
<1>7. CASE WipeSession
  <2>1. /\ UNCHANGED <<link, cfd, sock, frames, nonces>> /\ pc'[Srv] = "out4"
        /\ s_sess'.tx_seq = 0
    BY <1>1, <1>7 DEF WipeSession, Blank, Threads
  <2>2. Fresh(d)
    BY <2>1 DEF Fresh, Peer
  <2>. QED  BY <2>1, <2>2, <1>2
<1>8. CASE CloseFd
  <2>1. /\ UNCHANGED <<s_sess, frames, nonces>> /\ cfd' = None
        /\ link' = [link EXCEPT ![Peer] = "gone"]
    BY <1>8 DEF CloseFd
  <2>2. Fresh(d)
    BY <2>1 DEF Fresh, TypeOK
  <2>. QED  BY <2>1, <2>2, <1>2
<1>9. CASE PeerStep
  <2> PICK c \in Conns : Connect(c) \/ Stall(c) \/ Resume(c) \/ HangUp(c)
    BY <1>9 DEF PeerStep
  <2>1. /\ UNCHANGED <<s_sess, frames, nonces, cfd, sock, pc>>
        /\ link'[d] \in {"idle", "queued"} => link[d] \in {"idle", "queued"}
    BY DEF Connect, Stall, Resume, HangUp, LinkStep, TypeOK
  <2>2. Fresh(d)
    BY <2>1 DEF Fresh, Peer
  <2>. QED  BY <2>1, <2>2, <1>2
<1>10. CASE UNCHANGED vars
  BY <1>10, <1>2 DEF vars, Fresh, Peer
<1>. QED
  BY <1>3, <1>4, <1>5, <1>6, <1>7, <1>8, <1>9, <1>10
  DEF Next, ServerStep, ServerInput, Teardown, Threads

\* The frame in progress: each of its steps leads from one line of FrameInv
\* to the next, and its write adds the frame the client expects.
LEMMA StreamSend ==
    ASSUME Inv, ~overlap, ServerInv', TypeOK', NEW t \in Threads, SendFrame(t)
    PROVE  StreamInv'
<1> USE SessionAssumption DEF Inv, shared, locals, world, Goto
<1>1. pc \in [Threads -> {"idle", "take"} \cup InMutex \cup SrvLocs]
  BY DEF TypeOK
<1>2. /\ UNCHANGED <<s_client_fd, s_authed, cfd, sock, link, line>>
      /\ \A u \in Threads \ {t} : pc'[u] = pc[u]
  BY <1>1 DEF SendFrame, TakeMutex, CheckSession, BuildHeader, Seal, SealFails,
              LoadSeq, StoreSeq, PickFd, SendBytes, GiveMutex
<1>3. Peer' = Peer
  BY <1>2 DEF Peer
<1>4. \A c \in Conns : WellFormed(c) /\ Counted(c)
  BY DEF StreamInv
<1>5. CASE TakeMutex(t)
  <2>1. /\ pc[t] = "take" /\ pc'[t] = "check"
        /\ \A u \in Threads : pc[u] \notin InMutex
        /\ UNCHANGED <<s_sess, buf, rd, wfd, frames, nonces>>
    BY <1>1, <1>5 DEF TakeMutex, MutexFree, MutexInv, Threads
  <2>2. \A u \in Threads : pc[u] \notin InFrame /\ pc'[u] \notin InFrame
    BY <1>2, <2>1 DEF InMutex, InFrame
  <2>. QED
    BY <1>2, <1>3, <1>4, <2>1, <2>2 DEF StreamInv, WellFormed, Counted
<1>6. ASSUME pc[t] \in InMutex PROVE StreamInv'
  <2>1. \A u \in Threads : u # t => pc[u] \notin InFrame /\ pc'[u] \notin InFrame
    BY <1>2, <1>6, Alone
  <2>2. CASE CheckSession(t)
    <3>1. /\ UNCHANGED <<s_sess, buf, rd, wfd, frames, nonces>>
          /\ pc[t] = "check" /\ pc'[t] \in {"header", "give"}
          /\ pc'[t] = "header" => s_authed
      BY <1>1, <2>2 DEF CheckSession, SessionUp
    <3>2. \A u \in Threads : pc[u] \notin InFrame
      BY <2>1, <3>1 DEF InFrame
    <3>3. s_authed => /\ Len(nonces[Peer]) = s_sess.tx_seq
                      /\ link[Peer] # "gone" => Len(frames[Peer]) = s_sess.tx_seq
      BY <3>2 DEF StreamInv
    <3>4. pc'[t] = "header" => FrameInv(t)'
      BY <1>2, <1>3, <3>1, <3>3 DEF FrameInv
    <3>5. \A c \in Conns : WellFormed(c)' /\ Counted(c)'
      BY <1>4, <3>1 DEF WellFormed, Counted
    <3>6. \A u \in Threads : pc'[u] \in InFrame => u = t /\ pc'[t] = "header"
      BY <2>1, <3>1 DEF InFrame
    <3>. QED
      BY <1>2, <1>3, <3>1, <3>3, <3>4, <3>5, <3>6 DEF StreamInv
  <2>3. CASE GiveMutex(t)
    <3>1. /\ UNCHANGED <<s_sess, buf, frames, nonces>>
          /\ pc[t] = "give" /\ pc'[t] \in {"idle", "recv", "out1"}
      BY <1>1, <2>3 DEF GiveMutex, AfterGive
    <3>2. \A u \in Threads : pc[u] \notin InFrame /\ pc'[u] \notin InFrame
      BY <2>1, <3>1 DEF InFrame
    <3>3. \A c \in Conns : WellFormed(c)' /\ Counted(c)'
      BY <1>4, <3>1 DEF WellFormed, Counted
    <3>. QED
      BY <1>2, <1>3, <3>1, <3>2, <3>3 DEF StreamInv
  <2>4. ASSUME pc[t] \in InFrame PROVE StreamInv'
    <3>1. /\ FrameInv(t) /\ s_authed /\ cfd \in Fds /\ Peer \in Conns
          /\ s_sess.key = Peer /\ s_sess.established
          /\ line[Peer] = "OK" /\ s_client_fd = cfd
          /\ link[Peer] \in {"up", "stalled", "gone"}
      BY <2>4, InFrameFacts
    <3>2. ASSUME pc'[t] \in InFrame => FrameInv(t)',
                 pc'[t] \notin InFrame =>
                   /\ Len(nonces'[Peer]) = s_sess'.tx_seq
                   /\ link[Peer] # "gone" => Len(frames'[Peer]) = s_sess'.tx_seq,
                 \A c \in Conns : WellFormed(c)' /\ Counted(c)'
          PROVE  StreamInv'
      BY <1>2, <1>3, <2>1, <3>2 DEF StreamInv
    <3> USE DEF FrameInv
    <3>3. CASE BuildHeader(t)
      <4>1. /\ UNCHANGED <<s_sess, rd, wfd, frames, nonces>>
            /\ pc[t] = "header" /\ pc'[t] = "seal" /\ buf'.seq = s_sess.tx_seq
        BY <1>1, <3>1, <3>3 DEF BuildHeader
      <4>2. \A c \in Conns : WellFormed(c)' /\ Counted(c)'
        BY <1>4, <4>1 DEF WellFormed, Counted
      <4>. QED  BY <1>2, <1>3, <3>1, <3>2, <4>1, <4>2 DEF InFrame
    <3>4. CASE Seal(t)
      <4>1. /\ UNCHANGED <<s_sess, rd, wfd, frames>>
            /\ pc[t] = "seal" /\ pc'[t] = "load"
            /\ buf' = [buf EXCEPT !.key = Peer]
            /\ nonces' = [nonces EXCEPT ![Peer] = Append(@, buf.seq)]
        BY <1>1, <3>1, <3>4 DEF Seal
      <4>2. buf' = [seq |-> s_sess.tx_seq, key |-> Peer]
        BY <3>1, <4>1 DEF TypeOK
      <4>3. nonces[Peer] \in Seq(Nat) /\ buf.seq \in Nat
        BY <3>1 DEF TypeOK
      <4>4. /\ nonces'[Peer] = Append(nonces[Peer], s_sess.tx_seq)
            /\ \A c \in Conns : c # Peer => nonces'[c] = nonces[c]
        BY <3>1, <4>1 DEF TypeOK
      <4>5. Len(nonces[Peer]) = s_sess.tx_seq
        BY <3>1, <4>1
      <4>6. Len(nonces'[Peer]) = s_sess.tx_seq + 1
        BY <4>3, <4>4, <4>5
      <4>7. ASSUME NEW c \in Conns PROVE WellFormed(c)' /\ Counted(c)'
        <5>1. WellFormed(c)'
          BY <1>4, <4>1 DEF WellFormed
        <5>2. CASE c # Peer
          BY <1>4, <4>4, <5>1, <5>2 DEF Counted
        <5>3. CASE c = Peer
          <6>1. \A i \in 1..Len(nonces[Peer]) : nonces[Peer][i] = i - 1
            BY <1>4, <3>1 DEF Counted
          <6>2. ASSUME NEW i \in 1..Len(nonces'[Peer]) PROVE nonces'[Peer][i] = i - 1
            BY <4>3, <4>4, <4>5, <4>6, <6>1
          <6>. QED  BY <5>1, <5>3, <6>2 DEF Counted
        <5>. QED  BY <5>2, <5>3
      <4>. QED
        BY <1>2, <1>3, <3>1, <3>2, <4>1, <4>2, <4>6, <4>7 DEF InFrame
    <3>5. CASE SealFails(t)
      <4>1. /\ UNCHANGED <<s_sess, buf, rd, wfd, frames, nonces>>
            /\ pc[t] = "seal" /\ pc'[t] = "give"
        BY <1>1, <3>5 DEF SealFails
      <4>2. \A c \in Conns : WellFormed(c)' /\ Counted(c)'
        BY <1>4, <4>1 DEF WellFormed, Counted
      <4>. QED  BY <1>2, <1>3, <3>1, <3>2, <4>1, <4>2 DEF InFrame
    <3>6. CASE LoadSeq(t)
      <4>1. /\ UNCHANGED <<s_sess, buf, wfd, frames, nonces>>
            /\ pc[t] = "load" /\ pc'[t] = "store" /\ rd'[t] = s_sess.tx_seq
        BY <1>1, <3>6 DEF LoadSeq, TypeOK
      <4>2. \A c \in Conns : WellFormed(c)' /\ Counted(c)'
        BY <1>4, <4>1 DEF WellFormed, Counted
      <4>. QED  BY <1>2, <1>3, <3>1, <3>2, <4>1, <4>2 DEF InFrame
    <3>7. CASE StoreSeq(t)
      <4>1. /\ UNCHANGED <<buf, rd, wfd, frames, nonces>>
            /\ pc[t] = "store" /\ pc'[t] = "pick"
            /\ s_sess' = [s_sess EXCEPT !.tx_seq = rd[t] + 1]
        BY <1>1, <3>7 DEF StoreSeq
      <4>2. s_sess'.tx_seq = s_sess.tx_seq + 1 /\ s_sess.tx_seq \in Nat
        BY <3>1, <4>1 DEF TypeOK
      <4>3. \A c \in Conns : WellFormed(c)' /\ Counted(c)'
        BY <1>4, <4>1 DEF WellFormed, Counted
      <4>. QED  BY <1>2, <1>3, <3>1, <3>2, <4>1, <4>2, <4>3 DEF InFrame
    <3>8. CASE PickFd(t)
      <4>1. /\ UNCHANGED <<s_sess, buf, rd, frames, nonces>>
            /\ pc[t] = "pick" /\ pc'[t] = "send" /\ wfd'[t] = cfd
        BY <1>1, <3>1, <3>8 DEF PickFd, TypeOK
      <4>2. \A c \in Conns : WellFormed(c)' /\ Counted(c)'
        BY <1>4, <4>1 DEF WellFormed, Counted
      <4>. QED  BY <1>2, <1>3, <3>1, <3>2, <4>1, <4>2 DEF InFrame
    <3>9. CASE SendBytes(t)
      <4> DEFINE fr == [seq |-> s_sess.tx_seq - 1, key |-> Peer, after |-> "OK"]
      <4>1. /\ UNCHANGED <<s_sess, nonces>>
            /\ pc[t] = "send" /\ pc'[t] = "give"
        BY <1>1, <3>9 DEF SendBytes
      <4>2. Behind(wfd[t]) = Peer /\ Peer # None
        BY <3>1, <4>1 DEF Behind, Peer
      <4>3. buf.seq = s_sess.tx_seq - 1 /\ buf.key = Peer
        BY <3>1, <4>1
      <4>4. /\ link[Peer] = "up" => frames' = [frames EXCEPT ![Peer] = Append(@, fr)]
            /\ link[Peer] # "up" => frames' = frames
            /\ link[Peer] # "stalled"
        BY <3>1, <3>9, <4>2, <4>3 DEF SendBytes
      <4>5. CASE link[Peer] = "up"
        <5>1. frames[Peer] \in Seq(Frame) /\ s_sess.tx_seq \in Nat
          BY <3>1 DEF TypeOK
        <5>2. Len(frames[Peer]) = s_sess.tx_seq - 1
          BY <3>1, <4>1, <4>5
        <5>3. /\ frames'[Peer] = Append(frames[Peer], fr)
              /\ \A c \in Conns : c # Peer => frames'[c] = frames[c]
          <6>1. frames \in [Conns -> Seq(Frame)]
            BY DEF TypeOK
          <6> HIDE DEF fr
          <6>. QED  BY <6>1, <3>1, <4>4, <4>5
        <5>4. Len(frames'[Peer]) = s_sess.tx_seq
          BY <5>1, <5>2, <5>3
        <5>5. ASSUME NEW c \in Conns PROVE WellFormed(c)' /\ Counted(c)'
          <6>1. Counted(c)'
            BY <1>4, <4>1 DEF Counted
          <6>2. CASE c # Peer
            BY <1>4, <5>3, <6>1, <6>2 DEF WellFormed
          <6>3. CASE c = Peer
            <7>1. \A i \in 1..Len(frames[Peer]) : frames[Peer][i] =
                       [seq |-> i - 1, key |-> Peer, after |-> "OK"]
              BY <1>4, <3>1 DEF WellFormed
            <7>2. ASSUME NEW i \in 1..Len(frames'[Peer])
                  PROVE  frames'[Peer][i] = [seq |-> i - 1, key |-> Peer, after |-> "OK"]
              <8>1. CASE i = s_sess.tx_seq
                BY <5>1, <5>2, <5>3, <8>1
              <8>2. CASE i # s_sess.tx_seq
                BY <5>1, <5>2, <5>3, <5>4, <7>1, <8>2
              <8>. QED  BY <8>1, <8>2
            <7>. QED  BY <6>1, <6>3, <7>2, <1>3 DEF WellFormed
          <6>. QED  BY <6>2, <6>3
        <5>. QED
          BY <1>2, <1>3, <3>1, <3>2, <4>1, <5>4, <5>5 DEF InFrame
      <4>6. CASE link[Peer] # "up"
        <5>1. frames' = frames /\ link[Peer] = "gone"
          BY <3>1, <4>4, <4>6
        <5>2. \A c \in Conns : WellFormed(c)' /\ Counted(c)'
          BY <1>4, <4>1, <5>1 DEF WellFormed, Counted
        <5>. QED  BY <1>2, <1>3, <3>1, <3>2, <4>1, <5>1, <5>2 DEF InFrame
      <4>. QED  BY <4>5, <4>6
    <3>. QED
      BY <2>4, <3>3, <3>4, <3>5, <3>6, <3>7, <3>8, <3>9
      DEF SendFrame, TakeMutex, CheckSession, GiveMutex, InFrame
  <2>. QED
    BY <1>6, <2>2, <2>3, <2>4 DEF InMutex, SendFrame, TakeMutex, BuildHeader, Seal,
       SealFails, LoadSeq, StoreSeq, PickFd, SendBytes, InFrame
<1>. QED
  BY <1>5, <1>6 DEF SendFrame, CheckSession, BuildHeader, Seal, SealFails, LoadSeq,
     StoreSeq, PickFd, SendBytes, GiveMutex, InMutex, InFrame

\* A recorded overlap stays recorded.
LEMMA OverlapStays ==
    ASSUME [Next]_vars, overlap
    PROVE  overlap'
  BY DEF Next, ServerStep, ServerInput, SendFrame, TakeMutex, CheckSession,
         BuildHeader, Seal, SealFails, LoadSeq, StoreSeq, PickFd, SendBytes,
         GiveMutex, Produce, Accept, SendHello, AuthDropped, Reject, CoolDown,
         KeygenFailed, SendOk, EnterSession, EndOfStream, Teardown, ClearAuthed,
         ClearFd, WipeSession, CloseFd, AuthGood, AuthNoKey, AuthBad, Command,
         BadFrame, PeerStep, Connect, Stall, Resume, HangUp, LinkStep, vars,
         Goto, shared, locals, world

\* The server task and the peers: with the session down, nobody is at work on
\* a frame; EnterSession starts it with nothing sent; ClearAuthed ends it with
\* nobody at work, or records the overlap.
LEMMA StreamRest ==
    ASSUME Inv, ~overlap', [Next]_vars, ServerInv', TypeOK',
           ~(\E t \in Threads : SendFrame(t))
    PROVE  StreamInv'
<1> USE SessionAssumption DEF Inv, shared, locals, world, Goto
<1>0. /\ ~overlap
      /\ UNCHANGED frames /\ UNCHANGED nonces /\ UNCHANGED buf
      /\ UNCHANGED rd /\ UNCHANGED wfd
  <2>0. ~overlap
    BY OverlapStays
  <2>1. CASE \E c \in Conns, f \in Fds : Accept(c, f)
    <3> PICK c \in Conns, f \in Fds : Accept(c, f)
      BY <2>1
    <3>. QED  BY <2>0 DEF Accept
  <2>2. CASE SendHello \/ Reject \/ KeygenFailed \/ SendOk
    BY <2>0, <2>2 DEF SendHello, Reject, KeygenFailed, SendOk, SendLine
  <2>3. CASE AuthDropped \/ CoolDown \/ EnterSession \/ EndOfStream
    BY <2>0, <2>3 DEF AuthDropped, CoolDown, EnterSession, EndOfStream
  <2>4. CASE ClearAuthed \/ ClearFd \/ WipeSession \/ CloseFd
    BY <2>0, <2>4 DEF ClearAuthed, ClearFd, WipeSession, CloseFd
  <2>5. CASE ServerInput
    BY <2>0, <2>5 DEF ServerInput, AuthGood, AuthNoKey, AuthBad, Command, BadFrame
  <2>6. CASE \E p \in Senders : Produce(p)
    BY <2>0, <2>6 DEF Produce
  <2>7. CASE PeerStep
    BY <2>0, <2>7 DEF PeerStep, Connect, Stall, Resume, HangUp, LinkStep
  <2>8. CASE UNCHANGED vars
    BY <2>0, <2>8 DEF vars
  <2>. QED
    BY <2>1, <2>2, <2>3, <2>4, <2>5, <2>6, <2>7, <2>8
    DEF Next, ServerStep, Teardown, Threads
<1>1. pc \in [Threads -> {"idle", "take"} \cup InMutex \cup SrvLocs]
  BY DEF TypeOK
<1>2. \A c \in Conns : WellFormed(c)' /\ Counted(c)'
  BY <1>0 DEF StreamInv, WellFormed, Counted
<1>3. \A t \in Threads : pc[t] \in InFrame => FrameInv(t) /\ s_authed
  BY <1>0 DEF StreamInv, FrameInv
<1>4. ASSUME ~s_authed,
             ~s_authed',
             \A t \in Threads : pc'[t] \in InFrame => pc'[t] = pc[t]
      PROVE  StreamInv'
  BY <1>2, <1>3, <1>4 DEF StreamInv
<1>5. ASSUME s_authed' = s_authed,
             UNCHANGED <<s_sess, cfd, sock, line>>,
             \A c \in Conns : link'[c] # "gone" => link[c] # "gone",
             \A t \in Threads : pc'[t] # pc[t] =>
                 pc[t] \notin InFrame /\ pc'[t] \notin InFrame
      PROVE  StreamInv'
  <2>1. CASE s_authed
    <3>1. Peer \in Conns /\ Peer' = Peer /\ cfd \in Fds
      BY <2>1, <1>5 DEF ServerInv, Serving, InMutex, InFrame, Peer, TypeOK
    <3>2. ASSUME NEW t \in Threads, pc'[t] \in InFrame PROVE FrameInv(t)'
      BY <1>0, <1>3, <1>5, <3>1, <3>2, <2>1 DEF FrameInv
    <3>3. ASSUME \A t \in Threads : pc'[t] \notin InFrame
          PROVE  /\ Len(nonces'[Peer]) = s_sess.tx_seq
                 /\ link'[Peer] # "gone" => Len(frames'[Peer]) = s_sess.tx_seq
      <4>1. \A t \in Threads : pc[t] \notin InFrame
        BY <1>5, <3>3
      <4>. QED  BY <4>1, <1>0, <1>5, <2>1, <3>1 DEF StreamInv
    <3>. QED  BY <1>2, <1>5, <3>1, <3>2, <3>3 DEF StreamInv
  <2>2. CASE ~s_authed
    <3>1. ~s_authed'
      BY <2>2, <1>5
    <3>. QED  BY <2>2, <3>1, <1>4, <1>5
  <2>. QED  BY <2>1, <2>2
<1>6. ASSUME NEW p \in Senders, Produce(p) PROVE StreamInv'
  BY <1>1, <1>5, <1>6 DEF Produce, InFrame, Threads
<1>7. ASSUME NEW c \in Conns, NEW f \in Fds, Accept(c, f) PROVE StreamInv'
  <2>1. s_client_fd = None /\ ~s_authed
    BY <1>7 DEF Accept, ServerInv, Serving, InMutex, InFrame
  <2>2. ~s_authed' /\ pc' = [pc EXCEPT ![Srv] = "hello"]
    BY <2>1, <1>7 DEF Accept
  <2>. QED  BY <1>1, <1>4, <2>1, <2>2 DEF InFrame, Threads
<1>8. CASE SendHello \/ Reject \/ KeygenFailed \/ SendOk \/ AuthGood \/ ClearFd
           \/ WipeSession \/ CloseFd
  <2>1. /\ pc[Srv] \in {"hello", "reject", "keygen", "okline", "auth", "out2",
                        "out3", "out4"}
        /\ \E to \in SrvLocs : pc' = [pc EXCEPT ![Srv] = to]
        /\ s_authed' = s_authed
    BY <1>8 DEF SendHello, Reject, KeygenFailed, SendOk, AuthGood, ClearFd,
                WipeSession, CloseFd, SendLine, SrvLocs
  <2>2. ~s_authed
    BY <2>1 DEF ServerInv, Serving, InMutex, InFrame
  <2>3. \A t \in Threads : pc'[t] \in InFrame => pc'[t] = pc[t]
    BY <1>1, <2>1 DEF SrvLocs, InFrame, Threads
  <2>4. ~s_authed'
    BY <2>1, <2>2
  <2>. QED  BY <1>4, <2>2, <2>3, <2>4
<1>9. CASE AuthNoKey \/ AuthBad \/ AuthDropped \/ CoolDown \/ BadFrame
           \/ EndOfStream \/ Command
  <2>1. /\ UNCHANGED <<s_authed, s_sess, cfd, sock, link, line>>
        /\ pc[Srv] \in SrvLocs
        /\ \E to \in SrvLocs \cup {"take"} : pc' = [pc EXCEPT ![Srv] = to]
    BY <1>9 DEF AuthNoKey, AuthBad, AuthDropped, CoolDown, BadFrame, EndOfStream,
                Command, SrvLocs
  <2>2. \A t \in Threads : pc'[t] # pc[t] =>
            pc[t] \notin InFrame /\ pc'[t] \notin InFrame
    BY <1>1, <2>1 DEF SrvLocs, InFrame, Threads
  <2>. QED  BY <1>5, <2>1, <2>2
<1>10. CASE EnterSession
  <2>1. /\ pc[Srv] = "enter" /\ pc' = [pc EXCEPT ![Srv] = "recv"]
        /\ UNCHANGED <<s_sess, cfd, sock, link, line>>
    BY <1>10 DEF EnterSession
  <2>2. ~s_authed /\ s_sess.key = Peer /\ Peer \in Conns /\ cfd # None
    BY <2>1 DEF ServerInv, Keyed, Serving, InMutex, InFrame, Peer
  <2>3. \A t \in Threads : pc'[t] \notin InFrame
    BY <1>1, <1>3, <2>1, <2>2 DEF InFrame, Threads
  <2>4. frames[Peer] = << >> /\ nonces[Peer] = << >> /\ s_sess.tx_seq = 0
    BY <1>0, <2>1, <2>2 DEF FreshInv, Fresh
  <2>5. Len(frames'[Peer']) = 0 /\ Len(nonces'[Peer']) = 0 /\ s_sess'.tx_seq = 0
    BY <1>0, <2>1, <2>4 DEF Peer
  <2>. QED  BY <1>2, <2>3, <2>5 DEF StreamInv
<1>11. CASE ClearAuthed
  <2>1. /\ pc[Srv] = "out1" /\ pc' = [pc EXCEPT ![Srv] = "out2"]
        /\ ~s_authed'
        /\ \A t \in Senders : pc[t] \notin InFrame
    BY <1>11 DEF ClearAuthed
  <2>2. \A t \in Threads : pc'[t] \notin InFrame
    BY <1>1, <2>1 DEF InFrame, Threads
  <2>. QED  BY <1>2, <2>1, <2>2 DEF StreamInv
<1>12. CASE PeerStep
  <2> PICK c \in Conns : Connect(c) \/ Stall(c) \/ Resume(c) \/ HangUp(c)
    BY <1>12 DEF PeerStep
  <2>1. /\ UNCHANGED <<s_authed, s_sess, cfd, sock, line, pc>>
        /\ \A d \in Conns : link'[d] # "gone" => link[d] # "gone"
    BY DEF Connect, Stall, Resume, HangUp, LinkStep, TypeOK
  <2>. QED  BY <1>5, <2>1
<1>13. CASE UNCHANGED vars
  BY <1>5, <1>13 DEF vars
<1>. QED
  BY <1>6, <1>7, <1>8, <1>9, <1>10, <1>11, <1>12, <1>13
  DEF Next, ServerStep, ServerInput, Teardown, Threads

LEMMA InvInit == Init => Inv
<1> SUFFICES ASSUME Init PROVE Inv
  OBVIOUS
<1> USE SessionAssumption DEF Init, Threads
<1>1. TypeOK
  <2>1. << >> \in Seq(Frame) /\ << >> \in Seq(Nat)
    OBVIOUS
  <2>2. frames \in [Conns -> Seq(Frame)] /\ nonces \in [Conns -> Seq(Nat)]
    BY <2>1
  <2>3. pc \in [Threads -> {"idle", "take"} \cup InMutex \cup SrvLocs]
    BY DEF SrvLocs
  <2>4. s_authed \in BOOLEAN /\ overlap \in BOOLEAN
    BY Zenon
  <2>. QED  BY <2>2, <2>3, <2>4 DEF TypeOK, Blank, NoFrame, Lines
<1>2. MutexInv
  BY DEF MutexInv, InMutex, InFrame
<1>3. ServerInv
  BY DEF ServerInv, Serving, Keyed, InMutex, InFrame, SrvLocs, Blank
<1>4. FreshInv
  BY DEF FreshInv, Blank
<1>5. StreamInv
  <2>1. \A t \in Threads : pc[t] \notin InFrame
    BY DEF InFrame
  <2>2. \A c \in Conns : WellFormed(c) /\ Counted(c)
    BY DEF WellFormed, Counted
  <2>. QED  BY <2>1, <2>2 DEF StreamInv
<1>. QED  BY <1>1, <1>2, <1>3, <1>4, <1>5 DEF Inv

LEMMA InvStep == Inv /\ [Next]_vars => Inv'
<1> SUFFICES ASSUME Inv, [Next]_vars PROVE Inv'
  OBVIOUS
<1>1. TypeOK' /\ ServerInv' /\ MutexInv' /\ FreshInv'
  BY TypeStep, ServerInvStep, MutexStep, FreshStep DEF Inv
<1>2. CASE overlap'
  BY <1>1, <1>2 DEF Inv, StreamInv
<1>3. CASE ~overlap'
  <2>1. ~overlap
    BY <1>3, OverlapStays
  <2>2. CASE \E t \in Threads : SendFrame(t)
    BY <1>1, <2>1, <2>2, StreamSend DEF Inv
  <2>3. CASE ~(\E t \in Threads : SendFrame(t))
    BY <1>1, <1>3, <2>3, StreamRest DEF Inv
  <2>. QED  BY <2>2, <2>3
<1>. QED  BY <1>2, <1>3

-----------------------------------------------------------------------------
(* Theorems.                                                               *)

THEOREM Invariance == Spec => []Inv
  BY InvInit, InvStep, PTL DEF Spec

\* The types of net.c's session state hold in every reachable state.
THEOREM TypeCorrect == Spec => []TypeOK
<1>1. Inv => TypeOK
  BY DEF Inv
<1>. QED  BY <1>1, Invariance, PTL

\* As long as no teardown has begun beside a frame in progress, each client
\* reads frames sealed under its own key, numbered from 0 without a gap, and
\* none before the handshake's last line (net.c 246-269, 321-374, 379-429).
THEOREM StreamInOrder == Spec => []InOrder
<1>1. Inv => InOrder
  BY DEF Inv, StreamInv, InOrder
<1>. QED  BY <1>1, Invariance, PTL

\* Under the same proviso no two frames, written or lost, are sealed with one
\* key and one nonce (proto.c 84-103).
THEOREM NoncesUnique == Spec => []NonceOnce
<1>1. Inv => NonceOnce
  <2> SUFFICES ASSUME Inv, ~overlap, NEW c \in Conns,
                      NEW i \in 1..Len(nonces[c]), NEW j \in 1..Len(nonces[c]),
                      nonces[c][i] = nonces[c][j]
               PROVE  i = j
    BY DEF NonceOnce
  <2>1. Counted(c)
    BY DEF Inv, StreamInv
  <2>2. i - 1 = j - 1
    BY <2>1 DEF Counted
  <2>3. Len(nonces[c]) \in Nat
    BY DEF Inv, TypeOK
  <2>. QED  BY <2>2, <2>3
<1>. QED  BY <1>1, Invariance, PTL

\* s_authed vouches for descriptor, key and handshake at once, and between
\* sessions no key is left, whatever a late sender stores (net.c 381-396,
\* 422-427).  These two need no proviso.
THEOREM AuthedIsCoherent == Spec => []AuthedCoherent
<1>1. Inv => AuthedCoherent
  <2> SUFFICES ASSUME Inv, s_authed PROVE AuthedCoherent
    BY DEF AuthedCoherent
  <2>1. /\ pc[Srv] \in Serving \cup {"out1"} /\ s_sess.established
        /\ s_sess.key = Peer /\ line[Peer] = "OK"
    BY DEF Inv, ServerInv
  <2>2. cfd # None /\ s_client_fd = cfd /\ Peer \in Conns
    BY <2>1 DEF Inv, ServerInv, Serving, InMutex, InFrame, Peer
  <2>. QED  BY <2>1, <2>2 DEF AuthedCoherent
<1>. QED  BY <1>1, Invariance, PTL

THEOREM KeyIsWiped == Spec => []NoKeyOutlivesSession
<1>1. Inv => NoKeyOutlivesSession
  <2> SUFFICES ASSUME Inv, pc[Srv] \in {"accept", "hello", "auth", "reject", "cooldown"}
               PROVE  s_sess.key = None /\ ~s_sess.established
    BY DEF NoKeyOutlivesSession
  <2>1. ~s_sess.established
    BY DEF Inv, ServerInv, Keyed, Serving, InMutex, InFrame
  <2>2. s_sess.key \in Conns \cup {None}
    BY DEF Inv, TypeOK
  <2>. QED  BY <2>1, <2>2 DEF Inv, ServerInv
<1>. QED  BY <1>1, Invariance, PTL

\* The published descriptor is open: a send through it can never reach a
\* descriptor that session_loop has already closed (net.c 424, 427).
THEOREM FdIsOpen == Spec => []FdNeverStale
<1>1. Inv => FdNeverStale
  <2> SUFFICES ASSUME Inv, s_client_fd # None PROVE Behind(s_client_fd) # None
    BY DEF FdNeverStale
  <2>1. s_client_fd = cfd /\ cfd # None /\ cfd \in Fds /\ sock[cfd] \in Conns
    BY DEF Inv, ServerInv, TypeOK
  <2>. QED  BY <2>1, SessionAssumption DEF Behind
<1>. QED  BY <1>1, Invariance, PTL
=============================================================================
