------------------------------ MODULE Session ------------------------------
(***************************************************************************)
(* The single client session of net.c and the senders that share it.       *)
(*                                                                         *)
(* The server task (tcp_server_task, which runs session_loop in its own    *)
(* loop) accepts a connection, challenges the peer, establishes the        *)
(* session, answers commands and tears the session down.  The logger pump  *)
(* and the event producers (GPIO watch, ADC and UART streams, health) call *)
(* send_frame from tasks of their own.  All of them share s_client_fd,     *)
(* s_authed, s_sess and the static frame buffer; s_tx_mtx serialises       *)
(* send_frame, and nothing else.  Tasks are preemptive and the chip has    *)
(* two cores, so every interleaving of the steps below is a behaviour.     *)
(*                                                                         *)
(* A connection is named by its element of Conns, and so is the session    *)
(* key derived on it: a server nonce is fresh per attempt, so two          *)
(* connections never derive the same key.  None stands for "no such        *)
(* thing": fd -1, a free mutex, and, as a key, memory that holds no        *)
(* session key (all zero, or in the middle of being written).              *)
(***************************************************************************)
EXTENDS Naturals, Sequences, FiniteSets

CONSTANTS
    Conns,        \* the connections peers may open
    Fds,          \* socket descriptors the TCP stack hands out
    Senders,      \* tasks other than the server task that call send_frame
    Pump,         \* those of them that test s_authed first (logger_pump_task)
    Srv,          \* the server task
    None,
    MaxAttempts,  \* CONFIG_ESPSHELL_AUTH_MAX_ATTEMPTS
    MaxFrames     \* bound: calls of send_frame and commands, in all

ASSUME SessionAssumption ==
    /\ Pump \subseteq Senders
    /\ Srv \notin Senders
    /\ None \notin Conns \cup Fds \cup Senders \cup {Srv}
    /\ MaxAttempts \in Nat \ {0}
    /\ MaxFrames \in Nat

Threads == Senders \cup {Srv}

VARIABLES
    s_client_fd,  \* fd of the active session, None for -1
    s_authed,     \* the handshake on s_client_fd has succeeded
    s_sess,       \* proto_session_t: key, tx_seq, established
    s_tx_mtx,     \* holder of the transmit mutex
    buf,          \* static frame buffer of send_frame: sequence number, key
    pc,           \* where each task is
    ok,           \* send_frame's local result, per task
    rd,           \* tx_seq as loaded by tx_seq++, per task
    wfd,          \* the descriptor passed to write_full, per task
    cfd,          \* session_loop's fd
    attempt,      \* do_handshake's loop counter
    sock,         \* TCP stack: the connection behind each descriptor
    link,         \* TCP stack: state of each connection
    line,         \* the last cleartext line sent on each connection
    frames,       \* the frames written to each connection
    nonces,       \* history: sequence numbers sealed under each key
    ncalls,       \* calls of send_frame and commands so far
    overlap       \* history: a teardown ran beside a frame in progress

shared == <<s_client_fd, s_authed, s_sess, s_tx_mtx, buf>>
locals == <<ok, rd, wfd, cfd, attempt>>
world  == <<sock, link, line, frames>>
vars   == <<s_client_fd, s_authed, s_sess, s_tx_mtx, buf, pc, ok, rd, wfd,
            cfd, attempt, sock, link, line, frames, nonces, ncalls, overlap>>

Blank == [key |-> None, tx_seq |-> 0, established |-> FALSE]
NoFrame == [seq |-> 0, key |-> None]

Lines == {"none", "HELLO", "ERR 3", "ERR 8", "ERR 9", "OK"}

\* A frame as it lies in a connection's stream: its header sequence number,
\* the key it is sealed under, and the cleartext line that precedes it.
Frame == [seq : Nat, key : Conns \cup {None}, after : Lines]

\* Locations of send_frame past its check of the session, where it works on
\* the session and on the frame buffer.
InFrame == {"header", "seal", "load", "store", "pick", "send"}
InMutex == {"check", "give"} \cup InFrame
SrvLocs == {"accept", "hello", "auth", "reject", "keygen", "okline", "enter",
            "recv", "cooldown", "out1", "out2", "out3", "out4"}

Init ==
    /\ s_client_fd = None
    /\ s_authed = FALSE
    /\ s_sess = Blank
    /\ s_tx_mtx = None
    /\ buf = NoFrame
    /\ pc = [t \in Threads |-> IF t = Srv THEN "accept" ELSE "idle"]
    /\ ok = [t \in Threads |-> FALSE]
    /\ rd = [t \in Threads |-> 0]
    /\ wfd = [t \in Threads |-> None]
    /\ cfd = None
    /\ attempt = 0
    /\ sock = [f \in Fds |-> None]
    /\ link = [c \in Conns |-> "idle"]
    /\ line = [c \in Conns |-> "none"]
    /\ frames = [c \in Conns |-> << >>]
    /\ nonces = [c \in Conns |-> << >>]
    /\ ncalls = 0
    /\ overlap = FALSE

Goto(t, from, to) ==
    /\ pc[t] = from
    /\ pc' = [pc EXCEPT ![t] = to]

\* The connection behind a descriptor; None when it is -1 or closed.
Behind(fd) == IF fd \in Fds THEN sock[fd] ELSE None

Peer == sock[cfd]

-----------------------------------------------------------------------------
(* Faults: what a slip in net.c would make of the definition named after   *)
(* "of".  Each breaks one of the properties below.                         *)

\* of MoreAttempts: off by one.
OneAttemptTooMany == attempt + 1 <= MaxAttempts

\* of SessionUp: s_authed is not tested again under the mutex.
SessionUpUnauthed == s_client_fd # None

\* of MutexFree: send_frame does not wait for the mutex.
MutexNotTaken == TRUE

\* of ClearAuthed: the flag survives the session.
ClearAuthedForgotten ==
    /\ Goto(Srv, "out1", "out2")
    /\ UNCHANGED <<shared, locals, world, nonces, ncalls, overlap>>

\* of ClearFd: the descriptor survives the session.
ClearFdForgotten ==
    /\ Goto(Srv, "out2", "out3")
    /\ UNCHANGED <<shared, locals, world, nonces, ncalls, overlap>>

\* of WipeSession: the key survives the session.
WipeForgotten ==
    /\ Goto(Srv, "out3", "out4")
    /\ UNCHANGED <<shared, locals, world, nonces, ncalls, overlap>>

\* of CloseFd: the descriptor leaks.
CloseForgotten ==
    /\ Goto(Srv, "out4", "accept")
    /\ cfd' = None
    /\ UNCHANGED <<shared, ok, rd, wfd, attempt, world, nonces, ncalls, overlap>>

\* of Released: an early return on a failed write keeps the mutex.
ReleasedIfSent(t) == IF ok[t] THEN None ELSE t

-----------------------------------------------------------------------------
(* send_frame and proto_frame_encrypt, run by every task in Threads.       *)

\* logger_pump_task drops the line unless s_authed; net_send_event does not
\* look.  An oversized line returns before anything is touched.
Produce(p) ==
    /\ ncalls < MaxFrames
    /\ p \in Pump => s_authed
    /\ Goto(p, "idle", "take")
    /\ ncalls' = ncalls + 1
    /\ UNCHANGED <<shared, locals, world, nonces, overlap>>

MutexFree == s_tx_mtx = None

TakeMutex(t) ==
    /\ MutexFree
    /\ s_tx_mtx' = t
    /\ ok' = [ok EXCEPT ![t] = FALSE]
    /\ Goto(t, "take", "check")
    /\ UNCHANGED <<s_client_fd, s_authed, s_sess, buf, rd, wfd, cfd, attempt,
                   world, nonces, ncalls, overlap>>

SessionUp == s_client_fd # None /\ s_authed

CheckSession(t) ==
    /\ Goto(t, "check", IF SessionUp THEN "header" ELSE "give")
    /\ UNCHANGED <<shared, locals, world, nonces, ncalls, overlap>>

\* The established test and the header; the two reads of tx_seq (header and
\* nonce) are one.
BuildHeader(t) ==
    /\ Goto(t, "header", IF s_sess.established THEN "seal" ELSE "give")
    /\ buf' = IF s_sess.established THEN [seq |-> s_sess.tx_seq, key |-> None]
                                    ELSE buf
    /\ UNCHANGED <<s_client_fd, s_authed, s_sess, s_tx_mtx, locals, world,
                   nonces, ncalls, overlap>>

\* import_key copies the key as it is at that moment, then the AEAD runs.
Seal(t) ==
    /\ Goto(t, "seal", "load")
    /\ buf' = [buf EXCEPT !.key = s_sess.key]
    /\ nonces' = IF s_sess.key \in Conns
                 THEN [nonces EXCEPT ![s_sess.key] = Append(@, buf.seq)]
                 ELSE nonces
    /\ UNCHANGED <<s_client_fd, s_authed, s_sess, s_tx_mtx, locals, world,
                   ncalls, overlap>>

\* psa_import_key or psa_aead_encrypt fails: nothing is output.
SealFails(t) ==
    /\ Goto(t, "seal", "give")
    /\ UNCHANGED <<shared, locals, world, nonces, ncalls, overlap>>

\* tx_seq++ is a load and a store on a shared 64-bit field.
LoadSeq(t) ==
    /\ Goto(t, "load", "store")
    /\ rd' = [rd EXCEPT ![t] = s_sess.tx_seq]
    /\ UNCHANGED <<shared, ok, wfd, cfd, attempt, world, nonces, ncalls, overlap>>

StoreSeq(t) ==
    /\ Goto(t, "store", "pick")
    /\ s_sess' = [s_sess EXCEPT !.tx_seq = rd[t] + 1]
    /\ UNCHANGED <<s_client_fd, s_authed, s_tx_mtx, buf, locals, world,
                   nonces, ncalls, overlap>>

\* write_full is called with s_client_fd, read again here.
PickFd(t) ==
    /\ Goto(t, "pick", "send")
    /\ wfd' = [wfd EXCEPT ![t] = s_client_fd]
    /\ UNCHANGED <<shared, ok, rd, cfd, attempt, world, nonces, ncalls, overlap>>

\* write_full returns: blocked while the peer's window is shut, an error on a
\* bad descriptor or a lost connection, else the frame is in the stream.
SendBytes(t) ==
    LET c == Behind(wfd[t]) IN
    /\ Goto(t, "send", "give")
    /\ c # None => link[c] # "stalled"
    /\ LET sent == c # None /\ link[c] = "up" IN
       /\ ok' = [ok EXCEPT ![t] = sent]
       /\ frames' = IF sent
                    THEN [frames EXCEPT ![c] = Append(@,
                            [seq |-> buf.seq, key |-> buf.key, after |-> line[c]])]
                    ELSE frames
    /\ UNCHANGED <<shared, rd, wfd, cfd, attempt, sock, link, line, nonces,
                   ncalls, overlap>>

\* The reply is sent: next command.  It is not: session_loop breaks.
AfterGive(t) == IF t # Srv THEN "idle" ELSE IF ok[t] THEN "recv" ELSE "out1"

\* The mutex is given on every path.
Released(t) == None

GiveMutex(t) ==
    /\ s_tx_mtx' = Released(t)
    /\ Goto(t, "give", AfterGive(t))
    /\ rd' = [rd EXCEPT ![t] = 0]
    /\ wfd' = [wfd EXCEPT ![t] = None]
    /\ UNCHANGED <<s_client_fd, s_authed, s_sess, buf, ok, cfd, attempt, world,
                   nonces, ncalls, overlap>>

SendFrame(t) ==
    \/ TakeMutex(t) \/ CheckSession(t) \/ BuildHeader(t) \/ Seal(t)
    \/ SealFails(t) \/ LoadSeq(t) \/ StoreSeq(t) \/ PickFd(t)
    \/ SendBytes(t) \/ GiveMutex(t)

-----------------------------------------------------------------------------
(* The server task: accept, handshake, command loop, teardown.             *)

\* The single-client test, then session_loop publishes the descriptor.
Accept(c, f) ==
    /\ pc[Srv] = "accept"
    /\ link[c] = "queued"
    /\ sock[f] = None
    /\ IF s_client_fd # None
       THEN /\ line' = [line EXCEPT ![c] = "ERR 8"]
            /\ link' = [link EXCEPT ![c] = "gone"]
            /\ UNCHANGED <<s_client_fd, s_authed, pc, cfd, attempt, sock>>
       ELSE /\ sock' = [sock EXCEPT ![f] = c]
            /\ link' = [link EXCEPT ![c] = "up"]
            /\ cfd' = f
            /\ s_client_fd' = f
            /\ s_authed' = FALSE
            /\ attempt' = 0
            /\ pc' = [pc EXCEPT ![Srv] = "hello"]
            /\ UNCHANGED line
    /\ UNCHANGED <<s_sess, s_tx_mtx, buf, ok, rd, wfd, frames, nonces, ncalls,
                   overlap>>

\* send_line: blocked while the window is shut; the cleartext lines are
\* written without s_tx_mtx.
SendLine(l) ==
    /\ link[Peer] # "stalled"
    /\ line' = IF link[Peer] = "up" THEN [line EXCEPT ![Peer] = l] ELSE line
    /\ UNCHANGED <<sock, link, frames>>

LineSent == link[Peer] = "up"

SendHello ==
    /\ Goto(Srv, "hello", IF LineSent THEN "auth" ELSE "out1")
    /\ SendLine("HELLO")
    /\ UNCHANGED <<shared, locals, nonces, ncalls, overlap>>

PeerPresent == link[Peer] \in {"up", "stalled"}

\* A well-formed AUTH line whose hmac verifies; the derived key is installed
\* without the mutex.  proto_session_init sets established last, and no task
\* tests it meanwhile, so its stores are one step.
AuthGood ==
    /\ Goto(Srv, "auth", "okline")
    /\ PeerPresent
    /\ s_sess' = [key |-> Peer, tx_seq |-> 0, established |-> TRUE]
    /\ UNCHANGED <<s_client_fd, s_authed, s_tx_mtx, buf, locals, world, nonces,
                   ncalls, overlap>>

\* The hmac verifies but auth_derive_session_key fails.
AuthNoKey ==
    /\ Goto(Srv, "auth", "keygen")
    /\ PeerPresent
    /\ UNCHANGED <<shared, locals, world, nonces, ncalls, overlap>>

\* Anything else that is a line.
AuthBad ==
    /\ Goto(Srv, "auth", "reject")
    /\ PeerPresent
    /\ UNCHANGED <<shared, locals, world, nonces, ncalls, overlap>>

\* recv_line fails: receive timeout, end of stream, or a line too long.
AuthDropped ==
    /\ Goto(Srv, "auth", "out1")
    /\ UNCHANGED <<shared, locals, world, nonces, ncalls, overlap>>

MoreAttempts == attempt + 1 < MaxAttempts

\* The result of this send_line is ignored; the loop goes round with a fresh
\* challenge, or ends in the cool-down.
Reject ==
    /\ Goto(Srv, "reject", IF MoreAttempts THEN "hello" ELSE "cooldown")
    /\ SendLine("ERR 3")
    /\ attempt' = attempt + 1
    /\ UNCHANGED <<shared, ok, rd, wfd, cfd, nonces, ncalls, overlap>>

CoolDown ==
    /\ Goto(Srv, "cooldown", "out1")
    /\ UNCHANGED <<shared, locals, world, nonces, ncalls, overlap>>

KeygenFailed ==
    /\ Goto(Srv, "keygen", "out1")
    /\ SendLine("ERR 9")
    /\ UNCHANGED <<shared, locals, nonces, ncalls, overlap>>

SendOk ==
    /\ Goto(Srv, "okline", IF LineSent THEN "enter" ELSE "out1")
    /\ SendLine("OK")
    /\ UNCHANGED <<shared, locals, nonces, ncalls, overlap>>

EnterSession ==
    /\ Goto(Srv, "enter", "recv")
    /\ s_authed' = TRUE
    /\ UNCHANGED <<s_client_fd, s_sess, s_tx_mtx, buf, locals, world, nonces,
                   ncalls, overlap>>

\* A frame that decrypts is dispatched, and its reply goes to send_frame.
Command ==
    /\ Goto(Srv, "recv", "take")
    /\ PeerPresent
    /\ s_sess.established
    /\ ncalls < MaxFrames
    /\ ncalls' = ncalls + 1
    /\ UNCHANGED <<shared, locals, world, nonces, overlap>>

\* A frame with a bad length, sequence number or tag ends the session.
BadFrame ==
    /\ Goto(Srv, "recv", "out1")
    /\ PeerPresent
    /\ UNCHANGED <<shared, locals, world, nonces, ncalls, overlap>>

\* recv returns 0 or an error: the peer closed, reset, or keepalive gave up.
EndOfStream ==
    /\ Goto(Srv, "recv", "out1")
    /\ link[Peer] = "gone"
    /\ UNCHANGED <<shared, locals, world, nonces, ncalls, overlap>>

\* session_loop's out: label, store by store and without the mutex.
ClearAuthed ==
    /\ Goto(Srv, "out1", "out2")
    /\ s_authed' = FALSE
    /\ overlap' = (overlap \/ \E t \in Senders : pc[t] \in InFrame)
    /\ UNCHANGED <<s_client_fd, s_sess, s_tx_mtx, buf, locals, world, nonces,
                   ncalls>>

ClearFd ==
    /\ Goto(Srv, "out2", "out3")
    /\ s_client_fd' = None
    /\ UNCHANGED <<s_authed, s_sess, s_tx_mtx, buf, locals, world, nonces,
                   ncalls, overlap>>

\* proto_session_wipe clears the key first and established last; a sender
\* that sees part of it sees no session key, as after the whole of it.
WipeSession ==
    /\ Goto(Srv, "out3", "out4")
    /\ s_sess' = Blank
    /\ UNCHANGED <<s_client_fd, s_authed, s_tx_mtx, buf, locals, world, nonces,
                   ncalls, overlap>>

\* ota_abort and close(fd); back to accept.
CloseFd ==
    /\ Goto(Srv, "out4", "accept")
    /\ sock' = [sock EXCEPT ![cfd] = None]
    /\ link' = [link EXCEPT ![Peer] = "gone"]
    /\ cfd' = None
    /\ UNCHANGED <<shared, ok, rd, wfd, attempt, line, frames, nonces, ncalls,
                   overlap>>

Teardown == ClearAuthed \/ ClearFd \/ WipeSession \/ CloseFd

\* Steps the server task takes without waiting for the peer to send.
ServerStep ==
    \/ \E c \in Conns, f \in Fds : Accept(c, f)
    \/ SendHello \/ AuthDropped \/ Reject \/ CoolDown \/ KeygenFailed
    \/ SendOk \/ EnterSession \/ EndOfStream \/ Teardown
    \/ SendFrame(Srv)

\* Steps of the server task that the peer's bytes allow.
ServerInput == AuthGood \/ AuthNoKey \/ AuthBad \/ Command \/ BadFrame

-----------------------------------------------------------------------------
(* Peers and the network, outside the firmware.                            *)

LinkStep(c, from, to) ==
    /\ link[c] \in from
    /\ link' = [link EXCEPT ![c] = to]
    /\ UNCHANGED <<shared, locals, pc, sock, line, frames, nonces, ncalls, overlap>>

Connect(c) == LinkStep(c, {"idle"}, "queued")          \* into the backlog
Stall(c)   == LinkStep(c, {"up"}, "stalled")           \* stops reading
Resume(c)  == LinkStep(c, {"stalled"}, "up")
HangUp(c)  == LinkStep(c, {"queued", "up", "stalled"}, "gone")

PeerStep == \E c \in Conns : Connect(c) \/ Stall(c) \/ Resume(c) \/ HangUp(c)

-----------------------------------------------------------------------------
Next ==
    \/ ServerStep
    \/ ServerInput
    \/ \E p \in Senders : Produce(p) \/ SendFrame(p)
    \/ PeerStep

Spec == Init /\ [][Next]_vars

\* FreeRTOS runs every ready task: the server task never stays put when it
\* can step (the cool-down and the receive timeout end), and neither does a
\* sender.  Nothing makes a peer send, read or leave, or a producer produce.
Fairness ==
    /\ WF_vars(ServerStep)
    /\ \A p \in Senders : WF_vars(SendFrame(p))

FairSpec == Spec /\ Fairness
-----------------------------------------------------------------------------
(* Properties.                                                             *)

\* Type correctness of the session's state (net.c 60-64).
TypeOK ==
    /\ s_client_fd \in Fds \cup {None}
    /\ s_authed \in BOOLEAN
    /\ s_sess \in [key : Conns \cup {None}, tx_seq : Nat, established : BOOLEAN]
    /\ s_tx_mtx \in Threads \cup {None}
    /\ buf \in [seq : Nat, key : Conns \cup {None}]
    /\ pc \in [Threads -> {"idle", "take"} \cup InMutex \cup SrvLocs]
    /\ ok \in [Threads -> BOOLEAN]
    /\ rd \in [Threads -> Nat]
    /\ wfd \in [Threads -> Fds \cup {None}]
    /\ cfd \in Fds \cup {None}
    /\ attempt \in 0..MaxAttempts
    /\ sock \in [Fds -> Conns \cup {None}]
    /\ link \in [Conns -> {"idle", "queued", "up", "stalled", "gone"}]
    /\ line \in [Conns -> Lines]
    /\ frames \in [Conns -> Seq(Frame)]
    /\ nonces \in [Conns -> Seq(Nat)]
    /\ ncalls \in 0..MaxFrames
    /\ overlap \in BOOLEAN

\* What protocol.md promises of a server's stream: after the handshake's last
\* line, frames sealed under that connection's key and numbered from 0.
WellFormed(c) ==
    \A i \in 1..Len(frames[c]) :
        frames[c][i] = [seq |-> i - 1, key |-> c, after |-> "OK"]

\* However senders, commands, handshakes and teardowns interleave, as long as
\* no teardown began beside a frame in progress (net.c 422-427 beside
\* 262-266) every client reads the stream proto_frame_decrypt expects.
InOrder == ~overlap => \A c \in Conns : WellFormed(c)

\* The same without the proviso: what protocol.md 13-15 and proto.h 19 and 61
\* say of the program.
StreamWellFormed == \A c \in Conns : WellFormed(c)

\* No two frames are sealed under one key with one sequence number (a nonce
\* is direction and sequence number, proto.c 84-85), the frames whose write
\* failed included.
NonceOnce ==
    ~overlap => \A c \in Conns : \A i, j \in 1..Len(nonces[c]) :
                    nonces[c][i] = nonces[c][j] => i = j

\* While s_authed is set, all that send_frame and the command loop rely on
\* belongs to the one connection that passed its handshake (net.c 262-265,
\* 396): its descriptor is open, "OK" went out, and the session holds its key.
AuthedCoherent ==
    s_authed => /\ s_client_fd # None
                /\ s_client_fd = cfd
                /\ Peer \in Conns
                /\ line[Peer] = "OK"
                /\ s_sess.key = Peer
                /\ s_sess.established

\* s_client_fd never names a descriptor that session_loop has closed, which
\* the TCP stack may hand out again (net.c 424 before 427).
FdNeverStale == s_client_fd # None => Behind(s_client_fd) # None

\* Between sessions, and until the next handshake succeeds, the session holds
\* no key and encrypts nothing, whatever a late sender still stores into it
\* (net.c 425, proto.c 43-47, 73).
NoKeyOutlivesSession ==
    pc[Srv] \in {"accept", "hello", "auth", "reject", "cooldown"}
        => s_sess.key = None /\ ~s_sess.established

\* A connection is closed, and the slot is free for the next client, once its
\* peer is gone: no handshake step, blocked reply or mutex wait keeps it
\* (net.c 386-388, 422-427, 490-494).
SlotReleased ==
    \A c \in Conns :
        (\E f \in Fds : sock[f] = c) /\ link[c] = "gone"
            ~> ~(\E f \in Fds : sock[f] = c)

\* If no peer stops reading for good, each sender comes back from send_frame:
\* nobody is left waiting for s_tx_mtx (net.c 259-267).
SendersReturn ==
    <>[](\A c \in Conns : link[c] # "stalled")
        => \A p \in Senders : []<>(pc[p] = "idle")
=============================================================================
