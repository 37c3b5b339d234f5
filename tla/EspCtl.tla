-------------------------------- MODULE EspCtl --------------------------------
(***************************************************************************)
(* esp-ctl's subcommands over an open session, and the device that answers *)
(* them: one reply per command, events in between, either end lost at any  *)
(* moment.  The device is the one of Ota, driven by nobody but this        *)
(* client; its server task runs a command and sends the reply in two       *)
(* steps, because the device may restart between them.                     *)
(*                                                                         *)
(* The session is Streams: each end takes what the other sent, in order.   *)
(* link is "up", "cut" (an end closed it and the other can tell) or        *)
(* "silent" (the other is gone and nothing says so).                       *)
(***************************************************************************)
EXTENDS Ota, Sequences

CONSTANTS
    Files,       \* files to upload: which image they spell, and their sizes
    ChunkMax,    \* the most do_ota_upload puts in one OTA_DATA
    MaxRuns,     \* bound: runs of esp-ctl
    MaxEvents    \* bound: lines under way to the client when an event is added

ASSUME EspCtlAssumption ==
    /\ Files \subseteq [img : Images \cup {None}, size : Nat \ {0}]
    /\ \A f \in Files : f.img \in Images => f.size = Size[f.img]
    /\ ChunkMax \in Nat \ {0}
    /\ {f.size : f \in Files} \subseteq Totals
    /\ 1..ChunkMax \subseteq Chunks
    /\ MaxRuns \in Nat /\ MaxEvents \in Nat

VARIABLES
    sub,        \* the subcommand of the last run
    outcome,    \* its exit status, or "running"
    file,       \* do_ota_upload: the file in buf
    stage,      \* do_ota_upload: the command to send next; do_logs: acknowledged
    sent,       \* do_ota_upload: bytes acknowledged
    asked,      \* the command whose reply the client waits for, or "none"
    g_stop,     \* Ctrl-C was taken by on_sigint
    link,       \* the connection
    toDev,      \* commands under way
    toCli,      \* replies and events under way
    answer,     \* the reply the server task is about to send
    runs,       \* runs so far
    done,       \* history: the upload's image has been committed
    installed   \* history: the image committed last

client == <<sub, outcome, file, stage, sent, asked, g_stop>>
channel == <<link, toDev, toCli, answer>>
history == <<done, installed>>
all    == <<vars, client, channel, runs, history>>

Ops == {"PING", "LOG_STREAM", "OTA_BEGIN", "OTA_DATA", "OTA_END", "OTA_ABORT", "OTA_ROLLBACK"}
Single == {"PING", "OTA_DATA", "OTA_END", "OTA_ABORT", "OTA_ROLLBACK"}   \* typed by hand

Line == [evt : BOOLEAN, op : Ops \cup {"none"}, ok : BOOLEAN]
Cmd  == [op : Ops, n : Nat]

Event == [evt |-> TRUE, op |-> "none", ok |-> FALSE]

NoFile == [img |-> None, size |-> 1]

CtlInit ==
    /\ Init
    /\ sub = "none" /\ outcome = "unknown" /\ file = NoFile
    /\ stage = "none" /\ sent = 0 /\ asked = "none" /\ g_stop = FALSE
    /\ link = "cut" /\ toDev = <<>> /\ toCli = <<>> /\ answer = <<>>
    /\ runs = 0
    /\ done = TRUE /\ installed = None

-----------------------------------------------------------------------------
(* Faults: what a definition below would be with a plausible slip in it.   *)

\* recv_reply where recv_cmd_reply is meant.
ConsumesEvents(l) == FALSE

CountsWholeChunks == sent + ChunkMax

\* read_full where 0 bytes are tried again.
EndRetried == FALSE

-----------------------------------------------------------------------------
(* Starting and ending a run.                                              *)

\* main: connect and handshake, once the server task accepts.
Run(m, f) ==
    /\ outcome # "running"
    /\ runs < MaxRuns
    /\ Connect
    /\ sub' = m /\ outcome' = "running"
    /\ file' = IF m = "upload" THEN f ELSE file
    /\ stage' = IF m = "upload" THEN "OTA_BEGIN" ELSE "none"
    /\ sent' = 0 /\ asked' = "none" /\ g_stop' = FALSE
    /\ link' = "up" /\ toDev' = <<>> /\ toCli' = <<>> /\ answer' = <<>>
    /\ runs' = runs + 1
    /\ done' = (m # "upload")
    /\ UNCHANGED installed

\* The process ends and its socket is closed.
Exit(v) ==
    /\ outcome' = v
    /\ link' = IF link = "up" THEN "cut" ELSE link
    /\ toCli' = <<>>
    /\ asked' = "none"
    /\ UNCHANGED <<sub, file, stage, sent, g_stop, toDev, answer, vars, runs, history>>

\* Nothing to send after all: an unreadable or empty file, a line too long.
GiveUp ==
    /\ outcome = "running" /\ asked = "none"
    /\ sub = "shot" \/ stage = "OTA_BEGIN"
    /\ Exit("unknown")

\* exit, quit or the end of the input at the prompt.
Quit == outcome = "running" /\ sub = "shell" /\ asked = "none" /\ Exit("ok")

\* SIGINT kills the process, except in the loop of do_logs.
Kill ==
    /\ outcome = "running"
    /\ stage # "follow"
    /\ Exit("unknown")

\* There on_sigint sets g_stop, which the loop sees at once only if it is not
\* inside recv.
Interrupt ==
    /\ outcome = "running"
    /\ stage = "follow"
    /\ \/ Exit("ok")
       \/ /\ g_stop' = TRUE
          /\ UNCHANGED <<sub, outcome, file, stage, sent, asked, channel, vars, runs, history>>

-----------------------------------------------------------------------------
(* Sending a command.                                                      *)

Send(op, n) ==
    /\ outcome = "running"
    /\ asked = "none"
    /\ asked' = op
    /\ toDev' = IF link = "up" THEN Append(toDev, [op |-> op, n |-> n]) ELSE toDev
    \* A peer that is gone resets the connection, or never acknowledges.
    /\ link' = IF link = "silent" THEN "cut" ELSE link
    /\ UNCHANGED <<sub, outcome, file, stage, sent, g_stop, toCli, answer, vars, runs, history>>

Chunk == IF file.size - sent > ChunkMax THEN ChunkMax ELSE file.size - sent

SendSingle == sub \in {"shot", "shell"} /\ \E op \in Single : Send(op, 0)
SendLogs   == sub = "logs" /\ stage = "none" /\ Send("LOG_STREAM", 0)
SendUpload ==
    \/ stage = "OTA_BEGIN" /\ Send("OTA_BEGIN", file.size)
    \/ stage = "OTA_DATA" /\ Send("OTA_DATA", Chunk)
    \/ stage = "OTA_END" /\ Send("OTA_END", 0)

-----------------------------------------------------------------------------
(* Taking a line.                                                          *)

Skips(l) == l.evt

Take ==
    /\ outcome = "running"
    /\ toCli # <<>>
    /\ toCli' = Tail(toCli)

\* recv_cmd_reply prints events (emit_evt) until something else comes.
TakeEvent ==
    /\ Take
    /\ asked # "none" /\ sub # "logs"
    /\ Skips(Head(toCli))
    /\ UNCHANGED <<client, link, toDev, answer, vars, runs, history>>

\* print_reply gives events, too, the status 0.
Status(l) == IF l.ok \/ l.evt THEN "ok" ELSE "refused"

Reply(op) == Take /\ asked = op /\ sub # "logs" /\ ~Skips(Head(toCli))

TakeStatus ==
    /\ \/ sub = "shot" /\ \E op \in Single : Reply(op)
       \/ sub = "upload" /\ Reply("OTA_END")
    /\ outcome' = Status(Head(toCli))
    /\ asked' = "none"
    /\ link' = IF link = "up" THEN "cut" ELSE link
    /\ UNCHANGED <<sub, file, stage, sent, g_stop, toDev, answer, vars, runs, history>>

TakeShell ==
    /\ sub = "shell"
    /\ \E op \in Single : Reply(op)
    /\ asked' = "none"
    /\ UNCHANGED <<sub, outcome, file, stage, sent, g_stop, link, toDev, answer, vars, runs, history>>

Acknowledged == sent + Chunk

\* OK to OTA_BEGIN or OTA_DATA: on to the next chunk, or to OTA_END.
TakeOk ==
    /\ sub = "upload"
    /\ Reply("OTA_BEGIN") \/ Reply("OTA_DATA")
    /\ Head(toCli).ok
    /\ sent' = IF asked = "OTA_DATA" THEN Acknowledged ELSE sent
    /\ stage' = IF sent' < file.size THEN "OTA_DATA" ELSE "OTA_END"
    /\ asked' = "none"
    /\ UNCHANGED <<sub, outcome, file, g_stop, link, toDev, answer, vars, runs, history>>

TakeErr ==
    /\ sub = "upload"
    /\ Reply("OTA_BEGIN") \/ Reply("OTA_DATA")
    /\ ~Head(toCli).ok
    /\ outcome' = "refused"
    /\ asked' = "none"
    /\ link' = IF link = "up" THEN "cut" ELSE link
    /\ UNCHANGED <<sub, file, stage, sent, g_stop, toDev, answer, vars, runs, history>>

\* do_logs takes the first line, whatever it is, for the acknowledgement, and
\* looks at g_stop between lines.
TakeLogs ==
    /\ Take
    /\ sub = "logs"
    /\ stage' = "follow"
    /\ asked' = "none"
    /\ outcome' = IF stage = "follow" /\ g_stop THEN "ok" ELSE "running"
    /\ link' = IF outcome' = "ok" /\ link = "up" THEN "cut" ELSE link
    /\ UNCHANGED <<sub, file, sent, g_stop, toDev, answer, vars, runs, history>>

SeesEnd == link = "cut" /\ (asked # "none" \/ stage = "follow")

\* recv_reply fails: end of the stream, or a reset that drops what was unread.
TakeEnd == outcome = "running" /\ SeesEnd /\ Exit("unknown")

-----------------------------------------------------------------------------
(* The server task.                                                        *)

\* What each command does when its reply is OK, and when it is ERR.
Does(c) ==
    CASE c.op = "OTA_BEGIN"    -> Begin(c.n, file.img)
      [] c.op = "OTA_DATA"     -> Data(file.img, c.n)
      [] c.op = "OTA_END"      -> End
      [] c.op = "OTA_ABORT"    -> Abort \/ (~s.active /\ UNCHANGED vars)
      [] c.op = "OTA_ROLLBACK" -> Rollback
      [] OTHER                 -> UNCHANGED vars

Fails(c) ==
    CASE c.op = "OTA_BEGIN"    -> BeginNoHash(c.n, file.img) \/ \E n \in 0..Cap : BeginRefused(n)
      [] c.op = "OTA_DATA"     -> \/ c.n # 0 /\ DataFails(file.img, c.n)
                                  \/ ~(s.active /\ Fits(c.n)) /\ UNCHANGED vars
      [] c.op = "OTA_END"      -> EndFails \/ (~s.active /\ UNCHANGED vars)
      [] c.op = "OTA_ROLLBACK" -> UNCHANGED vars
      [] OTHER                 -> FALSE

Commits(c, ok) == ok /\ c.op = "OTA_END"

\* cmd_dispatch: the command's handler, and OK or ERR after what it returned.
Handle ==
    /\ Ready
    /\ toDev # <<>> /\ answer = <<>>
    /\ toDev' = Tail(toDev)
    /\ \E ok \in BOOLEAN :
          LET c == Head(toDev) IN
          /\ IF ok THEN Does(c) ELSE Fails(c)
          /\ answer' = <<[evt |-> FALSE, op |-> c.op, ok |-> ok]>>
          /\ done' = (done \/ Commits(c, ok))
          /\ installed' = IF Commits(c, ok) THEN Holds(flash[s.part]) ELSE installed
    /\ UNCHANGED <<client, link, toCli, runs>>

\* send_frame; over a connection that is gone its bytes are lost.
Answer ==
    /\ Ready
    /\ answer # <<>>
    /\ toCli' = IF link = "up" THEN toCli \o answer ELSE toCli
    /\ answer' = <<>>
    /\ UNCHANGED <<client, link, toDev, vars, runs, history>>

\* The log pump, a stream or the health report.
Emit ==
    /\ Ready
    /\ link = "up"
    /\ Len(toCli) < MaxEvents
    /\ toCli' = Append(toCli, Event)
    /\ UNCHANGED <<client, link, toDev, answer, vars, runs, history>>

\* recv_frame or send_frame fails, or keepalive gives the peer up.
Leave ==
    /\ Disconnect
    /\ link # "up"
    /\ toDev' = <<>> /\ answer' = <<>>
    /\ UNCHANGED <<client, link, toCli, runs, history>>

-----------------------------------------------------------------------------
(* The network and the device's restarts.                                  *)

Break ==
    /\ outcome = "running" /\ link = "up"
    /\ link' \in {"cut", "silent"}
    /\ UNCHANGED <<client, toDev, toCli, answer, vars, runs, history>>

\* Nothing closes the connections of a device that goes down.
Down ==
    /\ Restart \/ Crash
    /\ link' = IF link = "up" THEN "silent" ELSE link
    /\ toDev' = <<>> /\ answer' = <<>>
    /\ UNCHANGED <<client, toCli, runs, history>>

BootAgain == Boot /\ UNCHANGED <<client, channel, runs, history>>

ClientStep == SendSingle \/ SendLogs \/ SendUpload \/ TakeEvent \/ TakeStatus \/ TakeShell
              \/ TakeOk \/ TakeErr \/ TakeLogs \/ TakeEnd

User == (\E m \in {"shot", "shell", "logs"} : Run(m, NoFile)) \/ (\E f \in Files : Run("upload", f))
        \/ GiveUp \/ Quit \/ Kill \/ Interrupt

CtlNext == User \/ ClientStep \/ Handle \/ Answer \/ Leave \/ Emit \/ Break \/ Down \/ BootAgain

CtlSpec == CtlInit /\ [][CtlNext]_all

\* The client takes its next step and the server task its own; the health
\* report is periodic.
CtlFairSpec ==
    /\ CtlSpec
    /\ WF_all(ClientStep)
    /\ WF_all(Handle) /\ WF_all(Answer) /\ WF_all(Leave)
    /\ WF_all(Emit)

-----------------------------------------------------------------------------
(* Properties.                                                             *)

\* Types of the client's variables and of what is under way.
CtlTypeOK ==
    /\ TypeOK
    /\ sub \in {"none", "shot", "shell", "logs", "upload"}
    /\ outcome \in {"running", "ok", "refused", "unknown"}
    /\ file \in Files \cup {NoFile}
    /\ stage \in {"none", "follow", "OTA_BEGIN", "OTA_DATA", "OTA_END"}
    /\ sent \in 0..file.size
    /\ asked \in Ops \cup {"none"}
    /\ g_stop \in BOOLEAN
    /\ link \in {"up", "cut", "silent"}
    /\ toDev \in Seq(Cmd) /\ toCli \in Seq(Line) /\ answer \in Seq(Line)
    /\ runs \in 0..MaxRuns
    /\ done \in BOOLEAN /\ installed \in Images \cup {None}

Replies == {i \in DOMAIN toCli : ~toCli[i].evt}
Nothing == toDev = <<>> /\ answer = <<>> /\ Replies = {}

\* A command, or the one reply to it, is all that is under way.
Awaited(op) ==
    \/ toDev # <<>> /\ Tail(toDev) = <<>> /\ Head(toDev).op = op /\ answer = <<>> /\ Replies = {}
    \/ toDev = <<>> /\ answer # <<>> /\ Tail(answer) = <<>> /\ Head(answer).op = op /\ Replies = {}
    \/ toDev = <<>> /\ answer = <<>> /\ \E i \in DOMAIN toCli : Replies = {i} /\ toCli[i].op = op

\* Events between replies never make the two ends lose count: while both are
\* there, the client waits for a reply exactly when that reply, or the command
\* it answers, is under way, so it takes no other for it and neither end waits
\* for the other (esp-ctl.c 327-338, net.c 403-419).
OneReplyEach ==
    outcome = "running" /\ link = "up" /\ sub # "logs" =>
        IF asked = "none" THEN Nothing ELSE Awaited(asked)

\* Between two chunks the bytes the client counts as sent are those the device
\* counts as received (esp-ctl.c 430-447, ota.c 82-92).
OffsetsAgree ==
    outcome = "running" /\ link = "up" /\ stage \in {"OTA_DATA", "OTA_END"} /\ asked = "none" =>
        s.active /\ s.received = sent /\ s.total = file.size

Verdict == IF sub = "upload" THEN outcome ELSE "unknown"

\* The upload keeps the promise of its exit status (esp-ctl.c 388-454).
Abstract == INSTANCE Upload WITH
    Goals <- {f.img : f \in Files},
    verdict <- Verdict,
    goal <- file.img
IsUpload == Abstract!Spec

\* An upload comes to an end as long as the device does not vanish without a
\* word (esp-ctl.c 77-87, 418-453).
UploadEnds ==
    (sub = "upload" /\ outcome = "running") ~> (outcome # "running" \/ link = "silent")

\* "keep reading EVTs until Ctrl-C" (esp-ctl.c 354): a signal taken by
\* on_sigint ends the run.
CtrlCStops == (outcome = "running" /\ g_stop) ~> outcome # "running"
===============================================================================
