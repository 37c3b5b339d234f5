----------------------------- MODULE EspCtlProofs -----------------------------
(***************************************************************************)
(* Proofs about EspCtl for every set of files, chunk size and choice of    *)
(* bounds.  DeviceIsOta carries the theorems of OtaProofs over to the      *)
(* device in this composition.  CtlInv is inductive: Pairing says what is  *)
(* under way between the two ends at every step of a command, Committed    *)
(* what a reply to OTA_END says of the flash, and Offsets what the bytes   *)
(* counted on either side have to do with each other.                      *)
(***************************************************************************)
EXTENDS EspCtl, OtaProofs, SequenceTheorems

\* Which commands each subcommand has under way, and where its upload stands.
Stages ==
    /\ outcome = "running" => sub # "none"
    /\ sub = "upload" => file \in Files /\ stage \in {"OTA_BEGIN", "OTA_DATA", "OTA_END"}
    /\ sub # "upload" => stage \in {"none", "follow"}
    /\ stage = "follow" => sub = "logs"
    /\ stage = "OTA_BEGIN" => sent = 0
    /\ stage = "OTA_DATA" => sent < file.size
    /\ asked # "none" =>
          asked \in CASE sub = "upload" -> {stage}
                      [] sub = "logs"   -> {"LOG_STREAM"}
                      [] OTHER          -> Single
    /\ toDev # <<>> => Tail(toDev) = <<>>
    /\ \A i \in DOMAIN toDev :
          /\ sub = "upload" => toDev[i].op = stage
          /\ sub # "upload" => toDev[i].op # "OTA_BEGIN"
          /\ toDev[i].op = "OTA_BEGIN" => toDev[i].n = file.size
          /\ stage = "OTA_DATA" => toDev[i].n = Chunk
    /\ \A i \in DOMAIN answer : ~answer[i].evt

\* OneReplyEach over any link, and in the other subcommand.
Pairing ==
    outcome = "running" =>
        /\ asked = "none" /\ stage # "follow" => Nothing
        /\ asked # "none" /\ sub # "logs" => Awaited(asked) \/ (Nothing /\ link # "up")
        /\ sub = "logs" => Nothing \/ Awaited("LOG_STREAM")

\* What has been committed when.
Committed ==
    /\ s.active => sub = "upload" /\ s.expected = file.img /\ ~done
    /\ sub = "upload" /\ done =>
          /\ stage = "OTA_END" /\ toDev = <<>>
          /\ outcome = "running" => asked = "OTA_END"
    /\ sub = "upload" /\ toDev # <<>> => outcome \in {"running", "unknown"}
    /\ sub = "upload" /\ stage = "OTA_END" =>
          /\ \A i \in DOMAIN answer : answer[i].ok <=> done
          /\ outcome = "running" => \A i \in Replies : toCli[i].ok <=> done

At(n) == s.active /\ s.received = n /\ s.total = file.size

Told == IF stage = "OTA_DATA" THEN Acknowledged ELSE sent

\* OffsetsAgree before, between and after the two steps of a command.
Offsets ==
    outcome = "running" /\ link = "up" /\ sub = "upload" =>
        /\ stage # "OTA_BEGIN" /\ (asked = "none" \/ toDev # <<>>) => At(sent)
        /\ stage # "OTA_END" =>
             /\ \A i \in DOMAIN answer : answer[i].ok => At(Told)
             /\ \A i \in Replies : toCli[i].ok => At(Told)

\* The device takes this file and no other; its first sector is enough to know
\* what image, if any, lies in the slot.
Laid ==
    s.active => /\ s.total = file.size
                /\ s.received # 0 => flash[s.part][0] = file.img

CtlInv == Inv /\ CtlTypeOK /\ Stages /\ Pairing /\ Committed /\ Offsets /\ Laid

-----------------------------------------------------------------------------

USE EspCtlAssumption DEF vars, client, channel, history, all

\* The device of this composition does what the one of Ota may do.
LEMMA DeviceStep ==
    ASSUME CtlInv, [CtlNext]_all
    PROVE  [Next]_vars
<1>0. Inv /\ CtlTypeOK /\ Stages /\ Committed
    BY DEF CtlInv
<1>1. ASSUME Handle PROVE [Next]_vars
    <2> DEFINE c == Head(toDev)
    <2>1. toDev \in Seq(Cmd) /\ toDev # <<>> /\ 1 \in DOMAIN toDev /\ c = toDev[1]
        BY <1>0, <1>1 DEF CtlTypeOK, Handle
    <2>2. c.op = "OTA_BEGIN" => c.n \in Totals /\ file.img \in Images \cup {None}
        <3>1. c.op = "OTA_BEGIN" => c.n = file.size /\ file \in Files
            BY <1>0, <2>1 DEF Stages
        <3> QED BY <3>1
    <2>3. c.op = "OTA_DATA" /\ s.active => c.n \in Chunks
        <3>1. c.op = "OTA_DATA" /\ s.active => stage = "OTA_DATA" /\ c.n = Chunk /\ sent < file.size
            BY <1>0, <2>1 DEF Stages, Committed
        <3>2. sent \in Nat /\ file.size \in Nat
            BY <1>0 DEF CtlTypeOK, NoFile
        <3> QED BY <3>1, <3>2 DEF Chunk
    <2>4. file.img \in Images \cup {None}
        BY <1>0 DEF CtlTypeOK, NoFile
    <2>5. Does(c) \/ Fails(c)
        BY <1>1 DEF Handle
    <2> HIDE DEF c
    <2>6. ASSUME Does(c) PROVE [Next]_vars
        <3>1. CASE c.op = "OTA_BEGIN"
            BY <2>2, <2>6, <3>1 DEF Does, Next, Command
        <3>2. CASE c.op = "OTA_DATA"
            <4>1. Data(file.img, c.n)
                BY <2>6, <3>2 DEF Does
            <4> QED BY <2>3, <2>4, <3>2, <4>1 DEF Data, Next, Command
        <3>3. CASE c.op \in {"OTA_END", "OTA_ABORT", "OTA_ROLLBACK"}
            BY <2>6, <3>3 DEF Does, Next, Command
        <3> QED BY <2>6, <3>1, <3>2, <3>3 DEF Does
    <2>7. ASSUME Fails(c) PROVE [Next]_vars
        <3>1. CASE c.op = "OTA_BEGIN"
            BY <2>2, <2>7, <3>1 DEF Fails, Next, Command
        <3>2. CASE c.op = "OTA_DATA"
            <4>1. DataFails(file.img, c.n) \/ UNCHANGED vars
                BY <2>7, <3>2 DEF Fails
            <4> QED BY <2>3, <2>4, <3>2, <4>1 DEF DataFails, Next, Command
        <3>3. CASE c.op \in {"OTA_END", "OTA_ROLLBACK"}
            BY <2>7, <3>3 DEF Fails, Next, Command
        <3> QED BY <2>7, <3>1, <3>2, <3>3 DEF Fails
    <2> QED BY <2>5, <2>6, <2>7
<1>2. ASSUME User PROVE [Next]_vars
    BY <1>2 DEF User, Run, GiveUp, Quit, Kill, Interrupt, Exit, Next
<1>3. ASSUME ClientStep PROVE [Next]_vars
    <2>1. UNCHANGED vars
        BY <1>3 DEF ClientStep, SendSingle, SendLogs, SendUpload, Send, TakeEvent, TakeStatus,
                    TakeShell, TakeOk, TakeErr, TakeLogs, TakeEnd, Exit
    <2> QED BY <2>1
<1>4. ASSUME Answer \/ Leave \/ Emit \/ Break \/ Down \/ BootAgain PROVE [Next]_vars
    BY <1>4 DEF Answer, Leave, Emit, Break, Down, BootAgain, Next
<1>5. ASSUME UNCHANGED all PROVE [Next]_vars
    BY <1>5
<1> QED BY <1>1, <1>2, <1>3, <1>4, <1>5 DEF CtlNext

LEMMA DeviceInv ==
    ASSUME CtlInv, [CtlNext]_all
    PROVE  Inv'
<1>1. [Next]_vars /\ Inv
    BY DeviceStep DEF CtlInv
<1> QED BY <1>1, TypeStep, BookStep, BrickStep, ChainStep DEF Inv

-----------------------------------------------------------------------------
(* Type correctness.                                                       *)

LEMMA FileType ==
    ASSUME CtlTypeOK
    PROVE  /\ file.size \in Nat \ {0} /\ file.img \in Images \cup {None}
           /\ sent \in Nat /\ sent <= file.size
           /\ sent < file.size => Chunk \in 1..ChunkMax /\ Chunk \in Nat
                                  /\ Acknowledged \in Nat /\ Acknowledged <= file.size
           /\ sent = file.size => Chunk = 0 /\ Acknowledged = sent
<1>1. file.size \in Nat \ {0} /\ file.img \in Images \cup {None}
    BY DEF CtlTypeOK, NoFile
<1>2. sent \in Nat /\ sent <= file.size
    BY <1>1 DEF CtlTypeOK
<1> QED BY <1>1, <1>2 DEF Chunk, Acknowledged

\* Where a command's reply comes from.
LEMMA HandleFacts ==
    ASSUME CtlInv, Handle
    PROVE  /\ toDev \in Seq(Cmd) /\ toDev # <<>> /\ Head(toDev) = toDev[1] /\ 1 \in DOMAIN toDev
           /\ Head(toDev).op \in Ops
           /\ answer = <<>> /\ toDev' = Tail(toDev)
           /\ \E ok \in BOOLEAN :
                /\ IF ok THEN Does(Head(toDev)) ELSE Fails(Head(toDev))
                /\ answer' = <<[evt |-> FALSE, op |-> Head(toDev).op, ok |-> ok]>>
                /\ done' = (done \/ Commits(Head(toDev), ok))
                /\ installed' = IF Commits(Head(toDev), ok) THEN Holds(flash[s.part]) ELSE installed
           /\ UNCHANGED <<client, link, toCli, runs>>
<1>1. toDev \in Seq(Cmd) /\ toDev # <<>>
    BY DEF CtlInv, CtlTypeOK, Handle
<1>2. Head(toDev) \in Cmd /\ Head(toDev) = toDev[1] /\ 1 \in DOMAIN toDev
    BY <1>1
<1>3. Head(toDev).op \in Ops
    BY <1>2 DEF Cmd
<1> QED BY <1>1, <1>2, <1>3 DEF Handle

LEMMA HoldsType == \A c : Holds(c) \in Images \cup {None} /\ (Holds(c) = c[0] \/ Holds(c) = None)
BY DEF Holds, Spells

LEMMA CtlTypeStep ==
    ASSUME CtlInv, [CtlNext]_all
    PROVE  CtlTypeOK'
<1> DEFINE K == /\ sub' \in {"none", "shot", "shell", "logs", "upload"}
                /\ outcome' \in {"running", "ok", "refused", "unknown"}
                /\ stage' \in {"none", "follow", "OTA_BEGIN", "OTA_DATA", "OTA_END"}
                /\ asked' \in Ops \cup {"none"}
                /\ g_stop' \in BOOLEAN
           F == file' \in Files \cup {NoFile} /\ sent' \in 0..(file'.size)
           C == /\ link' \in {"up", "cut", "silent"}
                /\ toDev' \in Seq(Cmd) /\ toCli' \in Seq(Line) /\ answer' \in Seq(Line)
           H == runs' \in 0..MaxRuns /\ done' \in BOOLEAN /\ installed' \in Images \cup {None}
<1>0. CtlTypeOK
    BY DEF CtlInv
<1>t. TypeOK'
    BY DeviceInv DEF Inv
<1>q. ASSUME K, F, C, H PROVE CtlTypeOK'
    BY <1>q, <1>t DEF CtlTypeOK
<1>k. /\ UNCHANGED client => K /\ F
      /\ UNCHANGED <<file, sent>> => F
      /\ UNCHANGED <<runs, done, installed>> => H
      /\ UNCHANGED channel => C
    BY <1>0 DEF CtlTypeOK
<1>f. file.size \in Nat
    BY <1>0, FileType
<1>o. Single \subseteq Ops
    BY DEF Single, Ops
<1>e. Event \in Line
    BY DEF Event, Line
<1>x. \A v \in {"ok", "unknown"} : Exit(v) => K /\ F /\ C /\ H
    BY <1>0, <1>k DEF Exit, CtlTypeOK
<1>s. ASSUME NEW op \in Ops, NEW n \in Nat, Send(op, n) PROVE K /\ F /\ C /\ H
    <2>1. [op |-> op, n |-> n] \in Cmd
        BY DEF Cmd
    <2>2. K
        BY <1>s, <1>0 DEF Send, CtlTypeOK
    <2>3. C
        BY <1>s, <1>0, <2>1 DEF Send, CtlTypeOK
    <2> QED BY <1>s, <1>k, <2>2, <2>3 DEF Send
<1>v. Take => toCli' \in Seq(Line) /\ Head(toCli) \in Line
    BY <1>0 DEF Take, CtlTypeOK
<1> HIDE DEF K, F, C, H
<1>1. ASSUME NEW m \in {"shot", "shell", "logs", "upload"}, NEW f \in Files \cup {NoFile}, Run(m, f),
             m # "upload" \/ f \in Files
      PROVE K /\ F /\ C /\ H
    <2>1. K
        BY <1>1 DEF Run, K
    <2>2. F
        BY <1>1, <1>0 DEF Run, F, CtlTypeOK, NoFile
    <2>3. C
        BY <1>1 DEF Run, C
    <2>4. H
        BY <1>1, <1>0 DEF Run, H, CtlTypeOK
    <2> QED BY <2>1, <2>2, <2>3, <2>4
<1>2. ASSUME GiveUp \/ Quit \/ Kill \/ Interrupt \/ TakeEnd PROVE K /\ F /\ C /\ H
    <2>1. CASE Exit("ok") \/ Exit("unknown")
        BY <2>1, <1>x
    <2>2. CASE Interrupt /\ ~Exit("ok")
        <3>1. UNCHANGED <<sub, outcome, file, stage, sent, asked, channel, runs, done, installed>> /\ g_stop' = TRUE
            BY <2>2 DEF Interrupt
        <3>2. K
            BY <3>1, <1>0 DEF K, CtlTypeOK
        <3> QED BY <3>1, <3>2, <1>k
    <2> QED BY <1>2, <2>1, <2>2 DEF GiveUp, Quit, Kill, TakeEnd
<1>3. ASSUME SendSingle \/ SendLogs \/ SendUpload PROVE K /\ F /\ C /\ H
    <2>1. \E op \in Ops, n \in Nat : Send(op, n)
        <3>1. Chunk \in Nat
            BY <1>0, FileType
        <3> QED BY <1>3, <1>f, <1>o, <3>1 DEF SendSingle, SendLogs, SendUpload, Ops
    <2> QED BY <2>1, <1>s
<1>4. ASSUME TakeEvent PROVE K /\ F /\ C /\ H
    <2>1. C
        BY <1>4, <1>0, <1>v DEF TakeEvent, C, CtlTypeOK
    <2> QED BY <1>4, <1>k, <2>1 DEF TakeEvent
<1>5. ASSUME TakeStatus \/ TakeShell \/ TakeErr \/ TakeLogs PROVE K /\ F /\ C /\ H
    <2>1. Take /\ UNCHANGED <<toDev, answer, file, sent, runs, history>>
        BY <1>5 DEF TakeStatus, TakeShell, TakeErr, TakeLogs, Reply
    <2>2. K
        BY <1>5, <1>0 DEF TakeStatus, TakeShell, TakeErr, TakeLogs, Status, K, CtlTypeOK
    <2>3. link' \in {"up", "cut", "silent"}
        BY <1>5, <1>0 DEF TakeStatus, TakeShell, TakeErr, TakeLogs, CtlTypeOK
    <2>4. C
        BY <2>1, <2>3, <1>0, <1>v DEF C, CtlTypeOK
    <2> QED BY <2>1, <2>2, <2>4, <1>k
<1>6. ASSUME TakeOk PROVE K /\ F /\ C /\ H
    <2>1. K
        BY <1>6, <1>0 DEF TakeOk, K, CtlTypeOK
    <2>2. C
        BY <1>6, <1>0, <1>v DEF TakeOk, Reply, C, CtlTypeOK
    <2>3. F
        BY <1>6, <1>0, FileType DEF TakeOk, F, CtlTypeOK
    <2>4. H
        BY <1>6, <1>k DEF TakeOk, Reply
    <2> QED BY <2>1, <2>2, <2>3, <2>4
<1>7. ASSUME Handle PROVE K /\ F /\ C /\ H
    <2>1. K /\ F
        BY <1>7, <1>k DEF Handle
    <2>2. C
        <3>1. \A ok \in BOOLEAN : [evt |-> FALSE, op |-> Head(toDev).op, ok |-> ok] \in Line
            BY <1>7, HandleFacts DEF Line
        <3>2. answer' \in Seq(Line)
            <4>1. PICK ok \in BOOLEAN :
                      answer' = <<[evt |-> FALSE, op |-> Head(toDev).op, ok |-> ok]>>
                BY <1>7, HandleFacts
            <4>2. [evt |-> FALSE, op |-> Head(toDev).op, ok |-> ok] \in Line
                BY <3>1
            <4> QED BY <4>1, <4>2
        <3>3. toDev' \in Seq(Cmd)
            <4>1. toDev \in Seq(Cmd) /\ toDev # <<>> /\ toDev' = Tail(toDev)
                BY <1>7, HandleFacts
            <4> QED BY <4>1
        <3> QED BY <1>7, <1>0, HandleFacts, <3>2, <3>3 DEF C, CtlTypeOK
    <2>3. H
        <3>1. done' \in BOOLEAN
            BY <1>7, HandleFacts
        <3>2. installed' \in Images \cup {None}
            BY <1>7, <1>0, HandleFacts, HoldsType DEF CtlTypeOK
        <3>3. runs' = runs
            BY <1>7, HandleFacts
        <3> QED BY <1>0, <3>1, <3>2, <3>3 DEF H, CtlTypeOK
    <2> QED BY <2>1, <2>2, <2>3
<1>8. ASSUME Answer \/ Leave \/ Emit \/ Break \/ Down \/ BootAgain PROVE K /\ F /\ C /\ H
    <2>1. UNCHANGED <<client, runs, history>>
        BY <1>8 DEF Answer, Leave, Emit, Break, Down, BootAgain
    <2>2. C
        <3>0. /\ link \in {"up", "cut", "silent"}
              /\ toDev \in Seq(Cmd) /\ toCli \in Seq(Line) /\ answer \in Seq(Line)
            BY <1>0 DEF CtlTypeOK
        <3>1. CASE Answer
            <4>1. toCli' \in Seq(Line)
                BY <3>0, <3>1 DEF Answer
            <4> QED BY <3>0, <3>1, <4>1 DEF Answer, C
        <3>2. CASE Emit
            <4>1. toCli' \in Seq(Line)
                BY <3>0, <3>2, <1>e DEF Emit
            <4> QED BY <3>0, <3>2, <4>1 DEF Emit, C
        <3>3. CASE Leave \/ Break \/ Down \/ BootAgain
            <4>1. /\ toDev' = toDev \/ toDev' = <<>>
                  /\ answer' = answer \/ answer' = <<>>
                  /\ toCli' = toCli
                  /\ link' \in {link, "cut", "silent"}
                BY <3>3 DEF Leave, Break, Down, BootAgain
            <4>e. <<>> \in Seq(Cmd) /\ <<>> \in Seq(Line)
                OBVIOUS
            <4>2. toDev' \in Seq(Cmd)
                BY <3>0, <4>1, <4>e, Zenon
            <4>3. answer' \in Seq(Line)
                BY <3>0, <4>1, <4>e, Zenon
            <4> QED BY <3>0, <4>1, <4>2, <4>3 DEF C
        <3> QED BY <1>8, <3>1, <3>2, <3>3
    <2> QED BY <2>1, <2>2, <1>k
<1>9. CASE UNCHANGED all
    BY <1>9, <1>k, <1>q
<1>10. CASE CtlNext
    <2>1. K /\ F /\ C /\ H
        BY <1>10, <1>1, <1>2, <1>3, <1>4, <1>5, <1>6, <1>7, <1>8 DEF CtlNext, User, ClientStep
    <2> QED BY <2>1, <1>q
<1> QED BY <1>9, <1>10

-----------------------------------------------------------------------------
(* One command or one reply under way.                                     *)

LEMMA RepliesTail ==
    ASSUME CtlTypeOK, Take
    PROVE  /\ Head(toCli) = toCli[1] /\ 1 \in DOMAIN toCli
           /\ 1 \in Replies <=> ~Head(toCli).evt
           /\ \A i \in Replies' : i + 1 \in Replies /\ toCli'[i] = toCli[i + 1]
           /\ \A i \in Replies : i \in Nat /\ (i # 1 => i - 1 \in Replies' /\ toCli'[i - 1] = toCli[i])
<1>1. toCli \in Seq(Line) /\ toCli # <<>> /\ toCli' = Tail(toCli)
    BY DEF CtlTypeOK, Take
<1>2. /\ Len(toCli) \in Nat /\ Len(toCli) > 0 /\ DOMAIN toCli = 1..Len(toCli)
      /\ Head(toCli) = toCli[1]
    BY <1>1
<1>3. /\ DOMAIN toCli' = 1..(Len(toCli) - 1)
      /\ \A i \in 1..(Len(toCli) - 1) : toCli'[i] = toCli[i + 1]
    BY <1>1, <1>2
<1>4. \A i \in Replies' : i + 1 \in Replies /\ toCli'[i] = toCli[i + 1]
    BY <1>2, <1>3 DEF Replies
<1>5. \A i \in Replies : i \in Nat /\ (i # 1 => i - 1 \in Replies' /\ toCli'[i - 1] = toCli[i])
    BY <1>2, <1>3 DEF Replies
<1> QED BY <1>2, <1>4, <1>5 DEF Replies

LEMMA PairSame ==
    ASSUME UNCHANGED <<toDev, toCli, answer>>
    PROVE  /\ Replies' = Replies
           /\ Nothing' <=> Nothing
           /\ \A op : Awaited(op) => Awaited(op)'
BY DEF Replies, Nothing, Awaited

LEMMA PairSkip ==
    ASSUME CtlTypeOK, Take, Head(toCli).evt, UNCHANGED <<toDev, answer>>
    PROVE  /\ Nothing => Nothing'
           /\ \A op : Awaited(op) => Awaited(op)'
<1>1. 1 \notin Replies
    BY RepliesTail
<1>2. Replies = {} => Replies' = {}
    BY RepliesTail
<1>3. ASSUME NEW i \in Replies, Replies = {i}
      PROVE  i - 1 \in DOMAIN toCli' /\ Replies' = {i - 1} /\ toCli'[i - 1] = toCli[i]
    <2>1. i \in Nat /\ i - 1 \in Replies' /\ toCli'[i - 1] = toCli[i]
        BY <1>1, <1>3, RepliesTail
    <2>2. \A j \in Replies' : j + 1 = i
        BY <1>3, RepliesTail
    <2>3. \A j \in Replies' : j \in Nat
        <3>1. toCli' \in Seq(Line)
            BY DEF CtlTypeOK, Take
        <3> QED BY <3>1 DEF Replies
    <2>4. \A j \in Replies' : j = i - 1
        BY <2>1, <2>2, <2>3
    <2> QED BY <2>1, <2>4 DEF Replies
<1>4. ASSUME NEW op, Awaited(op) PROVE Awaited(op)'
    <2>1. CASE Replies = {}
        BY <1>2, <1>4, <2>1 DEF Awaited
    <2>2. CASE Replies # {}
        <3>1. PICK i \in DOMAIN toCli : Replies = {i} /\ toCli[i].op = op
            BY <1>4, <2>2 DEF Awaited
        <3>2. toDev' = <<>> /\ answer' = <<>>
            BY <1>4, <2>2 DEF Awaited
        <3>3. i - 1 \in DOMAIN toCli' /\ Replies' = {i - 1} /\ toCli'[i - 1].op = op
            BY <1>3, <3>1
        <3> QED BY <3>2, <3>3 DEF Awaited
    <2> QED BY <2>1, <2>2
<1>5. Nothing => Nothing'
    BY <1>2 DEF Nothing
<1> QED BY <1>4, <1>5

LEMMA PairTake ==
    ASSUME CtlTypeOK, Take, ~Head(toCli).evt, UNCHANGED <<toDev, answer>>
    PROVE  /\ ~Nothing
           /\ 1 \in Replies
           /\ \A op : Awaited(op) => Nothing' /\ toDev = <<>> /\ answer = <<>> /\ Head(toCli).op = op
<1>1. 1 \in Replies /\ Head(toCli) = toCli[1]
    BY RepliesTail
<1>2. ~Nothing
    BY <1>1 DEF Nothing
<1>3. ASSUME NEW op, Awaited(op)
      PROVE  toDev = <<>> /\ answer = <<>> /\ Replies = {1} /\ Head(toCli).op = op
    BY <1>1, <1>3 DEF Awaited
<1>4. Replies = {1} => Replies' = {}
    <2>1. \A j \in Replies' : j + 1 \in Replies
        BY RepliesTail
    <2>2. toCli' \in Seq(Line)
        BY DEF CtlTypeOK, Take
    <2>3. \A j \in Replies' : j \in Nat \ {0}
        BY <2>2 DEF Replies
    <2> QED BY <2>1, <2>3
<1> QED BY <1>1, <1>2, <1>3, <1>4 DEF Nothing

\* A line is added behind those under way to the client.
LEMMA PairAppend ==
    ASSUME CtlTypeOK, NEW l \in Line, toCli' = Append(toCli, l)
    PROVE  /\ \A i \in Replies : i \in Replies' /\ toCli'[i] = toCli[i]
           /\ l.evt => Replies' = Replies
           /\ ~l.evt => /\ Replies' = Replies \cup {Len(toCli) + 1}
                        /\ toCli'[Len(toCli) + 1] = l
           /\ DOMAIN toCli' = DOMAIN toCli \cup {Len(toCli) + 1}
<1>1. toCli \in Seq(Line) /\ Len(toCli) \in Nat /\ DOMAIN toCli = 1..Len(toCli)
    BY DEF CtlTypeOK
<1>2. /\ DOMAIN toCli' = 1..(Len(toCli) + 1)
      /\ toCli'[Len(toCli) + 1] = l
      /\ \A i \in 1..Len(toCli) : toCli'[i] = toCli[i]
    BY <1>1
<1>3. DOMAIN toCli' = DOMAIN toCli \cup {Len(toCli) + 1}
    BY <1>1, <1>2
<1> QED BY <1>1, <1>2, <1>3 DEF Replies

LEMMA PairEmit ==
    ASSUME CtlTypeOK, Emit
    PROVE  /\ \A i \in Replies' : i \in Replies /\ toCli'[i] = toCli[i]
           /\ Nothing => Nothing'
           /\ \A op : Awaited(op) => Awaited(op)'
<1>1. Event \in Line /\ Event.evt /\ toCli' = Append(toCli, Event)
      /\ UNCHANGED <<toDev, answer>>
    BY DEF Event, Line, Emit
<1>2. Replies' = Replies /\ \A i \in Replies : toCli'[i] = toCli[i]
    BY <1>1, PairAppend
<1>3. DOMAIN toCli \subseteq DOMAIN toCli'
    BY <1>1, PairAppend
<1>4. ASSUME NEW op, Awaited(op) PROVE Awaited(op)'
    <2>1. CASE Replies = {}
        BY <1>1, <1>2, <1>4, <2>1 DEF Awaited
    <2>2. CASE Replies # {}
        <3>1. PICK i \in DOMAIN toCli : Replies = {i} /\ toCli[i].op = op
            BY <1>4, <2>2 DEF Awaited
        <3>2. toDev' = <<>> /\ answer' = <<>>
            BY <1>1, <1>4, <2>2 DEF Awaited
        <3>3. i \in DOMAIN toCli' /\ Replies' = {i} /\ toCli'[i].op = op
            BY <1>2, <1>3, <3>1
        <3> QED BY <3>2, <3>3 DEF Awaited
    <2> QED BY <2>1, <2>2
<1> QED BY <1>1, <1>2, <1>4 DEF Nothing

LEMMA PairHandle ==
    ASSUME CtlInv, Handle
    PROVE  /\ ~Nothing
           /\ \A op : Awaited(op) => /\ Awaited(op)'
                                     /\ Head(toDev).op = op /\ toDev' = <<>> /\ Replies = {}
<1>1. toDev # <<>> /\ toDev' = Tail(toDev) /\ toCli' = toCli
    BY HandleFacts
<1>2. Replies' = Replies
    BY <1>1 DEF Replies
<1>3. answer' # <<>> /\ Tail(answer') = <<>> /\ Head(answer').op = Head(toDev).op
    <2>1. PICK ok \in BOOLEAN :
              answer' = <<[evt |-> FALSE, op |-> Head(toDev).op, ok |-> ok]>>
        BY HandleFacts
    <2> QED BY <2>1
<1>4. ASSUME NEW op, Awaited(op)
      PROVE  Head(toDev).op = op /\ toDev' = <<>> /\ Replies = {}
    BY <1>1, <1>4 DEF Awaited
<1>5. ASSUME NEW op, Awaited(op) PROVE Awaited(op)'
    BY <1>2, <1>3, <1>4, <1>5 DEF Awaited
<1> QED BY <1>1, <1>4, <1>5 DEF Nothing

LEMMA PairAnswer ==
    ASSUME CtlTypeOK, Answer
    PROVE  /\ ~Nothing
           /\ answer \in Seq(Line) /\ 1 \in DOMAIN answer /\ Head(answer) = answer[1]
           /\ link # "up" => toCli' = toCli
           /\ \A op : Awaited(op) =>
                 /\ toDev' = <<>> /\ answer' = <<>>
                 /\ Replies = {} /\ Head(answer).op = op
                 /\ link = "up" => toCli' = Append(toCli, Head(answer))
<1>1. answer \in Seq(Line) /\ answer # <<>> /\ answer' = <<>> /\ toCli \in Seq(Line)
      /\ toDev' = toDev /\ toCli' = IF link = "up" THEN toCli \o answer ELSE toCli
    BY DEF CtlTypeOK, Answer
<1>2. 1 \in DOMAIN answer /\ Head(answer) = answer[1]
    BY <1>1
<1>3. ASSUME NEW op, Awaited(op)
      PROVE  toDev = <<>> /\ Tail(answer) = <<>> /\ Replies = {} /\ Head(answer).op = op
    BY <1>1, <1>3 DEF Awaited
<1>4. ASSUME Tail(answer) = <<>> PROVE toCli \o answer = Append(toCli, Head(answer))
    <2>1. Len(answer) \in Nat /\ Len(answer) # 0 /\ Len(Tail(answer)) = Len(answer) - 1
        BY <1>1
    <2>2. Len(answer) = 1
        <3>1. Len(<<>>) = 0
            BY EmptySeq
        <3>2. Len(Tail(answer)) = 0
            BY <1>4, <3>1, Zenon
        <3>3. \A k, n : n \in Nat /\ k = n - 1 /\ k = 0 => n = 1
            OBVIOUS
        <3> QED BY <2>1, <3>2, <3>3, Zenon
    <2>4. Head(answer) \in Line /\ Head(answer) = answer[1]
        BY <1>1
    <2>3. answer = <<Head(answer)>>
        <3> DEFINE t == <<Head(answer)>>
        <3>1. t \in Seq(Line) /\ Len(t) = 1 /\ t[1] = Head(answer)
            BY <2>4
        <3>2. \A i \in 1..Len(answer) : answer[i] = t[i]
            BY <2>2, <2>4, <3>1
        <3> HIDE DEF t
        <3>3. answer = t
            BY <1>1, <2>2, <3>1, <3>2, SeqEqual
        <3> QED BY <3>3 DEF t
    <2> QED BY <1>1, <2>3, <2>4, AppendIsConcat
<1> QED BY <1>1, <1>2, <1>3, <1>4 DEF Nothing

LEMMA PairAnswered ==
    ASSUME CtlTypeOK, Stages, Answer, NEW op, Awaited(op)
    PROVE  /\ link = "up" => Awaited(op)'
           /\ link # "up" => Nothing'
<1>1. /\ toDev' = <<>> /\ answer' = <<>> /\ Replies = {} /\ Head(answer).op = op
      /\ link = "up" => toCli' = Append(toCli, Head(answer))
      /\ link # "up" => toCli' = toCli
    BY PairAnswer
<1>2. Head(answer) \in Line /\ ~Head(answer).evt
    <2>1. answer \in Seq(Line) /\ 1 \in DOMAIN answer /\ Head(answer) = answer[1]
        BY PairAnswer
    <2> QED BY <2>1 DEF Stages
<1>3. CASE link = "up"
    <2>1. /\ Replies' = {Len(toCli) + 1} /\ toCli'[Len(toCli) + 1] = Head(answer)
          /\ Len(toCli) + 1 \in DOMAIN toCli'
        BY <1>1, <1>2, <1>3, PairAppend
    <2> QED BY <1>1, <1>3, <2>1 DEF Awaited
<1>4. CASE link # "up"
    BY <1>1, <1>4 DEF Nothing, Replies
<1> QED BY <1>3, <1>4

LEMMA PairSend ==
    ASSUME CtlTypeOK, Nothing, NEW op \in Ops, NEW n \in Nat, Send(op, n)
    PROVE  /\ toCli' = toCli /\ answer' = answer /\ Replies' = Replies
           /\ link = "up" => toDev' = <<[op |-> op, n |-> n]>> /\ Awaited(op)' /\ link' = "up"
           /\ link # "up" => toDev' = <<>> /\ Nothing' /\ link' # "up"
<1>1. toDev = <<>> /\ answer = <<>> /\ Replies = {} /\ UNCHANGED <<toCli, answer>>
    BY DEF Nothing, Send
<1>2. Replies' = Replies
    BY <1>1 DEF Replies
<1>3. CASE link = "up"
    <2>1. toDev' = <<[op |-> op, n |-> n]>> /\ link' = "up"
        BY <1>1, <1>3 DEF Send
    <2>2. toDev' # <<>> /\ Tail(toDev') = <<>> /\ Head(toDev').op = op
        BY <2>1
    <2> QED BY <1>1, <1>2, <1>3, <2>1, <2>2 DEF Awaited
<1>4. CASE link # "up"
    BY <1>1, <1>2, <1>4 DEF Send, Nothing
<1> QED BY <1>1, <1>2, <1>3, <1>4

-----------------------------------------------------------------------------
(* The invariant, conjunct by conjunct.                                    *)

\* What the client sends, and when.
LEMMA SendFacts ==
    ASSUME CtlInv, SendSingle \/ SendLogs \/ SendUpload
    PROVE  /\ Nothing /\ outcome = "running" /\ asked = "none" /\ stage # "follow"
           /\ \E op \in Ops, n \in Nat :
                /\ Send(op, n)
                /\ sub = "upload" => op = stage
                /\ sub = "logs" => op = "LOG_STREAM"
                /\ sub \notin {"upload", "logs"} => op \in Single
                /\ op = "OTA_BEGIN" => sub = "upload" /\ n = file.size
                /\ stage = "OTA_DATA" => n = Chunk
<1>0. CtlTypeOK /\ Stages /\ Pairing
    BY DEF CtlInv
<1>1. file.size \in Nat /\ Chunk \in Nat
    BY <1>0, FileType
<1>2. outcome = "running" /\ asked = "none"
    BY DEF SendSingle, SendLogs, SendUpload, Send
<1>3. stage # "follow"
    BY <1>0 DEF SendSingle, SendLogs, SendUpload, Stages
<1>4. Nothing
    BY <1>0, <1>2, <1>3 DEF Pairing
<1>5. CASE SendSingle
    BY <1>0, <1>2, <1>3, <1>4, <1>5 DEF SendSingle, Single, Ops, Stages
<1>6. CASE SendLogs
    BY <1>0, <1>2, <1>3, <1>4, <1>6 DEF SendLogs, Ops, Stages
<1>7. CASE SendUpload
    <2>1. sub = "upload"
        BY <1>0, <1>7 DEF SendUpload, Stages
    <2>2. \E n \in Nat : Send(stage, n) /\ stage \in Ops
                         /\ (stage = "OTA_BEGIN" => n = file.size) /\ (stage = "OTA_DATA" => n = Chunk)
        BY <1>1, <1>7 DEF SendUpload, Ops
    <2> QED BY <1>2, <1>3, <1>4, <2>1, <2>2
<1> QED BY <1>5, <1>6, <1>7

\* The client takes a reply only if it was the one thing under way.
LEMMA ReplyFacts ==
    ASSUME CtlInv, Take, asked # "none", sub # "logs", ~Skips(Head(toCli)),
           UNCHANGED <<toDev, answer>>
    PROVE  /\ toDev = <<>> /\ answer = <<>> /\ 1 \in Replies
           /\ Head(toCli) = toCli[1] /\ Nothing'
<1>1. CtlTypeOK /\ ~Head(toCli).evt
    BY DEF CtlInv, Skips
<1>2. Awaited(asked) \/ Nothing
    BY DEF CtlInv, Pairing, Take
<1> QED BY <1>1, <1>2, PairTake, RepliesTail

LEMMA StagesStep ==
    ASSUME CtlInv, [CtlNext]_all
    PROVE  Stages'
<1> DEFINE L == /\ outcome' = "running" => sub' # "none"
                /\ sub' = "upload" => file' \in Files /\ stage' \in {"OTA_BEGIN", "OTA_DATA", "OTA_END"}
                /\ sub' # "upload" => stage' \in {"none", "follow"}
                /\ stage' = "follow" => sub' = "logs"
                /\ stage' = "OTA_BEGIN" => sent' = 0
                /\ stage' = "OTA_DATA" => sent' < file.size'
           A == asked' # "none" =>
                   asked' \in CASE sub' = "upload" -> {stage'}
                                [] sub' = "logs"   -> {"LOG_STREAM"}
                                [] OTHER           -> Single
           D == /\ toDev' # <<>> => Tail(toDev') = <<>>
                /\ \A i \in DOMAIN toDev' :
                      /\ sub' = "upload" => toDev'[i].op = stage'
                      /\ sub' # "upload" => toDev'[i].op # "OTA_BEGIN"
                      /\ toDev'[i].op = "OTA_BEGIN" => toDev'[i].n = file'.size
                      /\ stage' = "OTA_DATA" => toDev'[i].n = Chunk'
           R == \A i \in DOMAIN answer' : ~answer'[i].evt
<1>0. CtlTypeOK /\ Stages
    BY DEF CtlInv
<1>q. ASSUME L, A, D, R PROVE Stages'
    BY <1>q DEF Stages
<1>k. /\ UNCHANGED <<sub, file, stage, sent>> /\ (outcome' = outcome \/ outcome' # "running") => L
      /\ UNCHANGED <<sub, stage>> /\ asked' \in {asked, "none"} => A
      /\ UNCHANGED <<sub, file, stage, sent, toDev>> => D
      /\ toDev' = <<>> => D
      /\ UNCHANGED answer \/ answer' = <<>> => R
    <2>1. UNCHANGED <<sub, file, stage, sent>> /\ (outcome' = outcome \/ outcome' # "running") => L
        BY <1>0 DEF Stages
    <2>2. UNCHANGED <<sub, stage>> /\ asked' \in {asked, "none"} => A
        BY <1>0 DEF Stages
    <2>3. UNCHANGED <<sub, file, stage, sent, toDev>> => D
        BY <1>0 DEF Stages, Chunk
    <2>4. toDev' = <<>> => D
        BY EmptySeq
    <2>5. UNCHANGED answer \/ answer' = <<>> => R
        BY <1>0, EmptySeq DEF Stages
    <2> QED BY <2>1, <2>2, <2>3, <2>4, <2>5
<1>x. ASSUME NEW v \in {"ok", "unknown"}, Exit(v) PROVE Stages'
    BY <1>x, <1>k, <1>q DEF Exit
<1> HIDE DEF L, A, D, R
<1>1. ASSUME NEW m \in {"shot", "shell", "logs", "upload"}, NEW f, Run(m, f), m = "upload" => f \in Files
      PROVE Stages'
    <2>1. L
        BY <1>1 DEF Run, L
    <2>2. A
        BY <1>1 DEF Run, A
    <2> QED BY <1>1, <1>k, <1>q, <2>1, <2>2 DEF Run
<1>2. ASSUME GiveUp \/ Quit \/ Kill \/ Interrupt \/ TakeEnd PROVE Stages'
    <2>1. CASE Exit("ok") \/ Exit("unknown")
        BY <2>1, <1>x
    <2>2. CASE Interrupt /\ ~Exit("ok")
        <3>1. UNCHANGED <<sub, outcome, file, stage, sent, asked, channel>>
            BY <2>2 DEF Interrupt
        <3> QED BY <3>1, <1>k, <1>q
    <2> QED BY <1>2, <2>1, <2>2 DEF GiveUp, Quit, Kill, TakeEnd
<1>3. ASSUME SendSingle \/ SendLogs \/ SendUpload PROVE Stages'
    <2>1. PICK op \in Ops, n \in Nat :
                /\ Send(op, n)
                /\ sub = "upload" => op = stage
                /\ sub = "logs" => op = "LOG_STREAM"
                /\ sub \notin {"upload", "logs"} => op \in Single
                /\ op = "OTA_BEGIN" => sub = "upload" /\ n = file.size
                /\ stage = "OTA_DATA" => n = Chunk
        BY <1>3, SendFacts
    <2>2. L /\ R
        BY <2>1, <1>k DEF Send
    <2>3. A
        BY <2>1 DEF Send, A
    <2>4. toDev' = <<>> \/ toDev' = <<[op |-> op, n |-> n]>>
        BY <1>0, <1>3, <2>1, SendFacts, PairSend
    <2>5. CASE toDev' = <<>>
        BY <1>q, <1>k, <2>2, <2>3, <2>5
    <2>6. CASE toDev' = <<[op |-> op, n |-> n]>>
        <3>1. \A i \in DOMAIN toDev' : toDev'[i].op = op /\ toDev'[i].n = n
            BY <2>6
        <3>2. UNCHANGED <<sub, file, stage, sent>> /\ Chunk' = Chunk
            BY <2>1 DEF Send, Chunk
        <3>3. D
            <4>1. Tail(toDev') = <<>>
                BY <2>6
            <4> QED BY <2>1, <3>1, <3>2, <4>1 DEF D
        <3> QED BY <1>q, <2>2, <2>3, <3>3
    <2> QED BY <2>4, <2>5, <2>6
<1>4. ASSUME TakeEvent \/ TakeStatus \/ TakeShell \/ TakeErr PROVE Stages'
    BY <1>4, <1>k, <1>q DEF TakeEvent, TakeStatus, TakeShell, TakeErr, Status
<1>5. ASSUME TakeLogs PROVE Stages'
    <2>1. L
        BY <1>0, <1>5 DEF TakeLogs, L, Stages, Take
    <2>2. A
        BY <1>5 DEF TakeLogs, A
    <2>3. D
        <3>1. sub' # "upload" /\ stage' = "follow" /\ UNCHANGED <<sub, file, toDev>>
            BY <1>5 DEF TakeLogs
        <3> QED BY <1>0, <3>1 DEF D, Stages
    <2> QED BY <1>5, <1>k, <1>q, <2>1, <2>2, <2>3 DEF TakeLogs
<1>6. ASSUME TakeOk PROVE Stages'
    <2>1. toDev' = <<>>
        BY <1>6, ReplyFacts DEF TakeOk, Reply
    <2>2. sub = "upload" /\ sub' = sub /\ file' = file /\ file \in Files /\ asked' = "none"
          /\ answer' = answer /\ stage' \in {"OTA_DATA", "OTA_END"}
          /\ (stage' = "OTA_DATA" => sent' < file.size')
        BY <1>0, <1>6 DEF TakeOk, Stages
    <2>3. L /\ A
        BY <2>2 DEF L, A
    <2> QED BY <1>k, <1>q, <2>1, <2>2, <2>3
<1>7. ASSUME Handle PROVE Stages'
    <2>1. toDev \in Seq(Cmd) /\ toDev # <<>> /\ toDev' = Tail(toDev)
          /\ UNCHANGED client
        BY <1>7, HandleFacts
    <2>3. toDev' = <<>>
        BY <1>0, <2>1 DEF Stages
    <2>4. R
        <3>1. PICK ok \in BOOLEAN :
                  answer' = <<[evt |-> FALSE, op |-> Head(toDev).op, ok |-> ok]>>
            BY <1>7, HandleFacts
        <3> QED BY <3>1 DEF R
    <2> QED BY <1>k, <1>q, <2>1, <2>3, <2>4
<1>8. ASSUME Answer \/ Leave \/ Emit \/ Break \/ Down \/ BootAgain PROVE Stages'
    BY <1>8, <1>k, <1>q DEF Answer, Leave, Emit, Break, Down, BootAgain
<1>9. CASE UNCHANGED all
    BY <1>9, <1>k, <1>q
<1> QED BY <1>1, <1>2, <1>3, <1>4, <1>5, <1>6, <1>7, <1>8, <1>9 DEF CtlNext, User, ClientStep

\* The server task, or the device, is gone with what it had not sent.
LEMMA PairDrop ==
    ASSUME toDev' = <<>>, answer' = <<>>, toCli' = toCli
    PROVE  /\ Replies' = Replies
           /\ Nothing => Nothing'
           /\ \A op : Awaited(op) => Awaited(op)' \/ Nothing'
<1>1. Replies' = Replies
    BY DEF Replies
<1>2. ASSUME NEW op, Awaited(op) PROVE Awaited(op)' \/ Nothing'
    <2>1. CASE Replies = {}
        BY <1>1, <2>1 DEF Nothing
    <2>2. CASE Replies # {}
        <3>1. PICK i \in DOMAIN toCli : Replies = {i} /\ toCli[i].op = op
            BY <1>2, <2>2 DEF Awaited
        <3> QED BY <1>1, <3>1 DEF Awaited
    <2> QED BY <2>1, <2>2
<1> QED BY <1>1, <1>2 DEF Nothing

LEMMA PairingStep ==
    ASSUME CtlInv, [CtlNext]_all
    PROVE  Pairing'
<1> DEFINE Fine == Pairing'
<1>0. CtlTypeOK /\ Stages /\ Pairing
    BY DEF CtlInv
<1>x. outcome' # "running" => Fine
    BY DEF Pairing
<1>n. asked' = "none" /\ Nothing' => Fine
    BY DEF Pairing
<1>k. ASSUME UNCHANGED <<sub, outcome, asked, stage>>,
             Nothing => Nothing',
             \A op : Awaited(op) => Awaited(op)',
             link # "up" => link' # "up"
      PROVE  Fine
    BY <1>0, <1>k, Zenon DEF Pairing
<1>d. ASSUME UNCHANGED <<sub, outcome, asked, stage>>,
             Nothing => Nothing',
             \A op : Awaited(op) => Awaited(op)' \/ Nothing',
             link' # "up"
      PROVE  Fine
    BY <1>0, <1>d, Zenon DEF Pairing
<1> HIDE DEF Fine
<1>1. ASSUME NEW m, NEW f, Run(m, f) PROVE Fine
    <2>1. toDev' = <<>> /\ toCli' = <<>> /\ answer' = <<>> /\ asked' = "none"
        BY <1>1 DEF Run
    <2>2. Replies' = {}
        BY <2>1, EmptySeq DEF Replies
    <2> QED BY <1>n, <2>1, <2>2 DEF Nothing
<1>2. ASSUME GiveUp \/ Quit \/ Kill \/ Interrupt \/ TakeEnd \/ TakeStatus \/ TakeErr PROVE Fine
    <2>1. CASE Interrupt /\ ~Exit("ok")
        BY <1>k, <2>1, PairSame DEF Interrupt
    <2>2. CASE Exit("ok") \/ Exit("unknown") \/ TakeStatus \/ TakeErr
        BY <1>x, <2>2 DEF Exit, TakeStatus, TakeErr, Status
    <2> QED BY <1>2, <2>1, <2>2 DEF GiveUp, Quit, Kill, TakeEnd
<1>3. ASSUME SendSingle \/ SendLogs \/ SendUpload PROVE Fine
    <2>1. PICK op \in Ops, n \in Nat : Send(op, n) /\ (sub = "logs" => op = "LOG_STREAM")
        BY <1>3, SendFacts
    <2>2. Nothing
        BY <1>3, SendFacts
    <2>3. asked' = op /\ op # "none" /\ sub' = sub
        BY <2>1 DEF Send, Ops
    <2>4. (Awaited(op)' /\ link' = "up") \/ (Nothing' /\ link' # "up")
        BY <1>0, <2>1, <2>2, PairSend
    <2> QED BY <2>1, <2>3, <2>4 DEF Fine, Pairing, Awaited
<1>4. ASSUME TakeEvent PROVE Fine
    BY <1>0, <1>4, <1>k, PairSkip DEF TakeEvent, Skips
<1>5. ASSUME TakeShell \/ TakeOk PROVE Fine
    BY <1>5, <1>n, ReplyFacts DEF TakeShell, TakeOk, Reply, Single
<1>6. ASSUME TakeLogs PROVE Fine
    <2>1. Nothing \/ Awaited("LOG_STREAM")
        BY <1>0, <1>6 DEF Pairing, TakeLogs, Take
    <2>2. Nothing' \/ Awaited("LOG_STREAM")'
        BY <1>0, <1>6, <2>1, PairSkip, PairTake DEF TakeLogs
    <2>3. sub' = "logs" /\ stage' = "follow" /\ asked' = "none"
        BY <1>6 DEF TakeLogs
    <2> QED BY <2>2, <2>3 DEF Fine, Pairing
<1>7. ASSUME Handle PROVE Fine
    BY <1>7, <1>k, PairHandle DEF Handle
<1>8. ASSUME Answer PROVE Fine
    <2>1. UNCHANGED <<sub, outcome, asked, stage, link>>
        BY <1>8 DEF Answer
    <2>2. ~Nothing
        BY <1>0, <1>8, PairAnswer
    <2>3. CASE link = "up"
        BY <1>0, <1>8, <1>k, <2>1, <2>2, <2>3, PairAnswered
    <2>4. CASE link # "up"
        BY <1>0, <1>8, <1>d, <2>1, <2>2, <2>4, PairAnswered
    <2> QED BY <2>3, <2>4
<1>9. ASSUME Leave \/ Down PROVE Fine
    <2>1. /\ UNCHANGED <<sub, outcome, asked, stage, toCli>> /\ toDev' = <<>> /\ answer' = <<>>
          /\ link' # "up"
        BY <1>9 DEF Leave, Down
    <2> QED BY <1>d, <2>1, PairDrop
<1>10. ASSUME Emit PROVE Fine
    BY <1>0, <1>10, <1>k, PairEmit DEF Emit
<1>11. ASSUME Break \/ BootAgain \/ UNCHANGED all PROVE Fine
    BY <1>11, <1>k, PairSame DEF Break, BootAgain
<1> QED BY <1>1, <1>2, <1>3, <1>4, <1>5, <1>6, <1>7, <1>8, <1>9, <1>10, <1>11
        DEF CtlNext, User, ClientStep, Fine

\* What a command leaves of the upload's record.
LEMMA Effect ==
    ASSUME CtlInv, NEW c, NEW ok \in BOOLEAN, IF ok THEN Does(c) ELSE Fails(c)
    PROVE  /\ ok /\ c.op = "OTA_BEGIN" =>
                 s'.active /\ s'.expected = file.img /\ s'.received = 0 /\ s'.total = c.n
           /\ ok /\ c.op = "OTA_DATA" =>
                 /\ s.active /\ s'.active /\ s'.expected = s.expected
                 /\ s'.received = s.received + c.n /\ s'.total = s.total
           /\ Commits(c, ok) =>
                 s.active /\ ~s'.active /\ Holds(flash[s.part]) = file.img
           /\ (~ok \/ c.op \notin {"OTA_BEGIN", "OTA_DATA", "OTA_END"}) /\ s'.active => s' = s
<1>0. Inv
    BY DEF CtlInv
<1>a. AbortUpload => ~s'.active
    BY <1>0, AbortFacts
<1>i. ~Idle.active
    BY DEF Idle
<1>1. ASSUME ok PROVE Does(c)
    BY <1>1
<1>2. ASSUME ~ok PROVE Fails(c)
    BY <1>2
<1>3. ok /\ c.op = "OTA_BEGIN" =>
          s'.active /\ s'.expected = file.img /\ s'.received = 0 /\ s'.total = c.n
    BY <1>1 DEF Does, Begin
<1>4. ok /\ c.op = "OTA_DATA" =>
          /\ s.active /\ s'.active /\ s'.expected = s.expected
          /\ s'.received = s.received + c.n /\ s'.total = s.total
    <2>1. s \in OtaState
        BY <1>0 DEF Inv, TypeOK
    <2>2. ASSUME Data(file.img, c.n)
          PROVE  /\ s.active /\ s'.active /\ s'.expected = s.expected
                 /\ s'.received = s.received + c.n /\ s'.total = s.total
        BY <2>1, <2>2 DEF Data, OtaState
    <2> QED BY <1>1, <2>2 DEF Does
<1>5. Commits(c, ok) => s.active /\ ~s'.active /\ Holds(flash[s.part]) = file.img
    <2>1. Commits(c, ok) => End
        BY <1>1 DEF Commits, Does
    <2>2. End => s.active /\ ~s'.active /\ s.received = s.total /\ Bootable(flash[s.part])
        BY <1>i DEF End, Verified
    <2>3. file.size # 0
        BY FileType DEF CtlInv
    <2>4. s.active /\ s.received = s.total => flash[s.part][0] = file.img
        BY <2>3 DEF CtlInv, Laid
    <2> QED BY <2>1, <2>2, <2>4, HoldsType DEF Bootable
<1>6. ASSUME ok, c.op \notin {"OTA_BEGIN", "OTA_DATA", "OTA_END"}, s'.active PROVE s' = s
    <2>1. Abort \/ Rollback \/ UNCHANGED vars
        BY <1>1, <1>6 DEF Does
    <2> QED BY <1>6, <1>a, <2>1 DEF Abort, Rollback
<1>7. ASSUME ~ok, s'.active PROVE s' = s
    <2>1. \/ BeginNoHash(c.n, file.img) \/ (\E n \in 0..Cap : BeginRefused(n))
          \/ DataFails(file.img, c.n) \/ EndFails
          \/ UNCHANGED vars
        BY <1>2, <1>7 DEF Fails
    <2>2. BeginNoHash(c.n, file.img) => ~s'.active
        BY DEF BeginNoHash
    <2>3. (\E n \in 0..Cap : BeginRefused(n)) => ~s'.active
        <3>1. s \in OtaState /\ Idle \in OtaState
            BY <1>0, IdleType DEF Inv, TypeOK
        <3> QED BY <1>i, <3>1 DEF BeginRefused, OtaState
    <2>4. DataFails(file.img, c.n) \/ EndFails => ~s'.active
        BY <1>a, <1>i DEF DataFails, EndFails
    <2> QED BY <1>7, <2>1, <2>2, <2>3, <2>4
<1> QED BY <1>3, <1>4, <1>5, <1>6, <1>7

\* A command that fails and leaves the upload active leaves the flash alone.
LEMMA FailsFlash ==
    ASSUME CtlInv, NEW c, Fails(c), s'.active
    PROVE  UNCHANGED flash
<1>0. Inv
    BY DEF CtlInv
<1>i. ~Idle.active /\ s \in OtaState /\ Idle \in OtaState
    BY <1>0, IdleType DEF Idle, Inv, TypeOK
<1>1. BeginNoHash(c.n, file.img) => ~s'.active
    BY DEF BeginNoHash
<1>2. (\E n \in 0..Cap : BeginRefused(n)) => ~s'.active
    BY <1>i DEF BeginRefused, OtaState
<1>3. DataFails(file.img, c.n) \/ EndFails => ~s'.active
    BY <1>0, <1>i, AbortFacts DEF DataFails, EndFails
<1>4. \/ BeginNoHash(c.n, file.img) \/ (\E n \in 0..Cap : BeginRefused(n))
      \/ DataFails(file.img, c.n) \/ EndFails \/ UNCHANGED vars
    BY DEF Fails
<1> QED BY <1>1, <1>2, <1>3, <1>4

LEMMA LaidStep ==
    ASSUME CtlInv, [CtlNext]_all
    PROVE  Laid'
<1>0. CtlTypeOK /\ Stages /\ Inv /\ Laid
    BY DEF CtlInv
<1>1. ASSUME UNCHANGED <<s, flash, file>> PROVE Laid'
    BY <1>0, <1>1 DEF Laid
<1>2. ASSUME ~s'.active PROVE Laid'
    BY <1>2 DEF Laid
<1>3. ASSUME NEW m, NEW f, Run(m, f) PROVE Laid'
    BY <1>0, <1>2, <1>3 DEF Run, Connect, Inv, Bookkeeping, UploadContained
<1>4. ASSUME GiveUp \/ Quit \/ Kill \/ Interrupt \/ ClientStep \/ Answer \/ Emit \/ Break
             \/ BootAgain \/ UNCHANGED all
      PROVE  Laid'
    <2>1. UNCHANGED <<s, flash, file>>
        BY <1>4 DEF GiveUp, Quit, Kill, Interrupt, Exit, ClientStep, SendSingle, SendLogs,
                    SendUpload, Send, TakeEvent, TakeStatus, TakeShell, TakeOk, TakeErr,
                    TakeLogs, TakeEnd, Answer, Emit, Break, BootAgain, Boot
    <2> QED BY <1>1, <2>1
<1>5. ASSUME Leave \/ Down PROVE Laid'
    <2>1. Leave => ~s'.active
        BY <1>0, AbortFacts DEF Leave, Disconnect
    <2>2. Down => ~s'.active
        BY DEF Down, Restart, Crash, GoDown, Idle
    <2> QED BY <1>2, <1>5, <2>1, <2>2
<1>6. ASSUME Handle PROVE Laid'
    <2> DEFINE c == Head(toDev)
    <2>1. PICK ok \in BOOLEAN : IF ok THEN Does(c) ELSE Fails(c)
        BY <1>6, HandleFacts
    <2>2. UNCHANGED file /\ c = toDev[1] /\ 1 \in DOMAIN toDev /\ c \in Cmd
        BY <1>6, HandleFacts
    <2>3. c.op = "OTA_BEGIN" => c.n = file.size
        BY <1>0, <2>2 DEF Stages
    <2>4. c.n \in Nat
        BY <2>2 DEF Cmd
    <2> HIDE DEF c
    <2>5. CASE ok /\ c.op = "OTA_BEGIN"
        <3>1. s'.received = 0 /\ s'.total = c.n
            BY <2>1, <2>5, Effect
        <3> QED BY <2>2, <2>3, <2>5, <3>1 DEF Laid
    <2>6. CASE ok /\ c.op = "OTA_DATA"
        <3>1. Data(file.img, c.n)
            BY <2>1, <2>6 DEF Does
        <3>2. /\ s.active /\ s.part \in Slots /\ s \in OtaState
              /\ flash \in [Slots -> [Blocks -> Images \cup {None}]]
            BY <1>0, <3>1, Facts DEF Data, Inv, TypeOK
        <3>3. /\ s'.part = s.part /\ s'.total = s.total /\ s'.received = s.received + c.n
              /\ flash'[s.part] = Write(flash[s.part], handles[s.h].at, file.img, c.n)
              /\ handles[s.h].at = s.received
            BY <1>0, <3>1, <3>2 DEF Data, Written, OtaState, Inv, Bookkeeping, CountsAgree
        <3>4. s.received \in Nat
            BY <3>2 DEF OtaState
        <3>5. file.img \in Images \cup {None} /\ 0 \in Blocks
              /\ (file.img \in Images => 0 < Size[file.img])
            <4>1. file.img \in Images \cup {None} /\ 0 \in Blocks
                BY <1>0, FileType, FirstBlock
            <4>2. \A i \in Images : Size[i] \in Nat /\ Size[i] # 0
                BY OtaAssumption
            <4>3. \A i \in Images : 0 < Size[i]
                BY <4>2
            <4> QED BY <4>1, <4>3
        <3>6. flash'[s.part][0] =
                  IF 0 < s.received \/ 0 >= s.received + c.n THEN flash[s.part][0] ELSE file.img
            BY <3>3, <3>5 DEF Write
        <3>7. s'.received # 0 => flash'[s.part][0] = file.img
            <4>1. CASE s.received = 0
                BY <2>4, <3>3, <3>4, <3>6, <4>1
            <4>2. CASE s.received # 0
                BY <1>0, <2>4, <3>2, <3>4, <3>6, <4>2 DEF Laid
            <4> QED BY <4>1, <4>2
        <3> QED BY <1>0, <2>2, <3>2, <3>3, <3>7 DEF Laid
    <2>7. CASE Commits(c, ok)
        BY <1>2, <2>1, <2>7, Effect
    <2>8. CASE ~ok \/ c.op \notin {"OTA_BEGIN", "OTA_DATA", "OTA_END"}
        <3> SUFFICES ASSUME s'.active PROVE Laid'
            BY <1>2
        <3>1. s' = s
            BY <2>1, <2>8, Effect
        <3>2. UNCHANGED flash
            <4>1. CASE ok
                BY <2>1, <2>8, <4>1 DEF Does, Abort, Rollback
            <4>2. CASE ~ok
                BY <1>0, <2>1, <3>1, <4>2, FailsFlash
            <4> QED BY <4>1, <4>2
        <3> QED BY <1>1, <2>2, <3>1, <3>2
    <2> QED BY <2>5, <2>6, <2>7, <2>8 DEF Commits
<1> QED BY <1>3, <1>4, <1>5, <1>6 DEF CtlNext, User

LEMMA CommittedStep ==
    ASSUME CtlInv, [CtlNext]_all
    PROVE  Committed'
<1> DEFINE A == s'.active => sub' = "upload" /\ s'.expected = file'.img /\ ~done'
           D == sub' = "upload" /\ done' =>
                   /\ stage' = "OTA_END" /\ toDev' = <<>>
                   /\ outcome' = "running" => asked' = "OTA_END"
           O == sub' = "upload" /\ toDev' # <<>> => outcome' \in {"running", "unknown"}
           R == sub' = "upload" /\ stage' = "OTA_END" =>
                   /\ \A i \in DOMAIN answer' : answer'[i].ok <=> done'
                   /\ outcome' = "running" => \A i \in Replies' : toCli'[i].ok <=> done'
<1>0. CtlTypeOK /\ Stages /\ Pairing /\ Committed /\ Inv
    BY DEF CtlInv
<1>q. ASSUME A, D, O, R PROVE Committed'
    BY <1>q DEF Committed
<1>k. /\ UNCHANGED <<s, sub, file, done>> => A
      /\ ~s'.active => A
      /\ UNCHANGED <<sub, stage, done>> /\ (toDev' = toDev \/ toDev' = <<>>)
            /\ (outcome' # "running" \/ UNCHANGED <<outcome, asked>>) => D
      /\ UNCHANGED sub /\ (toDev' = toDev \/ toDev' = <<>>) /\ outcome' = outcome => O
      /\ outcome' \in {"running", "unknown"} => O
      /\ toDev' = <<>> => O
    BY <1>0 DEF Committed
<1>e. ASSUME UNCHANGED <<sub, stage, done>>, answer' = answer \/ answer' = <<>>,
             sub' = "upload", stage' = "OTA_END"
      PROVE  \A i \in DOMAIN answer' : answer'[i].ok <=> done'
    BY <1>0, <1>e, EmptySeq DEF Committed
<1>r. ASSUME UNCHANGED <<sub, stage, done>>, answer' = answer \/ answer' = <<>>,
             \/ outcome' # "running"
             \/ outcome' = outcome /\ (\A i \in Replies' : i \in Replies /\ toCli'[i] = toCli[i])
      PROVE  R
    BY <1>0, <1>e, <1>r DEF Committed
<1>u. sub' # "upload" => R
    OBVIOUS
<1> HIDE DEF A, D, O, R
<1>1. ASSUME NEW m, NEW f, Run(m, f) PROVE Committed'
    <2>1. ~s.active /\ s' = s
        BY <1>0, <1>1 DEF Run, Connect, Inv, Bookkeeping, UploadContained
    <2>2. D
        BY <1>1 DEF Run, D
    <2>3. R
        BY <1>1 DEF Run, R
    <2>4. O
        BY <1>1 DEF Run, O
    <2> QED BY <1>k, <1>q, <2>1, <2>2, <2>3, <2>4
<1>x. ASSUME NEW v \in {"ok", "unknown"}, Exit(v), v = "ok" => sub # "upload" PROVE Committed'
    <2>1. /\ UNCHANGED <<s, sub, file, stage, toDev, answer, done>> /\ outcome' = v
        BY <1>x DEF Exit
    <2>2. O
        BY <1>x, <2>1, <1>k DEF O
    <2> QED BY <1>x, <1>k, <1>r, <1>q, <2>1, <2>2
<1>2. ASSUME GiveUp \/ Quit \/ Kill \/ Interrupt \/ TakeEnd PROVE Committed'
    <2>1. CASE Exit("unknown")
        BY <2>1, <1>x
    <2>2. CASE Exit("ok") /\ (Quit \/ Interrupt)
        <3>1. sub # "upload"
            BY <1>0, <2>2 DEF Quit, Interrupt, Stages
        <3> QED BY <2>2, <3>1, <1>x
    <2>3. CASE Interrupt /\ ~Exit("ok")
        <3>1. UNCHANGED <<s, sub, outcome, file, stage, asked, toDev, toCli, answer, done>>
            BY <2>3 DEF Interrupt
        <3>2. R
            BY <3>1, <1>r, PairSame
        <3> QED BY <3>1, <3>2, <1>k, <1>q
    <2> QED BY <1>2, <2>1, <2>2, <2>3 DEF GiveUp, Quit, Kill, TakeEnd
<1>3. ASSUME SendSingle \/ SendLogs \/ SendUpload PROVE Committed'
    <2>1. PICK op \in Ops, n \in Nat : Send(op, n)
        BY <1>3, SendFacts
    <2>2. UNCHANGED <<s, sub, outcome, file, stage, answer, toCli, done>> /\ outcome = "running" /\ asked = "none"
        BY <2>1 DEF Send
    <2>3. sub = "upload" => ~done
        BY <1>0, <2>2 DEF Committed
    <2>4. D
        BY <2>2, <2>3 DEF D
    <2>5. R
        BY <2>2, <1>r DEF Replies
    <2> QED BY <1>k, <1>q, <2>2, <2>4, <2>5
<1>4. ASSUME TakeEvent PROVE Committed'
    <2>1. UNCHANGED <<s, sub, outcome, file, stage, asked, toDev, answer, done>> /\ Take
        BY <1>4 DEF TakeEvent
    <2>2. \A i \in Replies' : i + 1 \in Replies /\ toCli'[i] = toCli[i + 1]
        BY <1>0, <2>1, RepliesTail
    <2>3. R
        BY <1>0, <2>1, <2>2 DEF R, Committed
    <2> QED BY <1>k, <1>q, <2>1, <2>3
<1>5. ASSUME TakeStatus \/ TakeErr PROVE Committed'
    <2>1. UNCHANGED <<s, sub, file, stage, toDev, answer, done>> /\ outcome' # "running"
        BY <1>5 DEF TakeStatus, TakeErr, Status
    <2>2. toDev' = <<>>
        BY <1>5, ReplyFacts DEF TakeStatus, TakeErr, Reply, Single
    <2> QED BY <1>k, <1>r, <1>q, <2>1, <2>2
<1>6. ASSUME TakeShell \/ TakeLogs PROVE Committed'
    <2>1. sub' # "upload" /\ UNCHANGED <<s, sub, file, done>>
        BY <1>6 DEF TakeShell, TakeLogs
    <2> QED BY <1>k, <1>u, <1>q, <2>1 DEF D, O
<1>7. ASSUME TakeOk PROVE Committed'
    <2>1. UNCHANGED <<s, sub, file, done, outcome, answer>> /\ outcome = "running" /\ sub = "upload"
          /\ asked # "OTA_END"
        BY <1>7 DEF TakeOk, Reply, Take
    <2>2. ~done
        BY <1>0, <2>1 DEF Committed
    <2>3. toDev' = <<>> /\ answer = <<>> /\ Nothing'
        BY <1>7, ReplyFacts DEF TakeOk, Reply
    <2>4. R
        BY <2>1, <2>3, EmptySeq DEF R, Nothing
    <2> QED BY <1>k, <1>q, <2>1, <2>2, <2>3, <2>4 DEF D
<1>8. ASSUME Handle PROVE Committed'
    <2> DEFINE c == Head(toDev)
    <2>1. PICK ok \in BOOLEAN :
                /\ IF ok THEN Does(c) ELSE Fails(c)
                /\ answer' = <<[evt |-> FALSE, op |-> c.op, ok |-> ok]>>
                /\ done' = (done \/ Commits(c, ok))
        BY <1>8, HandleFacts
    <2>2. UNCHANGED <<sub, outcome, file, stage, asked, toCli>> /\ toDev # <<>> /\ toDev' = Tail(toDev)
        BY <1>8, HandleFacts
    <2>3. c.op = "OTA_BEGIN" => sub = "upload"
        BY <1>0, <1>8, HandleFacts DEF Stages
    <2>4. sub = "upload" => ~done /\ c.op = stage
        BY <1>0, <1>8, HandleFacts DEF Stages, Committed
    <2> HIDE DEF c
    <2>5. A
        <3>1. CASE ok /\ c.op = "OTA_BEGIN"
            BY <2>1, <2>2, <2>3, <2>4, <3>1, Effect DEF A, Commits
        <3>2. CASE ok /\ c.op = "OTA_DATA"
            BY <1>0, <2>1, <2>2, <3>2, Effect DEF A, Commits, Committed
        <3>3. CASE ok /\ c.op = "OTA_END"
            BY <2>1, <3>3, Effect DEF A, Commits
        <3>4. CASE ~ok \/ c.op \notin {"OTA_BEGIN", "OTA_DATA", "OTA_END"}
            BY <1>0, <2>1, <2>2, <3>4, Effect DEF A, Commits, Committed
        <3> QED BY <3>1, <3>2, <3>3, <3>4
    <2>6. toDev' = <<>>
        BY <1>0, <2>2 DEF Stages
    <2>7. ASSUME outcome = "running", sub = "upload" PROVE asked = stage /\ Replies = {}
        <3>1. ~Nothing
            BY <2>2 DEF Nothing
        <3>2. asked # "none" /\ Awaited(asked)
            BY <1>0, <2>7, <3>1 DEF Pairing, Stages
        <3>3. asked = stage
            BY <1>0, <2>7, <3>2 DEF Stages
        <3> QED BY <1>8, <3>2, <3>3, PairHandle
    <2>8. D
        <3>1. ASSUME sub = "upload", done' PROVE c.op = "OTA_END"
            BY <2>1, <2>4, <3>1 DEF Commits
        <3> QED BY <2>2, <2>4, <2>6, <2>7, <3>1 DEF D
    <2>9. R
        <3>1. \A i \in DOMAIN answer' : answer'[i].ok = ok
            BY <2>1
        <3>2. ASSUME sub = "upload", stage = "OTA_END" PROVE done' = ok
            BY <2>1, <2>4, <3>2 DEF Commits
        <3>3. Replies' = Replies
            BY <2>2 DEF Replies
        <3> QED BY <2>2, <2>7, <3>1, <3>2, <3>3 DEF R
    <2> QED BY <1>k, <1>q, <2>5, <2>6, <2>8, <2>9
<1>9. ASSUME Answer PROVE Committed'
    <2>1. UNCHANGED <<s, sub, file, stage, outcome, asked, toDev, done>> /\ answer' = <<>>
        BY <1>9 DEF Answer
    <2>2. ASSUME outcome = "running", sub = "upload", stage = "OTA_END"
          PROVE  \A i \in Replies' : toCli'[i].ok <=> done'
        <3>1. ~Nothing
            BY <1>0, <1>9, PairAnswer
        <3>2. Awaited(asked)
            BY <1>0, <2>2, <3>1 DEF Pairing, Stages
        <3>3. /\ Replies = {} /\ 1 \in DOMAIN answer /\ Head(answer) = answer[1]
              /\ link = "up" => toCli' = Append(toCli, Head(answer))
              /\ link # "up" => toCli' = toCli
            BY <1>0, <1>9, <3>2, PairAnswer
        <3>4. answer \in Seq(Line)
            BY <1>0, <1>9, PairAnswer
        <3>5. Head(answer) \in Line /\ ~Head(answer).evt /\ (Head(answer).ok <=> done)
            BY <1>0, <2>2, <3>3, <3>4, ElementOfSeq DEF Stages, Committed
        <3>6. CASE link = "up"
            BY <1>0, <2>1, <3>3, <3>5, <3>6, PairAppend
        <3>7. CASE link # "up"
            BY <3>3, <3>7 DEF Replies
        <3> QED BY <3>6, <3>7
    <2>3. R
        BY <2>1, <2>2, EmptySeq DEF R
    <2> QED BY <1>k, <1>q, <2>1, <2>3
<1>10. ASSUME Leave \/ Down PROVE Committed'
    <2>1. UNCHANGED <<sub, file, stage, outcome, asked, toCli, done>> /\ toDev' = <<>> /\ answer' = <<>>
        BY <1>10 DEF Leave, Down
    <2>2. ~s'.active
        BY <1>0, <1>10, AbortFacts DEF Leave, Down, Disconnect, Restart, Crash, GoDown, Idle
    <2>3. R
        BY <2>1, <1>r DEF Replies
    <2> QED BY <1>k, <1>q, <2>1, <2>2, <2>3
<1>11. ASSUME Emit PROVE Committed'
    <2>1. UNCHANGED <<s, sub, file, stage, outcome, asked, toDev, answer, done>>
        BY <1>11 DEF Emit
    <2>2. R
        BY <1>0, <1>11, <2>1, <1>r, PairEmit
    <2> QED BY <1>k, <1>q, <2>1, <2>2
<1>12. ASSUME Break \/ BootAgain \/ UNCHANGED all PROVE Committed'
    <2>1. UNCHANGED <<s, sub, file, stage, outcome, asked, toDev, toCli, answer, done>>
        BY <1>12 DEF Break, BootAgain, Boot
    <2>2. R
        BY <2>1, <1>r DEF Replies
    <2> QED BY <1>k, <1>q, <2>1, <2>2
<1> QED BY <1>1, <1>2, <1>3, <1>4, <1>5, <1>6, <1>7, <1>8, <1>9, <1>10, <1>11, <1>12
        DEF CtlNext, User, ClientStep

LEMMA OffsetsStep ==
    ASSUME CtlInv, [CtlNext]_all
    PROVE  Offsets'
<1> DEFINE U == outcome' = "running" /\ link' = "up" /\ sub' = "upload"
           S == stage' # "OTA_BEGIN" /\ (asked' = "none" \/ toDev' # <<>>) => At(sent)'
           A == \A i \in DOMAIN answer' : answer'[i].ok => At(Told)'
           C == \A i \in Replies' : toCli'[i].ok => At(Told)'
<1>0. CtlTypeOK /\ Stages /\ Pairing /\ Committed /\ Offsets
    BY DEF CtlInv
<1>q. ASSUME U => S /\ (stage' # "OTA_END" => A /\ C) PROVE Offsets'
    BY <1>q DEF Offsets
<1>k. ASSUME UNCHANGED <<s, sub, outcome, file, stage, sent, asked, toDev, answer>>,
             link' = "up" => link = "up",
             \A i \in Replies' : \E j \in Replies : toCli'[i] = toCli[j]
      PROVE  Offsets'
    <2>1. At(sent)' = At(sent) /\ At(Told)' = At(Told)
        BY <1>k DEF At, Told, Acknowledged, Chunk
    <2>2. ASSUME U PROVE S /\ (stage' # "OTA_END" => A /\ C)
        BY <1>0, <1>k, <2>1, <2>2 DEF Offsets
    <2> QED BY <1>q, <2>2
<1> HIDE DEF S, A, C
<1>x. ASSUME ~U PROVE Offsets'
    BY <1>q, <1>x
<1>1. ASSUME NEW m, NEW f, Run(m, f) PROVE Offsets'
    <2>1. toCli' = <<>> /\ answer' = <<>>
        BY <1>1 DEF Run
    <2>2. A /\ C
        BY <2>1, EmptySeq DEF A, C, Replies
    <2>3. U => S
        BY <1>1 DEF Run, S
    <2> QED BY <1>q, <2>2, <2>3
<1>2. ASSUME GiveUp \/ Quit \/ Kill \/ Interrupt \/ TakeEnd \/ TakeStatus \/ TakeErr \/ TakeShell \/ TakeLogs
      PROVE Offsets'
    <2>1. CASE Interrupt /\ ~Exit("ok")
        BY <1>0, <1>x, <2>1 DEF Interrupt, Stages
    <2>2. CASE Exit("ok") \/ Exit("unknown") \/ TakeStatus \/ TakeErr \/ TakeShell \/ TakeLogs
        BY <1>x, <2>2 DEF Exit, TakeStatus, TakeErr, TakeShell, TakeLogs, Status
    <2> QED BY <1>2, <2>1, <2>2 DEF GiveUp, Quit, Kill, TakeEnd
<1>3. ASSUME SendSingle \/ SendLogs \/ SendUpload PROVE Offsets'
    <2>1. PICK op \in Ops, n \in Nat : Send(op, n)
        BY <1>3, SendFacts
    <2>2. /\ UNCHANGED <<s, sub, outcome, file, stage, sent, answer, toCli>> /\ asked = "none"
          /\ link' = "up" => link = "up"
        BY <2>1 DEF Send
    <2>3. Nothing
        BY <1>3, SendFacts
    <2>4. A /\ C
        BY <2>2, <2>3, EmptySeq DEF A, C, Nothing, Replies
    <2>5. U => S
        BY <1>0, <2>2 DEF S, Offsets, At
    <2> QED BY <1>q, <2>4, <2>5
<1>4. ASSUME TakeEvent PROVE Offsets'
    <2>1. UNCHANGED <<s, sub, outcome, file, stage, sent, asked, link, toDev, answer>> /\ Take
        BY <1>4 DEF TakeEvent
    <2>2. \A i \in Replies' : i + 1 \in Replies /\ toCli'[i] = toCli[i + 1]
        BY <1>0, <2>1, RepliesTail
    <2> QED BY <1>k, <2>1, <2>2
<1>5. ASSUME TakeOk PROVE Offsets'
    <2>1. /\ UNCHANGED <<s, sub, outcome, file, link, toDev, answer>>
          /\ outcome = "running" /\ sub = "upload" /\ asked \in {"OTA_BEGIN", "OTA_DATA"}
          /\ Head(toCli).ok
          /\ sent' = IF asked = "OTA_DATA" THEN Acknowledged ELSE sent
        BY <1>5 DEF TakeOk, Reply, Take
    <2>2. asked = stage
        BY <1>0, <2>1 DEF Stages
    <2>3. answer' = <<>> /\ Nothing' /\ 1 \in Replies /\ Head(toCli) = toCli[1]
        BY <1>5, ReplyFacts DEF TakeOk, Reply
    <2>4. A /\ C
        BY <2>3, EmptySeq DEF A, C, Nothing
    <2>5. U => At(Told)
        BY <1>0, <2>1, <2>2, <2>3 DEF Offsets
    <2>6. At(Told) => At(sent)'
        BY <2>1, <2>2 DEF At, Told
    <2> QED BY <1>q, <2>4, <2>5, <2>6 DEF S
<1>6. ASSUME Handle, U PROVE Offsets'
    <2> DEFINE c == Head(toDev)
    <2>1. PICK ok \in BOOLEAN :
                /\ IF ok THEN Does(c) ELSE Fails(c)
                /\ answer' = <<[evt |-> FALSE, op |-> c.op, ok |-> ok]>>
        BY <1>6, HandleFacts
    <2>2. /\ UNCHANGED <<sub, outcome, file, stage, sent, asked, link, toCli>>
          /\ toDev # <<>> /\ toDev' = Tail(toDev)
        BY <1>6, HandleFacts
    <2>3. /\ c.op = stage
          /\ c.op = "OTA_BEGIN" => c.n = file.size
          /\ stage = "OTA_DATA" => c.n = Chunk
          /\ toDev' = <<>>
        BY <1>0, <1>6, <2>2, HandleFacts DEF Stages
    <2> HIDE DEF c
    <2>4. asked # "none" /\ Replies' = {}
        <3>1. ~Nothing
            BY <2>2 DEF Nothing
        <3>2. asked # "none" /\ Awaited(asked)
            BY <1>0, <1>6, <2>2, <3>1 DEF Pairing, Stages
        <3>3. Replies' = Replies
            BY <2>2 DEF Replies
        <3> QED BY <1>6, <3>2, <3>3, PairHandle
    <2>5. S /\ C
        BY <2>2, <2>3, <2>4 DEF S, C
    <2>6. Told' = Told
        BY <2>2 DEF Told, Acknowledged, Chunk
    <2>7. ASSUME ok, stage = "OTA_BEGIN" PROVE At(Told)'
        <3>1. sent = 0 /\ Told = sent
            BY <1>0, <2>7 DEF Stages, Told
        <3> QED BY <2>1, <2>2, <2>3, <2>6, <2>7, <3>1, Effect DEF At
    <2>8. ASSUME ok, stage = "OTA_DATA" PROVE At(Told)'
        <3>1. At(sent)
            BY <1>0, <1>6, <2>2, <2>8 DEF Offsets
        <3>2. Told = sent + c.n
            BY <2>3, <2>8 DEF Told, Acknowledged
        <3> QED BY <2>1, <2>2, <2>3, <2>6, <2>8, <3>1, <3>2, Effect DEF At
    <2>9. \A i \in DOMAIN answer' : answer'[i].ok = ok
        BY <2>1
    <2>10. stage' # "OTA_END" => A
        <3>1. sub = "upload" => stage \in {"OTA_BEGIN", "OTA_DATA", "OTA_END"}
            BY <1>0 DEF Stages
        <3> QED BY <1>6, <2>2, <2>7, <2>8, <2>9, <3>1 DEF A
    <2> QED BY <1>q, <2>5, <2>10
<1>7. ASSUME Answer, U PROVE Offsets'
    <2>1. UNCHANGED <<s, sub, file, stage, sent, outcome, asked, link, toDev>> /\ answer' = <<>>
        BY <1>7 DEF Answer
    <2>2. At(sent)' = At(sent) /\ At(Told)' = At(Told)
        BY <2>1 DEF At, Told, Acknowledged, Chunk
    <2>3. S
        BY <1>0, <1>7, <2>1, <2>2 DEF S, Offsets
    <2>4. Awaited(asked)
        <3>1. ~Nothing
            BY <1>0, <1>7, PairAnswer
        <3> QED BY <1>0, <1>7, <2>1, <3>1 DEF Pairing, Stages
    <2>5. /\ Replies = {} /\ 1 \in DOMAIN answer /\ Head(answer) = answer[1] /\ answer \in Seq(Line)
          /\ toCli' = Append(toCli, Head(answer))
        BY <1>0, <1>7, <2>1, <2>4, PairAnswer
    <2>6. Head(answer) \in Line /\ ~Head(answer).evt
        BY <1>0, <2>5, ElementOfSeq DEF Stages
    <2>7. Replies' = {Len(toCli) + 1} /\ toCli'[Len(toCli) + 1] = Head(answer)
        BY <1>0, <2>5, <2>6, PairAppend
    <2>8. stage' # "OTA_END" => C
        BY <1>0, <1>7, <2>1, <2>2, <2>5, <2>7 DEF C, Offsets
    <2>9. A
        BY <2>1, EmptySeq DEF A
    <2> QED BY <1>q, <2>3, <2>8, <2>9
<1>8. ASSUME Leave \/ Down \/ Break PROVE Offsets'
    BY <1>8, <1>x DEF Leave, Down, Break
<1>9. ASSUME Emit PROVE Offsets'
    BY <1>0, <1>9, <1>k, PairEmit DEF Emit
<1>10. ASSUME BootAgain \/ UNCHANGED all PROVE Offsets'
    <2>1. UNCHANGED <<s, sub, file, stage, sent, outcome, asked, link, toDev, toCli, answer>>
        BY <1>10 DEF BootAgain, Boot
    <2> QED BY <1>k, <2>1 DEF Replies
<1> QED BY <1>x, <1>1, <1>2, <1>3, <1>4, <1>5, <1>6, <1>7, <1>8, <1>9, <1>10
        DEF CtlNext, User, ClientStep

-----------------------------------------------------------------------------
(* Theorems.                                                               *)

LEMMA CtlInitInv == CtlInit => CtlInv
<1> SUFFICES ASSUME CtlInit PROVE CtlInv
    OBVIOUS
<1>1. Inv
    BY InitInv DEF CtlInit
<1>2. ~s.active
    BY DEF CtlInit, Init, Idle
<1>3. <<>> \in Seq(Cmd) /\ <<>> \in Seq(Line)
    BY EmptySeq
<1>4. CtlTypeOK
    <2>1. sent \in 0..file.size
        BY DEF CtlInit, NoFile
    <2>2. runs \in 0..MaxRuns
        BY DEF CtlInit
    <2>3. toDev \in Seq(Cmd) /\ toCli \in Seq(Line) /\ answer \in Seq(Line)
        BY <1>3, Zenon DEF CtlInit
    <2> QED BY <1>1, <2>1, <2>2, <2>3 DEF CtlInit, CtlTypeOK, Inv
<1>5. Stages
    BY EmptySeq DEF CtlInit, Stages
<1>6. Pairing /\ Committed /\ Offsets /\ Laid
    BY <1>2 DEF CtlInit, Pairing, Committed, Offsets, Laid
<1> QED BY <1>1, <1>4, <1>5, <1>6 DEF CtlInv

\* The invariant of the client and its device holds in every reachable state.
THEOREM CtlInvariance == CtlSpec => []CtlInv
<1>1. CtlInv /\ [CtlNext]_all => CtlInv'
    BY DeviceInv, CtlTypeStep, StagesStep, PairingStep, CommittedStep, OffsetsStep, LaidStep DEF CtlInv
<1> QED BY CtlInitInv, <1>1, PTL DEF CtlSpec

\* The device the client drives is that of Ota: every step of the composition
\* is one of ota.c's or leaves the device alone (net.c 403-429).
THEOREM DeviceIsOta == CtlSpec => Spec
<1>1. CtlInit => Init
    BY DEF CtlInit
<1> QED BY <1>1, CtlInvariance, DeviceStep, PTL DEF CtlSpec, Spec

\* Types of the client's variables and of the lines under way.
THEOREM CtlTypeCorrect == CtlSpec => []CtlTypeOK
BY CtlInvariance, PTL DEF CtlInv

\* The client waits for a reply exactly when one, or its command, is under
\* way, whatever events come between (esp-ctl.c 327-338, net.c 403-419).
THEOREM RepliesArePaired == CtlSpec => []OneReplyEach
<1>1. CtlInv => OneReplyEach
    BY DEF CtlInv, Stages, Pairing, OneReplyEach
<1> QED BY <1>1, CtlInvariance, PTL

\* Between chunks both ends count the same bytes (esp-ctl.c 430-447, ota.c
\* 82-92).
THEOREM OffsetsMeet == CtlSpec => []OffsetsAgree
<1>1. CtlInv => OffsetsAgree
    BY DEF CtlInv, Stages, Offsets, OffsetsAgree, At
<1> QED BY <1>1, CtlInvariance, PTL

LEMMA UploadStep ==
    ASSUME CtlInv, [CtlNext]_all
    PROVE  [Abstract!Next]_<<Verdict, file.img, done, installed>>
<1> DEFINE same == UNCHANGED <<Verdict, file.img, done, installed>>
<1>0. CtlTypeOK /\ Stages /\ Pairing /\ Committed
    BY DEF CtlInv
<1>r. ASSUME NEW v \in {"ok", "refused", "unknown"},
             outcome = "running", outcome' = v, UNCHANGED <<sub, file, history>>,
             sub = "upload" => (v = "ok" => done) /\ (v = "refused" => ~done)
      PROVE  [Abstract!Next]_<<Verdict, file.img, done, installed>>
    <2>1. CASE sub = "upload"
        <3>1. Abstract!Report(v)
            BY <1>r, <2>1 DEF Abstract!Report, Verdict
        <3> QED BY <3>1 DEF Abstract!Next
    <2>2. CASE sub # "upload"
        BY <1>r, <2>2 DEF Verdict
    <2> QED BY <2>1, <2>2
<1>k. ASSUME UNCHANGED <<sub, outcome, file, history>> PROVE same
    BY <1>k DEF Verdict
<1>1. ASSUME NEW m \in {"shot", "shell", "logs", "upload"}, NEW f, Run(m, f), m = "upload" => f \in Files
      PROVE  Abstract!Next
    <2>1. CASE m = "upload"
        <3>1. Abstract!Start(f.img)
            BY <1>1, <2>1 DEF Run, Abstract!Start, Verdict
        <3> QED BY <1>1, <2>1, <3>1 DEF Abstract!Next
    <2>2. CASE m # "upload"
        <3>1. Abstract!Forget
            BY <1>1, <2>2 DEF Run, Abstract!Forget, Verdict
        <3> QED BY <3>1 DEF Abstract!Next
    <2> QED BY <2>1, <2>2
<1>2. ASSUME GiveUp \/ Quit \/ Kill \/ Interrupt \/ TakeEnd
      PROVE  [Abstract!Next]_<<Verdict, file.img, done, installed>>
    <2>1. outcome = "running"
        BY <1>2 DEF GiveUp, Quit, Kill, Interrupt, TakeEnd
    <2>2. CASE Exit("unknown")
        BY <1>r, <2>1, <2>2 DEF Exit
    <2>3. CASE Exit("ok") /\ (Quit \/ Interrupt)
        <3>1. sub # "upload"
            BY <1>0, <2>3 DEF Quit, Interrupt, Stages
        <3> QED BY <1>r, <2>1, <2>3, <3>1 DEF Exit
    <2>4. CASE Interrupt /\ ~Exit("ok")
        BY <1>k, <2>4 DEF Interrupt
    <2> QED BY <1>2, <2>2, <2>3, <2>4 DEF GiveUp, Quit, Kill, TakeEnd
<1>3. ASSUME TakeStatus PROVE [Abstract!Next]_<<Verdict, file.img, done, installed>>
    <2>1. /\ outcome = "running" /\ outcome' = Status(Head(toCli)) /\ UNCHANGED <<sub, file, history>>
          /\ ~Head(toCli).evt /\ (sub = "upload" => asked = "OTA_END")
        BY <1>3 DEF TakeStatus, Reply, Take, Skips
    <2>2. Status(Head(toCli)) \in {"ok", "refused", "unknown"}
        BY DEF Status
    <2>3. ASSUME sub = "upload" PROVE Head(toCli).ok <=> done
        <3>1. 1 \in Replies /\ Head(toCli) = toCli[1]
            BY <1>3, ReplyFacts DEF TakeStatus, Reply, Single
        <3>2. stage = "OTA_END"
            BY <1>0, <2>1, <2>3 DEF Stages
        <3> QED BY <1>0, <2>1, <2>3, <3>1, <3>2 DEF Committed
    <2>4. sub = "upload" => (outcome' = "ok" => done) /\ (outcome' = "refused" => ~done)
        BY <2>1, <2>3 DEF Status
    <2> QED BY <1>r, <2>1, <2>2, <2>4
<1>4. ASSUME TakeErr PROVE [Abstract!Next]_<<Verdict, file.img, done, installed>>
    <2>1. /\ outcome = "running" /\ outcome' = "refused" /\ UNCHANGED <<sub, file, history>>
          /\ asked \in {"OTA_BEGIN", "OTA_DATA"}
        BY <1>4 DEF TakeErr, Reply, Take
    <2>2. sub = "upload" => ~done
        BY <1>0, <2>1 DEF Committed
    <2> QED BY <1>r, <2>1, <2>2
<1>5. ASSUME SendSingle \/ SendLogs \/ SendUpload \/ TakeEvent \/ TakeShell \/ TakeOk
      PROVE  same
    BY <1>5, <1>k DEF SendSingle, SendLogs, SendUpload, Send, TakeEvent, TakeShell, TakeOk
<1>6. ASSUME TakeLogs PROVE same
    BY <1>6 DEF TakeLogs, Verdict
<1>7. ASSUME Handle PROVE [Abstract!Next]_<<Verdict, file.img, done, installed>>
    <2> DEFINE c == Head(toDev)
    <2>1. PICK ok \in BOOLEAN :
                /\ IF ok THEN Does(c) ELSE Fails(c)
                /\ done' = (done \/ Commits(c, ok))
                /\ installed' = IF Commits(c, ok) THEN Holds(flash[s.part]) ELSE installed
        BY <1>7, HandleFacts
    <2>2. UNCHANGED <<sub, outcome, file>> /\ toDev # <<>>
        BY <1>7, HandleFacts
    <2> HIDE DEF c
    <2>3. CASE Commits(c, ok)
        <3>1. s.active /\ Holds(flash[s.part]) = file.img
            BY <2>1, <2>3, Effect
        <3>2. sub = "upload" /\ ~done /\ outcome \in {"running", "unknown"}
            BY <1>0, <2>2, <3>1 DEF Committed
        <3>3. Abstract!Install
            BY <2>1, <2>2, <2>3, <3>1, <3>2 DEF Abstract!Install, Verdict
        <3> QED BY <3>3 DEF Abstract!Next
    <2>4. CASE ~Commits(c, ok)
        <3>1. done \in BOOLEAN
            BY <1>0 DEF CtlTypeOK
        <3>2. done' = done
            BY <2>1, <2>4, <3>1
        <3> QED BY <1>k, <2>1, <2>2, <2>4, <3>2
    <2> QED BY <2>3, <2>4
<1>8. ASSUME Answer \/ Leave \/ Emit \/ Break \/ Down \/ BootAgain \/ UNCHANGED all PROVE same
    BY <1>8, <1>k DEF Answer, Leave, Emit, Break, Down, BootAgain
<1> QED BY <1>1, <1>2, <1>3, <1>4, <1>5, <1>6, <1>7, <1>8 DEF CtlNext, User, ClientStep

\* The exit status of `esp-ctl ota upload` tells the truth: 0 only after a
\* commit, 4 only without one, and at most one commit, of the very file
\* (esp-ctl.c 388-454, ota.c 94-116).
THEOREM ImplementsUpload == CtlSpec => IsUpload
<1>1. CtlInit => Abstract!Init
    BY DEF CtlInit, Abstract!Init, Verdict, NoFile
<1> QED BY CtlInvariance, UploadStep, <1>1, PTL DEF CtlSpec, IsUpload, Abstract!Spec
===============================================================================
