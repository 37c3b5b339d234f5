------------------------------ MODULE EventProofs ------------------------------
(***************************************************************************)
(* Proofs about the parts that send events: the watched pins, for any      *)
(* number of pins, slots and queued events (their table, and what a client *)
(* that watches a pin knows), and the streams, for any number of ports,    *)
(* ADC channels and tasks.  A stream's handle stands for its task: it is   *)
(* set when the task is created and cleared by the task's last step, so a  *)
(* start that finds it clear has the channel to itself until it is done.   *)
(***************************************************************************)
EXTENDS GpioWatch, EventStreams, SequenceTheorems, TLAPS

-----------------------------------------------------------------------------
(* The watched pins.                                                       *)

\* The slot of the GPIO_WATCH under way is the pin's, or empty and the pin has
\* none; its interrupt type is set first, and its handler is gone when the new
\* one is added.
CmdInv ==
    cmd.at # "ready" =>
        /\ cmd.pin \in Pins /\ cmd.slot \in Slots
        /\ \/ s_watch[cmd.slot] = cmd.pin
           \/ s_watch[cmd.slot] = Unset /\ \A i \in Slots : s_watch[i] # cmd.pin
        /\ cmd.at = "add" => cmd.pin \notin handler
        /\ trigger[cmd.pin] = IntrType[cmd.edge]

InIsr(p) == isr # Unset /\ isr[1] = p

\* The newest event of a pin in the queue.
IsLast(i, p) ==
    /\ s_evt_q[i][1] = p
    /\ \A j \in 1..Len(s_evt_q) : i < j => s_evt_q[j][1] # p

\* The newest word of a pin is its level: the event about to be queued, else
\* the last one queued, else the last one sent.
NewestIsLevel(p) ==
    /\ InIsr(p) => isr[2] = level[p]
    /\ ~InIsr(p) => \A i \in 1..Len(s_evt_q) : IsLast(i, p) => s_evt_q[i][2] = level[p]
    /\ ~InFlight(p) => seen[p] = level[p]

\* A pin that is watched interrupts on both edges and no command is at it; once
\* it had an edge its newest word is out of date only while an interrupt is to
\* come.
KeptInv ==
    /\ \A p \in watched :
          /\ p \in handler /\ trigger[p] = "anyedge"
          /\ cmd.at # "ready" => cmd.pin # p
    /\ \A p \in kept : p \notin pending => NewestIsLevel(p)

GpioInv == GpioTypeOK /\ WatchTableAgrees /\ CmdInv /\ KeptInv

-----------------------------------------------------------------------------

LEMMA GpioConstants ==
    /\ EVT_Q_LEN \in Nat
    /\ Unset \notin Pins /\ Unset \notin Event /\ Unset # 0 /\ Unset # 1
BY GpioAssumption DEF Event

LEMMA GpioInitial == GpioInit => GpioInv
<1> SUFFICES ASSUME GpioInit PROVE GpioInv
    OBVIOUS
<1>1. s_evt_q \in Seq(Event) /\ Len(s_evt_q) <= EVT_Q_LEN
    BY GpioConstants DEF GpioInit
<1>2. cmd \in [at : {"ready", "remove", "add"}, pin : Pins \cup {Unset},
               edge : Edges, slot : Slots \cup {0}]
    BY DEF GpioInit, NoCmd, Edges
<1>3. GpioTypeOK
    BY <1>1, <1>2 DEF GpioInit, GpioTypeOK
<1>4. WatchTableAgrees
    BY DEF GpioInit, WatchTableAgrees
<1>5. CmdInv /\ KeptInv
    BY DEF GpioInit, CmdInv, KeptInv, NoCmd
<1> QED BY <1>3, <1>4, <1>5 DEF GpioInv

\* What leaves a pin's level, its events and what the client knows of it alone
\* does not touch its newest word.
LEMMA NewestKept ==
    ASSUME NEW p, NewestIsLevel(p), level'[p] = level[p], isr' = isr, s_evt_q' = s_evt_q,
           seen'[p] = seen[p]
    PROVE  NewestIsLevel(p)'
BY DEF NewestIsLevel, InIsr, IsLast, InFlight

-----------------------------------------------------------------------------
(* The commands.                                                           *)

LEMMA SlotForPin ==
    ASSUME NEW p \in Pins, NEW i \in SlotFor(p)
    PROVE  /\ i \in Slots
           /\ s_watch[i] = p \/ (s_watch[i] = Unset /\ \A j \in Slots : s_watch[j] # p)
BY DEF SlotFor

LEMMA WatchStep ==
    ASSUME GpioInv, NEW p \in Pins, NEW e \in Edges, Watch(p, e)
    PROVE  GpioInv'
<1> USE DEF GpioInv
<1>1. PICK i \in SlotFor(p) : cmd' = [at |-> "remove", pin |-> p, edge |-> e, slot |-> i]
    BY DEF Watch
<1>2. i \in Slots /\ (s_watch[i] = p \/ (s_watch[i] = Unset /\ \A j \in Slots : s_watch[j] # p))
    BY SlotForPin
<1>3. /\ watched' = watched \ {p} /\ kept' = kept \ {p}
      /\ seen' = [seen EXCEPT ![p] = Unset]
      /\ trigger' = [trigger EXCEPT ![p] = IntrType[e]]
      /\ s_isr_svc' = TRUE /\ isr_service' \in BOOLEAN
      /\ UNCHANGED <<s_watch, handler, level, pending, isr, s_evt_q>>
    BY DEF Watch, Forget, GpioTypeOK
<1>4. IntrType[e] \in {"posedge", "negedge", "anyedge"}
    BY DEF IntrType, Edges
<1>5. GpioTypeOK'
    BY <1>1, <1>2, <1>3, <1>4 DEF GpioTypeOK
<1>6. WatchTableAgrees'
    BY <1>3 DEF WatchTableAgrees
<1>7. CmdInv'
    BY <1>1, <1>2, <1>3 DEF CmdInv, GpioTypeOK
<1>8. KeptInv'
    <2>1. ASSUME NEW q \in watched, q # p
          PROVE  q \in handler' /\ trigger'[q] = "anyedge" /\ (cmd'.at # "ready" => cmd'.pin # q)
        <3>1. q \in Pins /\ trigger'[q] = trigger[q]
            BY <1>3, <2>1 DEF GpioTypeOK
        <3> QED BY <1>1, <1>3, <2>1, <3>1 DEF KeptInv
    <2>2. ASSUME NEW q \in kept, q # p, q \notin pending' PROVE NewestIsLevel(q)'
        <3>1. q \in Pins /\ seen'[q] = seen[q]
            BY <1>3, <2>2 DEF GpioTypeOK
        <3> QED BY <1>3, <2>2, <3>1, NewestKept DEF KeptInv
    <2> QED BY <1>3, <2>1, <2>2 DEF KeptInv
<1> QED BY <1>5, <1>6, <1>7, <1>8

LEMMA RemoveOldStep ==
    ASSUME GpioInv, RemoveOld
    PROVE  GpioInv'
<1> USE DEF GpioInv
<1>1. /\ cmd.at = "remove" /\ cmd' = [cmd EXCEPT !.at = "add"]
      /\ handler' = handler \ {cmd.pin} /\ pending' = pending \ {cmd.pin}
      /\ UNCHANGED <<s_watch, s_isr_svc, isr_service, trigger, level, isr, s_evt_q,
                     watched, kept, seen>>
    BY DEF RemoveOld
<1>2. cmd'.at = "add" /\ cmd'.pin = cmd.pin /\ cmd'.slot = cmd.slot /\ cmd'.edge = cmd.edge
    BY <1>1 DEF GpioTypeOK
<1>3. GpioTypeOK'
    BY <1>1 DEF GpioTypeOK
<1>4. WatchTableAgrees'
    BY <1>1 DEF WatchTableAgrees
<1>5. CmdInv'
    BY <1>1, <1>2 DEF CmdInv
<1>6. KeptInv'
    <2>1. ASSUME NEW q \in watched
          PROVE  /\ q # cmd.pin
                 /\ q \in handler' /\ trigger'[q] = "anyedge" /\ (cmd'.at # "ready" => cmd'.pin # q)
        BY <1>1, <1>2 DEF KeptInv
    <2>2. ASSUME NEW q \in kept, q \notin pending' PROVE NewestIsLevel(q)'
        <3>1. q # cmd.pin
            BY <2>1 DEF GpioTypeOK
        <3> QED BY <1>1, <2>2, <3>1, NewestKept DEF KeptInv
    <2> QED BY <1>1, <2>1, <2>2 DEF KeptInv
<1> QED BY <1>3, <1>4, <1>5, <1>6

LEMMA AddHandlerStep ==
    ASSUME GpioInv, AddHandler
    PROVE  GpioInv'
<1> USE DEF GpioInv
<1> DEFINE p == cmd.pin
<1>1. /\ cmd.at = "add" /\ cmd' = NoCmd
      /\ handler' = handler \cup {p}
      /\ s_watch' = [s_watch EXCEPT ![cmd.slot] = p]
      /\ watched' = IF cmd.edge = "ANY" THEN watched \cup {p} ELSE watched
      /\ UNCHANGED <<s_isr_svc, isr_service, trigger, level, pending, isr, s_evt_q, kept, seen>>
    BY DEF AddHandler
<1>2. /\ p \in Pins /\ cmd.slot \in Slots /\ p \notin handler
      /\ s_watch[cmd.slot] = p \/ (s_watch[cmd.slot] = Unset /\ \A i \in Slots : s_watch[i] # p)
      /\ trigger[p] = IntrType[cmd.edge]
    BY <1>1 DEF CmdInv
<1>3. p # Unset /\ cmd'.at = "ready"
    BY <1>1, <1>2, GpioConstants DEF NoCmd
<1>4. watched' \subseteq Pins /\ kept' \subseteq watched' /\ seen' \in [Pins -> {0, 1, Unset}]
    BY <1>1, <1>2 DEF GpioTypeOK
<1>5. cmd' \in [at : {"ready", "remove", "add"}, pin : Pins \cup {Unset},
                edge : Edges, slot : Slots \cup {0}]
    BY <1>1 DEF NoCmd, Edges
<1>6. GpioTypeOK'
    BY <1>1, <1>2, <1>4, <1>5 DEF GpioTypeOK
<1>7. WatchTableAgrees'
    <2>1. \A i \in Slots : s_watch'[i] = IF i = cmd.slot THEN p ELSE s_watch[i]
        BY <1>1, <1>2 DEF GpioTypeOK
    <2>2. \A i, j \in Slots : s_watch'[i] = s_watch'[j] => i = j \/ s_watch'[i] = Unset
        BY <1>2, <1>3, <2>1 DEF WatchTableAgrees
    <2>3. ASSUME NEW q \in handler' PROVE \E i \in Slots : s_watch'[i] = q
        <3>1. CASE q = p
            BY <1>2, <2>1, <3>1
        <3>2. CASE q # p
            <4>1. q \in handler /\ q \in Pins /\ q # Unset
                BY <1>1, <3>2, GpioConstants DEF GpioTypeOK
            <4>2. PICK i \in Slots : s_watch[i] = q
                BY <4>1 DEF WatchTableAgrees
            <4>3. i # cmd.slot
                BY <1>2, <3>2, <4>1, <4>2
            <4> QED BY <2>1, <4>2, <4>3
        <3> QED BY <3>1, <3>2
    <2> QED BY <2>2, <2>3 DEF WatchTableAgrees
<1>8. CmdInv'
    BY <1>3 DEF CmdInv
<1>9. KeptInv'
    <2>1. ASSUME NEW q \in watched' PROVE q \in handler' /\ trigger'[q] = "anyedge"
        <3>1. CASE q \in watched
            BY <1>1, <3>1 DEF KeptInv
        <3>2. CASE q \notin watched
            <4>1. q = p /\ cmd.edge = "ANY"
                BY <1>1, <2>1, <3>2
            <4> QED BY <1>1, <1>2, <4>1 DEF IntrType
        <3> QED BY <3>1, <3>2
    <2>2. ASSUME NEW q \in kept, q \notin pending' PROVE NewestIsLevel(q)'
        BY <1>1, <2>2, NewestKept DEF KeptInv
    <2> QED BY <1>1, <1>3, <2>1, <2>2 DEF KeptInv
<1> QED BY <1>6, <1>7, <1>8, <1>9

LEMMA AddFailsStep ==
    ASSUME GpioInv, AddFails
    PROVE  GpioInv'
<1> USE DEF GpioInv
<1>1. /\ cmd' = NoCmd /\ cmd'.at = "ready"
      /\ UNCHANGED <<s_watch, s_isr_svc, isr_service, handler, trigger, level,
                     pending, isr, s_evt_q, watched, kept, seen>>
    BY DEF AddFails, NoCmd
<1>2. GpioTypeOK'
    BY <1>1 DEF GpioTypeOK, NoCmd, Edges
<1>3. WatchTableAgrees' /\ CmdInv'
    BY <1>1 DEF WatchTableAgrees, CmdInv
<1>4. KeptInv'
    BY <1>1, NewestKept DEF KeptInv
<1> QED BY <1>2, <1>3, <1>4

\* What GPIO_UNWATCH and GPIO_MODE share: the client forgets one pin, whose
\* handler may go, and the others' are left alone.
LEMMA ForgottenPin ==
    ASSUME GpioInv, NEW p \in Pins, cmd.at = "ready", cmd' = cmd, Forget(p),
           \A q \in Pins : q # p => /\ q \in handler => q \in handler'
                                    /\ trigger'[q] = trigger[q]
                                    /\ q \in pending => q \in pending',
           UNCHANGED <<level, isr, s_evt_q>>
    PROVE  /\ KeptInv' /\ CmdInv'
           /\ watched' \subseteq Pins /\ kept' \subseteq watched' /\ seen' \in [Pins -> {0, 1, Unset}]
<1> USE DEF GpioInv
<1>1. watched' = watched \ {p} /\ kept' = kept \ {p} /\ seen' = [seen EXCEPT ![p] = Unset]
    BY DEF Forget
<1>2. ASSUME NEW q \in watched, q # p PROVE q \in handler' /\ trigger'[q] = "anyedge"
    BY <1>2 DEF KeptInv, GpioTypeOK
<1>3. ASSUME NEW q \in kept, q # p, q \notin pending' PROVE NewestIsLevel(q)'
    <2>1. q \in Pins /\ q \notin pending /\ seen'[q] = seen[q]
        BY <1>1, <1>3 DEF GpioTypeOK
    <2> QED BY <1>3, <2>1, NewestKept DEF KeptInv
<1>4. KeptInv'
    BY <1>1, <1>2, <1>3 DEF KeptInv
<1> QED BY <1>1, <1>4 DEF CmdInv, GpioTypeOK

LEMMA UnwatchStep ==
    ASSUME GpioInv, NEW p \in Pins, Unwatch(p)
    PROVE  GpioInv'
<1> USE DEF GpioInv
<1>1. /\ cmd.at = "ready" /\ handler' = handler \ {p} /\ pending' = pending \ {p}
      /\ trigger' = [trigger EXCEPT ![p] = "disable"]
      /\ s_watch' = [i \in Slots |-> IF s_watch[i] = p THEN Unset ELSE s_watch[i]]
      /\ Forget(p)
      /\ UNCHANGED <<s_isr_svc, isr_service, level, isr, s_evt_q, cmd>>
    BY DEF Unwatch
<1>2. /\ KeptInv' /\ CmdInv'
      /\ watched' \subseteq Pins /\ kept' \subseteq watched' /\ seen' \in [Pins -> {0, 1, Unset}]
    <2>1. \A q \in Pins : q # p => /\ q \in handler => q \in handler'
                                   /\ trigger'[q] = trigger[q]
                                   /\ q \in pending => q \in pending'
        BY <1>1 DEF GpioTypeOK
    <2> QED BY <1>1, <2>1, ForgottenPin
<1>3. GpioTypeOK'
    BY <1>1, <1>2 DEF GpioTypeOK
<1>4. WatchTableAgrees'
    BY <1>1 DEF WatchTableAgrees
<1> QED BY <1>2, <1>3, <1>4

LEMMA ModeStep ==
    ASSUME GpioInv, NEW p \in Pins, Mode(p)
    PROVE  GpioInv'
<1> USE DEF GpioInv
<1>1. /\ cmd.at = "ready" /\ pending' = pending \ {p}
      /\ trigger' = [trigger EXCEPT ![p] = "disable"]
      /\ Forget(p)
      /\ UNCHANGED <<s_watch, s_isr_svc, isr_service, handler, level, isr, s_evt_q, cmd>>
    BY DEF Mode
<1>2. /\ KeptInv' /\ CmdInv'
      /\ watched' \subseteq Pins /\ kept' \subseteq watched' /\ seen' \in [Pins -> {0, 1, Unset}]
    <2>1. \A q \in Pins : q # p => /\ q \in handler => q \in handler'
                                   /\ trigger'[q] = trigger[q]
                                   /\ q \in pending => q \in pending'
        BY <1>1 DEF GpioTypeOK
    <2> QED BY <1>1, <2>1, ForgottenPin
<1>3. GpioTypeOK'
    BY <1>1, <1>2 DEF GpioTypeOK
<1>4. WatchTableAgrees'
    BY <1>1 DEF WatchTableAgrees
<1> QED BY <1>2, <1>3, <1>4

-----------------------------------------------------------------------------
(* Edges, the interrupt and the task.                                      *)

LEMMA SetLevelStep ==
    ASSUME GpioInv, NEW p \in Pins, NEW l \in {0, 1}, SetLevel(p, l)
    PROVE  GpioInv'
<1> USE DEF GpioInv
<1>1. /\ level' = [level EXCEPT ![p] = l]
      /\ pending' = IF Fires(p, l) THEN pending \cup {p} ELSE pending
      /\ UNCHANGED <<s_watch, s_isr_svc, isr_service, handler, trigger, cmd,
                     isr, s_evt_q, watched, seen>>
      /\ kept' = IF p \in watched THEN kept \cup {p} ELSE kept
    BY DEF SetLevel, gpioCmd
<1>2. GpioTypeOK'
    BY <1>1 DEF GpioTypeOK, Fires
<1>3. WatchTableAgrees' /\ CmdInv'
    BY <1>1 DEF WatchTableAgrees, CmdInv
<1>4. KeptInv'
    <2>1. ASSUME NEW q \in kept', q \notin pending' PROVE NewestIsLevel(q)'
        <3>1. q \in watched /\ q \in handler /\ trigger[q] = "anyedge"
            BY <1>1, <2>1 DEF KeptInv, GpioTypeOK
        <3>2. q # p
            BY <1>1, <2>1, <3>1 DEF Fires
        <3>3. q \in kept /\ q \notin pending /\ level'[q] = level[q]
            BY <1>1, <2>1, <3>2 DEF GpioTypeOK
        <3> QED BY <1>1, <3>3, NewestKept DEF KeptInv
    <2> QED BY <1>1, <2>1 DEF KeptInv
<1> QED BY <1>2, <1>3, <1>4

LEMMA EnterIsrStep ==
    ASSUME GpioInv, NEW p \in Pins, EnterIsr(p)
    PROVE  GpioInv'
<1> USE DEF GpioInv
<1>1. /\ isr = Unset /\ pending' = pending \ {p} /\ isr' = <<p, level[p]>>
      /\ UNCHANGED <<s_watch, s_isr_svc, isr_service, handler, trigger, cmd,
                     level, s_evt_q, watched, kept, seen>>
    BY DEF EnterIsr, gpioCmd
<1>2. isr' \in Event /\ isr' # Unset
    <2>1. isr' \in Event
        BY <1>1 DEF GpioTypeOK, Event
    <2> QED BY <2>1, GpioConstants
<1>3. GpioTypeOK'
    BY <1>1, <1>2 DEF GpioTypeOK
<1>4. WatchTableAgrees' /\ CmdInv'
    BY <1>1 DEF WatchTableAgrees, CmdInv
<1>5. KeptInv'
    <2> SUFFICES ASSUME NEW q \in kept, q \notin pending' PROVE NewestIsLevel(q)'
        BY <1>1 DEF KeptInv
    <2>1. CASE q = p
        <3>1. isr'[1] = q /\ isr'[2] = level'[q]
            BY <1>1, <2>1
        <3> QED BY <1>2, <3>1 DEF NewestIsLevel, InIsr, InFlight
    <2>2. CASE q # p
        <3>1. NewestIsLevel(q)
            BY <1>1, <2>2 DEF KeptInv
        <3>2. ~InIsr(q) /\ ~InIsr(q)'
            BY <1>1, <2>2 DEF InIsr
        <3> QED BY <1>1, <3>1, <3>2 DEF NewestIsLevel, InIsr, IsLast, InFlight
    <2> QED BY <2>1, <2>2
<1> QED BY <1>3, <1>4, <1>5

LEMMA SendFromIsrStep ==
    ASSUME GpioInv, SendFromIsr
    PROVE  GpioInv'
<1> USE DEF GpioInv
<1> DEFINE r == isr[1]
           n == Len(s_evt_q)
<1>1. /\ isr # Unset /\ isr' = Unset /\ isr \in Event /\ r \in Pins
      /\ UNCHANGED <<s_watch, s_isr_svc, isr_service, handler, trigger, cmd, level, pending,
                     watched>>
    BY DEF SendFromIsr, GpioTypeOK, gpioCmd, Event
<1>2. WatchTableAgrees' /\ CmdInv'
    BY <1>1 DEF WatchTableAgrees, CmdInv
<1>3. CASE n < EVT_Q_LEN
    <2>1. s_evt_q' = Append(s_evt_q, isr) /\ UNCHANGED <<kept, seen>>
        BY <1>3 DEF SendFromIsr
    <2>2. s_evt_q \in Seq(Event) /\ n \in Nat
        BY LenProperties DEF GpioTypeOK
    <2>3. /\ s_evt_q' \in Seq(Event) /\ Len(s_evt_q') = n + 1
          /\ s_evt_q'[n + 1] = isr
          /\ \A i \in 1..n : s_evt_q'[i] = s_evt_q[i]
        BY <1>1, <2>1, <2>2, AppendProperties
    <2>4. GpioTypeOK'
        <3>1. Len(s_evt_q') <= EVT_Q_LEN
            BY <1>3, <2>2, <2>3, GpioConstants
        <3> QED BY <1>1, <2>1, <2>3, <3>1 DEF GpioTypeOK
    <2>5. KeptInv'
        <3> SUFFICES ASSUME NEW q \in kept, q \notin pending PROVE NewestIsLevel(q)'
            BY <1>1, <2>1 DEF KeptInv
        <3>1. NewestIsLevel(q) /\ ~InIsr(q)'
            BY <1>1 DEF KeptInv, InIsr
        <3>2. CASE q = r
            <4>1. isr[2] = level[q]
                BY <1>1, <3>1, <3>2 DEF NewestIsLevel, InIsr
            <4>2. ASSUME NEW i \in 1..Len(s_evt_q'), IsLast(i, q)'
                  PROVE  s_evt_q'[i][2] = level'[q]
                <5>1. i = n + 1
                    BY <2>2, <2>3, <3>2, <4>2 DEF IsLast
                <5> QED BY <1>1, <2>3, <4>1, <5>1
            <4>3. InFlight(q)'
                <5>1. n + 1 \in 1..Len(s_evt_q')
                    BY <2>2, <2>3
                <5> QED BY <2>3, <3>2, <5>1 DEF InFlight
            <4> QED BY <3>1, <4>2, <4>3 DEF NewestIsLevel
        <3>3. CASE q # r
            <4>1. ~InIsr(q)
                BY <3>3 DEF InIsr
            <4>2. ASSUME NEW i \in 1..Len(s_evt_q'), IsLast(i, q)'
                  PROVE  s_evt_q'[i][2] = level'[q]
                <5>1. i \in 1..n
                    BY <2>2, <2>3, <3>3, <4>2 DEF IsLast
                <5>2. IsLast(i, q)
                    BY <2>2, <2>3, <4>2, <5>1 DEF IsLast
                <5> QED BY <1>1, <2>3, <3>1, <4>1, <5>1, <5>2 DEF NewestIsLevel
            <4>3. ASSUME ~InFlight(q)' PROVE ~InFlight(q)
                <5>1. \A i \in 1..n : s_evt_q[i][1] # q
                    <6> TAKE i \in 1..n
                    <6>1. i \in 1..Len(s_evt_q')
                        BY <2>2, <2>3
                    <6> QED BY <2>3, <4>3, <6>1 DEF InFlight
                <5> QED BY <3>3, <5>1 DEF InFlight
            <4> QED BY <1>1, <2>1, <3>1, <4>1, <4>2, <4>3 DEF NewestIsLevel
        <3> QED BY <3>2, <3>3
    <2> QED BY <1>2, <2>4, <2>5
<1>4. CASE ~(n < EVT_Q_LEN)
    <2>1. s_evt_q' = s_evt_q /\ kept' = kept \ {r} /\ seen' = [seen EXCEPT ![r] = Unset]
        BY <1>4 DEF SendFromIsr
    <2>2. GpioTypeOK'
        BY <1>1, <2>1 DEF GpioTypeOK
    <2>3. KeptInv'
        <3> SUFFICES ASSUME NEW q \in kept, q # r, q \notin pending PROVE NewestIsLevel(q)'
            BY <1>1, <2>1 DEF KeptInv
        <3>1. NewestIsLevel(q) /\ ~InIsr(q) /\ ~InIsr(q)' /\ seen'[q] = seen[q]
            BY <1>1, <2>1 DEF KeptInv, InIsr, GpioTypeOK
        <3> QED BY <1>1, <2>1, <3>1 DEF NewestIsLevel, InIsr, IsLast, InFlight
    <2> QED BY <1>2, <2>2, <2>3
<1> QED BY <1>3, <1>4

LEMMA WatchTaskStep ==
    ASSUME GpioInv, WatchTask
    PROVE  GpioInv'
<1> USE DEF GpioInv
<1> DEFINE e == s_evt_q[1]
           n == Len(s_evt_q)
<1>1. /\ s_evt_q # <<>> /\ s_evt_q' = Tail(s_evt_q) /\ Head(s_evt_q) = e
      /\ seen' = IF e[1] \in kept THEN [seen EXCEPT ![e[1]] = e[2]] ELSE seen
      /\ UNCHANGED <<s_watch, s_isr_svc, isr_service, handler, trigger, cmd,
                     level, pending, isr, watched, kept>>
    <2>1. Head(s_evt_q) = e
        OBVIOUS
    <2> QED BY <2>1 DEF WatchTask, gpioCmd
<1>2. /\ n \in Nat /\ 1 \in 1..n /\ s_evt_q' \in Seq(Event) /\ Len(s_evt_q') = n - 1
      /\ \A i \in 1..Len(s_evt_q') : s_evt_q'[i] = s_evt_q[i + 1]
      /\ e \in Event
    <2>1. s_evt_q \in Seq(Event) /\ n \in Nat
        BY LenProperties DEF GpioTypeOK
    <2> QED BY <1>1, <2>1, HeadTailProperties
<1>3. e[1] \in Pins /\ e[2] \in {0, 1}
    BY <1>2 DEF Event
<1>4. GpioTypeOK'
    <2>1. Len(s_evt_q') <= EVT_Q_LEN
        BY <1>2, GpioConstants DEF GpioTypeOK
    <2>2. seen' \in [Pins -> {0, 1, Unset}]
        BY <1>1, <1>3 DEF GpioTypeOK
    <2> QED BY <1>1, <1>2, <2>1, <2>2 DEF GpioTypeOK
<1>5. WatchTableAgrees' /\ CmdInv'
    BY <1>1 DEF WatchTableAgrees, CmdInv
<1>6. KeptInv'
    <2> SUFFICES ASSUME NEW q \in kept, q \notin pending PROVE NewestIsLevel(q)'
        BY <1>1 DEF KeptInv
    <2>1. NewestIsLevel(q) /\ q \in Pins /\ (InIsr(q)' <=> InIsr(q))
        BY <1>1 DEF KeptInv, InIsr, GpioTypeOK
    <2>2. ASSUME ~InIsr(q), NEW i \in 1..Len(s_evt_q'), IsLast(i, q)'
          PROVE  s_evt_q'[i][2] = level'[q]
        <3>1. i + 1 \in 1..n /\ s_evt_q[i + 1][1] = q
            BY <1>2, <2>2 DEF IsLast
        <3>2. ASSUME NEW j \in 1..n, i + 1 < j PROVE s_evt_q[j][1] # q
            <4>1. j - 1 \in 1..Len(s_evt_q') /\ i < j - 1 /\ (j - 1) + 1 = j
                BY <1>2, <3>2
            <4>2. s_evt_q'[j - 1][1] # q
                BY <2>2, <4>1 DEF IsLast
            <4> QED BY <1>2, <4>1, <4>2
        <3>3. IsLast(i + 1, q)
            BY <3>1, <3>2 DEF IsLast
        <3> QED BY <1>1, <1>2, <2>1, <2>2, <3>1, <3>3 DEF NewestIsLevel
    <2>3. ASSUME ~InFlight(q)' PROVE seen'[q] = level'[q]
        <3>1. ~InIsr(q) /\ \A i \in 1..Len(s_evt_q') : s_evt_q'[i][1] # q
            BY <1>1, <2>3 DEF InFlight, InIsr
        <3>2. ASSUME NEW j \in 1..n, j # 1 PROVE s_evt_q[j][1] # q
            <4>1. j - 1 \in 1..Len(s_evt_q') /\ (j - 1) + 1 = j
                BY <1>2, <3>2
            <4> QED BY <1>2, <3>1, <4>1
        <3>3. CASE e[1] = q
            <4>1. IsLast(1, q)
                BY <1>2, <3>2, <3>3 DEF IsLast
            <4>2. e[2] = level[q]
                BY <1>2, <2>1, <3>1, <4>1 DEF NewestIsLevel
            <4> QED BY <1>1, <2>1, <3>3, <4>2 DEF GpioTypeOK
        <3>4. CASE e[1] # q
            <4>1. ~InFlight(q)
                BY <3>1, <3>2, <3>4 DEF InFlight, InIsr
            <4>2. seen'[q] = seen[q]
                BY <1>1, <2>1, <3>4 DEF GpioTypeOK
            <4> QED BY <1>1, <2>1, <4>1, <4>2 DEF NewestIsLevel
        <3> QED BY <3>3, <3>4
    <2> QED BY <1>1, <2>1, <2>2, <2>3 DEF NewestIsLevel
<1> QED BY <1>4, <1>5, <1>6

LEMMA GpioStep == GpioInv /\ [GpioNext]_gpioVars => GpioInv'
<1> SUFFICES ASSUME GpioInv, [GpioNext]_gpioVars PROVE GpioInv'
    OBVIOUS
<1>1. ASSUME NEW p \in Pins, NEW e \in Edges, Watch(p, e) PROVE GpioInv'
    BY <1>1, WatchStep
<1>2. CASE RemoveOld
    BY <1>2, RemoveOldStep
<1>3. CASE AddHandler
    BY <1>3, AddHandlerStep
<1>4. CASE AddFails
    BY <1>4, AddFailsStep
<1>5. ASSUME NEW p \in Pins, Unwatch(p) PROVE GpioInv'
    BY <1>5, UnwatchStep
<1>6. ASSUME NEW p \in Pins, Mode(p) PROVE GpioInv'
    BY <1>6, ModeStep
<1>7. ASSUME NEW p \in Pins, EnterIsr(p) PROVE GpioInv'
    BY <1>7, EnterIsrStep
<1>8. ASSUME NEW p \in Pins, NEW l \in {0, 1}, SetLevel(p, l) PROVE GpioInv'
    BY <1>8, SetLevelStep
<1>9. CASE SendFromIsr
    BY <1>9, SendFromIsrStep
<1>10. CASE WatchTask
    BY <1>10, WatchTaskStep
<1>11. CASE UNCHANGED gpioVars
    <2>1. UNCHANGED <<s_watch, s_isr_svc, isr_service, handler, trigger, cmd, level,
                      pending, isr, s_evt_q, watched, kept, seen>>
        BY <1>11 DEF gpioVars, gpioCmd
    <2>2. GpioTypeOK' /\ WatchTableAgrees' /\ CmdInv'
        BY <2>1 DEF GpioInv, GpioTypeOK, WatchTableAgrees, CmdInv
    <2>3. KeptInv'
        BY <2>1, NewestKept DEF GpioInv, KeptInv
    <2> QED BY <2>2, <2>3 DEF GpioInv
<1> QED BY <1>1, <1>2, <1>3, <1>4, <1>5, <1>6, <1>7, <1>8, <1>9, <1>10, <1>11
        DEF GpioNext

-----------------------------------------------------------------------------
(* The theorems.                                                           *)

\* The inductive invariant of the watch table, the GPIO_WATCH under way and the
\* levels of the kept pins (periph_gpio.c 21-154).
THEOREM GpioInvariance == GpioSpec => []GpioInv
BY GpioInitial, GpioStep, PTL DEF GpioSpec

\* The table, the driver's state and the queue stay of their types, and a pin
\* with an interrupt to come has a handler (periph_gpio.c 21-28).
THEOREM GpioTypeCorrect == GpioSpec => []GpioTypeOK
<1>1. GpioInv => GpioTypeOK
    BY DEF GpioInv
<1> QED BY <1>1, GpioInvariance, PTL

\* However often pins are watched, unwatched and reconfigured, and wherever
\* gpio_isr_handler_add fails, no pin gets two slots and none keeps a handler
\* without a slot (periph_gpio.c 119-154).
THEOREM WatchTableHolds == GpioSpec => []WatchTableAgrees
<1>1. GpioInv => WatchTableAgrees
    BY DEF GpioInv
<1> QED BY <1>1, GpioInvariance, PTL

\* Once a pin watched for ANY edge had an edge and no event after it was lost, the
\* last event sent of it tells its level when nothing of the pin is under way,
\* although each event reads the level after its edge and older events may still
\* come first (periph_gpio.c 32-39, 50-53, 109-138).
THEOREM LastEventIsLevel == GpioSpec => []LastEventCurrent
<1>1. GpioInv => LastEventCurrent
    BY DEF GpioInv, KeptInv, NewestIsLevel, LastEventCurrent
<1> QED BY <1>1, GpioInvariance, PTL

-----------------------------------------------------------------------------
(* The streams.                                                            *)

\* A start in progress: no task, no stop in force, and the flag goes first.
StartInv ==
    /\ spc \in {"store", "create"} =>
          arg \in Channels /\ ~Running(arg) /\ late[arg] = None
    /\ spc = "create" => s_stream_on[arg]
    /\ spc = "install" => arg \in Uarts

\* A task that was promised found, and finds, its flag set.
PromiseInv ==
    \A c \in promised :
        s_stream_on[c] /\ Running(c) /\ tpc[s_stream_task[c]] # "clear"

\* After a stop the flag is clear, so the task passes its test once at most.
LateInv ==
    \A c \in Channels : late[c] # None =>
        /\ ~s_stream_on[c]
        /\ late[c] \in {0, 1}
        /\ late[c] = 1 => \A t \in Tasks : port[t] = c => tpc[t] \notin {"read", "emit"}

Inv == TypeOK /\ OneTaskEach /\ StartInv /\ PromiseInv /\ LateInv

-----------------------------------------------------------------------------

USE StreamsAssumption DEF Channels

LEMMA InitInv == Init => Inv
BY DEF Init, Inv, TypeOK, OneTaskEach, StartInv, PromiseInv, LateInv, Active, Running

LEMMA StreamOnStep ==
    ASSUME Inv, NEW c \in Channels, StreamOn(c)
    PROVE  Inv'
<1> USE DEF Inv, TypeOK, StreamOn
<1>1. spc' = "store" /\ arg' = c /\ ~Running(c)
    BY DEF After
<1>2. TypeOK'
    BY <1>1 DEF Running
<1>3. OneTaskEach'
    BY DEF OneTaskEach, Active
<1>4. StartInv'
    BY <1>1 DEF StartInv, Running
<1>5. PromiseInv'
    BY DEF PromiseInv, Running
<1>6. LateInv'
    BY DEF LateInv
<1> QED BY <1>2, <1>3, <1>4, <1>5, <1>6

LEMMA StoreFlagStep ==
    ASSUME Inv, StoreFlag
    PROVE  Inv'
<1> USE DEF Inv, TypeOK, StoreFlag
<1>1. /\ spc' = "create" /\ spc = "store"
      /\ arg \in Channels /\ ~Running(arg) /\ late[arg] = None
    BY DEF After, StartInv
<1>2. TypeOK'
    BY <1>1 DEF Running
<1>3. OneTaskEach'
    BY DEF OneTaskEach, Active
<1>4. StartInv'
    BY <1>1 DEF StartInv, Running
<1>5. PromiseInv'
    BY <1>1 DEF PromiseInv, Running
<1>6. LateInv'
    BY <1>1 DEF LateInv
<1> QED BY <1>2, <1>3, <1>4, <1>5, <1>6

LEMMA CreateStep ==
    ASSUME Inv, NEW t \in Tasks, Create(t)
    PROVE  Inv'
<1> USE DEF Inv, TypeOK
<1>1. /\ spc = "create" /\ spc' = "ready"
      /\ arg \in Channels /\ ~Running(arg) /\ late[arg] = None /\ s_stream_on[arg]
      /\ tpc[t] = "free" /\ port[t] = None
    BY DEF Create, After, StartInv
<1>2. /\ tpc' = [tpc EXCEPT ![t] = "test"]
      /\ port' = [port EXCEPT ![t] = arg]
      /\ s_stream_task' = [s_stream_task EXCEPT ![arg] = t]
      /\ promised' = promised \cup {arg}
      /\ UNCHANGED <<s_inited, driver, s_stream_on, arg, late>>
    BY DEF Create
<1>3. \A u \in Tasks : port[u] # arg
    BY <1>1 DEF OneTaskEach, Active, Running
<1>4. \A c \in Channels : s_stream_task[c] # t
    BY <1>1 DEF Running
<1>5. TypeOK'
    <2>1. /\ tpc' \in [Tasks -> {"free", "test", "read", "emit", "delay", "clear"}]
          /\ port' \in [Tasks -> Channels \cup {None}]
          /\ s_stream_task' \in [Channels -> Tasks \cup {None}]
          /\ promised' \subseteq Channels
        BY <1>1, <1>2
    <2>2. \A c \in Channels : Running(c)' => port'[s_stream_task'[c]] = c
        BY <1>1, <1>2, <1>4 DEF Running
    <2>3. \A u \in Tasks : tpc'[u] = "free" <=> port'[u] = None
        BY <1>1, <1>2
    <2>4. s_stream_on' \in [Channels -> BOOLEAN]
        BY <1>2, Zenon
    <2> QED BY <1>1, <1>2, <2>1, <2>2, <2>3, <2>4
<1>6. OneTaskEach'
    <2> SUFFICES ASSUME NEW c \in Channels, NEW u \in Tasks, port'[u] = c
                 PROVE  u = s_stream_task'[c]
        BY DEF OneTaskEach, Active
    <2>1. CASE u = t
        BY <1>1, <1>2, <2>1
    <2>2. CASE u # t
        BY <1>1, <1>2, <1>3, <2>2 DEF OneTaskEach, Active
    <2> QED BY <2>1, <2>2
<1>7. StartInv'
    BY <1>1 DEF StartInv
<1>8. PromiseInv'
    BY <1>1, <1>2, <1>4 DEF PromiseInv, Running
<1>9. LateInv'
    BY <1>1, <1>2 DEF LateInv
<1> QED BY <1>5, <1>6, <1>7, <1>8, <1>9

LEMMA CreateFailsStep ==
    ASSUME Inv, CreateFails
    PROVE  Inv'
BY DEF Inv, TypeOK, CreateFails, After, OneTaskEach, Active, StartInv, PromiseInv, LateInv, Running

LEMMA StreamOffStep ==
    ASSUME Inv, NEW c \in Channels, StreamOff(c)
    PROVE  Inv'
<1> USE DEF Inv, TypeOK, StreamOff
<1>1. TypeOK'
    BY DEF Running
<1>2. OneTaskEach'
    BY DEF OneTaskEach, Active
<1>3. StartInv'
    BY DEF StartInv
<1>4. PromiseInv'
    BY DEF PromiseInv, Running
<1>5. LateInv'
    BY DEF LateInv
<1> QED BY <1>1, <1>2, <1>3, <1>4, <1>5

LEMMA DeleteDriverStep ==
    ASSUME Inv, NEW p \in Uarts, DeleteDriver(p)
    PROVE  Inv'
<1> USE DEF Inv, TypeOK
<1>1. /\ spc' = "install" /\ arg' = p
      /\ driver' = driver \ {p}
      /\ UNCHANGED <<s_inited, s_stream_on, s_stream_task, port, promised, late>>
      /\ tpc' \in [Tasks -> {"free", "test", "read", "emit", "delay", "clear"}]
      /\ \A t \in Tasks : tpc'[t] = tpc[t] \/ (tpc[t] = "read" /\ tpc'[t] = "test")
    BY DEF DeleteDriver, Reading, Active
<1>2. TypeOK'
    <2>1. s_stream_on' \in [Channels -> BOOLEAN]
        BY <1>1, Zenon
    <2> QED BY <1>1, <2>1 DEF Running
<1>3. OneTaskEach'
    BY <1>1 DEF OneTaskEach, Active
<1>4. StartInv'
    BY <1>1 DEF StartInv
<1>5. PromiseInv'
    BY <1>1 DEF PromiseInv, Running
<1>6. LateInv'
    BY <1>1 DEF LateInv
<1> QED BY <1>2, <1>3, <1>4, <1>5, <1>6

LEMMA PanicStep ==
    ASSUME Inv, NEW p \in Uarts, Panic(p)
    PROVE  Inv'
<1> USE DEF Panic
<1>1. TypeOK'
    BY DEF TypeOK, Running
<1>2. OneTaskEach'
    BY DEF OneTaskEach, Active
<1>3. StartInv' /\ PromiseInv' /\ LateInv'
    BY DEF StartInv, PromiseInv, LateInv
<1> QED BY <1>1, <1>2, <1>3 DEF Inv

LEMMA InstallDriverStep ==
    ASSUME Inv, InstallDriver
    PROVE  Inv'
<1> USE DEF Inv, TypeOK
<1>1. /\ spc' = "ready" /\ arg \in Uarts
      /\ UNCHANGED <<s_stream_on, s_stream_task, tpc, port, arg, promised, late>>
      /\ s_inited' \subseteq Uarts /\ driver' \subseteq s_inited'
    BY DEF InstallDriver, StartInv
<1>2. TypeOK'
    <2>1. s_stream_on' \in [Channels -> BOOLEAN]
        BY <1>1, Zenon
    <2> QED BY <1>1, <2>1 DEF Running
<1>3. OneTaskEach' /\ PromiseInv' /\ LateInv'
    BY <1>1 DEF OneTaskEach, Active, PromiseInv, LateInv, Running
<1>4. StartInv'
    BY <1>1 DEF StartInv
<1> QED BY <1>2, <1>3, <1>4

\* A step of a task that is alive, and stays so.
LEMMA TaskMoves ==
    ASSUME Inv, NEW t \in Tasks, NEW l,
           tpc[t] # "free", Goto(t, l),
           l \in {"test", "read", "emit", "delay", "clear"},
           UNCHANGED <<s_inited, driver, s_stream_on, s_stream_task, port, spc, arg, promised>>,
           late' \in [Channels -> Nat \cup {None}],
           \A c \in Channels : (late'[c] = None) <=> (late[c] = None),
           l = "clear" => ~s_stream_on[port[t]]
    PROVE  TypeOK' /\ OneTaskEach' /\ StartInv' /\ PromiseInv'
<1> USE DEF Inv, TypeOK
<1>1. /\ tpc' \in [Tasks -> {"free", "test", "read", "emit", "delay", "clear"}]
      /\ tpc'[t] = l
      /\ \A u \in Tasks \ {t} : tpc'[u] = tpc[u]
    BY DEF Goto
<1>2. TypeOK'
    <2>1. s_stream_on' \in [Channels -> BOOLEAN]
        BY Zenon
    <2> QED BY <1>1, <2>1 DEF Running
<1>3. OneTaskEach'
    BY DEF OneTaskEach, Active
<1>4. StartInv'
    BY DEF StartInv, Running
<1>5. PromiseInv'
    BY <1>1 DEF PromiseInv, Running
<1> QED BY <1>2, <1>3, <1>4, <1>5

LEMMA TestStep ==
    ASSUME Inv, NEW t \in Tasks, TaskStep(t), Test(t)
    PROVE  Inv'
<1> DEFINE l == IF Goes(t) THEN "read" ELSE "clear"
<1>1. /\ tpc[t] = "test" /\ Goto(t, l)
      /\ UNCHANGED <<s_inited, driver, s_stream_on, s_stream_task, port, spc, arg, promised, late>>
    BY DEF TaskStep, Test
<1>2. l = "read" => s_stream_on[port[t]]
    BY DEF Goes
<1>3. l = "clear" => ~s_stream_on[port[t]]
    BY DEF Goes
<1>4. l \in {"read", "clear"}
    OBVIOUS
<1> HIDE DEF l
<1>5. TypeOK' /\ OneTaskEach' /\ StartInv' /\ PromiseInv'
    BY <1>1, <1>3, <1>4, TaskMoves DEF Inv, TypeOK
<1>6. LateInv'
    BY <1>1, <1>2, <1>4 DEF Inv, LateInv, TypeOK, Goto
<1> QED BY <1>5, <1>6 DEF Inv

LEMMA ReadStep ==
    ASSUME Inv, NEW t \in Tasks, TaskStep(t), Read(t)
    PROVE  Inv'
<1>1. PICK l \in {"test", "delay", "emit"} : Goto(t, l)
    BY DEF Read
<1>2. /\ tpc[t] = "read"
      /\ UNCHANGED <<s_inited, driver, s_stream_on, s_stream_task, port, spc, arg, promised, late>>
    BY DEF TaskStep, Read
<1>3. TypeOK' /\ OneTaskEach' /\ StartInv' /\ PromiseInv'
    BY <1>1, <1>2, TaskMoves DEF Inv, TypeOK
<1>4. LateInv'
    BY <1>1, <1>2 DEF Inv, LateInv, TypeOK, Goto
<1> QED BY <1>3, <1>4 DEF Inv

LEMMA DelayStep ==
    ASSUME Inv, NEW t \in Tasks, TaskStep(t), Delay(t)
    PROVE  Inv'
<1>1. /\ tpc[t] = "delay" /\ Goto(t, "test")
      /\ UNCHANGED <<s_inited, driver, s_stream_on, s_stream_task, port, spc, arg, promised, late>>
    BY DEF TaskStep, Delay
<1>2. TypeOK' /\ OneTaskEach' /\ StartInv' /\ PromiseInv'
    BY <1>1, TaskMoves DEF Inv, TypeOK
<1>3. LateInv'
    BY <1>1 DEF Inv, LateInv, TypeOK, Goto
<1> QED BY <1>2, <1>3 DEF Inv

LEMMA EmitStep ==
    ASSUME Inv, NEW t \in Tasks, TaskStep(t), Emit(t)
    PROVE  Inv'
<1> DEFINE c == port[t]
           l == IF c \in Uarts THEN "test" ELSE "delay"
<1>1. /\ tpc[t] = "emit" /\ Goto(t, l)
      /\ late' = [late EXCEPT ![c] = IF late[c] = None THEN None ELSE late[c] + 1]
      /\ UNCHANGED <<s_inited, driver, s_stream_on, s_stream_task, port, spc, arg, promised>>
    BY DEF TaskStep, Emit
<1>2. c \in Channels /\ l \in {"test", "delay"}
    BY <1>1 DEF Inv, TypeOK
<1>3. late[c] # None => late[c] = 0
    BY <1>1, <1>2 DEF Inv, LateInv
<1> HIDE DEF l
<1>4. /\ late' \in [Channels -> Nat \cup {None}]
      /\ late'[c] = IF late[c] = None THEN None ELSE 1
      /\ \A d \in Channels \ {c} : late'[d] = late[d]
    BY <1>1, <1>2, <1>3 DEF Inv, TypeOK
<1>5. TypeOK' /\ OneTaskEach' /\ StartInv' /\ PromiseInv'
    BY <1>1, <1>2, <1>4, TaskMoves
<1>6. \A u \in Tasks : port[u] = c => u = t
    BY <1>2 DEF Inv, OneTaskEach, Active
<1>7. tpc' = [tpc EXCEPT ![t] = l] /\ tpc'[t] = l
    BY <1>1 DEF Goto, Inv, TypeOK
<1>8. ASSUME NEW d \in Channels, late'[d] # None
      PROVE  /\ ~s_stream_on'[d]
             /\ late'[d] \in {0, 1}
             /\ late'[d] = 1 => \A u \in Tasks : port'[u] = d => tpc'[u] \notin {"read", "emit"}
    <2>1. CASE d = c
        <3>1. ~s_stream_on'[d] /\ late'[d] = 1
            BY <1>1, <1>2, <1>4, <1>8, <2>1 DEF Inv, LateInv
        <3>2. \A u \in Tasks : port'[u] = d => tpc'[u] \notin {"read", "emit"}
            BY <1>1, <1>2, <1>6, <1>7, <2>1
        <3> QED BY <3>1, <3>2
    <2>2. CASE d # c
        <3>1. late'[d] = late[d] /\ s_stream_on' = s_stream_on /\ port' = port
            BY <1>1, <1>4, <2>2
        <3>2. \A u \in Tasks : port[u] = d => tpc'[u] = tpc[u]
            BY <1>7, <2>2 DEF Inv, TypeOK
        <3> QED BY <1>8, <3>1, <3>2 DEF Inv, LateInv
    <2> QED BY <2>1, <2>2
<1>9. LateInv'
    BY <1>8 DEF LateInv
<1> QED BY <1>5, <1>9 DEF Inv

LEMMA ExitStep ==
    ASSUME Inv, NEW t \in Tasks, TaskStep(t), Exit(t)
    PROVE  Inv'
<1> DEFINE c == port[t]
<1> USE DEF Inv, TypeOK
<1>1. /\ tpc[t] = "clear"
      /\ tpc' = [tpc EXCEPT ![t] = "free"]
      /\ s_stream_task' = [s_stream_task EXCEPT ![c] = None]
      /\ port' = [port EXCEPT ![t] = None]
      /\ UNCHANGED <<s_inited, driver, s_stream_on, spc, arg, promised, late>>
    BY DEF TaskStep, Exit, Goto, ClearHandle
<1>2. c \in Channels /\ s_stream_task[c] = t
    BY <1>1 DEF OneTaskEach, Active
<1>3. c \notin promised
    BY <1>1, <1>2 DEF PromiseInv
<1>4. TypeOK'
    <2>1. s_stream_on' \in [Channels -> BOOLEAN]
        BY <1>1, Zenon
    <2>2. /\ tpc' \in [Tasks -> {"free", "test", "read", "emit", "delay", "clear"}]
          /\ port' \in [Tasks -> Channels \cup {None}]
          /\ s_stream_task' \in [Channels -> Tasks \cup {None}]
        BY <1>1, <1>2
    <2>3. \A d \in Channels : Running(d)' => port'[s_stream_task'[d]] = d
        BY <1>1, <1>2 DEF Running
    <2>4. \A u \in Tasks : tpc'[u] = "free" <=> port'[u] = None
        BY <1>1, <1>2
    <2> QED BY <1>1, <2>1, <2>2, <2>3, <2>4
<1>5. OneTaskEach'
    <2> SUFFICES ASSUME NEW d \in Channels, NEW u \in Tasks, port'[u] = d
                 PROVE  u = s_stream_task'[d]
        BY DEF OneTaskEach, Active
    <2>1. u # t /\ port[u] = d
        BY <1>1
    <2>2. u = s_stream_task[d] /\ d # c
        BY <1>2, <2>1 DEF OneTaskEach, Active
    <2> QED BY <1>1, <2>2
<1>6. StartInv'
    BY <1>1, <1>2 DEF StartInv, Running
<1>7. PromiseInv'
    <2> SUFFICES ASSUME NEW d \in promised
                 PROVE  s_stream_on[d] /\ Running(d)' /\ tpc'[s_stream_task'[d]] # "clear"
        BY <1>1 DEF PromiseInv
    <2>1. d # c /\ d \in Channels
        BY <1>3
    <2>2. s_stream_on[d] /\ Running(d) /\ tpc[s_stream_task[d]] # "clear"
        BY DEF PromiseInv
    <2>3. s_stream_task'[d] = s_stream_task[d]
        BY <1>1, <2>1
    <2> QED BY <1>1, <2>1, <2>2, <2>3 DEF Running
<1>8. LateInv'
    BY <1>1 DEF LateInv
<1> QED BY <1>4, <1>5, <1>6, <1>7, <1>8

LEMMA NextInv == Inv /\ [Next]_vars => Inv'
<1> SUFFICES ASSUME Inv, [Next]_vars PROVE Inv'
    OBVIOUS
<1>1. CASE Server
    BY <1>1, StreamOnStep, StreamOffStep, StoreFlagStep, CreateStep, CreateFailsStep,
       DeleteDriverStep, PanicStep, InstallDriverStep DEF Server
<1>2. ASSUME NEW t \in Tasks, TaskStep(t) PROVE Inv'
    BY <1>2, TestStep, ReadStep, EmitStep, DelayStep, ExitStep DEF TaskStep
<1>3. CASE UNCHANGED vars
    BY <1>3 DEF vars, Inv, TypeOK, OneTaskEach, StartInv, PromiseInv, LateInv, Active, Running
<1> QED BY <1>1, <1>2, <1>3 DEF Next

\* Every reachable state satisfies the inductive invariant.
THEOREM Invariance == Spec => []Inv
BY InitInv, NextInv, PTL DEF Spec

-----------------------------------------------------------------------------

\* Types; a handle names a living task of its channel (periph_uart.c 96,
\* periph_adc.c 104).
THEOREM TypeCorrect == Spec => []TypeOK
<1>1. Inv => TypeOK
    BY DEF Inv
<1> QED BY Invariance, <1>1, PTL

\* No channel ever has two tasks (periph_uart.c 106, periph_adc.c 117).
THEOREM AtMostOneTask == Spec => []OneTaskEach
<1>1. Inv => OneTaskEach
    BY DEF Inv
<1> QED BY Invariance, <1>1, PTL

\* A start that created its task streams until a stop (periph_uart.c 107-109,
\* periph_adc.c 118-120).
THEOREM StartIsKept == Spec => []StartHolds
<1>1. Inv => StartHolds
    BY DEF Inv, PromiseInv, StartHolds, TypeOK, Active, Running
<1> QED BY Invariance, <1>1, PTL

\* One event at most follows a stop (periph_uart.c 86-95, periph_adc.c 96-103).
THEOREM StopIsPrompt == Spec => []OneLateEvent
<1>1. Inv => OneLateEvent
    BY DEF Inv, LateInv, OneLateEvent
<1> QED BY Invariance, <1>1, PTL

===============================================================================
