------------------------------ MODULE GpioWatch ------------------------------
(***************************************************************************)
(* GPIO_WATCH (periph_gpio.c): a table of watched pins kept by the server  *)
(* task, the driver's interrupt configuration it should agree with, the    *)
(* handler that queues a pin's level at an edge, and the task that sends   *)
(* what is queued as events.                                               *)
(*                                                                         *)
(* A level is changed by the world, or by GPIO_SET and GPIO_TOGGLE on an   *)
(* output; both are an edge here.  The event watch_task holds while        *)
(* net_send_event waits is as one more in the queue.                       *)
(***************************************************************************)
EXTENDS Naturals, Sequences

CONSTANTS
    Pins,        \* pins the chip has
    MAX_WATCH,
    EVT_Q_LEN,   \* 16 in the code
    Unset        \* the pin of an empty slot, -1

ASSUME GpioAssumption ==
    /\ MAX_WATCH \in Nat \ {0}
    /\ EVT_Q_LEN \in Nat \ {0}
    /\ Unset \notin Pins \cup {0, 1} \cup (Pins \X {0, 1})

VARIABLES
    s_watch,     \* the pin of each slot
    s_isr_svc,   \* gpio_install_isr_service has been called
    isr_service, \* IDF: and it succeeded
    handler,     \* IDF: pins with a handler
    trigger,     \* IDF: the interrupt type of each pin
    level,       \* IDF: the level of each pin
    pending,     \* IDF: pins with an interrupt not yet serviced
    isr,         \* the event on_gpio_isr is about to queue, or None
    s_evt_q,
    cmd,         \* the GPIO_WATCH under way
    watched,     \* history: pins GPIO_WATCH ANY was answered OK for, since left alone
    kept,        \* history: those with an edge since, and no event lost after it
    seen         \* history: the level in the last event sent of each of those since, or Unset

gpioCmd  == <<s_watch, s_isr_svc, isr_service, handler, trigger, cmd>>
gpioVars == <<gpioCmd, level, pending, isr, s_evt_q, watched, kept, seen>>

Slots == 1..MAX_WATCH
Edges == {"RISING", "FALLING", "ANY"}
Event == Pins \X {0, 1}

NoCmd == [at |-> "ready", pin |-> Unset, edge |-> "ANY", slot |-> 0]

GpioInit ==
    /\ s_watch = [i \in Slots |-> Unset]
    /\ s_isr_svc = FALSE
    /\ isr_service = FALSE
    /\ handler = {}
    /\ trigger = [p \in Pins |-> "disable"]
    /\ level \in [Pins -> {0, 1}]
    /\ pending = {}
    /\ isr = Unset
    /\ s_evt_q = <<>>
    /\ cmd = NoCmd
    /\ watched = {}
    /\ kept = {}
    /\ seen = [p \in Pins |-> Unset]

\* Events of a pin on their way to the client.
InFlight(p) ==
    \/ isr # Unset /\ isr[1] = p
    \/ \E i \in 1..Len(s_evt_q) : s_evt_q[i][1] = p

\* A command changes what the pin is watched for.
Forget(p) ==
    /\ watched' = watched \ {p}
    /\ kept' = kept \ {p}
    /\ seen' = [seen EXCEPT ![p] = Unset]

-----------------------------------------------------------------------------
(* Faults: what a definition below would be with a plausible slip in it.   *)

FirstUsable(p) ==
    {i \in Slots : /\ s_watch[i] \in {p, Unset}
                   /\ \A j \in 1..(i - 1) : s_watch[j] \notin {p, Unset}}

AnyIsRising == [RISING |-> "posedge", FALLING |-> "negedge", ANY |-> "posedge"]

-----------------------------------------------------------------------------
(* The commands, in the server task.                                       *)

\* The slot that names the pin, else the first empty one.
SlotFor(p) ==
    LET named == {i \in Slots : s_watch[i] = p}
        empty == {i \in Slots : s_watch[i] = Unset}
        first(S) == {i \in S : \A j \in S : i <= j}
    IN  IF named # {} THEN first(named) ELSE first(empty)

IntrType == [RISING |-> "posedge", FALLING |-> "negedge", ANY |-> "anyedge"]

\* The result of gpio_install_isr_service is not looked at, nor is it called a
\* second time.  gpio_config changes the type under the old handler.
Watch(p, e) ==
    /\ cmd.at = "ready"
    /\ \E i \in SlotFor(p) :
           cmd' = [at |-> "remove", pin |-> p, edge |-> e, slot |-> i]
    /\ s_isr_svc' = TRUE
    /\ isr_service' \in IF s_isr_svc THEN {isr_service} ELSE BOOLEAN
    /\ trigger' = [trigger EXCEPT ![p] = IntrType[e]]
    /\ Forget(p)
    /\ UNCHANGED <<s_watch, handler, level, pending, isr, s_evt_q>>

\* gpio_isr_handler_remove also drops what is pending.
RemoveOld ==
    /\ cmd.at = "remove"
    /\ cmd' = [cmd EXCEPT !.at = "add"]
    /\ handler' = handler \ {cmd.pin}
    /\ pending' = pending \ {cmd.pin}
    /\ UNCHANGED <<s_watch, s_isr_svc, isr_service, trigger, level, isr, s_evt_q,
                   watched, kept, seen>>

\* The answer is a bare OK: it tells no level.
AddHandler ==
    LET p == cmd.pin IN
    /\ cmd.at = "add"
    /\ isr_service
    /\ handler' = handler \cup {p}
    /\ s_watch' = [s_watch EXCEPT ![cmd.slot] = p]
    /\ watched' = IF cmd.edge = "ANY" THEN watched \cup {p} ELSE watched
    /\ cmd' = NoCmd
    /\ UNCHANGED <<s_isr_svc, isr_service, trigger, level, pending, isr, s_evt_q, kept, seen>>

\* It always fails without the service.  The table keeps what it had.
AddFails ==
    /\ cmd.at = "add"
    /\ cmd' = NoCmd
    /\ UNCHANGED <<s_watch, s_isr_svc, isr_service, handler, trigger, level,
                   pending, isr, s_evt_q, watched, kept, seen>>

Unwatch(p) ==
    /\ cmd.at = "ready"
    /\ handler' = handler \ {p}
    /\ pending' = pending \ {p}
    /\ trigger' = [trigger EXCEPT ![p] = "disable"]
    /\ s_watch' = [i \in Slots |-> IF s_watch[i] = p THEN Unset ELSE s_watch[i]]
    /\ Forget(p)
    /\ UNCHANGED <<s_isr_svc, isr_service, level, isr, s_evt_q, cmd>>

\* GPIO_MODE disables the pin's interrupt, and leaves handler and table alone.
Mode(p) ==
    /\ cmd.at = "ready"
    /\ trigger' = [trigger EXCEPT ![p] = "disable"]
    /\ pending' = pending \ {p}
    /\ Forget(p)
    /\ UNCHANGED <<s_watch, s_isr_svc, isr_service, handler, level, isr, s_evt_q, cmd>>

-----------------------------------------------------------------------------
(* Edges, the interrupt and the task.                                      *)

Fires(p, l) ==
    /\ p \in handler
    /\ trigger[p] \in {"anyedge", IF l = 1 THEN "posedge" ELSE "negedge"}

SetLevel(p, l) ==
    /\ level[p] # l
    /\ level' = [level EXCEPT ![p] = l]
    /\ pending' = IF Fires(p, l) THEN pending \cup {p} ELSE pending
    /\ kept' = IF p \in watched THEN kept \cup {p} ELSE kept
    /\ UNCHANGED <<gpioCmd, isr, s_evt_q, watched, seen>>

\* The level is the one at the interrupt, not the one of the edge.
EnterIsr(p) ==
    /\ isr = Unset
    /\ p \in pending
    /\ pending' = pending \ {p}
    /\ isr' = <<p, level[p]>>
    /\ UNCHANGED <<gpioCmd, level, s_evt_q, watched, kept, seen>>

\* xQueueSendFromISR drops the event when the queue is full.
SendFromIsr ==
    /\ isr # Unset
    /\ isr' = Unset
    /\ IF Len(s_evt_q) < EVT_Q_LEN
       THEN s_evt_q' = Append(s_evt_q, isr) /\ UNCHANGED <<kept, seen>>
       ELSE /\ UNCHANGED s_evt_q
            /\ kept' = kept \ {isr[1]}
            /\ seen' = [seen EXCEPT ![isr[1]] = Unset]
    /\ UNCHANGED <<gpioCmd, level, pending, watched>>

WatchTask ==
    LET e == Head(s_evt_q) IN
    /\ s_evt_q # <<>>
    /\ s_evt_q' = Tail(s_evt_q)
    /\ seen' = IF e[1] \in kept THEN [seen EXCEPT ![e[1]] = e[2]] ELSE seen
    /\ UNCHANGED <<gpioCmd, level, pending, isr, watched, kept>>

GpioNext ==
    \/ \E p \in Pins, e \in Edges : Watch(p, e)
    \/ RemoveOld \/ AddHandler \/ AddFails
    \/ \E p \in Pins : Unwatch(p) \/ Mode(p) \/ EnterIsr(p)
    \/ \E p \in Pins, l \in {0, 1} : SetLevel(p, l)
    \/ SendFromIsr \/ WatchTask

GpioSpec == GpioInit /\ [][GpioNext]_gpioVars

-----------------------------------------------------------------------------
(* Properties.                                                             *)

\* Types (periph_gpio.c 21-28).
GpioTypeOK ==
    /\ s_watch \in [Slots -> Pins \cup {Unset}]
    /\ s_isr_svc \in BOOLEAN /\ isr_service \in BOOLEAN
    /\ handler \subseteq Pins
    /\ trigger \in [Pins -> {"disable", "posedge", "negedge", "anyedge"}]
    /\ level \in [Pins -> {0, 1}]
    /\ pending \subseteq handler
    /\ isr \in Event \cup {Unset}
    /\ s_evt_q \in Seq(Event) /\ Len(s_evt_q) <= EVT_Q_LEN
    /\ cmd \in [at : {"ready", "remove", "add"}, pin : Pins \cup {Unset},
                edge : Edges, slot : Slots \cup {0}]
    /\ watched \subseteq Pins /\ kept \subseteq watched
    /\ seen \in [Pins -> {0, 1, Unset}]

\* No pin has two slots, and a pin with a handler has one: the table's eight
\* slots bound the handlers, and a pin is watched again in its own slot
\* (periph_gpio.c 121-126, 135, 147).
WatchTableAgrees ==
    /\ \A i, j \in Slots : s_watch[i] = s_watch[j] => i = j \/ s_watch[i] = Unset
    /\ \A p \in handler : \E i \in Slots : s_watch[i] = p

\* Once a pin watched for ANY edge had an edge and no event after it was lost
\* to a full queue, the last event sent of it tells its level as soon as nothing
\* of the pin is under way: edges that were one interrupt and events of an
\* earlier GPIO_WATCH still queued included (periph_gpio.c 32-39, 50-53, 109-138).
\* Before the first edge nothing does: the answer tells no level, and an older
\* event may arrive after it.
LastEventCurrent ==
    \A p \in kept : ~InFlight(p) /\ p \notin pending => seen[p] = level[p]
===============================================================================
