----------------------------- MODULE EventStreams -----------------------------
(***************************************************************************)
(* UART_STREAM and ADC_STREAM (periph_uart.c, periph_adc.c): a command in  *)
(* the server task starts and stops a task per channel, which sends what   *)
(* it reads as events until it finds its flag cleared, then clears its     *)
(* handle and deletes itself.  Flag and handle are shared without a lock,  *)
(* so every load and store of them is a step.                              *)
(*                                                                         *)
(* The two files differ in where a task waits, and in what a start answers *)
(* when it finds a task: OK for a port, BUSY for an ADC channel.           *)
(***************************************************************************)
EXTENDS Naturals

CONSTANTS
    Uarts,   \* UART ports
    Adcs,    \* ADC channels
    Tasks,   \* tasks there is memory for
    None

Channels == Uarts \cup Adcs

ASSUME StreamsAssumption ==
    /\ Uarts \cap Adcs = {}
    /\ None \notin Channels \cup Tasks \cup Nat

VARIABLES
    s_inited,      \* ports UART_INIT succeeded for
    driver,        \* IDF: ports with a driver installed
    s_stream_on,   \* the flag; for an ADC channel, s_stream_interval > 0
    s_stream_task, \* the handle
    tpc, port,     \* where each task is, and its channel
    spc, arg,      \* where the server task is in a command, and its channel
    promised,      \* history: a start created the task, no stop since
    late           \* history: events since the stop, None when not stopped

vars == <<s_inited, driver, s_stream_on, s_stream_task, tpc, port, spc, arg, promised, late>>

Init ==
    /\ s_inited = {}
    /\ driver = {}
    /\ s_stream_on = [c \in Channels |-> FALSE]
    /\ s_stream_task = [c \in Channels |-> None]
    /\ tpc = [t \in Tasks |-> "free"]
    /\ port = [t \in Tasks |-> None]
    /\ spc = "ready"
    /\ arg = None
    /\ promised = {}
    /\ late = [c \in Channels |-> None]

Active(c) == {t \in Tasks : port[t] = c}

-----------------------------------------------------------------------------
(* Faults: what a definition below would be with a plausible slip in it.   *)

FlagSaysRunning(c) == s_stream_on[c]

CreateThenStore == [test |-> "create", store |-> "ready", create |-> "store"]

RunsForever(t) == TRUE

KeepHandle(c) == UNCHANGED s_stream_task

-----------------------------------------------------------------------------
(* The server task.                                                        *)

Running(c) == s_stream_task[c] # None

\* The order of a start.
After == [test |-> "store", store |-> "create", create |-> "ready"]

\* A port that was never set up is refused.
Known(c) == c \in Uarts => c \in s_inited

\* A start that finds a task changes nothing.
StreamOn(c) ==
    /\ spc = "ready"
    /\ Known(c)
    /\ ~Running(c)
    /\ spc' = After.test
    /\ arg' = c
    /\ late' = [late EXCEPT ![c] = None]
    /\ UNCHANGED <<s_inited, driver, s_stream_on, s_stream_task, tpc, port, promised>>

StoreFlag ==
    /\ spc = "store"
    /\ s_stream_on' = [s_stream_on EXCEPT ![arg] = TRUE]
    /\ spc' = After.store
    /\ UNCHANGED <<s_inited, driver, s_stream_task, tpc, port, arg, promised, late>>

\* xTaskCreate stores the handle before the new task can run.
Create(t) ==
    /\ spc = "create"
    /\ tpc[t] = "free"
    /\ tpc' = [tpc EXCEPT ![t] = "test"]
    /\ port' = [port EXCEPT ![t] = arg]
    /\ s_stream_task' = [s_stream_task EXCEPT ![arg] = t]
    /\ promised' = promised \cup {arg}
    /\ spc' = After.create
    /\ UNCHANGED <<s_inited, driver, s_stream_on, arg, late>>

\* Its failure is not looked at: the flag stays set, with no task.
CreateFails ==
    /\ spc = "create"
    /\ spc' = After.create
    /\ UNCHANGED <<s_inited, driver, s_stream_on, s_stream_task, tpc, port, arg, promised, late>>

StreamOff(c) ==
    /\ spc = "ready"
    /\ Known(c)
    /\ s_stream_on' = [s_stream_on EXCEPT ![c] = FALSE]
    /\ promised' = promised \ {c}
    /\ late' = [late EXCEPT ![c] = IF @ = None THEN 0 ELSE @]
    /\ UNCHANGED <<s_inited, driver, s_stream_task, tpc, port, spc, arg>>

Reading(p) == {t \in Active(p) : tpc[t] = "read"}

\* UART_INIT deletes the driver first.  A task inside uart_read_bytes is then
\* left with freed memory: the call returns an error, or the device panics.
DeleteDriver(p) ==
    /\ spc = "ready"
    /\ spc' = "install"
    /\ arg' = p
    /\ driver' = driver \ {p}
    /\ tpc' = [t \in Tasks |-> IF t \in Reading(p) THEN "test" ELSE tpc[t]]
    /\ UNCHANGED <<s_inited, s_stream_on, s_stream_task, port, promised, late>>

Panic(p) ==
    /\ spc = "ready"
    /\ Reading(p) # {}
    /\ s_inited' = {}
    /\ driver' = {}
    /\ s_stream_on' = [c \in Channels |-> FALSE]
    /\ s_stream_task' = [c \in Channels |-> None]
    /\ tpc' = [t \in Tasks |-> "free"]
    /\ port' = [t \in Tasks |-> None]
    /\ spc' = "ready"
    /\ arg' = None
    /\ promised' = {}
    /\ late' = [c \in Channels |-> None]

\* A failure after the deletion leaves s_inited as it was.
InstallDriver ==
    /\ spc = "install"
    /\ \/ driver' = driver \cup {arg} /\ s_inited' = s_inited \cup {arg}
       \/ UNCHANGED <<driver, s_inited>>
    /\ spc' = "ready"
    /\ UNCHANGED <<s_stream_on, s_stream_task, tpc, port, arg, promised, late>>

Server ==
    \/ \E c \in Channels : StreamOn(c) \/ StreamOff(c)
    \/ StoreFlag
    \/ \E t \in Tasks : Create(t)
    \/ CreateFails
    \/ \E p \in Uarts : DeleteDriver(p) \/ Panic(p)
    \/ InstallDriver

-----------------------------------------------------------------------------
(* The streaming tasks.                                                    *)

Goto(t, l) == tpc' = [tpc EXCEPT ![t] = l]

Goes(t) == s_stream_on[port[t]]

Test(t) ==
    /\ tpc[t] = "test"
    /\ Goto(t, IF Goes(t) THEN "read" ELSE "clear")
    /\ UNCHANGED <<s_stream_task, port, late>>

\* uart_read_bytes times out after 200 ms, and fails at once with no driver.
Read(t) ==
    LET next == IF port[t] \in Uarts THEN "test" ELSE "delay" IN
    /\ tpc[t] = "read"
    /\ \/ Goto(t, next)
       \/ port[t] \in driver \cup Adcs /\ Goto(t, "emit")
    /\ UNCHANGED <<s_stream_task, port, late>>

Emit(t) ==
    LET c == port[t] IN
    /\ tpc[t] = "emit"
    /\ Goto(t, IF c \in Uarts THEN "test" ELSE "delay")
    /\ late' = [late EXCEPT ![c] = IF @ = None THEN None ELSE @ + 1]
    /\ UNCHANGED <<s_stream_task, port>>

\* An ADC task sleeps its interval.
Delay(t) ==
    /\ tpc[t] = "delay"
    /\ Goto(t, "test")
    /\ UNCHANGED <<s_stream_task, port, late>>

ClearHandle(c) == s_stream_task' = [s_stream_task EXCEPT ![c] = None]

\* vTaskDelete follows, and shares nothing.
Exit(t) ==
    /\ tpc[t] = "clear"
    /\ Goto(t, "free")
    /\ ClearHandle(port[t])
    /\ port' = [port EXCEPT ![t] = None]
    /\ UNCHANGED late

TaskStep(t) ==
    /\ Test(t) \/ Read(t) \/ Emit(t) \/ Delay(t) \/ Exit(t)
    /\ UNCHANGED <<s_inited, driver, s_stream_on, spc, arg, promised>>

Next == Server \/ \E t \in Tasks : TaskStep(t)

Spec == Init /\ [][Next]_vars

\* FreeRTOS runs every ready task, and each of its waits ends.
FairSpec == Spec /\ \A t \in Tasks : WF_vars(TaskStep(t))

-----------------------------------------------------------------------------
(* Properties.                                                             *)

\* Types; a handle is that of a task of its channel, never of one that is gone
\* (periph_uart.c 96, periph_adc.c 104).
TypeOK ==
    /\ s_inited \subseteq Uarts /\ driver \subseteq s_inited
    /\ s_stream_on \in [Channels -> BOOLEAN]
    /\ s_stream_task \in [Channels -> Tasks \cup {None}]
    /\ tpc \in [Tasks -> {"free", "test", "read", "emit", "delay", "clear"}]
    /\ port \in [Tasks -> Channels \cup {None}]
    /\ spc \in {"ready", "store", "create", "install"}
    /\ arg \in Channels \cup {None}
    /\ promised \subseteq Channels
    /\ late \in [Channels -> Nat \cup {None}]
    /\ \A c \in Channels : Running(c) => port[s_stream_task[c]] = c
    /\ \A t \in Tasks : tpc[t] = "free" <=> port[t] = None

\* However starts, stops and the task's own exit interleave, no channel has two
\* tasks (periph_uart.c 106, periph_adc.c 117).
OneTaskEach == \A c \in Channels : Active(c) \subseteq {s_stream_task[c]}

\* A start that created a task streams until a stop: the task found its flag
\* set (periph_uart.c 107-109, periph_adc.c 118-120).
StartHolds ==
    \A c \in promised : spc = "ready" => s_stream_on[c] /\ Active(c) # {}

\* A stop is followed by at most the one event already under way
\* (periph_uart.c 86-95, periph_adc.c 96-103).
OneLateEvent == \A c \in Channels : late[c] # None => late[c] <= 1

\* A stop ends the task, or another start has found it gone
\* (periph_uart.c 96, periph_adc.c 104).
StopEnds ==
    \A c \in Channels : late[c] # None ~> late[c] = None \/ s_stream_task[c] = None
===============================================================================
