-------------------------------- MODULE Logger --------------------------------
(***************************************************************************)
(* The log queue (logger.c): any task logs a line, the two settings that   *)
(* LOG_LEVEL and LOG_STREAM change decide whether it is queued, and the    *)
(* pump task (net.c) sends what is queued to the client.  The settings are *)
(* read when a line is logged, each at its own moment, and never again.    *)
(*                                                                         *)
(* A line is its level.                                                    *)
(***************************************************************************)
EXTENDS Naturals, Sequences, FiniteSets

CONSTANTS
    Loggers,          \* tasks that log
    LOG_VERBOSE,      \* the highest level; 0 is LOG_NONE
    LOG_INFO,
    LOGGER_QUEUE_LEN

ASSUME LoggerAssumption ==
    /\ IsFiniteSet(Loggers)
    /\ LOG_VERBOSE \in Nat /\ LOG_INFO \in 1..LOG_VERBOSE
    /\ LOGGER_QUEUE_LEN \in Nat

VARIABLES
    s_level, s_stream,
    s_q,
    logging,   \* where each task is in logger_log, and its line
    pumped,    \* the line logger_pump_task holds
    authed,    \* a client is there, as far as the pump can tell
    lateLines  \* history: lines sent since the settings changed that they refuse

settings   == <<s_level, s_stream>>
loggerVars == <<settings, s_q, logging, pumped, authed, lateLines>>

Levels == 0..LOG_VERBOSE
NoLine == 0

Idle == [at |-> "idle", line |-> NoLine]

\* What the settings let through.
Wanted(line) == line # 0 /\ line <= s_level /\ s_stream

-----------------------------------------------------------------------------
(* Faults: what a definition below would be with a plausible slip in it.   *)

IgnoresStream == TRUE

-----------------------------------------------------------------------------
(* LOG_LEVEL and LOG_STREAM, in the server task.                           *)

LoggerInit ==
    /\ s_level = LOG_INFO
    /\ s_stream = TRUE
    /\ s_q = <<>>
    /\ logging = [t \in Loggers |-> Idle]
    /\ pumped = NoLine
    /\ authed = FALSE
    /\ lateLines = 0

SetLogLevel(l) ==
    /\ s_level' = l
    /\ lateLines' = 0
    /\ UNCHANGED <<s_stream, s_q, logging, pumped, authed>>

SetLogStream(on) ==
    /\ s_stream' = on
    /\ lateLines' = 0
    /\ UNCHANGED <<s_level, s_q, logging, pumped, authed>>

-----------------------------------------------------------------------------
(* logger_log, in any task.                                                *)

PassLevel(t, line) ==
    /\ logging[t] = Idle
    /\ line # 0 /\ line <= s_level
    /\ logging' = [logging EXCEPT ![t] = [at |-> "format", line |-> line]]
    /\ UNCHANGED <<settings, s_q, pumped, authed, lateLines>>

StreamSays == s_stream

TestStream(t) ==
    /\ logging[t].at = "format"
    /\ logging' = [logging EXCEPT ![t] = IF StreamSays THEN [@ EXCEPT !.at = "queue"] ELSE Idle]
    /\ UNCHANGED <<settings, s_q, pumped, authed, lateLines>>

\* A full queue drops the line, and nobody is told.
QueueLine(t) ==
    /\ logging[t].at = "queue"
    /\ logging' = [logging EXCEPT ![t] = Idle]
    /\ s_q' = IF Len(s_q) < LOGGER_QUEUE_LEN THEN Append(s_q, logging[t].line) ELSE s_q
    /\ UNCHANGED <<settings, pumped, authed, lateLines>>

-----------------------------------------------------------------------------
(* logger_pump_task.                                                       *)

Drain ==
    /\ pumped = NoLine
    /\ s_q # <<>>
    /\ pumped' = Head(s_q)
    /\ s_q' = Tail(s_q)
    /\ UNCHANGED <<settings, logging, authed, lateLines>>

\* Without a client the line is dropped.
Ship ==
    /\ pumped # NoLine
    /\ pumped' = NoLine
    /\ lateLines' = IF authed /\ ~Wanted(pumped) THEN lateLines + 1 ELSE lateLines
    /\ UNCHANGED <<settings, s_q, logging, authed>>

ClientComesOrGoes ==
    /\ authed' = ~authed
    /\ UNCHANGED <<settings, s_q, logging, pumped, lateLines>>

LoggerNext ==
    \/ \E l \in Levels : SetLogLevel(l)
    \/ \E on \in BOOLEAN : SetLogStream(on)
    \/ \E t \in Loggers :
          \/ \E l \in Levels : PassLevel(t, l)
          \/ TestStream(t) \/ QueueLine(t)
    \/ Drain \/ Ship
    \/ ClientComesOrGoes

LoggerSpec == LoggerInit /\ [][LoggerNext]_loggerVars

-----------------------------------------------------------------------------
(* Properties.                                                             *)

\* Types (logger.c 14-21).
LoggerTypeOK ==
    /\ s_level \in Levels /\ s_stream \in BOOLEAN
    /\ s_q \in Seq(Levels \ {0}) /\ Len(s_q) <= LOGGER_QUEUE_LEN
    /\ logging \in [Loggers -> [at : {"idle", "format", "queue"}, line : Levels]]
    /\ pumped \in Levels
    /\ authed \in BOOLEAN
    /\ lateLines \in Nat

\* After a LOG_LEVEL or LOG_STREAM a client still gets at most the lines that
\* were under way: the queue, the one the pump holds and one for each task that
\* had passed its test (logger.c 48, 70-72, net.c 507-508).
LateLines == lateLines <= LOGGER_QUEUE_LEN + 1 + Cardinality(Loggers)
===============================================================================
