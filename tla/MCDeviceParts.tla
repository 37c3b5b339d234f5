---------------------------- MODULE MCDeviceParts ----------------------------
(***************************************************************************)
(* An instance for TLC of the parts that share no state with one another:  *)
(* the streams, the watched pins, the log queue, the listener, the command *)
(* table, the drivers' tables, the files, and esp-ctl's discovery.  Since  *)
(* none sees another, interleaving them would show nothing: a behaviour    *)
(* runs one of them, the focus, while the others rest in one initial       *)
(* state.                                                                  *)
(***************************************************************************)
EXTENDS EventStreams, GpioWatch, Logger, Listener, Dispatch, Drivers, Fs, Discovery

CONSTANTS uart, adc, t1, t2, t3, pin1, pin2, name1, name2

\* EventStreams: a port and an ADC channel, and one task more than they need.
MCUarts == {uart}
MCAdcs == {adc}
MCTasks == {t1, t2, t3}

\* GpioWatch: two pins, two slots, and a queue of one.
MCPins == {pin1, pin2}

\* Logger: two tasks, two levels, and a queue of two.
MCLoggers == {t1, t2}

\* Dispatch: names are runs of one letter; every line of up to four characters,
\* and those that go on after a command and a blank with up to four more: a
\* quoted argument with an escape in it, or a word too many.
\* The project registers a new name, none, one too long, one that is taken and
\* one too many.
Word(n) == [i \in 1..n |-> "other"]
MCBuiltins == {Word(1)}
MCProject == <<Word(2), <<>>, Word(4), Word(1), Word(3), <<"quote">>>>
MCTexts == UNION {[1..n -> {"space", "quote", "backslash", "other"}] : n \in 0..4}
MCLines == MCTexts \cup {<<"other", "space">> \o s : s \in MCTexts}

\* Drivers: one port, host and DAC channel, two ADC channels, and two PWM
\* channels on one timer.
MCResolutions == {1, 2}

\* Discovery: answers of up to two records, or one of each of three types in
\* any order; and answers without a name, or with a newline in a text: a name
\* that leaves no heading, a host that goes on with the section of another
\* device, a TXT that changes the port and ends the section.
MCPlain ==
    [type : {"PTR"}, instance : {name1, name2}]
    \cup {[type |-> "SRV", host |-> "h1", port |-> 0], [type |-> "SRV", host |-> "h2", port |-> 9001]}
    \cup {[type |-> "A", host |-> "h1", ip |-> "ip1"]}
MCRecords ==
    MCPlain
    \cup [type : {"PTR"}, instance : {"", "broken"}]
    \cup {[type |-> "SRV", host |-> "forging", port |-> 9001]}
    \cup [type : {"TXT"}, txt : {"proto=1", "leaving"}]
MCBreaks == [broken  |-> <<>>,
             forging |-> <<[key |-> "[", value |-> name1], [key |-> "host", value |-> "stray"]>>,
             leaving |-> <<[key |-> "port", value |-> 1], [key |-> "[", value |-> "old"]>>]
MCAnswers ==
    [records : UNION {[1..n -> MCPlain] : n \in 0..2}
                  \cup {s \in [1..3 -> MCPlain] :
                           \A i, j \in 1..3 : s[i].type = s[j].type => i = j}
                  \cup {s \in [1..3 -> MCRecords] :
                           /\ s[1].type = "PTR" /\ s[2].type = "SRV" /\ s[3].type = "TXT"
                           /\ s[2].host # "h2"
                           /\ s[3].txt = "leaving" => s[2].host = "h1"},
     src : {"ip2"}]
MCTokenOf == [n \in {name1, name2, "", "broken", "espshell"} |-> n]
\* devices.toml: empty, with a key before any section, with an older section.
MCOldLines ==
    [key : {"[", "host", "token"}, value : {name1, "stray", "old"}] \cup [key : {"port"}, value : {1}]
MCExisting ==
    {<<>>,
     <<[key |-> "host", value |-> "stray"]>>,
     <<[key |-> "[", value |-> name1], [key |-> "host", value |-> "old"],
       [key |-> "port", value |-> 1], [key |-> "token", value |-> "old"]>>}

-----------------------------------------------------------------------------

VARIABLE focus

Parts == {"streams", "gpio", "logger", "listener", "dispatch", "drivers", "fs", "discovery"}

partsVars == <<focus, vars, gpioVars, loggerVars, listenerVars, dispatchVars,
               driversVars, fsVars, discoveryVars>>

PartsInit ==
    /\ focus \in Parts
    /\ Init /\ GpioInit /\ LoggerInit /\ ListenerInit
    /\ DispatchInit /\ DriversInit /\ FsInit /\ DiscoveryInit
    /\ focus = "gpio" \/ level = [p \in Pins |-> 0]
    /\ focus = "listener" \/ events = <<"STA_START">>
    /\ focus = "discovery" \/ (file = <<>> /\ private)

\* A step of the focus; the others rest.
Only(part) ==
    /\ focus = part
    /\ UNCHANGED focus
    /\ IF part = "streams"   THEN TRUE ELSE UNCHANGED vars
    /\ IF part = "gpio"      THEN TRUE ELSE UNCHANGED gpioVars
    /\ IF part = "logger"    THEN TRUE ELSE UNCHANGED loggerVars
    /\ IF part = "listener"  THEN TRUE ELSE UNCHANGED listenerVars
    /\ IF part = "dispatch"  THEN TRUE ELSE UNCHANGED dispatchVars
    /\ IF part = "drivers"   THEN TRUE ELSE UNCHANGED driversVars
    /\ IF part = "fs"        THEN TRUE ELSE UNCHANGED fsVars
    /\ IF part = "discovery" THEN TRUE ELSE UNCHANGED discoveryVars

StreamsPart   == Only("streams") /\ Next
GpioPart      == Only("gpio") /\ GpioNext
LoggerPart    == Only("logger") /\ LoggerNext
ListenerPart  == Only("listener") /\ ListenerNext
DispatchPart  == Only("dispatch") /\ DispatchNext
DriversPart   == Only("drivers") /\ DriversNext
FsPart        == Only("fs") /\ FsNext
DiscoveryPart == Only("discovery") /\ DiscoveryNext

PartsNext ==
    \/ StreamsPart \/ GpioPart \/ LoggerPart \/ ListenerPart
    \/ DispatchPart \/ DriversPart \/ FsPart \/ DiscoveryPart

\* EventStreams!FairSpec and ListenerFair, for the behaviours they are about.
PartsFair ==
    /\ \A t \in Tasks : WF_vars(focus = "streams" /\ TaskStep(t))
    /\ WF_listenerVars(focus = "listener" /\ HandleEvent)
    /\ WF_listenerVars(focus = "listener" /\ Associate)
    /\ WF_listenerVars(focus = "listener" /\ GetAddress)
    /\ WF_listenerVars(focus = "listener" /\ ThenConnect)
    /\ WF_listenerVars(focus = "listener" /\ ServerStep)
    /\ WF_listenerVars(focus = "listener" /\ AcceptAgain)
    /\ WF_listenerVars(focus = "listener" /\ KeepAlive)

PartsSpec == PartsInit /\ [][PartsNext]_partsVars /\ PartsFair

-----------------------------------------------------------------------------

\* The type invariants of the parts, each with the coherence it states.
TypesOK ==
    /\ TypeOK
    /\ GpioTypeOK
    /\ LoggerTypeOK
    /\ ListenerTypeOK
    /\ DispatchTypeOK
    /\ DriversTypeOK
    /\ FsTypeOK
    /\ DiscoveryTypeOK

\* What the commands recorded of a peripheral is what its driver has: see
\* WatchTableAgrees and TablesMatch.
TablesAgree == WatchTableAgrees /\ TablesMatch

\* After a stop arrives at most what was already under way: see OneLateEvent
\* and LateLines.
LateEvents == OneLateEvent /\ LateLines
===============================================================================
