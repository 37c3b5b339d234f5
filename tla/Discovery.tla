------------------------------ MODULE Discovery ------------------------------
(***************************************************************************)
(* esp-ctl discover (discover.c): a query, a window in which answers are   *)
(* collected, and a section of devices.toml for each device heard, which   *)
(* the user pastes into the file esp-ctl --device reads (profile.c).       *)
(*                                                                         *)
(* An answer is the sequence of its records, after name decompression,     *)
(* and the address it came from; the network loses, repeats and reorders   *)
(* answers as it likes.  What an answer says is printed as it is.          *)
(***************************************************************************)
EXTENDS Naturals, Sequences

CONSTANTS
    Records,      \* resource records an answer may have
    Breaks,       \* texts with a newline, or names with a "]": the lines they make
    Nameless,     \* the name of an instance without one
    Answers,      \* packets that may arrive: [records, src]
    MAX_DEVICES,  \* 16 in the code
    MaxAnswers,   \* bound: packets read in the window
    OldLines,     \* lines devices.toml may have before: [key, value]
    Existing,     \* contents it may have before
    TokenOf,      \* token of each instance, as a function
    Missing       \* no such field

ASSUME DiscoveryAssumption ==
    /\ MAX_DEVICES \in Nat /\ MaxAnswers \in Nat
    /\ \A r \in Records :
          /\ r.type = "PTR" => r.instance # Missing /\ TokenOf[r.instance] # Missing
          /\ r.type = "SRV" => r.port \in Nat
          /\ r.type = "A" => r.host # Missing /\ r.ip # Missing
    /\ "espshell" # Missing /\ TokenOf["espshell"] # Missing
    /\ Nameless # Missing /\ Missing \notin DOMAIN Breaks
    /\ \A text \in DOMAIN Breaks : Breaks[text] \in Seq(OldLines)
    /\ \A pkt \in Answers : pkt.records \in Seq(Records) /\ pkt.src # Missing
    /\ Existing \subseteq Seq(OldLines)

VARIABLES
    window,    \* "open", "printed", or "pasted"
    devs,      \* the devices listed
    firsts,    \* history: the answer each was listed for
    received,
    file,      \* devices.toml
    private    \* its mode grants others nothing

discoveryVars == <<window, devs, firsts, received, file, private>>

DiscoveryInit ==
    /\ window = "open"
    /\ devs = <<>> /\ firsts = <<>>
    /\ received = 0
    /\ file \in Existing
    /\ private \in BOOLEAN

-----------------------------------------------------------------------------
(* Faults: what a definition below would be with a plausible slip in it.   *)

NeverDup(d) == FALSE

-----------------------------------------------------------------------------
(* parse_response and the loop of do_discover.                             *)

NoDevice == [instance |-> Missing, hostname |-> Missing, port |-> 0, txt |-> Missing,
             a_host |-> Missing, a_ip |-> Missing]

\* A later record of a type replaces an earlier one.
Note(d, r) ==
    CASE r.type = "PTR" -> [d EXCEPT !.instance = r.instance]
      [] r.type = "SRV" -> [d EXCEPT !.hostname = r.host, !.port = r.port]
      [] r.type = "TXT" -> [d EXCEPT !.txt = r.txt]
      [] r.type = "A"   -> [d EXCEPT !.a_host = r.host, !.a_ip = r.ip]
      [] OTHER          -> d

Noting(rs) ==
    LET after[n \in 0..Len(rs)] == IF n = 0 THEN NoDevice ELSE Note(after[n - 1], rs[n])
    IN  after

Parse(pkt) == Noting(pkt.records)[Len(pkt.records)]

\* The A record that matches the SRV target, else the packet's source.
Device(pkt) ==
    LET d == Parse(pkt) IN
    [instance |-> IF d.instance = Nameless THEN "espshell" ELSE d.instance,
     hostname |-> d.hostname, txt |-> d.txt,
     ip   |-> IF d.a_ip # Missing /\ d.hostname \in {Missing, d.a_host} THEN d.a_ip ELSE pkt.src,
     port |-> IF d.port = 0 THEN 9000 ELSE d.port]

Dup(d) == \E i \in 1..Len(devs) : devs[i].instance = d.instance

Hear(pkt) ==
    LET d == Device(pkt) IN
    /\ window = "open"
    /\ received < MaxAnswers
    /\ received' = received + 1
    /\ IF d.instance = Missing \/ Dup(d) \/ Len(devs) = MAX_DEVICES
       THEN UNCHANGED <<devs, firsts>>
       ELSE devs' = Append(devs, d) /\ firsts' = Append(firsts, pkt)
    /\ UNCHANGED <<window, file, private>>

\* With nothing heard it says so, and there is nothing to paste.
Deadline ==
    /\ window = "open"
    /\ window' = "printed"
    /\ UNCHANGED <<devs, firsts, received, file, private>>

\* The lines a text starts in the middle of one, a comment.
Started(text) == IF text \in DOMAIN Breaks THEN Breaks[text] ELSE <<>>

Heading(name) ==
    IF name \in DOMAIN Breaks THEN Breaks[name] ELSE <<[key |-> "[", value |-> name]>>

\* The user fills the token in where it is to be pasted.
Section(d) ==
    Heading(d.instance)
        \o <<[key |-> "host", value |-> d.ip]>> \o Started(d.hostname)
        \o <<[key |-> "port", value |-> d.port]>> \o Started(d.txt)
        \o <<[key |-> "token", value |-> TokenOf[d.instance]]>>

Printing(ds) ==
    LET text[n \in 0..Len(ds)] == IF n = 0 THEN <<>> ELSE text[n - 1] \o Section(ds[n])
    IN  text

Printed == Printing(devs)[Len(devs)]

Paste ==
    /\ window = "printed"
    /\ window' = "pasted"
    /\ file' = file \o Printed
    /\ UNCHANGED <<devs, firsts, received, private>>

Chmod ==
    /\ private' = ~private
    /\ UNCHANGED <<window, devs, firsts, received, file>>

DiscoveryNext == (\E pkt \in Answers : Hear(pkt)) \/ Deadline \/ Paste \/ Chmod

DiscoverySpec == DiscoveryInit /\ [][DiscoveryNext]_discoveryVars

-----------------------------------------------------------------------------
(* profile_load.                                                           *)

NoProfile == [in_section |-> FALSE, host |-> Missing, port |-> 9000, token |-> Missing]

\* Every section of the name counts, and the last value of a key.
ReadLine(name, p, l) ==
    IF l.key = "[" THEN [p EXCEPT !.in_section = (l.value = name)]
    ELSE IF p.in_section /\ l.key \in {"host", "port", "token"}
    THEN [p EXCEPT ![l.key] = l.value]
    ELSE p

Loading(name, f) ==
    LET after[n \in 0..Len(f)] == IF n = 0 THEN NoProfile ELSE ReadLine(name, after[n - 1], f[n])
    IN  after

\* The profile, or Missing: a file others can read is refused.
profile_load(name) ==
    LET p == Loading(name, file)[Len(file)] IN
    IF private /\ p.host # Missing /\ p.token # Missing
    THEN [host |-> p.host, port |-> p.port, token |-> p.token]
    ELSE Missing

-----------------------------------------------------------------------------
(* Properties.                                                             *)

\* Types (discover.c 35-41, 183-184).
DiscoveryTypeOK ==
    /\ window \in {"open", "printed", "pasted"}
    /\ Len(devs) <= MAX_DEVICES /\ Len(firsts) = Len(devs)
    /\ received \in 0..MaxAnswers
    /\ private \in BOOLEAN

\* What the first n of an answer's records say of a type: the last one does.
Says(rs, n, type) ==
    {rs[i] : i \in {j \in 1..n : /\ rs[j].type = type
                               /\ \A k \in (j + 1)..n : rs[k].type # type}}

Address(pkt) ==
    LET said(type) == Says(pkt.records, Len(pkt.records), type)
        matching   == {a \in said("A") : \A s \in said("SRV") : s.host \in {Missing, a.host}}
    IN  IF matching = {} THEN pkt.src ELSE (CHOOSE a \in matching : TRUE).ip

Port(pkt) ==
    LET ports == {s.port : s \in Says(pkt.records, Len(pkt.records), "SRV")} \ {0}
    IN  IF ports = {} THEN 9000 ELSE CHOOSE port \in ports : TRUE

\* What a device says of itself is read back as what it is.
Plain(d) == {d.instance, d.hostname, d.txt} \cap DOMAIN Breaks = {}

\* A device listed can be used under its name once its section is in the file,
\* whatever the file held before, and leads to the address and port of the
\* answer it was listed for, unless its own text or that of a device listed
\* after it holds a newline (discover.c 148-155, 211-218, 225-233, profile.c
\* 63-112).  Such a text can write any line, a section of another name included;
\* those listed before it can do nothing.
ListedCanBeLoaded ==
    window = "pasted" /\ private =>
        \A i \in 1..Len(devs) :
            (\A j \in i..Len(devs) : Plain(devs[j])) =>
                profile_load(devs[i].instance) =
                    [host |-> Address(firsts[i]), port |-> Port(firsts[i]),
                     token |-> TokenOf[devs[i].instance]]
===============================================================================
