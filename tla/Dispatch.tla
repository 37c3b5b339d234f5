------------------------------- MODULE Dispatch -------------------------------
(***************************************************************************)
(* Commands (cmd.c): a line is split into words in place, the table is     *)
(* searched for the first one, its handler runs, and what it answered and  *)
(* the error code it set become the reply.  The server task does this      *)
(* while the main task may still be registering: project_init runs after   *)
(* core_init has started the server task (main.c).                         *)
(*                                                                         *)
(* A line is a sequence of characters, of which only the four classes that *)
(* the tokenizer tells apart are kept; a handler is named by its command.  *)
(* Stores to the table are taken in program order.                         *)
(***************************************************************************)
EXTENDS Naturals, Sequences, FiniteSets

CONSTANTS
    Builtins,   \* commands core_init registers
    Project,    \* names project_init registers, in order
    Lines,      \* lines a client sends
    MAX_CMDS,   \* CONFIG_ESPSHELL_MAX_REGISTERED_CMDS
    MAX_NAME,   \* ESPSHELL_CMD_MAX_NAME, 31 in the code
    MAX_ARGV,   \* ESPSHELL_CMD_MAX_ARGV, 16 in the code
    Codes       \* error codes handlers set

E_UNKNOWN_CMD == 1
E_INTERNAL    == 9

Chars == {"space", "quote", "backslash", "other"}

ASSUME DispatchAssumption ==
    /\ MAX_CMDS \in Nat /\ MAX_NAME \in Nat /\ MAX_ARGV \in Nat \ {0}
    /\ Codes \subseteq Nat \ {0}
    /\ IsFiniteSet(Builtins) /\ Cardinality(Builtins) <= MAX_CMDS
    /\ \A name \in Builtins : Len(name) \in 1..MAX_NAME
    /\ Project \in Seq(Seq(Chars)) /\ Lines \subseteq Seq(Chars)

VARIABLES
    s_tbl, s_n,
    registering, \* the main task: <<the name's index in Project, the store that is next>>
    s_last_err,
    dispatching, \* where the server task is in cmd_dispatch
    line, argv,  \* the line it got, and its words
    index,       \* the entry it looks at
    ran,         \* history: what the handler was given and did
    absent,      \* history: the name was not there when the search began
    reply

tableVars    == <<s_tbl, s_n, registering>>
serveVars    == <<s_last_err, dispatching, line, argv, index, ran, absent, reply>>
dispatchVars == <<tableVars, serveVars>>

NoEntry == [name |-> <<>>, fn |-> <<>>]
Nothing == [kind |-> "none"]

DispatchInit ==
    /\ s_n = Cardinality(Builtins)
    /\ \E order \in [1..Cardinality(Builtins) -> Builtins] :
          /\ {order[i] : i \in DOMAIN order} = Builtins
          /\ s_tbl = [i \in 1..MAX_CMDS |->
                         IF i \in DOMAIN order THEN [name |-> order[i], fn |-> order[i]]
                                               ELSE NoEntry]
    /\ registering = <<1, "check">>
    /\ s_last_err = 0
    /\ dispatching = "idle"
    /\ line = <<>> /\ argv = <<>>
    /\ index = 1
    /\ ran = Nothing
    /\ absent = FALSE
    /\ reply = Nothing

-----------------------------------------------------------------------------
(* Faults: what a definition below would be with a plausible slip in it.   *)

CountFirst == [check |-> "count", count |-> "name", name |-> "fn", fn |-> "done"]

LeaveErr == s_last_err

EndAtQuote(t) ==
    LET c == t.mem[t.p]
        q == IF c = "backslash" /\ t.mem[t.p + 1] \in {"quote", "backslash"} THEN t.p + 1 ELSE t.p
    IN  IF c \in {"NUL", "quote"}
        THEN [t EXCEPT !.at = "blanks", !.p = IF c = "quote" THEN t.p + 1 ELSE t.p,
                       !.mem = [t.mem EXCEPT ![t.p] = "NUL"]]
        ELSE [t EXCEPT !.p = q + 1, !.w = t.w + 1, !.mem = [t.mem EXCEPT ![t.w] = t.mem[q]]]

-----------------------------------------------------------------------------
(* cmd_register, in the main task.                                         *)

RegisterOrder == [check |-> "name", name |-> "fn", fn |-> "count", count |-> "done"]

Registering(what) == registering[1] <= Len(Project) /\ registering[2] = what

Then(what) ==
    registering' = IF RegisterOrder[what] = "done" THEN <<registering[1] + 1, "check">>
                                                   ELSE <<registering[1], RegisterOrder[what]>>

\* NULL, no name or one too long, a full table and a name that is taken refuse
\* it; nobody looks at the result.  <<>> is a NULL name or handler too.
CheckName ==
    LET name == Project[registering[1]] IN
    /\ Registering("check")
    /\ IF /\ Len(name) \in 1..MAX_NAME
          /\ s_n < MAX_CMDS
          /\ \A i \in 1..s_n : s_tbl[i].name # name
       THEN Then("check")
       ELSE registering' = <<registering[1] + 1, "check">>
    /\ UNCHANGED <<s_tbl, s_n>>

\* Where the entry under way is, whether it is counted already or not.
NewEntry == IF RegisterOrder["check"] = "count" THEN s_n ELSE s_n + 1

StoreName ==
    /\ Registering("name")
    /\ s_tbl' = [s_tbl EXCEPT ![NewEntry].name = Project[registering[1]]]
    /\ Then("name")
    /\ UNCHANGED s_n

StoreFn ==
    /\ Registering("fn")
    /\ s_tbl' = [s_tbl EXCEPT ![NewEntry].fn = Project[registering[1]]]
    /\ Then("fn")
    /\ UNCHANGED s_n

CountEntry ==
    /\ Registering("count")
    /\ s_n' = s_n + 1
    /\ Then("count")
    /\ UNCHANGED s_tbl

Register == (CheckName \/ StoreName \/ StoreFn \/ CountEntry) /\ UNCHANGED serveVars

-----------------------------------------------------------------------------
(* tokenize, a character at a time.  `mem' is the line's memory, whose     *)
(* last cell holds "NUL", `p' and `w' are the code's pointers, and `at' is *)
(* the loop it is in.                                                      *)

Memory(l) == [i \in 1..(Len(l) + 1) |-> IF i <= Len(l) THEN l[i] ELSE "NUL"]

Begin(l) == [at |-> "blanks", mem |-> Memory(l), p |-> 1, w |-> 1, starts |-> <<>>]

\* Skips a blank, or starts a word; with MAX_ARGV of them it stops.
Blanks(t) ==
    LET c == t.mem[t.p] IN
    IF c = "NUL" \/ Len(t.starts) = MAX_ARGV THEN t
    ELSE IF c = "space" THEN [t EXCEPT !.p = t.p + 1]
    ELSE IF c = "quote"
    THEN [t EXCEPT !.at = "quoted", !.p = t.p + 1, !.w = t.p + 1, !.starts = Append(t.starts, t.p + 1)]
    ELSE [t EXCEPT !.at = "word", !.p = t.p + 1, !.starts = Append(t.starts, t.p)]

InWord(t) ==
    LET c == t.mem[t.p] IN
    IF c = "NUL" THEN t
    ELSE IF c = "space"
    THEN [t EXCEPT !.at = "blanks", !.p = t.p + 1, !.mem = [t.mem EXCEPT ![t.p] = "NUL"]]
    ELSE [t EXCEPT !.p = t.p + 1]

\* Copies the word down over its escapes: its NUL goes where w ended.
Quoted(t) ==
    LET c == t.mem[t.p]
        q == IF c = "backslash" /\ t.mem[t.p + 1] \in {"quote", "backslash"} THEN t.p + 1 ELSE t.p
    IN  IF c \in {"NUL", "quote"}
        THEN [t EXCEPT !.at = "blanks", !.p = IF c = "quote" THEN t.p + 1 ELSE t.p,
                       !.mem = [t.mem EXCEPT ![t.w] = "NUL"]]
        ELSE [t EXCEPT !.p = q + 1, !.w = t.w + 1, !.mem = [t.mem EXCEPT ![t.w] = t.mem[q]]]

TokenStep(t) ==
    CASE t.at = "blanks" -> Blanks(t)
      [] t.at = "word"   -> InWord(t)
      [] t.at = "quoted" -> Quoted(t)

\* Where it is after each step; a step passes a character or ends a word.
Scan(l) ==
    LET after[n \in 0..(Len(l) + 1)] == IF n = 0 THEN Begin(l) ELSE TokenStep(after[n - 1])
    IN  after

Least(S) == CHOOSE i \in S : \A j \in S : i <= j

\* The string at a place in memory.
CString(mem, i) == SubSeq(mem, i, Least({j \in i..Len(mem) : mem[j] = "NUL"}) - 1)

tokenize(l) ==
    LET t == Scan(l)[Len(l) + 1]
    IN  [k \in 1..Len(t.starts) |-> CString(t.mem, t.starts[k])]

-----------------------------------------------------------------------------
(* cmd_dispatch, in the server task.                                       *)

Receive(l) ==
    /\ dispatching = "idle"
    /\ line' = l
    /\ argv' = tokenize(l)
    /\ index' = 1
    /\ ran' = Nothing
    /\ absent' = (argv' # <<>> /\ \A i \in 1..s_n : s_tbl[i].name # argv'[1])
    /\ IF argv' = <<>> THEN dispatching' = "done" /\ reply' = [kind |-> "OK", payload |-> FALSE]
                       ELSE dispatching' = "search" /\ reply' = Nothing
    /\ UNCHANGED s_last_err

\* s_n is read again before each entry.
Search ==
    /\ dispatching = "search"
    /\ index <= s_n
    /\ IF s_tbl[index].name = argv[1] THEN dispatching' = "call" /\ UNCHANGED index
                                      ELSE index' = index + 1 /\ UNCHANGED dispatching
    /\ UNCHANGED <<s_last_err, line, argv, ran, absent, reply>>

NotFound ==
    /\ dispatching = "search"
    /\ index > s_n
    /\ dispatching' = "done"
    /\ reply' = [kind |-> "ERR", code |-> E_UNKNOWN_CMD]
    /\ UNCHANGED <<s_last_err, line, argv, index, ran, absent>>

Cleared == 0

\* A handler answers or not, having written a payload or not, and having set
\* the code or not.
CallHandler(ok, payload, code) ==
    LET err == IF code = 0 THEN Cleared ELSE code IN
    /\ dispatching = "call"
    /\ s_last_err' = err
    /\ ran' = [kind |-> "ran", fn |-> s_tbl[index].fn, args |-> Tail(argv),
               ok |-> ok, payload |-> payload, code |-> code]
    /\ reply' = IF ok THEN [kind |-> "OK", payload |-> payload]
                      ELSE [kind |-> "ERR", code |-> IF err = 0 THEN E_INTERNAL ELSE err]
    /\ dispatching' = "done"
    /\ UNCHANGED <<line, argv, index, absent>>

SendReply ==
    /\ dispatching = "done"
    /\ dispatching' = "idle"
    /\ line' = <<>> /\ argv' = <<>>
    /\ index' = 1
    /\ ran' = Nothing
    /\ absent' = FALSE
    /\ reply' = Nothing
    /\ UNCHANGED s_last_err

Serve ==
    /\ \/ \E l \in Lines : Receive(l)
       \/ Search \/ NotFound
       \/ \E ok, payload \in BOOLEAN, code \in Codes \cup {0} : CallHandler(ok, payload, code)
       \/ SendReply
    /\ UNCHANGED tableVars

DispatchNext == Register \/ Serve

DispatchSpec == DispatchInit /\ [][DispatchNext]_dispatchVars

-----------------------------------------------------------------------------
(* Properties.                                                             *)

\* Types (cmd.c 17-31).
DispatchTypeOK ==
    /\ s_n \in 0..MAX_CMDS
    /\ \A i \in 1..s_n : s_tbl[i].name = s_tbl[i].fn
    /\ registering \in (1..(Len(Project) + 1)) \X {"check", "name", "fn", "count"}
    /\ s_last_err \in Codes \cup {0}
    /\ dispatching \in {"idle", "search", "call", "done"}
    /\ Len(argv) <= MAX_ARGV
    /\ index \in 1..(MAX_CMDS + 1)

\* The words of a line, read off it without touching it: blanks separate them,
\* a quoted one ends at a quote no backslash escapes, and a backslash before a
\* quote or a backslash stands for it (cmd.c 69-71).
Backslashes(l, s, i) ==  \* how many directly before i, from s on
    Cardinality({j \in s..(i - 1) : \A k \in j..(i - 1) : l[k] = "backslash"})

Escaped(l, s, i) == l[i] \in {"quote", "backslash"} /\ Backslashes(l, s, i) % 2 = 1

Escaping(l, s, i) ==
    l[i] = "backslash" /\ ~Escaped(l, s, i) /\ i < Len(l) /\ Escaped(l, s, i + 1)

\* What stands between s and e, without the backslashes that escape.
Kept(l, s, e) == {i \in s..(e - 1) : ~Escaping(l, s, i)}
Nth(S, n)     == Least({i \in S : Cardinality({j \in S : j <= i}) = n})
Body(l, s, e) == [n \in 1..Cardinality(Kept(l, s, e)) |-> l[Nth(Kept(l, s, e), n)]]

\* Where what begins at p ends: a blank, a quoted word, or another.
EndFrom(l, p) ==
    CASE l[p] = "space" -> p
      [] l[p] = "quote" -> Least({i \in (p + 1)..Len(l) : l[i] = "quote" /\ ~Escaped(l, p + 1, i)}
                                 \cup {Len(l) + 1})
      [] OTHER          -> Least({i \in p..Len(l) : l[i] = "space"} \cup {Len(l) + 1})

WordFrom(l, p) ==
    CASE l[p] = "space" -> <<>>
      [] l[p] = "quote" -> <<Body(l, p + 1, EndFrom(l, p))>>
      [] OTHER          -> <<SubSeq(l, p, EndFrom(l, p) - 1)>>

WordsFrom(l) ==
    LET from[p \in 1..(Len(l) + 2)] ==
            IF p > Len(l) THEN <<>> ELSE WordFrom(l, p) \o from[EndFrom(l, p) + 1]
    IN  from

Words(l) == WordsFrom(l)[1]

FirstOnes(s) == SubSeq(s, 1, IF Len(s) < MAX_ARGV THEN Len(s) ELSE MAX_ARGV)

\* A reply is the one of the handler registered under the line's first word,
\* called with its other words, and its code is the one that handler set: never
\* that of an earlier command, nor of an entry half registered
\* (cmd.c 45-48, 72-99, 111-132).
ReplyIsOwn ==
    dispatching = "done" =>
        LET words == FirstOnes(Words(line)) IN
        IF words = <<>> THEN reply = [kind |-> "OK", payload |-> FALSE]
        ELSE IF ran = Nothing
        THEN absent /\ reply = [kind |-> "ERR", code |-> E_UNKNOWN_CMD]
        ELSE /\ ran.fn = words[1] /\ ran.args = Tail(words)
             /\ reply = IF ran.ok THEN [kind |-> "OK", payload |-> ran.payload]
                        ELSE [kind |-> "ERR", code |-> IF ran.code = 0 THEN E_INTERNAL ELSE ran.code]
===============================================================================
