-------------------------------- MODULE Upload --------------------------------
(***************************************************************************)
(* What `esp-ctl ota upload` promises its user: a file is committed on the *)
(* device as a whole or not at all, and at most once; exit status 0 means  *)
(* it is, 4 that it is not, 3 leaves both open (tools/esp-ctl/README.md,   *)
(* "Exit codes").                                                          *)
(***************************************************************************)
CONSTANTS Goals, None

VARIABLES
    verdict,    \* what the last upload told its user
    goal,       \* the image it was to upload
    done,       \* it has been committed
    installed   \* the image committed last

Init ==
    /\ verdict = "unknown"
    /\ goal = None
    /\ done = TRUE
    /\ installed = None

Start(i) ==
    /\ verdict # "running"
    /\ verdict' = "running"
    /\ goal' = i
    /\ done' = FALSE
    /\ UNCHANGED installed

\* A client that gave up may have asked for the commit already.
Install ==
    /\ verdict \in {"running", "unknown"}
    /\ ~done
    /\ done' = TRUE
    /\ installed' = goal
    /\ UNCHANGED <<verdict, goal>>

Report(v) ==
    /\ verdict = "running"
    /\ v = "ok" => done
    /\ v = "refused" => ~done
    /\ verdict' = v
    /\ UNCHANGED <<goal, done, installed>>

\* A run of another subcommand; what the last upload left behind stays.
Forget ==
    /\ verdict # "running"
    /\ verdict' = "unknown"
    /\ done' = TRUE
    /\ UNCHANGED <<goal, installed>>

Next ==
    \/ \E i \in Goals : Start(i)
    \/ Install
    \/ Forget
    \/ \E v \in {"ok", "refused", "unknown"} : Report(v)

Spec == Init /\ [][Next]_<<verdict, goal, done, installed>>
===============================================================================
