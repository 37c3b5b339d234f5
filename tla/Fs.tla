---------------------------------- MODULE Fs ----------------------------------
(***************************************************************************)
(* The FS_ commands (fs.c) on SPIFFS: a file is opened truncated, written, *)
(* and closed without a look at whether the close could flush it.  Power   *)
(* may go at any moment, and a mount that fails formats the partition.     *)
(*                                                                         *)
(* A byte of a file is the FS_WRITE it came from.                          *)
(***************************************************************************)
EXTENDS Naturals, Sequences

CONSTANTS
    Paths,
    MAX_FILE_BYTES,  \* 8192 in the code
    MaxWrites,       \* bound: FS_WRITE commands
    NoFile

ASSUME FsAssumption ==
    /\ MAX_FILE_BYTES \in Nat /\ MaxWrites \in Nat
    /\ \A n \in 0..MAX_FILE_BYTES : NoFile \notin [1..n -> 1..MaxWrites]

VARIABLES
    s_mounted,
    registered,  \* SPIFFS: the partition is mounted under /sp
    files,       \* flash: the bytes of each file
    writing,     \* the FS_WRITE under way: its path, its bytes and how many are flushed
    writes       \* how many there have been, which names the last

fsVars == <<s_mounted, registered, files, writing, writes>>

NotWriting == [path |-> NoFile, size |-> 0, done |-> 0]

FsInit ==
    /\ s_mounted = FALSE
    /\ registered = FALSE
    /\ files = [p \in Paths |-> NoFile]
    /\ writing = NotWriting
    /\ writes = 0

-----------------------------------------------------------------------------
(* Faults: what a definition below would be with a plausible slip in it.   *)

InPlace(p) == IF files[p] = NoFile THEN <<>> ELSE files[p]

-----------------------------------------------------------------------------

Erased == [p \in Paths |-> NoFile]

\* esp_vfs_spiffs_register, format_if_mount_failed; refused when registered.
EnsureMount ==
    /\ writing = NotWriting
    /\ ~s_mounted
    /\ IF registered
       THEN UNCHANGED <<s_mounted, registered, files>>
       ELSE /\ s_mounted' = TRUE
            /\ registered' = TRUE
            /\ files' \in {files, Erased}
    /\ UNCHANGED <<writing, writes>>

Ready == writing = NotWriting /\ registered

Truncated(p) == <<>>

\* A failing fopen changes nothing.
OpenForWrite(p, n) ==
    /\ Ready
    /\ writes < MaxWrites
    /\ writes' = writes + 1
    /\ files' = [files EXCEPT ![p] = Truncated(p)]
    /\ writing' = [path |-> p, size |-> n, done |-> 0]
    /\ UNCHANGED <<s_mounted, registered>>

\* The bytes reach the flash one after the other, in fwrite or in fclose.
FlushByte ==
    LET i == writing.done + 1 IN
    /\ i <= writing.size
    /\ files' = [files EXCEPT ![writing.path] =
                    IF i <= Len(@) THEN [@ EXCEPT ![i] = writes] ELSE Append(@, writes)]
    /\ writing' = [writing EXCEPT !.done = i]
    /\ UNCHANGED <<s_mounted, registered, writes>>

\* With all of them there or, the flash being full, not.
Close ==
    /\ writing # NotWriting
    /\ writing' = NotWriting
    /\ UNCHANGED <<s_mounted, registered, files, writes>>

Delete(p) ==
    /\ Ready
    /\ files[p] # NoFile
    /\ files' = [files EXCEPT ![p] = NoFile]
    /\ UNCHANGED <<s_mounted, registered, writing, writes>>

\* A partition that was mounted is mounted again; a failure may come late.
Format(ok) ==
    /\ writing = NotWriting
    /\ files' \in IF ok THEN {Erased} ELSE {files, Erased}
    /\ s_mounted' = (s_mounted /\ ~ok)
    /\ UNCHANGED <<registered, writing, writes>>

PowerLoss ==
    /\ s_mounted' = FALSE
    /\ registered' = FALSE
    /\ writing' = NotWriting
    /\ UNCHANGED <<files, writes>>

FsNext ==
    \/ EnsureMount
    \/ \E p \in Paths, n \in 0..MAX_FILE_BYTES : OpenForWrite(p, n)
    \/ FlushByte \/ Close
    \/ \E p \in Paths : Delete(p)
    \/ \E ok \in BOOLEAN : Format(ok)
    \/ PowerLoss

FsSpec == FsInit /\ [][FsNext]_fsVars

-----------------------------------------------------------------------------
(* Properties.                                                             *)

Contents == UNION {[1..n -> 1..MaxWrites] : n \in 0..MAX_FILE_BYTES}

\* Types (fs.c 20-22).
FsTypeOK ==
    /\ s_mounted \in BOOLEAN /\ registered \in BOOLEAN
    /\ s_mounted => registered
    /\ files \in [Paths -> Contents \cup {NoFile}]
    /\ writing = NotWriting \/ writing \in [path : Paths, size : 0..MAX_FILE_BYTES, done : 0..MAX_FILE_BYTES]
    /\ writes \in 0..MaxWrites

\* Whenever power goes and whatever fails, a file holds bytes of one FS_WRITE
\* and of no other, from its first on (fs.c 100-103).
OneWriteEach ==
    \A p \in Paths : files[p] # NoFile =>
        \A i, j \in 1..Len(files[p]) : files[p][i] = files[p][j]
===============================================================================
