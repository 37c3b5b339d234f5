-------------------------------- MODULE Ota --------------------------------
(***************************************************************************)
(* The firmware update of ota.c: one upload at a time into the slot that   *)
(* is not running, streamed through a SHA-256, committed by selecting the  *)
(* slot for the next boot.                                                 *)
(*                                                                         *)
(* The handlers run one after the other in the server task, so each is one *)
(* action; power may fail between any two of them.  A power failure inside *)
(* one leaves flash as it is before or after the handler, or with a slot   *)
(* that is being written, and is not the running one, incomplete.          *)
(*                                                                         *)
(* Sizes are counted in flash sectors, the unit in which esp_ota_begin     *)
(* erases.  A sector of a slot holds what belongs there in some image, or  *)
(* None: erased, or other bytes.  A digest is named by what was hashed:    *)
(* the first len sectors of image img, or None for anything else.          *)
(***************************************************************************)
EXTENDS Naturals

CONSTANTS
    Slots,      \* the two OTA app partitions
    Images,     \* bootable firmware images
    Size,       \* their sizes
    First,      \* the slot flashed over USB
    Factory,    \* and its image
    Cap,        \* size of a slot, in sectors
    Unknown,    \* OTA_SIZE_UNKNOWN of the IDF, 2^32 - 1
    Totals,     \* sizes a client gives to OTA_BEGIN
    Chunks,     \* lengths of OTA_DATA chunks
    None,       \* no slot, no handle, or bytes of no image
    MaxBegins,  \* bound: handles esp_ota_begin hands out
    MaxBoots    \* bound: boots

Content == [img : Images \cup {None}, len : Nat]   \* what was hashed
Blocks  == 0..(Cap - 1)                            \* the sectors of a slot

ASSUME OtaAssumption ==
    /\ \E p, q \in Slots : p # q /\ Slots = {p, q}
    /\ First \in Slots
    /\ Factory \in Images
    /\ Size \in [Images -> Nat \ {0}]
    /\ Cap \in Nat /\ Unknown \in Nat
    /\ Size[Factory] <= Cap
    /\ Totals \subseteq Nat
    /\ Chunks \subseteq Nat \ {0}
    /\ None \notin Slots \cup Images \cup Content
    /\ MaxBegins \in Nat /\ MaxBoots \in Nat

VARIABLES
    s,         \* ota_state_t
    hash,      \* what the PSA hash operation has absorbed; None when inactive
    handles,   \* IDF: the open update handles, each with its slot and offset
    nexth,     \* IDF: the last handle handed out
    flash,     \* content of each slot
    boot,      \* otadata: the slot selected for the next boot
    state,     \* otadata: image state of each slot
    running,   \* the slot the device booted; None while it is down
    up,        \* a client session is up
    timer,     \* the restart timer of OTA_END is armed
    boots,     \* boots so far
    chosen,    \* history: the slot OTA_END or OTA_ROLLBACK selected last
    origin     \* history: how each slot came by its content, one of Origins

idf    == <<handles, nexth>>
otadata == <<boot, state>>
device == <<running, up, timer, boots>>
ghosts == <<chosen, origin>>
vars   == <<s, hash, idf, flash, otadata, device, ghosts>>

\* usb:      flashed over USB
\* open:     an upload began, and none was committed since
\* over:     the same, over a slot committed and not yet booted
\* verified: OTA_END committed it, and the digest covers the whole image
\* short:    OTA_END committed it, but the image in it reaches past the upload
\* rolled:   open, then selected by OTA_ROLLBACK
Origins == {"usb", "open", "over", "verified", "short", "rolled"}

NoBytes == [img |-> None, len |-> 0]
Idle  == [active |-> FALSE, h |-> 0, part |-> None, total |-> 0,
          received |-> 0, expected |-> None]

OtaState == [active : BOOLEAN, h : Nat, part : Slots \cup {None}, total : Nat,
             received : Nat, expected : Images \cup {None}]

\* The digest after n more sectors of image i.
Extend(c, i, n) ==
    [img |-> IF (c.len = 0 \/ c.img = i) /\ i \in Images /\ c.len + n <= Size[i]
             THEN i ELSE None,
     len |-> c.len + n]

\* The slot c with its first n sectors erased.
Erase(c, n) == [k \in Blocks |-> IF k < n THEN None ELSE c[k]]

\* The slot c with n sectors written from sector at on: those of image i that
\* belong there, as far as it has any.
Write(c, at, i, n) ==
    [k \in Blocks |-> IF k < at \/ k >= at + n THEN c[k]
                      ELSE IF i \in Images /\ k < Size[i] THEN i ELSE None]

\* The image whose first n sectors are the slot's first n, if there is one.
Spells(c, n) ==
    IF /\ n # 0
       /\ c[0] \in Images /\ n <= Size[c[0]]
       /\ \A k \in Blocks : k < n => c[k] = c[0]
    THEN c[0] ELSE None

\* The image the slot starts with, if it is whole.  The IDF takes an image's
\* length from its header, so what lies behind it does not matter.
Holds(c) ==
    IF c[0] \in Images /\ Size[c[0]] <= Cap THEN Spells(c, Size[c[0]]) ELSE None
Bootable(c) == Holds(c) # None

Other(p) == CHOOSE q \in Slots : q # p

Init ==
    /\ s = Idle
    /\ hash = None
    /\ handles = [h \in {} |-> None]
    /\ nexth = 0
    /\ flash = [p \in Slots |-> [k \in Blocks |->
                    IF p = First /\ k < Size[Factory] THEN Factory ELSE None]]
    /\ boot = First
    /\ state = [p \in Slots |-> "undefined"]
    /\ running = First
    /\ up = FALSE
    /\ timer = FALSE
    /\ boots = 1
    /\ chosen = First
    /\ origin = [p \in Slots |-> IF p = First THEN "usb" ELSE "open"]

Ready == up /\ running # None

-----------------------------------------------------------------------------
(* Faults: what a definition below would be with a plausible slip in it.   *)

FitsUnchecked(n) == TRUE

AbortLeaksHandle ==
    /\ s' = IF s.active THEN Idle ELSE s
    /\ hash' = IF s.active THEN None ELSE hash
    /\ UNCHANGED handles

LengthOnly == s.received = s.total

UpdateInPlace == running

SetBootUnchecked(p) ==
    \/ boot' = p /\ state' = [state EXCEPT ![p] = "new"]
    \/ UNCHANGED otadata

DisconnectKeepsUpload ==
    /\ Ready
    /\ up' = FALSE
    /\ UNCHANGED <<s, hash, idf, flash, otadata, running, timer, boots, ghosts>>

-----------------------------------------------------------------------------
(* The update API of the IDF, as ota.c uses it.                            *)

NextUpdate == Other(running)

Open(h) == h \in DOMAIN handles

Without(h) == [g \in DOMAIN handles \ {h} |-> handles[g]]

\* esp_ota_begin refuses while the running image awaits confirmation, and
\* sizes it cannot erase; it erases the sectors the size covers, and the slot
\* where the size is 0 or unknown.
BeginAllowed(size) ==
    /\ state[running] # "pending"
    /\ size <= Cap \/ size = Unknown

EraseSize(size) == IF size \in {0, Unknown} THEN Cap ELSE size

\* esp_ota_write refuses to write past the slot.
Writable(n) == handles[s.h].at + n <= Cap

\* It appends at the handle's offset, and may fail on the way.
Written(i, n) == flash' = [flash EXCEPT ![s.part] = Write(@, handles[s.h].at, i, n)]

\* esp_ota_set_boot_partition verifies the image before it selects the slot.
SetBoot(p) ==
    /\ boot' = p
    /\ state' = [state EXCEPT ![p] = "new"]

\* esp_ota_get_last_invalid_partition (either of two), else the next update
\* partition.
GivenUp == {p \in Slots : state[p] = "aborted"}
RollbackTargets == IF GivenUp # {} THEN GivenUp ELSE {NextUpdate}

-----------------------------------------------------------------------------
(* ota.c: begin, data, end, abort, rollback.                               *)

\* abort_locked: after it no handle of ours and no hash operation is open.
AbortUpload ==
    /\ s' = IF s.active THEN Idle ELSE s
    /\ hash' = IF s.active THEN None ELSE hash
    /\ handles' = IF s.active /\ s.h # 0 THEN Without(s.h) ELSE handles

\* The slot's content is open again; or over, if the boot loader is still to
\* try it.
Reopened(p) == [origin EXCEPT ![p] = IF state[p] = "new" THEN "over" ELSE "open"]

\* An upload in progress is aborted first; then esp_ota_begin erases.
Begin(size, sha) ==
    LET h == nexth + 1
        p == NextUpdate
        left == IF s.active /\ s.h # 0 THEN Without(s.h) ELSE handles
    IN
    /\ Ready
    /\ nexth < MaxBegins
    /\ BeginAllowed(size)
    /\ nexth' = h
    /\ handles' = [g \in DOMAIN left \cup {h} |-> IF g = h THEN [part |-> p, at |-> 0] ELSE left[g]]
    /\ hash' = NoBytes
    /\ s' = [active |-> TRUE, h |-> h, part |-> p, total |-> size,
             received |-> 0, expected |-> sha]
    /\ flash' = [flash EXCEPT ![p] = Erase(@, EraseSize(size))]
    /\ origin' = Reopened(p)
    /\ UNCHANGED <<otadata, device, chosen>>

\* esp_ota_begin refuses, or fails after erasing n sectors: the earlier upload
\* is gone in any case.
BeginRefused(n) ==
    LET p == NextUpdate IN
    /\ Ready
    /\ s' = [IF s.active THEN Idle ELSE s EXCEPT !.part = p]
    /\ hash' = IF s.active THEN None ELSE hash
    /\ handles' = IF s.active /\ s.h # 0 THEN Without(s.h) ELSE handles
    /\ \/ n = 0 /\ UNCHANGED <<flash, origin>>
       \/ /\ n # 0 /\ state[running] # "pending"
          /\ flash' = [flash EXCEPT ![p] = Erase(@, n)]
          /\ origin' = Reopened(p)
    /\ UNCHANGED <<nexth, otadata, device, chosen>>

\* psa_hash_setup fails: the new handle is aborted, s.h keeps its number and
\* the sectors are erased.
BeginNoHash(size, sha) ==
    LET p == NextUpdate IN
    /\ Ready
    /\ nexth < MaxBegins
    /\ BeginAllowed(size)
    /\ nexth' = nexth + 1
    /\ handles' = IF s.active /\ s.h # 0 THEN Without(s.h) ELSE handles
    /\ hash' = None
    /\ s' = [active |-> FALSE, h |-> nexth + 1, part |-> p, total |-> size,
             received |-> 0, expected |-> sha]
    /\ flash' = [flash EXCEPT ![p] = Erase(@, EraseSize(size))]
    /\ origin' = Reopened(p)
    /\ UNCHANGED <<otadata, device, chosen>>

Fits(n) == s.received + n <= s.total

DataFailsKept(i, n) ==
    /\ Ready
    /\ s.active
    /\ Fits(n) /\ Writable(n)
    /\ Written(i, n)
    /\ handles' = [handles EXCEPT ![s.h].at = @ + n]
    /\ UNCHANGED <<s, hash, nexth, otadata, device, ghosts>>

\* A chunk, the next n sectors of image i: written, hashed, counted.
Data(i, n) ==
    /\ Ready
    /\ s.active
    /\ Fits(n)
    /\ Writable(n)
    /\ Written(i, n)
    /\ handles' = [handles EXCEPT ![s.h].at = @ + n]
    /\ hash' = Extend(hash, i, n)
    /\ s' = [s EXCEPT !.received = @ + n]
    /\ UNCHANGED <<nexth, otadata, device, ghosts>>

\* esp_ota_write or psa_hash_update fails.
DataFails(i, n) ==
    /\ Ready
    /\ s.active
    /\ Fits(n)
    /\ \E m \in 0..n : Writable(m) /\ Written(i, m)
    /\ AbortUpload
    /\ UNCHANGED <<nexth, otadata, device, ghosts>>

Verified == s.received = s.total /\ hash.img = s.expected

\* c_end creates the timer of esp_restart if there is none and starts it for
\* 200 ms.  It looks at neither result: the timer may not be armed.
ArmRestart == timer' \in {timer, TRUE}

\* What OTA_END makes of the slot it commits.
Vouched ==
    IF hash.img # s.expected THEN origin[s.part]
    ELSE IF Size[Holds(flash[s.part])] <= s.received THEN "verified" ELSE "short"

\* OTA_END on an upload whose length and digest match: the handle is closed
\* (esp_ota_end verifies the image in the slot itself), the slot selected, the
\* restart timer started.
End ==
    /\ Ready
    /\ s.active
    /\ Verified
    /\ Bootable(flash[s.part])
    /\ SetBoot(s.part)
    /\ handles' = Without(s.h)
    /\ s' = Idle
    /\ hash' = None
    /\ ArmRestart
    /\ origin' = [origin EXCEPT ![s.part] = Vouched]
    /\ chosen' = s.part
    /\ UNCHANGED <<nexth, flash, running, up, boots>>

\* Wrong length or digest, an image esp_ota_end rejects, or a failure of
\* psa_hash_finish, esp_ota_end or esp_ota_set_boot_partition.
EndFails ==
    /\ Ready
    /\ s.active
    /\ s' = Idle
    /\ hash' = None
    /\ handles' = Without(s.h)
    /\ UNCHANGED <<nexth, flash, otadata, device, ghosts>>

Abort ==
    /\ Ready
    /\ s.active
    /\ AbortUpload
    /\ UNCHANGED <<nexth, flash, otadata, device, ghosts>>

Rollback ==
    /\ Ready
    /\ \E p \in RollbackTargets :
          /\ Bootable(flash[p])
          /\ SetBoot(p)
          /\ chosen' = p
          /\ origin' = [origin EXCEPT ![p] = IF @ = "open" THEN "rolled" ELSE @]
    /\ UNCHANGED <<s, hash, idf, flash, device>>

-----------------------------------------------------------------------------
(* Sessions, restarts and the boot loader.                                 *)

Connect ==
    /\ running # None
    /\ ~up
    /\ up' = TRUE
    /\ UNCHANGED <<s, hash, idf, flash, otadata, running, timer, boots, ghosts>>

\* session_loop's teardown calls ota_abort.
Disconnect ==
    /\ Ready
    /\ up' = FALSE
    /\ AbortUpload
    /\ UNCHANGED <<nexth, flash, otadata, running, timer, boots, ghosts>>

\* Everything in RAM is gone.
GoDown ==
    /\ running' = None
    /\ up' = FALSE
    /\ timer' = FALSE
    /\ s' = Idle
    /\ hash' = None
    /\ handles' = [h \in {} |-> None]
    /\ UNCHANGED <<nexth, flash, otadata, boots, ghosts>>

\* The timer of c_end calls esp_restart.
Restart == running # None /\ timer /\ GoDown

\* Power loss, panic, REBOOT.
Crash == running # None /\ GoDown

\* The boot loader: an image still unconfirmed from its first boot is given
\* up.  Of the slots not given up the one selected last is tried, unconfirmed
\* from now on if it is new; the first slot when both are given up; and the
\* other one when the image cannot be booted.
Boot ==
    LET given == [p \in Slots |-> IF state[p] = "pending" THEN "aborted" ELSE state[p]]
        tried == IF given[boot] # "aborted" THEN boot
                 ELSE IF given[Other(boot)] # "aborted" THEN Other(boot) ELSE First
        p == IF Bootable(flash[tried]) THEN tried ELSE Other(tried)
    IN
    /\ running = None
    /\ boots < MaxBoots
    /\ Bootable(flash[p])
    /\ running' = p
    /\ boots' = boots + 1
    /\ state' = [given EXCEPT ![tried] = IF @ = "new" THEN "pending" ELSE @]
    /\ UNCHANGED <<s, hash, idf, flash, boot, up, timer, ghosts>>

Command ==
    \/ \E size \in Totals, sha \in Images \cup {None} : Begin(size, sha) \/ BeginNoHash(size, sha)
    \/ \E n \in 0..Cap : BeginRefused(n)
    \/ \E i \in Images \cup {None}, n \in Chunks : Data(i, n) \/ DataFails(i, n)
    \/ End \/ EndFails \/ Abort \/ Rollback

Next == Command \/ Connect \/ Disconnect \/ Restart \/ Crash \/ Boot

Spec == Init /\ [][Next]_vars

\* The timer fires and the boot loader runs; nothing makes a client act.
FairSpec == Spec /\ WF_vars(Restart) /\ WF_vars(Boot)

-----------------------------------------------------------------------------
(* Properties.                                                             *)

\* Types of ota_state_t and of the boot state; the count of received bytes
\* stays within the announced size (ota.c 82).
TypeOK ==
    /\ s \in OtaState
    /\ s.received <= s.total
    /\ hash \in Content \cup {None}
    /\ DOMAIN handles \subseteq 1..nexth
    /\ handles \in [DOMAIN handles -> [part : Slots, at : Nat]]
    /\ nexth \in Nat
    /\ flash \in [Slots -> [Blocks -> Images \cup {None}]]
    /\ boot \in Slots
    /\ state \in [Slots -> {"undefined", "new", "pending", "aborted"}]
    /\ running \in Slots \cup {None}
    /\ up \in BOOLEAN /\ timer \in BOOLEAN /\ boots \in Nat
    /\ chosen \in Slots
    /\ origin \in [Slots -> Origins]

\* An update handle and a hash operation are open exactly while an upload is
\* active: none leaks and none is closed twice on any path, the failures
\* included (ota.c 62, 71, 84-88, 98-116).
HandlesMatch ==
    /\ DOMAIN handles = IF s.active THEN {s.h} ELSE {}
    /\ hash # None <=> s.active

\* What OTA_END will judge is what lies in the slot: the bytes counted, hashed
\* and written agree, whatever failed on the way (ota.c 83-91).
CountsAgree ==
    s.active => /\ hash.img = Spells(flash[s.part], s.received)
                /\ hash.len = s.received
                /\ handles[s.h] = [part |-> s.part, at |-> s.received]

\* An upload never touches the running image, nor outlives its session
\* (ota.c 63, net.c 426).
UploadContained ==
    s.active => up /\ s.part # running

\* The device never runs what was merely uploaded: through any failure, power
\* loss and fallback, and for every update after the first, it runs the image
\* flashed over USB or one OTA_END committed on a matching SHA-256 (ota.c
\* 98-113).  Three ways lead round the check, and each counts for the upload it
\* concerns only: OTA_ROLLBACK selects an uncommitted slot; an upload goes over
\* a slot already committed and not booted yet; a matching upload is shorter
\* than the image whose remains lie behind it.
RunsVerified == running # None => origin[running] # "open"

\* Without the three: ota.c 12 calls verification mandatory.
RunsOnlyVerified == running # None => origin[running] \in {"usb", "verified"}

\* A power failure at any point leaves the boot loader an image to boot
\* (ota.c 63, 113).
NeverBricked == \E p \in Slots : Bootable(flash[p]) /\ (running # None => p = running)

\* Once the restart timer is armed, the device comes to run the slot selected,
\* whatever the client does in the 200 ms and wherever power fails; unless an
\* upload goes over that slot first, or the bound on boots is reached (ota.c
\* 157-172).
CommitBoots ==
    timer ~> \/ running = chosen
             \/ origin[chosen] \in {"open", "over"}
             \/ boots = MaxBoots

\* ota.c 7: OTA_END marks the image valid, so that it stays: the device does
\* not leave the slot chosen last by itself (it is never marked valid).
UpdateStays ==
    [][running = None /\ running' # None /\ Bootable(flash[chosen])
         => running' = chosen]_vars
=============================================================================
