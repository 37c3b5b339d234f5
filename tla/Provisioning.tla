----------------------------- MODULE Provisioning -----------------------------
(***************************************************************************)
(* What the device remembers across restarts, and what it does with it:    *)
(* the token (auth.c), the station's credentials (net.c wifi_start), the   *)
(* store they live in (cfg.c over NVS) and the commands that change it.    *)
(*                                                                         *)
(* The handlers run one after the other in the server task, so each is one *)
(* action; where power lost between two of its effects leaves another      *)
(* state, losing it there is an action of its own.  RAM is read from the store at *)
(* boot only: the token and the driver's configuration are copies.         *)
(*                                                                         *)
(* A value is named, and has a length: the only thing its checks look at.  *)
(* The store outlives the firmware: between two boots a build with other   *)
(* compile-time defaults may be flashed.                                   *)
(***************************************************************************)
EXTENDS Naturals

CONSTANTS
    Values,     \* strings a client may store, and compile-time defaults
    Generated,  \* tokens of esp_fill_random
    Length,     \* their lengths
    Offered,    \* what clients store under each key
    Builds,     \* firmwares: the default of each key, None for ""
    Room,       \* what the buffer at boot holds, per key: 128, 32, 64
    DriverRoom, \* what wifi_start copies to the driver: 31, 63
    Cut,        \* a string's first n characters, for these limits n
    MinToken,   \* 16
    MaxValue,   \* ESPSHELL_CFG_MAX_VALUE
    None

Keys == {"auth_token", "wifi_ssid", "wifi_pass"}
All  == Values \cup Generated

Limits == {Room[k] : k \in Keys} \cup {DriverRoom[k] : k \in {"wifi_ssid", "wifi_pass"}}

ASSUME ProvisioningAssumption ==
    /\ Values \cap Generated = {}
    /\ None \notin All
    /\ Length \in [All -> Nat]
    /\ Offered \in [Keys -> SUBSET Values]
    /\ Builds \subseteq [Keys -> Values \cup {None}]
    /\ Room \in [Keys -> Nat \ {0}]
    /\ DriverRoom \in [{"wifi_ssid", "wifi_pass"} -> Nat \ {0}]
    /\ \A k \in {"wifi_ssid", "wifi_pass"} : DriverRoom[k] <= Room[k]
    /\ MinToken \in Nat \ {0} /\ MaxValue \in Nat
    /\ \A g \in Generated : Length[g] \in 1..Room["auth_token"]
    /\ \A b \in Builds, k \in Keys : b[k] # None => Length[b[k]] >= 1
    /\ Cut \in [Limits -> [Values -> Values]]
    /\ \A n \in Limits, v \in Values :
          IF Length[v] <= n THEN Cut[n][v] = v ELSE Length[Cut[n][v]] = n

VARIABLES
    nvs,      \* the store: the value under each key, or None
    open,     \* IDF: the handle cfg.c holds is valid
    s_token,  \* the token in RAM
    mode,     \* "down", "sta" or "ap"
    sta,      \* the credentials the Wi-Fi driver was given
    timer,    \* a restart timer is armed
    used,     \* history: tokens generated so far
    untold,   \* history: tokens stored by a boot cut off before it printed them
    shown,    \* history: tokens printed on the console or stored by a client
    asked,    \* history: the token CFG_SET stored last, None once deleted
    joining,  \* history: credentials WIFI_SET stored last, None once touched
    said,     \* history: credentials WIFI_SET said it reconnects with
    erased    \* history: FACTORY_RESET has erased the store since the boot

ram     == <<open, s_token, mode, sta, timer>>
history == <<used, untold, shown, asked, joining, said, erased>>
vars    == <<nvs, ram, history>>

Empty   == [k \in Keys |-> None]
NoCreds == [ssid |-> None, pass |-> None]
Preset  == {b["auth_token"] : b \in Builds} \ {None}

Init ==
    /\ nvs = Empty
    /\ open = FALSE
    /\ s_token = None
    /\ mode = "down"
    /\ sta = NoCreds
    /\ timer = FALSE
    /\ used = {}
    /\ untold = {}
    /\ shown = Preset
    /\ asked = None
    /\ joining = NoCreds
    /\ said = NoCreds
    /\ erased = FALSE

\* A client needs the token to get in.
Shell == mode # "down" /\ s_token \in shown

-----------------------------------------------------------------------------
(* Faults: what a definition below would be with a plausible slip in it.   *)

ShownQuietly(t) == shown

FitsOffByOne(k, v) == Length[v] <= Room[k] + 1

\* The size of the ssid's array in the copy of the password as well.
GivenBySsidSize(k, v) ==
    IF v = None THEN None ELSE Cut[DriverRoom["wifi_ssid"]][v]

\* The reader's buffer cannot hold the longest value and its NUL.
StoredWithoutNul(base, k) ==
    IF base[k] # None /\ Length[base[k]] \in 1..Room[k] - 1 THEN base[k] ELSE None

StoredUnbounded(base, k) ==
    IF base[k] # None /\ Length[base[k]] > 0 THEN base[k] ELSE None

EraseKeepsHandle == UNCHANGED open

-----------------------------------------------------------------------------
(* Boot: cfg_init, auth_init, wifi_start.                                  *)

Fits(k, v) == Length[v] <= Room[k]

\* nvs_get_str fails on a value longer than the buffer, and both callers take
\* an empty string for a missing one.
Stored(base, k) ==
    IF base[k] # None /\ Length[base[k]] \in 1..Room[k] THEN base[k] ELSE None

ReadOrDefault(base, k, build) ==
    IF Stored(base, k) # None THEN Stored(base, k)
    ELSE IF build[k] = None THEN None ELSE Cut[Room[k]][build[k]]

\* The token printed on the console.
Show(t) == shown \cup {t}

\* auth_init on the store as cfg_init found or erased it; the write of a
\* default or fresh token may fail, unnoticed.
LoadToken(base) ==
    /\ Stored(base, "auth_token") # None
    /\ s_token' = Stored(base, "auth_token")
    /\ nvs' = base
    /\ UNCHANGED <<used, untold, shown>>

\* Stored whole; in RAM only what the array holds of it.
DefaultToken(base, build) ==
    /\ Stored(base, "auth_token") = None
    /\ build["auth_token"] # None
    /\ s_token' = Cut[Room["auth_token"]][build["auth_token"]]
    /\ nvs' \in {base, [base EXCEPT !["auth_token"] = build["auth_token"]]}
    /\ UNCHANGED <<used, untold, shown>>

FreshToken(base, build) ==
    /\ Stored(base, "auth_token") = None
    /\ build["auth_token"] = None
    /\ \E g \in Generated \ used :
          /\ s_token' = g
          /\ used' = used \cup {g}
          /\ shown' = Show(g)
          /\ nvs' \in {base, [base EXCEPT !["auth_token"] = g]}
    /\ UNCHANGED untold

\* strncpy to the driver's arrays, the last byte left for a NUL.
Given(k, v) == IF v = None THEN None ELSE Cut[DriverRoom[k]][v]

Station(base, build) ==
    IF ReadOrDefault(base, "wifi_ssid", build) = None THEN NoCreds
    ELSE [ssid |-> Given("wifi_ssid", ReadOrDefault(base, "wifi_ssid", build)),
          pass |-> Given("wifi_pass", ReadOrDefault(base, "wifi_pass", build))]

\* wifi_start: with no ssid the device opens its own access point.
StartWifi(base, build) ==
    /\ mode' = IF ReadOrDefault(base, "wifi_ssid", build) = None THEN "ap" ELSE "sta"
    /\ sta' = Station(base, build)

\* nvs_flash_init may find pages it cannot use; cfg_init then erases them.
Opened(unusable) == IF unusable THEN Empty ELSE nvs

Forgotten(unusable) ==
    /\ asked' = IF unusable THEN None ELSE asked
    /\ joining' = IF unusable THEN NoCreds ELSE joining

Boot(build, unusable) ==
    LET base == Opened(unusable) IN
    /\ mode = "down"
    /\ open' = TRUE
    /\ LoadToken(base) \/ DefaultToken(base, build) \/ FreshToken(base, build)
    /\ StartWifi(base, build)
    /\ Forgotten(unusable)
    /\ said' = NoCreds
    /\ erased' = FALSE
    /\ UNCHANGED timer

\* Power fails when the fresh token is stored and not yet printed.
BootCutOff(build, unusable) ==
    LET base == Opened(unusable) IN
    /\ mode = "down"
    /\ Stored(base, "auth_token") = None
    /\ build["auth_token"] = None
    /\ \E g \in Generated \ used :
          /\ used' = used \cup {g}
          /\ untold' = untold \cup {g}
          /\ nvs' = [base EXCEPT !["auth_token"] = g]
    /\ Forgotten(unusable)
    /\ UNCHANGED <<ram, shown, said, erased>>

-----------------------------------------------------------------------------
(* CFG_SET, CFG_DEL, WIFI_SET.                                             *)

\* cfg_set_str and nvs_set_str refuse, or the key cannot be changed any more:
\* then nothing changes.
Writable(v) == open /\ Length[v] < MaxValue

CfgSet(k, v) ==
    /\ Shell
    /\ k = "auth_token" => Length[v] >= MinToken
    /\ Writable(v)
    /\ nvs' = [nvs EXCEPT ![k] = v]
    /\ asked' = IF k = "auth_token" THEN v ELSE asked
    /\ shown' = IF k = "auth_token" THEN shown \cup {v} ELSE shown
    /\ joining' = IF k = "auth_token" THEN joining ELSE NoCreds
    /\ UNCHANGED <<ram, used, untold, said, erased>>

CfgDel(k) ==
    /\ Shell
    /\ open
    /\ nvs[k] # None
    /\ nvs' = [nvs EXCEPT ![k] = None]
    /\ asked' = IF k = "auth_token" THEN None ELSE asked
    /\ joining' = IF k = "auth_token" THEN joining ELSE NoCreds
    /\ UNCHANGED <<ram, used, untold, shown, said, erased>>

\* In access point mode a restart is armed, if the timer can be created; else
\* net_reconnect disconnects and connects with what the driver has.
WifiSet(ssid, pass) ==
    LET creds == [ssid |-> ssid, pass |-> pass] IN
    /\ Shell
    /\ Fits("wifi_ssid", ssid) /\ Fits("wifi_pass", pass)
    /\ Writable(ssid) /\ Writable(pass)
    /\ nvs' = [nvs EXCEPT !["wifi_ssid"] = ssid, !["wifi_pass"] = pass]
    /\ joining' = creds
    /\ IF mode = "ap"
       THEN timer' \in {timer, TRUE} /\ UNCHANGED said
       ELSE said' = creds /\ UNCHANGED timer
    /\ UNCHANGED <<open, s_token, mode, sta, used, untold, shown, asked, erased>>

\* The second write fails, or power does before it.
WifiSetHalf(ssid, pass) ==
    /\ Shell
    /\ Fits("wifi_ssid", ssid) /\ Fits("wifi_pass", pass)
    /\ Writable(ssid)
    /\ nvs' = [nvs EXCEPT !["wifi_ssid"] = ssid]
    /\ joining' = NoCreds
    /\ UNCHANGED <<ram, used, untold, shown, asked, said, erased>>

-----------------------------------------------------------------------------
(* FACTORY_RESET, REBOOT and going down.                                   *)

\* nvs_flash_erase closes the partition, handles and all, before it erases.
EraseClosesHandle == open' = FALSE

\* Its result is not looked at.  Here and in REBOOT creating the timer is taken
\* to succeed.
FactoryReset ==
    /\ Shell
    /\ \/ nvs' = Empty /\ erased' = TRUE /\ asked' = None /\ joining' = NoCreds
       \/ UNCHANGED <<nvs, erased, asked, joining>>
    /\ EraseClosesHandle
    /\ timer' = TRUE
    /\ UNCHANGED <<s_token, mode, sta, used, untold, shown, said>>

\* Of two timers armed, or one armed twice, the first to expire restarts.
Reboot ==
    /\ Shell
    /\ timer' = TRUE
    /\ UNCHANGED <<nvs, open, s_token, mode, sta, history>>

GoDown ==
    /\ mode # "down"
    /\ mode' = "down"
    /\ open' = FALSE
    /\ s_token' = None
    /\ sta' = NoCreds
    /\ timer' = FALSE
    /\ said' = NoCreds
    /\ UNCHANGED <<nvs, used, untold, shown, asked, joining, erased>>

Restart == timer /\ GoDown

\* Power loss, panic, OTA, sleep.
Crash == GoDown

Command ==
    \/ \E k \in Keys : CfgDel(k) \/ \E v \in Offered[k] : CfgSet(k, v)
    \/ \E ssid \in Offered["wifi_ssid"], pass \in Offered["wifi_pass"] :
          WifiSet(ssid, pass) \/ WifiSetHalf(ssid, pass)
    \/ FactoryReset
    \/ Reboot

Next ==
    \/ Command \/ Restart \/ Crash
    \/ \E build \in Builds, unusable \in BOOLEAN :
          Boot(build, unusable) \/ BootCutOff(build, unusable)

Spec == Init /\ [][Next]_vars

-----------------------------------------------------------------------------
(* Properties.                                                             *)

Creds == [ssid : Values \cup {None}, pass : Values \cup {None}]

\* Types of the store, its copies and the histories; the token in RAM fits its
\* array (auth.c 17, 36-40).
TypeOK ==
    /\ nvs \in [Keys -> All \cup {None}]
    /\ open \in BOOLEAN /\ timer \in BOOLEAN /\ erased \in BOOLEAN
    /\ s_token \in All \cup {None}
    /\ s_token # None => Length[s_token] <= Room["auth_token"]
    /\ mode \in {"down", "sta", "ap"}
    /\ sta \in Creds /\ joining \in Creds
    /\ used \subseteq Generated /\ untold \subseteq used
    /\ shown \subseteq All
    /\ asked \in All \cup {None}
    /\ said \in Creds

\* A compile-time token as the array in RAM holds it.
DefaultTokens == {Cut[Room["auth_token"]][t] : t \in Preset}

\* Whatever was stored, failed to be stored, erased or found unusable, the
\* token the device checks against is one somebody was told, but in two cases:
\* power was lost between the store and the print of a fresh one (auth.c
\* 60-62), or the compile-time one does not fit and was cut (auth.c 46-48).
TokenTold ==
    mode # "down" => s_token \in shown \cup untold \cup (DefaultTokens \ Preset)

Booting == mode = "down" /\ mode' # "down"

\* A token that CFG_SET accepted and auth_init's buffer can hold is the one in
\* use from the next boot on (cmd_builtin.c 236-241, auth.c 38-43).
RotationHolds ==
    [][Booting /\ asked' # None /\ Length[asked'] <= Room["auth_token"]
          => s_token' = asked']_vars

\* What FACTORY_RESET erased cannot come back: no command in the time before
\* the restart restores it, and the next device to come up, after however many
\* boots cut off, has no old token and the credentials of its build
\* (cmd_builtin.c 133-146, cfg.c 39-43).
ResetForgets ==
    [][Booting /\ erased =>
          /\ s_token' \in DefaultTokens \/ s_token' \notin shown
          /\ \E b \in Builds : sta' = Station(Empty, b)]_vars

\* The driver's arrays hold these credentials with their NULs.
Whole(c) ==
    /\ Length[c.ssid] \in 1..DriverRoom["wifi_ssid"]
    /\ Length[c.pass] \in 1..DriverRoom["wifi_pass"]

\* After WIFI_SET stored credentials, and nothing changed them since, the next
\* boot is a station's whatever their lengths, and joins with exactly these if
\* they have at most 31 and 63 characters (wifi_mgmt.c 46-49, net.c 145-180);
\* of the 32 and 64 WIFI_SET accepts the last is cut off (net.c 177-178).
BootsSaved ==
    [][Booting /\ joining' # NoCreds /\ Length[joining'.ssid] > 0 =>
          /\ mode' = "sta"
          /\ Whole(joining') => sta' = joining']_vars

\* wifi_mgmt.c 2 and 60: the credentials go to the store, then the device
\* reconnects (net.c 206-211 reconnects with what it had).
SavedIsUsed == said # NoCreds => sta = said
===============================================================================
