-------------------------- MODULE ProvisioningProofs --------------------------
(***************************************************************************)
(* Proofs of the invariants and action properties of Provisioning, for     *)
(* every set of values, every length and every limit.                      *)
(*                                                                         *)
(* The properties look at a boot; the invariant says what the store must   *)
(* hold before it, and why no command of a device whose store was erased   *)
(* can write it again.                                                     *)
(***************************************************************************)
EXTENDS Provisioning, TLAPS

\* What each key may hold, and which tokens somebody was told or nobody was.
StoreInv ==
    /\ nvs["wifi_ssid"] \in Values \cup {None}
    /\ nvs["wifi_pass"] \in Values \cup {None}
    /\ nvs["auth_token"] \in shown \cup untold \cup {None}
    /\ Preset \subseteq shown
    /\ shown \subseteq Values \cup used
    /\ untold \cap shown = {}

\* A token a client stored is in the store, unless it is too long to be read.
AskedInv ==
    asked # None /\ Length[asked] <= Room["auth_token"]
        => nvs["auth_token"] = asked /\ Length[asked] >= 1

\* An erased store stays empty, the handle it was written through being gone,
\* but for the token of a boot cut off.
ErasedInv ==
    erased => /\ nvs["wifi_ssid"] = None /\ nvs["wifi_pass"] = None
              /\ nvs["auth_token"] \in untold \cup {None}
              /\ mode # "down" => ~open

\* Credentials stored together are still together, and can be read back.
JoiningInv ==
    joining # NoCreds =>
        /\ joining.ssid \in Values /\ joining.pass \in Values
        /\ nvs["wifi_ssid"] = joining.ssid /\ Fits("wifi_ssid", joining.ssid)
        /\ nvs["wifi_pass"] = joining.pass /\ Fits("wifi_pass", joining.pass)

Inv == TypeOK /\ TokenTold /\ StoreInv /\ AskedInv /\ ErasedInv /\ JoiningInv

-----------------------------------------------------------------------------

USE ProvisioningAssumption DEF ram, history, Keys

LEMMA Lengths ==
    ASSUME NEW v \in All
    PROVE  Length[v] \in Nat
OBVIOUS

\* What is read back is what is there, and fits the reader's buffer.
LEMMA ReadBack ==
    ASSUME NEW base \in [Keys -> All \cup {None}], NEW k \in Keys
    PROVE  /\ Stored(base, k) # None =>
                 Stored(base, k) = base[k] /\ Length[base[k]] \in 1..Room[k]
           /\ Stored(base, k) = None \/ Stored(base, k) = base[k]
           /\ base[k] # None /\ 1 <= Length[base[k]] /\ Length[base[k]] <= Room[k]
                 => Stored(base, k) = base[k]
<1>1. base[k] # None => Length[base[k]] \in Nat
    BY Lengths
<1> QED BY <1>1 DEF Stored

LEMMA EmptyStore == Empty \in [Keys -> All \cup {None}] /\ \A k \in Keys : Empty[k] = None
BY DEF Empty

\* Cutting keeps a string that fits and makes any other fit.
LEMMA CutFacts ==
    ASSUME NEW n \in Limits, NEW v \in Values
    PROVE  /\ Cut[n][v] \in Values
           /\ Length[v] <= n => Cut[n][v] = v
           /\ Length[Cut[n][v]] <= n
<1>1. Cut[n][v] \in Values
    OBVIOUS
<1>2. n \in Nat /\ Length[v] \in Nat
    BY DEF Limits, All
<1>3. IF Length[v] <= n THEN Cut[n][v] = v ELSE Length[Cut[n][v]] = n
    OBVIOUS
<1>4. CASE Length[v] <= n
    BY <1>1, <1>3, <1>4
<1>5. CASE ~(Length[v] <= n)
    BY <1>1, <1>2, <1>3, <1>5
<1> QED BY <1>4, <1>5

LEMMA LimitFacts ==
    /\ Room["auth_token"] \in Limits
    /\ Room["wifi_ssid"] \in Limits /\ Room["wifi_pass"] \in Limits
    /\ DriverRoom["wifi_ssid"] \in Limits /\ DriverRoom["wifi_pass"] \in Limits
BY DEF Limits

LEMMA BlankCreds == NoCreds \in Creds
BY DEF NoCreds, Creds

LEMMA PresetValues == Preset \subseteq Values /\ Preset \subseteq All
BY DEF Preset, All

\* Whichever way auth_init gets its token, the token fits, the operator knows
\* it, and only the token's slot was written.
LEMMA TokenLoaded ==
    ASSUME Inv,
           NEW base \in [Keys -> All \cup {None}],
           base["auth_token"] \in shown \cup untold \cup {None},
           NEW build \in Builds,
           LoadToken(base) \/ DefaultToken(base, build) \/ FreshToken(base, build)
    PROVE  /\ nvs' \in [Keys -> All \cup {None}]
           /\ nvs'["wifi_ssid"] = base["wifi_ssid"]
           /\ nvs'["wifi_pass"] = base["wifi_pass"]
           /\ s_token' \in All /\ Length[s_token'] <= Room["auth_token"]
           /\ s_token' \in shown' \cup untold' \cup (DefaultTokens \ Preset)
           /\ shown \subseteq shown' /\ shown' \subseteq Values \cup used'
           /\ used \subseteq used' /\ used' \subseteq Generated
           /\ untold' = untold /\ untold \cap shown' = {}
           /\ nvs'["auth_token"] \in shown' \cup untold' \cup {None}
           /\ Stored(base, "auth_token") # None =>
                 nvs' = base /\ s_token' = base["auth_token"]
           /\ Stored(base, "auth_token") = None =>
                 s_token' \in DefaultTokens \/ s_token' \notin shown
<1> USE DEF Inv, TypeOK, StoreInv
<1>0. /\ Stored(base, "auth_token") # None =>
            /\ Stored(base, "auth_token") = base["auth_token"]
            /\ Length[base["auth_token"]] \in 1..Room["auth_token"]
      /\ Room["auth_token"] \in Nat
    BY ReadBack
<1>1. CASE LoadToken(base)
    BY <1>0, <1>1 DEF LoadToken
<1>2. CASE DefaultToken(base, build)
    <2> DEFINE d == build["auth_token"]
               c == Cut[Room["auth_token"]][d]
    <2>0. d \in Preset
        BY <1>2 DEF DefaultToken, Preset
    <2>1. /\ d \in Values /\ d \in shown /\ d \in All
          /\ Stored(base, "auth_token") = None
          /\ s_token' = c /\ used' = used /\ untold' = untold /\ shown' = shown
          /\ nvs' = base \/ nvs' = [base EXCEPT !["auth_token"] = d]
        BY <1>2, <2>0 DEF DefaultToken, All
    <2>2. /\ c \in All /\ Length[c] <= Room["auth_token"]
          /\ c \in DefaultTokens
        BY <2>0, <2>1, CutFacts, LimitFacts DEF DefaultTokens, All
    <2>3. c \in shown \cup untold \cup (DefaultTokens \ Preset)
        BY <2>2
    <2>4. /\ nvs' \in [Keys -> All \cup {None}]
          /\ nvs'["wifi_ssid"] = base["wifi_ssid"]
          /\ nvs'["wifi_pass"] = base["wifi_pass"]
          /\ nvs'["auth_token"] \in shown \cup untold \cup {None}
        <3>1. CASE nvs' = base
            BY <3>1
        <3>2. CASE nvs' = [base EXCEPT !["auth_token"] = d]
            BY <2>1, <3>2
        <3> QED BY <2>1, <3>1, <3>2
    <2> HIDE DEF c, d
    <2> QED BY <2>1, <2>2, <2>3, <2>4
<1>3. CASE FreshToken(base, build)
    <2>1. PICK g \in Generated \ used :
             /\ s_token' = g
             /\ used' = used \cup {g}
             /\ shown' = shown \cup {g}
             /\ nvs' = base \/ nvs' = [base EXCEPT !["auth_token"] = g]
             /\ untold' = untold
        BY <1>3 DEF FreshToken, Show
    <2>2. /\ Length[g] \in 1..Room["auth_token"]
          /\ g \notin shown /\ g \notin untold /\ g \in All
          /\ Stored(base, "auth_token") = None
        BY <1>3 DEF FreshToken, All
    <2>3. CASE nvs' = base
        BY <2>1, <2>2, <2>3
    <2>4. CASE nvs' = [base EXCEPT !["auth_token"] = g]
        <3>1. /\ nvs' \in [Keys -> All \cup {None}]
              /\ nvs'["wifi_ssid"] = base["wifi_ssid"]
              /\ nvs'["wifi_pass"] = base["wifi_pass"]
              /\ nvs'["auth_token"] = g
            BY <2>2, <2>4
        <3> QED BY <2>1, <2>2, <3>1
    <2> QED BY <2>1, <2>3, <2>4
<1> QED BY <1>1, <1>2, <1>3

\* What the driver is given comes from the store or the defaults, and is what
\* was stored if its arrays hold that.
LEMMA WifiStarted ==
    ASSUME NEW base \in [Keys -> All \cup {None}],
           base["wifi_ssid"] \in Values \cup {None},
           base["wifi_pass"] \in Values \cup {None},
           NEW build \in Builds,
           StartWifi(base, build)
    PROVE  /\ mode' \in {"sta", "ap"}
           /\ sta' \in Creds
           /\ base["wifi_ssid"] = None /\ base["wifi_pass"] = None =>
                 sta' = Station(Empty, build)
           /\ Stored(base, "wifi_ssid") # None =>
                 /\ mode' = "sta"
                 /\ sta'.ssid = Given("wifi_ssid", base["wifi_ssid"])
                 /\ Stored(base, "wifi_pass") # None =>
                       sta' = [ssid |-> Given("wifi_ssid", base["wifi_ssid"]),
                               pass |-> Given("wifi_pass", base["wifi_pass"])]
<1> DEFINE ssid == ReadOrDefault(base, "wifi_ssid", build)
           pass == ReadOrDefault(base, "wifi_pass", build)
<1>1. /\ ssid \in Values \cup {None} /\ pass \in Values \cup {None}
      /\ Stored(base, "wifi_ssid") # None => ssid = base["wifi_ssid"] /\ ssid # None
      /\ Stored(base, "wifi_pass") # None => pass = base["wifi_pass"]
    <2>1. ASSUME NEW k \in {"wifi_ssid", "wifi_pass"}
          PROVE  ReadOrDefault(base, k, build) \in Values \cup {None}
        <3>1. k \in Keys /\ Room[k] \in Limits /\ base[k] \in Values \cup {None}
            BY LimitFacts
        <3>2. build[k] # None => Cut[Room[k]][build[k]] \in Values
            BY <3>1, CutFacts
        <3>3. Stored(base, k) = None \/ Stored(base, k) = base[k]
            BY <3>1, ReadBack
        <3> QED BY <3>1, <3>2, <3>3 DEF ReadOrDefault
    <2> QED BY <2>1, ReadBack DEF ReadOrDefault
<1>2. /\ mode' = IF ssid = None THEN "ap" ELSE "sta"
      /\ sta' = IF ssid = None THEN NoCreds
                ELSE [ssid |-> Given("wifi_ssid", ssid), pass |-> Given("wifi_pass", pass)]
    BY DEF StartWifi, Station
<1>3. base["wifi_ssid"] = None /\ base["wifi_pass"] = None => sta' = Station(Empty, build)
    <2> SUFFICES ASSUME base["wifi_ssid"] = None, base["wifi_pass"] = None
                 PROVE  sta' = Station(Empty, build)
        OBVIOUS
    <2>1. /\ Stored(base, "wifi_ssid") = Stored(Empty, "wifi_ssid")
          /\ Stored(base, "wifi_pass") = Stored(Empty, "wifi_pass")
        BY EmptyStore DEF Stored
    <2>2. sta' = Station(base, build)
        BY DEF StartWifi
    <2> QED BY <2>1, <2>2 DEF Station, ReadOrDefault
<1> HIDE DEF ssid, pass
<1>4. /\ Given("wifi_ssid", ssid) \in Values \cup {None}
      /\ Given("wifi_pass", pass) \in Values \cup {None}
    BY <1>1, CutFacts, LimitFacts DEF Given
<1>5. sta' \in Creds
    BY <1>2, <1>4, BlankCreds DEF Creds
<1>6. Stored(base, "wifi_ssid") # None =>
         /\ mode' = "sta"
         /\ sta' = [ssid |-> Given("wifi_ssid", base["wifi_ssid"]), pass |-> Given("wifi_pass", pass)]
    BY <1>1, <1>2
<1> QED BY <1>1, <1>2, <1>3, <1>5, <1>6

-----------------------------------------------------------------------------

LEMMA InitInv == Init => Inv
<1> SUFFICES ASSUME Init PROVE Inv
    OBVIOUS
<1> USE DEF Init
<1>1. TypeOK
    BY EmptyStore, BlankCreds, PresetValues DEF TypeOK
<1>2. TokenTold
    BY DEF TokenTold
<1>3. StoreInv
    BY EmptyStore, PresetValues DEF StoreInv
<1>4. AskedInv /\ ErasedInv /\ JoiningInv
    BY DEF AskedInv, ErasedInv, JoiningInv
<1> QED BY <1>1, <1>2, <1>3, <1>4 DEF Inv

LEMMA BootStep ==
    ASSUME Inv, NEW build \in Builds, NEW unusable \in BOOLEAN,
           Boot(build, unusable)
    PROVE  Inv'
<1> DEFINE base == Opened(unusable)
<1> USE DEF Inv, TypeOK, StoreInv
<1>1. /\ mode = "down" /\ open' = TRUE
      /\ LoadToken(base) \/ DefaultToken(base, build) \/ FreshToken(base, build)
      /\ StartWifi(base, build)
      /\ asked' = IF unusable THEN None ELSE asked
      /\ joining' = IF unusable THEN NoCreds ELSE joining
      /\ said' = NoCreds /\ erased' = FALSE
      /\ timer' = timer
    BY DEF Boot, Forgotten
<1>2. /\ base \in [Keys -> All \cup {None}]
      /\ base["auth_token"] \in shown \cup untold \cup {None}
      /\ base["wifi_ssid"] \in Values \cup {None}
      /\ base["wifi_pass"] \in Values \cup {None}
      /\ ~unusable => base = nvs
    BY EmptyStore DEF Opened
<1> HIDE DEF base
<1>3. /\ nvs' \in [Keys -> All \cup {None}]
      /\ nvs'["wifi_ssid"] = base["wifi_ssid"]
      /\ nvs'["wifi_pass"] = base["wifi_pass"]
      /\ s_token' \in All /\ Length[s_token'] <= Room["auth_token"]
      /\ s_token' \in shown' \cup untold' \cup (DefaultTokens \ Preset)
      /\ shown \subseteq shown' /\ shown' \subseteq Values \cup used'
      /\ used \subseteq used' /\ used' \subseteq Generated
      /\ untold' = untold /\ untold \cap shown' = {}
      /\ nvs'["auth_token"] \in shown' \cup untold' \cup {None}
      /\ Stored(base, "auth_token") # None => nvs' = base
    BY <1>1, <1>2, TokenLoaded
<1>4. mode' \in {"sta", "ap"} /\ sta' \in Creds
    BY <1>1, <1>2, WifiStarted
<1>5. TypeOK'
    <2>1. joining' \in Creds /\ asked' \in All \cup {None}
        BY <1>1, BlankCreds
    <2>2. shown' \subseteq All
        BY <1>3 DEF All
    <2>3. open' \in BOOLEAN /\ erased' \in BOOLEAN
        BY <1>1
    <2>4. timer' \in BOOLEAN
        BY <1>1, Zenon
    <2> QED BY <1>1, <1>3, <1>4, <2>1, <2>2, <2>3, <2>4, BlankCreds
<1>6. TokenTold'
    BY <1>3 DEF TokenTold
<1>7. StoreInv'
    BY <1>2, <1>3
<1>8. AskedInv'
    <2> SUFFICES ASSUME asked' # None, Length[asked'] <= Room["auth_token"]
                 PROVE  nvs'["auth_token"] = asked' /\ Length[asked'] >= 1
        BY DEF AskedInv
    <2>1. /\ base = nvs /\ asked' = asked
          /\ nvs["auth_token"] = asked /\ Length[asked] >= 1
        BY <1>1, <1>2 DEF AskedInv
    <2>2. Stored(base, "auth_token") # None
        BY <1>1, <2>1, ReadBack
    <2> QED BY <1>3, <2>1, <2>2
<1>9. ErasedInv'
    BY <1>1 DEF ErasedInv
<1>10. JoiningInv'
    BY <1>1, <1>2, <1>3 DEF JoiningInv, Fits
<1> QED BY <1>5, <1>6, <1>7, <1>8, <1>9, <1>10 DEF Inv

LEMMA CutOffStep ==
    ASSUME Inv, NEW build \in Builds, NEW unusable \in BOOLEAN,
           BootCutOff(build, unusable)
    PROVE  Inv'
<1> DEFINE base == Opened(unusable)
<1> USE DEF Inv, TypeOK, StoreInv
<1>1. PICK g \in Generated \ used :
         /\ used' = used \cup {g} /\ untold' = untold \cup {g}
         /\ nvs' = [base EXCEPT !["auth_token"] = g]
    BY DEF BootCutOff
<1>2. /\ mode = "down" /\ Stored(base, "auth_token") = None
      /\ asked' = IF unusable THEN None ELSE asked
      /\ joining' = IF unusable THEN NoCreds ELSE joining
      /\ UNCHANGED <<ram, shown, said, erased>>
    BY DEF BootCutOff, Forgotten
<1>3. /\ base \in [Keys -> All \cup {None}]
      /\ base["wifi_ssid"] \in Values \cup {None}
      /\ base["wifi_pass"] \in Values \cup {None}
      /\ ~unusable => base = nvs
      /\ unusable => base["wifi_ssid"] = None /\ base["wifi_pass"] = None
    BY EmptyStore DEF Opened
<1> HIDE DEF base
<1>4. /\ nvs' \in [Keys -> All \cup {None}]
      /\ nvs'["auth_token"] = g
      /\ nvs'["wifi_ssid"] = base["wifi_ssid"]
      /\ nvs'["wifi_pass"] = base["wifi_pass"]
    BY <1>1, <1>3 DEF All
<1>5. TypeOK'
    <2>1. joining' \in Creds /\ asked' \in All \cup {None}
        BY <1>2, BlankCreds
    <2>2. open' \in BOOLEAN /\ timer' \in BOOLEAN /\ erased' \in BOOLEAN
        BY <1>2, Zenon
    <2> QED BY <1>1, <1>2, <1>4, <2>1, <2>2
<1>6. TokenTold'
    BY <1>2 DEF TokenTold
<1>7. StoreInv'
    BY <1>1, <1>2, <1>3, <1>4
<1>8. AskedInv'
    <2> SUFFICES ASSUME asked' # None, Length[asked'] <= Room["auth_token"]
                 PROVE  FALSE
        BY DEF AskedInv
    <2>1. /\ base = nvs /\ asked' = asked
          /\ nvs["auth_token"] = asked /\ Length[asked] >= 1
        BY <1>2, <1>3 DEF AskedInv
    <2> QED BY <1>2, <2>1, ReadBack
<1>9. ErasedInv'
    BY <1>1, <1>2, <1>3, <1>4 DEF ErasedInv
<1>10. JoiningInv'
    BY <1>2, <1>3, <1>4 DEF JoiningInv, Fits
<1> QED BY <1>5, <1>6, <1>7, <1>8, <1>9, <1>10 DEF Inv

LEMMA CfgSetStep ==
    ASSUME Inv, NEW k \in Keys, NEW v \in Offered[k], CfgSet(k, v)
    PROVE  Inv'
<1> USE DEF Inv, TypeOK, StoreInv
<1>1. v \in Values /\ v \in All /\ v # None /\ Length[v] \in Nat
    BY Lengths DEF All
<1>2. /\ mode # "down" /\ open
      /\ k = "auth_token" => Length[v] >= MinToken
      /\ nvs' = [nvs EXCEPT ![k] = v]
      /\ asked' = IF k = "auth_token" THEN v ELSE asked
      /\ shown' = IF k = "auth_token" THEN shown \cup {v} ELSE shown
      /\ joining' = IF k = "auth_token" THEN joining ELSE NoCreds
      /\ s_token' = s_token /\ mode' = mode /\ used' = used /\ erased' = erased
      /\ untold' = untold
      /\ open' = open
    BY DEF CfgSet, Shell, Writable
<1>3. /\ nvs' \in [Keys -> All \cup {None}]
      /\ nvs'[k] = v
      /\ \A j \in Keys \ {k} : nvs'[j] = nvs[j]
    BY <1>1, <1>2
<1>4. TypeOK'
    <2>1. joining' \in Creds /\ asked' \in All \cup {None} /\ shown' \subseteq All
        BY <1>1, <1>2, BlankCreds
    <2>2. open' \in BOOLEAN /\ timer' \in BOOLEAN /\ erased' \in BOOLEAN
        BY Zenon DEF CfgSet
    <2>3. UNCHANGED <<s_token, mode, sta, used, untold, said>>
        BY DEF CfgSet
    <2> QED BY <1>3, <2>1, <2>2, <2>3
<1>5. TokenTold'
    BY <1>2 DEF TokenTold
<1>6. StoreInv'
    BY <1>1, <1>2, <1>3
<1>7. AskedInv'
    <2>1. CASE k = "auth_token"
        BY <1>1, <1>2, <1>3, <2>1 DEF AskedInv
    <2>2. CASE k # "auth_token"
        BY <1>2, <1>3, <2>2 DEF AskedInv
    <2> QED BY <2>1, <2>2
<1>8. ErasedInv'
    BY <1>2 DEF ErasedInv
<1>9. JoiningInv'
    BY <1>2, <1>3 DEF JoiningInv, Fits
<1> QED BY <1>4, <1>5, <1>6, <1>7, <1>8, <1>9 DEF Inv

LEMMA CfgDelStep ==
    ASSUME Inv, NEW k \in Keys, CfgDel(k)
    PROVE  Inv'
<1> USE DEF Inv, TypeOK, StoreInv
<1>1. /\ mode # "down" /\ open
      /\ nvs' = [nvs EXCEPT ![k] = None]
      /\ asked' = IF k = "auth_token" THEN None ELSE asked
      /\ joining' = IF k = "auth_token" THEN joining ELSE NoCreds
      /\ s_token' = s_token /\ mode' = mode /\ used' = used /\ shown' = shown
      /\ untold' = untold
      /\ erased' = erased
    BY DEF CfgDel, Shell
<1>2. /\ nvs' \in [Keys -> All \cup {None}]
      /\ nvs'[k] = None
      /\ \A j \in Keys \ {k} : nvs'[j] = nvs[j]
    BY <1>1
<1>3. TypeOK'
    <2>1. joining' \in Creds /\ asked' \in All \cup {None}
        BY <1>1, BlankCreds
    <2>2. open' \in BOOLEAN /\ timer' \in BOOLEAN /\ erased' \in BOOLEAN
        BY Zenon DEF CfgDel
    <2>3. UNCHANGED <<s_token, mode, sta, used, untold, shown, said>>
        BY DEF CfgDel
    <2> QED BY <1>2, <2>1, <2>2, <2>3
<1>4. TokenTold'
    BY <1>1 DEF TokenTold
<1>5. StoreInv'
    BY <1>1, <1>2
<1>6. AskedInv'
    BY <1>1, <1>2 DEF AskedInv
<1>7. ErasedInv'
    BY <1>1 DEF ErasedInv
<1>8. JoiningInv'
    BY <1>1, <1>2 DEF JoiningInv, Fits
<1> QED BY <1>3, <1>4, <1>5, <1>6, <1>7, <1>8 DEF Inv

LEMMA WifiSetStep ==
    ASSUME Inv,
           NEW ssid \in Offered["wifi_ssid"], NEW pass \in Offered["wifi_pass"],
           WifiSet(ssid, pass)
    PROVE  Inv'
<1> USE DEF Inv, TypeOK, StoreInv
<1> DEFINE creds == [ssid |-> ssid, pass |-> pass]
<1>1. /\ ssid \in Values /\ pass \in Values
      /\ Fits("wifi_ssid", ssid) /\ Fits("wifi_pass", pass)
      /\ creds \in Creds
    BY DEF WifiSet, Creds
<1>2. /\ mode # "down" /\ open
      /\ nvs' = [nvs EXCEPT !["wifi_ssid"] = ssid, !["wifi_pass"] = pass]
      /\ joining' = creds
      /\ UNCHANGED <<open, s_token, mode, sta, used, untold, shown, asked, erased>>
    BY DEF WifiSet, Shell, Writable
<1>3. /\ nvs' \in [Keys -> All \cup {None}]
      /\ nvs'["wifi_ssid"] = ssid /\ nvs'["wifi_pass"] = pass
      /\ nvs'["auth_token"] = nvs["auth_token"]
    BY <1>1, <1>2 DEF All
<1>4. TypeOK'
    <2>1. timer' \in BOOLEAN
        <3>1. CASE mode = "ap"
            BY <3>1, Zenon DEF WifiSet
        <3>2. CASE mode # "ap"
            BY <3>2, Zenon DEF WifiSet
        <3> QED BY <3>1, <3>2
    <2>2. said' \in Creds
        <3>1. said' \in {creds, said}
            BY DEF WifiSet
        <3> HIDE DEF creds
        <3> QED BY <1>1, <3>1
    <2>3. open' \in BOOLEAN /\ erased' \in BOOLEAN
        BY Zenon DEF WifiSet
    <2> QED BY <1>1, <1>2, <1>3, <2>1, <2>2, <2>3
<1>5. TokenTold'
    BY <1>2 DEF TokenTold
<1>6. StoreInv'
    BY <1>1, <1>2, <1>3
<1>7. AskedInv'
    BY <1>2, <1>3 DEF AskedInv
<1>8. ErasedInv'
    BY <1>2 DEF ErasedInv
<1>9. JoiningInv'
    BY <1>1, <1>2, <1>3 DEF JoiningInv, Fits
<1> QED BY <1>4, <1>5, <1>6, <1>7, <1>8, <1>9 DEF Inv

LEMMA WifiSetHalfStep ==
    ASSUME Inv,
           NEW ssid \in Offered["wifi_ssid"], NEW pass \in Offered["wifi_pass"],
           WifiSetHalf(ssid, pass)
    PROVE  Inv'
<1> USE DEF Inv, TypeOK, StoreInv
<1>1. /\ ssid \in Values
      /\ mode # "down" /\ open
      /\ nvs' = [nvs EXCEPT !["wifi_ssid"] = ssid]
      /\ joining' = NoCreds
      /\ UNCHANGED <<ram, used, untold, shown, asked, said, erased>>
    BY DEF WifiSetHalf, Shell, Writable
<1>2. /\ nvs' \in [Keys -> All \cup {None}]
      /\ nvs'["wifi_ssid"] = ssid
      /\ nvs'["wifi_pass"] = nvs["wifi_pass"]
      /\ nvs'["auth_token"] = nvs["auth_token"]
    BY <1>1 DEF All
<1>3. TypeOK'
    <2>1. open' \in BOOLEAN /\ timer' \in BOOLEAN /\ erased' \in BOOLEAN
        BY <1>1, Zenon
    <2> QED BY <1>1, <1>2, <2>1, BlankCreds
<1>4. TokenTold'
    BY <1>1 DEF TokenTold
<1>5. StoreInv'
    BY <1>1, <1>2
<1>6. AskedInv'
    BY <1>1, <1>2 DEF AskedInv
<1>7. ErasedInv'
    BY <1>1 DEF ErasedInv
<1>8. JoiningInv'
    BY <1>1 DEF JoiningInv
<1> QED BY <1>3, <1>4, <1>5, <1>6, <1>7, <1>8 DEF Inv

LEMMA FactoryResetStep ==
    ASSUME Inv, FactoryReset
    PROVE  Inv'
<1> USE DEF Inv, TypeOK, StoreInv
<1>1. /\ open' = FALSE /\ timer' = TRUE
      /\ UNCHANGED <<s_token, mode, sta, used, untold, shown, said>>
    BY DEF FactoryReset, EraseClosesHandle
<1>2. CASE nvs' = Empty /\ erased' = TRUE /\ asked' = None /\ joining' = NoCreds
    <2>1. TypeOK'
        BY <1>1, <1>2, EmptyStore, BlankCreds
    <2>2. TokenTold'
        BY <1>1 DEF TokenTold
    <2>3. StoreInv'
        BY <1>1, <1>2, EmptyStore
    <2>4. AskedInv' /\ ErasedInv' /\ JoiningInv'
        BY <1>1, <1>2, EmptyStore DEF AskedInv, ErasedInv, JoiningInv
    <2> QED BY <2>1, <2>2, <2>3, <2>4 DEF Inv
<1>3. CASE UNCHANGED <<nvs, erased, asked, joining>>
    <2>1. TypeOK'
        <3>1. erased' \in BOOLEAN
            BY <1>3, Zenon
        <3> QED BY <1>1, <1>3, <3>1
    <2>2. TokenTold'
        BY <1>1 DEF TokenTold
    <2>3. StoreInv'
        BY <1>1, <1>3
    <2>4. AskedInv' /\ ErasedInv' /\ JoiningInv'
        BY <1>1, <1>3 DEF AskedInv, ErasedInv, JoiningInv, Fits
    <2> QED BY <2>1, <2>2, <2>3, <2>4 DEF Inv
<1> QED BY <1>2, <1>3 DEF FactoryReset

LEMMA RebootStep ==
    ASSUME Inv, Reboot
    PROVE  Inv'
<1> USE DEF Inv, TypeOK, StoreInv
<1>1. timer' = TRUE /\ UNCHANGED <<nvs, open, s_token, mode, sta, history>>
    BY DEF Reboot
<1>2. TypeOK'
    <2>1. open' \in BOOLEAN /\ erased' \in BOOLEAN
        BY <1>1, Zenon
    <2> QED BY <1>1, <2>1
<1>3. TokenTold' /\ StoreInv' /\ AskedInv' /\ ErasedInv' /\ JoiningInv'
    BY <1>1 DEF TokenTold, AskedInv, ErasedInv, JoiningInv, Fits
<1> QED BY <1>2, <1>3 DEF Inv

LEMMA GoDownStep ==
    ASSUME Inv, GoDown
    PROVE  Inv'
<1> USE DEF Inv, TypeOK, StoreInv
<1>1. /\ mode' = "down" /\ open' = FALSE /\ s_token' = None /\ sta' = NoCreds
      /\ timer' = FALSE /\ said' = NoCreds
      /\ UNCHANGED <<nvs, used, untold, shown, asked, joining, erased>>
    BY DEF GoDown
<1>2. TypeOK'
    <2>1. erased' \in BOOLEAN
        BY <1>1, Zenon
    <2> QED BY <1>1, <2>1, BlankCreds
<1>3. TokenTold' /\ StoreInv' /\ AskedInv' /\ ErasedInv' /\ JoiningInv'
    BY <1>1 DEF TokenTold, AskedInv, ErasedInv, JoiningInv, Fits
<1> QED BY <1>2, <1>3 DEF Inv

LEMMA StutterStep ==
    ASSUME Inv, UNCHANGED vars
    PROVE  Inv'
BY DEF Inv, TypeOK, TokenTold, StoreInv, AskedInv, ErasedInv, JoiningInv, Fits, vars

LEMMA NextInv == Inv /\ [Next]_vars => Inv'
<1> SUFFICES ASSUME Inv, [Next]_vars PROVE Inv'
    OBVIOUS
<1>1. CASE Command
    <2>1. ASSUME NEW k \in Keys, CfgDel(k) PROVE Inv'
        BY <2>1, CfgDelStep
    <2>2. ASSUME NEW k \in Keys, NEW v \in Offered[k], CfgSet(k, v) PROVE Inv'
        BY <2>2, CfgSetStep
    <2>3. ASSUME NEW ssid \in Offered["wifi_ssid"], NEW pass \in Offered["wifi_pass"],
                 WifiSet(ssid, pass) \/ WifiSetHalf(ssid, pass)
          PROVE  Inv'
        BY <2>3, WifiSetStep, WifiSetHalfStep
    <2>4. ASSUME FactoryReset PROVE Inv'
        BY <2>4, FactoryResetStep
    <2>5. ASSUME Reboot PROVE Inv'
        BY <2>5, RebootStep
    <2> QED BY <1>1, <2>1, <2>2, <2>3, <2>4, <2>5 DEF Command
<1>2. CASE Restart \/ Crash
    BY <1>2, GoDownStep DEF Restart, Crash
<1>3. ASSUME NEW build \in Builds, NEW unusable \in BOOLEAN,
             Boot(build, unusable) \/ BootCutOff(build, unusable)
      PROVE  Inv'
    BY <1>3, BootStep, CutOffStep
<1>4. CASE UNCHANGED vars
    BY <1>4, StutterStep
<1> QED BY <1>1, <1>2, <1>3, <1>4 DEF Next

\* Every reachable state satisfies the inductive invariant.
THEOREM Invariance == Spec => []Inv
BY InitInv, NextInv, PTL DEF Spec

-----------------------------------------------------------------------------

\* The store, the copies and the histories keep their types, and the token in
\* RAM fits auth_init's array (auth.c 17, 36-40).
THEOREM TypeCorrect == Spec => []TypeOK
<1>1. Inv => TypeOK
    BY DEF Inv
<1> QED BY Invariance, <1>1, PTL

\* The token the device checks against is one somebody was told, unless power was
\* lost between storing and printing it (auth.c 60-62) or it is a compile-time one
\* that was cut (auth.c 46-48).
THEOREM TokenIsTold == Spec => []TokenTold
<1>1. Inv => TokenTold
    BY DEF Inv
<1> QED BY Invariance, <1>1, PTL

LEMMA OnlyBoot ==
    ASSUME Inv, Next, Booting
    PROVE  \E build \in Builds, unusable \in BOOLEAN : Boot(build, unusable)
<1>1. ~Command
    BY DEF Booting, Command, CfgDel, CfgSet, WifiSet, WifiSetHalf, FactoryReset, Reboot, Shell
<1>2. ~Restart /\ ~Crash
    BY DEF Booting, Restart, Crash, GoDown
<1>3. \A build \in Builds, unusable \in BOOLEAN : ~BootCutOff(build, unusable)
    BY DEF Booting, BootCutOff
<1> QED BY <1>1, <1>2, <1>3 DEF Next

\* What a boot finds in the store, and what auth_init and wifi_start make of it.
LEMMA BootFacts ==
    ASSUME Inv, NEW build \in Builds, NEW unusable \in BOOLEAN,
           Boot(build, unusable),
           NEW base, base = IF unusable THEN Empty ELSE nvs
    PROVE  /\ asked' = IF unusable THEN None ELSE asked
           /\ joining' = IF unusable THEN NoCreds ELSE joining
           /\ Stored(base, "auth_token") # None => s_token' = base["auth_token"]
           /\ Stored(base, "auth_token") = None =>
                 s_token' \in DefaultTokens \/ s_token' \notin shown
           /\ base["wifi_ssid"] = None /\ base["wifi_pass"] = None =>
                 sta' = Station(Empty, build)
           /\ Stored(base, "wifi_ssid") # None =>
                 /\ mode' = "sta"
                 /\ Stored(base, "wifi_pass") # None =>
                       sta' = [ssid |-> Given("wifi_ssid", base["wifi_ssid"]),
                               pass |-> Given("wifi_pass", base["wifi_pass"])]
           /\ base \in [Keys -> All \cup {None}]
<1>1. /\ asked' = IF unusable THEN None ELSE asked
      /\ joining' = IF unusable THEN NoCreds ELSE joining
      /\ LoadToken(base) \/ DefaultToken(base, build) \/ FreshToken(base, build)
      /\ StartWifi(base, build)
    BY DEF Boot, Opened, Forgotten
<1>2. /\ base \in [Keys -> All \cup {None}]
      /\ base["auth_token"] \in shown \cup untold \cup {None}
      /\ base["wifi_ssid"] \in Values \cup {None}
      /\ base["wifi_pass"] \in Values \cup {None}
    BY EmptyStore DEF Inv, TypeOK, StoreInv
<1> QED BY <1>1, <1>2, TokenLoaded, WifiStarted

LEMMA RotationStep ==
    ASSUME Inv, Next, Booting, asked' # None, Length[asked'] <= Room["auth_token"]
    PROVE  s_token' = asked'
<1>1. PICK build \in Builds, unusable \in BOOLEAN : Boot(build, unusable)
    BY OnlyBoot
<1>2. ~unusable /\ asked' = asked
    BY <1>1, BootFacts
<1>3. /\ nvs["auth_token"] = asked /\ Length[asked] >= 1
      /\ nvs \in [Keys -> All \cup {None}]
    BY <1>2 DEF Inv, AskedInv, TypeOK
<1>4. Stored(nvs, "auth_token") # None
    BY <1>2, <1>3, ReadBack
<1> QED BY <1>1, <1>2, <1>3, <1>4, BootFacts

\* A token CFG_SET accepted and auth_init can read is in use from the next boot
\* on (cmd_builtin.c 236-241, auth.c 38-43).
THEOREM TokenRotates == Spec => RotationHolds
<1>1. Inv /\ [Next]_vars =>
         [Booting /\ asked' # None /\ Length[asked'] <= Room["auth_token"]
             => s_token' = asked']_vars
    BY RotationStep
<1> QED BY Invariance, <1>1, PTL DEF Spec, RotationHolds

LEMMA ForgetStep ==
    ASSUME Inv, Next, Booting, erased
    PROVE  /\ s_token' \in DefaultTokens \/ s_token' \notin shown
           /\ \E b \in Builds : sta' = Station(Empty, b)
<1>1. PICK build \in Builds, unusable \in BOOLEAN : Boot(build, unusable)
    BY OnlyBoot
<1> DEFINE base == IF unusable THEN Empty ELSE nvs
<1>2. /\ base["wifi_ssid"] = None /\ base["wifi_pass"] = None
      /\ base["auth_token"] \in untold \cup {None}
    BY EmptyStore DEF Inv, ErasedInv
<1>3. untold \cap shown = {} /\ base \in [Keys -> All \cup {None}]
    BY EmptyStore DEF Inv, StoreInv, TypeOK
<1> HIDE DEF base
<1>4. /\ Stored(base, "auth_token") # None => s_token' = base["auth_token"]
      /\ Stored(base, "auth_token") = None =>
            s_token' \in DefaultTokens \/ s_token' \notin shown
      /\ sta' = Station(Empty, build)
    BY <1>1, <1>2, BootFacts DEF base
<1>5. Stored(base, "auth_token") # None => base["auth_token"] # None
    BY <1>3, ReadBack
<1>6. s_token' \in DefaultTokens \/ s_token' \notin shown
    BY <1>2, <1>3, <1>4, <1>5
<1> QED BY <1>4, <1>6

\* What FACTORY_RESET erased does not come back, boots cut off on the way included
\* (cmd_builtin.c 133-146).
THEOREM ErasureHolds == Spec => ResetForgets
<1>1. Inv /\ [Next]_vars =>
         [Booting /\ erased =>
             /\ s_token' \in DefaultTokens \/ s_token' \notin shown
             /\ \E b \in Builds : sta' = Station(Empty, b)]_vars
    BY ForgetStep
<1> QED BY Invariance, <1>1, PTL DEF Spec, ResetForgets

LEMMA SavedStep ==
    ASSUME Inv, Next, Booting, joining' # NoCreds, Length[joining'.ssid] > 0
    PROVE  mode' = "sta" /\ (Whole(joining') => sta' = joining')
<1>1. PICK build \in Builds, unusable \in BOOLEAN : Boot(build, unusable)
    BY OnlyBoot
<1>2. ~unusable /\ joining' = joining
    BY <1>1, BootFacts
<1>3. /\ joining.ssid \in Values /\ joining.pass \in Values
      /\ nvs["wifi_ssid"] = joining.ssid /\ nvs["wifi_pass"] = joining.pass
      /\ Length[joining.ssid] <= Room["wifi_ssid"]
      /\ Length[joining.pass] <= Room["wifi_pass"]
      /\ nvs \in [Keys -> All \cup {None}] /\ joining \in Creds
    BY <1>2 DEF Inv, JoiningInv, TypeOK, Fits
<1>4. Length[joining.ssid] \in Nat /\ Length[joining.pass] \in Nat
    BY <1>3, Lengths DEF All
<1>5. Stored(nvs, "wifi_ssid") # None
    BY <1>2, <1>3, <1>4, ReadBack DEF All
<1>6. mode' = "sta"
    BY <1>1, <1>2, <1>5, BootFacts
<1>7. ASSUME Whole(joining) PROVE sta' = joining
    <2>1. /\ 1 <= Length[joining.ssid] /\ Length[joining.ssid] <= DriverRoom["wifi_ssid"]
          /\ 1 <= Length[joining.pass] /\ Length[joining.pass] <= DriverRoom["wifi_pass"]
        BY <1>4, <1>7 DEF Whole
    <2>2. Stored(nvs, "wifi_pass") # None
        BY <1>3, <1>4, <2>1, ReadBack DEF All
    <2>3. sta' = [ssid |-> Given("wifi_ssid", joining.ssid),
                  pass |-> Given("wifi_pass", joining.pass)]
        BY <1>1, <1>2, <1>3, <1>5, <2>2, BootFacts
    <2>4. /\ Given("wifi_ssid", joining.ssid) = joining.ssid
          /\ Given("wifi_pass", joining.pass) = joining.pass
        BY <1>3, <2>1, CutFacts, LimitFacts DEF Given
    <2> QED BY <1>3, <2>3, <2>4 DEF Creds
<1> QED BY <1>2, <1>6, <1>7

\* After WIFI_SET the device boots as a station, and joins with what was stored if the
\* driver's arrays hold it (wifi_mgmt.c 46-49, net.c 145-180).
THEOREM SavedIsJoined == Spec => BootsSaved
<1>1. Inv /\ [Next]_vars =>
         [Booting /\ joining' # NoCreds /\ Length[joining'.ssid] > 0
             => mode' = "sta" /\ (Whole(joining') => sta' = joining')]_vars
    BY SavedStep
<1> QED BY Invariance, <1>1, PTL DEF Spec, BootsSaved

===============================================================================
