---------------------------- MODULE MCProvisioning ----------------------------
(* Instances of Provisioning for TLC: for each limit a value that meets it *)
(* and one that passes it by one; lengths scaled down.                     *)
EXTENDS Provisioning, TLC

CONSTANTS empty, short, mid, full, long, preset, cut2, cut3, g1, g2

MCValues == {empty, short, mid, full, long, preset, cut2, cut3}
MCGenerated == {g1, g2}
MCLength == [v \in MCValues \cup MCGenerated |->
               CASE v = empty -> 0
                 [] v = short -> 1
                 [] v \in {full, cut3} -> 3
                 [] v = long -> 4
                 [] OTHER -> 2]
MCOffered == [k \in {"auth_token", "wifi_ssid", "wifi_pass"} |->
                CASE k = "auth_token" -> {short, full, long}
                  [] k = "wifi_ssid" -> {empty, mid, full, long}
                  [] OTHER -> {full, long}]
MCRoom == [k \in {"auth_token", "wifi_ssid", "wifi_pass"} |->
                IF k = "wifi_pass" THEN 4 ELSE 3]
MCDriverRoom == [k \in {"wifi_ssid", "wifi_pass"} |->
                    IF k = "wifi_pass" THEN 3 ELSE 2]
MCCut == [n \in 2..4 |-> [v \in MCValues |->
             IF MCLength[v] <= n THEN v ELSE IF n = 2 THEN cut2 ELSE cut3]]
MCPlain == [k \in {"auth_token", "wifi_ssid", "wifi_pass"} |-> None]
MCPreset == [MCPlain EXCEPT !["auth_token"] = preset]
MCLong == [MCPlain EXCEPT !["auth_token"] = long, !["wifi_ssid"] = long]
MCBuilds == {MCPlain, MCPreset, MCLong}
MCOneBuild == {MCPlain}
===============================================================================
