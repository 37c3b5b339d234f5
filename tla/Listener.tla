------------------------------- MODULE Listener -------------------------------
(***************************************************************************)
(* How the device stays reachable (net.c): the handler of the Wi-Fi        *)
(* driver's events, which reconnects after every disconnection, and the    *)
(* server task around its sessions, which waits for an address, opens the  *)
(* listening socket with a growing delay between attempts, and accepts.    *)
(*                                                                         *)
(* s_online stands for WIFI_CONNECTED_BIT too: they change together.  A    *)
(* client is admitted and served in Session; here a session only lasts.    *)
(***************************************************************************)
EXTENDS Naturals, Sequences

CONSTANT MaxEvents  \* bound: a client sends WIFI_RECONNECT while fewer wait

ASSUME ListenerAssumption == MaxEvents \in Nat \ {0}

VARIABLES
    s_ap_mode,   \* provisioning: the device is the access point
    s_online,
    station,     \* driver: "off", "idle", "connecting", "associated" or "up"
    events,      \* driver: events the event loop has not handled
    at,          \* where tcp_server_task is
    backoff_ms,
    lsocks,      \* lwIP: listening sockets, or ones meant to be, not closed
    peer,        \* the session's client: "none", "there" or "gone"
    reconnecting,\* net_reconnect is between its two calls
    lsockDead,   \* lwIP: every accept on the socket fails from now on
    calm         \* no failure and no WIFI_RECONNECT from now on

serverVars   == <<at, backoff_ms, lsocks>>
wifiVars     == <<s_ap_mode, s_online, station, events, reconnecting>>
listenerVars == <<serverVars, wifiVars, peer, lsockDead, calm>>

ListenerInit ==
    /\ s_ap_mode = FALSE
    /\ s_online = FALSE
    /\ station = "off"
    /\ events \in {<<"AP_START">>, <<"STA_START">>}
    /\ at = "wait"
    /\ backoff_ms = 1000
    /\ lsocks = 0
    /\ peer = "none"
    /\ reconnecting = FALSE
    /\ lsockDead = FALSE
    /\ calm = FALSE

-----------------------------------------------------------------------------
(* Faults: what a definition below would be with a plausible slip in it.   *)

NoRetry(s) == s

LeakingRetry ==
    /\ at' = "delay"
    /\ UNCHANGED <<backoff_ms, lsocks>>

-----------------------------------------------------------------------------
(* The driver's events and on_wifi_evt.                                    *)

\* esp_wifi_connect does nothing unless the station is idle.
Connect(s) == IF s \in {"off", "idle"} THEN "connecting" ELSE s

OnStaStart ==
    /\ Head(events) = "STA_START"
    /\ station' = Connect(station)
    /\ UNCHANGED <<s_ap_mode, s_online>>

AfterDisconnect(s) == Connect(s)

OnStaDisconnected ==
    /\ Head(events) = "STA_DISCONNECTED"
    /\ s_online' = FALSE
    /\ station' = AfterDisconnect(station)
    /\ UNCHANGED s_ap_mode

OnGotIp ==
    /\ Head(events) = "GOT_IP"
    /\ s_online' = TRUE
    /\ UNCHANGED <<s_ap_mode, station>>

OnApStart ==
    /\ Head(events) = "AP_START"
    /\ s_ap_mode' = TRUE
    /\ s_online' = TRUE
    /\ UNCHANGED station

HandleEvent ==
    /\ events # <<>>
    /\ OnStaStart \/ OnStaDisconnected \/ OnGotIp \/ OnApStart
    /\ events' = Tail(events)
    /\ UNCHANGED <<serverVars, peer, reconnecting, lsockDead, calm>>

Associate ==
    /\ station = "connecting"
    /\ station' = "associated"
    /\ UNCHANGED <<s_ap_mode, s_online, events, serverVars, peer, reconnecting, lsockDead, calm>>

GetAddress ==
    /\ station = "associated"
    /\ station' = "up"
    /\ events' = Append(events, "GOT_IP")
    /\ UNCHANGED <<s_ap_mode, s_online, serverVars, peer, reconnecting, lsockDead, calm>>

\* An attempt fails, or the access point goes away.
DropLink ==
    /\ ~calm
    /\ station \in {"connecting", "associated", "up"}
    /\ station' = "idle"
    /\ events' = Append(events, "STA_DISCONNECTED")
    /\ UNCHANGED <<s_ap_mode, s_online, serverVars, peer, reconnecting, lsockDead, calm>>

\* net_reconnect, called by the session's client; nothing in provisioning mode.
Disconnect ==
    /\ at = "session" /\ peer = "there"
    /\ ~calm /\ ~reconnecting
    /\ ~s_ap_mode
    /\ Len(events) < MaxEvents
    /\ reconnecting' = TRUE
    /\ IF station \in {"connecting", "associated", "up"}
       THEN /\ station' = "idle"
            /\ events' = Append(events, "STA_DISCONNECTED")
       ELSE UNCHANGED <<station, events>>
    /\ UNCHANGED <<s_ap_mode, s_online, serverVars, peer, lsockDead, calm>>

ThenConnect ==
    /\ reconnecting
    /\ reconnecting' = FALSE
    /\ station' = Connect(station)
    /\ UNCHANGED <<s_ap_mode, s_online, events, serverVars, peer, lsockDead, calm>>

-----------------------------------------------------------------------------
(* tcp_server_task.                                                        *)

WaitForIp ==
    /\ at = "wait"
    /\ s_online
    /\ at' = "socket"
    /\ UNCHANGED <<backoff_ms, lsocks>>

\* One attempt failed: close what is open and sleep.
Retry ==
    /\ at' = "delay"
    /\ lsocks' = 0
    /\ UNCHANGED backoff_ms

OpenSocket ==
    /\ at = "socket"
    /\ \/ ~calm /\ Retry
       \/ at' = "bind" /\ lsocks' = lsocks + 1 /\ UNCHANGED backoff_ms

Bind ==
    /\ at = "bind"
    /\ \/ ~calm /\ Retry
       \/ at' = "listen" /\ UNCHANGED <<backoff_ms, lsocks>>

Listen ==
    /\ at = "listen"
    /\ \/ ~calm /\ Retry
       \/ at' = "accept" /\ backoff_ms' = 1000 /\ UNCHANGED lsocks

\* 32000 is reached, and 30000 from then on.
Doubled(b) == IF b < 30000 THEN b * 2 ELSE 30000

Backoff ==
    /\ at = "delay"
    /\ at' = "wait"
    /\ backoff_ms' = Doubled(backoff_ms)
    /\ UNCHANGED lsocks

ServerStep ==
    /\ WaitForIp \/ OpenSocket \/ Bind \/ Listen \/ Backoff
    /\ UNCHANGED <<wifiVars, peer, lsockDead, calm>>

Accept ==
    /\ at = "accept"
    /\ ~lsockDead
    /\ station = "up" \/ s_ap_mode
    /\ at' = "session"
    /\ peer' = "there"
    /\ UNCHANGED <<backoff_ms, lsocks, wifiVars, lsockDead, calm>>

\* accept is tried again after 500 ms, on the same socket whatever the error.
AcceptFails ==
    /\ at = "accept"
    /\ lsockDead' \in {lsockDead, TRUE}
    /\ at' = "pause"
    /\ ~calm \/ lsockDead
    /\ UNCHANGED <<backoff_ms, lsocks, wifiVars, peer, calm>>

AcceptAgain ==
    /\ at = "pause"
    /\ at' = "accept"
    /\ UNCHANGED <<backoff_ms, lsocks, wifiVars, peer, lsockDead, calm>>

\* The client ends its session, or keepalive finds it gone.
EndSession ==
    /\ at = "session" /\ ~reconnecting
    /\ at' = "accept"
    /\ peer' = "none"
    /\ UNCHANGED <<backoff_ms, lsocks, wifiVars, lsockDead, calm>>

KeepAlive == peer = "gone" /\ EndSession

\* A client that dies, or is cut off for too long, says nothing.
Vanish ==
    /\ peer = "there" /\ ~reconnecting
    /\ peer' = "gone"
    /\ UNCHANGED <<serverVars, wifiVars, lsockDead, calm>>

CalmDown ==
    /\ ~calm
    /\ calm' = TRUE
    /\ UNCHANGED <<serverVars, wifiVars, peer, lsockDead>>

ListenerNext ==
    \/ HandleEvent \/ Associate \/ GetAddress \/ DropLink
    \/ Disconnect \/ ThenConnect
    \/ ServerStep \/ Accept \/ AcceptFails \/ AcceptAgain \/ EndSession
    \/ Vanish \/ CalmDown

ListenerSpec == ListenerInit /\ [][ListenerNext]_listenerVars

\* The event loop and the tasks run, their waits end, the driver answers an
\* attempt, and keepalive ends a session whose peer is gone.
ListenerFair ==
    /\ WF_listenerVars(HandleEvent)
    /\ WF_listenerVars(Associate)
    /\ WF_listenerVars(GetAddress)
    /\ WF_listenerVars(ThenConnect)
    /\ WF_listenerVars(ServerStep)
    /\ WF_listenerVars(AcceptAgain)
    /\ WF_listenerVars(KeepAlive)

-----------------------------------------------------------------------------
(* Properties.                                                             *)

Attempts == {1000, 2000, 4000, 8000, 16000, 32000, 30000}

\* Types; the server task holds one listening socket from socket() on and none
\* while it waits, and an idle station has an event or a call under way that
\* will connect it (net.c 67-92, 206-211, 435-471).
ListenerTypeOK ==
    /\ s_ap_mode \in BOOLEAN /\ s_online \in BOOLEAN
    /\ station \in {"off", "idle", "connecting", "associated", "up"}
    /\ events \in Seq({"AP_START", "STA_START", "STA_DISCONNECTED", "GOT_IP"})
    /\ at \in {"wait", "socket", "bind", "listen", "delay", "accept", "pause", "session"}
    /\ backoff_ms \in Attempts
    /\ lsocks = IF at \in {"wait", "socket", "delay"} THEN 0 ELSE 1
    /\ peer \in {"none", "there", "gone"}
    /\ peer = "none" <=> at # "session"
    /\ reconnecting \in BOOLEAN /\ lsockDead \in BOOLEAN /\ calm \in BOOLEAN
    /\ station = "idle" =>
          \/ reconnecting
          \/ \E i \in 1..Len(events) : events[i] = "STA_DISCONNECTED"

\* A client can connect, or one that can be heard is connected.
Reachable ==
    /\ s_ap_mode \/ (s_online /\ station = "up")
    /\ at = "accept" \/ peer = "there"

\* Whatever failed and whoever reconnected before, a device whose network and
\* sockets work is reachable again, unless the listening socket itself died (net.c 68-74, 436-471, 477).
ReachableAgain == calm ~> Reachable \/ lsockDead
===============================================================================
