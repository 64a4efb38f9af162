------------------------------ MODULE Network ------------------------------
(***************************************************************************)
(* Start-up and network supervision (main/main.c): app_main brings up      *)
(* Ethernet, falls back to WiFi, then starts the services; the event-loop  *)
(* task runs the Ethernet, WiFi and IP event handlers, one after another;  *)
(* the timer task retries WiFi; watchdog_task samples NET_CONNECTED_BIT    *)
(* once a minute and restarts the device after five minutes offline.       *)
(* The MQTT client is started and stopped from both app_main and the       *)
(* handlers.  The drivers, the event loop and the client are ESP-IDF's.    *)
(***************************************************************************)
EXTENDS Naturals, Sequences

CONSTANTS
  RebootAfter,  \* watchdog samples: REBOOT_AFTER_SECONDS / 60
  MaxEvents,    \* bound: events waiting for the event loop
  MaxRetry      \* bound: s_wifi_retry stops here; the delay is longest by then

ASSUME NetworkAssumption ==
  /\ RebootAfter \in Nat \ {0}
  /\ MaxEvents \in Nat \ {0}
  /\ MaxRetry \in Nat /\ MaxRetry >= 5

VARIABLES
  boot,            \* where app_main is
  bit,             \* NET_CONNECTED_BIT
  s_using_ethernet,
  eth,             \* the Ethernet interface: off, down, link, or with an IP address
  wifi,            \* the station: off, idle, joining, or with an IP address
  s_wifi_retry,
  timer,           \* 0, or the delay s_wifi_retry_timer is running for
  events,          \* posted to the event loop and not handled
  loop,            \* what the handler that is running has yet to do
  s_client,        \* the MQTT client
  s_offline        \* watchdog samples that found the network offline

netVars == <<eth, wifi>>
vars == <<boot, bit, s_using_ethernet, netVars, s_wifi_retry, timer, events, loop, s_client,
          s_offline>>

Lesser(a, b) == IF a < b THEN a ELSE b

(* wifi_backoff_ms: two seconds, doubled by each of the first five         *)
(* failures, a minute at most.                                             *)
Backoff(attempt) == <<2000, 4000, 8000, 16000, 32000, 60000>>[Lesser(attempt, 5) + 1]

Initial ==
  [boot |-> "eth_init", bit |-> FALSE, using |-> FALSE, eth |-> "off", wifi |-> "off",
   retry |-> 0, timer |-> 0, events |-> <<>>, loop |-> "free", client |-> "NULL", offline |-> 0]

Init ==
  /\ boot = Initial.boot
  /\ bit = Initial.bit
  /\ s_using_ethernet = Initial.using
  /\ eth = Initial.eth
  /\ wifi = Initial.wifi
  /\ s_wifi_retry = Initial.retry
  /\ timer = Initial.timer
  /\ events = Initial.events
  /\ loop = Initial.loop
  /\ s_client = Initial.client
  /\ s_offline = Initial.offline

(* esp_restart, or the panic handler: nothing is kept.                     *)
Reboot ==
  /\ boot' = Initial.boot
  /\ bit' = Initial.bit
  /\ s_using_ethernet' = Initial.using
  /\ eth' = Initial.eth
  /\ wifi' = Initial.wifi
  /\ s_wifi_retry' = Initial.retry
  /\ timer' = Initial.timer
  /\ events' = Initial.events
  /\ loop' = Initial.loop
  /\ s_client' = Initial.client
  /\ s_offline' = Initial.offline

-----------------------------------------------------------------------------
(* app_main                                                                *)

(* The driver is installed and started, or cannot be installed.            *)
EthInit ==
  /\ boot = "eth_init"
  /\ \/ boot' = "eth_wait" /\ eth' = "down"
     \/ boot' = "wifi_init" /\ UNCHANGED eth
  /\ UNCHANGED <<bit, s_using_ethernet, wifi, s_wifi_retry, timer, events, loop, s_client,
                 s_offline>>

(* Eight seconds for Ethernet to connect.                                  *)
EthWait ==
  /\ boot = "eth_wait"
  /\ boot' = IF bit THEN "services" ELSE "wifi_init"
  /\ s_using_ethernet' = bit
  /\ UNCHANGED <<bit, netVars, s_wifi_retry, timer, events, loop, s_client, s_offline>>

WifiInit ==
  /\ boot = "wifi_init"
  /\ Len(events) < MaxEvents
  /\ boot' = "wifi_wait"
  /\ wifi' = "idle"
  /\ events' = Append(events, "STA_START")
  /\ UNCHANGED <<bit, s_using_ethernet, eth, s_wifi_retry, timer, loop, s_client, s_offline>>

(* No timeout: portMAX_DELAY.                                              *)
WifiWait ==
  /\ boot = "wifi_wait"
  /\ bit
  /\ boot' = "services"
  /\ UNCHANGED <<bit, s_using_ethernet, netVars, s_wifi_retry, timer, events, loop, s_client,
                 s_offline>>

(* tcp_log, mDNS, the watchdog task, the web server and its handlers.      *)
Services ==
  /\ boot = "services"
  /\ boot' = "mqtt_init"
  /\ UNCHANGED <<bit, s_using_ethernet, netVars, s_wifi_retry, timer, events, loop, s_client,
                 s_offline>>

(* mqtt_gw_init: no broker is configured, or no client can be had, or the  *)
(* client exists and the handlers see it.                                  *)
MqttInit ==
  /\ boot = "mqtt_init"
  /\ \/ boot' = "ready" /\ UNCHANGED s_client
     \/ boot' = "mqtt_start" /\ s_client' = "stopped"
  /\ UNCHANGED <<bit, s_using_ethernet, netVars, s_wifi_retry, timer, events, loop, s_offline>>

(* ESP_ERROR_CHECK(esp_mqtt_client_start(s_client)); a client that runs    *)
(* already may refuse to be started.                                       *)
MqttStart ==
  /\ boot = "mqtt_start"
  /\ \/ boot' = "ready"
     \/ s_client = "started" /\ boot' = "abort"
  /\ s_client' = "started"
  /\ UNCHANGED <<bit, s_using_ethernet, netVars, s_wifi_retry, timer, events, loop, s_offline>>

Abort == boot = "abort" /\ Reboot

AppMain ==
  EthInit \/ EthWait \/ WifiInit \/ WifiWait \/ Services \/ MqttInit \/ MqttStart \/ Abort

-----------------------------------------------------------------------------
(* The event loop                                                          *)

Take(event) ==
  /\ loop = "free" /\ boot # "abort"
  /\ events # <<>> /\ Head(events) = event
  /\ events' = Tail(events)

(* esp_wifi_connect does nothing to a station that is not idle.            *)
WifiConnect == IF wifi = "idle" THEN "joining" ELSE wifi

StaStart ==
  /\ Take("STA_START")
  /\ wifi' = WifiConnect
  /\ UNCHANGED <<boot, bit, s_using_ethernet, eth, s_wifi_retry, timer, loop, s_client, s_offline>>

(* Mutation: the bit is left set.                                          *)
StaDisconnectedKeepsBit ==
  /\ Take("STA_DISCONNECTED")
  /\ s_wifi_retry' = Lesser(s_wifi_retry + 1, MaxRetry)
  /\ loop' = "wifi_lost"
  /\ UNCHANGED <<boot, bit, s_using_ethernet, netVars, timer, s_client, s_offline>>

(* Mutation: a station that is lost is retried during start-up only.       *)
StaDisconnectedLater ==
  /\ Take("STA_DISCONNECTED")
  /\ s_wifi_retry' = Lesser(s_wifi_retry + 1, MaxRetry)
  /\ bit' = FALSE
  /\ loop' = IF boot = "wifi_wait" THEN "wifi_lost" ELSE "eth_lost"
  /\ UNCHANGED <<boot, s_using_ethernet, netVars, timer, s_client, s_offline>>

(* on_lost_ip clears the bit; stopping the client, and for WiFi the retry  *)
(* timer, come after it.                                                   *)
StaDisconnected ==
  /\ Take("STA_DISCONNECTED")
  /\ s_wifi_retry' = Lesser(s_wifi_retry + 1, MaxRetry)
  /\ bit' = FALSE
  /\ loop' = "wifi_lost"
  /\ UNCHANGED <<boot, s_using_ethernet, netVars, timer, s_client, s_offline>>

EthDisconnected ==
  /\ Take("ETH_DISCONNECTED")
  /\ bit' = FALSE
  /\ loop' = "eth_lost"
  /\ UNCHANGED <<boot, s_using_ethernet, netVars, s_wifi_retry, timer, s_client, s_offline>>

(* on_got_ip sets the bit; starting the client comes after it.             *)
StaGotIp ==
  /\ Take("STA_GOT_IP")
  /\ s_wifi_retry' = 0
  /\ timer' = 0
  /\ bit' = TRUE
  /\ loop' = "got_ip"
  /\ UNCHANGED <<boot, s_using_ethernet, netVars, s_client, s_offline>>

EthGotIp ==
  /\ Take("ETH_GOT_IP")
  /\ bit' = TRUE
  /\ loop' = "got_ip"
  /\ UNCHANGED <<boot, s_using_ethernet, netVars, s_wifi_retry, timer, s_client, s_offline>>

(* Mutation: the handler leaves the client as it is.                       *)
ClientUpForgotten ==
  /\ loop = "got_ip" /\ boot # "abort"
  /\ loop' = "free"
  /\ UNCHANGED <<boot, bit, s_using_ethernet, netVars, s_wifi_retry, timer, events, s_client,
                 s_offline>>

(* mqtt_gw_wifi_connected; that the client runs already is not an error    *)
(* here.                                                                   *)
ClientUp ==
  /\ loop = "got_ip" /\ boot # "abort"
  /\ loop' = "free"
  /\ s_client' = IF s_client = "NULL" THEN "NULL" ELSE "started"
  /\ UNCHANGED <<boot, bit, s_using_ethernet, netVars, s_wifi_retry, timer, events, s_offline>>

(* mqtt_gw_wifi_disconnected, and then, for WiFi, the retry timer is       *)
(* started for the delay this many failures call for.                      *)
ClientDown ==
  /\ loop \in {"eth_lost", "wifi_lost"} /\ boot # "abort"
  /\ loop' = "free"
  /\ s_client' = IF s_client = "NULL" THEN "NULL" ELSE "stopped"
  /\ timer' = IF loop = "wifi_lost" THEN Backoff(s_wifi_retry) ELSE timer
  /\ UNCHANGED <<boot, bit, s_using_ethernet, netVars, s_wifi_retry, events, s_offline>>

Handlers ==
  StaStart \/ StaDisconnected \/ EthDisconnected \/ StaGotIp \/ EthGotIp \/ ClientUp \/ ClientDown

(* wifi_retry_timer_cb, in the timer task.                                 *)
RetryTimer ==
  /\ timer # 0 /\ boot # "abort"
  /\ timer' = 0
  /\ wifi' = WifiConnect
  /\ UNCHANGED <<boot, bit, s_using_ethernet, eth, s_wifi_retry, events, loop, s_client, s_offline>>

WatchdogRuns == boot \in {"mqtt_init", "mqtt_start", "ready"}

(* Mutation: the counter is compared with > instead of >=.                 *)
WatchdogOneLate ==
  /\ WatchdogRuns
  /\ IF ~bit /\ s_offline >= RebootAfter
     THEN Reboot
     ELSE /\ s_offline' = IF bit THEN 0 ELSE s_offline + 1
          /\ UNCHANGED <<boot, bit, s_using_ethernet, netVars, s_wifi_retry, timer, events, loop,
                         s_client>>

(* Mutation: the counter is not static: every turn begins with 0.          *)
WatchdogForgets ==
  /\ WatchdogRuns
  /\ s_offline' = IF bit THEN 0 ELSE 1
  /\ UNCHANGED <<boot, bit, s_using_ethernet, netVars, s_wifi_retry, timer, events, loop, s_client>>

(* One turn of watchdog_task.                                              *)
Watchdog ==
  /\ WatchdogRuns
  /\ IF ~bit /\ s_offline + 1 >= RebootAfter
     THEN Reboot
     ELSE /\ s_offline' = IF bit THEN 0 ELSE s_offline + 1
          /\ UNCHANGED <<boot, bit, s_using_ethernet, netVars, s_wifi_retry, timer, events, loop,
                         s_client>>

-----------------------------------------------------------------------------
(* The world: cables and access points.  Each change posts an event.       *)

Post(event) ==
  /\ boot # "abort"
  /\ Len(events) < MaxEvents
  /\ events' = Append(events, event)
  /\ UNCHANGED <<boot, bit, s_using_ethernet, s_wifi_retry, timer, loop, s_client, s_offline>>

(* ETHERNET_EVENT_CONNECTED is only logged.                                *)
CablePlugged ==
  /\ boot # "abort"
  /\ eth = "down" /\ eth' = "link"
  /\ UNCHANGED <<boot, bit, s_using_ethernet, wifi, s_wifi_retry, timer, events, loop, s_client,
                 s_offline>>

EthLeases      == eth = "link" /\ eth' = "ip" /\ UNCHANGED wifi /\ Post("ETH_GOT_IP")
CableUnplugged == eth \in {"link", "ip"} /\ eth' = "down" /\ UNCHANGED wifi /\ Post("ETH_DISCONNECTED")
WifiJoins      == wifi = "joining" /\ wifi' = "ip" /\ UNCHANGED eth /\ Post("STA_GOT_IP")
WifiFails      == wifi = "joining" /\ wifi' = "idle" /\ UNCHANGED eth /\ Post("STA_DISCONNECTED")
WifiDrops      == wifi = "ip" /\ wifi' = "idle" /\ UNCHANGED eth /\ Post("STA_DISCONNECTED")

World == CablePlugged \/ EthLeases \/ CableUnplugged \/ WifiJoins \/ WifiFails \/ WifiDrops

Next == AppMain \/ Handlers \/ RetryTimer \/ Watchdog \/ World

Spec == Init /\ [][Next]_vars

(* The scheduler runs app_main, the event loop, the timer task and the     *)
(* watchdog; the driver reports how an attempt to join ended.              *)
FairSpec ==
  /\ Spec
  /\ WF_vars(AppMain) /\ WF_vars(Handlers) /\ WF_vars(RetryTimer) /\ WF_vars(Watchdog)
  /\ WF_vars(WifiJoins \/ WifiFails)

-----------------------------------------------------------------------------
Event == {"STA_START", "STA_DISCONNECTED", "STA_GOT_IP", "ETH_DISCONNECTED", "ETH_GOT_IP"}

(* Every variable has the values the code can give it; the watchdog acts   *)
(* before its counter reaches the limit a second time.                     *)
TypeOK ==
  /\ boot \in {"eth_init", "eth_wait", "wifi_init", "wifi_wait", "services", "mqtt_init",
               "mqtt_start", "abort", "ready"}
  /\ bit \in BOOLEAN /\ s_using_ethernet \in BOOLEAN
  /\ eth \in {"off", "down", "link", "ip"}
  /\ wifi \in {"off", "idle", "joining", "ip"}
  /\ s_wifi_retry \in 0..MaxRetry
  /\ timer \in {0} \cup {Backoff(n) : n \in 1..MaxRetry}
  /\ events \in Seq(Event) /\ Len(events) <= MaxEvents
  /\ loop \in {"free", "got_ip", "eth_lost", "wifi_lost"}
  /\ s_client \in {"NULL", "stopped", "started"}
  /\ s_offline \in 0..(RebootAfter - 1)

HasIp == eth = "ip" \/ wifi = "ip"

(* The handlers have caught up with what happened.                         *)
Settled == events = <<>> /\ loop = "free"

(* NET_CONNECTED_BIT never claims a network that is gone.                  *)
BitSound == Settled /\ bit => HasIp

(* A station that is neither connected nor joining will be told to join    *)
(* again: the handler that cancels the retry timer never cancels a retry   *)
(* that is still needed.                                                   *)
RetryPending ==
  wifi = "idle" =>
    \/ timer # 0
    \/ loop = "wifi_lost"
    \/ \E n \in 1..Len(events) : events[n] \in {"STA_START", "STA_DISCONNECTED"}

(* While the gateway is online its MQTT client runs, whichever of app_main *)
(* and the event loop came first.                                          *)
OnlineMeansMqtt == boot = "ready" /\ Settled /\ bit /\ s_client # "NULL" => s_client = "started"

(* A gateway that is up and has no address gets one, or is restarted.      *)
OfflineEnds == (boot = "ready" /\ ~HasIp) ~> (HasIp \/ boot = "eth_init")

(* A station that lost its access point tries again, forever.              *)
WifiRetried == (wifi = "idle") ~> (wifi # "idle")

(* "network offline" (main.c:224): on a board whose Ethernet cannot be     *)
(* installed the bit is clear, and the watchdog counts towards a restart,  *)
(* only when there is no network.  With both interfaces it fails: they     *)
(* share the bit, and one that goes down clears it for the other.          *)
OfflineMeansOffline == eth = "off" /\ Settled /\ ~bit => wifi # "ip"

(* "WiFi also unavailable - running in modem-only mode." (main.c:279): the *)
(* gateway comes up even if there never is a network.                      *)
ComesUp == []~HasIp => <>(boot \in {"services", "mqtt_init", "mqtt_start", "ready"})

=============================================================================
