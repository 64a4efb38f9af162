--------------------------- MODULE NetworkProofs ---------------------------
(***************************************************************************)
(* What holds of Network for every number of waiting events and every      *)
(* watchdog limit.  Only IInv below is inductive: the handlers change the  *)
(* bit long after the interfaces change, so the invariants must speak of   *)
(* what the waiting events will make of it.                                *)
(***************************************************************************)
EXTENDS Network, TLAPS

(* e waits in q.                                                           *)
Posted(q, e) == \E n \in 1..Len(q) : q[n] = e

(* got waits in q, and lost does not wait behind it.                       *)
EndsUp(q, got, lost) ==
  \E n \in 1..Len(q) : q[n] = got /\ \A m \in 1..Len(q) : m > n => q[m] # lost

(* What posting an event does to the queue.                                *)
LEMMA AppendFacts ==
  ASSUME NEW S, NEW q \in Seq(S), NEW e \in S
  PROVE  /\ Append(q, e) \in Seq(S) /\ Len(Append(q, e)) = Len(q) + 1
         /\ \A x : Posted(Append(q, e), x) <=> (x = e \/ Posted(q, x))
         /\ \A x, y : x # y => (EndsUp(Append(q, e), x, y) <=>
                                  (e = x \/ (e # y /\ EndsUp(q, x, y))))
<1> DEFINE r == Append(q, e)
<1>1. /\ r \in Seq(S) /\ Len(q) \in Nat /\ Len(r) = Len(q) + 1
      /\ r[Len(q) + 1] = e /\ \A n \in 1..Len(q) : r[n] = q[n]
  OBVIOUS
<1> HIDE DEF r
<1>2. \A x : Posted(r, x) <=> (x = e \/ Posted(q, x))
  BY <1>1 DEF Posted
<1>3. ASSUME NEW x, NEW y, x # y
      PROVE  EndsUp(r, x, y) <=> (e = x \/ (e # y /\ EndsUp(q, x, y)))
  <2>1. ASSUME EndsUp(r, x, y) PROVE e = x \/ (e # y /\ EndsUp(q, x, y))
    <3>1. PICK n \in 1..Len(r) : r[n] = x /\ \A m \in 1..Len(r) : m > n => r[m] # y
      BY <2>1 DEF EndsUp
    <3>2. CASE n = Len(q) + 1
      BY <1>1, <3>1, <3>2
    <3>3. CASE n # Len(q) + 1
      <4>1. n \in 1..Len(q) /\ Len(q) + 1 > n /\ e # y
        BY <1>1, <3>1, <3>3
      <4> QED
        BY <1>1, <3>1, <4>1 DEF EndsUp
    <3> QED
      BY <3>2, <3>3
  <2>2. ASSUME e = x PROVE EndsUp(r, x, y)
    BY <1>1, <2>2 DEF EndsUp
  <2>3. ASSUME e # y, EndsUp(q, x, y) PROVE EndsUp(r, x, y)
    <3>1. PICK n \in 1..Len(q) : q[n] = x /\ \A m \in 1..Len(q) : m > n => q[m] # y
      BY <2>3 DEF EndsUp
    <3>2. \A m \in 1..Len(r) : m > n => r[m] # y
      BY <1>1, <2>3, <3>1
    <3> QED
      BY <1>1, <3>1, <3>2 DEF EndsUp
  <2> QED
    BY <2>1, <2>2, <2>3
<1> QED
  BY <1>1, <1>2, <1>3 DEF r

(* What taking the first event does to the queue.                          *)
LEMMA TailFacts ==
  ASSUME NEW S, NEW q \in Seq(S), q # <<>>
  PROVE  /\ Tail(q) \in Seq(S) /\ Len(Tail(q)) = Len(q) - 1 /\ Head(q) \in S
         /\ Posted(q, Head(q))
         /\ \A x : Posted(Tail(q), x) => Posted(q, x)
         /\ \A x : Posted(q, x) => x = Head(q) \/ Posted(Tail(q), x)
         /\ \A x, y : EndsUp(Tail(q), x, y) => EndsUp(q, x, y)
         /\ \A x, y : Head(q) = x /\ ~Posted(Tail(q), y) => EndsUp(q, x, y)
         /\ \A x, y : EndsUp(q, x, y) =>
              EndsUp(Tail(q), x, y) \/ (Head(q) = x /\ ~Posted(Tail(q), y))
<1> DEFINE r == Tail(q)
<1>1. /\ r \in Seq(S) /\ Len(q) \in Nat \ {0} /\ Len(r) = Len(q) - 1
      /\ Head(q) = q[1] /\ q[1] \in S /\ \A n \in 1..Len(r) : r[n] = q[n + 1]
  OBVIOUS
<1> HIDE DEF r
<1>2. 1 \in 1..Len(q) /\ Posted(q, Head(q))
  BY <1>1 DEF Posted
<1>3. \A x : Posted(r, x) => Posted(q, x)
  <2>1. \A n \in 1..Len(r) : n + 1 \in 1..Len(q)
    BY <1>1
  <2> QED
    BY <1>1, <2>1 DEF Posted
<1>4. \A n \in 1..Len(q) : n # 1 => n - 1 \in 1..Len(r) /\ r[n - 1] = q[n]
  BY <1>1
<1>5. \A x : Posted(q, x) => x = Head(q) \/ Posted(r, x)
  BY <1>1, <1>4 DEF Posted
<1>6. ASSUME NEW x, NEW y, EndsUp(r, x, y) PROVE EndsUp(q, x, y)
  <2>1. PICK n \in 1..Len(r) : r[n] = x /\ \A m \in 1..Len(r) : m > n => r[m] # y
    BY <1>6 DEF EndsUp
  <2>2. n + 1 \in 1..Len(q) /\ q[n + 1] = x
    BY <1>1, <2>1
  <2>3. ASSUME NEW m \in 1..Len(q), m > n + 1 PROVE q[m] # y
    <3>1. m - 1 \in 1..Len(r) /\ m - 1 > n /\ r[m - 1] = q[m]
      BY <1>1, <1>4, <2>1, <2>3
    <3> QED
      BY <2>1, <3>1
  <2> QED
    BY <2>2, <2>3 DEF EndsUp
<1>7. ASSUME NEW x, NEW y, Head(q) = x, ~Posted(r, y) PROVE EndsUp(q, x, y)
  <2>1. \A m \in 1..Len(q) : m > 1 => q[m] # y
    BY <1>1, <1>4, <1>7 DEF Posted
  <2> QED
    BY <1>1, <1>2, <1>7, <2>1 DEF EndsUp
<1>8. ASSUME NEW x, NEW y, EndsUp(q, x, y)
      PROVE  EndsUp(r, x, y) \/ (Head(q) = x /\ ~Posted(r, y))
  <2>1. PICK n \in 1..Len(q) : q[n] = x /\ \A m \in 1..Len(q) : m > n => q[m] # y
    BY <1>8 DEF EndsUp
  <2>2. ASSUME NEW m \in 1..Len(r), m + 1 > n PROVE r[m] # y
    <3>1. m + 1 \in 1..Len(q) /\ r[m] = q[m + 1]
      BY <1>1
    <3> QED
      BY <2>1, <2>2, <3>1
  <2>3. CASE n = 1
    BY <1>1, <2>1, <2>2, <2>3 DEF Posted
  <2>4. CASE n # 1
    <3>1. n - 1 \in 1..Len(r) /\ r[n - 1] = x
      BY <1>4, <2>1, <2>4
    <3>2. \A m \in 1..Len(r) : m > n - 1 => r[m] # y
      BY <1>1, <2>1, <2>2
    <3> QED
      BY <3>1, <3>2 DEF EndsUp
  <2> QED
    BY <2>3, <2>4
<1> QED
  BY <1>1, <1>2, <1>3, <1>5, <1>6, <1>7, <1>8 DEF r

(* The empty queue.                                                        *)
LEMMA EmptyFacts ==
  /\ \A x : ~Posted(<<>>, x)
  /\ \A x, y : ~EndsUp(<<>>, x, y)
BY DEF Posted, EndsUp

-----------------------------------------------------------------------------
(* The retry timer is always started for a positive time.                  *)
LEMMA BackoffPositive ==
  ASSUME NEW n \in Nat
  PROVE  Backoff(n) \in Nat \ {0}
<1>1. Lesser(n, 5) \in 0..5
  BY DEF Lesser
<1>2. Lesser(n, 5) + 1 \in {1, 2, 3, 4, 5, 6}
  BY <1>1
<1> QED
  BY <1>2 DEF Backoff

-----------------------------------------------------------------------------
(* Type correctness.                                                       *)

(* The type invariant is inductive once it is known that a handler that    *)
(* is about to start the retry timer has counted a failure.                *)
TypeInv == TypeOK /\ (loop = "wifi_lost" => s_wifi_retry # 0)

(* The state a start, or a restart, begins in.                             *)
LEMMA TypeInit ==
  ASSUME boot = Initial.boot, bit = Initial.bit, s_using_ethernet = Initial.using,
         eth = Initial.eth, wifi = Initial.wifi, s_wifi_retry = Initial.retry,
         timer = Initial.timer, events = Initial.events, loop = Initial.loop,
         s_client = Initial.client, s_offline = Initial.offline
  PROVE  TypeInv
BY NetworkAssumption DEF Initial, TypeInv, TypeOK, Event

(* A restart leads there.                                                  *)
LEMMA TypeReboot == Reboot => TypeInv'
<1>1. SUFFICES ASSUME Reboot PROVE TypeInv'
  OBVIOUS
<1>2. /\ boot' = "eth_init" /\ bit' = FALSE /\ s_using_ethernet' = FALSE /\ eth' = "off"
      /\ wifi' = "off" /\ s_wifi_retry' = 0 /\ timer' = 0 /\ events' = <<>> /\ loop' = "free"
      /\ s_client' = "NULL" /\ s_offline' = 0
  BY <1>1 DEF Reboot, Initial
<1>3. events' \in Seq(Event) /\ Len(events') = 0
  BY <1>2
<1>4. bit' \in BOOLEAN /\ s_using_ethernet' \in BOOLEAN
  BY <1>2
<1>5. Len(events') <= MaxEvents /\ s_wifi_retry' \in 0..MaxRetry /\ s_offline' \in 0..(RebootAfter - 1)
  BY <1>2, <1>3, NetworkAssumption
<1> QED
  BY <1>2, <1>3, <1>4, <1>5 DEF TypeInv, TypeOK

(* Steps that post an event.                                               *)
LEMMA TypePost ==
  ASSUME TypeInv, NEW e \in Event, Post(e), UNCHANGED eth \/ eth' \in {"off", "down", "link", "ip"},
         UNCHANGED wifi \/ wifi' \in {"off", "idle", "joining", "ip"}
  PROVE  TypeInv'
<1>1. events' \in Seq(Event) /\ Len(events') <= MaxEvents
  BY AppendFacts, NetworkAssumption DEF TypeInv, TypeOK, Post
<1> QED
  BY <1>1 DEF TypeInv, TypeOK, Post

(* Taking an event.                                                        *)
LEMMA TypeTake ==
  ASSUME TypeInv, NEW e, Take(e)
  PROVE  events' \in Seq(Event) /\ Len(events') <= MaxEvents /\ loop = "free"
<1>1. events \in Seq(Event) /\ events # <<>> /\ Len(events) <= MaxEvents
  BY DEF TypeInv, TypeOK, Take
<1>2. Tail(events) \in Seq(Event) /\ Len(Tail(events)) = Len(events) - 1
  BY <1>1, TailFacts
<1> QED
  BY <1>1, <1>2, NetworkAssumption DEF Take

(* Every step keeps the types.                                            *)
LEMMA TypeStep ==
  ASSUME TypeInv, [Next]_vars
  PROVE  TypeInv'
<1> USE NetworkAssumption
<1>1. CASE AppMain
  <2>1. CASE WifiInit
    <3>1. events' \in Seq(Event) /\ Len(events') <= MaxEvents
      BY <2>1, AppendFacts DEF WifiInit, TypeInv, TypeOK, Event
    <3> QED
      BY <2>1, <3>1 DEF WifiInit, TypeInv, TypeOK
  <2>2. CASE Abort
    BY <2>2, TypeReboot DEF Abort
  <2>3. CASE EthInit \/ EthWait \/ WifiWait \/ Services \/ MqttInit \/ MqttStart
    BY <2>3 DEF EthInit, EthWait, WifiWait, Services, MqttInit, MqttStart, TypeInv, TypeOK, netVars
  <2> QED
    BY <1>1, <2>1, <2>2, <2>3 DEF AppMain
<1>2. CASE Handlers
  <2>1. CASE StaStart
    <3>1. events' \in Seq(Event) /\ Len(events') <= MaxEvents
      BY <2>1, TypeTake DEF StaStart
    <3> QED
      BY <2>1, <3>1 DEF StaStart, TypeInv, TypeOK, WifiConnect
  <2>2. CASE StaDisconnected
    <3>1. events' \in Seq(Event) /\ Len(events') <= MaxEvents
      BY <2>2, TypeTake DEF StaDisconnected
    <3>2. s_wifi_retry' \in 0..MaxRetry /\ s_wifi_retry' # 0
      BY <2>2 DEF StaDisconnected, TypeInv, TypeOK, Lesser
    <3> QED
      BY <2>2, <3>1, <3>2 DEF StaDisconnected, TypeInv, TypeOK, netVars
  <2>3. CASE EthDisconnected
    <3>1. events' \in Seq(Event) /\ Len(events') <= MaxEvents
      BY <2>3, TypeTake DEF EthDisconnected
    <3> QED
      BY <2>3, <3>1 DEF EthDisconnected, TypeInv, TypeOK, netVars
  <2>4. CASE StaGotIp
    <3>1. events' \in Seq(Event) /\ Len(events') <= MaxEvents
      BY <2>4, TypeTake DEF StaGotIp
    <3> QED
      BY <2>4, <3>1 DEF StaGotIp, TypeInv, TypeOK, netVars
  <2>5. CASE EthGotIp
    <3>1. events' \in Seq(Event) /\ Len(events') <= MaxEvents
      BY <2>5, TypeTake DEF EthGotIp
    <3> QED
      BY <2>5, <3>1 DEF EthGotIp, TypeInv, TypeOK, netVars
  <2>6. CASE ClientUp
    BY <2>6 DEF ClientUp, TypeInv, TypeOK, netVars
  <2>7. CASE ClientDown
    <3>1. timer' \in {0} \cup {Backoff(n) : n \in 1..MaxRetry}
      BY <2>7 DEF ClientDown, TypeInv, TypeOK
    <3> QED
      BY <2>7, <3>1 DEF ClientDown, TypeInv, TypeOK, netVars
  <2> QED
    BY <1>2, <2>1, <2>2, <2>3, <2>4, <2>5, <2>6, <2>7 DEF Handlers
<1>3. CASE RetryTimer
  BY <1>3 DEF RetryTimer, WifiConnect, TypeInv, TypeOK
<1>4. CASE Watchdog
  <2>1. CASE ~bit /\ s_offline + 1 >= RebootAfter
    BY <1>4, <2>1, TypeReboot DEF Watchdog
  <2>2. CASE ~(~bit /\ s_offline + 1 >= RebootAfter)
    <3>1. s_offline' \in 0..(RebootAfter - 1)
      BY <1>4, <2>2 DEF Watchdog, TypeInv, TypeOK
    <3> QED
      BY <1>4, <2>2, <3>1 DEF Watchdog, TypeInv, TypeOK, netVars
  <2> QED
    BY <2>1, <2>2
<1>5. CASE World
  <2>1. CASE CablePlugged
    BY <2>1 DEF CablePlugged, TypeInv, TypeOK
  <2>2. CASE EthLeases \/ CableUnplugged \/ WifiJoins \/ WifiFails \/ WifiDrops
    BY <2>2, TypePost DEF EthLeases, CableUnplugged, WifiJoins, WifiFails, WifiDrops, Event
  <2> QED
    BY <1>5, <2>1, <2>2 DEF World
<1>6. CASE UNCHANGED vars
  BY <1>6 DEF vars, netVars, TypeInv, TypeOK
<1> QED
  BY <1>1, <1>2, <1>3, <1>4, <1>5, <1>6 DEF Next

(* Every variable has the values main.c can give it; in particular the     *)
(* watchdog's counter stays below its limit.                               *)
THEOREM TypeCorrect == Spec => []TypeOK
<1>1. Init => TypeInv
  BY TypeInit DEF Init
<1>2. TypeInv /\ [Next]_vars => TypeInv'
  BY TypeStep
<1>3. TypeInv => TypeOK
  BY DEF TypeInv
<1> QED
  BY <1>1, <1>2, <1>3, PTL DEF Spec

-----------------------------------------------------------------------------
(* The bit, the retry timer and the MQTT client.                           *)

Lost == {"ETH_DISCONNECTED", "STA_DISCONNECTED"}

(* Where app_main is tells what it has not touched yet.                    *)
Order ==
  /\ boot = "eth_init" => eth = "off"
  /\ boot \in {"eth_init", "eth_wait", "wifi_init"} => wifi = "off"
  /\ boot \in {"eth_init", "eth_wait", "wifi_init", "wifi_wait", "services", "mqtt_init"} =>
       s_client = "NULL"

(* An address that is announced and not taken back is there.               *)
EthTold  == EndsUp(events, "ETH_GOT_IP", "ETH_DISCONNECTED") => eth = "ip"
WifiTold == EndsUp(events, "STA_GOT_IP", "STA_DISCONNECTED") => wifi = "ip"

(* A bit that no waiting event will clear is right.                        *)
BitLasting == bit /\ (\A e \in Lost : ~Posted(events, e)) => HasIp

(* The handler that is about to stop the client has cleared the bit, and   *)
(* a client that is stopped has been stopped for that reason, unless       *)
(* app_main or a handler is about to start it.                             *)
ClientFollows ==
  /\ loop \in {"eth_lost", "wifi_lost"} => ~bit
  /\ s_client = "stopped" => boot = "mqtt_start" \/ ~bit \/ loop = "got_ip"

IInv ==
  /\ TypeInv /\ Order /\ EthTold /\ WifiTold /\ BitLasting /\ RetryPending /\ ClientFollows

(* RetryPending in the words of the lemmas.                                *)
LEMMA RetryWords ==
  RetryPending <=>
    (wifi = "idle" =>
       timer # 0 \/ loop = "wifi_lost" \/ Posted(events, "STA_START")
         \/ Posted(events, "STA_DISCONNECTED"))
BY DEF RetryPending, Posted

(* The state a start, or a restart, begins in.                             *)
LEMMA InvInit ==
  ASSUME boot = Initial.boot, bit = Initial.bit, s_using_ethernet = Initial.using,
         eth = Initial.eth, wifi = Initial.wifi, s_wifi_retry = Initial.retry,
         timer = Initial.timer, events = Initial.events, loop = Initial.loop,
         s_client = Initial.client, s_offline = Initial.offline
  PROVE  IInv
<1>1. TypeInv
  BY TypeInit
<1>2. Order /\ BitLasting /\ RetryPending /\ ClientFollows
  BY DEF Initial, Order, BitLasting, RetryPending, ClientFollows
<1>3. EthTold /\ WifiTold
  BY EmptyFacts DEF Initial, EthTold, WifiTold
<1> QED
  BY <1>1, <1>2, <1>3 DEF IInv

(* A restart leads there.                                                  *)
LEMMA InvReboot == Reboot => IInv'
<1>1. SUFFICES ASSUME Reboot PROVE IInv'
  OBVIOUS
<1>2. /\ boot' = "eth_init" /\ bit' = FALSE /\ eth' = "off" /\ wifi' = "off"
      /\ events' = <<>> /\ loop' = "free" /\ s_client' = "NULL"
  BY <1>1 DEF Reboot, Initial
<1>3. TypeInv'
  BY <1>1, TypeReboot
<1>4. (Order /\ BitLasting /\ RetryPending /\ ClientFollows)'
  BY <1>2 DEF Order, BitLasting, RetryPending, ClientFollows
<1>5. (EthTold /\ WifiTold)'
  BY <1>2, EmptyFacts DEF EthTold, WifiTold
<1> QED
  BY <1>3, <1>4, <1>5 DEF IInv

(* Steps that leave the queue alone.                                       *)
LEMMA InvQuiet ==
  ASSUME IInv, TypeInv', Order', RetryPending', ClientFollows', UNCHANGED events,
         eth = "ip" => eth' = "ip", wifi = "ip" => wifi' = "ip", bit' => bit
  PROVE  IInv'
<1>1. (EthTold /\ WifiTold)'
  BY DEF IInv, EthTold, WifiTold
<1>2. BitLasting'
  BY DEF IInv, BitLasting, HasIp
<1> QED
  BY <1>1, <1>2 DEF IInv

(* Steps that post an event of an interface.                               *)
LEMMA InvPost ==
  ASSUME IInv, EthLeases \/ CableUnplugged \/ WifiJoins \/ WifiFails \/ WifiDrops
  PROVE  IInv'
<1> DEFINE q == events
<1>1. TypeInv'
  BY TypeStep DEF IInv, Next, World
<1>2. events \in Seq(Event)
  BY DEF IInv, TypeInv, TypeOK
<1>3. /\ UNCHANGED <<boot, bit, timer, loop, s_client>>
      /\ boot # "abort"
  BY DEF EthLeases, CableUnplugged, WifiJoins, WifiFails, WifiDrops, Post
<1>4. Order'
  BY <1>3 DEF IInv, Order, EthLeases, CableUnplugged, WifiJoins, WifiFails, WifiDrops
<1>5. ClientFollows'
  BY <1>3 DEF IInv, ClientFollows
<1>6. PICK e \in Event \ {"STA_START"} :
        /\ events' = Append(events, e)
        /\ e = "ETH_GOT_IP" => eth' = "ip" /\ UNCHANGED wifi
        /\ e = "STA_GOT_IP" => wifi' = "ip" /\ UNCHANGED eth
        /\ e = "ETH_DISCONNECTED" => UNCHANGED wifi
        /\ e = "STA_DISCONNECTED" => UNCHANGED eth
  BY DEF EthLeases, CableUnplugged, WifiJoins, WifiFails, WifiDrops, Post, Event
<1>7. /\ \A x : Posted(events', x) <=> (x = e \/ Posted(events, x))
      /\ \A x, y : x # y => (EndsUp(events', x, y) <=> (e = x \/ (e # y /\ EndsUp(events, x, y))))
  BY <1>2, <1>6, AppendFacts
<1>8. EthTold'
  BY <1>6, <1>7 DEF IInv, EthTold, Event
<1>9. WifiTold'
  BY <1>6, <1>7 DEF IInv, WifiTold, Event
<1>10. BitLasting'
  BY <1>3, <1>6, <1>7 DEF IInv, BitLasting, HasIp, Lost, Event
<1>11. RetryPending'
  <2>1. RetryPending
    BY DEF IInv
  <2>2. wifi' = "idle" => wifi = "idle" \/ e = "STA_DISCONNECTED"
    BY <1>6 DEF Event
  <2> QED
    BY <1>3, <1>7, <2>1, <2>2, RetryWords DEF RetryPending, Posted
<1> QED
  BY <1>1, <1>4, <1>5, <1>8, <1>9, <1>10, <1>11 DEF IInv

(* What a handler finds, and what it leaves in the queue.                  *)
LEMMA TakeFacts ==
  ASSUME TypeInv, NEW e, Take(e)
  PROVE  /\ loop = "free"
         /\ \A x : Posted(events, x) <=> x = e \/ Posted(events', x)
         /\ \A x, y : EndsUp(events', x, y) => EndsUp(events, x, y)
         /\ \A x, y : e = x /\ ~Posted(events', y) => EndsUp(events, x, y)
         /\ \A x, y : EndsUp(events, x, y) =>
              EndsUp(events', x, y) \/ (e = x /\ ~Posted(events', y))
<1>1. events \in Seq(Event) /\ events # <<>> /\ Head(events) = e /\ events' = Tail(events)
  BY DEF TypeInv, TypeOK, Take
<1>2. loop = "free"
  BY DEF Take
<1>3. /\ Posted(events, e)
      /\ \A x : Posted(Tail(events), x) => Posted(events, x)
      /\ \A x : Posted(events, x) => x = e \/ Posted(Tail(events), x)
      /\ \A x, y : EndsUp(Tail(events), x, y) => EndsUp(events, x, y)
      /\ \A x, y : e = x /\ ~Posted(Tail(events), y) => EndsUp(events, x, y)
      /\ \A x, y : EndsUp(events, x, y) =>
           EndsUp(Tail(events), x, y) \/ (e = x /\ ~Posted(Tail(events), y))
  BY <1>1, TailFacts
<1> QED
  BY <1>1, <1>2, <1>3

(* WIFI_EVENT_STA_START.                                                   *)
LEMMA InvStaStart == IInv /\ StaStart => IInv'
<1>1. SUFFICES ASSUME IInv, StaStart PROVE IInv'
  OBVIOUS
<1> USE <1>1
<1>2. TypeInv'
  BY TypeStep DEF IInv, Next, Handlers
<1>3. /\ \A x : Posted(events, x) <=> x = "STA_START" \/ Posted(events', x)
      /\ \A x, y : EndsUp(events', x, y) => EndsUp(events, x, y)
  BY TakeFacts DEF IInv, StaStart
<1>4. /\ UNCHANGED <<boot, bit, eth, timer, loop, s_client>>
      /\ wifi' # "idle" /\ (wifi = "ip" <=> wifi' = "ip") /\ (wifi = "off" => wifi' = "off")
  BY DEF StaStart, WifiConnect
<1>5. (Order /\ ClientFollows /\ RetryPending)'
  BY <1>4 DEF IInv, Order, ClientFollows, RetryPending
<1>6. (EthTold /\ WifiTold)'
  BY <1>3, <1>4 DEF IInv, EthTold, WifiTold
<1>7. BitLasting'
  BY <1>3, <1>4 DEF IInv, BitLasting, HasIp, Lost
<1> QED
  BY <1>2, <1>5, <1>6, <1>7 DEF IInv

(* An interface is down.                                                   *)
LEMMA InvDisconnected == IInv /\ (StaDisconnected \/ EthDisconnected) => IInv'
<1>1. SUFFICES ASSUME IInv, StaDisconnected \/ EthDisconnected PROVE IInv'
  OBVIOUS
<1> USE <1>1
<1>2. TypeInv'
  BY TypeStep DEF IInv, Next, Handlers
<1>3. PICK e \in Lost :
        /\ Take(e)
        /\ loop' = IF e = "STA_DISCONNECTED" THEN "wifi_lost" ELSE "eth_lost"
  BY DEF StaDisconnected, EthDisconnected, Lost
<1>4. /\ loop = "free"
      /\ \A x : Posted(events, x) <=> x = e \/ Posted(events', x)
      /\ \A x, y : EndsUp(events', x, y) => EndsUp(events, x, y)
  BY <1>3, TakeFacts DEF IInv
<1>5. UNCHANGED <<boot, eth, wifi, timer, s_client>> /\ bit' = FALSE
  BY DEF StaDisconnected, EthDisconnected, netVars
<1>6. (Order /\ ClientFollows /\ BitLasting)'
  BY <1>5 DEF IInv, Order, ClientFollows, BitLasting
<1>7. (EthTold /\ WifiTold)'
  BY <1>4, <1>5 DEF IInv, EthTold, WifiTold
<1>8. RetryPending'
  <2>1. wifi = "idle" =>
          timer # 0 \/ loop' = "wifi_lost" \/ Posted(events', "STA_START")
            \/ Posted(events', "STA_DISCONNECTED")
    BY <1>3, <1>4, RetryWords DEF IInv, Lost
  <2> QED
    BY <1>5, <2>1 DEF RetryPending, Posted
<1> QED
  BY <1>2, <1>6, <1>7, <1>8 DEF IInv

(* An interface has an address.                                            *)
LEMMA InvGotIp == IInv /\ (StaGotIp \/ EthGotIp) => IInv'
<1>1. SUFFICES ASSUME IInv, StaGotIp \/ EthGotIp PROVE IInv'
  OBVIOUS
<1> USE <1>1
<1>2. TypeInv'
  BY TypeStep DEF IInv, Next, Handlers
<1>3. PICK e \in {"STA_GOT_IP", "ETH_GOT_IP"} :
        /\ Take(e)
        /\ e = "ETH_GOT_IP" => UNCHANGED timer
  BY DEF StaGotIp, EthGotIp
<1>4. /\ loop = "free"
      /\ \A x : Posted(events, x) <=> x = e \/ Posted(events', x)
      /\ \A x, y : EndsUp(events', x, y) => EndsUp(events, x, y)
      /\ \A x, y : e = x /\ ~Posted(events', y) => EndsUp(events, x, y)
  BY <1>3, TakeFacts DEF IInv
<1>5. UNCHANGED <<boot, eth, wifi, s_client>> /\ bit' = TRUE /\ loop' = "got_ip"
  BY DEF StaGotIp, EthGotIp, netVars
<1>6. (Order /\ ClientFollows)'
  BY <1>5 DEF IInv, Order, ClientFollows
<1>7. (EthTold /\ WifiTold)'
  BY <1>4, <1>5 DEF IInv, EthTold, WifiTold
<1>8. BitLasting'
  <2>1. ASSUME \A x \in Lost : ~Posted(events', x) PROVE HasIp
    <3>1. e = "ETH_GOT_IP" => EndsUp(events, "ETH_GOT_IP", "ETH_DISCONNECTED")
      BY <1>4, <2>1 DEF Lost
    <3>2. e = "STA_GOT_IP" => EndsUp(events, "STA_GOT_IP", "STA_DISCONNECTED")
      BY <1>4, <2>1 DEF Lost
    <3> QED
      BY <3>1, <3>2 DEF IInv, EthTold, WifiTold, HasIp
  <2> QED
    BY <1>5, <2>1 DEF BitLasting, HasIp
<1>9. RetryPending'
  <2>1. ASSUME wifi = "idle", e = "STA_GOT_IP" PROVE Posted(events', "STA_DISCONNECTED")
    BY <1>4, <2>1 DEF IInv, WifiTold
  <2>2. wifi = "idle" =>
          timer' # 0 \/ Posted(events', "STA_START") \/ Posted(events', "STA_DISCONNECTED")
    BY <1>3, <1>4, <2>1, RetryWords DEF IInv
  <2> QED
    BY <1>5, <2>2 DEF RetryPending, Posted
<1> QED
  BY <1>2, <1>6, <1>7, <1>8, <1>9 DEF IInv

(* Every step keeps the invariant.                                         *)
LEMMA InvStep ==
  ASSUME IInv, [Next]_vars
  PROVE  IInv'
<1>1. TypeInv'
  BY TypeStep DEF IInv
<1>2. CASE AppMain
  <2>1. CASE Abort
    BY <2>1, InvReboot DEF Abort
  <2>2. CASE WifiInit
    <3>1. /\ UNCHANGED <<bit, eth, timer, loop, s_client>> /\ events' = Append(events, "STA_START")
          /\ boot = "wifi_init" /\ boot' = "wifi_wait" /\ wifi' = "idle"
      BY <2>2 DEF WifiInit
    <3>2. events \in Seq(Event) /\ "STA_START" \in Event
      BY DEF IInv, TypeInv, TypeOK, Event
    <3>3. /\ \A x : Posted(events', x) <=> (x = "STA_START" \/ Posted(events, x))
          /\ \A x, y : x # y => (EndsUp(events', x, y) <=>
               ("STA_START" = x \/ ("STA_START" # y /\ EndsUp(events, x, y))))
      BY <3>1, <3>2, AppendFacts
    <3>4. (Order /\ ClientFollows)'
      BY <3>1 DEF IInv, Order, ClientFollows
    <3>5. (EthTold /\ WifiTold)'
      BY <3>1, <3>3 DEF IInv, EthTold, WifiTold, Order
    <3>6. BitLasting'
      BY <3>1, <3>3 DEF IInv, BitLasting, HasIp, Lost, Order
    <3>7. RetryPending'
      BY <3>3 DEF RetryPending, Posted
    <3> QED
      BY <1>1, <3>4, <3>5, <3>6, <3>7 DEF IInv
  <2>3. CASE EthInit \/ EthWait \/ WifiWait \/ Services \/ MqttInit \/ MqttStart
    <3>1. /\ UNCHANGED <<bit, wifi, timer, events, loop>> /\ (eth = "ip" => eth' = "ip")
      BY <2>3 DEF EthInit, EthWait, WifiWait, Services, MqttInit, MqttStart, netVars, IInv, Order
    <3>2. (Order /\ ClientFollows)'
      BY <2>3 DEF EthInit, EthWait, WifiWait, Services, MqttInit, MqttStart, netVars, IInv, Order,
           ClientFollows
    <3>3. RetryPending'
      BY <3>1 DEF IInv, RetryPending
    <3> QED
      BY <1>1, <3>1, <3>2, <3>3, InvQuiet
  <2> QED
    BY <1>2, <2>1, <2>2, <2>3 DEF AppMain
<1>3. CASE Handlers
  <2>1. CASE ClientUp
    <3>1. (Order /\ ClientFollows /\ RetryPending)'
      BY <2>1 DEF ClientUp, IInv, Order, ClientFollows, RetryPending, netVars
    <3> QED
      BY <1>1, <2>1, <3>1, InvQuiet DEF ClientUp, netVars
  <2>2. CASE ClientDown
    <3>1. (Order /\ ClientFollows)'
      BY <2>2 DEF ClientDown, IInv, Order, ClientFollows, netVars
    <3>2. RetryPending'
      <4>1. Backoff(s_wifi_retry) # 0
        BY BackoffPositive DEF IInv, TypeInv, TypeOK
      <4> QED
        BY <2>2, <4>1 DEF ClientDown, IInv, RetryPending, netVars
    <3> QED
      BY <1>1, <2>2, <3>1, <3>2, InvQuiet DEF ClientDown, netVars
  <2> QED
    BY <1>3, <2>1, <2>2, InvStaStart, InvDisconnected, InvGotIp DEF Handlers
<1>4. CASE RetryTimer
  <2>1. (Order /\ ClientFollows /\ RetryPending)'
    BY <1>4 DEF RetryTimer, WifiConnect, IInv, Order, ClientFollows, RetryPending
  <2> QED
    BY <1>1, <1>4, <2>1, InvQuiet DEF RetryTimer, WifiConnect
<1>5. CASE Watchdog
  <2>1. CASE Reboot
    BY <2>1, InvReboot
  <2>2. CASE ~Reboot
    <3>1. UNCHANGED <<boot, bit, eth, wifi, timer, events, loop, s_client>>
      BY <1>5, <2>2 DEF Watchdog, netVars
    <3>2. (Order /\ ClientFollows /\ RetryPending)'
      BY <3>1 DEF IInv, Order, ClientFollows, RetryPending
    <3> QED
      BY <1>1, <3>1, <3>2, InvQuiet
  <2> QED
    BY <2>1, <2>2
<1>6. CASE World
  <2>1. CASE CablePlugged
    <3>1. (Order /\ ClientFollows /\ RetryPending)'
      BY <2>1 DEF CablePlugged, IInv, Order, ClientFollows, RetryPending
    <3> QED
      BY <1>1, <2>1, <3>1, InvQuiet DEF CablePlugged
  <2> QED
    BY <1>6, <2>1, InvPost DEF World
<1>7. CASE UNCHANGED vars
  <2>1. (Order /\ ClientFollows /\ RetryPending)'
    BY <1>7 DEF vars, netVars, IInv, Order, ClientFollows, RetryPending
  <2> QED
    BY <1>1, <1>7, <2>1, InvQuiet DEF vars, netVars
<1> QED
  BY <1>2, <1>3, <1>4, <1>5, <1>6, <1>7 DEF Next

(* The invariant holds in every behaviour.                                 *)
LEMMA Invariance == Spec => []IInv
<1>1. Init => IInv
  BY InvInit DEF Init
<1>2. IInv /\ [Next]_vars => IInv'
  BY InvStep
<1> QED
  BY <1>1, <1>2, PTL DEF Spec

(* The event handlers of main.c never leave NET_CONNECTED_BIT set for a    *)
(* network that is gone.                                                   *)
THEOREM BitRight == Spec => []BitSound
<1>1. IInv => BitSound
  BY EmptyFacts DEF IInv, BitLasting, BitSound, Settled
<1> QED
  BY <1>1, Invariance, PTL

(* A WiFi station that is neither connected nor joining is always about to *)
(* be told to join: no event cancels a retry that is still needed.         *)
THEOREM RetryNeverLost == Spec => []RetryPending
<1>1. IInv => RetryPending
  BY DEF IInv
<1> QED
  BY <1>1, Invariance, PTL

(* Once the gateway is up and the event loop has caught up, an online      *)
(* gateway's MQTT client has been started, whichever of app_main and the   *)
(* event loop was there first.                                             *)
THEOREM MqttFollows == Spec => []OnlineMeansMqtt
<1>1. IInv => OnlineMeansMqtt
  BY DEF IInv, TypeInv, TypeOK, ClientFollows, OnlineMeansMqtt, Settled
<1> QED
  BY <1>1, Invariance, PTL

-----------------------------------------------------------------------------
(* One interface: the bit is also complete.                                *)

(* Without Ethernet there are no events of its, and a WiFi address that is *)
(* there is in the bit or announced.                                       *)
NoEthernet ==
  /\ eth = "off"
  /\ ~Posted(events, "ETH_GOT_IP") /\ ~Posted(events, "ETH_DISCONNECTED")
WifiCounted ==
  wifi = "ip" =>
    EndsUp(events, "STA_GOT_IP", "STA_DISCONNECTED") \/ (bit /\ ~Posted(events, "STA_DISCONNECTED"))

OneInterface == IInv /\ NoEthernet /\ WifiCounted
WifiAlone    == IInv /\ (eth = "off" => OneInterface)

(* Ethernet that is installed stays installed until the device restarts.   *)
LEMMA EthStays ==
  ASSUME eth # "off", [Next]_vars, ~Reboot
  PROVE  eth' # "off"
BY DEF Next, AppMain, EthInit, EthWait, WifiInit, WifiWait, Services, MqttInit, MqttStart, Abort,
   Handlers, StaStart, StaDisconnected, EthDisconnected, StaGotIp, EthGotIp, ClientUp, ClientDown,
   RetryTimer, Watchdog, World, CablePlugged, EthLeases, CableUnplugged, WifiJoins, WifiFails,
   WifiDrops, vars, netVars

(* Every step that leaves Ethernet out keeps it.                           *)
LEMMA OneInterfaceStep ==
  ASSUME OneInterface, [Next]_vars, eth' = "off"
  PROVE  OneInterface'
<1>1. IInv /\ NoEthernet /\ WifiCounted /\ TypeInv /\ events \in Seq(Event)
  BY DEF OneInterface, IInv, TypeInv, TypeOK
<1>2. IInv'
  BY <1>1, InvStep
<1>3. CASE Reboot
  BY <1>2, <1>3, EmptyFacts DEF Reboot, Initial, OneInterface, NoEthernet, WifiCounted
<1>4. CASE UNCHANGED <<bit, events>> /\ eth' = eth
             /\ (wifi' = "ip" => wifi = "ip")
  BY <1>1, <1>2, <1>4 DEF OneInterface, NoEthernet, WifiCounted
<1>5. CASE ~Reboot /\ (AppMain \/ ClientUp \/ ClientDown \/ RetryTimer \/ Watchdog \/ CablePlugged
                        \/ UNCHANGED vars)
  <2>1. CASE WifiInit
    <3>1. /\ UNCHANGED <<bit, eth>> /\ wifi' = "idle" /\ events' = Append(events, "STA_START")
          /\ "STA_START" \in Event
      BY <2>1 DEF WifiInit, Event
    <3>2. \A x : Posted(events', x) <=> (x = "STA_START" \/ Posted(events, x))
      BY <1>1, <3>1, AppendFacts
    <3> QED
      BY <1>1, <1>2, <3>1, <3>2 DEF OneInterface, NoEthernet, WifiCounted
  <2>2. CASE ~WifiInit
    BY <1>4, <1>5, <2>2 DEF AppMain, EthInit, EthWait, WifiWait, Services, MqttInit, MqttStart,
         Abort, ClientUp, ClientDown, RetryTimer, Watchdog, WifiConnect, CablePlugged, vars, netVars
  <2> QED
    BY <2>1, <2>2
<1>6. CASE StaStart \/ StaDisconnected \/ EthDisconnected \/ StaGotIp \/ EthGotIp
  <2>1. PICK e : /\ Take(e)
                 /\ e = "STA_DISCONNECTED" \/ e = "STA_GOT_IP" \/ bit' = bit
    <3>1. ~EthDisconnected /\ ~EthGotIp
      BY <1>1, TakeFacts DEF EthDisconnected, EthGotIp, NoEthernet
    <3> QED
      BY <1>6, <3>1 DEF StaStart, StaDisconnected, StaGotIp
  <2>2. /\ \A x : Posted(events, x) <=> x = e \/ Posted(events', x)
        /\ \A x, y : EndsUp(events, x, y) =>
             EndsUp(events', x, y) \/ (e = x /\ ~Posted(events', y))
    BY <1>1, <2>1, TakeFacts
  <2>3. e = "STA_GOT_IP" => bit'
    BY <1>1, <1>6, <2>1, <2>2 DEF StaStart, StaDisconnected, EthDisconnected, StaGotIp, EthGotIp,
         Take
  <2>4. UNCHANGED eth /\ (wifi' = "ip" => wifi = "ip")
    BY <1>6 DEF StaStart, StaDisconnected, EthDisconnected, StaGotIp, EthGotIp, netVars,
         WifiConnect
  <2>5. NoEthernet'
    BY <1>1, <2>2, <2>4 DEF NoEthernet
  <2>6. WifiCounted'
    BY <1>1, <2>1, <2>2, <2>3, <2>4 DEF WifiCounted
  <2> QED
    BY <1>2, <2>5, <2>6 DEF OneInterface
<1>7. CASE EthLeases \/ CableUnplugged \/ WifiJoins \/ WifiFails \/ WifiDrops
  <2>1. ~EthLeases /\ ~CableUnplugged
    BY <1>1 DEF EthLeases, CableUnplugged, NoEthernet
  <2>2. PICK e \in {"STA_GOT_IP", "STA_DISCONNECTED"} :
          /\ events' = Append(events, e) /\ UNCHANGED <<bit, eth>>
          /\ wifi' = "ip" => e = "STA_GOT_IP"
    BY <1>7, <2>1 DEF WifiJoins, WifiFails, WifiDrops, Post
  <2>3. e \in Event
    BY <2>2 DEF Event
  <2>4. /\ \A x : Posted(events', x) <=> (x = e \/ Posted(events, x))
        /\ \A x, y : x # y => (EndsUp(events', x, y) <=>
                                 (e = x \/ (e # y /\ EndsUp(events, x, y))))
    BY <1>1, <2>2, <2>3, AppendFacts
  <2>5. NoEthernet' /\ WifiCounted'
    BY <1>1, <2>2, <2>4 DEF NoEthernet, WifiCounted
  <2> QED
    BY <1>2, <2>5 DEF OneInterface
<1> QED
  BY <1>3, <1>5, <1>6, <1>7 DEF Next, Handlers, World

(* A gateway without Ethernet that finds NET_CONNECTED_BIT clear is        *)
(* offline: the watchdog does not restart one that has a network.          *)
THEOREM OfflineRight == Spec => []OfflineMeansOffline
<1>1. Init => WifiAlone
  BY InvInit, EmptyFacts
     DEF Init, Initial, WifiAlone, OneInterface, NoEthernet, WifiCounted
<1>2. ASSUME WifiAlone, [Next]_vars
      PROVE  WifiAlone'
  <2>1. IInv'
    BY <1>2, InvStep DEF WifiAlone
  <2>2. CASE Reboot
    BY <2>1, <2>2, EmptyFacts
       DEF Reboot, Initial, WifiAlone, OneInterface, NoEthernet, WifiCounted
  <2>3. CASE ~Reboot
    BY <1>2, <2>1, <2>3, EthStays, OneInterfaceStep DEF WifiAlone
  <2> QED
    BY <2>2, <2>3
<1>3. WifiAlone => OfflineMeansOffline
  BY EmptyFacts DEF WifiAlone, OneInterface, NoEthernet, WifiCounted, OfflineMeansOffline, Settled
<1> QED
  BY <1>1, <1>2, <1>3, PTL DEF Spec

=============================================================================
