----------------------------- MODULE WifiProofs -----------------------------
(***************************************************************************)
(* What the device has when it is made to wait, and when it starts its     *)
(* servers, for every choice of settings and any number of restarts and    *)
(* lost associations.                                                      *)
(*                                                                         *)
(* The invariant follows the bit WIFI_SUCCESS back to its cause: main gets *)
(* past the wait only with the bit set, the bit is set only on an event,   *)
(* and the event was posted by a driver that had associated or leased.     *)
(***************************************************************************)
EXTENDS Wifi, TLAPS

\* The driver runs, and posts events, only once it has been initialised.
DriverNeedsGroup ==
  /\ main \in {"nvs", "adapter", "handlers", "mode", "start"}
       => radio = "off" /\ events = <<>> /\ ~success
  /\ main \in {"start", "wait", "servers", "polling"} => driver
  /\ radio # "off" => driver
  /\ events # <<>> => driver
  /\ driver => group # "none"
  /\ success => group = "made"

\* Every pending event tells what has happened since the restart.
EventsAreTrue ==
  \A i \in 1 .. Len(events) :
    /\ events[i] = "STA_CONNECTED" => "associated" \in reached
    /\ events[i] = "STA_GOT_IP" => "leased" \in reached

SuccessMeansOnline ==
  /\ success => "associated" \in reached /\ (config.static \/ "leased" \in reached)
  /\ main \in {"servers", "polling"} => success

\* An address is leased to an associated station only.
LeasedAfterAssociated ==
  /\ radio = "associated" => "associated" \in reached
  /\ "leased" \in reached => "associated" \in reached

BootInv ==
  /\ TypeOK /\ DriverNeedsGroup /\ EventsAreTrue /\ SuccessMeansOnline
  /\ LeasedAfterAssociated

-----------------------------------------------------------------------------
LEMMA InitEstablishesBootInv == Init => BootInv
<1> SUFFICES ASSUME Init
             PROVE  BootInv
  OBVIOUS
<1>1. events = <<>> /\ Len(events) = 0
  BY DEF Init
<1>2. TypeOK
  <2>1. events \in Seq(Event)
    BY DEF Init
  <2>2. resets \in 0 .. MaxResets /\ drops \in 0 .. MaxDrops
    BY BoundsAssumption DEF Init
  <2>3. group \in {"none", "null", "made"} /\ driver \in BOOLEAN /\ success \in BOOLEAN /\ leased \in BOOLEAN
    BY DEF Init
  <2>4. config \in Configs
    BY DEF Init
  <2>5. reached \subseteq {"associated", "leased"}
    BY DEF Init
  <2>6. QED
    BY <2>1, <2>2, <2>3, <2>4, <2>5 DEF Init, TypeOK
<1>3. EventsAreTrue
  BY <1>1 DEF EventsAreTrue
<1>4. DriverNeedsGroup
  BY DEF Init, DriverNeedsGroup
<1>5. SuccessMeansOnline /\ LeasedAfterAssociated
  BY DEF Init, SuccessMeansOnline, LeasedAfterAssociated
<1>6. QED
  BY <1>2, <1>3, <1>4, <1>5 DEF BootInv

\* Appending an event that is true keeps the pending events true, also when
\* more has been reached.
LEMMA PostKeepsTruth ==
  ASSUME TypeOK, EventsAreTrue, NEW e, Post(e),
         e \in Event,
         reached \subseteq reached',
         e = "STA_CONNECTED" => "associated" \in reached',
         e = "STA_GOT_IP" => "leased" \in reached'
  PROVE  /\ EventsAreTrue'
         /\ events' \in Seq(Event)
<1>1. /\ Len(events') = Len(events) + 1
      /\ \A i \in 1 .. Len(events) : events'[i] = events[i]
      /\ events'[Len(events) + 1] = e
      /\ Len(events) \in Nat
      /\ events' \in Seq(Event)
  BY DEF TypeOK, Post
<1>2. QED
  BY <1>1 DEF EventsAreTrue

\* Handling an event leaves the others as they are; the event was true.
LEMMA HandlingKeepsTruth ==
  ASSUME TypeOK, EventsAreTrue, NEW e, Handling(e), UNCHANGED reached
  PROVE  /\ EventsAreTrue'
         /\ e = "STA_CONNECTED" => "associated" \in reached
         /\ e = "STA_GOT_IP" => "leased" \in reached
         /\ events # <<>>
         /\ events' \in Seq(Event)
<1>1. /\ Len(events) \in Nat /\ Len(events) >= 1
      /\ events[1] = e /\ events # <<>>
      /\ events' \in Seq(Event)
      /\ Len(events') = Len(events) - 1
      /\ \A i \in 1 .. Len(events') : events'[i] = events[i + 1]
  BY DEF TypeOK, Handling
<1>2. QED
  BY <1>1 DEF EventsAreTrue

\* No step of main or the callbacks takes back what has been reached, except
\* a restart, which begins anew.
LEMMA NextPreservesBootInv == BootInv /\ [Next]_vars => BootInv'
<1> SUFFICES ASSUME BootInv, [Next]_vars
             PROVE  BootInv'
  OBVIOUS
<1> USE BoundsAssumption DEF BootInv, bootVars, linkVars
<1>1. CASE InitNvs \/ InitAdapter \/ InitHandlers \/ SetupMode
  <2> USE <1>1 DEF InitNvs, InitAdapter, InitHandlers, SetupMode
  <2>1. TypeOK'
    <3>1. group' \in {"none", "null", "made"} /\ driver' \in BOOLEAN /\ success' \in BOOLEAN /\ leased' \in BOOLEAN
      BY DEF TypeOK
    <3>2. events' \in Seq(Event)
      BY DEF TypeOK
    <3>3. resets' \in 0 .. MaxResets /\ drops' \in 0 .. MaxDrops
      BY DEF TypeOK
    <3>4. /\ config' \in Configs
          /\ main' \in {"nvs", "adapter", "handlers", "mode", "start", "wait",
                        "servers", "polling"}
          /\ radio' \in {"off", "hosting", "idle", "connecting", "associated"}
          /\ reached' \subseteq {"associated", "leased"}
      BY DEF TypeOK
    <3>5. QED
      BY <3>1, <3>2, <3>3, <3>4 DEF TypeOK
  <2>2. DriverNeedsGroup'
    <3>1. CASE InitAdapter
      <4>1. ~success'
        BY <3>1 DEF DriverNeedsGroup, InitAdapter
      <4>2. driver' => group' # "none"
        BY <3>1 DEF DriverNeedsGroup, InitAdapter
      <4>3. QED
        BY <3>1, <4>1, <4>2 DEF DriverNeedsGroup, InitAdapter
    <3>2. CASE ~InitAdapter
      BY <3>2 DEF DriverNeedsGroup
    <3>3. QED
      BY <3>1, <3>2
  <2>3. EventsAreTrue'
    BY DEF EventsAreTrue
  <2>4. SuccessMeansOnline' /\ LeasedAfterAssociated'
    BY DEF SuccessMeansOnline, LeasedAfterAssociated
  <2>5. QED
    BY <2>1, <2>2, <2>3, <2>4
<1>2. CASE StartWifi
  <2>1. TypeOK' /\ EventsAreTrue'
    BY <1>2, PostKeepsTruth DEF StartWifi, TypeOK, Event
  <2>2. DriverNeedsGroup' /\ SuccessMeansOnline' /\ LeasedAfterAssociated'
    BY <1>2 DEF StartWifi, TypeOK, DriverNeedsGroup, SuccessMeansOnline,
     LeasedAfterAssociated
  <2>3. QED
    BY <2>1, <2>2
<1>3. CASE WaitOnline \/ StartServers
  BY <1>3 DEF WaitOnline, StartServers, TypeOK, DriverNeedsGroup, EventsAreTrue,
     SuccessMeansOnline, LeasedAfterAssociated
<1>4. CASE Restart \/ Panic
  <2> USE <1>4 DEF Restart, Panic, Reboot
  <2>1. TypeOK'
    <3>1. group' \in {"none", "null", "made"} /\ driver' \in BOOLEAN /\ success' \in BOOLEAN /\ leased' \in BOOLEAN
      BY DEF TypeOK
    <3>2. events' \in Seq(Event)
      <4>1. events' = <<>>
        OBVIOUS
      <4>2. QED
        BY <4>1
    <3>3. resets' \in 0 .. MaxResets /\ drops' \in 0 .. MaxDrops
      BY DEF TypeOK
    <3>4. /\ config' \in Configs
          /\ main' \in {"nvs", "adapter", "handlers", "mode", "start", "wait",
                        "servers", "polling"}
          /\ radio' \in {"off", "hosting", "idle", "connecting", "associated"}
          /\ reached' \subseteq {"associated", "leased"}
      BY DEF TypeOK
    <3>5. QED
      BY <3>1, <3>2, <3>3, <3>4 DEF TypeOK
  <2>2. DriverNeedsGroup'
    BY DEF DriverNeedsGroup
  <2>3. EventsAreTrue'
    BY DEF EventsAreTrue
  <2>4. SuccessMeansOnline' /\ LeasedAfterAssociated'
    BY DEF SuccessMeansOnline, LeasedAfterAssociated
  <2>5. QED
    BY <2>1, <2>2, <2>3, <2>4
<1>5. CASE EventTask
  <2>1. TypeOK' /\ EventsAreTrue' /\ events # <<>>
    BY <1>5, HandlingKeepsTruth DEF EventTask, Connect, OnConnected, OnGotIp,
       OnOther, SetSuccess, TypeOK
  <2>2. DriverNeedsGroup'
    BY <1>5, <2>1 DEF EventTask, Connect, OnConnected, OnGotIp, OnOther, SetSuccess,
       DriverNeedsGroup, TypeOK
  <2>3. SuccessMeansOnline' /\ LeasedAfterAssociated'
    BY <1>5, HandlingKeepsTruth DEF EventTask, Connect, OnConnected, OnGotIp,
       OnOther, SetSuccess, TypeOK, SuccessMeansOnline, LeasedAfterAssociated
  <2>4. QED
    BY <2>1, <2>2, <2>3
<1>6. CASE Associate \/ Lease \/ Disconnect
  <2>1. EventsAreTrue' /\ events' \in Seq(Event)
    BY <1>6, PostKeepsTruth DEF Associate, Lease, Disconnect, Event
  <2>2. TypeOK'
    <3>1. group' \in {"none", "null", "made"} /\ driver' \in BOOLEAN /\ success' \in BOOLEAN /\ leased' \in BOOLEAN
      BY <1>6 DEF Associate, Lease, Disconnect, TypeOK
    <3>2. resets' \in 0 .. MaxResets /\ drops' \in 0 .. MaxDrops
      BY <1>6 DEF Associate, Lease, Disconnect, TypeOK
    <3>3. /\ config' \in Configs
          /\ main' \in {"nvs", "adapter", "handlers", "mode", "start", "wait",
                        "servers", "polling"}
          /\ radio' \in {"off", "hosting", "idle", "connecting", "associated"}
          /\ reached' \subseteq {"associated", "leased"}
      BY <1>6 DEF Associate, Lease, Disconnect, TypeOK
    <3>4. QED
      BY <2>1, <3>1, <3>2, <3>3 DEF TypeOK
  <2>3. DriverNeedsGroup' /\ SuccessMeansOnline' /\ LeasedAfterAssociated'
    BY <1>6 DEF Associate, Lease, Disconnect, TypeOK, DriverNeedsGroup,
       SuccessMeansOnline, LeasedAfterAssociated
  <2>4. QED
    BY <2>1, <2>2, <2>3
<1>7. CASE UNCHANGED vars
  BY <1>7 DEF vars, TypeOK, DriverNeedsGroup, EventsAreTrue, SuccessMeansOnline,
     LeasedAfterAssociated
<1>8. QED
  BY <1>1, <1>2, <1>3, <1>4, <1>5, <1>6, <1>7 DEF Next, Main

-----------------------------------------------------------------------------
LEMMA BootInvariant == Spec => []BootInv
  BY InitEstablishesBootInv, NextPreservesBootInv, PTL DEF Spec

\* The variables keep their types, however setup fails.
THEOREM BootTypes == Spec => []TypeOK
<1>1. BootInv => TypeOK
  BY DEF BootInv
<1>2. QED
  BY <1>1, BootInvariant, PTL

\* Whatever fails during setup, main waits, and callbacks run, only with the
\* driver initialised and after the creation of the event group was attempted;
\* and a device that could not create it never serves.
THEOREM GroupIsThere == Spec => []GroupExists
<1>1. BootInv => GroupExists
  BY DEF BootInv, TypeOK, DriverNeedsGroup, SuccessMeansOnline, GroupExists
<1>2. QED
  BY <1>1, BootInvariant, PTL

\* The servers are started only after the station has been associated, and,
\* unless WIFI_ADDR is given, has been leased an address.
THEOREM ServersWaitForNetwork == Spec => []ServersOnlyOnline
<1>1. BootInv => ServersOnlyOnline
  BY DEF BootInv, TypeOK, SuccessMeansOnline, ServersOnlyOnline
<1>2. QED
  BY <1>1, BootInvariant, PTL
-----------------------------------------------------------------------------
(***************************************************************************)
(* What the two modes come to.  The invariant counts the pending events on *)
(* which the callbacks make the station connect, and keeps the radio of an *)
(* access point, and the events it posts, apart from a station's.          *)
(***************************************************************************)
Wakes == {"STA_START", "STA_DISCONNECTED"}

NoWake == \A i \in 1 .. Len(events) : events[i] \notin Wakes

OneWake ==
  \E i \in 1 .. Len(events) :
    /\ events[i] \in Wakes
    /\ \A j \in 1 .. Len(events) : events[j] \in Wakes => j = i

\* A station that neither is associated nor tries to be has one event pending
\* that makes it try, and no other station has one: the callbacks ask for a
\* connection when there is none, and only then.
AlwaysWoken == (radio = "idle" => OneWake) /\ (radio # "idle" => NoWake)

\* An access point never has an event that sets the bit main waits for.
HostsStayAlone ==
  config.mode = "ap" =>
    /\ radio \in {"off", "hosting"}
    /\ \A i \in 1 .. Len(events) : events[i] = "AP_START"
    /\ ~success

ModeInv == BootInv /\ AlwaysWoken /\ HostsStayAlone

LEMMA InitEstablishesModeInv == Init => ModeInv
<1> SUFFICES ASSUME Init
             PROVE  ModeInv
  OBVIOUS
<1>1. events = <<>> /\ Len(events) = 0 /\ radio = "off" /\ success = FALSE
  BY DEF Init
<1>2. AlwaysWoken /\ HostsStayAlone
  BY <1>1 DEF AlwaysWoken, NoWake, HostsStayAlone
<1>3. QED
  BY <1>2, InitEstablishesBootInv DEF ModeInv

\* What a new event at the end, and the first one's going, do to the events.
LEMMA Appended ==
  ASSUME TypeOK, NEW e \in Event, Post(e)
  PROVE  /\ NoWake /\ e \notin Wakes => NoWake'
         /\ NoWake /\ e \in Wakes => OneWake'
         /\ (\A i \in 1 .. Len(events) : events[i] = "AP_START") /\ e = "AP_START"
              => \A i \in 1 .. Len(events') : events'[i] = "AP_START"
<1>1. /\ Len(events) \in Nat /\ Len(events') = Len(events) + 1
      /\ \A i \in 1 .. Len(events) : events'[i] = events[i]
      /\ events'[Len(events) + 1] = e
  BY DEF TypeOK, Post
<1>2. \A i \in 1 .. Len(events') : i \in 1 .. Len(events) \/ i = Len(events) + 1
  BY <1>1
<1>3. Len(events) + 1 \in 1 .. Len(events')
  BY <1>1
<1>4. NoWake /\ e \notin Wakes => NoWake'
  BY <1>1, <1>2 DEF NoWake
<1>5. ASSUME NoWake, e \in Wakes PROVE OneWake'
  <2>1. \A j \in 1 .. Len(events') : events'[j] \in Wakes => j = Len(events) + 1
    BY <1>1, <1>2, <1>5 DEF NoWake
  <2>2. QED
    BY <1>1, <1>3, <1>5, <2>1 DEF OneWake
<1>6. QED
  BY <1>1, <1>2, <1>4, <1>5

LEMMA Handled ==
  ASSUME TypeOK, NEW e, Handling(e)
  PROVE  /\ NoWake => NoWake' /\ e \notin Wakes
         /\ OneWake /\ e \in Wakes => NoWake'
         /\ OneWake /\ e \notin Wakes => OneWake'
         /\ (\A i \in 1 .. Len(events) : events[i] = "AP_START")
              => /\ e = "AP_START"
                 /\ \A i \in 1 .. Len(events') : events'[i] = "AP_START"
<1>1. /\ Len(events) \in Nat /\ Len(events) >= 1
      /\ events[1] = e
      /\ Len(events') = Len(events) - 1
      /\ \A i \in 1 .. Len(events') : events'[i] = events[i + 1]
  BY DEF TypeOK, Handling
<1>2. /\ 1 \in 1 .. Len(events)
      /\ \A i \in 1 .. Len(events') : i + 1 \in 1 .. Len(events) /\ i + 1 # 1 /\ i \in Nat
  BY <1>1
<1>3. NoWake => NoWake' /\ e \notin Wakes
  BY <1>1, <1>2 DEF NoWake
<1>4. OneWake /\ e \in Wakes => NoWake'
  BY <1>1, <1>2 DEF OneWake, NoWake
<1>5. ASSUME OneWake, e \notin Wakes PROVE OneWake'
  <2>1. PICK i \in 1 .. Len(events) :
          /\ events[i] \in Wakes
          /\ \A j \in 1 .. Len(events) : events[j] \in Wakes => j = i
    BY <1>5 DEF OneWake
  <2>2. i - 1 \in 1 .. Len(events') /\ (i - 1) + 1 = i
    BY <1>1, <1>5, <2>1
  <2>3. events'[i - 1] \in Wakes
    BY <1>1, <2>1, <2>2
  <2>4. ASSUME NEW j \in 1 .. Len(events'), events'[j] \in Wakes PROVE j = i - 1
    <3>1. j + 1 = i
      BY <1>1, <1>2, <2>1, <2>4
    <3>2. QED
      BY <1>2, <2>4, <3>1
  <2>5. QED
    BY <2>2, <2>3, <2>4 DEF OneWake
<1>6. QED
  BY <1>1, <1>2, <1>3, <1>4, <1>5

LEMMA NextPreservesModeInv == ModeInv /\ [Next]_vars => ModeInv'
<1> SUFFICES ASSUME ModeInv, [Next]_vars
             PROVE  ModeInv'
  OBVIOUS
<1> USE DEF bootVars, linkVars
<1>1. BootInv /\ TypeOK /\ BootInv' /\ AlwaysWoken /\ HostsStayAlone
  BY NextPreservesBootInv DEF ModeInv, BootInv
<1>2. SUFFICES AlwaysWoken' /\ HostsStayAlone'
  BY <1>1 DEF ModeInv
<1>3. CASE UNCHANGED <<config, radio, events, success>>
  BY <1>1, <1>3 DEF AlwaysWoken, NoWake, OneWake, HostsStayAlone
<1>4. CASE StartWifi
  <2>1. radio = "off" /\ events = <<>>
    BY <1>1, <1>4 DEF StartWifi, BootInv, DriverNeedsGroup
  <2>2. NoWake /\ (\A i \in 1 .. Len(events) : events[i] = "AP_START")
    BY <2>1 DEF NoWake
  <2>3. CASE config.mode = "ap" /\ radio' = "hosting" /\ Post("AP_START")
    <3>1. NoWake' /\ (\A i \in 1 .. Len(events') : events'[i] = "AP_START")
      BY <1>1, <2>2, <2>3, Appended DEF Event, Wakes
    <3>2. QED
      BY <1>1, <1>4, <2>3, <3>1 DEF StartWifi, AlwaysWoken, HostsStayAlone
  <2>4. CASE config.mode = "client" /\ radio' = "idle" /\ Post("STA_START")
    <3>1. OneWake'
      BY <1>1, <2>2, <2>4, Appended DEF Event, Wakes
    <3>2. QED
      BY <1>4, <2>4, <3>1 DEF StartWifi, AlwaysWoken, HostsStayAlone
  <2>5. QED
    BY <1>4, <2>3, <2>4 DEF StartWifi
<1>5. CASE Restart \/ Panic
  <2>1. events' = <<>> /\ Len(events') = 0 /\ radio' = "off" /\ success' = FALSE
    BY <1>5 DEF Restart, Panic, Reboot
  <2>2. QED
    BY <2>1 DEF AlwaysWoken, NoWake, HostsStayAlone
<1>6. CASE Connect
  <2>1. PICK e \in Wakes : Handling(e)
    BY <1>6 DEF Connect, Wakes
  <2>2. radio = "idle" /\ NoWake'
    BY <1>1, <2>1, Handled DEF AlwaysWoken
  <2>3. radio' = "connecting" /\ config' = config
    BY <1>6 DEF Connect
  <2>4. AlwaysWoken'
    BY <2>2, <2>3 DEF AlwaysWoken
  <2>5. HostsStayAlone'
    BY <1>1, <2>2, <2>3 DEF HostsStayAlone
  <2>6. QED
    BY <2>4, <2>5
<1>7. ASSUME NEW e \in {"STA_CONNECTED", "STA_GOT_IP", "AP_START"}, Handling(e),
             UNCHANGED <<config, radio>>, success' = success \/ e # "AP_START"
      PROVE  AlwaysWoken' /\ HostsStayAlone'
  <2>1. e \notin Wakes
    BY <1>7 DEF Wakes
  <2>2. AlwaysWoken'
    BY <1>1, <1>7, <2>1, Handled DEF AlwaysWoken
  <2>3. HostsStayAlone'
    BY <1>1, <1>7, Handled DEF HostsStayAlone
  <2>4. QED
    BY <2>2, <2>3
<1>8. CASE OnConnected
  BY <1>1, <1>7, <1>8 DEF OnConnected, SetSuccess, TypeOK
<1>9. CASE OnGotIp
  BY <1>1, <1>7, <1>9 DEF OnGotIp, SetSuccess, TypeOK
<1>10. CASE OnOther
  BY <1>7, <1>10 DEF OnOther
<1>11. CASE Associate \/ Lease \/ Disconnect
  <2>1. /\ config' = config /\ success' = success
        /\ radio \in {"connecting", "associated"}
    BY <1>11 DEF Associate, Lease, Disconnect
  <2>2. HostsStayAlone'
    BY <1>1, <2>1 DEF HostsStayAlone
  <2>3. NoWake
    BY <1>1, <2>1 DEF AlwaysWoken
  <2>4. AlwaysWoken'
    BY <1>1, <1>11, <2>3, Appended
    DEF Associate, Lease, Disconnect, AlwaysWoken, Event, Wakes
  <2>5. QED
    BY <2>2, <2>4
<1>12. CASE InitNvs \/ InitAdapter \/ InitHandlers \/ SetupMode \/ WaitOnline \/ StartServers
            \/ UNCHANGED vars
  BY <1>3, <1>12 DEF InitNvs, InitAdapter, InitHandlers, SetupMode, WaitOnline, StartServers,
     vars
<1>13. QED
  BY <1>4, <1>5, <1>6, <1>8, <1>9, <1>10, <1>11, <1>12 DEF Next, Main, EventTask

LEMMA ModeInvariant == Spec => []ModeInv
  BY InitEstablishesModeInv, NextPreservesModeInv, PTL DEF Spec

\* A device configured as access point never starts its servers, however often
\* it restarts: nothing it gets to handle sets the bit main waits for.
THEOREM AccessPointNeverServes ==
  Spec => [](config.mode = "ap" => main \notin {"servers", "polling"})
<1>1. ModeInv => (config.mode = "ap" => main \notin {"servers", "polling"})
  BY DEF ModeInv, BootInv, SuccessMeansOnline, HostsStayAlone
<1>2. QED
  BY <1>1, ModeInvariant, PTL

\* No loss of the association goes unnoticed, however the events queue up: a
\* station that is neither associated nor connecting has exactly one event
\* pending on which its callback connects, and a station that is has none.
THEOREM StationIsAlwaysWoken == Spec => []AlwaysWoken
<1>1. ModeInv => AlwaysWoken
  BY DEF ModeInv
<1>2. QED
  BY <1>1, ModeInvariant, PTL
=============================================================================
