-------------------------------- MODULE Wifi --------------------------------
(***************************************************************************)
(* Booting: app_main() sets up the wireless network (components/wifi),     *)
(* waits to be online and starts the servers.  Three parties are at work:  *)
(*   main          setup_wifi() step by step, then the servers             *)
(*   event task    the callbacks, one event at a time                      *)
(*   driver        associates, is refused or dropped, leases an address,   *)
(*                 and posts the events                                    *)
(* main waits for a bit of an event group that only the callbacks set.     *)
(* A call under ESP_ERROR_CHECK that fails restarts the device, and so does*)
(* the panic on the use of a NULL event group.                             *)
(*                                                                         *)
(* WIFI_ADDR, when given, changes which event main waits for, and nothing  *)
(* else: no code applies it as an address.                                 *)
(***************************************************************************)
EXTENDS Naturals, Sequences

CONSTANTS
  Configs,      \* the settings: WIFI_MODE, and whether WIFI_ADDR is given
  MaxResets,    \* bound: restarts
  MaxDrops      \* bound: refusals and lost associations

ASSUME ConfigsAssumption ==
  Configs \subseteq [mode : {"ap", "client"}, static : BOOLEAN]
ASSUME BoundsAssumption == MaxResets \in Nat /\ MaxDrops \in Nat

VARIABLES
  config,
  main,      \* the call app_main() is about to make
  group,     \* wifi_event_group: "none" yet, "made", or "null", not created
  driver,    \* esp_wifi_init() has succeeded
  success,   \* its bit WIFI_SUCCESS
  radio,     \* "off", "hosting", "idle", "connecting" or "associated"
  leased,    \* the station has an address of the DHCP server
  events,    \* posted and not yet handled
  reached,   \* history: what radio and leased have been since the restart
  resets, drops

bootVars == <<main, group, driver>>
linkVars == <<radio, leased, events, reached>>
vars == <<config, bootVars, success, linkVars, resets, drops>>

Init ==
  /\ config \in Configs
  /\ main = "nvs"
  /\ group = "none" /\ driver = FALSE /\ success = FALSE
  /\ radio = "off" /\ leased = FALSE
  /\ events = <<>> /\ reached = {}
  /\ resets = 0 /\ drops = 0

Event == {"AP_START", "STA_START", "STA_CONNECTED", "STA_DISCONNECTED",
          "STA_GOT_IP"}

Post(e) == events' = Append(events, e)

(***************************************************************************)
(* app_main() and setup_wifi().                                            *)
(***************************************************************************)
\* nvs_flash_init(), with one more try on an erased flash.
InitNvs ==
  /\ main = "nvs"
  /\ main' = "adapter"
  /\ UNCHANGED <<config, group, driver, success, linkVars, resets, drops>>

\* init_adapter() returns early if no interface can be created, without the
\* event group and without esp_wifi_init(); and it does not look at what
\* xEventGroupCreate() returns.
InitAdapter ==
  /\ main = "adapter"
  /\ main' = "handlers"
  /\ \/ UNCHANGED <<group, driver>>
     \/ group' \in {"made", "null"} /\ driver' = TRUE
  /\ group' # "made" => resets < MaxResets
  /\ UNCHANGED <<config, success, linkVars, resets, drops>>

InitHandlers ==
  /\ main = "handlers"
  /\ main' = "mode"
  /\ UNCHANGED <<config, group, driver, success, linkVars, resets, drops>>

\* Mutant: setup goes on after a call for a driver that is not initialised.
SetupMode_Unchecked ==
  /\ main = "mode"
  /\ main' = "start"
  /\ UNCHANGED <<config, group, driver, success, linkVars, resets, drops>>

\* setup_wifi_ap() or setup_wifi_client().
SetupMode ==
  /\ main = "mode"
  /\ driver
  /\ main' = "start"
  /\ UNCHANGED <<config, group, driver, success, linkVars, resets, drops>>

\* Mutant: the driver is started in the mode the settings name, unconverted.
StartWifi_RawMode ==
  /\ main = "start"
  /\ main' = "wait"
  /\ radio' = config.mode
  /\ Post("STA_START")
  /\ UNCHANGED <<config, group, driver, success, leased, reached, resets, drops>>

\* esp_wifi_start(): the driver starts as access point or as station.
StartWifi ==
  /\ main = "start"
  /\ main' = "wait"
  /\ \/ config.mode = "ap" /\ radio' = "hosting" /\ Post("AP_START")
     \/ config.mode = "client" /\ radio' = "idle" /\ Post("STA_START")
  /\ UNCHANGED <<config, group, driver, success, leased, reached, resets, drops>>

\* wait_wifi_online(), without a time limit; the bit stays set.
WaitOnline ==
  /\ main = "wait" /\ group = "made"
  /\ success
  /\ main' = "servers"
  /\ UNCHANGED <<config, group, driver, success, linkVars, resets, drops>>

\* tcpserver::start() and webserver::start(), then the loop of behaviors.
StartServers ==
  /\ main = "servers"
  /\ main' = "polling"
  /\ UNCHANGED <<config, group, driver, success, linkVars, resets, drops>>

\* The device starts over, and nothing but the settings is kept.
Reboot ==
  /\ resets < MaxResets
  /\ resets' = resets + 1
  /\ main' = "nvs"
  /\ group' = "none" /\ driver' = FALSE /\ success' = FALSE
  /\ radio' = "off" /\ leased' = FALSE
  /\ events' = <<>> /\ reached' = {}
  /\ UNCHANGED <<config, drops>>

\* A call under ESP_ERROR_CHECK fails, as those of SetupMode do when the
\* driver has not been initialised.
Restart ==
  /\ main \in {"nvs", "adapter", "handlers", "mode", "start"}
  /\ Reboot

\* The event on which a callback sets WIFI_SUCCESS.
Telling == IF config.static THEN "STA_CONNECTED" ELSE "STA_GOT_IP"

\* main waits on a NULL event group, or a callback sets a bit of it.
Panic ==
  /\ group = "null"
  /\ main = "wait" \/ (events # <<>> /\ Head(events) = Telling)
  /\ Reboot

Main ==
  \/ InitNvs \/ InitAdapter \/ InitHandlers \/ SetupMode \/ StartWifi
  \/ WaitOnline \/ StartServers \/ Restart \/ Panic

(***************************************************************************)
(* wifi_event_callback() and ip_event_callback().                          *)
(***************************************************************************)
Handling(e) ==
  /\ events # <<>> /\ Head(events) = e
  /\ events' = Tail(events)

\* Mutant: a lost association is not built up again.
Connect_OnceOnly ==
  /\ \/ Handling("STA_START") /\ radio' = "connecting"
     \/ Handling("STA_DISCONNECTED") /\ UNCHANGED radio
  /\ UNCHANGED <<config, bootVars, success, leased, reached, resets, drops>>

\* The station connects when it has started and whenever it is disconnected.
Connect ==
  /\ Handling("STA_START") \/ Handling("STA_DISCONNECTED")
  /\ radio' = "connecting"
  /\ UNCHANGED <<config, bootVars, success, leased, reached, resets, drops>>

\* A callback sets WIFI_SUCCESS.
SetSuccess == group = "made" /\ success' = TRUE

\* Mutant: an association counts as being online whatever the settings.
OnConnected_Always ==
  /\ Handling("STA_CONNECTED")
  /\ SetSuccess
  /\ UNCHANGED <<config, bootVars, radio, leased, reached, resets, drops>>

\* With WIFI_ADDR given the association is waited for.
OnConnected ==
  /\ Handling("STA_CONNECTED")
  /\ IF config.static THEN SetSuccess ELSE UNCHANGED success
  /\ UNCHANGED <<config, bootVars, radio, leased, reached, resets, drops>>

\* Mutant: the test is copied from the other callback.
OnGotIp_Inverted ==
  /\ Handling("STA_GOT_IP")
  /\ IF config.static THEN SetSuccess ELSE UNCHANGED success
  /\ UNCHANGED <<config, bootVars, radio, leased, reached, resets, drops>>

\* Without WIFI_ADDR an address of the DHCP server is.
OnGotIp ==
  /\ Handling("STA_GOT_IP")
  /\ IF config.static THEN UNCHANGED success ELSE SetSuccess
  /\ UNCHANGED <<config, bootVars, radio, leased, reached, resets, drops>>

\* Events of an access point have no case.
OnOther ==
  /\ Handling("AP_START")
  /\ UNCHANGED <<config, bootVars, success, radio, leased, reached, resets, drops>>

EventTask == Connect \/ OnConnected \/ OnGotIp \/ OnOther

(***************************************************************************)
(* The driver and the network.                                             *)
(***************************************************************************)
Associate ==
  /\ radio = "connecting"
  /\ radio' = "associated"
  /\ reached' = reached \cup {"associated"}
  /\ Post("STA_CONNECTED")
  /\ UNCHANGED <<config, bootVars, success, leased, resets, drops>>

Lease ==
  /\ radio = "associated" /\ ~leased
  /\ leased' = TRUE
  /\ reached' = reached \cup {"leased"}
  /\ Post("STA_GOT_IP")
  /\ UNCHANGED <<config, bootVars, success, radio, resets, drops>>

\* The attempt to connect is refused, or the association is lost.
Disconnect ==
  /\ radio \in {"connecting", "associated"}
  /\ drops < MaxDrops
  /\ drops' = drops + 1
  /\ radio' = "idle" /\ leased' = FALSE
  /\ Post("STA_DISCONNECTED")
  /\ UNCHANGED <<config, bootVars, success, reached, resets>>

Next == Main \/ EventTask \/ Associate \/ Lease \/ Disconnect

Spec == Init /\ [][Next]_vars

\* main and the event task are scheduled, and the network, which refuses and
\* drops the station no more than MaxDrops times, in the end takes it.
FairSpec ==
  Spec /\ WF_vars(Main) /\ WF_vars(EventTask) /\ WF_vars(Associate) /\ WF_vars(Lease)

-----------------------------------------------------------------------------
(***************************************************************************)
(* Properties.                                                             *)
(***************************************************************************)

\* The variables have their types; restarts and drops keep to their bounds.
TypeOK ==
  /\ config \in Configs
  /\ main \in {"nvs", "adapter", "handlers", "mode", "start", "wait", "servers",
               "polling"}
  /\ group \in {"none", "null", "made"}
  /\ driver \in BOOLEAN /\ success \in BOOLEAN /\ leased \in BOOLEAN
  /\ radio \in {"off", "hosting", "idle", "connecting", "associated"}
  /\ events \in Seq(Event)
  /\ reached \subseteq {"associated", "leased"}
  /\ resets \in 0 .. MaxResets /\ drops \in 0 .. MaxDrops

\* The early return of init_adapter() is noticed before anything depends on
\* what it left out: the driver is started, main waits and callbacks run only
\* after esp_wifi_init() and the attempt to create the event group.  That the
\* attempt failed is not noticed in time, only no device serves without group.
GroupExists ==
  /\ (main \in {"start", "wait"} \/ events # <<>>) => driver /\ group # "none"
  /\ main \in {"servers", "polling"} => group = "made"

\* The servers are started only when the station has been associated since the
\* last restart and, unless WIFI_ADDR is given, the DHCP server has given it an
\* address.  With WIFI_ADDR the association is all that is waited for.
ServersOnlyOnline ==
  main \in {"servers", "polling"} =>
    /\ "associated" \in reached
    /\ config.static \/ "leased" \in reached

\* A station boots: the servers are started in the end, however early its
\* events arrive and however often setup has to begin again.
StationBoots == (config.mode = "client") ~> (main = "polling")

\* The device boots in whichever mode the configuration offers.
DeviceBoots == <>(main = "polling")

\* A running device whose association is lost, or refused, gets it back.
Reconnects ==
  (main = "polling" /\ radio # "associated") ~> (radio = "associated")
=============================================================================
