------------------------------ MODULE Battery ------------------------------
(***************************************************************************)
(* The battery plugin: UPower's display device, the cache of it that is    *)
(* ValentBattery, what the plugin sends of it, and the mirror the other end*)
(* keeps.  "here" has the battery, "there" shows it.  Levels of charge     *)
(* stand for percentages; the estimates of time are left out.              *)
(***************************************************************************)
EXTENDS PluginLink

CONSTANTS
    MaxCharge,           \* the level that counts as fully charged
    LowCharge,           \* the level of the low notification
    MaxEvents            \* bounds what happens to the battery

VARIABLES
    upower,              \* is_present, charge and charging, of the daemon
    signals,             \* PropertiesChanged on the way to the proxy
    proxy,               \* the proxy: "pending", or "ready"
    battery,             \* ValentBattery: is_present, current_charge, is_charging
    watch,               \* battery_watch of "here"
    mirror,              \* remote battery of "there"
    gaction,             \* its action "state": enabled, state
    shown,               \* its notification "battery-level": "none", "full", "low"
    settings,            \* full-notification, low-notification and share-state
    events,              \* what happened to the battery so far
    lost                 \* history: the last state "here" sent did not get through

batteryVars == <<upower, signals, proxy, battery, watch, mirror, gaction, shown, settings, events,
                 lost>>
vars == <<linkVars, batteryVars>>

NoBattery == [present |-> FALSE, charge |-> 0, charging |-> FALSE]
Reading == {b \in [present : BOOLEAN, charge : 0..MaxCharge, charging : BOOLEAN] :
              b.present \/ b = NoBattery}

Init ==
    /\ LinkInit
    /\ upower \in {NoBattery, [present |-> TRUE, charge |-> LowCharge, charging |-> FALSE]}
    /\ signals = <<>> /\ proxy = "pending" /\ battery = NoBattery
    /\ watch = FALSE /\ mirror = NoBattery
    /\ gaction = [enabled |-> FALSE, state |-> NoBattery]
    /\ shown = "none"
    /\ settings \in [full : BOOLEAN, low : BOOLEAN, share : BOOLEAN]
    /\ events = 0 /\ lost = FALSE
-----------------------------------------------------------------------------
(* valent_battery_plugin_send_state(): the packets it queues                 *)
SendState(b) ==
    IF b.present /\ b.charge > 0 /\ settings.share
      THEN <<[charge |-> b.charge, charging |-> b.charging]>>
      ELSE <<>>

(* "changed" is emitted: whoever watches the battery sends its state, also when *)
(* there is no connection                                                     *)
Changed(b) ==
    LET packets == IF watch THEN SendState(b) ELSE <<>>
    IN  /\ Queue("here", packets)
        /\ lost' = IF packets = <<>> THEN lost ELSE ~CanSend("here")

UPowerChanges ==
    /\ events < MaxEvents /\ Room("here")
    /\ \E b \in Reading \ {upower} :
         /\ upower' = b
         /\ signals' = IF proxy = "ready"
                         THEN Append(signals, [was |-> upower, is |-> b])
                         ELSE signals
    /\ events' = events + 1
    /\ UNCHANGED <<linkVars, proxy, battery, watch, mirror, gaction, shown, settings, lost>>

(* g_dbus_proxy_new_for_bus_cb(): the proxy has the properties of now         *)
ProxyReady ==
    /\ proxy = "pending" /\ proxy' = "ready"
    /\ battery' = IF upower.present THEN upower ELSE battery
    /\ Changed(battery')
    /\ UNCHANGED <<link, available, upower, signals, watch, mirror, gaction, shown, settings,
                   events>>

(* on_properties_changed(): only what differs is in the signal; insertion     *)
(* loads the properties that the proxy has cached, removal resets them        *)
PropertiesChanged ==
    LET s == Head(signals)
        inserted == ~battery.present /\ s.is.present /\ ~s.was.present
        removed == battery.present /\ ~s.is.present
        updated == [present |-> battery.present,
                    charge |-> IF s.is.charge # s.was.charge THEN s.is.charge ELSE battery.charge,
                    charging |-> IF s.is.charging # s.was.charging
                                   THEN s.is.charging ELSE battery.charging]
    IN  /\ signals # <<>> /\ signals' = Tail(signals)
        /\ battery' = CASE inserted -> s.is
                        [] removed -> NoBattery
                        [] OTHER -> updated
        /\ IF battery' # battery THEN Changed(battery') ELSE UNCHANGED <<wire, lost>>
        /\ UNCHANGED <<link, available, upower, proxy, watch, mirror, gaction, shown, settings,
                       events>>
-----------------------------------------------------------------------------
UpdateGaction(m) == gaction' = [enabled |-> m.present, state |-> m]

UpdateNotification(m) ==
    shown' = CASE m.charge >= MaxCharge -> IF settings.full THEN "full" ELSE shown
               [] m.charge < MaxCharge /\ (m.charge > LowCharge \/ m.charging) -> "none"
               [] m.charge < MaxCharge /\ m.charge <= LowCharge /\ ~m.charging ->
                    IF settings.low THEN "low" ELSE shown

(* valent_battery_plugin_handle_battery()                                    *)
HandleBattery ==
    LET p == Head(wire["there"])
        m == [present |-> p.charge >= 0, charge |-> p.charge, charging |-> p.charging]
    IN  /\ Arrived("there") /\ Handled("there", <<>>)
        /\ IF mirror.charging = p.charging /\ mirror.charge = p.charge
             THEN UNCHANGED <<mirror, gaction, shown>>
             ELSE mirror' = m /\ UpdateGaction(m) /\ UpdateNotification(m)
        /\ UNCHANGED <<link, available, upower, signals, proxy, battery, watch, settings, events,
                       lost>>

(* valent_battery_plugin_update_state(): who watches already sends nothing    *)
Appear(e) ==
    /\ LET packets == IF e = "here" /\ ~watch THEN SendState(battery) ELSE <<>>
       IN  /\ Appears(e, packets)
           /\ lost' = (lost /\ packets = <<>>)
    /\ IF e = "here"
         THEN watch' = TRUE /\ UNCHANGED gaction
         ELSE UpdateGaction(mirror) /\ UNCHANGED watch
    /\ UNCHANGED <<upower, signals, proxy, battery, mirror, shown, settings, events>>

Vanish(e) ==
    /\ Vanishes(e)
    /\ IF e = "here"
         THEN watch' = FALSE /\ UNCHANGED gaction
         ELSE gaction' = [gaction EXCEPT !.enabled = FALSE] /\ UNCHANGED watch
    /\ UNCHANGED <<upower, signals, proxy, battery, mirror, shown, settings, events, lost>>

Link ==
    /\ Connects \/ Breaks \/ Unpairs \/ \E e \in End : Loses(e)
    /\ lost' = (lost \/ wire'["there"] # wire["there"])
    /\ UNCHANGED <<upower, signals, proxy, battery, watch, mirror, gaction, shown, settings,
                   events>>

Next ==
    \/ UPowerChanges \/ ProxyReady \/ PropertiesChanged \/ HandleBattery
    \/ \E e \in End : Appear(e) \/ Vanish(e)
    \/ Link

Progress == ProxyReady \/ PropertiesChanged \/ HandleBattery \/ \E e \in End : Appear(e) \/ Vanish(e)

Spec == Init /\ [][Next]_vars
-----------------------------------------------------------------------------
TypeOK ==
    /\ upower \in Reading /\ battery \in Reading /\ mirror \in Reading
    /\ proxy \in {"pending", "ready"} /\ watch \in BOOLEAN
    /\ gaction.enabled \in BOOLEAN /\ gaction.state \in Reading
    /\ shown \in {"none", "full", "low"} /\ events \in 0..MaxEvents

(* Once every signal and packet has arrived, a battery that is shared and has  *)
(* charge is shown by the other end as the daemon sees it, and its action can  *)
(* be read, over unpairings and new connections; unless the last state was     *)
(* sent while the devices were apart and paired: a new connection does not     *)
(* send it again (valent_battery_plugin_watch_battery() returns early).        *)
Mirrors ==
    Settled /\ proxy = "ready" /\ signals = <<>> /\ upower.present /\ upower.charge > 0
    /\ settings.share /\ ~lost
      => mirror = upower /\ gaction = [enabled |-> TRUE, state |-> upower]

(* The low notification is there exactly while the mirrored battery is low and *)
(* not charging; a full battery replaces it only if it is to be announced.     *)
WarnsWhenLow ==
    settings.low /\ mirror.present /\ (settings.full \/ mirror.charge < MaxCharge)
      => ((shown = "low") <=> (mirror.charge <= LowCharge /\ ~mirror.charging))
=============================================================================
