---------------------------- MODULE Connectivity ----------------------------
(***************************************************************************)
(* The connectivity_report plugin: the modems of ModemManager, the table of*)
(* their proxies that is ValentTelephony, the report the plugin of "here"  *)
(* sends when the table changes, and what "there" makes of it.             *)
(***************************************************************************)
EXTENDS PluginLink

CONSTANTS
    Modem,
    MaxStrength,         \* the strongest signal
    MaxEvents            \* bounds what happens to the modems

VARIABLES
    modem,               \* the daemon's: signal strength, or Absent
    signals,             \* its signals on the way: kind, modem, strength
    proxies,             \* modems whose proxy is being created
    modems,              \* the table: cached strength, or Absent if it has none
    watch,               \* telephony_watch of "here"
    shares,              \* its setting share-state, which stays
    told,                \* history: a report of this connection was sent
    report,              \* state of the action "state" of "there"
    enabled,             \* whether it is enabled
    offline,             \* its notification "offline" is shown
    events

connectivityVars ==
    <<modem, signals, proxies, modems, watch, shares, told, report, enabled, offline, events>>
vars == <<linkVars, connectivityVars>>

Absent == -1
NoProxy == -2           \* a modem that is not in the table
Strength == 0..MaxStrength

Init ==
    /\ LinkInit
    /\ modem \in [Modem -> {Absent, 1}]
    /\ signals = <<>>
    /\ proxies = {m \in Modem : modem[m] # Absent}   \* on_modem_added() for each
    /\ modems = [m \in Modem |-> NoProxy]
    /\ watch = FALSE /\ shares \in BOOLEAN /\ told = FALSE
    /\ report = [m \in {} |-> 0] /\ enabled = FALSE /\ offline = FALSE
    /\ events = 0
-----------------------------------------------------------------------------
ModemChanges(m) ==
    /\ events < MaxEvents /\ events' = events + 1
    /\ \E s \in (Strength \cup {Absent}) \ {modem[m]} :
         /\ modem' = [modem EXCEPT ![m] = s]
         /\ signals' = Append(signals,
              [kind |-> IF modem[m] = Absent THEN "added" ELSE IF s = Absent THEN "removed" ELSE "changed",
               modem |-> m, strength |-> s])
    /\ UNCHANGED <<linkVars, proxies, modems, watch, shares, told, report, enabled, offline>>

(* valent_telephony_serialize_modem(): a proxy without properties leaves the  *)
(* strength undefined                                                         *)
Serialized(table, m) == IF table[m] = Absent THEN Strength ELSE {table[m]}

SignalStrengths(table) ==
    LET listed == {m \in Modem : table[m] # NoProxy}
    IN  {r \in [listed -> Strength] : \A m \in listed : r[m] \in Serialized(table, m)}

(* "changed": the plugin sends its state if it watches and shares it, also when *)
(* there is no connection                                                     *)
Changed(table) ==
    /\ told' = (told \/ (watch /\ shares /\ CanSend("here")))
    /\ \E r \in SignalStrengths(table) : Queue("here", IF watch /\ shares THEN <<r>> ELSE <<>>)

(* A signal of the daemon is dispatched                                       *)
Signal(kind, m) ==
    /\ signals # <<>> /\ Head(signals).kind = kind /\ Head(signals).modem = m
    /\ signals' = Tail(signals)
    /\ UNCHANGED <<link, available, modem, watch, shares, report, enabled, offline, events>>

OnModemAdded(m) ==
    /\ Signal("added", m)
    /\ proxies' = proxies \cup {m}
    /\ UNCHANGED <<modems, told, wire>>

OnModemRemoved(m) ==
    /\ Signal("removed", m)
    /\ modems' = [modems EXCEPT ![m] = NoProxy]
    /\ IF modems[m] # NoProxy THEN Changed(modems') ELSE UNCHANGED <<told, wire>>
    /\ UNCHANGED proxies

(* A modem has a handler once its proxy was created                           *)
OnPropertiesChanged(m) ==
    /\ Signal("changed", m)
    /\ IF modems[m] = NoProxy
         THEN UNCHANGED <<modems, told, wire>>
         ELSE modems' = [modems EXCEPT ![m] = Head(signals).strength] /\ Changed(modems')
    /\ UNCHANGED proxies

(* g_dbus_proxy_new_for_bus_cb(): the proxy of a modem that went away in the  *)
(* meantime has no properties                                                 *)
ProxyReady(m) ==
    /\ m \in proxies /\ proxies' = proxies \ {m}
    /\ modems' = [modems EXCEPT ![m] = modem[m]]
    /\ Changed(modems')
    /\ UNCHANGED <<link, available, modem, signals, watch, shares, report, enabled, offline,
                   events>>

(* valent_connectivity_report_plugin_handle_connectivity_report(): with the   *)
(* strengths that Valent reports, the average is positive if one of them is    *)
HandleReport(offlineNotification) ==
    LET r == Head(wire["there"])
    IN  /\ Arrived("there") /\ Handled("there", <<>>)
        /\ report' = r /\ enabled' = (DOMAIN r # {})
        /\ offline' = IF \E m \in DOMAIN r : r[m] > 0 THEN FALSE ELSE offline \/ offlineNotification
        /\ UNCHANGED <<link, available, modem, signals, proxies, modems, watch, shares, told,
                       events>>

(* update_state(): nothing is sent when the device connects                  *)
Appear(e) ==
    /\ Appears(e, <<>>)
    /\ watch' = (watch \/ e = "here")
    /\ UNCHANGED <<modem, signals, proxies, modems, shares, told, report, enabled, offline, events>>

Vanish(e) ==
    /\ Vanishes(e)
    /\ watch' = IF e = "here" THEN FALSE ELSE watch
    /\ enabled' = IF e = "there" THEN FALSE ELSE enabled
    /\ UNCHANGED <<modem, signals, proxies, modems, shares, told, report, offline, events>>

Link ==
    /\ \/ Connects /\ told' = FALSE
       \/ (Breaks \/ Unpairs \/ \E e \in End : Loses(e)) /\ UNCHANGED told
    /\ UNCHANGED <<modem, signals, proxies, modems, watch, shares, report, enabled, offline,
                   events>>

Next ==
    \/ \E m \in Modem : \/ ModemChanges(m) \/ ProxyReady(m)
                        \/ OnModemAdded(m) \/ OnModemRemoved(m) \/ OnPropertiesChanged(m)
    \/ HandleReport(TRUE)
    \/ \E e \in End : Appear(e) \/ Vanish(e)
    \/ Link

Spec == Init /\ [][Next]_vars
-----------------------------------------------------------------------------
Ghosts == {m \in Modem : modems[m] = Absent}

(* The other end shows the strengths of the modems that are there once a       *)
(* report was sent in this connection and everything has arrived, unless a     *)
(* modem was removed while its proxy was created, which leaves it in the table. *)
Mirrors ==
    Settled /\ signals = <<>> /\ proxies = {} /\ Ghosts = {} /\ told
      => /\ report = [m \in {n \in Modem : modem[n] # Absent} |-> modem[m]]
         /\ enabled = (DOMAIN report # {})
         /\ offline = (\A m \in DOMAIN report : report[m] = 0)
=============================================================================
