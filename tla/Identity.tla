------------------------------ MODULE Identity ------------------------------
(*****************************************************************************)
(* What a device says of itself, and what the other end makes of it.  At one *)
(* end a channel service makes its certificate, and an identity packet of    *)
(* its name and of what its plugins can do; at the other a device takes the  *)
(* packet, loads the plugins that have something to say to that end, routes  *)
(* packets to them and exports their actions.  The two know the same         *)
(* plugins, but need not have the same ones installed, or loaded.            *)
(*****************************************************************************)
EXTENDS Integers, Sequences, SequencesExt

CONSTANTS
    Plugin,              \* the plugins there are
    Incoming, Outgoing,  \* the packet types each declares, None if it has no such field
    Name,                \* names of devices: sequences of characters
    HostName,            \* the one a service takes if the setting is empty
    MaxBytes,            \* the longest name that is kept, in bytes
    Port,                \* the TCP ports a service may listen on, in order
    MaxEvents,           \* bounds restarts, changes of settings and of plugins
    None

VARIABLES
    files,               \* certificate.pem and private.pem
    setting,             \* the name in GSettings
    theirs,              \* the plugins that the engine at the service's end lists
    service,             \* the service: id, name, tcp_port, and whether it has UDP sockets
    identity,            \* its identity packet
    known,               \* the id that other devices have seen
    engine,              \* the plugins loaded at the device's end
    enabled,             \* the setting "enabled" of each plugin
    device,              \* the device: name, incoming and outgoing capabilities
    plugins,             \* its plugins: the extension of each, 0 if disabled
    made,                \* how many extensions each plugin has had
    handlers,            \* the extensions that get packets of each type
    actions,             \* the actions of the device
    exported,            \* the actions of the extensions
    freed,               \* extensions of plugins that were unloaded or not supported any more
    impl,                \* the D-Bus object of the device
    client,              \* what a D-Bus client has of it
    events

serviceVars == <<files, setting, theirs, service, identity, known>>
pluginVars == <<plugins, made, handlers, actions, exported, freed>>
deviceVars == <<engine, enabled, device, pluginVars, impl, client>>
vars == <<serviceVars, deviceVars, events>>
-----------------------------------------------------------------------------
(* Names.  A character is "x" (one byte), "wide" (two), "." (one that is not *)
(* allowed) or " ".                                                          *)

Bytes(name) == FoldLeft(LAMBDA n, c : n + (IF c = "wide" THEN 2 ELSE 1), 0, name)

(* Characters are copied, or dropped, until there are exactly MaxBytes bytes *)
SanitizeName(name, fallback) ==
    LET Copy(kept, c) == IF c = "." \/ Bytes(kept) = MaxBytes THEN kept ELSE Append(kept, c)
        sanitized == FoldLeft(Copy, <<>>, name)
    IN  IF sanitized = <<>> THEN fallback ELSE sanitized

(* The length that is checked is in characters                               *)
ValidateName(name) ==
    /\ name # <<>>
    /\ \A i \in DOMAIN name : name[i] # "."
    /\ \E i \in DOMAIN name : name[i] # " "
    /\ Len(name) <= MaxBytes
-----------------------------------------------------------------------------
(* The service                                                               *)

Types(field, p) == IF field[p] = None THEN {} ELSE field[p]

(* Of every plugin that the engine lists, whether it is loaded or not        *)
Capabilities(listed) ==
    [incoming |-> UNION {Types(Incoming, p) : p \in listed},
     outgoing |-> UNION {Types(Outgoing, p) : p \in listed}]

BuildIdentity(id, name) ==
    [id |-> id, name |-> name, port |-> 0, can |-> Capabilities(theirs)]

(* valent_lan_channel_service_build_identity(): with the listener's port     *)
LanBuildIdentity(id, name, port) == [BuildIdentity(id, name) EXCEPT !.port = port]

Unknown(id) == <<"x", "x", id>>

NoService == [id |-> 0, name |-> <<>>, port |-> 0, heard |-> FALSE]

Up == service.id # 0

(* A name that is empty is replaced in the settings, which change again      *)
Effective(name) == IF name = <<>> THEN HostName ELSE name

(* valent_certificate_generate(): a pair whose common name, which is the id  *)
(* of the service, was never used before                                     *)
NewPair == 1 + (IF files.private > files.cert THEN files.private ELSE files.cert)

(* valent_certificate_new_sync() makes a pair unless both files are there,   *)
(* and writes one after the other; the process may die before either         *)
Generate == files.cert = 0 \/ files.private = 0

CrashGenerating ==
    /\ ~Up /\ events < MaxEvents /\ Generate
    /\ events' = events + 1
    /\ files' = [files EXCEPT !.cert = NewPair]
    /\ UNCHANGED <<setting, theirs, service, identity, known, deviceVars>>

Constructed ==
    /\ ~Up
    /\ files' = IF Generate THEN [cert |-> NewPair, private |-> NewPair] ELSE files
    /\ setting' = Effective(setting)
    /\ service' = [NoService EXCEPT !.id = files'.cert, !.name = Effective(setting)]
    /\ identity' = LanBuildIdentity(files'.cert, Effective(setting), 0)
    /\ UNCHANGED <<theirs, known, events, deviceVars>>

OnDeviceNameChanged(name) ==
    /\ events < MaxEvents /\ name # setting
    /\ events' = events + 1
    /\ setting' = IF Up THEN Effective(name) ELSE name
    /\ IF Up
       THEN /\ service' = [service EXCEPT !.name = Effective(name)]
            /\ identity' = [identity EXCEPT !.name = Effective(name)]
       ELSE UNCHANGED <<service, identity>>
    /\ UNCHANGED <<files, theirs, known, deviceVars>>

(* valent_lan_channel_service_tcp_setup(): the first port that is free       *)
TcpSetup(free) == CHOOSE q \in free : \A r \in free : q <= r

(* valent_lan_channel_service_udp_setup(): a socket for IPv6, if it does for *)
(* both; else one for IPv4 as well; an error if there is neither             *)
UdpSetup(bound, dual) == IF "ip6" \in bound /\ dual THEN {"ip6"} ELSE bound

(* valent_lan_channel_service_init_sync(): with a port the identity is built *)
(* again; if there is no UDP socket then it fails, and the listener stays.   *)
(* Without a port it fails, and nothing is different.                        *)
InitSync(free, bound, dual) ==
    /\ Up /\ service.port = 0
    /\ free # {}
    /\ service' = [service EXCEPT !.port = TcpSetup(free), !.heard = UdpSetup(bound, dual) # {}]
    /\ identity' = LanBuildIdentity(service.id, service.name, TcpSetup(free))
    /\ UNCHANGED <<files, setting, theirs, known, events, deviceVars>>

(* valent_lan_channel_service_destroy(): the sockets and the listener go     *)
Stop ==
    /\ Up /\ events < MaxEvents
    /\ events' = events + 1
    /\ service' = NoService
    /\ identity' = None
    /\ UNCHANGED <<files, setting, theirs, known, deviceVars>>

(* A plugin is installed or removed at the service's end                     *)
TheirPluginChanges(p) ==
    /\ ~Up /\ events < MaxEvents
    /\ events' = events + 1
    /\ theirs' = IF p \in theirs THEN theirs \ {p} ELSE theirs \cup {p}
    /\ UNCHANGED <<files, setting, service, identity, known, deviceVars>>
-----------------------------------------------------------------------------
(* The plugins of the device                                                 *)

Exists == device # None

Loaded == {p \in Plugin : plugins[p] # None}
Running == {p \in Loaded : plugins[p] # 0}
Live == {<<p, plugins[p]>> : p \in Running}

SupportsPlugin(p, loaded, can) ==
    /\ p \in loaded
    /\ \/ Incoming[p] = None /\ Outgoing[p] = None
       \/ /\ can # None
          /\ \/ Types(Outgoing, p) \cap can.incoming # {}
             \/ Types(Incoming, p) \cap can.outgoing # {}

(* valent_plugin_new() for those in load, of which those that are enabled    *)
(* get an extension; valent_plugin_free() for those in unload, which         *)
(* destroys their extensions but leaves them among the handlers              *)
LoadAndUnload(load, unload) ==
    LET enable == {p \in load : enabled[p]}
    IN  /\ plugins' = [p \in Plugin |->
                          IF p \in enable THEN made[p] + 1
                          ELSE IF p \in load THEN 0
                          ELSE IF p \in unload THEN None ELSE plugins[p]]
        /\ made' = [p \in Plugin |-> IF p \in enable THEN made[p] + 1 ELSE made[p]]
        /\ handlers' = [t \in DOMAIN handlers |->
                           handlers[t] \cup {<<p, made[p] + 1>> :
                                                p \in {p \in enable : t \in Types(Incoming, p)}}]
        /\ exported' = [p \in Plugin |->
                           IF p \in enable THEN {"run"}
                           ELSE IF p \in unload THEN {} ELSE exported[p]]
        /\ freed' = freed \cup {<<p, plugins[p]>> : p \in unload \cap Running}
        /\ actions' = (actions \ (unload \X {"run", "more"})) \cup (enable \X {"run"})

EnablePlugin(p) ==
    /\ plugins' = [plugins EXCEPT ![p] = made[p] + 1]
    /\ made' = [made EXCEPT ![p] = @ + 1]
    /\ handlers' = [t \in DOMAIN handlers |->
                       IF t \in Types(Incoming, p) THEN handlers[t] \cup {<<p, made[p] + 1>>}
                       ELSE handlers[t]]
    /\ exported' = [exported EXCEPT ![p] = {"run"}]
    /\ actions' = actions \cup {<<p, "run">>}
    /\ UNCHANGED freed

DisablePlugin(p) ==
    /\ plugins' = [plugins EXCEPT ![p] = 0]
    /\ handlers' = [t \in DOMAIN handlers |-> handlers[t] \ {<<p, plugins[p]>>}]
    /\ exported' = [exported EXCEPT ![p] = {}]
    /\ actions' = actions \ ({p} \X exported[p])
    /\ UNCHANGED <<made, freed>>

OnPluginEnabledChanged(p) ==
    /\ events < MaxEvents
    /\ events' = events + 1
    /\ enabled' = [enabled EXCEPT ![p] = ~@]
    /\ IF p \notin Loaded THEN UNCHANGED pluginVars
       ELSE IF enabled'[p] THEN EnablePlugin(p) ELSE DisablePlugin(p)
    /\ UNCHANGED <<serviceVars, engine, device, impl, client>>

(* The engine loads a plugin, then tells; or tells, then unloads one         *)
OnLoadPlugin(p) ==
    /\ events < MaxEvents /\ p \notin engine
    /\ events' = events + 1
    /\ engine' = engine \cup {p}
    /\ IF Exists /\ SupportsPlugin(p, engine \cup {p}, device.can)
       THEN LoadAndUnload({p}, {}) ELSE UNCHANGED pluginVars
    /\ UNCHANGED <<serviceVars, enabled, device, impl, client>>

OnUnloadPlugin(p) ==
    /\ events < MaxEvents /\ p \in engine
    /\ events' = events + 1
    /\ engine' = engine \ {p}
    /\ LoadAndUnload({}, {p} \cap Loaded)
    /\ UNCHANGED <<serviceVars, enabled, device, impl, client>>

(* on_plugin_action_added(), on_plugin_action_removed()                      *)
OnPluginActionAdded(p, action) == actions' = actions \cup {<<p, action>>}
OnPluginActionRemoved(p, action) == actions' = actions \ {<<p, action>>}

(* An extension adds an action, or removes one; the device hears of it.  (An *)
(* action that replaces another is removed and added.)                       *)
AddAction(p) ==
    /\ p \in Running /\ "more" \notin exported[p]
    /\ exported' = [exported EXCEPT ![p] = @ \cup {"more"}]
    /\ OnPluginActionAdded(p, "more")
    /\ UNCHANGED <<serviceVars, engine, enabled, device, plugins, made, handlers, freed,
                   impl, client, events>>

RemoveAction(p) ==
    /\ p \in Running /\ "more" \in exported[p]
    /\ exported' = [exported EXCEPT ![p] = @ \ {"more"}]
    /\ OnPluginActionRemoved(p, "more")
    /\ UNCHANGED <<serviceVars, engine, enabled, device, plugins, made, handlers, freed,
                   impl, client, events>>
-----------------------------------------------------------------------------
(* The device                                                                *)

NotifyName(name) ==
    IF Exists /\ device.name = name
    THEN UNCHANGED impl
    ELSE IF Exists THEN impl' = [cache |-> name, pending |-> name, flush |-> TRUE]
    ELSE impl' = [cache |-> name, pending |-> None, flush |-> FALSE]

ReloadPlugins(can) ==
    LoadAndUnload({p \in engine \ Loaded : SupportsPlugin(p, engine, can)},
                  {p \in engine \cap Loaded : ~SupportsPlugin(p, engine, can)})

(* A channel is opened; its identity makes the device, or changes it.  A     *)
(* device that has another id is another device.  Both the id and the name   *)
(* are in the packets of a service: it is not ignored for want of one.       *)
HandleIdentity ==
    /\ Up /\ service.heard
    /\ known \in {0, identity.id}
    /\ known' = identity.id
    /\ LET name == SanitizeName(identity.name, Unknown("id"))
       IN  /\ device' = [name |-> name, can |-> identity.can]
           /\ NotifyName(name)
           /\ IF Exists THEN UNCHANGED client ELSE client' = name
    /\ ReloadPlugins(identity.can)
    /\ device' # device \/ known' # known
    /\ UNCHANGED <<files, setting, theirs, service, identity, engine, enabled, events>>

Flush ==
    /\ impl.flush
    /\ client' = impl.pending
    /\ impl' = [impl EXCEPT !.pending = None, !.flush = FALSE]
    /\ UNCHANGED <<serviceVars, engine, enabled, device, pluginVars, events>>

NoImpl == [cache |-> None, pending |-> None, flush |-> FALSE]

Destroy ==
    /\ Exists /\ events < MaxEvents
    /\ events' = events + 1
    /\ device' = None
    /\ impl' = NoImpl /\ client' = None
    /\ plugins' = [p \in Plugin |-> None]
    /\ handlers' = [t \in DOMAIN handlers |-> {}]
    /\ exported' = [p \in Plugin |-> {}]
    /\ actions' = {}
    /\ UNCHANGED <<serviceVars, engine, enabled, made, freed>>
-----------------------------------------------------------------------------

Init ==
    /\ files = [cert |-> 0, private |-> 0]
    /\ setting = <<>>
    /\ theirs = Plugin
    /\ service = NoService /\ identity = None /\ known = 0
    /\ engine \in {Plugin, {}}
    /\ enabled = [p \in Plugin |-> TRUE]
    /\ device = None
    /\ plugins = [p \in Plugin |-> None]
    /\ made = [p \in Plugin |-> 0]
    /\ handlers = [t \in UNION {Types(Incoming, p) : p \in Plugin} |-> {}]
    /\ actions = {}
    /\ exported = [p \in Plugin |-> {}]
    /\ freed = {}
    /\ impl = NoImpl /\ client = None
    /\ events = 0

Next ==
    \/ Constructed \/ CrashGenerating \/ Stop
    \/ \E name \in Name : OnDeviceNameChanged(name)
    \/ \E free \in SUBSET Port, bound \in SUBSET {"ip4", "ip6"}, dual \in BOOLEAN :
          InitSync(free, bound, dual)
    \/ HandleIdentity \/ Flush \/ Destroy
    \/ \E p \in Plugin :
          \/ TheirPluginChanges(p) \/ OnPluginEnabledChanged(p)
          \/ OnLoadPlugin(p) \/ OnUnloadPlugin(p)
          \/ AddAction(p) \/ RemoveAction(p)

Spec == Init /\ [][Next]_vars
-----------------------------------------------------------------------------

(* A service that other devices have seen keeps its id, whenever it crashed  *)
(* while it made its certificate; and its packet has the name and the port   *)
(* that it has (valent-certificate.c:258-319, valent-channel-service.c:300). *)
IdentityIsKept ==
    Up => /\ identity.id = service.id /\ service.id = files.cert
          /\ identity.name = service.name /\ service.name = setting /\ setting # <<>>
          /\ identity.port = service.port
          /\ (known # 0 => service.id = known)

(* The plugins of a device are those that have something to say to its other *)
(* end, as far as that end has told; and those that run, no more, are routed *)
(* the packets they declare and have their actions in the device.            *)
PluginsAreSupported ==
    Exists =>
        /\ Loaded = {p \in engine : SupportsPlugin(p, engine, device.can)}
        /\ Running = {p \in Loaded : enabled[p]}
        /\ \A t \in DOMAIN handlers :
              handlers[t] \cap Live = {<<p, plugins[p]>> : p \in {p \in Running : t \in Types(Incoming, p)}}
        /\ actions = UNION {{p} \X exported[p] : p \in Running}

(* Disabling a plugin leaves nothing of it among the handlers: only an       *)
(* extension whose plugin was unloaded, or is no longer supported, may be.   *)
DisabledIsUnheard == \A t \in DOMAIN handlers : handlers[t] \subseteq Live \cup freed

(* Two ends that have the same plugins, and have told each other so, can use *)
(* every plugin whose packets the other one of them understands.             *)
EndsMeet ==
    Exists /\ Up /\ device.can = Capabilities(theirs) =>
        \A p \in engine, q \in theirs :
            Types(Outgoing, p) \cap Types(Incoming, q) # {} => p \in Loaded

(* The name a device is shown with has no characters that are not allowed,   *)
(* and is short unless it has wide ones; a valid one is not changed, and a   *)
(* D-Bus client is told of it.                                               *)
NameIsShown ==
    /\ Up /\ ValidateName(identity.name) /\ Bytes(identity.name) <= MaxBytes
          => SanitizeName(identity.name, <<>>) = identity.name
    /\ Exists =>
        /\ device.name # <<>> /\ \A i \in DOMAIN device.name : device.name[i] # "."
        /\ (\A i \in DOMAIN device.name : device.name[i] # "wide") => Bytes(device.name) <= MaxBytes
        /\ impl.cache = device.name
        /\ (~impl.flush => client = device.name)

(* Every extension that is routed packets is there ("Unregister packet       *)
(* handlers", valent-device.c:360): it is not, once its plugin was unloaded  *)
(* while it was enabled.                                                     *)
HandlersAreLive == \A t \in DOMAIN handlers : handlers[t] \subseteq Live
=============================================================================
