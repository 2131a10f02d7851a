---------------------------- MODULE BluezService ----------------------------
(***************************************************************************)
(* The Bluetooth channel service, with its profile and its devices, beside *)
(* the daemon of the system.  The daemon comes and goes with its name, may *)
(* release the profile first, and may be restarted before what it was sent *)
(* fails.  Its signals and answers are one queue, what it is called with   *)
(* another; a connection is a muxer once the handshake is over.            *)
(***************************************************************************)
EXTENDS Integers, Sequences, FiniteSets

CONSTANTS
    Dev,                 \* object paths
    MaxConns,            \* bounds the connections,
    MaxEvents,           \* what the daemon and the user do
    None                 \* no device or muxer

VARIABLES
    up,                  \* the daemon owns its name
    profiles,            \* it has the profile of the service
    objects,             \* its devices: whether one is paired and has the profile
    signals, calls,      \* from the daemon, and to it
    alive,               \* the service is there
    nameOwner,           \* g_dbus_proxy_get_name_owner() is not NULL
    registered, inRegistration,
    devices,             \* of each path: paired and with the profile, or None
    handshakes,          \* of each connection: what became of protocol, write and read
    muxers,              \* of each path: the connection of its muxer, or None
    open,                \* connections whose receive thread runs
    state,               \* of the plugin
    conns,               \* of each connection: its path
    events

daemonVars == <<up, profiles, objects>>
profileVars == <<registered, inRegistration>>
linkVars == <<handshakes, muxers, open, conns>>
vars == <<daemonVars, signals, calls, alive, nameOwner, profileVars, devices, linkVars, state,
          events>>

Message(name, x) == [name |-> name, arg |-> x]
Unshaken == [protocol |-> None, write |-> None, read |-> None]
NoDevices == [d \in Dev |-> None]

Init ==
    /\ up \in BOOLEAN /\ profiles = FALSE /\ objects \in [Dev -> {TRUE, None}]
    /\ signals = <<Message("owner", up)>> /\ calls = <<>>
    /\ alive = TRUE /\ nameOwner = FALSE /\ registered = FALSE /\ inRegistration = FALSE
    /\ devices = NoDevices /\ handshakes = <<>> /\ muxers = NoDevices /\ open = {}
    /\ conns = <<>> /\ state = "inactive" /\ events = 0

Settled == signals = <<>> /\ calls = <<>>
Acts == events < MaxEvents /\ events' = events + 1
Sent(m) == IF alive THEN Append(signals, m) ELSE signals
-----------------------------------------------------------------------------
(* The daemon: it stops, with or without releasing the profile, and what is on   *)
(* its way to it fails, after its name is gone; started again, it gets what was  *)
(* sent to the name in the meantime                                            *)
Stops ==
    /\ up /\ Acts /\ up' = FALSE /\ profiles' = FALSE /\ calls' = <<>>
    /\ \E release \in {profiles, FALSE} :
         LET released == IF release THEN <<Message("release", None)>> ELSE <<>> IN
         signals' = signals \o (IF alive THEN Append(released, Message("owner", FALSE)) ELSE <<>>)
                            \o [i \in DOMAIN calls |-> Message("failed", calls[i].name)]
    /\ UNCHANGED <<objects, alive, nameOwner, profileVars, devices, linkVars, state>>

Starts ==
    /\ ~up /\ up' = TRUE /\ signals' = Sent(Message("owner", TRUE))
    /\ UNCHANGED <<profiles, objects, calls, alive, nameOwner, profileVars, devices, linkVars,
                   state, events>>

(* A device is found, forgotten, or paired                                     *)
ObjectChanges(d) ==
    /\ up /\ Acts
    /\ \E x \in {TRUE, FALSE, None} \ {objects[d]} :
         /\ objects' = [objects EXCEPT ![d] = x]
         /\ signals' = Sent(Message(IF x = None THEN "removed"
                                    ELSE IF objects[d] = None THEN "added" ELSE "changed", <<d, x>>))
    /\ UNCHANGED <<up, profiles, calls, alive, nameOwner, profileVars, devices, linkVars, state>>

(* The remote device connects, or is connected to                              *)
NewConnection(d, queue) ==
    /\ profiles /\ objects[d] = TRUE /\ Len(conns) < MaxConns
    /\ conns' = Append(conns, d)
    /\ signals' = Append(queue, Message("connection", Len(conns')))

RemoteConnects(d) ==
    /\ alive /\ NewConnection(d, signals)
    /\ UNCHANGED <<daemonVars, calls, alive, nameOwner, profileVars, devices, handshakes, muxers,
                   open, state, events>>

Disconnects(d) ==
    /\ profiles /\ Acts /\ \E i \in DOMAIN conns : conns[i] = d
    /\ signals' = Sent(Message("disconnect", d))
    /\ UNCHANGED <<daemonVars, calls, alive, nameOwner, profileVars, devices, linkVars, state>>

HandleCall ==
    /\ up /\ calls # <<>> /\ calls' = Tail(calls)
    /\ LET c == Head(calls) IN
       \/ /\ c.name = "register"
          /\ IF profiles THEN signals' = Append(signals, Message("failed", c.name)) /\ UNCHANGED profiles
                         ELSE signals' = Append(signals, Message("done", c.name)) /\ profiles' = TRUE
          /\ UNCHANGED <<conns, events>>
       \/ /\ c.name = "unregister" /\ profiles' = FALSE
          /\ signals' = Append(signals, Message(IF profiles THEN "done" ELSE "failed", c.name))
          /\ UNCHANGED <<conns, events>>
       \/ /\ c.name = "objects" /\ signals' = Append(signals, Message("objects", objects))
          /\ UNCHANGED <<profiles, conns, events>>
       \/ c.name = "connect" /\ NewConnection(c.arg, signals) /\ UNCHANGED <<profiles, events>>
       \/ c.name = "connect" /\ UNCHANGED <<signals, profiles, conns, events>>    \* an error, which is ignored
    /\ UNCHANGED <<up, objects, alive, nameOwner, profileVars, devices, handshakes, muxers, open,
                   state>>
-----------------------------------------------------------------------------
(* A call to a name that nobody owns fails                                     *)
Call(m, queue) ==
    IF up THEN calls' = Append(calls, m) /\ signals' = queue
          ELSE signals' = Append(queue, Message("failed", m.name)) /\ UNCHANGED calls

(* valent_bluez_profile_register(): one that is registered, or about to be, or   *)
(* about not to be, is taken as done                                           *)
Register(queue) ==
    IF registered \/ inRegistration
      THEN Call(Message("objects", None), queue) /\ UNCHANGED profileVars
      ELSE /\ inRegistration' = TRUE /\ UNCHANGED registered
           /\ Call(Message("register", None), queue)

(* valent_bluez_profile_unregister()                                           *)
Unregister(queue) ==
    IF registered /\ ~inRegistration
      THEN inRegistration' = TRUE /\ UNCHANGED registered /\ Call(Message("unregister", None), queue)
      ELSE signals' = queue /\ UNCHANGED <<profileVars, calls>>

(* on_name_owner_changed(): the muxers in the table are closed, not those that   *)
(* still shake hands                                                           *)
OnNameOwnerChanged(owned) ==
    /\ nameOwner' = owned
    /\ IF owned
         THEN Register(Tail(signals)) /\ UNCHANGED <<devices, muxers, open, state>>
         ELSE /\ open' = open \ {muxers[d] : d \in Dev}
              /\ muxers' = NoDevices /\ devices' = NoDevices /\ state' = "inactive"
              /\ Unregister(Tail(signals))
    /\ UNCHANGED <<handshakes, conns>>

(* Mutant: what was registered is not forgotten when unregistering fails.      *)
UnregisterProfileCallbackKept(done) ==
    /\ registered' = (registered /\ ~done) /\ inRegistration' = FALSE
    /\ UNCHANGED <<devices, state, calls>> /\ signals' = Tail(signals)

(* profile_manager_unregister_profile_cb(), whatever the answer                *)
UnregisterProfileCallback(done) ==
    /\ registered' = FALSE /\ inRegistration' = FALSE
    /\ UNCHANGED <<devices, state, calls>> /\ signals' = Tail(signals)

(* profile_manager_register_profile_cb(), valent_bluez_profile_register_cb(),   *)
(* or activate_cb() of an error                                               *)
RegisterProfileCallback(done) ==
    /\ registered' = (registered \/ done) /\ inRegistration' = FALSE
    /\ IF done THEN Call(Message("objects", None), Tail(signals)) /\ UNCHANGED state
               ELSE state' = "error" /\ signals' = Tail(signals) /\ UNCHANGED calls
    /\ UNCHANGED devices

(* on_interfaces_added(), of each device that is told                          *)
InterfacesAdded(found) == devices' = [d \in Dev |-> IF found[d] # None THEN found[d] ELSE devices[d]]

(* get_managed_objects_cb()                                                  *)
GetManagedObjectsCallback(found) ==
    /\ InterfacesAdded(found)
    /\ state' = "active" /\ signals' = Tail(signals)
    /\ UNCHANGED <<profileVars, calls>>

(* on_interfaces_removed()                                                   *)
InterfacesRemoved(d) == devices' = [devices EXCEPT ![d] = None]

(* on_properties_changed(), of a device that is known                          *)
PropertiesChanged(d, x) == devices' = [devices EXCEPT ![d] = IF @ = None THEN None ELSE x]

(* on_g_signal(): it returns if there is an owner, as there is whenever one signals *)
OnSignal(m) ==
    /\ CASE m.name = "changed" -> PropertiesChanged(m.arg[1], m.arg[2])
         [] nameOwner -> UNCHANGED devices
         [] m.name = "added" -> InterfacesAdded([NoDevices EXCEPT ![m.arg[1]] = m.arg[2]])
         [] OTHER -> InterfacesRemoved(m.arg[1])
    /\ signals' = Tail(signals)
    /\ UNCHANGED <<profileVars, state, calls>>

Answered ==
    LET m == Head(signals) IN
    /\ \/ m.name \in {"done", "failed"} /\ m.arg = "register" /\ RegisterProfileCallback(m.name = "done")
       \/ m.name \in {"done", "failed"} /\ m.arg = "unregister" /\ UnregisterProfileCallback(m.name = "done")
       \/ m.name = "objects" /\ GetManagedObjectsCallback(m.arg)
       \/ m.name = "failed" /\ m.arg = "objects" /\ state' = "error"
          /\ signals' = Tail(signals) /\ UNCHANGED <<profileVars, devices, calls>>
       \/ m.name = "failed" /\ m.arg = "connect"
          /\ signals' = Tail(signals) /\ UNCHANGED <<profileVars, devices, calls, state>>
       \/ m.name \in {"added", "removed", "changed"} /\ OnSignal(m)
       \/ m.name = "release" /\ registered' = FALSE        \* valent_bluez_profile_release()
          /\ signals' = Tail(signals) /\ UNCHANGED <<inRegistration, devices, calls, state>>
    /\ UNCHANGED <<nameOwner, linkVars>>

(* valent_bluez_profile_new_connection(), on_connection_opened()               *)
OnConnectionOpened(c) ==
    /\ handshakes' = Append(handshakes, Unshaken)
    /\ UNCHANGED <<muxers, open, conns>>

(* valent_bluez_profile_request_disconnection(), on_connection_closed(): the    *)
(* muxer in the table is closed                                               *)
OnConnectionClosed(d) ==
    /\ open' = open \ {muxers[d]} /\ muxers' = [muxers EXCEPT ![d] = None]
    /\ UNCHANGED <<handshakes, conns>>

MethodCall ==
    LET m == Head(signals) IN
    /\ \/ m.name = "connection" /\ OnConnectionOpened(m.arg)
       \/ m.name = "disconnect" /\ OnConnectionClosed(m.arg)
    /\ signals' = Tail(signals)
    /\ UNCHANGED <<calls, nameOwner, profileVars, devices, state>>

HandleSignal ==
    /\ alive /\ signals # <<>>
    /\ \/ Head(signals).name = "owner" /\ OnNameOwnerChanged(Head(signals).arg)
       \/ Answered \/ MethodCall
    /\ UNCHANGED <<daemonVars, alive, events>>

(* valent_bluez_muxer_handshake_cb(): a muxer that is replaced is not closed     *)
HandshakeCallback(c) == muxers' = IF alive THEN [muxers EXCEPT ![conns[c]] = c] ELSE muxers

(* handshake_task_complete(): a bad certificate ends it as other errors do, which *)
(* are logged; the thread goes on                                             *)
HandshakeComplete(c) == UNCHANGED muxers \/ HandshakeCallback(c)

Shakes(c, step, result) == handshakes' = [handshakes EXCEPT ![c] = [@ EXCEPT ![step] = result]]

(* handshake_protocol_task(), handshake_protocol_task_cb(): the thread starts    *)
Protocol(c) ==
    /\ handshakes[c].protocol = None
    /\ \E ok \in BOOLEAN : Shakes(c, "protocol", ok) /\ open' = IF ok THEN open \cup {c} ELSE open
    /\ UNCHANGED muxers

(* handshake_write_identity_cb(), or handshake_read_identity_cb()              *)
IdentityCallback(c, step, other) ==
    /\ handshakes[c].protocol = TRUE /\ handshakes[c][step] = None
    /\ \E ok \in BOOLEAN :
         /\ Shakes(c, step, ok)
         /\ IF ok /\ handshakes[c][other] = TRUE THEN HandshakeComplete(c) ELSE UNCHANGED muxers
    /\ UNCHANGED open

WriteIdentityCallback(c) == IdentityCallback(c, "write", "read")
ReadIdentityCallback(c) == IdentityCallback(c, "read", "write")

Handshake(c) ==
    /\ Protocol(c) \/ WriteIdentityCallback(c) \/ ReadIdentityCallback(c)
    /\ UNCHANGED <<daemonVars, signals, calls, alive, nameOwner, profileVars, devices, conns, state,
                   events>>

(* The other end closes, and the receive thread ends                           *)
PeerCloses(c) ==
    /\ c \in open /\ open' = open \ {c}
    /\ UNCHANGED <<daemonVars, signals, calls, alive, nameOwner, profileVars, devices, handshakes,
                   muxers, conns, state, events>>

(* valent_bluez_device_connect()                                             *)
Connect(d) ==
    /\ calls' = IF up THEN Append(calls, Message("connect", d)) ELSE calls

(* valent_bluez_channel_service_identify(), of one device                      *)
Identify(d) ==
    /\ alive /\ nameOwner /\ devices[d] = TRUE /\ Acts
    /\ Connect(d)
    /\ UNCHANGED <<daemonVars, signals, alive, nameOwner, profileVars, devices, linkVars, state>>

(* valent_bluez_channel_service_destroy(): what is under way is cancelled       *)
Destroy ==
    /\ alive /\ Acts /\ alive' = FALSE
    /\ Unregister(<<>>)
    /\ UNCHANGED <<daemonVars, nameOwner, devices, linkVars, state>>

(* The answer to that last call                                               *)
DestroyedCallback ==
    /\ ~alive /\ signals # <<>> /\ signals' = Tail(signals)
    /\ registered' = FALSE /\ inRegistration' = FALSE
    /\ UNCHANGED <<daemonVars, calls, alive, nameOwner, devices, linkVars, state, events>>

Next ==
    \/ Stops \/ Starts \/ HandleCall \/ HandleSignal \/ Destroy \/ DestroyedCallback
    \/ \E d \in Dev : ObjectChanges(d) \/ RemoteConnects(d) \/ Disconnects(d) \/ Identify(d)
    \/ \E c \in DOMAIN handshakes : Handshake(c) \/ PeerCloses(c)

Spec == Init /\ [][Next]_vars
-----------------------------------------------------------------------------
(* However often the daemon is restarted, and whatever was on its way then: once *)
(* all is answered the profile is registered with the daemon if it believes so,  *)
(* and nothing is registered or known while there is none.                     *)
ProfileAgrees ==
    Settled /\ alive =>
        /\ registered = profiles /\ ~inRegistration
        /\ ~up => devices = NoDevices /\ state # "active"
=============================================================================
