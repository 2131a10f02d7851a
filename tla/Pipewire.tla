------------------------------ MODULE Pipewire ------------------------------
(***************************************************************************)
(* The PipeWire mixer: the daemon sends events to a loop in a thread of its*)
(* own, the loop keeps devices and nodes and hands snapshots to the main   *)
(* thread, and the main thread keeps the streams and asks the loop to      *)
(* change them.                                                            *)
(***************************************************************************)
EXTENDS Integers, Sequences, FiniteSets, SequencesExt

CONSTANTS
    Name,                \* node.name of the sinks
    NoName, MaxLevel, MaxEvents

VARIABLES
    daemon,              \* the device, its nodes by id and the default, as they are
    inbox,               \* events for the loop
    asked,               \* nodes whose parameters the loop asked for
    nodes,               \* nodes, devices: what the loop knows
    device,
    invoked,             \* g_main_context_invoke_full(): what the main thread will run
    sets,                \* pw_loop_invoke(): what the loop will run for the main thread
    streams,             \* streams of the main thread, by name
    default,             \* default_output
    busy,                \* the loop dispatches, with its lock
    closing,             \* no; locked: destroy runs, with the lock of the object; closed
    events

loopVars == <<inbox, asked, nodes, device, busy>>
mainVars == <<streams, default>>
vars == <<daemon, loopVars, invoked, sets, mainVars, closing, events>>

Level == 0..MaxLevel

Init ==
    /\ daemon = [device |-> FALSE, nodes |-> {}, default |-> NoName]
    /\ inbox = <<>> /\ asked = {} /\ nodes = {} /\ device = FALSE
    /\ invoked = <<>> /\ sets = <<>> /\ streams = {} /\ default = [name |-> NoName, chosen |-> FALSE]
    /\ busy = FALSE /\ closing = "no" /\ events = 0
-----------------------------------------------------------------------------
(* The daemon: devices come before their nodes and go after them.  It tells    *)
(* that parameters changed, and their values when it is asked                *)
Tells(event) == inbox' = Append(inbox, event)

DaemonChanges ==
    /\ events < MaxEvents /\ events' = events + 1 /\ closing = "no"
    /\ \/ /\ ~daemon.device /\ daemon' = [daemon EXCEPT !.device = TRUE]
          /\ Tells([kind |-> "device"])
       \/ /\ daemon.device /\ daemon.nodes = {}
          /\ daemon' = [daemon EXCEPT !.device = FALSE] /\ Tells([kind |-> "device gone"])
       \/ \E name \in Name, level \in Level \ {0} :
            /\ daemon.device /\ \A n \in daemon.nodes : n.name # name
            /\ daemon' = [daemon EXCEPT !.nodes = @ \union
                            {[id |-> events, name |-> name, level |-> level]}]
            /\ inbox' = inbox \o <<[kind |-> "node", id |-> events, name |-> name],
                                   [kind |-> "info", id |-> events]>>
       \/ \E n \in daemon.nodes, level \in Level :
            /\ level # n.level
            /\ daemon' = [daemon EXCEPT !.nodes = (@ \ {n}) \union {[n EXCEPT !.level = level]}]
            /\ Tells([kind |-> "info", id |-> n.id])
       \/ \E n \in daemon.nodes :
            /\ daemon' = [daemon EXCEPT !.nodes = @ \ {n}] /\ Tells([kind |-> "node gone", id |-> n.id])
       \/ \E n \in daemon.nodes :
            /\ daemon.default # n.name /\ daemon' = [daemon EXCEPT !.default = n.name]
            /\ Tells([kind |-> "metadata", name |-> n.name])
       \/ daemon.device /\ UNCHANGED daemon /\ Tells([kind |-> "route"])
    /\ UNCHANGED <<asked, nodes, device, busy, invoked, sets, mainVars, closing>>

DaemonAnswers(id) ==
    /\ id \in asked /\ asked' = asked \ {id}
    /\ IF \E n \in daemon.nodes : n.id = id
         THEN Tells([kind |-> "param", id |-> id,
                     level |-> (CHOOSE n \in daemon.nodes : n.id = id).level])
         ELSE UNCHANGED inbox
    /\ UNCHANGED <<daemon, nodes, device, busy, invoked, sets, mainVars, closing, events>>
-----------------------------------------------------------------------------
(* The loop takes its lock to dispatch.  Each handler asks whether the object  *)
(* is in destruction, which takes the lock of the object                     *)
LoopEnters ==
    /\ ~busy /\ inbox \o sets # <<>> /\ closing # "closed" /\ busy' = TRUE
    /\ UNCHANGED <<daemon, inbox, asked, nodes, device, invoked, sets, mainVars, closing, events>>

Dispatches(event) ==
    /\ busy /\ busy' = FALSE /\ closing # "locked"
    /\ inbox # <<>> /\ event = Head(inbox) /\ inbox' = Tail(inbox)

(* stream_state_new(), stream_state_main(): not without the device            *)
StreamStateMain(n) ==
    invoked' = IF device THEN Append(invoked, [kind |-> "stream", states |-> {n}]) ELSE invoked

(* registry_event_global(): a node is known only if its device is             *)
RegistryEventGlobal(event) ==
    /\ Dispatches(event) /\ event.kind \in {"device", "node"}
    /\ IF event.kind = "device" THEN device' = TRUE /\ UNCHANGED nodes
       ELSE /\ UNCHANGED device
            /\ nodes' = IF device THEN nodes \union {[id |-> event.id, name |-> event.name, level |-> 0]}
                        ELSE nodes
    /\ UNCHANGED <<daemon, asked, invoked, sets, mainVars, closing, events>>

OnNodeInfo(event) ==
    /\ Dispatches(event) /\ event.kind = "info"
    /\ asked' = IF \E n \in nodes : n.id = event.id THEN asked \union {event.id} ELSE asked
    /\ UNCHANGED <<daemon, nodes, device, invoked, sets, mainVars, closing, events>>

OnNodeParam(event) ==
    /\ Dispatches(event) /\ event.kind = "param"
    /\ LET known == {n \in nodes : n.id = event.id /\ n.level # event.level} IN
       \/ known = {} /\ UNCHANGED <<nodes, invoked>>
       \/ \E n \in known : LET new == [n EXCEPT !.level = event.level] IN
            nodes' = (nodes \ {n}) \union {new} /\ StreamStateMain(new)
    /\ UNCHANGED <<daemon, asked, device, sets, mainVars, closing, events>>

(* on_node_proxy_removed(), on_node_proxy_destroyed(): a snapshot of the rest   *)
OnNodeProxyDestroyed(event) ==
    /\ Dispatches(event) /\ event.kind = "node gone"
    /\ IF \E n \in nodes : n.id = event.id
         THEN /\ nodes' = {n \in nodes : n.id # event.id}
              /\ invoked' = Append(invoked, [kind |-> "streams", states |-> nodes'])
         ELSE UNCHANGED <<nodes, invoked>>
    /\ UNCHANGED <<daemon, asked, device, sets, mainVars, closing, events>>

OnDeviceProxyDestroyed(event) ==
    /\ Dispatches(event) /\ event.kind = "device gone" /\ device' = FALSE
    /\ UNCHANGED <<daemon, asked, nodes, invoked, sets, mainVars, closing, events>>

(* on_device_param(): a route with another description, of one of its nodes    *)
OnDeviceParam(event) ==
    /\ Dispatches(event) /\ event.kind = "route"
    /\ IF nodes = {} \/ ~device THEN UNCHANGED invoked ELSE \E n \in nodes : StreamStateMain(n)
    /\ UNCHANGED <<daemon, asked, nodes, device, sets, mainVars, closing, events>>

OnMetadataProperty(event) ==
    /\ Dispatches(event) /\ event.kind = "metadata"
    /\ invoked' = Append(invoked, [kind |-> "default", name |-> event.name])
    /\ UNCHANGED <<daemon, asked, nodes, device, sets, mainVars, closing, events>>

(* stream_state_update(): pw_device_set_param() of a node that is still known   *)
StreamStateUpdate ==
    /\ busy /\ busy' = FALSE /\ closing # "locked" /\ sets # <<>> /\ sets' = Tail(sets)
    /\ LET set == Head(sets)
           there == {n \in daemon.nodes : n.id = set.id /\ n.level # set.level} IN
       IF there # {} /\ device /\ \E n \in nodes : n.id = set.id
         THEN /\ daemon' = [daemon EXCEPT !.nodes = (@ \ there) \union
                               {[n EXCEPT !.level = set.level] : n \in there}]
              /\ Tells([kind |-> "info", id |-> set.id])
         ELSE UNCHANGED <<daemon, inbox>>
    /\ UNCHANGED <<asked, nodes, device, invoked, mainVars, closing, events>>
-----------------------------------------------------------------------------
(* The main thread.  stream_state_flush(): a stream keeps its node's id, and    *)
(* the first one becomes the default until the default is known              *)
Flushed(old, states) ==
    {[s EXCEPT !.level = (CHOOSE n \in states : n.name = s.name).level] :
        s \in {s \in old : \E n \in states : n.name = s.name}}
    \union {s \in old : \A n \in states : n.name # s.name}
    \union {[name |-> n.name, id |-> n.id, level |-> n.level, set |-> FALSE] :
              n \in {n \in states : \A s \in old : s.name # n.name}}
DefaultAfter(old, new) ==
    IF default.name # NoName \/ new = old THEN default' = default
    ELSE \E s \in new \ old : default' = [default EXCEPT !.name = s.name]

StreamStateFlush ==
    /\ closing = "no" /\ invoked # <<>> /\ Head(invoked).kind = "stream" /\ invoked' = Tail(invoked)
    /\ streams' = Flushed(streams, Head(invoked).states)
    /\ DefaultAfter({s \in streams' : \E t \in streams : t.name = s.name}, streams')
    /\ UNCHANGED <<daemon, loopVars, sets, closing, events>>

(* mixer_streams_flush(): removes what the snapshot lacks, and adds or keeps    *)
(* the rest; a stream it has keeps its level                                 *)
MixerStreamsFlush ==
    /\ closing = "no" /\ invoked # <<>> /\ Head(invoked).kind = "streams" /\ invoked' = Tail(invoked)
    /\ LET states == Head(invoked).states
           kept == {s \in streams : \E n \in states : n.name = s.name} IN
       /\ streams' = kept \union {[name |-> n.name, id |-> n.id, level |-> n.level, set |-> FALSE] :
                                    n \in {n \in states : \A s \in kept : s.name # n.name}}
       /\ DefaultAfter(kept, streams')
    /\ UNCHANGED <<daemon, loopVars, sets, closing, events>>

MixerStateFlush ==
    /\ closing = "no" /\ invoked # <<>> /\ Head(invoked).kind = "default" /\ invoked' = Tail(invoked)
    /\ default' = [name |-> Head(invoked).name, chosen |-> FALSE]
    /\ UNCHANGED <<daemon, loopVars, sets, streams, closing, events>>

(* valent_pipewire_stream_set_level(), valent_pipewire_mixer_set_stream_state()  *)
SetLevel(s, level) ==
    /\ events < MaxEvents /\ events' = events + 1 /\ closing = "no" /\ ~busy
    /\ s \in streams /\ s.level # level
    /\ streams' = (streams \ {s}) \union {[s EXCEPT !.level = level, !.set = TRUE]}
    /\ sets' = Append(sets, [id |-> s.id, level |-> level])
    /\ UNCHANGED <<daemon, loopVars, invoked, default, closing>>

(* valent_pipewire_mixer_set_default_output(): of a node that the loop knows     *)
SetDefaultOutput(s) ==
    /\ events < MaxEvents /\ events' = events + 1 /\ closing = "no" /\ ~busy
    /\ s \in streams /\ default.name # s.name
    /\ default' = IF \E n \in nodes : n.name = s.name THEN [name |-> s.name, chosen |-> TRUE] ELSE default
    /\ UNCHANGED <<daemon, loopVars, invoked, sets, streams, closing>>

(* valent_object_destroy(), valent_pipewire_mixer_close()                    *)
Destroy ==
    /\ closing = "no" /\ closing' = "locked"
    /\ UNCHANGED <<daemon, loopVars, invoked, sets, mainVars, events>>
Close ==
    /\ closing = "locked" /\ ~busy /\ closing' = "closed"
    /\ inbox' = <<>> /\ asked' = {} /\ nodes' = {} /\ device' = FALSE /\ sets' = <<>>
    /\ streams' = {}
    /\ UNCHANGED <<daemon, busy, invoked, default, events>>

(* After it, what was invoked finds the mixer closed                          *)
FlushClosed ==
    /\ closing = "closed" /\ invoked # <<>> /\ invoked' = Tail(invoked)
    /\ UNCHANGED <<daemon, loopVars, sets, mainVars, closing, events>>

Next ==
    \/ DaemonChanges \/ \E id \in asked : DaemonAnswers(id)
    \/ LoopEnters \/ StreamStateUpdate
    \/ \E event \in ToSet(inbox) :
         \/ RegistryEventGlobal(event) \/ OnNodeInfo(event) \/ OnNodeParam(event)
         \/ OnNodeProxyDestroyed(event) \/ OnDeviceProxyDestroyed(event) \/ OnDeviceParam(event)
         \/ OnMetadataProperty(event)
    \/ StreamStateFlush \/ MixerStreamsFlush \/ MixerStateFlush \/ FlushClosed
    \/ \E s \in streams : SetDefaultOutput(s) \/ \E level \in Level : SetLevel(s, level)
    \/ Destroy \/ Close

Spec == Init /\ [][Next]_vars
-----------------------------------------------------------------------------
Quiet == inbox = <<>> /\ asked = {} /\ invoked = <<>> /\ sets = <<>> /\ closing = "no"

(* Once every event, parameter and flush has arrived, the streams of the main     *)
(* thread are the nodes of the daemon, each with the id that its level is set by; *)
(* but a node is not listed while it has never been loud.                         *)
StreamsAreNodes ==
    Quiet => /\ \A s \in streams : \E n \in daemon.nodes : s.name = n.name /\ s.id = n.id
             /\ \A n \in daemon.nodes : n.level # 0 => \E s \in streams : s.name = n.name

(* ... with the level of the node, unless it was also set from here, and the      *)
(* default is the daemon's, unless it was chosen here.                            *)
LevelsAgree ==
    Quiet => /\ \A s \in streams : s.set \/ \A n \in daemon.nodes : n.id = s.id => n.level = s.level
             /\ daemon.default # NoName => default.chosen \/ default.name = daemon.default
=============================================================================
