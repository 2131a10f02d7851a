---------------------------- MODULE SystemVolume ----------------------------
(***************************************************************************)
(* The systemvolume plugin: "here" has the outputs of the primary mixer    *)
(* adapter and reports them; "there" has an adapter of its own, a          *)
(* ValentSystemvolumeDevice whose streams mirror them and ask for changes. *)
(***************************************************************************)
EXTENDS PluginLink

CONSTANTS
    Stream, NoStream,
    Level,               \* the volumes
    MaxEvents            \* bounds the changes at either end

VARIABLES
    streams,             \* the outputs of "here": level and muted, by name
    default,             \* its default output, or NoStream
    watch,               \* mixer_watch of "here"
    states,              \* StreamState: level, muted and enabled, by name
    adapter,             \* "there": outputs: level, muted; default: default_output
    events,
    listed               \* history: a list of this connection was sent

volumeVars == <<streams, default, watch, states, adapter, events, listed>>
vars == <<linkVars, volumeVars>>

Volume == [level : Level, muted : BOOLEAN]
NoOutputs == [s \in {} |-> 0]
Without(f, s) == [x \in DOMAIN f \ {s} |-> f[x]]
With(f, s, v) == [x \in DOMAIN f \cup {s} |-> IF x = s THEN v ELSE f[x]]

Init ==
    /\ LinkInit
    /\ streams \in {[x \in S |-> [level |-> l, muted |-> FALSE]] : S \in SUBSET Stream, l \in Level}
    /\ default \in {NoStream} \cup DOMAIN streams
    /\ watch = FALSE /\ states = NoOutputs
    /\ adapter = [outputs |-> NoOutputs, default |-> NoStream]
    /\ events = 0 /\ listed = FALSE
-----------------------------------------------------------------------------
(* stream_state_new() of every output                                        *)
StatesOf(ss, d) ==
    [s \in DOMAIN ss |-> [level |-> ss[s].level, muted |-> ss[s].muted, enabled |-> s = d]]

SinkList(st) == [kind |-> "sinkList", sinks |-> st]

(* on_items_changed(): the states are made anew, and the list is sent.  A new *)
(* default output has the plugin do the same, by way of the ValentMixer        *)
OnItemsChanged ==
    IF watch
      THEN /\ states' = StatesOf(streams', default')
           /\ Queue("here", <<SinkList(states')>>)
      ELSE UNCHANGED <<states, wire>>

(* on_stream_changed(): only the fields that differ are sent                  *)
StreamUpdate(s, old, new) ==
    [kind |-> "sink", name |-> s,
     level |-> IF old.level # new.level THEN {new.level} ELSE {},
     muted |-> IF old.muted # new.muted THEN {new.muted} ELSE {},
     enabled |-> IF old.enabled # new.enabled THEN {new.enabled} ELSE {}]

OnStreamChanged(s) ==
    LET new == StatesOf(streams', default)[s]
    IN  IF ~watch
          THEN <<>>
          ELSE IF new = states[s] THEN <<>> ELSE <<StreamUpdate(s, states[s], new)>>

StatesAfter(s) ==
    states' = IF watch THEN [states EXCEPT ![s] = StatesOf(streams', default)[s]] ELSE states

Changing == events < MaxEvents /\ events' = events + 1 /\ Room("here") /\ Room("there")

StreamAdded(s) ==
    /\ Changing /\ s \notin DOMAIN streams
    /\ \E v \in Volume : streams' = With(streams, s, v)
    /\ UNCHANGED <<link, available, default, watch, adapter>>
    /\ OnItemsChanged

StreamRemoved(s) ==
    /\ Changing /\ s \in DOMAIN streams
    /\ streams' = Without(streams, s)
    /\ default' = IF default = s THEN NoStream ELSE default
    /\ UNCHANGED <<link, available, watch, adapter>>
    /\ OnItemsChanged

DefaultChanges(s) ==
    /\ Changing /\ s \in DOMAIN streams \ {default}
    /\ default' = s
    /\ UNCHANGED <<link, available, streams, watch, adapter>>
    /\ OnItemsChanged

StreamChanges(s) ==
    /\ Changing /\ s \in DOMAIN streams
    /\ \E v \in Volume \ {streams[s]} : streams' = [streams EXCEPT ![s] = v]
    /\ Queue("here", OnStreamChanged(s)) /\ StatesAfter(s)
    /\ UNCHANGED <<link, available, default, watch, adapter>>

(* The port of an output changed: a new description, and the list             *)
DescriptionChanges(s) ==
    /\ Changing /\ s \in DOMAIN streams /\ watch
    /\ Queue("here", <<SinkList(states)>>)
    /\ UNCHANGED <<link, available, streams, default, watch, states, adapter>>

(* valent_systemvolume_plugin_handle_sink_change()                           *)
HandleSinkChange ==
    LET r == Head(wire["here"]) s == r.name
    IN  /\ Arrived("here")
        /\ IF s \notin DOMAIN states
             THEN /\ Handled("here", <<SinkList(states)>>)
                  /\ UNCHANGED <<streams, default, states>>
             ELSE IF r.kind = "enabled"
             THEN /\ default' = s /\ UNCHANGED streams
                  /\ states' = StatesOf(streams, s)
                  /\ Handled("here", IF default = s THEN <<>> ELSE <<SinkList(states')>>)
             ELSE /\ streams' = CASE r.kind = "level" -> [streams EXCEPT ![s].level = r.value]
                                  [] r.kind = "muted" -> [streams EXCEPT ![s].muted = r.value]
                  /\ Handled("here", OnStreamChanged(s)) /\ StatesAfter(s)
                  /\ UNCHANGED default
        /\ UNCHANGED <<link, available, watch, adapter, events>>
-----------------------------------------------------------------------------
(* valent_systemvolume_stream_set_level() and _set_muted(): the other end is  *)
(* asked, and the stream stays as it is                                       *)
Ask(s) ==
    /\ Changing /\ s \in DOMAIN adapter.outputs
    /\ \/ \E v \in Level : Queue("there", <<[kind |-> "level", name |-> s, value |-> v]>>)
       \/ Queue("there", <<[kind |-> "muted", name |-> s, value |-> ~adapter.outputs[s].muted]>>)
    /\ UNCHANGED <<link, available, streams, default, watch, states, adapter>>

(* valent_systemvolume_device_set_default_output()                            *)
SetDefaultOutput(s) ==
    /\ Changing /\ s \in DOMAIN adapter.outputs /\ adapter.default # s
    /\ Queue("there", <<[kind |-> "enabled", name |-> s]>>)
    /\ UNCHANGED <<link, available, streams, default, watch, states, adapter>>

(* valent_systemvolume_device_handle_stream(): a stream of the list           *)
Listed(sinks) ==
    [outputs |-> [s \in DOMAIN sinks |-> [level |-> sinks[s].level, muted |-> sinks[s].muted]],
     default |-> LET on == {s \in DOMAIN sinks : sinks[s].enabled}
                 IN  IF on = {} THEN adapter.default ELSE CHOOSE s \in on : TRUE]

(* ... and of an update.  One that is not known has no volume yet             *)
Updated(p) ==
    LET was == IF p.name \in DOMAIN adapter.outputs
                 THEN adapter.outputs[p.name] ELSE [level |-> 0, muted |-> FALSE]
        now == [level |-> IF p.level = {} THEN was.level ELSE CHOOSE v \in p.level : TRUE,
                muted |-> IF p.muted = {} THEN was.muted ELSE CHOOSE v \in p.muted : TRUE]
    IN  [outputs |-> With(adapter.outputs, p.name, now),
         default |-> IF p.enabled = {TRUE} THEN p.name ELSE adapter.default]

(* valent_systemvolume_device_handle_packet()                                *)
HandleSystemVolume ==
    LET p == Head(wire["there"])
    IN  /\ Arrived("there") /\ Handled("there", <<>>)
        /\ adapter' = IF p.kind = "sinkList" THEN Listed(p.sinks) ELSE Updated(p)
        /\ UNCHANGED <<link, available, streams, default, watch, states, events>>

(* valent_systemvolume_plugin_watch_mixer(): who watches already sends        *)
(* nothing; the adapter of the other end comes with the first connection       *)
Appear(e) ==
    /\ IF e = "here" /\ ~watch
         THEN /\ watch' = TRUE /\ states' = StatesOf(streams, default)
              /\ Appears(e, <<SinkList(states')>>)
         ELSE Appears(e, <<>>) /\ UNCHANGED <<watch, states>>
    /\ UNCHANGED <<streams, default, adapter, events>>

(* on_device_state_changed(): what it sends is cancelled and its streams are  *)
(* removed                                                                    *)
Lose(e) ==
    /\ Loses(e)
    /\ adapter' = IF e = "there" THEN [adapter EXCEPT !.outputs = NoOutputs] ELSE adapter
    /\ UNCHANGED <<streams, default, watch, states, events>>

(* ... and when it was unpaired the plugin drops the adapter                  *)
Vanish(e) ==
    /\ Vanishes(e)
    /\ IF e = "here"
         THEN watch' = FALSE /\ states' = NoOutputs /\ UNCHANGED adapter
         ELSE /\ adapter' = [outputs |-> NoOutputs, default |-> NoStream]
              /\ UNCHANGED <<watch, states>>
    /\ UNCHANGED <<streams, default, events>>

Link ==
    /\ Connects \/ Breaks \/ Unpairs
    /\ UNCHANGED <<streams, default, watch, states, adapter, events>>

Step ==
    \/ \E s \in Stream : \/ StreamAdded(s) \/ StreamRemoved(s) \/ DefaultChanges(s)
                         \/ StreamChanges(s) \/ DescriptionChanges(s)
                         \/ Ask(s) \/ SetDefaultOutput(s)
    \/ HandleSinkChange \/ HandleSystemVolume
    \/ \E e \in End : Appear(e) \/ Lose(e) \/ Vanish(e)
    \/ Link

ListOnTheWay == \E i \in DOMAIN wire["there"] : wire["there"][i].kind = "sinkList"

Next == Step /\ listed' = (link'.up /\ (listed \/ ListOnTheWay'))

Spec == Init /\ [][Next]_vars
-----------------------------------------------------------------------------
(* Once everything has arrived the remote adapter has the outputs of the mixer *)
(* at their volume, and its default output if there is one, whatever both ends *)
(* changed at the same time, if the list was sent in this connection: it is    *)
(* not sent again to a device that was never unpaired                          *)
(* (valent_systemvolume_plugin_watch_mixer() returns early), whose adapter      *)
(* lost its outputs with the last connection, until the next change of them.   *)
VolumesAgree ==
    Settled /\ listed =>
        /\ adapter.outputs = streams
        /\ default # NoStream => adapter.default = default

(* The cached states are those of the streams.                                 *)
StatesAreCurrent == watch => states = StatesOf(streams, default)
=============================================================================
