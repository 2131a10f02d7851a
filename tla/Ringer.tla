------------------------------- MODULE Ringer -------------------------------
(***************************************************************************)
(* The findmyphone plugins of several devices share one ringer.  A device  *)
(* toggles it, and so does the user; who started it stops it when it is    *)
(* unpaired.  A plugin is not told that its device lost its last channel.  *)
(***************************************************************************)
EXTENDS Integers, FiniteSets

CONSTANTS Device, NoOwner, MaxRings

VARIABLES
    connected,           \* devices that have a channel
    available,           \* devices that are connected and paired, as their plugin was told
    plugins,             \* the devices whose plugin is there; each holds a reference
    playbin,             \* the ringer can play
    ringing,             \* source_id is set
    sound,               \* the playbin plays
    notified,            \* the notification is shown
    owner,               \* who started it, if a device did
    started,             \* who asked last, while it rings
    rings

ringer == <<playbin, ringing, sound, notified, owner>>
vars == <<connected, available, plugins, ringer, started, rings>>

Init ==
    /\ connected = {} /\ available = {} /\ plugins = {}
    /\ playbin = FALSE /\ ringing = FALSE /\ sound = FALSE /\ notified = FALSE
    /\ owner = NoOwner /\ started = NoOwner /\ rings = 0
-----------------------------------------------------------------------------
(* valent_findmyphone_ringer_start(): the sound may fail to play, and the watch *)
(* is removed again                                                          *)
Start ==
    IF ~playbin \/ ringing
      THEN UNCHANGED <<ringing, sound>>
      ELSE ringing' \in BOOLEAN /\ sound' = ringing'

(* valent_findmyphone_ringer_stop(), which leaves the owner unless there is a  *)
(* watch                                                                     *)
Stop ==
    IF ~playbin \/ ~ringing
      THEN UNCHANGED <<ringing, sound, owner>>
      ELSE ringing' = FALSE /\ sound' = FALSE /\ owner' = NoOwner

Show == Start /\ notified' = TRUE
Hide == Stop /\ notified' = FALSE

(* valent_findmyphone_ringer_toggle()                                          *)
Toggle(who) ==
    /\ rings < MaxRings /\ rings' = rings + 1
    /\ \/ ringing /\ Hide /\ started' = NoOwner
       \/ ~ringing /\ Show /\ owner' = who /\ started' = who
    /\ UNCHANGED <<connected, available, plugins, playbin>>

(* ringer_source_func(): at its end the sound is rewound; after an error there *)
(* is no watch any more, but its id stays                                    *)
SoundFails ==
    /\ sound /\ sound' = FALSE
    /\ UNCHANGED <<connected, available, plugins, playbin, ringing, notified, owner, started,
                   rings>>

(* valent_findmyphone_plugin_handle_packet()                                   *)
HandleRequest(d) == d \in connected \cap available /\ Toggle(d)

(* app_ringer_action()                                                       *)
RingerAction == plugins # {} /\ Toggle(NoOwner)

(* valent_findmyphone_ringer_new(), with or without a sound                      *)
NewRinger ==
    /\ playbin' \in BOOLEAN /\ ringing' = FALSE /\ sound' = FALSE /\ notified' = FALSE
    /\ owner' = NoOwner

(* valent_findmyphone_plugin_constructed(): valent_findmyphone_ringer_acquire() *)
PluginEnabled(d) ==
    /\ d \notin plugins /\ plugins' = plugins \cup {d}
    /\ IF plugins = {} THEN NewRinger ELSE UNCHANGED ringer
    /\ UNCHANGED <<connected, available, started, rings>>

(* valent_findmyphone_plugin_update_state(), with the first channel of a paired *)
(* device, or when a connected one is paired                                   *)
Appear(d) ==
    /\ d \in plugins \ (connected \cap available)
    /\ connected' = connected \cup {d} /\ available' = available \cup {d}
    /\ UNCHANGED <<plugins, ringer, started, rings>>

(* on_channel_destroy(): what it started rings on                             *)
Lose(d) ==
    /\ d \in connected /\ connected' = connected \ {d}
    /\ UNCHANGED <<available, plugins, ringer, started, rings>>

(* Mutant: any device that goes silences the ringer.                         *)
VanishSilent(d) ==
    /\ d \in available /\ available' = available \ {d}
    /\ Hide /\ started' = NoOwner
    /\ UNCHANGED <<connected, plugins, playbin, rings>>

(* ... of a device that was unpaired, connected or not                         *)
Vanish(d) ==
    /\ d \in available /\ available' = available \ {d}
    /\ \/ owner = d /\ Hide /\ started' = NoOwner
       \/ owner # d /\ UNCHANGED <<ringing, sound, notified, owner, started>>
    /\ UNCHANGED <<connected, plugins, playbin, rings>>

(* valent_findmyphone_ringer_free()                                            *)
Free ==
    /\ playbin' = FALSE /\ ringing' = FALSE /\ sound' = FALSE /\ notified' = FALSE
    /\ owner' = NoOwner /\ started' = NoOwner

(* valent_findmyphone_plugin_destroy(): valent_findmyphone_ringer_release(). While *)
(* others hold the ringer it rings on, for an owner that none of them is         *)
PluginDisabled(d) ==
    /\ d \in plugins /\ plugins' = plugins \ {d}
    /\ connected' = connected \ {d} /\ available' = available \ {d}
    /\ \/ plugins' = {} /\ Free
       \/ /\ plugins' # {}
          /\ started' = IF started = d THEN NoOwner ELSE started
          /\ owner' = IF owner = d THEN NoOwner ELSE owner
          /\ UNCHANGED <<playbin, ringing, sound, notified>>
    /\ UNCHANGED rings

Next ==
    \/ RingerAction \/ SoundFails
    \/ \E d \in Device : HandleRequest(d) \/ PluginEnabled(d)
                         \/ Appear(d) \/ Lose(d) \/ Vanish(d) \/ PluginDisabled(d)

Spec == Init /\ [][Next]_vars
-----------------------------------------------------------------------------
(* What rings on behalf of a device stops when the device is unpaired, whoever    *)
(* toggled the ringer in between and however often the device lost its connection *)
(* and came back.  It rings on when only the connection is lost, and for a plugin *)
(* that is disabled while another holds the ringer.                               *)
RingsForDevice == started # NoOwner => started \in available

(* A device that is unpaired does not stop what another device or the user        *)
(* started.                                                                       *)
SparesOthers ==
    \A d \in available \ available' :
      started # d /\ d \in plugins' => ringing' = ringing /\ sound' = sound /\ started' = started
=============================================================================
