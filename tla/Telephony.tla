----------------------------- MODULE Telephony -----------------------------
(***************************************************************************)
(* The telephony plugins of several phones lower the volume of the default *)
(* output, mute it and pause the players while there is a call, and put    *)
(* back what is still as they left it.                                     *)
(***************************************************************************)
EXTENDS Integers, FiniteSets

CONSTANTS
    Phone,
    Output,              \* audio outputs
    NoOutput,
    Player,
    Sender,              \* who may call
    MaxLevel,
    MaxEvents            \* bounds the calls and what a user does meanwhile

VARIABLES
    levels, muted,       \* of each output
    default,             \* the default output
    playing,             \* of each player: its state as it is known
    pausing,             \* players whose pause was asked for
    speakers,            \* of each phone: what it keeps of the output it changed, if any
    tracked,             \* of each phone: the players it paused
    calls,               \* of each phone: whether it keeps a media_state
    notices,             \* of each phone: the senders whose call is shown
    before,              \* levels, mutes and players when the first call came
    touched,             \* a user, or unpairing a phone, changed something since
    events

mediaVars == <<levels, muted, default, playing, pausing>>
stateVars == <<speakers, tracked, calls>>
vars == <<mediaVars, stateVars, notices, before, touched, events>>

NoState == [output |-> NoOutput]
Level == 0..MaxLevel

Init ==
    /\ levels = [o \in Output |-> MaxLevel] /\ muted = [o \in Output |-> FALSE]
    /\ default \in Output
    /\ playing \in [Player -> BOOLEAN] /\ pausing = {}
    /\ speakers = [p \in Phone |-> NoState]
    /\ tracked = [p \in Phone |-> {}]
    /\ calls = [p \in Phone |-> FALSE] /\ notices = [p \in Phone |-> {}]
    /\ before = <<levels, muted, playing>> /\ touched = FALSE /\ events = 0

Happens == events < MaxEvents /\ events' = events + 1
-----------------------------------------------------------------------------
(* stream_state_new()                                                        *)
StreamState(o) ==
    [output |-> o, originalLevel |-> levels[o], originalMuted |-> muted[o],
     currentLevel |-> levels[o], currentMuted |-> muted[o]]

(* stream_state_update(): a level of 0 mutes instead, and a state whose output  *)
(* is no longer the default is left alone                                       *)
StreamStateUpdate(p, s, level) ==
    CASE s.output = NoOutput \/ level < 0 ->
           speakers' = [speakers EXCEPT ![p] = s] /\ UNCHANGED <<levels, muted>>
      [] s.output # NoOutput /\ level = 0 ->
           /\ speakers' = [speakers EXCEPT ![p] = [s EXCEPT !.currentMuted = TRUE]]
           /\ muted' = [muted EXCEPT ![s.output] = TRUE] /\ UNCHANGED levels
      [] s.output # NoOutput /\ level > 0 ->
           /\ speakers' = [speakers EXCEPT ![p] = [s EXCEPT !.currentLevel = level]]
           /\ levels' = [levels EXCEPT ![s.output] = level] /\ UNCHANGED muted

(* stream_state_restore(): what somebody else changed meanwhile stays         *)
StreamStateRestore(s) ==
    IF s.output = NoOutput THEN UNCHANGED <<levels, muted>>
    ELSE /\ levels' = [levels EXCEPT ![s.output] =
                         IF @ = s.currentLevel THEN s.originalLevel ELSE @]
         /\ muted' = [muted EXCEPT ![s.output] =
                         IF @ = s.currentMuted THEN s.originalMuted ELSE @]

(* media_state_pause_players()                                               *)
PausePlayers(p) ==
    LET paused == {q \in Player : playing[q]} \ tracked[p]
    IN  tracked' = [tracked EXCEPT ![p] = @ \cup paused] /\ pausing' = pausing \cup paused

(* valent_telephony_plugin_update_media_state(), media_state_update(), with the *)
(* level and the pause that are set for the event; a negative level leaves the *)
(* output alone.  The microphone is the same again                           *)
UpdateMediaState(p, level, pause) ==
    /\ calls' = [calls EXCEPT ![p] = TRUE]
    /\ StreamStateUpdate(p, IF level >= 0 /\ speakers[p] = NoState
                              THEN StreamState(default) ELSE speakers[p], level)
    /\ \/ pause /\ PausePlayers(p)
       \/ ~pause /\ UNCHANGED <<tracked, pausing>>

(* valent_telephony_plugin_handle_telephony(), of "ringing" or "talking"      *)
Call(p, sender, level, pause) ==
    /\ Happens
    /\ UpdateMediaState(p, level, pause)
    /\ notices' = [notices EXCEPT ![p] = @ \cup {sender}]
    /\ before' = IF \A q \in Phone : ~calls[q] THEN <<levels, muted, playing>> ELSE before
    /\ touched' = IF \A q \in Phone : ~calls[q] THEN pausing # {}
                  ELSE touched \/ \E q \in Phone \ {p} : calls[q]
    /\ UNCHANGED <<default, playing>>

(* media_state_restore()                                                     *)
MediaStateRestore(p) ==
    /\ StreamStateRestore(speakers[p])
    /\ speakers' = [speakers EXCEPT ![p] = NoState]
    /\ pausing' = pausing \ tracked[p]
    /\ playing' = [q \in Player |-> playing[q] \/ q \in tracked[p]]
    /\ tracked' = [tracked EXCEPT ![p] = {}]

(* ... of an event that is cancelled, whichever of the calls it was            *)
CallEnds(p, sender) ==
    /\ sender \in notices[p] /\ notices' = [notices EXCEPT ![p] = @ \ {sender}]
    /\ calls' = [calls EXCEPT ![p] = FALSE]
    /\ \/ calls[p] /\ MediaStateRestore(p)
       \/ ~calls[p] /\ UNCHANGED <<levels, muted, speakers, playing, pausing, tracked>>
    /\ UNCHANGED <<default, before, touched, events>>

(* valent_telephony_plugin_update_state() of a phone that was unpaired,         *)
(* valent_telephony_plugin_destroy(): its state is dropped, nothing is put back *)
Vanish(p) ==
    /\ calls[p] /\ calls' = [calls EXCEPT ![p] = FALSE]
    /\ speakers' = [speakers EXCEPT ![p] = NoState] /\ tracked' = [tracked EXCEPT ![p] = {}]
    /\ touched' = TRUE
    /\ UNCHANGED <<mediaVars, notices, before, events>>
-----------------------------------------------------------------------------
(* A player pauses: its state is known to be so now                            *)
PlayerPauses(q) ==
    /\ q \in pausing /\ pausing' = pausing \ {q}
    /\ playing' = [playing EXCEPT ![q] = FALSE]
    /\ UNCHANGED <<levels, muted, default, stateVars, notices, before, touched, events>>

(* on_player_changed(): a user plays it again, and it is no longer tracked      *)
UserPlays(q) ==
    /\ Happens /\ q \notin pausing /\ ~playing[q]
    /\ playing' = [playing EXCEPT ![q] = TRUE]
    /\ tracked' = [p \in Phone |-> tracked[p] \ {q}]
    /\ touched' = TRUE
    /\ UNCHANGED <<levels, muted, default, pausing, speakers, calls, notices, before>>

UserSets(o) ==
    /\ Happens
    /\ \/ \E v \in Level \ {levels[o]} : levels' = [levels EXCEPT ![o] = v] /\ UNCHANGED muted
       \/ muted' = [muted EXCEPT ![o] = ~@] /\ UNCHANGED levels
    /\ touched' = TRUE
    /\ UNCHANGED <<default, playing, pausing, stateVars, notices, before>>

(* on_stream_changed(): what was kept of the old default is forgotten           *)
DefaultChanges(o) ==
    /\ Happens /\ o # default /\ default' = o
    /\ speakers' = [p \in Phone |-> IF speakers[p] = NoState THEN NoState
                                    ELSE [speakers[p] EXCEPT !.output = NoOutput]]
    /\ touched' = TRUE
    /\ UNCHANGED <<levels, muted, playing, pausing, tracked, calls, notices, before>>

Next ==
    \/ \E p \in Phone, sender \in Sender :
         \/ CallEnds(p, sender)
         \/ \E level \in -1..MaxLevel, pause \in BOOLEAN : Call(p, sender, level, pause)
    \/ \E p \in Phone : Vanish(p)
    \/ \E q \in Player : PlayerPauses(q) \/ UserPlays(q)
    \/ \E o \in Output : UserSets(o) \/ DefaultChanges(o)

Spec == Init /\ [][Next]_vars
-----------------------------------------------------------------------------
Silent == pausing = {} /\ \A p \in Phone : ~calls[p]

(* When a call is over, through however many events, the outputs and the players  *)
(* are as they were before it, if no user, second phone or unpairing interfered.  *)
(* A call whose end was lost with a connection is not over.                       *)
CallLeavesNoTrace == Silent /\ ~touched => before = <<levels, muted, playing>>

(* While the outputs and players are changed for a phone, a call of it is shown.  *)
CallIsShown == \A p \in Phone : calls[p] => notices[p] # {}
=============================================================================
