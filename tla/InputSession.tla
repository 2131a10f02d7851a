---------------------------- MODULE InputSession ----------------------------
(***************************************************************************)
(* Input for the session of the desktop: ValentXdpInput asks the portal for*)
(* a session when the first input comes, and ValentEiInput, its delegate,  *)
(* emulates the devices that the EIS server offers in that session.  The   *)
(* portal answers when it likes, also a session that was closed; the       *)
(* server adds, resumes and removes devices while input arrives.           *)
(***************************************************************************)
EXTENDS Integers, Sequences, SequencesExt

CONSTANTS
    None,
    MaxSessions,         \* bounds the sessions that are asked for
    MaxDevices,          \* bounds the devices of the server
    MaxInput             \* bounds the keys and the buttons that are pressed

(* A keyboard has a keymap, none, or one that does not load                   *)
Keymap == {"xkb", "none", "bad"}

VARIABLES
    xdp,                 \* ValentXdpInput: session, starting, started
    sessions,            \* of the portal: what each session is doing
    ei,                  \* the delegate: session, open, seat, keyboard, pointer, keymap, sequence
    eis,                 \* the server: session, count, devices (kind, keymap, resumed)
    events,              \* from the server to the delegate
    down,                \* keys and buttons that the desktop takes for pressed, with their device
    held,                \* the remote holds the button
    inputs

vars == <<xdp, sessions, ei, eis, events, down, held, inputs>>

NoSession == [session |-> None, starting |-> FALSE, started |-> FALSE]
NoDevice == [d \in {} |-> None]
NoServer == [session |-> None, count |-> 0, devices |-> NoDevice]

Init ==
    /\ xdp = NoSession /\ sessions = <<>>
    /\ ei = None /\ eis = NoServer /\ events = <<>>
    /\ down = {} /\ held = FALSE /\ inputs = 0
-----------------------------------------------------------------------------
(* The server forgets a client that is gone, and what it had pressed          *)
ServerForgets == eis' = NoServer /\ events' = <<>> /\ down' = {}

(* valent_ei_input_stop(): what is left is a delegate without devices          *)
Stopped == [ei EXCEPT !.open = FALSE, !.seat = FALSE, !.keyboard = None, !.pointer = None,
                      !.keymap = None]

Opened(s) == [session |-> s, open |-> TRUE, seat |-> FALSE, keyboard |-> None,
              pointer |-> None, keymap |-> None, sequence |-> 0]

(* on_session_closed() of the adapter: whichever session it has is dropped     *)
OnSessionClosed ==
    /\ xdp' = NoSession /\ ei' = None
    /\ IF ei # None THEN ServerForgets ELSE UNCHANGED <<eis, events, down>>

(* ensure_session(): the input that asks for a session is lost                *)
EnsureSession ==
    /\ ~xdp.started /\ ~xdp.starting /\ Len(sessions) < MaxSessions
    /\ xdp' = [xdp EXCEPT !.starting = TRUE]
    /\ sessions' = Append(sessions, "creating")

(* on_session_created()                                                      *)
SessionCreated(s) ==
    /\ sessions[s] = "creating"
    /\ \/ /\ sessions' = [sessions EXCEPT ![s] = "starting"]
          /\ xdp' = [xdp EXCEPT !.session = s]
          /\ UNCHANGED <<ei, eis, events, down>>
       \/ /\ sessions' = [sessions EXCEPT ![s] = "ended"]
          /\ OnSessionClosed
    /\ UNCHANGED <<held, inputs>>

(* on_session_started(): the server is asked of the session that the adapter   *)
(* has by now, which only an active one grants                                *)
SessionStarted(s) ==
    /\ sessions[s] = "starting"
    /\ sessions' = [sessions EXCEPT ![s] = "active"]
    /\ xdp' = [xdp EXCEPT !.starting = FALSE, !.started = TRUE]
    /\ \/ /\ xdp.session # None /\ sessions'[xdp.session] = "active"
          /\ ei' = Opened(xdp.session)
          /\ eis' = [session |-> xdp.session, count |-> 0, devices |-> NoDevice]
          /\ events' = <<[kind |-> "seat"]>> /\ down' = {}
       \/ UNCHANGED <<ei, eis, events, down>>
    /\ UNCHANGED <<held, inputs>>

(* The start fails, also when the session was closed meanwhile                *)
StartFails(s) ==
    /\ sessions[s] \in {"starting", "closing"}
    /\ sessions' = [sessions EXCEPT ![s] = "ended"]
    /\ OnSessionClosed
    /\ UNCHANGED <<held, inputs>>

(* The portal closes a session, before or after it answered the start.  Only   *)
(* the session that the adapter still has is listened to                      *)
PortalCloses(s) ==
    /\ sessions[s] \in {"starting", "active"}
    /\ sessions' = [sessions EXCEPT ![s] = IF @ = "starting" THEN "closing" ELSE "ended"]
    /\ IF xdp.session = s THEN OnSessionClosed
       ELSE UNCHANGED <<xdp, ei, eis, events, down>>
    /\ UNCHANGED <<held, inputs>>
-----------------------------------------------------------------------------
(* The server: a device of a kind takes the place of the one before           *)
HasKind(k) == \E d \in DOMAIN eis.devices : eis.devices[d].kind = k

ServerAdds(k, m) ==
    /\ eis.session # None /\ ei.open /\ ei.seat /\ ~HasKind(k)
    /\ LET d == eis.count + 1 IN
       /\ d <= MaxDevices
       /\ eis' = [eis EXCEPT !.count = d, !.devices = @ @@ (d :> [kind |-> k, keymap |-> m, resumed |-> FALSE])]
       /\ events' = events \o <<[kind |-> "added", device |-> d], [kind |-> "resumed", device |-> d]>>
    /\ UNCHANGED <<xdp, sessions, ei, down, held, inputs>>

ServerRemoves(d) ==
    /\ eis' = [eis EXCEPT !.devices = [x \in DOMAIN eis.devices \ {d} |-> eis.devices[x]]]
    /\ events' = Append(events, [kind |-> "removed", device |-> d])
    /\ down' = {p \in down : p.device # d}
    /\ UNCHANGED <<xdp, sessions, ei, held, inputs>>
-----------------------------------------------------------------------------
(* process_keymap(): the old keymap goes first                               *)
ProcessKeymap(d) ==
    [ei EXCEPT !.keyboard = d,
               !.keymap = IF d \in DOMAIN eis.devices /\ eis.devices[d].keymap = "xkb"
                            THEN d ELSE None]

(* ei_source_dispatch()                                                      *)
Dispatch ==
    /\ ei # None /\ ei.open /\ events # <<>>
    /\ LET e == Head(events)
           there == e.kind # "seat" /\ e.device \in DOMAIN eis.devices
           keyboard == there /\ eis.devices[e.device].kind = "keyboard"
       IN \/ /\ e.kind = "seat"
             /\ ei' = [ei EXCEPT !.seat = TRUE]
             /\ events' = Tail(events) /\ UNCHANGED <<eis, down>>
          \/ /\ e.kind = "added"
             /\ IF keyboard /\ eis.devices[e.device].keymap = "bad"
                  THEN ei' = Stopped /\ ServerForgets
                  ELSE /\ ei' = IF keyboard THEN ProcessKeymap(e.device)
                                ELSE IF there THEN [ei EXCEPT !.pointer = e.device] ELSE ei
                       /\ events' = Tail(events) /\ UNCHANGED <<eis, down>>
          \/ /\ e.kind = "removed"
             /\ ei' = [ei EXCEPT !.keyboard = IF @ = e.device THEN None ELSE @,
                                 !.pointer = IF @ = e.device THEN None ELSE @]
             /\ events' = Tail(events) /\ UNCHANGED <<eis, down>>
          \/ /\ e.kind = "resumed"
             /\ IF e.device \in {ei.keyboard, ei.pointer}
                  THEN /\ ei' = [ei EXCEPT !.sequence = @ + 1]
                       /\ eis' = IF there THEN [eis EXCEPT !.devices[e.device].resumed = TRUE]
                                 ELSE eis
                  ELSE UNCHANGED <<ei, eis>>
             /\ events' = Tail(events) /\ UNCHANGED down
    /\ UNCHANGED <<xdp, sessions, held, inputs>>
-----------------------------------------------------------------------------
(* What the server makes of the events of a device: those of one that it does  *)
(* not have any more, or that is not emulating, are nothing to it             *)
Emulates(d) == d \in DOMAIN eis.devices /\ eis.devices[d].resumed

(* valent_ei_input_keyboard_keysym(), of a key and its release, with the       *)
(* modifier of its level around it: the sequence that reaches the desktop      *)
Keysym(shifted) ==
    LET shift(x) == IF shifted THEN <<[key |-> "shift", pressed |-> x]>> ELSE <<>>
    IN shift(TRUE) \o <<[key |-> "key", pressed |-> TRUE], [key |-> "key", pressed |-> FALSE]>>
         \o shift(FALSE)

(* A key has a code only in a keymap                                         *)
HasKeycode == ei # None /\ ei.keyboard # None /\ ei.keymap # None

PressedAfter(s, d) ==
    {[device |-> d, key |-> k] : k \in {s[i].key : i \in
        {j \in DOMAIN s : s[j].pressed /\ \A n \in j + 1..Len(s) : s[n].key # s[j].key}}}

TypesKey(shifted) ==
    /\ inputs < MaxInput /\ inputs' = inputs + 1
    /\ IF ~xdp.started THEN EnsureSession /\ UNCHANGED down
       ELSE /\ UNCHANGED <<xdp, sessions>>
            /\ down' = IF HasKeycode /\ Emulates(ei.keyboard)
                         THEN down \cup PressedAfter(Keysym(shifted), ei.keyboard) ELSE down
    /\ UNCHANGED <<ei, eis, events, held>>

(* valent_ei_input_pointer_button().  Without a delegate the button goes to the *)
(* portal, which is left out                                                  *)
Button(pressed) ==
    /\ held = ~pressed /\ held' = pressed
    /\ pressed => inputs < MaxInput
    /\ inputs' = IF pressed THEN inputs + 1 ELSE inputs
    /\ IF ~xdp.started /\ ~xdp.starting /\ Len(sessions) < MaxSessions
         THEN EnsureSession /\ UNCHANGED down
         ELSE /\ UNCHANGED <<xdp, sessions>>
              /\ down' = IF xdp.started /\ ei # None /\ ei.pointer # None /\ Emulates(ei.pointer)
                           THEN LET b == {[device |-> ei.pointer, key |-> "button"]} IN
                                IF pressed THEN down \cup b ELSE down \ b
                           ELSE down
    /\ UNCHANGED <<ei, eis, events>>
-----------------------------------------------------------------------------
(* The adapter is disabled: its session is closed                            *)
Destroy ==
    /\ xdp.session # None
    /\ sessions' = [sessions EXCEPT ![xdp.session] = IF @ = "starting" THEN "closing" ELSE "ended"]
    /\ OnSessionClosed
    /\ UNCHANGED <<held, inputs>>

Next ==
    \/ \E s \in DOMAIN sessions :
          SessionCreated(s) \/ SessionStarted(s) \/ StartFails(s) \/ PortalCloses(s)
    \/ \E k \in {"keyboard", "pointer"}, m \in Keymap :
          (k = "pointer" => m = "none") /\ ServerAdds(k, m)
    \/ \E d \in DOMAIN eis.devices : ServerRemoves(d)
    \/ Dispatch \/ Destroy
    \/ \E b \in BOOLEAN : TypesKey(b) \/ Button(b)

Spec == Init /\ [][Next]_vars
-----------------------------------------------------------------------------
(* Whatever was closed, started or removed between a press and its release, no *)
(* key is left pressed, and the button only while the remote holds it           *)
(* (valent_ei_input_keyboard_keysym, valent_ei_input_pointer_button).           *)
InputIsReleased ==
    /\ \A p \in down : p.key = "button"
    /\ ~held => down = {}

(* Keycodes are looked up in the keymap of the keyboard they are sent with      *)
(* (process_keymap), and there is a delegate only in a session that was started *)
(* (on_session_closed).  That it is the session the adapter has does not hold:  *)
(* a start that fails after its session was closed ends the next one.           *)
DelegateAgrees ==
    ei # None => xdp.started /\ (ei.keyboard # None => ei.keymap \in {None, ei.keyboard})
=============================================================================
