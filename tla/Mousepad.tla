------------------------------ MODULE Mousepad ------------------------------
(***************************************************************************)
(* The mousepad plugin at both ends: each tells whether it has an input    *)
(* adapter, exports an adapter of its own for the other's while it has one,*)
(* and injects the events that the other sends.                            *)
(***************************************************************************)
EXTENDS PluginLink

CONSTANTS MaxEvents

VARIABLES
    primary,             \* of each end: there is a primary input adapter
    localState,          \* local_state: what the other was told last
    watch,               \* local_watch
    remoteState,         \* remote_state
    exported,            \* remote_adapter is among the adapters of ValentInput
    pressed,             \* what the local adapter holds down: modifiers and buttons
    events,
    lost                 \* history: the last keyboard state of an end did not get through

padVars == <<primary, localState, watch, remoteState, exported, pressed, events, lost>>
vars == <<linkVars, padVars>>

Init ==
    /\ LinkInit
    /\ primary \in [End -> BOOLEAN]
    /\ localState = [e \in End |-> FALSE] /\ watch = [e \in End |-> FALSE]
    /\ remoteState = [e \in End |-> FALSE] /\ exported = [e \in End |-> FALSE]
    /\ pressed = [e \in End |-> {}] /\ events = 0
    /\ lost = [e \in End |-> FALSE]
-----------------------------------------------------------------------------
Event == events < MaxEvents /\ events' = events + 1

KeyboardState(state) == <<[kind |-> "keyboardstate", state |-> state]>>

(* The primary adapter changes; on_primary_adapter_changed()                 *)
OnPrimaryAdapterChanged(e, now) ==
    IF localState[e] # now
      THEN /\ localState' = [localState EXCEPT ![e] = now]
           /\ Queue(e, KeyboardState(now))
      ELSE UNCHANGED <<localState, wire>>

AdapterChanges(e) ==
    /\ Event /\ Room(e)
    /\ primary' = [primary EXCEPT ![e] = ~@]
    /\ pressed' = [pressed EXCEPT ![e] = {}]
    /\ IF watch[e] THEN OnPrimaryAdapterChanged(e, primary'[e]) ELSE UNCHANGED <<localState, wire>>
    /\ UNCHANGED <<link, available, watch, remoteState, exported>>

(* valent_mousepad_plugin_update_remote_state()                              *)
UpdateRemoteState(e, state) ==
    /\ remoteState' = [remoteState EXCEPT ![e] = state]
    /\ exported' = [exported EXCEPT ![e] = IF state # remoteState[e] THEN state ELSE @]

HandleKeyboardState(e) ==
    /\ Arrived(e) /\ Head(wire[e]).kind = "keyboardstate" /\ Handled(e, <<>>)
    /\ UpdateRemoteState(e, Head(wire[e]).state)
    /\ UNCHANGED <<link, available, primary, localState, watch, pressed, events>>

(* mousepad_event_action(), or the exported adapter: a key with a modifier     *)
(* that asks for an answer, or a button that is held or let go                 *)
EventAction(e) ==
    /\ Event /\ Room(e) /\ remoteState[e]
    /\ \E request \in {"key", "singlehold", "singlerelease"} : Queue(e, <<[kind |-> request]>>)
    /\ UNCHANGED <<link, available, primary, localState, watch, remoteState, exported, pressed>>

(* keyboard_mask() presses and releases the modifiers around the keys         *)
KeyboardMask(held, state) == IF state THEN held \union {"modifier"} ELSE held \ {"modifier"}
Typed(held) == KeyboardMask(KeyboardMask(held, TRUE), FALSE)

(* valent_mousepad_plugin_handle_mousepad_request(): without an adapter it is  *)
(* dropped; valent_mousepad_plugin_send_echo()                                *)
HandleMousepadRequest(e) ==
    LET request == Head(wire[e]).kind
    IN  /\ Arrived(e) /\ request \in {"key", "singlehold", "singlerelease"}
        /\ Handled(e, IF primary[e] /\ request = "key" THEN <<[kind |-> "echo"]>> ELSE <<>>)
        /\ pressed' = IF ~primary[e] THEN pressed
                      ELSE [pressed EXCEPT ![e] = CASE request = "key" -> Typed(@)
                                                    [] request = "singlehold" -> @ \union {"button"}
                                                    [] request = "singlerelease" -> @ \ {"button"}]
        /\ UNCHANGED <<link, available, primary, localState, watch, remoteState, exported, events>>

HandleEcho(e) ==
    /\ Arrived(e) /\ Head(wire[e]).kind = "echo" /\ Handled(e, <<>>)
    /\ UNCHANGED <<link, available, primary, localState, watch, remoteState, exported, pressed,
                   events>>

(* valent_mousepad_plugin_watch_local_state(): a state that did not change     *)
(* since it was last told is not sent again, nor by who watches already        *)
Appear(e) ==
    LET sent == IF ~watch[e] /\ localState[e] # primary[e] THEN KeyboardState(primary[e]) ELSE <<>>
    IN  /\ Appears(e, sent)
        /\ watch' = [watch EXCEPT ![e] = TRUE]
        /\ localState' = IF sent = <<>> THEN localState ELSE [localState EXCEPT ![e] = primary[e]]
        /\ UNCHANGED <<primary, remoteState, exported, pressed, events>>

(* valent_mousepad_plugin_update_state()                                     *)
Vanish(e) ==
    /\ Vanishes(e)
    /\ watch' = [watch EXCEPT ![e] = FALSE]
    /\ UpdateRemoteState(e, FALSE)
    /\ UNCHANGED <<primary, localState, pressed, events>>

Link ==
    /\ Connects \/ Breaks \/ Unpairs \/ \E e \in End : Loses(e)
    /\ UNCHANGED <<primary, localState, watch, remoteState, exported, pressed, events>>

Step ==
    \/ \E e \in End :
         \/ AdapterChanges(e) \/ HandleKeyboardState(e) \/ EventAction(e)
         \/ HandleMousepadRequest(e) \/ HandleEcho(e) \/ Appear(e) \/ Vanish(e)
    \/ Link

StateOnTheWay(e) == \E i \in DOMAIN wire[e] : wire[e][i].kind = "keyboardstate"

Next ==
    /\ Step
    /\ lost' = [e \in End |->
                  IF localState'[e] # localState[e] THEN ~(link'.up /\ e \in link'.ends)
                  ELSE lost[e] \/ (link.up /\ ~link'.up /\ StateOnTheWay(Other(e)))]

Spec == Init /\ [][Next]_vars
-----------------------------------------------------------------------------
(* A keyboard is only shown, and its adapter exported, while the other end has   *)
(* one to type on, also when it was lost while the ends were unpaired.  A state  *)
(* that was sent while there was no connection is not sent again, and until the  *)
(* next change a keyboard that is gone is shown.                                 *)
KeyboardsAreThere ==
    Settled => \A e \in End :
        /\ exported[e] => remoteState[e]
        /\ exported[e] /\ ~lost[Other(e)] => primary[Other(e)]

(* Not so: the state of the keyboard is sent on every connection                 *)
(* (test-mousepad-plugin.c:87 "Plugin sends the keyboard state on connect").     *)
KeyboardStatesAgree ==
    Settled => \A e \in End : remoteState[e] = primary[Other(e)]
=============================================================================
