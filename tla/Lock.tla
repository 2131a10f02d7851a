-------------------------------- MODULE Lock --------------------------------
(***************************************************************************)
(* The lock plugin at both ends: each tells whether its session is locked, *)
(* and may ask for the session of the other to be locked or unlocked.      *)
(***************************************************************************)
EXTENDS PluginLink

CONSTANTS MaxEvents

VARIABLES
    locked,              \* of each end: the session's state, as it is known there
    asked,               \* what the session was asked for and has not done yet
    remoteLocked,        \* remote_locked
    watching,            \* session_changed_id is connected
    events

lockVars == <<locked, asked, remoteLocked, watching, events>>
vars == <<linkVars, lockVars>>

Init ==
    /\ LinkInit
    /\ locked \in [End -> BOOLEAN] /\ asked = [e \in End |-> <<>>]
    /\ remoteLocked = [e \in End |-> FALSE]
    /\ watching = [e \in End |-> FALSE] /\ events = 0
-----------------------------------------------------------------------------
State(value) == <<[kind |-> "lock", isLocked |-> value]>>

(* notify::locked, with valent_lock_plugin_send_state()                      *)
Changes(e, value) ==
    /\ locked' = [locked EXCEPT ![e] = value]
    /\ IF watching[e] /\ value # locked[e] THEN Queue(e, State(value)) ELSE UNCHANGED wire

(* The user locks or unlocks; a session does what it was asked                *)
UserChanges(e) ==
    /\ events < MaxEvents /\ events' = events + 1 /\ Room(e)
    /\ Changes(e, ~locked[e])
    /\ UNCHANGED <<link, available, asked, remoteLocked, watching>>

SessionChanges(e) ==
    /\ asked[e] # <<>> /\ asked' = [asked EXCEPT ![e] = Tail(@)]
    /\ Changes(e, Head(asked[e]))
    /\ UNCHANGED <<link, available, remoteLocked, watching, events>>

(* state_action(), valent_lock_plugin_set_state()                            *)
StateAction(e, value) ==
    /\ events < MaxEvents /\ events' = events + 1 /\ Room(e)
    /\ available[e]
    /\ IF remoteLocked[e] # value
         THEN Queue(e, <<[kind |-> "request", set |-> value]>>) ELSE UNCHANGED wire
    /\ UNCHANGED <<link, available, locked, asked, remoteLocked, watching>>

(* valent_lock_plugin_handle_lock(), valent_lock_plugin_handle_lock_request()  *)
HandleLock(e) ==
    /\ Arrived(e) /\ Head(wire[e]).kind = "lock" /\ Handled(e, <<>>)
    /\ remoteLocked' = [remoteLocked EXCEPT ![e] = Head(wire[e]).isLocked]
    /\ UNCHANGED <<link, available, locked, asked, watching, events>>

HandleLockRequest(e) ==
    /\ Arrived(e) /\ Head(wire[e]).kind = "request" /\ Handled(e, <<>>)
    /\ asked' = [asked EXCEPT ![e] = Append(@, Head(wire[e]).set)]
    /\ UNCHANGED <<link, available, locked, remoteLocked, watching, events>>

HandleStateRequest(e) ==
    /\ Arrived(e) /\ Head(wire[e]).kind = "requestLocked" /\ Handled(e, State(locked[e]))
    /\ UNCHANGED <<link, available, lockVars>>

(* valent_lock_plugin_update_state(): it asks with every new connection       *)
Appear(e) ==
    /\ Appears(e, <<[kind |-> "requestLocked"]>>)
    /\ watching' = [watching EXCEPT ![e] = TRUE]
    /\ UNCHANGED <<locked, asked, remoteLocked, events>>

Vanish(e) ==
    /\ Vanishes(e) /\ watching' = [watching EXCEPT ![e] = FALSE]
    /\ UNCHANGED <<locked, asked, remoteLocked, events>>

Link == (Connects \/ Breaks \/ Unpairs \/ \E e \in End : Loses(e)) /\ UNCHANGED lockVars

Next ==
    \/ \E e \in End :
         \/ UserChanges(e) \/ SessionChanges(e) \/ HandleLock(e) \/ HandleLockRequest(e)
         \/ HandleStateRequest(e) \/ Appear(e) \/ Vanish(e)
         \/ \E value \in BOOLEAN : StateAction(e, value)
    \/ Link

Spec == Init /\ [][Next]_vars
-----------------------------------------------------------------------------
(* Whatever was locked at either end, by its user or on request, while they were  *)
(* apart or while the packets crossed, each end knows the state of the other once *)
(* all have arrived.                                                              *)
LocksAgree == Settled => \A e \in End : remoteLocked[e] = locked[Other(e)]
=============================================================================
