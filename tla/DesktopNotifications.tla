------------------------ MODULE DesktopNotifications ------------------------
(***************************************************************************)
(* The adapters that list the notifications of the desktop by monitoring   *)
(* the session bus.  The calls of applications and, for the freedesktop    *)
(* interface, the server's answers and signals are seen by a filter in the *)
(* thread of the connection, which queues them for the main thread.        *)
(***************************************************************************)
EXTENDS Integers, Sequences, FiniteSets

CONSTANTS
    App, Serial,         \* callers, and the serials of their calls
    MaxEvents

VARIABLES
    kind,                \* "fdo" or "gtk"
    phase,               \* of init_async() and destroy()
    filter,              \* the server's name has an owner, and the filter is installed
    idle,                \* tasks for the main thread
    calls,               \* Notify() calls the server has not answered
    open,                \* notifications that are open
    pending,             \* pending: by serial
    active,              \* active: by id
    items,               \* what the adapter lists
    lost,                \* contents that were replaced, mixed up, or of a server that is gone
    events

busVars == <<idle, calls, open, lost, events>>
tableVars == <<pending, active, items>>
vars == <<kind, phase, filter, busVars, tableVars>>

Nothing == [x \in {} |-> 0]
With(f, x, v) == [y \in DOMAIN f \union {x} |-> IF y = x THEN v ELSE f[y]]
Without(f, x) == [y \in DOMAIN f \ {x} |-> f[y]]

Init ==
    /\ kind \in {"fdo", "gtk"} /\ phase = "connecting" /\ filter = FALSE
    /\ idle = <<>> /\ calls = {} /\ open = {}
    /\ pending = Nothing /\ active = Nothing /\ items = {} /\ lost = {} /\ events = 0
-----------------------------------------------------------------------------
(* valent_fdo_notifications_filter(): what it sees becomes a task            *)
Seen(task) == idle' = IF filter THEN Append(idle, task) ELSE idle
Event == events < MaxEvents /\ events' = events + 1

(* An application calls Notify(), perhaps to replace a notification; serials    *)
(* are those of its own connection                                           *)
Notify(app, serial, replaces) ==
    /\ Event /\ kind = "fdo" /\ \A c \in calls : c.app # app
    /\ LET content == events + 1 IN
       /\ calls' = calls \union {[app |-> app, serial |-> serial, replaces |-> replaces,
                                  content |-> content, seen |-> filter]}
       /\ Seen([kind |-> "notify", serial |-> serial, content |-> content])
       /\ lost' = lost \union IF \E c \in calls : c.serial = serial
                                THEN {content} \union {c.content : c \in calls} ELSE {}
    /\ UNCHANGED <<kind, phase, filter, open, tableVars>>

ServerAnswers(call) ==
    /\ call \in calls /\ calls' = calls \ {call}
    /\ LET replaced == {n \in open : n.id = call.replaces}
           id == IF replaced # {} THEN call.replaces ELSE call.content IN
       /\ open' = (open \ replaced) \union
                    {[id |-> id, content |-> call.content, seen |-> call.seen /\ filter]}
       /\ lost' = lost \union {n.content : n \in replaced}
       /\ Seen([kind |-> "return", serial |-> call.serial, id |-> id])
    /\ UNCHANGED <<kind, phase, filter, tableVars, events>>

NotificationClosed(n) ==
    /\ Event /\ n \in open /\ open' = open \ {n}
    /\ Seen([kind |-> IF kind = "fdo" THEN "closed" ELSE "remove", id |-> n.id])
    /\ UNCHANGED <<kind, phase, filter, calls, tableVars, lost>>

(* org.gtk.Notifications: the application chooses the id                      *)
GtkAdd(id) ==
    /\ Event /\ kind = "gtk"
    /\ LET replaced == {n \in open : n.id = id} IN
       /\ open' = (open \ replaced) \union
                    {[id |-> id, content |-> events + 1, seen |-> filter]}
       /\ lost' = lost \union {n.content : n \in replaced}
    /\ Seen([kind |-> "add", id |-> id, content |-> events + 1])
    /\ UNCHANGED <<kind, phase, filter, calls, tableVars>>
-----------------------------------------------------------------------------
(* new_for_address_cb(), become_monitor_cb()                                  *)
InitContinues(ok) ==
    /\ phase \in {"connecting", "monitoring"}
    /\ phase' = IF ~ok THEN "failed" ELSE IF phase = "connecting" THEN "monitoring" ELSE "watching"
    /\ UNCHANGED <<kind, filter, busVars, tableVars>>

OnNameAppeared ==
    /\ phase = "watching" /\ ~filter /\ filter' = TRUE
    /\ UNCHANGED <<kind, phase, busVars, tableVars>>

(* The server is gone, and with it what was open; nothing that is listed is    *)
(* removed                                                                   *)
OnNameVanished ==
    /\ phase = "watching" /\ filter /\ filter' = FALSE
    /\ open' = {} /\ calls' = {} /\ lost' = lost \union (1..events)
    /\ UNCHANGED <<kind, phase, idle, tableVars, events>>

Destroy ==
    /\ phase # "destroyed" /\ phase' = "destroyed" /\ filter' = FALSE
    /\ UNCHANGED <<kind, busVars, tableVars>>
-----------------------------------------------------------------------------
Runs(task) == idle # <<>> /\ task = Head(idle) /\ idle' = Tail(idle)
              /\ UNCHANGED <<kind, phase, filter, calls, open, lost, events>>

(* valent_fdo_notifications_notify_main()                                     *)
NotifyMain(task) ==
    /\ Runs(task) /\ task.kind = "notify"
    /\ pending' = With(pending, task.serial, task.content)
    /\ UNCHANGED <<active, items>>

(* valent_notifications_adapter_notification_added(): one more item, whatever   *)
(* was active by its id                                                      *)
Added(id, content) ==
    /\ active' = With(active, id, content)
    /\ items' = items \union {[id |-> id, content |-> content]}

(* valent_fdo_notifications_notify_return_main()                              *)
NotifyReturnMain(task) ==
    /\ Runs(task) /\ task.kind = "return"
    /\ IF task.serial \in DOMAIN pending
         THEN /\ pending' = Without(pending, task.serial)
              /\ Added(task.id, pending[task.serial])
         ELSE UNCHANGED tableVars

(* valent_fdo_notifications_notification_closed_main(), _remove_notification()  *)
NotificationClosedMain(task) ==
    /\ Runs(task) /\ task.kind \in {"closed", "remove"}
    /\ IF task.id \in DOMAIN active
         THEN /\ active' = Without(active, task.id)
              /\ items' = items \ {[id |-> task.id, content |-> active[task.id]]}
         ELSE UNCHANGED <<active, items>>
    /\ UNCHANGED pending

(* _add_notification()                                                       *)
AddNotification(task) ==
    /\ Runs(task) /\ task.kind = "add"
    /\ Added(task.id, task.content) /\ UNCHANGED pending

MainStep ==
    /\ idle # <<>>
    /\ LET task == Head(idle) IN
       NotifyMain(task) \/ NotifyReturnMain(task) \/ NotificationClosedMain(task)
       \/ AddNotification(task)

Next ==
    \/ \E app \in App, serial \in Serial, replaces \in {0} \union {n.id : n \in open} :
         Notify(app, serial, replaces)
    \/ \E call \in calls : ServerAnswers(call)
    \/ \E n \in open : NotificationClosed(n)
    \/ \E id \in {-1, -2} : GtkAdd(id)
    \/ \E ok \in BOOLEAN : InitContinues(ok)
    \/ OnNameAppeared \/ OnNameVanished \/ Destroy
    \/ MainStep

Spec == Init /\ [][Next]_vars
-----------------------------------------------------------------------------
(* Once the main thread is done, every open notification that the monitor saw is  *)
(* listed under its id, and what is listed is open; but callers that use the same *)
(* serial at once are mixed up, and what was replaced or belongs to a server that *)
(* is gone stays listed.                                                          *)
OpenAreListed ==
    idle = <<>> /\ calls = {} /\ filter =>
      /\ \A n \in open : n.seen /\ n.content \notin lost =>
           /\ [id |-> n.id, content |-> n.content] \in items
           /\ n.id \in DOMAIN active /\ active[n.id] = n.content
      /\ \A i \in items : i.content \notin lost =>
           \E n \in open : n.id = i.id /\ n.content = i.content
=============================================================================
