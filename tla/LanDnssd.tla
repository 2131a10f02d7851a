------------------------------ MODULE LanDnssd ------------------------------
(***************************************************************************)
(* ValentLanDNSSD, the client of the Avahi daemon on the system bus: it    *)
(* publishes the identity as a service in an entry group, and aggregates   *)
(* the services of other devices, which an idle source moves from a table  *)
(* to the list.  Calls are answered later and in order; a cancelled call   *)
(* has no effect.  The daemon may leave the bus at any time and come back. *)
(***************************************************************************)
EXTENDS Integers, Sequences, SequencesExt

CONSTANTS
    Name,                \* the device IDs that others publish
    Interface,           \* the network interfaces that a service is found on
    MaxEvents,           \* bounds what happens on the network and in the daemon
    MaxRestarts,         \* bounds how often the daemon leaves the bus
    MaxRenames           \* bounds how often the identity changes

VARIABLES
    object,              \* "alive" or "destroyed"
    watching,            \* watcher_id
    connection,          \* between on_name_appeared() and on_name_vanished()
    server,              \* server_state and server_state_id
    group,               \* the entry group: path (0 for none), state, subscribed
    browser,             \* service_browser_path, and the browsers subscribed to
    calls,               \* calls that the daemon has not answered
    signals,             \* emissions on their way to the client
    items, pending,      \* how often each service was announced
    idle,                \* pending_id
    identity,            \* the version of the identity that was set last
    daemon               \* the daemon: up, running, its groups, what is present

Service == Name \X Interface

clientVars == <<object, watching, connection, server, group, browser>>
listVars == <<items, pending, idle>>
vars == <<clientVars, calls, signals, listVars, identity, daemon>>

NoServer == [running |-> FALSE, subscribed |-> FALSE]
NoGroup == [path |-> 0, state |-> "uncommitted", subscribed |-> FALSE]
NoBrowser == [path |-> FALSE, events |-> 0]

Daemon(up, restarts) ==
    [up |-> up, running |-> FALSE, groups |-> 0, service |-> 0, committed |-> FALSE,
     present |-> {}, events |-> 0, restarts |-> restarts]

Init ==
    /\ object = "alive" /\ watching = TRUE /\ connection = FALSE
    /\ server = NoServer /\ group = NoGroup /\ browser = NoBrowser
    /\ calls = <<>> /\ signals = <<>>
    /\ items = [s \in Service |-> 0] /\ pending = [s \in Service |-> 0] /\ idle = FALSE
    /\ identity = 1
    /\ daemon = Daemon(FALSE, 0)

Call(name) == <<[name |-> name, version |-> 0]>>
-----------------------------------------------------------------------------
(* Calls of the client *)

EntryGroupNew(g) == IF g.path = 0 THEN Call("EntryGroupNew") ELSE <<>>

ServiceBrowserPrepare(b) == IF b.path THEN <<>> ELSE Call("ServiceBrowserPrepare")

AddService(g, version) ==
    IF g.path = 0
      THEN <<>>
      ELSE <<[name |-> IF g.state = "uncommitted" THEN "AddService" ELSE "UpdateServiceTxt",
              version |-> version]>>

Commit(g) == IF g.path # 0 /\ g.state = "uncommitted" THEN Call("Commit") ELSE <<>>

(* on_name_appeared(), whatever became of the object                        *)
NameAppeared ==
    /\ watching /\ daemon.up /\ ~connection
    /\ connection' = TRUE
    /\ calls' = Call("ServerGetState")
    /\ UNCHANGED <<object, watching, server, group, browser, signals, listVars,
                   identity, daemon>>

(* What on_name_vanished() resets: what is pending stays in its table, but  *)
(* its idle source is gone.                                                 *)
Vanish ==
    /\ connection' = FALSE
    /\ server' = NoServer /\ group' = NoGroup /\ browser' = NoBrowser
    /\ calls' = <<>> /\ signals' = <<>>
    /\ idle' = FALSE

NameVanished ==
    /\ watching /\ ~daemon.up /\ connection
    /\ Vanish
    /\ UNCHANGED <<object, watching, items, pending, identity, daemon>>

(* valent_lan_dnssd_stop() of an object that is destroyed: the name is only *)
(* unwatched while there is a connection (_avahi_client_disconnect()).      *)
Destroy ==
    /\ object = "alive"
    /\ object' = "destroyed"
    /\ IF connection
         THEN watching' = FALSE /\ Vanish
         ELSE UNCHANGED <<watching, connection, server, group, browser, calls, signals,
                          idle>>
    /\ UNCHANGED <<items, pending, identity, daemon>>

(* valent_lan_dnssd_set_identity()                                          *)
SetIdentity ==
    /\ object = "alive" /\ identity <= MaxRenames
    /\ identity' = identity + 1
    /\ calls' = calls \o AddService(group, identity')
    /\ UNCHANGED <<clientVars, signals, listVars, daemon>>
-----------------------------------------------------------------------------
(* The daemon answers the oldest call and its callback runs; what it had    *)
(* emitted before arrives before.  Of a destroyed object no more is said.   *)

Answers(name) ==
    /\ object = "alive" /\ calls # <<>> /\ Head(calls).name = name
    /\ daemon.up /\ signals = <<>>

ServerGetStateReply ==
    /\ Answers("ServerGetState")
    /\ server' = [running |-> daemon.running, subscribed |-> TRUE]
    /\ calls' = Tail(calls) \o
          (IF daemon.running THEN EntryGroupNew(group) \o ServiceBrowserPrepare(browser)
                             ELSE <<>>)
    /\ UNCHANGED <<object, watching, connection, group, browser, signals, listVars,
                   identity, daemon>>

(* A second group is left to the daemon.                                    *)
EntryGroupNewReply ==
    /\ Answers("EntryGroupNew")
    /\ daemon' = [daemon EXCEPT !.groups = @ + 1]
    /\ IF group.path = 0
         THEN /\ group' = [group EXCEPT !.path = daemon'.groups]
              /\ calls' = Append(Tail(calls), [name |-> "GroupGetState", version |-> 0])
         ELSE UNCHANGED group /\ calls' = Tail(calls)
    /\ UNCHANGED <<object, watching, connection, server, browser, signals, listVars,
                   identity>>

GroupGetStateReply ==
    LET g == [group EXCEPT !.subscribed = TRUE,
                           !.state = IF daemon.committed THEN "established" ELSE "uncommitted"]
    IN  /\ Answers("GroupGetState")
        /\ group' = g
        /\ calls' = Tail(calls) \o
              (IF g.state = "uncommitted" THEN AddService(g, identity) ELSE <<>>)
        /\ UNCHANGED <<object, watching, connection, server, browser, signals, listVars,
                       identity, daemon>>

(* _avahi_entry_group_add_service_cb(): the daemon refuses to add to a      *)
(* group that is committed.                                                 *)
AddServiceReply ==
    /\ Answers("AddService")
    /\ IF daemon.committed
         THEN UNCHANGED daemon /\ calls' = Tail(calls)
         ELSE /\ daemon' = [daemon EXCEPT !.service = Head(calls).version]
              /\ calls' = Tail(calls) \o Commit(group)
    /\ UNCHANGED <<clientVars, signals, listVars, identity>>

UpdateServiceTxtReply ==
    /\ Answers("UpdateServiceTxt")
    /\ daemon' = [daemon EXCEPT !.service = Head(calls).version]
    /\ calls' = Tail(calls)
    /\ UNCHANGED <<clientVars, signals, listVars, identity>>

CommitReply ==
    /\ Answers("Commit")
    /\ daemon' = [daemon EXCEPT !.committed = TRUE]
    /\ signals' = IF daemon.committed \/ ~group.subscribed THEN signals
                    ELSE Append(signals, [kind |-> "group", name |-> "established"])
    /\ calls' = Tail(calls)
    /\ UNCHANGED <<clientVars, listVars, identity>>

(* _avahi_service_browser_prepare_cb(): a second browser is subscribed to   *)
(* as well, although only its path is kept.                                 *)
PrepareReply ==
    /\ Answers("ServiceBrowserPrepare")
    /\ browser' = [path |-> TRUE, events |-> browser.events + 1]
    /\ calls' = Append(Tail(calls), [name |-> "BrowserStart", version |-> 0])
    /\ UNCHANGED <<object, watching, connection, server, group, signals, listVars,
                   identity, daemon>>

Emission(kind, names) == SetToSeq({[kind |-> kind, name |-> n] : n \in names})

StartReply ==
    /\ Answers("BrowserStart")
    /\ signals' = Emission("ItemNew", daemon.present)
    /\ calls' = Tail(calls)
    /\ UNCHANGED <<clientVars, listVars, identity, daemon>>
-----------------------------------------------------------------------------
(* Signals *)

Receives(kind) ==
    /\ object = "alive" /\ signals # <<>> /\ Head(signals).kind = kind
    /\ signals' = Tail(signals)

(* _avahi_server_state_changed()                                            *)
ServerStateChanged ==
    LET running == Head(signals).name = "running"
    IN  /\ Receives("server")
        /\ server' = [server EXCEPT !.running = running]
        /\ calls' = calls \o
              (IF running THEN EntryGroupNew(group) \o ServiceBrowserPrepare(browser)
                          ELSE <<>>)
        /\ UNCHANGED <<object, watching, connection, group, browser, listVars, identity,
                       daemon>>

(* _avahi_entry_group_state_changed()                                       *)
GroupStateChanged ==
    /\ Receives("group")
    /\ group' = [group EXCEPT !.state = Head(signals).name]
    /\ calls' = IF group'.state = "uncommitted" THEN calls \o Commit(group') ELSE calls
    /\ UNCHANGED <<object, watching, connection, server, browser, listVars, identity,
                   daemon>>

(* The entry of a name in the table, or in the list.                        *)
Has(table, n) == \E i \in Interface : table[<<n, i>>] > 0

(* _avahi_service_browser_event(): the idle source is only added with a new *)
(* entry of the table.                                                      *)
ItemNew ==
    LET s == Head(signals).name
    IN  /\ Receives("ItemNew")
        /\ pending' = [pending EXCEPT ![s] = @ + 1]
        /\ idle' = (idle \/ ~Has(pending, s[1]))
        /\ UNCHANGED <<clientVars, calls, items, identity, daemon>>

(* Only the list is searched, not the table.                                *)
ItemRemove ==
    LET s == Head(signals).name
    IN  /\ Receives("ItemRemove")
        /\ items' = IF items[s] > 0 THEN [items EXCEPT ![s] = @ - 1] ELSE items
        /\ UNCHANGED <<clientVars, calls, pending, idle, identity, daemon>>

(* pending_cb()                                                             *)
PendingCallback ==
    /\ object = "alive" /\ idle
    /\ items' = [s \in Service |-> items[s] + pending[s]]
    /\ pending' = [s \in Service |-> 0]
    /\ idle' = FALSE
    /\ UNCHANGED <<clientVars, calls, signals, identity, daemon>>
-----------------------------------------------------------------------------
(* The daemon and the network *)

DaemonEvent ==
    daemon.up /\ daemon.events < MaxEvents

(* The server registers its host name, again after a collision.             *)
DaemonState ==
    /\ DaemonEvent
    /\ daemon' = [daemon EXCEPT !.running = ~@, !.events = @ + 1]
    /\ signals' = IF server.subscribed
                    THEN Append(signals, [kind |-> "server",
                                          name |-> IF daemon.running THEN "registering" ELSE "running"])
                    ELSE signals
    /\ UNCHANGED <<clientVars, calls, listVars, identity>>

(* Each browser that was started reports it.                                *)
Started ==
    browser.events - Len(SelectSeq(calls, LAMBDA c : c.name = "BrowserStart"))

ServiceChanges(s) ==
    LET kind == IF s \in daemon.present THEN "ItemRemove" ELSE "ItemNew"
    IN  /\ DaemonEvent
        /\ daemon' = [daemon EXCEPT !.present = IF s \in @ THEN @ \ {s} ELSE @ \cup {s},
                                    !.events = @ + 1]
        /\ signals' = signals \o [i \in 1 .. Started |-> [kind |-> kind, name |-> s]]
        /\ UNCHANGED <<clientVars, calls, listVars, identity>>

DaemonStarts ==
    /\ ~daemon.up /\ ~connection /\ daemon.restarts <= MaxRestarts
    /\ daemon' = Daemon(TRUE, daemon.restarts)
    /\ UNCHANGED <<clientVars, calls, signals, listVars, identity>>

DaemonStops ==
    /\ daemon.up /\ daemon.restarts < MaxRestarts
    /\ daemon' = Daemon(FALSE, daemon.restarts + 1)
    /\ UNCHANGED <<clientVars, calls, signals, listVars, identity>>

Reply ==
    \/ ServerGetStateReply \/ EntryGroupNewReply \/ GroupGetStateReply
    \/ AddServiceReply \/ UpdateServiceTxtReply \/ CommitReply
    \/ PrepareReply \/ StartReply

Dispatch ==
    \/ NameAppeared \/ NameVanished
    \/ ServerStateChanged \/ GroupStateChanged \/ ItemNew \/ ItemRemove
    \/ PendingCallback

Next ==
    \/ Reply \/ Dispatch
    \/ Destroy \/ SetIdentity
    \/ DaemonState \/ DaemonStarts \/ DaemonStops
    \/ \E s \in Service : ServiceChanges(s)

Spec == Init /\ [][Next]_vars
-----------------------------------------------------------------------------
TypeOK ==
    /\ object \in {"alive", "destroyed"} /\ watching \in BOOLEAN /\ connection \in BOOLEAN
    /\ server \in [running : BOOLEAN, subscribed : BOOLEAN]
    /\ group \in [path : Nat, state : {"uncommitted", "established"}, subscribed : BOOLEAN]
    /\ browser \in [path : BOOLEAN, events : Nat]
    /\ items \in [Service -> Nat] /\ pending \in [Service -> Nat] /\ idle \in BOOLEAN

Quiet == calls = <<>> /\ signals = <<>> /\ connection /\ daemon.up /\ ~idle /\ daemon.running

(* As long as the daemon stays on the bus, no announcement of a service is  *)
(* lost between the browser, the table and the list.                        *)
PresentIsListed ==
    Quiet /\ daemon.restarts = 0 => \A s \in daemon.present : items[s] > 0

(* ... and the identity ends up published, in one group.                    *)
IdentityIsPublished == Quiet /\ object = "alive" => daemon.committed

(* What the class documents of its list: it has the services discovered.    *)
ListedIsPresent == Quiet => \A s \in Service : items[s] > 0 => s \in daemon.present

(* "Stop the DNS-SD adapter": no callback runs for a destroyed object.      *)
StoppedIsQuiet == [][object = "destroyed" => UNCHANGED <<connection, calls, server, group>>]_vars
=============================================================================
