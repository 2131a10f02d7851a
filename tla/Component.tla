----------------------------- MODULE Component -----------------------------
(***************************************************************************)
(* ValentComponent: a list of adapters, one for each plugin that is loaded *)
(* and enabled (and those that other components export), and the primary   *)
(* one: the active adapter of the lowest priority.  An adapter is a        *)
(* ValentExtension: it reports its state, and one that has to initialize   *)
(* starts inactive.                                                        *)
(***************************************************************************)
EXTENDS Integers, Sequences, SequencesExt

CONSTANTS
    Plugin,              \* the plugins that provide the component's type
    Initable,            \* those whose adapter initializes asynchronously
    Priority,            \* X-<type>Priority of each plugin
    Foreign,             \* adapters that are exported by a device plugin
    MaxAdapters,         \* bounds how many adapters a plugin makes
    MaxChanges,          \* bounds the changes of state of the adapters
    None                 \* no adapter

VARIABLES
    component,           \* "alive" or "destroyed"
    loaded,              \* plugins: those in the table of the component
    enabled,             \* the setting "enabled" of each plugin
    extension,           \* ValentPlugin.extension: its adapter, or None
    made,                \* how many adapters each plugin has made
    pluginState,         \* plugin_state of every adapter
    pendingInit,         \* initializations under way: adapter, cancelled
    items,               \* the list model
    primary,             \* primary_adapter
    changes              \* changes of state so far

vars == <<component, loaded, enabled, extension, made, pluginState, pendingInit,
          items, primary, changes>>

Adapter == Plugin \X (1..MaxAdapters)
Listable == Adapter \cup (Foreign \X {0})
State == {"active", "inactive", "error"}

Init ==
    /\ component = "alive" /\ loaded = {} /\ enabled = [p \in Plugin |-> TRUE]
    /\ extension = [p \in Plugin |-> None] /\ made = [p \in Plugin |-> 0]
    /\ pluginState = [a \in Adapter |-> "inactive"]
    /\ pendingInit = {} /\ items = <<>> /\ primary = None /\ changes = 0
-----------------------------------------------------------------------------
(* The adapters in the table, ext, that are active in the states st         *)
Active(ext, st) == {p \in Plugin : ext[p] # None /\ st[ext[p]] = "active"}

Preferred(ext, st, a) ==
    IF Active(ext, st) = {}
      THEN a = None
      ELSE \E p \in Active(ext, st) :
             a = ext[p] /\ \A q \in Active(ext, st) : Priority[p] <= Priority[q]

(* Mutant: the adapter that is primary already stays so.                    *)
UpdatePreferredSticky(ext, st) ==
    IF primary # None /\ st[primary] = "active"
      THEN UNCHANGED primary
      ELSE primary' \in {a \in Adapter \cup {None} : Preferred(ext, st, a)}

UpdatePreferred(ext, st) == primary' \in {a \in Adapter \cup {None} : Preferred(ext, st, a)}

(* valent_extension_plugin_state_changed(): the handler runs at once         *)
StateChanged(a, state) ==
    /\ pluginState' = [pluginState EXCEPT ![a] = state]
    /\ IF pluginState[a] # state \/ state = "error"
         THEN UpdatePreferred(extension, pluginState')
         ELSE UNCHANGED primary

Exported(a) == IF Contains(items, a) THEN items ELSE Append(items, a)
Unexported(a) == SelectSeq(items, LAMBDA b : b # a)

Enable(p) ==
    LET a == <<p, made[p] + 1>>
        state == IF p \in Initable THEN "inactive" ELSE "active"
    IN  /\ made[p] < MaxAdapters
        /\ made' = [made EXCEPT ![p] = @ + 1]
        /\ extension' = [extension EXCEPT ![p] = a]
        /\ pluginState' = [pluginState EXCEPT ![a] = state]
        /\ items' = Exported(a)
        /\ IF p \in Initable
             THEN /\ pendingInit' = pendingInit \cup {[adapter |-> a, cancelled |-> FALSE]}
                  /\ UNCHANGED primary
             ELSE /\ UpdatePreferred(extension', pluginState')
                  /\ UNCHANGED pendingInit

(* g_cancellable_cancel (plugin->cancellable)                               *)
CancelInit(as) ==
    pendingInit' = {[i EXCEPT !.cancelled = @ \/ i.adapter \in as] : i \in pendingInit}

(* valent_object_destroy() of the adapter of p: it is taken off the list, and *)
(* reports that it is inactive to a component that no longer has it           *)
DropAdapter(p) ==
    LET a == extension[p]
    IN  /\ extension' = [extension EXCEPT ![p] = None]
        /\ pluginState' = [pluginState EXCEPT ![a] = "inactive"]
        /\ items' = Unexported(a)
        /\ CancelInit({a})
        /\ IF primary = a \/ pluginState[a] # "inactive"
             THEN UpdatePreferred(extension', pluginState')
             ELSE UNCHANGED primary
        /\ UNCHANGED made

adapterVars == <<extension, made, pluginState, pendingInit, items, primary>>

(* on_plugin_enabled_changed(): the settings reach a plugin in the table     *)
SetEnabled(p) ==
    /\ changes < MaxChanges /\ changes' = changes + 1
    /\ enabled' = [enabled EXCEPT ![p] = ~@]
    /\ CASE p \notin loaded -> UNCHANGED adapterVars
         [] p \in loaded /\ enabled[p] -> DropAdapter(p)
         [] p \in loaded /\ ~enabled[p] -> Enable(p)
    /\ UNCHANGED <<component, loaded>>

LoadPlugin(p) ==
    /\ component = "alive" /\ p \notin loaded
    /\ loaded' = loaded \cup {p}
    /\ IF enabled[p] THEN Enable(p) ELSE UNCHANGED adapterVars
    /\ UNCHANGED <<component, enabled, changes>>

(* on_unload_plugin(): valent_plugin_free() destroys what is there           *)
UnloadPlugin(p) ==
    /\ component = "alive" /\ p \in loaded /\ changes < MaxChanges
    /\ loaded' = loaded \ {p} /\ changes' = changes + 1
    /\ IF extension[p] # None THEN DropAdapter(p) ELSE UNCHANGED adapterVars
    /\ UNCHANGED <<component, enabled>>

(* g_async_initable_init_async_cb(): the adapter has reported the result.  A  *)
(* call that was cancelled ends in an error like any other, also when the     *)
(* adapter was destroyed in the meantime                                      *)
InitDone(i) ==
    /\ i \in pendingInit
    /\ pendingInit' = pendingInit \ {i}
    /\ \E state \in IF i.cancelled THEN {"error"} ELSE {"active", "error"} :
         StateChanged(i.adapter, state)
    /\ UNCHANGED <<component, loaded, enabled, extension, made, items, changes>>

(* The service behind an adapter comes and goes                              *)
AdapterChanges(a) ==
    /\ changes < MaxChanges /\ changes' = changes + 1
    /\ a[2] \in 1..made[a[1]] /\ extension[a[1]] = a
    /\ \A i \in pendingInit : i.adapter # a
    /\ \E state \in {"active", "inactive", "error"} \ {pluginState[a]} : StateChanged(a, state)
    /\ UNCHANGED <<component, loaded, enabled, extension, made, pendingInit, items>>

ExportAdapter(f) ==
    /\ component = "alive" /\ changes < MaxChanges /\ changes' = changes + 1
    /\ items' = Exported(<<f, 0>>)
    /\ UNCHANGED <<component, loaded, enabled, extension, made, pluginState, pendingInit, primary>>

UnexportAdapter(f) ==
    /\ Contains(items, <<f, 0>>)
    /\ items' = Unexported(<<f, 0>>)
    /\ UNCHANGED <<component, loaded, enabled, extension, made, pluginState, pendingInit,
                   primary, changes>>

(* valent_component_destroy(): the table is emptied, and the adapters that   *)
(* are children of the component are destroyed with it                       *)
Destroy ==
    LET gone == {extension[p] : p \in {q \in loaded : extension[q] # None}}
    IN  /\ component = "alive" /\ component' = "destroyed"
        /\ loaded' = {} /\ extension' = [p \in Plugin |-> None]
        /\ pluginState' = [a \in Adapter |-> IF a \in gone THEN "inactive" ELSE pluginState[a]]
        /\ items' = SelectSeq(items, LAMBDA b : b \notin gone)
        /\ CancelInit(gone)
        /\ IF primary \in gone THEN primary' = None ELSE UNCHANGED primary
        /\ UNCHANGED <<enabled, made, changes>>

Next ==
    \/ \E p \in Plugin : SetEnabled(p) \/ LoadPlugin(p) \/ UnloadPlugin(p)
    \/ \E i \in pendingInit : InitDone(i)
    \/ \E a \in Adapter : AdapterChanges(a)
    \/ \E f \in Foreign : ExportAdapter(f) \/ UnexportAdapter(f)
    \/ Destroy

Spec == Init /\ [][Next]_vars
-----------------------------------------------------------------------------
TypeOK ==
    /\ component \in {"alive", "destroyed"} /\ loaded \subseteq Plugin
    /\ enabled \in [Plugin -> BOOLEAN] /\ made \in [Plugin -> 0..MaxAdapters]
    /\ extension \in [Plugin -> Adapter \cup {None}]
    /\ pluginState \in [Adapter -> State]
    /\ pendingInit \subseteq [adapter : Adapter, cancelled : BOOLEAN]
    /\ items \in Seq(Listable) /\ primary \in Adapter \cup {None}
    /\ changes \in 0..MaxChanges

(* The primary adapter is the one to prefer among those that are active now:  *)
(* never one that was destroyed, reported an error or is outranked, whatever  *)
(* the order in which plugins were loaded, initialized and disabled.           *)
PrimaryIsPreferred == Preferred(extension, pluginState, primary)

(* The list holds the adapter of each plugin that is loaded and enabled, once, *)
(* and no adapter that was destroyed.                                          *)
ListedAreLive ==
    /\ IsInjective(items)
    /\ {a \in Adapter : Contains(items, a)} = {extension[p] : p \in Plugin} \ {None}
    /\ \A p \in Plugin : (extension[p] # None) <=> (p \in loaded /\ enabled[p])

(* An initialization that goes on for an adapter that was destroyed has been   *)
(* told to stop, so that it cannot make a destroyed adapter active.            *)
AbandonedIsCancelled ==
    \A i \in pendingInit : i.cancelled \/ extension[i.adapter[1]] = i.adapter

(* An adapter that was disabled, unloaded or destroyed never becomes active.   *)
GoneIsInactive ==
    \A p \in Plugin, n \in 1..MaxAdapters :
      n <= made[p] /\ extension[p] # <<p, n>> => pluginState'[<<p, n>>] # "active"
GoneStaysInactive == [][GoneIsInactive]_vars
=============================================================================
