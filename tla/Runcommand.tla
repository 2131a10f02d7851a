----------------------------- MODULE Runcommand -----------------------------
(***************************************************************************)
(* The runcommand plugin at both ends: each lists its commands for the     *)
(* other, runs one of them when it is asked to, and keeps the subprocesses *)
(* until they end or the device is unpaired.                               *)
(***************************************************************************)
EXTENDS PluginLink

CONSTANTS Command, MaxEvents

VARIABLES
    commands,            \* the setting of each end
    menu,                \* what each end shows of the other's commands
    watching,            \* commands_changed_id is connected
    subprocesses,        \* subprocesses: those the plugin knows
    processes,           \* those that run
    events

runVars == <<commands, menu, watching, subprocesses, processes, events>>
vars == <<linkVars, runVars>>

Init ==
    /\ LinkInit
    /\ commands \in [End -> SUBSET Command]
    /\ menu = [e \in End |-> {}] /\ watching = [e \in End |-> FALSE]
    /\ subprocesses = [e \in End |-> {}] /\ processes = [e \in End |-> {}]
    /\ events = 0
-----------------------------------------------------------------------------
Event == events < MaxEvents /\ events' = events + 1

(* valent_runcommand_plugin_send_command_list()                              *)
CommandList(set) == <<[kind |-> "list", commands |-> set]>>

(* Mutant: the list is not sent again when it changes.                       *)
EditQuiet(e, set) ==
    /\ Event /\ Room(e) /\ set # commands[e]
    /\ commands' = [commands EXCEPT ![e] = set]
    /\ UNCHANGED <<linkVars, menu, watching, subprocesses, processes>>

(* The setting is edited; on_commands_changed()                              *)
Edit(e, set) ==
    /\ Event /\ Room(e) /\ set # commands[e]
    /\ commands' = [commands EXCEPT ![e] = set]
    /\ IF watching[e] THEN Queue(e, CommandList(set)) ELSE UNCHANGED wire
    /\ UNCHANGED <<link, available, menu, watching, subprocesses, processes>>

(* runcommand_execute_action(), of an item of the menu                       *)
ExecuteAction(e, command) ==
    /\ Event /\ Room(e) /\ available[e] /\ command \in menu[e]
    /\ Queue(e, <<[kind |-> "execute", key |-> command]>>)
    /\ UNCHANGED <<link, available, commands, menu, watching, subprocesses, processes>>

(* valent_runcommand_plugin_handle_runcommand()                              *)
HandleCommandList(e) ==
    /\ Arrived(e) /\ Head(wire[e]).kind = "list" /\ Handled(e, <<>>)
    /\ menu' = [menu EXCEPT ![e] = Head(wire[e]).commands]
    /\ UNCHANGED <<link, available, commands, watching, subprocesses, processes, events>>

(* launcher_execute(): the command may not parse, or not start                *)
LauncherExecute(e, process) ==
    \/ /\ subprocesses' = [subprocesses EXCEPT ![e] = @ \union {process}]
       /\ processes' = [processes EXCEPT ![e] = @ \union {process}]
    \/ UNCHANGED <<subprocesses, processes>>

(* valent_runcommand_plugin_execute_local_command(): a command that is not    *)
(* there any more is answered with the list                                  *)
HandleRequest(e) ==
    /\ Arrived(e) /\ Head(wire[e]).kind = "execute"
    /\ IF Head(wire[e]).key \in commands[e]
         THEN Handled(e, <<>>) /\ LauncherExecute(e, <<Head(wire[e]).key, events>>)
         ELSE Handled(e, CommandList(commands[e])) /\ UNCHANGED <<subprocesses, processes>>
    /\ UNCHANGED <<link, available, commands, menu, watching, events>>

(* A process ends: launcher_watch()                                          *)
LauncherWatch(e, process) ==
    /\ process \in processes[e]
    /\ processes' = [processes EXCEPT ![e] = @ \ {process}]
    /\ subprocesses' = [subprocesses EXCEPT ![e] = @ \ {process}]
    /\ UNCHANGED <<linkVars, commands, menu, watching, events>>

(* valent_runcommand_plugin_update_state(): the list is sent with every new    *)
(* connection                                                                 *)
Appear(e) ==
    /\ Appears(e, CommandList(commands[e]))
    /\ watching' = [watching EXCEPT ![e] = TRUE]
    /\ UNCHANGED <<commands, menu, subprocesses, processes, events>>

(* Mutant: the table of processes is cleared, and they go on.                *)
LauncherClearForget(e) ==
    subprocesses' = [subprocesses EXCEPT ![e] = {}] /\ UNCHANGED processes

LauncherClear(e) ==
    /\ processes' = [processes EXCEPT ![e] = @ \ subprocesses[e]]
    /\ subprocesses' = [subprocesses EXCEPT ![e] = {}]

(* ... and of a device that was unpaired the processes are ended               *)
Vanish(e) ==
    /\ Vanishes(e) /\ LauncherClear(e)
    /\ watching' = [watching EXCEPT ![e] = FALSE]
    /\ UNCHANGED <<commands, menu, events>>

Link == (Connects \/ Breaks \/ Unpairs \/ \E e \in End : Loses(e)) /\ UNCHANGED runVars

Next ==
    \/ \E e \in End :
         \/ \E set \in SUBSET Command : Edit(e, set)
         \/ \E command \in Command : ExecuteAction(e, command)
         \/ HandleCommandList(e) \/ HandleRequest(e)
         \/ \E process \in processes[e] : LauncherWatch(e, process)
         \/ Appear(e) \/ Vanish(e)
    \/ Link

Spec == Init /\ [][Next]_vars
-----------------------------------------------------------------------------
(* Whatever was edited or asked for while the ends were apart or the packets      *)
(* crossed, each shows the other's commands once all packets have arrived.        *)
MenusAgree == Settled => \A e \in End : menu[e] = commands[Other(e)]

(* A device that was unpaired leaves no process behind that it had started, also  *)
(* not one of an earlier connection: the processes go on when the connection is    *)
(* lost, and end when the plugin is told that its device is not paired.            *)
NoneIsLeft == \A e \in End : ~available[e] => processes[e] = {}
=============================================================================
