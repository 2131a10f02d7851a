----------------------------- MODULE PluginLink -----------------------------
(***************************************************************************)
(* What a device plugin sees of its device: update_state(), the packets    *)
(* that arrive, in order, and those it queues.  Both ends run the plugin.  *)
(* It is told when its device gets the first channel and when the device is*)
(* paired or unpaired, never that the last channel is lost: that is only   *)
(* notified to who follows the property "state".  So a plugin may be told  *)
(* that it is available when it thinks it already is.  A plugin module     *)
(* EXTENDS this one and says what its handlers do.                         *)
(***************************************************************************)
EXTENDS Integers, Sequences, SequencesExt

CONSTANTS
    MaxLinks,            \* bounds how often the two ends connect
    MaxWire              \* bounds the packets on the way to one end

VARIABLES
    link,                \* up: there is a connection; count: connections so far;
                         \* paired; ends: the devices that have a channel
    available,           \* of each end: connected and paired, as the plugin was told
    wire                 \* packets on the way to each end

linkVars == <<link, available, wire>>

End == {"here", "there"}
Other(e) == CHOOSE o \in End : o # e

LinkInit ==
    /\ link = [up |-> FALSE, count |-> 0, paired |-> TRUE, ends |-> {}]
    /\ available = [e \in End |-> FALSE]
    /\ wire = [e \in End |-> <<>>]

Connected(e) == e \in link.ends
CanSend(e) == link.up /\ Connected(e)

(* valent_device_plugin_queue_packet(), of several packets in a row: without  *)
(* a connection they are lost                                                 *)
Queue(e, packets) ==
    wire' = IF CanSend(e) THEN [wire EXCEPT ![Other(e)] = @ \o packets] ELSE wire

(* The handler of a packet takes it and queues packets of its own            *)
Arrived(e) == Connected(e) /\ wire[e] # <<>>
Handled(e, packets) ==
    wire' = [wire EXCEPT ![e] = Tail(@), ![Other(e)] = IF link.up THEN @ \o packets ELSE @]

(* Space for what a user or a service makes the plugin of e send              *)
Room(e) == Len(wire[Other(e)]) < MaxWire

(* What is left of an old connection is gone before there is a new one, and   *)
(* devices that were unpaired are paired again                                *)
Connects ==
    /\ ~link.up /\ link.ends = {} /\ link.count < MaxLinks
    /\ link.paired \/ \A e \in End : ~available[e]
    /\ link' = [link EXCEPT !.up = TRUE, !.count = @ + 1, !.paired = TRUE]
    /\ UNCHANGED <<available, wire>>

(* What was not read yet is lost                                             *)
Breaks ==
    /\ link.up
    /\ link' = [link EXCEPT !.up = FALSE]
    /\ wire' = [e \in End |-> <<>>]
    /\ UNCHANGED available

(* on_channel_destroy() of the last channel: no plugin is told               *)
Loses(e) ==
    /\ ~link.up /\ Connected(e)
    /\ link' = [link EXCEPT !.ends = @ \ {e}]
    /\ UNCHANGED <<available, wire>>

(* Both users unpair while the devices are apart                             *)
Unpairs ==
    /\ link.paired /\ link.ends = {} /\ ~link.up
    /\ \E e \in End : available[e]
    /\ link' = [link EXCEPT !.paired = FALSE]
    /\ UNCHANGED <<available, wire>>

(* update_state() with the first channel: what it sends goes out at once, and *)
(* the plugin adds what changes                                               *)
Appears(e, packets) ==
    /\ link.up /\ ~Connected(e)
    /\ link' = [link EXCEPT !.ends = @ \cup {e}]
    /\ available' = [available EXCEPT ![e] = TRUE]
    /\ wire' = [wire EXCEPT ![Other(e)] = @ \o packets]

(* update_state() of a device that was unpaired                              *)
Vanishes(e) ==
    /\ ~link.paired /\ available[e]
    /\ available' = [available EXCEPT ![e] = FALSE]
    /\ UNCHANGED <<link, wire>>

(* Both ends are there, and nothing is on the way                            *)
Settled == link.up /\ \A e \in End : Connected(e) /\ wire[e] = <<>>
=============================================================================
