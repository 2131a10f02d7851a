----------------------------- MODULE DeviceSend -----------------------------
(***************************************************************************)
(* valent_device_send_packet(): packets leave through the preferred channel*)
(* and, when a write fails, the channel is destroyed and they are tried    *)
(* again on the next best.  A channel is its packet buffer, as in module   *)
(* Channel.  Destroying one fails every task it had queued; GTask calls    *)
(* back at once for the tasks of earlier iterations of the main loop, and  *)
(* from the next iteration for the rest.                                   *)
(***************************************************************************)
EXTENDS Integers, Sequences, SequencesExt, FiniteSets

CONSTANTS
    Request,             \* the calls of valent_device_send_packet()
    Cancellable,         \* those whose GCancellable may be triggered
    Channel,
    None

VARIABLES
    channels,            \* device->channels, the preferred one first
    paired,              \* device->paired
    pipe,                \* of each channel: see PipeState
    broken,              \* channels the peer no longer reads
    posted,              \* failed tasks that call back in a later iteration
    cancelled,           \* requests whose GCancellable was triggered
    result,              \* what valent_device_send_packet_finish() says
    wire                 \* the whole packets that left, in order

vars == <<channels, paired, pipe, broken, posted, cancelled, result, wire>>

PipeState ==
    [queue : Seq(Request), pending : BOOLEAN, busy : Request \cup {None},
     io : {"idle", "started", "written", "failed"}]

Idle == [queue |-> <<>>, pending |-> FALSE, busy |-> None, io |-> "idle"]

Init ==
    /\ channels \in SetToSeqs(Channel)
    /\ paired = TRUE
    /\ pipe = [c \in Channel |-> Idle]
    /\ broken = {}
    /\ posted = <<>>
    /\ cancelled = {}
    /\ result = [r \in Request |-> "new"]
    /\ wire = <<>>

-----------------------------------------------------------------------------
(* The packet buffer of one channel *)

Start(p) ==
    IF p.queue = <<>>
      THEN Idle
      ELSE [queue |-> Tail(p.queue), pending |-> TRUE, busy |-> Head(p.queue),
            io |-> "started"]

(* valent_channel_write_packet() of the requests rs, one after the other    *)
Write(p, rs) ==
    LET q == [p EXCEPT !.queue = @ \o rs]
    IN  IF p.pending \/ rs = <<>> THEN q ELSE Start(q)

Stop(p) == [p EXCEPT !.busy = None, !.io = "idle"]
-----------------------------------------------------------------------------
(* Sending *)

Send(r) ==
    /\ result[r] = "new"
    /\ CASE channels = <<>> ->
              /\ result' = [result EXCEPT ![r] = "not connected"]
              /\ UNCHANGED pipe
         [] channels # <<>> /\ ~paired ->
              /\ result' = [result EXCEPT ![r] = "denied"]
              /\ UNCHANGED pipe
         [] channels # <<>> /\ paired /\ r \in cancelled ->
              /\ result' = [result EXCEPT ![r] = "cancelled"]
              /\ UNCHANGED pipe
         [] OTHER ->
              /\ result' = [result EXCEPT ![r] = "sending"]
              /\ pipe' = [pipe EXCEPT ![Head(channels)] = Write(@, <<r>>)]
    /\ UNCHANGED <<channels, paired, broken, posted, cancelled, wire>>

(* Mutant: a failure is reported, whatever other channels there are. *)
RetryNever(rs, p, left) ==
    /\ result' = [r \in Request |->
                    CASE r \in ToSet(rs) \cap cancelled -> "cancelled"
                      [] r \in ToSet(rs) \ cancelled -> "failed"
                      [] OTHER -> result[r]]
    /\ pipe' = p

(* Those of rs that are in `kept', in their order                           *)
InOrder(rs, kept) ==
    {s \in SetToSeqs(kept) : \A i, j \in DOMAIN s : i < j =>
        \E k, l \in DOMAIN rs : k < l /\ rs[k] = s[i] /\ rs[l] = s[j]}

(* valent_device_send_packet_cb() for requests that failed, one after the   *)
(* other, with the channels that are left: one that was cancelled is over,  *)
(* the others are written to the preferred channel, or fail without one.    *)
Retry(rs, p, left) ==
    \E again \in InOrder(rs, ToSet(rs) \ cancelled) :
        /\ result' = [r \in Request |->
                        CASE r \in ToSet(rs) \cap cancelled -> "cancelled"
                          [] r \in ToSet(again) /\ left = <<>> -> "failed"
                          [] OTHER -> result[r]]
        /\ pipe' = IF left = <<>>
                     THEN p
                     ELSE [p EXCEPT ![Head(left)] = Write(@, again)]

(* channels without c                                                       *)
Without(list, c) ==
    IF \E i \in DOMAIN list : list[i] = c
      THEN RemoveAt(list, CHOOSE i \in DOMAIN list : list[i] = c)
      ELSE list

(* valent_object_destroy() of channel c: the device selects another one,    *)
(* then the buffer is drained, its oldest tasks calling back at once; the   *)
(* requests rs of the caller come after them.                               *)
Destroy(c, rs, p) ==
    LET left == Without(channels, c)
        queue == p[c].queue
    IN  \E n \in 0 .. Len(queue) :
          /\ channels' = left
          /\ Retry(SubSeq(queue, 1, n) \o rs, [p EXCEPT ![c].queue = <<>>], left)
          /\ posted' = posted \o SubSeq(queue, n + 1, Len(queue))

(* A task that failed in an earlier iteration calls back.                   *)
PostedCallback ==
    /\ posted # <<>>
    /\ Retry(<<Head(posted)>>, pipe, channels)
    /\ posted' = Tail(posted)
    /\ UNCHANGED <<channels, paired, broken, cancelled, wire>>

(* Mutant: a write that failed passes for one that succeeded. *)
WrittenCallbackBlind(c) ==
    LET r == pipe[c].busy
    IN  /\ pipe[c].io \in {"written", "failed"} /\ r \notin cancelled
        /\ pipe' = [pipe EXCEPT ![c] = Start(@)]
        /\ result' = [result EXCEPT ![r] = "ok"]
        /\ UNCHANGED <<channels, paired, broken, posted, cancelled, wire>>

(* The callbacks of a write that succeeded: the next one is started.        *)
WrittenCallback(c) ==
    LET r == pipe[c].busy
    IN  /\ pipe[c].io = "written" /\ r \notin cancelled
        /\ pipe' = [pipe EXCEPT ![c] = Start(@)]
        /\ result' = [result EXCEPT ![r] = "ok"]
        /\ UNCHANGED <<channels, paired, broken, posted, cancelled, wire>>

(* ... of one whose request was cancelled, which the GTask says of it also  *)
(* if all was written: the next one is not started.                         *)
CancelledCallback(c) ==
    LET r == pipe[c].busy
    IN  /\ pipe[c].io \in {"written", "failed"} /\ r \in cancelled
        /\ pipe' = [pipe EXCEPT ![c] = Stop(@)]
        /\ result' = [result EXCEPT ![r] = "cancelled"]
        /\ UNCHANGED <<channels, paired, broken, posted, cancelled, wire>>

(* ... and of a write that failed.                                          *)
FailedCallback(c) ==
    /\ pipe[c].io = "failed" /\ pipe[c].busy \notin cancelled
    /\ Destroy(c, <<pipe[c].busy>>, [pipe EXCEPT ![c] = Stop(@)])
    /\ UNCHANGED <<paired, broken, cancelled, wire>>

(* The device destroys a channel whose pending read failed.                 *)
ChannelLost(c) ==
    /\ c \in ToSet(channels)
    /\ Destroy(c, <<>>, pipe)
    /\ broken' = broken \cup {c}
    /\ UNCHANGED <<paired, cancelled, wire>>
-----------------------------------------------------------------------------
(* The environment *)

StreamWrites(c) ==
    /\ pipe[c].io = "started" /\ c \notin broken /\ c \in ToSet(channels)
    /\ pipe' = [pipe EXCEPT ![c].io = "written"]
    /\ wire' = Append(wire, pipe[c].busy)
    /\ UNCHANGED <<channels, paired, broken, posted, cancelled, result>>

StreamFails(c) ==
    /\ pipe[c].io = "started"
    /\ pipe[c].busy \in cancelled \/ c \in broken \/ c \notin ToSet(channels)
    /\ pipe' = [pipe EXCEPT ![c].io = "failed"]
    /\ UNCHANGED <<channels, paired, broken, posted, cancelled, result, wire>>

PeerStopsReading(c) ==
    /\ c \in ToSet(channels) \ broken
    /\ broken' = broken \cup {c}
    /\ UNCHANGED <<channels, paired, pipe, posted, cancelled, result, wire>>

Cancel(r) ==
    /\ r \in Cancellable \ cancelled
    /\ cancelled' = cancelled \cup {r}
    /\ UNCHANGED <<channels, paired, pipe, broken, posted, result, wire>>

Unpair ==
    /\ paired
    /\ paired' = FALSE
    /\ UNCHANGED <<channels, pipe, broken, posted, cancelled, result, wire>>

Callback(c) == WrittenCallback(c) \/ CancelledCallback(c) \/ FailedCallback(c)

Next ==
    \/ \E r \in Request : Send(r) \/ Cancel(r)
    \/ \E c \in Channel :
          \/ Callback(c)
          \/ StreamWrites(c) \/ StreamFails(c)
          \/ PeerStopsReading(c) \/ ChannelLost(c)
    \/ PostedCallback
    \/ Unpair

Spec == Init /\ [][Next]_vars

(* Writes end and the main loop dispatches their callbacks.                 *)
FairSpec ==
    /\ Spec
    /\ WF_vars(PostedCallback)
    /\ \A c \in Channel :
          /\ WF_vars(StreamWrites(c) \/ StreamFails(c))
          /\ WF_vars(Callback(c))
-----------------------------------------------------------------------------
TypeOK ==
    /\ channels \in Seq(Channel)
    /\ paired \in BOOLEAN
    /\ pipe \in [Channel -> PipeState]
    /\ broken \subseteq Channel
    /\ posted \in Seq(Request)
    /\ cancelled \subseteq Cancellable
    /\ result \in [Request -> {"new", "sending", "ok", "cancelled", "failed",
                               "denied", "not connected"}]
    /\ wire \in Seq(Request)

(* The lines in which a request waits for an answer: that of each channel,  *)
(* the one that is being written first, and that of the failed tasks        *)
Lines == Channel \cup {None}
Line(c) ==
    CASE c = None -> posted
      [] c # None /\ pipe[c].busy = None -> pipe[c].queue
      [] OTHER -> <<pipe[c].busy>> \o pipe[c].queue

(* A request that was not answered waits in one place, however many times   *)
(* its channel was destroyed under it; an answered one waits nowhere.       *)
NeverForgotten ==
    /\ \A c, d \in Lines : \A i \in DOMAIN Line(c), j \in DOMAIN Line(d) :
          Line(c)[i] = Line(d)[j] => c = d /\ i = j
    /\ \A r \in Request : result[r] = "sending" <=> \E c \in Lines : r \in ToSet(Line(c))

(* A packet reaches the peer once at most, through one channel, and those   *)
(* of which the caller hears that they were sent did.                       *)
DeliveredOnce ==
    /\ \A i, j \in DOMAIN wire : wire[i] = wire[j] => i = j
    /\ \A r \in Request : result[r] = "ok" => r \in ToSet(wire)

(* A packet that the device accepted only fails once there is no channel    *)
(* left to try.                                                             *)
CutOff == \A r \in Request : result[r] = "sending" /\ result'[r] = "failed" => channels' = <<>>
FailsWhenCutOff == [][CutOff]_vars

(* Every request is answered, whatever becomes of the channels, unless one  *)
(* was cancelled (which stops the buffer of its channel: see Channel).      *)
Sending(r) == result[r] = "sending"
Answered(r) == ~Sending(r) \/ cancelled # {}
EverySendAnswered == \A r \in Request : Sending(r) ~> Answered(r)
-----------------------------------------------------------------------------
(* The inductive invariant, which module MCExchanges proves                 *)

(* A buffer that is not pending writes nothing; what it wrote is on the     *)
(* wire.                                                                    *)
Stages ==
    \A c \in Channel :
        /\ ~pipe[c].pending => pipe[c].busy = None
        /\ pipe[c].busy = None <=> pipe[c].io = "idle"
        /\ pipe[c].io = "written" => pipe[c].busy \in ToSet(wire)

(* A packet that is on the wire was answered, or waits for the callback of  *)
(* the write: it is not written again.                                      *)
WireIsSent ==
    \A r \in ToSet(wire) :
        /\ result[r] # "new"
        /\ result[r] = "sending" =>
              \E c \in Channel : pipe[c].busy = r /\ pipe[c].io = "written"

Inv == TypeOK /\ NeverForgotten /\ DeliveredOnce /\ Stages /\ WireIsSent
=============================================================================
