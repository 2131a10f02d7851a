------------------------------- MODULE Channel -------------------------------
(***************************************************************************)
(* The outgoing side of a ValentChannel: the packet buffer shared by the   *)
(* threads that call valent_channel_write_packet(), the one asynchronous   *)
(* write that is in progress, and closing.  Every section of the code that *)
(* holds the object lock is one action.                                    *)
(***************************************************************************)
EXTENDS Naturals, Sequences, FiniteSets, TLAPS

CONSTANTS
    Request,             \* calls of valent_channel_write_packet()
    Cancellable,         \* those whose GCancellable may be triggered
    None

ASSUME RequestAssumption == None \notin Request /\ Cancellable \subseteq Request

VARIABLES
    buffer,              \* priv->output_buffer, the queued tasks
    pending,             \* priv->pending
    input,               \* priv->input_buffer # NULL
    stream,              \* "open" or "closed", as g_io_stream_is_closed()
    peerOpen,            \* the other end still accepts data
    writing,             \* the task given to g_output_stream_write_all_async()
    io,                  \* how that operation is doing
    cancelled,           \* requests whose GCancellable was triggered
    result,              \* what the task of each request returned
    wire                 \* what was put on the stream: the task, and if whole

vars == <<buffer, pending, input, stream, peerOpen, writing, io, cancelled,
          result, wire>>

Members(s) == {s[i] : i \in DOMAIN s}

Errors == {"cancelled", "closed", "failed"}

Init ==
    /\ buffer = <<>>
    /\ pending = FALSE
    /\ input = TRUE
    /\ stream = "open"
    /\ peerOpen = TRUE
    /\ writing = None
    /\ io = "idle"
    /\ cancelled = {}
    /\ result = [r \in Request |-> "new"]
    /\ wire = <<>>

-----------------------------------------------------------------------------
(* Mutant: closing forgets the tasks that are still queued. *)
CloseEffectNoDrain(refused) ==
    /\ result' = [r \in Request |-> IF r \in refused THEN "closed" ELSE result[r]]
    /\ stream' = "closed"
    /\ input' = FALSE
    /\ UNCHANGED buffer

(* valent_channel_close(): every queued task fails, the base stream closes. *)
(* `refused' are requests the caller answers in the same locked section.    *)
CloseEffect(refused) ==
    LET drained == IF input THEN Members(buffer) ELSE {}
    IN  /\ result' = [r \in Request |->
                        IF r \in drained \cup refused THEN "closed" ELSE result[r]]
        /\ buffer' = IF input THEN <<>> ELSE buffer
        /\ stream' = IF input THEN "closed" ELSE stream
        /\ input' = FALSE

(* Mutant: the queue is no longer pending once its last task was taken. *)
WriteNextEarlyIdle(q) ==
    IF q = <<>>
      THEN pending' = FALSE /\ buffer' = q /\ writing' = None /\ io' = "idle"
      ELSE /\ pending' = (Tail(q) # <<>>)
           /\ buffer' = Tail(q)
           /\ writing' = Head(q)
           /\ io' = "started"

(* valent_channel_write_packet_next() applied to the queue q. *)
WriteNext(q) ==
    IF q = <<>>
      THEN /\ pending' = FALSE
           /\ buffer' = q
           /\ writing' = None
           /\ io' = "idle"
      ELSE /\ pending' = TRUE
           /\ buffer' = Tail(q)
           /\ writing' = Head(q)
           /\ io' = "started"

(* Mutant: the stream is not checked, or was checked before the lock.       *)
WritePacketUnchecked(r) ==
    /\ result[r] = "new"
    /\ r \notin cancelled
    /\ result' = [result EXCEPT ![r] = "queued"]
    /\ IF pending
         THEN buffer' = Append(buffer, r) /\ UNCHANGED <<pending, writing, io>>
         ELSE WriteNext(Append(buffer, r))
    /\ UNCHANGED <<input, stream, peerOpen, cancelled, wire>>

(* Mutant: the task is pushed to the head of the queue. *)
WritePacketHead(r) ==
    /\ result[r] = "new"
    /\ r \notin cancelled
    /\ stream = "open"
    /\ result' = [result EXCEPT ![r] = "queued"]
    /\ IF pending
         THEN buffer' = <<r>> \o buffer /\ UNCHANGED <<pending, writing, io>>
         ELSE WriteNext(<<r>> \o buffer)
    /\ UNCHANGED <<input, stream, peerOpen, cancelled, wire>>

(* valent_channel_write_packet(): refused if cancelled or closed, else      *)
(* queued, and started at once if no write is pending.                      *)
WritePacket(r) ==
    /\ result[r] = "new"
    /\ \/ /\ r \in cancelled
          /\ result' = [result EXCEPT ![r] = "cancelled"]
          /\ UNCHANGED <<buffer, pending, input, stream, writing, io>>
       \/ /\ r \notin cancelled
          /\ stream = "closed"
          /\ CloseEffect({r})
          /\ UNCHANGED <<pending, writing, io>>
       \/ /\ r \notin cancelled
          /\ stream = "open"
          /\ result' = [result EXCEPT ![r] = "queued"]
          /\ IF pending
               THEN /\ buffer' = Append(buffer, r)
                    /\ UNCHANGED <<pending, writing, io>>
               ELSE WriteNext(Append(buffer, r))
          /\ UNCHANGED <<input, stream>>
    /\ UNCHANGED <<peerOpen, cancelled, wire>>

(* Mutant: the task is told how far the stream got. *)
OutcomeRaw == IF writing \in cancelled THEN "cancelled" ELSE io

(* What g_output_stream_write_all_finish() says of the write that ended: a  *)
(* GTask whose cancellable was triggered by the time it is asked reports    *)
(* G_IO_ERROR_CANCELLED, also if all was written before that.               *)
Outcome ==
    IF writing \in cancelled THEN "cancelled"
    ELSE IF io = "written" THEN "ok" ELSE "failed"

(* Mutant: the next task is started after an error as well. *)
WriteCallbackContinue ==
    /\ io \in {"written", "failed"}
    /\ WriteNext(buffer)
    /\ result' = [result EXCEPT ![writing] = Outcome]
    /\ UNCHANGED <<input, stream, peerOpen, cancelled, wire>>

(* Mutant: nobody starts the next task. *)
WriteCallbackStop ==
    /\ io \in {"written", "failed"}
    /\ result' = [result EXCEPT ![writing] = Outcome]
    /\ writing' = None
    /\ io' = "idle"
    /\ UNCHANGED <<buffer, pending, input, stream, peerOpen, cancelled, wire>>

(* g_output_stream_write_all_cb(): on success the next task is started and  *)
(* this one returns TRUE; on error, and so after a packet that was written  *)
(* whole for a task that was cancelled since, this one returns the error    *)
(* and `pending' stays set with no write in progress.                       *)
WriteCallback ==
    /\ io \in {"written", "failed"}
    /\ result' = [result EXCEPT ![writing] = Outcome]
    /\ IF Outcome = "ok"
         THEN WriteNext(buffer)
         ELSE /\ writing' = None
              /\ io' = "idle"
              /\ UNCHANGED <<buffer, pending>>
    /\ UNCHANGED <<input, stream, peerOpen, cancelled, wire>>

(* Whoever owns the channel closes it, whatever it is doing. *)
Close ==
    /\ input
    /\ CloseEffect({})
    /\ UNCHANGED <<pending, peerOpen, writing, io, cancelled, wire>>

(* A ValentDevice destroys a channel on which a write failed for another    *)
(* reason than cancellation, or whose pending read returned an error.       *)
OwnerCloses ==
    /\ \/ \E r \in Request : result[r] \in {"closed", "failed"}
       \/ ~peerOpen
       \/ stream = "closed"
    /\ Close
-----------------------------------------------------------------------------
(* The stream below, the peer and the cancellables. *)

StreamWrites ==
    /\ io = "started"
    /\ stream = "open" /\ peerOpen
    /\ wire' = Append(wire, [req |-> writing, whole |-> TRUE])
    /\ io' = "written"
    /\ UNCHANGED <<buffer, pending, input, stream, peerOpen, writing, cancelled,
                   result>>

(* The operation ends early, cancelled or on a stream that broke, before or *)
(* after some of its bytes were sent.                                       *)
StreamFails ==
    /\ io = "started"
    /\ writing \in cancelled \/ stream = "closed" \/ ~peerOpen
    /\ io' = "failed"
    /\ \/ wire' = wire
       \/ wire' = Append(wire, [req |-> writing, whole |-> FALSE])
    /\ UNCHANGED <<buffer, pending, input, stream, peerOpen, writing, cancelled,
                   result>>

(* The base stream is closed by somebody else who holds a reference to it. *)
StreamClosed ==
    /\ stream = "open"
    /\ stream' = "closed"
    /\ UNCHANGED <<buffer, pending, input, peerOpen, writing, io, cancelled,
                   result, wire>>

PeerCloses ==
    /\ peerOpen
    /\ peerOpen' = FALSE
    /\ UNCHANGED <<buffer, pending, input, stream, writing, io, cancelled,
                   result, wire>>

Cancel(r) ==
    /\ r \in Cancellable \ cancelled
    /\ cancelled' = cancelled \cup {r}
    /\ UNCHANGED <<buffer, pending, input, stream, peerOpen, writing, io,
                   result, wire>>

Next ==
    \/ \E r \in Request : WritePacket(r) \/ Cancel(r)
    \/ WriteCallback
    \/ Close
    \/ OwnerCloses
    \/ StreamWrites \/ StreamFails \/ StreamClosed
    \/ PeerCloses

Spec == Init /\ [][Next]_vars

(* An asynchronous write completes, its callback is dispatched by the main  *)
(* loop, and the device reacts to a failure.  Nothing obliges anyone to     *)
(* write, to cancel, or to close a channel that works.                      *)
Fairness ==
    /\ WF_vars(StreamWrites \/ StreamFails)
    /\ WF_vars(WriteCallback)
    /\ WF_vars(OwnerCloses)

FairSpec == Spec /\ Fairness
-----------------------------------------------------------------------------
TypeOK ==
    /\ buffer \in Seq(Request)
    /\ pending \in BOOLEAN
    /\ input \in BOOLEAN
    /\ stream \in {"open", "closed"}
    /\ peerOpen \in BOOLEAN
    /\ writing \in Request \cup {None}
    /\ io \in {"idle", "started", "written", "failed"}
    /\ cancelled \subseteq Cancellable
    /\ result \in [Request -> {"new", "queued", "ok"} \cup Errors]
    /\ wire \in Seq([req : Request, whole : BOOLEAN])

(* No lost wake-up: when no write is pending there is nothing to write, so  *)
(* that the request which finds `pending' unset is right to start itself.   *)
NoLostWakeup ==
    /\ ~pending => buffer = <<>>
    /\ writing # None => pending
    /\ (writing = None) <=> (io = "idle")

(* A task that was not answered is in exactly one place: once in the buffer *)
(* or given to the stream, never both; an answered one is in neither.       *)
OnePlace ==
    /\ \A r \in Request :
          (result[r] = "queued") <=> (r \in Members(buffer) \cup {writing})
    /\ writing \notin Members(buffer)
    /\ \A i, j \in DOMAIN buffer : buffer[i] = buffer[j] => i = j

(* A channel that was closed holds no task that nobody would answer.        *)
ClosedIsDrained == ~input => buffer = <<>>

(* Packets are lines, so a packet written after a truncated one would be    *)
(* read by the peer as one line of garbage: a truncated packet is the last  *)
(* thing on the stream.                                                     *)
NothingAfterTruncated ==
    \A i \in DOMAIN wire : ~wire[i].whole => i = Len(wire)

(* Unless a write is cancelled every accepted request is answered.          *)
AnsweredUnlessCancelled ==
    \A r \in Request :
        (result[r] = "queued") ~> (result[r] # "queued" \/ cancelled # {})

(* What the documentation of valent_channel_write_packet() promises to      *)
(* concurrent requests: every accepted one is answered.                     *)
EveryRequestAnswered ==
    \A r \in Request : (result[r] = "queued") ~> (result[r] # "queued")

(* Closing unblocks everybody: once the channel is closed every accepted    *)
(* request is answered, whatever happened to it before.                     *)
CloseAnswersAll ==
    (~input) ~> (\A r \in Request : result[r] # "queued")
-----------------------------------------------------------------------------
(* The channel implements the pipe its users rely on.                       *)
Truncated == \E i \in DOMAIN wire : ~wire[i].whole

(* Only the last packet can have been truncated.                            *)
PipeSent ==
    [i \in 1 .. (IF Truncated THEN Len(wire) - 1 ELSE Len(wire)) |-> wire[i].req]

PipeWaiting ==
    IF writing # None /\ io # "written" THEN <<writing>> \o buffer ELSE buffer

PipeAnswer ==
    [r \in Request |-> IF result[r] \in {"new", "queued"} THEN "none" ELSE result[r]]

Pipe == INSTANCE PacketPipe WITH
            waiting <- PipeWaiting,
            sent <- PipeSent,
            broken <- Truncated,
            answer <- PipeAnswer

(* The buffer is a PacketPipe: first in, first out; a packet is said to be  *)
(* sent only when it was, and to have failed only when it was not; of one   *)
(* whose request was cancelled nothing is said.                             *)
ImplementsPipe == Pipe!Spec

-----------------------------------------------------------------------------
(***************************************************************************)
(* Safety of the packet buffer for any number of requests, any of them     *)
(* cancellable.  Inv is inductive: it adds to the invariants that TLC      *)
(* checks the reason why each of them holds.                               *)
(***************************************************************************)

(* A closed channel also has a closed stream, so that nothing is queued.    *)
CloseInv == ~input => buffer = <<>> /\ stream = "closed"

(* A packet can only have been truncated by a write that failed; `pending'  *)
(* then stays set for good and no other write is started.                   *)
TruncatedInv ==
    Truncated => pending /\ io \in {"idle", "failed"}

(* The tasks in the buffer and the one being written are distinct and       *)
(* unanswered.                                                              *)
PlaceInv ==
    /\ \A i \in DOMAIN buffer : result[buffer[i]] = "queued" /\ buffer[i] # writing
    /\ writing # None => result[writing] = "queued"
    /\ \A i, j \in DOMAIN buffer : buffer[i] = buffer[j] => i = j

Inv == TypeOK /\ NoLostWakeup /\ CloseInv /\ TruncatedInv
         /\ NothingAfterTruncated /\ PlaceInv
-----------------------------------------------------------------------------
(* Appending to a sequence and taking its first element off.                *)
LEMMA AppendFacts ==
    ASSUME NEW S, NEW s \in Seq(S), NEW e \in S
    PROVE  /\ Append(s, e) \in Seq(S)
           /\ DOMAIN Append(s, e) = 1 .. (Len(s) + 1)
           /\ \A i \in DOMAIN s : Append(s, e)[i] = s[i]
           /\ Append(s, e)[Len(s) + 1] = e
           /\ Append(s, e) # <<>>
  OBVIOUS

LEMMA PopFacts ==
    ASSUME NEW S, NEW s \in Seq(S), s # <<>>
    PROVE  /\ Head(s) \in S /\ Head(s) = s[1]
           /\ 1 \in DOMAIN s
           /\ Tail(s) \in Seq(S)
           /\ \A i \in DOMAIN Tail(s) : i + 1 \in DOMAIN s /\ Tail(s)[i] = s[i + 1]
  OBVIOUS
-----------------------------------------------------------------------------
(* Starting the next write of a queue of distinct unanswered tasks.         *)
LEMMA WriteNextInv ==
    ASSUME TypeOK,
           NEW q \in Seq(Request),
           \A i, j \in DOMAIN q : q[i] = q[j] => i = j,
           WriteNext(q)
    PROVE  /\ buffer' \in Seq(Request)
           /\ pending' \in BOOLEAN
           /\ writing' \in Request \cup {None}
           /\ io' \in {"idle", "started"}
           /\ NoLostWakeup'
           /\ q = <<>> => buffer' = <<>>
           /\ \A i \in DOMAIN buffer' : \E j \in DOMAIN q : buffer'[i] = q[j]
           /\ writing' # None => \E j \in DOMAIN q : writing' = q[j]
           /\ \A i \in DOMAIN buffer' : buffer'[i] # writing'
           /\ \A i, j \in DOMAIN buffer' : buffer'[i] = buffer'[j] => i = j
  <1>1. CASE q = <<>>
    <2>1. pending' = FALSE /\ buffer' = <<>> /\ writing' = None /\ io' = "idle"
      BY <1>1 DEF WriteNext
    <2>2. DOMAIN buffer' = {}
      BY <2>1
    <2>3. NoLostWakeup'
      BY <2>1 DEF NoLostWakeup
    <2>4. buffer' \in Seq(Request)
      BY <2>1
    <2>5. /\ \A i \in DOMAIN buffer' : \E j \in DOMAIN q : buffer'[i] = q[j]
          /\ \A i \in DOMAIN buffer' : buffer'[i] # writing'
          /\ \A i, j \in DOMAIN buffer' : buffer'[i] = buffer'[j] => i = j
      BY <2>2, Zenon
    <2> QED
      BY <2>1, <2>3, <2>4, <2>5, Zenon
  <1>2. CASE q # <<>>
    <2>1. /\ Head(q) \in Request /\ Head(q) = q[1]
          /\ 1 \in DOMAIN q
          /\ Tail(q) \in Seq(Request)
          /\ \A i \in DOMAIN Tail(q) : i + 1 \in DOMAIN q /\ Tail(q)[i] = q[i + 1]
      BY <1>2, PopFacts
    <2>2. pending' = TRUE /\ buffer' = Tail(q) /\ writing' = Head(q) /\ io' = "started"
      BY <1>2 DEF WriteNext
    <2>3. \A i \in DOMAIN Tail(q) : i \in Nat /\ i # 0
      BY <2>1
    <2>4. \A i \in DOMAIN buffer' : buffer'[i] # writing'
      BY <2>1, <2>2, <2>3
    <2>5. \A i, j \in DOMAIN buffer' : buffer'[i] = buffer'[j] => i = j
      <3> SUFFICES ASSUME NEW i \in DOMAIN Tail(q), NEW j \in DOMAIN Tail(q),
                          Tail(q)[i] = Tail(q)[j]
                   PROVE  i = j
        BY <2>2
      <3>1. i + 1 = j + 1
        BY <2>1
      <3> QED
        BY <3>1, <2>3
    <2>6. writing' # None
      BY <2>1, <2>2, RequestAssumption
    <2> QED
      BY <1>2, <2>1, <2>2, <2>4, <2>5, <2>6 DEF NoLostWakeup
  <1> QED
    BY <1>1, <1>2

THEOREM InitInv == Init => Inv
  <1> SUFFICES ASSUME Init PROVE Inv
    OBVIOUS
  <1> USE DEF Init
  <1>1. DOMAIN buffer = {} /\ DOMAIN wire = {}
    OBVIOUS
  <1>2. TypeOK
    <2>1. wire \in Seq([req : Request, whole : BOOLEAN]) /\ buffer \in Seq(Request)
      OBVIOUS
    <2>2. result \in [Request -> {"new", "queued", "ok"} \cup Errors]
      OBVIOUS
    <2>3. writing \in Request \cup {None} /\ cancelled \subseteq Cancellable
      OBVIOUS
    <2> QED
      BY <2>1, <2>2, <2>3 DEF TypeOK
  <1>3. NoLostWakeup /\ CloseInv
    BY DEF NoLostWakeup, CloseInv
  <1>4. TruncatedInv /\ NothingAfterTruncated /\ PlaceInv
    BY <1>1 DEF TruncatedInv, Truncated, NothingAfterTruncated, PlaceInv
  <1> QED
    BY <1>2, <1>3, <1>4 DEF Inv
-----------------------------------------------------------------------------
(* valent_channel_close() keeps the invariant; the tasks it refuses besides *)
(* those in the buffer were not accepted.                                   *)
LEMMA CloseEffectInv ==
    ASSUME Inv, NEW refused \in SUBSET Request,
           \A r \in refused : result[r] = "new",
           CloseEffect(refused),
           UNCHANGED <<pending, peerOpen, writing, io, cancelled, wire>>
    PROVE  Inv'
  <1> USE DEF Inv
  <1>1. buffer' = <<>> /\ stream' = "closed" /\ input' = FALSE /\ DOMAIN buffer' = {}
    BY DEF CloseEffect, CloseInv
  <1>2. /\ result' \in [Request -> {"new", "queued", "ok"} \cup Errors]
        /\ \A r \in Request : r \notin Members(buffer) /\ r \notin refused
                              => result'[r] = result[r]
    BY DEF CloseEffect, TypeOK, Errors
  <1>3. TypeOK'
    <2>1. <<>> \in Seq(Request)
      OBVIOUS
    <2>2. buffer' \in Seq(Request)
      BY <1>1, <2>1, Zenon
    <2>3. input' \in BOOLEAN /\ stream' \in {"open", "closed"}
      BY <1>1
    <2> QED
      BY <2>2, <2>3, <1>2 DEF TypeOK
  <1>4. NoLostWakeup' /\ CloseInv'
    BY <1>1 DEF NoLostWakeup, CloseInv
  <1>5. TruncatedInv' /\ NothingAfterTruncated'
    BY DEF TruncatedInv, Truncated, NothingAfterTruncated
  <1>6. writing # None => writing \in Request /\ writing \notin Members(buffer) /\ writing \notin refused
    BY DEF TypeOK, PlaceInv, Members
  <1>7. PlaceInv'
    BY <1>1, <1>2, <1>6 DEF PlaceInv
  <1> QED
    BY <1>3, <1>4, <1>5, <1>7

(* Starting the next write of the queue q leaves an invariant state, when   *)
(* the tasks of q are distinct and unanswered after the step.               *)
LEMMA StartInv ==
    ASSUME Inv, NEW q \in Seq(Request),
           \A i, j \in DOMAIN q : q[i] = q[j] => i = j,
           \A i \in DOMAIN q : result'[q[i]] = "queued",
           result' \in [Request -> {"new", "queued", "ok"} \cup Errors],
           \A i \in DOMAIN wire : wire[i].whole,
           ~input => q = <<>>,
           WriteNext(q),
           UNCHANGED <<input, stream, peerOpen, cancelled, wire>>
    PROVE  Inv'
  <1> USE DEF Inv
  <1>1. /\ buffer' \in Seq(Request)
        /\ pending' \in BOOLEAN
        /\ writing' \in Request \cup {None}
        /\ io' \in {"idle", "started"}
        /\ NoLostWakeup'
        /\ q = <<>> => buffer' = <<>>
        /\ \A i \in DOMAIN buffer' : \E j \in DOMAIN q : buffer'[i] = q[j]
        /\ writing' # None => \E j \in DOMAIN q : writing' = q[j]
        /\ \A i \in DOMAIN buffer' : buffer'[i] # writing'
        /\ \A i, j \in DOMAIN buffer' : buffer'[i] = buffer'[j] => i = j
    BY WriteNextInv
  <1>2. TypeOK'
    BY <1>1 DEF TypeOK
  <1>3. CloseInv'
    BY <1>1 DEF CloseInv
  <1>4. TruncatedInv' /\ NothingAfterTruncated'
    BY DEF TruncatedInv, Truncated, NothingAfterTruncated
  <1>5. PlaceInv'
    <2>1. \A i \in DOMAIN buffer' : result'[buffer'[i]] = "queued" /\ buffer'[i] # writing'
      BY <1>1
    <2>2. writing' # None => result'[writing'] = "queued"
      BY <1>1
    <2> QED
      BY <1>1, <2>1, <2>2 DEF PlaceInv
  <1> QED
    BY <1>1, <1>2, <1>3, <1>4, <1>5

(* A new request joins a queue of other, unanswered requests.               *)
LEMMA AppendDistinct ==
    ASSUME Inv, NEW r \in Request, result[r] = "new"
    PROVE  /\ Append(buffer, r) \in Seq(Request)
           /\ \A i \in DOMAIN Append(buffer, r) :
                 \/ i \in DOMAIN buffer /\ Append(buffer, r)[i] = buffer[i] /\ buffer[i] # r
                 \/ i = Len(buffer) + 1 /\ Append(buffer, r)[i] = r
           /\ \A i, j \in DOMAIN Append(buffer, r) :
                 Append(buffer, r)[i] = Append(buffer, r)[j] => i = j
           /\ r # writing
  <1> USE DEF Inv
  <1>1. buffer \in Seq(Request)
    BY DEF TypeOK
  <1>2. /\ Append(buffer, r) \in Seq(Request)
        /\ DOMAIN Append(buffer, r) = 1 .. (Len(buffer) + 1)
        /\ \A i \in DOMAIN buffer : Append(buffer, r)[i] = buffer[i]
        /\ Append(buffer, r)[Len(buffer) + 1] = r
    BY <1>1, AppendFacts
  <1>3. DOMAIN buffer = 1 .. Len(buffer) /\ Len(buffer) \in Nat
    BY <1>1
  <1>4. \A i \in DOMAIN buffer : buffer[i] # r
    BY DEF PlaceInv
  <1>5. r # writing
    BY RequestAssumption DEF PlaceInv
  <1>6. \A i \in DOMAIN Append(buffer, r) :
           \/ i \in DOMAIN buffer /\ Append(buffer, r)[i] = buffer[i] /\ buffer[i] # r
           \/ i = Len(buffer) + 1 /\ Append(buffer, r)[i] = r
    BY <1>2, <1>3, <1>4
  <1>7. \A i, j \in DOMAIN Append(buffer, r) :
           Append(buffer, r)[i] = Append(buffer, r)[j] => i = j
    BY <1>6 DEF PlaceInv
  <1> QED
    BY <1>2, <1>5, <1>6, <1>7
-----------------------------------------------------------------------------
THEOREM StepInv == Inv /\ [Next]_vars => Inv'
  <1> SUFFICES ASSUME Inv, [Next]_vars PROVE Inv'
    OBVIOUS
  <1> USE DEF Inv
  <1>1. ASSUME NEW r \in Request, WritePacket(r) PROVE Inv'
    <2> USE <1>1 DEF WritePacket
    <2>1. CASE r \in cancelled
      <3>1. /\ result' = [result EXCEPT ![r] = "cancelled"]
            /\ UNCHANGED <<buffer, pending, input, stream, peerOpen, writing, io,
                           cancelled, wire>>
        BY <2>1
      <3>2. TypeOK'
        BY <3>1 DEF TypeOK, Errors
      <3>3. PlaceInv'
        BY <3>1 DEF PlaceInv, TypeOK
      <3> QED
        BY <3>1, <3>2, <3>3
        DEF NoLostWakeup, CloseInv, TruncatedInv, Truncated, NothingAfterTruncated
    <2>2. CASE r \notin cancelled /\ stream = "closed"
      <3>1. CloseEffect({r})
        BY <2>2
      <3> QED
        BY <2>2, <3>1, CloseEffectInv
    <2>3. CASE r \notin cancelled /\ stream = "open"
      <3> DEFINE q == Append(buffer, r)
      <3>1. /\ q \in Seq(Request)
            /\ \A i \in DOMAIN q :
                  \/ i \in DOMAIN buffer /\ q[i] = buffer[i] /\ buffer[i] # r
                  \/ i = Len(buffer) + 1 /\ q[i] = r
            /\ \A i, j \in DOMAIN q : q[i] = q[j] => i = j
            /\ r # writing
        <4>1. result[r] = "new"
          OBVIOUS
        <4> QED
          BY <4>1, AppendDistinct
      <3>2. /\ result' = [result EXCEPT ![r] = "queued"]
            /\ UNCHANGED <<input, stream, peerOpen, cancelled, wire>>
        BY <2>3
      <3>3. result' \in [Request -> {"new", "queued", "ok"} \cup Errors]
        BY <3>2 DEF TypeOK
      <3>4. \A i \in DOMAIN q : result'[q[i]] = "queued"
        BY <3>1, <3>2 DEF PlaceInv, TypeOK
      <3>5. input
        BY <2>3 DEF CloseInv, TypeOK
      <3>6. CASE pending
        <4>1. buffer' = q /\ UNCHANGED <<pending, writing, io>>
          BY <2>3, <3>6
        <4>2. TypeOK'
          BY <3>1, <3>2, <3>3, <4>1 DEF TypeOK
        <4>3. PlaceInv'
          BY <3>1, <3>2, <3>4, <4>1 DEF PlaceInv, TypeOK
        <4>4. NoLostWakeup' /\ CloseInv'
          BY <3>2, <3>5, <3>6, <4>1 DEF NoLostWakeup, CloseInv
        <4> QED
          BY <3>2, <4>1, <4>2, <4>3, <4>4 DEF TruncatedInv, Truncated, NothingAfterTruncated
      <3>7. CASE ~pending
        <4>1. WriteNext(q)
          BY <2>3, <3>7
        <4>2. \A i \in DOMAIN wire : wire[i].whole
          BY <3>7 DEF TruncatedInv, Truncated
        <4> HIDE DEF q
        <4> QED
          BY <3>1, <3>2, <3>3, <3>4, <3>5, <4>1, <4>2, StartInv
      <3> QED
        BY <3>6, <3>7
    <2> QED
      BY <2>1, <2>2, <2>3
  <1>2. CASE WriteCallback
    <2> USE <1>2 DEF WriteCallback
    <2>1. writing \in Request /\ result[writing] = "queued"
      BY DEF NoLostWakeup, PlaceInv, TypeOK
    <2>2. \A i \in DOMAIN buffer : buffer[i] # writing /\ buffer[i] \in Request
      BY DEF PlaceInv, TypeOK
    <2>3. CASE Outcome = "ok"
      <3>1. /\ result' = [result EXCEPT ![writing] = "ok"]
            /\ WriteNext(buffer)
            /\ UNCHANGED <<input, stream, peerOpen, cancelled, wire>>
        BY <2>3
      <3> io = "written"
        BY <2>3 DEF Outcome
      <3>2. result' \in [Request -> {"new", "queued", "ok"} \cup Errors]
        BY <3>1 DEF TypeOK
      <3>3. \A i \in DOMAIN buffer : result'[buffer[i]] = "queued"
        BY <2>2, <3>1 DEF PlaceInv, TypeOK
      <3>4. \A i \in DOMAIN wire : wire[i].whole
        BY DEF TruncatedInv, Truncated
      <3>5. /\ buffer \in Seq(Request)
            /\ \A i, j \in DOMAIN buffer : buffer[i] = buffer[j] => i = j
            /\ ~input => buffer = <<>>
        BY DEF TypeOK, PlaceInv, CloseInv
      <3> QED
        BY <3>1, <3>2, <3>3, <3>4, <3>5, StartInv
    <2>4. CASE Outcome # "ok"
      <3>1. /\ result' = [result EXCEPT ![writing] = Outcome]
            /\ writing' = None /\ io' = "idle"
            /\ UNCHANGED <<buffer, pending, input, stream, peerOpen, cancelled, wire>>
        BY <2>4
      <3>2. TypeOK'
        <4>1. Outcome \in Errors
          BY <2>4 DEF Outcome, Errors
        <4> QED
          BY <3>1, <4>1 DEF TypeOK
      <3>3. NoLostWakeup' /\ CloseInv'
        BY <3>1 DEF NoLostWakeup, CloseInv
      <3>4. TruncatedInv' /\ NothingAfterTruncated'
        BY <2>1, <3>1, RequestAssumption
        DEF TruncatedInv, Truncated, NothingAfterTruncated, NoLostWakeup
      <3>5. PlaceInv'
        BY <2>2, <3>1, RequestAssumption DEF PlaceInv, TypeOK
      <3> QED
        BY <3>2, <3>3, <3>4, <3>5
    <2> QED
      BY <2>3, <2>4
  <1>3. CASE Close \/ OwnerCloses
    BY <1>3, CloseEffectInv DEF Close, OwnerCloses
  <1>4. CASE StreamWrites
    <2> USE <1>4 DEF StreamWrites
    <2>1. writing \in Request
      BY DEF NoLostWakeup, TypeOK
    <2>2. /\ wire' \in Seq([req : Request, whole : BOOLEAN])
          /\ \A i \in DOMAIN wire' : wire'[i].whole
      BY <2>1 DEF TypeOK, TruncatedInv, Truncated
    <2>3. TypeOK'
      BY <2>2 DEF TypeOK
    <2> QED
      BY <2>2, <2>3
      DEF NoLostWakeup, CloseInv, TruncatedInv, Truncated, NothingAfterTruncated, PlaceInv
  <1>5. CASE StreamFails
    <2> USE <1>5 DEF StreamFails
    <2> DEFINE Entry == [req : Request, whole : BOOLEAN]
               p == [req |-> writing, whole |-> FALSE]
    <2>1. writing \in Request /\ pending
      BY DEF NoLostWakeup, TypeOK
    <2>2. wire \in Seq(Entry) /\ p \in Entry
      BY <2>1 DEF TypeOK
    <2>3. \A i \in DOMAIN wire : wire[i].whole
      BY DEF TruncatedInv, Truncated
    <2>4. /\ wire' \in Seq(Entry)
          /\ NothingAfterTruncated'
      <3>1. CASE wire' = wire
        BY <2>2, <3>1 DEF NothingAfterTruncated
      <3>2. CASE wire' = Append(wire, p)
        <4> HIDE DEF p, Entry
        <4>1. /\ wire' \in Seq(Entry)
              /\ DOMAIN wire' = 1 .. (Len(wire) + 1)
              /\ \A i \in DOMAIN wire : wire'[i] = wire[i]
          BY <2>2, <3>2, AppendFacts
        <4>2. DOMAIN wire = 1 .. Len(wire) /\ Len(wire) \in Nat
          BY <2>2
        <4>3. Len(wire') = Len(wire) + 1
          BY <4>1, <4>2
        <4> QED
          BY <2>3, <4>1, <4>2, <4>3 DEF NothingAfterTruncated
      <3> QED
        BY <3>1, <3>2
    <2>5. TypeOK'
      BY <2>4 DEF TypeOK
    <2> QED
      BY <2>1, <2>4, <2>5 DEF NoLostWakeup, CloseInv, TruncatedInv, Truncated, PlaceInv
  <1>6. CASE StreamClosed \/ PeerCloses \/ \E r \in Request : Cancel(r)
    <2>1. /\ UNCHANGED <<buffer, pending, input, writing, io, result, wire>>
          /\ stream' \in {stream, "closed"}
          /\ peerOpen' \in BOOLEAN
          /\ cancelled' \subseteq Cancellable
      BY <1>6 DEF StreamClosed, PeerCloses, Cancel, TypeOK
    <2>2. TypeOK'
      BY <2>1 DEF TypeOK
    <2> QED
      BY <2>1, <2>2
      DEF NoLostWakeup, CloseInv, TruncatedInv, Truncated, NothingAfterTruncated, PlaceInv
  <1>7. CASE UNCHANGED vars
    BY <1>7 DEF vars, TypeOK, NoLostWakeup, CloseInv, TruncatedInv, Truncated,
                NothingAfterTruncated, PlaceInv
  <1> QED
    BY <1>1, <1>2, <1>3, <1>4, <1>5, <1>6, <1>7 DEF Next

THEOREM Invariance == Spec => []Inv
  BY InitInv, StepInv, PTL DEF Spec

(* Every variable of the channel keeps its type.                            *)
THEOREM TypeCorrect == Spec => []TypeOK
  BY Invariance, PTL DEF Inv

(* No wake-up is lost: a writer that finds no write pending finds an empty  *)
(* buffer and an idle stream, however the writers, the main loop and the    *)
(* calls of valent_channel_close() interleave.                              *)
THEOREM WakeupSafe == Spec => []NoLostWakeup
  BY Invariance, PTL DEF Inv

(* A closed channel keeps no task in its buffer.                            *)
THEOREM CloseDrains == Spec => []ClosedIsDrained
  <1>1. Inv => ClosedIsDrained
    BY DEF Inv, CloseInv, ClosedIsDrained
  <1> QED
    BY <1>1, Invariance, PTL

(* Nothing follows a truncated packet on the stream: the error path of      *)
(* g_output_stream_write_all_cb(), which starts no other write, is what     *)
(* guarantees it.                                                           *)
THEOREM StreamStaysReadable == Spec => []NothingAfterTruncated
  BY Invariance, PTL DEF Inv
-----------------------------------------------------------------------------
(* The refinement.  A packet that left whole was accepted, and answered     *)
(* "ok", or "cancelled", unless its callback is still due; so none that     *)
(* waits, or that is refused for another reason, was sent.                  *)
SentInv ==
    /\ \A i \in DOMAIN wire : wire[i].whole =>
          \/ result[wire[i].req] \in {"ok", "cancelled"}
          \/ io = "written" /\ wire[i].req = writing
    /\ io = "written" => \E i \in DOMAIN wire : wire[i].whole /\ wire[i].req = writing

(* What a step does to the wire and to what is being written.               *)
LEMMA SentStep == Inv /\ SentInv /\ [Next]_vars => SentInv'
  <1> SUFFICES ASSUME Inv, SentInv, [Next]_vars PROVE SentInv'
    OBVIOUS
  <1>1. TypeOK /\ NoLostWakeup /\ PlaceInv /\ wire \in Seq([req : Request, whole : BOOLEAN])
    BY DEF Inv, TypeOK
  <1>2. \A i \in DOMAIN wire : wire[i].req \in Request
    <2> DEFINE Entry == [req : Request, whole : BOOLEAN]
    <2>1. \A e \in Entry : e.req \in Request
      OBVIOUS
    <2> HIDE DEF Entry
    <2>2. wire \in Seq(Entry)
      BY <1>1 DEF Entry
    <2> QED
      BY <2>1, <2>2
  \* a step that answers only requests that are not answered, and writes nothing
  <1>3. ASSUME UNCHANGED wire, io' = "written" <=> io = "written",
               io = "written" => writing' = writing,
               \A r \in Request : result[r] \in {"ok", "cancelled"} => result'[r] = result[r]
        PROVE  SentInv'
    BY <1>2, <1>3 DEF SentInv
  <1>4. ASSUME NEW r \in Request, WritePacket(r) PROVE SentInv'
    <2>1. result[r] = "new" /\ UNCHANGED wire
      BY <1>4 DEF WritePacket
    <2>2. io = "written" => pending
      BY <1>1 DEF NoLostWakeup
    <2>3. CASE r \in cancelled
      BY <1>1, <1>3, <1>4, <2>1, <2>3 DEF WritePacket, TypeOK
    <2>4. CASE r \notin cancelled /\ stream = "closed"
      <3>1. CloseEffect({r}) /\ UNCHANGED <<writing, io>>
        BY <1>4, <2>4 DEF WritePacket
      <3>2. \A q \in Request : result[q] \in {"ok", "cancelled"} => q \notin Members(buffer) \cup {r}
        BY <1>1, <2>1 DEF PlaceInv, Members
      <3>3. \A q \in Request : result[q] \in {"ok", "cancelled"} => result'[q] = result[q]
        BY <3>1, <3>2 DEF CloseEffect
      <3> QED
        BY <1>3, <2>1, <3>1, <3>3
    <2>5. CASE r \notin cancelled /\ stream = "open"
      <3>1. \A q \in Request : result[q] \in {"ok", "cancelled"} => result'[q] = result[q]
        BY <1>1, <1>4, <2>1, <2>5 DEF WritePacket, TypeOK
      <3>2. (io' = "written" <=> io = "written") /\ (io = "written" => writing' = writing)
        BY <1>4, <2>2, <2>5 DEF WritePacket, WriteNext
      <3> QED
        BY <1>3, <2>1, <3>1, <3>2
    <2> QED
      BY <1>1, <2>3, <2>4, <2>5 DEF TypeOK
  <1>5. CASE WriteCallback
    <2>1. UNCHANGED wire /\ io' # "written"
      BY <1>5 DEF WriteCallback, WriteNext
    <2>2. writing \in Request
      BY <1>1, <1>5 DEF WriteCallback, NoLostWakeup, TypeOK
    <2>3. result' = [result EXCEPT ![writing] = Outcome] /\ result[writing] = "queued"
      BY <1>1, <1>5, <2>2, RequestAssumption DEF WriteCallback, PlaceInv
    <2>4. io = "written" => Outcome \in {"ok", "cancelled"}
      BY DEF Outcome
    <2> QED
      BY <1>1, <1>2, <2>1, <2>2, <2>3, <2>4 DEF SentInv, TypeOK
  <1>6. CASE Close \/ OwnerCloses
    <2>1. CloseEffect({}) /\ UNCHANGED <<wire, io, writing>>
      BY <1>6 DEF Close, OwnerCloses
    <2>2. \A q \in Request : result[q] \in {"ok", "cancelled"} => q \notin Members(buffer)
      BY <1>1 DEF PlaceInv, Members
    <2>3. \A q \in Request : result[q] \in {"ok", "cancelled"} => result'[q] = result[q]
      BY <2>1, <2>2 DEF CloseEffect
    <2> QED
      BY <1>3, <2>1, <2>3
  <1>7. CASE StreamWrites \/ StreamFails
    <2>1. PICK whole \in BOOLEAN :
            /\ wire' = wire \/ wire' = Append(wire, [req |-> writing, whole |-> whole])
            /\ io = "started" /\ UNCHANGED <<result, writing>>
            /\ whole <=> io' = "written"
            /\ whole => wire' = Append(wire, [req |-> writing, whole |-> whole])
      BY <1>7 DEF StreamWrites, StreamFails
    <2>2. writing \in Request
      BY <1>1, <2>1 DEF NoLostWakeup, TypeOK
    <2> DEFINE p == [req |-> writing, whole |-> whole]
    <2>3. p \in [req : Request, whole : BOOLEAN] /\ p.req = writing /\ p.whole = whole
      BY <2>2
    <2>4. CASE wire' = wire
      BY <1>2, <2>1, <2>4, <2>3 DEF SentInv
    <2>5. CASE wire' = Append(wire, p)
      <3> HIDE DEF p
      <3>1. /\ DOMAIN wire' = 1 .. Len(wire) + 1 /\ DOMAIN wire = 1 .. Len(wire)
            /\ \A i \in DOMAIN wire : wire'[i] = wire[i]
            /\ wire'[Len(wire) + 1] = p /\ Len(wire) \in Nat
        BY <1>1, <2>3, <2>5, AppendFacts
      <3> QED
        BY <2>1, <2>3, <3>1 DEF SentInv
    <2> QED
      BY <2>1, <2>4, <2>5 DEF p
  <1>8. CASE StreamClosed \/ PeerCloses \/ (\E r \in Request : Cancel(r)) \/ UNCHANGED vars
    BY <1>3, <1>8 DEF StreamClosed, PeerCloses, Cancel, vars
  <1> QED
    BY <1>4, <1>5, <1>6, <1>7, <1>8 DEF Next

(* Sequences, as the pipe sees them.                                        *)
LEMMA RestFacts ==
  ASSUME NEW S, NEW s \in Seq(S), NEW R
  PROVE  /\ (\A i \in DOMAIN s : s[i] \notin R) => Pipe!IsRest(s, s, R)
         /\ (\A i \in DOMAIN s : s[i] \in R) => Pipe!IsRest(<<>>, s, R)
         /\ \A e \in S : (\A i \in DOMAIN s : s[i] \notin R) /\ e \in R
                          => Pipe!IsRest(s, <<e>> \o s, R)
         /\ \A e \in S : (\A i \in DOMAIN s : s[i] \in R) /\ e \notin R
                          => Pipe!IsRest(<<e>>, <<e>> \o s, R)
  <1> USE DEF Pipe!IsRest
  <1>1. DOMAIN s = 1 .. Len(s) /\ Len(s) \in Nat
    OBVIOUS
  <1>2. ASSUME \A i \in DOMAIN s : s[i] \notin R PROVE Pipe!IsRest(s, s, R)
    <2> DEFINE place == [i \in DOMAIN s |-> i]
    <2>1. /\ place \in [DOMAIN s -> DOMAIN s]
          /\ \A i, j \in DOMAIN s : i < j => place[i] < place[j]
          /\ \A i \in DOMAIN s : s[i] = s[place[i]]
      OBVIOUS
    <2>2. {place[i] : i \in DOMAIN s} = {i \in DOMAIN s : s[i] \notin R}
      BY <1>2
    <2> QED
      BY <2>1, <2>2
  <1>3. ASSUME \A i \in DOMAIN s : s[i] \in R PROVE Pipe!IsRest(<<>>, s, R)
    <2> DEFINE place == [i \in {} |-> i]
    <2>1. DOMAIN <<>> = {}
      OBVIOUS
    <2>2. place \in [{} -> DOMAIN s]
      OBVIOUS
    <2>3. {place[i] : i \in {}} = {i \in DOMAIN s : s[i] \notin R}
      BY <1>3
    <2> QED
      BY <2>1, <2>2, <2>3
  <1>4. ASSUME NEW e \in S, \A i \in DOMAIN s : s[i] \notin R, e \in R
        PROVE  Pipe!IsRest(s, <<e>> \o s, R)
    <2> DEFINE t == <<e>> \o s
               place == [i \in DOMAIN s |-> i + 1]
    <2>1. /\ DOMAIN t = 1 .. Len(s) + 1 /\ t[1] = e
          /\ \A i \in DOMAIN s : t[i + 1] = s[i]
      BY <1>1
    <2> HIDE DEF t
    <2>2. /\ place \in [DOMAIN s -> DOMAIN t]
          /\ \A i, j \in DOMAIN s : i < j => place[i] < place[j]
          /\ \A i \in DOMAIN s : s[i] = t[place[i]]
      BY <1>1, <2>1
    <2>3. {place[i] : i \in DOMAIN s} = {i \in DOMAIN t : t[i] \notin R}
      <3>1. \A k \in DOMAIN t : t[k] \notin R => k - 1 \in DOMAIN s /\ place[k - 1] = k
        BY <1>1, <1>4, <2>1
      <3>2. \A i \in DOMAIN s : place[i] \in DOMAIN t /\ t[place[i]] \notin R
        BY <1>1, <1>4, <2>1
      <3> QED
        BY <3>1, <3>2
    <2>4. Pipe!IsRest(s, t, R)
      BY <2>2, <2>3
    <2> QED
      BY <2>4 DEF t
  <1>5. ASSUME NEW e \in S, \A i \in DOMAIN s : s[i] \in R, e \notin R
        PROVE  Pipe!IsRest(<<e>>, <<e>> \o s, R)
    <2> DEFINE t == <<e>> \o s
               one == <<e>>
               place == [i \in {1} |-> 1]
    <2>1. /\ DOMAIN t = 1 .. Len(s) + 1 /\ t[1] = e
          /\ \A i \in DOMAIN s : t[i + 1] = s[i]
          /\ DOMAIN one = {1} /\ one[1] = e
      BY <1>1
    <2> HIDE DEF t, one
    <2>2. /\ place \in [DOMAIN one -> DOMAIN t]
          /\ \A i, j \in DOMAIN one : i < j => place[i] < place[j]
          /\ \A i \in DOMAIN one : one[i] = t[place[i]]
      BY <1>1, <2>1
    <2>3. {place[i] : i \in DOMAIN one} = {i \in DOMAIN t : t[i] \notin R}
      <3>1. \A k \in DOMAIN t : k # 1 => k - 1 \in DOMAIN s /\ t[k] = s[k - 1]
        BY <1>1, <2>1
      <3>2. \A k \in DOMAIN t : t[k] \notin R <=> k = 1
        BY <1>1, <1>5, <2>1, <3>1
      <3>3. {place[i] : i \in DOMAIN one} = {1}
        BY <2>1
      <3> QED
        BY <1>1, <2>1, <3>2, <3>3
    <2>4. Pipe!IsRest(one, t, R)
      BY <2>2, <2>3
    <2> QED
      BY <2>4 DEF t, one
  <1> QED
    BY <1>2, <1>3, <1>4, <1>5

(* What the line is made of, whether a task is being written or not.        *)
LEMMA LineFacts ==
  ASSUME Inv
  PROVE  /\ PipeWaiting \in Seq(Request)
         /\ \A i \in DOMAIN PipeWaiting : result[PipeWaiting[i]] = "queued"
         /\ PipeWaiting = IF writing # None /\ io # "written" THEN <<writing>> \o buffer ELSE buffer
  <1>1. buffer \in Seq(Request) /\ writing \in Request \cup {None} /\ PlaceInv
    BY DEF Inv, TypeOK
  <1>2. CASE writing # None /\ io # "written"
    <2> DEFINE t == <<writing>> \o buffer
    <2>1. PipeWaiting = t
      BY <1>2 DEF PipeWaiting
    <2>2. /\ t \in Seq(Request) /\ DOMAIN t = 1 .. Len(buffer) + 1 /\ t[1] = writing
          /\ \A i \in DOMAIN t : i # 1 => i - 1 \in DOMAIN buffer /\ t[i] = buffer[i - 1]
      BY <1>1, <1>2
    <2> HIDE DEF t
    <2>3. \A i \in DOMAIN t : result[t[i]] = "queued"
      BY <1>1, <1>2, <2>2 DEF PlaceInv
    <2> QED
      BY <2>1, <2>2, <2>3, <1>2 DEF t
  <1>3. CASE ~(writing # None /\ io # "written")
    BY <1>1, <1>3 DEF PipeWaiting, PlaceInv
  <1> QED
    BY <1>2, <1>3

(* A request that was not answered was not sent, but for the one whose      *)
(* callback is due.                                                         *)
LEMMA SentFacts ==
  ASSUME Inv, SentInv, NEW r \in Request, result[r] \notin {"ok", "cancelled"},
         ~(io = "written" /\ r = writing)
  PROVE  r \notin Pipe!Members(PipeSent)
  <1>1. wire \in Seq([req : Request, whole : BOOLEAN])
    BY DEF Inv, TypeOK
  <1>2. DOMAIN wire = 1 .. Len(wire) /\ Len(wire) \in Nat
    BY <1>1
  <1>3. ASSUME NEW i \in DOMAIN PipeSent PROVE i \in DOMAIN wire /\ wire[i].whole /\ PipeSent[i] = wire[i].req
    BY <1>2, <1>3 DEF PipeSent, Truncated, Inv, NothingAfterTruncated
  <1>4. \A i \in DOMAIN PipeSent : PipeSent[i] # r
    BY <1>3 DEF SentInv
  <1> QED
    BY <1>4 DEF Pipe!Members

(* Requests that are refused, of those that were not answered.              *)
LEMMA RefuseStep ==
  ASSUME Inv, SentInv, Inv', UNCHANGED wire, NEW R \in SUBSET Request,
         \A r \in R : /\ result[r] \in {"new", "queued"} /\ result'[r] \in Errors
                      /\ ~(io = "written" /\ r = writing),
         \A r \in Request \ R : PipeAnswer'[r] = PipeAnswer[r],
         Pipe!IsRest(PipeWaiting', PipeWaiting, R),
         R = {} => PipeWaiting' = PipeWaiting
  PROVE  [Pipe!Next]_<<PipeWaiting, PipeSent, Truncated, PipeAnswer>>
  <1>1. PipeSent' = PipeSent /\ Truncated' = Truncated
    BY DEF PipeSent, Truncated
  <1>2. PipeWaiting' \in Seq(Request)
    <2>1. buffer' \in Seq(Request) /\ writing' \in Request \cup {None}
      BY DEF Inv, TypeOK
    <2>2. writing' # None => <<writing'>> \o buffer' \in Seq(Request)
      BY <2>1
    <2> QED
      BY <2>1, <2>2 DEF PipeWaiting
  <1>3. PipeAnswer \in [Request -> {PipeAnswer[r] : r \in Request}] /\ DOMAIN PipeAnswer' = Request
        /\ PipeAnswer' = [r \in Request |-> PipeAnswer'[r]]
    BY DEF PipeAnswer
  <1>4. CASE R = {}
    <2>1. PipeAnswer' = PipeAnswer
      BY <1>3, <1>4
    <2> QED
      BY <1>1, <1>4, <2>1
  <1>5. CASE R # {}
    <2> DEFINE e == [r \in R |-> result'[r]]
    <2>1. e \in [R -> Pipe!Errors]
      BY DEF Pipe!Errors, Errors
    <2>2. \A r \in R : PipeAnswer'[r] = e[r]
      BY DEF PipeAnswer, Errors
    <2>3. PipeAnswer' = [r \in Request |-> IF r \in R THEN e[r] ELSE PipeAnswer[r]]
      <3> HIDE DEF e
      <3> QED
        BY <1>3, <2>2
    <2>4. \A r \in R : PipeAnswer[r] = "none" /\ r \notin Pipe!Members(PipeSent)
      BY SentFacts DEF PipeAnswer
    <2> HIDE DEF e
    <2>5. Pipe!Refuse(R)
      BY <1>1, <1>2, <1>5, <2>1, <2>3, <2>4 DEF Pipe!Refuse
    <2> QED
      BY <2>5 DEF Pipe!Next
  <1> QED
    BY <1>4, <1>5

(* Every step is one of the pipe, or changes nothing that its users see.    *)
LEMMA PipeStep ==
  Inv /\ Inv' /\ SentInv /\ [Next]_vars
      => [Pipe!Next]_<<PipeWaiting, PipeSent, Truncated, PipeAnswer>>
  <1> DEFINE Step == [Pipe!Next]_<<PipeWaiting, PipeSent, Truncated, PipeAnswer>>
  <1> SUFFICES ASSUME Inv, Inv', SentInv, [Next]_vars PROVE Step
    OBVIOUS
  <1>1. /\ TypeOK /\ NoLostWakeup /\ PlaceInv /\ TruncatedInv
        /\ buffer \in Seq(Request) /\ writing \in Request \cup {None}
        /\ result \in [Request -> {"new", "queued", "ok"} \cup Errors]
        /\ \A i \in DOMAIN buffer : buffer[i] \in Request
    BY DEF Inv, TypeOK
  <1>2. /\ PipeWaiting \in Seq(Request)
        /\ \A i \in DOMAIN PipeWaiting : result[PipeWaiting[i]] = "queued"
    BY LineFacts
  <1>3. ASSUME UNCHANGED <<wire, PipeWaiting, PipeAnswer>> PROVE Step
    BY <1>3 DEF PipeSent, Truncated
  \* closing refuses what is in the buffer, and no more than that was new
  <1>4. ASSUME NEW more \in SUBSET Request, \A r \in more : result[r] = "new",
               CloseEffect(more), UNCHANGED <<writing, io, wire>>
        PROVE  Step
    <2> DEFINE R == (IF input THEN Members(buffer) ELSE {}) \cup more
    <2>1. /\ R \in SUBSET Request
          /\ \A r \in R : result[r] \in {"new", "queued"} /\ r # writing
      BY <1>1, <1>4, RequestAssumption DEF Members, PlaceInv
    <2>2. /\ result' = [r \in Request |-> IF r \in R THEN "closed" ELSE result[r]]
          /\ buffer' = IF input THEN <<>> ELSE buffer
      BY <1>4 DEF CloseEffect
    <2>3. input => \A i \in DOMAIN buffer : buffer[i] \in R
      BY DEF Members
    <2>4. ~input => buffer = <<>>
      BY DEF Inv, CloseInv
    <2> HIDE DEF R
    <2>5. buffer' = <<>> /\ \A i \in DOMAIN buffer : buffer[i] \in R
      BY <2>2, <2>3, <2>4
    <2>6. Pipe!IsRest(PipeWaiting', PipeWaiting, R)
      <3>1. CASE writing # None /\ io # "written"
        <4>1. PipeWaiting = <<writing>> \o buffer /\ PipeWaiting' = <<writing>>
          BY <1>1, <1>4, <2>5, <3>1 DEF PipeWaiting
        <4>2. writing \in Request /\ writing \notin R
          BY <1>1, <2>1, <3>1
        <4> QED
          BY <1>1, <2>5, <4>1, <4>2, RestFacts
      <3>2. CASE ~(writing # None /\ io # "written")
        <4>1. PipeWaiting = buffer /\ PipeWaiting' = <<>>
          BY <1>4, <2>5, <3>2 DEF PipeWaiting
        <4> QED
          BY <1>1, <2>5, <4>1, RestFacts
      <3> QED
        BY <3>1, <3>2
    <2>7. R = {} => PipeWaiting' = PipeWaiting
      <3>1. R = {} => buffer' = buffer
        <4> SUFFICES ASSUME R = {} PROVE buffer = <<>>
          BY <2>5
        <4>1. DOMAIN buffer = {}
          BY <2>5
        <4>2. DOMAIN buffer = 1 .. Len(buffer) /\ Len(buffer) \in Nat
          BY <1>1
        <4>3. Len(buffer) = 0
          BY <4>1, <4>2
        <4> QED
          BY <1>1, <4>3
      <3> QED
        BY <1>4, <3>1 DEF PipeWaiting
    <2>8. \A r \in R : result'[r] \in Errors
      BY <2>1, <2>2 DEF Errors
    <2>9. \A r \in Request \ R : PipeAnswer'[r] = PipeAnswer[r]
      BY <2>2 DEF PipeAnswer
    <2> QED
      BY <1>4, <2>1, <2>6, <2>7, <2>8, <2>9, RefuseStep
  <1>5. ASSUME NEW r \in Request, WritePacket(r) PROVE Step
    <2>1. result[r] = "new" /\ UNCHANGED wire
      BY <1>5 DEF WritePacket
    <2>2. r # writing /\ \A i \in DOMAIN PipeWaiting : PipeWaiting[i] # r
      BY <1>1, <1>2, <2>1, RequestAssumption DEF PlaceInv
    <2>3. CASE r \in cancelled
      <3>1. result' = [result EXCEPT ![r] = "cancelled"] /\ UNCHANGED <<buffer, writing, io>>
        BY <1>1, <1>5, <2>3 DEF WritePacket, TypeOK
      <3>2. PipeWaiting' = PipeWaiting
        BY <3>1 DEF PipeWaiting
      <3>3. Pipe!IsRest(PipeWaiting, PipeWaiting, {r})
        BY <1>2, <2>2, RestFacts
      <3>4. result'[r] \in Errors /\ \A q \in Request \ {r} : PipeAnswer'[q] = PipeAnswer[q]
        BY <1>1, <3>1 DEF Errors, PipeAnswer
      <3> QED
        BY <2>1, <2>2, <3>2, <3>3, <3>4, RefuseStep
    <2>4. CASE r \notin cancelled /\ stream = "closed"
      <3>1. CloseEffect({r}) /\ UNCHANGED <<writing, io>>
        BY <1>5, <2>4 DEF WritePacket
      <3> QED
        BY <1>4, <2>1, <3>1
    <2>5. CASE r \notin cancelled /\ stream = "open"
      <3>1. PipeWaiting' = Append(PipeWaiting, r)
        <4>1. CASE pending
          <5>1. buffer' = Append(buffer, r) /\ UNCHANGED <<writing, io>>
            BY <1>5, <2>5, <4>1 DEF WritePacket
          <5>2. writing # None => <<writing>> \o Append(buffer, r) = Append(<<writing>> \o buffer, r)
            BY <1>1
          <5> QED
            BY <5>1, <5>2 DEF PipeWaiting
        <4>2. CASE ~pending
          <5>1. buffer = <<>> /\ writing = None
            BY <1>1, <4>2 DEF NoLostWakeup
          <5>2. WriteNext(<<r>>)
            BY <1>5, <2>5, <4>2, <5>1 DEF WritePacket
          <5>3. buffer' = <<>> /\ writing' = r /\ io' = "started"
            BY <5>2 DEF WriteNext
          <5>4. PipeWaiting = <<>> /\ PipeWaiting' = <<r>>
            BY <5>1, <5>3, RequestAssumption DEF PipeWaiting
          <5> QED
            BY <5>4
        <4> QED
          BY <1>1, <4>1, <4>2 DEF TypeOK
      <3>2. result' = [result EXCEPT ![r] = "queued"]
        BY <1>5, <2>5 DEF WritePacket
      <3>3. PipeAnswer' = PipeAnswer /\ PipeAnswer[r] = "none"
        BY <1>1, <2>1, <3>2 DEF PipeAnswer
      <3>4. r \notin Pipe!Members(PipeWaiting) \cup Pipe!Members(PipeSent)
        BY <2>1, <2>2, SentFacts DEF Pipe!Members
      <3>5. Pipe!Accept(r)
        BY <2>1, <3>1, <3>3, <3>4 DEF Pipe!Accept, PipeSent, Truncated
      <3> QED
        BY <3>5 DEF Pipe!Next
    <2> QED
      BY <1>1, <2>3, <2>4, <2>5 DEF TypeOK
  <1>6. CASE WriteCallback
    <2>1. /\ UNCHANGED wire /\ io \in {"written", "failed"}
          /\ writing \in Request /\ result[writing] = "queued"
      BY <1>1, <1>6, RequestAssumption DEF WriteCallback, NoLostWakeup, PlaceInv
    <2>2. CASE io = "written"
      <3>1. result' = [result EXCEPT ![writing] = Outcome] /\ Outcome \in {"ok", "cancelled"}
        BY <1>6, <2>2 DEF WriteCallback, Outcome
      <3>2. PipeWaiting' = buffer /\ PipeWaiting = buffer
        <4>1. PipeWaiting = buffer
          BY <2>2 DEF PipeWaiting
        <4>2. CASE Outcome # "ok" \/ buffer = <<>>
          <5>1. writing' = None /\ buffer' = buffer
            BY <1>6, <2>1, <4>2 DEF WriteCallback, WriteNext
          <5> QED
            BY <4>1, <5>1 DEF PipeWaiting
        <4>3. CASE Outcome = "ok" /\ buffer # <<>>
          <5>1. buffer' = Tail(buffer) /\ writing' = Head(buffer) /\ io' = "started"
            BY <1>6, <4>3 DEF WriteCallback, WriteNext
          <5>2. Head(buffer) \in Request /\ <<Head(buffer)>> \o Tail(buffer) = buffer
            BY <1>1, <4>3
          <5> QED
            BY <4>1, <5>1, <5>2, RequestAssumption DEF PipeWaiting
        <4> QED
          BY <4>2, <4>3
      <3>3. writing \in Pipe!Members(PipeSent)
        <4>1. PICK i \in DOMAIN wire : wire[i].whole /\ wire[i].req = writing
          BY <2>2 DEF SentInv
        <4>2. ~Truncated
          BY <1>1, <2>2 DEF TruncatedInv
        <4>3. i \in DOMAIN PipeSent /\ PipeSent[i] = writing
          <5>1. DOMAIN wire = 1 .. Len(wire)
            BY DEF Inv, TypeOK
          <5> QED
            BY <4>1, <4>2, <5>1 DEF PipeSent
        <4> QED
          BY <4>3 DEF Pipe!Members
      <3>4. PipeAnswer' = [PipeAnswer EXCEPT ![writing] = Outcome] /\ PipeAnswer[writing] = "none"
        BY <1>1, <2>1, <3>1 DEF PipeAnswer
      <3>5. Pipe!Confirm(writing)
        BY <2>1, <3>1, <3>2, <3>3, <3>4 DEF Pipe!Confirm, PipeSent, Truncated
      <3> QED
        BY <2>1, <3>5 DEF Pipe!Next
    <2>3. CASE io # "written"
      <3>1. /\ result' = [result EXCEPT ![writing] = Outcome]
            /\ Outcome \in {"cancelled", "failed"}
            /\ writing' = None /\ UNCHANGED buffer
        BY <1>6, <2>3 DEF WriteCallback, Outcome
      <3>2. PipeWaiting = <<writing>> \o buffer /\ PipeWaiting' = buffer
        BY <2>1, <2>3, <3>1, RequestAssumption DEF PipeWaiting
      <3>3. \A i \in DOMAIN buffer : buffer[i] \notin {writing}
        BY <1>1 DEF PlaceInv
      <3>4. Pipe!IsRest(PipeWaiting', PipeWaiting, {writing})
        BY <1>1, <2>1, <3>2, <3>3, RestFacts
      <3>5. result'[writing] \in Errors /\ \A q \in Request \ {writing} : PipeAnswer'[q] = PipeAnswer[q]
        BY <1>1, <2>1, <3>1 DEF Errors, PipeAnswer
      <3> QED
        BY <2>1, <2>3, <3>4, <3>5, RefuseStep
    <2> QED
      BY <2>2, <2>3
  <1>7. CASE Close \/ OwnerCloses
    <2>1. CloseEffect({}) /\ UNCHANGED <<writing, io, wire>>
      BY <1>7 DEF Close, OwnerCloses
    <2> QED
      BY <1>4, <2>1
  <1>8. CASE StreamWrites
    <2> DEFINE p == [req |-> writing, whole |-> TRUE]
    <2>1. /\ io = "started" /\ io' = "written" /\ wire' = Append(wire, p)
          /\ UNCHANGED <<buffer, writing, result>> /\ writing \in Request
      BY <1>1, <1>8 DEF StreamWrites, NoLostWakeup
    <2>2. PipeWaiting = <<writing>> \o buffer /\ PipeWaiting' = buffer
      BY <2>1, RequestAssumption DEF PipeWaiting
    <2>3. PipeWaiting # <<>> /\ Head(PipeWaiting) = writing /\ Tail(PipeWaiting) = buffer
      BY <1>1, <2>1, <2>2
    <2>4. wire \in Seq([req : Request, whole : BOOLEAN]) /\ p \in [req : Request, whole : BOOLEAN]
          /\ p.req = writing /\ p.whole
      BY <2>1 DEF Inv, TypeOK
    <2> HIDE DEF p
    <2>5. /\ DOMAIN wire' = 1 .. Len(wire) + 1 /\ DOMAIN wire = 1 .. Len(wire)
          /\ \A i \in DOMAIN wire : wire'[i] = wire[i]
          /\ wire'[Len(wire) + 1] = p /\ Len(wire) \in Nat /\ Len(wire') = Len(wire) + 1
      BY <2>1, <2>4, AppendFacts
    <2>6. ~Truncated /\ ~Truncated'
      <3>1. ~Truncated
        BY <1>1, <2>1 DEF TruncatedInv
      <3> QED
        BY <2>4, <2>5, <3>1 DEF Truncated
    <2>7. PipeSent' = Append(PipeSent, writing)
      <3>1. PipeSent = [i \in 1 .. Len(wire) |-> wire[i].req]
        BY <2>6 DEF PipeSent
      <3>2. PipeSent' = [i \in 1 .. Len(wire) + 1 |-> wire'[i].req]
        BY <2>5, <2>6 DEF PipeSent
      <3>3. \A i \in DOMAIN wire : wire[i].req \in Request
        <4> DEFINE Entry == [req : Request, whole : BOOLEAN]
        <4>1. wire \in Seq(Entry)
          BY <2>4
        <4>2. \A w \in Entry : w.req \in Request
          OBVIOUS
        <4> HIDE DEF Entry
        <4>3. \A i \in DOMAIN wire : wire[i] \in Entry
          BY <4>1
        <4> QED
          BY <4>2, <4>3
      <3>4. PipeSent \in Seq(Request)
        BY <2>5, <3>1, <3>3
      <3>5. Len(PipeSent) = Len(wire) /\ DOMAIN PipeSent = 1 .. Len(wire)
        BY <2>5, <3>1
      <3> HIDE DEF PipeSent
      <3>6. \A i \in DOMAIN PipeSent : PipeSent[i] = wire[i].req /\ wire'[i] = wire[i]
        BY <2>5, <3>1, <3>5
      <3> DEFINE both == Append(PipeSent, writing)
      <3>7. both \in Seq(Request) /\ DOMAIN both = 1 .. Len(wire) + 1 /\ Len(both) = Len(wire) + 1
            /\ (\A i \in 1 .. Len(wire) : both[i] = wire'[i].req) /\ both[Len(wire) + 1] = writing
        BY <2>1, <2>5, <3>4, <3>5, <3>6, AppendFacts
      <3> HIDE DEF both
      <3>8. both = [i \in 1 .. Len(both) |-> both[i]]
        BY <3>7
      <3>9. \A i \in 1 .. Len(wire) + 1 : both[i] = wire'[i].req
        <4> SUFFICES ASSUME NEW i \in 1 .. Len(wire) + 1 PROVE both[i] = wire'[i].req
          OBVIOUS
        <4>1. CASE i = Len(wire) + 1
          BY <2>4, <2>5, <3>7, <4>1
        <4>2. CASE i \in 1 .. Len(wire)
          BY <3>7, <4>2
        <4> QED
          BY <2>5, <4>1, <4>2
      <3>10. both = PipeSent'
        BY <3>2, <3>7, <3>8, <3>9
      <3> QED
        BY <3>10 DEF both
    <2>8. Pipe!Send
      <3>1. PipeAnswer' = PipeAnswer
        BY <2>1 DEF PipeAnswer
      <3>2. Truncated' = Truncated
        BY <2>6 DEF Truncated
      <3> HIDE DEF PipeSent
      <3> QED
        BY <2>2, <2>3, <2>6, <2>7, <3>1, <3>2 DEF Pipe!Send
    <2> QED
      BY <2>8 DEF Pipe!Next
  <1>9. CASE StreamFails
    <2> DEFINE p == [req |-> writing, whole |-> FALSE]
    <2>1. /\ io = "started"
          /\ io' # "written"
          /\ wire' \in {wire, Append(wire, p)}
          /\ UNCHANGED <<buffer, writing, result>> /\ writing \in Request
      BY <1>1, <1>9 DEF StreamFails, NoLostWakeup
    <2>2. UNCHANGED <<PipeWaiting, PipeAnswer>> /\ PipeWaiting = <<writing>> \o buffer
      BY <2>1, RequestAssumption DEF PipeWaiting, PipeAnswer
    <2>3. CASE wire' = wire
      BY <1>3, <2>2, <2>3
    <2>4. CASE wire' = Append(wire, p)
      <3>1. wire \in Seq([req : Request, whole : BOOLEAN]) /\ p \in [req : Request, whole : BOOLEAN]
            /\ ~p.whole
        BY <2>1 DEF Inv, TypeOK
      <3> HIDE DEF p
      <3>2. /\ DOMAIN wire' = 1 .. Len(wire) + 1 /\ DOMAIN wire = 1 .. Len(wire)
            /\ \A i \in DOMAIN wire : wire'[i] = wire[i]
            /\ wire'[Len(wire) + 1] = p /\ Len(wire) \in Nat /\ Len(wire') = Len(wire) + 1
        BY <2>4, <3>1, AppendFacts
      <3>3. ~Truncated /\ Truncated'
        <4>1. ~Truncated
          BY <1>1, <2>1 DEF TruncatedInv
        <4> QED
          BY <3>1, <3>2, <4>1 DEF Truncated
      <3>4. PipeSent' = PipeSent
        BY <3>2, <3>3 DEF PipeSent
      <3>5. PipeWaiting # <<>>
        BY <1>1, <2>1, <2>2
      <3>6. Pipe!Interrupt
        BY <2>2, <3>3, <3>4, <3>5 DEF Pipe!Interrupt
      <3> QED
        BY <3>6 DEF Pipe!Next
    <2> QED
      BY <2>1, <2>3, <2>4
  <1>10. CASE StreamClosed \/ PeerCloses \/ (\E r \in Request : Cancel(r)) \/ UNCHANGED vars
    BY <1>3, <1>10 DEF StreamClosed, PeerCloses, Cancel, vars, PipeWaiting, PipeAnswer
  <1> QED
    BY <1>5, <1>6, <1>7, <1>8, <1>9, <1>10 DEF Next

(* The buffer is a pipe: for any number of requests of any number of        *)
(* threads, packets leave in the order in which they were accepted; "ok" is *)
(* said only of a packet that was sent, "failed" and "closed" only of one    *)
(* that was not, and a request that is told it was cancelled may have been  *)
(* sent.                                                                    *)
THEOREM BufferIsPipe == Spec => ImplementsPipe
  <1>1. Init => Pipe!Init
    BY DEF Init, Pipe!Init, PipeWaiting, PipeSent, Truncated, PipeAnswer
  <1>2. Init => SentInv
    BY DEF Init, SentInv
  <1> QED
    BY <1>1, <1>2, InitInv, StepInv, SentStep, PipeStep, PTL
    DEF Spec, ImplementsPipe, Pipe!Spec, Pipe!pipeVars
=============================================================================
