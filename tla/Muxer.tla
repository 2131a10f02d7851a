------------------------------- MODULE Muxer -------------------------------
(***************************************************************************)
(* A ValentBluezMuxer at either end of a Bluetooth connection, and one     *)
(* channel multiplexed over it: the primary one, which both ends create in *)
(* their handshake, or that of a payload, which one end opens and the      *)
(* other accepts.  At each end a receive thread, a reader, a writer and    *)
(* whoever closes share the object lock, which is held while a message is  *)
(* sent, and the channel's mutex, whose sections are single actions here.  *)
(***************************************************************************)
EXTENDS Integers, SequencesExt, WellFoundedInduction, TLAPS

CONSTANTS
    End,                 \* the two ends
    Openers,             \* who may open it: None stands for the primary channel
    Size,                \* buffer_size
    Writers,             \* the ends that write
    MaxBytes,            \* how many bytes each of them writes
    Capacity,            \* messages that fit in one direction of the socket
    MaxStops,            \* bounds the calls that close and the writes cut short
    None

ASSUME EndAssumption == \E a, b \in End : a # b /\ End = {a, b}
ASSUME OpenerAssumption == Openers \subseteq End \cup {None}
ASSUME SizeAssumption == Size \in Nat \ {0}
ASSUME WriterAssumption == Writers \subseteq End /\ MaxBytes \in Nat
ASSUME BoundAssumption == Capacity \in Nat \ {0} /\ MaxStops \in Nat

Thread == {"reader", "writer", "closer"}
Total == [e \in End |-> IF e \in Writers THEN MaxBytes ELSE 0]

VARIABLES
    opener,              \* the end that opens the channel, or None
    ch,                  \* the ChannelState of each end
    lock,                \* the thread that holds the object lock, or None
    pc, todo,            \* what each thread does, and has to send
    loop, hand,          \* the receive thread, and the message it reads
    link,                \* the messages on their way to each end
    base,                \* base_stream: "open" or "closed"
    version,             \* protocol_version
    next,                \* how many bytes the writer took from its caller
    got,                 \* the bytes that the reader returned
    closes, cuts,        \* how many of each there were
    before               \* history: bytes sent when MESSAGE_CLOSE_CHANNEL was

vars == <<opener, ch, lock, pc, todo, loop, hand, link, base, version, next, got,
          closes, cuts, before>>

recvVars == <<opener, loop, hand, version>>
history == <<closes, cuts, before>>

Other(e) == CHOOSE d \in End : d # e

Stops == SumFunction(closes) + cuts

Version == [type |-> "version"]
OpenChannel == [type |-> "open"]
CloseChannel == [type |-> "close"]
ReadMore(n) == [type |-> "read", size |-> n]

\* A write announces its size; `data' is shorter if it was interrupted.
WriteData(n, data) == [type |-> "write", size |-> n, data |-> data]

(* channel_state_new() *)
NewState(table) ==
    [table |-> table, slots |-> [i \in 0 .. Size - 1 |-> 0],
     head |-> 0, tail |-> 0, count |-> 0, readFree |-> 0, writeFree |-> 0,
     in |-> FALSE, out |-> FALSE, hup |-> FALSE, err |-> FALSE]

Init ==
    /\ opener \in Openers
    /\ ch = [e \in End |-> NewState(IF opener = None THEN "here" ELSE "none")]
    /\ lock = [e \in End |-> None]
    /\ pc = [e \in End |-> [t \in Thread |-> IF t = "closer" THEN "idle" ELSE "new"]]
    /\ todo = [e \in End |-> [t \in Thread |-> <<>>]]
    /\ loop = [e \in End |-> IF opener = None THEN "off" ELSE "reading"]
    /\ hand = [e \in End |-> None]
    /\ link = [e \in End |-> <<>>]
    /\ base = [e \in End |-> "open"]
    /\ version = [e \in End |-> 1]
    /\ next = [e \in End |-> 0]
    /\ got = [e \in End |-> <<>>]
    /\ closes = [e \in End |-> 0]
    /\ cuts = 0
    /\ before = [e \in End |-> 0]

(* How many bytes a sequence of messages carries, and how many it requests. *)
Amount(m, type) == IF m.type = type THEN m.size ELSE 0

SumOf(type, s) ==
    LET sum[i \in 0 .. Len(s)] == IF i = 0 THEN 0 ELSE sum[i - 1] + Amount(s[i], type)
    IN  sum[Len(s)]

Carried(s) == SumOf("write", s)
Requested(s) == SumOf("read", s)

Min2(m, n) == IF m < n THEN m ELSE n

(* channel_state_lookup() takes the object lock, and releases it.           *)
CanLookup(e) == lock[e] = None

(* channel_state_close_unlocked() *)
HangUp(c) == [c EXCEPT !.in = FALSE, !.out = FALSE, !.hup = TRUE]

-----------------------------------------------------------------------------
(* Sending: a thread takes the lock, sends what it has to, and goes on.     *)

Goto(e, t, where) == pc' = [pc EXCEPT ![e][t] = where]

Lock(e, t) ==
    /\ pc[e][t] = "want"
    /\ lock[e] = None
    /\ lock' = [lock EXCEPT ![e] = t]
    /\ Goto(e, t, "send")
    /\ UNCHANGED <<ch, todo, recvVars, link, base, next, got, history>>

(* What follows the last message: the handshake starts the receive thread,  *)
(* the stream is handed to its writer, and a closer marks the channel.      *)
Sent(e, t) ==
    /\ lock' = [lock EXCEPT ![e] = None]
    /\ pc' = [pc EXCEPT ![e][t] = IF t = "closer" THEN "mark" ELSE "ready",
                        ![e]["writer"] = IF t # "writer" /\ @ # "new" THEN @ ELSE "ready"]
    /\ loop' = [loop EXCEPT ![e] = IF @ = "off" THEN "reading" ELSE @]

(* send_protocol_version(), send_open_channel(), send_close_channel(),      *)
(* send_read() and send_write(): blocks while the socket is full.  What is  *)
(* sent to a socket that is closed at the other end is lost.                *)
Send(e, t) ==
    LET m == Head(todo[e][t])
        o == Other(e)
    IN  /\ pc[e][t] = "send" /\ base[e] = "open"
        /\ \/ base[o] = "open" /\ Len(link[o]) < Capacity
              /\ link' = [link EXCEPT ![o] = Append(@, m)]
           \/ base[o] = "closed" /\ UNCHANGED link
        /\ todo' = [todo EXCEPT ![e][t] = Tail(@)]
        /\ before' = IF m = CloseChannel
                     THEN [before EXCEPT ![e] = next[e] - Carried(todo[e]["writer"])]
                     ELSE before
        /\ IF Tail(todo[e][t]) = <<>>
             THEN Sent(e, t)
             ELSE UNCHANGED <<lock, pc, loop>>
        /\ UNCHANGED <<opener, ch, hand, version, base, next, got, closes, cuts>>

(* valent_bluez_muxer_close() with the lock: the stream is closed, and the  *)
(* receive thread is cancelled and joined.                                  *)
BeginClose(e, t) ==
    /\ lock' = [lock EXCEPT ![e] = t]
    /\ base' = [base EXCEPT ![e] = "closed"]
    /\ pc' = [pc EXCEPT ![e][t] = "join"]
    /\ todo' = [todo EXCEPT ![e][t] = <<>>]

(* "Any failure sending a multiplex message closes the connection", except  *)
(* in valent_bluez_muxer_channel_close().                                   *)
SendFails(e, t) ==
    /\ pc[e][t] = "send"
    /\ base[e] = "closed" \/ base[Other(e)] = "closed"
    /\ IF t = "closer"
         THEN /\ lock' = [lock EXCEPT ![e] = None]
              /\ pc' = [pc EXCEPT ![e][t] = "mark"]
              /\ todo' = [todo EXCEPT ![e][t] = <<>>]
              /\ UNCHANGED base
         ELSE BeginClose(e, t)
    /\ UNCHANGED <<ch, recvVars, link, next, got, history>>

(* send_write() is cancelled after its header, or within its payload.       *)
SendCut(e) ==
    LET m == Head(todo[e]["writer"])
        o == Other(e)
    IN  /\ Stops < MaxStops
        /\ pc[e]["writer"] = "send" /\ base[e] = "open" /\ base[o] = "open"
        /\ Len(link[o]) < Capacity
        /\ cuts' = cuts + 1
        /\ \E k \in 0 .. m.size - 1 :
              link' = [link EXCEPT ![o] = Append(@, WriteData(m.size, SubSeq(m.data, 1, k)))]
        /\ BeginClose(e, "writer")
        /\ UNCHANGED <<ch, recvVars, next, got, closes, before>>

(* Mutant: the states are forgotten, and nobody is told. *)
JoinQuiet(e, t) ==
    /\ pc[e][t] = "join"
    /\ loop[e] \in {"off", "ended", "joined"}
    /\ loop' = [loop EXCEPT ![e] = "joined"]
    /\ ch' = [ch EXCEPT ![e].table = "gone"]
    /\ lock' = [lock EXCEPT ![e] = None]
    /\ Goto(e, t, "done")
    /\ UNCHANGED <<opener, todo, hand, version, link, base, next, got, history>>

(* ... once it ended, every channel is closed and forgotten.                *)
Join(e, t) ==
    /\ pc[e][t] = "join"
    /\ loop[e] \in {"off", "ended", "joined"}
    /\ IF loop[e] = "ended"
         THEN /\ loop' = [loop EXCEPT ![e] = "joined"]
              /\ ch' = [ch EXCEPT ![e] = [HangUp(@) EXCEPT !.table = "gone"]]
         ELSE UNCHANGED <<loop, ch>>
    /\ lock' = [lock EXCEPT ![e] = None]
    /\ Goto(e, t, "done")
    /\ UNCHANGED <<opener, todo, hand, version, link, base, next, got, history>>
-----------------------------------------------------------------------------
(* Opening and closing *)

(* valent_bluez_muxer_channel_open() *)
Open(e) ==
    /\ e = opener /\ pc[e]["reader"] = "new"
    /\ lock[e] = None /\ ch[e].table = "none"
    /\ ch' = [ch EXCEPT ![e] = [NewState("here") EXCEPT !.readFree = Size]]
    /\ lock' = [lock EXCEPT ![e] = "reader"]
    /\ todo' = [todo EXCEPT ![e]["reader"] = <<OpenChannel, ReadMore(Size)>>]
    /\ Goto(e, "reader", "send")
    /\ UNCHANGED <<recvVars, link, base, next, got, history>>

(* valent_bluez_muxer_channel_accept(), or handshake_protocol_task() for    *)
(* the primary channel.                                                     *)
Accept(e) ==
    /\ e # opener /\ pc[e]["reader"] = "new"
    /\ CanLookup(e) /\ ch[e].table = "here"
    /\ ch' = [ch EXCEPT ![e].readFree = @ + Size]
    /\ todo' = [todo EXCEPT ![e]["reader"] =
                   IF opener = None THEN <<Version, ReadMore(Size)>>
                                    ELSE <<ReadMore(Size)>>]
    /\ Goto(e, "reader", "want")
    /\ UNCHANGED <<lock, recvVars, link, base, next, got, history>>

(* valent_bluez_muxer_channel_close(), as a stream that is closed calls it. *)
CloseStream(e) ==
    /\ Stops < MaxStops
    /\ pc[e]["closer"] = "idle" /\ pc[e]["writer"] # "new"
    /\ CanLookup(e) /\ ch[e].table = "here"
    /\ closes' = [closes EXCEPT ![e] = @ + 1]
    /\ todo' = [todo EXCEPT ![e]["closer"] = <<CloseChannel>>]
    /\ Goto(e, "closer", "want")
    /\ UNCHANGED <<ch, lock, recvVars, link, base, next, got, cuts, before>>

MarkClosed(e) ==
    /\ pc[e]["closer"] = "mark"
    /\ ch' = [ch EXCEPT ![e] = IF @.hup \/ @.err THEN @ ELSE HangUp(@)]
    /\ Goto(e, "closer", "idle")
    /\ UNCHANGED <<lock, todo, recvVars, link, base, next, got, history>>

(* valent_bluez_muxer_close(), when the service loses the device.           *)
CloseMuxer(e) ==
    /\ Stops < MaxStops
    /\ pc[e]["closer"] = "idle" /\ loop[e] # "off"
    /\ lock[e] = None
    /\ closes' = [closes EXCEPT ![e] = @ + 1]
    /\ BeginClose(e, "closer")
    /\ UNCHANGED <<ch, recvVars, link, next, got, cuts, before>>
-----------------------------------------------------------------------------
(* Receiving: valent_bluez_muxer_receive_loop() *)

(* recv_header() *)
Receive(e) ==
    /\ loop[e] = "reading" /\ base[e] = "open"
    /\ link[e] # <<>>
    /\ hand' = [hand EXCEPT ![e] = Head(link[e])]
    /\ link' = [link EXCEPT ![e] = Tail(@)]
    /\ loop' = [loop EXCEPT ![e] = "got"]
    /\ UNCHANGED <<opener, ch, lock, pc, todo, base, version, next, got, history>>

(* The other end is gone.  The end of the stream is no error to             *)
(* g_input_stream_read_all(): the header stays zero, and reads as a         *)
(* protocol version of zero, again and again.  A reset is an error.         *)
ReceiveEnds(e) ==
    /\ loop[e] = "reading" /\ base[e] = "open"
    /\ base[Other(e)] = "closed" /\ link[e] = <<>>
    /\ \/ version' = [version EXCEPT ![e] = 0] /\ UNCHANGED loop
       \/ loop' = [loop EXCEPT ![e] = "failed"] /\ UNCHANGED version
    /\ UNCHANGED <<opener, ch, lock, pc, todo, hand, link, base, next, got, history>>

(* This end was closed: a read in progress is cancelled, and one that       *)
(* starts before that finds the stream closed.                              *)
ReceiveStopped(e) ==
    /\ loop[e] = "reading" /\ base[e] = "closed"
    /\ loop' \in {[loop EXCEPT ![e] = "ended"], [loop EXCEPT ![e] = "failed"]}
    /\ UNCHANGED <<opener, ch, lock, pc, todo, hand, version, link, base, next, got, history>>

(* After any other error the thread closes the muxer itself, which leaves   *)
(* the channels alone.                                                      *)
LoopCloses(e) ==
    /\ loop[e] = "failed"
    /\ lock[e] = None
    /\ base' = [base EXCEPT ![e] = "closed"]
    /\ loop' = [loop EXCEPT ![e] = "ended"]
    /\ UNCHANGED <<opener, ch, lock, pc, todo, hand, version, link, next, got, history>>

(* Mutant: the data is stored from the head of the buffer. *)
StoredAtHead(c, m) ==
    [c EXCEPT !.slots = [i \in 0 .. Size - 1 |->
                            LET k == ((i + Size - c.head) % Size) + 1
                            IN  IF k <= Len(m.data) THEN m.data[k] ELSE c.slots[i]],
              !.tail = (@ + m.size) % Size, !.count = @ + m.size,
              !.readFree = @ - m.size, !.in = TRUE]

(* recv_write(): the slots after the tail are filled, around the end of the *)
(* buffer; at the end of the stream they keep what they had.                *)
Stored(c, m) ==
    [c EXCEPT !.slots = [i \in 0 .. Size - 1 |->
                            LET k == ((i + Size - c.tail) % Size) + 1
                            IN  IF k <= Len(m.data) THEN m.data[k] ELSE c.slots[i]],
              !.tail = (@ + m.size) % Size,
              !.count = @ + m.size,
              !.readFree = @ - m.size,
              !.in = TRUE]

(* A message for a channel that is not there, or that is there already, or  *)
(* more than what was requested: an error.                                  *)
Refused(c, m) ==
    \/ m.type = "open" /\ c.table = "here"
    \/ m.type \in {"read", "write"} /\ c.table # "here"
    \/ m.type = "write" /\ m.size > c.readFree

(* recv_open_channel(), recv_close_channel(), recv_read() and recv_write(): *)
(* the channel after a message that is not refused.                         *)
Handled(c, m) ==
    CASE m.type = "open" -> NewState("here")
      [] m.type = "close" /\ c.table = "here" -> HangUp(c)
      [] m.type = "read" -> [c EXCEPT !.writeFree = @ + m.size, !.out = TRUE]
      [] m.type = "write" -> Stored(c, m)
      [] OTHER -> c

Dispatch(e) ==
    LET refused == Refused(ch[e], hand[e])
    IN  /\ loop[e] = "got"
        /\ hand[e].type = "version" \/ CanLookup(e)
        /\ ch' = IF refused THEN ch ELSE [ch EXCEPT ![e] = Handled(@, hand[e])]
        /\ loop' = [loop EXCEPT ![e] = IF refused THEN "failed" ELSE "reading"]
        /\ hand' = [hand EXCEPT ![e] = None]
        /\ UNCHANGED <<opener, lock, pc, todo, version, link, base, next, got, history>>
-----------------------------------------------------------------------------
(* Reading: valent_bluez_muxer_channel_read() *)

(* channel_state_read_unlocked(): n bytes from the head of the buffer.      *)
Taken(c, n) ==
    [c EXCEPT !.head = (@ + n) % Size, !.count = @ - n,
              !.in = @ /\ c.count > n]

Bytes(c, n) == [i \in 1 .. n |-> c.slots[(c.head + i - 1) % Size]]

(* Mutant: the free space is the way from the tail to the head, which is    *)
(* none for an empty buffer as for a full one.                              *)
RequestModulo(c) ==
    LET free == (c.head + Size - c.tail) % Size
    IN  IF c.readFree > free \/ 2 * (free - c.readFree) < Size
          THEN 0 ELSE free - c.readFree

(* More is requested once half of the buffer is neither full nor requested. *)
Request(c) ==
    LET free == Size - c.count - c.readFree
    IN  IF 2 * free < Size THEN 0 ELSE free

(* Reads what there is.  `closed' if the channel was when the call began:   *)
(* then nothing more is requested.                                          *)
Take(e, closed) ==
    LET c == ch[e]
    IN  \/ /\ c.err
           /\ Goto(e, "reader", "error")
           /\ UNCHANGED <<ch, got, todo>>
        \/ /\ ~c.err /\ c.count = 0 /\ c.hup
           /\ ch' = [ch EXCEPT ![e].err = TRUE]
           /\ Goto(e, "reader", "eof")
           /\ UNCHANGED <<got, todo>>
        \/ \E n \in 1 .. c.count :
              LET t == Taken(c, n)
                  more == IF closed THEN 0 ELSE Request(t)
              IN  /\ ~c.err
                  /\ got' = [got EXCEPT ![e] = @ \o Bytes(c, n)]
                  /\ ch' = [ch EXCEPT ![e] = [t EXCEPT !.readFree = @ + more]]
                  /\ IF more = 0
                       THEN Goto(e, "reader", "ready") /\ UNCHANGED todo
                       ELSE /\ todo' = [todo EXCEPT ![e]["reader"] = <<ReadMore(more)>>]
                            /\ Goto(e, "reader", "want")

Closed(c) == c.hup \/ c.err

Read(e) ==
    LET c == ch[e]
    IN  /\ pc[e]["reader"] = "ready" /\ CanLookup(e)
        /\ CASE c.table # "here" ->
                   Goto(e, "reader", "error") /\ UNCHANGED <<ch, got, todo>>
             [] c.table = "here" /\ (Closed(c) \/ c.in) -> Take(e, Closed(c))
             [] OTHER -> Goto(e, "reader", "waiting") /\ UNCHANGED <<ch, got, todo>>
        /\ UNCHANGED <<lock, recvVars, link, base, next, history>>

(* A reader that is blocked goes on where it was; one that waits for the    *)
(* GSource calls again.                                                     *)
WakeReader(e) ==
    /\ pc[e]["reader"] = "waiting"
    /\ ch[e].in \/ Closed(ch[e])
    /\ \/ Take(e, FALSE)
       \/ Goto(e, "reader", "ready") /\ UNCHANGED <<ch, got, todo>>
    /\ UNCHANGED <<lock, recvVars, link, base, next, history>>
-----------------------------------------------------------------------------
(* Writing: valent_bluez_muxer_channel_write() *)

(* Mutant: the window is left as it was. *)
PutFree(e) ==
    /\ ch[e].out
    /\ \E n \in 1 .. Min2(ch[e].writeFree, Total[e] - next[e]) :
          /\ todo' = [todo EXCEPT ![e]["writer"] =
                         <<WriteData(n, [i \in 1 .. n |-> next[e] + i])>>]
          /\ next' = [next EXCEPT ![e] = @ + n]
    /\ Goto(e, "writer", "want")
    /\ UNCHANGED ch

(* Takes no more than the window from its caller, and leaves the mutex      *)
(* before it sends.                                                         *)
Put(e) ==
    /\ ch[e].out
    /\ \E n \in 1 .. Min2(ch[e].writeFree, Total[e] - next[e]) :
          /\ todo' = [todo EXCEPT ![e]["writer"] =
                         <<WriteData(n, [i \in 1 .. n |-> next[e] + i])>>]
          /\ next' = [next EXCEPT ![e] = @ + n]
          /\ ch' = [ch EXCEPT ![e].writeFree = @ - n, ![e].out = ch[e].writeFree > n]
    /\ Goto(e, "writer", "want")

Write(e) ==
    LET c == ch[e]
    IN  /\ pc[e]["writer"] = "ready" /\ next[e] < Total[e] /\ CanLookup(e)
        /\ CASE c.table # "here" \/ Closed(c) ->
                   Goto(e, "writer", "error") /\ UNCHANGED <<ch, todo, next>>
             [] c.table = "here" /\ ~Closed(c) /\ c.out -> Put(e)
             [] OTHER -> Goto(e, "writer", "waiting") /\ UNCHANGED <<ch, todo, next>>
        /\ UNCHANGED <<lock, recvVars, link, base, got, history>>

WakeWriter(e) ==
    LET c == ch[e]
    IN  /\ pc[e]["writer"] = "waiting"
        /\ \/ Closed(c) /\ Goto(e, "writer", "error") /\ UNCHANGED <<ch, todo, next>>
           \/ ~Closed(c) /\ Put(e)
           \/ /\ c.out \/ Closed(c)
              /\ Goto(e, "writer", "ready") /\ UNCHANGED <<ch, todo, next>>
        /\ UNCHANGED <<lock, recvVars, link, base, got, history>>
-----------------------------------------------------------------------------
Step(e) ==
    \/ \E t \in Thread : Lock(e, t) \/ Send(e, t) \/ SendFails(e, t) \/ Join(e, t)
    \/ Open(e) \/ Accept(e)
    \/ MarkClosed(e)
    \/ Receive(e) \/ ReceiveEnds(e) \/ ReceiveStopped(e) \/ LoopCloses(e) \/ Dispatch(e)
    \/ Read(e) \/ WakeReader(e)
    \/ Write(e) \/ WakeWriter(e)

Next ==
    \E e \in End : Step(e) \/ SendCut(e) \/ CloseStream(e) \/ CloseMuxer(e)

Spec == Init /\ [][Next]_vars

(* Threads run, and whoever waits for a lock gets it.  Nothing obliges      *)
(* anyone to close.                                                         *)
FairSpec ==
    /\ Spec
    /\ \A e \in End :
          /\ \A t \in Thread :
                /\ WF_vars(Lock(e, t)) /\ WF_vars(Join(e, t))
                /\ WF_vars(Send(e, t) \/ SendFails(e, t))
          /\ WF_vars(Open(e)) /\ WF_vars(Accept(e)) /\ WF_vars(MarkClosed(e))
          /\ WF_vars(Receive(e)) /\ WF_vars(ReceiveEnds(e)) /\ WF_vars(ReceiveStopped(e))
          /\ WF_vars(LoopCloses(e)) /\ WF_vars(Dispatch(e))
          /\ WF_vars(Read(e)) /\ WF_vars(WakeReader(e))
          /\ WF_vars(Write(e)) /\ WF_vars(WakeWriter(e))
-----------------------------------------------------------------------------
Reads == [type : {"read"}, size : Nat \ {0}]
Writes == [type : {"write"}, size : Nat \ {0}, data : Seq(Nat)]
Message == {Version, OpenChannel, CloseChannel} \cup Reads \cup Writes

(* Which messages a thread sends.                                           *)
SentBy(t) ==
    CASE t = "reader" -> {Version, OpenChannel} \cup Reads
      [] t = "writer" -> {m \in Writes : Len(m.data) = m.size}
      [] t = "closer" -> {CloseChannel}

ChannelState ==
    [table : {"none", "here", "gone"}, slots : [0 .. Size - 1 -> Nat],
     head : 0 .. Size - 1, tail : 0 .. Size - 1,
     count : Nat, readFree : Nat, writeFree : Nat,
     in : BOOLEAN, out : BOOLEAN, hup : BOOLEAN, err : BOOLEAN]

ASSUME NoneAssumption == None \notin End \cup Thread \cup Message

TypeOK ==
    /\ opener \in Openers
    /\ ch \in [End -> ChannelState]
    /\ lock \in [End -> Thread \cup {None}]
    /\ pc \in [End -> [Thread -> {"new", "idle", "want", "send", "mark", "join", "done",
                                 "ready", "waiting", "eof", "error"}]]
    /\ todo \in [End -> [Thread -> Seq(Message)]]
    /\ \A e \in End, t \in Thread : todo[e][t] \in Seq(SentBy(t))
    /\ loop \in [End -> {"off", "reading", "got", "failed", "ended", "joined"}]
    /\ hand \in [End -> Message \cup {None}]
    /\ link \in [End -> Seq(Message)]
    /\ base \in [End -> {"open", "closed"}]
    /\ version \in [End -> {0, 1}]
    /\ next \in [End -> Nat]
    /\ got \in [End -> Seq(Nat)]

InHand(e) == IF hand[e] = None THEN <<>> ELSE <<hand[e]>>

OnTheWay(e, type) == SumOf(type, link[e]) + SumOf(type, InHand(e))

Connected == \A e \in End : base[e] = "open"

(* The window: what an end may write, has written and the other has not     *)
(* stored, and is about to be allowed to write, is what the other end has   *)
(* set aside for it, at every point between the locks of both.              *)
Balanced(s) ==
    LET r == Other(s)
    IN  ch[s].writeFree + Carried(todo[s]["writer"]) + OnTheWay(r, "write")
          + Requested(todo[r]["reader"]) + OnTheWay(s, "read")
        = ch[r].readFree

WindowAgrees == Connected => \A s \in End : Balanced(s)

(* What is set aside and what is stored fit in the buffer, so that nothing  *)
(* that was not read is overwritten.                                        *)
BufferFits == \A e \in End : ch[e].count + ch[e].readFree <= Size

(* Two muxers never send each other what the other refuses: while the       *)
(* connection stands no receive thread stops.                               *)
NoProtocolError == Connected => \A e \in End : loop[e] \notin {"failed", "ended"}

(* The three together: the flow control of the two ends agrees.             *)
CreditsAgree == WindowAgrees /\ BufferFits /\ NoProtocolError

IsPrefixOfWritten(s) == s = [i \in 1 .. Len(s) |-> i]

(* Unless a write was interrupted, a reader gets the bytes that were        *)
(* written, in order, without a gap, around the end of the buffer.          *)
ReadIsWritten == cuts = 0 => \A e \in End : IsPrefixOfWritten(got[e])

(* ... and a reader that sees the end of a channel the other end closed has *)
(* got all that was sent before.  A write that is interrupted, at either    *)
(* end, closes the connection, and what was on its way with it.             *)
EofIsLast ==
    cuts = 0 => \A e \in End :
        pc[e]["reader"] = "eof" /\ closes[e] = 0 /\ closes[Other(e)] = 1
            => Len(got[e]) >= before[Other(e)]

(* Both: what a reader gets is what was written, up to its end.             *)
DataIsIntact == ReadIsWritten /\ EofIsLast

(* Every byte arrives unless someone closes, or is cancelled: the window    *)
(* opens again in time.                                                     *)
EveryByteArrives == \A e \in End : <>(Len(got[e]) = Total[Other(e)] \/ Stops > 0)

(* Whoever waits for the channel goes on after the end that it belongs to   *)
(* closed the stream, or closed the muxer and joined its thread.            *)
ClosingWakes ==
    \A e \in End, t \in {"reader", "writer"} :
        (pc[e][t] = "waiting" /\ (loop[e] = "joined" \/ pc[e]["closer"] = "mark"))
            ~> (pc[e][t] # "waiting")

(* What valent_bluez_muxer_close() documents: it returns.                   *)
CloseReturns ==
    \A e \in End, t \in Thread : (pc[e][t] = "join") ~> (pc[e][t] # "join")
-----------------------------------------------------------------------------
(* Proofs.  At every end, always: whoever sends, or joins the receive       *)
(* thread, has the lock; a thread has something to send until it is sent;   *)
(* the receive thread has a message from its header to its dispatch; and    *)
(* nothing is set aside before the reader requests it.                      *)
Orderly ==
    \A e \in End :
        /\ \A t \in Thread : /\ pc[e][t] \in {"send", "join"} => lock[e] = t
                             /\ pc[e][t] \in {"want", "send"} <=> todo[e][t] # <<>>
        /\ hand[e] # None <=> loop[e] = "got"
        /\ pc[e]["reader"] = "new" => ch[e].count = 0 /\ ch[e].readFree = 0

(* While the connection stands.  An end without a channel has not sent      *)
(* anything, and MESSAGE_OPEN_CHANNEL is the first that it gets: it is      *)
(* first in its hand, or on its way, or in what a thread with the lock has  *)
(* to send, and it is nowhere else.                                         *)
Untouched(e) ==
    /\ opener # None
    /\ ch[e] = NewState("none") /\ pc[e]["closer"] # "mark"
    /\ \A t \in Thread : todo[e][t] = <<>>
    /\ link[Other(e)] = <<>> /\ hand[Other(e)] = None

Awaits(e) == ch[e].table = "none" /\ hand[e] = None
Silent(e) == Awaits(e) /\ link[e] = <<>>

OpensFirst(e) ==
    /\ hand[e] # None => (hand[e] = OpenChannel <=> ch[e].table = "none")
    /\ \A i \in 1 .. Len(link[e]) : link[e][i] = OpenChannel <=> Awaits(e) /\ i = 1
    /\ \A t \in Thread : \A i \in 1 .. Len(todo[Other(e)][t]) :
          todo[Other(e)][t][i] = OpenChannel <=> Silent(e) /\ i = 1

OpensLocked(e) == ch[e].table = "here" /\ Silent(Other(e)) => pc[e]["reader"] = "send"

Standing ==
    /\ \A e \in End : /\ ch[e].table \in {"none", "here"}
                      /\ ch[e].table = "none" => Untouched(e)
                      /\ OpensFirst(e) /\ OpensLocked(e)
                      /\ loop[e] \notin {"failed", "ended"}
    /\ opener # None /\ ch[opener].table = "none" => ch[Other(opener)].table = "none"

Inv == TypeOK /\ Orderly /\ BufferFits /\ WindowAgrees /\ (Connected => Standing)

-----------------------------------------------------------------------------
(* Sums.  SumOf(type, s) is what any f that adds up the amounts of s has at *)
(* the end, and there is one.                                               *)
Adds(f, type, s) ==
    /\ f \in [0 .. Len(s) -> Nat] /\ f[0] = 0
    /\ \A i \in 1 .. Len(s) : f[i] = f[i - 1] + Amount(s[i], type)

Amounts(type, s) == \A i \in 1 .. Len(s) : Amount(s[i], type) \in Nat

LEMMA LeastNumber ==
  ASSUME NEW T \in SUBSET Nat, T # {}
  PROVE  \E k \in T : \A i \in T : k <= i
  <1>1. \E k \in T : \A i \in T : ~(<<i, k>> \in OpToRel(<, Nat))
    BY NatLessThanWellFounded, WFMin
  <1>2. \A i, k \in Nat : i < k => <<i, k>> \in OpToRel(<, Nat)
    BY DEF OpToRel
  <1>3. PICK k \in T : \A i \in T : ~(<<i, k>> \in OpToRel(<, Nat))
    BY <1>1
  <1>4. ASSUME NEW i \in T PROVE k <= i
    <2>1. ~(i < k)
      BY <1>2, <1>3
    <2> QED
      BY <2>1
  <1> QED
    BY <1>4

LEMMA SumIs ==
  ASSUME NEW S, NEW s \in Seq(S), NEW type, NEW f, Adds(f, type, s)
  PROVE  SumOf(type, s) = f[Len(s)]
  <1> DEFINE Sum(g) == g = [i \in 0 .. Len(s) |->
                              IF i = 0 THEN 0 ELSE g[i - 1] + Amount(s[i], type)]
             g == CHOOSE x : Sum(x)
  <1>1. SumOf(type, s) = g[Len(s)]
    BY DEF SumOf
  <1>2. Sum(f)
    BY DEF Adds
  <1>3. Sum(g)
    BY <1>2
  <1> HIDE DEF g
  <1> DEFINE T == {i \in 0 .. Len(s) : g[i] # f[i]}
  <1>4. T = {}
    <2> SUFFICES ASSUME T # {} PROVE FALSE
      OBVIOUS
    <2>0. T \in SUBSET Nat
      OBVIOUS
    <2>1. PICK n \in T : \A m \in T : n <= m
      <3> HIDE DEF T
      <3> QED
        BY <2>0, LeastNumber
    <2>2. n # 0 
      BY <1>2, <1>3, <2>1
    <2>3. g[n - 1] = f[n - 1]
      BY <2>1, <2>2
    <2>4. g[n] = f[n]
      BY <1>2, <1>3, <2>2, <2>3
    <2> QED
      BY <2>1, <2>4
  <1> QED
    BY <1>1, <1>4

LEMMA SumExists ==
  ASSUME NEW S, NEW s \in Seq(S), NEW type, Amounts(type, s)
  PROVE  \E f : Adds(f, type, s)
  <1> DEFINE Up(n, f) == /\ f \in [0 .. n -> Nat] /\ f[0] = 0
                         /\ \A i \in 1 .. n : f[i] = f[i - 1] + Amount(s[i], type)
             T == {n \in 0 .. Len(s) : ~ \E f : Up(n, f)}
  <1>1. T = {}
    <2> SUFFICES ASSUME T # {} PROVE FALSE
      OBVIOUS
    <2>0. T \in SUBSET Nat
      OBVIOUS
    <2>1. PICK n \in T : \A m \in T : n <= m
      <3> HIDE DEF T
      <3> QED
        BY <2>0, LeastNumber
    <2>2. n # 0
      <3>1. Up(0, [i \in 0 .. 0 |-> 0])
        OBVIOUS
      <3> QED
        BY <2>1, <3>1
    <2>3. n \in 1 .. Len(s) /\ n - 1 \in 0 .. Len(s) /\ n - 1 \notin T
      <3>1. n \in 1 .. Len(s)
        BY <2>1, <2>2
      <3> HIDE DEF T
      <3>2. n - 1 \notin T
        BY <2>1, <3>1
      <3> QED
        BY <3>1, <3>2
    <2>4. PICK f : Up(n - 1, f)
      BY <2>3
    <2> DEFINE a == Amount(s[n], type)
    <2>5. a \in Nat /\ n \in 1 .. Len(s)
      BY <2>1, <2>2 DEF Amounts
    <2> DEFINE g == [i \in 0 .. n |-> IF i = n THEN f[n - 1] + a ELSE f[i]]
    <2>6. f[n - 1] + a \in Nat
      BY <2>4, <2>5
    <2>7. /\ g[n] = f[n - 1] + a
          /\ \A i \in 0 .. n - 1 : g[i] = f[i] /\ f[i] \in Nat
      BY <2>4, <2>5
    <2>8. g \in [0 .. n -> Nat]
      <3> HIDE DEF a
      <3>1. \A i \in 0 .. n : (IF i = n THEN f[n - 1] + a ELSE f[i]) \in Nat
        BY <2>3, <2>4, <2>6
      <3> QED
        BY <3>1
    <2> HIDE DEF g
    <2>9. ASSUME NEW i \in 1 .. n
          PROVE  g[i] = g[i - 1] + Amount(s[i], type)
      <3>1. CASE i = n
        BY <2>5, <2>7, <3>1
      <3>2. CASE i # n
        <4>1. i \in 1 .. n - 1 /\ i - 1 \in 0 .. n - 1 /\ i \in 0 .. n - 1
          BY <2>5, <3>2
        <4>2. g[i] = f[i] /\ g[i - 1] = f[i - 1]
          BY <2>7, <4>1
        <4>3. f[i] = f[i - 1] + Amount(s[i], type)
          BY <2>4, <4>1
        <4> QED
          BY <4>2, <4>3
      <3> QED
        BY <3>1, <3>2
    <2>10. Up(n, g)
      BY <2>4, <2>5, <2>7, <2>8, <2>9
    <2> QED
      BY <2>1, <2>10
  <1>2. \E f : Up(Len(s), f)
    BY <1>1
  <1> QED
    BY <1>2 DEF Adds

LEMMA SumNat ==
  ASSUME NEW S, NEW s \in Seq(S), NEW type, Amounts(type, s)
  PROVE  SumOf(type, s) \in Nat
  BY SumExists, SumIs DEF Adds

LEMMA SumEmpty == \A type : SumOf(type, <<>>) = 0
  <1> TAKE type
  <1>1. Adds([i \in 0 .. 0 |-> 0], type, <<>>)
    BY DEF Adds
  <1>2. <<>> \in Seq({}) 
    OBVIOUS
  <1> QED
    BY <1>1, <1>2, SumIs

LEMMA SumAppend ==
  ASSUME NEW S, NEW s \in Seq(S), NEW m \in S, NEW type, Amounts(type, s), Amount(m, type) \in Nat
  PROVE  SumOf(type, Append(s, m)) = SumOf(type, s) + Amount(m, type)
  <1>1. PICK f : Adds(f, type, s)
    BY SumExists
  <1> DEFINE n == Len(s)
             a == Amount(m, type)
             t == Append(s, m)
             g == [i \in 0 .. n + 1 |-> IF i = n + 1 THEN f[n] + a ELSE f[i]]
  <1>2. t \in Seq(S) /\ Len(t) = n + 1 /\ t[n + 1] = m /\ \A i \in 1 .. n : t[i] = s[i]
    OBVIOUS
  <1>3. /\ g[n + 1] = f[n] + a
        /\ \A i \in 0 .. n : g[i] = f[i] /\ f[i] \in Nat
    BY <1>1 DEF Adds
  <1>4. f[n] + a \in Nat /\ n \in Nat
    BY <1>1 DEF Adds
  <1>5. g \in [0 .. n + 1 -> Nat]
    <2> HIDE DEF a
    <2>1. \A i \in 0 .. n + 1 : (IF i = n + 1 THEN f[n] + a ELSE f[i]) \in Nat
      BY <1>1, <1>4 DEF Adds
    <2> QED
      BY <2>1
  <1> HIDE DEF g, t
  <1>6. ASSUME NEW i \in 1 .. n + 1
        PROVE  g[i] = g[i - 1] + Amount(t[i], type)
    <2>1. CASE i = n + 1
      BY <1>2, <1>3, <1>4, <2>1
    <2>2. CASE i # n + 1
      <3>1. i \in 1 .. n /\ i - 1 \in 0 .. n /\ i \in 0 .. n
        BY <1>4, <2>2
      <3>2. g[i] = f[i] /\ g[i - 1] = f[i - 1] /\ t[i] = s[i]
        BY <1>2, <1>3, <3>1
      <3>3. f[i] = f[i - 1] + Amount(s[i], type)
        BY <1>1, <3>1 DEF Adds
      <3> QED
        BY <3>2, <3>3
    <2> QED
      BY <2>1, <2>2
  <1>7. Adds(g, type, t)
    BY <1>1, <1>2, <1>3, <1>4, <1>5, <1>6 DEF Adds
  <1>8. SumOf(type, s) = f[n] /\ SumOf(type, t) = g[n + 1]
    BY <1>1, <1>2, <1>7, SumIs
  <1> QED
    BY <1>3, <1>8 DEF t

LEMMA SumTail ==
  ASSUME NEW S, NEW s \in Seq(S), s # <<>>, NEW type, Amounts(type, s)
  PROVE  SumOf(type, s) = Amount(Head(s), type) + SumOf(type, Tail(s))
  <1> DEFINE n == Len(s)
             a == Amount(Head(s), type)
             t == Tail(s)
  <1>1. /\ n \in Nat \ {0} /\ t \in Seq(S) /\ Len(t) = n - 1 /\ Head(s) = s[1]
        /\ \A i \in 1 .. n - 1 : t[i] = s[i + 1]
    OBVIOUS
  <1> HIDE DEF t
  <1>2. a \in Nat /\ Amounts(type, t)
    BY <1>1 DEF Amounts
  <1>3. PICK f : Adds(f, type, t)
    BY <1>1, <1>2, SumExists
  <1> DEFINE g == [i \in 0 .. n |-> IF i = 0 THEN 0 ELSE a + f[i - 1]]
  <1> HIDE DEF a
  <1>0. \A i \in 1 .. n : f[i - 1] \in Nat
    <2>1. \A i \in 1 .. n : i - 1 \in 0 .. Len(t)
      BY <1>1
    <2> QED
      BY <1>3, <2>1 DEF Adds
  <1>4. /\ g[0] = 0
        /\ \A i \in 1 .. n : g[i] = a + f[i - 1] /\ f[i - 1] \in Nat
    BY <1>0, <1>1
  <1>5. g \in [0 .. n -> Nat]
    <2>1. \A i \in 0 .. n : (IF i = 0 THEN 0 ELSE a + f[i - 1]) \in Nat
      BY <1>0, <1>1, <1>2
    <2> QED
      BY <2>1
  <1> HIDE DEF g
  <1>6. ASSUME NEW i \in 1 .. n
        PROVE  g[i] = g[i - 1] + Amount(s[i], type)
    <2>1. CASE i = 1
      <3>1. g[1] = a + f[0] /\ f[0] = 0 /\ g[0] = 0 /\ 1 - 1 = 0
        BY <1>1, <1>3, <1>4 DEF Adds
      <3>2. Amount(s[1], type) = a
        BY <1>1 DEF a
      <3> QED
        BY <1>2, <2>1, <3>1, <3>2
    <2>2. CASE i # 1
      <3>1. i - 1 \in 1 .. n - 1 /\ t[i - 1] = s[i] /\ (i - 1) - 1 = i - 2
        BY <1>1, <2>2
      <3>2. f[i - 1] = f[i - 2] + Amount(s[i], type)
        BY <1>1, <1>3, <3>1 DEF Adds
      <3>3. Amount(s[i], type) \in Nat
        BY DEF Amounts
      <3>4. g[i] = a + f[i - 1] /\ g[i - 1] = a + f[i - 2] /\ f[i - 2] \in Nat
        BY <1>1, <1>4, <2>2
      <3> QED
        BY <1>2, <3>2, <3>3, <3>4
    <2> QED
      BY <2>1, <2>2
  <1>7. Adds(g, type, s)
    BY <1>4, <1>5, <1>6 DEF Adds
  <1>8. SumOf(type, s) = g[n] /\ SumOf(type, t) = f[n - 1]
    BY <1>1, <1>3, <1>7, SumIs
  <1> QED
    BY <1>1, <1>4, <1>8 DEF t, a

Kinds == {"read", "write"}

LEMMA MessageFacts ==
  /\ \A t \in Thread : SentBy(t) \subseteq Message
  /\ \A m \in Message, type \in Kinds : Amount(m, type) \in Nat
  /\ \A t \in Thread : \A m \in SentBy(t) :
        /\ t # "writer" => Amount(m, "write") = 0
        /\ t # "reader" => Amount(m, "read") = 0
        /\ m = OpenChannel => t = "reader"
  /\ OpenChannel \in SentBy("reader") /\ \A type \in Kinds : Amount(OpenChannel, type) = 0
  BY DEF Thread, SentBy, Message, Kinds, Amount, Version, OpenChannel, CloseChannel, Reads, Writes

LEMMA SumFacts ==
  ASSUME NEW type \in Kinds, NEW s \in Seq(Message)
  PROVE  /\ SumOf(type, s) \in Nat
         /\ \A m \in Message : SumOf(type, Append(s, m)) = SumOf(type, s) + Amount(m, type)
         /\ s # <<>> => SumOf(type, s) = Amount(Head(s), type) + SumOf(type, Tail(s))
  <1>1. Amounts(type, s)
    BY MessageFacts DEF Amounts
  <1> QED
    BY <1>1, SumNat, SumAppend, SumTail, MessageFacts

LEMMA SumOne ==
  ASSUME NEW type \in Kinds, NEW m \in Message
  PROVE  SumOf(type, <<m>>) = Amount(m, type)
  <1>1. SumOf(type, <<>>) = 0 /\ <<>> \in Seq(Message) /\ <<m>> = Append(<<>>, m)
    BY SumEmpty
  <1>2. SumOf(type, Append(<<>>, m)) = SumOf(type, <<>>) + Amount(m, type)
    BY <1>1, SumFacts
  <1> QED
    BY <1>1, <1>2, MessageFacts

LEMMA EndFacts ==
  ASSUME NEW e \in End
  PROVE  /\ Other(e) \in End /\ Other(e) # e /\ Other(Other(e)) = e
         /\ \A d \in End : d = e \/ d = Other(e)
  <1>1. PICK a, b \in End : a # b /\ End = {a, b}
    BY EndAssumption
  <1>2. /\ \A d \in End : Other(d) \in End /\ Other(d) # d
    BY <1>1 DEF Other
  <1> QED
    BY <1>1, <1>2
-----------------------------------------------------------------------------
(* The operators on the state of a channel.                                 *)
LEMMA NewStateFacts ==
  ASSUME NEW table \in {"none", "here"}
  PROVE  /\ NewState(table) \in ChannelState /\ NewState(table).table = table
         /\ NewState(table).count = 0 /\ NewState(table).readFree = 0
         /\ NewState(table).writeFree = 0
         /\ ~NewState(table).in /\ ~NewState(table).out
         /\ ~NewState(table).hup /\ ~NewState(table).err
  BY SizeAssumption DEF NewState, ChannelState

(* What an operator does to the numbers of a channel.                       *)
Becomes(c, d, count, readFree, writeFree) ==
    /\ d \in ChannelState /\ d.table = c.table
    /\ d.count = count /\ d.readFree = readFree /\ d.writeFree = writeFree

LEMMA HangUpFacts ==
  ASSUME NEW c \in ChannelState
  PROVE  Becomes(c, HangUp(c), c.count, c.readFree, c.writeFree)
  BY DEF HangUp, ChannelState, Becomes

LEMMA Around == \A x \in Int : x % Size \in 0 .. Size - 1
  BY SizeAssumption

LEMMA StoredFacts ==
  ASSUME NEW c \in ChannelState, NEW m \in Writes, m.size <= c.readFree
  PROVE  Becomes(c, Stored(c, m), c.count + m.size, c.readFree - m.size, c.writeFree)
  <1> DEFINE k(i) == ((i + Size - c.tail) % Size) + 1
             slots == [i \in 0 .. Size - 1 |->
                          IF k(i) <= Len(m.data) THEN m.data[k(i)] ELSE c.slots[i]]
             tail == (c.tail + m.size) % Size
             count == c.count + m.size
             readFree == c.readFree - m.size
  <1>1. /\ c.tail \in Int /\ c.slots \in [0 .. Size - 1 -> Nat]
        /\ c.count \in Nat /\ c.readFree \in Nat
    BY SizeAssumption DEF ChannelState
  <1>2. m.data \in Seq(Nat) /\ m.size \in Nat
    BY DEF Writes
  <1>3. tail \in 0 .. Size - 1
    <2>1. c.tail + m.size \in Int
      BY <1>1, <1>2
    <2> QED
      BY <2>1, Around
  <1>4. \A i \in 0 .. Size - 1 : k(i) \in Nat \ {0}
    <2> SUFFICES ASSUME NEW i \in 0 .. Size - 1 PROVE k(i) \in Nat \ {0}
      OBVIOUS
    <2>1. i + Size - c.tail \in Int
      BY <1>1, SizeAssumption
    <2> DEFINE x == (i + Size - c.tail) % Size
    <2>2. x \in 0 .. Size - 1
      BY <2>1, Around
    <2> HIDE DEF x
    <2>3. x + 1 \in Nat \ {0}
      BY <2>2, SizeAssumption
    <2> QED
      BY <2>3 DEF x
  <1> HIDE DEF k
  <1>5. \A i \in 0 .. Size - 1 : (IF k(i) <= Len(m.data) THEN m.data[k(i)] ELSE c.slots[i]) \in Nat
    <2> SUFFICES ASSUME NEW i \in 0 .. Size - 1
                 PROVE  (IF k(i) <= Len(m.data) THEN m.data[k(i)] ELSE c.slots[i]) \in Nat
      OBVIOUS
    <2>1. c.slots[i] \in Nat
      BY <1>1
    <2>2. k(i) \in Nat \ {0}
      BY <1>4
    <2>3. k(i) <= Len(m.data) => m.data[k(i)] \in Nat
      BY <1>2, <2>2
    <2> QED
      BY <2>1, <2>3
  <1>6. slots \in [0 .. Size - 1 -> Nat]
    BY <1>5
  <1>7. Stored(c, m) = [c EXCEPT !.slots = slots, !.tail = tail, !.count = count,
                                 !.readFree = readFree, !.in = TRUE]
    BY DEF Stored, k
  <1>8. count \in Nat /\ readFree \in Nat
    BY <1>1, <1>2
  <1> HIDE DEF slots, tail, count, readFree
  <1>9. Stored(c, m) \in ChannelState
    BY <1>3, <1>6, <1>7, <1>8 DEF ChannelState
  <1>10. /\ Stored(c, m).table = c.table /\ Stored(c, m).count = count
         /\ Stored(c, m).readFree = readFree /\ Stored(c, m).writeFree = c.writeFree
    BY <1>7 DEF ChannelState
  <1> QED
    BY <1>9, <1>10 DEF Becomes, count, readFree

LEMMA TakenFacts ==
  ASSUME NEW c \in ChannelState, NEW n \in 1 .. c.count
  PROVE  Becomes(c, Taken(c, n), c.count - n, c.readFree, c.writeFree)
  <1>1. c.count - n \in Nat /\ (c.head + n) % Size \in 0 .. Size - 1
    <2>1. c.count \in Nat /\ c.head + n \in Int /\ c.count - n \in Nat
      BY SizeAssumption DEF ChannelState
    <2> QED
      BY <2>1, Around
  <1>2. (c.in /\ c.count > n) \in BOOLEAN
    OBVIOUS
  <1> QED
    BY <1>1, <1>2 DEF ChannelState, Taken, Becomes

LEMMA RequestFacts ==
  ASSUME NEW c \in ChannelState, c.count + c.readFree <= Size
  PROVE  Request(c) \in Nat /\ c.count + c.readFree + Request(c) <= Size
  BY SizeAssumption DEF ChannelState, Request

LEMMA BytesFacts ==
  ASSUME NEW c \in ChannelState, NEW n \in Nat
  PROVE  Bytes(c, n) \in Seq(Nat)
  <1>1. \A i \in 1 .. n : (c.head + i - 1) % Size \in 0 .. Size - 1
    BY SizeAssumption DEF ChannelState
  <1>2. \A i \in 1 .. n : c.slots[(c.head + i - 1) % Size] \in Nat
    BY <1>1 DEF ChannelState
  <1> QED
    BY <1>2 DEF Bytes

-----------------------------------------------------------------------------
LEMMA Numbers ==
  ASSUME TypeOK, NEW e \in End
  PROVE  /\ Carried(todo[e]["writer"]) \in Nat /\ Requested(todo[e]["reader"]) \in Nat
         /\ OnTheWay(e, "write") \in Nat /\ OnTheWay(e, "read") \in Nat
         /\ ch[e].writeFree \in Nat /\ ch[e].readFree \in Nat /\ ch[e].count \in Nat
  <1>1. link[e] \in Seq(Message) /\ InHand(e) \in Seq(Message)
    BY DEF TypeOK, InHand
  <1>2. todo[e]["writer"] \in Seq(Message) /\ todo[e]["reader"] \in Seq(Message)
    BY DEF TypeOK, Thread
  <1>3. \A type \in Kinds, s \in Seq(Message) : SumOf(type, s) \in Nat
    BY SumFacts
  <1>4. OnTheWay(e, "write") \in Nat /\ OnTheWay(e, "read") \in Nat
    BY <1>1, <1>3 DEF OnTheWay, Kinds
  <1>5. ch[e].writeFree \in Nat /\ ch[e].readFree \in Nat /\ ch[e].count \in Nat
    BY DEF TypeOK, ChannelState
  <1> QED
    BY <1>2, <1>3, <1>4, <1>5 DEF Carried, Requested, Kinds

LEMMA InitInv == Init => Inv
  <1> SUFFICES ASSUME Init PROVE Inv
    OBVIOUS
  <1> DEFINE c == NewState(IF opener = None THEN "here" ELSE "none")
  <1>1. /\ c \in ChannelState /\ c.count = 0 /\ c.readFree = 0 /\ c.writeFree = 0
        /\ c.table = IF opener = None THEN "here" ELSE "none"
    BY NewStateFacts
  <1>2. \A e \in End : ch[e] = c /\ (opener # None => ch[e] = NewState("none"))
    BY DEF Init
  <1> HIDE DEF c
  <1>3. TypeOK
    BY <1>1, <1>2 DEF Init, TypeOK, Thread
  <1>4. Orderly
    BY <1>1, <1>2 DEF Init, Orderly, Thread
  <1>5. BufferFits
    BY <1>1, <1>2, SizeAssumption DEF BufferFits
  <1>6. WindowAgrees
    <2>1. \A e \in End : InHand(e) = <<>> /\ todo[e]["writer"] = <<>> /\ todo[e]["reader"] = <<>>
                        /\ link[e] = <<>>
      BY DEF Init, InHand, Thread
    <2> QED
      BY <1>1, <1>2, <2>1, SumEmpty, EndFacts DEF WindowAgrees, Balanced, OnTheWay, Carried, Requested
  <1>7. Standing
    <2>1. \A e \in End : /\ hand[e] = None /\ link[e] = <<>> /\ loop[e] \notin {"failed", "ended"}
                         /\ \A t \in Thread : todo[e][t] = <<>>
                         /\ pc[e]["closer"] # "mark"
      BY DEF Init, Thread
    <2>2. \A e \in End : OpensFirst(e) /\ (ch[e].table = "none" => Untouched(e))
      <3> SUFFICES ASSUME NEW e \in End
                   PROVE  OpensFirst(e) /\ (ch[e].table = "none" => Untouched(e))
        OBVIOUS
      <3>1. Other(e) \in End
        BY EndFacts
      <3>2. /\ Len(link[e]) = 0
            /\ \A t \in Thread : Len(todo[Other(e)][t]) = 0
        BY <2>1, <3>1
      <3>3. OpensFirst(e)
        BY <2>1, <3>2 DEF OpensFirst
      <3>4. ch[e].table = "none" => Untouched(e)
        BY <1>1, <1>2, <2>1, <3>1 DEF Untouched
      <3> QED
        BY <3>3, <3>4
    <2>3. \A e \in End : OpensLocked(e)
      BY <1>1, <1>2, EndFacts DEF OpensLocked, Silent, Awaits
    <2>4. opener # None => opener \in End
      BY OpenerAssumption DEF Init
    <2> QED
      BY <1>1, <1>2, <2>1, <2>2, <2>3, <2>4, EndFacts DEF Standing
  <1> QED
    BY <1>3, <1>4, <1>5, <1>6, <1>7 DEF Inv

(* Once the connection is lost only what always holds is left to say.       *)
LEMMA LostInv ==
  ASSUME TypeOK', Orderly', BufferFits', ~Connected'
  PROVE  Inv'
  BY DEF Inv, WindowAgrees

(* A step that moves no message and sets no window.                         *)
LEMMA QuietInv ==
  ASSUME Inv, TypeOK', Orderly', Connected' => Connected,
         UNCHANGED <<opener, ch, todo, hand, link>>,
         Connected => \A e \in End :
            /\ loop'[e] \notin {"failed", "ended"}
            /\ pc[e]["reader"] = "send" => pc'[e]["reader"] = "send"
            /\ pc'[e]["closer"] = "mark" => pc[e]["closer"] = "mark"
  PROVE  Inv'
  <1>1. BufferFits'
    BY DEF Inv, BufferFits
  <1>2. WindowAgrees'
    BY DEF Inv, WindowAgrees, Balanced, OnTheWay, InHand
  <1>3. ASSUME Connected' PROVE Standing'
    <2>1. Standing
      BY <1>3 DEF Inv
    <2>2. \A e \in End : /\ ch'[e].table \in {"none", "here"} /\ loop'[e] \notin {"failed", "ended"}
                         /\ (ch[e].table = "none" => Untouched(e)')
      BY <1>3, <2>1 DEF Standing, Untouched
    <2>3. \A e \in End : OpensFirst(e)'
      BY <2>1 DEF Standing, OpensFirst, Silent, Awaits
    <2>4. \A e \in End : OpensLocked(e)'
      BY <1>3, <2>1 DEF Standing, OpensLocked, Silent, Awaits
    <2> QED
      BY <2>1, <2>2, <2>3, <2>4 DEF Standing
  <1> QED
    BY <1>1, <1>2, <1>3 DEF Inv

(* What a thread has to send opens no channel, or is what it was.           *)
Harmless(e, t, q) ==
    \/ ~Silent(Other(e)) /\ \A i \in 1 .. Len(q) : q[i] # OpenChannel
    \/ q = todo[e][t] /\ pc'[e]["reader"] = pc[e]["reader"]

LEMMA StandingKept ==
  ASSUME Inv, Connected, NEW e \in End, NEW t \in Thread, NEW q \in Seq(Message),
         ch[e].table = "here", todo' = [todo EXCEPT ![e][t] = q], Harmless(e, t, q),
         UNCHANGED <<opener, hand, link, loop>>,
         \A d \in End : /\ ch'[d].table = ch[d].table
                        /\ d # e => ch'[d] = ch[d] /\ pc'[d] = pc[d]
  PROVE  Standing'
  <1> DEFINE o == Other(e)
  <1>1. o \in End /\ o # e /\ Other(o) = e /\ \A d \in End : d = e \/ d = o
    BY EndFacts
  <1>2. Standing /\ TypeOK
    BY DEF Inv
  <1>3. /\ todo'[o] = todo[o] /\ todo'[e][t] = q
        /\ \A u \in Thread : u # t => todo'[e][u] = todo[e][u]
    BY <1>1, <1>2 DEF TypeOK
  <1>4. \A d \in End : (Silent(d)' <=> Silent(d)) /\ (Awaits(d)' <=> Awaits(d))
    BY DEF Silent, Awaits
  <1>5. OpensFirst(o)'
    <2>1. OpensFirst(o)
      BY <1>1, <1>2 DEF Standing
    <2>2. CASE ~Silent(o) /\ \A i \in 1 .. Len(q) : q[i] # OpenChannel
      <3>1. \A u \in Thread : \A i \in 1 .. Len(todo'[e][u]) : todo'[e][u][i] # OpenChannel
        BY <1>1, <1>3, <2>1, <2>2 DEF OpensFirst
      <3> QED
        BY <1>1, <1>4, <2>1, <2>2, <3>1 DEF OpensFirst
    <2>3. CASE q = todo[e][t]
      <3>1. \A u \in Thread : todo'[e][u] = todo[e][u]
        BY <1>3, <2>3
      <3> QED
        BY <1>1, <1>4, <2>1, <3>1 DEF OpensFirst
    <2> QED
      BY <2>2, <2>3 DEF Harmless
  <1>6. OpensFirst(e)'
    BY <1>1, <1>2, <1>3, <1>4 DEF Standing, OpensFirst
  <1>7. OpensLocked(e)' /\ OpensLocked(o)'
    BY <1>1, <1>2, <1>4 DEF Standing, OpensLocked, Harmless
  <1>8. ch[o].table = "none" => Untouched(o)'
    BY <1>1, <1>2, <1>3 DEF Standing, Untouched
  <1>9. \A d \in End : ch'[d].table \in {"none", "here"} /\ loop'[d] \notin {"failed", "ended"}
    BY <1>2 DEF Standing
  <1>10. opener # None /\ ch'[opener].table = "none" => ch'[Other(opener)].table = "none"
    <2>1. opener # None => opener \in End
      BY <1>2, OpenerAssumption DEF TypeOK
    <2> QED
      BY <1>2, <2>1, EndFacts DEF Standing
  <1> QED
    BY <1>1, <1>5, <1>6, <1>7, <1>8, <1>9, <1>10 DEF Standing

LEMMA Shift ==
  \A a, b, x, y, f, g \in Nat : a + x + b = f /\ g + x = f + y => a + y + b = g
  OBVIOUS

(* A step that changes one channel and what one thread has to send, and     *)
(* moves no message.                                                        *)
LEMMA OneEndInv ==
  ASSUME Inv, TypeOK', Orderly', NEW e \in End, NEW t \in Thread, NEW q \in Seq(Message),
         NEW c \in ChannelState, ch' = [ch EXCEPT ![e] = c], c.table = ch[e].table,
         c.count + c.readFree <= Size,
         todo' = [todo EXCEPT ![e][t] = q],
         UNCHANGED <<opener, hand, link, loop, base>>, \A d \in End : d # e => pc'[d] = pc[d],
         Connected => /\ ch[e].table = "here" /\ Harmless(e, t, q)
                      /\ c.writeFree + Carried(todo'[e]["writer"])
                            = ch[e].writeFree + Carried(todo[e]["writer"])
                      /\ c.readFree + Requested(todo[e]["reader"])
                            = ch[e].readFree + Requested(todo'[e]["reader"])
  PROVE  Inv'
  <1> DEFINE o == Other(e)
  <1>1. o \in End /\ o # e /\ Other(o) = e /\ \A d \in End : d = e \/ d = o
    BY EndFacts
  <1>2. ch'[e] = c /\ ch'[o] = ch[o] /\ todo'[o] = todo[o]
    BY <1>1 DEF Inv, TypeOK
  <1>3. BufferFits'
    BY <1>1, <1>2 DEF Inv, BufferFits
  <1>4. Connected' <=> Connected
    BY DEF Connected
  <1>5. WindowAgrees'
    <2> SUFFICES ASSUME Connected PROVE \A s \in End : Balanced(s)'
      BY <1>4 DEF WindowAgrees
    <2>1. \A d \in End, type \in Kinds : OnTheWay(d, type)' = OnTheWay(d, type)
      BY DEF OnTheWay, InHand
    <2>2. /\ OnTheWay(e, "write")' = OnTheWay(e, "write") /\ OnTheWay(o, "write")' = OnTheWay(o, "write")
          /\ OnTheWay(e, "read")' = OnTheWay(e, "read") /\ OnTheWay(o, "read")' = OnTheWay(o, "read")
      BY <1>1, <2>1 DEF Kinds
    <2>3. /\ ch[e].writeFree + Carried(todo[e]["writer"]) + OnTheWay(o, "write")
               + Requested(todo[o]["reader"]) + OnTheWay(e, "read") = ch[o].readFree
          /\ ch[o].writeFree + Carried(todo[o]["writer"]) + OnTheWay(e, "write")
               + Requested(todo[e]["reader"]) + OnTheWay(o, "read") = ch[e].readFree
      BY <1>1 DEF Inv, WindowAgrees, Balanced
    <2>4. /\ c.writeFree + Carried(todo'[e]["writer"]) = ch[e].writeFree + Carried(todo[e]["writer"])
          /\ c.readFree + Requested(todo[e]["reader"]) = ch[e].readFree + Requested(todo'[e]["reader"])
      OBVIOUS
    <2>5. c.writeFree \in Nat /\ c.readFree \in Nat
      BY DEF ChannelState
    <2>9. \A d \in End :
            /\ Carried(todo[d]["writer"]) \in Nat /\ Requested(todo[d]["reader"]) \in Nat
            /\ OnTheWay(d, "write") \in Nat /\ OnTheWay(d, "read") \in Nat
            /\ ch[d].writeFree \in Nat /\ ch[d].readFree \in Nat
      BY Numbers DEF Inv
    <2> HIDE DEF o
    <2>6. Carried(todo'[e]["writer"]) \in Nat /\ Requested(todo'[e]["reader"]) \in Nat
      <3>1. todo'[e]["writer"] \in Seq(Message) /\ todo'[e]["reader"] \in Seq(Message)
        BY DEF TypeOK, Thread
      <3> QED
        BY <3>1, SumFacts DEF Carried, Requested, Kinds
    <2>7. ch'[e].writeFree + Carried(todo'[e]["writer"]) + OnTheWay(o, "write")'
            + Requested(todo'[o]["reader"]) + OnTheWay(e, "read")' = ch'[o].readFree
      <3>1. ch[e].writeFree + Carried(todo[e]["writer"]) = c.writeFree + Carried(todo'[e]["writer"])
        BY <2>4
      <3>2. c.writeFree + Carried(todo'[e]["writer"]) + OnTheWay(o, "write")
              + Requested(todo[o]["reader"]) + OnTheWay(e, "read") = ch[o].readFree
        BY <2>3, <3>1
      <3> QED
        BY <1>2, <2>2, <3>2
    <2>8. ch'[o].writeFree + Carried(todo'[o]["writer"]) + OnTheWay(e, "write")'
            + Requested(todo'[e]["reader"]) + OnTheWay(o, "read")' = ch'[e].readFree
      <3>1. ch[o].writeFree + Carried(todo[o]["writer"]) + OnTheWay(e, "write")
              + Requested(todo'[e]["reader"]) + OnTheWay(o, "read") = c.readFree
        <4> DEFINE a == ch[o].writeFree + Carried(todo[o]["writer"]) + OnTheWay(e, "write")
                   b == OnTheWay(o, "read")
                   x == Requested(todo[e]["reader"])
                   y == Requested(todo'[e]["reader"])
                   f == ch[e].readFree
                   g == c.readFree
        <4>a. o \in End
          BY <1>1
        <4>b. y \in Nat
          BY <2>6
        <4>c. x \in Nat
          BY <2>9
        <4>d. b \in Nat
          BY <2>9, <4>a
        <4>e. a \in Nat
          <5>1. /\ ch[o].writeFree \in Nat /\ Carried(todo[o]["writer"]) \in Nat
                /\ OnTheWay(e, "write") \in Nat
            BY <2>9, <4>a
          <5> QED
            BY <5>1
        <4>f. ch[e].readFree \in Nat
          BY <2>9
        <4>1. a \in Nat /\ b \in Nat /\ x \in Nat /\ y \in Nat /\ f \in Nat /\ g \in Nat
          BY <2>5, <4>b, <4>c, <4>d, <4>e, <4>f
        <4>2. a + x + b = f
          BY <2>3
        <4>3. g + x = f + y
          BY <2>4
        <4> HIDE DEF a, b, x, y, f, g
        <4>4. a + y + b = g
          BY <4>1, <4>2, <4>3, Shift
        <4> QED
          BY <4>4 DEF a, b, y, g
      <3> QED
        BY <1>2, <2>2, <3>1
    <2> QED
      BY <1>1, <2>7, <2>8 DEF o, Balanced
  <1>6. ASSUME Connected PROVE Standing'
    <2>1. \A d \in End : /\ ch'[d].table = ch[d].table
                         /\ d # e => ch'[d] = ch[d] /\ pc'[d] = pc[d]
      BY <1>1, <1>2
    <2> QED
      BY <1>6, <2>1, StandingKept
  <1> QED
    BY <1>3, <1>4, <1>5, <1>6 DEF Inv

LEMMA LockInv == ASSUME Inv, NEW e \in End, NEW t \in Thread, Lock(e, t) PROVE Inv'
  <1>1. /\ pc[e][t] = "want" /\ lock[e] = None
        /\ lock' = [lock EXCEPT ![e] = t] /\ pc' = [pc EXCEPT ![e][t] = "send"]
        /\ UNCHANGED <<opener, ch, todo, hand, link, loop, base, version, next, got>>
    BY DEF Lock, Goto, recvVars
  <1>2. TypeOK'
    BY <1>1 DEF Inv, TypeOK
  <1>3. Orderly'
    <2>1. /\ \A x \in End, u \in Thread : pc'[x][u] = IF x = e /\ u = t THEN "send" ELSE pc[x][u]
          /\ \A x \in End : lock'[x] = IF x = e THEN t ELSE lock[x]
      BY <1>1 DEF Inv, TypeOK
    <2>2. \A u \in Thread : u # None
      BY NoneAssumption
    <2>3. "reader" \in Thread
      BY DEF Thread
    <2> QED
      BY <1>1, <2>1, <2>2, <2>3 DEF Inv, Orderly
  <1>4. Connected' => Connected
    BY <1>1 DEF Connected
  <1>5. Connected => \A d \in End : /\ loop'[d] \notin {"failed", "ended"}
                                    /\ pc[d]["reader"] = "send" => pc'[d]["reader"] = "send"
                                    /\ pc'[d]["closer"] = "mark" => pc[d]["closer"] = "mark"
    BY <1>1 DEF Inv, TypeOK, Standing
  <1> QED
    BY <1>1, <1>2, <1>3, <1>4, <1>5, QuietInv

LEMMA SendFailsInv == ASSUME Inv, NEW e \in End, NEW t \in Thread, SendFails(e, t) PROVE Inv'
  <1> DEFINE w == IF t = "closer" THEN "mark" ELSE "join"
             k == IF t = "closer" THEN None ELSE t
  <1>1. /\ pc[e][t] = "send" /\ ~Connected
        /\ pc' = [pc EXCEPT ![e][t] = w] /\ lock' = [lock EXCEPT ![e] = k]
        /\ todo' = [todo EXCEPT ![e][t] = <<>>]
        /\ base' = base \/ base' = [base EXCEPT ![e] = "closed"]
        /\ UNCHANGED <<opener, ch, hand, link, loop, version, next, got>>
    <2>1. ~Connected
      BY EndFacts DEF SendFails, Connected
    <2> QED
      BY <2>1 DEF SendFails, BeginClose, recvVars
  <1>2. TypeOK'
    <2>1. <<>> \in Seq(SentBy(t)) /\ <<>> \in Seq(Message)
      OBVIOUS
    <2>2. w \in {"mark", "join"} /\ k \in Thread \cup {None}
      OBVIOUS
    <2> HIDE DEF w, k
    <2>3. /\ todo' \in [End -> [Thread -> Seq(Message)]]
          /\ \A x \in End, u \in Thread : todo'[x][u] \in Seq(SentBy(u))
      BY <1>1, <2>1 DEF Inv, TypeOK
    <2>4. base' \in [End -> {"open", "closed"}]
      BY <1>1 DEF Inv, TypeOK
    <2> QED
      BY <1>1, <2>2, <2>3, <2>4 DEF Inv, TypeOK
  <1>3. Orderly'
    BY <1>1 DEF Inv, TypeOK, Orderly
  <1>4. BufferFits' /\ ~Connected'
    BY <1>1 DEF Inv, BufferFits, Connected, TypeOK
  <1> QED
    BY <1>2, <1>3, <1>4, LostInv

LEMMA SendCutInv == ASSUME Inv, NEW e \in End, SendCut(e) PROVE Inv'
  <1> DEFINE o == Other(e)
             m == Head(todo[e]["writer"])
  <1>1. /\ pc[e]["writer"] = "send"
        /\ pc' = [pc EXCEPT ![e]["writer"] = "join"] /\ lock' = [lock EXCEPT ![e] = "writer"]
        /\ todo' = [todo EXCEPT ![e]["writer"] = <<>>]
        /\ base' = [base EXCEPT ![e] = "closed"]
        /\ UNCHANGED <<opener, ch, hand, loop, version, next, got>>
    BY DEF SendCut, BeginClose, recvVars
  <1>2. PICK k \in 0 .. m.size - 1 :
           link' = [link EXCEPT ![o] = Append(@, WriteData(m.size, SubSeq(m.data, 1, k)))]
    BY DEF SendCut
  <1>3. m \in Writes /\ Len(m.data) = m.size
    <2>1. todo[e]["writer"] # <<>> /\ todo[e]["writer"] \in Seq(SentBy("writer"))
      BY <1>1 DEF Inv, Orderly, TypeOK, Thread
    <2> QED
      BY <2>1 DEF SentBy
  <1>4. WriteData(m.size, SubSeq(m.data, 1, k)) \in Message
    <2>1. SubSeq(m.data, 1, k) \in Seq(Nat)
      <3>1. m.data \in Seq(Nat) /\ m.size \in Nat /\ k \in 0 .. Len(m.data)
        BY <1>3 DEF Writes
      <3> HIDE DEF m
      <3> QED
        BY <3>1
    <2> QED
      BY <1>3, <2>1 DEF Writes, WriteData, Message
  <1> HIDE DEF m
  <1>5. link' \in [End -> Seq(Message)]
    BY <1>2, <1>4, EndFacts DEF Inv, TypeOK
  <1>6. TypeOK'
    <2>1. \A t \in Thread : <<>> \in Seq(SentBy(t)) /\ <<>> \in Seq(Message)
      OBVIOUS
    <2> QED
      BY <1>1, <1>5, <2>1 DEF Inv, TypeOK, Thread
  <1>7. Orderly'
    BY <1>1 DEF Inv, TypeOK, Orderly, Thread
  <1>8. BufferFits' /\ ~Connected'
    BY <1>1 DEF Inv, BufferFits, Connected, TypeOK
  <1> QED
    BY <1>6, <1>7, <1>8, LostInv

LEMMA JoinInv == ASSUME Inv, NEW e \in End, NEW t \in Thread, Join(e, t) PROVE Inv'
  <1>1. /\ pc[e][t] = "join"
        /\ lock' = [lock EXCEPT ![e] = None] /\ pc' = [pc EXCEPT ![e][t] = "done"]
        /\ UNCHANGED <<opener, todo, hand, link, base, version, next, got>>
    BY DEF Join, Goto
  <1>2. CASE loop[e] # "ended"
    <2>1. UNCHANGED <<loop, ch>>
      BY <1>2 DEF Join
    <2>2. TypeOK'
      BY <1>1, <2>1 DEF Inv, TypeOK
    <2>3. Orderly'
      BY <1>1, <2>1, NoneAssumption DEF Inv, TypeOK, Orderly
    <2>4. Connected => \A d \in End : /\ loop'[d] \notin {"failed", "ended"}
                                      /\ pc[d]["reader"] = "send" => pc'[d]["reader"] = "send"
                                      /\ pc'[d]["closer"] = "mark" => pc[d]["closer"] = "mark"
      BY <1>1, <2>1 DEF Inv, TypeOK, Standing
    <2>5. Connected' => Connected
      BY <1>1 DEF Connected
    <2> QED
      BY <1>1, <2>1, <2>2, <2>3, <2>4, <2>5, QuietInv
  <1>3. CASE loop[e] = "ended"
    <2> DEFINE c == [HangUp(ch[e]) EXCEPT !.table = "gone"]
    <2>1. loop' = [loop EXCEPT ![e] = "joined"] /\ ch' = [ch EXCEPT ![e] = c]
      BY <1>3 DEF Join
    <2>2. c \in ChannelState /\ c.count = ch[e].count /\ c.readFree = ch[e].readFree
      <3>1. ch[e] \in ChannelState
        BY DEF Inv, TypeOK
      <3>2. Becomes(ch[e], HangUp(ch[e]), ch[e].count, ch[e].readFree, ch[e].writeFree)
        BY <3>1, HangUpFacts
      <3> QED
        BY <3>2 DEF Becomes, ChannelState
    <2> HIDE DEF c
    <2>3. TypeOK'
      BY <1>1, <2>1, <2>2 DEF Inv, TypeOK
    <2>4. \A d \in End : ch'[d].count = ch[d].count /\ ch'[d].readFree = ch[d].readFree
      BY <2>1, <2>2 DEF Inv, TypeOK
    <2>5. Orderly'
      BY <1>1, <1>3, <2>1, <2>4, NoneAssumption DEF Inv, TypeOK, Orderly
    <2>6. BufferFits' /\ ~Connected'
      BY <1>1, <1>3, <2>4 DEF Inv, BufferFits, Connected, Standing
    <2> QED
      BY <2>3, <2>5, <2>6, LostInv
  <1> QED
    BY <1>2, <1>3

(* CloseMuxer() and the end of the receive thread: the connection is lost.  *)
LEMMA CloseInv == ASSUME Inv, NEW e \in End, CloseMuxer(e) PROVE Inv'
  <1>1. /\ pc[e]["closer"] = "idle" /\ lock[e] = None
        /\ pc' = [pc EXCEPT ![e]["closer"] = "join"] /\ lock' = [lock EXCEPT ![e] = "closer"]
        /\ todo' = [todo EXCEPT ![e]["closer"] = <<>>]
        /\ base' = [base EXCEPT ![e] = "closed"]
        /\ UNCHANGED <<opener, ch, hand, loop, link, version, next, got>>
    BY DEF CloseMuxer, BeginClose, recvVars
  <1>2. TypeOK'
    <2>1. \A t \in Thread : <<>> \in Seq(SentBy(t)) /\ <<>> \in Seq(Message)
      OBVIOUS
    <2> QED
      BY <1>1, <2>1 DEF Inv, TypeOK, Thread
  <1>3. Orderly'
    BY <1>1, NoneAssumption DEF Inv, TypeOK, Orderly, Thread
  <1>4. BufferFits' /\ ~Connected'
    BY <1>1 DEF Inv, BufferFits, Connected, TypeOK
  <1> QED
    BY <1>2, <1>3, <1>4, LostInv

LEMMA EndsInv ==
  ASSUME Inv, NEW e \in End, ReceiveEnds(e) \/ ReceiveStopped(e) \/ LoopCloses(e)
  PROVE  Inv'
  <1>1. /\ loop[e] \in {"reading", "failed"} /\ ~Connected'
        /\ loop' = loop \/ \E l \in {"failed", "ended"} : loop' = [loop EXCEPT ![e] = l]
        /\ base' = base \/ base' = [base EXCEPT ![e] = "closed"]
        /\ version' = version \/ version' = [version EXCEPT ![e] = 0]
        /\ UNCHANGED <<opener, ch, lock, pc, todo, hand, link, next, got>>
    <2>1. CASE ReceiveEnds(e)
      BY <2>1, EndFacts DEF ReceiveEnds, Connected
    <2>2. CASE ReceiveStopped(e)
      BY <2>2 DEF ReceiveStopped, Connected
    <2>3. CASE LoopCloses(e)
      <3>1. base'[e] = "closed"
        BY <2>3 DEF LoopCloses, Inv, TypeOK
      <3> QED
        BY <2>3, <3>1 DEF LoopCloses, Connected
    <2> QED
      BY <2>1, <2>2, <2>3
  <1>2. TypeOK'
    BY <1>1 DEF Inv, TypeOK
  <1>3. Orderly'
    BY <1>1 DEF Inv, TypeOK, Orderly
  <1>4. BufferFits'
    BY <1>1 DEF Inv, BufferFits
  <1> QED
    BY <1>1, <1>2, <1>3, <1>4, LostInv


(* An end that has a channel has opened it at the other end, but for the    *)
(* time of one lock.                                                        *)
LEMMA NotSilent ==
  ASSUME Inv, Connected, NEW e \in End, ch[e].table = "here",
         lock[e] = None \/ pc[e]["reader"] # "send" \/ ch[e].writeFree # 0
  PROVE  ~Silent(Other(e))
  <1> DEFINE o == Other(e)
  <1>1. o \in End
    BY EndFacts
  <1> SUFFICES ASSUME Silent(o) PROVE FALSE
    OBVIOUS
  <1>2. pc[e]["reader"] = "send"
    BY DEF Inv, Standing, OpensLocked
  <1>3. lock[e] = "reader"
    BY <1>2 DEF Inv, Orderly, Thread
  <1>4. ch[e].writeFree # 0
    BY <1>2, <1>3, NoneAssumption DEF Thread
  <1>5. ch[o] = NewState("none")
    BY <1>1 DEF Silent, Awaits, Inv, Standing, Untouched
  <1>6. ch[o].readFree = 0
    BY <1>5, NewStateFacts
  <1>7. Balanced(e)
    BY DEF Inv, WindowAgrees
  <1> DEFINE w == ch[e].writeFree
             a == Carried(todo[e]["writer"])
             b == OnTheWay(o, "write")
             x == Requested(todo[o]["reader"])
             y == OnTheWay(e, "read")
  <1>8. w \in Nat /\ a \in Nat /\ y \in Nat
    BY Numbers DEF Inv
  <1>9. b \in Nat /\ x \in Nat
    BY <1>1, Numbers DEF Inv
  <1>10. w + a + b + x + y = 0 /\ w # 0
    BY <1>4, <1>6, <1>7 DEF Balanced
  <1> HIDE DEF w, a, b, x, y
  <1> QED
    BY <1>8, <1>9, <1>10

LEMMA AcceptInv == ASSUME Inv, NEW e \in End, Accept(e) PROVE Inv'
  <1> DEFINE c == [ch[e] EXCEPT !.readFree = @ + Size]
             r == ReadMore(Size)
             q == IF opener = None THEN <<Version, r>> ELSE <<r>>
  <1>1. /\ pc[e]["reader"] = "new" /\ lock[e] = None /\ ch[e].table = "here"
        /\ ch' = [ch EXCEPT ![e] = c] /\ todo' = [todo EXCEPT ![e]["reader"] = q]
        /\ pc' = [pc EXCEPT ![e]["reader"] = "want"]
        /\ UNCHANGED <<opener, lock, loop, hand, link, base, version, next, got>>
    BY DEF Accept, CanLookup, Goto, recvVars, Inv, TypeOK
  <1>2. /\ ch[e] \in ChannelState /\ ch[e].count = 0 /\ ch[e].readFree = 0
        /\ todo[e]["reader"] = <<>>
    BY <1>1 DEF Inv, TypeOK, Orderly, Thread
  <1>3. /\ c \in ChannelState /\ c.table = ch[e].table /\ c.count = 0 /\ c.readFree = Size
        /\ c.writeFree = ch[e].writeFree
    <2>1. c = [ch[e] EXCEPT !.readFree = Size]
      BY <1>2, SizeAssumption
    <2> HIDE DEF c
    <2> QED
      BY <1>2, <2>1, SizeAssumption DEF ChannelState
  <1>4. /\ r \in Message /\ r \in SentBy("reader") /\ r # OpenChannel
        /\ Version \in Message /\ Version \in SentBy("reader") /\ Version # OpenChannel
        /\ Amount(r, "read") = Size /\ Amount(Version, "read") = 0
    BY SizeAssumption DEF ReadMore, Message, SentBy, Reads, Version, OpenChannel, Amount
  <1> HIDE DEF c, r
  <1>5. /\ q \in Seq(Message) /\ q \in Seq(SentBy("reader")) /\ q # <<>>
        /\ \A i \in 1 .. Len(q) : q[i] # OpenChannel
    BY <1>4
  <1>6. Requested(q) = Size
    <2>1. SumOf("read", <<r>>) = Size
      BY <1>4, SumOne DEF Kinds
    <2>2. SumOf("read", <<Version, r>>) = Size
      <3>1. <<Version, r>> = Append(<<Version>>, r) /\ <<Version>> \in Seq(Message)
        BY <1>4
      <3>2. SumOf("read", <<Version, r>>) = SumOf("read", <<Version>>) + Amount(r, "read")
        BY <1>4, <3>1, SumFacts DEF Kinds
      <3>3. SumOf("read", <<Version>>) = 0
        BY <1>4, SumOne DEF Kinds
      <3> QED
        BY <1>4, <3>2, <3>3, SizeAssumption
    <2> QED
      BY <2>1, <2>2 DEF Requested
  <1> HIDE DEF q
  <1>7. TypeOK'
    BY <1>1, <1>3, <1>5 DEF Inv, TypeOK, Thread
  <1>8. Orderly'
    BY <1>1, <1>3, <1>5 DEF Inv, TypeOK, Orderly, Thread
  <1>9. c.count + c.readFree <= Size
    BY <1>3, SizeAssumption
  <1>10. todo'[e]["reader"] = q /\ todo'[e]["writer"] = todo[e]["writer"]
    BY <1>1 DEF Inv, TypeOK, Thread
  <1>11. /\ c.writeFree + Carried(todo'[e]["writer"]) = ch[e].writeFree + Carried(todo[e]["writer"])
         /\ c.readFree + Requested(todo[e]["reader"]) = ch[e].readFree + Requested(todo'[e]["reader"])
    BY <1>2, <1>3, <1>6, <1>10, SumEmpty, SizeAssumption DEF Requested
  <1>12. Connected => ch[e].table = "here" /\ Harmless(e, "reader", q)
    BY <1>1, <1>5, NotSilent DEF Harmless
  <1>13. \A d \in End : d # e => pc'[d] = pc[d]
    BY <1>1 DEF Inv, TypeOK
  <1> QED
    BY <1>1, <1>3, <1>5, <1>7, <1>8, <1>9, <1>11, <1>12, <1>13, OneEndInv DEF Thread


LEMMA CloseStreamInv == ASSUME Inv, NEW e \in End, CloseStream(e) PROVE Inv'
  <1> DEFINE q == <<CloseChannel>>
             c == ch[e]
  <1>1. /\ pc[e]["closer"] = "idle" /\ lock[e] = None /\ c.table = "here"
        /\ todo' = [todo EXCEPT ![e]["closer"] = q]
        /\ pc' = [pc EXCEPT ![e]["closer"] = "want"]
        /\ UNCHANGED <<opener, ch, lock, loop, hand, link, base, version, next, got>>
    BY DEF CloseStream, CanLookup, Goto, recvVars
  <1>2. /\ CloseChannel \in Message /\ CloseChannel \in SentBy("closer")
        /\ CloseChannel # OpenChannel
    BY DEF Message, SentBy, CloseChannel, OpenChannel
  <1>3. /\ q \in Seq(Message) /\ q \in Seq(SentBy("closer")) /\ q # <<>>
        /\ \A i \in 1 .. Len(q) : q[i] # OpenChannel
    BY <1>2
  <1> HIDE DEF q
  <1>4. TypeOK'
    BY <1>1, <1>3 DEF Inv, TypeOK, Thread
  <1>5. Orderly'
    BY <1>1, <1>3 DEF Inv, TypeOK, Orderly, Thread
  <1>6. /\ c \in ChannelState /\ c.count + c.readFree <= Size /\ ch' = [ch EXCEPT ![e] = c]
    BY <1>1 DEF Inv, TypeOK, BufferFits
  <1>7. /\ todo'[e]["writer"] = todo[e]["writer"] /\ todo'[e]["reader"] = todo[e]["reader"]
        /\ \A d \in End : d # e => pc'[d] = pc[d]
    BY <1>1 DEF Inv, TypeOK, Thread
  <1>8. Connected => Harmless(e, "closer", q)
    BY <1>1, <1>3, NotSilent DEF Harmless
  <1> HIDE DEF c
  <1>9. "closer" \in Thread /\ c = ch[e]
    BY DEF Thread, c
  <1> QED
    BY <1>1, <1>3, <1>4, <1>5, <1>6, <1>7, <1>8, <1>9, OneEndInv

(* A step that changes one channel and its threads, and moves no message.   *)
LEMMA ChannelInv ==
  ASSUME Inv, TypeOK', Orderly', NEW e \in End, NEW c \in ChannelState,
         ch' = [ch EXCEPT ![e] = c],
         Becomes(ch[e], c, ch[e].count, ch[e].readFree, ch[e].writeFree),
         Connected => ch[e].table = "here",
         pc'[e]["reader"] = pc[e]["reader"] \/ lock[e] = None \/ pc[e]["reader"] # "send",
         UNCHANGED <<opener, todo, hand, link, loop, base>>,
         \A d \in End : d # e => pc'[d] = pc[d]
  PROVE  Inv'
  <1> DEFINE q == todo[e]["closer"]
  <1>1. q \in Seq(Message) /\ q \in Seq(SentBy("closer"))
    BY DEF Inv, TypeOK, Thread
  <1>2. todo' = [todo EXCEPT ![e]["closer"] = q]
    BY DEF Inv, TypeOK, Thread
  <1>3. \A i \in 1 .. Len(q) : q[i] # OpenChannel
    BY <1>1, MessageFacts DEF Thread
  <1>4. Connected => Harmless(e, "closer", q)
    BY <1>3, NotSilent DEF Harmless
  <1>5. c.count + c.readFree <= Size /\ c.table = ch[e].table
    BY DEF Inv, BufferFits, Becomes
  <1>6. /\ c.writeFree + Carried(todo'[e]["writer"]) = ch[e].writeFree + Carried(todo[e]["writer"])
        /\ c.readFree + Requested(todo[e]["reader"]) = ch[e].readFree + Requested(todo'[e]["reader"])
    BY DEF Becomes
  <1> HIDE DEF q
  <1>7. "closer" \in Thread
    BY DEF Thread
  <1>8. Connected => /\ ch[e].table = "here" /\ Harmless(e, "closer", q)
                     /\ c.writeFree + Carried(todo'[e]["writer"])
                           = ch[e].writeFree + Carried(todo[e]["writer"])
                     /\ c.readFree + Requested(todo[e]["reader"])
                           = ch[e].readFree + Requested(todo'[e]["reader"])
    BY <1>4, <1>6
  <1>9. UNCHANGED <<opener, hand, link, loop, base>>
    OBVIOUS
  <1>10. q \in Seq(Message)
    BY <1>1
  <1> QED
    BY <1>2, <1>5, <1>7, <1>8, <1>9, <1>10, OneEndInv, ZenonT(60)

LEMMA MarkClosedInv == ASSUME Inv, NEW e \in End, MarkClosed(e) PROVE Inv'
  <1> DEFINE c == IF ch[e].hup \/ ch[e].err THEN ch[e] ELSE HangUp(ch[e])
  <1>1. /\ pc[e]["closer"] = "mark" /\ ch' = [ch EXCEPT ![e] = c]
        /\ pc' = [pc EXCEPT ![e]["closer"] = "idle"]
        /\ UNCHANGED <<opener, todo, lock, loop, hand, link, base, version, next, got>>
    BY DEF MarkClosed, Goto, recvVars, Inv, TypeOK
  <1>2. ch[e] \in ChannelState
    BY DEF Inv, TypeOK
  <1>3. Becomes(ch[e], c, ch[e].count, ch[e].readFree, ch[e].writeFree)
    BY <1>2, HangUpFacts DEF Becomes
  <1> HIDE DEF c
  <1>4. c \in ChannelState /\ c.count = ch[e].count /\ c.readFree = ch[e].readFree
    BY <1>3 DEF Becomes
  <1>5. TypeOK'
    BY <1>1, <1>4 DEF Inv, TypeOK, Thread
  <1>6. Orderly'
    <2>1. /\ \A x \in End, u \in Thread :
                pc'[x][u] = IF x = e /\ u = "closer" THEN "idle" ELSE pc[x][u]
          /\ \A x \in End : ch'[x].count = ch[x].count /\ ch'[x].readFree = ch[x].readFree
      BY <1>1, <1>4 DEF Inv, TypeOK
    <2>2. "reader" \in Thread /\ "closer" \in Thread
      BY DEF Thread
    <2> QED
      BY <1>1, <2>1, <2>2 DEF Inv, Orderly
  <1>7. Connected => ch[e].table = "here"
    BY <1>1 DEF Inv, Standing, Untouched
  <1>8. /\ pc'[e]["reader"] = pc[e]["reader"]
        /\ \A d \in End : d # e => pc'[d] = pc[d]
    BY <1>1 DEF Inv, TypeOK, Thread
  <1> QED
    BY <1>1, <1>3, <1>4, <1>5, <1>6, <1>7, <1>8, ChannelInv

(* The reader or the writer goes on, and has nothing to send.               *)
LEMMA GoesOnInv ==
  ASSUME Inv, NEW e \in End, NEW t \in {"reader", "writer"}, pc[e][t] \in {"ready", "waiting"},
         NEW w \in {"ready", "waiting", "eof", "error"}, Goto(e, t, w),
         ch' = ch \/ (ch' = [ch EXCEPT ![e].err = TRUE] /\ (Connected => ch[e].table = "here")),
         UNCHANGED <<lock, todo, recvVars, link, base, next, got>>
  PROVE  Inv'
  <1> DEFINE c == [ch[e] EXCEPT !.err = TRUE]
  <1>1. /\ pc' = [pc EXCEPT ![e][t] = w] /\ t \in Thread
        /\ UNCHANGED <<opener, todo, lock, loop, hand, link, base, version, next, got>>
    BY DEF Goto, recvVars, Thread
  <1>2. /\ \A d \in End, u \in Thread : pc'[d][u] = IF d = e /\ u = t THEN w ELSE pc[d][u]
        /\ \A d \in End : d # e => pc'[d] = pc[d]
    BY <1>1 DEF Inv, TypeOK
  <1>3. ch[e] \in ChannelState /\ ch \in [End -> ChannelState]
    BY DEF Inv, TypeOK
  <1>4. c \in ChannelState /\ Becomes(ch[e], c, ch[e].count, ch[e].readFree, ch[e].writeFree)
    BY <1>3 DEF Becomes, ChannelState
  <1>5. ch' = ch \/ ch' = [ch EXCEPT ![e] = c]
    OBVIOUS
  <1> HIDE DEF c
  <1>6. /\ ch' \in [End -> ChannelState]
        /\ \A d \in End : ch'[d].count = ch[d].count /\ ch'[d].readFree = ch[d].readFree
    BY <1>3, <1>4, <1>5 DEF Becomes
  <1>7. TypeOK'
    BY <1>1, <1>6 DEF Inv, TypeOK
  <1>8. Orderly'
    <2> SUFFICES ASSUME NEW d \in End
                 PROVE  /\ \A u \in Thread :
                              /\ pc'[d][u] \in {"send", "join"} => lock'[d] = u
                              /\ pc'[d][u] \in {"want", "send"} <=> todo'[d][u] # <<>>
                        /\ hand'[d] # None <=> loop'[d] = "got"
                        /\ pc'[d]["reader"] = "new" => ch'[d].count = 0 /\ ch'[d].readFree = 0
      BY DEF Orderly
    <2>1. /\ \A u \in Thread : /\ pc[d][u] \in {"send", "join"} => lock[d] = u
                               /\ pc[d][u] \in {"want", "send"} <=> todo[d][u] # <<>>
          /\ hand[d] # None <=> loop[d] = "got"
          /\ pc[d]["reader"] = "new" => ch[d].count = 0 /\ ch[d].readFree = 0
      BY DEF Inv, Orderly
    <2>2. \A u \in Thread : /\ pc'[d][u] \in {"send", "join"} => lock'[d] = u
                            /\ pc'[d][u] \in {"want", "send"} <=> todo'[d][u] # <<>>
      BY <1>1, <1>2, <2>1
    <2>3. pc'[d]["reader"] = "new" => ch'[d].count = 0 /\ ch'[d].readFree = 0
      BY <1>2, <1>6, <2>1 DEF Thread
    <2> QED
      BY <1>1, <2>1, <2>2, <2>3
  <1>9. CASE ch' = ch
    <2>1. Connected => \A d \in End : /\ loop'[d] \notin {"failed", "ended"}
                                      /\ pc[d]["reader"] = "send" => pc'[d]["reader"] = "send"
                                      /\ pc'[d]["closer"] = "mark" => pc[d]["closer"] = "mark"
      <3>1. Connected => \A d \in End : loop'[d] \notin {"failed", "ended"}
        BY <1>1 DEF Inv, Standing
      <3> QED
        BY <1>2, <3>1 DEF Thread
    <2>2. Connected' => Connected
      BY <1>1 DEF Connected
    <2> QED
      BY <1>1, <1>7, <1>8, <1>9, <2>1, <2>2, QuietInv
  <1>10. CASE ch' = [ch EXCEPT ![e].err = TRUE] /\ (Connected => ch[e].table = "here")
    <2>1. ch' = [ch EXCEPT ![e] = c]
      BY <1>10 DEF c
    <2>2. pc'[e]["reader"] = pc[e]["reader"] \/ pc[e]["reader"] # "send"
      BY <1>2 DEF Thread
    <2> QED
      BY <1>1, <1>2, <1>4, <1>7, <1>8, <1>10, <2>1, <2>2, ChannelInv
  <1> QED
    BY <1>9, <1>10

(* The reader takes n bytes, and requests as many as it sets aside.         *)
LEMMA TakesInv ==
  ASSUME Inv, NEW e \in End, pc[e]["reader"] \in {"ready", "waiting"},
         Connected => ch[e].table = "here",
         NEW n \in 1 .. ch[e].count, NEW more \in {0, Request(Taken(ch[e], n))},
         got' = [got EXCEPT ![e] = @ \o Bytes(ch[e], n)],
         ch' = [ch EXCEPT ![e] = [Taken(ch[e], n) EXCEPT !.readFree = @ + more]],
         IF more = 0
           THEN Goto(e, "reader", "ready") /\ UNCHANGED todo
           ELSE /\ todo' = [todo EXCEPT ![e]["reader"] = <<ReadMore(more)>>]
                /\ Goto(e, "reader", "want"),
         UNCHANGED <<lock, recvVars, link, base, next>>
  PROVE  Inv'
  <1> DEFINE d == Taken(ch[e], n)
             c == [d EXCEPT !.readFree = @ + more]
             q == IF more = 0 THEN <<>> ELSE <<ReadMore(more)>>
             w == IF more = 0 THEN "ready" ELSE "want"
  <1>1. /\ ch[e] \in ChannelState /\ todo[e]["reader"] = <<>> /\ got[e] \in Seq(Nat)
        /\ ch[e].count + ch[e].readFree <= Size
    BY DEF Inv, TypeOK, Orderly, BufferFits, Thread
  <1>2. n \in Nat /\ ch[e].count \in Nat /\ ch[e].readFree \in Nat /\ n <= ch[e].count
    BY <1>1 DEF ChannelState
  <1>3. Becomes(ch[e], d, ch[e].count - n, ch[e].readFree, ch[e].writeFree)
    BY <1>1, TakenFacts
  <1> HIDE DEF d
  <1>4. d \in ChannelState /\ d.count = ch[e].count - n /\ d.readFree = ch[e].readFree
    BY <1>3 DEF Becomes
  <1>5. d.count + d.readFree <= Size /\ d.count \in Nat /\ d.readFree \in Nat
    BY <1>1, <1>2, <1>4, SizeAssumption
  <1>6. more \in Nat /\ d.count + d.readFree + more <= Size
    <2>1. more \in {0, Request(d)}
      BY DEF d
    <2> QED
      BY <1>4, <1>5, <2>1, RequestFacts, SizeAssumption
  <1>7. c \in ChannelState /\ c.readFree = ch[e].readFree + more /\ c.count = d.count
        /\ c.writeFree = ch[e].writeFree /\ c.table = ch[e].table
    <2>1. ch[e].readFree + more \in Nat
      BY <1>2, <1>6
    <2>2. c = [d EXCEPT !.readFree = ch[e].readFree + more]
      BY <1>4
    <2>3. d.writeFree = ch[e].writeFree /\ d.table = ch[e].table
      BY <1>3 DEF Becomes
    <2> QED
      BY <1>4, <2>1, <2>2, <2>3 DEF ChannelState
  <1>8. ch' = [ch EXCEPT ![e] = c]
    BY DEF d
  <1> HIDE DEF c
  <1>9. /\ todo' = [todo EXCEPT ![e]["reader"] = q] /\ pc' = [pc EXCEPT ![e]["reader"] = w]
        /\ UNCHANGED <<opener, lock, loop, hand, link, base, version, next>>
    <2>1. todo = [todo EXCEPT ![e]["reader"] = <<>>]
      BY <1>1 DEF Inv, TypeOK
    <2> QED
      BY <2>1 DEF Goto, recvVars
  <1>10. /\ q \in Seq(Message) /\ q \in Seq(SentBy("reader")) /\ Requested(q) = more
         /\ \A i \in 1 .. Len(q) : q[i] # OpenChannel
         /\ q # <<>> <=> w = "want"
    <2>1. CASE more = 0
      BY <2>1, SumEmpty DEF Requested
    <2>2. CASE more # 0
      <3>1. /\ ReadMore(more) \in Message /\ ReadMore(more) \in SentBy("reader")
            /\ ReadMore(more) # OpenChannel /\ Amount(ReadMore(more), "read") = more
        BY <1>6, <2>2 DEF ReadMore, Message, SentBy, Reads, OpenChannel, Amount
      <3>2. SumOf("read", <<ReadMore(more)>>) = more
        BY <3>1, SumOne DEF Kinds
      <3> QED
        BY <2>2, <3>1, <3>2 DEF Requested
    <2> QED
      BY <2>1, <2>2
  <1>11. w \in {"ready", "want"}
    OBVIOUS
  <1> HIDE DEF q, w
  <1>12. TypeOK'
    <2>1. got' \in [End -> Seq(Nat)]
      <3>1. Bytes(ch[e], n) \in Seq(Nat)
        BY <1>1, <1>2, BytesFacts
      <3>2. got[e] \o Bytes(ch[e], n) \in Seq(Nat)
        BY <1>1, <3>1
      <3> QED
        BY <3>2 DEF Inv, TypeOK
    <2>2. ch' \in [End -> ChannelState]
      BY <1>7, <1>8 DEF Inv, TypeOK
    <2>3. /\ todo' \in [End -> [Thread -> Seq(Message)]]
          /\ \A x \in End, t \in Thread : todo'[x][t] \in Seq(SentBy(t))
      BY <1>9, <1>10 DEF Inv, TypeOK, Thread
    <2>4. /\ pc' \in [End -> [Thread -> {"new", "idle", "want", "send", "mark", "join", "done",
                                         "ready", "waiting", "eof", "error"}]]
      BY <1>9, <1>11 DEF Inv, TypeOK, Thread
    <2> QED
      BY <1>9, <2>1, <2>2, <2>3, <2>4 DEF Inv, TypeOK
  <1>13. Orderly'
    <2> SUFFICES ASSUME NEW x \in End
                 PROVE  /\ \A u \in Thread :
                              /\ pc'[x][u] \in {"send", "join"} => lock'[x] = u
                              /\ pc'[x][u] \in {"want", "send"} <=> todo'[x][u] # <<>>
                        /\ hand'[x] # None <=> loop'[x] = "got"
                        /\ pc'[x]["reader"] = "new" => ch'[x].count = 0 /\ ch'[x].readFree = 0
      BY DEF Orderly
    <2>1. /\ \A u \in Thread : /\ pc[x][u] \in {"send", "join"} => lock[x] = u
                               /\ pc[x][u] \in {"want", "send"} <=> todo[x][u] # <<>>
          /\ hand[x] # None <=> loop[x] = "got"
          /\ pc[x]["reader"] = "new" => ch[x].count = 0 /\ ch[x].readFree = 0
      BY DEF Inv, Orderly
    <2>2. \A u \in Thread :
             /\ pc'[x][u] = IF x = e /\ u = "reader" THEN w ELSE pc[x][u]
             /\ todo'[x][u] = IF x = e /\ u = "reader" THEN q ELSE todo[x][u]
      BY <1>9 DEF Inv, TypeOK
    <2>3. \A u \in Thread : /\ pc'[x][u] \in {"send", "join"} => lock'[x] = u
                            /\ pc'[x][u] \in {"want", "send"} <=> todo'[x][u] # <<>>
      BY <1>9, <1>10, <1>11, <2>1, <2>2
    <2>4. pc'[x]["reader"] = "new" => ch'[x].count = 0 /\ ch'[x].readFree = 0
      <3>1. CASE x = e
        BY <1>11, <2>2, <3>1 DEF Thread
      <3>2. CASE x # e
        BY <1>8, <2>1, <2>2, <3>2 DEF Inv, TypeOK, Thread
      <3> QED
        BY <3>1, <3>2
    <2> QED
      BY <1>9, <2>1, <2>3, <2>4
  <1>14. /\ todo'[e]["writer"] = todo[e]["writer"] /\ todo'[e]["reader"] = q
         /\ \A x \in End : x # e => pc'[x] = pc[x]
    BY <1>9 DEF Inv, TypeOK, Thread
  <1>15. /\ c.writeFree + Carried(todo'[e]["writer"]) = ch[e].writeFree + Carried(todo[e]["writer"])
         /\ c.readFree + Requested(todo[e]["reader"]) = ch[e].readFree + Requested(todo'[e]["reader"])
    BY <1>1, <1>2, <1>6, <1>7, <1>10, <1>14, SumEmpty DEF Requested
  <1>16. Connected => Harmless(e, "reader", q)
    BY <1>10, NotSilent DEF Harmless
  <1>17. c.count + c.readFree <= Size
    BY <1>4, <1>5, <1>6, <1>7
  <1>18. "reader" \in Thread
    BY DEF Thread
  <1> QED
    BY <1>7, <1>8, <1>9, <1>10, <1>12, <1>13, <1>14, <1>15, <1>16, <1>17, <1>18, OneEndInv

LEMMA TakeInv ==
  ASSUME Inv, NEW e \in End, pc[e]["reader"] \in {"ready", "waiting"},
         Connected => ch[e].table = "here", NEW closed \in BOOLEAN, Take(e, closed),
         UNCHANGED <<lock, recvVars, link, base, next>>
  PROVE  Inv'
  <1>1. CASE \E w \in {"error", "eof"} :
               /\ Goto(e, "reader", w) /\ UNCHANGED <<got, todo>>
               /\ ch' = ch \/ ch' = [ch EXCEPT ![e].err = TRUE]
    BY <1>1, GoesOnInv
  <1>2. CASE \E n \in 1 .. ch[e].count :
               LET t == Taken(ch[e], n)
                   more == IF closed THEN 0 ELSE Request(t)
               IN  /\ got' = [got EXCEPT ![e] = @ \o Bytes(ch[e], n)]
                   /\ ch' = [ch EXCEPT ![e] = [t EXCEPT !.readFree = @ + more]]
                   /\ IF more = 0
                        THEN Goto(e, "reader", "ready") /\ UNCHANGED todo
                        ELSE /\ todo' = [todo EXCEPT ![e]["reader"] = <<ReadMore(more)>>]
                             /\ Goto(e, "reader", "want")
    BY <1>2, TakesInv
  <1> QED
    BY <1>1, <1>2 DEF Take

LEMMA ReadInv == ASSUME Inv, NEW e \in End, Read(e) \/ WakeReader(e) PROVE Inv'
  <1>1. /\ pc[e]["reader"] \in {"ready", "waiting"}
        /\ UNCHANGED <<lock, recvVars, link, base, next>>
    BY DEF Read, WakeReader
  <1>2. CASE \E w \in {"error", "waiting", "ready"} :
               Goto(e, "reader", w) /\ UNCHANGED <<ch, got, todo>>
    BY <1>1, <1>2, GoesOnInv
  <1>3. CASE ch[e].table = "here" /\ Take(e, Closed(ch[e]))
    <2>1. Closed(ch[e]) \in BOOLEAN
      BY DEF Inv, TypeOK, ChannelState, Closed
    <2> QED
      BY <1>1, <1>3, <2>1, TakeInv
  <1>4. CASE (ch[e].in \/ Closed(ch[e])) /\ Take(e, FALSE)
    <2>1. Connected => ch[e].table = "here"
      <3>1. ch[e] # NewState("none")
        BY <1>4, NewStateFacts DEF Closed
      <3> QED
        BY <3>1 DEF Inv, Standing, Untouched
    <2> QED
      BY <1>1, <1>4, <2>1, TakeInv
  <1> QED
    <2>1. CASE Read(e)
      <3>1. CASE ch[e].table # "here"
        BY <1>2, <2>1, <3>1 DEF Read
      <3>2. CASE ch[e].table = "here" /\ (Closed(ch[e]) \/ ch[e].in)
        BY <1>3, <2>1, <3>2 DEF Read
      <3>3. CASE ch[e].table = "here" /\ ~(Closed(ch[e]) \/ ch[e].in)
        BY <1>2, <2>1, <3>3 DEF Read
      <3> QED
        BY <3>1, <3>2, <3>3
    <2>2. CASE WakeReader(e)
      BY <1>2, <1>4, <2>2 DEF WakeReader
    <2> QED
      BY <2>1, <2>2

(* The writer takes no more from its caller than the window allows.         *)
LEMMA PutInv ==
  ASSUME Inv, NEW e \in End, pc[e]["writer"] \in {"ready", "waiting"}, Put(e),
         UNCHANGED <<lock, recvVars, link, base, got>>
  PROVE  Inv'
  <1>1. PICK n \in 1 .. Min2(ch[e].writeFree, Total[e] - next[e]) :
          /\ todo' = [todo EXCEPT ![e]["writer"] =
                         <<WriteData(n, [i \in 1 .. n |-> next[e] + i])>>]
          /\ next' = [next EXCEPT ![e] = @ + n]
          /\ ch' = [ch EXCEPT ![e].writeFree = @ - n, ![e].out = ch[e].writeFree > n]
    BY DEF Put
  <1> DEFINE data == [i \in 1 .. n |-> next[e] + i]
             m == WriteData(n, data)
             q == <<m>>
             c == [ch[e] EXCEPT !.writeFree = @ - n, !.out = ch[e].writeFree > n]
  <1>2. /\ ch[e] \in ChannelState /\ todo[e]["writer"] = <<>> /\ next[e] \in Nat
        /\ ch[e].count + ch[e].readFree <= Size
    BY DEF Inv, TypeOK, Orderly, BufferFits, Thread
  <1>3. ch[e].writeFree \in Nat /\ ch[e].readFree \in Nat /\ Total[e] - next[e] \in Int
    <2>1. Total[e] \in Nat
      BY WriterAssumption DEF Total
    <2> QED
      BY <1>2, <2>1 DEF ChannelState
  <1>4. n \in Nat \ {0} /\ n <= ch[e].writeFree
    BY <1>3 DEF Min2
  <1>5. data \in Seq(Nat) /\ Len(data) = n
    BY <1>2, <1>4
  <1> HIDE DEF data
  <1>6. /\ m \in Message /\ m \in SentBy("writer") /\ m # OpenChannel /\ Amount(m, "write") = n
    BY <1>4, <1>5 DEF WriteData, Message, SentBy, Writes, OpenChannel, Amount
  <1> HIDE DEF m
  <1>7. /\ q \in Seq(Message) /\ q \in Seq(SentBy("writer")) /\ q # <<>> /\ Carried(q) = n
        /\ \A i \in 1 .. Len(q) : q[i] # OpenChannel
    <2>1. SumOf("write", <<m>>) = n
      BY <1>6, SumOne DEF Kinds
    <2> QED
      BY <1>6, <2>1 DEF Carried
  <1>8. todo' = [todo EXCEPT ![e]["writer"] = q]
    BY <1>1 DEF data, m
  <1> HIDE DEF q
  <1>9. /\ c \in ChannelState /\ c.table = ch[e].table /\ c.count = ch[e].count
        /\ c.readFree = ch[e].readFree /\ c.writeFree = ch[e].writeFree - n
    <2>1. ch[e].writeFree - n \in Nat /\ (ch[e].writeFree > n) \in BOOLEAN
      BY <1>3, <1>4
    <2> QED
      BY <1>2, <2>1 DEF ChannelState
  <1>10. ch' = [ch EXCEPT ![e] = c]
    BY <1>1
  <1> HIDE DEF c
  <1>11. /\ pc' = [pc EXCEPT ![e]["writer"] = "want"]
         /\ UNCHANGED <<opener, lock, loop, hand, link, base, version, got>>
    BY DEF Put, Goto, recvVars
  <1>12. TypeOK'
    <2>1. next' \in [End -> Nat]
      BY <1>1, <1>4 DEF Inv, TypeOK
    <2> QED
      BY <1>7, <1>8, <1>9, <1>10, <1>11, <2>1 DEF Inv, TypeOK, Thread
  <1>13. Orderly'
    <2>1. /\ \A x \in End, u \in Thread :
                /\ pc'[x][u] = IF x = e /\ u = "writer" THEN "want" ELSE pc[x][u]
                /\ todo'[x][u] = IF x = e /\ u = "writer" THEN q ELSE todo[x][u]
          /\ \A x \in End : ch'[x].count = ch[x].count /\ ch'[x].readFree = ch[x].readFree
      BY <1>8, <1>9, <1>10, <1>11 DEF Inv, TypeOK
    <2>2. "reader" \in Thread /\ "writer" \in Thread
      BY DEF Thread
    <2> QED
      BY <1>7, <1>11, <2>1, <2>2 DEF Inv, Orderly
  <1>14. /\ todo'[e]["reader"] = todo[e]["reader"] /\ todo'[e]["writer"] = q
         /\ pc'[e]["reader"] = pc[e]["reader"]
         /\ \A x \in End : x # e => pc'[x] = pc[x]
    BY <1>8, <1>11 DEF Inv, TypeOK, Thread
  <1>15. /\ c.writeFree + Carried(todo'[e]["writer"]) = ch[e].writeFree + Carried(todo[e]["writer"])
         /\ c.readFree + Requested(todo[e]["reader"]) = ch[e].readFree + Requested(todo'[e]["reader"])
    BY <1>2, <1>3, <1>4, <1>7, <1>9, <1>14, SumEmpty DEF Carried
  <1>16. Connected => ch[e].table = "here"
    <2>1. ch[e] # NewState("none")
      BY NewStateFacts DEF Put
    <2> QED
      BY <2>1 DEF Inv, Standing, Untouched
  <1>17. Connected => Harmless(e, "writer", q)
    BY <1>3, <1>4, <1>7, <1>16, NotSilent DEF Harmless
  <1>18. c.count + c.readFree <= Size /\ "writer" \in Thread
    BY <1>2, <1>9 DEF Thread
  <1> QED
    BY <1>7, <1>8, <1>9, <1>10, <1>11, <1>12, <1>13, <1>14, <1>15, <1>16, <1>17, <1>18, OneEndInv

LEMMA WriteInv == ASSUME Inv, NEW e \in End, Write(e) \/ WakeWriter(e) PROVE Inv'
  <1>1. /\ pc[e]["writer"] \in {"ready", "waiting"}
        /\ UNCHANGED <<lock, recvVars, link, base, got>>
    BY DEF Write, WakeWriter
  <1>2. CASE \E w \in {"error", "waiting", "ready"} :
               Goto(e, "writer", w) /\ UNCHANGED <<ch, todo, next>>
    BY <1>1, <1>2, GoesOnInv
  <1>3. CASE Put(e)
    BY <1>1, <1>3, PutInv
  <1>4. CASE Write(e)
    <2>1. CASE ch[e].table # "here" \/ Closed(ch[e])
      BY <1>2, <1>4, <2>1 DEF Write
    <2>2. CASE ch[e].table = "here" /\ ~Closed(ch[e]) /\ ch[e].out
      BY <1>3, <1>4, <2>2 DEF Write
    <2>3. CASE ch[e].table = "here" /\ ~Closed(ch[e]) /\ ~ch[e].out
      BY <1>2, <1>4, <2>3 DEF Write
    <2> QED
      BY <2>1, <2>2, <2>3
  <1>5. CASE WakeWriter(e)
    BY <1>2, <1>3, <1>5 DEF WakeWriter
  <1> QED
    BY <1>4, <1>5

(* Neither end has a channel yet.                                           *)
LEMMA OpenInv == ASSUME Inv, NEW e \in End, Open(e) PROVE Inv'
  <1> DEFINE o == Other(e)
             c == [NewState("here") EXCEPT !.readFree = Size]
             r == ReadMore(Size)
             q == <<OpenChannel, r>>
  <1>1. /\ e = opener /\ lock[e] = None /\ ch[e].table = "none" /\ pc[e]["reader"] = "new"
        /\ ch' = [ch EXCEPT ![e] = c] /\ todo' = [todo EXCEPT ![e]["reader"] = q]
        /\ lock' = [lock EXCEPT ![e] = "reader"] /\ pc' = [pc EXCEPT ![e]["reader"] = "send"]
        /\ UNCHANGED <<opener, loop, hand, link, base, version, next, got>>
    BY DEF Open, Goto, recvVars
  <1>2. o \in End /\ o # e /\ Other(o) = e /\ \A d \in End : d = e \/ d = o
    BY EndFacts
  <1> HIDE DEF o
  <1>3. /\ c \in ChannelState /\ c.table = "here" /\ c.count = 0 /\ c.readFree = Size
        /\ c.writeFree = 0
    BY NewStateFacts, SizeAssumption DEF ChannelState
  <1> HIDE DEF c
  <1>4. /\ r \in Message /\ r \in SentBy("reader") /\ r # OpenChannel /\ Amount(r, "read") = Size
        /\ OpenChannel \in Message /\ OpenChannel \in SentBy("reader")
        /\ Amount(OpenChannel, "read") = 0
    BY SizeAssumption DEF ReadMore, Message, SentBy, Reads, OpenChannel, Amount
  <1> HIDE DEF r
  <1>5. /\ q \in Seq(Message) /\ q \in Seq(SentBy("reader")) /\ q # <<>>
        /\ \A i \in 1 .. Len(q) : q[i] = OpenChannel <=> i = 1
    BY <1>4
  <1>6. Requested(q) = Size
    <2>1. q = Append(<<OpenChannel>>, r) /\ <<OpenChannel>> \in Seq(Message)
      BY <1>4
    <2>2. SumOf("read", q) = SumOf("read", <<OpenChannel>>) + Amount(r, "read")
      BY <1>4, <2>1, SumFacts DEF Kinds
    <2>3. SumOf("read", <<OpenChannel>>) = 0
      BY <1>4, SumOne DEF Kinds
    <2> QED
      BY <1>4, <2>2, <2>3, SizeAssumption DEF Requested
  <1> HIDE DEF q
  <1>7. TypeOK'
    BY <1>1, <1>3, <1>5 DEF Inv, TypeOK, Thread
  <1>8. Orderly'
    BY <1>1, <1>3, <1>5, NoneAssumption DEF Inv, TypeOK, Orderly, Thread
  <1>9. BufferFits'
    <2>1. c.count + c.readFree <= Size
      BY <1>3, SizeAssumption
    <2> QED
      BY <1>1, <2>1 DEF Inv, TypeOK, BufferFits
  <1>10. CASE ~Connected
    <2>1. ~Connected'
      BY <1>1, <1>10 DEF Connected
    <2> QED
      BY <1>7, <1>8, <1>9, <2>1, LostInv
  <1>11. CASE Connected
    <2>1. /\ Standing /\ ch[e].table = "none" /\ ch[o].table = "none"
          /\ Untouched(e) /\ Untouched(o) /\ opener = e /\ opener # None
      <3>1. opener # None
        BY <1>1, NoneAssumption
      <3> QED
        BY <1>1, <1>2, <1>11, <3>1 DEF Inv, Standing, o
    <2>2. /\ \A d \in End : link[d] = <<>> /\ hand[d] = None /\ \A t \in Thread : todo[d][t] = <<>>
          /\ ch[o] = NewState("none") /\ pc[o]["closer"] # "mark"
      BY <1>2, <2>1 DEF Untouched, o
    <2>3. ch'[e] = c /\ ch'[o] = ch[o] /\ pc'[e]["reader"] = "send" /\ pc'[o] = pc[o]
      BY <1>1, <1>2 DEF Inv, TypeOK, Thread
    <2>4. /\ todo'[o] = todo[o] /\ todo'[e]["reader"] = q
          /\ \A t \in Thread : t # "reader" => todo'[e][t] = <<>>
      BY <1>1, <1>2, <2>2 DEF Inv, TypeOK, Thread
    <2>5. WindowAgrees'
      <3>1. /\ ch'[o].writeFree = 0 /\ ch'[o].readFree = 0
            /\ ch'[e].writeFree = 0 /\ ch'[e].readFree = Size
        BY <1>3, <2>2, <2>3, NewStateFacts
      <3>2. /\ todo'[e]["writer"] = <<>> /\ todo'[o]["writer"] = <<>> /\ todo'[o]["reader"] = <<>>
        BY <1>2, <2>2, <2>4 DEF Thread
      <3>3. \A d \in End : link'[d] = <<>> /\ InHand(d)' = <<>>
        BY <1>1, <2>2 DEF InHand
      <3>4. \A d \in End : OnTheWay(d, "write")' = 0 /\ OnTheWay(d, "read")' = 0
        BY <3>3, SumEmpty DEF OnTheWay
      <3>5. /\ Carried(todo'[e]["writer"]) = 0 /\ Carried(todo'[o]["writer"]) = 0
            /\ Requested(todo'[o]["reader"]) = 0 /\ Requested(todo'[e]["reader"]) = Size
        BY <1>6, <2>4, <3>2, SumEmpty DEF Carried, Requested
      <3>6. Balanced(e)'
        BY <1>2, <3>1, <3>4, <3>5 DEF Balanced, o
      <3>7. Balanced(o)'
        BY <1>2, <3>1, <3>4, <3>5, SizeAssumption DEF Balanced
      <3> QED
        BY <1>2, <3>6, <3>7 DEF WindowAgrees
    <2>6. Standing'
      <3>1. /\ ch'[e].table = "here" /\ ch'[o].table = "none"
            /\ \A d \in End : loop'[d] \notin {"failed", "ended"}
        BY <1>1, <1>3, <2>1, <2>3 DEF Standing
      <3>2. Silent(o)'
        BY <1>1, <1>2, <2>2, <3>1 DEF Silent, Awaits
      <3>3. OpensFirst(e)'
        <4>1. hand'[e] = None /\ Len(link'[e]) = 0 /\ \A t \in Thread : Len(todo'[o][t]) = 0
          BY <1>1, <1>2, <2>2, <2>4
        <4> QED
          BY <4>1 DEF OpensFirst, o
      <3>4. OpensFirst(o)'
        <4>1. hand'[o] = None /\ Len(link'[o]) = 0
          BY <1>1, <1>2, <2>2
        <4>2. \A t \in Thread : \A i \in 1 .. Len(todo'[e][t]) :
                todo'[e][t][i] = OpenChannel <=> i = 1
          <5>1. \A t \in Thread : t # "reader" => Len(todo'[e][t]) = 0
            BY <2>4
          <5> QED
            BY <1>5, <2>4, <5>1
        <4> QED
          BY <1>2, <3>2, <4>1, <4>2 DEF OpensFirst
      <3>5. OpensLocked(e)' /\ OpensLocked(o)'
        BY <2>3, <3>1 DEF OpensLocked
      <3>6. Untouched(o)'
        BY <1>1, <1>2, <2>1, <2>2, <2>3, <2>4 DEF Untouched
      <3> QED
        BY <1>1, <1>2, <3>1, <3>3, <3>4, <3>5, <3>6 DEF Standing
    <2> QED
      BY <1>7, <1>8, <1>9, <2>5, <2>6 DEF Inv
  <1> QED
    BY <1>10, <1>11

(* The receive thread has the next message: it is on its way all the same.  *)
LEMMA ReceiveInv == ASSUME Inv, NEW e \in End, Receive(e) PROVE Inv'
  <1> DEFINE o == Other(e)
             m == Head(link[e])
  <1>1. /\ loop[e] = "reading" /\ link[e] # <<>>
        /\ hand' = [hand EXCEPT ![e] = m] /\ link' = [link EXCEPT ![e] = Tail(@)]
        /\ loop' = [loop EXCEPT ![e] = "got"]
        /\ UNCHANGED <<opener, ch, lock, pc, todo, base, version, next, got>>
    BY DEF Receive
  <1>2. o \in End /\ o # e /\ Other(o) = e /\ \A d \in End : d = e \/ d = o
    BY EndFacts
  <1> HIDE DEF o
  <1>3. link[e] \in Seq(Message) /\ hand[e] = None
    BY <1>1 DEF Inv, TypeOK, Orderly
  <1>4. m \in Message /\ m # None /\ m = link[e][1] /\ Tail(link[e]) \in Seq(Message)
    BY <1>1, <1>3, NoneAssumption
  <1> HIDE DEF m
  <1>5. TypeOK'
    BY <1>1, <1>4 DEF Inv, TypeOK
  <1>6. Orderly'
    BY <1>1, <1>4 DEF Inv, TypeOK, Orderly
  <1>7. BufferFits' /\ (Connected' <=> Connected)
    BY <1>1 DEF Inv, BufferFits, Connected
  <1>8. /\ hand'[e] = m /\ hand'[o] = hand[o]
        /\ link'[e] = Tail(link[e]) /\ link'[o] = link[o]
    BY <1>1, <1>2 DEF Inv, TypeOK
  <1>9. WindowAgrees'
    <2>1. \A type \in Kinds : OnTheWay(e, type)' = OnTheWay(e, type)
      <3> SUFFICES ASSUME NEW type \in Kinds PROVE OnTheWay(e, type)' = OnTheWay(e, type)
        OBVIOUS
      <3>1. SumOf(type, link[e]) = Amount(m, type) + SumOf(type, Tail(link[e]))
        BY <1>1, <1>3, SumFacts DEF m
      <3>2. SumOf(type, Tail(link[e])) \in Nat /\ Amount(m, type) \in Nat
        BY <1>4, SumFacts, MessageFacts
      <3>3. SumOf(type, InHand(e)) = 0
        BY <1>3, SumEmpty DEF InHand
      <3>4. SumOf(type, InHand(e)') = Amount(m, type)
        BY <1>4, <1>8, SumOne DEF InHand
      <3> QED
        BY <1>8, <3>1, <3>2, <3>3, <3>4 DEF OnTheWay
    <2>2. \A type \in Kinds : OnTheWay(o, type)' = OnTheWay(o, type)
      BY <1>8 DEF OnTheWay, InHand
    <2>3. \A d \in End : OnTheWay(d, "write")' = OnTheWay(d, "write")
                        /\ OnTheWay(d, "read")' = OnTheWay(d, "read")
      BY <1>2, <2>1, <2>2 DEF Kinds
    <2> QED
      BY <1>1, <1>2, <1>7, <2>3, EndFacts DEF Inv, WindowAgrees, Balanced
  <1>10. ASSUME Connected PROVE Standing'
    <2>1. Standing
      BY <1>10 DEF Inv
    <2>2. ch[o].table = "here"
      BY <1>1, <1>2, <2>1 DEF Standing, Untouched
    <2>3. ~Awaits(e)' /\ ~Silent(e)' /\ ~Silent(e)
      BY <1>1, <1>4, <1>8 DEF Silent, Awaits
    <2>4. (Silent(o)' <=> Silent(o)) /\ (Awaits(o)' <=> Awaits(o))
      BY <1>1, <1>8 DEF Silent, Awaits
    <2>5. OpensFirst(e)'
      <3>1. OpensFirst(e)
        BY <2>1 DEF Standing
      <3>2. m = OpenChannel <=> ch[e].table = "none"
        <4>1. 1 \in 1 .. Len(link[e])
          BY <1>1, <1>3
        <4> QED
          BY <1>3, <1>4, <3>1, <4>1 DEF OpensFirst, Awaits
      <3>3. \A i \in 1 .. Len(Tail(link[e])) : Tail(link[e])[i] # OpenChannel
        <4> SUFFICES ASSUME NEW i \in 1 .. Len(Tail(link[e])) PROVE Tail(link[e])[i] # OpenChannel
          OBVIOUS
        <4>1. i + 1 \in 1 .. Len(link[e]) /\ Tail(link[e])[i] = link[e][i + 1] /\ i + 1 # 1
          BY <1>1, <1>3
        <4> QED
          BY <3>1, <4>1 DEF OpensFirst
      <3> QED
        BY <1>1, <1>8, <2>3, <3>1, <3>2, <3>3 DEF OpensFirst
    <2>6. OpensFirst(o)'
      BY <1>1, <1>2, <1>8, <2>1, <2>4 DEF Standing, OpensFirst
    <2>7. OpensLocked(e)' /\ OpensLocked(o)'
      BY <1>1, <1>2, <2>1, <2>3, <2>4 DEF Standing, OpensLocked, o
    <2>8. ch[e].table = "none" => Untouched(e)'
      BY <1>1, <1>2, <1>8, <2>1 DEF Standing, Untouched, o
    <2>9. \A d \in End : loop'[d] \notin {"failed", "ended"}
      BY <1>1, <2>1 DEF Standing, Inv, TypeOK
    <2> QED
      BY <1>1, <1>2, <2>1, <2>2, <2>5, <2>6, <2>7, <2>8, <2>9 DEF Standing
  <1> QED
    BY <1>5, <1>6, <1>7, <1>9, <1>10 DEF Inv

(* What a thread sends is no longer what it has to send.                    *)
LEMMA LeavesTodo ==
  ASSUME Inv, NEW e \in End, NEW t \in Thread, todo[e][t] # <<>>,
         todo' = [todo EXCEPT ![e][t] = Tail(@)]
  PROVE  /\ Carried(todo[e]["writer"]) =
                Carried(todo'[e]["writer"]) + Amount(Head(todo[e][t]), "write")
         /\ Requested(todo[e]["reader"]) =
                Requested(todo'[e]["reader"]) + Amount(Head(todo[e][t]), "read")
         /\ Carried(todo'[e]["writer"]) \in Nat /\ Requested(todo'[e]["reader"]) \in Nat
  <1> DEFINE q == todo[e][t]
             m == Head(q)
  <1>1. /\ q \in Seq(Message) /\ q \in Seq(SentBy(t)) /\ q # <<>>
        /\ todo[e]["writer"] \in Seq(Message) /\ todo[e]["reader"] \in Seq(Message)
    BY DEF Inv, TypeOK, Thread
  <1>2. /\ todo'[e][t] = Tail(q)
        /\ \A u \in Thread : u # t => todo'[e][u] = todo[e][u]
    BY DEF Inv, TypeOK
  <1> HIDE DEF q
  <1>3. m \in Message /\ m \in SentBy(t) /\ Tail(q) \in Seq(Message)
    BY <1>1
  <1> HIDE DEF m
  <1>4. \A type \in Kinds : /\ SumOf(type, q) = Amount(m, type) + SumOf(type, Tail(q))
                            /\ SumOf(type, Tail(q)) \in Nat /\ Amount(m, type) \in Nat
    BY <1>1, <1>3, SumFacts, MessageFacts DEF m
  <1>5. /\ Carried(todo[e]["writer"]) = Carried(todo'[e]["writer"]) + Amount(m, "write")
        /\ Carried(todo'[e]["writer"]) \in Nat
    <2>1. CASE t = "writer"
      BY <1>2, <1>4, <2>1 DEF Carried, Kinds, q
    <2>2. CASE t # "writer"
      <3>1. Amount(m, "write") = 0 /\ todo'[e]["writer"] = todo[e]["writer"]
        BY <1>2, <1>3, <2>2, MessageFacts DEF Thread
      <3>2. Carried(todo[e]["writer"]) \in Nat
        BY <1>1, SumFacts DEF Carried, Kinds
      <3> QED
        BY <3>1, <3>2
    <2> QED
      BY <2>1, <2>2
  <1>6. /\ Requested(todo[e]["reader"]) = Requested(todo'[e]["reader"]) + Amount(m, "read")
        /\ Requested(todo'[e]["reader"]) \in Nat
    <2>1. CASE t = "reader"
      BY <1>2, <1>4, <2>1 DEF Requested, Kinds, q
    <2>2. CASE t # "reader"
      <3>1. Amount(m, "read") = 0 /\ todo'[e]["reader"] = todo[e]["reader"]
        BY <1>2, <1>3, <2>2, MessageFacts DEF Thread
      <3>2. Requested(todo[e]["reader"]) \in Nat
        BY <1>1, SumFacts DEF Requested, Kinds
      <3> QED
        BY <3>1, <3>2
    <2> QED
      BY <2>1, <2>2
  <1> QED
    BY <1>5, <1>6 DEF m, q

(* What is added on the way was in what an end has to send.                 *)
LEMMA OnWrite ==
  \A w, c, c1, y, y1, r, x, f, a \in Nat :
     c = c1 + a /\ y1 = y + a /\ w + c + y + r + x = f => w + c1 + y1 + r + x = f
  OBVIOUS

LEMMA OnRead ==
  \A w, c, y, r, r1, x, x1, f, a \in Nat :
     r = r1 + a /\ x1 = x + a /\ w + c + y + r + x = f => w + c + y + r1 + x1 = f
  OBVIOUS

LEMMA SendInv == ASSUME Inv, NEW e \in End, NEW t \in Thread, Send(e, t) PROVE Inv'
  <1> DEFINE o == Other(e)
             m == Head(todo[e][t])
             last == Tail(todo[e][t]) = <<>>
  <1>1. /\ pc[e][t] = "send" /\ base[e] = "open"
        /\ todo' = [todo EXCEPT ![e][t] = Tail(@)]
        /\ \/ base[o] = "open" /\ link' = [link EXCEPT ![o] = Append(@, m)]
           \/ base[o] = "closed" /\ link' = link
        /\ IF last THEN Sent(e, t) ELSE UNCHANGED <<lock, pc, loop>>
        /\ UNCHANGED <<opener, ch, hand, version, base, next, got>>
    BY DEF Send
  <1>2. o \in End /\ o # e /\ Other(o) = e /\ \A d \in End : d = e \/ d = o
    BY EndFacts
  <1> HIDE DEF o
  <1>3. /\ lock[e] = t /\ todo[e][t] # <<>> /\ todo[e][t] \in Seq(Message)
        /\ todo[e][t] \in Seq(SentBy(t)) /\ link[o] \in Seq(Message)
    BY <1>1, <1>2 DEF Inv, TypeOK, Orderly
  <1>4. /\ m \in Message /\ m = todo[e][t][1]
        /\ Tail(todo[e][t]) \in Seq(Message) /\ Tail(todo[e][t]) \in Seq(SentBy(t))
    BY <1>3
  <1>5. /\ todo'[e][t] = Tail(todo[e][t]) /\ todo'[o] = todo[o]
        /\ \A u \in Thread : u # t => todo'[e][u] = todo[e][u]
    BY <1>1, <1>2 DEF Inv, TypeOK
  <1>6. /\ pc' \in [End -> [Thread -> {"new", "idle", "want", "send", "mark", "join", "done",
                                       "ready", "waiting", "eof", "error"}]]
        /\ lock' \in [End -> Thread \cup {None}]
        /\ loop' \in [End -> {"off", "reading", "got", "failed", "ended", "joined"}]
        /\ \A d \in End : loop'[d] = loop[d] \/ (loop[d] = "off" /\ loop'[d] = "reading")
        /\ lock'[o] = lock[o] /\ pc'[o] = pc[o]
    <2> DEFINE States == {"new", "idle", "want", "send", "mark", "join", "done",
                          "ready", "waiting", "eof", "error"}
               p == [pc EXCEPT ![e][t] = IF t = "closer" THEN "mark" ELSE "ready"]
    <2>1. CASE ~last
      BY <1>1, <1>2, <2>1 DEF Inv, TypeOK
    <2>2. CASE last
      <3>1. /\ lock' = [lock EXCEPT ![e] = None]
            /\ pc' = [p EXCEPT ![e]["writer"] = IF t # "writer" /\ @ # "new" THEN @ ELSE "ready"]
            /\ loop' = [loop EXCEPT ![e] = IF @ = "off" THEN "reading" ELSE @]
        BY <1>1, <2>2 DEF Sent
      <3>2. p \in [End -> [Thread -> States]] /\ p[o] = pc[o]
        BY <1>2 DEF Inv, TypeOK
      <3> HIDE DEF p
      <3>3. pc' \in [End -> [Thread -> States]] /\ pc'[o] = pc[o]
        BY <1>2, <3>1, <3>2 DEF Thread
      <3> QED
        BY <1>2, <3>1, <3>3 DEF Inv, TypeOK
    <2> QED
      BY <2>1, <2>2
  <1>7. /\ lock'[e] = IF last THEN None ELSE t
        /\ pc'[e][t] = IF ~last THEN "send" ELSE IF t = "closer" THEN "mark" ELSE "ready"
        /\ \A u \in Thread : u # t => \/ pc'[e][u] = pc[e][u]
                                      \/ pc[e][u] = "new" /\ pc'[e][u] = "ready"
    <2> DEFINE States == {"new", "idle", "want", "send", "mark", "join", "done",
                          "ready", "waiting", "eof", "error"}
               p == [pc EXCEPT ![e][t] = IF t = "closer" THEN "mark" ELSE "ready"]
    <2>1. CASE ~last
      BY <1>1, <1>3, <2>1
    <2>2. CASE last
      <3>1. /\ lock' = [lock EXCEPT ![e] = None]
            /\ pc' = [p EXCEPT ![e]["writer"] = IF t # "writer" /\ @ # "new" THEN @ ELSE "ready"]
        BY <1>1, <2>2 DEF Sent
      <3>2. /\ p \in [End -> [Thread -> States]]
            /\ p[e][t] = IF t = "closer" THEN "mark" ELSE "ready"
            /\ \A u \in Thread : u # t => p[e][u] = pc[e][u]
        BY DEF Inv, TypeOK
      <3> HIDE DEF p
      <3>3. \A u \in Thread : pc'[e][u] = IF u # "writer" \/ (t # "writer" /\ p[e][u] # "new")
                                           THEN p[e][u] ELSE "ready"
        BY <3>1, <3>2 DEF Thread
      <3>4. pc'[e][t] = p[e][t]
        BY <3>2, <3>3
      <3>5. lock'[e] = None
        BY <3>1 DEF Inv, TypeOK
      <3> QED
        BY <2>2, <3>2, <3>3, <3>4, <3>5
    <2> QED
      BY <2>1, <2>2
  <1> HIDE DEF m
  <1>8. TypeOK'
    <2>1. link' \in [End -> Seq(Message)]
      <3>1. CASE link' = link
        BY <3>1 DEF Inv, TypeOK
      <3>2. CASE link' = [link EXCEPT ![o] = Append(@, m)]
        <4>1. Append(link[o], m) \in Seq(Message)
          BY <1>3, <1>4
        <4> QED
          BY <1>2, <3>2, <4>1 DEF Inv, TypeOK
      <3> QED
        BY <1>1, <3>1, <3>2
    <2>2. /\ todo' \in [End -> [Thread -> Seq(Message)]]
          /\ \A x \in End, u \in Thread : todo'[x][u] \in Seq(SentBy(u))
      BY <1>1, <1>4 DEF Inv, TypeOK
    <2> QED
      BY <1>1, <1>6, <2>1, <2>2 DEF Inv, TypeOK
  <1>9. Orderly'
    <2> SUFFICES ASSUME NEW x \in End
                 PROVE  /\ \A u \in Thread :
                              /\ pc'[x][u] \in {"send", "join"} => lock'[x] = u
                              /\ pc'[x][u] \in {"want", "send"} <=> todo'[x][u] # <<>>
                        /\ hand'[x] # None <=> loop'[x] = "got"
                        /\ pc'[x]["reader"] = "new" => ch'[x].count = 0 /\ ch'[x].readFree = 0
      BY DEF Orderly
    <2>1. /\ \A u \in Thread : /\ pc[x][u] \in {"send", "join"} => lock[x] = u
                               /\ pc[x][u] \in {"want", "send"} <=> todo[x][u] # <<>>
          /\ hand[x] # None <=> loop[x] = "got"
          /\ pc[x]["reader"] = "new" => ch[x].count = 0 /\ ch[x].readFree = 0
      BY DEF Inv, Orderly
    <2>2. hand'[x] # None <=> loop'[x] = "got"
      BY <1>1, <1>6, <2>1
    <2>3. CASE x = o
      BY <1>1, <1>5, <1>6, <2>1, <2>2, <2>3
    <2>4. CASE x = e
      <3>1. \A u \in Thread : /\ pc'[e][u] \in {"send", "join"} => lock'[e] = u
                              /\ pc'[e][u] \in {"want", "send"} <=> todo'[e][u] # <<>>
        <4> SUFFICES ASSUME NEW u \in Thread
                     PROVE  /\ pc'[e][u] \in {"send", "join"} => lock'[e] = u
                            /\ pc'[e][u] \in {"want", "send"} <=> todo'[e][u] # <<>>
          OBVIOUS
        <4>1. CASE u = t
          BY <1>5, <1>7, <4>1
        <4>2. CASE u # t
          <5>1. /\ pc[e][u] \in {"send", "join"} => lock[e] = u
                /\ pc[e][u] \in {"want", "send"} <=> todo[e][u] # <<>>
            BY <2>1, <2>4
          <5>2. pc[e][u] \notin {"send", "join"}
            BY <1>3, <4>2, <5>1
          <5>3. /\ todo'[e][u] = todo[e][u]
                /\ pc'[e][u] = pc[e][u] \/ (pc[e][u] = "new" /\ pc'[e][u] = "ready")
            BY <1>5, <1>7, <4>2
          <5> QED
            BY <5>1, <5>2, <5>3
        <4> QED
          BY <4>1, <4>2
      <3>2. pc'[e]["reader"] = "new" => pc[e]["reader"] = "new"
        BY <1>7 DEF Thread
      <3> QED
        BY <1>1, <2>1, <2>2, <2>4, <3>1, <3>2
    <2> QED
      BY <1>2, <2>3, <2>4
  <1>10. BufferFits' /\ (Connected' <=> Connected)
    BY <1>1 DEF Inv, BufferFits, Connected
  <1>11. CASE ~Connected
    BY <1>8, <1>9, <1>10, <1>11, LostInv
  <1>12. CASE Connected
    <2>1. link' = [link EXCEPT ![o] = Append(@, m)] /\ Standing
      BY <1>1, <1>2, <1>12 DEF Connected, Inv
    <2>2. link'[o] = Append(link[o], m) /\ link'[e] = link[e]
      BY <1>2, <2>1 DEF Inv, TypeOK
    <2>3. WindowAgrees'
      <3>1. \A type \in Kinds : /\ OnTheWay(o, type)' = OnTheWay(o, type) + Amount(m, type)
                                /\ OnTheWay(e, type)' = OnTheWay(e, type)
        <4> SUFFICES ASSUME NEW type \in Kinds
                     PROVE  /\ OnTheWay(o, type)' = OnTheWay(o, type) + Amount(m, type)
                            /\ OnTheWay(e, type)' = OnTheWay(e, type)
          OBVIOUS
        <4>1. InHand(o)' = InHand(o) /\ InHand(e)' = InHand(e) /\ InHand(o) \in Seq(Message)
          BY <1>1, <1>2 DEF InHand, Inv, TypeOK
        <4>2. SumOf(type, Append(link[o], m)) = SumOf(type, link[o]) + Amount(m, type)
          BY <1>3, <1>4, SumFacts
        <4>3. SumOf(type, link[o]) \in Nat /\ SumOf(type, InHand(o)) \in Nat /\ Amount(m, type) \in Nat
          BY <1>3, <1>4, <4>1, SumFacts, MessageFacts
        <4> QED
          BY <2>2, <4>1, <4>2, <4>3 DEF OnTheWay
      <3>2. /\ Carried(todo[e]["writer"]) = Carried(todo'[e]["writer"]) + Amount(m, "write")
            /\ Requested(todo[e]["reader"]) = Requested(todo'[e]["reader"]) + Amount(m, "read")
            /\ Carried(todo'[e]["writer"]) \in Nat /\ Requested(todo'[e]["reader"]) \in Nat
        BY <1>1, <1>3, LeavesTodo DEF m
      <3>3. \A d \in End :
              /\ Carried(todo[d]["writer"]) \in Nat /\ Requested(todo[d]["reader"]) \in Nat
              /\ OnTheWay(d, "write") \in Nat /\ OnTheWay(d, "read") \in Nat
              /\ ch[d].writeFree \in Nat /\ ch[d].readFree \in Nat
        BY Numbers DEF Inv
      <3>4. Amount(m, "write") \in Nat /\ Amount(m, "read") \in Nat
        BY <1>4, MessageFacts DEF Kinds
      <3>5. /\ OnTheWay(o, "write")' = OnTheWay(o, "write") + Amount(m, "write")
            /\ OnTheWay(o, "read")' = OnTheWay(o, "read") + Amount(m, "read")
            /\ OnTheWay(e, "write")' = OnTheWay(e, "write")
            /\ OnTheWay(e, "read")' = OnTheWay(e, "read")
        BY <3>1 DEF Kinds
      <3>6. OnTheWay(o, "write")' \in Nat /\ OnTheWay(o, "read")' \in Nat
        BY <1>2, <3>3, <3>4, <3>5
      <3>7. /\ ch[e].writeFree + Carried(todo[e]["writer"]) + OnTheWay(o, "write")
                 + Requested(todo[o]["reader"]) + OnTheWay(e, "read") = ch[o].readFree
            /\ ch[o].writeFree + Carried(todo[o]["writer"]) + OnTheWay(e, "write")
                 + Requested(todo[e]["reader"]) + OnTheWay(o, "read") = ch[e].readFree
        BY <1>2, <1>12 DEF Inv, WindowAgrees, Balanced, o
      <3>8. ch[e].writeFree + Carried(todo'[e]["writer"]) + OnTheWay(o, "write")'
              + Requested(todo[o]["reader"]) + OnTheWay(e, "read") = ch[o].readFree
        BY <1>2, <3>2, <3>3, <3>4, <3>5, <3>6, <3>7, OnWrite
      <3>9. ch[o].writeFree + Carried(todo[o]["writer"]) + OnTheWay(e, "write")
              + Requested(todo'[e]["reader"]) + OnTheWay(o, "read")' = ch[e].readFree
        BY <1>2, <3>2, <3>3, <3>4, <3>5, <3>6, <3>7, OnRead
      <3>10. Balanced(e)' /\ Balanced(o)'
        BY <1>1, <1>2, <1>5, <3>5, <3>8, <3>9 DEF Balanced, o
      <3> QED
        BY <1>2, <3>10 DEF WindowAgrees
    <2>4. Standing'
      <3>1. ch[e].table = "here"
        BY <1>3, <2>1 DEF Standing, Untouched
      <3>2. (Awaits(e)' <=> Awaits(e)) /\ (Awaits(o)' <=> Awaits(o)) /\ (Silent(e)' <=> Silent(e))
        BY <1>1, <2>2 DEF Awaits, Silent
      <3>3. ~Silent(o)'
        <4>1. Len(link'[o]) = Len(link[o]) + 1
          BY <1>3, <1>4, <2>2
        <4> QED
          BY <1>3, <4>1 DEF Silent
      <3>4. m = OpenChannel <=> Silent(o)
        <4>1. OpensFirst(o)
          BY <1>2, <2>1 DEF Standing
        <4>2. 1 \in 1 .. Len(todo[e][t])
          BY <1>3
        <4> QED
          BY <1>2, <1>4, <4>1, <4>2 DEF OpensFirst
      <3>5. OpensFirst(e)'
        BY <1>1, <1>2, <1>5, <2>1, <2>2, <3>2 DEF Standing, OpensFirst, o
      <3>6. OpensFirst(o)'
        <4>1. /\ hand[o] # None => (hand[o] = OpenChannel <=> ch[o].table = "none")
              /\ \A i \in 1 .. Len(link[o]) : link[o][i] = OpenChannel <=> Awaits(o) /\ i = 1
              /\ \A u \in Thread : \A i \in 1 .. Len(todo[e][u]) :
                    todo[e][u][i] = OpenChannel <=> Silent(o) /\ i = 1
          BY <1>2, <2>1 DEF Standing, OpensFirst
        <4>2. \A i \in 1 .. Len(link'[o]) : link'[o][i] = OpenChannel <=> Awaits(o)' /\ i = 1
          <5> SUFFICES ASSUME NEW i \in 1 .. Len(link'[o])
                       PROVE  link'[o][i] = OpenChannel <=> Awaits(o) /\ i = 1
            BY <3>2
          <5>1. CASE i \in 1 .. Len(link[o])
            <6>1. link'[o][i] = link[o][i]
              BY <1>3, <1>4, <2>2, <5>1
            <6> QED
              BY <4>1, <5>1, <6>1
          <5>2. CASE i = Len(link[o]) + 1
            <6>1. link'[o][i] = m
              BY <1>3, <1>4, <2>2, <5>2
            <6>2. i = 1 <=> link[o] = <<>>
              BY <1>3, <5>2
            <6> QED
              BY <3>4, <6>1, <6>2 DEF Silent
          <5> QED
            BY <1>3, <1>4, <2>2, <5>1, <5>2
        <4>3. \A u \in Thread : \A i \in 1 .. Len(todo'[e][u]) : todo'[e][u][i] # OpenChannel
          <5> SUFFICES ASSUME NEW u \in Thread, NEW i \in 1 .. Len(todo'[e][u])
                       PROVE  todo'[e][u][i] # OpenChannel
            OBVIOUS
          <5>1. CASE u = t
            <6>1. i + 1 \in 1 .. Len(todo[e][t]) /\ todo'[e][t][i] = todo[e][t][i + 1] /\ i + 1 # 1
              <7> DEFINE q == todo[e][t]
              <7>1. q \in Seq(Message) /\ q # <<>> /\ todo'[e][t] = Tail(q) /\ i \in 1 .. Len(Tail(q))
                BY <1>3, <1>5, <5>1
              <7> HIDE DEF q
              <7>2. i + 1 \in 1 .. Len(q) /\ Tail(q)[i] = q[i + 1] /\ i + 1 # 1
                BY <7>1
              <7> QED
                BY <7>1, <7>2 DEF q
            <6> QED
              BY <4>1, <5>1, <6>1
          <5>2. CASE u # t /\ ~Silent(o)
            BY <1>5, <4>1, <5>2
          <5>3. CASE u # t /\ Silent(o)
            <6>1. t = "reader"
              <7>1. lock[e] = "reader"
                BY <2>1, <3>1, <5>3 DEF Standing, OpensLocked, o, Inv, Orderly, Thread
              <7> QED
                BY <1>3, <7>1
            <6>2. todo'[e][u][i] \in SentBy(u)
              BY <1>5, <5>3 DEF Inv, TypeOK
            <6> QED
              BY <5>3, <6>1, <6>2, MessageFacts
          <5> QED
            BY <5>1, <5>2, <5>3
        <4> QED
          BY <1>1, <1>2, <3>2, <3>3, <4>1, <4>2, <4>3 DEF OpensFirst
      <3>7. OpensLocked(e)' /\ OpensLocked(o)'
        BY <1>1, <1>2, <1>6, <2>1, <3>2, <3>3 DEF Standing, OpensLocked, o
      <3>8. ch[o].table = "none" => Untouched(o)'
        BY <1>1, <1>2, <1>5, <1>6, <2>1, <2>2 DEF Standing, Untouched
      <3>9. \A d \in End : loop'[d] \notin {"failed", "ended"}
        BY <1>6, <2>1 DEF Standing
      <3> QED
        BY <1>1, <1>2, <2>1, <3>1, <3>5, <3>6, <3>7, <3>8, <3>9 DEF Standing
    <2> QED
      BY <1>8, <1>9, <1>10, <2>3, <2>4 DEF Inv
  <1> QED
    BY <1>11, <1>12

(* Nothing that a receive thread gets while the connection stands is        *)
(* refused: the two ends of the channel know of each other, and no write is *)
(* larger than what was set aside for it.                                   *)
LEMMA NotRefused ==
  ASSUME Inv, Connected, NEW e \in End, hand[e] # None
  PROVE  ~Refused(ch[e], hand[e]) /\ ch[Other(e)].table = "here"
         /\ (hand[e] = OpenChannel <=> ch[e].table = "none")
         /\ (ch[e].table = "none" => ch[e] = NewState("none"))
  <1> DEFINE o == Other(e)
             m == hand[e]
  <1>1. o \in End /\ Other(o) = e
    BY EndFacts
  <1> HIDE DEF o
  <1>2. m \in Message /\ Standing
    BY DEF Inv, TypeOK
  <1>3. m = OpenChannel <=> ch[e].table = "none"
    BY <1>2 DEF Standing, OpensFirst
  <1>4. ch[e].table \in {"none", "here"} /\ (ch[e].table = "none" => ch[e] = NewState("none"))
    BY <1>2 DEF Standing, Untouched
  <1>5. ch[o].table = "here"
    BY <1>1, <1>2 DEF Standing, Untouched
  <1>6. m.type = "write" => m.size <= ch[e].readFree
    <2> SUFFICES ASSUME m.type = "write" PROVE m.size <= ch[e].readFree
      OBVIOUS
    <2> DEFINE w == ch[o].writeFree
               a == Carried(todo[o]["writer"])
               l == SumOf("write", link[e])
               r == Requested(todo[e]["reader"])
               x == OnTheWay(o, "read")
               f == ch[e].readFree
               n == Amount(m, "write")
    <2>1. w \in Nat /\ a \in Nat /\ x \in Nat
      BY <1>1, Numbers DEF Inv
    <2>2. r \in Nat /\ f \in Nat
      BY Numbers DEF Inv
    <2>3. l \in Nat /\ n \in Nat
      BY <1>2, SumFacts, MessageFacts DEF Inv, TypeOK, Kinds
    <2>4. OnTheWay(e, "write") = l + n
      BY <1>2, SumOne DEF OnTheWay, InHand, Kinds
    <2>5. w + a + (l + n) + r + x = f
      BY <1>1, <2>4 DEF Inv, WindowAgrees, Balanced
    <2>6. n = m.size
      BY DEF Amount
    <2> HIDE DEF w, a, l, r, x, f, n
    <2>7. n <= f
      BY <2>1, <2>2, <2>3, <2>5
    <2> QED
      BY <2>6, <2>7 DEF f
  <1>7. m.type = "open" <=> m = OpenChannel
    BY <1>2 DEF Message, Version, OpenChannel, CloseChannel, Reads, Writes
  <1>8. ~Refused(ch[e], m)
    <2>1. ~(m.type = "open" /\ ch[e].table = "here")
      BY <1>3, <1>7
    <2>2. ~(m.type \in {"read", "write"} /\ ch[e].table # "here")
      <3>1. m.type \in {"read", "write"} => m # OpenChannel
        BY <1>7
      <3> QED
        BY <1>3, <1>4, <3>1
    <2>3. ~(m.type = "write" /\ m.size > ch[e].readFree)
      <3>1. m.type = "write" => m.size \in Nat
        BY <1>2 DEF Message, Version, OpenChannel, CloseChannel, Reads, Writes
      <3>2. ch[e].readFree \in Nat
        BY Numbers DEF Inv
      <3> QED
        BY <1>6, <3>1, <3>2
    <2> QED
      BY <2>1, <2>2, <2>3 DEF Refused
  <1> QED
    BY <1>3, <1>4, <1>5, <1>8 DEF o

(* What a message that is not refused does to a channel.                    *)
LEMMA HandledFacts ==
  ASSUME NEW c \in ChannelState, NEW m \in Message, ~Refused(c, m)
  PROVE  /\ Handled(c, m) \in ChannelState
         /\ c.count = 0 /\ c.readFree = 0 =>
               Handled(c, m).count = 0 /\ Handled(c, m).readFree = 0
         /\ c.count + c.readFree <= Size => Handled(c, m).count + Handled(c, m).readFree <= Size
         /\ m = OpenChannel => Handled(c, m) = NewState("here")
         /\ m # OpenChannel =>
               /\ Handled(c, m).table = c.table
               /\ c.readFree = Handled(c, m).readFree + Amount(m, "write")
               /\ Handled(c, m).writeFree = c.writeFree + Amount(m, "read")
  <1> DEFINE d == Handled(c, m)
  <1>1. c.count \in Nat /\ c.readFree \in Nat /\ c.writeFree \in Nat
    BY DEF ChannelState
  <1>2. m \in {Version, OpenChannel, CloseChannel} \/ m \in Reads \/ m \in Writes
    BY DEF Message
  <1>3. CASE m = OpenChannel
    <2>1. d = NewState("here")
      BY <1>3 DEF Handled, OpenChannel
    <2> HIDE DEF d
    <2> QED
      BY <1>3, <2>1, NewStateFacts, SizeAssumption DEF d
  <1>4. CASE m \in {Version, CloseChannel}
    <2>1. d = c \/ d = HangUp(c)
      BY <1>4 DEF Handled, Version, CloseChannel
    <2>2. Becomes(c, d, c.count, c.readFree, c.writeFree)
      BY <2>1, HangUpFacts DEF Becomes
    <2>3. m # OpenChannel /\ Amount(m, "write") = 0 /\ Amount(m, "read") = 0
      BY <1>4 DEF Amount, Version, CloseChannel, OpenChannel
    <2> HIDE DEF d
    <2> QED
      BY <1>1, <2>2, <2>3 DEF Becomes, d
  <1>5. CASE m \in Reads
    <2>1. d = [c EXCEPT !.writeFree = @ + m.size, !.out = TRUE]
      BY <1>5 DEF Handled, Reads
    <2>2. m # OpenChannel /\ Amount(m, "write") = 0 /\ Amount(m, "read") = m.size /\ m.size \in Nat
      BY <1>5 DEF Amount, Reads, OpenChannel
    <2>3. Becomes(c, d, c.count, c.readFree, c.writeFree + m.size)
      <3>1. c.writeFree + m.size \in Nat
        BY <1>1, <2>2
      <3> QED
        BY <2>1, <3>1 DEF ChannelState, Becomes
    <2> HIDE DEF d
    <2> QED
      BY <1>1, <2>2, <2>3 DEF Becomes, d
  <1>6. CASE m \in Writes
    <2>1. d = Stored(c, m)
      BY <1>6 DEF Handled, Writes
    <2>2. m.size \in Nat \ {0} /\ m.size <= c.readFree
      <3>1. m.type = "write" /\ m.size \in Nat \ {0}
        BY <1>6 DEF Writes
      <3> QED
        BY <1>1, <3>1 DEF Refused
    <2>3. Becomes(c, d, c.count + m.size, c.readFree - m.size, c.writeFree)
      BY <1>6, <2>1, <2>2, StoredFacts
    <2>4. m # OpenChannel /\ Amount(m, "write") = m.size /\ Amount(m, "read") = 0
      BY <1>6 DEF Amount, Writes, OpenChannel
    <2>5. /\ d \in ChannelState /\ d.table = c.table /\ d.count = c.count + m.size
          /\ d.readFree = c.readFree - m.size /\ d.writeFree = c.writeFree
      BY <2>3 DEF Becomes
    <2> HIDE DEF d
    <2>6. d.count + d.readFree = c.count + c.readFree /\ c.readFree # 0
      BY <1>1, <2>2, <2>5
    <2>7. c.readFree = d.readFree + m.size
      BY <1>1, <2>2, <2>5
    <2> QED
      BY <1>1, <2>4, <2>5, <2>6, <2>7 DEF d
  <1> QED
    BY <1>2, <1>3, <1>4, <1>5, <1>6

(* What was on the way is done.                                             *)
LEMMA OffWrite ==
  \A w, c, y, y1, r, x, f, f1, a \in Nat :
     y = y1 + a /\ f = f1 + a /\ w + c + y + r + x = f => w + c + y1 + r + x = f1
  OBVIOUS

LEMMA OffRead ==
  \A w, w1, c, y, r, x, x1, f, a \in Nat :
     x = x1 + a /\ w1 = w + a /\ w + c + y + r + x = f => w1 + c + y + r + x1 = f
  OBVIOUS

LEMMA DispatchInv == ASSUME Inv, NEW e \in End, Dispatch(e) PROVE Inv'
  <1> DEFINE o == Other(e)
             m == hand[e]
             d == Handled(ch[e], m)
  <1>1. /\ loop[e] = "got" /\ hand' = [hand EXCEPT ![e] = None]
        /\ IF Refused(ch[e], m)
             THEN loop' = [loop EXCEPT ![e] = "failed"] /\ ch' = ch
             ELSE loop' = [loop EXCEPT ![e] = "reading"] /\ ch' = [ch EXCEPT ![e] = d]
        /\ UNCHANGED <<opener, lock, pc, todo, version, link, base, next, got>>
    BY DEF Dispatch
  <1>2. o \in End /\ o # e /\ Other(o) = e /\ \A x \in End : x = e \/ x = o
    BY EndFacts
  <1> HIDE DEF o
  <1>3. m \in Message /\ m # None /\ ch[e] \in ChannelState
    BY <1>1 DEF Inv, TypeOK, Orderly
  <1>4. ~Refused(ch[e], m) =>
          /\ d \in ChannelState
          /\ ch[e].count = 0 /\ ch[e].readFree = 0 => d.count = 0 /\ d.readFree = 0
          /\ ch[e].count + ch[e].readFree <= Size => d.count + d.readFree <= Size
    BY <1>3, HandledFacts
  <1> HIDE DEF m, d
  <1>5. TypeOK'
    <2>1. ch' \in [End -> ChannelState]
      BY <1>1, <1>4 DEF Inv, TypeOK
    <2>2. /\ loop' \in [End -> {"off", "reading", "got", "failed", "ended", "joined"}]
          /\ hand' \in [End -> Message \cup {None}]
      BY <1>1 DEF Inv, TypeOK
    <2> QED
      BY <1>1, <2>1, <2>2 DEF Inv, TypeOK
  <1>6. Orderly'
    BY <1>1, <1>4 DEF Inv, TypeOK, Orderly
  <1>7. BufferFits' /\ (Connected' <=> Connected)
    BY <1>1, <1>4 DEF Inv, TypeOK, BufferFits, Connected
  <1>8. CASE ~Connected
    BY <1>5, <1>6, <1>7, <1>8, LostInv
  <1>9. CASE Connected
    <2>1. /\ ~Refused(ch[e], m) /\ ch[o].table = "here"
          /\ m = OpenChannel <=> ch[e].table = "none"
          /\ ch[e].table = "none" => ch[e] = NewState("none")
      BY <1>3, <1>9, NotRefused DEF o, m
    <2>2. Standing
      BY <1>9 DEF Inv
    <2>3. /\ loop' = [loop EXCEPT ![e] = "reading"] /\ ch' = [ch EXCEPT ![e] = d]
          /\ ch'[e] = d /\ ch'[o] = ch[o] /\ hand'[e] = None /\ hand'[o] = hand[o]
      BY <1>1, <1>2, <2>1 DEF Inv, TypeOK
    <2>4. /\ d \in ChannelState /\ d.table = "here"
          /\ ch[e].readFree = d.readFree + Amount(m, "write")
          /\ d.writeFree = ch[e].writeFree + Amount(m, "read")
      <3>1. CASE m = OpenChannel
        <4>1. d = NewState("here") /\ ch[e] = NewState("none")
          BY <1>3, <2>1, <3>1, HandledFacts DEF d
        <4>2. Amount(m, "write") = 0 /\ Amount(m, "read") = 0
          BY <3>1, MessageFacts DEF Kinds
        <4> QED
          BY <4>1, <4>2, NewStateFacts
      <3>2. CASE m # OpenChannel
        <4>1. ch[e].table = "here"
          BY <2>1, <2>2, <3>2 DEF Standing
        <4> QED
          BY <1>3, <1>4, <2>1, <3>2, <4>1, HandledFacts DEF d
      <3> QED
        BY <3>1, <3>2
    <2>5. WindowAgrees'
      <3>1. \A type \in Kinds : /\ OnTheWay(e, type) = OnTheWay(e, type)' + Amount(m, type)
                                /\ OnTheWay(e, type)' \in Nat
                                /\ OnTheWay(o, type)' = OnTheWay(o, type)
        <4> SUFFICES ASSUME NEW type \in Kinds
                     PROVE  /\ OnTheWay(e, type) = OnTheWay(e, type)' + Amount(m, type)
                            /\ OnTheWay(e, type)' \in Nat
                            /\ OnTheWay(o, type)' = OnTheWay(o, type)
          OBVIOUS
        <4>1. SumOf(type, link[e]) \in Nat /\ Amount(m, type) \in Nat
          BY <1>3, SumFacts, MessageFacts DEF Inv, TypeOK
        <4>2. SumOf(type, InHand(e)) = Amount(m, type)
          BY <1>3, SumOne DEF InHand, m
        <4>3. SumOf(type, InHand(e)') = 0
          BY <2>3, SumEmpty DEF InHand
        <4> QED
          BY <1>1, <2>3, <4>1, <4>2, <4>3 DEF OnTheWay, InHand
      <3>2. \A x \in End :
              /\ Carried(todo[x]["writer"]) \in Nat /\ Requested(todo[x]["reader"]) \in Nat
              /\ OnTheWay(x, "write") \in Nat /\ OnTheWay(x, "read") \in Nat
              /\ ch[x].writeFree \in Nat /\ ch[x].readFree \in Nat
        BY Numbers DEF Inv
      <3>3. /\ Amount(m, "write") \in Nat /\ Amount(m, "read") \in Nat
            /\ d.writeFree \in Nat /\ d.readFree \in Nat
        BY <1>3, <2>4, MessageFacts DEF Kinds, ChannelState
      <3>4. /\ OnTheWay(e, "write") = OnTheWay(e, "write")' + Amount(m, "write")
            /\ OnTheWay(e, "read") = OnTheWay(e, "read")' + Amount(m, "read")
            /\ OnTheWay(o, "write")' = OnTheWay(o, "write")
            /\ OnTheWay(o, "read")' = OnTheWay(o, "read")
            /\ OnTheWay(e, "write")' \in Nat /\ OnTheWay(e, "read")' \in Nat
        BY <3>1 DEF Kinds
      <3>5. /\ ch[e].writeFree + Carried(todo[e]["writer"]) + OnTheWay(o, "write")
                 + Requested(todo[o]["reader"]) + OnTheWay(e, "read") = ch[o].readFree
            /\ ch[o].writeFree + Carried(todo[o]["writer"]) + OnTheWay(e, "write")
                 + Requested(todo[e]["reader"]) + OnTheWay(o, "read") = ch[e].readFree
        BY <1>2, <1>9 DEF Inv, WindowAgrees, Balanced, o
      <3>6. d.writeFree + Carried(todo[e]["writer"]) + OnTheWay(o, "write")
              + Requested(todo[o]["reader"]) + OnTheWay(e, "read")' = ch[o].readFree
        BY <1>2, <2>4, <3>2, <3>3, <3>4, <3>5, OffRead
      <3>7. ch[o].writeFree + Carried(todo[o]["writer"]) + OnTheWay(e, "write")'
              + Requested(todo[e]["reader"]) + OnTheWay(o, "read") = d.readFree
        BY <1>2, <2>4, <3>2, <3>3, <3>4, <3>5, OffWrite
      <3>8. Balanced(e)' /\ Balanced(o)'
        BY <1>1, <1>2, <2>3, <3>4, <3>6, <3>7 DEF Balanced, o
      <3> QED
        BY <1>2, <3>8 DEF WindowAgrees
    <2>6. Standing'
      <3>1. /\ ~Awaits(e) /\ ~Silent(e) /\ ~Awaits(o) /\ ~Silent(o)
            /\ ~Awaits(e)' /\ ~Silent(e)' /\ ~Awaits(o)' /\ ~Silent(o)'
        BY <1>3, <2>1, <2>3, <2>4 DEF Awaits, Silent, m
      <3>2. OpensFirst(e)'
        <4>1. OpensFirst(e)
          BY <2>2 DEF Standing
        <4> QED
          BY <1>1, <2>3, <3>1, <4>1 DEF OpensFirst
      <3>3. OpensFirst(o)'
        <4>1. OpensFirst(o)
          BY <1>2, <2>2 DEF Standing
        <4> QED
          BY <1>1, <2>3, <3>1, <4>1 DEF OpensFirst
      <3>4. OpensLocked(e)' /\ OpensLocked(o)'
        BY <1>2, <3>1 DEF OpensLocked, o
      <3>5. \A x \in End : ch'[x].table = "here" /\ loop'[x] \notin {"failed", "ended"}
        <4>1. ch'[e].table = "here" /\ ch'[o].table = "here"
          BY <2>1, <2>3, <2>4
        <4>2. \A x \in End : loop'[x] \notin {"failed", "ended"}
          BY <2>2, <2>3 DEF Standing, Inv, TypeOK
        <4> QED
          BY <1>2, <4>1, <4>2
      <3>6. opener' # None => opener' \in End
        BY <1>5, OpenerAssumption DEF TypeOK
      <3> QED
        BY <1>2, <3>2, <3>3, <3>4, <3>5, <3>6 DEF Standing
    <2> QED
      BY <1>5, <1>6, <1>7, <2>5, <2>6 DEF Inv
  <1> QED
    BY <1>8, <1>9

LEMMA StepInv == Inv /\ [Next]_vars => Inv'
  <1> SUFFICES ASSUME Inv, [Next]_vars PROVE Inv'
    OBVIOUS
  <1>1. ASSUME NEW e \in End, Step(e) PROVE Inv'
    <2>1. CASE \E t \in Thread : Lock(e, t) \/ Send(e, t) \/ SendFails(e, t) \/ Join(e, t)
      BY <2>1, LockInv, SendInv, SendFailsInv, JoinInv
    <2>2. CASE Open(e) \/ Accept(e) \/ MarkClosed(e)
      BY <2>2, OpenInv, AcceptInv, MarkClosedInv
    <2>3. CASE Receive(e) \/ ReceiveEnds(e) \/ ReceiveStopped(e) \/ LoopCloses(e) \/ Dispatch(e)
      BY <2>3, ReceiveInv, EndsInv, DispatchInv
    <2>4. CASE Read(e) \/ WakeReader(e) \/ Write(e) \/ WakeWriter(e)
      BY <2>4, ReadInv, WriteInv
    <2> QED
      BY <1>1, <2>1, <2>2, <2>3, <2>4 DEF Step
  <1>2. ASSUME NEW e \in End, SendCut(e) \/ CloseStream(e) \/ CloseMuxer(e) PROVE Inv'
    BY <1>2, SendCutInv, CloseStreamInv, CloseInv
  <1>3. CASE UNCHANGED vars
    BY <1>3 DEF vars, Inv, TypeOK, Orderly, BufferFits, WindowAgrees, Balanced, OnTheWay, InHand,
                Connected, Standing, Untouched, OpensFirst, OpensLocked, Silent, Awaits
  <1> QED
    BY <1>1, <1>2, <1>3 DEF Next

LEMMA Invariance == Spec => []Inv
  BY InitInv, StepInv, PTL DEF Spec

(* The types of the two muxers.                                             *)
THEOREM TypeCorrect == Spec => []TypeOK
  <1>1. Inv => TypeOK
    BY DEF Inv
  <1> QED
    BY <1>1, Invariance, PTL

(* The flow control of the two ends agrees, whatever the size of the buffer *)
(* and of the socket, and however the threads of both interleave: the bytes *)
(* that valent_bluez_muxer_channel_write() may send are those that the      *)
(* other end set aside, they fit in its buffer, and recv_write() and the    *)
(* other receivers refuse nothing while both streams are open.              *)
THEOREM FlowControlAgrees == Spec => []CreditsAgree
  <1>1. Inv => CreditsAgree
    BY DEF Inv, CreditsAgree, NoProtocolError, Standing
  <1> QED
    BY <1>1, Invariance, PTL
-----------------------------------------------------------------------------
(* The ring buffer, as numbers: h is its head, t its tail, and n bytes are  *)
(* between them.  z bytes more fill the slots that follow the tail, and     *)
(* none of the n; x bytes less leave the rest where they were.              *)
LEMMA RingGrows ==
  ASSUME NEW h \in 0 .. Size - 1, NEW n \in 0 .. Size, NEW t \in 0 .. Size - 1,
         t = (h + n) % Size, NEW z \in Nat, n + z <= Size
  PROVE  (t + z) % Size = (h + (n + z)) % Size
  BY SizeAssumption

(* The slots that are filled are none of those that hold something ...      *)
LEMMA RingSpares ==
  ASSUME NEW h \in 0 .. Size - 1, NEW n \in 0 .. Size, NEW t \in 0 .. Size - 1,
         t = (h + n) % Size, NEW z \in Nat, n + z <= Size, NEW i \in 0 .. n - 1
  PROVE  /\ (h + i) % Size \in 0 .. Size - 1
         /\ ((((h + i) % Size) + Size - t) % Size) + 1 > z
  BY SizeAssumption

(* ... and the first byte goes to the first of them, and so on.             *)
LEMMA RingFills ==
  ASSUME NEW h \in 0 .. Size - 1, NEW n \in 0 .. Size, NEW t \in 0 .. Size - 1,
         t = (h + n) % Size, NEW z \in Nat, n + z <= Size, NEW i \in 1 .. z
  PROVE  /\ (h + n + i - 1) % Size \in 0 .. Size - 1
         /\ ((((h + n + i - 1) % Size) + Size - t) % Size) + 1 = i
  BY SizeAssumption

(* The head moves on over what is taken.                                    *)
LEMMA RingEmpties ==
  ASSUME NEW h \in 0 .. Size - 1, NEW n \in 0 .. Size, NEW t \in 0 .. Size - 1,
         t = (h + n) % Size, NEW x \in 1 .. n
  PROVE  /\ t = (((h + x) % Size) + (n - x)) % Size
         /\ \A i \in 0 .. n - x - 1 : (((h + x) % Size) + i) % Size = (h + x + i) % Size
  BY SizeAssumption

(* recv_write() leaves what was stored, and the message follows it.         *)
LEMMA StoredRing ==
  ASSUME NEW c \in ChannelState, NEW m \in Writes, Len(m.data) = m.size,
         c.count + m.size <= Size, c.tail = (c.head + c.count) % Size
  PROVE  LET d == Stored(c, m)
         IN  /\ d.head = c.head /\ d.tail = (d.head + d.count) % Size
             /\ \A i \in 0 .. c.count - 1 :
                   d.slots[(c.head + i) % Size] = c.slots[(c.head + i) % Size]
             /\ \A i \in 1 .. m.size :
                   d.slots[(c.head + c.count + i - 1) % Size] = m.data[i]
  <1> DEFINE d == Stored(c, m)
             k(i) == ((i + Size - c.tail) % Size) + 1
  <1>1. /\ c.head \in 0 .. Size - 1 /\ c.tail \in 0 .. Size - 1 /\ c.count \in 0 .. Size
        /\ m.size \in Nat
    BY SizeAssumption DEF ChannelState, Writes
  <1>2. /\ d.head = c.head /\ d.tail = (c.tail + m.size) % Size /\ d.count = c.count + m.size
        /\ \A i \in 0 .. Size - 1 :
              d.slots[i] = IF k(i) <= Len(m.data) THEN m.data[k(i)] ELSE c.slots[i]
    BY DEF Stored, ChannelState
  <1> HIDE DEF d
  <1>3. /\ (c.tail + m.size) % Size = (c.head + (c.count + m.size)) % Size
        /\ \A i \in 0 .. c.count - 1 :
              (c.head + i) % Size \in 0 .. Size - 1 /\ k((c.head + i) % Size) > m.size
        /\ \A i \in 1 .. m.size :
              /\ (c.head + c.count + i - 1) % Size \in 0 .. Size - 1
              /\ k((c.head + c.count + i - 1) % Size) = i
    <2> DEFINE h == c.head
               n == c.count
               t == c.tail
               z == m.size
    <2>1. /\ h \in 0 .. Size - 1 /\ n \in 0 .. Size /\ t \in 0 .. Size - 1
          /\ z \in Nat /\ n + z <= Size /\ t = (h + n) % Size
      BY <1>1
    <2> HIDE DEF h, n, t, z
    <2>2. (t + z) % Size = (h + (n + z)) % Size
      BY <2>1, RingGrows
    <2>3. ASSUME NEW i \in 0 .. n - 1
          PROVE  /\ (h + i) % Size \in 0 .. Size - 1
                 /\ ((((h + i) % Size) + Size - t) % Size) + 1 > z
      BY <2>1, RingSpares
    <2>4. ASSUME NEW i \in 1 .. z
          PROVE  /\ (h + n + i - 1) % Size \in 0 .. Size - 1
                 /\ ((((h + n + i - 1) % Size) + Size - t) % Size) + 1 = i
      BY <2>1, RingFills
    <2> QED
      BY <2>2, <2>3, <2>4 DEF h, n, t, z
  <1>4. \A i \in 0 .. Size - 1 : k(i) \in Int
    BY <1>1, SizeAssumption
  <1> HIDE DEF k
  <1>5. ASSUME NEW i \in 0 .. c.count - 1
        PROVE  d.slots[(c.head + i) % Size] = c.slots[(c.head + i) % Size]
    <2> DEFINE j == (c.head + i) % Size
    <2>1. j \in 0 .. Size - 1 /\ k(j) > m.size
      BY <1>3
    <2> HIDE DEF j
    <2>2. ~(k(j) <= Len(m.data))
      BY <1>1, <1>4, <2>1
    <2> QED
      BY <1>2, <2>1, <2>2 DEF j
  <1>6. ASSUME NEW i \in 1 .. m.size
        PROVE  d.slots[(c.head + c.count + i - 1) % Size] = m.data[i]
    <2> DEFINE j == (c.head + c.count + i - 1) % Size
    <2>1. j \in 0 .. Size - 1 /\ k(j) = i
      BY <1>3
    <2> HIDE DEF j
    <2>2. k(j) <= Len(m.data)
      BY <1>1, <2>1
    <2> QED
      BY <1>2, <2>1, <2>2 DEF j
  <1> QED
    BY <1>2, <1>3, <1>5, <1>6 DEF d

(* channel_state_read_unlocked() leaves the slots as they are.              *)
LEMMA TakenRing ==
  ASSUME NEW c \in ChannelState, NEW n \in 1 .. c.count,
         c.count <= Size, c.tail = (c.head + c.count) % Size
  PROVE  LET d == Taken(c, n)
         IN  /\ d.slots = c.slots /\ d.tail = (d.head + d.count) % Size
             /\ \A i \in 0 .. c.count - n - 1 : (d.head + i) % Size = (c.head + n + i) % Size
  <1>1. /\ c.head \in 0 .. Size - 1 /\ c.tail \in 0 .. Size - 1 /\ c.count \in 0 .. Size
    BY SizeAssumption DEF ChannelState
  <1>2. /\ Taken(c, n).slots = c.slots /\ Taken(c, n).tail = c.tail
        /\ Taken(c, n).head = (c.head + n) % Size /\ Taken(c, n).count = c.count - n
    BY DEF Taken, ChannelState
  <1>3. /\ c.tail = (((c.head + n) % Size) + (c.count - n)) % Size
        /\ \A i \in 0 .. c.count - n - 1 :
              (((c.head + n) % Size) + i) % Size = (c.head + n + i) % Size
    BY <1>1, RingEmpties
  <1> QED
    BY <1>2, <1>3

(* What is left after n bytes that follow x is what follows x + n.          *)
LEMMA TakenData ==
  ASSUME NEW c \in ChannelState, NEW n \in 1 .. c.count, NEW x \in Nat,
         c.count <= Size, c.tail = (c.head + c.count) % Size,
         \A i \in 0 .. c.count - 1 : c.slots[(c.head + i) % Size] = x + i + 1
  PROVE  LET d == Taken(c, n)
         IN  /\ d.tail = (d.head + d.count) % Size
             /\ \A i \in 0 .. d.count - 1 : d.slots[(d.head + i) % Size] = x + n + i + 1
             /\ Bytes(c, n) = [i \in 1 .. n |-> x + i]
  <1>1. c.head \in Nat /\ c.count \in Nat /\ n \in Nat /\ n <= c.count
    BY SizeAssumption DEF ChannelState
  <1>2. /\ Taken(c, n).slots = c.slots /\ Taken(c, n).count = c.count - n
        /\ Taken(c, n).tail = (Taken(c, n).head + Taken(c, n).count) % Size
        /\ \A i \in 0 .. c.count - n - 1 : (Taken(c, n).head + i) % Size = (c.head + n + i) % Size
    <2>1. Taken(c, n).count = c.count - n
      BY DEF Taken, ChannelState
    <2> QED
      BY <2>1, TakenRing
  <1>3. ASSUME NEW i \in 0 .. c.count - n - 1
        PROVE  c.slots[(c.head + n + i) % Size] = x + n + i + 1
    <2>1. /\ n + i \in 0 .. c.count - 1
          /\ c.head + (n + i) = c.head + n + i /\ x + (n + i) + 1 = x + n + i + 1
      BY <1>1
    <2>2. c.slots[(c.head + (n + i)) % Size] = x + (n + i) + 1
      BY <2>1
    <2> QED
      BY <2>1, <2>2
  <1>4. ASSUME NEW i \in 1 .. n PROVE c.slots[(c.head + i - 1) % Size] = x + i
    <2>1. /\ i - 1 \in 0 .. c.count - 1
          /\ c.head + (i - 1) = c.head + i - 1 /\ x + (i - 1) + 1 = x + i
      BY <1>1
    <2>2. c.slots[(c.head + (i - 1)) % Size] = x + (i - 1) + 1
      BY <2>1
    <2> QED
      BY <2>1, <2>2
  <1> QED
    BY <1>2, <1>3, <1>4 DEF Bytes
-----------------------------------------------------------------------------
(* Bytes on their way.  A message that comes after x bytes and before y has *)
(* the bytes between them, and one that closes the channel comes after z.   *)
Conveys(m, x, y, z) ==
    /\ y = x + Amount(m, "write")
    /\ m.type = "write" => m.data = [j \in 1 .. m.size |-> x + j]
    /\ m = CloseChannel => z <= x

Carries(s, a, b, z) ==
    \E f \in [0 .. Len(s) -> Nat] :
        f[0] = a /\ f[Len(s)] = b /\ \A i \in 1 .. Len(s) : Conveys(s[i], f[i - 1], f[i], z)

NoClose(s) == \A i \in 1 .. Len(s) : s[i] # CloseChannel

(* No message carries no byte.                                              *)
LEMMA CarriesNone ==
  /\ \A z : \A a \in Nat : Carries(<<>>, a, a, z)
  /\ \A a, b, z : Carries(<<>>, a, b, z) => a \in Nat /\ b = a
  <1>1. ASSUME NEW a \in Nat, NEW z PROVE Carries(<<>>, a, a, z)
    <2> DEFINE f == [i \in 0 .. 0 |-> a]
    <2>1. Len(<<>>) = 0 /\ f \in [0 .. 0 -> Nat] /\ f[0] = a
      OBVIOUS
    <2> HIDE DEF f
    <2> QED
      BY <2>1 DEF Carries
  <1>2. ASSUME NEW a, NEW b, NEW z, Carries(<<>>, a, b, z) PROVE a \in Nat /\ b = a
    BY <1>2 DEF Carries
  <1> QED
    BY <1>1, <1>2

LEMMA CarriesNat ==
  ASSUME NEW s \in Seq(Message), NEW a, NEW b, NEW z, Carries(s, a, b, z)
  PROVE  a \in Nat /\ b \in Nat
  BY DEF Carries

(* One more message, at the end ...                                         *)
LEMMA CarriesMore ==
  ASSUME NEW s \in Seq(Message), NEW m \in Message, NEW a, NEW b, NEW c \in Nat, NEW z,
         Carries(s, a, b, z), Conveys(m, b, c, z)
  PROVE  Carries(Append(s, m), a, c, z)
  <1> DEFINE n == Len(s)
             t == Append(s, m)
  <1>1. PICK f \in [0 .. n -> Nat] :
           f[0] = a /\ f[n] = b /\ \A i \in 1 .. n : Conveys(s[i], f[i - 1], f[i], z)
    BY DEF Carries
  <1> DEFINE g == [i \in 0 .. n + 1 |-> IF i = n + 1 THEN c ELSE f[i]]
  <1>2. n \in Nat /\ Len(t) = n + 1 /\ t[n + 1] = m /\ \A i \in 1 .. n : t[i] = s[i]
    OBVIOUS
  <1>3. /\ g \in [0 .. n + 1 -> Nat] /\ g[n + 1] = c
        /\ \A i \in 0 .. n : g[i] = f[i]
    BY <1>2
  <1> HIDE DEF g, t
  <1>4. ASSUME NEW i \in 1 .. n + 1 PROVE Conveys(t[i], g[i - 1], g[i], z)
    <2>1. CASE i = n + 1
      <3>1. g[i - 1] = b /\ g[i] = c /\ t[i] = m
        BY <1>1, <1>2, <1>3, <2>1
      <3> QED
        BY <3>1
    <2>2. CASE i # n + 1
      <3>1. i \in 1 .. n /\ i - 1 \in 0 .. n /\ i \in 0 .. n
        BY <1>2, <2>2
      <3>2. g[i - 1] = f[i - 1] /\ g[i] = f[i] /\ t[i] = s[i]
        BY <1>2, <1>3, <3>1
      <3> QED
        BY <1>1, <3>1, <3>2
    <2> QED
      BY <2>1, <2>2
  <1>5. g[0] = a
    BY <1>1, <1>2, <1>3
  <1>6. Carries(t, a, c, z)
    BY <1>2, <1>3, <1>4, <1>5 DEF Carries
  <1> QED
    BY <1>6 DEF t

(* ... one less, at the beginning ...                                       *)
LEMMA CarriesLess ==
  ASSUME NEW s \in Seq(Message), s # <<>>, NEW a, NEW b, NEW z, Carries(s, a, b, z)
  PROVE  \E c \in Nat : Conveys(Head(s), a, c, z) /\ Carries(Tail(s), c, b, z)
  <1> DEFINE n == Len(s)
             t == Tail(s)
  <1>1. PICK f \in [0 .. n -> Nat] :
           f[0] = a /\ f[n] = b /\ \A i \in 1 .. n : Conveys(s[i], f[i - 1], f[i], z)
    BY DEF Carries
  <1>2. /\ n \in Nat \ {0} /\ Len(t) = n - 1 /\ Head(s) = s[1]
        /\ \A i \in 1 .. n - 1 : t[i] = s[i + 1]
    OBVIOUS
  <1> DEFINE g == [i \in 0 .. n - 1 |-> f[i + 1]]
  <1>3. g \in [0 .. n - 1 -> Nat] /\ \A i \in 0 .. n - 1 : g[i] = f[i + 1]
    BY <1>2
  <1> HIDE DEF g, t, n
  <1>4. ASSUME NEW i \in 1 .. n - 1 PROVE Conveys(t[i], g[i - 1], g[i], z)
    <2>1. /\ i - 1 \in 0 .. n - 1 /\ i \in 0 .. n - 1 /\ i + 1 \in 1 .. n
          /\ (i - 1) + 1 = i /\ (i + 1) - 1 = i
      BY <1>2
    <2>2. g[i - 1] = f[i] /\ g[i] = f[i + 1] /\ t[i] = s[i + 1]
      BY <1>2, <1>3, <2>1
    <2>3. Conveys(s[i + 1], f[i], f[i + 1], z)
      BY <1>1, <2>1
    <2> QED
      BY <2>2, <2>3
  <1>5. g[0] = f[1] /\ g[n - 1] = b /\ f[1] \in Nat
    <2>1. 0 \in 0 .. n - 1 /\ n - 1 \in 0 .. n - 1 /\ 1 \in 0 .. n /\ (n - 1) + 1 = n /\ 0 + 1 = 1
      BY <1>2
    <2> QED
      BY <1>1, <1>3, <2>1
  <1>6. Carries(t, f[1], b, z)
    BY <1>2, <1>3, <1>4, <1>5 DEF Carries
  <1>7. Conveys(Head(s), a, f[1], z)
    <2>1. 1 \in 1 .. n /\ 1 - 1 = 0
      BY <1>2
    <2> QED
      BY <1>1, <1>2, <2>1
  <1> QED
    BY <1>5, <1>6, <1>7 DEF t

(* ... and a single one.                                                    *)
LEMMA CarriesOne ==
  ASSUME NEW m \in Message, NEW a, NEW b, NEW z
  PROVE  Carries(<<m>>, a, b, z) <=> a \in Nat /\ b \in Nat /\ Conveys(m, a, b, z)
  <1>1. /\ <<m>> \in Seq(Message) /\ <<m>> # <<>> /\ Head(<<m>>) = m /\ Tail(<<m>>) = <<>>
        /\ <<>> \in Seq(Message) /\ Append(<<>>, m) = <<m>>
    OBVIOUS
  <1>2. ASSUME Carries(<<m>>, a, b, z) PROVE a \in Nat /\ b \in Nat /\ Conveys(m, a, b, z)
    <2>1. PICK c \in Nat : Conveys(Head(<<m>>), a, c, z) /\ Carries(Tail(<<m>>), c, b, z)
      BY <1>1, <1>2, CarriesLess
    <2>2. b = c
      BY <1>1, <2>1, CarriesNone
    <2> QED
      BY <1>1, <1>2, <2>1, <2>2, CarriesNat
  <1>3. ASSUME a \in Nat, b \in Nat, Conveys(m, a, b, z) PROVE Carries(<<m>>, a, b, z)
    <2>1. Carries(<<>>, a, a, z)
      BY <1>3, CarriesNone
    <2>2. Carries(Append(<<>>, m), a, b, z)
      BY <1>1, <1>3, <2>1, CarriesMore
    <2> QED
      BY <1>1, <2>2
  <1> QED
    BY <1>2, <1>3

(* Where a closing message has to be matters to such messages only.         *)
LEMMA CarriesAfter ==
  ASSUME NEW s \in Seq(Message), NEW a, NEW b, NEW y \in Int, NEW z \in Int, Carries(s, a, b, z),
         y <= z \/ NoClose(s)
  PROVE  Carries(s, a, b, y)
  <1>1. PICK f \in [0 .. Len(s) -> Nat] :
           f[0] = a /\ f[Len(s)] = b /\ \A i \in 1 .. Len(s) : Conveys(s[i], f[i - 1], f[i], z)
    BY DEF Carries
  <1>2. ASSUME NEW i \in 1 .. Len(s) PROVE Conveys(s[i], f[i - 1], f[i], y)
    <2>1. f[i - 1] \in Nat
      BY <1>1
    <2>2. Conveys(s[i], f[i - 1], f[i], z)
      BY <1>1
    <2>3. s[i] = CloseChannel => y <= f[i - 1]
      BY <2>1, <2>2 DEF Conveys, NoClose
    <2> QED
      BY <2>2, <2>3 DEF Conveys
  <1> QED
    BY <1>1, <1>2 DEF Carries
-----------------------------------------------------------------------------
(* Data on its way to r: the bytes it has, read or in the buffer, go on in  *)
(* the message it reads, in those on their way, and in what the writer at   *)
(* the other end has to send, as long as someone reads.                     *)
Stock(r) == Len(got[r]) + ch[r].count

CloseAt(r) == IF closes[Other(r)] = 1 THEN before[Other(r)] ELSE 0

Buffered(r) ==
    LET c == ch[r]
    IN  /\ c.tail = (c.head + c.count) % Size
        /\ \A i \in 0 .. c.count - 1 : c.slots[(c.head + i) % Size] = Len(got[r]) + i + 1

InOrder(r) ==
    \E a, b \in Nat :
        /\ Carries(InHand(r), Stock(r), a, CloseAt(r))
        /\ Carries(link[r], a, b, CloseAt(r))
        /\ Connected => Carries(todo[Other(r)]["writer"], b, next[Other(r)], 0)

Listens(r) == loop[r] \in {"off", "reading", "got"}

Flows(r) == IsPrefixOfWritten(got[r]) /\ Buffered(r) /\ (Listens(r) => InOrder(r))

(* MESSAGE_CLOSE_CHANNEL on its way to r.  The only one that the other end  *)
(* sends finds the channel open; once it arrived, r has what was sent       *)
(* before, and has read it once it reads the end.                           *)
Unsent(e) == closes[e] = 0 \/ (closes[e] = 1 /\ todo[e]["closer"] # <<>>)

AtEnd(r) == pc[r]["reader"] = "eof"

OneClose(r) == closes[r] = 0 /\ closes[Other(r)] = 1

Finishes(r) ==
    /\ Unsent(Other(r)) => NoClose(InHand(r)) /\ NoClose(link[r])
    /\ Connected =>
          /\ Unsent(Other(r)) /\ closes[r] = 0 => ~ch[r].hup
          /\ OneClose(r) /\ ch[r].hup => before[Other(r)] <= Stock(r)
          /\ AtEnd(r) => ch[r].hup
          /\ OneClose(r) /\ AtEnd(r) => before[Other(r)] <= Len(got[r])

(* valent_bluez_muxer_close() was called at e, which the thread of the      *)
(* closer does not survive.  Without it, or a cut, the connection stands.   *)
Leaves(e) == pc[e]["closer"] \in {"join", "done"}

Left == ~Connected => \E e \in End : Leaves(e)

(* What holds at every end, whatever was cut.                               *)
CountedAt(e) ==
    /\ todo[e]["closer"] \in {<<>>, <<CloseChannel>>}
    /\ Len(todo[e]["writer"]) <= 1 /\ Carried(todo[e]["writer"]) <= next[e]
    /\ closes[e] = 0 => before[e] = 0 /\ pc[e]["closer"] = "idle"
    /\ closes[e] = 1 /\ Leaves(e) => before[e] = 0
    /\ loop[e] \in {"ended", "joined"} => base[e] = "closed"
    /\ ch[e].table = "gone" => loop[e] = "joined"
    /\ ch[e].table = "none" => ch[e].count = 0

Counted ==
    /\ cuts \in Nat /\ closes \in [End -> Nat] /\ before \in [End -> Nat]
    /\ \A e \in End : CountedAt(e)

DataInv ==
    /\ Inv /\ Counted
    /\ cuts = 0 => Left /\ \A r \in End : Flows(r) /\ Finishes(r)

LEMMA InitData == Init => DataInv
  <1> SUFFICES ASSUME Init PROVE DataInv
    OBVIOUS
  <1>1. Inv
    BY InitInv
  <1>2. \A e \in End :
           /\ ch[e] \in ChannelState /\ ch[e].count = 0 /\ ~ch[e].hup /\ ch[e].table \in {"none", "here"}
           /\ ch[e].head = 0 /\ ch[e].tail = 0
           /\ hand[e] = None /\ link[e] = <<>> /\ got[e] = <<>> /\ next[e] = 0
           /\ loop[e] \in {"off", "reading"} /\ closes[e] = 0 /\ before[e] = 0
           /\ base[e] = "open"
           /\ \A t \in Thread : todo[e][t] = <<>>
           /\ pc[e]["closer"] = "idle" /\ pc[e]["reader"] = "new"
    <2>1. Inv /\ \A e \in End : ch[e].count = 0 /\ ~ch[e].hup /\ ch[e].table \in {"none", "here"}
                                /\ ch[e].head = 0 /\ ch[e].tail = 0
      BY <1>1 DEF Init, NewState
    <2> QED
      BY <2>1 DEF Init, Thread, Inv, TypeOK
  <1>3. Counted
    <2>1. cuts \in Nat /\ closes \in [End -> Nat] /\ before \in [End -> Nat]
      BY DEF Init
    <2>2. \A e \in End : todo[e]["closer"] = <<>> /\ todo[e]["writer"] = <<>>
      BY <1>2 DEF Thread
    <2> QED
      BY <1>2, <2>1, <2>2, SumEmpty DEF Counted, CountedAt, Carried, Leaves
  <1>4. Left
    BY <1>2 DEF Left, Connected
  <1>5. ASSUME NEW r \in End PROVE Flows(r) /\ Finishes(r)
    <2>1. InHand(r) = <<>> /\ link[r] = <<>> /\ Stock(r) = 0 /\ CloseAt(r) = 0
      BY <1>2, EndFacts DEF InHand, Stock, CloseAt
    <2>2. Carries(<<>>, 0, 0, 0)
      BY CarriesNone
    <2>3. todo[Other(r)]["writer"] = <<>> /\ next[Other(r)] = 0
      BY <1>2, EndFacts DEF Thread
    <2>4. InOrder(r)
      BY <2>1, <2>2, <2>3 DEF InOrder
    <2>5. IsPrefixOfWritten(got[r])
      BY <1>2 DEF IsPrefixOfWritten
    <2>6. Buffered(r)
      BY <1>2, SizeAssumption DEF Buffered
    <2>7. Finishes(r)
      BY <1>2, <2>1 DEF Finishes, NoClose, AtEnd, OneClose
    <2> QED
      BY <2>4, <2>5, <2>6, <2>7 DEF Flows
  <1> QED
    BY <1>1, <1>3, <1>4, <1>5 DEF DataInv
-----------------------------------------------------------------------------
(* A step of e leaves the other end alone, but for what it sends.           *)
Alone(e) ==
    \A d \in End \ {e} :
        /\ ch'[d] = ch[d] /\ pc'[d] = pc[d] /\ todo'[d] = todo[d] /\ loop'[d] = loop[d]
        /\ hand'[d] = hand[d] /\ base'[d] = base[d] /\ next'[d] = next[d] /\ got'[d] = got[d]
        /\ closes'[d] = closes[d] /\ before'[d] = before[d]

LEMMA Acts ==
  ASSUME TypeOK, Counted, NEW e \in End,
         Step(e) \/ SendCut(e) \/ CloseStream(e) \/ CloseMuxer(e)
  PROVE  Alone(e)
  <1> USE DEF Alone, TypeOK, Counted, recvVars, history, Goto
  <1>1. ASSUME NEW t \in Thread, Lock(e, t) PROVE Alone(e)
    BY <1>1 DEF Lock
  <1>2. ASSUME NEW t \in Thread, Send(e, t) PROVE Alone(e)
    BY <1>2 DEF Send, Sent
  <1>3. ASSUME NEW t \in Thread, SendFails(e, t) PROVE Alone(e)
    BY <1>3 DEF SendFails, BeginClose
  <1>4. ASSUME NEW t \in Thread, Join(e, t) PROVE Alone(e)
    BY <1>4 DEF Join
  <1>5. CASE Open(e) \/ Accept(e) \/ MarkClosed(e) \/ CloseStream(e)
    BY <1>5 DEF Open, Accept, MarkClosed, CloseStream
  <1>6. CASE SendCut(e) \/ CloseMuxer(e)
    BY <1>6 DEF SendCut, CloseMuxer, BeginClose
  <1>7. CASE Receive(e) \/ ReceiveEnds(e) \/ ReceiveStopped(e) \/ LoopCloses(e)
    BY <1>7 DEF Receive, ReceiveEnds, ReceiveStopped, LoopCloses
  <1>8. CASE Dispatch(e)
    BY <1>8 DEF Dispatch
  <1>9. ASSUME NEW closed \in BOOLEAN, Take(e, closed),
               UNCHANGED <<lock, recvVars, link, base, next, history>>
        PROVE  Alone(e)
    BY <1>9 DEF Take
  <1>10. CASE Read(e) \/ WakeReader(e)
    BY <1>9, <1>10 DEF Read, WakeReader, Closed, ChannelState
  <1>11. CASE Write(e) \/ WakeWriter(e)
    BY <1>11 DEF Write, WakeWriter, Put
  <1> QED
    BY <1>1, <1>2, <1>3, <1>4, <1>5, <1>6, <1>7, <1>8, <1>10, <1>11 DEF Step

(* What its end has to keep.                                                *)
LEMMA CountedAlone ==
  ASSUME Counted, NEW e \in End, Alone(e), CountedAt(e)',
         cuts' \in Nat, closes' \in [End -> Nat], before' \in [End -> Nat]
  PROVE  Counted'
  <1> SUFFICES ASSUME NEW d \in End, d # e PROVE CountedAt(d)'
    BY DEF Counted
  <1>1. CountedAt(d)
    BY DEF Counted
  <1> QED
    BY <1>1 DEF CountedAt, Alone, Leaves
(* What a step of e does to it, if nobody begins to close or to write, and  *)
(* nothing is forgotten.                                                    *)
Regular(e) ==
    /\ closes'[e] = closes[e] /\ before'[e] = before[e] /\ next'[e] = next[e]
    /\ \A t \in {"writer", "closer"} : todo'[e][t] = todo[e][t] \/ todo'[e][t] = <<>>
    /\ pc[e]["closer"] = "idle" => pc'[e]["closer"] = "idle"
    /\ Leaves(e)' => Leaves(e)
    /\ base[e] = "closed" => base'[e] = "closed"
    /\ loop'[e] \in {"ended", "joined"} => loop[e] \in {"ended", "joined"} \/ base'[e] = "closed"
    /\ loop[e] = "joined" => loop'[e] = "joined"
    /\ ch'[e].table = "gone" => ch[e].table = "gone" \/ loop'[e] = "joined"
    /\ ch'[e].table = "none" => ch[e].table = "none"
    /\ ch'[e].count \in 0 .. ch[e].count \/ ch'[e].table # "none"

(* Such a step keeps the counts ...                                         *)
LEMMA RegularCounts ==
  ASSUME TypeOK, Counted, NEW e \in End, Regular(e)
  PROVE  CountedAt(e)'
  <1>1. CountedAt(e) /\ next[e] \in Nat
    BY DEF TypeOK, Counted
  <1>2. Carried(<<>>) = 0 /\ Len(<<>>) = 0
    BY SumEmpty DEF Carried
  <1>3. /\ todo'[e]["closer"] \in {<<>>, <<CloseChannel>>}
        /\ Len(todo'[e]["writer"]) <= 1 /\ Carried(todo'[e]["writer"]) <= next'[e]
    BY <1>1, <1>2 DEF CountedAt, Regular
  <1>4. /\ closes'[e] = 0 => before'[e] = 0 /\ pc'[e]["closer"] = "idle"
        /\ closes'[e] = 1 /\ Leaves(e)' => before'[e] = 0
    BY <1>1 DEF CountedAt, Regular
  <1>5. /\ loop'[e] \in {"ended", "joined"} => base'[e] = "closed"
        /\ ch'[e].table = "gone" => loop'[e] = "joined"
        /\ ch'[e].table = "none" => ch'[e].count = 0
    BY <1>1 DEF CountedAt, Regular
  <1> QED
    BY <1>3, <1>4, <1>5 DEF CountedAt

(* Without the types of what is sent, which such steps do not look at.      *)
Shape ==
    /\ todo \in [End -> [Thread -> Seq(Message)]]
    /\ pc \in [End -> [Thread -> {"new", "idle", "want", "send", "mark", "join", "done",
                                 "ready", "waiting", "eof", "error"}]]
    /\ ch \in [End -> ChannelState] /\ \A e \in End : ch[e].count \in Nat
    /\ loop \in [End -> {"off", "reading", "got", "failed", "ended", "joined"}]
    /\ base \in [End -> {"open", "closed"}]
    /\ next \in [End -> Nat] /\ closes \in [End -> Nat] /\ before \in [End -> Nat]

LEMMA ShapeFacts == TypeOK /\ Counted => Shape
  BY DEF Shape, TypeOK, Counted, ChannelState

(* ... and these are such steps.                                            *)
LEMMA RegularSteps ==
  ASSUME Shape, NEW e \in End
  PROVE  /\ \A t \in Thread : Lock(e, t) \/ SendFails(e, t) \/ Join(e, t) => Regular(e)
         /\ Open(e) \/ Accept(e) \/ MarkClosed(e) \/ SendCut(e) => Regular(e)
         /\ Receive(e) \/ ReceiveEnds(e) \/ ReceiveStopped(e) \/ LoopCloses(e) => Regular(e)
  <1> USE DEF Shape, Thread, Regular, Leaves, recvVars, history, Goto
  <1>1. ASSUME NEW t \in Thread, Lock(e, t) PROVE Regular(e)
    BY <1>1 DEF Lock
  <1>2. ASSUME NEW t \in Thread, SendFails(e, t) PROVE Regular(e)
    BY <1>2 DEF SendFails, BeginClose
  <1>3. ASSUME NEW t \in Thread, Join(e, t) PROVE Regular(e)
    <2>1. pc[e][t] = "join" /\ pc' = [pc EXCEPT ![e][t] = "done"]
          /\ UNCHANGED <<todo, base, next, closes, before>>
      BY <1>3 DEF Join
    <2>2. CASE loop[e] = "ended"
      <3>1. HangUp(ch[e]) \in ChannelState
        BY HangUpFacts DEF Becomes
      <3>2. loop'[e] = "joined" /\ ch'[e].table = "gone"
        BY <1>3, <2>2, <3>1 DEF Join, ChannelState
      <3> QED
        BY <2>1, <2>2, <3>2
    <2>3. CASE loop[e] # "ended"
      BY <1>3, <2>1, <2>3 DEF Join
    <2> QED
      BY <2>2, <2>3
  <1>4. CASE Open(e)
    BY <1>4 DEF Open, NewState
  <1>5. CASE Accept(e)
    BY <1>5 DEF Accept, ChannelState
  <1>6. CASE MarkClosed(e)
    BY <1>6 DEF MarkClosed, HangUp, ChannelState
  <1>7. CASE SendCut(e)
    BY <1>7 DEF SendCut, BeginClose
  <1>8. CASE Receive(e) \/ ReceiveEnds(e) \/ ReceiveStopped(e) \/ LoopCloses(e)
    BY <1>8 DEF Receive, ReceiveEnds, ReceiveStopped, LoopCloses
  <1> QED
    BY <1>1, <1>2, <1>3, <1>4, <1>5, <1>6, <1>7, <1>8


LEMMA RegularReads ==
  ASSUME Shape, NEW e \in End, Read(e) \/ WakeReader(e)
  PROVE  Regular(e)
  <1> USE DEF Shape, Thread, Regular, Leaves, recvVars, history, Goto
  <1>1. ASSUME NEW closed \in BOOLEAN, Take(e, closed),
               UNCHANGED <<lock, recvVars, link, base, next, history>>
        PROVE  Regular(e)
    <2>1. ch[e] \in ChannelState /\ ch[e].count \in Nat
      OBVIOUS
    <2>2. /\ \E w : pc' = [pc EXCEPT ![e]["reader"] = w]
          /\ \E q : todo' = todo \/ todo' = [todo EXCEPT ![e]["reader"] = q]
      BY <1>1 DEF Take
    <2>3. ch'[e].table = ch[e].table /\ ch'[e].count \in 0 .. ch[e].count
      <3>1. CASE ch' = ch
        BY <2>1, <3>1
      <3>2. CASE ch' = [ch EXCEPT ![e].err = TRUE]
        BY <2>1, <3>2 DEF ChannelState
      <3>3. ASSUME NEW n \in 1 .. ch[e].count, NEW more,
                   ch' = [ch EXCEPT ![e] = [Taken(ch[e], n) EXCEPT !.readFree = @ + more]]
            PROVE  ch'[e].table = ch[e].table /\ ch'[e].count \in 0 .. ch[e].count
        <4>1. Becomes(ch[e], Taken(ch[e], n), ch[e].count - n, ch[e].readFree, ch[e].writeFree)
          BY <2>1, TakenFacts
        <4> QED
          BY <2>1, <3>3, <4>1 DEF Becomes, ChannelState
      <3> QED
        BY <1>1, <3>1, <3>2, <3>3 DEF Take
    <2> QED
      BY <1>1, <2>2, <2>3
  <1>2. CASE \E closed \in BOOLEAN : Take(e, closed)
    BY <1>1, <1>2 DEF Read, WakeReader
  <1>3. CASE ~\E closed \in BOOLEAN : Take(e, closed)
    <2>1. (ch[e].hup \/ ch[e].err) \in BOOLEAN
      BY DEF ChannelState
    <2>2. /\ \E w : pc' = [pc EXCEPT ![e]["reader"] = w]
          /\ UNCHANGED <<ch, todo, next, base, loop, closes, before>>
      BY <1>3, <2>1 DEF Read, WakeReader, Closed
    <2>3. ch[e].count \in 0 .. ch[e].count
      OBVIOUS
    <2> QED
      BY <2>2, <2>3
  <1> QED
    BY <1>2, <1>3

LEMMA RegularDispatch ==
  ASSUME Shape, NEW e \in End, hand[e] \in Message, Dispatch(e)
  PROVE  Regular(e)
  <1> DEFINE m == hand[e]
             d == Handled(ch[e], m)
  <1>1. /\ loop[e] = "got" /\ loop'[e] \in {"failed", "reading"}
        /\ ch'[e] = ch[e] \/ (~Refused(ch[e], m) /\ ch'[e] = d)
        /\ UNCHANGED <<pc, todo, next, base, closes, before>>
    BY DEF Dispatch, Shape, history
  <1>2. ch[e] \in ChannelState /\ ch[e].count \in 0 .. ch[e].count
    BY DEF Shape
  <1>3. ASSUME ~Refused(ch[e], m)
        PROVE  /\ d.table \in {ch[e].table, "here"}
               /\ d.count = ch[e].count \/ d.table = "here"
    <2>1. CASE m = OpenChannel
      BY <1>2, <1>3, <2>1, HandledFacts, NewStateFacts
    <2>2. CASE m # OpenChannel
      <3>1. d.table = ch[e].table
        BY <1>2, <1>3, <2>2, HandledFacts
      <3>2. d.count = ch[e].count \/ ch[e].table = "here"
        <4>1. CASE m \in Writes
          BY <1>3, <4>1 DEF Refused, Writes
        <4>2. CASE m \in Reads
          BY <1>2, <4>2 DEF Handled, Reads, ChannelState
        <4>3. CASE m \in {Version, CloseChannel}
          BY <1>2, <4>3 DEF Handled, Version, CloseChannel, ChannelState, HangUp
        <4> QED
          BY <2>2, <4>1, <4>2, <4>3 DEF Message
      <3> QED
        BY <3>1, <3>2
    <2> QED
      BY <2>1, <2>2
  <1> HIDE DEF d, m
  <1> QED
    BY <1>1, <1>2, <1>3 DEF Regular, Leaves

(* What is known of MESSAGE_CLOSE_CHANNEL when it is sent.                  *)
LEMMA CountedSends ==
  ASSUME Inv, Counted, NEW e \in End, NEW t \in Thread, Send(e, t)
  PROVE  CountedAt(e)' /\ before' \in [End -> Nat]
  <1> DEFINE m == Head(todo[e][t])
  <1>1. Shape /\ CountedAt(e) /\ closes[e] \in Nat
        /\ \A u \in Thread : todo[e][u] \in Seq(SentBy(u)) /\ todo[e][u] \in Seq(Message)
    BY ShapeFacts DEF Inv, Counted, TypeOK
  <1>2. pc[e][t] = "send" /\ todo[e][t] # <<>>
    BY DEF Send, Inv, Orderly
  <1>3. m \in SentBy(t)
    BY <1>1, <1>2
  <1>4. m = CloseChannel => t = "closer"
    BY <1>3 DEF Thread, SentBy, CloseChannel, Version, OpenChannel, Reads, Writes
  <1>5. \A u \in {"writer", "closer"} : Len(todo[e][u]) <= 1
    <2>1. Len(<<>>) <= 1 /\ Len(<<CloseChannel>>) <= 1
      OBVIOUS
    <2>2. todo[e]["closer"] \in {<<>>, <<CloseChannel>>} /\ Len(todo[e]["writer"]) <= 1
      BY <1>1 DEF CountedAt
    <2>3. Len(todo[e]["closer"]) <= 1
      BY <2>1, <2>2
    <2> QED
      BY <2>2, <2>3
  <1>6. t \in {"writer", "closer"} => Tail(todo[e][t]) = <<>>
    BY <1>1, <1>2, <1>5
  <1>7. /\ \A u \in {"writer", "closer"} : todo'[e][u] = todo[e][u] \/ todo'[e][u] = <<>>
        /\ todo'[e]["writer"] = todo[e]["writer"] \/ t = "writer"
        /\ UNCHANGED <<ch, next, closes, base>>
    BY <1>1, <1>6 DEF Send, Shape, Thread, history
  <1>8. /\ loop'[e] = loop[e] \/ (loop[e] = "off" /\ loop'[e] = "reading")
        /\ pc'[e]["closer"] = pc[e]["closer"] \/ (t = "closer" /\ pc'[e]["closer"] = "mark")
    <2>1. CASE Tail(todo[e][t]) = <<>>
      <3>1. Sent(e, t)
        BY <2>1 DEF Send
      <3>2. pc'[e]["closer"] = IF t = "closer" THEN "mark" ELSE pc[e]["closer"]
        BY <1>1, <3>1 DEF Sent, Shape, Thread
      <3>3. loop'[e] = IF loop[e] = "off" THEN "reading" ELSE loop[e]
        BY <1>1, <3>1 DEF Sent, Shape
      <3> QED
        BY <3>2, <3>3
    <2>2. CASE Tail(todo[e][t]) # <<>>
      BY <2>2 DEF Send
    <2> QED
      BY <2>1, <2>2
  <1>9. CASE m # CloseChannel
    <2>1. before' = before
      BY <1>9 DEF Send
    <2>2. Regular(e)
      BY <1>1, <1>2, <1>7, <1>8, <2>1 DEF Regular, Leaves, Shape
    <2> QED
      BY <1>1, <2>1, <2>2, RegularCounts DEF Inv, Shape
  <1>10. CASE m = CloseChannel
    <2>1. t = "closer" /\ pc'[e]["closer"] \in {"send", "mark"} /\ closes[e] # 0
      BY <1>1, <1>2, <1>4, <1>8, <1>10 DEF CountedAt
    <2>2. next[e] - Carried(todo[e]["writer"]) \in Nat
      BY <1>1, Numbers DEF Inv, CountedAt, TypeOK
    <2>3. before' \in [End -> Nat]
      BY <1>1, <1>10, <2>2 DEF Send, Shape
    <2>4. CountedAt(e)'
      BY <1>1, <1>7, <1>8, <2>1 DEF CountedAt, Leaves
    <2> QED
      BY <2>3, <2>4
  <1> QED
    BY <1>9, <1>10

(* A writer has one message, of bytes that were counted.                    *)
LEMMA CountedPuts ==
  ASSUME Inv, Inv', Counted, NEW e \in End, Put(e), UNCHANGED <<loop, base, closes, before>>
  PROVE  CountedAt(e)'
  <1>1. PICK n \in 1 .. Min2(ch[e].writeFree, Total[e] - next[e]) :
           /\ todo' = [todo EXCEPT ![e]["writer"] =
                          <<WriteData(n, [i \in 1 .. n |-> next[e] + i])>>]
           /\ next' = [next EXCEPT ![e] = @ + n]
           /\ ch' = [ch EXCEPT ![e].writeFree = @ - n, ![e].out = ch[e].writeFree > n]
    BY DEF Put
  <1> DEFINE m == WriteData(n, [i \in 1 .. n |-> next[e] + i])
  <1>2. Shape /\ CountedAt(e) /\ next[e] \in Nat /\ pc' = [pc EXCEPT ![e]["writer"] = "want"]
    BY ShapeFacts DEF Inv, Counted, TypeOK, Put, Goto
  <1>3. n \in Nat /\ m.size = n /\ m.type = "write"
    BY DEF WriteData
  <1> HIDE DEF m
  <1>4. /\ todo'[e]["writer"] = <<m>> /\ todo'[e]["closer"] = todo[e]["closer"]
        /\ next'[e] = next[e] + n /\ pc'[e]["closer"] = pc[e]["closer"]
        /\ ch'[e].table = ch[e].table /\ ch'[e].count = ch[e].count
    BY <1>1, <1>2 DEF Shape, Thread, ChannelState, m
  <1>5. m \in Message
    <2>1. todo'[e]["writer"] \in Seq(Message)
      BY DEF Inv, TypeOK, Thread
    <2> QED
      BY <1>4, <2>1
  <1>6. Carried(<<m>>) = n /\ Len(<<m>>) = 1
    BY <1>3, <1>5, SumOne DEF Carried, Kinds, Amount
  <1> QED
    BY <1>2, <1>3, <1>4, <1>6 DEF CountedAt, Leaves

(* Every step of e keeps the counts.                                        *)
LEMMA CountedStep ==
  ASSUME Inv, Inv', Counted, NEW e \in End,
         Step(e) \/ SendCut(e) \/ CloseStream(e) \/ CloseMuxer(e)
  PROVE  Alone(e) /\ Counted'
  <1>1. Alone(e) /\ TypeOK /\ Shape /\ CountedAt(e) /\ closes[e] \in Nat
    BY Acts, ShapeFacts DEF Inv, Counted
  <1>2. CountedAt(e)'
    <2>1. CASE CloseStream(e) \/ CloseMuxer(e)
      <3>1. /\ pc[e]["closer"] = "idle" /\ closes'[e] = closes[e] + 1
            /\ todo'[e]["closer"] \in {<<>>, <<CloseChannel>>}
            /\ todo'[e]["writer"] = todo[e]["writer"] /\ base'[e] \in {base[e], "closed"}
            /\ UNCHANGED <<ch, next, before, loop>>
        BY <1>1, <2>1 DEF CloseStream, CloseMuxer, BeginClose, Shape, Thread, recvVars
      <3> QED
        BY <1>1, <3>1 DEF CountedAt, Leaves
    <2>3. CASE \E t \in Thread : Send(e, t)
      BY <2>3, CountedSends
    <2>4. CASE Dispatch(e)
      <3>1. hand[e] \in Message
        BY <2>4 DEF Dispatch, Inv, TypeOK, Orderly
      <3> QED
        BY <1>1, <2>4, <3>1, RegularDispatch, RegularCounts
    <2>5. CASE Write(e) \/ WakeWriter(e)
      <3>1. UNCHANGED <<loop, base, closes, before>>
        BY <2>5 DEF Write, WakeWriter, recvVars, history
      <3>2. CASE Put(e)
        BY <3>1, <3>2, CountedPuts
      <3>3. CASE ~Put(e)
        <4>1. UNCHANGED <<ch, todo, next>> /\ \E w : Goto(e, "writer", w)
          BY <2>5, <3>3 DEF Write, WakeWriter
        <4>2. Regular(e)
          BY <1>1, <3>1, <4>1 DEF Regular, Leaves, Goto, Shape, Thread
        <4> QED
          BY <1>1, <4>2, RegularCounts
      <3> QED
        BY <3>2, <3>3
    <2>6. CASE \/ \E t \in Thread : Lock(e, t) \/ SendFails(e, t) \/ Join(e, t)
               \/ Open(e) \/ Accept(e) \/ MarkClosed(e) \/ SendCut(e)
               \/ Receive(e) \/ ReceiveEnds(e) \/ ReceiveStopped(e) \/ LoopCloses(e)
               \/ Read(e) \/ WakeReader(e)
      <3>1. Regular(e)
        BY <1>1, <2>6, RegularSteps, RegularReads
      <3> QED
        BY <1>1, <3>1, RegularCounts
    <2> QED
      BY <2>1, <2>3, <2>4, <2>5, <2>6 DEF Step
  <1>3. cuts' \in Nat /\ closes' \in [End -> Nat] /\ before' \in [End -> Nat]
    <2>1. CASE SendCut(e) \/ CloseStream(e) \/ CloseMuxer(e)
      <3>1. /\ cuts' \in {cuts, cuts + 1} /\ before' = before
            /\ closes' = closes \/ closes' = [closes EXCEPT ![e] = @ + 1]
        BY <2>1 DEF SendCut, CloseStream, CloseMuxer
      <3> QED
        BY <3>1 DEF Counted
    <2>2. CASE \E t \in Thread : Send(e, t)
      BY <2>2, CountedSends DEF Send, Counted
    <2>3. CASE Step(e) /\ ~\E t \in Thread : Send(e, t)
      <3>1. UNCHANGED history
        BY <2>3 DEF Step, history, Lock, SendFails, Join, Open, Accept, MarkClosed,
           Receive, ReceiveEnds, ReceiveStopped, LoopCloses, Dispatch, Read, WakeReader, Write,
           WakeWriter
      <3> QED
        BY <3>1 DEF history, Counted
    <2> QED
      BY <2>1, <2>2, <2>3
  <1> QED
    BY <1>1, <1>2, <1>3, CountedAlone
-----------------------------------------------------------------------------
(* A step that leaves what is on its way to r as it is, what the writer at  *)
(* the other end has to send, and what is known of the end of the channel.  *)
SameData(r) ==
    /\ got'[r] = got[r] /\ hand'[r] = hand[r] /\ link'[r] = link[r]
    /\ ch'[r].head = ch[r].head /\ ch'[r].tail = ch[r].tail
    /\ ch'[r].count = ch[r].count /\ ch'[r].slots = ch[r].slots
    /\ Listens(r)' => Listens(r)

SameSource(r) ==
    Connected' => /\ Connected
                  /\ todo'[Other(r)]["writer"] = todo[Other(r)]["writer"]
                  /\ next'[Other(r)] = next[Other(r)]

SameEnd(r) ==
    /\ closes'[Other(r)] = closes[Other(r)] /\ before'[Other(r)] = before[Other(r)]
    /\ todo'[Other(r)]["closer"] # <<>> => todo[Other(r)]["closer"] # <<>>
    /\ closes'[r] = 0 => closes[r] = 0
    /\ Connected' =>
          /\ Connected /\ (ch[r].hup => ch'[r].hup)
          /\ ch'[r].hup => ch[r].hup \/ closes'[r] # 0
          /\ AtEnd(r)' => AtEnd(r) \/ (ch[r].hup /\ ch[r].count = 0)

(* The types, where the data are.                                           *)
LEMMA LinkFacts ==
  ASSUME TypeOK, Counted, NEW r \in End
  PROVE  /\ InHand(r) \in Seq(Message) /\ link[r] \in Seq(Message)
         /\ \A t \in Thread : todo[r][t] \in Seq(Message) /\ todo[r][t] \in Seq(SentBy(t))
         /\ got[r] \in Seq(Nat) /\ Len(got[r]) \in Nat /\ ch[r] \in ChannelState /\ ch[r].count \in Nat
         /\ Stock(r) \in Nat /\ next[r] \in Nat /\ CloseAt(r) \in Nat
         /\ closes[r] \in Nat /\ before[r] \in Nat
  <1>1. InHand(r) \in Seq(Message) /\ link[r] \in Seq(Message)
    BY DEF TypeOK, InHand
  <1>2. \A t \in Thread : todo[r][t] \in Seq(Message) /\ todo[r][t] \in Seq(SentBy(t))
    BY DEF TypeOK
  <1>3. /\ got[r] \in Seq(Nat) /\ Len(got[r]) \in Nat /\ ch[r] \in ChannelState
        /\ ch[r].count \in Nat /\ next[r] \in Nat
    BY DEF TypeOK, ChannelState
  <1>4. CloseAt(r) \in Nat /\ closes[r] \in Nat /\ before[r] \in Nat
    BY EndFacts DEF Counted, CloseAt
  <1> QED
    BY <1>1, <1>2, <1>3, <1>4 DEF Stock

(* If nobody closes anew, or no such message is on its way, data keep       *)
(* flowing in order.                                                        *)
LEMMA SameFlows ==
  ASSUME TypeOK, Counted, Counted', NEW r \in End, Flows(r), SameData(r), SameSource(r),
         \/ CloseAt(r)' <= CloseAt(r)
         \/ NoClose(InHand(r)) /\ NoClose(link[r])
  PROVE  Flows(r)'
  <1>1. Stock(r)' = Stock(r) /\ InHand(r)' = InHand(r) /\ link'[r] = link[r]
    BY DEF Stock, InHand, SameData
  <1>2. IsPrefixOfWritten(got[r])' /\ Buffered(r)'
    BY DEF Flows, IsPrefixOfWritten, Buffered, SameData
  <1>3. ASSUME Listens(r)' PROVE InOrder(r)'
    <2>1. PICK a, b \in Nat :
             /\ Carries(InHand(r), Stock(r), a, CloseAt(r))
             /\ Carries(link[r], a, b, CloseAt(r))
             /\ Connected => Carries(todo[Other(r)]["writer"], b, next[Other(r)], 0)
      BY <1>3 DEF Flows, InOrder, SameData
    <2>2. CloseAt(r) \in Int /\ CloseAt(r)' \in Int
      <3>1. CloseAt(r) \in Nat /\ CloseAt(r)' \in Nat
        BY EndFacts DEF Counted, CloseAt
      <3> QED
        BY <3>1
    <2>3. /\ Carries(InHand(r), Stock(r), a, CloseAt(r)')
          /\ Carries(link[r], a, b, CloseAt(r)')
      BY <2>1, <2>2, LinkFacts, CarriesAfter
    <2>4. Connected' => Carries(todo'[Other(r)]["writer"], b, next'[Other(r)], 0)
      BY <2>1 DEF SameSource
    <2> QED
      BY <1>1, <2>3, <2>4 DEF InOrder
  <1> QED
    BY <1>2, <1>3 DEF Flows

(* What is known of the end stays true.                                     *)
LEMMA SameFinishes ==
  ASSUME TypeOK, Counted, NEW r \in End, Finishes(r), SameData(r), SameEnd(r)
  PROVE  Finishes(r)'
  <1>1. Stock(r)' = Stock(r) /\ InHand(r)' = InHand(r) /\ link'[r] = link[r]
    BY DEF Stock, InHand, SameData
  <1>2. Unsent(Other(r))' => Unsent(Other(r))
    BY DEF Unsent, SameEnd
  <1>3. OneClose(r)' => OneClose(r)
    BY DEF OneClose, SameEnd
  <1>4. before'[Other(r)] = before[Other(r)] /\ got'[r] = got[r]
    BY DEF SameEnd, SameData
  <1>5. (Unsent(Other(r)) => NoClose(InHand(r)) /\ NoClose(link[r]))'
    BY <1>1, <1>2 DEF Finishes, NoClose
  <1>6. ch[r].count = 0 => Stock(r) = Len(got[r])
    BY LinkFacts DEF Stock
  <1>7. ASSUME Connected'
        PROVE  /\ (Unsent(Other(r)) /\ closes[r] = 0 => ~ch[r].hup)'
               /\ (OneClose(r) /\ ch[r].hup => before[Other(r)] <= Stock(r))'
               /\ (AtEnd(r) => ch[r].hup)'
               /\ (OneClose(r) /\ AtEnd(r) => before[Other(r)] <= Len(got[r]))'
    BY <1>1, <1>2, <1>3, <1>4, <1>6, <1>7 DEF Finishes, SameEnd, OneClose
  <1> QED
    BY <1>5, <1>7 DEF Finishes

(* The end where nothing is done, as long as nothing is sent to it.         *)
KeepsOther(e) ==
    /\ link'[Other(e)] = link[Other(e)]
    /\ closes'[e] = closes[e] /\ before'[e] = before[e]
    /\ todo'[e]["closer"] # <<>> => todo[e]["closer"] # <<>>
    /\ Connected' => Connected

LEMMA OtherEnd ==
  ASSUME TypeOK, Counted, Counted', NEW e \in End, Alone(e), KeepsOther(e),
         Flows(Other(e)), Finishes(Other(e))
  PROVE  Finishes(Other(e))' /\ (SameSource(Other(e)) => Flows(Other(e))')
  <1> DEFINE o == Other(e)
  <1>1. o \in End /\ o # e /\ Other(o) = e
    BY EndFacts
  <1> HIDE DEF o
  <1>2. SameData(o) /\ SameEnd(o)
    BY <1>1 DEF SameData, SameEnd, Alone, KeepsOther, Listens, AtEnd, o
  <1>3. CloseAt(o)' <= CloseAt(o)
    <2>1. CloseAt(o)' = CloseAt(o) /\ CloseAt(o) \in Nat
      BY <1>1, LinkFacts DEF CloseAt, KeepsOther
    <2> QED
      BY <2>1
  <1> QED
    BY <1>1, <1>2, <1>3, SameFlows, SameFinishes DEF o

(* A step that keeps the connection, or gives it a reason not to be.        *)
KeepsLeft(e) ==
    /\ Leaves(e) => Leaves(e)'
    /\ Connected => Connected' \/ Leaves(e)'

(* What remains to show of a step of e.                                     *)
LEMMA DataFrom ==
  ASSUME DataInv, Inv', NEW e \in End, Alone(e), Counted', KeepsLeft(e),
         cuts = 0 /\ cuts' = 0 =>
            /\ Flows(e)' /\ Finishes(e)'
            /\ Flows(Other(e))' /\ Finishes(Other(e))',
         cuts' = 0 => cuts = 0
  PROVE  DataInv'
  <1> SUFFICES ASSUME cuts = 0, cuts' = 0
               PROVE Left' /\ \A r \in End : Flows(r)' /\ Finishes(r)'
    BY DEF DataInv
  <1>1. Left'
    <2>1. \A d \in End : Leaves(d) => Leaves(d)'
      BY DEF Alone, Leaves, KeepsLeft
    <2> QED
      BY <2>1 DEF DataInv, Left, KeepsLeft
  <1> QED
    BY <1>1, EndFacts

(* A step of e that leaves the data as it is.                               *)
LEMMA QuietData ==
  ASSUME DataInv, Inv', NEW e \in End, Alone(e), Counted', KeepsLeft(e), cuts' = cuts,
         SameData(e), KeepsOther(e), SameSource(Other(e)),
         closes'[e] = closes[e],
         Connected' =>
            /\ ch[e].hup => ch'[e].hup
            /\ ch'[e].hup => ch[e].hup \/ closes[e] # 0
            /\ AtEnd(e)' => AtEnd(e) \/ (ch[e].hup /\ ch[e].count = 0)
  PROVE  DataInv'
  <1>1. TypeOK /\ Counted
    BY DEF DataInv, Inv
  <1>2. SameSource(e) /\ SameEnd(e)
    BY EndFacts DEF SameSource, SameEnd, Alone, KeepsOther
  <1>3. CloseAt(e)' <= CloseAt(e)
    <2>1. CloseAt(e)' = CloseAt(e) /\ CloseAt(e) \in Nat
      BY <1>1, <1>2, LinkFacts DEF CloseAt, SameEnd
    <2> QED
      BY <2>1
  <1>4. ASSUME cuts = 0
        PROVE  Flows(e)' /\ Finishes(e)' /\ Flows(Other(e))' /\ Finishes(Other(e))'
    <2>1. Flows(e) /\ Finishes(e) /\ Flows(Other(e)) /\ Finishes(Other(e))
      BY <1>4, EndFacts DEF DataInv
    <2> QED
      BY <1>1, <1>2, <1>3, <2>1, SameFlows, SameFinishes, OtherEnd
  <1> QED
    BY <1>4, DataFrom
-----------------------------------------------------------------------------
(* The steps that move no data, one by one.                                 *)
LEMMA LockData ==
  ASSUME DataInv, Inv', Counted', NEW e \in End, Alone(e), NEW t \in Thread,
         Lock(e, t) \/ SendFails(e, t) \/ Join(e, t)
  PROVE  DataInv'
  <1>1. TypeOK /\ Shape
    BY ShapeFacts DEF DataInv, Inv
  <1>2. /\ UNCHANGED <<got, hand, link, next, closes, before, cuts>>
        /\ \A u \in Thread : todo'[e][u] = todo[e][u] \/ (todo'[e][u] = <<>> /\ ~Connected)
        /\ base' = base \/ ~Connected
    BY <1>1, EndFacts
       DEF Lock, SendFails, Join, BeginClose, history, recvVars, Shape, Connected
  <1>3. Connected' => Connected
    BY <1>1 DEF Lock, SendFails, Join, BeginClose, Shape, Connected
  <1>4. /\ Leaves(e) => Leaves(e)'
        /\ (AtEnd(e)' => AtEnd(e)) /\ (Listens(e)' => Listens(e))
    <2>1. pc[e][t] \in {"want", "send", "join"} /\ \A u \in Thread : u # t => pc'[e][u] = pc[e][u]
      BY <1>1 DEF Lock, SendFails, Join, BeginClose, Goto, Shape
    <2>2. pc'[e][t] \in {"send", "mark", "join", "done"}
          /\ (pc[e][t] = "join" => pc'[e][t] = "done")
      BY <1>1 DEF Lock, SendFails, Join, BeginClose, Goto, Shape
    <2>3. loop'[e] \in {loop[e], "joined"}
      BY <1>1 DEF Lock, SendFails, Join, Shape, recvVars
    <2> QED
      BY <2>1, <2>2, <2>3 DEF Leaves, AtEnd, Listens, Thread
  <1>5. /\ ch'[e].head = ch[e].head /\ ch'[e].tail = ch[e].tail
        /\ ch'[e].count = ch[e].count /\ ch'[e].slots = ch[e].slots
        /\ Connected => ch' = ch
    <2>1. CASE ch' = ch
      BY <2>1
    <2>2. CASE ch' # ch
      <3>1. loop[e] = "ended" /\ ch' = [ch EXCEPT ![e] = [HangUp(@) EXCEPT !.table = "gone"]]
        BY <2>2 DEF Lock, SendFails, Join
      <3>2. ch[e] \in ChannelState
        BY <1>1 DEF Shape
      <3>3. ~Connected
        BY <3>1 DEF DataInv, Inv, Standing
      <3> QED
        BY <1>1, <3>1, <3>2, <3>3 DEF HangUp, ChannelState, Shape
    <2> QED
      BY <2>1, <2>2
  <1>6. SameData(e)
    BY <1>2, <1>4, <1>5 DEF SameData
  <1>7. KeepsOther(e) /\ SameSource(Other(e)) /\ KeepsLeft(e)
    <2>1. Connected => Connected'
      BY <1>2 DEF Connected
    <2> QED
      BY <1>2, <1>3, <1>4, <2>1, EndFacts DEF KeepsOther, SameSource, KeepsLeft, Thread
  <1> QED
    BY <1>2, <1>3, <1>4, <1>5, <1>6, <1>7, QuietData

LEMMA AcceptData ==
  ASSUME DataInv, Inv', Counted', NEW e \in End, Alone(e), Accept(e) \/ MarkClosed(e)
  PROVE  DataInv'
  <1>1. TypeOK /\ Shape /\ CountedAt(e) /\ ch[e] \in ChannelState
    BY ShapeFacts DEF DataInv, Inv, Counted, Shape
  <1>2. UNCHANGED <<got, hand, link, next, closes, before, cuts, base, loop>>
    BY DEF Accept, MarkClosed, history, recvVars
  <1>3. /\ todo'[e]["writer"] = todo[e]["writer"] /\ todo'[e]["closer"] = todo[e]["closer"]
        /\ Leaves(e)' = Leaves(e) /\ (AtEnd(e)' => AtEnd(e))
    BY <1>1 DEF Accept, MarkClosed, Goto, Shape, Thread, Leaves, AtEnd
  <1>4. /\ ch'[e].head = ch[e].head /\ ch'[e].tail = ch[e].tail
        /\ ch'[e].count = ch[e].count /\ ch'[e].slots = ch[e].slots
        /\ (ch[e].hup => ch'[e].hup) /\ (ch'[e].hup => ch[e].hup \/ closes[e] # 0)
    <2>1. CASE Accept(e)
      BY <1>1, <2>1 DEF Accept, ChannelState, Shape
    <2>2. CASE MarkClosed(e)
      <3>1. closes[e] # 0
        BY <1>1, <2>2 DEF MarkClosed, CountedAt
      <3>2. ch'[e] = ch[e] \/ ch'[e] = HangUp(ch[e])
        BY <1>1, <2>2 DEF MarkClosed, Shape
      <3> QED
        BY <1>1, <3>1, <3>2 DEF HangUp, ChannelState
    <2> QED
      BY <2>1, <2>2
  <1>5. SameData(e) /\ KeepsOther(e) /\ SameSource(Other(e)) /\ KeepsLeft(e)
    BY <1>2, <1>3, <1>4, EndFacts
       DEF SameData, KeepsOther, SameSource, KeepsLeft, Listens, Connected
  <1> QED
    BY <1>2, <1>3, <1>4, <1>5, QuietData

LEMMA EndsData ==
  ASSUME DataInv, Inv', Counted', NEW e \in End, Alone(e),
         ReceiveEnds(e) \/ ReceiveStopped(e) \/ LoopCloses(e)
  PROVE  DataInv'
  <1>1. TypeOK /\ Shape
    BY ShapeFacts DEF DataInv, Inv
  <1>2. UNCHANGED <<got, hand, link, next, closes, before, cuts, ch, pc, todo>>
    BY DEF ReceiveEnds, ReceiveStopped, LoopCloses, history
  <1>3. (base' = base \/ ~Connected) /\ (Connected' => Connected)
    <2>1. loop[e] = "failed" => ~Connected
      BY DEF DataInv, Inv, Standing
    <2> QED
      BY <1>1, <2>1 DEF ReceiveEnds, ReceiveStopped, LoopCloses, Connected, Shape
  <1>4. Listens(e)' => Listens(e)
    BY <1>1 DEF ReceiveEnds, ReceiveStopped, LoopCloses, Listens, Shape
  <1>5. SameData(e) /\ KeepsOther(e) /\ SameSource(Other(e)) /\ KeepsLeft(e)
    BY <1>2, <1>3, <1>4 DEF SameData, KeepsOther, SameSource, KeepsLeft, Leaves, Connected
  <1> QED
    BY <1>2, <1>5, QuietData DEF AtEnd

(* A reader or a writer that does nothing but go on.                        *)
LEMMA GoesOnData ==
  ASSUME DataInv, Inv', Counted', NEW e \in End, Alone(e), NEW t \in {"reader", "writer"},
         NEW w \in {"ready", "waiting", "eof", "error"}, Goto(e, t, w),
         ch' = ch \/ ch' = [ch EXCEPT ![e].err = TRUE],
         w = "eof" => ch[e].hup /\ ch[e].count = 0,
         UNCHANGED <<todo, recvVars, link, base, next, got, history>>
  PROVE  DataInv'
  <1>1. TypeOK /\ Shape /\ ch[e] \in ChannelState
    BY ShapeFacts DEF DataInv, Inv, Shape
  <1>2. /\ ch'[e].head = ch[e].head /\ ch'[e].tail = ch[e].tail
        /\ ch'[e].count = ch[e].count /\ ch'[e].slots = ch[e].slots
        /\ ch'[e].hup = ch[e].hup
    BY <1>1 DEF ChannelState, Shape
  <1>3. Leaves(e)' = Leaves(e) /\ (AtEnd(e)' => AtEnd(e) \/ w = "eof")
    BY <1>1 DEF Goto, Shape, Thread, Leaves, AtEnd
  <1>4. SameData(e) /\ KeepsOther(e) /\ SameSource(Other(e)) /\ KeepsLeft(e)
    BY <1>2, <1>3
       DEF SameData, KeepsOther, SameSource, KeepsLeft, Listens, Connected, recvVars, history
  <1> QED
    BY <1>2, <1>3, <1>4, QuietData DEF history

(* valent_bluez_muxer_channel_open(): a new buffer where there was nothing. *)
LEMMA OpenData ==
  ASSUME DataInv, Inv', Counted', NEW e \in End, Alone(e), Open(e)
  PROVE  DataInv'
  <1>1. TypeOK /\ Shape /\ CountedAt(e) /\ Counted /\ ch[e] \in ChannelState
    BY ShapeFacts DEF DataInv, Inv, Counted, Shape
  <1>2. UNCHANGED <<got, hand, link, next, closes, before, cuts, base, loop>>
    BY DEF Open, history, recvVars
  <1>3. /\ todo'[e]["writer"] = todo[e]["writer"] /\ todo'[e]["closer"] = todo[e]["closer"]
        /\ Leaves(e)' = Leaves(e) /\ ~AtEnd(e)'
    BY <1>1 DEF Open, Goto, Shape, Thread, Leaves, AtEnd
  <1>4. /\ ch'[e].head = 0 /\ ch'[e].tail = 0 /\ ch'[e].count = 0 /\ ~ch'[e].hup
        /\ ch[e].count = 0
    BY <1>1 DEF Open, CountedAt, NewState, Shape
  <1>5. KeepsOther(e) /\ SameSource(Other(e)) /\ KeepsLeft(e)
    BY <1>2, <1>3, EndFacts DEF KeepsOther, SameSource, KeepsLeft, Connected
  <1>6. ASSUME cuts = 0
        PROVE  Flows(e)' /\ Finishes(e)' /\ Flows(Other(e))' /\ Finishes(Other(e))'
    <2>1. Flows(e) /\ Finishes(e) /\ Flows(Other(e)) /\ Finishes(Other(e))
      BY <1>6, EndFacts DEF DataInv
    <2>2. Flows(Other(e))' /\ Finishes(Other(e))'
      BY <1>1, <1>5, <2>1, OtherEnd
    <2>3. Stock(e)' = Stock(e) /\ InHand(e)' = InHand(e) /\ CloseAt(e)' = CloseAt(e)
          /\ Connected' = Connected /\ Listens(e)' = Listens(e)
      BY <1>2, <1>4 DEF Stock, InHand, CloseAt, Connected, Listens
    <2>4. todo'[Other(e)] = todo[Other(e)]
      BY EndFacts DEF Alone
    <2>5. Buffered(e)'
      BY <1>4, SizeAssumption DEF Buffered
    <2>6. Flows(e)'
      BY <1>2, <2>1, <2>3, <2>4, <2>5 DEF Flows, InOrder, IsPrefixOfWritten
    <2>7. Finishes(e)'
      BY <1>2, <1>3, <1>4, <2>1, <2>3, <2>4 DEF Finishes, NoClose, Unsent
    <2> QED
      BY <2>2, <2>6, <2>7
  <1> QED
    BY <1>2, <1>5, <1>6, DataFrom
(* A stream, or the muxer, is closed: nothing was sent before yet.          *)
LEMMA CloseData ==
  ASSUME DataInv, Inv', Counted', NEW e \in End, Alone(e), CloseStream(e) \/ CloseMuxer(e)
  PROVE  DataInv'
  <1> DEFINE o == Other(e)
  <1>1. TypeOK /\ Shape /\ CountedAt(e) /\ Counted
    BY ShapeFacts DEF DataInv, Inv, Counted
  <1>2. o \in End /\ o # e /\ Other(o) = e
    BY EndFacts
  <1> HIDE DEF o
  <1>3. /\ UNCHANGED <<got, hand, link, next, before, cuts, ch, loop>>
        /\ closes'[e] = closes[e] + 1 /\ closes[e] \in Nat /\ pc[e]["closer"] = "idle"
        /\ todo'[e]["writer"] = todo[e]["writer"]
        /\ Connected' => base' = base
    BY <1>1 DEF CloseStream, CloseMuxer, BeginClose, recvVars, Shape, Connected, Thread
  <1>4. /\ Connected' => Connected
        /\ Connected => Connected' \/ Leaves(e)'
        /\ ~Leaves(e) /\ (AtEnd(e)' => AtEnd(e)) /\ (closes[e] = 0 => before[e] = 0)
    BY <1>1, <1>3
       DEF CloseStream, CloseMuxer, BeginClose, Goto, Shape, Connected, Leaves, AtEnd, Thread,
           CountedAt
  <1>5. ASSUME cuts = 0
        PROVE  Flows(e)' /\ Finishes(e)' /\ Flows(o)' /\ Finishes(o)'
    <2>1. Flows(e) /\ Finishes(e) /\ Flows(o) /\ Finishes(o)
      BY <1>2, <1>5 DEF DataInv
    <2>2. SameData(e) /\ SameSource(e) /\ SameEnd(e)
      BY <1>2, <1>3, <1>4 DEF SameData, SameSource, SameEnd, Alone, Listens, o
    <2>3. CloseAt(e)' <= CloseAt(e)
      <3>1. CloseAt(e)' = CloseAt(e) /\ CloseAt(e) \in Nat
        BY <1>1, <1>2, LinkFacts DEF CloseAt, Alone, o
      <3> QED
        BY <3>1
    <2>4. Flows(e)' /\ Finishes(e)'
      BY <1>1, <2>1, <2>2, <2>3, SameFlows, SameFinishes
    <2>5. SameData(o) /\ SameSource(o)
      BY <1>2, <1>3, <1>4 DEF SameData, SameSource, Alone, Listens
    <2>6. CloseAt(o)' = 0 /\ CloseAt(o) \in Nat
      BY <1>1, <1>2, <1>3, <1>4, LinkFacts DEF CloseAt
    <2>7. Flows(o)'
      BY <1>1, <1>2, <2>1, <2>5, <2>6, SameFlows
    <2>8. Finishes(o)'
      <3>1. /\ Stock(o)' = Stock(o) /\ InHand(o)' = InHand(o) /\ link'[o] = link[o]
            /\ closes'[o] = closes[o] /\ AtEnd(o)' = AtEnd(o)
            /\ Stock(o) \in Nat /\ Len(got[o]) \in Nat
        BY <1>1, <1>2, <1>3, LinkFacts DEF Stock, InHand, Alone, AtEnd
      <3>2. Unsent(e)' => Unsent(e)
        BY <1>3 DEF Unsent
      <3>3. closes'[e] = 1 => before'[e] = 0
        BY <1>3, <1>4
      <3>4. (Unsent(e) => NoClose(InHand(o)) /\ NoClose(link[o]))'
        BY <1>2, <2>1, <3>1, <3>2 DEF Finishes, NoClose
      <3>5. ASSUME Connected'
            PROVE  /\ (Unsent(e) /\ closes[o] = 0 => ~ch[o].hup)'
                   /\ (OneClose(o) /\ ch[o].hup => before[e] <= Stock(o))'
                   /\ (AtEnd(o) => ch[o].hup)'
                   /\ (OneClose(o) /\ AtEnd(o) => before[e] <= Len(got[o]))'
        <4>1. ch'[o] = ch[o] /\ got'[o] = got[o] /\ Connected
          BY <1>3, <1>4, <3>5
        <4>2. (Unsent(e) /\ closes[o] = 0 => ~ch[o].hup)' /\ (AtEnd(o) => ch[o].hup)'
          BY <1>2, <2>1, <3>1, <3>2, <4>1 DEF Finishes
        <4>3. OneClose(o)' => before'[e] = 0
          BY <1>2, <3>3 DEF OneClose
        <4> QED
          BY <3>1, <4>1, <4>2, <4>3
      <3> QED
        BY <1>2, <3>4, <3>5 DEF Finishes
    <2> QED
      BY <2>4, <2>7, <2>8
  <1> QED
    BY <1>3, <1>4, <1>5, DataFrom DEF o, KeepsLeft

(* recv_header(): the first message on the way is read.                     *)
LEMMA ReceiveData ==
  ASSUME DataInv, Inv', Counted', NEW e \in End, Alone(e), Receive(e)
  PROVE  DataInv'
  <1> DEFINE m == Head(link[e])
             q == Tail(link[e])
             z == CloseAt(e)
  <1>1. TypeOK /\ Shape /\ Counted
    BY ShapeFacts DEF DataInv, Inv
  <1>2. /\ UNCHANGED <<got, next, closes, before, cuts, ch, pc, todo, base>>
        /\ link[e] # <<>> /\ link' = [link EXCEPT ![e] = q] /\ hand' = [hand EXCEPT ![e] = m]
        /\ hand[e] = None /\ Listens(e)
    BY DEF Receive, history, Listens, DataInv, Inv, Orderly
  <1>3. /\ link[e] \in Seq(Message) /\ m \in Message /\ m # None
        /\ link'[e] = q /\ hand'[e] = m /\ link'[Other(e)] = link[Other(e)]
    <2>1. link[e] \in Seq(Message) /\ m \in Message
      BY <1>1, <1>2 DEF TypeOK
    <2> QED
      BY <1>1, <1>2, <2>1, EndFacts, NoneAssumption DEF TypeOK
  <1>4. InHand(e) = <<>> /\ InHand(e)' = <<m>> /\ Stock(e)' = Stock(e) /\ z' = z
        /\ Connected' = Connected
    BY <1>2, <1>3 DEF InHand, Stock, CloseAt, Connected
  <1>5. KeepsOther(e) /\ SameSource(Other(e)) /\ KeepsLeft(e)
    BY <1>2, <1>3 DEF KeepsOther, SameSource, KeepsLeft, Connected, Leaves
  <1>6. ASSUME cuts = 0
        PROVE  Flows(e)' /\ Finishes(e)' /\ Flows(Other(e))' /\ Finishes(Other(e))'
    <2>1. Flows(e) /\ Finishes(e) /\ Flows(Other(e)) /\ Finishes(Other(e))
      BY <1>6, EndFacts DEF DataInv
    <2>2. Flows(Other(e))' /\ Finishes(Other(e))'
      BY <1>1, <1>5, <2>1, OtherEnd
    <2>3. InOrder(e)'
      <3>1. PICK a, b \in Nat :
               /\ Carries(InHand(e), Stock(e), a, z)
               /\ Carries(link[e], a, b, z)
               /\ Connected => Carries(todo[Other(e)]["writer"], b, next[Other(e)], 0)
        BY <1>2, <2>1 DEF Flows, InOrder
      <3>2. Stock(e) \in Nat /\ a = Stock(e)
        BY <1>4, <3>1, CarriesNone
      <3>3. PICK c \in Nat : Conveys(m, a, c, z) /\ Carries(q, c, b, z)
        BY <1>2, <1>3, <3>1, CarriesLess
      <3>4. Carries(<<m>>, Stock(e), c, z)
        BY <1>3, <3>2, <3>3, CarriesOne
      <3> HIDE DEF m, q, z
      <3> QED
        BY <1>2, <1>3, <1>4, <3>1, <3>3, <3>4 DEF InOrder, z
    <2>4. Flows(e)'
      BY <1>2, <2>1, <2>3 DEF Flows, IsPrefixOfWritten, Buffered
    <2>5. Finishes(e)'
      <3>1. NoClose(link[e]) => NoClose(<<m>>) /\ NoClose(q)
        <4>1. /\ Len(link[e]) \in Nat \ {0} /\ m = link[e][1] /\ Len(q) = Len(link[e]) - 1
              /\ \A i \in 1 .. Len(link[e]) - 1 : q[i] = link[e][i + 1]
          BY <1>2, <1>3
        <4>2. Len(<<m>>) = 1 /\ <<m>>[1] = m
          OBVIOUS
        <4> HIDE DEF m, q
        <4> QED
          BY <4>1, <4>2 DEF NoClose
      <3> HIDE DEF m, q
      <3>2. (Unsent(Other(e)) => NoClose(InHand(e)) /\ NoClose(link[e]))'
        <4>1. Unsent(Other(e))' = Unsent(Other(e))
          BY <1>2 DEF Unsent
        <4>2. Unsent(Other(e)) => NoClose(link[e])
          BY <2>1 DEF Finishes
        <4>3. NoClose(InHand(e))' = NoClose(<<m>>) /\ NoClose(link[e])' = NoClose(q)
          BY <1>3, <1>4 DEF NoClose
        <4> QED
          BY <3>1, <4>1, <4>2, <4>3
      <3> QED
        BY <1>2, <1>4, <2>1, <3>2 DEF Finishes, Unsent, OneClose, AtEnd
    <2> QED
      BY <2>2, <2>4, <2>5
  <1> QED
    BY <1>2, <1>5, <1>6, DataFrom
(* recv_open_channel(), recv_close_channel(), recv_read() and recv_write(): *)
(* what the message has goes to the buffer, after what is there.            *)
LEMMA HandledData ==
  ASSUME DataInv, cuts = 0, NEW e \in End, hand[e] \in Message, Listens(e),
         ~Refused(ch[e], hand[e]), ch[e].table # "gone"
  PROVE  LET d == Handled(ch[e], hand[e])
             x == Len(got[e])
             y == Stock(e) + Amount(hand[e], "write")
         IN  /\ x + d.count = y /\ y \in Nat
             /\ d.tail = (d.head + d.count) % Size
             /\ \A i \in 0 .. d.count - 1 : d.slots[(d.head + i) % Size] = x + i + 1
             /\ d.hup <=> hand[e] # OpenChannel /\ (ch[e].hup \/ (hand[e] = CloseChannel /\ ch[e].table = "here"))
  <1> DEFINE c == ch[e]
             m == hand[e]
             d == Handled(c, m)
             x == Len(got[e])
             y == Stock(e) + Amount(m, "write")
  <1>1. TypeOK /\ Counted /\ CountedAt(e) /\ BufferFits /\ Buffered(e) /\ InOrder(e)
    BY DEF DataInv, Inv, Counted, Flows
  <1>2. c \in ChannelState /\ c.count \in Nat /\ c.readFree \in Nat /\ x \in Nat
        /\ Stock(e) = x + c.count /\ c.count + c.readFree <= Size
    BY <1>1, LinkFacts DEF Stock, BufferFits, ChannelState
  <1>3. c.tail = (c.head + c.count) % Size
        /\ \A i \in 0 .. c.count - 1 : c.slots[(c.head + i) % Size] = x + i + 1
    BY <1>1 DEF Buffered
  <1>4. m \in {Version, OpenChannel, CloseChannel} \/ m \in Reads \/ m \in Writes
    BY DEF Message
  <1>5. CASE m = OpenChannel
    <2>1. c.table = "none" /\ c.count = 0
      BY <1>1, <1>2, <1>5 DEF Refused, OpenChannel, CountedAt, ChannelState
    <2>2. d = NewState("here") /\ Amount(m, "write") = 0
      BY <1>5 DEF Handled, OpenChannel, Amount
    <2>3. d.count = 0 /\ d.head = 0 /\ d.tail = 0 /\ ~d.hup
      BY <2>2 DEF NewState
    <2>4. 0 % Size = 0
      BY SizeAssumption
    <2> HIDE DEF c, m, d, x
    <2> QED
      BY <1>2, <1>5, <2>1, <2>2, <2>3, <2>4 DEF c, m, d, x
  <1>6. CASE m \notin Writes /\ m # OpenChannel
    <2>1. /\ d.head = c.head /\ d.tail = c.tail /\ d.count = c.count /\ d.slots = c.slots
          /\ d.hup <=> c.hup \/ (m = CloseChannel /\ c.table = "here")
      <3>1. CASE m = Version
        BY <3>1 DEF Handled, Version, CloseChannel
      <3>2. CASE m = CloseChannel
        BY <1>2, <3>2 DEF Handled, HangUp, ChannelState, CloseChannel
      <3>3. CASE m \in Reads
        <4> HIDE DEF c, m
        <4>1. c \in ChannelState /\ m.type = "read" /\ m # CloseChannel
          BY <1>2, <3>3 DEF Reads, CloseChannel
        <4>2. d = [c EXCEPT !.writeFree = @ + m.size, !.out = TRUE]
          BY <4>1 DEF Handled
        <4> QED
          BY <4>1, <4>2 DEF ChannelState
      <3> QED
        BY <1>4, <1>6, <3>1, <3>2, <3>3
    <2>2. Amount(m, "write") = 0
      BY <1>4, <1>6 DEF Amount, Version, CloseChannel, OpenChannel, Reads
    <2> HIDE DEF c, m, d, x
    <2> QED
      BY <1>2, <1>3, <1>6, <2>1, <2>2 DEF c, m, d, x
  <1>7. CASE m \in Writes
    <2>1. d = Stored(c, m) /\ m.type = "write" /\ m.size \in Nat \ {0} /\ Amount(m, "write") = m.size
          /\ m # OpenChannel /\ m # CloseChannel
      BY <1>7 DEF Handled, Writes, Amount, OpenChannel, CloseChannel
    <2>2. m.size <= c.readFree
      BY <1>2, <2>1 DEF Refused
    <2>3. m.data = [j \in 1 .. m.size |-> Stock(e) + j]
      <3>1. InHand(e) = <<m>>
        BY NoneAssumption DEF InHand
      <3>2. PICK a \in Nat : Carries(<<m>>, Stock(e), a, CloseAt(e))
        BY <1>1, <3>1 DEF InOrder
      <3>3. Conveys(m, Stock(e), a, CloseAt(e))
        BY <3>2, CarriesOne
      <3> QED
        BY <2>1, <3>3 DEF Conveys
    <2>4. Len(m.data) = m.size
      BY <2>1, <2>3
    <2>5. /\ d.head = c.head /\ d.count = c.count + m.size /\ d.hup = c.hup
          /\ d.tail = (d.head + d.count) % Size
          /\ \A i \in 0 .. c.count - 1 : d.slots[(c.head + i) % Size] = c.slots[(c.head + i) % Size]
          /\ \A i \in 1 .. m.size : d.slots[(c.head + c.count + i - 1) % Size] = m.data[i]
      <3>1. c.count + m.size <= Size
        BY <1>2, <2>1, <2>2, SizeAssumption
      <3>2. d.count = c.count + m.size /\ d.hup = c.hup
        BY <1>2, <2>1 DEF Stored, ChannelState
      <3> HIDE DEF c, m, d
      <3> QED
        BY <1>2, <1>3, <1>7, <2>1, <2>4, <3>1, <3>2, StoredRing
    <2>6. ASSUME NEW i \in 0 .. d.count - 1 PROVE d.slots[(d.head + i) % Size] = x + i + 1
      <3>1. CASE i <= c.count - 1
        <4> HIDE DEF c, d, x
        <4>1. i \in 0 .. c.count - 1
          BY <1>2, <2>1, <2>5, <3>1 DEF c
        <4> QED
          BY <1>3, <2>5, <4>1 DEF c, x
      <3>2. CASE ~(i <= c.count - 1)
        <4> DEFINE k == i - c.count + 1
        <4> HIDE DEF c, d, x, m, k
        <4>1. k \in 1 .. m.size /\ c.head \in Nat /\ c.head + c.count + k - 1 = c.head + i
              /\ Stock(e) + k = x + i + 1
          <5>1. c.head \in Nat
            BY <1>2, SizeAssumption DEF c, ChannelState
          <5> QED
            BY <1>2, <2>1, <2>5, <3>2, <5>1 DEF k
        <4>2. d.slots[(c.head + c.count + k - 1) % Size] = m.data[k] /\ m.data[k] = Stock(e) + k
          BY <2>3, <2>5, <4>1 DEF m
        <4> QED
          BY <2>5, <4>1, <4>2
      <3> QED
        BY <3>1, <3>2
    <2> HIDE DEF c, m, d, x
    <2>7. x + d.count = y /\ y \in Nat
      BY <1>2, <2>1, <2>5
    <2>8. d.hup <=> m # OpenChannel /\ (c.hup \/ (m = CloseChannel /\ c.table = "here"))
      BY <1>2, <2>1, <2>5
    <2> QED
      BY <2>5, <2>6, <2>7, <2>8 DEF c, m, d, x
  <1> QED
    BY <1>4, <1>5, <1>6, <1>7

(* A message is dispatched.                                                 *)
LEMMA DispatchData ==
  ASSUME DataInv, Inv', Counted', NEW e \in End, Alone(e), Dispatch(e)
  PROVE  DataInv'
  <1> DEFINE o == Other(e)
             m == hand[e]
             d == Handled(ch[e], m)
             z == CloseAt(e)
  <1>1. TypeOK /\ Shape /\ Counted /\ CountedAt(e)
    BY ShapeFacts DEF DataInv, Inv, Counted
  <1>2. /\ UNCHANGED <<got, next, closes, before, cuts, pc, todo, base, link>>
        /\ hand' = [hand EXCEPT ![e] = None] /\ loop[e] = "got" /\ Listens(e)
        /\ m \in Message /\ m # None
    BY <1>1 DEF Dispatch, history, Listens, DataInv, Inv, Orderly, TypeOK
  <1>3. /\ Refused(ch[e], m) => ~Listens(e)' /\ ch' = ch
        /\ ~Refused(ch[e], m) => ch'[e] = d
    BY <1>1 DEF Dispatch, Shape, Listens
  <1>4. /\ hand'[e] = None /\ InHand(e) = <<m>> /\ InHand(e)' = <<>>
        /\ z' = z /\ Connected' = Connected /\ z \in Nat /\ o \in End
    BY <1>1, <1>2, EndFacts, LinkFacts DEF TypeOK, InHand, CloseAt, Connected
  <1>5. KeepsOther(e) /\ SameSource(o) /\ KeepsLeft(e)
    BY <1>2 DEF KeepsOther, SameSource, KeepsLeft, Connected, Leaves
  <1>6. ASSUME cuts = 0
        PROVE  Flows(e)' /\ Finishes(e)' /\ Flows(o)' /\ Finishes(o)'
    <2>1. Flows(e) /\ Finishes(e) /\ Flows(o) /\ Finishes(o)
      BY <1>4, <1>6 DEF DataInv
    <2>2. Flows(o)' /\ Finishes(o)'
      BY <1>1, <1>5, <2>1, OtherEnd
    <2>3. NoClose(InHand(e))' /\ (NoClose(link[e])' = NoClose(link[e])) /\ Unsent(o)' = Unsent(o)
      <3>1. Len(<<>>) = 0
        OBVIOUS
      <3> QED
        BY <1>2, <1>4, <3>1 DEF NoClose, Unsent
    <2>4. CASE Refused(ch[e], m)
      <3>1. ~Connected
        BY <1>2, <2>4, NotRefused DEF DataInv
      <3>2. Flows(e)'
        BY <1>2, <1>3, <2>1, <2>4 DEF Flows, IsPrefixOfWritten, Buffered
      <3>3. Finishes(e)'
        BY <1>4, <2>1, <2>3, <3>1 DEF Finishes
      <3> QED
        BY <2>2, <3>2, <3>3
    <2>5. CASE ~Refused(ch[e], m)
      <3> DEFINE x == Len(got[e])
                 y == Stock(e) + Amount(m, "write")
      <3>1. ch[e].table # "gone"
        BY <1>1, <1>2 DEF CountedAt
      <3>2. /\ x + d.count = y /\ y \in Nat /\ d.tail = (d.head + d.count) % Size
            /\ \A i \in 0 .. d.count - 1 : d.slots[(d.head + i) % Size] = x + i + 1
            /\ d.hup <=> /\ m # OpenChannel
                         /\ ch[e].hup \/ (m = CloseChannel /\ ch[e].table = "here")
        BY <1>2, <1>6, <2>5, <3>1, HandledData
      <3>3. ch'[e] = d /\ got'[e] = got[e]
        BY <1>2, <1>3, <2>5
      <3>4. PICK a, b \in Nat :
               /\ Carries(<<m>>, Stock(e), a, z)
               /\ Carries(link[e], a, b, z)
               /\ Connected => Carries(todo[o]["writer"], b, next[o], 0)
        BY <1>2, <1>4, <2>1 DEF Flows, InOrder
      <3>5. a = y /\ (m = CloseChannel => z <= Stock(e)) /\ Stock(e) \in Nat
        BY <1>2, <3>4, CarriesOne DEF Conveys
      <3> HIDE DEF d, x
      <3>6. Stock(e)' = y
        BY <3>2, <3>3 DEF Stock, x
      <3>7. Flows(e)'
        <4>1. Carries(<<>>, y, y, z)
          BY <3>2, CarriesNone
        <4>2. InOrder(e)'
          <5> HIDE DEF y, z, m
          <5> QED
            BY <1>2, <1>4, <3>4, <3>5, <3>6, <4>1 DEF InOrder, o, z
        <4>3. Buffered(e)'
          BY <3>2, <3>3 DEF Buffered, x
        <4> QED
          BY <3>3, <2>1, <4>2, <4>3 DEF Flows, IsPrefixOfWritten
      <3>8. Finishes(e)'
        <4>1. ASSUME Connected
              PROVE  /\ Unsent(o) /\ closes[e] = 0 => ~d.hup
                     /\ OneClose(e) /\ d.hup => before[o] <= y
                     /\ AtEnd(e) => d.hup
          <5>1. Unsent(o) => m # CloseChannel
            <6>1. Len(<<m>>) = 1 /\ <<m>>[1] = m
              OBVIOUS
            <6> QED
              BY <1>4, <2>1, <6>1 DEF Finishes, NoClose
          <5>2. Unsent(o) /\ closes[e] = 0 => ~d.hup
            BY <2>1, <3>2, <4>1, <5>1 DEF Finishes
          <5>3. ASSUME OneClose(e), d.hup PROVE before[o] <= y
            <6>1. Stock(e) <= y /\ before[o] \in Nat
              <7>1. before[o] \in Nat /\ Amount(m, "write") \in Nat
                BY <1>1, <1>2, <1>4, MessageFacts DEF Counted, Kinds
              <7> QED
                BY <3>5, <7>1
            <6>2. before[o] <= Stock(e)
              <7>1. CASE ch[e].hup
                BY <2>1, <4>1, <5>3, <7>1 DEF Finishes
              <7>2. CASE m = CloseChannel
                BY <3>5, <5>3, <7>2 DEF CloseAt, OneClose
              <7> QED
                BY <3>2, <5>3, <7>1, <7>2
            <6> HIDE DEF y
            <6> QED
              BY <3>2, <3>5, <6>1, <6>2
          <5>4. ASSUME AtEnd(e) PROVE d.hup
            <6>1. ch[e].hup
              BY <2>1, <4>1, <5>4 DEF Finishes
            <6>2. m # OpenChannel
              BY <1>2, <4>1, <6>1, NotRefused, NewStateFacts DEF DataInv
            <6> QED
              BY <3>2, <6>1, <6>2
          <5> QED
            BY <5>2, <5>3, <5>4
        <4>2. /\ Unsent(o)' = Unsent(o) /\ closes'[e] = closes[e] /\ OneClose(e)' = OneClose(e)
              /\ AtEnd(e)' = AtEnd(e) /\ before'[o] = before[o]
          BY <1>2, <2>3 DEF OneClose, AtEnd
        <4> HIDE DEF y, z, m
        <4> QED
          BY <1>4, <2>1, <2>3, <3>3, <3>6, <4>1, <4>2 DEF Finishes, o
      <3> QED
        BY <2>2, <3>7, <3>8
    <2> QED
      BY <2>4, <2>5
  <1> QED
    BY <1>2, <1>5, <1>6, DataFrom

(* Numbers in a row, after numbers in a row.                                *)
LEMMA Joined ==
  ASSUME NEW s \in Seq(Nat), NEW q \in Seq(Nat), s = [i \in 1 .. Len(s) |-> i],
         \A i \in 1 .. Len(q) : q[i] = Len(s) + i
  PROVE  /\ s \o q = [i \in 1 .. Len(s) + Len(q) |-> i]
         /\ Len(s \o q) = Len(s) + Len(q)
  <1>1. /\ Len(s \o q) = Len(s) + Len(q) /\ s \o q \in Seq(Nat)
        /\ Len(s) \in Nat /\ Len(q) \in Nat
    OBVIOUS
  <1>2. ASSUME NEW i \in 1 .. Len(s) + Len(q) PROVE (s \o q)[i] = i
    <2>1. CASE i <= Len(s)
      <3>1. (s \o q)[i] = s[i] /\ i \in 1 .. Len(s)
        BY <1>1, <2>1
      <3>2. s[i] = i
        BY <3>1
      <3> QED
        BY <3>1, <3>2
    <2>2. CASE ~(i <= Len(s))
      <3>1. (s \o q)[i] = q[i - Len(s)] /\ i - Len(s) \in 1 .. Len(q)
        BY <1>1, <2>2
      <3>2. q[i - Len(s)] = Len(s) + (i - Len(s))
        BY <3>1
      <3> QED
        BY <1>1, <3>1, <3>2
    <2> QED
      BY <2>1, <2>2
  <1> DEFINE r == s \o q
  <1>3. r \in Seq(Nat) /\ Len(r) = Len(s) + Len(q) /\ \A i \in 1 .. Len(r) : r[i] = i
    BY <1>1, <1>2
  <1> HIDE DEF r
  <1>4. r = [i \in 1 .. Len(r) |-> i]
    BY <1>3
  <1> QED
    BY <1>3, <1>4 DEF r

(* valent_bluez_muxer_channel_read(): the bytes at the head are those that  *)
(* follow what was read.                                                    *)
LEMMA TakesData ==
  ASSUME DataInv, Inv', Counted', NEW e \in End, Alone(e),
         NEW n \in 1 .. ch[e].count, NEW more,
         got' = [got EXCEPT ![e] = @ \o Bytes(ch[e], n)],
         ch' = [ch EXCEPT ![e] = [Taken(ch[e], n) EXCEPT !.readFree = @ + more]],
         NEW w \in {"ready", "want"}, Goto(e, "reader", w),
         todo' = todo \/ todo' = [todo EXCEPT ![e]["reader"] = <<ReadMore(more)>>],
         UNCHANGED <<lock, recvVars, link, base, next, history>>
  PROVE  DataInv'
  <1> DEFINE c == ch[e]
             d == Taken(c, n)
             x == Len(got[e])
  <1>1. TypeOK /\ Shape /\ Counted /\ BufferFits
    BY ShapeFacts DEF DataInv, Inv
  <1>2. UNCHANGED <<hand, link, next, closes, before, cuts, base, loop>>
    BY DEF recvVars, history
  <1>3. /\ \A t \in {"writer", "closer"} : todo'[e][t] = todo[e][t]
        /\ Leaves(e)' = Leaves(e) /\ ~AtEnd(e)'
    BY <1>1 DEF Goto, Shape, Thread, Leaves, AtEnd
  <1>4. /\ c \in ChannelState /\ c.count \in Nat /\ c.readFree \in Nat /\ c.count + c.readFree <= Size
        /\ got[e] \in Seq(Nat) /\ x \in Nat /\ n \in Nat
    BY <1>1, LinkFacts DEF BufferFits, ChannelState
  <1>5. /\ d \in ChannelState /\ d.count = c.count - n
        /\ ch'[e].head = d.head /\ ch'[e].tail = d.tail /\ ch'[e].count = d.count
        /\ ch'[e].slots = d.slots /\ ch'[e].hup = c.hup
    <2>1. d \in ChannelState /\ d.count = c.count - n /\ d.hup = c.hup
      BY <1>4, TakenFacts DEF Becomes, Taken, ChannelState
    <2> HIDE DEF d
    <2>2. ch'[e] = [d EXCEPT !.readFree = @ + more]
      BY <1>1 DEF Shape, d
    <2> QED
      BY <2>1, <2>2 DEF ChannelState
  <1>6. KeepsOther(e) /\ SameSource(Other(e)) /\ KeepsLeft(e)
    BY <1>2, <1>3, EndFacts DEF KeepsOther, SameSource, KeepsLeft, Connected
  <1>7. ASSUME cuts = 0
        PROVE  Flows(e)' /\ Finishes(e)' /\ Flows(Other(e))' /\ Finishes(Other(e))'
    <2>1. Flows(e) /\ Finishes(e) /\ Flows(Other(e)) /\ Finishes(Other(e))
      BY <1>7, EndFacts DEF DataInv
    <2>2. Flows(Other(e))' /\ Finishes(Other(e))'
      BY <1>1, <1>6, <2>1, OtherEnd
    <2>3. c.count <= Size
      <3> HIDE DEF c
      <3> QED
        BY <1>4, SizeAssumption
    <2>4. /\ d.tail = (d.head + d.count) % Size
          /\ \A i \in 0 .. d.count - 1 : d.slots[(d.head + i) % Size] = x + n + i + 1
          /\ Bytes(c, n) = [i \in 1 .. n |-> x + i]
      BY <1>4, <2>1, <2>3, TakenData DEF Flows, Buffered
    <2>5. got'[e] = [i \in 1 .. x + n |-> i] /\ Len(got'[e]) = x + n
      <3>1. got'[e] = got[e] \o [i \in 1 .. n |-> x + i]
        BY <1>1, <2>4 DEF TypeOK
      <3>2. got[e] = [i \in 1 .. x |-> i]
        BY <2>1 DEF Flows, IsPrefixOfWritten
      <3> DEFINE q == [i \in 1 .. n |-> x + i]
      <3> HIDE DEF x
      <3>3. q \in Seq(Nat) /\ Len(q) = n /\ \A i \in 1 .. n : q[i] = x + i
        BY <1>4
      <3> HIDE DEF q
      <3>4. got[e] \o q = [i \in 1 .. x + n |-> i] /\ Len(got[e] \o q) = x + n
        BY <1>4, <3>2, <3>3, Joined DEF x
      <3> QED
        BY <3>1, <3>4 DEF q
    <2> HIDE DEF d, x
    <2>6. Buffered(e)'
      BY <1>5, <2>4, <2>5 DEF Buffered
    <2>7. Stock(e)' = Stock(e) /\ InHand(e)' = InHand(e) /\ CloseAt(e)' = CloseAt(e)
          /\ Connected' = Connected /\ Listens(e)' = Listens(e)
      <3>1. Stock(e)' = Stock(e)
        BY <1>4, <1>5, <2>5 DEF Stock, x
      <3> QED
        BY <1>2, <3>1 DEF InHand, CloseAt, Connected, Listens
    <2>8. todo'[Other(e)] = todo[Other(e)]
      BY EndFacts DEF Alone
    <2>9. Flows(e)'
      <3>1. InOrder(e)' = InOrder(e)
        BY <1>2, <2>7, <2>8 DEF InOrder
      <3>2. IsPrefixOfWritten(got[e])'
        BY <2>5 DEF IsPrefixOfWritten
      <3> QED
        BY <2>1, <2>6, <2>7, <3>1, <3>2 DEF Flows
    <2>10. Finishes(e)'
      BY <1>2, <1>3, <1>5, <2>1, <2>7, <2>8 DEF Finishes, NoClose, Unsent, OneClose
    <2> QED
      BY <2>2, <2>9, <2>10
  <1> QED
    BY <1>2, <1>6, <1>7, DataFrom
(* A reader that takes what there is, if there is anything.                 *)
LEMMA TakeData ==
  ASSUME DataInv, Inv', Counted', NEW e \in End, Alone(e), NEW closed \in BOOLEAN, Take(e, closed),
         UNCHANGED <<lock, recvVars, link, base, next, history>>
  PROVE  DataInv'
  <1>1. CASE \E w \in {"error", "eof"} :
                /\ Goto(e, "reader", w) /\ (w = "eof" => ch[e].hup /\ ch[e].count = 0)
                /\ ch' = ch \/ ch' = [ch EXCEPT ![e].err = TRUE]
                /\ UNCHANGED <<got, todo>>
    BY <1>1, GoesOnData
  <1>2. ASSUME NEW n \in 1 .. ch[e].count, NEW more,
               got' = [got EXCEPT ![e] = @ \o Bytes(ch[e], n)],
               ch' = [ch EXCEPT ![e] = [Taken(ch[e], n) EXCEPT !.readFree = @ + more]],
               \/ Goto(e, "reader", "ready") /\ UNCHANGED todo
               \/ /\ todo' = [todo EXCEPT ![e]["reader"] = <<ReadMore(more)>>]
                  /\ Goto(e, "reader", "want")
        PROVE  DataInv'
    BY <1>2, TakesData
  <1> QED
    BY <1>1, <1>2 DEF Take

LEMMA ReadData ==
  ASSUME DataInv, Inv', Counted', NEW e \in End, Alone(e), Read(e) \/ WakeReader(e)
  PROVE  DataInv'
  <1>1. UNCHANGED <<lock, recvVars, link, base, next, history>>
    BY DEF Read, WakeReader
  <1>2. CASE \E closed \in BOOLEAN : Take(e, closed)
    BY <1>1, <1>2, TakeData
  <1>3. CASE ~\E closed \in BOOLEAN : Take(e, closed)
    <2>1. (ch[e].hup \/ ch[e].err) \in BOOLEAN
      BY DEF DataInv, Inv, TypeOK, ChannelState
    <2>2. \E w \in {"ready", "waiting", "error"} : Goto(e, "reader", w) /\ UNCHANGED <<ch, got, todo>>
      BY <1>3, <2>1 DEF Read, WakeReader, Closed
    <2> QED
      BY <1>1, <2>2, GoesOnData
  <1> QED
    BY <1>2, <1>3

(* valent_bluez_muxer_channel_write(): the bytes that follow are taken from *)
(* the caller, and no others are left to send.                              *)
LEMMA PutData ==
  ASSUME DataInv, Inv', Counted', NEW e \in End, Alone(e),
         pc[e]["writer"] \in {"ready", "waiting"}, Put(e),
         UNCHANGED <<lock, recvVars, link, base, got, history>>
  PROVE  DataInv'
  <1> DEFINE o == Other(e)
  <1>1. TypeOK /\ Shape /\ Counted /\ Orderly
    BY ShapeFacts DEF DataInv, Inv
  <1>2. UNCHANGED <<hand, link, got, closes, before, cuts, base, loop>>
    BY DEF recvVars, history
  <1>3. PICK n \in 1 .. Min2(ch[e].writeFree, Total[e] - next[e]) :
           /\ todo' = [todo EXCEPT ![e]["writer"] =
                          <<WriteData(n, [i \in 1 .. n |-> next[e] + i])>>]
           /\ next' = [next EXCEPT ![e] = @ + n]
           /\ ch' = [ch EXCEPT ![e].writeFree = @ - n, ![e].out = ch[e].writeFree > n]
    BY DEF Put
  <1> DEFINE m == WriteData(n, [i \in 1 .. n |-> next[e] + i])
  <1>4. /\ todo'[e]["writer"] = <<m>> /\ todo'[e]["closer"] = todo[e]["closer"]
        /\ next'[e] = next[e] + n /\ next[e] \in Nat /\ n \in Nat
        /\ todo[e]["writer"] = <<>>
        /\ Leaves(e)' = Leaves(e) /\ AtEnd(e)' = AtEnd(e)
    <2>1. pc' = [pc EXCEPT ![e]["writer"] = "want"]
      BY DEF Put, Goto
    <2>2. Leaves(e)' = Leaves(e) /\ AtEnd(e)' = AtEnd(e)
      BY <1>1, <2>1 DEF Shape, Thread, Leaves, AtEnd
    <2>3. todo[e]["writer"] = <<>>
      BY <1>1 DEF Orderly, Thread
    <2>4. next[e] \in Nat /\ n \in Nat /\ next'[e] = next[e] + n
      BY <1>1, <1>3 DEF Shape
    <2> HIDE DEF m
    <2>5. todo'[e]["writer"] = <<m>> /\ todo'[e]["closer"] = todo[e]["closer"]
      BY <1>1, <1>3 DEF Shape, Thread, m
    <2> QED
      BY <2>2, <2>3, <2>4, <2>5
  <1>5. ch[e] \in ChannelState /\ ch'[e] = [ch[e] EXCEPT !.writeFree = @ - n, !.out = ch[e].writeFree > n]
    BY <1>1, <1>3 DEF Shape
  <1>6. SameData(e) /\ ch'[e].hup = ch[e].hup
    BY <1>2, <1>5 DEF SameData, Listens, ChannelState
  <1>7. o \in End /\ o # e /\ Other(o) = e
    BY EndFacts
  <1> HIDE DEF o
  <1>8. KeepsOther(e) /\ KeepsLeft(e) /\ SameSource(e) /\ SameEnd(e)
    BY <1>2, <1>4, <1>6, <1>7
       DEF KeepsOther, KeepsLeft, SameSource, SameEnd, Connected, Alone, o
  <1>9. ASSUME cuts = 0
        PROVE  Flows(e)' /\ Finishes(e)' /\ Flows(o)' /\ Finishes(o)'
    <2>1. Flows(e) /\ Finishes(e) /\ Flows(o) /\ Finishes(o)
      BY <1>7, <1>9 DEF DataInv
    <2>2. Finishes(o)'
      BY <1>1, <1>8, <2>1, OtherEnd DEF o
    <2>3. Flows(e)' /\ Finishes(e)'
      <3>1. CloseAt(e)' <= CloseAt(e)
        <4>1. CloseAt(e)' = CloseAt(e) /\ CloseAt(e) \in Nat
          BY <1>1, <1>2, LinkFacts DEF CloseAt
        <4> QED
          BY <4>1
      <3> QED
        BY <1>1, <1>6, <1>8, <2>1, <3>1, SameFlows, SameFinishes
    <2>4. /\ Stock(o)' = Stock(o) /\ InHand(o)' = InHand(o) /\ CloseAt(o)' = CloseAt(o)
          /\ Connected' = Connected /\ Listens(o)' = Listens(o) /\ ch'[o] = ch[o]
      BY <1>2, <1>7 DEF Stock, InHand, CloseAt, Connected, Listens, Alone
    <2>5. ASSUME Listens(o) PROVE InOrder(o)'
      <3>1. PICK a, b \in Nat :
               /\ Carries(InHand(o), Stock(o), a, CloseAt(o))
               /\ Carries(link[o], a, b, CloseAt(o))
               /\ Connected => Carries(todo[e]["writer"], b, next[e], 0)
        BY <1>7, <2>1, <2>5 DEF Flows, InOrder
      <3>2. ASSUME Connected PROVE Carries(<<m>>, b, next'[e], 0)
        <4>1. b = next[e]
          BY <1>4, <3>1, <3>2, CarriesNone
        <4>2. m \in Message
          <5>1. todo'[e]["writer"] \in Seq(Message)
            BY DEF Inv, TypeOK, Thread
          <5> QED
            BY <1>4, <5>1
        <4>3. /\ m.type = "write" /\ m.size = n /\ Amount(m, "write") = n /\ m # CloseChannel
              /\ m.data = [i \in 1 .. n |-> next[e] + i]
          BY DEF WriteData, Amount, CloseChannel
        <4> HIDE DEF m
        <4>4. Conveys(m, next[e], next'[e], 0) /\ next'[e] \in Nat
          BY <1>4, <4>3 DEF Conveys
        <4> QED
          BY <1>4, <4>1, <4>2, <4>4, CarriesOne
      <3> HIDE DEF m
      <3> QED
        BY <1>2, <1>4, <1>7, <2>4, <3>1, <3>2 DEF InOrder
    <2>6. Flows(o)'
      BY <1>2, <2>1, <2>4, <2>5 DEF Flows, Buffered, IsPrefixOfWritten
    <2> QED
      BY <2>2, <2>3, <2>6
  <1> QED
    BY <1>2, <1>8, <1>9, DataFrom DEF o

LEMMA WriteStepData ==
  ASSUME DataInv, Inv', Counted', NEW e \in End, Alone(e), Write(e) \/ WakeWriter(e)
  PROVE  DataInv'
  <1>1. UNCHANGED <<lock, recvVars, link, base, got, history>>
        /\ pc[e]["writer"] \in {"ready", "waiting"}
    BY DEF Write, WakeWriter
  <1>2. CASE Put(e)
    BY <1>1, <1>2, PutData
  <1>3. CASE ~Put(e)
    <2>1. \E w \in {"ready", "waiting", "error"} :
             Goto(e, "writer", w) /\ UNCHANGED <<ch, todo, next>>
      BY <1>3 DEF Write, WakeWriter
    <2> QED
      BY <1>1, <2>1, GoesOnData
  <1> QED
    BY <1>2, <1>3

(* A sequence of at most one.                                               *)
LEMMA OnlyOne ==
  ASSUME NEW S, NEW s \in Seq(S), s # <<>>, Len(s) <= 1
  PROVE  s = <<Head(s)>> /\ Head(s) \in S /\ Tail(s) = <<>>
  <1>1. Len(s) = 1 /\ Head(s) = s[1] /\ s[1] \in S /\ Len(Tail(s)) = 0 /\ Tail(s) \in Seq(S)
    OBVIOUS
  <1>2. /\ <<s[1]>> \in Seq(S) /\ Len(<<s[1]>>) = 1 /\ <<s[1]>>[1] = s[1]
    BY <1>1
  <1>3. s = <<s[1]>>
    BY <1>1, <1>2
  <1>4. ASSUME NEW q \in Seq(S), Len(q) = 0 PROVE q = <<>>
    BY <1>4
  <1> QED
    BY <1>1, <1>3, <1>4

(* A message is sent: a write has the bytes that follow what is on its way, *)
(* and MESSAGE_CLOSE_CHANNEL follows what was written so far.               *)
LEMMA Follows ==
  ASSUME TypeOK, Counted, NEW e \in End, NEW b \in Nat,
         Carries(todo[e]["writer"], b, next[e], 0)
  PROVE  b = next[e] - Carried(todo[e]["writer"])
  <1> DEFINE q == todo[e]["writer"]
  <1>1. q \in Seq(Message) /\ Len(q) <= 1 /\ next[e] \in Nat
    BY DEF TypeOK, Counted, CountedAt, Thread
  <1>2. CASE q = <<>>
    BY <1>1, <1>2, CarriesNone, SumEmpty DEF Carried
  <1>3. CASE q # <<>>
    <2> HIDE DEF q
    <2>1. q = <<Head(q)>> /\ Head(q) \in Message
      BY <1>1, <1>3, OnlyOne
    <2>2. Conveys(Head(q), b, next[e], 0)
      BY <2>1, CarriesOne DEF q
    <2>3. Carried(q) = Amount(Head(q), "write") /\ Amount(Head(q), "write") \in Nat
      BY <2>1, SumOne, MessageFacts DEF Carried, Kinds
    <2>4. next[e] = b + Amount(Head(q), "write")
      BY <2>2 DEF Conveys
    <2> QED
      BY <1>1, <2>3, <2>4 DEF q
  <1> QED
    BY <1>2, <1>3

LEMMA SendData ==
  ASSUME DataInv, Inv', Counted', NEW e \in End, Alone(e), NEW t \in Thread, Send(e, t)
  PROVE  DataInv'
  <1> DEFINE o == Other(e)
             m == Head(todo[e][t])
  <1>1. TypeOK /\ Shape /\ Counted /\ Orderly /\ CountedAt(e)
    BY ShapeFacts DEF DataInv, Inv, Counted
  <1>2. o \in End /\ o # e /\ Other(o) = e /\ \A d \in End : d = e \/ d = o
    BY EndFacts
  <1> HIDE DEF o
  <1>3. /\ UNCHANGED <<ch, hand, base, next, got, closes, cuts>>
        /\ pc[e][t] = "send" /\ todo[e][t] # <<>> /\ base[e] = "open"
        /\ todo'[e][t] = Tail(todo[e][t])
        /\ \A u \in Thread : u # t => todo'[e][u] = todo[e][u]
    BY <1>1 DEF Send, Orderly, Shape
  <1>4. /\ todo[e][t] \in Seq(Message) /\ m \in Message
        /\ m \in SentBy(t) /\ (m = CloseChannel <=> t = "closer")
        /\ t \in {"writer", "closer"} => todo[e][t] = <<m>> /\ todo'[e][t] = <<>>
    <2>1. todo[e][t] \in Seq(Message) /\ todo[e][t] \in Seq(SentBy(t))
      BY <1>1 DEF TypeOK
    <2>2. m \in SentBy(t) /\ m \in Message
      BY <1>3, <2>1
    <2>3. m = CloseChannel <=> t = "closer"
      BY <2>2 DEF Thread, SentBy, CloseChannel, Version, OpenChannel, Reads, Writes
    <2>4. t = "writer" => Len(todo[e][t]) <= 1
      BY <1>1 DEF CountedAt
    <2>5. t = "closer" => todo[e][t] = <<CloseChannel>>
      BY <1>1, <1>3 DEF CountedAt
    <2>6. t = "writer" => todo[e][t] = <<m>> /\ todo'[e][t] = <<>>
      BY <1>3, <2>1, <2>4, OnlyOne
    <2>7. t = "closer" => todo[e][t] = <<m>> /\ todo'[e][t] = <<>>
      <3>1. Tail(<<CloseChannel>>) = <<>>
        OBVIOUS
      <3> QED
        BY <1>3, <2>3, <2>5, <3>1
    <2> QED
      BY <2>1, <2>2, <2>3, <2>6, <2>7
  <1>5. /\ link'[e] = link[e] /\ (link'[o] = link[o] \/ link'[o] = Append(link[o], m))
        /\ Connected => link'[o] = Append(link[o], m)
        /\ ~Connected => link'[o] = link[o]
    <2>1. Connected <=> base[o] = "open"
      BY <1>2, <1>3 DEF Connected
    <2>2. \/ base[o] = "open" /\ link' = [link EXCEPT ![o] = Append(@, m)]
          \/ base[o] = "closed" /\ UNCHANGED link
      BY DEF Send, o
    <2> QED
      BY <1>1, <1>2, <2>1, <2>2 DEF TypeOK
  <1>6. /\ t # "closer" => before' = before
        /\ t = "closer" => before'[e] = next[e] - Carried(todo[e]["writer"])
    BY <1>1, <1>4 DEF Send, Shape
  <1>7. /\ Listens(e)' => Listens(e)
        /\ AtEnd(e)' => AtEnd(e)
        /\ Leaves(e) => Leaves(e)'
    <2>1. CASE Sent(e, t)
      <3>1. loop'[e] \in {loop[e], "reading"} /\ (loop'[e] # loop[e] => loop[e] = "off")
        BY <1>1, <2>1 DEF Sent, Shape
      <3>2. pc'[e]["reader"] \in {pc[e]["reader"], "ready"}
        BY <1>1, <2>1 DEF Sent, Shape, Thread
      <3>3. pc'[e]["closer"] = pc[e]["closer"] \/ t = "closer"
        BY <1>1, <2>1 DEF Sent, Shape, Thread
      <3> QED
        BY <1>3, <3>1, <3>2, <3>3 DEF Listens, AtEnd, Leaves
    <2>2. CASE UNCHANGED <<lock, pc, loop>>
      BY <2>2 DEF Listens, AtEnd, Leaves
    <2> QED
      BY <2>1, <2>2 DEF Send
  <1>8. /\ t = "closer" => ~Unsent(e)' /\ (closes[e] = 1 => Unsent(e))
        /\ t # "closer" => Unsent(e)' = Unsent(e)
    <2>1. t = "closer" => closes[e] # 0
      BY <1>1, <1>3 DEF CountedAt
    <2>2. t # "closer" => todo'[e]["closer"] = todo[e]["closer"]
      BY <1>3 DEF Thread
    <2> QED
      BY <1>3, <1>4, <2>1, <2>2 DEF Unsent
  <1>9. KeepsLeft(e) /\ Connected' = Connected
    BY <1>3, <1>7 DEF KeepsLeft, Connected
  <1>10. ASSUME cuts = 0
         PROVE  Flows(e)' /\ Finishes(e)' /\ Flows(o)' /\ Finishes(o)'
    <2>1. Flows(e) /\ Finishes(e) /\ Flows(o) /\ Finishes(o)
      BY <1>2, <1>10 DEF DataInv
    <2>2. Flows(e)' /\ Finishes(e)'
      <3>1. SameData(e) /\ SameSource(e) /\ SameEnd(e)
        BY <1>2, <1>3, <1>5, <1>7, <1>9 DEF SameData, SameSource, SameEnd, Alone, o
      <3>2. CloseAt(e)' = CloseAt(e) /\ CloseAt(e) \in Nat
        BY <1>1, <3>1, LinkFacts DEF CloseAt, SameEnd
      <3>3. CloseAt(e)' <= CloseAt(e)
        BY <3>2
      <3> QED
        BY <1>1, <2>1, <3>1, <3>3, SameFlows, SameFinishes
    <2>3. /\ Stock(o)' = Stock(o) /\ InHand(o)' = InHand(o) /\ Listens(o)' = Listens(o)
          /\ AtEnd(o)' = AtEnd(o) /\ ch'[o] = ch[o] /\ got'[o] = got[o]
          /\ InHand(o) \in Seq(Message) /\ link[o] \in Seq(Message)
      BY <1>1, <1>2, <1>3, LinkFacts DEF Stock, InHand, Listens, AtEnd, Alone
    <2>4. Finishes(o)'
      <3>1. Unsent(e)' => NoClose(InHand(o))' /\ NoClose(link[o])'
        <4> SUFFICES ASSUME Unsent(e)' PROVE NoClose(InHand(o))' /\ NoClose(link[o])'
          OBVIOUS
        <4>1. t # "closer" /\ Unsent(e) /\ m # CloseChannel
          BY <1>4, <1>8
        <4>2. NoClose(InHand(o)) /\ NoClose(link[o])
          BY <1>2, <2>1, <4>1 DEF Finishes
        <4> HIDE DEF m
        <4>3. NoClose(Append(link[o], m))
          BY <1>4, <2>3, <4>1, <4>2 DEF NoClose
        <4> QED
          BY <1>5, <2>3, <4>2, <4>3 DEF NoClose
      <3>2. ASSUME Connected
            PROVE  /\ (Unsent(e) /\ closes[o] = 0 => ~ch[o].hup)'
                   /\ (OneClose(o) /\ ch[o].hup => before[e] <= Stock(o))'
                   /\ (AtEnd(o) => ch[o].hup)'
                   /\ (OneClose(o) /\ AtEnd(o) => before[e] <= Len(got[o]))'
        <4>1. /\ Unsent(e) /\ closes[o] = 0 => ~ch[o].hup
              /\ OneClose(o) /\ ch[o].hup => before[e] <= Stock(o)
              /\ AtEnd(o) => ch[o].hup
              /\ OneClose(o) /\ AtEnd(o) => before[e] <= Len(got[o])
          BY <1>2, <2>1, <3>2 DEF Finishes
        <4>2. OneClose(o)' = OneClose(o) /\ (OneClose(o) => closes[o] = 0 /\ closes[e] = 1)
          BY <1>2, <1>3 DEF OneClose
        <4>3. t = "closer" /\ OneClose(o) => ~ch[o].hup
          BY <1>8, <4>1, <4>2
        <4> QED
          BY <1>3, <1>6, <1>8, <2>3, <4>1, <4>2, <4>3
      <3> QED
        BY <1>2, <1>9, <3>1, <3>2 DEF Finishes
    <2>5. ASSUME Listens(o) PROVE InOrder(o)'
      <3> DEFINE z == CloseAt(o)
                 y == CloseAt(o)'
                 q == todo[e]["writer"]
      <3>1. PICK a, b \in Nat :
               /\ Carries(InHand(o), Stock(o), a, z)
               /\ Carries(link[o], a, b, z)
               /\ Connected => Carries(q, b, next[e], 0)
        BY <1>2, <2>1, <2>5 DEF Flows, InOrder
      <3>2. z \in Nat /\ y \in Nat
        BY <1>1, <1>2, EndFacts DEF Counted, CloseAt
      <3>3. /\ t # "closer" => y = z
            /\ t = "closer" => y = 0 \/ (y = before'[e] /\ closes[e] = 1)
        BY <1>2, <1>3, <1>6 DEF CloseAt
      <3>4. y <= z \/ (NoClose(InHand(o)) /\ NoClose(link[o]))
        <4>1. CASE y = 0 \/ y = z
          <5> HIDE DEF y, z
          <5> QED
            BY <3>2, <4>1
        <4>2. CASE t = "closer" /\ closes[e] = 1
          BY <1>2, <1>8, <2>1, <4>2 DEF Finishes
        <4> QED
          BY <3>3, <4>1, <4>2
      <3>5. Carries(InHand(o), Stock(o), a, y) /\ Carries(link[o], a, b, y)
        <4>1. y \in Int /\ z \in Int
          <5> HIDE DEF y, z
          <5> QED
            BY <3>2
        <4> QED
          BY <2>3, <3>1, <3>4, <4>1, CarriesAfter
      <3>6. CASE ~Connected
        BY <1>2, <1>5, <1>9, <2>3, <3>1, <3>5, <3>6 DEF InOrder
      <3>7. CASE Connected
        <4>1. \E c \in Nat : Conveys(m, b, c, y) /\ Carries(todo'[e]["writer"], c, next[e], 0)
          <5>1. CASE t = "writer"
            <6>1. Conveys(m, b, next[e], 0) /\ m # CloseChannel /\ next[e] \in Nat
              BY <1>4, <3>1, <3>7, <5>1, CarriesOne
            <6>2. Conveys(m, b, next[e], y)
              BY <6>1 DEF Conveys
            <6>3. Carries(todo'[e]["writer"], next[e], next[e], 0)
              BY <1>4, <5>1, <6>1, CarriesNone
            <6> QED
              BY <6>1, <6>2, <6>3
          <5>2. CASE t # "writer"
            <6>1. Amount(m, "write") = 0 /\ m.type # "write" /\ todo'[e]["writer"] = q
              <7>1. Amount(m, "write") = 0
                BY <1>4, <5>2, MessageFacts
              <7>2. m.type # "write"
                BY <1>4, <5>2 DEF Thread, SentBy, CloseChannel, Version, OpenChannel, Reads
              <7> QED
                BY <1>3, <5>2, <7>1, <7>2 DEF Thread
            <6>2. m = CloseChannel => y <= b
              <7>1. Connected => b = next[e] - Carried(q)
                BY <1>1, <3>1, Follows
              <7>2. t = "closer" => y = 0 \/ y = b
                BY <1>6, <3>3, <3>7, <7>1
              <7>3. y = 0 \/ y = b => y <= b
                <8> HIDE DEF y
                <8> QED
                  BY <3>2
              <7> QED
                BY <1>4, <7>2, <7>3
            <6>3. b = b + 0
              OBVIOUS
            <6>4. Conveys(m, b, b, y)
              BY <6>1, <6>2, <6>3 DEF Conveys
            <6> QED
              BY <3>1, <3>7, <6>1, <6>4
          <5> QED
            BY <5>1, <5>2
        <4>2. PICK c \in Nat : Conveys(m, b, c, y) /\ Carries(todo'[e]["writer"], c, next[e], 0)
          BY <4>1
        <4>3. Carries(Append(link[o], m), a, c, y)
          BY <1>4, <2>3, <3>5, <4>2, CarriesMore
        <4> HIDE DEF m
        <4> QED
          BY <1>2, <1>3, <1>5, <2>3, <3>5, <3>7, <4>2, <4>3 DEF InOrder
      <3> QED
        BY <3>6, <3>7
    <2>6. Flows(o)'
      BY <2>1, <2>3, <2>5 DEF Flows, Buffered, IsPrefixOfWritten
    <2> QED
      BY <2>2, <2>4, <2>6
  <1> QED
    BY <1>3, <1>9, <1>10, DataFrom DEF o

(* After a cut nothing more is claimed of the data.                         *)
LEMMA CutData ==
  ASSUME DataInv, Inv', Counted', NEW e \in End, SendCut(e)
  PROVE  DataInv'
  <1>1. cuts \in Nat /\ cuts' = cuts + 1
    BY DEF SendCut, DataInv, Counted
  <1>2. cuts' # 0
    BY <1>1
  <1> QED
    BY <1>2 DEF DataInv

LEMMA DataStep == DataInv /\ [Next]_vars => DataInv'
  <1> SUFFICES ASSUME DataInv, [Next]_vars PROVE DataInv'
    OBVIOUS
  <1>1. Inv'
    BY StepInv DEF DataInv
  <1>2. ASSUME NEW e \in End, Step(e) \/ SendCut(e) \/ CloseStream(e) \/ CloseMuxer(e)
        PROVE  DataInv'
    <2>1. Alone(e) /\ Counted'
      BY <1>1, <1>2, CountedStep DEF DataInv
    <2>2. CASE \E t \in Thread : Lock(e, t) \/ Send(e, t) \/ SendFails(e, t) \/ Join(e, t)
      BY <1>1, <2>1, <2>2, LockData, SendData
    <2>3. CASE Open(e) \/ Accept(e) \/ MarkClosed(e)
      BY <1>1, <2>1, <2>3, OpenData, AcceptData
    <2>4. CASE Receive(e) \/ ReceiveEnds(e) \/ ReceiveStopped(e) \/ LoopCloses(e) \/ Dispatch(e)
      BY <1>1, <2>1, <2>4, ReceiveData, EndsData, DispatchData
    <2>5. CASE Read(e) \/ WakeReader(e) \/ Write(e) \/ WakeWriter(e)
      BY <1>1, <2>1, <2>5, ReadData, WriteStepData
    <2>6. CASE SendCut(e) \/ CloseStream(e) \/ CloseMuxer(e)
      BY <1>1, <2>1, <2>6, CutData, CloseData
    <2> QED
      BY <1>2, <2>2, <2>3, <2>4, <2>5, <2>6 DEF Step
  <1>3. CASE UNCHANGED vars
    <2>1. UNCHANGED <<opener, ch, lock, pc, todo, loop, hand, link, base, version, next, got,
                      closes, cuts, before>>
      BY <1>3 DEF vars
    <2>2. Counted'
      BY <2>1 DEF DataInv, Counted, CountedAt, Leaves
    <2>3. cuts = 0 => Left' /\ \A r \in End : Flows(r)' /\ Finishes(r)'
      <3> SUFFICES ASSUME cuts = 0 PROVE Left' /\ \A r \in End : Flows(r)' /\ Finishes(r)'
        OBVIOUS
      <3>1. Left'
        BY <2>1 DEF DataInv, Left, Connected, Leaves
      <3>2. ASSUME NEW r \in End PROVE Flows(r)' /\ Finishes(r)'
        BY <2>1 DEF DataInv, Flows, Finishes, IsPrefixOfWritten, Buffered, Listens, InOrder, InHand,
                    Stock, CloseAt, Connected, Unsent, NoClose, OneClose, AtEnd
      <3> QED
        BY <3>1, <3>2
    <2> QED
      BY <1>1, <2>1, <2>2, <2>3 DEF DataInv
  <1> QED
    BY <1>2, <1>3 DEF Next

LEMMA DataInvariance == Spec => []DataInv
  BY InitData, DataStep, PTL DEF Spec

(* Whatever the size of the buffer and of the socket, however much either   *)
(* end writes and in pieces of whatever size: unless a write was cut short, *)
(* what valent_bluez_muxer_channel_read() returned is what the other end    *)
(* wrote, from the first byte on, and a reader that is told the end of a    *)
(* channel that the other end closed has all that was sent before.          *)
THEOREM DataStaysIntact == Spec => []DataIsIntact
  <1>1. DataInv => DataIsIntact
    <2> SUFFICES ASSUME DataInv, cuts = 0, NEW e \in End
                 PROVE  /\ IsPrefixOfWritten(got[e])
                        /\ AtEnd(e) /\ OneClose(e) => Len(got[e]) >= before[Other(e)]
      BY DEF DataIsIntact, ReadIsWritten, EofIsLast, AtEnd, OneClose
    <2>1. Flows(e) /\ Finishes(e) /\ Left /\ Counted /\ TypeOK /\ Other(e) \in End
      BY EndFacts DEF DataInv, Inv
    <2>2. Len(got[e]) \in Nat /\ before[Other(e)] \in Nat
      BY <2>1, LinkFacts
    <2>3. ASSUME AtEnd(e), OneClose(e) PROVE before[Other(e)] <= Len(got[e])
      <3>1. CASE Connected
        BY <2>1, <2>3, <3>1 DEF Finishes
      <3>2. CASE ~Connected
        <4>1. PICK x \in End : Leaves(x)
          BY <2>1, <3>2 DEF Left
        <4>2. closes[x] # 0 /\ (closes[x] = 1 => before[x] = 0)
          BY <2>1, <4>1 DEF Counted, CountedAt, Leaves
        <4>3. x = Other(e)
          BY <2>3, <4>2, EndFacts DEF OneClose
        <4>4. before[Other(e)] = 0
          BY <2>3, <4>2, <4>3 DEF OneClose
        <4> QED
          BY <2>2, <4>4
      <3> QED
        BY <3>1, <3>2
    <2> QED
      BY <2>1, <2>2, <2>3 DEF Flows
  <1> QED
    BY <1>1, DataInvariance, PTL
=============================================================================
