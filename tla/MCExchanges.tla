------------------------------ MODULE MCExchanges ------------------------------
(*****************************************************************************)
(* What devices and services exchange with the other end, under the fairness *)
(* of their main loops.  The parts share nothing but the program: one of     *)
(* them runs in each behaviour.  The module ends with the proofs of the      *)
(* safety of the parts.                                                      *)
(*****************************************************************************)
EXTENDS Integers, Sequences, SequencesExt, FiniteSets, FiniteSetTheorems, SequenceTheorems,
        TLAPS

CONSTANTS
    Request, Cancellable, SendChannel,                \* of DeviceSend
    MaxFiles, MaxFaults,                              \* of Share
    TransferChannel,                                  \* of Transfer
    Text, Empty, MaxEvents, MaxLinks, MaxWire,        \* of Clipboard
    Host, Conn, MaxIdentify, MaxRestarts,             \* of Lan
    None                                              \* no request, channel, host or connection

ASSUME NoneAssumption == None \notin Request \cup SendChannel \cup Host \cup Conn
ASSUME ChannelAssumption == IsFiniteSet(SendChannel)
ASSUME FilesAssumption == MaxFiles \in Nat
ASSUME EmptyAssumption == Empty \notin Text

VARIABLES
    part,                \* the part that runs
    channels, paired, pipe, broken, posted, cancelled, result, wire,
    shared, uploads, packets, downloads, sent, saved, unread, faults,
    download, state, via, conn, file, copy, returned,
    content, local, remote, autoPush, autoPull, watching, reads, now, latest, calm, repeated,
    outdated, events, link, available,
    target, air, from, to, named, stage, proof, key, stored, identified, restarts

DeviceSend == INSTANCE DeviceSend WITH Channel <- SendChannel
Share == INSTANCE Share
Transfer == INSTANCE Transfer WITH Channel <- TransferChannel
Clipboard == INSTANCE Clipboard
Lan == INSTANCE Lan

(* The variables of one part only; a part may have variables of another part *)
sendVars == <<paired, pipe, posted, result>>
shareVars == <<shared, uploads, packets, downloads, sent, saved, unread, faults>>
transferVars == <<download, state, via, conn, file, copy, returned>>
clipboardVars ==
    <<content, local, remote, autoPush, autoPull, watching, reads, now, latest, calm,
      repeated, outdated, events, link>>
lanVars == <<target, air, from, to, named, stage, proof, key, stored, identified, restarts>>
allVars ==
    <<part, sendVars, shareVars, transferVars, clipboardVars, lanVars, channels, broken,
      cancelled, wire, available>>

DeviceSendOnly ==
    /\ part = "DeviceSend"
    /\ UNCHANGED <<part, shareVars, transferVars, clipboardVars, lanVars, available>>
ShareOnly ==
    /\ part = "Share"
    /\ UNCHANGED <<part, sendVars, transferVars, clipboardVars, lanVars, channels, cancelled,
                   wire, available>>
TransferOnly ==
    /\ part = "Transfer"
    /\ UNCHANGED <<part, sendVars, shareVars, clipboardVars, lanVars, broken, wire, available>>
ClipboardOnly ==
    /\ part = "Clipboard"
    /\ UNCHANGED <<part, sendVars, shareVars, transferVars, lanVars, channels, broken, cancelled>>
LanOnly ==
    /\ part = "Lan"
    /\ UNCHANGED <<part, sendVars, shareVars, transferVars, clipboardVars, broken, cancelled,
                   wire>>

(* What a part does not use stays as it is                                   *)
Unused == <<>>
NoSend == paired = Unused /\ pipe = Unused /\ posted = Unused /\ result = Unused
NoShare ==
    /\ shared = Unused /\ uploads = Unused /\ packets = Unused /\ downloads = Unused
    /\ sent = Unused /\ saved = Unused /\ unread = Unused /\ faults = Unused
NoTransfer ==
    /\ download = Unused /\ state = Unused /\ via = Unused /\ conn = Unused
    /\ file = Unused /\ copy = Unused /\ returned = Unused
NoClipboard ==
    /\ content = Unused /\ local = Unused /\ remote = Unused /\ autoPush = Unused
    /\ autoPull = Unused /\ watching = Unused /\ reads = Unused /\ now = Unused
    /\ latest = Unused /\ calm = Unused /\ repeated = Unused /\ outdated = Unused
    /\ events = Unused /\ link = Unused
NoLan ==
    /\ target = Unused /\ air = Unused /\ from = Unused /\ to = Unused /\ named = Unused
    /\ stage = Unused /\ proof = Unused /\ key = Unused /\ stored = Unused
    /\ identified = Unused /\ restarts = Unused

MCInit ==
    \/ /\ part = "DeviceSend" /\ DeviceSend!Init
       /\ NoShare /\ NoTransfer /\ NoClipboard /\ NoLan /\ available = Unused
    \/ /\ part = "Share" /\ Share!Init
       /\ NoSend /\ NoTransfer /\ NoClipboard /\ NoLan
       /\ channels = Unused /\ cancelled = Unused /\ wire = Unused /\ available = Unused
    \/ /\ part = "Transfer" /\ Transfer!Init
       /\ NoSend /\ NoShare /\ NoClipboard /\ NoLan
       /\ broken = Unused /\ wire = Unused /\ available = Unused
    \/ /\ part = "Clipboard" /\ Clipboard!Init
       /\ NoSend /\ NoShare /\ NoTransfer /\ NoLan
       /\ channels = Unused /\ broken = Unused /\ cancelled = Unused
    \/ /\ part = "Lan" /\ Lan!Init
       /\ NoSend /\ NoShare /\ NoTransfer /\ NoClipboard
       /\ broken = Unused /\ cancelled = Unused /\ wire = Unused

MCNext ==
    \/ DeviceSendOnly /\ DeviceSend!Next
    \/ ShareOnly /\ Share!Next
    \/ TransferOnly /\ Transfer!Next
    \/ ClipboardOnly /\ Clipboard!Next
    \/ LanOnly /\ Lan!Next

(* The fairness of the parts, each with the variables of its own             *)
sendAll == DeviceSend!vars
shareAll == Share!vars
transferAll == Transfer!vars
clipboardAll == Clipboard!vars
lanAll == Lan!vars
Fairness ==
    /\ WF_sendAll(part = "DeviceSend" /\ DeviceSend!PostedCallback)
    /\ \A c \in SendChannel :
          /\ WF_sendAll(/\ part = "DeviceSend"
                        /\ DeviceSend!StreamWrites(c) \/ DeviceSend!StreamFails(c))
          /\ WF_sendAll(part = "DeviceSend" /\ DeviceSend!Callback(c))
    /\ WF_shareAll(part = "Share" /\ Share!Progress)
    /\ WF_transferAll(part = "Transfer" /\ Transfer!QueryInfo)
    /\ WF_transferAll(part = "Transfer" /\ (Transfer!FileOpens \/ Transfer!FileFails))
    /\ WF_transferAll(part = "Transfer" /\ (Transfer!Connects \/ Transfer!ConnectFails))
    /\ WF_transferAll(part = "Transfer" /\ Transfer!CopyEnds)
    /\ WF_transferAll(part = "Transfer" /\ Transfer!ExecuteCallback)
    /\ WF_clipboardAll(part = "Clipboard" /\ Clipboard!Progress)
    /\ \A c \in Conn, e \in Lan!Ends :
          /\ WF_lanAll(part = "Lan" /\ Lan!Timeout(c, e))
          /\ WF_lanAll(part = "Lan" /\ Lan!ChannelLost(c, e))

MCSpec == MCInit /\ [][MCNext]_allVars /\ Fairness
-----------------------------------------------------------------------------

(* A packet is answered once and reaches the peer once at most; a share or a *)
(* transfer that is reported as complete is, and the two halves of a         *)
(* transfer meet.                                                            *)
SentIsWhole ==
    /\ part = "DeviceSend" => DeviceSend!NeverForgotten /\ DeviceSend!DeliveredOnce
    /\ part = "Share" => Share!CompleteIsWhole
    /\ part = "Transfer" => Transfer!HalvesMeet /\ Transfer!CompleteIsWhole

(* A packet that the device accepted only fails once there is no channel     *)
(* left to try.                                                              *)
FailsWhenCutOff ==
    [][part = "DeviceSend" => DeviceSend!CutOff]_allVars

(* An identity packet names the device it goes to; an open channel to a      *)
(* paired device has the certificate that is stored.                         *)
PeersAreTrusted ==
    /\ part = "Lan" => Lan!IdentityIsAddressed /\ Lan!OpenIsTrusted

(* What was copied last, at either end, is what both ends have once they are *)
(* at rest, also over a broken connection, unless it was copied again or a   *)
(* text was sent with the time of another.                                   *)
LastCopyWins ==
    /\ part = "Clipboard" => Clipboard!LastCopyWins

(* Every packet is answered and every shared file arrives, whatever fails; a *)
(* transfer ends, copies do not bounce for ever unless they crossed, and the *)
(* handshakes of two hosts settle.  What is answered, arrived or at rest     *)
(* stays so, but for the bounded number of things that users and the network *)
(* do: that all of it is reached again and again says that each is.          *)
ExchangesEnd ==
    []<> /\ part = "DeviceSend" => \A r \in Request : DeviceSend!Answered(r)
         /\ part = "Share" => \A f \in 1..MaxFiles : Share!Shared(f) => Share!Arrived(f)
         /\ part = "Transfer" => Transfer!EndsIfItMust
         /\ part = "Clipboard" => Clipboard!Quiet
         /\ part = "Lan" => Lan!Agree
-----------------------------------------------------------------------------
(* Proofs *)

(* Sequences without repetition, and what joining two does.                  *)
Distinct(s) == \A i, j \in DOMAIN s : s[i] = s[j] => i = j

LEMMA NoneFacts == Distinct(<<>>) /\ ToSet(<<>>) = {}
  BY DEF Distinct, ToSet

LEMMA OneFacts ==
  ASSUME NEW S, NEW e \in S
  PROVE  <<e>> \in Seq(S) /\ Distinct(<<e>>) /\ ToSet(<<e>>) = {e}
  <1>1. <<e>> \in Seq(S) /\ DOMAIN <<e>> = {1} /\ <<e>>[1] = e
    OBVIOUS
  <1> QED
    BY <1>1 DEF Distinct, ToSet

LEMMA JoinFacts ==
  ASSUME NEW S, NEW s \in Seq(S), NEW t \in Seq(S)
  PROVE  /\ s \o t \in Seq(S)
         /\ ToSet(s \o t) = ToSet(s) \cup ToSet(t)
         /\ Distinct(s \o t) <=> Distinct(s) /\ Distinct(t) /\ ToSet(s) \cap ToSet(t) = {}
  <1> DEFINE u == s \o t
             m == Len(s)
             n == Len(t)
  <1>1. /\ u \in Seq(S) /\ Len(u) = m + n /\ m \in Nat /\ n \in Nat
        /\ DOMAIN s = 1..m /\ DOMAIN t = 1..n /\ DOMAIN u = 1..m + n
    OBVIOUS
  <1>2. /\ \A i \in 1..m : i \in 1..m + n /\ u[i] = s[i]
        /\ \A i \in 1..n : i + m \in 1..m + n /\ u[i + m] = t[i]
    <2>1. ASSUME NEW i \in 1..n PROVE i + m \in 1..m + n /\ u[i + m] = t[(i + m) - m]
      BY <1>1
    <2>2. \A i \in 1..n : (i + m) - m = i
      BY <1>1
    <2>3. ASSUME NEW i \in 1..m PROVE i \in 1..m + n /\ u[i] = s[i]
      BY <1>1
    <2> QED
      BY <2>1, <2>2, <2>3
  <1>3. \A i \in 1..m + n : i \in 1..m \/ \E k \in 1..n : i = k + m
    <2> SUFFICES ASSUME NEW i \in 1..m + n, i \notin 1..m PROVE \E k \in 1..n : i = k + m
      OBVIOUS
    <2>1. i - m \in 1..n /\ i = (i - m) + m
      BY <1>1
    <2> QED
      BY <2>1
  <1> HIDE DEF u, m, n
  <1>4. ToSet(u) = ToSet(s) \cup ToSet(t)
    <2>1. ASSUME NEW x \in ToSet(u) PROVE x \in ToSet(s) \cup ToSet(t)
      <3>1. PICK i \in 1..m + n : x = u[i]
        BY <1>1 DEF ToSet
      <3>2. CASE i \in 1..m
        BY <1>1, <1>2, <3>1, <3>2 DEF ToSet
      <3>3. CASE i \notin 1..m
        <4>1. PICK k \in 1..n : i = k + m
          BY <1>3, <3>3
        <4>2. x = t[k]
          BY <1>2, <3>1, <4>1
        <4> QED
          BY <1>1, <4>2 DEF ToSet
      <3> QED
        BY <3>2, <3>3
    <2>2. ASSUME NEW x \in ToSet(s) \cup ToSet(t) PROVE x \in ToSet(u)
      BY <1>1, <1>2 DEF ToSet
    <2> QED
      BY <2>1, <2>2
  <1>5. ASSUME Distinct(u) PROVE Distinct(s) /\ Distinct(t) /\ ToSet(s) \cap ToSet(t) = {}
    <2>1. Distinct(s)
      BY <1>1, <1>2, <1>5 DEF Distinct
    <2>2. ASSUME NEW i \in 1..n, NEW j \in 1..n, t[i] = t[j] PROVE i = j
      <3>1. i + m = j + m
        BY <1>1, <1>2, <1>5, <2>2 DEF Distinct
      <3> QED
        BY <1>1, <3>1
    <2>3. ASSUME NEW i \in 1..m, NEW j \in 1..n, s[i] = t[j] PROVE FALSE
      <3>1. i = j + m
        BY <1>1, <1>2, <1>5, <2>3 DEF Distinct
      <3> QED
        BY <1>1, <3>1
    <2> QED
      BY <1>1, <2>1, <2>2, <2>3 DEF Distinct, ToSet
  <1>6. ASSUME Distinct(s), Distinct(t), ToSet(s) \cap ToSet(t) = {} PROVE Distinct(u)
    <2>1. \A i \in 1..m, j \in 1..n : s[i] # t[j]
      BY <1>1, <1>6 DEF ToSet
    <2> SUFFICES ASSUME NEW i \in 1..m + n, NEW j \in 1..m + n, u[i] = u[j] PROVE i = j
      BY <1>1 DEF Distinct
    <2>2. CASE i \in 1..m /\ j \in 1..m
      BY <1>1, <1>2, <1>6, <2>2 DEF Distinct
    <2>3. CASE i \notin 1..m /\ j \notin 1..m
      <3>1. PICK k \in 1..n, l \in 1..n : i = k + m /\ j = l + m
        BY <1>3, <2>3
      <3>2. k = l
        BY <1>1, <1>2, <1>6, <3>1 DEF Distinct
      <3> QED
        BY <3>1, <3>2
    <2>4. CASE i \in 1..m /\ j \notin 1..m
      BY <1>2, <1>3, <2>1, <2>4
    <2>5. CASE i \notin 1..m /\ j \in 1..m
      BY <1>2, <1>3, <2>1, <2>5
    <2> QED
      BY <2>2, <2>3, <2>4, <2>5
  <1> QED
    BY <1>1, <1>4, <1>5, <1>6 DEF u

LEMMA CutFacts ==
  ASSUME NEW S, NEW s \in Seq(S), NEW n \in 0..Len(s)
  PROVE  /\ SubSeq(s, 1, n) \in Seq(S) /\ SubSeq(s, n + 1, Len(s)) \in Seq(S)
         /\ s = SubSeq(s, 1, n) \o SubSeq(s, n + 1, Len(s))
  <1>1. Len(s) \in Nat /\ 1 \in 1 .. Len(s) + 1 /\ n \in 1 - 1 .. Len(s)
        /\ Len(s) \in n .. Len(s)
    OBVIOUS
  <1>2. SubSeq(s, 1, n) \o SubSeq(s, n + 1, Len(s)) = SubSeq(s, 1, Len(s))
    BY <1>1, ConcatAdjacentSubSeq
  <1>3. SubSeq(s, 1, Len(s)) = s
    BY SubSeqFull
  <1>4. SubSeq(s, 1, n) \in Seq(S) /\ SubSeq(s, n + 1, Len(s)) \in Seq(S)
    BY <1>1
  <1> QED
    BY <1>2, <1>3, <1>4

LEMMA HeadFacts ==
  ASSUME NEW S, NEW s \in Seq(S), s # <<>>
  PROVE  Head(s) \in S /\ Tail(s) \in Seq(S) /\ s = <<Head(s)>> \o Tail(s)
  OBVIOUS

LEMMA RemoveFacts ==
  ASSUME NEW S, NEW s \in Seq(S), NEW i \in DOMAIN s
  PROVE  RemoveAt(s, i) \in Seq(S)
  <1>1. i \in 1..Len(s) /\ Len(s) \in Nat
    OBVIOUS
  <1>2. SubSeq(s, 1, i - 1) \in Seq(S) /\ SubSeq(s, i + 1, Len(s)) \in Seq(S)
    BY <1>1
  <1> QED
    BY <1>2 DEF RemoveAt

LEMMA OrderFacts ==
  ASSUME NEW S, IsFiniteSet(S), NEW s \in SetToSeqs(S)
  PROVE  s \in Seq(S) /\ Distinct(s) /\ ToSet(s) = S
  <1> DEFINE n == Cardinality(S)
  <1>1. n \in Nat
    BY FS_CardinalityType
  <1>2. s \in [1..n -> S] /\ \A i, j \in 1..n : i # j => s[i] # s[j]
    BY DEF SetToSeqs
  <1>3. IsFiniteSet(1..n) /\ Cardinality(1..n) = n
    BY <1>1, FS_Interval
  <1> HIDE DEF n
  <1>4. s \in Injection(1..n, S)
    BY <1>2 DEF Injection, IsInjective
  <1>5. s \in Surjection(1..n, S)
    BY <1>3, <1>4, FS_Injection DEF n
  <1>6. s \in Seq(S) /\ DOMAIN s = 1..n
    BY <1>1, <1>2
  <1>7. ToSet(s) = S
    BY <1>2, <1>5, <1>6 DEF Surjection, ToSet
  <1> QED
    BY <1>2, <1>6, <1>7 DEF Distinct

LEMMA FiniteFacts ==
  ASSUME NEW S, NEW s \in Seq(S)
  PROVE  IsFiniteSet(ToSet(s)) /\ ToSet(s) \subseteq S
  <1> DEFINE n == Len(s)
  <1>1. n \in Nat /\ DOMAIN s = 1..n /\ s \in [1..n -> S]
    OBVIOUS
  <1>2. s \in Surjection(1..n, ToSet(s))
    BY <1>1 DEF Surjection, ToSet
  <1>3. IsFiniteSet(1..n)
    BY <1>1, FS_Interval
  <1> HIDE DEF n
  <1> QED
    BY <1>1, <1>2, <1>3, FS_Surjection DEF ToSet

(* DeviceSend.  The requests that are being sent are in one line each, or    *)
(* among the loose ones, which a step took from a line.                      *)
SendLines == SendChannel \cup {None}
Spread(line, loose, sending) ==
    /\ \A c \in SendLines : Distinct(line[c]) /\ ToSet(line[c]) \cap loose = {}
    /\ \A c, d \in SendLines : c # d => ToSet(line[c]) \cap ToSet(line[d]) = {}
    /\ \A r : r \in sending <=> r \in loose \/ \E c \in SendLines : r \in ToSet(line[c])

(* A step takes the end of a line,                                           *)
LEMMA TakeEnd ==
  ASSUME NEW line \in [SendLines -> Seq(Request)], NEW loose, NEW sending,
         Spread(line, loose, sending), NEW c \in SendLines,
         NEW s \in Seq(Request), NEW t \in Seq(Request), line[c] = s \o t
  PROVE  Spread([line EXCEPT ![c] = s], loose \cup ToSet(t), sending)
  <1> DEFINE new == [line EXCEPT ![c] = s]
  <1>1. new[c] = s /\ \A d \in SendLines : d # c => new[d] = line[d]
    OBVIOUS
  <1>2. /\ ToSet(line[c]) = ToSet(s) \cup ToSet(t)
        /\ Distinct(s) /\ ToSet(s) \cap ToSet(t) = {}
    <2>1. Distinct(s \o t)
      BY DEF Spread
    <2> QED
      BY <2>1, JoinFacts
  <1> HIDE DEF new
  <1> QED
    BY <1>1, <1>2 DEF Spread, new

(* or its start,                                                             *)
LEMMA TakeStart ==
  ASSUME NEW line \in [SendLines -> Seq(Request)], NEW loose, NEW sending,
         Spread(line, loose, sending), NEW c \in SendLines,
         NEW s \in Seq(Request), NEW t \in Seq(Request), line[c] = s \o t
  PROVE  Spread([line EXCEPT ![c] = t], loose \cup ToSet(s), sending)
  <1> DEFINE new == [line EXCEPT ![c] = t]
  <1>1. new[c] = t /\ \A d \in SendLines : d # c => new[d] = line[d]
    OBVIOUS
  <1>2. /\ ToSet(line[c]) = ToSet(s) \cup ToSet(t)
        /\ Distinct(t) /\ ToSet(s) \cap ToSet(t) = {}
    <2>1. Distinct(s \o t)
      BY DEF Spread
    <2> QED
      BY <2>1, JoinFacts
  <1> HIDE DEF new
  <1> QED
    BY <1>1, <1>2 DEF Spread, new

(* puts loose requests at the end of a line,                                 *)
LEMMA PutEnd ==
  ASSUME NEW line \in [SendLines -> Seq(Request)], NEW loose, NEW sending,
         NEW c \in SendLines, NEW t \in Seq(Request), Distinct(t),
         Spread(line, loose \cup ToSet(t), sending), loose \cap ToSet(t) = {}
  PROVE  Spread([line EXCEPT ![c] = @ \o t], loose, sending)
  <1> DEFINE new == [line EXCEPT ![c] = @ \o t]
  <1>1. new[c] = line[c] \o t /\ \A d \in SendLines : d # c => new[d] = line[d]
    OBVIOUS
  <1>2. Distinct(line[c]) /\ ToSet(line[c]) \cap ToSet(t) = {}
    BY DEF Spread
  <1>3. ToSet(new[c]) = ToSet(line[c]) \cup ToSet(t) /\ Distinct(new[c])
    BY <1>1, <1>2, JoinFacts
  <1> HIDE DEF new
  <1> QED
    BY <1>1, <1>3 DEF Spread, new

(* answers some of them, or accepts a new one.                               *)
LEMMA Answer ==
  ASSUME NEW line, NEW loose, NEW sending, NEW done, done \cap sending \subseteq loose,
         Spread(line, loose, sending)
  PROVE  Spread(line, loose \ done, sending \ done)
  BY DEF Spread

LEMMA Accept ==
  ASSUME NEW line, NEW sending, Spread(line, {}, sending), NEW r, r \notin sending
  PROVE  Spread(line, {r}, sending \cup {r})
  BY DEF Spread

(* The line of a buffer, and all of them                                     *)
PipeLine(x) == IF x.busy = None THEN x.queue ELSE <<x.busy>> \o x.queue
Waiting(p, failed) == [c \in SendLines |-> IF c = None THEN failed ELSE PipeLine(p[c])]
Accepted(says) == {r \in Request : says[r] = "sending"}
Sound(x, left) ==
    /\ ~x.pending => x.busy = None
    /\ x.busy = None <=> x.io = "idle"
    /\ x.io = "written" => x.busy \in left

LEMMA PipeFacts ==
  ASSUME NEW x \in DeviceSend!PipeState
  PROVE  /\ x.queue \in Seq(Request) /\ x.busy \in Request \cup {None}
         /\ PipeLine(x) \in Seq(Request)
         /\ x.busy # None => PipeLine(x) = <<x.busy>> \o x.queue
         /\ \A q \in Seq(Request) : [x EXCEPT !.queue = q] \in DeviceSend!PipeState
  BY DEF DeviceSend!PipeState, PipeLine

LEMMA WaitingFacts ==
  ASSUME NEW p \in [SendChannel -> DeviceSend!PipeState], NEW failed \in Seq(Request)
  PROVE  /\ Waiting(p, failed) \in [SendLines -> Seq(Request)]
         /\ \A c \in SendChannel : Waiting(p, failed)[c] = PipeLine(p[c])
         /\ Waiting(p, failed)[None] = failed
         /\ \A c \in SendChannel, x \in DeviceSend!PipeState :
               Waiting([p EXCEPT ![c] = x], failed) = [Waiting(p, failed) EXCEPT ![c] = PipeLine(x)]
         /\ \A f \in Seq(Request) : Waiting(p, f) = [Waiting(p, failed) EXCEPT ![None] = f]
  <1>1. None \notin SendChannel
    BY NoneAssumption
  <1>2. \A c \in SendChannel : PipeLine(p[c]) \in Seq(Request)
    BY PipeFacts
  <1> QED
    BY <1>1, <1>2 DEF Waiting, SendLines

LEMMA StartFacts ==
  ASSUME NEW x \in DeviceSend!PipeState, NEW left
  PROVE  /\ DeviceSend!Start(x) \in DeviceSend!PipeState
         /\ PipeLine(DeviceSend!Start(x)) = x.queue
         /\ Sound(DeviceSend!Start(x), left)
  <1>1. x.queue \in Seq(Request)
    BY PipeFacts
  <1>2. CASE x.queue = <<>>
    BY <1>1, <1>2 DEF DeviceSend!Start, DeviceSend!Idle, DeviceSend!PipeState, PipeLine, Sound
  <1>3. CASE x.queue # <<>>
    <2>1. /\ Head(x.queue) \in Request /\ Tail(x.queue) \in Seq(Request)
          /\ <<Head(x.queue)>> \o Tail(x.queue) = x.queue /\ Head(x.queue) # None
      BY <1>1, <1>3, HeadFacts, NoneAssumption
    <2> QED
      BY <1>3, <2>1 DEF DeviceSend!Start, DeviceSend!PipeState, PipeLine, Sound
  <1> QED
    BY <1>2, <1>3

LEMMA WriteFacts ==
  ASSUME NEW x \in DeviceSend!PipeState, NEW left, Sound(x, left), NEW rs \in Seq(Request)
  PROVE  /\ DeviceSend!Write(x, rs) \in DeviceSend!PipeState
         /\ PipeLine(DeviceSend!Write(x, rs)) = PipeLine(x) \o rs
         /\ Sound(DeviceSend!Write(x, rs), left)
         /\ x.busy # None => /\ DeviceSend!Write(x, rs).busy = x.busy
                             /\ DeviceSend!Write(x, rs).io = x.io
  <1> DEFINE y == [x EXCEPT !.queue = @ \o rs]
  <1>1. x.queue \in Seq(Request) /\ x.busy \in Request \cup {None}
    BY PipeFacts
  <1>2. x.queue \o rs \in Seq(Request)
    BY <1>1
  <1>3. /\ y \in DeviceSend!PipeState /\ y.queue = x.queue \o rs
        /\ y.busy = x.busy /\ y.io = x.io /\ y.pending = x.pending
    BY <1>2 DEF DeviceSend!PipeState
  <1>4. Sound(y, left)
    BY <1>3 DEF Sound
  <1>5. PipeLine(y) = PipeLine(x) \o rs
    <2>1. CASE x.busy = None
      BY <1>3, <2>1 DEF PipeLine
    <2>2. CASE x.busy # None
      <3>1. <<x.busy>> \in Seq(Request)
        BY <1>1, <2>2
      <3>2. \A a, b \in Seq(Request) : a \o (b \o rs) = (a \o b) \o rs
        BY ConcatAssociative
      <3> QED
        BY <1>1, <1>3, <2>2, <3>1, <3>2 DEF PipeLine
    <2> QED
      BY <2>1, <2>2
  <1> HIDE DEF y
  <1>6. CASE x.pending \/ rs = <<>>
    <2>1. DeviceSend!Write(x, rs) = y
      BY <1>6 DEF DeviceSend!Write, y
    <2> QED
      BY <1>3, <1>4, <1>5, <2>1
  <1>7. CASE ~(x.pending \/ rs = <<>>)
    <2>1. DeviceSend!Write(x, rs) = DeviceSend!Start(y) /\ x.busy = None
      BY <1>7 DEF DeviceSend!Write, y, Sound
    <2>2. PipeLine(y) = y.queue
      BY <1>3, <2>1 DEF PipeLine
    <2> QED
      BY <1>3, <1>5, <2>1, <2>2, StartFacts
  <1> QED
    BY <1>6, <1>7

LEMMA SameCardinality == \A S : DeviceSend!Cardinality(S) = Cardinality(S)
  BY Zenon DEF DeviceSend!Cardinality, Cardinality

(* Requests that failed and are loose are answered or wait again.            *)
LEMMA RetryFacts ==
  ASSUME NEW p \in [SendChannel -> DeviceSend!PipeState], NEW rs \in Seq(Request),
         NEW left \in Seq(SendChannel), NEW failed \in Seq(Request),
         \A c \in SendChannel : Sound(p[c], ToSet(wire)),
         DeviceSend!TypeOK, ToSet(rs) \subseteq Accepted(result),
         Spread(Waiting(p, failed), ToSet(rs), Accepted(result)),
         DeviceSend!Retry(rs, p, left)
  PROVE  /\ pipe' \in [SendChannel -> DeviceSend!PipeState]
         /\ \A c \in SendChannel : Sound(pipe'[c], ToSet(wire))
         /\ \A c \in SendChannel : p[c].busy # None =>
               pipe'[c].busy = p[c].busy /\ pipe'[c].io = p[c].io
         /\ result' = [r \in Request |-> result'[r]]
         /\ \A r \in Request : \/ result'[r] = result[r]
                               \/ /\ r \in ToSet(rs)
                                  /\ \/ result'[r] = "cancelled"
                                     \/ result'[r] = "failed" /\ left = <<>>
         /\ Spread(Waiting(pipe', failed), {}, Accepted(result'))
  <1> DEFINE kept == ToSet(rs) \ cancelled
             over == IF left = <<>> THEN ToSet(rs) ELSE ToSet(rs) \cap cancelled
  <1>1. PICK again \in DeviceSend!InOrder(rs, kept) :
           /\ result' = [r \in Request |->
                            CASE r \in ToSet(rs) \cap cancelled -> "cancelled"
                              [] r \in ToSet(again) /\ left = <<>> -> "failed"
                              [] OTHER -> result[r]]
           /\ pipe' = IF left = <<>>
                        THEN p
                        ELSE [p EXCEPT ![Head(left)] = DeviceSend!Write(@, again)]
    BY DEF DeviceSend!Retry, DeviceSend!ToSet, ToSet
  <1>2. again \in Seq(kept) /\ Distinct(again) /\ ToSet(again) = kept
    <2>1. IsFiniteSet(kept)
      BY FiniteFacts, FS_Subset
    <2>2. again \in SetToSeqs(kept)
      BY SameCardinality DEF DeviceSend!InOrder, DeviceSend!SetToSeqs, SetToSeqs
    <2> QED
      BY <2>1, <2>2, OrderFacts
  <1>3. again \in Seq(Request)
    BY <1>2, FiniteFacts, SeqMonotonic
  <1> HIDE DEF kept
  <1>4. \A r \in Request :
           /\ r \in over => result'[r] = "cancelled" \/ (result'[r] = "failed" /\ left = <<>>)
           /\ r \notin over => result'[r] = result[r]
    BY <1>1, <1>2 DEF kept
  <1>5. over \subseteq ToSet(rs) /\ result' = [r \in Request |-> result'[r]]
    BY <1>1
  <1>6. Accepted(result') = Accepted(result) \ over
    BY <1>4 DEF Accepted
  <1> HIDE DEF over
  <1>7. Spread(Waiting(p, failed), ToSet(rs) \ over, Accepted(result'))
    <2>1. over \cap Accepted(result) \subseteq ToSet(rs)
      BY <1>5
    <2>2. Spread(Waiting(p, failed), ToSet(rs) \ over, Accepted(result) \ over)
      BY <2>1, Answer
    <2> QED
      BY <1>6, <2>2
  <1>8. CASE left = <<>>
    <2>1. pipe' = p /\ ToSet(rs) \ over = {}
      BY <1>1, <1>8 DEF over
    <2> QED
      BY <1>4, <1>5, <1>7, <2>1
  <1>9. CASE left # <<>>
    <2> DEFINE h == Head(left)
    <2>1. h \in SendChannel
      BY <1>9
    <2>2. pipe' = [p EXCEPT ![h] = DeviceSend!Write(p[h], again)]
      BY <1>1, <1>9
    <2> HIDE DEF h
    <2>3. /\ DeviceSend!Write(p[h], again) \in DeviceSend!PipeState
          /\ PipeLine(DeviceSend!Write(p[h], again)) = PipeLine(p[h]) \o again
          /\ Sound(DeviceSend!Write(p[h], again), ToSet(wire))
          /\ p[h].busy # None => /\ DeviceSend!Write(p[h], again).busy = p[h].busy
                                 /\ DeviceSend!Write(p[h], again).io = p[h].io
      BY <1>3, <2>1, WriteFacts
    <2>4. Waiting(pipe', failed) = [Waiting(p, failed) EXCEPT ![h] = @ \o again]
      <3>1. Waiting(pipe', failed) = [Waiting(p, failed) EXCEPT ![h] = PipeLine(p[h]) \o again]
        <4>1. \A c \in SendChannel, x \in DeviceSend!PipeState :
                 Waiting([p EXCEPT ![c] = x], failed) =
                    [Waiting(p, failed) EXCEPT ![c] = PipeLine(x)]
          BY WaitingFacts
        <4> QED
          BY <2>1, <2>2, <2>3, <4>1
      <3>2. Waiting(p, failed)[h] = PipeLine(p[h])
        BY <2>1, WaitingFacts
      <3> QED
        BY <3>1, <3>2
    <2>5. ToSet(rs) \ over = {} \cup ToSet(again)
      BY <1>2, <1>9 DEF kept, over
    <2>6. Spread(Waiting(pipe', failed), {}, Accepted(result'))
      <3>1. Waiting(p, failed) \in [SendLines -> Seq(Request)] /\ h \in SendLines
        BY <2>1, WaitingFacts DEF SendLines
      <3>2. Spread(Waiting(p, failed), {} \cup ToSet(again), Accepted(result'))
        BY <1>7, <2>5
      <3>3. {} \cap ToSet(again) = {}
        OBVIOUS
      <3>4. Spread([Waiting(p, failed) EXCEPT ![h] = @ \o again], {}, Accepted(result'))
        BY <1>2, <1>3, <3>1, <3>2, <3>3, PutEnd
      <3> QED
        BY <2>4, <3>4
    <2> QED
      BY <1>4, <1>5, <2>1, <2>2, <2>3, <2>6
  <1> QED
    BY <1>8, <1>9

(* A channel is destroyed: the requests of its queue are tried again, but    *)
(* for those that fail later.                                                *)
LEMMA DestroyFacts ==
  ASSUME NEW p \in [SendChannel -> DeviceSend!PipeState], NEW c \in SendChannel,
         NEW rs \in Seq(Request),
         \A d \in SendChannel : Sound(p[d], ToSet(wire)),
         DeviceSend!TypeOK,
         Spread(Waiting(p, posted), ToSet(rs), Accepted(result)),
         DeviceSend!Destroy(c, rs, p)
  PROVE  /\ channels' \in Seq(SendChannel) /\ posted' \in Seq(Request)
         /\ pipe' \in [SendChannel -> DeviceSend!PipeState]
         /\ \A d \in SendChannel : Sound(pipe'[d], ToSet(wire))
         /\ \A d \in SendChannel : p[d].busy # None =>
               pipe'[d].busy = p[d].busy /\ pipe'[d].io = p[d].io
         /\ result' = [r \in Request |-> result'[r]]
         /\ \A r \in Request : \/ result'[r] = result[r]
                               \/ /\ result[r] = "sending"
                                  /\ \/ result'[r] = "cancelled"
                                     \/ result'[r] = "failed" /\ channels' = <<>>
         /\ Spread(Waiting(pipe', posted'), {}, Accepted(result'))
  <1> DEFINE left == DeviceSend!Without(channels, c)
             queue == p[c].queue
             kept == IF p[c].busy = None THEN <<>> ELSE <<p[c].busy>>
             x == [p[c] EXCEPT !.queue = <<>>]
             p2 == [p EXCEPT ![c] = x]
  <1>1. /\ queue \in Seq(Request) /\ kept \in Seq(Request)
        /\ PipeLine(p[c]) = kept \o queue
    <2>1. p[c] \in DeviceSend!PipeState
      OBVIOUS
    <2>2. p[c].queue \in Seq(Request) /\ p[c].busy \in Request \cup {None}
      BY <2>1, PipeFacts
    <2>3. CASE p[c].busy = None
      BY <2>2, <2>3 DEF PipeLine
    <2>4. CASE p[c].busy # None
      BY <2>2, <2>4 DEF PipeLine
    <2> QED
      BY <2>3, <2>4
  <1>2. /\ x \in DeviceSend!PipeState /\ PipeLine(x) = kept
        /\ x.busy = p[c].busy /\ x.io = p[c].io /\ Sound(x, ToSet(wire))
    <2>1. p[c] \in DeviceSend!PipeState /\ Sound(p[c], ToSet(wire))
      OBVIOUS
    <2>2. /\ x \in DeviceSend!PipeState /\ x.queue = <<>> /\ x.busy = p[c].busy
          /\ x.io = p[c].io /\ x.pending = p[c].pending
      <3>1. \A q \in Seq(Request) : [p[c] EXCEPT !.queue = q] \in DeviceSend!PipeState
        BY <2>1, PipeFacts
      <3>2. <<>> \in Seq(Request)
        OBVIOUS
      <3>3. x \in DeviceSend!PipeState
        BY <3>1, <3>2
      <3> QED
        BY <2>1, <3>3 DEF DeviceSend!PipeState
    <2>3. Sound(x, ToSet(wire))
      BY <2>1, <2>2 DEF Sound
    <2>4. PipeLine(x) = IF x.busy = None THEN <<>> ELSE <<x.busy>> \o <<>>
      BY <2>2 DEF PipeLine
    <2>5. x.busy # None => <<x.busy>> \o <<>> = <<x.busy>>
      OBVIOUS
    <2> HIDE DEF x
    <2> QED
      BY <2>2, <2>3, <2>4, <2>5
  <1>3. left \in Seq(SendChannel)
    BY RemoveFacts DEF DeviceSend!Without, DeviceSend!RemoveAt, RemoveAt, DeviceSend!TypeOK
  <1>4. PICK n \in 0..Len(queue) :
           /\ channels' = left
           /\ DeviceSend!Retry(SubSeq(queue, 1, n) \o rs, p2, left)
           /\ posted' = posted \o SubSeq(queue, n + 1, Len(queue))
    BY DEF DeviceSend!Destroy
  <1> DEFINE a == SubSeq(queue, 1, n)
             b == SubSeq(queue, n + 1, Len(queue))
  <1>5. a \in Seq(Request) /\ b \in Seq(Request) /\ queue = a \o b
    BY <1>1, CutFacts
  <1> HIDE DEF left, queue, kept, x, a, b
  <1>6. p2 \in [SendChannel -> DeviceSend!PipeState] /\ p2[c] = x
        /\ \A d \in SendChannel : d # c => p2[d] = p[d]
    BY <1>2
  <1>7. /\ Waiting(p, posted) \in [SendLines -> Seq(Request)]
        /\ Waiting(p, posted)[c] = kept \o queue
        /\ Waiting(p2, posted) = [Waiting(p, posted) EXCEPT ![c] = kept]
    <2>1. posted \in Seq(Request)
      BY DEF DeviceSend!TypeOK
    <2>2. /\ Waiting(p, posted) \in [SendLines -> Seq(Request)]
          /\ Waiting(p, posted)[c] = PipeLine(p[c])
      BY <2>1, WaitingFacts
    <2>3. \A d \in SendChannel, y \in DeviceSend!PipeState :
             Waiting([p EXCEPT ![d] = y], posted) =
                [Waiting(p, posted) EXCEPT ![d] = PipeLine(y)]
      BY <2>1, WaitingFacts
    <2> QED
      BY <1>1, <1>2, <2>2, <2>3
  <1> HIDE DEF p2
  <1>8. c \in SendLines /\ None \in SendLines
    BY DEF SendLines
  <1>9. Spread(Waiting(p2, posted), ToSet(rs) \cup ToSet(queue), Accepted(result))
    <2>1. Spread([Waiting(p, posted) EXCEPT ![c] = kept], ToSet(rs) \cup ToSet(queue),
                 Accepted(result))
      BY <1>1, <1>7, <1>8, TakeEnd
    <2> QED
      BY <1>7, <2>1
  <1>10. Distinct(b) /\ ToSet(a) \cap ToSet(b) = {} /\ ToSet(queue) = ToSet(a) \cup ToSet(b)
    <2>1. Distinct(kept \o queue)
      BY <1>7, <1>8 DEF Spread
    <2>2. Distinct(a \o b)
      BY <1>1, <1>5, <2>1, JoinFacts
    <2> QED
      BY <1>5, <2>2, JoinFacts
  <1>11. ToSet(rs) \cap ToSet(queue) = {}
    <2>1. ToSet(kept \o queue) \cap ToSet(rs) = {}
      BY <1>7, <1>8 DEF Spread
    <2> QED
      BY <1>1, <2>1, JoinFacts
  <1>12. posted' \in Seq(Request) /\ posted \in Seq(Request) /\ posted' = posted \o b
    <2>1. posted \in Seq(Request)
      BY DEF DeviceSend!TypeOK
    <2>2. posted' = posted \o b
      BY <1>4 DEF b
    <2> QED
      BY <1>5, <2>1, <2>2
  <1>13. a \o rs \in Seq(Request) /\ ToSet(a \o rs) = ToSet(a) \cup ToSet(rs)
    BY <1>5, JoinFacts
  <1>14. Spread(Waiting(p2, posted'), ToSet(a \o rs), Accepted(result))
    <2>1. Waiting(p2, posted') = [Waiting(p2, posted) EXCEPT ![None] = posted \o b]
          /\ Waiting(p2, posted)[None] = posted
          /\ Waiting(p2, posted) \in [SendLines -> Seq(Request)]
      <3>1. \A f \in Seq(Request) :
               Waiting(p2, f) = [Waiting(p2, posted) EXCEPT ![None] = f]
        BY <1>6, <1>12, WaitingFacts
      <3>2. posted \o b \in Seq(Request)
        BY <1>12
      <3> QED
        BY <1>6, <1>12, <3>1, <3>2, WaitingFacts
    <2>2. Waiting(p2, posted') = [Waiting(p2, posted) EXCEPT ![None] = @ \o b]
      BY <2>1
    <2>3. ToSet(rs) \cup ToSet(queue) = ToSet(a \o rs) \cup ToSet(b)
          /\ ToSet(a \o rs) \cap ToSet(b) = {}
      BY <1>10, <1>11, <1>13
    <2>4. Spread(Waiting(p2, posted), ToSet(a \o rs) \cup ToSet(b), Accepted(result))
      BY <1>9, <2>3
    <2>5. Spread([Waiting(p2, posted) EXCEPT ![None] = @ \o b], ToSet(a \o rs), Accepted(result))
      BY <1>5, <1>8, <1>10, <2>1, <2>3, <2>4, PutEnd
    <2> QED
      BY <2>2, <2>5
  <1>15. ToSet(a \o rs) \subseteq Accepted(result)
    BY <1>14 DEF Spread
  <1>16. \A d \in SendChannel : Sound(p2[d], ToSet(wire)) /\ p2[d].busy = p[d].busy
                                /\ p2[d].io = p[d].io
    BY <1>2, <1>6
  <1>17. DeviceSend!Retry(a \o rs, p2, left)
    BY <1>4 DEF a
  <1>18. /\ pipe' \in [SendChannel -> DeviceSend!PipeState]
         /\ \A d \in SendChannel : Sound(pipe'[d], ToSet(wire))
         /\ \A d \in SendChannel : p2[d].busy # None =>
               pipe'[d].busy = p2[d].busy /\ pipe'[d].io = p2[d].io
         /\ result' = [r \in Request |-> result'[r]]
         /\ \A r \in Request : \/ result'[r] = result[r]
                               \/ /\ r \in ToSet(a \o rs)
                                  /\ \/ result'[r] = "cancelled"
                                     \/ result'[r] = "failed" /\ left = <<>>
         /\ Spread(Waiting(pipe', posted'), {}, Accepted(result'))
    BY <1>3, <1>6, <1>12, <1>13, <1>14, <1>15, <1>16, <1>17, RetryFacts
  <1>19. \A r \in ToSet(a \o rs) : result[r] = "sending"
    BY <1>15 DEF Accepted
  <1> QED
    BY <1>3, <1>4, <1>12, <1>16, <1>18, <1>19

(* What the invariant says of the lines                                      *)
LEMMA NeverForgottenFacts ==
  DeviceSend!TypeOK =>
     (DeviceSend!NeverForgotten <=> Spread(Waiting(pipe, posted), {}, Accepted(result)))
  <1> SUFFICES ASSUME DeviceSend!TypeOK
               PROVE  DeviceSend!NeverForgotten <=>
                         Spread(Waiting(pipe, posted), {}, Accepted(result))
    OBVIOUS
  <1> DEFINE line == Waiting(pipe, posted)
  <1>1. /\ line \in [SendLines -> Seq(Request)]
        /\ \A c \in SendLines : DeviceSend!Line(c) = line[c]
        /\ DeviceSend!Lines = SendLines
    <2>1. \A c \in SendChannel : c # None /\ pipe[c] \in DeviceSend!PipeState
      BY NoneAssumption DEF DeviceSend!TypeOK
    <2>2. ASSUME NEW c \in SendChannel PROVE DeviceSend!Line(c) = PipeLine(pipe[c])
      BY <2>1 DEF DeviceSend!Line, PipeLine
    <2>3. DeviceSend!Line(None) = posted
      BY DEF DeviceSend!Line
    <2>4. /\ line \in [SendLines -> Seq(Request)] /\ line[None] = posted
          /\ \A c \in SendChannel : line[c] = PipeLine(pipe[c])
      BY WaitingFacts DEF DeviceSend!TypeOK
    <2> HIDE DEF line
    <2> QED
      BY <2>2, <2>3, <2>4 DEF DeviceSend!Lines, SendLines
  <1> HIDE DEF line
  <1>2. /\ \A c \in SendLines : \A r \in ToSet(line[c]) : r \in Request
        /\ \A c \in SendLines : ToSet(line[c]) = {line[c][i] : i \in DOMAIN line[c]}
    BY <1>1, FiniteFacts DEF ToSet
  <1>3. ASSUME DeviceSend!NeverForgotten PROVE Spread(line, {}, Accepted(result))
    <2>1. /\ \A c, d \in SendLines : \A i \in DOMAIN line[c], j \in DOMAIN line[d] :
                line[c][i] = line[d][j] => c = d /\ i = j
          /\ \A r \in Request : result[r] = "sending" <=> \E c \in SendLines : r \in ToSet(line[c])
      BY <1>1, <1>3 DEF DeviceSend!NeverForgotten, DeviceSend!ToSet, ToSet
    <2>2. \A c \in SendLines : Distinct(line[c])
      BY <2>1 DEF Distinct
    <2>3. \A c, d \in SendLines : c # d => ToSet(line[c]) \cap ToSet(line[d]) = {}
      BY <1>2, <2>1
    <2>4. \A r : r \in Accepted(result) <=> \E c \in SendLines : r \in ToSet(line[c])
      BY <1>2, <2>1 DEF Accepted
    <2> QED
      BY <2>2, <2>3, <2>4 DEF Spread
  <1>4. ASSUME Spread(line, {}, Accepted(result)) PROVE DeviceSend!NeverForgotten
    <2>1. ASSUME NEW c \in SendLines, NEW d \in SendLines,
                 NEW i \in DOMAIN line[c], NEW j \in DOMAIN line[d], line[c][i] = line[d][j]
          PROVE  c = d /\ i = j
      <3>1. line[c][i] \in ToSet(line[c]) /\ line[d][j] \in ToSet(line[d])
        BY <1>2
      <3>2. c = d
        BY <1>4, <2>1, <3>1 DEF Spread
      <3> QED
        BY <1>4, <2>1, <3>2 DEF Spread, Distinct
    <2>2. \A r \in Request : result[r] = "sending" <=> \E c \in SendLines : r \in ToSet(line[c])
      BY <1>4 DEF Spread, Accepted
    <2> QED
      BY <1>1, <2>1, <2>2 DEF DeviceSend!NeverForgotten, DeviceSend!ToSet, ToSet
  <1> QED
    BY <1>3, <1>4 DEF line

LEMMA NeverForgottenNext ==
  DeviceSend!TypeOK' =>
     (DeviceSend!NeverForgotten' <=> Spread(Waiting(pipe', posted'), {}, Accepted(result')))
  <1>1. (DeviceSend!TypeOK =>
           (DeviceSend!NeverForgotten <=>
              Spread(Waiting(pipe, posted), {}, Accepted(result))))'
    BY NeverForgottenFacts, PTL
  <1> QED
    BY <1>1 DEF Spread, Waiting, Accepted, PipeLine

(* What holds of the lines and the buffers in a state that satisfies the     *)
(* invariant                                                                 *)
LEMMA SendFacts ==
  ASSUME DeviceSend!Inv
  PROVE  /\ DeviceSend!TypeOK
         /\ pipe \in [SendChannel -> DeviceSend!PipeState] /\ posted \in Seq(Request)
         /\ Spread(Waiting(pipe, posted), {}, Accepted(result))
         /\ \A c \in SendChannel : Sound(pipe[c], ToSet(wire))
         /\ Distinct(wire)
         /\ \A r \in Request : result[r] = "ok" => r \in ToSet(wire)
         /\ \A r \in ToSet(wire) : result[r] # "new"
         /\ \A r \in ToSet(wire) : result[r] = "sending" =>
               \E c \in SendChannel : pipe[c].busy = r /\ pipe[c].io = "written"
  <1>1. DeviceSend!TypeOK /\ DeviceSend!NeverForgotten
    BY DEF DeviceSend!Inv
  <1>2. Spread(Waiting(pipe, posted), {}, Accepted(result))
    BY <1>1, NeverForgottenFacts
  <1>3. \A c \in SendChannel : Sound(pipe[c], ToSet(wire))
    BY DEF DeviceSend!Inv, DeviceSend!Stages, Sound, DeviceSend!ToSet, ToSet
  <1>4. Distinct(wire) /\ \A r \in Request : result[r] = "ok" => r \in ToSet(wire)
    BY DEF DeviceSend!Inv, DeviceSend!DeliveredOnce, Distinct, DeviceSend!ToSet, ToSet
  <1>5. \A r \in ToSet(wire) :
           /\ result[r] # "new"
           /\ result[r] = "sending" =>
                 \E c \in SendChannel : pipe[c].busy = r /\ pipe[c].io = "written"
    BY DEF DeviceSend!Inv, DeviceSend!WireIsSent, DeviceSend!ToSet, ToSet
  <1> QED
    BY <1>1, <1>2, <1>3, <1>4, <1>5 DEF DeviceSend!TypeOK

LEMMA BusyFacts ==
  ASSUME DeviceSend!Inv, NEW c \in SendChannel, pipe[c].busy # None
  PROVE  /\ pipe[c].busy \in Accepted(result) /\ pipe[c].busy \in Request
         /\ \A d \in SendChannel : pipe[d].busy = pipe[c].busy => d = c
         /\ \A y \in DeviceSend!PipeState : PipeLine(y) = pipe[c].queue =>
               Spread(Waiting([pipe EXCEPT ![c] = y], posted), {pipe[c].busy}, Accepted(result))
  <1> DEFINE line == Waiting(pipe, posted)
             b == pipe[c].busy
             q == pipe[c].queue
  <1>1. /\ line \in [SendLines -> Seq(Request)] /\ Spread(line, {}, Accepted(result))
        /\ \A d \in SendChannel : line[d] = PipeLine(pipe[d]) /\ d \in SendLines
        /\ \A d \in SendChannel, y \in DeviceSend!PipeState :
              Waiting([pipe EXCEPT ![d] = y], posted) = [line EXCEPT ![d] = PipeLine(y)]
    <2>1. /\ pipe \in [SendChannel -> DeviceSend!PipeState] /\ posted \in Seq(Request)
          /\ Spread(line, {}, Accepted(result))
      BY SendFacts
    <2>2. \A d \in SendChannel, y \in DeviceSend!PipeState :
             Waiting([pipe EXCEPT ![d] = y], posted) = [line EXCEPT ![d] = PipeLine(y)]
      BY <2>1, WaitingFacts
    <2>3. /\ line \in [SendLines -> Seq(Request)]
          /\ \A d \in SendChannel : line[d] = PipeLine(pipe[d])
      BY <2>1, WaitingFacts
    <2> QED
      BY <2>1, <2>2, <2>3 DEF SendLines
  <1>2. ASSUME NEW d \in SendChannel, pipe[d].busy # None
        PROVE  /\ pipe[d].busy \in Request /\ pipe[d].queue \in Seq(Request)
               /\ line[d] = <<pipe[d].busy>> \o pipe[d].queue
               /\ pipe[d].busy \in ToSet(line[d])
    <2>1. pipe[d] \in DeviceSend!PipeState
      BY SendFacts
    <2>2. /\ pipe[d].busy \in Request /\ pipe[d].queue \in Seq(Request)
          /\ line[d] = <<pipe[d].busy>> \o pipe[d].queue
      BY <1>1, <1>2, <2>1, PipeFacts
    <2>3. <<pipe[d].busy>> \in Seq(Request) /\ ToSet(<<pipe[d].busy>>) = {pipe[d].busy}
      BY <2>2, OneFacts
    <2>4. \A s, t \in Seq(Request) : ToSet(s \o t) = ToSet(s) \cup ToSet(t)
      BY JoinFacts
    <2> QED
      BY <2>2, <2>3, <2>4
  <1> HIDE DEF line
  <1>3. b \in Accepted(result)
    BY <1>1, <1>2 DEF Spread
  <1>4. \A d \in SendChannel : pipe[d].busy = b => d = c
    BY <1>1, <1>2 DEF Spread
  <1>5. ASSUME NEW y \in DeviceSend!PipeState, PipeLine(y) = q
        PROVE  Spread(Waiting([pipe EXCEPT ![c] = y], posted), {b}, Accepted(result))
    <2>1. /\ <<b>> \in Seq(Request) /\ q \in Seq(Request) /\ ToSet(<<b>>) = {b}
          /\ line[c] = <<b>> \o q /\ c \in SendLines
      BY <1>1, <1>2, OneFacts
    <2> HIDE DEF b, q
    <2>2. Spread([line EXCEPT ![c] = q], {} \cup ToSet(<<b>>), Accepted(result))
      BY <1>1, <2>1, TakeStart
    <2>3. {} \cup ToSet(<<b>>) = {b}
      BY <2>1
    <2>4. Waiting([pipe EXCEPT ![c] = y], posted) = [line EXCEPT ![c] = q]
      BY <1>1, <1>5
    <2> QED
      BY <2>2, <2>3, <2>4
  <1> QED
    BY <1>2, <1>3, <1>4, <1>5

LEMMA StopFacts ==
  ASSUME NEW x \in DeviceSend!PipeState, NEW left
  PROVE  /\ DeviceSend!Stop(x) \in DeviceSend!PipeState
         /\ PipeLine(DeviceSend!Stop(x)) = x.queue
         /\ Sound(DeviceSend!Stop(x), left)
  BY DEF DeviceSend!Stop, DeviceSend!PipeState, PipeLine, Sound

(* A step that leaves the wire alone and answers no packet that is on it     *)
(* but one for which the write was called back                               *)
LEMMA SendKeeps ==
  ASSUME DeviceSend!Inv, DeviceSend!TypeOK', wire' = wire,
         Spread(Waiting(pipe', posted'), {}, Accepted(result')),
         \A c \in SendChannel : Sound(pipe'[c], ToSet(wire)),
         \A r \in Request : result'[r] # result[r] =>
            /\ result'[r] = "ok" => r \in ToSet(wire)
            /\ r \in ToSet(wire) => result'[r] \notin {"new", "sending"},
         \A c \in SendChannel :
            pipe[c].io = "written" /\ result'[pipe[c].busy] = "sending" =>
               pipe'[c].busy = pipe[c].busy /\ pipe'[c].io = "written"
  PROVE  DeviceSend!Inv'
  <1>1. DeviceSend!NeverForgotten'
    BY NeverForgottenNext
  <1>2. ToSet(wire) \subseteq Request
    BY SendFacts, FiniteFacts DEF DeviceSend!TypeOK
  <1>3. DeviceSend!Stages'
    BY DEF DeviceSend!Stages, Sound, DeviceSend!ToSet, ToSet
  <1>4. DeviceSend!DeliveredOnce'
    <2>1. \A r \in Request : result'[r] = "ok" => r \in ToSet(wire)
      BY SendFacts
    <2>2. Distinct(wire)
      BY SendFacts
    <2> QED
      BY <2>1, <2>2 DEF DeviceSend!DeliveredOnce, Distinct, DeviceSend!ToSet, ToSet
  <1>5. DeviceSend!WireIsSent'
    <2>1. ASSUME NEW r \in ToSet(wire)
          PROVE  /\ result'[r] # "new"
                 /\ result'[r] = "sending" =>
                       \E c \in SendChannel : pipe'[c].busy = r /\ pipe'[c].io = "written"
      <3>1. r \in Request
        BY <1>2, <2>1
      <3>2. CASE result'[r] # result[r]
        BY <3>1, <3>2
      <3>3. CASE result'[r] = result[r]
        BY <3>1, <3>3, SendFacts
      <3> QED
        BY <3>2, <3>3
    <2> QED
      BY <2>1 DEF DeviceSend!WireIsSent, DeviceSend!ToSet, ToSet
  <1> QED
    BY <1>1, <1>3, <1>4, <1>5 DEF DeviceSend!Inv

LEMMA SendStep ==
  ASSUME DeviceSend!Inv, NEW r \in Request, DeviceSend!Send(r)
  PROVE  DeviceSend!Inv'
  <1>1. /\ UNCHANGED <<channels, paired, broken, posted, cancelled, wire>>
        /\ result[r] = "new"
    BY DEF DeviceSend!Send
  <1>2. /\ DeviceSend!TypeOK /\ channels \in Seq(SendChannel) /\ DOMAIN result = Request
        /\ r \notin ToSet(wire) /\ r \notin Accepted(result)
        /\ pipe \in [SendChannel -> DeviceSend!PipeState] /\ posted \in Seq(Request)
        /\ Spread(Waiting(pipe, posted), {}, Accepted(result))
        /\ \A c \in SendChannel : Sound(pipe[c], ToSet(wire))
    BY <1>1, SendFacts DEF DeviceSend!TypeOK, Accepted
  <1>3. ASSUME NEW answer \in {"not connected", "denied", "cancelled"},
               result' = [result EXCEPT ![r] = answer], UNCHANGED pipe
        PROVE  DeviceSend!Inv'
    <2>1. DeviceSend!TypeOK'
      BY <1>1, <1>2, <1>3 DEF DeviceSend!TypeOK
    <2>2. /\ \A q \in Request : q # r => result'[q] = result[q]
          /\ result'[r] = answer
      BY <1>2, <1>3
    <2>3. Accepted(result') = Accepted(result)
      BY <1>1, <1>3, <2>2 DEF Accepted
    <2>4. Spread(Waiting(pipe', posted'), {}, Accepted(result'))
      BY <1>1, <1>2, <1>3, <2>3
    <2> QED
      BY <1>1, <1>2, <1>3, <2>1, <2>2, <2>4, SendKeeps
  <1>4. ASSUME channels # <<>>, result' = [result EXCEPT ![r] = "sending"],
               pipe' = [pipe EXCEPT ![Head(channels)] = DeviceSend!Write(@, <<r>>)]
        PROVE  DeviceSend!Inv'
    <2> DEFINE h == Head(channels)
               y == DeviceSend!Write(pipe[h], <<r>>)
    <2>1. h \in SendChannel
      BY <1>2, <1>4
    <2>2. pipe' = [pipe EXCEPT ![h] = y]
      BY <1>4
    <2>3. <<r>> \in Seq(Request) /\ ToSet(<<r>>) = {r} /\ Distinct(<<r>>)
      BY OneFacts
    <2> HIDE DEF h
    <2>4. /\ y \in DeviceSend!PipeState /\ PipeLine(y) = PipeLine(pipe[h]) \o <<r>>
          /\ Sound(y, ToSet(wire))
          /\ pipe[h].busy # None => y.busy = pipe[h].busy /\ y.io = pipe[h].io
      BY <1>2, <2>1, <2>3, WriteFacts
    <2> HIDE DEF y
    <2>5. DeviceSend!TypeOK'
      BY <1>1, <1>2, <1>4, <2>2, <2>4 DEF DeviceSend!TypeOK
    <2>6. Spread(Waiting(pipe', posted'), {}, Accepted(result'))
      <3>1. /\ Waiting(pipe, posted) \in [SendLines -> Seq(Request)]
            /\ Waiting(pipe, posted)[h] = PipeLine(pipe[h]) /\ h \in SendLines
        <4>1. /\ Waiting(pipe, posted) \in [SendLines -> Seq(Request)]
              /\ \A c \in SendChannel : Waiting(pipe, posted)[c] = PipeLine(pipe[c])
          BY <1>2, WaitingFacts
        <4> QED
          BY <2>1, <4>1 DEF SendLines
      <3>2. \A c \in SendChannel, x \in DeviceSend!PipeState :
               Waiting([pipe EXCEPT ![c] = x], posted) =
                  [Waiting(pipe, posted) EXCEPT ![c] = PipeLine(x)]
        BY <1>2, WaitingFacts
      <3>3. Waiting(pipe', posted') = [Waiting(pipe, posted) EXCEPT ![h] = @ \o <<r>>]
        <4>1. Waiting(pipe', posted') = [Waiting(pipe, posted) EXCEPT ![h] = PipeLine(y)]
          BY <1>1, <2>1, <2>2, <2>4, <3>2
        <4> QED
          BY <2>4, <3>1, <4>1
      <3>4. Accepted(result') = Accepted(result) \cup {r}
        BY <1>2, <1>4 DEF Accepted
      <3>5. Spread(Waiting(pipe, posted), {r}, Accepted(result'))
        BY <1>2, <3>4, Accept
      <3>6. Spread(Waiting(pipe, posted), {} \cup ToSet(<<r>>), Accepted(result'))
        BY <2>3, <3>5
      <3>7. Spread([Waiting(pipe, posted) EXCEPT ![h] = @ \o <<r>>], {}, Accepted(result'))
        BY <2>3, <3>1, <3>6, PutEnd
      <3> QED
        BY <3>3, <3>7
    <2>7. \A c \in SendChannel : Sound(pipe'[c], ToSet(wire))
      BY <1>2, <2>1, <2>2, <2>4
    <2>8. \A q \in Request : q # r => result'[q] = result[q]
      BY <1>2, <1>4
    <2>9. ASSUME NEW c \in SendChannel, pipe[c].io = "written"
          PROVE  pipe'[c].busy = pipe[c].busy /\ pipe'[c].io = "written"
      <3>1. pipe[c].busy # None
        BY <1>2, <2>9 DEF Sound
      <3> QED
        BY <1>2, <2>1, <2>2, <2>4, <2>9, <3>1
    <2>10. result'[r] = "sending"
      BY <1>2, <1>4
    <2> QED
      BY <1>1, <1>2, <2>5, <2>6, <2>7, <2>8, <2>9, <2>10, SendKeeps
  <1>5. \/ \E answer \in {"not connected", "denied", "cancelled"} :
              result' = [result EXCEPT ![r] = answer] /\ UNCHANGED pipe
        \/ /\ channels # <<>> /\ result' = [result EXCEPT ![r] = "sending"]
           /\ pipe' = [pipe EXCEPT ![Head(channels)] = DeviceSend!Write(@, <<r>>)]
    BY DEF DeviceSend!Send
  <1> QED
    BY <1>3, <1>4, <1>5

LEMMA PostedStep ==
  ASSUME DeviceSend!Inv, DeviceSend!PostedCallback
  PROVE  DeviceSend!Inv'
  <1> DEFINE r == Head(posted)
             rest == Tail(posted)
  <1>1. /\ DeviceSend!TypeOK /\ channels \in Seq(SendChannel)
        /\ pipe \in [SendChannel -> DeviceSend!PipeState] /\ posted \in Seq(Request)
        /\ Spread(Waiting(pipe, posted), {}, Accepted(result))
        /\ \A c \in SendChannel : Sound(pipe[c], ToSet(wire))
    BY SendFacts DEF DeviceSend!TypeOK
  <1>2. /\ DeviceSend!Retry(<<r>>, pipe, channels) /\ posted # <<>> /\ posted' = rest
        /\ UNCHANGED <<channels, paired, broken, cancelled, wire>>
    BY DEF DeviceSend!PostedCallback
  <1>3. r \in Request /\ rest \in Seq(Request) /\ posted = <<r>> \o rest
    BY <1>1, <1>2, HeadFacts
  <1> HIDE DEF r, rest
  <1>4. <<r>> \in Seq(Request) /\ ToSet(<<r>>) = {r}
    BY <1>3, OneFacts
  <1>5. Spread(Waiting(pipe, rest), ToSet(<<r>>), Accepted(result))
    <2>1. /\ Waiting(pipe, posted) \in [SendLines -> Seq(Request)]
          /\ Waiting(pipe, posted)[None] = posted /\ None \in SendLines
      BY <1>1, WaitingFacts DEF SendLines
    <2>2. \A f \in Seq(Request) : Waiting(pipe, f) = [Waiting(pipe, posted) EXCEPT ![None] = f]
      BY <1>1, WaitingFacts
    <2>3. Waiting(pipe, rest) = [Waiting(pipe, posted) EXCEPT ![None] = rest]
      BY <1>3, <2>2
    <2>4. Spread([Waiting(pipe, posted) EXCEPT ![None] = rest], {} \cup ToSet(<<r>>),
                 Accepted(result))
      BY <1>1, <1>3, <1>4, <2>1, TakeStart
    <2>5. {} \cup ToSet(<<r>>) = ToSet(<<r>>)
      OBVIOUS
    <2> QED
      BY <2>3, <2>4, <2>5
  <1>6. ToSet(<<r>>) \subseteq Accepted(result)
    BY <1>5 DEF Spread
  <1>7. /\ pipe' \in [SendChannel -> DeviceSend!PipeState]
        /\ \A c \in SendChannel : Sound(pipe'[c], ToSet(wire))
        /\ \A c \in SendChannel : pipe[c].busy # None =>
              pipe'[c].busy = pipe[c].busy /\ pipe'[c].io = pipe[c].io
        /\ result' = [q \in Request |-> result'[q]]
        /\ \A q \in Request : \/ result'[q] = result[q]
                              \/ /\ q \in ToSet(<<r>>)
                                 /\ \/ result'[q] = "cancelled"
                                    \/ result'[q] = "failed" /\ channels = <<>>
        /\ Spread(Waiting(pipe', rest), {}, Accepted(result'))
    BY <1>1, <1>2, <1>3, <1>4, <1>5, <1>6, RetryFacts
  <1>8. DeviceSend!TypeOK'
    <2>1. result' \in [Request -> {"new", "sending", "ok", "cancelled", "failed",
                                   "denied", "not connected"}]
      <3>1. result' = [q \in Request |-> result'[q]]
        BY <1>7
      <3> QED
        BY <1>1, <1>7, <3>1 DEF DeviceSend!TypeOK
    <2> QED
      BY <1>1, <1>2, <1>3, <1>7, <2>1 DEF DeviceSend!TypeOK
  <1>9. \A c \in SendChannel : pipe[c].io = "written" => pipe[c].busy # None
    BY <1>1 DEF Sound
  <1> QED
    BY <1>1, <1>2, <1>7, <1>8, <1>9, SendKeeps

(* The requests whose answer a callback gives, and the type of what it says  *)
LEMMA AnswerFacts ==
  ASSUME DeviceSend!TypeOK, NEW r \in Request, NEW answer \in {"ok", "cancelled"},
         result' = [result EXCEPT ![r] = answer]
  PROVE  /\ result' \in [Request -> {"new", "sending", "ok", "cancelled", "failed",
                                     "denied", "not connected"}]
         /\ result'[r] = answer /\ \A q \in Request : q # r => result'[q] = result[q]
         /\ Accepted(result') = Accepted(result) \ {r}
  BY DEF DeviceSend!TypeOK, Accepted

LEMMA CalledBack ==
  ASSUME DeviceSend!Inv, NEW c \in SendChannel, pipe[c].busy # None,
         NEW y \in DeviceSend!PipeState, PipeLine(y) = pipe[c].queue, Sound(y, ToSet(wire)),
         pipe' = [pipe EXCEPT ![c] = y],
         NEW answer \in {"ok", "cancelled"},
         answer = "ok" => pipe[c].busy \in ToSet(wire),
         result' = [result EXCEPT ![pipe[c].busy] = answer],
         UNCHANGED <<channels, paired, broken, posted, cancelled, wire>>
  PROVE  DeviceSend!Inv'
  <1> DEFINE r == pipe[c].busy
  <1>1. /\ DeviceSend!TypeOK /\ pipe \in [SendChannel -> DeviceSend!PipeState]
        /\ \A d \in SendChannel : Sound(pipe[d], ToSet(wire))
    BY SendFacts
  <1>2. /\ r \in Request
        /\ \A d \in SendChannel : pipe[d].busy = r => d = c
        /\ Spread(Waiting(pipe', posted), {r}, Accepted(result))
    BY BusyFacts
  <1>3. /\ result' \in [Request -> {"new", "sending", "ok", "cancelled", "failed",
                                    "denied", "not connected"}]
        /\ result'[r] = answer /\ \A q \in Request : q # r => result'[q] = result[q]
        /\ Accepted(result') = Accepted(result) \ {r}
    BY <1>1, <1>2, AnswerFacts
  <1>4. Spread(Waiting(pipe', posted'), {}, Accepted(result'))
    <2>1. {r} \cap Accepted(result) \subseteq {r} /\ {r} \ {r} = {}
      OBVIOUS
    <2>2. Spread(Waiting(pipe', posted), {r} \ {r}, Accepted(result) \ {r})
      BY <1>2, <2>1, Answer
    <2> QED
      BY <1>3, <2>1, <2>2
  <1>5. DeviceSend!TypeOK'
    BY <1>1, <1>3 DEF DeviceSend!TypeOK
  <1>6. pipe'[c] = y /\ \A d \in SendChannel : d # c => pipe'[d] = pipe[d]
    BY <1>1
  <1>7. \A d \in SendChannel :
           pipe[d].io = "written" /\ result'[pipe[d].busy] = "sending" => d # c
    BY <1>3
  <1> QED
    BY <1>1, <1>3, <1>4, <1>5, <1>6, <1>7, SendKeeps

LEMMA CallbackStep ==
  ASSUME DeviceSend!Inv, NEW c \in SendChannel,
         DeviceSend!WrittenCallback(c) \/ DeviceSend!CancelledCallback(c)
  PROVE  DeviceSend!Inv'
  <1>1. /\ pipe[c] \in DeviceSend!PipeState /\ Sound(pipe[c], ToSet(wire))
        /\ pipe[c].io # "idle" => pipe[c].busy # None
    BY SendFacts DEF Sound
  <1>2. CASE DeviceSend!WrittenCallback(c)
    <2> DEFINE y == DeviceSend!Start(pipe[c])
    <2>1. y \in DeviceSend!PipeState /\ PipeLine(y) = pipe[c].queue /\ Sound(y, ToSet(wire))
      BY <1>1, StartFacts
    <2>2. /\ pipe[c].io = "written" /\ pipe' = [pipe EXCEPT ![c] = y]
          /\ result' = [result EXCEPT ![pipe[c].busy] = "ok"]
          /\ UNCHANGED <<channels, paired, broken, posted, cancelled, wire>>
      BY <1>2 DEF DeviceSend!WrittenCallback
    <2>3. pipe[c].busy # None /\ pipe[c].busy \in ToSet(wire)
      BY <1>1, <2>2 DEF Sound
    <2> HIDE DEF y
    <2> QED
      BY <2>1, <2>2, <2>3, CalledBack
  <1>3. CASE DeviceSend!CancelledCallback(c)
    <2> DEFINE y == DeviceSend!Stop(pipe[c])
    <2>1. y \in DeviceSend!PipeState /\ PipeLine(y) = pipe[c].queue /\ Sound(y, ToSet(wire))
      BY <1>1, StopFacts
    <2>2. /\ pipe[c].io \in {"written", "failed"} /\ pipe' = [pipe EXCEPT ![c] = y]
          /\ result' = [result EXCEPT ![pipe[c].busy] = "cancelled"]
          /\ UNCHANGED <<channels, paired, broken, posted, cancelled, wire>>
      BY <1>3 DEF DeviceSend!CancelledCallback
    <2>3. pipe[c].busy # None
      BY <1>1, <2>2
    <2> HIDE DEF y
    <2> QED
      BY <2>1, <2>2, <2>3, CalledBack
  <1> QED
    BY <1>2, <1>3

(* A channel is destroyed by a step that leaves the rest alone.              *)
LEMMA DestroyStep ==
  ASSUME DeviceSend!Inv, NEW c \in SendChannel, NEW rs \in Seq(Request),
         NEW p \in [SendChannel -> DeviceSend!PipeState],
         \A d \in SendChannel : Sound(p[d], ToSet(wire)),
         \A d \in SendChannel : pipe[d].io = "written" => p[d] = pipe[d],
         Spread(Waiting(p, posted), ToSet(rs), Accepted(result)),
         DeviceSend!Destroy(c, rs, p),
         broken' \subseteq SendChannel, UNCHANGED <<paired, cancelled, wire>>
  PROVE  DeviceSend!Inv'
  <1>1. DeviceSend!TypeOK /\ \A d \in SendChannel : Sound(pipe[d], ToSet(wire))
    BY SendFacts
  <1>2. /\ channels' \in Seq(SendChannel) /\ posted' \in Seq(Request)
        /\ pipe' \in [SendChannel -> DeviceSend!PipeState]
        /\ \A d \in SendChannel : Sound(pipe'[d], ToSet(wire))
        /\ \A d \in SendChannel : p[d].busy # None =>
              pipe'[d].busy = p[d].busy /\ pipe'[d].io = p[d].io
        /\ result' = [r \in Request |-> result'[r]]
        /\ \A r \in Request : \/ result'[r] = result[r]
                              \/ /\ result[r] = "sending"
                                 /\ \/ result'[r] = "cancelled"
                                    \/ result'[r] = "failed" /\ channels' = <<>>
        /\ Spread(Waiting(pipe', posted'), {}, Accepted(result'))
    BY <1>1, DestroyFacts
  <1>3. result' \in [Request -> {"new", "sending", "ok", "cancelled", "failed",
                                 "denied", "not connected"}]
    BY <1>1, <1>2 DEF DeviceSend!TypeOK
  <1>4. DeviceSend!TypeOK'
    BY <1>1, <1>2, <1>3 DEF DeviceSend!TypeOK
  <1>5. \A d \in SendChannel : pipe[d].io = "written" =>
           pipe'[d].busy = pipe[d].busy /\ pipe'[d].io = "written"
    BY <1>1, <1>2 DEF Sound
  <1> QED
    BY <1>2, <1>4, <1>5, SendKeeps

LEMMA FailedStep ==
  ASSUME DeviceSend!Inv, NEW c \in SendChannel, DeviceSend!FailedCallback(c)
  PROVE  DeviceSend!Inv'
  <1> DEFINE y == DeviceSend!Stop(pipe[c])
             p == [pipe EXCEPT ![c] = y]
             b == pipe[c].busy
  <1>1. /\ pipe[c].io = "failed" /\ DeviceSend!Destroy(c, <<b>>, p)
        /\ UNCHANGED <<paired, broken, cancelled, wire>>
    BY DEF DeviceSend!FailedCallback
  <1>2. /\ pipe \in [SendChannel -> DeviceSend!PipeState] /\ broken \subseteq SendChannel
        /\ \A d \in SendChannel : Sound(pipe[d], ToSet(wire))
    BY SendFacts DEF DeviceSend!TypeOK
  <1>3. b # None
    BY <1>1, <1>2 DEF Sound
  <1>4. y \in DeviceSend!PipeState /\ PipeLine(y) = pipe[c].queue /\ Sound(y, ToSet(wire))
    BY <1>2, StopFacts
  <1>5. b \in Request /\ Spread(Waiting(p, posted), {b}, Accepted(result))
    BY <1>3, <1>4, BusyFacts
  <1>6. <<b>> \in Seq(Request) /\ ToSet(<<b>>) = {b}
    BY <1>5, OneFacts
  <1>7. /\ p \in [SendChannel -> DeviceSend!PipeState]
        /\ p[c] = y /\ \A d \in SendChannel : d # c => p[d] = pipe[d]
    BY <1>2, <1>4
  <1> HIDE DEF y, p, b
  <1>8. Spread(Waiting(p, posted), ToSet(<<b>>), Accepted(result))
    BY <1>5, <1>6
  <1>9. \A d \in SendChannel : Sound(p[d], ToSet(wire))
    BY <1>2, <1>4, <1>7
  <1>10. \A d \in SendChannel : pipe[d].io = "written" => p[d] = pipe[d]
    BY <1>1, <1>7
  <1> QED
    BY <1>1, <1>2, <1>6, <1>7, <1>8, <1>9, <1>10, DestroyStep

LEMMA LostStep ==
  ASSUME DeviceSend!Inv, NEW c \in SendChannel, DeviceSend!ChannelLost(c)
  PROVE  DeviceSend!Inv'
  <1>1. /\ DeviceSend!Destroy(c, <<>>, pipe) /\ broken' = broken \cup {c}
        /\ UNCHANGED <<paired, cancelled, wire>>
    BY DEF DeviceSend!ChannelLost
  <1>2. /\ pipe \in [SendChannel -> DeviceSend!PipeState] /\ broken' \subseteq SendChannel
        /\ \A d \in SendChannel : Sound(pipe[d], ToSet(wire))
        /\ Spread(Waiting(pipe, posted), {}, Accepted(result))
    BY <1>1, SendFacts DEF DeviceSend!TypeOK
  <1>3. <<>> \in Seq(Request) /\ Spread(Waiting(pipe, posted), ToSet(<<>>), Accepted(result))
    BY <1>2, NoneFacts
  <1> QED
    BY <1>1, <1>2, <1>3, DestroyStep

(* A write makes progress: the lines stay.                                   *)
LEMMA IoFacts ==
  ASSUME DeviceSend!Inv, NEW c \in SendChannel, pipe[c].busy # None,
         NEW io \in {"written", "failed"},
         pipe' = [pipe EXCEPT ![c].io = io], UNCHANGED posted
  PROVE  /\ pipe' \in [SendChannel -> DeviceSend!PipeState]
         /\ \A d \in SendChannel : pipe'[d].busy = pipe[d].busy
         /\ \A d \in SendChannel : d # c => pipe'[d] = pipe[d]
         /\ pipe'[c].io = io /\ pipe'[c].pending = pipe[c].pending
         /\ Spread(Waiting(pipe', posted'), {}, Accepted(result))
  <1>1. /\ pipe \in [SendChannel -> DeviceSend!PipeState]
        /\ Spread(Waiting(pipe, posted), {}, Accepted(result))
    BY SendFacts
  <1>2. /\ pipe' \in [SendChannel -> DeviceSend!PipeState]
        /\ \A d \in SendChannel : d # c => pipe'[d] = pipe[d]
        /\ pipe'[c].io = io /\ pipe'[c].busy = pipe[c].busy
        /\ pipe'[c].pending = pipe[c].pending /\ pipe'[c].queue = pipe[c].queue
    BY <1>1 DEF DeviceSend!PipeState
  <1>3. \A d \in SendChannel : PipeLine(pipe'[d]) = PipeLine(pipe[d])
    BY <1>2 DEF PipeLine
  <1>4. Waiting(pipe', posted') = Waiting(pipe, posted)
    BY <1>3 DEF Waiting, SendLines
  <1> QED
    BY <1>1, <1>2, <1>4

LEMMA StreamStep ==
  ASSUME DeviceSend!Inv, NEW c \in SendChannel,
         DeviceSend!StreamWrites(c) \/ DeviceSend!StreamFails(c)
  PROVE  DeviceSend!Inv'
  <1> DEFINE b == pipe[c].busy
  <1>1. /\ DeviceSend!TypeOK /\ wire \in Seq(Request) /\ Distinct(wire)
        /\ \A d \in SendChannel : Sound(pipe[d], ToSet(wire))
    BY SendFacts DEF DeviceSend!TypeOK
  <1>2. pipe[c].io = "started"
    BY DEF DeviceSend!StreamWrites, DeviceSend!StreamFails
  <1>3. b # None
    BY <1>1, <1>2 DEF Sound
  <1>4. /\ b \in Accepted(result) /\ b \in Request
        /\ \A d \in SendChannel : pipe[d].busy = b => d = c
    BY <1>3, BusyFacts
  <1>5. CASE DeviceSend!StreamFails(c)
    <2>1. /\ pipe' = [pipe EXCEPT ![c].io = "failed"]
          /\ UNCHANGED <<channels, paired, broken, posted, cancelled, result, wire>>
      BY <1>5 DEF DeviceSend!StreamFails
    <2>2. /\ pipe' \in [SendChannel -> DeviceSend!PipeState]
          /\ \A d \in SendChannel : pipe'[d].busy = pipe[d].busy
          /\ \A d \in SendChannel : d # c => pipe'[d] = pipe[d]
          /\ pipe'[c].io = "failed" /\ pipe'[c].pending = pipe[c].pending
          /\ Spread(Waiting(pipe', posted'), {}, Accepted(result))
      BY <1>3, <2>1, IoFacts
    <2>3. DeviceSend!TypeOK'
      BY <1>1, <2>1, <2>2 DEF DeviceSend!TypeOK
    <2>4. \A d \in SendChannel : Sound(pipe'[d], ToSet(wire))
      BY <1>1, <1>3, <2>1, <2>2 DEF Sound
    <2> QED
      BY <1>2, <2>1, <2>2, <2>3, <2>4, SendKeeps
  <1>6. CASE DeviceSend!StreamWrites(c)
    <2>1. /\ pipe' = [pipe EXCEPT ![c].io = "written"] /\ wire' = Append(wire, b)
          /\ UNCHANGED <<channels, paired, broken, posted, cancelled, result>>
      BY <1>6 DEF DeviceSend!StreamWrites
    <2>2. /\ pipe' \in [SendChannel -> DeviceSend!PipeState]
          /\ \A d \in SendChannel : pipe'[d].busy = pipe[d].busy
          /\ \A d \in SendChannel : d # c => pipe'[d] = pipe[d]
          /\ pipe'[c].io = "written" /\ pipe'[c].pending = pipe[c].pending
          /\ Spread(Waiting(pipe', posted'), {}, Accepted(result))
      BY <1>3, <2>1, IoFacts
    <2> HIDE DEF b
    <2>3. wire' = wire \o <<b>> /\ <<b>> \in Seq(Request) /\ ToSet(<<b>>) = {b} /\ Distinct(<<b>>)
      BY <1>1, <1>4, <2>1, AppendIsConcat, OneFacts
    <2>4. b \notin ToSet(wire)
      <3> SUFFICES ASSUME b \in ToSet(wire) PROVE FALSE
        OBVIOUS
      <3>1. result[b] = "sending"
        BY <1>4 DEF Accepted
      <3>2. PICK d \in SendChannel : pipe[d].busy = b /\ pipe[d].io = "written"
        BY <3>1, SendFacts
      <3> QED
        BY <1>2, <1>4, <3>2
    <2>5. /\ wire' \in Seq(Request) /\ ToSet(wire') = ToSet(wire) \cup {b} /\ Distinct(wire')
      <3>1. ToSet(wire) \cap ToSet(<<b>>) = {}
        BY <2>3, <2>4
      <3>2. /\ wire \o <<b>> \in Seq(Request) /\ Distinct(wire \o <<b>>)
            /\ ToSet(wire \o <<b>>) = ToSet(wire) \cup ToSet(<<b>>)
        BY <1>1, <2>3, <3>1, JoinFacts
      <3> QED
        BY <2>3, <3>2
    <2>6. DeviceSend!TypeOK'
      BY <1>1, <2>1, <2>2, <2>5 DEF DeviceSend!TypeOK
    <2>7. DeviceSend!NeverForgotten'
      BY <2>1, <2>2, <2>6, NeverForgottenNext
    <2>8. DeviceSend!Stages'
      <3>1. \A d \in SendChannel : Sound(pipe'[d], ToSet(wire'))
        BY <1>1, <1>3, <2>2, <2>5 DEF Sound, b
      <3> QED
        BY <3>1 DEF DeviceSend!Stages, Sound, DeviceSend!ToSet, ToSet
    <2>9. DeviceSend!DeliveredOnce'
      <3>1. \A r \in Request : result'[r] = "ok" => r \in ToSet(wire')
        BY <2>1, <2>5, SendFacts
      <3> QED
        BY <2>5, <3>1 DEF DeviceSend!DeliveredOnce, Distinct, DeviceSend!ToSet, ToSet
    <2>10. DeviceSend!WireIsSent'
      <3>1. ASSUME NEW r \in ToSet(wire')
            PROVE  /\ result'[r] # "new"
                   /\ result'[r] = "sending" =>
                         \E d \in SendChannel : pipe'[d].busy = r /\ pipe'[d].io = "written"
        <4>1. CASE r = b
          BY <1>4, <2>1, <2>2, <4>1 DEF Accepted, b
        <4>2. CASE r # b
          <5>1. r \in ToSet(wire)
            BY <2>5, <3>1, <4>2
          <5> QED
            BY <1>2, <2>1, <2>2, <5>1, SendFacts
        <4> QED
          BY <4>1, <4>2
      <3> QED
        BY <3>1 DEF DeviceSend!WireIsSent, DeviceSend!ToSet, ToSet
    <2> QED
      BY <2>6, <2>7, <2>8, <2>9, <2>10 DEF DeviceSend!Inv
  <1> QED
    BY <1>5, <1>6

LEMMA SendInit == DeviceSend!Init => DeviceSend!Inv
  <1> SUFFICES ASSUME DeviceSend!Init PROVE DeviceSend!Inv
    OBVIOUS
  <1>1. channels \in Seq(SendChannel)
    <2>1. channels \in SetToSeqs(SendChannel)
      BY SameCardinality DEF DeviceSend!Init, DeviceSend!SetToSeqs, SetToSeqs
    <2> QED
      BY <2>1, ChannelAssumption, OrderFacts
  <1>2. DeviceSend!Idle \in DeviceSend!PipeState
    BY DEF DeviceSend!Idle, DeviceSend!PipeState
  <1>3. DeviceSend!TypeOK
    BY <1>1, <1>2 DEF DeviceSend!Init, DeviceSend!TypeOK
  <1>4. \A c \in DeviceSend!Lines : DeviceSend!Line(c) = <<>>
    BY DEF DeviceSend!Init, DeviceSend!Idle, DeviceSend!Lines, DeviceSend!Line
  <1>5. DeviceSend!NeverForgotten
    BY <1>4 DEF DeviceSend!Init, DeviceSend!NeverForgotten, DeviceSend!ToSet
  <1>6. DeviceSend!DeliveredOnce /\ DeviceSend!Stages /\ DeviceSend!WireIsSent
    BY DEF DeviceSend!Init, DeviceSend!Idle, DeviceSend!DeliveredOnce, DeviceSend!Stages,
           DeviceSend!WireIsSent, DeviceSend!ToSet
  <1> QED
    BY <1>3, <1>5, <1>6 DEF DeviceSend!Inv

LEMMA SendNext ==
  DeviceSend!Inv /\ [DeviceSend!Next]_(DeviceSend!vars) => DeviceSend!Inv'
  <1> SUFFICES ASSUME DeviceSend!Inv, [DeviceSend!Next]_(DeviceSend!vars)
               PROVE  DeviceSend!Inv'
    OBVIOUS
  <1>1. ASSUME UNCHANGED <<channels, pipe, posted, result, wire>>, DeviceSend!TypeOK'
        PROVE  DeviceSend!Inv'
    <2>1. DeviceSend!NeverForgotten'
      <3>1. Waiting(pipe', posted') = Waiting(pipe, posted) /\ Accepted(result') = Accepted(result)
        BY <1>1
      <3> QED
        BY <1>1, <3>1, SendFacts, NeverForgottenNext
    <2>2. DeviceSend!DeliveredOnce'
      BY <1>1 DEF DeviceSend!Inv, DeviceSend!DeliveredOnce
    <2>3. DeviceSend!Stages'
      BY <1>1 DEF DeviceSend!Inv, DeviceSend!Stages
    <2>4. DeviceSend!WireIsSent'
      BY <1>1 DEF DeviceSend!Inv, DeviceSend!WireIsSent
    <2> QED
      BY <1>1, <2>1, <2>2, <2>3, <2>4 DEF DeviceSend!Inv
  <1>2. ASSUME NEW r \in Request, DeviceSend!Cancel(r) PROVE DeviceSend!Inv'
    BY <1>1, <1>2 DEF DeviceSend!Cancel, DeviceSend!Inv, DeviceSend!TypeOK
  <1>3. ASSUME NEW c \in SendChannel, DeviceSend!PeerStopsReading(c) PROVE DeviceSend!Inv'
    BY <1>1, <1>3 DEF DeviceSend!PeerStopsReading, DeviceSend!Inv, DeviceSend!TypeOK
  <1>4. CASE DeviceSend!Unpair
    BY <1>1, <1>4 DEF DeviceSend!Unpair, DeviceSend!Inv, DeviceSend!TypeOK
  <1>5. CASE UNCHANGED DeviceSend!vars
    BY <1>1, <1>5 DEF DeviceSend!vars, DeviceSend!Inv, DeviceSend!TypeOK
  <1> QED
    BY <1>2, <1>3, <1>4, <1>5, SendStep, PostedStep, CallbackStep, FailedStep, LostStep,
       StreamStep DEF DeviceSend!Next, DeviceSend!Callback

(* A request that was accepted fails in the same step as the last channel    *)
(* leaves, or when none was left.                                            *)
LEMMA CutOffStep ==
  ASSUME DeviceSend!Inv, [DeviceSend!Next]_(DeviceSend!vars)
  PROVE  DeviceSend!CutOff
  <1> SUFFICES ASSUME NEW r \in Request, result[r] = "sending", result'[r] = "failed"
               PROVE  channels' = <<>>
    BY DEF DeviceSend!CutOff
  <1>1. /\ DeviceSend!TypeOK /\ DOMAIN result = Request
        /\ \A d \in SendChannel : Sound(pipe[d], ToSet(wire))
    BY SendFacts DEF DeviceSend!TypeOK
  <1>2. ASSUME NEW rs, NEW p, NEW left, DeviceSend!Retry(rs, p, left) PROVE left = <<>>
    BY <1>1, <1>2 DEF DeviceSend!Retry
  <1>3. ASSUME NEW c, NEW rs, NEW p, DeviceSend!Destroy(c, rs, p) PROVE channels' = <<>>
    BY <1>2, <1>3 DEF DeviceSend!Destroy
  <1>4. CASE DeviceSend!PostedCallback
    BY <1>2, <1>4 DEF DeviceSend!PostedCallback
  <1>5. ASSUME NEW c \in SendChannel, DeviceSend!FailedCallback(c) PROVE channels' = <<>>
    BY <1>3, <1>5 DEF DeviceSend!FailedCallback
  <1>6. ASSUME NEW c \in SendChannel, DeviceSend!ChannelLost(c) PROVE channels' = <<>>
    BY <1>3, <1>6 DEF DeviceSend!ChannelLost
  <1>7. ASSUME NEW c \in SendChannel,
               DeviceSend!WrittenCallback(c) \/ DeviceSend!CancelledCallback(c)
        PROVE  FALSE
    BY <1>1, <1>7 DEF DeviceSend!WrittenCallback, DeviceSend!CancelledCallback
  <1>8. ASSUME NEW q \in Request, DeviceSend!Send(q) PROVE FALSE
    BY <1>1, <1>8 DEF DeviceSend!Send
  <1>9. ASSUME UNCHANGED result PROVE FALSE
    BY <1>9
  <1> QED
    BY <1>4, <1>5, <1>6, <1>7, <1>8, <1>9
       DEF DeviceSend!Next, DeviceSend!Callback, DeviceSend!vars, DeviceSend!Cancel,
           DeviceSend!PeerStopsReading, DeviceSend!Unpair, DeviceSend!StreamWrites,
           DeviceSend!StreamFails

(* Share.  An upload or a download that is active and through its files so   *)
(* far goes to the next one, waits for one, or is complete.                  *)
LEMMA UploadNext ==
  ASSUME NEW r \in Share!UploadType, NEW done, r.state = "active",
         r.position <= Len(r.items), \A i \in 1..r.position : r.items[i] \in done
  PROVE  Share!NextUpload(r) \in Share!UploadType /\ Share!UploadOK(Share!NextUpload(r), done)
  <1> DEFINE y == Share!NextUpload(r)
  <1>1. /\ r.items \in Seq(Share!File) /\ r.position \in Nat /\ Len(r.items) \in Nat
        /\ r.query \subseteq Share!File
    BY DEF Share!UploadType
  <1>2. CASE r.position < Len(r.items)
    <2>1. /\ r.position + 1 \in 1..Len(r.items) /\ r.position + 1 \in Nat
          /\ r.items[r.position + 1] \in Share!File /\ r.items[r.position + 1] # Share!NoItem
          /\ r.items[r.position + 1] \in Nat
      BY <1>1, <1>2 DEF Share!File
    <2>2. y = [r EXCEPT !.position = r.position + 1, !.item = r.items[r.position + 1],
                        !.offered = FALSE, !.number = Len(r.items), !.idle = FALSE]
      BY <1>2 DEF Share!NextUpload
    <2>3. /\ y \in Share!UploadType /\ y.position = r.position + 1 /\ y.items = r.items
          /\ y.item = r.items[r.position + 1] /\ y.idle = FALSE /\ y.state = "active"
      BY <1>1, <2>1, <2>2 DEF Share!UploadType
    <2> HIDE DEF y
    <2>4. \A i \in 1..y.position : i = y.position \/ i \in 1..r.position
      BY <1>1, <2>3
    <2> QED
      BY <1>1, <2>1, <2>3, <2>4 DEF Share!UploadOK, Share!Through, y
  <1>3. CASE ~(r.position < Len(r.items)) /\ r.query # {}
    <2>1. y = [r EXCEPT !.item = Share!NoItem, !.idle = TRUE]
      BY <1>3 DEF Share!NextUpload
    <2> HIDE DEF y
    <2>2. /\ y \in Share!UploadType /\ y.position = r.position /\ y.items = r.items
          /\ y.item = Share!NoItem /\ y.state = "active"
      BY <2>1 DEF Share!UploadType, Share!NoItem
    <2> QED
      BY <2>2 DEF Share!UploadOK, Share!Through, y
  <1>4. CASE ~(r.position < Len(r.items)) /\ r.query = {}
    <2>1. y = [r EXCEPT !.item = Share!NoItem, !.idle = FALSE, !.state = "complete"]
      BY <1>4 DEF Share!NextUpload
    <2> HIDE DEF y
    <2>2. /\ y \in Share!UploadType /\ y.position = r.position /\ y.items = r.items
          /\ y.item = Share!NoItem /\ y.state = "complete" /\ y.idle = FALSE /\ y.query = {}
      BY <1>4, <2>1 DEF Share!UploadType, Share!NoItem
    <2>3. r.position = Len(r.items)
      BY <1>1, <1>4
    <2> QED
      BY <2>2, <2>3 DEF Share!UploadOK, Share!Through, y
  <1> QED
    BY <1>2, <1>3, <1>4

LEMMA DownloadNext ==
  ASSUME NEW r \in Share!DownloadType, NEW done, r.state = "active", r.waiting = FALSE,
         r.position <= Len(r.items), \A i \in 1..r.position : r.items[i] \in done
  PROVE  /\ Share!NextDownload(r) \in Share!DownloadType
         /\ Share!DownloadOK(Share!NextDownload(r), done)
  <1> DEFINE y == Share!NextDownload(r)
  <1>1. /\ r.items \in Seq(Share!File) /\ r.position \in Nat /\ Len(r.items) \in Nat
        /\ r.number \in Nat
    BY DEF Share!DownloadType
  <1>2. CASE r.position < Len(r.items)
    <2>1. /\ r.position + 1 \in 1..Len(r.items) /\ r.position + 1 \in Nat
          /\ r.items[r.position + 1] \in Share!File /\ r.items[r.position + 1] # Share!NoItem
          /\ r.items[r.position + 1] \in Nat
      BY <1>1, <1>2 DEF Share!File
    <2>2. y = [r EXCEPT !.position = r.position + 1, !.item = r.items[r.position + 1]]
      BY <1>2 DEF Share!NextDownload
    <2>3. /\ y \in Share!DownloadType /\ y.position = r.position + 1 /\ y.items = r.items
          /\ y.item = r.items[r.position + 1] /\ y.waiting = FALSE /\ y.state = "active"
      BY <1>1, <2>1, <2>2 DEF Share!DownloadType
    <2> HIDE DEF y
    <2>4. \A i \in 1..y.position : i = y.position \/ i \in 1..r.position
      BY <1>1, <2>3
    <2> QED
      BY <1>1, <2>1, <2>3, <2>4 DEF Share!DownloadOK, Share!Through, y
  <1>3. CASE ~(r.position < Len(r.items)) /\ r.position < r.number
    <2>1. y = [r EXCEPT !.item = Share!NoItem, !.waiting = TRUE]
      BY <1>3 DEF Share!NextDownload
    <2> HIDE DEF y
    <2>2. /\ y \in Share!DownloadType /\ y.position = r.position /\ y.items = r.items
          /\ y.item = Share!NoItem /\ y.state = "active"
      BY <2>1 DEF Share!DownloadType, Share!NoItem
    <2> QED
      BY <2>2 DEF Share!DownloadOK, Share!Through, y
  <1>4. CASE ~(r.position < Len(r.items)) /\ ~(r.position < r.number)
    <2>1. y = [r EXCEPT !.item = Share!NoItem, !.state = "complete"]
      BY <1>4 DEF Share!NextDownload
    <2> HIDE DEF y
    <2>2. /\ y \in Share!DownloadType /\ y.position = r.position /\ y.items = r.items
          /\ y.item = Share!NoItem /\ y.state = "complete" /\ y.waiting = FALSE
      BY <2>1 DEF Share!DownloadType, Share!NoItem
    <2>3. r.position = Len(r.items)
      BY <1>1, <1>4
    <2> QED
      BY <2>2, <2>3 DEF Share!DownloadOK, Share!Through, y
  <1> QED
    BY <1>2, <1>3, <1>4

(* More files that are done do no harm; one more to go through neither.      *)
LEMMA ThroughGrows ==
  ASSUME NEW r, NEW less, NEW more, less \subseteq more
  PROVE  /\ Share!UploadOK(r, less) => Share!UploadOK(r, more)
         /\ Share!DownloadOK(r, less) => Share!DownloadOK(r, more)
  BY DEF Share!UploadOK, Share!DownloadOK, Share!Through

LEMMA ThroughAppend ==
  ASSUME NEW r, NEW y, NEW done, NEW f, r.items \in Seq(Share!File), f \in Share!File,
         r.position \in Nat, Share!Through(r, done),
         y.items = Append(r.items, f), y.position = r.position, y.item = r.item,
         y.state = "failed" <=> r.state = "failed"
  PROVE  Share!Through(y, done) /\ y.items \in Seq(Share!File)
  <1>1. /\ Len(y.items) = Len(r.items) + 1 /\ Len(r.items) \in Nat
        /\ \A i \in 1..Len(r.items) : y.items[i] = r.items[i]
        /\ y.items \in Seq(Share!File)
    BY AppendProperties
  <1>2. r.position <= Len(r.items) /\ \A i \in 1..r.position : i \in 1..Len(r.items)
    BY <1>1 DEF Share!Through
  <1> QED
    BY <1>1, <1>2 DEF Share!Through

LEMMA AddFacts ==
  ASSUME NEW S, NEW s \in Seq(S), NEW e \in S
  PROVE  /\ Append(s, e) \in Seq(S) /\ DOMAIN Append(s, e) = 1 .. Len(s) + 1
         /\ \A j \in 1..Len(s) + 1 :
               \/ j \in DOMAIN s /\ Append(s, e)[j] = s[j]
               \/ j = Len(s) + 1 /\ Append(s, e)[j] = e
  OBVIOUS

LEMMA PutFacts ==
  ASSUME NEW S, NEW s \in Seq(S), NEW i \in DOMAIN s, NEW e \in S
  PROVE  /\ [s EXCEPT ![i] = e] \in Seq(S) /\ DOMAIN [s EXCEPT ![i] = e] = DOMAIN s
         /\ [s EXCEPT ![i] = e][i] = e
         /\ \A j \in DOMAIN s : j # i => [s EXCEPT ![i] = e][j] = s[j]
  OBVIOUS

(* A step changes one upload, or one download.                               *)
LEMMA UploadKeeps ==
  ASSUME Share!Inv, NEW u \in DOMAIN uploads, NEW y \in Share!UploadType,
         Share!UploadOK(y, sent'), uploads' = [uploads EXCEPT ![u] = y],
         sent \subseteq sent', sent' \subseteq Share!File, broken' \subseteq Share!File,
         unread' \subseteq Share!File, shared' \in Nat, faults' \in Nat,
         packets' \in Seq(Share!PacketType), UNCHANGED <<downloads, saved>>
  PROVE  Share!Inv'
  <1>1. /\ uploads' \in Seq(Share!UploadType) /\ DOMAIN uploads' = DOMAIN uploads
        /\ uploads'[u] = y /\ \A j \in DOMAIN uploads : j # u => uploads'[j] = uploads[j]
    <2>1. uploads \in Seq(Share!UploadType)
      BY DEF Share!Inv, Share!TypeOK
    <2> QED
      BY <2>1, PutFacts
  <1>2. Share!TypeOK'
    BY <1>1 DEF Share!Inv, Share!TypeOK
  <1>3. ASSUME NEW j \in DOMAIN uploads' PROVE Share!UploadOK(uploads'[j], sent')
    <2>1. CASE j = u
      BY <1>1, <2>1
    <2>2. CASE j # u
      <3>1. uploads'[j] = uploads[j] /\ Share!UploadOK(uploads[j], sent)
        BY <1>1, <1>3, <2>2 DEF Share!Inv
      <3> QED
        BY <3>1, ThroughGrows
    <2> QED
      BY <2>1, <2>2
  <1>4. \A d \in DOMAIN downloads' : Share!DownloadOK(downloads'[d], saved')
    BY DEF Share!Inv
  <1> QED
    BY <1>2, <1>3, <1>4 DEF Share!Inv

LEMMA DownloadKeeps ==
  ASSUME Share!Inv, NEW d \in DOMAIN downloads, NEW y \in Share!DownloadType,
         Share!DownloadOK(y, saved'), downloads' = [downloads EXCEPT ![d] = y],
         saved \subseteq saved', saved' \subseteq Share!File, broken' \subseteq Share!File,
         faults' \in Nat, packets' \in Seq(Share!PacketType),
         UNCHANGED <<uploads, sent, shared, unread>>
  PROVE  Share!Inv'
  <1>1. /\ downloads' \in Seq(Share!DownloadType) /\ DOMAIN downloads' = DOMAIN downloads
        /\ downloads'[d] = y /\ \A j \in DOMAIN downloads : j # d => downloads'[j] = downloads[j]
    <2>1. downloads \in Seq(Share!DownloadType)
      BY DEF Share!Inv, Share!TypeOK
    <2> QED
      BY <2>1, PutFacts
  <1>2. Share!TypeOK'
    BY <1>1 DEF Share!Inv, Share!TypeOK
  <1>3. ASSUME NEW j \in DOMAIN downloads' PROVE Share!DownloadOK(downloads'[j], saved')
    <2>1. CASE j = d
      BY <1>1, <2>1
    <2>2. CASE j # d
      <3>1. downloads'[j] = downloads[j] /\ Share!DownloadOK(downloads[j], saved)
        BY <1>1, <1>3, <2>2 DEF Share!Inv
      <3> QED
        BY <3>1, ThroughGrows
    <2> QED
      BY <2>1, <2>2
  <1>4. \A u \in DOMAIN uploads' : Share!UploadOK(uploads'[u], sent')
    BY DEF Share!Inv
  <1> QED
    BY <1>2, <1>3, <1>4 DEF Share!Inv

LEMMA ShareFacts ==
  ASSUME Share!Inv
  PROVE  /\ shared \in Nat /\ faults \in Nat
         /\ uploads \in Seq(Share!UploadType) /\ downloads \in Seq(Share!DownloadType)
         /\ packets \in Seq(Share!PacketType)
         /\ sent \subseteq Share!File /\ saved \subseteq Share!File
         /\ broken \subseteq Share!File /\ unread \subseteq Share!File
         /\ \A u \in DOMAIN uploads :
               uploads[u] \in Share!UploadType /\ Share!UploadOK(uploads[u], sent)
         /\ \A d \in DOMAIN downloads :
               downloads[d] \in Share!DownloadType /\ Share!DownloadOK(downloads[d], saved)
  BY DEF Share!Inv, Share!TypeOK

LEMMA UploadFileStep ==
  ASSUME Share!Inv, Share!UploadFile
  PROVE  Share!Inv'
  <1> DEFINE f == shared + 1
             with == IF Share!Running(uploads) THEN uploads ELSE Append(uploads, Share!Upload)
             n == Len(with)
  <1>1. /\ uploads' = [with EXCEPT ![n].query = @ \cup {f}] /\ shared' = f
        /\ UNCHANGED <<packets, downloads, sent, saved, broken, faults, unread>>
    BY DEF Share!UploadFile, Share!transferVars
  <1>2. f \in Share!File /\ f \in Nat /\ uploads \in Seq(Share!UploadType)
    BY ShareFacts DEF Share!File, Share!NoItem
  <1> HIDE DEF f
  <1>3. CASE Share!Running(uploads)
    <2> DEFINE r == uploads[n]
               y == [r EXCEPT !.query = r.query \cup {f}]
    <2>1. with = uploads /\ n \in DOMAIN uploads /\ r.state \in {"pending", "active"}
      BY <1>2, <1>3 DEF Share!Running, Share!Last, Last
    <2>2. uploads' = [uploads EXCEPT ![n] = y]
      BY <1>1, <2>1
    <2> HIDE DEF n, with
    <2>3. r \in Share!UploadType /\ Share!UploadOK(r, sent)
      BY <2>1, ShareFacts
    <2>4. /\ y \in Share!UploadType /\ y.state = r.state /\ y.items = r.items
          /\ y.position = r.position /\ y.item = r.item /\ y.idle = r.idle
      BY <1>2, <2>3 DEF Share!UploadType
    <2> HIDE DEF y, r
    <2>5. Share!UploadOK(y, sent')
      BY <1>1, <2>1, <2>3, <2>4 DEF Share!UploadOK, Share!Through
    <2> QED
      BY <1>1, <1>2, <2>1, <2>2, <2>4, <2>5, ShareFacts, UploadKeeps
  <1>4. CASE ~Share!Running(uploads)
    <2> DEFINE y == [Share!Upload EXCEPT !.query = {f}]
    <2>1. /\ Share!Upload \in Share!UploadType /\ y \in Share!UploadType
          /\ Share!UploadOK(y, sent)
      <3>1. Share!Upload \in Share!UploadType
        BY DEF Share!Upload, Share!UploadType, Share!NoItem
      <3>2. /\ y \in Share!UploadType /\ y.items = <<>> /\ y.position = 0
            /\ y.item = Share!NoItem /\ y.idle = FALSE /\ y.state = "pending"
        BY <1>2, <3>1 DEF Share!Upload, Share!UploadType
      <3> HIDE DEF y
      <3> QED
        BY <3>1, <3>2 DEF Share!UploadOK, Share!Through
    <2>2. /\ with = Append(uploads, Share!Upload) /\ n = Len(uploads) + 1
          /\ Len(uploads) \in Nat
      BY <1>2, <1>4
    <2> HIDE DEF with, n
    <2>3. uploads' = Append(uploads, y)
      <3>1. Append(uploads, Share!Upload)[n] = Share!Upload
        BY <1>2, <2>2
      <3>2. [Append(uploads, Share!Upload) EXCEPT ![n] = y] = Append(uploads, y)
        <4> DEFINE s == [Append(uploads, Share!Upload) EXCEPT ![n] = y]
                   t == Append(uploads, y)
        <4> HIDE DEF y
        <4>1. s \in Seq(Share!UploadType) /\ t \in Seq(Share!UploadType) /\ Len(s) = Len(t)
          <5>1. /\ Append(uploads, Share!Upload) \in Seq(Share!UploadType)
                /\ Len(Append(uploads, Share!Upload)) = n
                /\ n \in DOMAIN Append(uploads, Share!Upload)
            BY <1>2, <2>1, <2>2
          <5>2. s \in Seq(Share!UploadType) /\ Len(s) = n
            BY <2>1, <5>1
          <5>3. t \in Seq(Share!UploadType) /\ Len(t) = n
            BY <1>2, <2>1, <2>2
          <5> QED
            BY <5>2, <5>3
        <4>2. ASSUME NEW j \in 1..Len(s) PROVE s[j] = t[j]
          <5>1. Len(s) = n /\ DOMAIN Append(uploads, Share!Upload) = 1..n
            BY <1>2, <2>1, <2>2, <4>1
          <5>2. CASE j = n
            BY <1>2, <2>1, <2>2, <5>1, <5>2
          <5>3. CASE j # n
            <6>1. j \in 1..n
              BY <5>1
            <6>2. j \in 1..Len(uploads)
              BY <2>2, <5>3, <6>1
            <6>3. s[j] = Append(uploads, Share!Upload)[j]
              BY <5>1, <5>3, <6>1
            <6> QED
              BY <1>2, <2>1, <6>2, <6>3
          <5> QED
            BY <5>2, <5>3
        <4> QED
          BY <4>1, <4>2, SeqEqual
      <3>3. Share!Upload.query = {}
        BY DEF Share!Upload
      <3>4. uploads' = [Append(uploads, Share!Upload) EXCEPT ![n] = y]
        BY <1>1, <2>2, <3>1, <3>3
      <3> QED
        BY <3>2, <3>4
    <2> HIDE DEF y
    <2>4. /\ uploads' \in Seq(Share!UploadType)
          /\ \A u \in DOMAIN uploads' : Share!UploadOK(uploads'[u], sent')
      <3>1. /\ uploads' \in Seq(Share!UploadType)
            /\ \A u \in DOMAIN uploads' : \/ u \in DOMAIN uploads /\ uploads'[u] = uploads[u]
                                         \/ uploads'[u] = y
        BY <1>2, <2>1, <2>3, AddFacts
      <3>2. \A u \in DOMAIN uploads : Share!UploadOK(uploads[u], sent)
        BY ShareFacts
      <3> QED
        BY <1>1, <2>1, <3>1, <3>2
    <2>5. Share!TypeOK'
      BY <1>1, <1>2, <2>4 DEF Share!Inv, Share!TypeOK
    <2>6. \A d \in DOMAIN downloads' : Share!DownloadOK(downloads'[d], saved')
      BY <1>1, ShareFacts
    <2> QED
      BY <2>4, <2>5, <2>6 DEF Share!Inv
  <1> QED
    BY <1>3, <1>4

LEMMA QueryInfoStep ==
  ASSUME Share!Inv, NEW u \in DOMAIN uploads, Share!QueryInfo(u)
  PROVE  Share!Inv'
  <1> DEFINE r == uploads[u]
  <1>1. r \in Share!UploadType /\ Share!UploadOK(r, sent)
    BY ShareFacts
  <1>2. PICK f \in r.query :
      \/ /\ uploads' = [uploads EXCEPT ![u].query = @ \ {f}, ![u].items = Append(@, f),
                                       ![u].state = IF @ = "pending" THEN "active" ELSE @,
                                       ![u].idle = @ \/ uploads[u].state = "pending"]
         /\ packets' = Append(packets, [kind |-> "update", number |-> Len(uploads[u].items) + 1])
         /\ UNCHANGED <<shared, downloads, sent, saved, broken, faults, unread>>
      \/ /\ uploads' = [uploads EXCEPT ![u].query = @ \ {f}]
         /\ unread' = unread \cup {f}
         /\ UNCHANGED <<shared, packets, downloads, sent, saved, broken, faults>>
    BY DEF Share!QueryInfo, Share!transferVars
  <1>3. f \in Share!File /\ r.state # "complete"
    BY <1>1 DEF Share!UploadType, Share!UploadOK
  <1>4. CASE /\ uploads' = [uploads EXCEPT ![u].query = @ \ {f}]
             /\ unread' = unread \cup {f}
             /\ UNCHANGED <<shared, packets, downloads, sent, saved, broken, faults>>
    <2> DEFINE y == [r EXCEPT !.query = r.query \ {f}]
    <2>1. uploads' = [uploads EXCEPT ![u] = y]
      BY <1>4
    <2>2. /\ y \in Share!UploadType /\ y.state = r.state /\ y.items = r.items
          /\ y.position = r.position /\ y.item = r.item /\ y.idle = r.idle
      BY <1>1 DEF Share!UploadType
    <2> HIDE DEF y, r
    <2>3. Share!UploadOK(y, sent')
      BY <1>1, <1>3, <1>4, <2>2 DEF Share!UploadOK, Share!Through
    <2>4. unread' \subseteq Share!File
      BY <1>3, <1>4, ShareFacts
    <2> QED
      BY <1>4, <2>1, <2>2, <2>3, <2>4, ShareFacts, UploadKeeps
  <1>5. CASE /\ uploads' = [uploads EXCEPT ![u].query = @ \ {f}, ![u].items = Append(@, f),
                                           ![u].state = IF @ = "pending" THEN "active" ELSE @,
                                           ![u].idle = @ \/ uploads[u].state = "pending"]
             /\ packets' = Append(packets,
                                  [kind |-> "update", number |-> Len(uploads[u].items) + 1])
             /\ UNCHANGED <<shared, downloads, sent, saved, broken, faults, unread>>
    <2> DEFINE y == [r EXCEPT !.query = r.query \ {f}, !.items = Append(r.items, f),
                              !.state = IF r.state = "pending" THEN "active" ELSE r.state,
                              !.idle = r.idle \/ r.state = "pending"]
    <2>1. uploads' = [uploads EXCEPT ![u] = y]
      BY <1>5
    <2>2. Append(r.items, f) \in Seq(Share!File) /\ r.items \in Seq(Share!File)
          /\ r.position \in Nat /\ Len(r.items) \in Nat
      BY <1>1, <1>3 DEF Share!UploadType
    <2>3. /\ y \in Share!UploadType /\ y.items = Append(r.items, f)
          /\ y.state = IF r.state = "pending" THEN "active" ELSE r.state
          /\ y.idle = (r.idle \/ r.state = "pending")
          /\ y.position = r.position /\ y.item = r.item
      BY <1>1, <2>2 DEF Share!UploadType
    <2> HIDE DEF y
    <2>4. Share!UploadOK(y, sent')
      <3>1. Share!Through(y, sent)
        BY <1>1, <1>3, <2>2, <2>3, ThroughAppend DEF Share!UploadOK
      <3> QED
        BY <1>1, <1>3, <1>5, <2>3, <3>1 DEF Share!UploadOK
    <2>5. packets' \in Seq(Share!PacketType)
      <3>1. [kind |-> "update", number |-> Len(r.items) + 1] \in Share!PacketType
        BY <2>2 DEF Share!PacketType
      <3> QED
        BY <1>5, <3>1, ShareFacts
    <2> QED
      BY <1>5, <2>1, <2>3, <2>4, <2>5, ShareFacts, UploadKeeps
  <1> QED
    BY <1>2, <1>4, <1>5

LEMMA UploadStep ==
  ASSUME Share!Inv, NEW u \in DOMAIN uploads,
         \/ Share!UploadIdle(u) \/ Share!ItemOffered(u)
         \/ Share!ItemSent(u) \/ Share!UploadFails(u)
  PROVE  Share!Inv'
  <1> DEFINE r == uploads[u]
  <1>1. r \in Share!UploadType /\ Share!UploadOK(r, sent)
    BY ShareFacts
  <1>2. /\ r.item \in Nat /\ r.items \in Seq(Share!File) /\ r.position \in Nat
        /\ r.position <= Len(r.items) /\ r.number \in Nat
    BY <1>1 DEF Share!UploadType, Share!UploadOK, Share!Through
  <1>3. CASE Share!UploadIdle(u)
    <2>1. /\ r.idle /\ uploads' = [uploads EXCEPT ![u] = Share!NextUpload(r)]
          /\ UNCHANGED <<shared, packets, downloads, sent, saved, broken, faults, unread>>
      BY <1>3 DEF Share!UploadIdle, Share!transferVars
    <2> HIDE DEF r
    <2>2. r.state = "active" /\ \A i \in 1..r.position : r.items[i] \in sent
      BY <1>1, <2>1 DEF Share!UploadOK, Share!Through
    <2>3. /\ Share!NextUpload(r) \in Share!UploadType
          /\ Share!UploadOK(Share!NextUpload(r), sent')
      BY <1>1, <1>2, <2>1, <2>2, UploadNext
    <2> QED
      BY <2>1, <2>3, ShareFacts, UploadKeeps
  <1>4. CASE Share!ItemOffered(u)
    <2> DEFINE y == [r EXCEPT !.offered = TRUE]
    <2>1. /\ r.item # Share!NoItem /\ uploads' = [uploads EXCEPT ![u] = y]
          /\ packets' = Append(packets, [kind |-> "file", file |-> r.item, number |-> r.number])
          /\ UNCHANGED <<shared, downloads, sent, saved, broken, faults, unread>>
      BY <1>4 DEF Share!ItemOffered, Share!transferVars
    <2>2. /\ y \in Share!UploadType /\ y.items = r.items /\ y.position = r.position
          /\ y.item = r.item /\ y.idle = r.idle /\ y.state = r.state /\ y.query = r.query
      BY <1>1 DEF Share!UploadType
    <2> HIDE DEF y, r
    <2>3. Share!UploadOK(y, sent')
      BY <1>1, <2>1, <2>2 DEF Share!UploadOK, Share!Through
    <2>4. packets' \in Seq(Share!PacketType)
      <3>1. [kind |-> "file", file |-> r.item, number |-> r.number] \in Share!PacketType
        BY <1>2, <2>1 DEF Share!PacketType, Share!File
      <3> QED
        BY <2>1, <3>1, ShareFacts
    <2> QED
      BY <2>1, <2>2, <2>3, <2>4, ShareFacts, UploadKeeps
  <1>5. CASE Share!ItemSent(u)
    <2>1. /\ r.item # Share!NoItem /\ sent' = sent \cup {r.item}
          /\ uploads' = [uploads EXCEPT ![u] = Share!NextUpload(r)]
          /\ UNCHANGED <<shared, unread, packets, downloads, saved, broken, faults>>
      BY <1>5 DEF Share!ItemSent
    <2> HIDE DEF r
    <2>2. r.state = "active" /\ \A i \in 1..r.position : r.items[i] \in sent'
      BY <1>1, <2>1 DEF Share!UploadOK, Share!Through
    <2>3. /\ Share!NextUpload(r) \in Share!UploadType
          /\ Share!UploadOK(Share!NextUpload(r), sent')
      BY <1>1, <1>2, <2>2, UploadNext
    <2>4. sent \subseteq sent' /\ sent' \subseteq Share!File
      BY <1>2, <2>1, ShareFacts DEF Share!File
    <2> QED
      BY <2>1, <2>3, <2>4, ShareFacts, UploadKeeps
  <1>6. CASE Share!UploadFails(u)
    <2> DEFINE y == [r EXCEPT !.state = "failed", !.item = Share!NoItem, !.idle = FALSE]
    <2>1. /\ uploads' = [uploads EXCEPT ![u] = y]
          /\ broken' = broken \cup ({r.item} \ {Share!NoItem})
          /\ faults' = IF r.item \in broken THEN faults ELSE faults + 1
          /\ UNCHANGED <<shared, unread, packets, downloads, sent, saved>>
      BY <1>6 DEF Share!UploadFails, Share!Fault
    <2>2. /\ y \in Share!UploadType /\ y.items = r.items /\ y.position = r.position
          /\ y.item = Share!NoItem /\ y.idle = FALSE /\ y.state = "failed"
      BY <1>1 DEF Share!UploadType, Share!NoItem
    <2> HIDE DEF y, r
    <2>3. Share!UploadOK(y, sent')
      BY <1>2, <2>2 DEF Share!UploadOK, Share!Through
    <2>4. broken' \subseteq Share!File /\ faults' \in Nat
      BY <1>2, <2>1, ShareFacts DEF Share!File
    <2> QED
      BY <2>1, <2>2, <2>3, <2>4, ShareFacts, UploadKeeps
  <1> QED
    BY <1>3, <1>4, <1>5, <1>6

LEMMA HandleStep ==
  ASSUME Share!Inv, Share!HandleFile \/ Share!HandleFileUpdate
  PROVE  Share!Inv'
  <1> DEFINE p == Head(packets)
             n == Len(downloads)
             r == downloads[n]
  <1>1. /\ packets # <<>> /\ packets' = Tail(packets)
        /\ UNCHANGED <<shared, uploads, unread, sent, saved, broken, faults>>
    BY DEF Share!HandleFile, Share!HandleFileUpdate, Share!uploadVars, Share!transferVars
  <1>2. /\ p \in Share!PacketType /\ packets' \in Seq(Share!PacketType)
        /\ p.number \in Nat
        /\ p.kind = "file" => p.file \in Share!File
    <2>1. p \in Share!PacketType /\ packets' \in Seq(Share!PacketType)
      BY <1>1, ShareFacts
    <2> HIDE DEF p
    <2> QED
      BY <2>1 DEF Share!PacketType
  <1>3. downloads \in Seq(Share!DownloadType)
    BY ShareFacts
  <1> HIDE DEF p
  <1>4. ASSUME Share!Running(downloads)
        PROVE  /\ n \in DOMAIN downloads /\ r \in Share!DownloadType
               /\ Share!DownloadOK(r, saved) /\ r.state = "active"
               /\ r.items \in Seq(Share!File) /\ r.position \in Nat
    <2>1. n \in DOMAIN downloads /\ r.state \in {"pending", "active"}
      BY <1>3, <1>4 DEF Share!Running, Share!Last, Last
    <2> HIDE DEF n
    <2>2. r \in Share!DownloadType /\ Share!DownloadOK(r, saved)
      BY <2>1, ShareFacts
    <2> HIDE DEF r
    <2> QED
      BY <2>1, <2>2 DEF Share!DownloadType
  <1>5. CASE Share!HandleFile /\ Share!Running(downloads)
    <2> DEFINE y == [r EXCEPT !.items = Append(r.items, p.file), !.number = p.number]
    <2>1. p.kind = "file" /\ downloads' = [downloads EXCEPT ![n] = y]
      BY <1>5 DEF Share!HandleFile, Share!AddFile, p
    <2> HIDE DEF r, n
    <2>2. Append(r.items, p.file) \in Seq(Share!File)
      BY <1>2, <1>4, <1>5, <2>1
    <2>3. /\ y \in Share!DownloadType /\ y.items = Append(r.items, p.file)
          /\ y.position = r.position /\ y.item = r.item /\ y.waiting = r.waiting
          /\ y.state = r.state
      BY <1>2, <1>4, <1>5, <2>2 DEF Share!DownloadType
    <2> HIDE DEF y
    <2>4. Share!Through(y, saved')
      BY <1>1, <1>2, <1>4, <1>5, <2>1, <2>3, ThroughAppend DEF Share!DownloadOK
    <2>5. Share!DownloadOK(y, saved')
      BY <1>4, <1>5, <2>3, <2>4 DEF Share!DownloadOK
    <2> QED
      BY <1>1, <1>2, <1>4, <1>5, <2>1, <2>3, <2>5, ShareFacts, DownloadKeeps
  <1>6. CASE Share!HandleFileUpdate /\ Share!Running(downloads)
    <2> DEFINE y == [r EXCEPT !.number = p.number]
    <2>1. downloads' = [downloads EXCEPT ![n] = y]
      BY <1>6 DEF Share!HandleFileUpdate, Share!Update, p
    <2> HIDE DEF r, n
    <2>2. /\ y \in Share!DownloadType /\ y.items = r.items
          /\ y.position = r.position /\ y.item = r.item /\ y.waiting = r.waiting
          /\ y.state = r.state
      BY <1>2, <1>4, <1>6 DEF Share!DownloadType
    <2> HIDE DEF y
    <2>3. Share!DownloadOK(y, saved')
      BY <1>1, <1>4, <1>6, <2>2 DEF Share!DownloadOK, Share!Through
    <2> QED
      BY <1>1, <1>2, <1>4, <1>6, <2>1, <2>2, <2>3, ShareFacts, DownloadKeeps
  <1>7. CASE Share!HandleFileUpdate /\ ~Share!Running(downloads)
    BY <1>1, <1>2, <1>7 DEF Share!HandleFileUpdate, Share!Inv, Share!TypeOK
  <1>8. CASE Share!HandleFile /\ ~Share!Running(downloads)
    <2> DEFINE x == Share!AddFile(Share!Download, p)
               y == Share!NextDownload(x)
    <2>1. p.kind = "file" /\ downloads' = Append(downloads, y)
      BY <1>8 DEF Share!HandleFile, p
    <2>2. /\ x \in Share!DownloadType /\ x.items = <<p.file>> /\ x.position = 0
          /\ x.state = "active" /\ x.waiting = FALSE
      <3>1. Append(<<>>, p.file) \in Seq(Share!File) /\ Append(<<>>, p.file) = <<p.file>>
        BY <1>2, <2>1
      <3> QED
        BY <1>2, <3>1 DEF Share!AddFile, Share!Download, Share!DownloadType, Share!NoItem
    <2> HIDE DEF x
    <2>3. y \in Share!DownloadType /\ Share!DownloadOK(y, saved)
      <3>1. x.position <= Len(x.items) /\ \A i \in 1..x.position : x.items[i] \in saved
        BY <2>2
      <3> QED
        BY <2>2, <3>1, DownloadNext
    <2> HIDE DEF y
    <2>4. /\ downloads' \in Seq(Share!DownloadType)
          /\ \A d \in DOMAIN downloads' : \/ d \in DOMAIN downloads /\ downloads'[d] = downloads[d]
                                          \/ downloads'[d] = y
      BY <1>3, <2>1, <2>3, AddFacts
    <2>5. \A d \in DOMAIN downloads' : Share!DownloadOK(downloads'[d], saved')
      BY <1>1, <2>3, <2>4, ShareFacts
    <2>6. Share!TypeOK'
      BY <1>1, <1>2, <2>4 DEF Share!Inv, Share!TypeOK
    <2>7. \A u \in DOMAIN uploads' : Share!UploadOK(uploads'[u], sent')
      BY <1>1, ShareFacts
    <2> QED
      BY <2>5, <2>6, <2>7 DEF Share!Inv
  <1> QED
    BY <1>5, <1>6, <1>7, <1>8

LEMMA DownloadStep ==
  ASSUME Share!Inv, NEW d \in DOMAIN downloads,
         \/ Share!ItemSaved(d) \/ Share!Timeout(d)
         \/ Share!DownloadFails(d) \/ Share!CancelWaiting(d)
  PROVE  Share!Inv'
  <1> DEFINE r == downloads[d]
  <1>1. r \in Share!DownloadType /\ Share!DownloadOK(r, saved)
    BY ShareFacts
  <1>2. /\ r.item \in Nat /\ r.items \in Seq(Share!File) /\ r.position \in Nat
        /\ r.position <= Len(r.items) /\ r.number \in Nat /\ Len(r.items) \in Nat
        /\ r.waiting \in BOOLEAN
    BY <1>1 DEF Share!DownloadType, Share!DownloadOK, Share!Through
  <1>3. CASE Share!ItemSaved(d)
    <2>1. /\ r.item \in sent /\ saved' = saved \cup {r.item}
          /\ downloads' = [downloads EXCEPT ![d] = Share!NextDownload(r)]
          /\ UNCHANGED <<shared, uploads, unread, packets, sent, broken, faults>>
      BY <1>3 DEF Share!ItemSaved, Share!uploadVars
    <2> HIDE DEF r
    <2>2. r.item \in Share!File /\ r.item # Share!NoItem
      BY <2>1, ShareFacts DEF Share!File
    <2>3. /\ r.state = "active" /\ r.waiting = FALSE
          /\ \A i \in 1..r.position : r.items[i] \in saved'
      BY <1>1, <1>2, <2>1, <2>2 DEF Share!DownloadOK, Share!Through
    <2>4. /\ Share!NextDownload(r) \in Share!DownloadType
          /\ Share!DownloadOK(Share!NextDownload(r), saved')
      BY <1>1, <1>2, <2>3, DownloadNext
    <2>5. saved \subseteq saved' /\ saved' \subseteq Share!File
      BY <2>1, <2>2, ShareFacts
    <2> QED
      BY <2>1, <2>4, <2>5, ShareFacts, DownloadKeeps
  <1>4. CASE Share!DownloadFails(d)
    <2> DEFINE y == [r EXCEPT !.state = "failed", !.item = Share!NoItem]
    <2>1. /\ r.item # Share!NoItem /\ downloads' = [downloads EXCEPT ![d] = y]
          /\ broken' = broken \cup ({r.item} \ {Share!NoItem})
          /\ faults' = IF r.item \in broken THEN faults ELSE faults + 1
          /\ UNCHANGED <<shared, uploads, unread, packets, sent, saved>>
      BY <1>4 DEF Share!DownloadFails, Share!Fault, Share!uploadVars
    <2>2. /\ y \in Share!DownloadType /\ y.items = r.items /\ y.position = r.position
          /\ y.item = Share!NoItem /\ y.waiting = r.waiting /\ y.state = "failed"
      BY <1>1 DEF Share!DownloadType, Share!NoItem
    <2> HIDE DEF y, r
    <2>3. r.waiting = FALSE
      BY <1>1, <1>2, <2>1 DEF Share!DownloadOK
    <2>4. Share!DownloadOK(y, saved')
      BY <1>2, <2>2, <2>3 DEF Share!DownloadOK, Share!Through
    <2>5. broken' \subseteq Share!File /\ faults' \in Nat
      BY <1>2, <2>1, ShareFacts DEF Share!File
    <2> QED
      BY <2>1, <2>2, <2>4, <2>5, ShareFacts, DownloadKeeps
  <1>5. CASE Share!CancelWaiting(d)
    <2> DEFINE y == [r EXCEPT !.cancelled = TRUE]
    <2>1. /\ downloads' = [downloads EXCEPT ![d] = y]
          /\ broken' = broken \cup ({Share!NoItem} \ {Share!NoItem})
          /\ faults' = IF Share!NoItem \in broken THEN faults ELSE faults + 1
          /\ UNCHANGED <<shared, uploads, unread, packets, sent, saved>>
      BY <1>5 DEF Share!CancelWaiting, Share!Fault, Share!uploadVars
    <2>2. /\ y \in Share!DownloadType /\ y.items = r.items /\ y.position = r.position
          /\ y.item = r.item /\ y.waiting = r.waiting /\ y.state = r.state
      BY <1>1 DEF Share!DownloadType
    <2> HIDE DEF y, r
    <2>3. Share!DownloadOK(y, saved')
      BY <1>1, <2>1, <2>2 DEF Share!DownloadOK, Share!Through
    <2>4. broken' \subseteq Share!File /\ faults' \in Nat
      BY <2>1, ShareFacts
    <2> QED
      BY <2>1, <2>2, <2>3, <2>4, ShareFacts, DownloadKeeps
  <1>6. CASE Share!Timeout(d)
    <2>1. /\ r.waiting
          /\ downloads' = [downloads EXCEPT ![d] =
               IF r.cancelled THEN [r EXCEPT !.waiting = FALSE, !.state = "failed"]
               ELSE IF r.position < Len(r.items)
                 THEN [Share!NextDownload(r) EXCEPT !.waiting = FALSE]
               ELSE IF r.position < r.number
                 THEN [r EXCEPT !.waiting = FALSE, !.state = "failed"]
               ELSE [r EXCEPT !.waiting = FALSE]]
          /\ UNCHANGED <<shared, uploads, unread, packets, sent, saved, broken, faults>>
      BY <1>6 DEF Share!Timeout, Share!uploadVars, Share!transferVars
    <2> HIDE DEF r
    <2>2. /\ r.item = Share!NoItem /\ r.state = "active"
          /\ \A i \in 1..r.position : r.items[i] \in saved'
      BY <1>1, <2>1 DEF Share!DownloadOK, Share!Through
    <2>3. ASSUME NEW y \in Share!DownloadType, Share!DownloadOK(y, saved'),
                 downloads' = [downloads EXCEPT ![d] = y]
          PROVE  Share!Inv'
      BY <2>1, <2>3, ShareFacts, DownloadKeeps
    <2>4. ASSUME NEW s \in {"active", "failed"}
          PROVE  LET y == [r EXCEPT !.waiting = FALSE, !.state = s]
                 IN  y \in Share!DownloadType /\ Share!DownloadOK(y, saved')
      <3> DEFINE y == [r EXCEPT !.waiting = FALSE, !.state = s]
      <3>1. /\ y \in Share!DownloadType /\ y.items = r.items /\ y.position = r.position
            /\ y.item = r.item /\ y.waiting = FALSE /\ y.state = s
        BY <1>1 DEF Share!DownloadType
      <3> HIDE DEF y
      <3>2. Share!DownloadOK(y, saved')
        BY <1>2, <2>2, <2>4, <3>1 DEF Share!DownloadOK, Share!Through
      <3> QED
        BY <3>1, <3>2 DEF y
    <2> DEFINE idle == [r EXCEPT !.waiting = FALSE]
               next == [Share!NextDownload(r) EXCEPT !.waiting = FALSE]
    <2>5. idle = [r EXCEPT !.waiting = FALSE, !.state = "active"]
      BY <1>1, <2>2 DEF Share!DownloadType
    <2>6. idle \in Share!DownloadType /\ Share!DownloadOK(idle, saved')
      BY <2>4, <2>5
    <2>7. CASE ~r.cancelled /\ r.position < Len(r.items)
      <3>1. next = Share!NextDownload(idle)
        BY <1>1, <2>7 DEF Share!NextDownload, Share!DownloadType
      <3>2. /\ idle.state = "active" /\ idle.waiting = FALSE
            /\ idle.position = r.position /\ idle.items = r.items
        BY <1>1, <2>2 DEF Share!DownloadType
      <3> HIDE DEF idle
      <3>3. /\ Share!NextDownload(idle) \in Share!DownloadType
            /\ Share!DownloadOK(Share!NextDownload(idle), saved')
        BY <1>2, <2>2, <2>6, <3>2, DownloadNext
      <3>4. downloads' = [downloads EXCEPT ![d] = next]
        BY <2>1, <2>7
      <3> QED
        BY <2>3, <3>1, <3>3, <3>4
    <2>8. CASE r.cancelled \/ (~(r.position < Len(r.items)) /\ r.position < r.number)
      <3>1. downloads' = [downloads EXCEPT ![d] = [r EXCEPT !.waiting = FALSE, !.state = "failed"]]
        BY <2>1, <2>8
      <3> QED
        BY <2>3, <2>4, <3>1
    <2>9. CASE ~r.cancelled /\ ~(r.position < Len(r.items)) /\ ~(r.position < r.number)
      <3>1. downloads' = [downloads EXCEPT ![d] = idle]
        BY <2>1, <2>9
      <3> QED
        BY <2>3, <2>6, <3>1
    <2> QED
      BY <2>7, <2>8, <2>9
  <1> QED
    BY <1>3, <1>4, <1>5, <1>6

LEMMA ShareInit == Share!Init => Share!Inv
  <1> SUFFICES ASSUME Share!Init PROVE Share!Inv
    OBVIOUS
  <1>1. Share!TypeOK
    BY DEF Share!Init, Share!TypeOK
  <1> QED
    BY <1>1 DEF Share!Init, Share!Inv

LEMMA ShareNext == Share!Inv /\ [Share!Next]_(Share!vars) => Share!Inv'
  <1> SUFFICES ASSUME Share!Inv, [Share!Next]_(Share!vars) PROVE Share!Inv'
    OBVIOUS
  <1>1. CASE UNCHANGED Share!vars
    BY <1>1 DEF Share!vars, Share!uploadVars, Share!transferVars, Share!Inv, Share!TypeOK
  <1> QED
    BY <1>1, UploadFileStep, QueryInfoStep, UploadStep, HandleStep, DownloadStep
       DEF Share!Next, Share!Steps, Share!Faults

(* A transfer that is complete went through all of its files.                *)
LEMMA CompleteFollows == Share!Inv => Share!CompleteIsWhole
  <1> SUFFICES ASSUME Share!Inv PROVE Share!CompleteIsWhole
    OBVIOUS
  <1>1. ASSUME NEW u \in DOMAIN uploads, uploads[u].state = "complete"
        PROVE  Share!ToSet(uploads[u].items) \subseteq sent
    <2> DEFINE r == uploads[u]
    <2>1. r \in Share!UploadType /\ Share!UploadOK(r, sent)
      BY ShareFacts
    <2> HIDE DEF r
    <2>2. /\ r.items \in Seq(Share!File) /\ r.state = "complete"
          /\ \A i \in DOMAIN r.items : r.items[i] \in sent
      BY <1>1, <2>1 DEF Share!UploadType, Share!UploadOK, Share!Through, r
    <2> QED
      BY <2>2 DEF Share!ToSet, r
  <1>2. ASSUME NEW d \in DOMAIN downloads, downloads[d].state = "complete"
        PROVE  Share!ToSet(downloads[d].items) \subseteq saved
    <2> DEFINE r == downloads[d]
    <2>1. r \in Share!DownloadType /\ Share!DownloadOK(r, saved)
      BY ShareFacts
    <2> HIDE DEF r
    <2>2. /\ r.items \in Seq(Share!File) /\ r.state = "complete"
          /\ \A i \in DOMAIN r.items : r.items[i] \in saved
      BY <1>2, <2>1 DEF Share!DownloadType, Share!DownloadOK, Share!Through, r
    <2> QED
      BY <2>2 DEF Share!ToSet, r
  <1> QED
    BY <1>1, <1>2 DEF Share!CompleteIsWhole

(* Returning an error never makes a task that succeeded.                    *)
LEMMA ReturnError ==
    ASSUME Transfer!Return("error"), Transfer!OkIsWhole, copy' = copy
    PROVE  Transfer!OkIsWhole'
  BY DEF Transfer!Return, Transfer!OkIsWhole

(* Connecting starts both halves, or neither, but copies nothing.           *)
LEMMA TransferConnects ==
    ASSUME Transfer!Inv, file # "open", Transfer!Connect, copy' = copy,
           state' = "active" \/ (state' = state /\ state # "pending")
    PROVE  Transfer!Inv'
  <1>1. copy = "none" /\ copy' = "none"
    BY DEF Transfer!Inv, Transfer!HalvesMeet
  <1>2. file' \in {"none", "opening"}
    BY DEF Transfer!Connect
  <1>3. Transfer!HalvesMeet' /\ Transfer!NotBefore'
    BY <1>1, <1>2 DEF Transfer!HalvesMeet, Transfer!NotBefore
  <1>4. Transfer!OkIsWhole'
    BY ReturnError DEF Transfer!Connect, Transfer!Inv, Transfer!OkIsWhole
  <1>5. Transfer!CompleteIsWhole'
    BY <1>1 DEF Transfer!Inv, Transfer!CompleteIsWhole
  <1> QED
    BY <1>3, <1>4, <1>5 DEF Transfer!Inv

LEMMA TransferInit == Transfer!Init => Transfer!Inv
  BY DEF Transfer!Init, Transfer!Inv, Transfer!HalvesMeet, Transfer!NotBefore,
      Transfer!OkIsWhole, Transfer!CompleteIsWhole

(* One step for each action: what it does to the halves, and what its task  *)
(* returns.                                                                 *)
LEMMA TransferNext == Transfer!Inv /\ [Transfer!Next]_(Transfer!vars) => Transfer!Inv'
  <1> SUFFICES ASSUME Transfer!Inv, [Transfer!Next]_(Transfer!vars)
               PROVE  Transfer!Inv'
    OBVIOUS
  <1> USE DEF Transfer!Inv
  <1>1. CASE Transfer!Execute
    <2>1. state = "pending" /\ file = "none" /\ state' = "active" /\ copy' = copy
      BY <1>1 DEF Transfer!Execute, Transfer!NotBefore
    <2>2. CASE download
      <3>1. Transfer!Connect
        BY <1>1, <2>2 DEF Transfer!Execute
      <3>2. file # "open"
        BY <2>1
      <3> QED
        BY <2>1, <3>1, <3>2, TransferConnects
    <2>3. CASE ~download
      BY <1>1, <2>1, <2>3
         DEF Transfer!Execute, Transfer!HalvesMeet, Transfer!NotBefore, Transfer!OkIsWhole,
             Transfer!CompleteIsWhole
    <2> QED
      BY <2>2, <2>3
  <1>2. CASE Transfer!QueryInfo
    <2>1. file = "query" /\ state' = state /\ copy' = copy /\ state # "pending"
      BY <1>2 DEF Transfer!QueryInfo, Transfer!NotBefore
    <2>2. CASE Transfer!Connect
      BY <2>1, <2>2, TransferConnects
    <2>3. CASE Transfer!Return("error") /\ file' = "failed"
      <3>1. Transfer!OkIsWhole'
        BY <2>1, <2>3, ReturnError
      <3> QED
        BY <2>1, <2>3, <3>1 DEF Transfer!HalvesMeet, Transfer!NotBefore, Transfer!CompleteIsWhole
    <2> QED
      BY <1>2, <2>2, <2>3 DEF Transfer!QueryInfo
  <1>3. CASE Transfer!FileOpens
    BY <1>3
       DEF Transfer!FileOpens, Transfer!HalvesMeet, Transfer!NotBefore, Transfer!OkIsWhole,
           Transfer!CompleteIsWhole
  <1>4. CASE Transfer!FileFails
    <2>1. Transfer!OkIsWhole'
      BY <1>4, ReturnError DEF Transfer!FileFails
    <2> QED
      BY <1>4, <2>1
         DEF Transfer!FileFails, Transfer!user, Transfer!HalvesMeet, Transfer!NotBefore,
             Transfer!CompleteIsWhole
  <1>5. CASE Transfer!Connects
    BY <1>5
       DEF Transfer!Connects, Transfer!HalvesMeet, Transfer!NotBefore, Transfer!OkIsWhole,
           Transfer!CompleteIsWhole
  <1>6. CASE Transfer!ConnectFails
    <2>1. Transfer!OkIsWhole'
      BY <1>6, ReturnError DEF Transfer!ConnectFails, Transfer!OkIsWhole
    <2>2. UNCHANGED <<state, file, copy>> /\ conn = "trying" /\ conn' # "up"
      BY <1>6 DEF Transfer!ConnectFails
    <2> QED
      BY <2>1, <2>2 DEF Transfer!HalvesMeet, Transfer!NotBefore, Transfer!CompleteIsWhole
  <1>7. CASE Transfer!CopyEnds
    <2>1. copy = "running" /\ UNCHANGED <<state, conn, file>>
      BY <1>7 DEF Transfer!CopyEnds
    <2>2. returned # "ok" /\ state # "complete"
      BY <2>1 DEF Transfer!OkIsWhole, Transfer!CompleteIsWhole
    <2>3. copy' # "none" /\ Transfer!OkIsWhole'
      BY <1>7, <2>2 DEF Transfer!CopyEnds, Transfer!Return, Transfer!OkIsWhole
    <2> QED
      BY <2>1, <2>2, <2>3 DEF Transfer!HalvesMeet, Transfer!NotBefore, Transfer!CompleteIsWhole
  <1>8. CASE Transfer!ExecuteCallback
    BY <1>8
       DEF Transfer!ExecuteCallback, Transfer!HalvesMeet, Transfer!NotBefore,
           Transfer!OkIsWhole, Transfer!CompleteIsWhole
  <1>9. CASE Transfer!Cancel \/ Transfer!LoseChannel \/ UNCHANGED Transfer!vars
    BY <1>9
       DEF Transfer!Cancel, Transfer!LoseChannel, Transfer!vars, Transfer!HalvesMeet,
           Transfer!NotBefore, Transfer!OkIsWhole,
                Transfer!CompleteIsWhole
  <1> QED
    BY <1>1, <1>2, <1>3, <1>4, <1>5, <1>6, <1>7, <1>8, <1>9 DEF Transfer!Next

(* Clipboard.  What a queue holds, when something is appended or taken.      *)
LEMMA QueueFacts ==
  ASSUME NEW S, NEW s \in Seq(S), NEW x \in S
  PROVE  /\ Append(s, x) \in Seq(S) /\ Append(s, x) # <<>>
         /\ s \o <<x>> \in Seq(S) /\ s \o <<>> = s
         /\ Clipboard!ToSet(Append(s, x)) = Clipboard!ToSet(s) \cup {x}
         /\ Clipboard!ToSet(s \o <<x>>) = Clipboard!ToSet(s) \cup {x}
  <1>1. Append(s, x) = s \o <<x>> /\ s \o <<>> = s /\ Append(s, x) # <<>>
    OBVIOUS
  <1>2. <<x>> \in Seq(S) /\ ToSet(<<x>>) = {x}
    BY OneFacts
  <1>3. s \o <<x>> \in Seq(S) /\ ToSet(s \o <<x>>) = ToSet(s) \cup {x}
    BY <1>2, JoinFacts
  <1> QED
    BY <1>1, <1>3 DEF ToSet, Clipboard!ToSet

LEMMA FirstFacts ==
  ASSUME NEW S, NEW s \in Seq(S), s # <<>>
  PROVE  /\ Head(s) \in S /\ Tail(s) \in Seq(S)
         /\ Clipboard!ToSet(s) = {Head(s)} \cup Clipboard!ToSet(Tail(s))
  <1>1. ToSet(s) = {Head(s)} \cup ToSet(Tail(s))
    <2>1. Head(s) \in S /\ Tail(s) \in Seq(S) /\ s = <<Head(s)>> \o Tail(s)
      BY HeadFacts
    <2>2. <<Head(s)>> \in Seq(S) /\ ToSet(<<Head(s)>>) = {Head(s)}
      BY <2>1, OneFacts
    <2>3. ToSet(<<Head(s)>> \o Tail(s)) = ToSet(<<Head(s)>>) \cup ToSet(Tail(s))
      BY <2>1, <2>2, JoinFacts
    <2> QED
      BY <2>1, <2>2, <2>3
  <1> QED
    BY <1>1, HeadFacts DEF ToSet, Clipboard!ToSet

LEMMA EmptyFacts == Clipboard!ToSet(<<>>) = {}
  BY NoneFacts DEF ToSet, Clipboard!ToSet

LEMMA EndsFacts ==
  ASSUME NEW e \in Clipboard!End
  PROVE  /\ Clipboard!Other(e) \in Clipboard!End /\ Clipboard!Other(e) # e
         /\ Clipboard!Other(Clipboard!Other(e)) = e
         /\ \A x \in Clipboard!End : x = e \/ x = Clipboard!Other(e)
  BY DEF Clipboard!End, Clipboard!Other

LEMMA OnlyOne ==
  ASSUME NEW x
  PROVE  Append(<<>>, x) # <<>> /\ Clipboard!ToSet(Append(<<>>, x)) = {x}
  <1>1. <<>> \in Seq({x}) /\ x \in {x}
    OBVIOUS
  <1>2. /\ Append(<<>>, x) # <<>>
        /\ Clipboard!ToSet(Append(<<>>, x)) = Clipboard!ToSet(<<>>) \cup {x}
    BY <1>1, QueueFacts
  <1> QED
    BY <1>2, EmptyFacts

(* At rest no end is behind.                                                 *)
LEMMA RestFacts ==
  ASSUME Clipboard!TypeOK, Clipboard!Synced, Clipboard!AtRest, NEW e \in Clipboard!End
  PROVE  /\ content[e] = latest /\ Clipboard!CanSend(e) /\ watching[e]
         /\ reads[e] = <<>> /\ wire[e] = <<>>
         /\ Clipboard!ToSet(reads[e]) = {} /\ Clipboard!ToSet(wire[e]) = {}
  <1> DEFINE o == Clipboard!Other(e)
  <1>1. o \in Clipboard!End
    BY EndsFacts
  <1>2. \A x \in Clipboard!End : /\ Clipboard!CanSend(x) /\ watching[x]
                                 /\ reads[x] = <<>> /\ wire[x] = <<>>
    BY DEF Clipboard!AtRest, Clipboard!Settled, Clipboard!CanSend, Clipboard!Connected,
           Clipboard!TypeOK
  <1>3. \A x \in Clipboard!End : Clipboard!ToSet(reads[x]) = {} /\ Clipboard!ToSet(wire[x]) = {}
    BY <1>2, EmptyFacts
  <1>4. ~Clipboard!Behind(e)
    BY <1>1, <1>2, <1>3 DEF Clipboard!Behind, Clipboard!Awaits
  <1> QED
    BY <1>2, <1>3, <1>4 DEF Clipboard!Synced

LEMMA ClipInit == Clipboard!Init => Clipboard!Inv
  <1> SUFFICES ASSUME Clipboard!Init PROVE Clipboard!Inv
    OBVIOUS
  <1>1. \A e \in Clipboard!End : /\ Clipboard!ToSet(reads[e]) = {} /\ Clipboard!ToSet(wire[e]) = {}
                                 /\ content[e] = latest
    BY EmptyFacts DEF Clipboard!Init, Clipboard!LinkInit
  <1>2. Clipboard!Synced
    BY <1>1 DEF Clipboard!Synced, Clipboard!OnTheWay
  <1>3. Clipboard!TypeOK
    BY DEF Clipboard!Init, Clipboard!LinkInit, Clipboard!TypeOK, Clipboard!Content
  <1> QED
    BY <1>2, <1>3 DEF Clipboard!Inv

(* Types.                                                                    *)
LEMMA ChangedType ==
  ASSUME Clipboard!TypeOK, NEW e \in Clipboard!End, NEW text \in Clipboard!Content,
         now' \in Nat, now <= now', Clipboard!Changed(e, text, now')
  PROVE  /\ content' \in [Clipboard!End -> Clipboard!Content]
         /\ local' \in [Clipboard!End -> 0..now']
         /\ reads' \in [Clipboard!End -> Seq(Clipboard!Read)]
  <1>1. [connect |-> FALSE, text |-> text] \in Clipboard!Read
    BY DEF Clipboard!Read
  <1>2. Append(reads[e], [connect |-> FALSE, text |-> text]) \in Seq(Clipboard!Read)
    BY <1>1, QueueFacts DEF Clipboard!TypeOK
  <1>3. content' \in [Clipboard!End -> Clipboard!Content]
    BY DEF Clipboard!TypeOK, Clipboard!Changed
  <1>4. local' \in [Clipboard!End -> 0..now']
    <2>1. local \in [Clipboard!End -> 0..now'] /\ now' \in 0..now'
      BY DEF Clipboard!TypeOK
    <2> QED
      BY <2>1 DEF Clipboard!Changed
  <1>5. reads' \in [Clipboard!End -> Seq(Clipboard!Read)]
    BY <1>2 DEF Clipboard!TypeOK, Clipboard!Changed
  <1> QED
    BY <1>3, <1>4, <1>5

LEMMA QueueType ==
  ASSUME Clipboard!TypeOK, NEW e \in Clipboard!End, NEW p \in Clipboard!Packet,
         NEW ps \in {<<>>, <<p>>}, Clipboard!Queue(e, ps)
  PROVE  wire' \in [Clipboard!End -> Seq(Clipboard!Packet)]
  <1> DEFINE o == Clipboard!Other(e)
  <1>1. o \in Clipboard!End
    BY EndsFacts
  <1>2. wire[o] \in Seq(Clipboard!Packet)
    BY <1>1 DEF Clipboard!TypeOK
  <1>3. wire[o] \o ps \in Seq(Clipboard!Packet)
    BY <1>2, QueueFacts
  <1> QED
    BY <1>1, <1>3 DEF Clipboard!Queue, Clipboard!TypeOK

LEMMA TakenType ==
  ASSUME Clipboard!TypeOK, NEW e \in Clipboard!End, wire[e] # <<>>, Clipboard!Handled(e, <<>>)
  PROVE  /\ wire' \in [Clipboard!End -> Seq(Clipboard!Packet)]
         /\ Head(wire[e]) \in Clipboard!Packet /\ Head(wire[e]).text \in Clipboard!Content
         /\ wire'[e] = Tail(wire[e]) /\ wire'[Clipboard!Other(e)] = wire[Clipboard!Other(e)]
  <1> DEFINE o == Clipboard!Other(e)
  <1>1. o \in Clipboard!End /\ o # e
    BY EndsFacts
  <1>2. wire \in [Clipboard!End -> Seq(Clipboard!Packet)]
    BY DEF Clipboard!TypeOK
  <1>3. Head(wire[e]) \in Clipboard!Packet /\ Tail(wire[e]) \in Seq(Clipboard!Packet)
    BY <1>2, FirstFacts
  <1>4. wire[o] \o <<>> = wire[o]
    BY <1>1, <1>2
  <1>5. wire' = [wire EXCEPT ![e] = Tail(@)]
    BY <1>1, <1>2, <1>4 DEF Clipboard!Handled
  <1>6. Head(wire[e]).text \in Clipboard!Content
    BY <1>3 DEF Clipboard!Packet
  <1> QED
    BY <1>1, <1>2, <1>3, <1>5, <1>6

LEMMA AppearKeepsWire ==
  ASSUME Clipboard!TypeOK, NEW e \in Clipboard!End, Clipboard!Appear(e)
  PROVE  wire' = wire
  <1>1. Clipboard!Other(e) \in Clipboard!End
    BY EndsFacts
  <1>2. /\ wire \in [Clipboard!End -> Seq(Clipboard!Packet)]
        /\ wire' = [wire EXCEPT ![Clipboard!Other(e)] = @ \o <<>>]
    BY DEF Clipboard!Appear, Clipboard!Appears, Clipboard!TypeOK
  <1>3. wire[Clipboard!Other(e)] \o <<>> = wire[Clipboard!Other(e)]
    BY <1>1, <1>2
  <1> QED
    BY <1>1, <1>2, <1>3

LEMMA ClipTypes ==
  ASSUME Clipboard!TypeOK, [Clipboard!Next]_(Clipboard!vars)
  PROVE  Clipboard!TypeOK'
  <1> USE DEF Clipboard!linkVars, Clipboard!settingVars, Clipboard!ghostVars
  <1>1. CASE UNCHANGED Clipboard!vars
    BY <1>1 DEF Clipboard!TypeOK, Clipboard!vars, Clipboard!clipboardVars
  <1>2. ASSUME NEW e \in Clipboard!End, Clipboard!Copy(e) \/ Clipboard!Pull(e)
        PROVE  Clipboard!TypeOK'
    <2>1. PICK text \in Clipboard!Content : Clipboard!UserCopies(e, text)
      BY <1>2 DEF Clipboard!Copy, Clipboard!Pull, Clipboard!TypeOK, Clipboard!Content
    <2>2. now' = now + 1 /\ now' \in Nat /\ now <= now'
      BY <1>2 DEF Clipboard!Copy, Clipboard!Pull, Clipboard!TypeOK
    <2>3. /\ content' \in [Clipboard!End -> Clipboard!Content]
          /\ local' \in [Clipboard!End -> 0..now']
          /\ reads' \in [Clipboard!End -> Seq(Clipboard!Read)]
      BY <2>1, <2>2, ChangedType DEF Clipboard!UserCopies
    <2>4. latest' \in Clipboard!Content
      BY <2>1 DEF Clipboard!UserCopies
    <2> QED
      BY <1>2, <2>2, <2>3, <2>4 DEF Clipboard!Copy, Clipboard!Pull, Clipboard!TypeOK
  <1>3. ASSUME NEW e \in Clipboard!End, Clipboard!Push(e) \/ Clipboard!Appear(e)
        PROVE  Clipboard!TypeOK'
    <2> DEFINE r(connect) == [connect |-> connect, text |-> content[e]]
    <2>1. \/ \E c \in BOOLEAN : reads' = [reads EXCEPT ![e] = Append(@, r(c))]
          \/ reads' = reads
      BY <1>3 DEF Clipboard!Push, Clipboard!Appear
    <2>2. ASSUME NEW c \in BOOLEAN PROVE Append(reads[e], r(c)) \in Seq(Clipboard!Read)
      <3>1. r(c) \in Clipboard!Read /\ reads[e] \in Seq(Clipboard!Read)
        BY DEF Clipboard!TypeOK, Clipboard!Read
      <3> HIDE DEF r
      <3> QED
        BY <3>1, QueueFacts
    <2> HIDE DEF r
    <2>3. reads' \in [Clipboard!End -> Seq(Clipboard!Read)]
      BY <2>1, <2>2 DEF Clipboard!TypeOK
    <2>4. CASE Clipboard!Push(e)
      BY <2>3, <2>4 DEF Clipboard!Push, Clipboard!TypeOK
    <2>5. CASE Clipboard!Appear(e)
      <3>1. wire' = wire
        BY <2>5, AppearKeepsWire
      <3>2. /\ link' = [link EXCEPT !.ends = @ \cup {e}] /\ link.up
            /\ available' = [available EXCEPT ![e] = TRUE]
            /\ watching' = [watching EXCEPT ![e] = TRUE]
            /\ UNCHANGED <<content, local, remote, autoPush, autoPull, now, latest>>
        BY <2>5 DEF Clipboard!Appear, Clipboard!Appears
      <3>3. /\ link' \in [up : BOOLEAN, count : Nat, paired : BOOLEAN,
                          ends : SUBSET Clipboard!End]
            /\ link'.ends = link.ends \cup {e} /\ link'.paired
        BY <3>2 DEF Clipboard!TypeOK
      <3> QED
        BY <2>3, <3>1, <3>2, <3>3 DEF Clipboard!TypeOK
    <2> QED
      BY <1>3, <2>4, <2>5
  <1>4. ASSUME NEW e \in Clipboard!End, Clipboard!SettingChanges(e) \/ Clipboard!Vanish(e)
        PROVE  Clipboard!TypeOK'
    <2>1. CASE Clipboard!SettingChanges(e)
      BY <2>1 DEF Clipboard!SettingChanges, Clipboard!TypeOK
    <2>2. CASE Clipboard!Vanish(e)
      <3>1. link.ends = {}
        BY <2>2 DEF Clipboard!Vanish, Clipboard!Vanishes, Clipboard!TypeOK
      <3> QED
        BY <2>2, <3>1 DEF Clipboard!Vanish, Clipboard!Vanishes, Clipboard!TypeOK
    <2> QED
      BY <1>4, <2>1, <2>2
  <1>5. ASSUME NEW e \in Clipboard!End,
               Clipboard!ReadTextConnectCallback(e) \/ Clipboard!ReadTextCallback(e)
        PROVE  Clipboard!TypeOK'
    <2>1. reads[e] \in Seq(Clipboard!Read) /\ reads[e] # <<>> /\ local[e] \in Nat
      BY <1>5 DEF Clipboard!ReadTextConnectCallback, Clipboard!ReadTextCallback, Clipboard!TypeOK
    <2>2. Head(reads[e]) \in Clipboard!Read /\ Tail(reads[e]) \in Seq(Clipboard!Read)
      BY <2>1, FirstFacts
    <2>3. /\ [kind |-> "connect", text |-> Head(reads[e]).text, time |-> local[e]]
                \in Clipboard!Packet
          /\ [kind |-> "clipboard", text |-> Head(reads[e]).text] \in Clipboard!Packet
      BY <2>1, <2>2 DEF Clipboard!Packet, Clipboard!Read
    <2>4. PICK p \in Clipboard!Packet : Clipboard!Queue(e, <<>>) \/ Clipboard!Queue(e, <<p>>)
      BY <1>5, <2>3 DEF Clipboard!ReadTextConnectCallback, Clipboard!ReadTextCallback
    <2>5. wire' \in [Clipboard!End -> Seq(Clipboard!Packet)]
      BY <2>4, QueueType
    <2>6. reads' \in [Clipboard!End -> Seq(Clipboard!Read)]
      BY <1>5, <2>2
      DEF Clipboard!ReadTextConnectCallback, Clipboard!ReadTextCallback, Clipboard!TypeOK
    <2> QED
      BY <1>5, <2>5, <2>6
      DEF Clipboard!ReadTextConnectCallback, Clipboard!ReadTextCallback, Clipboard!TypeOK
  <1>6. ASSUME NEW e \in Clipboard!End,
               Clipboard!HandleClipboard(e) \/ Clipboard!HandleClipboardConnect(e)
        PROVE  Clipboard!TypeOK'
    <2> DEFINE text == Head(wire[e]).text
    <2>1. wire[e] # <<>> /\ Clipboard!Handled(e, <<>>) /\ remote' = [remote EXCEPT ![e] = text]
      BY <1>6
      DEF Clipboard!HandleClipboard, Clipboard!HandleClipboardConnect, Clipboard!Arrived
    <2>2. wire' \in [Clipboard!End -> Seq(Clipboard!Packet)] /\ text \in Clipboard!Content
      BY <2>1, TakenType
    <2>3. Clipboard!Written(e, text) \/ UNCHANGED <<content, local, reads, now>>
      BY <1>6 DEF Clipboard!HandleClipboard, Clipboard!HandleClipboardConnect
    <2>4. /\ content' \in [Clipboard!End -> Clipboard!Content]
          /\ now' \in Nat /\ local' \in [Clipboard!End -> 0..now']
          /\ reads' \in [Clipboard!End -> Seq(Clipboard!Read)]
      <3>1. CASE Clipboard!Written(e, text)
        <4>1. now' \in Nat /\ now <= now' /\ Clipboard!Changed(e, text, now')
          BY <3>1 DEF Clipboard!Written, Clipboard!TypeOK
        <4> HIDE DEF text
        <4> QED
          BY <2>2, <4>1, ChangedType
      <3>2. CASE UNCHANGED <<content, local, reads, now>>
        BY <3>2 DEF Clipboard!TypeOK
      <3> QED
        BY <2>3, <3>1, <3>2
    <2>5. remote' \in [Clipboard!End -> Clipboard!Content]
      BY <2>1, <2>2 DEF Clipboard!TypeOK
    <2> QED
      BY <1>6, <2>2, <2>4, <2>5
      DEF Clipboard!HandleClipboard, Clipboard!HandleClipboardConnect, Clipboard!TypeOK
  <1>7. CASE Clipboard!Link
    <2> DEFINE Links == [up : BOOLEAN, count : Nat, paired : BOOLEAN, ends : SUBSET Clipboard!End]
    <2>1. /\ link' \in Links
          /\ link'.up \/ link'.ends # {} => link'.paired
          /\ link'.ends \subseteq link.ends
      <3>1. CASE Clipboard!Connects
        <4>1. link' = [up |-> TRUE, count |-> link.count + 1, paired |-> TRUE, ends |-> {}]
          BY <3>1 DEF Clipboard!Connects, Clipboard!TypeOK
        <4>2. link.count + 1 \in Nat
          BY DEF Clipboard!TypeOK
        <4> QED
          BY <4>1, <4>2
      <3>2. CASE Clipboard!Breaks
        BY <3>2 DEF Clipboard!Breaks, Clipboard!TypeOK
      <3>3. CASE Clipboard!Unpairs
        BY <3>3 DEF Clipboard!Unpairs, Clipboard!TypeOK
      <3>4. CASE \E e \in Clipboard!End : Clipboard!Loses(e)
        BY <3>4 DEF Clipboard!Loses, Clipboard!Connected, Clipboard!TypeOK
      <3> QED
        BY <1>7, <3>1, <3>2, <3>3, <3>4 DEF Clipboard!Link
    <2>2. wire' \in [Clipboard!End -> Seq(Clipboard!Packet)] /\ available' = available
      <3>1. <<>> \in Seq(Clipboard!Packet)
        OBVIOUS
      <3> QED
        BY <1>7, <3>1
        DEF Clipboard!Link, Clipboard!Connects, Clipboard!Breaks, Clipboard!Unpairs,
            Clipboard!Loses, Clipboard!TypeOK
    <2> QED
      BY <1>7, <2>1, <2>2 DEF Clipboard!Link, Clipboard!TypeOK, Clipboard!clipboardVars
  <1> QED
    BY <1>1, <1>2, <1>3, <1>4, <1>5, <1>6, <1>7 DEF Clipboard!Next

(* It is enough to look at the end that acts and at the other.               *)
LEMMA BothEnds ==
  ASSUME NEW e \in Clipboard!End,
         \A x \in {e, Clipboard!Other(e)} :
            Clipboard!OnTheWay(x)' /\ (content'[x] # latest' => Clipboard!Behind(x)')
  PROVE  Clipboard!Synced'
  BY EndsFacts DEF Clipboard!Synced

(* A user copies, or sends the copy again.                                   *)
LEMMA CopyStep ==
  ASSUME Clipboard!TypeOK, Clipboard!Synced, Clipboard!Undisturbed', NEW e \in Clipboard!End,
         Clipboard!Copy(e) \/ Clipboard!Pull(e)
  PROVE  Clipboard!Synced'
  <1> DEFINE o == Clipboard!Other(e)
  <1> USE DEF Clipboard!linkVars, Clipboard!settingVars
  <1>1. o \in Clipboard!End /\ o # e /\ Clipboard!Other(o) = e
    BY EndsFacts
  <1>2. Clipboard!AtRest
    BY DEF Clipboard!Copy, Clipboard!Pull, Clipboard!UserActs, Clipboard!Undisturbed,
           Clipboard!Automatic
  <1>3. \A x \in Clipboard!End :
           /\ content[x] = latest /\ Clipboard!CanSend(x) /\ watching[x]
           /\ reads[x] = <<>> /\ wire[x] = <<>>
           /\ Clipboard!ToSet(reads[x]) = {} /\ Clipboard!ToSet(wire[x]) = {}
    BY <1>2, RestFacts
  <1>4. PICK text \in Clipboard!Content : text # Empty /\ Clipboard!UserCopies(e, text)
    BY EmptyAssumption
    DEF Clipboard!Copy, Clipboard!Pull, Clipboard!TypeOK, Clipboard!Content
  <1>5. /\ now' = now + 1 /\ link' = link /\ available' = available /\ wire' = wire
        /\ remote' = remote /\ autoPush[e]
    BY DEF Clipboard!Copy, Clipboard!Pull, Clipboard!Undisturbed, Clipboard!Automatic
  <1>6. text = remote[e] => text = latest
    BY <1>3, <1>4 DEF Clipboard!UserCopies, Clipboard!Undisturbed
  <1>7. /\ content'[e] = text /\ content'[o] = latest /\ latest' = text
        /\ local'[e] = now + 1 /\ local'[o] = local[o]
        /\ reads'[e] = Append(<<>>, [connect |-> FALSE, text |-> text]) /\ reads'[o] = <<>>
    BY <1>1, <1>3, <1>4, <1>5 DEF Clipboard!UserCopies, Clipboard!Changed, Clipboard!TypeOK
  <1>8. /\ Clipboard!ToSet(reads'[e]) = {[connect |-> FALSE, text |-> text]}
        /\ reads'[e] # <<>> /\ Clipboard!ToSet(reads'[o]) = {}
    BY <1>7, OnlyOne, EmptyFacts
  <1>9. local[o] \in Nat /\ local[o] <= now /\ now \in Nat
    BY <1>1 DEF Clipboard!TypeOK
  <1>10. Clipboard!OnTheWay(e)' /\ Clipboard!OnTheWay(o)'
    <2>1. \A r \in Clipboard!ToSet(reads'[e]) : r.connect = FALSE /\ r.text = text
      BY <1>8
    <2>2. Clipboard!ToSet(wire'[e]) = {} /\ Clipboard!ToSet(wire'[o]) = {}
      BY <1>1, <1>3, <1>5
    <2> QED
      BY <1>7, <1>8, <2>1, <2>2 DEF Clipboard!OnTheWay
  <1>11. content'[o] # latest' => Clipboard!Behind(o)'
    <2> SUFFICES ASSUME latest # text PROVE Clipboard!Behind(o)'
      BY <1>7
    <2>1. Clipboard!Awaits(o)'
      BY <1>1, <1>8 DEF Clipboard!Awaits
    <2> QED
      BY <1>1, <1>3, <1>4, <1>5, <1>6, <1>7, <1>8, <1>9, <2>1 DEF Clipboard!Behind
  <1> QED
    BY <1>7, <1>10, <1>11, BothEnds

LEMMA PushStep ==
  ASSUME Clipboard!TypeOK, Clipboard!Synced, Clipboard!Undisturbed', NEW e \in Clipboard!End,
         Clipboard!Push(e)
  PROVE  Clipboard!Synced'
  <1> DEFINE o == Clipboard!Other(e)
             r == [connect |-> FALSE, text |-> content[e]]
  <1> USE DEF Clipboard!linkVars, Clipboard!settingVars
  <1>1. o \in Clipboard!End /\ o # e /\ Clipboard!Other(o) = e
    BY EndsFacts
  <1>2. Clipboard!AtRest
    BY DEF Clipboard!Push, Clipboard!UserActs, Clipboard!Undisturbed, Clipboard!Automatic
  <1>3. \A x \in Clipboard!End :
           /\ content[x] = latest /\ reads[x] = <<>>
           /\ Clipboard!ToSet(reads[x]) = {} /\ Clipboard!ToSet(wire[x]) = {}
    BY <1>2, RestFacts
  <1>4. wire' = wire /\ content' = content /\ latest' = latest
    BY DEF Clipboard!Push
  <1>5. reads'[e] = Append(<<>>, r) /\ reads'[o] = <<>>
    BY <1>1, <1>3 DEF Clipboard!Push, Clipboard!TypeOK
  <1>6. Clipboard!ToSet(reads'[e]) = {r} /\ Clipboard!ToSet(reads'[o]) = {}
    BY <1>5, OnlyOne, EmptyFacts
  <1> QED
    BY <1>1, <1>3, <1>4, <1>6, BothEnds DEF Clipboard!OnTheWay

(* What an end read is sent.  The exchange may send an old text, but only to *)
(* an end that has something newer; if the other end is behind, it is told   *)
(* of the last copy.                                                         *)
LEMMA SentFacts ==
  ASSUME Clipboard!TypeOK, NEW e \in Clipboard!End, NEW p \in Clipboard!Packet,
         NEW ps \in {<<>>, <<p>>}, Clipboard!Queue(e, ps)
  PROVE  LET o == Clipboard!Other(e) IN
         /\ wire'[e] = wire[e]
         /\ Clipboard!ToSet(wire[o]) \subseteq Clipboard!ToSet(wire'[o])
         /\ Clipboard!ToSet(wire'[o]) \subseteq Clipboard!ToSet(wire[o]) \cup {p}
         /\ ps = <<>> => Clipboard!ToSet(wire'[o]) = Clipboard!ToSet(wire[o])
         /\ Clipboard!CanSend(e) /\ ps = <<p>> => p \in Clipboard!ToSet(wire'[o])
  <1> DEFINE o == Clipboard!Other(e)
  <1>1. o \in Clipboard!End /\ o # e
    BY EndsFacts
  <1>2. wire[o] \in Seq(Clipboard!Packet)
    BY <1>1 DEF Clipboard!TypeOK
  <1>3. /\ wire[o] \o <<>> = wire[o]
        /\ Clipboard!ToSet(wire[o] \o <<p>>) = Clipboard!ToSet(wire[o]) \cup {p}
    BY <1>2, QueueFacts
  <1>4. /\ wire'[e] = wire[e]
        /\ wire'[o] = IF Clipboard!CanSend(e) THEN wire[o] \o ps ELSE wire[o]
    BY <1>1 DEF Clipboard!Queue, Clipboard!TypeOK
  <1>5. <<p>> # <<>>
    OBVIOUS
  <1> QED
    BY <1>3, <1>4, <1>5

LEMMA ConnectReadStep ==
  ASSUME Clipboard!TypeOK, Clipboard!Synced, Clipboard!Undisturbed', NEW e \in Clipboard!End,
         Clipboard!ReadTextConnectCallback(e)
  PROVE  Clipboard!Synced'
  <1> DEFINE o == Clipboard!Other(e)
             r == Head(reads[e])
             p == [kind |-> "connect", text |-> r.text, time |-> local[e]]
             ps == IF r.text = Empty THEN <<>> ELSE <<p>>
  <1> USE DEF Clipboard!linkVars, Clipboard!settingVars, Clipboard!CanSend, Clipboard!Connected
  <1>1. o \in Clipboard!End /\ o # e /\ Clipboard!Other(o) = e
    BY EndsFacts
  <1>2. reads[e] \in Seq(Clipboard!Read) /\ reads[e] # <<>> /\ r.connect /\ local[e] \in Nat
    BY DEF Clipboard!ReadTextConnectCallback, Clipboard!TypeOK
  <1>3. /\ r \in Clipboard!Read
        /\ Clipboard!ToSet(reads[e]) = {r} \cup Clipboard!ToSet(Tail(reads[e]))
    BY <1>2, FirstFacts
  <1>4. p \in Clipboard!Packet /\ p.text = r.text /\ p.kind = "connect" /\ p.time = local[e]
    BY <1>2, <1>3 DEF Clipboard!Packet, Clipboard!Read
  <1>5. /\ reads'[e] = Tail(reads[e]) /\ reads'[o] = reads[o] /\ Clipboard!Queue(e, ps)
        /\ link' = link /\ available' = available /\ content' = content /\ local' = local
        /\ remote' = remote /\ latest' = latest
        /\ Clipboard!CanSend(e) => r.text \in {Empty, content[e]}
    BY <1>1 DEF Clipboard!ReadTextConnectCallback, Clipboard!TypeOK, Clipboard!Undisturbed
  <1> HIDE DEF p, r
  <1>6. /\ wire'[e] = wire[e]
        /\ Clipboard!ToSet(wire[o]) \subseteq Clipboard!ToSet(wire'[o])
        /\ Clipboard!ToSet(wire'[o]) \subseteq Clipboard!ToSet(wire[o]) \cup {p}
        /\ r.text = Empty => Clipboard!ToSet(wire'[o]) = Clipboard!ToSet(wire[o])
        /\ Clipboard!CanSend(e) /\ r.text # Empty => p \in Clipboard!ToSet(wire'[o])
        /\ ~Clipboard!CanSend(e) => Clipboard!ToSet(wire'[o]) = Clipboard!ToSet(wire[o])
    <2>1. ps \in {<<>>, <<p>>}
      OBVIOUS
    <2>2. ~Clipboard!CanSend(e) => wire' = wire
      BY <1>5 DEF Clipboard!Queue
    <2> QED
      BY <1>4, <1>5, <2>1, <2>2, SentFacts
  <1> HIDE DEF ps
  <1>7. /\ Clipboard!OnTheWay(e) /\ Clipboard!OnTheWay(o)
        /\ content[e] # latest => Clipboard!Behind(e)
        /\ content[o] # latest => Clipboard!Behind(o)
    BY <1>1 DEF Clipboard!Synced
  (* The new packet has what e has, and as its time that of e *)
  <1>8. p \notin Clipboard!ToSet(wire'[o]) \ Clipboard!ToSet(wire[o]) \/ p.text = content[e]
    BY <1>4, <1>5, <1>6
  <1>9. Clipboard!OnTheWay(e)'
    BY <1>3, <1>5, <1>6, <1>7 DEF Clipboard!OnTheWay
  <1>10. Clipboard!OnTheWay(o)'
    <2>1. ASSUME content[e] # latest PROVE content[o] = latest /\ local[e] < local[o]
      BY <1>7, <2>1 DEF Clipboard!Behind
    <2>2. ASSUME NEW q \in Clipboard!ToSet(wire'[o])
          PROVE  \/ q.text = latest
                 \/ q.kind = "connect" /\ content[o] = latest /\ q.time < local[o]
      BY <1>4, <1>6, <1>7, <1>8, <2>1 DEF Clipboard!OnTheWay
    <2> QED
      BY <1>1, <1>5, <1>7, <2>2 DEF Clipboard!OnTheWay
  <1>11. content'[e] # latest' => Clipboard!Behind(e)'
    <2> SUFFICES ASSUME content[e] # latest PROVE Clipboard!Behind(e)'
      BY <1>5
    <2>1. Clipboard!Behind(e)
      BY <1>7
    <2>2. \A q \in Clipboard!ToSet(wire'[o]) : q.text # latest
      BY <1>6, <1>8, <2>1 DEF Clipboard!Behind
    <2>3. Clipboard!Awaits(e) => Clipboard!Awaits(e)'
      BY <1>5, <1>6 DEF Clipboard!Awaits
    <2> QED
      BY <1>3, <1>5, <2>1, <2>2, <2>3 DEF Clipboard!Behind
  <1>12. content'[o] # latest' => Clipboard!Behind(o)'
    <2> SUFFICES ASSUME content[o] # latest PROVE Clipboard!Behind(o)'
      BY <1>5
    <2>1. Clipboard!Behind(o) /\ content[e] = latest /\ local[o] < local[e] /\ latest # Empty
      BY <1>1, <1>7 DEF Clipboard!Behind
    <2>2. r.text = latest
      BY <1>2, <1>3, <1>7 DEF Clipboard!OnTheWay
    <2>3. Clipboard!CanSend(e) => Clipboard!Awaits(o)'
      <3>1. Clipboard!CanSend(e) => p \in Clipboard!ToSet(wire'[o])
        BY <1>6, <2>1, <2>2
      <3>2. p.text = latest' /\ p.time > local'[o]
        <4>1. local[o] \in Nat /\ local[e] \in Nat
          BY <1>1 DEF Clipboard!TypeOK
        <4> QED
          BY <1>4, <1>5, <2>1, <2>2, <4>1
      <3> QED
        BY <3>1, <3>2 DEF Clipboard!Awaits
    <2> QED
      BY <1>1, <1>5, <1>6, <2>1, <2>3 DEF Clipboard!Behind
  <1> QED
    BY <1>9, <1>10, <1>11, <1>12, BothEnds

LEMMA ReadStep ==
  ASSUME Clipboard!TypeOK, Clipboard!Synced, NEW e \in Clipboard!End,
         Clipboard!ReadTextCallback(e)
  PROVE  Clipboard!Synced'
  <1> DEFINE o == Clipboard!Other(e)
             r == Head(reads[e])
             p == [kind |-> "clipboard", text |-> r.text]
             ps == IF r.text \in {Empty, remote[e]} THEN <<>> ELSE <<p>>
  <1> USE DEF Clipboard!linkVars, Clipboard!settingVars, Clipboard!ghostVars,
              Clipboard!CanSend, Clipboard!Connected
  <1>1. o \in Clipboard!End /\ o # e /\ Clipboard!Other(o) = e
    BY EndsFacts
  <1>2. reads[e] \in Seq(Clipboard!Read) /\ reads[e] # <<>> /\ ~r.connect
    BY DEF Clipboard!ReadTextCallback, Clipboard!TypeOK
  <1>3. /\ r \in Clipboard!Read
        /\ Clipboard!ToSet(reads[e]) = {r} \cup Clipboard!ToSet(Tail(reads[e]))
    BY <1>2, FirstFacts
  <1>4. p \in Clipboard!Packet /\ p.text = r.text /\ p.kind = "clipboard"
    BY <1>3 DEF Clipboard!Packet, Clipboard!Read
  <1>5. /\ reads'[e] = Tail(reads[e]) /\ reads'[o] = reads[o] /\ Clipboard!Queue(e, ps)
        /\ link' = link /\ available' = available /\ content' = content /\ local' = local
        /\ remote' = remote /\ latest' = latest
    BY <1>1 DEF Clipboard!ReadTextCallback, Clipboard!TypeOK
  <1> HIDE DEF p, r
  <1>6. /\ wire'[e] = wire[e]
        /\ Clipboard!ToSet(wire[o]) \subseteq Clipboard!ToSet(wire'[o])
        /\ Clipboard!ToSet(wire'[o]) \subseteq Clipboard!ToSet(wire[o]) \cup {p}
        /\ Clipboard!CanSend(e) /\ r.text \notin {Empty, remote[e]} => p \in Clipboard!ToSet(wire'[o])
    <2>1. ps \in {<<>>, <<p>>}
      OBVIOUS
    <2> QED
      BY <1>4, <1>5, <2>1, SentFacts
  <1> HIDE DEF ps
  <1>7. /\ Clipboard!OnTheWay(e) /\ Clipboard!OnTheWay(o)
        /\ content[e] # latest => Clipboard!Behind(e)
        /\ content[o] # latest => Clipboard!Behind(o)
    BY <1>1 DEF Clipboard!Synced
  <1>8. r.text = latest
    BY <1>2, <1>3, <1>7 DEF Clipboard!OnTheWay
  <1>9. content[e] = latest
    BY <1>2, <1>3, <1>7 DEF Clipboard!Behind
  <1>10. Clipboard!OnTheWay(e)'
    BY <1>3, <1>5, <1>6, <1>7 DEF Clipboard!OnTheWay
  <1>11. Clipboard!OnTheWay(o)'
    BY <1>1, <1>4, <1>5, <1>6, <1>7, <1>8 DEF Clipboard!OnTheWay
  <1>12. content'[o] # latest' => Clipboard!Behind(o)'
    <2> SUFFICES ASSUME content[o] # latest PROVE Clipboard!Behind(o)'
      BY <1>5
    <2>1. Clipboard!Behind(o) /\ remote[e] # latest /\ latest # Empty
      BY <1>1, <1>7 DEF Clipboard!Behind
    <2>2. Clipboard!CanSend(e) => Clipboard!Awaits(o)'
      BY <1>4, <1>5, <1>6, <1>8, <2>1 DEF Clipboard!Awaits
    <2> QED
      BY <1>1, <1>5, <1>6, <2>1, <2>2 DEF Clipboard!Behind
  <1> QED
    BY <1>5, <1>9, <1>10, <1>11, <1>12, BothEnds

(* A packet that arrives is written only if it is the last copy, and then    *)
(* the other end has it; one that is not written was not awaited.            *)
LEMMA TakeStep ==
  ASSUME Clipboard!TypeOK, Clipboard!Synced, Clipboard!Undisturbed', NEW e \in Clipboard!End,
         Clipboard!HandleClipboard(e) \/ Clipboard!HandleClipboardConnect(e)
  PROVE  Clipboard!Synced'
  <1> DEFINE o == Clipboard!Other(e)
             p == Head(wire[e])
             taken == p.kind = "clipboard" \/ p.time > local[e]
  <1> USE DEF Clipboard!linkVars, Clipboard!settingVars, Clipboard!ghostVars,
              Clipboard!CanSend, Clipboard!Connected
  <1>1. o \in Clipboard!End /\ o # e /\ Clipboard!Other(o) = e
    BY EndsFacts
  <1>2. wire[e] \in Seq(Clipboard!Packet) /\ wire[e] # <<>> /\ watching[e]
    BY DEF Clipboard!HandleClipboard, Clipboard!HandleClipboardConnect, Clipboard!Arrived,
           Clipboard!Connected, Clipboard!TypeOK
  <1>3. /\ p \in Clipboard!Packet
        /\ Clipboard!ToSet(wire[e]) = {p} \cup Clipboard!ToSet(Tail(wire[e]))
    BY <1>2, FirstFacts
  <1>4. wire'[e] = Tail(wire[e]) /\ wire'[o] = wire[o]
    BY <1>2, TakenType DEF Clipboard!HandleClipboard, Clipboard!HandleClipboardConnect
  <1>5. /\ autoPush[e] /\ autoPull[e]
        /\ remote'[e] = p.text /\ remote'[o] = remote[o]
        /\ link' = link /\ available' = available /\ latest' = latest
    BY <1>1
    DEF Clipboard!HandleClipboard, Clipboard!HandleClipboardConnect, Clipboard!TypeOK,
        Clipboard!Undisturbed, Clipboard!Automatic
  <1>6. /\ p.kind = "clipboard" \/ p.kind = "connect"
        /\ taken => Clipboard!Written(e, p.text)
        /\ ~taken => UNCHANGED <<content, local, reads>>
    <2>1. CASE Clipboard!HandleClipboard(e)
      BY <1>5, <2>1 DEF Clipboard!HandleClipboard
    <2>2. CASE Clipboard!HandleClipboardConnect(e)
      <3>1. p.kind = "connect" /\ p.kind # "clipboard"
        BY <2>2 DEF Clipboard!HandleClipboardConnect
      <3> QED
        BY <1>5, <2>2, <3>1 DEF Clipboard!HandleClipboardConnect
    <2> QED
      BY <2>1, <2>2
  <1>7. /\ Clipboard!OnTheWay(e) /\ Clipboard!OnTheWay(o)
        /\ content[e] # latest => Clipboard!Behind(e)
        /\ content[o] # latest => Clipboard!Behind(o)
    BY <1>1 DEF Clipboard!Synced
  <1>8. /\ local[e] \in Nat /\ local[e] <= now /\ now \in Nat
        /\ p.kind = "connect" => p.time \in Nat
    BY <1>3 DEF Clipboard!TypeOK, Clipboard!Packet
  <1> HIDE DEF p
  <1>9. CASE taken
    <2>1. p.text = latest
      BY <1>3, <1>6, <1>7, <1>8, <1>9 DEF Clipboard!OnTheWay
    <2>2. content[o] = latest
      BY <1>1, <1>3, <1>7, <2>1 DEF Clipboard!Behind
    <2>3. /\ content'[e] = latest /\ content'[o] = latest
          /\ local'[e] = now + 1 /\ local'[o] = local[o]
          /\ reads'[e] = Append(reads[e], [connect |-> FALSE, text |-> latest])
          /\ reads'[o] = reads[o]
      BY <1>1, <1>2, <1>5, <1>6, <1>9, <2>1, <2>2
      DEF Clipboard!Written, Clipboard!Changed, Clipboard!TypeOK
    <2>4. Clipboard!ToSet(reads'[e])
             = Clipboard!ToSet(reads[e]) \cup {[connect |-> FALSE, text |-> latest]}
      <3>1. /\ reads[e] \in Seq(Clipboard!Read)
            /\ [connect |-> FALSE, text |-> latest] \in Clipboard!Read
        BY DEF Clipboard!TypeOK, Clipboard!Read
      <3>2. ASSUME NEW x \in Clipboard!Read
            PROVE  Clipboard!ToSet(Append(reads[e], x)) = Clipboard!ToSet(reads[e]) \cup {x}
        BY <3>1, QueueFacts
      <3> QED
        BY <2>3, <3>1, <3>2
    <2>5. Clipboard!OnTheWay(e)'
      <3>1. ASSUME NEW q \in Clipboard!ToSet(wire'[e])
            PROVE  \/ q.text = latest
                   \/ q.kind = "connect" /\ content'[e] = latest /\ q.time < local'[e]
        <4>1. q \in Clipboard!ToSet(wire[e]) /\ q \in Clipboard!Packet
          <5>1. Tail(wire[e]) \in Seq(Clipboard!Packet)
            BY <1>2, FirstFacts
          <5>2. \A x \in Clipboard!ToSet(Tail(wire[e])) : x \in Clipboard!Packet
            BY <5>1 DEF Clipboard!ToSet
          <5> QED
            BY <1>3, <1>4, <5>2
        <4>2. q.kind = "connect" => q.time \in Nat
          BY <4>1 DEF Clipboard!Packet
        <4> QED
          BY <1>7, <1>8, <2>3, <4>1, <4>2 DEF Clipboard!OnTheWay
      <3>2. ASSUME NEW r \in Clipboard!ToSet(reads'[e])
            PROVE  IF r.connect THEN latest \in {r.text, content'[o]} ELSE r.text = latest
        <4>1. CASE r \in Clipboard!ToSet(reads[e])
          <5>1. IF r.connect THEN latest \in {r.text, content[o]} ELSE r.text = latest
            BY <1>7, <4>1 DEF Clipboard!OnTheWay
          <5> QED
            BY <2>3, <5>1
        <4>2. CASE r = [connect |-> FALSE, text |-> latest]
          <5>1. r.connect = FALSE /\ r.text = latest
            BY <4>2
          <5> QED
            BY <5>1
        <4> QED
          BY <2>4, <4>1, <4>2
      <3> QED
        BY <1>5, <3>1, <3>2 DEF Clipboard!OnTheWay
    <2>6. Clipboard!OnTheWay(o)'
      BY <1>1, <1>4, <1>5, <1>7, <2>2, <2>3 DEF Clipboard!OnTheWay
    <2> QED
      BY <1>5, <2>3, <2>5, <2>6, BothEnds
  <1>10. CASE ~taken
    <2>1. content' = content /\ local' = local /\ reads' = reads
      BY <1>6, <1>10
    <2>2. Clipboard!OnTheWay(e)' /\ Clipboard!OnTheWay(o)'
      BY <1>1, <1>3, <1>4, <1>5, <1>7, <2>1 DEF Clipboard!OnTheWay
    <2>3. content'[e] # latest' => Clipboard!Behind(e)'
      <3> SUFFICES ASSUME content[e] # latest PROVE Clipboard!Behind(e)'
        BY <1>5, <2>1
      <3>1. Clipboard!Awaits(e) => Clipboard!Awaits(e)'
        BY <1>3, <1>4, <1>5, <1>10, <2>1 DEF Clipboard!Awaits
      <3> QED
        BY <1>4, <1>5, <1>7, <2>1, <3>1 DEF Clipboard!Behind
    <2>4. content'[o] # latest' => Clipboard!Behind(o)'
      <3> SUFFICES ASSUME content[o] # latest PROVE Clipboard!Behind(o)'
        BY <1>5, <2>1
      <3>1. Clipboard!Awaits(o) => Clipboard!Awaits(o)'
        BY <1>1, <1>4, <1>5, <2>1 DEF Clipboard!Awaits
      <3> QED
        BY <1>1, <1>3, <1>4, <1>5, <1>7, <2>1, <3>1 DEF Clipboard!Behind
    <2> QED
      BY <2>2, <2>3, <2>4, BothEnds
  <1> QED
    BY <1>9, <1>10

(* The connection comes, is noticed, and breaks.                             *)
LEMMA AppearStep ==
  ASSUME Clipboard!TypeOK, Clipboard!Synced, Clipboard!Undisturbed', NEW e \in Clipboard!End,
         Clipboard!Appear(e)
  PROVE  Clipboard!Synced'
  <1> DEFINE o == Clipboard!Other(e)
             r == [connect |-> TRUE, text |-> content[e]]
  <1> USE DEF Clipboard!linkVars, Clipboard!settingVars, Clipboard!ghostVars,
              Clipboard!CanSend, Clipboard!Connected
  <1>1. o \in Clipboard!End /\ o # e /\ Clipboard!Other(o) = e
    BY EndsFacts
  <1>2. /\ autoPush[e] /\ reads'[e] = Append(reads[e], r) /\ reads'[o] = reads[o]
        /\ wire' = wire /\ content' = content /\ local' = local /\ remote' = remote
        /\ latest' = latest /\ (Clipboard!CanSend(o)' => Clipboard!CanSend(o))
    BY <1>1, AppearKeepsWire
    DEF Clipboard!Appear, Clipboard!Appears, Clipboard!TypeOK, Clipboard!Undisturbed,
        Clipboard!Automatic
  <1>3. /\ Clipboard!ToSet(reads'[e]) = Clipboard!ToSet(reads[e]) \cup {r}
        /\ reads'[e] # <<>>
    <2>1. reads[e] \in Seq(Clipboard!Read) /\ r \in Clipboard!Read
      BY DEF Clipboard!TypeOK, Clipboard!Read
    <2>2. reads'[e] = Append(reads[e], r)
      BY <1>2
    <2>3. ASSUME NEW x \in Clipboard!Read
          PROVE  /\ Clipboard!ToSet(Append(reads[e], x)) = Clipboard!ToSet(reads[e]) \cup {x}
                 /\ Append(reads[e], x) # <<>>
      BY <2>1, QueueFacts
    <2> HIDE DEF r
    <2> QED
      BY <2>1, <2>2, <2>3
  <1>4. r.connect = TRUE /\ r.text = content[e]
    OBVIOUS
  <1> HIDE DEF r
  <1>5. /\ Clipboard!OnTheWay(e) /\ Clipboard!OnTheWay(o)
        /\ content[e] # latest => Clipboard!Behind(e)
        /\ content[o] # latest => Clipboard!Behind(o)
    BY <1>1 DEF Clipboard!Synced
  <1>6. latest \in {r.text, content[o]}
    BY <1>4, <1>5 DEF Clipboard!Behind
  <1>7. Clipboard!OnTheWay(e)' /\ Clipboard!OnTheWay(o)'
    BY <1>1, <1>2, <1>3, <1>4, <1>5, <1>6 DEF Clipboard!OnTheWay
  <1>8. content'[e] # latest' => Clipboard!Behind(e)'
    <2>1. Clipboard!Awaits(e) => Clipboard!Awaits(e)'
      BY <1>2 DEF Clipboard!Awaits
    <2> QED
      BY <1>2, <1>3, <1>4, <1>5, <2>1 DEF Clipboard!Behind
  <1>9. content'[o] # latest' => Clipboard!Behind(o)'
    <2>1. Clipboard!Awaits(o)'
      BY <1>1, <1>3 DEF Clipboard!Awaits
    <2> QED
      BY <1>1, <1>2, <1>5, <2>1 DEF Clipboard!Behind
  <1> QED
    BY <1>7, <1>8, <1>9, BothEnds

LEMMA LinkStep ==
  ASSUME Clipboard!TypeOK, Clipboard!Synced,
         Clipboard!Link \/ \E e \in Clipboard!End : Clipboard!Vanish(e)
  PROVE  Clipboard!Synced'
  <1> USE DEF Clipboard!linkVars, Clipboard!settingVars, Clipboard!ghostVars,
              Clipboard!CanSend, Clipboard!Connected
  <1>1. /\ reads' = reads /\ content' = content /\ local' = local /\ remote' = remote
        /\ latest' = latest
    BY DEF Clipboard!Link, Clipboard!clipboardVars, Clipboard!Vanish
  <1>2. \A e \in Clipboard!End :
           /\ Clipboard!ToSet(wire'[e]) \subseteq Clipboard!ToSet(wire[e])
           /\ ~Clipboard!CanSend(e)'
    <2>1. CASE Clipboard!Connects
      BY <2>1 DEF Clipboard!Connects, Clipboard!TypeOK
    <2>2. CASE Clipboard!Breaks
      BY <2>2, EmptyFacts DEF Clipboard!Breaks, Clipboard!TypeOK
    <2>3. CASE Clipboard!Unpairs
      BY <2>3 DEF Clipboard!Unpairs, Clipboard!TypeOK
    <2>4. CASE \E e \in Clipboard!End : Clipboard!Loses(e)
      BY <2>4 DEF Clipboard!Loses, Clipboard!TypeOK
    <2>5. CASE \E e \in Clipboard!End : Clipboard!Vanish(e)
      BY <2>5 DEF Clipboard!Vanish, Clipboard!Vanishes, Clipboard!TypeOK
    <2> QED
      BY <2>1, <2>2, <2>3, <2>4, <2>5 DEF Clipboard!Link
  <1>3. ASSUME NEW e \in Clipboard!End
        PROVE  Clipboard!OnTheWay(e)' /\ (content'[e] # latest' => Clipboard!Behind(e)')
    <2>1. Clipboard!Other(e) \in Clipboard!End
      BY EndsFacts
    <2>2. Clipboard!OnTheWay(e) /\ (content[e] # latest => Clipboard!Behind(e))
      BY DEF Clipboard!Synced
    <2>3. Clipboard!OnTheWay(e)'
      BY <1>1, <1>2, <2>2 DEF Clipboard!OnTheWay
    <2>4. content'[e] # latest' => Clipboard!Behind(e)'
      BY <1>1, <1>2, <2>1, <2>2 DEF Clipboard!Behind
    <2> QED
      BY <2>3, <2>4
  <1> QED
    BY <1>3 DEF Clipboard!Synced

LEMMA ClipNext == Clipboard!Inv /\ [Clipboard!Next]_(Clipboard!vars) => Clipboard!Inv'
  <1> SUFFICES ASSUME Clipboard!Inv, [Clipboard!Next]_(Clipboard!vars) PROVE Clipboard!Inv'
    OBVIOUS
  <1>1. Clipboard!TypeOK /\ Clipboard!TypeOK'
    BY ClipTypes DEF Clipboard!Inv
  <1> SUFFICES ASSUME Clipboard!Undisturbed' PROVE Clipboard!Synced'
    BY <1>1 DEF Clipboard!Inv
  <1> USE DEF Clipboard!linkVars, Clipboard!settingVars, Clipboard!ghostVars,
              Clipboard!CanSend, Clipboard!Connected
  (* Once something is disturbed it is for good *)
  <1>2. CASE UNCHANGED Clipboard!vars
    <2>1. Clipboard!Synced
      BY <1>2
      DEF Clipboard!Inv, Clipboard!Undisturbed, Clipboard!Automatic, Clipboard!vars,
          Clipboard!clipboardVars
    <2>2. /\ reads' = reads /\ content' = content /\ local' = local /\ remote' = remote
          /\ latest' = latest /\ wire' = wire /\ link' = link /\ available' = available
      BY <1>2 DEF Clipboard!vars, Clipboard!clipboardVars
    <2> QED
      BY <2>1, <2>2
      DEF Clipboard!Synced, Clipboard!OnTheWay, Clipboard!Behind, Clipboard!Awaits
  <1>3. ASSUME NEW e \in Clipboard!End, Clipboard!Copy(e) \/ Clipboard!Pull(e)
        PROVE  Clipboard!Synced'
    <2>1. Clipboard!Undisturbed
      <3>1. CASE Clipboard!Copy(e)
        BY <3>1
        DEF Clipboard!Undisturbed, Clipboard!Automatic, Clipboard!Copy, Clipboard!UserActs,
            Clipboard!UserCopies
      <3>2. CASE Clipboard!Pull(e)
        BY <3>2
        DEF Clipboard!Undisturbed, Clipboard!Automatic, Clipboard!Pull, Clipboard!UserActs,
            Clipboard!UserCopies
      <3> QED
        BY <1>3, <3>1, <3>2
    <2> QED
      BY <1>1, <1>3, <2>1, CopyStep DEF Clipboard!Inv
  <1>4. ASSUME NEW e \in Clipboard!End, Clipboard!Push(e) PROVE Clipboard!Synced'
    <2>1. Clipboard!Undisturbed
      BY <1>4
      DEF Clipboard!Undisturbed, Clipboard!Automatic, Clipboard!Push, Clipboard!UserActs
    <2> QED
      BY <1>1, <1>4, <2>1, PushStep DEF Clipboard!Inv
  <1>5. ASSUME NEW e \in Clipboard!End, Clipboard!SettingChanges(e) PROVE FALSE
    BY <1>5
    DEF Clipboard!Undisturbed, Clipboard!Automatic, Clipboard!SettingChanges, Clipboard!UserActs
  <1>6. ASSUME NEW e \in Clipboard!End, Clipboard!ReadTextConnectCallback(e)
        PROVE  Clipboard!Synced'
    <2>1. Clipboard!Undisturbed
      BY <1>6
      DEF Clipboard!Undisturbed, Clipboard!Automatic, Clipboard!ReadTextConnectCallback
    <2> QED
      BY <1>1, <1>6, <2>1, ConnectReadStep DEF Clipboard!Inv
  <1>7. ASSUME NEW e \in Clipboard!End, Clipboard!ReadTextCallback(e) PROVE Clipboard!Synced'
    <2>1. Clipboard!Undisturbed
      BY <1>7 DEF Clipboard!Undisturbed, Clipboard!Automatic, Clipboard!ReadTextCallback
    <2> QED
      BY <1>1, <1>7, <2>1, ReadStep DEF Clipboard!Inv
  <1>8. ASSUME NEW e \in Clipboard!End,
               Clipboard!HandleClipboard(e) \/ Clipboard!HandleClipboardConnect(e)
        PROVE  Clipboard!Synced'
    <2>1. Clipboard!Undisturbed
      <3>1. CASE Clipboard!HandleClipboard(e)
        BY <3>1 DEF Clipboard!Undisturbed, Clipboard!Automatic, Clipboard!HandleClipboard
      <3>2. CASE Clipboard!HandleClipboardConnect(e)
        BY <3>2 DEF Clipboard!Undisturbed, Clipboard!Automatic, Clipboard!HandleClipboardConnect
      <3> QED
        BY <1>8, <3>1, <3>2
    <2> QED
      BY <1>1, <1>8, <2>1, TakeStep DEF Clipboard!Inv
  <1>9. ASSUME NEW e \in Clipboard!End, Clipboard!Appear(e) PROVE Clipboard!Synced'
    <2>1. Clipboard!Undisturbed
      BY <1>9 DEF Clipboard!Undisturbed, Clipboard!Automatic, Clipboard!Appear
    <2> QED
      BY <1>1, <1>9, <2>1, AppearStep DEF Clipboard!Inv
  <1>10. CASE Clipboard!Link \/ \E e \in Clipboard!End : Clipboard!Vanish(e)
    <2>1. Clipboard!Undisturbed
      <3>1. CASE Clipboard!Link
        BY <3>1
        DEF Clipboard!Undisturbed, Clipboard!Automatic, Clipboard!Link, Clipboard!clipboardVars
      <3>2. CASE \E e \in Clipboard!End : Clipboard!Vanish(e)
        BY <3>2 DEF Clipboard!Undisturbed, Clipboard!Automatic, Clipboard!Vanish
      <3> QED
        BY <1>10, <3>1, <3>2
    <2> QED
      BY <1>1, <1>10, <2>1, LinkStep DEF Clipboard!Inv
  <1> QED
    BY <1>2, <1>3, <1>4, <1>5, <1>6, <1>7, <1>8, <1>9, <1>10 DEF Clipboard!Next

LEMMA LastCopyFollows == Clipboard!Inv => Clipboard!LastCopyWins
  BY RestFacts DEF Clipboard!Inv, Clipboard!Undisturbed, Clipboard!LastCopyWins,
                   Clipboard!LastCopyArrives

(* The parts together.  One of them runs; a step of the program is a step of *)
(* it, or leaves it alone.                                                   *)
LEMMA LanInit == Lan!Init => Lan!Inv
  BY NoneAssumption, Lan!InitInv DEF Lan!NoneIsNew

LEMMA LanNext == Lan!Inv /\ [Lan!Next]_(Lan!vars) => Lan!Inv'
  BY Lan!StepInv

LEMMA LanTrusts == Lan!Inv => Lan!IdentityIsAddressed /\ Lan!OpenIsTrusted
  BY Lan!OpenFollows DEF Lan!Inv

Safe ==
    /\ part = "DeviceSend" => DeviceSend!Inv
    /\ part = "Share" => Share!Inv
    /\ part = "Transfer" => Transfer!Inv
    /\ part = "Clipboard" => Clipboard!Inv
    /\ part = "Lan" => Lan!Inv

LEMMA OnePart ==
  ASSUME [MCNext]_allVars
  PROVE  /\ part' = part
         /\ part = "DeviceSend" => [DeviceSend!Next]_(DeviceSend!vars)
         /\ part = "Share" => [Share!Next]_(Share!vars)
         /\ part = "Transfer" => [Transfer!Next]_(Transfer!vars)
         /\ part = "Clipboard" => [Clipboard!Next]_(Clipboard!vars)
         /\ part = "Lan" => [Lan!Next]_(Lan!vars)
  <1>1. CASE MCNext
    BY <1>1 DEF MCNext, DeviceSendOnly, ShareOnly, TransferOnly, ClipboardOnly, LanOnly
  <1>2. CASE UNCHANGED allVars
    <2>1. part' = part /\ UNCHANGED DeviceSend!vars
      BY <1>2 DEF allVars, DeviceSend!vars, sendVars
    <2>2. UNCHANGED Share!vars
      BY <1>2 DEF allVars, Share!vars, Share!uploadVars, Share!transferVars, shareVars
    <2>3. UNCHANGED Transfer!vars
      BY <1>2 DEF allVars, Transfer!vars, transferVars
    <2>4. UNCHANGED Lan!vars
      BY <1>2 DEF allVars, Lan!vars, lanVars, clipboardVars
    <2>5. UNCHANGED Clipboard!vars
      BY <1>2
      DEF allVars, Clipboard!vars, Clipboard!linkVars, Clipboard!clipboardVars, clipboardVars
    <2> QED
      BY <2>1, <2>2, <2>3, <2>4, <2>5
  <1> QED
    BY <1>1, <1>2

LEMMA SafeInit == MCInit => Safe
  BY SendInit, ShareInit, TransferInit, ClipInit, LanInit DEF MCInit, Safe

LEMMA SafeNext == Safe /\ [MCNext]_allVars => Safe'
  BY OnePart, SendNext, ShareNext, TransferNext, ClipNext, LanNext DEF Safe

LEMMA AlwaysSafe == MCSpec => []Safe
  <1>1. MCSpec => MCInit /\ [][MCNext]_allVars
    BY DEF MCSpec
  <1> QED
    BY <1>1, SafeInit, SafeNext, PTL

(* A packet is answered once and reaches the peer once at most; a share or a *)
(* transfer that is reported as complete is, and the two halves of a         *)
(* transfer meet: for every number of requests and channels, every number    *)
(* of files, and whatever fails.                                             *)
THEOREM SentStaysWhole == MCSpec => []SentIsWhole
  <1>1. Safe => SentIsWhole
    BY CompleteFollows DEF Safe, SentIsWhole, DeviceSend!Inv, Transfer!Inv
  <1> QED
    BY <1>1, AlwaysSafe, PTL

(* An accepted packet fails only once there is no channel left to try.       *)
THEOREM FailsOnlyWhenCutOff == MCSpec => FailsWhenCutOff
  <1>1. Safe /\ [MCNext]_allVars => [part = "DeviceSend" => DeviceSend!CutOff]_allVars
    BY OnePart, CutOffStep DEF Safe
  <1>2. MCSpec => MCInit /\ [][MCNext]_allVars
    BY DEF MCSpec
  <1> QED
    BY <1>1, <1>2, AlwaysSafe, PTL DEF FailsWhenCutOff

(* An identity packet names the device it goes to, and an open channel to a  *)
(* paired device has the certificate that is stored, for every number of     *)
(* hosts, connections and restarts.                                          *)
THEOREM PeersStayTrusted == MCSpec => []PeersAreTrusted
  <1>1. Safe => PeersAreTrusted
    BY LanTrusts DEF Safe, PeersAreTrusted
  <1> QED
    BY <1>1, AlwaysSafe, PTL

(* What was copied last while the ends were at rest is what both have when   *)
(* they rest again, for any texts, copies and connections, if both settings  *)
(* are on at both ends, nothing is copied again after it was replaced, and   *)
(* no text is replaced while it is read for the exchange at a connection.    *)
THEOREM LastCopyStays == MCSpec => []LastCopyWins
  <1>1. Safe => LastCopyWins
    BY LastCopyFollows DEF Safe, LastCopyWins
  <1> QED
    BY <1>1, AlwaysSafe, PTL
=============================================================================
