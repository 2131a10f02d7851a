------------------------------- MODULE Pairing -------------------------------
(***************************************************************************)
(* The pairing state of a ValentDevice and the functions of valent-device.c*)
(* that change it, as operators on a record.  The modules Device and       *)
(* PairProtocol are both built from them.                                  *)
(*                                                                         *)
(*   paired, incoming, outgoing : the field, and whether each timer runs   *)
(*   stamp : pair_timestamp, 0 when unset                                  *)
(*   v8    : protocol_version >= VALENT_NETWORK_PROTOCOL_V8                *)
(*   cert  : certificate.pem exists                                        *)
(*                                                                         *)
(* A pair packet is [pair, stamp]; stamp = 0 stands for a missing field.   *)
(* `online' is device->channel # NULL, `disk' whether a file operation has *)
(* its effect, and the functions that send return the packets in `out'.    *)
(***************************************************************************)
EXTENDS Integers, Sequences, TLAPS

CONSTANTS Skew           \* PAIR_CLOCK_SKEW_THRESHOLD

ASSUME SkewAssumption == Skew \in Nat

PairState ==
    [paired : BOOLEAN, incoming : BOOLEAN, outgoing : BOOLEAN,
     stamp : Nat, v8 : BOOLEAN, cert : BOOLEAN]

PairPacket(Stamp) == [pair : BOOLEAN, stamp : Stamp]

Unpaired(v8) ==
    [paired |-> FALSE, incoming |-> FALSE, outgoing |-> FALSE,
     stamp |-> 0, v8 |-> v8, cert |-> FALSE]

(* A new process knows only what is on disk (valent_device_constructed).    *)
Restarted(d) == [Unpaired(d.v8) EXCEPT !.paired = d.cert, !.cert = d.cert]

InProgress(d) == d.incoming \/ d.outgoing

ResetPair(d) ==
    [d EXCEPT !.incoming = FALSE, !.outgoing = FALSE, !.stamp = 0]

(* Both timers end here, and set_paired() when there is nothing to change.  *)
CancelPair(d) == IF InProgress(d) THEN ResetPair(d) ELSE d

Nothing(d) == [dev |-> d, out |-> <<>>]

(* Mutant: every outgoing pair packet has a fresh timestamp. *)
SendPairAlwaysStamped(d, pair, online, now) ==
    LET stamped == [d EXCEPT !.stamp = IF d.v8 /\ pair THEN now ELSE d.stamp]
    IN  IF online
          THEN [dev |-> stamped,
                out |-> <<[pair |-> pair, stamp |-> IF d.v8 /\ pair THEN now ELSE 0]>>]
          ELSE Nothing(d)

(* valent_device_send_pair(): only the packet that opens a v8 negotiation   *)
(* is stamped, so a stamp tells a request from an acceptance.               *)
SendPair(d, pair, online, now) ==
    LET opens == d.v8 /\ d.stamp = 0 /\ pair
    IN  IF online
          THEN [dev |-> IF opens THEN [d EXCEPT !.stamp = now] ELSE d,
                out |-> <<[pair |-> pair, stamp |-> IF opens THEN now ELSE 0]>>]
          ELSE Nothing(d)

(* Mutant: a change of the paired state leaves the timers running. *)
SetPairedNoReset(d, paired, online, disk) ==
    IF d.paired = paired
      THEN CancelPair(d)
      ELSE [d EXCEPT !.paired = paired,
                     !.cert = IF paired THEN d.cert \/ (online /\ disk)
                                        ELSE d.cert /\ ~disk]

(* valent_device_set_paired(): the certificate of the current channel is    *)
(* stored or deleted, and a negotiation is over.  A file operation that     *)
(* fails is logged, and the device is paired, or not, all the same.         *)
SetPaired(d, paired, online, disk) ==
    IF d.paired = paired
      THEN CancelPair(d)
      ELSE ResetPair([d EXCEPT !.paired = paired,
                               !.cert = IF paired THEN d.cert \/ (online /\ disk)
                                                  ELSE d.cert /\ ~disk])

-----------------------------------------------------------------------------
(* valent_device_handle_pair(): what a packet means to a device.            *)

IsAcceptance(d, p) == p.pair /\ d.outgoing

IsRequest(d, p) == p.pair /\ ~InProgress(d)

(* A v8 request is ignored without a timestamp, or if the clocks differ.    *)
InTime(d, p, now) ==
    d.v8 => p.stamp # 0 /\ p.stamp - now <= Skew /\ now - p.stamp <= Skew

(* What is left of a paired device that is asked to pair.                   *)
Stamped(d, p) == IF d.v8 THEN [d EXCEPT !.stamp = p.stamp] ELSE d

(* Mutant: a request of the peer is accepted for the user. *)
HandlePairAuto(d, p, online, now, disk) ==
    IF p.pair
      THEN LET reply == SendPair(d, TRUE, online, now)
           IN  [dev |-> SetPaired(reply.dev, TRUE, online, disk), out |-> reply.out]
      ELSE Nothing(SetPaired(d, FALSE, online, disk))

HandlePair(d, p, online, now, disk) ==
    LET s == Stamped(d, p)
        reply == SendPair(s, TRUE, online, now)
    IN  CASE ~p.pair ->
                Nothing(SetPaired(d, FALSE, online, disk))
          [] IsAcceptance(d, p) ->
                Nothing(SetPaired(d, TRUE, online, disk))
          [] IsRequest(d, p) /\ InTime(d, p, now) /\ d.paired /\ s.stamp > 0 ->
                [dev |-> SetPaired(reply.dev, TRUE, online, disk),
                 out |-> reply.out]
          [] IsRequest(d, p) /\ InTime(d, p, now) /\ d.paired /\ s.stamp <= 0 ->
                Nothing([SetPaired(s, FALSE, online, disk) EXCEPT !.incoming = TRUE])
          [] IsRequest(d, p) /\ InTime(d, p, now) /\ ~d.paired ->
                Nothing([s EXCEPT !.incoming = TRUE])
          [] OTHER -> Nothing(d)

(* The `pair' action: accept, or ask, or nothing.                           *)
PairAction(d, online, now, disk) ==
    LET sent == SendPair(d, TRUE, online, now)
    IN  CASE d.incoming ->
                [dev |-> SetPaired(sent.dev, TRUE, online, disk), out |-> sent.out]
          [] ~d.incoming /\ (d.outgoing \/ d.paired) -> Nothing(d)
          [] OTHER ->
                [dev |-> [sent.dev EXCEPT !.outgoing = TRUE], out |-> sent.out]

UnpairAction(d, online, now, disk) ==
    LET sent == SendPair(d, FALSE, online, now)
    IN  [dev |-> SetPaired(sent.dev, FALSE, online, disk), out |-> sent.out]
-----------------------------------------------------------------------------
(* What these operators preserve, at any time.  A v7 device has no stamp: a  *)
(* paired one that is asked to pair again would otherwise accept for its    *)
(* user.                                                                    *)
Unstamped(d) == ~d.v8 => d.stamp = 0

Sound(d) ==
    /\ d \in PairState
    /\ Unstamped(d)
    /\ ~(d.incoming /\ d.outgoing)
    /\ d.paired => ~InProgress(d)

(* The certificate on disk follows the paired state from d to e: one that   *)
(* is not of a paired device is left from before, or could not be deleted.  *)
Stored(d, e, disk) ==
    e.cert /\ ~e.paired => d.cert /\ (d.paired => ~disk)

LEMMA ResetSound ==
  ASSUME NEW d \in PairState, Unstamped(d)
  PROVE  LET e == ResetPair(d)
         IN  /\ Sound(e) /\ ~InProgress(e)
             /\ e.paired = d.paired /\ e.cert = d.cert
  <1> DEFINE e == ResetPair(d)
  <1>1. e \in PairState
    BY DEF ResetPair, PairState
  <1>2. /\ ~e.incoming /\ ~e.outgoing /\ e.stamp = 0
        /\ e.paired = d.paired /\ e.cert = d.cert
    BY DEF ResetPair, PairState
  <1>3. Sound(e) /\ ~InProgress(e)
    <2> HIDE DEF e
    <2> QED
      BY <1>1, <1>2 DEF Sound, InProgress, Unstamped, PairState
  <1> QED
    BY <1>2, <1>3

LEMMA CancelSound ==
  ASSUME NEW d, Sound(d)
  PROVE  Sound(CancelPair(d)) /\ ~InProgress(CancelPair(d))
         /\ CancelPair(d).paired = d.paired /\ CancelPair(d).cert = d.cert
  BY ResetSound DEF CancelPair, Sound

(* Neither a paired state that is set nor one that is cleared leaves a      *)
(* negotiation behind, whatever becomes of the file.                        *)
LEMMA SetPairedSound ==
  ASSUME NEW d \in PairState, Unstamped(d),
         NEW paired \in BOOLEAN, NEW up \in BOOLEAN, NEW disk \in BOOLEAN
  PROVE  LET e == SetPaired(d, paired, up, disk)
         IN  /\ Sound(e) /\ (e.paired <=> paired) /\ ~e.incoming /\ ~e.outgoing
             /\ Stored(d, e, disk)
  <1> DEFINE f == [d EXCEPT !.paired = paired,
                            !.cert = IF paired THEN d.cert \/ (up /\ disk)
                                               ELSE d.cert /\ ~disk]
  <1>1. /\ f \in PairState /\ Unstamped(f) /\ f.paired = paired
        /\ f.cert = IF paired THEN d.cert \/ (up /\ disk) ELSE d.cert /\ ~disk
    BY DEF PairState, Unstamped
  <1>2. CASE d.paired = paired
    <2>1. SetPaired(d, paired, up, disk) = CancelPair(d)
      BY <1>2 DEF SetPaired
    <2>2. CASE InProgress(d)
      BY <1>2, <2>1, <2>2, ResetSound DEF CancelPair, InProgress, Stored
    <2>3. CASE ~InProgress(d)
      BY <1>2, <2>1, <2>3 DEF CancelPair, InProgress, Sound, Stored
    <2> QED
      BY <2>2, <2>3
  <1>3. CASE d.paired # paired
    <2>1. SetPaired(d, paired, up, disk) = ResetPair(f)
      BY <1>3 DEF SetPaired
    <2> HIDE DEF f
    <2>2. /\ Sound(ResetPair(f)) /\ ~InProgress(ResetPair(f))
          /\ ResetPair(f).paired = f.paired /\ ResetPair(f).cert = f.cert
      BY <1>1, ResetSound
    <2>3. f.cert /\ ~paired => d.cert /\ ~disk
      BY <1>1
    <2> QED
      BY <1>1, <2>1, <2>2, <2>3 DEF InProgress, Stored
  <1> QED
    BY <1>2, <1>3

(* Sending changes nothing but the timestamp.                               *)
OnlySends(r, d) ==
    /\ r.dev \in PairState /\ Unstamped(r.dev)
    /\ r.dev.paired = d.paired /\ r.dev.cert = d.cert
    /\ r.dev.incoming = d.incoming /\ r.dev.outgoing = d.outgoing
    /\ r.out \in Seq(PairPacket(Nat))

LEMMA SendPairSound ==
  ASSUME NEW d \in PairState, Unstamped(d), NEW pair \in BOOLEAN, NEW up \in BOOLEAN, NEW now \in Nat \ {0}
  PROVE  OnlySends(SendPair(d, pair, up, now), d)
  <1> DEFINE opens == d.v8 /\ d.stamp = 0 /\ pair
             e == IF opens THEN [d EXCEPT !.stamp = now] ELSE d
             m == [pair |-> pair, stamp |-> IF opens THEN now ELSE 0]
  <1>1. m \in PairPacket(Nat)
    BY DEF PairPacket
  <1>2. e \in PairState /\ Unstamped(e) /\ e.paired = d.paired
        /\ e.cert = d.cert /\ e.incoming = d.incoming /\ e.outgoing = d.outgoing
    BY DEF PairState, Unstamped
  <1>3. SendPair(d, pair, up, now)
            = IF up THEN [dev |-> e, out |-> <<m>>] ELSE [dev |-> d, out |-> <<>>]
    BY DEF SendPair, Nothing
  <1> HIDE DEF e, m
  <1>4. CASE up
    BY <1>1, <1>2, <1>3, <1>4 DEF OnlySends
  <1>5. CASE ~up
    BY <1>3, <1>5 DEF OnlySends
  <1> QED
    BY <1>4, <1>5

(* A timer is started only while nothing is paired and no other runs.       *)
LEMMA TimerSound ==
  ASSUME NEW d \in PairState, Unstamped(d), ~d.paired
  PROVE  /\ ~d.outgoing => LET e == [d EXCEPT !.incoming = TRUE]
                           IN  Sound(e) /\ ~e.paired /\ ~e.outgoing
         /\ ~d.incoming => Sound([d EXCEPT !.outgoing = TRUE])
  <1>1. ASSUME NEW e \in PairState, Unstamped(e), ~e.paired,
               ~(e.incoming /\ e.outgoing)
        PROVE  Sound(e)
    BY <1>1 DEF Sound
  <1>2. ASSUME ~d.outgoing, NEW e, e = [d EXCEPT !.incoming = TRUE]
        PROVE  Sound(e) /\ ~e.paired /\ ~e.outgoing
    <2>1. /\ e \in PairState /\ Unstamped(e) /\ ~e.paired
          /\ ~e.outgoing
      BY <1>2 DEF PairState, Unstamped
    <2> QED
      BY <1>1, <2>1
  <1>3. ASSUME ~d.incoming, NEW e, e = [d EXCEPT !.outgoing = TRUE]
        PROVE  Sound(e)
    <2>1. /\ e \in PairState /\ Unstamped(e) /\ ~e.paired
          /\ ~e.incoming
      BY <1>3 DEF PairState, Unstamped
    <2> QED
      BY <1>1, <2>1
  <1> QED
    BY <1>2, <1>3

(* What a packet does to a device: it stays sound, and is paired, or waits  *)
(* to be accepted, only if it did before and the packet did not revoke it.  *)
LEMMA HandlePairSound ==
  ASSUME NEW d, Sound(d), NEW m \in PairPacket(Nat), NEW up \in BOOLEAN,
         NEW now \in Nat \ {0}, NEW disk \in BOOLEAN
  PROVE  LET r == HandlePair(d, m, up, now, disk)
         IN  /\ Sound(r.dev) /\ r.out \in Seq(PairPacket(Nat))
             /\ Stored(d, r.dev, disk) /\ (r.dev.outgoing => d.outgoing)
             /\ r.dev.paired \/ r.dev.outgoing
                    => (d.paired \/ d.outgoing) /\ m.pair /\ ~(d.paired /\ ~d.v8)
  <1> DEFINE s == Stamped(d, m)
             reply == SendPair(s, TRUE, up, now)
             r == HandlePair(d, m, up, now, disk)
             timely == IsRequest(d, m) /\ InTime(d, m, now)
             Goal == /\ Sound(r.dev) /\ r.out \in Seq(PairPacket(Nat))
                     /\ Stored(d, r.dev, disk) /\ (r.dev.outgoing => d.outgoing)
                     /\ r.dev.paired \/ r.dev.outgoing
                            => (d.paired \/ d.outgoing) /\ m.pair /\ ~(d.paired /\ ~d.v8)
  <1> SUFFICES Goal
    OBVIOUS
  <1>1. d \in PairState /\ Unstamped(d)
        /\ m.pair \in BOOLEAN /\ m.stamp \in Nat
    BY DEF Sound, PairPacket
  <1>2. /\ s \in PairState /\ Unstamped(s)
        /\ s.paired = d.paired /\ s.cert = d.cert /\ s.v8 = d.v8
        /\ s.incoming = d.incoming /\ s.outgoing = d.outgoing
    BY <1>1 DEF Stamped, PairState, Unstamped
  <1>3. /\ reply.dev \in PairState /\ Unstamped(reply.dev)
        /\ reply.dev.paired = d.paired /\ reply.dev.cert = d.cert
        /\ reply.out \in Seq(PairPacket(Nat))
    <2> HIDE DEF s
    <2>1. OnlySends(reply, s)
      BY <1>2, SendPairSound
    <2> QED
      BY <1>1, <1>2, <2>1 DEF OnlySends
  <1> HIDE DEF s, reply, r
  <1>4. CASE ~m.pair
    <2>1. r.dev = SetPaired(d, FALSE, up, disk) /\ r.out = <<>>
      BY <1>1, <1>4 DEF r, HandlePair, Nothing, IsAcceptance, IsRequest
    <2>2. Sound(r.dev) /\ Stored(d, r.dev, disk)
      BY <1>1, <2>1, SetPairedSound
    <2>3. ~r.dev.paired /\ ~r.dev.outgoing
      BY <1>1, <2>1, SetPairedSound
    <2>4. r.out \in Seq(PairPacket(Nat))
      BY <2>1
    <2> QED
      BY <2>2, <2>3, <2>4
  <1>5. CASE IsAcceptance(d, m)
    <2>1. r.dev = SetPaired(d, TRUE, up, disk) /\ r.out = <<>>
      BY <1>1, <1>5 DEF r, HandlePair, Nothing, IsAcceptance, IsRequest, InProgress
    <2>2. m.pair /\ d.outgoing /\ ~d.paired
      BY <1>5 DEF IsAcceptance, Sound, InProgress
    <2>3. Sound(r.dev) /\ Stored(d, r.dev, disk)
      BY <1>1, <2>1, SetPairedSound
    <2>4. r.out \in Seq(PairPacket(Nat))
      BY <2>1
    <2> QED
      BY <2>2, <2>3, <2>4
  <1>6. CASE timely /\ d.paired /\ s.stamp > 0
    <2>1. m.pair /\ ~d.outgoing
      BY <1>6 DEF IsRequest, InProgress
    <2> DEFINE e == SetPaired(reply.dev, TRUE, up, disk)
    <2>2. r.dev = e /\ r.out = reply.out
      <3>1. HandlePair(d, m, up, now, disk) = [dev |-> e, out |-> reply.out]
        <4>1. ~(~m.pair) /\ ~IsAcceptance(d, m) /\ ~(s.stamp <= 0)
          BY <1>2, <1>6, <2>1 DEF IsAcceptance, PairState
        <4> QED
          BY <1>6, <4>1 DEF HandlePair, s, reply
      <3>2. r = [dev |-> e, out |-> reply.out]
        BY <3>1 DEF r
      <3> HIDE DEF e
      <3> QED
        BY <3>2
    <2>3. d.v8
      BY <1>2, <1>6 DEF Unstamped
    <2> HIDE DEF e
    <2>4. Sound(e) /\ Stored(reply.dev, e, disk) /\ ~e.outgoing
      BY <1>3, SetPairedSound DEF e
    <2>5. /\ Sound(r.dev) /\ Stored(d, r.dev, disk) /\ ~r.dev.outgoing
          /\ r.out \in Seq(PairPacket(Nat))
      BY <1>3, <2>2, <2>4 DEF Stored
    <2> QED
      BY <1>6, <2>1, <2>3, <2>5
  <1>7. CASE timely /\ d.paired /\ s.stamp <= 0
    <2> DEFINE e == SetPaired(s, FALSE, up, disk)
    <2>1. m.pair /\ ~d.outgoing
      BY <1>7 DEF IsRequest, InProgress
    <2>2. ~(s.stamp > 0)
      BY <1>2, <1>7 DEF PairState
    <2>3. r.dev = [e EXCEPT !.incoming = TRUE] /\ r.out = <<>>
      BY <1>1, <1>7, <2>1, <2>2 DEF r, HandlePair, IsAcceptance, Nothing, s
    <2>4. Sound(e) /\ ~e.paired /\ ~e.outgoing /\ Stored(s, e, disk)
      BY <1>1, <1>2, SetPairedSound
    <2> HIDE DEF e
    <2>5. e \in PairState /\ Unstamped(e)
      BY <2>4 DEF Sound
    <2>6. Sound(r.dev) /\ ~r.dev.paired /\ ~r.dev.outgoing
      BY <2>3, <2>4, <2>5, TimerSound
    <2>7. r.dev.cert = e.cert
      BY <2>3, <2>5 DEF PairState
    <2>8. Stored(d, r.dev, disk)
      BY <1>2, <2>4, <2>6, <2>7 DEF Stored
    <2> QED
      BY <2>3, <2>6, <2>8
  <1>8. CASE timely /\ ~d.paired
    <2>1. m.pair /\ ~d.outgoing
      BY <1>8 DEF IsRequest, InProgress
    <2>2. r.dev = [s EXCEPT !.incoming = TRUE] /\ r.out = <<>>
      BY <1>1, <1>8, <2>1 DEF r, HandlePair, IsAcceptance, Nothing, s
    <2>3. Sound(r.dev) /\ ~r.dev.paired /\ ~r.dev.outgoing
      BY <1>1, <1>2, <1>8, <2>1, <2>2, TimerSound
    <2>4. r.dev.cert = d.cert
      BY <1>2, <2>2 DEF PairState
    <2>5. Stored(d, r.dev, disk)
      BY <1>8, <2>4 DEF Stored
    <2> QED
      BY <2>2, <2>3, <2>5
  <1>9. CASE m.pair /\ ~IsAcceptance(d, m) /\ ~timely
    <2>1. r.dev = d /\ r.out = <<>>
      BY <1>1, <1>9 DEF r, HandlePair, Nothing
    <2>2. ~d.outgoing
      BY <1>9 DEF IsAcceptance
    <2>3. d.paired => d.v8
      BY <1>1, <1>9 DEF IsRequest, InTime, Sound
    <2>4. Stored(d, r.dev, disk)
      BY <2>1 DEF Stored
    <2> QED
      BY <1>9, <2>1, <2>2, <2>3, <2>4
  <1>10. s.stamp > 0 \/ s.stamp <= 0
    BY <1>2 DEF PairState
  <1> QED
    BY <1>4, <1>5, <1>6, <1>7, <1>8, <1>9, <1>10

(* The `pair' action of a sound device.                                     *)
LEMMA PairActionSound ==
  ASSUME NEW d, Sound(d), NEW up \in BOOLEAN, NEW now \in Nat \ {0},
         NEW disk \in BOOLEAN
  PROVE  LET r == PairAction(d, up, now, disk)
         IN  Sound(r.dev) /\ r.out \in Seq(PairPacket(Nat)) /\ Stored(d, r.dev, disk)
  <1> DEFINE sent == SendPair(d, TRUE, up, now)
             r == PairAction(d, up, now, disk)
  <1>1. d \in PairState /\ Unstamped(d)
    BY DEF Sound
  <1>2. /\ sent.dev \in PairState /\ Unstamped(sent.dev)
        /\ sent.dev.paired = d.paired /\ sent.dev.cert = d.cert
        /\ sent.dev.incoming = d.incoming /\ sent.dev.outgoing = d.outgoing
        /\ sent.out \in Seq(PairPacket(Nat))
    <2>1. OnlySends(sent, d)
      BY <1>1, SendPairSound
    <2> QED
      BY <2>1 DEF OnlySends
  <1> HIDE DEF sent
  <1>3. CASE d.incoming
    <2>1. r.dev = SetPaired(sent.dev, TRUE, up, disk) /\ r.out = sent.out
      BY <1>3 DEF PairAction, sent
    <2> HIDE DEF r
    <2>2. Sound(r.dev) /\ Stored(sent.dev, r.dev, disk)
      BY <1>2, <2>1, SetPairedSound
    <2>3. Sound(r.dev) /\ r.out \in Seq(PairPacket(Nat)) /\ Stored(d, r.dev, disk)
      BY <1>2, <2>1, <2>2 DEF Stored
    <2> QED
      BY <2>3 DEF r
  <1>4. CASE ~d.incoming /\ (d.outgoing \/ d.paired)
    <2>1. r.dev = d /\ r.out = <<>>
      BY <1>4 DEF PairAction, Nothing
    <2> HIDE DEF r
    <2>2. Sound(r.dev) /\ r.out \in Seq(PairPacket(Nat)) /\ Stored(d, r.dev, disk)
      BY <2>1 DEF Stored
    <2> QED
      BY <2>2 DEF r
  <1>5. CASE ~d.incoming /\ ~(d.outgoing \/ d.paired)
    <2>1. r.dev = [sent.dev EXCEPT !.outgoing = TRUE] /\ r.out = sent.out
      BY <1>5 DEF PairAction, sent
    <2>2. ~sent.dev.paired /\ ~sent.dev.incoming
      BY <1>2, <1>5
    <2> HIDE DEF r
    <2>3. Sound(r.dev) /\ r.out \in Seq(PairPacket(Nat)) /\ r.dev.cert = d.cert
      BY <1>2, <2>1, <2>2, TimerSound DEF PairState
    <2>4. Stored(d, r.dev, disk)
      BY <1>5, <2>3 DEF Stored
    <2> QED
      BY <2>3, <2>4 DEF r
  <1> QED
    BY <1>3, <1>4, <1>5

(* The `unpair' action, which leaves the device unpaired.                   *)
LEMMA UnpairActionSound ==
  ASSUME NEW d, Sound(d), NEW up \in BOOLEAN, NEW now \in Nat \ {0},
         NEW disk \in BOOLEAN
  PROVE  LET r == UnpairAction(d, up, now, disk)
         IN  /\ Sound(r.dev) /\ r.out \in Seq(PairPacket(Nat))
             /\ Stored(d, r.dev, disk)
             /\ ~r.dev.paired /\ ~r.dev.outgoing
  <1> DEFINE sent == SendPair(d, FALSE, up, now)
             e == SetPaired(sent.dev, FALSE, up, disk)
  <1>1. d \in PairState /\ Unstamped(d)
    BY DEF Sound
  <1>2. /\ sent.dev \in PairState /\ Unstamped(sent.dev)
        /\ sent.dev.cert = d.cert /\ sent.dev.paired = d.paired
        /\ sent.out \in Seq(PairPacket(Nat))
    <2>1. OnlySends(sent, d)
      BY <1>1, SendPairSound
    <2> HIDE DEF sent
    <2> QED
      BY <2>1 DEF OnlySends
  <1>3. UnpairAction(d, up, now, disk) = [dev |-> e, out |-> sent.out]
    BY DEF UnpairAction
  <1> HIDE DEF sent
  <1>4. Sound(e) /\ ~e.paired /\ ~e.outgoing /\ Stored(sent.dev, e, disk)
    BY <1>1, <1>2, SetPairedSound
  <1>5. /\ Sound(e) /\ ~e.paired /\ ~e.outgoing /\ sent.out \in Seq(PairPacket(Nat))
        /\ Stored(d, e, disk)
    BY <1>2, <1>4 DEF Stored
  <1> HIDE DEF e
  <1> DEFINE r == [dev |-> e, out |-> sent.out]
  <1>6. r.dev = e /\ r.out = sent.out
    OBVIOUS
  <1> HIDE DEF r
  <1> QED
    BY <1>3, <1>5, <1>6 DEF e, r
=============================================================================
