---------------------------- MODULE PairProtocol ----------------------------
(***************************************************************************)
(* Two instances of Valent that pair with each other over one connection:  *)
(* the users press `pair' and `unpair', the 30 second timers expire,       *)
(* packets travel in order, the connection drops and comes back, either    *)
(* process restarts, and the file with the certificate of the other cannot *)
(* always be written or deleted.                                           *)
(***************************************************************************)
EXTENDS Pairing, FiniteSets, TLAPS

CONSTANTS
    Peer,                \* the two devices
    Versions,            \* whether they speak protocol v8 (TRUE), v7 (FALSE)
    MaxActions,          \* bounds the actions of the users
    MaxData,             \* bounds the other packets
    MaxDrops,            \* bounds lost connections and restarts
    MaxClock             \* bounds the clock

ASSUME PeerAssumption == IsFiniteSet(Peer) /\ Cardinality(Peer) = 2
ASSUME VersionAssumption == Versions \subseteq BOOLEAN
ASSUME BoundAssumption ==
    MaxActions \in Nat /\ MaxData \in Nat /\ MaxDrops \in Nat /\ MaxClock \in Nat \ {0}

VARIABLES
    dev,                 \* the pairing state of each device
    link,                \* the packets on their way to each device
    online,              \* the devices have a channel to each other
    clock,               \* the time both read, in seconds
    actions, data, drops,\* how many of each there were
    wants,               \* history: the user agreed, and nothing revoked it
    kept                 \* history: those who could not delete the certificate
                         \* of the other when they were unpaired from it

vars == <<dev, link, online, clock, actions, data, drops, wants, kept>>

Other(p) == CHOOSE q \in Peer : q # p

Data == [data |-> TRUE]

IsPair(m) == m # Data

Packet == PairPacket(Nat) \cup {Data}

Init ==
    /\ \E v8 \in Versions : dev = [p \in Peer |-> Unpaired(v8)]
    /\ link = [p \in Peer |-> <<>>]
    /\ online = TRUE
    /\ clock = 1
    /\ actions = 0 /\ data = 0 /\ drops = 0
    /\ wants = [p \in Peer |-> FALSE]
    /\ kept = {}

(* The history of p's file when p becomes e: an unpairing that could not    *)
(* delete it leaves it behind until p is paired again.  An unpaired device  *)
(* that is unpaired once more does not try again.                           *)
Keeps(p, e, disk) ==
    kept' = CASE dev[p].paired /\ ~e.paired ->
                    IF dev[p].cert /\ ~disk THEN kept \cup {p} ELSE kept \ {p}
              [] ~dev[p].paired /\ e.paired -> kept \ {p}
              [] OTHER -> kept

(* Device p becomes r.dev and writes r.out to its channel.                  *)
Become(p, r, disk) ==
    /\ dev' = [dev EXCEPT ![p] = r.dev]
    /\ link' = [link EXCEPT ![Other(p)] = @ \o r.out]
    /\ Keeps(p, r.dev, disk)

UserPairs(p) ==
    /\ actions < MaxActions
    /\ actions' = actions + 1
    /\ \E disk \in BOOLEAN : Become(p, PairAction(dev[p], online, clock, disk), disk)
    /\ wants' = [wants EXCEPT ![p] = TRUE]
    /\ UNCHANGED <<online, clock, data, drops>>

UserUnpairs(p) ==
    /\ actions < MaxActions
    /\ actions' = actions + 1
    /\ \E disk \in BOOLEAN : Become(p, UnpairAction(dev[p], online, clock, disk), disk)
    /\ wants' = [wants EXCEPT ![p] = FALSE]
    /\ UNCHANGED <<online, clock, data, drops>>

(* valent_device_cancel_pair() as the callback of either timer.             *)
Timeout(p) ==
    /\ InProgress(dev[p])
    /\ dev' = [dev EXCEPT ![p] = CancelPair(@)]
    /\ wants' = [wants EXCEPT ![p] = FALSE]
    /\ UNCHANGED <<link, online, clock, actions, data, drops, kept>>

ReceivePair(p) ==
    LET m == Head(link[p])
    IN  /\ link[p] # <<>>
        /\ IsPair(m)
        /\ \E disk \in BOOLEAN :
              LET r == HandlePair(dev[p], m, online, clock, disk)
              IN  /\ dev' = [dev EXCEPT ![p] = r.dev]
                  /\ link' = [link EXCEPT ![p] = Tail(@), ![Other(p)] = @ \o r.out]
                  /\ Keeps(p, r.dev, disk)
        \* a refusal, or a v7 request to a paired device, ends the agreement
        /\ wants' = [wants EXCEPT ![p] =
                        @ /\ m.pair /\ ~(dev[p].paired /\ ~dev[p].v8)]
        /\ UNCHANGED <<online, clock, actions, data, drops>>

(* Mutant: the packets of an unpaired device are dropped without a word. *)
ReceiveDataSilent(p) ==
    /\ link[p] # <<>>
    /\ Head(link[p]) = Data
    /\ link' = [link EXCEPT ![p] = Tail(@)]
    /\ UNCHANGED <<dev, online, clock, actions, data, drops, wants, kept>>

(* valent_device_handle_packet() for a packet of any other type: an unpaired*)
(* device tells the sender so.                                              *)
ReceiveData(p) ==
    LET r == IF dev[p].paired THEN Nothing(dev[p])
                              ELSE SendPair(dev[p], FALSE, online, clock)
    IN  /\ link[p] # <<>>
        /\ Head(link[p]) = Data
        /\ dev' = [dev EXCEPT ![p] = r.dev]
        /\ link' = [link EXCEPT ![p] = Tail(@), ![Other(p)] = @ \o r.out]
        /\ UNCHANGED <<online, clock, actions, data, drops, wants, kept>>

(* valent_device_send_packet() of some plugin.                              *)
SendData(p) ==
    /\ data < MaxData
    /\ online /\ dev[p].paired
    /\ data' = data + 1
    /\ link' = [link EXCEPT ![Other(p)] = Append(@, Data)]
    /\ UNCHANGED <<dev, online, clock, actions, drops, wants, kept>>

(* The connection is lost with everything on it.  A device that had a pair  *)
(* packet on its way may see the write fail: send_pair_cb() resets it.      *)
Disconnect ==
    /\ online
    /\ drops < MaxDrops
    /\ drops' = drops + 1
    /\ online' = FALSE
    /\ link' = [p \in Peer |-> <<>>]
    /\ \E F \in SUBSET {p \in Peer : \E i \in DOMAIN link[Other(p)] :
                                         IsPair(link[Other(p)][i])} :
          /\ dev' = [p \in Peer |-> IF p \in F THEN ResetPair(dev[p]) ELSE dev[p]]
          /\ wants' = [p \in Peer |-> wants[p] /\ (p \in F => dev[p].paired)]
    /\ UNCHANGED <<clock, actions, data, kept>>

Connect ==
    /\ ~online
    /\ online' = TRUE
    /\ UNCHANGED <<dev, link, clock, actions, data, drops, wants, kept>>

(* A process ends and starts again: timers and packets are lost, and it is  *)
(* paired if it finds a certificate, whoever agreed to that.                *)
Restart(p) ==
    /\ drops < MaxDrops
    /\ drops' = drops + 1
    /\ dev' = [dev EXCEPT ![p] = Restarted(@)]
    /\ link' = [q \in Peer |-> <<>>]
    /\ online' = FALSE
    /\ wants' = [wants EXCEPT ![p] = @ /\ dev[p].paired /\ dev[p].cert]
    /\ UNCHANGED <<clock, actions, data, kept>>

Tick ==
    /\ clock < MaxClock
    /\ clock' = clock + 1
    /\ UNCHANGED <<dev, link, online, actions, data, drops, wants, kept>>

Next ==
    \/ \E p \in Peer :
          \/ UserPairs(p) \/ UserUnpairs(p) \/ Timeout(p)
          \/ ReceivePair(p) \/ ReceiveData(p) \/ SendData(p)
          \/ Restart(p)
    \/ Disconnect \/ Connect \/ Tick

Spec == Init /\ [][Next]_vars

(* The main loop reads what arrives.  The users do as they like.            *)
FairSpec ==
    /\ Spec
    /\ \A p \in Peer : WF_vars(ReceivePair(p)) /\ WF_vars(ReceiveData(p))
-----------------------------------------------------------------------------
TypeOK ==
    /\ dev \in [Peer -> PairState]
    /\ link \in [Peer -> Seq(Packet)]
    /\ online \in BOOLEAN
    /\ clock \in 1 .. MaxClock
    /\ actions \in 0 .. MaxActions
    /\ data \in 0 .. MaxData
    /\ drops \in 0 .. MaxDrops
    /\ wants \in [Peer -> BOOLEAN]
    /\ kept \subseteq Peer

(* The two timers and the paired state exclude each other, whatever crosses *)
(* whatever: a paired device never shows a pairing request.                 *)
OneNegotiation ==
    \A p \in Peer :
        /\ ~(dev[p].incoming /\ dev[p].outgoing)
        /\ dev[p].paired => ~InProgress(dev[p])

(* A device is paired, or waits to be accepted, only while its own user's   *)
(* agreement stands: no late, repeated or crossing packet revives a request *)
(* that timed out, was refused or was withdrawn.  Only the restart of a     *)
(* process that failed to delete the certificate makes it paired again.     *)
Consent ==
    \A p \in Peer :
        /\ dev[p].outgoing => wants[p]
        /\ dev[p].paired => wants[p] \/ p \in kept

(* A certificate is on disk only while its device is paired, or if the disk *)
(* failed when it was to be deleted: what is paired after a restart was     *)
(* paired before it, but for that.                                          *)
StoredOnlyWhilePaired ==
    \A p \in Peer : dev[p].cert => dev[p].paired \/ p \in kept

(* Both: what a device shows, negotiates and remembers excludes one another *)
(* as the user expects.                                                     *)
PairingIsSound == OneNegotiation /\ StoredOnlyWhilePaired

(* valent_device_get_verification_key(): of the public keys of both, the      *)
(* greater one first, so that the ends need not agree on an order; and of     *)
(* the timestamp, since version 8.  There is none without a channel.          *)
VerificationKey(p) ==
    IF ~online THEN {}
    ELSE {[keys |-> {p, Other(p)}, stamp |-> IF dev[p].v8 THEN dev[p].stamp ELSE 0]}

(* The key that two users compare while one of them is asked to accept the  *)
(* request of the other contains the timestamp of the request: with nothing *)
(* in transit both ends must have the same one.                             *)
KeysAgree ==
    \A p \in Peer :
        (/\ online /\ dev[p].v8
         /\ dev[p].outgoing /\ dev[p].stamp # 0
         /\ dev[Other(p)].incoming
         /\ \A q \in Peer : link[q] = <<>>)
            => VerificationKey(p) = VerificationKey(Other(p))

(* Two devices never talk about pairing for ever: once the users are done,  *)
(* the packets stop, no matter how requests and acceptances crossed.        *)
EventuallyQuiet == <>[](\A p \in Peer : link[p] = <<>>)

(* A device that still believes it is paired learns the truth when it sends *)
(* something: the other end says that it is not.                            *)
MismatchHeals ==
    \A p \in Peer :
        (/\ online
         /\ link[p] # <<>> /\ Head(link[p]) = Data
         /\ ~dev[p].paired)
            ~> (~online \/ dev[p].paired \/ ~dev[Other(p)].paired)
-----------------------------------------------------------------------------
(* Proofs, from what module Pairing proves of its operators.                *)
Inv ==
    /\ TypeOK
    /\ \A p \in Peer : Sound(dev[p])
    /\ Consent
    /\ StoredOnlyWhilePaired

(* A pair packet is told from the others by its fields.                     *)
LEMMA PacketKinds ==
  /\ \A m \in Packet : IsPair(m) => m \in PairPacket(Nat)
  /\ \A s \in Seq(PairPacket(Nat)) : s \in Seq(Packet)
  BY DEF Packet, IsPair

(* A step of device p leaves the invariant of the devices alone if what     *)
(* becomes of p is sound and has its user's agreement, and its file with it.*)
LEMMA OneDeviceSteps ==
  ASSUME Inv, NEW p \in Peer, NEW e, Sound(e), NEW w \in BOOLEAN,
         e.outgoing => w, e.paired => w \/ p \in kept',
         e.cert => e.paired \/ p \in kept',
         kept' \subseteq Peer, \A q \in Peer \ {p} : q \in kept => q \in kept',
         dev' = [dev EXCEPT ![p] = e], wants' = [wants EXCEPT ![p] = w]
  PROVE  /\ dev' \in [Peer -> PairState]
         /\ wants' \in [Peer -> BOOLEAN]
         /\ \A q \in Peer : Sound(dev'[q])
         /\ Consent' /\ StoredOnlyWhilePaired'
  <1>1. dev \in [Peer -> PairState] /\ wants \in [Peer -> BOOLEAN]
    BY DEF Inv, TypeOK
  <1>2. \A q \in Peer : /\ dev'[q] = IF q = p THEN e ELSE dev[q]
                        /\ wants'[q] = IF q = p THEN w ELSE wants[q]
    BY <1>1
  <1>3. \A q \in Peer : Sound(dev'[q])
    BY <1>2 DEF Inv
  <1>4. dev' \in [Peer -> PairState] /\ wants' \in [Peer -> BOOLEAN]
    BY <1>1 DEF Sound
  <1>5. ASSUME NEW q \in Peer
        PROVE  /\ dev'[q].outgoing => wants'[q]
               /\ dev'[q].paired => wants'[q] \/ q \in kept'
               /\ dev'[q].cert => dev'[q].paired \/ q \in kept'
    <2>1. CASE q = p
      BY <1>2, <2>1
    <2>2. CASE q # p
      BY <1>2, <2>2 DEF Inv, Consent, StoredOnlyWhilePaired
    <2> QED
      BY <2>1, <2>2
  <1> QED
    BY <1>3, <1>4, <1>5 DEF Consent, StoredOnlyWhilePaired

(* What the history says of the file of p, whether the disk failed or not.  *)
LEMMA KeepsFacts ==
  ASSUME Inv, NEW p \in Peer, NEW e, NEW disk \in BOOLEAN, Sound(e),
         Stored(dev[p], e, disk), Keeps(p, e, disk)
  PROVE  /\ kept' \subseteq Peer /\ \A q \in Peer \ {p} : q \in kept => q \in kept'
         /\ e.cert => e.paired \/ p \in kept'
         /\ e.paired /\ dev[p].paired /\ p \in kept => p \in kept'
  <1>1. /\ kept \subseteq Peer
        /\ dev[p].cert => dev[p].paired \/ p \in kept
        /\ dev[p].paired \in BOOLEAN /\ dev[p].cert \in BOOLEAN
        /\ e.paired \in BOOLEAN /\ e.cert \in BOOLEAN
    BY DEF Inv, TypeOK, StoredOnlyWhilePaired, Sound, PairState
  <1>2. CASE dev[p].paired /\ ~e.paired
    BY <1>1, <1>2 DEF Keeps, Stored
  <1>3. CASE ~dev[p].paired /\ e.paired
    BY <1>1, <1>3 DEF Keeps, Stored
  <1>4. CASE dev[p].paired <=> e.paired
    <2>1. kept' = kept
      BY <1>4 DEF Keeps
    <2> QED
      BY <1>1, <1>4, <2>1 DEF Stored
  <1> QED
    BY <1>1, <1>2, <1>3, <1>4

(* The queues hold packets, whatever is appended and taken.                 *)
LEMMA Queues ==
  ASSUME link \in [Peer -> Seq(Packet)], NEW p \in Peer, NEW q, NEW out \in Seq(Packet)
  PROVE  /\ [link EXCEPT ![q] = @ \o out] \in [Peer -> Seq(Packet)]
         /\ link[p] # <<>> =>
              /\ Head(link[p]) \in Packet
              /\ [link EXCEPT ![p] = Tail(@), ![q] = @ \o out] \in [Peer -> Seq(Packet)]
  <1>1. \A x \in Peer : link[x] \o out \in Seq(Packet)
    OBVIOUS
  <1>2. ASSUME link[p] # <<>>
        PROVE  /\ Head(link[p]) \in Packet /\ Tail(link[p]) \in Seq(Packet)
               /\ Tail(link[p]) \o out \in Seq(Packet)
    BY <1>2
  <1> QED
    BY <1>1, <1>2

LEMMA InitInv == Init => Inv
  <1> SUFFICES ASSUME Init PROVE Inv
    OBVIOUS
  <1>1. PICK v8 \in Versions : dev = [p \in Peer |-> Unpaired(v8)]
    BY DEF Init
  <1>2. /\ Sound(Unpaired(v8)) /\ ~Unpaired(v8).cert
        /\ ~Unpaired(v8).paired /\ ~Unpaired(v8).outgoing
    <2>1. v8 \in BOOLEAN
      BY VersionAssumption
    <2> QED
      BY <2>1 DEF Sound, Unpaired, PairState, InProgress, Unstamped
  <1>3. dev \in [Peer -> PairState]
    BY <1>1, <1>2 DEF Sound
  <1> QED
    BY <1>1, <1>2, <1>3, BoundAssumption
    DEF Init, Inv, TypeOK, Consent, StoredOnlyWhilePaired

LEMMA StepInv == Inv /\ [Next]_vars => Inv'
  <1> SUFFICES ASSUME Inv, [Next]_vars PROVE Inv'
    OBVIOUS
  <1>1. /\ dev \in [Peer -> PairState] /\ link \in [Peer -> Seq(Packet)]
        /\ online \in BOOLEAN /\ clock \in 1 .. MaxClock
        /\ actions \in 0 .. MaxActions /\ data \in 0 .. MaxData
        /\ drops \in 0 .. MaxDrops /\ wants \in [Peer -> BOOLEAN]
        /\ kept \subseteq Peer
        /\ \A p \in Peer : Sound(dev[p])
    BY DEF Inv, TypeOK
  <1>now. clock \in Nat \ {0}
    BY <1>1
  <1>2. /\ <<>> \in Seq(Packet) /\ <<Data>> \in Seq(Packet)
        /\ <<>> \in Seq(PairPacket(Nat))
    BY DEF Packet
  <1>3. ASSUME NEW p \in Peer, UserPairs(p) PROVE Inv'
    <2>1. PICK disk \in BOOLEAN : Become(p, PairAction(dev[p], online, clock, disk), disk)
      BY <1>3 DEF UserPairs
    <2> DEFINE r == PairAction(dev[p], online, clock, disk)
    <2>2. /\ Sound(r.dev) /\ r.out \in Seq(PairPacket(Nat))
          /\ Stored(dev[p], r.dev, disk)
      BY <1>now, <1>1, PairActionSound
    <2>3. dev' = [dev EXCEPT ![p] = r.dev] /\ wants' = [wants EXCEPT ![p] = TRUE]
          /\ link' = [link EXCEPT ![Other(p)] = @ \o r.out]
          /\ Keeps(p, r.dev, disk)
          /\ actions < MaxActions /\ actions' = actions + 1
          /\ UNCHANGED <<online, clock, data, drops>>
      BY <1>3, <2>1 DEF UserPairs, Become
    <2> HIDE DEF r
    <2>4. /\ kept' \subseteq Peer /\ \A q \in Peer \ {p} : q \in kept => q \in kept'
          /\ r.dev.cert => r.dev.paired \/ p \in kept'
      BY <2>2, <2>3, KeepsFacts
    <2>5. /\ dev' \in [Peer -> PairState] /\ wants' \in [Peer -> BOOLEAN]
          /\ \A q \in Peer : Sound(dev'[q])
          /\ Consent' /\ StoredOnlyWhilePaired'
      BY <2>2, <2>3, <2>4, OneDeviceSteps
    <2>6. link' \in [Peer -> Seq(Packet)]
      BY <1>1, <2>2, <2>3, Queues, PacketKinds
    <2> QED
      BY <1>1, <2>3, <2>4, <2>5, <2>6, BoundAssumption DEF Inv, TypeOK
  <1>4. ASSUME NEW p \in Peer, UserUnpairs(p) PROVE Inv'
    <2>1. PICK disk \in BOOLEAN : Become(p, UnpairAction(dev[p], online, clock, disk), disk)
      BY <1>4 DEF UserUnpairs
    <2> DEFINE r == UnpairAction(dev[p], online, clock, disk)
    <2>2. /\ Sound(r.dev) /\ r.out \in Seq(PairPacket(Nat))
          /\ Stored(dev[p], r.dev, disk) /\ ~r.dev.paired /\ ~r.dev.outgoing
      BY <1>now, <1>1, UnpairActionSound
    <2>3. dev' = [dev EXCEPT ![p] = r.dev] /\ wants' = [wants EXCEPT ![p] = FALSE]
          /\ link' = [link EXCEPT ![Other(p)] = @ \o r.out]
          /\ Keeps(p, r.dev, disk)
          /\ actions < MaxActions /\ actions' = actions + 1
          /\ UNCHANGED <<online, clock, data, drops>>
      BY <1>4, <2>1 DEF UserUnpairs, Become
    <2> HIDE DEF r
    <2>4. /\ kept' \subseteq Peer /\ \A q \in Peer \ {p} : q \in kept => q \in kept'
          /\ r.dev.cert => r.dev.paired \/ p \in kept'
      BY <2>2, <2>3, KeepsFacts
    <2>5. /\ dev' \in [Peer -> PairState] /\ wants' \in [Peer -> BOOLEAN]
          /\ \A q \in Peer : Sound(dev'[q])
          /\ Consent' /\ StoredOnlyWhilePaired'
      BY <2>2, <2>3, <2>4, OneDeviceSteps
    <2>6. link' \in [Peer -> Seq(Packet)]
      BY <1>1, <2>2, <2>3, Queues, PacketKinds
    <2> QED
      BY <1>1, <2>3, <2>4, <2>5, <2>6, BoundAssumption DEF Inv, TypeOK
  <1>5. ASSUME NEW p \in Peer, Timeout(p) PROVE Inv'
    <2> DEFINE e == CancelPair(dev[p])
    <2>1. Sound(e) /\ ~e.paired /\ ~e.outgoing /\ e.cert = dev[p].cert
      <3>1. ~dev[p].paired
        BY <1>1, <1>5 DEF Timeout, Sound
      <3>2. /\ Sound(e) /\ ~InProgress(e)
            /\ e.paired = dev[p].paired /\ e.cert = dev[p].cert
        BY <1>1, CancelSound
      <3> HIDE DEF e
      <3> QED
        BY <3>1, <3>2 DEF InProgress
    <2>2. dev' = [dev EXCEPT ![p] = e] /\ wants' = [wants EXCEPT ![p] = FALSE]
          /\ UNCHANGED <<link, online, clock, actions, data, drops, kept>>
      BY <1>5 DEF Timeout
    <2> HIDE DEF e
    <2>3. e.cert => e.paired \/ p \in kept'
      BY <1>1, <1>5, <2>1, <2>2 DEF Inv, StoredOnlyWhilePaired, Timeout, Sound
    <2>4. /\ dev' \in [Peer -> PairState] /\ wants' \in [Peer -> BOOLEAN]
          /\ \A q \in Peer : Sound(dev'[q])
          /\ Consent' /\ StoredOnlyWhilePaired'
      BY <1>1, <2>1, <2>2, <2>3, OneDeviceSteps
    <2> QED
      BY <1>1, <2>2, <2>4 DEF Inv, TypeOK
  <1>6. ASSUME NEW p \in Peer, ReceivePair(p) PROVE Inv'
    <2> DEFINE m == Head(link[p])
               w == wants[p] /\ m.pair /\ ~(dev[p].paired /\ ~dev[p].v8)
    <2>1. PICK disk \in BOOLEAN :
            LET r == HandlePair(dev[p], m, online, clock, disk)
            IN  /\ dev' = [dev EXCEPT ![p] = r.dev]
                /\ link' = [link EXCEPT ![p] = Tail(@), ![Other(p)] = @ \o r.out]
                /\ Keeps(p, r.dev, disk)
      BY <1>6 DEF ReceivePair
    <2> DEFINE r == HandlePair(dev[p], m, online, clock, disk)
    <2>2. /\ link[p] # <<>> /\ IsPair(m)
          /\ dev' = [dev EXCEPT ![p] = r.dev]
          /\ link' = [link EXCEPT ![p] = Tail(@), ![Other(p)] = @ \o r.out]
          /\ Keeps(p, r.dev, disk)
          /\ wants' = [wants EXCEPT ![p] = w]
          /\ UNCHANGED <<online, clock, actions, data, drops>>
      BY <1>6, <2>1 DEF ReceivePair
    <2>3. m \in PairPacket(Nat)
      BY <1>1, <1>2, <2>2, Queues, PacketKinds
    <2> HIDE DEF m
    <2>4. /\ Sound(r.dev) /\ r.out \in Seq(PairPacket(Nat))
          /\ Stored(dev[p], r.dev, disk) /\ (r.dev.outgoing => dev[p].outgoing)
          /\ r.dev.paired \/ r.dev.outgoing =>
               /\ dev[p].paired \/ dev[p].outgoing
               /\ m.pair /\ ~(dev[p].paired /\ ~dev[p].v8)
      BY <1>now, <1>1, <2>3, HandlePairSound
    <2> HIDE DEF r
    <2>5. /\ kept' \subseteq Peer /\ \A q \in Peer \ {p} : q \in kept => q \in kept'
          /\ r.dev.cert => r.dev.paired \/ p \in kept'
          /\ r.dev.paired /\ dev[p].paired /\ p \in kept => p \in kept'
      BY <2>2, <2>4, KeepsFacts
    <2>6. /\ dev[p].outgoing => wants[p]
          /\ dev[p].paired => wants[p] \/ p \in kept
      BY DEF Inv, Consent
    <2>7. (r.dev.outgoing => w) /\ (r.dev.paired => w \/ p \in kept')
      BY <2>4, <2>5, <2>6
    <2>8. w \in BOOLEAN
      OBVIOUS
    <2> HIDE DEF w
    <2>9. /\ dev' \in [Peer -> PairState] /\ wants' \in [Peer -> BOOLEAN]
          /\ \A q \in Peer : Sound(dev'[q])
          /\ Consent' /\ StoredOnlyWhilePaired'
      BY <2>2, <2>4, <2>5, <2>7, <2>8, OneDeviceSteps
    <2>10. link' \in [Peer -> Seq(Packet)]
      BY <1>1, <2>2, <2>4, Queues, PacketKinds
    <2> QED
      BY <1>1, <2>2, <2>5, <2>9, <2>10 DEF Inv, TypeOK
  <1>7. ASSUME NEW p \in Peer, ReceiveData(p) PROVE Inv'
    <2> DEFINE r == IF dev[p].paired THEN Nothing(dev[p])
                                     ELSE SendPair(dev[p], FALSE, online, clock)
    <2>1. /\ link[p] # <<>>
          /\ dev' = [dev EXCEPT ![p] = r.dev]
          /\ link' = [link EXCEPT ![p] = Tail(@), ![Other(p)] = @ \o r.out]
          /\ UNCHANGED <<online, clock, actions, data, drops, wants, kept>>
      BY <1>7 DEF ReceiveData
    <2>2. /\ Sound(r.dev) /\ r.out \in Seq(PairPacket(Nat))
          /\ r.dev.paired = dev[p].paired /\ r.dev.outgoing = dev[p].outgoing
          /\ r.dev.cert = dev[p].cert
      <3>1. CASE dev[p].paired
        BY <1>1, <1>2, <3>1 DEF Nothing
      <3>2. CASE ~dev[p].paired
        <4> DEFINE s == SendPair(dev[p], FALSE, online, clock)
        <4>1. /\ s.dev \in PairState /\ Unstamped(s.dev)
              /\ s.dev.paired = dev[p].paired /\ s.dev.cert = dev[p].cert
              /\ s.dev.incoming = dev[p].incoming /\ s.dev.outgoing = dev[p].outgoing
              /\ s.out \in Seq(PairPacket(Nat))
          <5>1. dev[p] \in PairState /\ Unstamped(dev[p])
            BY <1>1 DEF Sound
          <5>2. OnlySends(s, dev[p])
            BY <1>now, <1>1, <5>1, SendPairSound
          <5> HIDE DEF s
          <5> QED
            BY <5>2 DEF OnlySends
        <4>2. r = s
          BY <3>2
        <4> HIDE DEF r, s
        <4>3. Sound(s.dev)
          BY <1>1, <4>1 DEF Sound, InProgress
        <4> QED
          BY <4>1, <4>2, <4>3
      <3> QED
        BY <3>1, <3>2
    <2> HIDE DEF r
    <2>3. wants' = [wants EXCEPT ![p] = wants[p]] /\ wants[p] \in BOOLEAN
          /\ (r.dev.outgoing => wants[p]) /\ (r.dev.paired => wants[p] \/ p \in kept')
          /\ (r.dev.cert => r.dev.paired \/ p \in kept')
      BY <1>1, <2>1, <2>2 DEF Inv, Consent, StoredOnlyWhilePaired
    <2>4. /\ dev' \in [Peer -> PairState] /\ wants' \in [Peer -> BOOLEAN]
          /\ \A q \in Peer : Sound(dev'[q])
          /\ Consent' /\ StoredOnlyWhilePaired'
      BY <1>1, <2>1, <2>2, <2>3, OneDeviceSteps
    <2>5. link' \in [Peer -> Seq(Packet)]
      BY <1>1, <2>1, <2>2, Queues, PacketKinds
    <2> QED
      BY <1>1, <2>1, <2>4, <2>5 DEF Inv, TypeOK
  <1>8. ASSUME NEW p \in Peer, SendData(p) PROVE Inv'
    <2>1. link' \in [Peer -> Seq(Packet)]
      <3>1. link' = [link EXCEPT ![Other(p)] = @ \o <<Data>>]
        <4>1. \A s \in Seq(Packet) : Append(s, Data) = s \o <<Data>>
          OBVIOUS
        <4>2. link' = [link EXCEPT ![Other(p)] = Append(@, Data)]
          BY <1>8 DEF SendData
        <4> QED
          BY <1>1, <4>1, <4>2
      <3> QED
        BY <1>1, <1>2, <3>1, Queues, PacketKinds
    <2> QED
      BY <1>1, <1>8, <2>1, BoundAssumption DEF SendData, Inv, TypeOK, Consent, StoredOnlyWhilePaired
  <1>9. ASSUME NEW p \in Peer, Restart(p) PROVE Inv'
    <2> DEFINE e == Restarted(dev[p])
    <2>1. /\ dev' = [dev EXCEPT ![p] = e]
          /\ wants' = [wants EXCEPT ![p] = wants[p] /\ dev[p].paired /\ dev[p].cert]
          /\ link' = [q \in Peer |-> <<>>] /\ online' = FALSE
          /\ drops < MaxDrops /\ drops' = drops + 1
          /\ UNCHANGED <<clock, actions, data, kept>>
      BY <1>9 DEF Restart
    <2>2. /\ e \in PairState /\ e.stamp = 0
          /\ ~e.incoming /\ ~e.outgoing
          /\ e.paired = dev[p].cert /\ e.cert = dev[p].cert
      BY <1>1 DEF Restarted, Unpaired, PairState
    <2> HIDE DEF e
    <2>3. Sound(e)
      BY <2>2 DEF Sound, Unstamped, InProgress
    <2> DEFINE w == wants[p] /\ dev[p].paired /\ dev[p].cert
    <2>4. /\ e.outgoing => w /\ w \in BOOLEAN
          /\ e.paired => w \/ p \in kept'
          /\ e.cert => e.paired
      BY <1>1, <2>1, <2>2 DEF Inv, Consent, StoredOnlyWhilePaired
    <2>w. w \in BOOLEAN /\ wants' = [wants EXCEPT ![p] = w]
      BY <2>1
    <2> HIDE DEF w
    <2>5. /\ dev' \in [Peer -> PairState] /\ wants' \in [Peer -> BOOLEAN]
          /\ \A q \in Peer : Sound(dev'[q])
          /\ Consent' /\ StoredOnlyWhilePaired'
      BY <1>1, <2>1, <2>3, <2>4, <2>w, OneDeviceSteps
    <2>6. link' \in [Peer -> Seq(Packet)]
      BY <1>2, <2>1
    <2> QED
      <3>1. drops' \in 0 .. MaxDrops /\ online' \in BOOLEAN
        <4>1. drops < MaxDrops /\ drops' = drops + 1 /\ online' = FALSE
          BY <2>1, Zenon
        <4>2. drops \in 0 .. MaxDrops
          BY <1>1
        <4>3. drops' \in 0 .. MaxDrops
          BY <4>1, <4>2, BoundAssumption
        <4>4. online' \in BOOLEAN
          BY <4>1
        <4> QED
          BY <4>3, <4>4
      <3> QED
        BY <1>1, <2>1, <2>5, <2>6, <3>1 DEF Inv, TypeOK
  <1>10. CASE Disconnect
    <2>1. PICK F \in SUBSET Peer :
            /\ dev' = [p \in Peer |-> IF p \in F THEN ResetPair(dev[p]) ELSE dev[p]]
            /\ wants' = [p \in Peer |-> wants[p] /\ (p \in F => dev[p].paired)]
      BY <1>10 DEF Disconnect
    <2>2. ASSUME NEW p \in Peer
          PROVE  /\ Sound(dev'[p]) /\ (dev'[p].outgoing => wants'[p])
                 /\ dev'[p].paired => wants'[p] \/ p \in kept
                 /\ dev'[p].cert => dev'[p].paired \/ p \in kept
      <3>1. CASE p \in F
        <4>1. /\ Sound(ResetPair(dev[p])) /\ ~ResetPair(dev[p]).outgoing
              /\ ResetPair(dev[p]).paired = dev[p].paired
              /\ ResetPair(dev[p]).cert = dev[p].cert
          BY <1>1, ResetSound DEF Sound, InProgress
        <4> QED
          BY <2>1, <3>1, <4>1 DEF Inv, Consent, StoredOnlyWhilePaired
      <3>2. CASE p \notin F
        BY <1>1, <2>1, <3>2 DEF Inv, Consent, StoredOnlyWhilePaired
      <3> QED
        BY <3>1, <3>2
    <2>3. dev' \in [Peer -> PairState] /\ wants' \in [Peer -> BOOLEAN]
      BY <2>1, <2>2 DEF Sound
    <2> QED
      <3>1. /\ link' = [p \in Peer |-> <<>>] /\ online' = FALSE
            /\ drops < MaxDrops /\ drops' = drops + 1
            /\ UNCHANGED <<clock, actions, data, kept>>
        BY <1>10 DEF Disconnect
      <3>2. drops' \in 0 .. MaxDrops /\ link' \in [Peer -> Seq(Packet)]
        BY <1>1, <1>2, <3>1, BoundAssumption
      <3>3. Consent' /\ StoredOnlyWhilePaired'
        BY <2>2, <3>1 DEF Consent, StoredOnlyWhilePaired
      <3> QED
        BY <1>1, <2>2, <2>3, <3>1, <3>2, <3>3 DEF Inv, TypeOK
  <1>11. CASE Connect \/ UNCHANGED vars
    BY <1>1, <1>11 DEF Connect, vars, Inv, TypeOK, Consent, StoredOnlyWhilePaired
  <1>12. CASE Tick
    BY <1>1, <1>12, BoundAssumption DEF Tick, Inv, TypeOK, Consent, StoredOnlyWhilePaired
  <1> QED
    BY <1>3, <1>4, <1>5, <1>6, <1>7, <1>8, <1>9, <1>10, <1>11, <1>12 DEF Next

LEMMA Invariance == Spec => []Inv
  <1> QED
    BY InitInv, StepInv, PTL DEF Spec

(* A paired device never shows a pairing request, never waits in both       *)
(* directions, and a certificate is on disk only while its device is paired *)
(* or if deleting it failed, for any number of actions, lost connections,   *)
(* restarts and failures of the disk.                                       *)
THEOREM PairingStaysSound == Spec => []PairingIsSound
  <1>1. Inv => PairingIsSound
    BY DEF Inv, Sound, PairingIsSound, OneNegotiation
  <1> QED
    BY <1>1, Invariance, PTL

(* Neither user is ever paired, or asking, without a standing agreement,    *)
(* but for the process that starts again after it failed to delete the      *)
(* certificate.                                                             *)
THEOREM NobodyIsPairedUnasked == Spec => []Consent
  <1>1. Inv => Consent
    BY DEF Inv
  <1> QED
    BY <1>1, Invariance, PTL
=============================================================================
