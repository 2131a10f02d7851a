------------------------------- MODULE Device -------------------------------
(***************************************************************************)
(* A ValentDevice: its channels, what it reads from them, its pairing, and *)
(* what one plugin is told about it.  The peer may send anything.          *)
(*                                                                         *)
(* A packet passes through two steps, as in the code: a read completes     *)
(* (ReadCompletes) and later the main loop calls read_packet_cb()          *)
(* (ReadCallback); anything may happen in between.                         *)
(***************************************************************************)
EXTENDS Pairing, SequencesExt, WellFoundedInduction

CONSTANTS
    Channel,             \* the channels that may be added to the device
    Lan,                 \* those whose type is ValentLanChannel
    Versions,            \* whether the peer speaks v8 (TRUE), v7 (FALSE)
    MaxPackets,          \* bounds the packets of the peer
    MaxActions,          \* bounds the actions of the user
    None

ASSUME ChannelAssumption == IsFiniteSet(Channel) /\ Lan \subseteq Channel
ASSUME NoneAssumption == None \notin Channel
ASSUME BoundAssumption == MaxPackets \in Nat /\ MaxActions \in Nat /\ Versions \subseteq BOOLEAN

VARIABLES
    dev,                 \* the pairing state
    channels,            \* device->channels
    channel,             \* device->channel
    life,                \* of each channel: "new", "open", "broken", "destroyed"
    inbox,               \* packets that arrived on a channel and were not read
    got,                 \* the result of a read whose callback is due, or None
    reading,             \* valent_channel_read_packet() is in progress
    writes,              \* pair packets whose send_pair_cb() is due
    plugin,              \* the plugin: see PluginState
    seen,                \* packets passed to valent_device_handle_packet()
    packets, actions     \* how many of each there were

vars == <<dev, channels, channel, life, inbox, got, reading, writes, plugin,
          seen, packets, actions>>

pairVars == <<dev, writes, plugin>>
linkVars == <<channels, channel, life>>
readVars == <<inbox, got, reading, seen>>
bounds == <<packets, actions>>

Data == [data |-> TRUE]

Malformed == [data |-> FALSE]

(* Nobody reads the timestamp of a refusal.                                 *)
Packet == {m \in PairPacket(0 .. 1) : m.pair \/ m.stamp = 0} \cup {Data}

(* The clock stands still: PairProtocol is about timestamps.                *)
Now == 1

PluginState ==
    [enabled : BOOLEAN, connected : BOOLEAN, paired : BOOLEAN,
     stash : Seq(Nat), handled : Seq(Nat)]

(* A device is loaded paired if it has a certificate, and with the plugins    *)
(* of the engine (valent_device_constructed()).                             *)
Init ==
    /\ \E v8 \in Versions, paired \in BOOLEAN, enabled \in BOOLEAN :
          /\ dev = [Unpaired(v8) EXCEPT !.paired = paired, !.cert = paired]
          /\ plugin = [enabled |-> enabled, connected |-> FALSE, paired |-> enabled /\ paired,
                       stash |-> <<>>, handled |-> <<>>]
    /\ channels = <<>>
    /\ channel = None
    /\ life = [c \in Channel |-> "new"]
    /\ inbox = [c \in Channel |-> <<>>]
    /\ got = [c \in Channel |-> None]
    /\ reading = [c \in Channel |-> FALSE]
    /\ writes = [c \in Channel |-> 0]
    /\ seen = 0
    /\ packets = 0
    /\ actions = 0

Connected == channel # None

Alive(c) == life[c] \in {"open", "broken"}

-----------------------------------------------------------------------------
(* Plugins: valent-device-plugin.c *)

(* Mutant: the stashed packets are handled, and stay in the stash. *)
UpdateStateKeep(p, connected, paired) ==
    LET q == [p EXCEPT !.connected = connected, !.paired = paired]
    IN  CASE ~p.enabled -> p
          [] p.enabled /\ ~paired -> [q EXCEPT !.stash = <<>>]
          [] p.enabled /\ paired /\ ~connected -> q
          [] OTHER -> [q EXCEPT !.handled = @ \o p.stash]

(* valent_device_plugin_update_state(): the stash is dropped when unpaired, *)
(* and handled once connected.                                              *)
UpdateState(p, connected, paired) ==
    LET q == [p EXCEPT !.connected = connected, !.paired = paired]
    IN  CASE ~p.enabled -> p
          [] p.enabled /\ ~paired -> [q EXCEPT !.stash = <<>>]
          [] p.enabled /\ paired /\ ~connected -> q
          [] OTHER -> [q EXCEPT !.handled = @ \o p.stash, !.stash = <<>>]

(* valent_device_plugin_handle_packet(), if the plugin has handlers at all. *)
PluginHandle(p, n) ==
    CASE ~p.enabled -> p
      [] p.enabled /\ ~p.connected -> [p EXCEPT !.stash = Append(@, n)]
      [] OTHER -> [p EXCEPT !.handled = Append(@, n)]

(* The device takes the pairing state r.dev, writes r.out to the preferred  *)
(* channel and, when set_paired() changed something, updates the plugins.   *)
(* Whether the certificate could be written or deleted (TRUE, below) is not *)
(* asked for here: a device that runs goes by `paired', and the process     *)
(* that reads the file again is in PairProtocol.                            *)
PairingChanges(r) ==
    /\ dev' = r.dev
    /\ writes' = IF r.out = <<>> THEN writes ELSE [writes EXCEPT ![channel] = @ + 1]
    /\ plugin' = IF r.dev.paired # dev.paired
                   THEN UpdateState(plugin, Connected, r.dev.paired)
                   ELSE plugin

(* A plugin is enabled with the state of the moment, and disabled with all  *)
(* it held (valent_device_enable_plugin(), valent_device_disable_plugin()). *)
TogglePlugin ==
    /\ actions < MaxActions
    /\ actions' = actions + 1
    /\ plugin' = IF plugin.enabled
                   THEN [plugin EXCEPT !.enabled = FALSE, !.stash = <<>>,
                                       !.connected = FALSE, !.paired = FALSE]
                   ELSE UpdateState([plugin EXCEPT !.enabled = TRUE],
                                    Connected, dev.paired)
    /\ UNCHANGED <<dev, writes, linkVars, readVars, packets>>
-----------------------------------------------------------------------------
(* Channels *)

(* channel_sort_func(): LAN channels come first.                            *)
Before(c, d) == c \in Lan /\ d \notin Lan

(* g_list_store_insert_sorted(): after the channels that are not worse, and *)
(* before those that are.                                                   *)
Position(c) ==
    CHOOSE k \in 1 .. Len(channels) + 1 :
        \A i \in DOMAIN channels : i >= k <=> Before(c, channels[i])

(* Mutant: plugins are not told of the first channel. *)
AddChannelQuiet(c) ==
    /\ life[c] = "new"
    /\ life' = [life EXCEPT ![c] = "open"]
    /\ channels' = InsertAt(channels, Position(c), c)
    /\ reading' = [reading EXCEPT ![c] = TRUE]
    /\ channel' = IF Position(c) = 1 THEN c ELSE channel
    /\ UNCHANGED <<dev, writes, plugin, inbox, got, seen, bounds>>

(* valent_device_add_channel() *)
AddChannel(c) ==
    /\ life[c] = "new"
    /\ life' = [life EXCEPT ![c] = "open"]
    /\ channels' = InsertAt(channels, Position(c), c)
    /\ reading' = [reading EXCEPT ![c] = TRUE]
    /\ channel' = IF Position(c) = 1 THEN c ELSE channel
    /\ plugin' = IF channels = <<>>
                   THEN UpdateState(plugin, TRUE, dev.paired)
                   ELSE plugin
    /\ UNCHANGED <<dev, writes, inbox, got, seen, bounds>>

(* g_list_store_find(), and g_list_store_remove() of what it found.         *)
Without(list, c) ==
    IF c \in ToSet(list)
      THEN RemoveAt(list, CHOOSE i \in DOMAIN list : list[i] = c)
      ELSE list

(* Mutant: the channel is dropped, and the next one is not selected. *)
ChannelDestroyedNoSelect(c) ==
    /\ life' = [life EXCEPT ![c] = "destroyed"]
    /\ channels' = Without(channels, c)
    /\ channel' = IF channel = c THEN None ELSE channel

(* on_channel_destroy(): the device forgets the channel and, if it was the  *)
(* preferred one, takes the next best.                                      *)
ChannelDestroyed(c) ==
    LET rest == Without(channels, c)
    IN  /\ life' = [life EXCEPT ![c] = "destroyed"]
        /\ channels' = rest
        /\ channel' = CASE channel # c -> channel
                        [] channel = c /\ rest = <<>> -> None
                        [] OTHER -> Head(rest)

DestroyChannel(c) ==
    /\ Alive(c)
    /\ ChannelDestroyed(c)
    /\ UNCHANGED <<pairVars, readVars, bounds>>
-----------------------------------------------------------------------------
(* Reading *)

(* Mutant: only the pair packets of an unpaired device are special. *)
HandlePacketUnpaired(m) ==
    IF m # Data
      THEN PairingChanges(HandlePair(dev, m, Connected, Now, TRUE))
      ELSE plugin' = PluginHandle(plugin, seen + 1) /\ UNCHANGED <<dev, writes>>

(* valent_device_handle_packet() *)
HandlePacket(m) ==
    CASE m # Data ->
            PairingChanges(HandlePair(dev, m, Connected, Now, TRUE))
      [] m = Data /\ ~dev.paired ->
            PairingChanges(SendPair(dev, FALSE, Connected, Now))
      [] OTHER ->
            /\ plugin' = PluginHandle(plugin, seen + 1)
            /\ UNCHANGED <<dev, writes>>

(* Mutant: the next packet is only read if this one could be handled. *)
ReadCallbackStop(c) ==
    /\ got[c] # None
    /\ got' = [got EXCEPT ![c] = None]
    /\ reading' = [reading EXCEPT ![c] = Alive(c) /\ dev.paired]
    /\ seen' = seen + 1
    /\ HandlePacket(got[c])
    /\ UNCHANGED <<linkVars, inbox, bounds>>

(* read_packet_cb() with a packet: the next read is started first, and      *)
(* fails at once if the channel was destroyed in the meantime.              *)
ReadCallback(c) ==
    /\ got[c] # None
    /\ got' = [got EXCEPT ![c] = None]
    /\ reading' = [reading EXCEPT ![c] = Alive(c)]
    /\ seen' = seen + 1
    /\ HandlePacket(got[c])
    /\ UNCHANGED <<linkVars, inbox, bounds>>

(* read_packet_cb() with an error: the channel is destroyed.                *)
ReadFails(c) ==
    /\ reading[c]
    /\ \/ life[c] = "destroyed"
       \/ life[c] = "broken" /\ inbox[c] = <<>>
       \/ inbox[c] # <<>> /\ Head(inbox[c]) = Malformed
    /\ reading' = [reading EXCEPT ![c] = FALSE]
    /\ ChannelDestroyed(c)
    /\ UNCHANGED <<pairVars, inbox, got, seen, bounds>>

(* valent_channel_read_packet_cb(): a line was read.                        *)
ReadCompletes(c) ==
    /\ reading[c] /\ Alive(c)
    /\ inbox[c] # <<>> /\ Head(inbox[c]) # Malformed
    /\ got' = [got EXCEPT ![c] = Head(inbox[c])]
    /\ inbox' = [inbox EXCEPT ![c] = Tail(@)]
    /\ reading' = [reading EXCEPT ![c] = FALSE]
    /\ UNCHANGED <<pairVars, linkVars, seen, bounds>>

PeerSends(c, m) ==
    /\ packets < MaxPackets
    /\ packets' = packets + 1
    /\ life[c] = "open"
    /\ inbox' = [inbox EXCEPT ![c] = Append(@, m)]
    /\ UNCHANGED <<pairVars, linkVars, got, reading, seen, actions>>

PeerCloses(c) ==
    /\ life[c] = "open"
    /\ life' = [life EXCEPT ![c] = "broken"]
    /\ UNCHANGED <<pairVars, readVars, channels, channel, bounds>>
-----------------------------------------------------------------------------
(* Pairing *)

PairWritten(c) ==
    /\ writes[c] > 0
    /\ writes' = [writes EXCEPT ![c] = @ - 1]
    /\ UNCHANGED <<dev, plugin, linkVars, readVars, bounds>>

(* send_pair_cb() with an error: the negotiation and the channel end.       *)
PairWriteFails(c) ==
    /\ writes[c] > 0
    /\ life[c] \in {"broken", "destroyed"}
    /\ writes' = [writes EXCEPT ![c] = @ - 1]
    /\ dev' = ResetPair(dev)
    /\ ChannelDestroyed(c)
    /\ UNCHANGED <<plugin, readVars, bounds>>

UserPairs ==
    /\ actions < MaxActions
    /\ actions' = actions + 1
    /\ PairingChanges(PairAction(dev, Connected, Now, TRUE))
    /\ UNCHANGED <<linkVars, readVars, packets>>

UserUnpairs ==
    /\ actions < MaxActions
    /\ actions' = actions + 1
    /\ PairingChanges(UnpairAction(dev, Connected, Now, TRUE))
    /\ UNCHANGED <<linkVars, readVars, packets>>

(* valent_device_cancel_pair() after PAIR_REQUEST_TIMEOUT seconds.          *)
Timeout ==
    /\ InProgress(dev)
    /\ dev' = CancelPair(dev)
    /\ UNCHANGED <<writes, plugin, linkVars, readVars, bounds>>

Next ==
    \/ \E c \in Channel :
          \/ AddChannel(c) \/ DestroyChannel(c)
          \/ ReadCompletes(c) \/ ReadCallback(c) \/ ReadFails(c)
          \/ PairWritten(c) \/ PairWriteFails(c)
          \/ \E m \in Packet \cup {Malformed} : PeerSends(c, m)
          \/ PeerCloses(c)
    \/ UserPairs \/ UserUnpairs \/ Timeout
    \/ TogglePlugin

Spec == Init /\ [][Next]_vars

(* The main loop dispatches what is ready.                                  *)
FairSpec ==
    /\ Spec
    /\ \A c \in Channel :
          /\ WF_vars(ReadCompletes(c)) /\ WF_vars(ReadCallback(c))
          /\ WF_vars(ReadFails(c))
-----------------------------------------------------------------------------
TypeOK ==
    /\ dev \in PairState
    /\ channels \in Seq(Channel)
    /\ channel \in Channel \cup {None}
    /\ life \in [Channel -> {"new", "open", "broken", "destroyed"}]
    /\ inbox \in [Channel -> Seq(Packet \cup {Malformed})]
    /\ got \in [Channel -> Packet \cup {None}]
    /\ reading \in [Channel -> BOOLEAN]
    /\ writes \in [Channel -> Nat]
    /\ plugin \in PluginState
    /\ seen \in Nat
    /\ packets \in 0 .. MaxPackets
    /\ actions \in 0 .. MaxActions

(* The device's channel is the head of its list, the list holds each open   *)
(* channel once, and no other channel is listed before a LAN channel,       *)
(* whatever the order of additions and failures.                            *)
PreferredChannel ==
    /\ channel = IF channels = <<>> THEN None ELSE channels[1]
    /\ ToSet(channels) = {c \in Channel : Alive(c)}
    /\ \A i, j \in DOMAIN channels :
          /\ channels[i] = channels[j] => i = j
          /\ Before(channels[i], channels[j]) => i < j

(* An enabled plugin knows whether the device is paired, and never believes *)
(* it disconnected while there is a channel.                                *)
PluginInformed ==
    plugin.enabled =>
        /\ plugin.paired = dev.paired
        /\ Connected => plugin.connected

(* A plugin handles packets in the order in which they arrived, the stashed *)
(* ones before those that came after.                                       *)
HandledInOrder ==
    LET order == plugin.handled \o plugin.stash
    IN  \A i, j \in DOMAIN order : i < j => order[i] < order[j]

(* Nothing but pair packets of an unpaired device reaches a plugin, and it  *)
(* keeps none to handle them later: not what came unasked, and not what was *)
(* stashed while the device was paired.                                     *)
UnpairedIsUnheard ==
    [][~dev'.paired =>
          /\ plugin'.stash = <<>>
          /\ ~dev.paired => plugin'.handled = plugin.handled]_vars

(* Every packet that arrives on a channel is handled, unless the channel is *)
(* destroyed before it was read.                                            *)
PacketsAreHandled ==
    \A c \in Channel :
        (inbox[c] # <<>>) ~> (inbox[c] = <<>> \/ life[c] = "destroyed")
-----------------------------------------------------------------------------
(* Proofs: of the types, of the list of channels, and of the plugin.        *)

(* Lists: what is inserted and removed, and where.                          *)
LEMMA InsertFacts ==
  ASSUME NEW S, NEW s \in Seq(S), NEW e \in S, NEW k \in 1 .. Len(s) + 1
  PROVE  LET t == InsertAt(s, k, e)
         IN  /\ t \in Seq(S) /\ Len(t) = Len(s) + 1
             /\ \A i \in 1 .. Len(s) + 1 :
                   t[i] = IF i < k THEN s[i] ELSE IF i = k THEN e ELSE s[i - 1]
  <1> DEFINE a == SubSeq(s, 1, k - 1)
             b == SubSeq(s, k, Len(s))
             t == InsertAt(s, k, e)
  <1>1. a \in Seq(S) /\ Len(a) = k - 1 /\ \A i \in 1 .. k - 1 : a[i] = s[i]
    OBVIOUS
  <1>2. b \in Seq(S) /\ Len(b) = Len(s) - k + 1
        /\ \A i \in 1 .. Len(s) - k + 1 : b[i] = s[k + i - 1]
    OBVIOUS
  <1> DEFINE h == a \o <<e>>
  <1>3. t = h \o b
    BY DEF InsertAt
  <1> HIDE DEF a, b, t
  <1>h. /\ h \in Seq(S) /\ Len(h) = k
        /\ \A i \in 1 .. k : h[i] = IF i = k THEN e ELSE s[i]
    BY <1>1
  <1> HIDE DEF h
  <1>4. t \in Seq(S) /\ Len(t) = Len(s) + 1
    BY <1>2, <1>3, <1>h
  <1>5. ASSUME NEW i \in 1 .. Len(s) + 1
        PROVE  t[i] = IF i < k THEN s[i] ELSE IF i = k THEN e ELSE s[i - 1]
    <2>1. CASE i <= k
      BY <1>2, <1>3, <1>h, <2>1
    <2>2. CASE i > k
      <3>1. t[i] = b[i - k] /\ i - k \in 1 .. Len(s) - k + 1
        BY <1>2, <1>3, <1>h, <2>2
      <3>2. b[i - k] = s[k + (i - k) - 1] /\ k + (i - k) - 1 = i - 1
        BY <1>2, <3>1
      <3> QED
        BY <2>2, <3>1, <3>2
    <2> QED
      BY <2>1, <2>2
  <1> QED
    BY <1>4, <1>5 DEF t

LEMMA RemoveFacts ==
  ASSUME NEW S, NEW s \in Seq(S), NEW k \in 1 .. Len(s)
  PROVE  LET t == RemoveAt(s, k)
         IN  /\ t \in Seq(S) /\ Len(t) = Len(s) - 1
             /\ \A i \in 1 .. Len(s) - 1 :
                   t[i] = IF i < k THEN s[i] ELSE s[i + 1]
  <1> DEFINE a == SubSeq(s, 1, k - 1)
             b == SubSeq(s, k + 1, Len(s))
             t == RemoveAt(s, k)
  <1>1. a \in Seq(S) /\ Len(a) = k - 1 /\ \A i \in 1 .. k - 1 : a[i] = s[i]
    OBVIOUS
  <1>2. b \in Seq(S) /\ Len(b) = Len(s) - k
        /\ \A i \in 1 .. Len(s) - k : b[i] = s[k + i]
    OBVIOUS
  <1>3. t = a \o b
    BY DEF RemoveAt
  <1> HIDE DEF a, b, t
  <1>4. t \in Seq(S) /\ Len(t) = Len(s) - 1
    BY <1>1, <1>2, <1>3
  <1>5. ASSUME NEW i \in 1 .. Len(s) - 1
        PROVE  t[i] = IF i < k THEN s[i] ELSE s[i + 1]
    <2>1. CASE i < k
      BY <1>1, <1>2, <1>3, <2>1
    <2>2. CASE i >= k
      <3>1. t[i] = b[i - (k - 1)] /\ i - (k - 1) \in 1 .. Len(s) - k
        <4>1. i - (k - 1) \in 1 .. Len(s) - k /\ i \in 1 .. Len(a) + Len(b) /\ i > Len(a)
          BY <1>1, <1>2, <2>2
        <4>2. t[i] = b[i - Len(a)]
          BY <1>1, <1>2, <1>3, <4>1
        <4> QED
          BY <1>1, <4>1, <4>2
      <3>2. b[i - (k - 1)] = s[k + (i - (k - 1))] /\ k + (i - (k - 1)) = i + 1
        BY <1>2, <3>1
      <3> QED
        BY <2>2, <3>1, <3>2
    <2> QED
      BY <2>1, <2>2
  <1> QED
    BY <1>4, <1>5 DEF t

(* A set of numbers has a least one.                                        *)
LEMMA LeastNumber ==
  ASSUME NEW T \in SUBSET Nat, T # {}
  PROVE  \E k \in T : \A i \in T : k <= i
  <1>1. \E k \in T : \A i \in T : ~(<<i, k>> \in OpToRel(<, Nat))
    BY NatLessThanWellFounded, WFMin
  <1>2. \A i, k \in Nat : i < k => <<i, k>> \in OpToRel(<, Nat)
    BY DEF OpToRel
  <1>3. PICK k \in T : \A i \in T : ~(<<i, k>> \in OpToRel(<, Nat))
    BY <1>1
  <1>4. ASSUME NEW i \in T PROVE k <= i
    <2>1. ~(i < k)
      BY <1>2, <1>3
    <2> QED
      BY <2>1
  <1> QED
    BY <1>4

(* While LAN channels come first there is a place for another channel.      *)
LEMMA PlaceFacts ==
  ASSUME NEW c \in Channel, channels \in Seq(Channel),
         \A i, j \in DOMAIN channels : Before(channels[i], channels[j]) => i < j
  PROVE  /\ Position(c) \in 1 .. Len(channels) + 1
         /\ \A i \in DOMAIN channels : i >= Position(c) <=> Before(c, channels[i])
  <1> DEFINE n == Len(channels)
             T == {i \in 1 .. n + 1 : i = n + 1 \/ Before(c, channels[i])}
  <1>1. n \in Nat /\ DOMAIN channels = 1 .. n
    OBVIOUS
  <1> HIDE DEF n
  <1>2. T \in SUBSET Nat /\ n + 1 \in T
    BY <1>1
  <1>3. PICK k \in T : \A i \in T : k <= i
    BY <1>2, LeastNumber
  <1>4. ASSUME NEW i \in 1 .. n PROVE i >= k <=> Before(c, channels[i])
    <2>1. ASSUME Before(c, channels[i]) PROVE i >= k
      BY <1>1, <1>3, <2>1
    <2>2. ASSUME i >= k PROVE Before(c, channels[i])
      <3>1. k \in 1 .. n /\ Before(c, channels[k])
        BY <1>1, <1>3, <2>2
      <3>2. c \in Lan /\ channels[k] \notin Lan
        BY <3>1 DEF Before
      <3>3. channels[i] \notin Lan
        <4>1. channels[i] \in Lan => Before(channels[i], channels[k])
          BY <3>2 DEF Before
        <4>2. Before(channels[i], channels[k]) => i < k
          BY <1>1, <3>1
        <4> QED
          BY <1>1, <2>2, <3>1, <4>1, <4>2
      <3> QED
        BY <3>2, <3>3 DEF Before
    <2> QED
      BY <2>1, <2>2
  <1>5. \E m \in 1 .. n + 1 : \A i \in DOMAIN channels : i >= m <=> Before(c, channels[i])
    BY <1>1, <1>3, <1>4
  <1> QED
    BY <1>5 DEF Position, n

(* A new channel takes its place in the list.                               *)
LEMMA AddKeepsPreferred ==
  ASSUME TypeOK, PreferredChannel, NEW c \in Channel, AddChannel(c)
  PROVE  PreferredChannel'
  <1> DEFINE k == Position(c)
             n == Len(channels)
  <1>1. channels \in Seq(Channel) /\ life \in [Channel -> {"new", "open", "broken", "destroyed"}]
        /\ n \in Nat /\ DOMAIN channels = 1 .. n
    BY DEF TypeOK
  <1>2. /\ channel = IF channels = <<>> THEN None ELSE channels[1]
        /\ \A d \in Channel : (\E i \in 1 .. n : channels[i] = d) <=> Alive(d)
        /\ \A i, j \in 1 .. n : channels[i] = channels[j] => i = j
        /\ \A i, j \in 1 .. n : Before(channels[i], channels[j]) => i < j
    BY <1>1 DEF PreferredChannel, ToSet
  <1>3. k \in 1 .. n + 1 /\ \A i \in 1 .. n : i >= k <=> Before(c, channels[i])
    BY <1>1, <1>2, PlaceFacts
  <1>4. life[c] = "new" /\ life' = [life EXCEPT ![c] = "open"]
        /\ channels' = InsertAt(channels, k, c)
        /\ channel' = IF k = 1 THEN c ELSE channel
    BY DEF AddChannel
  <1> HIDE DEF k
  <1>5. /\ channels' \in Seq(Channel) /\ Len(channels') = n + 1
        /\ \A i \in 1 .. n + 1 :
              channels'[i] = IF i < k THEN channels[i] ELSE IF i = k THEN c ELSE channels[i - 1]
    <2>1. k \in 1 .. Len(channels) + 1
      BY <1>3
    <2> DEFINE t == InsertAt(channels, k, c)
    <2>2. /\ t \in Seq(Channel) /\ Len(t) = Len(channels) + 1
          /\ \A i \in 1 .. Len(channels) + 1 :
                t[i] = IF i < k THEN channels[i] ELSE IF i = k THEN c ELSE channels[i - 1]
      BY <1>1, <2>1, InsertFacts
    <2> QED
      BY <1>4, <2>2
  <1>6. DOMAIN channels' = 1 .. n + 1
    BY <1>5
  <1> HIDE DEF n
  <1>7. \A i \in 1 .. n : channels[i] # c /\ channels[i] \in Channel
    BY <1>1, <1>2, <1>4 DEF Alive
  <1>8. \A d \in Channel : Alive(d)' <=> Alive(d) \/ d = c
    BY <1>1, <1>4 DEF Alive
  <1>9. ASSUME NEW d \in Channel
        PROVE  (\E i \in 1 .. n + 1 : channels'[i] = d) <=> (\E i \in 1 .. n : channels[i] = d) \/ d = c
    <2>1. ASSUME NEW i \in 1 .. n PROVE \E j \in 1 .. n + 1 : channels'[j] = channels[i]
      <3>1. CASE i < k
        BY <1>1, <1>5, <3>1
      <3>2. CASE i >= k
        <4>1. i + 1 \in 1 .. n + 1 /\ ~(i + 1 < k) /\ i + 1 # k /\ (i + 1) - 1 = i
          BY <1>1, <1>3, <3>2
        <4> QED
          BY <1>5, <4>1
      <3> QED
        BY <1>3, <3>1, <3>2
    <2>2. ASSUME NEW j \in 1 .. n + 1 PROVE channels'[j] = c \/ \E i \in 1 .. n : channels'[j] = channels[i]
      <3>1. CASE j < k
        BY <1>1, <1>3, <1>5, <3>1
      <3>2. CASE j > k
        <4>1. j - 1 \in 1 .. n /\ ~(j < k) /\ j # k
          BY <1>1, <1>3, <3>2
        <4> QED
          BY <1>5, <4>1
      <3> QED
        BY <1>3, <1>5, <3>1, <3>2
    <2>3. channels'[k] = c
      BY <1>3, <1>5
    <2> QED
      BY <1>3, <2>1, <2>2, <2>3
  <1>10. ToSet(channels') = {d \in Channel : Alive(d)'}
    <2>1. ToSet(channels') = {channels'[i] : i \in 1 .. n + 1}
      BY <1>6 DEF ToSet
    <2>2. \A i \in 1 .. n + 1 : channels'[i] \in Channel
      BY <1>5, <1>6
    <2> QED
      BY <1>2, <1>8, <1>9, <2>1, <2>2
  <1>11. ASSUME NEW i \in 1 .. n + 1, NEW j \in 1 .. n + 1
         PROVE  /\ channels'[i] = channels'[j] => i = j
                /\ Before(channels'[i], channels'[j]) => i < j
    <2> DEFINE f(x) == IF x < k THEN x ELSE x - 1
    <2>1. ASSUME NEW x \in 1 .. n + 1, x # k
          PROVE f(x) \in 1 .. n /\ channels'[x] = channels[f(x)]
      BY <1>1, <1>3, <1>5, <2>1
    <2>2. channels'[k] = c
      BY <1>3, <1>5
    <2>3. CASE i = k /\ j = k
      BY <2>2, <2>3 DEF Before
    <2>4. CASE i = k /\ j # k
      <3>1. channels'[i] = c /\ channels'[j] = channels[f(j)] /\ f(j) \in 1 .. n
        BY <2>1, <2>2, <2>4
      <3>2. channels'[j] # c
        BY <1>7, <3>1
      <3>3. ASSUME Before(c, channels[f(j)]) PROVE i < j
        <4>1. f(j) >= k
          BY <1>3, <3>1, <3>3
        <4> QED
          BY <1>1, <1>3, <2>4, <4>1
      <3> QED
        BY <3>1, <3>2, <3>3
    <2>5. CASE i # k /\ j = k
      <3>1. channels'[j] = c /\ channels'[i] = channels[f(i)] /\ f(i) \in 1 .. n
        BY <2>1, <2>2, <2>5
      <3>2. channels'[i] # c
        BY <1>7, <3>1
      <3>3. ASSUME Before(channels[f(i)], c) PROVE i < j
        <4>1. ~Before(c, channels[f(i)])
          BY <3>3 DEF Before
        <4>2. ~(f(i) >= k)
          BY <1>3, <3>1, <4>1
        <4> QED
          BY <1>1, <1>3, <2>5, <4>2
      <3> QED
        BY <3>1, <3>2, <3>3
    <2>6. CASE i # k /\ j # k
      <3>1. /\ channels'[j] = channels[f(j)] /\ f(j) \in 1 .. n
            /\ channels'[i] = channels[f(i)] /\ f(i) \in 1 .. n
        BY <2>1, <2>6
      <3>2. channels[f(i)] = channels[f(j)] => f(i) = f(j)
        BY <1>2, <3>1
      <3>3. Before(channels[f(i)], channels[f(j)]) => f(i) < f(j)
        BY <1>2, <3>1
      <3>4. (f(i) = f(j) => i = j) /\ (f(i) < f(j) => i < j)
        BY <1>1, <1>3, <2>6
      <3> QED
        BY <3>1, <3>2, <3>3, <3>4
    <2> QED
      BY <2>3, <2>4, <2>5, <2>6
  <1>12. channel' = channels'[1] /\ channels' # <<>>
    <2>1. CASE k = 1
      BY <1>1, <1>3, <1>4, <1>5, <2>1
    <2>2. CASE k # 1
      <3>1. 1 < k /\ 1 \in 1 .. n + 1 /\ n # 0
        BY <1>1, <1>3, <2>2
      <3>2. channels # <<>>
        BY <3>1 DEF n
      <3> QED
        BY <1>1, <1>2, <1>4, <1>5, <2>2, <3>1, <3>2
    <2> QED
      BY <2>1, <2>2
  <1> QED
    BY <1>6, <1>10, <1>11, <1>12 DEF PreferredChannel

(* What becomes of the list without one of its channels.                    *)
LEMMA DestroyKeepsPreferred ==
  ASSUME TypeOK, PreferredChannel, NEW c \in Channel, ChannelDestroyed(c)
  PROVE  PreferredChannel' /\ channels' \in Seq(Channel)
         /\ (channels' # <<>> => channels # <<>>)
  <1> DEFINE n == Len(channels)
  <1>1. channels \in Seq(Channel) /\ life \in [Channel -> {"new", "open", "broken", "destroyed"}]
        /\ n \in Nat /\ DOMAIN channels = 1 .. n
    BY DEF TypeOK
  <1>2. /\ channel = IF channels = <<>> THEN None ELSE channels[1]
        /\ \A d \in Channel : (\E i \in 1 .. n : channels[i] = d) <=> Alive(d)
        /\ \A i, j \in 1 .. n : channels[i] = channels[j] => i = j
        /\ \A i, j \in 1 .. n : Before(channels[i], channels[j]) => i < j
    BY <1>1 DEF PreferredChannel, ToSet
  <1>3. /\ life' = [life EXCEPT ![c] = "destroyed"] /\ channels' = Without(channels, c)
        /\ channel' = CASE channel # c -> channel
                        [] channel = c /\ channels' = <<>> -> None
                        [] OTHER -> Head(channels')
    BY DEF ChannelDestroyed
  <1>4. \A d \in Channel : Alive(d)' <=> Alive(d) /\ d # c
    BY <1>1, <1>3 DEF Alive
  <1>5. c \in ToSet(channels) <=> Alive(c)
    BY DEF PreferredChannel
  <1>6. CASE ~Alive(c)
    <2>1. channels' = channels
      BY <1>3, <1>5, <1>6 DEF Without
    <2>2. \A d \in Channel : Alive(d)' <=> Alive(d)
      BY <1>4, <1>6
    <2>3. channel # c
      BY <1>1, <1>2, <1>6, NoneAssumption
    <2>4. channel' = channel
      BY <1>3, <2>3
    <2> QED
      BY <1>1, <2>1, <2>2, <2>4 DEF PreferredChannel
  <1>7. CASE Alive(c)
    <2>1. PICK k \in 1 .. n : channels[k] = c /\ channels' = RemoveAt(channels, k)
      <3>1. \E k \in 1 .. n : channels[k] = c
        BY <1>2, <1>7
      <3>2. channels' = RemoveAt(channels, CHOOSE k \in DOMAIN channels : channels[k] = c)
        BY <1>3, <1>5, <1>7 DEF Without
      <3> QED
        BY <1>1, <3>1, <3>2
    <2>2. /\ channels' \in Seq(Channel) /\ Len(channels') = n - 1
          /\ \A i \in 1 .. n - 1 :
                channels'[i] = IF i < k THEN channels[i] ELSE channels[i + 1]
      BY <1>1, <2>1, RemoveFacts
    <2>3. DOMAIN channels' = 1 .. n - 1
      BY <1>1, <2>1, <2>2
    <2>4. n # 0 /\ channels # <<>>
      BY <1>1, <2>1
    <2> HIDE DEF n
    <2> DEFINE f(x) == IF x < k THEN x ELSE x + 1
    <2>5. ASSUME NEW x \in 1 .. n - 1
          PROVE  f(x) \in 1 .. n /\ f(x) # k /\ channels'[x] = channels[f(x)]
      BY <1>1, <2>1, <2>2, <2>5
    <2>6. ASSUME NEW i \in 1 .. n, i # k PROVE \E x \in 1 .. n - 1 : f(x) = i
      <3>1. CASE i < k
        BY <1>1, <2>1, <3>1
      <3>2. CASE i > k
        <4>1. i - 1 \in 1 .. n - 1 /\ f(i - 1) = i
          BY <1>1, <2>1, <3>2
        <4> QED
          BY <4>1
      <3> QED
        BY <1>1, <2>1, <2>6, <3>1, <3>2
    <2>7. ASSUME NEW d \in Channel
          PROVE  (\E x \in 1 .. n - 1 : channels'[x] = d) <=> Alive(d)'
      <3>1. ASSUME NEW x \in 1 .. n - 1, channels'[x] = d PROVE Alive(d)'
        <4>1. channels[f(x)] = d /\ f(x) \in 1 .. n /\ f(x) # k
          BY <2>5, <3>1
        <4>2. d # c
          BY <1>2, <2>1, <4>1
        <4> QED
          BY <1>2, <1>4, <4>1, <4>2
      <3>2. ASSUME Alive(d)' PROVE \E x \in 1 .. n - 1 : channels'[x] = d
        <4>1. PICK i \in 1 .. n : channels[i] = d
          BY <1>2, <1>4, <3>2
        <4>2. i # k
          BY <1>4, <2>1, <3>2, <4>1
        <4> QED
          BY <2>5, <2>6, <4>1, <4>2
      <3> QED
        BY <3>1, <3>2
    <2>8. ToSet(channels') = {d \in Channel : Alive(d)'}
      <3>1. ToSet(channels') = {channels'[x] : x \in 1 .. n - 1}
        BY <2>3 DEF ToSet
      <3>2. \A x \in 1 .. n - 1 : channels'[x] \in Channel
        BY <2>2, <2>3
      <3> QED
        BY <2>7, <3>1, <3>2
    <2>9. ASSUME NEW i \in 1 .. n - 1, NEW j \in 1 .. n - 1
          PROVE  /\ channels'[i] = channels'[j] => i = j
                 /\ Before(channels'[i], channels'[j]) => i < j
      <3>1. /\ channels'[j] = channels[f(j)] /\ f(j) \in 1 .. n
            /\ channels'[i] = channels[f(i)] /\ f(i) \in 1 .. n
        BY <2>5
      <3>2. channels[f(i)] = channels[f(j)] => f(i) = f(j)
        BY <1>2, <3>1
      <3>3. Before(channels[f(i)], channels[f(j)]) => f(i) < f(j)
        BY <1>2, <3>1
      <3>4. (f(i) = f(j) => i = j) /\ (f(i) < f(j) => i < j)
        BY <1>1, <2>1
      <3> QED
        BY <3>1, <3>2, <3>3, <3>4
    <2>10. channel' = IF channels' = <<>> THEN None ELSE channels'[1]
      <3>1. channel = channels[1]
        BY <1>2, <2>4
      <3>2. CASE k = 1
        <4>1. channel = c
          BY <2>1, <3>1, <3>2
        <4>2. channels' # <<>> => Head(channels') = channels'[1]
          BY <2>2
        <4> QED
          BY <1>3, <4>1, <4>2
      <3>3. CASE k # 1
        <4>1. 1 < k /\ 1 \in 1 .. n - 1 /\ 1 \in 1 .. n
          BY <1>1, <2>1, <3>3
        <4>2. channel # c
          BY <1>2, <2>1, <3>1, <3>3, <4>1
        <4>3. channels'[1] = channels[1] /\ channels' # <<>>
          BY <2>2, <2>3, <4>1
        <4> QED
          BY <1>3, <3>1, <4>2, <4>3
      <3> QED
        BY <3>2, <3>3
    <2> QED
      BY <2>2, <2>3, <2>4, <2>8, <2>9, <2>10 DEF PreferredChannel
  <1> QED
    BY <1>6, <1>7

(* What the plugin is told, by cases.                                       *)
Updated(q, p, conn, paired) ==
    /\ q \in PluginState /\ q.enabled = p.enabled
    /\ ~p.enabled => q = p
    /\ p.enabled => /\ q.connected = conn /\ q.paired = paired
                    /\ ~paired => q.handled = p.handled /\ q.stash = <<>>
                    /\ paired /\ ~conn => q.handled = p.handled /\ q.stash = p.stash
                    /\ paired /\ conn => /\ q.handled = p.handled \o p.stash
                                         /\ q.stash = <<>>

LEMMA UpdateFacts ==
  ASSUME NEW p \in PluginState, NEW conn \in BOOLEAN, NEW paired \in BOOLEAN
  PROVE  Updated(UpdateState(p, conn, paired), p, conn, paired)
  <1> DEFINE r == [p EXCEPT !.connected = conn, !.paired = paired]
             q == UpdateState(p, conn, paired)
  <1> SUFFICES Updated(q, p, conn, paired)
    OBVIOUS
  <1>1. /\ r \in PluginState /\ r.enabled = p.enabled
        /\ r.connected = conn /\ r.paired = paired
        /\ r.handled = p.handled /\ r.stash = p.stash
    BY DEF PluginState
  <1>2. <<>> \in Seq(Nat) /\ p.handled \o p.stash \in Seq(Nat)
    BY DEF PluginState
  <1>3. CASE ~p.enabled
    <2>1. q = p
      BY <1>3 DEF UpdateState
    <2> HIDE DEF q
    <2> QED
      BY <1>3, <2>1 DEF Updated
  <1>4. CASE p.enabled /\ ~paired
    <2>1. q = [r EXCEPT !.stash = <<>>]
      BY <1>4 DEF UpdateState
    <2> HIDE DEF q, r
    <2> QED
      BY <1>1, <1>2, <1>4, <2>1 DEF PluginState, Updated
  <1>5. CASE p.enabled /\ paired /\ ~conn
    <2>1. q = r
      BY <1>5 DEF UpdateState
    <2> HIDE DEF q, r
    <2> QED
      BY <1>1, <1>5, <2>1 DEF Updated
  <1>6. CASE p.enabled /\ paired /\ conn
    <2>1. q = [r EXCEPT !.handled = @ \o p.stash, !.stash = <<>>]
      BY <1>6 DEF UpdateState
    <2> HIDE DEF q, r
    <2> QED
      BY <1>1, <1>2, <1>6, <2>1 DEF PluginState, Updated
  <1> QED
    BY <1>3, <1>4, <1>5, <1>6

(* The numbers of a sequence rise, and none exceeds n.                      *)
Rising(s, n) ==
    /\ \A i \in DOMAIN s : s[i] <= n
    /\ \A i, j \in DOMAIN s : i < j => s[i] < s[j]

LEMMA RisingFacts ==
  ASSUME NEW h \in Seq(Nat), NEW t \in Seq(Nat), NEW n \in Nat, Rising(h \o t, n)
  PROVE  /\ Rising(h \o t, n + 1)
         /\ Rising(h \o <<>>, n)
         /\ Rising((h \o t) \o <<>>, n)
         /\ Rising(h \o Append(t, n + 1), n + 1)
         /\ t = <<>> => Rising(Append(h, n + 1) \o t, n + 1)
  <1> DEFINE o == h \o t
  <1>1. o \in Seq(Nat) /\ Len(o) = Len(h) + Len(t) /\ \A i \in 1 .. Len(h) : o[i] = h[i]
    OBVIOUS
  <1>2. /\ h \o <<>> = h /\ o \o <<>> = o
        /\ h \o Append(t, n + 1) = Append(o, n + 1)
        /\ t = <<>> => Append(h, n + 1) \o t = Append(o, n + 1)
    <2>1. h \o <<>> = h
      OBVIOUS
    <2>2. h \o Append(t, n + 1) = Append(o, n + 1)
      OBVIOUS
    <2>3. Append(h, n + 1) \in Seq(Nat)
      OBVIOUS
    <2>4. Append(h, n + 1) \o <<>> = Append(h, n + 1)
      BY <2>3
    <2> HIDE DEF o
    <2>5. o \o <<>> = o
      BY <1>1
    <2>6. t = <<>> => o = h
      BY <2>1 DEF o
    <2> QED
      BY <2>1, <2>2, <2>4, <2>5, <2>6
  <1> HIDE DEF o
  <1>3. Rising(o, n)
    BY DEF o
  <1>4. Rising(o, n + 1)
    BY <1>1, <1>3 DEF Rising
  <1>5. Rising(h, n)
    <2>1. /\ DOMAIN h = 1 .. Len(h) /\ DOMAIN o = 1 .. Len(h) + Len(t)
          /\ Len(h) \in Nat /\ Len(t) \in Nat
      BY <1>1
    <2>2. \A i \in DOMAIN h : i \in DOMAIN o /\ o[i] = h[i]
      BY <1>1, <2>1
    <2> QED
      BY <1>3, <2>2 DEF Rising
  <1>6. Rising(Append(o, n + 1), n + 1)
    <2> DEFINE a == Append(o, n + 1)
    <2>1. /\ DOMAIN a = 1 .. Len(o) + 1 /\ DOMAIN o = 1 .. Len(o)
          /\ a[Len(o) + 1] = n + 1
          /\ \A i \in 1 .. Len(o) : a[i] = o[i] /\ o[i] \in Nat
      <3>1. Len(a) = Len(o) + 1 /\ a \in Seq(Nat) /\ Len(o) \in Nat
        BY <1>1
      <3>2. \A i \in 1 .. Len(o) : a[i] = o[i] /\ o[i] \in Nat
        BY <1>1
      <3>3. a[Len(o) + 1] = n + 1
        BY <1>1, <3>1
      <3> QED
        BY <1>1, <3>1, <3>2, <3>3
    <2> HIDE DEF a
    <2>2. ASSUME NEW i \in DOMAIN a PROVE a[i] <= n + 1
      <3>1. CASE i = Len(o) + 1
        BY <2>1, <3>1
      <3>2. CASE i \in 1 .. Len(o)
        <4>1. a[i] = o[i] /\ o[i] \in Nat /\ o[i] <= n
          BY <1>3, <2>1, <3>2 DEF Rising
        <4> QED
          BY <4>1
      <3> QED
        <4>1. Len(o) \in Nat
          BY <1>1
        <4>2. i \in 1 .. Len(o) + 1
          BY <2>1
        <4>3. i \in 1 .. Len(o) \/ i = Len(o) + 1
          BY <4>1, <4>2
        <4> QED
          BY <3>1, <3>2, <4>3
    <2>3. ASSUME NEW i \in DOMAIN a, NEW j \in DOMAIN a, i < j PROVE a[i] < a[j]
      <3>1. i \in 1 .. Len(o) /\ (j \in 1 .. Len(o) \/ j = Len(o) + 1)
        <4>1. Len(o) \in Nat
          BY <1>1
        <4>2. i \in 1 .. Len(o) + 1 /\ j \in 1 .. Len(o) + 1
          BY <2>1
        <4> QED
          BY <2>3, <4>1, <4>2
      <3>2. a[i] = o[i] /\ o[i] \in Nat /\ o[i] <= n
        BY <1>3, <2>1, <3>1 DEF Rising
      <3>3. CASE j = Len(o) + 1
        <4>1. a[j] = n + 1
          BY <2>1, <3>3
        <4> HIDE DEF a
        <4> QED
          BY <3>2, <4>1
      <3>4. CASE j \in 1 .. Len(o)
        BY <1>3, <2>1, <2>3, <3>1, <3>4 DEF Rising
      <3> QED
        BY <3>1, <3>3, <3>4
    <2> QED
      BY <2>2, <2>3 DEF Rising, a
  <1> QED
    BY <1>2, <1>3, <1>4, <1>5, <1>6 DEF o

(* What a plugin holds: it keeps packets only while it is enabled, the      *)
(* device is paired, and it was not told of a connection.                   *)
Holds(p, paired, n) ==
    /\ p.connected => p.stash = <<>>
    /\ ~paired \/ ~p.enabled => p.stash = <<>>
    /\ Rising(p.handled \o p.stash, n)

LEMMA UpdateHolds ==
  ASSUME NEW p \in PluginState, NEW conn \in BOOLEAN, NEW paired \in BOOLEAN,
         NEW before, NEW n \in Nat, Holds(p, before, n)
  PROVE  /\ Holds(UpdateState(p, conn, paired), paired, n)
         /\ Holds(UpdateState(p, conn, paired), paired, n + 1)
  <1> DEFINE q == UpdateState(p, conn, paired)
  <1>1. /\ p.handled \in Seq(Nat) /\ p.stash \in Seq(Nat)
        /\ Rising(p.handled \o p.stash, n)
    BY DEF PluginState, Holds
  <1>2. /\ q \in PluginState /\ q.enabled = p.enabled
        /\ ~p.enabled => q = p
        /\ p.enabled => /\ q.connected = conn /\ q.paired = paired
                        /\ ~paired => q.handled = p.handled /\ q.stash = <<>>
                        /\ paired /\ ~conn => q.handled = p.handled /\ q.stash = p.stash
                        /\ paired /\ conn => /\ q.handled = p.handled \o p.stash
                                             /\ q.stash = <<>>
    <2>1. Updated(q, p, conn, paired)
      BY UpdateFacts
    <2> HIDE DEF q
    <2> QED
      BY <2>1 DEF Updated
  <1> HIDE DEF q
  <1>3. q.handled \in Seq(Nat) /\ q.stash \in Seq(Nat)
    BY <1>2 DEF PluginState
  <1>4. Rising(q.handled \o q.stash, n)
    BY <1>1, <1>2, RisingFacts
  <1>5. (q.connected => q.stash = <<>>) /\ (~paired \/ ~q.enabled => q.stash = <<>>)
    BY <1>2 DEF Holds
  <1>6. Rising(q.handled \o q.stash, n + 1)
    BY <1>3, <1>4, RisingFacts
  <1> QED
    BY <1>4, <1>5, <1>6 DEF Holds, q

LEMMA HandleHolds ==
  ASSUME NEW p \in PluginState, NEW n \in Nat, Holds(p, TRUE, n)
  PROVE  LET q == PluginHandle(p, n + 1)
         IN  /\ q \in PluginState /\ Holds(q, TRUE, n + 1)
             /\ q.enabled = p.enabled /\ q.connected = p.connected /\ q.paired = p.paired
  <1> DEFINE q == PluginHandle(p, n + 1)
             Goal == /\ q \in PluginState /\ Holds(q, TRUE, n + 1)
                     /\ q.enabled = p.enabled /\ q.connected = p.connected
                     /\ q.paired = p.paired
  <1> SUFFICES Goal
    OBVIOUS
  <1>1. /\ p.handled \in Seq(Nat) /\ p.stash \in Seq(Nat)
        /\ Rising(p.handled \o p.stash, n)
        /\ Append(p.handled, n + 1) \in Seq(Nat) /\ Append(p.stash, n + 1) \in Seq(Nat)
    BY DEF PluginState, Holds
  <1>2. /\ Rising(p.handled \o p.stash, n + 1)
        /\ Rising(p.handled \o Append(p.stash, n + 1), n + 1)
        /\ p.stash = <<>> => Rising(Append(p.handled, n + 1) \o p.stash, n + 1)
    BY <1>1, RisingFacts
  <1>3. CASE ~p.enabled
    <2>1. q = p
      BY <1>3 DEF PluginHandle
    <2> HIDE DEF q
    <2> QED
      BY <1>2, <1>3, <2>1 DEF Holds
  <1>4. CASE p.enabled /\ ~p.connected
    <2>1. q = [p EXCEPT !.stash = Append(@, n + 1)]
      BY <1>4 DEF PluginHandle
    <2> HIDE DEF q
    <2>2. /\ q \in PluginState /\ q.handled = p.handled /\ q.stash = Append(p.stash, n + 1)
          /\ q.enabled = p.enabled /\ q.connected = p.connected /\ q.paired = p.paired
      BY <1>1, <2>1 DEF PluginState
    <2> QED
      BY <1>2, <1>4, <2>2 DEF Holds
  <1>5. CASE p.enabled /\ p.connected
    <2>1. q = [p EXCEPT !.handled = Append(@, n + 1)]
      BY <1>5 DEF PluginHandle
    <2> HIDE DEF q
    <2>2. /\ q \in PluginState /\ q.handled = Append(p.handled, n + 1) /\ q.stash = p.stash
          /\ q.enabled = p.enabled /\ q.connected = p.connected /\ q.paired = p.paired
      BY <1>1, <2>1 DEF PluginState
    <2> QED
      BY <1>2, <1>5, <2>2 DEF Holds
  <1> QED
    BY <1>3, <1>4, <1>5

(* The invariant, in three parts: types, channels, the plugin.              *)
PluginInv == PluginInformed /\ Holds(plugin, dev.paired, seen)

Inv == TypeOK /\ Sound(dev) /\ PreferredChannel /\ PluginInv

(* A device with channels is connected, and only such a device.             *)
LEMMA ConnectedFacts ==
  ASSUME channels \in Seq(Channel), PreferredChannel
  PROVE  Connected <=> channels # <<>>
  <1>1. CASE channels = <<>>
    BY <1>1 DEF PreferredChannel, Connected
  <1>2. CASE channels # <<>>
    <2>1. channels[1] \in Channel
      BY <1>2
    <2> QED
      BY <1>2, <2>1, NoneAssumption DEF PreferredChannel, Connected
  <1> QED
    BY <1>1, <1>2

(* What a change of the pairing state leaves the plugin with.               *)
LEMMA PairingKeeps ==
  ASSUME Inv, NEW r, Sound(r.dev), PairingChanges(r)
  PROVE  /\ Sound(dev') /\ dev' = r.dev
         /\ writes' \in [Channel -> Nat]
         /\ plugin' \in PluginState
         /\ Holds(plugin', dev'.paired, seen) /\ Holds(plugin', dev'.paired, seen + 1)
         /\ plugin'.enabled => /\ plugin'.paired = dev'.paired
                               /\ Connected => plugin'.connected
         /\ ~dev.paired /\ ~dev'.paired => plugin' = plugin
  <1>1. /\ dev' = r.dev /\ dev' \in PairState
        /\ writes' = IF r.out = <<>> THEN writes ELSE [writes EXCEPT ![channel] = @ + 1]
        /\ plugin' = IF dev'.paired # dev.paired
                       THEN UpdateState(plugin, Connected, dev'.paired)
                       ELSE plugin
    BY DEF PairingChanges, Sound
  <1>2. /\ writes \in [Channel -> Nat] /\ plugin \in PluginState /\ seen \in Nat
        /\ dev \in PairState /\ Holds(plugin, dev.paired, seen)
        /\ plugin.enabled => /\ plugin.paired = dev.paired
                             /\ Connected => plugin.connected
    BY DEF Inv, TypeOK, PluginInv, PluginInformed
  <1>3. writes' \in [Channel -> Nat]
    <2>1. CASE r.out = <<>>
      BY <1>1, <1>2, <2>1
    <2>2. CASE r.out # <<>> /\ channel \in Channel
      <3>1. writes[channel] + 1 \in Nat
        BY <1>2, <2>2
      <3>2. writes' = [writes EXCEPT ![channel] = writes[channel] + 1]
        BY <1>1, <2>2
      <3> QED
        BY <1>2, <3>1, <3>2
    <2>3. CASE r.out # <<>> /\ channel \notin Channel
      <3>1. writes' = writes
        BY <1>1, <1>2, <2>3
      <3> QED
        BY <1>2, <3>1
    <2> QED
      BY <2>1, <2>2, <2>3
  <1>4. CASE dev'.paired # dev.paired
    <2>1. dev'.paired \in BOOLEAN /\ Connected \in BOOLEAN /\ dev.paired \in BOOLEAN
      BY <1>1, <1>2 DEF PairState, Connected
    <2> DEFINE q == UpdateState(plugin, Connected, dev'.paired)
    <2>2. /\ q \in PluginState /\ q.enabled = plugin.enabled
          /\ plugin.enabled => q.connected = Connected /\ q.paired = dev'.paired
      <3>1. Updated(q, plugin, Connected, dev'.paired)
        BY <1>2, <2>1, UpdateFacts
      <3> HIDE DEF q
      <3> QED
        BY <3>1 DEF Updated
    <2>3. Holds(q, dev'.paired, seen) /\ Holds(q, dev'.paired, seen + 1)
      BY <1>2, <2>1, UpdateHolds
    <2>4. dev'.paired \/ dev.paired
      BY <1>4, <2>1
    <2>5. plugin' = q
      BY <1>1, <1>4
    <2> HIDE DEF q
    <2> QED
      BY <1>1, <1>3, <2>2, <2>3, <2>4, <2>5
  <1>5. CASE dev'.paired = dev.paired
    <2>1. plugin' = plugin
      BY <1>1, <1>5
    <2>2. plugin.handled \in Seq(Nat) /\ plugin.stash \in Seq(Nat)
      BY <1>2 DEF PluginState
    <2>3. Holds(plugin, dev.paired, seen + 1)
      BY <1>2, <2>2, RisingFacts DEF Holds
    <2> QED
      BY <1>1, <1>2, <1>3, <1>5, <2>1, <2>3
  <1> QED
    BY <1>4, <1>5

(* A step that leaves the plugin and the paired state alone, and connects   *)
(* nothing.                                                                 *)
LEMMA PluginUntouched ==
  ASSUME Inv, UNCHANGED <<plugin, seen>>, dev'.paired = dev.paired,
         Connected' => Connected
  PROVE  PluginInv'
  BY DEF Inv, PluginInv, PluginInformed, Holds

LEMMA InitInv == Init => Inv
  <1> SUFFICES ASSUME Init PROVE Inv
    OBVIOUS
  <1>1. PICK v8 \in BOOLEAN, paired \in BOOLEAN, enabled \in BOOLEAN :
          /\ dev = [Unpaired(v8) EXCEPT !.paired = paired, !.cert = paired]
          /\ plugin = [enabled |-> enabled, connected |-> FALSE, paired |-> enabled /\ paired,
                       stash |-> <<>>, handled |-> <<>>]
    BY BoundAssumption, Zenon DEF Init
  <1>2. Sound(dev) /\ dev.paired = paired /\ dev.paired \in BOOLEAN
    BY <1>1 DEF Sound, Unpaired, PairState, InProgress, Unstamped
  <1>3. /\ plugin \in PluginState /\ ~plugin.connected
        /\ plugin.enabled => plugin.paired = dev.paired
        /\ plugin.stash = <<>> /\ plugin.handled = <<>>
    BY <1>1, <1>2 DEF PluginState
  <1>4. PluginInv
    <2>1. plugin.handled \o plugin.stash = <<>>
      BY <1>3
    <2>2. Rising(plugin.handled \o plugin.stash, seen)
      BY <2>1 DEF Init, Rising
    <2>3. ~Connected
      BY DEF Init, Connected
    <2> QED
      BY <1>3, <2>2, <2>3 DEF PluginInv, PluginInformed, Holds
  <1>5. PreferredChannel
    BY DEF Init, PreferredChannel, ToSet, Alive
  <1>6. TypeOK
    BY <1>2, <1>3, BoundAssumption DEF Init, TypeOK, Sound
  <1> QED
    BY <1>2, <1>4, <1>5, <1>6 DEF Inv

(* What a handled packet leaves behind.                                     *)
LEMMA HandleKeeps ==
  ASSUME Inv, NEW m \in Packet, HandlePacket(m)
  PROVE  /\ Sound(dev') /\ writes' \in [Channel -> Nat] /\ plugin' \in PluginState
         /\ Holds(plugin', dev'.paired, seen + 1)
         /\ plugin'.enabled => /\ plugin'.paired = dev'.paired
                               /\ Connected => plugin'.connected
         /\ ~dev.paired /\ ~dev'.paired => plugin' = plugin
  <1>1. Sound(dev) /\ dev \in PairState /\ Connected \in BOOLEAN /\ Now \in Nat \ {0}
    BY DEF Inv, Sound, Connected, Now
  <1>2. CASE m # Data
    <2> DEFINE r == HandlePair(dev, m, Connected, Now, TRUE)
    <2>1. m \in PairPacket(Nat)
      BY <1>2 DEF Packet, PairPacket
    <2>2. Sound(r.dev)
      BY <1>1, <2>1, HandlePairSound
    <2>3. PairingChanges(r)
      BY <1>2 DEF HandlePacket
    <2> HIDE DEF r
    <2> QED
      BY <2>2, <2>3, PairingKeeps
  <1>3. CASE m = Data /\ ~dev.paired
    <2> DEFINE r == SendPair(dev, FALSE, Connected, Now)
    <2>1. /\ r.dev \in PairState /\ Unstamped(r.dev)
          /\ r.dev.paired = dev.paired /\ r.dev.cert = dev.cert
          /\ r.dev.incoming = dev.incoming /\ r.dev.outgoing = dev.outgoing
      <3>1. Unstamped(dev)
        BY <1>1 DEF Sound
      <3>2. OnlySends(r, dev)
        BY <1>1, <3>1, SendPairSound
      <3> HIDE DEF r
      <3> QED
        BY <3>2 DEF OnlySends
    <2>2. PairingChanges(r)
      BY <1>3 DEF HandlePacket
    <2> HIDE DEF r
    <2>3. Sound(r.dev)
      BY <1>1, <2>1 DEF Sound, InProgress
    <2> QED
      BY <2>2, <2>3, PairingKeeps
  <1>4. CASE m = Data /\ dev.paired
    <2> DEFINE q == PluginHandle(plugin, seen + 1)
    <2>1. plugin' = q /\ UNCHANGED <<dev, writes>>
      BY <1>4 DEF HandlePacket
    <2>2. plugin \in PluginState /\ seen \in Nat /\ Holds(plugin, TRUE, seen)
      BY <1>4 DEF Inv, TypeOK, PluginInv, Holds
    <2>3. /\ q \in PluginState /\ Holds(q, TRUE, seen + 1)
          /\ q.enabled = plugin.enabled /\ q.connected = plugin.connected
          /\ q.paired = plugin.paired
      BY <2>2, HandleHolds
    <2> HIDE DEF q
    <2>4. writes' \in [Channel -> Nat]
      BY <2>1 DEF Inv, TypeOK
    <2>5. Holds(q, dev.paired, seen + 1)
      BY <1>4, <2>3 DEF Holds
    <2>6. plugin.enabled => plugin.paired = dev.paired /\ (Connected => plugin.connected)
      BY DEF Inv, PluginInv, PluginInformed
    <2> QED
      BY <1>1, <1>4, <2>1, <2>3, <2>4, <2>5, <2>6
  <1> QED
    BY <1>2, <1>3, <1>4

LEMMA StepInv == Inv /\ [Next]_vars => Inv'
  <1> SUFFICES ASSUME Inv, [Next]_vars PROVE Inv'
    OBVIOUS
  <1>1. /\ TypeOK /\ Sound(dev) /\ PreferredChannel /\ PluginInv
        /\ dev \in PairState /\ seen \in Nat /\ plugin \in PluginState
        /\ channels \in Seq(Channel) /\ packets \in 0 .. MaxPackets /\ actions \in 0 .. MaxActions
        /\ writes \in [Channel -> Nat] /\ reading \in [Channel -> BOOLEAN]
        /\ got \in [Channel -> Packet \cup {None}]
        /\ inbox \in [Channel -> Seq(Packet \cup {Malformed})]
        /\ life \in [Channel -> {"new", "open", "broken", "destroyed"}]
        /\ channel \in Channel \cup {None}
        /\ Holds(plugin, dev.paired, seen)
    BY DEF Inv, TypeOK, PluginInv
  <1>2. Connected <=> channels # <<>>
    BY <1>1, ConnectedFacts
  <1>3. dev.paired \in BOOLEAN /\ Connected \in BOOLEAN /\ Now \in Nat \ {0}
    BY <1>1 DEF PairState, Connected, Now
  \* a step that only removes channel c from the list
  <1>4. ASSUME NEW c \in Channel, ChannelDestroyed(c)
        PROVE  /\ PreferredChannel' /\ channels' \in Seq(Channel)
               /\ life' \in [Channel -> {"new", "open", "broken", "destroyed"}]
               /\ channel' \in Channel \cup {None}
               /\ Connected' => Connected
    <2>1. PreferredChannel' /\ channels' \in Seq(Channel) /\ (channels' # <<>> => channels # <<>>)
      BY <1>1, <1>4, DestroyKeepsPreferred
    <2>2. channel' \in Channel \cup {None}
      <3>1. channel' = IF channels' = <<>> THEN None ELSE channels'[1]
        BY <2>1 DEF PreferredChannel
      <3> QED
        BY <2>1, <3>1
    <2>3. life' \in [Channel -> {"new", "open", "broken", "destroyed"}]
      BY <1>1, <1>4 DEF ChannelDestroyed
    <2>4. Connected' => channels' # <<>>
      BY <2>1 DEF PreferredChannel, Connected
    <2> QED
      BY <1>2, <2>1, <2>2, <2>3, <2>4
  <1>5. ASSUME NEW c \in Channel, AddChannel(c) PROVE Inv'
    <2>1. PreferredChannel'
      BY <1>1, <1>5, AddKeepsPreferred
    <2>2. /\ plugin' = IF channels = <<>> THEN UpdateState(plugin, TRUE, dev.paired)
                                          ELSE plugin
          /\ UNCHANGED <<dev, writes, inbox, got, seen, bounds>>
          /\ life' = [life EXCEPT ![c] = "open"]
          /\ reading' = [reading EXCEPT ![c] = TRUE]
          /\ channel' = IF Position(c) = 1 THEN c ELSE channel
          /\ channels' = InsertAt(channels, Position(c), c)
      BY <1>5 DEF AddChannel
    <2>3. channels' \in Seq(Channel)
      <3>1. Position(c) \in 1 .. Len(channels) + 1
        BY <1>1, PlaceFacts DEF PreferredChannel
      <3> QED
        BY <1>1, <2>2, <3>1, InsertFacts
    <2>4. /\ plugin' \in PluginState /\ Holds(plugin', dev.paired, seen)
          /\ plugin'.enabled => plugin'.paired = dev.paired /\ plugin'.connected
      <3>1. CASE channels = <<>>
        <4> DEFINE q == UpdateState(plugin, TRUE, dev.paired)
        <4>1. /\ q \in PluginState /\ q.enabled = plugin.enabled
              /\ plugin.enabled => q.connected = TRUE /\ q.paired = dev.paired
          <5>1. Updated(q, plugin, TRUE, dev.paired)
            BY <1>1, <1>3, UpdateFacts
          <5> HIDE DEF q
          <5> QED
            BY <5>1 DEF Updated
        <4>2. Holds(q, dev.paired, seen)
          BY <1>1, <1>3, UpdateHolds
        <4>3. plugin' = q
          BY <2>2, <3>1
        <4> HIDE DEF q
        <4> QED
          BY <4>1, <4>2, <4>3
      <3>2. CASE channels # <<>>
        BY <1>1, <1>2, <2>2, <3>2 DEF PluginInv, PluginInformed
      <3> QED
        BY <3>1, <3>2
    <2>5. PluginInv'
      BY <2>2, <2>4 DEF PluginInv, PluginInformed, Holds
    <2>6. TypeOK'
      BY <1>1, <2>2, <2>3, <2>4 DEF TypeOK, bounds
    <2> QED
      BY <1>1, <2>1, <2>2, <2>5, <2>6 DEF Inv
  <1>6. ASSUME NEW c \in Channel, DestroyChannel(c) PROVE Inv'
    <2>1. ChannelDestroyed(c) /\ UNCHANGED <<pairVars, readVars, bounds>>
      BY <1>6 DEF DestroyChannel
    <2>2. PluginInv'
      BY <1>4, <2>1, PluginUntouched DEF pairVars, readVars
    <2> QED
      BY <1>1, <1>4, <2>1, <2>2 DEF Inv, TypeOK, pairVars, readVars, bounds
  <1>7. ASSUME NEW c \in Channel, ReadFails(c) PROVE Inv'
    <2>1. /\ ChannelDestroyed(c) /\ reading' = [reading EXCEPT ![c] = FALSE]
          /\ UNCHANGED <<pairVars, inbox, got, seen, bounds>>
      BY <1>7 DEF ReadFails
    <2>2. PluginInv'
      BY <1>4, <2>1, PluginUntouched DEF pairVars
    <2> QED
      BY <1>1, <1>4, <2>1, <2>2 DEF Inv, TypeOK, pairVars, bounds
  <1>8. ASSUME NEW c \in Channel, PairWriteFails(c) PROVE Inv'
    <2>1. /\ writes[c] > 0 /\ ChannelDestroyed(c) /\ writes' = [writes EXCEPT ![c] = @ - 1]
          /\ dev' = ResetPair(dev) /\ UNCHANGED <<plugin, readVars, bounds>>
      BY <1>8 DEF PairWriteFails
    <2>2. Sound(dev') /\ dev'.paired = dev.paired
      BY <1>1, <2>1, ResetSound DEF Sound
    <2>3. writes' \in [Channel -> Nat]
      BY <1>1, <2>1
    <2>4. PluginInv'
      BY <1>4, <2>1, <2>2, PluginUntouched DEF readVars
    <2> QED
      BY <1>1, <1>4, <2>1, <2>2, <2>3, <2>4 DEF Inv, TypeOK, readVars, bounds, Sound
  \* the other steps leave the list and the channels alone, but for life
  <1>9. ASSUME UNCHANGED <<channels, channel>>, \A c \in Channel : Alive(c)' = Alive(c)
        PROVE  PreferredChannel' /\ Connected' = Connected
    BY <1>1, <1>9 DEF PreferredChannel, Connected
  <1>10. ASSUME NEW c \in Channel, ReadCompletes(c) PROVE Inv'
    <2>1. /\ inbox[c] # <<>> /\ Head(inbox[c]) # Malformed
          /\ got' = [got EXCEPT ![c] = Head(inbox[c])]
          /\ inbox' = [inbox EXCEPT ![c] = Tail(@)]
          /\ reading' = [reading EXCEPT ![c] = FALSE]
          /\ UNCHANGED <<pairVars, linkVars, seen, bounds>>
      BY <1>10 DEF ReadCompletes
    <2>2. Head(inbox[c]) \in Packet /\ Tail(inbox[c]) \in Seq(Packet \cup {Malformed})
      BY <1>1, <2>1
    <2>3. got' \in [Channel -> Packet \cup {None}] /\ inbox' \in [Channel -> Seq(Packet \cup {Malformed})]
      BY <1>1, <2>1, <2>2
    <2>4. PreferredChannel' /\ Connected' = Connected
      BY <1>9, <2>1 DEF linkVars, Alive
    <2>5. PluginInv'
      BY <2>1, <2>4, PluginUntouched DEF pairVars
    <2> QED
      BY <1>1, <2>1, <2>3, <2>4, <2>5 DEF Inv, TypeOK, pairVars, linkVars, bounds
  <1>11. ASSUME NEW c \in Channel, ReadCallback(c) PROVE Inv'
    <2>1. /\ got[c] # None /\ HandlePacket(got[c]) /\ seen' = seen + 1
          /\ got' = [got EXCEPT ![c] = None]
          /\ reading' = [reading EXCEPT ![c] = Alive(c)]
          /\ UNCHANGED <<linkVars, inbox, bounds>>
      BY <1>11 DEF ReadCallback
    <2>2. got[c] \in Packet
      BY <1>1, <2>1
    <2>3. /\ Sound(dev') /\ writes' \in [Channel -> Nat] /\ plugin' \in PluginState
          /\ Holds(plugin', dev'.paired, seen + 1)
          /\ plugin'.enabled => /\ plugin'.paired = dev'.paired
                                /\ Connected => plugin'.connected
      BY <2>1, <2>2, HandleKeeps
    <2>4. PreferredChannel' /\ Connected' = Connected
      BY <1>9, <2>1 DEF linkVars, Alive
    <2>5. PluginInv'
      BY <2>1, <2>3, <2>4 DEF PluginInv, PluginInformed, Holds
    <2>6. reading' \in [Channel -> BOOLEAN] /\ got' \in [Channel -> Packet \cup {None}]
          /\ seen' \in Nat /\ dev' \in PairState
      BY <1>1, <2>1, <2>3 DEF Alive, Sound
    <2>7. TypeOK'
      BY <1>1, <2>1, <2>3, <2>6 DEF TypeOK, linkVars, bounds
    <2> QED
      BY <2>3, <2>4, <2>5, <2>7 DEF Inv
  <1>12. ASSUME NEW c \in Channel, NEW m \in Packet \cup {Malformed}, PeerSends(c, m) PROVE Inv'
    <2>1. /\ packets < MaxPackets /\ packets' = packets + 1
          /\ inbox' = [inbox EXCEPT ![c] = Append(@, m)]
          /\ UNCHANGED <<pairVars, linkVars, got, reading, seen, actions>>
      BY <1>12 DEF PeerSends
    <2>2. inbox' \in [Channel -> Seq(Packet \cup {Malformed})] /\ packets' \in 0 .. MaxPackets
      BY <1>1, <2>1, BoundAssumption
    <2>3. PreferredChannel' /\ Connected' = Connected
      BY <1>9, <2>1 DEF linkVars, Alive
    <2>4. PluginInv'
      BY <2>1, <2>3, PluginUntouched DEF pairVars
    <2> QED
      BY <1>1, <2>1, <2>2, <2>3, <2>4 DEF Inv, TypeOK, pairVars, linkVars
  <1>13. ASSUME NEW c \in Channel, PeerCloses(c) PROVE Inv'
    <2>1. /\ life[c] = "open" /\ life' = [life EXCEPT ![c] = "broken"]
          /\ UNCHANGED <<pairVars, readVars, channels, channel, bounds>>
      BY <1>13 DEF PeerCloses
    <2>2. /\ \A d \in Channel : Alive(d)' = Alive(d)
          /\ life' \in [Channel -> {"new", "open", "broken", "destroyed"}]
      BY <1>1, <2>1 DEF Alive
    <2>3. PreferredChannel' /\ Connected' = Connected
      BY <1>9, <2>1, <2>2
    <2>4. PluginInv'
      BY <2>1, <2>3, PluginUntouched DEF pairVars, readVars
    <2> QED
      BY <1>1, <2>1, <2>2, <2>3, <2>4 DEF Inv, TypeOK, pairVars, readVars, bounds
  <1>14. ASSUME NEW c \in Channel, PairWritten(c) PROVE Inv'
    <2>1. /\ writes[c] > 0 /\ writes' = [writes EXCEPT ![c] = @ - 1]
          /\ UNCHANGED <<dev, plugin, linkVars, readVars, bounds>>
      BY <1>14 DEF PairWritten
    <2>2. writes' \in [Channel -> Nat]
      BY <1>1, <2>1
    <2>3. PreferredChannel' /\ Connected' = Connected
      BY <1>9, <2>1 DEF linkVars, Alive
    <2>4. PluginInv'
      BY <2>1, <2>3, PluginUntouched DEF readVars
    <2> QED
      BY <1>1, <2>1, <2>2, <2>3, <2>4 DEF Inv, TypeOK, linkVars, readVars, bounds
  <1>15. ASSUME NEW r, Sound(r.dev), PairingChanges(r), UNCHANGED <<linkVars, readVars, packets>>,
                actions < MaxActions, actions' = actions + 1
         PROVE  Inv'
    <2>1. /\ Sound(dev') /\ writes' \in [Channel -> Nat] /\ plugin' \in PluginState
          /\ Holds(plugin', dev'.paired, seen)
          /\ plugin'.enabled => /\ plugin'.paired = dev'.paired
                                /\ Connected => plugin'.connected
      BY <1>15, PairingKeeps
    <2>2. PreferredChannel' /\ Connected' = Connected
      BY <1>9, <1>15 DEF linkVars, Alive
    <2>3. PluginInv'
      BY <1>15, <2>1, <2>2 DEF PluginInv, PluginInformed, Holds, readVars
    <2>4. actions' \in 0 .. MaxActions /\ dev' \in PairState
      BY <1>1, <1>15, <2>1, BoundAssumption DEF Sound
    <2>5. TypeOK'
      BY <1>1, <1>15, <2>1, <2>4 DEF TypeOK, linkVars, readVars
    <2> QED
      BY <2>1, <2>2, <2>3, <2>5 DEF Inv
  <1>16. CASE UserPairs
    <2> DEFINE r == PairAction(dev, Connected, Now, TRUE)
    <2>1. Sound(r.dev)
      BY <1>1, <1>3, PairActionSound
    <2> QED
      BY <1>15, <1>16, <2>1 DEF UserPairs
  <1>17. CASE UserUnpairs
    <2> DEFINE r == UnpairAction(dev, Connected, Now, TRUE)
    <2>1. Sound(r.dev)
      BY <1>1, <1>3, UnpairActionSound
    <2> QED
      BY <1>15, <1>17, <2>1 DEF UserUnpairs
  <1>18. CASE Timeout
    <2>1. dev' = CancelPair(dev) /\ UNCHANGED <<writes, plugin, linkVars, readVars, bounds>>
      BY <1>18 DEF Timeout
    <2>2. Sound(dev') /\ dev'.paired = dev.paired
      BY <1>1, <2>1, CancelSound
    <2>3. PreferredChannel' /\ Connected' = Connected
      BY <1>9, <2>1 DEF linkVars, Alive
    <2>4. PluginInv'
      BY <2>1, <2>2, <2>3, PluginUntouched DEF readVars
    <2> QED
      BY <1>1, <2>1, <2>2, <2>3, <2>4 DEF Inv, TypeOK, linkVars, readVars, bounds, Sound
  <1>19. CASE TogglePlugin
    <2>1. /\ actions < MaxActions /\ actions' = actions + 1
          /\ UNCHANGED <<dev, writes, linkVars, readVars, packets>>
      BY <1>19 DEF TogglePlugin
    <2>2. /\ plugin' \in PluginState /\ Holds(plugin', dev.paired, seen)
          /\ plugin'.enabled => /\ plugin'.paired = dev.paired
                                /\ Connected => plugin'.connected
      <3>1. plugin.handled \in Seq(Nat) /\ plugin.stash \in Seq(Nat)
            /\ Rising(plugin.handled \o plugin.stash, seen)
        BY <1>1 DEF PluginState, Holds
      <3>2. CASE plugin.enabled
        <4> DEFINE q == [plugin EXCEPT !.enabled = FALSE, !.stash = <<>>,
                                       !.connected = FALSE, !.paired = FALSE]
        <4>1. /\ q \in PluginState /\ ~q.enabled /\ ~q.connected
              /\ q.stash = <<>> /\ q.handled = plugin.handled
          <5>1. <<>> \in Seq(Nat)
            OBVIOUS
          <5> QED
            BY <1>1, <5>1 DEF PluginState
        <4>2. plugin' = q
          BY <1>19, <3>2 DEF TogglePlugin
        <4> HIDE DEF q
        <4>3. Holds(q, dev.paired, seen)
          BY <1>1, <3>1, <4>1, RisingFacts DEF Holds
        <4> QED
          BY <4>1, <4>2, <4>3
      <3>3. CASE ~plugin.enabled
        <4> DEFINE p == [plugin EXCEPT !.enabled = TRUE]
                   q == UpdateState(p, Connected, dev.paired)
        <4>1. /\ p \in PluginState /\ p.enabled /\ p.connected = plugin.connected
              /\ p.stash = plugin.stash /\ p.handled = plugin.handled
          BY <1>1 DEF PluginState
        <4>2. plugin' = q
          BY <1>19, <3>3 DEF TogglePlugin
        <4> HIDE DEF p
        <4>3. Holds(p, dev.paired, seen)
          BY <1>1, <3>3, <4>1 DEF Holds
        <4>4. /\ q \in PluginState /\ q.enabled = p.enabled
              /\ q.connected = Connected /\ q.paired = dev.paired
          <5>1. Updated(q, p, Connected, dev.paired)
            BY <1>3, <4>1, UpdateFacts
          <5> HIDE DEF q
          <5> QED
            BY <4>1, <5>1 DEF Updated
        <4>5. Holds(q, dev.paired, seen)
          BY <1>1, <1>3, <4>1, <4>3, UpdateHolds
        <4> HIDE DEF q
        <4> QED
          BY <4>2, <4>4, <4>5
      <3> QED
        BY <3>2, <3>3
    <2>3. PreferredChannel' /\ Connected' = Connected
      BY <1>9, <2>1 DEF linkVars, Alive
    <2>4. PluginInv'
      BY <2>1, <2>2, <2>3 DEF PluginInv, PluginInformed, Holds, readVars
    <2>5. actions' \in 0 .. MaxActions
      BY <1>1, <2>1, BoundAssumption
    <2> QED
      BY <1>1, <2>1, <2>2, <2>3, <2>4, <2>5 DEF Inv, TypeOK, linkVars, readVars
  <1>20. CASE UNCHANGED vars
    <2>1. PreferredChannel' /\ Connected' = Connected
      BY <1>9, <1>20 DEF vars, Alive
    <2>2. PluginInv'
      BY <1>20, <2>1, PluginUntouched DEF vars
    <2> QED
      BY <1>1, <1>20, <2>1, <2>2 DEF Inv, TypeOK, vars
  <1> QED
    BY <1>5, <1>6, <1>7, <1>8, <1>10, <1>11, <1>12, <1>13, <1>14, <1>16, <1>17,
       <1>18, <1>19, <1>20 DEF Next

LEMMA Invariance == Spec => []Inv
  <1> QED
    BY InitInv, StepInv, PTL DEF Spec
-----------------------------------------------------------------------------
(* Each variable keeps its type, for any set of channels.                   *)
THEOREM TypeCorrect == Spec => []TypeOK
  <1>1. Inv => TypeOK
    BY DEF Inv
  <1> QED
    BY <1>1, Invariance, PTL

(* However channels are added, fail and are destroyed, the device uses the  *)
(* best of those that are open, and lists each of them once.                *)
THEOREM BestChannelIsUsed == Spec => []PreferredChannel
  <1>1. Inv => PreferredChannel
    BY DEF Inv
  <1> QED
    BY <1>1, Invariance, PTL

(* An enabled plugin always knows the paired state, and of a connection.    *)
THEOREM PluginIsTold == Spec => []PluginInformed
  <1>1. Inv => PluginInformed
    BY DEF Inv, PluginInv
  <1> QED
    BY <1>1, Invariance, PTL

(* Stashing never reorders the packets a plugin handles, nor repeats one.   *)
THEOREM StashKeepsOrder == Spec => []HandledInOrder
  <1>1. Inv => HandledInOrder
    BY DEF Inv, PluginInv, Holds, Rising, HandledInOrder
  <1> QED
    BY <1>1, Invariance, PTL

(* Nothing reaches a plugin of a device that is not paired, and nothing is  *)
(* kept for it.                                                             *)
THEOREM NothingWhileUnpaired == Spec => UnpairedIsUnheard
  <1> DEFINE Unheard == ~dev'.paired =>
                           /\ plugin'.stash = <<>>
                           /\ ~dev.paired => plugin'.handled = plugin.handled
  <1>1. Inv /\ Inv' /\ [Next]_vars => [Unheard]_vars
    <2>a. Inv' /\ ~dev'.paired => plugin'.stash = <<>>
      BY DEF Inv, PluginInv, Holds
    <2> SUFFICES ASSUME Inv, Inv', Next, ~dev.paired, ~dev'.paired
                 PROVE  plugin'.handled = plugin.handled
      BY <2>a
    <2>1. plugin.stash = <<>> /\ plugin'.stash = <<>>
      BY DEF Inv, PluginInv, Holds
    <2>2. plugin \in PluginState /\ dev \in PairState /\ Connected \in BOOLEAN
      BY DEF Inv, TypeOK, Connected
    <2>3. dev.paired \in BOOLEAN
      BY <2>2 DEF PairState
    <2>4. ASSUME NEW p \in PluginState, NEW conn \in BOOLEAN
          PROVE  UpdateState(p, conn, dev.paired).handled = p.handled
      <3>1. CASE ~p.enabled
        BY <3>1 DEF UpdateState
      <3>2. CASE p.enabled
        <4> DEFINE q == [p EXCEPT !.connected = conn, !.paired = dev.paired]
        <4>1. UpdateState(p, conn, dev.paired) = [q EXCEPT !.stash = <<>>]
          BY <3>2 DEF UpdateState
        <4> QED
          BY <4>1 DEF PluginState
      <3> QED
        BY <3>1, <3>2
    <2>5. ASSUME NEW c \in Channel, AddChannel(c) PROVE plugin'.handled = plugin.handled
      <3>1. plugin' = UpdateState(plugin, TRUE, dev.paired) \/ plugin' = plugin
        BY <2>5 DEF AddChannel
      <3> QED
        BY <2>2, <2>4, <3>1
    <2>6. ASSUME NEW c \in Channel, ReadCallback(c) PROVE plugin'.handled = plugin.handled
      <3>1. HandlePacket(got[c]) /\ got[c] \in Packet
        BY <2>6 DEF ReadCallback, Inv, TypeOK
      <3>2. plugin' = plugin
        BY <3>1, HandleKeeps
      <3> QED
        BY <3>2
    <2>7. ASSUME NEW r, Sound(r.dev), PairingChanges(r) PROVE plugin'.handled = plugin.handled
      BY <2>7, PairingKeeps
    <2>8. CASE UserPairs
      <3> DEFINE r == PairAction(dev, Connected, Now, TRUE)
      <3>1. Sound(dev) /\ Now \in Nat \ {0}
        BY DEF Inv, Now
      <3>2. Sound(r.dev)
        BY <2>2, <3>1, PairActionSound, Zenon
      <3>3. PairingChanges(r)
        BY <2>8 DEF UserPairs
      <3> HIDE DEF r
      <3> QED
        BY <2>1, <2>7, <3>2, <3>3
    <2>9. CASE UserUnpairs
      <3> DEFINE r == UnpairAction(dev, Connected, Now, TRUE)
      <3>1. Sound(dev) /\ Now \in Nat \ {0}
        BY DEF Inv, Now
      <3>2. Sound(r.dev)
        BY <2>2, <3>1, UnpairActionSound, Zenon
      <3>3. PairingChanges(r)
        BY <2>9 DEF UserUnpairs
      <3> HIDE DEF r
      <3> QED
        BY <2>1, <2>7, <3>2, <3>3
    <2>10. CASE TogglePlugin
      <3>1. CASE plugin.enabled
        <4>1. plugin' = [plugin EXCEPT !.enabled = FALSE, !.stash = <<>>,
                                       !.connected = FALSE, !.paired = FALSE]
          BY <2>10, <3>1 DEF TogglePlugin
        <4> QED
          BY <2>1, <2>2, <4>1 DEF PluginState
      <3>2. CASE ~plugin.enabled
        <4> DEFINE p == [plugin EXCEPT !.enabled = TRUE]
        <4>1. p \in PluginState /\ p.handled = plugin.handled
          BY <2>2 DEF PluginState
        <4>2. plugin' = UpdateState(p, Connected, dev.paired)
          BY <2>10, <3>2 DEF TogglePlugin
        <4> HIDE DEF p
        <4> QED
          BY <2>1, <2>2, <2>4, <4>1, <4>2
      <3> QED
        BY <3>1, <3>2
    <2>11. ASSUME UNCHANGED plugin PROVE plugin'.handled = plugin.handled
      BY <2>11
    <2>12. plugin'.handled = plugin.handled
      BY <2>5, <2>6, <2>8, <2>9, <2>10, <2>11
      DEF Next, DestroyChannel, ReadCompletes, ReadFails, PairWritten, PairWriteFails,
          PeerSends, PeerCloses, Timeout, pairVars
    <2> QED
      BY <2>1, <2>12
  <1> QED
    BY <1>1, Invariance, PTL DEF Spec, UnpairedIsUnheard
=============================================================================
