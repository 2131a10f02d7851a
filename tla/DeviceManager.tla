--------------------------- MODULE DeviceManager ---------------------------
(***************************************************************************)
(* The ValentDeviceManager with the ValentChannelServices it owns, over    *)
(* starts, stops and crashes of the process.  A device is what the manager *)
(* sees of it: whether it is paired, and its channels; module Device has   *)
(* the rest.  A callback runs inside the call that triggers it (a channel  *)
(* destroyed inside a table's replace, a device removed inside its notify),*)
(* so each is an operator on the manager's record, and a handler composes  *)
(* them in the order of the calls.                                         *)
(***************************************************************************)
EXTENDS Integers, FiniteSetTheorems, TLAPS

CONSTANTS
    Id,                  \* the IDs of remote devices
    LocalId,             \* the ID of this one
    Channel,             \* the channels that may be negotiated
    Service,             \* the channel services
    Peer,                \* [id, key, service] of each channel
    Limit,               \* DEVICE_UNPAIRED_MAX
    MaxStops, MaxFaults, \* bound the ends of the process, the failing files
    None

ASSUME IdAssumption == LocalId \notin Id
ASSUME NoneAssumption == None \notin Channel
ASSUME LimitAssumption == Limit \in Nat /\ IsFiniteSet(Id)
ASSUME PeerAssumption ==
    \A c \in Channel : Peer[c].id \in Id /\ Peer[c].service \in Service
ASSUME BoundAssumption == MaxStops \in Nat /\ MaxFaults \in Nat

VARIABLES
    running,             \* between startup and shutdown
    m,                   \* the manager: devices, paired, links, state
    service,             \* of each service: "off", "on", "leaving"
    tracked,             \* priv->channels of each service
    life,                \* of each channel: "new", "open", "destroyed"
    cert,                \* the devices whose certificate.pem exists
    file,                \* the devices in devices.json
    crashes, stops, faults

vars == <<running, m, service, tracked, life, cert, file, crashes, stops, faults>>

diskVars == <<cert, file>>
bounds == <<crashes, stops, faults>>

NoLinks == [i \in Id |-> {}]

(* An empty manager, and one that has read devices.json: each device reads  *)
(* from the disk whether it is paired (valent_device_constructed()).        *)
Loaded(ids) ==
    [devices |-> ids, paired |-> ids \cap cert, links |-> NoLinks, state |-> ids]

NoTable == [i \in Id \cup {LocalId} |-> None]

Init ==
    /\ running = FALSE
    /\ cert = {}
    /\ m = Loaded({})
    /\ service = [s \in Service |-> "off"]
    /\ tracked = [s \in Service |-> NoTable]
    /\ life = [c \in Channel |-> "new"]
    /\ file = {}
    /\ crashes = 0 /\ stops = 0 /\ faults = 0

IsConnected(n, i) == n.links[i] # {}

Unpaired(n) == n.devices \ n.paired

Live(s) == {c \in Channel : life[c] = "open" /\ Peer[c].service = s}

-----------------------------------------------------------------------------
(* valent-device-manager.c, as operators on the record                      *)

(* valent_device_manager_remove_device()                                    *)
RemoveDevice(n, i) == [n EXCEPT !.devices = @ \ {i}]

(* Mutant: only the list forgets a device that is unpaired. *)
OnDeviceStateKeep(n, i) ==
    CASE IsConnected(n, i) /\ i \in n.paired ->
            [n EXCEPT !.state = @ \cup {i}]
      [] ~IsConnected(n, i) /\ i \notin n.paired ->
            RemoveDevice(n, i)
      [] OTHER -> n

(* Mutant: devices.json is kept for the devices that are disconnected. *)
OnDeviceStateLate(n, i) ==
    CASE ~IsConnected(n, i) /\ i \in n.paired ->
            [n EXCEPT !.state = @ \cup {i}]
      [] ~IsConnected(n, i) /\ i \notin n.paired ->
            RemoveDevice([n EXCEPT !.state = @ \ {i}], i)
      [] OTHER -> n

(* Mutant: a device that is unpaired and disconnected stays in the list. *)
OnDeviceStateStay(n, i) ==
    CASE IsConnected(n, i) /\ i \in n.paired ->
            [n EXCEPT !.state = @ \cup {i}]
      [] i \notin n.paired -> [n EXCEPT !.state = @ \ {i}]
      [] OTHER -> n

(* Mutant: a device is removed as soon as it is unpaired. *)
OnDeviceStateRemove(n, i) ==
    CASE IsConnected(n, i) /\ i \in n.paired ->
            [n EXCEPT !.state = @ \cup {i}]
      [] i \notin n.paired ->
            RemoveDevice([n EXCEPT !.state = @ \ {i}], i)
      [] OTHER -> n

(* on_device_state(): remember a paired device that is connected; forget an *)
(* unpaired one, and remove it if it is disconnected as well.               *)
OnDeviceState(n, i) ==
    CASE IsConnected(n, i) /\ i \in n.paired ->
            [n EXCEPT !.state = @ \cup {i}]
      [] IsConnected(n, i) /\ i \notin n.paired ->
            [n EXCEPT !.state = @ \ {i}]
      [] ~IsConnected(n, i) /\ i \notin n.paired ->
            RemoveDevice([n EXCEPT !.state = @ \ {i}], i)
      [] OTHER -> n

(* on_channel_destroy() of the device that has the channel                  *)
LoseChannel(n, c) ==
    LET i == Peer[c].id
        left == [n EXCEPT !.links[i] = @ \ {c}]
    IN  IF IsConnected(n, i) /\ ~IsConnected(left, i)
          THEN OnDeviceState(left, i)
          ELSE left

(* All of these, in any order: the manager forgets the devices that are not *)
(* paired and lose their last.                                              *)
LoseChannels(n, cs) ==
    LET left == [i \in Id |-> n.links[i] \ cs]
        forgotten == {i \in Id \ n.paired : IsConnected(n, i) /\ left[i] = {}}
    IN  [n EXCEPT !.links = left,
                  !.devices = @ \ forgotten, !.state = @ \ forgotten]

(* valent_device_manager_ensure_device(): the device is found or created    *)
EnsureDevice(n, i) ==
    IF i \in n.devices
      THEN n
      ELSE [n EXCEPT !.devices = @ \cup {i},
                     !.paired = IF i \in cert THEN @ \cup {i} ELSE @ \ {i}]

(* valent_device_manager_check_device(): the device is counted, too.        *)
CheckDevice(n, i) == i \in n.paired \/ Cardinality(Unpaired(n)) < Limit

(* valent_device_add_channel()                                              *)
AddChannel(n, c) ==
    LET i == Peer[c].id
        linked == [n EXCEPT !.links[i] = @ \cup {c}]
    IN  IF IsConnected(n, i) THEN linked ELSE OnDeviceState(linked, i)

(* on_channel(): the manager's part in a channel                            *)
OnChannel(n, c) ==
    LET known == EnsureDevice(n, Peer[c].id)
    IN  IF CheckDevice(known, Peer[c].id) THEN AddChannel(known, c) ELSE known
-----------------------------------------------------------------------------
(* Channel services *)

(* The channel service's on_channel_destroyed() looks the channel up by its *)
(* own certificate, the local one.                                          *)
OnChannelDestroyed(table) == [table EXCEPT ![LocalId] = None]

Current(c) == tracked[Peer[c].service][Peer[c].id]

(* "Ensure the certificate matches that of any existing channel"            *)
VerifyChannel(c) == \A d \in {Current(c)} \ {None} : Peer[d].key = Peer[c].key

(* valent_channel_service_channel() with a channel that is verified: the    *)
(* table destroys the channel it replaces, then the manager is told.        *)
ChannelArrives(c) ==
    LET s == Peer[c].service
        n == OnChannel(LoseChannels(m, {Current(c)} \ {None}), c)
    IN  /\ running /\ service[s] = "on" /\ life[c] = "new" /\ VerifyChannel(c)
        /\ m' = n
        /\ tracked' = [tracked EXCEPT ![s][Peer[c].id] = c]
        /\ life' = [d \in Channel |->
                      CASE d = Current(c) -> "destroyed"
                        [] d = c /\ c \in n.links[Peer[c].id] -> "open"
                        [] d = c /\ c \notin n.links[Peer[c].id] -> "destroyed"
                        [] OTHER -> life[d]]
        /\ UNCHANGED <<running, service, diskVars, bounds>>

(* ... and with one that is not. *)
ChannelRefused(c) ==
    /\ running /\ service[Peer[c].service] = "on" /\ life[c] = "new"
    /\ ~VerifyChannel(c)
    /\ life' = [life EXCEPT ![c] = "destroyed"]
    /\ UNCHANGED <<running, m, service, tracked, diskVars, bounds>>

(* The connection is lost, or the device destroys the channel on an error.  *)
ChannelDies(c) ==
    LET s == Peer[c].service
    IN  /\ life[c] = "open"
        /\ life' = [life EXCEPT ![c] = "destroyed"]
        /\ tracked' = [tracked EXCEPT ![s] = OnChannelDestroyed(@)]
        /\ m' = LoseChannel(m, c)
        /\ UNCHANGED <<running, service, diskVars, bounds>>

EnableService(s) ==
    /\ running /\ service[s] = "off"
    /\ service' = [service EXCEPT ![s] = "on"]
    /\ UNCHANGED <<running, m, tracked, life, diskVars, bounds>>

(* valent_device_manager_disable_plugin(): no more channels, but the object *)
(* lives, with those it has, until its last reference is dropped.           *)
DisableService(s) ==
    /\ running /\ service[s] = "on"
    /\ service' = [service EXCEPT ![s] = "leaving"]
    /\ UNCHANGED <<running, m, tracked, life, diskVars, bounds>>

(* valent_channel_service_finalize(): the table destroys its channels.      *)
FinalizeService(s) ==
    LET lost == {tracked[s][i] : i \in Id} \cap Live(s)
    IN  /\ service[s] = "leaving"
        /\ service' = [service EXCEPT ![s] = "off"]
        /\ tracked' = [tracked EXCEPT ![s] = NoTable]
        /\ life' = [c \in Channel |-> IF c \in lost THEN "destroyed" ELSE life[c]]
        /\ m' = LoseChannels(m, lost)
        /\ UNCHANGED <<running, diskVars, bounds>>
-----------------------------------------------------------------------------
(* Pairing, as far as the manager is told *)

(* valent_device_set_paired(): the file operation may fail, with a warning. *)
WritesCert(next) ==
    \/ cert' = next /\ UNCHANGED faults
    \/ cert' = cert /\ faults < MaxFaults /\ faults' = faults + 1

(* A device only pairs while it is connected.                               *)
Pair(i) ==
    /\ running /\ i \in Unpaired(m) /\ IsConnected(m, i)
    /\ WritesCert(cert \cup {i})
    /\ m' = OnDeviceState([m EXCEPT !.paired = @ \cup {i}], i)
    /\ UNCHANGED <<running, service, tracked, life, file, crashes, stops>>

Unpair(i) ==
    /\ running /\ i \in m.devices \cap m.paired
    /\ WritesCert(cert \ {i})
    /\ m' = OnDeviceState([m EXCEPT !.paired = @ \ {i}], i)
    /\ UNCHANGED <<running, service, tracked, life, file, crashes, stops>>

(* pair_action() notifies of the state, even of a disconnected device.      *)
AskToPair(i) ==
    /\ running /\ i \in Unpaired(m)
    /\ m' = OnDeviceState(m, i)
    /\ UNCHANGED <<running, service, tracked, life, diskVars, bounds>>
-----------------------------------------------------------------------------
(* The process *)

Startup ==
    /\ ~running
    /\ running' = TRUE
    /\ m' = Loaded(file)
    /\ service' = [s \in Service |-> "on"]
    /\ UNCHANGED <<tracked, life, diskVars, bounds>>

(* The services, the devices and all they hold end with the process.        *)
ProcessEnds ==
    /\ running
    /\ stops < MaxStops
    /\ stops' = stops + 1
    /\ running' = FALSE
    /\ m' = [m EXCEPT !.devices = {}, !.paired = {}, !.links = NoLinks, !.state = {}]
    /\ service' = [s \in Service |-> "off"]
    /\ tracked' = [s \in Service |-> NoTable]
    /\ life' = [c \in Channel |-> IF life[c] = "open" THEN "destroyed" ELSE life[c]]
    /\ UNCHANGED cert

(* Mutant: the state is written as it is. *)
SaveStateAll(n) == n.state

(* valent_device_manager_save_state(): devices that are unpaired go first.  *)
SaveState(n) == n.state \ Unpaired(n)

(* valent_device_manager_shutdown(): the services are gone, with their      *)
(* channels, before the state is saved.                                     *)
Shutdown ==
    /\ ProcessEnds
    /\ \/ file' = SaveState(LoseChannels(m, {c \in Channel : life[c] = "open"}))
          /\ UNCHANGED faults
       \/ UNCHANGED file /\ faults < MaxFaults /\ faults' = faults + 1
    /\ UNCHANGED crashes

Crash ==
    /\ ProcessEnds
    /\ crashes' = crashes + 1
    /\ UNCHANGED <<file, faults>>

Next ==
    \/ Startup \/ Shutdown \/ Crash
    \/ \E c \in Channel : ChannelArrives(c) \/ ChannelRefused(c) \/ ChannelDies(c)
    \/ \E s \in Service : EnableService(s) \/ DisableService(s) \/ FinalizeService(s)
    \/ \E i \in Id : Pair(i) \/ Unpair(i) \/ AskToPair(i)

Spec == Init /\ [][Next]_vars
-----------------------------------------------------------------------------
Manager ==
    [devices : SUBSET Id, paired : SUBSET Id,
     links : [Id -> SUBSET Channel], state : SUBSET Id]

TypeOK ==
    /\ running \in BOOLEAN
    /\ m \in Manager
    /\ service \in [Service -> {"off", "on", "leaving"}]
    /\ tracked \in [Service -> [Id \cup {LocalId} -> Channel \cup {None}]]
    /\ life \in [Channel -> {"new", "open", "destroyed"}]
    /\ cert \in SUBSET Id /\ file \in SUBSET Id
    /\ crashes \in 0 .. stops /\ stops \in 0 .. MaxStops
    /\ faults \in 0 .. MaxFaults

(* A paired device that the manager lists is among those it will write to   *)
(* devices.json, however it was paired, restarted and reconnected.          *)
PairedIsRemembered == m.devices \cap m.paired \subseteq m.state

(* If the process never crashed and no file operation failed, devices.json  *)
(* and the certificates agree whenever it does not run.                     *)
DiskAgrees == ~running /\ crashes = 0 /\ faults = 0 => file = cert

(* A shutdown leaves no device in devices.json that is not paired on the    *)
(* disk, whatever a crash before it had left there.                         *)
ShutdownSavesPaired ==
    [][stops' # stops /\ crashes' = crashes /\ faults' = 0 => file' \subseteq cert']_vars

(* The channels of a device are the open ones, and no two of them belong to *)
(* one service.                                                             *)
OneChannelPerService ==
    /\ \A i \in Id : m.links[i] = {c \in Channel : life[c] = "open" /\ Peer[c].id = i}
    /\ \A c, d \in Channel :
          life[c] = "open" /\ life[d] = "open" /\ Peer[c].id = Peer[d].id /\ c # d
              => Peer[c].service # Peer[d].service

(* A device that has a channel is listed: nothing is connected out of the   *)
(* user's sight.                                                            *)
ConnectedIsListed == \A i \in Id : IsConnected(m, i) => i \in m.devices

(* Both: the channels and the devices that the user sees agree.             *)
ChannelsAreListed == OneChannelPerService /\ ConnectedIsListed

(* Devices in the list that are neither paired nor connected.               *)
Idle(n) == {i \in Unpaired(n) : ~IsConnected(n, i)}

(* A new channel of i was destroyed, with as many strangers as are allowed. *)
RefusedNow(i) ==
    /\ Cardinality(Unpaired(m')) >= Limit
    /\ \E c \in Channel : Peer[c].id = i /\ life[c] = "new" /\ life'[c] = "destroyed"

(* The list does not fill with strangers that left: nobody who loses the    *)
(* last channel, or is unpaired without one, or asks in vain, stays.  Who   *)
(* is listed, unpaired and without a channel was refused a channel when the *)
(* limit was reached, being listed before the check, or is what a crash or  *)
(* a file that could not be written left in devices.json.                   *)
IdleWereRefused ==
    [][\A i \in Idle(m') \ Idle(m) :
          RefusedNow(i) \/ (~running /\ i \in file \ cert)]_vars
-----------------------------------------------------------------------------
(* Proofs.  What the operators keep of a manager: its links are to channels *)
(* of the device, who has one is listed, who is paired is remembered, and   *)
(* nobody else is remembered than who is listed.                            *)
Owned(n) == \A i \in Id : \A c \in n.links[i] : Peer[c].id = i

Sane(n) ==
    /\ n \in Manager
    /\ Owned(n)
    /\ \A i \in Id : IsConnected(n, i) => i \in n.devices
    /\ n.devices \cap n.paired \subseteq n.state
    /\ n.state \subseteq n.devices

(* The channels, as the services track them and as the devices list them.   *)
Linked ==
    /\ \A i \in Id : m.links[i] = {c \in Channel : life[c] = "open" /\ Peer[c].id = i}
    /\ \A c \in Channel : life[c] = "open" => running /\ Current(c) = c
    /\ \A s \in Service, i \in Id :
          tracked[s][i] # None =>
              /\ Peer[tracked[s][i]].id = i /\ Peer[tracked[s][i]].service = s
              /\ life[tracked[s][i]] # "new"

(* Memory and disk.  Until a file operation fails, those who are listed are *)
(* paired if they have a certificate; until a crash, all who have one are   *)
(* listed.                                                                  *)
Known == m.devices \cap m.paired

OnDisk ==
    /\ faults = 0 => Known = m.devices \cap cert
    /\ faults = 0 /\ crashes = 0 => cert = IF running THEN Known ELSE file
    /\ ~running => m.devices = {}

Inv == TypeOK /\ Sane(m) /\ Linked /\ OnDisk

LEMMA OnDeviceStateFacts ==
  ASSUME NEW n \in Manager, NEW i \in Id
  PROVE  LET r == OnDeviceState(n, i)
         IN  /\ r \in Manager /\ r.links = n.links /\ r.paired = n.paired
             /\ r.devices = IF IsConnected(n, i) \/ i \in n.paired
                              THEN n.devices ELSE n.devices \ {i}
             /\ r.state = IF i \notin n.paired THEN n.state \ {i}
                          ELSE IF IsConnected(n, i) THEN n.state \cup {i} ELSE n.state
  <1>1. CASE IsConnected(n, i) /\ i \in n.paired
    BY <1>1 DEF OnDeviceState, Manager
  <1>2. CASE IsConnected(n, i) /\ i \notin n.paired
    BY <1>2 DEF OnDeviceState, Manager
  <1>3. CASE ~IsConnected(n, i) /\ i \notin n.paired
    BY <1>3 DEF OnDeviceState, RemoveDevice, Manager
  <1>4. CASE ~IsConnected(n, i) /\ i \in n.paired
    BY <1>4 DEF OnDeviceState, Manager
  <1> QED
    BY <1>1, <1>2, <1>3, <1>4

(* Losing channels, one or many, costs nobody who is paired its place.      *)
LEMMA LoseManyFacts ==
  ASSUME NEW n, Sane(n), NEW cs \in SUBSET Channel
  PROVE  LET r == LoseChannels(n, cs)
         IN  /\ Sane(r) /\ r.paired = n.paired
             /\ \A i \in Id : r.links[i] = n.links[i] \ cs
             /\ r.devices \subseteq n.devices
             /\ n.devices \cap n.paired \subseteq r.devices
             /\ Idle(r) \subseteq Idle(n)
  <1> DEFINE left == [i \in Id |-> n.links[i] \ cs]
             forgotten == {i \in Id \ n.paired : IsConnected(n, i) /\ left[i] = {}}
             r == LoseChannels(n, cs)
  <1>1. /\ r \in Manager /\ r.links = left /\ r.paired = n.paired
        /\ r.devices = n.devices \ forgotten /\ r.state = n.state \ forgotten
    BY DEF LoseChannels, Manager, Sane
  <1>2. /\ \A i \in Id : left[i] = n.links[i] \ cs
        /\ forgotten \cap n.paired = {}
        /\ \A i \in forgotten : left[i] = {}
    OBVIOUS
  <1> HIDE DEF left, forgotten, r
  <1>3. \A i \in Id : IsConnected(r, i) => IsConnected(n, i) /\ i \notin forgotten
    BY <1>1, <1>2 DEF IsConnected
  <1>4. Sane(r)
    BY <1>1, <1>2, <1>3 DEF Sane, Owned
  <1>5. Idle(r) \subseteq Idle(n)
    <2> SUFFICES ASSUME NEW i \in Idle(r) PROVE i \in Idle(n)
      OBVIOUS
    <2>1. i \in n.devices /\ i \notin n.paired /\ i \notin forgotten /\ r.links[i] = {}
      BY <1>1 DEF Idle, Unpaired, IsConnected
    <2>2. i \in Id
      BY <2>1 DEF Sane, Manager
    <2>3. ~IsConnected(n, i)
      BY <1>1, <2>1, <2>2 DEF forgotten
    <2> QED
      BY <2>1, <2>3 DEF Idle, Unpaired
  <1> QED
    BY <1>1, <1>2, <1>4, <1>5 DEF r

LEMMA LoseOneFacts ==
  ASSUME NEW n, Sane(n), NEW c \in Channel
  PROVE  LET r == LoseChannel(n, c)
         IN  /\ Sane(r) /\ r.paired = n.paired
             /\ \A i \in Id : r.links[i] = n.links[i] \ {c}
             /\ r.devices \subseteq n.devices
             /\ n.devices \cap n.paired \subseteq r.devices
             /\ Idle(r) \subseteq Idle(n)
  <1> DEFINE i == Peer[c].id
             left == [n EXCEPT !.links[i] = @ \ {c}]
             r == LoseChannel(n, c)
  <1>1. i \in Id /\ n \in Manager /\ Owned(n)
    BY PeerAssumption DEF Sane
  <1>2. /\ left \in Manager /\ left.paired = n.paired
        /\ left.devices = n.devices /\ left.state = n.state
    BY <1>1 DEF Manager
  <1>i. \A j \in Id : left.links[j] = IF j = i THEN n.links[j] \ {c} ELSE n.links[j]
    BY <1>1 DEF Manager
  <1>3. \A j \in Id : left.links[j] = n.links[j] \ {c}
    BY <1>1, <1>i DEF Owned
  <1>4. r = IF IsConnected(n, i) /\ ~IsConnected(left, i) THEN OnDeviceState(left, i) ELSE left
    BY DEF LoseChannel
  <1> HIDE DEF i, left, r
  <1>5. /\ r \in Manager /\ r.links = left.links /\ r.paired = n.paired
        /\ \/ r.devices = n.devices /\ r.state = n.state
           \/ /\ ~IsConnected(left, i) /\ i \notin n.paired
              /\ r.devices = n.devices \ {i} /\ r.state = n.state \ {i}
    <2>1. CASE IsConnected(n, i) /\ ~IsConnected(left, i)
      <3>1. CASE i \in n.paired
        BY <1>1, <1>2, <1>4, <2>1, <3>1, OnDeviceStateFacts
      <3>2. CASE i \notin n.paired
        <4>1. r = OnDeviceState(left, i) /\ left \in Manager /\ i \notin left.paired
          BY <1>2, <1>4, <2>1, <3>2
        <4>2. /\ r \in Manager /\ r.links = left.links /\ r.paired = left.paired
              /\ r.devices = left.devices \ {i} /\ r.state = left.state \ {i}
          BY <1>1, <2>1, <4>1, OnDeviceStateFacts
        <4> QED
          BY <1>2, <2>1, <3>2, <4>2
      <3> QED
        BY <3>1, <3>2
    <2>2. CASE ~(IsConnected(n, i) /\ ~IsConnected(left, i))
      BY <1>2, <1>4, <2>2
    <2> QED
      BY <2>1, <2>2
  <1>6. \A j \in Id : IsConnected(r, j) => IsConnected(n, j) /\ IsConnected(left, j)
    BY <1>3, <1>5 DEF IsConnected
  <1>7. Sane(r)
    BY <1>1, <1>3, <1>5, <1>6 DEF Sane, Owned
  <1>8. Idle(r) \subseteq Idle(n)
    <2> SUFFICES ASSUME NEW j \in Idle(r) PROVE j \in Idle(n)
      OBVIOUS
    <2>1. /\ j \in n.devices /\ j \notin n.paired /\ j \in r.devices
          /\ left.links[j] = {} /\ j \in Id
      BY <1>1, <1>5 DEF Idle, Unpaired, IsConnected, Manager
    <2>2. CASE j # i
      <3>1. n.links[j] = {}
        <4>1. j = i \/ n.links[j] = left.links[j]
          BY <1>i, <2>1
        <4> QED
          BY <2>1, <2>2, <4>1
      <3> QED
        BY <2>1, <3>1 DEF Idle, Unpaired, IsConnected
    <2>3. CASE j = i
      <3>1. ~IsConnected(left, i)
        BY <2>1, <2>3 DEF IsConnected
      <3>2. CASE IsConnected(n, i)
        <4>1. left \in Manager /\ i \in Id /\ i \notin left.paired /\ r = OnDeviceState(left, i)
          BY <1>1, <1>2, <1>4, <2>1, <2>3, <3>1, <3>2
        <4>2. i \notin r.devices
          BY <3>1, <4>1, OnDeviceStateFacts
        <4> QED
          BY <2>1, <2>3, <4>2
      <3>3. CASE ~IsConnected(n, i)
        BY <2>1, <2>3, <3>3 DEF Idle, Unpaired
      <3> QED
        BY <3>2, <3>3
    <2> QED
      BY <2>2, <2>3
  <1> QED
    BY <1>3, <1>5, <1>7, <1>8 DEF r

(* A channel that comes for a device: if the manager takes it, the device   *)
(* is listed, and remembered if it is paired.                               *)
LEMMA OnChannelFacts ==
  ASSUME NEW n, Sane(n), NEW c \in Channel, cert \in SUBSET Id
  PROVE  LET i == Peer[c].id
             r == OnChannel(n, c)
         IN  /\ Sane(r)
             /\ \/ r.links = n.links
                \/ \A j \in Id : r.links[j] = IF j = i THEN n.links[j] \cup {c} ELSE n.links[j]
             /\ n.devices \subseteq r.devices
             /\ \A j \in n.devices : j \in r.paired <=> j \in n.paired
             /\ \A j \in r.devices \ n.devices : j \in r.paired <=> j \in cert
             /\ \A j \in Idle(r) \ Idle(n) :
                   j = i /\ r.links = n.links /\ Cardinality(Unpaired(r)) >= Limit
  <1> DEFINE i == Peer[c].id
             known == EnsureDevice(n, i)
             linked == [known EXCEPT !.links[i] = @ \cup {c}]
             added == AddChannel(known, c)
             r == OnChannel(n, c)
  <1>1. i \in Id /\ n \in Manager /\ Owned(n) /\ Peer[c].id = i
    BY PeerAssumption DEF Sane
  <1>2. /\ known \in Manager /\ known.links = n.links /\ known.state = n.state
        /\ known.devices = n.devices \cup {i}
        /\ known.paired = IF i \in n.devices THEN n.paired
                          ELSE IF i \in cert THEN n.paired \cup {i} ELSE n.paired \ {i}
    <2>1. CASE i \in n.devices
      BY <1>1, <2>1 DEF EnsureDevice
    <2>2. CASE i \notin n.devices
      BY <1>1, <2>2 DEF EnsureDevice, Manager
    <2> QED
      BY <2>1, <2>2
  <1>3. r = IF CheckDevice(known, i) THEN added ELSE known
    BY DEF OnChannel
  <1>4. added = IF IsConnected(known, i) THEN linked ELSE OnDeviceState(linked, i)
    BY DEF AddChannel
  <1>5. /\ linked \in Manager /\ linked.paired = known.paired
        /\ linked.devices = known.devices /\ linked.state = known.state
        /\ \A j \in Id : linked.links[j] = IF j = i THEN n.links[j] \cup {c} ELSE n.links[j]
    <2> HIDE DEF i, known
    <2> QED
      BY <1>1, <1>2 DEF Manager
  <1> HIDE DEF i, known, linked, added, r
  <1>6. /\ n.devices \subseteq known.devices
        /\ \A j \in n.devices : j \in known.paired <=> j \in n.paired
        /\ \A j \in known.devices \ n.devices : j \in known.paired <=> j \in cert
    BY <1>2
  <1>7. CASE CheckDevice(known, i)
    <2>1. IsConnected(linked, i)
      BY <1>1, <1>5 DEF IsConnected
    <2>2. /\ added \in Manager /\ added.links = linked.links /\ added.paired = known.paired
          /\ added.devices = known.devices
          /\ \/ added.state = known.state
             \/ added.state = IF i \in known.paired THEN known.state \cup {i} ELSE known.state \ {i}
          /\ ~IsConnected(known, i) =>
                added.state = IF i \in known.paired THEN known.state \cup {i} ELSE known.state \ {i}
      <3>1. CASE IsConnected(known, i)
        BY <1>4, <1>5, <3>1
      <3>2. CASE ~IsConnected(known, i)
        BY <1>1, <1>4, <1>5, <2>1, <3>2, OnDeviceStateFacts
      <3> QED
        BY <3>1, <3>2
    <2>3. i \notin n.devices => ~IsConnected(known, i)
      BY <1>1, <1>2 DEF Sane, IsConnected
    <2>4. added.devices \cap added.paired \subseteq added.state /\ added.state \subseteq added.devices
      <3>1. n.devices \cap n.paired \subseteq n.state /\ n.state \subseteq n.devices
        BY DEF Sane
      <3>2. CASE i \in n.devices
        BY <1>2, <2>2, <3>1, <3>2
      <3>3. CASE i \notin n.devices
        BY <1>2, <2>2, <2>3, <3>1, <3>3
      <3> QED
        BY <3>2, <3>3
    <2>5. \A j \in Id : IsConnected(added, j) => j \in added.devices
      <3>1. \A j \in Id : j # i => added.links[j] = n.links[j]
        BY <1>5, <2>2
      <3> QED
        BY <1>2, <2>2, <3>1 DEF Sane, IsConnected
    <2>6. Owned(added)
      <3>1. \A j \in Id : \A d \in n.links[j] : Peer[d].id = j
        BY <1>1 DEF Owned
      <3>2. \A j \in Id : \A d \in added.links[j] : d \in n.links[j] \/ (j = i /\ d = c)
        BY <1>5, <2>2
      <3> QED
        BY <1>1, <3>1, <3>2 DEF Owned
    <2>7. Sane(added)
      BY <2>2, <2>4, <2>5, <2>6 DEF Sane
    <2>8. Idle(added) \subseteq Idle(n)
      <3> SUFFICES ASSUME NEW j \in Idle(added) PROVE j \in Idle(n)
        OBVIOUS
      <3>1. /\ j \in known.devices /\ j \notin known.paired /\ j \in Id
            /\ linked.links[j] = {}
        BY <1>2, <2>2 DEF Idle, Unpaired, IsConnected, Manager
      <3>2. j # i /\ n.links[j] = {}
        BY <1>5, <3>1
      <3>3. j \in n.devices
        BY <1>2, <3>1, <3>2
      <3>4. j \notin n.paired
        BY <1>6, <3>1, <3>3
      <3> QED
        BY <3>2, <3>3, <3>4 DEF Idle, Unpaired, IsConnected
    <2> QED
      BY <1>3, <1>5, <1>6, <1>7, <2>2, <2>7, <2>8 DEF r, i
  <1>8. CASE ~CheckDevice(known, i)
    <2>1. i \notin known.paired
      BY <1>8 DEF CheckDevice
    <2>2. Sane(known)
      <3>1. known.devices \cap known.paired \subseteq known.state /\ known.state \subseteq known.devices
        BY <1>2, <2>1 DEF Sane
      <3>2. \A j \in Id : IsConnected(known, j) => j \in known.devices
        BY <1>2 DEF Sane, IsConnected
      <3> QED
        BY <1>1, <1>2, <3>1, <3>2 DEF Sane, Owned
    <2>3. ASSUME NEW j \in Idle(known) \ Idle(n)
          PROVE  j = i /\ Cardinality(Unpaired(known)) >= Limit
      <3>1. /\ j \in known.devices /\ j \notin known.paired /\ n.links[j] = {}
        BY <1>2, <2>3 DEF Idle, Unpaired, IsConnected
      <3>2. ~(j \in n.devices /\ j \notin n.paired)
        BY <2>3, <3>1 DEF Idle, Unpaired, IsConnected
      <3>3. j = i
        BY <1>2, <1>6, <3>1, <3>2
      <3>4. Unpaired(known) \in SUBSET Id
        BY <1>2 DEF Unpaired, Manager
      <3>5. Cardinality(Unpaired(known)) \in Nat
        BY <3>4, LimitAssumption, FS_Subset, FS_CardinalityType
      <3> QED
        BY <1>8, <3>3, <3>5, LimitAssumption DEF CheckDevice
    <2> QED
      BY <1>2, <1>3, <1>6, <1>8, <2>2, <2>3 DEF r, i
  <1> QED
    BY <1>7, <1>8

LEMMA LoadedSane ==
  ASSUME cert \in SUBSET Id, NEW ids \in SUBSET Id
  PROVE  Sane(Loaded(ids)) /\ \A i \in Id : Loaded(ids).links[i] = {}
  BY DEF Loaded, NoLinks, Sane, Owned, Manager, IsConnected

(* Losing channels leaves what is known of the disk.                        *)
LEMMA LossKeepsDisk ==
  ASSUME OnDisk, running, running', UNCHANGED <<cert, file, crashes, faults>>,
         m'.paired = m.paired, m'.devices \subseteq m.devices, Known \subseteq m'.devices
  PROVE  OnDisk' /\ Known' = Known
  <1>1. Known' = Known
    BY DEF Known
  <1>2. faults = 0 => Known' = m'.devices \cap cert'
    BY <1>1 DEF OnDisk, Known
  <1> QED
    BY <1>1, <1>2 DEF OnDisk

LEMMA InitInv == Init => Inv
  <1> SUFFICES ASSUME Init PROVE Inv
    OBVIOUS
  <1>1. cert \in SUBSET Id /\ m = Loaded({})
    BY DEF Init
  <1>2. Sane(m) /\ \A i \in Id : m.links[i] = {}
    BY <1>1, LoadedSane
  <1>3. TypeOK
    <2>1. NoTable \in [Id \cup {LocalId} -> Channel \cup {None}]
      BY DEF NoTable
    <2>2. tracked \in [Service -> [Id \cup {LocalId} -> Channel \cup {None}]]
      BY <2>1 DEF Init
    <2>3. /\ service \in [Service -> {"off", "on", "leaving"}]
          /\ life \in [Channel -> {"new", "open", "destroyed"}]
      BY DEF Init
    <2> QED
      <3>1. crashes \in 0 .. stops /\ stops \in 0 .. MaxStops /\ faults \in 0 .. MaxFaults
        BY BoundAssumption DEF Init
      <3>2. running \in BOOLEAN /\ cert \in SUBSET Id /\ file \in SUBSET Id
        BY DEF Init
      <3> QED
        BY <1>2, <2>2, <2>3, <3>1, <3>2 DEF TypeOK, Sane
  <1>4. Linked
    BY <1>2 DEF Init, Linked, NoTable
  <1>5. OnDisk
    BY DEF Init, OnDisk, Known, Loaded
  <1> QED
    BY <1>2, <1>3, <1>4, <1>5 DEF Inv

(* A channel comes.                                                         *)
LEMMA ArrivesInv ==
  ASSUME Inv, NEW c \in Channel, ChannelArrives(c)
  PROVE  Inv'
  <1> DEFINE i == Peer[c].id
             s == Peer[c].service
             cur == {Current(c)} \ {None}
             n0 == LoseChannels(m, cur)
             n == OnChannel(n0, c)
  <1>1. /\ TypeOK /\ Sane(m) /\ Linked /\ OnDisk
        /\ i \in Id /\ s \in Service
        /\ tracked \in [Service -> [Id \cup {LocalId} -> Channel \cup {None}]]
        /\ life \in [Channel -> {"new", "open", "destroyed"}]
        /\ cert \in SUBSET Id
    BY PeerAssumption DEF Inv, TypeOK
  <1>2. /\ running /\ life[c] = "new" /\ m' = n
        /\ tracked' = [tracked EXCEPT ![s][i] = c]
        /\ life' = [d \in Channel |->
                      CASE d = Current(c) -> "destroyed"
                        [] d = c /\ c \in n.links[i] -> "open"
                        [] d = c /\ c \notin n.links[i] -> "destroyed"
                        [] OTHER -> life[d]]
        /\ UNCHANGED <<running, service, cert, file, crashes, stops, faults>>
    BY DEF ChannelArrives, diskVars, bounds
  <1>3. /\ Current(c) = tracked[s][i] /\ Current(c) \in Channel \cup {None}
        /\ cur \in SUBSET Channel
    BY <1>1 DEF Current
  <1>4. /\ Sane(n0) /\ n0.paired = m.paired
        /\ \A j \in Id : n0.links[j] = m.links[j] \ cur
        /\ n0.devices \subseteq m.devices /\ Known \subseteq n0.devices
    BY <1>1, <1>3, LoseManyFacts DEF Known
  <1> HIDE DEF n0
  <1>5. /\ Sane(n)
        /\ \/ n.links = n0.links
           \/ \A j \in Id : n.links[j] = IF j = i THEN n0.links[j] \cup {c} ELSE n0.links[j]
        /\ n0.devices \subseteq n.devices
        /\ \A j \in n0.devices : j \in n.paired <=> j \in n0.paired
        /\ \A j \in n.devices \ n0.devices : j \in n.paired <=> j \in cert
    BY <1>1, <1>4, OnChannelFacts
  <1> HIDE DEF n
  <1>6. c # Current(c) /\ \A j \in Id : c \notin m.links[j]
    <2>1. \A j \in Id : c \notin m.links[j]
      BY <1>1, <1>2 DEF Linked
    <2>2. tracked[s][i] # None => life[tracked[s][i]] # "new"
      BY <1>1 DEF Linked
    <2> QED
      BY <1>2, <1>3, <2>1, <2>2, NoneAssumption
  <1>7. \A d \in Channel :
          life'[d] = IF d = Current(c) THEN "destroyed"
                     ELSE IF d = c THEN (IF c \in n.links[i] THEN "open" ELSE "destroyed")
                     ELSE life[d]
    BY <1>2, <1>6
  <1>8. \A t \in Service, j \in Id :
          tracked'[t][j] = IF t = s /\ j = i THEN c ELSE tracked[t][j]
    BY <1>1, <1>2
  <1>9. TypeOK'
    <2>1. life' \in [Channel -> {"new", "open", "destroyed"}]
      BY <1>1, <1>2
    <2>2. tracked' \in [Service -> [Id \cup {LocalId} -> Channel \cup {None}]]
      <3>1. [tracked[s] EXCEPT ![i] = c] \in [Id \cup {LocalId} -> Channel \cup {None}]
        BY <1>1
      <3> QED
        BY <1>1, <1>2, <3>1
    <2> QED
      BY <1>1, <1>2, <1>5, <2>1, <2>2 DEF TypeOK, Sane
  <1>10. Linked'
    <2>1. ASSUME NEW j \in Id
          PROVE  n.links[j] = {d \in Channel : life'[d] = "open" /\ Peer[d].id = j}
      <3>1. m.links[j] = {d \in Channel : life[d] = "open" /\ Peer[d].id = j}
        BY <1>1 DEF Linked
      <3>2. n.links[j] \subseteq Channel
        BY <1>5 DEF Sane, Manager
      <3>3. \A d \in Channel : d \in n0.links[j] <=>
               d # Current(c) /\ life[d] = "open" /\ Peer[d].id = j
        BY <1>3, <1>4, <3>1, NoneAssumption
      <3>4. c \in n.links[j] => j = i
        BY <1>5 DEF Sane, Owned
      <3>5. \A d \in Channel : d # c => (d \in n.links[j] <=> d \in n0.links[j])
        BY <1>5
      <3> QED
        BY <1>6, <1>7, <3>2, <3>3, <3>4, <3>5
    <2>2. ASSUME NEW d \in Channel, life'[d] = "open"
          PROVE  running' /\ tracked'[Peer[d].service][Peer[d].id] = d
      <3>1. Peer[d].service \in Service /\ Peer[d].id \in Id
        BY PeerAssumption
      <3>2. CASE d = c
        BY <1>2, <1>8, <3>1, <3>2
      <3>3. CASE d # c
        <4>1. d # Current(c) /\ life[d] = "open"
          BY <1>7, <2>2, <3>3
        <4>2. tracked[Peer[d].service][Peer[d].id] = d
          BY <1>1, <4>1 DEF Linked, Current
        <4> QED
          BY <1>2, <1>3, <1>8, <3>1, <4>1, <4>2
      <3> QED
        BY <3>2, <3>3
    <2>3. ASSUME NEW t \in Service, NEW j \in Id, tracked'[t][j] # None
          PROVE  /\ Peer[tracked'[t][j]].id = j /\ Peer[tracked'[t][j]].service = t
                 /\ life'[tracked'[t][j]] # "new"
      <3>1. CASE t = s /\ j = i
        BY <1>6, <1>7, <1>8, <3>1
      <3>2. CASE ~(t = s /\ j = i)
        <4> DEFINE d == tracked[t][j]
        <4>1. tracked'[t][j] = d /\ d \in Channel
          BY <1>1, <1>8, <2>3, <3>2
        <4>2. Peer[d].id = j /\ Peer[d].service = t /\ life[d] # "new"
          BY <1>1, <2>3, <4>1 DEF Linked
        <4> QED
          BY <1>7, <4>1, <4>2
      <3> QED
        BY <3>1, <3>2
    <2> QED
      BY <1>2, <2>1, <2>2, <2>3 DEF Linked, Current
  <1>11. OnDisk'
    <2>1. Known' = Known \cup ((n.devices \ n0.devices) \cap cert)
      BY <1>2, <1>4, <1>5 DEF Known
    <2>2. faults = 0 => Known' = n.devices \cap cert
      BY <1>1, <1>4, <1>5, <2>1 DEF OnDisk, Known
    <2>3. faults = 0 /\ crashes = 0 => Known' = cert
      BY <1>1, <1>2, <2>1 DEF OnDisk
    <2> QED
      BY <1>2, <2>2, <2>3 DEF OnDisk
  <1> QED
    BY <1>2, <1>5, <1>9, <1>10, <1>11 DEF Inv

(* A device changes: its own record in the list, the state and the disk.    *)
LEMMA OneDeviceChanges ==
  ASSUME Inv, running, running', NEW i \in m.devices, UNCHANGED <<tracked, life, crashes, file>>,
         NEW q \in SUBSET Id, q \ {i} = m.paired \ {i},
         i \in q => IsConnected(m, i),
         m' = OnDeviceState([m EXCEPT !.paired = q], i),
         \/ UNCHANGED faults /\ cert' = IF i \in q THEN cert \cup {i} ELSE cert \ {i}
         \/ UNCHANGED faults /\ UNCHANGED cert /\ (i \in q <=> i \in m.paired)
         \/ faults' = faults + 1 /\ UNCHANGED cert
  PROVE  Sane(m') /\ Linked' /\ OnDisk'
  <1> DEFINE n == [m EXCEPT !.paired = q]
  <1>1. /\ m \in Manager /\ Owned(m) /\ Linked /\ OnDisk /\ i \in Id
        /\ m.devices \cap m.paired \subseteq m.state /\ m.state \subseteq m.devices
        /\ \A j \in Id : IsConnected(m, j) => j \in m.devices
        /\ cert \in SUBSET Id /\ faults \in Nat
    BY BoundAssumption DEF Inv, Sane, Manager, TypeOK
  <1>2. /\ n \in Manager /\ n.links = m.links /\ n.paired = q
        /\ n.devices = m.devices /\ n.state = m.state
    BY <1>1 DEF Manager
  <1>3. m' = OnDeviceState(n, i)
    OBVIOUS
  <1> HIDE DEF n
  <1>4. IsConnected(n, i) <=> IsConnected(m, i)
    BY <1>2 DEF IsConnected
  <1>5. /\ m' \in Manager /\ m'.links = m.links /\ m'.paired = q
        /\ m'.devices = IF IsConnected(m, i) \/ i \in q THEN m.devices ELSE m.devices \ {i}
        /\ m'.state = IF i \notin q THEN m.state \ {i}
                      ELSE IF IsConnected(m, i) THEN m.state \cup {i} ELSE m.state
    <2>1. /\ m' \in Manager /\ m'.links = n.links /\ m'.paired = n.paired
          /\ m'.devices = IF IsConnected(n, i) \/ i \in n.paired THEN n.devices ELSE n.devices \ {i}
          /\ m'.state = IF i \notin n.paired THEN n.state \ {i}
                        ELSE IF IsConnected(n, i) THEN n.state \cup {i} ELSE n.state
      <3>1. n \in Manager /\ i \in Id
        BY <1>1, <1>2
      <3>2. /\ OnDeviceState(n, i) \in Manager
            /\ OnDeviceState(n, i).links = n.links /\ OnDeviceState(n, i).paired = n.paired
        BY <3>1, OnDeviceStateFacts
      <3>3. OnDeviceState(n, i).devices =
                IF IsConnected(n, i) \/ i \in n.paired THEN n.devices ELSE n.devices \ {i}
        BY <3>1, OnDeviceStateFacts
      <3>4. OnDeviceState(n, i).state =
                IF i \notin n.paired THEN n.state \ {i}
                ELSE IF IsConnected(n, i) THEN n.state \cup {i} ELSE n.state
        BY <3>1, OnDeviceStateFacts
      <3> QED
        BY <1>3, <3>2, <3>3, <3>4, Zenon
    <2> QED
      BY <1>2, <1>4, <2>1
  <1>6. \A j \in Id : IsConnected(m', j) <=> IsConnected(m, j)
    BY <1>5 DEF IsConnected
  <1>7. Sane(m')
    <2>1. \A j \in Id : IsConnected(m', j) => j \in m'.devices
      BY <1>1, <1>5, <1>6
    <2>2. m'.devices \cap m'.paired \subseteq m'.state /\ m'.state \subseteq m'.devices
      BY <1>1, <1>5
    <2>3. Owned(m')
      BY <1>1, <1>5 DEF Owned
    <2> QED
      BY <1>5, <2>1, <2>2, <2>3 DEF Sane
  <1>8. Linked'
    BY <1>1, <1>5 DEF Linked, Current
  <1>9. OnDisk'
    <2>1. Known' = IF i \in q THEN Known \cup {i} ELSE Known \ {i}
      BY <1>5 DEF Known
    <2>2. ASSUME faults' = 0
          PROVE  /\ faults = 0
                 /\ \/ cert' = IF i \in q THEN cert \cup {i} ELSE cert \ {i}
                    \/ UNCHANGED cert /\ (i \in q <=> i \in m.paired)
      BY <1>1, <2>2
    <2>3. ASSUME faults' = 0 PROVE Known' = m'.devices \cap cert'
      <3>1. Known = m.devices \cap cert
        BY <1>1, <2>2, <2>3 DEF OnDisk
      <3>2. i \in q <=> i \in cert'
        BY <2>2, <2>3, <3>1 DEF Known
      <3>3. cert' \ {i} = cert \ {i}
        BY <2>2, <2>3
      <3> QED
        BY <1>5, <2>1, <3>1, <3>2, <3>3
    <2>4. ASSUME faults' = 0, crashes' = 0 PROVE cert' = Known'
      <3>1. cert = Known
        BY <1>1, <2>2, <2>4 DEF OnDisk
      <3> QED
        BY <2>1, <2>2, <2>4, <3>1 DEF Known
    <2> QED
      BY <2>3, <2>4 DEF OnDisk
  <1> QED
    BY <1>7, <1>8, <1>9

(* The end of the process empties the manager and the services' tables.     *)
LEMMA EndsClean ==
  ASSUME Inv, ProcessEnds
  PROVE  /\ Sane(m') /\ Linked' /\ m'.devices = {} /\ Known' = {}
         /\ service' \in [Service -> {"off", "on", "leaving"}]
         /\ tracked' \in [Service -> [Id \cup {LocalId} -> Channel \cup {None}]]
         /\ life' \in [Channel -> {"new", "open", "destroyed"}]
         /\ stops' \in 0 .. MaxStops /\ stops' = stops + 1
         /\ running' = FALSE /\ UNCHANGED cert
  <1>1. /\ m \in Manager /\ life \in [Channel -> {"new", "open", "destroyed"}]
        /\ stops \in 0 .. MaxStops
    BY DEF Inv, TypeOK
  <1>2. /\ m' = [m EXCEPT !.devices = {}, !.paired = {}, !.links = NoLinks, !.state = {}]
        /\ tracked' = [s \in Service |-> NoTable] /\ service' = [s \in Service |-> "off"]
        /\ life' = [c \in Channel |-> IF life[c] = "open" THEN "destroyed" ELSE life[c]]
        /\ stops < MaxStops /\ stops' = stops + 1 /\ running' = FALSE /\ UNCHANGED cert
    BY DEF ProcessEnds
  <1>3. /\ m' \in Manager /\ m'.devices = {} /\ m'.paired = {} /\ m'.state = {}
        /\ m'.links = NoLinks
    BY <1>1, <1>2 DEF Manager, NoLinks
  <1>4. \A i \in Id : m'.links[i] = {}
    BY <1>3 DEF NoLinks
  <1>5. Sane(m') /\ Known' = {}
    BY <1>3, <1>4 DEF Sane, Owned, IsConnected, Known
  <1>6. NoTable \in [Id \cup {LocalId} -> Channel \cup {None}]
    BY DEF NoTable
  <1>7. \A c \in Channel : life'[c] # "open"
    BY <1>2
  <1>8. \A s \in Service, i \in Id : tracked'[s][i] = None
    BY <1>2 DEF NoTable
  <1>9. Linked'
    BY <1>4, <1>7, <1>8 DEF Linked
  <1>10. life' \in [Channel -> {"new", "open", "destroyed"}]
    BY <1>1, <1>2
  <1>11. tracked' \in [Service -> [Id \cup {LocalId} -> Channel \cup {None}]]
    BY <1>2, <1>6
  <1>12. stops' \in 0 .. MaxStops
    BY <1>1, <1>2, BoundAssumption
  <1> QED
    BY <1>2, <1>3, <1>5, <1>9, <1>10, <1>11, <1>12

(* What is saved is who is listed and paired, no matter in which order the  *)
(* services took the channels with them.                                    *)
LEMMA SavedIsKnown ==
  ASSUME Inv
  PROVE  SaveState(LoseChannels(m, {c \in Channel : life[c] = "open"})) = Known
  <1> DEFINE r == LoseChannels(m, {c \in Channel : life[c] = "open"})
  <1>1. /\ Sane(r) /\ r.paired = m.paired /\ r.devices \subseteq m.devices
        /\ Known \subseteq r.devices
    BY LoseManyFacts DEF Inv, Known
  <1> HIDE DEF r
  <1>2. SaveState(r) = r.state \ (r.devices \ r.paired)
    BY DEF SaveState, Unpaired
  <1>3. SaveState(r) = Known
    BY <1>1, <1>2 DEF Sane, Known
  <1> QED
    BY <1>3 DEF r

LEMMA StepInv == Inv /\ [Next]_vars => Inv'
  <1> SUFFICES ASSUME Inv, [Next]_vars PROVE Inv'
    OBVIOUS
  <1>1. /\ Sane(m) /\ m \in Manager /\ Linked /\ OnDisk
        /\ service \in [Service -> {"off", "on", "leaving"}]
        /\ tracked \in [Service -> [Id \cup {LocalId} -> Channel \cup {None}]]
        /\ life \in [Channel -> {"new", "open", "destroyed"}]
        /\ running \in BOOLEAN /\ cert \in SUBSET Id /\ file \in SUBSET Id
        /\ crashes \in 0 .. stops /\ stops \in 0 .. MaxStops /\ faults \in 0 .. MaxFaults
    BY DEF Inv, TypeOK
  <1>2. NoTable \in [Id \cup {LocalId} -> Channel \cup {None}]
    BY DEF NoTable
  <1>3. ASSUME NEW c \in Channel, ChannelArrives(c) PROVE Inv'
    BY <1>3, ArrivesInv
  <1>4. ASSUME NEW c \in Channel, ChannelRefused(c) PROVE Inv'
    <2>1. /\ life[c] = "new" /\ life' = [life EXCEPT ![c] = "destroyed"]
          /\ UNCHANGED <<running, m, service, tracked, diskVars, bounds>>
      BY <1>4 DEF ChannelRefused
    <2>2. life' \in [Channel -> {"new", "open", "destroyed"}]
          /\ \A d \in Channel : life'[d] = IF d = c THEN "destroyed" ELSE life[d]
      BY <1>1, <2>1
    <2>3. Linked'
      <3>1. \A d \in Channel : (life'[d] = "open" <=> life[d] = "open")
                                /\ (life'[d] = "new" => life[d] = "new")
        BY <2>1, <2>2
      <3>2. \A s \in Service, i \in Id : tracked[s][i] # None => tracked[s][i] \in Channel
        BY <1>1
      <3> QED
        BY <1>1, <2>1, <3>1, <3>2 DEF Linked, Current
    <2> QED
      BY <1>1, <2>1, <2>2, <2>3 DEF Inv, TypeOK, OnDisk, Known, diskVars, bounds
  <1>5. ASSUME NEW c \in Channel, ChannelDies(c) PROVE Inv'
    <2> DEFINE s == Peer[c].service
    <2>1. /\ life[c] = "open" /\ life' = [life EXCEPT ![c] = "destroyed"]
          /\ tracked' = [tracked EXCEPT ![s] = OnChannelDestroyed(@)]
          /\ m' = LoseChannel(m, c)
          /\ UNCHANGED <<running, service, cert, file, crashes, stops, faults>>
      BY <1>5 DEF ChannelDies, diskVars, bounds
    <2>2. /\ Sane(m') /\ m'.paired = m.paired
          /\ \A i \in Id : m'.links[i] = m.links[i] \ {c}
          /\ m'.devices \subseteq m.devices /\ Known \subseteq m'.devices
      BY <1>1, <2>1, LoseOneFacts DEF Known
    <2>3. running
      BY <1>1, <2>1 DEF Linked
    <2>4. OnDisk'
      BY <1>1, <2>1, <2>2, <2>3, LossKeepsDisk
    <2>5. /\ tracked' \in [Service -> [Id \cup {LocalId} -> Channel \cup {None}]]
          /\ \A t \in Service, i \in Id : tracked'[t][i] = tracked[t][i]
      <3>1. \A t \in Service :
              /\ OnChannelDestroyed(tracked[t]) \in [Id \cup {LocalId} -> Channel \cup {None}]
              /\ \A i \in Id : OnChannelDestroyed(tracked[t])[i] = tracked[t][i]
        BY <1>1, IdAssumption DEF OnChannelDestroyed
      <3> QED
        BY <1>1, <2>1, <3>1
    <2>6. life' \in [Channel -> {"new", "open", "destroyed"}]
          /\ \A d \in Channel : life'[d] = IF d = c THEN "destroyed" ELSE life[d]
      BY <1>1, <2>1
    <2>7. Linked'
      <3>1. \A i \in Id : m'.links[i] = {d \in Channel : life'[d] = "open" /\ Peer[d].id = i}
        BY <1>1, <2>2, <2>6 DEF Linked
      <3>2. \A d \in Channel : life'[d] = "open" => running' /\ Current(d)' = d
        <4> SUFFICES ASSUME NEW d \in Channel, life'[d] = "open"
                     PROVE  running' /\ Current(d)' = d
          OBVIOUS
        <4>1. life[d] = "open" /\ running' = running
          BY <2>1, <2>6
        <4>2. Current(d)' = Current(d)
          BY <2>5, PeerAssumption DEF Current
        <4> QED
          BY <1>1, <4>1, <4>2 DEF Linked
      <3>3. \A t \in Service, i \in Id : tracked[t][i] # None => tracked[t][i] \in Channel
        BY <1>1
      <3>4. \A t \in Service, i \in Id :
              tracked'[t][i] # None =>
                  /\ Peer[tracked'[t][i]].id = i /\ Peer[tracked'[t][i]].service = t
                  /\ life'[tracked'[t][i]] # "new"
        BY <1>1, <2>5, <2>6, <3>3 DEF Linked
      <3> QED
        BY <3>1, <3>2, <3>4 DEF Linked
    <2> QED
      BY <1>1, <2>1, <2>2, <2>4, <2>5, <2>6, <2>7 DEF Inv, TypeOK, Sane
  <1>6. ASSUME NEW s \in Service, FinalizeService(s) PROVE Inv'
    <2> DEFINE lost == {tracked[s][i] : i \in Id} \cap Live(s)
    <2>1. /\ service' = [service EXCEPT ![s] = "off"]
          /\ tracked' = [tracked EXCEPT ![s] = NoTable]
          /\ life' = [c \in Channel |-> IF c \in lost THEN "destroyed" ELSE life[c]]
          /\ m' = LoseChannels(m, lost)
          /\ UNCHANGED <<running, cert, file, crashes, stops, faults>>
      BY <1>6 DEF FinalizeService, diskVars, bounds
    <2>2. \A c \in Channel : c \in lost <=> life[c] = "open" /\ Peer[c].service = s
      <3>1. \A c \in Channel : life[c] = "open" /\ Peer[c].service = s =>
                  Peer[c].id \in Id /\ tracked[s][Peer[c].id] = c
        BY <1>1, PeerAssumption DEF Linked, Current
      <3> QED
        BY <3>1 DEF Live
    <2>3. lost \in SUBSET Channel
      BY DEF Live
    <2> HIDE DEF lost
    <2>4. /\ Sane(m') /\ m'.paired = m.paired
          /\ \A i \in Id : m'.links[i] = m.links[i] \ lost
          /\ m'.devices \subseteq m.devices /\ Known \subseteq m'.devices
      BY <1>1, <2>1, <2>3, LoseManyFacts DEF Known
    <2>5. OnDisk'
      <3>1. CASE running
        BY <1>1, <2>1, <2>4, <3>1, LossKeepsDisk
      <3>2. CASE ~running
        BY <1>1, <2>1, <2>4, <3>2 DEF OnDisk, Known
      <3> QED
        BY <3>1, <3>2
    <2>6. /\ tracked' \in [Service -> [Id \cup {LocalId} -> Channel \cup {None}]]
          /\ \A t \in Service, i \in Id :
                tracked'[t][i] = IF t = s THEN None ELSE tracked[t][i]
      <3>1. \A i \in Id : NoTable[i] = None
        BY DEF NoTable
      <3> QED
        BY <1>1, <1>2, <2>1, <3>1
    <2>7. /\ life' \in [Channel -> {"new", "open", "destroyed"}]
          /\ \A c \in Channel : life'[c] = IF c \in lost THEN "destroyed" ELSE life[c]
          /\ service' \in [Service -> {"off", "on", "leaving"}]
      BY <1>1, <2>1
    <2>8. Linked'
      <3>1. \A i \in Id : m'.links[i] = {d \in Channel : life'[d] = "open" /\ Peer[d].id = i}
        BY <1>1, <2>4, <2>7 DEF Linked
      <3>2. \A d \in Channel : life'[d] = "open" => running' /\ Current(d)' = d
        BY <1>1, <2>1, <2>2, <2>6, <2>7, PeerAssumption DEF Linked, Current
      <3>3. \A t \in Service, i \in Id : tracked[t][i] # None => tracked[t][i] \in Channel
        BY <1>1
      <3>4. \A t \in Service, i \in Id :
              tracked'[t][i] # None =>
                  /\ Peer[tracked'[t][i]].id = i /\ Peer[tracked'[t][i]].service = t
                  /\ life'[tracked'[t][i]] # "new"
        BY <1>1, <2>6, <2>7, <3>3 DEF Linked
      <3> QED
        BY <3>1, <3>2, <3>4 DEF Linked
    <2> QED
      BY <1>1, <2>1, <2>4, <2>5, <2>6, <2>7, <2>8 DEF Inv, TypeOK, Sane
  <1>7. ASSUME UNCHANGED <<running, m, tracked, life, diskVars, bounds>>,
               service' \in [Service -> {"off", "on", "leaving"}]
        PROVE  Inv'
    <2>1. Linked'
      BY <1>1, <1>7 DEF Linked, Current
    <2>2. OnDisk'
      BY <1>1, <1>7 DEF OnDisk, Known, diskVars, bounds
    <2> QED
      BY <1>1, <1>7, <2>1, <2>2 DEF Inv, TypeOK, diskVars, bounds
  <1>8. ASSUME NEW s \in Service, EnableService(s) \/ DisableService(s) PROVE Inv'
    <2>1. service' \in [Service -> {"off", "on", "leaving"}]
      BY <1>1, <1>8 DEF EnableService, DisableService
    <2> QED
      BY <1>7, <1>8, <2>1 DEF EnableService, DisableService
  <1>9. ASSUME Sane(m'), Linked', OnDisk',
               faults' \in 0 .. MaxFaults, cert' \in SUBSET Id,
               UNCHANGED <<running, service, tracked, life, file, crashes, stops>>
        PROVE  Inv'
    BY <1>1, <1>9 DEF Inv, TypeOK, Sane
  <1>10. ASSUME NEW i \in Id, Pair(i) PROVE Inv'
    <2> DEFINE q == m.paired \cup {i}
    <2>1. /\ running /\ i \in m.devices /\ IsConnected(m, i) /\ q \in SUBSET Id
          /\ q \ {i} = m.paired \ {i} /\ i \in q
          /\ m' = OnDeviceState([m EXCEPT !.paired = q], i)
          /\ UNCHANGED <<running, service, tracked, life, file, crashes, stops>>
      BY <1>1, <1>10 DEF Pair, Unpaired, Manager
    <2>2. \/ UNCHANGED faults /\ cert' = cert \cup {i}
          \/ faults' = faults + 1 /\ faults < MaxFaults /\ UNCHANGED cert
      BY <1>10 DEF Pair, WritesCert
    <2> HIDE DEF q
    <2>3. Sane(m') /\ Linked' /\ OnDisk'
      BY <2>1, <2>2, OneDeviceChanges
    <2>4. faults' \in 0 .. MaxFaults /\ cert' \in SUBSET Id
      BY <1>1, <2>2, BoundAssumption
    <2> QED
      BY <1>9, <2>1, <2>3, <2>4
  <1>11. ASSUME NEW i \in Id, Unpair(i) PROVE Inv'
    <2> DEFINE q == m.paired \ {i}
    <2>1. /\ running /\ i \in m.devices /\ q \in SUBSET Id
          /\ q \ {i} = m.paired \ {i} /\ i \notin q
          /\ m' = OnDeviceState([m EXCEPT !.paired = q], i)
          /\ UNCHANGED <<running, service, tracked, life, file, crashes, stops>>
      BY <1>1, <1>11 DEF Unpair, Manager
    <2>2. \/ UNCHANGED faults /\ cert' = cert \ {i}
          \/ faults' = faults + 1 /\ faults < MaxFaults /\ UNCHANGED cert
      BY <1>11 DEF Unpair, WritesCert
    <2> HIDE DEF q
    <2>3. Sane(m') /\ Linked' /\ OnDisk'
      BY <2>1, <2>2, OneDeviceChanges
    <2>4. faults' \in 0 .. MaxFaults /\ cert' \in SUBSET Id
      BY <1>1, <2>2, BoundAssumption
    <2> QED
      BY <1>9, <2>1, <2>3, <2>4
  <1>12. ASSUME NEW i \in Id, AskToPair(i) PROVE Inv'
    <2> DEFINE q == m.paired
    <2>1. /\ running /\ i \in m.devices /\ q \in SUBSET Id /\ i \notin q
          /\ m' = OnDeviceState(m, i)
          /\ UNCHANGED <<running, service, tracked, life, cert, file, crashes, stops, faults>>
      BY <1>1, <1>12 DEF AskToPair, Unpaired, Manager, diskVars, bounds
    <2>2. [m EXCEPT !.paired = q] = m
      BY <1>1 DEF Manager
    <2>3. m' = OnDeviceState([m EXCEPT !.paired = q], i) /\ q \ {i} = m.paired \ {i}
          /\ (i \in q <=> i \in m.paired)
      BY <2>1, <2>2
    <2> HIDE DEF q
    <2>4. Sane(m') /\ Linked' /\ OnDisk'
      BY <2>1, <2>3, OneDeviceChanges
    <2> QED
      BY <1>1, <1>9, <2>1, <2>4
  <1>13. CASE Startup
    <2>1. /\ ~running /\ running' = TRUE /\ m' = Loaded(file)
          /\ service' = [s \in Service |-> "on"]
          /\ UNCHANGED <<tracked, life, cert, file, crashes, stops, faults>>
      BY <1>13 DEF Startup, diskVars, bounds
    <2>2. Sane(m') /\ \A i \in Id : m'.links[i] = {}
      BY <1>1, <2>1, LoadedSane
    <2>3. m'.devices = file /\ m'.paired = file \cap cert
      BY <2>1 DEF Loaded
    <2>4. OnDisk'
      BY <1>1, <2>1, <2>3 DEF OnDisk, Known
    <2>5. Linked'
      BY <1>1, <2>1, <2>2 DEF Linked, Current
    <2> QED
      BY <1>1, <2>1, <2>2, <2>4, <2>5 DEF Inv, TypeOK, Sane
  <1>14. CASE Shutdown
    <2>1. /\ Sane(m') /\ Linked' /\ m'.devices = {} /\ Known' = {}
          /\ service' \in [Service -> {"off", "on", "leaving"}]
          /\ tracked' \in [Service -> [Id \cup {LocalId} -> Channel \cup {None}]]
          /\ life' \in [Channel -> {"new", "open", "destroyed"}]
          /\ stops' \in 0 .. MaxStops /\ stops' = stops + 1
          /\ running' = FALSE /\ UNCHANGED <<cert, crashes>>
      BY <1>14, EndsClean DEF Shutdown
    <2>2. \/ file' = Known /\ UNCHANGED faults
          \/ UNCHANGED file /\ faults < MaxFaults /\ faults' = faults + 1
      BY <1>14, SavedIsKnown DEF Shutdown
    <2>3. running
      BY <1>14 DEF Shutdown, ProcessEnds
    <2>4. /\ file' \in SUBSET Id /\ faults' \in 0 .. MaxFaults
          /\ crashes' \in 0 .. stops'
      BY <1>1, <2>1, <2>2, BoundAssumption DEF Known, Manager
    <2>5. OnDisk'
      BY <1>1, <2>1, <2>2, <2>3 DEF OnDisk
    <2> QED
      <3>1. m' \in Manager
        BY <2>1 DEF Sane
      <3>2. TypeOK'
        BY <1>1, <2>1, <2>4, <3>1 DEF TypeOK
      <3> QED
        BY <2>1, <2>5, <3>2 DEF Inv
  <1>15. CASE Crash
    <2>1. /\ Sane(m') /\ Linked' /\ m'.devices = {} /\ Known' = {}
          /\ service' \in [Service -> {"off", "on", "leaving"}]
          /\ tracked' \in [Service -> [Id \cup {LocalId} -> Channel \cup {None}]]
          /\ life' \in [Channel -> {"new", "open", "destroyed"}]
          /\ stops' \in 0 .. MaxStops /\ stops' = stops + 1
          /\ running' = FALSE /\ UNCHANGED <<cert, file, faults>>
          /\ crashes' = crashes + 1
      BY <1>15, EndsClean DEF Crash
    <2>2. crashes' \in 0 .. stops' /\ crashes' # 0
      BY <1>1, <2>1
    <2>3. OnDisk'
      BY <1>1, <2>1, <2>2 DEF OnDisk
    <2> QED
      <3>1. m' \in Manager
        BY <2>1 DEF Sane
      <3>2. TypeOK'
        BY <1>1, <2>1, <2>2, <3>1 DEF TypeOK
      <3> QED
        BY <2>1, <2>3, <3>2 DEF Inv
  <1>16. CASE UNCHANGED vars
    BY <1>1, <1>7, <1>16 DEF vars, diskVars, bounds
  <1> QED
    BY <1>3, <1>4, <1>5, <1>6, <1>8, <1>10, <1>11, <1>12, <1>13, <1>14, <1>15, <1>16
    DEF Next

LEMMA Invariance == Spec => []Inv
  <1> QED
    BY InitInv, StepInv, PTL DEF Spec

(* A channel that comes leaves nobody else without one, and its device only *)
(* if the channel was refused.                                              *)
LEMMA ArrivesIdle ==
  ASSUME Inv, NEW c \in Channel, ChannelArrives(c), NEW i \in Idle(m') \ Idle(m)
  PROVE  RefusedNow(i)
  <1> DEFINE cur == {Current(c)} \ {None}
             n0 == LoseChannels(m, cur)
  <1>1. /\ m' = OnChannel(n0, c) /\ life[c] = "new"
        /\ c # Current(c) /\ c \notin m'.links[Peer[c].id] => life'[c] = "destroyed"
    BY DEF ChannelArrives
  <1>2. cur \in SUBSET Channel /\ cert \in SUBSET Id
    BY PeerAssumption DEF Inv, TypeOK, Current
  <1>3. /\ Sane(n0) /\ Idle(n0) \subseteq Idle(m)
        /\ \A j \in Id : n0.links[j] = m.links[j] \ cur
    BY <1>2, LoseManyFacts DEF Inv
  <1> HIDE DEF n0
  <1>4. /\ i = Peer[c].id /\ m'.links = n0.links
        /\ Cardinality(Unpaired(m')) >= Limit
    BY <1>1, <1>2, <1>3, OnChannelFacts
  <1>5. c \notin m'.links[Peer[c].id]
    BY <1>1, <1>3, <1>4, PeerAssumption DEF Inv, Linked
  <1>6. c # Current(c)
    BY <1>1, NoneAssumption, PeerAssumption DEF Inv, Linked, Current
  <1> QED
    BY <1>1, <1>4, <1>5, <1>6 DEF RefusedNow

(* Nobody is left idle by what happens to a single device.                  *)
LEMMA NotifiedIdle ==
  ASSUME Inv, NEW j \in Id, NEW n \in Manager, m' = OnDeviceState(n, j),
         n.devices = m.devices, n.links = m.links,
         \A i \in Id : i # j /\ i \in m.paired => i \in n.paired,
         j \in n.paired => IsConnected(m, j) \/ j \in m.paired
  PROVE  Idle(m') \subseteq Idle(m)
  <1> SUFFICES ASSUME NEW i \in Idle(m') PROVE i \in Idle(m)
    OBVIOUS
  <1>1. /\ m'.links = n.links /\ m'.paired = n.paired
        /\ m'.devices = IF IsConnected(n, j) \/ j \in n.paired
                          THEN n.devices ELSE n.devices \ {j}
    BY OnDeviceStateFacts
  <1>2. i \in m'.devices /\ i \notin n.paired /\ m.links[i] = {}
    BY <1>1 DEF Idle, Unpaired, IsConnected
  <1>3. i \in m.devices /\ i \in Id
    BY <1>1, <1>2 DEF Inv, Sane, Manager
  <1>4. i # j
    BY <1>1, <1>2 DEF IsConnected
  <1> QED
    BY <1>2, <1>3, <1>4 DEF Idle, Unpaired, IsConnected
-----------------------------------------------------------------------------
(* A paired device that is listed is among those to be written, however it  *)
(* was paired, lost, restarted and reconnected.                             *)
THEOREM PairedStaysRemembered == Spec => []PairedIsRemembered
  <1>1. Inv => PairedIsRemembered
    BY DEF Inv, Sane, PairedIsRemembered
  <1> QED
    BY <1>1, Invariance, PTL

(* Between runs the two records on the disk agree, until one of them cannot *)
(* be written.                                                              *)
THEOREM RecordsAgree == Spec => []DiskAgrees
  <1>1. Inv => DiskAgrees
    BY DEF Inv, OnDisk, DiskAgrees
  <1> QED
    BY <1>1, Invariance, PTL

(* Devices have the channels that are open, from each service one at most,  *)
(* and who has one is listed.                                               *)
THEOREM OpenIsListed == Spec => []ChannelsAreListed
  <1>1. ASSUME Inv PROVE ChannelsAreListed
    <2>1. ConnectedIsListed
      BY <1>1 DEF Inv, Sane, ConnectedIsListed
    <2>2. OneChannelPerService
      BY <1>1 DEF Inv, Linked, OneChannelPerService, Current
    <2> QED
      BY <2>1, <2>2 DEF ChannelsAreListed
  <1> QED
    BY <1>1, Invariance, PTL

(* Whatever its channels do, a stranger that leaves does not stay in the    *)
(* list; one that is refused does.                                          *)
THEOREM StrangersLeave == Spec => IdleWereRefused
  <1> DEFINE Refused == \A i \in Idle(m') \ Idle(m) :
                           RefusedNow(i) \/ (~running /\ i \in file \ cert)
  <1>1. Inv /\ [Next]_vars => [Refused]_vars
    <2> SUFFICES ASSUME Inv, Next, NEW i \in Idle(m') \ Idle(m)
                 PROVE  RefusedNow(i) \/ (~running /\ i \in file \ cert)
      BY Zenon
    <2>1. ASSUME Startup PROVE ~running /\ i \in file \ cert
      BY <2>1 DEF Startup, Loaded, Idle, Unpaired
    <2>2. ASSUME ProcessEnds PROVE FALSE
      <3>1. m'.devices = {}
        BY <2>2 DEF ProcessEnds, Inv, Sane, Manager
      <3> QED
        BY <3>1 DEF Idle, Unpaired
    <2>3. ASSUME NEW c \in Channel, ChannelArrives(c) PROVE RefusedNow(i)
      BY <2>3, ArrivesIdle
    <2>4. ASSUME NEW c \in Channel, ChannelDies(c) PROVE FALSE
      BY <2>4, LoseOneFacts DEF ChannelDies, Inv
    <2>5. ASSUME NEW s \in Service, FinalizeService(s) PROVE FALSE
      BY <2>5, LoseManyFacts DEF FinalizeService, Live, Inv
    <2>6. ASSUME NEW j \in Id, Pair(j) \/ Unpair(j) \/ AskToPair(j) PROVE FALSE
      <3>1. m \in Manager
        BY DEF Inv, Sane
      <3>2. CASE Pair(j)
        <4> DEFINE n == [m EXCEPT !.paired = @ \cup {j}]
        <4>1. n \in Manager /\ n.devices = m.devices /\ n.links = m.links /\ n.paired = m.paired \cup {j}
          BY <3>1 DEF Manager
        <4>2. m' = OnDeviceState(n, j) /\ IsConnected(m, j)
          BY <3>2 DEF Pair
        <4> HIDE DEF n
        <4> QED
          BY <4>1, <4>2, NotifiedIdle
      <3>3. CASE Unpair(j)
        <4> DEFINE n == [m EXCEPT !.paired = @ \ {j}]
        <4>1. n \in Manager /\ n.devices = m.devices /\ n.links = m.links /\ n.paired = m.paired \ {j}
          BY <3>1 DEF Manager
        <4>2. m' = OnDeviceState(n, j)
          BY <3>3 DEF Unpair
        <4> HIDE DEF n
        <4> QED
          BY <4>1, <4>2, NotifiedIdle
      <3>4. CASE AskToPair(j)
        <4>1. m' = OnDeviceState(m, j) /\ j \notin m.paired
          BY <3>4 DEF AskToPair, Unpaired
        <4> QED
          BY <3>1, <4>1, NotifiedIdle
      <3> QED
        BY <2>6, <3>2, <3>3, <3>4
    <2>7. ASSUME m' = m PROVE FALSE
      BY <2>7
    <2> QED
      BY <2>1, <2>2, <2>3, <2>4, <2>5, <2>6, <2>7
      DEF Next, Shutdown, Crash, ChannelRefused, EnableService, DisableService
  <1> QED
    BY <1>1, Invariance, PTL DEF Spec, IdleWereRefused

(* A shutdown writes nobody who has no certificate, whatever a crash left.  *)
THEOREM SavedIsPaired == Spec => ShutdownSavesPaired
  <1> DEFINE Saved == stops' # stops /\ crashes' = crashes /\ faults' = 0
                          => file' \subseteq cert'
  <1>1. Inv /\ [Next]_vars => [Saved]_vars
    <2> SUFFICES ASSUME Inv, Next, stops' # stops, crashes' = crashes, faults' = 0
                 PROVE  file' \subseteq cert'
      OBVIOUS
    <2>1. crashes \in Nat /\ faults \in Nat
      BY BoundAssumption DEF Inv, TypeOK
    <2>2. Shutdown
      <3>1. CASE Crash
        <4>1. crashes' = crashes + 1
          BY <3>1 DEF Crash
        <4> QED
          BY <2>1, <4>1
      <3>2. CASE ~Crash /\ ~Shutdown
        <4>1. stops' = stops
          BY <3>2 DEF Next, Startup, ChannelArrives, ChannelRefused, ChannelDies,
             EnableService, DisableService, FinalizeService, Pair, Unpair, AskToPair, bounds
        <4> QED
          BY <4>1
      <3> QED
        BY <3>1, <3>2
    <2>3. faults = 0 /\ file' = Known /\ UNCHANGED cert
      BY <2>1, <2>2, SavedIsKnown DEF Shutdown, ProcessEnds
    <2>4. Known = m.devices \cap cert
      BY <2>3 DEF Inv, OnDisk
    <2> QED
      BY <2>3, <2>4
  <1> QED
    BY <1>1, Invariance, PTL DEF Spec, ShutdownSavesPaired
=============================================================================
