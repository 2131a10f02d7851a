---------------------------- MODULE MediaExport ----------------------------
(***************************************************************************)
(* A media player of the phone ("there") on the session bus of "here": the *)
(* packets update a VdpMprisPlayer, a ValentMPRISImpl with a connection of *)
(* its own announces what changed on the bus, and a client that follows it *)
(* with the proxies of a ValentMPRISPlayer shows it and controls it, whose *)
(* calls go all the way back to the phone.                                 *)
(***************************************************************************)
EXTENDS Integers, Sequences, SequencesExt

CONSTANTS
    Track,               \* what the phone plays
    None,
    MaxLinks,            \* bounds how often the phone connects
    MaxEvents            \* bounds what the phone, the client's user and the adapter do

(* PlaybackStatus stands for the repeat mode, the shuffling and the volume too *)
Prop == {"CanControl", "Metadata", "PlaybackStatus"}

VARIABLES
    link,                \* up: there is a connection; count: connections so far
    available,           \* the adapter of the device was told so
    wire,                \* packets on the way to each end
    phone,               \* what the phone plays: track, playing
    player,              \* the VdpMprisPlayer: a value of each property, None without one
    cached,              \* tracks whose album art has a file in the cache
    fetching,            \* album art that is being downloaded
    adapter,             \* the ValentMPRISAdapter is there
    impl,                \* its ValentMPRISImpl of the player: name, stage, cache, pending, flush
    ghosts,              \* names of impls that were unexported while they connected
    exports,             \* n_exports
    bus,                 \* signals and replies on the way to the client
    calls,               \* what the client asks for: name and method
    clients,             \* the client's ValentMPRISPlayers by bus name
    events

mediaVars == <<phone, player, cached, fetching, adapter, impl, ghosts, exports, bus, calls,
               clients, events>>
artVars == <<cached, fetching>>
implVars == <<adapter, impl, ghosts, exports>>
clientVars == <<calls, clients>>
linkVars == <<link, available, wire>>
vars == <<linkVars, mediaVars>>

Nothing == [p \in {} |-> None]
Update(f, g) == g @@ f
NewPlayer == [CanControl |-> FALSE, Metadata |-> [track |-> None, art |-> None],
              PlaybackStatus |-> FALSE]

Init ==
    /\ link = [up |-> FALSE, count |-> 0] /\ available = FALSE
    /\ wire = [here |-> <<>>, there |-> <<>>]
    /\ phone \in [track : Track, playing : {FALSE}]
    /\ player = None /\ cached = {} /\ fetching = {}
    /\ adapter = TRUE /\ impl = None /\ ghosts = {} /\ exports = 0
    /\ bus = <<>> /\ calls = <<>> /\ clients = Nothing /\ events = 0
-----------------------------------------------------------------------------
(* The connection: what was not read when it breaks is lost                  *)
Other(e) == IF e = "here" THEN "there" ELSE "here"
Queue(e, packets) ==
    wire' = IF link.up THEN [wire EXCEPT ![Other(e)] = @ \o packets] ELSE wire
Arrived(e) == wire[e] # <<>> /\ (e = "here" => available)
Handled(e, packets) ==
    wire' = [wire EXCEPT ![e] = Tail(@), ![Other(e)] = IF link.up THEN @ \o packets ELSE @]

Connects ==
    /\ ~link.up /\ ~available /\ link.count < MaxLinks
    /\ link' = [up |-> TRUE, count |-> link.count + 1]
    /\ UNCHANGED <<available, wire, mediaVars>>

Breaks ==
    /\ link.up /\ link' = [link EXCEPT !.up = FALSE]
    /\ wire' = [here |-> <<>>, there |-> <<>>]
    /\ UNCHANGED <<available, mediaVars>>
-----------------------------------------------------------------------------
(* propagate_notify(), of a player that is now p and has notified of the      *)
(* properties in `changed': the cache and what is pending get their values,   *)
(* and the idle is armed                                                      *)
PropagateNotify(p, changed) ==
    impl' = IF impl = None \/ changed = {} THEN impl
            ELSE LET values == [x \in changed |-> p[x]] IN
                 [impl EXCEPT !.cache = Update(@, values), !.pending = Update(@, values),
                              !.flush = TRUE]

(* flush(): without a connection what is pending waits for the next change     *)
Flush ==
    /\ impl # None /\ impl.flush
    /\ IF impl.stage = "exported"
         THEN /\ bus' = Append(bus, [kind |-> "changed", name |-> impl.name,
                                     props |-> impl.pending])
              /\ impl' = [impl EXCEPT !.flush = FALSE, !.pending = Nothing]
         ELSE impl' = [impl EXCEPT !.flush = FALSE] /\ UNCHANGED bus
    /\ UNCHANGED <<linkVars, phone, player, artVars, adapter, ghosts, exports, clientVars, events>>

(* valent_mpris_impl_unexport(): the name is given up.  An impl that still     *)
(* connects lives on in its task                                              *)
Unexport(cancelled) ==
    /\ impl' = None
    /\ IF impl = None THEN UNCHANGED <<bus, ghosts>>
       ELSE /\ bus' = IF impl.stage = "exported"
                        THEN Append(bus, [kind |-> "vanished", name |-> impl.name, props |-> Nothing])
                        ELSE bus
            /\ ghosts' = IF impl.stage = "connecting" /\ ~cancelled
                           THEN ghosts \cup {impl.name} ELSE ghosts

(* export_full_cb(): the connection is there or failed                        *)
ExportFullDone ==
    /\ impl # None /\ impl.stage = "connecting"
    /\ \/ /\ impl' = [impl EXCEPT !.stage = "exported"]
          /\ bus' = Append(bus, [kind |-> "appeared", name |-> impl.name, props |-> Nothing])
       \/ impl' = [impl EXCEPT !.stage = "failed"] /\ UNCHANGED bus
    /\ UNCHANGED <<linkVars, phone, player, artVars, adapter, ghosts, exports, clientVars, events>>

(* A ghost takes its name, its task ends, and dispose() gives the name up      *)
GhostDone(n) ==
    /\ ghosts' = ghosts \ {n}
    /\ bus' = bus \o <<[kind |-> "appeared", name |-> n, props |-> Nothing],
                       [kind |-> "vanished", name |-> n, props |-> Nothing]>>
    /\ UNCHANGED <<linkVars, phone, player, artVars, adapter, impl, exports, clientVars, events>>

(* The adapter makes an impl with a name of its own, which connects           *)
NewImpl(n) == [name |-> n, stage |-> "connecting", cache |-> Nothing, pending |-> Nothing,
               flush |-> FALSE]
AdapterExport == impl' = NewImpl(exports) /\ exports' = exports + 1

(* valent_media_export_player(), to the adapters that are there, and the        *)
(* "destroy" of the player, which unexports it                                *)
ExportPlayer == IF adapter THEN AdapterExport ELSE UNCHANGED <<impl, exports>>
UnexportPlayer == player' = None /\ Unexport(FALSE)

(* The adapter is disabled, which unexports, and enabled: what was exported    *)
(* before it came is not exported again                                       *)
AdapterGoes ==
    /\ adapter /\ events < MaxEvents
    /\ adapter' = FALSE /\ events' = events + 1 /\ Unexport(TRUE)
    /\ ghosts' = ghosts
    /\ UNCHANGED <<linkVars, phone, player, artVars, exports, clientVars>>

AdapterComes ==
    /\ ~adapter /\ adapter' = TRUE
    /\ UNCHANGED <<linkVars, phone, player, artVars, impl, ghosts, exports, bus, clientVars,
                   events>>
-----------------------------------------------------------------------------
(* "here": on_device_state_changed()                                         *)
Appears ==
    /\ link.up /\ ~available /\ available' = TRUE
    /\ Queue("here", <<[kind |-> "list"]>>)
    /\ UNCHANGED <<link, mediaVars>>

Vanishes ==
    /\ ~link.up /\ available /\ available' = FALSE
    /\ fetching' = {} /\ UnexportPlayer
    /\ UNCHANGED <<link, wire, phone, cached, adapter, exports, clientVars, events>>

(* handle_player_list(): the player is made, added and exported, and what it   *)
(* plays is asked for                                                         *)
HandlePlayerList ==
    /\ Arrived("here") /\ Head(wire["here"]).kind = "players"
    /\ IF player = None
         THEN /\ player' = NewPlayer /\ ExportPlayer
              /\ Handled("here", <<[kind |-> "update"]>>)
         ELSE Handled("here", <<>>) /\ UNCHANGED <<player, impl, exports>>
    /\ UNCHANGED <<link, available, phone, artVars, adapter, ghosts, bus, clientVars, events>>

(* request_album_art(): a file that is there, though perhaps not whole, is used *)
RequestAlbumArt(t) == IF t \in cached THEN <<>> ELSE <<[kind |-> "art", track |-> t]>>

(* The update_*() functions: the metadata are always new, the rest notifies     *)
(* where it differs                                                           *)
UpdatePlayer(p) ==
    /\ player' = p
    /\ PropagateNotify(p, {"Metadata"} \cup {x \in Prop : p[x] # player[x]})

(* vdp_mpris_player_handle_packet()                                          *)
HandleUpdate ==
    /\ Arrived("here") /\ Head(wire["here"]).kind = "playing"
    /\ LET m == Head(wire["here"])
           p == [CanControl |-> TRUE, PlaybackStatus |-> m.playing,
                 Metadata |-> [track |-> m.track,
                               art |-> IF m.track \in cached THEN m.track ELSE None]]
       IN IF player = None
            THEN Handled("here", <<[kind |-> "list"]>>) /\ UNCHANGED <<player, impl>>
            ELSE UpdatePlayer(p) /\ Handled("here", RequestAlbumArt(m.track))
    /\ UNCHANGED <<link, available, phone, artVars, adapter, ghosts, exports, bus, clientVars,
                   events>>

(* receive_album_art()                                                       *)
HandleArt ==
    /\ Arrived("here") /\ Head(wire["here"]).kind = "payload"
    /\ IF player = None
         THEN Handled("here", <<[kind |-> "list"]>>) /\ UNCHANGED artVars
         ELSE /\ fetching' = fetching \cup {Head(wire["here"]).track}
              /\ cached' = cached \cup {Head(wire["here"]).track}
              /\ Handled("here", <<>>)
    /\ UNCHANGED <<link, available, phone, player, implVars, bus, clientVars, events>>

(* receive_art_cb(): the art goes to whatever is played by now                *)
UpdateArt(t) == UpdatePlayer([player EXCEPT !.Metadata.art = t])

ReceiveArt(t) ==
    /\ available /\ t \in fetching
    /\ fetching' = fetching \ {t}
    /\ IF link.up /\ player # None
         THEN UpdateArt(t)
         ELSE UNCHANGED <<player, impl>>
    /\ UNCHANGED <<linkVars, phone, cached, adapter, ghosts, exports, bus, clientVars, events>>
-----------------------------------------------------------------------------
(* The phone: it answers, and tells what changed                             *)
Playing(p) == [kind |-> "playing", track |-> p.track, playing |-> p.playing]

(* What a request makes of what the phone plays                              *)
Applied(p, do) ==
    CASE do = "Next"  -> {[p EXCEPT !.track = t] : t \in Track \ {p.track}}
      [] do = "Play"  -> {[p EXCEPT !.playing = TRUE]}
      [] do = "Pause" -> {[p EXCEPT !.playing = FALSE]}

PhoneHandles ==
    /\ Arrived("there")
    /\ LET m == Head(wire["there"]) IN
       \/ m.kind = "list" /\ Handled("there", <<[kind |-> "players"]>>) /\ UNCHANGED phone
       \/ m.kind = "update" /\ Handled("there", <<Playing(phone)>>) /\ UNCHANGED phone
       \/ m.kind = "art" /\ UNCHANGED phone
          /\ Handled("there", <<[kind |-> "payload", track |-> m.track]>>)
       \/ /\ m.kind = "do"
          /\ \E p \in Applied(phone, m.do) :
                phone' = p /\ Handled("there", IF p = phone THEN <<>> ELSE <<Playing(p)>>)
    /\ UNCHANGED <<link, available, player, artVars, implVars, bus, clientVars, events>>

PhoneChanges ==
    /\ events < MaxEvents /\ events' = events + 1
    /\ \E do \in {"Next", "Play", "Pause"} : \E p \in Applied(phone, do) \ {phone} :
          /\ phone' = p
          /\ Queue("there", <<Playing(p)>>)
    /\ UNCHANGED <<link, available, player, artVars, implVars, bus, clientVars>>
-----------------------------------------------------------------------------
(* What the methods and setters of a VdpMprisPlayer send                      *)
Request(do) == <<[kind |-> "do", do |-> do]>>

(* The impl answers: a method goes to the player, which asks the phone; a       *)
(* property comes from the cache, or from the player into the cache            *)
Get(x) == IF x \in DOMAIN impl.cache THEN impl.cache[x] ELSE player[x]

HandleCall ==
    /\ calls # <<>> /\ calls' = Tail(calls)
    /\ LET c == Head(calls)
           owned == impl # None /\ impl.stage = "exported" /\ impl.name = c.name
           all == [x \in Prop |-> Get(x)]
       IN \/ /\ c.do = "GetAll"
             /\ bus' = Append(bus, [kind |-> "reply", name |-> c.name,
                                    props |-> IF owned THEN all ELSE Nothing])
             /\ impl' = IF owned THEN [impl EXCEPT !.cache = all] ELSE impl
             /\ UNCHANGED wire
          \/ /\ c.do # "GetAll" /\ UNCHANGED <<bus, impl>>
             /\ IF owned THEN Queue("here", Request(c.do)) ELSE UNCHANGED wire
    /\ UNCHANGED <<link, available, phone, player, artVars, adapter, ghosts, exports, clients,
                   events>>
-----------------------------------------------------------------------------
(* The client.  The proxies that a name gets, here one for the two, read all   *)
(* properties and then follow what changes                                    *)
Follow(n) ==
    /\ clients' = Update(clients, [m \in {n} |-> [ready |-> FALSE, props |-> Nothing]])
    /\ calls' = Append(calls, [name |-> n, do |-> "GetAll"])

HandleSignal ==
    /\ bus # <<>> /\ bus' = Tail(bus)
    /\ LET s == Head(bus)
           known == s.name \in DOMAIN clients
       IN CASE s.kind = "appeared" -> Follow(s.name)
            [] s.kind = "vanished" ->
                 /\ clients' = [n \in DOMAIN clients \ {s.name} |-> clients[n]]
                 /\ UNCHANGED calls
            [] s.kind = "reply" /\ known ->
                 /\ clients' = [clients EXCEPT ![s.name] = [ready |-> TRUE, props |-> s.props]]
                 /\ UNCHANGED calls
            [] s.kind = "changed" /\ known /\ clients[s.name].ready ->
                 /\ clients' = [clients EXCEPT ![s.name].props = Update(@, s.props)]
                 /\ UNCHANGED calls
            [] OTHER -> UNCHANGED clientVars
    /\ UNCHANGED <<linkVars, phone, player, artVars, implVars, events>>

(* The setters and methods of a ValentMPRISPlayer call the bus and forget      *)
ClientCalls(n, do) ==
    /\ events < MaxEvents /\ events' = events + 1
    /\ clients[n].ready /\ Len(calls) < 2
    /\ calls' = Append(calls, [name |-> n, do |-> do])
    /\ UNCHANGED <<linkVars, phone, player, artVars, implVars, bus, clients>>
-----------------------------------------------------------------------------
Next ==
    \/ Connects \/ Breaks \/ Appears \/ Vanishes \/ HandlePlayerList \/ HandleUpdate \/ HandleArt
    \/ \E t \in Track : ReceiveArt(t)
    \/ PhoneHandles \/ PhoneChanges
    \/ Flush \/ ExportFullDone \/ AdapterGoes \/ AdapterComes
    \/ \E n \in ghosts : GhostDone(n)
    \/ HandleCall \/ HandleSignal
    \/ \E n \in DOMAIN clients : \E do \in {"Play", "Pause"} : ClientCalls(n, do)

Spec == Init /\ [][Next]_vars
-----------------------------------------------------------------------------
Idle == bus = <<>> /\ calls = <<>> /\ ghosts = {} /\ (impl # None => ~impl.flush)

(* A client of the bus shows what the remote player has, though it read some   *)
(* before and some after it changed; with both ends at rest that is what the   *)
(* phone plays (valent_mpris_impl_set_value, flush, player_get_property).      *)
ClientsAgree ==
    Idle /\ impl # None /\ impl.stage = "exported" =>
        /\ impl.name \in DOMAIN clients /\ clients[impl.name].props = player
        /\ link.up /\ available /\ (\A e \in DOMAIN wire : wire[e] = <<>>) =>
             player.Metadata.track = phone.track /\ player.PlaybackStatus = phone.playing

(* No client keeps a player that left with the device or with the adapter,     *)
(* also one that was unexported while it connected (valent_mpris_impl_unexport)*)
NoneIsLeft ==
    Idle => \A n \in DOMAIN clients : impl # None /\ impl.name = n /\ player # None
=============================================================================
