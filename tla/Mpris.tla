------------------------------- MODULE Mpris -------------------------------
(***************************************************************************)
(* Media players: "here" finds the MPRIS players of its session bus and    *)
(* the mpris plugin announces them; "there" has a VdpMprisAdapter that     *)
(* keeps a remote player for each, and asks for what it lacks.  A player   *)
(* is its name and one value, which stands for its state and metadata.     *)
(***************************************************************************)
EXTENDS PluginLink, FiniteSetsExt

CONSTANTS
    Player,
    Value,               \* what a player shows
    Unset,               \* a remote player that was not described yet
    MaxEvents            \* bounds what the players and the users do

VARIABLES
    bus,                 \* the players that own a name, and their value
    signals,             \* D-Bus signals on the way to "here"
    search,              \* of the adapter: "listing", or "ready" once it has subscribed
    names,               \* the reply of ListNames()
    heard,               \* players whose last appearance the adapter is told of
    inits,               \* players whose proxies are being created
    players,             \* ValentMPRISAdapter.players
    announced,           \* ValentMprisPlugin.players
    pending,             \* pending: players to describe when it is flushed
    pendingList,         \* pending_list
    watch,               \* media_watch of "here"
    remote,              \* VdpMprisAdapter.players of "there": value by name
    events

mprisVars == <<bus, signals, search, names, heard, inits, players, announced, pending,
               pendingList, watch, remote, events>>
pluginVars == <<announced, pending, pendingList, watch>>
adapterVars == <<search, names, heard, inits, players>>
vars == <<linkVars, mprisVars>>

Nobody == [p \in {} |-> Unset]
With(f, p, v) == [x \in DOMAIN f \cup {p} |-> IF x = p THEN v ELSE f[x]]

Init ==
    /\ LinkInit
    /\ bus \in {[p \in S |-> v] : S \in SUBSET Player, v \in Value}
    /\ signals = <<>> /\ search = "listing"
    /\ names = DOMAIN bus /\ heard = DOMAIN bus
    /\ inits = {} /\ players = {} /\ announced = {}
    /\ pending = {} /\ pendingList = FALSE /\ watch = FALSE
    /\ remote = Nobody /\ events = 0
-----------------------------------------------------------------------------
(* The bus.  A name that appears after ListNames() was answered and before    *)
(* the adapter subscribes is not told                                         *)
Signal(s) == signals' = IF search = "ready" THEN Append(signals, s) ELSE signals

BusChanges(p) ==
    /\ events < MaxEvents /\ events' = events + 1
    /\ IF p \in DOMAIN bus
         THEN \/ /\ bus' = [x \in DOMAIN bus \ {p} |-> bus[x]]
                 /\ Signal([kind |-> "vanished", player |-> p])
                 /\ heard' = heard \ {p}
              \/ /\ \E v \in Value \ {bus[p]} : bus' = [bus EXCEPT ![p] = v]
                 /\ Signal([kind |-> "changed", player |-> p])
                 /\ UNCHANGED heard
         ELSE /\ \E v \in Value : bus' = With(bus, p, v)
              /\ Signal([kind |-> "appeared", player |-> p])
              /\ heard' = IF search = "ready" THEN heard \cup {p} ELSE heard
    /\ UNCHANGED <<linkVars, search, names, inits, players, pluginVars, remote>>

(* list_names_cb(): a player is made for each name, and the adapter subscribes *)
ListNamesReply ==
    /\ search = "listing" /\ search' = "ready"
    /\ inits' = names
    /\ UNCHANGED <<linkVars, bus, signals, names, heard, players, pluginVars, remote, events>>

(* on_players_changed(): only what was added is looked at                     *)
OnPlayersChanged(added) ==
    IF watch
      THEN announced' = announced \cup added /\ pendingList' = TRUE
      ELSE UNCHANGED <<announced, pendingList>>

(* g_async_initable_new_async_cb()                                           *)
InitDone(p) ==
    /\ p \in inits /\ inits' = inits \ {p}
    /\ players' = players \cup {p}
    /\ IF p \in players THEN UNCHANGED <<announced, pendingList>> ELSE OnPlayersChanged({p})
    /\ UNCHANGED <<linkVars, bus, signals, search, names, heard, pending, watch, remote, events>>

(* A signal of the bus is dispatched                                          *)
Dispatch(kind, p) ==
    /\ signals # <<>> /\ Head(signals) = [kind |-> kind, player |-> p]
    /\ signals' = Tail(signals)
    /\ UNCHANGED <<linkVars, bus, search, names, heard, watch, remote, events>>

(* on_player_changed() remembers to describe the player                       *)
OnPlayerChanged(p) ==
    pending' = IF watch /\ p \in announced THEN pending \cup {p} ELSE pending

(* on_name_owner_changed()                                                   *)
NameAppeared(p) ==
    /\ Dispatch("appeared", p)
    /\ inits' = IF p \in players THEN inits ELSE inits \cup {p}
    /\ OnPlayerChanged(p)
    /\ UNCHANGED <<players, announced, pendingList>>

NameVanished(p) ==
    /\ Dispatch("vanished", p)
    /\ players' = players \ {p}
    /\ IF p \in players THEN OnPlayersChanged({}) ELSE UNCHANGED <<announced, pendingList>>
    /\ UNCHANGED <<inits, pending>>

OnPlayerPropertiesChanged(p) ==
    /\ Dispatch("changed", p) /\ OnPlayerChanged(p)
    /\ UNCHANGED <<inits, players, announced, pendingList>>
-----------------------------------------------------------------------------
(* valent_mpris_plugin_send_player_info(); a name that nobody owns has no      *)
(* properties                                                                  *)
PlayerInfo(p) == [kind |-> "info", player |-> p, value |-> IF p \in DOMAIN bus THEN bus[p] ELSE Unset]
PlayerList == [kind |-> "list", players |-> announced]

(* valent_mpris_plugin_flush()                                               *)
Flush ==
    /\ watch /\ (pending # {} \/ pendingList)
    /\ \E order \in SetToSeqs(pending) :
         Queue("here", [i \in DOMAIN order |-> PlayerInfo(order[i])]
                         \o (IF pendingList THEN <<PlayerList>> ELSE <<>>))
    /\ pending' = {} /\ pendingList' = FALSE
    /\ UNCHANGED <<link, available, bus, signals, adapterVars, announced, watch, remote, events>>

(* valent_mpris_plugin_handle_mpris_request()                                *)
HandleRequest ==
    LET r == Head(wire["here"])
        known == r.kind # "requestPlayerList" /\ r.player \in announced
    IN  /\ Arrived("here")
        /\ IF ~known
             THEN Handled("here", <<PlayerList>>) /\ UNCHANGED <<bus, signals>>
             ELSE IF r.kind = "requestUpdate"
             THEN Handled("here", <<PlayerInfo(r.player)>>) /\ UNCHANGED <<bus, signals>>
             ELSE /\ Handled("here", <<>>)
                  /\ IF r.player \in DOMAIN bus
                       THEN /\ bus' = [bus EXCEPT ![r.player] = r.value]
                            /\ Signal([kind |-> "changed", player |-> r.player])
                       ELSE UNCHANGED <<bus, signals>>
        /\ UNCHANGED <<link, available, adapterVars, pluginVars, remote, events>>
-----------------------------------------------------------------------------
RequestPlayerList == [kind |-> "requestPlayerList"]
RequestUpdate(p) == [kind |-> "requestUpdate", player |-> p]

(* vdp_mpris_adapter_handle_player_list()                                    *)
HandlePlayerList(list) ==
    LET new == list \ DOMAIN remote
    IN  /\ remote' = [p \in list |-> IF p \in new THEN Unset ELSE remote[p]]
        /\ \E order \in SetToSeqs(new) :
             Handled("there", [i \in DOMAIN order |-> RequestUpdate(order[i])])

(* vdp_mpris_adapter_handle_player_update()                                  *)
HandlePlayerUpdate(p, value) ==
    IF p \in DOMAIN remote
      THEN remote' = [remote EXCEPT ![p] = value] /\ Handled("there", <<>>)
      ELSE UNCHANGED remote /\ Handled("there", <<RequestPlayerList>>)

HandleMpris ==
    LET m == Head(wire["there"])
    IN  /\ Arrived("there")
        /\ \/ m.kind = "list" /\ HandlePlayerList(m.players)
           \/ m.kind = "info" /\ HandlePlayerUpdate(m.player, m.value)
        /\ UNCHANGED <<link, available, bus, signals, adapterVars, pluginVars, events>>

(* vdp_mpris_player_play(), _set_volume() and the like: a request             *)
Ask(p) ==
    /\ events < MaxEvents /\ events' = events + 1
    /\ p \in DOMAIN remote
    /\ \E v \in Value : Queue("there", <<[kind |-> "set", player |-> p, value |-> v]>>)
    /\ UNCHANGED <<link, available, bus, signals, adapterVars, pluginVars, remote>>

(* valent_mpris_plugin_watch_media(): who watches already starts nothing anew; *)
(* the adapter of the other end asks for the players with each connection      *)
Appear(e) ==
    /\ Appears(e, IF e = "there" THEN <<RequestPlayerList>> ELSE <<>>)
    /\ IF e = "here" /\ ~watch
         THEN watch' = TRUE /\ announced' = players /\ pendingList' = TRUE /\ UNCHANGED pending
         ELSE UNCHANGED pluginVars
    /\ UNCHANGED <<bus, signals, adapterVars, remote, events>>

(* on_device_state_changed() of the adapter                                   *)
Lose(e) ==
    /\ Loses(e)
    /\ remote' = IF e = "there" THEN Nobody ELSE remote
    /\ UNCHANGED <<bus, signals, adapterVars, pluginVars, events>>

(* The list that was to be announced stays so, and nobody is there to flush it *)
Vanish(e) ==
    /\ Vanishes(e)
    /\ IF e = "here"
         THEN /\ watch' = FALSE /\ announced' = {} /\ pending' = {}
              /\ UNCHANGED <<pendingList, remote>>
         ELSE remote' = Nobody /\ UNCHANGED pluginVars
    /\ UNCHANGED <<bus, signals, adapterVars, events>>

Link == (Connects \/ Breaks \/ Unpairs) /\ UNCHANGED mprisVars

Next ==
    \/ \E p \in Player : \/ BusChanges(p) \/ InitDone(p) \/ Ask(p)
                         \/ NameAppeared(p) \/ NameVanished(p) \/ OnPlayerPropertiesChanged(p)
    \/ ListNamesReply \/ Flush \/ HandleRequest \/ HandleMpris
    \/ \E e \in End : Appear(e) \/ Lose(e) \/ Vanish(e)
    \/ Link

Spec == Init /\ [][Next]_vars
-----------------------------------------------------------------------------
Idle == signals = <<>> /\ inits = {} /\ search = "ready" /\ pending = {} /\ ~pendingList

(* Once everything has arrived, the other end has every player that the        *)
(* adapter was told of, as it is: appearances, changes and requests may cross,  *)
(* and be lost with a connection.                                              *)
PlayersAreMirrored ==
    Settled /\ Idle => \A p \in heard : p \in DOMAIN remote /\ remote[p] = bus[p]

(* What is described is announced, and so is every player that the adapter     *)
(* has, while the plugin watches: it looks at them once, and from then on only *)
(* at what is added, over any number of connections.                           *)
PendingIsAnnounced ==
    /\ pending \subseteq announced
    /\ IF watch THEN players \subseteq announced ELSE announced = {}
=============================================================================
