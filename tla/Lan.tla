-------------------------------- MODULE Lan --------------------------------
(***************************************************************************)
(* The ValentLanChannelService of several hosts: identity packets over UDP *)
(* and DNS-SD, the TCP connections they provoke, and the handshake that a  *)
(* fiber runs at each end of a connection, one await after the other.      *)
(* Between two awaits a fiber runs alone; at an await any other fiber of   *)
(* the host may run, and all of them use one identity packet, in which an  *)
(* outgoing handshake names its target for the time of a write.            *)
(***************************************************************************)
EXTENDS Integers, FiniteSets, TLAPS

CONSTANTS
    Host,                \* the hosts, each with one service
    Conn,                \* TCP connections that may be opened
    MaxIdentify,         \* bounds the announcements of all hosts
    MaxRestarts,         \* bounds how often a service is started anew
    None

VARIABLES
    available,           \* network_available of each host
    target,              \* "targetDeviceId" in the identity packet of each host
    air,                 \* UDP datagrams, [from, to]
    from, to,            \* of each connection: the host that opens it, or None
    named,               \* the target in the identity that the opener wrote
    stage,               \* of each end of a connection: where its fiber is
    proof,               \* the key of the peer's certificate at each end
    channels,            \* the table of each host (and of its subclass), by device ID
    key,                 \* the key of each host's own certificate
    stored,              \* certificate.pem of each host for each other, or 0
    identified, restarts

vars == <<available, target, air, from, to, named, stage, proof, channels,
          key, stored, identified, restarts>>

fiberVars == <<from, to, named, stage, proof>>
trustVars == <<key, stored, restarts>>

Awaits == {"connect", "send", "read", "tls", "swap"}
Ended == {"none", "failed", "open", "closed"}

Ends == {"opener", "acceptor"}
Other(e) == IF e = "opener" THEN "acceptor" ELSE "opener"
At(c, e) == IF e = "opener" THEN from[c] ELSE to[c]
PeerOf(c, e) == At(c, Other(e))

Init ==
    /\ available = [h \in Host |-> FALSE]
    /\ target = [h \in Host |-> None]
    /\ air = {}
    /\ from = [c \in Conn |-> None] /\ to = [c \in Conn |-> None]
    /\ named = [c \in Conn |-> None]
    /\ stage = [c \in Conn |-> [e \in Ends |-> "none"]]
    /\ proof = [c \in Conn |-> [e \in Ends |-> 0]]
    /\ channels = [h \in Host |-> [p \in Host |-> None]]
    /\ key = [h \in Host |-> 1]
    /\ stored = [h \in Host |-> [p \in Host |-> 0]]
    /\ identified = 0 /\ restarts = 0

(* _dex_socket_client_connect_to_host() gets a connection between those that *)
(* have a network                                                            *)
Reachable(h, p) == available[h] /\ available[p]
-----------------------------------------------------------------------------
(* Announcements *)

(* valent_lan_channel_service_identify() without a target: the identity     *)
(* goes to each DNS-SD service and to the broadcast address.                *)
Announce(h) == air' = air \cup {[from |-> h, to |-> p] : p \in Host \ {h}}

(* ... or to one address: the first of a service that can be sent to         *)
SocketQueueResolve(h, p) == air' = air \cup {[from |-> h, to |-> p]}

(* on_network_changed(); the manager answers an active service with         *)
(* identify() (on_service_state()).                                         *)
NetworkChanged(h) ==
    /\ available' = [available EXCEPT ![h] = ~@]
    /\ IF available[h]
         THEN UNCHANGED <<air, identified>>
         ELSE identified < MaxIdentify /\ identified' = identified + 1 /\ Announce(h)
    /\ UNCHANGED <<target, fiberVars, channels, trustVars>>

(* valent_lan_channel_service_identify(), when the user refreshes.          *)
Identify(h) ==
    /\ available[h]
    /\ identified < MaxIdentify
    /\ identified' = identified + 1
    /\ Announce(h)
    /\ UNCHANGED <<available, target, fiberVars, channels, trustVars>>

(* ... with a target: an address that the user typed.                        *)
IdentifyTarget(h, p) ==
    /\ available[h] /\ p # h
    /\ identified < MaxIdentify
    /\ identified' = identified + 1
    /\ SocketQueueResolve(h, p)
    /\ UNCHANGED <<available, target, fiberVars, channels, trustVars>>

(* on_items_changed(): a DNS-SD service appears; the device is only told    *)
(* who is here if it is not in the table.                                   *)
ServiceAppears(h, p) ==
    /\ Reachable(h, p) /\ p # h
    /\ identified < MaxIdentify
    /\ identified' = identified + 1
    /\ channels[h][p] = None
    /\ SocketQueueResolve(h, p)
    /\ UNCHANGED <<available, target, fiberVars, channels, trustVars>>

(* valent_lan_channel_service_socket_send(): an announcement that cannot be   *)
(* sent is not sent again, and one that was sent may get lost                *)
SocketSend(d) ==
    /\ d \in air
    /\ air' = air \ {d}
    /\ UNCHANGED <<available, target, fiberVars, channels, trustVars, identified>>

(* valent_lan_channel_service_socket_recv(): a fiber opens a connection to  *)
(* the sender.  The datagram may come twice.                                *)
SocketReceive(d) ==
    LET unused == {c \in Conn : from[c] = None}
        c == CHOOSE x \in unused : TRUE
    IN  /\ d \in air /\ Reachable(d.from, d.to)
        /\ unused # {}
        /\ air' \in {air, air \ {d}}
        /\ from' = [from EXCEPT ![c] = d.to]
        /\ to' = [to EXCEPT ![c] = d.from]
        /\ stage' = [stage EXCEPT ![c]["opener"] = "connect"]
        /\ UNCHANGED <<available, target, named, proof, channels, trustVars, identified>>
-----------------------------------------------------------------------------
(* handshake_fiber(), from one await to the next *)

Unchanged == UNCHANGED <<available, air, from, to, key, restarts, identified>>

Goto(c, e, s) == stage' = [stage EXCEPT ![c][e] = s]

(* Mutant: the target is set when the fiber starts and not at the write. *)
ConnectedEarly(c) ==
    /\ stage[c]["opener"] = "connect" /\ Reachable(from[c], to[c])
    /\ named' = [named EXCEPT ![c] = target[from[c]]]
    /\ target' = [target EXCEPT ![from[c]] = to[c]]
    /\ stage' = [stage EXCEPT ![c] = [opener |-> "send", acceptor |-> "read"]]
    /\ UNCHANGED <<proof, channels, stored>> /\ Unchanged

(* The opener's connection is there: it writes its identity, with the ID of *)
(* the device it answers, and the acceptor's service gets the connection    *)
(* (on_incoming_connection()).                                              *)
Connected(c) ==
    /\ stage[c]["opener"] = "connect" /\ Reachable(from[c], to[c])
    /\ target' = [target EXCEPT ![from[c]] = to[c]]
    /\ named' = [named EXCEPT ![c] = target'[from[c]]]
    /\ stage' = [stage EXCEPT ![c] = [opener |-> "send", acceptor |-> "read"]]
    /\ UNCHANGED <<proof, channels, stored>> /\ Unchanged

(* The write is done: the target is removed, whoever set it last.           *)
Written(c) ==
    /\ stage[c]["opener"] = "send"
    /\ target' = [target EXCEPT ![from[c]] = None]
    /\ Goto(c, "opener", "tls")
    /\ UNCHANGED <<named, proof, channels, stored>> /\ Unchanged

(* The acceptor has the identity: it must be the target, if there is one.   *)
IdentityRead(c) ==
    /\ stage[c]["acceptor"] = "read" /\ named[c] # None
    /\ Goto(c, "acceptor", IF named[c] = to[c] THEN "tls" ELSE "failed")
    /\ UNCHANGED <<target, named, proof, channels, stored>> /\ Unchanged

(* g_tls_connection_handshake_cb(): the certificate must be the one that is *)
(* stored for its common name; if there is none, any is taken.              *)
Secured(c, e) ==
    LET h == At(c, e)
        p == PeerOf(c, e)
        peerKey == IF proof[c][e] = 0 THEN key[p] ELSE proof[c][e]
    IN  /\ stage[c][e] = "tls"
        /\ stage[c][Other(e)] \in {"tls", "swap", "open"}
        /\ proof' = [proof EXCEPT ![c][e] = peerKey]
        /\ Goto(c, e, IF stored[h][p] \in {0, peerKey} THEN "swap" ELSE "failed")
        /\ UNCHANGED <<target, named, channels, stored>> /\ Unchanged

(* valent_lan_channel_service_channel(): the table has the new channel       *)
ChannelAnnounced(h, p, c) == channels' = [channels EXCEPT ![h][p] = c]

(* on_channel_destroyed(): what is removed is what has the name of this host, *)
(* which is none of its peers                                                *)
OnChannelDestroyed(h) == channels' = [channels EXCEPT ![h][h] = None]

(* valent_channel_service_verify_channel(): the certificate must be that of *)
(* the channel in the table, even if that one is closed.                    *)
VerifyChannel(c, e) ==
    LET current == channels[At(c, e)][PeerOf(c, e)]
    IN  current = None \/
        \E f \in Ends : At(current, f) = At(c, e) /\ proof[current][f] = proof[c][e]

(* The identities were exchanged over TLS: the channel is announced with    *)
(* valent_channel_service_channel(), and the table of the base class        *)
(* destroys the one it replaces.                                            *)
Swapped(c, e) ==
    LET h == At(c, e)
        p == PeerOf(c, e)
        current == channels[h][p]
    IN  /\ stage[c][e] = "swap"
        /\ stage[c][Other(e)] \in {"swap", "open"}
        /\ IF VerifyChannel(c, e)
             THEN /\ ChannelAnnounced(h, p, c)
                  /\ stage' = [d \in Conn |-> [f \in Ends |->
                        CASE d = c /\ f = e -> "open"
                          [] d = current /\ At(d, f) = h /\ stage[d][f] = "open" -> "closed"
                          [] OTHER -> stage[d][f]]]
             ELSE /\ Goto(c, e, "closed")
                  /\ UNCHANGED channels
        /\ UNCHANGED <<target, named, proof, stored>> /\ Unchanged

(* An await fails: it timed out, was cancelled with the service, or the     *)
(* connection is gone.  A write that failed removes the target as well.     *)
Fails(c, e) ==
    /\ target' = IF stage[c][e] = "send"
                   THEN [target EXCEPT ![At(c, e)] = None] ELSE target
    /\ Goto(c, e, "failed")
    /\ UNCHANGED <<named, proof, channels, stored>> /\ Unchanged

(* Mutant: the timeout is not armed for the connection. *)
TimeoutUnarmed(c, e) == stage[c][e] \in Awaits \ {"connect"} /\ Fails(c, e)

(* handshake_timeout_cb()                                                   *)
Timeout(c, e) == stage[c][e] \in Awaits /\ Fails(c, e)

PeerGone(c, e) ==
    /\ stage[c][e] \in Awaits \ {"connect"}
    /\ stage[c][Other(e)] \in {"failed", "closed"}
    /\ Fails(c, e)
-----------------------------------------------------------------------------
(* Channels *)

(* The device reads the end of the stream, or cannot write, and destroys    *)
(* the channel: the tables keep the entry.                                  *)
ChannelLost(c, e) ==
    /\ stage[c][e] = "open"
    /\ \/ stage[c][Other(e)] \in {"failed", "closed"}
       \/ ~Reachable(from[c], to[c])
    /\ Goto(c, e, "closed")
    /\ OnChannelDestroyed(At(c, e))
    /\ UNCHANGED <<target, named, proof, stored>> /\ Unchanged

(* valent_device_set_paired(): the certificate of the channel is stored.    *)
Pair(c, e) ==
    /\ stage[c][e] = "open"
    /\ stored' = [stored EXCEPT ![At(c, e)][PeerOf(c, e)] = proof[c][e]]
    /\ UNCHANGED <<target, named, stage, proof, channels>> /\ Unchanged

Unpair(h, p) ==
    /\ stored[h][p] # 0
    /\ stored' = [stored EXCEPT ![h][p] = 0]
    /\ UNCHANGED <<target, named, stage, proof, channels>> /\ Unchanged

(* valent_lan_channel_service_destroy(), when the service is disabled or the *)
(* process ends: no tables, and all its ends gone.                          *)
ServiceEnds(h) ==
    /\ restarts < MaxRestarts
    /\ restarts' = restarts + 1
    /\ target' = [target EXCEPT ![h] = None]
    /\ channels' = [channels EXCEPT ![h] = [p \in Host |-> None]]
    /\ available' = [available EXCEPT ![h] = FALSE]
    /\ stage' = [c \in Conn |-> [e \in Ends |->
          IF At(c, e) = h /\ stage[c][e] # "none" THEN "closed" ELSE stage[c][e]]]
    /\ UNCHANGED <<air, from, to, named, proof, identified>>

(* It is started anew with the certificates that it has on disk ...         *)
Restart(h) == ServiceEnds(h) /\ UNCHANGED <<key, stored>>

(* ... or without any, on a host that is installed again.                   *)
Reinstall(h) ==
    /\ ServiceEnds(h)
    /\ key' = [key EXCEPT ![h] = @ + 1]
    /\ stored' = [stored EXCEPT ![h] = [p \in Host |-> 0]]

FiberStep ==
    \E c \in Conn :
        \/ Connected(c) \/ Written(c) \/ IdentityRead(c)
        \/ \E e \in Ends : Secured(c, e) \/ Swapped(c, e) \/ Timeout(c, e) \/ PeerGone(c, e)

Next ==
    \/ \E h \in Host : NetworkChanged(h) \/ Identify(h) \/ Restart(h) \/ Reinstall(h)
    \/ \E h, p \in Host : ServiceAppears(h, p) \/ IdentifyTarget(h, p) \/ Unpair(h, p)
    \/ \E d \in air : SocketSend(d) \/ SocketReceive(d)
    \/ FiberStep
    \/ \E c \in Conn, e \in Ends : ChannelLost(c, e) \/ Pair(c, e)

(* The timer of a handshake fires if nothing else ends it, and a device     *)
(* reads from its channels all the time.                                    *)
Fairness ==
    \A c \in Conn, e \in Ends :
        WF_vars(Timeout(c, e)) /\ WF_vars(ChannelLost(c, e))

Spec == Init /\ [][Next]_vars /\ Fairness
-----------------------------------------------------------------------------
TypeOK ==
    /\ available \in [Host -> BOOLEAN] /\ target \in [Host -> Host \cup {None}]
    /\ air \subseteq [from : Host, to : Host]
    /\ from \in [Conn -> Host \cup {None}] /\ to \in [Conn -> Host \cup {None}]
    /\ named \in [Conn -> Host \cup {None}]
    /\ stage \in [Conn -> [Ends -> Awaits \cup Ended]]
    /\ proof \in [Conn -> [Ends -> Nat]]
    /\ channels \in [Host -> [Host -> Conn \cup {None}]]
    /\ key \in [Host -> Nat] /\ stored \in [Host -> [Host -> Nat]]

(* However the fibers of a host interleave over the identity they share,    *)
(* each identity that answers an announcement names the device it goes to,  *)
(* and no name is left behind when all of them are done.                    *)
IdentityIsAddressed ==
    /\ \A c \in Conn : stage[c]["acceptor"] # "none" /\ named[c] # None => named[c] = to[c]
    /\ \A c \in Conn : stage[c]["acceptor"] = "read" => named[c] # None
    /\ \A h \in Host : target[h] # None =>
          \E c \in Conn : from[c] = h /\ stage[c]["opener"] = "send"

(* A certificate is checked in the handshake and the channel announced      *)
(* later.  Whatever is paired, replaced or started anew meanwhile, an open  *)
(* channel to a paired device is one with the certificate that is stored.   *)
OpenIsTrusted ==
    \A c \in Conn, e \in Ends :
        stage[c][e] = "open" => stored[At(c, e)][PeerOf(c, e)] \in {0, proof[c][e]}

(* Every handshake comes to an end, and a connection does not stay open at  *)
(* one end only: the two hosts agree on whether they are connected.         *)
Agree ==
    \A c \in Conn :
        /\ stage[c]["opener"] \in Ended
        /\ stage[c]["acceptor"] \in Ended
        /\ stage[c]["opener"] = "open" <=> stage[c]["acceptor"] = "open"
HandshakesSettle == []<>Agree
-----------------------------------------------------------------------------
(* Proofs, for a None that is neither a host nor a connection.              *)
NoneIsNew == None \notin Host \cup Conn

(* A connection that was not opened has nothing; one that was has two       *)
(* hosts, and its acceptor knows of it when the opener's connect is done.   *)
(* Nobody writes to himself.                                                *)
Wired ==
    /\ \A d \in air : d.from # d.to
    /\ \A c \in Conn :
          /\ from[c] = None => stage[c]["opener"] = "none" /\ stage[c]["acceptor"] = "none"
          /\ from[c] # None => to[c] \in Host /\ from[c] # to[c]
          /\ stage[c]["opener"] = "connect" => stage[c]["acceptor"] = "none"

(* The tables: an entry is a channel that is or was open to that device, an *)
(* open channel is the entry of its device, and what is stored is the key   *)
(* of the entry or, while there is none, of each handshake that passed.     *)
Entry(h, p, c) ==
    \E e \in Ends :
        /\ At(c, e) = h /\ PeerOf(c, e) = p
        /\ stage[c][e] \in {"open", "closed"}
        /\ stored[h][p] \in {0, proof[c][e]}

TablesAgree ==
    /\ \A h, p \in Host : channels[h][p] # None => Entry(h, p, channels[h][p])
    /\ \A c \in Conn, e \in Ends :
          /\ stage[c][e] = "open" => channels[At(c, e)][PeerOf(c, e)] = c
          /\ stage[c][e] = "swap" /\ channels[At(c, e)][PeerOf(c, e)] = None
                => stored[At(c, e)][PeerOf(c, e)] \in {0, proof[c][e]}

Inv == NoneIsNew /\ TypeOK /\ Wired /\ IdentityIsAddressed /\ TablesAgree

LEMMA EndFacts ==
  ASSUME Inv, NEW c \in Conn, NEW e \in Ends, stage[c][e] # "none"
  PROVE  At(c, e) \in Host /\ PeerOf(c, e) \in Host /\ At(c, e) # PeerOf(c, e)
  BY DEF Inv, NoneIsNew, TypeOK, Wired, Ends, At, PeerOf, Other

LEMMA InitInv == ASSUME NoneIsNew, Init PROVE Inv
  <1>1. TypeOK
    BY DEF Init, TypeOK, Awaits, Ended, Ends
  <1>2. Wired /\ IdentityIsAddressed /\ TablesAgree
    BY DEF Init, NoneIsNew, Wired, IdentityIsAddressed, TablesAgree, Ends
  <1> QED
    BY <1>1, <1>2 DEF Inv

(* Announcements only fill and empty the air.                               *)
LEMMA AirInv ==
  ASSUME Inv, available' \in [Host -> BOOLEAN],
         air' \subseteq [from : Host, to : Host], \A d \in air' : d.from # d.to,
         UNCHANGED <<target, fiberVars, channels, trustVars>>
  PROVE  Inv'
  <1>1. TypeOK'
    BY DEF Inv, TypeOK, fiberVars, trustVars
  <1>2. Wired'
    BY DEF Inv, Wired, fiberVars
  <1>3. IdentityIsAddressed'
    BY DEF Inv, IdentityIsAddressed, fiberVars
  <1>4. TablesAgree'
    BY DEF Inv, TablesAgree, fiberVars, trustVars, Entry, At, PeerOf
  <1> QED
    BY <1>1, <1>2, <1>3, <1>4 DEF Inv

(* The tables do not change with a fiber that was not past its handshake    *)
(* and is not then.                                                         *)
LEMMA TablesKept ==
  ASSUME Inv, UNCHANGED <<from, to, proof, channels, stored>>,
         \A c \in Conn, e \in Ends :
            stage'[c][e] = stage[c][e]
              \/ (stage[c][e] \notin {"open", "closed"} /\ stage'[c][e] \notin {"open", "swap"})
  PROVE  TablesAgree'
  <1>1. \A c \in Conn, e \in Ends : At(c, e)' = At(c, e) /\ PeerOf(c, e)' = PeerOf(c, e)
    BY DEF At, PeerOf, Other
  <1>2. \A h, p \in Host : (channels[h][p] # None => Entry(h, p, channels[h][p]))'
    <2> SUFFICES ASSUME NEW h \in Host, NEW p \in Host, channels[h][p] # None
                 PROVE  Entry(h, p, channels[h][p])'
      OBVIOUS
    <2>1. channels[h][p] \in Conn /\ Entry(h, p, channels[h][p])
      BY DEF Inv, TypeOK, TablesAgree
    <2> QED
      BY <1>1, <2>1 DEF Entry
  <1>3. \A c \in Conn, e \in Ends :
          /\ stage'[c][e] = "open" => channels'[At(c, e)'][PeerOf(c, e)'] = c
          /\ stage'[c][e] = "swap" /\ channels'[At(c, e)'][PeerOf(c, e)'] = None
                => stored'[At(c, e)'][PeerOf(c, e)'] \in {0, proof'[c][e]}
    BY <1>1 DEF Inv, TablesAgree
  <1> QED
    BY <1>2, <1>3 DEF TablesAgree

(* One end of a connection goes on to where s says, at most to fail.        *)
LEMMA StageFacts ==
  ASSUME TypeOK, NEW c \in Conn, NEW e \in Ends, NEW s \in Awaits \cup Ended, Goto(c, e, s)
  PROVE  /\ stage' \in [Conn -> [Ends -> Awaits \cup Ended]]
         /\ \A d \in Conn, f \in Ends :
               stage'[d][f] = IF d = c /\ f = e THEN s ELSE stage[d][f]
  BY DEF TypeOK, Goto

LEMMA ConnectedInv == ASSUME Inv, NEW c \in Conn, Connected(c) PROVE Inv'
  <1>1. /\ from[c] \in Host /\ to[c] \in Host /\ from[c] # to[c] /\ stage[c]["opener"] = "connect"
        /\ stage[c]["acceptor"] = "none"
    BY DEF Connected, Inv, NoneIsNew, Wired, TypeOK
  <1>2. /\ target' = [target EXCEPT ![from[c]] = to[c]]
        /\ named' = [named EXCEPT ![c] = to[c]]
        /\ stage' = [stage EXCEPT ![c] = [opener |-> "send", acceptor |-> "read"]]
        /\ UNCHANGED <<proof, channels, stored, available, air, from, to, key>>
    BY <1>1 DEF Connected, Unchanged, Inv, TypeOK
  <1>3. /\ stage' \in [Conn -> [Ends -> Awaits \cup Ended]]
        /\ \A d \in Conn, f \in Ends :
              stage'[d][f] = IF d = c THEN (IF f = "opener" THEN "send" ELSE "read")
                                      ELSE stage[d][f]
    BY <1>2 DEF Inv, TypeOK, Ends, Awaits
  <1>4. TypeOK'
    BY <1>1, <1>2, <1>3 DEF Inv, TypeOK
  <1>5. Wired'
    BY <1>1, <1>2, <1>3 DEF Inv, Wired, Ends
  <1>6. IdentityIsAddressed'
    <2>1. \A d \in Conn : named'[d] = IF d = c THEN to[c] ELSE named[d]
      BY <1>2 DEF Inv, TypeOK
    <2>2. \A h \in Host : target'[h] = IF h = from[c] THEN to[c] ELSE target[h]
      BY <1>2 DEF Inv, TypeOK
    <2> QED
      BY <1>1, <1>2, <1>3, <2>1, <2>2 DEF Inv, NoneIsNew, IdentityIsAddressed, Ends
  <1>7. TablesAgree'
    BY <1>1, <1>2, <1>3, TablesKept DEF Ends
  <1> QED
    BY <1>4, <1>5, <1>6, <1>7 DEF Inv

LEMMA WrittenInv == ASSUME Inv, NEW c \in Conn, Written(c) PROVE Inv'
  <1>1. /\ from[c] \in Host /\ stage[c]["opener"] = "send"
    BY DEF Written, Inv, NoneIsNew, Wired, TypeOK
  <1>2. /\ target' = [target EXCEPT ![from[c]] = None]
        /\ UNCHANGED <<named, proof, channels, stored, available, air, from, to, key>>
    BY DEF Written, Unchanged
  <1>3. /\ stage' \in [Conn -> [Ends -> Awaits \cup Ended]]
        /\ \A d \in Conn, f \in Ends :
              stage'[d][f] = IF d = c /\ f = "opener" THEN "tls" ELSE stage[d][f]
    BY StageFacts DEF Written, Inv, Ends, Awaits
  <1>4. TypeOK'
    BY <1>1, <1>2, <1>3 DEF Inv, TypeOK
  <1>5. Wired'
    BY <1>1, <1>2, <1>3 DEF Inv, Wired, Ends
  <1>6. IdentityIsAddressed'
    <2>1. \A h \in Host : target'[h] = IF h = from[c] THEN None ELSE target[h]
      BY <1>2 DEF Inv, TypeOK
    <2> QED
      BY <1>1, <1>2, <1>3, <2>1 DEF Inv, IdentityIsAddressed, Ends
  <1>7. TablesAgree'
    BY <1>1, <1>2, <1>3, TablesKept DEF Ends
  <1> QED
    BY <1>4, <1>5, <1>6, <1>7 DEF Inv

LEMMA IdentityReadInv == ASSUME Inv, NEW c \in Conn, IdentityRead(c) PROVE Inv'
  <1> DEFINE s == IF named[c] = to[c] THEN "tls" ELSE "failed"
  <1>1. /\ stage[c]["acceptor"] = "read"
        /\ UNCHANGED <<target, named, proof, channels, stored, available, air, from, to, key>>
    BY DEF IdentityRead, Unchanged
  <1>2. /\ stage' \in [Conn -> [Ends -> Awaits \cup Ended]]
        /\ \A d \in Conn, f \in Ends :
              stage'[d][f] = IF d = c /\ f = "acceptor" THEN s ELSE stage[d][f]
    BY StageFacts DEF IdentityRead, Inv, Ends, Awaits, Ended
  <1>3. TypeOK'
    BY <1>1, <1>2 DEF Inv, TypeOK
  <1>4. Wired'
    BY <1>1, <1>2 DEF Inv, Wired, Ends
  <1>5. IdentityIsAddressed'
    BY <1>1, <1>2 DEF Inv, IdentityIsAddressed, Ends
  <1>6. TablesAgree'
    BY <1>1, <1>2, TablesKept
  <1> QED
    BY <1>3, <1>4, <1>5, <1>6 DEF Inv

LEMMA FailsInv ==
  ASSUME Inv, NEW c \in Conn, NEW e \in Ends, stage[c][e] \in Awaits, Fails(c, e)
  PROVE  Inv'
  <1>1. At(c, e) \in Host
    BY EndFacts DEF Inv, Awaits
  <1>2. /\ target' = IF stage[c][e] = "send" THEN [target EXCEPT ![At(c, e)] = None] ELSE target
        /\ UNCHANGED <<named, proof, channels, stored, available, air, from, to, key>>
    BY DEF Fails, Unchanged
  <1>3. /\ stage' \in [Conn -> [Ends -> Awaits \cup Ended]]
        /\ \A d \in Conn, f \in Ends :
              stage'[d][f] = IF d = c /\ f = e THEN "failed" ELSE stage[d][f]
    BY StageFacts DEF Fails, Inv, Ended
  <1>4. TypeOK'
    BY <1>1, <1>2, <1>3 DEF Inv, TypeOK
  <1>5. Wired'
    BY <1>2, <1>3 DEF Inv, Wired, Ends, Awaits
  <1>6. IdentityIsAddressed'
    <2>1. \A d \in Conn : stage'[d]["acceptor"] # "none" => stage[d]["acceptor"] # "none"
      BY <1>3 DEF Ends, Awaits
    <2>2. \A d \in Conn : stage'[d]["acceptor"] = "read" => stage[d]["acceptor"] = "read"
      BY <1>3 DEF Ends
    <2>3. ASSUME NEW h \in Host, target'[h] # None
          PROVE  \E d \in Conn : from[d] = h /\ stage'[d]["opener"] = "send"
      <3>1. target[h] # None /\ (stage[c][e] = "send" => h # At(c, e))
        BY <1>1, <1>2, <2>3 DEF Inv, TypeOK
      <3>2. PICK d \in Conn : from[d] = h /\ stage[d]["opener"] = "send"
        BY <3>1 DEF Inv, IdentityIsAddressed
      <3>3. ~(d = c /\ e = "opener")
        BY <3>1, <3>2 DEF At
      <3> QED
        BY <1>3, <3>2, <3>3 DEF Ends
    <2> QED
      BY <1>2, <2>1, <2>2, <2>3 DEF Inv, IdentityIsAddressed
  <1>7. TablesAgree'
    BY <1>2, <1>3, TablesKept DEF Awaits
  <1> QED
    BY <1>4, <1>5, <1>6, <1>7 DEF Inv

LEMMA ReceiveInv == ASSUME Inv, NEW d \in air, SocketReceive(d) PROVE Inv'
  <1> DEFINE unused == {c \in Conn : from[c] = None}
             c == CHOOSE x \in unused : TRUE
  <1>1. c \in Conn /\ from[c] = None
    <2>1. unused # {}
      BY DEF SocketReceive
    <2> QED
      BY <2>1
  <1>2. /\ air' \subseteq air
        /\ from' = [from EXCEPT ![c] = d.to] /\ to' = [to EXCEPT ![c] = d.from]
        /\ Goto(c, "opener", "connect")
        /\ UNCHANGED <<available, target, named, proof, channels, key, stored>>
    BY DEF SocketReceive, trustVars, Goto
  <1>3. d.from \in Host /\ d.to \in Host /\ d.from # d.to
    BY DEF Inv, TypeOK, Wired
  <1> HIDE DEF c
  <1>4. /\ stage' \in [Conn -> [Ends -> Awaits \cup Ended]]
        /\ \A x \in Conn, f \in Ends :
              stage'[x][f] = IF x = c /\ f = "opener" THEN "connect" ELSE stage[x][f]
    BY <1>1, <1>2, StageFacts DEF Inv, Ends, Awaits
  <1>5. /\ \A x \in Conn : from'[x] = (IF x = c THEN d.to ELSE from[x])
                           /\ to'[x] = (IF x = c THEN d.from ELSE to[x])
        /\ from' \in [Conn -> Host \cup {None}] /\ to' \in [Conn -> Host \cup {None}]
    BY <1>1, <1>2, <1>3 DEF Inv, TypeOK
  <1>6. stage[c]["opener"] = "none" /\ stage[c]["acceptor"] = "none"
    BY <1>1 DEF Inv, Wired
  <1>7. TypeOK'
    BY <1>2, <1>4, <1>5 DEF Inv, TypeOK
  <1>8. Wired'
    BY <1>2, <1>3, <1>4, <1>5, <1>6 DEF Inv, NoneIsNew, Wired, Ends
  <1>9. IdentityIsAddressed'
    BY <1>1, <1>2, <1>4, <1>5, <1>6 DEF Inv, NoneIsNew, IdentityIsAddressed, Ends
  <1>10. ASSUME NEW x \in Conn, NEW f \in Ends, stage[x][f] # "none"
         PROVE  At(x, f)' = At(x, f) /\ PeerOf(x, f)' = PeerOf(x, f) /\ stage'[x][f] = stage[x][f]
    <2>1. x # c
      BY <1>6, <1>10 DEF Ends
    <2> QED
      BY <1>4, <1>5, <2>1 DEF At, PeerOf, Other
  <1>11. TablesAgree'
    <2>1. ASSUME NEW h \in Host, NEW p \in Host, channels[h][p] # None
          PROVE  Entry(h, p, channels[h][p])'
      <3>1. channels[h][p] \in Conn /\ Entry(h, p, channels[h][p])
        BY <2>1 DEF Inv, TypeOK, TablesAgree
      <3> QED
        BY <1>2, <1>10, <3>1 DEF Entry
    <2>2. ASSUME NEW x \in Conn, NEW f \in Ends, stage'[x][f] \in {"open", "swap"}
          PROVE  stage[x][f] = stage'[x][f] /\ At(x, f)' = At(x, f) /\ PeerOf(x, f)' = PeerOf(x, f)
      <3>1. stage[x][f] # "none"
        BY <1>4, <1>6, <2>2 DEF Ends
      <3> QED
        BY <1>10, <3>1
    <2> QED
      BY <1>2, <2>1, <2>2 DEF Inv, TablesAgree
  <1> QED
    BY <1>7, <1>8, <1>9, <1>11 DEF Inv

(* A step of one fiber or device that touches no identity keeps what is     *)
(* said of these.                                                           *)
LEMMA IdentityKept ==
  ASSUME Inv, NEW c \in Conn, NEW e \in Ends, NEW s \in Awaits \cup Ended,
         stage[c][e] \notin {"none", "connect", "send", "read"},
         s \in {"swap", "failed", "open", "closed"}, Goto(c, e, s),
         UNCHANGED <<target, named, available, air, from, to, key>>
  PROVE  /\ Wired' /\ IdentityIsAddressed'
         /\ stage' \in [Conn -> [Ends -> Awaits \cup Ended]]
         /\ \A d \in Conn, f \in Ends :
               stage'[d][f] = IF d = c /\ f = e THEN s ELSE stage[d][f]
  <1>1. /\ stage' \in [Conn -> [Ends -> Awaits \cup Ended]]
        /\ \A d \in Conn, f \in Ends :
              stage'[d][f] = IF d = c /\ f = e THEN s ELSE stage[d][f]
    BY StageFacts DEF Inv
  <1>2. Wired'
    BY <1>1 DEF Inv, Wired, Ends
  <1>3. IdentityIsAddressed'
    BY <1>1 DEF Inv, IdentityIsAddressed, Ends
  <1> QED
    BY <1>1, <1>2, <1>3

LEMMA SecuredInv == ASSUME Inv, NEW c \in Conn, NEW e \in Ends, Secured(c, e) PROVE Inv'
  <1> DEFINE h == At(c, e)
             p == PeerOf(c, e)
             peerKey == IF proof[c][e] = 0 THEN key[p] ELSE proof[c][e]
             s == IF stored[h][p] \in {0, peerKey} THEN "swap" ELSE "failed"
  <1>1. /\ stage[c][e] = "tls" /\ proof' = [proof EXCEPT ![c][e] = peerKey]
        /\ Goto(c, e, s)
        /\ UNCHANGED <<target, named, channels, stored, available, air, from, to, key>>
    BY DEF Secured, Unchanged
  <1>2. h \in Host /\ p \in Host
    BY <1>1, EndFacts DEF Inv
  <1>3. peerKey \in Nat
    BY <1>2 DEF Inv, TypeOK
  <1> HIDE DEF peerKey
  <1>4. /\ Wired' /\ IdentityIsAddressed'
        /\ stage' \in [Conn -> [Ends -> Awaits \cup Ended]]
        /\ \A d \in Conn, f \in Ends :
              stage'[d][f] = IF d = c /\ f = e THEN s ELSE stage[d][f]
    <2>1. s \in Awaits \cup Ended /\ s \in {"swap", "failed", "open", "closed"}
      BY DEF Awaits, Ended
    <2> HIDE DEF s
    <2> QED
      BY <1>1, <2>1, IdentityKept
  <1>5. /\ proof' \in [Conn -> [Ends -> Nat]]
        /\ \A d \in Conn, f \in Ends :
              proof'[d][f] = IF d = c /\ f = e THEN peerKey ELSE proof[d][f]
    BY <1>1, <1>3 DEF Inv, TypeOK
  <1>6. TypeOK'
    BY <1>1, <1>4, <1>5 DEF Inv, TypeOK
  <1>7. \A d \in Conn, f \in Ends : At(d, f)' = At(d, f) /\ PeerOf(d, f)' = PeerOf(d, f)
    BY <1>1 DEF At, PeerOf, Other
  <1>8. TablesAgree'
    <2>1. ASSUME NEW x \in Host, NEW y \in Host, channels[x][y] # None
          PROVE  Entry(x, y, channels[x][y])'
      <3>1. channels[x][y] \in Conn /\ Entry(x, y, channels[x][y])
        BY <2>1 DEF Inv, TypeOK, TablesAgree
      <3> QED
        BY <1>1, <1>4, <1>5, <1>7, <3>1 DEF Entry
    <2>2. ASSUME NEW d \in Conn, NEW f \in Ends
          PROVE  /\ stage'[d][f] = "open" => channels[At(d, f)][PeerOf(d, f)] = d
                 /\ stage'[d][f] = "swap" /\ channels[At(d, f)][PeerOf(d, f)] = None
                       => stored[At(d, f)][PeerOf(d, f)] \in {0, proof'[d][f]}
      <3>1. CASE d = c /\ f = e
        BY <1>4, <1>5, <3>1
      <3>2. CASE ~(d = c /\ f = e)
        BY <1>4, <1>5, <3>2 DEF Inv, TablesAgree
      <3> QED
        BY <3>1, <3>2
    <2> QED
      BY <1>1, <1>7, <2>1, <2>2 DEF TablesAgree
  <1> QED
    BY <1>4, <1>6, <1>8 DEF Inv

LEMMA SwappedInv == ASSUME Inv, NEW c \in Conn, NEW e \in Ends, Swapped(c, e) PROVE Inv'
  <1> DEFINE h == At(c, e)
             p == PeerOf(c, e)
             current == channels[h][p]
  <1>1. /\ stage[c][e] = "swap"
        /\ UNCHANGED <<target, named, proof, stored, available, air, from, to, key>>
    BY DEF Swapped, Unchanged
  <1>2. h \in Host /\ p \in Host /\ h # p
    BY <1>1, EndFacts DEF Inv
  <1>3. \A d \in Conn, f \in Ends : At(d, f)' = At(d, f) /\ PeerOf(d, f)' = PeerOf(d, f)
    BY <1>1 DEF At, PeerOf, Other
  <1>4. CASE ~VerifyChannel(c, e)
    <2>1. Goto(c, e, "closed") /\ UNCHANGED channels
      BY <1>4 DEF Swapped
    <2>2. /\ Wired' /\ IdentityIsAddressed'
          /\ stage' \in [Conn -> [Ends -> Awaits \cup Ended]]
          /\ \A d \in Conn, f \in Ends :
                stage'[d][f] = IF d = c /\ f = e THEN "closed" ELSE stage[d][f]
      BY <1>1, <2>1, IdentityKept DEF Ended
    <2>3. TypeOK'
      BY <1>1, <2>1, <2>2 DEF Inv, TypeOK
    <2>4. TablesAgree'
      BY <1>1, <2>1, <2>2, TablesKept
    <2> QED
      BY <2>2, <2>3, <2>4 DEF Inv
  <1>5. CASE VerifyChannel(c, e)
    <2> DEFINE Replaced(d, f) == d = current /\ At(d, f) = h /\ stage[d][f] = "open"
    <2> DEFINE Stage(d, f) == CASE d = c /\ f = e -> "open"
                                [] Replaced(d, f) -> "closed"
                                [] OTHER -> stage[d][f]
    <2>1. /\ channels' = [channels EXCEPT ![h][p] = c]
          /\ stage' = [d \in Conn |-> [f \in Ends |-> Stage(d, f)]]
      BY <1>5 DEF Swapped, ChannelAnnounced
    <2>2. \A d \in Conn, f \in Ends :
            stage'[d][f] = IF d = c /\ f = e THEN "open"
                           ELSE IF Replaced(d, f) THEN "closed" ELSE stage[d][f]
      <3> SUFFICES ASSUME NEW d \in Conn, NEW f \in Ends
                   PROVE  stage'[d][f] = IF d = c /\ f = e THEN "open"
                                         ELSE IF Replaced(d, f) THEN "closed" ELSE stage[d][f]
        OBVIOUS
      <3> HIDE DEF Replaced
      <3>1. Stage(d, f) = IF d = c /\ f = e THEN "open"
                          ELSE IF Replaced(d, f) THEN "closed" ELSE stage[d][f]
        <4>1. CASE d = c /\ f = e
          <5>1. ~Replaced(d, f)
            BY <1>1, <4>1 DEF Replaced
          <5> QED
            BY <4>1, <5>1
        <4>2. CASE ~(d = c /\ f = e) /\ Replaced(d, f)
          BY <4>2
        <4>3. CASE ~(d = c /\ f = e) /\ ~Replaced(d, f)
          BY <4>3
        <4> QED
          BY <4>1, <4>2, <4>3
      <3> HIDE DEF Stage
      <3>2. stage'[d][f] = Stage(d, f)
        BY <2>1
      <3> QED
        BY <3>1, <3>2
    <2>3. stage' \in [Conn -> [Ends -> Awaits \cup Ended]]
      <3>1. \A d \in Conn, f \in Ends : stage[d][f] \in Awaits \cup Ended
        BY DEF Inv, TypeOK
      <3>2. \A d \in Conn, f \in Ends : stage'[d][f] \in Awaits \cup Ended
        BY <2>2, <3>1 DEF Ended
      <3> QED
        BY <2>1, <3>2
    <2>4. /\ channels' \in [Host -> [Host -> Conn \cup {None}]]
          /\ \A x, y \in Host :
                channels'[x][y] = IF x = h /\ y = p THEN c ELSE channels[x][y]
      BY <1>2, <2>1 DEF Inv, TypeOK
    <2> HIDE DEF Replaced, Stage
    <2>5. TypeOK'
      BY <1>1, <2>3, <2>4 DEF Inv, TypeOK
    <2>6. Wired'
      BY <1>1, <2>2 DEF Inv, Wired, Ends, Replaced
    <2>7. IdentityIsAddressed'
      BY <1>1, <2>2 DEF Inv, IdentityIsAddressed, Ends, Replaced
    <2>8. stored[h][p] \in {0, proof[c][e]}
      <3>1. CASE current = None
        BY <1>1, <3>1 DEF Inv, TablesAgree
      <3>2. CASE current # None
        <4>1. current \in Conn /\ Entry(h, p, current)
          BY <1>2, <3>2 DEF Inv, TypeOK, TablesAgree
        <4>2. PICK f \in Ends : /\ At(current, f) = h /\ PeerOf(current, f) = p
                                /\ stored[h][p] \in {0, proof[current][f]}
          BY <4>1 DEF Entry
        <4>3. PICK g \in Ends : At(current, g) = h /\ proof[current][g] = proof[c][e]
          BY <1>5, <3>2 DEF VerifyChannel
        <4>4. f = g
          BY <1>2, <4>2, <4>3 DEF At, PeerOf, Other, Ends
        <4> QED
          BY <4>2, <4>3, <4>4
      <3> QED
        BY <3>1, <3>2
    <2>9. TablesAgree'
      <3>1. ASSUME NEW x \in Host, NEW y \in Host, channels'[x][y] # None
            PROVE  Entry(x, y, channels[x][y])'
        <4>1. CASE x = h /\ y = p
          BY <1>1, <1>3, <2>2, <2>4, <2>8, <4>1 DEF Entry
        <4>2. CASE ~(x = h /\ y = p)
          <5>1. channels'[x][y] = channels[x][y]
            BY <2>4, <4>2
          <5>2. channels[x][y] \in Conn /\ Entry(x, y, channels[x][y])
            BY <3>1, <5>1 DEF Inv, TypeOK, TablesAgree
          <5>3. PICK f \in Ends : /\ At(channels[x][y], f) = x /\ PeerOf(channels[x][y], f) = y
                                  /\ stage[channels[x][y]][f] \in {"open", "closed"}
                                  /\ stored[x][y] \in {0, proof[channels[x][y]][f]}
            BY <5>2 DEF Entry
          <5>4. stage'[channels[x][y]][f] \in {"open", "closed"}
            BY <2>2, <5>2, <5>3
          <5> QED
            BY <1>1, <1>3, <5>1, <5>2, <5>3, <5>4 DEF Entry
        <4> QED
          BY <4>1, <4>2
      <3>2. ASSUME NEW d \in Conn, NEW f \in Ends
            PROVE  /\ stage'[d][f] = "open" => channels'[At(d, f)][PeerOf(d, f)] = d
                   /\ stage'[d][f] = "swap" /\ channels'[At(d, f)][PeerOf(d, f)] = None
                         => stored[At(d, f)][PeerOf(d, f)] \in {0, proof[d][f]}
        <4>1. CASE d = c /\ f = e
          BY <1>2, <2>2, <2>4, <4>1
        <4>2. CASE ~(d = c /\ f = e) /\ stage'[d][f] \in {"open", "swap"}
          <5>1. stage'[d][f] = stage[d][f] /\ ~Replaced(d, f)
            BY <2>2, <4>2
          <5>2. At(d, f) \in Host /\ PeerOf(d, f) \in Host
            BY <4>2, <5>1, EndFacts DEF Inv
          <5>3. CASE stage[d][f] = "open"
            <6>1. channels[At(d, f)][PeerOf(d, f)] = d
              BY <5>3 DEF Inv, TablesAgree
            <6>2. ~(At(d, f) = h /\ PeerOf(d, f) = p)
              BY <5>1, <5>3, <6>1 DEF Replaced
            <6> QED
              BY <2>4, <5>1, <5>2, <5>3, <6>1, <6>2
          <5>4. CASE stage[d][f] = "swap"
            <6>1. channels'[At(d, f)][PeerOf(d, f)] = None
                    => channels[At(d, f)][PeerOf(d, f)] = None
              BY <2>4, <5>2 DEF Inv, NoneIsNew
            <6> QED
              BY <5>1, <5>4, <6>1 DEF Inv, TablesAgree
          <5> QED
            BY <4>2, <5>1, <5>3, <5>4
        <4> QED
          BY <4>1, <4>2
      <3> QED
        BY <1>1, <1>3, <3>1, <3>2 DEF TablesAgree
    <2> QED
      BY <2>5, <2>6, <2>7, <2>9 DEF Inv
  <1> QED
    BY <1>4, <1>5

LEMMA LostInv == ASSUME Inv, NEW c \in Conn, NEW e \in Ends, ChannelLost(c, e) PROVE Inv'
  <1> DEFINE h == At(c, e)
  <1>1. /\ stage[c][e] = "open" /\ Goto(c, e, "closed")
        /\ channels' = [channels EXCEPT ![h][h] = None]
        /\ UNCHANGED <<target, named, proof, stored, available, air, from, to, key>>
    BY DEF ChannelLost, OnChannelDestroyed, Unchanged
  <1>2. h \in Host
    BY <1>1, EndFacts DEF Inv
  <1>3. \A d \in Conn, f \in Ends : At(d, f)' = At(d, f) /\ PeerOf(d, f)' = PeerOf(d, f)
    BY <1>1 DEF At, PeerOf, Other
  <1>4. /\ Wired' /\ IdentityIsAddressed'
        /\ stage' \in [Conn -> [Ends -> Awaits \cup Ended]]
        /\ \A d \in Conn, f \in Ends :
              stage'[d][f] = IF d = c /\ f = e THEN "closed" ELSE stage[d][f]
    BY <1>1, IdentityKept DEF Ended
  <1>5. /\ channels' \in [Host -> [Host -> Conn \cup {None}]]
        /\ \A x, y \in Host :
              channels'[x][y] = IF x = h /\ y = h THEN None ELSE channels[x][y]
    BY <1>1, <1>2 DEF Inv, TypeOK
  <1>6. TypeOK'
    BY <1>1, <1>4, <1>5 DEF Inv, TypeOK
  <1>7. TablesAgree'
    <2>1. ASSUME NEW x \in Host, NEW y \in Host, channels'[x][y] # None
          PROVE  Entry(x, y, channels[x][y])'
      <3>1. channels'[x][y] = channels[x][y]
        BY <1>5, <2>1
      <3>2. channels[x][y] \in Conn /\ Entry(x, y, channels[x][y])
        BY <2>1, <3>1 DEF Inv, TypeOK, TablesAgree
      <3> QED
        BY <1>1, <1>3, <1>4, <3>1, <3>2 DEF Entry
    <2>2. ASSUME NEW d \in Conn, NEW f \in Ends
          PROVE  /\ stage'[d][f] = "open" => channels'[At(d, f)][PeerOf(d, f)] = d
                 /\ stage'[d][f] = "swap" /\ channels'[At(d, f)][PeerOf(d, f)] = None
                       => stored[At(d, f)][PeerOf(d, f)] \in {0, proof[d][f]}
      <3>1. CASE stage'[d][f] \in {"open", "swap"}
        <4>1. stage[d][f] = stage'[d][f]
          BY <1>4, <3>1
        <4>2. At(d, f) \in Host /\ PeerOf(d, f) \in Host /\ At(d, f) # PeerOf(d, f)
          BY <3>1, <4>1, EndFacts DEF Inv
        <4>3. channels'[At(d, f)][PeerOf(d, f)] = channels[At(d, f)][PeerOf(d, f)]
          BY <1>5, <4>2
        <4> QED
          BY <4>1, <4>3 DEF Inv, TablesAgree
      <3> QED
        BY <3>1
    <2> QED
      BY <1>1, <1>3, <2>1, <2>2 DEF TablesAgree
  <1> QED
    BY <1>4, <1>6, <1>7 DEF Inv

(* What is stored changes to nothing, or to the key of an open channel.     *)
LEMMA StoredInv ==
  ASSUME Inv, NEW h \in Host, NEW p \in Host, NEW k \in Nat,
         stored' = [stored EXCEPT ![h][p] = k],
         \/ k = 0
         \/ \E c \in Conn, e \in Ends :
               stage[c][e] = "open" /\ At(c, e) = h /\ PeerOf(c, e) = p /\ k = proof[c][e],
         UNCHANGED <<target, named, stage, proof, channels, available, air, from, to, key>>
  PROVE  Inv'
  <1>1. /\ stored' \in [Host -> [Host -> Nat]]
        /\ \A x, y \in Host : stored'[x][y] = IF x = h /\ y = p THEN k ELSE stored[x][y]
    BY DEF Inv, TypeOK
  <1>2. TypeOK'
    BY <1>1 DEF Inv, TypeOK
  <1>3. Wired' /\ IdentityIsAddressed'
    BY DEF Inv, Wired, IdentityIsAddressed
  <1>4. \A d \in Conn, f \in Ends : At(d, f)' = At(d, f) /\ PeerOf(d, f)' = PeerOf(d, f)
    BY DEF At, PeerOf, Other
  <1>5. k # 0 => channels[h][p] \in Conn /\ \E e \in Ends :
           /\ stage[channels[h][p]][e] = "open" /\ At(channels[h][p], e) = h
           /\ PeerOf(channels[h][p], e) = p /\ k = proof[channels[h][p]][e]
    BY DEF Inv, TablesAgree
  <1>6. TablesAgree'
    <2>1. ASSUME NEW x \in Host, NEW y \in Host, channels[x][y] # None
          PROVE  Entry(x, y, channels[x][y])'
      <3>1. channels[x][y] \in Conn /\ Entry(x, y, channels[x][y])
        BY <2>1 DEF Inv, TypeOK, TablesAgree
      <3>2. PICK f \in Ends : /\ At(channels[x][y], f) = x /\ PeerOf(channels[x][y], f) = y
                              /\ stage[channels[x][y]][f] \in {"open", "closed"}
                              /\ stored[x][y] \in {0, proof[channels[x][y]][f]}
        BY <3>1 DEF Entry
      <3>3. CASE x = h /\ y = p /\ k # 0
        BY <1>1, <1>4, <1>5, <3>3 DEF Entry
      <3>4. CASE ~(x = h /\ y = p /\ k # 0)
        <4>1. stored'[x][y] \in {0, proof[channels[x][y]][f]}
          BY <1>1, <3>2, <3>4
        <4> QED
          BY <1>4, <3>1, <3>2, <4>1 DEF Entry
      <3> QED
        BY <3>3, <3>4
    <2>2. ASSUME NEW d \in Conn, NEW f \in Ends, stage[d][f] = "swap",
                 channels[At(d, f)][PeerOf(d, f)] = None
          PROVE  stored'[At(d, f)][PeerOf(d, f)] \in {0, proof[d][f]}
      <3>1. At(d, f) \in Host /\ PeerOf(d, f) \in Host
        BY <2>2, EndFacts DEF Inv
      <3>2. k # 0 => ~(At(d, f) = h /\ PeerOf(d, f) = p)
        BY <1>5, <2>2 DEF Inv, NoneIsNew
      <3>3. stored[At(d, f)][PeerOf(d, f)] \in {0, proof[d][f]}
        BY <2>2 DEF Inv, TablesAgree
      <3> QED
        BY <1>1, <3>1, <3>2, <3>3
    <2> QED
      BY <1>4, <2>1, <2>2 DEF Inv, TablesAgree
  <1> QED
    BY <1>2, <1>3, <1>6 DEF Inv

(* A service that ends leaves nothing of its own, and keeps what is on disk  *)
(* or loses all of it.                                                      *)
LEMMA EndsInv == ASSUME Inv, NEW h \in Host, Restart(h) \/ Reinstall(h) PROVE Inv'
  <1> DEFINE Stage(d, f) == IF At(d, f) = h /\ stage[d][f] # "none" THEN "closed" ELSE stage[d][f]
  <1>1. /\ target' = [target EXCEPT ![h] = None]
        /\ channels' = [channels EXCEPT ![h] = [p \in Host |-> None]]
        /\ available' = [available EXCEPT ![h] = FALSE]
        /\ stage' = [d \in Conn |-> [f \in Ends |-> Stage(d, f)]]
        /\ UNCHANGED <<air, from, to, named, proof>>
    BY DEF Restart, Reinstall, ServiceEnds
  <1>2. \A d \in Conn, f \in Ends : Stage(d, f) \in Awaits \cup Ended
    BY DEF Inv, TypeOK, Ended
  <1> HIDE DEF Stage
  <1>3. /\ stage' \in [Conn -> [Ends -> Awaits \cup Ended]]
        /\ \A d \in Conn, f \in Ends : stage'[d][f] = Stage(d, f)
    BY <1>1, <1>2
  <1>4. /\ channels' \in [Host -> [Host -> Conn \cup {None}]]
        /\ \A x, y \in Host : channels'[x][y] = IF x = h THEN None ELSE channels[x][y]
    BY <1>1 DEF Inv, TypeOK
  <1>5. /\ stored' \in [Host -> [Host -> Nat]] /\ key' \in [Host -> Nat]
        /\ \A x, y \in Host : x # h => stored'[x][y] = stored[x][y]
    <2>1. CASE Restart(h)
      BY <2>1 DEF Restart, Inv, TypeOK
    <2>2. CASE Reinstall(h)
      <3>1. key[h] + 1 \in Nat
        BY DEF Inv, TypeOK
      <3> QED
        BY <2>2, <3>1 DEF Reinstall, Inv, TypeOK
    <2> QED
      BY <2>1, <2>2
  <1>6. TypeOK'
    BY <1>1, <1>3, <1>4, <1>5 DEF Inv, TypeOK
  <1>7. Wired'
    BY <1>1, <1>3 DEF Inv, Wired, Ends, Stage
  <1>8. IdentityIsAddressed'
    <2>1. /\ \A d \in Conn : stage'[d]["acceptor"] # "none" => stage[d]["acceptor"] # "none"
          /\ \A d \in Conn : stage'[d]["acceptor"] = "read" => stage[d]["acceptor"] = "read"
      BY <1>3 DEF Stage, Ends
    <2>2. ASSUME NEW x \in Host, target'[x] # None
          PROVE  \E d \in Conn : from[d] = x /\ stage'[d]["opener"] = "send"
      <3>1. x # h /\ target[x] # None
        BY <1>1, <2>2 DEF Inv, TypeOK
      <3>2. PICK d \in Conn : from[d] = x /\ stage[d]["opener"] = "send"
        BY <3>1 DEF Inv, IdentityIsAddressed
      <3> QED
        BY <1>3, <3>1, <3>2 DEF Stage, At, Ends
    <2>3. /\ \A d \in Conn : stage'[d]["acceptor"] # "none" /\ named'[d] # None => named'[d] = to'[d]
          /\ \A d \in Conn : stage'[d]["acceptor"] = "read" => named'[d] # None
      BY <1>1, <2>1 DEF Inv, IdentityIsAddressed
    <2> QED
      BY <1>1, <2>2, <2>3 DEF IdentityIsAddressed
  <1>9. \A d \in Conn, f \in Ends : At(d, f)' = At(d, f) /\ PeerOf(d, f)' = PeerOf(d, f)
    BY <1>1 DEF At, PeerOf, Other
  <1>10. TablesAgree'
    <2>1. ASSUME NEW x \in Host, NEW y \in Host, channels'[x][y] # None
          PROVE  Entry(x, y, channels[x][y])'
      <3>1. x # h /\ channels'[x][y] = channels[x][y]
        BY <1>4, <2>1
      <3>2. channels[x][y] \in Conn /\ Entry(x, y, channels[x][y])
        BY <2>1, <3>1 DEF Inv, TypeOK, TablesAgree
      <3> QED
        BY <1>1, <1>3, <1>5, <1>9, <3>1, <3>2 DEF Entry, Stage
    <2>2. ASSUME NEW d \in Conn, NEW f \in Ends, stage'[d][f] \in {"open", "swap"}
          PROVE  /\ stage'[d][f] = "open" => channels'[At(d, f)][PeerOf(d, f)] = d
                 /\ stage'[d][f] = "swap" /\ channels'[At(d, f)][PeerOf(d, f)] = None
                       => stored'[At(d, f)][PeerOf(d, f)] \in {0, proof[d][f]}
      <3>1. stage'[d][f] = stage[d][f] /\ At(d, f) # h
        BY <1>3, <2>2 DEF Stage
      <3>2. At(d, f) \in Host /\ PeerOf(d, f) \in Host
        BY <2>2, <3>1, EndFacts DEF Inv
      <3>3. /\ channels'[At(d, f)][PeerOf(d, f)] = channels[At(d, f)][PeerOf(d, f)]
            /\ stored'[At(d, f)][PeerOf(d, f)] = stored[At(d, f)][PeerOf(d, f)]
        BY <1>4, <1>5, <3>1, <3>2
      <3> QED
        BY <3>1, <3>3 DEF Inv, TablesAgree
    <2> QED
      BY <1>1, <1>9, <2>1, <2>2 DEF TablesAgree
  <1> QED
    BY <1>6, <1>7, <1>8, <1>10 DEF Inv

LEMMA StepInv == Inv /\ [Next]_vars => Inv'
  <1> SUFFICES ASSUME Inv, [Next]_vars PROVE Inv'
    OBVIOUS
  <1>1. air \subseteq [from : Host, to : Host] /\ \A d \in air : d.from # d.to
    BY DEF Inv, TypeOK, Wired
  <1>2. ASSUME NEW h \in Host, NetworkChanged(h) \/ Identify(h) PROVE Inv'
    <2>1. /\ UNCHANGED <<target, fiberVars, channels, trustVars>>
          /\ available' = available \/ available' = [available EXCEPT ![h] = ~@]
          /\ air' = air \/ Announce(h)
      BY <1>2 DEF NetworkChanged, Identify
    <2>2. available' \in [Host -> BOOLEAN]
      BY <2>1 DEF Inv, TypeOK
    <2>3. air' \subseteq [from : Host, to : Host] /\ \A d \in air' : d.from # d.to
      BY <1>1, <2>1 DEF Announce
    <2> QED
      BY <2>1, <2>2, <2>3, AirInv
  <1>3. ASSUME NEW h \in Host, NEW p \in Host, ServiceAppears(h, p) \/ IdentifyTarget(h, p)
        PROVE  Inv'
    <2>1. /\ UNCHANGED <<available, target, fiberVars, channels, trustVars>>
          /\ p # h /\ SocketQueueResolve(h, p)
      BY <1>3 DEF ServiceAppears, IdentifyTarget
    <2>2. available' \in [Host -> BOOLEAN]
      BY <2>1 DEF Inv, TypeOK
    <2>3. air' \subseteq [from : Host, to : Host] /\ \A d \in air' : d.from # d.to
      BY <1>1, <2>1 DEF SocketQueueResolve
    <2> QED
      BY <2>1, <2>2, <2>3, AirInv
  <1>4. ASSUME NEW d \in air, SocketSend(d) PROVE Inv'
    <2>1. available' \in [Host -> BOOLEAN] /\ air' \subseteq air
      BY <1>4 DEF SocketSend, Inv, TypeOK
    <2> QED
      BY <1>1, <1>4, <2>1, AirInv DEF SocketSend
  <1>5. ASSUME NEW d \in air, SocketReceive(d) PROVE Inv'
    BY <1>5, ReceiveInv
  <1>6. CASE FiberStep
    <2>1. ASSUME NEW c \in Conn, Connected(c) \/ Written(c) \/ IdentityRead(c) PROVE Inv'
      BY <2>1, ConnectedInv, WrittenInv, IdentityReadInv
    <2>2. ASSUME NEW c \in Conn, NEW e \in Ends, Secured(c, e) \/ Swapped(c, e) PROVE Inv'
      BY <2>2, SecuredInv, SwappedInv
    <2>3. ASSUME NEW c \in Conn, NEW e \in Ends, Timeout(c, e) \/ PeerGone(c, e) PROVE Inv'
      BY <2>3, FailsInv DEF Timeout, PeerGone
    <2> QED
      BY <1>6, <2>1, <2>2, <2>3 DEF FiberStep
  <1>7. ASSUME NEW c \in Conn, NEW e \in Ends, ChannelLost(c, e) PROVE Inv'
    BY <1>7, LostInv
  <1>8. ASSUME NEW c \in Conn, NEW e \in Ends, Pair(c, e) PROVE Inv'
    <2>1. /\ stage[c][e] = "open"
          /\ stored' = [stored EXCEPT ![At(c, e)][PeerOf(c, e)] = proof[c][e]]
          /\ UNCHANGED <<target, named, stage, proof, channels, available, air, from, to, key>>
      BY <1>8 DEF Pair, Unchanged
    <2>2. At(c, e) \in Host /\ PeerOf(c, e) \in Host /\ proof[c][e] \in Nat
      BY <2>1, EndFacts DEF Inv, TypeOK
    <2> QED
      BY <2>1, <2>2, StoredInv
  <1>9. ASSUME NEW h \in Host, NEW p \in Host, Unpair(h, p) PROVE Inv'
    BY <1>9, StoredInv DEF Unpair, Unchanged
  <1>10. ASSUME NEW h \in Host, Restart(h) \/ Reinstall(h) PROVE Inv'
    BY <1>10, EndsInv
  <1>11. CASE UNCHANGED vars
    BY <1>1, <1>11, AirInv DEF Inv, TypeOK, vars, fiberVars, trustVars
  <1> QED
    BY <1>2, <1>3, <1>4, <1>5, <1>6, <1>7, <1>8, <1>9, <1>10, <1>11 DEF Next

LEMMA Invariance == ASSUME NoneIsNew PROVE Spec => []Inv
  BY InitInv, StepInv, PTL DEF Spec

(* For any number of hosts, connections and restarts: fibers that share one *)
(* identity packet send it to whom it names.                                *)
THEOREM IdentityNamesItsTarget == ASSUME NoneIsNew PROVE Spec => []IdentityIsAddressed
  <1>1. Inv => IdentityIsAddressed
    BY DEF Inv
  <1> QED
    BY <1>1, Invariance, PTL

(* The tables lead back from an open channel to what is stored.              *)
LEMMA OpenFollows == Inv => OpenIsTrusted
  <1> SUFFICES ASSUME Inv, NEW c \in Conn, NEW e \in Ends, stage[c][e] = "open"
               PROVE  stored[At(c, e)][PeerOf(c, e)] \in {0, proof[c][e]}
    BY DEF OpenIsTrusted
  <1>1. At(c, e) \in Host /\ PeerOf(c, e) \in Host /\ At(c, e) # PeerOf(c, e)
    BY EndFacts DEF Inv
  <1>2. channels[At(c, e)][PeerOf(c, e)] = c /\ c # None
    BY DEF Inv, NoneIsNew, TablesAgree
  <1>3. Entry(At(c, e), PeerOf(c, e), c)
    BY <1>1, <1>2 DEF Inv, TablesAgree
  <1>4. PICK f \in Ends : /\ At(c, f) = At(c, e)
                          /\ stored[At(c, e)][PeerOf(c, e)] \in {0, proof[c][f]}
    BY <1>3 DEF Entry
  <1>5. f = e
    BY <1>1, <1>4 DEF At, PeerOf, Other, Ends
  <1> QED
    BY <1>4, <1>5

(* For any number of hosts, connections and restarts: an open channel to a  *)
(* device that is paired has the certificate that was stored for it.        *)
THEOREM OpenStaysTrusted == ASSUME NoneIsNew PROVE Spec => []OpenIsTrusted
  BY OpenFollows, Invariance, PTL
=============================================================================
