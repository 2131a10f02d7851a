------------------------------ MODULE Contacts ------------------------------
(***************************************************************************)
(* The contacts plugin: "there" has the contacts, "here" fetches them into *)
(* the database of its ValentContactsDevice, and the lists of the adapter  *)
(* follow the notifier of that database.  A contact is its uid and the     *)
(* version of its vCard.                                                   *)
(***************************************************************************)
EXTENDS PluginLink, Bags

CONSTANTS
    Uid,
    MaxEvents            \* bounds the edits, the fetches and the restarts

VARIABLES
    peer,                \* "there": a phone, or Valent with local-sync on or off
    book,                \* contacts of "there": versions by uid
    sending,             \* the cancellable of ValentContactsDevice is there
    updates,             \* updates of the database under way
    store,               \* the database: versions by uid
    listStored,          \* it has the nco:ContactList
    notices,             \* notifier events: new contacts, and whether the list is new
    search,              \* the query for the lists: "pending", or "done"
    list,                \* the lists of the adapter: "none" or "one"
    query,               \* the query for the contacts of the list: "none" or "pending"
    loads,               \* queries for one contact
    items,               \* the contacts in the list: how often each
    missed,              \* an edit or a cut since the last listing that was asked for
    events

contactsVars == <<peer, book, sending, updates, store, listStored, notices, search, list,
                  query, loads, items, missed, events>>
remoteVars == <<peer, book, missed>>
storeVars == <<updates, store, listStored, notices>>
listVars == <<search, list, query, loads, items>>
vars == <<linkVars, contactsVars>>

NoContacts == [u \in {} |-> 0]

Init ==
    /\ LinkInit
    /\ peer \in {"phone", "exports", "private"}
    /\ book \in {[u \in S |-> 1] : S \in SUBSET Uid}
    /\ sending = FALSE /\ updates = <<>> /\ notices = <<>>
    /\ store = NoContacts /\ listStored = FALSE
    /\ search = "pending" /\ list = "none" /\ query = "none" /\ loads = {} /\ items = EmptyBag
    /\ missed = TRUE /\ events = 0
-----------------------------------------------------------------------------
(* The other end                                                            *)

Edit(u) ==
    /\ events < MaxEvents /\ events' = events + 1
    /\ book' \in {[v \in DOMAIN book \cup {u} |-> IF v = u THEN 2 ELSE book[v]],
                  [v \in DOMAIN book \ {u} |-> book[v]]} \ {book}
    /\ missed' = TRUE
    /\ UNCHANGED <<linkVars, peer, sending, storeVars, listVars>>

(* valent_contact_plugin_handle_request_all_uids_timestamps(): Valent has no  *)
(* timestamps to tell; a phone has                                            *)
HandleRequestAllUids ==
    /\ Arrived("there") /\ Head(wire["there"]).kind = "requestUids"
    /\ Handled("there",
         IF peer = "private" THEN <<>>
         ELSE <<[kind |-> "uids",
                 uids |-> [u \in DOMAIN book |-> IF peer = "phone" THEN 1 ELSE 0]]>>)
    /\ UNCHANGED <<link, available, contactsVars>>

(* valent_contact_plugin_handle_request_vcards_by_uid()                      *)
HandleRequestVcards ==
    LET r == Head(wire["there"])
        known == {u \in r.uids : u \in DOMAIN book}
    IN  /\ Arrived("there") /\ r.kind = "requestVcards"
        /\ Handled("there",
             IF peer = "private" \/ r.uids = {} THEN <<>>
             ELSE <<[kind |-> "vcards", vcards |-> [u \in known |-> book[u]]]>>)
        /\ UNCHANGED <<link, available, contactsVars>>
-----------------------------------------------------------------------------
(* ValentContactsDevice                                                     *)
RequestAllUids == <<[kind |-> "requestUids"]>>

(* contacts_fetch_action()                                                   *)
Fetch ==
    /\ events < MaxEvents /\ events' = events + 1 /\ Room("here")
    /\ available["here"] /\ Queue("here", RequestAllUids)
    /\ missed' = ~CanSend("here")
    /\ UNCHANGED <<link, available, peer, book, sending, storeVars, listVars>>

(* valent_contacts_device_handle_response_uids_timestamps()                  *)
HandleResponseUids ==
    LET p == Head(wire["here"])
        wanted == {u \in DOMAIN p.uids : p.uids[u] # 0}
    IN  /\ Arrived("here") /\ p.kind = "uids"
        /\ Handled("here", IF wanted = {} THEN <<>> ELSE <<[kind |-> "requestVcards", uids |-> wanted]>>)
        /\ UNCHANGED <<link, available, contactsVars>>

(* valent_contacts_device_handle_response_vcards(): the list is made or       *)
(* changed with its contacts, in one update                                   *)
HandleResponseVcards ==
    LET p == Head(wire["here"])
    IN  /\ Arrived("here") /\ p.kind = "vcards" /\ Handled("here", <<>>)
        /\ updates' = Append(updates, [vcards |-> p.vcards, cancelled |-> FALSE])
        /\ UNCHANGED <<link, available, remoteVars, sending, store, listStored, notices, listVars,
                       events>>

(* The database applies it, or not if it was cancelled, and notifies          *)
UpdateDone ==
    LET u == Head(updates)
    IN  /\ updates # <<>> /\ updates' = Tail(updates)
        /\ \/ /\ store' = [x \in DOMAIN store \cup DOMAIN u.vcards |->
                             IF x \in DOMAIN u.vcards THEN u.vcards[x] ELSE store[x]]
              /\ listStored' = TRUE
              /\ notices' = Append(notices, [list |-> ~listStored,
                                             created |-> DOMAIN u.vcards \ DOMAIN store])
           \/ u.cancelled /\ UNCHANGED <<store, listStored, notices>>
        /\ UNCHANGED <<linkVars, remoteVars, sending, listVars, events>>

(* on_device_state_changed(), with the first channel and without the last      *)
Appear(e) ==
    /\ IF e = "here"
         THEN Appears(e, RequestAllUids) /\ sending' = TRUE /\ missed' = FALSE
         ELSE Appears(e, <<>>) /\ UNCHANGED <<sending, missed>>
    /\ UNCHANGED <<peer, book, storeVars, listVars, events>>

Lose(e) ==
    /\ Loses(e)
    /\ IF e = "here"
         THEN /\ sending' = FALSE
              /\ updates' = [i \in DOMAIN updates |-> [updates[i] EXCEPT !.cancelled = TRUE]]
         ELSE UNCHANGED <<sending, updates>>
    /\ UNCHANGED <<remoteVars, store, listStored, notices, listVars, events>>

(* valent_contacts_plugin_update_state() disables the actions                 *)
Vanish(e) == Vanishes(e) /\ UNCHANGED contactsVars
-----------------------------------------------------------------------------
(* ValentContactsAdapter and ValentContactList                              *)

(* A list is made: it connects to the notifier and queries its contacts       *)
ListAdded == list' = "one" /\ query' = "pending"

(* valent_contacts_adapter_open(), _load_contact_lists(): nothing is listed, and    *)
(* the query for the lists is under way                                        *)
Opened == search' = "pending" /\ list' = "none" /\ query' = "none"

(* execute_get_contact_lists_cb(), cursor_get_contact_lists_cb(): a list that the notifier told of in the     *)
(* meantime is there already; the second is left out                          *)
ListsLoaded ==
    /\ search = "pending" /\ search' = "done"
    /\ IF listStored /\ list = "none" THEN ListAdded ELSE UNCHANGED <<list, query>>
    /\ UNCHANGED <<linkVars, remoteVars, sending, storeVars, loads, items, events>>

(* on_notifier_event() of the adapter: a list of its own was created           *)
IsContactList(n) == n.list /\ list = "none"

(* The notifier tells the adapter and the list.  A list that is made    *)
(* during the emission is not connected to it                                  *)
NotifierEvent ==
    LET n == Head(notices)
    IN  /\ notices # <<>> /\ notices' = Tail(notices)
        /\ IF IsContactList(n)
             THEN ListAdded /\ UNCHANGED loads
             ELSE /\ loads' = IF list = "one" THEN loads \cup n.created ELSE loads
                  /\ UNCHANGED <<list, query>>
        /\ UNCHANGED <<linkVars, remoteVars, sending, updates, store, listStored, search, items,
                       events>>

(* cursor_get_contact_list_cb(): what the query finds is appended             *)
ListLoaded ==
    /\ query = "pending" /\ query' = "none"
    /\ items' = items (+) SetToBag(DOMAIN store)
    /\ UNCHANGED <<linkVars, remoteVars, sending, storeVars, search, list, loads, events>>

(* valent_contact_list_load_contact_cb()                                     *)
ContactLoaded(u) ==
    /\ u \in loads /\ loads' = loads \ {u}
    /\ items' = items (+) SetToBag({u} \cap DOMAIN store)
    /\ UNCHANGED <<linkVars, remoteVars, sending, storeVars, search, list, query, events>>

(* The process ends and starts again; the database stays                      *)
Restart ==
    /\ events < MaxEvents /\ events' = events + 1
    /\ ~link.up /\ ~Connected("here")
    /\ available' = [available EXCEPT !["here"] = FALSE]
    /\ updates' = <<>> /\ notices' = <<>>
    /\ Opened
    /\ loads' = {} /\ items' = EmptyBag /\ missed' = TRUE
    /\ UNCHANGED <<link, wire, peer, book, sending, store, listStored>>

Link ==
    /\ \/ (Connects \/ Unpairs) /\ UNCHANGED missed
       \/ Breaks /\ missed' = TRUE
    /\ UNCHANGED <<peer, book, sending, storeVars, listVars, events>>

Next ==
    \/ \E u \in Uid : Edit(u) \/ ContactLoaded(u)
    \/ HandleRequestAllUids \/ HandleRequestVcards
    \/ Fetch \/ HandleResponseUids \/ HandleResponseVcards \/ UpdateDone
    \/ \E e \in End : Appear(e) \/ Lose(e) \/ Vanish(e)
    \/ ListsLoaded \/ NotifierEvent \/ ListLoaded
    \/ Restart \/ Link

Spec == Init /\ [][Next]_vars
-----------------------------------------------------------------------------
(* Unless the phone's contacts changed or the connection was cut since they    *)
(* were last asked for, the database has every contact of the phone as it is.  *)
PhoneIsStored ==
    Settled /\ ~missed /\ peer = "phone" /\ updates = <<>>
      => \A u \in DOMAIN book : u \in DOMAIN store /\ store[u] = book[u]

(* Once no query and no event is on the way, every contact in the database is  *)
(* in the list, whichever of the queries and the events came first.            *)
StoredIsListed ==
    search = "done" /\ query = "none" /\ loads = {} /\ notices = <<>>
      => \A u \in DOMAIN store : BagIn(u, items)
=============================================================================
