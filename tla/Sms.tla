-------------------------------- MODULE Sms --------------------------------
(***************************************************************************)
(* How ValentSmsDevice "here" catches up with one thread of messages of    *)
(* the phone "there".  The phone tells its latest message; what is missing *)
(* between that and the latest in the database is asked for in pages.  A   *)
(* message is its date.                                                    *)
(***************************************************************************)
EXTENDS PluginLink, FiniteSetsExt

CONSTANTS
    MaxMessages,         \* bounds the messages of the thread
    MaxEvents,           \* bounds the new messages and the sync actions
    MaxResults           \* DEFAULT_MESSAGE_REQUEST: the messages of a page

VARIABLES
    latest,              \* the thread of the phone is 1..latest
    queries,             \* valent_sms_device_get_timestamp() under way: the date, and its result
    requests,            \* message_requests
    batches,             \* updates of the database under way
    store,               \* the messages in the database
    cut,                 \* the device went away while a page or an update was under way, a
                         \* latest message was taken for the page, or a newer one overtook it
    events

smsVars == <<latest, queries, requests, batches, store, cut, events>>
vars == <<linkVars, smsVars>>

Unknown == -1
Newest(dates) == FoldSet(LAMBDA a, b : IF a > b THEN a ELSE b, 0, dates)
Oldest(dates) == CHOOSE d \in dates : \A x \in dates : d <= x

Init ==
    /\ LinkInit
    /\ latest \in 1..MaxMessages
    /\ queries = <<>> /\ requests = <<>> /\ batches = <<>>
    /\ store = {} /\ cut = FALSE /\ events = 0
-----------------------------------------------------------------------------
Messages(dates, page) == <<[kind |-> "messages", dates |-> dates, page |-> page]>>

(* The phone: a message that comes or is sent there is told at once          *)
NewMessage ==
    /\ events < MaxEvents /\ events' = events + 1
    /\ latest < MaxMessages /\ latest' = latest + 1 /\ Room("there")
    /\ Queue("there", Messages({latest'}, FALSE))
    /\ UNCHANGED <<link, available, queries, requests, batches, store, cut>>

(* ... it tells the latest, or a page of those up to a date                   *)
PhoneHandles ==
    LET p == Head(wire["there"])
        page == {d \in 1..p.end : d > p.end - MaxResults}
    IN  /\ Arrived("there")
        /\ Handled("there", IF p.kind = "conversations" THEN Messages({latest}, FALSE)
                                                        ELSE Messages(page, TRUE))
        /\ UNCHANGED <<link, available, smsVars>>
-----------------------------------------------------------------------------
RequestConversations == <<[kind |-> "conversations"]>>
RequestConversation(end) == <<[kind |-> "conversation", end |-> end]>>

(* valent_sms_device_add_json()                                              *)
AddJson(dates) == batches' = Append(batches, [dates |-> dates, cancelled |-> FALSE])

(* sync_action()                                                             *)
SyncAction ==
    /\ available["here"] /\ events < MaxEvents /\ events' = events + 1 /\ Room("here")
    /\ Queue("here", RequestConversations)
    /\ UNCHANGED <<link, available, latest, queries, requests, batches, store, cut>>

(* Mutant: off by one.                                                       *)
FullPageMore(dates) == Cardinality(dates) > MaxResults

(* The page was full: there may be more messages between it and the store     *)
FullPage(dates) == Cardinality(dates) >= MaxResults

(* valent_sms_device_handle_messages(): any packet that ends where the request *)
(* ends counts as its answer                                                   *)
HandleMessages ==
    LET p == Head(wire["here"])
        start == Oldest(p.dates)
        end == Newest(p.dates)
        request == Head(requests)
    IN  /\ Arrived("here")
        /\ IF requests # <<>>
             THEN /\ IF request.end # end
                       THEN Handled("here", <<>>) /\ UNCHANGED requests
                     ELSE IF FullPage(p.dates) /\ request.start < start
                       THEN /\ requests' = [requests EXCEPT ![1].end = start]
                            /\ Handled("here", RequestConversation(start))
                     ELSE Handled("here", <<>>) /\ requests' = Tail(requests)
                  /\ AddJson(p.dates) /\ UNCHANGED queries
             ELSE /\ Handled("here", <<>>)
                  /\ queries' = IF Cardinality(p.dates) = 1
                                  THEN Append(queries, [end |-> end, cache |-> Unknown]) ELSE queries
                  /\ UNCHANGED <<requests, batches>>
        /\ cut' = (cut \/ (/\ requests # <<>>
                             /\ \/ request.end = end /\ ~p.page
                                \/ \E q \in ToSet(queries) : q.end < end))
        /\ UNCHANGED <<link, available, latest, store, events>>

(* The database runs a query, or applies an update unless it was cancelled    *)
QueryRuns ==
    /\ \E i \in DOMAIN queries :
         /\ queries[i].cache = Unknown
         /\ \A j \in 1..(i - 1) : queries[j].cache # Unknown
         /\ queries' = [queries EXCEPT ![i].cache = Newest(store)]
    /\ UNCHANGED <<linkVars, latest, requests, batches, store, cut, events>>

UpdateRuns ==
    /\ batches # <<>> /\ batches' = Tail(batches)
    /\ \/ store' = store \cup Head(batches).dates
       \/ Head(batches).cancelled /\ UNCHANGED store
    /\ UNCHANGED <<linkVars, latest, queries, requests, cut, events>>

(* valent_sms_device_get_timestamp_cb(): a message is not stored if the database *)
(* got a newer one since                                                       *)
GetTimestampCallback ==
    LET q == Head(queries)
    IN  /\ queries # <<>> /\ q.cache # Unknown
        /\ queries' = Tail(queries)
        /\ IF q.cache < q.end
             THEN /\ AddJson({q.end})
                  /\ Queue("here", RequestConversation(q.end))
                  /\ requests' = Append(requests, [start |-> q.cache, end |-> q.end])
             ELSE UNCHANGED <<wire, requests, batches>>
        /\ UNCHANGED <<link, available, latest, store, cut, events>>

(* on_device_state_changed(): the cancellable is renewed, and with it the      *)
(* queries and the updates are given up, not the requests                      *)
Appear(e) ==
    /\ Appears(e, IF e = "here" THEN RequestConversations ELSE <<>>)
    /\ UNCHANGED smsVars

Lose(e) ==
    /\ Loses(e)
    /\ IF e = "here"
         THEN /\ queries' = <<>>
              /\ batches' = [i \in DOMAIN batches |-> [batches[i] EXCEPT !.cancelled = TRUE]]
              /\ cut' = (cut \/ requests # <<>> \/ batches # <<>>)
         ELSE UNCHANGED <<queries, batches, cut>>
    /\ UNCHANGED <<latest, requests, store, events>>

(* valent_sms_plugin_update_state() disables the actions                      *)
Vanish(e) == Vanishes(e) /\ UNCHANGED smsVars

Link == (Connects \/ Breaks \/ Unpairs) /\ UNCHANGED smsVars

Next ==
    \/ NewMessage \/ PhoneHandles \/ SyncAction \/ HandleMessages
    \/ QueryRuns \/ UpdateRuns \/ GetTimestampCallback
    \/ \E e \in End : Appear(e) \/ Lose(e) \/ Vanish(e)
    \/ Link

Spec == Init /\ [][Next]_vars
-----------------------------------------------------------------------------
Idle == queries = <<>> /\ batches = <<>>

(* However many messages came while the devices were apart, and whatever comes  *)
(* while they are fetched, once nothing is on the way the database has the      *)
(* whole thread.  The exceptions are what "cut" names, and an earlier request    *)
(* that was never answered and keeps the next gap from being looked for.         *)
ThreadIsComplete == Settled /\ Idle /\ requests = <<>> /\ ~cut => store = 1..latest
=============================================================================
