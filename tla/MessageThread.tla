--------------------------- MODULE MessageThread ---------------------------
(***************************************************************************)
(* A ValentMessagesAdapter with one thread in its database, and the list   *)
(* of messages a user sees of it.  Both follow the notifier of the         *)
(* database, whose queries end in their own time.  A message is its date   *)
(* and has some attachments.                                               *)
(***************************************************************************)
EXTENDS Integers, Sequences, SequencesExt, FiniteSetsExt

CONSTANTS
    MaxDate, MaxBatches,
    MaxAttachments       \* of one message

VARIABLES
    rank,                \* how the names of the messages collate
    store,               \* messages in the database
    notices,             \* notifier events on the way: new messages, whether the thread is new
    searches,            \* queries for threads under way: for all or one, what they found
    entries,             \* the threads of the adapter
    view,                \* the thread a user looks at, or none
    excused,             \* an event came before the thread it is about was there, or
                         \* its last name was not of its newest message
    batches

vars == <<rank, store, notices, searches, entries, view, excused, batches>>

Date == 1..MaxDate
Unknown == -1
Attachments(d) == 1..(d % (MaxAttachments + 1))
Newest(dates) == FoldSet(LAMBDA a, b : IF a > b THEN a ELSE b, 0, dates)

(* Tracker has a row for each attachment of a message, and one for a message       *)
(* without any; the rows of a message are next to each other                      *)
Rows(d) ==
    IF Attachments(d) = {} THEN <<[date |-> d, attachments |-> {}]>>
    ELSE [i \in Attachments(d) |-> [date |-> d, attachments |-> {i}]]

(* valent_message_from_sparql_cursor(): a row of the message that was read last   *)
(* adds its attachment to it, any other is a message of its own                   *)
FromCursor(messages, row) ==
    IF messages = <<>> \/ Last(messages).date # row.date THEN Append(messages, row)
    ELSE [messages EXCEPT ![Len(messages)].attachments = @ \cup row.attachments]
ReadAll(rows) == FoldLeft(FromCursor, <<>>, rows)

(* The statements of valent_messages_adapter_load_threads() and _load_thread()     *)
Search(kind) == [kind |-> kind, latest |-> Unknown]

(* A ValentMessageThread: its latest message, whether it was loaded, the query   *)
(* of all its messages, those of one, and its items                              *)
Thread(latest) ==
    [latest |-> latest, loaded |-> FALSE, query |-> FALSE, loads |-> {}, items |-> <<>>]
NoThread == [Thread(0) EXCEPT !.latest = Unknown]

Init ==
    /\ rank \in {r \in [Date -> Date] : \A d, e \in Date : r[d] = r[e] => d = e}
    /\ store \in {{}, {1}}
    /\ notices = <<>> /\ searches = <<Search("all")>> /\ entries = <<>>
    /\ view = NoThread /\ excused = FALSE /\ batches = 0
-----------------------------------------------------------------------------
(* A batch of ValentSmsDevice is committed                                    *)
Commit(dates) ==
    /\ batches < MaxBatches /\ batches' = batches + 1
    /\ dates # {} /\ dates \cap store = {}
    /\ store' = store \cup dates
    /\ notices' = Append(notices, [dates |-> dates, new |-> store = {}])
    /\ UNCHANGED <<rank, searches, entries, view, excused>>

(* The thread's on_notifier_event(): what is not loaded reads only the message  *)
(* whose name collates last                                                    *)
LastName(dates) == CHOOSE d \in dates : \A e \in dates : rank[e] <= rank[d]
Notified(t, dates) ==
    [t EXCEPT !.loads = @ \cup IF t.loaded THEN dates ELSE {LastName(dates)}]

(* ... and the adapter's, which reads a new thread                             *)
NotifierEvent ==
    LET n == Head(notices)
    IN  /\ notices # <<>> /\ notices' = Tail(notices)
        /\ entries' = [i \in DOMAIN entries |-> Notified(entries[i], n.dates)]
        /\ view' = IF view = NoThread THEN view ELSE Notified(view, n.dates)
        /\ searches' = IF n.new THEN Append(searches, Search("one")) ELSE searches
        /\ excused' = (excused \/ searches # <<>> \/ LastName(n.dates) # Newest(n.dates))
        /\ UNCHANGED <<rank, store, batches>>

(* execute_get_threads_cb(), execute_get_thread_cb(): the database reads the      *)
(* newest message of the thread, and the callback adds it                         *)
SearchRuns ==
    /\ \E i \in DOMAIN searches :
         /\ searches[i].latest = Unknown /\ \A j \in 1..(i - 1) : searches[j].latest # Unknown
         /\ searches' = [searches EXCEPT ![i].latest = Newest(store)]
    /\ UNCHANGED <<rank, store, notices, entries, view, excused, batches>>

(* valent_message_thread_from_sparql_cursor(): the latest message is without its   *)
(* attachments, for which the statements do not ask                               *)
ThreadFromCursor(search) == Thread(search.latest)

(* valent_messages_adapter_load_thread_cb(): whether or not it is listed           *)
Listed(search) == Append(entries, ThreadFromCursor(search))

(* cursor_get_threads_cb(): a row for each thread, none if there is no message     *)
ThreadsLoaded ==
    /\ searches # <<>> /\ Head(searches).latest # Unknown /\ Head(searches).kind = "all"
    /\ searches' = Tail(searches)
    /\ entries' = IF Head(searches).latest = 0 THEN entries ELSE Listed(Head(searches))
    /\ UNCHANGED <<rank, store, notices, view, excused, batches>>

(* execute_get_thread_cb(), cursor_get_thread_cb(): the row of one thread          *)
ThreadLoaded ==
    /\ searches # <<>> /\ Head(searches).latest # Unknown /\ Head(searches).kind = "one"
    /\ searches' = Tail(searches)
    /\ entries' = Listed(Head(searches))
    /\ UNCHANGED <<rank, store, notices, view, excused, batches>>

(* valent_messages_adapter_get_item() returns a thread like the one it has      *)
GetThread(i) ==
    /\ view = NoThread /\ view' = Thread(entries[i].latest)
    /\ excused' = (excused \/ entries[i].loads # {})
    /\ UNCHANGED <<rank, store, notices, searches, entries, batches>>

(* valent_message_thread_get_n_items()                                        *)
GetNItems ==
    /\ view # NoThread /\ ~view.loaded
    /\ view' = [view EXCEPT !.loaded = TRUE, !.query = TRUE]
    /\ UNCHANGED <<rank, store, notices, searches, entries, excused, batches>>

(* cursor_get_messages_cb(), valent_message_thread_load_cb(): sorted by date     *)
InOrder(dates) == SetToSortSeq(dates, LAMBDA d, e : d < e)
MessagesLoaded ==
    /\ view.query
    /\ view' = [view EXCEPT !.query = FALSE,
                            !.items = @ \o ReadAll(FlattenSeq(
                                [i \in DOMAIN InOrder(store) |-> Rows(InOrder(store)[i])]))]
    /\ UNCHANGED <<rank, store, notices, searches, entries, excused, batches>>

(* valent_message_thread_load_message_cb()                                    *)
InsertSorted(items, m) ==
    LET n == Cardinality({i \in DOMAIN items : items[i].date <= m.date})
    IN  InsertAt(items, n + 1, m)
MessageLoaded(t, d) ==
    [t EXCEPT !.loads = @ \ {d},
              !.latest = IF d > @ THEN d ELSE @,
              !.items = IF t.loaded THEN InsertSorted(@, ReadAll(Rows(d))[1]) ELSE @]
LoadMessage ==
    /\ \/ /\ \E d \in view.loads : view' = MessageLoaded(view, d)
          /\ UNCHANGED entries
       \/ /\ \E i \in DOMAIN entries : \E d \in entries[i].loads :
               entries' = [entries EXCEPT ![i] = MessageLoaded(@, d)]
          /\ UNCHANGED view
    /\ UNCHANGED <<rank, store, notices, searches, excused, batches>>

Next ==
    \/ \E dates \in SUBSET Date : Commit(dates)
    \/ NotifierEvent \/ SearchRuns \/ ThreadsLoaded \/ ThreadLoaded
    \/ \E i \in DOMAIN entries : GetThread(i)
    \/ GetNItems \/ MessagesLoaded \/ LoadMessage

Spec == Init /\ [][Next]_vars
-----------------------------------------------------------------------------
Quiet(t) == notices = <<>> /\ searches = <<>> /\ t.loads = {} /\ ~t.query

(* Whichever of the query and the events came first, a thread that was loaded   *)
(* has every message of the database with its attachments once all have come.    *)
MessagesAreListed ==
    view # NoThread /\ view.loaded /\ Quiet(view) =>
      ToSet(view.items) = {[date |-> d, attachments |-> Attachments(d)] : d \in store}

(* ... and every thread tells the newest as its latest message, loaded or not.   *)
(* The exceptions are what "excused" names.                                      *)
LatestIsNewest ==
    \A t \in ToSet(entries) \cup ({view} \ {NoThread}) :
      Quiet(t) /\ ~excused => t.latest = Newest(store)
=============================================================================
