--------------------------- MODULE MessagesWindow ---------------------------
(***************************************************************************)
(* The window of the messages: a search in messages and contacts that      *)
(* starts over whenever its text changes, threads that are looked up for a *)
(* contact, and the pages of the navigation view these open and close.     *)
(* The adapters have the same threads, with ids that are their own.        *)
(***************************************************************************)
EXTENDS Integers, Sequences, SequencesExt

CONSTANTS
    Adapter,             \* the messages adapters the user may choose from
    Paired,              \* those whose device has a contacts adapter too
    Rows,                \* of each text: the message of each row of the query
    Matches,            \* of each text: the contacts that match
    Media,               \* of each contact: its phone numbers
    Participants,        \* of each thread, which is a number: its media
    MaxEvents,           \* bound: what the user does
    None

VARIABLES
    adapter, contacts,   \* messages_adapter, contacts_adapter
    text,                \* of search_entry
    pending,             \* its "search-changed" is yet to come
    search,              \* the search whose cancellable is kept, or 0
    tasks,               \* searches in flight
    results,             \* the rows of search_list
    failed,              \* history: a search for the present text failed
    stack,               \* the pages of content_view, the visible one last
    contactPage,         \* contact_page is set
    searchPage,          \* search_page is set
    dialog,              \* the contact whose media are offered, and by whom
    lookups,             \* lookups of a thread in flight, by adapter
    running,             \* the process is
    events

searchVars == <<text, pending, search, tasks, results, failed>>
pageVars == <<stack, contactPage, searchPage>>
vars == <<adapter, contacts, searchVars, pageVars, dialog, lookups, running, events>>

Texts == DOMAIN Rows
Thread == DOMAIN Participants

Page(kind) == [kind |-> kind, adapter |-> None, thread |-> None, messages |-> None]
Closed == [contact |-> None, by |-> "none"]

Init ==
    /\ adapter \in Adapter /\ contacts = (IF adapter \in Paired THEN adapter ELSE None)
    /\ text = "" /\ pending = FALSE /\ search = 0 /\ tasks = {} /\ results = <<>>
    /\ failed = FALSE
    /\ stack = <<Page("placeholder")>> /\ contactPage = FALSE /\ searchPage = FALSE
    /\ dialog = Closed /\ lookups = <<>> /\ running = TRUE /\ events = 0

Event == running /\ events < MaxEvents /\ events' = events + 1
-----------------------------------------------------------------------------
(* Navigation: AdwNavigationView, with the handlers of its signals           *)

Visible == Last(stack)
IsPage(p, kind) == p.kind = kind
OnStack(kind) == \E i \in DOMAIN stack : IsPage(stack[i], kind)

(* on_page_popped(), for each of the pages that leave; the pointers are      *)
(* those of the window at the time                                           *)
OnPagePopped(gone, c, s) ==
    /\ contactPage' = (c /\ ~ \E i \in DOMAIN gone : IsPage(gone[i], "contacts"))
    /\ searchPage' = (s /\ ~ \E i \in DOMAIN gone : IsPage(gone[i], "search"))

(* adw_navigation_view_push(), on_page_pushed()                              *)
Push(page) ==
    /\ stack' = Append(stack, page)
    /\ contactPage' = (contactPage \/ IsPage(page, "contacts"))
    /\ searchPage' = (searchPage \/ IsPage(page, "search"))

(* The stack after a pop: the first page stays                               *)
Popped(s) == IF Len(s) > 1 THEN Front(s) ELSE s

Pop ==
    /\ stack' = Popped(stack)
    /\ OnPagePopped(SubSeq(stack, Len(stack') + 1, Len(stack)), contactPage, searchPage)

PopTo(s, i) ==
    /\ stack' = SubSeq(s, 1, i)
    /\ OnPagePopped(SubSeq(s, i + 1, Len(s)), contactPage, searchPage)

ThreadPage(t) == [kind |-> "thread", adapter |-> t[1], thread |-> t[2], messages |-> adapter]
IsThread(p, t) == p.kind = "thread" /\ p.adapter = t[1] /\ p.thread = t[2]

(* valent_messages_window_ensure_conversation() of the IRI t, with `before'  *)
(* pops in front of it and `after' behind                                    *)
EnsureConversation(t, before, after) ==
    LET start == IF before THEN Popped(stack) ELSE stack
        found == {i \in DOMAIN start : IsThread(start[i], t)}
        shown == IF found = {} THEN Append(start, ThreadPage(t))
                 ELSE SubSeq(start, 1, CHOOSE i \in found : TRUE)
        end == IF after THEN Popped(shown) ELSE shown
    IN  /\ stack' = end
        /\ OnPagePopped(SelectSeq(stack, LAMBDA p : p \notin ToSet(end)), contactPage, searchPage)
-----------------------------------------------------------------------------
(* Searching                                                                 *)

(* The user types; the signal follows once nothing was typed for a while,    *)
(* but at once when the text is empty                                        *)
Type(q) ==
    /\ Event /\ IsPage(Visible, "search") /\ q # text /\ q # ""
    /\ text' = q /\ pending' = TRUE
    /\ UNCHANGED <<adapter, contacts, search, tasks, results, failed, pageVars, dialog, lookups,
                   running>>

Task(kind, id) == [id |-> id, kind |-> kind, query |-> text, source |->
    IF kind = "messages" THEN adapter ELSE contacts, read |-> 0, items |-> <<>>, done |-> "no"]

(* on_search_changed(), valent_messages_adapter_search() and the one of      *)
(* contacts, which wants an adapter                                          *)
OnSearchChanged(q, id) ==
    /\ search' = (IF q = "" THEN 0 ELSE id)
    /\ tasks' = tasks \cup (IF q = "" THEN {}
                            ELSE {Task("messages", id)}
                                 \cup {Task("contacts", id) : a \in {contacts} \ {None}})
    /\ results' = <<>>

SearchChanged ==
    /\ running /\ pending /\ pending' = FALSE /\ failed' = FALSE
    /\ OnSearchChanged(text, events)
    /\ UNCHANGED <<text, adapter, contacts, pageVars, dialog, lookups, running, events>>

ClearSearch ==
    /\ text' = "" /\ pending' = FALSE /\ failed' = FALSE
    /\ OnSearchChanged("", 0)

EntryClear ==
    /\ Event /\ IsPage(Visible, "search") /\ text # ""
    /\ ClearSearch
    /\ UNCHANGED <<adapter, contacts, pageVars, dialog, lookups, running>>

Cancelled(k) == k.id # search
Found(k) == IF k.kind = "messages" THEN Rows[k.query] ELSE Matches[k.query]

(* cursor_search_messages_cb() with valent_message_from_sparql_cursor(): a   *)
(* row of the message before is another attachment of it                     *)
Item(items, m) ==
    IF items # <<>> /\ Last(items) = m THEN items ELSE Append(items, m)

CursorNext(k) ==
    /\ k.done = "no" /\ ~Cancelled(k) /\ k.read < Len(Found(k))
    /\ LET m == Found(k)[k.read + 1] IN
       tasks' = (tasks \ {k}) \cup
           {[k EXCEPT !.read = @ + 1,
                      !.items = IF k.kind = "messages" THEN Item(@, m) ELSE Append(@, m)]}
    /\ UNCHANGED <<adapter, contacts, text, pending, search, results, failed, pageVars, dialog,
                   lookups, running, events>>

(* The task returns what was read, or the error of a step; a cancelled step  *)
(* is one                                                                    *)
Return(k, outcome) ==
    /\ running /\ k.done = "no"
    /\ CASE outcome = "found" -> ~Cancelled(k) /\ k.read = Len(Found(k)) /\ UNCHANGED events
         [] outcome = "error" -> ~Cancelled(k) /\ Event
         [] outcome = "cancelled" -> Cancelled(k) /\ UNCHANGED events
    /\ tasks' = (tasks \ {k}) \cup {[k EXCEPT !.done = outcome]}
    /\ UNCHANGED <<adapter, contacts, text, pending, search, results, failed, pageVars, dialog,
                   lookups, running>>

Row(k, item) == [kind |-> k.kind, item |-> item, source |-> k.source, query |-> k.query]

(* search_messages_cb(), search_contacts_cb(): a task that was cancelled     *)
(* after it returned has an error too                                        *)
SearchDone(k) ==
    /\ running /\ k.done # "no"
    /\ tasks' = tasks \ {k}
    /\ IF k.done = "found" /\ ~Cancelled(k)
       THEN results' = results \o [i \in DOMAIN k.items |-> Row(k, k.items[i])]
       ELSE UNCHANGED results
    /\ failed' = (failed \/ (k.done = "error" /\ ~Cancelled(k)))
    /\ UNCHANGED <<adapter, contacts, text, pending, search, pageVars, dialog, lookups, running,
                   events>>
-----------------------------------------------------------------------------
(* Threads                                                                   *)

(* valent_messages_adapter_lookup_thread(): the thread whose participants    *)
(* are those                                                                 *)
LookupThread(media) ==
    lookups' = Append(lookups,
        [adapter |-> adapter, thread |->
           IF \E t \in Thread : Participants[t] = media
           THEN CHOOSE t \in Thread : Participants[t] = media ELSE None])

(* lookup_thread_cb()                                                        *)
LookupDone(i) ==
    /\ running
    /\ lookups' = RemoveAt(lookups, i)
    /\ IF lookups[i].thread = None THEN UNCHANGED pageVars
       ELSE EnsureConversation(<<lookups[i].adapter, lookups[i].thread>>, TRUE, FALSE)
    /\ UNCHANGED <<adapter, contacts, searchVars, dialog, running, events>>

(* on_contact_selected() of the contact page and of the window; with more    *)
(* numbers than one it asks which                                            *)
OnContactSelected(c) ==
    /\ Event /\ IsPage(Visible, "contacts") /\ dialog = Closed
    /\ IF \E m \in Media[c] : Media[c] = {m}
       THEN LookupThread(Media[c]) /\ UNCHANGED dialog
       ELSE dialog' = [contact |-> c, by |-> "contacts"] /\ UNCHANGED lookups
    /\ UNCHANGED <<adapter, contacts, searchVars, pageVars, running>>

(* on_contact_medium_selected() of the contact page; that of the window is   *)
(* made for the rows of contacts and asserts that it got one, which no row   *)
(* of its dialog is: it ends the program, or, built without assertions,      *)
(* finds no number to look up                                                *)
OnContactMediumSelected(m) ==
    /\ Event /\ dialog # Closed /\ m \in Media[dialog.contact]
    /\ dialog' = Closed
    /\ IF dialog.by = "contacts"
       THEN LookupThread({m}) /\ UNCHANGED running
       ELSE running' \in BOOLEAN /\ UNCHANGED lookups
    /\ UNCHANGED <<adapter, contacts, searchVars, pageVars>>

DialogClosed ==
    /\ running /\ dialog # Closed /\ dialog' = Closed
    /\ UNCHANGED <<adapter, contacts, searchVars, pageVars, lookups, running, events>>

(* on_search_selected(): the page of the message is shown, and then the      *)
(* visible page is popped                                                    *)
OnMessageSelected(r) ==
    /\ Event /\ IsPage(Visible, "search") /\ dialog = Closed
    /\ r.kind = "messages"
    /\ EnsureConversation(<<adapter, r.item>>, FALSE, TRUE)
    /\ ClearSearch
    /\ UNCHANGED <<adapter, contacts, dialog, lookups, running>>

OnSearchContactSelected(r) ==
    /\ Event /\ IsPage(Visible, "search") /\ dialog = Closed
    /\ r.kind = "contacts"
    /\ IF \E m \in Media[r.item] : Media[r.item] = {m}
       THEN LookupThread(Media[r.item]) /\ Pop /\ ClearSearch /\ UNCHANGED dialog
       ELSE dialog' = [contact |-> r.item, by |-> "search"] /\ UNCHANGED <<lookups, pageVars, searchVars>>
    /\ UNCHANGED <<adapter, contacts, running>>

(* on_conversation_activated()                                               *)
OnConversationActivated(t) ==
    /\ Event /\ dialog = Closed
    /\ EnsureConversation(<<adapter, t>>, FALSE, FALSE)
    /\ UNCHANGED <<adapter, contacts, searchVars, dialog, lookups, running>>

(* on_selected_item(): the contacts of the same device, if it has any        *)
OnSelectedItem(a) ==
    /\ Event /\ a # adapter /\ dialog = Closed
    /\ adapter' = a
    /\ contacts' = (IF a \in Paired THEN a ELSE contacts)
    /\ UNCHANGED <<searchVars, pageVars, dialog, lookups, running>>

(* sms_new_action(), sms_search_action()                                     *)
ShowPage(kind, set) ==
    /\ Event /\ dialog = Closed
    /\ IF set THEN OnStack(kind) /\ PopTo(stack, CHOOSE i \in DOMAIN stack : IsPage(stack[i], kind))
       ELSE Push(Page(kind))
    /\ UNCHANGED <<adapter, contacts, searchVars, dialog, lookups, running>>
SmsNewAction == ShowPage("contacts", contactPage)
SmsSearchAction == ShowPage("search", searchPage)

(* The user goes back                                                        *)
Back ==
    /\ Event /\ Len(stack) > 1 /\ dialog = Closed
    /\ Pop
    /\ UNCHANGED <<adapter, contacts, searchVars, dialog, lookups, running>>

Next ==
    \/ \E q \in Texts : Type(q)
    \/ SearchChanged \/ EntryClear
    \/ \E k \in tasks :
          \/ CursorNext(k) \/ SearchDone(k)
          \/ \E outcome \in {"found", "error", "cancelled"} : Return(k, outcome)
    \/ \E i \in DOMAIN lookups : LookupDone(i)
    \/ \E c \in DOMAIN Media : OnContactSelected(c)
    \/ \E m \in UNION {Media[c] : c \in DOMAIN Media} : OnContactMediumSelected(m)
    \/ DialogClosed
    \/ \E i \in DOMAIN results : OnMessageSelected(results[i]) \/ OnSearchContactSelected(results[i])
    \/ \E t \in Thread : OnConversationActivated(t)
    \/ \E a \in Adapter : OnSelectedItem(a)
    \/ SmsNewAction \/ SmsSearchAction \/ Back

Spec == Init /\ [][Next]_vars
-----------------------------------------------------------------------------

(* The list has what was found for the text of the entry and nothing of an   *)
(* earlier one: each message and each contact once, whatever was cancelled   *)
(* while its rows were read, returned or waiting for its callback, and all   *)
(* of them once the searches are over (on_search_changed(),                  *)
(* valent-messages-window.c:263-292).                                        *)
SearchIsCurrent ==
    ~pending =>
        /\ \A i, j \in DOMAIN results :
              /\ results[i].query = text
              /\ results[i] = results[j] => i = j
        /\ text # "" /\ tasks = {} /\ ~failed =>
              {results[i].item : i \in {j \in DOMAIN results : results[j].kind = "messages"}}
                 = ToSet(Rows[text])

(* The window knows the pages that are there: one of contacts and one of the *)
(* search at most, none of a thread twice, and the field of a page is set    *)
(* exactly as long as it is among those of the view, so that popping to it   *)
(* is possible (valent-messages-window.c:675-735, :552-575).                 *)
PagesAgree ==
    /\ contactPage <=> OnStack("contacts")
    /\ searchPage <=> OnStack("search")
    /\ \A i, j \in DOMAIN stack :
          /\ stack[i].kind = stack[j].kind /\ stack[i].kind # "thread" => i = j
          /\ i # j /\ stack[i].kind = "thread" =>
                ~IsThread(stack[j], <<stack[i].adapter, stack[i].thread>>)

(* Not so: a thread that was looked up in one adapter is shown with the      *)
(* messages of another, if the user chose that one meanwhile.                *)
PagesAreOfTheirAdapter ==
    \A i \in DOMAIN stack : stack[i].kind = "thread" => stack[i].messages = stack[i].adapter

(* Not so: a message that was selected in the search is not shown, since the *)
(* page of its thread is popped again at once.                               *)
SelectedIsShown ==
    [][\A i \in DOMAIN results : OnMessageSelected(results[i]) =>
          IsThread(Last(stack'), <<adapter, results[i].item>>)]_vars
=============================================================================
