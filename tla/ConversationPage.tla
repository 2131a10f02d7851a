-------------------------- MODULE ConversationPage --------------------------
(***************************************************************************)
(* The page of one thread of messages: a list box with the end of the      *)
(* thread, which grows upwards by a few rows when the user scrolls, follows*)
(* the thread as messages come, and has a row of its own for each message  *)
(* that was sent until the phone reports it as a message of the thread.    *)
(* Messages are never removed: nothing in the program does.                *)
(***************************************************************************)
EXTENDS Integers, Sequences, SequencesExt, FiniteSetsExt

CONSTANTS
    MaxDate,             \* messages are dated 1..MaxDate
    Text,                \* what a user types, "" if nothing
    MaxFiles,            \* bounds the files that are attached
    PageSize,            \* rows that are added at a time
    MaxSent,             \* bounds the messages that are sent
    None

VARIABLES
    thread,              \* the ValentMessageThread: messages in the order of their dates
    loaded,              \* its query has ended
    rows,                \* rows of message_list, those in outbox with the date 0
    top, bottom,         \* position_top and position_bottom, of the thread
    populateId,          \* an idle source will add rows
    entry,               \* message_entry and attachments
    sending,             \* messages whose callback is to come: what the packet has,
                         \* what the message has, whether its attachments are the entry's
    phone,               \* messages the phone has sent and not reported yet
    sent,                \* the messages whose callback said they were written
    hidden,              \* a message came that the window of rows does not follow
    stale                \* a sent message came when its row was not looked for

vars == <<thread, loaded, rows, top, bottom, populateId, entry, sending, phone, sent, hidden,
          stale>>

pageVars == <<rows, top, bottom, populateId>>
entryVars == <<entry, sending, sent>>

Message(date, content) == [date |-> date, content |-> content]
Outbox(content) == Message(0, content)
Content == [text : Text, files : 0..MaxFiles]
Empty == [text |-> "", files |-> 0]
Dates == {thread[i].date : i \in DOMAIN thread}
Count(s, Test(_)) == Cardinality({i \in DOMAIN s : Test(s[i])})

Init ==
    /\ thread = <<>> /\ loaded = FALSE
    /\ rows = <<>> /\ top = 0 /\ bottom = 0 /\ populateId = FALSE
    /\ entry = Empty /\ sending = <<>> /\ phone = <<>> /\ sent = <<>>
    /\ hidden = FALSE /\ stale = FALSE
-----------------------------------------------------------------------------
(* The rows of the thread that are shown                                   *)
Visible == SelectSeq(rows, LAMBDA m : m.date # 0)

(* The rows once the one that waits for such a message was removed: the    *)
(* table has no order, so it is any of them                                *)
ClearOutbox(message) ==
    LET same == {i \in DOMAIN rows : rows[i] = Outbox(message.content)}
    IN  IF message.content = None \/ same = {} THEN {rows}
        ELSE {RemoveAt(rows, i) : i \in same}

Insert(list, position, message) ==
    IF position >= Len(list) THEN Append(list, message)
    ELSE InsertAt(list, position + 1, message)

(* on_thread_items_changed() for messages that were added to the thread;   *)
(* a thread that has no rows yet gets them from the idle source            *)
ItemsChanged(position, added) ==
    IF top = bottom /\ added # <<>>
    THEN /\ populateId' = TRUE
         /\ hidden' = (hidden \/ Visible # <<>>)
         /\ stale' = (stale \/ \E i \in DOMAIN added : added[i].content # None)
         /\ UNCHANGED <<rows, top, bottom>>
    ELSE /\ top' = IF position <= top THEN position ELSE top
         /\ bottom' = IF position >= bottom THEN position ELSE bottom
         /\ IF added # <<>> /\ position >= top
            THEN \E cleared \in IF position >= bottom THEN ClearOutbox(added[1]) ELSE {rows} :
                    rows' = Insert(cleared, position - top, added[1])
            ELSE UNCHANGED rows
         /\ hidden' = (hidden \/ (added # <<>> /\ position < top))
         /\ stale' = (stale \/ (position < bottom /\ \E i \in DOMAIN added : added[i].content # None))
         /\ UNCHANGED populateId

(* The query of valent_conversation_page_load() ends                       *)
ThreadLoads(n) ==
    /\ ~loaded /\ loaded' = TRUE
    /\ thread' = [i \in 1..n |-> Message(i, None)]
    /\ ItemsChanged(0, thread')
    /\ UNCHANGED <<entryVars, phone>>

Added(message) ==
    LET position == Cardinality({i \in DOMAIN thread : thread[i].date < message.date})
    IN  /\ thread' = InsertAt(thread, position + 1, message)
        /\ ItemsChanged(position, <<message>>)

(* A message of another participant                                        *)
MessageArrives(d) ==
    /\ loaded /\ d \notin Dates
    /\ Added(Message(d, None))
    /\ UNCHANGED <<loaded, entryVars, phone>>

(* The phone reports a message that it has sent; one that is reported before *)
(* the device called back has no row yet                                   *)
Reported(d) ==
    /\ loaded /\ d \notin Dates /\ phone # <<>>
    /\ phone' = Tail(phone)
    /\ Added(Message(d, Head(phone)))
    /\ UNCHANGED <<loaded, entryVars>>
-----------------------------------------------------------------------------
(* Rows                                                                     *)

(* valent_conversation_page_pop_tail(), count times                        *)
PopTail(first, count) ==
    /\ rows' = SubSeq(thread, first - count + 1, first) \o rows
    /\ top' = first - count

PopulateReverse(count) ==
    LET n == Len(thread)
        first == IF bottom = top THEN n ELSE top
    IN  IF n = 0 THEN UNCHANGED <<rows, top, bottom, hidden>>
        ELSE /\ bottom' = IF bottom = top THEN n - 1 ELSE bottom
             /\ PopTail(first, IF first < count THEN first ELSE count)
             /\ hidden' = (hidden \/ (bottom = top /\ Visible # <<>>))

Populate ==
    /\ populateId /\ populateId' = FALSE
    /\ PopulateReverse(PageSize)
    /\ UNCHANGED <<thread, loaded, entryVars, phone, stale>>

(* The user scrolls to where there are less than two pages above; not in a *)
(* list that lost track, which may grow for ever (a bound)                 *)
OnScrollValueChanged ==
    /\ ~populateId /\ populateId' = TRUE
    /\ Len(rows) > 1 /\ ~hidden
    /\ UNCHANGED <<thread, loaded, rows, top, bottom, entryVars, phone, hidden, stale>>

(* Rows are added until one is as old as the date                          *)
ScrollToDate(date) ==
    LET newer == {i \in 1..top : thread[i].date > date}
        count == IF \E i \in 1..top : thread[i].date <= date
                 THEN Cardinality(newer) + 1 ELSE top
    IN  /\ loaded /\ count > 0
        /\ ~\E i \in DOMAIN Visible : Visible[i].date <= date
        /\ PopTail(top, count)
        /\ UNCHANGED <<thread, loaded, bottom, populateId, entryVars, phone, hidden, stale>>
-----------------------------------------------------------------------------
(* The entry                                                                *)

Edit(text) ==
    /\ entry.text # text /\ entry' = [entry EXCEPT !.text = text]
    /\ UNCHANGED <<thread, loaded, pageVars, sending, sent, phone, hidden, stale>>

(* gtk_file_dialog_open_multiple_cb(): the list of attachments is that of    *)
(* the messages that were sent since it was made                             *)
Attach ==
    /\ entry.files < MaxFiles
    /\ entry' = [entry EXCEPT !.files = @ + 1]
    /\ sending' = [i \in DOMAIN sending |->
                      IF sending[i].shares THEN [sending[i] EXCEPT !.message.files = @ + 1]
                      ELSE sending[i]]
    /\ UNCHANGED <<thread, loaded, pageVars, sent, phone, hidden, stale>>

(* The entry keeps what it has until the message is written                  *)
SendMessage ==
    /\ entry # Empty /\ Len(sent) + Len(sending) < MaxSent
    /\ sending' = Append(sending, [content |-> entry, message |-> entry,
                                   shares |-> entry.files > 0, written |-> FALSE])
    /\ UNCHANGED <<thread, loaded, pageVars, entry, sent, phone, hidden, stale>>

(* The packet is written, and the phone sends the message                  *)
Written ==
    /\ \E i \in DOMAIN sending :
         /\ ~sending[i].written /\ \A j \in 1..(i - 1) : sending[j].written
         /\ sending' = [sending EXCEPT ![i].written = TRUE]
         /\ phone' = Append(phone, sending[i].content)
    /\ UNCHANGED <<thread, loaded, pageVars, entry, sent, hidden, stale>>

SendMessageCallback ==
    /\ sending # <<>>
    /\ LET call == Head(sending)
       IN  IF call.written
           THEN /\ rows' = Append(rows, Outbox(call.message))
                /\ sent' = Append(sent, call.message)
                /\ entry' = Empty
                /\ sending' = [i \in DOMAIN Tail(sending) |->
                                  [Tail(sending)[i] EXCEPT !.shares = FALSE]]
                /\ stale' = \/ stale \/ call.message # call.content
                            \/ Count(thread, LAMBDA m : m.content = call.content)
                                 > Count(sent, LAMBDA c : c = call.content)
           ELSE sending' = Tail(sending) /\ UNCHANGED <<rows, sent, entry, stale>>
    /\ UNCHANGED <<thread, loaded, top, bottom, populateId, phone, hidden>>

Next ==
    \/ \E n \in 0..(MaxDate - 1) : ThreadLoads(n)
    \/ \E d \in 1..MaxDate : MessageArrives(d) \/ Reported(d) \/ ScrollToDate(d)
    \/ Populate \/ OnScrollValueChanged
    \/ \E text \in Text : Edit(text)
    \/ Attach \/ SendMessage \/ Written \/ SendMessageCallback

Spec == Init /\ [][Next]_vars
-----------------------------------------------------------------------------

(* The list shows the end of the thread, from the top of the window on, each *)
(* message once and in its place, however idle sources, scrolling and        *)
(* messages that come late cross.  Two cases are excepted, where the code    *)
(* loses track: a message older than the window, and a second message of a   *)
(* thread that had one (valent-conversation-page.c:493-567).                 *)
RowsAreThread ==
    ~hidden => \/ Visible = SubSeq(thread, top + 1, Len(thread))
               \/ Visible = <<>> /\ populateId /\ top = bottom

(* What was sent is in the list, as a row that waits for the phone or as the *)
(* message of the thread that the phone made of it, unless that is above the *)
(* window.                                                                   *)
SentIsShown ==
    \A content \in Content :
        Count(sent, LAMBDA c : c = content)
          <= Count(rows, LAMBDA m : m = Outbox(content)) + Count(thread, LAMBDA m : m.content = content)

(* ... but not as both, once everything was reported.  The exceptions are a  *)
(* message that is reported before the callback of its own, or with a date   *)
(* before the newest, or while the thread has no rows; and one that has got  *)
(* another attachment since it was sent, as its list is still the entry's.   *)
SentIsShownOnce ==
    ~stale /\ sending = <<>> /\ phone = <<>> => Visible = rows
=============================================================================
