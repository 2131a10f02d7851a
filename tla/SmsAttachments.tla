--------------------------- MODULE SmsAttachments ---------------------------
(***************************************************************************)
(* The attachments of the messages that ValentSmsDevice "here" adds: those *)
(* that are not in the cache are asked of the phone "there" one at a time, *)
(* and a file that comes is recorded for the attachment at the head of the *)
(* queue.                                                                  *)
(***************************************************************************)
EXTENDS PluginLink

CONSTANTS
    Attachment,
    MaxQueued            \* bounds the attachments of the messages that are added

VARIABLES
    queue,               \* attachment_requests
    checking,            \* the cancelled flags of the queries for the head in the cache
    transfers,           \* files under way: the attachment, and whether it was cancelled
    recording,           \* the files recorded in the database: attachment, file
    recorded,
    cache,               \* the files in the cache
    cut,                 \* the device went away with the queue at work
    queued

attachmentVars == <<queue, checking, transfers, recording, recorded, cache, cut, queued>>
vars == <<linkVars, attachmentVars>>

Init ==
    /\ LinkInit
    /\ queue = <<>> /\ checking = <<>> /\ transfers = {}
    /\ recording = {} /\ recorded = {}
    /\ cache \in SUBSET Attachment
    /\ cut = FALSE /\ queued = 0
-----------------------------------------------------------------------------
(* attachment_request_next(): of the queue as it is then                      *)
AttachmentRequestNext(requests) ==
    /\ queue' = requests
    /\ checking' = IF requests = <<>> THEN checking ELSE Append(checking, FALSE)

(* attachment_request_queue(), of a message that is added                     *)
AttachmentRequestQueue(a) ==
    /\ queued < MaxQueued /\ queued' = queued + 1 /\ Connected("here")
    /\ IF queue = <<>>
         THEN AttachmentRequestNext(<<a>>)
         ELSE queue' = Append(queue, a) /\ UNCHANGED checking
    /\ UNCHANGED <<linkVars, transfers, recording, recorded, cache, cut>>

(* attachment_request_next_cb()                                              *)
AttachmentRequestNextCallback ==
    /\ checking # <<>>
    /\ IF Head(checking) THEN UNCHANGED <<queue, wire>> /\ checking' = Tail(checking)
       ELSE IF Head(queue) \in cache
         THEN /\ queue' = Tail(queue) /\ UNCHANGED wire
              /\ checking' = IF Len(queue) = 1 THEN Tail(checking) ELSE Append(Tail(checking), FALSE)
       ELSE /\ Queue("here", <<[kind |-> "request", id |-> Head(queue)]>>)
            /\ checking' = Tail(checking) /\ UNCHANGED queue
    /\ cut' = (cut \/ Head(checking) \/ ~CanSend("here"))
    /\ UNCHANGED <<link, available, transfers, recording, recorded, cache, queued>>

(* The phone has the attachment                                              *)
PhoneHandles ==
    LET p == Head(wire["there"])
    IN  /\ Arrived("there") /\ Handled("there", <<[kind |-> "file", id |-> p.id]>>)
        /\ UNCHANGED <<link, available, attachmentVars>>

(* valent_sms_device_handle_attachment_file()                                *)
HandleAttachmentFile ==
    /\ Arrived("here") /\ Handled("here", <<>>)
    /\ transfers' = transfers \cup {[id |-> Head(wire["here"]).id, cancelled |-> FALSE]}
    /\ UNCHANGED <<link, available, queue, checking, recording, recorded, cache, cut, queued>>

(* handle_attachment_file_cb(): the transfer was cancelled, failed, or is done  *)
TransferEnds(t) ==
    /\ t \in transfers /\ transfers' = transfers \ {t}
    /\ \/ t.cancelled /\ UNCHANGED <<queue, checking, cache, recording>>
       \/ /\ queue # <<>> /\ AttachmentRequestNext(Tail(queue))
          /\ UNCHANGED <<cache, recording>>
       \/ /\ queue # <<>> /\ AttachmentRequestNext(Tail(queue))
          /\ cache' = cache \cup {t.id}
          /\ recording' = recording \cup {[attachment |-> Head(queue), file |-> t.id]}
    /\ cut' = (cut \/ t.cancelled)
    /\ UNCHANGED <<linkVars, recorded, queued>>

(* attachment_request_query_cb(), update_attachment_cb(): either may fail      *)
AttachmentRecorded(r) ==
    /\ r \in recording /\ recording' = recording \ {r}
    /\ \/ recorded' = recorded \cup {r}
       \/ UNCHANGED recorded
    /\ UNCHANGED <<linkVars, queue, checking, transfers, cache, cut, queued>>

(* on_device_state_changed()                                                 *)
Appear(e) == Appears(e, <<>>) /\ UNCHANGED attachmentVars

Lose(e) ==
    /\ Loses(e)
    /\ IF e = "here"
         THEN /\ checking' = [i \in DOMAIN checking |-> TRUE]
              /\ transfers' = {[t EXCEPT !.cancelled = TRUE] : t \in transfers}
              /\ cut' = (cut \/ queue # <<>>)
         ELSE UNCHANGED <<checking, transfers, cut>>
    /\ UNCHANGED <<queue, recording, recorded, cache, queued>>

Vanish(e) == Vanishes(e) /\ UNCHANGED attachmentVars

Link == (Connects \/ Breaks \/ Unpairs) /\ UNCHANGED attachmentVars

Next ==
    \/ \E a \in Attachment : AttachmentRequestQueue(a)
    \/ AttachmentRequestNextCallback \/ PhoneHandles \/ HandleAttachmentFile
    \/ \E t \in transfers : TransferEnds(t)
    \/ \E r \in recording : AttachmentRecorded(r)
    \/ \E e \in End : Appear(e) \/ Lose(e) \/ Vanish(e)
    \/ Link

Spec == Init /\ [][Next]_vars
-----------------------------------------------------------------------------
(* A file is recorded for the attachment it is of: the head of the queue has     *)
(* not changed since the file was asked for, whatever was cut or failed.         *)
FileIsOfAttachment == \A r \in recording \cup recorded : r.attachment = r.file

(* Unless the device went away with the queue at work, no request is left over   *)
(* once nothing is on the way.                                                   *)
QueueIsWorked ==
    Settled /\ checking = <<>> /\ transfers = {} /\ ~cut => queue = <<>>
=============================================================================
