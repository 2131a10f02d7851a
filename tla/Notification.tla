---------------------------- MODULE Notification ----------------------------
(***************************************************************************)
(* The notification plugin: "here" shows the notifications of the phone    *)
(* "there", some after it downloaded their icon, and forwards those of the *)
(* desktop, some by uploading their icon.  A notification of the phone is  *)
(* its id and the version of its text.                                     *)
(***************************************************************************)
EXTENDS PluginLink

CONSTANTS
    Id,                  \* notifications of the phone
    Own,                 \* notifications of the desktop
    MaxTries,            \* bounds the channels an upload is tried on
    MaxEvents            \* bounds what happens to the notifications

VARIABLES
    phone,               \* notifications of the phone: version and icon by id
    once,                \* those it flags as onlyOnce
    cache,               \* cache of "here"
    downloads,           \* icons that are downloaded: id, version, where the icon is looked for
    shown,               \* what the desktop shows: versions by id
    excused,             \* ids cut off, or changed while their icon was loading
    desktop,             \* notifications of the desktop: whether they have an icon, by id
    watch,               \* notifications_watch
    hooked,              \* ids whose "destroy" is heard
    uploads,             \* ValentNotificationUploads: id, next callback, channels tried
    tray,                \* what the phone shows of the desktop
    late,                \* ids that were closed before their upload was done, while apart, or at the phone
    events

notificationVars == <<phone, once, cache, downloads, shown, excused, desktop, watch, hooked,
                      uploads, tray, late, events>>
incomingVars == <<phone, once, cache, downloads, shown, excused>>
outgoingVars == <<desktop, watch, hooked, uploads, tray, late>>
vars == <<linkVars, notificationVars>>

Nothing == [i \in {} |-> 0]
With(f, i, v) == [x \in DOMAIN f \cup {i} |-> IF x = i THEN v ELSE f[x]]
Without(f, i) == [x \in DOMAIN f \ {i} |-> f[x]]

Init ==
    /\ LinkInit
    /\ phone = Nothing /\ once \in SUBSET Id
    /\ cache = {} /\ downloads = {} /\ shown = Nothing /\ excused = {}
    /\ desktop = Nothing /\ watch = FALSE /\ hooked = {} /\ uploads = {}
    /\ tray = {} /\ late = {} /\ events = 0

Happens == events < MaxEvents /\ events' = events + 1 /\ Room("here") /\ Room("there")
-----------------------------------------------------------------------------
(* The phone                                                                *)
Notice(i, n, silent) ==
    [kind |-> "notification", id |-> i, version |-> n.version, icon |-> n.icon, silent |-> silent,
     once |-> i \in once]

PhonePosts(i) ==
    /\ Happens
    /\ \E icon \in BOOLEAN :
         phone' = With(phone, i, [icon |-> icon,
                    version |-> IF i \in DOMAIN phone THEN phone[i].version + 1 ELSE 1])
    /\ Queue("there", <<Notice(i, phone'[i], FALSE)>>)
    /\ excused' = IF CanSend("there") THEN excused ELSE excused \cup {i}
    /\ UNCHANGED <<link, available, once, cache, downloads, shown, outgoingVars>>

PhoneWithdraws(i) ==
    /\ Happens /\ i \in DOMAIN phone
    /\ phone' = Without(phone, i)
    /\ Queue("there", <<[kind |-> "isCancel", id |-> i]>>)
    /\ excused' = IF CanSend("there") THEN excused ELSE excused \cup {i}
    /\ UNCHANGED <<link, available, once, cache, downloads, shown, outgoingVars>>

(* Its user dismisses what the desktop forwarded                             *)
PhoneDismisses(i) ==
    /\ Happens /\ i \in tray
    /\ tray' = tray \ {i} /\ late' = late \cup {i}
    /\ Queue("there", <<[kind |-> "request", id |-> i]>>)
    /\ UNCHANGED <<link, available, incomingVars, desktop, watch, hooked, uploads>>

(* It answers a request with all of them, closes what it is asked to, and may   *)
(* withdraw what was replied to or acted upon                                *)
PhoneHandles ==
    LET p == Head(wire["there"])
    IN  /\ Arrived("there")
        /\ CASE p.kind = "request" ->
                  /\ \E order \in SetToSeqs(DOMAIN phone) :
                       Handled("there", [n \in DOMAIN order |-> Notice(order[n], phone[order[n]], TRUE)])
                  /\ UNCHANGED <<phone, tray>>
             [] p.kind = "close" ->
                  /\ phone' = Without(phone, p.id) /\ tray' = tray \ {p.id}
                  /\ Handled("there", IF p.id \in DOMAIN phone
                                        THEN <<[kind |-> "isCancel", id |-> p.id]>> ELSE <<>>)
             [] p.kind = "forward" ->
                  /\ tray' = tray \cup {p.id} /\ Handled("there", <<>>) /\ UNCHANGED phone
             [] p.kind = "isCancel" ->
                  /\ tray' = tray \ {p.id} /\ Handled("there", <<>>) /\ UNCHANGED phone
             [] p.kind = "answer" ->
                  \/ /\ p.id \in DOMAIN phone /\ phone' = Without(phone, p.id) /\ UNCHANGED tray
                     /\ Handled("there", <<[kind |-> "isCancel", id |-> p.id]>>)
                  \/ Handled("there", <<>>) /\ UNCHANGED <<phone, tray>>
        /\ UNCHANGED <<link, available, once, cache, downloads, shown, excused, desktop, watch,
                       hooked, uploads, late, events>>
-----------------------------------------------------------------------------
Loading(i) == \E d \in downloads : d.id = i

(* valent_notification_plugin_handle_notification()                          *)
HandleNotification ==
    LET p == Head(wire["here"])
    IN  /\ Arrived("here") /\ p.kind = "notification" /\ Handled("here", <<>>)
        /\ IF p.once /\ p.silent /\ p.id \in cache
             THEN UNCHANGED <<cache, downloads, shown, excused>>
             ELSE /\ cache' = cache \cup {p.id}
                  /\ IF p.icon
                       THEN /\ downloads' = downloads \cup {[id |-> p.id, version |-> p.version, from |-> "cache"]}
                            /\ UNCHANGED shown
                       ELSE /\ shown' = With(shown, p.id, p.version)
                            /\ UNCHANGED downloads
                  /\ excused' = IF Loading(p.id) THEN excused \cup {p.id} ELSE excused
        /\ UNCHANGED <<link, available, phone, once, outgoingVars, events>>

(* ... of one that was withdrawn.  A download goes on                        *)
HandleCancel ==
    LET p == Head(wire["here"])
    IN  /\ Arrived("here") /\ p.kind = "isCancel" /\ Handled("here", <<>>)
        /\ cache' = cache \ {p.id} /\ shown' = Without(shown, p.id)
        /\ excused' = IF Loading(p.id) THEN excused \cup {p.id} ELSE excused
        /\ UNCHANGED <<link, available, phone, once, downloads, outgoingVars, events>>

(* What the phone asks of the notifications of the desktop is left to do: one   *)
(* that was dismissed there stays                                            *)
HandleRequest ==
    LET p == Head(wire["here"])
    IN  /\ Arrived("here") /\ p.kind = "request" /\ Handled("here", <<>>)
        /\ UNCHANGED <<link, available, incomingVars, outgoingVars, events>>

(* valent_notification_plugin_download_icon_cb(): shown, with or without it    *)
Show(d) ==
    /\ downloads' = downloads \ {d}
    /\ shown' = With(shown, d.id, d.version)

LookFor(d, from) ==
    /\ downloads' = (downloads \ {d}) \cup {[d EXCEPT !.from = from]}
    /\ UNCHANGED shown

(* The icon is in the cache, or was just downloaded to it; or is downloaded    *)
DownloadIconFromCacheCallback(d) ==
    /\ d.from # "device"
    /\ Show(d) \/ (d.from = "cache" /\ LookFor(d, "device"))
    /\ UNCHANGED <<linkVars, phone, once, cache, excused, outgoingVars, events>>

DownloadIconFromDeviceCallback(d) ==
    /\ d.from = "device"
    /\ LookFor(d, "file") \/ Show(d)
    /\ UNCHANGED <<linkVars, phone, once, cache, excused, outgoingVars, events>>

(* notification_close_action()                                               *)
CloseAction(i) ==
    /\ Happens /\ available["here"] /\ i \in DOMAIN shown
    /\ Queue("here", <<[kind |-> "close", id |-> i]>>)
    /\ UNCHANGED <<link, available, incomingVars, outgoingVars>>

(* notification_reply_action() with a text, and notification_action_action(),   *)
(* which the phone handles as it likes                                       *)
ReplyAction(i) ==
    /\ Happens /\ available["here"] /\ i \in DOMAIN shown
    /\ Queue("here", <<[kind |-> "answer", id |-> i]>>)
    /\ UNCHANGED <<link, available, incomingVars, outgoingVars>>

(* notification_cancel_action()                                              *)
CancelAction(i) ==
    /\ Happens /\ available["here"] /\ i \in tray
    /\ Queue("here", <<[kind |-> "isCancel", id |-> i]>>)
    /\ late' = late \cup {i}
    /\ UNCHANGED <<link, available, incomingVars, desktop, watch, hooked, uploads, tray>>
-----------------------------------------------------------------------------
Forward(i) == <<[kind |-> "forward", id |-> i]>>

Uploading(i) == \E u \in uploads : u.id = i

(* The callback that valent_notification_upload_transfer_icon() waits for: the *)
(* bytes are there, are in a file, or cannot be had                            *)
TransferIcon(icon) ==
    CASE icon = "bytes" -> "encode"
      [] icon = "file" -> "load"
      [] icon = "unsupported" -> "failed"

Upload(i, icon) == [id |-> i, stage |-> TransferIcon(icon), tries |-> 1]

(* on_notification_added(): valent_notification_plugin_send_notification()    *)
DesktopPosts(i) ==
    /\ Happens /\ i \notin DOMAIN desktop \cup late /\ ~Uploading(i)
    /\ \E icon \in {"none", "bytes", "file", "unsupported"} :
         /\ desktop' = With(desktop, i, icon # "none")
         /\ uploads' = IF watch /\ icon # "none" THEN uploads \cup {Upload(i, icon)} ELSE uploads
         /\ Queue("here", IF watch /\ icon = "none" THEN Forward(i) ELSE <<>>)
    /\ hooked' = IF watch THEN hooked \cup {i} ELSE hooked
    /\ late' = IF watch /\ ~CanSend("here") THEN late \cup {i} ELSE late
    /\ UNCHANGED <<link, available, incomingVars, watch, tray>>

(* notification_send_action(): without an icon, and without a notification of   *)
(* the desktop that could be closed                                          *)
SendAction(i) ==
    /\ Happens /\ available["here"] /\ i \notin DOMAIN desktop /\ ~Uploading(i)
    /\ Queue("here", Forward(i))
    /\ late' = late \cup {i}
    /\ UNCHANGED <<link, available, incomingVars, desktop, watch, hooked, uploads, tray>>

(* on_notification_removed()                                                 *)
DesktopCloses(i) ==
    /\ Happens /\ i \in DOMAIN desktop
    /\ desktop' = Without(desktop, i) /\ hooked' = hooked \ {i}
    /\ Queue("here", IF i \in hooked THEN <<[kind |-> "close", id |-> i]>> ELSE <<>>)
    /\ late' = IF Uploading(i) \/ ~CanSend("here") \/ i \notin hooked THEN late \cup {i} ELSE late
    /\ UNCHANGED <<link, available, incomingVars, watch, uploads, tray>>

(* The upload goes on, or fails                                              *)
Continue(u, stage) ==
    uploads' = (uploads \ {u}) \cup {[u EXCEPT !.stage = stage]}

outsideUpload == <<link, available, incomingVars, desktop, watch, hooked, tray, events>>

LoadBytesCallback(u) ==
    /\ u.stage = "load"
    /\ Continue(u, "encode") \/ Continue(u, "failed")
    /\ UNCHANGED <<wire, late, outsideUpload>>

(* What cannot be encoded is sent as it is.  The channel writes the packet    *)
(* before the peer connects for the payload.                                 *)
EncodeCallback(u) ==
    /\ u.stage = "encode"
    /\ Continue(u, IF CanSend("here") THEN "connect" ELSE "failed")
    /\ Queue("here", Forward(u.id))
    /\ UNCHANGED <<late, outsideUpload>>

(* valent_channel_upload_cb(): the peer connected; or the next channel is tried *)
UploadCallback(u) ==
    /\ u.stage = "connect"
    /\ \/ Continue(u, "write") /\ UNCHANGED wire
       \/ Continue(u, "failed") /\ UNCHANGED wire
       \/ /\ CanSend("here") /\ u.tries < MaxTries
          /\ uploads' = (uploads \ {u}) \cup {[u EXCEPT !.tries = @ + 1]}
          /\ Queue("here", Forward(u.id))
    /\ UNCHANGED <<late, outsideUpload>>

WriteAllCallback(u) ==
    /\ u.stage = "write"
    /\ (uploads' = uploads \ {u}) \/ Continue(u, "failed")
    /\ UNCHANGED <<wire, late, outsideUpload>>

(* valent_notification_upload_execute_cb(): what was not uploaded is sent      *)
(* without its icon, whether or not it was sent before                        *)
ExecuteCallback(u) ==
    /\ u.stage = "failed" /\ uploads' = uploads \ {u}
    /\ Queue("here", Forward(u.id))
    /\ late' = IF CanSend("here") THEN late ELSE late \cup {u.id}
    /\ UNCHANGED outsideUpload

(* valent_notification_plugin_update_state(): it asks with every new          *)
(* connection; what is there already is not forwarded, and of what was         *)
(* forwarded not every handler is disconnected when the device is unpaired     *)
Appear(e) ==
    /\ Appears(e, IF e = "here" THEN <<[kind |-> "request"]>> ELSE <<>>)
    /\ watch' = (watch \/ e = "here")
    /\ UNCHANGED <<incomingVars, desktop, hooked, uploads, tray, late, events>>

Vanish(e) ==
    /\ Vanishes(e)
    /\ IF e = "here"
         THEN watch' = FALSE /\ hooked' \in SUBSET hooked
         ELSE UNCHANGED <<watch, hooked>>
    /\ UNCHANGED <<incomingVars, desktop, uploads, tray, late, events>>

(* What was on the way is lost                                               *)
Link ==
    /\ \/ (Connects \/ Unpairs \/ \E e \in End : Loses(e)) /\ UNCHANGED <<excused, late>>
       \/ /\ Breaks
          /\ excused' = excused \cup {p.id : p \in {q \in ToSet(wire["here"]) : q.kind = "isCancel"}}
          /\ late' = late \cup {p.id : p \in {q \in ToSet(wire["there"]) : q.kind \in {"close", "forward"}}}
    /\ UNCHANGED <<phone, once, cache, downloads, shown, desktop, watch, hooked, uploads, tray,
                   events>>

Next ==
    \/ \E i \in Id : PhonePosts(i) \/ PhoneWithdraws(i)
    \/ \E i \in Id : CloseAction(i) \/ ReplyAction(i)
    \/ \E i \in Own : DesktopPosts(i) \/ DesktopCloses(i) \/ SendAction(i) \/ CancelAction(i)
    \/ \E i \in Own : PhoneDismisses(i)
    \/ PhoneHandles \/ HandleNotification \/ HandleCancel \/ HandleRequest
    \/ \E d \in downloads :
          DownloadIconFromCacheCallback(d) \/ DownloadIconFromDeviceCallback(d)
    \/ \E u \in uploads :
          \/ LoadBytesCallback(u) \/ EncodeCallback(u) \/ UploadCallback(u)
          \/ WriteAllCallback(u) \/ ExecuteCallback(u)
    \/ \E e \in End : Appear(e) \/ Vanish(e)
    \/ Link

Spec == Init /\ [][Next]_vars
-----------------------------------------------------------------------------
(* Once everything has arrived the desktop shows the notifications of the       *)
(* phone, at their latest version, and no other.  The exceptions are those that *)
(* changed while the devices were apart or while their icon was loading, which  *)
(* brings back the older one, and those the phone says to show only once.       *)
ShownAgrees ==
    Settled /\ downloads = {} =>
      \A i \in Id \ (excused \cup once) :
        /\ (i \in DOMAIN shown) <=> (i \in DOMAIN phone)
        /\ i \in DOMAIN shown => shown[i] = phone[i].version

(* What the desktop posts is shown by the phone, whichever step of the upload  *)
(* of its icon fails; and what it closes no longer is.  The exceptions are     *)
(* those that were posted, uploaded or closed while the devices were apart, and *)
(* those that were closed before their icon was uploaded, those that were sent *)
(* by the action, and those that the phone dismissed.                          *)
ForwardedAgrees ==
    Settled /\ uploads = {} =>
      /\ \A i \in tray \ late : i \in DOMAIN desktop
      /\ \A i \in hooked \ late : i \in tray
=============================================================================
