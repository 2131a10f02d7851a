---------------------------- MODULE SharePlugin ----------------------------
(***************************************************************************)
(* The share plugin and the transfers it started: its table of them, the   *)
(* upload and the download that further files join, and the notification it*)
(* shows for each.  How the files of a transfer are copied is in Share and *)
(* in Transfer; here it runs, and ends in one of its ways.                 *)
(***************************************************************************)
EXTENDS Integers, FiniteSets

CONSTANTS
    MaxTransfers,        \* bounds the transfers
    MaxEvents,           \* bounds what users and the device do
    None

VARIABLES
    transfers,           \* of each id: the transfer
    table,               \* self->transfers: the ids of those that can be cancelled
    current,             \* self->upload and self->download
    notices,             \* of each id: the notification
    text,                \* a text from the device: its notification, and its file
    plugin,              \* "alive" or "destroyed"
    paired,
    events

vars == <<transfers, table, current, notices, text, plugin, paired, events>>

Id == 1..MaxTransfers
Used == {t \in Id : transfers[t].state # "none"}
NewId == CHOOSE t \in Id : transfers[t].state = "none"
Ended(t) == transfers[t].state \in {"complete", "failed"}
Running(t) == transfers[t].state = "active"

(* kind: an upload or a download of files, a single file of an older peer, a  *)
(* file to open at the other end, a file to open here; query: the files of an *)
(* upload that are being looked at; early: given up before it was executed    *)
NoTransfer == [kind |-> "none", state |-> "none", items |-> 0, query |-> 0,
               cancelled |-> FALSE, early |-> FALSE]

(* valent_share_plugin_init()                                                 *)
Init ==
    /\ transfers = [t \in Id |-> NoTransfer]
    /\ table = {}
    /\ current = [upload |-> None, download |-> None]
    /\ notices = [t \in Id |-> "none"]
    /\ text = [shown |-> FALSE, saving |-> FALSE, saved |-> 0]
    /\ plugin = "alive" /\ paired = TRUE /\ events = 0

Event == plugin = "alive" /\ events < MaxEvents /\ events' = events + 1
-----------------------------------------------------------------------------
(* valent_share_download_file_notification(), and the one of an upload           *)
StateNotice(r) ==
    CASE r.state = "pending" -> "transferring"
      [] r.state = "active" -> "cancellable"
      [] OTHER -> r.state

Notice(t, r) ==
    CASE r.kind \in {"upload", "download", "single"} -> IF r.items = 0 THEN notices[t] ELSE StateNotice(r)
      [] r.kind = "open" -> StateNotice(r)
      [] r.kind = "opened" -> IF r.state = "complete" THEN "none" ELSE StateNotice(r)

Show(t, r) == notices' = [notices EXCEPT ![t] = Notice(t, r)]
-----------------------------------------------------------------------------
(* valent_share_plugin_upload_file()                                          *)
UploadFile ==
    LET t == IF current.upload = None THEN NewId ELSE current.upload
        r == IF current.upload = None
               THEN [NoTransfer EXCEPT !.kind = "upload", !.state = "pending"] ELSE transfers[t]
    IN  /\ current.upload = None => Used # Id
        /\ transfers' = [transfers EXCEPT ![t] = [r EXCEPT !.query = @ + 1]]
        /\ current' = [current EXCEPT !.upload = t]
        /\ table' = IF current.upload = None THEN table \cup {t} ELSE table

(* share_uri_action(), and each of share_uris_action(), of a file: a link is    *)
(* a packet, which leaves the plugin as it is                                  *)
ShareUri ==
    /\ Event /\ paired
    /\ UploadFile
    /\ UNCHANGED <<notices, text, plugin, paired>>

(* The file was looked at and joins its upload, which starts unless it was     *)
(* started: valent_share_upload_files_added()                                  *)
FilesAdded(t) ==
    LET r == [transfers[t] EXCEPT !.query = @ - 1, !.items = @ + 1,
                                  !.state = IF @ = "pending" THEN "active" ELSE @]
    IN  /\ transfers[t].query > 0 /\ plugin = "alive"
        /\ transfers' = [transfers EXCEPT ![t] = r]
        /\ Show(t, r)
        /\ UNCHANGED <<table, current, text, plugin, paired, events>>

(* A file that cannot be looked at is left out                                 *)
FileLeftOut(t) ==
    /\ transfers[t].query > 0
    /\ transfers' = [transfers EXCEPT ![t].query = @ - 1]
    /\ UNCHANGED <<table, current, notices, text, plugin, paired, events>>

(* valent_share_plugin_open_file()                                            *)
OpenFile ==
    LET r == [NoTransfer EXCEPT !.kind = "open", !.state = "active"]
    IN  /\ Used # Id
        /\ transfers' = [transfers EXCEPT ![NewId] = r]
        /\ table' = table \cup {NewId}
        /\ Show(NewId, r)

(* share_open_action() of a file                                              *)
OpenAction ==
    /\ Event /\ paired
    /\ OpenFile
    /\ UNCHANGED <<current, text, plugin, paired>>

(* valent_share_plugin_handle_file(): a file to open, a file of a peer that     *)
(* does not number its files, or one that joins the download                   *)
HandleFile(kind) ==
    LET joins == kind = "download" /\ current.download # None
        t == IF joins THEN current.download ELSE NewId
        old == IF joins THEN transfers[t] ELSE [NoTransfer EXCEPT !.kind = kind]
        r == [old EXCEPT !.items = @ + 1,
                         !.state = IF @ \in {"none", "pending"} THEN "active" ELSE @]
    IN  /\ Event /\ paired
        /\ joins \/ Used # Id
        /\ transfers' = [transfers EXCEPT ![t] = r]
        /\ table' = IF joins THEN table ELSE table \cup {t}
        /\ current' = IF kind = "download" THEN [current EXCEPT !.download = t] ELSE current
        /\ Show(t, r)
        /\ UNCHANGED <<text, plugin, paired>>

(* valent_share_plugin_handle_file_update()                                    *)
HandleFileUpdate ==
    /\ Event /\ paired /\ current.download # None
    /\ Show(current.download, transfers[current.download])
    /\ UNCHANGED <<transfers, table, current, text, plugin, paired>>

(* valent_share_plugin_handle_text()                                           *)
HandleText ==
    /\ Event /\ paired
    /\ text' = [text EXCEPT !.shown = TRUE]
    /\ UNCHANGED <<transfers, table, current, notices, plugin, paired>>

(* share_save_action()                                                         *)
SaveAction ==
    /\ Event /\ text.shown /\ ~text.saving
    /\ text' = [text EXCEPT !.saving = TRUE]
    /\ UNCHANGED <<transfers, table, current, notices, plugin, paired>>

(* share_save_action_cb(), which is not given the plugin: the file that was     *)
(* written is not announced                                                    *)
SaveActionCallback ==
    /\ text.saving
    /\ \E written \in {0, 1} :
         text' = [text EXCEPT !.saving = FALSE, !.saved = IF @ = 1 THEN @ ELSE @ + written]
    /\ UNCHANGED <<transfers, table, current, notices, plugin, paired, events>>
-----------------------------------------------------------------------------
(* What a callback leaves: the plugin's pointers and the table forget it        *)
Forget(t) ==
    /\ current' = [w \in DOMAIN current |-> IF current[w] = t THEN None ELSE current[w]]
    /\ table' = table \ {t}

(* A transfer of these kinds is over: of one that was cancelled nothing is shown *)
(* any more, if the callback hides it.  A plugin that was destroyed has no device*)
(* any more, and neither shows nor hides.                                        *)
Over(t, kinds, hides) ==
    \E how \in {"complete", "failed", "cancelled"} :
      LET r == [transfers[t] EXCEPT !.state = IF how = "complete" THEN how ELSE "failed"]
      IN  /\ Running(t) /\ r.kind \in kinds
          /\ how = "cancelled" => r.cancelled
          /\ transfers' = [transfers EXCEPT ![t] = r]
          /\ notices' = IF plugin = "destroyed" \/ (how = "cancelled" /\ ~hides) THEN notices
                        ELSE [notices EXCEPT ![t] = IF how = "cancelled" THEN "none" ELSE Notice(t, r)]
          /\ Forget(t)
          /\ UNCHANGED <<text, plugin, paired, events>>

(* valent_share_upload_file_cb()                                              *)
UploadFileCallback(t) == Over(t, {"upload"}, TRUE)

(* valent_share_upload_open_cb()                                              *)
UploadOpenCallback(t) == Over(t, {"open"}, TRUE)

(* valent_share_download_file_cb()                                            *)
DownloadFileCallback(t) == Over(t, {"download", "single"}, TRUE)

(* valent_share_download_open_cb(): of a file that is there nothing is shown,   *)
(* but the notification of one that was cancelled is not hidden                *)
DownloadOpenCallback(t) == Over(t, {"opened"}, FALSE)

(* valent_transfer_cancel(): nothing can be cancelled before it is executed     *)
Cancelled(r) == [r EXCEPT !.cancelled = r.state = "active", !.early = r.state = "pending"]

(* share_cancel_action(), of the button on a notification                       *)
CancelAction(t) ==
    /\ plugin = "alive" /\ notices[t] = "cancellable"
    /\ t \in table /\ ~transfers[t].cancelled
    /\ transfers' = [transfers EXCEPT ![t] = Cancelled(@)]
    /\ UNCHANGED <<table, current, notices, text, plugin, paired, events>>

(* Everything is cancelled and forgotten, and calls back later                  *)
GiveUp ==
    /\ transfers' = [t \in Id |-> IF t \in table THEN Cancelled(transfers[t]) ELSE transfers[t]]
    /\ table' = {}
    /\ current' = [upload |-> None, download |-> None]

(* valent_share_plugin_update_state(): the device was unpaired                  *)
Unpaired ==
    /\ Event /\ paired /\ paired' = FALSE
    /\ GiveUp
    /\ UNCHANGED <<notices, text, plugin>>

Paired ==
    /\ Event /\ ~paired /\ paired' = TRUE
    /\ UNCHANGED <<transfers, table, current, notices, text, plugin>>

(* valent_share_plugin_destroy(), of a plugin that is disabled or a device that *)
(* is removed                                                                  *)
Destroy ==
    /\ Event /\ plugin' = "destroyed"
    /\ GiveUp
    /\ UNCHANGED <<notices, text, paired>>

Next ==
    \/ ShareUri \/ OpenAction \/ HandleFileUpdate \/ HandleText \/ SaveAction \/ SaveActionCallback
    \/ \E k \in {"download", "single", "opened"} : HandleFile(k)
    \/ \E t \in Id : FilesAdded(t) \/ FileLeftOut(t) \/ CancelAction(t)
    \/ \E t \in Id : UploadFileCallback(t) \/ UploadOpenCallback(t) \/ DownloadFileCallback(t)
                     \/ DownloadOpenCallback(t)
    \/ Unpaired \/ Paired \/ Destroy

Spec == Init /\ [][Next]_vars
-----------------------------------------------------------------------------
(* The notification of a transfer tells how it is: it is under way, it is        *)
(* complete or it failed.  Of those that were cancelled there is none, but of a  *)
(* file to open here, and of an upload to which a late file was added.           *)
NoticesAgree ==
    plugin = "alive" =>
      \A t \in Used :
        /\ Running(t) => notices[t] = "cancellable"
        /\ notices[t] = "complete" => transfers[t].state = "complete"
        /\ (Ended(t) /\ ~(transfers[t].kind = "opened" /\ transfers[t].cancelled)) =>
              notices[t] \in {"none", transfers[t].state}

(* What runs can be cancelled, or was: the table has it, unless the plugin gave  *)
(* it up before it ran, and no new file is shared with a transfer that is over.  *)
RunningIsListed ==
    /\ \A t \in Used : Running(t) => t \in table \/ transfers[t].cancelled \/ transfers[t].early
    /\ \A t \in table : ~Ended(t)
    /\ \A w \in DOMAIN current : current[w] # None => current[w] \in table
=============================================================================
