------------------------------- MODULE Share -------------------------------
(***************************************************************************)
(* The share plugin: files that are shared while an upload runs join it,   *)
(* files that arrive join the download, and each side goes through its     *)
(* files one by one.  A file has the number at which it was shared, and    *)
(* both sides of a file's transfer end together or fail together.          *)
(***************************************************************************)
EXTENDS Integers, Sequences, SequencesExt

CONSTANTS
    MaxFiles,            \* bounds the files that are shared
    MaxFaults            \* bounds the transfers that fail and those that are cancelled

VARIABLES
    shared,              \* files shared so far
    uploads,             \* the ValentShareUploads; self->upload is the last, until it ends
    packets,             \* on the way
    downloads,           \* the ValentShareDownloads; self->download is the last, until it ends
    sent, saved,         \* files whose transfer is done, on either side
    broken,              \* files whose transfer failed, on either side
    unread,              \* files that cannot be read
    faults

uploadVars == <<shared, uploads, unread>>
transferVars == <<sent, saved, broken, faults>>
vars == <<uploadVars, packets, downloads, transferVars>>

NoItem == 0
Upload == [state |-> "pending", items |-> <<>>, position |-> 0, query |-> {}, idle |-> FALSE,
           item |-> NoItem, offered |-> FALSE, number |-> 0]
Download == [state |-> "active", items |-> <<>>, position |-> 0, number |-> 0, waiting |-> FALSE,
             item |-> NoItem, cancelled |-> FALSE]

Init ==
    /\ shared = 0 /\ uploads = <<>> /\ packets = <<>> /\ downloads = <<>>
    /\ sent = {} /\ saved = {} /\ broken = {} /\ unread = {} /\ faults = 0

Running(transfers) == transfers # <<>> /\ Last(transfers).state \in {"pending", "active"}
-----------------------------------------------------------------------------
(* valent_share_plugin_upload_file(), valent_share_upload_add_file()         *)
UploadFile ==
    /\ shared < MaxFiles /\ shared' = shared + 1
    /\ LET with == IF Running(uploads) THEN uploads ELSE Append(uploads, Upload)
       IN  uploads' = [with EXCEPT ![Len(with)].query = @ \cup {shared'}]
    /\ UNCHANGED <<packets, downloads, transferVars, unread>>

(* g_file_query_info_cb(), valent_share_upload_files_added(): the file joins   *)
(* the upload, which is started unless it was, even if it ended meanwhile      *)
QueryInfo(u) ==
    \E f \in uploads[u].query :
      \/ /\ uploads' = [uploads EXCEPT ![u].query = @ \ {f}, ![u].items = Append(@, f),
                                       ![u].state = IF @ = "pending" THEN "active" ELSE @,
                                       ![u].idle = @ \/ uploads[u].state = "pending"]
         /\ packets' = Append(packets, [kind |-> "update", number |-> Len(uploads[u].items) + 1])
         /\ UNCHANGED <<shared, downloads, transferVars, unread>>
      \/ /\ uploads' = [uploads EXCEPT ![u].query = @ \ {f}]
         /\ unread' = unread \cup {f}
         /\ UNCHANGED <<shared, packets, downloads, transferVars>>

(* The next file, or the wait for a query, or the end                         *)
NextUpload(r) ==
    IF r.position < Len(r.items)
      THEN [r EXCEPT !.position = @ + 1, !.item = r.items[r.position + 1], !.offered = FALSE,
                     !.number = Len(r.items), !.idle = FALSE]
    ELSE IF r.query # {} THEN [r EXCEPT !.item = NoItem, !.idle = TRUE]
    ELSE [r EXCEPT !.item = NoItem, !.idle = FALSE, !.state = "complete"]

(* valent_share_upload_idle()                                                *)
UploadIdle(u) ==
    /\ uploads[u].idle /\ uploads' = [uploads EXCEPT ![u] = NextUpload(@)]
    /\ UNCHANGED <<shared, packets, downloads, transferVars, unread>>

(* The transfer of the item sends its packet                                  *)
ItemOffered(u) ==
    /\ uploads[u].item # NoItem /\ ~uploads[u].offered
    /\ uploads' = [uploads EXCEPT ![u].offered = TRUE]
    /\ packets' = Append(packets, [kind |-> "file", file |-> uploads[u].item,
                                   number |-> uploads[u].number])
    /\ UNCHANGED <<shared, downloads, transferVars, unread>>

(* valent_transfer_execute_cb() of the upload                                 *)
ItemSent(u) ==
    LET f == uploads[u].item
    IN  /\ uploads[u].offered /\ f # NoItem /\ f \notin broken
        /\ \E d \in DOMAIN downloads : downloads[d].item = f
        /\ sent' = sent \cup {f}
        /\ uploads' = [uploads EXCEPT ![u] = NextUpload(@)]
        /\ UNCHANGED <<shared, unread, packets, downloads, saved, broken, faults>>

Fault(f) ==
    /\ broken' = broken \cup ({f} \ {NoItem})
    /\ faults' = IF f \in broken THEN faults ELSE faults + 1
    /\ f \in broken \/ faults < MaxFaults

(* ... of a transfer that failed, or was cancelled: the rest is given up        *)
UploadFails(u) ==
    /\ uploads[u].state = "active" /\ Fault(uploads[u].item)
    /\ uploads' = [uploads EXCEPT ![u].state = "failed", ![u].item = NoItem, ![u].idle = FALSE]
    /\ UNCHANGED <<shared, unread, packets, downloads, sent, saved>>
-----------------------------------------------------------------------------
(* valent_share_download_execute(), valent_transfer_execute_cb() of the        *)
(* download: the next file, or the wait for its packet, or the end              *)
NextDownload(r) ==
    IF r.position < Len(r.items)
      THEN [r EXCEPT !.position = @ + 1, !.item = r.items[r.position + 1]]
    ELSE IF r.position < r.number THEN [r EXCEPT !.item = NoItem, !.waiting = TRUE]
    ELSE [r EXCEPT !.item = NoItem, !.state = "complete"]

(* valent_share_download_add_file(): the packet tells how many files there are *)
AddFile(r, p) == [r EXCEPT !.items = Append(@, p.file), !.number = p.number]

(* valent_share_plugin_handle_file(): it joins the download, or starts one     *)
HandleFile ==
    LET p == Head(packets)
    IN  /\ packets # <<>> /\ p.kind = "file" /\ packets' = Tail(packets)
        /\ downloads' = IF Running(downloads)
                          THEN [downloads EXCEPT ![Len(downloads)] = AddFile(@, p)]
                          ELSE Append(downloads, NextDownload(AddFile(Download, p)))
        /\ UNCHANGED <<uploadVars, transferVars>>

(* valent_share_download_update()                                            *)
Update(r, p) == [r EXCEPT !.number = p.number]

(* valent_share_plugin_handle_file_update()                                  *)
HandleFileUpdate ==
    LET p == Head(packets)
    IN  /\ packets # <<>> /\ p.kind = "update" /\ packets' = Tail(packets)
        /\ downloads' = IF Running(downloads)
                          THEN [downloads EXCEPT ![Len(downloads)] = Update(@, p)]
                          ELSE downloads
        /\ UNCHANGED <<uploadVars, transferVars>>

ItemSaved(d) ==
    /\ downloads[d].item \in sent
    /\ saved' = saved \cup {downloads[d].item}
    /\ downloads' = [downloads EXCEPT ![d] = NextDownload(@)]
    /\ UNCHANGED <<uploadVars, packets, sent, broken, faults>>

(* ... of a transfer that failed or was cancelled                             *)
DownloadFails(d) ==
    /\ downloads[d].item # NoItem /\ downloads[d].item \notin sent
    /\ Fault(downloads[d].item)
    /\ downloads' = [downloads EXCEPT ![d].state = "failed", ![d].item = NoItem]
    /\ UNCHANGED <<uploadVars, packets, sent, saved>>

(* share_cancel_action(), while the next file is waited for                   *)
CancelWaiting(d) ==
    /\ downloads[d].waiting /\ ~downloads[d].cancelled /\ Fault(NoItem)
    /\ downloads' = [downloads EXCEPT ![d].cancelled = TRUE]
    /\ UNCHANGED <<uploadVars, packets, sent, saved>>

(* valent_share_download_timeout(): if no file is expected any more, the task   *)
(* does not return                                                             *)
Timeout(d) ==
    LET r == downloads[d]
    IN  /\ r.waiting
        /\ downloads' = [downloads EXCEPT ![d] =
             IF r.cancelled THEN [r EXCEPT !.waiting = FALSE, !.state = "failed"]
             ELSE IF r.position < Len(r.items) THEN [NextDownload(r) EXCEPT !.waiting = FALSE]
             ELSE IF r.position < r.number THEN [r EXCEPT !.waiting = FALSE, !.state = "failed"]
             ELSE [r EXCEPT !.waiting = FALSE]]
        /\ UNCHANGED <<uploadVars, packets, transferVars>>

Steps ==
    \/ \E u \in DOMAIN uploads : QueryInfo(u) \/ UploadIdle(u) \/ ItemOffered(u) \/ ItemSent(u)
    \/ HandleFile \/ HandleFileUpdate
    \/ \E d \in DOMAIN downloads : ItemSaved(d) \/ Timeout(d)
Faults ==
    \/ \E u \in DOMAIN uploads : UploadFails(u)
    \/ \E d \in DOMAIN downloads : DownloadFails(d) \/ CancelWaiting(d)
Next == UploadFile \/ Steps \/ Faults

Spec == Init /\ [][Next]_vars

(* What was started goes on, timers fire, and a side whose other side failed     *)
(* fails                                                                         *)
Progress == Steps \/ (Faults /\ faults' = faults)
FairSpec == Spec /\ WF_vars(Progress)
-----------------------------------------------------------------------------
(* What is reported as complete is: every file of an upload was sent, every file *)
(* of a download was saved, however files were added to it meanwhile.             *)
CompleteIsWhole ==
    /\ \A u \in DOMAIN uploads :
         uploads[u].state = "complete" => ToSet(uploads[u].items) \subseteq sent
    /\ \A d \in DOMAIN downloads :
         downloads[d].state = "complete" => ToSet(downloads[d].items) \subseteq saved

Stuck(d) == downloads[d].state = "active" /\ downloads[d].item = NoItem /\ ~downloads[d].waiting

(* Every file that is shared is saved at the other end, whichever upload it joins *)
(* and even if the wait for it timed out, as long as it can be read and no        *)
(* transfer fails or is cancelled, or a download is stuck.                        *)
Shared(f) == f <= shared
Arrived(f) ==
    f \in saved \cup unread \/ faults > 0 \/ \E d \in DOMAIN downloads : Stuck(d)
FilesArrive == \A f \in 1..MaxFiles : Shared(f) ~> Arrived(f)

(* A download that waits for a file goes on to it, is complete, or fails.         *)
WaitEnds == \A d \in DOMAIN downloads : ~Stuck(d)
-----------------------------------------------------------------------------
(* The inductive invariant, which module MCExchanges proves                    *)

File == Nat \ {NoItem}
UploadType ==
    [state : {"pending", "active", "complete", "failed"}, items : Seq(File), position : Nat,
     query : SUBSET File, idle : BOOLEAN, item : Nat, offered : BOOLEAN, number : Nat]
DownloadType ==
    [state : {"active", "complete", "failed"}, items : Seq(File), position : Nat,
     number : Nat, waiting : BOOLEAN, item : Nat, cancelled : BOOLEAN]
PacketType == [kind : {"update"}, number : Nat] \cup [kind : {"file"}, file : File, number : Nat]

TypeOK ==
    /\ shared \in Nat /\ faults \in Nat
    /\ uploads \in Seq(UploadType) /\ downloads \in Seq(DownloadType)
    /\ packets \in Seq(PacketType)
    /\ sent \subseteq File /\ saved \subseteq File /\ broken \subseteq File
    /\ unread \subseteq File

(* The files that a transfer has been through are done, but for the one it is at *)
Through(r, done) ==
    /\ r.position <= Len(r.items)
    /\ r.item # NoItem => r.position > 0 /\ r.item = r.items[r.position]
    /\ r.state # "failed" =>
          \A i \in 1..r.position : r.items[i] \in done \/ (i = r.position /\ r.item # NoItem)

(* An upload is complete once it is through, and no file can join it: it is at a *)
(* file, or waits, only while it is active                                       *)
UploadOK(r, done) ==
    /\ Through(r, done)
    /\ r.idle => r.item = NoItem
    /\ r.idle \/ r.item # NoItem => r.state = "active"
    /\ r.state = "complete" => r.position = Len(r.items) /\ r.query = {}

DownloadOK(r, done) ==
    /\ Through(r, done)
    /\ r.waiting => r.item = NoItem
    /\ r.waiting \/ r.item # NoItem => r.state = "active"
    /\ r.state = "complete" => r.position = Len(r.items)

Inv ==
    /\ TypeOK
    /\ \A u \in DOMAIN uploads : UploadOK(uploads[u], sent)
    /\ \A d \in DOMAIN downloads : DownloadOK(downloads[d], saved)
=============================================================================
