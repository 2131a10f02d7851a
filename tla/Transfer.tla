------------------------------ MODULE Transfer ------------------------------
(***************************************************************************)
(* A ValentDeviceTransfer: a file is opened and a connection negotiated in *)
(* parallel, whichever comes second starts copying, and a connection that  *)
(* fails is tried again over another channel of the device.  ValentTransfer*)
(* wraps it in a state and a cancellable of its own.                       *)
(***************************************************************************)
EXTENDS Naturals, Sequences, SequencesExt

CONSTANTS
    Channel,             \* the channels the device may have
    None

VARIABLES
    download,            \* op->is_download
    state,               \* priv->state
    cancelled,           \* priv->cancellable is cancelled
    channels,            \* the device's channels, the preferred one first
    via,                 \* the channel the connection is negotiated over
    conn,                \* "none", "trying", "up" or "failed"
    file,                \* "none", "query", "opening", "open" or "failed"
    copy,                \* the splice: "none", "running", "part" or "whole"
    returned             \* what the operation's task returned first

vars == <<download, state, cancelled, channels, via, conn, file, copy, returned>>

user == <<download, cancelled, channels>>

Ended == state \in {"complete", "failed"}

Init ==
    /\ download \in BOOLEAN
    /\ state = "pending"
    /\ cancelled = FALSE
    /\ channels \in SetToAllKPermutations(Channel)
    /\ via = None
    /\ conn = "none"
    /\ file = "none"
    /\ copy = "none"
    /\ returned = "none"

-----------------------------------------------------------------------------
(* A GTask returns once; GLib ignores what is returned after that.          *)
Return(what) == returned' = IF returned = "none" THEN what ELSE returned

(* Negotiate a connection over the preferred channel, and open the file.    *)
Connect ==
    IF channels = <<>>
      THEN Return("error") /\ file' = "none" /\ UNCHANGED <<via, conn>>
      ELSE /\ via' = Head(channels)
           /\ conn' = "trying"
           /\ file' = "opening"
           /\ UNCHANGED returned

(* valent_transfer_execute() and valent_device_transfer_execute(): an       *)
(* upload first asks for the size of the file.                              *)
Execute ==
    /\ state = "pending"
    /\ state' = "active"
    /\ IF download
         THEN Connect
         ELSE file' = "query" /\ UNCHANGED <<via, conn, returned>>
    /\ UNCHANGED <<user, copy>>

(* g_file_query_info_cb() *)
QueryInfo ==
    /\ file = "query"
    /\ \/ Connect
       \/ Return("error") /\ file' = "failed" /\ UNCHANGED <<via, conn>>
    /\ UNCHANGED <<state, user, copy>>

(* g_file_replace_cb(), g_file_read_cb(): the second of the two starts the  *)
(* copy (valent_device_transfer_execute_splice()).                          *)
FileOpens ==
    /\ file = "opening"
    /\ file' = "open"
    /\ copy' = IF conn = "up" THEN "running" ELSE copy
    /\ UNCHANGED <<state, user, via, conn, returned>>

FileFails ==
    /\ file = "opening"
    /\ file' = "failed"
    /\ Return("error")
    /\ UNCHANGED <<state, user, via, conn, copy>>

(* valent_channel_download_cb(), valent_channel_upload_cb()                 *)
Connects ==
    /\ conn = "trying"
    /\ conn' = "up"
    /\ copy' = IF file = "open" THEN "running" ELSE copy
    /\ UNCHANGED <<state, user, via, file, returned>>

(* _valent_device_next_channel(): the best channel that is not this one.    *)
Others(c) == SelectSeq(channels, LAMBDA d : d # c)

(* ... with an error: another channel is tried unless it was cancelled.     *)
ConnectFails ==
    /\ conn = "trying"
    /\ IF ~cancelled /\ Others(via) # <<>>
         THEN via' = Head(Others(via)) /\ UNCHANGED <<conn, returned>>
         ELSE conn' = "failed" /\ Return("error") /\ UNCHANGED via
    /\ UNCHANGED <<state, user, file, copy>>

(* g_output_stream_splice_cb(): fewer bytes than promised are an error.     *)
CopyEnds ==
    /\ copy = "running"
    /\ \/ copy' = "whole" /\ Return("ok")
       \/ copy' = "part" /\ Return("error")
    /\ UNCHANGED <<state, user, via, conn, file>>

(* valent_transfer_execute_cb(): a task that was cancelled fails, whatever  *)
(* it returned.                                                             *)
ExecuteCallback ==
    /\ state = "active" /\ returned # "none"
    /\ state' = IF returned = "ok" /\ ~cancelled THEN "complete" ELSE "failed"
    /\ UNCHANGED <<user, via, conn, file, copy, returned>>

(* valent_transfer_cancel(): before execute() there is no cancellable, and  *)
(* nothing is cancelled.                                                    *)
Cancel ==
    /\ state # "pending"
    /\ cancelled' = TRUE
    /\ UNCHANGED <<download, state, channels, via, conn, file, copy, returned>>

LoseChannel ==
    /\ \E c \in ToSet(channels) : channels' = SelectSeq(channels, LAMBDA d : d # c)
    /\ UNCHANGED <<download, state, cancelled, via, conn, file, copy, returned>>

Next ==
    \/ Execute \/ QueryInfo
    \/ FileOpens \/ FileFails
    \/ Connects \/ ConnectFails
    \/ CopyEnds
    \/ ExecuteCallback
    \/ Cancel \/ LoseChannel

Spec == Init /\ [][Next]_vars

(* Every asynchronous operation ends, one way or the other.                 *)
FairSpec ==
    /\ Spec
    /\ WF_vars(QueryInfo)
    /\ WF_vars(FileOpens \/ FileFails)
    /\ WF_vars(Connects \/ ConnectFails)
    /\ WF_vars(CopyEnds)
    /\ WF_vars(ExecuteCallback)
-----------------------------------------------------------------------------
TypeOK ==
    /\ download \in BOOLEAN /\ cancelled \in BOOLEAN
    /\ state \in {"pending", "active", "complete", "failed"}
    /\ channels \in Seq(Channel)
    /\ via \in Channel \cup {None}
    /\ conn \in {"none", "trying", "up", "failed"}
    /\ file \in {"none", "query", "opening", "open", "failed"}
    /\ copy \in {"none", "running", "part", "whole"}
    /\ returned \in {"none", "ok", "error"}

(* The two halves meet: copying has started exactly when both ends exist,   *)
(* in whichever order they came.                                            *)
HalvesMeet == (file = "open" /\ conn = "up") <=> copy # "none"

(* A transfer is only complete if every byte that was announced was copied. *)
CompleteIsWhole == state = "complete" => copy = "whole"

(* Cancelling ends a transfer, however many channels could still be tried;  *)
(* so ends one with no more than one channel left to try, whatever fails.   *)
(* Neither leaves anything behind that still tries to connect.              *)
EndsIfItMust ==
    state # "pending" /\ (cancelled \/ Len(channels) <= 1) => Ended /\ conn # "trying"
TransferEnds == []<>EndsIfItMust

-----------------------------------------------------------------------------
(* The inductive invariant of the two, which module MCExchanges proves      *)

(* Nothing is open before the transfer is executed, so that executing it,   *)
(* which sets the file anew, finds no copy in progress.                     *)
NotBefore == state = "pending" => file = "none"

(* Only the copy reports a success: if "ok" is what the task returned first *)
(* every byte was there, and since no other copy can start that remains so. *)
OkIsWhole == returned = "ok" => copy = "whole"

Inv == HalvesMeet /\ NotBefore /\ OkIsWhole /\ CompleteIsWhole
=============================================================================
