----------------------------- MODULE Clipboard -----------------------------
(***************************************************************************)
(* The clipboard plugin at both ends, each with a GdkClipboard.  A copy is *)
(* read asynchronously before it is sent, a text that arrives is written,  *)
(* which is a copy of its own, and each connection starts with an exchange *)
(* of what the ends have and when they got it, also when the plugin was not*)
(* told that the last one was lost.  The clocks agree, and go on between a *)
(* copy and a write.                                                       *)
(***************************************************************************)
EXTENDS PluginLink

CONSTANTS
    Text,
    Empty,               \* no text
    MaxEvents            \* bounds what the users do

VARIABLES
    content,             \* of each end: the text in the clipboard
    local,               \* local_timestamp
    remote,              \* remote_text
    autoPush, autoPull,  \* the settings
    watching,            \* changed_id
    reads,               \* valent_clipboard_read_text() under way: connect, text
    now,                 \* valent_timestamp_ms()
    latest,              \* the text that was copied last
    calm,                \* the users did all they did while the ends were at rest, and set nothing
    repeated,            \* one copied again what had come from the other end earlier
    outdated,            \* a text was sent with the time of another, which replaced it
    events

clipboardVars == <<content, local, remote, autoPush, autoPull, watching, reads, now,
                   latest, calm, repeated, outdated, events>>
ghostVars == <<latest, calm, repeated, outdated>>
settingVars == <<autoPush, autoPull>>
vars == <<linkVars, clipboardVars>>

Init ==
    /\ LinkInit
    /\ content = [e \in End |-> Empty] /\ local = [e \in End |-> 0]
    /\ remote = [e \in End |-> Empty] /\ watching = [e \in End |-> FALSE]
    /\ autoPush \in [End -> BOOLEAN] /\ autoPull \in [End -> BOOLEAN]
    /\ reads = [e \in End |-> <<>>]
    /\ now = 0 /\ latest = Empty /\ calm = TRUE /\ repeated = FALSE
    /\ outdated = FALSE /\ events = 0

AtRest == Settled /\ \A e \in End : reads[e] = <<>>
-----------------------------------------------------------------------------
(* on_clipboard_changed(), by way of on_changed() of the adapter; what is     *)
(* read is the content at the time of the call                                *)
Changed(e, text, time) ==
    /\ content' = [content EXCEPT ![e] = text]
    /\ local' = IF watching[e] THEN [local EXCEPT ![e] = time] ELSE local
    /\ reads' = IF watching[e] /\ autoPush[e]
                  THEN [reads EXCEPT ![e] = Append(@, [connect |-> FALSE, text |-> text])]
                  ELSE reads

(* valent_clipboard_write_text() of what came, by when the clock went on      *)
Written(e, text) == now' = now + 1 /\ Changed(e, text, now')

UserActs(orderly) ==
    events < MaxEvents /\ events' = events + 1 /\ calm' = (calm /\ orderly)

(* A user makes text the content of e, at time now'                           *)
UserCopies(e, text) ==
    /\ Changed(e, text, now') /\ latest' = text
    /\ repeated' = (repeated \/ (text = remote[e] /\ text # content[e]))

(* An application or the user copies, and time passes                         *)
Copy(e) ==
    /\ UserActs(AtRest) /\ now' = now + 1
    /\ \E t \in Text : UserCopies(e, t)
    /\ UNCHANGED <<linkVars, remote, settingVars, watching, outdated>>

(* clipboard_pull_action()                                                   *)
Pull(e) ==
    /\ UserActs(AtRest) /\ available[e] /\ remote[e] # Empty /\ now' = now + 1
    /\ UserCopies(e, remote[e])
    /\ UNCHANGED <<linkVars, remote, settingVars, watching, outdated>>

(* clipboard_push_action()                                                   *)
Push(e) ==
    /\ UserActs(AtRest) /\ available[e]
    /\ reads' = [reads EXCEPT ![e] = Append(@, [connect |-> FALSE, text |-> content[e]])]
    /\ UNCHANGED <<linkVars, content, local, remote, settingVars, watching, now, latest,
                   repeated, outdated>>

(* on_auto_push_changed(), on_auto_pull_changed(): of a device that is paired *)
(* or connected nothing else is done                                          *)
SettingChanges(e) ==
    /\ UserActs(FALSE)
    /\ \/ autoPush' = [autoPush EXCEPT ![e] = ~@] /\ UNCHANGED autoPull
       \/ autoPull' = [autoPull EXCEPT ![e] = ~@] /\ UNCHANGED autoPush
    /\ UNCHANGED <<linkVars, content, local, remote, watching, reads, now, latest,
                   repeated, outdated>>

(* valent_clipboard_read_text_connect_cb(): the time is that of the content by *)
(* now, which may have changed since it was read                               *)
ReadTextConnectCallback(e) ==
    LET r == Head(reads[e])
    IN  /\ reads[e] # <<>> /\ r.connect
        /\ reads' = [reads EXCEPT ![e] = Tail(@)]
        /\ Queue(e, IF r.text = Empty THEN <<>>
                    ELSE <<[kind |-> "connect", text |-> r.text, time |-> local[e]]>>)
        /\ outdated' = (outdated \/ (CanSend(e) /\ r.text \notin {Empty, content[e]}))
        /\ UNCHANGED <<link, available, content, local, remote, settingVars, watching, now,
                       latest, calm, repeated, events>>

(* valent_clipboard_read_text_cb(): what came from there is not sent back    *)
ReadTextCallback(e) ==
    LET r == Head(reads[e])
    IN  /\ reads[e] # <<>> /\ ~r.connect
        /\ reads' = [reads EXCEPT ![e] = Tail(@)]
        /\ Queue(e, IF r.text \in {Empty, remote[e]} THEN <<>>
                    ELSE <<[kind |-> "clipboard", text |-> r.text]>>)
        /\ UNCHANGED <<link, available, content, local, remote, settingVars, watching, now,
                       ghostVars, events>>

(* valent_clipboard_plugin_handle_clipboard()                                *)
HandleClipboard(e) ==
    LET p == Head(wire[e])
    IN  /\ Arrived(e) /\ p.kind = "clipboard" /\ Handled(e, <<>>)
        /\ remote' = [remote EXCEPT ![e] = p.text]
        /\ IF autoPull[e] THEN Written(e, p.text) ELSE UNCHANGED <<content, local, reads, now>>
        /\ UNCHANGED <<link, available, settingVars, watching, ghostVars, events>>

(* Mutant: what the other end had at the connection is taken, however old.    *)
HandleClipboardConnectAlways(e) ==
    LET p == Head(wire[e])
    IN  /\ Arrived(e) /\ p.kind = "connect" /\ Handled(e, <<>>)
        /\ remote' = [remote EXCEPT ![e] = p.text]
        /\ IF autoPull[e] THEN Written(e, p.text) ELSE UNCHANGED <<content, local, reads, now>>
        /\ UNCHANGED <<link, available, settingVars, watching, ghostVars, events>>

(* valent_clipboard_plugin_handle_clipboard_connect()                        *)
HandleClipboardConnect(e) ==
    LET p == Head(wire[e])
    IN  /\ Arrived(e) /\ p.kind = "connect" /\ Handled(e, <<>>)
        /\ remote' = [remote EXCEPT ![e] = p.text]
        /\ IF p.time > local[e] /\ autoPull[e]
             THEN Written(e, p.text)
             ELSE UNCHANGED <<content, local, reads, now>>
        /\ UNCHANGED <<link, available, settingVars, watching, ghostVars, events>>

(* valent_clipboard_plugin_update_state(): each connection is told of what is *)
(* there, whoever watches already goes on                                     *)
Appear(e) ==
    /\ Appears(e, <<>>)
    /\ watching' = [watching EXCEPT ![e] = TRUE]
    /\ reads' = IF autoPush[e]
                  THEN [reads EXCEPT ![e] = Append(@, [connect |-> TRUE, text |-> content[e]])]
                  ELSE reads
    /\ UNCHANGED <<content, local, remote, settingVars, now, ghostVars, events>>

Vanish(e) ==
    /\ Vanishes(e)
    /\ watching' = [watching EXCEPT ![e] = FALSE]
    /\ UNCHANGED <<content, local, remote, settingVars, reads, now, ghostVars, events>>

Link ==
    /\ Connects \/ Breaks \/ Unpairs \/ \E e \in End : Loses(e)
    /\ UNCHANGED clipboardVars

Next ==
    \/ \E e \in End : \/ Copy(e) \/ Pull(e) \/ Push(e) \/ SettingChanges(e)
                      \/ ReadTextConnectCallback(e) \/ ReadTextCallback(e)
                      \/ HandleClipboard(e) \/ HandleClipboardConnect(e)
                      \/ Appear(e) \/ Vanish(e)
    \/ Link

Progress ==
    \E e \in End : \/ ReadTextConnectCallback(e) \/ ReadTextCallback(e)
                   \/ HandleClipboard(e) \/ HandleClipboardConnect(e)

Spec == Init /\ [][Next]_vars
FairSpec == Spec /\ WF_vars(Progress)
-----------------------------------------------------------------------------
(* With both settings on at both ends from the start, a copy that was made     *)
(* while the ends were at rest reaches the other end and stays, also when the  *)
(* connection breaks meanwhile: the exchange at the next connection does not   *)
(* bring back what was replaced.                                               *)
Automatic == calm /\ \A e \in End : autoPush[e] /\ autoPull[e]
LastCopyArrives == AtRest /\ Automatic => \A e \in End : content[e] = latest

(* That is what "already synced with the device" means, but the text that came *)
(* last is compared, not what the device has: a text that came earlier and is  *)
(* copied again is not sent. And a text that is replaced by what comes while   *)
(* it is read for the exchange is sent as if it were as new as that. The copy  *)
(* arrives as long as neither happens.                                         *)
LastCopyWins == ~repeated /\ ~outdated => LastCopyArrives

(* Copies do not bounce between the two ends for ever, unless they cross.      *)
Quiet == calm => \A e \in End : reads[e] = <<>> /\ (Connected(e) => wire[e] = <<>>)
NoPingPong == <>[]Quiet
-----------------------------------------------------------------------------
(* The inductive invariant of LastCopyWins, which module MCExchanges proves    *)

Content == Text \cup {Empty}
Read == [connect : BOOLEAN, text : Content]
Packet == [kind : {"clipboard"}, text : Content]
          \cup [kind : {"connect"}, text : Content, time : Nat]

(* Only a device that is paired has a channel, and its plugin was told           *)
TypeOK ==
    /\ link \in [up : BOOLEAN, count : Nat, paired : BOOLEAN, ends : SUBSET End]
    /\ link.up \/ link.ends # {} => link.paired
    /\ available \in [End -> BOOLEAN] /\ watching = available
    /\ \A e \in link.ends : available[e]
    /\ wire \in [End -> Seq(Packet)]
    /\ reads \in [End -> Seq(Read)]
    /\ content \in [End -> Content] /\ remote \in [End -> Content]
    /\ autoPush \in [End -> BOOLEAN] /\ autoPull \in [End -> BOOLEAN]
    /\ latest \in Content
    /\ now \in Nat /\ local \in [End -> 0..now]

(* What is read or sent is the last copy. Only the exchange at a connection     *)
(* brings another text, and then the end that gets it has something newer       *)
OnTheWay(e) ==
    /\ \A r \in ToSet(reads[e]) :
          IF r.connect THEN latest \in {r.text, content[Other(e)]} ELSE r.text = latest
    /\ \A p \in ToSet(wire[e]) :
          \/ p.text = latest
          \/ p.kind = "connect" /\ content[e] = latest /\ p.time < local[e]

(* What an end that has not got the last copy waits for: a text that the other  *)
(* end is reading, which will be sent, or a packet, which will be taken         *)
Awaits(e) ==
    \/ reads[Other(e)] # <<>>
    \/ \E p \in ToSet(wire[e]) :
          p.text = latest /\ (p.kind = "clipboard" \/ p.time > local[e])

(* An end that has not got the last copy is older than the other, which was not *)
(* told of that text, and has not read anything else to send; if the other end  *)
(* has a channel the copy is under way                                          *)
Behind(e) ==
    LET o == Other(e)
    IN  /\ latest # Empty /\ content[o] = latest /\ remote[o] # latest /\ local[e] < local[o]
        /\ \A r \in ToSet(reads[e]) : r.connect
        /\ \A p \in ToSet(wire[o]) : p.text # latest
        /\ CanSend(o) => Awaits(e)

Synced == \A e \in End : OnTheWay(e) /\ (content[e] # latest => Behind(e))

Undisturbed == Automatic /\ ~repeated /\ ~outdated
Inv == TypeOK /\ (Undisturbed => Synced)
=============================================================================
