-------------------------- MODULE MutterClipboard --------------------------
(***************************************************************************)
(* The clipboard adapter over a remote desktop session of Mutter.  Whoever *)
(* copies owns the selection: Valent keeps the content of what it offers   *)
(* and is asked for it, and asks Mutter for what others offer.  Somebody   *)
(* listens to the clipboard and reads it at each change.  Calls and        *)
(* signals are two queues; pipes are as fast as those at their ends.       *)
(***************************************************************************)
EXTENDS Integers, Sequences, FiniteSets, SequencesExt

CONSTANTS
    MaxCopies,           \* bounds the copies; each has a text of its own, its number
    MaxSessions,
    MaxFaults,           \* bounds what stops a session, and the pastes
    None                 \* no owner, content or session

VARIABLES
    up,                  \* Mutter owns its name on the bus
    sessions,            \* the sessions it has
    selection,           \* its selection: owner, text
    transfers,           \* what waits for Valent to write: reads, or a paste (0)
    pipes,               \* what is written for a read: read, text
    signals, calls,      \* to the adapter, and from it
    alive,               \* the adapter is there
    connection, session, \* session_path, subscribed to while it is set
    content, mimetypes, isOwner,
    state,               \* the state of the plugin
    reads,               \* of each read of the listener: what it got
    told,                \* the session in which an owner was last heard of
    leaked,              \* sessions that the adapter never knew or forgot
    copies, opened, faults

mutterVars == <<up, sessions, selection, transfers>>
cacheVars == <<content, mimetypes, isOwner>>
adapterVars == <<alive, connection, session, cacheVars, state, told>>
boundVars == <<copies, opened, faults>>
vars == <<mutterVars, pipes, signals, calls, adapterVars, reads, leaked, boundVars>>

Text == 1..MaxCopies
Other == MaxSessions + 1     \* an owner that is not Valent
Pending == MaxCopies + 1     \* what a read got so far,
Failed == MaxCopies + 2      \* and that it failed, or got nothing

Message(name, s, x) == [name |-> name, session |-> s, arg |-> x]
Nobody == [owner |-> None, text |-> None]
Presence(there) == Message(IF there THEN "appeared" ELSE "vanished", None, None)

Init ==
    /\ up \in BOOLEAN /\ sessions = {} /\ transfers = {} /\ pipes = {} /\ calls = <<>>
    /\ selection = Nobody
    /\ alive = TRUE /\ signals = <<Presence(up)>>
    /\ connection = FALSE /\ session = None /\ content = None /\ mimetypes = FALSE
    /\ isOwner = FALSE /\ state = "inactive" /\ reads = <<>> /\ told = None /\ leaked = {}
    /\ copies = 0 /\ opened = 0 /\ faults = 0

Settled == signals = <<>> /\ calls = <<>>
Bound == alive /\ session # None /\ session \in sessions /\ told = session
-----------------------------------------------------------------------------
(* Mutter: sessions are told of the owner; of nobody there are no formats       *)
OwnerChanged(sel) ==
    [i \in 1..Cardinality(sessions) |->
        LET s == SetToSeq(sessions)[i] IN
        [Message("owner", s, sel.owner # None) EXCEPT !.arg = <<@, sel.owner = s>>]]

Select(sel) ==
    /\ selection' = sel
    /\ signals' = signals \o OwnerChanged(sel)

(* An application copies, or clears what it offered                           *)
OtherCopies ==
    /\ up /\ copies < MaxCopies /\ copies' = copies + 1
    /\ \/ Select([owner |-> Other, text |-> copies'])
       \/ selection.owner = Other /\ Select(Nobody)
    /\ UNCHANGED <<up, sessions, transfers, pipes, calls, adapterVars, reads, leaked, opened,
                   faults>>

(* An application pastes what Valent offers                                    *)
Paste ==
    /\ selection.owner \in sessions /\ 0 \notin transfers
    /\ faults < MaxFaults /\ faults' = faults + 1
    /\ transfers' = transfers \cup {0}
    /\ signals' = Append(signals, Message("transfer", selection.owner, 0))
    /\ UNCHANGED <<up, sessions, selection, pipes, calls, adapterVars, reads, leaked, copies,
                   opened>>

(* Mutter waits no longer for a transfer                                       *)
TransferTimesOut(t) ==
    /\ t \in transfers /\ transfers' = transfers \ {t}
    /\ pipes' = pipes \cup (IF t = 0 THEN {} ELSE {<<t, Failed>>})
    /\ UNCHANGED <<up, sessions, selection, signals, calls, adapterVars, reads, leaked, boundVars>>

HandleCreateSession ==
    \/ /\ opened < MaxSessions /\ opened' = opened + 1
       /\ sessions' = sessions \cup {opened'}
       /\ IF Head(calls).session = 0          \* of an adapter that was destroyed
            THEN leaked' = leaked \cup {opened'} /\ UNCHANGED signals
            ELSE signals' = Append(signals, Message("created", opened', None)) /\ UNCHANGED leaked
       /\ UNCHANGED <<up, selection, transfers, pipes>>
    \/ /\ IF Head(calls).session = 0 THEN UNCHANGED signals
                                     ELSE signals' = Append(signals, Message("refused", None, None))
       /\ UNCHANGED <<mutterVars, pipes, leaked, opened>>

(* SetSelection: whoever has the selection is told                             *)
HandleSetSelection(c) ==
    /\ Select([owner |-> c.session, text |-> c.arg])
    /\ UNCHANGED <<up, sessions, transfers, pipes, leaked, opened>>

HandleSelectionRead(c) ==
    /\ CASE selection.owner = None ->
              pipes' = pipes \cup {<<c.arg, Failed>>} /\ UNCHANGED <<transfers, signals>>
         [] selection.owner = Other ->
              pipes' = pipes \cup {<<c.arg, selection.text>>} /\ UNCHANGED <<transfers, signals>>
         [] OTHER ->
              /\ transfers' = transfers \cup {c.arg} /\ UNCHANGED pipes
              /\ signals' = Append(signals, Message("transfer", selection.owner, c.arg))
    /\ UNCHANGED <<up, sessions, selection, leaked, opened>>

(* SelectionWrite gives a pipe to write to, for a transfer it still waits for   *)
HandleSelectionWrite(c) ==
    /\ signals' = IF c.arg[1] \in transfers
                    THEN Append(signals, Message("write", c.session, c.arg)) ELSE signals
    /\ UNCHANGED <<mutterVars, pipes, leaked, opened>>

HandleSelectionWriteDone(c) ==
    /\ transfers' = transfers \ {c.arg[1]}
    /\ pipes' = IF c.arg[1] \in transfers /\ c.arg[1] # 0 THEN pipes \cup {c.arg} ELSE pipes
    /\ UNCHANGED <<up, sessions, selection, signals, leaked, opened>>

(* A session ends, and what it offered with it                                 *)
SessionEnds(s) ==
    /\ sessions' = sessions \ {s} /\ transfers' = {}
    /\ pipes' = pipes \cup {<<t, Failed>> : t \in transfers \ {0}}
    /\ selection' = IF selection.owner = s THEN Nobody ELSE selection
    /\ signals' = Append(signals, Message("closed", s, None))

HandleCall ==
    /\ up /\ calls # <<>> /\ calls' = Tail(calls)
    /\ LET c == Head(calls) IN
       \/ c.name = "create" /\ HandleCreateSession
       \/ c.name = "enable" /\ c.session \in sessions
          /\ signals' = Append(signals, Message("enabled", c.session, None))
          /\ UNCHANGED <<mutterVars, pipes, leaked, opened>>
       \/ c.name = "set" /\ c.session \in sessions /\ HandleSetSelection(c)
       \/ c.name = "read" /\ c.session \in sessions /\ HandleSelectionRead(c)
       \/ c.name = "write" /\ c.session \in sessions /\ HandleSelectionWrite(c)
       \/ c.name = "done" /\ c.session \in sessions /\ HandleSelectionWriteDone(c)
       \/ c.name = "stop" /\ c.session \in sessions /\ SessionEnds(c.session) /\ UNCHANGED <<up, leaked, opened>>
       \/ /\ c.name # "create" /\ c.session \notin sessions     \* an error
          /\ pipes' = IF c.name = "read" THEN pipes \cup {<<c.arg, Failed>>} ELSE pipes
          /\ signals' = IF c.name = "enable" THEN Append(signals, Message("refused", None, None)) ELSE signals
          /\ UNCHANGED <<mutterVars, leaked, opened>>
    /\ UNCHANGED <<adapterVars, reads, copies, faults>>

(* The user ends the session in the shell                                      *)
MutterCloses(s) ==
    /\ s \in sessions /\ faults < MaxFaults /\ faults' = faults + 1
    /\ SessionEnds(s)
    /\ UNCHANGED <<up, calls, adapterVars, reads, leaked, copies, opened>>

(* The name comes and goes with the shell; what was called then fails          *)
MutterStarts ==
    /\ ~up /\ up' = TRUE
    /\ signals' = IF alive THEN Append(signals, Presence(TRUE)) ELSE signals
    /\ UNCHANGED <<sessions, selection, transfers, pipes, calls, adapterVars, reads, leaked,
                   boundVars>>

MutterStops ==
    /\ up /\ up' = FALSE /\ faults < MaxFaults /\ faults' = faults + 1
    /\ sessions' = {} /\ transfers' = {} /\ calls' = <<>> /\ leaked' = {}
    /\ selection' \in {Nobody} \cup {x \in {selection} : x.owner = Other}
    /\ pipes' = pipes \cup {<<t, Failed>> : t \in transfers \ {0}}
                      \cup {<<calls[i].arg, Failed>> : i \in {j \in DOMAIN calls : calls[j].name = "read"}}
    /\ LET errors == SelectSeq(calls, LAMBDA c : c.name \in {"create", "enable"} /\ c.session # 0) IN
       signals' = IF ~alive THEN signals
                  ELSE Append(signals, Presence(FALSE))
                         \o [i \in DOMAIN errors |-> Message("refused", None, None)]
    /\ UNCHANGED <<adapterVars, reads, copies, opened>>
-----------------------------------------------------------------------------
(* valent_mutter_clipboard_read_bytes(): what Valent offers is in the cache     *)
ReadBytes(owner, cached) ==
    CASE ~connection \/ session = None ->
           reads' = Append(reads, Failed) /\ UNCHANGED calls
      [] owner /\ cached # None ->
           reads' = Append(reads, cached) /\ UNCHANGED calls
      [] OTHER ->
           /\ reads' = Append(reads, Pending)
           /\ calls' = Append(calls, Message("read", session, Len(reads) + 1))

(* valent_clipboard_read_text(): without a format for text it fails at once      *)
ReadText(formats, owner, cached) ==
    IF formats THEN ReadBytes(owner, cached)
               ELSE reads' = Append(reads, Failed) /\ UNCHANGED calls

(* on_clipboard_adapter_changed(), at which the listener reads                  *)
Changed == ReadText(mimetypes', isOwner', content')

(* selection_read_cb(), g_input_stream_read_bytes_cb()                         *)
ReadBytesCallback ==
    \E p \in pipes :
        /\ pipes' = pipes \ {p} /\ reads' = [reads EXCEPT ![p[1]] = p[2]]
        /\ UNCHANGED <<mutterVars, signals, calls, adapterVars, leaked, boundVars>>

(* on_selection_owner_changed(): formats that are not told stay as they were     *)
OnSelectionOwnerChanged(m) ==
    /\ mimetypes' = (mimetypes \/ m.arg[1]) /\ isOwner' = m.arg[2] /\ told' = m.session
    /\ content' = IF isOwner' THEN content ELSE None
    /\ Changed
    /\ UNCHANGED <<connection, session, state>>

(* on_selection_transfer(), valent_mutter_clipboard_selection_write()          *)
OnSelectionTransfer(m) ==
    /\ calls' = Append(calls, Message("write", session, <<m.arg, content>>))
    /\ UNCHANGED <<connection, session, cacheVars, state, told, reads>>

(* selection_write_cb(), g_output_stream_write_bytes_cb(): no bytes cannot be   *)
(* written, and that is not told                                              *)
SelectionWriteCallback(m) ==
    /\ calls' = IF m.arg[2] # None /\ connection /\ session # None
                  THEN Append(calls, Message("done", session, m.arg)) ELSE calls
    /\ UNCHANGED <<connection, session, cacheVars, state, told, reads>>

(* on_closed(): the connection is kept                                         *)
OnClosed ==
    /\ session' = None
    /\ UNCHANGED <<connection, cacheVars, state, told, reads, calls>>

(* create_session_cb(): after two restarts there may be a session already        *)
CreateSessionCallback(m) ==
    /\ session' = m.session /\ leaked' = leaked \cup ({session} \ {None})
    /\ calls' = Append(calls, Message("enable", m.session, None))
    /\ UNCHANGED <<connection, cacheVars, state, told, reads>>

(* enable_clipboard_cb(), create_session_error_handler()                       *)
SessionReady(m) ==
    /\ state' = IF m.name = "enabled" THEN "active" ELSE "error"
    /\ UNCHANGED <<connection, session, cacheVars, told, reads, calls>>

(* on_name_appeared(): a second time it returns                                *)
OnNameAppeared ==
    /\ connection' = TRUE
    /\ calls' = IF connection THEN calls ELSE Append(calls, Message("create", None, None))
    /\ UNCHANGED <<session, cacheVars, state, told, reads>>

StopCall == IF connection /\ session # None THEN <<Message("stop", session, None)>> ELSE <<>>

(* on_name_vanished(): calls to nobody fail                                    *)
OnNameVanished ==
    /\ connection' = FALSE /\ session' = None /\ state' = "inactive"
    /\ calls' = IF up THEN calls \o StopCall ELSE calls
    /\ UNCHANGED <<cacheVars, told, reads>>

(* Signals are subscribed to by session                                        *)
Unsubscribed(m) == m.name \in {"owner", "transfer", "closed"} /\ m.session # session

HandleSignal ==
    /\ alive /\ signals # <<>> /\ signals' = Tail(signals)
    /\ LET m == Head(signals) IN
       \/ Unsubscribed(m) /\ UNCHANGED <<connection, session, cacheVars, state, told, reads, calls>>
       \/ ~Unsubscribed(m) /\ m.name = "owner" /\ OnSelectionOwnerChanged(m)
       \/ ~Unsubscribed(m) /\ m.name = "transfer" /\ OnSelectionTransfer(m)
       \/ ~Unsubscribed(m) /\ m.name = "closed" /\ OnClosed
       \/ m.name = "write" /\ SelectionWriteCallback(m)
       \/ m.name \in {"enabled", "refused"} /\ SessionReady(m)
       \/ m.name = "appeared" /\ OnNameAppeared
       \/ m.name = "vanished" /\ OnNameVanished
       \/ m.name = "created" /\ CreateSessionCallback(m)
    /\ Head(signals).name # "created" => UNCHANGED leaked
    /\ UNCHANGED <<mutterVars, pipes, alive, boundVars>>

(* valent_mutter_clipboard_write_bytes(): without a session it fails            *)
WriteBytes(text) ==
    /\ connection /\ session # None
    /\ content' = text /\ mimetypes' = TRUE
    /\ calls' = Append(calls, Message("set", session, text))

(* valent_clipboard_write_text()                                             *)
WriteText ==
    /\ alive /\ copies < MaxCopies /\ copies' = copies + 1
    /\ WriteBytes(copies')
    /\ UNCHANGED <<mutterVars, pipes, signals, alive, connection, session, isOwner, state, reads, told,
                   leaked, opened, faults>>

(* valent_mutter_clipboard_destroy(): it is unwatched, and what was called is   *)
(* cancelled but for the reads; a session that it asked for is then lost       *)
Destroy ==
    /\ alive /\ alive' = FALSE /\ faults < MaxFaults /\ faults' = faults + 1
    /\ connection' = FALSE /\ session' = None /\ content' = None /\ mimetypes' = FALSE
    /\ state' = "inactive" /\ signals' = <<>>
    /\ calls' = [i \in DOMAIN calls |-> IF calls[i].name = "create" THEN [calls[i] EXCEPT !.session = 0]
                                                                    ELSE calls[i]]
                \o (IF up THEN StopCall ELSE <<>>)
    /\ leaked' = leaked \cup {signals[i].session : i \in {j \in DOMAIN signals : signals[j].name = "created"}}
    /\ UNCHANGED <<mutterVars, pipes, isOwner, reads, told, copies, opened>>

(* valent_mutter_clipboard_constructed(), of the next one: the name is watched  *)
Constructed ==
    /\ ~alive /\ alive' = TRUE /\ isOwner' = FALSE /\ told' = None
    /\ signals' = <<Presence(up)>>
    /\ UNCHANGED <<mutterVars, pipes, calls, connection, session, content, mimetypes, state, reads,
                   leaked, boundVars>>

Next ==
    \/ OtherCopies \/ Paste \/ HandleCall \/ MutterStarts \/ MutterStops
    \/ \E t \in 0..MaxCopies + 1 : TransferTimesOut(t)
    \/ \E s \in 1..MaxSessions : MutterCloses(s)
    \/ HandleSignal \/ ReadBytesCallback \/ WriteText \/ Destroy \/ Constructed

Spec == Init /\ [][Next]_vars
-----------------------------------------------------------------------------
(* Once every signal of a session was handled, the adapter knows whether it     *)
(* owns the selection, and what it keeps is nothing or what it offers: nothing  *)
(* of an earlier selection is left.                                            *)
OwnerIsKnown ==
    Settled /\ Bound =>
        /\ isOwner = (selection.owner = session)
        /\ selection.owner # None => mimetypes
        /\ content \in {None} \cup {selection.text}

(* What the listener read last, after the last change of the selection, is what *)
(* the other application offers, whatever was read and answered before.         *)
LastReadIsCurrent ==
    Settled /\ Bound /\ selection.owner = Other /\ reads[Len(reads)] # Pending =>
        reads[Len(reads)] = selection.text

(* Mutter has no session of an adapter that is gone, nor a second one of this   *)
(* one, but those that it was not told of before it was destroyed.              *)
SessionsAreStopped ==
    Settled => sessions \subseteq leaked \cup (IF alive THEN {session} ELSE {})
=============================================================================
