------------------------------ MODULE MCPlugins ------------------------------
(*****************************************************************************)
(* The device plugins, each with the service behind it and its other end.    *)
(* They share nothing but the device: one of them runs in each behaviour,    *)
(* and the states of the parts add up instead of multiplying.                *)
(*****************************************************************************)
EXTENDS PluginLink

CONSTANT None                \* no output, owner, session, name

VARIABLES
    part,                \* the part that runs
    v1, v2, v3, v4, v5, v6, v7, v8, v9, v10, v11, v12, v13, v14, v15, v16, v17, v18, v19, v20      \* its variables

Battery == INSTANCE Battery WITH
    upower <- v1, signals <- v2, proxy <- v3, battery <- v4, watch <- v5, mirror <- v6,
    gaction <- v7, shown <- v8, settings <- v9, events <- v10, lost <- v11, MaxCharge <- 2,
    LowCharge <- 1, MaxEvents <- 2
Connectivity == INSTANCE Connectivity WITH
    modem <- v1, signals <- v2, proxies <- v3, modems <- v4, watch <- v5, shares <- v6,
    told <- v7, report <- v8, enabled <- v9, offline <- v10, events <- v11, Modem <- {"m", "n"},
    MaxStrength <- 1, MaxEvents <- 2
SystemVolume == INSTANCE SystemVolume WITH
    streams <- v1, default <- v2, watch <- v3, states <- v4, adapter <- v5, events <- v6,
    listed <- v7, Stream <- {"s", "t"}, NoStream <- None, Level <- 0..1, MaxEvents <- 2
Mpris == INSTANCE Mpris WITH
    bus <- v1, signals <- v2, search <- v3, names <- v4, heard <- v5, inits <- v6,
    players <- v7, announced <- v8, pending <- v9, pendingList <- v10, watch <- v11,
    remote <- v12, events <- v13, Player <- {"p", "q"}, Value <- 0..1, Unset <- -1,
    MaxEvents <- 2
Contacts == INSTANCE Contacts WITH
    peer <- v1, book <- v2, sending <- v3, updates <- v4, store <- v5, listStored <- v6,
    notices <- v7, search <- v8, list <- v9, query <- v10, loads <- v11, items <- v12,
    missed <- v13, events <- v14, Uid <- {"a", "b"}, MaxEvents <- 1
Notification == INSTANCE Notification WITH
    phone <- v1, once <- v2, cache <- v3, downloads <- v4, shown <- v5, excused <- v6,
    desktop <- v7, watch <- v8, hooked <- v9, uploads <- v10, tray <- v11, late <- v12,
    events <- v13, Id <- {"a"}, Own <- {"o"}, MaxTries <- 2, MaxEvents <- 3
Sms == INSTANCE Sms WITH
    latest <- v1, queries <- v2, requests <- v3, batches <- v4, store <- v5, cut <- v6,
    events <- v7, MaxMessages <- 3, MaxEvents <- 2, MaxResults <- 2, MaxWire <- 1
SmsAttachments == INSTANCE SmsAttachments WITH
    queue <- v1, checking <- v2, transfers <- v3, recording <- v4, recorded <- v5, cache <- v6,
    cut <- v7, queued <- v8, Attachment <- {"x", "y"}, MaxQueued <- 3
Lock == INSTANCE Lock WITH
    locked <- v1, asked <- v2, remoteLocked <- v3, watching <- v4, events <- v5, MaxEvents <- 2
Runcommand == INSTANCE Runcommand WITH
    commands <- v1, menu <- v2, watching <- v3, subprocesses <- v4, processes <- v5,
    events <- v6, Command <- {"a"}, MaxEvents <- 3
Mousepad == INSTANCE Mousepad WITH
    primary <- v1, localState <- v2, watch <- v3, remoteState <- v4, exported <- v5,
    pressed <- v6, events <- v7, lost <- v8, MaxEvents <- 3
MousepadDevice == INSTANCE MousepadDevice WITH
    keys <- v1, modifiers <- v2, flushId <- v3, idles <- v4, typed <- v5, received <- v6,
    pointer <- v7, doubleclick <- v8, longpress <- v9, down <- v10, clicks <- v11,
    presses <- v12, Key <- {417, 65421, 65379}, ModifierKey <- {65507, 65027},
    Table <- {<<417, 260>>}, Meaning <- {<<417, 417>>, <<65421, 65293>>}, MaxKeys <- 3,
    MaxPresses <- 3
Telephony == INSTANCE Telephony WITH
    levels <- v1, muted <- v2, default <- v3, playing <- v4, pausing <- v5, speakers <- v6,
    tracked <- v7, calls <- v8, notices <- v9, before <- v10, touched <- v11, events <- v12,
    Phone <- {"p", "q"}, Output <- {"o", "r"}, NoOutput <- None, Player <- {"x"},
    Sender <- {"m", "n"}, MaxLevel <- 2, MaxEvents <- 3
Ringer == INSTANCE Ringer WITH
    connected <- v1, available <- v2, plugins <- v3, playbin <- v4, ringing <- v5, sound <- v6,
    notified <- v7, owner <- v8, started <- v9, rings <- v10, Device <- {"d", "e"},
    NoOwner <- None, MaxRings <- 4
Sftp == INSTANCE Sftp WITH
    connected <- v1, available <- v2, host <- v3, session <- v4, menu <- v5, privkeyReady <- v6,
    adding <- v7, mounting <- v8, mounts <- v9, answers <- v10, served <- v11, events <- v12,
    Port <- {"p", "q"}, Matched <- {"p"}, None <- None, MaxEvents <- 3
MessageThread == INSTANCE MessageThread WITH
    rank <- v1, store <- v2, notices <- v3, searches <- v4, entries <- v5, view <- v6,
    excused <- v7, batches <- v8, MaxDate <- 3, MaxBatches <- 2, MaxAttachments <- 2
Pipewire == INSTANCE Pipewire WITH
    daemon <- v1, inbox <- v2, asked <- v3, nodes <- v4, device <- v5, invoked <- v6,
    sets <- v7, streams <- v8, default <- v9, busy <- v10, closing <- v11, events <- v12,
    Name <- {"p"}, NoName <- None, MaxLevel <- 1, MaxEvents <- 6
MessagesWindow == INSTANCE MessagesWindow WITH
    adapter <- v1, contacts <- v2, text <- v3, pending <- v4, search <- v5, tasks <- v6,
    results <- v7, failed <- v8, stack <- v9, contactPage <- v10, searchPage <- v11,
    dialog <- v12, lookups <- v13, running <- v14, events <- v15, Adapter <- {"A", "B"},
    Paired <- {"A"}, Rows <- [q |-> <<1, 1, 2>>, r |-> <<2>>],
    Matches <- [q |-> <<1>>, r |-> <<2>>], Media <- <<{"m"}, {"m", "n"}>>,
    Participants <- <<{"m"}, {"n", "m"}>>, MaxEvents <- 4, None <- None
DesktopNotifications == INSTANCE DesktopNotifications WITH
    kind <- v1, phase <- v2, filter <- v3, idle <- v4, calls <- v5, open <- v6, pending <- v7,
    active <- v8, items <- v9, lost <- v10, events <- v11, App <- {"a", "b"}, Serial <- {1, 2},
    MaxEvents <- 3
LanDnssd == INSTANCE LanDnssd WITH
    object <- v1, watching <- v2, connection <- v3, server <- v4, group <- v5, browser <- v6,
    calls <- v7, signals <- v8, items <- v9, pending <- v10, idle <- v11, identity <- v12,
    daemon <- v13, Name <- {"a", "b"}, Interface <- {1, 2}, MaxEvents <- 3, MaxRestarts <- 1,
    MaxRenames <- 1
Component == INSTANCE Component WITH
    component <- v1, loaded <- v2, enabled <- v3, extension <- v4, made <- v5,
    pluginState <- v6, pendingInit <- v7, items <- v8, primary <- v9, changes <- v10,
    Plugin <- {"p", "q"}, Initable <- {"q"}, Priority <- [p |-> 1, q |-> 0], Foreign <- {"f"},
    MaxAdapters <- 2, MaxChanges <- 4, None <- None
MediaExport == INSTANCE MediaExport WITH
    link <- v1, available <- v2, wire <- v3, phone <- v4, player <- v5, cached <- v6,
    fetching <- v7, adapter <- v8, impl <- v9, ghosts <- v10, exports <- v11, bus <- v12,
    calls <- v13, clients <- v14, events <- v15, Track <- {"t", "u"}, MaxLinks <- 1,
    MaxEvents <- 2, None <- None
InputSession == INSTANCE InputSession WITH
    xdp <- v1, sessions <- v2, ei <- v3, eis <- v4, events <- v5, down <- v6, held <- v7,
    inputs <- v8, MaxSessions <- 2, MaxDevices <- 3, MaxInput <- 3, None <- None
MutterClipboard == INSTANCE MutterClipboard WITH
    up <- v1, sessions <- v2, selection <- v3, transfers <- v4, pipes <- v5, signals <- v6,
    calls <- v7, alive <- v8, connection <- v9, session <- v10, content <- v11,
    mimetypes <- v12, isOwner <- v13, state <- v14, reads <- v15, told <- v16, leaked <- v17,
    copies <- v18, opened <- v19, faults <- v20, MaxCopies <- 2, MaxSessions <- 2,
    MaxFaults <- 2, None <- None
BluezService == INSTANCE BluezService WITH
    up <- v1, profiles <- v2, objects <- v3, signals <- v4, calls <- v5, alive <- v6,
    nameOwner <- v7, registered <- v8, inRegistration <- v9, devices <- v10, handshakes <- v11,
    muxers <- v12, open <- v13, state <- v14, conns <- v15, events <- v16, Dev <- {"d"},
    MaxConns <- 1, MaxEvents <- 2, None <- None
SharePlugin == INSTANCE SharePlugin WITH
    transfers <- v1, table <- v2, current <- v3, notices <- v4, text <- v5, plugin <- v6,
    paired <- v7, events <- v8, MaxTransfers <- 2, MaxEvents <- 4, None <- None
Packet == INSTANCE Packet WITH
    draft <- v1, written <- v2, unsent <- v3, sent <- v4, stream <- v5, closed <- v6,
    reader <- v7, line <- v8, size <- v9, results <- v10, MaxLen <- 5, FirstSize <- 2,
    MaxDocuments <- 2
Identity == INSTANCE Identity WITH
    files <- v1, setting <- v2, theirs <- v3, service <- v4, identity <- v5, known <- v6,
    engine <- v7, enabled <- v8, device <- v9, plugins <- v10, made <- v11, handlers <- v12,
    actions <- v13, exported <- v14, freed <- v15, impl <- v16, client <- v17, events <- v18,
    Plugin <- {"p", "q", "n"}, Incoming <- [p |-> {"a"}, q |-> {"b"}, n |-> None],
    Outgoing <- [p |-> {"a", "b"}, q |-> {}, n |-> None],
    Name <- {<<>>, <<"wide", "wide">>, <<".", "x">>}, HostName <- <<"x", "x", "x", "x">>,
    MaxBytes <- 3, Port <- {1, 2}, MaxEvents <- 3, None <- None
ConversationPage == INSTANCE ConversationPage WITH
    thread <- v1, loaded <- v2, rows <- v3, top <- v4, bottom <- v5, populateId <- v6,
    entry <- v7, sending <- v8, phone <- v9, sent <- v10, hidden <- v11, stale <- v12,
    MaxDate <- 4, Text <- {"", "x"}, MaxFiles <- 1, PageSize <- 2, MaxSent <- 2, None <- None
Object == INSTANCE Object WITH
    parent <- v1, children <- v2, destroyed <- v3, cancelled <- v4, emissions <- v5,
    finalizerQueue <- v6, pushing <- v7, tailGone <- v8, mainLoop <- v9, requests <- v10,
    Obj <- {"o1", "o2", "o3"}, MaxRequests <- 2, None <- None

allVars == <<linkVars, part, v1, v2, v3, v4, v5, v6, v7, v8, v9, v10, v11, v12, v13, v14, v15, v16, v17, v18, v19, v20>>

(* What a part does not use stays as it is                                   *)
Unused == <<>>

MCInit ==
    \/ /\ part = "Battery" /\ Battery!Init
       /\ v12 = Unused /\ v13 = Unused /\ v14 = Unused /\ v15 = Unused /\ v16 = Unused /\ v17 = Unused
       /\ v18 = Unused /\ v19 = Unused /\ v20 = Unused
    \/ /\ part = "Connectivity" /\ Connectivity!Init
       /\ v12 = Unused /\ v13 = Unused /\ v14 = Unused /\ v15 = Unused /\ v16 = Unused /\ v17 = Unused
       /\ v18 = Unused /\ v19 = Unused /\ v20 = Unused
    \/ /\ part = "SystemVolume" /\ SystemVolume!Init
       /\ v8 = Unused /\ v9 = Unused /\ v10 = Unused /\ v11 = Unused /\ v12 = Unused /\ v13 = Unused
       /\ v14 = Unused /\ v15 = Unused /\ v16 = Unused /\ v17 = Unused /\ v18 = Unused /\ v19 = Unused
       /\ v20 = Unused
    \/ /\ part = "Mpris" /\ Mpris!Init
       /\ v14 = Unused /\ v15 = Unused /\ v16 = Unused /\ v17 = Unused /\ v18 = Unused /\ v19 = Unused
       /\ v20 = Unused
    \/ /\ part = "Contacts" /\ Contacts!Init
       /\ v15 = Unused /\ v16 = Unused /\ v17 = Unused /\ v18 = Unused /\ v19 = Unused /\ v20 = Unused
    \/ /\ part = "Notification" /\ Notification!Init
       /\ v14 = Unused /\ v15 = Unused /\ v16 = Unused /\ v17 = Unused /\ v18 = Unused /\ v19 = Unused
       /\ v20 = Unused
    \/ /\ part = "Sms" /\ Sms!Init
       /\ v8 = Unused /\ v9 = Unused /\ v10 = Unused /\ v11 = Unused /\ v12 = Unused /\ v13 = Unused
       /\ v14 = Unused /\ v15 = Unused /\ v16 = Unused /\ v17 = Unused /\ v18 = Unused /\ v19 = Unused
       /\ v20 = Unused
    \/ /\ part = "SmsAttachments" /\ SmsAttachments!Init
       /\ v9 = Unused /\ v10 = Unused /\ v11 = Unused /\ v12 = Unused /\ v13 = Unused /\ v14 = Unused
       /\ v15 = Unused /\ v16 = Unused /\ v17 = Unused /\ v18 = Unused /\ v19 = Unused /\ v20 = Unused
    \/ /\ part = "Lock" /\ Lock!Init
       /\ v6 = Unused /\ v7 = Unused /\ v8 = Unused /\ v9 = Unused /\ v10 = Unused /\ v11 = Unused
       /\ v12 = Unused /\ v13 = Unused /\ v14 = Unused /\ v15 = Unused /\ v16 = Unused /\ v17 = Unused
       /\ v18 = Unused /\ v19 = Unused /\ v20 = Unused
    \/ /\ part = "Runcommand" /\ Runcommand!Init
       /\ v7 = Unused /\ v8 = Unused /\ v9 = Unused /\ v10 = Unused /\ v11 = Unused /\ v12 = Unused
       /\ v13 = Unused /\ v14 = Unused /\ v15 = Unused /\ v16 = Unused /\ v17 = Unused /\ v18 = Unused
       /\ v19 = Unused /\ v20 = Unused
    \/ /\ part = "Mousepad" /\ Mousepad!Init
       /\ v9 = Unused /\ v10 = Unused /\ v11 = Unused /\ v12 = Unused /\ v13 = Unused /\ v14 = Unused
       /\ v15 = Unused /\ v16 = Unused /\ v17 = Unused /\ v18 = Unused /\ v19 = Unused /\ v20 = Unused
    \/ /\ part = "MousepadDevice" /\ MousepadDevice!Init
       /\ v13 = Unused /\ v14 = Unused /\ v15 = Unused /\ v16 = Unused /\ v17 = Unused /\ v18 = Unused
       /\ v19 = Unused /\ v20 = Unused
       /\ LinkInit
    \/ /\ part = "Telephony" /\ Telephony!Init
       /\ v13 = Unused /\ v14 = Unused /\ v15 = Unused /\ v16 = Unused /\ v17 = Unused /\ v18 = Unused
       /\ v19 = Unused /\ v20 = Unused
       /\ LinkInit
    \/ /\ part = "Ringer" /\ Ringer!Init
       /\ v11 = Unused /\ v12 = Unused /\ v13 = Unused /\ v14 = Unused /\ v15 = Unused /\ v16 = Unused
       /\ v17 = Unused /\ v18 = Unused /\ v19 = Unused /\ v20 = Unused
       /\ LinkInit
    \/ /\ part = "Sftp" /\ Sftp!Init
       /\ v13 = Unused /\ v14 = Unused /\ v15 = Unused /\ v16 = Unused /\ v17 = Unused /\ v18 = Unused
       /\ v19 = Unused /\ v20 = Unused
       /\ LinkInit
    \/ /\ part = "MessageThread" /\ MessageThread!Init
       /\ v9 = Unused /\ v10 = Unused /\ v11 = Unused /\ v12 = Unused /\ v13 = Unused /\ v14 = Unused
       /\ v15 = Unused /\ v16 = Unused /\ v17 = Unused /\ v18 = Unused /\ v19 = Unused /\ v20 = Unused
       /\ LinkInit
    \/ /\ part = "Pipewire" /\ Pipewire!Init
       /\ v13 = Unused /\ v14 = Unused /\ v15 = Unused /\ v16 = Unused /\ v17 = Unused /\ v18 = Unused
       /\ v19 = Unused /\ v20 = Unused
       /\ LinkInit
    \/ /\ part = "MessagesWindow" /\ MessagesWindow!Init
       /\ v16 = Unused /\ v17 = Unused /\ v18 = Unused /\ v19 = Unused /\ v20 = Unused
       /\ LinkInit
    \/ /\ part = "DesktopNotifications" /\ DesktopNotifications!Init
       /\ v12 = Unused /\ v13 = Unused /\ v14 = Unused /\ v15 = Unused /\ v16 = Unused /\ v17 = Unused
       /\ v18 = Unused /\ v19 = Unused /\ v20 = Unused
       /\ LinkInit
    \/ /\ part = "LanDnssd" /\ LanDnssd!Init
       /\ v14 = Unused /\ v15 = Unused /\ v16 = Unused /\ v17 = Unused /\ v18 = Unused /\ v19 = Unused
       /\ v20 = Unused
       /\ LinkInit
    \/ /\ part = "Component" /\ Component!Init
       /\ v11 = Unused /\ v12 = Unused /\ v13 = Unused /\ v14 = Unused /\ v15 = Unused /\ v16 = Unused
       /\ v17 = Unused /\ v18 = Unused /\ v19 = Unused /\ v20 = Unused
       /\ LinkInit
    \/ /\ part = "MediaExport" /\ MediaExport!Init
       /\ v16 = Unused /\ v17 = Unused /\ v18 = Unused /\ v19 = Unused /\ v20 = Unused
       /\ LinkInit
    \/ /\ part = "InputSession" /\ InputSession!Init
       /\ v9 = Unused /\ v10 = Unused /\ v11 = Unused /\ v12 = Unused /\ v13 = Unused /\ v14 = Unused
       /\ v15 = Unused /\ v16 = Unused /\ v17 = Unused /\ v18 = Unused /\ v19 = Unused /\ v20 = Unused
       /\ LinkInit
    \/ /\ part = "MutterClipboard" /\ MutterClipboard!Init
       /\ LinkInit
    \/ /\ part = "BluezService" /\ BluezService!Init
       /\ v17 = Unused /\ v18 = Unused /\ v19 = Unused /\ v20 = Unused
       /\ LinkInit
    \/ /\ part = "SharePlugin" /\ SharePlugin!Init
       /\ v9 = Unused /\ v10 = Unused /\ v11 = Unused /\ v12 = Unused /\ v13 = Unused /\ v14 = Unused
       /\ v15 = Unused /\ v16 = Unused /\ v17 = Unused /\ v18 = Unused /\ v19 = Unused /\ v20 = Unused
       /\ LinkInit
    \/ /\ part = "Packet" /\ Packet!Init
       /\ v11 = Unused /\ v12 = Unused /\ v13 = Unused /\ v14 = Unused /\ v15 = Unused /\ v16 = Unused
       /\ v17 = Unused /\ v18 = Unused /\ v19 = Unused /\ v20 = Unused
       /\ LinkInit
    \/ /\ part = "Identity" /\ Identity!Init
       /\ v19 = Unused /\ v20 = Unused
       /\ LinkInit
    \/ /\ part = "ConversationPage" /\ ConversationPage!Init
       /\ v13 = Unused /\ v14 = Unused /\ v15 = Unused /\ v16 = Unused /\ v17 = Unused /\ v18 = Unused
       /\ v19 = Unused /\ v20 = Unused
       /\ LinkInit
    \/ /\ part = "Object" /\ Object!Init
       /\ v11 = Unused /\ v12 = Unused /\ v13 = Unused /\ v14 = Unused /\ v15 = Unused /\ v16 = Unused
       /\ v17 = Unused /\ v18 = Unused /\ v19 = Unused /\ v20 = Unused
       /\ LinkInit

MCNext ==
    \/ /\ part = "Battery" /\ Battery!Next
       /\ UNCHANGED <<part, v12, v13, v14, v15, v16, v17, v18, v19, v20>>
    \/ /\ part = "Connectivity" /\ Connectivity!Next
       /\ UNCHANGED <<part, v12, v13, v14, v15, v16, v17, v18, v19, v20>>
    \/ /\ part = "SystemVolume" /\ SystemVolume!Next
       /\ UNCHANGED <<part, v8, v9, v10, v11, v12, v13, v14, v15, v16, v17, v18, v19, v20>>
    \/ /\ part = "Mpris" /\ Mpris!Next
       /\ UNCHANGED <<part, v14, v15, v16, v17, v18, v19, v20>>
    \/ /\ part = "Contacts" /\ Contacts!Next
       /\ UNCHANGED <<part, v15, v16, v17, v18, v19, v20>>
    \/ /\ part = "Notification" /\ Notification!Next
       /\ UNCHANGED <<part, v14, v15, v16, v17, v18, v19, v20>>
    \/ /\ part = "Sms" /\ Sms!Next
       /\ UNCHANGED <<part, v8, v9, v10, v11, v12, v13, v14, v15, v16, v17, v18, v19, v20>>
    \/ /\ part = "SmsAttachments" /\ SmsAttachments!Next
       /\ UNCHANGED <<part, v9, v10, v11, v12, v13, v14, v15, v16, v17, v18, v19, v20>>
    \/ /\ part = "Lock" /\ Lock!Next
       /\ UNCHANGED <<part, v6, v7, v8, v9, v10, v11, v12, v13, v14, v15, v16, v17, v18, v19, v20>>
    \/ /\ part = "Runcommand" /\ Runcommand!Next
       /\ UNCHANGED <<part, v7, v8, v9, v10, v11, v12, v13, v14, v15, v16, v17, v18, v19, v20>>
    \/ /\ part = "Mousepad" /\ Mousepad!Next
       /\ UNCHANGED <<part, v9, v10, v11, v12, v13, v14, v15, v16, v17, v18, v19, v20>>
    \/ /\ part = "MousepadDevice" /\ MousepadDevice!Next
       /\ UNCHANGED <<part, linkVars, v13, v14, v15, v16, v17, v18, v19, v20>>
    \/ /\ part = "Telephony" /\ Telephony!Next
       /\ UNCHANGED <<part, linkVars, v13, v14, v15, v16, v17, v18, v19, v20>>
    \/ /\ part = "Ringer" /\ Ringer!Next
       /\ UNCHANGED <<part, linkVars, v11, v12, v13, v14, v15, v16, v17, v18, v19, v20>>
    \/ /\ part = "Sftp" /\ Sftp!Next
       /\ UNCHANGED <<part, linkVars, v13, v14, v15, v16, v17, v18, v19, v20>>
    \/ /\ part = "MessageThread" /\ MessageThread!Next
       /\ UNCHANGED <<part, linkVars, v9, v10, v11, v12, v13, v14, v15, v16, v17, v18, v19, v20>>
    \/ /\ part = "Pipewire" /\ Pipewire!Next
       /\ UNCHANGED <<part, linkVars, v13, v14, v15, v16, v17, v18, v19, v20>>
    \/ /\ part = "MessagesWindow" /\ MessagesWindow!Next
       /\ UNCHANGED <<part, linkVars, v16, v17, v18, v19, v20>>
    \/ /\ part = "DesktopNotifications" /\ DesktopNotifications!Next
       /\ UNCHANGED <<part, linkVars, v12, v13, v14, v15, v16, v17, v18, v19, v20>>
    \/ /\ part = "LanDnssd" /\ LanDnssd!Next
       /\ UNCHANGED <<part, linkVars, v14, v15, v16, v17, v18, v19, v20>>
    \/ /\ part = "Component" /\ Component!Next
       /\ UNCHANGED <<part, linkVars, v11, v12, v13, v14, v15, v16, v17, v18, v19, v20>>
    \/ /\ part = "MediaExport" /\ MediaExport!Next
       /\ UNCHANGED <<part, linkVars, v16, v17, v18, v19, v20>>
    \/ /\ part = "InputSession" /\ InputSession!Next
       /\ UNCHANGED <<part, linkVars, v9, v10, v11, v12, v13, v14, v15, v16, v17, v18, v19, v20>>
    \/ /\ part = "MutterClipboard" /\ MutterClipboard!Next
       /\ UNCHANGED <<part, linkVars>>
    \/ /\ part = "BluezService" /\ BluezService!Next
       /\ UNCHANGED <<part, linkVars, v17, v18, v19, v20>>
    \/ /\ part = "SharePlugin" /\ SharePlugin!Next
       /\ UNCHANGED <<part, linkVars, v9, v10, v11, v12, v13, v14, v15, v16, v17, v18, v19, v20>>
    \/ /\ part = "Packet" /\ Packet!Next
       /\ UNCHANGED <<part, linkVars, v11, v12, v13, v14, v15, v16, v17, v18, v19, v20>>
    \/ /\ part = "Identity" /\ Identity!Next
       /\ UNCHANGED <<part, linkVars, v19, v20>>
    \/ /\ part = "ConversationPage" /\ ConversationPage!Next
       /\ UNCHANGED <<part, linkVars, v13, v14, v15, v16, v17, v18, v19, v20>>
    \/ /\ part = "Object" /\ Object!Next
       /\ UNCHANGED <<part, linkVars, v11, v12, v13, v14, v15, v16, v17, v18, v19, v20>>

MCSpec == MCInit /\ [][MCNext]_allVars
-----------------------------------------------------------------------------

(* Once every signal and packet has arrived the other end shows the battery, *)
(* the modems, the outputs, the players, the lock, the commands, the         *)
(* notifications and the remote keyboard as they are, a menu has the folders *)
(* that are mounted, and a notification tells how its transfer is.  Of what  *)
(* a connection lost: a plugin is not told that it was, so one that went on  *)
(* watching sends at the next connection neither the battery, the outputs    *)
(* nor the keyboard again, and those may differ until they change or are     *)
(* asked for; whatever else was lost is made good.                           *)
MirrorsAgree ==
    /\ part = "Battery" => Battery!Mirrors
    /\ part = "Connectivity" => Connectivity!Mirrors
    /\ part = "SystemVolume" => SystemVolume!VolumesAgree
    /\ part = "Mpris" => Mpris!PlayersAreMirrored
    /\ part = "Lock" => Lock!LocksAgree
    /\ part = "Runcommand" => Runcommand!MenusAgree
    /\ part = "Mousepad" => Mousepad!KeyboardsAreThere
    /\ part = "Sftp" => Sftp!MenuShowsMount
    /\ part = "Notification" => Notification!ShownAgrees /\ Notification!ForwardedAgrees
    /\ part = "MediaExport" => MediaExport!ClientsAgree
    /\ part = "SharePlugin" => SharePlugin!NoticesAgree
    /\ part = "Identity" => Identity!NameIsShown
    /\ part = "Telephony" => Telephony!CallIsShown

(* What a plugin or an adapter keeps of the service behind it is what the    *)
(* service has, once its signals were handled.  Of BlueZ that is the         *)
(* registration of the profile only: the devices that come and go after the  *)
(* adapter was initialised are not heard of.                                 *)
CachesAreCurrent ==
    /\ part = "SystemVolume" => SystemVolume!StatesAreCurrent
    /\ part = "Mpris" => Mpris!PendingIsAnnounced
    /\ part = "Battery" => Battery!WarnsWhenLow
    /\ part = "Pipewire" => Pipewire!StreamsAreNodes /\ Pipewire!LevelsAgree
    /\ part = "DesktopNotifications" => DesktopNotifications!OpenAreListed
    /\ part = "LanDnssd" => LanDnssd!PresentIsListed /\ LanDnssd!IdentityIsPublished
    /\ part = "MutterClipboard" => MutterClipboard!OwnerIsKnown /\ MutterClipboard!LastReadIsCurrent
    /\ part = "BluezService" => BluezService!ProfileAgrees

(* The contacts, the messages and the attachments that the phone had when it *)
(* was last asked are in the stores of the desktop, what is stored is        *)
(* listed, and found; a packet is read as it was written, and nothing of     *)
(* what follows it.                                                          *)
RemoteDataIsStored ==
    /\ part = "Packet" => Packet!PacketsAreIntact /\ Packet!LimitIsExact /\ Packet!ReceivedIsUsable /\ Packet!WrittenIsReadable /\ Packet!WrittenIsDelivered
    /\ part = "Contacts" => Contacts!PhoneIsStored /\ Contacts!StoredIsListed
    /\ part = "Sms" => Sms!ThreadIsComplete
    /\ part = "MessagesWindow" => MessagesWindow!SearchIsCurrent /\ MessagesWindow!PagesAgree
    /\ part = "ConversationPage" => ConversationPage!RowsAreThread /\ ConversationPage!SentIsShown /\ ConversationPage!SentIsShownOnce
    /\ part = "SmsAttachments" => SmsAttachments!FileIsOfAttachment /\ SmsAttachments!QueueIsWorked
    /\ part = "MessageThread" => MessageThread!MessagesAreListed /\ MessageThread!LatestIsNewest

(* What a device caused goes with it: a call that ended leaves the outputs   *)
(* and players as they were, a phone rings only for a device that was not    *)
(* unpaired since, no command of a device is there that was, a session has a *)
(* mount only while it is mounted.                                           *)
NothingIsLeftOver ==
    /\ part = "Telephony" => Telephony!CallLeavesNoTrace
    /\ part = "Ringer" => Ringer!RingsForDevice
    /\ part = "Sftp" => Sftp!MountIsThere
    /\ part = "Runcommand" => Runcommand!NoneIsLeft
    /\ part = "MediaExport" => MediaExport!NoneIsLeft
    /\ part = "InputSession" => InputSession!InputIsReleased
    /\ part = "MutterClipboard" => MutterClipboard!SessionsAreStopped
    /\ part = "SharePlugin" => SharePlugin!RunningIsListed

(* The remote gets the keys in the order they were pressed and no click that *)
(* was not made.                                                             *)
InputIsInOrder ==
    /\ part = "MousepadDevice" => MousepadDevice!KeysAreInOrder /\ MousepadDevice!ClicksAreMade
    /\ part = "InputSession" => InputSession!DelegateAgrees

(* The primary adapter of a component is the preferred one, its list has the *)
(* live ones, and the objects of a tree know each other; a service keeps the *)
(* id it was known by, and a device runs the plugins that have something to  *)
(* say to its other end.                                                     *)
ComponentsAgree ==
    /\ part = "Component" => Component!PrimaryIsPreferred /\ Component!ListedAreLive /\ Component!AbandonedIsCancelled
    /\ part = "Object" => Object!TreeAgrees
    /\ part = "Identity" => Identity!PluginsAreSupported /\ Identity!DisabledIsUnheard /\ Identity!EndsMeet /\ Identity!IdentityIsKept

(* Every extension that a device routes packets to is there: it is not, once *)
(* its plugin was unloaded while it was enabled.                             *)
HandlersAreLive ==
    /\ part = "Identity" => Identity!HandlersAreLive

(* A step of one never reaches another: an adapter that is gone does not     *)
(* become active again, a device that leaves does not silence the ringing of *)
(* another.                                                                  *)
OthersAreSpared ==
    [][ /\ part = "Component" => Component!GoneIsInactive
        /\ part = "Ringer" => Ringer!SparesOthers ]_allVars
=============================================================================
