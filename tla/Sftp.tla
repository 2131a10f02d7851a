-------------------------------- MODULE Sftp --------------------------------
(***************************************************************************)
(* The sftp plugin: it asks the device to serve its files, adds the private*)
(* key to the SSH agent, mounts what the device answered with and follows  *)
(* the mounts of the volume monitor.  All of it is asynchronous, and every *)
(* callback works on the session of the moment it runs.                    *)
(***************************************************************************)
EXTENDS Integers, FiniteSets

CONSTANTS
    Port,                \* what the device may serve at
    Matched,             \* the ports that the pattern of sftp_session_find() matches
    None,                \* no session, no mount, no menu item
    MaxEvents

VARIABLES
    connected,           \* the device has a channel
    available,           \* it is connected and paired, as the plugin was told
    host,                \* a channel of the device has a network address
    session,             \* NULL, or the port of the uri, the mount and whether it has paths
    menu,                \* the item in the device's menu: "mount", or the folders of a port
    privkeyReady,        \* privkey_ready
    adding,              \* ssh-add processes that are waited for
    mounting,            \* mount operations, with what became of them
    mounts,              \* the mounts of the device that the monitor knows
    answers,             \* packets of the device, which may come at any time
    served,              \* what the device was told of our own files
    events

vars == <<connected, available, host, session, menu, privkeyReady, adding, mounting, mounts,
          answers, served, events>>

Init ==
    /\ connected = FALSE /\ available = FALSE /\ host = FALSE
    /\ session = None /\ menu = None /\ privkeyReady = FALSE
    /\ adding = 0 /\ mounting = {}
    /\ mounts \in {{}} \union {{p} : p \in Port}        \* of an earlier process
    /\ answers = {} /\ served = "nothing" /\ events = 0
-----------------------------------------------------------------------------
Event == events < MaxEvents /\ events' = events + 1

Mounted(s) == s # None /\ s.mount # None

(* get_device_host() and the pattern of sftp_session_find(): a mount of the   *)
(* device's is taken with its uri, and the paths of the session stay          *)
Candidates(s, h, ms) ==
    IF Mounted(s) THEN {s}
    ELSE IF ~h THEN {}
    ELSE {[port |-> p, mount |-> p, paths |-> s # None /\ s.paths] : p \in ms \intersect Matched}
Found(s) == Candidates(s, host, mounts)

(* valent_sftp_plugin_update_menu(): the folders if there is a mount or one    *)
(* can be found, and else "Mount"                                             *)
UpdateMenu(s, h, ms) ==
    IF Candidates(s, h, ms) = {} THEN session' = s /\ menu' = "mount"
    ELSE session' \in Candidates(s, h, ms) /\ menu' = session'.mount

(* sftp_session_find(): the menu is updated when a mount was found            *)
FindSession ==
    IF ~Mounted(session) /\ Found(session) # {} THEN UpdateMenu(session, host, mounts)
    ELSE UNCHANGED <<session, menu>>

(* sftp_session_new(): none without a port that fits or an address; the pairs  *)
(* of paths and names may be missing                                          *)
SessionNew(p) ==
    IF ~host \/ p \notin Port THEN {None}
    ELSE {[port |-> p, mount |-> None, paths |-> TRUE]}

(* valent_sftp_plugin_mount_volume()                                         *)
MountVolume(s) == mounting' = mounting \union {[port |-> s.port, id |-> events, result |-> "none"]}

(* valent_sftp_plugin_sftp_request(): asks unless there is a mount already,    *)
(* and without a channel in vain                                              *)
Answer == Port \union {"error", "unusable"}
SftpRequest(s, h, channel) ==
    IF Candidates(s, h, mounts) # {} \/ ~channel THEN UNCHANGED answers
    ELSE \E p \in Answer : answers' = answers \union {p}

MountAction ==
    /\ Event /\ available
    /\ IF session = None
         THEN FindSession /\ SftpRequest(session, host, connected) /\ UNCHANGED mounting
       ELSE IF session.mount = None
         THEN MountVolume(session) /\ UNCHANGED <<session, menu, answers>>
       ELSE UNCHANGED <<session, menu, mounting, answers>>
    /\ UNCHANGED <<connected, available, host, privkeyReady, adding, mounts, served>>

(* valent_sftp_plugin_handle_sftp(): an error is only shown to the user        *)
HandleSftpError ==
    /\ connected /\ available /\ "error" \in answers /\ answers' = answers \ {"error"}
    /\ UNCHANGED <<connected, available, host, session, menu, privkeyReady, adding, mounting,
                   mounts, served, events>>

(* handle_sftp_mount(), valent_sftp_plugin_register_privkey(): ssh-add may    *)
(* not start                                                                 *)
HandleSftpMount(p) ==
    /\ connected /\ available /\ p \in answers \ {"error"} /\ answers' = answers \ {p}
    /\ IF session # None THEN UNCHANGED <<session, adding, mounting>>
       ELSE \E new \in SessionNew(p) :
            \/ new = None /\ UNCHANGED <<session, adding, mounting>>
            \/ new # None /\ privkeyReady /\ session' = new /\ MountVolume(new) /\ UNCHANGED adding
            \/ /\ new # None /\ ~privkeyReady /\ session' = new
               /\ adding' = adding + 1 /\ UNCHANGED mounting
            \/ new # None /\ ~privkeyReady /\ UNCHANGED <<session, adding, mounting>>
    /\ UNCHANGED <<connected, available, host, menu, privkeyReady, mounts, served, events>>

(* valent_sftp_plugin_handle_request(): the port and the home folder, or       *)
(* "Permission denied", by the setting local-allow of that moment              *)
HandleRequest(localAllow) ==
    /\ connected /\ available
    /\ served' = IF localAllow THEN "home" ELSE "denied"
    /\ UNCHANGED <<connected, available, host, session, menu, privkeyReady, adding, mounting,
                   mounts, answers, events>>

(* valent_sftp_plugin_register_privkey_cb()                                  *)
RegisterPrivkeyCallback(ok) ==
    /\ adding > 0 /\ adding' = adding - 1
    /\ IF ok THEN /\ privkeyReady' = TRUE /\ UNCHANGED session
                  /\ IF session # None THEN MountVolume(session) ELSE UNCHANGED mounting
       ELSE session' = None /\ UNCHANGED <<privkeyReady, mounting>>
    /\ UNCHANGED <<connected, available, host, menu, mounts, answers, served, events>>

(* The monitor adds what was mounted and removes what is gone:                *)
(* on_mount_added(), on_mount_removed(), with update_menu()                   *)
OnMountAdded(p) ==
    /\ mounts' = mounts \union {p}
    /\ IF session # None /\ session.port = p
       THEN UpdateMenu([session EXCEPT !.mount = p], host, mounts')
       ELSE UNCHANGED <<session, menu>>

(* A cleared mount is looked for again among those that are left             *)
OnMountRemoved(p) ==
    /\ p \in mounts /\ mounts' = mounts \ {p}
    /\ IF session = None \/ session.port # p THEN UNCHANGED <<session, menu>>
       ELSE UpdateMenu([session EXCEPT !.mount = None], host, mounts')
    /\ UNCHANGED <<connected, available, host, privkeyReady, adding, mounting, answers, served,
                   events>>

Finished(op, result) == mounting' = (mounting \ {op}) \union {[op EXCEPT !.result = result]}
MountEnds(op) ==
    /\ op \in mounting /\ op.result \in {"none", "answered"}
    /\ \/ op.port \in mounts /\ Finished(op, "already mounted") /\ UNCHANGED <<mounts, session, menu>>
       \/ op.port \notin mounts /\ Finished(op, "mounted") /\ OnMountAdded(op.port)
       \/ Finished(op, "failed") /\ UNCHANGED <<mounts, session, menu>>
    /\ UNCHANGED <<connected, available, host, privkeyReady, adding, answers, served, events>>

(* ask_password_cb(): the password of the session of the moment; without one    *)
(* the operation is never answered                                           *)
AskPassword(op) ==
    /\ op \in mounting /\ op.result = "none"
    /\ Finished(op, IF session = None THEN "unanswered" ELSE "answered")
    /\ UNCHANGED <<connected, available, host, session, menu, privkeyReady, adding, mounts, answers,
                   served, events>>

(* g_file_mount_enclosing_volume_cb()                                        *)
MountCallback(op) ==
    /\ op \in mounting /\ op.result \in {"mounted", "already mounted", "failed"} /\ mounting' = mounting \ {op}
    /\ CASE session = None \/ op.result = "mounted" -> UNCHANGED <<session, menu>>
         [] session # None /\ op.result = "already mounted" /\ Found(session) # {} -> FindSession
         [] OTHER -> session' = None /\ UNCHANGED menu
    /\ UNCHANGED <<connected, available, host, privkeyReady, adding, mounts, answers, served,
                   events>>

(* unmount_action(), or the user ejects it elsewhere: it goes, or it is busy   *)
UnmountAction ==
    /\ Event /\ available /\ Mounted(session)
    /\ UNCHANGED <<connected, available, host, session, menu, privkeyReady, adding, mounting,
                   mounts, answers, served>>

(* valent_sftp_plugin_update_state(), with the first channel: the menu looks    *)
(* for a mount first; with auto-mount it is asked for                         *)
Appear(autoMount) ==
    /\ Event /\ ~(connected /\ available)
    /\ connected' = TRUE /\ available' = TRUE
    /\ host' \in IF connected THEN {host} ELSE BOOLEAN
    /\ UpdateMenu(session, host', mounts)
    /\ IF autoMount THEN SftpRequest(session, host', TRUE) ELSE UNCHANGED answers
    /\ UNCHANGED <<privkeyReady, adding, mounting, mounts, served>>

(* on_channel_destroy(): the plugin is not told, and keeps the session         *)
Lose ==
    /\ connected /\ connected' = FALSE /\ host' = FALSE /\ answers' = {}
    /\ UNCHANGED <<available, session, menu, privkeyReady, adding, mounting, mounts, served,
                   events>>

(* ... of a device that was unpaired: after the menu is updated the session    *)
(* ends, and its mount is asked to go, sftp_session_end()                     *)
Vanish ==
    /\ available /\ available' = FALSE /\ answers' = {}
    /\ menu' \in IF Found(session) = {} THEN {"mount"} ELSE {s.mount : s \in Found(session)}
    /\ session' = None
    /\ UNCHANGED <<connected, host, privkeyReady, adding, mounting, mounts, served, events>>

Next ==
    \/ MountAction \/ UnmountAction \/ HandleSftpError \/ Lose \/ Vanish
    \/ \E p \in Answer : HandleSftpMount(p)
    \/ \E p \in Port : OnMountRemoved(p)
    \/ \E b \in BOOLEAN : RegisterPrivkeyCallback(b) \/ Appear(b) \/ HandleRequest(b)
    \/ \E op \in mounting : MountEnds(op) \/ MountCallback(op) \/ AskPassword(op)

Spec == Init /\ [][Next]_vars
-----------------------------------------------------------------------------
(* However mounts, answers, key registrations and disconnects overlap, the mount  *)
(* of the session is one that is there, and it is the one its menu opens.         *)
MountIsThere == session # None /\ session.mount # None => session.mount \in mounts
                                                         /\ session.port = session.mount

(* A mount that the session has is offered: the menu shows its folders, whatever  *)
(* became of the operations and sessions before it.                               *)
MenuShowsMount == Mounted(session) => menu = session.mount
=============================================================================
