# A verification of Valent

These modules model Valent where threads, main-loop callbacks, timers, files,
services on the bus and a remote device meet: the core that talks to devices
(channels, pairing, sending, transfers, the device manager, the Bluetooth and LAN
services), the object tree and the components under everything, and the device
plugins with the service behind each and the plugin at the other end. TLC checks
each of them on small instances; TLAPS proves, for every
number of requests, that the packet buffer is safe and implements what a channel promises;
the safety of a device, of sending and of transfers for every number of channels; that of
shares for every number of files; that of pairing for any length of a history; that of the
device manager for every number of devices, starts and stops; that of LAN handshakes for
every number of hosts and connections; that of two clipboards for every number of copies; and that of
the Bluetooth multiplexer for every size of its buffer.

Paths are those of the repository, under `src/`: the code is in `src/src/libvalent` and
`src/src/plugins`. `PROJECT.json` maps each definition to the lines that it models, lists
each part of the system with what is modelled of it, and every hazard
with the properties that watch it.

## 1. Inventory

### 1.1 What talks to what

```
 UPower, ModemManager, MPRIS players, PipeWire, clipboards, notifications, portals ...
        |  adapters (ValentComponent, ValentExtension) list what is there
        v
 plugins  <-- handle_packet, update_state --  ValentDevice  -- D-Bus, GActions
    |                                          |   |    ^
    +-- valent_device_send_packet() -----------+   |    | add_channel
    +-- ValentDeviceTransfer -- download/upload    |    |
                      |                            |  ValentDeviceManager -- devices.json
                      v                            v    ^
                 ValentChannel  <-- read, write, close  | signal "channel"
                      ^                                 |
                      +------ created and tracked by ValentChannelService
                                                   |            |
                                    LAN (UDP, DNS-SD, TCP, TLS)  Bluetooth (ValentBluezMuxer)
```

A `ValentChannelService` finds a device, negotiates a connection and emits
`channel`. The `ValentDeviceManager` looks for the `ValentDevice` or creates it and
hands it the channel. The device reads packets from every channel, sends with the
best one, decides what pairing packets mean and passes the others to its plugins.
A plugin joins two worlds: the device, through which it gets and queues packets
and opens payload connections, and a service of the desktop, through the primary adapter of a
component or a proxy of its own. Everything is a `ValentObject`, in one tree,
destroyed on the main thread.

### 1.2 Components

| Component | State | Operations | What is hard | What makes it correct |
|---|---|---|---|---|
| `ValentChannel` (`device/valent-channel.c`) | `output_buffer`, `pending`, streams | write a packet from any thread, completion of a write, read, close | writers, the completion and closing interleave under a lock that is released between; a write fails in part | each request is answered once, in order; nothing is queued with nobody to start it; nothing follows a truncated packet |
| `ValentDevice`: pairing (`device/valent-device.c`) | `paired`, two timers, `pair_timestamp`, the certificate on disk | pair and unpair actions, packets, timeouts, restart | requests cross, are late, repeated, or ambiguous (v7); the certificate cannot be written or deleted | no pairing without both users' consent; the ends come to agree; they fall silent |
| `ValentDevice`: channels, plugins | sorted list of channels, table of plugins, handlers, actions | add and lose a channel, read loop, dispatch, load, enable and disable plugins | callbacks come after the channel is gone; capabilities change | the best channel is used; no packet is skipped; a packet goes to a plugin that is there |
| `ValentDevice`: sending | pending tasks | send, retry on the next channel, unpair | a channel fails with several packets in it, destroyed from a callback | a packet is delivered once, and its sender is answered once |
| `ValentDeviceManager` | devices, state for `devices.json`, services | channel, change of state, start-up, shutdown, plugins | files written at different times, signals that re-enter | memory, disk and list agree; strangers do not stay in the list |
| `ValentChannelService`, `valent-certificate` | table of tracked channels, identity, certificate | verify, track, untrack, build the identity | a replaced channel is destroyed inside the table operation; two files for one certificate | listed channels are connected; a service keeps the id it is known by |
| `ValentTransfer`, `ValentDeviceTransfer` | state, cancellable, two halves | execute, cancel, file and connection callbacks, copy | the halves come in any order; channels fail | the copy starts once, complete means whole, it ends |
| `valent-packet` | a line that is read, a builder | build, check, write, read | a limit on the size, bytes that belong to whoever reads next | a packet is read as it was written, to the byte |
| Bluetooth (`plugins/bluez`) | ring buffers and credit, threads; profile, devices, muxers | handshake, streams, receive loop; registration, connections | four kinds of threads, two locks, credit of two ends; a daemon that restarts | windows agree, nothing is overwritten, closing wakes everyone; the profile stays registered |
| LAN (`plugins/lan`) | shared identity packet, tables; DNS-SD group and list | UDP and DNS-SD discovery, TCP and TLS handshakes as fibers | fibers interleave at each await and share the identity; Avahi restarts | a handshake names its own target; the certificate is the trusted one; what is announced is listed |
| `ValentObject` (`core`) | parent, children, flags, queue of the main loop | add, remove, destroy, from any thread | destruction re-enters and crosses threads | destroyed once; the tree agrees with itself |
| Components and extensions (`core`) | adapters, primary one, state of each | plugin loaded, enabled, initialised, failed, exported | initialisation ends after its adapter was given up | the primary adapter is the preferred live one |
| Adapters of `libvalent` (contacts, messages, media, mixer, notifications, clipboard) | lists | follow a database or a service | queries end late and out of order | lists agree with what they list |
| Device plugins | state of one feature at both ends | packets, actions, signals of a service | the connection breaks between any two of them | each end shows what the other has |
| Messages window (`plugins/gnome`) | pages, rows, searches | search, open, scroll, send | answers come after the page or the text changed | rows are the messages of the thread |
| Application, settings, dialogs, wrappers of platform libraries | | | little: sequential, or a library's | |

### 1.3 Hazards

`PROJECT.json` lists, with its line, what a unit test would hardly reach. The
hazards fall into a few families: a decision taken under a lock and used
after it (channel, muxer), a callback that arrives after what it is about was
destroyed or replaced (device, transfer, sftp, input, notification icons, searches),
messages that cross (pairing, clipboard, LAN), a crash or a restart between two steps
(manager, BlueZ, Avahi), a limit that two ends compute separately (muxer windows,
packet size), one answer taken for another (sms), and destruction that calls back into whoever
destroys (service, send, object).

## 2. Modules

| Module | Models | Built on |
|---|---|---|
| `PacketPipe` | what a channel promises: accepted requests leave in order, "ok" is said only of a packet that was sent and "closed" or "failed" only of one that was not, at most one is cut short, and then the pipe is broken | |
| `Channel` | the outgoing side of `ValentChannel`, and its theorems, the refinement among them | refines `PacketPipe` |
| `Pairing` | the pairing state of one device, as operators that take a state and give a state and the packets to send; ends with lemmas on what each preserves | |
| `PairProtocol` | two devices, two users, the connection, timers, a restart, a clock, and its theorems | `Pairing` |
| `Device` | one device with its channels, reads, plugin and stash, and a peer that sends anything, and its theorems | `Pairing` |
| `DeviceSend` | `valent_device_send_packet()` over several channels, with its inductive invariant | |
| `DeviceManager`, `MCDeviceManager` | manager, services, files, the process that ends, and its theorems | |
| `Transfer` | `ValentTransfer` with `ValentDeviceTransfer`, with its inductive invariant | |
| `Muxer` | `ValentBluezMuxer` at both ends of a connection, and its theorems | |
| `BluezService` | the profile, devices and connections beside the BlueZ daemon | |
| `Lan` | discovery and handshakes of several hosts, as fibers over one identity packet, and its theorems | |
| `LanDnssd` | entry group, browser and list of services beside the Avahi daemon | |
| `Packet` | packets as lines of JSON on a stream | |
| `Identity` | the certificate and identity of a service, the plugins a device makes of it, and what D-Bus clients see | |
| `Object` | the tree of objects and their destruction from any thread | |
| `Component` | adapters, their initialisation, and the primary one | |
| `PluginLink` | the link of a plugin with its other end: connections, `update_state()`, packets on the way | |
| `Battery`, `Connectivity`, `SystemVolume`, `Mpris`, `Lock`, `Runcommand`, `Mousepad`, `Clipboard`, `Contacts`, `Notification`, `Sms`, `MediaExport` | a plugin at both ends with the service behind it | `PluginLink` (`MediaExport` too, as an instance of its own) |
| `SmsAttachments` | the queue of attachments that are fetched | |
| `MousepadDevice` | keys, modifiers and clicks on their way to the other end | |
| `Telephony`, `Ringer` | plugins of several devices that share the outputs and players, or one ringer | |
| `Sftp` | session, key, mount and menu | |
| `Share`, `SharePlugin` | (the first with its inductive invariant) the files of shares, and the plugin's table, notices and actions | |
| `MessageThread` | a messages adapter with one thread, over a database and its notifier | |
| `ConversationPage`, `MessagesWindow` | the page of a conversation; the window with its search and pages | |
| `DesktopNotifications` | the monitors of the desktop's notifications (freedesktop and GTK) | |
| `Pipewire` | the loop's thread and the main thread of the mixer | |
| `InputSession` | input through the portal and the EIS server | |
| `MutterClipboard` | the clipboard over Mutter's remote desktop | |
| `MCExchanges`, `MCPlugins` | several of these, one in each behaviour; the first ends with the proofs about its parts | instances of the modules |

Operators whose name is that of another with a suffix and whose comment begins
with "Mutant:" are plausible mistakes in the code. No specification uses them:
replacing the definition by its mutant must break the property that
`PROJECT.json` pairs it with.

`MCExchanges` and `MCPlugins` run modules that share nothing but the program.
`part` names the one that runs in a behaviour; `v1`, `v2` ... are its variables,
which the substitutions give their names, and a part leaves those it does not have
alone. So the states of the parts add up instead of multiplying, and one
run asks one question of all of them: whether both ends agree at rest, whether
something is left over. Their properties are conjunctions of
the parts' own, each with its comment in the module that states it.

### 2.1 Channel and PacketPipe

`buffer`, `pending`, `input` and `stream` are the fields of
`ValentChannelPrivate`; `writing` and `io` are the asynchronous write that GIO
carries out. An action is a section under the object lock. `WritePacket` queues
and, when nothing is pending, starts: `valent_channel_write_packet_next()`, which
starts the first task of the queue whether it was cancelled or not, is `WriteNext`. `WriteCallback` is
`g_output_stream_write_all_cb()` with its early return (`valent-channel.c:796-804`). What the stream
answers is `Outcome`: GIO's task says "cancelled" whenever its cancellable was triggered by the time it is asked,
also when all of the packet was written before that. So the caller may be told "cancelled" of a packet that was sent,
and `pending` stays set after it as after a failure. `Close` drains the buffer
and closes the stream, `OwnerCloses` is the same call made by the device in
reaction to a failure.

`PacketPipe` is what callers rely on. It says nothing of a request that is answered "cancelled": its
packet was sent or it was not. The refinement counts a packet as waiting until the
stream has it, and takes the truncated packet for `broken`; TLC checks
`ImplementsPipe == Pipe!Spec` with the mapping, and section 4 proves it.

### 2.2 Pairing, PairProtocol, Device and Identity

`Pairing` holds one record per device with the fields of `_ValentDevice` that
matter: `paired`, the two timers as Booleans, `pair_timestamp`, and whether the certificate is
stored. Each handler is an operator; v7 and v8 differ by its field `v8`, chosen from `Versions` at the start. A
timestamp is a tick of a clock and `Skew` is `PAIR_CLOCK_SKEW_THRESHOLD`.

`PairProtocol` composes two of them over a connection that keeps the order of
packets and loses what is in flight when it breaks. A timeout may come at any time,
which covers any speed of the network. `wants` records whether the user of a device asked for
or agreed to pairing since it last ended; `Consent` compares it with what the device
believes. `valent_device_set_paired()` writes or deletes the certificate and only logs when that
fails (`valent-device.c:672-700`), so each step that pairs or unpairs chooses whether the disk does its part (`disk`),
and the paired state changes regardless. `kept` are the devices that were unpaired and
could not delete the certificate: the next start reads it and they are paired again, without anybody
asking. `Consent` and `PairingIsSound` except these, and nobody else.

`Device` puts the same handlers in a whole device: channels in the order
`channel_sort_func()` keeps, the read that is pending on each, its callback that may
come after the channel was destroyed, pair packets that are written asynchronously, and
one plugin, enabled and disabled, with its stash. The file operations of its device
succeed: the module has no restart, and nothing else reads what they leave.

`Identity` is the other half of a device: which plugins it has. One end makes its identity
of its certificate, its name and its plugins; the other takes it, loads the plugins that have
something to say, routes packet types to them and exports their actions, while the
engine loads and unloads plugins and the settings enable and disable them.

### 2.3 DeviceSend

One buffer per channel, with the same control as `Channel`, and the retry of
`valent_device_send_packet_cb()`. Destroying a channel answers its queued tasks
inline, so their retries happen inside the action, in the order of the queue (`Retry` takes them
as one sequence). Callbacks posted to the main loop are in `posted`. `Lines` are the
places where a request waits: the buffer of each channel, and `posted`.

### 2.4 DeviceManager

`m` is what the manager and its devices hold in memory, `tracked` the table of each service, `file` and `cert`
the two kinds of files. `ChannelArrives` is the path of one connection:
verification and tracking in the service (which may destroy the channel that it replaces,
which may remove its device), then `on_channel()`. `Crash` loses memory,
`Shutdown` saves first. A file operation may fail, up to `MaxFaults`. A device is listed before
the limit on strangers is checked (`CheckDevice`, after `EnsureDevice`), as in
`valent-device-manager.c:251-258`, and a refused one stays listed.

### 2.5 Transfer, Share and SharePlugin

In `Transfer`, `file` and `conn` are the two halves of `TransferOperation`; each is ready or
fails in any order; `copy` is the splice. A failed connection asks for the next
channel after the one that failed. `Share` has the lists of files of both ends, with
the timer that waits for the packet of the next file; a file's transfer is one step that
succeeds or fails, which is what `Transfer` shows it to do. `SharePlugin` has
the table of transfers, those that further files join, and the notice of each.

### 2.6 Muxer and BluezService

In `Muxer` there is one action per section between locks, at each end: `Lock`, `Send` and `Sent` for a
thread that holds the object lock while it sends; `Open`, `Accept`, `CloseStream`,
`MarkClosed`, `CloseMuxer` (`BeginClose`, `Join`) for the operations; `Receive`,
`Dispatch`, `ReceiveEnds`, `ReceiveStopped`, `LoopCloses` for the receive thread;
`Read`, `Write` and their `Wake` for the streams. A message is one unit, except that the payload
of a write may be cut (`SendCut`). A byte is its number, so that what a reader gets can
be compared with what was written; the ring buffer is modelled slot by slot.
Signalling the condition and the event descriptor is the change of `in`,
`out`, `hup` and `err` that a waiting thread looks at.

The comment of `ChannelState` calls `read_free` space for which no request was sent;
in the code it is the space for which one *was* sent, and the model follows the
code.

`BluezService` has the daemon's side (`up`, `profiles`, `objects`) and the
program's. Signals and answers are one queue, since the bus keeps their order, and calls another; the
daemon may release the profile, go, and be back before calls to its predecessor fail.

### 2.7 Lan and LanDnssd

A fiber of `Lan` is at a `stage` of its handshake; an action is the stretch from one await
to the next. `named` is who the shared identity packet names at the time: an outgoing
handshake sets it before a write and clears it after. `stored` is the certificate
that a paired device left on disk and `key` that of a host, whose service may be started
again (`Restart`) or be installed anew. `LanDnssd` has the two tables of the code (`items`, by service and
interface, and `pending`), the idle source between them, and Avahi's objects.

### 2.8 Plugins

`PluginLink` models what all device plugins share. Each end notices by itself that the connection is
there or gone; what is on the way is lost with it. `update_state()` is called when a device gets its first channel
(`Appears`) and when it is paired or unpaired (`Vanishes`), the two places where the code calls it
(`valent-device.c:708`, 1700). When the last channel is lost (`Loses`) no plugin is told: `on_channel_destroy()` only
notifies the property `state` (1629-1630), which plugins do not follow, only adapters and models. So a
plugin is available (`available`) over any number of connections, its early returns ("already
watching") apply at the next one, and what it sends while there is none is lost. The adapters that follow `state`
clear what they have in an action `Lose` of their own (`SystemVolume`, `Mpris`, `Contacts`, `Sms`,
`SmsAttachments`). Devices may be unpaired while they are apart, and paired again. A plugin module adds the service of its end
(a battery, modems, players, a mixer), with a queue for the signals of the
service where the code handles them later, and the handlers of packets. "here" is the end
whose service it is and "there" the one that mirrors it, where the two differ; where the
plugin is symmetric both ends run all of it. Values stand for what the properties tell
apart: a percentage is one of three levels, a player is one value.

`Settled` says that both ends are there and nothing is on its way: it is when mirrors have to
agree. What a property leaves out (changes that were made while the
ends were apart, say, where the code sends nothing when they meet again) is named in its comment, and recorded by a
history variable such as `excused`, `late` or `lost`, so that the exception is as small as the code allows.

### 2.9 The rest

`Object` has a main thread that runs `dispose` handlers, which may destroy other
objects, and a worker thread that destroys or drops the last reference; `pushing` is the moment between
its look at an object and its push onto the queue of the main loop. `Component` follows an
adapter from the plugin that offers it to the primary adapter; an initialisation
is a task that may end after the adapter was given up. `Packet` reads a
byte at a time as the thread does, with the size of the buffer and the limit, and keeps what
the last write answered, which is whether the document is whole on the stream.

`MessageThread`, `ConversationPage` and `MessagesWindow` are three views of the same data at three
levels: the database and its notifier, one page with its positions, and the window
with its answers that come late. A message that was sent shares the page's list of
attachments until the page clears it, so one attached later is in the message and
not in the packet; `SentIsShownOnce` leaves that case out by name.

## 3. What is checked

### 3.1 Runs that pass

| Run | Instance | Shows |
|---|---|---|
| `channel` | 3 requests, 2 cancellable, peer and owner close | no lost wake-up, one answer per request, drained when closed, nothing after a truncated packet, refinement of `PacketPipe`; each is answered unless one is cancelled, sent or not, and then once the channel is closed |
| `pairing` | 2 devices of v7 or v8, 4 user actions, 1 data packet, 2 breaks or restarts, 2 ticks, a disk that fails at any write or delete | `Consent`; one negotiation at a time, the certificate only while paired or where it could not be deleted (`PairingIsSound`); the exchange of pair packets ends, and a mismatch of the two ends is found out |
| `device` | v8, paired or not at first, a LAN and a Bluetooth channel, 3 packets, 1 action of the user | the best channel, the plugin's knowledge, order, nothing from strangers nor from before an unpairing, and every packet is handled |
| `manager` | 2 devices, 5 channels, 2 services, 3 ends of the process, 1 fault | memory, disk, list and connections agree; who is listed for nothing was refused (`IdleWereRefused`) |
| `mux` | primary or payload channel, opened by either end, buffer of 2, 3 bytes, 1 close or cut | windows agree, nothing overwritten, nothing lost, end of file last; every byte arrives while nobody closes, and whoever waits when its end closes the stream or the muxer is woken (a receive loop that fails and closes by itself, 596-601, is not asked about) |
| `exchanges` | `DeviceSend` (3 packets, 2 channels), `Share` (3 files, 1 fault), `Transfer` (up to 3 channels), `Clipboard` (2 texts, 2 copies or settings, 2 connections), `Lan` (2 hosts, 2 connections, one service restarted or installed anew) | delivered and answered once, given up only when cut off; the halves of a transfer meet, complete is whole; the last copy wins; handshakes name their target and trust what is stored; all of it ends |
| `plugins` | 30 modules, see below | both ends agree at rest, caches are current, what the phone has is stored and listed, nothing of a device that was unpaired is left over, input is in order, the core agrees with itself, and no one disturbs another |

What the parts of `plugins` contribute:

| Property | Parts |
|---|---|
| `MirrorsAgree` | `Battery`, `Connectivity`, `SystemVolume`, `Mpris`, `Lock`, `Runcommand`, `Mousepad`, `Sftp`, `Notification`, `MediaExport`, `SharePlugin`, `Identity`, `Telephony` |
| `CachesAreCurrent` | `SystemVolume`, `Mpris`, `Battery`, `Pipewire`, `DesktopNotifications`, `LanDnssd`, `MutterClipboard`, `BluezService` |
| `RemoteDataIsStored` | `Packet`, `Contacts`, `Sms`, `SmsAttachments`, `MessageThread`, `ConversationPage`, `MessagesWindow` |
| `NothingIsLeftOver` | `Telephony`, `Ringer`, `Sftp`, `Runcommand`, `MediaExport`, `InputSession`, `MutterClipboard`, `SharePlugin` |
| `InputIsInOrder` | `MousepadDevice`, `InputSession` |
| `ComponentsAgree` | `Component`, `Object`, `Identity` |
| `OthersAreSpared` | `Component`, `Ringer` |

Why the bounds suffice. Three requests are one being written, one queued, one arriving, which
are all the roles there are in the buffer. Two user actions per device are a request and a
change of mind, which is what crosses; one break and one restart separate a
state from its packets, and a certificate that was kept from the start that reads it. Three packets to a device are one
that waits in the stash, one that is handled or added behind it, and one that pairs or unpairs in between; that its peer speaks v7
makes a difference only to pairing, which `pairing` covers. Three ends of the process separate a pairing that was
saved, an unpairing that a crash kept from being saved, and the shutdown that
must notice. Two channels of two types are what it takes to choose and to retry, three
to skip one. Two services and up to four channels of one
device make it be replaced in both, with a second device that fills the limit of strangers (2
here). A buffer of two bytes wraps, fills, and has a half at which the
request for more is due; three bytes do not fit. Two connections of a plugin are one that
breaks, with or without an unpairing after it, and one that has to make up for it; two packets on the way are one that is overtaken by a
decision and the one that decision sends. Two or three events of a service or a user are a
change, one while the first is on its way, and one that takes it back. Two phones,
devices or adapters are one and another one. A page of two rows in a thread of four messages
is loaded in two steps and grows at either end. A packet limit of five bytes with a first buffer of
two makes the buffer grow, meet the limit and pass it. Every constant that bounds a
count is named `Max...`, `Capacity`, `Limit` or `PageSize`, and declared in the module; the values of the parts are in
`MCPlugins` and `MCExchanges`.

A bound may still hide a violation, and one did: with three copies instead of two, and
one connection, the two clipboards can end up different (`clipboard`), which is why `LastCopyWins`
leaves out a text that is copied again. A clock that stood still between a copy and a write hid another: a text
is replaced while it is read for the exchange at a connection, and is sent with the time of what replaced
it (3.3), which `LastCopyWins` leaves out too. What is left is proved for all bounds (section 4), as is each
invariant of the other runs but those of `plugins`. Each part of `plugins` was
checked with its bounds raised, as far as TLC gets in hours, without a violation.
Of the copies that bounce, `ExchangesEnd` speaks only when each was made at rest: with three that
cross over one connection they need not end, and the state space is infinite.

Where a run does not check deadlocks the system may really stop: the requests are answered, the users are done, the bytes are read.

### 3.2 Runs that show a disagreement

Each checks one sentence of the repository's documentation, comments or tests that
the code does not keep.

| Run | Sentence | What the code does |
|---|---|---|
| `channel_cancel` | requests "can be started safely from any thread" (`valent-channel.c`) | a cancelled write leaves `pending` set and starts no other: later requests wait until the channel is closed |
| `pairing_keys` | both ends have one verification key (`test-device.c`) | a repeated request is ignored with its timestamp, and the keys differ |
| `mux_close` | closing returns (`valent-bluez-muxer.c`) | it joins the receive thread with the lock held that the thread may want |
| `clipboard` | a text is not sent if it is "already synced with the device" (`valent-clipboard-plugin.c`) | what is compared is the text that came last, not what the device has: one that came earlier and is copied again is not sent |
| `plugin_handlers` | packets are handled by a `ValentDevicePlugin` (`valent-device-plugin.c`) | a plugin that is unloaded while enabled is destroyed but stays among the handlers of its packets |

### 3.3 Met while modelling

These are behaviours of the code that the models keep. Where one breaks a property that
one might expect, the property leaves the case out and its comment says so, or a formula states it
under "Not so" and no run checks it (`QueuedIsDestroyed`, `KeyboardStatesAgree`,
`KeysAreSent`, `SelectedIsShown`, `PagesAreOfTheirAdapter`, `ListedIsPresent`, `StoppedIsQuiet`).

Core:

* A channel is tracked until its destruction (`valent-channel-service.c:157`), but the handler looks
  the table up by the common name of the local certificate (88-90), so that the channel
  stays until the next one replaces it.
* Plugins are not told when the last channel is lost (`valent-device.c:1629-1630`), against
  "This function is called when the connected or paired state of the device changes"
  (`valent-device-plugin.c:324`). What follows is in the models: a battery, an output or a keyboard that
  changed while the devices were apart is not sent again when they meet, since the plugin believes that it watches or
  that the other end knows (`lost`, `listed`); a phone that rings, a command that was started and a volume that a call lowered
  outlive the connection. The properties of `plugins` promise what is left: an unpairing ends what a device
  started, and the next change sets a mirror right.
* A certificate that cannot be deleted makes an unpaired device paired again at the next start
  (`valent-device.c:693-700` logs and goes on; `kept`); one that cannot be written makes a paired one
  forget.
* A stranger that is refused was listed before and stays (`valent-device-manager.c:251-258`, against 29-32), so
  the list of devices that are neither paired nor connected grows with each that is refused;
  `IdleWereRefused` says that nothing else makes it grow but what a crash or a failed write left in `devices.json`.
* A packet whose write is cancelled once it is on the stream is answered "cancelled"
  (`valent-channel.c:796-800`), and sent.
* A transfer that is cancelled before it is executed "will fail unconditionally"
  (`valent-transfer.c:491-492`): there is no cancellable yet (505), and it runs.
* A read of a Bluetooth stream returns 0 at the end of file
  (`valent-bluez-muxer.c:1437`): a header that the end of the stream cuts short is
  zero (356-365), which is a protocol version, and the loop spins; a payload that it cuts
  short is counted whole (519-540). "The buffer may be emptied after G_IO_HUP"
  (1506-1507): not after the muxer was closed, since that forgets its channels (1212).
* `valent_object_destroy()` in a worker thread queues the object without waking the main
  loop (`valent-object.c:561`, unlike 204): it is destroyed whenever the loop wakes for something else, "an
  idle source will be added" (533) notwithstanding. The main thread takes from the queue without its lock (64, 72-74).
* `valent_packet_deserialize()` of an empty document returns `NULL` without an error
  (`valent-packet.c:1204`), which its callers do not expect; a line of exactly `max_len` bytes is
  too large.
* The private key and the certificate are written one after the other: a process that
  ends between them makes a new identity.

Services:

* LAN: the tables are looked up by the local certificate; two connections that cross may
  destroy each other; the identity that is sent by broadcast may hold the target of a
  handshake that is waiting (`valent-lan-channel-service.c:324-332`).
* DNS-SD keeps the list of a daemon that vanished. Bluetooth: the guard of `on_g_signal()` is
  inverted (`valent-bluez-channel-service.c:178`), so devices that come and go are not heard of, and of this
  service `CachesAreCurrent` watches the registration of the profile only; a daemon that is restarted before `UnregisterProfile` fails leaves the
  service active without a profile; `RequestDisconnection` closes the muxer
  of the table, which may be another connection's.
* PipeWire takes the object's lock and the loop's in both orders (1191 against 352, 565, 601, 679); a sink whose first
  volume is 0 is never listed (616-645).
* The clipboard of Mutter forgets its content when a foreign change is announced while it writes, and
  answers a transfer with nothing; a session that is created while the adapter is destroyed stays.
* The portal's answer to a session that was closed ends the next one (`valent-xdp-input.c:38-86`).

Plugins:

* battery: a charge that is unknown (-1) is shown as low (`valent-battery-plugin.c:281`).
* connectivity: a modem that is removed before its proxy is ready stays
  (`valent-telephony.c:164-194`).
* clipboard: `on_auto_pull_changed` and `on_auto_push_changed` act on the opposite setting. What is
  read for the exchange at a connection is sent with the timestamp of the moment when the reading ends
  (`valent-clipboard-plugin.c:130`): if the other end's text is written in between, the old one goes back as if it were as
  new, and the two ends may end up with each other's (`outdated`). When copies cross, each end
  can write the other's text in turn without end: `remote_text` (100) stops an echo, not an exchange of two texts.
* contacts: a contact that the phone removed stays in the store; a query that
  races the creation of the list adds it twice.
* findmyphone: after an error of the player the ringer believes it rings, and the
  next request only stops it (`valent-findmyphone-ringer.c:27-42`, 282).
* mousepad: the state of the keyboard is not sent again after a reconnection
  (`valent-mousepad-plugin.c:44`), a slow click is never sent, a special key that follows text
  is dropped (`valent-mousepad-device.c:68`), a release of one of two modifiers clears both.
* mpris: `pending_list` is not cleared (`valent-mpris-plugin.c:340-342`), and a player that is removed may stay announced; one whose name changes its owner is
  removed (`valent-mpris-adapter.c:94-109`); exports are not offered to an adapter that comes later; album art that was
  downloaded in part is used for ever.
* notification: one that was withdrawn comes back with its icon (`valent-notification-plugin.c:455-479`);
  an upload over two channels that both fail goes on for ever (`valent-notification-upload.c:52-71`); requests of
  the phone are left to do.
* sftp: a mount or a key that is ready late belongs to whatever session there is then (382-414, 487-510); a
  session that was found among the mounts has no paths, which the menu iterates (790).
* share: when an update lowers the number of files to those that came while the timer of a download
  runs, the timer neither goes on nor ends it (`valent-share-download.c:97-123`); an
  unpairing does not stop an upload that is not executed yet; a download that was to be opened keeps its notice when it is
  cancelled (`valent-share-plugin.c:276-307`).
* sms: any packet that ends at the date of a request counts as its answer
  (`valent-sms-device.c:1213-1236`), a query that is overtaken drops its message (1135), the queue
  of attachments stops with the connection (74-76).
* telephony: the notice of a call stays when its phone is lost, and the end of any call
  restores what another one paused (361-367).
* conversation page: a thread of exactly one message is shown again (254, 505), text that
  is typed while a message is sent is lost. Messages window: a selected search result is pushed and popped
  (381-395), and a thread that was looked up in one adapter is opened with another.

### 3.4 Fairness

Fairness is only assumed of what the process or the kernel does by itself: a
GIO operation ends (`StreamWrites \/ StreamFails`, with no promise which), the main loop
dispatches a ready callback, a thread that may go on goes on, a lock that is free for
ever is taken, a handshake that is stuck times out (the code gives each await a
timeout). It is weak fairness throughout. Users, peers, cancellation,
closing and new requests are never fair. In `DeviceSend` and `Channel` the callback that follows a
failed write is fair since it is posted to the main context. In `Muxer` the socket is
assumed to have room for what both windows allow (`Capacity`): with room for one message,
a buffer of 5 and five bytes each way, both ends may write to a full socket with
their locks held while their receive threads wait for these, and then
`EveryByteArrives` fails. The code relies on the socket's buffers there. In `exchanges` each part
has the fairness of its own module, for its own variables. That a transfer ends is asked
when it was cancelled or its device has at most one channel: with more, two channels that fail may be tried in turns
for ever. The run `plugins` assumes no
fairness: its properties are about states at rest and about single steps.

## 4. What is proved

`Channel` ends with proofs, for any set `Request` and any `Cancellable` subset of it:

| Theorem | States |
|---|---|
| `TypeCorrect` | `Spec => []TypeOK` |
| `WakeupSafe` | `Spec => []NoLostWakeup` |
| `CloseDrains` | `Spec => []ClosedIsDrained` |
| `StreamStaysReadable` | `Spec => []NothingAfterTruncated` |
| `BufferIsPipe` | `Spec => ImplementsPipe` |

The assumptions are those of `Channel`: `None` is no request, and the
cancellable requests are requests.

None of these is inductive by itself. That nothing follows a truncated packet
depends on the write that failed keeping `pending` set for good (`TruncatedInv`),
which is the very thing that `channel_cancel` shows to stop the queue: the
two are sides of one early return. That a closed channel stays drained depends on the stream
being closed with it, so that no request is queued any more (`CloseInv`). And
a task may be started only if it was not answered, which needs the tasks in the buffer to be distinct
and unanswered (`PlaceInv`). `Inv` is their conjunction with the invariants that
TLC checks; `InitInv` and `StepInv` show it inductive, with one step per action of
`Next`, and `WriteNextInv` states once what starting the next write preserves.

`BufferIsPipe` maps each step to one of `PacketPipe` or to none (`PipeStep`). It needs one
more invariant, `SentInv`: a packet that left whole was answered "ok", or "cancelled" if its task was by then,
except that of the write
whose callback is still due. So a request that is answered "closed" or "failed"
was never sent (`SentFacts`), one that is answered "ok" was, and
because only the last packet can have been cut short, the sent requests are the
stream without it. Closing refuses many requests in one step: `RestFacts` says what is
left of a line when its members are refused, and `RefuseStep` that
such a step is a `Refuse`, whether it came from a cancellation, a closed stream, the drain or a failed write.

`PairProtocol` ends with proofs, for any `Versions`, `Skew` and bounds on what
users and the network do:

| Theorem | States |
|---|---|
| `PairingStaysSound` | `Spec => []PairingIsSound` |
| `NobodyIsPairedUnasked` | `Spec => []Consent` |

They rest on lemmas that end `Pairing`, one for each operator, on what a device preserves whatever the
packet, whenever it comes, and whether the disk does its part or not: `Sound`. Beside what `PairingIsSound` says of a
device, `Sound` has two facts it needs. A v7 device never has a timestamp
(`Unstamped`): a paired device that is asked to pair accepts for its user when it has one, so without
this fact a v7 device could be paired with a peer that its user had just been asked
about. And a negotiation ends whenever the paired state is set, so no timer
survives its pairing (`SetPairedSound`). `HandlePairSound` is the heart of `Consent`: after any packet, a device
that is paired or asks was so before, and the packet was no revocation. In
`PairProtocol`, `KeepsFacts` says what the history knows of a file that could not be deleted, `OneDeviceSteps` states once what a step of one device preserves, and
`Queues` what a packet that is taken and an answer that is appended do to the
connection.

`Device` ends with proofs, for any finite set `Channel`, any of which are LAN channels:

| Theorem | States |
|---|---|
| `TypeCorrect` | `Spec => []TypeOK` |
| `BestChannelIsUsed` | `Spec => []PreferredChannel` |
| `PluginIsTold` | `Spec => []PluginInformed` |
| `StashKeepsOrder` | `Spec => []HandledInOrder` |
| `NothingWhileUnpaired` | `Spec => UnpairedIsUnheard` |

That the list stays sorted needs the place where a channel is inserted to exist, which is a
least-number argument over the list (`WellFoundedInduction`), and needs
removing one to shift the others without reordering them; `Before` is all that is
known of the order. The facts on the plugin are inductive together with
`PluginInv`: the stash is empty while the plugin is connected, disabled or not
paired, and what was handled followed by the stash is rising and no later than
the packet in hand (`Holds`). So handling the stash at once on connection
(`UpdateState`) and appending one packet (`PluginHandle`) keep the order. The same
empty stash is why nothing reaches the plugin of an unpaired device. `Sound` comes from
`Pairing`: the peer may send anything.

`DeviceManager` ends with proofs, for any finite set `Id` of devices without the local one, any
sets of channels and services, any `Peer` that maps a channel to its device and service, and
any bounds on stops and failing files:

| Theorem | States |
|---|---|
| `PairedStaysRemembered` | `Spec => []PairedIsRemembered` |
| `RecordsAgree` | `Spec => []DiskAgrees` |
| `OpenIsListed` | `Spec => []ChannelsAreListed` |
| `StrangersLeave` | `Spec => IdleWereRefused` |
| `SavedIsPaired` | `Spec => ShutdownSavesPaired` |

`Inv` has a part for each place that keeps a record. `Sane` is about memory: a channel belongs to the device that has it,
a device with channels is listed, one that is listed and paired is remembered for
`devices.json`, and nobody else is than who is listed. `Linked` ties memory to the services: the channels of the devices are the
open ones, and each of them is the one that its service tracks for its device, so no device
can have two of one service. `OnDisk` ties memory to the files, as strongly as what went wrong
allows: until a file operation fails, the listed devices that are paired are those with
a certificate; until the process crashes as well, every certificate belongs to one of them, and between
runs to a device in the file. A shutdown writes the devices that are listed and paired, whatever
went wrong before (`SavedIsKnown`).
That an idle stranger was refused (`StrangersLeave`) is about every way into that state: a device
that loses its last channel or its pairing is dropped by `OnDeviceState` in the same step, so that who is left unpaired
without a channel got there by being listed for a channel that was then
destroyed, or was read from `devices.json` without a certificate.
`LoseChannels` states in one step what destroying the channels of a service one by one comes to: a device
is forgotten when it loses its last channel, whatever the order. `OneDeviceChanges` covers each
action that changes one device, `EndsClean` both ends of the process.

`Lan` ends with proofs, for any hosts, connections and restarts (`NoneIsNew`: none of them is
the value `None`):

| Theorem | States |
|---|---|
| `IdentityNamesItsTarget` | `Spec => []IdentityIsAddressed` |
| `OpenStaysTrusted` | `Spec => []OpenIsTrusted` |

The second is about a check and its use: the certificate is compared with the stored
one in the handshake, and the channel is announced two awaits later, when the user may have paired over
another one. `TablesAgree` is what makes up for it. An open channel is the entry of its device in the table,
so what is stored while there is an entry is the key of that entry or nothing, and the announcement
compares with the entry, even a closed one. While there is none, nothing can have been stored since the
handshake, and what it checked is still so. Only the end of the service removes entries, and it
ends the handshakes too. `Wired` and `EndFacts` are about connections: both ends are hosts, not the
same, so the end of a connection is known by its host. `AirInv`, `TablesKept` and `IdentityKept` say once what steps
that leave most alone preserve.

`Muxer` ends with proofs, for any two ends, whoever opens the channel and writes, any size of
the buffer and any capacity of the socket (`None` is no end, thread or message):

| Theorem | States |
|---|---|
| `TypeCorrect` | `Spec => []TypeOK` |
| `FlowControlAgrees` | `Spec => []CreditsAgree` |
| `DataStaysIntact` | `Spec => []DataIsIntact` |

`CreditsAgree` relates counters of one end to counters, messages and threads of both, and no single lock
protects it. `Balanced(s)` is the equation that each step keeps: the window of s, with the bytes in the messages
that carry data to the other end and in the requests that come back, is what
the other end set aside. A message counts while a thread has it to send, is on its way, or was
read by the receive thread and not dispatched, so `Send` and `Receive` only move a term (`LeavesTodo`,
`OnWrite`, `OnRead`), and `Dispatch` gives it to the counter (`HandledFacts`, `OffWrite`, `OffRead`). That nothing
is refused follows: a write that arrives is one of the terms, so it is no larger than what
was set aside (`NotRefused`). It needs one more invariant, `Standing`: while both streams are
open, `MESSAGE_OPEN_CHANNEL` is the first message that an end without a channel gets, and
the only one of its kind. That holds because the thread that opens the channel keeps the object lock until
the message is sent (`OpensLocked`), and because every other thread needs either that lock or a
window, and there is none before the other end answers (`NotSilent`). All of this is
lost when a stream is closed at one end, which is why the equation is claimed only while both are open; the
bound on the buffer holds regardless. `OneEndInv` covers the steps that change one channel and
what one thread has to send, `QuietInv` those that do neither.

`DataIsIntact` follows each byte from one caller to the other. `Flows(r)` is the invariant: what the
reader returned is the beginning of what was written; the slots of the buffer from its head on have the
bytes that follow; and `InOrder` says that the message in hand, those on their way and
what the writer at the other end has to send go on from there, each with the bytes between two
numbers (`Conveys`, `Carries`), up to what the writer took from its caller. So a step of
the reader, of either receive thread or of the writer moves one number: `RingGrows`, `RingSpares`, `RingFills` and
`RingEmpties` are the arithmetic of the ring, `StoredRing` and `TakenData` what `recv_write()` and
`channel_state_read_unlocked()` make of it, and `CarriesMore`, `CarriesLess` what a message more
or less does. That a write fits without reaching the bytes that were not read is
`BufferFits` with `NotRefused`. `InOrder` is claimed while someone reads from the socket (`Listens`), and its last part only
while both streams are open. `Finishes(r)` is about the end: the one
`MESSAGE_CLOSE_CHANNEL` that an end sends first comes after all that was written before it,
so when the channel is marked as hung up those bytes are in the buffer or read, and the reader sees the
end when the buffer is empty. It needs to know that a channel hangs up for no other reason while the
connection stands (`Counted`), and that the connection ends only when an end left it (`Left`).

Both halves of the property hold only until a write is cut short. The first was stated so
before; the proof showed that the second has to be: a writer that is cancelled closes the muxer of its
own end, and the reader at that end is told of the end of the channel without what the other end had
sent before it closed its stream. It takes writers at both ends and two stops, one more than
`mux` allows, and it is what the comment in the code asks for ("any failure
sending a multiplex message closes the connection").

The sums are recursive functions over a sequence. What is known of them (`SumFacts`) rests on
`SumIs` and `SumExists`: a function that adds up the amounts of a
sequence exists and is the only one. Both are least-number arguments (`LeastNumber`), which
take the place of an induction.

`MCExchanges` ends with proofs about its five parts, for any finite set of channels (`ChannelAssumption`), any
requests, cancellations, hosts and connections of which none is `None` (`NoneAssumption`), any number of
shared files (`FilesAssumption`) and failures, and any texts that are not empty (`EmptyAssumption`), copies
and connections of the clipboards:

| Theorem | States |
|---|---|
| `SentStaysWhole` | `MCSpec => []SentIsWhole` |
| `FailsOnlyWhenCutOff` | `MCSpec => FailsWhenCutOff` |
| `PeersStayTrusted` | `MCSpec => []PeersAreTrusted` |
| `LastCopyStays` | `MCSpec => []LastCopyWins` |

Each part has an inductive invariant, which its module states, and one of them runs: `OnePart` and `AlwaysSafe`
put them together. The proofs are here rather than in the modules because a theorem about the instance is one
about what TLC runs, with the substitutions.

For `DeviceSend`, `NeverForgotten` says that a request that was not answered is at one place of one line, and
`DeliveredOnce` that it reaches the peer once. `Stages` and `WireIsSent` are what they need beside: a request whose packet is on the wire
is the one that its channel is writing, and that write succeeded, so no failure can make it be written again. The hard step is
a failed write, or a lost read, which destroys a channel: in one step a line is emptied, a part of it is retried at once, which
answers some requests and appends the others to the line of another channel, and the rest goes to `posted`. Lemmas
on sequences say what that does to the members and their distinctness (`JoinFacts`, `InOrder`), and that a retry
which keeps each sending request in one line preserves the invariant. `CutOff` then comes from `Retry`: only with no channel left does it
fail a request.

For `Share`, what is complete is whole because each transfer went through its files in order and none it passed is
missing: `Through` relates the position in the list to the files that were sent or saved, for each
upload (`UploadOK`) and download (`DownloadOK`); the rest of `Inv` is what keeps it so when files join.

That a complete `Transfer` is whole rests on what its task returned first: `OkIsWhole`
says that a success was only ever returned for a whole copy, and it stays true
because the copy is not started again, which `HalvesMeet` gives: the halves met
already. `HalvesMeet` itself needs that executing a transfer, which sets its file
anew, finds none open (`NotBefore`).

For `Clipboard`, `LastCopyWins` speaks of states at rest, and `Inv` says what holds on the way there, as long as nothing is
disturbed (`Undisturbed`, which never comes back once it is lost). `OnTheWay`: what is read or sent is the last copy, but for
the exchange at a connection, and an end that is to get another text from it has something newer,
so it will not take it. `Behind`: an end that lacks the last copy is older than the other; the other was not told of
that text and will not be, so that it does not take it for an echo; and while the other knows of a connection the copy is being
read there or is under way in a packet that will be taken (`Awaits`). At rest nothing is under way, so no end is behind. The step
that needs most of this is taking a packet (`TakeStep`): whether it is taken follows from the two timestamps, and
the copy that the write makes is read in turn, and is the last one too.

For `Lan` the invariant is that of the module (`LanNext`, `OpenFollows`).

Only model-checked: the properties of `plugins`, and the liveness properties (`ExchangesEnd` among them). Out of the
prover's reach are liveness under fairness, `ENABLED`, and what the folds and filters of the community modules
compute: their definitions recurse over data in operators that take operators. `DeviceSend` avoids
them where it can: the requests that are tried again are chosen from their permutations in the order they
had (`InOrder`), rather than selected one by one. There are no recursive operators.

## 5. What is not modelled

The application object and its command line, settings, dialogs and pages of the user interface other than
the messages, `valent-context` and its directories: sequential code without a protocol.
`eds`, `pulseaudio`, `ping`, `presenter`, and of `xdp` and `gtk` what only calls a portal or a
toolkit: wrappers, or one packet with one effect. The input and session components forward to
their adapter.

Within the modelled parts, what is left out is in the notes of `PROJECT.json`: the contents of packets and
how they are read from JSON where no property is about them, logging, properties that are only
notified, the payload channels of LAN and Bluetooth (a payload connection is a step of
`Transfer` that succeeds or fails), album art and playback positions, movements of the pointer. GLib is
modelled as the code uses it: a `GTask` answers once (a second answer is a
warning), a cancelled operation may still have succeeded, a callback runs in the main
loop, a `GRecMutex` is recursive, D-Bus keeps the order of what one end sends. Cancelling a thread that is blocked in the muxer,
and more than one multiplexed channel at a time, are not modelled.

## 6. Plan

What is left, in the order of how much of the system depends on it:

1. Payload channels of the LAN and Bluetooth services, under `Transfer`; blocked calls of the muxer that are
   cancelled.
2. A channel with its reading half, so that `Device` implements a specification of
   "packets of a paired device reach the plugin in order", and `DeviceSend` one of
   "a packet is delivered once or its sender is told", whose invariants are proved.
3. The remaining operations of the plugins that `PROJECT.json` calls partly modelled.

Theorems to prove next: the refinements of the second item.
