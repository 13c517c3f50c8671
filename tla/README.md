# A TLA+ model of macdetect

macdetect watches which MAC addresses are present on the networks of a host
(`macdetectd`), tells clients about them over TCP (`client`, `pymacdetect`), and
shares a small library of values, packets and discovery (`utils`).  This
directory models the daemon, its protocol, its discovery, its start and its
graphical client, checks them with TLC on small instances and proves, with
TLAPS and for all instances, the safety of the daemon's core, of its clients' view
and of the graphical client, of the bytes on a connection, and of the daemon's start.

All modules are TLA+ written from the C++ and Python source; `PROJECT.json` names for each
definition the lines it stands for.

## 1. Inventory

| Component | State it keeps | Operations | Interacts with |
|---|---|---|---|
| Network (`Network.cpp`) | known devices, kernel's names, table of addresses seen, evidence per address, events of the cycle, white/blacklist, times | `cycle()`: read frames, resolve names, remove/add devices, maintain status, expire addresses, ping | kernel (interfaces, clock, packet sockets, resolver), Daemon reads events and tables |
| Device, Wire, SocketReader | a packet socket, own MAC (asked once), IPs, flags, time of last ping | read a frame, ping, status setters | kernel |
| Server, Served (`Server.cpp`) | listeners, connections, queue of received values, removed connections | `cycle()`: accept, close bad listeners, receive, reap | TCP peers, Daemon takes queue and removed |
| Daemon, main loop (`Daemon.cpp`, `daemon.cpp`) | streams (connection, device), keepalive time | `cycle()`: network, server, drop streams, answer requests, dispatch events, discovery, keepalive; `shutdown()` from a signal handler | all of the above |
| PacketEntity, Value (`utils`) | a descriptor, a failure flag | send/receive a serialized value tree | TCP or multicast |
| Discovery (`utils`) | detected servers | request and answer by multicast | Daemon, client |
| Client, MDClient | a socket, or one that never got connected | connect, disconnect, requests, receive | daemon |
| pymacdetect | - | value tree to dictionary and back, wrappers of MDClient's calls | MDClient |
| MDGui, ConnectionManager | lists of devices, addresses and servers, connection state, poll timers, a database of addresses ever seen | clicks, poll of the connection, timer for discovery | pymacdetect |
| Config, ArgumentParser, Data | text read at start | parsing, lookups | main() |
| RARP, Globals | - | never called; logging | - |

The daemon is a single thread.  What makes it hard is everything around it: the
kernel's interfaces, the clock and the peers move between any two of its system
calls, signals arrive at any instruction, and four lists (devices, addresses,
connections, streams) must stay consistent with each other and with what
clients were told.  What correctness means for each part:

* **Network**: one entry per address and device, entries only on known devices,
  nothing about reserved addresses, no address dropped before its time and none
  kept forever, devices that follow the kernel's list, and a report of every
  change that a client can rebuild the tables from.
* **Server**: a connection is in exactly one list from its arrival until its
  descriptor is closed; requests are answered; connections whose peer left go.
* **Daemon**: streams belong to served connections and are unique; a client that
  follows the protocol knows the devices and, for an enabled stream, the
  addresses; a client learns what it asked for and nothing else; a signal, and
  nothing but a signal, ends the process.
* **Packets, Value, binding**: what one end sends is what the other end gets, in
  order, however TCP divides it, and serialisation stays within its buffer.
* **Discovery**: a daemon that was asked is listed once, by the name it was given.
* **Start**: options and files mean what is written, a signal is never lost.
* **Graphical client**: what the window shows is what the daemon knows, a
  connection is read until its end, and its end is shown.

`PROJECT.json` lists the hazards line by line with the properties aimed at each.

## 2. Modules

| Module | Models | Uses |
|---|---|---|
| `Network` | `Network::cycle()` step by step, devices and sockets, the kernel around them | - |
| `Monitor` | the contract of `Network::cycle()`: what it may change in which order, and what it reports | - |
| `NetworkMonitor` | refinement mapping; `ImplementsMonitor` | `Network`, `INSTANCE Monitor` |
| `Server` | `Server::cycle()`, TCP connections and peers | - |
| `Daemon` | `Daemon::cycle()`, the main loop, the signal, clients' knowledge | `Monitor`, `Server` |
| `Value` | value trees and their bytes | - |
| `Dictionary` | the Python dictionaries in place of values (recursive, for TLC only) | - |
| `Packets` | one direction of a connection between two `PacketEntity`, byte by byte | `Value` |
| `Desktop` | the graphical client, the client library below it, and one client's view of the daemon | - |
| `Configuration` | `Config` and `ArgumentParser` as operators | - |
| `Discovery` | multicast requests and answers, the list of servers | - |
| `Startup` | `main()` from static objects to the end of the loop, with discovery in it | `Configuration`, `Discovery` |
| `MCNetwork`, `MCDaemon`, `MCPackets`, `MCDesktop`, `MCStartup` | instances for TLC | |
| `NetworkProofs`, `NetworkReportProofs`, `NetworkMonitorProofs`, `DaemonProofs`, `DaemonSyncProofs`, `DesktopProofs`, `PacketsProofs`, `StartupProofs` | the theorems (section 4) | the module they are about, TLAPS |

`Daemon` composes `Server` with `Monitor`, not with `Network`: what the daemon
sees of the monitor is the contract.  That the detailed monitor implements it is
checked by `net_two` and proved in `NetworkMonitorProofs`.

**Network.**  `npc` is the place in `cycle()`; each loop is one step per element,
with the elements still to visit in `todo` (devices) or `unresolved` (addresses).
Environment steps (`Tick`, `LinkUp`, `LinkDown`, `Unplug`, `Shutdown`) may come
between any two.  `m_lstMACSeen` is the set `macSeen` of entries (insertion order
matters only in `deviceForMAC()`, where the time of the first frame decides; on a
tie either is allowed), `m_lstDevices` the partial function `device`, `m_mapMACEvidence` the
function `evidence`, and `m_lstEvents` the sequence `events`.  `link` is the
kernel's view of an interface: absent, present without address (not in
`SIOCGIFCONF`), or addressed.  A device's `wire` is "none" when its socket could
not be opened, "dead" when its interface has gone since.  Regexes of the
white/blacklist are the sets of names they match.  Times are natural numbers.
`addDevice()` opens the socket and asks for the address in one step.

**Server.**  A connection's socket is free, open, cut, closed (by the peer), reset,
broken (the error was given out) or gone.  `AfterSends` says what a number of
`send()` calls makes of it, the SIGPIPE included.  The daemon's sockets do not block
(`Server.cpp:124`), so any `send()` to an open one may find its buffer full: the rest of
the value is dropped (`PacketEntity.cpp:65`) and nobody notices.  The socket is "cut" from
then on: the daemon goes on serving it, and what its client makes of the bytes is not
followed.  That the values of an open socket arrive whole is what `Packets` looks at.

**Daemon.**  `dpc` is the place in `Daemon::cycle()`.  `client` is a history
variable: the devices, addresses and streams a client that believes every
message would have.  `synced` are the devices whose stream was enabled when the
client asked for the known addresses and of whose end it was not told since; for these its
view must be right.  `off` are the devices it asked to switch off.  The answer names the
device asked for, and only that one leaves `on` and `synced`, although the daemon may have
ended the stream of the listener's device instead.  A client of a connection that is
not open any more is forgotten.  Requests are those the repository's own clients send; for
values that are no request `Daemon.cpp:227` uses a null pointer, and they are left out.

**Packets.**  A message is a dictionary on Python's side and a value on the
daemon's; `direction` says who sends.  `Send` serialises into a buffer that grows by
`BufferStep` until the value fits, `Write` takes any part of it, `Arrive` delivers
any part of what was taken, and `Peek`, `PullValue` are the two `recv()` of
`receive()`.  The code has no framing beyond the value itself: a value that is
looked at before all of it has arrived (`PullPart`), or whose sender gave up in its
middle (`WriteFails`), puts the ends out of step for good.  Both are actions; they set
`cut`, and the properties say what holds until then.

**Desktop.**  The window is one thread: each click and each call of a timer is an
action.  Python exceptions are part of the actions they end: the handler of a closed
connection clears the lists, then raises an `AttributeError` before the button is
reset (`ReceiveEnd`), and an address that is new to the history raises a
`TypeError` in the middle of its packet (`addMACs`); GLib then drops the timer.
`fd` distinguishes no descriptor, a connected one and one whose `connect()` failed,
which `connected()` takes for a connection.  The daemon of this module is reduced
to what one connection sees: tables, events in cycles, answers before the events
of the same cycle, streams tested by the listener's device as in `Daemon`.

**Startup.**  `phase` is the place in `main()`, and each turn of its two loops (over
artifacts, over candidate files) is one step, so that a signal can come between.
`case` is what a run finds: command line, privileges, files, vendor lists.  Text is a
sequence of symbols; each file comes with what it means, written down
independently of the parsers.  An uninitialised port is any of `Ports`.  An exception
that nobody catches ends the process as "aborted".  `Restart` starts a new process,
possibly with another file, while the multicast datagrams of the former are still
in the `air` of `Discovery`, from which any may arrive at any time, again and again,
or never.

Definitions marked *Fault* are plausible errors in the code; `PROJECT.json` names for each
property one that violates it.

## 3. Runs

| Run | Checks | Instance | Distinct states |
|---|---|---|---|
| `net_one` | table, evidence, reports, times and liveness of the monitor | 1 device, 3 addresses (a host's, the device's own, the reserved one), 2 IPs (one of them multicast), clock up to 3 | 450 thousand |
| `net_two` | loops over devices, reports, refinement of `Monitor` | 2 devices that are alike, 2 addresses (one reserved), 2 IPs, clock up to 1 | 1.8 million |
| `net_replug` | **violated**: `ListensAgain` | 1 device, clock up to 1 | - |
| `daemon_conns` | connections, streams, queue, a client's devices right | 1 device, 2 connections, 1 request each | 8.1 million |
| `daemon_live` | types, streams unique, a client's addresses right, liveness of the daemon | 1 device, 1 connection, 2 requests (addresses, stream on, stream off) | 1.1 million |
| `daemon_switch` | **violated**: `ClientsKnowStreams` | 2 devices, 1 connection, 2 requests | - |
| `daemon_hear` | **violated**: `OnlySubscribersHear` | 1 device, 1 connection | - |
| `daemon_leave` | **violated**: `SurvivesDisconnects` | 1 device, 1 connection | - |
| `packets` | messages intact and complete, buffers | words of 2 bytes, buffers that grow by 8, 28 bytes in flight, 2 messages out of 2 requests or 3 answers (8 to 28 bytes) | 185 thousand |
| `desktop` | polling, devices, addresses, closed connections | 2 devices, 2 addresses, 2 changes of the network, 2 connects, 2 toggles, any number of restarts of the daemon | 754 thousand |
| `desktop_end` | **violated**: `EndShown` | as `desktop` | - |
| `startup` | arguments, files, vendors, discovery, signals | 259 command lines of up to 3 artifacts, 18 sets of files, 3 of vendors, 2 names with a desktop; 2 runs, queues of 3 datagrams | 103 thousand |

**Bounds.**  `MaxTime` stops the clock; with `net_one`'s values an address can be
heard, age beyond its limit, be heard again or expire, and a name check and a
second ping interval can fall due.  Two devices are enough for one to be visited
while another changes and for one address to be on both.  `MaxRequests` bounds
what a connection sends; two are needed to enable a stream and then ask for the
addresses, or switch it off.  With one device the test of the wrong stream still differs
from the right one when the listener has been closed, for then `servingByID()` gives no
device; what it does with two devices is shown by `daemon_switch`, and the theorems
about `NoDuplicateStreams` and `ViewInSync` are for any number.  `MaxReport` bounds the optional events of one cycle
to two (a device added takes two); expected cleanup (`Purge`) is never blocked.
The number of cycles is not bounded in any run.  Symmetry over connections
(`daemon_conns`) and over devices (`net_two`, whose devices are alike) is used for
safety properties only.  That only some of several devices are allowed is not
checked by `net_two`; the proofs of `LoopsCoverDevices` and `DevicesTrackSystem`
cover it.

In `packets` a buffer of 8 is no larger than any message and two messages fit into
the connection at once, so that values are peeked in several turns, waiting values lie
behind one another, and `send()` meets a full buffer before, in and after a message.
In `desktop` two changes are enough for an address to move or a device to go
between an answer and its event, and two connects for a timer to outlive its
connection.  `MaxReplies` bounds the values on their way to the window, which is taken
to read in time: the daemon would not wait, but drop what does not fit (the "cut" sockets
of `Server`), and nothing about the lists could be promised.
In `startup` three artifacts give every order of token, value and switch, a token
last and a token as a token's value.

**Fairness.**  In `net_one` and `daemon_live` the only fairness assumed is weak fairness of the thread itself:
its sockets are non-blocking (`MSG_DONTWAIT`, `O_NONBLOCK`), the resolver
gives up after its timeouts, and the loops remove what they handled.  Nothing is
assumed of peers, kernel, clock or signals.  `packets` assumes that a `send()` that
was begun goes on, that TCP delivers what it took, and that the receiver polls (the
main loop and the window's 10 ms timer do).  `desktop` assumes of the window only
that GLib calls its timers.  `startup` assumes that the loop turns and that the timer
for discovery fires; no datagram has to arrive.

### What the properties leave open

What the properties exclude is what the code gets wrong or does not promise:

* `RequestsIntact`, `AnswersIntact`, `EverythingReceived` hold until a message is `cut`.
  TCP may cut one at any time; nothing in `PacketEntity` notices.
* `AnswersIntact` excepts entries whose key occurs twice in a list, and
  `AddressesShown` addresses that were on two devices at once: a dictionary keeps one.
* `AddressesShown` holds when the history had every address from the start; a new one ends
  the poll timer and the rest of its packet.  Addresses that have disappeared stay
  listed (`removeMAC()` looks in the wrong list), so the property is an inclusion.
* `ViewInSync` speaks of clients that have switched off no device but the one they
  connected by (`SwitchedOwnOnly`).  For another device the daemon ends the stream of the
  former and says it has ended that of the latter, so that the client's view of the former
  goes stale without a word.  `ClientsKnowStreams`, violated, is about this mismatch.
* `DevicesInSync` and `ViewInSync` speak of sockets that are "open": what a client knows
  whose messages were dropped is not followed.
* `ConnectionPolled` speaks, as `AddressesShown` does, of windows whose history had
  every address from the start.
* `ListedAsConfigured` allows the name of an earlier run: rows are never renamed.
* `ConfiguredAsWritten` allows any port where the file gives none, and says nothing of
  files that make the daemon abort.

### What the violated properties show

* `ListensAgain`: the packet socket of a device is opened once, in the constructor of
  `Wire`.  An interface that is removed and returns between two scans never leaves
  the kernel's list, its `Device` stays, and its socket is dead for good.  The
  README says the daemon "accomodates for removed or newly added network
  interfaces".
* `ClientsKnowStreams`: `enable-stream` and `disable-stream` look at the stream
  of the *listener's* device (`Daemon.cpp:194`, `212`), not at the one asked
  for.  The documentation says notifications are switched "individually".
* `OnlySubscribersHear`: a host name resolved after its address expired is
  reported with an empty device name, which `Daemon.cpp:351` sends to everybody.
* `EndShown`: when the daemon has closed the connection, the window clears its lists, logs
  "Connection closed by server." (`MDGui.py:154`) and sets `ConnectionState.Disconnected`,
  which does not exist.  The exception leaves the button at "Disconnect".
* `SurvivesDisconnects`: `PacketEntity::write()` sends without `MSG_NOSIGNAL`; two
  messages to a client that has left, before `recv()` notices, kill the daemon.

## 4. Proofs

| Module | Extends | Proves |
|---|---|---|
| `NetworkProofs` | `Network` | types, the tables, the loops, the clock: eight invariants beside the inductive ones, two action properties |
| `NetworkReportProofs` | `NetworkProofs` | the events of a cycle agree with the tables and come in order |
| `NetworkMonitorProofs` | `NetworkMonitor`, `NetworkReportProofs` | `ImplementsMonitor`: the detailed monitor implements the contract |
| `DaemonProofs` | `Daemon` | types, connections, streams, the queue |
| `DaemonSyncProofs` | `DaemonProofs` | clients stay in step with the tables |
| `DesktopProofs` | `Desktop` | that connections are polled, and the window's two lists |
| `PacketsProofs` | `Packets` | the codec for every value, and what arrives over a stream in pieces |
| `StartupProofs` | `Startup` | the command line, the configuration in force, names in the list of servers, signals |

A theorem holds for every set of devices, addresses, connections, listeners and
cases, unbounded time and any number of cycles, requests, runs and sessions: the bounds of
the runs are constants like any other.  All rest on the `ASSUME`s of the modules
alone, which TLC evaluates in the runs: constants have their types, `None` is no device, IP
or host name, the requests are the five that clients send, every configuration file has a
name, a command line is a sequence of artifacts, a value is a finite tree whose parts lie
one after the other.  Four theorems have a hypothesis of their own, given below.

**Network.**  Everything but the reports follows from `NetworkInvariant`:

    NetInv == TypeOK /\ LoopsCoverDevices /\ DevicesTrackSystem /\ TableInv
    TableInv == KeysUnique /\ EntriesOnKnownDevices /\ ReservedNeverSeen /\ TimesOrdered

The parts need each other.  `DevicesTrackSystem` says nothing during the scan,
so it is not inductive: `LoopsCoverDevices` carries across what the two loops
have still to do (`todo` is exactly what is known and not listed; no allowed
device is neither known nor still to be added).  `EntriesOnKnownDevices` needs it
too: a frame is read only from a device that `todo \subseteq Known` says exists.
`NoEarlyDisappearance` speaks of the real clock while the code uses the cycle's
stale one; `TimesOrdered` (the stale one is never ahead) bridges the two.
`PendingInv` speaks of the addresses and devices a loop has taken up and not handled yet:
`EvidenceKept` needs that those still to be resolved have no host name,
`PingersHaveAddresses` that devices the status loop has passed have their addresses.
The step lemmas have one case per action, grouped as in `Network`.

**Reports.**  The three properties of `events` talk about first and last events of
a kind in a sequence.  They are restated as predicates of a sequence and a table
(`PresenceFollows`, `EvidenceFollows`), with a lemma for what one more event does to
each; an action that schedules several events is a chain of such steps.

**Refinement.**  `NetworkImplementsMonitor` is proved from one lemma per kind of step
(frames, removals, additions and status, advancing, host names): the abstract report is
the concrete one mapped event by event, mapping goes through appending (`MappedJoin`,
`MappedAppend`), and each step of `Network` is a step of `Monitor` or one it does not see.
`NetInv` and `PendingInv` supply the contract's guards: only known devices are read, what
is left for a loop is what the contract says its stage has left, and keys are unique, so
that erasing an entry takes its pair from the table.

**Daemon.**  `ConnInv` adds to the four properties where `cycle()` is while each of
the server's lists may hold something (`ListsInPlace`), that a connection gives one value
or fails in one pass (`QueuedPassed`, from which `QueuedFromServed` survives reaping),
that a waiting connection has not been written to, and that a client nobody has answered
knows nothing.  `SyncInv` is about the events still to be handed out: the last event of each
device and address is right (`LastDeviceEvent`, `LastPresenceEvent`), and a client is
right about everything of which no event is still to come (`DevicesFollow`,
`ViewFollows`).  This is why an answer taken from the tables before their events have
gone out does no harm; between two cycles, when nothing is to come, it gives
`DevicesInSync` and `ViewInSync`.  `SyncedHaveStreams` says
that a client that relies on a device's events is sent them: a stream ends when its device
is removed, of which the client is told, or by a request to switch one off, and a client for
which `SwitchedOwnOnly` holds is told of that, too.

**Desktop.**  `ConnectionPolled` follows by counting timers (`PollInv`): each connect adds
one, and while the connection may have something to read, none ends but by the exception
for a new address.  `DesktopInv` has the same idea with two queues in a row, the daemon's
report and the socket.  `Left(s, P, R)` says that queue `s` holds something that brings a
device or an address with nothing behind it that takes it away.  What the queues will
leave is there (`NothingStale`), and what is there is left by one of them, or is listed
and not taken away by either (`DevicesArrive`, `AddressesArrive`).  `EnablingAsks`
is the reason the addresses of a newly enabled stream arrive: every enabling request
is followed by a request for the addresses.  When the queues are empty, `DevicesShown` and
`AddressesShown` remain.  The proof showed that `AddressesShown` must
speak of the history as it was when the window was opened (`familiar`): a known address can
be lost beside a new one whose exception drops the rest of the packet, and the new one is
in the history from then on.

**Packets.**  `Values` is any set of trees that holds the sub-values of its members, and
`Offset` says where each sub-value begins; it is constrained, not computed, so that the
functions `subsBytes` and `valuesAt` replace recursive operators.  That their equations have
solutions (`SubsBytesDef`, `ValuesAtDef`) is proved, and so are all inductions, over
the bytes left to write or to read: the library's induction theorems cannot be
instantiated here, but `LeastNumber`, from the theorem that every nonempty set has a
minimal element, takes a set and no operator.  `Serialises` says what `serialize()` writes
in a buffer of any length, `RoundTrip` that `deserialize()` finds the value again
whatever follows it, and that a buffer ending anywhere within the value makes it look
beyond the end.  The stream is then a matter of offsets: `Follows` says that the bytes on
their way, those the kernel has and those `send()` still holds together, are the bytes of the
messages not received yet, one after the other.  It is stated with the offset of each
message, so that sending appends one, taking a message back (`WriteFails`) drops the last,
and `PullValue` subtracts the first from all.  With it `Intact` is inductive, and gives
`SendBufferFits`; `RequestsIntact` if every request's value says what its dictionary
says, and `AnswersIntact` if every answer's dictionary says what its value says.  The
hypotheses are about the binding's conversions alone (requests with one item below
each key satisfy the first, for `pyObjectToValue()` takes the first item again and again);
TLC checks the conversions with the stream around them.  `ReceiveFailsOnlyOnParts`
says the converse of what the model allows: a value that is there is never taken for a part.

**Startup.**  `ParsedInv` says that `parse()` has understood the artifacts it has passed
(`Understood`) and never stands at an option's value.  The property reads the
whole command line (an artifact is a value when the tokens right before it are odd in number),
the code goes artifact by artifact and skips the one a token has taken; `ValueAfterToken`
relates the two, by the smallest token of such a run of tokens, and `ParseTurn` has one step
per kind of artifact.  `parameters()` is a loop, and that it runs to its end is proved too
(`LoopRuns`).  From there `StartedAsAsked` follows for every command line.  `FoundInv` adds
that nothing of a configuration is set before a file is found and that no candidate
passed over is there; with it `Meant()` is the file `TryConfig` reads.
`ServingsLoop` is about the entries of "serve": `freeServingID()` finds a number
because there are more numbers than servings (the pigeonhole principle), so that no
two servings have a number, or device and port, in common.  What is left as a
hypothesis of `StartupConfiguredAsWritten` is `ReadAsMeant`: that the parsers make of each
text, taken alone, what the case says it means.  `MCStartup` assumes it of its cases, so that
TLC evaluates it on the files in all their styles.  `NamesInv` follows the names: in the
air, in both queues and in the list there are only names of `called`;
`StartupListedAsConfigured` needs that the settings are as written, and so the same
hypothesis.  `StartupSignalKept` is the safety half of `SignalEndsRun`.

**Only model-checked.**

* All liveness properties (`OldAddressesGo`, `DevicesFollowLinks`, `ShutdownStops`,
  `RequestsAnswered`, `LeftConnectionsReaped`, `SignalEnds`, `EverythingReceived`,
  `CloseNoticed`, `AnswersListed`, `SignalEndsRun`): fairness is out of the prover's reach.
* `ReadAsMeant`: what the parsers, which fold over text, make of a file for every text
  would need induction over data, and a meaning of text to compare with.
* What `valueToPyObject()` and `pyObjectToValue()` make of a tree (`Dictionary`).

## 5. Not modelled

* Of the graphical client: evidence, identities, nicknames, the timeline and layout.
* Of the binding: creation and destruction of clients, argument errors, reference
  counts, and the stream wrappers no code calls.
* What deserialisation makes of bytes it never received: any outcome is allowed, and
  the model ends there.
* Packet contents and checksums of pings, logging, RARP (never called).
* Descriptor leaks, memory growth, and how long a blocking name lookup lasts.
* Requests other than those the repository's clients send.

## 6. Plan

1. A composition of `Daemon` with `Desktop`'s view of it: the daemon of `Desktop` as a
   refinement of `Daemon` restricted to one connection.
