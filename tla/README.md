# Hypnos-CPlus in TLA+

Models, model-checking runs and machine-checked proofs for the runtime of
Hypnos-CPlus, a C++ game framework. The reference is the code under `src/`; the
file `PROJECT.json` maps each definition to the lines it stands for. Paths below
are relative to `src/Runtime/Management/` unless they begin with `Tests/` or
`Runtime/`.

- [1. The system](#1-the-system)
- [2. Modules](#2-modules)
- [3. Runs](#3-runs)
- [4. Proofs](#4-proofs)
- [5. Findings](#5-findings)
- [6. What is not modelled](#6-what-is-not-modelled)
- [7. Plan](#7-plan)

## 1. The system

### Threads and what they share

A TCP listener has a *receive thread* (`ProcessEvents`: epoll, `Accept`,
`Receive`) and a *send thread* (`SendResponses`). Both are detached. The *game
thread* runs the game loop: it calls `Dispatch` for the requests that came in,
`GameTimeManager::Update` and `LateUpdate` for the timers, and any thread of the
game may call `Send`.

```
 client --bytes--> [receive thread: epoll, Accept, Receive]
                        | push under requestLocker
                        v
              producerRequests / consumerRequests
                        | Dispatch: alias, swap under requestLocker, iterate
                        v
                  [game thread] --Delegate of requestHandlerMap--> the game
                        | Send: push under responseLocker, notify
                        v
              producerResponses / consumerResponses
                        | SendResponses: alias, wait on responseCv, swap, iterate
                        v
 client <--bytes-- [send thread], to connId->sock, as it is by then
```

### Inventory

| Component | State | Operations | Interacts with | What makes it correct |
|---|---|---|---|---|
| Request hand-off (`TcpListener_Unix.cpp`, `SocketListenerBase.hpp`) | two vectors, two pointers into them, `requestLocker`, `requestHandlerMap`, the request objects | push at the end of `Receive`, `Dispatch`, `Register`, `Unregister` | receive thread, game thread | the vector iterated without the lock is never appended to; no request is lost, repeated or reordered; no visit of a deleted request |
| Response hand-off (same files) | two vectors, two pointers, `responseLocker`, `responseCv`, `hasNewResponse` | `Send`, `SendResponses` | game threads, send thread | the same, and no lost wakeup |
| Packet framing (`Receive`, `NetworkDefinition.hpp`) | per connection: the buffer, `pendingBytes`, `processedBytes`, `waitingBytes`, `isWaitingPacketSize` | recv loop, parse loop, compaction, close | kernel (edge-triggered epoll), `RequestProducerBase::Produce` | requests are the bodies of the stream, however TCP cuts it; nothing complete is left behind; closes have a cause |
| TCP connections (`ProcessEvents`, `Accept`) | descriptors, `connectionMap` with one `Connection` per descriptor, epoll set | accept, the closes of `Receive`, use of `connId` by the send thread | kernel, send thread, and the data manager, which draws on the same descriptor numbers | a reused `Connection` is clean; nobody's connection is closed by someone else; answers go to the asker; clients get accepted |
| UDP listener (`UdpListener_Unix.cpp`) | as TCP, one socket | `Send`, `SendResponses`, `Dispatch`, `Receive` (discards everything) | game threads, kernel | as the hand-offs; the socket is read empty |
| Listener lifecycle (`NetworkManager`) | listener, producer, threads | `Initialize`, `Listen`, `Register`, `Unregister`, `Release` | all of the above | registered handlers are called; release frees once, and nothing still in use |
| Timer list (`GameTimeManager`, `GameTimerBase`) | `headNode`, `tailNode`, `nextNode` and `isStop` in each timer | `AddLast`, `Clear`, `Update`, `Start`, `Stop`, `Restart`, `Reset` | callbacks of timers, which re-enter it | the list is a list; each timer due is ticked once a frame; `Update` ends |
| Frame clock, `CountdownTimer`, `LapTimer` | `frameStart`, `deltaTime`; `leftTime`, `interval`, and the laps' `scaledInterval`, `lapLeftTime`, `totalLap`, `leftLap` | `Update`, `LateUpdate`, `Set`, `Restart`, `Add`, `Scale`, `Start`, `Stop`, `Tick` | the game loop, the timers' two callbacks | game time does not run ahead; a timer is not early; a lap timer's six counters agree |
| Data tables (`GameDataManager`, `I18nTextManager`) | an mmap, its descriptor, a hash table or sorted index in it, `currentLanguage` | load, look up, switch language | descriptors | a look-up finds what is there and ends; a failed switch leaves a usable state |
| Game state (`GameStateManager`) | the current state | `Switch`, `Update` | the game | |
| Codec (`PacketReader`, `PacketWriter`, `RequestBase`, `ResponseBase`, `Tests/Network/EchoMessage.hpp`) | a buffer and an offset in it | write and read of every kind of field, `Pack`, `Unpack` | sending, framing | what is written is read back; the length field says how long the packet is |
| Sending (`SendResponses`, `TcpListener_Unix.cpp`) | the packet, how much of it is sent, the connection it is sent to | pack, `::send` in pieces | kernel, clients that do not read or leave | a client cuts the stream where packets end; nobody is held up by another |
| Logging, configuration, Windows listener, test program | none of interest | | | |

### What is hard

- *Interleavings.* `Dispatch` and `SendResponses` alias the two pointers before
  they take the lock, and the send thread leaves them aliased while it sleeps.
- *Ordering of flag, vector and notification* between `Send` and the wait.
- *Edge-triggered events*: whatever is left unserved is not reported again.
- *Splits*: TCP cuts a stream anywhere, inside the length field too.
- *Numbers that change their meaning*: descriptors and the `Connection` objects
  kept for them are reused while answers to the old client are on their way, and
  a refused message closes its number twice.
- *Failure halfway*: `Accept` goes on after `fcntl` or `epoll_ctl` fail.
- *Re-entrance*: timer callbacks start, stop, restart and clear timers while
  `Update` is in the list, and change a `LapTimer` in the middle of its tick.
- *Lagging time*: a tick uses the length of the frame before it.
- *Narrow numbers*: a packet's length is an `int16` on one side and a count of bytes
  on the other, a string's length is a `uint16`, a size is added up and truncated.
- *Non-blocking sends*: the kernel takes part of a packet, or none, or the client is
  gone; what a client reads is one stream all the same.

`PROJECT.json` lists these and others as hazards, each at its line with the
properties that cover it.

## 2. Modules

| Module | Models | Theorems in |
|---|---|---|
| `Mailbox` | the abstract queue that both hand-offs promise: what is posted is taken in batches and consumed once, in order | `ReceiveThreadProofs` |
| `RequestHandoff` | the push of `Receive`, `Dispatch`, `Register`/`Unregister`; implements `Mailbox` | `ReceiveThreadProofs` |
| `ResponseHandoff` | `Send` in any number of threads, `SendResponses`; implements `Mailbox` | `ResponseHandoffProofs` |
| `PacketFraming` | `Receive` on one connection, byte for byte | `PacketProofs` |
| `TcpConnections` | `ProcessEvents`, `Accept`, the closes, descriptor reuse, answers to old descriptors, data files | `ReceiveThreadProofs` |
| `TimerList` | `GameTimeManager::Update`, `AddLast`, `Clear` and what callbacks do to them | `TimerListProofs` |
| `GameTimer` | `Update`/`LateUpdate` as a clock, and a `CountdownTimer` or a `LapTimer` on it | `GameThreadProofs` |
| `PacketCodec` | the conversions of `PacketWriter` and `PacketReader`, `Pack`, `Unpack`, the test's messages | `PacketProofs` |
| `ResponseStream` | `SendResponses` on one vector, byte for byte, and clients that cut their streams as `Receive` does | `ResponseStreamProofs` |
| `DataTables` | `CreateMmap`, `SwitchLanguage`, and the look-ups of both managers | `GameThreadProofs` |
| `UdpListener` | `Send` and `SendResponses` without ownership of the mutex, `ProcessEvents` and `Receive` | `ListenerProofs` |
| `NetworkManager` | `Initialize`, `Listen`, `Release`, `Register`, `Unregister`, with the constructors and destructors of both listeners | `ListenerProofs` |

`SequenceLemmas` has the facts about sequences, least numbers and recursive functions
that the proofs share. A proof module may hold the theorems of two components; where
their names would meet, those of one carry a prefix (`ConnInit`, `UdpSpec`,
`DataTypeOK`, `StreamInit`).

`MC<Module>` gives a module's constants values for TLC. An operator whose
comment begins with `Mutant:` is a plausible bug: an altered copy of the
definition that follows it, which some property has to catch.

**RequestHandoff.** One action per statement that another thread can see between:
`Produce` (a packet becomes an object), `ReceiveLock`, `ReceiveLoad` (evaluating
`producerRequests->`), `ReceiveAppend`, `ReceiveUnlock`; `DispatchSnapshot` (line
118, which aliases both pointers), `DispatchLock`, `DispatchSwap`,
`DispatchUnlock`, and the loop. Loading the pointer and appending to the vector
are two steps, because a pointer read too early is what could go wrong. `heap`
says which objects are alive, `skipped` which were passed over because their
message id has no Delegate: those are never deleted. The handler map is touched by
the game thread only, between two Dispatches.

**ResponseHandoff.** `Send` is six steps, in any set of threads. `Wait` releases
the lock and sleeps in one step, as a condition variable does; `SpuriousWakeup`
may come at any time. `Transmit` stands for the sends of one packet to one
connection, whose bytes are in `ResponseStream`. `conn` runs through the connIds.

**PacketFraming.** The client's stream is the positions `0 .. Total - 1`; the
buffer holds positions, so a byte in the wrong place is visible. A length field
is decoded from the two buffer cells it lies in: if they are the two bytes of the
field of packet `k`, the length is that of body `k`. `Arrive` appends any number
of bytes to the kernel's queue and raises the edge. `Moved` is memcpy, and
`CopyOrder` says in which order it moves overlapping bytes. `RecvAgain` is `EAGAIN`,
`RecvClose` 0 or an error.

**TcpConnections.** `owner` says what each descriptor is open on, and accept and
open take the lowest free one. A message is two pieces, so that one can be left
half sent. `answers` holds client and Connection for every answer that the game
has yet to write; `Answer` looks at the descriptor when it is written
(`TcpListener_Unix.cpp:338`). `AcceptForgotten` and `AcceptUnwatched` are the two
failures that `Accept` logs and goes on from; `AcceptFails` is accept at the
descriptor limit, which is called again and again. `RecvRefused` closes, and stays
in the recv loop; `RecvClose` is then the second close, of whatever the number has
become.

**TimerList.** `Update` is a loop of `Unlink`, `Tick` and `UpdateEnd`; a tick that
expires enters a callback, in which up to `MaxOps` operations on any timers
happen before `TickReturn`. `nextNode` may start as garbage: it has no initializer.

**GameTimer.** `Pass` lets time go by in any phase. `Update` is a loop with more timers
in it than this one: `UpdateBegin` sets `frameStart`, and from then on until `UpdateEnd`
the callbacks of other timers may operate on this timer, before the loop comes to it
(`Unlink`, or `Tick`, which counts the frame before) and after. `ticked` says how often
it has come in this `Update`: once, unless a callback cleared the list (`Clear`,
`cleared`); `TimerList` has the pointers behind that. `LateUpdate` reports a short frame as
`minDeltaTimeTick` and sleeps at least the rest. That the game calls the two in
turn is an assumption, as nothing in the repository calls them. `kind` is the class
of the timer. `LapTick` is a tick up to the call of `OnLapTimeUp`, `LapReturn` the
rest of it, `TickReturn` the return from `OnTimeUp`, and `phase` says which callback of
the timer runs; the game may operate on the timer there as it may in the callbacks of
others, in the frame and between frames. `Scale`'s arithmetic is an operator
that both classes share, as the code divides in the same way twice.

**PacketCodec.** A type is a record, a value a number, a sequence or a pair. `Codec[t]`
has the values of type `t`, what `PacketWriter` writes of one, what of it is kept (a
string is cropped), and what `PacketReader` finds at an offset of a buffer. It is a
function on `Type`, the types in use, and recursive on `Depth`: one definition for each
kind of field (`FixedCodec`, `VarintCodec`, `SVarintCodec`, `StringCodec`), a vector made
of its elements, a struct of its first member and the rest. `Pack` adds the msgId and the
length in front. A byte has `Byte` values, and widths are in bytes, so that a small
`Byte` makes the widths overflow on small messages.

**ResponseStream.** `PackResponse`, then for each connection a loop of `SendSome`,
which takes any number of bytes that the socket has room for, until `SendEnds`, or
until `SendFull` or `SendFails` drop the rest; `SendKills` is SIGPIPE. `stream` is
what a client gets, and `intact` how much of it came before something was dropped.
`Cut` is how a client cuts it: the same parse loop as `Receive`'s. `Packed` is what
`Pack` makes of each response, computed once.

**DataTables.** `mapped`, `dataFd` and `fdStat` are the fields of each manager,
`opened` the descriptors both draw on. `MmapFails` leaves the descriptor open and
`OpenFails` the old size, as the code does. A language is named by a buffer
(`spelled`), because the manager compares and keeps pointers: `Rewrite` is the
owner of a buffer writing another name into it. The look-ups are operators:
`GetText` is the binary search, `GetKeyTableOffset` and `GetDataPointer` walk a
chain. The contents of the files are a parameter, `Disk`: sequences of ids, and for
each slot the sequence of the entries in its chain. `WellWritten` is what the look-ups
rely on the tool for that writes them: ascending ids, and every entry in its own chain.

**UdpListener.** The same steps as `ResponseHandoff`, in the order of this code:
the predicate is read (`Check`) before anything is locked, and `Sleep` frees the
mutex whoever holds it; `Relock` is the lock that wait takes before it returns. A
vector is memory and an end (`mem`, `size`), and `push_back` reads the end in one
step and writes behind it in another, so that two threads in one vector overwrite
each other as they would; `RunOff` is an iterator that the end has passed. `raced`
is set when a `Send` is inside its section while the send thread is between the
predicate and its own unlock without the mutex (`Racing`).

**NetworkManager.** A call of the game is one action, and `calls` records it. The
constructor's stages end either in a built listener or in the end of the process;
`PortHolders` is what makes bind fail: sockets of the process, and connections that it
has closed and the kernel keeps (`lingering`), after the client left (`Close`) or after
the server closed first, on a message it refused (`Refuse`), until `Expire`. `Listen` is
undefined a second time, and on UDP at once, because of the send thread it starts;
`NoProducer` is a complete message with no producer to call. `Destroyed` is what both
destructors leave behind, and `ThreadsRunOn`, `NeverSet` and `DeletedTwice` say why
a `Release` is undefined. After undefined behaviour the process may `Crash` at any
time, or go on.

The modules meet at named places: `PacketFraming` ends where a request is made,
which is `RequestHandoff`'s `Produce`; `RequestHandoff` ends in a handler, which
may call `ResponseHandoff`'s `SendBegin`; `TcpConnections` treats what lies between
request and answer as taking any time; and `TimerList` treats the expiry of a timer
as a choice that `GameTimer` makes precise; `ResponseHandoff`'s `Transmit` is what
`ResponseStream` spells out, and its clients cut their streams by the rules of
`PacketFraming`. No module assumes more of
another than the actions of that module allow.

## 3. Runs

| Run | Instance | What it shows |
|---|---|---|
| `request_handoff` | 4 requests, 2 message ids, Delegates that come and go | **ExclusiveVectors**: the vector iterated without the lock is not appended to. **ImplementsMailbox**: nothing lost, repeated, reordered. **HeapAccounted**: no dangling pointer; only requests without a Delegate are leaked. **Delivered**: what was pushed is dispatched. |
| `response_handoff` | 2 sending threads, 4 responses to 2, 1, 1 and 0 connections, spurious wakeups | The same for responses; **NoLostWakeup**: a flag that is set while the thread sleeps has its notification on the way; **TransmittedInOrder**: per response and connection; **Delivered**: without a further `Send`. |
| `packet_framing` | bodies of 5, 1, 3, 5, 2 bytes, `maxPacketBytes` 5 | **BodiesIntact**: requests are the bodies, whatever the splits; **NothingStranded**: back in `epoll_wait` with no event due, everything is read and cut; **ClosedForCause**: in particular `recv` is never asked for 0 bytes; **NothingAfterReject**; **PacketsDelivered**. |
| `packet_framing_overlap` | the same, with a memcpy that may descend | Finding 1. |
| `tcp_connections` | 3 clients, 2 descriptors, 1 data file, 2 events per wait | **BufferIsOwners**: a reused Connection holds nothing of its last client. **AnswersReachTheAsker**: only answers to a connection that was closed can go astray. **NoInnocentCut**: without a refusal, no connection and no data file is closed but its own. **NothingForgotten**: no client is left behind by an edge. **EventuallyAccepted**: unless descriptors run out. |
| `timer_list` | 2 countdowns, 1 lap timer, 3 operations per callback | **ListWellFormed**: the pointers spell out the linked timers whatever callbacks do. **CursorsInList**. **OncePerFrame** and **FrameEnds**: unless a callback clears the list. **DueIsTicked**. |
| `game_timer` | shortest frame 2, times of 3 and 6, 1 or 2 laps, ratios ±1/2, 7 units of time, callbacks of other timers before and behind this one, at most 2 ticks in an `Update` | **GameTimeNotAhead**. **CountsFromItsFrame**: a timer counts from the beginning of the frame it was set in, and the frame before it as well only if a timer ahead of it in the list set it from its callback in `Update`, once and no more. **LeftTimeConsistent**: `LeftTime()` equals what the laps have left. **LapsOnTime**: no lap is announced late while frames are no longer than laps. **TimeUpWhenDue**: neither early nor late. |
| `timer_scale_doc` | a countdown of 6, without `Add` | Finding 2. |
| `data_tables` | 2 languages of up to 4 texts, complements of each other, 1 data file with negative keys, 3 names of one slot, 2 of one hash; 2 descriptors | **MappingsSound**: size and descriptor are those of the mapping, whatever failed; only an mmap that failed leaves a descriptor open. **TextsRight**: the language last asked for, unless a switch failed or the name was overwritten; the search finds what is there and nothing else. **DataFound**: the same for names and keys. |
| `udp_listener` | 2 sending threads, 3 calls or datagrams in all | **HarmOnlyByRace**, **DeliveredUnlessRaced**: without the race nothing is lost, repeated, reordered or late; with it all of that happens. **SocketDrained**: datagrams are left in the socket only after an unexpected error. |
| `network_manager` | 5 calls, 2 listeners, 1 connection each, open or lingering, 2 message ids, 2 handlers | **HandlersCalled**: exactly the registered handlers but the first of each id. **OrderlyIsDefined**: what a game must not do, if its calls are to bring no undefined behaviour about; it includes every Release of a listener, a Listen on UDP and a Listen without a producer. **PortHeldForCause**: the port is held by a listener that is there, or by the connections, closed ones included, of a TCP listener that was released after it had begun to listen. |
| `response_stream` | 13 vectors of 1 or 2 responses to 2 clients, packets of 5 to 149 bytes where an int16 ends at 71 | **AnswersReadBack**: from what it gets, until something is dropped, a client cuts the packets meant for it and reads what the game wrote; exactly which packets and strings are cut short or never sent. **NobodyHeldUp**: the send thread gets through. |

Each module also has a type invariant (`TypeOK`, or `ConnTypeOK`, `UdpTypeOK`,
`DataTypeOK`, `StreamTypeOK`). All are proved (section 4) but `UdpListener`'s, which is
proved until a race; it can be added to that run's configuration, in which it holds. `SPECIFICATION`, constants and bounds are in the `.cfg` files.

### Bounds, and why they suffice

- *Hand-offs.* Four messages let two batches of more than one be in flight: one in
  the vector that is iterated, one in the vector that is filled. More than two
  sending threads only wait for the same mutex. The proofs have no such bound.
- *Framing.* A body of exactly `maxPacketBytes` twice, the smallest, and some in
  between; the buffer is smaller than two packets, so compaction happens with
  every overlap. The stream is finite, so the run stops in a final state, hence
  `CHECK_DEADLOCK FALSE`. The proofs hold for any stream and buffer.
- *Connections.* Two descriptors and three clients and a file: the fewest in which
  numbers are reused, the limit is hit, and a client waits in the backlog at the
  limit. `Pieces` gives one client a whole message, one half a message, one
  nothing. Each client connects once and may be done, hence `CHECK_DEADLOCK FALSE`.
- *Timer list.* Three timers are a head, a middle and a tail; three operations in a
  callback are enough to clear the list and link two timers again.
- *GameTimer.* Frames both shorter and longer than a lap or a countdown; `MaxNow` and
  `MaxLap` cut off times and laps beyond those, where no new comparison changes its
  outcome; the run has seven units of time, enough for three frames of the shortest
  length, or for one that is longer than a countdown and another. `MaxTicks` is 2: after
  a `Clear` a timer can be ticked again in one `Update` as often as callbacks link it
  anew, and the second tick already leaves what `CountsFromItsFrame` speaks of. The
  proofs hold for every value of these bounds.
- *DataTables.* Tables of 0 to 4 ids take the binary search through every branch and
  both ways of ending; a uint of four bits has its wrap-around within the keys. With
  two descriptors the limit is hit as soon as one is lost.
- *UdpListener.* `MaxEvents` bounds calls and datagrams together, since the two sides
  share nothing. Three calls are two batches and one response left over; two threads
  are what it takes to lose a response in a vector. The system may stop, after
  `RunOff` or when all is sent: `CHECK_DEADLOCK FALSE`.
- *ResponseStream.* With 12 values to a byte, an int16 goes from -72 to 71 and a
  uint16 to 143. The packets lie at these limits: 5 to 9 bytes, 71 and 72, 145 (one
  byte over 2^16), 146 and 147 (an empty packet, and half a msgId), 149, and one whose
  string is longer than its uint16 says. The
  fields of `EchoResponse` take their least and greatest values, 0 and -1. `SendRoom`
  of 3 is less than any packet, so each is sent in pieces and the buffer gets full.
  The vector is finite, hence `CHECK_DEADLOCK FALSE`.
- *NetworkManager.* Five calls are a whole life (initialize, listen, release,
  initialize, use) or any history of two handlers. One connection of each listener,
  open or lingering, is enough to hold a port. The process may have ended, hence
  `CHECK_DEADLOCK FALSE`.

### Fairness

Safety needs none. For liveness:

- *RequestHandoff*: weak fairness of a push that has begun (the receive thread is
  not suspended for ever) and of `Dispatch` (the game loop goes on calling it).
  No packet has to arrive.
- *ResponseHandoff*: weak fairness of each `Send` that has begun and of the send
  thread. A thread waiting for the mutex is only weakly fair; this is enough as
  only finitely many responses compete for it. No spurious wakeup has to happen,
  which is the point of `Delivered`. Nobody has to call `Send`.
- *PacketFraming, TcpConnections*: weak fairness of the receive thread, a loop
  around `epoll_wait` that ends with the process. No client has to do anything,
  and the game need not free a descriptor.
- *UdpListener*: weak fairness of each `Send` that has begun, of the send thread and
  of the receive thread, as above.
- *ResponseStream*: weak fairness of the send thread, whose calls do not block. No
  client has to read or to leave.
- *TimerList*: weak fairness of `Update`, callbacks included, which is one thread
  running a loop; the operations in a callback are bounded by `MaxOps`, which
  stands for "a callback returns".

`tcp_connections` and `timer_list` state their liveness with the case in which the
code does not give it (`Unused = {}`: accept is retried for ever on the only thread
that closes sockets; `cleared`: a callback that clears and restarts timers).

## 4. Proofs

Proved by TLAPS for every value of the constants that the named assumption allows.
Assumptions only say what constants are: `RequestAssumption`, `ResponseAssumption`
(sets, names apart from each other, connIds are sequences), `FramingAssumption`
(bodies of 1 to `maxPacketBytes` bytes, `Start` as their positions, a memcpy order
among those named), `TimerAssumption` (numbers), `ConnectionAssumption` (at least one
descriptor, clients apart from other owners), `DataAssumption` (kinds of constants, and
files as the look-ups expect them, `WellWritten`),
`ManagerAssumption` (a set of handlers is not the null pointer), `UdpAssumption` (numbers,
and no sender by the send thread's name), `ByteAssumption` (a byte has an even number of
values, more than two), `TypeAssumption` (types are of the kinds the code writes, and a
part is less deep than the whole), `StreamAssumption` (responses of those types, whose
values their fields can hold, read as the type they were written as). That memcpy ascends is a
hypothesis of the framing theorems, not an assumption: with the other order they
are false.

| Theorem | Says |
|---|---|
| `ReceiveThreadProofs!MailboxCorrect` | the abstract queue is first in, first out, with nothing lost or repeated |
| `ReceiveThreadProofs!HandoffCorrect`, `ResponseHandoffProofs!HandoffCorrect` | types and the inductive invariant |
| `…!VectorsExclusive` (both) | `ExclusiveVectors` |
| `…!HandoffRefines` (both) | the hand-off implements `Mailbox` |
| `ReceiveThreadProofs!HandoffFifo` | `Fifo`, from the refinement and `MailboxCorrect` |
| `ReceiveThreadProofs!HeapSafe` | `HeapAccounted` |
| `ResponseHandoffProofs!WakeupsReachTheThread`, `FlagIsExact` | `NoLostWakeup`, and `FlagTracksBox`: with the lock free the flag is exact |
| `ResponseHandoffProofs!WritesInOrder` | `TransmittedInOrder` |
| `ResponseStreamProofs!AnswersAreReadBack`, `StreamTypes` | `AnswersReadBack`, types |
| `PacketProofs!WrittenIsReadBack` | for every type, `PacketReader` finds what `PacketWriter` wrote and stops behind its last byte |
| `ListenerProofs!HarmComesOfARace`, `SocketIsDrained` | `HarmOnlyByRace` and `SocketDrained` of `UdpListener` |
| `TimerListProofs!ListCorrect`, `ListStaysWellFormed`, `CursorsStayInList` | types, `ListWellFormed`, `CursorsInList` |
| `TimerListProofs!TicksCorrect`, `TickedOnce`, `TickedWhenDue` | `OncePerFrame`, `DueIsTicked` |
| `PacketProofs!FramingCorrect` and its corollaries `RequestsAreTheBodies`, `NoCloseWithoutCause`, `NoByteStranded`, `RefusedStreamStops` | `BodiesIntact`, `ClosedForCause`, `NothingStranded`, `NothingAfterReject` |
| `GameThreadProofs!TimerCorrect` and `ClockNotAhead`, `TimerNotEarly`, `LapTimeConsistent`, `LapsAnnounced`, `TimeUpExact` | types, `GameTimeNotAhead`, `CountsFromItsFrame`, `LeftTimeConsistent`, `LapsOnTime`, `TimeUpWhenDue` |
| `ReceiveThreadProofs!TypesCorrect`, `BuffersAreTheOwners`, `AnswersDoReachTheAsker`, `NobodyInnocentIsCut`, `NobodyIsForgotten` | types, `BufferIsOwners`, `AnswersReachTheAsker`, `NoInnocentCut`, `NothingForgotten` |
| `GameThreadProofs!MappingsStaySound`, `LookUpsFind`, `TextsAreRight`, `TypesCorrect` | `MappingsSound`, `DataFound`, `TextsRight`, types |
| `ListenerProofs!PortIsHeldForCause`, `OrderlyGamesAreDefined`, `RegisteredHandlersAreCalled`, `TypesCorrect` | `PortHeldForCause`, `OrderlyIsDefined`, `HandlersCalled`, types |

**The hand-offs.** `ExclusiveVectors` is not inductive: it says nothing of the
moment at which the pointers are equal on purpose. The invariant has three parts.
`LockInv` says who holds the mutex at which step. `PointerInv` says that between
the snapshot and the swap both pointers are the same and `temp` is the other,
empty vector; that they differ at every other time; and that an append in progress,
which holds the lock, has the vector `producerRequests` points to. So the swap
cannot come between load and append, and after it an append can only go to the
other vector. `VisitInv` keeps the iterator inside the vector. For responses
`FlagInv` adds that the flag and the vector can only disagree inside the lock:
after a push and before its flag is set, or after the swap and before the reset. The
refinement reads the abstract box from the producer's vector and the batch from
the consumer's; every step is then a `Mailbox` step or changes nothing of it.
`HeapSafe` needs a second invariant, `HeapInv`: a request waiting to be pushed is
not in any vector, no request is pushed twice, and what was pushed and not visited
is alive; first-in-first-out then turns positions in the history into positions
in the vectors.

**The order of writes.** `TransmittedInOrder` speaks of what went to the sockets,
flattened. Two invariants carry it. `InOrder` is the equation of a queue: what was
pushed is what is done, then the batch from the present response on, then the box; a
push, a swap, a transmission and a clear each move one part of it to the next, which
are the lemmas `QueuePost`, `QueueCollect`, `QueueConsume` and `QueueRetire`, for any
sequences. `AttemptInv` says what was written: everything for the responses that are
done, and the first `conn` connections of the present one. `FlattenSeq` of the community
modules is a recursive function; that it exists, depends only on what it has gone
through, and turns a longer sequence into a longer one (`FlattensExists`,
`FlattensAgree`, `FlattenAppend`, `FlattenPrefix`) is proved by least counterexample,
since induction theorems take an operator that the provers cannot instantiate.

**The UDP listener.** Nothing of its state can be
said after a race, so the invariant is `~raced => UdpState /\ UdpOrder`: as long as none
was noted, the mutex is held across a `Send` although the send thread frees it
without owning it (`UdpLock`), a push in progress is at the end of the vector producers
use (`UdpPointers`), and `UdpOrder` is the equation of the queue, with the same lemmas.
`raced` is never taken
back, so a step that ends without it neither began with it nor ended in a race: the
one fact that rules out a `Swap` in the middle of a push, and with it `RunOff`.
`SocketDrained` is inductive as it stands.

**The timer list.** `ListWellFormed` says that head, tail and every `nextNode` spell out
the ghost sequence `listed`, without repetition. The lemmas `AddLastLinks`,
`ClearUnlinks` and `UnlinkCloses` show it for each change of pointers; to unlink is to
remove one element of the sequence and to move those behind it up (`RemoveFound`).
`CursorsInList` needs `InHand`: both cursors are on the timer whose callback runs, and it
is still linked unless the list was cleared. For the ticks, `Ahead(t)` says that the loop
has still to come to `t`, `AheadNotTicked` that such a timer, or one that is not linked,
has no tick yet, and `DueAhead` that one which is due and has none is ahead. These two
are inductive: an append is behind the cursor, a removal keeps the order of the rest
(`BehindAppended`, `BehindRemoved`), and a callback can do no more than that, unless it
clears the list.

**Framing.** `WindowIntact` is the heart: the window holds the stream from the cut
on. It needs `LoopInv`: outside the parse loop `processedBytes` is 0 and fewer bytes
are pending than are waited for, so there is room in the buffer, and recv is asked
for at least one byte. `Place` and `LengthFieldIsBody` say that two different
positions of the stream are not confused, so the length that is decoded is that of
the next body.

**The codec.** `Sound(codec)` says that a value is written as bytes, and that wherever a
buffer holds these bytes, reading there finds what is kept of the value and ends behind
the last of them. It is proved for each kind of field, and of a vector and a struct if it
holds of their parts (`FixedIsSound` to `StructIsSound`); `WrittenIsReadBack` follows for
every type by least counterexample on its depth. For numbers it is arithmetic: the digits
of a number in base `Byte` are its quotients' remainders (`NextDigit`, `NumberReads`), a
width keeps its numbers (`Widths`), zigzag is undone (`Zigzag`), and the continuation bits of
a varint tell where it ends (`VarintReads`). `Power`, `Varint`, the readings of varints
and vectors, `Codec` and `Cut` are recursive functions, of which a prover knows nothing
until it is shown that they exist; `RecursionExists` shows it once, for any definition
that looks only at points of a lower rank.

**Answers.** What is meant for a client is one sequence of bytes, `Wire`, fixed by the
vector of responses: for each, as often as the client is among its connIds, the frame
that is sent of it (`Frame`: the first `length` bytes that `Pack` made, or nothing if that
is not positive). `Due(c)` is how far in it the send thread is, counted from where it is
in its three loops. The invariant `StreamInv` says, for each client (`Follows`), that as
long as nothing was dropped it has `Due(c)` bytes, that what it had when something was
dropped is still there, and that these bytes are the beginning of `Wire`; and
(`Progress`) that `packet` is the packed form of the response at hand. A step of the
loops leaves `Due` as it is or adds what the kernel took (`DueOfPack`, `DueOfSome`,
`DueOfNextConnection`, `DueOfNextResponse`), whose place in `Wire` is `PieceInWire`. It
remains that a beginning of frames is cut into the first of their bodies (`CutPrefix`),
and that a body reads as what was written (`BodyReadsBack`, from `WrittenIsReadBack`); the
size that is one more than a multiple of 2^16 is excepted because its frame is one byte,
less than a length field (`FrameOf` needs it).

**Timers.** `FrameInv` says that a reported frame has passed by the time the next can
begin, and `GameTimeNotAhead` follows step by step. `CountsFromItsFrame` is not
inductive: `CountInv` says that a timer the loop has still to come to has counted no more
than it may, less the frame length it is about to count. For laps
`LapInv` says that a lap takes time and that no more than a lap is left of the present
one, and `LeftTimeConsistent` that the two accounts of the time left agree; adding
laps and scaling multiply both, so the steps rest on lemmas about
products (`Distributive`, `Monotone`, `ScaledOrder`), because the provers do not
multiply variables by themselves. `RunOutTogether` is what `TimeUpExact` needs: the
whole and the last lap come to an end in the same tick. `Flags` and `Times` split
the types because truth values and numbers are for different provers.

**Connections.** Each of the four properties has its own strengthening, and the same
three facts about owners: the kernel gives out what was free (`LowestIsUnused`, from
the least-number principle), an accept and an open change the owner of one such
descriptor (`Takes`), and a close frees one. `AnswersReachTheAsker` is inductive with
the types alone. For buffers, a watched descriptor is a client's (`WatchedAreClients`),
so it cannot be given out. For closes, `InHand`: until a message is refused, the
thread has only watched descriptors in hand, and each once, so no close comes twice.
For edges, `EdgeInv`: what is not served is reported, taken or at hand.

**Mappings.** `MapInv` is `MappingsSound` by manager, with `LostStayOpen`: a
descriptor that was lost is never free again, so open does not give it out. A step is
followed in two halves, what munmap and close leave (`AfterRelease`) and what open
gives (`AfterOpen`).

**Look-ups.** In a chain the first entry that fits is found, and one that fits is in no
other chain: `WellWritten`, and slots in range (`SlotsInRange`). For the binary search
`Searched` states what `probe` has to return for each range; by `OneProbe`, which is
where the table has to be ascending, it meets the equation that defines `probe`, so the
function exists, and by least counterexample on the length of a range any function that
meets it is the same (`ProbesAgree`). `LangInv` ties the language of the mapping to the
buffer the manager points to.

**NetworkManager.** `PortHeldForCause` follows from `PortInv`: only a TCP listener that
was started has connections, and a started one that was deleted has left `undefined`
set. For `OrderlyIsDefined`, `PointerInv` ties the state to the history of calls: the
pointer is set exactly if Initialize was called; the listener pointed to has the protocol
and the producer that the last Initialize asked for (`AsAsked`); a listener with threads
was started since it was built; and in an orderly game the listener pointed to was not
deleted, and only TCP listeners with a producer have threads. So the next orderly call
finds it, an orderly Listen finds one that can be started (`StartableFinds`), and a
message finds its producer. For `HandlersCalled`, `ExpectedAfter` says how one call changes the set of
expected handlers.

**Only model-checked.** Liveness (`Delivered`, `PacketsDelivered`,
`EventuallyAccepted`, `FrameEnds`, `DeliveredUnlessRaced`, `NobodyHeldUp`), which
needs ENABLED. Every invariant and action property of a passing run is proved. `TypeOK` of
`UdpListener` (`UdpTypeOK`) is proved as far as `UdpTypes` says, that is until a race.

## 5. Findings

1. **memcpy on overlapping memory** (`Network/TcpListener_Unix.cpp:299`, run
   `packet_framing_overlap`). The line above it asks that overlapping not cause
   problems. With a memcpy that moves the last byte first, a request is built from
   bytes that are not its own; with an ascending one every property of framing is
   proved.
2. **Scale** (`GameTime/CountdownTimer.cpp:33`, run `timer_scale_doc`). The comment
   says -0.5 leaves -50% of the time; the code divides by 1.5, which leaves two
   thirds.

Behaviour that no document contradicts, but that a user of this code should know,
and where it is visible in the models:

- Requests for which no Delegate exists are leaked (`skipped` in `RequestHandoff`);
  responses are never deleted by the framework.
- A refused message closes its descriptor twice; if the number has been given out
  again in between, the second close hits another client or a data file
  (`refusal` in `NoInnocentCut`).
- An answer to a client that left may be written to the next client with its
  descriptor (`astray` in `AnswersReachTheAsker`).
- At the descriptor limit the receive thread spins in `Accept` (`AcceptFails`).
- A client whose `fcntl` or `epoll_ctl` failed stays connected and is never read.
- A `LapTimer` that is set, restarted or scaled in `OnLapTimeUp` is off by one lap
  (`tampered` in `GameTimer`).
- A timer that is set, restarted or started by the callback of a timer ahead of it in
  the list is ticked in the same `Update` with the length of the frame before, and so
  expires earlier by that frame (`lead` in `GameTimer`).
- A callback that clears the timer list and restarts timers can keep `Update` from
  ending (`cleared` in `TimerList`).
- The first handler registered for a message id is dropped: `Register` creates the
  Delegate and adds only from the second call on (`NetworkManager.hpp:40-49`,
  `HandlersCalled`).
- The UDP send thread can go to sleep on a response, when `Send` runs between the
  predicate and the sleep, and can lose one, when it swaps the vectors during a
  `push_back` (`raced` in `UdpListener`).
- A listener cannot be released without undefined behaviour once it listens, nor,
  with a producer, at all (`OrderlyIsDefined`); and if clients are connected when it
  is, the next `Initialize` ends the process (`PortHeldForCause`). So it does when none
  is connected, for a minute after the server closed a connection first: the listening
  socket is bound without `SO_REUSEADDR` (`lingering`).
- A UDP listener cannot be started without undefined behaviour; nor can a TCP listener
  without a producer once a client sends it a message (`OrderlyIsDefined`).
- A packet of 2^15 bytes or more, its length field included, is not sent at all, or
  only the first bytes of it are, under a length that says so; one byte more than a
  multiple of 2^16, and a single byte is sent, after which the client reads packets
  where none begin. A string is cut to its length modulo 2^16 (`AnswersReadBack`).
- When a client's socket is full the rest of a packet is dropped, and the stream goes
  on with the next one; what a client makes of it then is not followed (`intact` in
  `ResponseStream`). A send to a client that is gone raises SIGPIPE, which ends the
  process if nobody handles it (`SendKills`).
- After a switch of language failed, switching back to the language before does
  nothing, and texts stay numbers (`failed` in `DataTables`).

## 6. What is not modelled

- *UDP `Dispatch`*: `TcpListener`'s without the delete, and it finds nothing, as
  `Receive` discards every datagram.
- *Undefined behaviour* in `NetworkManager` is the end of the process or nothing; a
  detached thread on reused memory is not followed.
- *The encodings of Hypnos-Core*, a submodule that is not in the repository: the
  variable-length numbers are taken to be base-128 varints and zigzag.
- *Length fields outside 1 .. `maxPacketBytes`*, which `Receive` does not check
  (`Network/TcpListener_Unix.cpp:272`): the clients of `PacketFraming` keep to the
  format (`FramingAssumption`).
- *`acceptedSockAddrLen`*, which nothing initializes and `accept` is given: taken not
  to be negative. *`connId.sock`* of a reused `Connection`, which `Accept` writes while
  the send thread may read it: formally a data race, of a value that does not change.
- *Packets longer than `sendBuf`* (`maxPacketBytes` times 16), which `Pack` would
  write past its end; *a stream after a byte was dropped*.
- *Pointers into a mapping* that a caller keeps; `SetI18nTextDirectoryPath`, which is
  taken to be called once; the managers' destructors.
- *Delegate* (a submodule that is not in the repository) is a set of handlers.
- *`Network/TcpListener_Win.cpp`*: stale; it defines members that the headers no
  longer declare.
- *Game state manager*: one pointer; `Switch` dereferences the null it assigned.
- *Float rounding* in the timers; *timer lifetimes*: the destructor does not unlink,
  so a timer destroyed while listed would dangle; timers here live as long as the list.
- *The deletion of responses*: nobody deletes them, so there is no state to follow.
- *Logging, configuration records, the test program*: no state.

## 7. Plan

Done: `Mailbox`, the two hand-offs, framing, timer list, connections, timers, data
tables, UDP listener, network manager, codec and sending, in this order: first what
every message passes through, then what shares descriptors, then the game loop, then
what surrounds them; and the proofs of section 4. To come:

1. A composition of connections and hand-offs, if its state space allows: a request
   read from a descriptor, its answer and the descriptor's next owner.
2. The stream of a client after a byte was dropped, of which nothing is said yet.
