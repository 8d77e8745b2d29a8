# Verification of libphidget22

This directory holds TLA+ models of libphidget22 (`src/mdns/libphidgets22`), the
C library that attaches Phidget devices, over USB, VINT hubs or the network, and
delivers their events to a program. Paths below are relative to
`src/mdns/libphidgets22/src/` unless they begin with `src/`.

    tlc -workers 2 -config dispatch_session.cfg MCDispatch    # a run
    tlapm DispatchProofs.tla                                  # proofs

## The system

| part | code | state | operations |
| --- | --- | --- | --- |
| dispatcher | dispatch.c | two queues per channel, two lists of channels with work, the pool of entries, the dispatcher threads | insert an entry, drain a queue, execute an entry, clear the queues, start/stop/wake |
| channel and device lifecycle | phidget.c, manager.c | flags of channels and devices, `device->channel[]`, parents, open counts | match, attach, detach, open, close, wait for an attach |
| bridge packets | bridge.c | packets with reference counts | send to the device (a command), send to the channel (an event), over the network |
| packet trackers | util/packettracker.c | a table of 128 trackers per device | get, wait, set a return code, release |
| hub packet space | device/hubdevice.c, device/vintdevice.c | bytes in flight for each hub port | claim before a send, give back on the return code, kill on close |
| mesh dongle | device/meshdongledevice.c | the same for mesh hubs | |
| objects | object.c | reference counts, flags, a lock and a condition per object | retain, release, check-and-set flags, wait |
| network | network/*.c | connections, requests that wait for a reply, sequence numbers | send, reply, close, discover servers |
| transports and drivers | usb.c, spi.c, gpp.c, vint.c, device/*.c, class/*.c | device registers | translation between packets and values |
| library | phidget22.c, stats.c, util/* | central thread, logs, configuration | |

How the parts meet. A user's call (`class/*`) builds a bridge packet and calls
`bridgeSendBPToDevice`, which queues a `DE_USERREQ` entry on the channel and,
if the call is synchronous, waits for it. A dispatcher thread executes it: the
device's driver sends packets, which take a packet tracker and packet space of
the hub, and wait for the return code that the reader thread of the hub
delivers. In the other direction a reader thread calls
`bridgeSendBPToChannel`, which queues an entry on the outbound queue of the
channel; a dispatcher calls the user's handler. The central thread scans the
transports, attaches channels to devices (`startDispatch`) and detaches them
(`stopDispatch`). A network server does the same for the channels its clients
have opened, and a client for the packets of its servers.

What is hard. All of these threads share the flags of a channel, each under
its own short critical section, so every decision (may this entry be queued,
is this channel on a list, who returns this entry, is the attach over) is made
on state that may be gone when it is used. Attach, detach, close and failure
race with the queue. Callbacks run user code on dispatcher threads and may wait
for other dispatchers. `PROJECT.json` lists the hazards at their lines, with the
property that covers each, or why none does yet.

What makes each part correct:

- dispatcher: one dispatcher per queue; an entry is in one place; a request is
  answered once; events reach the user in the order attach, events, detach; no
  event is stranded; attach and detach end.
- lifecycle: a device's channel is held by at most one open channel; a device is
  open exactly while one of its channels needs it; a close that returns leaves
  nothing behind.
- packet trackers: a return code reaches the thread that waits for that packet
  and no other; an abandoned tracker is not used again before its code came.
- hub packet space: bytes in flight never exceed the port's buffer, and all
  space comes back.
- objects: an object is freed when, and only when, its last reference goes.
- network: a reply reaches the request it answers; every waiter is released when
  the connection closes.

## Modules

| module | contents |
| --- | --- |
| `Dispatch` | the dispatcher, with the threads that attach, detach, open, close, issue requests and deliver packets |
| `MCDispatch` | symmetry for the runs of `Dispatch` |
| `DispatchProofs` | theorems `TypesCorrect`, `TokenInvariant` and `OneDispatcher`, and where each thread can be |
| `DispatchEntryProofs` | theorems `OnePlace`, `RequestKept` and `CalledOnce`, on top of the two invariants of `DispatchProofs` |
| `DispatchSessionProofs` | theorems `NotStranded`, `NotStrandedInSession`, `InOrder` and `InOrderInSession`, on top of all of these |
| `HubPackets` | packet trackers, buffer space, reader and senders of a VINT hub |
| `MCHubPackets` | where the runs of `HubPackets` start |
| `HubPacketsProofs` | theorem `Accountancy`, and on top of its invariant `AnswersMeet` |
| `HubSpaceProofs` | theorems `HubTypes` and `SpaceAccounted`, with a section on sums, and on top of them `ResultsHonest` |
| `ReplyPromise` | what a network connection promises those who send requests over it |
| `Replies` | requests that wait for a reply, replies, timeouts and the close of a connection; implements `ReplyPromise` |
| `RepliesProofs` | theorems `RepliesTyped`, `ListSound`, `StrayFromCloseOnly` and the refinement `RepliesKeepPromise` |
| `DeviceOpen` | channels that attach to slots of devices and are closed, and the open count of devices and their hub |
| `MCDeviceOpen` | a hub and a VINT device for the runs of `DeviceOpen` |
| `DeviceOpenProofs` | theorems `DevicesCorrect`, `ClosingToken`, `CloserSafe`, and on top of their invariant `HeldStaysOpen` and `OpenForSomebody` |
| `DeviceSlotProofs` | theorems `ClosedGaveBack`, `ExclusiveSafe` and `AttachedStaysInSlot`, on top of these |

The modules share no variables. `Dispatch` and `DeviceOpen` model the same calls
(attach, detach, open, close) for two questions: `Dispatch` has the queues and
one device, `DeviceOpen` has several devices with their locks and counts and, of
the queues, only whether the attach event is still there. `HubPackets` is below
both: a request of `Dispatch` is one step there and a series of packets here. A
request that `Dispatch` hands to a network connection is one of `Replies`.

### Dispatch

An action is one critical section of the code (the channel's lock, the dispatch
lock, the entry's lock) or one atomic flag operation of object.c. What a thread
keeps on its stack between two of them is in the record `th[t]`:

| field | in the code |
| --- | --- |
| `pc` | where the thread is |
| `ph` | `phid`, the channel it works on |
| `req` | `de` in insertDispatchEntry and dispatchUserRequest |
| `todo` | the dispatch functions it still has to call (startDispatch calls three) |
| `cont` | where the call returns to |
| `rc` | the result of getDispatchEntry and insertDispatchEntry |
| `out`, `cur`, `returnde`, `at` | `out`, `de`, `returnde` of PhidgetDispatcher, and the position in getDispatchOutPhidget |

| variable | in the code |
| --- | --- |
| `flags[p]` | OPEN, ATTACHED, ATTACHING, DETACHING, DISPATCHOUT, DISPATCHIN of `__flags` |
| `slot[p]` | whether the channel has a parent, and whether `device->channel[]` holds it |
| `outq[p]`, `inq[p]` | the lists of `dispatchOutHandle` and `dispatchInHandle` |
| `outList`, `inList` | `dispatchOutList`, `dispatchInList` |
| `dlock` | the holder of `dispatchLock`, while it walks `dispatchOutList` |
| `de[e]`, `free` | the entries; `dispatchEntryList` together with what may still be allocated |
| `view[p]`, `owed[p]` | history: what the callbacks told the user; asynchronous requests not yet called back |

The threads: `Dispatcher` (PhidgetDispatcher; created by entryDispatched, gone
when dispatchTaskNeeded says so), `User` (requests, close, open), `Source`
(reader threads of devices and of network connections), `Central` (attach and
detach). A callback may issue a synchronous request (`NestedIn`).

Abstractions. Payloads, results of requests, error events and statistics are
left out. One device has one slot for each channel. Reading a field under no
lock is a step of its own where another thread can write it in between (`Mark`,
`Purge`, `CloseParent`). The dispatch queues exist from the start. In
`EnableFails` the channel has a Detach handler. Opening a channel is one action:
no device is offered the channel before Phidget_open has added it to the list.
A user's callback, and the driver's part of a request, always return.

### HubPackets

An action is what happens under one hold of the lock of the hub, of a tracker, or
of the reader between two of them.

| variable | in the code |
| --- | --- |
| `state[i]`, `code[i]`, `len[i]` | `_state`, `_returnCode`, `len` of tracker `i` |
| `counter[p]` | where getPacketTracker begins its search |
| `space[p]` | `outstandingPacketCnt[p]`, `Unknown` for PUNK_SIZE |
| `th[p]` | the sender of port p: `sendpacket` and the transaction it belongs to (`list`, `error`, packets to come) |
| `rd` | the reader in PhidgetHubDevice_dataInput, with the answer it is at; `gap` says that the packet counter shows a loss |
| `fw`, `pipe`, `asked` | external: the packets in the hub's firmware, the reports on their way, the status requests |
| `lost`, `fails`, `taken` | bounds and history: reports lost, sends failed, packets of the request that the device took |

`Sender` is the thread that holds `bridgeInputLock` of the device on a port
(devices.c), so there is one of it for each port: it takes a tracker
(`GetTracker`), claims bytes (`ClaimSpace`), sends (`Send`), and waits for the
answer or, in a transaction, keeps the tracker and releases the first that is
done (`Reap`). Each of its waits may time out at any moment. A released tracker
whose answer has not come is abandoned. `Reader` takes the reports one after the
other: the answer signals its tracker (`SetReturnCode`) and gives its bytes back
(`ReleaseSpace`); an answer it does not know, or one that says NOSPC, makes the
count unknown and the status is asked for; a loss kills what is outstanding.
`Answer`, `Status`, `Data` and `Lose` are the hub and the wire. The firmware
keeps a ring of BufferLen - 1 bytes for each port and answers in order, which is
what the code takes for granted.

Abstractions. A report carries one answer, or the status, or only data. Lengths
of packets are those the firmware stores. Time is not modelled: a timeout may
happen whenever its condition does not hold. Not modelled: detach messages,
closing a device, the reassembly of split packets, hubs over USB control
transfers (`transferpacket`), a hub that is detached.

### Replies and ReplyPromise

An action is what happens under one hold of the connection's write lock, its
lock, or the lock of a `WaitForReply`, or one access of the list under none.

| variable | in the code |
| --- | --- |
| `closed`, `wlock`, `reqseq` | `PNCF_CLOSED`, the holder of NetConnWriteLock, `nc->reqseq` (before it wraps) |
| `num[u]`, `got[u]`, `flags[u]` | `req.nr_repseq`, whose reply is in `req`, and `flags` of the `WaitForReply` of thread u |
| `live[u]`, `after[u]` | whether it is allocated; its list pointer as it was when it left the list |
| `pc[u]`, `res[u]` | where the thread is in writeRequest, waitForReply, closeWaitForReply; the result |
| `rd` | the connection's thread: `serve`, then PhidgetNetConnClose with its `wfr1` and `wfr2` |
| `asked` | external: the requests the peer has not answered |
| `late`, `undefined` | history: opened after the walk began; freed memory was used |

The list `nc->waitforreply` is not a variable: entries are inserted at the head
under the write lock, which also gives out the numbers, so its order is that of
the numbers, latest first, and an entry is on it while it has ONLIST.
PhidgetNetConnClose takes no lock for its walk: `WalkNext` reads a link that may
be stale, `WalkClose` and `WalkFree` may touch an entry that its waiter has
freed. Then `Stray` sets `undefined`, after which nothing is said. The peer
answers a request at most once, in any order, or never.

`ReplyPromise` is the abstract specification: a request has a stage (asking,
waiting, answered, failed), a number larger than all before, and at most one
reply, which carries the number modulo the width. `Replies` implements it by the
mapping `Stage`.

### DeviceOpen

An action is what a thread does under one hold of the run lock of a device, the
run lock of a channel, or the member lock of a device. The threads: the central
thread (matching, detaching), one user and one dispatcher for each channel, and
the threads of network clients' connections.

| variable | in the code |
| --- | --- |
| `open[d]`, `closing[d]`, `present[d]` | OPEN, CLOSING and ATTACHED of the device |
| `refs[d]` | references of `device->conn` above the one of the device itself |
| `slot[s]` | `device->channel[index]` |
| `flags[c]`, `parent[c]`, `index[c]` | flags, `parent`, `uniqueIndex` of the channel; `QUEUED`: its attach event is in its queue |
| `th[t]` | where the thread is; its channel, its device (`to`), the device whose lock it takes next (`at`), the slot, and the result of the parent's open (`ok`) |
| `leaving`, `todo` | the device that is detaching and its slots still to be emptied; `leaving` also stands for the write lock of the device list |
| `holds`, `crossed`, `stolen`, `orphaned`, `raced` | history, below |

openDevice and closeDevice are two actions for a VINT device, one for the hub and
one for the device, because the run lock is not held in between. closeDevice is
called for a channel (one reference) or by force from deviceDetach (all).

What the history variables are for. Four races of this code are real, and each
would hide every other fault in the properties they touch. A property that has
an exception names it: `crossed` are channels that attached while they were
closed or given up (phidget.c:1009, dispatch.c:1091), `raced` says that two
attaches that exclude each other overlapped (phidget.c:973), `stolen` that a
close gave back what its channel did not hold (after attach_error, which keeps
`channel->parent`), `orphaned` that openDevice retained an open device whose hub
had failed to open (phidget.c:639). Apart from these the properties hold.
ExclusiveRespected names `crossed` too, which its run does not need: with two
devices on one hub port, a channel whose attach failed may be attached to the
other device while its dispatcher has not given back the slot of the first. That
slot then seems to be that of an attached channel. And it speaks of slots that
exclude each other both ways: the check is made for VINT devices only
(phidget.c:922), so a channel of the hub itself (whose own `hubPort` is 0) may
attach where one on the port would have been refused.

Abstractions. Which channels fit which slots is a constant (`Fits`): names,
serial numbers and the order of matching are left out, any fitting pair may
match. Channels of network clients are opened by one client each, and their
channel object is new, in no slot, whenever it is created. A device that has
detached does not come back. The content of an attach (the class's initAfterOpen
and setDefaults) may fail, nothing more.

## Runs

Runs named dispatch_* use module `MCDispatch`, those named hub_* `MCHubPackets`,
those named device_* `MCDeviceOpen`, and replies `Replies`.
`p`, `q` are channels, `d1`, `d2` dispatchers.

| run | what it asks | result |
| --- | --- | --- |
| dispatch_session | order of callbacks, no stranded event, entries in one place: a local channel, a network channel and one that a network client opened, of which one attaches and detaches | holds |
| dispatch_requests | close and open against attach, detach and requests, synchronous with timeouts and asynchronous, full queues, exhausted pool | holds |
| dispatch_live | attach and detach end, requests of callbacks are answered | holds |
| dispatch_detach_lost | "For channels, fire the detach last." | violated |
| dispatch_return_assert | the assertion of returnDispatchEntry | violated |
| dispatch_attach_stranded | "events are not lost and the attach event is queued first" | violated for a second attach of a network channel |
| dispatch_detach_waits | the wait of channelDetach ends | violated when the channel was closed while attaching |
| hub_packets | trackers, ids, space and results of a port, and that requests end | holds |
| replies | requests and replies of a connection against timeouts, failing writes, wrapped numbers and the close; the refinement | holds |
| device_open | open counts, slots and exclusion while a user's and a client's channel attach, fail, close and are detached | holds |
| device_double_check | "attachChannel() will double check" | violated: both are attached to one slot |
| hub_run_out | "so we don't run out" | violated by a transaction with more packets than trackers |

The violated ones are described in `PROJECT.json` under findings; each is what
the code does against what its own comment says.

What the violated runs and the limits of the others say of the code:

- A packet delivered while a second attach of a channel fails stays in the queue
  and reaches the user before the next attach event; dispatch_session has one
  attach for this reason.
- A request inserted while its channel is closed waits for its timeout.
- After a lost report an id can be used again while its old packet is still in
  the hub. The late answer is then taken for the new packet's: `IdNotReused`,
  `SpaceCovers` and `ResultHonest` are stated as long as nothing is lost.
- After a failed send the bytes it claimed are never given back: `SpaceCovers`
  states the exact count as long as no send has failed.
- With two trackers for each port, `RequestEnds` does not hold: the search of
  getPacketTracker passes over the first tracker unless the counter is 0.
- A request that is opened while PhidgetNetConnClose walks the list waits for its
  timeout; one that ends while the walk holds a pointer to it is used after it
  was freed.
- A reply that meets a wait that has just timed out ends the whole connection
  (servers.c:709).
- A user's close that meets the slow part of an attach leaves the closed channel
  in its slot and the device open.

Bounds of `Dispatch`. Two dispatchers are enough for one to be held (by a callback or an
entry) while another runs; with `DesiredIdle = 1` they are created, wait and
exit. Two or three entries let the pool run out while a queue is not empty.
Limits of queues are 0 (a queue of one entry is full) to 3, so both the soft and the hard one are met. One
attach lets a session begin, fail, end by detach and by close; two attaches are
used where a new session may meet what the last one left. `MaxOps` bounds what
users and sources begin, never a step of an operation that has begun.
Deadlock is not checked: a run ends when these operations are used up.
Symmetry is used for safety only.

Bounds of `HubPackets`. One port: ports share only the reader and the status
report, and `Accountancy` is proved for any number. Three trackers, so that the
search wraps while one is held and another abandoned; two requests of at most two
packets take four, so ids are used again. Three bytes of buffer, so that a claim
waits for an answer. One fault, a lost report or a failed send.

Bounds of `Replies`. Two threads, so that one opens, times out or closes while
another is in the list behind or before it; four numbers of a width of two, so
that a number repeats while the request, or the late reply, of its first use is
still there, and so that an entry is opened while the walk is on.

Bounds of `DeviceOpen`. A hub and a VINT device on it: the depth of a tree of
devices is two in the code as well (the models take no deeper one, by
`ConstantsAssumption`). Two channels, one of each kind; three slots, of which two
exclude each other and one is wanted by both. Each channel is opened once
(`MaxOpen`) and one open of a device or attach fails (`MaxFail`): a failure and
what follows it is met by everything else. A channel that is closed and opened
again is not in the runs; the theorems have no bound.

Fairness. `FairSpec` of `Dispatch` has weak fairness for the steps of each thread that has
begun something: the operating system schedules it, and locks are released.
It assumes nothing of the environment: attaches, detaches, requests, packets
and timeouts need not happen. In particular a request may not be saved by its
timeout (`MayTimeout` is FALSE in the runs of liveness). `FairSpec` of
`HubPackets` has it for each sender, the reader, and the hub's answers, not for
timeouts: a request must end by its answer, not because its wait gives up. This
is stated as long as nothing is lost and no send fails. `FairSpec` of `Replies` has weak fairness
for the threads that are in the middle of a call, a wait only once it has been
answered or cancelled, and for the close: no timeout and no peer is assumed, so
`CloseWakes` is about the close itself. Nothing is claimed of the liveness of
`DeviceOpen`: with fairness its run does not end in reasonable time. Nothing stronger than
weak fairness is needed since a mutex is free again whenever a scan ends, and a
scan is finite.

## Proofs

`ConstantsAssumption` of `Dispatch` is all that is assumed of its constants: the sets of
threads are disjoint, the sets of dispatchers and of entries are finite, the
limits are natural numbers.

`TypesCorrect` proves `Spec => []TypeOK`. `TypeOK` itself is inductive: besides
the types it says (`ThreadOK`) that a thread that inserts has a job and an entry,
that a thread at a channel has one, and that a dispatcher that executes has the
entry it executes. Without these the steps that read `de[th[t].req]` could not be
shown to keep the types. There is one lemma for each group of actions
(insertion, loop of the dispatcher, execution, attaching, closing, environment)
and in it one step per action.

`TokenInvariant` proves `Spec => []FlagIsToken`, and `OneDispatcher` from it
`Spec => []OneDispatcherPerQueue`. OneDispatcherPerQueue is not inductive: that
two dispatchers do not take a channel from a list depends on its being there
once, which depends on who set the flag. `FlagIsToken` says it all at once: the
flag is a token held by the thread about to list the channel, or the list entry,
or the dispatcher that drains. Most actions are *calm*: no thread starts to list
or to drain, no flag of the two changes, and the lists stay (`CalmStep`). The
others pass the token on: `Mark` (who sets the flag gets it), `PutOnOutList` and
`PutOnInList`, `TakeIn` and `ScanTake`, `ScanSkip` and `Unflag`, one lemma each.
Both theorems hold for any number of channels, entries, threads and operations.

`OnePlace` and `RequestKept` prove EntryInOnePlace and RequestNotLost. Both come
from `EntryInv`. That an entry is in one place is nearly inductive alone (`Once`:
two of pool, queues, threads do not have it at a time; `QueuesOnce`: no queue has
it twice). What is missing is the moment between the insertion of a synchronous
request and the wait for it. The entry is in the queue then, a dispatcher may
execute it and a close may clear it, and it must still be there when its thread
comes to wait: it is, since it carries NORETURN, so those who meet it leave it.
`AwaitOK` says so from the insertion to the answer. Most steps are *quiet*
(`Quiet`): no thread comes to hold an entry that it did not hold before.

`CalledOnce` proves CallbackAtMostOnce, by counting. `Pending(p)` is the set of
entries that stand for a callback of channel p: those of an asynchronous request
as long as its callback is not queued, then that of the queued callback.
`CallbackInv` says that `owed[p]` is at least their number, so a callback that is
called was owed. The step that matters is `CallbackQueued`: the callback goes
from one entry to the other, or, when it could not be queued, is called at once,
and never both.

`NotStranded` proves `Spec /\ [][AttachesIdle /\ ClosesAttached]_vars =>
[]NoEventStranded`. The two conditions are about the environment: a channel is
attached when no event of its last session is left and no dispatcher handles one
(AttachesIdle), and a user does not close a channel that is being attached
(ClosesAttached). The code ensures neither, and TLC finds an event stranded
without either; run `dispatch_attach_stranded` is the first. So the property is
false of the code in general, and what the theorem says is that these two are all
that can break it. `HandInv` is the invariant, one part (`HandOK`) for each
channel. A flag has a keeper: DISPATCHOUT is set only while a thread is about to
list the channel, or it is listed, or drained. The events of a channel that may be
dispatched to, or is being attached, are *in hand* (`InHand`): the flag has its
keeper, or a thread has one of them still to come to `Mark` with, or somebody is
clearing the queue. A channel that is being attached is open, not attached and
not detaching, and no dispatcher drains it. These need
to know what each thread can be doing at all (`Shapes`: which kind of thread is
at which place, with which jobs before it), that the direction of an entry is that
of its type (`Directions`), and that what a dispatcher does fits the entry it
executes (`RunOK`).

`NotStrandedInSession` needs neither condition, only `MaxAttach <= 1` and no close, as
in run `dispatch_session`: with these a step that breaks a condition cannot be
taken. There is nothing left of an earlier session because there was none
(`FreshInv`: nothing has touched a channel before its attach).

`InOrder` proves `Spec /\ [][AttachesAnew /\ ClosesAttached /\ AttachFinds]_vars =>
[]CallbacksInOrder`: attach, events, detach, for any number of sessions. The three
conditions are again about what surrounds a channel, and the code ensures none of
them; TLC finds CallbacksInOrder violated when any one is dropped:

- AttachesAnew: a channel is attached when its queues are empty, no thread works on
  it, and its user was told of the last detach. The last part is a real restriction:
  after a close that no detach preceded the user was told of none, so the theorem says
  nothing of a channel that is closed while attached, opened and attached once more.
- ClosesAttached: a user does not close a channel that is being attached.
- AttachFinds: the pool has an entry for the attach event. startDispatch drops the
  result of dispatchChannelAttach (dispatch.c:1359), and without the event the user
  hears of others, and of a detach, before any attach.

`SessionInv` is the invariant, for the channels that no network client opened.
`SessionOK` follows one of them through a session: nobody else works on a channel
before its device has it, so the attach event is the first in its queue (`OpeningOK`)
and is dispatched first (`AheadOK`); what a dispatcher executes fits what the user was
told (`HandleOK`: an attach for a user who was told of none, anything else for one who
was); a channel that may be dispatched to had its attach, or has it before it
(`ToldOK`); and while a detach is queued or handled the central thread begins no other
(`DetachOK`). A step that changes none of this is one of `Aside`, `CentralAside` or
`SessionElsewhere`; what is left are the steps of a session itself, one lemma each.
The proof takes OneDispatcherPerQueue as known: with two dispatchers on one queue no
order would hold. `InOrderInSession` needs AttachFinds only, for `MaxAttach <= 1` and
no close.

`Accountancy` proves `Spec => []TrackersAccounted` of `HubPackets`.
`HubAssumption` is all that is assumed of the constants. The property alone is
not inductive: a sender releases the trackers of its transaction without looking
at their flags, so the invariant `IInv` adds whose they are. The sender's
trackers are of its own port, no two of its list are the same, the one it works
on is not on the list until the transaction ends, and then it is the first of
it (`ThreadOK`); an answer on its way names a tracker of the hub (`ReportsOK`).
A step of a sender keeps its trackers, takes a free one, or lets one go
(`SenderKeeps`, `SenderStep`, `SenderReleases`); a step of the reader or the hub
keeps each tracker accounted for (`OtherStep`). That the ids of two ports are
disjoint is arithmetic (`PortBounds`).

`AnswersMeet` proves `Spec => []IdNotReused`: as long as no report is lost, an
answer meets the packet it is for, also when the sender gave up waiting and its
tracker was released. On top of `IInv` the invariant `IdInv` says three things
while nothing is lost. The reader sees no gap, so it never kills a packet
(`NoGap`). An id is once in the firmware, or once in a report, or with the reader
(`Apart`). And the packet a sender is about to send is not marked as sent
(`Unsent`): so it cannot be on its way, and neither can a tracker that is
released by force when its claim times out. A step of a sender that moves no
packet frees only trackers whose packets are not on their way
(`SenderFlagsChange`); sending, answering and reading move one id from place to
place (`SendIds`, `AnswerIdsMove`, `ReadIds`). Sends that fail and timeouts are
all allowed; only a lost report is not, and then an id is in fact used again.

`HubTypes` proves `Spec => []TypeOK` and `SpaceAccounted` `Spec =>
[]SpaceCovers`: as long as nothing is lost, what a port counts is what its
buffer holds, or a little more once a send has failed, and never the whole
buffer. Both are about sums of lengths, which the module writes with a fold. A
fold is recursive; what it computes cannot be proved by induction here, since the
theorems of induction take an operator as a parameter. So a sum is first shown
to be the size of a set, that of all bytes (`Bytes(f, S)`), by a least
counterexample: among the subsets of S for which the fold is something else there
is a smallest one, and it cannot be smallest. From there on sums are cardinalities
of disjoint unions. The invariant `SpaceInv` says, while nothing is lost, that
the bytes on their way, those the reader is about to give back and those a sender
has claimed but not sent (`Due`) are within the count, and are the count if no
send failed. Two parts make it inductive. While the count is unknown, nothing of
that port is on its way, and every status report says that its buffer is empty
(`Quiet`): otherwise the report would fill in a number that is old. And the hub has
room for each packet, so it never answers NOSPC (`NoRefusal`). It needs that the
length in a tracker is that of its packet wherever the packet is (`LengthInv`),
which needs the ids of `AnswersMeet`.

`ResultsHonest` proves ResultHonest, on top of `SpaceInv` and `IdInv`. While nothing
is lost and no error was found, what the device took of a request and what the
sender still holds are all that it sent: `taken[p]`, and the trackers that are held
and whose packet was sent but not yet accepted, add up to the packets sent so far.
A sender that ends without an error has released all of its trackers, so all were
taken. To keep the sum, a packet in the port's buffer must be counted for the
request that sent it: it carries the number of the present request exactly when its
tracker is still held, and an abandoned one never counts. The reader's step moves
one from held to taken; a release takes only a tracker that is done with OK, or
else the request has an error from then on.

`RepliesKeepPromise` proves that `Replies` implements `ReplyPromise`:
`Spec => Promise!Spec`, under the mapping `Stage`. The step that matters is
`HandleReply`: that the entry it fills belongs to a request that is asking or
waiting, with no reply and not failed, follows from the flags: WAITING goes,
under the entry's lock, before the request leaves waitForReply. The mapping is
kept by an inductive invariant that ties `pc`, `flags`, `live` and the walk of
the close, and says that numbers on the list differ and are below `reqseq`.
`ListSound` and `StrayFromCloseOnly` come from the same invariant: entries are
taken off the list before they are freed, and before the walk only the thread
that waits frees its entry. `SeqAssumption` and `NobodyAssumption` are what is
assumed.

`DevicesCorrect` proves `TypeOK` of `DeviceOpen`, whose last conjunct, a device is
open exactly while it has references, needs that `refs` does not fall below zero;
`CloserSafe` is that: a thread that comes back from closing the hub
(`CloseDeviceBack`) drops a reference that is still there. It rests on
`ClosingToken`: between the two holds of the run lock CLOSING keeps every other
closer out, and an opener only adds. The invariant takes all three together with
the shape of a thread's record (`to`, `at` and the device's parent). The
assumptions are `ConstantsAssumption`, among them that a parent has no parent; for
the theorems of `DeviceSlotProofs` also `ThreadsAssumption`, that the central
thread, the threads of connections and those of channels are different ones, and
`ExclusiveAssumption`, that no slot excludes itself (attachLocalChannel passes over
it).

`HeldStaysOpen` proves HeldIsOpen, and `OpenForSomebody` OpenIsHeld. A close drops
a reference without looking whose it is, so neither is inductive. `CountInv`
counts: each reference of a device is matched by a *claim* (`Claims(d)`): an open
that a channel holds (`holds`), one that a closer took from a channel and has still to
give back, one for each reference of a VINT device on that hub, or the open of
the hub by a thread that has not come to the device yet. There are as many
references as claims, never more but in the middle of a close by force, and never
fewer while the device is there, before `stolen` or `orphaned`. A step
moves one claim, adds or removes one together with the reference, or, by force,
removes all. That there are not more is OpenIsHeld, that there are not fewer is
HeldIsOpen.

`ClosedGaveBack`, `ExclusiveSafe` and `AttachedStaysInSlot` prove CloseGivesBack,
ExclusiveRespected and AttachedIsInSlot. They say what is true of a channel at
rest, so the invariant has to follow it through its attach and its close
(`ChannelInv`): one thread works for a channel that never was crossed
(`OneThread`), and what the channel holds and which slot it is in follows from
where that thread is, while it attaches (`WhileAttaching`), while it closes
(`WhileClosing`) and when there is none (`WhileIdle`). A step of another thread
leaves the channel as it is (`AsideStep`), or puts it among the crossed ones.
`ClosedGaveBack` is WhileIdle. For `ExclusiveSafe`, `ExclusiveInv` says that
threads that attach are at slots that do not exclude each other (`Apart`), or
`raced` is set; so what the check of a thread has found stays true until its
channel is attached (`Checked`), although the lock of the check is long released.
Most steps attach nothing and begin no attach (`NothingNew`). For
`AttachedStaysInSlot`, `PlacedInv` says that the slot of an attach is free from the
match to setChannel and then has this channel in it, and that no thread is about
to empty it (`Reserved`): but for the races that the property names,
setChannel's DUPLICATE, which nobody looks at, does not occur. Emptying is what needs an argument: channelDetach waits while a channel is
ATTACHING, and a free slot is not detached. TLC checked the three invariants on
the constants of `device_open`, and on two devices that exclude each other, before
they were proved.

Only model-checked:

- all liveness, under fairness and with ENABLED, which the provers here do not do;
- CallbacksInOrder and NoEventStranded of `Dispatch` without the conditions above:
  they hold in their runs and are false in general.

## Not modelled, and what could come next

In reach, in this order:

1. Datagrams of a connection (network.c:735): one that is out of order or comes
   twice ends the connection.
2. `HubPackets`: closing a device (waitForPendingPackets, the kill from another
   thread) and hub detach; an abstract specification of a port and the
   refinement. The mesh dongle uses the same trackers.
3. PhidgetDispatchStop and the queues of devices and managers; waitForAttach;
   registerChannel's conflicts between port modes; several clients of a channel.

Left out: the drivers of devices and the channel classes (one translation
between packets and values each, no shared state), the encoding of packets and
the tables of devices (generated), transports and zeroconf (I/O), server
discovery and authentication, statistics, logs and configuration. They are most
of the lines of the library, and none has state that two threads change.
`PROJECT.json` lists every component with what is missing of it.
