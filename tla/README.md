# XSKY, specified

TLA+ models of XSKY, their TLC runs and TLAPS proofs. XSKY is a transparent
proxy: a kernel module on a router hands packets of the local network to a
program, or marks TCP connections with the endpoint they were meant for and
sends them to a server; a module on the server undoes that; a controller turns
packets into tasks; a desktop client edits the settings.

## 1. The system

| part | source | state | operations |
|---|---|---|---|
| packet queue | `route/queue.h` | ring of slots, `begin`, `end`, `have`, spin lock | init, push, pop, reset, release |
| capture device | `route/main.c` | `flock_flag`, wait queue, open files | netfilter hook, open, poll, read, release, module init and exit |
| capture filter | `route/main.c`, `route/dev_ctl.h` | subnet and prefix, tunnel address, "is set" flags, per family | two ioctls, the hook's tests |
| server route table | `server/server.c` | buckets of pages of pairs | insert, find, remove, from the hook for packets to port 48888 |
| tunnel option, device file | `server/server.c` | `servers` word, hooks registered by open | the router's hook, TOA option set and get, xor, open, ioctl, release |
| route module | `server/main.c`, `common/common.h` | configuration, capture settings, limit map | one hook: DNS answer, configuration, capture, copies sent on |
| task pool | `controller/controller.cpp` 16-76 | concurrent queue, mutex, condition variable, `exit` | push, execute (each worker), destructor |
| controller | `controller/controller.cpp` 107-212 | the parts it owns | init, release, accept, config, create |
| device, tasks | `controller/device.cpp`, `task.cpp`, `tasks/` | a callback | stubs |
| address list | `controller/apnic.cpp`, `mmap.cpp` | two bitmaps, a download thread | init, release, is_cn, sync |
| client controller | `client/Controller.cpp` | settings, `config.ini`, UDP sockets | start, stop, set, read, write, lookup |
| client windows | `client/*Dialog.cpp`, `MainWindow.cpp` | widgets: copies of settings | open, edit, accept, leave |
| hex view | `client/QHexView/` (third party) | bytes, cursor, undo stack, comments by offset and by line, scroll bar | keys, mouse, clipboard, undo, search, comments, line width |

How they meet. In the kernel the packet hook runs in softirq context on any CPU
and preempts the file operations of the program on its own CPU; it and the file
operations share the queue, `flock_flag` and the settings the ioctls write, and
only the queue takes a lock, for part of what it does. A packet goes hook,
queue, wake-up of `poll`, `read`. On the server both directions of a connection
go through one table. In the controller the device's callback makes a task of a
packet and pushes it; workers take tasks. The client talks to the router by UDP
messages; its capture dialog gives each packet that is clicked to the hex view,
where the items of the dialog's tree select the ranges of the headers.

What is hard here: tests made before the lock they should be under (queue,
pool), values read by the hook while an ioctl writes them (filter), a flag and a
wake-up whose order matters (device), a pointer into a table that is being
cleared, and which several CPUs change with no lock (routes), conditions
notified without the mutex (pool), a thread whose bitmaps are closed before it is
joined (address list), a cursor that an undo does not bring back and unsigned
line numbers below zero (hex view). The hazards are listed line by line in
`PROJECT.json`.

What makes each part correct:

* queue: every packet that push accepted is popped once, in order, whole; the
  count stays within the ring.
* device: a reader that sleeps is woken when a packet waits; a device nobody
  has open is not busy; what one program left behind is not given to the next;
  a packet being copied to the program is not overwritten.
* filter: the hook captures what the settings ask for, and what it captures
  while they change has no byte that is in neither the old nor the new nor a
  cleared network.
* routes: a packet is sent on only where a SYN of its connection said; an open
  connection is found; closing one leaves the others.
* pool: a pushed task is executed; the destructor returns.
* life of the module: nothing is used before it is made or after it is freed.
* route module: each configuration takes effect, and its maps are freed once.
* controller: every network of the list is marked, and the process ends when it
  is told to and not before.
* client: what was accepted survives a restart, the window shows what is in
  force, and a dialog that nobody touched gives back what it was given, and
  nothing else.
* hex view: undo restores the bytes, a cut removes what is highlighted, a comment
  stays with its bytes whatever the line width, the cursor is in sight.

## 2. The modules

| module | models | on top of |
|---|---|---|
| `BoundedFifo` | what a packet queue promises | |
| `XskyQueue` | `route/queue.h` | `BoundedFifo` by refinement |
| `RouteDevice` | hook, open, poll, read, release of `route/main.c` | extends `XskyQueue` |
| `RouteLife` | init and exit of `route/main.c` | |
| `UdpFilter` | the ioctls and the tests of the hook | |
| `SkyRoutes` | route table and receiving hook of `server/server.c`, one packet after the other | |
| `SkyRoutesSMP` | the same on several CPUs without a lock | extends `SkyRoutes` |
| `RouteModule` | hook, settings and maps of `server/main.c` | |
| `TaskPool` | `task_pool` of the controller | |
| `AddressList` | `controller/apnic.cpp`, its use of `mmap.cpp` | |
| `Controller` | `controller/main.cpp`, init, release and accept of `controller.cpp` | extends `AddressList` and `TaskPool` |
| `ClientController` | settings of the client and `config.ini` | |
| `ClientDialogs` | the client's dialogs, with the specification of both | extends `ClientController` |
| `HexDocument` | buffer, cursor, commands and undo stack of `client/QHexView/document` | |
| `HexMetadata` | comments by offset and by line | |
| `HexView` | keys, mouse, scroll bar and search of the widget, with the specification of all three | extends both |
| `RouteDeviceProofs` | theorems about `XskyQueue`, its refinement of `BoundedFifo` among them, then about `RouteDevice` | extends `RouteDevice` |
| `SkyRoutesProofs` | theorems about the route table, alone and shared | extends `SkyRoutesSMP` |
| `RouteLifeProofs`, `UdpFilterProofs`, `RouteModuleProofs` | theorems about the module so named | extend it |
| `ControllerProofs` | theorems about the task pool, then about the address list and the main thread | extends `Controller` |
| `ClientProofs` | theorems about settings, window, capture and the dialogs that are accepted | extends `ClientDialogs` |
| `HexViewProofs` | theorems about comments, undo, cutting, the keys and the scrolled view | extends `HexView` |

`MC<module>` holds the small instances and the cfgs are `MC<module>_<run>.cfg`.
Operators marked "faulty form" are used by no specification; they are the plausible mistakes that
each property is tried against (`mutants` in `PROJECT.json`).

### XskyQueue

`slot` is the array of `xsky_queue_data` (bytes, length), linked by `NextSlot`
into a ring that `xsky_queue_init` closes. Each thread is a program counter and
its locals: `tmp` (the slot it took) and `reg` (`have` as it was read, `have +=
1` being a load and a store). Push is `PushCall`, the two refusals of lines
70-74 (`PushRefused`) or `PushAdmitted`, `PushLock`, `PushFill` (take the slot
behind `end`, store its size, move `begin` if the queue was empty), `PushCopy` (the
bytes, `end = tmp`, and the load of `have`) and `PushStore` (store, unlock). Pop is `PopEmpty`
or `PopAdmitted`, `PopLock`, `PopTake`, `PopStore`. `Reset` is the assignment of
line 121; alone it is `QuietReset`, and `RouteDevice` lets it race with hooks. A
packet is a member of `Packets`; a slot holds `size` and `data`, written in two
steps, so that a slot of two packets would be visible. The ring has `QSIZE`
slots and `have` counts modulo `SIZE_MOD`, so that it wraps.

### RouteDevice

Adds to the queue: `flock_flag`, what each file has open and does (`fd`), the
wait queue (`inq`), what a read has copied so far (`got`). The hook is `HookIn`
(the test of `flock_flag`, line 289), `HookAccept`, `HookPush`, then the push of
the queue, then `HookQueued` or `HookRefused`. `OpenCheck` and `OpenSet` are the
two halves of lines 362-365. `PollWait` joins the wait queue, `PollReady` and
`PollSleep` are the look at the queue after it. `CopyLen`, `CopyData` are
`copy_to_user`; `ReadFault` its failure. Each thread belongs to a CPU;
`CanRun` lets a file operation go on only while no hook runs on its CPU. Two
history variables say what can put ring and counter out of step: `late`, the
last reset met a hook or an open file, and `shared`, two files have been open at
once.

### RouteLife

`life` is the call that `xsky_init` or `xsky_exit` makes next, `poll` what the
global pointer points to (nothing, raw memory, a wait queue, a queue too,
released, freed). The file operations and the hook are the pointers they
follow; each use of a pointer that is not good is recorded in `fault` as too
early or too late. `early` and `overtaken` are history. `class_create` may fail,
which leaves a stale device behind; `rmmod` waits for open files, as the kernel does.

### UdpFilter

An address is a sequence of bytes, a byte a function from its bit positions to 0
and 1; the instance has two bytes of two bits, so that whole bytes, the partial
byte and no byte all occur. `calc_subnet` works in place, so an ioctl is a step per
byte: each is cleared (`SubnetClear`), those that the prefix reaches are stored
(`SubnetFill`), and the prefix follows (`SubnetPrefix`); or the tunnel's bytes
are copied (`TunnelCopy`) and its flag is set (`TunnelSet`). `clear` and
`store` are the bytes an ioctl still has to do, in any order. The hook is a step
per test, and a comparison of addresses a step per byte, so that one hook may
compare bytes of different subnets. History variables hold which subnets the hook
may have met.

### SkyRoutes, SkyRoutesSMP

A bucket is a sequence of pages, newest first. `InsertInto`, `Matches` with
`Place`, and `Sweep` are the three functions, with what the code does when
`used` is wrong, when the entry that the pointer looks through is zeroed
(`wanted` becomes `ZeroData`), and when bytes of the stack are hashed (`tail`).
`ToaData` is the walk over the TCP options of a SYN, and `Claimed` what may come
out of it, the stack's contents included. `Syn`, `Fin`, `Data`, `Unknown` are the
branches of the hook. `asked`, `astray` and `open` are history: who asked for
whom, what went elsewhere, which connections are open. A connection is counted
under the bucket its SYN was hashed to, since the stack behind an IPv4 address
is hashed too and decides where a route lies; `Destinations` are the endpoints
that a SYN can name.

In `SkyRoutesSMP` a handler that runs alone is still an action of `SkyRoutes`;
handlers that overlap are taken apart into the walk along a chain, the two halves
of a pair, the load and the store of `used`, and the linking of a page. A slot is
a place, so a pointer of one CPU looks through what another writes there.
`crowd` counts the handlers that overlapped, `torn` is set when one CPU wrote
into a slot that another had a pointer to, or copied one half written.

### RouteModule

The hook of `server/main.c` on several CPUs. `load_config` is a step per access
to what it shares (the two counts of the head, each entry, freeing, installing);
the rest of the hook is one step that decides verdict and reply. `order` is the
byte order of the machine, since the code compares protocol bytes with `htons`
of a constant. A map is a number; `alive` and `filled` say which exist and which
hold a limit. `data` is what the datagram really holds of what the loops have yet
to read: the counts of the head and the lengths of the names are never compared
with the datagram's own, so a message may hold less than it announces. `Layout` is what
it announces, and it is `Whole` if it holds that; `strayed` is history, and is set
when a loop reads anything but the record it is at.

### TaskPool

A step per lock, wait, wake-up, dequeue and test of `exit`. `missed` and
`overtaken` are history.

### AddressList, Controller

The list is a sequence of pieces of lines; a read returns any number of them and
so ends anywhere. `Line` is what `getline` returns, whole or not; `TakeLine` is
the search, the marking, and the ends of the process: iterators out of order, a
bitmap that is not mapped. An empty line ends the loop (`NoLineMore`) and leaves
what is behind it in `buf` until the next read. A read waits as long as the server
likes, in the middle of the list too. `Controller` has the main thread's calls in
order, the loop on `getchar`, the thread of io with the one accept that is pending,
and the workers of `TaskPool`: `PoolDown` is its destructor, which sets `exit`,
notifies and joins, and the main thread stays there until the join returns.
An exception that nobody catches sets `crashed`, after which nothing happens.
`stopped` (the lines of the last read ended with an empty one), `cut`, `failed`,
`unresolved` and `taken` are history.

### ClientController, ClientDialogs

Qt runs one handler after the other, so each is one step; what makes it hard is
that datagrams arrive while a dialog is open, and that the process may end at
any point (`Restart`). `settings` is `Controller::Private`, `config` the file,
`window` the labels of the main window. `SetField` is what the setters that
write have in common: nothing if the value is the same, else assign, write,
emit. `ReadDatagram` and `ReadBlank` are the branches of `ReadConfig`. A
domain or device string is the sequence of its fields between bars. `Join` is the
chain of three `QString::arg` that makes it: each `Arg` fills the lowest place marker
that is there (`Lowest`), those included that an earlier value brought with it, so a
name with a marker in it is substituted into. `Split` takes the string apart. Accepting
the devices leaves out rows without an address (`JoinNamed`, put together with
`FlattenSeq`). `TextsAssumption` says that a text has at least one field, as
`split` makes of any string, and that addresses and indices have no marker in
them. `Boxes` is what the protocol dialog gives for the set of those that are
ticked. The server list is a sequence of endpoints with at most one ticked.
`unsaved`, `asOpened`, `escaped` are history: `asOpened` holds the settings as
they were when the dialog opened, for as long as nobody has touched it, and whatever
datagrams arrive. It is not kept for a list with an entry that `Join` did not
write field by field, nor for one in which a protocol is twice.

### HexDocument, HexMetadata, HexView

The hex view runs on one thread, and a handler calls a dozen small functions one
after the other. So a document is a record, each operation of `QHexBuffer`,
`QHexCursor`, the commands and `QHexDocument` is an operator from documents to
documents, and a handler composes them in the order of the code: `CutSelection`
removes the selection, adjusts the scroll bar and lets the view follow the
cursor, because that is what the signals do. `Mid`, `RemoveAt`, `InsertAt` are
what `QByteArray` makes of places outside it; a line number is unsigned and wraps
at `WORD`. `before` (what the bytes were below each command of the stack) and
`spoiled` (a command was undone that does not undo) are history. `Pieces` is how
the metadata cuts a range into lines; `hidden` is history, the pieces cleared
with their line. `HexView` has one action per key, mouse event, menu entry and
call of the capture dialog. `readonly` is chosen at the start: the client's view
is read-only (`client/CaptureDialog.cpp:17`), the code is written for both.

## 3. What the runs show

| run | instance | shows |
|---|---|---|
| `queue_spsc` | 1 CPU, 1 reader, 3 slots, 4 packets | the ring implements `BoundedFifo`; count and ring agree |
| `device_copy` | 1 CPU, 2 programs, 3 slots | the device is never busy without an owner; a close that met no hook leaves nothing; count and ring disagree only after a reset that met a hook or an open file, or once both programs had the device open, and in the second case still agree modulo the ring; a slot being copied is intact until it is reused |
| `device_live` | 2 CPUs capturing, 1 program on the first of them, 2 slots, fair threads | slots stay whole though the counter may overrun; no wake-up is lost; hooks return, but for one that spins on the CPU of the lock's holder, and sleepers are woken |
| `life` | 2 CPUs, 2 programs, any number of loads | nothing is followed too early unless a file was opened during init, nor too late unless exit overtook a hook or a load had failed; exit finds the device quiet |
| `filter_exact` | 2 ioctls, 1 hook | exact when no ioctl overlaps; otherwise each byte of what is captured agrees, as far as the shortest prefix met reaches, with that byte of a subnet met or cleared |
| `filter_unset` | | finding: before any ioctl every machine's packets match |
| `routes_smp` | pages of 4 pairs, 3 SYNs, 2 CPUs of which up to 3 handlers overlap | while no handlers overlap: counters drift but only down, an open connection is found as long as SYNs fill at most half a page, nobody loses another's routes; and even when they do, a packet goes only where a SYN said, unless a slot was written under a pointer or copied half written |
| `route` | 2 CPUs, both byte orders, 4 maps | maps are neither lost nor freed twice unless two configurations or an exit overlap; a configuration reads its own records but for overlap, a second domain, or a datagram that is shorter than its counts and lengths say; no limit and no capture ever takes effect |
| `pool` | 3 workers, 2 tasks at a time, fair | tasks are stranded only by one interleaving, which is stated, until the next push takes them along; the destructor ends but for one interleaving |
| `controller_quit` | 4 lines, 3 of them networks, reads of 1 to 6 pieces, a pool of 1 worker, fair | a network that was received is lost only by a cut line, or behind an empty line when the download is over or waits; the process is ended early for five reasons only; told to quit, it ends unless the server of the list stays silent, in mid-list or after, or the pool joins a worker that began to wait after `notify_all` |
| `hexview` | a packet of 5 bytes in lines of 2 or 3, 2 lines visible, 5 handlers a document | undo and redo restore the bytes but for commands that pad or reach over the end; a cut takes what is highlighted; comments follow their bytes; the keys that move the cursor take it off the lines by two wraps only (a cut, an undo or a new width may take lines away under it); a cursor that moves is visible |
| `client` | domains, or devices, or servers with protocols, captures and the service; lists of up to 2 | the window is current; memory and `config.ini` differ for three reasons only; capture and its button agree but for Esc; a dialog that nobody touched gives its own setting, when accepted, what that had at the opening and changes no other, unless a text has a bar or a place marker in it or a protocol is listed twice |

Several properties describe exactly when the code's promise holds, because it
does not always: `AlignedUnlessLate` (a reset that met a push, or two readers), `HookReturns`
(but for a hook spinning on the CPU of the lock's holder),
`StrandedOnlyIfMissed`, `JoinEnds`, `LostExplained`, `CrashExplained`, `QuitEnds`,
`ReadsItsOwn`, `UntouchedAccept`,
`RouteFoundUnlessOverlapped` (as long as at most half a page of SYNs was ever
seen), `UsedUnlessOverlapped` (a SYN without an option on a stack of zeros is
counted in a slot that looks free), `CrossTalkOnlyIfTorn`, `UndoRestores` (not
after `spoiled`), `LostOnlyByWrap`. Each names the ways out, and the run shows
there is no other.

Bounds. The rings have three slots and a counter modulo six for one CPU, two
slots and a counter modulo four for two: begin and end in every relation (empty,
full, in between, wrapped), and packets to go round more than once. Two pushers
are enough for the overrun of the counter, two readers for its wrap below
zero. In the filter, two bytes of two bits give every kind of prefix, all
prefixes occur, and two networks are an old and a new one. In the routes two buckets with
pages of four pairs hold three SYNs, each stored twice: a page fills, the next is
linked, counters drift, and a page is at most half full for the property that
asks so. Handlers overlap once in a run, at most three of them, with at most
two SYNs before and among them (`MaxCrowd`, `MaxShared`), on slots that were all
stored with the same stack contents; that is enough for two to choose the same
slot, for a removal under an insertion and for a slot that is freed and used
again between a search and the copy. Linking a page is one step. In the hex view
a packet has two full lines and a half one, of which two are visible; five
handlers are a selection, an edit, an undo, an edit elsewhere and a redo, and
line numbers modulo 64 are far enough above any line. Three
workers are enough for one to wait, one to be about to and one to run. In the
route module four maps are one from init and three configurations, of which two
overlap and one comes after; messages are complete ones with up to one mac and two domains, and
short ones that end before the macs, or inside or before a domain. In the list, two networks of one family and one of
the other with another line between them can be cut in every place, and reads
of six pieces take an end of line with a whole line and its end behind it. One
worker is enough there for the join that does not return; no task is ever
pushed. In the
client a list of one entry doubles to two, and among the names are one with a bar and
one that is a marker. Which dialogs the user opens is chosen
at the start (`Offered`): one is open at a time, and what the domain dialog, the
device dialog and the others write are different fields. Starting and stopping
the service and datagrams that name a server go with the servers (`"service"`).

Deadlock is checked wherever the system runs for ever. It is off in
`device_live` (all hooks and reads may be over, or a hook spins on its own CPU),
in `life` (programs that died in the device hold the module for ever),
in `pool` (a pool that was destroyed stops) and in `controller_quit` (a process
that ended).

Fairness. `RouteDevice`: the steps of a hook are strongly fair per CPU, since
the kernel's spin locks are queued: a hook that tries again and again gets
its turn. The steps of a file operation, while no hook runs on the CPU of its
thread, are strongly fair per reader: softirqs that do not end are handed to
ksoftirqd, which the scheduler runs beside the threads. Nobody is made to open, read,
close or time out, and no packet has to come.
`TaskPool`: worker steps are strongly fair, as the mutex is held for a few
instructions and goes round; nobody is made to push, to destroy the pool or to
wake spuriously; `NextPushRescues` says what happens if somebody does push.
`Controller`: the main thread, the thread of io and the download's own steps are
weakly fair, and each worker strongly, as in `TaskPool`. A read is not among these
steps: nobody types, no client connects, and the server need neither send nor hang
up.

## 4. What is proved

`RouteDeviceProofs`, first part: the queue alone, for any number of slots, CPUs,
readers and packets, any counter width:

* `TypeCorrect`: `Spec => []TypeOK`.
* `SlotsStayWhole`: `Spec => []SlotsWhole`, any number of CPUs and readers.
* `HaveStaysBounded`, `RingKeepsShape`: with one CPU and one reader.
* `QueueIsFifo`: `Spec => ImplementsFifo`, with one CPU and one reader.

The inductive invariant `IInv` is the types with four facts: a thread is at the
steps of its own role (`Roles`), the one between lock and unlock is the holder of
the lock (`Exclusive`), what a thread in the critical section has read of the ring
is a slot (`Begun`), and a slot with the size of one packet and the bytes of another
is being filled (`Filling`). `SlotsWhole` is not inductive without them: a slot is
only safe from a second writer because of the lock, and what the first half of a
copy left is only completed because the thread remembers the packet. It is proved
over the steps of push, of pop, of a reset whatever the others do (`Cleared`) and
of threads that are elsewhere (`Outside`), so that it serves the device, which has
other callers and a reset that races. For the counter (`Counted`, `Aligned`) the
argument adds that a test made before the lock stays true until the lock is taken
when nobody else pushes (or pops): the other side can only make more room (or more
packets). That fails with a second pusher, and `CongruentWithoutLate` says what is
left then. The assumptions are those of the module: at least one slot, and a
counter that can hold the number of slots.

For the refinement, the FIFO's step is the store of the counter: a push makes its
packet the last one then, a pop its packet the one handed out. Three facts are
added (`Stored`): a push that fills a slot has a packet, at the store `end` is the
slot with that packet, and a pop at its store has moved `begin` one slot on. The
rest is arithmetic of the ring, done once (`NthFacts`) on `Nth(b, k)`, the slot k
places behind b. Filling a slot and copying into it are stutters because that slot
is the one behind the last that waits.

`RouteDeviceProofs`, second part, for any number of CPUs, programs, packets and slots. Every
theorem is about `DeviceSpec`, resets that race with hooks included; `Base` is
`IInv` with where hooks and files can stand (`Placed`).

* `NeverStuckBusy`: the busy device has a file whose program is not on its way out
  of `chr_release` (`Owned`). Without "on its way out" it is not inductive: between
  the two halves of a close another program may set the flag again.
* `WakeupsAreKept`: `NoLostWakeup` with one program, any number of CPUs. A sleeper
  is not popping, so only a push can give it packets, and a push that has counted
  its packet still has its wake-up to do. With two files the statement is false: a
  read of one may store the count after the close of the other reset it, and tells
  nobody.
* `SlotsWholeInDevice`, `DeviceTypeCorrect`: any number of everything. What `pop`
  handed over is a slot until the read is over (`Holding`), and what a read has
  produced is a packet's (`Produced`).
* `CongruentWithoutLate`: `have` agrees with the ring modulo its size, for any
  number of CPUs and programs, if the size of the ring divides the modulus of the
  counter (`Divides`), as 256 divides 2^64: a count below zero or above the size
  stays in step only because of that.
* `AlignedWithoutLate`, `CopyStaysStable`: with one CPU (`OneCpu`), any number of
  programs. While history says that files were not shared, no two are open
  (`Solo`), and then the queue's argument for one reader applies (`InStep`). A slot
  that is being copied is in use or still holds what was handed over (`Intact`);
  that a push cannot be at it rests on `end` being the slot it fills (`Ending`).
* `ClosedIsDrained`: once every file is closed the queue is empty and no hook is on
  its way to fill it, unless the last reset was late (`Drained`).

`RouteLifeProofs`, for any number of CPUs and of threads that use the device, any
number of loads: `NeverTooEarly`, `NeverTooLate`, `ExitFindsQuiet`. What `poll`
points to, which hooks are registered and whether a device exists follow from the
next call of init or exit (`Staged`). The rest says who can hold what: the flag is
set only while somebody has the device open (`FlagOwned`), nobody has it open once
exit has begun (`Unused`), a hook that runs is registered or was overtaken
(`Registered`), and before init is done only a file opened early is in use
(`EarlyUse`). Each of the three theorems needs the others' invariants: that exit is
quiet rests on the flag being somebody's, and that nothing is used too late rests
on exit being quiet.

`UdpFilterProofs`, for any number of CPUs, of bytes and of bits in one, any
addresses, networks and prefixes: `FilterTypeCorrect`, `FilterIsExact`,
`TornIsNeverWider`. Both properties compare bits with bytes masked one after the
other, so the lemmas come first: a bit position is a byte and a place in it in one
way only (`Place`, `PlaceUnique`), and a masked byte has exactly the bits in front
of the prefix (`MaskedBit`, `MaskAgrees`). Then the invariant: a subnet is what was
last asked for, masked, and while its ioctl is at it so is each byte that has
been done (`Settled`). `Near` is about single bytes, since no address as a whole need
be one that was asked for: each byte that a CPU may read (`NearBy`), and each that it
has found equal (`NearTest`), agrees as far as the shortest prefix reaches with
that byte of a subnet it may have met, or with zero (`Known`). And a CPU that met
no ioctl reads settled variables (`Steady`). `AddressAssumption` says that addresses have the family's number of
bytes.

`SkyRoutesProofs`, for any number of CPUs, clients, endpoints, packets and slots in
a page, and any hash:

* `CountsHoldAlone`, `OthersKeptAlone`, `RoutesNeverCross`, about handlers that run
  one after the other. A table keeps to a set of pages that is closed under what
  the code does to a page: a pair stored in a slot that looks free (`Takes`), a pair
  zeroed (`Drops`). Two such sets do the work, the pages of which every pair that
  does not look free was asked for (`KeptPages`), and those that count no more than
  they hold (`CountedPages`); what `insert_route_sky` and `remove_route_sky` do to
  bucket and table is shown once, for any such set (`InsertKeeps`, `SweepKeeps`,
  `RemoveRouteKeeps`), with what a chain may lose on the way (`Loses`). The walk of
  `remove_route_sky` is a recursion along the chain, whose accumulator says that
  what is looked for is what it was or zeros, since the pointer may lead into a pair
  that has been cleared (`Accs`). That such a recursion has a value and stays where
  its steps stay is proved from least elements (`HasLeast`, `Recursion`), for want
  of induction. The invariant is `Alone`: while nothing has overlapped, everybody is
  idle and the table is made of pages of both kinds.
* `CrossTalkNeedsTearing`, about handlers that overlap. The invariant is `Untorn`,
  which holds as long as `torn` is false. A slot is kept, or one CPU stands between
  the two halves of it (`Storing`); each handler points at slots that exist, since
  pages are added and never freed (`Points`, `Grown`); what it wrote or found there
  is still there (`Holds`); and it goes where a SYN said (`Leads`). The property
  alone is not inductive: a copy is right because of what the slot held when it was
  found, and a slot that is half written is harmless because whoever copies it has
  torn something. One lemma per step shows that it writes no slot that another
  handler points at, unless it sets `torn`; then what holds of the others still does
  (`OthersFine`). The counters appear nowhere in it:
  they may be as wrong as they like.

* `OpenRoutesFoundAlone`, that an open connection is found
  (`RouteFoundUnlessOverlapped`). The property is about how much of a page is used up,
  which nothing bounds but the number of SYNs. The invariant is `Findable`. While
  twice the SYNs do not exceed the slots of a page, no bucket has a second
  page and only the first `2 * syns` slots of any page can be occupied (`Short`), so a walk
  along the chain is a walk over one page. Each occupied slot of a client is
  in the bucket it is looked for in (`Homed`), and there are as many for an endpoint
  as `open` says (`Tallied`). What is left is that a FIN is not turned away by a page whose
  `used` is zero, since the counter drifts: a removal may count the
  swapped pair as gone, and leaves it. `Enough` bounds the drift: a page counts at
  least the clients' entries in it and those whose swapped pair was stored in it,
  so each removal takes off at most what it stood for. That the first
  pass of the sweep clears one entry and the second none of a client's is
  `RemoveShort`; the cardinalities are those of `FiniteSetTheorems`.

The assumptions: a page has some number of slots, there are finitely many buckets,
the hash of every address is one of them (`RoutesAssumption`); jobs are packets of the clients, and `used` counts
modulo some positive number (`SharedAssumption`).

`ControllerProofs`, first part: the task pool, for any number of workers and
tasks: `PoolTypeCorrect` and `OnlyMissedStrands`. What makes it inductive is
stronger than "somebody is not waiting": while tasks are queued and no
notification is due, somebody is neither waiting nor about to (`SomebodyLooks`).
Whoever is not will look at the queue, and finds it empty only if that step makes
the claim void.

`ControllerProofs`, second part: `NothingElseLost` (`Spec => []LostExplained`) and
`CrashesExplained` (`Spec => []CrashExplained`), for any list, any size of what a
read returns and any interleaving of the main thread, the thread of io, the
workers and the download. Neither is inductive: both speak of a line that was taken, not of those
to come. The invariant therefore looks at the buffer and what the server has yet to
send as one sequence (`Rest`), which a read does not change. That sequence is
made of whole lines but for what a cut has left of the first, and each network
begins somewhere in it, or has been cut or marked (`Kept`). Between reads the
buffer is empty but for what an empty line left (`LeftBehind`), so a network
that has been received and begins there is explained. `getline` takes from
the front of it: a whole line, if the buffer has its end, or a cut one
(`LineIs`). That the list itself, a flattened sequence, is such a sequence
is `ListIsWhole`, an induction over the lines, done with least elements
(`HasLeast`, `Upward`: a set of numbers that has 0 and with each its successor has
all of them). For the ends of the process, the state of the bitmaps and of the
download follows from the call the main thread makes next (`Staged`).
`ListAssumption`: the list is a sequence, its networks are of family 4 or 6.

`RouteModuleProofs`, for any number of CPUs, packets and maps, either byte order,
messages with any number of macs and domains: `MapsStayBalanced`,
`NobodyElsesRecords`, `NothingEverTakesEffect`. For the maps: whoever is alone in
`load_config` has, with the one in force, all the maps there are (`Accounted`),
and its own is another than the one in force and empty (`StillEmpty`, which holds
even when CPUs overlap, since each map has an owner). For the records: the data
still to read is the message from the record on that the loop is at (`Behind`), until the
loop over the domains reads its first, as long as the message is whole
(`OnTrack`); what a whole one holds at each place is `WholeIs`, and that the
loops find it there `ReadsRight`. The counts in force are those of the
message (`Following`), which is where a second CPU comes in. The assumption
`PacketAssumption` says that what comes to the configuration port is a message: counts
and pieces, however few.

`ClientProofs`, for any texts, lists, datagrams and bounds:

* `WindowStaysCurrent`, `RestartLosesNoMore`, `CaptureStaysShown`. The properties
  are inductive together with the shape of the settings and the fact that a dialog
  other than that of the capture has left the button at "start".
* `AcceptedAsOpened` (`Spec => UntouchedAccept`). What must be known when a dialog
  is accepted was done when it opened, so the invariant (`DialogInv`) carries it over
  what can happen between: an open dialog that nobody has touched shows what the
  settings held when it opened (`ShownAsSet`, about `asOpened`, which no datagram
  changes). That putting together undoes taking apart (`ListComesBack`) is a fact
  about strings that `Join` wrote. What three chained `Arg` make is worked out first
  (`ArgGrows`, `ArgThree`, `JoinIs`): an entry has three fields or more, and if it has
  three and no marker is left in it (`Plain`), nothing was substituted, and
  its second is an index of the combo box (`Entries`). A device's first field is moreover no
  marker and, in a plain entry, not empty, or its row would be left out (`Addressed`,
  `Unmarked`). Every list in settings and file is made of such entries, and every
  row on show gives one (`SettingsListed`, `RowsListed`), through edits, datagrams
  that double the lists, and restarts. For the devices, the recursion in
  `FlattenSeq` is shown to have a value (`FlatExists`), to put together lists of one
  as they were (`FlatSingles`) and to make nothing shorter when no part is empty
  (`FlatGrows`). For the servers, the box that `TickOf` ticks exists because a
  nonempty set of rows has a last one (`HasMost`). For the protocols, a list in which
  none is twice is what the boxes give for its members (`ProtocolLists`, `BoxesAre`):
  so it is when the dialog wrote it, and a datagram that reads the file into a list
  that is not empty makes one with a protocol twice, because both hold the same
  protocols (`ReadTwice`).

`HexViewProofs`, for any documents, clipboards, keys, line widths and comments, any
number of handlers:

* `CommentsStay`: `Spec => []CommentsFollowItems`. A piece of a comment is there
  exactly if no line of it was cleared (`Derived`); whether a byte lies in one of
  the pieces is then a question of lines and columns, settled by `Lexicographic`:
  offsets are ordered as their quotients by the width are and, if these are equal,
  their remainders. `RangesAssumption` says that offsets are natural numbers.
* `UndoStaysTrue`: `Spec => []UndoRestores`. The invariant is that the history is
  that of the stack (`Faithful`): unless something was undone that does not undo,
  each command, the undone ones included, turns the bytes before it into those
  behind it and holds what it changed. `UndoRestores` alone says nothing of the
  commands, so it is not inductive. What it rests on is `UndoRedo`: a command that
  was not stretched (`Stretched`) undoes what it did. All three commands are
  splices of the bytes, and a splice with what was cut out takes a splice back
  (`SpliceBack`). The rest is one lemma per operation of the view: whatever moves
  cursor and scroll bar leaves bytes and stack alone (`Untouched`), whatever edits
  does so by pushing a command (`PushSound`). `BytesAssumption` and
  `TreeAssumption` say that bytes are bytes and offsets integers.
* `KeysStayOnLines`: `Spec => LostOnlyByWrap`, whatever the word size: a line number
  that does not go below zero is not raised by the wrap (`Wraps`).
* `CutTakesWhatShows`: `Spec => [](Addressable(doc) => CutTakesHighlighted)`. The
  renderer highlights line by line, with columns of its own for the first and the
  last; the cut works out an offset and a length. The two agree because lines and
  columns are ordered as offsets are (`OffsetIs`, `SelectionOrdered`), so that the
  highlighted bytes are an interval of offsets (`HighlightIs`), and a cut is a
  splice, which leaves out an interval (`SpliceLeavesOut`). What it means to leave
  out a set of bytes is stated in the model (`LeavesOut`): each other byte
  moves up by as many places as bytes before it are gone.
* `CursorComesIntoView`: `Spec /\ []DocumentFits => CursorShown`. Every handler
  that moves the cursor ends by following it, whatever it did before (`Lands`, one
  lemma per operation), and following a cursor that is on a line of the
  document scrolls that line into the view (`FollowedShows`).

  The last two have a hypothesis, that the document has fewer bytes than half the
  word counts (`Addressable`). It is no guarantee of the code, which puts no bound
  on what is pasted; with 64 bits it is beyond any memory. Without it both
  fail: a line times the width becomes a negative offset (`Signed`), and the view
  scrolls to another line.

Only model-checked: all liveness (`QuitEnds`, `HookReturns`, `SleeperWoken`,
`TakenOrStranded`, `NextPushRescues`, `JoinEnds`), which is out of the prover's
reach together with ENABLED. Every invariant and every action property of the
passing runs is a theorem, two of them under the hypothesis `Addressable`.

## 5. Not modelled

Packet bytes, checksums, header rewriting; `printk`; allocation failure. Programs
that wait with select(2), for which `chr_poll` always says readable. Of
`server/server.c`, the sender of the tunnel option: `set_toa_data_sky` copies the
bytes of its pointer instead of the option (`server/server.c:204`), and takes for
the TCP header the place where that was before it moved (`:212`), so that no SYN
ever carries an option the code produced; what a SYN may carry is therefore an
input of `SkyRoutes`. The device file there only
registers that hook. Of `server/main.c`, which does not
build as it is, the bytes of answers and copies, and what nothing reaches (the
proxying between client and server). Of the controller, `create`, which nothing
calls yet, and the empty `config`; `is_cn` has no caller either. Of the client,
what is sent to the route (its address is never set: the slot named in
`lookupHost` does not exist under that signature), and what is only displayed. Of
the hex view, painting and fonts, the formats of the clipboard, saving, the
buffers over files, base addresses, and a widget whose size changes.
The stubs (device, tasks) have no behaviour.

## 6. What could follow

A sender for the tunnel option, should the source get one that works; bounds on
what is pasted into the hex view, should the code get one, in place of the
hypothesis `Addressable`.
