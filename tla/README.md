# A verification development for algae-bp

algae-bp builds a Linux image for embedded boards. Its own program logic is in `package/`: the
`aloe` support library (event loops, semaphores, buffers, helpers), the `tester1` program built on
it (console, message pipe, Wi-Fi, Bluetooth, video) and `cc1352-flash`, which programs a radio chip
through its serial bootloader. The modules here model the parts in which threads, callbacks,
timers, other processes and failures meet. `PROJECT.json` lists the components, the runs, the
mutations that show each property can fail, the source lines behind each definition, the hazards
and the theorems.

## 1. Inventory

| Component | Source (under `package/`) | State it keeps | Operations | What is hard | What makes it correct |
|---|---|---|---|---|---|
| evb2 event loop | `aloe/sys_linux/evb2.c` | handles, four intrusive lists, epoll interest, wake pipe, stop flags | create, add fd/timer, cancel, cancel_fd, set_timeout, run_once, destroy; add_oneshot_timer from any thread | callbacks re-enter the API, other threads queue timers, destroy is deferred, deadlines saturate | each handle owned exactly once, no freed handle reachable, no lost wake-up, no oversleeping |
| semaphore | `aloe/sys_linux/sys_linux.cpp` | count, mutex, condition variable | post, wait, timed wait | lost and spurious wake-ups, a timeout racing a post | no thread sleeps on a positive count |
| ipc1 message pipe | `tester1/ipc.cpp` | socket pair, mutex, receive buffer, parse state | write (any thread), read and parse (loop), destroy | frames cut anywhere, failing writes, teardown under a writer | messages arrive whole and in order, the parser stays in its buffer |
| wifi2 manager | `tester1/wifi.cpp` | state machine, timerfd, interface flags, children, control connections | run_sm, netlink and timer callbacks, a dozen commands | events in any order, stale events of one epoll batch, children and wpa_supplicant dying | no state without a next input, no connection to an earlier child, the network is reached |
| cc1352-flash | `cc1352-flash/cc1352-flash.c` | step of the protocol, deadline | sync, erase, download, send, CRC, reset | unnumbered ACKs on a faulty line, deadlines, short last chunk | success and reset imply a correct flash; the program ends |
| bluez1 peripheral | `tester1/bluez1.cpp` | worker thread, D-Bus objects, adapter settings | start, stop, destroy, send, notify, pair | hand-over between threads, nested main-loop iteration, half-done setup | each call returns and tells the truth, nothing is left behind |
| ev event loop (older) | `aloe/sys_linux/ev.c` | notification records, per-descriptor groups, spare pool, epoll masks | init, put, cancel, once, destroy | a record is recycled before its callback runs | a handle is its owner's only registration; epoll watches what is asked for |
| dummy1 | `dummy1/*.cpp` | services on the older loop | start-up, cycle timer, accept, read | every registration serves one event | a service that is up stays registered, once |
| cli1 console | `tester1/cli.cpp` | line buffer, command table | input, dispatch, add, end of input | lines cut anywhere by `read` | every complete line is run once |
| mgmt1 server, tester_ev3 | `tester1/mgmt.cpp`, `tester_ev3.cpp` | listener, clients; pointers to nine services and the loop | accept, read, close; start, loop, end | releases inside a callback behind main's pointers, partial start-up, order of the destroys | nothing freed is reached, nothing is left but what main never frees |
| btrfcomm sessions | `tester1/btrfcomm.cpp` | one socket, its handle, the scan mode | listen, accept, connect, send, close | connect timeout racing success, reused descriptors, each call failing | the state tells the truth about the socket; whole texts |
| blegatt server | `tester1/blegatt.cpp` | link, attribute table, advertising | accept, ATT requests, notify, advertise | HCI answers lost, MTU edges | the state tells the truth about sockets and controller; discovery is complete |
| app_network thread | `tester1/app_network.c` | Wi-Fi states, official and trial configuration | provision, commit, give up | calls, timeouts and a kill at any point, no lock | a trial ends; the supplicant follows the files |
| settings store | `tester1/settings.cpp` | key-value tree, file | save, load | crash between two writes, cut lengths | load returns what save wrote or an error |
| v4l2 capture | `tester1/v4l2.cpp` | device, buffers, registration | open, start, stop, callback | each ioctl failing half-way | state, stream, buffers and registration agree |
| RTSP source | `tester1/tester_v4l2rtsp2.cpp`, `v4l2_capture.cpp` | buffers, NAL queue, read handler | next frame, readable, stop | handler taken off at every frame, stale buffers drained | a waiting client is served, frames in order |
| image conversion | `aloe/rggb10_*.cpp`, `aloe/rg10_*.cpp`, `aloe/simd/` | - | five forms of one conversion, three of another | borders, vector tails, rounding | the forms agree |
| aloe utilities, display, SPI, USB, firmware, build system | see `PROJECT.json` | - | - | - | not modelled, section 7 |

**How they interact.** `tester_ev3` creates one evb2 loop; ipc1, cli1, mgmt1, wifi2, btrfcomm and
blegatt register descriptors and timers with it and run in its callbacks. Other threads reach the
loop through `aloe_evb2_add_oneshot_timer` (the wake pipe) or through `ipc1_write` (the socket
pair). bluez1 has a thread and a GLib main context of its own; its public functions hand work to it
and wait. wifi2 also talks to the kernel (rtnetlink), to wpa_supplicant (control sockets) and to
children it forks. cc1352-flash is a program of its own. dummy1 runs older forms of the services on
the ev loop. app_network runs a thread that shares two files and three flags with its callers and
starts wpa_supplicant, hostapd and udhcpc. The capture service is a client of evb2; the RTSP source
is one of Live555's scheduler.

## 2. Modules and their correspondence to the code

| Module | Models | State and actions |
|---|---|---|
| `Qent` | TAILQ operations of `evb2.c` | lists as sequences: `qent_remove`, `timer_insert` at `InsertPos` (after equal deadlines) |
| `Evb2` | `evb2.c` | a variable per list, `hs` for the handle records, `interest` for epoll, `pipe` for the wake pipe; `pc` is where the loop thread is. One action per API function, per turn of each internal loop (`InstallOne`, `ScanHit`, `Expire`, `Dispatch`, `FinalizeOne`, `CancelFdStep`) and per return of a callback. API actions are enabled in application code and inside every kind of callback. Other threads take two steps per call: allocation and critical section |
| `EvbLifecycle` | the contract in `evb2.h` | a handle is absent, armed, firing or being cancelled; the loop is absent, running or stopping |
| `AloeSem` | `aloe_sem_*` | count, sleeping threads, woken threads; posts that signal or broadcast |
| `Ipc1` | `ipc.cpp` | the byte stream, the threads waiting for the mutex, its owner, the rest of the frame being written, `buf`, `pos` and `parse_state`; bytes are parsed one per step as `ipc1_input` does; bytes of older frames stay in `buf` |
| `Wifi2` | `wifi.cpp` | `run_sm` as one operator per entered state and a table of inputs (`After`); `todo` is what is left of one epoll batch; the kernel, wpa_supplicant, children and access point are external actions. A wpa_supplicant may also be another program's (`foreign`), and a connection to it (`other`) is `lost` when that one ends |
| `Cc1352Flash` | `cc1352-flash.c` | the host step by step, a line that loses, damages and invents, the ROM bootloader (external) |
| `Bluez1` | `bluez1.cpp` | the caller's and the worker's position, setup and cleanup call by call, the GLib loop's `running` flag, the idle source, the state bluetoothd keeps (external) |
| `EvOps`, `Ev` | `ev.c` | the context as a record and the API as operators on it; `Ev` puts any well-behaved clients on it, calling from outside and from callbacks |
| `Dummy1` | `dummy1/` | main's start-up, four services and a connection on `EvOps`; a callback is one action, memory and epoll failures are inputs; the pipe has two descriptors (`pair`); `failed` remembers who was refused a registration |
| `Cli` | `cli.cpp` | the console's buffer character by character over a small alphabet, because the property is about cutting |
| `Ev3` | `tester_ev3.cpp`, the `init`, `destroy` and releasing callbacks of every service it starts | what each service has allocated, open and registered, and main's pointers; one step per `init`, callback and `destroy` |
| `Btrfcomm` | `btrfcomm.cpp` | session, kernel sockets, handle, the event collected for it; each action takes the call that fails as its input |
| `Blegatt` | `blegatt.cpp` | sockets, handle, advertising wanted, believed and real, centrals that connect and may leave before they are accepted; ATT replies as sets of handles and a length; a client's discovery as history |
| `AppNetwork` | `app_network.c` | a step is one access to a file or flag that thread and caller share; `Killed` ends the process anywhere |
| `Settings` | `settings.cpp` | the file as a header and units, one `write` per step; what a load asks for, an empty tag and version 0 included, and what a failing one leaves in the caller's tree |
| `V4l2`, `Rtsp` | `v4l2.cpp`; `tester_v4l2rtsp2.cpp` | the owner of each driver buffer, the registration, the position in the callback; every `ioctl` may fail |
| `Bayer`, `Rg10` | conversions | a frame is a function, each form a function of the frame; 8- and 16-bit lanes wrap as in the code. `Frames` are the frames there are; steps only choose the next one |
| `QentProofs`, `Evb2Proofs` | theorems about `Qent`, `Evb2` | section 5 |
| `Threads`, `Clients` | parts side by side | the specifications of parts that share nothing, each under a name of its own (`F`, `B`; `E`, `D`, `L`, `C`, `R`, `G`, `V`, `S`, `K`, `Y`, `Q`), and what each of them promises. The runs and the theorems speak of these definitions |
| `Ipc1Proofs` | theorems about `Ipc1` | section 5 |
| `ThreadsProofs` | theorems about `AloeSem`, `Bluez1` and `Cc1352Flash` | section 5 |
| `EvProofs` | theorems about `EvOps`, `Ev` and `Dummy1` | section 5 |
| `BluetoothProofs` | theorems about `Btrfcomm` and `Blegatt` | section 5 |
| `VideoProofs` | theorems about `V4l2`, `Rtsp`, `Bayer` and `Rg10` | section 5 |
| `ProgramProofs` | theorems about `Wifi2`, `Ev3`, `Cli`, `Settings` | section 5 |
| `MC*` | small instances | constants, symmetry. `MCThreads` and `MCClients` extend `Threads` and `Clients`: `part` chooses one part and the others rest |

Definitions whose names end in a suffix such as `_late` or `_unlocked` and whose comment says
"Mutant" are plausible bugs; `PROJECT.json` says which definition each would replace and which
property notices.

Points at which the code is subtler than it looks:

* `evb2_install_async` drops `async_lock` around a CANCELLED callback; `InstallOne` ends there and
  the callback is a state of its own.
* `aloe_evb2_destroy` inside `run_once` only sets `stopping`; `RunLeave` finalizes.
* In `run_sm`, `break` after `SM_GOTO` leaves only the macro's `do ... while`, so the `timer_set`
  that follows runs too; the state entered sets its own timer later, which is the one that counts.
* After its first frame `ipc1_input` stays in state payload and reads a length from bytes of the
  previous frame until the new header is complete.
* `keyval_save` writes the header last, over records already replaced; only the checksum saves a
  reader of the mixture.
* The console frees itself at the end of its input behind `cli_global`; main never follows the
  pointer only because no other input can end the loop.
* `ipc1_destroy` waits for the thread that has the mutex, not for those that wait for it; when it
  frees the pipe they go on in freed memory (`LateWrite`).
* `wpasup_start` closes the control connections only when it has a child; a connection to another
  program's wpa_supplicant outlives the `killall` of `ST_RESET` and is never replaced.
* A central that connects and leaves before `accept4` has ended the advertising, and
  `ble_accept_cb` returns without starting it again.
* `keyval_load` inserts each record into the caller's tree as it reads it; only the tag and the
  version have been looked at by then.
* `wifi_handle_ipsetup` decides by the existence of try.conf, not by what the supplicant runs with.
* `g_main_loop_run` forgets an earlier `g_main_loop_quit`; `LoopRun` sets `running` unconditionally.

## 3. Runs

| Run | Expectation | What it shows |
|---|---|---|
| `evb2_fd` | pass | Two handles on one descriptor or as timers, the whole API from application code and every callback: `LinkExclusive`, `NoDangling`, `NoLeak`, `NoOversleep`, `InterestExact` |
| `evb2_live` | pass | Two more threads hand over timers: `NoLostWake`, the loop implements `EvbLifecycle`, `QueuedTimerFires`, `DestroyCompletes` |
| `evb2_cancelfd` | violation | `aloe_evb2_cancel_fd` inside a callback misses the handle being called back, which is then armed again; `evb2.h:172` says it cancels every handle of the descriptor |
| `evb2_destroy` | violation | after destroy inside a callback, the other ready handles still get ordinary events and never CANCELLED; `evb2.h:97` promises CANCELLED |
| `sem_signal` | violation | two signalling posts before the first waiter runs wake one of two waiters; the other sleeps on a positive count |
| `ipc_pipe` | pass | two threads that wait for the mutex and for room in the socket, any cutting of the stream, failing writes, teardown: `InOrder`, `NoFrameLeft`, `NoFrameCut` (the pipe goes away between two frames only), `Delivered`, `DestroyCompletes` (destroy returns unless the owner of the mutex is blocked on the full socket) |
| `wifi_safe` | pass | any three commands with failing forks, a failing interface, a dying wpa_supplicant and one of another program that comes and goes: `MachineAlive` (a state that waits has what it waits for: a timer, a network, an open monitor), `ControlFresh` (no connection to an earlier child beside a new one; without a child every connection is to another program's) |
| `wifi_live` | pass | `wificfg` after any other command reaches `ST_MON` unless the control connection is another program's (`Connects`); a link lost there is noticed (`LossNoticed`) |
| `wifi_open` | violation | `wificfg` without a psk never connects: the empty array is sent as a psk instead of `key_mgmt NONE`; the help text calls the psk optional |
| `net_commit` | violation | a try written while the thread is in IPSETUP for the official network is committed although nothing has connected with it; `app_network.c:29-33` says it is moved "if successful connected" |

`threads` (pass) holds the parts with threads or processes of their own:

| Part | Properties |
|---|---|
| semaphore, five threads | `NoMissedCount` |
| cc1352-flash, all modes, faulty line | `Programmed` (exit code 0 means the image is there, and it fails only for a cause), `ResetOnlyVerified` (also: `--verify-only` writes nothing), `Terminates` |
| bluez1, any six calls, failing D-Bus calls, calls executed whose answer is lost, a breaking bus | `StartTruth`, `NothingLeft`, `Returns` |
| app_network, two networks, failing commands, a kill anywhere | `TryEnds`: a try does not stay for ever outside CONNECTED; `Agreed`: the supplicant comes to run with the official credentials |

`clients` (pass) holds the clients of the loops and the data paths:

| Part | Properties |
|---|---|
| ev | `HandleExact`: handles, groups, ready list and spare pool partition the records; epoll masks are exact |
| dummy1 | `OnePerService`: a service that is up has one registration and is watched on its descriptor, but for a listener or timer that the loop has refused |
| console | `LinesOnce` |
| tester_ev3 | `ExitClean`: no handle outlives what it is for, every destroy of main gets live memory but the pipe's after a failed read, and nothing but the Wi-Fi manager is left |
| btrfcomm | `SessionExact`, `WholeTexts` |
| blegatt | `ServerExact`: state, sockets, handle and, while HCI commands are answered, advertising agree; the one server that listens unadvertised is the one whose central left before `accept4`; `RepliesComplete` |
| v4l2 | `CaptureExact`: also after a start or stop that failed half-way, which leaves the first buffers with the driver and lets no later start succeed |
| RTSP source | `NoStall`, `FrameOrder` |
| settings | `LoadTrue`: never a mixture of two saves, never a tag or version the caller did not ask for |
| conversions | `VersionsAgree`: over all samples of 10 bits, the places where the forms differ (a colour that rounds to 256, the red of NEON's lower left pixels) described exactly |

More behaviours of the code lie just outside the constants or premises of the passing runs, and the
models exhibit them when these are widened:

* A finite timeout above `UINT64_MAX - now` saturates the deadline. A timer handle is then on no
  list: it never fires, cannot be cancelled and is never freed (`NoLeak` fails with
  `Timeouts = {1, 99}`, `UINT64_MAX = 100`); a one-shot timer in that state gets a CANCELLED
  callback in which `aloe_evb2_set_timeout` links a handle that is freed on return (`NoDangling`
  fails). `TimeoutsFit` is the premise that rules this out.
* `wifi state ST_WPASUP_CONNECT` before any `wificfg` follows a null `network_apply`
  (`MachineAlive` fails with `CliStates = State`); `wifi_safe` allows every other state.
* A line longer than the console's buffer is dropped up to the last chunk, whose rest is then run
  as a command; `LinesOnce` counts from the last drop.
* `app_wifi_provision` removes an earlier try before it writes; if writing fails the earlier try is
  gone without a reset (`discarded`), and `Agreed` leaves that case out.
* Keys of 256 bytes and values of 65536 wrap in the record's header; `LoadTrue` leaves them out.

Others are inside the passing runs, and a property says exactly how far they go:

* `ipc1_destroy` waits on the loop thread for the mutex of a writer that may be blocked on a full
  socket which only the loop thread reads. `DestroyCompletes` says that it hangs in no other way.
* A thread that waits for `ipc_mutex` while the pipe is freed uses freed memory (`LateWrite`, after
  which the model says nothing of it). `NoFrameCut` says that no frame that has begun is affected.
* `ipc1_cb` frees the pipe after a failed read behind `ipc_global`, which main then destroys again;
  `ipc1_destroy` closes one descriptor twice; `wifi2_global` is never freed (`ExitClean`).
* A control connection opened to another program's wpa_supplicant keeps the machine from connecting
  once that one is gone (`ControlFresh`, `Connects`).
* A GATT server whose central left before `accept4` listens and is not advertised until a command
  stops or starts it (`missed`, `ServerExact`).
* A start of the capture that fails at QBUF or STREAMON, or a failing STREAMOFF, leaves buffers with
  the driver, and no start succeeds until the service is destroyed (`half`, `CaptureExact`); a QBUF
  refused in the callback loses its buffer until the next STREAMOFF (`lost`).
* `(v + 2) >> 2` makes 256 of the samples 1022 and 1023, which is stored as 0: the brightest pixels
  become black in v2 and in the forms under `simd/`, although the comment of their `raw10_to_u8`
  says that 0...1023 is rounded to 0...255. The reference form divides by 1023 and writes 255
  (`NearReference`).
* The NEON kernel takes the red of a block's lower left pixel from the row above the block instead
  of the block's own first row, in the first block from a green one (`NeonAgrees`).
* A failing load leaves the records it has read in the caller's tree (`LoadFails`).

## 4. Bounds and fairness

**Evb2.** Two handles are enough for every pair of list positions that matter (the same list,
ready and monitored, called back and linked); the theorems cover any number. Two timeouts and a
clock of two ticks give equal, earlier and later deadlines. `PipeCap = 1` makes the wake pipe full
with the second wake-up. Fewer descriptors than `EVB2_EPOLL_MAX` are monitored, so one `epoll_wait`
reports all. The cap of its timeout at `INT_MAX` only wakes the loop early and is left out.
Fairness: the loop's internal steps, the critical sections and the clock are weakly fair, as
running threads are. `run_once` is called again and again by the main loop and callbacks return,
whatever they do first: strong fairness, because API calls of several steps disable them in between.
Strong fairness for the end of `epoll_wait`, since signals may interrupt some waits but not all.
Nothing is assumed of calls the application may or may not make.

**AloeSem.** The count is bounded by the semaphore's own `max`. Woken threads get the mutex (weak).

**Ipc1.** Header fields are one byte wide, which changes `hdr_len` only. The buffer (6) holds the
longest message exactly; a torn frame makes later ones overrun it. Sequence numbers wrap within the
bound. The socket holds five bytes, less than the longest frame, so that writers block in the middle
of one, with the loop reading or already gone. A write takes any part of what it is given. The loop
and a thread inside a call keep running (weak).

**Wifi2.** Durations are left out: an armed timer may expire at any time, but the shortest is 10 ms,
so an expiry meets at most one queued message unless the loop is blocked in the timer's `read`.
`CliMax` bounds the commands, `MaxQ` the queued netlink messages of spontaneous link changes; the
link is not lost repeatedly faster than the loop hears of it. `wifi_safe` starts also from flags
that changed during `wifi2_init` (`InitRace`); `wifi_live` does not, because `ST_RESET` then misses
the only edge that leaves it. `Foreign` lets a wpa_supplicant of another program be there at the
start and come and go. The loop and wpa_supplicant's start are weakly fair, timers and the
access point strongly: an access point that is asked again and again lets the station in.
The machine rests in `ST_PAUSE`, so deadlock is not checked.

**Cc1352Flash.** Five bytes in chunks of two leave a short last chunk, as 720896 bytes in chunks of
252 do. CRC32 is taken to tell contents apart and damage not to turn a packet into another command;
the 8-bit checksum may miss damage to the data. Faults are bounded by three, idle zeros are not
bounded. The program runs and the clock ticks (weak). The program ends, so deadlock is not checked.

**Bluez1.** Six public calls allow start, work, stop, a second start that fails, another stop and
destroy. A D-Bus call of setup that fails has had its effect or not; Pairable set that way stays
(`spoiled`). Both threads run and calls return within their
30 s (weak). After destroy nothing happens, so deadlock is not checked.

**AppNetwork.** Two credentials tell a try from the official network; there is one caller, as in the
application. A deadline may pass at any time in the states that have one. The thread runs and
deadlines pass (weak); nothing is assumed of the network. `TryEnds` and `Agreed` have as premises
that the caller comes to rest and that commands fail only finitely often.

**Ev, Dummy1.** Two clients on two descriptors and the timer group make every shared and unshared
group; every subset of read, write and hang-up is reported. Dummy1 has one management connection,
which is opened, closed and opened again. Clients forget their handle when they are called, as
every callback of dummy1 does. The message pipe's second descriptor makes six.

**Cli, Ev3.** Seven characters of an alphabet of four (two letters, blank, newline) in reads of one
or two against buffers of five and three: lines completed by a later read, two lines in a read, a
full buffer. One management connection; two handles are ready in one `run_once`, so that a callback
can release what the other one is for. All services of the build are started.

**Btrfcomm, Blegatt.** Two descriptors, so that a closed one is reused at once; two texts of two
bytes. MTUs below, at and between the default and the maximum, and above; values of 0 to 65 bytes
around the 64 that are kept. From the loop they use what `Evb2` shows: a cancelled handle is not
called. An HCI command fails before or after it is executed.

**V4l2, Rtsp.** Three buffers let the drain hold two and still find a newer frame. Five frames.

**Settings.** Two tags and two versions, with the requests that leave out either or both, and three
trees, one with an empty value, one at the greatest lengths, one
beyond them. Nothing in the repository calls `keyval_save` or `keyval_load` yet: a load gets an
empty tree. The checksum is taken to be free of collisions. A crash ends the calls; what was
written stays and a `write` is whole.

**Bayer, Rg10.** Sizes with every kind of border and tail: one block, a block wide, odd numbers of
blocks, one and more vector widths with rests. The samples of a frame mix both ends of the range, 0
and 1021 to 1023, with every residue; there is a frame per size and seed (`MCClients`). Here the run
is an enumeration, not an exploration; the theorem covers the other frames.

## 5. Proofs

All theorems hold for every value of the constants that the named assumptions and premises allow.
The premises are stated with the theorem and hold of the instances in section 3. For a part of
`Threads` or `Clients` a theorem says that the part's own specification (`F!Spec`, `V!Spec`, ...)
implies the definition there that the run checks.

**How they are laid out.** For each specification an inductive invariant collects what its
properties need of each other, a lemma per action or group of like actions shows that it is kept,
and the theorems draw the properties from it. Induction over data (what a concatenation, an
enumeration or a file of records holds, whatever its length) is done with `Induction` of
`QentProofs`, which states induction over the naturals as a fact about a set of numbers; it rests on
`LeastNat`, the least element of a set of naturals.

| Theorem | Property | Premise | Inductive invariant |
|---|---|---|---|
| `Evb2Proofs`: `Typing`, `ListsDisjoint`, `Safe`, `NothingLost` | `TypeOK`, `LinkExclusive`, `NoDangling`, `NoLeak` | `TimeoutsFit` | `IInv` |
| `SleepsInTime`, `InterestKept`, `WakesUp` | `NoOversleep`, `InterestExact`, `NoLostWake` | `TimeoutsFit` | `WInv` |
| `Implements` | `ImplementsLifecycle` | `TimeoutsFit` | `WInv` with `HeldFresh` |
| `ThreadsProofs`: `SemSafe` | `NoMissedCount` | `Covered` | itself with the types |
| `StartSafe`, `StopSafe` | `StartTruth`, `NothingLeft` | - | `BInv` |
| `FlashSafe`, `FlashReset` | `Programmed`, `ResetOnlyVerified` | `Geometry` | `FInv` |
| `Ipc1Proofs`: `BufferSafe`, `DestroySafe` | `NoFrameLeft`, `NoFrameCut` | - | themselves with the types |
| `Ordered` | `InOrder` | - | `DInv` |
| `ProgramProofs`: `ManagerSafe`, `NoStaleControl` | `MachineAlive`, `ControlFresh` | `Usage` | `WInv` |
| `ExitSafe` | `ExitClean` | `Names` | `RInv` |
| `ConsoleSafe` | `LinesOnce` | `Console` | `LInv` |
| `LoadSafe` | `LoadTrue` | `Records` | itself with `HeaderOfSaved` |
| `BluetoothProofs`: `SessionSafe`, `SendsWhole` | `SessionExact`, `WholeTexts` | `Descriptors`, `Texts` | `RInv` |
| `ServerSafe` | `ServerExact` | - | `GInv` |
| `RepliesSafe` | `RepliesComplete` | `Sizes` | `AInv` |
| `EvProofs`: `HandlesSafe` | `HandleExact` | `EvNames` | `EvInv` |
| `ServicesSafe` | `OnePerService` | `DummyNames` | `DInv` |
| `VideoProofs`: `CaptureSafe` | `CaptureExact` | `Indexes` | `VInv` |
| `StreamSafe`, `StreamOrdered` | `NoStall`, `FrameOrder` | `Camera` | `RInv` |
| `ConversionsAgree` | `VersionsAgree` | `Pictures`, `Scalings` | `Picture`, `Scaled` |

**evb2.** `NoDangling` is not inductive alone: that freeing a handle after its callback is safe
needs to know where the loop thread is. `IInv` adds `Owned` (an allocated handle is on a list, in a
thread's hands or being called back), `Control` (which of `notifying`, `cancelling`, `stopping`,
`in_run` and `finalized` go with which `pc`), `CallersDistinct` (no two threads hold the same
handle) and `Deadlines` (no timer handle has a saturated deadline; this is where `TimeoutsFit`
enters). The lemmas about lists are in `QentProofs`: what `qent_remove`, `timer_insert`, append and
pop do to the elements, to distinctness and to the order of a list. `WInv` adds `TimerSorted` (the
timeout of `epoll_wait` is computed from the head of `timer_list` only), `Queued` (a queued timer
has a byte in the pipe or the loop is on its way to it), `WakeArmed` (the pipe's own handle is
monitored, ready or called back), `Monitored` (epoll's interest is exact until the lists are taken
apart) and `Running` (where the loop thread is meanwhile). The refinement maps a handle to absent,
armed, firing or being cancelled; each action of `Evb2` is shown to be a step of `EvbLifecycle` or
to leave the mapped state alone.

**Semaphore.** `sem_signal` shows that the premise `Covered` (posts broadcast, or there is one
waiter) is needed.

**ipc1.** Whatever bytes arrive, `ipc1_input` stays inside its buffer and keeps no complete frame;
the induction needs both, since the next byte is stored at `pos`. `InOrder` says nothing of bytes:
`DInv` reads what is parsed, in the socket and in a writer's hands as one stream, and says that it
is the concatenation of the frames sent and not delivered, given by the offsets at which they start.

**wifi2.** `Usage`: the user enters no state that needs a network, and does not stop the timer by
hand, as in `wifi_safe`. `Childless` (without a child there is at most another program's
wpa_supplicant) and `Queues` (a netlink callback
that is due finds its message, and there is one at most) make `MachineAlive` and `ControlFresh`
inductive.

**tester_ev3 and its console.** `Held`, `Reached`, `TornDown` and `Sound` say that a handle or a
descriptor belongs to something allocated, that what is allocated is reached from one of main's
pointers, what is gone at each step of the end, and which pointers may be stale. For the console the
lines run and the rest in the buffer make up what was typed. That `cli_input`'s search, which starts
behind the part it has searched before, cuts every buffer exactly (`CutProp`) is shown by induction
over the newlines found.

**settings.** The header is that of the last save that returned (`HeaderOfSaved`); nothing is said
of the records, which may be a mixture, and a load is forgotten when a save begins. A load that
succeeds has compared them with the header, and what it reads back from the units of a tree is the
tree (`RoundTrip`, by induction over the records: `PayloadLaid` says where each of them lies).

**cc1352-flash.** A reply holding the image's CRC means that the flash holds the image and that
nothing that writes is on the line (`Ordered`), whatever faults have put host and target out of
step. `InStep` relates them as long as there was no fault, which is why a failure has a cause.

**btrfcomm, blegatt.** What is checked is inductive for btrfcomm. `ServerExact` needs that `adv_on`
is set in the state adv only, and what the controller does about peers while HCI commands are
answered, or have missed. `RepliesComplete` is about what a client finds over several requests.
`AnswerProp`, by induction over the attribute table, says that a reply holds every match up to its
last pair, fits the MTU, and is empty only where nothing matches. The part `Discovery` of `AInv`
then says that a client has found everything it seeks below the handle from which it goes on.

**ev.c.** The groups, the ready list and the spare pool are lists that are walked while they are
changed. `KeptProp` and `MovedProp`, by induction over the list, say what such a walk leaves and
takes out. `CtxOK` says that the lists partition the records and that epoll watches what each group
asks for; each operation of `EvOps` is shown to keep it, for any descriptors and callback arguments.
The loop with arbitrary clients adds that a handle names a registered record of its owner and that
every registered record is the one its owner's handle names (`Owned`). `EvNames` only says that the
constants for "no handle" and "no descriptor" are none of the others.

**dummy1.** The same lemmas about `EvOps` serve here. `Served` says that every registered record
belongs to a live service and waits on the descriptor this service holds, one record per service at
most; `Known` that a handle names a registered record of its service; `Ups` which live services hold
a handle; `Boots` which services cannot be alive at a step of main's start-up. A callback begins
with its own record recycled (`EnterProp`) and has to put it back.

**bluez1.** `Sync` relates the caller's and the worker's position with the ready flag and the work
item, `Holds` says which registrations exist at which call of setup and cleanup, `Remembers` what
has to be undone. With them `StartTruth` and `NothingLeft` hold for any sequence of calls.

**Video.** Inside a callback `CaptureExact` holds for all buffers but the one in hand, and what a
failed start has queued is the first buffers, so that the next one is refused at once (`VInv`). For
the RTSP source every buffer is queued, filled, in hand or lost (`Partition`), and the frames in
them are newer than what was delivered, in order (`Chronological`).

**Conversions.** The steps choose frames, so the invariant is what a frame is (`Picture`: even sides
and samples of 10 bits; `Scaled`: sides that are multiples of eight, which the code checks, and any
16-bit words); the rest is arithmetic on any one frame. v2's block reads, at its place in the
pattern and at every border, the samples the pixel-wise demosaic reads (`SameSamples`), and the sums
stay within the width of their lanes (`LumaFits`, `ChromaFits`). The two roundings to eight bits are
a step apart at most (`Roundings`), and so are averages of such colours (`NearAverages`) and the luma
and chroma computed from them (`StepApart`). In v6 the byte that is cut from a
lane does not depend on the lane's other word (`Lanes`).
That every byte is written once is a fact about numbering a grid in rows (`WholeGrid`) or every
second column of every second row (`QuarterGrid`).

**Only model-checked.** Liveness (`QueuedTimerFires`, `DestroyCompletes`, `Delivered`, `Connects`,
`LossNoticed`, `Terminates`, `Returns`, `TryEnds`, `Agreed`): out of the prover's reach.
Every other property of the passing runs has a theorem.

## 6. Plan

The order was: the evb2 loop and its contract, the parts with threads, the clients of the loops, the
data paths; then a theorem for each safety property of the runs. What could follow: the AVX2 and SSE
forms of the full-size conversion as further definitions of `Bayer`, with `SameSamples` as their
lemma too, and the older `tester_rtsp2.cpp` as a second client of `V4l2`.

## 7. Not modelled

Parts of the modelled components: failures of `pthread_*_init`; `ipc1_cb`'s end-of-file branch,
which the socket pair cannot produce; the text of wpa_supplicant's events; the contents of GATT
objects and attribute values; SDP records; the command lines and serial port settings; the AVX2 and
SSE forms of the full-size conversion, and `convert_neon` of `rggb10_rgb888_i420_simd_v2.cpp`, which
computes its vectors and stores none of them.

Other components. `aloe/util.cpp` and `aloe/sys.cpp` are helpers without state between calls. The
earlier programs `tester_v4l2rtsp.cpp`, `tester_rtsp2.cpp`, `tester_v4l2r2.cpp` and
`tester_cli2.cpp` repeat in simpler form what `V4l2`, `Rtsp` and `Ev3` model. The display and SPI
testers send fixed register sequences and loop over a device file. The USB monitor prints what the
kernel reports. The network helpers wrap one system call each. `settings.cpp` has only saving and
loading; the rest of its functions are empty. The firmware samples are taken over from Zephyr, and
the build system is configuration.
