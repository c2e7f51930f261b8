# VKRB: the overlay of a drone's video, specified in TLA+

VKRB draws the results of a target tracker and detector, and some telemetry,
over a drone's video. Two programs take part:

* `src/mav_main/app`: **lightning_gpu**, a Linux program that takes requests of
  the image processing from the library `gpu_ipc` and writes MAVLink v1 messages
  to a serial port;
* `src/mav_osd`: the **OSD**, a fork of the MW-OSD firmware for an ATmega328 with
  a MAX7456 character generator, which reads those messages and draws.

The line between them carries messages from the host to the OSD only. Nothing is
acknowledged and nothing is repeated, so that everything the two agree on rests
on what the host remembers of what it sent. This is the core of the system and
the first thing modelled here. The repository also holds the sources of **unp_cp**,
the team's own library: the host takes its serial port from it, and it has a run-time
database, RPC and a logger, which have the harder concurrency.

This directory holds TLA+ modules of these parts, the TLC configurations that
check them on small instances, and TLAPS proofs. `PROJECT.json` lists the runs,
the mutants that show that each property can fail, the source lines of every
definition, the hazards and the findings.

    tlc -workers 2 -config MCLink.cfg MCLink.tla
    tlapm OverlayLinkProofs.tla

## Inventory

| Component | Source | State | Operations | Modelled in |
|---|---|---|---|---|
| Host main thread | `GpuApp.cpp`, `ProcGpu.cpp:17-79` | `running_`, `stopFlag_`, `pGpuPart` | start, wait for a signal, stop, destroy | `GpuHost` |
| Host worker thread | `ProcGpu.cpp:82-269`, `GpuUtils.cpp` | `prevRects`, `lastMode`, `cleared`, camera size, `prev_` numbers | one handler per request | `GpuHost`, `RectGeometry`, `Telemetry` |
| Host configuration | `States.cpp`, `gpuConfig.xml` | `x`, `y`, `name_attr` of the parser | parses a file, sends a position per field | `ConfigFile`, `ScreenLayout` |
| Serial port | `unp_serial.cc` | none | write a frame, or throw an `int` | `GpuHost`, `OverlayLink` |
| OSD receiver | `SerialMAVLINK.ino:688-918` | `mav_state`, checksum, index, buffers | one byte | `MavReceive` |
| Layout of messages | `GlobalVariables.h:919-1017`, `SerialMAVLINK.ino:165-685`, the library's `mavlink_msg_*.h` | `serialBuffer` | pack, check, read by offsets | `MavWire` |
| OSD overlay commands | `SerialMAVLINK.ino:242-381` | `customRects`, `control_mode`, `aim_status` | `C`, `T`, `D`, `S`, `O`, `R` | `OsdOverlay` |
| OSD telemetry handlers | `SerialMAVLINK.ino:382-685` | `MwAltitude`, `MwVBat`, `MwAngle`, `AIR_speed`, `armed`, home | one handler per message | `Telemetry`, `FlightState`, `MavWire` |
| OSD rectangles | `CUSTOM.ino` | none | outline of each rectangle | `RectGeometry`, `PictureGeometry` |
| OSD layout | `MW_OSD.ino:616-805`, `Screen.ino:43-56` | EEPROM, `screenPosition`, layout, video standard | start, `P`, `R`, layout switch | `ScreenLayout` |
| OSD display path | `MW_OSD.ino:258-602`, `Max7456.ino` | `screen[]`, two update masks, `displayReady`, `vsyncFlag`, the chip | `loop()`, interrupt, chip setup | `DisplayPipeline` |
| OSD display functions | `Screen.ino` | none | one per field, and the message line | `DisplayFields`; its buffer in `MavReceive` |
| Run-time database | `unp_rtdb.cc` | `lockCount`, `lockedW`, `cancelState`, the file's lock | `LockRead`, `LockWrite`, `Unlock` | `Rtdb`, `RwLock` |
| RPC server | `unp_rpc_server*.cc` | slots of handlers, busy counter, mutex | `Start`, `Stop`, accept, handle | `RpcServer` |
| RPC client | `unp_rpc_client.cc` | the socket, kept from call to call | `Talk` | `RpcCall` |
| RPC messages | `unp_rpc.cc` | receive buffer | `Send`, `Receive`, both packers | `RpcMessage` |
| Logger | `unp_log_sys.cc` | file, `recordsCount` | append, rotate, delete backups | `LogFile` |
| `gpu_ipc` | not in the repository | | requests, `terminateWaiting` | from its use |
| rest of `unp_cp` and of the MAVLink library, fonts, `Release/` | | | | not modelled |

**How they interact.** In the host the main thread and the worker share the port,
the rectangle cache and three variables; there is no lock. A request makes the
worker write a few messages. In the OSD one loop reads all bytes that have arrived,
handles each complete frame, builds a picture if the last one is drawn,
transfers it to the chip when the vertical sync interrupt came (or its timeout passed)
and looks at the chip now and then. The parts of `unp_cp` serve other programs of the
team: `lightning_gpu` links the library and calls its serial port only. They interact with
nothing here but the operating system, and are modelled one by one.

**What is hard.**

* *Stale state*: the host suppresses a rectangle or a number it believes to be on the
  screen (`GpuUtils.cpp:152`, `175`, `ProcGpu.cpp:206`). Clear messages, mode changes, lost messages and
  restarts of either side change what is there. The OSD's buffers keep what earlier messages left.
* *Concurrency*: stopping while the worker is anywhere between two statements; a
  wake-up that may come before the wait; messages of two threads on one line. In `unp_cp`: a lock
  of the process on a file under a counter of its threads; threads cancelled anywhere; slots of threads used again;
  requests sent again while the server still runs the first copy.
* *Failure*: lost, damaged bytes; a port that fails; an OSD that restarts; power
  that fails between two bytes of an EEPROM write; a process that ends in the middle of a log's rotation, or
  with a lock taken.
* *Ordering*: the screen buffer, two masks and the chip's memory change on
  messages, on redraws, on chip resets and on changes of the video standard, in any
  order, and the picture must stay right.
* *Numbers*: objects in pixels become cells in `uint8_t`; the payload index is
  eight bits wide and the longest message has 255 bytes; a decimal point is moved into a printed number by hand.

**What makes each part correct.** The OSD shows what the last request asked for and the last
numbers reported; the
host's cache agrees with the OSD; every outline is inside the screen and frames its
object; stopping always returns and leaves neither rectangles nor numbers; the chip shows whole
pictures and in the end the current one; a frame handled is a frame sent, and read as it was packed; fields
stand where the configuration puts them and can be read. The database is a readers-writer lock; the
RPC server's `Stop` returns and outlives its threads; a call gets its own answer and is run no
more often than it was tried; a request arrives however it is cut; the log keeps the latest records.

## Modules

### `OsdFrame`, `DisplayPipeline`, `DisplayPipelineProofs`

`OsdFrame` is what the display path promises: a frame is composed off screen, a
redraw shows the *whole* of it, a reset empties the screen. `DisplayPipeline` is
how the firmware does it with incremental redraws. Its `pc` is the position in
`loop()`: serial input, build, redraw on timeout, redraw on sync, chip
supervision. `VSync` is the interrupt, `Tick` the 10 ms timeout, `CameraChange` the
video input; they happen between any two steps. The sets `mask` and `prev` are
`screen_update_mask` and `screen_update_mask_prev`, `chip` is the memory of the
MAX7456, `scene` what the display functions would write now: any partial picture, so that
the results hold whatever they write. `NtscCells` and `NtscSent` differ because
`MAX7456_DrawScreen` walks whole bytes of the masks: with 390 positions it sends
392.

External and assumed: a hardware reset empties the chip's memory. `scene` stays
inside `screen[]`; the code does not check that (see the findings).

### `RectGeometry`, `PictureGeometry`, `GpuHost`, `OsdOverlay`, `OverlayLink`, `OverlayLinkProofs`

`RectGeometry` has the pure functions: pixels to cells (`Normalize`, with the
`uint8_t` conversions and C++ division), the OSD's `Clamp` and the `Outline`
drawn; `PictureGeometry` walks an object of any size through a picture of any size (`Picture`) to check them. `GpuHost` is the host: one action per step of the main thread (`main`), one
per request handler or loop iteration of the worker (`worker`). A handler computes its
messages into its thread's queue (`wout`, `mout`) together with the cache and the
modes, and `WorkerWrite`/`MainWrite` put them on the line one by one, so that the
threads' messages interleave as they can in the code. The next statement of a
thread waits until its queue is empty. `send_` functions map a *sender* (cache and
queue) to the next one, which keeps handlers as readable as the code.

`OsdOverlay` has the OSD's handlers, `OverlayLink` joins the two: `Deliver`, `Lose`,
`Restart`, and two history variables. `last` is the last request about the overlay,
`stale` the parts of the overlay (`rects`, `mode`, `aim`) that a lost message or a restart
touched and no message has renewed since. The properties say: whatever is not
stale is right.

Assumed of `gpu_ipc`, whose source is not in the repository: a wake-up by
`terminateWaiting` is remembered until the next wait (the flag `terminated`), and
`getCameraConfiguration` returns. Calling `terminateWaiting` on the destroyed object (`pGpuPart`
dangles once `Process` has left its frame) may work or kill the process
(`TerminateCrash`). Not modelled: `sigwait` failing.

### `Telemetry`, `TelemetryProofs`

The numbers, from the report to the variables the display functions read. `prev` are the
host's `prev_` variables; a report that equals the one before sends nothing. Speed and altitude
share `VFR_HUD`, so that a report of one sends the host's memory of the other. `Convert`
has the conversions on both sides (clamping, mV to 0.1 V, the sign of the pitch, an air speed beyond
`int16_t`). `last` and `stale` are histories as in `OverlayLink`. Absent from the model: that
telemetry and overlay share the line, which matters to neither, since their messages commute.

### `ScreenLayout`, `ConfigFile`, `ScreenLayoutProofs`

In `ScreenLayout` the host's parser sends each field's position (`ParseY`) with what earlier
attributes left; the OSD limits it, translates its sixteen lines to fourteen
(`LineBase`), writes it byte by byte into three layouts of the EEPROM (`todo`,
`WriteByte`) and shifts it again when it reads a layout on a PAL signal
(`Shifted`). `PowerCut` may come between any two bytes. The positions are the real
numbers: 30 x 16 cells, nine bits of position, two of visibility. `DefaultAssumption` says of the compiled
defaults (`GlobalVariables.h:604-664`) that a shown one stands in the first fourteen lines. The layout switch depends
on a radio channel that this host never sends: any value, at any time.

`ConfigFile` is the parser alone on any file: unknown elements, attributes that are missing, in
another order, empty or not numbers. An uninitialized `int` is any member of `Garbage`. `CompletePlaced` is about elements
whose field no other element has: of two for the same field the OSD keeps the later.

### `MavReceive`, `MavReceiveProofs`, `MavWire`

The receiver, one action per state, with the code's quirks: the id is compared with
an uninitialized length when it is unknown (any outcome), the checksum seed of
the previous frame stays, the payload index wraps. The size of a byte is a constant:
with `Wrap` = 256 it is the code's, and the text message's length is always the
greatest byte. `DisplayMessage` may come between any two bytes. The checksum is
abstract: two runs of bytes have the same checksum only if they are equal, and damage to the
checksum itself never makes it right.

`MavWire` has what the receiver leaves abstract: the fields of the sixteen messages as the
library packs them, the OSD's own table of lengths and `CRC_EXTRA`s, and the offsets its handlers
read. A byte of `serialBuffer` is whether the last message brought it.

### `DisplayFields`, `FlightState`

`DisplayFields` is what the active display functions write, symbol by symbol in the order of
the code (`displayItem`'s decimal point, padding and sign, moved by hand; the wrap of
`displayMessage`), and a reader that takes the number back from the screen. `itoa` takes a 16-bit
`int` (`Int16`), the speed is cut off after a float product that may be a little too small (`Kmh`). `localData`
keeps the text that was shown and `value` the number. The digits, a text's cursor and its paragraphs are recursive functions,
as is the layout of a message in `MavWire`: neither module needs a fold or a recursive operator.
The proofs about both are in `DisplayPipelineProofs`, the flight's in `TelemetryProofs`.
`FlightState` is what the OSD concludes from heartbeats and positions: armed after the
glitch protection, home, the distance. `log` is the history of what arrived.

### `RwLock`, `Rtdb`, `RtdbProofs`

`RwLock` is the promise, a readers-writer lock among all threads of all processes that a dying
process gives back. `Rtdb` is the code: the mutex and the counter of a process's object, its lock on
the file, the condition, and `Unlock` in its four steps. `Killed` ends a process anywhere.
A condition may wake without cause (`Spurious`). The calls on the file may fail at any time (`FileLockFails`, `UnlockFails`): the wait for
the lock is not taken up again after a signal, and the kernel may have no locks left. `ASSERT` then ends the process or, which is
the default, throws (`unp_rtdb.h:16`), and the thread leaves the mutex locked and its process's counter raised. Such a process is `Broken`: its other
threads wait for ever, and others may wait for the lock it still has on the file. `Served` excepts these by name and nothing else; `ServedAfterErrors` is the finding.

### `RpcServer`, `RpcServerProofs`

One action per stretch between two cancellation points or lock operations of the accept thread, the handlers
and their cleanup handlers. `cancelled` are the threads with a pending cancellation, `state` is
`CmdHandleInfo::state`, `handler` what the thread of the slot really does.

### `RpcCall`, `RpcCallProofs`, `RpcMessage`

`RpcCall` is `Talk`: attempts, the connection kept from call to call, closed when an attempt fails; a handler per
connection at the server, methods that answer after and signals that answer before they are run; the server
stopped, killed and started again. A connection may be `Dropped` by the accept thread, when it cannot set the socket's option or create the
handler. A message is the number of its call, which the code does *not* send.
`RpcMessage` is the byte level: both packers, and `Receive`, which puts a request together from
pieces of any length in a buffer that grows. `Receive` keeps a pointer to the buffer's start from before it grows and reads the prefix through it
afterwards (`unp_rpc.cc:503`, `523`, `536`): `moved` says that the buffer grew since, and `PrefixRead` is then any byte. After a request that closes the connection the
client makes a new one (`Reconnect`). The texts of the requests are ASCII but for what telnet sends before them, so that a prefix wrongly read as telnet's finds nothing to skip.

### `LogFile`

Append, and `BackupLog` in its steps, each of which may fail; the process may end between any two
and a new logger finds what is left. The first step is the listing of the directory, whose failure `GetBackupList` does not report: it has no
backups then, or a part of them. `excess` counts such listings until a rotation succeeds on a complete one. Time is in seconds, as in the backups' names; a second rotation
in one second replaces the backup of the first (`overwritten`). What `LogKept` promises under these: the backups exceed their maximum by `excess` at most, whatever else fails; the
order holds always; the latest records are kept while no call failed, no backup was overwritten and the file is not truncated at the start.
External: `rename`, `unlink` and `fopen` do what they say or fail; writing a record does not fail; local time goes forward. Its proof is in `RpcServerProofs`, the
flight's in `TelemetryProofs`.

### `Part`, `GeometryPart`, `FieldsPart`, `WirePart`, `FlightPart`, `ConfigPart`, `LogPart`, `MCOsd`, `MCLibrary`

Parts that share no state and are checked one at a time: a behaviour chooses its `part` at the start, the variables
of the others stay 0. `MCOsd`: geometry, fields, message line, layout of messages, flight, configuration file.
`MCLibrary`: RPC messages and the log file. The parts that have theorems are modules of their own (a component under the names
of the run, and what the run checks of it), so that the run and the theorem are about the same formula: the run instantiates
it, the theorem has it of every behaviour of the component (`Log!Spec => []LogKept`).

## Runs

| Run | Question | Properties |
|---|---|---|
| `display` | Do incremental redraws show whole pictures, and the current one in the end? | `ChipCovered`, `NothingUnreachable`, `Implements`, `Converges` |
| `link` | Does the OSD show what was asked for, with losses and restarts? | `CacheMatchesOsd`, `TrackerShown`, `FailureShown`, `DetectorShown`, `ManualShown`, `RectsOnScreen` |
| `lifecycle` | Does the host stop, and cleanly? | `CleanAfterExit`, `StopReturns` |
| `telemetry` | Does the screen show the numbers reported, and do faults heal? | `ShownIsLast`, `ZeroAfterExit`, `Repaired` |
| `layout` | Do positions survive losses, power cuts, restarts, a second start? | `PlacedAsConfigured`, `VisibleOnScreen` |
| `receive` | Is what is handled what was sent? | `HandledWasSent`, `CleanHandled`, `TextWhole` |
| `osd` | Are objects, numbers, texts, messages, the flight and the configuration file read and drawn as they are meant? | `ObjectFramed`, `NumbersRead`, `MessageLaidOut`, `MessagesRead`, `ArmedAsReported`, `HomeAndDistance`, `CompletePlaced`, `ParsedToTheEnd` |
| `rtdb` | Are two levels of locks one readers-writer lock? | `WriterAlone`, `Implements`, `Served` |
| `rpc_server` | Are slots used again safely, and does `Stop` outlive its threads? | `SlotTellsThread`, `NoneOutlivesStop`, `StopReturnsOrHolds` |
| `rpc_call` | Whose answer does a call get, and how often is it run? | `OwnAnswer`, `RunsBounded`, `SmoothOnce`, `Return` |
| `library` | Do requests arrive however they are cut; are records kept? | `RequestsServed`, `LogKept` |
| `stale` | a finding | `NoStaleRects` (violated) |

The types of the variables are proved where a module has proofs and are not run again.

**Bounds and why they are enough.**

* `display`: three cells, one of each kind the code tells apart (on an NTSC line, sent
  with the last NTSC byte only, on a PAL line only), one symbol and the blank. The code
  treats cells of a kind alike and independently, and the proofs cover all sizes.
* `link`: two rectangles on both sides (the index that is reused, and one more),
  frames that leave the screen on one side and one that takes no cell (its rectangle is the
  zero rectangle), two messages on the line. A handler's queue is not bounded by it.
  Real cameras cannot be used, since 30 x 16 cells only multiply the frames.
  The clock stands still here; the properties do not depend on it.
* `lifecycle`: one rectangle, since the questions are about threads; two camera sizes; no losses
  (a loss leaves the overlay stale, about which `CleanAfterExit` says nothing), but every
  failure of the port and of the library, and starts after any end.
* `telemetry`: zero and two more numbers of each kind, of which one is negative or does not fit its field (an air speed beyond
  16 bits becomes any of `Overflowed`); two messages on the line, so that one can be lost between two others; two faults.
* `layout`: two fields, of which the file has one, so that the other keeps its default; eight places
  in rows of every kind (translated or not, on the last cell, outside the screen, hidden); two starts.
* `receive`: bytes of five values (`Wrap`), one of which is the start byte and one the length
  of the text; payloads that contain start bytes; one byte lost or falsified, or a restart
  (`MaxFaults`). The same instance with two faults (25.6 million states) has no error
  either; it is left out for its time. The proofs have no such bounds.
* `osd`: every object in a picture of 13 x 9 pixels on 3 x 2 cells, where 4 x 4 pixels a cell and one left over
  on two sides give every remainder; numbers around every power of ten; texts of up to seven characters in three rows of
  two, which fill a row, break on a full row and return to the top; each of the sixteen messages after each other one;
  six messages about the flight (arming, a fix, three heartbeats without the bit,
  one more than the glitch protection tolerates, and arming again); files of two elements, the least in which one can
  disturb the next.
* `rtdb`: three threads, two in one process; each calls once. One death, since a dead process does not come back;
  each call on the file may fail, in any number of threads.
* `rpc_server`: four connections, so that slots are used a second time while others are in use.
* `rpc_call`: three calls of two attempts, six connections (one per attempt), three timeouts, dropped connections, deaths or restarts of the server:
  enough for an answer to be late by two calls.
* `library`: a buffer of six bytes that the requests overflow; a log of two records per file and two backups, eleven records, two
  failed calls (the listings among them), five seconds.

`CHECK_DEADLOCK FALSE` is set where a run is finite by nature: the parts of `MCOsd` end, the calls of
`MCRtdb`, `MCRpcServer` and `MCRpcCall` are bounded. It is also set for `stale`, which looks for a violation.

**Fairness.** Every fair action is a step the code takes without waiting for anyone outside.

* `display`: weak fairness of the loop's own steps and of the clock: no
  step of `loop()` waits for anything (serial input is read only as far as it has
  arrived). Vertical sync is *not* assumed fair, since it stops with the camera.
* `lifecycle`: weak fairness of each thread's own steps (the scheduler) and of delivery (the UART
  drains whether or not the OSD listens); strong fairness of the main thread's write, since
  the kernel's lock on the terminal serves blocked writers in turn.
* `telemetry`: weak fairness of delivery. `Repaired` speaks of reports that keep changing; that they come is its premise.
* `osd`: weak fairness of the parser's loop.
* `rtdb`: weak fairness of a thread's own steps; strong fairness of taking the mutex and the file's lock, which others may take
  in between; the operating system queues both. That the holder unlocks is fair too: it is the user's obligation.
* `rpc_server`: weak fairness of the accept thread once it is stopped, and of each handler. A handler whose request holds
  it for ever is the exception named in `StopReturnsOrHolds`.
* `rpc_call`: weak fairness of the client and of each handler; a connection whose handler is gone ends with an end of file
  (`ReceiveEof`); timeouts may or may not come.

Requests, signals, failures, losses and timeouts are never fair.

## Findings

Each is in `PROJECT.json` with its lines. `NoStaleRects` has a run; the others are definitions
in the modules named here, and can be checked by putting them in the place of the INVARIANTs of the configuration given.

| Definition | Configuration | What the code does |
|---|---|---|
| `NoStaleRects` | `MCStale.cfg` | `send_clear_rect` sends an index where the OSD expects its digit: a rectangle the detector no longer reports stays until everything is cleared. `CacheMatchesOsd` still holds: a later object of that number is sent again. |
| `RectsExpire` | `MCLifecycle.cfg`, `MaxTime = 3`, `Ends = FALSE` | The timeout for rectangles announced in `GlobalVariables.h:1151` does not exist. |
| `RowsExact` | `MCLayout.cfg` | Rows 5, 6, 9 and 10 are not where the file says, depending on the column; `PlacedAsConfigured` says what does hold. |
| `TextWasSent` | `MCReceive.cfg` | A text whose checksum was wrong is shown as soon as any other message arrives. |
| `CancelRestored` | `MCRtdb.cfg` | Of two readers of a process the second to unlock restores a cancellation state that the first has already forgotten. |
| `ThrottleRead`, `Pressure2Handled` | `MCOsd.cfg`, `Parts = {"wire"}` | The throttle is read one byte too far; `SCALED_PRESSURE2` never passes the checksum. |
| `FieldsInPicture` | `MCOsd.cfg`, `Parts = {"places"}` | Fields in the last columns go on in the next row, or past `screen[]`. |
| `MessageAtColumn` | `MCOsd.cfg`, `Parts = {"message"}` | The column configured for the text is ignored. |
| `ArmedFromHeartbeats` | `MCOsd.cfg`, `Parts = {"flight"}` | The host's `A` message counts as a heartbeat of a disarmed aircraft. |
| `PlacedByName` | `MCOsd.cfg`, `Parts = {"config"}` | Attributes that come after `positionY` take effect in the next element. |
| `ServedAfterErrors` | `MCRtdb.cfg` (PROPERTY) | A call on the file that fails throws with the mutex locked and the thread counted: the other threads of the process wait for ever. |
| `StopReturns` | `MCRpcServer.cfg` (PROPERTY) | The accept thread, cancelled while it joins a zombie, waits for the mutex it holds. |
| `LongsUnderstood`, `SlashesEchoed`, `LinesServed` | `MCLibrary.cfg`, `Parts = {"long"}`, `{"slash"}`, `{"line"}` | A 64-bit argument loses its upper half; a backslash in an answer escapes the closing quote; CR LF in two reads is one request too many. |
| `TelnetServed` | `MCLibrary.cfg`, `Parts = {"rpc"}` | The prefix of a line is read from the buffer's old place: when the line outgrew it, telnet's options may not be skipped and the connection is closed. |
| `NeverMoreBackups`, `NoneOverwritten` (PROPERTY) | `MCLibrary.cfg`, `Parts = {"log"}` | A directory that cannot be listed is taken for one without backups, and none is deleted; two rotations in one second leave one backup. |
| `BackedUp`, `FileBounded` | `MCLibrary.cfg`, `Parts = {"log"}` | The file is cleared although it could not be renamed; a new logger counts the file's records from zero. |

Met on the way and not worth a definition: `backupCountMax` = 0 still leaves one backup; the answers of the text
protocol are separated by a space where `unp_rpc.h:95` says a tab. The hazards without a property, with the reasons:

* a camera narrower than the grid makes a cell 0 pixels wide, a division by zero (`GpuUtils.cpp:267`): `HostAssumption`
  excludes it, as no such camera exists;
* a rectangle set in the millisecond in which `millis()` is 0 is not drawn (`CUSTOM.ino:22`): the model's clock begins at 1;
* two writes to the port by two threads may be split and mixed by the kernel (`unp_serial.cc:359`), and the frames' sequence number
  is raised without a lock: a write is one step here, and the OSD does not look at the sequence number;
* `CheckStatus` looks for a new camera only when the loop is late (`MW_OSD.ino:390`): `CameraChange` may go unnoticed for any time.

## Theorems

All theorems hold for every value of the constants the named assumptions allow.

* `DisplayPipelineProofs` (`DisplayAssumption`: the cell sets are nested, the blank is no
  glyph, the intro is a picture). `TypeCorrect`, `NoOrphans`, `NoneUnreachable`: the inductive invariant is their
  conjunction. `ChipCovered` alone is not inductive without the types of the masks, and `NothingUnreachable` needs the
  type of `detected`, whose value selects the lines a redraw covers. `ImplementsFrame`: `Spec => Implements`; every step maps to
  a step of `OsdFrame` or to a stutter, and `MAX7456_DrawScreen` to `Show`. It
  is here that the invariant is used: a symbol that is not blanked was not on the chip.
  The display functions (`FieldsAssumption`: the values have the widths of the OSD's variables, a picture has at least three columns).
  `NumbersAreRead`: `Shown` is the invariant, that the cells hold what the function of the field makes of the value. The rest
  is about decimal notation: the digits of n are those of n div 10 and one more (`Digits`), a reader of them has n again, and the
  point moved between the last two leaves the number the reader takes. Each is shown by induction over the number or over the place in the
  text, which stands in the form "a set of naturals with 0 and the successors is all of them" (`Induction`, from the well-ordering of the
  library). `TextIsLaidOut`: `Typing` says the cells are what `Typed` makes of the text; the cursor after i characters is in the row
  and column of the paragraphs (`Follows`), and what it left behind is a cell for each printed character (`Lists`); two characters stand in two cells
  while there are no more rows than the picture has, since rows and columns grow together (`Before`).
  `MessagesAreRead` (`WireAssumption`: the buffer is longer than the text message, 51 bytes): the invariant `WireInv` is that the buffer holds exactly the bytes of the
  last message it has room for. Where a message's fields end follows from their sizes, message by message (`Laid`; the channels by
  induction); a field that is read whole ends where the message does at the latest (`EndsGrow`), so that no byte is another message's.
* `OverlayLinkProofs` (`GridAssumption`, `HostAssumption`, `OverlayAssumption`, `LinkAssumption`: at most
  ten rectangles, so that an index is one digit; a camera with at least a pixel
  per cell). `LinkTypeCorrect` rests on `NormalizeBytes` (what the host sends fits its bytes whatever the object).
  `OutlinesOnScreen`: the invariant is strengthened to all rectangles in use, drawn or not; `ClampOnScreen` is the arithmetic.
  What is shown: a *claim* is about one thing the OSD keeps: the mode, the warning, a rectangle, or that
  there is none. It is *due* when the messages under way, taken one after the other, end in it (`Leaves`): the last that touches the
  thing makes the claim true, or none touches it and it is true; first those on the line, then the worker's own. A step of the line, a loss
  and a restart included, leaves due what is due (`LineKeeps`: what a lost message could have made true becomes stale). `Right`: every cached rectangle
  is due, which gives `CacheIsRight`. `Informed`: the host's mode is due; so is the void warning, unless every cached rectangle is forgotten, when the next one
  is sent anyway and voids it; that is why a target found again after a loss does not leave the warning on the screen. `Owed`: what the last request asked for is due
  from its handler on, an object of the detector from its turn in the loop on (`Done`), which gives `TrackerIsShown`, `FailureIsShown`, `DetectorIsShown` and
  `ManualIsShown`. While there is a worker the main thread writes nothing that touches a rectangle (`Threads`), and once it has destroyed its part, what is
  under way ends in clear-all (`Ending`), which gives `CleanAtTheEnd`.
  The geometry (`PictureAssumption`: the picture has a pixel a cell or more in both directions, and at most 127 cells, so that a count fits a byte),
  `ShownAsFramed`: `InPicture` is the invariant, the rest is arithmetic along one axis. With q the cell of the first pixel and e that
  of the first pixel after the object, the byte conversions are exact (`AxisBytes`), the OSD's clamping keeps the cells from q on that there are (`AxisClamped`), and
  a cell more than half covered lies between q and e (`AxisFramed`); `BorderDrawn` turns positions of `screen[]` into columns and lines.
* `TelemetryProofs`. `LastIsShown`, `NothingAfterExit`: of each kind the last message under way that carries
  it carries what is owed (the last report, or zero after the end), or there is none and the screen has it; a report
  equal to the host's memory changes nothing because the memory is what is owed. `ArmedIsReported`, `HomeIsKept` (`FlightAssumption`): the invariant relates
  the glitch counter to the heartbeats in the history since one had the bit, and home and the distance to the first and the last fix there; the
  steps are lemmas about adding one message to a history.
* `ScreenLayoutProofs` (`LayoutAssumption`, `DefaultAssumption`). `LayoutTypeCorrect`; `FieldsOnScreen`: each position in the EEPROM, or in the EEPROM as it will
  be when the writes that were begun are made, is on the first fourteen lines or not shown, unless a write was cut short (`Whole`), and the shift on a PAL
  picture adds two lines at most. `PlacedWhereConfigured`: of each field already sent, its message is under way and no later one contradicts it, or all three layouts
  have it (`Taken`); the host's parser holds what the field's attributes said (`Parsed`); at the end the reset is under way last, so that the layout is read
  after the last write (`Finished`). `CompleteIsPlaced` (`FileAssumption`): while a complete element is under way the registers hold what its attributes
  said so far and nothing was sent for it; what was sent is of elements already reached, so that nothing was sent for it before.
* `MavReceiveProofs`. `ReceiveTypeCorrect`, `HandledIsSent`, `CleanIsHandled`, `TextIsWhole`. The bytes the receiver has
  summed up are the witness: they, the index and the buffer agree, so that a right checksum means a frame that was
  sent. For `CleanHandled` the bytes left on the line determine state and sum, for any length, the text's with its wrapping index included.
* `RtdbProofs`. `RtdbTypeCorrect`, `WriterIsAlone`, `ImplementsLock`. The invariant counts a process's threads inside (`Counted`),
  ties `lockedW` to the one that writes (`Written`, `Single`), the file's lock to the
  processes with threads inside (`Filing`, `Covered`), and excludes a writing process from others (`Exclusive`). Failed calls leave a process whose counter is wrong
  for ever; nobody is inside it, and nobody enters, since its mutex stays locked (`Emptied`).
* `RpcServerProofs` (`ConnsAssumption`). `RpcTypeCorrect`, `SlotsTell`, `BusyCounted`, `NoneOutlives`: `Room` says there is a slot for each connection, `Steady`
  what holds of a slot at each point of the accept thread and of its handler; the counter is the cardinality of the busy slots.
  The log file (`LogAssumption`), `LogIsKept`, with the three conditions of `LogKept` given above: each listing that failed leaves at most one backup too many. That the rotation deletes no record it should keep needs how many records are behind each backup (`Deep`), and that
  the counter of records is at most what is in the file. That a set of so many numbers has a first so many is shown from its least counterexample (`LeastOf`), which
  the library's theorem on well-founded orders gives.
* `RpcCallProofs` (`CallAssumption`). `RpcCallTypeCorrect`, `OwnAnswers`, `RunsAreBounded`: a connection is half duplex and its last answer belongs to the
  call that wrote last on it (`Line`); runs, copies on their way and attempts left never exceed `attemptsMax` (`Budget`). `SmoothCalls`,
  for more than one attempt (the default is two, `unp_rpc_client.h:29`): a call without trouble (a timeout, a dropped connection, a death or a restart of the server) has all its attempts until it is on a connection whose handler
  lives (`Onward`), and is run once from then on and not before (`Tallies`).

**Only model-checked.** Liveness (`Converges`, `StopReturns`, `Repaired`, `ParsedToTheEnd`, `Served`, `StopReturnsOrHolds`, `Return`): its proofs need
ENABLED and fairness, which the installed prover does not treat. `RequestsServed`: a request and its answer
are put together and taken apart by folds over sequences of bytes, and the provers cannot instantiate the theorems about folds; written as recursive functions
the steps would be open to the argument by least numbers used for the fields, but the claim that every packed request is parsed again to its arguments is an induction over
the parser's whole state (quotes, escapes, separators) at each byte, which has not been carried out.

## Not modelled

* **Generated and vendored code.** Most lines of the repository are MAVLink's generated headers (two thirds of all lines of C) and
  their test suites. The OSD does not link them; the host packs six messages with them, and those layouts are in `MavWire`.
* **Code that is compiled out.** `Config.h` leaves nine display functions active; menus, alarms, logos, GPS, timers, other protocols
  and other boards are excluded by the preprocessor. Modelling them would describe a program nobody builds.
* **Other parts of `unp_cp`**: sockets, rings, threads, PCI, interrupts, timers, files: wrappers of single system calls, some of them for
  QNX only, none used by the host. What the modelled parts take of threads and sockets is in their modules.
* **Serial port**: opening and setting it up is plain I/O without state of its own; `WriteN` is in `GpuHost`.
* **`gpu_ipc`**: not in the repository; its promises are assumed as said above.
* **Radio channels, flight-mode names, courses, temperature**: the OSD reads them and nothing that is compiled in draws them.
* **Fonts, `Release/`**: data and build output.
* **Open and Close of the run-time database, name resolution, the client's socket options**: the life of the objects before and after the
  behaviour modelled.

What is left of the code therefore holds no further state that two parts could disagree about, and the share of *all* lines that is
mapped stays small.

## Plan

1. Done: `DisplayPipeline` over `OsdFrame`; `RectGeometry`, `GpuHost`, `OsdOverlay`, `OverlayLink`; `Telemetry`;
   `ScreenLayout`, `ConfigFile`; `MavReceive`, `MavWire`; `DisplayFields`, `FlightState`; `Rtdb` over `RwLock`; `RpcServer`, `RpcCall`,
   `RpcMessage`; `LogFile`; the proofs above.
2. Next theorem: what `Receive` hands to the callback is one request as it was sent, whatever the reads and whatever the packers do (`RpcMessage` with the
   packers left abstract and its folds written as recursive functions).
3. Next modules: an abstract `Overlay` (the OSD shows the last request) that `OverlayLink` without losses implements; the
   overlay and the telemetry on one line with a bound on the OSD's receive buffer.
