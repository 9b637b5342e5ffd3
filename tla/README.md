# TLA+ models of CYD Proto

CYD Proto is ESP32 firmware for a touch-screen device: a small windowing desktop
whose applications are Berry scripts, an HTTP and WebSocket server, files on
flash and SD card, and a registry of features and of the actions they offer. The
program is small; what is hard about it is *when* things run. Four kinds of
tasks share its state with few locks, nearly everything that happens on the
screen is deferred through one of two queues, and scripts call back into the
code that is calling them. These modules model that part of it.

All paths below are relative to `src/`; `UI/` stands for
`src/FeatureRegistry/Features/UI/`, `Berry/` for
`src/FeatureRegistry/Features/Berry/`.

## 1. The system

### Tasks

| Task | Started by | Runs |
| --- | --- | --- |
| `app_main` | ESP-IDF, core 0, priority 1 | the boot, then ends (`src/main.cpp:33`) |
| HTTP server | `initWebServer` | handlers of WebSocket, REST, uploads and files |
| UI task | `startFeatureTasks`, core 0, priority 2 | the UI loop (`UI/UiFeature.cpp:360-406`) |
| `main_loop` | `app_main`, priority 1 | serial commands, `autoexec.be` (`src/main.cpp:24`) |
| timer task | ESP-IDF | sets flags: frame ready, a script's timer has fired |

### Components

| Component | State | Operations | Hard part |
| --- | --- | --- | --- |
| Boot and feature registry (`main.cpp`, `FeatureRegistry.h`, `Feature.h`) | the features, the state of each, a JSON copy of the states | set up, start tasks, loop | clients call while the boot is under way; setups fail |
| Action registry (`ActionRegistry.h/.cpp`) | the registered actions, the REST endpoints | register, execute, wire | actions are found before or after what they use exists |
| UI task queue (`UI/UITaskQueue.cpp`) | queue, mutex, one semaphore, the UI task's handle | post and wait, serve | a pointer into the poster's stack, one semaphore for all posters, nested calls |
| UI loop, action queue (`UI/UiFeature.cpp`, `UI/ActionQueue.cpp`) | deferred callbacks, dirty flag, finger | one pass of the loop | callbacks that outlive what they captured; chains of callbacks |
| Window manager, desktop (`UI/WindowManager.cpp`, `UI/Desktop.h`, `UI/elements/window.h`) | windows in z-order, their state and bounds, panel, popups, keyboard, focus | open, close, focus, minimise, restore, cycle, relayout, rotate | every rebuild of a window tears its script down and sets it up again |
| Berry scripts (`Berry/BerryApp.h`, `Berry/BerryUIBindings.cpp`, `UI/App.h`) | one VM, the current app, handle tables, callbacks, timers | set up, tear down, call back, `ui.*` | code of an instance that is gone still runs |
| Berry actions (`Berry/BerryFeature.cpp`) | the VM | `berry eval/run/panel/apps`, `action()` | called from scripts and from other tasks |
| Logging, WebSocket clients (`Features/Logging.h`, `services/WebSocketServer.cpp`) | last 100 entries, listeners, client descriptors | log, broadcast, connect, disconnect | any task logs; descriptors are reused |
| HTTP server (`services/WebServer.cpp`, `api/list.cpp`) | sessions | static files, uploads, listings | a body in pieces, failing half-way |
| Multipart parser (`utils/MultipartParser.h`) | what it keeps back between pieces | parse | boundaries across pieces |
| OTA (`Features/OTA.cpp`) | an update that is open | begin, write, end, abort | failing half-way |
| Files: VFS layer (`esp_littlefs.c`) | contexts, descriptors, open files, one lock per context | open, read, write, close, register, format | contexts deleted while others use them; tables that grow |
| Files: littlefs (`lfs.c`) | the disk, the mount, open files | mkdir, remove, rename, write, list, mount | the loss of power anywhere; blocks replaced and directories split under an operation |
| SD card (`Features/SdCard`, `fs/VirtualFS.h`) | mounted or not, the card | mount, unmount, info, resolve | unmounting what others read |
| WiFi (`hw/WiFi.cpp`) | event bits | start, wait | a network that never answers |
| System actions, time, I2C, LED, light sensor | hardware | read, set | none kept in memory |
| Widgets (`UI/elements`) | the tree of elements; pressed, focused, selected | touch, clear, remove | callbacks that change the tree while it is walked |
| Rendering, icons, calibration | sprite | draw | output only |

How they interact: a command arrives by WebSocket, REST (HTTP server task),
serial port (`main_loop`) or from a script's `action()` (UI task), and is looked
up in the action registry. Actions on the windows and on Berry are posted to the
UI task and waited for, or run inline when the caller *is* the UI task or no UI
task runs yet. On the UI task, touches and timers queue callbacks in the action
queue; callbacks open, close and rebuild windows, which tears down and sets up
scripts, whose functions may call actions again. Every log message goes to all
WebSocket clients on the task that logs. The HTTP server's task parses a request
body while it comes in and hands each piece to the file system or to the update;
`format` and `sd` run on whichever task received the command.

## 2. The modules

| Module | Models | Code it stands for |
| --- | --- | --- |
| `Boot` (+ `MCBoot`, `BootProofs`) | the boot, both registries, who runs an action where | `main.cpp`, `FeatureRegistry.h`, `Feature.h`, `ActionRegistry.*`, `WiFi.cpp` |
| `Commands` | a command line: its action, its parameters (algorithm) | `CommandParser.h`, `ActionRegistry.h` |
| `SyncCall` | abstract: a synchronous call to another task | - |
| `UITaskQueue` (+ `UITaskQueueProofs`) | the queue, mutex and semaphore that implement it | `UITaskQueue.cpp` |
| `WindowManager` (+ `WindowManagerProofs`) | the desktop as a record and every operation on it | `WindowManager.cpp`, `window.h`, `Desktop.h`, `textfield.h` |
| `UILoop` (+ `MCUILoop`, `UILoopProofs`) | the loop that runs them: commands, touches, queued actions, timers, frames | `UiFeature.cpp`, `ActionQueue.cpp`, touch handling of the widgets |
| `ScriptCalls` | native code and scripts calling each other | `BerryApp.h`, `BerryUIBindings.cpp`, `App.h` |
| `UIScripts` (+ `MCUIScripts`, `UIScriptsProofs`) | the widgets of scripts: handles, touches, callbacks that change the tree | `BerryUIBindings.cpp`, `elements/*.h` |
| `Canvas` | flood fill (algorithm) | `BerryUIBindings.cpp` |
| `LogBus` (+ `LogBusProofs`) | logging and the WebSocket clients | `Logging.h`, `WebSocketServer.cpp` |
| `Multipart` | the parser of request bodies | `MultipartParser.h` |
| `EspLittleFs` | contexts and descriptors of the files on flash, and formatting | `esp_littlefs.c`, `LittleFsManagement.cpp` |
| `SdCard` | mounting and unmounting the card, path prefixes | `SdCardFeature.cpp`, `VirtualFS.h` |
| `Uploads` (+ `MCUploads`, `UploadsProofs`) | uploads and updates on top of these three | `WebServer.cpp`, `OTA.cpp` |
| `LfsDisk` | a block device of metadata pairs: fetch, traverse, allocate | `lfs.c` |
| `LfsCommit` | one commit, taken apart into its writes | `lfs.c` |
| `FileData` | the data of one open file (algorithms) | `lfs.c`, `lfs_util.h` |
| `FileTree` | abstract: a tree of files whose operations are atomic | - |
| `LittleFs` (+ `MCLittleFs`) | mount, recovery and the operations, which implement it | `lfs.c`, `esp_littlefs.c` |
| `Filter` | what is left of a sequence by a filter | - |
| `DataLemmas` | lemmas about sequences and sets that the proofs share | - |

`LogBus` and `WindowManager` take elements out of sequences with `Only` of
`Filter`, which is a recursive function (the community modules' `SelectSeq` is a
recursive operator there, which the provers cannot use). Proof modules extend
the module they are about and `DataLemmas`.

`UILoop` composes `WindowManager`; `UIScripts` extends `ScriptCalls`; `Uploads`
composes `Multipart`, `EspLittleFs` and `SdCard`; `LittleFs` extends `LfsCommit`
and that `LfsDisk` (all EXTENDS). `UITaskQueue` implements `SyncCall` and
`LittleFs` implements `FileTree` (INSTANCE with a refinement mapping). `Boot`
says from when on actions are posted, `UITaskQueue` how, `UILoop` what they do
then, `ScriptCalls` what goes on inside a script that one of them opened.
`EspLittleFs` takes each call under its lock for one step, which is what
`LittleFs` then takes apart: the lock makes the two independent.

### Boot

One action per call of `app_main`; a feature's setup is four steps (early
registration, initialisation, late registration, JSON), because the HTTP server
task calls actions between any two of them. `Early` and `Late` hold the order
that each setup function has: only `format` and `sd` are registered before their
feature is initialised. The UI task is created with a higher priority on the
core of `app_main` (`sdkconfig.cyd`: `CONFIG_ESP_MAIN_TASK_AFFINITY_CPU0`), so
that `app_main` does not go on before the UI task has published its handle:
`Preempted`. `setupFeature`, `teardownFeature` and `stopTask` have no callers
(the `features` action ignores its arguments, although `features.be` sends
`features stop <name>`) and are left out.

### UITaskQueue

Starts where the UI feature has been set up and its task has not run yet. `pc`
is where a task is in `postToUITaskSync`; `outer` remembers the body that a
nested call interrupts. A command in the queue is named by its poster, because
that is all that can go wrong with it: it holds a pointer into the poster's
stack. Bound: an inner action calls no third one.

### WindowManager and UILoop

A desktop is one record and each method an operator on desktops, so that a
handler which calls six methods is their composition, in the order of the code.
Pixels are abstracted to what the properties tell apart: window bounds are the
shape they were computed for, with the rotation and keyboard state they were
computed from; the screen is three areas. Handlers run to completion on the UI
task and are therefore single steps; the order of the steps is that of the loop.
`live` on a queued action, a popup and the key consumer says whether what it has
captured still exists; using one that is not live sets `ub` and stops the model
there, and says which kind of use it was: of a window by a title bar's callback,
of a script by a click, by a click that a lift elsewhere caused (`"stray"`: the
button stayed pressed under a finger that scrolled its window) or by one in a
popup whose script is gone (`"orphan"`). The error popup takes every touch
while it is shown; the scripts of `FailingApps` show it when they are set up,
and then have no instance, so that their teardown does nothing. While a key is
pressed the keyboard takes the next lift, wherever it is (`pressedKey`). Bounds:
the commands and parts of windows of each run, `MaxQueue` and `MaxPopups`. A
window's scroll position is not kept: that a lift is in the shifted bounds of a
pressed button is a choice that the model has at every lift.

### ScriptCalls

The C++ stack is a sequence of what is running and what is left to do when it
returns, which lets a callback close, rebuild or set up any script before it
goes on. Instances are numbered by `gen`, so that the model can tell code of an
old instance from the new one's table. Bounds, all named in the module: scripts'
bodies only define things, a timer's callback adds no timers and does not act on
windows, no script closes or rebuilds one that is being set up or torn down (the
code has no guard against it; no shipped script does it), and a panel is not
replaced.

### UIScripts

Adds to each instance its table of handles and the elements behind them, and to
the stack the native loops that pass a touch down (`TouchChild` for
`container.h:214-238`, `TouchTabs`, `ClickOf` for the callbacks). A handle is
`"null"` once `ui.remove_child` or a teardown has invalidated it, `"lost"` when
its script knows that the element is gone although the table still points to it
(`ui.clear` and `ui.destroy_popup` do not tell the table about what was below),
and scripts use no handle that they know to be lost: the scripts in `data/berry`
comply. `HandlesAreLive` is then about the handles they have no reason to give
up. Callbacks of canvases, file lists, tabs and text fields run at once, in the
middle of the walk down; buttons and choices queue theirs. Bounds, named in the
module: callbacks of the first kind change no elements (`Builds`; the code has
no guard against it, and the scripts on the device restructure only in setups,
timers and clicks); siblings do not overlap, so a touch has one path; one
callback per instance (`MaxCb = 1`; two are more than six million states),
`MaxGen = 2`.

### Canvas and Commands

Pure algorithms. `FloodFill` is the fill by rows with its stack of seeds, held
against the set of connected points; `getCommandParameter` is the loop over
`strtok_r`, held against the words of the line, and `ActionFor` the lookup by
prefix, held against the first word. Both are checked over all inputs up to a
bound as assumptions of the MC modules, which TLC evaluates when their runs
start.

### Multipart, EspLittleFs, SdCard, Uploads

A body is a sequence of `Symbols` in which a boundary is several, so that data
can look like the start of one, and `Receive` takes a piece of any size up to
`READ_SZ`: all splits of the body occur. The parser's buffer, its three states,
the window it keeps back and its callbacks are those of `parseMultipartRequest`;
the headers of a part are one symbol (`Header`), their text is not modelled. A
call of the file layer is two steps, the lookup of the context and the work
under its lock, because nothing protects the first from `format`, which frees
the context. The upload handler opens, writes and closes through that layer or
the card's; the update handler begins, writes, ends and aborts an update whose
partitions are ESP-IDF's; `esp_ota_end` reads as much as the header of the image
says, so that `ValidImages` has the image with something behind it as well.
`disturbed` remembers whether a write failed or another task touched the storage
during a request, since the code promises nothing then. Two more conditions are
named because properties depend on them: `OneFormatter`, and `OrderlyRequests`
(no data holds the boundary, which clients choose for that; the field with the
path of an upload is before its file; an update has one file). Bounds:
`Requests` has one request of each shape that the handlers tell apart,
`Formatters`, `MaxFaults`, `MaxCommands`, three contexts, two cards. `MCUploads`
assumes both conditions, so that TLC checks that its requests satisfy them.

### LfsDisk, LfsCommit, LittleFs

A block holds a log of metadata (revision, entries, tail, delta of the global
state, how full it is), the data of a file, or junk. `LOG` bounds the commits
that fit a log and `CAP` the entries that fit a pair, so that compaction and
splits happen all the time; a *tired* block is one whose revision reached
`block_cycles`, which here may happen at any compaction within a budget.
`LfsCommit` takes `lfs_dir_commit` apart: each block write is a step, and with
it every stage at which relatives of the pair are still to be updated
(`"first"`, `"drop"`, `"parent"`, `"pred"`). `PowerFails` may happen between any
two steps or in the middle of one: an append is then torn (and fails its
checksum), a compaction leaves junk. `LittleFs` has the operations that
`esp_littlefs.c` calls, each one a sequence of commits preceded by the recovery
of what a loss of power left (`lfs_fs_forceconsistency`), and `lfs_mount`, which
gathers the global state from the list of all pairs. `MCLittleFs` has seven
scenarios: in each some requests come first, undisturbed, and then every
sequence of requests from a set, with tired blocks and losses of power.
Assumptions and bounds: `CONFIG_LITTLEFS_USE_MTIME` makes a file that was opened
for writing dirty, so that the wrapper's sync after open always commits; one
file is open at a time; the first piece of a file is inline and the rest is in
one block; a directory is not renamed below itself nor above an open file; a
listing is opened only while no move is pending; what a rename replaces is not
expected in a listing that is under way; revisions count modulo 3; the
allocator's seed at mount is one of two; no block is tired of a fresh pair or
when none is free (`MayTire`). `Careful` leaves out commits in which the
allocator has handed out a file's block: the run `littlefs_taken` shows that
these exist, and with it the others show what holds apart from that.

### FileData

What `LittleFs` abstracts to an inline piece and a block: reading, writing,
seeking, truncating and flushing in a file, with its list of blocks (pointers
first, block `i` to blocks `i - 2^k`), inline files, and writing that branches
off the list. Each function is an operator on a record, and what the read cache
happens to hold, which `lfs_file_seek_` asks, is a parameter that is tried both
ways. It is held against a sequence of bytes with a position (`Bytes`): every
call must answer the same, until a sync what the directory entry refers to must
read as before (copy on write), and no cell of a block may be programmed twice.
These are assumptions of `MCLittleFs`, which TLC evaluates: all sequences of
three calls out of nineteen, from an empty file, from one of four blocks and
from one that is appended to, with blocks of six cells; in four-call sequences
nothing new was seen. `IndexIsPlace` checks the arithmetic of `lfs_ctz_index`
against the room that each block has, for the smallest blocks that `lfs_init`
accepts. Calls that write nothing (which fill the gap up to the position, unlike
POSIX) are left out.

### LogBus

A task that logs walks through `Logger::handle` and `wsBroadcast`; a frame is a
header and a payload, since the HTTP library sends them apart. The HTTP server
task accepts, upgrades and closes sessions whose descriptors are used again.
Answers to WebSocket requests are sent without `wsClientsMutex`, and the model
shows frames of both kinds sent into each other; `BroadcastsWhole` is about
broadcasts only, for which the code takes the mutex. The CLOSE branch of
`wsHandler` (114-119) is not modelled: the library handles control frames itself
unless asked not to.

## 3. What is checked

| Run | Instance | What it shows |
| --- | --- | --- |
| `boot` | the firmware's features (seven that differ in behaviour), any of the setups that can fail failing, server and network present or not, one client, serial port | no handler, task or script runs before what it uses exists; states shown to clients are true; `main_loop` stays off the windows; the boot ends |
| `task_queue` | two posters, queue of 8 | each call runs exactly once, wakes its own poster and returns; no dangling command, no stale token; refines `SyncCall` |
| `windows` | one window of a script that fails, drags over its title bar, opening, the keyboard, two rotations, two requests to open it in the queue, with fairness | one window per app; bounds fit the screen; a tap's chain of actions is over before the next touch; no callback of a title bar outlives its window; a tapped close button closes; changes are drawn |
| `scripts` | two scripts and the panel, popups, buttons in scrolled windows, a text field, all commands | popups never outlive their scripts; every visible change sets the dirty flag; only the focused window is active |
| `traversal` (violation) | one script with a text field | see below |
| `recreated` (violation) | one script with a popup | see below |
| `script_calls` | two scripts with two instances each, up to three handles, a timer, callbacks | `ui.*` functions act on the table of the instance that calls them or on none; no firing of a timer is lost; handles point at elements that exist; no callback deletes the element that native code is inside of |
| `log_bus` | three tasks, two descriptors, log of 2, four messages | the log has the newest entries in order; no message to a reused descriptor; broadcasts do not mix; every task that logs gets on |
| `uploads` | three tasks, eight requests in pieces of up to three symbols, one file system that can be full, fail and be formatted, two cards | a file is stored as it was sent or the upload is answered with an error; an update is never left open, what boots is a whole image and, if nothing failed, what was sent; a descriptor reads the file it was opened for |
| `littlefs` | seven scenarios on 12 blocks | operations happen as a whole or not at all, across one loss of power with one tired block, or two tired blocks alone (refines `FileTree`); the disk can always be mounted; listings have each file once |
| `littlefs_taken` (violation) | one of them, all commits | see below |
| `littlefs_nested` (violation) | one of them, two tired blocks and a loss of power | see below |

Every property of a passing run has a mutant, an operator next to the one it
would replace that has the kind of mistake the property is meant to find
(`Full_OffByOne`, `CleanUp_KeepGlobals`, ...); with it in place TLC finds the
property violated.

### Bounds

Two posters are enough for every conflict over the shared semaphore, since the
mutex lets one in at a time; the proofs cover any number. Two windows have a
focused one and another one, and z-order changes; three add states and no new
pair. `MaxQueue` bounds only what commands queue; actions queued by taps come on
top. It is 2 in `windows`, where two requests to open the app wait together, and
1 elsewhere. A log of 2 with 4 messages overflows twice. In `script_calls` two
instances let a callback of the first meet the second; a container, a widget in
it and one beside it are the smallest tree in which each way of deleting an
element differs. In `uploads` a boundary is five symbols and a piece at most
three, so that a boundary spans two or three pieces, with data before and behind
it; three contexts are one, its replacement by a format and one more. 12 blocks
are the pairs of the deepest scenario, its relocations and the blocks of a file;
the scenario `Full` uses all. One loss of power reaches every state that
recovery must deal with except those of a recovery that is itself cut off, which
operations of `more` and two losses would add and which are beyond five minutes.
`CHECK_DEADLOCK FALSE` in `scripts` and `uploads`: the models stop where `ub` is
set.

### Fairness

Each task's own steps are weakly fair (FreeRTOS schedules ready tasks and the
firmware's loops sleep in every pass). Obtaining a mutex is strongly fair: it is
freed again and again, and a FreeRTOS mutex wakes its waiters in turn. In
`UITaskQueue` the end of an action is strongly fair, since nested calls disable
it for a while. What comes from outside (clients, fingers, WiFi events) has no
fairness. In `LogBus` sends return, if only by their timeout; in `Boot` the wait
for an address ends after ten seconds. `Uploads` and `LittleFs` assume no
fairness: a client may never send the rest of its body (the parser then retries
for ever), and the power may stay off.

### What the violations show

* `traversal`: `UI/ActionQueue.h:7-10` says that widgets queue their actions so
  that the hierarchy is not changed while it is traversed. A text field that is
  touched shows the keyboard at once, which rebuilds every window, the one whose
  children are being iterated over included.
* `recreated`: `UI/WindowManager.cpp:395` says that the popups destroyed by
  `relayoutAll` will be recreated. The windows' scripts have been set up again
  before, so that only the panel's are.
* `littlefs_nested`: `README.md:112-113` of littlefs says that rename is atomic,
  "even in event of power-loss". A rename whose new entry had its pair replaced
  is cut off before the list of pairs has the new pair. The next operation that
  writes finishes the move before it mends the list: if the pair of the source
  is replaced as well, its parent is looked for along the list, which leads to
  the outdated pair, and the new address is written there. The tree goes on with
  the old pair, and the source is back next to the target. `lfs.c` itself, built
  with a block device that loses power, behaves the same: it finds both names,
  and a directory that it made then is gone after a remount. With the firmware's
  `block_cycles` of 512, after some thousand renames, the outdated pair is
  replaced as well, and neither name is found any more. The property holds in
  the scenarios of the run `littlefs`, which have no two tired blocks together
  with a loss of power; nor is more than that claimed there.
* `littlefs_taken`: `DESIGN.md:857` of littlefs says that the file system is the
  mirror image of the free blocks. `lfs_fs_traverse_` counts the entries of a
  pair as they are on the disk but reads them with `lfs_dir_get`, which skips
  the source of a pending move: the entry right behind it is not read and its
  blocks are taken for free. When the removal of the source makes its pair move
  to a new block, that block may be one of a file. It takes a remount (the
  pending move is then known to the traversal), a rename between directories and
  a compaction with relocation. With `lfs.c` itself and the firmware's
  `block_cycles` of 512 it takes tens of thousands of renames, and no loss of
  power, until a file is overwritten.

### Limits found while modelling

These are true of the code. Where a model has them, a named bound or condition
leaves them out of the passing runs:

* With `MaxPopups = 2` a panel that is opened twice leaves a popup of the
  deleted script behind (`openPanel` replaces it without a teardown).
* A script that makes a popup and then raises an error, before there is an
  instance of it, is not torn down when its window is closed (the early return
  at `BerryApp.h:195`): its popup stays, although the comment at 219 says that
  teardown destroys the popups of its script. In the model with a script in
  `FailingApps` and in `PopupOwners`.
* A scrolled window passes a lift to its content at another height, and only to
  the children there (`scrollable.h:238`), so that a button that was scrolled
  away under the finger stays pressed; and a window tells its content of every
  lift, those on the title bar included (`window.h:353`). A later tap on the
  close button can then be a lift on the pressed button as well, whose callback
  runs right after the one that deleted its script, although `button.h:10-11`
  says that a press is a touch down and up within bounds. In the model with
  both parts in `TouchedParts`.
* `executeQueuedActions` does not leave the queue empty when an action queues
  another one (the comment at `UI/ActionQueue.h:15` says it does); the second
  call in each pass of the loop runs it, which `TapsAreDoneBeforeNextTouch`
  needs.
* `autoexec.be` is evaluated on `main_loop` while the UI task may be in the same
  Berry VM, and commands that arrive before the UI task's first pass run inline
  on the HTTP server's task; from some moment on neither happens any more
  (`EventuallyConfined`).
* `minimizeApp` does not update the active flags.
* A combo box draws its open list below its bounds, while containers pass on
  touches only within the bounds of a child (`container.h:214-238`): its entries
  cannot be touched; likewise the menus of a menu bar. `pressed` stays set when
  the finger leaves a button, so that it fires at a later lift. The scroll
  offset is not clamped when the content becomes shorter.
* A flood fill on a canvas whose bounds a script has made larger than its sprite
  may never end; 2000 waiting seeds end others early, with less painted.
* The serial port takes what came within ten milliseconds for one command, with
  the ends of lines taken out: two lines become one command, a slow one several.
* `uploads`: what `fwrite` and `fclose` return is ignored, and a body that ends
  early is reported as its last piece: truncated files are answered with
  success. A second file of one body is refused after the first was stored; a
  path that follows its file is ignored. An update without a file part restarts
  the device with "Update done"; a second file in the body erases the partition
  that is already set to boot. Of two tasks that format at once one frees the
  other's context. A descriptor that outlives a format may refer to another
  task's file.
* `esp_littlefs.c`: a failed seek in `pread` and `pwrite` (1655, 1660) keeps the
  lock; a failed close keeps its descriptor (1773), as does
  `vfs_littlefs_truncate` (2262-2300) when the file was opened for reading.
* `lfs.c`: after a loss of power between the commits of a rename, the file
  behind its source cannot be found until the next operation that writes
  (`lfs_dir_get` skips the source that `lfs_dir_fetchmatch` counts; 727-735 and
  1359-1366). On a full disk a tired pair is compacted in place as if it had
  been relocated, without the global state (2082-2110), so that a pending move
  can remove a wrong entry after a loss of power: against the promise of
  atomicity, too, and left out by the bound `MayTire`. `lfs_rename` never calls
  `lfs_alloc_ckpoint`, so that renames alone run out of blocks.
  `LFS_ASSERT(pdir)` at 2259 says that the second half of an orphaning commit
  empties no pair; it also finishes a pending move, which empties the pair of a
  file that was alone in its directory. `lfs.c` aborts after some thousand
  renames with `block_cycles` 512; on the device that is a restart
  (`AssertionFails`), after which the move is finished.

## 4. What is proved

With TLAPS, for all values of the constants that satisfy the modules' named
assumptions:

* `UITaskQueueProofs`: `TypeCorrect`, `WokenByOwn`, `NoDangling`, `NoStale` and
  `Refinement` (the handshake implements `SyncCall`'s initial states and steps),
  for any set of posters and any queue length. The four safety properties are
  not inductive: a poster that wakes up relies on the one token in the semaphore
  being its own. `IInv` adds where the holder of the mutex is (`MutexInv`),
  which bodies a task may be nested in (`OuterInv`), and `HandshakeInv`: the one
  command of the poster that waits is in the queue, being executed, executed, or
  signalled, and in exactly one of these places. The refinement then maps each
  step to a step of `SyncCall` or a stutter.
* `BootProofs`: `TypeCorrect`, `FindsResources`, `Confined` and
  `ClientsToldTheTruth`, for any features, actions and order of features. `IInv`
  adds that late actions are registered only by initialised features
  (`RegisteredInv`), that whatever runs, waits or is wired is registered
  (`CalledInv`), where a setup is between its steps (`SetupInv`), and that
  `main_loop` exists only after the boot, when the UI task is not waiting to run
  for the first time (`TasksInv`). `MirrorInv`: the registry shows the truth
  about every feature but the one the boot is working on. The assumptions about
  `Early` and `Late` (no action is both, features have actions of their own) are
  checked by TLC on the firmware's own tables.
* `LogBusProofs`: `TypeCorrect`, `LogKeepsRecent`, `ClientsOpen`,
  `BroadcastsApart` and the action property `BroadcastSeesOneList` (no step of
  any task changes the list of clients while another walks through it), for any
  tasks, descriptors, messages and capacity of the log. `IInv` adds that the
  counter kept apart from the log is its length (`CountInv`), who holds the
  mutex (`MutexInv`), where the server's task is with a session
  (`ServerInv`), that a broadcast's position is in the list (`PositionInv`), and
  that a half-sent frame belongs to the task that is between its header and its
  payload (`HalfInv`).
* `UploadsProofs`: all five properties of the run `uploads`, for any requests
  and alphabet, any pieces in which bodies arrive, any tasks, files, partitions
  and faults. There are four invariants, each on top of those before it.
  - `IInv`, for `UpdatesAreClosed`: an open update is that of a handler that
    parses and has noted that it began one, and more of its file is to come
    unless the handler has failed (`OpenInv`). It needs what the parser may
    still call (`CallInv`), that a handler that has failed is not called any
    more (`ErrorInv`), and the type of the parser's buffer.
  - `FlashInv`, for `UpdatesAreWhole`, given `OrderlyRequests`. `Position` says
    where in the body the parser is: in part `i`, with the symbols up to `k` of
    its data taken out of the buffer, and with the buffer and what is unread
    being the rest of that body. The first boundary in that rest is at the end
    of the part's data (`DataAhead`), as soon as all of it is in the buffer it
    is found there (`FindInStream`), and until then what is kept back is enough
    for the rest of it (`FlushMoves`). The update is then always the data up to
    where the parser is.
  - `FilesInv`, for `TypeCorrect` and `FilesAreOwned`, given `OneFormatter`. The
    places of the table and the descriptors of tasks fit each other, and the
    count of open files is that of the places in use (`Allocated`, `Freed`: the
    table is halved only when its second half is empty); a context is live if
    and only if a slot holds it; the task that formats is at one place, which
    says which contexts there are; and a call that found its context works on it
    unless the format freed it, which stops the model.
  - `StoreInv`, for `UploadsAreStored`, given both. The file on the flash, the
    open file or the card has the data up to where the parser is, less the
    piece that the handler is about to write (`PieceStored`). The
    path that a later piece of the same file goes to is that of the first one;
    a second file of a body is refused, because its path was resolved already
    and `resolveVirtualPath` knows only virtual ones (`Resolved`).
* `UILoopProofs`, on `WindowManagerProofs`: `TypeCorrect`, `NoSecondWindow`,
  `OneActiveWindow`, `AlwaysFitting`, `TapsFinish` and `NothingLeftUndrawn`, for
  any scripts, queues and bounds. `WindowManagerProofs` shows of each method of
  `WindowManager.cpp` separately that it takes a desktop that is `Sound` (one
  window per app, one active at most, popups and focus where they belong) and
  `Fits` (bounds as the rotation and keyboard say) to one that is both, and
  which parts of the desktop it leaves alone; the steps of the loop are
  compositions of these. `QueueInv` says which kinds of actions may wait in
  which phase, which is why a lift's chain of callbacks is over in time, and
  `DirtyInv` that a change is marked, or about to be. `NoActionDangles` has no
  hypothesis: windows scroll, and popups may be left over. `LiftInv` says that
  of what runs after a lift one callback at most, openings aside, is that of a
  button under the finger, and finds what it captured; and that the callback of
  a lift elsewhere (see the limits in section 3) comes last. `PopupsOwned` has
  two hypotheses, `PanelOnce` (there are no popups, or none of the panel's) and
  `NoLeftovers` (no script that makes a popup fails), which exclude what the
  limits of section 3 tell; its invariant is `Owned`.
* `UIScriptsProofs`: `TablesApart` (`OwnTableOnly`), `TimersServed`
  (`NoLostFiring`), `HandlesLive` (`HandlesAreLive`) and the action property
  `HeldStay` (`HeldElementsStay`), for any finite set of scripts, any timers,
  handles, callbacks and depth of the stack. None of them is inductive, since a
  call that returns uncovers what was put on the stack long before. `IInv`
  therefore says of each entry what must lie above or below it: above the code
  of an instance that is gone there is an entry that resets the current app
  before that code runs (`Covered`); a script that is set up, deleted or has its
  window replaced has lost its instance, or loses it in a teardown above
  (`Unloaded`); setups and deletions come last for their script, but for its
  callbacks that still run (`Final`); a setup's script is open (`Opening`);
  a body and a cleanup have the right successor (`Followed`). While a touch is
  passed down there is nothing on the stack but its loops and callbacks that
  change no elements, each loop at an element that exists (`Touches`), it goes
  down in one place only (`Descends`), a timer is served alone (`Ticks`), and an
  owed callback has its flag set or its call on the stack (`NoneLost`). Of each
  app it says that the closures stored are those of its instance and the
  callbacks of elements are among them (`Sane`). `HeldStay` rests on the bound
  `Builds` of section 2.
* `DataLemmas`: induction over the naturals, stated for a set instead of a
  predicate (`SetInduction`), since the library's theorems take an operator that
  the provers cannot instantiate; by it `Recursion`, that a function defined
  along `0 .. N` or `1 .. N` satisfies its equations, then `OnlyFollows`,
  `OnlyKeeps` and `FirstIsKept` (what a filter keeps, and its order),
  `Flattening`, `FlattenIsSeq`, `FlattenFirst` and `FlattenThrees` (the elements
  of `FlattenSeq`), `SetToSeqIsInjective`, `MinIsLeast`, `MaxIsLargest` and
  `RemoveAtShifts`.

Only model-checked: liveness (`CallsReturn`, `EventuallyConfined`,
`CloseTakesEffect`, `ChangesAreDrawn`, `LogsReturn`, `BootCompletes`) and the
fairness part of the refinement, which are outside what the prover does; the
modules of littlefs (with `FileData`), `Canvas` and `Commands`, which are
written with recursive operators, and so `TypeOK`, `Mountable`,
`ListsEachOnce` and the refinement of `LittleFs`.

The hypotheses of the theorems about uploads are what the code needs. Of two
tasks that format at once one frees the other's context, a limit listed in
section 3, and TLC finds `OwnFile` violated when `Formatters` has two. A part
whose data hold the boundary ends there for the parser, whatever its client
meant; a path that comes after its file is ignored, and a second file in an
update's body is written into the same partition after the first was set to
boot. `UpdatesAreClosed` has no hypothesis: none of this leaves an update open.

## 5. Not modelled, and the plan

Left out for good: drawing, icons, calibration, the formatting of JSON answers
and of listings, the text of headers and paths, `JsonMerge` (no callers),
vendored code other than littlefs, the scripts as programs. `setupFeature`,
`teardownFeature`, `closePanel` and the teardown of the UI feature have no
callers. Of littlefs: bad blocks and write errors, attributes, growing and
shrinking the file system, the migration from version 1 (not compiled), longer
files in the scenarios of `LittleFs`, running out of space by bytes. Menus, key
layout and scrolling are arithmetic on coordinates. The firmware has no callers
of `unlink` and `rename`; `LittleFs` has them because they are what the rest of
`lfs.c` is there for.

Next, in this order:

1. The operators of `LfsDisk` and `LfsCommit` as recursive functions, so that
   `Mountable` can be proved about.
2. Recovery that is itself cut off by a loss of power, on smaller scenarios.
