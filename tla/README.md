# MyToolbox: a TLA+ verification project

MyToolbox is an Android utility library: Java classes over small JNI layers over
a vendored C library (liblcu).  Most of it is stateless helpers.  What is hard to
get right is the handful of components that move data between threads, so those
were modelled first; the permission flow, a protocol between application, user
and platform, and the conversions, whose arithmetic fails at boundaries, followed.

Paths below are relative to `src/`; `J` is `toolbox/src/main/java/com/threshold`
and `C` is `toolbox/src/main/cpp`.

## Inventory

| Component | Source | State | Operations | Hard behaviour |
|---|---|---|---|---|
| MessageDispatcher | `J/toolbox/MessageDispatcher.java` | class table and tag table under `mLock`, `mQuited`, a HandlerThread's queue | post, register, unregister, clear, quit, isRegistered; handleMessage on the worker | flag read outside the lock; two lock sections per event; weak references cleared at any moment; listeners that call back in |
| AsyncFileWriter, FileWriter | `J/toolbox/AsyncFileWriter.java`, `FileWriter.java` | two closed flags, the worker's queue, a native ring, a buffered stream with an error mark | write, flush, close; the worker's WRITE, FLUSH, CLOSE | writer and worker both remove and send WRITE; close against everything; I/O errors; interrupts; freeing the ring |
| RingBuffer | `J/toolbox/RingBuffer.java`, `C/jni_ring_buffer.c` | a native handle | read, write, peek, discard, clear, close | one producer, one consumer, nobody after close |
| MsgQueueHandler | `J/jni/MsgQueueHandlerJni.java`, `C/jni_msg_queue_handler.c` | context with a shared message buffer, an exit flag, a queue and its thread | init, pushMsg, destroy; callback on the thread | push against destroy; a full queue retried; buffers that grow; callback that refuses |
| AutoCoverBuffer | `J/toolbox/AutoCoverBuffer.java`, `C/jni_auto_cover_buffer.c` | a native handle | write, read, close | overwritten data, locking chosen by the caller |
| Permissions | `J/permissions/*` | what the manifest declares, what is granted, the activity and the screens it has opened | check, request, result of a request, result of the screen for all files, explain, give up | answers that come late, to a recreated activity, or while the settings change; permissions that mean something else on each platform level |
| ToastUtil | `J/toolbox/ToastUtil.java` | one shared toast | show, cancel from any thread | posted against cancelled |
| AssetsUtil | `J/toolbox/AssetsUtil.java` | files and their times, preferences (version, CRC per asset) in memory and on disk, a flag per process | copyAssetFile, copyAssetFolder in five modes | copies that fail or are cut off half way; updates; preferences saved late; the user's own changes |
| NativeLibHelper | `J/toolbox/NativeLibHelper.java` | libraries and timestamps in a cache directory, ABI per library in memory, locks | getNativeLibPath | several processes, failing and interrupted file operations, updates |
| Logging, LLog | `J/toolbox/log/*`, `J/toolbox/log/llog/*` | the implementation in force, the level, LLog's switch, a default tag per thread, a cache of tags, the disk printer's writer | log, object, JSON through SLog, an ILog or LLog; setup, level, tag | many producers over one ring; a level read twice; tags looked up in call stacks, cached and trimmed while classes start |
| Resample, conversions | `J/toolbox/`: `Resample`, `ByteUtil`, `BitConverter`, `BufferWrapper`, `HexUtil`, `PcmWavUtil`; `app/src/main/cpp/native-resample.cpp` | buffers used again and again, the demo's native buffer | three resamplings, the conversions between widths, channels, byte orders and text; the demo's init, resample, deinit | streams cut into chunks; what an earlier chunk left behind; rates that do not divide; arrays that are too short; signs and byte orders |
| LocalSocketServer | `C/local_socket_server.c` | two descriptors, an exit flag | start, stop | built as a library of its own, which nothing links or calls |
| the rest | see `components` in PROJECT.json | none worth modelling | I/O wrappers, view code, glue | none |

How they interact: SimpleDiskPrinter (logging) writes through AsyncFileWriter,
which owns a RingBuffer and a FileWriter.  Everything else stands alone and is
called by the application from any thread; MessageDispatcher and MsgQueueHandler
call the application back on their own thread.

### What makes each correct

* Dispatcher: the two tables agree; a registration is whole or gone; an event
  reaches the registrations in force, once, and none that had ended before it was
  posted; quit ends the thread and forgets the listeners.
* Writer: the file is a prefix of the accepted bytes, whatever fails; without a
  failure it is, after close, all that was accepted when close began; no byte waits
  unnoticed; write and close come to an end; the ring is not used once freed.
* MsgQueueHandler: what pushMsg reports is what happened; messages are delivered
  in order and unmixed; nothing is touched after destroy.
* NativeLibHelper: a path it returns names the whole library of the APK installed
  now, and the library stays there.
* AssetsUtil: a file under its final name is complete; success means what the mode
  promises; a cached CRC is that of the installed APK's asset.
* Permissions: what is told is true, an instance is told one outcome, what is
  granted is told, a denial is something the user did, and the questions end.
* Logging: a line carries the tag or the position of its caller; a level set by
  another thread is respected; lines reach the file whole.
* Conversions: cutting a stream into chunks does not change what it becomes; a
  short output gets the beginning of it; what is written is read back.
* Toast: what is shown is the last one asked for.

The hazards these properties are for are listed in PROJECT.json at their lines.

## Modules

| Module | Models | Kind |
|---|---|---|
| `MessageDispatcher` | the dispatcher, its callers, its worker and the collector | state machine |
| `MessageDispatcherProofs` | its invariants | TLAPS proofs |
| `FifoPipe` | what a queue drained by a worker thread promises | abstract specification |
| `AsyncFileWriter` | writer, worker, FileWriter and buffered stream | state machine, refines `FifoPipe` |
| `AsyncFileWriterProofs` | no byte and no wakeup is lost, close drains; it implements `FifoPipe` | TLAPS proofs |
| `MsgQueueHandler` | pushers, closer and worker over the native message queue | state machine, refines `FifoPipe` |
| `MsgQueueHandlerProofs` | messages whole, results true, memory safe; it implements `FifoPipe` | TLAPS proofs |
| `NativeLibHelper` | threads of several processes, the cache directory, updates | state machine |
| `NativeLibHelperProofs` | its invariants | TLAPS proofs |
| `AssetsUtil` | threads of one process, the files, the preferences, updates | state machine |
| `AssetsUtilProofs` | what files, successes and cached CRCs are | TLAPS proofs |
| `Permissions` | an activity, its controller and manager, the user and the platform | state machine |
| `PermissionsProofs` | its invariants and action properties | TLAPS proofs |
| `Logging` | threads that log, the loggers, the printers, what reconfigures them | state machine |
| `LoggingProofs` | whole lines, levels and tags | TLAPS proofs |
| `Conversions` | an application that converts a stream chunk by chunk | pure operators, driven by a small state machine |
| `ConversionsProofs` | numbers read back, streams cut into chunks | TLAPS proofs |
| `MC...` | small instances, one module for each of the above | model checking |

### MessageDispatcher

A list of `WeakEventListener` is a set of entries `[tag, ref, reg, pos]`: `reg`
numbers the successful registrations, `pos` is the position in the `events`
argument, so two entries of one call for the same class stay apart, as they do in
the list.  An event is its class.  Each thread has a `pc` that says at which step
of which call it is and an `arg` with the call's arguments; the worker has a
second one, `wpc`, for the event it is handling, and may be in an API call itself
while it is in a callback.  The split into steps is the code's: one action per
test of `mQuited` made without the lock, per message sent, per locked section.
`register` holds the lock across several steps (`mLock`), because the collector
runs between the iterations of its sweep.  The iteration order of the maps is
left open.

`nextReg` and `current` are history: the number of the next registration and,
per tag, of the one in force; `PostSend` stores both sides of that in the message
so that `NoStaleDelivery` and `NoMissedListener` can speak of the time of posting.

The message queue is the platform's: it appends, refuses messages once the looper
was told to quit, and the looper ends when the messages that were due are gone
(`quitSafely`; the build's minimum SDK makes the other branch dead code).  All
messages are sent without delay, so all of them are due.

### AsyncFileWriter

A byte is its number in the order the ring accepted them, so a sequence of bytes
shows at once what was lost, doubled or overtaken.  `write`, `scheduleWrite` and
`close` are split at every read and write of shared state (`mClosed`,
`mWorkerClosed`, the ring, the queue); the worker runs the same `scheduleWrite`
and `close` steps through its own `pc`.  `FileWriter` sits on a
`BufferedOutputStream` of the chunk's size; `Emit` is what the platform's class
does with a chunk.  A file operation that reaches the system may fail
(`FailedOperation`): it marks the FileWriter and closes the stream, which tries
to flush its buffer once more, with either outcome.  A system write takes all its
bytes or none: after one that wrote part of the buffer and then failed, that flush
would write the part a second time, and this is left out.

`CloseRing` frees the ring with what is in it.  A write that passed the test of
`mClosed` may have put bytes there after `handleClose` drained it: `NothingLost`
names them as its exception.

A use of the ring after `CloseRing` is a use of a null handle or of freed memory.
The model takes it to end the process (`pc` becomes "crashed" for every thread);
it claims nothing about such a run beyond that point, and `CloseStopsWorker` says so.

### MsgQueueHandler

`pushMsg` is split where it reads or writes what others touch: the handle in Java,
`flag_exit`, the capacity, the copy of the bytes, the header fields, each attempt
to push.  A message is the number of the call that wrote its header (`what`, `arg1`,
`arg2`) and of the call that wrote its bytes, with its length: a mix shows as two
different numbers.  Replacing the buffer (`RECREATE_MSG`) sets the capacity even
when `malloc` fails.  `destroy` is one action per call it makes.

The native queue belongs to liblcu, which comes as headers and binaries; it is
modelled from how this code uses it (a bounded queue, a semaphore, an exit flag, a
destroy that wakes and joins the thread and frees the queue), and its actions are
marked external.  The application's lock is part of the model because the helper's
comment asks for it: pushers always take it; `CloseLocks` says whether a call of
close does, does not, or may choose.
A use of freed or missing memory ends the process, as in the writer.

`cache` is the capacity of the Java array in which the worker hands a message's
bytes to the listener (`pri_recreate_jobj_cache`): it grows with the messages and
its allocation may fail, after which the worker copies into nothing (`NullCache`).

### NativeLibHelper

A library file is the APK version its bytes come from and whether all of them are
there; a missing and an empty file are treated alike by the code and here.  Each
call is a thread's `pc`, split at every access to the directory that another
thread, a crash or a failure can come between: the two locks, the check of the
cached library, the search for an ABI, the second check, the extraction, the move
(or the copy that replaces it before Android O, in two steps), and the timestamp,
which is truncated first and written then.  Both locks follow from `pc`.  A failing
file operation takes the code's way out; a delete that fails is only logged, so
the file may stay.  `Crash` ends the threads of one process and its memory of
ABIs; `Update` installs the next APK, ends every process and may or may not empty
the directory (`getCacheDir` falls back to one that the platform keeps).

The modification time of APK `v` is `2v`; the clock, used when it cannot be read,
gives `2v + 1`: later than this APK, earlier than the next.  A timestamp is such a
number, absent, or torn.  `getNativeLibPath` returns before all this when the
installer has extracted the library.

### AssetsUtil

A file is two blocks, each from some content or not written yet, and a time.  A
stream follows its file when that is renamed and loses it when it is deleted, so
the model shows what two writers of one name do to each other.  A thread's `pc`
goes through the calls the code makes on the file system, each of which may fail
and take the code's way out; `stream` is the file it writes.  A CRC stands for the
content it is computed from (no collisions).  Times of APK `v` are `3v` (its
update, which the copy is stamped with), `3v + 1` (within the tolerance of the
legacy offset) and `3v + 2` (any later moment before the next update).

`prefs` are the preferences as the process sees them, `saved` as they are on disk:
`apply()` changes the first, `SavePrefs` the second at some later time, and a new
process starts from `saved`.  `ensureApkInfoSynced` is split between its test of
the flag, its reading, the setting of the flag and the edit, because threads meet
there.  `Update` installs the next APK and ends the process; `UserWrites` lets the
application write over a copy between calls: by its comments in the code the mode
`OVERRIDE_IF_MODIFIED` keeps that, by its documentation it does not (see below).  A folder is flat: a nested one runs the same code
on its files.

### Permissions

All handlers run on the main thread, so a handler is one step, and the handlers
that call each other (`resolveActivityResult` -> `checkAndRequestPermissions` ->
`requestPermissions`) are functions of the activity they run on, composed as in
the code.  The user and the platform interleave with them: they close screens and
dialogs with any answer, change the settings, leave, start and recreate the
activity.  `owed` is the answer that is about to be delivered; a new instance of a
recreated activity gets it, and asks by itself in `onCreate`.

The platform is modelled from what the code asks of it: `CheckSelf`, `Rationale`,
`requestPermissions`, which answers a second request at once while one is open or its
answer is due.  When a refusal is for good is the platform's: from Android 11 on the
second one is, and a dialog may be closed without an answer; before, a permission may
be refused again and again until the user ticks "don't ask again" (`CloseRequest`).
READ and WRITE_EXTERNAL_STORAGE are answered apart, though the dialog shows their
group: that a group is granted together is nothing the platform promises.
Platform levels are four (`sdk`: below 23, 23 to 29, 30 to 32, 33 and above):
those between which the code or the platform branches.

### Logging

A line is the number of its call and `LineLen` units long; texts are left out.
What a call does is split at every read of shared state: the cache of tags (asked,
filled, trimmed), the level (`isPrintable` reads it twice), the printer's flag, the
ring.  A call stack is the logger's own frames, as many as the front end and the
helper in use put there (`Depth`), and then the caller's; the frame that the logger
takes for its caller (`Offset`) is computed as in the code, so a wrong count shows
as a wrong tag.  `starting` says which thread runs the initialiser of which class:
reading its `TAG` then gives null to that thread, and makes others wait.

The writer under `SimpleDiskPrinter` is the part of AsyncFileWriter that several
threads meet in: the ring is measured and filled in two steps, and a write shorter
than measured closes the writer.  So does an interrupt of a thread that waits for
room (`Interrupted`): it keeps its line and its interrupt flag, and the writer is
closed for every other thread, though no file operation failed.  AsyncFileWriter
itself, with its worker, is the module above.

### Conversions

`job` picks one conversion with its arguments; `ReadChunk`, `Convert` or `Refuse`,
and `Take` are what an application does with it in a loop, with an input and an
output `BufferWrapper` that it uses again.  A number is the sequence of its bytes, so
that a shift or a mask is an order of bytes, and reading what another function wrote
reverses it where their orders differ (`Crossed`).  The linear upsampling is on
integers; the code works the line out in `float`, which `ConversionAssumption` keeps
to the cases where rounding gives the exact line all the same: samples of 8 and 16
bits, at ratios that are a power of two (no step and no product is rounded) or odd
(no value lies half way; the error is far below the distance to it).  INT32 samples
do not fit a float's 24 bits, and at a ratio like 6 a tie may fall either way: they
are left out.  What the stream should become (`Streamed`, `Lines`, `ShortAsFloat`) is
defined by itself, by the index of a frame, on samples without sign for the
interpolation and by doubling for the float.

`resample` is the C++ function as its comment describes it.  `native` is the demo's
JNI call of it with the native buffer that `init` allocates and `deinit` frees: the
call passes its two buffers the wrong way round, so that it writes into the copy
of the input and returns the buffer as it was.

## Runs

| Run | Bounds | What it shows |
|---|---|---|
| `dispatcher` | 2 callers, 2 tags, 2 listeners, 2 classes, argument lists that are empty, hold null or repeat a class, 3 calls, fair | types, agreement of the tables, whole registrations, who is called for an event; quit ends the worker and forgets listeners |
| `writer` | 2 threads, of which 1 writes and both flush and close, ring 3, chunk 2, writes of 1 and 4 bytes, 3 calls, 1 failure or interrupt, fair | nothing lost but what is put in after the drain, no lost wakeup, close drains, a prefix of the accepted bytes (refinement), writes return, the worker ends |
| `writer_close_race` | 1 thread, ring 4, chunk 2, writes of 1 and 3, 3 calls, no failure | finding 1 below |
| `queue` | 2 threads and the listener push (locked), the threads close (locked or not), lengths -1, 0, 2, initial capacities 1, a queue of 3, 2 retries, 3 calls, 1 failure, fair | messages whole, in order, results true, a refusal is final, memory and references valid, what is accepted is delivered, calls return |
| `queue_close_race` | 1 thread pushes, 1 closes without the lock, 2 calls, no failure | finding 2 |
| `nativelib_current` | 2 processes of 1 thread, 2 libraries, 2 ABIs, 2 versions, 4 calls, 1 failure, 1 crash, moves are copies | types, a returned path is whole and current, and stays so for a library that shares its ABI with no other |
| `nativelib_shared` | 2 threads of 1 process, 2 libraries, 3 calls, no failure | finding 3 |
| `assets_modes` | 2 threads with an asset each, one also as a folder, 5 modes, 3 calls or writes of the user, 1 failure, 1 end of the process, 2 versions | files whole, success true to its mode, CRCs current |
| `assets_cleanup` | 1 thread, 1 asset, 2 calls, 1 failure | finding 4 |
| `permissions` | 4 platform levels, every manifest over 5 kinds of permission, 2 starts, 1 recreation, 1 visit to the settings, fair | types, one outcome, grants told and true, denials true, the questions end |
| `logging` | 2 threads, 4 classes (nested, annotated, with a field, inherited, without line numbers), 6 kinds of call, 3 loggers, 3 levels, lines of 2 units over a ring of 1, 2 calls, 1 change, 1 trimming, 1 failure, any interrupts, threads symmetric | the caller's tag, the level in force, whole lines |
| `conversions` | 16 bytes, chunks of 2, 4, 6, 8 and 9, an input of 9 and outputs of 5 and 32 bytes, 118 jobs (among them every pair of functions that write and read numbers of one width) | chunks convert as the stream does, what is cut off is a suffix |

Why the bounds are enough.  The dispatcher's properties relate two registrations
of one tag, or two classes of one registration, with one event in flight: two of
each, and three calls (register, post, then unregister or register, one of them
made by a listener or meanwhile by the other caller) reach each of these relations,
and clear or quit in place of the last; more of the same adds no new one.  The
theorems below hold for every number.  In the writer a ring of 3 with chunks of
2 makes a write of 4 find the ring full, go on in a second round and need two
chunks, and leaves a last odd byte in the stream's buffer; the second thread's
close or flush and the failure may fall at each of these steps.  In the message
queue the initial capacities are below the longest message, so that buffer and
array are replaced, and the queue holds little more than one message, so that a
push is refused, retried and given up; three calls are two pushes and a close, or
pushes by both threads and by the listener.  For the libraries, four calls with
an update between them are an extraction before it and one after it in each
process; with it `l1` gets an ABI of its own, while both libraries keep one in
common, so that the timestamp of one vouches for the other.  For the assets, three
calls are a copy before the update, something of the user's, and a copy after it,
or two threads that detect the update together; the end of the process may fall at
every step, and one asset is gone from the second APK.  For the permissions, a
second start meets what the first one left (a refusal, a change in the settings),
and one recreation meets every open screen; refusals, dismissals and confirmations
need no bound, as they only lead back to states seen before.  For the logging,
two lines of two units over a ring of one split every write, so two threads meet
inside; the change, the trimming and the failure fall at every step of both calls.
For the conversions the input is several chunks of every size, of which 9 is no
multiple of a frame, and its bytes have the values at which a sign or a carry is
lost; the short output cuts off inside a frame.

Calls are counted in `calls` (`res` for the queue), failures in `faults`, and the
other bounds named in the table have a counter of their own; nothing else is
bounded.

Deadlock is not checked: the systems stop when the worker has quit, or the process
has died, and the callers have used their calls, or the stream has been read.

### Fairness

A thread that is inside a call and the worker keep taking steps (weak fairness of
each): the platform schedules them and none of the steps waits for anything but a
lock that is released without waiting, except `write` on a full ring, which polls.
Nobody is obliged to call, no listener to be collected, nothing to fail.  The
listener's `onEvent` is assumed to return.

For the message queue the same holds of the listener; nothing is asked of the
application's lock: the calls that can overtake a thread that waits for it are
bounded, and a call that holds it ends.  Nobody is obliged to call close; a push on
a full queue gives up after its retries.

For the permissions the main thread delivers the answer that is due
(`WF_vars(Delivers)`), and the user answers what is open (`WF_vars(UserAnswers)`): no
particular answer is assumed.  He may keep confirming the explanation and closing or
refusing what follows: `FlowEnds` names that as the one way to be asked for ever.  Logging and conversions have no liveness property.

### Conditions the properties carry

Each names a real behaviour of the code which no document of the repository
excludes.  Without its condition TLC finds the property violated.

* `QuitStopsWorker`: a `clear()` that passed its test of `mQuited` and empties the
  queue after `quit` has set the flag can remove the QUIT message, and as every
  later call then returns at once the worker runs for ever.
* `NothingLost`: once the ring is freed, the last bytes of a write that ran while the
  writer was closed are gone, freed with it; what was accepted before close began is not.
* `QuitForgetsListeners`: a `register()` that passed its test before `quit` set the
  flag and takes the lock after `quit` cleared the tables adds a registration which
  `unregister` refuses to remove.
* `MemorySafe` (`raced`): while one thread closes, another is inside a call
  (finding 2), or an allocation fails.
* `CallsReturn` (`JoinsWaiter`): close under the pushers' lock joins the worker,
  whose listener waits for that lock to push.
* `CloseStopsWorker`, `WriteReturns` and `CallsReturn` (`Crashed`): the process has
  ended of a use of freed memory.
* `SuccessIsCurrent`: `OVERRIDE_IF_MODIFIED` keeps a newer file of the user, as
  the comments in the code say and its documentation denies.
* `GrantedIsTrue`: READ_EXTERNAL_STORAGE may be refused below Android 11 where
  WRITE_EXTERNAL_STORAGE is granted (`TakenWithWrite`).
* `FlowEnds`: the user confirms for ever that he wants to be asked, and below Android 11
  refuses each time, or from it on closes each dialog without an answer.
* `DenialIsTrue`: the user closes a dialog without an answer, which the platform
  does not count as a refusal but the code does (`interrupted`); or the activity is
  recreated while an answer is due, asks again, and is refused by the platform at
  once; or the manifest declares MANAGE_EXTERNAL_STORAGE without
  WRITE_EXTERNAL_STORAGE, which below Android 11 can be neither granted nor asked
  for (`NeverAsked`).
* `OneOutcome` (`interrupted`): the answer to the screen that the old instance
  opened comes to the new one, which has been told already.
* `GrantsAreTold`: permissions were granted in the settings while the activity ran,
  which reports to nobody (`changed`); or the return from the screen for all files
  finds nothing left to ask for, and ignores that (`FoundOnReturn`).
* `CallerTagged`: the front end in use puts another number of frames on the stack
  than the logger skips (see below), or a class logs from its initialiser before its
  `TAG` is set, and the cache keeps that (`early`).
* `LevelRespected`: logging is turned off between the two reads of the level, and
  the line is compared with OFF; and with the tracer a line is printed only if
  DEBUG would be.
* `LinesWhole` (`overlapped`): two threads are in the disk printer's writer at once,
  which it is not made for.
* `ChunksLikeStream`: a chunk is no whole number of frames, or ends between two
  frames that are kept (each call begins anew); the output was too short, or a call
  threw (`lost`); and of the demo's native call only the number of bytes is right.

### Findings

1. `RingNotUsedAfterClose`, the rule `RingBuffer.close` states in its comment, is
violated by one thread that writes and then closes, with no error: the worker has
passed the test of `mWorkerClosed` in its own `scheduleWrite` when `close` sets
the flag and sends CLOSE; its WRITE then lies behind CLOSE, `quitSafely` keeps it,
and `handleWrite` asks the freed ring for its length.  Other ways to the same
state, which `writer` passes through: two threads that close at once send
CLOSE twice; an I/O error on the worker closes the ring under a running `write`;
an interrupted `write` goes on after it has closed the writer.

2. `NoMemoryError` in `queue_close_race`: `pushMsg` tests `flag_exit` once, and its
log line says that nobody can push while the handler is destroyed; a push that has
passed the test meets the freed buffer or the freed queue.  `MemorySafe` in `queue`
shows that it cannot as long as no other thread is inside a call while one closes,
also when the listener pushes.

3. `HeldPathsWhole` in `nativelib_shared`: the locks are per library, the timestamp
file is shared by all libraries of an ABI and is truncated before it is written.  A
call for another library that reads it in between takes its own good file for
stale and deletes it, though its path has been handed out.  `HeldAloneWhole` in
`nativelib_current` shows that a library which shares its ABI with no other stays
in place, across processes, crashes and updates; it excludes failures, because a
validation that cannot read the APK deletes a good file, which the code does on
purpose.

4. `CleansIncompleteOnly` in `assets_cleanup`: the handler that says it cleans up an
incomplete file deletes the destination, which is not what was being written.  A
failing `stat`, an asset that cannot be opened or a full disk is enough to lose a
complete file of an earlier copy.

Seen while modelling, with no run of their own.

Writer and ring:

* `handleClose` says that it writes the remaining data (`AsyncFileWriter.java`, 213), and
  drains the ring, flushes, closes the file and frees the ring (214-227), in this order.
  A write that tested `mClosed` (67) before `close` set it may put bytes in after the
  drain: they are freed with the ring, nothing has failed, and the write returns as
  usual.  `writer` passes through this.
* If the file cannot be opened, the worker's constructor calls `close()` of a writer
  that has no worker yet (`AsyncFileWriter.java`, 147): a NullPointerException, and
  the thread and the ring stay.
* `RingBuffer.peek(byte[])` calls `read`, so it consumes (`RingBuffer.java`, 143),
  against its comment (131).

Message queue and sockets:

* When `malloc` fails in `RECREATE_MSG`, `pushMsg` copies into the missing buffer
  before it tests for it (`jni_msg_queue_handler.c`, 214 and 220); when the Java array
  cannot be replaced, the worker copies into that (342-348, 379-382).  The actions
  `NullBuffer` and `NullCache` are these steps, and `queue` passes through them.
* `client_fd` is never set before stop tests it (`local_socket_server.c`, 105-115 and 44).

Files:

* Two threads that copy to one destination share the name of the temporary file,
  and `DestWhole` is violated when the threads of the model have an asset in common
  (`Copies`); `assets_modes` gives each its own.
* `OVERRIDE_IF_MODIFIED` is documented to overwrite by force a file whose size or time is
  inconsistent with the APK's update time (`AssetsUtil.java`, 37); the code keeps one
  that is newer, "assume user-modified" (263-282), whatever it holds.
  `SuccessIsCurrent` takes the code's side.
* A folder is emptied only in the process that first notices the update, and then
  by every call: files the new APK lacks may stay, and a second folder copied to
  the same place removes the first.

Permissions:

* The callback is documented as called when all permissions have been granted
  (`AbstractPermissionActivity.java`, 60), and `isAllPermissionGranted` likewise
  (`PermissionController.java`, 100).  Below Android 11 `checkPermissions` takes
  READ_EXTERNAL_STORAGE off the denied ones as soon as WRITE_EXTERNAL_STORAGE is granted
  (`PermissionManager.java`, 139-143), so both say so with READ refused.
  `GrantedIsTrue` shows that this is the only permission the callback can be wrong about.
* Below Android 11 nothing but the user ends the questions: each refusal that is not for
  good brings the explanation again (`PermissionManager.java`, 190).
* Answers are not looked at: from Android 11 on a dialog that is closed counts as a
  permanent denial, and the activity ends although the user refused nothing
  (`PermissionManager.java`, 182-197, `AbstractPermissionActivity.java`, 63).
* What `checkAndRequestPermissions` returns is ignored after the screen for all files
  and after the explanation (169, 207): nobody is told that all is granted.
* Cancelling the explanation tells nobody; the activity then waits for nothing.
* A manifest whose only missing permission is POST_NOTIFICATIONS asks for nothing
  below API 33.

Logging:

* `SLog.obj` and `SLog.json` have one helper frame less than `SLog.log`, so with the
  default logger they take the tag of the caller's caller; so does an `ILog` made by
  `LoggerFactory.create(DEFAULT)` with a method offset of 0, and a tracer set up with a
  printer alone names SLog's own position.
* `StackTraceLogger.isPrintable` asks for DEBUG whatever the line's level is (131-134).
* `SLog.setDefaultTag` promises a tag "for all output log" (`SLog.java`, 49); it is kept
  per thread.
* `SimpleDiskPrinter` lets every thread write to a ring for one producer
  (`RingBuffer.java`, 10-13) and format dates with one `SimpleDateFormat` (25).
* `internalPrintJson` and `internalPrintObject` swap the tag and the file name
  (`StackTraceLogger.java`, 142-147 and 198-201).

Conversions:

* The demo passes the native function's two buffers the wrong way round
  (`native-resample.cpp`, 174, against the signature at 112): it returns memory that
  nobody has written, and for a higher rate or 32 bits writes behind the copy of the
  input.  It does not test that `init` was called, and does not use the size it
  computes (172).
* `ByteUtil.twoByte2short` (195-202) throws whatever it is given.
* `BitConverter` reads doubles in the other byte order than it writes them, and
  `toUInt16` shorts in the other order than `toBytes(short)`.
* Down-sampling and stereo-to-mono read behind `bufferUsed` when it is no multiple of
  a frame; the phase is lost between chunks; the linear upsampling drops each
  chunk's last point; `resampleForDownRate` with a higher rate repeats the first
  point until the output is full and throws.

## Mutants

Every property of a passing run has a mutant: an operator whose name ends in
`_Mutant` or `_Mutant2`, placed before the definition it is a plausible bug of.  PROJECT.json
pairs them.  Nothing else refers to them.

## Proofs

`MessageDispatcherProofs` proves, for any threads, tags, listeners, classes,
superclass relation, argument lists and number of calls that satisfy
`DispatcherAssumption`:

* `TypeCorrect`: `Spec => []TypeOK`, one lemma per group of actions;
* `Invariance`: `Spec => []IInv`, and from it
* `TablesAgree` (`LiveEntriesTagged`), `RegistrationsWhole` (`AllOrNothing`) and
  `NoDeliveryToEndedRegistration` (`NoStaleDelivery`);
* `NobodyMissed` (`NoMissedListener`) and `NobodyTwice` (`NoDoubleDelivery`).

None of these is inductive alone.  `IInv`, for the first three, is the conjunction of

* `TypeOK`, with for every step of a call the shape of its argument;
* `LiveEntriesTagged`, and `Whole`, which is `AllOrNothing` with the listener that
  the entries of a registration share: because they share it, the collector takes
  all of them or none, which is what makes the sweep safe;
* the stamps: a message, queued or being handled, carries the number of the next
  registration at the time it was posted; every registration in force is among
  those the message recorded or not older than it; what the worker has collected
  is so too, as long as it lives; between events nothing is collected.  An entry
  that lives belongs to the registration in force (`LiveEntriesTagged`), so what
  is collected is fresh, and `NoStaleDelivery` follows.

With those, each action is checked by itself: the table-changing actions
(`ClearTables`, `SweepClass`, `SweepTag`, `RegisterAdd`, `UnregisterLocked`) one
by one, all the others through the lemmas that say they leave the tables alone
and revive no listener.

The last two are about the two snapshots that the worker takes under the lock, one
for the event's own class and one for its superclasses, between which the tables
change.  `Snapshot` adds to `IInv` the ages: registrations are numbered in the order
they enter, so what a message found in force is older than the message
(`QueueOlder`, `CurOlder`), what is in the tables is older than the next number
(`TableOlder`), and an entry is registered for one class (`OneClass`).  What the
first snapshot took therefore stands for no superclass, neither then nor when the
second is taken (`ExactApart`), so nobody is called twice; and it holds all entries
of its class that the message found in force (`ExactComplete`), so nobody is missed.

`NativeLibHelperProofs` proves, for any threads, processes, libraries, ABIs,
versions, failures and crashes that satisfy `NativeLibAssumption`,

* `TypeCorrect`: `Spec => []TypeOK`, from lemmas about a step that moves one thread,
  changes one file, or counts a fault;
* `ReturnedPathCurrent`: `Spec => []ReturnsCurrent`;
* `HeldAloneStays`: `Spec => []HeldAloneWhole`.

`ReturnsCurrent` speaks of the last step of a call.  It is made inductive by
`Exclusive` (two calls for one library are never both past the file lock, so
nobody else writes or deletes the file a call relies on), `CachedBest` and
`TargetBest` (an ABI remembered or chosen is the best of the APK installed, since
an update ends the processes that remember) and `Placed` (from the move, or the
validation, to the return, the file is whole and current).  The assumption that
every set of ABIs has a first one is what an array of ABIs gives.

`HeldAloneWhole` speaks of a library after its path was handed out, when no lock
protects it.  `Undisturbed` says why nobody touches it while nothing fails: every
call has read the date of the APK installed (`DatesRead`), what is returned and what
is held carries a timestamp not before it (`ReturnsFresh`, `HeldFresh`), so a call
that meets the file finds it valid and is never at a step that replaces or stamps it
(`HeldUntouched`).  Only a call for this library writes that timestamp, because its
ABI serves no other (`Alone`); without that the argument fails at this very place,
which is finding 3.

`AssetsUtilProofs` proves, for any threads, assets, modes, versions, failures and
ends of the process that satisfy `AssetsAssumption`,

* `TypeCorrect`: `Spec => []TypeOK`;
* `CrcsCurrent`: `Spec => []CachedCrcsCurrent`;
* and, if no two threads copy to one destination (`Apart`), `DestinationWhole`
  (`DestWhole`) and `SuccessTrue` (`SuccessIsCurrent`).

`CachedCrcsCurrent` speaks of a process that has found no
update; that it is an invariant needs `Current` of the preferences in memory and of
those on disk (they are of this APK or an older one, and under this APK's version
hold only its CRCs, so that it does not matter which were saved when the process
ended), and `Answered` (a thread about to say that nothing changed has read this
APK's version, which nobody replaces before the next update).  The other threads'
edits are harmless for the same reason: an edit writes this version with no CRCs,
and a CRC is computed from an asset of this APK.

The types need to know where a thread may be (`Located`: the call it is in and what
it goes on with) and that a stream is of a file that exists, and is open only while
there is something to write (`FilesTyped`).

`FInv` is about the files.  `OwnFiles` follows a copy through its steps: what the
temporary file holds while it is written, when it is complete, and what the
destination holds once it was renamed; `Good` says of every destination that it is
whole, and that one whose time lies within this APK's is of this APK or the user's;
`Compares`, that a CRC that is compared with is this APK's.  A time alone vouches for
a file, so `Good` is what the modes that look at the time rest on, and it survives an
update because the times of the next APK are later.  `Apart` is a hypothesis about
the constants that `assets_modes` satisfies; without it the properties are false, as
the file the threads share is the temporary one (see below).

`PermissionsProofs` proves, for any permissions, manifests, platform levels and
bounds that satisfy `PermissionAssumption`,

* `TypeCorrect` (`TypeOK`) and `GrantedTrue` (`GrantedIsTrue`): the inductive invariant
  is `TypeOK` with `Access`, which says that a request is open only where storage
  needs nothing any more, and a screen only where storage needs it.  Then each of
  the three ways to the callback finds every permission usable, or is READ below
  Android 11 next to a granted WRITE.
* `OutcomeOnce` (`OneOutcome`), from `Alone`: without an interruption an instance
  waits for at most one thing, and for nothing once it has been told.
* `DenialTrue` (`DenialIsTrue`), from `Asked`: the open request covers everything that
  is missing and may be asked for, so what is missing when the answer is delivered
  the user has refused, now or earlier.
* `GrantsTold` (`GrantsAreTold`), from `Told`: an activity that has nothing open but
  its dialog has told that all is granted, has found so on the return from the screen
  for all files, or still misses a permission.  Each handler ends in one of the three
  (`Settled`), because each way through it either opens something, or reports what
  `checkPermissions` found.

The handlers are functions, so each has a lemma of its own for each part of the
invariant, and the actions cite them.

`AsyncFileWriterProofs` proves, for any users, writers, sizes of ring, chunk and
writes and any number of calls and failures that satisfy `WriterAssumption`,

* `TypeCorrect`: `Spec => []TypeOK`;
* `NoByteLost`: `Spec => []NothingLost`, also after the ring is freed, when only bytes
  accepted after close began may be gone;
* `WakeupKept` (`NoLostWakeup`) and `DrainedOnClose` (`CloseDrains`);
* `Refinement`: `Spec => WritesPrefix`, that the writer implements `FifoPipe`
  whatever fails: every step appends accepted bytes, appends to the file the next
  of them, ends the worker, or changes none of the three.

`NoByteLost` and the refinement rest on `Stream`: file, buffer, chunk and ring hold the
accepted bytes one after the other (`Run`), all of them until the ring is freed, as
long as the file is open or nothing has failed, and the file holds the first of them
always.  That is inductive with `Placed` (the worker
holds a chunk only between reading and writing it, and nobody takes from the ring
what it measured), `Writing` (a write never asks the ring to take more than it has
left) and `Orderly` (until something fails the file is open as long as the ring
is, but for the step between the two closes, so no chunk is rejected).  Sequences
are split and put together by the lemmas on `Run`, once each.

The other two, and `NoByteLost` for the time after the ring is freed, rest on
`Watchful`.  `Closing` gives the order of the flags: `mClosed`
before `mWorkerClosed`, with a closer between them, and that before anything of the
worker ends.  `Jobs` ties the step the worker is at to the message it handles.
`Fetched` is `NoLostWakeup`: bytes in an open writer's ring have a WRITE in the queue,
or a thread on its way to send one or to close, or the worker about to look again; the
hard step is `removeMessages`, which takes the WRITEs that others have sent, and is
made only by who sends one after it.  `Drains` counts what close promised: after the
drain it is in file and buffer, after the flush in the file, where it stays when the
ring is gone and the worker has ended.

`removeMessages` is a recursive function (`WithoutWrites`), and what it keeps for
every queue is proved by induction (`Keeps`).  The library's induction takes a
predicate as its parameter, which the provers cannot instantiate; `InductiveSet` is
the same principle with a set in the predicate's place, derived from the theorem
about the least element of a well-founded order.

`LoggingProofs` proves, for any threads, classes, stacks, loggers, thresholds, sizes
and numbers of calls, changes and failures that satisfy `LoggingAssumption`,

* `LevelKept` (`LevelRespected`), from `Levels`.  A call keeps the lowest and the
  highest bar there was during it (`lo`, `hi`); every change of the configuration
  widens them (`Spanned`).  What goes on to be printed has passed one of the bars
  (`Passed`); what all of them allow (`Wanted`) reaches the file, unless the writer
  has failed.  The two reads of the level both lie in the span, which is why the
  property holds between them and the exception is OFF alone.
* `WholeKept` (`LinesWhole`), from `Whole`: while no two threads were in the writer at
  once, at most one is; what it still has to write fills the ring up to a whole line
  (`Filed`), and lines change only there (`Boundaries`).  The logging to disk ends only by a failure of the writer or the
  interrupt of a thread that waits in it.  The ring is all that was written, so this is arithmetic of remainders, kept in lemmas of their own.
* `TagsKept` (`CallerTagged`), from `Tags`.  While no class has logged before its tag
  was set, the cache holds for a class nothing or its own tag, whatever is trimmed
  meanwhile (`CacheTrue`).  A search for a tag has passed only callers without one
  (`Sought`), and begins at the caller where the offset is right (`Straight`): that
  is the arithmetic of frames, for every logger and front end.

All three rest on `TypesKept`: a call is well formed at every step, and the steps that
work on one call leave the others alone.

`MsgQueueHandlerProofs` proves, for any threads, lengths, capacities, retries, numbers
of calls and failures that satisfy `QueueAssumption`, and whoever races with close,

* `MessagesWhole` (`Unmixed`), from `Assembly`: the thread that assembles holds the
  application's lock (`Locked`), so the shared buffer holds what that thread has put
  there, or has been taken away by destroy, and then nothing is queued from it.  That
  is also where the second half of `MemorySafe` comes from: the capacity that was
  measured is that of the buffer, unless it is gone.
* `ResultsTrue` (`ReportsTrue`), from `Calls` and `Recorded`: every call under way is
  pending under a number of its own, and the accepted messages carry the numbers of
  the calls that returned SUCCESS, each once; acceptance and result are one step.
* `Refinement` (`DeliversInOrder`): that the queue implements `FifoPipe`.  `Flow` says
  that what was delivered, what the worker has in hand and what is queued are the
  accepted messages in order until `flag_exit` is set; `Exiting`, that the flag is set
  before the queue is freed and by every refusal, after which nothing is delivered.

And, where the listener does not close its own queue (`Worker \notin Closers`; if it
does, the thread joins itself and the order below is lost),

* `CallsThroughRefs` (`RefsHeld`), from `Shut`: destroy frees only when the worker has
  ended, and gives the references back only after that;
* `MemoryIsSafe` (`MemorySafe`), from `Alone`: without a race and a failure, when queue
  or buffer are gone, either the thread that closes is the only one in a call or the
  handle is gone too, and nobody comes further than the test of the handle.

`ConversionsProofs` proves of the conversions, for every stream of bytes, chunk sizes,
buffers and rates (`ConversionAssumption` says, of the jobs proved about, only that
widths are those the code accepts, that channels and rates are positive, and that a
chunk fits the input):

* `NumbersReadBack`, by cases over the functions: what one writes another of its width
  reads back, reversed where the byte orders differ, but for the bits of a NaN.
* `StreamKept` (`ChunksLikeStream`) and `PrefixKept` (`CutIsPrefix`) for the jobs that
  move frames, bytes or numbers without computing with them (`Moving`): `downSample`,
  `upSampleSimple`, `resampleForDownRate`, `stereoToMono`, 16 to 32 bits, numbers written
  and read, and WAV.  A conversion is a flattened sequence of pieces, one for each
  frame of its input.  That flattening splits where the pieces do, and the arithmetic
  of frames and rates (`CeilScaled`, `CeilShifted`: how many frames of the output lie
  before a frame of the input), are proved by induction, over a set closed under
  successor as above.  `StreamedConcat` follows: the conversion of two parts, of which
  the first is of whole frames and keeps the phase, is that of the one and of the
  other.  The invariant has three parts: `Loaded`, that the chunk lies at the start of
  the input buffer, whatever lies behind it; `Left`, that a call leaves the first
  pieces of the chunk, and all of them where there is room; and `Follows`, that what
  was taken is the conversion of what was read.  `ChunksLikeStream` alone says nothing
  of what a buffer holds between `Convert` and `Take`, so it is not inductive.

Only model-checked: the four properties that the findings refute; `ChunksLikeStream`
and `CutIsPrefix` for the other jobs, which compute and do not only move (linear
upsampling and the C++ `resample`, which mix or count points; `shortToFloat`, with its
powers of two; the text of `HexUtil`, whose filters and folds the prover does not
unfold; and the demo's call, of which only a length is claimed); and,
being liveness, which is out of the prover's reach,
`QuitStopsWorker`, `QuitForgetsListeners` (its antecedent is about the whole
behaviour), `CloseStopsWorker`, `WriteReturns`, `CallsReturn`, `AcceptedIsDelivered`
and `FlowEnds`.

## Not modelled

The status and the reason of every component are in PROJECT.json.  Left out on
purpose inside the modelled ones:

* the branch of NativeLibHelper for an APK without CRCs (`ZipFile` always has them);
* in AssetsUtil a package manager that does not know the application itself, and two
  processes that copy assets at once (the platform does not share their preferences);
* in the writer a system write that takes part of its bytes and fails (see above), the
  error callback (assumed to return and not to call back in), the
  one-byte `write`, and the constructor, whose failure ends before anybody else has
  the writer; in the queue the failures of `init`, for the same reason;
* argument checks that throw before anything changes;
* of RingBuffer `peek`, `discard` and `clear`, which nothing but the demo's test screen
  calls;
* `PermissionController` without a listener (`AbstractPermissionActivity` gives one);
* of the loggers the layout of texts, objects and JSON, the reflection under the
  search for a tag, and `forceLevelE` of LLog, which changes the priority a line is
  shown with;
* `upSampleLinear` of INT32 and floats, and of 8 and 16 bits at ratios like 6, and
  ByteUtil's conversions between int and float, whose rounding depends on the order of
  operations, and functions that are a call into the platform;
* the overflow of `inOffset * outRate` in the C++ `resample` on a long stream: the
  code goes wrong there, and `ConversionAssumption` keeps the product within an int.

Not modelled at all: `AutoCoverBuffer` (a forwarder: what it does is liblcu's, which
comes as headers and binaries), `LocalSocketServer` (nothing starts it), `ToastUtil`
(one toast on the main thread), file and preference utilities (wrappers without
state), Toasty (vendored views), JNI glue, and the demo beyond its native resampling.

Most of the repository's lines are not its own program: about nine tenths of what
lies under `toolbox/src/main/cpp` are the declarations of liblcu, without bodies, and
vendored ports of POSIX headers to Windows.  There is no behaviour in them to model,
so the mapped lines are a small share of all of them, and a large one of the Java and
native code that keeps state.

## Plan

Done: the models of the first plan (dispatcher, writer, queue, libraries, assets),
the permission flow, the loggers and the conversions; the proofs above.

Left, for models: two processes of AssetsUtil over one set of files; the writer's
constructor; `ToastUtil`, if it grows a queue.

Left, for proofs: the conversions outside `Moving`, of which the round trip of
hexadecimal text comes first.
