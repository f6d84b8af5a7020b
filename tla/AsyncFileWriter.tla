---------------------------- MODULE AsyncFileWriter ----------------------------
(***************************************************************************)
(* AsyncFileWriter.java: write() copies bytes into a RingBuffer and posts  *)
(* a WRITE message; a HandlerThread (the worker) takes chunks out of the   *)
(* ring and hands them to a FileWriter (FileWriter.java), whose bytes      *)
(* reach the file through a BufferedOutputStream.  close() posts a CLOSE   *)
(* message; the worker then drains the ring, closes the file and frees the *)
(* ring.  An error on either side calls close() too.                       *)
(*                                                                         *)
(* The ring may be used by one producer and one consumer and by nobody     *)
(* once it is closed (RingBuffer.java): a use after that is a use of freed *)
(* native memory or of a null handle: the process is taken to end there.   *)
(*                                                                         *)
(* A byte is its number in the order the ring accepted them.               *)
(*                                                                         *)
(* An operator whose name ends in _Mutant is a plausible bug in the        *)
(* definition that follows it; no specification uses it.  PROJECT.json     *)
(* names the property each one violates.                                   *)
(***************************************************************************)
EXTENDS Integers, Sequences, SequencesExt, FiniteSetsExt

CONSTANTS
  Users,        (* threads that call flush and close                       *)
  Writers,      (* those of them that also call write                      *)
  Worker,       (* the HandlerThread                                       *)
  RingSize,     (* capacity of the ring                                    *)
  ChunkSize,    (* DEFAULT_CHUNK_SIZE, also the size of the file's buffer  *)
  Lens,         (* lengths of a write                                      *)
  MaxCalls,     (* bound: API calls in a behaviour                         *)
  MaxFaults     (* bound: failing file operations and interrupts           *)

ASSUME WriterAssumption ==
  /\ Writers \subseteq Users /\ Worker \notin Users
  /\ RingSize \in Nat \ {0} /\ ChunkSize \in Nat \ {0}
  /\ Lens \subseteq Nat \ {0}
  /\ MaxCalls \in Nat /\ MaxFaults \in Nat

Threads == Users \cup {Worker}

VARIABLES
  mClosed, mWorkerClosed,
  queue, looper,          (* the worker's messages, its looper's state     *)
  ring, ringOpen,         (* bytes in the ring; is it still allocated      *)
  fw, buf, disk,          (* FileWriter: state, buffered bytes, file       *)
  pc, ret,                (* per thread; where close() returns to          *)
  rem, want,              (* write: bytes remaining, of this iteration     *)
  interrupted,            (* threads whose interrupt flag is set           *)
  job, toRead, chunk,     (* worker: message, length to read, chunk read   *)
  accepted,               (* history: bytes the ring has accepted          *)
  promised,               (* history: those accepted when close() began    *)
  calls, faults           (* see MaxCalls and MaxFaults                    *)

flags   == <<mClosed, mWorkerClosed>>
handler == <<queue, looper>>
ringv   == <<ring, ringOpen>>
file    == <<fw, buf, disk>>
wlocal  == <<job, toRead, chunk>>
ulocal  == <<rem, want, interrupted>>
vars    == <<flags, handler, ringv, file, pc, ret, ulocal, wlocal, accepted, promised, calls, faults>>

(* The ring's native side: its lengths, and the ring after a write.        *)
AvailableRead  == Len(ring)
AvailableWrite == RingSize - Len(ring)
Written(n)     == ring \o [i \in 1..n |-> accepted + i]

Init ==
  /\ mClosed = FALSE /\ mWorkerClosed = FALSE
  /\ queue = <<>> /\ looper = "running"
  /\ ring = <<>> /\ ringOpen = TRUE
  /\ fw = "open" /\ buf = <<>> /\ disk = <<>>
  /\ pc = [t \in Threads |-> "idle"]
  /\ ret = [t \in Threads |-> "idle"]
  /\ rem = [t \in Writers |-> 0] /\ want = [t \in Writers |-> 0]
  /\ interrupted = {}
  /\ job = "none" /\ toRead = 0 /\ chunk = <<>>
  /\ accepted = 0 /\ promised = 0 /\ calls = 0 /\ faults = 0

Goto(t, label)        == pc' = [pc EXCEPT ![t] = label]
CallClose(t, back)    == Goto(t, "c_check") /\ ret' = [ret EXCEPT ![t] = back]
Begin(t)              == pc[t] = "idle" /\ t \in Users /\ calls < MaxCalls /\ calls' = calls + 1
Send(m)               == queue' = IF looper = "running" THEN Append(queue, m) ELSE queue
Fault                 == faults < MaxFaults /\ faults' = faults + 1

-----------------------------------------------------------------------------
(* write: mClosed is tested once, before the loop.                         *)

WriteCall(t, len) ==
  /\ Begin(t)
  /\ ~mClosed
  /\ rem' = [rem EXCEPT ![t] = len]
  /\ Goto(t, "w_avail")
  /\ UNCHANGED <<flags, handler, ringv, file, ret, want, interrupted, wlocal, accepted, promised, faults>>

WriteAvail(t) ==
  /\ pc[t] = "w_avail"
  /\ ringOpen
  /\ LET writable == Min({AvailableWrite, rem[t]})
     IN /\ want' = [want EXCEPT ![t] = writable]
        /\ Goto(t, IF writable > 0 THEN "w_ring" ELSE "w_sleep")
  /\ UNCHANGED <<flags, handler, ringv, file, ret, rem, interrupted, wlocal, accepted, promised, calls, faults>>

(* The ring takes what fits.  A short write reports an error, which closes *)
(* the writer, and goes on.                                                *)
WriteRing(t) ==
  /\ pc[t] = "w_ring"
  /\ ringOpen
  /\ LET written == Min({AvailableWrite, want[t]})
     IN /\ ring' = Written(written)
        /\ accepted' = accepted + written
        /\ rem' = [rem EXCEPT ![t] = @ - written]
        /\ IF written = want[t] THEN Goto(t, "w_sched") /\ UNCHANGED ret
                                ELSE CallClose(t, "w_sched")
  /\ UNCHANGED <<flags, handler, ringOpen, file, want, interrupted, wlocal, promised, calls, faults>>

WriteSleep(t) ==
  /\ pc[t] = "w_sleep"
  /\ t \notin interrupted
  /\ Goto(t, "w_avail")
  /\ UNCHANGED <<flags, handler, ringv, file, ret, ulocal, wlocal, accepted, promised, calls, faults>>

(* The interrupt flag is set again in the handler, so every later sleep of *)
(* this loop throws at once; the error closes the writer, the loop goes on.*)
WriteInterrupted(t) ==
  /\ pc[t] = "w_sleep"
  /\ \/ t \in interrupted /\ UNCHANGED <<interrupted, faults>>
     \/ t \notin interrupted /\ Fault /\ interrupted' = interrupted \cup {t}
  /\ CallClose(t, "w_avail")
  /\ UNCHANGED <<flags, handler, ringv, file, rem, want, wlocal, accepted, promised, calls>>

(* scheduleWrite, for a writer and for the worker: test, remove, send.     *)
AfterSchedule(t) ==
  IF t = Worker THEN (IF job = "CLOSE" THEN "cl_drain" ELSE "idle")
  ELSE IF rem[t] > 0 THEN "w_avail" ELSE "idle"

ScheduleTest(t) ==
  /\ pc[t] = "w_sched"
  /\ Goto(t, IF mWorkerClosed THEN AfterSchedule(t) ELSE "w_remove")
  /\ UNCHANGED <<flags, handler, ringv, file, ret, ulocal, wlocal, accepted, promised, calls, faults>>

(* removeMessages.  A function of the prefixes of the queue, and not       *)
(* SelectSeq, because the proofs go by induction over it.                  *)
WithoutWrites ==
  LET kept[k \in 0..Len(queue)] ==
        IF k = 0 THEN <<>>
        ELSE IF queue[k] = "WRITE" THEN kept[k - 1] ELSE Append(kept[k - 1], queue[k])
  IN  kept[Len(queue)]

ScheduleRemove(t) ==
  /\ pc[t] = "w_remove"
  /\ queue' = WithoutWrites
  /\ Goto(t, "w_send")
  /\ UNCHANGED <<flags, looper, ringv, file, ret, ulocal, wlocal, accepted, promised, calls, faults>>

SendWrite_Mutant == IF queue = <<>> THEN Send("WRITE") ELSE UNCHANGED queue  (* "one is pending" *)
SendWrite == Send("WRITE")

ScheduleSend(t) ==
  /\ pc[t] = "w_send"
  /\ SendWrite
  /\ Goto(t, AfterSchedule(t))
  /\ UNCHANGED <<flags, looper, ringv, file, ret, ulocal, wlocal, accepted, promised, calls, faults>>

-----------------------------------------------------------------------------
(* flush and close.                                                        *)

FlushCall(t) ==
  /\ Begin(t)
  /\ ~mClosed
  /\ Goto(t, "f_test")
  /\ UNCHANGED <<flags, handler, ringv, file, ret, ulocal, wlocal, accepted, promised, faults>>

FlushTest(t) ==
  /\ pc[t] = "f_test"
  /\ Goto(t, IF mWorkerClosed THEN "idle" ELSE "f_send")
  /\ UNCHANGED <<flags, handler, ringv, file, ret, ulocal, wlocal, accepted, promised, calls, faults>>

FlushSend(t) ==
  /\ pc[t] = "f_send"
  /\ Send("FLUSH")
  /\ Goto(t, "idle")
  /\ UNCHANGED <<flags, looper, ringv, file, ret, ulocal, wlocal, accepted, promised, calls, faults>>

CloseCall(t) ==
  /\ Begin(t)
  /\ CallClose(t, "idle")
  /\ UNCHANGED <<flags, handler, ringv, file, ulocal, wlocal, accepted, promised, faults>>

CloseTest(t) ==
  /\ pc[t] = "c_check"
  /\ Goto(t, IF mClosed THEN ret[t] ELSE "c_set")
  /\ UNCHANGED <<flags, handler, ringv, file, ret, ulocal, wlocal, accepted, promised, calls, faults>>

CloseSet(t) ==
  /\ pc[t] = "c_set"
  /\ mClosed' = TRUE
  /\ promised' = IF mClosed THEN promised ELSE accepted
  /\ Goto(t, "c_wtest")
  /\ UNCHANGED <<mWorkerClosed, handler, ringv, file, ret, ulocal, wlocal, accepted, calls, faults>>

CloseWorkerTest(t) ==
  /\ pc[t] = "c_wtest"
  /\ Goto(t, IF mWorkerClosed THEN ret[t] ELSE "c_wset")
  /\ UNCHANGED <<flags, handler, ringv, file, ret, ulocal, wlocal, accepted, promised, calls, faults>>

CloseWorkerSet(t) ==
  /\ pc[t] = "c_wset"
  /\ mWorkerClosed' = TRUE
  /\ Goto(t, "c_send")
  /\ UNCHANGED <<mClosed, handler, ringv, file, ret, ulocal, wlocal, accepted, promised, calls, faults>>

CloseSend(t) ==
  /\ pc[t] = "c_send"
  /\ Send("CLOSE")
  /\ Goto(t, ret[t])
  /\ UNCHANGED <<flags, looper, ringv, file, ret, ulocal, wlocal, accepted, promised, calls, faults>>

-----------------------------------------------------------------------------
(* FileWriter over a BufferedOutputStream of ChunkSize bytes.  A failure   *)
(* marks the FileWriter and closes the stream, which tries to flush what   *)
(* is buffered once more.  A system write is assumed to take all its bytes *)
(* or none: after one that wrote some of the buffer and then failed, the   *)
(* flush of the close would write them a second time.                      *)

Emit(bytes) ==  (* BufferedOutputStream.write *)
  CASE Len(bytes) >= ChunkSize            -> disk' = disk \o buf \o bytes /\ buf' = <<>>
    [] Len(buf) + Len(bytes) > ChunkSize  -> disk' = disk \o buf /\ buf' = bytes
    [] OTHER                              -> disk' = disk /\ buf' = buf \o bytes

Overflows(bytes) == Len(bytes) >= ChunkSize \/ Len(buf) + Len(bytes) > ChunkSize

FailedOperation_Mutant ==  (* mHasError is not set *)
  /\ Fault
  /\ disk' \in {disk, disk \o buf}
  /\ buf' = <<>>
  /\ UNCHANGED fw

FailedOperation ==
  /\ Fault
  /\ fw' = "error"
  /\ disk' \in {disk, disk \o buf}
  /\ buf' = <<>>

(* What the worker does when a step of the job throws.                     *)
JobFails_Mutant == CallClose(Worker, "idle")  (* no finally in handleClose *)
JobFails ==
  IF job = "CLOSE" THEN CallClose(Worker, "cl_file") ELSE CallClose(Worker, "idle")

-----------------------------------------------------------------------------
(* The worker: handleMessage, handleWrite, handleClose.                    *)

TakeMessage ==
  /\ pc[Worker] = "idle"
  /\ looper # "dead" /\ queue # <<>>
  /\ job' = Head(queue)
  /\ queue' = Tail(queue)
  /\ Goto(Worker, CASE job' = "WRITE" -> "hw_avail" [] job' = "FLUSH" -> "hf" [] OTHER -> "cl_drain")
  /\ UNCHANGED <<flags, looper, ringv, file, ret, ulocal, toRead, chunk, accepted, promised, calls, faults>>

LooperExits ==
  /\ pc[Worker] = "idle"
  /\ queue = <<>>
  /\ looper = "quitting"
  /\ looper' = "dead"
  /\ UNCHANGED <<flags, queue, ringv, file, pc, ret, ulocal, wlocal, accepted, promised, calls, faults>>

NextChunk_Mutant == AvailableRead  (* not limited to the chunk's size *)
NextChunk == Min({AvailableRead, ChunkSize})

HandleWriteAvail ==
  /\ pc[Worker] = "hw_avail"
  /\ ringOpen
  /\ toRead' = NextChunk
  /\ Goto(Worker, IF toRead' > 0 THEN "hw_read" ELSE AfterSchedule(Worker))
  /\ UNCHANGED <<flags, handler, ringv, file, ret, ulocal, job, chunk, accepted, promised, calls, faults>>

AfterChunk_Mutant == SubSeq(ring, ChunkSize + 1, Len(ring))  (* discards a full chunk *)
AfterChunk == SubSeq(ring, toRead + 1, Len(ring))

HandleWriteRead ==
  /\ pc[Worker] = "hw_read"
  /\ ringOpen
  /\ chunk' = SubSeq(ring, 1, toRead)
  /\ ring' = AfterChunk
  /\ Goto(Worker, "hw_file")
  /\ UNCHANGED <<flags, handler, ringOpen, file, ret, ulocal, job, toRead, accepted, promised, calls, faults>>

HandleWriteFile ==
  /\ pc[Worker] = "hw_file"
  /\ fw = "open"
  /\ chunk' = <<>>
  /\ \/ Emit(chunk) /\ Goto(Worker, "hw_more") /\ UNCHANGED <<fw, ret, faults>>
     \/ Overflows(chunk) /\ FailedOperation /\ JobFails
  /\ UNCHANGED <<flags, handler, ringv, ulocal, job, toRead, accepted, promised, calls>>

(* ensureValidState throws: the chunk is gone.                             *)
HandleWriteRejected ==
  /\ pc[Worker] = "hw_file"
  /\ fw # "open"
  /\ chunk' = <<>>
  /\ JobFails
  /\ UNCHANGED <<flags, handler, ringv, file, ulocal, job, toRead, accepted, promised, calls, faults>>

MoreToWrite_Mutant == FALSE  (* handleWrite does not schedule itself again *)
MoreToWrite == AvailableRead > 0

HandleWriteMore ==
  /\ pc[Worker] = "hw_more"
  /\ ringOpen
  /\ Goto(Worker, IF MoreToWrite THEN "w_sched" ELSE AfterSchedule(Worker))
  /\ UNCHANGED <<flags, handler, ringv, file, ret, ulocal, wlocal, accepted, promised, calls, faults>>

(* FileWriter.flush, for the FLUSH message and at the end of the drain.    *)
HandleFlush ==
  /\ pc[Worker] \in {"hf", "cl_flush"}
  /\ LET next == IF job = "CLOSE" THEN "cl_file" ELSE "idle"
     IN \/ /\ fw = "open"
           /\ disk' = disk \o buf /\ buf' = <<>>
           /\ Goto(Worker, next)
           /\ UNCHANGED <<fw, ret, faults>>
        \/ /\ fw = "open" /\ buf # <<>> /\ FailedOperation /\ JobFails
        \/ /\ fw # "open" /\ Goto(Worker, next) /\ UNCHANGED <<file, ret, faults>>
  /\ UNCHANGED <<flags, handler, ringv, ulocal, wlocal, accepted, promised, calls>>

Drained_Mutant == TRUE  (* handleClose only flushes *)
Drained == AvailableRead = 0

CloseDrain ==
  /\ pc[Worker] = "cl_drain"
  /\ ringOpen
  /\ Goto(Worker, IF Drained THEN "cl_flush" ELSE "hw_avail")
  /\ UNCHANGED <<flags, handler, ringv, file, ret, ulocal, wlocal, accepted, promised, calls, faults>>

(* FileWriter.close sets mClosed first, so its own flush does nothing; the *)
(* stream's close flushes, and a failure there is only logged.             *)
CloseFile ==
  /\ pc[Worker] = "cl_file"
  /\ fw' = "closed"
  /\ buf' = <<>>
  /\ \/ disk' = disk \o buf /\ UNCHANGED faults
     \/ buf # <<>> /\ Fault /\ disk' = disk
  /\ Goto(Worker, "cl_ring")
  /\ UNCHANGED <<flags, handler, ringv, ret, ulocal, wlocal, accepted, promised, calls>>

(* The ring is freed with what a write put in since it was drained; the    *)
(* close of a closed ring does nothing.                                    *)
CloseRing ==
  /\ pc[Worker] = "cl_ring"
  /\ ringOpen' = FALSE /\ ring' = <<>>
  /\ Goto(Worker, "cl_quit")
  /\ UNCHANGED <<flags, handler, file, ret, ulocal, wlocal, accepted, promised, calls, faults>>

QuitSafely ==
  /\ pc[Worker] = "cl_quit"
  /\ looper' = "quitting"
  /\ Goto(Worker, "idle")
  /\ UNCHANGED <<flags, queue, ringv, file, ret, ulocal, wlocal, accepted, promised, calls, faults>>

(* Every native call of these steps takes the ring's handle.               *)
UsesRing(t) == pc[t] \in {"w_avail", "w_ring", "hw_avail", "hw_read", "hw_more", "cl_drain"}

UseClosedRing(t) ==
  /\ UsesRing(t)
  /\ ~ringOpen
  /\ pc' = [u \in Threads |-> "crashed"]
  /\ UNCHANGED <<flags, handler, ringv, file, ret, ulocal, wlocal, accepted, promised, calls, faults>>

Crashed == \E t \in Threads : pc[t] = "crashed"

-----------------------------------------------------------------------------
CallStarts(t) ==
  \/ t \in Writers /\ \E len \in Lens : WriteCall(t, len)
  \/ FlushCall(t)
  \/ CloseCall(t)

UserSteps(t) ==
  \/ WriteAvail(t) \/ WriteRing(t) \/ WriteSleep(t) \/ WriteInterrupted(t)
  \/ FlushTest(t) \/ FlushSend(t)

SharedSteps(t) ==
  \/ ScheduleTest(t) \/ ScheduleRemove(t) \/ ScheduleSend(t)
  \/ CloseTest(t) \/ CloseSet(t) \/ CloseWorkerTest(t) \/ CloseWorkerSet(t) \/ CloseSend(t)
  \/ UseClosedRing(t)

WorkerSteps ==
  \/ TakeMessage \/ LooperExits
  \/ HandleWriteAvail \/ HandleWriteRead \/ HandleWriteFile \/ HandleWriteRejected
  \/ HandleWriteMore \/ HandleFlush
  \/ CloseDrain \/ CloseFile \/ CloseRing \/ QuitSafely
  \/ SharedSteps(Worker)

Next ==
  \/ \E t \in Users : CallStarts(t) \/ UserSteps(t) \/ SharedSteps(t)
  \/ WorkerSteps

(* Threads inside a call and the worker keep running; nobody is obliged to *)
(* call, and nothing is obliged to fail.                                   *)
Fairness ==
  /\ WF_vars(WorkerSteps)
  /\ \A t \in Users : WF_vars(UserSteps(t) \/ SharedSteps(t))

Spec     == Init /\ [][Next]_vars
FairSpec == Spec /\ Fairness

-----------------------------------------------------------------------------
Bytes(n) == [i \in 1..n |-> i]

Messages     == {"WRITE", "FLUSH", "CLOSE"}
SharedLabels == {"idle", "w_sched", "w_remove", "w_send",
                 "c_check", "c_set", "c_wtest", "c_wset", "c_send", "crashed"}
UserLabels   == SharedLabels \cup {"w_avail", "w_ring", "w_sleep", "f_test", "f_send"}
WorkerLabels == SharedLabels \cup {"hw_avail", "hw_read", "hw_file", "hw_more", "hf",
                                   "cl_drain", "cl_flush", "cl_file", "cl_ring", "cl_quit"}

(* Types; where close() returns to, and which steps each thread can be in. *)
TypeOK ==
  /\ mClosed \in BOOLEAN /\ mWorkerClosed \in BOOLEAN
  /\ queue \in Seq(Messages)
  /\ looper \in {"running", "quitting", "dead"}
  /\ ring \in Seq(Nat) /\ Len(ring) <= RingSize
  /\ ringOpen \in BOOLEAN
  /\ fw \in {"open", "error", "closed"}
  /\ buf \in Seq(Nat) /\ Len(buf) <= ChunkSize /\ disk \in Seq(Nat)
  /\ pc \in [Threads -> UserLabels \cup WorkerLabels]
  /\ ret \in [Threads -> {"idle", "w_sched", "w_avail", "cl_file"}]
  /\ \A t \in Users : pc[t] \in UserLabels /\ ret[t] # "cl_file"
  /\ pc[Worker] \in WorkerLabels /\ ret[Worker] \in {"idle", "cl_file"}
  /\ rem \in [Writers -> Nat] /\ want \in [Writers -> Nat]
  /\ interrupted \subseteq Users
  /\ job \in {"none"} \cup Messages
  /\ toRead \in 0..ChunkSize /\ chunk \in Seq(Nat) /\ Len(chunk) <= ChunkSize
  /\ accepted \in Nat /\ promised \in 0..accepted /\ calls \in 0..MaxCalls /\ faults \in 0..MaxFaults

Surviving == disk \o buf \o chunk \o ring

(* No byte is lost, duplicated or overtaken on its way through ring, chunk *)
(* and buffer: until something fails, file, buffer, chunk and ring are     *)
(* together the accepted bytes in order.  The one exception are the last   *)
(* bytes of a write that runs while the writer is closed: those put in     *)
(* between the drain and the end of the ring are freed with it.            *)
(* Code: write, handleWrite, handleClose, FileWriter.write and flush.      *)
NothingLost ==
  faults = 0 =>
    /\ ringOpen => Surviving = Bytes(accepted)
    /\ \E n \in promised..accepted : Surviving = Bytes(n)

InClose(t)    == pc[t] \in {"c_check", "c_set", "c_wtest", "c_wset"}
InSchedule(t) == pc[t] \in {"w_sched", "w_remove", "w_send"}

(* Bytes never wait in the ring with nobody to fetch them: a WRITE message *)
(* is queued, or the worker or a writer is about to look or to queue one,  *)
(* or the writer is being closed; also while the two remove and send WRITE *)
(* messages at the same time.                                              *)
(* Code: scheduleWrite, write, handleWrite.                                *)
NoLostWakeup ==
  ring # <<>> /\ ~mWorkerClosed =>
    \/ \E i \in DOMAIN queue : queue[i] = "WRITE"
    \/ \E t \in Threads : InSchedule(t) \/ InClose(t)
    \/ pc[Worker] \in {"hw_avail", "hw_read", "hw_file", "hw_more"}

(* When the worker has ended and nothing failed, the file holds every byte  *)
(* the ring had accepted when close() began, also where another thread is  *)
(* inside write or closes as well.                                         *)
(* Code: close, handleClose, FileWriter.close.                             *)
CloseDrains == looper = "dead" /\ faults = 0 => Len(disk) >= promised

(* RingBuffer.close: "do not use this instance any more after call this!"  *)
(* Nobody uses the ring once the worker has closed it.                     *)
(* Code: handleClose against write, handleWrite and a second handleClose.  *)
RingNotUsedAfterClose == ~Crashed

(* Whatever fails and whoever closes, the file is a prefix of the accepted *)
(* bytes, only grows, and is not touched once the worker has ended.        *)
(* Code: the whole writer.                                                 *)
Pipe == INSTANCE FifoPipe WITH in <- Bytes(accepted), out <- disk, sealed <- looper = "dead"
WritesPrefix == Pipe!PipeSpec

(* close() ends the worker thread, unless the process died of a use of the *)
(* closed ring.  Code: close, sendCloseMsg, handleClose.                   *)
CloseStopsWorker == mClosed ~> looper = "dead" \/ Crashed

(* A write returns: a full ring is always drained again, or freed under    *)
(* the writer's hands, and then the process dies.                          *)
(* Code: write, scheduleWrite, handleWrite.                                *)
WriteReturns == \A t \in Writers : rem[t] > 0 ~> rem[t] = 0 \/ Crashed

=============================================================================
