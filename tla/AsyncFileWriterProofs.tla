------------------------- MODULE AsyncFileWriterProofs -------------------------
(***************************************************************************)
(* The bytes of AsyncFileWriter on their way to the file, for any threads, *)
(* sizes, failures and bounds: none is lost until something fails, none    *)
(* waits in the ring with nobody to fetch it, those accepted when close    *)
(* began are in the file when the worker has ended, and the writer         *)
(* implements FifoPipe whatever fails.                                     *)
(***************************************************************************)
EXTENDS AsyncFileWriter, SequenceTheorems, WellFoundedInduction, TLAPS

(* s holds the bytes that follow the n-th.                                 *)
Run(s, n) == \A i \in 1..Len(s) : s[i] = n + i

(* What the argument needs of the types; the messages are not in it.       *)
Typed ==
  /\ looper \in {"running", "quitting", "dead"}
  /\ ring \in Seq(Nat) /\ Len(ring) <= RingSize
  /\ ringOpen \in BOOLEAN
  /\ fw \in {"open", "error", "closed"}
  /\ buf \in Seq(Nat) /\ disk \in Seq(Nat) /\ chunk \in Seq(Nat)
  /\ DOMAIN pc = Threads /\ DOMAIN ret = Threads
  /\ rem \in [Writers -> Nat] /\ want \in [Writers -> Nat]
  /\ toRead \in Nat /\ accepted \in Nat /\ faults \in Nat

(* Where the worker is when it holds a chunk, when the ring is measured,   *)
(* and when the file is closed or the looper dead.                         *)
Placed ==
  /\ looper = "dead" => pc[Worker] \in {"idle", "crashed"}
  /\ pc[Worker] \in {"hw_file", "crashed"} \/ chunk = <<>>
  /\ pc[Worker] = "hw_read" => toRead <= Len(ring)
  /\ ret[Worker] \in {"idle", "cl_file"}

(* Only a thread that writes comes to the steps of a write, and no write   *)
(* to the ring is longer than what remains.                                *)
WritePcs == {"w_avail", "w_ring", "w_sleep", "w_sched", "w_remove", "w_send"}
Writing(t) ==
  /\ {pc[t], ret[t]} \intersect WritePcs # {} => t \in Writers
  /\ pc[t] = "w_ring" => want[t] <= rem[t]
  /\ ret[t] # "w_ring"

(* Until something fails, the file is closed just before the ring.         *)
Orderly ==
  faults = 0 =>
    /\ fw # "error"
    /\ fw = "closed" => pc[Worker] = "cl_ring" \/ ~ringOpen
    /\ pc[Worker] = "hw_file" => fw = "open"

(* File, buffer, chunk and ring hold the accepted bytes one after the      *)
(* other, all of them until the ring is freed; after a failure, and when   *)
(* it is closed, the file holds the first of them, and the buffer nothing. *)
Whole ==
  /\ Run(buf, Len(disk))
  /\ Run(chunk, Len(disk) + Len(buf))
  /\ Run(ring, Len(disk) + Len(buf) + Len(chunk))
  /\ accepted >= Len(disk) + Len(buf) + Len(chunk) + Len(ring)
  /\ ringOpen => accepted = Len(disk) + Len(buf) + Len(chunk) + Len(ring)
Stream ==
  /\ Run(disk, 0) /\ Len(disk) <= accepted
  /\ fw = "open" \/ faults = 0 => Whole
  /\ fw # "open" => buf = <<>>

IInv == Typed /\ Placed /\ (\A t \in Users : Writing(t)) /\ Orderly /\ Stream

-----------------------------------------------------------------------------
(* Runs of bytes.                                                          *)

(* The lesser of two lengths.                                              *)
LEMMA MinOf ==
  ASSUME NEW a \in Nat, NEW b \in Nat
  PROVE  Min({a, b}) = IF a <= b THEN a ELSE b
<1> DEFINE Least(x) == x \in {a, b} /\ \A y \in {a, b} : x <= y
<1>1. Least(IF a <= b THEN a ELSE b)
  OBVIOUS
<1>2. \A x, y : Least(x) /\ Least(y) => x = y
  OBVIOUS
<1>3. Min({a, b}) = CHOOSE x : Least(x)
  BY DEF Min
<1> HIDE DEF Least
<1> QED
  BY <1>1, <1>2, <1>3

(* Two runs one after the other are one run.                               *)
LEMMA RunConcat ==
  ASSUME NEW s \in Seq(Nat), NEW t \in Seq(Nat), NEW n \in Nat, Run(s, n), Run(t, n + Len(s))
  PROVE  /\ s \o t \in Seq(Nat) /\ Len(s \o t) = Len(s) + Len(t)
         /\ Run(s \o t, n)
<1>1. Len(s) \in Nat /\ Len(t) \in Nat
  BY LenProperties
<1>2. /\ s \o t \in Seq(Nat) /\ Len(s \o t) = Len(s) + Len(t)
      /\ \A i \in 1 .. Len(s) + Len(t) : (s \o t)[i] = IF i <= Len(s) THEN s[i] ELSE t[i - Len(s)]
  BY ConcatProperties
<1>3. ASSUME NEW i \in 1..Len(s) + Len(t) PROVE (s \o t)[i] = n + i
  <2>1. CASE i <= Len(s)
    BY <1>1, <1>2, <2>1 DEF Run
  <2>2. CASE i > Len(s)
    <3>1. i - Len(s) \in 1..Len(t)
      BY <1>1, <2>2
    <3> QED
      BY <1>1, <1>2, <2>2, <3>1 DEF Run
  <2> QED
    BY <1>1, <2>1, <2>2
<1> QED
  BY <1>2, <1>3 DEF Run

(* A sequence cut in two, and a run cut in two.                            *)
LEMMA Split ==
  ASSUME NEW s \in Seq(Nat), NEW k \in 0..Len(s)
  PROVE  /\ SubSeq(s, 1, k) \in Seq(Nat) /\ Len(SubSeq(s, 1, k)) = k
         /\ SubSeq(s, k + 1, Len(s)) \in Seq(Nat) /\ Len(SubSeq(s, k + 1, Len(s))) = Len(s) - k
<1>1. Len(s) \in Nat /\ \A i \in 1..Len(s) : s[i] \in Nat
  BY LenProperties, ElementOfSeq
<1>2. SubSeq(s, 1, k) \in Seq(Nat) /\ Len(SubSeq(s, 1, k)) = k
  BY <1>1, SubSeqProperties
<1>3. SubSeq(s, k + 1, Len(s)) \in Seq(Nat) /\ Len(SubSeq(s, k + 1, Len(s))) = Len(s) - k
  BY <1>1, SubSeqProperties
<1> QED
  BY <1>2, <1>3

LEMMA RunSplit ==
  ASSUME NEW s \in Seq(Nat), NEW n \in Nat, Run(s, n), NEW k \in 0..Len(s)
  PROVE  Run(SubSeq(s, 1, k), n) /\ Run(SubSeq(s, k + 1, Len(s)), n + k)
<1>1. Len(s) \in Nat /\ \A i \in 1..Len(s) : s[i] \in Nat
  BY LenProperties, ElementOfSeq
<1>2. /\ SubSeq(s, 1, k) \in Seq(Nat) /\ Len(SubSeq(s, 1, k)) = k
      /\ \A i \in 1..k : SubSeq(s, 1, k)[i] = s[i]
  BY <1>1, SubSeqProperties
<1>3. /\ SubSeq(s, k + 1, Len(s)) \in Seq(Nat) /\ Len(SubSeq(s, k + 1, Len(s))) = Len(s) - k
      /\ \A i \in 1..Len(s) - k : SubSeq(s, k + 1, Len(s))[i] = s[k + i]
  BY <1>1, SubSeqProperties
<1> QED
  BY <1>1, <1>2, <1>3 DEF Run

(* What the ring holds after a write.                                      *)
LEMMA WrittenRing ==
  ASSUME Typed, NEW k \in Nat
  PROVE  Written(k) \in Seq(Nat) /\ Len(Written(k)) = Len(ring) + k
<1> DEFINE t == [i \in 1..k |-> accepted + i]
<1>1. t \in Seq(Nat) /\ Len(t) = k
  BY DEF Typed
<1> HIDE DEF t
<1>2. Written(k) = ring \o t
  BY DEF Written, t
<1>3. ring \in Seq(Nat)
  BY DEF Typed
<1>4. ring \o t \in Seq(Nat) /\ Len(ring \o t) = Len(ring) + Len(t)
  BY <1>1, <1>3, ConcatProperties
<1> QED
  BY <1>1, <1>2, <1>4

LEMMA RunWritten ==
  ASSUME Typed, NEW k \in Nat, Run(ring, accepted - Len(ring)), accepted >= Len(ring)
  PROVE  Run(Written(k), accepted - Len(ring))
<1> DEFINE t == [i \in 1..k |-> accepted + i]
<1>1. t \in Seq(Nat) /\ Len(t) = k /\ \A i \in 1..k : t[i] = accepted + i
  BY DEF Typed
<1>2. Len(ring) \in Nat
  BY LenProperties DEF Typed
<1>3. Run(t, (accepted - Len(ring)) + Len(ring))
  BY <1>1, <1>2 DEF Run, Typed
<1> HIDE DEF t
<1>4. accepted - Len(ring) \in Nat
  BY <1>2 DEF Typed
<1>5. Written(k) = ring \o t
  BY DEF Written, t
<1>6. Run(t, (accepted - Len(ring)) + Len(ring)) /\ ring \in Seq(Nat)
  BY <1>3 DEF Typed
<1>7. /\ ring \o t \in Seq(Nat) /\ Len(ring \o t) = Len(ring) + Len(t)
      /\ Run(ring \o t, accepted - Len(ring))
  BY <1>1, <1>4, <1>6, RunConcat
<1> QED
  BY <1>1, <1>5, <1>7

(* A run from the first byte is those bytes.                               *)
LEMMA RunEqual ==
  ASSUME NEW s \in Seq(Nat), Run(s, 0)
  PROVE  s = Bytes(Len(s))
<1>1. Len(s) \in Nat
  BY LenProperties
<1>2. Bytes(Len(s)) \in Seq(Nat) /\ Len(Bytes(Len(s))) = Len(s)
  BY <1>1 DEF Bytes
<1>3. \A i \in 1..Len(s) : s[i] = Bytes(Len(s))[i]
  BY <1>1 DEF Run, Bytes
<1> QED
  BY <1>2, <1>3, SeqEqual

-----------------------------------------------------------------------------
(* Steps that leave the bytes where they are.                              *)

(* Stream, and then IInv, survive such a step.                             *)
LEMMA StreamSame ==
  ASSUME Stream, UNCHANGED <<ring, ringOpen, file, chunk, accepted>>, faults' = 0 => faults = 0
  PROVE  Stream'
BY DEF Stream, Whole, Run, file

(* How the worker's pc may change in such a step.                          *)
Stays ==
  \/ pc'[Worker] = pc[Worker] /\ UNCHANGED <<toRead, looper>>
  \/ pc'[Worker] = "crashed" /\ ~ringOpen /\ UNCHANGED looper
  \/ /\ pc[Worker] \notin {"hw_file", "cl_ring", "crashed"}
     /\ pc'[Worker] \notin {"hw_file", "hw_read"}
     /\ looper # "dead" /\ (looper' # "dead" \/ pc'[Worker] = "idle")

(* The variables that these steps change keep their types.                 *)
Kept ==
  /\ looper' \in {"running", "quitting", "dead"}
  /\ DOMAIN pc' = Threads /\ DOMAIN ret' = Threads
  /\ rem' \in [Writers -> Nat] /\ want' \in [Writers -> Nat]
  /\ toRead' \in Nat /\ faults' \in Nat

(* IInv survives a step that moves no byte and keeps the order of steps.   *)
LEMMA QuietStep ==
  ASSUME IInv, Kept, UNCHANGED <<ringv, file, chunk, accepted>>, faults' = 0 => faults = 0,
         Stays, ret'[Worker] \in {"idle", "cl_file"}, \A t \in Users : Writing(t)'
  PROVE  IInv'
<1>1. Stream'
  BY StreamSame DEF IInv, ringv
<1>2. Placed'
  BY DEF IInv, Placed, Stays, ringv
<1>3. Orderly'
  BY DEF IInv, Orderly, Placed, Stays, ringv, file
<1>4. Typed'
  BY DEF IInv, Typed, Kept, ringv, file
<1> QED
  BY <1>1, <1>2, <1>3, <1>4 DEF IInv

(* A thread that is not the worker takes a step.                           *)
LEMMA UserStays ==
  ASSUME Typed, NEW t \in Users, NEW label, pc' = [pc EXCEPT ![t] = label],
         UNCHANGED <<toRead, looper>>
  PROVE  Stays
BY WriterAssumption DEF Typed, Stays, Threads, WriterAssumption

(* A thread calls write, flush or close.                                   *)
LEMMA CallStartsIInv == ASSUME IInv, NEW t \in Users, CallStarts(t) PROVE IInv'
<1> USE DEF Begin, CallClose, Goto, wlocal, ringv, ulocal, handler
<1>1. Stays
  BY UserStays DEF IInv, CallStarts, WriteCall, FlushCall, CloseCall
<1>2. Kept
  <2>1. UNCHANGED <<looper, toRead, want, faults>>
    BY DEF CallStarts, WriteCall, FlushCall, CloseCall
  <2>3. DOMAIN pc' = Threads
    BY DEF IInv, Typed, CallStarts, WriteCall, FlushCall, CloseCall
  <2>4. DOMAIN ret' = Threads
    BY DEF IInv, Typed, CallStarts, WriteCall, FlushCall, CloseCall
  <2>2. rem' \in [Writers -> Nat]
    BY WriterAssumption DEF IInv, Typed, WriterAssumption, CallStarts, WriteCall, FlushCall, CloseCall
  <2> QED
    BY <2>1, <2>2, <2>3, <2>4 DEF IInv, Typed, Kept
<1>3. \A u \in Users : Writing(u)'
  BY WriterAssumption DEF IInv, Typed, Writing, WritePcs, Threads, WriterAssumption,
     CallStarts, WriteCall, FlushCall, CloseCall
<1>4. ret'[Worker] \in {"idle", "cl_file"}
  BY WriterAssumption DEF IInv, Typed, Placed, Threads, WriterAssumption,
     CallStarts, WriteCall, FlushCall, CloseCall
<1>5. UNCHANGED <<ringv, file, chunk, accepted>> /\ (faults' = 0 => faults = 0)
  BY DEF CallStarts, WriteCall, FlushCall, CloseCall
<1> QED
  BY <1>1, <1>2, <1>3, <1>4, <1>5, QuietStep

(* The steps of scheduleWrite and close, by the worker or another thread.  *)
LEMMA SharedStepsIInv == ASSUME IInv, NEW t \in Threads, SharedSteps(t) PROVE IInv'
<1> USE DEF Goto, wlocal, ringv, ulocal, handler, flags, file
<1>0. /\ UNCHANGED <<looper, ring, ringOpen, fw, buf, disk, ret, rem, want, toRead, chunk, accepted, faults>>
  BY DEF SharedSteps, ScheduleTest, ScheduleRemove, ScheduleSend, CloseTest, CloseSet,
         CloseWorkerTest, CloseWorkerSet, CloseSend, UseClosedRing
<1>1. CASE UseClosedRing(t)
  <2>1. Stays
    BY <1>0, <1>1 DEF UseClosedRing, Stays, Threads
  <2>2. Kept
    BY <1>0, <1>1 DEF UseClosedRing, IInv, Typed, Kept
  <2>3. \A u \in Users : Writing(u)'
    BY <1>0, <1>1 DEF UseClosedRing, IInv, Writing, WritePcs, Threads
  <2> QED
    BY <1>0, <2>1, <2>2, <2>3, QuietStep DEF IInv, Placed
<1>2. CASE ~UseClosedRing(t)
  <2>1. PICK label : /\ pc' = [pc EXCEPT ![t] = label]
                     /\ \/ /\ pc[t] \in {"w_sched", "w_send"}
                           /\ label = AfterSchedule(t)
                        \/ /\ pc[t] \in {"c_check", "c_wtest", "c_send"}
                           /\ label = ret[t]
                        \/ pc[t] \in {"w_sched", "w_remove"} /\ label \in {"w_remove", "w_send"}
                        \/ /\ pc[t] \in {"c_check", "c_set", "c_wtest", "c_wset"}
                           /\ label \in {"c_set", "c_wtest", "c_wset", "c_send"}
    BY <1>2 DEF SharedSteps, ScheduleTest, ScheduleRemove, ScheduleSend, CloseTest, CloseSet,
         CloseWorkerTest, CloseWorkerSet, CloseSend
  <2>2. Kept
    BY <1>0, <2>1 DEF IInv, Typed, Kept
  <2>3. Stays
    <3>1. CASE t \in Users
      BY <1>0, <2>1, <3>1, UserStays DEF IInv
    <3>2. CASE t = Worker
      <4>1. pc'[Worker] = label
        BY <2>1, <3>2 DEF IInv, Typed
      <4>2. label \notin {"hw_file", "hw_read"}
        BY <2>1, <3>2 DEF IInv, Placed, AfterSchedule
      <4>3. looper # "dead" /\ pc[Worker] \notin {"hw_file", "cl_ring", "crashed"}
        BY <2>1, <3>2 DEF IInv, Placed
      <4> QED
        BY <1>0, <4>1, <4>2, <4>3 DEF Stays
    <3> QED
      BY <3>1, <3>2 DEF Threads
  <2>4. \A u \in Users : Writing(u)'
    <3> SUFFICES ASSUME NEW u \in Users PROVE Writing(u)'
      OBVIOUS
    <3>1. u # Worker /\ (u = t => pc'[u] = label) /\ (u # t => pc'[u] = pc[u])
      BY <2>1, WriterAssumption DEF IInv, Typed, Threads, WriterAssumption
    <3>2. Writing(u)
      BY DEF IInv
    <3>3. CASE u # t
      BY <1>0, <3>1, <3>2, <3>3 DEF Writing
    <3>4. CASE u = t
      <4>1. label # "w_ring" /\ (label \in WritePcs => u \in Writers)
        BY <2>1, <3>1, <3>2, <3>4 DEF Writing, WritePcs, AfterSchedule
      <4> QED
        BY <1>0, <3>1, <3>2, <3>4, <4>1 DEF Writing
    <3> QED
      BY <3>3, <3>4
  <2> QED
    BY <1>0, <2>2, <2>3, <2>4, QuietStep DEF IInv, Placed
<1> QED
  BY <1>1, <1>2

(* The room in the ring is a length.                                       *)
LEMMA RingRoom == ASSUME Typed PROVE Len(ring) \in Nat /\ RingSize \in Nat /\ AvailableWrite \in Nat
BY WriterAssumption, LenProperties DEF Typed, AvailableWrite, WriterAssumption

(* A write looks how much fits.                                            *)
LEMMA WriteAvailIInv == ASSUME IInv, NEW t \in Writers, WriteAvail(t) PROVE IInv'
<1> DEFINE writable == Min({AvailableWrite, rem[t]})
<1>1. t \in Users /\ t \in Threads /\ t # Worker
  BY WriterAssumption DEF WriterAssumption, Threads
<1>2. rem[t] \in Nat /\ AvailableWrite \in Nat
  BY RingRoom DEF IInv, Typed
<1>3. writable \in Nat /\ writable <= rem[t]
  BY <1>2, MinOf
<1> HIDE DEF writable
<1>4. PICK label : pc' = [pc EXCEPT ![t] = label] /\ label \in {"w_ring", "w_sleep"}
  BY DEF WriteAvail, Goto
<1>5. /\ want' = [want EXCEPT ![t] = writable]
      /\ UNCHANGED <<looper, ring, ringOpen, fw, buf, disk, ret, rem, toRead, chunk, accepted, faults>>
  BY DEF WriteAvail, writable, wlocal, ringv, handler, file
<1>6. Kept
  BY <1>1, <1>3, <1>4, <1>5 DEF IInv, Typed, Kept
<1>7. Stays
  BY <1>1, <1>4, <1>5, UserStays DEF IInv
<1>8. \A u \in Users : Writing(u)'
  BY <1>1, <1>3, <1>4, <1>5 DEF IInv, Typed, Writing, WritePcs, Threads
<1> QED
  BY <1>5, <1>6, <1>7, <1>8, QuietStep DEF IInv, Placed, ringv, file

(* A write puts bytes into the ring: they follow those already accepted.   *)
LEMMA WriteRingIInv == ASSUME IInv, NEW t \in Writers, WriteRing(t) PROVE IInv'
<1> DEFINE written == Min({AvailableWrite, want[t]})
<1>1. t \in Users /\ t \in Threads /\ t # Worker
  BY WriterAssumption DEF WriterAssumption, Threads
<1>2. /\ want[t] \in Nat /\ rem[t] \in Nat /\ want[t] <= rem[t] /\ pc[t] = "w_ring"
      /\ AvailableWrite \in Nat /\ Len(ring) \in Nat /\ RingSize \in Nat
  BY <1>1, RingRoom DEF IInv, Typed, Writing, WriteRing
<1>3. written \in Nat /\ written <= AvailableWrite /\ written <= rem[t]
  BY <1>2, MinOf
<1> HIDE DEF written
<1>4. PICK label : pc' = [pc EXCEPT ![t] = label] /\ label \in {"w_sched", "c_check"}
  BY DEF WriteRing, Goto, CallClose
<1>5. /\ ring' = Written(written) /\ accepted' = accepted + written
      /\ rem' = [rem EXCEPT ![t] = rem[t] - written]
      /\ UNCHANGED <<looper, ringOpen, fw, buf, disk, want, toRead, chunk, faults>>
  BY DEF WriteRing, written, wlocal, handler, file
<1>6. ret' = ret \/ ret' = [ret EXCEPT ![t] = "w_sched"]
  BY DEF WriteRing, CallClose
<1>7. ring' \in Seq(Nat) /\ Len(ring') = Len(ring) + written
  BY <1>2, <1>3, <1>5, WrittenRing DEF IInv
<1>8. Typed'
  <2>1. Len(ring') <= RingSize
    BY <1>2, <1>3, <1>7 DEF AvailableWrite
  <2>2. rem' \in [Writers -> Nat]
    BY <1>2, <1>3, <1>5 DEF IInv, Typed
  <2>3. DOMAIN pc' = Threads /\ DOMAIN ret' = Threads
    BY <1>4, <1>6 DEF IInv, Typed
  <2> QED
    BY <1>3, <1>5, <1>7, <2>1, <2>2, <2>3 DEF IInv, Typed
<1>9. pc'[Worker] = pc[Worker] /\ ret'[Worker] = ret[Worker]
  BY <1>1, <1>4, <1>6 DEF IInv, Typed, Threads
<1>10. Placed'
  BY <1>2, <1>3, <1>5, <1>7, <1>9 DEF IInv, Typed, Placed
<1>11. Orderly'
  BY <1>5, <1>9 DEF IInv, Orderly
<1>12. ASSUME NEW u \in Users PROVE Writing(u)'
  <2>1. Writing(u)
    BY DEF IInv
  <2>2. CASE u = t
    BY <1>1, <1>4, <1>5, <1>6, <2>1, <2>2 DEF IInv, Typed, Writing, WritePcs
  <2>3. CASE u # t
    BY <1>1, <1>4, <1>5, <1>6, <2>1, <2>3 DEF IInv, Typed, Writing, WritePcs, Threads
  <2> QED
    BY <2>2, <2>3
<1>13. Stream'
  <2>1. Len(disk) \in Nat /\ Len(buf) \in Nat /\ Len(chunk) \in Nat
    BY LenProperties DEF IInv, Typed
  <2>2. Whole => Whole'
    <3> HAVE Whole
    <3>0. ringOpen
      BY DEF WriteRing
    <3>1. accepted - Len(ring) = Len(disk) + Len(buf) + Len(chunk) /\ accepted >= Len(ring)
      BY <1>2, <2>1, <3>0 DEF IInv, Typed, Whole
    <3>2. Run(ring, accepted - Len(ring))
      BY <3>1 DEF Whole
    <3>3. Run(ring', accepted - Len(ring))
      BY <1>3, <1>5, <3>1, <3>2, RunWritten DEF IInv
    <3> QED
      BY <1>2, <1>3, <1>5, <1>7, <2>1, <3>0, <3>1, <3>3 DEF IInv, Typed, Whole
  <2> QED
    BY <1>3, <1>5, <2>1, <2>2 DEF IInv, Typed, Stream
<1> QED
  BY <1>8, <1>10, <1>11, <1>12, <1>13 DEF IInv

(* The steps of write and flush.                                           *)
LEMMA UserStepsIInv == ASSUME IInv, NEW t \in Users, UserSteps(t) PROVE IInv'
<1> USE DEF Goto, wlocal, ringv, ulocal, handler, flags, file
<1>1. CASE WriteAvail(t) \/ WriteRing(t)
  <2>1. t \in Writers
    BY <1>1 DEF IInv, Writing, WritePcs, WriteAvail, WriteRing
  <2> QED
    BY <1>1, <2>1, WriteAvailIInv, WriteRingIInv
<1>2. CASE WriteSleep(t) \/ WriteInterrupted(t) \/ FlushTest(t) \/ FlushSend(t)
  <2>0. WriteSleep(t) \/ WriteInterrupted(t) => t \in Writers
    BY DEF WriteSleep, WriteInterrupted, IInv, Writing, WritePcs
  <2>1. PICK label : /\ pc' = [pc EXCEPT ![t] = label]
                     /\ label \in WritePcs => t \in Writers
                     /\ label # "w_ring"
    BY <1>2, <2>0 DEF WriteSleep, WriteInterrupted, FlushTest, FlushSend, CallClose, WritePcs
  <2>2. ret' = ret \/ (t \in Writers /\ ret' = [ret EXCEPT ![t] = "w_avail"])
    BY <1>2, <2>0 DEF WriteSleep, WriteInterrupted, FlushTest, FlushSend, CallClose
  <2>3. UNCHANGED <<looper, ring, ringOpen, fw, buf, disk, rem, want, toRead, chunk, accepted>>
    BY <1>2 DEF WriteSleep, WriteInterrupted, FlushTest, FlushSend
  <2>4. faults' = faults \/ faults' = faults + 1
    BY <1>2 DEF WriteSleep, WriteInterrupted, FlushTest, FlushSend, Fault
  <2>5. t # Worker /\ t \in Threads
    BY WriterAssumption DEF WriterAssumption, Threads
  <2>6. Kept
    BY <2>1, <2>2, <2>3, <2>4 DEF IInv, Typed, Kept
  <2>7. Stays
    BY <2>1, <2>3, UserStays DEF IInv
  <2>8. ASSUME NEW u \in Users PROVE Writing(u)'
    <3>1. Writing(u)
      BY DEF IInv
    <3>2. CASE u = t
      BY <2>1, <2>2, <2>3, <2>5, <3>1, <3>2 DEF IInv, Typed, Writing
    <3>3. CASE u # t
      BY <2>1, <2>2, <2>3, <2>5, <3>1, <3>3 DEF IInv, Typed, Writing, Threads
    <3> QED
      BY <3>2, <3>3
  <2>9. ret'[Worker] \in {"idle", "cl_file"} /\ (faults' = 0 => faults = 0)
    BY <2>2, <2>4, <2>5 DEF IInv, Typed, Placed, Threads
  <2> QED
    BY <2>3, <2>6, <2>7, <2>8, <2>9, QuietStep
<1> QED
  BY <1>1, <1>2 DEF UserSteps

-----------------------------------------------------------------------------
(* The worker's own steps.                                                 *)

(* They leave the other threads where they are.                            *)
LEMMA WorkerMoves ==
  ASSUME IInv, NEW label, pc' = [pc EXCEPT ![Worker] = label], UNCHANGED <<rem, want>>,
         ret' = ret \/ \E back \in {"idle", "cl_file"} : ret' = [ret EXCEPT ![Worker] = back]
  PROVE  /\ DOMAIN pc' = Threads /\ DOMAIN ret' = Threads
         /\ pc'[Worker] = label /\ ret'[Worker] \in {"idle", "cl_file"}
         /\ \A u \in Users : Writing(u)'
<1>1. /\ DOMAIN pc' = Threads /\ DOMAIN ret' = Threads
      /\ pc'[Worker] = label /\ ret'[Worker] \in {"idle", "cl_file"}
  BY DEF IInv, Typed, Placed, Threads
<1>2. ASSUME NEW u \in Users PROVE Writing(u)'
  <2>1. u # Worker /\ u \in Threads /\ Writing(u)
    BY WriterAssumption DEF WriterAssumption, Threads, IInv
  <2>2. pc'[u] = pc[u] /\ ret'[u] = ret[u]
    BY <2>1 DEF IInv, Typed
  <2> QED
    BY <2>1, <2>2 DEF Writing
<1> QED
  BY <1>1, <1>2

(* The looper takes a message, quits or ends.                              *)
LEMMA LooperStepsIInv == ASSUME IInv, TakeMessage \/ LooperExits \/ QuitSafely PROVE IInv'
<1> USE DEF Goto, wlocal, ringv, ulocal, handler, flags, file
<1>1. CASE LooperExits
  <2>1. Kept /\ Stays /\ (\A u \in Users : Writing(u)') /\ ret'[Worker] \in {"idle", "cl_file"}
    BY <1>1 DEF LooperExits, IInv, Typed, Placed, Kept, Stays, Writing
  <2> QED
    BY <1>1, <2>1, QuietStep DEF LooperExits
<1>2. CASE TakeMessage \/ QuitSafely
  <2>1. PICK label : pc' = [pc EXCEPT ![Worker] = label] /\ label \in {"hw_avail", "hf", "cl_drain", "idle"}
    BY <1>2 DEF TakeMessage, QuitSafely
  <2>2. UNCHANGED <<ring, ringOpen, fw, buf, disk, ret, rem, want, toRead, chunk, accepted, faults>>
    BY <1>2 DEF TakeMessage, QuitSafely
  <2>3. /\ looper # "dead" /\ pc[Worker] \in {"idle", "cl_quit"}
        /\ looper' \in {"running", "quitting"}
    BY <1>2 DEF TakeMessage, QuitSafely, IInv, Typed, Placed
  <2>4. /\ DOMAIN pc' = Threads /\ DOMAIN ret' = Threads
        /\ pc'[Worker] = label /\ ret'[Worker] \in {"idle", "cl_file"}
        /\ \A u \in Users : Writing(u)'
    BY <2>1, <2>2, WorkerMoves
  <2>5. Kept /\ Stays
    BY <2>1, <2>2, <2>3, <2>4 DEF IInv, Typed, Kept, Stays
  <2> QED
    BY <2>2, <2>4, <2>5, QuietStep
<1> QED
  BY <1>1, <1>2

(* The worker asks the ring whether it holds more.                         *)
LEMMA AskRingIInv == ASSUME IInv, HandleWriteMore \/ CloseDrain PROVE IInv'
<1> USE DEF Goto, wlocal, ringv, ulocal, handler, flags, file
<1>1. PICK label : /\ pc' = [pc EXCEPT ![Worker] = label]
                   /\ label \in {"w_sched", "cl_drain", "idle", "cl_flush", "hw_avail"}
  BY DEF HandleWriteMore, CloseDrain, AfterSchedule
<1>2. UNCHANGED <<looper, ring, ringOpen, fw, buf, disk, ret, rem, want, toRead, chunk, accepted, faults>>
  BY DEF HandleWriteMore, CloseDrain
<1>3. looper # "dead" /\ pc[Worker] \in {"hw_more", "cl_drain"}
  BY DEF HandleWriteMore, CloseDrain, IInv, Placed
<1>4. /\ DOMAIN pc' = Threads /\ DOMAIN ret' = Threads
      /\ pc'[Worker] = label /\ ret'[Worker] \in {"idle", "cl_file"}
      /\ \A u \in Users : Writing(u)'
  BY <1>1, <1>2, WorkerMoves
<1>5. Kept /\ Stays
  BY <1>1, <1>2, <1>3, <1>4 DEF IInv, Typed, Kept, Stays
<1> QED
  BY <1>2, <1>4, <1>5, QuietStep

(* The worker measures the next chunk.                                     *)
LEMMA HandleWriteAvailIInv == ASSUME IInv, HandleWriteAvail PROVE IInv'
<1> USE DEF Goto, wlocal, ringv, ulocal, handler, flags, file
<1>1. PICK label : pc' = [pc EXCEPT ![Worker] = label] /\ label \in {"hw_read", "cl_drain", "idle"}
  BY DEF HandleWriteAvail, AfterSchedule
<1>2. UNCHANGED <<looper, ring, ringOpen, fw, buf, disk, ret, rem, want, chunk, accepted, faults>>
  BY DEF HandleWriteAvail
<1>3. toRead' \in Nat /\ toRead' <= Len(ring)
  <2>1. Len(ring) \in Nat /\ ChunkSize \in Nat
    BY RingRoom, WriterAssumption DEF IInv, WriterAssumption
  <2> QED
    BY <2>1, MinOf DEF HandleWriteAvail, NextChunk, AvailableRead
<1>4. looper # "dead" /\ chunk = <<>> /\ pc[Worker] = "hw_avail" /\ ringOpen
  BY DEF HandleWriteAvail, IInv, Placed
<1>5. /\ DOMAIN pc' = Threads /\ DOMAIN ret' = Threads
      /\ pc'[Worker] = label /\ ret'[Worker] \in {"idle", "cl_file"}
      /\ \A u \in Users : Writing(u)'
  BY <1>1, <1>2, WorkerMoves
<1>6. Typed'
  BY <1>2, <1>3, <1>5 DEF IInv, Typed
<1>7. Placed'
  BY <1>1, <1>2, <1>3, <1>4, <1>5 DEF Placed
<1>8. Orderly'
  BY <1>1, <1>2, <1>4, <1>5 DEF IInv, Orderly
<1>9. Stream'
  BY <1>2, StreamSame DEF IInv
<1> QED
  BY <1>5, <1>6, <1>7, <1>8, <1>9 DEF IInv

(* The worker takes the first bytes of the ring as its chunk.              *)
LEMMA HandleWriteReadIInv == ASSUME IInv, HandleWriteRead PROVE IInv'
<1> USE DEF Goto, wlocal, ringv, ulocal, handler, flags, file
<1>1. /\ pc' = [pc EXCEPT ![Worker] = "hw_file"] /\ pc[Worker] = "hw_read" /\ ringOpen
      /\ chunk' = SubSeq(ring, 1, toRead) /\ ring' = SubSeq(ring, toRead + 1, Len(ring))
      /\ UNCHANGED <<looper, ringOpen, fw, buf, disk, ret, rem, want, toRead, accepted, faults>>
  BY DEF HandleWriteRead, AfterChunk
<1>2. looper # "dead" /\ chunk = <<>> /\ toRead \in 0..Len(ring) /\ ring \in Seq(Nat) /\ Len(ring) \in Nat
  BY <1>1, RingRoom DEF IInv, Typed, Placed
<1>3. /\ chunk' \in Seq(Nat) /\ Len(chunk') = toRead
      /\ ring' \in Seq(Nat) /\ Len(ring') = Len(ring) - toRead
  BY <1>1, <1>2, Split
<1>4. /\ DOMAIN pc' = Threads /\ DOMAIN ret' = Threads
      /\ pc'[Worker] = "hw_file" /\ ret'[Worker] \in {"idle", "cl_file"}
      /\ \A u \in Users : Writing(u)'
  BY <1>1, WorkerMoves
<1>5. Typed'
  BY <1>1, <1>2, <1>3, <1>4, WriterAssumption DEF IInv, Typed, WriterAssumption
<1>6. Placed'
  BY <1>1, <1>2, <1>4 DEF Placed
<1>7. Orderly'
  BY <1>1, <1>4 DEF IInv, Typed, Orderly
<1>8. Stream'
  <2>1. Len(disk) \in Nat /\ Len(buf) \in Nat
    BY LenProperties DEF IInv, Typed
  <2>2. Whole => Whole'
    <3> HAVE Whole
    <3>1. /\ Run(ring, Len(disk) + Len(buf)) /\ Run(buf, Len(disk))
          /\ accepted = Len(disk) + Len(buf) + Len(ring)
      BY <1>1, <1>2, <2>1 DEF Whole
    <3>2. Run(chunk', Len(disk) + Len(buf)) /\ Run(ring', Len(disk) + Len(buf) + toRead)
      BY <1>1, <1>2, <2>1, <3>1, RunSplit
    <3> QED
      <4>1. disk' = disk /\ buf' = buf /\ accepted' = accepted /\ toRead \in Nat
        BY <1>1, <1>2
      <4>2. Run(buf', Len(disk')) /\ Run(chunk', Len(disk') + Len(buf'))
        BY <3>1, <3>2, <4>1
      <4>3. Run(ring', Len(disk') + Len(buf') + Len(chunk'))
        BY <1>3, <3>2, <4>1
      <4>4. accepted' = Len(disk') + Len(buf') + Len(chunk') + Len(ring')
        BY <1>2, <1>3, <2>1, <3>1, <4>1
      <4> QED
        BY <4>2, <4>3, <4>4 DEF Whole
  <2> QED
    BY <1>1, <2>2 DEF IInv, Stream, Run
<1> QED
  BY <1>4, <1>5, <1>6, <1>7, <1>8 DEF IInv

(* The bytes in the buffer follow those in the file.                       *)
LEMMA DiskTakesBuffer ==
  ASSUME Typed, Stream, fw = "open" \/ faults = 0
  PROVE  /\ Len(disk) \in Nat /\ Len(buf) \in Nat /\ Len(chunk) \in Nat /\ Len(ring) \in Nat
         /\ disk \o buf \in Seq(Nat) /\ Len(disk \o buf) = Len(disk) + Len(buf)
         /\ Run(disk \o buf, 0) /\ Whole
<1>1. /\ Run(disk, 0) /\ Run(buf, Len(disk)) /\ Whole
      /\ disk \in Seq(Nat) /\ buf \in Seq(Nat)
      /\ Len(disk) \in Nat /\ Len(buf) \in Nat /\ Len(chunk) \in Nat /\ Len(ring) \in Nat
  BY LenProperties DEF Typed, Stream, Whole
<1>2. Run(buf, 0 + Len(disk))
  BY <1>1
<1> QED
  BY <1>1, <1>2, RunConcat

(* The stream takes a chunk, into its buffer or into the file.             *)
LEMMA EmitChunk ==
  ASSUME Typed, Stream, fw = "open", Emit(chunk)
  PROVE  /\ disk' \in Seq(Nat) /\ buf' \in Seq(Nat)
         /\ Run(disk', 0) /\ Run(buf', Len(disk'))
         /\ Len(disk') + Len(buf') = Len(disk) + Len(buf) + Len(chunk)
<1>1. /\ Len(disk) \in Nat /\ Len(buf) \in Nat /\ Len(chunk) \in Nat
      /\ disk \in Seq(Nat) /\ buf \in Seq(Nat) /\ chunk \in Seq(Nat)
      /\ Run(disk, 0) /\ Run(buf, Len(disk)) /\ Run(chunk, Len(disk) + Len(buf))
      /\ disk \o buf \in Seq(Nat) /\ Len(disk \o buf) = Len(disk) + Len(buf) /\ Run(disk \o buf, 0)
  BY DiskTakesBuffer DEF Typed, Stream, Whole
<1>2. /\ <<>> \in Seq(Nat) /\ Len(<<>>) = 0 /\ \A n : Run(<<>>, n)
  BY DEF Run
<1>3. CASE disk' = disk \o buf \o chunk /\ buf' = <<>>
  <2>1. Run(chunk, 0 + Len(disk \o buf))
    BY <1>1
  <2>2. disk' \in Seq(Nat) /\ Len(disk') = Len(disk \o buf) + Len(chunk) /\ Run(disk', 0)
    BY <1>1, <1>3, <2>1, RunConcat
  <2> QED
    BY <1>1, <1>2, <1>3, <2>2
<1>4. CASE disk' = disk \o buf /\ buf' = chunk
  BY <1>1, <1>4
<1>5. CASE disk' = disk /\ buf' = buf \o chunk
  <2>1. buf' \in Seq(Nat) /\ Len(buf') = Len(buf) + Len(chunk) /\ Run(buf', Len(disk))
    BY <1>1, <1>5, RunConcat
  <2> QED
    BY <1>1, <1>5, <2>1
<1> QED
  BY <1>3, <1>4, <1>5 DEF Emit

(* The buffer has been moved to the file.                                  *)
LEMMA EmptiedBuffer ==
  ASSUME Whole, Run(disk', 0), chunk = <<>>, buf' = <<>>, UNCHANGED <<ring, ringOpen, chunk, accepted>>,
         Len(disk) \in Nat, Len(buf) \in Nat, Len(ring) \in Nat, accepted \in Nat,
         Len(disk') = Len(disk) + Len(buf)
  PROVE  Stream'
<1>1. Len(chunk') = 0 /\ Len(buf') = 0 /\ Len(chunk) = 0 /\ \A n : Run(chunk', n) /\ Run(buf', n)
  BY DEF Run
<1>2. Run(ring', Len(disk') + Len(buf') + Len(chunk'))
  <2>1. Len(disk') + Len(buf') + Len(chunk') = Len(disk) + Len(buf) + Len(chunk)
    BY <1>1
  <2> QED
    BY <2>1 DEF Whole
<1>3. Len(disk') + Len(buf') + Len(chunk') + Len(ring') = Len(disk) + Len(buf) + Len(chunk) + Len(ring)
  BY <1>1
<1>4. Len(disk') <= accepted'
  BY <1>1 DEF Whole
<1> QED
  BY <1>1, <1>2, <1>3, <1>4 DEF Stream, Whole

(* A failing file operation loses the buffer, or moves it to the file.     *)
LEMMA FailureKeepsPrefix ==
  ASSUME Typed, Stream, fw = "open", FailedOperation, UNCHANGED <<accepted, ring>>
  PROVE  Stream' /\ disk' \in Seq(Nat) /\ buf' \in Seq(Nat)
         /\ fw' = "error" /\ faults' \in Nat /\ faults' # 0
<1>1. /\ Run(disk, 0) /\ disk \in Seq(Nat) /\ accepted \in Nat
      /\ disk \o buf \in Seq(Nat) /\ Run(disk \o buf, 0) /\ Len(disk) <= accepted
  BY DiskTakesBuffer DEF Typed, Stream
<1>2. Len(disk \o buf) <= accepted
  BY DiskTakesBuffer DEF Typed, Whole
<1>3. /\ fw' = "error" /\ faults' = faults + 1 /\ buf' = <<>> /\ accepted' = accepted
      /\ disk' \in {disk, disk \o buf}
  BY DEF FailedOperation, Fault
<1>4. Run(disk', 0) /\ Len(disk') <= accepted' /\ disk' \in Seq(Nat) /\ buf' \in Seq(Nat)
  <2>1. CASE disk' = disk
    BY <1>1, <1>3, <2>1
  <2>2. CASE disk' = disk \o buf
    BY <1>1, <1>2, <1>3, <2>2
  <2> QED
    BY <1>3, <2>1, <2>2
<1>5. faults' \in Nat /\ faults' # 0
  BY <1>3 DEF Typed
<1> QED
  BY <1>3, <1>4, <1>5 DEF Stream

(* The file takes the chunk, or fails.                                     *)
LEMMA HandleWriteFileIInv == ASSUME IInv, HandleWriteFile PROVE IInv'
<1> USE DEF Goto, CallClose, wlocal, ringv, ulocal, handler, flags
<1>1. /\ pc[Worker] = "hw_file" /\ fw = "open" /\ chunk' = <<>> /\ looper # "dead"
      /\ UNCHANGED <<looper, ring, ringOpen, rem, want, toRead, accepted>>
  BY DEF HandleWriteFile, IInv, Placed
<1>2. CASE Emit(chunk) /\ pc' = [pc EXCEPT ![Worker] = "hw_more"] /\ UNCHANGED <<fw, ret, faults>>
  <2>1. /\ DOMAIN pc' = Threads /\ DOMAIN ret' = Threads
        /\ pc'[Worker] = "hw_more" /\ ret'[Worker] \in {"idle", "cl_file"}
        /\ \A u \in Users : Writing(u)'
    BY <1>1, <1>2, WorkerMoves
  <2>2. /\ disk' \in Seq(Nat) /\ buf' \in Seq(Nat)
        /\ Run(disk', 0) /\ Run(buf', Len(disk'))
        /\ Len(disk') + Len(buf') = Len(disk) + Len(buf) + Len(chunk)
    BY <1>1, <1>2, EmitChunk DEF IInv
  <2>3. /\ Whole /\ Len(disk) \in Nat /\ Len(buf) \in Nat /\ Len(chunk) \in Nat /\ Len(ring) \in Nat
    BY <1>1, DiskTakesBuffer DEF IInv
  <2>4. Len(disk') \in Nat /\ Len(buf') \in Nat
    BY <2>2, LenProperties
  <2>5. Typed' /\ Placed' /\ Orderly'
    BY <1>1, <1>2, <2>1, <2>2 DEF IInv, Typed, Placed, Orderly
  <2>6. Whole'
    <3>1. Len(chunk') = 0 /\ \A n : Run(chunk', n)
      BY <1>1 DEF Run
    <3>2. Len(disk') + Len(buf') + Len(chunk') = Len(disk) + Len(buf) + Len(chunk)
      BY <2>2, <2>3, <2>4, <3>1
    <3>3. Run(ring', Len(disk') + Len(buf') + Len(chunk'))
      BY <1>1, <2>3, <3>2 DEF Whole
    <3>4. Len(disk') + Len(buf') + Len(chunk') + Len(ring') = Len(disk) + Len(buf) + Len(chunk) + Len(ring)
      BY <1>1, <3>2
    <3> QED
      BY <1>1, <2>2, <2>3, <3>1, <3>3, <3>4 DEF Whole
  <2>7. Stream'
    <3>1. Len(disk') <= accepted'
      <4>1. Len(disk) + Len(buf) + Len(chunk) + Len(ring) <= accepted /\ accepted \in Nat
        BY <2>3 DEF Whole, IInv, Typed
      <4> QED
        BY <1>1, <2>2, <2>3, <2>4, <4>1
    <3> QED
      BY <1>1, <1>2, <2>2, <2>6, <3>1 DEF Stream
  <2> QED
    BY <2>1, <2>5, <2>7 DEF IInv
<1>3. CASE FailedOperation /\ JobFails
  <2>1. /\ pc' = [pc EXCEPT ![Worker] = "c_check"]
        /\ \E back \in {"idle", "cl_file"} : ret' = [ret EXCEPT ![Worker] = back]
    BY <1>3 DEF JobFails
  <2>2. /\ DOMAIN pc' = Threads /\ DOMAIN ret' = Threads
        /\ pc'[Worker] = "c_check" /\ ret'[Worker] \in {"idle", "cl_file"}
        /\ \A u \in Users : Writing(u)'
    BY <1>1, <2>1, WorkerMoves
  <2>3. Stream' /\ disk' \in Seq(Nat) /\ buf' \in Seq(Nat) /\ fw' = "error" /\ faults' \in Nat /\ faults' # 0
    BY <1>1, <1>3, FailureKeepsPrefix DEF IInv
  <2>4. Typed' /\ Placed' /\ Orderly'
    BY <1>1, <2>2, <2>3 DEF IInv, Typed, Placed, Orderly
  <2> QED
    BY <2>2, <2>3, <2>4 DEF IInv
<1> QED
  BY <1>2, <1>3 DEF HandleWriteFile

(* The file was closed by a failure: only then is a chunk dropped.         *)
LEMMA HandleWriteRejectedIInv == ASSUME IInv, HandleWriteRejected PROVE IInv'
<1> USE DEF Goto, CallClose, wlocal, ringv, ulocal, handler, flags, file
<1>1. /\ pc[Worker] = "hw_file" /\ fw # "open" /\ chunk' = <<>> /\ looper # "dead" /\ faults # 0
      /\ UNCHANGED <<looper, ring, ringOpen, fw, buf, disk, rem, want, toRead, accepted, faults>>
  BY DEF HandleWriteRejected, IInv, Placed, Orderly
<1>2. /\ pc' = [pc EXCEPT ![Worker] = "c_check"]
      /\ \E back \in {"idle", "cl_file"} : ret' = [ret EXCEPT ![Worker] = back]
  BY DEF HandleWriteRejected, JobFails
<1>3. /\ DOMAIN pc' = Threads /\ DOMAIN ret' = Threads
      /\ pc'[Worker] = "c_check" /\ ret'[Worker] \in {"idle", "cl_file"}
      /\ \A u \in Users : Writing(u)'
  BY <1>1, <1>2, WorkerMoves
<1>4. Typed' /\ Placed' /\ Orderly' /\ Stream'
  BY <1>1, <1>3 DEF IInv, Typed, Placed, Orderly, Stream, Run
<1> QED
  BY <1>3, <1>4 DEF IInv

(* The buffer is flushed, or that fails.                                   *)
LEMMA HandleFlushIInv == ASSUME IInv, HandleFlush PROVE IInv'
<1> USE DEF Goto, CallClose, wlocal, ringv, ulocal, handler, flags, file
<1>1. /\ pc[Worker] \in {"hf", "cl_flush"} /\ looper # "dead" /\ chunk = <<>>
      /\ UNCHANGED <<looper, ring, ringOpen, rem, want, toRead, chunk, accepted>>
  BY DEF HandleFlush, IInv, Placed
<1>2. PICK label : /\ pc' = [pc EXCEPT ![Worker] = label]
                   /\ label \in {"cl_file", "idle", "c_check"}
                   /\ \/ ret' = ret
                      \/ \E back \in {"idle", "cl_file"} : ret' = [ret EXCEPT ![Worker] = back]
  BY DEF HandleFlush, JobFails
<1>3. /\ DOMAIN pc' = Threads /\ DOMAIN ret' = Threads
      /\ pc'[Worker] = label /\ ret'[Worker] \in {"idle", "cl_file"}
      /\ \A u \in Users : Writing(u)'
  BY <1>1, <1>2, WorkerMoves
<1>4. CASE fw = "open" /\ disk' = disk \o buf /\ buf' = <<>> /\ UNCHANGED <<fw, faults>>
  <2>1. /\ Len(disk) \in Nat /\ Len(buf) \in Nat /\ Len(chunk) \in Nat /\ Len(ring) \in Nat
        /\ disk' \in Seq(Nat) /\ Len(disk') = Len(disk) + Len(buf) /\ Run(disk', 0) /\ Whole
        /\ accepted \in Nat
    BY <1>4, DiskTakesBuffer DEF IInv, Typed
  <2>2. Typed' /\ Placed' /\ Orderly'
    BY <1>1, <1>2, <1>3, <1>4, <2>1 DEF IInv, Typed, Placed, Orderly
  <2>3. Stream'
    BY <1>1, <1>4, <2>1, EmptiedBuffer
  <2> QED
    BY <1>3, <2>2, <2>3 DEF IInv
<1>5. CASE fw = "open" /\ FailedOperation
  <2>1. Stream' /\ disk' \in Seq(Nat) /\ buf' \in Seq(Nat) /\ fw' = "error" /\ faults' \in Nat /\ faults' # 0
    BY <1>1, <1>5, FailureKeepsPrefix DEF IInv
  <2>2. Typed' /\ Placed' /\ Orderly'
    BY <1>1, <1>2, <1>3, <2>1 DEF IInv, Typed, Placed, Orderly
  <2> QED
    BY <1>3, <2>1, <2>2 DEF IInv
<1>6. CASE UNCHANGED <<fw, buf, disk, faults>>
  <2>1. Typed' /\ Placed' /\ Orderly'
    BY <1>1, <1>2, <1>3, <1>6 DEF IInv, Typed, Placed, Orderly
  <2>2. Stream'
    BY <1>1, <1>6, StreamSame DEF IInv
  <2> QED
    BY <1>3, <2>1, <2>2 DEF IInv
<1> QED
  BY <1>4, <1>5, <1>6 DEF HandleFlush

(* Closing the file flushes it, or that fails.                             *)
LEMMA CloseFileIInv == ASSUME IInv, CloseFile PROVE IInv'
<1> USE DEF Goto, wlocal, ringv, ulocal, handler, flags
<1>1. /\ pc[Worker] = "cl_file" /\ looper # "dead" /\ chunk = <<>> /\ fw' = "closed" /\ buf' = <<>>
      /\ pc' = [pc EXCEPT ![Worker] = "cl_ring"]
      /\ UNCHANGED <<looper, ring, ringOpen, ret, rem, want, toRead, chunk, accepted>>
  BY DEF CloseFile, IInv, Placed
<1>2. /\ DOMAIN pc' = Threads /\ DOMAIN ret' = Threads
      /\ pc'[Worker] = "cl_ring" /\ ret'[Worker] \in {"idle", "cl_file"}
      /\ \A u \in Users : Writing(u)'
  BY <1>1, WorkerMoves
<1>3. disk' \in Seq(Nat) /\ faults' \in Nat /\ Stream'
  <2>1. CASE disk' = disk \o buf /\ faults' = faults
    <3>1. CASE fw = "open" \/ faults = 0
      <4>1. /\ Len(disk) \in Nat /\ Len(buf) \in Nat /\ Len(chunk) \in Nat /\ Len(ring) \in Nat
            /\ disk' \in Seq(Nat) /\ Len(disk') = Len(disk) + Len(buf) /\ Run(disk', 0) /\ Whole
        BY <2>1, <3>1, DiskTakesBuffer DEF IInv
      <4> QED
        BY <1>1, <2>1, <4>1, EmptiedBuffer DEF IInv, Typed
    <3>2. CASE ~(fw = "open" \/ faults = 0)
      <4>1. disk' = disk
        BY <2>1, <3>2 DEF IInv, Typed, Stream
      <4> QED
        BY <1>1, <2>1, <3>2, <4>1 DEF IInv, Typed, Stream
    <3> QED
      BY <3>1, <3>2
  <2>2. CASE faults' = faults + 1 /\ disk' = disk
    BY <1>1, <2>2 DEF IInv, Typed, Stream
  <2> QED
    BY <2>1, <2>2 DEF CloseFile, Fault
<1>4. Typed' /\ Placed'
  BY <1>1, <1>2, <1>3 DEF IInv, Typed, Placed
<1>5. Orderly'
  BY <1>1, <1>2 DEF Orderly
<1> QED
  BY <1>2, <1>3, <1>4, <1>5 DEF IInv

(* The ring is freed after the file.                                       *)
LEMMA CloseRingIInv == ASSUME IInv, CloseRing PROVE IInv'
<1> USE DEF Goto, wlocal, ringv, ulocal, handler, flags, file
<1>1. /\ pc[Worker] = "cl_ring" /\ looper # "dead" /\ ringOpen' = FALSE /\ ring' = <<>>
      /\ pc' = [pc EXCEPT ![Worker] = "cl_quit"]
      /\ UNCHANGED <<looper, fw, buf, disk, ret, rem, want, toRead, chunk, accepted, faults>>
  BY DEF CloseRing, IInv, Placed
<1>2. /\ DOMAIN pc' = Threads /\ DOMAIN ret' = Threads
      /\ pc'[Worker] = "cl_quit" /\ ret'[Worker] \in {"idle", "cl_file"}
      /\ \A u \in Users : Writing(u)'
  BY <1>1, WorkerMoves
<1>3. Stream'
  <2>1. /\ Len(disk) \in Nat /\ Len(buf) \in Nat /\ Len(chunk) \in Nat /\ Len(ring) \in Nat
        /\ Len(ring') = 0 /\ \A n : Run(ring', n)
    BY <1>1, LenProperties DEF IInv, Typed, Run
  <2>2. Whole => Whole'
    <3> HAVE Whole
    <3>1. accepted \in Nat /\ accepted >= Len(disk) + Len(buf) + Len(chunk) + Len(ring)
      BY DEF Whole, IInv, Typed
    <3>2. accepted' >= Len(disk') + Len(buf') + Len(chunk') + Len(ring')
      BY <1>1, <2>1, <3>1
    <3>3. Run(buf', Len(disk')) /\ Run(chunk', Len(disk') + Len(buf'))
      BY <1>1 DEF Whole
    <3> QED
      BY <1>1, <2>1, <3>2, <3>3 DEF Whole
  <2> QED
    BY <1>1, <2>2 DEF IInv, Stream, Run
<1>4. Typed' /\ Placed' /\ Orderly'
  <2>1. ring' \in Seq(Nat) /\ Len(ring') = 0 /\ RingSize >= 0
    BY <1>1, WriterAssumption DEF WriterAssumption
  <2> QED
    BY <1>1, <1>2, <2>1 DEF IInv, Typed, Placed, Orderly
<1> QED
  BY <1>2, <1>3, <1>4 DEF IInv

-----------------------------------------------------------------------------
(* The invariant holds at first.                                           *)
LEMMA InitIInv == Init => IInv
<1> SUFFICES ASSUME Init PROVE IInv
  OBVIOUS
<1>1. Typed
  BY WriterAssumption DEF Init, Typed, WriterAssumption
<1>2. Placed /\ Orderly /\ \A t \in Users : Writing(t)
  BY DEF Init, Placed, Orderly, Writing, WritePcs, Threads
<1>3. Stream
  BY DEF Init, Stream, Whole, Run
<1> QED
  BY <1>1, <1>2, <1>3 DEF IInv

(* Every step keeps it.                                                    *)
LEMMA NextIInv == IInv /\ [Next]_vars => IInv'
<1> SUFFICES ASSUME IInv, [Next]_vars PROVE IInv'
  OBVIOUS
<1>1. CASE UNCHANGED vars
  <2>1. UNCHANGED <<ringv, file, chunk, accepted, faults, looper, pc, ret, rem, want, toRead>>
    BY <1>1 DEF vars, wlocal, ulocal, handler
  <2> QED
    BY <2>1, QuietStep DEF IInv, Typed, Kept, Stays, Placed, Writing
<1>2. ASSUME NEW t \in Users, CallStarts(t) \/ UserSteps(t) \/ SharedSteps(t) PROVE IInv'
  BY <1>2, CallStartsIInv, UserStepsIInv, SharedStepsIInv DEF Threads
<1>3. CASE WorkerSteps
  BY <1>3, LooperStepsIInv, AskRingIInv, HandleWriteAvailIInv, HandleWriteReadIInv,
     HandleWriteFileIInv, HandleWriteRejectedIInv, HandleFlushIInv, CloseFileIInv, CloseRingIInv,
     SharedStepsIInv DEF WorkerSteps, Threads
<1> QED
  BY <1>1, <1>2, <1>3 DEF Next

(* The conjuncts of IInv hold in every state: the worker never holds a     *)
(* chunk outside handleWrite nor asks the ring for more than it has, a     *)
(* write never asks for more room than it has bytes, the file stays open   *)
(* until the ring is closed unless something fails, and the bytes lie in   *)
(* file, buffer, chunk and ring in order.                                  *)
THEOREM Invariance == Spec => []IInv
<1>1. Init => IInv
  BY InitIInv
<1>2. IInv /\ [Next]_vars => IInv'
  BY NextIInv
<1> QED
  BY <1>1, <1>2, PTL DEF Spec

-----------------------------------------------------------------------------
(* The writer implements FifoPipe.                                         *)

(* Fewer bytes are a prefix of more.                                       *)
LEMMA BytesPrefix ==
  ASSUME NEW m \in Nat, NEW n \in Nat, m <= n
  PROVE  Pipe!IsPrefix(Bytes(m), Bytes(n)) /\ (m # n => Pipe!IsStrictPrefix(Bytes(m), Bytes(n)))
<1>1. /\ Bytes(m) \in Seq(Nat) /\ Len(Bytes(m)) = m /\ \A i \in 1..m : Bytes(m)[i] = i
      /\ Bytes(n) \in Seq(Nat) /\ Len(Bytes(n)) = n /\ \A i \in 1..n : Bytes(n)[i] = i
  BY DEF Bytes
<1>2. /\ SubSeq(Bytes(m), 1, m) \in Seq(Nat) /\ Len(SubSeq(Bytes(m), 1, m)) = m
      /\ \A i \in 1..m : SubSeq(Bytes(m), 1, m)[i] = i
  BY <1>1, SubSeqProperties
<1>3. /\ SubSeq(Bytes(n), 1, m) \in Seq(Nat) /\ Len(SubSeq(Bytes(n), 1, m)) = m
      /\ \A i \in 1..m : SubSeq(Bytes(n), 1, m)[i] = i
  BY <1>1, SubSeqProperties
<1>4. SubSeq(Bytes(m), 1, m) = SubSeq(Bytes(n), 1, m)
  BY <1>2, <1>3, SeqEqual
<1>5. Pipe!IsPrefix(Bytes(m), Bytes(n))
  BY <1>1, <1>4 DEF Pipe!IsPrefix
<1> QED
  BY <1>1, <1>5 DEF Pipe!IsStrictPrefix

(* What a step does to the pipe.                                           *)
LEMMA StepKinds ==
  ASSUME IInv, Next
  PROVE  \/ UNCHANGED <<accepted, disk>> /\ (looper' = "dead" <=> looper = "dead")
         \/ UNCHANGED <<disk, looper>> /\ accepted' >= accepted
         \/ UNCHANGED <<accepted, looper>> /\ looper # "dead" /\ Len(disk') >= Len(disk)
         \/ UNCHANGED <<accepted, disk>> /\ looper # "dead" /\ looper' = "dead"
<1> USE DEF wlocal, ringv, handler, file
<1>1. CASE \E t \in Users : WriteRing(t)
  <2>1. PICK t \in Users : WriteRing(t)
    BY <1>1
  <2>2. t \in Writers /\ want[t] \in Nat /\ AvailableWrite \in Nat
    BY <2>1, RingRoom DEF IInv, Writing, WritePcs, WriteRing, Typed
  <2>3. Min({AvailableWrite, want[t]}) \in Nat
    BY <2>2, MinOf
  <2> QED
    BY <2>1, <2>3 DEF WriteRing, IInv, Typed
<1>2. CASE HandleWriteFile \/ HandleFlush \/ CloseFile
  <2>1. looper # "dead" /\ UNCHANGED <<accepted, looper>>
    BY <1>2 DEF HandleWriteFile, HandleFlush, CloseFile, IInv, Placed
  <2>2. \/ disk' = disk \/ disk' = disk \o buf \/ disk' = (disk \o buf) \o chunk
    BY <1>2 DEF HandleWriteFile, HandleFlush, CloseFile, Emit, FailedOperation
  <2>3. /\ disk \in Seq(Nat) /\ buf \in Seq(Nat) /\ chunk \in Seq(Nat)
        /\ Len(disk) \in Nat /\ Len(buf) \in Nat /\ Len(chunk) \in Nat
    BY LenProperties DEF IInv, Typed
  <2>4. /\ disk \o buf \in Seq(Nat) /\ Len(disk \o buf) = Len(disk) + Len(buf)
    BY <2>3, ConcatProperties
  <2>5. Len((disk \o buf) \o chunk) = Len(disk \o buf) + Len(chunk)
    BY <2>3, <2>4, ConcatProperties
  <2>6. Len(disk') >= Len(disk)
    BY <2>2, <2>3, <2>4, <2>5
  <2> QED
    BY <2>1, <2>6
<1>3. CASE LooperExits
  BY <1>3 DEF LooperExits
<1>4. ASSUME NEW t \in Users, CallStarts(t) \/ UserSteps(t), ~WriteRing(t)
      PROVE  UNCHANGED <<accepted, disk, looper>>
  BY <1>4 DEF CallStarts, WriteCall, FlushCall, CloseCall, UserSteps, WriteAvail, WriteSleep,
              WriteInterrupted, FlushTest, FlushSend
<1>5. ASSUME NEW t \in Threads, SharedSteps(t) PROVE UNCHANGED <<accepted, disk, looper>>
  BY <1>5 DEF SharedSteps, ScheduleTest, ScheduleRemove, ScheduleSend, CloseTest, CloseSet,
              CloseWorkerTest, CloseWorkerSet, CloseSend, UseClosedRing
<1>6. CASE \/ TakeMessage \/ HandleWriteAvail \/ HandleWriteRead \/ HandleWriteRejected
           \/ HandleWriteMore \/ CloseDrain \/ CloseRing
  BY <1>6 DEF TakeMessage, HandleWriteAvail, HandleWriteRead, HandleWriteRejected,
              HandleWriteMore, CloseDrain, CloseRing
<1>7. CASE QuitSafely
  BY <1>7 DEF QuitSafely, IInv, Placed
<1> QED
  BY <1>1, <1>2, <1>3, <1>4, <1>5, <1>6, <1>7 DEF Next, WorkerSteps, Threads

(* Each of these kinds is a step of the pipe.                              *)
LEMMA PipeStep == IInv /\ IInv' /\ [Next]_vars => [Pipe!PipeNext]_Pipe!pipeVars
<1> SUFFICES ASSUME IInv, IInv', [Next]_vars PROVE [Pipe!PipeNext]_Pipe!pipeVars
  OBVIOUS
<1> USE DEF Pipe!PipeNext, Pipe!pipeVars
<1>1. CASE UNCHANGED vars
  BY <1>1 DEF vars, handler, file
<1>2. /\ disk = Bytes(Len(disk)) /\ disk' = Bytes(Len(disk'))
      /\ Len(disk) \in Nat /\ Len(disk') \in Nat /\ accepted \in Nat /\ accepted' \in Nat
      /\ Len(disk) <= accepted /\ Len(disk') <= accepted'
  BY RunEqual, LenProperties DEF IInv, Typed, Stream
<1>3. CASE Next
  <2>1. CASE UNCHANGED <<accepted, disk>> /\ (looper' = "dead" <=> looper = "dead")
    BY <2>1
  <2>2. CASE UNCHANGED <<disk, looper>> /\ accepted' >= accepted
    <3>1. CASE accepted' = accepted
      BY <2>2, <3>1
    <3>2. CASE accepted' # accepted
      BY <1>2, <2>2, <3>2, BytesPrefix DEF Pipe!Accept
    <3> QED
      BY <3>1, <3>2
  <2>3. CASE UNCHANGED <<accepted, looper>> /\ looper # "dead" /\ Len(disk') >= Len(disk)
    <3>1. CASE Len(disk') = Len(disk)
      BY <1>2, <2>3, <3>1
    <3>2. CASE Len(disk') # Len(disk)
      <4>1. Pipe!IsStrictPrefix(disk, disk')
        BY <1>2, <2>3, <3>2, BytesPrefix
      <4>2. Pipe!IsPrefix(disk', Bytes(accepted))
        BY <1>2, <2>3, BytesPrefix
      <4> QED
        BY <2>3, <4>1, <4>2 DEF Pipe!Deliver
    <3> QED
      BY <3>1, <3>2
  <2>4. CASE UNCHANGED <<accepted, disk>> /\ looper # "dead" /\ looper' = "dead"
    BY <2>4 DEF Pipe!Seal
  <2> QED
    BY <1>3, <2>1, <2>2, <2>3, <2>4, StepKinds
<1> QED
  BY <1>1, <1>3

(* Whatever fails, whoever closes and however often: the file is a prefix  *)
(* of the accepted bytes, only grows, and is not touched once the worker   *)
(* has ended.  Code: the whole writer.                                     *)
THEOREM Refinement == Spec => WritesPrefix
<1>1. Init => Pipe!PipeInit
  BY DEF Init, Pipe!PipeInit, Bytes
<1>2. IInv /\ IInv' /\ [Next]_vars => [Pipe!PipeNext]_Pipe!pipeVars
  BY PipeStep
<1> QED
  BY <1>1, <1>2, Invariance, PTL DEF Spec, WritesPrefix, Pipe!PipeSpec

-----------------------------------------------------------------------------
(* The queue of messages.                                                  *)

(* Induction, with a set of numbers in the place of a predicate.           *)
LEMMA InductiveSet ==
  ASSUME NEW S, 0 \in S, \A n \in Nat : n \in S => n + 1 \in S
  PROVE  Nat \subseteq S
<1> DEFINE R == {p \in Nat \X Nat : p[1] < p[2]}
           T == Nat \ S
<1>1. ASSUME T # {} PROVE FALSE
  <2>1. IsWellFoundedOn(R, Nat) /\ T \subseteq Nat
    BY NatLessThanWellFounded DEF OpToRel
  <2> HIDE DEF R, T
  <2>2. PICK x \in T : \A y \in T : ~ (<<y, x>> \in R)
    BY <1>1, <2>1, WFMin
  <2>3. x \in Nat /\ x # 0 /\ x \notin S
    BY DEF T
  <2>4. x - 1 \in Nat /\ <<x - 1, x>> \in R
    BY <2>3 DEF R
  <2>5. x - 1 \in S
    BY <2>2, <2>4 DEF T
  <2> QED BY <2>3, <2>4, <2>5
<1> QED BY <1>1

(* The function in WithoutWrites, and that there is one.                   *)
Prefix(g, q, k) ==
  IF k = 0 THEN <<>> ELSE IF q[k] = "WRITE" THEN g[k - 1] ELSE Append(g[k - 1], q[k])
Keeps(g, q, n) == g = [k \in 0..n |-> Prefix(g, q, k)]

LEMMA KeepsExists == ASSUME NEW q, NEW m \in Nat PROVE \E g : Keeps(g, q, m)
<1> DEFINE S == {n \in Nat : \E g : Keeps(g, q, n)}
<1>1. 0 \in S
  <2> DEFINE h == [k \in 0..0 |-> <<>>]
  <2>1. Keeps(h, q, 0)
    BY DEF Keeps, Prefix
  <2> QED BY <2>1
<1>2. ASSUME NEW n \in Nat, n \in S PROVE n + 1 \in S
  <2>1. PICK g : Keeps(g, q, n)
    BY <1>2
  <2> DEFINE last == Prefix(g, q, n + 1)
             h    == [k \in 0..(n + 1) |-> IF k = n + 1 THEN last ELSE g[k]]
  <2>2. \A k \in 0..n : h[k] = g[k] /\ g[k] = Prefix(g, q, k)
    BY <2>1 DEF Keeps
  <2>3. h[n + 1] = last /\ h = [k \in 0..(n + 1) |-> h[k]]
    OBVIOUS
  <2> HIDE DEF h
  <2>4. ASSUME NEW k \in 0..(n + 1) PROVE h[k] = Prefix(h, q, k)
    <3>1. CASE k = n + 1
      <4>1. n \in 0..n /\ k - 1 = n /\ k # 0
        BY <3>1
      <4> QED BY <2>2, <2>3, <3>1, <4>1 DEF Prefix
    <3>2. CASE k \in 0..n
      <4>1. k = 0 \/ k - 1 \in 0..n
        BY <3>2
      <4> QED BY <2>2, <3>2, <4>1 DEF Prefix
    <3> QED BY <3>1, <3>2
  <2>5. Keeps(h, q, n + 1)
    BY <2>3, <2>4 DEF Keeps
  <2> QED BY <2>5
<1> HIDE DEF S
<1>3. Nat \subseteq S
  BY <1>1, <1>2, InductiveSet
<1> QED BY <1>3 DEF S

(* Every prefix keeps messages of the queue, and none of them is WRITE.    *)
LEMMA KeepsOthers ==
  ASSUME NEW q, NEW m \in Nat, NEW M, \A i \in 1..m : q[i] \in M, NEW g, Keeps(g, q, m)
  PROVE  \A k \in 0..m : g[k] \in Seq(M \ {"WRITE"})
<1> DEFINE S == {k \in Nat : k <= m => g[k] \in Seq(M \ {"WRITE"})}
<1>0. \A k \in 0..m : g[k] = Prefix(g, q, k)
  BY DEF Keeps
<1>1. 0 \in S
  <2>1. 0 \in 0..m /\ g[0] = <<>>
    BY <1>0 DEF Prefix
  <2>2. <<>> \in Seq(M \ {"WRITE"})
    OBVIOUS
  <2> QED BY <2>1, <2>2
<1>2. ASSUME NEW n \in Nat, n \in S PROVE n + 1 \in S
  <2> SUFFICES ASSUME n + 1 <= m PROVE g[n + 1] \in Seq(M \ {"WRITE"})
    OBVIOUS
  <2>1. g[n] \in Seq(M \ {"WRITE"}) /\ q[n + 1] \in M
    BY <1>2
  <2>2. n + 1 \in 0..m /\ (n + 1) - 1 = n /\ n + 1 # 0
    OBVIOUS
  <2> HIDE DEF S
  <2>3. g[n + 1] = IF q[n + 1] = "WRITE" THEN g[n] ELSE Append(g[n], q[n + 1])
    BY <1>0, <2>2 DEF Prefix
  <2> QED BY <2>1, <2>3
<1> HIDE DEF S
<1>3. Nat \subseteq S
  BY <1>1, <1>2, InductiveSet
<1> QED BY <1>3 DEF S

LEMMA WithoutWritesOthers ==
  ASSUME NEW M, queue \in Seq(M)
  PROVE  WithoutWrites \in Seq(M \ {"WRITE"})
<1> DEFINE n == Len(queue)
           f == CHOOSE g : g = [k \in 0..n |-> IF k = 0 THEN <<>>
                                               ELSE IF queue[k] = "WRITE" THEN g[k - 1]
                                               ELSE Append(g[k - 1], queue[k])]
<1>1. n \in Nat /\ \A i \in 1..n : queue[i] \in M
  BY LenProperties, ElementOfSeq
<1>2. \E g : Keeps(g, queue, n)
  BY <1>1, KeepsExists
<1>3. WithoutWrites = f[n]
  BY Zenon DEF WithoutWrites
<1>4. Keeps(f, queue, n)
  BY <1>2, Zenon DEF Keeps, Prefix
<1> HIDE DEF f, n
<1>5. \A k \in 0..n : f[k] \in Seq(M \ {"WRITE"})
  BY <1>1, <1>4, KeepsOthers
<1> QED BY <1>1, <1>3, <1>5

(* What is queued.                                                         *)
Queued(m) == \E i \in 1..Len(queue) : queue[i] = m

LEMMA SendQueues ==
  ASSUME queue \in Seq(Messages), NEW m \in Messages, Send(m)
  PROVE  /\ queue' \in Seq(Messages)
         /\ looper = "running" => Queued(m)'
         /\ \A k : Queued(k) => Queued(k)'
         /\ \A k : Queued(k)' => Queued(k) \/ (k = m /\ looper = "running")
<1>1. CASE looper # "running"
  BY <1>1 DEF Send, Queued
<1>2. CASE looper = "running"
  <2>0. Len(queue) \in Nat
    BY LenProperties
  <2>1. /\ queue' = Append(queue, m) /\ queue' \in Seq(Messages) /\ Len(queue') = Len(queue) + 1
        /\ \A i \in 1..Len(queue) : queue'[i] = queue[i]
        /\ queue'[Len(queue) + 1] = m
    BY <1>2, AppendProperties DEF Send
  <2> QED BY <1>2, <2>0, <2>1 DEF Queued
<1> QED BY <1>1, <1>2

LEMMA TailQueues ==
  ASSUME queue \in Seq(Messages), queue # <<>>, queue' = Tail(queue)
  PROVE  /\ queue' \in Seq(Messages) /\ Head(queue) \in Messages /\ Queued(Head(queue))
         /\ \A k : Queued(k) => k = Head(queue) \/ Queued(k)'
         /\ \A k : Queued(k)' => Queued(k)
<1>1. /\ Len(queue) \in Nat \ {0} /\ Head(queue) = queue[1] /\ Head(queue) \in Messages
      /\ queue' \in Seq(Messages) /\ Len(queue') = Len(queue) - 1
      /\ \A i \in 1..Len(queue') : queue'[i] = queue[i + 1]
  BY HeadTailProperties, EmptySeq, LenProperties, ElementOfSeq
<1>2. ASSUME NEW k, Queued(k) PROVE k = Head(queue) \/ Queued(k)'
  <2>1. PICK i \in 1..Len(queue) : queue[i] = k
    BY <1>2 DEF Queued
  <2>2. CASE i # 1
    <3>1. i - 1 \in 1..Len(queue') /\ queue'[i - 1] = queue[(i - 1) + 1] /\ (i - 1) + 1 = i
      BY <1>1, <2>2
    <3> QED BY <2>1, <3>1 DEF Queued
  <2> QED BY <1>1, <2>1, <2>2
<1>3. ASSUME NEW k, Queued(k)' PROVE Queued(k)
  <2>1. PICK i \in 1..Len(queue') : queue'[i] = k
    BY <1>3 DEF Queued
  <2>2. i + 1 \in 1..Len(queue) /\ queue[i + 1] = k
    BY <1>1, <2>1
  <2> QED BY <2>2 DEF Queued
<1>4. Queued(Head(queue))
  BY <1>1 DEF Queued
<1> QED BY <1>1, <1>2, <1>3, <1>4

LEMMA RemoveQueues ==
  ASSUME queue \in Seq(Messages), queue' = WithoutWrites
  PROVE  queue' \in Seq(Messages) /\ \A k : Queued(k)' => Queued(k)
<1> DEFINE M == {queue[i] : i \in 1..Len(queue)}
<1>1. Len(queue) \in Nat /\ \A i \in 1..Len(queue) : queue[i] \in Messages
  BY LenProperties, ElementOfSeq
<1>2. queue \in Seq(M) /\ M \subseteq Messages
  BY <1>1
<1> HIDE DEF M
<1>3. queue' \in Seq(M \ {"WRITE"})
  BY <1>2, WithoutWritesOthers
<1>4. \A i \in 1..Len(queue') : queue'[i] \in M
  BY <1>3, ElementOfSeq
<1>5. queue' \in Seq(Messages)
  BY <1>2, <1>3
<1> QED BY <1>4, <1>5 DEF Queued, M

-----------------------------------------------------------------------------
(* Types.  TypeOK is what Typed says and the following.                    *)

Flags ==
  /\ mClosed \in BOOLEAN /\ mWorkerClosed \in BOOLEAN
  /\ interrupted \subseteq Users
  /\ promised \in 0..accepted /\ calls \in 0..MaxCalls /\ faults \in 0..MaxFaults

Labelled ==
  /\ pc \in [Threads -> UserLabels \cup WorkerLabels]
  /\ ret \in [Threads -> {"idle", "w_sched", "w_avail", "cl_file"}]
  /\ \A t \in Users : pc[t] \in UserLabels /\ ret[t] # "cl_file"
  /\ pc[Worker] \in WorkerLabels /\ ret[Worker] \in {"idle", "cl_file"}

Sizes == Len(buf) <= ChunkSize /\ toRead <= ChunkSize /\ Len(chunk) <= ChunkSize

Told == queue \in Seq(Messages) /\ job \in {"none"} \cup Messages

Types == Flags /\ Labelled /\ Sizes /\ Told

LEMMA InitTypes == ASSUME Init PROVE Types
<1>1. Len(<<>>) = 0 /\ <<>> \in Seq(Messages)
  OBVIOUS
<1>2. Sizes /\ Told
  BY <1>1, WriterAssumption DEF Init, Sizes, Told, WriterAssumption
<1>3. Labelled
  BY WriterAssumption DEF Init, Labelled, Threads, UserLabels, WorkerLabels, SharedLabels, WriterAssumption
<1>4. Flags
  <2>1. 0 \in 0..0 /\ 0 \in 0..MaxCalls /\ 0 \in 0..MaxFaults /\ FALSE \in BOOLEAN /\ {} \subseteq Users
    BY WriterAssumption DEF WriterAssumption
  <2>2. /\ mClosed = FALSE /\ mWorkerClosed = FALSE /\ interrupted = {}
        /\ accepted = 0 /\ promised = 0 /\ calls = 0 /\ faults = 0
    BY DEF Init
  <2> QED BY <2>1, <2>2, Zenon DEF Flags
<1> QED
  BY <1>2, <1>3, <1>4 DEF Types

(* What changes the flags and counters.                                    *)
LEMMA NextFlags == ASSUME IInv, IInv', Flags, [Next]_vars PROVE Flags'
<1>0. accepted \in Nat /\ accepted' \in Nat /\ MaxCalls \in Nat /\ MaxFaults \in Nat
  BY WriterAssumption DEF IInv, Typed, WriterAssumption
<1>1. accepted' >= accepted
  <2>1. UNCHANGED vars => accepted' = accepted
    BY DEF vars
  <2> QED BY <1>0, <2>1, StepKinds
<1>2. calls' = calls \/ (calls < MaxCalls /\ calls' = calls + 1)
  <2>1. ASSUME NEW t \in Users, CallStarts(t) PROVE calls < MaxCalls /\ calls' = calls + 1
    BY <2>1 DEF CallStarts, WriteCall, FlushCall, CloseCall, Begin
  <2>2. ASSUME NEW t \in Users, UserSteps(t) PROVE calls' = calls
    BY <2>2 DEF UserSteps, WriteAvail, WriteRing, WriteSleep, WriteInterrupted, FlushTest, FlushSend
  <2>3. ASSUME NEW t \in Threads, SharedSteps(t) PROVE calls' = calls
    BY <2>3 DEF SharedSteps, ScheduleTest, ScheduleRemove, ScheduleSend, CloseTest, CloseSet,
       CloseWorkerTest, CloseWorkerSet, CloseSend, UseClosedRing
  <2>4. CASE WorkerSteps /\ ~SharedSteps(Worker)
    BY <2>4 DEF WorkerSteps, TakeMessage, LooperExits, HandleWriteAvail, HandleWriteRead,
       HandleWriteFile, HandleWriteRejected, HandleWriteMore, HandleFlush, CloseDrain, CloseFile,
       CloseRing, QuitSafely
  <2>5. UNCHANGED vars => calls' = calls
    BY DEF vars
  <2> QED BY <2>1, <2>2, <2>3, <2>4, <2>5 DEF Next, Threads
<1>3. faults' = faults \/ (faults < MaxFaults /\ faults' = faults + 1)
  <2>1. ASSUME NEW t \in Users, CallStarts(t) PROVE faults' = faults
    BY <2>1 DEF CallStarts, WriteCall, FlushCall, CloseCall
  <2>2. ASSUME NEW t \in Users, UserSteps(t) PROVE faults' = faults \/ Fault
    BY <2>2 DEF UserSteps, WriteAvail, WriteRing, WriteSleep, WriteInterrupted, FlushTest, FlushSend
  <2>3. ASSUME NEW t \in Threads, SharedSteps(t) PROVE faults' = faults
    BY <2>3 DEF SharedSteps, ScheduleTest, ScheduleRemove, ScheduleSend, CloseTest, CloseSet,
       CloseWorkerTest, CloseWorkerSet, CloseSend, UseClosedRing
  <2>4. CASE WorkerSteps /\ ~SharedSteps(Worker)
    <3>1. faults' = faults \/ Fault
      BY <2>4 DEF WorkerSteps, TakeMessage, LooperExits, HandleWriteAvail, HandleWriteRead,
         HandleWriteFile, HandleWriteRejected, HandleWriteMore, HandleFlush, CloseDrain, CloseFile,
         CloseRing, QuitSafely, FailedOperation, file
    <3> QED BY <3>1 DEF Fault
  <2>5. UNCHANGED vars => faults' = faults
    BY DEF vars
  <2> QED BY <2>1, <2>2, <2>3, <2>4, <2>5 DEF Next, Threads, Fault
<1>4. /\ mClosed' \in BOOLEAN /\ mWorkerClosed' \in BOOLEAN /\ interrupted' \subseteq Users
      /\ promised' \in {promised, accepted}
  <2> USE DEF Flags, flags, ulocal
  <2>1. ASSUME NEW t \in Users, CallStarts(t) PROVE UNCHANGED <<mClosed, mWorkerClosed, interrupted, promised>>
    BY <2>1 DEF CallStarts, WriteCall, FlushCall, CloseCall
  <2>2. ASSUME NEW t \in Users, UserSteps(t)
        PROVE  UNCHANGED <<mClosed, mWorkerClosed, promised>> /\ interrupted' \subseteq Users
    BY <2>2 DEF UserSteps, WriteAvail, WriteRing, WriteSleep, WriteInterrupted, FlushTest, FlushSend
  <2>3. ASSUME NEW t \in Threads, SharedSteps(t)
        PROVE  /\ UNCHANGED interrupted /\ mClosed' \in {mClosed, TRUE} /\ mWorkerClosed' \in {mWorkerClosed, TRUE}
               /\ promised' \in {promised, accepted}
    BY <2>3 DEF SharedSteps, ScheduleTest, ScheduleRemove, ScheduleSend, CloseTest, CloseSet,
       CloseWorkerTest, CloseWorkerSet, CloseSend, UseClosedRing
  <2>4. CASE WorkerSteps /\ ~SharedSteps(Worker)
    BY <2>4 DEF WorkerSteps, TakeMessage, LooperExits, HandleWriteAvail, HandleWriteRead,
       HandleWriteFile, HandleWriteRejected, HandleWriteMore, HandleFlush, CloseDrain, CloseFile,
       CloseRing, QuitSafely
  <2>5. CASE UNCHANGED vars
    BY <2>5 DEF vars
  <2> QED BY <2>1, <2>2, <2>3, <2>4, <2>5 DEF Next, Threads
<1> QED BY <1>0, <1>1, <1>2, <1>3, <1>4 DEF Flags

(* Where a step takes its thread, and what it notes for its return.        *)
Moves(t, labels, backs) ==
  /\ \E label \in labels : pc' = [pc EXCEPT ![t] = label]
  /\ ret' = ret \/ \E back \in backs : ret' = [ret EXCEPT ![t] = back]

LEMMA UserMoves ==
  ASSUME Labelled, NEW t \in Users, CallStarts(t) \/ UserSteps(t) \/ SharedSteps(t), ~UseClosedRing(t)
  PROVE  Moves(t, UserLabels, {"idle", "w_sched", "w_avail"})
<1> USE DEF Goto, CallClose
<1>0. t # Worker /\ t \in Threads /\ ret[t] \in {"idle", "w_sched", "w_avail"} /\ AfterSchedule(t) \in {"w_avail", "idle"}
  BY WriterAssumption DEF WriterAssumption, Threads, Labelled, AfterSchedule
<1>1. CASE CallStarts(t)
  BY <1>1 DEF CallStarts, WriteCall, FlushCall, CloseCall, Moves, UserLabels, SharedLabels
<1>2. CASE UserSteps(t)
  BY <1>2 DEF UserSteps, WriteAvail, WriteRing, WriteSleep, WriteInterrupted, FlushTest, FlushSend,
     Moves, UserLabels, SharedLabels
<1>3. CASE SharedSteps(t)
  BY <1>0, <1>3 DEF SharedSteps, ScheduleTest, ScheduleRemove, ScheduleSend, CloseTest, CloseSet,
     CloseWorkerTest, CloseWorkerSet, CloseSend, Moves, UserLabels, SharedLabels
<1> QED BY <1>1, <1>2, <1>3

LEMMA WorkerGoes ==
  ASSUME Labelled, Told, WorkerSteps, ~UseClosedRing(Worker)
  PROVE  Moves(Worker, WorkerLabels, {"idle", "cl_file"})
<1> USE DEF Goto, CallClose
<1>0. /\ ret[Worker] \in {"idle", "cl_file"} /\ AfterSchedule(Worker) \in {"cl_drain", "idle"}
      /\ JobFails => /\ pc' = [pc EXCEPT ![Worker] = "c_check"]
                     /\ \E back \in {"idle", "cl_file"} : ret' = [ret EXCEPT ![Worker] = back]
  BY DEF Labelled, AfterSchedule, JobFails
<1>1. CASE TakeMessage
  <2> DEFINE label == CASE job' = "WRITE" -> "hw_avail" [] job' = "FLUSH" -> "hf" [] OTHER -> "cl_drain"
  <2>1. label \in WorkerLabels
    BY DEF WorkerLabels
  <2>2. pc' = [pc EXCEPT ![Worker] = label] /\ ret' = ret
    BY <1>1 DEF TakeMessage
  <2> HIDE DEF label
  <2> QED BY <2>1, <2>2 DEF Moves
<1>2. CASE LooperExits
  BY <1>2 DEF LooperExits, Moves, Labelled
<1>3. CASE HandleWriteFile \/ HandleWriteRejected \/ HandleFlush
  BY <1>0, <1>3 DEF HandleWriteFile, HandleWriteRejected, HandleFlush, Moves, WorkerLabels, SharedLabels
<1>4. CASE \/ HandleWriteAvail \/ HandleWriteRead \/ HandleWriteMore \/ CloseDrain \/ CloseFile \/ CloseRing
           \/ QuitSafely
  BY <1>0, <1>4 DEF HandleWriteAvail, HandleWriteRead, HandleWriteMore, CloseDrain, CloseFile, CloseRing,
     QuitSafely, Moves, WorkerLabels, SharedLabels
<1>5. CASE SharedSteps(Worker)
  BY <1>0, <1>5 DEF SharedSteps, ScheduleTest, ScheduleRemove, ScheduleSend, CloseTest, CloseSet,
     CloseWorkerTest, CloseWorkerSet, CloseSend, Moves, WorkerLabels, SharedLabels
<1> QED BY <1>1, <1>2, <1>3, <1>4, <1>5 DEF WorkerSteps

LEMMA NextLabelled == ASSUME Labelled, Told, [Next]_vars PROVE Labelled'
<1>0. Worker \notin Users /\ Threads = Users \cup {Worker}
  BY WriterAssumption DEF WriterAssumption, Threads
<1>1. ASSUME NEW t \in Users, Moves(t, UserLabels, {"idle", "w_sched", "w_avail"}) PROVE Labelled'
  BY <1>0, <1>1 DEF Labelled, Moves
<1>2. CASE Moves(Worker, WorkerLabels, {"idle", "cl_file"})
  BY <1>0, <1>2 DEF Labelled, Moves
<1>3. ASSUME NEW t \in Threads, UseClosedRing(t) PROVE Labelled'
  BY <1>0, <1>3 DEF Labelled, UseClosedRing, UserLabels, WorkerLabels, SharedLabels
<1>4. CASE UNCHANGED vars
  BY <1>4 DEF vars, Labelled
<1> QED BY <1>0, <1>1, <1>2, <1>3, <1>4, UserMoves, WorkerGoes DEF Next

(* What is read, buffered and written fits its buffer.                     *)
LEMMA NextSizes == ASSUME IInv, IInv', Sizes, [Next]_vars PROVE Sizes'
<1> USE DEF Sizes
<1>0. /\ ChunkSize \in Nat \ {0} /\ Len(<<>>) = 0 /\ Len(ring) \in Nat
      /\ buf \in Seq(Nat) /\ chunk \in Seq(Nat) /\ ring \in Seq(Nat) /\ toRead \in Nat
  BY WriterAssumption, RingRoom DEF IInv, Typed, WriterAssumption
<1>1. CASE HandleWriteAvail
  <2>0. Len(ring) \in Nat /\ ChunkSize \in Nat
    BY <1>0
  <2>1. toRead' <= ChunkSize
    BY <1>1, <2>0, MinOf DEF HandleWriteAvail, NextChunk, AvailableRead
  <2> QED BY <1>1, <2>1 DEF HandleWriteAvail, file
<1>2. CASE HandleWriteRead
  <2>1. toRead \in 0..Len(ring)
    BY <1>0, <1>2 DEF HandleWriteRead, IInv, Placed
  <2>2. Len(chunk') = toRead
    BY <1>0, <1>2, <2>1, Split DEF HandleWriteRead
  <2> QED BY <1>2, <2>2 DEF HandleWriteRead, file
<1>3. CASE HandleWriteFile
  <2>1. CASE Emit(chunk)
    <3>1. Len(buf) \in Nat /\ Len(chunk) \in Nat /\ Len(buf \o chunk) = Len(buf) + Len(chunk)
      BY <1>0, LenProperties, ConcatProperties
    <3>2. CASE Len(chunk) >= ChunkSize \/ Len(buf) + Len(chunk) > ChunkSize
      <4>1. buf' = <<>> \/ (buf' = chunk /\ Len(chunk) <= ChunkSize)
        BY <2>1, <3>2 DEF Emit
      <4> QED BY <1>0, <1>3, <4>1 DEF HandleWriteFile
    <3>3. CASE ~(Len(chunk) >= ChunkSize \/ Len(buf) + Len(chunk) > ChunkSize)
      <4>1. buf' = buf \o chunk
        BY <2>1, <3>3 DEF Emit
      <4> QED BY <1>0, <1>3, <3>1, <3>3, <4>1 DEF HandleWriteFile
    <3> QED BY <3>2, <3>3
  <2> QED BY <1>0, <1>3, <2>1 DEF HandleWriteFile, FailedOperation
<1>4. CASE HandleWriteRejected \/ HandleFlush \/ CloseFile
  BY <1>0, <1>4 DEF HandleWriteRejected, HandleFlush, CloseFile, FailedOperation, file, wlocal
<1>5. ASSUME NEW t \in Users, CallStarts(t) \/ UserSteps(t) PROVE Sizes'
  BY <1>5 DEF CallStarts, WriteCall, FlushCall, CloseCall, UserSteps, WriteAvail, WriteRing, WriteSleep,
     WriteInterrupted, FlushTest, FlushSend, file, wlocal
<1>6. ASSUME NEW t \in Threads, SharedSteps(t) PROVE Sizes'
  BY <1>6 DEF SharedSteps, ScheduleTest, ScheduleRemove, ScheduleSend, CloseTest, CloseSet,
     CloseWorkerTest, CloseWorkerSet, CloseSend, UseClosedRing, file, wlocal
<1>7. CASE TakeMessage \/ LooperExits \/ HandleWriteMore \/ CloseDrain \/ CloseRing \/ QuitSafely
  BY <1>7 DEF TakeMessage, LooperExits, HandleWriteMore, CloseDrain, CloseRing, QuitSafely, file, wlocal
<1>8. CASE UNCHANGED vars
  BY <1>8 DEF vars, file, wlocal
<1> QED BY <1>1, <1>2, <1>3, <1>4, <1>5, <1>6, <1>7, <1>8 DEF Next, WorkerSteps, Threads

(* Messages are sent, removed and taken; nothing else touches the queue.   *)
LEMMA QueueSteps ==
  ASSUME [Next]_vars
  PROVE  \/ UNCHANGED <<queue, job>>
         \/ \E t \in Threads : \/ ScheduleSend(t) /\ Send("WRITE")
                               \/ FlushSend(t) /\ Send("FLUSH")
                               \/ CloseSend(t) /\ Send("CLOSE")
                               \/ ScheduleRemove(t) /\ queue' = WithoutWrites
         \/ TakeMessage
<1> USE DEF handler, wlocal
<1>1. ASSUME NEW t \in Users, CallStarts(t) \/ UserSteps(t), ~FlushSend(t) PROVE UNCHANGED <<queue, job>>
  BY <1>1 DEF CallStarts, WriteCall, FlushCall, CloseCall, UserSteps, WriteAvail, WriteRing, WriteSleep,
     WriteInterrupted, FlushTest
<1>2. ASSUME NEW t \in Threads, SharedSteps(t), ~ScheduleSend(t), ~ScheduleRemove(t), ~CloseSend(t)
      PROVE  UNCHANGED <<queue, job>>
  BY <1>2 DEF SharedSteps, ScheduleTest, CloseTest, CloseSet, CloseWorkerTest, CloseWorkerSet, UseClosedRing
<1>3. CASE WorkerSteps /\ ~SharedSteps(Worker) /\ ~TakeMessage
  BY <1>3 DEF WorkerSteps, LooperExits, HandleWriteAvail, HandleWriteRead, HandleWriteFile,
     HandleWriteRejected, HandleWriteMore, HandleFlush, CloseDrain, CloseFile, CloseRing, QuitSafely
<1>4. CASE UNCHANGED vars
  BY <1>4 DEF vars
<1>5. ASSUME NEW t \in Threads
      PROVE  /\ ScheduleSend(t) => Send("WRITE")
             /\ FlushSend(t) => Send("FLUSH")
             /\ CloseSend(t) => Send("CLOSE")
             /\ ScheduleRemove(t) => queue' = WithoutWrites
  BY DEF ScheduleSend, SendWrite, FlushSend, CloseSend, ScheduleRemove
<1> QED BY <1>1, <1>2, <1>3, <1>4, <1>5 DEF Next, Threads

LEMMA NextTold == ASSUME Told, [Next]_vars PROVE Told'
<1>1. CASE UNCHANGED <<queue, job>>
  BY <1>1 DEF Told
<1>2. ASSUME NEW t \in Threads, \/ ScheduleSend(t) /\ Send("WRITE")
                                \/ FlushSend(t) /\ Send("FLUSH")
                                \/ CloseSend(t) /\ Send("CLOSE")
                                \/ ScheduleRemove(t) /\ queue' = WithoutWrites
      PROVE  Told'
  <2>1. UNCHANGED job
    BY <1>2 DEF ScheduleSend, FlushSend, CloseSend, ScheduleRemove, wlocal
  <2>2. queue' \in Seq(Messages)
    BY <1>2, SendQueues, RemoveQueues DEF Told, Messages
  <2> QED BY <2>1, <2>2 DEF Told
<1>3. CASE TakeMessage
  BY <1>3, TailQueues DEF TakeMessage, Told
<1> QED BY <1>1, <1>2, <1>3, QueueSteps

LEMMA NextTypes == ASSUME IInv, IInv', Types, [Next]_vars PROVE Types'
BY NextFlags, NextLabelled, NextSizes, NextTold DEF Types

LEMMA TypesTypeOK == ASSUME IInv, Types PROVE TypeOK
BY DEF IInv, Typed, Types, Flags, Labelled, Sizes, Told, TypeOK

(* Every variable keeps its type, queue, chunk and buffers their sizes,    *)
(* and each thread stays in the steps that are its own.                    *)
THEOREM TypeCorrect == Spec => []TypeOK
<1>1. Init => Types
  BY InitTypes
<1>2. IInv /\ IInv' /\ Types /\ [Next]_vars => Types'
  BY NextTypes
<1>3. IInv /\ Types => TypeOK
  BY TypesTypeOK
<1> QED BY <1>1, <1>2, <1>3, Invariance, PTL DEF Spec

-----------------------------------------------------------------------------
(* Who closes, and what is left to do.                                     *)

Closers == {"c_check", "c_set", "c_wtest", "c_wset", "c_send"}
Ending  == Queued("CLOSE") \/ job = "CLOSE" \/ looper # "running" \/ ~ringOpen \/ Crashed

(* close sets mClosed and then mWorkerClosed, unless another close does,   *)
(* and nothing of the worker ends before.                                  *)
Closing ==
  /\ mWorkerClosed => mClosed
  /\ \A t \in Threads : /\ pc[t] \in {"c_wtest", "c_wset"} => mClosed
                        /\ pc[t] = "c_send" => mWorkerClosed
  /\ mClosed => mWorkerClosed \/ \E t \in Threads : pc[t] \in {"c_wtest", "c_wset"}
  /\ Ending => mWorkerClosed

(* The message the worker is at.                                           *)
Jobs ==
  /\ pc[Worker] \in {"cl_drain", "cl_flush", "cl_file", "cl_ring", "cl_quit"} => job = "CLOSE"
  /\ pc[Worker] \in Closers /\ ret[Worker] = "cl_file" => job = "CLOSE"
  /\ pc[Worker] = "hf" => job = "FLUSH"

(* A thread that closes takes the steps of close; every other step leaves  *)
(* the flags and what close promised alone.                                *)
LEMMA CloserSteps ==
  ASSUME Types, [Next]_vars
  PROVE  \/ /\ UNCHANGED <<mClosed, mWorkerClosed, promised>>
            /\ \/ UNCHANGED pc
               \/ \E t \in Threads : /\ pc[t] \notin Closers
                                     /\ \E label : /\ label \notin Closers \ {"c_check"} /\ label # "crashed"
                                                   /\ pc' = [pc EXCEPT ![t] = label]
         \/ \E t \in Threads : \/ CloseTest(t) \/ CloseSet(t) \/ CloseWorkerTest(t) \/ CloseWorkerSet(t)
                               \/ CloseSend(t) \/ UseClosedRing(t)
<1> USE DEF Goto, CallClose, flags
<1> DEFINE Passing(t) == /\ UNCHANGED <<mClosed, mWorkerClosed, promised>>
                         /\ pc[t] \notin Closers
                         /\ \E label : /\ label \notin Closers \ {"c_check"} /\ label # "crashed"
                                       /\ pc' = [pc EXCEPT ![t] = label]
<1>1. ASSUME NEW t \in Users, CallStarts(t) PROVE Passing(t)
  BY <1>1 DEF CallStarts, WriteCall, FlushCall, CloseCall, Begin, Closers
<1>2. ASSUME NEW t \in Users, UserSteps(t) PROVE Passing(t)
  BY <1>2 DEF UserSteps, WriteAvail, WriteRing, WriteSleep, WriteInterrupted, FlushTest, FlushSend, Closers
<1>3. ASSUME NEW t \in Threads, ScheduleTest(t) \/ ScheduleRemove(t) \/ ScheduleSend(t) PROVE Passing(t)
  BY <1>3 DEF ScheduleTest, ScheduleRemove, ScheduleSend, AfterSchedule, Closers
<1>4. ASSUME TakeMessage PROVE Passing(Worker)
  <2> DEFINE label == CASE job' = "WRITE" -> "hw_avail" [] job' = "FLUSH" -> "hf" [] OTHER -> "cl_drain"
  <2>1. label \notin Closers /\ label # "crashed"
    BY DEF Closers
  <2>2. pc' = [pc EXCEPT ![Worker] = label] /\ pc[Worker] = "idle" /\ UNCHANGED <<mClosed, mWorkerClosed, promised>>
    BY <1>4 DEF TakeMessage
  <2> HIDE DEF label
  <2> QED BY <2>1, <2>2 DEF Closers
<1>5. CASE LooperExits
  BY <1>5 DEF LooperExits
<1>6. ASSUME HandleWriteFile \/ HandleWriteRejected \/ HandleFlush PROVE Passing(Worker)
  BY <1>6 DEF HandleWriteFile, HandleWriteRejected, HandleFlush, JobFails, Closers
<1>7. ASSUME \/ HandleWriteAvail \/ HandleWriteRead \/ HandleWriteMore \/ CloseDrain \/ CloseFile \/ CloseRing
             \/ QuitSafely
      PROVE  Passing(Worker)
  BY <1>7 DEF HandleWriteAvail, HandleWriteRead, HandleWriteMore, CloseDrain, CloseFile, CloseRing,
     QuitSafely, AfterSchedule, Closers
<1>8. CASE UNCHANGED vars
  BY <1>8 DEF vars
<1>9. Worker \in Threads /\ Users \subseteq Threads
  BY DEF Threads
<1> HIDE DEF Passing
<1>10. ASSUME NEW t \in Threads, Passing(t)
       PROVE  /\ UNCHANGED <<mClosed, mWorkerClosed, promised>>
              /\ pc[t] \notin Closers
              /\ \E label : /\ label \notin Closers \ {"c_check"} /\ label # "crashed"
                            /\ pc' = [pc EXCEPT ![t] = label]
  BY <1>10 DEF Passing
<1> QED
  BY <1>1, <1>2, <1>3, <1>4, <1>5, <1>6, <1>7, <1>8, <1>9, <1>10 DEF Next, SharedSteps, WorkerSteps

(* The worker comes to an end after a CLOSE message, and only then.        *)
LEMMA EndingStep ==
  ASSUME Types, Jobs, [Next]_vars, Ending'
  PROVE  Ending \/ \E t \in Threads : CloseSend(t)
<1> SUFFICES ASSUME \A t \in Threads : ~CloseSend(t), ~Ending PROVE FALSE
  OBVIOUS
<1>0. queue \in Seq(Messages) /\ Worker \in Threads
  BY DEF Types, Told, Threads
<1>1. ~Queued("CLOSE")' /\ job' # "CLOSE"
  <2>1. CASE UNCHANGED <<queue, job>>
    BY <2>1 DEF Ending, Queued
  <2>2. ASSUME NEW t \in Threads, \/ ScheduleSend(t) /\ Send("WRITE")
                                  \/ FlushSend(t) /\ Send("FLUSH")
                                  \/ ScheduleRemove(t) /\ queue' = WithoutWrites
        PROVE  ~Queued("CLOSE")' /\ job' # "CLOSE"
    <3>1. UNCHANGED job
      BY <2>2 DEF ScheduleSend, FlushSend, ScheduleRemove, wlocal
    <3>2. ~Queued("CLOSE")'
      BY <1>0, <2>2, SendQueues, RemoveQueues DEF Messages, Ending
    <3> QED BY <3>1, <3>2 DEF Ending
  <2>3. CASE TakeMessage
    BY <1>0, <2>3, TailQueues DEF TakeMessage, Ending
  <2> QED BY <2>1, <2>2, <2>3, QueueSteps
<1>2. UNCHANGED <<looper, ringOpen>>
  <2> USE DEF handler, ringv
  <2>1. ASSUME NEW t \in Users, CallStarts(t) \/ UserSteps(t) PROVE UNCHANGED <<looper, ringOpen>>
    BY <2>1 DEF CallStarts, WriteCall, FlushCall, CloseCall, UserSteps, WriteAvail, WriteRing, WriteSleep,
       WriteInterrupted, FlushTest, FlushSend
  <2>2. ASSUME NEW t \in Threads, SharedSteps(t) PROVE UNCHANGED <<looper, ringOpen>>
    BY <2>2 DEF SharedSteps, ScheduleTest, ScheduleRemove, ScheduleSend, CloseTest, CloseSet,
       CloseWorkerTest, CloseWorkerSet, CloseSend, UseClosedRing
  <2>3. ~LooperExits /\ ~CloseRing /\ ~QuitSafely
    BY DEF LooperExits, CloseRing, QuitSafely, Jobs, Ending
  <2>4. CASE \/ TakeMessage \/ HandleWriteAvail \/ HandleWriteRead \/ HandleWriteFile \/ HandleWriteRejected
             \/ HandleWriteMore \/ HandleFlush \/ CloseDrain \/ CloseFile
    BY <2>4 DEF TakeMessage, HandleWriteAvail, HandleWriteRead, HandleWriteFile, HandleWriteRejected,
       HandleWriteMore, HandleFlush, CloseDrain, CloseFile
  <2>5. CASE UNCHANGED vars
    BY <2>5 DEF vars
  <2> QED BY <1>0, <2>1, <2>2, <2>3, <2>4, <2>5 DEF Next, WorkerSteps, Threads
<1>3. ~Crashed'
  <2>1. \A t \in Threads : ~UseClosedRing(t) /\ pc[t] # "crashed" /\ ret[t] # "crashed"
    BY DEF UseClosedRing, Ending, Crashed, Types, Labelled
  <2>2. DOMAIN pc = Threads
    BY DEF Types, Labelled
  <2>3. ASSUME NEW t \in Threads, CloseTest(t) \/ CloseSet(t) \/ CloseWorkerTest(t) \/ CloseWorkerSet(t)
        PROVE  ~Crashed'
    BY <2>1, <2>2, <2>3 DEF CloseTest, CloseSet, CloseWorkerTest, CloseWorkerSet, Goto, Crashed
  <2> QED BY <2>1, <2>2, <2>3, CloserSteps DEF Crashed
<1> QED BY <1>1, <1>2, <1>3 DEF Ending

LEMMA NextClosing == ASSUME Types, Closing, Jobs, [Next]_vars PROVE Closing'
<1>0. /\ DOMAIN pc = Threads /\ mClosed \in BOOLEAN /\ mWorkerClosed \in BOOLEAN
      /\ \A t \in Threads : ret[t] \notin Closers
  BY DEF Types, Labelled, Flags, Closers
<1>01. Ending' => mWorkerClosed
  BY EndingStep DEF CloseSend, Closing
<1>1. CASE /\ UNCHANGED <<mClosed, mWorkerClosed>>
           /\ \/ UNCHANGED pc
              \/ \E t \in Threads : /\ pc[t] \notin Closers
                                    /\ \E label : /\ label \notin Closers \ {"c_check"}
                                                  /\ pc' = [pc EXCEPT ![t] = label]
  <2>1. \A u \in Threads : /\ pc'[u] \in Closers \ {"c_check"} => pc'[u] = pc[u]
                           /\ pc[u] \in Closers => pc'[u] = pc[u]
    BY <1>0, <1>1
  <2> QED BY <1>01, <1>1, <2>1 DEF Closing, Closers
<1>2. ASSUME NEW t \in Threads, CloseTest(t) PROVE Closing'
  BY <1>0, <1>01, <1>2 DEF CloseTest, Closing, Closers, Goto, flags
<1>3. ASSUME NEW t \in Threads, CloseSet(t) PROVE Closing'
  BY <1>0, <1>01, <1>3 DEF CloseSet, Closing, Closers, Goto
<1>4. ASSUME NEW t \in Threads, CloseWorkerTest(t) PROVE Closing'
  BY <1>0, <1>01, <1>4 DEF CloseWorkerTest, Closing, Closers, Goto, flags
<1>5. ASSUME NEW t \in Threads, CloseWorkerSet(t) PROVE Closing'
  BY <1>0, <1>5 DEF CloseWorkerSet, Closing, Closers, Goto
<1>6. ASSUME NEW t \in Threads, CloseSend(t) PROVE Closing'
  BY <1>0, <1>6 DEF CloseSend, Closing, Closers, Goto, flags
<1>7. ASSUME NEW t \in Threads, UseClosedRing(t) PROVE Closing'
  BY <1>0, <1>7 DEF UseClosedRing, Closing, Closers, Ending, flags
<1> QED BY <1>1, <1>2, <1>3, <1>4, <1>5, <1>6, <1>7, CloserSteps

(* The worker is at the end of a close only in a CLOSE job.                *)
LEMMA NextJobs == ASSUME IInv, Types, Jobs, [Next]_vars PROVE Jobs'
<1> USE DEF Goto, CallClose, wlocal
<1>0. /\ Worker \in Threads /\ DOMAIN pc = Threads /\ DOMAIN ret = Threads
      /\ ret[Worker] \in {"idle", "cl_file"} /\ Worker \notin Users
  BY WriterAssumption DEF Types, Labelled, Threads, WriterAssumption
<1>1. ASSUME NEW t \in Users, CallStarts(t) \/ UserSteps(t) PROVE Jobs'
  <2>1. pc'[Worker] = pc[Worker] /\ ret'[Worker] = ret[Worker] /\ job' = job
    BY <1>0, <1>1 DEF CallStarts, WriteCall, FlushCall, CloseCall, UserSteps, WriteAvail, WriteRing, WriteSleep,
       WriteInterrupted, FlushTest, FlushSend
  <2> QED BY <2>1 DEF Jobs
<1>2. ASSUME NEW t \in Users, SharedSteps(t) PROVE Jobs'
  <2>1. /\ pc'[Worker] = pc[Worker] \/ pc'[Worker] = "crashed"
        /\ ret'[Worker] = ret[Worker] /\ job' = job
    BY <1>0, <1>2 DEF SharedSteps, ScheduleTest, ScheduleRemove, ScheduleSend, CloseTest, CloseSet,
       CloseWorkerTest, CloseWorkerSet, CloseSend, UseClosedRing
  <2> QED BY <2>1 DEF Jobs, Closers
<1>3. CASE SharedSteps(Worker)
  <2>1. job' = job /\ ret' = ret
    BY <1>3 DEF SharedSteps, ScheduleTest, ScheduleRemove, ScheduleSend, CloseTest, CloseSet,
       CloseWorkerTest, CloseWorkerSet, CloseSend, UseClosedRing
  <2>2. CASE ScheduleTest(Worker) \/ ScheduleRemove(Worker) \/ ScheduleSend(Worker)
    BY <1>0, <2>1, <2>2 DEF Jobs, Closers, ScheduleTest, ScheduleRemove, ScheduleSend, AfterSchedule
  <2>3. CASE \/ CloseTest(Worker) \/ CloseSet(Worker) \/ CloseWorkerTest(Worker) \/ CloseWorkerSet(Worker)
             \/ CloseSend(Worker)
    BY <1>0, <2>1, <2>3 DEF Jobs, Closers, CloseTest, CloseSet, CloseWorkerTest, CloseWorkerSet, CloseSend
  <2>4. CASE UseClosedRing(Worker)
    BY <1>0, <2>1, <2>4 DEF Jobs, Closers, UseClosedRing
  <2> QED BY <1>3, <2>2, <2>3, <2>4 DEF SharedSteps
<1>4. CASE TakeMessage
  <2>1. Head(queue) \in Messages /\ job' = Head(queue) /\ ret' = ret
    BY <1>4, TailQueues DEF TakeMessage, Types, Told
  <2>2. CASE job' = "WRITE"
    BY <1>0, <1>4, <2>1, <2>2 DEF TakeMessage, Jobs, Closers
  <2>3. CASE job' = "FLUSH"
    BY <1>0, <1>4, <2>1, <2>3 DEF TakeMessage, Jobs, Closers
  <2>4. CASE job' = "CLOSE"
    <3>1. pc'[Worker] # "hf"
      BY <1>0, <1>4, <2>4 DEF TakeMessage
    <3> QED BY <2>4, <3>1 DEF Jobs
  <2> QED BY <2>1, <2>2, <2>3, <2>4 DEF Messages
<1>5. CASE HandleWriteFile \/ HandleWriteRejected \/ HandleFlush
  BY <1>0, <1>5 DEF HandleWriteFile, HandleWriteRejected, HandleFlush, JobFails, Jobs, Closers
<1>6. CASE HandleWriteAvail \/ HandleWriteRead \/ HandleWriteMore \/ CloseDrain
  BY <1>0, <1>6 DEF HandleWriteAvail, HandleWriteRead, HandleWriteMore, CloseDrain, AfterSchedule, Jobs, Closers
<1>7. CASE CloseFile \/ CloseRing \/ QuitSafely \/ LooperExits
  BY <1>0, <1>7 DEF CloseFile, CloseRing, QuitSafely, LooperExits, Jobs, Closers
<1>8. CASE UNCHANGED vars
  BY <1>8 DEF vars, Jobs
<1> QED BY <1>1, <1>2, <1>3, <1>4, <1>5, <1>6, <1>7, <1>8 DEF Next, WorkerSteps

(* Somebody looks after the ring: NoLostWakeup with its parts named.       *)
Watching(t) ==
  \/ pc[t] \in {"w_sched", "w_remove", "w_send", "c_check", "c_set", "c_wtest", "c_wset"}
  \/ t = Worker /\ pc[t] \in {"hw_avail", "hw_read", "hw_file", "hw_more"}
Watched == Queued("WRITE") \/ \E t \in Threads : Watching(t)
Fetched == ring # <<>> /\ ~mWorkerClosed => Watched

LEMMA FetchedWakeup == ASSUME Types PROVE Fetched <=> NoLostWakeup
<1>1. DOMAIN queue = 1..Len(queue) /\ Worker \in Threads
  BY DEF Types, Told, Threads
<1> QED BY <1>1 DEF Fetched, Watched, Watching, Queued, NoLostWakeup, InSchedule, InClose

(* A step from one label to another keeps the watch.                       *)
LEMMA WatchKept ==
  ASSUME DOMAIN pc = Threads, NEW t \in Threads, NEW label, pc' = [pc EXCEPT ![t] = label], Watched,
         Watching(t) => Watching(t)', Queued("WRITE") => Queued("WRITE")' \/ Watching(t)'
  PROVE  Watched'
<1>1. \A u \in Threads : u # t => (Watching(u) => Watching(u)')
  BY DEF Watching
<1> QED BY <1>1 DEF Watched

LEMMA UsersFetch ==
  ASSUME Types, Watched, NEW t \in Users, CallStarts(t) \/ UserSteps(t) PROVE Watched'
<1> USE DEF Goto, CallClose
<1>0. DOMAIN pc = Threads /\ t \in Threads /\ t # Worker
  BY WriterAssumption DEF Types, Labelled, Threads, WriterAssumption
<1>1. CASE FlushSend(t)
  <2>1. Queued("WRITE") => Queued("WRITE")'
    BY <1>1, SendQueues DEF FlushSend, Types, Told, Messages
  <2>2. pc' = [pc EXCEPT ![t] = "idle"] /\ ~Watching(t)
    BY <1>0, <1>1 DEF FlushSend, Watching
  <2> QED BY <1>0, <2>1, <2>2, WatchKept
<1>2. CASE ~FlushSend(t)
  <2>1. queue' = queue
    BY <1>2 DEF CallStarts, WriteCall, FlushCall, CloseCall, UserSteps, WriteAvail, WriteRing, WriteSleep,
       WriteInterrupted, FlushTest, handler
  <2>2. PICK label : pc' = [pc EXCEPT ![t] = label] /\ ~Watching(t)
    BY <1>0, <1>2 DEF CallStarts, WriteCall, FlushCall, CloseCall, Begin, UserSteps, WriteAvail, WriteRing,
       WriteSleep, WriteInterrupted, FlushTest, Watching
  <2>3. Queued("WRITE") => Queued("WRITE")'
    BY <2>1 DEF Queued
  <2> QED BY <1>0, <2>2, <2>3, WatchKept
<1> QED BY <1>1, <1>2

LEMMA SharedFetch ==
  ASSUME Types, Closing, Watched, ~mWorkerClosed', NEW t \in Threads, SharedSteps(t) PROVE Watched'
<1> USE DEF Goto, Watching
<1>0. DOMAIN pc = Threads /\ Worker \in Threads /\ queue \in Seq(Messages)
  BY DEF Types, Labelled, Told, Threads
<1>1. ~mWorkerClosed /\ ringOpen /\ looper = "running"
  BY DEF SharedSteps, ScheduleTest, ScheduleRemove, ScheduleSend, CloseTest, CloseSet,
     CloseWorkerTest, CloseWorkerSet, CloseSend, UseClosedRing, flags, Closing, Ending
<1>2. CASE ScheduleTest(t) \/ ScheduleRemove(t) \/ CloseSet(t) \/ CloseWorkerTest(t)
  <2>1. PICK label : pc' = [pc EXCEPT ![t] = label] /\ label \in {"w_remove", "w_send", "c_wtest", "c_wset"}
    BY <1>1, <1>2 DEF ScheduleTest, ScheduleRemove, CloseSet, CloseWorkerTest
  <2> QED BY <1>0, <2>1 DEF Watched
<1>3. CASE ScheduleSend(t)
  <2>1. Queued("WRITE")'
    BY <1>0, <1>1, <1>3, SendQueues DEF ScheduleSend, SendWrite, Messages
  <2> QED BY <2>1 DEF Watched
<1>4. CASE CloseTest(t)
  <2>1. CASE mClosed
    <3>1. PICK u \in Threads : pc[u] \in {"c_wtest", "c_wset"}
      BY <1>1, <2>1 DEF Closing
    <3>2. pc'[u] = pc[u]
      BY <1>4, <3>1 DEF CloseTest
    <3> QED BY <3>1, <3>2 DEF Watched
  <2>2. CASE ~mClosed
    BY <1>0, <1>4, <2>2 DEF CloseTest, Watched
  <2> QED BY <2>1, <2>2
<1>5. ~CloseWorkerSet(t) /\ ~CloseSend(t) /\ ~UseClosedRing(t)
  BY <1>1 DEF CloseWorkerSet, CloseSend, UseClosedRing, Closing
<1> QED BY <1>2, <1>3, <1>4, <1>5 DEF SharedSteps

LEMMA WorkerFetches ==
  ASSUME IInv, Types, Closing, Jobs, Watched, ring # <<>>, WorkerSteps, ~SharedSteps(Worker)
  PROVE  Watched'
<1> USE DEF Goto, CallClose
<1>0. /\ DOMAIN pc = Threads /\ Worker \in Threads /\ queue \in Seq(Messages) /\ ring \in Seq(Nat)
      /\ Len(ring) \in Nat /\ Len(ring) > 0 /\ ChunkSize \in Nat /\ ChunkSize > 0
  BY RingRoom, EmptySeq, WriterAssumption DEF IInv, Typed, Types, Labelled, Told, Threads, WriterAssumption
<1>1. CASE HandleWriteAvail \/ HandleWriteRead \/ HandleWriteFile \/ HandleWriteRejected \/ HandleWriteMore
  <2>1. HandleWriteAvail => toRead' > 0
    <3>1. Len(ring) \in Nat /\ ChunkSize \in Nat
      BY <1>0
    <3>2. Min({Len(ring), ChunkSize}) > 0
      BY <1>0, <3>1, MinOf
    <3> QED BY <3>2 DEF HandleWriteAvail, NextChunk, AvailableRead
  <2>2. PICK label : /\ pc' = [pc EXCEPT ![Worker] = label]
                     /\ label \in {"hw_read", "hw_file", "hw_more", "c_check", "w_sched"}
    BY <1>0, <1>1, <2>1 DEF HandleWriteAvail, HandleWriteRead, HandleWriteFile, HandleWriteRejected,
       HandleWriteMore, JobFails, MoreToWrite, AvailableRead
  <2>3. Watching(Worker)'
    BY <1>0, <2>2 DEF Watching
  <2> QED BY <1>0, <2>3 DEF Watched
<1>2. CASE TakeMessage
  <2>1. /\ Head(queue) \in Messages /\ job' = Head(queue) /\ ~Watching(Worker)
        /\ Queued("WRITE") => Head(queue) = "WRITE" \/ Queued("WRITE")'
    BY <1>0, <1>2, TailQueues DEF TakeMessage, Watching
  <2>2. CASE Head(queue) = "WRITE"
    BY <1>0, <1>2, <2>1, <2>2 DEF TakeMessage, Watched, Watching
  <2>3. CASE Head(queue) # "WRITE"
    <3>1. PICK label : pc' = [pc EXCEPT ![Worker] = label]
      BY <1>2 DEF TakeMessage
    <3> QED BY <1>0, <2>1, <2>3, <3>1, WatchKept
  <2> QED BY <2>2, <2>3
<1>3. CASE HandleFlush \/ CloseDrain \/ CloseFile \/ CloseRing \/ QuitSafely
  <2>1. PICK label : pc' = [pc EXCEPT ![Worker] = label]
    BY <1>3 DEF HandleFlush, JobFails, CloseDrain, CloseFile, CloseRing, QuitSafely
  <2>2. ~Watching(Worker) /\ queue' = queue
    BY <1>3 DEF HandleFlush, CloseDrain, CloseFile, CloseRing, QuitSafely, Watching, handler
  <2>3. Queued("WRITE") => Queued("WRITE")'
    BY <2>2 DEF Queued
  <2> QED BY <1>0, <2>1, <2>2, <2>3, WatchKept
<1>4. CASE LooperExits
  BY <1>4 DEF LooperExits, Watched, Watching, Queued
<1> QED BY <1>1, <1>2, <1>3, <1>4 DEF WorkerSteps

(* Only a write adds to the ring, and its thread will queue a message.     *)
LEMMA RingFills ==
  ASSUME IInv, [Next]_vars, ring' # <<>>
  PROVE  ring # <<>> \/ \E t \in Users : WriteRing(t)
<1> SUFFICES ASSUME ring = <<>>, \A t \in Users : ~WriteRing(t) PROVE ring' = <<>>
  OBVIOUS
<1> USE DEF ringv
<1>1. ASSUME NEW t \in Users, CallStarts(t) \/ UserSteps(t) PROVE ring' = ring
  BY <1>1 DEF CallStarts, WriteCall, FlushCall, CloseCall, UserSteps, WriteAvail, WriteSleep,
     WriteInterrupted, FlushTest, FlushSend
<1>2. ASSUME NEW t \in Threads, SharedSteps(t) PROVE ring' = ring
  BY <1>2 DEF SharedSteps, ScheduleTest, ScheduleRemove, ScheduleSend, CloseTest, CloseSet,
     CloseWorkerTest, CloseWorkerSet, CloseSend, UseClosedRing
<1>3. CASE HandleWriteRead
  <2>1. toRead \in Nat /\ toRead <= Len(ring) /\ Len(ring) = 0
    BY <1>3 DEF HandleWriteRead, IInv, Typed, Placed
  <2>2. toRead \in 0..Len(ring) /\ ring \in Seq(Nat)
    BY <2>1 DEF IInv, Typed
  <2>3. ring' \in Seq(Nat) /\ Len(ring') = 0
    BY <1>3, <2>1, <2>2, Split DEF HandleWriteRead, AfterChunk
  <2> QED BY <2>3, EmptySeq
<1>4. CASE \/ TakeMessage \/ LooperExits \/ HandleWriteAvail \/ HandleWriteFile \/ HandleWriteRejected
           \/ HandleWriteMore \/ HandleFlush \/ CloseDrain \/ CloseFile \/ CloseRing \/ QuitSafely
  BY <1>4 DEF TakeMessage, LooperExits, HandleWriteAvail, HandleWriteFile, HandleWriteRejected,
     HandleWriteMore, HandleFlush, CloseDrain, CloseFile, CloseRing, QuitSafely
<1>5. CASE UNCHANGED vars
  BY <1>5 DEF vars
<1> QED BY <1>1, <1>2, <1>3, <1>4, <1>5 DEF Next, WorkerSteps, Threads

LEMMA NextFetched == ASSUME IInv, Types, Closing, Jobs, Fetched, [Next]_vars PROVE Fetched'
<1> SUFFICES ASSUME ring' # <<>>, ~mWorkerClosed' PROVE Watched'
  BY DEF Fetched
<1>0. DOMAIN pc = Threads /\ Users \subseteq Threads
  BY DEF Types, Labelled, Threads
<1>1. ~mWorkerClosed
  BY CloserSteps DEF CloseTest, CloseSet, CloseWorkerTest, CloseWorkerSet, CloseSend, UseClosedRing, flags
<1>2. ASSUME NEW t \in Users, WriteRing(t) PROVE Watched'
  BY <1>0, <1>2 DEF WriteRing, Goto, CallClose, Watched, Watching
<1>3. CASE ring # <<>>
  <2>1. Watched
    BY <1>1, <1>3 DEF Fetched
  <2>2. CASE UNCHANGED vars
    BY <2>1, <2>2 DEF vars, handler, Watched, Watching, Queued
  <2> QED BY <1>3, <2>1, <2>2, UsersFetch, SharedFetch, WorkerFetches DEF Next, WorkerSteps, Threads
<1> QED BY <1>2, <1>3, RingFills

(* While nothing has failed, the worker does not close, and what close     *)
(* promised is in file and buffer after the drain, in the file after the   *)
(* flush, and remains there.                                               *)
Ended == looper # "running" \/ ~ringOpen
Drains ==
  faults = 0 =>
    /\ pc[Worker] \notin Closers
    /\ pc[Worker] = "cl_flush" => Len(disk) + Len(buf) >= promised
    /\ pc[Worker] \in {"cl_file", "cl_ring", "cl_quit"} \/ Ended => Len(disk) >= promised

Finishing == pc[Worker] \in {"cl_flush", "cl_file", "cl_ring", "cl_quit"} \/ Ended

(* After mWorkerClosed, close promises nothing new.                        *)
LEMMA PromiseStands ==
  ASSUME Types, Closing, Jobs, [Next]_vars
  PROVE  mClosed \/ Finishing => promised' = promised
<1>1. Finishing => mClosed
  BY DEF Finishing, Closing, Jobs, Ending, Ended
<1> QED BY <1>1, CloserSteps DEF CloseTest, CloseSet, CloseWorkerTest, CloseWorkerSet, CloseSend, UseClosedRing

(* The steps that leave the file and the end of the worker's close alone.  *)
LEMMA DrainsStand ==
  ASSUME Types, Closing, Jobs, Drains, [Next]_vars, UNCHANGED <<disk, buf, looper, ringOpen>>, faults' = 0 => faults = 0,
         \/ pc'[Worker] = pc[Worker]
         \/ pc'[Worker] \notin Closers \cup {"cl_flush", "cl_file", "cl_ring", "cl_quit"}
  PROVE  Drains'
BY PromiseStands DEF Drains, Finishing, Ended

LEMMA OthersDrain ==
  ASSUME Types, Closing, Jobs, Drains, [Next]_vars,
         \/ \E t \in Users : CallStarts(t) \/ UserSteps(t) \/ SharedSteps(t)
         \/ SharedSteps(Worker)
         \/ UNCHANGED vars
  PROVE  Drains'
<1> USE DEF Goto, CallClose, file, handler, ringv
<1>0. DOMAIN pc = Threads /\ Worker \in Threads /\ Worker \notin Users
  BY WriterAssumption DEF Types, Labelled, Threads, WriterAssumption
<1>1. ASSUME NEW t \in Users, CallStarts(t) \/ UserSteps(t) PROVE Drains'
  <2>1. UNCHANGED <<disk, buf, looper, ringOpen>> /\ (faults' = 0 => faults = 0) /\ pc'[Worker] = pc[Worker]
    <3>1. CASE WriteInterrupted(t)
      BY <1>0, <3>1 DEF WriteInterrupted, Fault, Types, Flags
    <3>2. CASE ~WriteInterrupted(t)
      BY <1>0, <1>1, <3>2 DEF CallStarts, WriteCall, FlushCall, CloseCall, UserSteps, WriteAvail, WriteRing,
         WriteSleep, FlushTest, FlushSend
    <3> QED BY <3>1, <3>2
  <2> QED BY <2>1, DrainsStand
<1>2. ASSUME NEW t \in Users, SharedSteps(t) PROVE Drains'
  <2>1. /\ UNCHANGED <<disk, buf, looper, ringOpen, faults>>
        /\ pc'[Worker] = pc[Worker] \/ pc'[Worker] = "crashed"
    BY <1>0, <1>2 DEF SharedSteps, ScheduleTest, ScheduleRemove, ScheduleSend, CloseTest, CloseSet,
       CloseWorkerTest, CloseWorkerSet, CloseSend, UseClosedRing
  <2> QED BY <2>1, DrainsStand DEF Closers
<1>3. CASE SharedSteps(Worker)
  <2>1. UNCHANGED <<disk, buf, looper, ringOpen, faults>>
    BY <1>3 DEF SharedSteps, ScheduleTest, ScheduleRemove, ScheduleSend, CloseTest, CloseSet,
       CloseWorkerTest, CloseWorkerSet, CloseSend, UseClosedRing
  <2>2. CASE ScheduleTest(Worker) \/ ScheduleRemove(Worker) \/ ScheduleSend(Worker) \/ UseClosedRing(Worker)
    <3>1. pc'[Worker] \in {"cl_drain", "idle", "w_remove", "w_send", "crashed"}
      BY <1>0, <2>2 DEF ScheduleTest, ScheduleRemove, ScheduleSend, UseClosedRing, AfterSchedule
    <3> QED BY <2>1, <3>1, DrainsStand DEF Closers
  <2>3. CASE pc[Worker] \in Closers
    BY <2>1, <2>3 DEF Drains
  <2> QED
    BY <1>3, <2>2, <2>3 DEF SharedSteps, CloseTest, CloseSet, CloseWorkerTest, CloseWorkerSet, CloseSend, Closers
<1>4. CASE UNCHANGED vars
  BY <1>4, DrainsStand DEF vars
<1> QED BY <1>1, <1>2, <1>3, <1>4

LEMMA WorkerDrains ==
  ASSUME IInv, IInv', Types, Closing, Jobs, Drains, [Next]_vars, WorkerSteps, ~SharedSteps(Worker)
  PROVE  Drains'
<1> USE DEF Goto, CallClose, file, handler, ringv
<1>0. /\ DOMAIN pc = Threads /\ Worker \in Threads
      /\ Len(disk) \in Nat /\ Len(buf) \in Nat /\ Len(disk \o buf) = Len(disk) + Len(buf)
      /\ faults \in Nat /\ faults' \in Nat /\ accepted \in Nat /\ promised \in 0..accepted
  BY LenProperties, ConcatProperties DEF IInv, Typed, Types, Labelled, Flags, Threads
<1>1. CASE TakeMessage
  <2>1. pc'[Worker] \in {"hw_avail", "hf", "cl_drain"}
    BY <1>0, <1>1 DEF TakeMessage
  <2> QED BY <1>1, <2>1, DrainsStand DEF TakeMessage, Closers
<1>2. CASE HandleWriteAvail \/ HandleWriteRead \/ HandleWriteMore
  <2>1. pc'[Worker] \in {"hw_read", "hw_file", "w_sched", "cl_drain", "idle"}
    BY <1>0, <1>2 DEF HandleWriteAvail, HandleWriteRead, HandleWriteMore, AfterSchedule
  <2> QED BY <1>2, <2>1, DrainsStand DEF HandleWriteAvail, HandleWriteRead, HandleWriteMore, Closers
<1>3. CASE HandleWriteFile \/ HandleWriteRejected
  <2> SUFFICES ASSUME faults' = 0 PROVE Drains'
    BY DEF Drains
  <2>1. faults = 0 /\ HandleWriteFile /\ ~FailedOperation
    BY <1>0, <1>3 DEF HandleWriteFile, HandleWriteRejected, FailedOperation, Fault, IInv, Orderly
  <2>2. pc'[Worker] = "hw_more" /\ UNCHANGED <<looper, ringOpen>>
    BY <1>0, <2>1 DEF HandleWriteFile
  <2>3. Ended => promised' = promised /\ Len(disk') >= Len(disk)
    <3>0. disk \o buf \in Seq(Nat) /\ chunk \in Seq(Nat)
      BY ConcatProperties DEF IInv, Typed
    <3>1. disk' = disk \/ disk' = disk \o buf \/ disk' = (disk \o buf) \o chunk
      BY <2>1 DEF HandleWriteFile, Emit
    <3>2. Len(chunk) \in Nat /\ Len((disk \o buf) \o chunk) = Len(disk \o buf) + Len(chunk)
      BY <3>0, LenProperties, ConcatProperties
    <3> QED BY <1>0, <3>1, <3>2, PromiseStands DEF Finishing, Ended
  <2>4. promised' \in Nat /\ Len(disk') \in Nat
    BY <1>0, <2>1, LenProperties DEF IInv, Typed, HandleWriteFile
  <2> QED BY <1>0, <2>1, <2>2, <2>3, <2>4 DEF Drains, Closers, Ended
<1>4. CASE CloseDrain
  <2> SUFFICES ASSUME faults' = 0 PROVE Drains'
    BY DEF Drains
  <2>1. /\ faults = 0 /\ UNCHANGED <<disk, buf, looper, ringOpen, promised>>
        /\ pc'[Worker] \in {"cl_flush", "hw_avail"}
        /\ pc'[Worker] = "cl_flush" => Len(ring) = 0
    BY <1>0, <1>4 DEF CloseDrain, Drained, AvailableRead
  <2>2. Len(ring) = 0 => Len(disk) + Len(buf) >= promised
    <3>1. chunk = <<>> /\ accepted = Len(disk) + Len(buf) + Len(chunk) + Len(ring)
      BY <1>4, <2>1 DEF CloseDrain, IInv, Placed, Stream, Whole
    <3> QED BY <1>0, <3>1
  <2> QED BY <2>1, <2>2 DEF Drains, Closers, Ended
<1>5. CASE HandleFlush
  <2> SUFFICES ASSUME faults' = 0 PROVE Drains'
    BY DEF Drains
  <2>1. faults = 0 /\ ~FailedOperation /\ UNCHANGED <<looper, ringOpen, promised, job>>
    BY <1>0, <1>5 DEF HandleFlush, FailedOperation, Fault, wlocal
  <2>2. pc'[Worker] = IF job = "CLOSE" THEN "cl_file" ELSE "idle"
    BY <1>0, <1>5, <2>1 DEF HandleFlush
  <2>3. disk' = disk \o buf \/ (disk' = disk /\ buf = <<>>)
    BY <1>5, <2>1 DEF HandleFlush, IInv, Stream
  <2>4. Len(disk') = Len(disk) + Len(buf)
    BY <1>0, <2>3
  <2>5. job = "CLOSE" => pc[Worker] = "cl_flush"
    BY <1>5 DEF HandleFlush, Jobs
  <2> QED BY <1>0, <2>1, <2>2, <2>4, <2>5 DEF Drains, Closers, Ended
<1>6. CASE CloseFile
  <2> SUFFICES ASSUME faults' = 0 PROVE Drains'
    BY DEF Drains
  <2>1. /\ faults = 0 /\ UNCHANGED <<looper, ringOpen, promised>> /\ disk' \in {disk, disk \o buf}
        /\ pc[Worker] = "cl_file" /\ pc'[Worker] = "cl_ring"
    BY <1>0, <1>6 DEF CloseFile, Fault
  <2> QED BY <1>0, <2>1 DEF Drains, Closers, Ended
<1>7. CASE CloseRing \/ QuitSafely
  BY <1>0, <1>7 DEF CloseRing, QuitSafely, Drains, Closers, Ended
<1>8. CASE LooperExits
  BY <1>8 DEF LooperExits, Drains, Ended
<1> QED BY <1>1, <1>2, <1>3, <1>4, <1>5, <1>6, <1>7, <1>8 DEF WorkerSteps

LEMMA NextDrains == ASSUME IInv, IInv', Types, Closing, Jobs, Drains, [Next]_vars PROVE Drains'
BY OthersDrain, WorkerDrains DEF Next, WorkerSteps

Watchful == Types /\ Closing /\ Jobs /\ Fetched /\ Drains

LEMMA InitWatchful == ASSUME Init PROVE Watchful
<1>0. /\ pc[Worker] = "idle" /\ Worker \in Threads /\ \A t \in Threads : pc[t] = "idle"
      /\ ~mClosed /\ ~mWorkerClosed /\ ~Queued("CLOSE") /\ job = "none" /\ looper = "running" /\ ringOpen
      /\ ring = <<>> /\ disk = <<>> /\ promised = 0
  BY DEF Init, Threads, Queued
<1>1. Closing /\ Jobs /\ Fetched
  BY <1>0 DEF Closing, Jobs, Ending, Crashed, Closers, Fetched
<1>2. Drains
  BY <1>0 DEF Drains, Closers, Ended
<1> QED BY <1>1, <1>2, InitTypes DEF Watchful

LEMMA NextWatchful == ASSUME IInv, IInv', Watchful, [Next]_vars PROVE Watchful'
BY NextTypes, NextClosing, NextJobs, NextFetched, NextDrains DEF Watchful

(* In every state: which calls and messages there are while the writer is  *)
(* being closed, whoever fetches the bytes in the ring, and what the bytes *)
(* promised at close wait for.  Code: scheduleWrite, close, handleClose.   *)
THEOREM Watch == Spec => []Watchful
<1>1. Init => Watchful
  BY InitWatchful
<1>2. IInv /\ IInv' /\ Watchful /\ [Next]_vars => Watchful'
  BY NextWatchful
<1> QED BY <1>1, <1>2, Invariance, PTL DEF Spec

(* File, buffer, chunk and ring are together the first accepted bytes, and *)
(* all of them until the ring is freed.                                    *)
LEMMA WholeIsAccepted ==
  ASSUME IInv, faults = 0
  PROVE  \E n \in Nat : /\ Surviving = Bytes(n) /\ Len(disk) <= n /\ n <= accepted
                        /\ ringOpen => n = accepted
<1>1. /\ Len(disk) \in Nat /\ Len(buf) \in Nat /\ Len(chunk) \in Nat /\ Len(ring) \in Nat
      /\ chunk \in Seq(Nat) /\ ring \in Seq(Nat) /\ Whole
      /\ disk \o buf \in Seq(Nat) /\ Len(disk \o buf) = Len(disk) + Len(buf) /\ Run(disk \o buf, 0)
  BY DiskTakesBuffer DEF IInv, Typed
<1> DEFINE front == disk \o buf
<1> HIDE DEF front
<1>2. /\ front \in Seq(Nat) /\ Len(front) = Len(disk) + Len(buf) /\ Run(front, 0)
      /\ Run(chunk, 0 + Len(front))
  BY <1>1 DEF front, Whole
<1>3. /\ front \o chunk \in Seq(Nat) /\ Len(front \o chunk) = Len(front) + Len(chunk)
      /\ Run(front \o chunk, 0)
  BY <1>1, <1>2, RunConcat
<1> DEFINE most == front \o chunk
<1> HIDE DEF most
<1>4. most \in Seq(Nat) /\ Run(most, 0) /\ Len(most) = Len(disk) + Len(buf) + Len(chunk)
  BY <1>2, <1>3 DEF most
<1>5. Run(ring, 0 + Len(most))
  BY <1>1, <1>4 DEF Whole
<1>6. /\ most \o ring \in Seq(Nat) /\ Len(most \o ring) = Len(most) + Len(ring)
      /\ Run(most \o ring, 0)
  BY <1>1, <1>4, <1>5, RunConcat
<1>7. Len(most \o ring) <= accepted /\ (ringOpen => Len(most \o ring) = accepted)
  BY <1>1, <1>4, <1>6 DEF Whole
<1>8. most \o ring = Bytes(Len(most \o ring)) /\ Len(most \o ring) \in Nat
  BY <1>6, LenProperties, RunEqual
<1>9. Surviving = most \o ring /\ Len(disk) <= Len(most \o ring)
  BY <1>1, <1>4, <1>6 DEF Surviving, most, front
<1> QED
  BY <1>7, <1>8, <1>9

LEMMA SurvivingBytes == ASSUME IInv, Watchful PROVE NothingLost
<1> SUFFICES ASSUME faults = 0
             PROVE  /\ ringOpen => Surviving = Bytes(accepted)
                    /\ \E n \in promised..accepted : Surviving = Bytes(n)
  BY DEF NothingLost
<1>1. PICK n \in Nat : /\ Surviving = Bytes(n) /\ Len(disk) <= n /\ n <= accepted
                       /\ ringOpen => n = accepted
  BY WholeIsAccepted
<1>2. promised \in 0..accepted /\ accepted \in Nat /\ Len(disk) \in Nat
  BY LenProperties DEF IInv, Typed, Watchful, Types, Flags
<1>3. promised <= n
  <2>1. CASE ringOpen
    BY <1>1, <1>2, <2>1
  <2>2. CASE ~ringOpen
    <3>1. Len(disk) >= promised
      BY <2>2 DEF Watchful, Drains, Ended
    <3> QED
      BY <1>1, <1>2, <3>1
  <2> QED
    BY <2>1, <2>2
<1>4. n \in promised..accepted
  BY <1>1, <1>2, <1>3
<1>5. ringOpen => Surviving = Bytes(accepted)
  BY <1>1
<1> QED
  BY <1>1, <1>4, <1>5

(* No byte is lost, duplicated or overtaken between write and the file     *)
(* until an operation fails, but those that a write puts into the ring     *)
(* while the writer is closed, between the drain and the end of the ring:  *)
(* for any number of writers and closers, sizes of writes, ring and chunk. *)
(* Code: write, handleWrite, handleClose, FileWriter.write and flush.      *)
THEOREM NoByteLost == Spec => []NothingLost
<1>1. IInv /\ Watchful => NothingLost
  BY SurvivingBytes
<1> QED
  BY <1>1, Invariance, Watch, PTL

(* Bytes never wait in the ring with nobody to fetch them, for any number  *)
(* of writers that remove and send WRITE messages at the same time as the  *)
(* worker, and whatever fails.  Code: scheduleWrite, write, handleWrite.   *)
THEOREM WakeupKept == Spec => []NoLostWakeup
<1>1. Watchful => NoLostWakeup
  BY FetchedWakeup DEF Watchful
<1> QED BY <1>1, Watch, PTL

(* When the worker has ended and nothing failed, the file holds every byte *)
(* the ring had accepted when close began, for any number of threads       *)
(* inside write and close.  Code: close, handleClose, FileWriter.close.    *)
THEOREM DrainedOnClose == Spec => []CloseDrains
<1>1. Watchful => CloseDrains
  BY DEF Watchful, Drains, Ended, CloseDrains
<1> QED BY <1>1, Watch, PTL

=============================================================================
