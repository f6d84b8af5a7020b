------------------------- MODULE MsgQueueHandlerProofs -------------------------
(***************************************************************************)
(* The message queue, for any threads, messages, capacities, failures and  *)
(* bounds: what the queue takes is whole, pushMsg tells the truth, the     *)
(* listener gets the accepted messages in order (FifoPipe); and, if it     *)
(* does not close its own queue, only what destroy has not given back is   *)
(* used, as long as nobody races with close.                               *)
(***************************************************************************)
EXTENDS MsgQueueHandler, SequenceTheorems, FiniteSetTheorems, TLAPS

Message == [head : Nat, body : Nat, len : Int]

(* What the arguments need of the types.                                   *)
Types ==
  /\ cache \in Nat /\ faults \in Nat
  /\ in \in Message \cup {NoBuffer} /\ in_obj_capacity \in Int
  /\ queue \in Seq(Message) /\ accepted \in Seq(Message) /\ delivered \in Seq(Message)
  /\ msg \in Message \cup {NoBuffer} /\ (wpc \in {"handle", "callback"} => msg \in Message)
  /\ DOMAIN pc = Threads
  /\ call \in [Threads -> [id : Nat, len : Int]]

(* A thread that assembles a message holds the application's lock.         *)
Assembles == {"p_check", "p_native", "p_grow", "p_copy", "p_head", "p_try", "p_push", "p_sleep"}
Locked == \A t \in Threads : pc[t] \in Assembles => lock = {t}

(* Only a message with bytes comes to the measuring of the buffer.         *)
Measured == \A t \in Threads : pc[t] = "p_grow" => call[t].len > 0

(* So the shared buffer, unless destroy has taken it away, holds what that *)
(* thread has put there.                                                   *)
Assembly(t) ==
  in # NoBuffer =>
    /\ pc[t] = "p_copy" => call[t].len <= in_obj_capacity
    /\ pc[t] = "p_head" /\ call[t].len > 0 => in.body = call[t].id
    /\ pc[t] \in {"p_try", "p_push", "p_sleep"} =>
         in.head = call[t].id /\ in.len = call[t].len /\ (in.len > 0 => in.body = in.head)

(* Who destroys the queue, and who has been refused, has set flag_exit.    *)
Destroying == {"d_obj", "d_stop", "d_join", "d_free"}
Exiting ==
  /\ \A t \in Threads : pc[t] \in Destroying => flag_exit
  /\ refused => flag_exit

(* What the listener got, what the worker has in hand and what is queued   *)
(* are the accepted messages in order, until the exit.                     *)
Working == {"start", "wait", "pop", "handle", "callback"}
InHand  == IF wpc = "handle" THEN 1 ELSE 0
Flow ==
  /\ Len(delivered) <= Len(accepted)
  /\ \A i \in 1..Len(delivered) : delivered[i] = accepted[i]
  /\ ~flag_exit /\ wpc \in Working =>
       /\ Len(accepted) = Len(delivered) + InHand + Len(queue)
       /\ wpc = "handle" => msg = accepted[Len(delivered) + 1]
       /\ \A i \in 1..Len(queue) : queue[i] = accepted[Len(delivered) + InHand + i]

(* A call that has not returned is pending under a number of its own.      *)
Code == {"pending", "thrown", "null", "exit", "GENERIC_FAIL", "NULL_HANDLE", "SUCCESS", "FULL",
       "closed"}
InCall(t) == pc[t] \notin {"idle", "use_after_free", "null_buffer"}
Calls ==
  /\ res \in Seq(Code)
  /\ \A t \in Threads : InCall(t) => call[t].id \in 1..Len(res) /\ res[call[t].id] = "pending"
  /\ \A t, u \in Threads : InCall(t) /\ InCall(u) /\ call[t].id = call[u].id => t = u

(* The calls that returned SUCCESS are those whose messages were accepted. *)
Recorded ==
  /\ \A i \in 1..Len(accepted) : accepted[i].head \in 1..Len(res) /\
         res[accepted[i].head] = "SUCCESS"
  /\ \A i, j \in 1..Len(accepted) : accepted[i].head = accepted[j].head => i = j
  /\ \A k \in 1..Len(res) : res[k] = "SUCCESS" => \E i \in 1..Len(accepted) : accepted[i].head = k

(* Who closes is an application thread and joins the worker before it      *)
(* frees; the worker calls the API from the listener only; the listener    *)
(* is called with what it needs.                                           *)
Shut ==
  /\ \A t \in Threads : pc[t] \in Closing => t \in Users
  /\ \A t \in Threads : pc[t] = "d_free" => wpc = "ended"
  /\ \A t \in Threads : pc[t] \in {"d_buffer", "d_refs", "d_holder"} => ~obj
  /\ InCall(Worker) => wpc = "callback"
  /\ (~holder => ~obj) /\ (~refs => ~obj) /\ (hFreed => ~obj)
  /\ ~obj => wpc = "ended" \/ Crashed
  /\ wpc = "callback" => env /\ msg.len <= cache

(* While nobody has raced a close and nothing has failed, what is gone is  *)
(* gone by the one thread that closes, or by a close that is over; then    *)
(* nobody comes further than the test of the handle.                       *)
Outside == {"idle", "p_lock", "p_check", "c_lock", "c_check"}
Safe ==
  /\ ~Crashed /\ ~Race
  /\ \A t \in Threads : pc[t] \notin {"use_after_free", "null_buffer"}
  /\ ~obj => ~holder \/ \E t \in Users : pc[t] \in {"d_buffer", "d_refs", "d_holder"}
  /\ in = NoBuffer => ~holder \/ \E t \in Users : pc[t] \in {"d_refs", "d_holder"}
  /\ ~holder => \A t \in Threads : pc[t] \in Outside
Alone == ~raced /\ faults = 0 => Safe

-----------------------------------------------------------------------------

(* A message is never mistaken for the missing buffer.                     *)
LEMMA MessageIsBuffer == ASSUME NEW m \in Message PROVE m # NoBuffer
<1>1. DOMAIN m = {"head", "body", "len"}
  BY DEF Message
<1>2. DOMAIN NoBuffer = {}
  BY DEF NoBuffer
<1> QED
  BY <1>1, <1>2

(* The types hold at first and are kept by every step.                     *)
LEMMA InitTypes == Init => Types
<1> SUFFICES ASSUME Init PROVE Types
  OBVIOUS
<1>1. in \in Message /\ call \in [Threads -> [id : Nat, len : Int]]
  BY DEF Init, Message
<1>2. queue \in Seq(Message) /\ accepted \in Seq(Message) /\ delivered \in Seq(Message)
  BY DEF Init
<1>3. cache \in Nat /\ faults \in Nat /\ in_obj_capacity \in Int
  BY QueueAssumption DEF Init, QueueAssumption
<1>4. DOMAIN pc = Threads /\ msg = NoBuffer /\ wpc = "start"
  BY DEF Init
<1> QED
  BY <1>1, <1>2, <1>3, <1>4 DEF Types

LEMMA CallTypes == ASSUME Types, NEW t \in Threads, CallStarts(t) PROVE Types'
<1> USE DEF Goto, context, buffer, handler, worker, history, Begin
<1>1. ASSUME NEW len \in Lens, PushCall(t, len) PROVE Types'
  BY <1>1, QueueAssumption DEF Types, PushCall, QueueAssumption
<1>2. CASE CloseCall(t)
  BY <1>2, QueueAssumption DEF Types, CloseCall
<1> QED
  BY <1>1, <1>2 DEF CallStarts

(* The steps of a call that leave the data alone.                          *)
PlainSteps(t) ==
  \/ PushLock(t) \/ PushCheck(t) \/ PushNative(t) \/ PushTry(t) \/ PushRefused(t) \/ PushFull(t)
  \/ PushSleep(t) \/ CloseLock(t) \/ CloseCheck(t) \/ CloseNative(t)
  \/ DestroyObj(t) \/ DestroyStop(t) \/ DestroyJoin(t) \/ DestroyHolder(t)

LEMMA PlainTypes == ASSUME Types, NEW t \in Threads, PlainSteps(t) PROVE Types'
<1> USE DEF Goto, Return, context, buffer, handler, thread, worker, history
<1>1. UNCHANGED <<buffer, queue, worker, history, call, cache, faults>> /\ DOMAIN pc' = DOMAIN pc
  BY DEF PlainSteps, PushLock, PushCheck, PushNative, PushTry, PushRefused, PushFull, PushSleep,
         CloseLock, CloseCheck, CloseNative, DestroyObj, DestroyStop, DestroyJoin, DestroyHolder
<1> QED
  BY <1>1 DEF Types

LEMMA DataTypes ==
  ASSUME Types, NEW t \in Threads,
         \/ PushGrow(t) \/ PushCopy(t) \/ PushHead(t) \/ PushAccepted(t)
         \/ DestroyFree(t) \/ DestroyBuffer(t) \/ DestroyRefs(t)
         \/ UseAfterFree(t) \/ NullBuffer(t)
  PROVE Types'
<1> USE DEF Goto, Return, Crash, context, buffer, handler, thread, worker, history
<1>1. CASE PushGrow(t)
  BY <1>1 DEF Types, PushGrow, Fault, Message
<1>2. CASE PushCopy(t)
  BY <1>2 DEF Types, PushCopy, Message
<1>3. CASE PushHead(t)
  BY <1>3 DEF Types, PushHead, Assembled, Message
<1>4. CASE PushAccepted(t)
  BY <1>4 DEF Types, PushAccepted, AfterPush
<1>5. CASE DestroyFree(t)
  <2>1. queue' \in Seq(Message)
    BY <1>5 DEF DestroyFree
  <2> QED
    BY <1>5, <2>1 DEF Types, DestroyFree
<1>6. CASE DestroyBuffer(t) \/ DestroyRefs(t)
  BY <1>6 DEF Types, DestroyBuffer, DestroyRefs
<1>7. CASE UseAfterFree(t) \/ NullBuffer(t)
  BY <1>7 DEF Types, UseAfterFree, NullBuffer
<1> QED
  BY <1>1, <1>2, <1>3, <1>4, <1>5, <1>6, <1>7

LEMMA WorkerTypes == ASSUME Types, WorkerSteps PROVE Types'
<1> USE DEF Crash, WorkerGoto, context, buffer, handler, thread, worker, history
<1>1. CASE Ready \/ Wait \/ ExitSeen \/ Discard \/ Detached \/ Stop \/ ListenerReturns
           \/ \E r \in {-1, 1} : ListenerRefuses(r)
  <2>1. UNCHANGED <<buffer, queue, msg, accepted, delivered, call, cache, pc>>
    BY <1>1 DEF Ready, Wait, ExitSeen, Discard, Detached, Stop, ListenerReturns, ListenerRefuses
  <2>2. wpc' \notin {"handle", "callback"}
    BY <1>1 DEF Ready, Wait, ExitSeen, Discard, Detached, Stop, ListenerReturns, ListenerRefuses
  <2>3. faults' \in Nat
    BY <1>1 DEF Types, Ready, Wait, ExitSeen, Discard, Detached, Stop, ListenerReturns,
           ListenerRefuses, Fault
  <2> QED
    BY <2>1, <2>2, <2>3 DEF Types
<1>2. CASE Pop
  BY <1>2, HeadTailProperties DEF Types, Pop
<1>3. CASE CallListener
  <2>1. msg \in Message /\ msg.len \in Int /\ cache' \in Nat
    BY <1>3 DEF Types, CallListener, CacheFor, Message
  <2>2. delivered' \in Seq(Message)
    <3>1. delivered' = Append(delivered, msg) /\ delivered \in Seq(Message)
      BY <1>3 DEF Types, CallListener, Deliverable
    <3> QED
      BY <2>1, <3>1, AppendProperties
  <2> QED
    BY <1>3, <2>1, <2>2 DEF Types, CallListener
<1>4. CASE NullCache
  BY <1>4 DEF Types, NullCache, Fault
<1> QED
  BY <1>1, <1>2, <1>3, <1>4 DEF WorkerSteps

LEMMA StepTypes == ASSUME Types, [Next]_vars PROVE Types'
<1>1. CASE UNCHANGED vars
  BY <1>1 DEF Types, vars, context, buffer, handler, thread, worker, history
<1>2. ASSUME NEW t \in Threads, CallStarts(t) \/ CallSteps(t) PROVE Types'
  BY <1>2, CallTypes, PlainTypes, DataTypes DEF CallSteps, PlainSteps
<1>3. CASE WorkerSteps
  BY <1>3, WorkerTypes
<1> QED
  BY <1>1, <1>2, <1>3 DEF Next

-----------------------------------------------------------------------------
(* The lock and the shared buffer.                                         *)

(* How a step of a call moves its thread and the lock.                     *)
LEMMA Moves ==
  ASSUME NEW t \in Threads, CallStarts(t) \/ CallSteps(t)
  PROVE  \/ \E label : /\ pc' = [pc EXCEPT ![t] = label]
                       /\ \/ lock' = lock /\ (label \in Assembles => pc[t] \in Assembles)
                          \/ lock = {} /\ lock' = {t}
                          \/ lock' = lock \ {t} /\ label = "idle"
         \/ \E kind \in {"use_after_free", "null_buffer"} : pc' = [u \in Threads |-> kind]
<1> USE DEF Goto, Return, Assembles, Crash
<1>0. CASE CallStarts(t)
  <2>1. lock' = lock /\ \E label \in {"p_lock", "c_lock", "c_check"} :
         pc' = [pc EXCEPT ![t] = label]
    BY <1>0 DEF CallStarts, PushCall, CloseCall
  <2> QED
    BY <2>1
<1>1. CASE PushLock(t) \/ PushCheck(t) \/ PushNative(t) \/ PushGrow(t) \/ PushCopy(t)
  BY <1>1 DEF PushLock, PushCheck, PushNative, PushGrow, PushCopy
<1>2. CASE PushHead(t) \/ PushTry(t) \/ PushRefused(t) \/ PushAccepted(t) \/ PushFull(t) \/
       PushSleep(t)
  BY <1>2 DEF PushHead, PushTry, PushRefused, PushAccepted, AfterPush, PushFull, PushSleep
<1>3. CASE CloseLock(t) \/ CloseCheck(t) \/ CloseNative(t) \/ DestroyObj(t) \/ DestroyStop(t) \/
       DestroyJoin(t)
  BY <1>3 DEF CloseLock, CloseCheck, CloseNative, DestroyObj, DestroyStop, DestroyJoin
<1>4. CASE DestroyFree(t) \/ DestroyBuffer(t) \/ DestroyRefs(t) \/ DestroyHolder(t)
  BY <1>4 DEF DestroyFree, DestroyBuffer, DestroyRefs, DestroyHolder
<1>5. CASE UseAfterFree(t) \/ NullBuffer(t)
  BY <1>5 DEF UseAfterFree, NullBuffer
<1> QED
  BY <1>0, <1>1, <1>2, <1>3, <1>4, <1>5 DEF CallSteps

(* The lock is held by the thread that assembles, in every step.           *)
LEMMA StepLocked == ASSUME Types, Locked, [Next]_vars PROVE Locked'
<1>1. CASE UNCHANGED <<pc, lock>>
  BY <1>1 DEF Locked
<1>2. ASSUME NEW t \in Threads, CallStarts(t) \/ CallSteps(t) PROVE Locked'
  <2>1. CASE \E kind \in {"use_after_free", "null_buffer"} : pc' = [u \in Threads |-> kind]
    BY <2>1 DEF Locked, Assembles
  <2>2. ASSUME NEW label, pc' = [pc EXCEPT ![t] = label],
               \/ lock' = lock /\ (label \in Assembles => pc[t] \in Assembles)
               \/ lock = {} /\ lock' = {t}
               \/ lock' = lock \ {t} /\ label = "idle"
        PROVE  Locked'
    <3> SUFFICES ASSUME NEW u \in Threads, pc'[u] \in Assembles PROVE lock' = {u}
      BY DEF Locked
    <3>1. CASE u = t
      BY <2>2, <3>1 DEF Types, Locked, Assembles
    <3>2. CASE u # t
      BY <2>2, <3>2 DEF Types, Locked
    <3> QED
      BY <3>1, <3>2
  <2> QED
    BY <1>2, <2>1, <2>2, Moves
<1>3. CASE WorkerSteps
  <2>1. UNCHANGED lock /\ (UNCHANGED pc \/ pc' = [u \in Threads |-> "null_buffer"])
    BY <1>3 DEF WorkerSteps, Ready, Wait, Pop, ExitSeen, Discard, Detached, CallListener, NullCache,
           ListenerReturns, ListenerRefuses, Stop, Crash
  <2> QED
    BY <2>1 DEF Locked, Assembles
<1> QED
  BY <1>1, <1>2, <1>3 DEF Next, vars

(* The length of a call is tested before the buffer is measured.           *)
LEMMA StepMeasured == ASSUME Types, Measured, [Next]_vars PROVE Measured'
<1> USE DEF Goto, Return, Crash, context, buffer, handler, thread, worker, history
<1>1. CASE UNCHANGED <<pc, call>>
  BY <1>1 DEF Measured
<1>2. ASSUME NEW t \in Threads, CallStarts(t) \/ CallSteps(t), NEW u \in Threads, pc'[u] = "p_grow"
      PROVE  call'[u].len > 0
  <2>1. CASE CallStarts(t)
    <3>1. PICK c, label : label # "p_grow" /\ pc' = [pc EXCEPT ![t] = label] /\
           call' = [call EXCEPT ![t] = c]
      BY <2>1 DEF CallStarts, PushCall, CloseCall
    <3> QED
      BY <1>2, <3>1 DEF Types, Measured
  <2>2. CASE PushNative(t)
    BY <1>2, <2>2 DEF Types, Measured, PushNative
  <2>3. CASE CallSteps(t) /\ ~PushNative(t)
    <3>1. call' = call /\ (pc'[u] = "p_grow" => pc[u] = "p_grow")
      <4>1. CASE PushLock(t) \/ PushCheck(t) \/ PushGrow(t) \/ PushCopy(t) \/ PushHead(t)
        BY <4>1 DEF Types, PushLock, PushCheck, PushGrow, PushCopy, PushHead
      <4>2. CASE PushTry(t) \/ PushRefused(t) \/ PushAccepted(t) \/ PushFull(t) \/ PushSleep(t)
        BY <4>2 DEF Types, PushTry, PushRefused, PushAccepted, AfterPush, PushFull, PushSleep
      <4>3. CASE CloseLock(t) \/ CloseCheck(t) \/ CloseNative(t) \/ DestroyObj(t) \/ DestroyStop(t)
        BY <4>3 DEF Types, CloseLock, CloseCheck, CloseNative, DestroyObj, DestroyStop
      <4>4. CASE DestroyJoin(t) \/ DestroyFree(t) \/ DestroyBuffer(t) \/ DestroyRefs(t) \/
             DestroyHolder(t)
        BY <4>4 DEF Types, DestroyJoin, DestroyFree, DestroyBuffer, DestroyRefs, DestroyHolder
      <4>5. CASE UseAfterFree(t) \/ NullBuffer(t)
        BY <4>5 DEF UseAfterFree, NullBuffer
      <4> QED
        BY <2>3, <4>1, <4>2, <4>3, <4>4, <4>5 DEF CallSteps
    <3> QED
      BY <1>2, <3>1 DEF Measured
  <2> QED
    BY <1>2, <2>1, <2>2, <2>3
<1>3. CASE WorkerSteps
  <2>1. UNCHANGED call /\ (UNCHANGED pc \/ pc' = [v \in Threads |-> "null_buffer"])
    BY <1>3 DEF WorkerSteps, Ready, Wait, Pop, ExitSeen, Discard, Detached, CallListener, NullCache,
           ListenerReturns, ListenerRefuses, Stop
  <2> QED
    BY <2>1 DEF Measured
<1> QED
  BY <1>1, <1>2, <1>3 DEF Next, vars, Measured

(* A step of another thread leaves what a thread has assembled alone: it   *)
(* would need the lock, or takes the buffer away.                          *)
LEMMA OthersAssembly ==
  ASSUME Types, Locked, NEW t \in Threads, CallStarts(t) \/ CallSteps(t), NEW u \in Threads, u # t,
         Assembly(u)
  PROVE  Assembly(u)'
<1> USE DEF Goto, Return, Crash, context, buffer, handler, thread, worker, history
<1>1. CASE in' = NoBuffer
  BY <1>1 DEF Assembly
<1>2. CASE \E kind \in {"use_after_free", "null_buffer"} : pc' = [v \in Threads |-> kind]
  BY <1>2 DEF Assembly
<1>3. CASE ~\E kind \in {"use_after_free", "null_buffer"} : pc' = [v \in Threads |-> kind]
  <2>1. pc'[u] = pc[u]
    BY <1>3, Moves DEF Types
  <2>2. CASE PushGrow(t) \/ PushCopy(t) \/ PushHead(t)
    <3>1. pc[u] \notin Assembles
      BY <2>2 DEF Locked, Assembles, PushGrow, PushCopy, PushHead
    <3> QED
      BY <2>1, <3>1 DEF Assembly, Assembles
  <2>3. CASE DestroyBuffer(t)
    BY <1>1, <2>3 DEF DestroyBuffer
  <2>4. CASE ~(PushGrow(t) \/ PushCopy(t) \/ PushHead(t) \/ DestroyBuffer(t))
    <3>1. CASE CallStarts(t)
      <4>1. UNCHANGED buffer /\ \E c : call' = [call EXCEPT ![t] = c]
        BY <3>1 DEF CallStarts, PushCall, CloseCall
      <4> QED
        BY <2>1, <4>1 DEF Types, Assembly
    <3>2. CASE CallSteps(t)
      <4>1. UNCHANGED <<buffer, call>>
        BY <1>3, <2>4, <3>2 DEF CallSteps, PushLock, PushCheck, PushNative, PushTry, PushRefused,
               PushAccepted, PushFull, PushSleep, CloseLock, CloseCheck, CloseNative, DestroyObj,
               DestroyStop, DestroyJoin, DestroyFree, DestroyRefs, DestroyHolder, UseAfterFree,
               NullBuffer
      <4> QED
        BY <2>1, <4>1 DEF Assembly
    <3> QED
      BY <3>1, <3>2
  <2> QED
    BY <2>2, <2>3, <2>4
<1> QED
  BY <1>2, <1>3

(* A step of the thread itself takes the assembly one step further.        *)
LEMMA OwnAssembly ==
  ASSUME Types, Measured, NEW t \in Threads, CallStarts(t) \/ CallSteps(t), Assembly(t)
  PROVE  Assembly(t)'
<1> USE DEF Goto, Return, Crash, context, buffer, handler, thread, worker, history
<1>1. CASE CallStarts(t)
  <2>1. pc'[t] \in {"p_lock", "c_lock", "c_check"}
    BY <1>1 DEF Types, CallStarts, PushCall, CloseCall
  <2> QED
    BY <2>1 DEF Assembly
<1>2. CASE PushGrow(t)
  <2>1. call' = call /\ pc'[t] = "p_copy" /\ call[t].len \in Int /\ call[t].len > 0
    BY <1>2 DEF Types, Measured, PushGrow
  <2>2. call[t].len <= in_obj_capacity' 
    BY <1>2, <2>1 DEF Types, PushGrow, Outgrows
  <2> QED
    BY <2>1, <2>2 DEF Assembly
<1>3. CASE PushCopy(t)
  <2>1. /\ call' = call /\ pc'[t] = "p_head" /\ in \in Message
        /\ in' = [in EXCEPT !.body = call[t].id]
    BY <1>3 DEF Types, PushCopy
  <2>2. in'.body = call[t].id
    BY <2>1 DEF Message
  <2> QED
    BY <2>1, <2>2 DEF Assembly
<1>4. CASE PushHead(t)
  <2>1. call' = call /\ pc'[t] \in {"idle", "p_try"} /\ pc[t] = "p_head"
    BY <1>4 DEF Types, PushHead
  <2>2. CASE in = NoBuffer
    BY <1>4, <2>2 DEF Assembly, PushHead
  <2>3. CASE in # NoBuffer
    <3>1. in \in Message /\ in' = [in EXCEPT !.head = call[t].id, !.len = call[t].len]
      BY <1>4, <2>3 DEF Types, PushHead, Assembled
    <3>2. in'.head = call[t].id /\ in'.len = call[t].len /\ in'.body = in.body
      BY <3>1 DEF Message
    <3>3. call[t].len > 0 => in.body = call[t].id
      BY <2>1, <2>3 DEF Assembly
    <3> QED
      BY <2>1, <3>2, <3>3 DEF Assembly
  <2> QED
    BY <2>2, <2>3
<1>5. CASE PushLock(t) \/ PushCheck(t) \/ PushNative(t)
  <2>1. /\ UNCHANGED <<buffer, call>>
        /\ pc'[t] \in {"p_check", "p_native", "p_grow", "p_head", "idle"}
        /\ pc'[t] = "p_head" => call[t].len \in Int /\ ~(call[t].len > 0)
    BY <1>5 DEF Types, PushLock, PushCheck, PushNative
  <2> QED
    BY <2>1 DEF Assembly
<1>6. CASE PushTry(t) \/ PushRefused(t) \/ PushAccepted(t) \/ PushFull(t) \/ PushSleep(t)
  <2>1. /\ UNCHANGED <<buffer, call>>
        /\ pc[t] \in {"p_try", "p_push", "p_sleep"} /\
               pc'[t] \in {"p_try", "p_push", "p_sleep", "idle"}
    BY <1>6 DEF Types, PushTry, PushRefused, PushAccepted, AfterPush, PushFull, PushSleep
  <2> QED
    BY <2>1 DEF Assembly
<1>7. CASE \/ CloseLock(t) \/ CloseCheck(t) \/ CloseNative(t) \/ DestroyObj(t) \/ DestroyStop(t)
           \/ DestroyJoin(t) \/ DestroyFree(t) \/ DestroyBuffer(t) \/ DestroyRefs(t) \/
                  DestroyHolder(t)
           \/ UseAfterFree(t) \/ NullBuffer(t)
  <2>1. pc'[t] \notin Assembles
    <3>1. CASE CloseLock(t) \/ CloseCheck(t) \/ CloseNative(t) \/ DestroyObj(t) \/ DestroyStop(t)
      BY <3>1 DEF Types, Assembles, CloseLock, CloseCheck, CloseNative, DestroyObj, DestroyStop
    <3>2. CASE DestroyJoin(t) \/ DestroyFree(t) \/ DestroyBuffer(t) \/ DestroyRefs(t) \/
           DestroyHolder(t)
      BY <3>2 DEF Types, Assembles, DestroyJoin, DestroyFree, DestroyBuffer, DestroyRefs,
             DestroyHolder
    <3>3. CASE UseAfterFree(t) \/ NullBuffer(t)
      BY <3>3 DEF Assembles, UseAfterFree, NullBuffer
    <3> QED
      BY <1>7, <3>1, <3>2, <3>3
  <2> QED
    BY <2>1 DEF Assembly, Assembles
<1> QED
  BY <1>1, <1>2, <1>3, <1>4, <1>5, <1>6, <1>7 DEF CallSteps

(* So the assembly of every thread is kept.                                *)
LEMMA StepAssembly ==
  ASSUME Types, Locked, Measured, [Next]_vars, \A u \in Threads : Assembly(u)
  PROVE  \A u \in Threads : Assembly(u)'
<1> SUFFICES ASSUME NEW u \in Threads PROVE Assembly(u)'
  OBVIOUS
<1>1. CASE UNCHANGED <<pc, buffer, call>>
  BY <1>1 DEF Assembly, buffer
<1>2. ASSUME NEW t \in Threads, CallStarts(t) \/ CallSteps(t) PROVE Assembly(u)'
  BY <1>2, OwnAssembly, OthersAssembly
<1>3. CASE WorkerSteps
  <2>1. UNCHANGED <<buffer, call>> /\ (UNCHANGED pc \/ pc' = [v \in Threads |-> "null_buffer"])
    BY <1>3 DEF WorkerSteps, Ready, Wait, Pop, ExitSeen, Discard, Detached, CallListener, NullCache,
           ListenerReturns, ListenerRefuses, Stop, Crash, thread
  <2> QED
    BY <2>1 DEF Assembly, buffer
<1> QED
  BY <1>1, <1>2, <1>3 DEF Next, vars, thread

(* What is accepted was assembled by one call.                             *)
LEMMA StepUnmixed ==
  ASSUME Types, Unmixed, [Next]_vars, \A u \in Threads : Assembly(u)
  PROVE  Unmixed'
<1> USE DEF Goto, Return, Crash, context, buffer, handler, thread, worker, history
<1>1. CASE UNCHANGED accepted
  BY <1>1 DEF Unmixed
<1>2. ASSUME NEW t \in Threads, PushAccepted(t) PROVE Unmixed'
  <2>1. accepted' = Append(accepted, in) /\ in \in Message /\ in # NoBuffer /\ pc[t] = "p_push"
    BY <1>2 DEF Types, PushAccepted
  <2>2. in.len > 0 => in.body = in.head
    BY <2>1 DEF Assembly
  <2> QED
    BY <2>1, <2>2, AppendProperties DEF Types, Unmixed
<1>3. ASSUME NEW t \in Threads, CallStarts(t) \/ CallSteps(t), ~PushAccepted(t)
       PROVE UNCHANGED accepted
  BY <1>3 DEF CallStarts, PushCall, CloseCall, CallSteps, PushLock, PushCheck, PushNative, PushGrow,
         PushCopy, PushHead, PushTry, PushRefused, PushFull, PushSleep, CloseLock, CloseCheck,
         CloseNative, DestroyObj, DestroyStop, DestroyJoin, DestroyFree, DestroyBuffer, DestroyRefs,
         DestroyHolder, UseAfterFree, NullBuffer
<1>4. CASE WorkerSteps
  BY <1>1, <1>4 DEF WorkerSteps, Ready, Wait, Pop, ExitSeen, Discard, Detached, CallListener,
         NullCache, ListenerReturns, ListenerRefuses, Stop
<1> QED
  BY <1>1, <1>2, <1>3, <1>4 DEF Next, vars

-----------------------------------------------------------------------------
(* The queue between push and listener.                                    *)

(* A prefix, element by element.                                           *)
LEMMA PrefixByIndex ==
  ASSUME NEW s \in Seq(Message), NEW r \in Seq(Message), Len(s) <= Len(r), \A i \in 1..Len(s) :
         s[i] = r[i]
  PROVE  Pipe!IsPrefix(s, r)
<1>1. Len(s) \in Nat /\ Len(r) \in Nat /\ (\A i \in 1..Len(s) : s[i] \in Message) /\
       (\A i \in 1..Len(r) : r[i] \in Message)
  BY LenProperties, ElementOfSeq
<1>2. /\ SubSeq(s, 1, Len(s)) \in Seq(Message) /\ Len(SubSeq(s, 1, Len(s))) = Len(s)
      /\ \A i \in 1..Len(s) : SubSeq(s, 1, Len(s))[i] = s[i]
  BY <1>1, SubSeqProperties
<1>3. /\ SubSeq(r, 1, Len(s)) \in Seq(Message) /\ Len(SubSeq(r, 1, Len(s))) = Len(s)
      /\ \A i \in 1..Len(s) : SubSeq(r, 1, Len(s))[i] = r[i]
  BY <1>1, SubSeqProperties
<1>4. SubSeq(s, 1, Len(s)) = SubSeq(r, 1, Len(s))
  BY <1>2, <1>3, SeqEqual
<1> QED
  BY <1>4 DEF Pipe!IsPrefix

(* What is appended to has grown.                                          *)
LEMMA AppendPrefix ==
  ASSUME NEW s \in Seq(Message), NEW m \in Message
  PROVE  Pipe!IsStrictPrefix(s, Append(s, m))
<1> DEFINE r == Append(s, m)
<1>1. /\ r \in Seq(Message) /\ Len(s) \in Nat /\ Len(r) = Len(s) + 1
      /\ \A i \in 1..Len(s) : s[i] = r[i]
  BY AppendProperties, LenProperties
<1> HIDE DEF r
<1>2. Pipe!IsPrefix(s, r)
  BY <1>1, PrefixByIndex
<1>3. Pipe!IsStrictPrefix(s, r)
  BY <1>1, <1>2 DEF Pipe!IsStrictPrefix
<1> QED
  BY <1>3 DEF r

(* What a step of a call does to the queue, its two histories and the exit.*)
LEMMA CallFlow ==
  ASSUME Types, Exiting, NEW t \in Threads, CallStarts(t) \/ CallSteps(t)
  PROVE  /\ UNCHANGED <<delivered, refused, msg>> /\ (wpc' = wpc \/ Crashed')
         /\ \/ in \in Message /\ queue' = Append(queue, in) /\ accepted' = Append(accepted, in) /\
                UNCHANGED <<flag_exit, wpc>>
            \/ flag_exit' /\ UNCHANGED accepted
            \/ UNCHANGED <<queue, accepted, flag_exit>>
<1> USE DEF Goto, Return, context, buffer, handler, thread, worker, history
<1>1. CASE CallStarts(t) \/ PushLock(t) \/ PushCheck(t) \/ PushNative(t) \/ PushGrow(t) \/
       PushCopy(t) \/ PushHead(t)
  BY <1>1 DEF CallStarts, PushCall, CloseCall, PushLock, PushCheck, PushNative, PushGrow, PushCopy,
         PushHead
<1>2. CASE PushTry(t) \/ PushRefused(t) \/ PushFull(t) \/ PushSleep(t)
  BY <1>2 DEF PushTry, PushRefused, PushFull, PushSleep
<1>3. CASE PushAccepted(t)
  BY <1>3 DEF Types, PushAccepted
<1>4. CASE CloseLock(t) \/ CloseCheck(t) \/ CloseNative(t) \/ DestroyObj(t) \/ DestroyStop(t) \/
       DestroyJoin(t)
  BY <1>4 DEF CloseLock, CloseCheck, CloseNative, DestroyObj, DestroyStop, DestroyJoin
<1>5. CASE DestroyFree(t)
  BY <1>5 DEF Exiting, Destroying, DestroyFree
<1>6. CASE DestroyBuffer(t) \/ DestroyRefs(t) \/ DestroyHolder(t)
  BY <1>6 DEF DestroyBuffer, DestroyRefs, DestroyHolder
<1>7. CASE UseAfterFree(t) \/ NullBuffer(t)
  BY <1>7 DEF UseAfterFree, NullBuffer, Crash, Crashed
<1> QED
  BY <1>1, <1>2, <1>3, <1>4, <1>5, <1>6, <1>7 DEF CallSteps

(* Only who has set flag_exit destroys; it is never taken back.            *)
LEMMA StepExiting == ASSUME Types, Exiting, [Next]_vars PROVE Exiting'
<1> USE DEF Goto, Return, context, buffer, handler, thread, worker, history
<1>1. CASE UNCHANGED <<pc, flag_exit, refused>>
  BY <1>1 DEF Exiting
<1>2. ASSUME NEW t \in Threads, CallStarts(t) \/ CallSteps(t) PROVE Exiting'
  <2>1. (flag_exit => flag_exit') /\ refused' = refused
    BY <1>2, CallFlow
  <2>2. ASSUME NEW u \in Threads, pc'[u] \in Destroying PROVE flag_exit'
    <3>1. CASE CallStarts(t)
      <4>1. PICK label : label \notin Destroying /\ pc' = [pc EXCEPT ![t] = label]
        BY <3>1 DEF CallStarts, PushCall, CloseCall, Destroying
      <4> QED
        BY <2>1, <2>2, <4>1 DEF Types, Exiting
    <3>2. CASE PushLock(t) \/ PushCheck(t) \/ PushNative(t) \/ PushGrow(t) \/ PushCopy(t) \/
           PushHead(t)
      BY <2>1, <2>2, <3>2 DEF Types, Exiting, Destroying, PushLock, PushCheck, PushNative, PushGrow,
             PushCopy, PushHead
    <3>3. CASE PushTry(t) \/ PushRefused(t) \/ PushAccepted(t) \/ PushFull(t) \/ PushSleep(t)
      BY <2>1, <2>2, <3>3 DEF Types, Exiting, Destroying, PushTry, PushRefused, PushAccepted,
             AfterPush, PushFull, PushSleep
    <3>4. CASE CloseLock(t) \/ CloseCheck(t) \/ CloseNative(t)
      BY <2>1, <2>2, <3>4 DEF Types, Exiting, Destroying, CloseLock, CloseCheck, CloseNative
    <3>5. CASE DestroyObj(t) \/ DestroyStop(t) \/ DestroyJoin(t)
      BY <2>1, <2>2, <3>5 DEF Types, Exiting, Destroying, DestroyObj, DestroyStop, DestroyJoin
    <3>6. CASE DestroyFree(t) \/ DestroyBuffer(t) \/ DestroyRefs(t) \/ DestroyHolder(t)
      BY <2>1, <2>2, <3>6 DEF Types, Exiting, Destroying, DestroyFree, DestroyBuffer, DestroyRefs,
             DestroyHolder
    <3>7. CASE UseAfterFree(t) \/ NullBuffer(t)
      BY <2>2, <3>7 DEF Destroying, UseAfterFree, NullBuffer, Crash
    <3> QED
      BY <1>2, <3>1, <3>2, <3>3, <3>4, <3>5, <3>6, <3>7 DEF CallSteps
  <2> QED
    BY <2>1, <2>2 DEF Exiting
<1>3. CASE WorkerSteps
  <2>1. (UNCHANGED pc \/ pc' = [v \in Threads |-> "null_buffer"]) /\ (flag_exit => flag_exit') /\
         (refused' => refused \/ flag_exit')
    <3>1. CASE Ready \/ Wait \/ Pop \/ ExitSeen \/ Discard \/ Detached \/ CallListener \/
           NullCache \/ ListenerReturns \/ Stop
      BY <3>1 DEF Ready, Wait, Pop, ExitSeen, Discard, Detached, CallListener, NullCache,
             ListenerReturns, Stop, Crash
    <3>2. ASSUME NEW r \in {-1, 1}, ListenerRefuses(r) PROVE pc' = pc /\ flag_exit'
      <4>1. Refusal(r)
        BY DEF Refusal
      <4> QED
        BY <3>2, <4>1 DEF ListenerRefuses
    <3> QED
      BY <1>3, <3>1, <3>2 DEF WorkerSteps
  <2> QED
    BY <2>1 DEF Exiting, Destroying
<1> QED
  BY <1>1, <1>2, <1>3 DEF Next, vars

(* Messages move from queue to worker to listener in order.                *)
LEMMA StepFlow == ASSUME Types, Exiting, Flow, [Next]_vars PROVE Flow'
<1> USE DEF Goto, Return, context, buffer, handler, thread, worker, history
<1>0. Len(delivered) \in Nat /\ Len(accepted) \in Nat /\ Len(queue) \in Nat
  BY LenProperties DEF Types
<1>1. CASE UNCHANGED <<queue, accepted, delivered, flag_exit, wpc, msg>>
  BY <1>1 DEF Flow, InHand, Working
<1>2. ASSUME NEW t \in Threads, CallStarts(t) \/ CallSteps(t) PROVE Flow'
  <2>1. UNCHANGED <<delivered, msg>> /\ (wpc' = wpc \/ Crashed')
    BY <1>2, CallFlow
  <2>2. CASE in \in Message /\ queue' = Append(queue, in) /\ accepted' = Append(accepted, in) /\
         UNCHANGED <<flag_exit, wpc>>
    <3>1. /\ Len(queue') = Len(queue) + 1 /\ Len(accepted') = Len(accepted) + 1
          /\ \A i \in 1..Len(queue) : queue'[i] = queue[i]
          /\ \A i \in 1..Len(accepted) : accepted'[i] = accepted[i]
          /\ queue'[Len(queue) + 1] = in /\ accepted'[Len(accepted) + 1] = in
      BY <2>2, AppendProperties DEF Types
    <3>2. /\ Len(delivered') <= Len(accepted')
          /\ \A i \in 1..Len(delivered') : delivered'[i] = accepted'[i]
      BY <1>0, <2>1, <3>1 DEF Flow
    <3>3. ASSUME ~flag_exit', wpc' \in Working
          PROVE  /\ Len(accepted') = Len(delivered') + InHand' + Len(queue')
                 /\ wpc' = "handle" => msg' = accepted'[Len(delivered') + 1]
                 /\ \A i \in 1..Len(queue') : queue'[i] = accepted'[Len(delivered') + InHand' + i]
      <4>1. InHand \in {0, 1} /\ InHand' = InHand /\ (wpc = "handle" => InHand = 1)
        BY <2>2 DEF InHand
      <4>2. /\ Len(accepted) = Len(delivered) + InHand + Len(queue)
            /\ wpc = "handle" => msg = accepted[Len(delivered) + 1]
            /\ \A i \in 1..Len(queue) : queue[i] = accepted[Len(delivered) + InHand + i]
        BY <2>2, <3>3 DEF Flow
      <4>3. Len(accepted') = Len(delivered') + InHand' + Len(queue')
        BY <1>0, <2>1, <3>1, <4>1, <4>2
      <4>4. wpc' = "handle" => msg' = accepted'[Len(delivered') + 1]
        BY <1>0, <2>1, <2>2, <3>1, <4>1, <4>2
      <4>5. ASSUME NEW i \in 1..Len(queue') PROVE queue'[i] = accepted'[Len(delivered') + InHand' + i]
        <5>1. CASE i = Len(queue) + 1
          BY <1>0, <2>1, <3>1, <4>1, <4>2, <5>1
        <5>2. CASE i \in 1..Len(queue)
          <6>1. Len(delivered) + InHand + i \in 1..Len(accepted)
            BY <1>0, <4>1, <4>2, <5>2
          <6> QED
            BY <2>1, <3>1, <4>1, <4>2, <5>2, <6>1
        <5> QED
          BY <1>0, <3>1, <5>1, <5>2
      <4> QED
        BY <4>3, <4>4, <4>5
    <3> QED
      BY <3>2, <3>3 DEF Flow
  <2>3. CASE flag_exit' /\ UNCHANGED accepted
    BY <2>1, <2>3 DEF Flow, InHand, Working
  <2>4. CASE UNCHANGED <<queue, accepted, flag_exit>>
    BY <2>1, <2>4 DEF Flow, InHand, Working, Crashed
  <2> QED
    BY <1>2, <2>2, <2>3, <2>4, CallFlow
<1>3. CASE WorkerSteps
  <2>1. CASE Ready \/ Wait
    BY <2>1 DEF Flow, InHand, Working, Ready, Wait, WorkerGoto
  <2>2. CASE ListenerReturns
    BY <2>2 DEF Flow, InHand, Working, ListenerReturns, WorkerGoto
  <2>3. CASE Pop
    <3>1. /\ wpc = "pop" /\ wpc' = "handle" /\ queue # <<>> /\ msg' = Head(queue) /\
           queue' = Tail(queue)
          /\ UNCHANGED <<accepted, delivered, flag_exit>>
      BY <2>3 DEF Pop, WorkerGoto
    <3>2. /\ Len(queue) > 0 /\ Head(queue) = queue[1] /\ Len(Tail(queue)) = Len(queue) - 1
          /\ \A i \in 1..Len(queue) - 1 : Tail(queue)[i] = queue[i + 1]
      BY <1>0, <3>1, HeadTailProperties, EmptySeq DEF Types
    <3> QED
      BY <1>0, <3>1, <3>2 DEF Flow, InHand, Working
  <2>4. CASE CallListener
    <3>1. /\ wpc = "handle" /\ wpc' = "callback" /\ ~flag_exit /\
           delivered' = Append(delivered, msg)
          /\ UNCHANGED <<queue, accepted, flag_exit, msg>> /\ msg \in Message
      BY <2>4 DEF Types, CallListener, Deliverable, WorkerGoto
    <3>2. /\ Len(delivered') = Len(delivered) + 1 /\ delivered'[Len(delivered) + 1] = msg
          /\ \A i \in 1..Len(delivered) : delivered'[i] = delivered[i]
      BY <3>1, AppendProperties DEF Types
    <3> QED
      BY <1>0, <3>1, <3>2 DEF Flow, InHand, Working
  <2>5. CASE ExitSeen \/ Detached \/ Stop \/ NullCache
    BY <2>5 DEF Flow, Working, ExitSeen, Detached, Stop, NullCache, Crash, WorkerGoto
  <2>6. CASE Discard \/ \E r \in {-1, 1} : ListenerRefuses(r)
    <3>1. flag_exit' /\ UNCHANGED <<accepted, delivered>>
      <4>1. CASE Discard
        BY <4>1 DEF Discard
      <4>2. ASSUME NEW r \in {-1, 1}, ListenerRefuses(r) PROVE flag_exit' /\
             UNCHANGED <<accepted, delivered>>
        <5>1. Refusal(r)
          BY DEF Refusal
        <5> QED
          BY <4>2, <5>1 DEF ListenerRefuses
      <4> QED
        BY <2>6, <4>1, <4>2
    <3> QED
      BY <3>1 DEF Flow
  <2> QED
    BY <1>3, <2>1, <2>2, <2>3, <2>4, <2>5, <2>6 DEF WorkerSteps
<1> QED
  BY <1>1, <1>2, <1>3 DEF Next, vars

Sealed == wpc = "ended" \/ Crashed \/ refused

(* Every step accepts, delivers, seals, or changes nothing of the pipe.    *)
LEMMA PipeStep ==
  ASSUME Types, Exiting, Flow, Flow', [Next]_vars
  PROVE  [Pipe!PipeNext]_Pipe!pipeVars
<1> USE DEF Pipe!PipeNext, Pipe!pipeVars
<1>1. CASE UNCHANGED <<accepted, delivered>> /\ (Sealed => Sealed')
  BY <1>1 DEF Pipe!Seal, Sealed
<1>2. CASE UNCHANGED vars
  BY <1>1, <1>2 DEF vars, worker, history, Sealed, Crashed
<1>3. ASSUME NEW t \in Threads, CallStarts(t) \/ CallSteps(t) PROVE [Pipe!PipeNext]_Pipe!pipeVars
  <2>1. UNCHANGED <<delivered, refused>> /\ (wpc' = wpc \/ Crashed')
    BY <1>3, CallFlow
  <2>2. CASE in \in Message /\ accepted' = Append(accepted, in) /\ UNCHANGED wpc
    <3>1. Pipe!IsStrictPrefix(accepted, accepted')
      BY <2>2, AppendPrefix DEF Types
    <3> QED
      BY <2>1, <2>2, <3>1 DEF Pipe!Accept, Crashed
  <2>3. CASE UNCHANGED accepted
    BY <1>1, <2>1, <2>3 DEF Sealed, Crashed
  <2> QED
    BY <1>3, <2>2, <2>3, CallFlow
<1>4. CASE CallListener
  <2>1. /\ wpc = "handle" /\ wpc' = "callback" /\ ~flag_exit /\ delivered' = Append(delivered, msg)
        /\ UNCHANGED <<accepted, refused>> /\ msg \in Message
    BY <1>4 DEF Types, CallListener, Deliverable, WorkerGoto
  <2>2. ~refused
    BY <2>1 DEF Exiting
  <2>3. Pipe!IsStrictPrefix(delivered, delivered')
    BY <2>1, AppendPrefix DEF Types
  <2>4. Pipe!IsPrefix(delivered', accepted)
    <3>1. delivered' \in Seq(Message)
      BY <2>1, AppendProperties DEF Types
    <3> QED
      BY <2>1, <3>1, PrefixByIndex DEF Types, Flow
  <2> QED
    BY <2>1, <2>2, <2>3, <2>4 DEF Pipe!Deliver, Crashed
<1>5. CASE WorkerSteps /\ ~CallListener
  <2>1. UNCHANGED <<accepted, delivered>> /\ wpc # "ended" /\ ~Crashed
    BY <1>5 DEF WorkerSteps, Ready, Wait, Pop, ExitSeen, Discard, Detached, NullCache, history,
           ListenerReturns, ListenerRefuses, Stop, Crashed
  <2>2. refused => refused'
    BY <1>5 DEF WorkerSteps, Ready, Wait, Pop, ExitSeen, Discard, Detached, NullCache, history,
           ListenerReturns, ListenerRefuses, Stop
  <2> QED
    BY <1>1, <2>1, <2>2 DEF Sealed
<1> QED
  BY <1>2, <1>3, <1>4, <1>5 DEF Next

-----------------------------------------------------------------------------
(* The results of calls.                                                   *)

(* A step begins a call, stays inside one, returns, or is the end.         *)
Begins(t) ==
  /\ pc[t] = "idle" /\ res' = Append(res, "pending")
  /\ \E label \in {"p_lock", "c_lock", "c_check"}, len \in Int :
       /\ pc' = [pc EXCEPT ![t] = label]
       /\ call' = [call EXCEPT ![t] = [id |-> Len(res'), len |-> len]]
  /\ UNCHANGED accepted
Goes(t) ==
  /\ InCall(t)
  /\ \E label : label \notin {"idle", "use_after_free", "null_buffer"} /\
         pc' = [pc EXCEPT ![t] = label]
  /\ UNCHANGED <<res, call, accepted>>
Ends(t, code) ==
  /\ InCall(t)
  /\ pc' = [pc EXCEPT ![t] = "idle"] /\ res' = [res EXCEPT ![call[t].id] = code]
  /\ UNCHANGED call
Dies ==
  /\ \E kind \in {"use_after_free", "null_buffer"} : pc' = [u \in Threads |-> kind]
  /\ UNCHANGED <<res, call, accepted>>

(* What a step of a call does to results and calls.                        *)
LEMMA CallKinds ==
  ASSUME NEW t \in Threads, CallStarts(t) \/ CallSteps(t)
  PROVE  \/ Begins(t) \/ Goes(t) \/ Dies
         \/ \E code \in Code \ {"pending", "SUCCESS"} : Ends(t, code) /\ UNCHANGED accepted
         \/ Ends(t, "SUCCESS") /\ pc[t] = "p_push" /\ in # NoBuffer /\
                accepted' = Append(accepted, in)
<1> USE DEF Goto, Return, context, buffer, handler, thread, worker, history, Begins, Goes, Ends,
       Dies, InCall, Code
<1>1. CASE CallStarts(t)
  <2>1. ASSUME NEW len \in Lens, PushCall(t, len) PROVE Begins(t)
    BY <2>1, QueueAssumption DEF PushCall, Begin, QueueAssumption
  <2>2. CASE CloseCall(t)
    <3>1. /\ pc[t] = "idle" /\ res' = Append(res, "pending") /\ UNCHANGED accepted
          /\ call' = [call EXCEPT ![t] = [id |-> Len(res'), len |-> 0]]
      BY <2>2 DEF CloseCall, Begin
    <3>2. PICK label \in {"c_lock", "c_check"} : pc' = [pc EXCEPT ![t] = label]
      BY <2>2 DEF CloseCall
    <3>3. label \in {"p_lock", "c_lock", "c_check"} /\ 0 \in Int
      BY <3>2
    <3>4. \E l \in {"p_lock", "c_lock", "c_check"}, len \in Int :
            /\ pc' = [pc EXCEPT ![t] = l]
            /\ call' = [call EXCEPT ![t] = [id |-> Len(res'), len |-> len]]
      BY <3>1, <3>2, <3>3, Zenon
    <3> QED
      BY <3>1, <3>4
  <2> QED
    BY <1>1, <2>1, <2>2 DEF CallStarts
<1>2. CASE PushLock(t) \/ PushGrow(t) \/ PushCopy(t) \/ PushFull(t)
  BY <1>2 DEF PushLock, PushGrow, PushCopy, PushFull
<1>3. CASE PushCheck(t)
  BY <1>3 DEF PushCheck
<1>4. CASE PushNative(t)
  BY <1>4 DEF PushNative
<1>5. CASE PushHead(t)
  BY <1>5 DEF PushHead
<1>6. CASE PushTry(t)
  BY <1>6 DEF PushTry
<1>7. CASE PushRefused(t)
  BY <1>7 DEF PushRefused
<1>8. CASE PushAccepted(t)
  BY <1>8 DEF PushAccepted, AfterPush
<1>9. CASE PushSleep(t)
  BY <1>9 DEF PushSleep
<1>10. CASE CloseLock(t) \/ DestroyObj(t) \/ DestroyStop(t) \/ DestroyJoin(t) \/ DestroyFree(t)
  BY <1>10 DEF CloseLock, DestroyObj, DestroyStop, DestroyJoin, DestroyFree
<1>11. CASE CloseCheck(t)
  BY <1>11 DEF CloseCheck
<1>12. CASE CloseNative(t)
  BY <1>12 DEF CloseNative
<1>13. CASE DestroyBuffer(t) \/ DestroyRefs(t)
  BY <1>13 DEF DestroyBuffer, DestroyRefs
<1>14. CASE DestroyHolder(t)
  BY <1>14 DEF DestroyHolder
<1>15. CASE UseAfterFree(t) \/ NullBuffer(t)
  BY <1>15 DEF UseAfterFree, NullBuffer, Crash
<1> QED
  BY <1>1, <1>2, <1>3, <1>4, <1>5, <1>6, <1>7, <1>8, <1>9, <1>10, <1>11, <1>12, <1>13, <1>14,
         <1>15 DEF CallSteps

(* The worker returns no results of calls.                                 *)
LEMMA WorkerCalls == ASSUME WorkerSteps PROVE UNCHANGED <<res, call, accepted>> /\
       (UNCHANGED pc \/ Dies)
BY DEF WorkerSteps, Ready, Wait, Pop, ExitSeen, Discard, Detached, CallListener, NullCache,
       ListenerReturns, ListenerRefuses, Stop, Crash, Dies, thread, history

(* The result and the history of accepted messages change together.        *)
LEMMA StepCalls ==
  ASSUME Types, Calls, Recorded, \A u \in Threads : Assembly(u), [Next]_vars
  PROVE  Calls' /\ Recorded'
<1>0. /\ res \in Seq(Code) /\ Len(res) \in Nat /\ Len(accepted) \in Nat /\ DOMAIN res = 1..Len(res)
      /\ \A i \in 1..Len(accepted) : accepted[i] \in Message
  BY LenProperties, ElementOfSeq DEF Types, Calls
<1>1. CASE UNCHANGED <<res, call, accepted>> /\ (UNCHANGED pc \/ Dies)
  BY <1>1 DEF Calls, Recorded, InCall, Dies
<1>2. ASSUME NEW t \in Threads, Begins(t) PROVE Calls' /\ Recorded'
  <2>1. /\ res' \in Seq(Code) /\ Len(res') = Len(res) + 1 /\ res'[Len(res) + 1] = "pending"
        /\ \A k \in 1..Len(res) : res'[k] = res[k]
    BY <1>0, <1>2, AppendProperties DEF Begins, Code
  <2>2. /\ call'[t].id = Len(res) + 1 /\ InCall(t)' /\ ~InCall(t)
        /\ \A u \in Threads \ {t} : call'[u] = call[u] /\ pc'[u] = pc[u]
    BY <1>2, <2>1 DEF Types, Begins, InCall
  <2>3. Calls'
    BY <1>0, <2>1, <2>2 DEF Calls, InCall
  <2>4. Recorded'
    BY <1>0, <1>2, <2>1 DEF Recorded, Begins
  <2> QED
    BY <2>3, <2>4
<1>3. ASSUME NEW t \in Threads, Goes(t) PROVE Calls' /\ Recorded'
  <2>1. /\ InCall(t) /\ UNCHANGED <<res, call, accepted>>
        /\ \A u \in Threads \ {t} : pc'[u] = pc[u]
    BY <1>3 DEF Types, Goes
  <2> QED
    BY <2>1 DEF Calls, Recorded, InCall
<1>4. ASSUME NEW t \in Threads, NEW code \in Code \ {"pending"}, Ends(t, code)
      PROVE  /\ Calls' /\ call[t].id \in 1..Len(res) /\ res[call[t].id] = "pending"
             /\ Len(res') = Len(res) /\ res'[call[t].id] = code
             /\ \A k \in 1..Len(res) : k # call[t].id => res'[k] = res[k]
  <2>1. call[t].id \in 1..Len(res) /\ res[call[t].id] = "pending" /\ InCall(t)
    BY <1>4 DEF Calls, Ends
  <2>2. /\ res' \in Seq(Code) /\ Len(res') = Len(res) /\ res'[call[t].id] = code
        /\ \A k \in 1..Len(res) : k # call[t].id => res'[k] = res[k]
    BY <1>0, <1>4, <2>1, ExceptSeq DEF Ends
  <2>3. ~InCall(t)' /\ call' = call /\ \A u \in Threads \ {t} : pc'[u] = pc[u]
    BY <1>4 DEF Types, Ends, InCall
  <2>4. Calls'
    BY <2>1, <2>2, <2>3 DEF Calls, InCall
  <2> QED
    BY <2>1, <2>2, <2>4
<1>5. ASSUME NEW t \in Threads, NEW code \in Code \ {"pending", "SUCCESS"}, Ends(t, code),
       UNCHANGED accepted
      PROVE  Calls' /\ Recorded'
  <2>1. /\ Calls' /\ call[t].id \in 1..Len(res) /\ res[call[t].id] = "pending"
        /\ Len(res') = Len(res) /\ res'[call[t].id] # "SUCCESS"
        /\ \A k \in 1..Len(res) : k # call[t].id => res'[k] = res[k]
    BY <1>4, <1>5
  <2>2. Recorded'
    BY <1>5, <2>1 DEF Recorded
  <2> QED
    BY <2>1, <2>2
<1>6. ASSUME NEW t \in Threads, Ends(t, "SUCCESS"), pc[t] = "p_push", in # NoBuffer,
       accepted' = Append(accepted, in)
      PROVE  Calls' /\ Recorded'
  <2>1. /\ Calls' /\ call[t].id \in 1..Len(res) /\ res[call[t].id] = "pending"
        /\ Len(res') = Len(res) /\ res'[call[t].id] = "SUCCESS"
        /\ \A k \in 1..Len(res) : k # call[t].id => res'[k] = res[k]
    BY <1>4, <1>6 DEF Code
  <2>2. in \in Message /\ in.head = call[t].id
    BY <1>6 DEF Types, Assembly
  <2>3. /\ Len(accepted') = Len(accepted) + 1 /\ accepted'[Len(accepted) + 1] = in
        /\ \A i \in 1..Len(accepted) : accepted'[i] = accepted[i]
    BY <1>6, <2>2, AppendProperties DEF Types
  <2>4. \A i \in 1..Len(accepted) : accepted[i].head # call[t].id
    BY <2>1 DEF Recorded
  <2>5. \A i \in 1..Len(accepted') : accepted'[i].head \in 1..Len(res') /\
         res'[accepted'[i].head] = "SUCCESS"
    BY <1>0, <2>1, <2>2, <2>3, <2>4 DEF Recorded
  <2>6. \A i, j \in 1..Len(accepted') : accepted'[i].head = accepted'[j].head => i = j
    BY <1>0, <2>2, <2>3, <2>4 DEF Recorded
  <2>7. \A k \in 1..Len(res') : res'[k] = "SUCCESS" => \E i \in 1..Len(accepted') :
         accepted'[i].head = k
    <3> SUFFICES ASSUME NEW k \in 1..Len(res), res'[k] = "SUCCESS"
                 PROVE  \E i \in 1..Len(accepted') : accepted'[i].head = k
      BY <2>1
    <3>1. CASE k = call[t].id
      <4>1. Len(accepted) + 1 \in 1..Len(accepted')
        BY <1>0, <2>3
      <4> QED
        BY <2>2, <2>3, <3>1, <4>1
    <3>2. CASE k # call[t].id
      <4>1. PICK i \in 1..Len(accepted) : accepted[i].head = k
        BY <2>1, <3>2 DEF Recorded
      <4>2. i \in 1..Len(accepted') /\ accepted'[i].head = k
        BY <1>0, <2>3, <4>1
      <4> QED
        BY <4>2
    <3> QED
      BY <3>1, <3>2
  <2> QED
    BY <2>1, <2>5, <2>6, <2>7 DEF Recorded
<1>7. CASE \E t \in Threads : CallStarts(t) \/ CallSteps(t)
  BY <1>1, <1>2, <1>3, <1>5, <1>6, <1>7, CallKinds DEF Dies
<1>8. CASE WorkerSteps
  BY <1>1, <1>8, WorkerCalls
<1>9. CASE UNCHANGED vars
  BY <1>1, <1>9 DEF vars, thread, history
<1> QED
  BY <1>7, <1>8, <1>9 DEF Next

(* One message with a number means one copy.                               *)
LEMMA RecordedIsTrue == ASSUME Types, Calls, Recorded PROVE ReportsTrue
<1>1. DOMAIN accepted = 1..Len(accepted) /\ DOMAIN res = 1..Len(res)
  BY LenProperties DEF Types, Calls
<1> SUFFICES ASSUME NEW k \in 1..Len(res), res[k] # "pending"
             PROVE  Copies(k) = (IF res[k] = "SUCCESS" THEN 1 ELSE 0)
  BY <1>1 DEF ReportsTrue
<1> DEFINE S == {i \in DOMAIN accepted : accepted[i].head = k}
<1>2. CASE res[k] = "SUCCESS"
  <2>1. PICK i \in 1..Len(accepted) : accepted[i].head = k
    BY <1>2 DEF Recorded
  <2>2. S = {i}
    BY <1>1, <2>1 DEF Recorded
  <2>3. Cardinality({i}) = 1
    BY FS_Singleton
  <2> QED
    BY <1>2, <2>2, <2>3 DEF Copies
<1>3. CASE res[k] # "SUCCESS"
  <2>1. S = {}
    BY <1>1, <1>3 DEF Recorded
  <2>2. Cardinality({}) = 0
    BY FS_EmptySet
  <2> QED
    BY <1>3, <2>1, <2>2 DEF Copies
<1> QED
  BY <1>2, <1>3

-----------------------------------------------------------------------------
(* Memory.                                                                 *)

(* How the steps of a call move their thread: a call begins, push goes on, *)
(* close goes on until it frees.                                           *)
life == <<holder, obj, hFreed, refs, env, cache, msg, wpc>>
Starts(t) ==
  /\ pc[t] = "idle" /\ (t = Worker => wpc = "callback")
  /\ \/ pc' = [pc EXCEPT ![t] = "p_lock"]
     \/ t \in Closers /\ \E label \in {"c_lock", "c_check"} : pc' = [pc EXCEPT ![t] = label]
  /\ UNCHANGED <<life, in, faults>>
Pushing == Assembles \cup {"p_lock"}
Pushes(t) ==
  /\ pc[t] \in Pushing
  /\ \E label \in Pushing \cup {"idle"} :
       /\ pc' = [pc EXCEPT ![t] = label]
       /\ pc[t] = "p_lock" => label = "p_check"
       /\ pc[t] = "p_check" /\ ~holder => label = "idle"
  /\ in' = NoBuffer /\ in # NoBuffer => faults' # 0
  /\ faults' = faults \/ faults' = faults + 1
  /\ UNCHANGED life
Closes(t) ==
  /\ pc[t] \in {"c_lock", "c_check", "c_native", "d_obj", "d_stop", "d_join"}
  /\ \E label \in {"c_check", "c_native", "d_obj", "d_stop", "d_join", "d_free", "d_buffer",
         "idle"} :
       /\ pc' = [pc EXCEPT ![t] = label]
       /\ pc[t] = "c_lock" => label = "c_check"
       /\ pc[t] = "c_check" /\ ~holder => label = "idle"
       /\ label = "d_free" => wpc = "ended" \/ t = Worker
       /\ label = "d_buffer" => ~obj
  /\ UNCHANGED <<life, in, faults>>

(* Every step of a call is one of these, or a named step of destroy, or    *)
(* one that ends the process.                                              *)
LEMMA LifeKinds ==
  ASSUME Types, NEW t \in Threads, CallStarts(t) \/ CallSteps(t)
  PROVE  \/ Starts(t) \/ Pushes(t) \/ Closes(t)
         \/ DestroyFree(t) \/ DestroyBuffer(t) \/ DestroyRefs(t) \/ DestroyHolder(t)
         \/ UseAfterFree(t) \/ NullBuffer(t)
<1> USE DEF Goto, Return, context, buffer, handler, thread, worker, history, life
<1>1. CASE CallStarts(t)
  BY <1>1 DEF CallStarts, PushCall, CloseCall, Begin, Starts
<1>2. CASE PushLock(t) \/ PushCheck(t) \/ PushNative(t)
  BY <1>2 DEF PushLock, PushCheck, PushNative, Pushes, Pushing, Assembles
<1>3. CASE PushGrow(t)
  <2>1. /\ pc[t] \in Pushing /\ pc[t] \notin {"p_lock", "p_check"} /\
         "p_copy" \in Pushing \cup {"idle"}
        /\ pc' = [pc EXCEPT ![t] = "p_copy"] /\ UNCHANGED life
    BY <1>3 DEF PushGrow, Pushing, Assembles
  <2>2. [head |-> 0, body |-> 0, len |-> 0] # NoBuffer
    BY MessageIsBuffer DEF Message
  <2>3. /\ in' = NoBuffer /\ in # NoBuffer => faults' # 0
        /\ faults' = faults \/ faults' = faults + 1
    BY <1>3, <2>2 DEF Types, PushGrow, Fault
  <2> QED
    BY <2>1, <2>3 DEF Pushes
<1>4. CASE PushCopy(t)
  <2>1. in' \in Message
    BY <1>4 DEF Types, PushCopy, Message
  <2> QED
    BY <1>4, <2>1, MessageIsBuffer DEF PushCopy, Pushes, Pushing, Assembles
<1>5. CASE PushHead(t)
  <2>1. in # NoBuffer => in' \in Message
    BY <1>5 DEF Types, PushHead, Assembled, Message
  <2> QED
    BY <1>5, <2>1, MessageIsBuffer DEF PushHead, Pushes, Pushing, Assembles
<1>6. CASE PushTry(t) \/ PushRefused(t) \/ PushAccepted(t) \/ PushFull(t) \/ PushSleep(t)
  BY <1>6 DEF PushTry, PushRefused, PushAccepted, AfterPush, PushFull, PushSleep, Pushes, Pushing,
         Assembles
<1>7. CASE CloseLock(t) \/ CloseCheck(t) \/ CloseNative(t)
  BY <1>7 DEF CloseLock, CloseCheck, CloseNative, Closes
<1>8. CASE DestroyObj(t) \/ DestroyStop(t) \/ DestroyJoin(t)
  BY <1>8 DEF DestroyObj, HasHandler, DestroyStop, DestroyJoin, Closes
<1> QED
  BY <1>1, <1>2, <1>3, <1>4, <1>5, <1>6, <1>7, <1>8 DEF CallSteps

(* The worker's steps: while it lives nothing is gone.                     *)
LEMMA WorkerLife ==
  ASSUME Types, WorkerSteps
  PROVE  /\ UNCHANGED <<holder, obj, hFreed, refs, buffer>>
         /\ wpc # "ended" /\ ~Crashed
         /\ pc' = pc \/ NullCache
         /\ wpc = "callback" => pc[Worker] = "idle"
         /\ wpc' = "callback" => env' /\ msg'.len <= cache'
         /\ NullCache \/ ~Crashed'
         /\ faults' = faults \/ faults' = faults + 1
         /\ NullCache => faults' = faults + 1 /\ pc' = [t \in Threads |-> "null_buffer"] /\ Crashed'
<1> USE DEF Crash, Crashed, WorkerGoto, context, buffer, handler, thread, worker, history, Fault
<1>1. CASE Ready \/ Wait \/ Pop \/ ExitSeen \/ Discard \/ Detached \/ Stop
  BY <1>1 DEF Ready, Wait, Pop, ExitSeen, Discard, Detached, Stop, NullCache
<1>2. CASE CallListener
  <2>1. msg \in Message /\ cache \in Nat /\ cache' = CacheFor(msg) /\ wpc = "handle"
    BY <1>2 DEF Types, CallListener
  <2>2. msg.len \in Int /\ msg.len <= cache'
    BY <2>1 DEF CacheFor, Message
  <2> QED
    BY <1>2, <2>2 DEF CallListener, NullCache
<1>3. CASE ListenerReturns \/ \E r \in {-1, 1} : ListenerRefuses(r)
  BY <1>3 DEF ListenerReturns, ListenerRefuses, NullCache
<1>4. CASE NullCache
  BY <1>4 DEF NullCache
<1> QED
  BY <1>1, <1>2, <1>3, <1>4 DEF WorkerSteps

(* The shutdown goes in the order that Shut describes, if the listener     *)
(* does not close.                                                         *)
LEMMA StepShut ==
  ASSUME Worker \notin Closers, Types, Shut, [Next]_vars
  PROVE  Shut'
<1>1. CASE UNCHANGED <<life, pc>>
  BY <1>1 DEF Shut, life, InCall, Crashed
<1>2. ASSUME NEW t \in Threads, CallStarts(t) \/ CallSteps(t) PROVE Shut'
  <2>1. CASE Starts(t)
    <3>1. t \in Closers => t \in Users
      BY QueueAssumption DEF QueueAssumption
    <3>2. PICK label : /\ pc' = [pc EXCEPT ![t] = label]
                       /\ label = "p_lock" \/ (label \in {"c_lock", "c_check"} /\ t \in Users)
      <4>1. CASE pc' = [pc EXCEPT ![t] = "p_lock"]
        BY <4>1
      <4>2. CASE t \in Closers /\ \E label \in {"c_lock", "c_check"} :
             pc' = [pc EXCEPT ![t] = label]
        <5>1. PICK label \in {"c_lock", "c_check"} : pc' = [pc EXCEPT ![t] = label]
          BY <4>2
        <5> QED
          BY <3>1, <4>2, <5>1
      <4> QED
        BY <2>1, <4>1, <4>2 DEF Starts
    <3>3. UNCHANGED life /\ pc[t] = "idle" /\ (t = Worker => wpc = "callback")
      BY <2>1 DEF Starts
    <3>4. pc'[t] = label /\ \A u \in Threads : u # t => pc'[u] = pc[u]
      BY <3>2 DEF Types
    <3>5. \A u \in Threads : pc'[u] \in Closing => u \in Users
      BY <3>2, <3>4 DEF Shut, Closing
    <3>6. \A u \in Threads : pc'[u] \in {"d_free", "d_buffer", "d_refs", "d_holder"} =>
           pc'[u] = pc[u]
      BY <3>2, <3>4
    <3>7. InCall(Worker)' => wpc' = "callback"
      BY <3>3, <3>4 DEF Shut, InCall, life, Threads
    <3> QED
      BY <3>3, <3>5, <3>6, <3>7 DEF Shut, life, Crashed
  <2>2. CASE Pushes(t)
    BY <2>2 DEF Types, Shut, Pushes, Pushing, Assembles, life, InCall, Crashed, Closing
  <2>3. CASE Closes(t)
    <3>1. t \in Users /\ t # Worker
      BY <2>3, QueueAssumption DEF Shut, Closes, Closing, QueueAssumption
    <3> QED
      BY <2>3, <3>1 DEF Types, Shut, Closes, life, InCall, Crashed, Closing
  <2>4. CASE DestroyFree(t) \/ DestroyBuffer(t) \/ DestroyRefs(t) \/ DestroyHolder(t)
    <3>1. t \in Users /\ t # Worker /\ (wpc = "ended" \/ Crashed)
      BY <2>4, QueueAssumption DEF Shut, DestroyFree, DestroyBuffer, DestroyRefs, DestroyHolder,
             Closing, QueueAssumption
    <3> USE DEF Goto, Return, context, buffer, handler, thread, worker, history
    <3>2. CASE DestroyFree(t)
      BY <3>1, <3>2 DEF Types, Shut, DestroyFree, InCall, Crashed, Closing
    <3>3. CASE DestroyBuffer(t)
      BY <3>1, <3>3 DEF Types, Shut, DestroyBuffer, InCall, Crashed, Closing
    <3>4. CASE DestroyRefs(t)
      BY <3>1, <3>4 DEF Types, Shut, DestroyRefs, InCall, Crashed, Closing
    <3>5. CASE DestroyHolder(t)
      BY <3>1, <3>5 DEF Types, Shut, DestroyHolder, InCall, Crashed, Closing
    <3> QED
      BY <2>4, <3>2, <3>3, <3>4, <3>5
  <2>5. CASE UseAfterFree(t) \/ NullBuffer(t)
    BY <2>5 DEF Shut, UseAfterFree, NullBuffer, Crash, Crashed, InCall, Closing, Threads, context,
           buffer, handler, history
  <2> QED
    BY <1>2, <2>1, <2>2, <2>3, <2>4, <2>5, LifeKinds
<1>3. CASE WorkerSteps
  <2>1. CASE NullCache
    BY <1>3, <2>1, WorkerLife DEF Shut, InCall, Closing, Threads, NullCache, Crash, Crashed
  <2>2. CASE ~NullCache
    BY <1>3, <2>2, WorkerLife DEF Shut, InCall
  <2> QED
    BY <2>1, <2>2
<1> QED
  BY <1>1, <1>2, <1>3 DEF Next, vars, life, context, handler, worker

(* When the queue is gone its thread has ended, and either the handle is   *)
(* gone too or the one that closes is the only thread in a call.           *)
LEMMA Gone ==
  ASSUME Shut, Safe, ~obj \/ in = NoBuffer
  PROVE  /\ ~obj /\ wpc = "ended"
         /\ \/ ~holder
            \/ \E u \in Users : /\ pc[u] \in {"d_buffer", "d_refs", "d_holder"}
                               /\ \A v \in Threads \ {u} : pc[v] = "idle"
<1>1. ~obj
  BY DEF Shut, Safe, Threads
<1>2. wpc = "ended"
  BY <1>1 DEF Shut, Safe
<1>3. ASSUME NEW u \in Users, pc[u] \in {"d_buffer", "d_refs", "d_holder"}, NEW v \in Threads \ {u}
      PROVE  pc[v] = "idle"
  <2>1. CASE v \in Users
    BY <1>3, <2>1 DEF Safe, Race, Closing
  <2>2. CASE v = Worker
    BY <1>2, <2>2 DEF Shut, Safe, InCall, Threads
  <2> QED
    BY <2>1, <2>2 DEF Threads
<1>4. ~holder \/ \E u \in Users : pc[u] \in {"d_buffer", "d_refs", "d_holder"}
  BY <1>1 DEF Safe
<1> QED
  BY <1>1, <1>2, <1>3, <1>4

(* No step of a call leaves what is safe, unless it races or fails.        *)
LEMMA CallSafe ==
  ASSUME Types, Shut, Safe, faults = 0, NEW t \in Threads, CallStarts(t) \/ CallSteps(t),
         faults' = 0, ~Race'
  PROVE  Safe'
<1>1. CASE Starts(t)
  <2>1. /\ UNCHANGED <<holder, obj, in, wpc>> /\ pc[t] = "idle"
        /\ \E label \in {"p_lock", "c_lock", "c_check"} : pc' = [pc EXCEPT ![t] = label]
    BY <1>1 DEF Starts, life
  <2>2. pc'[t] \in {"p_lock", "c_lock", "c_check"} /\ \A u \in Threads : u # t => pc'[u] = pc[u]
    BY <2>1 DEF Types
  <2> QED
    BY <2>1, <2>2 DEF Safe, Crashed, Outside, Threads
<1>2. CASE Pushes(t)
  <2>1. /\ UNCHANGED <<holder, obj, wpc>> /\ (in' = NoBuffer => in = NoBuffer) /\ pc[t] \in Pushing
        /\ \E label \in Pushing \cup {"idle"} :
             /\ pc' = [pc EXCEPT ![t] = label]
             /\ pc[t] = "p_lock" => label = "p_check"
             /\ pc[t] = "p_check" /\ ~holder => label = "idle"
    BY <1>2 DEF Pushes, life
  <2>2. /\ pc'[t] \in Pushing \cup {"idle"} /\ \A u \in Threads : u # t => pc'[u] = pc[u]
        /\ pc[t] = "p_lock" => pc'[t] = "p_check"
        /\ pc[t] = "p_check" /\ ~holder => pc'[t] = "idle"
    BY <2>1 DEF Types
  <2> QED
    BY <2>1, <2>2 DEF Safe, Crashed, Outside, Threads, Pushing, Assembles
<1>3. CASE Closes(t)
  <2>1. /\ UNCHANGED <<holder, obj, wpc, in>> /\
         pc[t] \in Closing \ {"d_buffer", "d_refs", "d_holder"}
        /\ \E label \in Closing \cup {"idle"} :
             /\ pc' = [pc EXCEPT ![t] = label]
             /\ pc[t] = "c_lock" => label = "c_check"
             /\ pc[t] = "c_check" /\ ~holder => label = "idle"
    BY <1>3 DEF Closes, life, Closing
  <2>2. /\ pc'[t] \in Closing \cup {"idle"} /\ \A u \in Threads : u # t => pc'[u] = pc[u]
        /\ pc[t] = "c_lock" => pc'[t] = "c_check"
        /\ pc[t] = "c_check" /\ ~holder => pc'[t] = "idle"
    BY <2>1 DEF Types
  <2> QED
    BY <2>1, <2>2 DEF Safe, Crashed, Outside, Threads, Closing
<1>4. CASE DestroyFree(t) \/ DestroyBuffer(t) \/ DestroyRefs(t)
  <2>1. t \in Users /\ holder
    BY <1>4 DEF Shut, Safe, Closing, Outside, DestroyFree, DestroyBuffer, DestroyRefs
  <2>2. /\ UNCHANGED <<holder, wpc>> /\ (in' = NoBuffer => in = NoBuffer \/ DestroyBuffer(t))
        /\ \/ DestroyFree(t) /\ pc[t] = "d_free" /\ pc' = [pc EXCEPT ![t] = "d_buffer"] /\
               ~DestroyBuffer(t)
           \/ obj' = obj /\ pc[t] = "d_buffer" /\ pc' = [pc EXCEPT ![t] = "d_refs"]
           \/ obj' = obj /\ pc[t] = "d_refs" /\ pc' = [pc EXCEPT ![t] = "d_holder"] /\
                  ~DestroyBuffer(t)
    BY <1>4 DEF DestroyFree, DestroyBuffer, DestroyRefs, Goto, context, buffer, worker
  <2>3. \A u \in Threads : u # t => pc'[u] = pc[u]
    BY <2>2 DEF Types
  <2>4. /\ pc'[t] \in {"d_buffer", "d_refs", "d_holder"}
        /\ pc[t] # "d_free" => pc'[t] \in {"d_refs", "d_holder"}
        /\ DestroyBuffer(t) => pc'[t] = "d_refs"
    BY <2>2 DEF Types
  <2> QED
    BY <2>1, <2>2, <2>3, <2>4 DEF Safe, Crashed, Threads
<1>5. CASE DestroyHolder(t)
  <2>1. t \in Users /\ ~obj /\ pc[t] = "d_holder"
    BY <1>5 DEF Shut, Closing, DestroyHolder
  <2>2. /\ UNCHANGED <<obj, in, wpc>> /\ holder' = FALSE /\ pc' = [pc EXCEPT ![t] = "idle"]
    BY <1>5 DEF DestroyHolder, Goto, Return, context, buffer, worker
  <2>3. \A v \in Threads : v # t => pc[v] = "idle"
    BY <2>1, Gone DEF Safe, Outside, Threads
  <2>4. \A v \in Threads : pc'[v] = "idle"
    BY <2>2, <2>3 DEF Types
  <2> QED
    BY <2>2, <2>4 DEF Safe, Crashed, Outside
<1>6. CASE UseAfterFree(t) \/ NullBuffer(t)
  <2>1. ~obj \/ in = NoBuffer
    BY <1>6 DEF Shut, UseAfterFree, NullBuffer
  <2>2. pc[t] \in {"p_copy", "p_push", "d_stop", "d_join", "d_free"} \/
         wpc \in {"wait", "pop", "stop"}
    BY <1>6 DEF UseAfterFree, NullBuffer
  <2>3. pc[t] \notin {"p_copy", "p_push", "d_stop", "d_join", "d_free"}
    <3>1. CASE ~holder
      BY <3>1 DEF Safe, Outside
    <3>2. CASE \E u \in Users : /\ pc[u] \in {"d_buffer", "d_refs", "d_holder"}
                                /\ \A v \in Threads \ {u} : pc[v] = "idle"
      BY <3>2
    <3> QED
      BY <2>1, <3>1, <3>2, Gone
  <2> QED
    BY <2>1, <2>2, <2>3, Gone
<1> QED
  BY <1>1, <1>2, <1>3, <1>4, <1>5, <1>6, LifeKinds

(* Nor does a step of the worker, which lives only while the queue does.   *)
LEMMA StepAlone ==
  ASSUME Types, Shut, Alone, [Next]_vars
  PROVE  Alone'
<1>1. CASE UNCHANGED vars
  BY <1>1 DEF Alone, Safe, Crashed, Race, vars, context, buffer, worker
<1>2. CASE Next
  <2> SUFFICES ASSUME ~raced', faults' = 0 PROVE Safe'
    BY DEF Alone
  <2>1. ~raced /\ ~Race'
    BY <1>2 DEF Next, Observe
  <2>2. faults \in Nat
    BY DEF Types
  <2>3. ASSUME NEW t \in Threads, CallStarts(t) \/ CallSteps(t) PROVE Safe'
    <3>1. faults' = faults \/ faults' = faults + 1
      BY <2>3, LifeKinds DEF Starts, Pushes, Closes, DestroyFree, DestroyBuffer, DestroyRefs,
             DestroyHolder, UseAfterFree, NullBuffer
    <3>2. faults = 0 /\ Safe
      BY <2>1, <2>2, <3>1 DEF Alone
    <3> QED
      BY <2>1, <2>3, <3>2, CallSafe
  <2>4. CASE WorkerSteps
    <3>1. /\ UNCHANGED <<holder, obj, in>> /\ faults = 0
          /\ UNCHANGED pc /\ ~Crashed'
      BY <2>2, <2>4, WorkerLife DEF buffer
    <3>2. Safe
      BY <2>1, <3>1 DEF Alone
    <3> QED
      BY <2>1, <3>1, <3>2 DEF Safe
  <2> QED
    BY <1>2, <2>3, <2>4 DEF Next
<1> QED
  BY <1>1, <1>2

-----------------------------------------------------------------------------
(* The inductive invariant of every instance.                              *)
IInv ==
  /\ Types /\ Locked /\ Measured /\ (\A t \in Threads : Assembly(t))
  /\ Exiting /\ Flow /\ Calls /\ Recorded /\ Unmixed

(* The invariant holds at first and is kept by every step.                 *)
LEMMA InitIInv == Init => IInv
<1> SUFFICES ASSUME Init PROVE IInv
  OBVIOUS
<1>1. \A t \in Threads : pc[t] = "idle"
  BY DEF Init
<1>2. Locked /\ Measured /\ \A t \in Threads : Assembly(t)
  BY <1>1 DEF Locked, Assembles, Measured, Assembly
<1>3. accepted = <<>> /\ delivered = <<>> /\ queue = <<>> /\ res = <<>> /\ wpc = "start" /\
       refused = FALSE
  BY DEF Init
<1>4. Exiting
  BY <1>1, <1>3 DEF Exiting, Destroying
<1>5. Flow /\ Unmixed
  BY <1>3 DEF Flow, InHand, Unmixed
<1>6. Calls /\ Recorded
  BY <1>1, <1>3 DEF Calls, InCall, Recorded
<1> QED
  BY <1>2, <1>4, <1>5, <1>6, InitTypes DEF IInv

LEMMA NextIInv == IInv /\ [Next]_vars => IInv'
<1> SUFFICES ASSUME IInv, [Next]_vars PROVE IInv'
  OBVIOUS
<1>1. /\ Types /\ Locked /\ Measured /\ (\A t \in Threads : Assembly(t))
      /\ Exiting /\ Flow /\ Calls /\ Recorded /\ Unmixed
  BY DEF IInv
<1>2. Types' /\ Locked' /\ Measured' /\ \A t \in Threads : Assembly(t)'
  BY <1>1, StepTypes, StepLocked, StepMeasured, StepAssembly
<1>3. Exiting' /\ Flow' /\ Calls' /\ Recorded' /\ Unmixed'
  BY <1>1, StepExiting, StepFlow, StepCalls, StepUnmixed
<1> QED
  BY <1>2, <1>3 DEF IInv

(* The inductive invariant holds in every instance.                        *)
THEOREM Invariance == Spec => []IInv
<1> QED
  BY InitIInv, NextIInv, PTL DEF Spec

(* What the queue took is one call's message, whoever else was pushing or  *)
(* closing and whatever happened to the shared buffer (pushMsg).           *)
THEOREM MessagesWhole == Spec => []Unmixed
<1>1. IInv => Unmixed
  BY DEF IInv
<1> QED
  BY <1>1, Invariance, PTL

(* pushMsg tells the truth: SUCCESS means queued exactly once, anything    *)
(* else not queued.                                                        *)
THEOREM ResultsTrue == Spec => []ReportsTrue
<1>1. IInv => ReportsTrue
  BY RecordedIsTrue DEF IInv
<1> QED
  BY <1>1, Invariance, PTL

(* The queue implements FifoPipe: the listener gets what was accepted, in  *)
(* order, and nothing after the worker has ended or it has refused one     *)
(* (pushMsg, handle_queue_msg).                                            *)
THEOREM Refinement == Spec => DeliversInOrder
<1>1. Init => Pipe!PipeInit
  BY DEF Init, Crashed, Pipe!PipeInit
<1>2. IInv /\ IInv' /\ [Next]_vars => [Pipe!PipeNext]_Pipe!pipeVars
  BY PipeStep DEF IInv
<1> QED
  BY <1>1, <1>2, Invariance, PTL DEF Spec, DeliversInOrder, Pipe!PipeSpec

-----------------------------------------------------------------------------
(* What holds when the listener does not close its own queue.              *)

(* At first nothing is shut.                                               *)
LEMMA InitShut == Init => Shut /\ Alone
<1> SUFFICES ASSUME Init PROVE Shut /\ Alone
  OBVIOUS
<1>1. \A t \in Threads : pc[t] = "idle"
  BY DEF Init
<1>2. wpc = "start" /\ holder /\ refs /\ obj /\ ~hFreed
  BY DEF Init
<1>3. in # NoBuffer
  BY InitTypes, MessageIsBuffer DEF Init, Message
<1>4. Shut
  BY <1>1, <1>2 DEF Shut, InCall, Closing, Threads
<1>5. Safe
  BY <1>1, <1>2, <1>3 DEF Safe, Crashed, Race, Threads
<1> QED
  BY <1>4, <1>5 DEF Alone

(* Shut and Alone hold if the listener does not close its own queue.       *)
THEOREM Closed == ASSUME Worker \notin Closers PROVE Spec => [](IInv /\ Shut /\ Alone)
<1>1. Init => IInv /\ Shut /\ Alone
  BY InitIInv, InitShut
<1>2. IInv /\ Shut /\ Alone /\ [Next]_vars => IInv' /\ Shut' /\ Alone'
  BY NextIInv, StepShut, StepAlone DEF IInv
<1> QED
  BY <1>1, <1>2, PTL DEF Spec

(* The listener is never called through references or an environment that  *)
(* destroy has given back (handle_queue_msg, pri_destroy_jni_context).     *)
THEOREM CallsThroughRefs == ASSUME Worker \notin Closers PROVE Spec => []RefsHeld
<1>1. Shut => RefsHeld
  BY DEF Shut, RefsHeld, Crashed
<1> QED
  BY <1>1, Closed, PTL

(* Unless threads race with close or an allocation fails, nobody touches   *)
(* memory that is gone; what is copied into the shared buffer always fits. *)
THEOREM MemoryIsSafe == ASSUME Worker \notin Closers PROVE Spec => []MemorySafe
<1>1. IInv /\ Shut /\ Alone => MemorySafe
  <2> SUFFICES ASSUME IInv, Alone PROVE MemorySafe
    OBVIOUS
  <2>1. ~raced /\ faults = 0 => ~Crashed
    BY DEF Alone, Safe
  <2>2. \A t \in Threads : pc[t] = "p_copy" /\ in # NoBuffer => call[t].len <= in_obj_capacity
    BY DEF IInv, Assembly
  <2> QED
    BY <2>1, <2>2 DEF MemorySafe
<1> QED
  BY <1>1, Closed, PTL

=============================================================================
