---------------------------- MODULE MsgQueueHandler ----------------------------
(***************************************************************************)
(* MsgQueueHandlerJni.java over jni_msg_queue_handler.c: pushMsg assembles *)
(* a message in a buffer that all pushers share and hands it to a native   *)
(* queue; the queue's thread (the worker) pops the messages and calls the  *)
(* Java listener; close destroys queue, buffer and references.             *)
(*                                                                         *)
(* "If you call in multiple threads, you should use locks to protect this  *)
(* method" (Helper.pushMsg): the application's lock is part of the model;  *)
(* CloseLocks says whether the application also holds it around close.     *)
(*                                                                         *)
(* The native queue and its thread belong to liblcu (ring/                 *)
(* msg_queue_handler.h), which is modelled from how this code uses it: a   *)
(* bounded queue, a semaphore, an exit flag, a destroy that sets the flag, *)
(* joins the thread and frees the queue.  A use of freed or missing memory *)
(* is taken to end the process.                                            *)
(*                                                                         *)
(* An operator whose name ends in _Mutant is a plausible bug in the        *)
(* definition that follows it; no specification uses it.  PROJECT.json     *)
(* names the property each one violates.                                   *)
(***************************************************************************)
EXTENDS Integers, Sequences, FiniteSets, SequencesExt

CONSTANTS
  Users,            (* application threads                                 *)
  Worker,           (* the queue's thread                                  *)
  Pushers, Closers, (* threads that call pushMsg and close; the worker     *)
                    (* does so from the listener                           *)
  CloseLocks,       (* is a close called under the pushers' lock? answers  *)
  Lens,             (* values of Message.objLen, also illegal ones         *)
  InitCap,          (* initial capacity of the shared buffer               *)
  InitCache,        (* initial capacity of the array for the listener      *)
  QueueSize,        (* capacity of the queue; a message takes 1 + objLen   *)
  MaxPushRetry,     (* MAX_PUSH_RETRY_COUNT                                *)
  MaxCalls,         (* bound: API calls in a behaviour                     *)
  MaxFaults         (* bound: failing allocations and attachments          *)

ASSUME QueueAssumption ==
  /\ Worker \notin Users
  /\ Pushers \subseteq Users \cup {Worker} /\ Closers \subseteq Users \cup {Worker}
  /\ CloseLocks \subseteq BOOLEAN
  /\ Lens \subseteq Int
  /\ InitCap \in Nat /\ InitCache \in Nat /\ QueueSize \in Nat /\ MaxPushRetry \in Nat \ {0}
  /\ MaxCalls \in Nat /\ MaxFaults \in Nat

Threads == Users \cup {Worker}

VARIABLES
  holder,               (* mHandleHolder[0] is not 0                       *)
  flag_exit,
  obj,                  (* context->obj is not NULL                        *)
  in, in_obj_capacity,  (* the shared buffer, NoBuffer when it is NULL     *)
  refs, env,            (* global references held; worker attached         *)
  cache,                (* capacity of the Java array that carries a       *)
                        (*   message's bytes, 0 when it is NULL            *)
  hExit, hFreed,        (* liblcu: exit flag; queue and handler freed      *)
  queue, sem,           (* liblcu: messages, semaphore                     *)
  lock,                 (* threads holding the application's lock          *)
  pc, call, retry,      (* per thread: step, call in progress, retry_count *)
  wpc, msg,             (* the worker's step and message                   *)
  res,                  (* history: per call, what it returned             *)
  accepted, delivered,  (* history: messages queued, calls of the listener *)
  refused,              (* history: the listener returned an error         *)
  raced,                (* history: two threads were inside calls, one of  *)
                        (*   them close                                    *)
  faults                (* see MaxFaults                                   *)

context == <<flag_exit, obj, refs, env, cache>>
buffer  == <<in, in_obj_capacity>>
handler == <<hExit, hFreed, queue, sem>>
thread  == <<call, retry>>
worker  == <<wpc, msg>>
history == <<accepted, delivered, refused>>
vars    == <<holder, context, buffer, handler, lock, pc, thread, worker, res, history, raced, faults>>

(* What and arg1, arg2 are one datum, the call's number; so are the bytes  *)
(* of obj.  A buffer whose length is 0 carries no bytes.                   *)
NoBuffer == <<>>
Cost(m) == 1 + m.len
Used == FoldSeq(LAMBDA m, n : Cost(m) + n, 0, queue)

Init ==
  /\ holder = TRUE
  /\ flag_exit = FALSE /\ obj = TRUE /\ refs = TRUE /\ env = FALSE
  /\ cache = InitCache
  /\ in = [head |-> 0, body |-> 0, len |-> 0] /\ in_obj_capacity = InitCap
  /\ hExit = FALSE /\ hFreed = FALSE /\ queue = <<>> /\ sem = 0
  /\ lock = {}
  /\ pc = [t \in Threads |-> "idle"]
  /\ call = [t \in Threads |-> [id |-> 0, len |-> 0]]
  /\ retry = [t \in Threads |-> 0]
  /\ wpc = "start" /\ msg = NoBuffer
  /\ res = <<>> /\ accepted = <<>> /\ delivered = <<>> /\ refused = FALSE
  /\ raced = FALSE /\ faults = 0

Goto(t, label) == pc' = [pc EXCEPT ![t] = label]
Fault          == faults < MaxFaults /\ faults' = faults + 1
Crash(kind)    == pc' = [t \in Threads |-> kind] /\ wpc' = kind
Crashed        == wpc \in {"use_after_free", "null_buffer"}

(* The worker is in the listener's code when it calls the API.             *)
Begin(t) ==
  /\ pc[t] = "idle"
  /\ t = Worker => wpc = "callback"
  /\ Len(res) < MaxCalls

(* A call ends: the application releases its lock.                         *)
Return(t, code) ==
  /\ Goto(t, "idle")
  /\ res' = [res EXCEPT ![call[t].id] = code]
  /\ lock' = lock \ {t}

-----------------------------------------------------------------------------
(* pushMsg                                                                 *)

PushCall(t, len) ==
  /\ Begin(t)
  /\ res' = Append(res, "pending")
  /\ call' = [call EXCEPT ![t] = [id |-> Len(res'), len |-> len]]
  /\ retry' = [retry EXCEPT ![t] = 0]
  /\ Goto(t, "p_lock")
  /\ UNCHANGED <<holder, context, buffer, handler, lock, worker, history, faults>>

PushLock(t) ==
  /\ pc[t] = "p_lock"
  /\ lock = {}
  /\ lock' = {t}
  /\ Goto(t, "p_check")
  /\ UNCHANGED <<holder, context, buffer, handler, thread, worker, res, history, faults>>

(* Helper.pushMsg throws when the handle is 0.                             *)
PushCheck(t) ==
  /\ pc[t] = "p_check"
  /\ IF holder THEN Goto(t, "p_native") /\ UNCHANGED <<res, lock>> ELSE Return(t, "thrown")
  /\ UNCHANGED <<holder, context, buffer, handler, thread, worker, history, faults>>

PushNative(t) ==
  /\ pc[t] = "p_native"
  /\ CASE ~holder   -> Return(t, "null")
       [] flag_exit -> Return(t, "exit")
       [] OTHER     -> Goto(t, IF call[t].len > 0 THEN "p_grow" ELSE "p_head") /\ UNCHANGED <<res, lock>>
  /\ UNCHANGED <<holder, context, buffer, handler, thread, worker, history, faults>>

Outgrows(len) == len > in_obj_capacity

(* RECREATE_MSG: the capacity is set even when malloc fails.               *)
PushGrow(t) ==
  /\ pc[t] = "p_grow"
  /\ LET len == call[t].len
     IN IF Outgrows(len)
        THEN /\ in_obj_capacity' = 2 * len
             /\ \/ in' = [head |-> 0, body |-> 0, len |-> 0] /\ UNCHANGED faults
                \/ Fault /\ in' = NoBuffer
        ELSE UNCHANGED <<buffer, faults>>
  /\ Goto(t, "p_copy")
  /\ UNCHANGED <<holder, context, handler, lock, thread, worker, res, history>>

PushCopy(t) ==
  /\ pc[t] = "p_copy"
  /\ in # NoBuffer
  /\ in' = [in EXCEPT !.body = call[t].id]
  /\ Goto(t, "p_head")
  /\ UNCHANGED <<holder, context, in_obj_capacity, handler, lock, thread, worker, res, history, faults>>

Assembled_Mutant(c) == [in EXCEPT !.head = c.id, !.len = IF c.len > 0 THEN c.len ELSE @]
Assembled(c)        == [in EXCEPT !.head = c.id, !.len = c.len]

Illegal(len) == len < 0

(* An illegal length is noticed after the fields are set, before the push. *)
PushHead(t) ==
  /\ pc[t] = "p_head"
  /\ in' = IF in = NoBuffer THEN in ELSE Assembled(call[t])
  /\ IF Illegal(call[t].len) THEN Return(t, "GENERIC_FAIL") ELSE Goto(t, "p_try") /\ UNCHANGED <<res, lock>>
  /\ UNCHANGED <<holder, context, in_obj_capacity, handler, thread, worker, history, faults>>

(* msg_queue_handler_push: it refuses a NULL handler; from then on it uses *)
(* the pointer it was given.                                               *)
PushTry(t) ==
  /\ pc[t] = "p_try"
  /\ IF obj THEN Goto(t, "p_push") /\ UNCHANGED <<res, lock>> ELSE Return(t, "NULL_HANDLE")
  /\ UNCHANGED <<holder, context, buffer, handler, thread, worker, history, faults>>

Fits(m) == Used + Cost(m) <= QueueSize

PushRefused(t) ==
  /\ pc[t] = "p_push"
  /\ ~hFreed
  /\ hExit
  /\ Return(t, "NULL_HANDLE")
  /\ UNCHANGED <<holder, context, buffer, handler, thread, worker, history, faults>>

AfterPush_Mutant(t) == Goto(t, "p_sleep") /\ UNCHANGED <<res, lock>>  (* tried again all the same *)
AfterPush(t) == Return(t, "SUCCESS")

PushAccepted(t) ==
  /\ pc[t] = "p_push"
  /\ ~hFreed /\ ~hExit /\ in # NoBuffer
  /\ Fits(in)
  /\ queue' = Append(queue, in)
  /\ sem' = sem + 1
  /\ accepted' = Append(accepted, in)
  /\ AfterPush(t)
  /\ UNCHANGED <<holder, context, buffer, hExit, hFreed, thread, worker, delivered, refused, faults>>

PushFull(t) ==
  /\ pc[t] = "p_push"
  /\ ~hFreed /\ ~hExit /\ in # NoBuffer
  /\ ~Fits(in)
  /\ Goto(t, "p_sleep")
  /\ UNCHANGED <<holder, context, buffer, handler, lock, thread, worker, res, history, faults>>

NextRetry_Mutant(n) == n  (* the retries are not counted *)
NextRetry(n) == n + 1

PushSleep(t) ==
  /\ pc[t] = "p_sleep"
  /\ retry' = [retry EXCEPT ![t] = NextRetry(@)]
  /\ IF retry'[t] < MaxPushRetry
     THEN Goto(t, "p_try") /\ UNCHANGED <<res, lock>>
     ELSE Return(t, "FULL")
  /\ UNCHANGED <<holder, context, buffer, handler, call, worker, history, faults>>

-----------------------------------------------------------------------------
(* close, destroy, pri_destroy_jni_context.                                *)

CloseCall(t) ==
  /\ Begin(t)
  /\ res' = Append(res, "pending")
  /\ call' = [call EXCEPT ![t] = [id |-> Len(res'), len |-> 0]]
  /\ \E locked \in CloseLocks : Goto(t, IF locked THEN "c_lock" ELSE "c_check")
  /\ UNCHANGED <<holder, context, buffer, handler, lock, retry, worker, history, faults>>

CloseLock(t) ==
  /\ pc[t] = "c_lock"
  /\ lock = {}
  /\ lock' = {t}
  /\ Goto(t, "c_check")
  /\ UNCHANGED <<holder, context, buffer, handler, thread, worker, res, history, faults>>

CloseCheck(t) ==
  /\ pc[t] = "c_check"
  /\ IF holder THEN Goto(t, "c_native") /\ UNCHANGED <<res, lock>> ELSE Return(t, "closed")
  /\ UNCHANGED <<holder, context, buffer, handler, thread, worker, history, faults>>

(* The native side reads the holder again; another close may have been     *)
(* faster.  The context itself is never freed.                             *)
CloseNative(t) ==
  /\ pc[t] = "c_native"
  /\ IF holder
     THEN Goto(t, "d_obj") /\ flag_exit' = TRUE /\ UNCHANGED <<res, lock>>
     ELSE Return(t, "null") /\ UNCHANGED flag_exit
  /\ UNCHANGED <<holder, obj, refs, env, cache, buffer, handler, thread, worker, history, faults>>

HasHandler_Mutant == ~obj  (* the test inverted: the queue is not destroyed *)
HasHandler == obj

DestroyObj(t) ==
  /\ pc[t] = "d_obj"
  /\ Goto(t, IF HasHandler THEN "d_stop" ELSE "d_buffer")
  /\ UNCHANGED <<holder, context, buffer, handler, lock, thread, worker, res, history, faults>>

(* msg_queue_handler_destroy: flag, wake up, join, free.                   *)
DestroyStop(t) ==
  /\ pc[t] = "d_stop"
  /\ ~hFreed
  /\ hExit' = TRUE
  /\ sem' = sem + 1
  /\ Goto(t, "d_join")
  /\ UNCHANGED <<holder, context, buffer, hFreed, queue, lock, thread, worker, res, history, faults>>

(* A thread that joins itself gets an error and goes on.                   *)
DestroyJoin(t) ==
  /\ pc[t] = "d_join"
  /\ ~hFreed
  /\ wpc = "ended" \/ t = Worker
  /\ Goto(t, "d_free")
  /\ UNCHANGED <<holder, context, buffer, handler, lock, thread, worker, res, history, faults>>

DestroyFree(t) ==
  /\ pc[t] = "d_free"
  /\ ~hFreed
  /\ hFreed' = TRUE /\ queue' = <<>>
  /\ obj' = FALSE
  /\ Goto(t, "d_buffer")
  /\ UNCHANGED <<holder, flag_exit, refs, env, cache, buffer, hExit, sem, lock, thread, worker, res, history, faults>>

DestroyBuffer(t) ==
  /\ pc[t] = "d_buffer"
  /\ in' = NoBuffer
  /\ in_obj_capacity' = IF in = NoBuffer THEN in_obj_capacity ELSE 0
  /\ Goto(t, "d_refs")
  /\ UNCHANGED <<holder, context, handler, lock, thread, worker, res, history, faults>>

DestroyRefs(t) ==
  /\ pc[t] = "d_refs"
  /\ cache' = 0 /\ refs' = FALSE /\ env' = FALSE
  /\ Goto(t, "d_holder")
  /\ UNCHANGED <<holder, flag_exit, obj, buffer, handler, lock, thread, worker, res, history, faults>>

DestroyHolder(t) ==
  /\ pc[t] = "d_holder"
  /\ holder' = FALSE
  /\ Return(t, "closed")
  /\ UNCHANGED <<context, buffer, handler, thread, worker, history, faults>>

-----------------------------------------------------------------------------
(* The worker: liblcu's loop around handle_queue_msg.                      *)

WorkerGoto(label) == wpc' = label

Ready ==  (* MSG_Q_HANDLER_STATUS_READY_TO_GO: attach to the virtual machine *)
  /\ wpc = "start"
  /\ \/ env' = TRUE /\ UNCHANGED faults
     \/ Fault /\ UNCHANGED env
  /\ WorkerGoto("wait")
  /\ UNCHANGED <<holder, flag_exit, obj, refs, cache, buffer, handler, lock, pc, thread, msg, res, history>>

Wait ==
  /\ wpc = "wait"
  /\ ~hFreed
  /\ sem > 0
  /\ sem' = sem - 1
  /\ WorkerGoto("pop")
  /\ UNCHANGED <<holder, context, buffer, hExit, hFreed, queue, lock, pc, thread, msg, res, history, faults>>

Pop ==
  /\ wpc = "pop"
  /\ ~hFreed /\ ~hExit
  /\ queue # <<>>
  /\ msg' = Head(queue)
  /\ queue' = Tail(queue)
  /\ WorkerGoto("handle")
  /\ UNCHANGED <<holder, context, buffer, hExit, hFreed, sem, lock, pc, thread, res, history, faults>>

ExitSeen ==
  /\ wpc = "pop"
  /\ ~hFreed /\ hExit
  /\ WorkerGoto("stop")
  /\ UNCHANGED <<holder, context, buffer, handler, lock, pc, thread, msg, res, history, faults>>

(* handle_queue_msg: after flag_exit the rest of the queue is discarded,   *)
(* without an environment the chain is broken.                             *)
Discard ==
  /\ wpc = "handle"
  /\ flag_exit
  /\ WorkerGoto("wait")
  /\ UNCHANGED <<holder, context, buffer, handler, lock, pc, thread, msg, res, history, faults>>

Detached ==
  /\ wpc = "handle"
  /\ ~flag_exit /\ ~env
  /\ WorkerGoto("stop")
  /\ UNCHANGED <<holder, context, buffer, handler, lock, pc, thread, msg, res, history, faults>>

Deliverable_Mutant(m) == m.len > 0  (* the length test leaves the handler, not the loop *)
Deliverable(m) == TRUE

(* A message that outgrows the array gets a new one of twice its length;   *)
(* the bytes are copied into it for the listener.                          *)
CacheFor(m) == IF m.len > cache THEN 2 * m.len ELSE cache

CallListener ==
  /\ wpc = "handle"
  /\ ~flag_exit /\ env
  /\ cache' = CacheFor(msg)
  /\ IF Deliverable(msg)
     THEN delivered' = Append(delivered, msg) /\ WorkerGoto("callback")
     ELSE WorkerGoto("wait") /\ UNCHANGED delivered
  /\ UNCHANGED <<holder, flag_exit, obj, refs, env, buffer, handler, lock, pc, thread, msg, res, accepted, refused, faults>>

ListenerReturns ==
  /\ wpc = "callback"
  /\ pc[Worker] = "idle"
  /\ WorkerGoto("wait")
  /\ UNCHANGED <<holder, context, buffer, handler, lock, pc, thread, msg, res, history, faults>>

Refusal(ret) == ret # 0

(* The listener's result; handleEvent turns an exception into -1.          *)
ListenerRefuses(ret) ==
  /\ wpc = "callback"
  /\ pc[Worker] = "idle"
  /\ flag_exit' = (flag_exit \/ Refusal(ret))
  /\ refused' = TRUE
  /\ WorkerGoto(IF Refusal(ret) THEN "stop" ELSE "wait")
  /\ UNCHANGED <<holder, obj, refs, env, cache, buffer, handler, lock, pc, thread, msg, res,
                 accepted, delivered, faults>>

Stop ==  (* MSG_Q_HANDLER_STATUS_ABOUT_TO_STOP: detach *)
  /\ wpc = "stop"
  /\ ~hFreed
  /\ hExit' = TRUE
  /\ env' = FALSE
  /\ WorkerGoto("ended")
  /\ UNCHANGED <<holder, flag_exit, obj, refs, cache, buffer, hFreed, queue, sem, lock, pc, thread, msg,
                 res, history, faults>>

-----------------------------------------------------------------------------
(* Steps that would touch memory that is gone.                             *)

UseAfterFree(t) ==
  /\ \/ pc[t] \in {"p_push", "d_stop", "d_join", "d_free"}
     \/ t = Worker /\ wpc \in {"wait", "pop", "stop"}
  /\ hFreed
  /\ Crash("use_after_free")
  /\ UNCHANGED <<holder, context, buffer, handler, lock, thread, msg, res, history, faults>>

(* memcpy into a buffer that is NULL, or a push of a NULL message.         *)
NullBuffer(t) ==
  /\ in = NoBuffer
  /\ \/ pc[t] = "p_copy"
     \/ pc[t] = "p_push" /\ ~hFreed /\ ~hExit
  /\ Crash("null_buffer")
  /\ UNCHANGED <<holder, context, buffer, handler, lock, thread, msg, res, history, faults>>

(* The old array is given back before the new one is asked for: when that  *)
(* fails the bytes are copied into NULL.                                   *)
NullCache ==
  /\ wpc = "handle"
  /\ ~flag_exit /\ env
  /\ msg.len > cache
  /\ Fault
  /\ cache' = 0
  /\ Crash("null_buffer")
  /\ UNCHANGED <<holder, flag_exit, obj, refs, env, buffer, handler, lock, thread, msg, res, history>>

-----------------------------------------------------------------------------
CallStarts(t) ==
  \/ t \in Pushers /\ \E len \in Lens : PushCall(t, len)
  \/ t \in Closers /\ CloseCall(t)

CallSteps(t) ==
  \/ PushLock(t) \/ PushCheck(t) \/ PushNative(t) \/ PushGrow(t) \/ PushCopy(t) \/ PushHead(t)
  \/ PushTry(t) \/ PushRefused(t) \/ PushAccepted(t) \/ PushFull(t) \/ PushSleep(t)
  \/ CloseLock(t) \/ CloseCheck(t) \/ CloseNative(t)
  \/ DestroyObj(t) \/ DestroyStop(t) \/ DestroyJoin(t) \/ DestroyFree(t)
  \/ DestroyBuffer(t) \/ DestroyRefs(t) \/ DestroyHolder(t)
  \/ UseAfterFree(t) \/ NullBuffer(t)

WorkerSteps ==
  \/ Ready \/ Wait \/ Pop \/ ExitSeen \/ Discard \/ Detached \/ CallListener \/ NullCache
  \/ ListenerReturns \/ \E ret \in {-1, 1} : ListenerRefuses(ret)
  \/ Stop

Closing == {"c_lock", "c_check", "c_native", "d_obj", "d_stop", "d_join", "d_free",
            "d_buffer", "d_refs", "d_holder"}
Race == \E t, u \in Users : t # u /\ pc[t] # "idle" /\ pc[u] \in Closing

Observe == raced' = (raced \/ Race')

Next ==
  /\ \/ \E t \in Threads : CallStarts(t) \/ CallSteps(t)
     \/ WorkerSteps
  /\ Observe

(* Threads inside a call and the worker keep running; a listener returns.  *)
(* Nothing more is asked of the lock: the calls that can overtake a thread *)
(* that waits for it are bounded.                                          *)
Fairness ==
  /\ WF_vars(WorkerSteps /\ Observe)
  /\ \A t \in Threads : WF_vars(CallSteps(t) /\ Observe)

Spec     == Init /\ [][Next]_vars
FairSpec == Spec /\ Fairness

-----------------------------------------------------------------------------
(* What the queue took is what somebody pushed: fields, bytes and length   *)
(* of one and the same call, although all pushers assemble their messages  *)
(* in one buffer that keeps the remains of the message before and may have *)
(* been replaced in between.                                               *)
(* Code: pushMsg, RECREATE_MSG.                                            *)
Unmixed ==
  \A i \in DOMAIN accepted : accepted[i].len > 0 => accepted[i].body = accepted[i].head

(* pushMsg tells the truth: SUCCESS means queued exactly once, any other   *)
(* result means not queued, also after retries and while closing.          *)
(* Code: pushMsg's retry loop.                                             *)
Copies(k) == Cardinality({i \in DOMAIN accepted : accepted[i].head = k})
ReportsTrue ==
  \A k \in DOMAIN res : res[k] # "pending" => Copies(k) = (IF res[k] = "SUCCESS" THEN 1 ELSE 0)

(* The listener gets the accepted messages in their order, each once, and  *)
(* none after its thread has ended, nor after it has returned an error or  *)
(* thrown: "return positive number will break the chain", whatever is      *)
(* still queued.  Code: pushMsg, handleEvent, handle_queue_msg.            *)
Pipe == INSTANCE FifoPipe
  WITH in <- accepted, out <- delivered, sealed <- wpc = "ended" \/ Crashed \/ refused
DeliversInOrder == Pipe!PipeSpec

(* The listener is never called through references or an environment that  *)
(* destroy has given back, nor with an array its message does not fit in.  *)
(* Code: handle_queue_msg, pri_recreate_jobj_cache, pri_destroy_jni_context.*)
RefsHeld == wpc = "callback" => refs /\ env /\ msg.len <= cache

(* No push, close or step of the worker touches memory that destroy has    *)
(* freed or that was never allocated: the listener may push while close    *)
(* waits for its thread, and calls may come after close, but no other      *)
(* thread may be inside a call while one closes, and no allocation fails.  *)
(* In any case what is copied into the shared buffer fits, although it may *)
(* have been replaced, emptied or freed since it was measured.             *)
(* Code: pushMsg, RECREATE_MSG, CLEANUP_MSG, destroy.                      *)
MemorySafe ==
  /\ ~raced /\ faults = 0 => ~Crashed
  /\ \A t \in Threads : pc[t] = "p_copy" /\ in # NoBuffer => call[t].len <= in_obj_capacity

(* The same without the condition on threads.  pushMsg promises it: "you   *)
(* can't pushMsg anymore [...], because now is going to destroy handler!". *)
NoMemoryError == faults = 0 => ~Crashed

(* close() under the lock waits for the worker, whose listener waits for   *)
(* the lock to push.                                                       *)
JoinsWaiter ==
  \E t \in Users : lock = {t} /\ pc[t] = "d_join" /\ pc[Worker] = "p_lock"

(* Every call returns, pushMsg on a full queue after its retries and close *)
(* after joining the worker, even when the listener itself pushes: the one *)
(* thing that can keep them is a close under the lock that the listener    *)
(* needs.  Code: pushMsg, destroy.                                         *)
CallsReturn ==
  \A t \in Threads : pc[t] # "idle" ~> pc[t] = "idle" \/ Crashed \/ JoinsWaiter

(* A message that was reported as queued reaches the listener, unless the  *)
(* queue is closed or the listener has refused one, or something failed.   *)
(* Code: pushMsg, handle_queue_msg.                                        *)
AcceptedIsDelivered ==
  \A n \in 1..MaxCalls :
    Len(accepted) >= n ~> Len(delivered) >= n \/ flag_exit \/ faults > 0
=============================================================================
