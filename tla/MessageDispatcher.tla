--------------------------- MODULE MessageDispatcher ---------------------------
(***************************************************************************)
(* MessageDispatcher.java: an in-process event bus.  Any thread posts      *)
(* events and registers listeners; one HandlerThread (the worker) takes    *)
(* the events from its message queue and calls the listeners whose event   *)
(* class is the class of the event or a superclass of it.  A listener may  *)
(* itself call the dispatcher from its onEvent.                            *)
(*                                                                         *)
(* The tables are guarded by mLock, but mQuited is read outside it, the    *)
(* worker takes the lock twice per event, listeners are held by weak       *)
(* references, and clear() and quit() touch queue and tables in separate   *)
(* steps: the actions below are split at each of those points.             *)
(*                                                                         *)
(* A list of WeakEventListener is a set of entries: an entry is identified *)
(* by its registration and its position in the events argument, and an     *)
(* absent key of a map is the empty set (the code removes empty lists      *)
(* under the lock that emptied them).                                      *)
(*                                                                         *)
(* An operator whose name ends in _Mutant is a plausible bug in the        *)
(* definition that follows it; no specification uses it.  PROJECT.json     *)
(* names the property each one violates.                                   *)
(***************************************************************************)
EXTENDS Integers, Sequences

CONSTANTS
  Callers,     (* application threads                                      *)
  Worker,      (* the HandlerThread                                        *)
  Tags,        (* listener tags                                            *)
  Listeners,   (* EventListener objects                                    *)
  Classes,     (* event classes; an event is abstracted to its class       *)
  SuperOf,     (* <<c, d>> \in SuperOf: d is a proper superclass of c      *)
  EventLists,  (* the events arguments of register                         *)
  NullClass,   (* a null element of such an argument                       *)
  NoEvent,     (* what the worker handles between two messages             *)
  MaxCalls     (* bound: API calls in a behaviour                          *)

ASSUME DispatcherAssumption ==
  /\ Worker \notin Callers
  /\ NullClass \notin Classes
  /\ SuperOf \subseteq Classes \X Classes
  /\ \A c \in Classes : <<c, c>> \notin SuperOf
  /\ EventLists \subseteq Seq(Classes \cup {NullClass})
  /\ MaxCalls \in Nat

Threads == Callers \cup {Worker}

VARIABLES
  mEventListeners,    (* class -> entries                                  *)
  mTagEvents,         (* tag -> classes registered under it                *)
  mLock,              (* threads holding mLock across steps (at most one)  *)
  mQuited,
  queue,              (* the handler's messages                            *)
  looper,             (* "running", "quitting" (quit called), "dead"       *)
  alive,              (* listeners not yet collected                       *)
  pc, arg,            (* the API call each thread is in, its arguments     *)
  wpc, cur,           (* what the worker does, the event it handles        *)
  listenersToNotify,  (* <<pass, entry>> collected for cur                 *)
  validListeners,     (* those still to be called                          *)
  nextReg, current,   (* history: number of the next registration, and of  *)
                      (* the one in force for each tag (0: none)           *)
  calls               (* API calls made so far, see MaxCalls               *)

tables  == <<mEventListeners, mTagEvents, current>>
handler == <<queue, looper>>
worker  == <<wpc, cur, listenersToNotify, validListeners>>
vars    == <<tables, mLock, mQuited, handler, alive, pc, arg, worker, nextReg, calls>>

Entry     == [tag : Tags, ref : Listeners, reg : Nat \ {0}, pos : Nat]
EventMsg  == [what : {"POST_EVENT"}, cls : Classes, placed : SUBSET Nat, next : Nat]
QuitMsg   == [what |-> "QUIT"]
RegArg    == [tag : Tags, ref : Listeners, evs : EventLists,
              leftClasses : SUBSET Classes, leftTags : SUBSET Tags]
PostArg   == [cls : Classes]
TagArg    == [tag : Tags]
NoArg     == <<>>
CallArg   == RegArg \cup PostArg \cup TagArg \cup {NoArg}
RegPcs    == {"reg_lock", "reg_sweep_classes", "reg_sweep_tags", "reg_add"}
CallPcs   == RegPcs \cup {"idle", "post_send", "clear_queue", "clear_tables", "quit_set",
                          "quit_send", "quit_tables", "unreg_lock"}

Valid(w)  == w.ref \in alive
InForce   == {current[g] : g \in Tags} \ {0}
Matching(c) == {c} \cup {d \in Classes : <<c, d>> \in SuperOf}

Init ==
  /\ mEventListeners = [c \in Classes |-> {}]
  /\ mTagEvents = [t \in Tags |-> {}]
  /\ mLock = {}
  /\ mQuited = FALSE
  /\ queue = <<>>
  /\ looper = "running"
  /\ alive = Listeners
  /\ pc = [t \in Threads |-> "idle"]
  /\ arg = [t \in Threads |-> NoArg]
  /\ wpc = "loop"
  /\ cur = NoEvent
  /\ listenersToNotify = {}
  /\ validListeners = {}
  /\ nextReg = 1
  /\ current = [t \in Tags |-> 0]
  /\ calls = 0

-----------------------------------------------------------------------------
(* Control flow of a call.  The worker calls the API only from onEvent.    *)

Goto(t, label)  == pc' = [pc EXCEPT ![t] = label]
Return(t)       == Goto(t, "idle") /\ arg' = [arg EXCEPT ![t] = NoArg]

(* Every operation first tests mQuited, without the lock.                  *)
Enter(t, label, a) ==
  /\ pc[t] = "idle"
  /\ t = Worker => wpc = "callback"
  /\ calls < MaxCalls
  /\ calls' = calls + 1
  /\ ~mQuited
  /\ Goto(t, label)
  /\ arg' = [arg EXCEPT ![t] = a]
  /\ UNCHANGED <<tables, mLock, mQuited, handler, alive, worker, nextReg>>

(* sendToTarget: a looper that was told to quit refuses the message.       *)
Send(m) == queue' = IF looper = "running" THEN Append(queue, m) ELSE queue

ClearTables_Mutant ==  (* the tags are left *)
  /\ mEventListeners' = [c \in Classes |-> {}]
  /\ current' = [t \in Tags |-> 0]
  /\ UNCHANGED mTagEvents

ClearTables ==
  /\ mEventListeners' = [c \in Classes |-> {}]
  /\ mTagEvents' = [t \in Tags |-> {}]
  /\ current' = [t \in Tags |-> 0]

-----------------------------------------------------------------------------
(* post: the test at the head of post is implied by the one sendEventMsg   *)
(* makes, because mQuited is never reset.                                  *)

PostCall(t, c) == Enter(t, "post_send", [cls |-> c])

PostSend(t) ==
  /\ pc[t] = "post_send"
  /\ Send([what |-> "POST_EVENT", cls |-> arg[t].cls, placed |-> InForce, next |-> nextReg])
  /\ Return(t)
  /\ UNCHANGED <<tables, mLock, mQuited, looper, alive, worker, nextReg, calls>>

(* clear: the queue first, then the tables.                                *)

ClearCall(t) == Enter(t, "clear_queue", NoArg)

ClearQueue(t) ==
  /\ pc[t] = "clear_queue"
  /\ queue' = <<>>
  /\ Goto(t, "clear_tables")
  /\ UNCHANGED <<tables, mLock, mQuited, looper, alive, arg, worker, nextReg, calls>>

(* The locked section that ends both clear and quit.                       *)
ClearTablesAndReturn(t) ==
  /\ pc[t] \in {"clear_tables", "quit_tables"}
  /\ mLock = {}
  /\ ClearTables
  /\ Return(t)
  /\ UNCHANGED <<mLock, mQuited, handler, alive, worker, nextReg, calls>>

(* quit: test, set, send, clear; none of it under a lock but the last.     *)

QuitCall(t) == Enter(t, "quit_set", NoArg)

QuitSet(t) ==
  /\ pc[t] = "quit_set"
  /\ mQuited' = TRUE
  /\ Goto(t, "quit_send")
  /\ UNCHANGED <<tables, mLock, handler, alive, arg, worker, nextReg, calls>>

SendQuitMsg_Mutant == IF mQuited THEN UNCHANGED queue ELSE Send(QuitMsg)  (* tests like sendEventMsg *)
SendQuitMsg == Send(QuitMsg)

QuitSend(t) ==
  /\ pc[t] = "quit_send"
  /\ SendQuitMsg
  /\ Goto(t, "quit_tables")
  /\ UNCHANGED <<tables, mLock, mQuited, looper, alive, arg, worker, nextReg, calls>>

-----------------------------------------------------------------------------
(* register: mQuited is tested before the lock is taken.  The sweep of     *)
(* collected listeners walks the classes, then the tags; the collector may *)
(* run between two of its iterations.                                      *)

RegisterCall(t, tag, l, evs) ==
  /\ l \in alive
  /\ evs # <<>>
  /\ Enter(t, "reg_lock", [tag |-> tag, ref |-> l, evs |-> evs, leftClasses |-> {}, leftTags |-> {}])

RegisterLock(t) ==
  /\ pc[t] = "reg_lock"
  /\ mLock = {}
  /\ mLock' = {t}
  /\ Goto(t, "reg_sweep_classes")
  /\ arg' = [arg EXCEPT ![t].leftClasses = {c \in Classes : mEventListeners[c] # {}}]
  /\ UNCHANGED <<tables, mQuited, handler, alive, worker, nextReg, calls>>

StillValid_Mutant(c) ==  (* the whole list goes as soon as one listener is collected *)
  IF \A w \in mEventListeners[c] : Valid(w) THEN mEventListeners[c] ELSE {}
StillValid(c) == {w \in mEventListeners[c] : Valid(w)}

SweepClass(t, c) ==
  /\ pc[t] = "reg_sweep_classes"
  /\ c \in arg[t].leftClasses
  /\ mEventListeners' = [mEventListeners EXCEPT ![c] = StillValid(c)]
  /\ arg' = [arg EXCEPT ![t].leftClasses = @ \ {c}]
  /\ UNCHANGED <<mTagEvents, current, mLock, mQuited, handler, alive, pc, worker, nextReg, calls>>

SweepClassesDone(t) ==
  /\ pc[t] = "reg_sweep_classes"
  /\ arg[t].leftClasses = {}
  /\ Goto(t, "reg_sweep_tags")
  /\ arg' = [arg EXCEPT ![t].leftTags = {g \in Tags : mTagEvents[g] # {}}]
  /\ UNCHANGED <<tables, mLock, mQuited, handler, alive, worker, nextReg, calls>>

HasValidListener(g) ==
  \E c \in mTagEvents[g] : \E w \in mEventListeners[c] : w.tag = g /\ Valid(w)

SweepTag(t, g) ==
  /\ pc[t] = "reg_sweep_tags"
  /\ g \in arg[t].leftTags
  /\ IF HasValidListener(g)
     THEN UNCHANGED <<mTagEvents, current>>
     ELSE /\ mTagEvents' = [mTagEvents EXCEPT ![g] = {}]
          /\ current' = [current EXCEPT ![g] = 0]
  /\ arg' = [arg EXCEPT ![t].leftTags = @ \ {g}]
  /\ UNCHANGED <<mEventListeners, mLock, mQuited, handler, alive, pc, worker, nextReg, calls>>

SweepTagsDone(t) ==
  /\ pc[t] = "reg_sweep_tags"
  /\ arg[t].leftTags = {}
  /\ Goto(t, "reg_add")
  /\ UNCHANGED <<tables, mLock, mQuited, handler, alive, arg, worker, nextReg, calls>>

(* The entries registration a adds for class c, one per occurrence of c.   *)
NewEntries(a, c) ==
  {[tag |-> a.tag, ref |-> a.ref, reg |-> nextReg, pos |-> i] :
     i \in {j \in DOMAIN a.evs : a.evs[j] = c}}

RegisteredEvents(a) == {c \in Classes : NewEntries(a, c) # {}}

Registered_Mutant(g) == FALSE  (* no test for a tag that is registered already *)
Registered(g) == mTagEvents[g] # {}

RegisterRefused(t) ==
  /\ pc[t] = "reg_add"
  /\ Registered(arg[t].tag)
  /\ mLock' = {}
  /\ Return(t)
  /\ UNCHANGED <<tables, mQuited, handler, alive, worker, nextReg, calls>>

RegisterAdd(t) ==
  /\ pc[t] = "reg_add"
  /\ ~Registered(arg[t].tag)
  /\ mEventListeners' = [c \in Classes |-> mEventListeners[c] \cup NewEntries(arg[t], c)]
  /\ mTagEvents' = [mTagEvents EXCEPT ![arg[t].tag] = RegisteredEvents(arg[t])]
  /\ current' = [current EXCEPT ![arg[t].tag] = IF RegisteredEvents(arg[t]) = {} THEN 0 ELSE nextReg]
  /\ nextReg' = nextReg + 1
  /\ mLock' = {}
  /\ Return(t)
  /\ UNCHANGED <<mQuited, handler, alive, worker, calls>>

(* unregister: mQuited is tested first, then one locked section.           *)

UnregisterCall(t, tag) == Enter(t, "unreg_lock", [tag |-> tag])

Without_Mutant(g, c) == mEventListeners[c]  (* only the tag is removed *)
Without(g, c) ==
  IF c \in mTagEvents[g] THEN {w \in mEventListeners[c] : w.tag # g} ELSE mEventListeners[c]

UnregisterLocked(t) ==
  /\ pc[t] = "unreg_lock"
  /\ mLock = {}
  /\ LET tag == arg[t].tag
     IN /\ mEventListeners' = [c \in Classes |-> Without(tag, c)]
        /\ mTagEvents' = [mTagEvents EXCEPT ![tag] = {}]
        /\ current' = [current EXCEPT ![tag] = 0]
  /\ Return(t)
  /\ UNCHANGED <<mLock, mQuited, handler, alive, worker, nextReg, calls>>

-----------------------------------------------------------------------------
(* The worker: handleMessage.                                              *)

IsQuit_Mutant(m) == FALSE  (* every message is taken for an event *)
IsQuit(m) == m = QuitMsg

TakeEvent ==
  /\ wpc = "loop"
  /\ queue # <<>>
  /\ ~IsQuit(Head(queue))
  /\ cur' = Head(queue)
  /\ queue' = Tail(queue)
  /\ wpc' = "exact"
  /\ UNCHANGED <<tables, mLock, mQuited, looper, alive, pc, arg, listenersToNotify,
                 validListeners, nextReg, calls>>

(* quitSafely keeps the messages that are due and refuses later ones       *)
(* (the build's minimum SDK is 21, so the other branch is dead code).      *)
QuitLooper ==
  /\ wpc = "loop"
  /\ queue # <<>>
  /\ IsQuit(Head(queue))
  /\ looper' = "quitting"
  /\ queue' = Tail(queue)
  /\ UNCHANGED <<tables, mLock, mQuited, alive, pc, arg, worker, nextReg, calls>>

LooperExits ==
  /\ wpc = "loop"
  /\ looper = "quitting"
  /\ queue = <<>>
  /\ looper' = "dead"
  /\ UNCHANGED <<tables, mLock, mQuited, queue, alive, pc, arg, worker, nextReg, calls>>

CollectExact ==
  /\ wpc = "exact"
  /\ mLock = {}
  /\ listenersToNotify' = {<<"exact", w>> : w \in mEventListeners[cur.cls]}
  /\ wpc' = "super"
  /\ UNCHANGED <<tables, mLock, mQuited, handler, alive, pc, arg, cur, validListeners,
                 nextReg, calls>>

SuperEntries_Mutant(c) == UNION {mEventListeners[d] : d \in Matching(c)}  (* the class itself too *)
SuperEntries_Mutant2(c) ==  (* the assignability test the wrong way round *)
  UNION {mEventListeners[d] : d \in {e \in Classes : <<e, c>> \in SuperOf}}
SuperEntries(c) == UNION {mEventListeners[d] : d \in Matching(c) \ {c}}

CollectSuper ==
  /\ wpc = "super"
  /\ mLock = {}
  /\ listenersToNotify' = listenersToNotify \cup {<<"super", w>> : w \in SuperEntries(cur.cls)}
  /\ wpc' = "deref"
  /\ UNCHANGED <<tables, mLock, mQuited, handler, alive, pc, arg, cur, validListeners,
                 nextReg, calls>>

(* From here on the worker holds the listeners strongly.                   *)
Deref ==
  /\ wpc = "deref"
  /\ validListeners' = {n \in listenersToNotify : Valid(n[2])}
  /\ wpc' = "notify"
  /\ UNCHANGED <<tables, mLock, mQuited, handler, alive, pc, arg, cur, listenersToNotify,
                 nextReg, calls>>

(* The exact matches come first in the list.                               *)
Notify(n) ==
  /\ wpc = "notify"
  /\ n \in validListeners
  /\ n[1] = "super" => \A m \in validListeners : m[1] = "super"
  /\ validListeners' = validListeners \ {n}
  /\ wpc' = "callback"
  /\ UNCHANGED <<tables, mLock, mQuited, handler, alive, pc, arg, cur, listenersToNotify,
                 nextReg, calls>>

(* onEvent returns or throws; an exception is caught.                      *)
CallbackReturns ==
  /\ wpc = "callback"
  /\ pc[Worker] = "idle"
  /\ wpc' = "notify"
  /\ UNCHANGED <<tables, mLock, mQuited, handler, alive, pc, arg, cur, listenersToNotify,
                 validListeners, nextReg, calls>>

EventDone ==
  /\ wpc = "notify"
  /\ validListeners = {}
  /\ wpc' = "loop"
  /\ cur' = NoEvent
  /\ listenersToNotify' = {}
  /\ UNCHANGED <<tables, mLock, mQuited, handler, alive, pc, arg, validListeners, nextReg, calls>>

(* The application drops a listener and the collector clears every weak    *)
(* reference to it at once; a register in progress or the worker's list of *)
(* valid listeners keeps it.                                               *)
Collect(l) ==
  /\ l \in alive
  /\ \A t \in Threads : pc[t] \in RegPcs => arg[t].ref # l
  /\ \A n \in validListeners : n[2].ref # l
  /\ alive' = alive \ {l}
  /\ UNCHANGED <<tables, mLock, mQuited, handler, pc, arg, worker, nextReg, calls>>

-----------------------------------------------------------------------------
CallStarts(t) ==
  \/ \E c \in Classes : PostCall(t, c)
  \/ ClearCall(t)
  \/ QuitCall(t)
  \/ \E g \in Tags, l \in Listeners, evs \in EventLists : RegisterCall(t, g, l, evs)
  \/ \E g \in Tags : UnregisterCall(t, g)

CallSteps(t) ==
  \/ PostSend(t)
  \/ ClearQueue(t) \/ ClearTablesAndReturn(t)
  \/ QuitSet(t) \/ QuitSend(t)
  \/ RegisterLock(t) \/ SweepClassesDone(t) \/ SweepTagsDone(t)
  \/ RegisterRefused(t) \/ RegisterAdd(t)
  \/ \E c \in Classes : SweepClass(t, c)
  \/ \E g \in Tags : SweepTag(t, g)
  \/ UnregisterLocked(t)

WorkerSteps ==
  \/ TakeEvent \/ QuitLooper \/ LooperExits
  \/ CollectExact \/ CollectSuper \/ Deref
  \/ \E n \in validListeners : Notify(n)
  \/ CallbackReturns \/ EventDone

Next ==
  \/ \E t \in Threads : CallStarts(t) \/ CallSteps(t)
  \/ WorkerSteps
  \/ \E l \in Listeners : Collect(l)

(* Threads that are in a call and the worker keep running; nobody is       *)
(* obliged to start a call and no listener to be collected.                *)
Fairness == WF_vars(WorkerSteps) /\ \A t \in Threads : WF_vars(CallSteps(t))

Spec     == Init /\ [][Next]_vars
FairSpec == Spec /\ Fairness

-----------------------------------------------------------------------------
(* Types of the variables; what a thread's argument is depends on its pc.  *)
TypeOK ==
  /\ mEventListeners \in [Classes -> SUBSET Entry]
  /\ mTagEvents \in [Tags -> SUBSET Classes]
  /\ mLock \in SUBSET Threads
  /\ mQuited \in BOOLEAN
  /\ queue \in Seq(EventMsg \cup {QuitMsg})
  /\ looper \in {"running", "quitting", "dead"}
  /\ alive \in SUBSET Listeners
  /\ pc \in [Threads -> CallPcs]
  /\ arg \in [Threads -> CallArg]
  /\ \A t \in Threads :
       /\ pc[t] \in RegPcs => arg[t] \in RegArg
       /\ pc[t] = "post_send" => arg[t] \in PostArg
       /\ pc[t] = "unreg_lock" => arg[t] \in TagArg
  /\ wpc \in {"loop", "exact", "super", "deref", "notify", "callback"}
  /\ wpc # "loop" => cur \in EventMsg
  /\ listenersToNotify \subseteq {"exact", "super"} \X Entry
  /\ validListeners \subseteq {"exact", "super"} \X Entry
  /\ nextReg \in Nat \ {0}
  /\ current \in [Tags -> Nat]
  /\ calls \in 0..MaxCalls

(* The two tables agree: a listener that can still be called is listed     *)
(* under the tag that unregister would look up, for that very class, and   *)
(* belongs to the registration now in force for the tag.  The sweep may    *)
(* leave an entry without its tag (the collector ran between two of its    *)
(* iterations), but only a dead one.                                       *)
(* Code: register, unregister, removeInvalidatedListeners, clear, quit.    *)
LiveEntriesTagged ==
  \A c \in Classes : \A w \in mEventListeners[c] :
    Valid(w) => c \in mTagEvents[w.tag] /\ current[w.tag] = w.reg

(* A registration is never half removed: as long as its listener lives and *)
(* any of its classes still delivers, all of them do.                      *)
(* Code: register, unregister, removeInvalidatedListeners.                 *)
AllOrNothing ==
  \A c \in Classes : \A w \in mEventListeners[c] :
    Valid(w) => \A d \in mTagEvents[w.tag] :
                  \E v \in mEventListeners[d] : v.reg = w.reg /\ v.tag = w.tag

(* An event is delivered to no registration that had ended (unregister,    *)
(* clear, quit or sweep) before the event entered the queue, even if the   *)
(* tag or the listener was registered again since.                         *)
(* Code: handleMessage against unregister, clear, quit, register.          *)
NoStaleDelivery ==
  \A n \in validListeners : n[2].reg \in cur.placed \/ n[2].reg >= cur.next

(* A registration in force when the event was posted and still in force    *)
(* when the worker has taken both snapshots is in the list of listeners to *)
(* notify, whatever was registered or removed between the two snapshots.   *)
(* Code: handleMessage, lines 261-285.                                     *)
NoMissedListener ==
  wpc = "deref" =>
    \A c \in Matching(cur.cls) : \A w \in mEventListeners[c] :
      w.reg \in cur.placed => \E p \in {"exact", "super"} : <<p, w>> \in listenersToNotify

(* No entry is collected by both passes, so nobody is called twice for one *)
(* registered class, also when the tables change between the passes.       *)
(* Code: handleMessage, lines 275-283.                                     *)
NoDoubleDelivery ==
  \A n, m \in listenersToNotify : n[2] = m[2] => n = m

ClearInFlight == \E t \in Threads : pc[t] = "clear_queue"

(* Once mQuited is set the worker thread ends, provided no clear() that    *)
(* passed its mQuited test empties the queue after that: such a clear can  *)
(* remove the QUIT message, and no later quit() sends another.             *)
(* Code: quit, clear, quitLooper.                                          *)
QuitStopsWorker == [](mQuited => ~ClearInFlight) => (mQuited ~> looper = "dead")

RegisterInFlight == \E t \in Threads : pc[t] \in RegPcs
QuitInFlight     == \E t \in Threads : pc[t] \in {"quit_send", "quit_tables"}

(* Provided no register() that passed its mQuited test is still running    *)
(* when quit() sets mQuited, a quit() that has returned leaves the tables  *)
(* empty for good.  Such a register adds its entries after quit cleared    *)
(* the tables, and unregister then refuses to remove them.                 *)
(* Code: quit, register, unregister.                                       *)
QuitForgetsListeners ==
  [](mQuited => ~RegisterInFlight) =>
    [](mQuited /\ ~QuitInFlight => \A g \in Tags : mTagEvents[g] = {})
=============================================================================
