------------------------ MODULE MessageDispatcherProofs ------------------------
(* Type correctness and the safety properties of MessageDispatcher.         *)
EXTENDS MessageDispatcher, TLAPS

(* The initial state has the right types.                                  *)
LEMMA InitTypeOK == ASSUME Init PROVE TypeOK
<1>1. queue \in Seq(EventMsg \cup {QuitMsg})
  BY DEF Init
<1>2. pc \in [Threads -> CallPcs] /\ arg \in [Threads -> CallArg]
  BY DEF Init, CallPcs, CallArg
<1>3. mEventListeners \in [Classes -> SUBSET Entry] /\ mTagEvents \in [Tags -> SUBSET Classes]
  BY DEF Init
<1>4. \A t \in Threads : pc[t] = "idle"
  BY DEF Init
<1>5. calls \in 0..MaxCalls /\ nextReg \in Nat \ {0} /\ current \in [Tags -> Nat]
  BY DispatcherAssumption DEF Init
<1>6. /\ mLock \in SUBSET Threads /\ mQuited \in BOOLEAN
      /\ looper \in {"running", "quitting", "dead"} /\ alive \in SUBSET Listeners
      /\ wpc = "loop" /\ listenersToNotify = {} /\ validListeners = {}
  BY DEF Init
<1> QED
  BY <1>1, <1>2, <1>3, <1>4, <1>5, <1>6 DEF TypeOK, RegPcs

(* Starting a call of the API keeps the types.                             *)
LEMMA CallStartsTypeOK ==
  ASSUME TypeOK, NEW t \in Threads, CallStarts(t)
  PROVE  TypeOK'
<1> USE DispatcherAssumption DEF Enter, Goto, RegPcs, CallPcs, CallArg
<1>1. ASSUME NEW c \in Classes, PostCall(t, c) PROVE TypeOK'
  BY <1>1 DEF TypeOK, PostCall, PostArg, tables, handler, worker
<1>2. ASSUME ClearCall(t) PROVE TypeOK'
  BY <1>2 DEF TypeOK, ClearCall, tables, handler, worker
<1>3. ASSUME QuitCall(t) PROVE TypeOK'
  BY <1>3 DEF TypeOK, QuitCall, tables, handler, worker
<1>4. ASSUME NEW g \in Tags, NEW l \in Listeners, NEW evs \in EventLists, RegisterCall(t, g, l, evs)
      PROVE  TypeOK'
  BY <1>4 DEF TypeOK, RegisterCall, RegArg, tables, handler, worker
<1>5. ASSUME NEW g \in Tags, UnregisterCall(t, g) PROVE TypeOK'
  BY <1>5 DEF TypeOK, UnregisterCall, TagArg, tables, handler, worker
<1> QED BY <1>1, <1>2, <1>3, <1>4, <1>5 DEF CallStarts

(* A step of thread t that changes at most its own record of a registration. *)
KeepsRegArg(t) ==
  /\ arg' \in [Threads -> CallArg]
  /\ arg'[t] \in RegArg
  /\ \A u \in Threads : u # t => arg'[u] = arg[u]

(* So does every further step of a call: post, clear, quit, register, unregister. *)
LEMMA CallStepsTypeOK ==
  ASSUME TypeOK, NEW t \in Threads, CallSteps(t)
  PROVE  TypeOK'
<1> USE DispatcherAssumption DEF Goto, Return, RegPcs, CallPcs, CallArg, tables, handler, worker
<1>0. /\ mEventListeners \in [Classes -> SUBSET Entry] /\ mTagEvents \in [Tags -> SUBSET Classes]
      /\ current \in [Tags -> Nat] /\ nextReg \in Nat \ {0} /\ arg \in [Threads -> CallArg]
      /\ (pc[t] \in RegPcs => arg[t] \in RegArg)
  BY DEF TypeOK
<1>1. ASSUME PostSend(t) PROVE TypeOK'
  <2> DEFINE m == [what |-> "POST_EVENT", cls |-> arg[t].cls, placed |-> InForce, next |-> nextReg]
  <2>1. m \in EventMsg
    BY <1>1 DEF TypeOK, PostSend, PostArg, EventMsg, InForce
  <2>2. queue' \in Seq(EventMsg \cup {QuitMsg})
    BY <1>1, <2>1 DEF TypeOK, PostSend, Send
  <2> QED BY <1>1, <2>2 DEF TypeOK, PostSend
<1>2. ASSUME ClearQueue(t) PROVE TypeOK'
  <2>1. queue' \in Seq(EventMsg \cup {QuitMsg})
    BY <1>2 DEF ClearQueue
  <2> QED BY <1>2, <2>1 DEF TypeOK, ClearQueue
<1>3. ASSUME ClearTablesAndReturn(t) PROVE TypeOK'
  BY <1>3 DEF TypeOK, ClearTablesAndReturn, ClearTables
<1>4. ASSUME QuitSet(t) PROVE TypeOK'
  BY <1>4 DEF TypeOK, QuitSet
<1>5. ASSUME QuitSend(t) PROVE TypeOK'
  <2>1. queue' \in Seq(EventMsg \cup {QuitMsg})
    BY <1>5 DEF TypeOK, QuitSend, SendQuitMsg, Send
  <2> QED BY <1>5, <2>1 DEF TypeOK, QuitSend
<1>6. ASSUME RegisterLock(t) PROVE TypeOK'
  <2>1. [arg[t] EXCEPT !.leftClasses = {c \in Classes : mEventListeners[c] # {}}] \in RegArg
    BY <1>0, <1>6 DEF RegisterLock, RegArg
  <2>2. arg' = [arg EXCEPT ![t] = [arg[t] EXCEPT !.leftClasses = {c \in Classes : mEventListeners[c] # {}}]]
    BY <1>6 DEF RegisterLock
  <2>3. KeepsRegArg(t)
    BY <1>0, <2>1, <2>2 DEF KeepsRegArg
  <2>4. /\ pc[t] \in RegPcs /\ pc' = [pc EXCEPT ![t] = "reg_sweep_classes"] /\ mLock' = {t}
        /\ UNCHANGED <<tables, mQuited, handler, alive, worker, nextReg, calls>>
    BY <1>6 DEF RegisterLock
  <2> QED BY <2>3, <2>4 DEF TypeOK, KeepsRegArg
<1>7. ASSUME SweepClassesDone(t) PROVE TypeOK'
  <2>1. [arg[t] EXCEPT !.leftTags = {g \in Tags : mTagEvents[g] # {}}] \in RegArg
    BY <1>0, <1>7 DEF SweepClassesDone, RegArg
  <2>2. arg' = [arg EXCEPT ![t] = [arg[t] EXCEPT !.leftTags = {g \in Tags : mTagEvents[g] # {}}]]
    BY <1>7 DEF SweepClassesDone
  <2>3. KeepsRegArg(t)
    BY <1>0, <2>1, <2>2 DEF KeepsRegArg
  <2>4. /\ pc[t] \in RegPcs /\ pc' = [pc EXCEPT ![t] = "reg_sweep_tags"]
        /\ UNCHANGED <<tables, mLock, mQuited, handler, alive, worker, nextReg, calls>>
    BY <1>7 DEF SweepClassesDone
  <2> QED BY <2>3, <2>4 DEF TypeOK, KeepsRegArg
<1>8. ASSUME SweepTagsDone(t) PROVE TypeOK'
  BY <1>8 DEF TypeOK, SweepTagsDone
<1>9. ASSUME RegisterRefused(t) PROVE TypeOK'
  BY <1>9 DEF TypeOK, RegisterRefused
<1>10. ASSUME RegisterAdd(t) PROVE TypeOK'
  <2>1. arg[t] \in RegArg
    BY <1>10 DEF TypeOK, RegisterAdd
  <2>2. \A c \in Classes : NewEntries(arg[t], c) \subseteq Entry
    BY <1>10, <2>1 DEF TypeOK, NewEntries, RegArg, Entry
  <2>3. mEventListeners' \in [Classes -> SUBSET Entry]
    BY <1>10, <2>2 DEF TypeOK, RegisterAdd
  <2>4. mTagEvents' \in [Tags -> SUBSET Classes] /\ current' \in [Tags -> Nat]
    BY <1>10, <2>1 DEF TypeOK, RegisterAdd, RegisteredEvents, RegArg
  <2> QED BY <1>10, <2>3, <2>4 DEF TypeOK, RegisterAdd
<1>11. ASSUME NEW c \in Classes, SweepClass(t, c) PROVE TypeOK'
  <2>1. [arg[t] EXCEPT !.leftClasses = @ \ {c}] \in RegArg
    BY <1>0, <1>11 DEF SweepClass, RegArg
  <2>2. arg' = [arg EXCEPT ![t] = [arg[t] EXCEPT !.leftClasses = @ \ {c}]]
    BY <1>11 DEF SweepClass
  <2>3. KeepsRegArg(t)
    BY <1>0, <2>1, <2>2 DEF KeepsRegArg
  <2>4. /\ pc[t] \in RegPcs
        /\ UNCHANGED <<mTagEvents, current, mLock, mQuited, handler, alive, pc, worker, nextReg, calls>>
        /\ mEventListeners' = [mEventListeners EXCEPT ![c] = StillValid(c)]
    BY <1>11 DEF SweepClass
  <2>5. mEventListeners' \in [Classes -> SUBSET Entry]
    BY <1>0, <2>4 DEF StillValid
  <2> QED BY <2>3, <2>4, <2>5 DEF TypeOK, KeepsRegArg
<1>12. ASSUME NEW g \in Tags, SweepTag(t, g) PROVE TypeOK'
  <2>0. \/ UNCHANGED <<mTagEvents, current>>
        \/ mTagEvents' = [mTagEvents EXCEPT ![g] = {}] /\ current' = [current EXCEPT ![g] = 0]
    BY <1>12 DEF SweepTag
  <2>1. mTagEvents' \in [Tags -> SUBSET Classes] /\ current' \in [Tags -> Nat]
    BY <1>0, <2>0
  <2>2. [arg[t] EXCEPT !.leftTags = @ \ {g}] \in RegArg
    BY <1>0, <1>12 DEF SweepTag, RegArg
  <2>3. arg' = [arg EXCEPT ![t] = [arg[t] EXCEPT !.leftTags = @ \ {g}]]
    BY <1>12 DEF SweepTag
  <2>4. KeepsRegArg(t)
    BY <1>0, <2>2, <2>3 DEF KeepsRegArg
  <2>5. pc[t] \in RegPcs /\ UNCHANGED <<mEventListeners, mLock, mQuited, queue, looper, alive,
                   pc, wpc, cur, listenersToNotify, validListeners, nextReg, calls>>
    BY <1>12 DEF SweepTag
  <2> QED BY <2>1, <2>4, <2>5 DEF TypeOK, KeepsRegArg
<1>13. ASSUME UnregisterLocked(t) PROVE TypeOK'
  BY <1>13 DEF TypeOK, UnregisterLocked, Without, TagArg
<1> QED
  BY <1>1, <1>2, <1>3, <1>4, <1>5, <1>6, <1>7, <1>8, <1>9, <1>10, <1>11, <1>12, <1>13
  DEF CallSteps

(* What a non-empty queue holds at its head and behind it.                 *)
LEMMA HeadTail ==
  ASSUME TypeOK, queue # <<>>
  PROVE  /\ Tail(queue) \in Seq(EventMsg \cup {QuitMsg})
         /\ Head(queue) \in EventMsg \cup {QuitMsg}
  BY DEF TypeOK

(* What the worker collects for the super classes is in the table.          *)
LEMMA SuperEntriesListed ==
  ASSUME NEW e \in SuperEntries(cur.cls)
  PROVE  \E d \in Classes : e \in mEventListeners[d]
  BY DEF SuperEntries, Matching

(* So does every step of the worker in handleMessage and of its looper.    *)
LEMMA WorkerStepsTypeOK ==
  ASSUME TypeOK, WorkerSteps
  PROVE  TypeOK'
<1> USE DEF tables, handler, worker
<1>1. ASSUME TakeEvent PROVE TypeOK'
  <2>1. cur' \in EventMsg /\ queue' \in Seq(EventMsg \cup {QuitMsg})
    BY <1>1, HeadTail DEF TakeEvent, IsQuit
  <2>2. wpc' = "exact" /\ UNCHANGED <<tables, mLock, mQuited, looper, alive, pc, arg, listenersToNotify,
                                      validListeners, nextReg, calls>>
    BY <1>1 DEF TakeEvent
  <2> QED BY <2>1, <2>2 DEF TypeOK
<1>2. ASSUME QuitLooper PROVE TypeOK'
  <2>1. queue' \in Seq(EventMsg \cup {QuitMsg})
    BY <1>2, HeadTail DEF QuitLooper
  <2> QED BY <1>2, <2>1 DEF TypeOK, QuitLooper
<1>3. ASSUME LooperExits PROVE TypeOK'
  BY <1>3 DEF TypeOK, LooperExits
<1>4. ASSUME CollectExact PROVE TypeOK'
  <2>1. mEventListeners[cur.cls] \subseteq Entry
    BY <1>4 DEF TypeOK, CollectExact, EventMsg
  <2> QED BY <1>4, <2>1 DEF TypeOK, CollectExact
<1>5. ASSUME CollectSuper PROVE TypeOK'
  <2>1. SuperEntries(cur.cls) \subseteq Entry
    <3>1. mEventListeners \in [Classes -> SUBSET Entry]
      BY DEF TypeOK
    <3> QED BY <3>1, SuperEntriesListed
  <2>2. /\ listenersToNotify' = listenersToNotify \cup {<<"super", w>> : w \in SuperEntries(cur.cls)}
        /\ wpc' = "deref"
        /\ UNCHANGED <<tables, mLock, mQuited, handler, alive, pc, arg, cur, validListeners, nextReg, calls>>
    BY <1>5 DEF CollectSuper
  <2>3. wpc = "super" /\ listenersToNotify' \subseteq {"exact", "super"} \X Entry
    BY <1>5, <2>1, <2>2 DEF TypeOK, CollectSuper
  <2> QED BY <2>2, <2>3 DEF TypeOK
<1>6. ASSUME Deref PROVE TypeOK'
  BY <1>6 DEF TypeOK, Deref
<1>7. ASSUME NEW n \in validListeners, Notify(n) PROVE TypeOK'
  BY <1>7 DEF TypeOK, Notify
<1>8. ASSUME CallbackReturns PROVE TypeOK'
  BY <1>8 DEF TypeOK, CallbackReturns
<1>9. ASSUME EventDone PROVE TypeOK'
  BY <1>9 DEF TypeOK, EventDone
<1> QED
  BY <1>1, <1>2, <1>3, <1>4, <1>5, <1>6, <1>7, <1>8, <1>9 DEF WorkerSteps

(* TypeOK is inductive.                                                    *)
LEMMA NextTypeOK == TypeOK /\ [Next]_vars => TypeOK'
<1> SUFFICES ASSUME TypeOK, [Next]_vars PROVE TypeOK'
  OBVIOUS
<1>1. ASSUME NEW l \in Listeners, Collect(l) PROVE TypeOK'
  BY <1>1 DEF TypeOK, Collect, tables, handler, worker
<1>2. CASE UNCHANGED vars
  BY <1>2 DEF TypeOK, vars, tables, handler, worker
<1> QED
  BY <1>1, <1>2, CallStartsTypeOK, CallStepsTypeOK, WorkerStepsTypeOK DEF Next

(* The variables keep their types in every reachable state, whatever the   *)
(* threads, listeners, classes and calls.  Code: the whole dispatcher.     *)
THEOREM TypeCorrect == Spec => []TypeOK
  BY InitTypeOK, NextTypeOK, PTL DEF Spec

-----------------------------------------------------------------------------
(* The inductive invariant behind NoStaleDelivery.  A message carries the  *)
(* registrations in force when it was sent; a registration in force now is *)
(* one of them or is newer than the message; an entry still alive belongs  *)
(* to a registration in force; hence what the worker collects for a        *)
(* message, as long as it is alive, is in the message's stamp or newer.    *)
Stamped(m) ==
  /\ m.next <= nextReg
  /\ \A g \in Tags : current[g] = 0 \/ current[g] \in m.placed \/ current[g] >= m.next

QueueStamped == \A i \in 1..Len(queue) : queue[i] \in EventMsg => Stamped(queue[i])
CurStamped   == wpc # "loop" => Stamped(cur)
Fresh(n)     == n[2].reg \in cur.placed \/ n[2].reg >= cur.next
CollectedFresh == wpc # "loop" => \A n \in listenersToNotify : Valid(n[2]) => Fresh(n)
LoopClean    == wpc \in {"loop", "exact"} => listenersToNotify = {} /\ validListeners = {}

Whole == \* AllOrNothing, with the listener the entries share
  \A c \in Classes : \A w \in mEventListeners[c] :
    Valid(w) => \A d \in mTagEvents[w.tag] :
                  \E v \in mEventListeners[d] : v.reg = w.reg /\ v.tag = w.tag /\ v.ref = w.ref

TableInv == LiveEntriesTagged /\ Whole
FreshInv == QueueStamped /\ CurStamped /\ CollectedFresh /\ LoopClean /\ NoStaleDelivery
IInv     == TypeOK /\ TableInv /\ FreshInv

(* Steps that leave the tables alone and revive no listener.               *)
LEMMA TablesSame ==
  ASSUME TypeOK, TableInv, UNCHANGED tables, alive' \subseteq alive
  PROVE  TableInv'
  BY DEF TypeOK, TableInv, LiveEntriesTagged, Whole, Valid, tables

(* No step of a call breaks the agreement of the two tables.               *)
LEMMA CallStepsTables ==
  ASSUME TypeOK, TableInv, NEW t \in Threads, CallSteps(t)
  PROVE  TableInv'
<1>1. ASSUME UNCHANGED <<tables, alive>> PROVE TableInv'
  BY <1>1, TablesSame
<1>2. ASSUME ClearTablesAndReturn(t) PROVE TableInv'
  BY <1>2 DEF TableInv, LiveEntriesTagged, Whole, ClearTablesAndReturn, ClearTables
<1>3. ASSUME RegisterAdd(t) PROVE TableInv'
  <2> DEFINE a == arg[t]
  <2>1. /\ a \in RegArg /\ mTagEvents[a.tag] = {} /\ nextReg \in Nat \ {0} /\ alive' = alive
    BY <1>3 DEF TypeOK, RegisterAdd, Registered, RegPcs
  <2>2. \A c \in Classes : \A w \in NewEntries(a, c) :
           w \in Entry /\ w.tag = a.tag /\ w.ref = a.ref /\ w.reg = nextReg
    BY <2>1, DispatcherAssumption DEF NewEntries, RegArg, Entry
  <2>3. \A c \in Classes : mEventListeners'[c] = mEventListeners[c] \cup NewEntries(a, c)
    BY <1>3 DEF RegisterAdd
  <2>4. \A c \in Classes : \A w \in mEventListeners[c] : w \in Entry /\ (Valid(w) => w.tag # a.tag)
    BY <2>1 DEF TypeOK, TableInv, LiveEntriesTagged
  <2>5. /\ mTagEvents'[a.tag] = RegisteredEvents(a)
        /\ RegisteredEvents(a) # {} => current'[a.tag] = nextReg
        /\ \A g \in Tags : g # a.tag => mTagEvents'[g] = mTagEvents[g] /\ current'[g] = current[g]
    BY <1>3, <2>1 DEF TypeOK, RegisterAdd, RegArg
  <2>6. \A c \in Classes : c \in RegisteredEvents(a) <=> NewEntries(a, c) # {}
    BY DEF RegisteredEvents
  <2>7. \A w : Valid(w)' <=> Valid(w)
    BY <2>1 DEF Valid
  <2>8. LiveEntriesTagged'
    <3> SUFFICES ASSUME NEW c \in Classes, NEW w \in mEventListeners'[c], Valid(w)'
                 PROVE  c \in mTagEvents'[w.tag] /\ current'[w.tag] = w.reg
      BY DEF LiveEntriesTagged
    <3>1. CASE w \in mEventListeners[c]
      BY <3>1, <2>4, <2>5, <2>7 DEF TableInv, LiveEntriesTagged, Entry
    <3>2. CASE w \in NewEntries(a, c)
      BY <3>2, <2>2, <2>5, <2>6
    <3> QED BY <2>3, <3>1, <3>2
  <2>9. Whole'
    <3> SUFFICES ASSUME NEW c \in Classes, NEW w \in mEventListeners'[c], Valid(w)',
                        NEW d \in mTagEvents'[w.tag]
                 PROVE  \E v \in mEventListeners'[d] : v.reg = w.reg /\ v.tag = w.tag /\ v.ref = w.ref
      BY DEF Whole
    <3>1. CASE w \in mEventListeners[c]
      <4>1. w.tag # a.tag /\ w.tag \in Tags /\ d \in mTagEvents[w.tag] /\ d \in Classes
        BY <3>1, <2>4, <2>5, <2>7 DEF Entry, TypeOK
      <4>2. PICK v \in mEventListeners[d] : v.reg = w.reg /\ v.tag = w.tag /\ v.ref = w.ref
        BY <3>1, <4>1, <2>7 DEF TableInv, Whole
      <4> QED BY <4>1, <4>2, <2>3
    <3>2. CASE w \in NewEntries(a, c)
      <4>1. d \in Classes /\ NewEntries(a, d) # {}
        BY <3>2, <2>2, <2>5 DEF RegisteredEvents
      <4> QED BY <3>2, <4>1, <2>2, <2>3
    <3> QED BY <2>3, <3>1, <3>2
  <2> QED BY <2>8, <2>9 DEF TableInv
<1>4. ASSUME NEW c \in Classes, SweepClass(t, c) PROVE TableInv'
  <2>1. /\ \A d \in Classes : \A w \in mEventListeners'[d] : w \in mEventListeners[d]
        /\ \A d \in Classes : \A w \in mEventListeners[d] : Valid(w) => w \in mEventListeners'[d]
        /\ UNCHANGED <<mTagEvents, current, alive>>
    BY <1>4 DEF TypeOK, SweepClass, StillValid
  <2>2. mTagEvents \in [Tags -> SUBSET Classes] /\ mEventListeners \in [Classes -> SUBSET Entry]
    BY DEF TypeOK
  <2>3. LiveEntriesTagged'
    BY <2>1 DEF TableInv, LiveEntriesTagged, Valid
  <2>4. Whole'
    <3> SUFFICES ASSUME NEW e \in Classes, NEW w \in mEventListeners'[e], Valid(w)',
                        NEW d \in mTagEvents'[w.tag]
                 PROVE  \E v \in mEventListeners'[d] : v.reg = w.reg /\ v.tag = w.tag /\ v.ref = w.ref
      BY DEF Whole
    <3>1. w \in mEventListeners[e] /\ w \in Entry /\ Valid(w) /\ d \in mTagEvents[w.tag]
      BY <2>1, <2>2 DEF Valid
    <3>2. PICK v \in mEventListeners[d] : v.reg = w.reg /\ v.tag = w.tag /\ v.ref = w.ref
      BY <3>1 DEF TableInv, Whole
    <3>3. Valid(v) /\ d \in Classes
      BY <3>1, <3>2, <2>2 DEF Valid, Entry
    <3> QED BY <3>2, <3>3, <2>1
  <2> QED BY <2>3, <2>4 DEF TableInv
<1>5. ASSUME NEW g \in Tags, SweepTag(t, g) PROVE TableInv'
  <2>1. CASE HasValidListener(g)
    BY <1>5, <2>1, TablesSame DEF SweepTag, tables
  <2>2. CASE ~HasValidListener(g)
    <3>1. /\ UNCHANGED <<mEventListeners, alive>>
          /\ mTagEvents' = [mTagEvents EXCEPT ![g] = {}] /\ current' = [current EXCEPT ![g] = 0]
      BY <1>5, <2>2 DEF SweepTag
    <3>2. \A c \in Classes : \A w \in mEventListeners[c] : w \in Entry /\ (Valid(w) => w.tag # g)
      BY <2>2 DEF TypeOK, TableInv, LiveEntriesTagged, HasValidListener
    <3>3. mTagEvents \in [Tags -> SUBSET Classes] /\ current \in [Tags -> Nat]
      BY DEF TypeOK
    <3> QED BY <3>1, <3>2, <3>3 DEF TableInv, LiveEntriesTagged, Whole, Valid, Entry
  <2> QED BY <2>1, <2>2
<1>6. ASSUME UnregisterLocked(t) PROVE TableInv'
  <2> DEFINE g == arg[t].tag
  <2>1. g \in Tags /\ UNCHANGED alive
    BY <1>6 DEF TypeOK, UnregisterLocked, TagArg
  <2>2. /\ \A c \in Classes : \A w \in mEventListeners'[c] : w \in mEventListeners[c]
        /\ \A c \in Classes : \A w \in mEventListeners[c] : w.tag # g => w \in mEventListeners'[c]
        /\ \A c \in Classes : c \in mTagEvents[g] => \A w \in mEventListeners'[c] : w.tag # g
    BY <1>6 DEF UnregisterLocked, Without
  <2>3. \A h \in Tags : h # g => mTagEvents'[h] = mTagEvents[h] /\ current'[h] = current[h]
    BY <1>6, <2>1 DEF UnregisterLocked, TypeOK
  <2>4. mTagEvents \in [Tags -> SUBSET Classes] /\ mEventListeners \in [Classes -> SUBSET Entry]
    BY DEF TypeOK
  <2>5. \A c \in Classes : \A w \in mEventListeners'[c] :
           Valid(w)' => /\ w \in mEventListeners[c] /\ w \in Entry /\ Valid(w) /\ w.tag # g
    BY <2>1, <2>2, <2>4 DEF Valid, TableInv, LiveEntriesTagged
  <2>6. LiveEntriesTagged'
    BY <2>3, <2>5 DEF TableInv, LiveEntriesTagged, Entry
  <2>7. Whole'
    <3> SUFFICES ASSUME NEW c \in Classes, NEW w \in mEventListeners'[c], Valid(w)',
                        NEW d \in mTagEvents'[w.tag]
                 PROVE  \E v \in mEventListeners'[d] : v.reg = w.reg /\ v.tag = w.tag /\ v.ref = w.ref
      BY DEF Whole
    <3>1. d \in mTagEvents[w.tag] /\ d \in Classes
      BY <2>3, <2>4, <2>5 DEF Entry
    <3>2. PICK v \in mEventListeners[d] : v.reg = w.reg /\ v.tag = w.tag /\ v.ref = w.ref
      BY <3>1, <2>5 DEF TableInv, Whole
    <3> QED BY <3>1, <3>2, <2>2, <2>5
  <2> QED BY <2>6, <2>7 DEF TableInv
<1> QED
  BY <1>1, <1>2, <1>3, <1>4, <1>5, <1>6
  DEF CallSteps, PostSend, ClearQueue, QuitSet, QuitSend, RegisterLock, SweepClassesDone,
      SweepTagsDone, RegisterRefused


(* Steps that leave the stamps alone: no registration starts, no message   *)
(* is sent, the worker does nothing and no listener is revived.            *)
LEMMA FreshSame ==
  ASSUME TypeOK, FreshInv, UNCHANGED <<queue, worker, nextReg>>, alive' \subseteq alive,
         \A g \in Tags : current'[g] = current[g] \/ current'[g] = 0
  PROVE  FreshInv'
<1>1. QueueStamped'
  BY DEF FreshInv, QueueStamped, Stamped
<1>2. CurStamped'
  BY DEF FreshInv, CurStamped, Stamped, worker
<1>3. CollectedFresh' /\ LoopClean' /\ NoStaleDelivery'
  BY DEF FreshInv, CollectedFresh, LoopClean, NoStaleDelivery, Fresh, Valid, worker
<1> QED BY <1>1, <1>2, <1>3 DEF FreshInv

(* No step of a call breaks the stamps of the messages and of what was collected. *)
LEMMA CallStepsFresh ==
  ASSUME TypeOK, FreshInv, NEW t \in Threads, CallSteps(t)
  PROVE  FreshInv'
<1> USE DEF tables, handler, worker
<1>1. ASSUME UNCHANGED <<queue, worker, alive, current, nextReg>> PROVE FreshInv'
  BY <1>1, FreshSame
<1>2. ASSUME ClearTablesAndReturn(t) PROVE FreshInv'
  <2>1. \A g \in Tags : current'[g] = 0
    BY <1>2 DEF ClearTablesAndReturn, ClearTables
  <2> QED BY <1>2, <2>1, FreshSame DEF ClearTablesAndReturn
<1>3. ASSUME RegisterAdd(t) PROVE FreshInv'
  <2>1. /\ nextReg' = nextReg + 1 /\ nextReg \in Nat
        /\ \A g \in Tags : current'[g] = current[g] \/ current'[g] = 0 \/ current'[g] = nextReg
        /\ UNCHANGED <<queue, worker, alive>>
    BY <1>3 DEF RegisterAdd, TypeOK
  <2>2. \A m \in EventMsg : Stamped(m) => Stamped(m)'
    BY <2>1 DEF Stamped, EventMsg
  <2>3. QueueStamped' /\ CurStamped'
    BY <2>1, <2>2 DEF FreshInv, QueueStamped, CurStamped, TypeOK
  <2>4. CollectedFresh' /\ LoopClean' /\ NoStaleDelivery'
    BY <2>1 DEF FreshInv, CollectedFresh, LoopClean, NoStaleDelivery, Fresh, Valid
  <2> QED BY <2>3, <2>4 DEF FreshInv
<1>4. ASSUME NEW g \in Tags, SweepTag(t, g) PROVE FreshInv'
  <2>1. \A h \in Tags : current'[h] = current[h] \/ current'[h] = 0
    BY <1>4 DEF SweepTag, TypeOK
  <2> QED BY <1>4, <2>1, FreshSame DEF SweepTag
<1>5. ASSUME UnregisterLocked(t) PROVE FreshInv'
  <2>1. \A h \in Tags : current'[h] = current[h] \/ current'[h] = 0
    BY <1>5 DEF UnregisterLocked, TypeOK
  <2> QED BY <1>5, <2>1, FreshSame DEF UnregisterLocked
<1>6. ASSUME UNCHANGED <<worker, alive, current, nextReg>>, QueueStamped' PROVE FreshInv'
  <2>1. CurStamped'
    BY <1>6 DEF FreshInv, CurStamped, Stamped
  <2>2. CollectedFresh' /\ LoopClean' /\ NoStaleDelivery'
    BY <1>6 DEF FreshInv, CollectedFresh, LoopClean, NoStaleDelivery, Fresh, Valid
  <2> QED BY <1>6, <2>1, <2>2 DEF FreshInv
<1>7. ASSUME NEW m \in EventMsg \cup {QuitMsg}, Send(m), UNCHANGED <<current, nextReg>>,
             m \in EventMsg => Stamped(m)
      PROVE  QueueStamped'
  <2>1. CASE queue' = queue
    BY <1>7, <2>1 DEF FreshInv, QueueStamped, Stamped
  <2>2. CASE queue' = Append(queue, m)
    <3>1. /\ Len(queue') = Len(queue) + 1 /\ Len(queue) \in Nat /\ queue'[Len(queue) + 1] = m
          /\ \A i \in 1..Len(queue) : queue'[i] = queue[i]
      BY <2>2 DEF TypeOK
    <3> QED BY <3>1, <1>7 DEF FreshInv, QueueStamped, Stamped
  <2> QED BY <1>7, <2>1, <2>2 DEF Send
<1>8. ASSUME PostSend(t) PROVE FreshInv'
  <2> DEFINE m == [what |-> "POST_EVENT", cls |-> arg[t].cls, placed |-> InForce, next |-> nextReg]
  <2>1. m \in EventMsg
    BY <1>8 DEF TypeOK, PostSend, PostArg, EventMsg, InForce
  <2>2. Stamped(m)
    BY DEF Stamped, InForce, TypeOK
  <2> HIDE DEF m
  <2>3. QueueStamped'
    BY <1>7, <1>8, <2>1, <2>2 DEF PostSend, m
  <2> QED BY <1>6, <1>8, <2>3 DEF PostSend
<1>9. ASSUME QuitSend(t) PROVE FreshInv'
  <2>1. QuitMsg \notin EventMsg
    BY DEF QuitMsg, EventMsg
  <2>2. QueueStamped'
    BY <1>7, <1>9, <2>1 DEF QuitSend, SendQuitMsg
  <2> QED BY <1>6, <1>9, <2>2 DEF QuitSend
<1>10. ASSUME ClearQueue(t) PROVE FreshInv'
  <2>1. QueueStamped'
    BY <1>10 DEF ClearQueue, QueueStamped
  <2> QED BY <1>6, <1>10, <2>1 DEF ClearQueue
<1> QED
  BY <1>1, <1>2, <1>3, <1>4, <1>5, <1>8, <1>9, <1>10
  DEF CallSteps, QuitSet, RegisterLock, SweepClass, SweepClassesDone, SweepTagsDone, RegisterRefused


(* Starting a call breaks neither.                                         *)
LEMMA CallStartsIInv ==
  ASSUME IInv, NEW t \in Threads, CallStarts(t)
  PROVE  TableInv' /\ FreshInv'
<1>1. UNCHANGED <<tables, queue, worker, alive, nextReg>>
  BY DEF CallStarts, Enter, PostCall, ClearCall, QuitCall, RegisterCall, UnregisterCall, handler
<1>2. \A g \in Tags : current'[g] = current[g]
  BY <1>1 DEF tables
<1> QED BY <1>1, <1>2, TablesSame, FreshSame DEF IInv

(* Nor does a step of the worker.                                          *)
LEMMA WorkerStepsIInv ==
  ASSUME IInv, WorkerSteps
  PROVE  TableInv' /\ FreshInv'
<1> USE DEF handler, worker, IInv
<1>1. TableInv' /\ UNCHANGED <<tables, alive, nextReg, current>>
  <2>1. UNCHANGED <<tables, alive, nextReg>>
    BY DEF WorkerSteps, TakeEvent, QuitLooper, LooperExits, CollectExact, CollectSuper, Deref,
           Notify, CallbackReturns, EventDone
  <2> QED BY <2>1, TablesSame DEF tables
<1>2. \A m : Stamped(m)' <=> Stamped(m)
  BY <1>1 DEF Stamped
<1>3. \A w : Valid(w)' <=> Valid(w)
  BY <1>1 DEF Valid
<1>4. ASSUME queue # <<>>, queue' = Tail(queue) PROVE QueueStamped'
  <2>1. /\ Len(queue') = Len(queue) - 1 /\ Len(queue) \in Nat \ {0}
        /\ \A i \in 1..Len(queue') : queue'[i] = queue[i + 1]
    BY <1>4 DEF TypeOK
  <2> QED BY <2>1, <1>2 DEF FreshInv, QueueStamped
<1>5. ASSUME UNCHANGED queue PROVE QueueStamped'
  BY <1>5, <1>2 DEF FreshInv, QueueStamped
<1>6. ASSUME UNCHANGED cur, wpc # "loop" PROVE CurStamped'
  BY <1>6, <1>2 DEF FreshInv, CurStamped
<1>7. ASSUME TakeEvent PROVE FreshInv'
  <2>1. cur' \in EventMsg /\ cur' = queue[1] /\ 1 \in 1..Len(queue)
    BY <1>7, HeadTail DEF TakeEvent, IsQuit, TypeOK
  <2>2. CurStamped'
    BY <2>1, <1>2 DEF FreshInv, QueueStamped, CurStamped
  <2>3. CollectedFresh' /\ LoopClean' /\ NoStaleDelivery'
    BY <1>7 DEF TakeEvent, FreshInv, CollectedFresh, LoopClean, NoStaleDelivery
  <2> QED BY <1>4, <1>7, <2>2, <2>3 DEF FreshInv, TakeEvent
<1>8. ASSUME QuitLooper PROVE FreshInv'
  <2>1. CurStamped'
    BY <1>8, <1>2 DEF FreshInv, QuitLooper, CurStamped
  <2>2. CollectedFresh' /\ LoopClean' /\ NoStaleDelivery'
    BY <1>8, <1>3 DEF QuitLooper, FreshInv, CollectedFresh, LoopClean, NoStaleDelivery, Fresh
  <2> QED BY <1>4, <1>8, <2>1, <2>2 DEF FreshInv, QuitLooper
<1>9. ASSUME LooperExits PROVE FreshInv'
  <2>1. UNCHANGED <<queue, worker>> /\ \A g \in Tags : current'[g] = current[g]
    BY <1>1, <1>9 DEF LooperExits
  <2> QED BY <2>1, <1>1, FreshSame
<1>10. ASSUME NEW c \in Classes, NEW w \in mEventListeners[c], Valid(w), wpc # "loop"
       PROVE  w.reg \in cur.placed \/ w.reg >= cur.next
  <2>1. w \in Entry /\ current[w.tag] = w.reg
    BY <1>10 DEF TypeOK, TableInv, LiveEntriesTagged
  <2>2. Stamped(cur)
    BY <1>10 DEF FreshInv, CurStamped
  <2> QED BY <2>1, <2>2 DEF Stamped, Entry
<1>11. ASSUME CollectExact PROVE FreshInv'
  <2>1. cur.cls \in Classes
    BY <1>11 DEF CollectExact, TypeOK, EventMsg
  <2>2. CollectedFresh'
    BY <1>3, <1>10, <1>11, <2>1 DEF CollectExact, CollectedFresh, Fresh
  <2>3. LoopClean' /\ NoStaleDelivery'
    BY <1>11 DEF CollectExact, FreshInv, LoopClean, NoStaleDelivery
  <2> QED BY <1>5, <1>6, <1>11, <2>2, <2>3 DEF FreshInv, CollectExact
<1>12. ASSUME CollectSuper PROVE FreshInv'
  <2>1. CollectedFresh'
    <3>1. \A w \in SuperEntries(cur.cls) : Valid(w) => w.reg \in cur.placed \/ w.reg >= cur.next
      <4>1. wpc # "loop"
        BY <1>12 DEF CollectSuper
      <4> QED BY <4>1, <1>10, SuperEntriesListed
    <3>2. /\ wpc = "super" /\ cur' = cur
          /\ listenersToNotify' = listenersToNotify \cup {<<"super", w>> : w \in SuperEntries(cur.cls)}
      BY <1>12 DEF CollectSuper
    <3>3. \A n \in listenersToNotify : Valid(n[2]) => Fresh(n)
      BY <3>2 DEF FreshInv, CollectedFresh
    <3>4. \A w \in SuperEntries(cur.cls) : Valid(w) => Fresh(<<"super", w>>)
      BY <3>1 DEF Fresh
    <3>5. \A n \in listenersToNotify' : Valid(n[2]) => Fresh(n)
      BY <3>2, <3>3, <3>4
    <3>6. \A n : Fresh(n)' <=> Fresh(n)
      BY <3>2 DEF Fresh
    <3> QED BY <3>5, <3>6, <1>3 DEF CollectedFresh
  <2>2. LoopClean' /\ NoStaleDelivery'
    BY <1>12 DEF CollectSuper, FreshInv, LoopClean, NoStaleDelivery
  <2> QED BY <1>5, <1>6, <1>12, <2>1, <2>2 DEF FreshInv, CollectSuper
<1>13. ASSUME Deref PROVE FreshInv'
  <2>1. CollectedFresh' /\ LoopClean' /\ NoStaleDelivery'
    BY <1>3, <1>13 DEF Deref, FreshInv, CollectedFresh, LoopClean, NoStaleDelivery, Fresh
  <2> QED BY <1>5, <1>6, <1>13, <2>1 DEF FreshInv, Deref
<1>14. ASSUME NEW n \in validListeners, Notify(n) PROVE FreshInv'
  <2>1. CollectedFresh' /\ LoopClean' /\ NoStaleDelivery'
    BY <1>3, <1>14 DEF Notify, FreshInv, CollectedFresh, LoopClean, NoStaleDelivery, Fresh
  <2> QED BY <1>5, <1>6, <1>14, <2>1 DEF FreshInv, Notify
<1>15. ASSUME CallbackReturns PROVE FreshInv'
  <2>1. CollectedFresh' /\ LoopClean' /\ NoStaleDelivery'
    BY <1>3, <1>15 DEF CallbackReturns, FreshInv, CollectedFresh, LoopClean, NoStaleDelivery, Fresh
  <2> QED BY <1>5, <1>6, <1>15, <2>1 DEF FreshInv, CallbackReturns
<1>16. ASSUME EventDone PROVE FreshInv'
  <2>1. CurStamped' /\ CollectedFresh' /\ LoopClean' /\ NoStaleDelivery'
    BY <1>16 DEF EventDone, CurStamped, CollectedFresh, LoopClean, NoStaleDelivery
  <2> QED BY <1>5, <1>16, <2>1 DEF FreshInv, EventDone
<1> QED
  BY <1>1, <1>7, <1>8, <1>9, <1>11, <1>12, <1>13, <1>14, <1>15, <1>16 DEF WorkerSteps

(* The inductive invariant holds initially.                                *)
LEMMA InitIInv == Init => IInv
<1> SUFFICES ASSUME Init PROVE IInv
  OBVIOUS
<1>1. TableInv
  BY DEF Init, TableInv, LiveEntriesTagged, Whole
<1>2. QueueStamped
  BY DEF Init, QueueStamped
<1>3. CurStamped /\ CollectedFresh /\ LoopClean /\ NoStaleDelivery
  BY DEF Init, CurStamped, CollectedFresh, LoopClean, NoStaleDelivery
<1> QED BY <1>1, <1>2, <1>3, InitTypeOK DEF IInv, FreshInv

(* The inductive invariant is preserved by every step.                     *)
LEMMA NextIInv == IInv /\ [Next]_vars => IInv'
<1> SUFFICES ASSUME IInv, [Next]_vars PROVE IInv'
  OBVIOUS
<1>1. TypeOK'
  BY NextTypeOK DEF IInv
<1>2. ASSUME UNCHANGED <<tables, queue, worker, nextReg>>, alive' \subseteq alive
      PROVE  TableInv' /\ FreshInv'
  <2>1. \A g \in Tags : current'[g] = current[g]
    BY <1>2 DEF tables
  <2> QED BY <1>2, <2>1, TablesSame, FreshSame DEF IInv
<1>3. ASSUME NEW l \in Listeners, Collect(l) PROVE TableInv' /\ FreshInv'
  BY <1>2, <1>3 DEF Collect, handler
<1>4. CASE UNCHANGED vars
  BY <1>1, <1>2, <1>4 DEF vars, handler, IInv
<1> QED
  BY <1>1, <1>3, <1>4, CallStartsIInv, CallStepsTables, CallStepsFresh, WorkerStepsIInv
  DEF Next, IInv

(* The inductive invariant holds in every reachable state of the code's    *)
(* dispatcher; the three theorems below are parts of it.                   *)
THEOREM Invariance == Spec => []IInv
  BY InitIInv, NextIInv, PTL DEF Spec

(* A listener that can still be called is always listed under its tag, for *)
(* its class and for the registration in force, whatever the interleaving  *)
(* of register, unregister, clear, quit and the collector.                 *)
THEOREM TablesAgree == Spec => []LiveEntriesTagged
<1>1. IInv => LiveEntriesTagged
  BY DEF IInv, TableInv
<1> QED BY <1>1, Invariance, PTL

(* No registration is ever half removed while its listener lives.          *)
(* Code: register, unregister, removeInvalidatedListeners.                 *)
THEOREM RegistrationsWhole == Spec => []AllOrNothing
<1>1. IInv => AllOrNothing
  BY DEF IInv, TableInv, Whole, AllOrNothing
<1> QED BY <1>1, Invariance, PTL

(* The worker never calls a listener on behalf of a registration that had  *)
(* ended before the event was posted.  Code: handleMessage.                *)
THEOREM NoDeliveryToEndedRegistration == Spec => []NoStaleDelivery
<1>1. IInv => NoStaleDelivery
  BY DEF IInv, FreshInv
<1> QED BY <1>1, Invariance, PTL

-----------------------------------------------------------------------------
(* What the worker's two snapshots miss and repeat.  Registrations are     *)
(* numbered in the order they enter the table, so what a message found in  *)
(* force is older than the message, and what is added between the two      *)
(* snapshots is younger than what the first one holds.                     *)
Older(m)   == \A r \in m.placed : r < m.next
QueueOlder == \A i \in 1..Len(queue) : queue[i] \in EventMsg => Older(queue[i])
CurOlder   == wpc # "loop" => Older(cur)
TableOlder ==
  /\ \A g \in Tags : current[g] < nextReg
  /\ \A c \in Classes : \A w \in mEventListeners[c] : w.reg < nextReg

(* An entry is registered for one class: the one at its position.          *)
OneClass == \A c, d \in Classes : c # d => mEventListeners[c] \cap mEventListeners[d] = {}

(* What the first pass collected stands for no other class, now or later.  *)
ExactApart ==
  wpc = "super" => \A n \in listenersToNotify :
    /\ n[1] = "exact" /\ n[2].reg < nextReg
    /\ \A d \in Classes \ {cur.cls} : n[2] \notin mEventListeners[d]

(* The first pass has all it should have, until the second has the rest.   *)
ExactComplete ==
  wpc = "super" => \A w \in mEventListeners[cur.cls] :
    w.reg \in cur.placed => <<"exact", w>> \in listenersToNotify

AgeInv   == QueueOlder /\ CurOlder /\ TableOlder /\ OneClass
SnapInv  == ExactApart /\ ExactComplete /\ NoMissedListener /\ NoDoubleDelivery
Snapshot == AgeInv /\ SnapInv

(* The tables only lose entries, unless a registration is added.           *)
Shrinks ==
  /\ nextReg' = nextReg
  /\ \A c \in Classes : mEventListeners'[c] \subseteq mEventListeners[c]
  /\ \A g \in Tags : current'[g] \in {current[g], 0}

LEMMA CallStepsShrink ==
  ASSUME TypeOK, NEW t \in Threads, CallSteps(t), ~RegisterAdd(t)
  PROVE  Shrinks
<1> USE DEF Shrinks
<1>1. ASSUME UNCHANGED <<tables, nextReg>> PROVE Shrinks
  BY <1>1 DEF tables
<1>2. CASE ClearTablesAndReturn(t)
  BY <1>2 DEF ClearTablesAndReturn, ClearTables
<1>3. ASSUME NEW c \in Classes, SweepClass(t, c) PROVE Shrinks
  <2>1. mEventListeners' = [mEventListeners EXCEPT ![c] = StillValid(c)] /\ UNCHANGED <<current, nextReg>>
    BY <1>3 DEF SweepClass
  <2>2. StillValid(c) \subseteq mEventListeners[c]
    BY DEF StillValid
  <2> QED BY <2>1, <2>2 DEF TypeOK
<1>4. ASSUME NEW g \in Tags, SweepTag(t, g) PROVE Shrinks
  <2>1. current' = current \/ current' = [current EXCEPT ![g] = 0]
    BY <1>4 DEF SweepTag
  <2>2. UNCHANGED <<mEventListeners, nextReg>>
    BY <1>4 DEF SweepTag
  <2> QED BY <2>1, <2>2 DEF TypeOK
<1>5. CASE UnregisterLocked(t)
  BY <1>5 DEF UnregisterLocked, Without, TypeOK
<1> QED
  BY <1>1, <1>2, <1>3, <1>4, <1>5
  DEF CallSteps, PostSend, ClearQueue, QuitSet, QuitSend, RegisterLock, SweepClassesDone,
      SweepTagsDone, RegisterRefused

(* What a registration adds is new, and in one class each.                 *)
LEMMA AddedEntries ==
  ASSUME TypeOK, NEW t \in Threads, RegisterAdd(t)
  PROVE  /\ \A c \in Classes : mEventListeners'[c] = mEventListeners[c] \cup NewEntries(arg[t], c)
         /\ \A c \in Classes : \A w \in NewEntries(arg[t], c) : w.reg = nextReg
         /\ \A c, d \in Classes : c # d => NewEntries(arg[t], c) \cap NewEntries(arg[t], d) = {}
         /\ nextReg' = nextReg + 1 /\ nextReg \in Nat
         /\ \A g \in Tags : current'[g] \in {current[g], 0, nextReg}
         /\ UNCHANGED <<queue, worker>>
<1>1. \A c \in Classes : mEventListeners'[c] = mEventListeners[c] \cup NewEntries(arg[t], c)
  BY DEF RegisterAdd
<1>2. \A c \in Classes : \A w \in NewEntries(arg[t], c) : w.reg = nextReg /\ arg[t].evs[w.pos] = c
  BY DEF NewEntries
<1>3. nextReg' = nextReg + 1 /\ nextReg \in Nat /\ UNCHANGED <<queue, worker>>
  BY DEF TypeOK, RegisterAdd, handler
<1>4. \A g \in Tags : current'[g] \in {current[g], 0, nextReg}
  BY DEF TypeOK, RegisterAdd
<1> QED BY <1>1, <1>2, <1>3, <1>4

(* Ages and snapshots survive what the tables lose,                        *)
LEMMA ShrinkKeeps ==
  ASSUME TypeOK, Snapshot, Shrinks, UNCHANGED worker, QueueOlder'
  PROVE  Snapshot'
<1> USE DEF worker, Shrinks
<1>1. nextReg \in Nat /\ \A m : Older(m)' <=> Older(m)
  BY DEF TypeOK, Older
<1>2. CurOlder'
  BY <1>1 DEF Snapshot, AgeInv, CurOlder, Older
<1>3. TableOlder' /\ OneClass'
  BY DEF TypeOK, Snapshot, AgeInv, TableOlder, OneClass
<1>4. wpc # "loop" => cur \in EventMsg /\ cur.cls \in Classes /\ Matching(cur.cls) \subseteq Classes
  BY DEF TypeOK, EventMsg, Matching
<1>5. ExactApart'
  BY DEF Snapshot, SnapInv, ExactApart
<1>6. ExactComplete' /\ NoMissedListener'
  BY <1>4 DEF Snapshot, SnapInv, ExactComplete, NoMissedListener, Matching
<1>7. NoDoubleDelivery'
  BY DEF Snapshot, SnapInv, NoDoubleDelivery
<1> QED BY <1>2, <1>3, <1>5, <1>6, <1>7 DEF Snapshot, AgeInv, SnapInv

(* and what a registration adds to them.                                   *)
LEMMA AddKeeps ==
  ASSUME IInv, Snapshot, NEW t \in Threads, RegisterAdd(t)
  PROVE  Snapshot'
<1> DEFINE New(c) == NewEntries(arg[t], c)
<1>1. /\ \A c \in Classes : mEventListeners'[c] = mEventListeners[c] \cup New(c)
      /\ \A c \in Classes : \A w \in New(c) : w.reg = nextReg
      /\ \A c, d \in Classes : c # d => New(c) \cap New(d) = {}
      /\ nextReg' = nextReg + 1 /\ nextReg \in Nat
      /\ \A g \in Tags : current'[g] \in {current[g], 0, nextReg}
      /\ UNCHANGED <<queue, worker>>
  BY AddedEntries DEF IInv
<1> HIDE DEF New
<1>2. current \in [Tags -> Nat] /\ \A c \in Classes : \A w \in mEventListeners[c] : w.reg \in Nat
  BY DEF IInv, TypeOK, Entry
<1>3. QueueOlder' /\ CurOlder'
  BY <1>1 DEF Snapshot, AgeInv, QueueOlder, CurOlder, Older, worker
<1>4. TableOlder'
  BY <1>1, <1>2 DEF Snapshot, AgeInv, TableOlder
<1>5. OneClass'
  <2> SUFFICES ASSUME NEW c \in Classes, NEW d \in Classes, c # d,
                      NEW w, w \in mEventListeners'[c], w \in mEventListeners'[d]
               PROVE  FALSE
    BY DEF OneClass
  <2>1. \A e \in Classes : w \in mEventListeners[e] => w.reg < nextReg /\ w.reg \in Nat
    BY <1>2 DEF Snapshot, AgeInv, TableOlder
  <2>2. \A e \in Classes : w \in New(e) => w.reg = nextReg
    BY <1>1
  <2>3. w \notin mEventListeners[c] \cap mEventListeners[d] /\ w \notin New(c) \cap New(d)
    BY <1>1 DEF Snapshot, AgeInv, OneClass
  <2> QED BY <1>1, <2>1, <2>2, <2>3
<1>6. wpc # "loop" => /\ cur \in EventMsg /\ cur.cls \in Classes /\ Matching(cur.cls) \subseteq Classes
                      /\ \A r \in cur.placed : r # nextReg
  <2>1. ASSUME wpc # "loop" PROVE cur \in EventMsg /\ Older(cur) /\ cur.next <= nextReg
    BY <2>1 DEF IInv, TypeOK, FreshInv, CurStamped, Stamped, Snapshot, AgeInv, CurOlder
  <2> QED BY <1>1, <2>1 DEF EventMsg, Matching, Older
<1>7. ExactApart'
  BY <1>1 DEF IInv, TypeOK, Entry, Snapshot, SnapInv, ExactApart, worker
<1>8. ExactComplete' /\ NoMissedListener'
  BY <1>1, <1>6 DEF Snapshot, SnapInv, ExactComplete, NoMissedListener, worker, Matching
<1>9. NoDoubleDelivery'
  BY <1>1 DEF Snapshot, SnapInv, NoDoubleDelivery, worker
<1> QED BY <1>3, <1>4, <1>5, <1>7, <1>8, <1>9 DEF Snapshot, AgeInv, SnapInv

(* What is sent is younger than what it found in force.                    *)
LEMMA CallStepsSnapshot ==
  ASSUME IInv, Snapshot, NEW t \in Threads, CallSteps(t)
  PROVE  Snapshot'
<1>1. CASE RegisterAdd(t)
  BY <1>1, AddKeeps
<1>2. CASE ~RegisterAdd(t)
  <2>1. TypeOK /\ Shrinks
    BY <1>2, CallStepsShrink DEF IInv
  <2>2. UNCHANGED worker
    BY DEF CallSteps, PostSend, ClearQueue, ClearTablesAndReturn, QuitSet, QuitSend, RegisterLock, SweepClass,
           SweepClassesDone, SweepTag, SweepTagsDone, RegisterRefused, RegisterAdd, UnregisterLocked
  <2>3. QueueOlder'
    <3>1. ASSUME UNCHANGED queue PROVE QueueOlder'
      BY <3>1 DEF Snapshot, AgeInv, QueueOlder, Older
    <3>2. ASSUME NEW m \in EventMsg \cup {QuitMsg}, Send(m), m \in EventMsg => Older(m) PROVE QueueOlder'
      <4>1. CASE queue' = queue
        BY <3>1, <4>1
      <4>2. CASE queue' = Append(queue, m)
        <5>1. /\ Len(queue') = Len(queue) + 1 /\ Len(queue) \in Nat /\ queue'[Len(queue) + 1] = m
              /\ \A i \in 1..Len(queue) : queue'[i] = queue[i]
          BY <2>1, <4>2 DEF TypeOK
        <5> QED BY <5>1, <3>2 DEF Snapshot, AgeInv, QueueOlder, Older
      <4> QED BY <3>2, <4>1, <4>2 DEF Send
    <3>3. CASE PostSend(t)
      <4> DEFINE m == [what |-> "POST_EVENT", cls |-> arg[t].cls, placed |-> InForce, next |-> nextReg]
      <4>1. m \in EventMsg
        BY <2>1, <3>3 DEF TypeOK, PostSend, PostArg, EventMsg, InForce
      <4>2. Older(m)
        BY DEF Older, InForce, Snapshot, AgeInv, TableOlder
      <4> HIDE DEF m
      <4> QED BY <3>2, <3>3, <4>1, <4>2 DEF PostSend, m
    <3>4. CASE QuitSend(t)
      <4>1. QuitMsg \notin EventMsg
        BY DEF QuitMsg, EventMsg
      <4> QED BY <3>2, <3>4, <4>1 DEF QuitSend, SendQuitMsg
    <3>5. CASE ClearQueue(t)
      BY <3>5 DEF ClearQueue, QueueOlder
    <3> QED
      BY <1>2, <3>1, <3>3, <3>4, <3>5
      DEF CallSteps, ClearTablesAndReturn, QuitSet, RegisterLock, SweepClass, SweepClassesDone, SweepTag,
          SweepTagsDone, RegisterRefused, UnregisterLocked, handler
  <2> QED BY <2>1, <2>2, <2>3, ShrinkKeeps
<1> QED BY <1>1, <1>2

(* The worker's own steps.                                                 *)
LEMMA WorkerStepsSnapshot ==
  ASSUME IInv, Snapshot, WorkerSteps
  PROVE  Snapshot'
<1> USE DEF handler, worker, Snapshot
<1>0. TypeOK
  BY DEF IInv
<1>1. UNCHANGED <<tables, nextReg>>
  BY DEF WorkerSteps, TakeEvent, QuitLooper, LooperExits, CollectExact, CollectSuper, Deref,
         Notify, CallbackReturns, EventDone
<1>2. TableOlder' /\ OneClass' /\ \A m : Older(m)' <=> Older(m)
  BY <1>1 DEF AgeInv, TableOlder, OneClass, Older, tables
<1>3. QueueOlder'
  <2>1. CASE UNCHANGED queue
    BY <2>1, <1>2 DEF AgeInv, QueueOlder
  <2>2. CASE queue # <<>> /\ queue' = Tail(queue)
    <3>1. /\ Len(queue') = Len(queue) - 1 /\ Len(queue) \in Nat \ {0}
          /\ \A i \in 1..Len(queue') : queue'[i] = queue[i + 1]
      BY <1>0, <2>2 DEF TypeOK
    <3> QED BY <3>1, <1>2 DEF AgeInv, QueueOlder
  <2> QED
    BY <2>1, <2>2 DEF WorkerSteps, TakeEvent, QuitLooper, LooperExits, CollectExact, CollectSuper, Deref,
                      Notify, CallbackReturns, EventDone
<1>4. CurOlder'
  <2>1. CASE TakeEvent
    <3>1. cur' \in EventMsg /\ cur' = queue[1] /\ 1 \in 1..Len(queue)
      BY <1>0, <2>1, HeadTail DEF TakeEvent, IsQuit, TypeOK
    <3> QED BY <3>1, <1>2 DEF AgeInv, QueueOlder, CurOlder
  <2>2. CASE EventDone \/ QuitLooper \/ LooperExits
    BY <1>2, <2>2 DEF EventDone, QuitLooper, LooperExits, AgeInv, CurOlder
  <2>3. CASE CollectExact \/ CollectSuper \/ Deref \/ CallbackReturns \/ \E n \in validListeners : Notify(n)
    BY <1>2, <2>3 DEF CollectExact, CollectSuper, Deref, Notify, CallbackReturns, AgeInv, CurOlder
  <2> QED BY <2>1, <2>2, <2>3 DEF WorkerSteps
<1>5. CASE CollectExact
  <2>1. /\ wpc' = "super" /\ UNCHANGED <<tables, nextReg, cur>> /\ cur.cls \in Classes
        /\ listenersToNotify' = {<<"exact", w>> : w \in mEventListeners[cur.cls]}
    BY <1>0, <1>5 DEF CollectExact, TypeOK, EventMsg
  <2>2. ExactApart'
    BY <2>1 DEF AgeInv, TableOlder, OneClass, ExactApart, tables
  <2>3. ExactComplete' /\ NoMissedListener' /\ NoDoubleDelivery'
    BY <2>1 DEF ExactComplete, NoMissedListener, NoDoubleDelivery, tables
  <2> QED BY <1>2, <1>3, <1>4, <2>2, <2>3 DEF AgeInv, SnapInv
<1>6. CASE CollectSuper
  <2>1. /\ wpc = "super" /\ wpc' = "deref" /\ UNCHANGED <<mEventListeners, cur>> /\ cur.cls \in Classes
        /\ listenersToNotify' = listenersToNotify \cup {<<"super", w>> : w \in SuperEntries(cur.cls)}
    BY <1>0, <1>6 DEF CollectSuper, TypeOK, EventMsg, tables
  <2>2. \A w \in SuperEntries(cur.cls) : \E d \in Classes \ {cur.cls} : w \in mEventListeners[d]
    BY DEF SuperEntries, Matching
  <2>3. \A n \in listenersToNotify : /\ n = <<"exact", n[2]>>
                                     /\ \A d \in Classes \ {cur.cls} : n[2] \notin mEventListeners[d]
    BY <1>0, <2>1 DEF TypeOK, SnapInv, ExactApart
  <2>4. NoDoubleDelivery'
    <3> SUFFICES ASSUME NEW n \in listenersToNotify', NEW m \in listenersToNotify', n[2] = m[2] PROVE n = m
      BY DEF NoDoubleDelivery
    <3>1. CASE n \in listenersToNotify /\ m \in listenersToNotify
      BY <2>3, <3>1
    <3>2. CASE n \notin listenersToNotify /\ m \notin listenersToNotify
      <4>1. n = <<"super", n[2]>> /\ m = <<"super", m[2]>>
        BY <2>1, <3>2
      <4> QED BY <4>1
    <3>3. ASSUME NEW k \in listenersToNotify, NEW w \in SuperEntries(cur.cls) PROVE k[2] # w
      BY <2>2, <2>3
    <3>4. ASSUME NEW k \in listenersToNotify', k \notin listenersToNotify PROVE k[2] \in SuperEntries(cur.cls)
      BY <2>1, <3>4
    <3> QED BY <3>1, <3>2, <3>3, <3>4
  <2>5. NoMissedListener'
    <3> SUFFICES ASSUME NEW c \in Matching(cur.cls), NEW w \in mEventListeners[c], w.reg \in cur.placed
                 PROVE  \E p \in {"exact", "super"} : <<p, w>> \in listenersToNotify'
      BY <2>1 DEF NoMissedListener, Matching
    <3>1. CASE c = cur.cls
      BY <2>1, <3>1 DEF SnapInv, ExactComplete
    <3>2. CASE c # cur.cls
      <4>1. w \in SuperEntries(cur.cls)
        BY <3>2 DEF SuperEntries
      <4> QED BY <2>1, <4>1
    <3> QED BY <3>1, <3>2
  <2>6. ExactApart' /\ ExactComplete'
    BY <2>1 DEF ExactApart, ExactComplete
  <2> QED BY <1>2, <1>3, <1>4, <2>4, <2>5, <2>6 DEF AgeInv, SnapInv
<1>7. CASE ~CollectExact /\ ~CollectSuper
  <2>1. /\ wpc' \notin {"super", "deref"} \/ UNCHANGED wpc
        /\ wpc' \in {"super", "deref"} => UNCHANGED <<cur, listenersToNotify>>
        /\ listenersToNotify' = listenersToNotify \/ listenersToNotify' = {}
    BY <1>7 DEF WorkerSteps, TakeEvent, QuitLooper, LooperExits, Deref, Notify, CallbackReturns, EventDone
  <2>2. SnapInv'
    BY <1>1, <2>1 DEF SnapInv, ExactApart, ExactComplete, NoMissedListener, NoDoubleDelivery, tables, Matching
  <2> QED BY <1>2, <1>3, <1>4, <2>2 DEF AgeInv
<1> QED BY <1>5, <1>6, <1>7

(* At first there are no entries, no events and no snapshots.              *)
LEMMA InitSnapshot == Init => Snapshot
<1> SUFFICES ASSUME Init PROVE Snapshot
  OBVIOUS
<1>1. QueueOlder /\ CurOlder
  BY DEF Init, QueueOlder, CurOlder
<1>2. TableOlder /\ OneClass
  BY DEF Init, TableOlder, OneClass
<1>3. SnapInv
  BY DEF Init, SnapInv, ExactApart, ExactComplete, NoMissedListener, NoDoubleDelivery
<1> QED BY <1>1, <1>2, <1>3 DEF Snapshot, AgeInv

(* Every step keeps the ages of entries and what the snapshots hold.       *)
LEMMA NextSnapshot == IInv /\ Snapshot /\ [Next]_vars => Snapshot'
<1> SUFFICES ASSUME IInv, Snapshot, [Next]_vars PROVE Snapshot'
  OBVIOUS
<1>1. ASSUME UNCHANGED <<tables, queue, worker, nextReg>> PROVE Snapshot'
  <2>1. Shrinks
    BY <1>1 DEF Shrinks, tables
  <2>2. QueueOlder'
    BY <1>1 DEF Snapshot, AgeInv, QueueOlder, Older
  <2> QED BY <1>1, <2>1, <2>2, ShrinkKeeps DEF IInv
<1>2. ASSUME NEW t \in Threads, CallStarts(t) PROVE Snapshot'
  BY <1>1, <1>2 DEF CallStarts, Enter, PostCall, ClearCall, QuitCall, RegisterCall, UnregisterCall, handler
<1>3. ASSUME NEW l \in Listeners, Collect(l) PROVE Snapshot'
  BY <1>1, <1>3 DEF Collect, handler
<1>4. CASE UNCHANGED vars
  BY <1>1, <1>4 DEF vars, handler
<1> QED
  BY <1>2, <1>3, <1>4, CallStepsSnapshot, WorkerStepsSnapshot DEF Next

(* What the snapshots hold holds in every reachable state.                 *)
THEOREM Snapshots == Spec => []Snapshot
  BY InitSnapshot, NextSnapshot, Invariance, PTL DEF Spec

(* A registration in force when an event is posted, and still when the     *)
(* worker has looked at both tables, is notified.  Code: handleMessage.    *)
THEOREM NobodyMissed == Spec => []NoMissedListener
<1>1. Snapshot => NoMissedListener
  BY DEF Snapshot, SnapInv
<1> QED BY <1>1, Snapshots, PTL

(* Nobody is called twice for one registered class, whatever is registered *)
(* and removed between the two passes.  Code: handleMessage.               *)
THEOREM NobodyTwice == Spec => []NoDoubleDelivery
<1>1. Snapshot => NoDoubleDelivery
  BY DEF Snapshot, SnapInv
<1> QED BY <1>1, Snapshots, PTL

=============================================================================
