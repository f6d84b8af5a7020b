---------------------------- MODULE LoggingProofs ----------------------------
(***************************************************************************)
(* The loggers for any threads, classes, call stacks, loggers, levels and  *)
(* bounds: a line is printed if and only if the level allows it, however   *)
(* often that changes; it carries its caller's tag, however the cache was  *)
(* filled and trimmed; and lines in the file are whole.                    *)
(***************************************************************************)
EXTENDS Logging, SequenceTheorems, TLAPS

-----------------------------------------------------------------------------
(* Types.                                                                  *)

Filing == {"file", "measure", "put", "fail"}
Active == {"find", "cache", "gate", "object", "level", "print", "done"} \union Filing

(* What a call carries: some fields are fixed when it begins, except that  *)
(* the bars widen.                                                         *)
Fixed   == {"id", "logger", "op", "via", "stack", "level", "bad", "asked", "lo", "hi"}
Working == {"tag", "frame", "on", "writable", "remaining", "logcat", "file"}
Fields  == Fixed \union Working

LLogger == [strategy |-> "trace", printer |-> "llog"]
FixedTyped(c) ==
  /\ c.id \in Nat /\ c.stack \in Stacks /\ c.level \in Priorities
  /\ IF c.via = "LLog" THEN c.logger = LLogger ELSE c.logger \in Loggers
  /\ c.lo \in Int /\ c.hi \in Int
WorkTyped(c) ==
  /\ c.on \in BOOLEAN /\ c.logcat \in BOOLEAN /\ c.file \in BOOLEAN
  /\ c.frame \in Nat /\ c.writable \in Nat /\ c.remaining \in 0..LineLen
WellFormed(c) == DOMAIN c = Fields /\ FixedTyped(c) /\ WorkTyped(c)

ConfigTyped ==
  /\ sILog \in Loggers /\ sCurrentLogPriority \in Thresholds /\ allowPrint \in BOOLEAN
  /\ DOMAIN CLASS_TAG_CACHE = Classes /\ starting \in [Classes -> Threads \union {"none"}]
  /\ calls \in Nat /\ faults \in Nat
DiskTyped ==
  /\ mFileWriterInvalid \in BOOLEAN /\ open \in BOOLEAN /\ overlapped \in BOOLEAN
  /\ interrupted \in BOOLEAN
  /\ ring \in Seq(Nat) /\ drained \in 0..Len(ring) /\ Len(ring) - drained <= RingSize
CallsTyped ==
  /\ pc \in [Threads -> Active \union {"idle"}] /\ DOMAIN call = Threads
  /\ \A t \in Threads : IF pc[t] = "idle" THEN call[t] = <<>> ELSE WellFormed(call[t])
Measured == \A t \in Threads : pc[t] = "put" => call[t].writable <= call[t].remaining
Typed == ConfigTyped /\ DiskTyped /\ CallsTyped /\ Measured

(* The steps of a call touch the fields it works on, and no other call.    *)
Moved(t) ==
  /\ \A u \in Threads \ {t} : call'[u] = call[u] /\ pc'[u] = pc[u]
  /\ pc[t] \in Active /\ pc'[t] \in Active /\ pc' \in [Threads -> Active \union {"idle"}]
  /\ DOMAIN call' = Threads
  /\ DOMAIN call'[t] = Fields /\ \A f \in Fixed : call'[t][f] = call[t][f]

(* TagFinder's answer ends the search or takes it one frame on.            *)
LEMMA FoundSteps ==
  ASSUME NEW t \in Threads, NEW tag, Found(t, tag)
  PROVE  \/ tag # <<>> /\ ~Tracing(t) /\ Tagged(t, tag) /\ Goto(t, "gate")
         \/ /\ Tracing(t) /\ Goto(t, LaidOut(call[t]))
            /\ Tagged(t, IF tag = <<>> \/ LaidOut(call[t]) = "object" THEN <<"at", Asked(t)>> ELSE tag)
         \/ tag = <<>> /\ ~Tracing(t) /\ call' = [call EXCEPT ![t].frame = @ + 1] /\ Goto(t, "find")
BY DEF Found

(* The tests passed, and where the call goes.                              *)
LEMMA GateSteps ==
  ASSUME NEW t \in Threads, Gate(t)
  PROVE  /\ pc[t] = "gate" /\ (Asks(t) => isPrintable(t))
         /\ \/ ~Tracing(t) /\ Answered(t) /\ Goto(t, "print")
            \/ Tracing(t) /\ call[t].tag # <<>> /\ Answered(t) /\ Goto(t, LaidOut(call[t]))
            \/ /\ Tracing(t) /\ call[t].tag = <<>> /\ getStackTrace(call[t]) \in NoSource
               /\ Answered(t) /\ Goto(t, "find")
            \/ /\ Tracing(t) /\ call[t].tag = <<>> /\ Goto(t, LaidOut(call[t]))
               /\ call' = [call EXCEPT ![t].on = FALSE, ![t].tag = <<"at", getStackTrace(call[t])>>]
BY DEF Gate

(* What a change of its own fields leaves of a call.                       *)
LEMMA TaggedFields ==
  ASSUME NEW t \in Threads, DOMAIN call = Threads, DOMAIN call[t] = Fields, NEW tag, Tagged(t, tag)
  PROVE  /\ DOMAIN call' = Threads /\ DOMAIN call'[t] = Fields /\ \A u \in Threads \ {t} : call'[u] = call[u]
         /\ \A f \in Fields \ {"tag", "frame"} : call'[t][f] = call[t][f]
         /\ call'[t].tag = tag /\ call'[t].frame = 0
BY DEF Tagged, Fields, Fixed, Working

LEMMA AnsweredFields ==
  ASSUME NEW t \in Threads, DOMAIN call = Threads, DOMAIN call[t] = Fields, Answered(t)
  PROVE  /\ DOMAIN call' = Threads /\ DOMAIN call'[t] = Fields /\ \A u \in Threads \ {t} : call'[u] = call[u]
         /\ \A f \in Fields \ {"on"} : call'[t][f] = call[t][f]
         /\ call'[t].on = FALSE
BY DEF Answered, Fields, Fixed, Working

LEMMA MovedTo ==
  ASSUME CallsTyped, NEW t \in Threads, pc[t] \in Active, NEW label \in Active, Goto(t, label),
         DOMAIN call' = Threads, DOMAIN call'[t] = Fields, \A u \in Threads \ {t} : call'[u] = call[u],
         NEW F, F \subseteq Working, \A f \in Fields \ F : call'[t][f] = call[t][f]
  PROVE  Moved(t)
<1>1. pc'[t] = label /\ (\A u \in Threads \ {t} : pc'[u] = pc[u]) /\ pc' \in [Threads -> Active \union {"idle"}]
  BY DEF CallsTyped, Goto
<1>2. \A f \in Fixed : f \in Fields \ F
  BY DEF Fields, Fixed, Working
<1> QED BY <1>1, <1>2 DEF Moved

LEMMA FoundMoves ==
  ASSUME CallsTyped, NEW t \in Threads, pc[t] \in Active, NEW tag, Found(t, tag)
  PROVE  Moved(t)
<1>0. /\ DOMAIN call = Threads /\ DOMAIN call[t] = Fields /\ {"tag", "frame"} \subseteq Working /\ {"frame"} \subseteq Working
      /\ LaidOut(call[t]) \in Active /\ "find" \in Active /\ "gate" \in Active
  BY DEF CallsTyped, WellFormed, Working, Active, Filing, LaidOut
<1>1. CASE \E x : Tagged(t, x) /\ (Goto(t, "gate") \/ Goto(t, LaidOut(call[t])))
  <2>1. PICK x : Tagged(t, x) /\ (Goto(t, "gate") \/ Goto(t, LaidOut(call[t])))
    BY <1>1
  <2> QED BY <1>0, <2>1, TaggedFields, MovedTo
<1>2. CASE call' = [call EXCEPT ![t].frame = @ + 1] /\ Goto(t, "find")
  <2>1. /\ DOMAIN call' = Threads /\ DOMAIN call'[t] = Fields /\ \A u \in Threads \ {t} : call'[u] = call[u]
        /\ \A f \in Fields \ {"frame"} : call'[t][f] = call[t][f]
    BY <1>0, <1>2 DEF Fields
  <2> QED BY <1>0, <1>2, <2>1, MovedTo
<1> QED BY <1>1, <1>2, FoundSteps

LEMMA Moves ==
  ASSUME CallsTyped, NEW t \in Threads, FindsTag(t) \/ Prints(t) \/ Writes(t)
  PROVE  Moved(t)
<1>0. /\ DOMAIN call = Threads /\ DOMAIN pc = Threads /\ (pc[t] # "idle" => DOMAIN call[t] = Fields)
      /\ LaidOut(call[t]) \in Active
  BY DEF CallsTyped, WellFormed, LaidOut, Active
<1>1. CASE NoTag(t)
  BY <1>0, <1>1, TaggedFields, MovedTo DEF NoTag, Working, Active
<1>2. CASE CacheGet(t) \/ cacheTag(t)
  BY <1>2, FoundMoves DEF CacheGet, cacheTag, Active
<1>3. CASE Walk(t)
  BY <1>0, <1>3 DEF Walk, Moved, Goto, CallsTyped, Fields, Fixed, Working, Active
<1>4. CASE NotOff(t)
  <2>1. pc[t] \in Active /\ pc' = pc
    BY <1>4 DEF NotOff, Asks, Active
  <2>2. /\ DOMAIN call' = Threads /\ DOMAIN call'[t] = Fields /\ \A u \in Threads \ {t} : call'[u] = call[u]
        /\ \A f \in Fixed : call'[t][f] = call[t][f]
    BY <1>0, <1>4, <2>1 DEF NotOff, Fields, Fixed, Active, Filing
  <2> QED BY <2>1, <2>2 DEF Moved, CallsTyped
<1>5. CASE Skip(t) \/ internalPrintObject(t) \/ internalPrintLog(t)
  <2>1. /\ pc[t] \in Active /\ pc[t] # "idle" /\ Answered(t)
        /\ \E label \in Active : Goto(t, label)
    BY <1>5 DEF Skip, internalPrintObject, internalPrintLog, Active
  <2> QED BY <1>0, <2>1, AnsweredFields, MovedTo DEF Working
<1>6. CASE Gate(t)
  <2>1. pc[t] \in Active /\ DOMAIN call[t] = Fields
    BY <1>0, <1>6 DEF Gate, Active
  <2>2. CASE Answered(t)
    <3>1. \E label \in Active : Goto(t, label)
      BY <1>0, <1>6, GateSteps DEF Active
    <3> QED BY <1>0, <2>1, <2>2, <3>1, AnsweredFields, MovedTo DEF Working
  <2>3. CASE /\ Goto(t, LaidOut(call[t]))
             /\ call' = [call EXCEPT ![t].on = FALSE, ![t].tag = <<"at", getStackTrace(call[t])>>]
    <3>1. /\ DOMAIN call' = Threads /\ DOMAIN call'[t] = Fields /\ \A u \in Threads \ {t} : call'[u] = call[u]
          /\ \A f \in Fields \ {"on", "tag"} : call'[t][f] = call[t][f]
      BY <1>0, <2>1, <2>3 DEF Fields
    <3> QED BY <1>0, <2>1, <2>3, <3>1, MovedTo DEF Working
  <2> QED BY <1>6, <2>2, <2>3, GateSteps
<1>7. CASE PrintLine(t)
  BY <1>0, <1>7 DEF PrintLine, Moved, Goto, CallsTyped, Fields, Fixed, Working, Active, Filing
<1>8. CASE PrintToFile(t) \/ PrintFails(t)
  BY <1>0, <1>8 DEF PrintToFile, PrintFails, Moved, Goto, CallsTyped, Fields, Fixed, Working, Active, Filing
<1>9. CASE Measure(t) \/ Interrupted(t)
  BY <1>0, <1>9 DEF Measure, Interrupted, Moved, Goto, CallsTyped, Fields, Fixed, Working, Active, Filing
<1>10. CASE Put(t)
  <2>1. /\ pc[t] \in Active /\ DOMAIN call[t] = Fields
        /\ \E label \in Active : Goto(t, label)
    BY <1>0, <1>10 DEF Put, Active, Filing
  <2>2. PICK x, y : call' = [call EXCEPT ![t].remaining = x, ![t].file = y]
    BY <1>10 DEF Put
  <2>3. /\ DOMAIN call' = Threads /\ DOMAIN call'[t] = Fields /\ \A u \in Threads \ {t} : call'[u] = call[u]
        /\ \A f \in Fields \ {"remaining", "file"} : call'[t][f] = call[t][f]
    BY <1>0, <2>1, <2>2 DEF Fields
  <2> QED BY <2>1, <2>3, MovedTo DEF Working
<1> QED BY <1>1, <1>2, <1>3, <1>4, <1>5, <1>6, <1>7, <1>8, <1>9, <1>10 DEF FindsTag, Prints, Writes

(* The constants as the proofs use them.                                   *)
LEMMA Constants ==
  /\ \A s \in Stacks : s \in Seq(Classes) /\ Len(s) \in Nat /\ Len(s) > 0 /\ \A i \in 1..Len(s) : s[i] \in Classes
  /\ \A l \in Loggers : /\ l.strategy \in {"default", "trace"} /\ l.methodOffset \in Nat
                        /\ l.printer \in {"logcat", "both", "disk"}
  /\ \A c \in Calls : c.level \in Priorities
  /\ \A p \in Thresholds : Bar(p) \in Int /\ (p # OFF => p \in Priorities /\ Bar(p) = p)
  /\ LineLen \in Nat /\ LineLen > 0 /\ RingSize \in Nat /\ RingSize > 0
  /\ Lib \notin Classes /\ "none" \notin Threads
<1>1. /\ \A l \in Loggers : /\ l.strategy \in {"default", "trace"} /\ l.methodOffset \in Nat
                            /\ l.printer \in {"logcat", "both", "disk"}
      /\ \A c \in Calls : c.level \in Priorities
      /\ LineLen \in Nat /\ LineLen > 0 /\ RingSize \in Nat /\ RingSize > 0
      /\ Lib \notin Classes /\ "none" \notin Threads
  BY LoggingAssumption DEF LoggingAssumption
<1>2. \A p \in Thresholds : Bar(p) \in Int /\ (p # OFF => p \in Priorities /\ Bar(p) = p)
  BY LoggingAssumption DEF LoggingAssumption, Bar, OFF, Priorities
<1>3. ASSUME NEW s \in Stacks
      PROVE  s \in Seq(Classes) /\ Len(s) \in Nat /\ Len(s) > 0 /\ \A i \in 1..Len(s) : s[i] \in Classes
  <2>1. s \in Seq(Classes) /\ s # <<>>
    BY LoggingAssumption DEF LoggingAssumption
  <2>2. Len(s) \in Nat /\ Len(s) # 0
    BY <2>1
  <2> QED BY <2>1, <2>2
<1> QED BY <1>1, <1>2, <1>3

(* The bar a call meets.                                                   *)
Now(c) == BarOf(c.via, sCurrentLogPriority, allowPrint)

LEMMA NowInt == ASSUME ConfigTyped, NEW c PROVE Now(c) \in Int /\ Now(c) <= Bar(OFF)
BY Constants DEF Now, BarOf, Bar, OFF, Priorities, ConfigTyped

(* What a change of level or switch leaves of a call under way.            *)
LEMMA RememberedFields ==
  ASSUME Typed, ConfigTyped', Remembered, UNCHANGED pc
  PROVE  /\ DOMAIN call' = Threads
         /\ \A t \in Threads : pc[t] = "idle" => call'[t] = <<>>
         /\ \A t \in Threads : pc[t] # "idle" =>
              /\ DOMAIN call'[t] = Fields /\ \A f \in Fields \ {"lo", "hi"} : call'[t][f] = call[t][f]
              /\ call'[t].lo \in Int /\ call'[t].lo <= call[t].lo /\ call'[t].lo <= Now(call[t])'
              /\ call'[t].hi \in Int /\ call'[t].hi >= call[t].hi /\ call'[t].hi >= Now(call[t])'
              /\ call'[t].hi \in {call[t].hi, Now(call[t])'}
<1>1. DOMAIN call' = Threads
  BY DEF Remembered
<1>2. ASSUME NEW t \in Threads, pc[t] = "idle" PROVE call'[t] = <<>>
  BY <1>2 DEF Remembered, Typed, CallsTyped
<1>3. ASSUME NEW t \in Threads, pc[t] # "idle"
      PROVE  /\ DOMAIN call'[t] = Fields /\ \A f \in Fields \ {"lo", "hi"} : call'[t][f] = call[t][f]
             /\ call'[t].lo \in Int /\ call'[t].lo <= call[t].lo /\ call'[t].lo <= Now(call[t])'
             /\ call'[t].hi \in Int /\ call'[t].hi >= call[t].hi /\ call'[t].hi >= Now(call[t])'
             /\ call'[t].hi \in {call[t].hi, Now(call[t])'}
  <2>1. DOMAIN call[t] = Fields /\ call[t].lo \in Int /\ call[t].hi \in Int
    BY <1>3 DEF Typed, CallsTyped, WellFormed, FixedTyped
  <2>2. call[t] # <<>>
    BY <2>1 DEF Fields, Fixed, Working
  <2> DEFINE bar == BarOf(call[t].via, sCurrentLogPriority', allowPrint')
             lo  == IF bar < call[t].lo THEN bar ELSE call[t].lo
             hi  == IF bar > call[t].hi THEN bar ELSE call[t].hi
  <2>3. call'[t] = [call[t] EXCEPT !.lo = lo, !.hi = hi]
    BY <2>2 DEF Remembered
  <2>4. bar \in Int
    BY Constants DEF BarOf, Bar, OFF, ConfigTyped
  <2>5. lo \in Int /\ lo <= call[t].lo /\ lo <= bar /\ hi \in Int /\ hi >= call[t].hi /\ hi >= bar
        /\ hi \in {call[t].hi, bar}
    BY <2>1, <2>4
  <2> HIDE DEF lo, hi, bar
  <2>6. /\ DOMAIN call'[t] = Fields /\ \A f \in Fields \ {"lo", "hi"} : call'[t][f] = call[t][f]
        /\ call'[t].lo = lo /\ call'[t].hi = hi
    BY <2>1, <2>3 DEF Fields, Fixed
  <2>7. call'[t].via = call[t].via
    BY <2>6 DEF Fields, Fixed
  <2> QED BY <2>5, <2>6, <2>7 DEF bar, Now
<1> QED BY <1>1, <1>2, <1>3

LEMMA NextConfigTyped == ASSUME Typed, [Next]_vars PROVE ConfigTyped'
<1> USE DEF Typed, ConfigTyped, config, finder, counts
<1>1. CASE sILog' \in Loggers /\ sCurrentLogPriority' \in Thresholds /\ allowPrint' \in BOOLEAN
           /\ CLASS_TAG_CACHE' = CLASS_TAG_CACHE /\ starting' = starting
           /\ calls' \in {calls, calls + 1} /\ faults' \in {faults, faults + 1}
  BY <1>1
<1>2. ASSUME NEW t \in Threads, FindsTag(t) \/ Prints(t) \/ Writes(t)
      PROVE  /\ UNCHANGED <<sILog, sCurrentLogPriority, allowPrint, starting, calls, faults>>
             /\ DOMAIN CLASS_TAG_CACHE' = DOMAIN CLASS_TAG_CACHE
  BY <1>2 DEF FindsTag, Prints, Writes, NoTag, CacheGet, Walk, cacheTag, NotOff, Skip, Gate,
     internalPrintObject, internalPrintLog, PrintLine, PrintToFile, Measure, Interrupted, Put, PrintFails
<1>3. ASSUME NEW t \in Threads, Call(t) \/ Return(t) \/ setupImpl(t) \/ setDefaultTag(t) PROVE ConfigTyped'
  BY <1>3, <1>1 DEF Call, Return, setupImpl, setDefaultTag
<1>4. ASSUME NEW t \in Threads, Started(t) PROVE ConfigTyped'
  BY <1>4 DEF Started
<1>5. CASE setLogPriority \/ setAllowPrint \/ Drain \/ WriterFails
  BY <1>5, <1>1 DEF setLogPriority, setAllowPrint, Drain, WriterFails
<1>6. CASE Trim
  BY <1>6 DEF Trim
<1>7. CASE UNCHANGED vars
  BY <1>7 DEF vars
<1> QED BY <1>2, <1>3, <1>4, <1>5, <1>6, <1>7 DEF Next

(* The ring takes no more than it has room for.                            *)
Written(t) == IF Free < call[t].writable THEN Free ELSE call[t].writable

LEMMA PutRing ==
  ASSUME Typed, NEW t \in Threads, Put(t)
  PROVE  /\ Written(t) \in Nat /\ Written(t) <= Free /\ Free \in Nat /\ call[t].id \in Nat /\ Len(ring) \in Nat
         /\ ring' \in Seq(Nat) /\ Len(ring') = Len(ring) + Written(t)
         /\ \A i \in 1..Len(ring) : ring'[i] = ring[i]
         /\ \A i \in (Len(ring) + 1)..Len(ring') : ring'[i] = call[t].id
<1>0. call[t].id \in Nat /\ call[t].writable \in Nat /\ Len(ring) \in Nat /\ drained \in Nat /\ Free \in Nat
  <2>1. WellFormed(call[t])
    BY DEF Put, Typed, CallsTyped
  <2>2. Len(ring) \in Nat /\ drained \in 0..Len(ring) /\ Len(ring) - drained <= RingSize /\ RingSize \in Nat
    BY Constants DEF Typed, DiskTyped
  <2> QED BY <2>1, <2>2 DEF WellFormed, FixedTyped, WorkTyped, Free
<1>1. Written(t) \in Nat /\ Written(t) <= Free
  BY <1>0 DEF Written
<1> DEFINE n == Written(t)
           more == [i \in 1..n |-> call[t].id]
<1>2. more \in Seq(Nat) /\ Len(more) = n /\ \A i \in 1..n : more[i] = call[t].id
  BY <1>0, <1>1
<1>3. ring' = ring \o more /\ ring \in Seq(Nat)
  BY DEF Put, Written, Typed, DiskTyped
<1> HIDE DEF n, more
<1>4. /\ ring \o more \in Seq(Nat) /\ Len(ring \o more) = Len(ring) + n
      /\ \A i \in 1..Len(ring) : (ring \o more)[i] = ring[i]
      /\ \A i \in (Len(ring) + 1)..(Len(ring) + n) : (ring \o more)[i] = more[i - Len(ring)]
  <2>1. n \in Nat /\ Len(ring) \in Nat /\ Len(more) = n
    BY <1>0, <1>1, <1>2 DEF n
  <2>2. /\ ring \o more \in Seq(Nat) /\ Len(ring \o more) = Len(ring) + Len(more)
        /\ \A i \in 1..(Len(ring) + Len(more)) :
             (ring \o more)[i] = IF i <= Len(ring) THEN ring[i] ELSE more[i - Len(ring)]
    BY <1>2, <1>3, ConcatProperties
  <2> QED BY <2>1, <2>2
<1>5. \A i \in (Len(ring) + 1)..(Len(ring) + n) : i - Len(ring) \in 1..n
  BY <1>0, <1>1 DEF n
<1> QED BY <1>0, <1>1, <1>2, <1>3, <1>4, <1>5 DEF n

LEMMA NextDiskTyped == ASSUME Typed, [Next]_vars PROVE DiskTyped'
<1> USE DEF Typed, DiskTyped, disk
<1>1. ASSUME NEW t \in Threads, Put(t) PROVE DiskTyped'
  <2>1. open' \in BOOLEAN /\ UNCHANGED <<mFileWriterInvalid, drained, overlapped, interrupted>>
    BY <1>1 DEF Put
  <2>2. Len(ring') = Len(ring) + Written(t) /\ Written(t) <= Free /\ Written(t) \in Nat /\ Len(ring) \in Nat
        /\ ring' \in Seq(Nat) /\ drained \in 0..Len(ring)
    BY <1>1, PutRing
  <2>3. drained \in 0..Len(ring') /\ Len(ring') - drained <= RingSize
    BY <2>2, Constants DEF Free
  <2> QED BY <2>1, <2>2, <2>3
<1>2. ASSUME NEW t \in Threads, FindsTag(t) \/ Prints(t) \/ Measure(t) \/ Call(t) \/ Return(t)
                                \/ setupImpl(t) \/ setDefaultTag(t) \/ Started(t)
      PROVE  UNCHANGED <<mFileWriterInvalid, open, overlapped, interrupted, ring, drained>>
  BY <1>2 DEF FindsTag, Prints, NoTag, CacheGet, Walk, cacheTag, NotOff, Skip, Gate,
     internalPrintObject, internalPrintLog, PrintLine, Measure, Call, Return, setupImpl, setDefaultTag, Started
<1>3. ASSUME NEW t \in Threads, PrintToFile(t) \/ PrintFails(t) \/ Interrupted(t) PROVE DiskTyped'
  BY <1>3 DEF PrintToFile, PrintFails, Interrupted
<1>4. CASE setLogPriority \/ setAllowPrint \/ Trim
  BY <1>4 DEF setLogPriority, setAllowPrint, Trim
<1>5. CASE Drain
  BY <1>5, Constants DEF Drain
<1>6. CASE WriterFails
  BY <1>6 DEF WriterFails
<1>7. CASE UNCHANGED vars
  BY <1>7 DEF vars
<1> QED BY <1>1, <1>2, <1>3, <1>4, <1>5, <1>6, <1>7 DEF Next, Writes

(* A call begins.                                                          *)
LEMMA CallBegins ==
  ASSUME Typed, NEW t \in Threads, Call(t)
  PROVE  /\ \A u \in Threads \ {t} : call'[u] = call[u] /\ pc'[u] = pc[u]
         /\ pc[t] = "idle" /\ DOMAIN call' = Threads /\ pc' \in [Threads -> Active \union {"idle"}]
         /\ pc'[t] = IF call'[t].tag = <<>> /\ call'[t].logger.strategy = "default" THEN "find" ELSE "gate"
         /\ WellFormed(call'[t])
         /\ LET c == call'[t]
            IN  /\ c.lo = Now(c) /\ c.hi = Now(c) /\ c.on = FALSE /\ c.logcat = FALSE /\ c.file = FALSE
                /\ c.remaining = LineLen /\ c.frame = 0 /\ c.tag = c.asked
         /\ UNCHANGED <<config, finder, disk, faults>>
<1>0. DOMAIN call = Threads /\ DOMAIN pc = Threads /\ pc[t] = "idle" /\ calls + 1 \in Nat
  BY DEF Typed, CallsTyped, ConfigTyped, Call
<1>1. PICK c \in Calls, stack \in Stacks :
        call' = [call EXCEPT ![t] =
            [id |-> calls', logger |-> Served(t, c).logger, op |-> c.op, via |-> c.via, stack |-> stack,
             level |-> c.level, bad |-> c.bad,
             asked |-> Served(t, c).tag, tag |-> Served(t, c).tag,
             frame |-> 0, on |-> FALSE, writable |-> 0, remaining |-> LineLen,
             lo |-> BarOf(c.via, sCurrentLogPriority, allowPrint),
             hi |-> BarOf(c.via, sCurrentLogPriority, allowPrint),
             logcat |-> FALSE, file |-> FALSE]]
  BY DEF Call
<1>2. /\ DOMAIN call' = Threads /\ \A u \in Threads \ {t} : call'[u] = call[u]
      /\ call'[t] =
            [id |-> calls', logger |-> Served(t, c).logger, op |-> c.op, via |-> c.via, stack |-> stack,
             level |-> c.level, bad |-> c.bad,
             asked |-> Served(t, c).tag, tag |-> Served(t, c).tag,
             frame |-> 0, on |-> FALSE, writable |-> 0, remaining |-> LineLen,
             lo |-> BarOf(c.via, sCurrentLogPriority, allowPrint),
             hi |-> BarOf(c.via, sCurrentLogPriority, allowPrint),
             logcat |-> FALSE, file |-> FALSE]
  BY <1>0, <1>1
<1>3. /\ DOMAIN call'[t] = Fields
      /\ call'[t].id = calls + 1 /\ call'[t].logger = Served(t, c).logger /\ call'[t].via = c.via
      /\ call'[t].stack = stack /\ call'[t].level = c.level
      /\ call'[t].asked = call'[t].tag
      /\ call'[t].frame = 0 /\ call'[t].on = FALSE /\ call'[t].writable = 0 /\ call'[t].remaining = LineLen
      /\ call'[t].lo = Now(c) /\ call'[t].hi = Now(c) /\ call'[t].logcat = FALSE /\ call'[t].file = FALSE
  BY <1>2 DEF Call, Fields, Fixed, Working, Now
<1>4. Now(c) \in Int /\ Now(call'[t]) = Now(c)
  BY <1>3, NowInt DEF Now, Typed
<1>5. IF c.via = "LLog" THEN Served(t, c).logger = LLogger ELSE Served(t, c).logger \in Loggers
  BY DEF Served, LLogFront, SLogFront, LLogger, Typed, ConfigTyped
<1>6. FixedTyped(call'[t])
  BY <1>0, <1>3, <1>4, <1>5, Constants DEF FixedTyped
<1>7. WorkTyped(call'[t])
  <2>1. LineLen \in 0..LineLen /\ 0 \in Nat /\ FALSE \in BOOLEAN
    BY Constants
  <2> QED BY <1>3, <2>1, Zenon DEF WorkTyped
<1>8. /\ pc'[t] = IF call'[t].tag = <<>> /\ call'[t].logger.strategy = "default" THEN "find" ELSE "gate"
      /\ pc' \in [Threads -> Active \union {"idle"}] /\ \A u \in Threads \ {t} : pc'[u] = pc[u]
      /\ UNCHANGED <<config, finder, disk, faults>>
  BY <1>0 DEF Call, Typed, CallsTyped, Active
<1> QED BY <1>0, <1>2, <1>3, <1>4, <1>6, <1>7, <1>8 DEF WellFormed

(* What the steps of a call do to the fields it works on.                  *)
LEMMA NextWork ==
  ASSUME Typed, NEW t \in Threads, FindsTag(t) \/ Prints(t) \/ Writes(t)
  PROVE  WorkTyped(call'[t])
<1>0. /\ DOMAIN call = Threads /\ DOMAIN call[t] = Fields /\ WorkTyped(call[t]) /\ Moved(t)
  BY Moves DEF Typed, CallsTyped, WellFormed, Moved, Active, Filing
<1>1. ASSUME NEW tag, Tagged(t, tag) PROVE WorkTyped(call'[t])
  BY <1>0, <1>1, TaggedFields DEF WorkTyped, Fields, Fixed, Working
<1>2. ASSUME Answered(t) PROVE WorkTyped(call'[t])
  BY <1>0, <1>2, AnsweredFields DEF WorkTyped, Fields, Fixed, Working
<1>3. CASE NoTag(t)
  BY <1>1, <1>3 DEF NoTag
<1>4. CASE CacheGet(t) \/ cacheTag(t)
  <2>1. PICK tag : Found(t, tag)
    BY <1>4 DEF CacheGet, cacheTag
  <2>2. CASE call' = [call EXCEPT ![t].frame = @ + 1]
    BY <1>0, <2>2 DEF WorkTyped, Fields, Fixed, Working
  <2> QED BY <1>1, <2>1, <2>2, FoundSteps
<1>5. CASE Walk(t) \/ NotOff(t)
  <2>1. CASE Walk(t)
    BY <1>0, <2>1 DEF Walk, WorkTyped, Fields, Fixed, Working
  <2>2. CASE NotOff(t)
    BY <1>0, <2>2 DEF NotOff, WorkTyped, Fields, Fixed, Working
  <2> QED BY <1>5, <2>1, <2>2
<1>6. CASE Skip(t) \/ internalPrintObject(t) \/ internalPrintLog(t)
  BY <1>2, <1>6 DEF Skip, internalPrintObject, internalPrintLog
<1>7. CASE Gate(t)
  <2>1. CASE call' = [call EXCEPT ![t].on = FALSE, ![t].tag = <<"at", getStackTrace(call[t])>>]
    BY <1>0, <2>1 DEF WorkTyped, Fields, Fixed, Working
  <2> QED BY <1>2, <1>7, <2>1, GateSteps
<1>8. CASE PrintLine(t)
  <2>1. isPrintable(t) \in BOOLEAN
    BY DEF isPrintable, Typed, ConfigTyped
  <2> QED BY <1>0, <1>8, <2>1 DEF PrintLine, WorkTyped, Fields, Fixed, Working
<1>9. CASE PrintToFile(t) \/ PrintFails(t) \/ Interrupted(t)
  BY <1>0, <1>9 DEF PrintToFile, PrintFails, Interrupted, WorkTyped
<1>10. CASE Measure(t)
  <2>1. Free \in Nat
    BY Constants DEF Free, Typed, DiskTyped
  <2>2. Writable(call[t]) \in Nat
    BY <1>0, <2>1 DEF Writable, WorkTyped
  <2> QED BY <1>0, <1>10, <2>2 DEF Measure, WorkTyped, Fields, Fixed, Working
<1>11. CASE Put(t)
  <2> DEFINE rest == call[t].remaining - Written(t)
  <2>1. call' = [call EXCEPT ![t].remaining = rest, ![t].file = (rest = 0)]
    BY <1>11 DEF Put, Written
  <2>2. DOMAIN call'[t] = Fields /\ call'[t].remaining = rest /\ call'[t].file = (rest = 0)
        /\ \A f \in Fields \ {"remaining", "file"} : call'[t][f] = call[t][f]
    BY <1>0, <2>1 DEF Fields, Working
  <2>3. rest \in 0..LineLen
    <3>1. Written(t) \in Nat /\ Written(t) <= call[t].writable
      BY <1>0, <1>11, PutRing DEF Written, WorkTyped
    <3>2. call[t].writable <= call[t].remaining
      BY <1>11 DEF Put, Typed, Measured
    <3> QED BY <1>0, <3>1, <3>2, Constants DEF WorkTyped
  <2> HIDE DEF rest
  <2>4. (rest = 0) \in BOOLEAN
    OBVIOUS
  <2> QED BY <1>0, <2>2, <2>3, <2>4, Zenon DEF WorkTyped, Fields, Fixed, Working
<1> QED BY <1>3, <1>4, <1>5, <1>6, <1>7, <1>8, <1>9, <1>10, <1>11 DEF FindsTag, Prints, Writes

(* No more is put than remains.                                            *)
LEMMA NextMeasured == ASSUME Typed, NEW t \in Threads, FindsTag(t) \/ Prints(t) \/ Writes(t) PROVE Measured'
<1>0. /\ DOMAIN call = Threads /\ DOMAIN call[t] = Fields /\ WorkTyped(call[t]) /\ Moved(t) /\ DOMAIN pc = Threads
  BY Moves DEF Typed, CallsTyped, WellFormed, Moved, Active, Filing
<1>1. pc'[t] = "put" => call'[t].writable <= call'[t].remaining
  <2>1. CASE Measure(t)
    <3>1. Free \in Nat /\ Writable(call[t]) <= call[t].remaining
      BY <1>0, Constants DEF Free, Writable, Typed, DiskTyped, WorkTyped
    <3> QED BY <1>0, <2>1, <3>1 DEF Measure, Fields, Working
  <2>2. CASE ~Measure(t)
    <3>1. LaidOut(call[t]) # "put"
      BY DEF LaidOut
    <3>2. pc'[t] # "put"
      BY <1>0, <2>2, <3>1, FoundSteps, GateSteps DEF FindsTag, Prints, Writes, NoTag, CacheGet, Walk, cacheTag,
         NotOff, Asks, Skip, internalPrintObject, internalPrintLog, PrintLine, PrintToFile, Interrupted, Put, PrintFails, Goto
    <3> QED BY <3>2
  <2> QED BY <2>1, <2>2
<1> QED BY <1>0, <1>1 DEF Measured, Moved, Typed

LEMMA NextCallsTyped == ASSUME Typed, [Next]_vars PROVE CallsTyped' /\ Measured'
<1>0. ConfigTyped' /\ CallsTyped /\ Measured
  BY NextConfigTyped DEF Typed
<1>1. ASSUME NEW t \in Threads, FindsTag(t) \/ Prints(t) \/ Writes(t) PROVE CallsTyped' /\ Measured'
  <2>1. Moved(t) /\ WorkTyped(call'[t]) /\ Measured' /\ FixedTyped(call[t])
    BY <1>0, <1>1, Moves, NextWork, NextMeasured DEF Moved, CallsTyped, WellFormed, Active, Filing
  <2>2. FixedTyped(call'[t])
    BY <2>1 DEF Moved, FixedTyped, Fixed
  <2>3. pc'[t] # "idle"
    BY <2>1 DEF Moved, Active, Filing
  <2> QED BY <1>0, <2>1, <2>2, <2>3 DEF Moved, CallsTyped, WellFormed
<1>2. ASSUME NEW t \in Threads, Call(t) PROVE CallsTyped' /\ Measured'
  <2>1. pc'[t] # "idle" /\ pc'[t] # "put"
    BY <1>2, CallBegins
  <2> QED BY <1>0, <1>2, <2>1, CallBegins DEF CallsTyped, Measured
<1>3. ASSUME NEW t \in Threads, Return(t) PROVE CallsTyped' /\ Measured'
  BY <1>0, <1>3 DEF Return, Goto, CallsTyped, Measured
<1>4. CASE Remembered /\ UNCHANGED pc
  <2>1. DOMAIN call' = Threads
    BY <1>0, <1>4, RememberedFields
  <2>2. ASSUME NEW t \in Threads, pc[t] # "idle"
        PROVE  WellFormed(call'[t]) /\ call'[t].writable = call[t].writable /\ call'[t].remaining = call[t].remaining
    <3>1. WellFormed(call[t])
      BY <1>0, <2>2 DEF CallsTyped
    <3>2. /\ DOMAIN call'[t] = Fields /\ \A f \in Fields \ {"lo", "hi"} : call'[t][f] = call[t][f]
          /\ call'[t].lo \in Int /\ call'[t].hi \in Int
      BY <1>0, <1>4, <2>2, RememberedFields
    <3>3. FixedTyped(call'[t])
      BY <3>1, <3>2 DEF WellFormed, FixedTyped, Fields, Fixed
    <3>4. WorkTyped(call'[t])
      BY <3>1, <3>2 DEF WellFormed, WorkTyped, Fields, Working
    <3> QED BY <3>2, <3>3, <3>4 DEF WellFormed, Fields, Working
  <2>3. \A t \in Threads : pc[t] = "idle" => call'[t] = <<>>
    BY <1>0, <1>4, RememberedFields
  <2> QED BY <1>0, <1>4, <2>1, <2>2, <2>3 DEF CallsTyped, Measured
<1>5. CASE UNCHANGED <<pc, call>>
  BY <1>0, <1>5 DEF CallsTyped, Measured
<1>6. ASSUME NEW t \in Threads, setupImpl(t) \/ setDefaultTag(t) \/ Started(t) PROVE UNCHANGED <<pc, call>>
  BY <1>6 DEF setupImpl, setDefaultTag, Started
<1>7. setLogPriority \/ setAllowPrint => Remembered /\ UNCHANGED pc
  BY DEF setLogPriority, setAllowPrint
<1>8. Trim \/ Drain \/ WriterFails \/ UNCHANGED vars => UNCHANGED <<pc, call>>
  BY DEF Trim, Drain, WriterFails, vars
<1> QED BY <1>1, <1>2, <1>3, <1>4, <1>5, <1>6, <1>7, <1>8 DEF Next

LEMMA InitTyped == ASSUME Init PROVE Typed
<1>1. ConfigTyped
  BY DEF Init, ConfigTyped
<1>2. DiskTyped
  <2>1. ring = <<>> /\ drained = 0 /\ mFileWriterInvalid = FALSE /\ open = TRUE /\ overlapped = FALSE
        /\ interrupted = FALSE
    BY DEF Init
  <2>2. ring \in Seq(Nat) /\ Len(ring) = 0
    BY <2>1
  <2>3. drained \in 0..Len(ring) /\ Len(ring) - drained <= RingSize
    BY <2>1, <2>2, Constants
  <2> QED BY <2>1, <2>2, <2>3 DEF DiskTyped
<1>3. CallsTyped /\ Measured
  BY DEF Init, CallsTyped, Measured
<1> QED BY <1>1, <1>2, <1>3 DEF Typed

LEMMA NextTyped == ASSUME Typed, [Next]_vars PROVE Typed'
BY NextConfigTyped, NextDiskTyped, NextCallsTyped DEF Typed

(* Every call keeps its shape, and the disk printer's ring its bounds.     *)
THEOREM TypesKept == Spec => []Typed
<1>1. Init => Typed
  BY InitTyped
<1>2. Typed /\ [Next]_vars => Typed'
  BY NextTyped
<1> QED BY <1>1, <1>2, PTL DEF Spec

-----------------------------------------------------------------------------
(* The level.                                                              *)

(* The bars of a call span all there were during it; what is printed has   *)
(* passed; what all bars allow is not skipped.                             *)
Spanned(c) ==
  /\ c.lo <= Now(c) /\ Now(c) <= c.hi /\ c.hi <= Bar(OFF)
  /\ c.on => c.lo < Bar(OFF) /\ c.via # "LLog"
Passed(c) == c.lo < Bar(OFF) /\ (LineLevel(c) >= c.lo \/ c.hi = Bar(OFF))
Wanted(c) ==
  LineLevel(c) >= c.hi /\ c.level >= c.hi /\ (c.logger.strategy = "trace" => DEBUG >= c.hi)
Levelled(t) == pc[t] # "idle" =>
  /\ Spanned(call[t])
  /\ pc[t] = "object" => Tracing(t)
  /\ Printed(call[t]) => pc[t] \in Filing \union {"done"}
  /\ pc[t] \in Filing \union {"print"} \/ Printed(call[t]) => Passed(call[t])
  /\ pc[t] \in Filing \union {"done"} /\ Wanted(call[t])
       => call[t].logger.printer = "disk" \/ call[t].logcat
  /\ pc[t] = "done" /\ Wanted(call[t]) /\ call[t].logger.printer = "disk" => call[t].file \/ ~open
  /\ pc[t] = "fail" => ~open
Levels == (\A t \in Threads : Levelled(t)) /\ (mFileWriterInvalid => ~open)

LEMMA LevelValues ==
  ASSUME Typed, NEW t \in Threads, pc[t] # "idle"
  PROVE  /\ Level(t) \in 2..7 /\ LineLevel(call[t]) \in 2..7 /\ call[t].level \in 2..7
         /\ call[t].lo \in Int /\ call[t].hi \in Int /\ Now(call[t]) \in Int /\ Now(call[t]) <= Bar(OFF)
         /\ call[t].via = "LLog" => Tracing(t) /\ call[t].logger = LLogger
<1>1. WellFormed(call[t])
  BY DEF Typed, CallsTyped
<1>2. call[t].level \in 2..7 /\ call[t].lo \in Int /\ call[t].hi \in Int
      /\ (call[t].via = "LLog" => Tracing(t) /\ call[t].logger = LLogger)
  BY <1>1 DEF WellFormed, FixedTyped, Priorities, Tracing, LLogger
<1>3. Level(t) \in 2..7 /\ LineLevel(call[t]) \in 2..7
  BY <1>2 DEF Level, LineLevel, DEBUG, ERROR
<1> QED BY <1>2, <1>3, NowInt DEF Typed

(* A test passed: some bar allows the level, or logging was turned off.    *)
LEMMA TestPassed ==
  ASSUME Typed, NEW t \in Threads, pc[t] # "idle", Spanned(call[t]), isPrintable(t)
  PROVE  call[t].lo < Bar(OFF) /\ (Level(t) >= call[t].lo \/ call[t].hi = Bar(OFF))
<1>1. CASE call[t].via = "LLog"
  <2>1. Now(call[t]) = 0
    BY <1>1 DEF isPrintable, Now, BarOf
  <2> QED BY <2>1, LevelValues DEF Spanned, Bar, OFF
<1>2. CASE call[t].via # "LLog"
  <2>1. call[t].on /\ Level(t) >= sCurrentLogPriority /\ Now(call[t]) = Bar(sCurrentLogPriority)
    BY <1>2 DEF isPrintable, Reaches, Now, BarOf
  <2>2. sCurrentLogPriority = OFF \/ Bar(sCurrentLogPriority) = sCurrentLogPriority
    BY DEF Bar
  <2>3. CASE sCurrentLogPriority = OFF
    BY <2>1, <2>3, LevelValues DEF Spanned, Bar, OFF
  <2>4. CASE Bar(sCurrentLogPriority) = sCurrentLogPriority
    BY <2>1, <2>4, LevelValues DEF Spanned
  <2> QED BY <2>2, <2>3, <2>4
<1> QED BY <1>1, <1>2

(* A test failed: some bar is above the level.                             *)
LEMMA TestFailed ==
  ASSUME Typed, NEW t \in Threads, pc[t] # "idle", Spanned(call[t]), NotPrintable(t)
  PROVE  Level(t) < call[t].hi
<1>1. CASE Now(call[t]) = Bar(OFF)
  BY <1>1, LevelValues DEF Spanned, Bar, OFF
<1>2. CASE call[t].via # "LLog" /\ call[t].on
  <2>1. ~(Level(t) >= sCurrentLogPriority) /\ Now(call[t]) = Bar(sCurrentLogPriority)
    BY <1>2 DEF NotPrintable, Reaches, Now, BarOf
  <2>2. sCurrentLogPriority # OFF => Bar(sCurrentLogPriority) = sCurrentLogPriority /\ sCurrentLogPriority \in Int
    BY Constants DEF Bar, Typed, ConfigTyped, Priorities
  <2>3. sCurrentLogPriority # OFF
    BY <2>1, LevelValues DEF OFF
  <2> QED BY <2>1, <2>2, <2>3, LevelValues DEF Spanned
<1>3. CASE call[t].via = "LLog"
  <2>1. ~allowPrint
    BY <1>3 DEF NotPrintable, Spanned
  <2> QED BY <1>1, <1>3, <2>1 DEF Now, BarOf
<1>4. CASE call[t].via # "LLog" /\ ~call[t].on
  <2>1. sCurrentLogPriority = OFF
    BY <1>4 DEF NotPrintable
  <2> QED BY <1>1, <1>4, <2>1 DEF Now, BarOf, Bar
<1> QED BY <1>2, <1>3, <1>4

(* What a step of thread t must show of its own call.                      *)
Kept(t) ==
  /\ call'[t].on => call[t].lo < Bar(OFF) /\ call[t].via # "LLog"
  /\ pc'[t] = "object" => Tracing(t)
  /\ Printed(call'[t]) => pc'[t] \in Filing \union {"done"}
  /\ pc'[t] \in Filing \union {"print"} \/ Printed(call'[t]) => Passed(call[t])
  /\ pc'[t] \in Filing \union {"done"} /\ Wanted(call[t])
       => call[t].logger.printer = "disk" \/ call'[t].logcat
  /\ pc'[t] = "done" /\ Wanted(call[t]) /\ call[t].logger.printer = "disk" => call'[t].file \/ ~open'
  /\ pc'[t] = "fail" => ~open'
  /\ mFileWriterInvalid' => ~open'
  /\ open' => open

(* A step before the printing, or a test.                                  *)
LEMMA KeptBefore ==
  ASSUME NEW t \in Threads, Levels, pc[t] # "idle", pc[t] \notin Filing \union {"done"},
         pc'[t] \in {"find", "cache", "gate", "level", "object"}, pc'[t] = "object" => Tracing(t),
         call'[t].logcat = call[t].logcat, call'[t].file = call[t].file, call'[t].on \in {call[t].on, FALSE},
         UNCHANGED disk
  PROVE  Kept(t)
BY DEF Levels, Levelled, Kept, Printed, Spanned, Filing, disk

LEMMA TestsKeep == ASSUME Typed, Levels, NEW t \in Threads, Prints(t) PROVE Kept(t)
<1>0. /\ pc[t] # "idle" /\ Moved(t) /\ DOMAIN call[t] = Fields /\ DOMAIN call = Threads /\ DOMAIN pc = Threads
      /\ pc[t] \notin Filing \union {"done"} /\ ~Printed(call[t]) /\ UNCHANGED disk
      /\ {"on", "logcat", "file", "tag", "logger"} \subseteq Fields
  <2>1. Moved(t) /\ CallsTyped
    BY Moves DEF Typed
  <2>2. pc[t] \notin Filing \union {"done"} /\ UNCHANGED disk
    BY DEF Prints, NotOff, Asks, Skip, Gate, internalPrintObject, internalPrintLog, PrintLine, Filing
  <2>3. pc[t] # "idle"
    BY <2>1 DEF Moved, Active, Filing
  <2> QED BY <2>1, <2>2, <2>3 DEF Moved, Active, CallsTyped, WellFormed, Levels, Levelled, Fields, Fixed, Working
<1>1. Spanned(call[t]) /\ (mFileWriterInvalid => ~open) /\ (pc[t] = "object" => Tracing(t))
      /\ (pc[t] = "print" => Passed(call[t]))
  BY <1>0 DEF Levels, Levelled
<1>2. Answered(t) => /\ call'[t].on = FALSE /\ call'[t].logcat = call[t].logcat /\ call'[t].file = call[t].file
  BY <1>0, AnsweredFields
<1>3. CASE NotOff(t)
  <2>1. /\ call'[t].logcat = call[t].logcat /\ call'[t].file = call[t].file
        /\ pc'[t] = pc[t] /\ pc[t] \in {"gate", "object", "level", "print"}
    BY <1>0, <1>3 DEF NotOff, Asks
  <2>2. Now(call[t]) = sCurrentLogPriority /\ sCurrentLogPriority \in 2..7
    BY <1>3, Constants DEF NotOff, Now, BarOf, Bar, Typed, ConfigTyped, Priorities
  <2>3. call[t].lo < Bar(OFF) /\ call[t].via # "LLog"
    BY <1>0, <1>1, <1>3, <2>2, LevelValues DEF NotOff, Spanned, Bar, OFF
  <2> QED BY <1>0, <1>1, <2>1, <2>3 DEF Kept, Printed, Filing, disk
<1>4. CASE Skip(t)
  <2>1. pc[t] \in {"gate", "object", "level"} /\ Answered(t) /\ pc'[t] = "done"
    BY <1>0, <1>4 DEF Skip, Goto
  <2>2. Level(t) < call[t].hi
    BY <1>0, <1>1, <1>4, TestFailed DEF Skip
  <2>3. ~Wanted(call[t])
    <3>1. Wanted(call[t]) => Level(t) >= call[t].hi
      BY <1>1, <2>1 DEF Level, Wanted, Tracing
    <3> QED BY <1>0, <2>2, <3>1, LevelValues
  <2> QED BY <1>0, <1>1, <1>2, <2>1, <2>3 DEF Kept, Printed, Filing, disk
<1>5. CASE Gate(t)
  <2>1. CASE ~Tracing(t) /\ Answered(t) /\ Goto(t, "print")
    <3>1. pc[t] = "gate" /\ call[t].via # "LLog"
      BY <1>0, <1>5, <2>1, LevelValues DEF Gate
    <3>2. isPrintable(t) /\ Level(t) = LineLevel(call[t])
      BY <1>5, <2>1, <3>1 DEF Gate, Asks, Level, LineLevel, Tracing
    <3>3. Passed(call[t])
      BY <1>0, <1>1, <3>2, TestPassed DEF Passed
    <3>4. pc'[t] = "print"
      BY <1>0, <2>1 DEF Goto
    <3> QED BY <1>0, <1>1, <1>2, <2>1, <3>3, <3>4 DEF Kept, Printed, Filing, disk
  <2>2. CASE Tracing(t)
    <3>1. Goto(t, "find") \/ Goto(t, LaidOut(call[t]))
      BY <1>5, <2>2, GateSteps
    <3>2. pc'[t] \in {"find", "object", "level"}
      BY <1>0, <3>1 DEF Goto, LaidOut
    <3>3. call'[t].on = FALSE /\ call'[t].logcat = call[t].logcat /\ call'[t].file = call[t].file
      <4>1. CASE call' = [call EXCEPT ![t].on = FALSE, ![t].tag = <<"at", getStackTrace(call[t])>>]
        BY <1>0, <4>1 DEF Fields, Working
      <4> QED BY <1>2, <1>5, <2>2, <4>1, GateSteps
    <3> QED BY <1>0, <2>2, <3>2, <3>3, KeptBefore
  <2> QED BY <1>5, <2>1, <2>2, GateSteps
<1>6. CASE internalPrintObject(t)
  <2>1. pc'[t] = "level" /\ Answered(t)
    BY <1>0, <1>6 DEF internalPrintObject, Goto
  <2> QED BY <1>0, <1>2, <2>1, KeptBefore
<1>7. CASE internalPrintLog(t)
  <2>1. pc'[t] = "print" /\ Answered(t) /\ isPrintable(t) /\ Level(t) = LineLevel(call[t])
    BY <1>0, <1>7 DEF internalPrintLog, Goto, Level
  <2>2. Passed(call[t])
    BY <1>0, <1>1, <2>1, TestPassed DEF Passed
  <2> QED BY <1>0, <1>1, <1>2, <2>1, <2>2 DEF Kept, Printed, Filing, disk
<1>8. CASE PrintLine(t)
  <2>1. /\ pc'[t] \in {"done", "file"} /\ (pc'[t] = "done" => call[t].logger.printer \in {"logcat", "llog"})
        /\ call'[t].on = FALSE /\ call'[t].logcat = isPrintable(t) /\ call'[t].file = call[t].file
        /\ pc[t] = "print"
    BY <1>0, <1>8 DEF PrintLine, Goto
  <2>2. Wanted(call[t]) => ~NotPrintable(t)
    <3>1. Level(t) = LineLevel(call[t])
      BY <2>1 DEF Level
    <3>2. NotPrintable(t) => Level(t) < call[t].hi
      BY <1>0, <1>1, TestFailed
    <3> QED BY <1>0, <3>1, <3>2, LevelValues DEF Wanted
  <2>3. Wanted(call[t]) => call[t].logger.printer = "disk" \/ call'[t].logcat
    BY <1>8, <2>1, <2>2 DEF PrintLine, Asks
  <2>4. pc'[t] = "done" => call[t].logger.printer # "disk"
    BY <2>1
  <2> QED BY <1>0, <1>1, <2>1, <2>3, <2>4 DEF Kept, Printed, Filing, disk
<1> QED BY <1>3, <1>4, <1>5, <1>6, <1>7, <1>8 DEF Prints
LEMMA SearchesKeep == ASSUME Typed, Levels, NEW t \in Threads, FindsTag(t) PROVE Kept(t)
<1>0. /\ pc[t] \in {"find", "cache"} /\ Moved(t) /\ DOMAIN call[t] = Fields /\ DOMAIN call = Threads
      /\ DOMAIN pc = Threads /\ UNCHANGED disk /\ {"on", "logcat", "file"} \subseteq Fields \ {"tag", "frame"}
  <2>1. Moved(t) /\ CallsTyped
    BY Moves DEF Typed
  <2>2. pc[t] \in {"find", "cache"} /\ UNCHANGED disk
    BY DEF FindsTag, NoTag, CacheGet, Walk, cacheTag
  <2> QED BY <2>1, <2>2 DEF Moved, CallsTyped, WellFormed, Fields, Fixed, Working
<1>1. pc'[t] \in {"find", "cache", "gate", "level", "object"} /\ (pc'[t] = "object" => Tracing(t))
  <2>1. CASE NoTag(t) \/ Walk(t)
    BY <1>0, <2>1 DEF NoTag, Walk, Goto
  <2>2. ASSUME NEW tag, Found(t, tag)
        PROVE  pc'[t] \in {"find", "cache", "gate", "level", "object"} /\ (pc'[t] = "object" => Tracing(t))
    BY <1>0, <2>2, FoundSteps DEF Goto, LaidOut
  <2> QED BY <2>1, <2>2 DEF FindsTag, CacheGet, cacheTag
<1>2. call'[t].logcat = call[t].logcat /\ call'[t].file = call[t].file /\ call'[t].on = call[t].on
  <2>1. ASSUME NEW tag, Tagged(t, tag) PROVE <1>2
    BY <1>0, <2>1, TaggedFields
  <2>2. CASE call' = [call EXCEPT ![t].frame = @ + 1]
    BY <1>0, <2>2 DEF Fields, Working
  <2>3. CASE Walk(t)
    BY <1>0, <2>3 DEF Walk, Fields, Working
  <2>4. ASSUME NEW tag, Found(t, tag) PROVE <1>2
    BY <2>1, <2>2, <2>4, FoundSteps
  <2> QED BY <2>1, <2>3, <2>4 DEF FindsTag, NoTag, CacheGet, cacheTag
<1> QED BY <1>0, <1>1, <1>2, KeptBefore DEF Filing

LEMMA WritesKeep == ASSUME Typed, Levels, NEW t \in Threads, Writes(t) PROVE Kept(t)
<1>0. /\ pc[t] \in Filing /\ Moved(t) /\ DOMAIN call[t] = Fields /\ DOMAIN call = Threads
      /\ DOMAIN pc = Threads /\ Levelled(t) /\ (mFileWriterInvalid => ~open) /\ pc[t] # "idle"
  BY Moves DEF Writes, PrintToFile, Measure, Interrupted, Put, PrintFails, Filing, Typed, CallsTyped, WellFormed,
     Moved, Active, Levels
<1>1. /\ call'[t].on = call[t].on /\ call'[t].logcat = call[t].logcat
  <2>1. CASE call' = call
    BY <2>1
  <2>2. CASE Measure(t)
    BY <1>0, <2>2 DEF Measure, Fields, Working
  <2>3. CASE Put(t)
    <3>1. PICK x, y : call' = [call EXCEPT ![t].remaining = x, ![t].file = y]
      BY <2>3 DEF Put
    <3> QED BY <1>0, <3>1 DEF Fields, Working
  <2> QED BY <2>1, <2>2, <2>3 DEF Writes, PrintToFile, Interrupted, PrintFails
<1>2. /\ pc'[t] \in Filing \union {"done"} /\ (pc'[t] = "done" => call'[t].file \/ ~open')
      /\ (pc'[t] = "fail" => ~open') /\ (mFileWriterInvalid' => ~open') /\ (open' => open)
  <2>1. CASE PrintToFile(t)
    BY <1>0, <2>1 DEF PrintToFile, Goto, Filing
  <2>2. CASE Measure(t)
    BY <1>0, <2>2 DEF Measure, Goto, Filing, disk
  <2>3. CASE Put(t)
    <3> DEFINE rest == call[t].remaining - Written(t)
    <3>1. /\ call' = [call EXCEPT ![t].remaining = rest, ![t].file = (rest = 0)]
          /\ Goto(t, IF rest = 0 THEN "done" ELSE "measure")
          /\ open' = (open /\ Written(t) = call[t].writable) /\ mFileWriterInvalid' = mFileWriterInvalid
      BY <2>3 DEF Put, Written
    <3>2. call'[t].file = (rest = 0)
      BY <1>0, <3>1 DEF Fields, Working
    <3> HIDE DEF rest
    <3> QED BY <1>0, <3>1, <3>2 DEF Goto, Filing
  <2>4. CASE PrintFails(t)
    BY <1>0, <2>4 DEF PrintFails, Goto, Filing
  <2>5. CASE Interrupted(t)
    BY <1>0, <2>5 DEF Interrupted
  <2> QED BY <2>1, <2>2, <2>3, <2>4, <2>5 DEF Writes
<1> QED BY <1>0, <1>1, <1>2 DEF Kept, Levelled, Spanned, Filing

(* A call that a step leaves alone.                                        *)
LEMMA OtherLevelled ==
  ASSUME NEW u \in Threads, Levelled(u), call'[u] = call[u], pc'[u] = pc[u], UNCHANGED config, open' => open
  PROVE  Levelled(u)'
BY DEF Levelled, Spanned, Passed, Wanted, Printed, LineLevel, Now, Tracing, config

(* That is enough.                                                         *)
LEMMA KeptIsEnough ==
  ASSUME Typed, Levels, NEW t \in Threads, Moved(t), Kept(t), UNCHANGED config
  PROVE  Levels'
<1>1. ASSUME NEW u \in Threads \ {t} PROVE Levelled(u)'
  BY <1>1, OtherLevelled DEF Levels, Moved, Kept
<1>2. Levelled(t)'
  <2>1. /\ call'[t].lo = call[t].lo /\ call'[t].hi = call[t].hi /\ call'[t].via = call[t].via
        /\ call'[t].logger = call[t].logger /\ call'[t].level = call[t].level /\ call'[t].bad = call[t].bad
    BY DEF Moved, Fixed
  <2>2. Spanned(call[t]) /\ Now(call[t])' = Now(call[t])
    BY <2>1 DEF Levels, Levelled, Moved, Active, Filing, Now, config
  <2>3. Passed(call[t])' = Passed(call[t]) /\ Wanted(call[t])' = Wanted(call[t])
    BY <2>1 DEF Passed, Wanted, LineLevel
  <2>4. Spanned(call[t])' /\ (Printed(call[t])' <=> Printed(call'[t]))
    BY <2>1, <2>2 DEF Spanned, Kept, Printed
  <2> QED BY <2>1, <2>3, <2>4 DEF Levelled, Kept, Tracing
<1> QED BY <1>1, <1>2 DEF Levels, Kept

LEMMA NextLevels == ASSUME Typed, Levels, [Next]_vars PROVE Levels'
<1>0. Typed' /\ CallsTyped /\ ConfigTyped'
  BY NextTyped DEF Typed
<1>1. ASSUME NEW t \in Threads, FindsTag(t) \/ Prints(t) \/ Writes(t) PROVE Levels'
  <2>1. UNCHANGED config
    BY <1>1 DEF FindsTag, Prints, Writes, NoTag, CacheGet, Walk, cacheTag, NotOff, Skip, Gate,
       internalPrintObject, internalPrintLog, PrintLine, PrintToFile, Measure, Interrupted, Put, PrintFails
  <2> QED BY <1>0, <1>1, <2>1, Moves, TestsKeep, SearchesKeep, WritesKeep, KeptIsEnough
<1>2. ASSUME NEW t \in Threads, Call(t) PROVE Levels'
  <2>1. ASSUME NEW u \in Threads \ {t} PROVE Levelled(u)'
    <3>1. call'[u] = call[u] /\ pc'[u] = pc[u] /\ UNCHANGED config /\ open' = open
      BY <1>2, CallBegins DEF disk
    <3> QED BY <3>1, OtherLevelled DEF Levels
  <2>2. Levelled(t)'
    <3>1. /\ call'[t].lo = Now(call'[t]) /\ call'[t].hi = Now(call'[t]) /\ call'[t].on = FALSE
          /\ call'[t].logcat = FALSE /\ call'[t].file = FALSE /\ pc'[t] \in {"find", "gate"} /\ UNCHANGED config
      BY <1>2, CallBegins
    <3>2. Now(call[t])' = Now(call'[t]) /\ Now(call'[t]) \in Int /\ Now(call'[t]) <= Bar(OFF)
      BY <3>1, NowInt DEF Now, config, Typed
    <3> QED BY <3>1, <3>2 DEF Levelled, Spanned, Printed, Filing
  <2> QED BY <1>2, <2>1, <2>2, CallBegins DEF Levels, disk
<1>3. CASE Remembered /\ UNCHANGED <<pc, disk>>
  <2>1. ASSUME NEW t \in Threads, pc[t] # "idle" PROVE Levelled(t)'
    <3>1. /\ \A f \in Fields \ {"lo", "hi"} : call'[t][f] = call[t][f]
          /\ call'[t].lo \in Int /\ call'[t].lo <= call[t].lo /\ call'[t].lo <= Now(call[t])'
          /\ call'[t].hi \in Int /\ call'[t].hi >= call[t].hi /\ call'[t].hi >= Now(call[t])'
          /\ call'[t].hi \in {call[t].hi, Now(call[t])'}
      BY <1>0, <1>3, <2>1, RememberedFields
    <3>2. /\ call'[t].via = call[t].via /\ call'[t].logger = call[t].logger /\ call'[t].level = call[t].level
          /\ call'[t].bad = call[t].bad /\ call'[t].on = call[t].on /\ call'[t].logcat = call[t].logcat
          /\ call'[t].file = call[t].file
      BY <3>1 DEF Fields, Fixed, Working
    <3>3. /\ LineLevel(call[t]) \in 2..7 /\ call[t].level \in 2..7 /\ call[t].lo \in Int /\ call[t].hi \in Int
          /\ Spanned(call[t]) /\ LineLevel(call'[t]) = LineLevel(call[t])
      <4>1. LineLevel(call'[t]) = LineLevel(call[t])
        BY <3>2 DEF LineLevel
      <4>2. Spanned(call[t])
        BY <2>1 DEF Levels, Levelled
      <4>3. LineLevel(call[t]) \in 2..7 /\ call[t].level \in 2..7 /\ call[t].lo \in Int /\ call[t].hi \in Int
        <5>1. WellFormed(call[t])
          BY <2>1 DEF Typed, CallsTyped
        <5>2. call[t].level \in 2..7 /\ call[t].lo \in Int /\ call[t].hi \in Int
          BY <5>1 DEF WellFormed, FixedTyped, Priorities
        <5> QED BY <5>2 DEF LineLevel, DEBUG, ERROR
      <4> QED BY <4>1, <4>2, <4>3
    <3>4. Now(call[t])' \in Int /\ Now(call[t])' <= Bar(OFF)
      BY <1>0, Constants DEF Now, BarOf, Bar, OFF, Priorities, ConfigTyped
    <3>5. Spanned(call[t])'
      BY <3>1, <3>2, <3>3, <3>4 DEF Spanned, Bar, OFF
    <3>6. Passed(call[t]) => Passed(call'[t])
      BY <3>1, <3>3, <3>5 DEF Passed, Spanned, Bar, OFF
    <3>7. Wanted(call'[t]) => Wanted(call[t])
      BY <3>1, <3>2, <3>3 DEF Wanted, DEBUG
    <3> QED BY <1>3, <2>1, <3>2, <3>5, <3>6, <3>7 DEF Levels, Levelled, Printed, Tracing, disk
  <2>2. \A t \in Threads : pc[t] = "idle" => Levelled(t)'
    BY <1>3 DEF Levelled
  <2> QED BY <1>3, <2>1, <2>2 DEF Levels, disk
<1>4. ASSUME NEW t \in Threads, Return(t) PROVE Levels'
  BY <1>0, <1>4 DEF Return, Goto, CallsTyped, Levels, Levelled, Spanned, Passed, Wanted, Printed, LineLevel, Now,
     Tracing, config, disk
<1>5. CASE UNCHANGED <<pc, call, sCurrentLogPriority, allowPrint, mFileWriterInvalid>> /\ (open' => open)
  BY <1>5 DEF Levels, Levelled, Spanned, Passed, Wanted, Printed, LineLevel, Now, Tracing
<1>6. ASSUME NEW t \in Threads, setupImpl(t) \/ setDefaultTag(t) \/ Started(t) PROVE Levels'
  BY <1>5, <1>6 DEF setupImpl, setDefaultTag, Started, config, disk
<1>7. setLogPriority \/ setAllowPrint => Remembered /\ UNCHANGED <<pc, disk>>
  BY DEF setLogPriority, setAllowPrint
<1>8. Trim \/ Drain \/ WriterFails \/ UNCHANGED vars => Levels'
  BY <1>5 DEF Trim, Drain, WriterFails, vars, config, disk
<1> QED BY <1>1, <1>2, <1>3, <1>4, <1>6, <1>7, <1>8 DEF Next

(* While the level and LLog's switch are changed by others, a line is      *)
(* printed only if some level in force during its call allowed it, and it  *)
(* is printed if all of them did.                                          *)
(* Code: isPrintable of LogcatPrinter and SimpleDiskPrinter, its callers.  *)
THEOREM LevelKept == Spec => []LevelRespected
<1>1. Init => Typed /\ Levels
  <2> SUFFICES ASSUME Init PROVE Typed /\ Levels
    OBVIOUS
  <2> QED BY InitTyped DEF Init, Levels, Levelled
<1>2. Typed /\ Levels /\ [Next]_vars => (Typed /\ Levels)'
  BY NextTyped, NextLevels
<1>3. Typed /\ Levels => LevelRespected
  <2> SUFFICES ASSUME Typed, Levels, NEW t \in Threads, Done(t)
               PROVE  /\ Printed(call[t]) => Passed(call[t])
                      /\ Wanted(call[t]) => IF call[t].logger.printer = "disk"
                                            THEN call[t].file \/ ~open ELSE call[t].logcat
    BY DEF LevelRespected, Passed, Wanted, Tracing
  <2> QED BY DEF Levels, Levelled, Done
<1> QED BY <1>1, <1>2, <1>3, PTL DEF Spec
-----------------------------------------------------------------------------
(* The file.                                                               *)

LEMMA OneLineOn ==
  ASSUME NEW m \in Nat, NEW n \in Nat, n > 0
  PROVE  (m + n) % n = m % n
<1> DEFINE q == m \div n
           r == m % n
           s == (m + n) \div n
           v == (m + n) % n
<1>1. m = n * q + r /\ r \in 0..(n - 1) /\ q \in Int
  BY SMT
<1>2. m + n = n * s + v /\ v \in 0..(n - 1) /\ s \in Int
  <2>1. m + n \in Nat
    OBVIOUS
  <2> QED BY <2>1, SMT
<1> HIDE DEF q, r, s, v
<1> DEFINE d == (q + 1) - s
<1>3. d \in Int /\ n * d = v - r
  BY <1>1, <1>2
<1> HIDE DEF d
<1>4. d >= 1 => n * d >= n
  BY <1>3
<1>5. d <= -1 => n * d <= -n
  BY <1>3
<1>6. d = 0
  BY <1>1, <1>2, <1>3, <1>4, <1>5
<1> QED BY <1>1, <1>2, <1>3, <1>6 DEF v, r

(* A thread in write() has a whole number of lines before it, with what of *)
(* its own line is in the ring already, and finds the room it measured.    *)
InFile(t) == pc[t] \in {"measure", "put"}
Filed(t) ==
  /\ pc[t] \in Active \ {"measure", "put", "done"} => call[t].remaining = LineLen
  /\ InFile(t) =>
       /\ (Len(ring) + call[t].remaining) % LineLen = 0 /\ call[t].remaining > 0
       /\ call[t].remaining < LineLen => Len(ring) > 0 /\ ring[Len(ring)] = call[t].id
  /\ pc[t] = "put" =>
       /\ call[t].writable > 0 /\ call[t].writable <= call[t].remaining /\ call[t].writable <= Free
Ended == faults > 0 \/ interrupted
Boundaries == \A i \in 1..Len(ring) - 1 : ring[i] # ring[i + 1] => i % LineLen = 0
Lines ==
  /\ \A t, u \in Threads : InFile(t) /\ InFile(u) => t = u
  /\ \A t \in Threads : Filed(t)
  /\ (\A t \in Threads : ~InFile(t)) => Len(ring) % LineLen = 0
  /\ Boundaries
  /\ ~open => Ended
Whole == ~overlapped => Lines

(* Outside write() nothing of this changes.                                *)
LEMMA LinesLeft ==
  ASSUME Typed, Lines, NEW t \in Threads, Moved(t), ~InFile(t), ~InFile(t)', UNCHANGED <<ring, drained>>,
         call'[t].remaining = call[t].remaining, pc[t] # "done", ~open' => Ended'
  PROVE  Lines'
<1>1. ASSUME NEW u \in Threads \ {t} PROVE pc'[u] = pc[u] /\ (InFile(u)' <=> InFile(u)) /\ Filed(u)'
  BY <1>1 DEF Moved, InFile, Lines, Filed, Free
<1>2. Filed(t)'
  BY DEF Moved, InFile, Lines, Filed, Active
<1> QED BY <1>1, <1>2 DEF Lines, Boundaries

LEMMA PutWhole ==
  ASSUME Typed, Typed', Lines, NEW t \in Threads, Put(t)
  PROVE  Lines'
<1> DEFINE c == call[t]
           rest == c.remaining - Written(t)
<1>1. /\ InFile(t) /\ pc[t] = "put" /\ Moved(t) /\ DOMAIN call = Threads /\ DOMAIN c = Fields /\ WellFormed(c)
      /\ DOMAIN pc = Threads
  BY Moves DEF InFile, Put, Writes, Typed, CallsTyped, WellFormed
<1>2. /\ c.writable > 0 /\ c.writable <= c.remaining /\ c.writable <= Free
      /\ (Len(ring) + c.remaining) % LineLen = 0
      /\ c.remaining < LineLen => Len(ring) > 0 /\ ring[Len(ring)] = c.id
  BY <1>1 DEF Lines, Filed
<1>3. c.writable \in Nat /\ c.remaining \in 0..LineLen /\ LineLen \in Nat /\ LineLen > 0
  BY <1>1, Constants DEF WellFormed, WorkTyped
<1>4. /\ Written(t) = c.writable /\ Free \in Nat /\ Len(ring) \in Nat
      /\ Len(ring') = Len(ring) + c.writable
      /\ \A i \in 1..Len(ring) : ring'[i] = ring[i]
      /\ \A i \in (Len(ring) + 1)..Len(ring') : ring'[i] = c.id
  <2>1. Free \in Nat
    BY PutRing
  <2>2. Written(t) = c.writable
    BY <1>2, <1>3, <2>1 DEF Written
  <2> QED BY <2>1, <2>2, PutRing
<1>5. rest \in Nat /\ rest < LineLen /\ Len(ring') + rest = Len(ring) + c.remaining /\ Len(ring') > 0
      /\ Len(ring') \in Nat
  <2>1. rest = c.remaining - c.writable
    BY <1>4
  <2>2. c.writable \in Nat /\ c.remaining \in Nat /\ c.remaining <= LineLen
    BY <1>3
  <2>3. c.writable > 0 /\ c.writable <= c.remaining /\ LineLen \in Nat
    BY <1>2, <1>3
  <2>4. Len(ring') = Len(ring) + c.writable /\ Len(ring) \in Nat
    BY <1>4
  <2> HIDE DEF rest, c
  <2>5. rest \in Nat /\ rest < LineLen
    BY <2>1, <2>2, <2>3
  <2>6. Len(ring') + rest = Len(ring) + c.remaining /\ Len(ring') > 0 /\ Len(ring') \in Nat
    BY <2>1, <2>2, <2>3, <2>4
  <2> QED BY <2>5, <2>6
<1>6. /\ call'[t].remaining = rest /\ call'[t].id = c.id
      /\ pc'[t] = (IF rest = 0 THEN "done" ELSE "measure")
      /\ open' = open /\ Ended' = Ended
  <2>1. /\ call' = [call EXCEPT ![t].remaining = rest, ![t].file = (rest = 0)]
        /\ Goto(t, IF rest = 0 THEN "done" ELSE "measure")
        /\ open' = (open /\ Written(t) = c.writable) /\ Ended' = Ended
    BY DEF Put, Written, counts, Ended
  <2> HIDE DEF rest
  <2>2. call'[t].remaining = rest /\ call'[t].id = c.id
    BY <1>1, <2>1 DEF Fields, Fixed, Working
  <2>3. pc'[t] = (IF rest = 0 THEN "done" ELSE "measure")
    BY <1>1, <2>1 DEF Goto
  <2> QED BY <1>4, <2>1, <2>2, <2>3 DEF Typed, DiskTyped
<1> HIDE DEF rest
<1>7. ASSUME NEW u \in Threads \ {t}
      PROVE  ~InFile(u)' /\ Filed(u)'
  <2>1. ~InFile(u) /\ pc'[u] = pc[u] /\ call'[u] = call[u]
    BY <1>1 DEF Lines, Moved
  <2> QED BY <2>1 DEF InFile, Filed, Lines
<1>8. Filed(t)' /\ (InFile(t)' <=> rest # 0)
  <2>1. CASE rest = 0
    BY <1>6, <2>1 DEF Filed, InFile
  <2>2. CASE rest # 0
    <3>1. rest > 0 /\ (Len(ring') + rest) % LineLen = 0
      BY <1>2, <1>5, <2>2
    <3>2. ring'[Len(ring')] = c.id
      <4>1. Len(ring') \in (Len(ring) + 1)..Len(ring')
        BY <1>2, <1>3, <1>4, <1>5
      <4> QED BY <1>4, <4>1
    <3> QED BY <1>5, <1>6, <2>2, <3>1, <3>2 DEF Filed, InFile
  <2> QED BY <2>1, <2>2
<1>9. rest = 0 => Len(ring') % LineLen = 0
  <2> SUFFICES ASSUME rest = 0 PROVE Len(ring') % LineLen = 0
    OBVIOUS
  <2>1. Len(ring') = Len(ring) + c.remaining
    BY <1>5
  <2> QED BY <1>2, <2>1
<1>10. Boundaries'
  <2> SUFFICES ASSUME NEW i \in 1..Len(ring') - 1, ring'[i] # ring'[i + 1] PROVE i % LineLen = 0
    BY DEF Boundaries
  <2>1. CASE i < Len(ring)
    <3>1. ring[i] # ring[i + 1] /\ i \in 1..Len(ring) - 1
      BY <1>4, <2>1
    <3> QED BY <3>1 DEF Lines, Boundaries
  <2>2. CASE i > Len(ring)
    BY <1>4, <1>5, <2>2
  <2>3. CASE i = Len(ring)
    <3>1. ring[Len(ring)] # c.id
      BY <1>4, <1>5, <2>3
    <3>2. c.remaining = LineLen
      BY <1>2, <1>3, <3>1, <2>3
    <3>3. (Len(ring) + LineLen) % LineLen = Len(ring) % LineLen
      BY <1>3, <1>4, OneLineOn
    <3> QED BY <1>2, <2>3, <3>2, <3>3
  <2> QED BY <1>4, <2>1, <2>2, <2>3
<1> QED BY <1>6, <1>7, <1>8, <1>9, <1>10 DEF Lines

(* Only write() changes what remains of a line.                            *)
LEMMA RemainingLeft ==
  ASSUME CallsTyped, NEW t \in Threads, Moved(t), FindsTag(t) \/ Prints(t)
  PROVE  call'[t].remaining = call[t].remaining
<1>0. DOMAIN call = Threads /\ DOMAIN call[t] = Fields /\ "remaining" \in Fields
  BY DEF CallsTyped, WellFormed, Moved, Active, Filing, Fields, Working
<1>1. ASSUME NEW tag, Tagged(t, tag) PROVE call'[t].remaining = call[t].remaining
  BY <1>0, <1>1, TaggedFields
<1>2. CASE Answered(t)
  BY <1>0, <1>2, AnsweredFields
<1>3. ASSUME NEW tag, Found(t, tag) PROVE call'[t].remaining = call[t].remaining
  <2>1. CASE call' = [call EXCEPT ![t].frame = @ + 1]
    BY <1>0, <2>1
  <2> QED BY <1>1, <1>3, <2>1, FoundSteps
<1>4. CASE Walk(t) \/ NotOff(t)
  BY <1>0, <1>4 DEF Walk, NotOff
<1>5. CASE Gate(t)
  <2>1. CASE call' = [call EXCEPT ![t].on = FALSE, ![t].tag = <<"at", getStackTrace(call[t])>>]
    BY <1>0, <2>1
  <2> QED BY <1>2, <1>5, <2>1, GateSteps
<1>6. CASE PrintLine(t)
  BY <1>0, <1>6 DEF PrintLine
<1> QED BY <1>1, <1>2, <1>3, <1>4, <1>5, <1>6
        DEF FindsTag, Prints, NoTag, CacheGet, cacheTag, Skip, internalPrintObject, internalPrintLog

LEMMA NextWhole == ASSUME Typed, Typed', Levels, Whole, [Next]_vars PROVE Whole'
<1>0. CallsTyped /\ CallsTyped' /\ DiskTyped /\ ConfigTyped /\ LineLen \in Nat /\ LineLen > 0
  BY Constants DEF Typed
<1> SUFFICES ASSUME ~overlapped' PROVE Lines'
  BY DEF Whole
<1>1. overlapped' = overlapped \/ \E t \in Threads : PrintToFile(t)
  BY DEF Next, FindsTag, Prints, Writes, NoTag, CacheGet, Walk, cacheTag, NotOff, Skip, Gate,
     internalPrintObject, internalPrintLog, PrintLine, Measure, Interrupted, Put, PrintFails, Call, Return, setupImpl,
     setDefaultTag, Started, setLogPriority, setAllowPrint, Trim, Drain, WriterFails, vars, disk
<1>2. Lines
  <2>1. ~overlapped
    BY <1>1 DEF PrintToFile
  <2> QED BY <2>1 DEF Whole
<1>3. ASSUME NEW t \in Threads, FindsTag(t) \/ Prints(t) PROVE Lines'
  <2>1. Moved(t) /\ pc[t] # "done" /\ ~InFile(t) /\ ~InFile(t)' /\ UNCHANGED <<ring, drained, open, faults, interrupted>>
    <3>0. DOMAIN pc = Threads
      BY <1>0 DEF CallsTyped
    <3>1. Moved(t) /\ pc[t] # "done" /\ ~InFile(t) /\ UNCHANGED <<ring, drained, open, faults, interrupted>>
      BY <1>0, <1>3, Moves DEF FindsTag, Prints, NoTag, CacheGet, Walk, cacheTag, NotOff, Asks, Skip, Gate,
         internalPrintObject, internalPrintLog, PrintLine, InFile, disk, counts
    <3>2. LaidOut(call[t]) \notin {"measure", "put"}
      BY DEF LaidOut
    <3>3. pc'[t] \notin {"measure", "put"}
      BY <3>0, <3>1, <3>2, <1>3, FoundSteps, GateSteps DEF FindsTag, Prints, NoTag, CacheGet, Walk, cacheTag,
         NotOff, Skip, internalPrintObject, internalPrintLog, PrintLine, InFile, Goto
    <3> QED BY <3>1, <3>3 DEF InFile
  <2>2. call'[t].remaining = call[t].remaining
    BY <1>0, <1>3, <2>1, RemainingLeft
  <2> QED BY <1>2, <2>1, <2>2, LinesLeft DEF Lines, Ended
<1>4. ASSUME NEW t \in Threads, PrintToFile(t) PROVE Lines'
  <2>0. Moved(t) /\ pc[t] = "file" /\ ~InFile(t) /\ UNCHANGED <<ring, drained, open, faults, interrupted, call>> /\ DOMAIN pc = Threads
    BY <1>0, <1>4, Moves DEF Writes, PrintToFile, InFile, counts, CallsTyped
  <2>1. CASE pc'[t] # "measure"
    <3>1. ~InFile(t)'
      BY <1>4, <2>0, <2>1 DEF PrintToFile, Goto, InFile
    <3> QED BY <1>2, <2>0, <3>1, LinesLeft DEF Lines, Ended
  <2>2. CASE pc'[t] = "measure"
    <3>1. ~mFileWriterInvalid /\ open
      BY <1>4, <2>0, <2>2 DEF PrintToFile, Goto
    <3>2. \A u \in Threads : ~InFile(u)
      BY <1>4, <2>0, <3>1 DEF PrintToFile, Writing, InFile
    <3>3. Len(ring) % LineLen = 0 /\ call[t].remaining = LineLen /\ Len(ring) \in Nat
      BY <1>0, <1>2, <2>0, <3>2 DEF Lines, Filed, Active, Filing, DiskTyped
    <3>4. (Len(ring) + LineLen) % LineLen = 0
      BY <1>0, <3>3, OneLineOn
    <3>5. Filed(t)'
      BY <1>0, <2>0, <2>2, <3>3, <3>4 DEF Filed, InFile
    <3>6. ASSUME NEW u \in Threads \ {t} PROVE ~InFile(u)' /\ Filed(u)'
      BY <1>2, <2>0, <3>2, <3>6 DEF Moved, Filed, InFile, Lines
    <3>7. InFile(t)'
      BY <2>2 DEF InFile
    <3> QED BY <1>2, <2>0, <3>5, <3>6, <3>7 DEF Lines, Boundaries, Ended
  <2> QED BY <2>1, <2>2
<1>5. ASSUME NEW t \in Threads, Measure(t) PROVE Lines'
  <2>0. /\ Moved(t) /\ pc[t] = "measure" /\ pc'[t] = "put" /\ UNCHANGED <<ring, drained, open, faults, interrupted>>
        /\ call'[t].writable = Writable(call[t]) /\ call'[t].remaining = call[t].remaining
        /\ call'[t].id = call[t].id /\ Free > 0 /\ WellFormed(call[t])
    BY <1>0, <1>5, Moves DEF Writes, Measure, Goto, CallsTyped, WellFormed, Fields, Fixed, Working, disk, counts
  <2>1. Writable(call[t]) > 0 /\ Writable(call[t]) <= call[t].remaining /\ Writable(call[t]) <= Free
    <3>1. Free \in Nat /\ call[t].remaining \in Nat /\ call[t].remaining > 0
      BY <1>0, <1>2, <2>0, Constants DEF Free, DiskTyped, WellFormed, WorkTyped, Lines, Filed, InFile
    <3> QED BY <2>0, <3>1 DEF Writable
  <2>2. Filed(t)'
    BY <1>2, <2>0, <2>1 DEF Lines, Filed, InFile, Free, Active, Filing
  <2>3. ASSUME NEW u \in Threads \ {t} PROVE Filed(u)' /\ (InFile(u)' <=> InFile(u))
    BY <1>2, <2>0, <2>3 DEF Moved, Filed, InFile, Lines, Free
  <2>4. InFile(t) /\ InFile(t)'
    BY <2>0 DEF InFile
  <2> QED BY <1>2, <2>0, <2>2, <2>3, <2>4 DEF Lines, Boundaries, Ended
<1>6. ASSUME NEW t \in Threads, Put(t) PROVE Lines'
  BY <1>2, <1>6, PutWhole
<1>7. ASSUME NEW t \in Threads, PrintFails(t) PROVE Lines'
  <2>1. Moved(t) /\ pc[t] = "fail" /\ pc'[t] = "done" /\ UNCHANGED <<ring, drained, faults, interrupted, call>>
    BY <1>0, <1>7, Moves DEF Writes, PrintFails, Goto, CallsTyped, counts
  <2>2. Ended /\ Ended'
    BY <1>2, <2>1 DEF Levels, Levelled, Lines, Ended
  <2> QED BY <1>2, <2>1, <2>2, LinesLeft DEF InFile
<1>8. ASSUME NEW t \in Threads, Call(t) \/ Return(t) PROVE Lines'
  <2>1. /\ \A u \in Threads \ {t} : call'[u] = call[u] /\ pc'[u] = pc[u]
        /\ ~InFile(t) /\ ~InFile(t)' /\ UNCHANGED <<ring, drained, open, faults, interrupted>>
        /\ pc'[t] = "idle" \/ call'[t].remaining = LineLen
    <3>1. CASE Call(t)
      BY <3>1, CallBegins DEF InFile, disk
    <3>2. CASE Return(t)
      BY <1>0, <3>2 DEF Return, Goto, InFile, disk, counts, CallsTyped
    <3> QED BY <1>8, <3>1, <3>2
  <2>2. Filed(t)'
    BY <2>1 DEF Filed, InFile, Active, Filing
  <2>3. ASSUME NEW u \in Threads \ {t} PROVE Filed(u)' /\ (InFile(u)' <=> InFile(u))
    BY <1>2, <2>1, <2>3 DEF Filed, InFile, Lines, Free
  <2> QED BY <1>2, <2>1, <2>2, <2>3 DEF Lines, Boundaries, Ended
<1>9. CASE Remembered /\ UNCHANGED <<pc, ring, drained, open, faults, interrupted>>
  <2>1. ASSUME NEW u \in Threads PROVE Filed(u)' /\ (InFile(u)' <=> InFile(u))
    <3>1. CASE pc[u] = "idle"
      BY <1>9, <3>1 DEF Filed, InFile, Active, Filing
    <3>2. CASE pc[u] # "idle"
      <4>1. \A f \in Fields \ {"lo", "hi"} : call'[u][f] = call[u][f]
        BY <1>9, <3>2, RememberedFields DEF Typed
      <4>2. /\ call'[u].remaining = call[u].remaining /\ call'[u].writable = call[u].writable
            /\ call'[u].id = call[u].id
        BY <4>1 DEF Fields, Fixed, Working
      <4> QED BY <1>2, <1>9, <4>2 DEF Filed, InFile, Lines, Free
    <3> QED BY <3>1, <3>2
  <2> QED BY <1>2, <1>9, <2>1 DEF Lines, Boundaries, Ended
<1>10. CASE UNCHANGED <<pc, call, ring>> /\ (Free' = Free \/ drained' = Len(ring)) /\ (~open' => Ended')
  <2>1. \A u \in Threads : call[u].writable <= Free /\ pc[u] = "put" => call[u].writable <= Free'
    <3>1. ASSUME NEW u \in Threads, call[u].writable <= Free, pc[u] = "put", drained' = Len(ring)
          PROVE  call[u].writable <= Free'
      <4>1. call[u].writable \in Nat /\ Len(ring) \in Nat /\ drained \in 0..Len(ring) /\ RingSize \in Nat
        BY <1>0, <3>1, Constants DEF CallsTyped, WellFormed, WorkTyped, DiskTyped
      <4>2. Free' = RingSize
        BY <1>10, <3>1, <4>1 DEF Free
      <4> QED BY <3>1, <4>1, <4>2 DEF Free
    <3> QED BY <1>10, <3>1
  <2>2. \A u \in Threads : Filed(u)' /\ (InFile(u)' <=> InFile(u))
    BY <1>2, <1>10, <2>1 DEF Filed, InFile, Lines
  <2> QED BY <1>2, <1>10, <2>2 DEF Lines, Boundaries, Ended
<1>11. ASSUME NEW t \in Threads, setupImpl(t) \/ setDefaultTag(t) \/ Started(t) PROVE Lines'
  <2>1. UNCHANGED <<pc, call, ring, drained, open, faults, interrupted>>
    BY <1>11 DEF setupImpl, setDefaultTag, Started, disk, counts
  <2> QED BY <1>2, <1>10, <2>1 DEF Lines, Free, Ended
<1>12. CASE setLogPriority \/ setAllowPrint
  BY <1>9, <1>12 DEF setLogPriority, setAllowPrint, disk
<1>13. CASE Drain
  BY <1>2, <1>10, <1>13 DEF Drain, Lines, Ended, counts
<1>14. CASE WriterFails
  <2>1. UNCHANGED <<pc, call, ring, drained>> /\ faults' = faults + 1
    BY <1>14 DEF WriterFails
  <2>2. Ended'
    BY <1>0, <2>1 DEF ConfigTyped, Ended
  <2> QED BY <1>10, <2>1, <2>2 DEF Free
<1>15. CASE Trim \/ UNCHANGED vars
  <2>1. UNCHANGED <<pc, call, ring, drained, open, faults, interrupted>>
    BY <1>15 DEF Trim, vars, disk, counts
  <2> QED BY <1>2, <1>10, <2>1 DEF Lines, Free, Ended
<1>16. ASSUME NEW t \in Threads, Interrupted(t) PROVE Lines'
  <2>1. UNCHANGED <<pc, call, ring, drained>> /\ interrupted'
    BY <1>16 DEF Interrupted
  <2> QED BY <1>10, <2>1 DEF Free, Ended
<1> QED BY <1>16, <1>3, <1>4, <1>5, <1>6, <1>7, <1>8, <1>11, <1>12, <1>13, <1>14, <1>15 DEF Next, Writes

(* Every line in the file is whole, and only a failure of the writer, or   *)
(* the interrupt of a thread waiting in write(), ends the logging to disk, *)
(* as long as no two threads were in write() at once.                      *)
(* Code: SimpleDiskPrinter.printToFile, AsyncFileWriter.write.             *)
THEOREM WholeKept == Spec => []LinesWhole
<1>1. Init => Typed /\ Levels /\ Whole
  <2> SUFFICES ASSUME Init PROVE Typed /\ Levels /\ Whole
    OBVIOUS
  <2>1. Len(ring) = 0 /\ open
    BY DEF Init
  <2>2. Boundaries
    BY <2>1 DEF Boundaries
  <2>3. \A t \in Threads : pc[t] = "idle"
    BY DEF Init
  <2>4. 0 % LineLen = 0
    BY Constants, SMT
  <2>5. Lines
    BY <2>1, <2>2, <2>3, <2>4 DEF Lines, Filed, InFile, Active, Filing
  <2>6. Levels
    BY <2>3 DEF Init, Levels, Levelled
  <2> QED BY <2>5, <2>6, InitTyped DEF Whole
<1>2. Typed /\ Levels /\ Whole /\ [Next]_vars => (Typed /\ Levels /\ Whole)'
  BY NextTyped, NextLevels, NextWhole
<1>3. Whole => LinesWhole
  BY DEF Whole, Lines, Ended, Boundaries, LinesWhole
<1> QED BY <1>1, <1>2, <1>3, PTL DEF Spec
-----------------------------------------------------------------------------
(* The tag.                                                                *)

(* The tag of a class once its initialiser has run.                        *)
Owns(d) == {i \in DOMAIN Chain(d) : Chain(d)[i] \in Annotated \union Fielded}
OwnTag(d) == IF Owns(d) = {} THEN <<>> ELSE <<"class", Chain(d)[Min(Owns(d))]>>

LEMMA NoOwnTag == ASSUME NEW d PROVE OwnTag(d) = <<>> <=> Owns(d) = {}
BY DEF OwnTag

LEMMA OwnTagNotUncached == ASSUME NEW d PROVE OwnTag(d) # Uncached
BY DEF OwnTag, Uncached

LEMMA LeastOf == ASSUME NEW S \in SUBSET Nat, NEW k \in S, \A i \in S : k <= i PROVE Min(S) = k
<1>1. ASSUME NEW x \in S, \A y \in S : x =< y PROVE x = k
  <2>1. x <= k /\ k <= x /\ x \in Nat /\ k \in Nat
    BY <1>1
  <2> QED BY <2>1
<1>2. \A y \in S : k =< y
  OBVIOUS
<1> QED BY <1>1, <1>2 DEF Min

(* The callers of which one is tagged, among those that are looked at.     *)
TaggedFrames(c) == {i \in DOMAIN c.stack \intersect 1..STACK_SEARCH_WINDOW : Owns(c.stack[i]) # {}}

LEMMA CallersTagIs ==
  ASSUME NEW c
  PROVE  CallersTag(c) = IF TaggedFrames(c) = {} THEN <<"NO_TAG">>
                         ELSE LET d == c.stack[Min(TaggedFrames(c))] IN <<"class", Chain(d)[Min(Owns(d))]>>
BY DEF CallersTag, TaggedFrames, Owns, Chain

(* The first caller that is tagged gives the tag; or none is.              *)
LEMMA NearestTag ==
  ASSUME NEW c, c.stack \in Seq(Classes), NEW k \in 1..Len(c.stack), k <= STACK_SEARCH_WINDOW,
         Owns(c.stack[k]) # {}, \A i \in 1..(k - 1) : Owns(c.stack[i]) = {}
  PROVE  CallersTag(c) = OwnTag(c.stack[k])
<1>1. DOMAIN c.stack = 1..Len(c.stack) /\ Len(c.stack) \in Nat
  OBVIOUS
<1>2. k \in TaggedFrames(c) /\ TaggedFrames(c) \in SUBSET Nat /\ \A i \in TaggedFrames(c) : k <= i
  <2>1. k \in TaggedFrames(c)
    BY <1>1 DEF TaggedFrames, STACK_SEARCH_WINDOW
  <2>2. ASSUME NEW i \in TaggedFrames(c) PROVE i \in Nat /\ k <= i
    <3>1. i \in 1..Len(c.stack) /\ Owns(c.stack[i]) # {}
      BY <1>1 DEF TaggedFrames
    <3>2. i \notin 1..(k - 1)
      BY <3>1
    <3> QED BY <1>1, <3>1, <3>2
  <2> QED BY <2>1, <2>2
<1>3. Min(TaggedFrames(c)) = k
  BY <1>2, LeastOf
<1> QED BY <1>2, <1>3, CallersTagIs DEF OwnTag

LEMMA NoTagAround ==
  ASSUME NEW c, c.stack \in Seq(Classes), NEW k \in Nat, k = STACK_SEARCH_WINDOW \/ k >= Len(c.stack),
         \A i \in 1..k : Owns(c.stack[i]) = {}
  PROVE  CallersTag(c) = <<"NO_TAG">>
<1>1. DOMAIN c.stack = 1..Len(c.stack) /\ Len(c.stack) \in Nat
  OBVIOUS
<1>2. TaggedFrames(c) = {}
  <2> SUFFICES ASSUME NEW i \in TaggedFrames(c) PROVE FALSE
    OBVIOUS
  <2>1. i \in 1..Len(c.stack) /\ i \in 1..STACK_SEARCH_WINDOW /\ Owns(c.stack[i]) # {}
    BY <1>1 DEF TaggedFrames
  <2>2. i \in 1..k
    BY <1>1, <2>1 DEF STACK_SEARCH_WINDOW
  <2> QED BY <2>1, <2>2
<1> QED BY <1>2, CallersTagIs

(* A logger that skips as many frames as there are above the caller's.     *)
Straight(c) == Depth(c) = Offset(c)

LEMMA StraightFrames ==
  ASSUME NEW c, FixedTyped(c), Straight(c)
  PROVE  /\ Offset(c) \in Nat /\ c.stack \in Seq(Classes) /\ Len(c.stack) \in Nat /\ Len(c.stack) > 0
         /\ Len(Frames(c)) = Offset(c) + Len(c.stack)
         /\ \A i \in 0..(Len(c.stack) - 1) : Frame(c, Offset(c) + i) = c.stack[i + 1] /\ c.stack[i + 1] \in Classes
         /\ getStackTrace(c) = c.stack[1]
<1>1. c.stack \in Seq(Classes) /\ Len(c.stack) \in Nat /\ Len(c.stack) > 0 /\ Depth(c) \in Nat /\ Offset(c) = Depth(c)
  BY Constants DEF FixedTyped, Straight, Depth
<1> DEFINE n == Depth(c)
           top == [i \in 1..n |-> Lib]
           all == Classes \union {Lib}
<1>2. top \in Seq(all) /\ c.stack \in Seq(all) /\ Len(top) = n
  BY <1>1
<1>3. Frames(c) = top \o c.stack
  BY DEF Frames
<1> HIDE DEF n, top, all
<1>4. /\ Len(Frames(c)) = n + Len(c.stack)
      /\ \A i \in 1..(n + Len(c.stack)) : Frames(c)[i] = IF i <= n THEN top[i] ELSE c.stack[i - n]
  <2>1. /\ Len(top \o c.stack) = Len(top) + Len(c.stack)
        /\ \A i \in 1..(Len(top) + Len(c.stack)) :
             (top \o c.stack)[i] = IF i <= Len(top) THEN top[i] ELSE c.stack[i - Len(top)]
    BY <1>2, ConcatProperties
  <2> QED BY <1>2, <1>3, <2>1
<1>5. n \in Nat /\ Offset(c) = n
  BY <1>1 DEF n
<1>6. ASSUME NEW i \in 0..(Len(c.stack) - 1)
      PROVE  Frame(c, Offset(c) + i) = c.stack[i + 1] /\ c.stack[i + 1] \in Classes
  <2>1. n + i + 1 \in 1..(n + Len(c.stack)) /\ ~(n + i + 1 <= n) /\ (n + i + 1) - n = i + 1 /\ i + 1 \in 1..Len(c.stack)
    BY <1>1, <1>5
  <2>2. Frames(c)[n + i + 1] = c.stack[i + 1]
    BY <1>4, <2>1
  <2> QED BY <1>1, <1>5, <2>1, <2>2 DEF Frame
<1>7. getStackTrace(c) = c.stack[1]
  <2>1. Frame(c, Offset(c)) = c.stack[1]
    <3>1. 0 \in 0..(Len(c.stack) - 1) /\ Offset(c) + 0 = Offset(c) /\ 0 + 1 = 1
      BY <1>1, <1>5
    <3> QED BY <1>6, <3>1
  <2>2. Len(Frames(c)) > Offset(c)
    BY <1>1, <1>4, <1>5
  <2> QED BY <2>1, <2>2 DEF getStackTrace
<1> QED BY <1>1, <1>4, <1>5, <1>6, <1>7

(* What depends on the frames alone.                                       *)
LEMMA SameFrames ==
  ASSUME NEW c, NEW d, \A f \in {"logger", "op", "via", "stack"} : d[f] = c[f]
  PROVE  /\ Straight(d) <=> Straight(c)
         /\ Frames(d) = Frames(c) /\ Offset(d) = Offset(c) /\ getStackTrace(d) = getStackTrace(c)
         /\ CallersTag(d) = CallersTag(c) /\ PositionTags(d) = PositionTags(c)
<1>1. d.logger = c.logger /\ d.op = c.op /\ d.via = c.via /\ d.stack = c.stack
  OBVIOUS
<1>2. Depth(d) = Depth(c) /\ Offset(d) = Offset(c)
  BY <1>1 DEF Depth, Offset
<1>3. Frames(d) = Frames(c)
  BY <1>1, <1>2 DEF Frames
<1>4. getStackTrace(d) = getStackTrace(c)
  BY <1>2, <1>3 DEF getStackTrace, Frame
<1>5. CallersTag(d) = CallersTag(c)
  <2>1. TaggedFrames(d) = TaggedFrames(c)
    BY <1>1 DEF TaggedFrames
  <2> QED BY <1>1, <2>1, CallersTagIs
<1>6. PositionTags(d) = PositionTags(c)
  BY <1>1, <1>5 DEF PositionTags
<1> QED BY <1>2, <1>3, <1>4, <1>5, <1>6 DEF Straight
(* A search that has found no tag in the first n callers.                  *)
Sought(c, n) ==
  n <= STACK_SEARCH_WINDOW /\ n <= Len(c.stack) /\ \A i \in 1..n : Owns(c.stack[i]) = {}

(* What is known of the tag of a call with the right offset.               *)
Tagless == {"find", "cache"}
Laying == Filing \union {"object", "level", "print"}
Straightly(t) ==
  /\ pc[t] \in Tagless =>
       /\ call[t].asked = <<>>
       /\ IF Tracing(t) THEN call[t].stack[1] \in NoSource ELSE Sought(call[t], call[t].frame)
  /\ pc[t] \notin Tagless /\ ~Tracing(t) /\ call[t].asked = <<>> => call[t].tag = CallersTag(call[t])
  /\ pc[t] = "gate" /\ Tracing(t) => call[t].tag = call[t].asked
  /\ (pc[t] \in Laying \/ (pc[t] = "done" /\ Printed(call[t]))) /\ Tracing(t) /\ call[t].asked = <<>>
       => call[t].tag \in PositionTags(call[t])
Tagging(t) ==
  /\ pc[t] = "cache" => call[t].tag = OwnTag(Asked(t)) /\ ~Searched(t)
  /\ pc[t] # "idle" /\ Straight(call[t]) => Straightly(t)
CacheTrue == \A d \in Classes : CLASS_TAG_CACHE[d] \in {Uncached, OwnTag(d)}
Tags == ~early => CacheTrue /\ \A t \in Threads : Tagging(t)

(* What is asked for depends on the frames and the one looked at.          *)
LEMMA SameAsked ==
  ASSUME NEW t, \A f \in {"logger", "op", "via", "stack", "frame"} : call'[t][f] = call[t][f]
  PROVE  Asked(t)' = Asked(t) /\ (Searched(t)' <=> Searched(t)) /\ (Tracing(t)' <=> Tracing(t))
<1>1. /\ Frames(call'[t]) = Frames(call[t]) /\ Offset(call'[t]) = Offset(call[t])
      /\ getStackTrace(call'[t]) = getStackTrace(call[t])
  BY SameFrames
<1>2. call'[t].logger = call[t].logger /\ call'[t].frame = call[t].frame
  OBVIOUS
<1> QED BY <1>1, <1>2 DEF Asked, Searched, Tracing, Frame

LEMMA SameTagging ==
  ASSUME NEW t, Tagging(t), pc'[t] = pc[t], \A f \in Fields \ {"lo", "hi"} : call'[t][f] = call[t][f]
  PROVE  Tagging(t)'
<1>1. /\ \A f \in {"logger", "op", "via", "stack", "frame"} : call'[t][f] = call[t][f]
      /\ call'[t].asked = call[t].asked /\ call'[t].tag = call[t].tag /\ call'[t].stack = call[t].stack
      /\ call'[t].frame = call[t].frame /\ call'[t].logcat = call[t].logcat /\ call'[t].file = call[t].file
  BY DEF Fields, Fixed, Working
<1>2. Asked(t)' = Asked(t) /\ (Searched(t)' <=> Searched(t)) /\ (Tracing(t)' <=> Tracing(t))
  BY <1>1, SameAsked
<1>3. /\ Straight(call'[t]) <=> Straight(call[t])
      /\ CallersTag(call'[t]) = CallersTag(call[t]) /\ PositionTags(call'[t]) = PositionTags(call[t])
  BY <1>1, SameFrames
<1>4. Straightly(t) => Straightly(t)'
  BY <1>1, <1>2, <1>3 DEF Straightly, Sought, Printed
<1> QED BY <1>1, <1>2, <1>3, <1>4 DEF Tagging

(* What a step of thread t must show of a call with the right offset.      *)
StraightTo(t) ==
  /\ pc'[t] \in Tagless =>
       /\ call[t].asked = <<>>
       /\ IF Tracing(t) THEN call[t].stack[1] \in NoSource ELSE Sought(call[t], call'[t].frame)
  /\ pc'[t] \notin Tagless /\ ~Tracing(t) /\ call[t].asked = <<>> => call'[t].tag = CallersTag(call[t])
  /\ pc'[t] = "gate" /\ Tracing(t) => call'[t].tag = call[t].asked
  /\ (pc'[t] \in Laying \/ (pc'[t] = "done" /\ Printed(call'[t]))) /\ Tracing(t) /\ call[t].asked = <<>>
       => call'[t].tag \in PositionTags(call[t])

LEMMA StraightMoved ==
  ASSUME NEW t \in Threads, Moved(t), Straight(call[t]) => StraightTo(t), pc'[t] # "cache"
  PROVE  Tagging(t)'
<1>1. /\ \A f \in {"logger", "op", "via", "stack"} : call'[t][f] = call[t][f]
      /\ call'[t].asked = call[t].asked /\ call'[t].stack = call[t].stack /\ call'[t].logger = call[t].logger
  BY DEF Moved, Fixed
<1>2. /\ Straight(call'[t]) <=> Straight(call[t])
      /\ CallersTag(call'[t]) = CallersTag(call[t]) /\ PositionTags(call'[t]) = PositionTags(call[t])
  BY <1>1, SameFrames
<1>3. StraightTo(t) => Straightly(t)'
  BY <1>1, <1>2 DEF StraightTo, Straightly, Sought, Printed, Tracing
<1> QED BY <1>2, <1>3 DEF Tagging

(* The class that a search with the right offset asks for.                 *)
LEMMA Asking ==
  ASSUME NEW t \in Threads, WellFormed(call[t]), Straight(call[t]), Straightly(t), pc[t] \in Tagless, ~Searched(t)
  PROVE  \E k \in 1..Len(call[t].stack) :
           /\ k <= STACK_SEARCH_WINDOW /\ k = (IF Tracing(t) THEN 1 ELSE call[t].frame + 1)
           /\ Asked(t) = call[t].stack[k] /\ Asked(t) \in Classes
           /\ \A i \in 1..(k - 1) : Owns(call[t].stack[i]) = {}
<1> DEFINE c == call[t]
<1>1. /\ Offset(c) \in Nat /\ Len(c.stack) \in Nat /\ Len(c.stack) > 0
      /\ Len(Frames(c)) = Offset(c) + Len(c.stack)
      /\ \A i \in 0..(Len(c.stack) - 1) : Frame(c, Offset(c) + i) = c.stack[i + 1] /\ c.stack[i + 1] \in Classes
      /\ getStackTrace(c) = c.stack[1]
  BY StraightFrames DEF WellFormed
<1>2. CASE Tracing(t)
  <2>1. 0 \in 0..(Len(c.stack) - 1) /\ 0 + 1 = 1 /\ 1 \in 1..Len(c.stack)
    BY <1>1
  <2>2. c.stack[1] \in Classes
    BY <1>1, <2>1
  <2>3. Asked(t) = c.stack[1]
    BY <1>1, <1>2 DEF Asked
  <2>4. \A i \in 1..(1 - 1) : Owns(c.stack[i]) = {}
    OBVIOUS
  <2>5. 1 <= STACK_SEARCH_WINDOW
    BY DEF STACK_SEARCH_WINDOW
  <2> QED BY <1>2, <2>1, <2>2, <2>3, <2>4, <2>5
<1>3. CASE ~Tracing(t)
  <2>1. c.frame \in Nat /\ c.frame # STACK_SEARCH_WINDOW /\ ~(Offset(c) + c.frame >= Len(Frames(c)))
        /\ Sought(c, c.frame)
    BY <1>3 DEF WellFormed, WorkTyped, Searched, Straightly
  <2>2. c.frame \in 0..(Len(c.stack) - 1)
    BY <1>1, <2>1
  <2>3. c.frame + 1 \in 1..Len(c.stack) /\ c.frame + 1 <= STACK_SEARCH_WINDOW /\ (c.frame + 1) - 1 = c.frame
    BY <1>1, <2>1, <2>2 DEF Sought, STACK_SEARCH_WINDOW
  <2>4. Asked(t) = c.stack[c.frame + 1] /\ Asked(t) \in Classes
    BY <1>1, <1>3, <2>2 DEF Asked
  <2>5. \A i \in 1..((c.frame + 1) - 1) : Owns(c.stack[i]) = {}
    BY <2>1, <2>3 DEF Sought
  <2> QED BY <1>3, <2>3, <2>4, <2>5
<1> QED BY <1>2, <1>3

LEMMA AnswerTags ==
  ASSUME Typed, NEW t \in Threads, pc[t] \in Tagless, ~Searched(t), Straight(call[t]), Straightly(t),
         NEW tag, tag = OwnTag(Asked(t)), Found(t, tag)
  PROVE  StraightTo(t)
<1> DEFINE c == call[t]
<1>0. /\ WellFormed(c) /\ DOMAIN c = Fields /\ DOMAIN call = Threads /\ DOMAIN pc = Threads
      /\ c.stack \in Seq(Classes) /\ c.frame \in Nat /\ Len(c.stack) \in Nat
  <2>1. WellFormed(c) /\ DOMAIN call = Threads /\ DOMAIN pc = Threads
    BY DEF Typed, CallsTyped, Tagless
  <2> QED BY <2>1, Constants DEF WellFormed, FixedTyped, WorkTyped
<1>1. PICK k \in 1..Len(c.stack) :
           /\ k <= STACK_SEARCH_WINDOW /\ k = (IF Tracing(t) THEN 1 ELSE c.frame + 1)
           /\ Asked(t) = c.stack[k] /\ Asked(t) \in Classes
           /\ \A i \in 1..(k - 1) : Owns(c.stack[i]) = {}
  BY <1>0, Asking
<1>2. tag # <<>> => tag = CallersTag(c)
  <2> SUFFICES ASSUME tag # <<>> PROVE tag = CallersTag(c)
    OBVIOUS
  <2>1. Owns(c.stack[k]) # {}
    BY <1>1, NoOwnTag
  <2> QED BY <1>0, <1>1, <2>1, NearestTag
<1>3. c.asked = <<>> /\ (Tracing(t) => c.stack[1] \in NoSource /\ k = 1)
  BY <1>1 DEF Straightly
<1>4. CASE tag # <<>> /\ ~Tracing(t) /\ Tagged(t, tag) /\ Goto(t, "gate")
  <2>1. pc'[t] = "gate" /\ call'[t].tag = tag
    BY <1>0, <1>4, TaggedFields DEF Goto
  <2> QED BY <1>2, <1>4, <2>1 DEF StraightTo, Tagless, Laying, Filing
<1>5. CASE /\ Tracing(t) /\ Goto(t, LaidOut(c))
           /\ Tagged(t, IF tag = <<>> \/ LaidOut(c) = "object" THEN <<"at", Asked(t)>> ELSE tag)
  <2>1. pc'[t] \in {"object", "level"}
    BY <1>0, <1>5 DEF Goto, LaidOut
  <2>2. call'[t].tag = IF tag = <<>> \/ LaidOut(c) = "object" THEN <<"at", Asked(t)>> ELSE tag
    BY <1>0, <1>5, TaggedFields
  <2>3. call'[t].tag \in PositionTags(c)
    BY <1>1, <1>2, <1>3, <1>5, <2>2 DEF PositionTags
  <2> QED BY <1>5, <2>1, <2>3 DEF StraightTo, Tagless
<1>6. CASE tag = <<>> /\ ~Tracing(t) /\ call' = [call EXCEPT ![t].frame = @ + 1] /\ Goto(t, "find")
  <2>1. pc'[t] = "find" /\ call'[t].frame = k
    BY <1>0, <1>1, <1>6 DEF Goto, Fields, Working
  <2>2. Owns(c.stack[k]) = {}
    BY <1>1, <1>6, NoOwnTag
  <2>3. ASSUME NEW i \in 1..k PROVE Owns(c.stack[i]) = {}
    <3>1. i = k \/ i \in 1..(k - 1)
      BY <1>0
    <3> QED BY <1>1, <2>2, <3>1
  <2>4. k <= STACK_SEARCH_WINDOW /\ k <= Len(c.stack)
    BY <1>0, <1>1
  <2>5. Sought(c, k)
    BY <2>3, <2>4 DEF Sought
  <2> QED BY <1>3, <1>6, <2>1, <2>5 DEF StraightTo, Tagless, Laying, Filing
<1> QED BY <1>4, <1>5, <1>6, FoundSteps
(* The walk finds the tag, unless it reads a field too soon.               *)
LEMMA WalkFinds ==
  ASSUME NEW t \in Threads, NEW d, ~TooSoon(t, d)
  PROVE  findTagByWalkingEnclosingAndSuper(t, d) = OwnTag(d)
<1> DEFINE tagged == {i \in DOMAIN Chain(d) : findTagInClass(t, Chain(d)[i])}
<1>1. ASSUME NEW i \in DOMAIN Chain(d)
      PROVE  findTagInClass(t, Chain(d)[i]) <=> Chain(d)[i] \in Annotated \union Fielded
  <2>1. Chain(d)[i] \in ToSet(Chain(d))
    BY DEF ToSet
  <2> QED BY <2>1 DEF TooSoon, findTagInClass
<1>2. tagged = Owns(d)
  BY <1>1 DEF Owns
<1> HIDE DEF tagged
<1>3. findTagByWalkingEnclosingAndSuper(t, d) = IF tagged = {} THEN <<>> ELSE <<"class", Chain(d)[Min(tagged)]>>
  BY DEF findTagByWalkingEnclosingAndSuper, tagged
<1> QED BY <1>2, <1>3 DEF OwnTag

LEMMA SearchTags ==
  ASSUME Typed, CacheTrue, NEW t \in Threads, Tagging(t), FindsTag(t), ~early'
  PROVE  Tagging(t)' /\ CacheTrue'
<1>0. /\ Moved(t) /\ pc[t] \in Tagless /\ pc[t] # "idle" /\ DOMAIN call = Threads /\ DOMAIN pc = Threads
      /\ DOMAIN call[t] = Fields /\ WellFormed(call[t]) /\ DOMAIN CLASS_TAG_CACHE = Classes
      /\ (Straight(call[t]) => Straightly(t))
  <2>1. pc[t] \in Tagless
    BY DEF FindsTag, NoTag, CacheGet, Walk, cacheTag, Tagless
  <2> QED BY <2>1, Moves DEF Typed, CallsTyped, WellFormed, ConfigTyped, Tagless, Tagging
<1>1. CASE NoTag(t)
  <2>1. pc'[t] = "gate" /\ call'[t].tag = <<"NO_TAG">> /\ ~Tracing(t) /\ UNCHANGED CLASS_TAG_CACHE /\ Searched(t)
    BY <1>0, <1>1, TaggedFields DEF NoTag, Goto, Searched, finder
  <2>2. ASSUME Straight(call[t]) PROVE CallersTag(call[t]) = <<"NO_TAG">>
    <3>1. /\ Offset(call[t]) \in Nat /\ call[t].stack \in Seq(Classes) /\ Len(call[t].stack) \in Nat
          /\ Len(Frames(call[t])) = Offset(call[t]) + Len(call[t].stack)
      BY <1>0, <2>2, StraightFrames DEF WellFormed
    <3>2. call[t].frame \in Nat /\ Sought(call[t], call[t].frame)
      BY <1>0, <2>1, <2>2 DEF Straightly, WellFormed, WorkTyped
    <3>3. call[t].frame = STACK_SEARCH_WINDOW \/ call[t].frame >= Len(call[t].stack)
      BY <2>1, <3>1, <3>2 DEF Searched
    <3> QED BY <3>1, <3>2, <3>3, NoTagAround DEF Sought
  <2>3. Straight(call[t]) => StraightTo(t)
    BY <2>1, <2>2 DEF StraightTo, Tagless, Laying, Filing
  <2> QED BY <1>0, <2>1, <2>3, StraightMoved DEF CacheTrue
<1>2. ASSUME ~Searched(t), CacheGet(t) \/ cacheTag(t),
             NEW tag, Found(t, tag), Straight(call[t]) => tag = OwnTag(Asked(t))
      PROVE  Tagging(t)'
  <2>1. Straight(call[t]) => StraightTo(t)
    BY <1>0, <1>2, AnswerTags
  <2>2. pc'[t] # "cache"
    BY <1>0, <1>2, FoundSteps DEF Goto, LaidOut
  <2> QED BY <1>0, <2>1, <2>2, StraightMoved
<1>3. CASE CacheGet(t)
  <2>1. ~Searched(t) /\ Cached(t) # Uncached /\ Found(t, Cached(t)) /\ UNCHANGED CLASS_TAG_CACHE
    BY <1>3 DEF CacheGet, finder
  <2>2. ASSUME Straight(call[t]) PROVE Cached(t) = OwnTag(Asked(t))
    <3>1. Asked(t) \in Classes
      BY <1>0, <2>1, <2>2, Asking
    <3>2. Cached(t) = CLASS_TAG_CACHE[Asked(t)]
      BY <3>1, Constants DEF Cached
    <3> QED BY <2>1, <3>1, <3>2 DEF CacheTrue
  <2> QED BY <1>2, <1>3, <2>1, <2>2 DEF CacheTrue
<1>4. CASE Walk(t)
  <2>1. /\ pc'[t] = "cache" /\ ~Searched(t) /\ ~TooSoon(t, Asked(t)) /\ UNCHANGED CLASS_TAG_CACHE
        /\ call'[t].tag = findTagByWalkingEnclosingAndSuper(t, Asked(t))
        /\ \A f \in Fields \ {"tag"} : call'[t][f] = call[t][f]
    BY <1>0, <1>4 DEF Walk, Goto, Fields, Working
  <2>2. /\ \A f \in {"logger", "op", "via", "stack", "frame"} : call'[t][f] = call[t][f]
        /\ call'[t].asked = call[t].asked /\ call'[t].stack = call[t].stack /\ call'[t].frame = call[t].frame
    BY <2>1 DEF Fields, Fixed, Working
  <2>3. Asked(t)' = Asked(t) /\ (Searched(t)' <=> Searched(t)) /\ (Tracing(t)' <=> Tracing(t))
    BY <2>2, SameAsked
  <2>4. Straight(call'[t]) <=> Straight(call[t])
    BY <2>2, SameFrames
  <2>5. call'[t].tag = OwnTag(Asked(t))
    BY <2>1, WalkFinds
  <2>6. Straightly(t) => Straightly(t)'
    BY <1>0, <2>1, <2>2, <2>3 DEF Straightly, Sought, Tagless, Laying, Filing
  <2> QED BY <1>0, <2>1, <2>3, <2>4, <2>5, <2>6 DEF Tagging, CacheTrue
<1>5. CASE cacheTag(t)
  <2>1. /\ CLASS_TAG_CACHE' = [CLASS_TAG_CACHE EXCEPT ![Asked(t)] = call[t].tag]
        /\ Found(t, call[t].tag) /\ call[t].tag = OwnTag(Asked(t)) /\ ~Searched(t)
    BY <1>5 DEF cacheTag, Tagging
  <2>2. CacheTrue'
    BY <1>0, <2>1 DEF CacheTrue
  <2> QED BY <1>2, <1>5, <2>1, <2>2
<1> QED BY <1>1, <1>3, <1>4, <1>5 DEF FindsTag

(* Once it has a tag, a call keeps it.                                     *)
LEMMA TagPasses ==
  ASSUME NEW t \in Threads, Moved(t), Tagging(t), pc[t] \notin Tagless, pc'[t] \notin Tagless,
         call'[t].tag = call[t].tag, pc'[t] = "gate" => pc[t] = "gate",
         Tracing(t) /\ (pc'[t] \in Laying \/ (pc'[t] = "done" /\ Printed(call'[t])))
           => pc[t] \in Laying \/ (pc[t] = "done" /\ Printed(call[t]))
  PROVE  Tagging(t)'
<1>1. Straight(call[t]) => Straightly(t)
  BY DEF Tagging, Moved, Active, Filing
<1>2. Straight(call[t]) => StraightTo(t)
  BY <1>1 DEF Straightly, StraightTo
<1> QED BY <1>2, StraightMoved DEF Tagless

LEMMA TestsTag ==
  ASSUME Typed, Levels, NEW t \in Threads, Tagging(t), Prints(t)
  PROVE  Tagging(t)'
<1>0. /\ Moved(t) /\ DOMAIN call = Threads /\ DOMAIN pc = Threads /\ pc[t] # "idle"
      /\ DOMAIN call[t] = Fields /\ WellFormed(call[t]) /\ {"tag", "logcat", "file"} \subseteq Fields
      /\ pc[t] \in {"gate", "object", "level", "print"} /\ ~Printed(call[t])
      /\ (Straight(call[t]) => Straightly(t))
  <2>1. pc[t] \in {"gate", "object", "level", "print"}
    BY DEF Prints, NotOff, Asks, Skip, Gate, internalPrintObject, internalPrintLog, PrintLine
  <2> QED BY <2>1, Moves DEF Typed, CallsTyped, WellFormed, Levels, Levelled, Filing, Tagging, Fields, Working
<1>1. CASE Answered(t) /\ pc'[t] \in {"done", "level", "print"} /\ (pc[t] # "gate" \/ ~Tracing(t) \/ pc'[t] = "done")
  <2>1. call'[t].tag = call[t].tag /\ ~Printed(call'[t])
    BY <1>0, <1>1, AnsweredFields DEF Printed
  <2> QED BY <1>0, <1>1, <2>1, TagPasses DEF Tagless, Laying, Filing
<1>2. CASE NotOff(t)
  <2>1. call'[t].tag = call[t].tag /\ ~Printed(call'[t]) /\ pc' = pc
    BY <1>0, <1>2 DEF NotOff, Printed
  <2> QED BY <1>0, <2>1, TagPasses DEF Tagless
<1>3. CASE PrintLine(t)
  <2>1. call'[t].tag = call[t].tag /\ pc[t] = "print" /\ pc'[t] \in {"done", "file"}
    BY <1>0, <1>3 DEF PrintLine, Goto
  <2> QED BY <1>0, <2>1, TagPasses DEF Tagless, Laying
<1>4. CASE Skip(t) \/ internalPrintObject(t) \/ internalPrintLog(t)
  <2>1. Answered(t) /\ pc'[t] \in {"done", "level", "print"} /\ (pc[t] # "gate" \/ pc'[t] = "done")
    BY <1>0, <1>4 DEF Skip, internalPrintObject, internalPrintLog, Goto
  <2> QED BY <1>1, <2>1
<1>5. CASE Gate(t)
  <2>0. pc[t] = "gate"
    BY <1>5 DEF Gate
  <2>1. CASE ~Tracing(t) /\ Answered(t) /\ Goto(t, "print")
    BY <1>0, <1>1, <2>1 DEF Goto
  <2>2. CASE Tracing(t) /\ call[t].tag # <<>> /\ Answered(t) /\ Goto(t, LaidOut(call[t]))
    <3>1. pc'[t] \in {"object", "level"}
      BY <1>0, <2>2 DEF Goto, LaidOut
    <3>2. Straight(call[t]) => call[t].asked # <<>>
      BY <1>0, <2>0, <2>2 DEF Straightly
    <3> QED BY <1>0, <2>2, <3>1, <3>2, StraightMoved DEF StraightTo, Tagless
  <2>3. CASE /\ Tracing(t) /\ call[t].tag = <<>> /\ getStackTrace(call[t]) \in NoSource
             /\ Answered(t) /\ Goto(t, "find")
    <3>1. pc'[t] = "find"
      BY <1>0, <2>3 DEF Goto
    <3>2. Straight(call[t]) => call[t].asked = <<>> /\ call[t].stack[1] \in NoSource
      BY <1>0, <2>0, <2>3, StraightFrames DEF Straightly, WellFormed
    <3> QED BY <1>0, <2>3, <3>1, <3>2, StraightMoved DEF StraightTo, Tagless, Laying, Filing
  <2>4. CASE /\ Tracing(t) /\ call[t].tag = <<>> /\ Goto(t, LaidOut(call[t]))
             /\ call' = [call EXCEPT ![t].on = FALSE, ![t].tag = <<"at", getStackTrace(call[t])>>]
    <3>1. pc'[t] \in {"object", "level"} /\ call'[t].tag = <<"at", getStackTrace(call[t])>>
      BY <1>0, <2>4 DEF Goto, LaidOut, Fields, Working
    <3>2. Straight(call[t]) => call'[t].tag \in PositionTags(call[t])
      BY <1>0, <3>1, StraightFrames DEF WellFormed, PositionTags
    <3> QED BY <1>0, <2>4, <3>1, <3>2, StraightMoved DEF StraightTo, Tagless
  <2> QED BY <1>5, <2>1, <2>2, <2>3, <2>4, GateSteps
<1> QED BY <1>2, <1>3, <1>4, <1>5 DEF Prints

LEMMA WritesTag ==
  ASSUME Typed, NEW t \in Threads, Tagging(t), Writes(t)
  PROVE  Tagging(t)'
<1>0. /\ Moved(t) /\ DOMAIN call = Threads /\ DOMAIN pc = Threads
      /\ DOMAIN call[t] = Fields /\ {"tag"} \subseteq Fields /\ pc[t] \in Filing
  BY Moves DEF Typed, CallsTyped, WellFormed, Moved, Active, Filing, Fields, Working, Writes, PrintToFile,
     Measure, Interrupted, Put, PrintFails
<1>1. call'[t].tag = call[t].tag
  <2>1. CASE Put(t)
    <3>1. PICK x, y : call' = [call EXCEPT ![t].remaining = x, ![t].file = y]
      BY <2>1 DEF Put
    <3> QED BY <1>0, <3>1
  <2> QED BY <1>0, <2>1 DEF Writes, PrintToFile, Measure, Interrupted, PrintFails
<1>2. pc'[t] \in Filing \union {"done"}
  BY <1>0 DEF Writes, PrintToFile, Measure, Interrupted, Put, PrintFails, Goto, Filing
<1> QED BY <1>0, <1>1, <1>2, TagPasses DEF Tagless, Laying, Filing

LEMMA NextTags == ASSUME Typed, Levels, Tags, [Next]_vars PROVE Tags'
<1>0. CallsTyped /\ ConfigTyped
  BY DEF Typed
<1> SUFFICES ASSUME ~early' PROVE CacheTrue' /\ \A t \in Threads : Tagging(t)'
  BY DEF Tags
<1>1. early' = early \/ \E t \in Threads : Walk(t)
  BY DEF Next, FindsTag, Prints, Writes, NoTag, CacheGet, cacheTag, NotOff, Skip, Gate,
     internalPrintObject, internalPrintLog, PrintLine, PrintToFile, Measure, Interrupted, Put, PrintFails, Call, Return, setupImpl,
     setDefaultTag, Started, setLogPriority, setAllowPrint, Trim, Drain, WriterFails, vars, finder
<1>2. CacheTrue /\ \A t \in Threads : Tagging(t)
  <2>1. ~early
    BY <1>1 DEF Walk
  <2> QED BY <2>1 DEF Tags
<1>3. ASSUME NEW u \in Threads, call'[u] = call[u], pc'[u] = pc[u] PROVE Tagging(u)'
  BY <1>2, <1>3, SameTagging
<1>4. ASSUME NEW t \in Threads, FindsTag(t) \/ Prints(t) \/ Writes(t)
      PROVE  CacheTrue' /\ \A u \in Threads : Tagging(u)'
  <2>1. Moved(t)
    BY <1>0, <1>4, Moves
  <2>2. \A u \in Threads \ {t} : Tagging(u)'
    BY <1>3, <2>1 DEF Moved
  <2>3. Tagging(t)'
    BY <1>2, <1>4, SearchTags, TestsTag, WritesTag
  <2>4. CacheTrue'
    <3>1. Prints(t) \/ Writes(t) => UNCHANGED CLASS_TAG_CACHE
      BY DEF Prints, Writes, NotOff, Skip, Gate, internalPrintObject, internalPrintLog, PrintLine, PrintToFile,
         Measure, Interrupted, Put, PrintFails, finder
    <3>2. UNCHANGED CLASS_TAG_CACHE => CacheTrue'
      BY <1>2 DEF CacheTrue
    <3> QED BY <1>2, <1>4, <3>1, <3>2, SearchTags
  <2> QED BY <2>2, <2>3, <2>4
<1>5. ASSUME NEW t \in Threads, Call(t) PROVE CacheTrue' /\ \A u \in Threads : Tagging(u)'
  <2>1. \A u \in Threads \ {t} : Tagging(u)'
    BY <1>3, <1>5, CallBegins
  <2>2. /\ pc'[t] = IF call'[t].tag = <<>> /\ call'[t].logger.strategy = "default" THEN "find" ELSE "gate"
        /\ call'[t].tag = call'[t].asked /\ call'[t].frame = 0 /\ WellFormed(call'[t])
        /\ UNCHANGED finder
    BY <1>5, CallBegins
  <2>3. call'[t].logger.strategy \in {"default", "trace"}
    BY <2>2, Constants DEF WellFormed, FixedTyped, LLogger
  <2>4. Sought(call'[t], 0)
    <3>1. Len(call'[t].stack) \in Nat
      BY <2>2, Constants DEF WellFormed, FixedTyped
    <3> QED BY <3>1 DEF Sought, STACK_SEARCH_WINDOW
  <2>5. Straightly(t)'
    BY <2>2, <2>3, <2>4 DEF Straightly, Tracing, Tagless, Laying, Filing
  <2>6. Tagging(t)'
    BY <2>2, <2>5 DEF Tagging
  <2> QED BY <1>2, <2>1, <2>2, <2>6 DEF CacheTrue, finder
<1>6. ASSUME NEW t \in Threads, Return(t) PROVE CacheTrue' /\ \A u \in Threads : Tagging(u)'
  <2>1. /\ \A u \in Threads \ {t} : call'[u] = call[u] /\ pc'[u] = pc[u]
        /\ pc'[t] = "idle" /\ UNCHANGED CLASS_TAG_CACHE
    BY <1>0, <1>6 DEF Return, Goto, CallsTyped, finder
  <2> QED BY <1>2, <1>3, <2>1 DEF Tagging, CacheTrue
<1>7. CASE Remembered /\ UNCHANGED <<pc, CLASS_TAG_CACHE>>
  <2>1. ASSUME NEW u \in Threads, pc[u] # "idle" PROVE Tagging(u)'
    <3>1. \A f \in Fields \ {"lo", "hi"} : call'[u][f] = call[u][f]
      BY <1>7, <2>1, RememberedFields, NextConfigTyped
    <3> QED BY <1>2, <1>7, <3>1, SameTagging
  <2>2. ASSUME NEW u \in Threads, pc[u] = "idle" PROVE Tagging(u)'
    BY <1>7, <2>2 DEF Tagging
  <2> QED BY <1>2, <1>7, <2>1, <2>2 DEF CacheTrue
<1>8. CASE UNCHANGED <<pc, call>> /\ CacheTrue'
  BY <1>3, <1>8
<1>9. ASSUME NEW t \in Threads, setupImpl(t) \/ setDefaultTag(t) \/ Started(t)
      PROVE  CacheTrue' /\ \A u \in Threads : Tagging(u)'
  <2>1. UNCHANGED <<pc, call, CLASS_TAG_CACHE>>
    BY <1>9 DEF setupImpl, setDefaultTag, Started, finder
  <2> QED BY <1>2, <1>8, <2>1 DEF CacheTrue
<1>10. setLogPriority \/ setAllowPrint => Remembered /\ UNCHANGED <<pc, CLASS_TAG_CACHE>>
  BY DEF setLogPriority, setAllowPrint, finder
<1>11. CASE Trim
  <2>1. PICK c \in Classes : CLASS_TAG_CACHE' = [CLASS_TAG_CACHE EXCEPT ![c] = Uncached]
    BY <1>11 DEF Trim
  <2>2. CacheTrue'
    BY <1>0, <1>2, <2>1 DEF CacheTrue, ConfigTyped
  <2> QED BY <1>8, <1>11, <2>2 DEF Trim
<1>12. CASE Drain \/ WriterFails \/ UNCHANGED vars
  <2>1. UNCHANGED <<pc, call, CLASS_TAG_CACHE>>
    BY <1>12 DEF Drain, WriterFails, vars, finder
  <2> QED BY <1>2, <1>8, <2>1 DEF CacheTrue
<1> QED BY <1>4, <1>5, <1>6, <1>7, <1>9, <1>10, <1>11, <1>12 DEF Next

(* A line printed without a tag of its own carries its caller's, or its    *)
(* caller's position, however the cache was filled and trimmed, as long as *)
(* no class logged before its TAG was set.                                 *)
(* Code: LogcatLogger, TagFinder, TracerLogger, LLog, StackTraceLogger.    *)
THEOREM TagsKept == Spec => []CallerTagged
<1>1. Init => Typed /\ Levels /\ Tags
  <2> SUFFICES ASSUME Init PROVE Typed /\ Levels /\ Tags
    OBVIOUS
  <2>1. \A t \in Threads : pc[t] = "idle"
    BY DEF Init
  <2>2. Levels
    BY <2>1 DEF Init, Levels, Levelled
  <2>3. Tags
    BY <2>1 DEF Init, Tags, CacheTrue, Tagging
  <2> QED BY <2>2, <2>3, InitTyped
<1>2. Typed /\ Levels /\ Tags /\ [Next]_vars => (Typed /\ Levels /\ Tags)'
  BY NextTyped, NextLevels, NextTags
<1>3. Tags => CallerTagged
  <2> SUFFICES ASSUME Tags, NEW t \in Threads, Done(t), Printed(call[t]), call[t].asked = <<>>, ~early,
                      call[t].via = "LLog" \/ Depth(call[t]) = Offset(call[t])
               PROVE  IF Tracing(t) THEN call[t].tag \in PositionTags(call[t])
                      ELSE call[t].tag = CallersTag(call[t])
    BY DEF CallerTagged
  <2>1. Straight(call[t])
    BY DEF Straight, Depth, Offset, LLogOffset
  <2>2. Straightly(t)
    BY <2>1 DEF Tags, Tagging, Done
  <2> QED BY <2>2 DEF Straightly, Done, Tagless
<1> QED BY <1>1, <1>2, <1>3, PTL DEF Spec
=============================================================================
