------------------------------ MODULE Logging ------------------------------
(***************************************************************************)
(* The loggers of com.threshold.toolbox.log: SLog in front of an ILog, the *)
(* two implementations (LogcatLogger and TracerLogger over                 *)
(* StackTraceLogger), the printers (LogcatPrinter and SimpleDiskPrinter),  *)
(* and TagFinder's cache.  Any thread may log while others change the      *)
(* level, the implementation or their tag, and while the cache is trimmed. *)
(* LLog is the older front end, with a StackTraceLogger and a switch of its *)
(* own.                                                                    *)
(*                                                                         *)
(* A line is the number of its call; its text is left out.  A tag is      *)
(* <<>> (null or empty), <<name>>, <<"class", c>> where class c declares   *)
(* it, or <<"at", c>> where it is the position of a call in c.  The writer   *)
(* under SimpleDiskPrinter is AsyncFileWriter, seen from write(): a ring   *)
(* that is measured and filled in two steps and drained by its worker.     *)
(***************************************************************************)
EXTENDS Integers, SequencesExt, FiniteSetsExt

CONSTANTS Threads,
          Classes,      \* classes of the application
          Enclosing,    \* class -> itself and the classes around it
          Supers,       \* class -> its superclasses
          Annotated,    \* classes with @LogTag
          Fielded,      \* classes with a field TAG that its initialiser computes
          NoSource,     \* classes without line numbers
          Stacks,       \* the callers of a call, the nearest first
          Loggers,      \* what setupImpl may be given
          Calls,        \* what a thread may log: op, via ("SLog", "ILog" or
                        \* "LLog"), level, tag, and
                        \* what the tracer cannot lay out: bad is "no",
                        \* "null" or "empty"
          Thresholds,   \* what the application may set the level to
          LineLen, RingSize,
          MaxCalls, MaxChanges, MaxTrims, MaxFaults

OFF == -1
DEBUG == 3
ERROR == 6
Lib == "library"
STACK_SEARCH_WINDOW == 5
Uncached == <<"uncached">>
Name == <<"name">>    \* a tag that the application gives
Priorities == 2..7    \* VERBOSE to ASSERT

ASSUME LoggingAssumption ==
  /\ "none" \notin Threads /\ Lib \notin Classes
  /\ Enclosing \in [Classes -> Seq(Classes)] /\ Supers \in [Classes -> Seq(Classes)]
  /\ Annotated \union Fielded \union NoSource \subseteq Classes
  /\ Stacks \subseteq Seq(Classes) \ {<<>>}
  /\ Loggers \subseteq [strategy : {"default", "trace"}, methodOffset : Nat,
                        printer : {"logcat", "both", "disk"}]
  /\ Calls \subseteq [op : {"log", "obj"}, via : {"SLog", "ILog", "LLog"}, level : Priorities,
                      tag : {<<>>, Name}, bad : {"no", "null", "empty"}]
  /\ Thresholds \subseteq Priorities \union {OFF}
  /\ LineLen \in Nat \ {0} /\ RingSize \in Nat \ {0}
  /\ MaxCalls \in Nat /\ MaxChanges \in Nat /\ MaxTrims \in Nat /\ MaxFaults \in Nat

VARIABLES sILog,                \* the implementation in force
          mDefaultLogTag,       \* its tag, one per thread
          sCurrentLogPriority,
          allowPrint,           \* LLog's switch
          CLASS_TAG_CACHE,      \* class -> the tag cached, or Uncached
          starting,             \* class -> the thread that runs its initialiser, or "none"
          mFileWriterInvalid, open, ring, drained,  \* the disk printer and its writer
          pc, call,             \* per thread: the next step and the call it makes
          early, overlapped,    \* history: a field read too soon, two threads in write(),
          interrupted,          \* a thread interrupted while it waits in write()
          calls, changes, trims, faults

config == <<sILog, mDefaultLogTag, sCurrentLogPriority, allowPrint>>
disk == <<mFileWriterInvalid, open, ring, drained, overlapped, interrupted>>
finder == <<CLASS_TAG_CACHE, starting, early>>
counts == <<calls, changes, trims, faults>>
vars == <<config, finder, disk, pc, call, counts>>

-----------------------------------------------------------------------------
(* Call stacks. A call enters the logger through SLog or on the ILog itself,
   with or without SLog's private helper; what the platform puts on top of
   the stack and the logger's own frames come before the caller's. *)

Depth(c) ==
  IF c.via = "LLog" THEN 4
  ELSE (IF c.logger.strategy = "default" THEN 4 ELSE 5)
         + (IF c.via = "ILog" THEN 0 ELSE IF c.op = "log" THEN 2 ELSE 1)

LLogOffset == 4
Offset(c) == IF c.via = "LLog" THEN LLogOffset ELSE 5 + c.logger.methodOffset

\* Frame i of the current stack, counted from 0.
Frames(c) == [i \in 1..Depth(c) |-> Lib] \o c.stack
Frame(c, i) == Frames(c)[i + 1]

\* TraceUtil.getStackTrace: the last frame if the stack is too short.
getStackTrace(c) ==
  IF Len(Frames(c)) > Offset(c) THEN Frame(c, Offset(c)) ELSE Last(Frames(c))

-----------------------------------------------------------------------------
(* TagFinder. *)

\* The class, around c or above it, whose tag thread t finds first. A field
\* that the initialiser has not yet set is null to the thread that runs it.
Chain_Mutant(c) == <<c>> \o Supers[c]
Chain(c) == Enclosing[c] \o Supers[c]
findTagInClass(t, c) == c \in Annotated \/ (c \in Fielded /\ starting[c] # t)
findTagByWalkingEnclosingAndSuper(t, c) ==
  LET tagged == {i \in DOMAIN Chain(c) : findTagInClass(t, Chain(c)[i])}
  IN  IF tagged = {} THEN <<>> ELSE <<"class", Chain(c)[Min(tagged)]>>

\* Reading a class waits for its initialiser in another thread.
Readable(t, c) == \A d \in ToSet(Chain(c)) : starting[d] \in {"none", t}
TooSoon(t, c) == \E d \in ToSet(Chain(c)) \intersect Fielded : starting[d] = t

-----------------------------------------------------------------------------
\* SLog starts with a LogcatLogger, and the level is VERBOSE, unless the
\* application sets them up first.
Init ==
  /\ sILog \in Loggers
  /\ mDefaultLogTag = [t \in Threads |-> <<>>]
  /\ sCurrentLogPriority \in Thresholds
  /\ allowPrint = TRUE
  /\ CLASS_TAG_CACHE = [c \in Classes |-> Uncached]
  /\ starting \in [Classes -> Threads \union {"none"}]
  /\ \A c \in Classes \ Fielded : starting[c] = "none"
  /\ mFileWriterInvalid = FALSE /\ open = TRUE
  /\ ring = <<>> /\ drained = 0
  /\ pc = [t \in Threads |-> "idle"]
  /\ call = [t \in Threads |-> <<>>]
  /\ early = FALSE /\ overlapped = FALSE /\ interrupted = FALSE
  /\ calls = 0 /\ changes = 0 /\ trims = 0 /\ faults = 0

\* The lowest level that is printed, at the level set and LLog's switch.
Bar(threshold) == IF threshold = OFF THEN 99 ELSE threshold
BarOf(via, threshold, allowed) ==
  IF via # "LLog" THEN Bar(threshold) ELSE IF allowed THEN 0 ELSE Bar(OFF)

\* The logger that serves a call, and the tag it is given.
SLogFront(t, c) == [logger |-> sILog, tag |-> IF c.tag = <<>> THEN mDefaultLogTag[t] ELSE c.tag]
LLogFront(c) == [logger |-> [strategy |-> "trace", printer |-> "llog"], tag |-> c.tag]
Served(t, c) == IF c.via = "LLog" THEN LLogFront(c) ELSE SLogFront(t, c)

\* A thread logs. The class of each caller is loaded, or this thread loads it.
Call(t) ==
  /\ pc[t] = "idle"
  /\ calls < MaxCalls
  /\ calls' = calls + 1
  /\ \E c \in Calls, stack \in Stacks :
       /\ \A d \in ToSet(stack) : Readable(t, d)
       /\ \A d \in Classes : starting[d] = t => d \in ToSet(stack)
       /\ c.bad # "no" /\ c.via # "LLog" => sILog.strategy = "trace"
       /\ call' = [call EXCEPT ![t] =
            [id |-> calls', logger |-> Served(t, c).logger, op |-> c.op, via |-> c.via, stack |-> stack,
             level |-> c.level, bad |-> c.bad,
             asked |-> Served(t, c).tag, tag |-> Served(t, c).tag,
             frame |-> 0, on |-> FALSE, writable |-> 0, remaining |-> LineLen,
             lo |-> BarOf(c.via, sCurrentLogPriority, allowPrint),
             hi |-> BarOf(c.via, sCurrentLogPriority, allowPrint),
             logcat |-> FALSE, file |-> FALSE]]
  /\ pc' = [pc EXCEPT ![t] =
       IF call'[t].tag = <<>> /\ call'[t].logger.strategy = "default" THEN "find" ELSE "gate"]
  /\ UNCHANGED <<config, finder, disk, changes, trims, faults>>

-----------------------------------------------------------------------------
(* The tag: LogcatLogger.currentLogTag over several frames, StackTraceLogger's
   generateTagAndFileName over one. *)

Tracing(t) == call[t].logger.strategy = "trace"

\* The class that TagFinder is asked for.
Asked(t) ==
  IF Tracing(t) THEN getStackTrace(call[t]) ELSE Frame(call[t], Offset(call[t]) + call[t].frame)

\* No frame is left to look at.
Searched(t) ==
  /\ ~Tracing(t)
  /\ \/ call[t].frame = STACK_SEARCH_WINDOW
     \/ Offset(call[t]) + call[t].frame >= Len(Frames(call[t]))

Goto(t, step) == pc' = [pc EXCEPT ![t] = step]
Tagged(t, tag) == call' = [call EXCEPT ![t].tag = tag, ![t].frame = 0]

\* The tracer lays out objects, except null at a position, after one more
\* look at the level; their line is tagged with the position alone.
LaidOut(c) == IF c.op = "obj" /\ (c.bad # "null" \/ c.asked # <<>>) THEN "object" ELSE "level"

\* TagFinder answers.
Found(t, tag) ==
  CASE tag # <<>> /\ ~Tracing(t) -> Tagged(t, tag) /\ Goto(t, "gate")
    [] Tracing(t) ->
         /\ Tagged(t, IF tag = <<>> \/ LaidOut(call[t]) = "object" THEN <<"at", Asked(t)>> ELSE tag)
         /\ Goto(t, LaidOut(call[t]))
    [] OTHER -> call' = [call EXCEPT ![t].frame = @ + 1] /\ Goto(t, "find")

NoTag(t) ==
  /\ pc[t] = "find" /\ Searched(t)
  /\ Tagged(t, <<"NO_TAG">>) /\ Goto(t, "gate")
  /\ UNCHANGED <<config, finder, disk, counts>>

\* The cache is asked, then the class. The loggers' own classes have no tag.
Cached(t) == IF Asked(t) = Lib THEN <<>> ELSE CLASS_TAG_CACHE[Asked(t)]
CacheGet(t) ==
  /\ pc[t] = "find" /\ ~Searched(t)
  /\ Cached(t) # Uncached
  /\ Found(t, Cached(t))
  /\ UNCHANGED <<config, finder, disk, counts>>

Walk(t) ==
  /\ pc[t] = "find" /\ ~Searched(t)
  /\ Cached(t) = Uncached
  /\ Readable(t, Asked(t))
  /\ call' = [call EXCEPT ![t].tag = findTagByWalkingEnclosingAndSuper(t, Asked(t))]
  /\ Goto(t, "cache")
  /\ early' = (early \/ TooSoon(t, Asked(t)))
  /\ UNCHANGED <<config, CLASS_TAG_CACHE, starting, disk, counts>>

cacheTag(t) ==
  /\ pc[t] = "cache"
  /\ CLASS_TAG_CACHE' = [CLASS_TAG_CACHE EXCEPT ![Asked(t)] = call[t].tag]
  /\ Found(t, call[t].tag)
  /\ UNCHANGED <<config, starting, early, disk, counts>>

-----------------------------------------------------------------------------
(* The level. isPrintable reads it twice, to see that it is not OFF and to
   compare. *)

\* StackTraceLogger.isPrintable asks for DEBUG whatever the level is; later
\* the tracer reports as an error what it cannot lay out.
LineLevel(c) == IF c.logger.strategy = "trace" /\ c.bad # "no" THEN ERROR ELSE c.level
Level(t) ==
  CASE pc[t] = "object" \/ (pc[t] = "gate" /\ Tracing(t)) -> DEBUG
    [] pc[t] = "gate" /\ ~Tracing(t) -> call[t].level
    [] OTHER -> LineLevel(call[t])

Reaches_Mutant(level) == level > sCurrentLogPriority
Reaches(level) == level >= sCurrentLogPriority

\* SimpleDiskPrinter.print does not ask, but its parent's does; LLog has no
\* test of its own.
Asks(t) ==
  \/ pc[t] = "gate" /\ call[t].via # "LLog"
  \/ pc[t] \in {"object", "level"}
  \/ pc[t] = "print" /\ call[t].logger.printer # "disk"

NotOff(t) ==
  /\ Asks(t) /\ call[t].via # "LLog" /\ ~call[t].on
  /\ sCurrentLogPriority # OFF
  /\ call' = [call EXCEPT ![t].on = TRUE]
  /\ UNCHANGED <<config, finder, disk, pc, counts>>

isPrintable(t) ==
  /\ Asks(t)
  /\ IF call[t].via = "LLog" THEN allowPrint ELSE call[t].on /\ Reaches(Level(t))
NotPrintable(t) ==
  /\ Asks(t)
  /\ CASE call[t].via = "LLog" -> ~allowPrint
       [] call[t].on -> ~Reaches(Level(t))
       [] OTHER -> sCurrentLogPriority = OFF

Answered(t) == call' = [call EXCEPT ![t].on = FALSE]

Skip(t) ==
  /\ pc[t] \in {"gate", "object", "level"}
  /\ NotPrintable(t)
  /\ Answered(t) /\ Goto(t, "done")
  /\ UNCHANGED <<config, finder, disk, counts>>

\* The tracer then looks for a tag, unless the call has one; without a source
\* to point at it asks TagFinder.
Gate(t) ==
  /\ pc[t] = "gate" /\ (Asks(t) => isPrintable(t))
  /\ CASE ~Tracing(t) -> Answered(t) /\ Goto(t, "print")
       [] Tracing(t) /\ call[t].tag # <<>> -> Answered(t) /\ Goto(t, LaidOut(call[t]))
       [] OTHER ->
            IF getStackTrace(call[t]) \in NoSource
            THEN Answered(t) /\ Goto(t, "find")
            ELSE /\ call' = [call EXCEPT ![t].on = FALSE,
                                         ![t].tag = <<"at", getStackTrace(call[t])>>]
                 /\ Goto(t, LaidOut(call[t]))
  /\ UNCHANGED <<config, finder, disk, counts>>

internalPrintObject(t) ==
  /\ pc[t] = "object" /\ isPrintable(t)
  /\ Answered(t) /\ Goto(t, "level")
  /\ UNCHANGED <<config, finder, disk, counts>>

internalPrintLog(t) ==
  /\ pc[t] = "level" /\ isPrintable(t)
  /\ Answered(t) /\ Goto(t, "print")
  /\ UNCHANGED <<config, finder, disk, counts>>

\* LogcatPrinter.print tests the level once more; SimpleDiskPrinter.print has
\* its parent print first, and does not test the level for the file.
PrintLine(t) ==
  /\ pc[t] = "print"
  /\ ~Asks(t) \/ isPrintable(t) \/ NotPrintable(t)
  /\ call' = [call EXCEPT ![t].logcat = isPrintable(t), ![t].on = FALSE]
  /\ Goto(t, IF call[t].logger.printer \in {"logcat", "llog"} THEN "done" ELSE "file")
  /\ UNCHANGED <<config, finder, disk, counts>>

-----------------------------------------------------------------------------
(* The file. *)

Free == RingSize - (Len(ring) - drained)

\* Some other thread is in write().
Writing(t) == \E u \in Threads \ {t} : pc[u] \in {"measure", "put"}

PrintToFile(t) ==
  /\ pc[t] = "file"
  /\ Goto(t, IF mFileWriterInvalid THEN "done" ELSE IF open THEN "measure" ELSE "fail")
  /\ overlapped' = (overlapped \/ (~mFileWriterInvalid /\ open /\ Writing(t)))
  /\ UNCHANGED <<config, finder, mFileWriterInvalid, open, ring, drained, interrupted, call, counts>>

\* A thread that finds the ring full sleeps and looks again.
Writable_Mutant(c) == c.remaining
Writable(c) == IF Free < c.remaining THEN Free ELSE c.remaining
Measure(t) ==
  /\ pc[t] = "measure"
  /\ Free > 0
  /\ call' = [call EXCEPT ![t].writable = Writable(call[t])]
  /\ Goto(t, "put")
  /\ UNCHANGED <<config, finder, disk, counts>>

\* One that is interrupted as it sleeps closes the writer for every thread,
\* and goes on with its line.
Interrupted(t) ==
  /\ pc[t] = "measure"
  /\ Free <= 0
  /\ open' = FALSE
  /\ interrupted' = TRUE
  /\ UNCHANGED <<config, finder, mFileWriterInvalid, ring, drained, overlapped, pc, call, counts>>

\* The ring takes what has room. Less than was measured closes the writer.
Put(t) ==
  LET written == IF Free < call[t].writable THEN Free ELSE call[t].writable
      rest == call[t].remaining - written
  IN  /\ pc[t] = "put"
      /\ ring' = ring \o [i \in 1..written |-> call[t].id]
      /\ open' = (open /\ written = call[t].writable)
      /\ call' = [call EXCEPT ![t].remaining = rest, ![t].file = rest = 0]
      /\ Goto(t, IF rest = 0 THEN "done" ELSE "measure")
      /\ UNCHANGED <<config, finder, mFileWriterInvalid, drained, overlapped, interrupted, counts>>

PrintFails(t) ==
  /\ pc[t] = "fail"
  /\ mFileWriterInvalid' = TRUE
  /\ open' = FALSE
  /\ Goto(t, "done")
  /\ UNCHANGED <<config, finder, ring, drained, overlapped, interrupted, call, counts>>

Return(t) ==
  /\ pc[t] = "done"
  /\ Goto(t, "idle")
  /\ call' = [call EXCEPT ![t] = <<>>]
  /\ UNCHANGED <<config, finder, disk, counts>>

-----------------------------------------------------------------------------
(* What happens meanwhile. *)

Changing == changes < MaxChanges /\ changes' = changes + 1

\* Each call remembers the lowest and the highest bar there was during it.
Remembered ==
  call' = [t \in Threads |->
    IF call[t] = <<>> THEN <<>>
    ELSE LET bar == BarOf(call[t].via, sCurrentLogPriority', allowPrint')
         IN  [call[t] EXCEPT !.lo = IF bar < @ THEN bar ELSE @, !.hi = IF bar > @ THEN bar ELSE @]]

setLogPriority ==
  /\ Changing
  /\ sCurrentLogPriority' \in Thresholds \ {sCurrentLogPriority}
  /\ allowPrint' = allowPrint
  /\ Remembered
  /\ UNCHANGED <<sILog, mDefaultLogTag, finder, disk, pc, calls, trims, faults>>

setAllowPrint ==
  /\ Changing
  /\ allowPrint' = ~allowPrint
  /\ sCurrentLogPriority' = sCurrentLogPriority
  /\ Remembered
  /\ UNCHANGED <<sILog, mDefaultLogTag, finder, disk, pc, calls, trims, faults>>

\* The constructor gives the tag to the thread that creates the logger.
setupImpl(t) ==
  /\ pc[t] = "idle"
  /\ Changing
  /\ sILog' \in Loggers
  /\ \E tag \in {<<>>, Name} :
       mDefaultLogTag' = [u \in Threads |-> IF u = t THEN tag ELSE <<>>]
  /\ UNCHANGED <<sCurrentLogPriority, allowPrint, finder, disk, pc, call, calls, trims, faults>>

setDefaultTag(t) ==
  /\ pc[t] = "idle"
  /\ Changing
  /\ mDefaultLogTag' = [mDefaultLogTag EXCEPT ![t] = IF @ = <<>> THEN Name ELSE <<>>]
  /\ UNCHANGED <<sILog, sCurrentLogPriority, allowPrint, finder, disk, pc, call, calls, trims, faults>>

\* The eldest entry makes room, a reference is cleared, or (entry by entry)
\* clearCache runs.
Trim ==
  /\ trims < MaxTrims
  /\ trims' = trims + 1
  /\ \E c \in Classes :
       /\ CLASS_TAG_CACHE[c] # Uncached
       /\ CLASS_TAG_CACHE' = [CLASS_TAG_CACHE EXCEPT ![c] = Uncached]
  /\ UNCHANGED <<config, starting, early, disk, pc, call, calls, changes, faults>>

\* A class initialiser ends.
Started(t) ==
  /\ pc[t] = "idle"
  /\ \E c \in Classes : starting[c] = t /\ starting' = [starting EXCEPT ![c] = "none"]
  /\ UNCHANGED <<config, CLASS_TAG_CACHE, early, disk, pc, call, counts>>

\* The writer's worker empties the ring, or fails and closes the writer.
Drain ==
  /\ drained < Len(ring)
  /\ drained' = Len(ring)
  /\ UNCHANGED <<config, finder, mFileWriterInvalid, open, ring, overlapped, interrupted, pc, call, counts>>

WriterFails ==
  /\ sILog.printer # "logcat"
  /\ faults < MaxFaults
  /\ faults' = faults + 1
  /\ open
  /\ open' = FALSE
  /\ UNCHANGED <<config, finder, mFileWriterInvalid, ring, drained, overlapped, interrupted, pc, call,
                 calls, changes, trims>>

FindsTag(t) == NoTag(t) \/ CacheGet(t) \/ Walk(t) \/ cacheTag(t)
Prints(t) == NotOff(t) \/ Skip(t) \/ Gate(t) \/ internalPrintObject(t)
             \/ internalPrintLog(t) \/ PrintLine(t)
Writes(t) == PrintToFile(t) \/ Measure(t) \/ Interrupted(t) \/ Put(t) \/ PrintFails(t)

Next ==
  \/ \E t \in Threads :
       \/ Call(t) \/ FindsTag(t) \/ Prints(t) \/ Writes(t) \/ Return(t)
       \/ setupImpl(t) \/ setDefaultTag(t) \/ Started(t)
  \/ setLogPriority \/ setAllowPrint \/ Trim \/ Drain \/ WriterFails

Spec == Init /\ [][Next]_vars

-----------------------------------------------------------------------------
(* Properties. *)

Done(t) == pc[t] = "done"
Printed(c) == c.logcat \/ c.file

\* The tag of the nearest of the caller and the four frames above it.
CallersTag(c) ==
  LET around(d) == Enclosing[d] \o Supers[d]
      owners(d) == {i \in DOMAIN around(d) : around(d)[i] \in Annotated \union Fielded}
      frames == {i \in DOMAIN c.stack \intersect 1..STACK_SEARCH_WINDOW : owners(c.stack[i]) # {}}
      nearest == c.stack[Min(frames)]
  IN  IF frames = {} THEN <<"NO_TAG">> ELSE <<"class", around(nearest)[Min(owners(nearest))]>>

\* Where the tracer's line comes from, or the tag found for its class.
PositionTags(c) ==
  {<<"at", c.stack[1]>>} \union (IF c.stack[1] \in NoSource THEN {CallersTag(c)} ELSE {})

(* A line printed without a tag of its own carries its caller's, however   *)
(* the cache was filled and trimmed by others, or its caller's position:   *)
(* where the logger skips the right number of frames, and no class logged  *)
(* before its TAG was set, which leaves <<>> in the cache.                 *)
(* Code: LogcatLogger, TagFinder, TracerLogger, LLog, StackTraceLogger.    *)
CallerTagged ==
  \A t \in Threads :
    Done(t) /\ Printed(call[t]) /\ call[t].asked = <<>> /\ ~early
      /\ (call[t].via = "LLog" \/ Depth(call[t]) = Offset(call[t]))
      => IF Tracing(t) THEN call[t].tag \in PositionTags(call[t])
         ELSE call[t].tag = CallersTag(call[t])

(* While the level is changed by others, a line is printed only if some    *)
(* level in force during its call allows it, unless logging is turned off  *)
(* meanwhile, which may fall between the two reads; and it is printed if   *)
(* all these levels allow it: with the tracer, if all allow DEBUG.  LLog   *)
(* prints what its switch allows and nothing else.                         *)
(* Code: isPrintable of LogcatPrinter and SimpleDiskPrinter, its callers.  *)
LevelRespected ==
  \A t \in Threads : Done(t) =>
    LET c == call[t]
    IN  /\ Printed(c) => c.lo < Bar(OFF) /\ (LineLevel(c) >= c.lo \/ c.hi = Bar(OFF))
        /\ LineLevel(c) >= c.hi /\ c.level >= c.hi /\ (Tracing(t) => DEBUG >= c.hi)
             => IF c.logger.printer = "disk" THEN c.file \/ ~open ELSE c.logcat

(* Every line in the file is whole, and only two things end the logging to *)
(* disk: a failure of the writer, and the interrupt of a thread that waits *)
(* for room in the ring, which closes the writer for all.  Both as long as *)
(* no two threads are in AsyncFileWriter.write at once: SimpleDiskPrinter  *)
(* does not see to that.                                                   *)
(* Code: AsyncFileWriter.write, SimpleDiskPrinter.print.                   *)
LinesWhole ==
  ~overlapped =>
    /\ \A i \in 1..Len(ring) - 1 : ring[i] # ring[i + 1] => i % LineLen = 0
    /\ ~open => faults > 0 \/ interrupted
=============================================================================
