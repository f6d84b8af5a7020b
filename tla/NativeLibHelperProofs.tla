------------------------- MODULE NativeLibHelperProofs -------------------------
(* Type correctness, ReturnsCurrent and HeldAloneWhole of NativeLibHelper,  *)
(* for any threads, processes, libraries, ABIs, versions and bounds.        *)
EXTENDS NativeLibHelper, TLAPS

(* If some ABI has the library, the best one is among those that have it.  *)
LEMMA BestSupports ==
  ASSUME NEW l \in Libs, Supporting(l) # {}
  PROVE  Best(l) \in Abis /\ Best(l) \in Supporting(l)
<1>1. Supporting(l) \in SUBSET Abis
  BY DEF Supporting
<1>2. \E a \in Supporting(l) : \A b \in Supporting(l) : Rank[a] <= Rank[b]
  BY <1>1, NativeLibAssumption
<1>3. Best(l) \in Supporting(l)
  BY <1>2 DEF Best
<1> QED BY <1>1, <1>3

(* Past the search, the ABI and the cache entry of a call are defined.     *)
LEMMA EntryTyped ==
  ASSUME TypeOK, NEW t \in Threads, pc[t] \in Searched
  PROVE  targetAbi[t] \in Abis /\ lib[t] \in Libs /\ Entry(t) \in Abis \X Libs
BY DEF TypeOK, ThreadTypeOK, Entry, Searched

-----------------------------------------------------------------------------
(* Type correctness, part by part.                                         *)

(* The initial state has the right types.                                  *)
LEMMA InitTypeOK == ASSUME Init PROVE TypeOK
<1>1. CacheTypeOK
  BY DEF Init, CacheTypeOK, Absent, NoTimestamp
<1>2. ThreadTypeOK
  BY DEF Init, ThreadTypeOK, Steps, Searched
<1>3. BoundTypeOK
  BY NativeLibAssumption DEF Init, BoundTypeOK
<1> QED BY <1>1, <1>2, <1>3 DEF Init, TypeOK

(* A step that moves one thread and leaves its locals alone.               *)
LEMMA MovesThread ==
  ASSUME TypeOK, UNCHANGED local, NEW t \in Threads, NEW label \in Steps, Goto(t, label),
         label \in Searched => targetAbi[t] # NoAbi,
         AtomicMove => label \notin {"copy", "copying"}
  PROVE  ThreadTypeOK'
BY DEF TypeOK, ThreadTypeOK, local, Goto, Searched

(* A fault is counted within its bound.                                    *)
LEMMA FaultTyped ==
  ASSUME TypeOK, Fault \/ UNCHANGED faults PROVE faults' \in 0..MaxFaults
BY NativeLibAssumption DEF TypeOK, BoundTypeOK, Fault

LEMMA BoundsKept ==
  ASSUME TypeOK, Fault \/ UNCHANGED faults, UNCHANGED <<apk, bounds>> PROVE BoundTypeOK'
BY FaultTyped DEF TypeOK, BoundTypeOK, bounds

(* What a step may do to the file of an entry.                             *)
LEMMA FileTyped ==
  ASSUME TypeOK, UNCHANGED timestamp, NEW e \in Abis \X Libs, NEW v \in Nat,
         NEW w \in BOOLEAN, w = TRUE \/ ~AtomicMove,
         soFile' = [soFile EXCEPT ![e] = [ver |-> v, whole |-> w]]
  PROVE  CacheTypeOK'
<1>1. [ver |-> v, whole |-> w] \in [ver : Nat, whole : BOOLEAN]
  OBVIOUS
<1>2. soFile' \in [Abis \X Libs -> [ver : Nat, whole : BOOLEAN]]
  BY <1>1 DEF TypeOK, CacheTypeOK
<1> QED BY <1>2 DEF TypeOK, CacheTypeOK

LEMMA DeleteTyped ==
  ASSUME TypeOK, UNCHANGED timestamp, NEW t \in Threads, Entry(t) \in Abis \X Libs,
         DeleteFile(t) \/ UNCHANGED soFile
  PROVE  CacheTypeOK'
<1>1. Absent \in [ver : Nat, whole : BOOLEAN]
  BY DEF Absent
<1>2. soFile' \in [Abis \X Libs -> [ver : Nat, whole : BOOLEAN]]
  BY <1>1 DEF TypeOK, CacheTypeOK, DeleteFile
<1>3. \A e \in Abis \X Libs : soFile'[e] = soFile[e] \/ soFile'[e] = Absent
  BY DEF TypeOK, CacheTypeOK, DeleteFile
<1> QED BY <1>2, <1>3 DEF TypeOK, CacheTypeOK, Absent

(* The parts of TypeOK that most steps leave alone.                        *)
LEMMA RestTyped == ASSUME TypeOK, UNCHANGED <<abiCache, held>>, CacheTypeOK', ThreadTypeOK', BoundTypeOK' PROVE TypeOK'
BY DEF TypeOK

LEMMA CacheTyped == ASSUME TypeOK, UNCHANGED cache PROVE CacheTypeOK'
BY DEF TypeOK, CacheTypeOK, cache

(* Every step keeps the types.                                             *)
LEMMA NextTypeOK == ASSUME TypeOK, [Next]_vars PROVE TypeOK'
<1>1. ASSUME NEW t \in Threads, NEW l \in Libs, Call(t, l) PROVE TypeOK'
  <2>1. LastModified \in Nat /\ FallbackNow \in Nat
    BY DEF TypeOK, BoundTypeOK, LastModified, FallbackNow
  <2>2. ThreadTypeOK'
    BY <1>1, <2>1 DEF Call, TypeOK, ThreadTypeOK, Goto, Searched, Steps
  <2>3. faults' \in 0..MaxFaults
    BY <1>1, FaultTyped DEF Call
  <2>4. BoundTypeOK'
    BY <1>1, <2>3, NativeLibAssumption DEF Call, TypeOK, BoundTypeOK
  <2> QED BY <1>1, <2>2, <2>4, CacheTyped, RestTyped DEF Call
<1>2. ASSUME NEW t \in Threads, Lock(t) \/ FileLock(t) \/ FindFails(t) \/ Extract(t) PROVE TypeOK'
  <2>1. PICK label \in {"flock", "lookup", "idle", "move"} :
          Goto(t, label) /\ (label = "move" => targetAbi[t] # NoAbi)
    BY <1>2 DEF Lock, FileLock, FindFails, Extract, Throw, TypeOK, ThreadTypeOK, Searched, Steps
  <2>2. UNCHANGED <<apk, cache, abiCache, local, held, bounds>> /\ (Fault \/ UNCHANGED faults)
    BY <1>2 DEF Lock, FileLock, FindFails, Extract, Throw
  <2>3. ThreadTypeOK'
    BY <2>1, <2>2, MovesThread DEF Steps, Searched
  <2> QED BY <2>2, <2>3, BoundsKept, CacheTyped, RestTyped
<1>3. ASSUME NEW t \in Threads, getCachedAbi(t) PROVE TypeOK'
  <2>1. abiCache[Home[t]][lib[t]] \in Abis \cup {NoAbi}
    BY NativeLibAssumption DEF TypeOK, ThreadTypeOK
  <2>2. ThreadTypeOK'
    BY <1>3, <2>1 DEF getCachedAbi, Known, TypeOK, ThreadTypeOK, Goto, Searched, Steps
  <2> QED BY <1>3, <2>2, BoundsKept, CacheTyped, RestTyped DEF getCachedAbi
<1>4. ASSUME NEW t \in Threads, CheckCached(t) \/ CheckFile(t) PROVE TypeOK'
  <2>1. PICK label \in {"return", "find", "extract"} : Goto(t, label)
    BY <1>4 DEF CheckCached, CheckFile
  <2>2. pc[t] \in Searched
    BY <1>4 DEF CheckCached, CheckFile, Searched, Steps
  <2>3. UNCHANGED <<apk, abiCache, local, held, bounds, timestamp>> /\ (Fault \/ UNCHANGED faults)
    BY <1>4 DEF CheckCached, CheckFile, cache
  <2>4. DeleteFile(t) \/ UNCHANGED soFile
    BY <1>4 DEF CheckCached, CheckFile, cache
  <2>5. CacheTypeOK'
    BY <2>2, <2>3, <2>4, EntryTyped, DeleteTyped
  <2>6. targetAbi[t] # NoAbi
    BY <2>2 DEF TypeOK, ThreadTypeOK
  <2>7. ThreadTypeOK'
    BY <2>1, <2>3, <2>6, MovesThread DEF Steps
  <2> QED BY <2>3, <2>5, <2>7, BoundsKept, RestTyped
<1>5. ASSUME NEW t \in Threads, findSupportedAbi(t) PROVE TypeOK'
  <2>1. Best(lib[t]) \in Abis
    BY <1>5, BestSupports DEF findSupportedAbi, TypeOK, ThreadTypeOK
  <2>2. abiCache' \in [Procs -> [Libs -> Abis \cup {NoAbi}]]
    BY <1>5, <2>1 DEF findSupportedAbi, TypeOK
  <2>3. Best(lib[t]) # NoAbi
    BY <2>1, NativeLibAssumption
  <2>4. ThreadTypeOK'
    BY <1>5, <2>1, <2>3 DEF findSupportedAbi, TypeOK, ThreadTypeOK, Goto, Searched, Steps
  <2>5. CacheTypeOK' /\ BoundTypeOK'
    BY <1>5, BoundsKept, CacheTyped DEF findSupportedAbi
  <2> QED BY <1>5, <2>2, <2>4, <2>5 DEF findSupportedAbi, TypeOK
<1>6. ASSUME NEW t \in Threads, Move(t) \/ CopyOpen(t) \/ CopyEnd(t) PROVE TypeOK'
  <2>1. PICK label \in {"stamp", "copy", "copying", "idle"} :
          Goto(t, label) /\ (label \in {"copy", "copying"} => ~AtomicMove)
    BY <1>6, NativeLibAssumption
    DEF Move, CopyOpen, CopyEnd, Throw, TypeOK, ThreadTypeOK
  <2>2. pc[t] \in Searched /\ (pc[t] \in {"copy", "copying"} => ~AtomicMove)
    BY <1>6 DEF Move, CopyOpen, CopyEnd, Searched, Steps, TypeOK, ThreadTypeOK
  <2>3. UNCHANGED <<apk, timestamp, abiCache, local, held, bounds>> /\ (Fault \/ UNCHANGED faults)
    BY <1>6 DEF Move, CopyOpen, CopyEnd, Throw
  <2>4. apk \in Nat
    BY DEF TypeOK, BoundTypeOK
  <2>5. \/ DeleteFile(t) \/ UNCHANGED soFile
        \/ \E w \in BOOLEAN : (w = TRUE \/ ~AtomicMove) /\ soFile' = [soFile EXCEPT ![Entry(t)] = [ver |-> apk, whole |-> w]]
    BY <1>6, <2>2 DEF Move, CopyOpen, CopyEnd, Whole
  <2>6. CacheTypeOK'
    BY <2>2, <2>3, <2>4, <2>5, EntryTyped, DeleteTyped, FileTyped
  <2>7. targetAbi[t] # NoAbi
    BY <2>2 DEF TypeOK, ThreadTypeOK
  <2>8. ThreadTypeOK'
    BY <2>1, <2>3, <2>7, MovesThread DEF Steps
  <2> QED BY <2>3, <2>6, <2>8, BoundsKept, RestTyped
<1>7. ASSUME NEW t \in Threads, TimestampOpen(t) \/ TimestampWrite(t) PROVE TypeOK'
  <2>1. PICK label \in {"stamping", "return", "idle"} : Goto(t, label)
    BY <1>7 DEF TimestampOpen, TimestampWrite, Throw
  <2>2. pc[t] \in Searched
    BY <1>7 DEF TimestampOpen, TimestampWrite, Searched, Steps
  <2>3. UNCHANGED <<apk, soFile, abiCache, local, held, bounds>> /\ (Fault \/ UNCHANGED faults)
    BY <1>7 DEF TimestampOpen, TimestampWrite, Throw
  <2>4. \/ UNCHANGED timestamp
        \/ \E i \in Int : timestamp' = [timestamp EXCEPT ![targetAbi[t]] = i]
    BY <1>7 DEF TimestampOpen, TimestampWrite, TornTimestamp, TypeOK, ThreadTypeOK
  <2>5. CacheTypeOK'
    BY <2>3, <2>4 DEF TypeOK, CacheTypeOK
  <2>6. targetAbi[t] # NoAbi
    BY <2>2 DEF TypeOK, ThreadTypeOK
  <2>7. ThreadTypeOK'
    BY <2>1, <2>3, <2>6, MovesThread DEF Steps
  <2> QED BY <2>3, <2>5, <2>7, BoundsKept, RestTyped
<1>8. ASSUME NEW t \in Threads, Return(t) PROVE TypeOK'
  <2>1. <<Home[t], targetAbi[t], lib[t]>> \in Procs \X Abis \X Libs
    BY <1>8, EntryTyped, NativeLibAssumption DEF Return, Searched, Steps
  <2>2. held' \subseteq Procs \X Abis \X Libs
    BY <1>8, <2>1 DEF Return, TypeOK
  <2>3. ThreadTypeOK'
    BY <1>8, MovesThread DEF Return, Steps, Searched
  <2>4. CacheTypeOK' /\ BoundTypeOK'
    BY <1>8, BoundsKept, CacheTyped DEF Return
  <2> QED BY <1>8, <2>2, <2>3, <2>4 DEF Return, TypeOK
<1>9. ASSUME NEW p \in Procs, Crash(p) PROVE TypeOK'
  <2>1. ThreadTypeOK'
    BY <1>9 DEF Crash, local, TypeOK, ThreadTypeOK, Steps, Searched
  <2>2. CacheTypeOK'
    BY <1>9, CacheTyped DEF Crash
  <2>3. BoundTypeOK'
    BY <1>9, NativeLibAssumption DEF Crash, TypeOK, BoundTypeOK
  <2>4. abiCache' \in [Procs -> [Libs -> Abis \cup {NoAbi}]] /\ held' \subseteq held
    BY <1>9 DEF Crash, TypeOK
  <2> QED BY <2>1, <2>2, <2>3, <2>4 DEF TypeOK
<1>10. ASSUME Update PROVE TypeOK'
  <2>1. ThreadTypeOK'
    BY <1>10 DEF Update, local, TypeOK, ThreadTypeOK, Steps, Searched
  <2>2. ASSUME UNCHANGED cache PROVE CacheTypeOK'
    BY <2>2, CacheTyped
  <2>3. ASSUME soFile' = [e \in Abis \X Libs |-> Absent], timestamp' = [a \in Abis |-> NoTimestamp]
        PROVE  CacheTypeOK'
    BY <2>3 DEF CacheTypeOK, Absent, NoTimestamp
  <2>4. BoundTypeOK'
    BY <1>10, NativeLibAssumption DEF Update, bounds, TypeOK, BoundTypeOK
  <2> QED BY <1>10, <2>1, <2>2, <2>3, <2>4 DEF Update, TypeOK
<1>11. ASSUME UNCHANGED vars PROVE TypeOK'
  BY <1>11 DEF vars, cache, local, TypeOK, CacheTypeOK, ThreadTypeOK, BoundTypeOK
<1> QED
  BY <1>1, <1>2, <1>3, <1>4, <1>5, <1>6, <1>7, <1>8, <1>9, <1>10, <1>11 DEF Next, CallSteps

(* Every variable keeps its type; where moves are atomic, no library is    *)
(* ever visible in part.  Code: extractSoWithAtomicWriteAndValidation.     *)
THEOREM TypeCorrect == Spec => []TypeOK
BY InitTypeOK, NextTypeOK, PTL DEF Spec
-----------------------------------------------------------------------------
(* The inductive invariant of ReturnsCurrent.                              *)

(* Calls for one library exclude each other past the file lock.            *)
Exclusive ==
  \A t, u \in Threads : t # u /\ lib[t] = lib[u] => ~(HoldsFileLock(t) /\ HoldsFileLock(u))

(* An ABI remembered or chosen is the best that the APK installed has.     *)
Chosen(a, l) == Supporting(l) # {} /\ a = Best(l)
CachedBest   == \A p \in Procs, l \in Libs : abiCache[p][l] = NoAbi \/ Chosen(abiCache[p][l], l)
TargetBest   == \A t \in Threads : pc[t] \in Searched => Chosen(targetAbi[t], lib[t])

(* Once its file is moved into place or validated, a call relies on it.    *)
Placed == \A t \in Threads : pc[t] \in {"stamp", "stamping", "return"} => File(t) = Whole(apk)

IInv == TypeOK /\ Exclusive /\ CachedBest /\ TargetBest /\ Placed

LEMMA InitIInv == ASSUME Init PROVE IInv
BY InitTypeOK DEF Init, IInv, Exclusive, CachedBest, TargetBest, Placed, HoldsFileLock, Searched

(* Only FileLock lets a thread past the file lock; others keep their       *)
(* library while they are.                                                 *)
LEMMA OnlyFileLockEnters ==
  ASSUME TypeOK, [Next]_vars, NEW u \in Threads, HoldsFileLock(u)'
  PROVE  (HoldsFileLock(u) /\ lib'[u] = lib[u]) \/ (FileLock(u) /\ FileLockFree(u))
<1> USE DEF TypeOK, ThreadTypeOK, Goto, HoldsFileLock, Throw
<1>1. ASSUME NEW t \in Threads, NEW l \in Libs, Call(t, l) PROVE HoldsFileLock(u) /\ lib'[u] = lib[u]
  BY <1>1 DEF Call
<1>2. ASSUME NEW t \in Threads, FileLock(t)
      PROVE  (HoldsFileLock(u) /\ lib'[u] = lib[u]) \/ (FileLock(u) /\ FileLockFree(u))
  BY <1>2 DEF FileLock, local
<1>3. ASSUME NEW t \in Threads, CallSteps(t), ~FileLock(t) PROVE HoldsFileLock(u) /\ lib'[u] = lib[u]
  <2>1. \E label \in Steps : Goto(t, label) /\ lib' = lib /\ (HoldsFileLock(t) \/ label = "flock")
    BY <1>3 DEF CallSteps, Lock, getCachedAbi, CheckCached, findSupportedAbi, FindFails, CheckFile,
       Extract, Move, CopyOpen, CopyEnd, TimestampOpen, TimestampWrite, Return, local, Steps
  <2> QED BY <2>1
<1>4. ASSUME (\E p \in Procs : Crash(p)) \/ Update PROVE HoldsFileLock(u) /\ lib'[u] = lib[u]
  BY <1>4 DEF Crash, Update, local
<1>5. ASSUME UNCHANGED vars PROVE HoldsFileLock(u) /\ lib'[u] = lib[u]
  BY <1>5 DEF vars, local
<1> QED BY <1>1, <1>2, <1>3, <1>4, <1>5 DEF Next

LEMMA NextExclusive == ASSUME TypeOK, Exclusive, [Next]_vars PROVE Exclusive'
<1> SUFFICES ASSUME NEW t \in Threads, NEW u \in Threads, t # u, lib'[t] = lib'[u],
                    HoldsFileLock(t)', HoldsFileLock(u)'
             PROVE  FALSE
  BY DEF Exclusive
<1>1. CASE FileLock(t) /\ FileLockFree(t)
  BY <1>1, OnlyFileLockEnters
  DEF FileLock, FileLockFree, local, TypeOK, ThreadTypeOK, Goto, HoldsFileLock, Throw
<1>2. CASE FileLock(u) /\ FileLockFree(u)
  BY <1>2, OnlyFileLockEnters
  DEF FileLock, FileLockFree, local, TypeOK, ThreadTypeOK, Goto, HoldsFileLock, Throw
<1>3. CASE HoldsFileLock(t) /\ HoldsFileLock(u) /\ lib'[t] = lib[t] /\ lib'[u] = lib[u]
  BY <1>3 DEF Exclusive
<1> QED BY <1>1, <1>2, <1>3, OnlyFileLockEnters

(* The best ABI changes with the APK only.                                 *)
LEMMA ChosenKept ==
  ASSUME UNCHANGED apk, NEW a, NEW l PROVE Chosen(a, l)' <=> Chosen(a, l)
<1>1. Supporting(l)' = Supporting(l)
  BY DEF Supporting
<1>2. Best(l)' = Best(l)
  BY <1>1 DEF Best
<1> QED BY <1>1, <1>2 DEF Chosen
LEMMA NextBest == ASSUME TypeOK, CachedBest, TargetBest, [Next]_vars PROVE CachedBest' /\ TargetBest'
<1> USE DEF TypeOK, ThreadTypeOK, Goto
<1>1. ASSUME NEW t \in Threads, NEW l \in Libs, Call(t, l) PROVE CachedBest' /\ TargetBest'
  <2>1. UNCHANGED <<apk, abiCache, targetAbi>>
    BY <1>1 DEF Call
  <2>2. \A u \in Threads : pc'[u] \in Searched => pc[u] \in Searched /\ lib'[u] = lib[u]
    BY <1>1 DEF Call, Searched
  <2> QED BY <2>1, <2>2, ChosenKept DEF CachedBest, TargetBest
<1>2. ASSUME NEW t \in Threads, getCachedAbi(t) PROVE CachedBest' /\ TargetBest'
  <2>1. UNCHANGED <<apk, abiCache, lib>>
    BY <1>2 DEF getCachedAbi
  <2>2. CachedBest'
    BY <2>1, ChosenKept DEF CachedBest
  <2>3. targetAbi'[t] = abiCache[Home[t]][lib[t]] /\ Home[t] \in Procs /\ lib[t] \in Libs
    BY <1>2, NativeLibAssumption DEF getCachedAbi
  <2>4. pc'[t] \in Searched => Chosen(targetAbi'[t], lib[t])
    BY <1>2, <2>3 DEF getCachedAbi, Known, Searched, CachedBest
  <2>5. \A u \in Threads \ {t} : pc'[u] = pc[u] /\ targetAbi'[u] = targetAbi[u]
    BY <1>2 DEF getCachedAbi
  <2>6. \A u \in Threads : pc'[u] \in Searched => Chosen(targetAbi'[u], lib'[u])
    BY <2>1, <2>4, <2>5 DEF TargetBest
  <2> QED BY <2>1, <2>2, <2>6, ChosenKept DEF TargetBest
<1>3. ASSUME NEW t \in Threads, findSupportedAbi(t) PROVE CachedBest' /\ TargetBest'
  <2>1. UNCHANGED <<apk, lib>>
    BY <1>3 DEF findSupportedAbi
  <2>2. Chosen(Best(lib[t]), lib[t])
    BY <1>3 DEF findSupportedAbi, Chosen
  <2>3. \A p \in Procs, l \in Libs :
          abiCache'[p][l] = abiCache[p][l] \/ (l = lib[t] /\ abiCache'[p][l] = Best(lib[t]))
    <3>1. abiCache \in [Procs -> [Libs -> Abis \cup {NoAbi}]] /\ lib[t] \in Libs
      OBVIOUS
    <3>2. abiCache' = [abiCache EXCEPT ![Home[t]][lib[t]] = Best(lib[t])]
      BY <1>3 DEF findSupportedAbi
    <3>3. ASSUME NEW p \in Procs, NEW l \in Libs, p # Home[t] \/ l # lib[t]
          PROVE  abiCache'[p][l] = abiCache[p][l]
      BY <3>1, <3>2, <3>3
    <3>4. Home[t] \in Procs => abiCache'[Home[t]][lib[t]] = Best(lib[t])
      BY <3>1, <3>2
    <3> QED BY <3>3, <3>4
  <2>4. \A p \in Procs, l \in Libs : abiCache'[p][l] = NoAbi \/ Chosen(abiCache'[p][l], l)
    BY <2>2, <2>3 DEF CachedBest
  <2>5. targetAbi'[t] = Best(lib[t])
    BY <1>3 DEF findSupportedAbi
  <2>6. \A u \in Threads \ {t} : pc'[u] = pc[u] /\ targetAbi'[u] = targetAbi[u]
    BY <1>3 DEF findSupportedAbi
  <2>7. \A u \in Threads : pc'[u] \in Searched => Chosen(targetAbi'[u], lib'[u])
    BY <2>1, <2>2, <2>5, <2>6 DEF TargetBest
  <2> QED BY <2>1, <2>4, <2>7, ChosenKept DEF CachedBest, TargetBest
<1>4. ASSUME NEW t \in Threads, CallSteps(t), ~getCachedAbi(t), ~findSupportedAbi(t)
      PROVE  CachedBest' /\ TargetBest'
  <2>1. UNCHANGED <<apk, abiCache, local>>
    BY <1>4 DEF CallSteps, Lock, FileLock, CheckCached, FindFails, CheckFile,
       Extract, Move, CopyOpen, CopyEnd, TimestampOpen, TimestampWrite, Return
  <2>2. \E label \in Steps : Goto(t, label) /\ (label \in Searched => pc[t] \in Searched)
    BY <1>4 DEF CallSteps, Lock, FileLock, CheckCached, FindFails, CheckFile, Throw,
       Extract, Move, CopyOpen, CopyEnd, TimestampOpen, TimestampWrite, Return, Searched, Steps
  <2>3. \A u \in Threads : pc'[u] \in Searched => pc[u] \in Searched
    BY <2>2
  <2> QED BY <2>1, <2>3, ChosenKept DEF CachedBest, TargetBest, local
<1>5. ASSUME NEW p \in Procs, Crash(p) PROVE CachedBest' /\ TargetBest'
  <2>1. UNCHANGED <<apk, local>>
    BY <1>5 DEF Crash
  <2>2. \A q \in Procs, l \in Libs : abiCache'[q][l] \in {abiCache[q][l], NoAbi}
    BY <1>5 DEF Crash
  <2>3. \A u \in Threads : pc'[u] \in Searched => pc[u] \in Searched
    BY <1>5 DEF Crash, Searched
  <2> QED BY <2>1, <2>2, <2>3, ChosenKept DEF CachedBest, TargetBest, local
<1>6. ASSUME Update PROVE CachedBest' /\ TargetBest'
  BY <1>6 DEF Update, CachedBest, TargetBest, Searched
<1>7. ASSUME UNCHANGED vars PROVE CachedBest' /\ TargetBest'
  BY <1>7, ChosenKept DEF vars, local, CachedBest, TargetBest
<1> QED BY <1>1, <1>2, <1>3, <1>4, <1>5, <1>6, <1>7 DEF Next

(* A step writes or deletes the file of its own library, under the lock.   *)
LEMMA OwnFileOnly ==
  ASSUME TypeOK, NEW t \in Threads, CallSteps(t), NEW e \in Abis \X Libs,
         e # Entry(t) \/ ~HoldsFileLock(t)
  PROVE  soFile'[e] = soFile[e]
<1>1. \/ UNCHANGED soFile
      \/ HoldsFileLock(t) /\ \E f \in {Absent, Whole(apk), [ver |-> apk, whole |-> FALSE]} :
                                soFile' = [soFile EXCEPT ![Entry(t)] = f]
  BY DEF CallSteps, Lock, FileLock, getCachedAbi, CheckCached, findSupportedAbi, FindFails, CheckFile,
     Extract, Move, CopyOpen, CopyEnd, TimestampOpen, TimestampWrite, Return, cache, DeleteFile, HoldsFileLock
<1> QED BY <1>1 DEF TypeOK, CacheTypeOK

Relies == {"stamp", "stamping", "return"}

LEMMA NextPlaced == ASSUME TypeOK, Exclusive, Placed, [Next]_vars PROVE Placed'
<1> USE DEF Relies
<1>1. ASSUME NEW t \in Threads, CallSteps(t) PROVE Placed'
  <2>1. UNCHANGED apk
    BY <1>1 DEF CallSteps, Lock, FileLock, getCachedAbi, CheckCached, findSupportedAbi, FindFails,
       CheckFile, Extract, Move, CopyOpen, CopyEnd, TimestampOpen, TimestampWrite, Return
  <2>2. ASSUME pc'[t] \in Relies PROVE UNCHANGED <<targetAbi, lib>> /\ soFile'[Entry(t)] = Whole(apk)
    <3> USE DEF Goto, Throw, TypeOK, ThreadTypeOK
    <3>1. CASE Move(t) \/ CopyEnd(t)
      <4>1. soFile' = [soFile EXCEPT ![Entry(t)] = Whole(apk)]
        BY <2>2, <3>1 DEF Move, CopyEnd
      <4>2. Entry(t) \in Abis \X Libs
        BY <3>1, EntryTyped DEF Move, CopyEnd, Searched, Steps
      <4> QED BY <3>1, <4>1, <4>2 DEF CacheTypeOK, Move, CopyEnd, local
    <3>2. CASE CheckCached(t) \/ CheckFile(t)
      BY <2>2, <3>2 DEF CheckCached, CheckFile, validateSoWithApk, File, cache, local
    <3>3. CASE TimestampOpen(t) \/ TimestampWrite(t)
      BY <2>2, <3>3 DEF TimestampOpen, TimestampWrite, Placed, File, local
    <3>4. CASE \/ Lock(t) \/ FileLock(t) \/ getCachedAbi(t) \/ findSupportedAbi(t) \/ FindFails(t)
               \/ Extract(t) \/ CopyOpen(t) \/ Return(t)
      BY <2>2, <3>4 DEF Lock, FileLock, getCachedAbi, findSupportedAbi, FindFails, Extract, CopyOpen, Return
    <3> QED BY <1>1, <3>1, <3>2, <3>3, <3>4 DEF CallSteps
  <2>3. ASSUME NEW u \in Threads \ {t}, pc'[u] \in Relies
        PROVE  targetAbi'[u] = targetAbi[u] /\ lib'[u] = lib[u] /\ soFile'[Entry(u)] = Whole(apk)
    <3>1. pc[u] = pc'[u] /\ targetAbi'[u] = targetAbi[u] /\ lib'[u] = lib[u]
      BY <1>1 DEF CallSteps, Lock, FileLock, getCachedAbi, CheckCached, findSupportedAbi, FindFails,
         CheckFile, Extract, Move, CopyOpen, CopyEnd, TimestampOpen, TimestampWrite, Return, Goto, Throw,
         TypeOK, ThreadTypeOK, local
    <3>2. soFile[Entry(u)] = Whole(apk) /\ Entry(u) \in Abis \X Libs
      BY <2>3, <3>1, EntryTyped DEF Placed, File, Searched, Steps
    <3>3. Entry(u) # Entry(t) \/ ~HoldsFileLock(t)
      BY <2>3, <3>1 DEF Exclusive, HoldsFileLock, Entry
    <3> QED BY <1>1, <3>1, <3>2, <3>3, OwnFileOnly
  <2> QED BY <2>1, <2>2, <2>3 DEF Placed, File, Entry, Whole
<1>2. ASSUME NEW t \in Threads, NEW l \in Libs, Call(t, l) PROVE Placed'
  BY <1>2 DEF Call, Goto, TypeOK, ThreadTypeOK, Placed, File, Entry, Whole, cache
<1>3. ASSUME (\E p \in Procs : Crash(p)) \/ Update PROVE Placed'
  BY <1>3 DEF Crash, Update, TypeOK, ThreadTypeOK, Placed, File, Entry, Whole, cache, local
<1>4. ASSUME UNCHANGED vars PROVE Placed'
  BY <1>4 DEF vars, Placed, File, Entry, Whole, cache, local
<1> QED BY <1>1, <1>2, <1>3, <1>4 DEF Next

(* The inductive invariant holds in every reachable state.                 *)
THEOREM Invariance == Spec => []IInv
<1>1. IInv /\ [Next]_vars => IInv'
  BY NextTypeOK, NextExclusive, NextBest, NextPlaced DEF IInv
<1> QED BY InitIInv, <1>1, PTL DEF Spec

(* The path a call returns names the whole library of the APK installed    *)
(* now, for the best ABI that has it, whatever crashed, failed or was left *)
(* by an earlier version.  Code: getCachedSoPath, validateSoWithApk.       *)
THEOREM ReturnedPathCurrent == Spec => []ReturnsCurrent
<1>1. IInv => ReturnsCurrent
  BY DEF IInv, TargetBest, Chosen, Placed, ReturnsCurrent, Searched, Steps
<1> QED BY <1>1, Invariance, PTL
-----------------------------------------------------------------------------
(* The inductive invariant of HeldAloneWhole.                              *)

(* While nothing fails: every call has read the date of the APK installed; *)
(* what a call returns is stamped with it, and so is what a process holds; *)
(* and no call replaces or stamps a library that a process holds, since it *)
(* found it valid.                                                         *)
Replaces      == {"extract", "move", "copy", "copying", "stamp", "stamping"}
Fresh(a)      == timestamp[a] >= LastModified
DatesRead     == \A t \in Threads : pc[t] # "idle" => apkModified[t] = LastModified
ReturnsFresh  ==
  \A t \in Threads : pc[t] = "return" /\ Alone(targetAbi[t], lib[t]) => Fresh(targetAbi[t])
HeldFresh     ==
  \A h \in held : Alone(h[2], h[3]) => Fresh(h[2]) /\ soFile[<<h[2], h[3]>>] = Whole(apk)
HeldUntouched ==
  \A h \in held, t \in Threads :
    Alone(h[2], h[3]) /\ Entry(t) = <<h[2], h[3]>> => pc[t] \notin Replaces
Undisturbed   == faults = 0 => DatesRead /\ ReturnsFresh /\ HeldFresh /\ HeldUntouched

(* An ABI that a library has for itself is searched for that library only. *)
LEMMA AloneIsOwn ==
  ASSUME IInv, NEW t \in Threads, pc[t] \in Searched, NEW l \in Libs, Alone(targetAbi[t], l)
  PROVE  lib[t] = l
<1>1. Chosen(targetAbi[t], lib[t]) /\ lib[t] \in Libs
  BY DEF IInv, TypeOK, ThreadTypeOK, TargetBest
<1>2. <<targetAbi[t], lib[t]>> \in Packed[apk]
  BY <1>1, BestSupports DEF Chosen, Supporting
<1>3. apk \in 1..MaxVersion
  BY DEF IInv, TypeOK, BoundTypeOK
<1> QED BY <1>1, <1>2, <1>3 DEF Alone

(* What a step of a call leaves alone, and which steps write a timestamp.  *)
LEMMA CallFrame ==
  ASSUME TypeOK, NEW t \in Threads, CallSteps(t)
  PROVE  /\ UNCHANGED <<apk, lib, apkModified>>
         /\ pc[t] # "idle"
         /\ \A u \in Threads \ {t} : pc'[u] = pc[u] /\ targetAbi'[u] = targetAbi[u]
         /\ pc[t] \notin {"lookup", "find"} => UNCHANGED targetAbi
         /\ Return(t) \/ UNCHANGED held
         /\ UNCHANGED timestamp \/ TimestampOpen(t) \/ TimestampWrite(t)
<1>1. UNCHANGED <<apk, lib, apkModified>> /\ pc[t] # "idle"
  BY DEF CallSteps, Lock, FileLock, getCachedAbi, CheckCached, findSupportedAbi, FindFails,
     CheckFile, Extract, Move, CopyOpen, CopyEnd, TimestampOpen, TimestampWrite, Return, local
<1>2. /\ \E label \in Steps : Goto(t, label)
      /\ \/ UNCHANGED targetAbi
         \/ pc[t] \in {"lookup", "find"} /\ \E a : targetAbi' = [targetAbi EXCEPT ![t] = a]
  <2>1. CASE getCachedAbi(t) \/ findSupportedAbi(t)
    BY <2>1 DEF getCachedAbi, findSupportedAbi, Steps
  <2>2. CASE ~getCachedAbi(t) /\ ~findSupportedAbi(t)
    BY <2>2 DEF CallSteps, Lock, FileLock, CheckCached, FindFails, CheckFile, Throw,
       Extract, Move, CopyOpen, CopyEnd, TimestampOpen, TimestampWrite, Return, local, Steps
  <2> QED BY <2>1, <2>2
<1>3. Return(t) \/ UNCHANGED held
  BY DEF CallSteps, Lock, FileLock, getCachedAbi, CheckCached, findSupportedAbi, FindFails,
     CheckFile, Extract, Move, CopyOpen, CopyEnd, TimestampOpen, TimestampWrite
<1>4. UNCHANGED timestamp \/ TimestampOpen(t) \/ TimestampWrite(t)
  BY DEF CallSteps, Lock, FileLock, getCachedAbi, CheckCached, findSupportedAbi, FindFails,
     CheckFile, Extract, Move, CopyOpen, CopyEnd, Return, cache
<1>5. \A u \in Threads \ {t} : pc'[u] = pc[u] /\ targetAbi'[u] = targetAbi[u]
  BY <1>2 DEF TypeOK, ThreadTypeOK, Goto
<1> QED BY <1>1, <1>2, <1>3, <1>4, <1>5

(* A timestamp that changes is that of the ABI of the call.                *)
LEMMA OwnTimestampOnly ==
  ASSUME IInv, NEW t \in Threads, CallSteps(t), NEW a, NEW l \in Libs, Alone(a, l), a \in Abis
  PROVE  \/ timestamp'[a] = timestamp[a]
         \/ pc[t] \in {"stamp", "stamping"} /\ Entry(t) = <<a, l>>
<1>1. CASE UNCHANGED timestamp
  BY <1>1
<1>2. CASE TimestampOpen(t) \/ TimestampWrite(t)
  <2>1. pc[t] \in {"stamp", "stamping"} /\ pc[t] \in Searched
    BY <1>2 DEF TimestampOpen, TimestampWrite, Searched, Steps
  <2>2. a = targetAbi[t] \/ timestamp'[a] = timestamp[a]
    BY <1>2 DEF TimestampOpen, TimestampWrite, IInv, TypeOK, CacheTypeOK
  <2> QED BY <2>1, <2>2, AloneIsOwn DEF Entry
<1> QED BY <1>1, <1>2, CallFrame DEF IInv

(* A library that a process holds is found valid.                          *)
LEMMA HeldIsValid ==
  ASSUME IInv, DatesRead, HeldFresh, NEW t \in Threads, pc[t] \in {"check1", "check2"},
         NEW h \in held, Alone(h[2], h[3]), Entry(t) = <<h[2], h[3]>>
  PROVE  isCacheValid(t) /\ validateSoWithApk(t)
<1>1. pc[t] \in Searched
  BY DEF Searched, Steps
<1>2. Chosen(targetAbi[t], lib[t]) /\ lib[t] \in Libs
  BY <1>1 DEF IInv, TypeOK, ThreadTypeOK, TargetBest
<1>3. Entry(t) \in Packed[apk]
  BY <1>2, BestSupports DEF Chosen, Supporting, Entry
<1>4. File(t) = Whole(apk) /\ timestamp[targetAbi[t]] >= LastModified
  BY DEF HeldFresh, Fresh, File, Entry
<1>5. Whole(apk) # Absent
  BY DEF Whole, Absent
<1>6. apkModified[t] = LastModified
  BY DEF DatesRead
<1> QED BY <1>3, <1>4, <1>5, <1>6 DEF isCacheValid, validateSoWithApk

(* Every step of a call keeps what holds while nothing fails.              *)
LEMMA CallUndisturbed ==
  ASSUME IInv, Undisturbed, NEW t \in Threads, CallSteps(t) PROVE Undisturbed'
<1> USE DEF Fresh, LastModified
<1> SUFFICES ASSUME faults' = 0 PROVE DatesRead' /\ ReturnsFresh' /\ HeldFresh' /\ HeldUntouched'
  BY DEF Undisturbed
<1>0. TypeOK /\ faults \in Nat /\ apk \in Nat
  BY NativeLibAssumption DEF IInv, TypeOK, BoundTypeOK
<1>1. ~Fault /\ faults = 0
  <2>1. Fault \/ UNCHANGED faults
    BY DEF CallSteps, Lock, FileLock, getCachedAbi, CheckCached, findSupportedAbi, FindFails,
       CheckFile, Extract, Move, CopyOpen, CopyEnd, TimestampOpen, TimestampWrite, Return, Throw
  <2> QED BY <1>0, <2>1 DEF Fault
<1>2. DatesRead /\ ReturnsFresh /\ HeldFresh /\ HeldUntouched
  BY <1>1 DEF Undisturbed
<1>3. UNCHANGED <<apk, lib, apkModified>> /\ pc[t] # "idle"
  BY <1>0, CallFrame
<1>4. \A u \in Threads \ {t} : pc'[u] = pc[u] /\ targetAbi'[u] = targetAbi[u] /\ Entry(u)' = Entry(u)
  BY <1>0, <1>3, CallFrame DEF Entry
<1>5. DatesRead'
  BY <1>2, <1>3, <1>4 DEF DatesRead
<1>6. ASSUME NEW u \in Threads, pc'[u] = "return", Alone(targetAbi[u], lib[u])', u # t
      PROVE  timestamp'[targetAbi'[u]] >= LastModified
  <2>1. pc[u] = "return" /\ targetAbi'[u] = targetAbi[u] /\ pc[u] \in Searched /\ HoldsFileLock(u)
    BY <1>4, <1>6 DEF Searched, Steps, HoldsFileLock
  <2>2. targetAbi[u] \in Abis /\ lib[u] \in Libs /\ Alone(targetAbi[u], lib[u])
    BY <1>0, <1>3, <1>6, <2>1, EntryTyped DEF Alone
  <2>3. ~(pc[t] \in {"stamp", "stamping"} /\ Entry(t) = <<targetAbi[u], lib[u]>>)
    BY <1>6, <2>1 DEF IInv, Exclusive, HoldsFileLock, Entry
  <2> QED BY <1>2, <2>1, <2>2, <2>3, OwnTimestampOnly DEF ReturnsFresh
<1>7. ASSUME pc'[t] = "return" PROVE timestamp'[targetAbi'[t]] >= LastModified
  <2>1. CASE CheckCached(t) \/ CheckFile(t)
    BY <1>1, <1>2, <1>3, <1>7, <2>1, <1>0
    DEF CheckCached, CheckFile, isCacheValid, DatesRead, TypeOK, ThreadTypeOK, Goto, local, cache
  <2>2. CASE TimestampWrite(t)
    <3>1. targetAbi[t] \in Abis
      BY <1>0, <2>2, EntryTyped DEF TimestampWrite, Searched, Steps
    <3>2. timestamp' = [timestamp EXCEPT ![targetAbi[t]] = apkModified[t]] /\ UNCHANGED targetAbi
      BY <1>1, <2>2 DEF TimestampWrite, Throw, local
    <3> QED BY <1>0, <1>2, <1>3, <3>1, <3>2 DEF DatesRead, TypeOK, CacheTypeOK
  <2>3. ASSUME ~(CheckCached(t) \/ CheckFile(t) \/ TimestampWrite(t)) PROVE FALSE
    BY <1>0, <1>7, <2>3 DEF CallSteps, Lock, FileLock, getCachedAbi, findSupportedAbi, FindFails,
       Extract, Move, CopyOpen, CopyEnd, TimestampOpen, Return, Goto, Throw, TypeOK, ThreadTypeOK
  <2> QED BY <2>1, <2>2, <2>3
<1>8. ReturnsFresh'
  BY <1>3, <1>6, <1>7 DEF ReturnsFresh
<1>9. ASSUME NEW h \in held, Alone(h[2], h[3])
      PROVE  timestamp'[h[2]] >= LastModified /\ soFile'[<<h[2], h[3]>>] = Whole(apk)
  <2> DEFINE e == <<h[2], h[3]>>
  <2>1. h[2] \in Abis /\ h[3] \in Libs /\ e \in Abis \X Libs
    BY <1>0 DEF TypeOK
  <2>2. Entry(t) = e => pc[t] \notin Replaces
    BY <1>2, <1>9 DEF HeldUntouched
  <2>3. timestamp'[h[2]] = timestamp[h[2]]
    BY <1>9, <2>1, <2>2, OwnTimestampOnly DEF Replaces
  <2>4. ASSUME Entry(t) = e, HoldsFileLock(t) PROVE UNCHANGED soFile
    <3>1. CASE CheckCached(t) \/ CheckFile(t)
      <4>1. isCacheValid(t) /\ validateSoWithApk(t)
        BY <1>2, <1>9, <2>4, <3>1, HeldIsValid DEF CheckCached, CheckFile
      <4> QED BY <1>1, <3>1, <4>1 DEF CheckCached, CheckFile, cache
    <3>2. CASE pc[t] \notin Replaces /\ ~(CheckCached(t) \/ CheckFile(t))
      BY <3>2 DEF CallSteps, Lock, FileLock, getCachedAbi, findSupportedAbi, FindFails,
         Extract, Move, CopyOpen, CopyEnd, TimestampOpen, TimestampWrite, Return, cache, Replaces
    <3> QED BY <2>2, <2>4, <3>1, <3>2
  <2>5. soFile'[e] = soFile[e]
    BY <1>0, <2>1, <2>4, OwnFileOnly
  <2> QED BY <1>2, <1>9, <2>3, <2>5 DEF HeldFresh
<1>10. ASSUME NEW h \in held', h \notin held, Alone(h[2], h[3])
       PROVE  /\ Return(t) /\ h[2] = targetAbi[t] /\ h[3] = lib[t]
              /\ timestamp'[h[2]] >= LastModified /\ soFile'[<<h[2], h[3]>>] = Whole(apk)
  <2>1. Return(t)
    BY <1>0, <1>10, CallFrame
  <2>2. h = <<Home[t], targetAbi[t], lib[t]>> /\ UNCHANGED cache /\ pc[t] = "return"
    BY <1>10, <2>1 DEF Return
  <2> QED BY <1>2, <1>10, <2>1, <2>2 DEF ReturnsFresh, IInv, Placed, File, Entry, cache
<1>11. HeldFresh'
  BY <1>3, <1>9, <1>10 DEF HeldFresh, Alone, Whole
<1>12. ASSUME NEW h \in held', Alone(h[2], h[3]), NEW u \in Threads, Entry(u)' = <<h[2], h[3]>>
       PROVE  pc'[u] \notin Replaces
  <2>1. CASE u # t /\ h \in held
    BY <1>2, <1>4, <1>12, <2>1 DEF HeldUntouched
  <2>2. CASE u # t /\ h \notin held
    <3>1. lib[u] = lib[t] /\ HoldsFileLock(t) /\ pc'[u] = pc[u]
      BY <1>3, <1>4, <1>10, <1>12, <2>2 DEF Return, HoldsFileLock, Entry
    <3>2. ~HoldsFileLock(u)
      BY <2>2, <3>1 DEF IInv, Exclusive
    <3> QED BY <3>1, <3>2 DEF HoldsFileLock, Replaces
  <2>3. CASE u = t /\ h \notin held
    BY <1>0, <1>10, <1>12, <2>3 DEF Return, Goto, TypeOK, ThreadTypeOK, Replaces
  <2>4. CASE u = t /\ h \in held
    <3> SUFFICES ASSUME pc'[t] \in Replaces PROVE FALSE
      BY <2>4
    <3>1. pc[t] \in Replaces \/ CheckFile(t)
      BY <1>0 DEF CallSteps, Lock, FileLock, getCachedAbi, CheckCached, findSupportedAbi, FindFails,
       Extract, Move, CopyOpen, CopyEnd, TimestampOpen, TimestampWrite, Return, Goto, Throw,
       TypeOK, ThreadTypeOK, Replaces
    <3>2. pc[t] \notin {"lookup", "find"}
      BY <3>1 DEF CheckFile, Replaces
    <3>3. Entry(t) = <<h[2], h[3]>>
      BY <1>0, <1>3, <1>12, <2>4, <3>2, CallFrame DEF Entry
    <3>4. pc[t] \notin Replaces
      BY <1>2, <1>12, <2>4, <3>3 DEF HeldUntouched
    <3>5. CheckFile(t) /\ pc[t] = "check2"
      BY <3>1, <3>4 DEF CheckFile
    <3>6. isCacheValid(t) /\ validateSoWithApk(t)
      BY <1>2, <1>12, <2>4, <3>3, <3>5, HeldIsValid
    <3> QED BY <1>0, <1>1, <3>5, <3>6 DEF CheckFile, Goto, TypeOK, ThreadTypeOK, Replaces
  <2> QED BY <2>1, <2>2, <2>3, <2>4
<1>13. HeldUntouched'
  BY <1>12 DEF HeldUntouched, Alone
<1> QED BY <1>5, <1>8, <1>11, <1>13

(* So do the starts of calls, crashes and updates.                         *)
LEMMA NextUndisturbed == ASSUME IInv, Undisturbed, [Next]_vars PROVE Undisturbed'
<1>0. TypeOK /\ faults \in Nat
  BY NativeLibAssumption DEF IInv, TypeOK, BoundTypeOK
<1> USE DEF Fresh, LastModified, Alone, Whole, Entry, Replaces
<1>1. ASSUME NEW t \in Threads, NEW l \in Libs, Call(t, l) PROVE Undisturbed'
  <2> SUFFICES ASSUME faults' = 0 PROVE DatesRead' /\ ReturnsFresh' /\ HeldFresh' /\ HeldUntouched'
    BY DEF Undisturbed
  <2>1. faults = 0 /\ apkModified' = [apkModified EXCEPT ![t] = LastModified]
    BY <1>0, <1>1 DEF Call, Fault
  <2>2. DatesRead /\ ReturnsFresh /\ HeldFresh /\ HeldUntouched
    BY <2>1 DEF Undisturbed
  <2>3. UNCHANGED <<apk, soFile, timestamp, targetAbi, held>> /\ pc'[t] = "lock" /\ apkModified'[t] = LastModified
        /\ \A u \in Threads \ {t} : pc'[u] = pc[u] /\ lib'[u] = lib[u] /\ apkModified'[u] = apkModified[u]
    BY <1>0, <1>1, <2>1 DEF Call, Goto, cache, TypeOK, ThreadTypeOK
  <2>4. DatesRead'
    BY <2>2, <2>3 DEF DatesRead
  <2>5. ReturnsFresh'
    BY <2>2, <2>3 DEF ReturnsFresh
  <2>6. HeldFresh'
    BY <2>2, <2>3 DEF HeldFresh
  <2>7. HeldUntouched'
    BY <2>2, <2>3 DEF HeldUntouched
  <2> QED BY <2>4, <2>5, <2>6, <2>7
<1>2. ASSUME NEW p \in Procs, Crash(p) PROVE Undisturbed'
  <2>1. UNCHANGED <<apk, soFile, timestamp, lib, targetAbi, apkModified, faults>> /\ held' \subseteq held
    BY <1>2 DEF Crash, cache, local
  <2>2. \A u \in Threads : pc'[u] \in {pc[u], "idle"}
    BY <1>2 DEF Crash
  <2> QED BY <2>1, <2>2 DEF Undisturbed, DatesRead, ReturnsFresh, HeldFresh, HeldUntouched
<1>3. CASE Update
  BY <1>3 DEF Update, Undisturbed, DatesRead, ReturnsFresh, HeldFresh, HeldUntouched
<1>4. CASE UNCHANGED vars
  BY <1>4 DEF vars, cache, local, Undisturbed, DatesRead, ReturnsFresh, HeldFresh, HeldUntouched
<1> QED BY <1>1, <1>2, <1>3, <1>4, CallUndisturbed DEF Next

(* While nothing fails, a library whose ABI no other library shares stays  *)
(* where a call has said it is, for every process that was told, whatever  *)
(* other calls, crashes and updates do.                                    *)
(* Code: getCachedSoPath, isCacheValid, writeTimestamp.                    *)
THEOREM HeldAloneStays == Spec => []HeldAloneWhole
<1>1. Init => Undisturbed
  BY DEF Init, Undisturbed, DatesRead, ReturnsFresh, HeldFresh, HeldUntouched
<1>2. Undisturbed => HeldAloneWhole
  BY DEF Undisturbed, HeldFresh, HeldAloneWhole
<1> QED BY <1>1, <1>2, Invariance, NextUndisturbed, PTL DEF Spec
=============================================================================
