---------------------------- MODULE NativeLibHelper ----------------------------
(***************************************************************************)
(* NativeLibHelper.java: getNativeLibPath finds a native library that the  *)
(* installer did not extract, extracts it from the APK into a cache        *)
(* directory and returns its path.  Threads of several processes of the    *)
(* application share the directory; calls for one library exclude each     *)
(* other by a lock in the process and a lock file between processes, while *)
(* the libraries of one ABI share a timestamp file.  Processes crash, file *)
(* operations fail, and the application is updated (which kills all its    *)
(* processes).                                                             *)
(*                                                                         *)
(* The bytes of a library are the version of the APK they come from and    *)
(* whether they are all there.  ZipFile takes CRC and size from the        *)
(* archive's directory, so the branch for an unknown CRC is left out.      *)
(*                                                                         *)
(* An operator whose name ends in _Mutant is a plausible bug in the        *)
(* definition that follows it; no specification uses it.  PROJECT.json     *)
(* names the property each one violates.                                   *)
(***************************************************************************)
EXTENDS Integers, FiniteSets

CONSTANTS
  Threads, Procs, Home,  (* Home[t] is the process of thread t             *)
  Libs,
  Abis, Rank,            (* Rank: the order of getSupportedAbis            *)
  NoAbi,
  MaxVersion, Packed,    (* Packed[v]: <<abi, lib>> entries of APK v       *)
  AtomicMove,            (* SDK >= O: Files.move; before, renameTo or copy *)
  MaxCalls,              (* bound: calls in a behaviour                    *)
  MaxFaults, MaxCrashes  (* bounds: failing operations, crashes            *)

ASSUME NativeLibAssumption ==
  /\ Home \in [Threads -> Procs]
  /\ NoAbi \notin Abis
  /\ Rank \in [Abis -> Nat] /\ \A a, b \in Abis : Rank[a] = Rank[b] => a = b
  /\ \A S \in SUBSET Abis : S # {} => \E a \in S : \A b \in S : Rank[a] <= Rank[b]
  /\ MaxVersion \in Nat \ {0}
  /\ Packed \in [1..MaxVersion -> SUBSET (Abis \X Libs)]
  /\ AtomicMove \in BOOLEAN
  /\ MaxCalls \in Nat /\ MaxFaults \in Nat /\ MaxCrashes \in Nat

VARIABLES
  apk,                         (* version installed                        *)
  soFile,                      (* cache: library files                     *)
  timestamp,                   (* cache: timestamp files                   *)
  abiCache,                    (* per process and library                  *)
  pc, lib, targetAbi, apkModified,  (* per thread: step and locals         *)
  held,                        (* history: paths returned to live processes*)
  calls, faults, crashes       (* see MaxCalls, MaxFaults, MaxCrashes      *)

cache  == <<soFile, timestamp>>
local  == <<lib, targetAbi, apkModified>>
bounds == <<calls, crashes>>
vars   == <<apk, cache, abiCache, pc, local, held, calls, faults, crashes>>

Absent         == [ver |-> 0, whole |-> FALSE]  (* missing or of length 0   *)
Whole(v)       == [ver |-> v, whole |-> TRUE]
NoTimestamp    == -2
TornTimestamp  == -1                            (* opened, not yet written  *)
LastModified   == 2 * apk                       (* of the APK; it is odd    *)
FallbackNow    == 2 * apk + 1                   (* if the APK has no date   *)

Init ==
  /\ apk = 1
  /\ soFile = [e \in Abis \X Libs |-> Absent]
  /\ timestamp = [a \in Abis |-> NoTimestamp]
  /\ abiCache = [p \in Procs |-> [l \in Libs |-> NoAbi]]
  /\ pc = [t \in Threads |-> "idle"]
  /\ \E l \in Libs : lib = [t \in Threads |-> l]
  /\ targetAbi = [t \in Threads |-> NoAbi]
  /\ apkModified = [t \in Threads |-> 0]
  /\ held = {}
  /\ calls = 0 /\ faults = 0 /\ crashes = 0

Goto(t, label) == pc' = [pc EXCEPT ![t] = label]
Fault          == faults < MaxFaults /\ faults' = faults + 1
Throw(t)       == Fault /\ Goto(t, "idle")

Entry(t)  == <<targetAbi[t], lib[t]>>
File(t)   == soFile[Entry(t)]

-----------------------------------------------------------------------------
(* The call, its locks.                                                    *)

Call(t, l) ==
  /\ pc[t] = "idle"
  /\ calls < MaxCalls /\ calls' = calls + 1
  /\ lib' = [lib EXCEPT ![t] = l]
  /\ \/ apkModified' = [apkModified EXCEPT ![t] = LastModified] /\ UNCHANGED faults
     \/ Fault /\ apkModified' = [apkModified EXCEPT ![t] = FallbackNow]
  /\ Goto(t, "lock")
  /\ UNCHANGED <<apk, cache, abiCache, targetAbi, held, crashes>>

HoldsLock(t)     == pc[t] \notin {"idle", "lock"}
HoldsFileLock(t) == pc[t] \notin {"idle", "lock", "flock"}

(* synchronized (getExtractionLock(libSoFileName))                         *)
Lock(t) ==
  /\ pc[t] = "lock"
  /\ \A u \in Threads \ {t} : Home[u] = Home[t] /\ lib[u] = lib[t] => ~HoldsLock(u)
  /\ Goto(t, "flock")
  /\ UNCHANGED <<apk, cache, abiCache, local, held, bounds, faults>>

FileLockFree_Mutant(t) ==  (* one lock file per process *)
  \A u \in Threads \ {t} : lib[u] = lib[t] /\ Home[u] = Home[t] => ~HoldsFileLock(u)
FileLockFree(t) ==
  \A u \in Threads \ {t} : lib[u] = lib[t] => ~HoldsFileLock(u)

FileLock(t) ==
  /\ pc[t] = "flock"
  /\ \/ FileLockFree(t) /\ Goto(t, "lookup") /\ UNCHANGED faults
     \/ Throw(t)
  /\ UNCHANGED <<apk, cache, abiCache, local, held, bounds>>

-----------------------------------------------------------------------------
(* Under both locks: is what is cached usable, and for which ABI?          *)

Known_Mutant(a) == TRUE  (* the test for null is missing *)
Known(a)        == a # NoAbi

getCachedAbi(t) ==
  /\ pc[t] = "lookup"
  /\ targetAbi' = [targetAbi EXCEPT ![t] = abiCache[Home[t]][lib[t]]]
  /\ Goto(t, IF Known(targetAbi'[t]) THEN "check1" ELSE "find")
  /\ UNCHANGED <<apk, cache, abiCache, lib, apkModified, held, bounds, faults>>

(* A missing or torn timestamp is older than any APK.                      *)
isCacheValid(t) == File(t) # Absent /\ timestamp[targetAbi[t]] >= apkModified[t]

validateSoWithApk_Mutant(t) == File(t) # Absent  (* trusts the timestamp *)
validateSoWithApk(t)        == Entry(t) \in Packed[apk] /\ File(t) = Whole(apk)

(* delete() may fail, which is only logged.                                *)
DeleteFile(t) == soFile' = [soFile EXCEPT ![Entry(t)] = Absent]

CheckCached(t) ==
  /\ pc[t] = "check1"
  /\ \/ isCacheValid(t) /\ validateSoWithApk(t)
        /\ Goto(t, "return") /\ UNCHANGED <<cache, faults>>
     \/ ~isCacheValid(t)
        /\ Goto(t, "find") /\ UNCHANGED <<cache, faults>>
     \/ isCacheValid(t) /\ ~validateSoWithApk(t) /\ DeleteFile(t)
        /\ Goto(t, "find") /\ UNCHANGED <<timestamp, faults>>
     \/ isCacheValid(t) /\ Fault  (* file or APK could not be read *)
        /\ (DeleteFile(t) \/ UNCHANGED soFile)
        /\ Goto(t, "find") /\ UNCHANGED timestamp
  /\ UNCHANGED <<apk, abiCache, local, held, bounds>>

Supporting(l) == {a \in Abis : <<a, l>> \in Packed[apk]}
Best(l)       == CHOOSE a \in Supporting(l) : \A b \in Supporting(l) : Rank[a] <= Rank[b]

findSupportedAbi(t) ==
  /\ pc[t] = "find"
  /\ Supporting(lib[t]) # {}
  /\ targetAbi' = [targetAbi EXCEPT ![t] = Best(lib[t])]
  /\ abiCache' = [abiCache EXCEPT ![Home[t]][lib[t]] = Best(lib[t])]
  /\ Goto(t, "check2")
  /\ UNCHANGED <<apk, cache, lib, apkModified, held, bounds, faults>>

FindFails(t) ==  (* no ABI has the library, or the APK cannot be read *)
  /\ pc[t] = "find"
  /\ \/ Supporting(lib[t]) = {} /\ Goto(t, "idle") /\ UNCHANGED faults
     \/ Throw(t)
  /\ UNCHANGED <<apk, cache, abiCache, local, held, bounds>>

CheckFile(t) ==
  /\ pc[t] = "check2"
  /\ \/ isCacheValid(t) /\ validateSoWithApk(t)
        /\ Goto(t, "return") /\ UNCHANGED <<cache, faults>>
     \/ ~(isCacheValid(t) /\ validateSoWithApk(t)) /\ DeleteFile(t)
        /\ Goto(t, "extract") /\ UNCHANGED <<timestamp, faults>>
     \/ Fault  (* validation or deletion fails *)
        /\ (DeleteFile(t) \/ UNCHANGED soFile)
        /\ Goto(t, "extract") /\ UNCHANGED timestamp
  /\ UNCHANGED <<apk, abiCache, local, held, bounds>>

-----------------------------------------------------------------------------
(* extractSoWithAtomicWriteAndValidation: a temporary file of a name of    *)
(* its own, checked against the APK's CRC, then moved into place.          *)

Extract(t) ==
  /\ pc[t] = "extract"
  /\ \/ Goto(t, "move") /\ UNCHANGED faults
     \/ Throw(t)
  /\ UNCHANGED <<apk, cache, abiCache, local, held, bounds>>

Move(t) ==
  /\ pc[t] = "move"
  /\ \/ soFile' = [soFile EXCEPT ![Entry(t)] = Whole(apk)] /\ Goto(t, "stamp") /\ UNCHANGED faults
     \/ ~AtomicMove /\ Fault /\ Goto(t, "copy") /\ UNCHANGED soFile
     \/ AtomicMove /\ Throw(t)  (* the plain move tried next may have deleted *)
        /\ (DeleteFile(t) \/ UNCHANGED soFile)
  /\ UNCHANGED <<apk, timestamp, abiCache, local, held, bounds>>

(* copyFile: the target is deleted, then filled piece by piece.            *)
CopyOpen(t) ==
  /\ pc[t] = "copy"
  /\ \/ soFile' = [soFile EXCEPT ![Entry(t)] = [ver |-> apk, whole |-> FALSE]]
        /\ Goto(t, "copying") /\ UNCHANGED faults
     \/ Throw(t) /\ (DeleteFile(t) \/ UNCHANGED soFile)
  /\ UNCHANGED <<apk, timestamp, abiCache, local, held, bounds>>

CopyEnd(t) ==
  /\ pc[t] = "copying"
  /\ \/ soFile' = [soFile EXCEPT ![Entry(t)] = Whole(apk)] /\ Goto(t, "stamp") /\ UNCHANGED faults
     \/ Throw(t) /\ UNCHANGED soFile
  /\ UNCHANGED <<apk, timestamp, abiCache, local, held, bounds>>

(* writeTimestamp truncates the file that all libraries of the ABI share,  *)
(* then writes it.                                                         *)
TimestampOpen(t) ==
  /\ pc[t] = "stamp"
  /\ \/ timestamp' = [timestamp EXCEPT ![targetAbi[t]] = TornTimestamp]
        /\ Goto(t, "stamping") /\ UNCHANGED faults
     \/ Throw(t) /\ UNCHANGED timestamp
  /\ UNCHANGED <<apk, soFile, abiCache, local, held, bounds>>

TimestampWrite(t) ==
  /\ pc[t] = "stamping"
  /\ \/ timestamp' = [timestamp EXCEPT ![targetAbi[t]] = apkModified[t]]
        /\ Goto(t, "return") /\ UNCHANGED faults
     \/ Throw(t) /\ UNCHANGED timestamp
  /\ UNCHANGED <<apk, soFile, abiCache, local, held, bounds>>

Return(t) ==
  /\ pc[t] = "return"
  /\ held' = held \cup {<<Home[t], targetAbi[t], lib[t]>>}
  /\ Goto(t, "idle")
  /\ UNCHANGED <<apk, cache, abiCache, local, bounds, faults>>

-----------------------------------------------------------------------------
(* The environment.                                                        *)

Crash(p) ==
  /\ crashes < MaxCrashes /\ crashes' = crashes + 1
  /\ pc' = [t \in Threads |-> IF Home[t] = p THEN "idle" ELSE pc[t]]
  /\ abiCache' = [abiCache EXCEPT ![p] = [l \in Libs |-> NoAbi]]
  /\ held' = {h \in held : h[1] # p}
  /\ UNCHANGED <<apk, cache, local, calls, faults>>

(* The platform empties the code cache directory, but not the files        *)
(* directory that getCacheDir falls back to.                               *)
Update ==
  /\ apk < MaxVersion /\ apk' = apk + 1
  /\ pc' = [t \in Threads |-> "idle"]
  /\ abiCache' = [p \in Procs |-> [l \in Libs |-> NoAbi]]
  /\ held' = {}
  /\ \/ UNCHANGED cache
     \/ /\ soFile' = [e \in Abis \X Libs |-> Absent]
        /\ timestamp' = [a \in Abis |-> NoTimestamp]
  /\ UNCHANGED <<local, bounds, faults>>

CallSteps(t) ==
  \/ Lock(t) \/ FileLock(t) \/ getCachedAbi(t) \/ CheckCached(t)
  \/ findSupportedAbi(t) \/ FindFails(t) \/ CheckFile(t)
  \/ Extract(t) \/ Move(t) \/ CopyOpen(t) \/ CopyEnd(t)
  \/ TimestampOpen(t) \/ TimestampWrite(t) \/ Return(t)

Next ==
  \/ \E t \in Threads : (\E l \in Libs : Call(t, l)) \/ CallSteps(t)
  \/ \E p \in Procs : Crash(p)
  \/ Update

Spec == Init /\ [][Next]_vars

-----------------------------------------------------------------------------
Steps == {"idle", "lock", "flock", "lookup", "check1", "find", "check2", "extract", "move", "copy",
          "copying", "stamp", "stamping", "return"}
Searched == Steps \ {"idle", "lock", "flock", "lookup", "find"}
CacheTypeOK ==
  /\ soFile \in [Abis \X Libs -> [ver : Nat, whole : BOOLEAN]]
  /\ AtomicMove => \A e \in Abis \X Libs : soFile[e] = Absent \/ soFile[e].whole
  /\ timestamp \in [Abis -> Int]
ThreadTypeOK ==
  /\ pc \in [Threads -> Steps]
  /\ lib \in [Threads -> Libs]
  /\ targetAbi \in [Threads -> Abis \cup {NoAbi}]
  /\ \A t \in Threads : pc[t] \in Searched => targetAbi[t] # NoAbi
  /\ AtomicMove => \A t \in Threads : pc[t] \notin {"copy", "copying"}
  /\ apkModified \in [Threads -> Nat]
BoundTypeOK ==
  /\ apk \in 1..MaxVersion
  /\ calls \in 0..MaxCalls /\ faults \in 0..MaxFaults /\ crashes \in 0..MaxCrashes
(* Types; where moves are atomic no library is ever visible in part, and   *)
(* past the search a call has an ABI.                                      *)
(* Code: getCachedSoPath, extractSoWithAtomicWriteAndValidation.           *)
TypeOK ==
  /\ CacheTypeOK /\ ThreadTypeOK /\ BoundTypeOK
  /\ abiCache \in [Procs -> [Libs -> Abis \cup {NoAbi}]]
  /\ held \subseteq Procs \X Abis \X Libs

(* The path a call returns names the whole library of the APK installed    *)
(* now, for the best ABI that has it, whatever crashed, failed or was left *)
(* by an earlier version, and though the timestamp that declares a file    *)
(* fresh may have been written for another library.                        *)
(* Code: getCachedSoPath, isCacheValid, validateSoWithApk.                 *)
ReturnsCurrent ==
  \A t \in Threads : pc[t] = "return" => File(t) = Whole(apk) /\ targetAbi[t] = Best(lib[t])

(* "Locks make sure of thread safety (in the process and across            *)
(* processes)": a library stays where a call has said it is, for the       *)
(* process that was told, while other calls go on.                         *)
(* Code: getCachedSoPath, isCacheValid, writeTimestamp.                    *)
HeldPathsWhole == \A h \in held : soFile[<<h[2], h[3]>>] = Whole(apk)

(* That does hold, across processes that crash and updates, for a library  *)
(* whose ABI no other library shares, while no operation fails.            *)
(* Code: getCachedSoPath, isCacheValid, writeTimestamp.                    *)
Alone(a, l)     == \A m \in Libs \ {l}, v \in 1..MaxVersion : <<a, m>> \notin Packed[v]
HeldAloneWhole  ==
  faults = 0 => \A h \in held : Alone(h[2], h[3]) => soFile[<<h[2], h[3]>>] = Whole(apk)
=============================================================================
