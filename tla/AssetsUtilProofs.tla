---------------------------- MODULE AssetsUtilProofs ----------------------------
(* AssetsUtil's types, what its cached CRCs are, and, if no two threads    *)
(* copy to one destination, what its files hold and its successes mean:    *)
(* for any threads, assets, versions, modes and bounds.                    *)
EXTENDS AssetsUtil, TLAPS

(* What the argument needs of the types.                                   *)
Crcs  == [Assets -> Contents \cup {Nothing}]
Calls == [asset : Assets \cup {Nothing}, mode : CopyModes \cup {""}, then : {"", "crc", "temp", "wipe"},
          updated : BOOLEAN, folder : BOOLEAN, todo : SUBSET Assets, ok : BOOLEAN]
Typed ==
  /\ apk \in 1..MaxVersion
  /\ prefs \in [version : Nat, crc : Crcs] /\ saved \in [version : Nat, crc : Crcs]
  /\ detected \in {-1, 0, 1}
  /\ pc = [t \in Threads |-> pc[t]]
  /\ call \in [Threads -> Calls]

(* Preferences are of this APK or an older one, and what they hold under   *)
(* this APK's version is of this APK.                                      *)
Current(p) ==
  p.version <= apk /\ (p.version = apk => \A a \in Assets : p.crc[a] \in {Nothing, asset(a)})

(* Whoever found no update found the preferences written for this APK;     *)
(* within a process they stay so.                                          *)
FoundNone(t) == pc[t] = "detect" /\ ~call[t].updated
Answered ==
  /\ detected = 0 => prefs.version = apk
  /\ \A t \in Threads : FoundNone(t) => prefs.version = apk

IInv == Typed /\ Current(prefs) /\ Current(saved) /\ Answered

-----------------------------------------------------------------------------
(* An asset of the APK installed has some content or is not there.         *)
LEMMA AssetTyped == ASSUME Typed, NEW a \in Assets PROVE asset(a) \in Contents \cup {Nothing}
BY AssetsAssumption DEF Typed, asset

(* The empty caches and calls are caches and calls.                        *)
LEMMA NoCrcsTyped == NoCrcs \in Crcs /\ NoCall \in Calls
BY DEF NoCrcs, NoCall, Crcs, Calls, CopyModes

(* The preferences are empty and no thread runs.                           *)
LEMMA InitIInv == ASSUME Init PROVE IInv
<1>1. Typed
  BY NoCrcsTyped, AssetsAssumption DEF Init, Typed
<1>2. Current(prefs) /\ Current(saved)
  BY DEF Init, Current
<1>3. Answered
  BY DEF Init, Answered, FoundNone
<1> QED BY <1>1, <1>2, <1>3 DEF IInv

(* A step that leaves the preferences and the flag alone and comes to no   *)
(* new answer.                                                             *)
LEMMA QuietStep ==
  ASSUME IInv, UNCHANGED <<apk, prefs, saved, detected>>, call' \in [Threads -> Calls],
         pc' = [t \in Threads |-> pc'[t]], \A u \in Threads : FoundNone(u)' => FoundNone(u)
  PROVE  IInv'
<1>1. Typed'
  BY DEF IInv, Typed
<1>2. Current(prefs)' /\ Current(saved)'
  BY DEF IInv, Current, asset
<1>3. Answered'
  BY DEF IInv, Answered
<1> QED BY <1>1, <1>2, <1>3 DEF IInv

(* One thread moves, to a step that is not "detect".                       *)
LEMMA MovesQuietly ==
  ASSUME IInv, UNCHANGED <<apk, prefs, saved, detected>>, call' \in [Threads -> Calls],
         NEW t \in Threads, NEW label, label # "detect", Goto(t, label),
         \A u \in Threads \ {t} : call'[u] = call[u]
  PROVE  IInv'
<1>1. pc' = [u \in Threads |-> pc'[u]] /\ pc'[t] = label /\ \A u \in Threads \ {t} : pc'[u] = pc[u]
  BY DEF IInv, Typed, Goto
<1>2. \A u \in Threads : FoundNone(u)' => FoundNone(u)
  BY <1>1 DEF FoundNone
<1> QED BY <1>1, <1>2, QuietStep

(* The steps of a file that leave preferences, flag and locals alone.      *)
FileSteps(t) ==
  \/ DeleteTemp(t) \/ OpenTemp(t) \/ Write1(t) \/ Write2(t) \/ Rename(t) \/ DeleteDest(t)
  \/ RenameAgain(t) \/ GiveUp(t) \/ Stamp(t) \/ CleanUp(t) \/ WipeFolder(t)

(* Steps on files leave the preferences and the answer alone.              *)
LEMMA FileStepsKeep == ASSUME IInv, NEW t \in Threads, FileSteps(t) PROVE IInv'
<1>1. UNCHANGED <<apk, prefs, saved, detected, call>>
  BY DEF FileSteps, DeleteTemp, OpenTemp, Write1, Write2, Rename, DeleteDest, RenameAgain, GiveUp,
     Stamp, CleanUp, WipeFolder
<1>2. \E label : label # "detect" /\ Goto(t, label)
  BY DEF FileSteps, DeleteTemp, OpenTemp, Write1, Write2, Rename, DeleteDest, RenameAgain, GiveUp,
     Stamp, CleanUp, WipeFolder, WriteFails
<1> QED BY <1>1, <1>2, MovesQuietly DEF IInv, Typed

(* The steps that change the locals of their thread.                       *)
LocalSteps(t) ==
  \/ \E m \in Modes[t] : CopyFolder(t, m) \/ \E a \in Copies[t] : CopyFile(t, a, m)
  \/ shouldSkipCopy(t) \/ CheckDetected(t) \/ MakeParent(t) \/ FileDone(t)
  \/ ListFolder(t) \/ NextFile(t) \/ FolderDone(t)

(* So do steps that only move a thread on.                                 *)
LEMMA LocalStepsKeep == ASSUME IInv, NEW t \in Threads, LocalSteps(t) PROVE IInv'
<1> USE DEF IInv, Typed
<1>1. UNCHANGED <<apk, prefs, saved, detected>>
  BY DEF LocalSteps, CopyFolder, CopyFile, shouldSkipCopy, CheckDetected, MakeParent, FileDone,
     ListFolder, NextFile, FolderDone
<1>2. \E label : label # "detect" /\ Goto(t, label)
  <2>1. call[t].then # "detect"
    BY DEF Calls
  <2> QED BY <2>1 DEF LocalSteps, CopyFolder, CopyFile, shouldSkipCopy, CheckDetected, MakeParent, FileDone,
     ListFolder, NextFile, FolderDone, FolderFails
<1>3. \E c \in Calls : call' = [call EXCEPT ![t] = c]
  <2> DEFINE c == call[t]
  <2>0. c \in Calls /\ NoCall \in Calls
    BY NoCrcsTyped
  <2>1. ASSUME NEW m \in Modes[t], CopyFolder(t, m) PROVE \E d \in Calls : call' = [call EXCEPT ![t] = d]
    <3>1. m \in CopyModes
      BY AssetsAssumption
    <3>2. [NoCall EXCEPT !.mode = m, !.folder = TRUE, !.then = "wipe"] \in Calls
      BY <2>0, <3>1 DEF Calls
    <3> QED BY <2>1, <3>2 DEF CopyFolder
  <2>2. ASSUME NEW m \in Modes[t], NEW a \in Copies[t], CopyFile(t, a, m)
        PROVE  \E d \in Calls : call' = [call EXCEPT ![t] = d]
    <3>1. m \in CopyModes /\ a \in Assets
      BY AssetsAssumption
    <3>2. [NoCall EXCEPT !.asset = a, !.mode = m] \in Calls
      BY <2>0, <3>1 DEF Calls
    <3> QED BY <2>2, <3>2 DEF CopyFile
  <2>3. CASE shouldSkipCopy(t) \/ CheckDetected(t) \/ MakeParent(t)
    <3>1. [c EXCEPT !.then = "crc"] \in Calls /\ [c EXCEPT !.then = "temp"] \in Calls
          /\ [c EXCEPT !.updated = (detected = 1)] \in Calls
      BY <2>0 DEF Calls
    <3>2. \/ call' = call
          \/ call' = [call EXCEPT ![t] = [c EXCEPT !.then = "crc"]]
          \/ call' = [call EXCEPT ![t] = [c EXCEPT !.then = "temp"]]
          \/ call' = [call EXCEPT ![t] = [c EXCEPT !.updated = (detected = 1)]]
      BY <2>3 DEF shouldSkipCopy, CheckDetected, MakeParent
    <3>3. call = [call EXCEPT ![t] = c]
      OBVIOUS
    <3> HIDE DEF c
    <3> QED BY <2>0, <3>1, <3>2, <3>3
  <2>4. CASE FileDone(t) \/ FolderDone(t)
    <3>1. [c EXCEPT !.ok = c.ok /\ pc[t] = "succeed"] \in Calls
      BY <2>0 DEF Calls
    <3>2. \/ call' = [call EXCEPT ![t] = NoCall]
          \/ call' = [call EXCEPT ![t] = [c EXCEPT !.ok = c.ok /\ pc[t] = "succeed"]]
      BY <2>4 DEF FileDone, FolderDone
    <3> HIDE DEF c
    <3> QED BY <2>0, <3>1, <3>2
  <2>5. CASE ListFolder(t) \/ NextFile(t)
    <3>1. [c EXCEPT !.ok = FALSE] \in Calls
      BY <2>0 DEF Calls
    <3>2. [c EXCEPT !.todo = {a \in Folder : asset(a) # Nothing}] \in Calls
      BY <2>0, AssetsAssumption DEF Calls
    <3>3. \A a \in c.todo : [c EXCEPT !.asset = a, !.todo = c.todo \ {a}] \in Calls
      BY <2>0 DEF Calls
    <3>4. \/ call' = call
          \/ call' = [call EXCEPT ![t] = [c EXCEPT !.ok = FALSE]]
          \/ call' = [call EXCEPT ![t] = [c EXCEPT !.todo = {a \in Folder : asset(a) # Nothing}]]
          \/ \E a \in c.todo : call' = [call EXCEPT ![t] = [c EXCEPT !.asset = a, !.todo = c.todo \ {a}]]
      BY <2>5 DEF ListFolder, NextFile, FolderFails
    <3>5. call = [call EXCEPT ![t] = c]
      OBVIOUS
    <3> HIDE DEF c
    <3> QED BY <2>0, <3>1, <3>2, <3>3, <3>4, <3>5
  <2> QED BY <2>1, <2>2, <2>3, <2>4, <2>5 DEF LocalSteps
<1> QED BY <1>1, <1>2, <1>3, MovesQuietly

(* A CRC that is put into the preferences is of the APK installed now, or  *)
(* is there already.                                                       *)
LEMMA PutKeeps ==
  ASSUME IInv, UNCHANGED <<apk, saved, detected, call>>, NEW t \in Threads, NEW label, label # "detect",
         Goto(t, label), NEW b, NEW crc,
         b \in Assets => crc \in {asset(b), prefs.crc[b]},
         prefs' = [prefs EXCEPT !.crc[b] = crc]
  PROVE  IInv'
<1> USE DEF IInv, Typed
<1>0. prefs \in [version : Nat, crc : Crcs]
  OBVIOUS
<1>1. prefs.crc \in Crcs /\ prefs'.version = prefs.version /\ prefs'.crc = [prefs.crc EXCEPT ![b] = crc]
  BY <1>0
<1>2. prefs'.crc \in Crcs
  <2>1. prefs.crc \in [Assets -> Contents \cup {Nothing}]
    BY <1>1 DEF Crcs
  <2>2. b \in Assets => crc \in Contents \cup {Nothing}
    BY <2>1, AssetTyped
  <2> QED BY <1>1, <2>1, <2>2 DEF Crcs
<1>3. prefs' \in [version : Nat, crc : Crcs]
  BY <1>2
<1>4. Current(prefs)' /\ Current(saved)'
  BY <1>1 DEF Current, asset, Crcs
<1>5. \A u \in Threads : FoundNone(u)' => FoundNone(u)
  BY DEF FoundNone, Goto
<1>6. Answered'
  BY <1>1, <1>5 DEF Answered
<1>7. pc' = [u \in Threads |-> pc'[u]]
  BY DEF Goto
<1> QED BY <1>3, <1>4, <1>6, <1>7

(* A CRC that is computed or cached is one of the APK installed.           *)
LEMMA CrcStepsKeep == ASSUME IInv, NEW t \in Threads, CheckCrc(t) \/ cacheAssetCrc(t) PROVE IInv'
<1>1. CASE cacheAssetCrc(t)
  BY <1>1, PutKeeps DEF cacheAssetCrc
<1>2. CASE CheckCrc(t) /\ UNCHANGED prefs
  <2>1. \E label : label # "detect" /\ Goto(t, label)
    BY <1>2 DEF CheckCrc
  <2> QED BY <1>2, <2>1, MovesQuietly DEF CheckCrc, IInv, Typed
<1>3. CASE CheckCrc(t) /\ prefs' # prefs
  <2> DEFINE b   == call[t].asset
             crc == IF prefs.crc[b] # Nothing THEN prefs.crc[b] ELSE asset(b)
  <2>1. \E label : label # "detect" /\ Goto(t, label)
    BY <1>3 DEF CheckCrc
  <2>2. prefs' = [prefs EXCEPT !.crc[b] = crc]
    BY <1>3 DEF CheckCrc
  <2>3. UNCHANGED <<apk, saved, detected, call>>
    BY <1>3 DEF CheckCrc
  <2>4. crc \in {asset(b), prefs.crc[b]}
    OBVIOUS
  <2> HIDE DEF b, crc
  <2> QED BY <2>1, <2>2, <2>3, <2>4, PutKeeps
<1> QED BY <1>1, <1>2, <1>3

(* The answer is formed, remembered, and written down.                     *)
LEMMA SyncStepsKeep ==
  ASSUME IInv, NEW t \in Threads, ReadStored(t) \/ SetDetected(t) \/ EditPrefs(t) PROVE IInv'
<1> USE DEF IInv, Typed
<1>1. call[t] \in Calls /\ call[t].then # "detect"
  BY DEF Calls
<1>2. CASE ReadStored(t)
  <2>1. [call[t] EXCEPT !.updated = (prefs.version # apk)] \in Calls
    BY <1>1 DEF Calls
  <2>2. Typed'
    BY <1>2, <2>1 DEF ReadStored, Goto
  <2>3. Current(prefs)' /\ Current(saved)'
    BY <1>2 DEF ReadStored, Current, asset
  <2>4. FoundNone(t)' => prefs.version = apk
    BY <1>2, <1>1 DEF ReadStored, FoundNone, Goto, Calls
  <2>5. \A u \in Threads \ {t} : FoundNone(u)' => FoundNone(u)
    BY <1>2 DEF ReadStored, FoundNone, Goto
  <2>6. Answered'
    BY <1>2, <2>4, <2>5 DEF ReadStored, Answered
  <2> QED BY <2>2, <2>3, <2>6
<1>3. CASE SetDetected(t)
  <2>1. Typed'
    BY <1>3 DEF SetDetected, Goto
  <2>2. Current(prefs)' /\ Current(saved)'
    BY <1>3 DEF SetDetected, Current, asset
  <2>3. detected' = 0 => FoundNone(t)
    BY <1>3 DEF SetDetected, FoundNone
  <2>4. \A u \in Threads : FoundNone(u)' => FoundNone(u)
    BY <1>1, <1>3 DEF SetDetected, FoundNone, Goto
  <2>5. Answered'
    BY <1>3, <2>3, <2>4 DEF SetDetected, Answered
  <2> QED BY <2>1, <2>2, <2>5
<1>4. CASE EditPrefs(t)
  <2>1. prefs' \in [version : Nat, crc : Crcs]
    BY <1>4, NoCrcsTyped, AssetsAssumption DEF EditPrefs, Cleared
  <2>2. Typed'
    BY <1>4, <2>1 DEF EditPrefs, Goto
  <2>3. Current(prefs)' /\ Current(saved)'
    BY <1>4, AssetsAssumption DEF EditPrefs, Cleared, NoCrcs, Current, asset
  <2>4. prefs'.version = apk'
    BY <1>4 DEF EditPrefs
  <2>5. Answered'
    BY <2>4 DEF Answered
  <2> QED BY <2>2, <2>3, <2>5
<1> QED BY <1>2, <1>3, <1>4

(* Saving keeps what is current; an update makes it older.                 *)
LEMMA EnvironmentKeeps ==
  ASSUME IInv, (\E a \in Assets : UserWrites(a)) \/ SavePrefs \/ ProcessEnds \/ Update PROVE IInv'
<1> USE DEF IInv, Typed
<1>1. CASE \E a \in Assets : UserWrites(a)
  BY <1>1, QuietStep DEF UserWrites, FoundNone
<1>2. CASE SavePrefs
  BY <1>2 DEF SavePrefs, Current, asset, Answered, FoundNone
<1>3. ASSUME NewProcess, apk' \in {apk, apk + 1}, apk' \in 1..MaxVersion PROVE IInv'
  <2>1. Typed'
    BY <1>3, NoCrcsTyped DEF NewProcess
  <2>2. Current(prefs)' /\ Current(saved)'
    BY <1>3, AssetsAssumption DEF NewProcess, Current, asset
  <2>3. Answered'
    BY <1>3 DEF NewProcess, Answered, FoundNone
  <2> QED BY <2>1, <2>2, <2>3
<1>4. CASE ProcessEnds
  BY <1>3, <1>4 DEF ProcessEnds
<1>5. CASE Update
  BY <1>3, <1>5, AssetsAssumption DEF Update
<1> QED BY <1>1, <1>2, <1>4, <1>5

(* One step of Next, by the kinds of step above.                           *)
LEMMA NextIInv == IInv /\ [Next]_vars => IInv'
<1>1. ASSUME IInv, UNCHANGED vars PROVE IInv'
  BY <1>1, QuietStep DEF vars, IInv, Typed, FoundNone
<1> QED
  BY <1>1, FileStepsKeep, LocalStepsKeep, CrcStepsKeep, SyncStepsKeep, EnvironmentKeeps
  DEF Next, Steps, FileSteps, LocalSteps

(* The inductive invariant holds in every reachable state.                 *)
THEOREM Invariance == Spec => []IInv
BY InitIInv, NextIInv, PTL DEF Spec

(* Once a process has found that the APK is the one the preferences were   *)
(* written for, the CRCs they hold are those of its assets.                *)
(* Code: ensureApkInfoSynced, getOrComputeAssetCrc, cacheAssetCrc.         *)
THEOREM CrcsCurrent == Spec => []CachedCrcsCurrent
<1>1. IInv => CachedCrcsCurrent
  BY DEF IInv, Answered, Current, CachedCrcsCurrent
<1> QED BY <1>1, Invariance, PTL

-----------------------------------------------------------------------------
(* Where a thread is, and what it works on there.                          *)

(* What a thread copies, by itself or with the folder.                     *)
Mine(t)      == Copies[t] \cup {a \in Folder : t \in FolderThreads}

FileLabels   == {"check", "crc", "mkdirs", "temp", "open", "write1", "write2", "rename", "delete",
                 "again", "giveup", "stamp", "cache", "succeed", "fail", "failed"}
SyncLabels   == {"sync", "stored", "detect", "edit"}
FolderLabels == {"wipe", "list", "next", "end"}

Place(t) ==
  /\ pc[t] \in Labels
  /\ pc[t] \in FileLabels => call[t].asset \in Mine(t)
  /\ pc[t] \in SyncLabels =>
       \/ call[t].then \in {"crc", "temp"} /\ call[t].asset \in Mine(t)
       \/ call[t].then = "wipe" /\ t \in FolderThreads
  /\ pc[t] \in FolderLabels \/ call[t].folder => t \in FolderThreads
  /\ call[t].todo \subseteq Folder
Located == \A t \in Threads : Place(t)

(* Where a thread may be.                                                  *)
LEMMA LabelKinds == Labels = {"idle"} \cup FileLabels \cup SyncLabels \cup FolderLabels
BY DEF Labels, FileLabels, SyncLabels, FolderLabels

(* A step of a thread leaves the others where they are.                    *)
LEMMA OthersStay ==
  ASSUME IInv, NEW t \in Threads, Steps(t)
  PROVE  /\ UNCHANGED <<apk, saved>>
         /\ \A u \in Threads \ {t} : pc'[u] = pc[u] /\ call'[u] = call[u]
<1> USE DEF IInv, Typed
<1>1. CASE FileSteps(t)
  <2>1. UNCHANGED <<apk, saved, call>>
    BY <1>1 DEF FileSteps, DeleteTemp, OpenTemp, Write1, Write2, Rename, DeleteDest, RenameAgain,
       GiveUp, Stamp, CleanUp, WipeFolder
  <2>2. \E label : Goto(t, label)
    BY <1>1 DEF FileSteps, DeleteTemp, OpenTemp, Write1, Write2, Rename, DeleteDest, RenameAgain,
       GiveUp, Stamp, CleanUp, WipeFolder, WriteFails
  <2> QED BY <2>1, <2>2 DEF Goto
<1>2. CASE LocalSteps(t)
  BY <1>2 DEF LocalSteps, CopyFolder, CopyFile, shouldSkipCopy, CheckDetected, MakeParent, FileDone,
     ListFolder, NextFile, FolderDone, FolderFails, Goto
<1>3. CASE CheckCrc(t) \/ cacheAssetCrc(t) \/ ReadStored(t) \/ SetDetected(t) \/ EditPrefs(t)
  BY <1>3 DEF CheckCrc, cacheAssetCrc, ReadStored, SetDetected, EditPrefs, Goto
<1> QED BY <1>1, <1>2, <1>3 DEF Steps, FileSteps, LocalSteps

(* A step within a file: the thread moves, its locals stay.                *)
LEMMA FileStepsPlace == ASSUME IInv, Located, NEW t \in Threads, FileSteps(t) PROVE Place(t)'
<1> USE DEF IInv, Typed
<1>1. UNCHANGED <<apk, call>>
  BY DEF FileSteps, DeleteTemp, OpenTemp, Write1, Write2, Rename, DeleteDest, RenameAgain, GiveUp,
     Stamp, CleanUp, WipeFolder
<1>2. \E label : /\ Goto(t, label)
                 /\ \/ pc[t] \in FileLabels /\ label \in FileLabels
                    \/ pc[t] = "wipe" /\ label = "list"
  BY DEF FileSteps, DeleteTemp, OpenTemp, Write1, Write2, Rename, DeleteDest, RenameAgain, GiveUp,
     Stamp, CleanUp, WipeFolder, WriteFails, FileLabels
<1> QED
  BY <1>1, <1>2, LabelKinds DEF Goto, Located, Place, FileLabels, SyncLabels, FolderLabels

(* A thread that is idle is well placed.                                   *)
LEMMA IdlePlaced ==
  /\ NoCall.todo = {} /\ NoCall.folder = FALSE
  /\ \A t \in Threads : pc[t] = "idle" /\ call[t] = NoCall => Place(t)
<1>1. NoCall.todo = {} /\ NoCall.folder = FALSE
  BY DEF NoCall
<1> QED BY <1>1 DEF Place, Labels, FileLabels, SyncLabels, FolderLabels

(* The steps that change the locals.                                       *)
LEMMA LocalStepsPlace == ASSUME IInv, Located, NEW t \in Threads, LocalSteps(t) PROVE Place(t)'
<1> USE DEF IInv, Typed
<1>0. call[t] \in Calls /\ Place(t)
  BY DEF Located
<1>1. ASSUME NEW m \in Modes[t], CopyFolder(t, m) PROVE Place(t)'
  <2>1. call'[t] = [NoCall EXCEPT !.mode = m, !.folder = TRUE, !.then = "wipe"]
    BY <1>1 DEF CopyFolder
  <2>2. call'[t].then = "wipe" /\ call'[t].todo = {}
    BY <2>1 DEF NoCall
  <2>3. t \in FolderThreads /\ pc'[t] \in {"sync", "list"}
    BY <1>1 DEF CopyFolder, Goto
  <2> QED BY <2>2, <2>3 DEF Place, Labels, FileLabels, SyncLabels, FolderLabels
<1>2. ASSUME NEW m \in Modes[t], NEW a \in Copies[t], CopyFile(t, a, m) PROVE Place(t)'
  <2>1. call'[t] = [NoCall EXCEPT !.asset = a, !.mode = m]
    BY <1>2 DEF CopyFile
  <2>2. call'[t].asset = a /\ call'[t].folder = FALSE /\ call'[t].todo = {}
    BY <2>1 DEF NoCall
  <2>3. pc'[t] = "check" /\ a \in Mine(t)
    BY <1>2 DEF CopyFile, Goto, Mine
  <2> QED BY <2>2, <2>3 DEF Place, Labels, FileLabels, SyncLabels, FolderLabels
<1>3. CASE shouldSkipCopy(t) \/ MakeParent(t)
  <2>1. /\ pc[t] \in FileLabels
        /\ \/ call'[t] = call[t] /\ pc'[t] \in FileLabels
           \/ \E v \in {"crc", "temp"} : call'[t] = [call[t] EXCEPT !.then = v] /\ pc'[t] = "sync"
    BY <1>3 DEF shouldSkipCopy, MakeParent, Goto, FileLabels
  <2>2. ASSUME NEW v, call'[t] = [call[t] EXCEPT !.then = v]
        PROVE  /\ call'[t].asset = call[t].asset /\ call'[t].folder = call[t].folder
               /\ call'[t].todo = call[t].todo /\ call'[t].then = v
    BY <1>0, <2>2 DEF Calls
  <2> QED BY <1>0, <2>1, <2>2 DEF Place, Labels, FileLabels, SyncLabels, FolderLabels
<1>4. CASE CheckDetected(t)
  <2>1. /\ pc[t] = "sync"
        /\ \/ call'[t] = call[t] /\ pc'[t] = "stored"
           \/ call'[t] = [call[t] EXCEPT !.updated = (detected = 1)] /\ pc'[t] = call[t].then
    BY <1>4 DEF CheckDetected, Goto
  <2>2. /\ call'[t].asset = call[t].asset /\ call'[t].folder = call[t].folder
        /\ call'[t].todo = call[t].todo /\ call'[t].then = call[t].then
    BY <1>0, <2>1 DEF Calls
  <2>3. pc'[t] \in {"stored", call[t].then}
    BY <2>1
  <2> QED BY <1>0, <2>1, <2>2, <2>3 DEF Place, Labels, FileLabels, SyncLabels, FolderLabels
<1>5. CASE FileDone(t)
  <2>1. \/ call'[t] = NoCall /\ pc'[t] = "idle"
        \/ /\ pc'[t] = "next" /\ call[t].folder
           /\ call'[t] = [call[t] EXCEPT !.ok = @ /\ pc[t] = "succeed"]
    BY <1>5 DEF FileDone, Goto
  <2>2. ASSUME call'[t] = [call[t] EXCEPT !.ok = @ /\ pc[t] = "succeed"]
        PROVE  call'[t].folder = call[t].folder /\ call'[t].todo = call[t].todo
    BY <1>0, <2>2 DEF Calls
  <2>3. NoCall.todo = {} /\ NoCall.folder = FALSE
    BY DEF NoCall
  <2> QED BY <1>0, <2>1, <2>2, <2>3 DEF Place, Labels, FileLabels, SyncLabels, FolderLabels
<1>6. CASE ListFolder(t)
  <2>1. /\ pc[t] = "list" /\ pc'[t] \in {"next", "end"}
        /\ \/ call'[t] = [call[t] EXCEPT !.todo = {a \in Folder : asset(a) # Nothing}]
           \/ call'[t] = [call[t] EXCEPT !.ok = FALSE]
    BY <1>6 DEF ListFolder, FolderFails, Goto
  <2>2. call'[t].todo = call[t].todo \/ call'[t].todo = {a \in Folder : asset(a) # Nothing}
    BY <1>0, <2>1 DEF Calls
  <2> QED BY <1>0, <2>1, <2>2 DEF Place, Labels, FileLabels, SyncLabels, FolderLabels
<1>7. CASE NextFile(t)
  <2>1. pc[t] = "next" /\ t \in FolderThreads /\ call[t].todo \subseteq Mine(t)
    BY <1>0, <1>7 DEF NextFile, Place, FolderLabels, Mine
  <2>2. \/ \E a \in call[t].todo :
             pc'[t] = "check" /\ call'[t] = [call[t] EXCEPT !.asset = a, !.todo = @ \ {a}]
        \/ pc'[t] = "end" /\ call'[t] \in {call[t], [call[t] EXCEPT !.ok = FALSE]}
    BY <1>7 DEF NextFile, FolderFails, Goto
  <2>3. ASSUME NEW a \in call[t].todo, pc'[t] = "check",
               call'[t] = [call[t] EXCEPT !.asset = a, !.todo = @ \ {a}]
        PROVE  call'[t].todo = call[t].todo \ {a} /\ call'[t].asset = a
    BY <1>0, <2>3 DEF Calls
  <2>4. ASSUME call'[t] \in {call[t], [call[t] EXCEPT !.ok = FALSE]}
        PROVE  call'[t].todo = call[t].todo
    BY <1>0, <2>4 DEF Calls
  <2> QED BY <1>0, <2>1, <2>2, <2>3, <2>4 DEF Place, Labels, FileLabels, SyncLabels, FolderLabels
<1>8. CASE FolderDone(t)
  <2>1. pc'[t] = "idle" /\ call'[t] = NoCall
    BY <1>8 DEF FolderDone, Goto
  <2> QED BY <2>1, IdlePlaced DEF Place, Labels, FileLabels, SyncLabels, FolderLabels
<1> QED BY <1>1, <1>2, <1>3, <1>4, <1>5, <1>6, <1>7, <1>8 DEF LocalSteps

(* The steps about CRCs and the answer.                                    *)
LEMMA SyncStepsPlace ==
  ASSUME IInv, Located, NEW t \in Threads,
         CheckCrc(t) \/ cacheAssetCrc(t) \/ ReadStored(t) \/ SetDetected(t) \/ EditPrefs(t)
  PROVE  Place(t)'
<1> USE DEF IInv, Typed
<1>1. CASE CheckCrc(t) \/ cacheAssetCrc(t)
  <2>1. UNCHANGED call /\ \E label \in FileLabels : Goto(t, label) /\ pc[t] \in FileLabels
    BY <1>1 DEF CheckCrc, cacheAssetCrc, FileLabels
  <2> QED BY <2>1, LabelKinds DEF Goto, Located, Place, FileLabels, SyncLabels, FolderLabels
<1>2. CASE ReadStored(t) \/ SetDetected(t) \/ EditPrefs(t)
  <2>0. call[t] \in Calls /\ Place(t)
    BY DEF Located
  <2>1. /\ pc[t] \in SyncLabels /\ pc'[t] \in {"detect", "edit", call[t].then}
        /\ \/ call'[t] = call[t]
           \/ call'[t] = [call[t] EXCEPT !.updated = (prefs.version # apk)]
    BY <1>2 DEF ReadStored, SetDetected, EditPrefs, Goto, SyncLabels
  <2>2. /\ call'[t].asset = call[t].asset /\ call'[t].folder = call[t].folder
        /\ call'[t].todo = call[t].todo /\ call'[t].then = call[t].then
    BY <2>0, <2>1 DEF Calls
  <2> QED BY <2>0, <2>1, <2>2 DEF Place, Labels, FileLabels, SyncLabels, FolderLabels
<1> QED BY <1>1, <1>2

(* Every thread is idle, and stays where its label says.                   *)
LEMMA InitLocated == ASSUME Init PROVE Located
BY DEF Init, Located, Place, NoCall, Labels, FileLabels, SyncLabels, FolderLabels

(* A step of a thread moves that thread only; others leave none running.   *)
LEMMA NextLocated == ASSUME IInv, Located, [Next]_vars PROVE Located'
<1>1. ASSUME NEW t \in Threads, Steps(t) PROVE Located'
  <2>1. Place(t)'
    BY <1>1, FileStepsPlace, LocalStepsPlace, SyncStepsPlace DEF Steps, FileSteps, LocalSteps
  <2> QED BY <1>1, <2>1, OthersStay DEF Located, Place
<1>2. CASE ProcessEnds \/ Update
  <2>1. \A t \in Threads : pc'[t] = "idle" /\ call'[t] = NoCall
    BY <1>2 DEF ProcessEnds, Update, NewProcess
  <2> QED BY <2>1, IdlePlaced DEF Located, Place, Labels, FileLabels, SyncLabels, FolderLabels
<1>3. CASE (\E a \in Assets : UserWrites(a)) \/ SavePrefs \/ UNCHANGED vars
  BY <1>3 DEF UserWrites, SavePrefs, vars, Located, Place
<1> QED BY <1>1, <1>2, <1>3 DEF Next

-----------------------------------------------------------------------------
(* Type correctness: the files and the streams.                            *)

Writing   == {"write1", "write2"}
Bytes     == [Blocks -> Contents \cup {Nothing}]
File      == [data : Bytes, time : -1..(3 * apk + 2)]
DiskTyped == disk \in [Names -> File]
StreamsTyped ==
  /\ stream = [t \in Threads |-> stream[t]]
  /\ \A t \in Threads : stream[t] = NoStream \/ (stream[t] \in Names /\ Exists(stream[t]))
WritesAsset == \A t \in Threads : pc[t] \in Writing => asset(call[t].asset) # Nothing
BoundsTyped == calls \in 0..MaxCalls /\ faults \in 0..MaxFaults /\ ends \in 0..MaxEnds

FilesTyped == DiskTyped /\ StreamsTyped /\ WritesAsset

(* What a step may do to the files of N: nothing, delete some, rename one, *)
(* or write one.                                                           *)
Writes(t, n, f) ==
  /\ f # Missing /\ disk' = [disk EXCEPT ![n] = f]
  /\ stream' \in {stream, [stream EXCEPT ![t] = NoStream], [stream EXCEPT ![t] = n]}
Effects(t, N) ==
  \/ UNCHANGED disk /\ stream' \in {stream, [stream EXCEPT ![t] = NoStream]}
  \/ \E S \in SUBSET N : Delete(S)
  \/ \E a \in Mine(t) : tempFile(a) \in N /\ Dest(a) \in N /\ Exists(tempFile(a)) /\ renameTo(a)
  \/ \E n \in N, f \in File : Writes(t, n, f)

(* What a thread copies are assets.                                        *)
LEMMA MineAreAssets == ASSUME NEW t \in Threads PROVE Mine(t) \subseteq Assets
BY AssetsAssumption DEF Mine

(* An asset has two names, which differ.                                   *)
LEMMA NamesOf ==
  ASSUME NEW a \in Assets
  PROVE  tempFile(a) \in Names /\ Dest(a) \in Names /\ tempFile(a) # Dest(a)
BY DEF tempFile, Dest, Names, Kinds

(* What deleting and opening write is well typed.                          *)
LEMMA MissingTyped == ASSUME IInv PROVE Missing \in File /\ Whole(Nothing) \in Bytes
BY DEF IInv, Typed, Missing, File, Bytes, Whole, Blocks

(* Deleting, renaming and writing keep the types.                          *)
LEMMA DeleteTyped ==
  ASSUME IInv, DiskTyped, StreamsTyped, UNCHANGED apk, NEW S, Delete(S)
  PROVE  (DiskTyped /\ StreamsTyped)'
<1>1. disk' = [n \in Names |-> IF n \in S THEN Missing ELSE disk[n]]
  BY DEF Delete, Without
<1>2. DiskTyped'
  BY <1>1, MissingTyped DEF DiskTyped, File
<1>3. stream' = [u \in Threads |-> IF stream[u] \in S THEN NoStream ELSE stream[u]]
  BY DEF Delete
<1>4. StreamsTyped'
  BY <1>1, <1>3 DEF StreamsTyped, Exists
<1> QED BY <1>2, <1>4

(* Renaming moves a file, and the streams that write to it.                *)
LEMMA RenameTyped ==
  ASSUME IInv, DiskTyped, StreamsTyped, UNCHANGED apk, NEW a \in Assets, Exists(tempFile(a)), renameTo(a)
  PROVE  (DiskTyped /\ StreamsTyped)'
<1>1. disk' = [n \in Names |-> IF n = Dest(a) THEN disk[tempFile(a)]
                               ELSE IF n = tempFile(a) THEN Missing ELSE disk[n]]
  BY NamesOf DEF renameTo, Without
<1>2. DiskTyped'
  BY <1>1, NamesOf, MissingTyped DEF DiskTyped, File
<1>3. stream' = [u \in Threads |-> CASE stream[u] = tempFile(a) -> Dest(a)
                                     [] stream[u] = Dest(a)     -> NoStream
                                     [] OTHER                   -> stream[u]]
  BY DEF renameTo
<1>4. ASSUME NEW u \in Threads PROVE stream'[u] = NoStream \/ (stream'[u] \in Names /\ Exists(stream[u])')
  <2>1. CASE stream[u] = tempFile(a)
    BY <1>1, <1>3, <2>1, NamesOf DEF Exists
  <2>2. CASE stream[u] = Dest(a)
    BY <1>3, <2>2, NamesOf
  <2>3. CASE stream[u] # tempFile(a) /\ stream[u] # Dest(a)
    BY <1>1, <1>3, <2>3 DEF StreamsTyped, Exists
  <2> QED BY <2>1, <2>2, <2>3
<1>5. stream' = [u \in Threads |-> stream'[u]]
  BY <1>3
<1> QED BY <1>2, <1>4, <1>5 DEF StreamsTyped

(* So whatever a step does to the files, they stay well typed.             *)
LEMMA EffectsTyped ==
  ASSUME IInv, DiskTyped, StreamsTyped, UNCHANGED apk, NEW t \in Threads, Effects(t, Names)
  PROVE  (DiskTyped /\ StreamsTyped)'
<1>1. CASE UNCHANGED disk /\ stream' \in {stream, [stream EXCEPT ![t] = NoStream]}
  BY <1>1 DEF DiskTyped, File, StreamsTyped, Exists
<1>2. ASSUME NEW n \in Names, NEW f \in File, Writes(t, n, f) PROVE (DiskTyped /\ StreamsTyped)'
  <2>1. DiskTyped'
    BY <1>2 DEF Writes, DiskTyped, File
  <2>2. \A m \in Names : Exists(m) \/ m = n => Exists(m)'
    BY <1>2 DEF Writes, DiskTyped, Exists
  <2>3. stream' = [u \in Threads |-> stream'[u]] /\ \A u \in Threads : stream'[u] \in {NoStream, n, stream[u]}
    BY <1>2 DEF Writes, StreamsTyped
  <2> QED BY <2>1, <2>2, <2>3 DEF StreamsTyped
<1> QED BY <1>1, <1>2, DeleteTyped, RenameTyped, MineAreAssets DEF Effects

(* The steps of a thread have these effects.                               *)
LEMMA StepEffects ==
  ASSUME IInv, Located, FilesTyped, NEW t \in Threads, Steps(t),
         NEW N, Mine(t) \X Kinds \subseteq N, N \subseteq Names, stream[t] # NoStream => stream[t] \in N
  PROVE  Effects(t, N)
<1> DEFINE a == call[t].asset
<1> USE DEF IInv, Typed
<1>0. pc[t] \in FileLabels => a \in Mine(t) /\ a \in Assets /\ tempFile(a) \in N /\ Dest(a) \in N
  BY MineAreAssets DEF Located, Place, tempFile, Dest, Kinds
<1>1. ASSUME NEW n \in N, NEW f \in File, f # Missing, disk' = [disk EXCEPT ![n] = f],
             stream' \in {stream, [stream EXCEPT ![t] = NoStream], [stream EXCEPT ![t] = n]}
      PROVE  Effects(t, N)
  BY <1>1 DEF Effects, Writes
<1>2. CASE shouldSkipCopy(t) \/ Stamp(t)
  <2>1. pc[t] \in FileLabels /\ UNCHANGED stream
    BY <1>2 DEF shouldSkipCopy, Stamp, FileLabels
  <2>2. UNCHANGED disk \/ (Exists(Dest(a)) /\ disk' = Stamped(a))
    BY <1>2 DEF shouldSkipCopy, Stamp
  <2>3. ASSUME Exists(Dest(a)), disk' = Stamped(a) PROVE Effects(t, N)
    <3> DEFINE f == [disk[Dest(a)] EXCEPT !.time = ApkLastUpdateTime]
    <3>1. disk[Dest(a)] \in File /\ Dest(a) \in N
      BY <1>0, <2>1 DEF FilesTyped, DiskTyped
    <3>2. f \in File
      BY <3>1 DEF File, ApkLastUpdateTime
    <3>3. f.time = 3 * apk /\ f.time # Missing.time
      BY <3>1 DEF File, ApkLastUpdateTime, Missing
    <3>4. disk' = [disk EXCEPT ![Dest(a)] = f]
      BY <2>3 DEF Stamped
    <3>5. f # Missing
      BY <3>3
    <3> HIDE DEF f
    <3> QED BY <1>1, <2>1, <3>1, <3>2, <3>4, <3>5
  <2> QED BY <2>1, <2>2, <2>3 DEF Effects
<1>3. CASE DeleteTemp(t) \/ DeleteDest(t) \/ GiveUp(t) \/ CleanUp(t)
  <2>1. pc[t] \in FileLabels /\ (UNCHANGED files \/ Delete({tempFile(a)}) \/ Delete({Dest(a)}))
    BY <1>3 DEF DeleteTemp, DeleteDest, GiveUp, CleanUp, FileLabels
  <2> QED BY <1>0, <2>1 DEF Effects, files
<1>4. CASE WipeFolder(t)
  <2>1. (Folder \X Kinds) \in SUBSET N
    BY <1>4 DEF WipeFolder, Located, Place, FolderLabels, Mine
  <2>2. UNCHANGED files \/ \E S \in SUBSET N : Delete(S)
    BY <1>4, <2>1 DEF WipeFolder
  <2> QED BY <2>2 DEF Effects, files
<1>5. CASE WriteFails(t) /\ pc[t] \in FileLabels
  BY <1>0, <1>5 DEF WriteFails, Effects
<1>6. CASE OpenTemp(t) /\ ~WriteFails(t)
  <2>1. PICK now \in {LegacyTime, Later} :
          /\ disk' = [disk EXCEPT ![tempFile(a)] = [data |-> Whole(Nothing), time |-> now]]
          /\ stream' = [stream EXCEPT ![t] = tempFile(a)]
    BY <1>6 DEF OpenTemp
  <2> DEFINE f == [data |-> Whole(Nothing), time |-> now]
  <2>2. f \in File /\ f.time = now /\ now # Missing.time
    BY MissingTyped DEF File, LegacyTime, Later, Missing
  <2>3. f # Missing
    BY <2>2
  <2>4. tempFile(a) \in N
    BY <1>0, <1>6 DEF OpenTemp, FileLabels
  <2>5. disk' = [disk EXCEPT ![tempFile(a)] = f]
    BY <2>1
  <2> HIDE DEF f
  <2> QED BY <1>1, <2>1, <2>2, <2>3, <2>4, <2>5
<1>7. CASE (Write1(t) \/ Write2(t)) /\ ~WriteFails(t)
  <2>1. PICK b \in Blocks : disk' = Written(t, b)
    BY <1>7 DEF Write1, Write2, Blocks
  <2>2. stream' \in {stream, [stream EXCEPT ![t] = NoStream]} /\ pc[t] \in Writing
    BY <1>7 DEF Write1, Write2, Writing
  <2>3. CASE stream[t] = NoStream
    BY <2>1, <2>2, <2>3 DEF Written, Effects
  <2>4. CASE stream[t] # NoStream
    <3> DEFINE n == stream[t]
               f == [disk[n] EXCEPT !.data = [disk[n].data EXCEPT ![b] = asset(a)]]
    <3>1. n \in N /\ disk[n] \in File
      BY <2>4 DEF FilesTyped, StreamsTyped, DiskTyped
    <3>2. asset(a) \in Contents \cup {Nothing} /\ asset(a) # Nothing
      BY <1>0, <2>2, AssetTyped DEF FilesTyped, WritesAsset, Writing, FileLabels
    <3>3. [disk[n].data EXCEPT ![b] = asset(a)] \in Bytes
      BY <3>1, <3>2 DEF File, Bytes
    <3>4. f \in File
      BY <3>1, <3>3 DEF File
    <3>5. f.data[b] = asset(a) /\ Missing.data[b] = Nothing
      BY <3>1 DEF File, Bytes, Missing
    <3>6. f # Missing
      BY <3>2, <3>5
    <3>7. disk' = [disk EXCEPT ![n] = f]
      BY <2>1, <2>4 DEF Written
    <3> HIDE DEF n, f
    <3> QED BY <1>1, <2>2, <3>1, <3>4, <3>6, <3>7
  <2> QED BY <2>3, <2>4
<1>8. CASE Rename(t) \/ RenameAgain(t)
  <2>1. pc[t] \in FileLabels /\ (UNCHANGED files \/ (Exists(tempFile(a)) /\ renameTo(a)))
    BY <1>8 DEF Rename, RenameAgain, FileLabels
  <2> QED BY <1>0, <2>1 DEF Effects, files
<1>9. ASSUME UNCHANGED files PROVE Effects(t, N)
  BY <1>9 DEF Effects, files
<1>10. CASE (OpenTemp(t) \/ Write1(t) \/ Write2(t)) /\ WriteFails(t)
  BY <1>5, <1>10 DEF OpenTemp, Write1, Write2, FileLabels
<1> QED
  BY <1>2, <1>3, <1>4, <1>6, <1>7, <1>8, <1>9, <1>10
  DEF Steps, CopyFolder, CopyFile, CheckCrc, CheckDetected, ReadStored, SetDetected, EditPrefs,
      MakeParent, cacheAssetCrc, FileDone, ListFolder, NextFile, FolderDone

(* A thread writes only an asset that the APK has.                         *)
LEMMA StepsWriteAsset ==
  ASSUME IInv, Located, WritesAsset, NEW t \in Threads, Steps(t) PROVE WritesAsset'
<1> USE DEF IInv, Typed, Writing
<1>1. ASSUME pc'[t] \in Writing PROVE asset(call[t].asset) # Nothing /\ call'[t] = call[t]
  <2>1. CASE OpenTemp(t) \/ Write1(t)
    BY <1>1, <2>1 DEF OpenTemp, Write1, AssetOpens, WriteFails, Goto, WritesAsset
  <2>2. CASE LocalSteps(t) \/ ReadStored(t) \/ SetDetected(t) \/ EditPrefs(t)
    <3>1. pc'[t] = call[t].then \/ pc'[t] \notin Writing
      BY <2>2 DEF LocalSteps, CopyFolder, CopyFile, shouldSkipCopy, CheckDetected, MakeParent,
         FileDone, ListFolder, NextFile, FolderDone, FolderFails, ReadStored, SetDetected, EditPrefs, Goto
    <3> QED BY <1>1, <3>1 DEF Calls
  <2>3. CASE CheckCrc(t) \/ cacheAssetCrc(t)
    BY <1>1, <2>3 DEF CheckCrc, cacheAssetCrc, Goto
  <2>4. CASE FileSteps(t) /\ ~OpenTemp(t) /\ ~Write1(t)
    BY <1>1, <2>4 DEF FileSteps, DeleteTemp, Write2, Rename, DeleteDest, RenameAgain, GiveUp,
     Stamp, CleanUp, WipeFolder, WriteFails, Goto
  <2> QED BY <2>1, <2>2, <2>3, <2>4 DEF Steps, LocalSteps, FileSteps
<1> QED BY <1>1, OthersStay DEF WritesAsset, asset

(* The times that a later version allows include those of an earlier one.  *)
LEMMA TimesGrow ==
  ASSUME NEW v \in Nat, NEW w \in Nat, v <= w PROVE -1..(3 * v + 2) \subseteq -1..(3 * w + 2)
OBVIOUS

(* The files and the streams keep their types.                             *)
LEMMA InitFilesTyped == ASSUME Init PROVE FilesTyped
<1>1. {Missing} \cup {[data |-> Whole(c), time |-> LegacyTime] : c \in Contents} \subseteq File
  BY DEF Init, File, Bytes, Missing, Whole, Blocks, LegacyTime
<1>2. DiskTyped
  BY <1>1 DEF Init, DiskTyped
<1> QED BY <1>2 DEF Init, FilesTyped, StreamsTyped, WritesAsset, Writing

(* Steps that touch no file, an update included, keep these types too.     *)
LEMMA NextFilesTyped == ASSUME IInv, Located, FilesTyped, [Next]_vars PROVE FilesTyped'
<1>1. ASSUME NEW t \in Threads, Steps(t) PROVE FilesTyped'
  <2>1. Mine(t) \X Kinds \subseteq Names /\ (stream[t] # NoStream => stream[t] \in Names)
    BY MineAreAssets DEF Names, FilesTyped, StreamsTyped
  <2>2. Effects(t, Names)
    BY <1>1, <2>1, StepEffects
  <2> QED BY <1>1, <2>2, EffectsTyped, StepsWriteAsset, OthersStay DEF FilesTyped
<1>2. ASSUME NEW a \in Assets, UserWrites(a) PROVE FilesTyped'
  <2>1. PICK now \in {LegacyTime, Later} :
          disk' = [disk EXCEPT ![Dest(a)] = [data |-> Whole(UserContent), time |-> now]]
    BY <1>2 DEF UserWrites
  <2> DEFINE f == [data |-> Whole(UserContent), time |-> now]
  <2>2. f \in File /\ f.time = now /\ now # Missing.time
    BY AssetsAssumption DEF IInv, Typed, File, Bytes, Whole, LegacyTime, Later, Missing
  <2>3. f # Missing /\ Dest(a) \in Names
    BY <2>2, NamesOf
  <2>4. UNCHANGED <<apk, pc, call, stream>> /\ disk' = [disk EXCEPT ![Dest(a)] = f]
    BY <1>2, <2>1 DEF UserWrites
  <2> HIDE DEF f
  <2>5. DiskTyped'
    BY <2>2, <2>3, <2>4 DEF FilesTyped, DiskTyped, File
  <2>6. \A m \in Names : Exists(m) => Exists(m)'
    BY <2>3, <2>4 DEF FilesTyped, DiskTyped, Exists
  <2> QED BY <2>4, <2>5, <2>6 DEF FilesTyped, StreamsTyped, WritesAsset, asset
<1>3. CASE SavePrefs \/ UNCHANGED vars
  BY <1>3 DEF SavePrefs, vars, files, FilesTyped, DiskTyped, File, StreamsTyped, Exists, WritesAsset, asset
<1>4. CASE ProcessEnds \/ Update
  <2>1. apk' \in {apk, apk + 1} /\ apk \in Nat /\ UNCHANGED disk
    BY <1>4 DEF ProcessEnds, Update, NewProcess, IInv, Typed
  <2>2. -1..(3 * apk + 2) \subseteq -1..(3 * apk' + 2)
    <3>1. apk' \in Nat /\ apk <= apk'
      BY <2>1
    <3> QED BY <2>1, <3>1, TimesGrow
  <2>3. \A f \in File : f \in File'
    BY <2>2 DEF File
  <2>4. DiskTyped'
    BY <2>1, <2>3 DEF FilesTyped, DiskTyped
  <2> QED BY <1>4, <2>4 DEF ProcessEnds, Update, NewProcess, FilesTyped, StreamsTyped, WritesAsset, Writing
<1> QED BY <1>1, <1>2, <1>3, <1>4 DEF Next

(* The bounds are kept.                                                    *)
LEMMA NextBoundsTyped == ASSUME BoundsTyped, [Next]_vars PROVE BoundsTyped'
<1> USE AssetsAssumption DEF BoundsTyped
<1>1. ASSUME NEW t \in Threads, Steps(t) PROVE BoundsTyped'
  <2>1. CASE \E m \in Modes[t] : CopyFolder(t, m) \/ \E a \in Copies[t] : CopyFile(t, a, m)
    <3>1. calls < MaxCalls /\ calls' = calls + 1 /\ UNCHANGED <<faults, ends>>
      BY <2>1 DEF CopyFolder, CopyFile
    <3> QED BY <3>1
  <2>2. CASE FileSteps(t)
    <3>1. UNCHANGED bounds /\ (Fault \/ UNCHANGED faults)
      BY <2>2 DEF FileSteps, DeleteTemp, OpenTemp, Write1, Write2, Rename, DeleteDest, RenameAgain,
         GiveUp, Stamp, CleanUp, WipeFolder
    <3> QED BY <3>1 DEF bounds, Fault
  <2>3. CASE \/ shouldSkipCopy(t) \/ CheckCrc(t) \/ CheckDetected(t) \/ ReadStored(t) \/ SetDetected(t)
             \/ EditPrefs(t) \/ MakeParent(t) \/ cacheAssetCrc(t) \/ FileDone(t) \/ ListFolder(t)
             \/ NextFile(t) \/ FolderDone(t)
    <3>1. UNCHANGED bounds /\ (Fault \/ UNCHANGED faults)
      BY <2>3 DEF shouldSkipCopy, CheckCrc, CheckDetected, ReadStored, SetDetected, EditPrefs,
         MakeParent, cacheAssetCrc, FileDone, ListFolder, NextFile, FolderDone, FolderFails
    <3> QED BY <3>1 DEF bounds, Fault
  <2> QED BY <1>1, <2>1, <2>2, <2>3 DEF Steps, FileSteps
<1>2. CASE (\E a \in Assets : UserWrites(a)) \/ SavePrefs \/ ProcessEnds \/ Update \/ UNCHANGED vars
  BY <1>2 DEF UserWrites, SavePrefs, ProcessEnds, Update, NewProcess, bounds, vars
<1> QED BY <1>1, <1>2 DEF Next

TInv == IInv /\ Located /\ FilesTyped /\ BoundsTyped

(* The types, as far as the proofs below need them, hold throughout.       *)
THEOREM TypesHold == Spec => []TInv
<1>1. Init => BoundsTyped
  BY AssetsAssumption DEF Init, BoundsTyped
<1>2. Init => TInv
  BY <1>1, InitIInv, InitLocated, InitFilesTyped DEF TInv
<1>3. TInv /\ [Next]_vars => TInv'
  BY NextIInv, NextLocated, NextFilesTyped, NextBoundsTyped DEF TInv
<1> QED BY <1>2, <1>3, PTL DEF Spec

(* Every variable keeps its type, an open stream writes to a file that     *)
(* exists, and nobody writes an asset that the APK does not have, also     *)
(* when threads copy to one destination.  Code: copyAssetStream.           *)
THEOREM TypeCorrect == Spec => []TypeOK
<1> SUFFICES ASSUME TInv PROVE TypeOK
  BY TypesHold, PTL
<1> USE DEF TInv, IInv, Typed
<1>1. disk \in [Names -> [data : [Blocks -> Contents \cup {Nothing}], time : -1..(3 * apk + 2)]]
  BY DEF FilesTyped, DiskTyped, File, Bytes
<1>2. ASSUME NEW p \in [version : Nat, crc : Crcs], Current(p) PROVE p \in Prefs
  <2>1. p.version \in 0..MaxVersion /\ p.crc \in [Assets -> Contents \cup {Nothing}]
    BY <1>2, AssetsAssumption DEF Current, Crcs
  <2>2. p = [version |-> p.version, crc |-> p.crc]
    OBVIOUS
  <2> QED BY <2>1, <2>2 DEF Prefs
<1>3. pc \in [Threads -> Labels]
  BY DEF Located, Place
<1>4. ASSUME NEW t \in Threads
      PROVE  /\ call[t].asset \in Assets \cup {Nothing} /\ call[t].mode \in CopyModes \cup {""}
             /\ call[t].todo \subseteq Assets
             /\ stream[t] = NoStream \/ (stream[t] \in Names /\ Exists(stream[t]))
             /\ pc[t] \in {"write1", "write2"} => asset(call[t].asset) # Nothing
  BY DEF Calls, FilesTyped, StreamsTyped, WritesAsset, Writing
<1>5. calls \in 0..MaxCalls /\ faults \in 0..MaxFaults /\ ends \in 0..MaxEnds
  BY DEF BoundsTyped
<1> QED BY <1>1, <1>2, <1>3, <1>4, <1>5 DEF TypeOK

-----------------------------------------------------------------------------
(* What files hold, when no two threads copy to one destination.           *)

Apart == \A t, u \in Threads : t # u => Mine(t) \cap Mine(u) = {}

(* What a success promises.                                                *)
Succeeds(t) ==
  LET a == call[t].asset  m == call[t].mode IN
  /\ Exists(Dest(a))
  /\ m \in {"OVERRIDE_FORCED", "OVERRIDE_IF_CONTENT_CHANGED"} => ContentMatch(a)
  /\ m = "OVERRIDE_IF_MODIFIED" => ContentMatch(a) \/ disk[Dest(a)].data = Whole(UserContent)
  /\ m = "OVERRIDE_IF_DEST_SIZE_NOT_MATCHED" => SameSize(a)

(* What a thread has made of its files, step by step.                      *)
Copied(a)  == asset(a) \in Contents /\ Exists(Dest(a)) /\ ContentMatch(a)
Loaded(a)  == asset(a) \in Contents /\ (Exists(tempFile(a)) => disk[tempFile(a)].data = Whole(asset(a)))
OwnFiles(t) ==
  LET a == call[t].asset IN
  /\ stream[t] = IF pc[t] \in Writing THEN tempFile(a) ELSE NoStream
  /\ pc[t] = "write2" => disk[tempFile(a)].data[1] = asset(a)
  /\ pc[t] \in {"rename", "delete", "again"} => Loaded(a)
  /\ pc[t] \in {"stamp", "cache"} => Copied(a)
  /\ pc[t] = "succeed" => Succeeds(t)

(* A file under its own name is whole; one whose time says that it was     *)
(* written under this APK is of this APK or the user's.                    *)
Good(a) ==
  /\ Exists(Dest(a)) => \E c \in Contents : disk[Dest(a)].data = Whole(c)
  /\ Exists(Dest(a)) /\ disk[Dest(a)].time >= ApkLastUpdateTime /\ ~Legacy(a)
       => disk[Dest(a)].data \in {Whole(asset(a)), Whole(UserContent)}

(* Who compares with a CRC compares with one of this APK.                  *)
Compares == \A t \in Threads : pc[t] = "crc" /\ ~call[t].updated => prefs.version = apk

FInv == (\A t \in Threads : OwnFiles(t)) /\ (\A a \in Assets : Good(a)) /\ Compares

Own(t) == Mine(t) \X Kinds

(* A thread touches its own files only, and nobody else's streams.         *)
LEMMA OthersFiles ==
  ASSUME TInv, FInv, Apart, NEW t \in Threads, Steps(t), NEW u \in Threads, u # t
  PROVE  stream'[u] = stream[u] /\ \A a \in Mine(u), k \in Kinds : disk'[<<a, k>>] = disk[<<a, k>>]
<1> USE DEF TInv
<1>1. ASSUME NEW v \in Threads
      PROVE  stream[v] = NoStream \/ \E a \in Mine(v) : stream[v] = tempFile(a)
  BY DEF FInv, OwnFiles, Writing, Located, Place, FileLabels
<1>2. Own(t) \subseteq Names /\ (stream[t] # NoStream => stream[t] \in Own(t))
  BY <1>1, MineAreAssets DEF Own, Names, Kinds, tempFile
<1>3. Effects(t, Own(t))
  BY <1>2, StepEffects DEF Own
<1>4. Own(u) \cap Own(t) = {} /\ Own(u) \subseteq Names
  BY MineAreAssets DEF Own, Apart, Names
<1>5. \A a \in Mine(u), k \in Kinds : <<a, k>> \in Own(u)
  BY DEF Own
<1>6. stream[u] = NoStream \/ stream[u] \notin Own(t)
  BY <1>1, <1>4 DEF Own, tempFile, Kinds
<1>7. \A a \in Mine(t) : stream[u] # tempFile(a) /\ stream[u] # Dest(a)
  <2>1. \A a \in Mine(t) : tempFile(a) \in Own(t) /\ Dest(a) \in Own(t)
    BY DEF Own, tempFile, Dest, Kinds
  <2>2. \A a : NoStream # tempFile(a) /\ NoStream # Dest(a)
    BY DEF NoStream, tempFile, Dest
  <2> QED BY <1>6, <2>1, <2>2
<1> USE DEF FilesTyped, DiskTyped, StreamsTyped
<1>8. CASE UNCHANGED disk /\ stream' \in {stream, [stream EXCEPT ![t] = NoStream]}
  BY <1>8
<1>9. ASSUME NEW S \in SUBSET Own(t), Delete(S)
      PROVE  stream'[u] = stream[u] /\ \A n \in Own(u) : disk'[n] = disk[n]
  BY <1>4, <1>6, <1>9 DEF Delete, Without
<1>10. ASSUME NEW a \in Mine(t), tempFile(a) \in Own(t), Dest(a) \in Own(t), renameTo(a)
       PROVE  stream'[u] = stream[u] /\ \A n \in Own(u) : disk'[n] = disk[n]
  <2>1. stream'[u] = stream[u]
    BY <1>7, <1>10 DEF renameTo
  <2>2. \A n \in Own(u) : n # tempFile(a) /\ n # Dest(a)
    BY <1>4, <1>10
  <2> QED BY <1>4, <1>10, <2>1, <2>2 DEF renameTo, Without
<1>11. ASSUME NEW n \in Own(t), NEW f \in File, Writes(t, n, f)
       PROVE  stream'[u] = stream[u] /\ \A m \in Own(u) : disk'[m] = disk[m]
  BY <1>4, <1>11 DEF Writes
<1> QED BY <1>3, <1>5, <1>8, <1>9, <1>10, <1>11 DEF Effects

(* So a thread keeps what it has made while another one runs.              *)
LEMMA OthersOwnFiles ==
  ASSUME TInv, FInv, Apart, NEW t \in Threads, Steps(t), NEW u \in Threads, u # t
  PROVE  OwnFiles(u)'
<1>1. pc'[u] = pc[u] /\ call'[u] = call[u] /\ UNCHANGED apk
  BY OthersStay DEF TInv
<1>2. stream'[u] = stream[u]
  BY OthersFiles
<1>3. ASSUME pc[u] \in FileLabels
      PROVE  disk'[Dest(call[u].asset)] = disk[Dest(call[u].asset)]
             /\ disk'[tempFile(call[u].asset)] = disk[tempFile(call[u].asset)]
  <2>1. call[u].asset \in Mine(u)
    BY <1>3 DEF TInv, Located, Place
  <2> QED BY <2>1, OthersFiles DEF Dest, tempFile, Kinds
<1>4. OwnFiles(u)
  BY DEF FInv
<1>5. pc[u] \in {"write2", "rename", "delete", "again", "stamp", "cache", "succeed"} => pc[u] \in FileLabels
  BY DEF FileLabels
<1> QED
  BY <1>1, <1>2, <1>3, <1>4, <1>5
  DEF OwnFiles, Loaded, Copied, Succeeds, Exists, ContentMatch, SameSize, getAssetSize, getFileSize, asset

-----------------------------------------------------------------------------
(* A file that stays or goes is as good as before.                         *)
LEMMA GoodStays ==
  ASSUME UNCHANGED apk, NEW a \in Assets, Good(a), disk'[Dest(a)] \in {disk[Dest(a)], Missing}
  PROVE  Good(a)'
BY DEF Good, Exists, Legacy, LegacyTime, ApkLastUpdateTime, asset

(* So is one that holds the asset.                                         *)
LEMMA GoodCopy ==
  ASSUME UNCHANGED apk, NEW a \in Assets, asset(a) \in Contents, disk'[Dest(a)].data = Whole(asset(a))
  PROVE  Good(a)'
BY DEF Good, asset, Whole, Blocks

(* The steps after which every file is as it was, or gone.                 *)
LEMMA StayOrGo ==
  ASSUME TInv, FInv, Apart, NEW t \in Threads, Steps(t),
         ~shouldSkipCopy(t), ~Stamp(t), ~Rename(t), ~RenameAgain(t)
  PROVE  \A a \in Assets : disk'[Dest(a)] \in {disk[Dest(a)], Missing}
<1> DEFINE b == call[t].asset
<1>1. ASSUME NEW S, Delete(S) PROVE \A a \in Assets : disk'[Dest(a)] \in {disk[Dest(a)], Missing}
  BY <1>1, NamesOf DEF Delete, Without
<1>2. CASE UNCHANGED disk
  BY <1>2
<1>3. CASE WriteFails(t)
  BY <1>1, <1>2, <1>3 DEF WriteFails
<1>4. ASSUME NEW f, disk' = [disk EXCEPT ![tempFile(b)] = f]
      PROVE  \A a \in Assets : disk'[Dest(a)] \in {disk[Dest(a)], Missing}
  BY <1>4, NamesOf DEF TInv, FilesTyped, DiskTyped, tempFile, Dest
<1>5. CASE OpenTemp(t)
  BY <1>3, <1>4, <1>5 DEF OpenTemp
<1>6. CASE Write1(t) \/ Write2(t)
  <2>1. stream[t] = tempFile(b)
    BY <1>6 DEF Write1, Write2, FInv, OwnFiles, Writing
  <2>2. WriteFails(t) \/ disk' = Written(t, 1) \/ disk' = Written(t, 2)
    BY <1>6 DEF Write1, Write2
  <2>3. ASSUME NEW i, disk' = Written(t, i)
        PROVE  UNCHANGED disk \/ \E f : disk' = [disk EXCEPT ![tempFile(b)] = f]
    BY <2>1, <2>3 DEF Written
  <2> QED BY <1>2, <1>3, <1>4, <2>2, <2>3
<1>7. CASE DeleteTemp(t) \/ DeleteDest(t) \/ GiveUp(t) \/ CleanUp(t) \/ WipeFolder(t)
  <2>1. UNCHANGED disk \/ \E S : Delete(S)
    BY <1>7 DEF DeleteTemp, DeleteDest, GiveUp, CleanUp, WipeFolder, files
  <2> QED BY <1>1, <1>2, <2>1
<1> QED
  BY <1>2, <1>5, <1>6, <1>7
  DEF Steps, CopyFolder, CopyFile, CheckCrc, CheckDetected, ReadStored, SetDetected, EditPrefs,
      MakeParent, cacheAssetCrc, FileDone, ListFolder, NextFile, FolderDone, files

(* What renaming makes of the files.                                       *)
LEMMA Renamed ==
  ASSUME TInv, FInv, NEW t \in Threads, pc[t] \in {"rename", "again"},
         Exists(tempFile(call[t].asset)), renameTo(call[t].asset), UNCHANGED <<apk, call>>
  PROVE  /\ call[t].asset \in Assets
         /\ Copied(call[t].asset)'
         /\ stream'[t] = NoStream
         /\ \A a \in Assets \ {call[t].asset} : disk'[Dest(a)] \in {disk[Dest(a)], Missing}
<1> DEFINE b == call[t].asset
<1>1. b \in Assets /\ tempFile(b) \in Names /\ Dest(b) \in Names /\ tempFile(b) # Dest(b)
  BY MineAreAssets, NamesOf DEF TInv, Located, Place, FileLabels
<1>2. Loaded(b) /\ stream[t] = NoStream
  BY DEF FInv, OwnFiles, Writing
<1>3. disk' = [n \in Names |-> IF n = Dest(b) THEN disk[tempFile(b)]
                               ELSE IF n = tempFile(b) THEN Missing ELSE disk[n]]
  BY <1>1 DEF renameTo, Without
<1>4. disk'[Dest(b)] = disk[tempFile(b)]
  BY <1>1, <1>3
<1>5. asset(b)' = asset(b)
  BY DEF asset
<1>6. /\ asset(b) \in Contents /\ disk'[Dest(b)] # Missing /\ disk'[Dest(b)].data = Whole(asset(b))
  BY <1>2, <1>4 DEF Loaded, Exists
<1>7. (asset(b) \in Contents /\ Exists(Dest(b)) /\ ContentMatch(b))'
  BY <1>5, <1>6 DEF Exists, ContentMatch, Whole, Blocks, asset
<1>8. \A a \in Assets \ {b} : disk'[Dest(a)] \in {disk[Dest(a)], Missing}
  BY <1>3, NamesOf DEF Dest
<1>9. stream'[t] = NoStream
  <2>1. NoStream # tempFile(b) /\ NoStream # Dest(b)
    BY DEF NoStream, tempFile, Dest
  <2> QED BY <1>2, <2>1 DEF renameTo
<1> QED BY <1>1, <1>7, <1>8, <1>9 DEF Copied

(* What stamping makes of them.                                            *)
LEMMA StampsContent ==
  ASSUME TInv, NEW t \in Threads, pc[t] \in FileLabels, Exists(Dest(call[t].asset)),
         disk' = Stamped(call[t].asset), UNCHANGED <<apk, call>>
  PROVE  /\ disk'[Dest(call[t].asset)].data = disk[Dest(call[t].asset)].data
         /\ Exists(Dest(call[t].asset))'
         /\ \A a \in Assets \ {call[t].asset} : disk'[Dest(a)] = disk[Dest(a)]
<1> DEFINE b == call[t].asset
<1>1. b \in Assets /\ Dest(b) \in Names
  BY MineAreAssets, NamesOf DEF TInv, Located, Place
<1>2. disk[Dest(b)] \in File /\ apk \in Nat
  BY <1>1 DEF TInv, IInv, Typed, FilesTyped, DiskTyped
<1>3. disk'[Dest(b)] = [disk[Dest(b)] EXCEPT !.time = ApkLastUpdateTime]
  BY <1>1 DEF Stamped, TInv, FilesTyped, DiskTyped
<1>4. disk'[Dest(b)].data = disk[Dest(b)].data /\ disk'[Dest(b)].time = ApkLastUpdateTime
  BY <1>2, <1>3 DEF File
<1>5. ApkLastUpdateTime # Missing.time
  BY <1>2 DEF ApkLastUpdateTime, Missing
<1>6. \A a \in Assets \ {b} : Dest(a) \in Names /\ Dest(a) # Dest(b)
  BY NamesOf DEF Dest
<1>7. \A a \in Assets \ {b} : disk'[Dest(a)] = disk[Dest(a)]
  BY <1>6 DEF Stamped, TInv, FilesTyped, DiskTyped
<1> QED BY <1>4, <1>5, <1>7 DEF Exists

(* Who keeps a file and stamps it has compared it.                         *)
LEMMA StampsWhatMatches ==
  ASSUME TInv, NEW a \in Assets, KeptIfModified(a), Legacy(a) PROVE ContentMatch(a) /\ asset(a) # Nothing
<1>1. apk \in Nat
  BY DEF TInv, IInv, Typed
<1>2. disk[Dest(a)].time # ApkLastUpdateTime
  BY <1>1 DEF Legacy, LegacyTime, ApkLastUpdateTime
<1>3. ContentMatch(a) /\ SameSize(a)
  BY <1>2 DEF KeptIfModified
<1>4. ASSUME asset(a) = Nothing PROVE FALSE
  <2>1. getAssetSize(a) = -1
    BY <1>4 DEF getAssetSize
  <2>2. getFileSize(Dest(a)) = 0
    BY <1>3, <1>4 DEF ContentMatch, Whole, Blocks, getFileSize
  <2>3. -1 # 0
    OBVIOUS
  <2> QED BY <1>3, <2>1, <2>2, <2>3 DEF SameSize
<1> QED BY <1>3, <1>4

(* Every step of a thread keeps every file good.                           *)
LEMMA StepsGood ==
  ASSUME TInv, FInv, Apart, NEW t \in Threads, Steps(t) PROVE \A a \in Assets : Good(a)'
<1> DEFINE b == call[t].asset
<1>0. UNCHANGED apk
  BY OthersStay DEF TInv
<1>1. ASSUME \A a \in Assets : disk'[Dest(a)] \in {disk[Dest(a)], Missing} PROVE \A a \in Assets : Good(a)'
  BY <1>0, <1>1, GoodStays DEF FInv
<1>2. CASE Rename(t) \/ RenameAgain(t)
  <2>1. CASE UNCHANGED files
    BY <1>1, <2>1 DEF files
  <2>2. CASE Exists(tempFile(b)) /\ renameTo(b)
    <3>1. pc[t] \in {"rename", "again"} /\ UNCHANGED call
      BY <1>2 DEF Rename, RenameAgain
    <3>2. /\ b \in Assets /\ Copied(b)'
          /\ \A a \in Assets \ {b} : disk'[Dest(a)] \in {disk[Dest(a)], Missing}
      BY <1>0, <2>2, <3>1, Renamed
    <3>3. Good(b)'
      BY <1>0, <3>1, <3>2, GoodCopy DEF Copied, ContentMatch, asset, Whole, Blocks
    <3> QED BY <1>0, <3>1, <3>2, <3>3, GoodStays DEF FInv, Good, Exists, Legacy, asset
  <2> QED BY <1>2, <2>1, <2>2 DEF Rename, RenameAgain
<1>3. CASE shouldSkipCopy(t) \/ Stamp(t)
  <2>1. CASE UNCHANGED disk
    BY <1>1, <2>1
  <2>2. CASE disk' # disk
    <3>1. /\ pc[t] \in FileLabels /\ UNCHANGED call /\ Exists(Dest(b)) /\ disk' = Stamped(b)
          /\ pc[t] = "stamp" \/ (KeptIfModified(b) /\ Legacy(b))
      BY <1>3, <2>2 DEF shouldSkipCopy, Stamp, FileLabels, Kept
    <3>2. b \in Assets
      BY <3>1, MineAreAssets DEF TInv, Located, Place
    <3>3. ContentMatch(b) /\ asset(b) \in Contents
      BY <3>1, <3>2, StampsWhatMatches, AssetTyped DEF FInv, OwnFiles, Copied, TInv, IInv
    <3>4. disk'[Dest(b)].data = Whole(asset(b)) /\ \A a \in Assets \ {b} : disk'[Dest(a)] = disk[Dest(a)]
      BY <1>0, <3>1, <3>3, StampsContent DEF ContentMatch
    <3>5. Good(b)'
      BY <1>0, <3>1, <3>2, <3>3, <3>4, GoodCopy
    <3> QED BY <1>0, <3>1, <3>4, <3>5, GoodStays DEF FInv
  <2> QED BY <2>1, <2>2
<1>4. CASE ~shouldSkipCopy(t) /\ ~Stamp(t) /\ ~Rename(t) /\ ~RenameAgain(t)
  BY <1>1, <1>4, StayOrGo
<1> QED BY <1>2, <1>3, <1>4

-----------------------------------------------------------------------------
(* Success, and the steps that lead to it.                                 *)

(* A copy of the asset is a success in every mode.                         *)
LEMMA CopySucceeds ==
  ASSUME TInv, NEW t \in Threads, Copied(call[t].asset) PROVE Succeeds(t)
<1> DEFINE a == call[t].asset
<1>1. asset(a) # Nothing /\ disk[Dest(a)].data[2] = asset(a)
  BY AssetsAssumption DEF Copied, ContentMatch, Whole, Blocks
<1> QED BY <1>1 DEF Copied, Succeeds, SameSize, getAssetSize, getFileSize

(* What is kept is a success in the modes that keep.                       *)
LEMMA KeptSucceeds ==
  ASSUME TInv, FInv, NEW t \in Threads, call[t].asset \in Assets, Exists(Dest(call[t].asset)),
         call[t].mode # "OVERRIDE_IF_CONTENT_CHANGED", Kept(call[t].asset, call[t].mode)
  PROVE  Succeeds(t)
<1> DEFINE a == call[t].asset  m == call[t].mode
<1>1. m # "OVERRIDE_FORCED"
  BY DEF Kept
<1>2. ASSUME m = "OVERRIDE_IF_MODIFIED" PROVE ContentMatch(a) \/ disk[Dest(a)].data = Whole(UserContent)
  <2>1. KeptIfModified(a)
    BY <1>2 DEF Kept
  <2>2. Good(a) /\ apk \in Nat
    BY DEF FInv, TInv, IInv, Typed
  <2>3. disk[Dest(a)].time \in Int
    BY NamesOf DEF TInv, FilesTyped, DiskTyped, File
  <2>4. CASE disk[Dest(a)].time >= ApkLastUpdateTime /\ ~Legacy(a)
    BY <2>2, <2>4 DEF Good, ContentMatch
  <2>5. CASE ContentMatch(a)
    BY <2>5
  <2> QED BY <2>1, <2>2, <2>3, <2>4, <2>5 DEF KeptIfModified, Legacy, LegacyTime, ApkLastUpdateTime
<1>3. m = "OVERRIDE_IF_DEST_SIZE_NOT_MATCHED" => SameSize(a)
  BY DEF Kept
<1> QED BY <1>1, <1>2, <1>3 DEF Succeeds

(* A step that ends in success.                                            *)
LEMMA StepSucceeds ==
  ASSUME TInv, FInv, Apart, NEW t \in Threads, Steps(t), pc'[t] = "succeed"
  PROVE  Succeeds(t)' /\ stream'[t] = NoStream
<1> DEFINE b == call[t].asset
<1> USE DEF Goto
<1>0. UNCHANGED apk /\ call[t] \in Calls /\ pc = [u \in Threads |-> pc[u]]
  BY OthersStay DEF TInv, IInv, Typed
<1>1. ASSUME pc[t] \in FileLabels \ Writing, UNCHANGED <<call, stream>>, Succeeds(t),
             disk'[Dest(b)] = disk[Dest(b)]
      PROVE  Succeeds(t)' /\ stream'[t] = NoStream
  BY <1>0, <1>1 DEF Succeeds, Exists, ContentMatch, SameSize, getAssetSize, getFileSize, asset,
     Whole, Blocks, FInv, OwnFiles
<1>2. CASE shouldSkipCopy(t)
  <2>1. /\ pc[t] \in FileLabels \ Writing /\ UNCHANGED <<call, stream>> /\ Exists(Dest(b))
        /\ call[t].mode # "OVERRIDE_IF_CONTENT_CHANGED" /\ Kept(b, call[t].mode)
        /\ UNCHANGED disk \/ (disk' = Stamped(b) /\ call[t].mode = "OVERRIDE_IF_MODIFIED" /\ Legacy(b))
    BY <1>0, <1>2 DEF shouldSkipCopy, FileLabels, Writing
  <2>2. b \in Assets
    BY <2>1, MineAreAssets DEF TInv, Located, Place
  <2>3. Succeeds(t)
    BY <2>1, <2>2, KeptSucceeds
  <2>4. CASE UNCHANGED disk
    BY <1>1, <2>1, <2>3, <2>4
  <2>5. CASE disk' = Stamped(b) /\ call[t].mode = "OVERRIDE_IF_MODIFIED" /\ Legacy(b)
    <3>1. ContentMatch(b)
      BY <2>1, <2>2, <2>5, StampsWhatMatches DEF Kept
    <3>2. disk'[Dest(b)].data = Whole(asset(b)) /\ Exists(Dest(b))'
      BY <1>0, <2>1, <2>5, <3>1, StampsContent DEF ContentMatch
    <3>3. stream'[t] = NoStream
      BY <2>1 DEF FInv, OwnFiles
    <3> QED BY <1>0, <2>1, <2>5, <3>2, <3>3 DEF Succeeds, ContentMatch, Whole, Blocks, asset
  <2> QED BY <2>1, <2>4, <2>5
<1>3. CASE CheckCrc(t)
  <2> DEFINE crc   == IF prefs.crc[b] # Nothing THEN prefs.crc[b] ELSE asset(b)
             label == CASE ~Exists(Dest(b))                   -> "fail"
                        [] disk[Dest(b)].data = Whole(crc) -> "succeed"
                        [] OTHER                           -> "mkdirs"
  <2>b. Exists(Dest(b)) /\ disk[Dest(b)].data # Whole(crc) => label = "mkdirs"
    OBVIOUS
  <2>c. /\ pc[t] = "crc" /\ UNCHANGED <<call, files>> /\ ~call[t].updated
        /\ prefs.crc[b] # Nothing \/ asset(b) # Nothing
        /\ Goto(t, label)
    BY <1>0, <1>3 DEF CheckCrc
  <2>d. crc \in {prefs.crc[b], asset(b)} /\ crc # Nothing
    BY <2>c
  <2>a. ~Exists(Dest(b)) => label = "fail"
    <3>1. ASSUME ~Exists(Dest(b)) PROVE disk[Dest(b)].data # Whole(crc)
      <4>1. disk[Dest(b)].data[1] = Nothing /\ Whole(crc)[1] = crc
        BY <3>1 DEF Exists, Missing, Whole, Blocks
      <4> HIDE DEF crc
      <4> QED BY <2>d, <4>1
    <3> HIDE DEF crc
    <3> QED BY <3>1
  <2> HIDE DEF label, crc
  <2>e. label = "succeed"
    BY <1>0, <2>c
  <2>1. /\ pc[t] = "crc" /\ UNCHANGED <<call, files>> /\ ~call[t].updated /\ Exists(Dest(b))
        /\ disk[Dest(b)].data = Whole(crc) /\ crc \in {prefs.crc[b], asset(b)} /\ crc # Nothing
    BY <2>a, <2>b, <2>c, <2>d, <2>e
  <2>2. b \in Assets
    BY <2>1, MineAreAssets DEF TInv, Located, Place, FileLabels
  <2>3. prefs.crc[b] \in {Nothing, asset(b)}
    BY <2>1, <2>2 DEF FInv, Compares, TInv, IInv, Current
  <2>4. ContentMatch(b) /\ asset(b) # Nothing
    BY <2>1, <2>3 DEF ContentMatch
  <2>5. ASSUME call[t].mode = "OVERRIDE_IF_DEST_SIZE_NOT_MATCHED" PROVE SameSize(b)
    <3>1. disk[Dest(b)].data[2] = asset(b)
      BY <2>4 DEF ContentMatch, Whole, Blocks
    <3> QED BY <2>1, <2>3, <2>4, <3>1 DEF SameSize, getAssetSize, getFileSize
  <2>6. Succeeds(t)
    BY <2>1, <2>4, <2>5 DEF Succeeds
  <2> QED BY <1>1, <2>1, <2>6 DEF files, FileLabels, Writing
<1>4. CASE Stamp(t) \/ cacheAssetCrc(t)
  <2>1. /\ pc[t] \in {"stamp", "cache"} /\ UNCHANGED <<call, stream>>
        /\ (UNCHANGED disk \/ (Exists(Dest(b)) /\ disk' = Stamped(b)))
    BY <1>4 DEF Stamp, cacheAssetCrc, files
  <2>2. Copied(b) /\ stream[t] = NoStream
    BY <2>1 DEF FInv, OwnFiles, Writing
  <2>3. disk'[Dest(b)].data = disk[Dest(b)].data /\ Exists(Dest(b))'
    BY <1>0, <2>1, <2>2, StampsContent DEF FileLabels, Copied, Exists
  <2>4. Copied(b)'
    BY <1>0, <2>1, <2>2, <2>3 DEF Copied, ContentMatch, Whole, Blocks, asset
  <2>5. ASSUME Copied(b)' PROVE Succeeds(t)'
    <3>1. (asset(b) # Nothing /\ disk[Dest(b)].data[2] = asset(b))'
      BY <2>5, AssetsAssumption DEF Copied, ContentMatch, Whole, Blocks
    <3> QED BY <2>5, <3>1 DEF Copied, Succeeds, SameSize, getAssetSize, getFileSize
  <2> QED BY <2>1, <2>2, <2>4, <2>5
<1>5. CASE ~shouldSkipCopy(t) /\ ~CheckCrc(t) /\ ~Stamp(t) /\ ~cacheAssetCrc(t)
  <2>1. pc'[t] = call[t].then \/ pc'[t] # "succeed"
    BY <1>0, <1>5 DEF Steps, CopyFolder, CopyFile, CheckDetected, ReadStored, SetDetected, EditPrefs,
       MakeParent, DeleteTemp, OpenTemp, Write1, Write2, WriteFails, Rename, DeleteDest, RenameAgain,
       GiveUp, CleanUp, FileDone, WipeFolder, ListFolder, FolderFails, NextFile, FolderDone
  <2> QED BY <1>0, <2>1 DEF Calls
<1> QED BY <1>2, <1>3, <1>4, <1>5

-----------------------------------------------------------------------------
(* What a thread has made of its files, after each of its steps.           *)

Special == {"write1", "write2", "rename", "delete", "again", "stamp", "cache", "succeed"}

(* Elsewhere a thread needs to have made nothing.                          *)
LEMMA PlainOwnFiles ==
  ASSUME NEW t \in Threads, pc[t] \notin Special, stream[t] = NoStream PROVE OwnFiles(t)
BY DEF OwnFiles, Special, Writing

(* The way out of the writing leaves no stream.                            *)
LEMMA FailedOwnFiles ==
  ASSUME TInv, FInv, NEW t \in Threads, pc[t] \in FileLabels, WriteFails(t) PROVE OwnFiles(t)'
<1>1. stream[t] \in {NoStream, tempFile(call[t].asset)} /\ stream = [u \in Threads |-> stream[u]]
  BY DEF FInv, OwnFiles, TInv, FilesTyped, StreamsTyped
<1>2. stream'[t] = NoStream
  BY <1>1 DEF WriteFails, Delete
<1>3. pc'[t] = "fail"
  BY DEF WriteFails, Goto, TInv, IInv, Typed
<1> QED BY <1>2, <1>3, PlainOwnFiles DEF OwnFiles, Special, Writing

(* Opening and writing the temporary file.                                 *)
LEMMA WriteOwnFiles ==
  ASSUME TInv, FInv, NEW t \in Threads, OpenTemp(t) \/ Write1(t) \/ Write2(t) PROVE OwnFiles(t)'
<1> DEFINE b == call[t].asset  n == tempFile(b)
<1>0. UNCHANGED <<apk, call>> /\ pc[t] \in FileLabels
  BY DEF OpenTemp, Write1, Write2, FileLabels
<1>1. b \in Assets /\ n \in Names
  BY <1>0, MineAreAssets, NamesOf DEF TInv, Located, Place
<1>2. /\ OwnFiles(t) /\ pc = [u \in Threads |-> pc[u]] /\ disk \in [Names -> File]
      /\ stream = [u \in Threads |-> stream[u]]
  BY DEF FInv, TInv, IInv, Typed, FilesTyped, StreamsTyped, DiskTyped
<1>3. n # NoStream
  BY DEF tempFile, NoStream
<1>4. CASE OpenTemp(t) /\ ~WriteFails(t)
  <2>1. stream'[t] = n /\ pc'[t] = "write1"
    BY <1>2, <1>4 DEF OpenTemp, Goto
  <2> QED BY <1>0, <2>1 DEF OwnFiles, Writing
<1>5. ASSUME NEW i \in Blocks, disk' = Written(t, i), pc[t] \in Writing
      PROVE  disk'[n].data = [disk[n].data EXCEPT ![i] = asset(b)] /\ disk[n].data \in Bytes
  <2>1. disk' = [disk EXCEPT ![n] = [disk[n] EXCEPT !.data = [disk[n].data EXCEPT ![i] = asset(b)]]]
    BY <1>2, <1>3, <1>5 DEF OwnFiles, Written
  <2>2. disk'[n] = [disk[n] EXCEPT !.data = [disk[n].data EXCEPT ![i] = asset(b)]] /\ disk[n] \in File
    BY <1>1, <1>2, <2>1
  <2> HIDE DEF n, b
  <2> QED BY <2>2 DEF File
<1>6. CASE Write1(t) /\ ~WriteFails(t)
  <2>1. pc[t] = "write1" /\ disk' = Written(t, 1) /\ stream' = stream /\ pc'[t] = "write2"
    BY <1>2, <1>6 DEF Write1, Goto
  <2>2. disk'[n].data = [disk[n].data EXCEPT ![1] = asset(b)] /\ disk[n].data \in Bytes
    BY <1>5, <2>1 DEF Writing, Blocks
  <2>3. disk'[n].data[1] = asset(b)
    BY <2>2 DEF Bytes, Blocks
  <2>4. stream'[t] = n
    BY <1>2, <2>1 DEF OwnFiles, Writing
  <2> QED BY <1>0, <2>1, <2>3, <2>4 DEF OwnFiles, Writing, asset
<1>7. CASE Write2(t) /\ ~WriteFails(t)
  <2>1. pc[t] = "write2" /\ disk' = Written(t, 2) /\ stream'[t] = NoStream /\ pc'[t] = "rename"
    BY <1>2, <1>7 DEF Write2, Goto
  <2>2. disk'[n].data = [disk[n].data EXCEPT ![2] = asset(b)] /\ disk[n].data \in Bytes
    BY <1>5, <2>1 DEF Writing, Blocks
  <2>3. disk[n].data[1] = asset(b)
    BY <1>2, <2>1 DEF OwnFiles
  <2>4. disk'[n].data = Whole(asset(b))
    BY <2>2, <2>3 DEF Bytes, Blocks, Whole
  <2>5. asset(b) \in Contents
    BY <1>1, <2>1, AssetTyped DEF TInv, IInv, FilesTyped, WritesAsset, Writing
  <2>6. Loaded(b)'
    BY <1>0, <2>4, <2>5 DEF Loaded, asset, Whole, Blocks
  <2> QED BY <2>1, <2>6 DEF OwnFiles, Writing
<1>8. CASE WriteFails(t)
  BY <1>0, <1>8, FailedOwnFiles
<1> QED BY <1>4, <1>6, <1>7, <1>8

(* Moving it into place.                                                   *)
LEMMA MoveOwnFiles ==
  ASSUME TInv, FInv, NEW t \in Threads, Rename(t) \/ DeleteDest(t) \/ RenameAgain(t) PROVE OwnFiles(t)'
<1> DEFINE b == call[t].asset
<1>0. UNCHANGED <<apk, call>> /\ pc[t] \in {"rename", "delete", "again"} /\ pc[t] \in FileLabels
  BY DEF Rename, DeleteDest, RenameAgain, FileLabels
<1>1. b \in Assets /\ tempFile(b) \in Names /\ Dest(b) \in Names /\ tempFile(b) # Dest(b)
  BY <1>0, MineAreAssets, NamesOf DEF TInv, Located, Place
<1>2. Loaded(b) /\ stream[t] = NoStream /\ pc = [u \in Threads |-> pc[u]]
  BY <1>0 DEF FInv, OwnFiles, Writing, TInv, IInv, Typed
<1>3. CASE Exists(tempFile(b)) /\ renameTo(b) /\ Goto(t, "stamp")
  <2>1. pc[t] \in {"rename", "again"}
    BY <1>2, <1>3, <1>0 DEF Rename, DeleteDest, RenameAgain, Goto
  <2>2. Copied(b)' /\ stream'[t] = NoStream
    BY <1>0, <1>3, <2>1, Renamed
  <2>3. pc'[t] = "stamp"
    BY <1>2, <1>3 DEF Goto
  <2> QED BY <1>0, <2>2, <2>3 DEF OwnFiles, Writing
<1>4. CASE UNCHANGED files /\ \E label \in {"delete", "giveup"} : Goto(t, label)
  <2>1. pc'[t] \in {"delete", "giveup"} /\ stream'[t] = NoStream /\ UNCHANGED disk
    BY <1>2, <1>4 DEF Goto, files
  <2>2. Loaded(b)'
    BY <1>0, <1>2, <2>1 DEF Loaded, Exists, asset, Whole, Blocks
  <2> QED BY <1>0, <2>1, <2>2 DEF OwnFiles, Writing
<1>5. CASE Delete({Dest(b)}) /\ Goto(t, "again")
  <2>1. pc'[t] = "again" /\ stream'[t] = NoStream /\ disk'[tempFile(b)] = disk[tempFile(b)]
    BY <1>1, <1>2, <1>5 DEF Goto, Delete, Without
  <2>2. Loaded(b)'
    BY <1>0, <1>2, <2>1 DEF Loaded, Exists, asset, Whole, Blocks
  <2> QED BY <1>0, <2>1, <2>2 DEF OwnFiles, Writing
<1> QED BY <1>3, <1>4, <1>5 DEF Rename, DeleteDest, RenameAgain

(* Every step keeps what its thread has made, as far as it has got.        *)
LEMMA StepOwnFiles ==
  ASSUME TInv, FInv, Apart, NEW t \in Threads, Steps(t) PROVE OwnFiles(t)'
<1> DEFINE b == call[t].asset
<1>0. /\ UNCHANGED apk /\ call[t] \in Calls
      /\ pc = [u \in Threads |-> pc[u]] /\ stream = [u \in Threads |-> stream[u]]
  BY OthersStay DEF TInv, IInv, Typed, FilesTyped, StreamsTyped
<1>1. CASE pc'[t] = "succeed"
  BY <1>1, StepSucceeds DEF OwnFiles, Succeeds, Writing
<1>2. CASE OpenTemp(t) \/ Write1(t) \/ Write2(t) \/ Rename(t) \/ DeleteDest(t) \/ RenameAgain(t)
  BY <1>2, WriteOwnFiles, MoveOwnFiles
<1>3. CASE pc'[t] # "succeed" /\ Stamp(t)
  <2>1. /\ pc[t] = "stamp" /\ pc'[t] = "cache" /\ UNCHANGED <<call, stream>>
        /\ UNCHANGED disk \/ (Exists(Dest(b)) /\ disk' = Stamped(b))
    BY <1>0, <1>3 DEF Stamp, Goto
  <2>2. Copied(b) /\ stream[t] = NoStream
    BY <2>1 DEF FInv, OwnFiles, Writing
  <2>3. disk'[Dest(b)].data = disk[Dest(b)].data /\ Exists(Dest(b))'
    BY <1>0, <2>1, <2>2, StampsContent DEF FileLabels, Copied, Exists
  <2>4. Copied(b)'
    BY <1>0, <2>1, <2>2, <2>3 DEF Copied, ContentMatch, Whole, Blocks, asset
  <2> QED BY <2>1, <2>2, <2>4 DEF OwnFiles, Writing
<1>4. ASSUME pc'[t] # "succeed", ~OpenTemp(t), ~Write1(t), ~Write2(t), ~Rename(t), ~DeleteDest(t),
             ~RenameAgain(t), ~Stamp(t)
      PROVE  OwnFiles(t)'
  <2>1. pc[t] \notin Writing /\ (pc'[t] = call[t].then \/ pc'[t] \notin Special)
        /\ (UNCHANGED stream \/ \E S : Delete(S))
    BY <1>0, <1>4 DEF Steps, CopyFolder, CopyFile, shouldSkipCopy, CheckCrc, CheckDetected, ReadStored,
       SetDetected, EditPrefs, MakeParent, DeleteTemp, GiveUp, CleanUp, FileDone, WipeFolder,
       ListFolder, FolderFails, NextFile, FolderDone, cacheAssetCrc, Goto, Special, Writing, files
  <2>2. stream[t] = NoStream
    BY <2>1 DEF FInv, OwnFiles
  <2>3. stream'[t] = NoStream
    BY <2>1, <2>2 DEF Delete
  <2>4. pc'[t] \notin Special
    BY <1>0, <2>1 DEF Calls, Special
  <2> QED BY <2>3, <2>4 DEF OwnFiles, Special, Writing
<1> QED BY <1>1, <1>2, <1>3, <1>4

(* A thread that found no update, or was told of none, compares with CRCs  *)
(* of this APK.                                                            *)
LEMMA StepCompares ==
  ASSUME TInv, FInv, NEW t \in Threads, Steps(t) PROVE Compares'
<1> USE DEF TInv, IInv, Typed
<1>0. /\ UNCHANGED apk /\ call[t] \in Calls
      /\ \A u \in Threads \ {t} : pc'[u] = pc[u] /\ call'[u] = call[u]
  BY OthersStay
<1>1. prefs.version = apk => prefs'.version = apk
  <2>1. CASE CheckCrc(t) \/ cacheAssetCrc(t)
    <3>1. UNCHANGED prefs \/ \E a, crc : prefs' = [prefs EXCEPT !.crc[a] = crc]
      BY <2>1 DEF CheckCrc, cacheAssetCrc
    <3> QED BY <3>1
  <2>2. CASE EditPrefs(t)
    BY <2>2 DEF EditPrefs
  <2>3. CASE UNCHANGED prefs
    BY <2>3
  <2> QED BY <2>1, <2>2, <2>3 DEF Steps, CopyFolder, CopyFile, shouldSkipCopy, CheckDetected, ReadStored,
       SetDetected, MakeParent, DeleteTemp, OpenTemp, Write1, Write2, Rename, DeleteDest, RenameAgain,
       GiveUp, Stamp, CleanUp, FileDone, WipeFolder, ListFolder, FolderFails, NextFile, FolderDone
<1>2. ASSUME pc'[t] = "crc", ~call'[t].updated PROVE prefs'.version = apk
  <2>1. CheckDetected(t) \/ SetDetected(t) \/ EditPrefs(t)
    BY <1>0, <1>2 DEF Steps, CopyFolder, CopyFile, shouldSkipCopy, CheckCrc, ReadStored,
       MakeParent, DeleteTemp, OpenTemp, Write1, Write2, WriteFails, Rename, DeleteDest, RenameAgain,
       GiveUp, Stamp, CleanUp, FileDone, WipeFolder, ListFolder, FolderFails, NextFile, FolderDone,
       cacheAssetCrc, Goto
  <2>2. CASE CheckDetected(t)
    <3>1. detected # -1 /\ call'[t] = [call[t] EXCEPT !.updated = (detected = 1)] /\ UNCHANGED prefs
      BY <1>2, <2>2 DEF CheckDetected, Goto
    <3>2. detected # 1
      BY <1>0, <1>2, <3>1 DEF Calls
    <3> QED BY <3>1, <3>2 DEF Answered
  <2>3. CASE SetDetected(t)
    BY <1>2, <2>3 DEF SetDetected, Answered, FoundNone
  <2>4. CASE EditPrefs(t)
    BY <2>4 DEF EditPrefs
  <2> QED BY <2>1, <2>2, <2>3, <2>4
<1> QED BY <1>0, <1>1, <1>2 DEF FInv, Compares

-----------------------------------------------------------------------------
(* At the start there are copies of the first APK, and nobody copies.      *)
LEMMA InitFInv == ASSUME Init PROVE FInv
<1>1. apk = 1 /\ \A a \in Assets : asset(a) \in Contents \cup {Nothing}
  BY InitIInv, AssetTyped DEF Init, IInv
<1>2. ASSUME NEW a \in Assets PROVE Good(a)
  <2>1. \/ disk[Dest(a)] = Missing
        \/ \E c \in Contents : disk[Dest(a)] = [data |-> Whole(c), time |-> LegacyTime]
    BY NamesOf DEF Init
  <2>2. CASE disk[Dest(a)] = Missing
    BY <2>2 DEF Good, Exists
  <2>3. ASSUME NEW c \in Contents, disk[Dest(a)] = [data |-> Whole(c), time |-> LegacyTime] PROVE Good(a)
    <3>1. disk[Dest(a)].data = Whole(c) /\ disk[Dest(a)].time = LegacyTime
      BY <2>3
    <3> QED BY <3>1 DEF Good, Legacy
  <2> QED BY <2>1, <2>2, <2>3
<1>3. \A t \in Threads : OwnFiles(t)
  BY DEF Init, OwnFiles, Writing
<1>4. Compares
  BY DEF Init, Compares
<1> QED BY <1>2, <1>3, <1>4 DEF FInv

(* What was written under an earlier APK is older than the next update.    *)
LEMMA OlderThanUpdate ==
  ASSUME NEW v \in Nat, NEW time \in -1..(3 * v + 2) PROVE ~(time >= 3 * (v + 1))
OBVIOUS

(* Threads, the user, the disk and updates keep it.                        *)
LEMMA NextFInv == ASSUME Apart, TInv, FInv, [Next]_vars PROVE FInv'
<1>1. ASSUME NEW t \in Threads, Steps(t) PROVE FInv'
  BY <1>1, StepOwnFiles, OthersOwnFiles, StepsGood, StepCompares DEF FInv
<1>2. ASSUME NEW a \in Assets, UserWrites(a) PROVE FInv'
  <2>1. PICK now \in {LegacyTime, Later} :
          disk' = [disk EXCEPT ![Dest(a)] = [data |-> Whole(UserContent), time |-> now]]
    BY <1>2 DEF UserWrites
  <2>2. UNCHANGED <<apk, stream, prefs, pc, call>> /\ \A t \in Threads : pc[t] = "idle"
    BY <1>2 DEF UserWrites
  <2>3. disk'[Dest(a)].data = Whole(UserContent)
    BY <2>1, NamesOf DEF TInv, FilesTyped, DiskTyped
  <2>4. Good(a)'
    BY <2>3, AssetsAssumption DEF Good, Whole, Blocks
  <2>5. \A c \in Assets \ {a} : Good(c)'
    <3>1. \A c \in Assets \ {a} : disk'[Dest(c)] = disk[Dest(c)]
      BY <2>1, NamesOf DEF Dest, TInv, FilesTyped, DiskTyped
    <3> QED BY <2>2, <3>1, GoodStays DEF FInv
  <2>6. \A t \in Threads : OwnFiles(t)'
    BY <2>2 DEF FInv, OwnFiles, Writing
  <2>7. Compares'
    BY <2>2 DEF Compares
  <2> QED BY <2>4, <2>5, <2>6, <2>7 DEF FInv
<1>3. CASE SavePrefs \/ UNCHANGED vars
  <2>1. UNCHANGED <<apk, disk, stream, prefs, pc, call>>
    BY <1>3 DEF SavePrefs, vars, files
  <2>2. \A a \in Assets : Good(a)'
    BY <2>1, GoodStays DEF FInv
  <2>3. \A t \in Threads : OwnFiles(t)'
    BY <2>1 DEF FInv, OwnFiles, Loaded, Copied, Succeeds, Exists, ContentMatch, SameSize, getAssetSize,
       getFileSize, asset, Whole, Blocks
  <2>4. Compares'
    BY <2>1 DEF FInv, Compares
  <2> QED BY <2>2, <2>3, <2>4 DEF FInv
<1>4. CASE ProcessEnds \/ Update
  <2>1. /\ UNCHANGED disk /\ apk \in Nat
        /\ (apk' = apk \/ apk' = apk + 1)
        /\ \A t \in Threads : pc'[t] = "idle" /\ stream'[t] = NoStream
    BY <1>4 DEF ProcessEnds, Update, NewProcess, TInv, IInv, Typed
  <2>2. ASSUME NEW a \in Assets PROVE Good(a)'
    <3>1. CASE apk' = apk
      <4>1. UNCHANGED apk /\ disk'[Dest(a)] = disk[Dest(a)]
        BY <2>1, <3>1
      <4> QED BY <4>1, GoodStays DEF FInv
    <3>2. CASE apk' = apk + 1
      <4>1. disk[Dest(a)].time \in -1..(3 * apk + 2)
        BY NamesOf DEF TInv, FilesTyped, DiskTyped, File
      <4>2. ~(disk[Dest(a)].time >= ApkLastUpdateTime)'
        BY <2>1, <3>2, <4>1, OlderThanUpdate DEF ApkLastUpdateTime
      <4> QED BY <2>1, <4>2 DEF FInv, Good, Exists, Whole, Blocks
    <3> QED BY <2>1, <3>1, <3>2
  <2>3. \A t \in Threads : OwnFiles(t)'
    BY <2>1 DEF OwnFiles, Writing
  <2>4. Compares'
    BY <2>1 DEF Compares
  <2> QED BY <2>2, <2>3, <2>4 DEF FInv
<1> QED BY <1>1, <1>2, <1>3, <1>4 DEF Next

(* What files hold, if no two threads copy to one destination.             *)
THEOREM FilesHold == ASSUME Apart PROVE Spec => [](TInv /\ FInv)
<1>1. TInv /\ FInv /\ [Next]_vars => FInv'
  BY NextFInv
<1> QED BY InitFInv, <1>1, TypesHold, PTL DEF Spec

(* Under its own name a file is missing or complete, whatever fails and    *)
(* wherever the process ends, if no two threads copy to one destination.   *)
(* Code: copyAssetStream.                                                  *)
THEOREM DestinationWhole == ASSUME Apart PROVE Spec => []DestWhole
<1>1. FInv => DestWhole
  BY DEF FInv, Good, DestWhole
<1> QED BY <1>1, FilesHold, PTL

(* A success means what the mode promises, under the same condition: the   *)
(* asset of the APK installed now, the user's file where the mode keeps    *)
(* it, its size, or that it is there.  Code: shouldSkipCopy, copyAssetFile.*)
THEOREM SuccessTrue == ASSUME Apart PROVE Spec => []SuccessIsCurrent
<1>1. FInv => SuccessIsCurrent
  BY DEF FInv, OwnFiles, Succeeds, SuccessIsCurrent
<1> QED BY <1>1, FilesHold, PTL
=============================================================================
