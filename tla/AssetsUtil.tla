------------------------------- MODULE AssetsUtil -------------------------------
(***************************************************************************)
(* AssetsUtil.java: copyAssetFile and copyAssetFolder copy assets of the   *)
(* APK to files, in one of five modes that say when a file that is there   *)
(* already is kept.  Threads of one process run them; file operations      *)
(* fail, the process ends at any point, the application is updated.        *)
(*                                                                         *)
(* A file is written through a stream, which follows the file when it is   *)
(* renamed and loses it when it is deleted; a file's bytes are two blocks, *)
(* each from some content or not written yet.  A CRC stands for the        *)
(* content.  Nested folders run the same code on their files, so one       *)
(* folder of files stands for them.                                        *)
(*                                                                         *)
(* An operator whose name ends in _Mutant is a plausible bug in the        *)
(* definition that follows it; no specification uses it.  PROJECT.json     *)
(* names the property each one violates.                                   *)
(***************************************************************************)
EXTENDS Integers, FiniteSets

CONSTANTS
  Threads,
  Assets, Copies,         (* Copies[t]: the assets that thread t copies    *)
  Folder, FolderThreads,  (* a folder of assets, who copies it             *)
  Modes,                  (* Modes[t]: of CopyModes                        *)
  Contents, SizeOf,       (* of an asset or of a file the user writes      *)
  UserContent,
  Nothing,                (* no content                                    *)
  Large,                  (* assets above MAX_CRC_VERIFY_SIZE              *)
  MaxVersion, Packed,     (* Packed[v][a]: content in APK v, or Nothing    *)
  MaxCalls,               (* bound: calls and files written by the user    *)
  MaxFaults, MaxEnds      (* bounds: failing operations, ends of a process *)

CopyModes == {"COPY_IF_DEST_NOT_EXISTS", "OVERRIDE_IF_DEST_SIZE_NOT_MATCHED", "OVERRIDE_FORCED",
              "OVERRIDE_IF_MODIFIED", "OVERRIDE_IF_CONTENT_CHANGED"}

ASSUME AssetsAssumption ==
  /\ Copies \in [Threads -> SUBSET Assets] /\ Folder \subseteq Assets /\ FolderThreads \subseteq Threads
  /\ Modes \in [Threads -> SUBSET CopyModes]
  /\ UserContent \in Contents /\ Nothing \notin Contents
  /\ SizeOf \in [Contents -> Nat \ {0}]
  /\ Large \subseteq Assets
  /\ MaxVersion \in Nat \ {0}
  /\ Packed \in [1..MaxVersion -> [Assets -> Contents \cup {Nothing}]]
  /\ MaxCalls \in Nat /\ MaxFaults \in Nat /\ MaxEnds \in Nat

VARIABLES
  apk,                   (* version installed                              *)
  disk,                  (* name -> file or Missing                        *)
  prefs, saved,          (* preferences: in memory, on disk                *)
  detected,              (* sApkUpdateDetected                             *)
  pc, call, stream,      (* per thread: step, locals, the file it writes   *)
  calls, faults, ends    (* see MaxCalls, MaxFaults, MaxEnds               *)

files  == <<disk, stream>>
bounds == <<calls, ends>>
vars   == <<apk, files, prefs, saved, detected, pc, call, calls, faults, ends>>

Blocks      == 1..2
Kinds       == {"dest", "tmp"}
Names       == Assets \X Kinds
Dest(a)     == <<a, "dest">>
Missing     == [data |-> [b \in Blocks |-> Nothing], time |-> -1]
Whole(c)    == [b \in Blocks |-> c]
NoStream    == <<>>
asset(a)    == Packed[apk][a]

tempFile_Mutant(a) == Dest(a)  (* writes in place *)
tempFile(a)        == <<a, "tmp">>

(* Times: the APK's update, within the tolerance of the legacy offset of   *)
(* one second after it, later; all before the next update.                 *)
ApkLastUpdateTime == 3 * apk
LegacyTime        == 3 * apk + 1
Later             == 3 * apk + 2

NoCrcs  == [a \in Assets |-> Nothing]
NoCall  == [asset |-> Nothing, mode |-> "", then |-> "", updated |-> FALSE,
            folder |-> FALSE, todo |-> {}, ok |-> TRUE]

Init ==
  /\ apk = 1
  /\ disk \in [Names -> {Missing} \cup {[data |-> Whole(c), time |-> LegacyTime] : c \in Contents}]
  /\ \A a \in Assets : /\ disk[tempFile(a)] = Missing
                       /\ disk[Dest(a)] # Missing => disk[Dest(a)].data = Whole(asset(a))
  /\ prefs = [version |-> 0, crc |-> NoCrcs] /\ saved = prefs
  /\ detected = -1
  /\ pc = [t \in Threads |-> "idle"]
  /\ call = [t \in Threads |-> NoCall]
  /\ stream = [t \in Threads |-> NoStream]
  /\ calls = 0 /\ faults = 0 /\ ends = 0

Goto(t, label)   == pc' = [pc EXCEPT ![t] = label]
Fault            == faults < MaxFaults /\ faults' = faults + 1
Exists(n)        == disk[n] # Missing

(* What deleting and renaming do to the names and to the open streams.     *)
Without(names)   == [n \in Names |-> IF n \in names THEN Missing ELSE disk[n]]
Delete(names)    ==
  /\ disk' = Without(names)
  /\ stream' = [u \in Threads |-> IF stream[u] \in names THEN NoStream ELSE stream[u]]
renameTo(a)      ==
  /\ disk' = [Without({tempFile(a)}) EXCEPT ![Dest(a)] = disk[tempFile(a)]]
  /\ stream' = [u \in Threads |-> CASE stream[u] = tempFile(a) -> Dest(a)
                                    [] stream[u] = Dest(a)     -> NoStream
                                    [] OTHER                   -> stream[u]]

-----------------------------------------------------------------------------
(* copyAssetFile: is a file that exists kept?                              *)

CopyFile(t, a, mode) ==
  /\ pc[t] = "idle"
  /\ calls < MaxCalls /\ calls' = calls + 1
  /\ call' = [call EXCEPT ![t] = [NoCall EXCEPT !.asset = a, !.mode = mode]]
  /\ Goto(t, "check")
  /\ UNCHANGED <<apk, files, prefs, saved, detected, faults, ends>>

getAssetSize(a) == IF asset(a) = Nothing THEN -1 ELSE SizeOf[asset(a)]
getFileSize(n)  == IF disk[n].data[2] = Nothing THEN 0 ELSE SizeOf[disk[n].data[2]]
SameSize(a)     == getAssetSize(a) = getFileSize(Dest(a))
ContentMatch(a) == disk[Dest(a)].data = Whole(asset(a))

Legacy(a)       == disk[Dest(a)].time = LegacyTime

(* OVERRIDE_IF_MODIFIED keeps a file of the asset's size that is newer, or *)
(* has the APK's time or the legacy one and the asset's content.           *)
KeptIfModified_Mutant(a) == SameSize(a)  (* only the size counts *)
KeptIfModified(a) ==
  /\ SameSize(a)
  /\ \/ disk[Dest(a)].time > ApkLastUpdateTime /\ ~Legacy(a)
     \/ Legacy(a) /\ a \notin Large /\ ContentMatch(a)
     \/ disk[Dest(a)].time = ApkLastUpdateTime /\ (a \in Large \/ ContentMatch(a))

Kept(a, mode) ==
  \/ mode = "COPY_IF_DEST_NOT_EXISTS"
  \/ mode = "OVERRIDE_IF_DEST_SIZE_NOT_MATCHED" /\ SameSize(a)
  \/ mode = "OVERRIDE_IF_MODIFIED" /\ KeptIfModified(a)

Stamped(a) == [disk EXCEPT ![Dest(a)].time = ApkLastUpdateTime]

shouldSkipCopy(t) ==
  LET a == call[t].asset  m == call[t].mode IN
  /\ pc[t] = "check"
  /\ \/ ~Exists(Dest(a)) /\ Goto(t, "mkdirs") /\ UNCHANGED <<disk, call, faults>>
     \/ Exists(Dest(a)) /\ m # "OVERRIDE_IF_CONTENT_CHANGED" /\ Kept(a, m)
        /\ Goto(t, "succeed") /\ UNCHANGED call
        /\ IF m = "OVERRIDE_IF_MODIFIED" /\ Legacy(a)
           THEN (disk' = Stamped(a) /\ UNCHANGED faults) \/ (Fault /\ UNCHANGED disk)
           ELSE UNCHANGED <<disk, faults>>
     \/ Exists(Dest(a)) /\ m # "OVERRIDE_IF_CONTENT_CHANGED" /\ ~Kept(a, m)
        /\ Goto(t, "mkdirs") /\ UNCHANGED <<disk, call, faults>>
     \/ Exists(Dest(a)) /\ m = "OVERRIDE_IF_CONTENT_CHANGED"
        /\ call' = [call EXCEPT ![t].then = "crc"]
        /\ Goto(t, "sync") /\ UNCHANGED <<disk, faults>>
     \/ Exists(Dest(a)) /\ Fault  (* size, asset or file cannot be read *)
        /\ Goto(t, "fail") /\ UNCHANGED <<disk, call>>
  /\ UNCHANGED <<apk, stream, prefs, saved, detected, bounds>>

(* getOrComputeAssetCrc, compared with the file.                           *)
CheckCrc(t) ==
  LET a == call[t].asset IN
  /\ pc[t] = "crc"
  /\ \/ call[t].updated /\ Goto(t, "mkdirs") /\ UNCHANGED <<prefs, faults>>
     \/ ~call[t].updated /\ prefs.crc[a] = Nothing /\ asset(a) = Nothing
        /\ Goto(t, "fail") /\ UNCHANGED <<prefs, faults>>
     \/ ~call[t].updated /\ (prefs.crc[a] # Nothing \/ asset(a) # Nothing)
        /\ LET crc == IF prefs.crc[a] # Nothing THEN prefs.crc[a] ELSE asset(a) IN
           /\ prefs' = [prefs EXCEPT !.crc[a] = crc]
           /\ Goto(t, CASE ~Exists(Dest(a))                -> "fail"
                        [] disk[Dest(a)].data = Whole(crc) -> "succeed"
                        [] OTHER                           -> "mkdirs")
        /\ UNCHANGED faults
     \/ ~call[t].updated /\ Fault /\ Goto(t, "fail") /\ UNCHANGED prefs
  /\ UNCHANGED <<apk, files, saved, detected, call, bounds>>

-----------------------------------------------------------------------------
(* ensureApkInfoSynced: has the APK been updated since the preferences     *)
(* were written?  The answer is kept for the life of the process.          *)

CheckDetected(t) ==
  /\ pc[t] = "sync"
  /\ IF detected # -1
     THEN Goto(t, call[t].then) /\ call' = [call EXCEPT ![t].updated = (detected = 1)]
     ELSE Goto(t, "stored") /\ UNCHANGED call
  /\ UNCHANGED <<apk, files, prefs, saved, detected, bounds, faults>>

ReadStored(t) ==
  /\ pc[t] = "stored"
  /\ call' = [call EXCEPT ![t].updated = (prefs.version # apk)]
  /\ Goto(t, "detect")
  /\ UNCHANGED <<apk, files, prefs, saved, detected, bounds, faults>>

SetDetected(t) ==
  /\ pc[t] = "detect"
  /\ detected' = IF call[t].updated THEN 1 ELSE 0
  /\ Goto(t, IF call[t].updated THEN "edit" ELSE call[t].then)
  /\ UNCHANGED <<apk, files, prefs, saved, call, bounds, faults>>

Cleared_Mutant == prefs.crc  (* clear() is missing *)
Cleared        == NoCrcs

EditPrefs(t) ==
  /\ pc[t] = "edit"
  /\ prefs' = [version |-> apk, crc |-> Cleared]
  /\ Goto(t, call[t].then)
  /\ UNCHANGED <<apk, files, saved, detected, call, bounds, faults>>

-----------------------------------------------------------------------------
(* copyAssetStream: a temporary file, moved into place when it is complete.*)

MakeParent(t) ==
  /\ pc[t] = "mkdirs"
  /\ \/ /\ IF call[t].mode = "OVERRIDE_IF_CONTENT_CHANGED"
           THEN call' = [call EXCEPT ![t].then = "temp"] /\ Goto(t, "sync")
           ELSE Goto(t, "temp") /\ UNCHANGED call
        /\ UNCHANGED faults
     \/ Fault /\ Goto(t, "failed") /\ UNCHANGED call
  /\ UNCHANGED <<apk, files, prefs, saved, detected, bounds>>

DeleteTemp(t) ==
  /\ pc[t] = "temp"
  /\ \/ Delete({tempFile(call[t].asset)}) /\ Goto(t, "open") /\ UNCHANGED faults
     \/ Exists(tempFile(call[t].asset)) /\ Fault /\ Goto(t, "fail") /\ UNCHANGED files
  /\ UNCHANGED <<apk, prefs, saved, detected, call, bounds>>

AssetOpens_Mutant(a) == TRUE  (* a missing asset is not noticed *)
AssetOpens(a)        == asset(a) # Nothing

(* The way out of the writing: the stream is closed, the file deleted.     *)
WriteFails(t) ==
  /\ \/ Delete({tempFile(call[t].asset)})
     \/ UNCHANGED disk /\ stream' = [stream EXCEPT ![t] = NoStream]
  /\ Goto(t, "fail")

OpenTemp(t) ==
  LET tmp == tempFile(call[t].asset) IN
  /\ pc[t] = "open"
  /\ \/ /\ AssetOpens(call[t].asset)
        /\ \E now \in {LegacyTime, Later} :
             disk' = [disk EXCEPT ![tmp] = [data |-> Whole(Nothing), time |-> now]]
        /\ stream' = [stream EXCEPT ![t] = tmp]
        /\ Goto(t, "write1") /\ UNCHANGED faults
     \/ ~AssetOpens(call[t].asset) /\ WriteFails(t) /\ UNCHANGED faults
     \/ Fault /\ WriteFails(t)
  /\ UNCHANGED <<apk, prefs, saved, detected, call, bounds>>

Written(t, b) ==
  IF stream[t] = NoStream THEN disk
  ELSE [disk EXCEPT ![stream[t]].data[b] = asset(call[t].asset)]

Write1(t) ==
  /\ pc[t] = "write1"
  /\ \/ disk' = Written(t, 1) /\ Goto(t, "write2") /\ UNCHANGED <<stream, faults>>
     \/ Fault /\ WriteFails(t)
  /\ UNCHANGED <<apk, prefs, saved, detected, call, bounds>>

Write2(t) ==
  /\ pc[t] = "write2"
  /\ \/ /\ disk' = Written(t, 2) /\ stream' = [stream EXCEPT ![t] = NoStream]
        /\ Goto(t, "rename") /\ UNCHANGED faults
     \/ Fault /\ WriteFails(t)
  /\ UNCHANGED <<apk, prefs, saved, detected, call, bounds>>

Rename(t) ==
  LET a == call[t].asset IN
  /\ pc[t] = "rename"
  /\ \/ Exists(tempFile(a)) /\ renameTo(a) /\ Goto(t, "stamp") /\ UNCHANGED faults
     \/ ~Exists(tempFile(a)) /\ Goto(t, "delete") /\ UNCHANGED <<files, faults>>
     \/ Fault /\ Goto(t, "delete") /\ UNCHANGED files
  /\ UNCHANGED <<apk, prefs, saved, detected, call, bounds>>

DeleteDest(t) ==
  LET a == call[t].asset IN
  /\ pc[t] = "delete"
  /\ \/ Exists(Dest(a)) /\ Delete({Dest(a)}) /\ Goto(t, "again") /\ UNCHANGED faults
     \/ ~Exists(Dest(a)) /\ Goto(t, "giveup") /\ UNCHANGED <<files, faults>>
     \/ Fault /\ Goto(t, "giveup") /\ UNCHANGED files
  /\ UNCHANGED <<apk, prefs, saved, detected, call, bounds>>

RenameAgain(t) ==
  LET a == call[t].asset IN
  /\ pc[t] = "again"
  /\ \/ Exists(tempFile(a)) /\ renameTo(a) /\ Goto(t, "stamp") /\ UNCHANGED faults
     \/ ~Exists(tempFile(a)) /\ Goto(t, "giveup") /\ UNCHANGED <<files, faults>>
     \/ Fault /\ Goto(t, "giveup") /\ UNCHANGED files
  /\ UNCHANGED <<apk, prefs, saved, detected, call, bounds>>

GiveUp(t) ==
  /\ pc[t] = "giveup"
  /\ \/ Delete({tempFile(call[t].asset)}) /\ UNCHANGED faults
     \/ Fault /\ UNCHANGED files
  /\ Goto(t, "fail")
  /\ UNCHANGED <<apk, prefs, saved, detected, call, bounds>>

Stamp(t) ==
  LET a == call[t].asset IN
  /\ pc[t] = "stamp"
  /\ \/ disk' = (IF Exists(Dest(a)) THEN Stamped(a) ELSE disk) /\ UNCHANGED faults
     \/ Fault /\ UNCHANGED disk
  /\ Goto(t, IF call[t].mode = "OVERRIDE_IF_CONTENT_CHANGED" THEN "cache" ELSE "succeed")
  /\ UNCHANGED <<apk, stream, prefs, saved, detected, call, bounds>>

cacheAssetCrc(t) ==
  /\ pc[t] = "cache"
  /\ prefs' = [prefs EXCEPT !.crc[call[t].asset] = asset(call[t].asset)]
  /\ Goto(t, "succeed")
  /\ UNCHANGED <<apk, files, saved, detected, call, bounds, faults>>

(* The handler of copyAssetFile's exceptions deletes the destination.      *)
CleanUp(t) ==
  /\ pc[t] = "fail"
  /\ \/ Delete({Dest(call[t].asset)}) /\ UNCHANGED faults
     \/ Fault /\ UNCHANGED files
  /\ Goto(t, "failed")
  /\ UNCHANGED <<apk, prefs, saved, detected, call, bounds>>

FileDone(t) ==
  /\ pc[t] \in {"succeed", "failed"}
  /\ IF call[t].folder
     THEN Goto(t, "next") /\ call' = [call EXCEPT ![t].ok = @ /\ pc[t] = "succeed"]
     ELSE Goto(t, "idle") /\ call' = [call EXCEPT ![t] = NoCall]
  /\ UNCHANGED <<apk, files, prefs, saved, detected, bounds, faults>>

-----------------------------------------------------------------------------
(* copyAssetFolder.                                                        *)

CopyFolder(t, mode) ==
  /\ pc[t] = "idle" /\ t \in FolderThreads
  /\ calls < MaxCalls /\ calls' = calls + 1
  /\ call' = [call EXCEPT ![t] = [NoCall EXCEPT !.mode = mode, !.folder = TRUE, !.then = "wipe"]]
  /\ Goto(t, IF mode = "OVERRIDE_IF_CONTENT_CHANGED" THEN "sync" ELSE "list")
  /\ UNCHANGED <<apk, files, prefs, saved, detected, faults, ends>>

(* deleteDirectoryRecursively logs what it cannot delete.                  *)
WipeFolder(t) ==
  /\ pc[t] = "wipe"
  /\ \/ ~call[t].updated /\ UNCHANGED <<files, faults>>
     \/ call[t].updated /\ Delete(Folder \X Kinds) /\ UNCHANGED faults
     \/ call[t].updated /\ Fault /\ \E n \in Folder \X Kinds : Delete((Folder \X Kinds) \ {n})
  /\ Goto(t, "list")
  /\ UNCHANGED <<apk, prefs, saved, detected, call, bounds>>

FolderFails(t) ==
  Fault /\ Goto(t, "end") /\ call' = [call EXCEPT ![t].ok = FALSE]

ListFolder(t) ==
  /\ pc[t] = "list"
  /\ \/ /\ call' = [call EXCEPT ![t].todo = {a \in Folder : asset(a) # Nothing}]
        /\ Goto(t, "next") /\ UNCHANGED faults
     \/ FolderFails(t)
  /\ UNCHANGED <<apk, files, prefs, saved, detected, bounds>>

NextFile(t) ==
  /\ pc[t] = "next"
  /\ \/ \E a \in call[t].todo :
          /\ call' = [call EXCEPT ![t].asset = a, ![t].todo = @ \ {a}]
          /\ Goto(t, "check") /\ UNCHANGED faults
     \/ call[t].todo = {} /\ Goto(t, "end") /\ UNCHANGED <<call, faults>>
     \/ call[t].todo # {} /\ FolderFails(t)
  /\ UNCHANGED <<apk, files, prefs, saved, detected, bounds>>

FolderDone(t) ==
  /\ pc[t] = "end"
  /\ Goto(t, "idle") /\ call' = [call EXCEPT ![t] = NoCall]
  /\ UNCHANGED <<apk, files, prefs, saved, detected, bounds, faults>>

-----------------------------------------------------------------------------
(* The environment.                                                        *)

(* apply() changes the preferences in memory and saves them later.         *)
SavePrefs ==
  /\ saved # prefs /\ saved' = prefs
  /\ UNCHANGED <<apk, files, prefs, detected, pc, call, bounds, faults>>

(* A new process: its memory is as it starts, its threads are idle.        *)
NewProcess ==
  /\ prefs' = saved /\ detected' = -1
  /\ pc' = [t \in Threads |-> "idle"]
  /\ call' = [t \in Threads |-> NoCall]
  /\ stream' = [t \in Threads |-> NoStream]
  /\ UNCHANGED <<disk, saved, calls, faults>>

ProcessEnds == ends < MaxEnds /\ ends' = ends + 1 /\ NewProcess /\ UNCHANGED apk
Update      == apk < MaxVersion /\ apk' = apk + 1 /\ NewProcess /\ UNCHANGED ends

(* Between calls the user may write a file of his own over a copy.         *)
UserWrites(a) ==
  /\ \A t \in Threads : pc[t] = "idle"
  /\ calls < MaxCalls /\ calls' = calls + 1
  /\ \E now \in {LegacyTime, Later} :
       disk' = [disk EXCEPT ![Dest(a)] = [data |-> Whole(UserContent), time |-> now]]
  /\ UNCHANGED <<apk, stream, prefs, saved, detected, pc, call, faults, ends>>

Steps(t) ==
  \/ \E m \in Modes[t] : CopyFolder(t, m) \/ \E a \in Copies[t] : CopyFile(t, a, m)
  \/ shouldSkipCopy(t) \/ CheckCrc(t)
  \/ CheckDetected(t) \/ ReadStored(t) \/ SetDetected(t) \/ EditPrefs(t)
  \/ MakeParent(t) \/ DeleteTemp(t) \/ OpenTemp(t) \/ Write1(t) \/ Write2(t)
  \/ Rename(t) \/ DeleteDest(t) \/ RenameAgain(t) \/ GiveUp(t)
  \/ Stamp(t) \/ cacheAssetCrc(t) \/ CleanUp(t) \/ FileDone(t)
  \/ WipeFolder(t) \/ ListFolder(t) \/ NextFile(t) \/ FolderDone(t)

Next ==
  \/ \E t \in Threads : Steps(t)
  \/ \E a \in Assets : UserWrites(a)
  \/ SavePrefs \/ ProcessEnds \/ Update

Spec == Init /\ [][Next]_vars

-----------------------------------------------------------------------------
Labels == {"idle", "check", "crc", "sync", "stored", "detect", "edit", "mkdirs", "temp", "open",
           "write1", "write2", "rename", "delete", "again", "giveup", "stamp", "cache", "succeed",
           "fail", "failed", "wipe", "list", "next", "end"}
Prefs == [version : 0..MaxVersion, crc : [Assets -> Contents \cup {Nothing}]]

(* Types; a stream that is open writes to a file that exists, and nobody   *)
(* copies an asset that the APK does not have.                             *)
(* Code: AssetsUtil's fields, copyAssetStream's streams.                   *)
TypeOK ==
  /\ apk \in 1..MaxVersion
  /\ disk \in [Names -> [data : [Blocks -> Contents \cup {Nothing}], time : -1..(3 * apk + 2)]]
  /\ prefs \in Prefs /\ saved \in Prefs
  /\ detected \in {-1, 0, 1}
  /\ pc \in [Threads -> Labels]
  /\ \A t \in Threads :
       /\ call[t].asset \in Assets \cup {Nothing} /\ call[t].mode \in CopyModes \cup {""}
       /\ call[t].todo \subseteq Assets
       /\ stream[t] = NoStream \/ (stream[t] \in Names /\ Exists(stream[t]))
       /\ pc[t] \in {"write1", "write2"} => asset(call[t].asset) # Nothing
  /\ calls \in 0..MaxCalls /\ faults \in 0..MaxFaults /\ ends \in 0..MaxEnds

(* "Use a temporary file to ensure atomic write": under its own name a     *)
(* file is missing or complete, whatever fails and wherever the process    *)
(* ends.  Code: copyAssetStream.                                           *)
DestWhole == \A a \in Assets : Exists(Dest(a)) => \E c \in Contents : disk[Dest(a)].data = Whole(c)

(* What success means in each mode: the file is the asset of the APK       *)
(* installed now; of its size; there.  OVERRIDE_IF_MODIFIED may also leave *)
(* a file of the user that is newer than the APK: "File is newer -> skip   *)
(* (assume user-modified)" in the code, against the mode's documentation,  *)
(* by which a file with another time is overwritten by force.              *)
(* Code: shouldSkipCopy, copyAssetFile.                                    *)
SuccessIsCurrent ==
  \A t \in Threads : pc[t] = "succeed" =>
    LET a == call[t].asset  m == call[t].mode IN
    /\ Exists(Dest(a))
    /\ m \in {"OVERRIDE_FORCED", "OVERRIDE_IF_CONTENT_CHANGED"} => ContentMatch(a)
    /\ m = "OVERRIDE_IF_MODIFIED" => ContentMatch(a) \/ disk[Dest(a)].data = Whole(UserContent)
    /\ m = "OVERRIDE_IF_DEST_SIZE_NOT_MATCHED" => SameSize(a)

(* Once a process has found that the APK is the one the preferences were   *)
(* written for, the CRCs they hold are those of its assets: whatever other *)
(* threads clear, compute and cache meanwhile, and though the preferences  *)
(* reach the disk late or not at all.                                      *)
(* Code: ensureApkInfoSynced, getOrComputeAssetCrc, cacheAssetCrc.         *)
CachedCrcsCurrent ==
  detected = 0 => prefs.version = apk /\ \A a \in Assets : prefs.crc[a] \in {Nothing, asset(a)}

(* "Clean up incomplete file": the handler of a failed copy deletes what   *)
(* is incomplete, not a complete file.  Code: copyAssetFile.               *)
CleansIncompleteOnly ==
  [][\A t \in Threads : LET a == call[t].asset IN
       pc[t] = "fail" /\ pc'[t] = "failed" /\ Exists(Dest(a)) /\ ~Exists(Dest(a))'
       => \A c \in Contents : disk[Dest(a)].data # Whole(c)]_vars
=============================================================================
