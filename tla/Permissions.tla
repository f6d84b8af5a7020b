---------------------------- MODULE Permissions ----------------------------
(* The permission flow of com.threshold.permissions: an Activity that extends
   AbstractPermissionActivity, its PermissionController and the
   PermissionManager behind it, with the parts of Android they talk to: the
   screens, the grants, and activities that end, are recreated and come back.

   All handlers run on the main thread, one at a time, so a handler is one
   step. What interleaves with them is the user, who answers screens and
   changes settings, and the platform, which recreates the activity (rotation,
   death of the process) while a screen is open and delivers the answer to the
   new instance.

   An operator whose name ends in _Mutant is a plausible bug in the definition
   that follows it; no specification uses it. *)
EXTENDS Naturals

CONSTANTS Ordinary,       \* runtime permissions with nothing special about them
          Write, Read,    \* WRITE_EXTERNAL_STORAGE, READ_EXTERNAL_STORAGE
          Manage,         \* MANAGE_EXTERNAL_STORAGE
          Post,           \* POST_NOTIFICATIONS
          Sdks,           \* the Android versions considered
          Manifests,      \* the sets of permissions a manifest may declare
          MaxLaunches,    \* bounds: starts of the activity by the user,
          MaxRecreations, \*   recreations by the platform,
          MaxSettings     \*   changes made in the system's settings

Storage == {Write, Read, Manage}
Perms == Ordinary \union Storage \union {Post}

\* SDK_INT: below 23, 23 to 29, 30 to 32, 33 and above.
ASSUME PermissionAssumption ==
  /\ Write # Read /\ Write # Manage /\ Read # Manage /\ Post \notin Storage
  /\ Ordinary \intersect (Storage \union {Post}) = {}
  /\ Sdks \subseteq {"L", "M", "R", "T"}
  /\ Manifests \subseteq SUBSET Perms
  /\ {MaxLaunches, MaxRecreations, MaxSettings} \subseteq Nat

VARIABLES
  sdk,         \* Build.VERSION.SDK_INT
  needed,      \* permissionsWillRequest: what the manifest declares
  granted,     \* runtime permissions that checkSelfPermission finds granted
  allFiles,    \* Environment.isExternalStorageManager
  notify,      \* NotificationManagerCompat.areNotificationsEnabled
  denials,     \* 0, 1 once the user has refused a permission, 2 when for good
  activity,    \* the activity and the screens it has opened
  owed,        \* the answer of a screen that is about to be delivered
  refused,     \* history: permissions the user has refused
  interrupted, \* history: a permission dialog was dismissed, or the activity
               \*   was recreated while an answer was due
  changed,     \* history: the user changed settings while the activity ran
  launches, recreations, settings   \* counters for the bounds

system == <<sdk, needed, granted, allFiles, notify, denials, refused>>
counts == <<launches, recreations, settings>>
vars == <<system, activity, owed, interrupted, changed, counts>>

Fresh == [life |-> "running",  \* or "none", "finished"
          grants |-> 0,        \* calls of onAllPermissionsGranted
          screens |-> 0,       \* screens for all files that are open
          pending |-> {},      \* what requestPermissions is asking for
          rationale |-> FALSE] \* the dialog of ifCancelledAndCanRequest is up

Init ==
  /\ sdk \in Sdks
  /\ needed \in Manifests
  /\ granted = IF sdk = "L" THEN needed \ {Manage, Post} ELSE {}
  /\ allFiles = FALSE
  /\ notify \in IF sdk = "T" THEN {FALSE} ELSE BOOLEAN
  /\ denials = [p \in Perms |-> 0]
  /\ activity = [Fresh EXCEPT !.life = "none"]
  /\ owed = "nothing"
  /\ refused = IF sdk # "T" /\ ~notify THEN {Post} ELSE {}
  /\ interrupted = FALSE
  /\ changed = FALSE
  /\ launches = 0 /\ recreations = 0 /\ settings = 0

-----------------------------------------------------------------------------
(* What the code asks of the system. *)

\* ContextCompat.checkSelfPermission: MANAGE_EXTERNAL_STORAGE is an operation
\* of the application, never a granted permission, and POST_NOTIFICATIONS is
\* whether notifications are enabled.
CheckSelf(p) ==
  CASE p = Manage -> FALSE
    [] p = Post -> notify
    [] OTHER -> p \in granted

Scoped == sdk \in {"R", "T"}

hasManageExternalStoragePermission ==
  IF Scoped THEN allFiles ELSE Write \in granted

Denied_Mutant == {p \in needed : ~CheckSelf(p)}  \* storage is not looked at again
Denied_Mutant2 == {p \in needed : ~CheckSelf(p)} \ Storage  \* nor whether all files may be managed

\* The denied permissions of checkPermissions: those that are not granted,
\* without notifications when they are enabled, and without the ones for
\* storage when all files may be managed, which below Android 11 is taken to
\* be so as soon as WRITE_EXTERNAL_STORAGE is granted.
Denied ==
  LET deny == {p \in needed : ~CheckSelf(p) /\ ~(p = Post /\ notify)}
  IN  IF deny # {} /\ hasManageExternalStoragePermission
      THEN deny \ Storage
      ELSE deny

\* shouldShowRequestPermissionRationale: after a refusal that is not for good.
Rationale(p) == denials[p] = 1 /\ (p = Post => sdk = "T")

-----------------------------------------------------------------------------
(* The handlers, as functions of the activity they run on. *)

\* The activity ends; with it go its dialog and the answers it waits for.
Finished(a) == [Fresh EXCEPT !.life = "finished", !.grants = a.grants]

onAllPermissionsGranted(a) == [a EXCEPT !.grants = @ + 1]

\* ifCancelledAndCannotRequest, as the controller overrides it: the callback
\* for permanent denial tells the user, opens the settings and finishes.
onSomePermissionsPermanentlyDenied(a) == Finished(a)

ifCancelledAndCanRequest(a) == [a EXCEPT !.rationale = TRUE]

\* One of the denied permissions may be asked for again.
ShouldRequest_Mutant == Denied # {}
ShouldRequest == \E p \in Denied : Rationale(p)

resolveRequestPermissionsResult_Mutant(a) ==  \* what is granted now is not told
  IF Denied = {} THEN a
  ELSE IF ShouldRequest THEN ifCancelledAndCanRequest(a)
  ELSE onSomePermissionsPermanentlyDenied(a)

\* resolveRequestPermissionsResult: what the system answered is not looked at,
\* every permission is checked again.
resolveRequestPermissionsResult(a) ==
  IF Denied = {} THEN onAllPermissionsGranted(a)
  ELSE IF ShouldRequest THEN ifCancelledAndCanRequest(a)
  ELSE onSomePermissionsPermanentlyDenied(a)

\* ActivityCompat.requestPermissions: while an earlier request is open, or its
\* answer is due, this one is answered at once, with nothing in the answer.
\* POST_NOTIFICATIONS is taken out before Android 13, and nothing happens if
\* nothing else is left.
requestPermissions(a, assign) ==
  LET asked == IF sdk = "T" THEN assign ELSE assign \ {Post}
  IN  CASE asked = {} -> a
        [] asked # {} /\ (a.pending # {} \/ owed = "request") ->
             resolveRequestPermissionsResult(a)
        [] OTHER -> [a EXCEPT !.pending = asked]

requestManageExternalStoragePermission(a) == [a EXCEPT !.screens = @ + 1]

Assigned_Mutant == {p \in Perms : ~CheckSelf(p)}  \* a fixed list of permissions
Assigned == {p \in needed : ~CheckSelf(p)}

NeedsAllFiles ==
  Scoped /\ needed \intersect Storage # {} /\ ~allFiles

\* checkAndRequestPermissions returns true.
AllGranted == sdk = "L" \/ (~NeedsAllFiles /\ Assigned = {})

\* checkAndRequestPermissions. The screen for notifications that it opens when
\* they are disabled reports to nobody: the user is free to change them anyway.
checkAndRequestPermissions(a) ==
  CASE AllGranted -> a
    [] ~AllGranted /\ NeedsAllFiles -> requestManageExternalStoragePermission(a)
    [] OTHER -> requestPermissions(a, Assigned)

onCreate_Mutant(a) ==  \* a request that was only made counts as granted
  onAllPermissionsGranted(checkAndRequestPermissions(a))

\* onCreate: a new controller checks at once, and tells when all is granted.
onCreate(a) ==
  IF AllGranted THEN onAllPermissionsGranted(a) ELSE checkAndRequestPermissions(a)

resolveActivityResult_Mutant(a) ==  \* tells what it finds, and asks nevertheless
  IF hasManageExternalStoragePermission
  THEN LET b == checkAndRequestPermissions(a)
       IN  IF Denied = {} THEN onAllPermissionsGranted(b) ELSE b
  ELSE onSomePermissionsPermanentlyDenied(a)

\* resolveActivityResult: the result of checkAndRequestPermissions is ignored.
resolveActivityResult(a) ==
  IF hasManageExternalStoragePermission
  THEN checkAndRequestPermissions(a)
  ELSE onSomePermissionsPermanentlyDenied(a)

-----------------------------------------------------------------------------
(* The steps. *)

\* The user starts the activity.
Launch ==
  /\ activity.life # "running"
  /\ launches < MaxLaunches
  /\ launches' = launches + 1
  /\ activity' = onCreate(Fresh)
  /\ changed' = FALSE
  /\ interrupted' = FALSE
  /\ UNCHANGED <<system, owed, recreations, settings>>

\* The platform replaces the activity by a new instance: at once, or, while a
\* screen covers it, when the user is back and before an answer is delivered.
\* Requests and screens stay open, the dialog of the old instance goes.
Recreate ==
  /\ activity.life = "running"
  /\ activity.screens = 0 \/ owed = "screen"
  /\ recreations < MaxRecreations
  /\ recreations' = recreations + 1
  /\ interrupted' = (interrupted \/ activity.pending # {} \/ owed # "nothing")
  /\ activity' = onCreate([activity EXCEPT !.grants = 0, !.rationale = FALSE])
  /\ owed' = IF activity'.life = "finished" THEN "nothing" ELSE owed
  /\ UNCHANGED <<system, changed, launches, settings>>

\* The user leaves the activity.
Leave ==
  /\ activity.life = "running"
  /\ owed = "nothing"
  /\ activity' = [Fresh EXCEPT !.life = "none"]
  /\ UNCHANGED <<system, owed, interrupted, changed, counts>>

\* The user closes the screen for all files, with the switch on or off.
CloseScreen ==
  /\ activity.screens > 0
  /\ owed = "nothing"
  /\ allFiles' \in BOOLEAN
  /\ allFiles => allFiles'
  /\ refused' = IF allFiles' THEN refused ELSE refused \union Storage
  /\ owed' = "screen"
  /\ activity' = [activity EXCEPT !.screens = @ - 1]
  /\ UNCHANGED <<sdk, needed, granted, notify, denials, interrupted, changed, counts>>

onActivityResult ==
  /\ owed = "screen"
  /\ owed' = "nothing"
  /\ activity' = resolveActivityResult(activity)
  /\ UNCHANGED <<system, interrupted, changed, counts>>

\* The permissions of a request that the user is asked about. The others are
\* refused without a question.
Askable(p) == p # Manage /\ denials[p] < 2 /\ (p = Post => sdk = "T") /\ ~CheckSelf(p)

\* The user answers the open request: grants some permissions, refuses others,
\* some for good, and closes the dialog on the rest.
AnswerRequest(asked, grant, refuse, final) ==
  /\ granted' = granted \union (grant \ {Post})
  /\ notify' = (notify \/ Post \in grant)
  /\ denials' = [p \in Perms |-> IF p \in final THEN 2
                                ELSE IF p \in refuse THEN 1 ELSE denials[p]]
  /\ refused' = refused \union refuse
  /\ interrupted' = (interrupted \/ grant \union refuse # asked)
  /\ owed' = "request"
  /\ activity' = [activity EXCEPT !.pending = {}]
  /\ UNCHANGED <<sdk, needed, allFiles, changed, counts>>

\* From Android 11 on a dialog may be closed without an answer, which is no
\* refusal, and a second refusal is for good; before, a refusal is for good if
\* the user says so, which he can from the second on.
CloseRequest ==
  LET asked == {p \in activity.pending : Askable(p)}
      again == {p \in asked : denials[p] = 1}
  IN  /\ activity.pending # {} /\ activity.screens = 0 /\ owed = "nothing"
      /\ \E grant \in SUBSET asked :
           \E refuse \in IF Scoped THEN SUBSET (asked \ grant) ELSE {asked \ grant} :
             \E final \in IF Scoped THEN {refuse \intersect again}
                                     ELSE SUBSET (refuse \intersect again) :
               AnswerRequest(asked, grant, refuse, final)

onRequestPermissionsResult ==
  /\ owed = "request"
  /\ owed' = "nothing"
  /\ activity' = resolveRequestPermissionsResult(activity)
  /\ UNCHANGED <<system, interrupted, changed, counts>>

\* The dialog that explains: OK asks again, and the result is ignored; any
\* other way out of it tells nobody.
RationaleOk ==
  /\ activity.rationale
  /\ activity.pending = {} /\ activity.screens = 0 /\ owed = "nothing"
  /\ activity' = checkAndRequestPermissions([activity EXCEPT !.rationale = FALSE])
  /\ UNCHANGED <<system, owed, interrupted, changed, counts>>

RationaleCancel ==
  /\ activity.rationale
  /\ activity.pending = {} /\ activity.screens = 0 /\ owed = "nothing"
  /\ activity' = [activity EXCEPT !.rationale = FALSE]
  /\ UNCHANGED <<system, owed, interrupted, changed, counts>>

\* The user changes the settings of the application. Taking a permission away
\* ends the process, so it happens between two runs of the activity only.
Settings ==
  /\ sdk # "L"
  /\ owed = "nothing"
  /\ settings < MaxSettings
  /\ settings' = settings + 1
  /\ granted' \in SUBSET (needed \ {Manage, Post})
  /\ allFiles' \in BOOLEAN
  /\ allFiles' => Scoped
  /\ notify' \in BOOLEAN
  /\ activity.life = "running" =>
       granted \subseteq granted' /\ (allFiles => allFiles') /\ (notify => notify')
  /\ refused' = refused \union (granted \ granted')
                  \union (IF notify /\ ~notify' THEN {Post} ELSE {})
                  \union (IF allFiles /\ ~allFiles' THEN Storage ELSE {})
  /\ changed' = (changed \/ activity.life = "running")
  /\ UNCHANGED <<sdk, needed, denials, activity, owed, interrupted,
                 launches, recreations>>

UserAnswers == CloseScreen \/ CloseRequest \/ RationaleOk \/ RationaleCancel
Delivers == onActivityResult \/ onRequestPermissionsResult
Next == Launch \/ Recreate \/ Leave \/ UserAnswers \/ Delivers \/ Settings

Spec == Init /\ [][Next]_vars

\* The main thread delivers what is due, and the user answers what is open.
FairSpec == Spec /\ WF_vars(Delivers) /\ WF_vars(UserAnswers)

-----------------------------------------------------------------------------
(* Properties. *)

\* No screen, request or dialog is open and no answer is due.
Idle == activity.pending = {} /\ activity.screens = 0 /\ ~activity.rationale /\ owed = "nothing"

\* The types of the variables, and that only an activity that runs waits for
\* anything.
TypeOK ==
  /\ sdk \in Sdks
  /\ needed \in Manifests
  /\ granted \subseteq needed \ {Manage, Post}
  /\ allFiles \in BOOLEAN /\ notify \in BOOLEAN
  /\ denials \in [Perms -> 0..2]
  /\ activity \in [life : {"none", "running", "finished"}, grants : Nat,
                   screens : Nat, pending : SUBSET needed, rationale : BOOLEAN]
  /\ owed \in {"nothing", "screen", "request"}
  /\ Idle \/ activity.life = "running"
  /\ refused \subseteq Perms
  /\ interrupted \in BOOLEAN /\ changed \in BOOLEAN
  /\ launches \in 0..MaxLaunches /\ recreations \in 0..MaxRecreations
  /\ settings \in 0..MaxSettings

\* What the application may do: a permission for storage is worth nothing from
\* Android 11 on unless all files may be managed, before that managing all
\* files is writing them, and below Android 6 nothing needs to be granted.
Usable(p) ==
  CASE sdk = "L" -> TRUE
    [] sdk # "L" /\ (p = Manage \/ (Scoped /\ p \in Storage)) ->
         hasManageExternalStoragePermission
    [] OTHER -> CheckSelf(p)

NewInstance == launches' # launches \/ recreations' # recreations
Tells == activity'.grants > IF NewInstance THEN 0 ELSE activity.grants

\* READ_EXTERNAL_STORAGE is taken off the denied permissions with the others
\* for storage, below Android 11 as soon as WRITE_EXTERNAL_STORAGE is granted.
TakenWithWrite(p) == p = Read /\ ~Scoped /\ Write \in granted

\* Whenever onAllPermissionsGranted is called, every permission that the
\* manifest declares can be used, whichever of the three ways the call took:
\* at the start, after an answer, or after a request that was turned down. The
\* one exception is READ_EXTERNAL_STORAGE below Android 11, next to
\* WRITE_EXTERNAL_STORAGE, although the callback is documented as called when
\* all permissions have been granted.
GrantedIsTrue == [][Tells => \A p \in needed : Usable(p) \/ TakenWithWrite(p)]_vars

Ends == activity.life = "running" /\ activity'.life = "finished"

Missing == {p \in needed : ~Usable(p)}

\* Below Android 11 nobody can be asked for MANAGE_EXTERNAL_STORAGE, and it is
\* never granted; next to WRITE_EXTERNAL_STORAGE it counts as granted with it.
NeverAsked == ~Scoped /\ Manage \in needed /\ Write \notin needed

\* The activity ends for permissions denied permanently
\* (onSomePermissionsPermanentlyDenied) only if the user has refused one of
\* those that are missing, unless a permission dialog was closed without an
\* answer, the activity was recreated while an answer was due, or the manifest
\* declares what the user cannot be asked for.
DenialIsTrue ==
  [][Ends => interrupted' \/ NeverAsked \/ refused \intersect Missing # {}]_vars

\* An instance is told one outcome: it is not told twice that all permissions
\* are granted, nor that they are granted and then ended for their denial.
OneOutcome ==
  interrupted \/ activity.grants + (IF activity.life = "finished" THEN 1 ELSE 0) <= 1

\* What resolveActivityResult finds when it checks again after the screen for
\* all files may be that nothing is left to ask for: only with a manifest of
\* the old permissions alone, granted before. It tells nobody then.
FoundOnReturn ==
  /\ Scoped /\ Manage \notin needed
  /\ needed \intersect Storage # {} /\ needed \intersect Storage \subseteq granted

\* An activity that waits for nothing and could use every permission has been
\* told so, if the permissions were not granted behind its back nor found on
\* the return from the screen for all files.
GrantsAreTold ==
  activity.life = "running" /\ Idle /\ (\A p \in needed : Usable(p)) /\ ~changed
    => activity.grants > 0 \/ FoundOnReturn

\* The questions come to an end, unless the user confirms again and again that
\* he wants to be asked; from Android 11 on that keeps them going only while he
\* closes dialogs without an answer, for a second refusal is for good.
FlowEnds ==
  []<>Idle \/ ([]<><<RationaleOk>>_vars /\ []<>(~Scoped \/ interrupted))
=============================================================================
