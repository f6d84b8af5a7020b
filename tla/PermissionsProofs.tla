------------------------- MODULE PermissionsProofs -------------------------
(* Proofs about the permission flow. The invariants say what an open request
   or screen implies; the three action properties and the invariants of
   Permissions follow from them, for every set of permissions, every manifest
   and every bound. *)
EXTENDS Permissions, TLAPS

\* What the screens and requests that are open say of the system: a request
\* is made only once all files may be managed, if storage is needed.
Access ==
  /\ activity.pending # {} \/ owed = "request" =>
       sdk # "L" /\ ~NeedsAllFiles
  /\ activity.screens > 0 \/ owed = "screen" =>
       Scoped /\ needed \intersect Storage # {}

Inv == TypeOK /\ Access

-----------------------------------------------------------------------------
(* What the handlers return. *)

Activity == [life : {"none", "running", "finished"}, grants : Nat,
             screens : Nat, pending : SUBSET needed, rationale : BOOLEAN]

\* A handler leaves an activity that has a type, and a request or a screen
\* only where Access allows it.
Proper(a, b) ==
  /\ b \in Activity
  /\ b.pending # {} => a.pending # {} \/ (sdk # "L" /\ ~NeedsAllFiles)
  /\ b.screens > 0 => a.screens > 0 \/ NeedsAllFiles
  /\ b.life \in {a.life, "finished"}
  /\ b.life \in {a.life} \/ (b.pending = {} /\ b.screens = 0 /\ ~b.rationale)

LEMMA TellProper ==
  ASSUME NEW a \in Activity
  PROVE  Proper(a, onAllPermissionsGranted(a))
  BY DEF Activity, Proper, onAllPermissionsGranted

LEMMA EndProper ==
  ASSUME NEW a \in Activity
  PROVE  Proper(a, onSomePermissionsPermanentlyDenied(a))
<1> DEFINE b == Finished(a)
<1>1. b.life = "finished" /\ b.grants = a.grants /\ b.screens = 0 /\ b.pending = {} /\ ~b.rationale
  BY DEF Finished, Fresh
<1>2. b \in Activity
  BY DEF Finished, Fresh, Activity
<1> QED
  BY <1>1, <1>2 DEF Proper, onSomePermissionsPermanentlyDenied

LEMMA RationaleProper ==
  ASSUME NEW a \in Activity
  PROVE  Proper(a, ifCancelledAndCanRequest(a))
  BY DEF Activity, Proper, ifCancelledAndCanRequest

LEMMA ResultProper ==
  ASSUME NEW a \in Activity
  PROVE  Proper(a, resolveRequestPermissionsResult(a))
  BY TellProper, EndProper, RationaleProper DEF resolveRequestPermissionsResult

LEMMA CheckProper ==
  ASSUME NEW a \in Activity
  PROVE  Proper(a, checkAndRequestPermissions(a))
<1>1. CASE AllGranted
  BY <1>1 DEF checkAndRequestPermissions, Proper
<1>2. CASE ~AllGranted /\ NeedsAllFiles
  BY <1>2 DEF checkAndRequestPermissions, requestManageExternalStoragePermission, Proper, Activity
<1>3. CASE ~AllGranted /\ ~NeedsAllFiles
  <2>1. checkAndRequestPermissions(a) = requestPermissions(a, Assigned)
    BY <1>3 DEF checkAndRequestPermissions
  <2>2. Proper(a, a)
    BY DEF Proper
  <2>3. Proper(a, resolveRequestPermissionsResult(a))
    BY ResultProper
  <2>4. ASSUME NEW asked \in SUBSET needed
        PROVE  Proper(a, [a EXCEPT !.pending = asked])
    BY <1>3 DEF Proper, Activity, AllGranted
  <2>5. Assigned \in SUBSET needed /\ Assigned \ {Post} \in SUBSET needed
    BY DEF Assigned
  <2> QED
    BY <2>1, <2>2, <2>3, <2>4, <2>5 DEF requestPermissions
<1> QED
  BY <1>1, <1>2, <1>3

LEMMA CreateProper ==
  ASSUME NEW a \in Activity
  PROVE  Proper(a, onCreate(a))
  BY CheckProper, TellProper DEF onCreate

LEMMA ActivityResultProper ==
  ASSUME NEW a \in Activity
  PROVE  Proper(a, resolveActivityResult(a))
  BY EndProper, CheckProper DEF resolveActivityResult

-----------------------------------------------------------------------------
(* Types, and what an open request or screen implies. *)

LEMMA InitInv == Init => Inv
<1> SUFFICES ASSUME Init PROVE Inv
  OBVIOUS
<1>1. activity \in Activity /\ activity.pending = {} /\ activity.screens = 0 /\ ~activity.rationale
  BY DEF Init, Fresh, Activity
<1>2. granted \subseteq needed \ {Manage, Post} /\ refused \subseteq Perms
  BY DEF Init, Perms
<1>3. denials \in [Perms -> 0..2]
  BY DEF Init
<1>4. 0 \in 0..MaxLaunches /\ 0 \in 0..MaxRecreations /\ 0 \in 0..MaxSettings
  BY PermissionAssumption DEF PermissionAssumption
<1>5. sdk \in Sdks /\ needed \in Manifests /\ allFiles \in BOOLEAN /\ notify \in BOOLEAN
      /\ owed = "nothing" /\ interrupted \in BOOLEAN /\ changed \in BOOLEAN
  BY DEF Init
<1>6. launches = 0 /\ recreations = 0 /\ settings = 0
  BY DEF Init
<1> QED
  BY <1>1, <1>2, <1>3, <1>4, <1>5, <1>6 DEF Inv, TypeOK, Access, Activity, Idle

\* A step in which a handler runs on an activity a that has no more open than
\* the one before keeps the part of the invariant about activities.
Handled(a) ==
  /\ a \in Activity
  /\ a.pending # {} => activity.pending # {} \/ owed = "request"
  /\ a.screens > 0 => activity.screens > 0
  /\ Proper(a, activity')
  /\ UNCHANGED system
  /\ owed' \in {"nothing", owed}
  /\ a.life = "running"
  /\ owed' # "nothing" => activity'.life = "running"
  /\ interrupted' \in BOOLEAN
  /\ changed' \in BOOLEAN

Bounded ==
  /\ launches' \in 0..MaxLaunches /\ recreations' \in 0..MaxRecreations
  /\ settings' \in 0..MaxSettings

LEMMA HandledInv ==
  ASSUME Inv, NEW a, Handled(a), Bounded
  PROVE  Inv'
<1>1. activity' \in Activity /\ UNCHANGED needed /\ Activity' = Activity
  BY DEF Handled, Proper, system, Activity
<1>2. owed' \in {"nothing", "screen", "request"}
  BY DEF Handled, Inv, TypeOK
<1>3. TypeOK'
  <2>1. Idle' \/ activity'.life = "running"
    BY DEF Handled, Proper, Idle
  <2>2. UNCHANGED <<sdk, needed, granted, allFiles, notify, denials, refused>>
    BY DEF Handled, system
  <2>3. interrupted' \in BOOLEAN /\ changed' \in BOOLEAN
    BY DEF Handled
  <2> QED
    BY <1>1, <1>2, <2>1, <2>2, <2>3 DEF Bounded, Inv, TypeOK, Activity
<1>4. NeedsAllFiles' = NeedsAllFiles /\ Scoped' = Scoped
  BY DEF Handled, system, NeedsAllFiles, Scoped
<1>5. Access'
  <2>1. activity'.pending # {} => sdk # "L" /\ ~NeedsAllFiles
    BY DEF Handled, Proper, Inv, Access
  <2>2. activity'.screens > 0 => Scoped /\ needed \intersect Storage # {}
    BY DEF Handled, Proper, Inv, Access, NeedsAllFiles
  <2>3. UNCHANGED <<sdk, needed>> /\ owed' \in {"nothing", owed}
    BY DEF Handled, system
  <2> QED
    BY <2>1, <2>2, <2>3, <1>4 DEF Inv, Access
<1> QED
  BY <1>3, <1>5 DEF Inv

LEMMA FreshActivity ==
  Fresh \in Activity /\ Fresh.pending = {} /\ Fresh.screens = 0 /\ Fresh.life = "running"
  BY DEF Fresh, Activity

LEMMA LaunchInv == Inv /\ Launch => Inv'
<1> SUFFICES ASSUME Inv, Launch PROVE Inv'
  OBVIOUS
<1>1. Proper(Fresh, activity')
  BY FreshActivity, CreateProper DEF Launch
<1>2. owed = "nothing" /\ owed' = "nothing"
  BY DEF Launch, Inv, TypeOK, Idle
<1>3. Handled(Fresh)
  <2>1. interrupted' \in BOOLEAN /\ changed' \in BOOLEAN /\ UNCHANGED system
    BY DEF Launch
  <2> QED
    BY <1>1, <1>2, <2>1, FreshActivity DEF Handled
<1>4. Bounded
  BY PermissionAssumption DEF Bounded, Launch, Inv, TypeOK, PermissionAssumption
<1> QED
  BY <1>3, <1>4, HandledInv

LEMMA RecreateInv == Inv /\ Recreate => Inv'
<1> SUFFICES ASSUME Inv, Recreate PROVE Inv'
  OBVIOUS
<1> DEFINE a == [activity EXCEPT !.grants = 0, !.rationale = FALSE]
<1>1. activity \in Activity
  BY DEF Inv, TypeOK, Activity
<1>2. a \in Activity /\ a.pending = activity.pending /\ a.screens = activity.screens
      /\ a.life = activity.life
  BY <1>1 DEF Activity
<1>3. Proper(a, activity')
  BY <1>2, CreateProper DEF Recreate
<1>4. activity'.life \in {"running", "finished"} /\ a.life = "running"
  BY <1>2, <1>3 DEF Proper, Recreate
<1>5. owed' \in {"nothing", owed} /\ (owed' # "nothing" => activity'.life = "running")
  BY <1>4 DEF Recreate
<1>6. interrupted' \in BOOLEAN /\ changed' \in BOOLEAN
  BY DEF Recreate, Inv, TypeOK
<1>7. Handled(a)
  BY <1>2, <1>3, <1>4, <1>5, <1>6 DEF Handled, Recreate
<1>8. Bounded
  BY PermissionAssumption DEF Bounded, Recreate, Inv, TypeOK, PermissionAssumption
<1> QED
  BY <1>7, <1>8, HandledInv

\* The steps that run a handler on the activity as it is, or without its dialog.
LEMMA InPlace ==
  ASSUME Inv, NEW a \in Activity,
         a.pending = activity.pending, a.screens = activity.screens,
         a.life = "running",
         Proper(a, activity'), owed' = "nothing",
         UNCHANGED <<system, interrupted, changed, counts>>
  PROVE  Inv'
<1>1. Handled(a)
  BY DEF Handled, Inv, TypeOK
<1>2. Bounded
  BY DEF Bounded, counts, Inv, TypeOK
<1> QED
  BY <1>1, <1>2, HandledInv

LEMMA ActivityTyped == Inv => activity \in Activity /\ (Idle \/ activity.life = "running")
  BY DEF Inv, TypeOK, Activity

LEMMA DeliversInv == Inv /\ Delivers => Inv'
<1> SUFFICES ASSUME Inv, Delivers PROVE Inv'
  OBVIOUS
<1>1. activity \in Activity /\ activity.life = "running"
  BY ActivityTyped DEF Delivers, onActivityResult, onRequestPermissionsResult, Idle
<1>2. CASE onActivityResult
  BY <1>1, <1>2, ActivityResultProper, InPlace DEF onActivityResult
<1>3. CASE onRequestPermissionsResult
  BY <1>1, <1>3, ResultProper, InPlace DEF onRequestPermissionsResult
<1> QED
  BY <1>2, <1>3 DEF Delivers

LEMMA WithoutDialog ==
  ASSUME Inv
  PROVE  LET a == [activity EXCEPT !.rationale = FALSE]
         IN  a \in Activity /\ a.pending = activity.pending /\ a.screens = activity.screens
               /\ a.life = activity.life /\ Proper(a, a)
  BY ActivityTyped DEF Activity, Proper

LEMMA DialogInv == Inv /\ (RationaleOk \/ RationaleCancel) => Inv'
<1> SUFFICES ASSUME Inv, RationaleOk \/ RationaleCancel PROVE Inv'
  OBVIOUS
<1> DEFINE a == [activity EXCEPT !.rationale = FALSE]
<1>1. a \in Activity /\ a.pending = activity.pending /\ a.screens = activity.screens
      /\ a.life = activity.life /\ Proper(a, a)
  BY WithoutDialog
<1>2. Proper(a, activity') /\ a.life = "running"
  BY <1>1, CheckProper, ActivityTyped DEF RationaleOk, RationaleCancel, Idle
<1>3. owed' = "nothing" /\ UNCHANGED <<system, interrupted, changed, counts>>
  BY DEF RationaleOk, RationaleCancel
<1> HIDE DEF a
<1> QED
  BY <1>1, <1>2, <1>3, InPlace

LEMMA LeaveInv == Inv /\ Leave => Inv'
<1> SUFFICES ASSUME Inv, Leave PROVE Inv'
  OBVIOUS
<1>1. activity' \in Activity /\ activity'.pending = {} /\ activity'.screens = 0 /\ ~activity'.rationale
  BY DEF Leave, Fresh, Activity
<1>2. Idle'
  BY <1>1 DEF Leave, Idle
<1> QED
  BY <1>1, <1>2 DEF Leave, Inv, TypeOK, Access, Activity, system, counts

LEMMA CloseScreenInv == Inv /\ CloseScreen => Inv'
<1> SUFFICES ASSUME Inv, CloseScreen PROVE Inv'
  OBVIOUS
<1>1. activity.screens \in Nat \ {0} /\ activity.screens - 1 \in Nat
  BY ActivityTyped DEF CloseScreen, Activity
<1>2. activity' = [activity EXCEPT !.screens = activity.screens - 1]
  BY DEF CloseScreen
<1>3. activity' \in Activity /\ activity'.pending = activity.pending
      /\ activity'.screens = activity.screens - 1 /\ activity'.life = activity.life
  BY <1>1, <1>2, ActivityTyped DEF Activity
<1>4. activity.life = "running"
  BY <1>1, ActivityTyped DEF CloseScreen, Idle
<1>5. refused' \subseteq Perms
  BY DEF CloseScreen, Inv, TypeOK, Perms
<1>6. TypeOK'
  <2>1. Idle' \/ activity'.life = "running"
    BY <1>3, <1>4
  <2> QED
    BY <1>3, <1>5, <2>1 DEF CloseScreen, Inv, TypeOK, counts, Activity
<1>7. Access'
  BY <1>1, <1>3 DEF CloseScreen, Inv, Access, NeedsAllFiles, Scoped
<1> QED
  BY <1>6, <1>7 DEF Inv

\* What a permission can become when the user answers a request.
Asking == {p \in activity.pending : Askable(p)}

\* An answer that CloseRequest allows.
Answer(grant, refuse, final) ==
  /\ activity.pending # {} /\ activity.screens = 0 /\ owed = "nothing"
  /\ grant \subseteq Asking /\ refuse \subseteq Asking \ grant
  /\ final \subseteq refuse
  /\ AnswerRequest(Asking, grant, refuse, final)

LEMMA CloseAnswers ==
  ASSUME CloseRequest
  PROVE  \E grant, refuse, final : Answer(grant, refuse, final)
<1> DEFINE again == {p \in Asking : denials[p] = 1}
<1>1. PICK grant \in SUBSET Asking :
        \E refuse \in IF Scoped THEN SUBSET (Asking \ grant) ELSE {Asking \ grant} :
          \E final \in IF Scoped THEN {refuse \intersect again} ELSE SUBSET (refuse \intersect again) :
            AnswerRequest(Asking, grant, refuse, final)
  BY DEF CloseRequest, Asking
<1>2. PICK refuse \in IF Scoped THEN SUBSET (Asking \ grant) ELSE {Asking \ grant} :
        \E final \in IF Scoped THEN {refuse \intersect again} ELSE SUBSET (refuse \intersect again) :
          AnswerRequest(Asking, grant, refuse, final)
  BY <1>1
<1>3. refuse \subseteq Asking \ grant
  BY <1>2
<1>4. PICK final : final \subseteq refuse /\ AnswerRequest(Asking, grant, refuse, final)
  BY <1>2
<1> QED
  BY <1>3, <1>4 DEF CloseRequest, Answer

LEMMA AnswerSteps ==
  ASSUME Inv, NEW grant, NEW refuse, NEW final, Answer(grant, refuse, final)
  PROVE  /\ granted' \subseteq needed \ {Manage, Post}
         /\ notify' \in BOOLEAN
         /\ denials' \in [Perms -> 0..2]
         /\ refused' \subseteq Perms
<1>0. activity.pending \subseteq needed
  BY ActivityTyped DEF Activity
<1>1. Asking \subseteq needed /\ needed \subseteq Perms /\ Manage \notin Asking
  BY <1>0, PermissionAssumption DEF Asking, Askable, Inv, TypeOK, PermissionAssumption
<1>2. granted' \subseteq needed \ {Manage, Post}
  BY <1>1 DEF Answer, AnswerRequest, Inv, TypeOK
<1>3. denials' \in [Perms -> 0..2]
  BY DEF Answer, AnswerRequest, Inv, TypeOK
<1>4. refused' \subseteq Perms
  BY <1>1 DEF Answer, AnswerRequest, Inv, TypeOK
<1>5. notify' \in BOOLEAN
  BY DEF Answer, AnswerRequest
<1> QED
  BY <1>2, <1>3, <1>4, <1>5

LEMMA AnswerInv ==
  ASSUME Inv, NEW grant, NEW refuse, NEW final, Answer(grant, refuse, final)
  PROVE  Inv'
<1>1. activity' = [activity EXCEPT !.pending = {}]
  BY DEF Answer, AnswerRequest
<1>2. activity' \in Activity /\ activity'.pending = {} /\ activity'.screens = 0
      /\ activity'.life = activity.life
  BY <1>1, ActivityTyped DEF Activity, Answer
<1>3. sdk # "L" /\ ~NeedsAllFiles
  BY DEF Answer, Inv, Access
<1>4. interrupted' \in BOOLEAN
  BY DEF Answer, AnswerRequest, Inv, TypeOK
<1>5. activity.life = "running"
  BY ActivityTyped DEF Answer, Idle
<1>6. TypeOK'
  <2>1. Idle' \/ activity'.life = "running"
    BY <1>2, <1>5
  <2>2. owed' = "request" /\ UNCHANGED <<sdk, needed, allFiles, changed, launches, recreations, settings>>
    BY DEF Answer, AnswerRequest, counts
  <2>3. activity' \in Activity' /\ Activity' = Activity
    BY <1>2, <2>2 DEF Activity
  <2> QED
    BY <2>1, <2>2, <2>3, <1>4, AnswerSteps DEF Inv, TypeOK, Activity
<1>7. Access'
  BY <1>2, <1>3 DEF Answer, AnswerRequest, Access, NeedsAllFiles, Scoped
<1> QED
  BY <1>6, <1>7 DEF Inv

LEMMA CloseRequestInv == Inv /\ CloseRequest => Inv'
  BY CloseAnswers, AnswerInv

LEMMA SettingsInv == Inv /\ Settings => Inv'
<1> SUFFICES ASSUME Inv, Settings PROVE Inv'
  OBVIOUS
<1>1. settings' \in 0..MaxSettings
  BY PermissionAssumption DEF Settings, Inv, TypeOK, PermissionAssumption
<1>2. granted' \subseteq needed \ {Manage, Post}
  BY DEF Settings
<1>3. refused' \subseteq Perms
  BY PermissionAssumption DEF Settings, Inv, TypeOK, Perms, PermissionAssumption
<1>4. changed' \in BOOLEAN
  BY DEF Settings
<1>5. TypeOK'
  <2>1. Idle' = Idle
    BY DEF Settings, Idle
  <2> QED
    BY <1>1, <1>2, <1>3, <1>4, <2>1 DEF Settings, Inv, TypeOK
<1>6. ~NeedsAllFiles /\ activity.life = "running" => ~NeedsAllFiles'
  BY DEF Settings, NeedsAllFiles, Scoped
<1>7. activity.pending # {} => activity.life = "running"
  BY ActivityTyped DEF Idle
<1>8. Access'
  BY <1>6, <1>7 DEF Settings, Inv, Access, Scoped
<1> QED
  BY <1>5, <1>8 DEF Inv

LEMMA NextInv == Inv /\ [Next]_vars => Inv'
<1> SUFFICES ASSUME Inv, [Next]_vars PROVE Inv'
  OBVIOUS
<1>1. CASE Next
  BY <1>1, LaunchInv, RecreateInv, LeaveInv, CloseScreenInv, CloseRequestInv,
     DialogInv, DeliversInv, SettingsInv DEF Next, UserAnswers
<1>2. CASE UNCHANGED vars
  <2>1. UNCHANGED <<activity, owed, interrupted, changed, needed, Idle>>
    BY <1>2 DEF vars, system, Idle
  <2>2. UNCHANGED <<sdk, granted, allFiles, notify, denials, refused,
                    launches, recreations, settings>>
    BY <1>2 DEF vars, system, counts
  <2>3. UNCHANGED <<NeedsAllFiles, Scoped>>
    BY <2>1, <2>2 DEF NeedsAllFiles, Scoped
  <2> QED
    BY <2>1, <2>2, <2>3 DEF Inv, TypeOK, Access
<1> QED
  BY <1>1, <1>2

\* Spec keeps the types, and every open request has the access it needs.
THEOREM Invariance == Spec => []Inv
  BY InitInv, NextInv, PTL DEF Spec

\* Every variable keeps its type, and only an activity that runs waits for
\* anything: what ends the activity (finish) leaves no answer to be delivered.
THEOREM TypeCorrect == Spec => []TypeOK
<1>1. Inv => TypeOK
  BY DEF Inv
<1> QED
  BY <1>1, Invariance, PTL

-----------------------------------------------------------------------------
(* onAllPermissionsGranted is called only when everything can be used. *)

LEMMA AllGrantedUsable ==
  ASSUME Inv, AllGranted, NEW p \in needed
  PROVE  Usable(p)
<1>1. CASE sdk = "L"
  BY <1>1 DEF Usable
<1>2. CASE sdk # "L"
  <2>1. ~NeedsAllFiles /\ CheckSelf(p)
    BY <1>2 DEF AllGranted, Assigned
  <2>2. p # Manage
    BY <2>1, PermissionAssumption DEF PermissionAssumption, Storage, CheckSelf
  <2>3. CASE Scoped /\ p \in Storage
    <3>1. hasManageExternalStoragePermission
      BY <2>1, <2>3 DEF hasManageExternalStoragePermission, NeedsAllFiles
    <3> QED
      BY <1>2, <2>3, <3>1 DEF Usable
  <2>4. CASE ~(Scoped /\ p \in Storage)
    BY <1>2, <2>1, <2>2, <2>4 DEF Usable
  <2> QED
    BY <2>3, <2>4
<1> QED
  BY <1>1, <1>2

LEMMA NoneDeniedUsable ==
  ASSUME Inv, Denied = {}, ~NeedsAllFiles, NEW p \in needed
  PROVE  Usable(p) \/ TakenWithWrite(p)
<1>1. CASE CheckSelf(p)
  <2>1. p # Manage
    BY <1>1, PermissionAssumption DEF PermissionAssumption, Storage, CheckSelf
  <2>2. Scoped /\ p \in Storage => hasManageExternalStoragePermission
    BY DEF NeedsAllFiles, hasManageExternalStoragePermission
  <2> QED
    BY <1>1, <2>1, <2>2 DEF Usable
<1>2. CASE ~CheckSelf(p)
  <2>1. ~(p = Post /\ notify)
    BY <1>2, PermissionAssumption DEF CheckSelf, PermissionAssumption, Storage
  <2>2. hasManageExternalStoragePermission /\ p \in Storage
    BY <1>2, <2>1 DEF Denied
  <2>3. CASE p = Manage \/ Scoped
    BY <2>2, <2>3 DEF Usable
  <2>4. CASE p # Manage /\ ~Scoped
    <3>1. Write \in granted
      BY <2>2, <2>4 DEF hasManageExternalStoragePermission
    <3>2. p = Read
      BY <1>2, <2>2, <2>4, <3>1, PermissionAssumption
         DEF Storage, CheckSelf, PermissionAssumption
    <3> QED
      BY <2>4, <3>1, <3>2 DEF TakenWithWrite
  <2> QED
    BY <2>3, <2>4
<1> QED
  BY <1>1, <1>2

\* A handler that counts a call of onAllPermissionsGranted runs when all is
\* granted, or where storage is settled and nothing is denied.
Truthful(a, b) == b.grants > a.grants => AllGranted \/ (Denied = {} /\ ~NeedsAllFiles)

LEMMA ResultTruthful ==
  ASSUME NEW a \in Activity, ~NeedsAllFiles
  PROVE  Truthful(a, resolveRequestPermissionsResult(a))
<1>1. Finished(a).grants = a.grants
  BY DEF Finished, Fresh
<1>2. ifCancelledAndCanRequest(a).grants = a.grants
  BY DEF ifCancelledAndCanRequest, Activity
<1>3. a.grants \in Nat
  BY DEF Activity
<1> QED
  BY <1>1, <1>2, <1>3 DEF resolveRequestPermissionsResult, Truthful, onSomePermissionsPermanentlyDenied

LEMMA CheckTruthful ==
  ASSUME NEW a \in Activity
  PROVE  Truthful(a, checkAndRequestPermissions(a))
<1>0. a.grants \in Nat
  BY DEF Activity
<1>1. CASE AllGranted
  BY <1>1 DEF Truthful
<1>2. CASE ~AllGranted /\ NeedsAllFiles
  <2>1. checkAndRequestPermissions(a).grants = a.grants
    BY <1>2 DEF checkAndRequestPermissions, requestManageExternalStoragePermission, Activity
  <2> QED
    BY <1>0, <2>1 DEF Truthful
<1>3. CASE ~AllGranted /\ ~NeedsAllFiles
  <2>1. checkAndRequestPermissions(a) = requestPermissions(a, Assigned)
    BY <1>3 DEF checkAndRequestPermissions
  <2>2. Truthful(a, resolveRequestPermissionsResult(a))
    BY <1>3, ResultTruthful
  <2>3. ASSUME NEW asked PROVE [a EXCEPT !.pending = asked].grants = a.grants
    BY DEF Activity
  <2> QED
    BY <1>0, <2>1, <2>2, <2>3 DEF requestPermissions, Truthful
<1> QED
  BY <1>1, <1>2, <1>3

LEMMA CreateTruthful ==
  ASSUME NEW a \in Activity
  PROVE  Truthful(a, onCreate(a))
  BY CheckTruthful DEF onCreate, Truthful

LEMMA ActivityResultTruthful ==
  ASSUME NEW a \in Activity
  PROVE  Truthful(a, resolveActivityResult(a))
<1>1. onSomePermissionsPermanentlyDenied(a).grants = a.grants /\ a.grants \in Nat
  BY DEF onSomePermissionsPermanentlyDenied, Finished, Fresh, Activity
<1> QED
  BY <1>1, CheckTruthful DEF resolveActivityResult, Truthful

LEMMA TruthfulUsable ==
  ASSUME Inv, NEW a, NEW b, Truthful(a, b), b.grants > a.grants
  PROVE  \A p \in needed : Usable(p) \/ TakenWithWrite(p)
  BY AllGrantedUsable, NoneDeniedUsable DEF Truthful

LEMMA SameInstance ==
  ASSUME Inv, UNCHANGED <<launches, recreations>>, Tells
  PROVE  activity'.grants > activity.grants
  BY DEF Tells, NewInstance

LEMMA TellsTruth ==
  ASSUME Inv, [Next]_vars, Tells
  PROVE  \A p \in needed : Usable(p) \/ TakenWithWrite(p)
<1>0. activity \in Activity /\ activity.grants \in Nat
  BY ActivityTyped DEF Activity
<1>1. CASE Launch
  <2>1. activity' = onCreate(Fresh) /\ Fresh.grants = 0
    BY <1>1 DEF Launch, Fresh
  <2>2. NewInstance
    BY <1>1 DEF Launch, NewInstance, Inv, TypeOK
  <2>3. activity'.grants > Fresh.grants
    BY <2>1, <2>2 DEF Tells
  <2> QED
    BY <2>1, <2>3, CreateTruthful, FreshActivity, TruthfulUsable
<1>2. CASE Recreate
  <2> DEFINE a == [activity EXCEPT !.grants = 0, !.rationale = FALSE]
  <2>1. activity' = onCreate(a) /\ a \in Activity /\ a.grants = 0
    BY <1>0, <1>2 DEF Recreate, Activity
  <2>2. NewInstance
    BY <1>2 DEF Recreate, NewInstance, Inv, TypeOK
  <2>3. activity'.grants > a.grants
    BY <2>1, <2>2 DEF Tells
  <2> HIDE DEF a
  <2> QED
    BY <2>1, <2>3, CreateTruthful, TruthfulUsable
<1>3. CASE Delivers
  <2>1. activity'.grants > activity.grants
    BY <1>3, SameInstance DEF Delivers, onActivityResult, onRequestPermissionsResult, counts
  <2>2. CASE onActivityResult
    BY <1>0, <2>1, <2>2, ActivityResultTruthful, TruthfulUsable DEF onActivityResult
  <2>3. CASE onRequestPermissionsResult
    <3>1. ~NeedsAllFiles
      BY <2>3 DEF onRequestPermissionsResult, Inv, Access
    <3> QED
      BY <1>0, <2>1, <2>3, <3>1, ResultTruthful, TruthfulUsable DEF onRequestPermissionsResult
  <2> QED
    BY <1>3, <2>2, <2>3 DEF Delivers
<1>4. CASE RationaleOk \/ RationaleCancel
  <2> DEFINE a == [activity EXCEPT !.rationale = FALSE]
  <2>1. a \in Activity /\ a.grants = activity.grants
    BY <1>0 DEF Activity
  <2>2. activity' \in {a, checkAndRequestPermissions(a)}
    BY <1>4 DEF RationaleOk, RationaleCancel
  <2>3. activity'.grants > a.grants
    BY <1>4, <2>1, SameInstance DEF RationaleOk, RationaleCancel, counts
  <2> HIDE DEF a
  <2>4. activity' = checkAndRequestPermissions(a)
    BY <1>0, <2>1, <2>2, <2>3
  <2> QED
    BY <2>1, <2>3, <2>4, CheckTruthful, TruthfulUsable
<1>5. CASE Leave \/ CloseScreen \/ CloseRequest \/ Settings \/ UNCHANGED vars
  <2>1. activity'.grants \in {0, activity.grants}
    BY <1>0, <1>5 DEF Leave, CloseScreen, CloseRequest, AnswerRequest, Settings, vars, Fresh, Activity
  <2>2. UNCHANGED <<launches, recreations>>
    BY <1>5 DEF Leave, CloseScreen, CloseRequest, AnswerRequest, Settings, vars, counts
  <2> QED
    BY <1>0, <2>1, <2>2, SameInstance
<1> QED
  BY <1>1, <1>2, <1>3, <1>4, <1>5 DEF Next, UserAnswers

\* onAllPermissionsGranted is called only when every declared permission can be
\* used, READ_EXTERNAL_STORAGE excepted that is taken with the other below
\* Android 11, whoever recreates the activity, dismisses dialogs or changes
\* settings meanwhile.
THEOREM GrantedTrue == Spec => GrantedIsTrue
<1>1. Inv /\ [Next]_vars => [Tells => \A p \in needed : Usable(p) \/ TakenWithWrite(p)]_vars
  BY TellsTruth
<1> QED
  BY <1>1, Invariance, PTL DEF Spec, GrantedIsTrue

-----------------------------------------------------------------------------
(* An instance is told one outcome, unless it was interrupted: then it waits
   for one thing at a time, and for nothing once it has been told. *)

\* An activity that waits for nothing and has been told nothing.
Quiet(a) ==
  /\ a \in Activity /\ a.life = "running" /\ a.grants = 0
  /\ a.pending = {} /\ a.screens = 0 /\ ~a.rationale

Waits(a) == a.pending # {} \/ a.screens > 0 \/ a.rationale

\* Told at most once, and waiting for at most one thing, and not for anything
\* after it was told.
Single(b) ==
  /\ b.grants \in {0, 1} /\ b.screens \in {0, 1}
  /\ b.grants = 1 => b.life # "finished" /\ ~Waits(b)
  /\ b.pending # {} => b.screens = 0 /\ ~b.rationale
  /\ b.screens = 1 => ~b.rationale

Alone ==
  ~interrupted =>
    /\ Single(activity)
    /\ owed # "nothing" => activity.grants = 0 /\ ~Waits(activity)

LEMMA QuietSingle == ASSUME NEW a, Quiet(a) PROVE Single(a)
  BY DEF Quiet, Single

LEMMA TellSingle == ASSUME NEW a, Quiet(a) PROVE Single(onAllPermissionsGranted(a))
  BY DEF Quiet, Single, Waits, onAllPermissionsGranted, Activity

LEMMA EndSingle == ASSUME NEW a, Quiet(a) PROVE Single(onSomePermissionsPermanentlyDenied(a))
<1> DEFINE b == Finished(a)
<1>1. b.grants = 0 /\ b.screens = 0 /\ b.pending = {} /\ ~b.rationale
  BY DEF Quiet, Finished, Fresh
<1> QED
  BY <1>1 DEF Single, onSomePermissionsPermanentlyDenied

LEMMA ResultSingle == ASSUME NEW a, Quiet(a) PROVE Single(resolveRequestPermissionsResult(a))
<1>1. Single(ifCancelledAndCanRequest(a))
  BY DEF Quiet, Single, Waits, ifCancelledAndCanRequest, Activity
<1> QED
  BY <1>1, TellSingle, EndSingle DEF resolveRequestPermissionsResult

LEMMA CheckSingle == ASSUME NEW a, Quiet(a) PROVE Single(checkAndRequestPermissions(a))
<1>1. Single(requestManageExternalStoragePermission(a))
  BY DEF Quiet, Single, Waits, requestManageExternalStoragePermission, Activity
<1>2. ASSUME NEW asked \in SUBSET needed PROVE Single([a EXCEPT !.pending = asked])
  BY DEF Quiet, Single, Waits, Activity
<1>3. Assigned \in SUBSET needed /\ Assigned \ {Post} \in SUBSET needed
  BY DEF Assigned
<1>4. Single(requestPermissions(a, Assigned))
  BY <1>2, <1>3, QuietSingle, ResultSingle DEF requestPermissions
<1> QED
  BY <1>1, <1>4, QuietSingle DEF checkAndRequestPermissions

LEMMA AloneStep ==
  ASSUME NEW b, activity' = b, Single(b), owed' = "nothing"
  PROVE  Alone'
  BY DEF Alone, Single, Waits

LEMMA FreshQuiet == Quiet(Fresh)
  BY DEF Quiet, Fresh, Activity

LEMMA AloneNext == Inv /\ Alone /\ [Next]_vars => Alone'
<1> SUFFICES ASSUME Inv, Alone, [Next]_vars PROVE Alone'
  OBVIOUS
<1>0. activity \in Activity /\ (Idle \/ activity.life = "running")
  BY ActivityTyped
<1>1. CASE Launch
  <2>1. Single(activity')
    BY <1>1, FreshQuiet, TellSingle, CheckSingle DEF Launch, onCreate
  <2>2. owed' = "nothing"
    BY <1>1, <1>0 DEF Launch, Idle
  <2> QED
    BY <2>1, <2>2, AloneStep
<1>2. CASE Recreate
  <2> SUFFICES ASSUME ~interrupted' PROVE Alone'
    BY DEF Alone
  <2> DEFINE a == [activity EXCEPT !.grants = 0, !.rationale = FALSE]
  <2>1. activity.pending = {} /\ owed = "nothing" /\ activity.screens = 0 /\ activity.life = "running"
    BY <1>2 DEF Recreate
  <2>2. Quiet(a)
    BY <1>0, <2>1 DEF Quiet, Activity
  <2>3. activity' = onCreate(a) /\ owed' = "nothing"
    BY <1>2, <2>1 DEF Recreate
  <2> HIDE DEF a
  <2>4. Single(activity')
    BY <2>2, <2>3, TellSingle, CheckSingle DEF onCreate
  <2> QED
    BY <2>3, <2>4, AloneStep
<1>3. CASE Delivers
  <2> SUFFICES ASSUME ~interrupted' PROVE Alone'
    BY DEF Alone
  <2>1. ~interrupted /\ owed # "nothing" /\ owed' = "nothing"
    BY <1>3 DEF Delivers, onActivityResult, onRequestPermissionsResult
  <2>2. Quiet(activity)
    BY <1>0, <2>1 DEF Alone, Waits, Quiet, Idle, Activity
  <2>3. Single(activity')
    BY <1>3, <2>2, ResultSingle, CheckSingle, EndSingle
       DEF Delivers, onActivityResult, onRequestPermissionsResult, resolveActivityResult
  <2> QED
    BY <2>1, <2>3, AloneStep
<1>4. CASE RationaleOk \/ RationaleCancel
  <2> SUFFICES ASSUME ~interrupted' PROVE Alone'
    BY DEF Alone
  <2> DEFINE a == [activity EXCEPT !.rationale = FALSE]
  <2>1. ~interrupted /\ activity.rationale /\ activity.pending = {} /\ activity.screens = 0
        /\ owed = "nothing" /\ owed' = "nothing"
    BY <1>4 DEF RationaleOk, RationaleCancel
  <2>2. activity.grants = 0 /\ activity.life = "running"
    BY <1>0, <2>1 DEF Alone, Single, Waits, Idle
  <2>3. Quiet(a)
    BY <1>0, <2>1, <2>2 DEF Quiet, Activity
  <2>4. activity' \in {a, checkAndRequestPermissions(a)}
    BY <1>4 DEF RationaleOk, RationaleCancel
  <2> HIDE DEF a
  <2>5. Single(activity')
    BY <2>3, <2>4, QuietSingle, CheckSingle
  <2> QED
    BY <2>1, <2>5, AloneStep
<1>5. CASE Leave
  <2>1. Single([Fresh EXCEPT !.life = "none"])
    BY DEF Fresh, Single, Waits
  <2> QED
    BY <1>5, <2>1, AloneStep DEF Leave
<1>6. CASE CloseScreen
  <2> SUFFICES ASSUME ~interrupted' PROVE Alone'
    BY DEF Alone
  <2>1. Single(activity) /\ activity.screens > 0
    BY <1>6 DEF CloseScreen, Alone
  <2>2. activity.screens = 1 /\ activity.pending = {} /\ ~activity.rationale /\ activity.grants = 0
    BY <2>1 DEF Single, Waits
  <2>3. activity' = [activity EXCEPT !.screens = 0]
    BY <1>6, <2>2 DEF CloseScreen
  <2>4. activity'.screens = 0 /\ activity'.pending = {} /\ ~activity'.rationale /\ activity'.grants = 0
    BY <1>0, <2>2, <2>3 DEF Activity
  <2> QED
    BY <2>4 DEF Alone, Single, Waits
<1>7. CASE CloseRequest
  <2> SUFFICES ASSUME ~interrupted' PROVE Alone'
    BY DEF Alone
  <2>1. activity.pending # {} /\ activity' = [activity EXCEPT !.pending = {}] /\ ~interrupted
    BY <1>7 DEF CloseRequest, AnswerRequest
  <2>2. activity.screens = 0 /\ ~activity.rationale /\ activity.grants = 0
    BY <2>1 DEF Alone, Single, Waits
  <2>3. activity'.screens = 0 /\ activity'.pending = {} /\ ~activity'.rationale /\ activity'.grants = 0
    BY <1>0, <2>1, <2>2 DEF Activity
  <2> QED
    BY <2>3 DEF Alone, Single, Waits
<1>8. CASE Settings \/ UNCHANGED vars
  BY <1>8 DEF Settings, vars, Alone, Single, Waits
<1> QED
  BY <1>1, <1>2, <1>3, <1>4, <1>5, <1>6, <1>7, <1>8 DEF Next, UserAnswers

LEMMA AloneOne == Alone => OneOutcome
  BY DEF Alone, Single, OneOutcome

\* An instance that is not interrupted is told at most once that all
\* permissions are granted, and is not ended afterwards for their denial.
THEOREM OutcomeOnce == Spec => []OneOutcome
<1>1. Init => Alone
  BY DEF Init, Fresh, Alone, Single, Waits
<1> QED
  BY <1>1, Invariance, AloneNext, AloneOne, PTL DEF Spec

-----------------------------------------------------------------------------
(* The activity ends for a permission that the user has refused. *)

\* The request that is open asks for everything that is missing.
Covers(b) ==
  b.pending # {} =>
    \A p \in needed : CheckSelf(p) \/ p \in b.pending \/ (p = Post /\ sdk # "T")

\* What the user was not asked for is granted, and what he was asked for and is
\* not granted he has refused.
Asked ==
  /\ \A p \in Perms : denials[p] # 0 => p \in refused
  /\ sdk # "T" /\ ~notify => Post \in refused
  /\ Covers(activity)
  /\ owed = "request" /\ ~interrupted =>
       \A p \in needed : CheckSelf(p) \/ p \in refused \/ p = Manage
  /\ owed = "screen" => allFiles \/ Storage \subseteq refused

LEMMA ResultCovers ==
  ASSUME NEW a \in Activity, Covers(a)
  PROVE  Covers(resolveRequestPermissionsResult(a))
<1>1. Covers(onAllPermissionsGranted(a))
  BY DEF Covers, onAllPermissionsGranted, Activity
<1>2. Covers(ifCancelledAndCanRequest(a))
  BY DEF Covers, ifCancelledAndCanRequest, Activity
<1>3. Covers(onSomePermissionsPermanentlyDenied(a))
  <2>1. Finished(a).pending = {}
    BY DEF Finished, Fresh
  <2> QED
    BY <2>1 DEF Covers, onSomePermissionsPermanentlyDenied
<1> QED
  BY <1>1, <1>2, <1>3 DEF resolveRequestPermissionsResult

LEMMA CheckCovers ==
  ASSUME NEW a \in Activity, Covers(a)
  PROVE  Covers(checkAndRequestPermissions(a))
<1>1. Covers(requestManageExternalStoragePermission(a))
  BY DEF Covers, requestManageExternalStoragePermission, Activity
<1>2. ASSUME NEW asked, asked = IF sdk = "T" THEN Assigned ELSE Assigned \ {Post}
      PROVE  Covers([a EXCEPT !.pending = asked])
  <2>1. [a EXCEPT !.pending = asked].pending = asked
    BY DEF Activity
  <2> QED
    BY <1>2, <2>1 DEF Covers, Assigned
<1>3. Covers(requestPermissions(a, Assigned))
  BY <1>2, ResultCovers DEF requestPermissions
<1> QED
  BY <1>1, <1>3 DEF checkAndRequestPermissions

LEMMA CreateCovers ==
  ASSUME NEW a \in Activity, Covers(a)
  PROVE  Covers(onCreate(a))
<1>1. Covers(onAllPermissionsGranted(a))
  BY DEF Covers, onAllPermissionsGranted, Activity
<1> QED
  BY <1>1, CheckCovers DEF onCreate

LEMMA ActivityResultCovers ==
  ASSUME NEW a \in Activity, Covers(a)
  PROVE  Covers(resolveActivityResult(a))
<1>1. Finished(a).pending = {}
  BY DEF Finished, Fresh
<1>2. Covers(Finished(a))
  BY <1>1 DEF Covers
<1> QED
  BY <1>2, CheckCovers DEF resolveActivityResult, onSomePermissionsPermanentlyDenied

\* A step that changes nothing of the system keeps Asked if the activity it
\* leaves is covered and it makes no answer due.
LEMMA AskedStep ==
  ASSUME Asked, UNCHANGED system, Covers(activity'),
         owed' = "nothing" \/ (owed' = owed /\ (interrupted => interrupted'))
  PROVE  Asked'
<1>1. Covers(activity)' /\ UNCHANGED <<refused, denials, sdk, notify, needed, allFiles>>
  BY DEF system, Covers, CheckSelf
<1>2. \A p : CheckSelf(p)' = CheckSelf(p)
  BY DEF system, CheckSelf
<1> QED
  BY <1>1, <1>2 DEF Asked

LEMMA AskedCloseScreen == Inv /\ Asked /\ CloseScreen => Asked'
<1> SUFFICES ASSUME Inv, Asked, CloseScreen PROVE Asked'
  OBVIOUS
<1>1. activity'.pending = activity.pending
  BY ActivityTyped DEF CloseScreen, Activity
<1>2. \A p : CheckSelf(p)' = CheckSelf(p)
  BY DEF CloseScreen, CheckSelf
<1>3. Covers(activity)'
  BY <1>1, <1>2 DEF Covers, CloseScreen, Asked
<1>4. UNCHANGED <<denials, sdk, notify>> /\ refused \subseteq refused' /\ owed' = "screen"
      /\ (allFiles' \/ Storage \subseteq refused')
  BY DEF CloseScreen
<1> QED
  BY <1>3, <1>4 DEF Asked

LEMMA AskedAnswer ==
  ASSUME Inv, Asked, NEW grant, NEW refuse, NEW final, Answer(grant, refuse, final)
  PROVE  Asked'
<1>0. activity.pending \subseteq Perms /\ activity.pending # {}
  BY ActivityTyped, PermissionAssumption
     DEF Activity, Inv, TypeOK, PermissionAssumption, Answer
<1>1. activity'.pending = {}
  BY ActivityTyped DEF Answer, AnswerRequest, Activity
<1>2. Covers(activity)'
  BY <1>1 DEF Covers
<1>3. refused' = refused \union refuse /\ UNCHANGED <<sdk, needed>> /\ owed' = "request"
  BY DEF Answer, AnswerRequest
<1>4. \A p \in Perms : denials'[p] # 0 => p \in refused'
  <2> SUFFICES ASSUME NEW p \in Perms, denials'[p] # 0 PROVE p \in refused'
    OBVIOUS
  <2>1. p \in final \/ p \in refuse \/ denials'[p] = denials[p]
    BY DEF Answer, AnswerRequest
  <2>2. denials[p] # 0 \/ p \in refuse
    BY <2>1 DEF Answer
  <2> QED
    BY <2>2, <1>3 DEF Asked
<1>5. sdk' # "T" /\ ~notify' => Post \in refused'
  BY <1>3 DEF Answer, AnswerRequest, Asked
<1>6. ~interrupted' => \A p \in needed : CheckSelf(p)' \/ p \in refused' \/ p = Manage
  <2> SUFFICES ASSUME ~interrupted', NEW p \in needed, p # Manage, ~CheckSelf(p)'
               PROVE  p \in refused'
    OBVIOUS
  <2>1. grant \union refuse = Asking
    BY DEF Answer, AnswerRequest
  <2>2. ~CheckSelf(p) /\ p \notin grant
    <3>1. granted' = granted \union (grant \ {Post}) /\ notify' = (notify \/ Post \in grant)
      BY DEF Answer, AnswerRequest
    <3>2. CheckSelf(p) => CheckSelf(p)'
      BY <3>1 DEF CheckSelf
    <3>3. p \in grant => CheckSelf(p)'
      BY <3>1 DEF CheckSelf
    <3> QED
      BY <3>2, <3>3
  <2>3. CASE p = Post /\ sdk # "T"
    BY <2>2, <2>3, <1>3, PermissionAssumption DEF CheckSelf, Asked, PermissionAssumption
  <2>4. CASE p \in activity.pending /\ ~(p = Post /\ sdk # "T")
    <3>1. p \in Perms
      BY <1>0, <2>4
    <3>2. CASE denials[p] < 2
      <4>1. Askable(p)
        BY <2>2, <2>4, <3>2 DEF Askable
      <4> QED
        BY <2>1, <2>2, <2>4, <4>1, <1>3 DEF Asking
    <3>3. CASE ~(denials[p] < 2)
      <4>1. denials[p] # 0
        BY <3>3
      <4> QED
        BY <3>1, <4>1, <1>3 DEF Asked
    <3> QED
      BY <3>2, <3>3
  <2> QED
    BY <2>2, <2>3, <2>4, <1>0 DEF Asked, Covers
<1> QED
  BY <1>2, <1>3, <1>4, <1>5, <1>6 DEF Asked

LEMMA AskedSettings == Inv /\ Asked /\ Settings => Asked'
<1> SUFFICES ASSUME Inv, Asked, Settings PROVE Asked'
  OBVIOUS
<1>1. owed' = "nothing" /\ UNCHANGED <<sdk, needed, denials, activity>> /\ refused \subseteq refused'
  BY DEF Settings
<1>2. ~notify' => ~notify \/ Post \in refused'
  BY DEF Settings
<1>3. activity.pending # {} => activity.life = "running"
  BY ActivityTyped DEF Idle
<1>4. activity.life = "running" => \A p : CheckSelf(p) => CheckSelf(p)'
  BY DEF Settings, CheckSelf
<1>5. Covers(activity)'
  BY <1>1, <1>3, <1>4 DEF Asked, Covers
<1> QED
  BY <1>1, <1>2, <1>5 DEF Asked

LEMMA AskedNext == Inv /\ Asked /\ [Next]_vars => Asked'
<1> SUFFICES ASSUME Inv, Asked, [Next]_vars PROVE Asked'
  OBVIOUS
<1>0. activity \in Activity /\ Covers(activity) /\ (Idle \/ activity.life = "running")
  BY ActivityTyped DEF Asked
<1>1. CASE Launch
  <2>1. Covers(Fresh)
    BY FreshActivity DEF Covers
  <2>2. Covers(activity')
    BY <1>1, <2>1, FreshActivity, CreateCovers DEF Launch
  <2>3. owed' = "nothing" /\ UNCHANGED system
    BY <1>0, <1>1 DEF Launch, Idle
  <2> QED
    BY <2>2, <2>3, AskedStep
<1>2. CASE Recreate
  <2> DEFINE a == [activity EXCEPT !.grants = 0, !.rationale = FALSE]
  <2>1. a \in Activity /\ a.pending = activity.pending
    BY <1>0 DEF Activity
  <2>2. Covers(a)
    BY <1>0, <2>1 DEF Covers
  <2>3. activity' = onCreate(a)
    BY <1>2 DEF Recreate
  <2> HIDE DEF a
  <2>4. Covers(activity')
    BY <2>1, <2>2, <2>3, CreateCovers
  <2>5. UNCHANGED system /\ (owed' = "nothing" \/ (owed' = owed /\ (interrupted => interrupted')))
    BY <1>2 DEF Recreate
  <2> QED
    BY <2>4, <2>5, AskedStep
<1>3. CASE Delivers
  <2>1. Covers(activity')
    BY <1>0, <1>3, ActivityResultCovers, ResultCovers
       DEF Delivers, onActivityResult, onRequestPermissionsResult
  <2>2. owed' = "nothing" /\ UNCHANGED system
    BY <1>3 DEF Delivers, onActivityResult, onRequestPermissionsResult
  <2> QED
    BY <2>1, <2>2, AskedStep
<1>4. CASE RationaleOk \/ RationaleCancel
  <2> DEFINE a == [activity EXCEPT !.rationale = FALSE]
  <2>1. a \in Activity /\ a.pending = activity.pending
    BY <1>0 DEF Activity
  <2>2. Covers(a)
    BY <1>0, <2>1 DEF Covers
  <2>3. activity' \in {a, checkAndRequestPermissions(a)} /\ owed' = "nothing" /\ UNCHANGED system
    BY <1>4 DEF RationaleOk, RationaleCancel
  <2> HIDE DEF a
  <2>4. Covers(activity')
    BY <2>1, <2>2, <2>3, CheckCovers
  <2> QED
    BY <2>3, <2>4, AskedStep
<1>5. CASE Leave
  <2>1. [Fresh EXCEPT !.life = "none"].pending = {}
    BY DEF Fresh
  <2>2. Covers(activity')
    BY <1>5, <2>1 DEF Leave, Covers
  <2> QED
    BY <1>5, <2>2, AskedStep DEF Leave
<1>6. CASE CloseRequest
  <2>1. PICK grant, refuse, final : Answer(grant, refuse, final)
    BY <1>6, CloseAnswers
  <2> QED
    BY <2>1, AskedAnswer
<1>7. CASE UNCHANGED vars
  BY <1>0, <1>7, AskedStep DEF vars
<1> QED
  BY <1>1, <1>2, <1>3, <1>4, <1>5, <1>6, <1>7, AskedCloseScreen, AskedSettings
     DEF Next, UserAnswers

\* Without a request that is open or answered, checking again ends nothing.
LEMMA CheckGoesOn ==
  ASSUME NEW a \in Activity, a.pending = {}, owed # "request", a.life = "running"
  PROVE  /\ checkAndRequestPermissions(a).life = "running"
         /\ onCreate(a).life = "running"
<1>1. onAllPermissionsGranted(a).life = "running"
  BY DEF onAllPermissionsGranted, Activity
<1>2. requestManageExternalStoragePermission(a).life = "running"
  BY DEF requestManageExternalStoragePermission, Activity
<1>3. \A asked : [a EXCEPT !.pending = asked].life = "running"
  BY DEF Activity
<1>4. requestPermissions(a, Assigned).life = "running"
  BY <1>3 DEF requestPermissions
<1>5. checkAndRequestPermissions(a).life = "running"
  BY <1>2, <1>4 DEF checkAndRequestPermissions
<1> QED
  BY <1>1, <1>5 DEF onCreate

LEMMA SomeRefused ==
  ASSUME Inv, Asked, ~interrupted, ~NeverAsked, Denied # {}, owed = "request"
  PROVE  refused \intersect Missing # {}
<1>0. /\ sdk # "L" /\ ~NeedsAllFiles
      /\ \A p \in needed : CheckSelf(p) \/ p \in refused \/ p = Manage
  BY DEF Inv, Access, Asked
<1>1. \A p \in Denied : p \in needed /\ ~CheckSelf(p)
  BY DEF Denied
<1>2. PICK p \in Denied : TRUE
  OBVIOUS
<1>3. p \in Storage => ~hasManageExternalStoragePermission
  BY <1>2 DEF Denied
<1>4. CASE p # Manage
  <2>1. ~Usable(p)
    BY <1>0, <1>1, <1>2, <1>3, <1>4 DEF Usable
  <2> QED
    BY <1>0, <1>1, <1>2, <1>4, <2>1 DEF Missing
<1>5. CASE p = Manage
  <2>1. ~hasManageExternalStoragePermission /\ Manage \in needed
    BY <1>1, <1>2, <1>3, <1>5 DEF Storage
  <2>2. ~Scoped /\ Write \in needed /\ Write \notin granted
    BY <2>1, <1>0 DEF hasManageExternalStoragePermission, NeedsAllFiles, NeverAsked, Storage
  <2>3. Write # Manage /\ ~CheckSelf(Write)
    BY <2>2, PermissionAssumption DEF CheckSelf, PermissionAssumption, Storage
  <2>4. ~Usable(Write) /\ Write \in refused
    BY <1>0, <2>2, <2>3 DEF Usable
  <2> QED
    BY <2>2, <2>4 DEF Missing
<1> QED
  BY <1>4, <1>5

LEMMA ScreenRefused ==
  ASSUME Inv, Asked, owed = "screen", ~hasManageExternalStoragePermission
  PROVE  refused \intersect Missing # {}
<1>1. Scoped /\ sdk # "L"
  BY DEF Inv, Access, Scoped
<1>2. PICK p \in needed : p \in Storage
  BY DEF Inv, Access
<1>3. p \in refused
  BY <1>1, <1>2 DEF Asked, hasManageExternalStoragePermission
<1>4. ~Usable(p)
  BY <1>1, <1>2 DEF Usable
<1> QED
  BY <1>2, <1>3, <1>4 DEF Missing

LEMMA EndsTruth ==
  ASSUME Inv, Alone, Asked, ~NeverAsked, [Next]_vars, Ends, ~interrupted'
  PROVE  refused \intersect Missing # {}
<1>0. activity \in Activity /\ activity.life = "running" /\ activity'.life = "finished"
  BY ActivityTyped DEF Ends
<1>1. CASE Launch
  BY <1>0, <1>1 DEF Launch
<1>2. CASE Recreate
  <2> DEFINE a == [activity EXCEPT !.grants = 0, !.rationale = FALSE]
  <2>1. a \in Activity /\ a.pending = {} /\ a.life = "running" /\ owed = "nothing"
    BY <1>0, <1>2 DEF Recreate, Activity
  <2>2. activity' = onCreate(a)
    BY <1>2 DEF Recreate
  <2> HIDE DEF a
  <2> QED
    BY <1>0, <2>1, <2>2, CheckGoesOn
<1>3. CASE onActivityResult
  <2>1. owed = "screen" /\ ~interrupted
    BY <1>3 DEF onActivityResult
  <2>2. activity.pending = {}
    BY <2>1 DEF Alone, Waits
  <2>3. ~hasManageExternalStoragePermission
    BY <1>0, <1>3, <2>2, CheckGoesOn DEF onActivityResult, resolveActivityResult
  <2> QED
    BY <2>1, <2>3, ScreenRefused
<1>4. CASE onRequestPermissionsResult
  <2>1. owed = "request" /\ ~interrupted
    BY <1>4 DEF onRequestPermissionsResult
  <2>2. onAllPermissionsGranted(activity).life = "running"
    BY <1>0 DEF onAllPermissionsGranted, Activity
  <2>3. Denied # {}
    BY <1>0, <1>4, <2>2 DEF onRequestPermissionsResult, resolveRequestPermissionsResult
  <2> QED
    BY <2>1, <2>3, SomeRefused
<1>5. CASE RationaleOk \/ RationaleCancel
  <2> DEFINE a == [activity EXCEPT !.rationale = FALSE]
  <2>1. a \in Activity /\ a.pending = {} /\ a.life = "running" /\ owed = "nothing"
    BY <1>0, <1>5 DEF RationaleOk, RationaleCancel, Activity
  <2>2. activity' \in {a, checkAndRequestPermissions(a)}
    BY <1>5 DEF RationaleOk, RationaleCancel
  <2> HIDE DEF a
  <2> QED
    BY <1>0, <2>1, <2>2, CheckGoesOn
<1>6. CASE Leave
  BY <1>0, <1>6 DEF Leave, Fresh
<1>7. CASE CloseScreen \/ CloseRequest \/ Settings \/ UNCHANGED vars
  BY <1>0, <1>7 DEF CloseScreen, CloseRequest, AnswerRequest, Settings, vars, Activity
<1> QED
  BY <1>1, <1>2, <1>3, <1>4, <1>5, <1>6, <1>7 DEF Next, UserAnswers, Delivers

\* An activity that is not interrupted ends for permanent denial only if the
\* user has refused one of the permissions that are missing, or could not be
\* asked for one that the manifest declares.
THEOREM DenialTrue == Spec => DenialIsTrue
<1>1. Init => Alone /\ Asked
  <2> SUFFICES ASSUME Init PROVE Alone /\ Asked
    OBVIOUS
  <2>1. activity.pending = {} /\ activity.screens = 0 /\ ~activity.rationale /\ activity.grants = 0
    BY DEF Init, Fresh
  <2>2. Alone
    BY <2>1 DEF Init, Alone, Single, Waits
  <2>3. Covers(activity)
    BY <2>1 DEF Covers
  <2>4. Asked
    BY <2>3 DEF Init, Asked
  <2> QED
    BY <2>2, <2>4
<1>2. Inv /\ Alone /\ Asked /\ [Next]_vars
        => [Ends => interrupted' \/ NeverAsked \/ refused \intersect Missing # {}]_vars
  BY EndsTruth
<1> QED
  BY <1>1, <1>2, Invariance, AloneNext, AskedNext, PTL DEF Spec, DenialIsTrue

-----------------------------------------------------------------------------
(* An activity that has nothing open but its dialog has been told that all is
   granted, or found so on the return from the screen for all files, or misses
   a permission: the dialog is up, or nobody can be asked. *)

Settled(b) ==
  b.life = "running" /\ b.pending = {} /\ b.screens = 0
    => b.grants > 0 \/ FoundOnReturn \/ Missing # {}

Told == ~changed /\ owed = "nothing" => Settled(activity)

\* A permission that checkPermissions denies is missing, where any is checked.
LEMMA DeniedMissing ==
  ASSUME sdk # "L", Denied # {}
  PROVE  Missing # {}
<1>1. PICK p \in Denied : TRUE
  OBVIOUS
<1>2. p \in needed /\ ~CheckSelf(p)
  BY <1>1 DEF Denied
<1>3. p \in Storage => ~hasManageExternalStoragePermission
  BY <1>1 DEF Denied
<1> QED
  BY <1>2, <1>3 DEF Missing, Usable, Storage

LEMMA TellSettled ==
  ASSUME NEW a \in Activity
  PROVE  Settled(onAllPermissionsGranted(a))
  BY DEF Activity, Settled, onAllPermissionsGranted

LEMMA EndSettled ==
  ASSUME NEW a
  PROVE  Settled(onSomePermissionsPermanentlyDenied(a))
  BY DEF Settled, onSomePermissionsPermanentlyDenied, Finished, Fresh

\* The answer to a request settles the activity, whatever the user answered.
LEMMA ResultSettled ==
  ASSUME NEW a \in Activity, sdk # "L"
  PROVE  Settled(resolveRequestPermissionsResult(a))
<1>1. CASE Denied = {}
  BY <1>1, TellSettled DEF resolveRequestPermissionsResult
<1>2. CASE Denied # {} /\ ShouldRequest
  BY <1>2, DeniedMissing DEF resolveRequestPermissionsResult, Settled
<1>3. CASE Denied # {} /\ ~ShouldRequest
  BY <1>3, EndSettled DEF resolveRequestPermissionsResult
<1> QED
  BY <1>1, <1>2, <1>3

\* Checking again settles it if it is settled where nothing is left to ask for.
LEMMA CheckSettled ==
  ASSUME NEW a \in Activity, AllGranted => Settled(a)
  PROVE  Settled(checkAndRequestPermissions(a))
<1>1. CASE AllGranted
  BY <1>1 DEF checkAndRequestPermissions
<1>2. CASE ~AllGranted /\ NeedsAllFiles
  BY <1>2 DEF checkAndRequestPermissions, requestManageExternalStoragePermission, Settled, Activity
<1>3. CASE ~AllGranted /\ ~NeedsAllFiles
  <2> DEFINE asked == IF sdk = "T" THEN Assigned ELSE Assigned \ {Post}
  <2>1. sdk # "L" /\ Assigned # {} /\ checkAndRequestPermissions(a) = requestPermissions(a, Assigned)
    BY <1>3 DEF AllGranted, checkAndRequestPermissions
  <2>2. CASE asked = {}
    <3>1. Post \in needed /\ ~CheckSelf(Post) /\ Post \notin Storage /\ Post # Manage
      BY <2>1, <2>2, PermissionAssumption DEF Assigned, PermissionAssumption, Storage
    <3>2. Missing # {}
      BY <2>1, <3>1 DEF Missing, Usable
    <3> QED
      BY <3>2, <2>1, <2>2 DEF requestPermissions, Settled
  <2>3. CASE asked # {} /\ (a.pending # {} \/ owed = "request")
    BY <2>1, <2>3, ResultSettled DEF requestPermissions
  <2>4. CASE asked # {} /\ a.pending = {} /\ owed # "request"
    <3>1. [a EXCEPT !.pending = asked].pending = asked
      BY DEF Activity
    <3>2. Settled([a EXCEPT !.pending = asked])
      BY <2>4, <3>1 DEF Settled
    <3> QED
      BY <2>1, <2>4, <3>2 DEF requestPermissions
  <2> QED
    BY <2>2, <2>3, <2>4
<1> QED
  BY <1>1, <1>2, <1>3

\* A new instance is told at once if nothing is left to ask for.
LEMMA CreateSettled ==
  ASSUME NEW a \in Activity
  PROVE  Settled(onCreate(a))
  BY TellSettled, CheckSettled DEF onCreate

\* After the screen for all files nothing is left to ask for only where the
\* manifest has the old permissions alone, and they are granted.
LEMMA ActivityResultSettled ==
  ASSUME NEW a \in Activity, Scoped, needed \intersect Storage # {}
  PROVE  Settled(resolveActivityResult(a))
<1>1. AllGranted => FoundOnReturn
  <2> SUFFICES ASSUME AllGranted PROVE FoundOnReturn
    OBVIOUS
  <2>1. Assigned = {}
    BY DEF AllGranted, Scoped
  <2>2. Manage \notin needed
    BY <2>1, PermissionAssumption DEF PermissionAssumption, Storage, Assigned, CheckSelf
  <2>3. needed \intersect Storage \subseteq granted
    BY <2>1, <2>2, PermissionAssumption DEF Assigned, CheckSelf, PermissionAssumption
  <2> QED
    BY <2>2, <2>3 DEF FoundOnReturn
<1>2. Settled(checkAndRequestPermissions(a))
  BY <1>1, CheckSettled DEF Settled
<1> QED
  BY <1>2, EndSettled DEF resolveActivityResult

\* What is found and what is missing is a matter of the system alone.
LEMMA SettledStays ==
  ASSUME UNCHANGED system, Settled(activity')
  PROVE  Settled(activity)'
<1>1. FoundOnReturn' = FoundOnReturn
  BY DEF system, FoundOnReturn, Scoped
<1>2. \A p : Usable(p)' = Usable(p)
  BY DEF system, Usable, CheckSelf, hasManageExternalStoragePermission, Scoped
<1>3. Missing' = Missing
  BY <1>2 DEF system, Missing
<1> QED
  BY <1>1, <1>3 DEF Settled

LEMMA ToldNext == Inv /\ Told /\ [Next]_vars => Told'
<1> SUFFICES ASSUME Inv, Told, [Next]_vars PROVE Told'
  OBVIOUS
<1>0. activity \in Activity /\ (Idle \/ activity.life = "running")
  BY ActivityTyped
<1>1. CASE Launch \/ Recreate
  <2>1. PICK a \in Activity : activity' = onCreate(a) /\ UNCHANGED system
    <3>1. Fresh \in Activity /\ [activity EXCEPT !.grants = 0, !.rationale = FALSE] \in Activity
      BY <1>0 DEF Fresh, Activity
    <3> QED
      BY <1>1, <3>1 DEF Launch, Recreate
  <2> QED
    BY <2>1, CreateSettled, SettledStays DEF Told
<1>2. CASE onActivityResult
  <2>1. Scoped /\ needed \intersect Storage # {}
    BY <1>2 DEF onActivityResult, Inv, Access
  <2> QED
    BY <1>0, <1>2, <2>1, ActivityResultSettled, SettledStays DEF onActivityResult, Told
<1>3. CASE onRequestPermissionsResult
  <2>1. sdk # "L"
    BY <1>3 DEF onRequestPermissionsResult, Inv, Access
  <2> QED
    BY <1>0, <1>3, <2>1, ResultSettled, SettledStays DEF onRequestPermissionsResult, Told
<1>4. CASE RationaleOk \/ RationaleCancel
  <2> DEFINE a == [activity EXCEPT !.rationale = FALSE]
  <2> SUFFICES ASSUME ~changed PROVE Told'
    BY <1>4 DEF RationaleOk, RationaleCancel, Told
  <2>1. Settled(activity) /\ UNCHANGED system
    BY <1>4 DEF RationaleOk, RationaleCancel, Told
  <2>2. a \in Activity /\ Settled(a)
    BY <1>0, <2>1 DEF Activity, Settled
  <2>3. activity' \in {a, checkAndRequestPermissions(a)}
    BY <1>4 DEF RationaleOk, RationaleCancel
  <2> HIDE DEF a
  <2> QED
    BY <2>1, <2>2, <2>3, CheckSettled, SettledStays DEF Told
<1>5. CASE Leave
  <2>1. activity'.life # "running"
    BY <1>5 DEF Leave, Fresh
  <2> QED
    BY <2>1 DEF Told, Settled
<1>6. CASE CloseScreen \/ CloseRequest
  BY <1>6 DEF CloseScreen, CloseRequest, AnswerRequest, Told
<1>7. CASE Settings
  <2>1. UNCHANGED activity /\ (activity.life = "running" => changed')
    BY <1>7, <1>0 DEF Settings
  <2> QED
    BY <2>1 DEF Told, Settled
<1>8. CASE UNCHANGED vars
  BY <1>8, SettledStays DEF vars, Told
<1> QED
  BY <1>1, <1>2, <1>3, <1>4, <1>5, <1>6, <1>7, <1>8 DEF Next, UserAnswers, Delivers

\* An activity that waits for nothing and could use every permission has been
\* told so, whatever was recreated, dismissed or turned down on the way, if the
\* permissions were not granted behind its back nor found on the return from
\* the screen for all files.
THEOREM GrantsTold == Spec => []GrantsAreTold
<1>1. Init => Told
  BY DEF Init, Told, Settled, Fresh
<1>2. Inv /\ Told => GrantsAreTold
  BY DEF Told, Settled, Idle, Missing, GrantsAreTold
<1> QED
  BY <1>1, <1>2, ToldNext, Invariance, PTL DEF Spec
=============================================================================
