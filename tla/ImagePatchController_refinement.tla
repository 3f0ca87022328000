------------------- MODULE ImagePatchController_refinement -------------------
(***************************************************************************)
(* The ImagePatch controller implements PatchLifecycle.  What Consistent   *)
(* does not say and an Apply of PatchLifecycle needs: the component that   *)
(* is about to be patched holds no patch of an earlier release itself,     *)
(* which reconcilePatch checked on the copy it is going to write.          *)
(***************************************************************************)
EXTENDS ImagePatchController_proofs

Claimed == {c \in Components : ip[c].exists /\ ip[c].finalizer}
Applied == [c \in Components |-> hcc[ChartOf[c]].managedOn[c]]

\* Past the upgrade check, the patch of the copy is of the release read.
OwnRelease ==
    rec.pc \in {"images", "validate", "apply"} =>
        rec.cur.managedOn[rec.c] \in {NoRelease, rec.on}

Unseen == UNCHANGED <<Claimed, Applied>>

---------------------------------------------------------------------------
(* OwnRelease is an invariant.                                             *)

\* What the upgrade check lets through is of this release.
LEMMA UpgradeCheckOwn ==
    ASSUME NEW r \in Reconcile, UpgradeCheck(r).pc = "images"
    PROVE  /\ UpgradeCheck(r).cur = r.cur /\ UpgradeCheck(r).on = r.on
           /\ UpgradeCheck(r).c = r.c
           /\ r.cur.managedOn[r.c] \in {NoRelease, r.on}
BY DEF UpgradeCheck, Managed, Reconcile

\* A reconcile that takes none of the steps up to the apply.
LEMMA OwnElsewhere ==
    ASSUME rec'.pc \notin {"images", "validate", "apply"}
    PROVE  OwnRelease'
BY DEF OwnRelease

\* After a failing call the worker is at none of these steps.
LEMMA FailureOwn ==
    ASSUME TypeOK, Failed
    PROVE  OwnRelease'
<1>1. CASE rec' = Idle
  BY <1>1, OwnElsewhere DEF Idle
<1>2. CASE rec' = [rec EXCEPT !.pc = "status", !.out = "Error"]
  <2>1. rec \in Reconcile
    BY ObjectsTyped
  <2>2. rec'.pc = "status"
    BY <1>2, <2>1 DEF Reconcile
  <2> QED
    BY <2>2, OwnElsewhere
<1> QED
  BY <1>1, <1>2 DEF Failed, Finish, Outcome

\* No step of the controller or of its environment breaks it.
LEMMA OwnReleaseStep ==
    ASSUME TypeOK, OwnRelease, [Next]_vars
    PROVE  OwnRelease'
<1> USE ObjectsTyped
<1>1. CASE ReadConfig
  <2> DEFINE r == [rec EXCEPT !.cur = hcc[ChartOf[rec.c]]]
  <2>1. r \in Reconcile
    BY DEF Reconcile
  <2>2. rec' = UpgradeCheck(r) \/ rec'.pc \in {"revert", "reverted", "clearMarker"}
    BY <1>1, <2>1 DEF ReadConfig, Reconcile
  <2>3. UpgradeCheck(r).pc \in {"mark", "status", "images"}
    BY <2>1 DEF UpgradeCheck, Reconcile
  <2> HIDE DEF r
  <2> QED
    BY <2>1, <2>2, <2>3, UpgradeCheckOwn, OwnElsewhere DEF OwnRelease
<1>2. CASE ClearMarker
  <2>1. CASE ~CanUpdate(rec.c, rec.obj)
    BY <1>2, <2>1, FailureOwn DEF ClearMarker
  <2>2. CASE CanUpdate(rec.c, rec.obj)
    <3> DEFINE r == [rec EXCEPT !.obj = ip'[rec.c]]
    <3>1. [rec.obj EXCEPT !.revertedGeneration = 0] \in ImagePatch
      BY DEF ImagePatch
    <3>2. UpdateImagePatch(rec.c, [rec.obj EXCEPT !.revertedGeneration = 0]) /\ rec' = UpgradeCheck(r)
      BY <1>2, <2>2 DEF ClearMarker
    <3>3. ip' \in [Components -> ImagePatch]
      BY <3>1, <3>2, ImagePatchWrites
    <3>4. r \in Reconcile
      BY <3>3 DEF Reconcile
    <3>5. UpgradeCheck(r).pc \in {"mark", "status", "images"}
      BY <3>4 DEF UpgradeCheck, Reconcile
    <3> HIDE DEF r
    <3> QED
      BY <3>2, <3>4, <3>5, UpgradeCheckOwn, OwnElsewhere DEF OwnRelease
  <2> QED
    BY <2>1, <2>2
<1>3. CASE ReadImages
  <2>1. rec.pc = "images" /\ rec'.cur = rec.cur /\ rec'.on = rec.on /\ rec'.c = rec.c
    BY <1>3 DEF ReadImages, Reconcile
  <2> QED
    BY <2>1 DEF OwnRelease
<1>4. CASE Validate
  <2>1. rec.pc = "validate" /\ rec'.cur = rec.cur /\ rec'.on = rec.on /\ rec'.c = rec.c
    BY <1>4 DEF Validate, Goto, Outcome, Reconcile
  <2> QED
    BY <2>1 DEF OwnRelease
<1>5. CASE ReadCLIState \/ ReadVersion \/ ReadChart \/ ReportReverted \/ ImagesUnavailable
           \/ Finalize
  <2>1. rec'.pc \in {"status", "version", "chart", "config", "revert", "removeFinalizer"}
    BY <1>5 DEF ReadCLIState, ReadVersion, ReadChart, ReportReverted, ImagesUnavailable,
       Finalize, Goto, Outcome, Reconcile
  <2> QED
    BY <2>1, OwnElsewhere
<1>6. CASE AddFinalizer \/ MarkReverted \/ Revert \/ Apply
  <2>1. Failed \/ rec'.pc \in {"cliState", "revert", "removeFinalizer", "reverted", "status"}
    <3>1. rec \in Reconcile
      OBVIOUS
    <3>2. CASE AddFinalizer
      BY <3>1, <3>2 DEF AddFinalizer, Reconcile
    <3>3. CASE MarkReverted
      BY <3>1, <3>3 DEF MarkReverted, Reconcile
    <3>4. CASE Revert
      BY <3>1, <3>4 DEF Revert, Reconcile
    <3>5. CASE Apply
      BY <3>1, <3>5 DEF Apply, Outcome, Reconcile
    <3> QED
      BY <1>6, <3>2, <3>3, <3>4, <3>5
  <2> QED
    BY <2>1, FailureOwn, OwnElsewhere
<1>7. CASE WriteStatus \/ RemoveFinalizer \/ CallFails \/ Crash
  <2>1. Failed \/ rec' = Idle
    <3>1. CASE WriteStatus
      BY <3>1 DEF WriteStatus, Finish
    <3>2. CASE RemoveFinalizer
      BY <3>2 DEF RemoveFinalizer, Finish
    <3> QED
      BY <1>7, <3>1, <3>2 DEF CallFails, Crash
  <2>2. Idle.pc = "idle"
    BY DEF Idle
  <2> QED
    BY <2>1, <2>2, FailureOwn, OwnElsewhere
<1>8. ASSUME NEW c \in Components, Dequeue(c) \/ SyncCache(c)
      PROVE  OwnRelease'
  <2>1. CASE SyncCache(c)
    BY <2>1 DEF SyncCache, OwnRelease
  <2>2. CASE Dequeue(c)
    <3>1. rec.pc = "idle" /\ (rec' = rec \/ rec'.pc \in {"finalize", "cliState", "addFinalizer"})
      BY <2>2 DEF Dequeue, Idle
    <3> QED
      BY <3>1, OwnElsewhere
  <2> QED
    BY <1>8, <2>1, <2>2
<1>9. CASE EnvironmentStep \/ UNCHANGED vars
  BY <1>9 DEF EnvironmentStep, UpgradeStep, vars, OwnRelease
<1> QED
  BY <1>1, <1>2, <1>3, <1>4, <1>5, <1>6, <1>7, <1>8, <1>9
  DEF Next, ControllerStep, WorkerStep

\* From the upgrade check to the apply, the patch the worker has read of its
\* component, if there is one, is of the release it is working for
\* (imagepatch_controller.go:242-272).
THEOREM OwnReleaseAlways == Spec => []OwnRelease
<1>1. Init => OwnRelease
  <2>1. Idle.pc = "idle"
    BY DEF Idle
  <2> QED
    BY <2>1 DEF Init, OwnRelease
<1>2. TypeOK /\ OwnRelease /\ [Next]_vars => OwnRelease'
  BY OwnReleaseStep
<1> QED
  BY <1>1, <1>2, TypeCorrect, PTL DEF Spec

---------------------------------------------------------------------------
(* Every step maps to a step of PatchLifecycle or to a stutter.            *)

\* What the mapping sees of one component.
LEMMA SeesObjects ==
    ASSUME \A c \in Components :
              /\ (ip'[c].exists /\ ip'[c].finalizer) = (ip[c].exists /\ ip[c].finalizer)
              /\ hcc'[ChartOf[c]].managedOn[c] = hcc[ChartOf[c]].managedOn[c]
    PROVE  Unseen
BY DEF Unseen, Claimed, Applied

\* A step that writes neither kind of object.
LEMMA NoWriteUnseen ==
    ASSUME UNCHANGED <<ip, hcc>>
    PROVE  Unseen
BY SeesObjects

\* One ImagePatch is written, its finalizer is as before.
LEMMA FinalizerKept ==
    ASSUME TypeOK, NEW c \in Components, NEW new,
           ip' = [ip EXCEPT ![c] = new], UNCHANGED hcc,
           (new.exists /\ new.finalizer) = (ip[c].exists /\ ip[c].finalizer)
    PROVE  Unseen
<1>1. \A d \in Components : ip'[d] = IF d = c THEN new ELSE ip[d]
  BY DEF TypeOK, ClusterTypeOK
<1> QED
  BY <1>1, SeesObjects

\* The writes of a reconcile to its ImagePatch, other than the finalizer's.
LEMMA WorkerUpdatesUnseen ==
    ASSUME TypeOK, Consistent, ClearMarker \/ MarkReverted \/ WriteStatus
    PROVE  Unseen
<1> USE ObjectsTyped
<1>1. UNCHANGED hcc /\ rec.pc # "idle"
  BY DEF ClearMarker, MarkReverted, WriteStatus
<1>2. CASE UNCHANGED ip
  BY <1>1, <1>2, NoWriteUnseen
<1>3. CASE ip' # ip
  <2>1. CanUpdate(rec.c, rec.obj)
    BY <1>3 DEF ClearMarker, MarkReverted, WriteStatus
  <2>2. ip[rec.c] = rec.obj
    BY <1>1, <2>1, UpdateOfCopy
  <2>3. PICK new : /\ ip' = [ip EXCEPT ![rec.c] = new]
                   /\ new.exists = ip[rec.c].exists /\ new.finalizer = ip[rec.c].finalizer
    <3>1. ASSUME NEW g, UpdateImagePatch(rec.c, [rec.obj EXCEPT !.revertedGeneration = g])
          PROVE  \E new : /\ ip' = [ip EXCEPT ![rec.c] = new]
                          /\ new.exists = ip[rec.c].exists /\ new.finalizer = ip[rec.c].finalizer
      <4> DEFINE n == [[rec.obj EXCEPT !.revertedGeneration = g]
                          EXCEPT !.rv = ip[rec.c].rv + 1, !.status = ip[rec.c].status]
      <4>1. ip' = [ip EXCEPT ![rec.c] = n]
        BY <3>1 DEF UpdateImagePatch
      <4>2. n.exists = rec.obj.exists /\ n.finalizer = rec.obj.finalizer
        BY DEF ImagePatch
      <4> HIDE DEF n
      <4> QED
        BY <2>2, <4>1, <4>2
    <3>2. ASSUME NEW status, UpdateStatus(rec.c, status)
          PROVE  \E new : /\ ip' = [ip EXCEPT ![rec.c] = new]
                          /\ new.exists = ip[rec.c].exists /\ new.finalizer = ip[rec.c].finalizer
      <4> DEFINE n == [ip[rec.c] EXCEPT !.status = status, !.rv = @ + 1]
      <4>1. ip' = [ip EXCEPT ![rec.c] = n]
        BY <3>2 DEF UpdateStatus
      <4>2. n.exists = ip[rec.c].exists /\ n.finalizer = ip[rec.c].finalizer
        BY DEF ImagePatch
      <4> HIDE DEF n
      <4> QED
        BY <4>1, <4>2
    <3>3. CASE ClearMarker
      BY <2>1, <3>1, <3>3 DEF ClearMarker
    <3>4. CASE MarkReverted
      BY <2>1, <3>1, <3>4 DEF MarkReverted
    <3>5. CASE WriteStatus
      BY <1>3, <3>2, <3>5 DEF WriteStatus
    <3> QED
      BY <3>3, <3>4, <3>5
  <2> QED
    BY <1>1, <2>3, FinalizerKept
<1> QED
  BY <1>2, <1>3

\* Adding the finalizer is Claim.
LEMMA ClaimMapped ==
    ASSUME TypeOK, Consistent, AddFinalizer
    PROVE  Unseen \/ \E c \in Components : Lifecycle!Claim(c)
<1> USE ObjectsTyped
<1>1. UNCHANGED hcc /\ rec.pc = "addFinalizer" /\ rec.obj.exists
  BY DEF AddFinalizer, Consistent, WorkerConsistent
<1>2. CASE ~CanUpdate(rec.c, rec.obj)
  BY <1>1, <1>2, NoWriteUnseen DEF AddFinalizer
<1>3. CASE CanUpdate(rec.c, rec.obj)
  <2> DEFINE new == [[rec.obj EXCEPT !.finalizer = TRUE]
                        EXCEPT !.rv = ip[rec.c].rv + 1, !.status = ip[rec.c].status]
  <2>1. ip' = [ip EXCEPT ![rec.c] = new]
    BY <1>3 DEF AddFinalizer, UpdateImagePatch
  <2>2. new.exists /\ new.finalizer
    BY <1>1 DEF ImagePatch
  <2> HIDE DEF new
  <2>3. \A d \in Components : ip'[d] = IF d = rec.c THEN new ELSE ip[d]
    BY <2>1 DEF TypeOK, ClusterTypeOK
  <2>4. Claimed' = Claimed \cup {rec.c} /\ UNCHANGED Applied
    BY <1>1, <2>2, <2>3 DEF Claimed, Applied
  <2> QED
    BY <2>4 DEF Lifecycle!Claim, Claimed, Applied
<1> QED
  BY <1>2, <1>3

\* Removing the finalizer is Release: nothing is managed by then.
LEMMA ReleaseMapped ==
    ASSUME TypeOK, Consistent, RemoveFinalizer
    PROVE  Unseen \/ \E c \in Components : Lifecycle!Release(c)
<1> USE ObjectsTyped
<1>1. UNCHANGED hcc /\ ~Managed(hcc[ChartOf[rec.c]], rec.c)
  BY DEF RemoveFinalizer, Consistent, ConfigConsistent
<1>2. CASE ~CanUpdate(rec.c, rec.obj)
  BY <1>1, <1>2, NoWriteUnseen DEF RemoveFinalizer
<1>3. CASE CanUpdate(rec.c, rec.obj)
  <2> DEFINE new == [NoImagePatch EXCEPT !.rv = ip[rec.c].rv + 1,
                                         !.generation = ip[rec.c].generation]
  <2>1. ip' = [ip EXCEPT ![rec.c] = new]
    BY <1>3 DEF RemoveFinalizer, RemoveImagePatch
  <2>2. ~new.exists
    BY DEF NoImagePatch
  <2> HIDE DEF new
  <2>3. \A d \in Components : ip'[d] = IF d = rec.c THEN new ELSE ip[d]
    BY <2>1 DEF TypeOK, ClusterTypeOK
  <2>4. Claimed' = Claimed \ {rec.c} /\ UNCHANGED Applied /\ Applied[rec.c] = NoRelease
    BY <1>1, <2>2, <2>3 DEF Claimed, Applied, Managed
  <2> QED
    BY <2>4 DEF Lifecycle!Release, Claimed, Applied
<1> QED
  BY <1>2, <1>3

\* The worker's two writes to a HelmChartConfig, seen through the mapping.
LEMMA AnnotationWritten ==
    ASSUME TypeOK, Consistent, CanApply(ChartOf[rec.c], rec.cur), UNCHANGED ip,
           NEW v \in Releases \cup {NoRelease}, NEW content \in HelmChartConfig,
           content.managedOn = [rec.cur.managedOn EXCEPT ![rec.c] = v],
           ApplyHelmChartConfig(ChartOf[rec.c], content)
    PROVE  Applied' = [Applied EXCEPT ![rec.c] = v] /\ UNCHANGED Claimed
<1> USE ObjectsTyped
<1>1. /\ \A e \in Charts \ {ChartOf[rec.c]} : hcc'[e] = hcc[e]
      /\ hcc'[ChartOf[rec.c]].managedOn = [hcc[ChartOf[rec.c]].managedOn EXCEPT ![rec.c] = v]
  BY ConfigWritten, ApplyOnCopy
<1>2. \A d \in Components :
         hcc'[ChartOf[d]].managedOn[d] = IF d = rec.c THEN v ELSE hcc[ChartOf[d]].managedOn[d]
  BY <1>1 DEF HelmChartConfig
<1> QED
  BY <1>2 DEF Applied, Claimed

\* Stripping values and annotation is Revert.
LEMMA RevertMapped ==
    ASSUME TypeOK, Consistent, Revert
    PROVE  Unseen \/ \E c \in Components : Lifecycle!Revert(c)
<1> USE ObjectsTyped
<1>1. CASE ~CanApply(ChartOf[rec.c], rec.cur)
  BY <1>1, NoWriteUnseen DEF Revert
<1>2. CASE CanApply(ChartOf[rec.c], rec.cur)
  <2> DEFINE new == Reverted(rec.cur, rec.c)
  <2>1. ApplyHelmChartConfig(ChartOf[rec.c], new) /\ UNCHANGED ip
    BY <1>2 DEF Revert
  <2>2. new \in HelmChartConfig /\ new.managedOn = [rec.cur.managedOn EXCEPT ![rec.c] = NoRelease]
    BY RevertedTyped, RevertedContents
  <2> HIDE DEF new
  <2>3. Applied' = [Applied EXCEPT ![rec.c] = NoRelease] /\ UNCHANGED Claimed
    BY <1>2, <2>1, <2>2, AnnotationWritten
  <2> QED
    BY <2>3 DEF Lifecycle!Revert, Claimed, Applied
<1> QED
  BY <1>1, <1>2

\* Merging values and annotation is Apply: the finalizer is there, and no
\* other release is.
LEMMA ApplyMapped ==
    ASSUME TypeOK, Consistent, OwnRelease, Apply
    PROVE  Unseen \/ \E c \in Components, on \in Releases : Lifecycle!Apply(c, on)
<1> USE ObjectsTyped
<1>1. CASE ~CanApply(ChartOf[rec.c], rec.cur)
  BY <1>1, NoWriteUnseen DEF Apply
<1>2. CASE CanApply(ChartOf[rec.c], rec.cur)
  <2> DEFINE new == SetAnnotation(MergeGenerated(rec.cur, rec.c, rec.obj.tag), rec.c, rec.on)
  <2>1. ApplyHelmChartConfig(ChartOf[rec.c], new) /\ UNCHANGED ip /\ rec.pc = "apply"
    BY <1>2 DEF Apply
  <2>2. rec.obj.tag \in OptTag /\ rec.on \in Releases \cup {NoRelease}
    BY DEF OptTag
  <2>3. new \in HelmChartConfig /\ new.managedOn = [rec.cur.managedOn EXCEPT ![rec.c] = rec.on]
    <3>1. MergeGenerated(rec.cur, rec.c, rec.obj.tag) \in HelmChartConfig
      BY <2>2, ContentsTyped
    <3>2. new \in HelmChartConfig
      BY <2>2, <3>1, ContentsTyped
    <3>3. /\ new.managedOn = [rec.cur.managedOn EXCEPT ![rec.c] = rec.on]
          /\ new.values = [rec.cur.values EXCEPT ![KeyOf[rec.c]] = rec.obj.tag]
          /\ new.other = rec.cur.other
      BY <2>2, AppliedContents
    <3> QED
      BY <3>2, <3>3
  <2> HIDE DEF new
  <2>4. Applied' = [Applied EXCEPT ![rec.c] = rec.on] /\ UNCHANGED Claimed
    BY <1>2, <2>1, <2>2, <2>3, AnnotationWritten
  <2>5. rec.c \in Claimed
    BY <2>1 DEF Consistent, WorkerConsistent, Claimed
  <2>6. \A d \in Components : Applied[d] \in {NoRelease, rec.on}
    <3>1. Applied[rec.c] = rec.cur.managedOn[rec.c]
      BY <1>2, ApplyOnCopy DEF Applied
    <3>2. Applied[rec.c] \in {NoRelease, rec.on}
      BY <2>1, <3>1 DEF OwnRelease
    <3>3. \A d \in Components \ {rec.c} : Applied[d] \in {NoRelease, rec.on}
      BY <2>1 DEF Consistent, ConfigConsistent, Applied, Managed
    <3> QED
      BY <3>2, <3>3
  <2> QED
    BY <2>4, <2>5, <2>6 DEF Lifecycle!Apply, Applied, Claimed
<1> QED
  BY <1>1, <1>2

\* Users edit ImagePatch objects: the API server keeps a claim.
LEMMA ImagePatchEditsUnseen ==
    ASSUME TypeOK, NEW c \in Components,
           \/ \E t \in Requested, p \in Policies :
                 CreateImagePatch(c, t, p) \/ EditImagePatch(c, t, p)
           \/ RemoveMarker(c)
           \/ DeleteImagePatch(c)
    PROVE  Unseen
<1> USE ObjectsTyped
<1>1. UNCHANGED hcc
  BY DEF CreateImagePatch, EditImagePatch, RemoveMarker, DeleteImagePatch
<1>2. PICK new : /\ ip' = [ip EXCEPT ![c] = new]
                 /\ (new.exists /\ new.finalizer) = (ip[c].exists /\ ip[c].finalizer)
  <2> DEFINE Kept(n) == /\ ip' = [ip EXCEPT ![c] = n]
                        /\ (n.exists /\ n.finalizer) = (ip[c].exists /\ ip[c].finalizer)
  <2>1. ASSUME NEW t \in Requested, NEW p \in Policies, CreateImagePatch(c, t, p)
        PROVE  \E n : Kept(n)
    <3> DEFINE n == [NoImagePatch EXCEPT !.exists = TRUE, !.rv = ip[c].rv + 1,
                        !.generation = ip[c].generation + 1, !.tag = t, !.upgradePolicy = p]
    <3>1. ip' = [ip EXCEPT ![c] = n] /\ ~ip[c].exists
      BY <2>1 DEF CreateImagePatch
    <3>2. ~n.finalizer
      BY DEF NoImagePatch
    <3> HIDE DEF n
    <3> QED
      BY <3>1, <3>2
  <2>2. ASSUME NEW t \in Requested, NEW p \in Policies, EditImagePatch(c, t, p)
        PROVE  \E n : Kept(n)
    <3> DEFINE n == [ip[c] EXCEPT !.rv = ip[c].rv + 1,
                        !.generation = ip[c].generation + 1, !.tag = t, !.upgradePolicy = p]
    <3>1. ip' = [ip EXCEPT ![c] = n]
      BY <2>2 DEF EditImagePatch
    <3>2. n.exists = ip[c].exists /\ n.finalizer = ip[c].finalizer
      BY DEF ImagePatch
    <3> HIDE DEF n
    <3> QED
      BY <3>1, <3>2
  <2>3. CASE RemoveMarker(c)
    <3> DEFINE n == [ip[c] EXCEPT !.rv = ip[c].rv + 1, !.revertedGeneration = 0]
    <3>1. ip' = [ip EXCEPT ![c] = n]
      BY <2>3 DEF RemoveMarker
    <3>2. n.exists = ip[c].exists /\ n.finalizer = ip[c].finalizer
      BY DEF ImagePatch
    <3> HIDE DEF n
    <3> QED
      BY <3>1, <3>2
  <2>4. CASE DeleteImagePatch(c) /\ ip[c].finalizer
    <3> DEFINE n == [ip[c] EXCEPT !.rv = ip[c].rv + 1,
                        !.generation = ip[c].generation + 1, !.deleting = TRUE]
    <3>1. ip' = [ip EXCEPT ![c] = n]
      BY <2>4 DEF DeleteImagePatch
    <3>2. n.exists = ip[c].exists /\ n.finalizer = ip[c].finalizer
      BY DEF ImagePatch
    <3> HIDE DEF n
    <3> QED
      BY <3>1, <3>2
  <2>5. CASE DeleteImagePatch(c) /\ ~ip[c].finalizer
    <3> DEFINE n == [NoImagePatch EXCEPT !.rv = ip[c].rv + 1, !.generation = ip[c].generation]
    <3>1. ip' = [ip EXCEPT ![c] = n]
      BY <2>5 DEF DeleteImagePatch, RemoveImagePatch
    <3>2. ~n.exists
      BY DEF NoImagePatch
    <3> HIDE DEF n
    <3> QED
      BY <2>5, <3>1, <3>2
  <2> QED
    BY <2>1, <2>2, <2>3, <2>4, <2>5
<1> QED
  BY <1>1, <1>2, FinalizerKept

\* Users and upgrades claim nothing and patch nothing; a deleted
\* HelmChartConfig is ConfigDeleted.
LEMMA EnvironmentMapped ==
    ASSUME TypeOK, EnvironmentStep
    PROVE  Unseen \/ \E ch \in Charts : Lifecycle!ConfigDeleted(ch)
<1> USE ObjectsTyped
<1>1. ASSUME NEW c \in Components,
             \/ \E t \in Requested, p \in Policies :
                   CreateImagePatch(c, t, p) \/ EditImagePatch(c, t, p)
             \/ RemoveMarker(c)
             \/ DeleteImagePatch(c)
      PROVE  Unseen
  BY <1>1, ImagePatchEditsUnseen
<1>2. ASSUME NEW c \in Components, NEW t \in Requested \cup {NoTag}, OverrideImage(c, t)
      PROVE  Unseen
  <2>1. t \in OptTag /\ ChartOf[c] \in Charts
    BY TagsAssumption DEF OptTag
  <2> DEFINE new == MergeGenerated(hcc[ChartOf[c]], c, t)
  <2>2. new.managedOn = hcc[ChartOf[c]].managedOn /\ new \in HelmChartConfig
    BY <2>1, ContentsTyped DEF MergeGenerated, HelmChartConfig
  <2>3. UNCHANGED ip /\ ApplyHelmChartConfig(ChartOf[c], new)
    BY <1>2 DEF OverrideImage
  <2> HIDE DEF new
  <2>4. \A d \in Components : hcc'[ChartOf[d]].managedOn = hcc[ChartOf[d]].managedOn
    BY <2>1, <2>2, <2>3, ConfigWritten
  <2> QED
    BY <2>3, <2>4, SeesObjects
<1>3. ASSUME NEW ch \in Charts, EditOtherValues(ch)
      PROVE  Unseen
  <2> DEFINE new == [hcc[ch] EXCEPT !.other = @ + 1]
  <2>1. hcc[ch].other < MaxOther /\ UNCHANGED ip /\ ApplyHelmChartConfig(ch, new)
    BY <1>3 DEF EditOtherValues
  <2>2. hcc[ch].other + 1 \in 0..MaxOther
    BY <2>1, BoundsAssumption DEF HelmChartConfig
  <2>3. new \in HelmChartConfig /\ new.managedOn = hcc[ch].managedOn
    BY <2>2 DEF HelmChartConfig
  <2> HIDE DEF new
  <2>4. \A d \in Components : hcc'[ChartOf[d]].managedOn = hcc[ChartOf[d]].managedOn
    BY <2>1, <2>3, ConfigWritten
  <2> QED
    BY <2>1, <2>4, SeesObjects
<1>4. ASSUME NEW ch \in Charts, DeleteConfig(ch)
      PROVE  \E e \in Charts : Lifecycle!ConfigDeleted(e)
  <2>1. /\ UNCHANGED ip
        /\ \A e \in Charts \ {ch} : hcc'[e] = hcc[e]
        /\ hcc'[ch] = [NoConfig EXCEPT !.rv = hcc[ch].rv + 1]
    BY <1>4 DEF DeleteConfig, TypeOK, ClusterTypeOK
  <2>2. \A d \in Components : hcc'[ch].managedOn[d] = NoRelease
    BY <2>1 DEF NoConfig
  <2>3. /\ UNCHANGED Claimed
        /\ Applied' = [d \in Components |-> IF ChartOf[d] = ch THEN NoRelease ELSE Applied[d]]
    BY <2>1, <2>2 DEF Claimed, Applied
  <2> QED
    BY <2>3 DEF Lifecycle!ConfigDeleted, Claimed, Applied
<1>5. ASSUME PlatformStep \/ CLIReverts \/ UpgradeVersion \/ (\E c \in Components : CLIPatches(c))
      PROVE  Unseen
  <2>1. UNCHANGED <<ip, hcc>>
    BY <1>5 DEF PlatformStep, CLIReverts, UpgradeVersion, CLIPatches, UpgradeChart, Rollout
  <2> QED
    BY <2>1, NoWriteUnseen
<1> QED
  BY <1>1, <1>2, <1>3, <1>4, <1>5 DEF EnvironmentStep, UpgradeStep, UserStep

---------------------------------------------------------------------------
(* The theorem.                                                            *)

LEMMA StartMapped ==
    ASSUME Init
    PROVE  Lifecycle!Init
<1>1. /\ \A c \in Components : ip[c] = NoImagePatch /\ ChartOf[c] \in Charts
      /\ \A ch \in Charts : hcc[ch] = NoConfig
  BY ComponentsAssumption DEF Init, ClusterInit
<1>2. ~NoImagePatch.exists /\ \A c \in Components : NoConfig.managedOn[c] = NoRelease
  BY DEF NoImagePatch, NoConfig
<1> QED
  BY <1>1, <1>2 DEF Lifecycle!Init

LEMMA StepMapped ==
    ASSUME TypeOK, Consistent, OwnRelease, Next
    PROVE  Lifecycle!Next \/ Unseen
<1>1. CASE AddFinalizer \/ RemoveFinalizer \/ Revert \/ Apply
  BY <1>1, ClaimMapped, ReleaseMapped, RevertMapped, ApplyMapped DEF Lifecycle!Next
<1>2. CASE ClearMarker \/ MarkReverted \/ WriteStatus
  BY <1>2, WorkerUpdatesUnseen
<1>3. CASE \/ ReadCLIState \/ ReadVersion \/ ReadChart \/ ReadConfig \/ ReportReverted
           \/ ReadImages \/ ImagesUnavailable \/ Validate \/ Finalize
           \/ (\E c \in Components : Dequeue(c) \/ SyncCache(c))
           \/ CallFails \/ Crash
  <2>1. UNCHANGED <<ip, hcc>>
    BY <1>3 DEF ReadCLIState, ReadVersion, ReadChart, ReadConfig, ReportReverted,
       ReadImages, ImagesUnavailable, Validate, Finalize, Dequeue, SyncCache, CallFails,
       Crash, clusterVars
  <2> QED
    BY <2>1, NoWriteUnseen
<1>4. CASE EnvironmentStep
  BY <1>4, EnvironmentMapped DEF Lifecycle!Next
<1> QED
  BY <1>1, <1>2, <1>3, <1>4 DEF Next, ControllerStep, WorkerStep

\* The controller implements PatchLifecycle, for any components, charts and
\* releases: a claim before a patch, a revert before the claim goes, and never
\* a patch of an earlier release applied again (Reconcile, revert, finalize).
THEOREM LifecycleImplemented == Spec => ImplementsLifecycle
<1>1. Init => Lifecycle!Init
  BY StartMapped
<1>2. TypeOK /\ Consistent /\ OwnRelease /\ [Next]_vars => [Lifecycle!Next]_Lifecycle!vars
  <2> SUFFICES ASSUME TypeOK, Consistent, OwnRelease, [Next]_vars
               PROVE  Lifecycle!Next \/ Unseen
    BY DEF Lifecycle!vars, Unseen, Claimed, Applied
  <2>1. CASE UNCHANGED vars
    BY <2>1, NoWriteUnseen DEF vars, clusterVars
  <2> QED
    BY <2>1, StepMapped
<1> QED
  BY <1>1, <1>2, TypeCorrect, ConsistentAlways, OwnReleaseAlways, PTL
  DEF Spec, ImplementsLifecycle, Lifecycle!Spec

=============================================================================
