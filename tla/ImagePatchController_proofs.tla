-------------------- MODULE ImagePatchController_proofs --------------------
(***************************************************************************)
(* Proofs about the ImagePatch controller: type correctness, the inductive *)
(* invariant Consistent, and what follows from it.                         *)
(***************************************************************************)
EXTENDS ImagePatchController, Cluster_proofs

---------------------------------------------------------------------------
(* Constants and helpers have the types they should.                       *)

\* A worker without work is a worker.
LEMMA IdleTyped == Idle \in Reconcile
<1>1. 1 \in 1..MaxRelease
  BY TagsAssumption
<1>2. (CHOOSE d \in Components : TRUE) \in Components
  BY ComponentsAssumption
<1> QED
  BY <1>1, <1>2, ObjectDefaults DEF Idle, Reconcile, PCs, Releases, OptTag, Reasons

\* The validations return a reason or "ok".
LEMMA VerdictsTyped ==
    ASSUME NEW a, NEW b, NEW e, NEW z, NEW T
    PROVE  /\ ValidateAgainstBaseline(a, b) \in Reasons \cup {"ok"}
           /\ ValidateNotOlderThanCurrent(a, b) \in Reasons \cup {"ok"}
           /\ ValidateExplicitTarget(a, b, T) \in Reasons \cup {"ok"}
           /\ ValidatePatchWindow(e, b, z) \in Reasons \cup {"ok"}
<1>1. ValidateAgainstBaseline(a, b) \in Reasons \cup {"ok"}
  BY DEF ValidateAgainstBaseline, Reasons
<1>2. ValidateNotOlderThanCurrent(a, b) \in Reasons \cup {"ok"}
  BY DEF ValidateNotOlderThanCurrent, Reasons
<1>3. ValidateExplicitTarget(a, b, T) \in Reasons \cup {"ok"}
  BY <1>1 DEF ValidateExplicitTarget, Reasons
<1>4. ValidatePatchWindow(e, b, z) \in Reasons \cup {"ok"}
  <2>1. CASE e
    BY <2>1 DEF ValidatePatchWindow
  <2>2. CASE ~e /\ HasBuildDate(b)
    BY <2>2 DEF ValidatePatchWindow, Reasons
  <2>3. CASE ~e /\ ~HasBuildDate(b)
    BY <2>3 DEF ValidatePatchWindow, Reasons
  <2> QED
    BY <2>1, <2>2, <2>3
<1> QED
  BY <1>1, <1>2, <1>3, <1>4

\* So does the chain of guardrails, and "ok" means that no other component
\* holds a stale patch and that the slot is free or managed.
LEMMA RefusalTyped ==
    ASSUME NEW r \in Reconcile
    PROVE  /\ Refusal(r) \in Reasons \cup {"ok"}
           /\ Refusal(r) = "ok" =>
                /\ StalePatches(r.on, r.c) = {}
                /\ Managed(r.cur, r.c) \/ r.cur.values[KeyOf[r.c]] \in {NoTag, r.obj.tag}
<1> DEFINE tag == r.obj.tag
           previous == r.obj.status.appliedTag
           rollback == IF previous = NoTag THEN "ok"
                       ELSE ValidateNotOlderThanCurrent(previous, tag)
           target == ValidateExplicitTarget(r.base, tag, Published[r.c])
           window == ValidatePatchWindow(r.c \in Exempt, tag, ZeroDay[release])
           foreign == ~Managed(r.cur, r.c) /\ r.cur.values[KeyOf[r.c]] \notin {NoTag, tag}
           stale == StalePatches(r.on, r.c) # {}
<1>1. rollback \in Reasons \cup {"ok"}
  BY VerdictsTyped
<1>2. target \in Reasons \cup {"ok"}
  BY VerdictsTyped
<1>3. window \in Reasons \cup {"ok"}
  BY VerdictsTyped
<1>4. Refusal(r) = CASE stale -> "StalePatchesExist"
                    [] ~stale /\ rollback # "ok" -> rollback
                    [] ~stale /\ rollback = "ok" /\ target # "ok" -> target
                    [] ~stale /\ rollback = "ok" /\ target = "ok" /\ window # "ok" -> window
                    [] OTHER -> IF foreign THEN "ConflictingOverride" ELSE "ok"
  BY DEF Refusal
<1> HIDE DEF rollback, target, window
<1>5. CASE stale
  BY <1>4, <1>5 DEF Reasons
<1>6. CASE ~stale /\ rollback # "ok"
  BY <1>1, <1>4, <1>6
<1>7. CASE ~stale /\ rollback = "ok" /\ target # "ok"
  BY <1>2, <1>4, <1>7
<1>8. CASE ~stale /\ rollback = "ok" /\ target = "ok" /\ window # "ok"
  BY <1>3, <1>4, <1>8
<1>9. CASE ~stale /\ rollback = "ok" /\ target = "ok" /\ window = "ok"
  BY <1>4, <1>9 DEF Reasons
<1> QED
  BY <1>5, <1>6, <1>7, <1>8, <1>9

---------------------------------------------------------------------------
(* Writes preserve the types of the objects.                               *)

\* What a revert writes is a HelmChartConfig.
LEMMA RevertedTyped ==
    ASSUME NEW config \in HelmChartConfig, NEW c \in Components
    PROVE  Reverted(config, c) \in HelmChartConfig
<1>1. SubtractGenerated(config, c) \in HelmChartConfig
  BY ContentsTyped
<1> QED
  BY <1>1, ContentsTyped DEF Reverted

---------------------------------------------------------------------------
(* Type correctness, one action at a time.                                 *)

\* How a reconcile goes on or ends.
LEMMA ProgressTyped ==
    ASSUME TypeOK
    PROVE  /\ \A pc \in PCs : Goto(pc) => rec' \in Reconcile
           /\ \A reason \in Reasons : Outcome(reason) => rec' \in Reconcile
           /\ \A b \in BOOLEAN : Finish(b) => rec' \in Reconcile /\ queue' \subseteq Components
           /\ Failed => rec' \in Reconcile /\ queue' \subseteq Components
<1>1. rec \in Reconcile /\ rec.c \in Components /\ queue \subseteq Components
  BY DEF TypeOK, Reconcile
<1>2. ASSUME NEW pc \in PCs, Goto(pc) PROVE rec' \in Reconcile
  BY <1>1, <1>2 DEF Goto, Reconcile
<1>3. ASSUME NEW reason \in Reasons, Outcome(reason) PROVE rec' \in Reconcile
  BY <1>1, <1>3 DEF Outcome, Reconcile, PCs
<1>4. ASSUME NEW b \in BOOLEAN, Finish(b)
      PROVE  rec' \in Reconcile /\ queue' \subseteq Components
  BY <1>1, <1>4, IdleTyped DEF Finish
<1>5. ASSUME Failed PROVE rec' \in Reconcile /\ queue' \subseteq Components
  <2>1. "Error" \in Reasons
    BY DEF Reasons
  <2> QED
    BY <1>1, <1>3, <1>4, <1>5, <2>1 DEF Failed
<1> QED
  BY <1>2, <1>3, <1>4, <1>5

\* The checks after the marker only choose where to go.
LEMMA UpgradeCheckTyped ==
    ASSUME NEW r \in Reconcile
    PROVE  UpgradeCheck(r) \in Reconcile
BY DEF UpgradeCheck, Reconcile, PCs, Reasons

LEMMA WorkerTyped ==
    ASSUME TypeOK, WorkerStep
    PROVE  TypeOK'
<1> DEFINE ch == ChartOf[rec.c]
<1>1. /\ rec \in Reconcile /\ rec.c \in Components /\ rec.obj \in ImagePatch
      /\ rec.cur \in HelmChartConfig /\ rec.out \in Reasons /\ rec.applied \in OptTag
      /\ rec.on \in Releases /\ rec.base \in Tags /\ queue \subseteq Components
      /\ ch \in Charts /\ hcc[ch] \in HelmChartConfig /\ rec.obj.tag \in OptTag
      /\ rec.obj.generation \in Nat
  BY ComponentsAssumption
  DEF TypeOK, ClusterTypeOK, Reconcile, ImagePatch, OptTag
<1>2. \A obj \in ImagePatch : UpdateImagePatch(rec.c, obj) =>
         ip' \in [Components -> ImagePatch] /\ ip'[rec.c] \in ImagePatch
  BY <1>1, ImagePatchWrites DEF TypeOK
<1>3. CASE AddFinalizer
  <2>1. CASE CanUpdate(rec.c, rec.obj)
    <3>1. [rec.obj EXCEPT !.finalizer = TRUE] \in ImagePatch
      BY <1>1 DEF ImagePatch
    <3>2. ip' \in [Components -> ImagePatch] /\ ip'[rec.c] \in ImagePatch
      BY <1>2, <1>3, <2>1, <3>1 DEF AddFinalizer
    <3>3. rec' \in Reconcile
      BY <1>1, <1>3, <2>1, <3>2 DEF AddFinalizer, Reconcile, PCs
    <3> QED
      BY <1>1, <1>3, <2>1, <3>2, <3>3 DEF AddFinalizer, TypeOK, ClusterTypeOK
  <2>2. CASE ~CanUpdate(rec.c, rec.obj)
    BY <1>3, <2>2, ProgressTyped DEF AddFinalizer, TypeOK, ClusterTypeOK
  <2> QED
    BY <2>1, <2>2
<1>4. CASE ReadCLIState
  <2>1. rec' \in Reconcile
    BY <1>4, ProgressTyped DEF ReadCLIState, PCs, Reasons
  <2> QED
    BY <1>4, <2>1 DEF ReadCLIState, TypeOK, ClusterTypeOK, clusterVars
<1>5. CASE ReadVersion
  <2>1. rec' \in Reconcile
    BY <1>1, <1>5 DEF ReadVersion, Reconcile, PCs, TypeOK, ClusterTypeOK
  <2> QED
    BY <1>5, <2>1 DEF ReadVersion, TypeOK, ClusterTypeOK, clusterVars
<1>6. CASE ReadChart
  <2>1. bundle[ch] \in 1..MaxRelease
    BY <1>1 DEF TypeOK, ClusterTypeOK, Releases
  <2>2. Bundled[bundle[ch]][rec.c] \in Tags
    BY <1>1, <2>1, TagsAssumption
  <2>3. [rec EXCEPT !.pc = "config", !.base = Bundled[bundle[ch]][rec.c]] \in Reconcile
    BY <1>1, <2>2 DEF Reconcile, PCs
  <2>4. rec' \in Reconcile
    BY <1>6, <2>3, ProgressTyped DEF ReadChart, Reasons
  <2> QED
    BY <1>6, <2>4 DEF ReadChart, TypeOK, ClusterTypeOK, clusterVars
<1>7. CASE ReadConfig
  <2> DEFINE r == [rec EXCEPT !.cur = hcc[ch]]
  <2>1. r \in Reconcile
    BY <1>1 DEF Reconcile
  <2>2. UpgradeCheck(r) \in Reconcile
    BY <2>1, UpgradeCheckTyped
  <2>3. \A pc \in PCs : /\ [r EXCEPT !.out = "RevertedAfterUpgrade", !.pc = pc] \in Reconcile
                        /\ [r EXCEPT !.pc = pc] \in Reconcile
    BY <2>1 DEF Reconcile, Reasons
  <2> HIDE DEF r
  <2>4. rec' \in Reconcile
    <3>1. "revert" \in PCs /\ "reverted" \in PCs /\ "clearMarker" \in PCs
      BY DEF PCs
    <3>2. rec' = IF r.obj.revertedGeneration = r.obj.generation
                 THEN [r EXCEPT !.out = "RevertedAfterUpgrade",
                        !.pc = IF Managed(r.cur, r.c) THEN "revert" ELSE "reverted"]
                 ELSE IF r.obj.revertedGeneration # 0
                 THEN [r EXCEPT !.pc = "clearMarker"]
                 ELSE UpgradeCheck(r)
      BY <1>7 DEF ReadConfig, r
    <3> QED
      BY <2>2, <2>3, <3>1, <3>2
  <2> QED
    BY <1>7, <2>4 DEF ReadConfig, TypeOK, ClusterTypeOK, clusterVars
<1>8. CASE ClearMarker
  <2>1. CASE CanUpdate(rec.c, rec.obj)
    <3>1. [rec.obj EXCEPT !.revertedGeneration = 0] \in ImagePatch
      BY <1>1 DEF ImagePatch
    <3>2. ip' \in [Components -> ImagePatch] /\ ip'[rec.c] \in ImagePatch
      BY <1>2, <1>8, <2>1, <3>1 DEF ClearMarker
    <3>3. [rec EXCEPT !.obj = ip'[rec.c]] \in Reconcile
      BY <1>1, <3>2 DEF Reconcile
    <3>4. rec' \in Reconcile
      BY <1>8, <2>1, <3>3, UpgradeCheckTyped DEF ClearMarker
    <3> QED
      BY <1>1, <1>8, <2>1, <3>2, <3>4 DEF ClearMarker, TypeOK, ClusterTypeOK
  <2>2. CASE ~CanUpdate(rec.c, rec.obj)
    BY <1>8, <2>2, ProgressTyped DEF ClearMarker, TypeOK, ClusterTypeOK
  <2> QED
    BY <2>1, <2>2
<1>9. CASE MarkReverted
  <2>1. CASE CanUpdate(rec.c, rec.obj)
    <3>1. [rec.obj EXCEPT !.revertedGeneration = rec.obj.generation] \in ImagePatch
      BY <1>1 DEF ImagePatch
    <3>2. ip' \in [Components -> ImagePatch] /\ ip'[rec.c] \in ImagePatch
      BY <1>2, <1>9, <2>1, <3>1 DEF MarkReverted
    <3>3. ASSUME NEW obj \in ImagePatch
          PROVE  [rec EXCEPT !.pc = "revert", !.out = "RevertedAfterUpgrade", !.obj = obj]
                    \in Reconcile
      <4>1. "revert" \in PCs /\ "RevertedAfterUpgrade" \in Reasons
        BY DEF PCs, Reasons
      <4> QED
        BY <1>1, <4>1 DEF Reconcile
    <3>4. rec' \in Reconcile
      BY <1>9, <2>1, <3>2, <3>3 DEF MarkReverted
    <3> QED
      BY <1>1, <1>9, <2>1, <3>2, <3>4 DEF MarkReverted, TypeOK, ClusterTypeOK
  <2>2. CASE ~CanUpdate(rec.c, rec.obj)
    BY <1>9, <2>2, ProgressTyped DEF MarkReverted, TypeOK, ClusterTypeOK
  <2> QED
    BY <2>1, <2>2
<1>10. CASE Revert
  <2>1. CASE CanApply(ch, rec.cur)
    <3>1. hcc' \in [Charts -> HelmChartConfig]
      BY <1>1, <1>10, <2>1, RevertedTyped, ConfigWrites DEF Revert, TypeOK
    <3>2. \A t \in OptTag, pc \in PCs : [rec EXCEPT !.applied = t, !.pc = pc] \in Reconcile
      BY <1>1 DEF Reconcile
    <3>3. PICK t \in OptTag, pc \in PCs : rec' = [rec EXCEPT !.applied = t, !.pc = pc]
      BY <1>1, <1>10, <2>1 DEF Revert, PCs, OptTag
    <3>4. rec' \in Reconcile
      BY <3>2, <3>3
    <3> QED
      BY <1>1, <1>10, <2>1, <3>1, <3>4 DEF Revert, TypeOK, ClusterTypeOK
  <2>2. CASE ~CanApply(ch, rec.cur)
    BY <1>10, <2>2, ProgressTyped DEF Revert, TypeOK, ClusterTypeOK
  <2> QED
    BY <2>1, <2>2
<1>11. CASE ReportReverted
  <2>1. rec' \in Reconcile
    BY <1>1, <1>11 DEF ReportReverted, Reconcile, PCs, OptTag
  <2> QED
    BY <1>11, <2>1 DEF ReportReverted, TypeOK, ClusterTypeOK, clusterVars
<1>12. CASE ReadImages
  <2>1. \A c, want, ready : ready \in Reasons => RolloutReason(c, want, ready) \in Reasons
    BY DEF RolloutReason, Reasons
  <2>2. "AtBaseline" \in Reasons /\ "Patched" \in Reasons
    BY DEF Reasons
  <2>3. ValidateAgainstBaseline(rec.base, rec.obj.tag) \in Reasons \cup {"ok"}
    BY VerdictsTyped
  <2>4. \A pc \in PCs, out \in Reasons, t \in OptTag :
           /\ [rec EXCEPT !.pc = pc, !.out = out] \in Reconcile
           /\ [rec EXCEPT !.pc = pc, !.out = out, !.applied = t] \in Reconcile
    BY <1>1 DEF Reconcile
  <2>5. "revert" \in PCs /\ "status" \in PCs /\ "validate" \in PCs /\ NoTag \in OptTag
    BY DEF PCs, OptTag
  <2> DEFINE managed == Managed(rec.cur, rec.c)
             present == rec.cur.values[KeyOf[rec.c]] = rec.obj.tag
             atBaseline == RolloutReason(rec.c, rec.base, "AtBaseline")
             patched == RolloutReason(rec.c, rec.obj.tag, "Patched")
             verdict == ValidateAgainstBaseline(rec.base, rec.obj.tag)
  <2>6. \/ rec' = [rec EXCEPT !.pc = "revert", !.out = atBaseline]
        \/ rec' = [rec EXCEPT !.pc = "status", !.out = atBaseline, !.applied = NoTag]
        \/ verdict # "ok" /\ rec' = [rec EXCEPT !.pc = "revert", !.out = verdict]
        \/ rec' = [rec EXCEPT !.pc = "status", !.out = patched, !.applied = rec.obj.tag]
        \/ rec' = [rec EXCEPT !.pc = "validate", !.out = patched]
    <3> HIDE DEF managed, present, atBaseline, patched, verdict
    <3>1. rec' = CASE rec.obj.tag = rec.base /\ managed ->
                         [rec EXCEPT !.pc = "revert", !.out = atBaseline]
                   [] rec.obj.tag = rec.base /\ ~managed ->
                         [rec EXCEPT !.pc = "status", !.out = atBaseline, !.applied = NoTag]
                   [] rec.obj.tag # rec.base /\ managed /\ present /\ verdict # "ok" ->
                         [rec EXCEPT !.pc = "revert", !.out = verdict]
                   [] rec.obj.tag # rec.base /\ managed /\ present /\ verdict = "ok" ->
                         [rec EXCEPT !.pc = "status", !.out = patched, !.applied = rec.obj.tag]
                   [] OTHER -> [rec EXCEPT !.pc = "validate", !.out = patched]
      BY <1>12 DEF ReadImages, managed, present, atBaseline, patched, verdict
    <3> QED
      BY <3>1
  <2>7. atBaseline \in Reasons /\ patched \in Reasons
    BY <2>1, <2>2
  <2>8. verdict # "ok" => verdict \in Reasons
    BY <2>3
  <2>9. rec.obj.tag \in OptTag /\ rec.out \in Reasons
    BY <1>1
  <2> HIDE DEF atBaseline, patched, verdict
  <2>10. rec' \in Reconcile
    <3>1. /\ [rec EXCEPT !.pc = "revert", !.out = atBaseline] \in Reconcile
          /\ [rec EXCEPT !.pc = "validate", !.out = patched] \in Reconcile
          /\ verdict # "ok" => [rec EXCEPT !.pc = "revert", !.out = verdict] \in Reconcile
      BY <2>4, <2>5, <2>7, <2>8
    <3>2. /\ [rec EXCEPT !.pc = "status", !.out = atBaseline, !.applied = NoTag] \in Reconcile
          /\ [rec EXCEPT !.pc = "status", !.out = patched, !.applied = rec.obj.tag] \in Reconcile
      BY <2>4, <2>5, <2>7, <2>9
    <3> QED
      BY <2>6, <3>1, <3>2
  <2> QED
    BY <1>12, <2>10 DEF ReadImages, TypeOK, ClusterTypeOK, clusterVars
<1>13. CASE Validate
  <2>1. "apply" \in PCs
    BY DEF PCs
  <2>2. rec' \in Reconcile
    BY <1>1, <1>13, <2>1, ProgressTyped, RefusalTyped DEF Validate
  <2> QED
    BY <1>13, <2>2 DEF Validate, TypeOK, ClusterTypeOK, clusterVars
<1>14. CASE Apply
  <2>1. CASE CanApply(ch, rec.cur)
    <3>1. SetAnnotation(MergeGenerated(rec.cur, rec.c, rec.obj.tag), rec.c, rec.on) \in HelmChartConfig
      <4>1. MergeGenerated(rec.cur, rec.c, rec.obj.tag) \in HelmChartConfig
        BY <1>1, ContentsTyped
      <4> QED
        BY <1>1, <4>1, ContentsTyped
    <3>2. hcc' \in [Charts -> HelmChartConfig]
      BY <1>1, <1>14, <2>1, <3>1, ConfigWrites DEF Apply, TypeOK
    <3>3. rec' \in Reconcile
      BY <1>1, <1>14, <2>1 DEF Apply, Reconcile, PCs
    <3> QED
      BY <1>1, <1>14, <2>1, <3>2, <3>3 DEF Apply, TypeOK, ClusterTypeOK
  <2>2. CASE ~CanApply(ch, rec.cur)
    <3>1. rec' \in Reconcile
      BY <1>14, <2>2, ProgressTyped DEF Apply, Reasons
    <3> QED
      BY <1>14, <2>2, <3>1 DEF Apply, TypeOK, ClusterTypeOK
  <2> QED
    BY <2>1, <2>2
<1>15. CASE WriteStatus
  <2> DEFINE status == [appliedTag |-> rec.applied, reason |-> rec.out,
                        observedGeneration |-> rec.obj.generation]
  <2>1. status \in Status
    BY <1>1 DEF Status
  <2>2. ip' \in [Components -> ImagePatch]
    BY <1>1, <1>15, <2>1, ImagePatchWrites DEF WriteStatus, TypeOK, ClusterTypeOK
  <2>3. rec' \in Reconcile /\ queue' \subseteq Components
    BY <1>15, ProgressTyped DEF WriteStatus
  <2> QED
    BY <1>15, <2>2, <2>3 DEF WriteStatus, TypeOK, ClusterTypeOK
<1>16. CASE Finalize
  <2>1. rec' \in Reconcile
    BY <1>1, <1>16 DEF Finalize, Reconcile, PCs
  <2> QED
    BY <1>16, <2>1 DEF Finalize, TypeOK, ClusterTypeOK, clusterVars
<1>17. CASE RemoveFinalizer
  <2>1. ip' \in [Components -> ImagePatch]
    BY <1>1, <1>17, ImagePatchWrites DEF RemoveFinalizer, TypeOK, ClusterTypeOK
  <2>2. rec' \in Reconcile /\ queue' \subseteq Components
    BY <1>17, ProgressTyped DEF RemoveFinalizer
  <2> QED
    BY <1>17, <2>1, <2>2 DEF RemoveFinalizer, TypeOK, ClusterTypeOK
<1>18. CASE ImagesUnavailable
  <2>1. rec' \in Reconcile
    BY <1>18, ProgressTyped DEF ImagesUnavailable, Outcome, Reconcile, PCs, Reasons
  <2> QED
    BY <1>18, <2>1 DEF ImagesUnavailable, TypeOK, ClusterTypeOK, clusterVars
<1> QED
  BY <1>3, <1>4, <1>5, <1>6, <1>7, <1>8, <1>9, <1>10, <1>11, <1>12, <1>13,
     <1>14, <1>15, <1>16, <1>17, <1>18 DEF WorkerStep

\* Taking work, catching up with the API server, and failing.
LEMMA SchedulingTyped ==
    ASSUME TypeOK, (\E c \in Components : Dequeue(c) \/ SyncCache(c)) \/ CallFails \/ Crash
    PROVE  TypeOK'
<1>1. ASSUME NEW c \in Components, Dequeue(c)
      PROVE  TypeOK'
  <2>1. cache[c] \in ImagePatch /\ cache[c].status.appliedTag \in OptTag
    BY DEF TypeOK, ImagePatch, Status
  <2>2. \A pc \in PCs :
           [Idle EXCEPT !.c = c, !.obj = cache[c], !.applied = cache[c].status.appliedTag,
                        !.pc = pc] \in Reconcile
    BY <2>1, IdleTyped DEF Reconcile
  <2>3. "finalize" \in PCs /\ "cliState" \in PCs /\ "addFinalizer" \in PCs
    BY DEF PCs
  <2>4. rec' \in Reconcile
    BY <1>1, <2>2, <2>3 DEF Dequeue, TypeOK
  <2> QED
    BY <1>1, <2>4 DEF Dequeue, TypeOK, ClusterTypeOK, clusterVars
<1>2. ASSUME NEW c \in Components, SyncCache(c)
      PROVE  TypeOK'
  BY <1>2 DEF SyncCache, TypeOK, ClusterTypeOK, clusterVars
<1>3. CASE CallFails
  <2>1. rec' \in Reconcile /\ queue' \subseteq Components
    BY <1>3, ProgressTyped DEF CallFails
  <2>2. budget' \in [Moves -> Nat]
    BY <1>3, SpendTyped DEF CallFails, Moves, TypeOK
  <2> QED
    BY <1>3, <2>1, <2>2 DEF CallFails, TypeOK, ClusterTypeOK
<1>4. CASE Crash
  <2>1. budget' \in [Moves -> Nat]
    BY <1>4, SpendTyped DEF Crash, Moves, TypeOK
  <2> QED
    BY <1>4, <2>1, IdleTyped DEF Crash, TypeOK, ClusterTypeOK
<1> QED
  BY <1>1, <1>2, <1>3, <1>4

\* What the commands do, seen from the controller.
LEMMA CommandsTyped ==
    ASSUME ClusterTypeOK, CLIReverts \/ (\E c \in Components : CLIPatches(c))
    PROVE  ClusterTypeOK'
<1> USE DEF ClusterTypeOK
<1>1. ASSUME NEW c \in Components, CLIPatches(c)
      PROVE  ClusterTypeOK'
  <2>1. Bundled[release][c] \in Tags
    BY TagsAssumption DEF Releases
  <2>2. [component |-> c, clusterVersion |-> release, baselineTag |-> Bundled[release][c],
         patchedToTag |-> AnyTag] \in Entry
    BY <2>1, ObjectDefaults DEF Entry
  <2>3. state' \in State
    BY <1>1, <2>2 DEF CLIPatches, SaveState, State
  <2>4. budget' \in [Moves -> Nat]
    BY <1>1, SpendTyped DEF CLIPatches, Moves
  <2> QED
    BY <1>1, <2>3, <2>4 DEF CLIPatches
<1>2. ASSUME CLIReverts
      PROVE  ClusterTypeOK'
  BY <1>2 DEF CLIReverts, SaveState, State
<1> QED
  BY <1>1, <1>2

LEMMA StepTyped ==
    ASSUME TypeOK, Next
    PROVE  TypeOK'
<1>1. CASE WorkerStep
  BY <1>1, WorkerTyped
<1>2. CASE (\E c \in Components : Dequeue(c) \/ SyncCache(c)) \/ CallFails \/ Crash
  BY <1>2, SchedulingTyped
<1>3. CASE EnvironmentStep
  <2>1. ClusterTypeOK'
    BY <1>3, UserTyped, PlatformTyped, CommandsTyped DEF TypeOK, EnvironmentStep, UpgradeStep
  <2>2. queue' \subseteq Components /\ UNCHANGED <<cache, rec>>
    BY <1>3 DEF EnvironmentStep, UpgradeStep, Woken, TypeOK
  <2> QED
    BY <2>1, <2>2 DEF TypeOK
<1> QED
  BY <1>1, <1>2, <1>3 DEF Next, ControllerStep

LEMMA InitTyped ==
    ASSUME Init
    PROVE  TypeOK
<1>1. ClusterTypeOK
  BY ClusterInitTyped DEF Init
<1> QED
  BY <1>1, IdleTyped DEF Init, TypeOK, ClusterTypeOK

\* Every value of every variable is of its type: in particular no reconcile
\* works with a missing baseline, version or configuration (Reconcile).
THEOREM TypeCorrect == Spec => []TypeOK
<1>1. Init => TypeOK
  BY InitTyped
<1>2. TypeOK /\ [Next]_vars => TypeOK'
  <2> SUFFICES ASSUME TypeOK, [Next]_vars PROVE TypeOK'
    OBVIOUS
  <2>1. CASE UNCHANGED vars
    BY <2>1 DEF vars, clusterVars, TypeOK, ClusterTypeOK
  <2> QED
    BY <2>1, StepTyped
<1> QED
  BY <1>1, <1>2, PTL DEF Spec

---------------------------------------------------------------------------
(* The inductive invariant Consistent and the safety properties it         *)
(* carries.  The argument: the worker's copies never outrun the informer   *)
(* cache while an object is being deleted, so a deleted object is only let *)
(* go once the cache shows it deleted; and a write to a HelmChartConfig    *)
(* succeeds only on the object that was read, so that the checks made on   *)
(* the copy hold of the object.                                            *)

\* What TypeOK says of one object.
LEMMA ObjectsTyped ==
    ASSUME TypeOK
    PROVE  /\ \A c \in Components : /\ ip[c] \in ImagePatch /\ ip[c].rv \in Nat
                                    /\ cache[c] \in ImagePatch /\ cache[c].rv \in Nat
                                    /\ ChartOf[c] \in Charts /\ KeyOf[c] \in Keys
           /\ \A ch \in Charts : hcc[ch] \in HelmChartConfig /\ hcc[ch].rv \in Nat
           /\ rec \in Reconcile /\ rec.c \in Components /\ rec.obj \in ImagePatch
           /\ rec.obj.rv \in Nat /\ rec.cur \in HelmChartConfig /\ rec.cur.rv \in Nat
           /\ rec.on \in Releases /\ rec.obj.tag \in Tags
           /\ ChartOf[rec.c] \in Charts
           /\ ClusterTypeOK
BY ComponentsAssumption
DEF TypeOK, ClusterTypeOK, ImagePatch, HelmChartConfig, Reconcile

---------------------------------------------------------------------------
(* Steps that leave the objects and the cache alone.                       *)

\* Nothing the cache or the objects say changes.
LEMMA ObjectsUnchanged ==
    ASSUME Consistent, UNCHANGED <<ip, hcc, cache>>
    PROVE  CacheConsistent' /\ NoOrphanedPatch' /\ OneReleasePatched'
           /\ (\A ch \in Charts : ~hcc'[ch].exists => EmptyConfig(hcc'[ch]))
BY DEF Consistent, CacheConsistent, CopyOf, NoOrphanedPatch, OneReleasePatched,
       ConfigConsistent, EmptyConfig, Managed

\* A worker that is idle knows nothing that could be wrong.
LEMMA WorkerStops ==
    ASSUME CacheConsistent', NoOrphanedPatch', OneReleasePatched', rec' = Idle,
           \A ch \in Charts : ~hcc'[ch].exists => EmptyConfig(hcc'[ch])
    PROVE  Consistent'
<1>1. rec'.pc = "idle" /\ rec'.cur = NoConfig
  BY DEF Idle
<1>2. ~NoConfig.exists /\ EmptyConfig(NoConfig)
  BY DEF NoConfig, EmptyConfig
<1>3. WorkerConsistent'
  BY <1>1 DEF WorkerConsistent
<1>4. ConfigConsistent'
  BY <1>1, <1>2 DEF ConfigConsistent, EmptyConfig
<1> QED
  BY <1>3, <1>4 DEF Consistent

\* A reconcile that goes on, not to one of the steps that write a
\* HelmChartConfig or remove the finalizer, knows what it knew.
LEMMA WorkerGoesOn ==
    ASSUME TypeOK, Consistent, UNCHANGED <<ip, hcc, cache>>,
           rec.pc \notin {"idle", "addFinalizer"}, ~rec.obj.deleting,
           rec'.c = rec.c, rec'.obj = rec.obj,
           rec'.cur = rec.cur \/ rec'.cur = hcc[ChartOf[rec.c]],
           rec'.pc \notin {"idle", "apply", "addFinalizer", "finalize", "removeFinalizer"},
           rec'.pc \in {"mark", "revert"} => Managed(rec'.cur, rec.c)
    PROVE  Consistent'
<1>1. WorkerConsistent'
  BY DEF Consistent, WorkerConsistent, CopyOf
<1>2. ConfigConsistent'
  <2>1. IF rec'.cur.exists THEN CopyOf(rec'.cur, hcc[ChartOf[rec.c]])
                           ELSE EmptyConfig(rec'.cur)
    BY ObjectsTyped DEF Consistent, ConfigConsistent, CopyOf
  <2>2. \A ch \in Charts : ~hcc'[ch].exists => EmptyConfig(hcc'[ch])
    BY ObjectsUnchanged
  <2> QED
    BY <2>1, <2>2 DEF ConfigConsistent, CopyOf, EmptyConfig, Managed
<1> QED
  BY <1>1, <1>2, ObjectsUnchanged DEF Consistent

\* A call that failed, with the objects as they were.
LEMMA FailureIsSafe ==
    ASSUME TypeOK, Consistent, UNCHANGED <<ip, hcc, cache>>, rec.pc # "idle", Failed
    PROVE  Consistent'
<1>1. CASE rec.obj.deleting \/ rec.pc \in {"addFinalizer", "status"}
  <2>1. rec' = Idle
    BY <1>1 DEF Failed, Finish
  <2> QED
    BY <2>1, ObjectsUnchanged, WorkerStops
<1>2. CASE ~(rec.obj.deleting \/ rec.pc \in {"addFinalizer", "status"})
  <2>1. rec' = [rec EXCEPT !.pc = "status", !.out = "Error"]
    BY <1>2 DEF Failed, Outcome
  <2>2. rec'.pc = "status" /\ rec'.c = rec.c /\ rec'.obj = rec.obj /\ rec'.cur = rec.cur
    BY <2>1, ObjectsTyped DEF Reconcile
  <2> QED
    BY <1>2, <2>2, WorkerGoesOn
<1> QED
  BY <1>1, <1>2

\* The reads and decisions of reconcilePatch.
LEMMA ReadsAreSafe ==
    ASSUME TypeOK, Consistent,
           \/ ReadCLIState \/ ReadVersion \/ ReadChart \/ ReadConfig
           \/ ReportReverted \/ ReadImages \/ ImagesUnavailable
    PROVE  Consistent'
<1> USE ObjectsTyped DEF Reconcile
<1>1. UNCHANGED <<ip, hcc, cache>>
  BY DEF ReadCLIState, ReadVersion, ReadChart, ReadConfig, ReportReverted, ReadImages,
         ImagesUnavailable, clusterVars
<1>2. ~rec.obj.deleting /\ rec.pc \notin {"idle", "addFinalizer"}
  BY DEF Consistent, WorkerConsistent, ReadCLIState, ReadVersion, ReadChart, ReadConfig,
         ReportReverted, ReadImages, ImagesUnavailable
<1>3. rec'.c = rec.c /\ rec'.obj = rec.obj
      /\ (rec'.cur = rec.cur \/ rec'.cur = hcc[ChartOf[rec.c]])
      /\ rec'.pc \notin {"idle", "apply", "addFinalizer", "finalize", "removeFinalizer"}
      /\ (rec'.pc \in {"mark", "revert"} => Managed(rec'.cur, rec.c))
  <2>1. CASE ReadCLIState
    BY <2>1 DEF ReadCLIState, Outcome, Goto
  <2>2. CASE ReadVersion
    BY <2>2 DEF ReadVersion
  <2>3. CASE ReadChart
    BY <2>3 DEF ReadChart, Outcome
  <2>4. CASE ReadConfig
    BY <2>4 DEF ReadConfig, UpgradeCheck
  <2>5. CASE ReportReverted
    BY <2>5 DEF ReportReverted
  <2>6. CASE ReadImages
    BY <2>6 DEF ReadImages
  <2>7. CASE ImagesUnavailable
    BY <2>7 DEF ImagesUnavailable, Outcome
  <2> QED
    BY <2>1, <2>2, <2>3, <2>4, <2>5, <2>6, <2>7
<1> QED
  BY <1>1, <1>2, <1>3, WorkerGoesOn

\* Validate is what makes the write safe: no other component holds a patch of
\* another version, and the slot is ours, empty, or already holds the tag.
LEMMA ValidateIsSafe ==
    ASSUME TypeOK, Consistent, Validate
    PROVE  Consistent'
<1> USE ObjectsTyped
<1>1. UNCHANGED <<ip, hcc, cache>> /\ rec.pc = "validate" /\ ~rec.obj.deleting
  BY DEF Validate, clusterVars, Consistent, WorkerConsistent
<1>2. CASE Refusal(rec) # "ok"
  <2>1. rec' = [rec EXCEPT !.pc = "status", !.out = Refusal(rec)]
    BY <1>2 DEF Validate, Outcome
  <2>2. rec'.pc = "status" /\ rec'.c = rec.c /\ rec'.obj = rec.obj /\ rec'.cur = rec.cur
    BY <2>1 DEF Reconcile
  <2> QED
    BY <1>1, <2>2, WorkerGoesOn
<1>3. CASE Refusal(rec) = "ok"
  <2>1. rec'.pc = "apply" /\ rec'.c = rec.c /\ rec'.obj = rec.obj /\ rec'.cur = rec.cur
        /\ rec'.on = rec.on
    BY <1>3 DEF Validate, Goto, Reconcile
  <2>2. StalePatches(rec.on, rec.c) = {}
        /\ (Managed(rec.cur, rec.c) \/ rec.cur.values[KeyOf[rec.c]] \in {NoTag, rec.obj.tag})
    BY <1>3, RefusalTyped
  <2>3. \A d \in Components \ {rec.c} :
           Managed(hcc[ChartOf[d]], d) => hcc[ChartOf[d]].managedOn[d] = rec.on
    BY <2>2 DEF StalePatches
  <2>4. WorkerConsistent'
    BY <1>1, <2>1 DEF Consistent, WorkerConsistent, CopyOf
  <2>5. ConfigConsistent'
    BY <1>1, <2>1, <2>2, <2>3 DEF Consistent, ConfigConsistent, CopyOf, EmptyConfig, Managed
  <2> QED
    BY <1>1, <2>4, <2>5, ObjectsUnchanged DEF Consistent
<1> QED
  BY <1>2, <1>3

\* finalize looks at the HelmChartConfig of a deleted ImagePatch.
LEMMA FinalizeIsSafe ==
    ASSUME TypeOK, Consistent, Finalize
    PROVE  Consistent'
<1> USE ObjectsTyped
<1>1. UNCHANGED <<ip, hcc, cache>> /\ rec.obj.deleting /\ rec.pc = "finalize"
  BY DEF Finalize, clusterVars, Consistent, WorkerConsistent
<1>2. rec'.c = rec.c /\ rec'.obj = rec.obj /\ rec'.cur = hcc[ChartOf[rec.c]]
      /\ rec'.pc = IF Managed(rec'.cur, rec.c) THEN "revert" ELSE "removeFinalizer"
  BY DEF Finalize, Reconcile
<1>3. WorkerConsistent'
  BY <1>1, <1>2 DEF Consistent, WorkerConsistent, CopyOf
<1>4. ConfigConsistent'
  BY <1>1, <1>2 DEF Consistent, ConfigConsistent, CopyOf, EmptyConfig, Managed
<1> QED
  BY <1>1, <1>3, <1>4, ObjectsUnchanged DEF Consistent

\* A reconcile starts from a copy in the cache.
LEMMA DequeueIsSafe ==
    ASSUME TypeOK, Consistent, NEW c \in Components, Dequeue(c)
    PROVE  Consistent'
<1> USE ObjectsTyped
<1>1. UNCHANGED <<ip, hcc, cache>>
  BY DEF Dequeue, clusterVars
<1>2. CASE ~cache[c].exists \/ (cache[c].deleting /\ ~cache[c].finalizer)
  <2>1. rec' = rec /\ rec.pc = "idle"
    BY <1>2 DEF Dequeue
  <2>2. WorkerConsistent' /\ ConfigConsistent'
    BY <1>1, <2>1 DEF Consistent, WorkerConsistent, ConfigConsistent, CopyOf, EmptyConfig, Managed
  <2> QED
    BY <1>1, <2>2, ObjectsUnchanged DEF Consistent
<1>3. CASE ~(~cache[c].exists \/ (cache[c].deleting /\ ~cache[c].finalizer))
  <2>1. rec' = [Idle EXCEPT !.c = c, !.obj = cache[c],
                  !.applied = cache[c].status.appliedTag,
                  !.pc = IF cache[c].deleting THEN "finalize"
                         ELSE IF cache[c].finalizer THEN "cliState" ELSE "addFinalizer"]
    BY <1>3 DEF Dequeue
  <2>2. rec'.c = c /\ rec'.obj = cache[c] /\ rec'.cur = NoConfig
        /\ rec'.pc = IF cache[c].deleting THEN "finalize"
                     ELSE IF cache[c].finalizer THEN "cliState" ELSE "addFinalizer"
    BY <2>1 DEF Idle
  <2>3. WorkerConsistent'
    BY <1>1, <1>3, <2>2 DEF Consistent, WorkerConsistent, CacheConsistent, CopyOf
  <2>4. ~NoConfig.exists /\ EmptyConfig(NoConfig)
    BY DEF NoConfig, EmptyConfig
  <2>5. \A ch \in Charts : ~hcc'[ch].exists => EmptyConfig(hcc'[ch])
    BY <1>1, ObjectsUnchanged
  <2>6. rec'.pc \notin {"mark", "revert", "removeFinalizer", "apply"} /\ ~rec'.cur.exists
        /\ EmptyConfig(rec'.cur)
    BY <2>2, <2>4
  <2>7. ConfigConsistent'
    BY <2>5, <2>6 DEF ConfigConsistent, EmptyConfig
  <2> QED
    BY <1>1, <2>3, <2>7, ObjectsUnchanged DEF Consistent
<1> QED
  BY <1>2, <1>3

---------------------------------------------------------------------------
(* Writes to an ImagePatch.                                                *)

\* An update of the version the worker holds is an update of that object.
LEMMA UpdateOfCopy ==
    ASSUME TypeOK, Consistent, rec.pc # "idle", CanUpdate(rec.c, rec.obj)
    PROVE  ip[rec.c] = rec.obj /\ ip[rec.c].exists
BY ObjectsTyped DEF Consistent, WorkerConsistent, CopyOf, CanUpdate

\* A write that raises the version and keeps the finalizer leaves every lagging
\* copy older than the object.
LEMMA WriteKeepsFinalizer ==
    ASSUME TypeOK, Consistent, NEW c \in Components, NEW new,
           ip' = [ip EXCEPT ![c] = new], new.rv = ip[c].rv + 1,
           ip[c].exists /\ ip[c].finalizer => new.exists /\ new.finalizer,
           UNCHANGED <<hcc, cache>>
    PROVE  CacheConsistent' /\ NoOrphanedPatch' /\ OneReleasePatched'
           /\ (\A ch \in Charts : ~hcc'[ch].exists => EmptyConfig(hcc'[ch]))
<1> USE ObjectsTyped
<1>1. \A d \in Components : ip'[d] = IF d = c THEN new ELSE ip[d]
  BY DEF TypeOK, ClusterTypeOK
<1>2. CacheConsistent'
  <2>1. ASSUME NEW d \in Components
        PROVE  CopyOf(cache[d], ip'[d])
               /\ (cache[d].exists /\ ~cache[d].deleting /\ cache[d].finalizer
                      => ip'[d].exists /\ ip'[d].finalizer)
    BY <1>1 DEF Consistent, CacheConsistent, CopyOf
  <2> QED
    BY <2>1 DEF CacheConsistent, CopyOf
<1>3. NoOrphanedPatch'
  BY <1>1 DEF Consistent, NoOrphanedPatch, Managed
<1>4. OneReleasePatched' /\ (\A ch \in Charts : ~hcc'[ch].exists => EmptyConfig(hcc'[ch]))
  BY DEF Consistent, OneReleasePatched, Managed, ConfigConsistent, EmptyConfig
<1> QED
  BY <1>2, <1>3, <1>4

\* Adding the finalizer, and the two writes of the reverted-generation marker.
LEMMA MetadataWritesAreSafe ==
    ASSUME TypeOK, Consistent, AddFinalizer \/ ClearMarker \/ MarkReverted
    PROVE  Consistent'
<1> USE ObjectsTyped
<1>1. UNCHANGED <<hcc, cache>> /\ rec.pc \in {"addFinalizer", "clearMarker", "mark"}
      /\ ~rec.obj.deleting /\ rec.obj.exists
  BY DEF AddFinalizer, ClearMarker, MarkReverted, Consistent, WorkerConsistent
<1>2. CASE ~CanUpdate(rec.c, rec.obj)
  BY <1>1, <1>2, FailureIsSafe DEF AddFinalizer, ClearMarker, MarkReverted
<1>3. CASE CanUpdate(rec.c, rec.obj)
  <2>1. PICK obj \in ImagePatch :
           /\ UpdateImagePatch(rec.c, obj)
           /\ obj.exists /\ ~obj.deleting
           /\ rec.obj.finalizer => obj.finalizer
           /\ AddFinalizer => obj.finalizer
    <3>1. CASE AddFinalizer
      <4>1. [rec.obj EXCEPT !.finalizer = TRUE] \in ImagePatch
        BY DEF ImagePatch
      <4> QED
        BY <1>1, <1>3, <3>1, <4>1 DEF AddFinalizer, ImagePatch
    <3>2. CASE ClearMarker
      <4>1. [rec.obj EXCEPT !.revertedGeneration = 0] \in ImagePatch
        BY DEF ImagePatch
      <4> QED
        BY <1>1, <1>3, <3>2, <4>1 DEF ClearMarker, AddFinalizer, ImagePatch
    <3>3. CASE MarkReverted
      <4>1. [rec.obj EXCEPT !.revertedGeneration = rec.obj.generation] \in ImagePatch
        BY DEF ImagePatch
      <4> QED
        BY <1>1, <1>3, <3>3, <4>1 DEF MarkReverted, AddFinalizer, ImagePatch
    <3> QED
      BY <3>1, <3>2, <3>3
  <2> DEFINE new == [obj EXCEPT !.rv = ip[rec.c].rv + 1, !.status = ip[rec.c].status]
  <2>2. ip' = [ip EXCEPT ![rec.c] = new]
    BY <2>1 DEF UpdateImagePatch
  <2>3. /\ new.rv = ip[rec.c].rv + 1 /\ new.exists /\ ~new.deleting
        /\ new.finalizer = obj.finalizer
    BY <2>1 DEF ImagePatch
  <2>4. ip'[rec.c] = new
    BY <2>2 DEF TypeOK, ClusterTypeOK
  <2>5. ip[rec.c] = rec.obj
    BY <1>1, <1>3, UpdateOfCopy
  <2>6. new.finalizer
    <3>1. AddFinalizer \/ rec.obj.finalizer
      BY <1>1, <2>5 DEF Consistent, WorkerConsistent, ClearMarker, MarkReverted
    <3> QED
      BY <2>1, <2>3, <3>1
  <2> HIDE DEF new
  <2>7. /\ CacheConsistent' /\ NoOrphanedPatch' /\ OneReleasePatched'
        /\ (\A ch \in Charts : ~hcc'[ch].exists => EmptyConfig(hcc'[ch]))
    BY <1>1, <2>2, <2>3, <2>6, WriteKeepsFinalizer
  <2>8. /\ rec'.c = rec.c /\ rec'.obj = new /\ rec'.cur = rec.cur
        /\ rec'.pc \in {"cliState", "images", "mark", "status", "revert"}
        /\ rec'.pc \in {"mark", "revert"} => Managed(rec.cur, rec.c)
    <3>1. CASE AddFinalizer
      BY <1>3, <2>4, <3>1 DEF AddFinalizer, Reconcile
    <3>2. CASE ClearMarker
      <4>1. rec' = UpgradeCheck([rec EXCEPT !.obj = new])
        BY <1>3, <2>4, <3>2 DEF ClearMarker
      <4> QED
        BY <4>1 DEF UpgradeCheck, Reconcile
    <3>3. CASE MarkReverted
      <4>1. Managed(rec.cur, rec.c)
        BY <3>3 DEF Consistent, ConfigConsistent, MarkReverted
      <4> QED
        BY <1>3, <2>4, <3>3, <4>1 DEF MarkReverted, Reconcile
    <3> QED
      BY <3>1, <3>2, <3>3
  <2>9. WorkerConsistent'
    BY <2>3, <2>4, <2>6, <2>8 DEF WorkerConsistent, CopyOf
  <2>10. ConfigConsistent'
    BY <1>1, <2>7, <2>8
    DEF Consistent, ConfigConsistent, CopyOf, EmptyConfig, Managed
  <2> QED
    BY <2>7, <2>9, <2>10 DEF Consistent
<1> QED
  BY <1>2, <1>3

\* A status write changes neither the finalizer nor the spec.
LEMMA StatusWriteIsSafe ==
    ASSUME TypeOK, Consistent, WriteStatus
    PROVE  Consistent'
<1> USE ObjectsTyped
<1>1. UNCHANGED <<hcc, cache>> /\ rec' = Idle
  BY DEF WriteStatus, Finish
<1>2. CASE UNCHANGED ip
  BY <1>1, <1>2, ObjectsUnchanged, WorkerStops
<1>3. ASSUME NEW status, UpdateStatus(rec.c, status)
      PROVE  Consistent'
  <2> DEFINE new == [ip[rec.c] EXCEPT !.status = status, !.rv = @ + 1]
  <2>1. ip' = [ip EXCEPT ![rec.c] = new]
    BY <1>3 DEF UpdateStatus, ImagePatch
  <2>2. new.rv = ip[rec.c].rv + 1 /\ new.exists = ip[rec.c].exists
        /\ new.finalizer = ip[rec.c].finalizer
    BY DEF ImagePatch
  <2> HIDE DEF new
  <2> QED
    BY <1>1, <2>1, <2>2, WriteKeepsFinalizer, WorkerStops
<1> QED
  BY <1>2, <1>3 DEF WriteStatus

\* The finalizer goes only once the values are gone, and only from the very
\* object the worker saw deleted; the cache cannot be behind that version.
LEMMA RemovalIsSafe ==
    ASSUME TypeOK, Consistent, RemoveFinalizer
    PROVE  Consistent'
<1> USE ObjectsTyped
<1>1. UNCHANGED <<hcc, cache>> /\ rec.pc = "removeFinalizer" /\ rec.obj.deleting
      /\ rec.obj.rv <= cache[rec.c].rv
  BY DEF RemoveFinalizer, Consistent, WorkerConsistent
<1>2. CASE ~CanUpdate(rec.c, rec.obj)
  BY <1>1, <1>2, FailureIsSafe DEF RemoveFinalizer
<1>3. CASE CanUpdate(rec.c, rec.obj)
  <2>1. ip[rec.c] = rec.obj
    BY <1>1, <1>3, UpdateOfCopy
  <2>2. cache[rec.c] = ip[rec.c]
    BY <1>1, <2>1 DEF Consistent, CacheConsistent, CopyOf
  <2>3. ~Managed(hcc[ChartOf[rec.c]], rec.c)
    BY <1>1 DEF Consistent, ConfigConsistent
  <2> DEFINE new == [NoImagePatch EXCEPT !.rv = ip[rec.c].rv + 1,
                                         !.generation = ip[rec.c].generation]
  <2>4. new.rv = ip[rec.c].rv + 1
    BY DEF NoImagePatch
  <2>5. \A d \in Components : ip'[d] = IF d = rec.c THEN new ELSE ip[d]
    BY <1>3 DEF RemoveFinalizer, RemoveImagePatch, TypeOK, ClusterTypeOK
  <2> HIDE DEF new
  <2>6. CacheConsistent'
    <3>1. ASSUME NEW d \in Components
          PROVE  CopyOf(cache[d], ip'[d])
                 /\ (cache[d].exists /\ ~cache[d].deleting /\ cache[d].finalizer
                        => ip'[d].exists /\ ip'[d].finalizer)
      BY <1>1, <2>1, <2>2, <2>4, <2>5 DEF Consistent, CacheConsistent, CopyOf
    <3> QED
      BY <1>1, <3>1 DEF CacheConsistent, CopyOf
  <2>7. NoOrphanedPatch' /\ OneReleasePatched'
        /\ (\A ch \in Charts : ~hcc'[ch].exists => EmptyConfig(hcc'[ch]))
    BY <1>1, <2>3, <2>5 DEF Consistent, NoOrphanedPatch, OneReleasePatched, Managed,
         ConfigConsistent, EmptyConfig
  <2>8. rec' = Idle
    BY <1>3 DEF RemoveFinalizer, Finish
  <2> QED
    BY <2>6, <2>7, <2>8, WorkerStops
<1> QED
  BY <1>2, <1>3

---------------------------------------------------------------------------
(* Writes to a HelmChartConfig.                                            *)

\* A write that is accepted replaces an object whose contents were read.
LEMMA ApplyOnCopy ==
    ASSUME TypeOK, Consistent, CanApply(ChartOf[rec.c], rec.cur)
    PROVE  /\ rec.cur.values = hcc[ChartOf[rec.c]].values
           /\ rec.cur.managedOn = hcc[ChartOf[rec.c]].managedOn
           /\ rec.cur.other = hcc[ChartOf[rec.c]].other
BY ObjectsTyped DEF Consistent, ConfigConsistent, CopyOf, EmptyConfig, CanApply

\* The two writes of the worker change its own slot and its own annotation.
LEMMA RevertedContents ==
    ASSUME NEW config \in HelmChartConfig, NEW c \in Components
    PROVE  /\ Reverted(config, c).managedOn = [config.managedOn EXCEPT ![c] = NoRelease]
           /\ Reverted(config, c).values = [config.values EXCEPT ![KeyOf[c]] = NoTag]
           /\ Reverted(config, c).other = config.other
BY DEF Reverted, SubtractGenerated, SetAnnotation, HelmChartConfig

LEMMA AppliedContents ==
    ASSUME NEW config \in HelmChartConfig, NEW c \in Components,
           NEW t \in OptTag, NEW v \in Releases
    PROVE  /\ SetAnnotation(MergeGenerated(config, c, t), c, v).managedOn
                 = [config.managedOn EXCEPT ![c] = v]
           /\ SetAnnotation(MergeGenerated(config, c, t), c, v).values
                 = [config.values EXCEPT ![KeyOf[c]] = t]
           /\ SetAnnotation(MergeGenerated(config, c, t), c, v).other = config.other
BY DEF MergeGenerated, SetAnnotation, HelmChartConfig

\* A write that puts the objects of Charts in another state, seen through what
\* the invariant says of them: ch is written, and for every component but
\* "own" its annotation stays or goes.
LEMMA ConfigWriteFrame ==
    ASSUME TypeOK, Consistent, NEW ch \in Charts,
           \A e \in Charts \ {ch} : hcc'[e] = hcc[e],
           hcc'[ch].rv = hcc[ch].rv + 1,
           hcc'[ch].exists \/ EmptyConfig(hcc'[ch]),
           UNCHANGED <<ip, cache>>
    PROVE  /\ CacheConsistent'
           /\ \A e \in Charts : ~hcc'[e].exists => EmptyConfig(hcc'[e])
           /\ IF rec.cur.exists THEN CopyOf(rec.cur, hcc'[ChartOf[rec.c]])
                                ELSE EmptyConfig(rec.cur)
<1> USE ObjectsTyped
<1>1. CacheConsistent'
  BY DEF Consistent, CacheConsistent, CopyOf
<1>2. \A e \in Charts : ~hcc'[e].exists => EmptyConfig(hcc'[e])
  BY DEF Consistent, ConfigConsistent, EmptyConfig
<1>3. IF rec.cur.exists THEN CopyOf(rec.cur, hcc'[ChartOf[rec.c]])
                        ELSE EmptyConfig(rec.cur)
  BY DEF Consistent, ConfigConsistent, CopyOf
<1> QED
  BY <1>1, <1>2, <1>3

\* Reverting strips the component that is being reverted, and no other.
LEMMA RevertIsSafe ==
    ASSUME TypeOK, Consistent, Revert
    PROVE  Consistent'
<1> DEFINE ch == ChartOf[rec.c]
<1> USE ObjectsTyped
<1>1. UNCHANGED <<ip, cache>> /\ rec.pc = "revert"
  BY DEF Revert
<1>2. CASE ~CanApply(ch, rec.cur)
  BY <1>1, <1>2, FailureIsSafe DEF Revert
<1>3. CASE CanApply(ch, rec.cur)
  <2>1. ApplyHelmChartConfig(ch, Reverted(rec.cur, rec.c)) /\ Reverted(rec.cur, rec.c) \in HelmChartConfig
    BY <1>3, RevertedTyped DEF Revert
  <2>2. /\ \A e \in Charts \ {ch} : hcc'[e] = hcc[e]
        /\ hcc'[ch].exists /\ hcc'[ch].rv = hcc[ch].rv + 1
        /\ hcc'[ch].managedOn = [hcc[ch].managedOn EXCEPT ![rec.c] = NoRelease]
    <3> DEFINE new == Reverted(rec.cur, rec.c)
    <3>1. new.managedOn = [rec.cur.managedOn EXCEPT ![rec.c] = NoRelease]
      BY RevertedContents
    <3>2. ApplyHelmChartConfig(ch, new) /\ new \in HelmChartConfig
      BY <2>1
    <3> HIDE DEF new
    <3> QED
      BY <1>3, <3>1, <3>2, ConfigWritten, ApplyOnCopy
  <2>3. \A d \in Components : Managed(hcc'[ChartOf[d]], d) =>
           /\ d # rec.c
           /\ Managed(hcc[ChartOf[d]], d)
           /\ hcc'[ChartOf[d]].managedOn[d] = hcc[ChartOf[d]].managedOn[d]
    BY <2>2 DEF Managed, HelmChartConfig
  <2>4. NoOrphanedPatch' /\ OneReleasePatched'
    BY <1>1, <2>3 DEF Consistent, NoOrphanedPatch, OneReleasePatched, Managed
  <2>5. /\ rec'.c = rec.c /\ rec'.obj = rec.obj /\ rec'.cur = rec.cur
        /\ rec'.pc \in {"removeFinalizer", "reverted", "status"}
        /\ rec'.pc = "removeFinalizer" <=> rec.obj.deleting
    BY <1>3 DEF Revert, Reconcile
  <2>6. WorkerConsistent'
    BY <1>1, <2>5 DEF Consistent, WorkerConsistent, CopyOf
  <2>7. ConfigConsistent'
    <3>1. /\ \A e \in Charts : ~hcc'[e].exists => EmptyConfig(hcc'[e])
          /\ IF rec.cur.exists THEN CopyOf(rec.cur, hcc'[ChartOf[rec.c]])
                               ELSE EmptyConfig(rec.cur)
      BY <1>1, <2>2, ConfigWriteFrame
    <3>2. ~Managed(hcc'[ch], rec.c)
      BY <2>3
    <3> QED
      BY <2>5, <3>1, <3>2 DEF ConfigConsistent, CopyOf, EmptyConfig, Managed
  <2> QED
    BY <1>1, <2>2, <2>4, <2>6, <2>7, ConfigWriteFrame DEF Consistent
<1> QED
  BY <1>2, <1>3

\* Applying marks the component with the version all the others carry.
LEMMA ApplyIsSafe ==
    ASSUME TypeOK, Consistent, Apply
    PROVE  Consistent'
<1> DEFINE ch == ChartOf[rec.c]
<1> USE ObjectsTyped
<1>1. /\ UNCHANGED <<ip, cache>> /\ rec.pc = "apply" /\ ~rec.obj.deleting
      /\ ip[rec.c].exists /\ ip[rec.c].finalizer
  BY DEF Apply, Consistent, WorkerConsistent
<1>2. CASE ~CanApply(ch, rec.cur)
  <2>1. UNCHANGED hcc /\ rec' = [rec EXCEPT !.pc = "status", !.out = "Retrying"]
    BY <1>2 DEF Apply, Outcome
  <2>2. rec'.pc = "status" /\ rec'.c = rec.c /\ rec'.obj = rec.obj /\ rec'.cur = rec.cur
    BY <2>1 DEF Reconcile
  <2> QED
    BY <1>1, <2>1, <2>2, WorkerGoesOn
<1>3. CASE CanApply(ch, rec.cur)
  <2> DEFINE new == SetAnnotation(MergeGenerated(rec.cur, rec.c, rec.obj.tag), rec.c, rec.on)
  <2>1. rec.obj.tag \in OptTag /\ rec.on \in Releases \cup {NoRelease}
    BY DEF OptTag
  <2>2. MergeGenerated(rec.cur, rec.c, rec.obj.tag) \in HelmChartConfig
    BY <2>1, ContentsTyped
  <2>3. new \in HelmChartConfig
    BY <2>1, <2>2, ContentsTyped
  <2>4. ApplyHelmChartConfig(ch, new)
    BY <1>3 DEF Apply
  <2>5. /\ new.managedOn = [rec.cur.managedOn EXCEPT ![rec.c] = rec.on]
        /\ new.values = [rec.cur.values EXCEPT ![KeyOf[rec.c]] = rec.obj.tag]
        /\ new.other = rec.cur.other
    BY <2>1, AppliedContents
  <2> HIDE DEF new
  <2>6. /\ \A e \in Charts \ {ch} : hcc'[e] = hcc[e]
        /\ hcc'[ch].exists /\ hcc'[ch].rv = hcc[ch].rv + 1
        /\ hcc'[ch].managedOn = [hcc[ch].managedOn EXCEPT ![rec.c] = rec.on]
    BY <1>3, <2>3, <2>4, <2>5, ConfigWritten, ApplyOnCopy
  <2>7. \A d \in Components \ {rec.c} :
           /\ hcc'[ChartOf[d]].managedOn[d] = hcc[ChartOf[d]].managedOn[d]
           /\ Managed(hcc[ChartOf[d]], d) => hcc'[ChartOf[d]].managedOn[d] = rec.on
    BY <1>1, <2>6 DEF Consistent, ConfigConsistent, HelmChartConfig
  <2>8. hcc'[ch].managedOn[rec.c] = rec.on
    BY <2>6 DEF HelmChartConfig
  <2>9. NoOrphanedPatch'
    BY <1>1, <2>7 DEF Consistent, NoOrphanedPatch, Managed
  <2>10. \A d \in Components :
            Managed(hcc'[ChartOf[d]], d) => hcc'[ChartOf[d]].managedOn[d] = rec.on
    BY <2>7, <2>8 DEF Managed
  <2>11. OneReleasePatched'
    BY <2>10 DEF OneReleasePatched, Managed
  <2>12. rec'.c = rec.c /\ rec'.obj = rec.obj /\ rec'.cur = rec.cur /\ rec'.pc = "status"
    BY <1>3 DEF Apply, Reconcile
  <2>13. WorkerConsistent'
    BY <1>1, <2>12 DEF Consistent, WorkerConsistent, CopyOf
  <2>14. CacheConsistent' /\ ConfigConsistent'
    <3>1. /\ CacheConsistent'
          /\ \A e \in Charts : ~hcc'[e].exists => EmptyConfig(hcc'[e])
          /\ IF rec.cur.exists THEN CopyOf(rec.cur, hcc'[ChartOf[rec.c]])
                               ELSE EmptyConfig(rec.cur)
      BY <1>1, <2>6, ConfigWriteFrame
    <3> QED
      BY <2>12, <3>1 DEF ConfigConsistent, CopyOf, EmptyConfig
  <2> QED
    BY <2>9, <2>11, <2>13, <2>14 DEF Consistent
<1> QED
  BY <1>2, <1>3

---------------------------------------------------------------------------
(* The informer, restarts and the environment.                             *)

LEMMA SyncAndCrashAreSafe ==
    ASSUME TypeOK, Consistent, (\E c \in Components : SyncCache(c)) \/ Crash
    PROVE  Consistent'
<1> USE ObjectsTyped
<1>1. ASSUME NEW c \in Components, SyncCache(c)
      PROVE  Consistent'
  <2>1. UNCHANGED <<ip, hcc, rec>>
        /\ \A d \in Components : cache'[d] = IF d = c THEN ip[d] ELSE cache[d]
    BY <1>1 DEF SyncCache, clusterVars, TypeOK
  <2>2. CacheConsistent'
    BY <2>1 DEF Consistent, CacheConsistent, CopyOf
  <2>3. WorkerConsistent'
    BY <2>1 DEF Consistent, WorkerConsistent, CopyOf
  <2>4. ConfigConsistent' /\ NoOrphanedPatch' /\ OneReleasePatched'
    BY <2>1 DEF Consistent, ConfigConsistent, NoOrphanedPatch, OneReleasePatched, CopyOf,
                EmptyConfig, Managed
  <2> QED
    BY <2>2, <2>3, <2>4 DEF Consistent
<1>2. CASE Crash
  <2>1. UNCHANGED <<ip, hcc>> /\ cache' = ip /\ rec' = Idle
    BY <1>2 DEF Crash
  <2>2. CacheConsistent'
    BY <2>1 DEF CacheConsistent, CopyOf
  <2>3. NoOrphanedPatch' /\ OneReleasePatched'
        /\ (\A ch \in Charts : ~hcc'[ch].exists => EmptyConfig(hcc'[ch]))
    BY <2>1 DEF Consistent, NoOrphanedPatch, OneReleasePatched, ConfigConsistent, EmptyConfig,
                Managed
  <2> QED
    BY <2>1, <2>2, <2>3, WorkerStops
<1> QED
  BY <1>1, <1>2

\* Users may create, edit and delete an ImagePatch: the API server keeps an
\* object with a finalizer.
LEMMA ImagePatchEditsAreSafe ==
    ASSUME TypeOK, Consistent, UNCHANGED <<hcc, cache, rec>>, NEW c \in Components,
           \/ \E t \in Requested, p \in Policies :
                 CreateImagePatch(c, t, p) \/ EditImagePatch(c, t, p)
           \/ RemoveMarker(c)
           \/ DeleteImagePatch(c)
    PROVE  Consistent'
<1> USE ObjectsTyped
<1>1. PICK new : /\ ip' = [ip EXCEPT ![c] = new] /\ new.rv = ip[c].rv + 1
                 /\ ip[c].exists /\ ip[c].finalizer => new.exists /\ new.finalizer
  <2>1. ASSUME NEW t \in Requested, NEW p \in Policies, CreateImagePatch(c, t, p)
        PROVE  \E new : /\ ip' = [ip EXCEPT ![c] = new] /\ new.rv = ip[c].rv + 1
                        /\ ip[c].exists /\ ip[c].finalizer => new.exists /\ new.finalizer
    <3> DEFINE n == [NoImagePatch EXCEPT !.exists = TRUE, !.rv = ip[c].rv + 1,
                        !.generation = ip[c].generation + 1, !.tag = t, !.upgradePolicy = p]
    <3>1. ip' = [ip EXCEPT ![c] = n] /\ ~ip[c].exists
      BY <2>1 DEF CreateImagePatch
    <3>2. n.rv = ip[c].rv + 1
      BY DEF NoImagePatch
    <3> HIDE DEF n
    <3> QED
      BY <3>1, <3>2
  <2>2. ASSUME NEW t \in Requested, NEW p \in Policies, EditImagePatch(c, t, p)
        PROVE  \E new : /\ ip' = [ip EXCEPT ![c] = new] /\ new.rv = ip[c].rv + 1
                        /\ ip[c].exists /\ ip[c].finalizer => new.exists /\ new.finalizer
    <3> DEFINE n == [ip[c] EXCEPT !.rv = ip[c].rv + 1,
                        !.generation = ip[c].generation + 1, !.tag = t, !.upgradePolicy = p]
    <3>1. ip' = [ip EXCEPT ![c] = n]
      BY <2>2 DEF EditImagePatch
    <3>2. n.rv = ip[c].rv + 1 /\ n.exists = ip[c].exists /\ n.finalizer = ip[c].finalizer
      BY DEF ImagePatch
    <3> HIDE DEF n
    <3> QED
      BY <3>1, <3>2
  <2>3. CASE RemoveMarker(c)
    <3> DEFINE n == [ip[c] EXCEPT !.rv = ip[c].rv + 1, !.revertedGeneration = 0]
    <3>1. ip' = [ip EXCEPT ![c] = n]
      BY <2>3 DEF RemoveMarker
    <3>2. n.rv = ip[c].rv + 1 /\ n.exists = ip[c].exists /\ n.finalizer = ip[c].finalizer
      BY DEF ImagePatch
    <3> HIDE DEF n
    <3> QED
      BY <3>1, <3>2
  <2>4. CASE DeleteImagePatch(c) /\ ip[c].finalizer
    <3> DEFINE n == [ip[c] EXCEPT !.rv = ip[c].rv + 1,
                        !.generation = ip[c].generation + 1, !.deleting = TRUE]
    <3>1. ip' = [ip EXCEPT ![c] = n]
      BY <2>4 DEF DeleteImagePatch
    <3>2. n.rv = ip[c].rv + 1 /\ n.exists = ip[c].exists /\ n.finalizer = ip[c].finalizer
      BY DEF ImagePatch
    <3> HIDE DEF n
    <3> QED
      BY <3>1, <3>2
  <2>5. CASE DeleteImagePatch(c) /\ ~ip[c].finalizer
    <3> DEFINE n == [NoImagePatch EXCEPT !.rv = ip[c].rv + 1, !.generation = ip[c].generation]
    <3>1. ip' = [ip EXCEPT ![c] = n]
      BY <2>5 DEF DeleteImagePatch, RemoveImagePatch
    <3>2. n.rv = ip[c].rv + 1
      BY DEF NoImagePatch
    <3> HIDE DEF n
    <3> QED
      BY <2>5, <3>1, <3>2
  <2> QED
    BY <2>1, <2>2, <2>3, <2>4, <2>5
<1>2. CacheConsistent' /\ NoOrphanedPatch' /\ OneReleasePatched'
  BY <1>1, WriteKeepsFinalizer
<1>3. WorkerConsistent'
  <2>1. \A d \in Components : ip'[d] = IF d = c THEN new ELSE ip[d]
    BY <1>1 DEF TypeOK, ClusterTypeOK
  <2> QED
    BY <1>1, <2>1 DEF Consistent, WorkerConsistent, CopyOf
<1>4. ConfigConsistent'
  BY DEF Consistent, ConfigConsistent, CopyOf, EmptyConfig, Managed
<1> QED
  BY <1>2, <1>3, <1>4 DEF Consistent

\* Users may edit or delete a HelmChartConfig: they do not set annotations, and
\* whatever they do makes the copy of the worker an old one.
LEMMA ConfigEditsAreSafe ==
    ASSUME TypeOK, Consistent, UNCHANGED <<ip, cache, rec>>, NEW ch \in Charts,
           \A e \in Charts \ {ch} : hcc'[e] = hcc[e],
           hcc'[ch].rv = hcc[ch].rv + 1,
           \/ hcc'[ch].exists /\ hcc'[ch].managedOn = hcc[ch].managedOn
           \/ EmptyConfig(hcc'[ch])
    PROVE  Consistent'
<1> USE ObjectsTyped
<1>1. /\ CacheConsistent'
      /\ \A e \in Charts : ~hcc'[e].exists => EmptyConfig(hcc'[e])
      /\ IF rec.cur.exists THEN CopyOf(rec.cur, hcc'[ChartOf[rec.c]])
                           ELSE EmptyConfig(rec.cur)
  BY ConfigWriteFrame
<1>2. \A d \in Components : Managed(hcc'[ChartOf[d]], d) =>
         /\ Managed(hcc[ChartOf[d]], d)
         /\ hcc'[ChartOf[d]].managedOn[d] = hcc[ChartOf[d]].managedOn[d]
  BY DEF Managed, EmptyConfig, NoConfig
<1>3. NoOrphanedPatch' /\ OneReleasePatched'
  BY <1>2 DEF Consistent, NoOrphanedPatch, OneReleasePatched, Managed
<1>4. WorkerConsistent'
  BY DEF Consistent, WorkerConsistent, CopyOf
<1>5. ConfigConsistent'
  BY <1>1, <1>2 DEF Consistent, ConfigConsistent, CopyOf, EmptyConfig, Managed
<1> QED
  BY <1>1, <1>3, <1>4, <1>5 DEF Consistent

LEMMA EnvironmentIsSafe ==
    ASSUME TypeOK, Consistent, EnvironmentStep
    PROVE  Consistent'
<1> USE ObjectsTyped
<1>1. UNCHANGED <<cache, rec>>
  BY DEF EnvironmentStep, UpgradeStep
<1>2. ASSUME NEW c \in Components,
             \/ \E t \in Requested, p \in Policies :
                   CreateImagePatch(c, t, p) \/ EditImagePatch(c, t, p)
             \/ RemoveMarker(c)
             \/ DeleteImagePatch(c)
      PROVE  Consistent'
  <2>1. UNCHANGED hcc
    BY <1>2 DEF CreateImagePatch, EditImagePatch, RemoveMarker, DeleteImagePatch
  <2> QED
    BY <1>1, <1>2, <2>1, ImagePatchEditsAreSafe
<1>3. ASSUME NEW c \in Components, NEW t \in Requested \cup {NoTag}, OverrideImage(c, t)
      PROVE  Consistent'
  <2> DEFINE new == MergeGenerated(hcc[ChartOf[c]], c, t)
  <2>1. t \in OptTag /\ ChartOf[c] \in Charts
    BY TagsAssumption DEF OptTag
  <2>2. new.managedOn = hcc[ChartOf[c]].managedOn
    BY <2>1 DEF MergeGenerated, HelmChartConfig
  <2>3. UNCHANGED ip /\ ApplyHelmChartConfig(ChartOf[c], new)
    BY <1>3 DEF OverrideImage
  <2>4. new \in HelmChartConfig
    BY <2>1, ContentsTyped
  <2> HIDE DEF new
  <2> QED
    BY <1>1, <2>1, <2>2, <2>3, <2>4, ConfigWritten, ConfigEditsAreSafe
<1>4. ASSUME NEW ch \in Charts, EditOtherValues(ch)
      PROVE  Consistent'
  <2> DEFINE new == [hcc[ch] EXCEPT !.other = @ + 1]
  <2>1. hcc[ch].other < MaxOther /\ UNCHANGED ip /\ ApplyHelmChartConfig(ch, new)
    BY <1>4 DEF EditOtherValues
  <2>2. hcc[ch].other + 1 \in 0..MaxOther
    BY <2>1, BoundsAssumption DEF HelmChartConfig
  <2>3. new \in HelmChartConfig /\ new.managedOn = hcc[ch].managedOn
    BY <2>2 DEF HelmChartConfig
  <2> HIDE DEF new
  <2> QED
    BY <1>1, <2>1, <2>3, ConfigWritten, ConfigEditsAreSafe
<1>5. ASSUME NEW ch \in Charts, DeleteConfig(ch)
      PROVE  Consistent'
  <2>1. /\ UNCHANGED ip
        /\ \A e \in Charts \ {ch} : hcc'[e] = hcc[e]
        /\ hcc'[ch] = [NoConfig EXCEPT !.rv = hcc[ch].rv + 1]
    BY <1>5 DEF DeleteConfig, TypeOK, ClusterTypeOK
  <2>2. hcc'[ch].rv = hcc[ch].rv + 1 /\ EmptyConfig(hcc'[ch])
    BY <2>1 DEF EmptyConfig, NoConfig
  <2> QED
    BY <1>1, <2>1, <2>2, ConfigEditsAreSafe
<1>6. ASSUME PlatformStep \/ CLIReverts \/ UpgradeVersion \/ (\E c \in Components : CLIPatches(c))
      PROVE  Consistent'
  <2>1. UNCHANGED <<ip, hcc>>
    BY <1>6 DEF PlatformStep, CLIReverts, UpgradeVersion, CLIPatches, UpgradeChart, Rollout
  <2> QED
    BY <1>1, <2>1 DEF Consistent, CacheConsistent, WorkerConsistent, ConfigConsistent,
       NoOrphanedPatch, OneReleasePatched, CopyOf, EmptyConfig, Managed
<1> QED
  BY <1>2, <1>3, <1>4, <1>5, <1>6 DEF EnvironmentStep, UpgradeStep, UserStep

---------------------------------------------------------------------------
(* The theorems.                                                           *)

LEMMA StartIsConsistent ==
    ASSUME Init
    PROVE  Consistent
<1>1. /\ \A c \in Components : ip[c] = NoImagePatch /\ cache[c] = NoImagePatch
      /\ \A ch \in Charts : hcc[ch] = NoConfig
      /\ rec = Idle
  BY DEF Init, ClusterInit
<1>2. ~NoConfig.exists /\ EmptyConfig(NoConfig) /\ \A c \in Components : ~Managed(NoConfig, c)
  BY DEF NoConfig, EmptyConfig, Managed
<1>3. Idle.pc = "idle" /\ Idle.cur = NoConfig /\ ~NoImagePatch.exists
  BY DEF Idle, NoImagePatch
<1>4. NoImagePatch.rv \in Nat
  BY DEF NoImagePatch
<1>5. CacheConsistent
  BY <1>1, <1>3, <1>4 DEF CacheConsistent, CopyOf
<1>6. WorkerConsistent
  BY <1>1, <1>3 DEF WorkerConsistent
<1>7. ConfigConsistent
  BY <1>1, <1>2, <1>3 DEF ConfigConsistent
<1>8. NoOrphanedPatch /\ OneReleasePatched
  BY <1>1, <1>2, ComponentsAssumption DEF NoOrphanedPatch, OneReleasePatched
<1> QED
  BY <1>5, <1>6, <1>7, <1>8 DEF Consistent

LEMMA StepIsSafe ==
    ASSUME TypeOK, Consistent, Next
    PROVE  Consistent'
<1>1. CASE WorkerStep
  BY <1>1, ReadsAreSafe, ValidateIsSafe, FinalizeIsSafe, MetadataWritesAreSafe,
     StatusWriteIsSafe, RemovalIsSafe, RevertIsSafe, ApplyIsSafe
  DEF WorkerStep
<1>2. CASE \E c \in Components : Dequeue(c) \/ SyncCache(c)
  BY <1>2, DequeueIsSafe, SyncAndCrashAreSafe
<1>3. CASE CallFails
  BY <1>3, FailureIsSafe DEF CallFails
<1>4. CASE Crash
  BY <1>4, SyncAndCrashAreSafe
<1>5. CASE EnvironmentStep
  BY <1>5, EnvironmentIsSafe
<1> QED
  BY <1>1, <1>2, <1>3, <1>4, <1>5 DEF Next, ControllerStep

\* A step of somebody else that touches nothing the worker knows of.
LEMMA NothingSeenIsSafe ==
    ASSUME Consistent, UNCHANGED <<ip, hcc, cache, rec>>
    PROVE  Consistent'
BY DEF Consistent, CacheConsistent, WorkerConsistent, ConfigConsistent,
       NoOrphanedPatch, OneReleasePatched, CopyOf, EmptyConfig, Managed

\* Consistent is an inductive invariant: what the worker and its cache know
\* agrees with the API server as far as its writes rely on it.
THEOREM ConsistentAlways == Spec => []Consistent
<1>1. Init => Consistent
  BY StartIsConsistent
<1>2. TypeOK /\ Consistent /\ [Next]_vars => Consistent'
  BY StepIsSafe, NothingSeenIsSafe DEF vars, clusterVars
<1> QED
  BY <1>1, <1>2, TypeCorrect, PTL DEF Spec

\* No managed value ever outlives the finalizer of its ImagePatch (finalize).
THEOREM NoPatchIsOrphaned == Spec => []NoOrphanedPatch
<1>1. Consistent => NoOrphanedPatch
  BY DEF Consistent
<1> QED
  BY <1>1, ConsistentAlways, PTL

\* All managed values belong to one RKE2 version (stalePatches).
THEOREM OneReleaseAtATime == Spec => []OneReleasePatched
<1>1. Consistent => OneReleasePatched
  BY DEF Consistent
<1> QED
  BY <1>1, ConsistentAlways, PTL

\* A write of the worker leaves every other value, annotation and object as it
\* is, and never takes a slot that someone else filled (revert, apply).
THEOREM OnlyOwnValuesAreWritten == Spec => OnlyOwnValuesWritten
<1> DEFINE ch == ChartOf[rec.c]
           Own == /\ \A other \in Charts \ {ch} : hcc'[other] = hcc[other]
                  /\ \A k \in Keys \ {KeyOf[rec.c]} : hcc'[ch].values[k] = hcc[ch].values[k]
                  /\ \A d \in Components \ {rec.c} :
                        hcc'[ch].managedOn[d] = hcc[ch].managedOn[d]
                  /\ hcc'[ch].other = hcc[ch].other
                  /\ \/ Managed(hcc[ch], rec.c)
                     \/ hcc[ch].values[KeyOf[rec.c]] \in {NoTag, rec.obj.tag}
<1>1. ASSUME TypeOK, Consistent, [Next]_vars, WorkerWrites
      PROVE  Own
  <2> USE <1>1, ObjectsTyped
  <2>1. CanApply(ch, rec.cur) /\ (Revert \/ Apply)
    <3>1. hcc' # hcc /\ rec' # rec
      BY <1>1 DEF WorkerWrites
    <3>2. ~EnvironmentStep /\ ~UNCHANGED vars
      BY <3>1 DEF EnvironmentStep, UpgradeStep, vars
    <3>3. ~(\E c \in Components : Dequeue(c) \/ SyncCache(c)) /\ ~CallFails /\ ~Crash
      BY <3>1 DEF Dequeue, SyncCache, CallFails, Crash, clusterVars
    <3>4. WorkerStep
      BY <1>1, <3>2, <3>3 DEF Next, ControllerStep
    <3>5. Revert \/ Apply
      BY <3>1, <3>4 DEF WorkerStep, AddFinalizer, ReadCLIState, ReadVersion, ReadChart,
         ReadConfig, ClearMarker, MarkReverted, ReportReverted, ReadImages,
         ImagesUnavailable, Validate,
         WriteStatus, Finalize, RemoveFinalizer, clusterVars
    <3> QED
      BY <3>1, <3>5 DEF Revert, Apply
  <2>2. PICK content \in HelmChartConfig :
           /\ ApplyHelmChartConfig(ch, content)
           /\ \A k \in Keys \ {KeyOf[rec.c]} : content.values[k] = rec.cur.values[k]
           /\ \A d \in Components \ {rec.c} : content.managedOn[d] = rec.cur.managedOn[d]
           /\ content.other = rec.cur.other
    <3>1. CASE Revert
      <4> DEFINE new == Reverted(rec.cur, rec.c)
      <4>1. /\ new.managedOn = [rec.cur.managedOn EXCEPT ![rec.c] = NoRelease]
            /\ new.values = [rec.cur.values EXCEPT ![KeyOf[rec.c]] = NoTag]
            /\ new.other = rec.cur.other
        BY RevertedContents
      <4>2. ApplyHelmChartConfig(ch, new) /\ new \in HelmChartConfig
        BY <2>1, <3>1, RevertedTyped DEF Revert
      <4> HIDE DEF new
      <4> QED
        BY <4>1, <4>2 DEF HelmChartConfig
    <3>2. CASE Apply
      <4> DEFINE new == SetAnnotation(MergeGenerated(rec.cur, rec.c, rec.obj.tag), rec.c, rec.on)
      <4>1. rec.obj.tag \in OptTag /\ rec.on \in Releases \cup {NoRelease}
        BY DEF OptTag
      <4>2. /\ new.managedOn = [rec.cur.managedOn EXCEPT ![rec.c] = rec.on]
            /\ new.values = [rec.cur.values EXCEPT ![KeyOf[rec.c]] = rec.obj.tag]
            /\ new.other = rec.cur.other
        BY <4>1, AppliedContents
      <4>3. MergeGenerated(rec.cur, rec.c, rec.obj.tag) \in HelmChartConfig
        BY <4>1, ContentsTyped
      <4>4. new \in HelmChartConfig
        BY <4>1, <4>3, ContentsTyped
      <4>5. ApplyHelmChartConfig(ch, new)
        BY <2>1, <3>2 DEF Apply
      <4> HIDE DEF new
      <4> QED
        BY <4>2, <4>4, <4>5 DEF HelmChartConfig
    <3> QED
      BY <2>1, <3>1, <3>2
  <2>3. /\ rec.cur.values = hcc[ch].values /\ rec.cur.managedOn = hcc[ch].managedOn
        /\ rec.cur.other = hcc[ch].other
    BY <1>1, <2>1, ApplyOnCopy
  <2>4. Managed(rec.cur, rec.c) \/ rec.cur.values[KeyOf[rec.c]] \in {NoTag, rec.obj.tag}
    BY <1>1, <2>1 DEF Consistent, ConfigConsistent, Revert, Apply
  <2>5. /\ \A e \in Charts \ {ch} : hcc'[e] = hcc[e]
        /\ hcc'[ch].values = content.values /\ hcc'[ch].managedOn = content.managedOn
        /\ hcc'[ch].other = content.other
    BY <1>1, <2>2, ConfigWritten
  <2> QED
    BY <2>2, <2>3, <2>4, <2>5 DEF Managed
<1>2. TypeOK /\ Consistent /\ [Next]_vars => [WorkerWrites => Own]_vars
  BY <1>1
<1> QED
  BY <1>2, TypeCorrect, ConsistentAlways, PTL DEF Spec, OnlyOwnValuesWritten, Own, ch
=============================================================================
