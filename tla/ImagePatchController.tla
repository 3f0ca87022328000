------------------------ MODULE ImagePatchController ------------------------
(***************************************************************************)
(* The ImagePatch controller (internal/controller): one worker that takes  *)
(* components from a work queue and drives each towards its ImagePatch.    *)
(*                                                                         *)
(* The worker reads ImagePatch objects from the informer cache, which lags *)
(* behind the API server, and everything else live.  Every call to the API *)
(* server is a step of its own; what is computed between two calls belongs *)
(* to the step of the first one.  "queue" holds the components with a      *)
(* wake-up outstanding: in the work queue, in a timer (RequeueAfter, error *)
(* backoff) or in a watch event on its way.                                *)
(***************************************************************************)
EXTENDS Cluster

VARIABLES
    cache,  \* the informer's copy of the ImagePatch objects
    queue,  \* components with a wake-up outstanding
    rec     \* the reconcile in progress

vars == <<clusterVars, cache, queue, rec>>

PCs == {"idle", "addFinalizer", "cliState", "version", "chart", "config",
        "clearMarker", "mark", "revert", "reverted", "images", "validate",
        "apply", "status", "finalize", "removeFinalizer"}

\* obj: the copy of the ImagePatch; on: the cluster version read; base: the
\* bundled tag read; cur: the HelmChartConfig read; applied: the
\* status.appliedTag under construction; out: the reason of the outcome.
Reconcile == [pc : PCs, c : Components, obj : ImagePatch, on : Releases,
              base : Tags, cur : HelmChartConfig, applied : OptTag, out : Reasons]

Idle == [pc |-> "idle", c |-> CHOOSE c \in Components : TRUE, obj |-> NoImagePatch,
         on |-> 1, base |-> AnyTag, cur |-> NoConfig, applied |-> NoTag, out |-> ""]

Init ==
    /\ ClusterInit
    /\ cache = ip
    /\ queue = {}
    /\ rec = Idle

---------------------------------------------------------------------------
(* Watches (setup.go).                                                     *)

\* The components woken by what a step changes: all for a HelmChartConfig or
\* the CLI state, those of the chart for a HelmChart, one for its workload.
Woken ==
    {c \in Components : \/ hcc' # hcc
                        \/ state' # state
                        \/ bundle'[ChartOf[c]] # bundle[ChartOf[c]]
                        \/ running'[c] # running[c]}

\* The informer catches up with one object.  Updates that change neither the
\* generation nor the annotations, such as status writes, wake nobody.
SyncCache(c) ==
    /\ cache[c] # ip[c]
    /\ cache' = [cache EXCEPT ![c] = ip[c]]
    /\ queue' = IF \/ cache[c].exists # ip[c].exists
                   \/ cache[c].generation # ip[c].generation
                   \/ cache[c].revertedGeneration # ip[c].revertedGeneration
                THEN queue \cup {c} ELSE queue
    /\ UNCHANGED <<clusterVars, rec>>

---------------------------------------------------------------------------
(* Ending a reconcile.                                                     *)

\* Mutant: a rollout is left to the watch on workloads.
NoRequeueDuringRollout == {"ChartLayoutMismatch", "RKE2Upgraded", "RevertedAfterUpgrade",
                           "ConflictingOverride", "RolloutInProgress"}

\* The outcomes without a requeue: only a watch event brings them back.
NoRequeue == {"ChartLayoutMismatch", "RKE2Upgraded", "RevertedAfterUpgrade",
              "ConflictingOverride"}

\* The reconcile ends here; an error or a RequeueAfter wakes it up again.
Finish(requeue) ==
    /\ rec' = Idle
    /\ queue' = IF requeue THEN queue \cup {rec.c} ELSE queue

Goto(pc) == rec' = [rec EXCEPT !.pc = pc]

\* reconcilePatch returns: its outcome goes to writeStatus.
Outcome(reason) == rec' = [rec EXCEPT !.pc = "status", !.out = reason]

\* Mutant: Reconcile swallows the error.
FailedSilently ==
    IF rec.obj.deleting \/ rec.pc \in {"addFinalizer", "status"}
    THEN Finish(FALSE)
    ELSE Outcome("Error") /\ UNCHANGED queue

\* A call returned an error.  Reconcile and finalize return it at once;
\* reconcilePatch reports it in the status first.
Failed ==
    IF rec.obj.deleting \/ rec.pc \in {"addFinalizer", "status"}
    THEN Finish(TRUE)
    ELSE Outcome("Error") /\ UNCHANGED queue

---------------------------------------------------------------------------
(* Reconcile: from the cached copy to the finalizer.                       *)

\* Mutant: the patch comes before the finalizer.
DequeueWithoutFinalizer(c) ==
    /\ rec.pc = "idle"
    /\ c \in queue
    /\ queue' = queue \ {c}
    /\ rec' = IF ~cache[c].exists \/ (cache[c].deleting /\ ~cache[c].finalizer)
              THEN rec
              ELSE [Idle EXCEPT !.c = c, !.obj = cache[c],
                       !.applied = cache[c].status.appliedTag,
                       !.pc = IF cache[c].deleting THEN "finalize" ELSE "cliState"]
    /\ UNCHANGED <<clusterVars, cache>>

\* A copy that is gone, or deleted and without our finalizer, needs nothing.
Dequeue(c) ==
    /\ rec.pc = "idle"
    /\ c \in queue
    /\ queue' = queue \ {c}
    /\ rec' = IF ~cache[c].exists \/ (cache[c].deleting /\ ~cache[c].finalizer)
              THEN rec
              ELSE [Idle EXCEPT !.c = c, !.obj = cache[c],
                       !.applied = cache[c].status.appliedTag,
                       !.pc = IF cache[c].deleting THEN "finalize"
                              ELSE IF cache[c].finalizer THEN "cliState"
                              ELSE "addFinalizer"]
    /\ UNCHANGED <<clusterVars, cache>>

AddFinalizer ==
    /\ rec.pc = "addFinalizer"
    /\ IF CanUpdate(rec.c, rec.obj)
       THEN /\ UpdateImagePatch(rec.c, [rec.obj EXCEPT !.finalizer = TRUE])
            /\ rec' = [rec EXCEPT !.pc = "cliState", !.obj = ip'[rec.c]]
            /\ UNCHANGED queue
       ELSE Failed /\ UNCHANGED ip
    /\ UNCHANGED <<hcc, state, release, bundle, running, budget, cache>>

---------------------------------------------------------------------------
(* reconcilePatch.                                                         *)

\* Mutant: patches of the CLI are no reason to refuse.
ReadCLIStateUnheeded ==
    /\ rec.pc = "cliState"
    /\ IF ChartOf[rec.c] \notin Prime THEN Outcome("NotPrime") ELSE Goto("version")
    /\ UNCHANGED <<clusterVars, cache, queue>>

\* Only Prime clusters are patched, and only while the CLI has no patches:
\* the CLI and the controller are exclusive modes.
ReadCLIState ==
    /\ rec.pc = "cliState"
    /\ IF ChartOf[rec.c] \notin Prime THEN Outcome("NotPrime")
       ELSE IF state.entries # {} THEN Outcome("CLIPatchesExist")
       ELSE Goto("version")
    /\ UNCHANGED <<clusterVars, cache, queue>>

ReadVersion ==
    /\ rec.pc = "version"
    /\ rec' = [rec EXCEPT !.pc = "chart", !.on = release]
    /\ UNCHANGED <<clusterVars, cache, queue>>

ReadChart ==
    /\ rec.pc = "chart"
    /\ IF rec.c \in Matching
       THEN rec' = [rec EXCEPT !.pc = "config",
                               !.base = Bundled[bundle[ChartOf[rec.c]]][rec.c]]
       ELSE Outcome("ChartLayoutMismatch")
    /\ UNCHANGED <<clusterVars, cache, queue>>

\* Mutant: every patch of a previous version is kept.
UpgradeCheckManual(r) ==
    IF Managed(r.cur, r.c) /\ r.cur.managedOn[r.c] # r.on
    THEN [r EXCEPT !.pc = "status", !.out = "RKE2Upgraded"]
    ELSE [r EXCEPT !.pc = "images"]

\* Mutant: a patch of a previous version is applied again on this one.
UpgradeCheckCarriesOver(r) ==
    IF Managed(r.cur, r.c) /\ r.cur.managedOn[r.c] # r.on /\ r.obj.upgradePolicy = "Manual"
    THEN [r EXCEPT !.pc = "status", !.out = "RKE2Upgraded"]
    ELSE [r EXCEPT !.pc = "images"]

\* A patch from a previous version is kept (Manual) or reverted (AutoRevert);
\* otherwise the running images are read next.  r is the reconcile so far.
UpgradeCheck(r) ==
    IF Managed(r.cur, r.c) /\ r.cur.managedOn[r.c] # r.on
    THEN IF r.obj.upgradePolicy = "AutoRevert"
         THEN [r EXCEPT !.pc = "mark"]
         ELSE [r EXCEPT !.pc = "status", !.out = "RKE2Upgraded"]
    ELSE [r EXCEPT !.pc = "images"]

\* Reads the HelmChartConfig, then looks at the reverted-generation marker: it
\* holds for this very spec, or for an older one, or is not there.
ReadConfig ==
    /\ rec.pc = "config"
    /\ LET r == [rec EXCEPT !.cur = hcc[ChartOf[rec.c]]] IN
       rec' = IF r.obj.revertedGeneration = r.obj.generation
              THEN [r EXCEPT !.out = "RevertedAfterUpgrade",
                             !.pc = IF Managed(r.cur, r.c) THEN "revert" ELSE "reverted"]
              ELSE IF r.obj.revertedGeneration # 0
              THEN [r EXCEPT !.pc = "clearMarker"]
              ELSE UpgradeCheck(r)
    /\ UNCHANGED <<clusterVars, cache, queue>>

\* setRevertedGeneration(""): the spec changed since it was reverted.
ClearMarker ==
    /\ rec.pc = "clearMarker"
    /\ IF CanUpdate(rec.c, rec.obj)
       THEN /\ UpdateImagePatch(rec.c, [rec.obj EXCEPT !.revertedGeneration = 0])
            /\ rec' = UpgradeCheck([rec EXCEPT !.obj = ip'[rec.c]])
            /\ UNCHANGED queue
       ELSE Failed /\ UNCHANGED ip
    /\ UNCHANGED <<hcc, state, release, bundle, running, budget, cache>>

\* setRevertedGeneration(generation), before the revert it announces.
MarkReverted ==
    /\ rec.pc = "mark"
    /\ IF CanUpdate(rec.c, rec.obj)
       THEN /\ UpdateImagePatch(rec.c, [rec.obj EXCEPT !.revertedGeneration = rec.obj.generation])
            /\ rec' = [rec EXCEPT !.pc = "revert", !.out = "RevertedAfterUpgrade",
                                  !.obj = ip'[rec.c]]
            /\ UNCHANGED queue
       ELSE Failed /\ UNCHANGED ip
    /\ UNCHANGED <<hcc, state, release, bundle, running, budget, cache>>

\* Strips the component's values and annotation.  Where it goes next depends
\* on who asked: finalize, the marker, or one of the checks on the tag.
Reverted(config, c) == SetAnnotation(SubtractGenerated(config, c), c, NoRelease)

Revert ==
    /\ rec.pc = "revert"
    /\ IF CanApply(ChartOf[rec.c], rec.cur)
       THEN /\ ApplyHelmChartConfig(ChartOf[rec.c], Reverted(rec.cur, rec.c))
            /\ rec' = [rec EXCEPT
                 !.applied = IF rec.out = "RevertedAfterUpgrade" THEN @ ELSE NoTag,
                 !.pc = IF rec.obj.deleting THEN "removeFinalizer"
                        ELSE IF rec.out = "RevertedAfterUpgrade" THEN "reverted"
                        ELSE "status"]
            /\ queue' = queue \cup Components
       ELSE Failed /\ UNCHANGED hcc
    /\ UNCHANGED <<ip, state, release, bundle, running, budget, cache>>

\* collectRunningImagesByRepository fails when no pod runs the image, whatever
\* the images are needed for.
NoImageRuns(c) == running[c] = {}

ImagesUnavailable ==
    /\ rec.pc \in {"images", "reverted"}
    /\ NoImageRuns(rec.c)
    /\ Outcome("Error")
    /\ UNCHANGED <<clusterVars, cache, queue>>

\* revertedOutcome: clears the status once the running images could be read.
ReportReverted ==
    /\ rec.pc = "reverted"
    /\ ~NoImageRuns(rec.c)
    /\ rec' = [rec EXCEPT !.pc = "status", !.applied = NoTag]
    /\ UNCHANGED <<clusterVars, cache, queue>>

\* Mutant: one pod is enough.
RolloutReasonOfOnePod(c, want, ready) ==
    IF want \in running[c] THEN ready ELSE "RolloutInProgress"

\* rolloutOutcomeFor: ready once every pod runs the wanted tag.
RolloutReason(c, want, ready) ==
    IF running[c] = {want} THEN ready ELSE "RolloutInProgress"

\* Reads the running images, then settles the cases that need no new patch:
\* spec.tag is the bundled tag, or it is already in place.
ReadImages ==
    /\ rec.pc = "images"
    /\ ~NoImageRuns(rec.c)
    /\ LET managed == Managed(rec.cur, rec.c)
           tag == rec.obj.tag
           present == rec.cur.values[KeyOf[rec.c]] = tag
           atBaseline == RolloutReason(rec.c, rec.base, "AtBaseline")
           patched == RolloutReason(rec.c, tag, "Patched")
           verdict == ValidateAgainstBaseline(rec.base, tag)
       IN rec' =
          CASE tag = rec.base /\ managed ->
                  [rec EXCEPT !.pc = "revert", !.out = atBaseline]
            [] tag = rec.base /\ ~managed ->
                  [rec EXCEPT !.pc = "status", !.out = atBaseline, !.applied = NoTag]
            [] tag # rec.base /\ managed /\ present /\ verdict # "ok" ->
                  [rec EXCEPT !.pc = "revert", !.out = verdict]
            [] tag # rec.base /\ managed /\ present /\ verdict = "ok" ->
                  [rec EXCEPT !.pc = "status", !.out = patched, !.applied = tag]
            [] OTHER -> [rec EXCEPT !.pc = "validate", !.out = patched]
    /\ UNCHANGED <<clusterVars, cache, queue>>

\* Mutant: only a component's own stale patch counts.
StalePatchesOfOwn(on, except) ==
    {d \in {except} : Managed(hcc[ChartOf[d]], d) /\ hcc[ChartOf[d]].managedOn[d] # on}

\* The other components whose values were applied on another version.
StalePatches(on, except) ==
    {d \in Components \ {except} :
        Managed(hcc[ChartOf[d]], d) /\ hcc[ChartOf[d]].managedOn[d] # on}

\* The first refusal among the guardrails of a new patch, or "ok".  The zero
\* day is that of the release running now; appliedTag is the one in the status.
Refusal(r) ==
    LET tag == r.obj.tag
        previous == r.obj.status.appliedTag
        rollback == IF previous = NoTag THEN "ok"
                    ELSE ValidateNotOlderThanCurrent(previous, tag)
        target == ValidateExplicitTarget(r.base, tag, Published[r.c])
        window == ValidatePatchWindow(r.c \in Exempt, tag, ZeroDay[release])
        foreign == ~Managed(r.cur, r.c) /\ r.cur.values[KeyOf[r.c]] \notin {NoTag, tag}
    IN  CASE StalePatches(r.on, r.c) # {} -> "StalePatchesExist"
          [] StalePatches(r.on, r.c) = {} /\ rollback # "ok" -> rollback
          [] StalePatches(r.on, r.c) = {} /\ rollback = "ok" /\ target # "ok" -> target
          [] StalePatches(r.on, r.c) = {} /\ rollback = "ok" /\ target = "ok"
             /\ window # "ok" -> window
          [] OTHER -> IF foreign THEN "ConflictingOverride" ELSE "ok"

Validate ==
    /\ rec.pc = "validate"
    /\ IF Refusal(rec) = "ok" THEN Goto("apply") ELSE Outcome(Refusal(rec))
    /\ UNCHANGED <<clusterVars, cache, queue>>

\* A lost race is not an error: it is retried after a second.
Apply ==
    /\ rec.pc = "apply"
    /\ IF CanApply(ChartOf[rec.c], rec.cur)
       THEN /\ ApplyHelmChartConfig(ChartOf[rec.c],
                  SetAnnotation(MergeGenerated(rec.cur, rec.c, rec.obj.tag), rec.c, rec.on))
            /\ rec' = [rec EXCEPT !.pc = "status", !.applied = rec.obj.tag]
            /\ queue' = queue \cup Components
       ELSE Outcome("Retrying") /\ UNCHANGED <<hcc, queue>>
    /\ UNCHANGED <<ip, state, release, bundle, running, budget, cache>>

\* Writes the status if it changed.  A lost race is retried after a second.
WriteStatus ==
    /\ rec.pc = "status"
    /\ LET status == [appliedTag |-> rec.applied, reason |-> rec.out,
                      observedGeneration |-> rec.obj.generation]
       IN IF status = rec.obj.status
          THEN Finish(rec.out \notin NoRequeue) /\ UNCHANGED ip
          ELSE IF CanUpdate(rec.c, rec.obj)
          THEN Finish(rec.out \notin NoRequeue) /\ UpdateStatus(rec.c, status)
          ELSE Finish(TRUE) /\ UNCHANGED ip
    /\ UNCHANGED <<hcc, state, release, bundle, running, budget, cache>>

---------------------------------------------------------------------------
(* finalize.                                                               *)

\* Mutant: the object goes without a revert.
FinalizeWithoutRevert ==
    /\ rec.pc = "finalize"
    /\ Goto("removeFinalizer")
    /\ UNCHANGED <<clusterVars, cache, queue>>

\* Reverts first, but only what the controller manages.
Finalize ==
    /\ rec.pc = "finalize"
    /\ rec' = [rec EXCEPT !.cur = hcc[ChartOf[rec.c]],
                 !.pc = IF Managed(hcc[ChartOf[rec.c]], rec.c)
                        THEN "revert" ELSE "removeFinalizer"]
    /\ UNCHANGED <<clusterVars, cache, queue>>

RemoveFinalizer ==
    /\ rec.pc = "removeFinalizer"
    /\ IF CanUpdate(rec.c, rec.obj)
       THEN RemoveImagePatch(rec.c) /\ Finish(FALSE)
       ELSE Failed /\ UNCHANGED ip
    /\ UNCHANGED <<hcc, state, release, bundle, running, budget, cache>>

---------------------------------------------------------------------------
(* Failures.                                                               *)

\* Any call may fail without an effect: the API server or the registry does
\* not answer, a payload does not parse.
CallFails ==
    /\ rec.pc # "idle"
    /\ Spend("fault")
    /\ Failed
    /\ UNCHANGED <<ip, hcc, state, release, bundle, running, cache>>

\* The process dies, or loses its lease; the next leader lists everything.
Crash ==
    /\ Spend("crash")
    /\ rec' = Idle
    /\ cache' = ip
    /\ queue' = {c \in Components : ip[c].exists}
    /\ UNCHANGED <<ip, hcc, state, release, bundle, running>>

---------------------------------------------------------------------------
(* The specification.                                                      *)

WorkerStep ==
    \/ AddFinalizer \/ ReadCLIState \/ ReadVersion \/ ReadChart \/ ReadConfig
    \/ ClearMarker \/ MarkReverted \/ Revert \/ ReportReverted \/ ReadImages
    \/ ImagesUnavailable \/ Validate \/ Apply \/ WriteStatus \/ Finalize \/ RemoveFinalizer

ControllerStep ==
    \/ WorkerStep
    \/ \E c \in Components : Dequeue(c) \/ SyncCache(c)
    \/ CallFails
    \/ Crash

\* The CLI, seen from the controller: its state gains an entry or is emptied.
CLIPatches(c) ==
    /\ state.entries = {}
    /\ Spend("cli")
    /\ SaveState({[component |-> c, clusterVersion |-> release,
                   baselineTag |-> Bundled[release][c], patchedToTag |-> AnyTag]})
    /\ UNCHANGED <<ip, hcc, release, bundle, running>>

CLIReverts ==
    /\ state.entries # {}
    /\ SaveState({})
    /\ UNCHANGED <<ip, hcc, release, bundle, running, budget>>

\* The kube-apiserver pod event may come before the new version is served, and
\* then wakes nobody who could see it.
UpgradeStep ==
    /\ UpgradeVersion
    /\ queue' \in {queue, queue \cup Components}
    /\ UNCHANGED <<cache, rec>>

EnvironmentStep ==
    \/ /\ UserStep \/ PlatformStep \/ CLIReverts \/ (\E c \in Components : CLIPatches(c))
       /\ queue' = queue \cup Woken
       /\ UNCHANGED <<cache, rec>>
    \/ UpgradeStep

Next == ControllerStep \/ EnvironmentStep

\* The worker goes on, the queue starves no component, and the watch delivers.
\* Nothing is asked of users, of upgrades or of helm.
Fairness ==
    /\ WF_vars(WorkerStep)
    /\ \A c \in Components : SF_vars(Dequeue(c)) /\ WF_vars(SyncCache(c))

Spec == Init /\ [][Next]_vars

FairSpec == Spec /\ Fairness

---------------------------------------------------------------------------
(* Safety.                                                                 *)

TypeOK ==
    /\ ClusterTypeOK
    /\ cache \in [Components -> ImagePatch]
    /\ queue \subseteq Components
    /\ rec \in Reconcile

\* Values the controller manages always have an ImagePatch that holds the
\* finalizer, so that deleting it reverts them: no patch is left behind by a
\* deletion, a stale cache, a lost race or a crash (Reconcile and finalize,
\* "a finalizer to avoid imagePatch being deleted and not HelmChartConfig
\* being cleaned up").
NoOrphanedPatch ==
    \A c \in Components :
        Managed(hcc[ChartOf[c]], c) => ip[c].exists /\ ip[c].finalizer

\* All the values the controller manages were applied on one and the same
\* RKE2 version: stalePatches refuses a new patch while another component
\* still holds one from a previous version.
OneReleasePatched ==
    \A c, d \in Components :
        Managed(hcc[ChartOf[c]], c) /\ Managed(hcc[ChartOf[d]], d)
            => hcc[ChartOf[c]].managedOn[c] = hcc[ChartOf[d]].managedOn[d]

---------------------------------------------------------------------------
(* Why these hold: the inductive invariant behind them.                    *)

\* The cache may show the finalizer of an object only while it is there.
CacheConsistent ==
    \A c \in Components :
        /\ CopyOf(cache[c], ip[c])
        /\ cache[c].exists /\ ~cache[c].deleting /\ cache[c].finalizer
              => ip[c].exists /\ ip[c].finalizer

\* What the worker knows of the ImagePatch it works on.
WorkerConsistent ==
    rec.pc # "idle" =>
        /\ rec.obj.exists
        /\ CopyOf(rec.obj, ip[rec.c])
        /\ rec.obj.deleting => /\ rec.pc \in {"finalize", "revert", "removeFinalizer"}
                               /\ rec.obj.rv <= cache[rec.c].rv
        /\ rec.pc \in {"finalize", "removeFinalizer"} => rec.obj.deleting
        /\ ~rec.obj.deleting /\ rec.pc # "addFinalizer"
              => ip[rec.c].exists /\ ip[rec.c].finalizer

\* What the worker knows of the HelmChartConfig it is about to write.
ConfigConsistent ==
    /\ \A ch \in Charts : ~hcc[ch].exists => EmptyConfig(hcc[ch])
    /\ IF rec.cur.exists THEN CopyOf(rec.cur, hcc[ChartOf[rec.c]])
                         ELSE EmptyConfig(rec.cur)
    /\ rec.pc \in {"mark", "revert"} => Managed(rec.cur, rec.c)
    /\ rec.pc = "removeFinalizer" => ~Managed(hcc[ChartOf[rec.c]], rec.c)
    /\ rec.pc = "apply" =>
          /\ Managed(rec.cur, rec.c)
                \/ rec.cur.values[KeyOf[rec.c]] \in {NoTag, rec.obj.tag}
          /\ \A d \in Components \ {rec.c} :
                Managed(hcc[ChartOf[d]], d) => hcc[ChartOf[d]].managedOn[d] = rec.on

\* The three together with what they are for.  The copies the worker holds and
\* the finalizer are related through the cache, whose lag the worker's own
\* deletions must never outrun.
Consistent ==
    /\ CacheConsistent
    /\ WorkerConsistent
    /\ ConfigConsistent
    /\ NoOrphanedPatch
    /\ OneReleasePatched

\* The worker's write to a HelmChartConfig.
WorkerWrites == hcc' # hcc /\ rec' # rec

\* A write of the worker touches one HelmChartConfig, and in it nothing but
\* the slot and the annotation of its component; and a slot somebody else
\* filled with another tag is left alone (revert and apply, on the resource
\* version that was read).  Concurrent edits by users or for the other
\* component of a shared chart are never lost.
OnlyOwnValuesWritten ==
    [][WorkerWrites =>
         LET ch == ChartOf[rec.c]
             old == hcc[ch]
             new == hcc'[ch]
         IN /\ \A other \in Charts \ {ch} : hcc'[other] = hcc[other]
            /\ \A k \in Keys \ {KeyOf[rec.c]} : new.values[k] = old.values[k]
            /\ \A d \in Components \ {rec.c} : new.managedOn[d] = old.managedOn[d]
            /\ new.other = old.other
            /\ Managed(old, rec.c) \/ old.values[KeyOf[rec.c]] \in {NoTag, rec.obj.tag}]_vars

\* Finalizer and annotation keep what PatchLifecycle promises: a patch has a
\* claim and all patches one release at every step, also while a worker acts on
\* stale copies or dies (reconcilePatch, revert, finalize).
Lifecycle == INSTANCE PatchLifecycle WITH
    claimed <- {c \in Components : ip[c].exists /\ ip[c].finalizer},
    applied <- [c \in Components |-> hcc[ChartOf[c]].managedOn[c]]
ImplementsLifecycle == Lifecycle!Spec

\* imagepatch_types.go:29 on the reverted-generation marker: "That spec is not
\* applied again".  The worker never writes the tag of an ImagePatch whose
\* marker names its current generation.
RevertedSpecNotApplied ==
    [][WorkerWrites /\ Managed(hcc'[ChartOf[rec.c]], rec.c) =>
         ip[rec.c].revertedGeneration # ip[rec.c].generation]_vars

---------------------------------------------------------------------------
(* Liveness.                                                               *)

\* Deleting an ImagePatch reverts its patch and lets the object go, whatever
\* races and crashes come between (finalize).
DeletionCompletes ==
    \A c \in Components :
        ip[c].exists /\ ip[c].deleting
            ~> ~ip[c].exists /\ ~Managed(hcc[ChartOf[c]], c)

\* What the guardrails say of an ImagePatch in the cluster as it is; without a
\* running image the worker gets no further than an error.
LiveRefusal(c) ==
    IF ChartOf[c] \notin Prime THEN "NotPrime"
    ELSE IF state.entries # {} THEN "CLIPatchesExist"
    ELSE IF c \notin Matching THEN "ChartLayoutMismatch"
    ELSE IF NoImageRuns(c) THEN "Error"
    ELSE Refusal([Idle EXCEPT !.c = c, !.obj = ip[c], !.on = release,
                              !.base = Bundled[bundle[ChartOf[c]]][c],
                              !.cur = hcc[ChartOf[c]]])

\* The component is where its ImagePatch wants it, or a guardrail that holds
\* in the cluster as it is keeps it from getting there.
Settled(c) ==
    LET config == hcc[ChartOf[c]]
        base == Bundled[bundle[ChartOf[c]]][c]
        blocked == LiveRefusal(c) \in {"NotPrime", "CLIPatchesExist", "ChartLayoutMismatch", "Error"}
        stale == config.managedOn[c] # release
        marked == ip[c].revertedGeneration = ip[c].generation
        present == config.values[KeyOf[c]] = ip[c].tag
    IN  IF ~ip[c].exists THEN ~Managed(config, c)
        ELSE /\ ~ip[c].deleting
             /\ \/ blocked
                \/ marked /\ ~Managed(config, c)
                \/ ~marked /\ Managed(config, c) /\ stale /\ ip[c].upgradePolicy = "Manual"
                \/ ~marked /\ ~Managed(config, c) /\ ip[c].tag = base
                \/ /\ ~marked /\ Managed(config, c) /\ ~stale /\ present
                   /\ ValidateAgainstBaseline(base, ip[c].tag) = "ok"
                \/ /\ ~marked /\ ip[c].tag # base
                   /\ ~(Managed(config, c) /\ (stale \/ present))
                   /\ LiveRefusal(c) # "ok"

\* README.md:327: "Setting `spec.tag` to the bundled tag reverts the patch".
\* Once the cluster is left alone, no ImagePatch that asks for the bundled tag
\* leaves a patch in place, unless a guardrail blocks it altogether.
BaselineReverts ==
    <>[](\A c \in Components :
            ip[c].exists /\ ip[c].tag = Bundled[bundle[ChartOf[c]]][c] =>
                \/ ~Managed(hcc[ChartOf[c]], c)
                \/ ChartOf[c] \notin Prime \/ state.entries # {} \/ c \notin Matching
                \/ hcc[ChartOf[c]].managedOn[c] # release)

\* Once users and upgrades leave the cluster alone, every component settles:
\* no outcome without a requeue waits for an event that never comes, and no
\* stale read has the last word (SetupWithManager, reconcilePatch).
EventuallySettled == <>[](\A c \in Components : Settled(c))

\* Once the cluster is left alone, the status speaks of the current spec, and
\* Ready is only reported while every pod runs the tag it is about
\* (rolloutOutcomeFor, writeStatus).
EventuallyReported ==
    <>[](\A c \in Components : ip[c].exists =>
            /\ ip[c].status.observedGeneration = ip[c].generation
            /\ ip[c].status.reason = "Patched" => running[c] = {ip[c].tag}
            /\ ip[c].status.reason = "AtBaseline" =>
                   running[c] = {Bundled[bundle[ChartOf[c]]][c]})
=============================================================================
