# rke2-patcher in TLA+

rke2-patcher replaces the image tag of a component that an RKE2 chart bundles
(CoreDNS, Calico, Traefik, ...) by a newer build of the same release line. It
has two modes that share policy and Kubernetes code: a command line, run by
operators, and a controller that drives one `ImagePatch` object per component.
Both write `HelmChartConfig` objects, which helm merges into the chart.

The modules here are a model of that program, the TLC configurations check it
on small instances, and eight proof modules prove nearly all of its safety
properties and two refinements for every instance. Paths below are relative to the repository root
(`src/` here).

- [Inventory](#inventory)
- [Modules and how they follow the code](#modules-and-how-they-follow-the-code)
- [Abstractions](#abstractions)
- [Runs](#runs)
- [Fairness](#fairness)
- [Proofs](#proofs)
- [Divergences found](#divergences-found)
- [Not modelled](#not-modelled)
- [Plan](#plan)

## Inventory

| Component | State it keeps | Operations | Talks to |
| --- | --- | --- | --- |
| ImagePatch controller (`internal/controller`) | work queue, informer cache, the reconcile in progress; annotations and finalizer on objects | `Reconcile`, `reconcilePatch`, `revert`, `finalize`, `writeStatus`, watches | API server, registry |
| Cluster objects (`internal/kube`, `api/v1alpha1`) | `ImagePatch`, `HelmChartConfig`, `HelmChart`, `rke2-patcher-state`, workloads, server version | get, list, optimistic update, status update | everybody |
| Values merging (`internal/patcher`) | none | `Merge`, `Subtract`, `SetAnnotation`, `BundledImageTag`, conflict detection | - |
| Tag policy (`internal/policy`) | none | `CompareTags`, release lines, `ValidateExplicitTarget`, `ValidateAgainstBaseline`, `ValidatePatchWindow` | - |
| Commands (`internal/cmd`) | variables of one run | `image-patch`, `image-reconcile`, `image-list`, `image-cve` | all of the above |
| CLI state (`internal/clistate`) | entries in `rke2-patcher-state` | `Update` with retries, `Persist`, `RemoveEntries`, `RevertEntry` | API server |
| Registry client (`internal/registry`) | none | `ListTags` (paging, tokens, limit of 200) | registry |
| Component registry (`internal/components`) | none | name resolution | - |
| CVE scanner (`internal/cve`, `internal/vex`) | VEX file on disk, shared by all commands of a user | scan, batch, refresh | trivy, grype, scan job, VEX server |
| Scan job (`internal/kube/cve_job.go`) | a Job and its pod | create, poll, logs, delete | API server |
| Configuration, output; node arguments (called by tests only) | none | read and print | API server, environment |

How they interact:

- The controller and the commands never call each other. They meet in the
  `HelmChartConfig` objects, written by read, merge and an update on the
  resource version that was read. Components of one chart share the object.
- Each looks at the trace of the other before it begins: `image-patch` refuses
  while an `ImagePatch` exists; the controller refuses while the state
  ConfigMap has an entry.
- The controller is woken by watches on `ImagePatch`, `HelmChartConfig`,
  `HelmChart`, the state ConfigMap, workloads and kube-apiserver pods, by
  timers (`RequeueAfter`) and by errors (backoff). `ImagePatch` objects come
  from a cache that lags, everything else is read live.

What is hard, and what must hold:

| Behaviour | What makes the component correct |
| --- | --- |
| A stale cached `ImagePatch`, a conflict or a crash between the finalizer, the apply and the revert | no managed value outlives its `ImagePatch` (`NoOrphanedPatch`); deletions complete (`DeletionCompletes`); a claim before a patch, a revert before the claim goes, no patch carried over an upgrade (`ImplementsLifecycle`) |
| Concurrent writers of one `HelmChartConfig` | nobody's edit is lost (`OnlyOwnValuesWritten`, `OtherValuesKept`) |
| An upgrade: the version and each chart change in any order while patches are in place | patches of one release at a time (`OneReleasePatched`); every component ends where its `ImagePatch` and the guardrails put it (`EventuallySettled`) |
| Outcomes without a requeue, status writes that are dropped | nobody sleeps for ever; the status ends up true (`EventuallyReported`) |
| Two writes (config, then state) in `image-patch` | a patch is recorded, or the command failed (`NoUnrecordedPatch`) |
| Several commands on one ConfigMap | it behaves as an atomic map (`StoreIsAtomic`) |
| The 45-day window, orders on tags, two implementations of "may be patched" | `WithinWindow`, `NeverNewerMinor`, `NothingSkipped`, `PatchableIsListed` |
| Both modes at once | patches of both come from one race only (`OnlyRacesMixModes`), commands leave managed values alone (`CommandsSpareManaged`); `ModesExclusive`, which the code does not keep |
| A scan job that is late, lost, cut short or mixes several images in one log | a report belongs to its image and its scan succeeded (`ReportsAreTrue`); none is dropped (`ScannedMeansReported`); the job goes (`JobIsDeleted`); the command ends (`EventuallyDone`) |
| One VEX file, downloaded and read by several commands that may be killed | it is never half a report (`ReportIsWhole`); an old one only after failed refreshes, none at all only if there was none (`OldOnlyAfterFailures`, `OldIsBetterThanNone`); the commands end (`LocalScansEnd`) |
| Merging into and stripping from nested maps that users edit and components share | other values stay (`OtherValuesIntact`), nothing is overwritten (`NothingOverwritten`), owners do not overlap (`OwnersApart`), a revert restores (`RevertRestores`) |
| No pod runs while the spec changes | `BaselineReverts`, which the code does not keep |
| A listing of many pages while tags come and go and the token expires | nothing that was there is missed (`NothingMissed`); it fails only for a cause (`ErrorHasCause`) |

`PROJECT.json` lists every such hazard at its line.

## Modules and how they follow the code

```
TagPolicy            internal/policy, tag choices of internal/cmd
  Cluster            objects of the API server, optimistic writes, environment
    Cluster_proofs             lemmas about these writes, for both modes
    ImagePatchController       internal/controller
      PatchLifecycle           abstract: claim, apply, revert, release
      ImagePatchController_proofs    types, inductive invariant, safety
        ImagePatchController_refinement  it implements PatchLifecycle
    PatcherCLI                 image-patch, image-reconcile, clistate
      StateStore               abstract: the atomic map PatcherCLI implements
      PatcherCLI_proofs        types, inductive invariant, safety, refinement
    PatcherSystem              ImagePatchController + INSTANCE PatcherCLI
      PatcherSystem_proofs     both invariants together, exclusivity
  TagSelection       any chain of image-patch runs against any listing
    TagSelection_proofs        the order of tags, listings, chains of patches
TagListing           internal/registry: pages, token, limit (TagSelection extends it)
Values               abstract: a document is its leaves
  ValuesTree         internal/patcher: nested maps; implements Values
  Values_proofs      the safety properties of Values
ScanJob              internal/kube/cve_job.go, parsers of internal/cve/scanner.go
LocalScan            internal/cve/scanner.go: local tools, the VEX file
  Scanner            ScanJob or LocalScan, by RKE2_PATCHER_SCANNER_MODE
    Scanner_proofs   the parser and the log, safety of either half and of both
MC*                  instances for TLC
```

**TagPolicy** has no state. A tag is the record `ParseTag` returns.
`CompareTags` puts the build date before the version, as `policy/tags.go` does.
The calendar behind `BuildDate` and `AddDate(0, 0, 45)` is computed on day
numbers. The validations return `"ok"` or the reason of the `Violation`.
`DefaultTargets`, `ExplicitTargets` and `TagsToShow` are the choices of
`cmd/tags.go`.

**Cluster** holds what the API server stores: `ip` (one `ImagePatch` per
component, its name is the component), `hcc` (one `HelmChartConfig` per chart),
`state`, `release` (the reported version), `bundle` (the release of the chart
each `HelmChart` embeds), `running` (tags the pods run, possibly none). Writes are
`CanUpdate`/`UpdateImagePatch`, `UpdateStatus`, `CanApply`/
`ApplyHelmChartConfig`, `CanSave`/`SaveState`. The environment creates, edits
and deletes `ImagePatch` objects, removes the marker, edits or deletes
`HelmChartConfig` objects, upgrades the version and the charts separately, and
rolls pods out some at a time. `budget` bounds each kind of move.

**ImagePatchController** adds `cache` (the informer), `queue` (components with
a wake-up outstanding) and `rec` (the reconcile of the single worker,
`MaxConcurrentReconciles` is 1 unless set, and the code does not set it). One action is one call to the API server
together with the computation up to the next call:

| Action | Code (`imagepatch_controller.go`) |
| --- | --- |
| `Dequeue`, `AddFinalizer` | `Reconcile` up to `reconcilePatch` |
| `ReadCLIState`, `ReadVersion`, `ReadChart`, `ReadConfig` | `reconcilePatch`: preconditions, and the reverted-generation marker |
| `ClearMarker`, `MarkReverted` | `setRevertedGeneration` |
| `Revert` | `revert`, reached from the marker, AutoRevert, the baseline checks and `finalize` |
| `ImagesUnavailable` | `ListRunningImages` fails: no running pod uses the image |
| `ReadImages`, `Validate`, `Apply` | the rest of `reconcilePatch`; `Refusal` is its chain of guardrails in order |
| `ReportReverted`, `RolloutReason` | `revertedOutcome`, `rolloutOutcomeFor` |
| `WriteStatus` | `writeStatus`, the conflict that is dropped, and the requeue |
| `Finalize`, `RemoveFinalizer` | `finalize` |
| `SyncCache`, `Woken`, `UpgradeStep` | the watches and predicates of `setup.go` |
| `CallFails`, `Crash` | an error of any call; loss of the process or of the lease |

A conflict is no action of its own: it is the branch each write takes when
`CanUpdate` or `CanApply` is false, with what the code does then (`Retrying`,
an error, or nothing).

**PatchLifecycle** is the abstract specification of the controller for somebody
who sees objects only: a component is claimed (finalizer), applied on a release
(annotation), reverted and released, in this order; all patches are of one
release, and one of an earlier release is reverted first, never applied again.
`ImagePatchController` implements it with `claimed` and `applied` read off the
finalizers and annotations (`ImplementsLifecycle`).

**PatcherCLI** runs `image-patch` and `image-reconcile` for several operators
(`cli[p]` is the command of operator `p`). `RefuseInControllerMode`,
`ChooseTarget`, `CheckPatchWindow`, `ReadConfig`, `ReadVersion`, `CheckState`,
`ApplyPatch` follow `runImagePatch`; `ReadCurrentVersion`, `ReadEntries`,
`GetConfig`, `StripConfig`, `AllReverted` follow `runReconcile`; `LoadState`
and `Save` are the loop of `clistate.Update` with `Persist` or `RemoveEntries`
as what it applies. `Stop` is a failing call or an interrupt. `lost` is a
history variable: components whose command failed between its two writes.

**StateStore** is the abstract specification of the ConfigMap: one atomic step
per recorded or removed entry, the first baseline tag of an entry kept.
`PatcherCLI` implements it with `entries <- state.entries` (`StoreIsAtomic`).

**TagListing** is `ListTags`. `Request`, `FetchBearerToken` and `Retry` are the
two attempts of `getTagsPage`; `TakePage` filters the page, adds up to the limit
and follows the Link header. `Push`, `Remove` and `ExpireToken` happen between
any two requests. `kept` is a history variable: the names that have been in the
repository since the call began.

**TagSelection** iterates `image-patch`, with and without `--tag`: each run lists
the tags by `TagListing` and chooses among what it got (`DefaultTargets`,
`ExplicitTargets`, `ValidatePatchWindow`). So what `--tag` may name, what is
skipped and what `image-list` would show are judged from the listing as it came,
not from the repository as it is.

**ScanJob** is one scan in the cluster. The command (`cmd`) follows `runScanJob`:
`EnsureNamespace`, `CreateNamespace`, `CreateScanJob`, `Poll`
(`waitForScanJobCompletion`), `ReadLogs` and `LogsUnavailable`
(`waitForJobLogs`), `DeleteJob`. `Script` is what the shell script of
`createScanJob` writes, `Answer` what the two parsers make of it: the whole log
is the report of one image, or markers frame the report of each of several. The
pod, the job controller, the deadline and a lost namespace move on their own.
`CallFails`, `AnswerLost` (the job is created, the command does not hear of it)
and `Killed` (no deferred call runs) are what may happen to the command.

**LocalScan** is a list of images scanned on the operator's machine, by several
commands at once. `LookPath`, `ToolFails` and `NextImage` follow
`scanImageLocally` (trivy, then grype); `ensureLocalVEXFile` looks at the age of
the shared file; `ServerAnswers`, `CopyReport`, `Rename` and `DownloadFails` are
an attempt of `downloadVEXFileOnce` and the loop around it; `RunTool` reads
whatever is at the path by then. Commands are killed, files age and are removed.

**Scanner** chooses between the two (`resolveScanMode`); the run checks both in
one state space.

**Values** is what the patcher promises about `spec.valuesContent`: a document is
the function from its leaves (paths) to scalars, a merge puts the generated
leaves in the place of whatever touches them, a subtraction takes away whatever
touches them, and users edit in between. `doc` is the document, `base` the one
users alone would have made.

**ValuesTree** holds the same document as nested maps and works on it with the
recursions of the code: `mergeMapsWithOverride`, `deepSubtractMap`,
`compareLeaves` (`conflicts`, `allPresent`), `lookupString` and
`BundledImageTag`. It implements `Values` (`ImplementsValues`).

**PatcherSystem** composes the controller with the commands: their steps
interleave and the writes of the commands wake the controller. `raced` is a
history variable: an `image-patch` that had looked for an `ImagePatch` and had
not ended has met one, which is the one way to patches of both modes
(`OnlyRacesMixModes`). In
`ImagePatchController` alone the commands are the two moves `CLIPatches` and
`CLIReverts`, which fill and empty the state.

Definitions named in a comment that starts with "Mutant:" are mutated forms of
the definition that follows them. No specification uses them; each one shows
that a property can fail (`PROJECT.json`, "mutants").

## Abstractions

- **Values are slots.** The keys a component's patch generates in the chart
  values are one slot, which holds a tag or nothing; repository and tag are
  written and removed together. Everything else in a `HelmChartConfig` is the
  number `other`. Two components accepted by `BundledImageTag` never share a
  slot (`KeysAssumption`); `Values` shows why that is so (`OwnersApart`), and that
  merge and subtraction act on a slot as `Cluster` says, for documents users have
  not edited inside a slot.
- **Trees.** A key is a string, a scalar a model value; lists are scalars. Text,
  indentation (`normalizeValuesContent`) and the other fields of a
  `HelmChartConfig`, which are copied, are left out.
- **Versions.** `rv` and `generation` survive the removal of an object and go
  on from there, which stands for (uid, resourceVersion). An update of the CLI
  that changes nothing keeps `rv`, as the API server does.
- **Reads.** `stalePatches` reads the `HelmChartConfig` of each component in
  one step here. `ReadImages` and `Validate` read the pods, the listing and the
  zero-day in the step in which they are used.
- **Writes.** A call that fails has no effect; a write whose reply is lost is
  not modelled. A controller that took the lease lists afresh, so that its
  cache starts equal to the objects; two leaders at once are not modelled.
- **Status.** The condition is its reason. Events, messages and conditions
  other than Ready are left out.
- **Registry.** `Published` is a constant per component in the cluster models;
  in `TagSelection` the repository may hold any tags when a command begins, and
  changes while they are listed.
- **Listing.** A name is its place in the registry's order; a tag and a
  repository are in it or not. A token lives at least until the request it was
  fetched for.
- **Scan.** A report is one line of the log that names its image; what else trivy
  may do is one of six outcomes per image. The pod is created with the job,
  "Pending" includes the time before.
- **Local scan.** The ages of the VEX file are young and old (24 hours); a file
  is whole or not. What a tool reports is open.
- **Zero day.** `ClusterZeroDay` is the date of the running release; that it
  fails while two kube-apiserver images run is a failing call.
- **Tags.** The string tie-breaks of `CompareTags` are one rank.
- **Bounds.** `Budgets` (moves of the environment; a behaviour has one of them), `MaxRelease`, `MaxOther`,
  `UpdateAttempts` and `vexDownloadAttempts` (2 here, 5 in the code: the loops have
  the same two ways out), `ImageCount`, `MaxEdits`,
  `Limit` and `PageSize` (5 and 2 here; 200 and 100 for `image-patch`).

## Runs

| Run (cfg) | Question | Instance |
| --- | --- | --- |
| `one_component` (MCOneComponent) | Is a patch ever left behind or carried over, or an edit lost; does the component reach what its `ImagePatch` says, do deletions complete, does the status become true? | one component, the baseline and a newer tag, both upgrade policies, and one of five budgets: deleted and created again with a crash, other values and the CLI; an upgrade in both halves with the removal of the marker and a deletion; an edit and an override across an upgrade; an edit and a deletion with a failing call and a crash; an edit, a deletion and a crash with a rollout in two steps, in which all pods may be gone |
| `two_components` (MCTwoComponents) | Do two components of one chart keep out of each other's way, and does a stale patch of one block the other for ever? | two components and two budgets: both created and an override by hand; both created, an upgrade and a deletion |
| `cli` (MCPatcherCLI) | Do concurrent commands lose entries, edits or the record of a patch? | two operators, two components of one chart, one of them patched by both, three commands, an upgrade, a failure, a deleted config |
| `tag_selection` (MCTagSelection) | What can any chain of `image-patch` runs arrive at, and does a listing miss a tag, or fail for no reason, while the repository changes and the token expires? | eight names: three minor lines, an older build, the last day of a window across 29 February, the day after, one without a date, two that are ignored and may be a page of their own; pages of 2, limit 5; in each listing a push, a removal, an expiry, a failure |
| `both_modes` (MCBothModes) | What is left of the exclusivity of the modes, and does the controller still get where it should next to commands? | one operator (a patch and a reconcile), one component, one `ImagePatch`, and one of four budgets: a deletion; a failing call and a crash; an upgrade in both halves; a deleted config |
| `scans` (MCScanner) | Is every report the right one and whole, is none lost, is the job removed, is a VEX file too old used without need, and do the commands end? | in the cluster: `image-cve` of one image, `image-list` of two, every outcome of each, a failing call or a lost answer, an interrupt, a lost pod, a lost namespace, the deadline. On the machine: a command with two images next to one with one, two attempts, either tool or both or none; the file ages and is removed once, the cache fails once, a command is killed |
| `values` (MCValuesTree) | Does the recursion over maps do what a patch, a revert and a check promise, whatever users put there? | one chart, three components (one with two images, two with the same keys), two tags, both modes, two edits at five places above, at, beside and below these keys: another tag, a foreign value, an empty map, a removal |
| `reverted_spec`, `baseline_reverts`, `reconcile_clears`, `modes_exclusive`, `batch_of_one` | Does the code do what its documents and comments say? | the smallest instance with the disagreement |

Why the bounds are enough: the worker handles one component at a time, and a
race needs the worker in the middle of a reconcile and one or two changes by
others; every budget allows at least that, and twice where an object has to be
created again. Two releases give every order of "version" and "chart" and both
directions of staleness. Two components on one chart are the smallest case in
which they share an object; the proofs cover more. Two images are the smallest
batch that has markers, and the parser keeps nothing of an image but its chunk
and its code. Three pages are enough for a first, a following and a last one,
one of them without a usable tag. Two commands are enough for one VEX file: one
that replaces it and one that reads it; the second image of a command meets a
file its own first one has stored. For both modes, a patch, an `ImagePatch` and a
reconcile are the shortest way for a command to meet values that changed owner.
Two edits put a value in the way and take it
out again. No run needs symmetry.

Deadlock checking is off wherever a budget can be used up (users need not do
anything, and a settled cluster rests) and where a command ends (`Scanner`).
`tag_selection` checks it.

`EventuallySettled` says more than that the queue drains: `Settled` compares
the `HelmChartConfig` with the `ImagePatch` and, where they differ, demands a
guardrail that refuses *in the cluster as it is now* (`LiveRefusal`), not as it
was when the worker last looked.

## Fairness

`FairSpec` of the controller assumes that the worker goes on once it has begun
(weak fairness of `WorkerStep`: a reconcile has no loop and its calls return),
that a component in the queue is taken some time (strong fairness of `Dequeue`:
the work queue is first-in first-out, and timers and backoff put components
back after a bounded time) and that the informer catches up (weak fairness of
`SyncCache`). Nothing is assumed of users, upgrades, helm, or the arrival of a
kube-apiserver pod event (`UpgradeStep` may wake nobody). Failures and crashes
are bounded by the budget: liveness is claimed for what comes after the last.
`SystemFairSpec` of both modes is the controller's fairness and no more: a command
may be left waiting at any point for ever.
`ScannerFairSpec`: in the cluster the command goes on and its deadline passes
(`CommandStep`, `DeadlinePasses`), while the pod, the job controller and the
cluster may do nothing at all; on the machine every command goes on
(`ScanStep`), and a server that goes silent is a step of its own, after which
the command never ends and `LocalScansEnd` asks nothing more of it.

## Proofs

TLC evaluates every assumption named here in the runs that use its module.

### The controller

`ImagePatchController_proofs` and `ImagePatchController_refinement` hold for any components, charts, tags, number
of releases and budgets that satisfy the assumptions of `Cluster`
(`ComponentsAssumption`, `KeysAssumption`, `TagsAssumption`,
`BoundsAssumption`).

- `TypeCorrect`: `Spec => []TypeOK`.
- `ConsistentAlways`: `Spec => []Consistent`.
- `NoPatchIsOrphaned`, `OneReleaseAtATime`: conjuncts of `Consistent`.
- `OnlyOwnValuesAreWritten`: the action property, from `Consistent`.
- `OwnReleaseAlways`: `Spec => []OwnRelease`.
- `LifecycleImplemented`: `Spec => ImplementsLifecycle`, the refinement.

The invariant. `NoOrphanedPatch` is not inductive: a worker that acts on an old
copy, in which the finalizer is there and nothing is deleted, would apply a
patch for an object that is gone. What rules this out is spread over three
parts, of which `Consistent` is the conjunction with the two goals:

1. *Cache*: a cached copy is an older version or equals the object, and a copy
   that is not deleted but has the finalizer means the object still has it. The
   finalizer goes only after the cache has shown the deletion, because the
   worker finds out about deletions from the cache itself.
2. *Worker*: its copy is likewise an older version or equal; a copy marked as
   deleted is no newer than the cache; past `AddFinalizer`, a copy that is not
   deleted means an object with the finalizer. This is where the single worker
   matters: nobody else removes the finalizer.
3. *Config*: the `HelmChartConfig` the worker holds is an older version or
   equal, so that `CanApply` makes the checks on the copy true of the object.
   At `apply`, no other component holds a patch of another release, which stays
   true because only the worker writes annotations.

Each action preserves each part; the lemmas are grouped by what the actions
change (nothing, an `ImagePatch`, a `HelmChartConfig`, the environment).

The refinement. Of `PatchLifecycle`'s guards, that of `Apply` is hard: the
component is claimed and every patch of the cluster, its own included, is of the
release applied on. The claim and the others are in `Consistent`. Its own needs
`OwnRelease`: past the upgrade check the copy the worker holds shows no patch or
one of the release it works for, and `CanApply` makes the copy true of the
object. `Release` needs that nothing is managed at `removeFinalizer`
(`ConfigConsistent`). Every other step of the worker, of users and of upgrades
leaves finalizers and annotations as they are (the lemmas `...Unseen`), but for a
deleted `HelmChartConfig`.

### The commands

`PatcherCLI_proofs` holds for any number of operators and components each of them
works on, and any `UpdateAttempts` (`ProcessesAssumption`).

- `TypeCorrect`: `Spec => []TypeOK`.
- `CommandsAreConsistent`: `Spec => []Consistent`.
- `OtherValuesAreKept`: the action property, from `Consistent`.
- `StoreImplemented`: `Spec => StoreIsAtomic`, the refinement of `StateStore`.
- `PatchesAreRecorded`: `Spec /\ NotByHand => []NoUnrecordedPatch`.

The invariant. `Consistent` says of each command what it works on (`WorkKnown`),
that its copies of the `HelmChartConfig` and of the state are of an older version
or equal (`CopiesKnown`), and that the entries it is about to revert are still
there if no other operator works on the component (`TodoKnown`); and of the state
that no two entries have one key. `CommandEffects` collects what one step of one
command does to the objects, and the other commands are carried over it by
`OthersKnow`. A save that succeeds applies its change to the entries that are
there, because the copy has their version: this is one step of `StateStore`, for
a removal the removal of one component's entries of the versions reverted.

`PatchesAreRecorded` needs more (`SlotKnown`): while a command records a patch or
its removal, the slot holds what it wrote there, or nothing. That is false where
somebody else writes the slot, and there `NoUnrecordedPatch` is false too: a second
operator strips a patch and records its removal while the first one patches again;
a user sets the value by hand; `rke2-dns-node-cache` is written to the slot of
`rke2-coredns` (`README.md:338`). Hence the hypotheses. `SoleWriter`, in the
property, asks for one operator and one component per slot; `NotByHand`, in the
theorem, that users edit other values only (they may still delete the object).
`MCPatcherCLI` has states that satisfy both, next to a component that two operators
patch.

### Both modes

`PatcherSystem_proofs` holds for everything the two sections above hold for. It
takes the lemmas of the controller by `EXTENDS` and those of the commands by
`INSTANCE`; its first lemmas say that the definitions are the same.

- `ModesAreConsistent`: the invariants of both modes and those below, together.
- `PatchesStayOwned`, `LifecycleSurvives`: what the controller keeps by itself it
  keeps next to the commands.
- `ModesAreExclusive`: `SystemSpec => []OnlyRacesMixModes`.
- `ManagedAreSpared`: `SystemSpec => CommandsSpareManaged`.

To each mode the other one is a writer that raises versions: `ControllerAdvances`
is what the commands need of the controller, `CommandIsSafe` what the controller
needs of the commands (they keep annotations). The argument for exclusivity then
has two halves. A reconcile past `ReadCLIState` has found the state empty
(`AdmissionHolds`); it stays empty, since an entry is added by the save of an
`image-patch` alone, which next to the `ImagePatch` of that reconcile has raced
(`RacesAreNoted`, `SavesMeetNobody`). And where such a save comes first, nothing is
managed, since a managed value has an `ImagePatch` (`NoOrphanedPatch`).
`image-reconcile` looks for no `ImagePatch`, but the entries it has read are still
in the state (`TodoKnown`), so that by exclusivity nothing is managed.

### The listing and the choice of tags

`TagSelection_proofs` holds for any names, tags, page size, limit and moves of the
repository (`ListingAssumption`, `SelectionAssumption`).

- `TagsAreOrdered`, `TargetIsUnique`: `CompareTags` is a total order of parsed tags,
  and there is at most one tag to patch to.
- `NothingIsMissed`, `ErrorsHaveCause`, from `ListingConsistent`: every name of
  `kept` up to `next` is listed or ignored, and a request in its second attempt has
  a new token.
- `NoNewerMinor`, `NextTagIsTaken`, `PatchableAreListed`: from the listing and the
  definitions of the choices.
- `WindowIsKept`: `ValidatePatchWindow` compares day numbers and `WithinWindow`
  walks the calendar day by day, so the proof is about the calendar: a date is its
  year, month and day (`DateIsItsParts`), the day after it has the next number at
  every end of a month and of a year, leap or not (`NextDayCounts`), and a date with
  a larger number is a later one (`LaterIsMore`). `Start` is assumed to be a date
  (`SelectionAssumption`).

### The values of a chart

`Values_proofs` holds for any components, paths, scalars, tags and number of
edits. It assumes that "above" is a strict partial order of the paths
(`PathsAssumption`), that a component knows itself by its repository and never
writes a tag where a repository goes (`ValuesAssumption`), and that the paths one
component generates fit into one document (`DocumentsAssumption`).

- `TypeCorrect`: what is merged, stripped and edited stays a document.
- `OtherValuesAlwaysIntact`: the document and the one users would have agree
  wherever no component writes, nor above or below it.
- `OwnersAlwaysApart`: what a component writes matches the defaults of its chart,
  and these are one document, so two components of a chart cannot collide.
- `NothingIsOverwritten`: an apply without conflicts loses empty maps only.
- `RevertAlwaysRestores`, from `Restorable`: what is not patched is the users';
  what is the users' is there, or may be lost; and next to a patch there is
  nothing but the patch. The last part makes it inductive: it is why stripping a
  patch takes nothing of the users' along, and it needs `OwnersApart` before and
  after the step.

### Scans

`Scanner_proofs` holds for any images, requests, commands, attempts and moves of the
environment (`ScanAssumption`, `LocalScanAssumption`); the images of a request are
distinct, since `OrderTags` drops what is there twice.

- *The parser undoes the framing.* `FrameRead`: the lines of one frame, read after any
  log that is between two frames, add the output and the exit code of its image and
  change nothing else; what comes before the first frame is skipped (`StrayRead`). `BatchRead` goes through the frames of a batch in
  order (`Known`): the images up to the nth have their output and code, the others
  have none. Distinct images are what this needs: a second frame of an image would
  add to the output of the first.
- *The log.* `ScanInv`: what the pod has written and what it has still to write are
  together the log of a script as `createScanJob` composes it (`LogFollows`), and a
  command that goes to read logs because the job has succeeded finds a pod that has
  succeeded and has nothing left to write, or none (`SuccessIsLast`). A log that was cut or
  read early therefore never counts as an answer. `JobComesAndGoes` follows the
  object of the Job along the command.
- `ReportsAlwaysTrue`, `JobAlwaysDeleted`: from `ScanInv`. `ScannedIsReported` assumes
  that no batch has one image only; with one, the property fails, which is the finding
  `batch_of_one`. The run `scans` has such requests only, too.
- `ReportAlwaysWhole`, `OldAlwaysAfterFailures`, `OldAlwaysBetterThanNone` follow from
  `LocalInv`, which says of each command by itself what it may rely on: between looking
  and renaming it knows whether there was an old file and how often it has tried
  (`Justified`); it renames only what is complete; and when it runs a tool it has seen
  the file young, stored it, or used up its attempts (`Entitled`). Nothing relates two
  commands: whatever the others do to the file, a rename leaves a whole one behind.
- `EitherModeIsSafe`: all of these but `ScannedMeansReported` for `ScannerSpec`, in which
  the mode decides which half moves.

### Recursion

What a recursive function yields needs induction, and the induction theorems of the
library take an operator. Where a proof needs it (`DaysLaterDefined`, `Recursion`,
`JoiningDefined`, `ReadingDefined`) it goes by the smallest counterexample instead:
the natural numbers are well founded (`NatLessThanWellFounded`, `WFMin`), and both the
set of counterexamples and the step are given as a set and a function. This is why
`Parsed` is the last value of `Reading`, a function of the number of lines, and not a
fold.

### Only model-checked

- All liveness: fairness is out of the prover's reach.
- `ValuesTree` implements `Values`: it recurses over maps.

## Divergences found

1. `reverted_spec`: `imagepatch_types.go:29` says of the reverted-generation
   marker "That spec is not applied again". After AutoRevert, a reconcile on a
   cached copy that does not show the marker yet applies the spec again; a
   later one reverts it.
2. `reconcile_clears`: `README.md:172` sends users with stale state to
   `image-reconcile`. When the `HelmChartConfig` is gone it succeeds without
   removing the entry, and no command removes it.
3. `modes_exclusive`: `README.md:344`, "The two modes are exclusive". Both check
   first and write last; an `ImagePatch` created in between leaves patches of
   both.
4. `batch_of_one`: `README.md:136` says for which tags `image-list --with-cves`
   collects CVEs. When one tag is all there is to scan, `createScanJob`
   (`internal/kube/cve_job.go:237`) writes the script of a single scan, without
   the markers the batch parser looks for, and the report is dropped.
5. `baseline_reverts`: `README.md:327`, "Setting `spec.tag` to the bundled tag
   reverts the patch". The running images are read first
   (`imagepatch_controller.go:274`), and without a running pod that is an error:
   while the patched image keeps its pods from running, the revert is never
   reached. Deleting the `ImagePatch` does revert.

Seen while modelling, without a run of their own:

- The guard against moving back (`imagepatch_controller.go:336-344`) reads
  `status.appliedTag`, which stays empty when the status write is lost to a
  conflict. A lower tag then replaces the one in place.
- `README.md:131` says eligible tags "can be patched on the current cluster". A
  newer tag on another minor line inside the window is listed, and refused by
  `image-patch` (`cmd/tags.go:129`).
- `image-patch` "picks the next newer tag" (`README.md:164`) among the first 200
  in the order of the registry; a newer tag after them is not seen.
- Pods that are not in phase Running are skipped (`internal/kube/images.go`), so
  `Ready` may be reported while a pod of the new image is still Pending.
- `README.md:328`: "Values the ImagePatch did not apply are never touched". A
  value a user had set to what the patch generates (the same repository, or the
  same tag) is no conflict, and the revert removes it. `RevertRestores` names
  this exception, and that of maps a user had left empty.
- `README.md:326`: the controller puts a value removed by hand back. It does so
  through all guardrails of a new patch: once the tag has left the patch window,
  or the listing, it stays removed (`imagepatch_controller.go:320-367`).
- A command whose downloads all failed reports that there is no VEX file, also
  when another command has stored one in between (`scanner.go:308`).
- `README.md:346`: `image-reconcile` "only reverts patches made with the CLI".
  With two operators on one component it may strip a patch of the controller: one
  reads the entries, the other reverts and removes them, the controller, no longer
  blocked, applies its own, and the first strips the same keys (`run.go:292`,
  `revert.go:58`). The drift correction puts the patch back.
  `CommandsSpareManaged` therefore speaks of components with one operator.
- The job of a scan stays when the command is interrupted, when the answer to its
  creation is lost and when its deletion fails; the temporary file of a killed
  local scan stays in the cache.

## Not modelled

- URLs, TLS and credentials of the registry client; sorting and deduplication of
  the CVEs a tool reports.
- Node arguments (`internal/kube/node_args.go`): nothing but its tests calls it.
- Name resolution of the component registry (`components.go`): a fixed table; the
  constants `ChartOf`, `KeyOf`, `Matching` and `Exempt` stand for what it yields.
- How objects are parsed and pods selected and paged (`internal/kube/images.go`,
  `helmcharts.go`, `chart_values.go`): `Cluster` starts from what they yield.
- Configuration, output, client set-up: they keep no state and decide nothing
  about patches.
- Generated code, chart and CRD: the CRD's rules (the name is the component,
  the component is immutable) are built into `Cluster`.
- Leader election: one leader at a time is assumed.

## Plan

Done: `TagPolicy`, `Cluster`, `ImagePatchController` with its proofs and its
refinement of `PatchLifecycle`, `TagSelection` on `TagListing` with their proofs,
`PatcherCLI` with `StateStore` and its proofs, `Values` with `ValuesTree` and its
proofs, `ScanJob` and `LocalScan` in `Scanner` with its proofs, `PatcherSystem` with
the controller and the commands in full, and its proofs. Every safety property of a
passing run is a theorem but the refinement of `Values` by `ValuesTree`.

Next: what of `ValuesTree` can be said without recursion over maps.
