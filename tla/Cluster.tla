------------------------------ MODULE Cluster ------------------------------
(***************************************************************************)
(* The objects of the Kubernetes API server that rke2-patcher reads and    *)
(* writes, the optimistic concurrency of those writes, and what the rest   *)
(* of the world does to them: users edit ImagePatch and HelmChartConfig    *)
(* objects, RKE2 is upgraded, helm rolls charts out.                       *)
(*                                                                         *)
(* Values files are abstracted to what the patcher tells apart.  The       *)
(* repository/tag leaves a component's patch generates are one slot (its   *)
(* "key"); a slot holds a tag or nothing.  Everything else in the object   *)
(* (other values, labels, failurePolicy) is the number "other".            *)
(***************************************************************************)
EXTENDS Integers, FiniteSets, TagPolicy

CONSTANTS
    Components,   \* the registry of internal/components
    Charts,       \* names of HelmChart / HelmChartConfig objects
    ChartOf,      \* Component.HelmChartConfigName
    Keys,         \* slots of chart values
    KeyOf,        \* the slot renderValuesContent generates for a component
    Matching,     \* components whose chart layout BundledImageTag accepts
    Exempt,       \* components IsPatchWindowExempt accepts
    Tags,         \* tags that occur in specs, charts and registries
    NoTag,        \* an empty slot, an empty status.appliedTag
    MaxRelease,   \* number of RKE2 releases in the history of the cluster
    Bundled,      \* release -> component -> the tag its chart bundles
    ZeroDay,      \* release -> build of its kube-apiserver image
    Published,    \* component -> the tags ListTags returns
    Prime,        \* charts whose HelmChart has prime.enabled
    Requested,    \* tags users ask for, in a spec or by hand
    MaxOther,     \* bound on revisions of the values the patcher ignores
    Budgets       \* how often each move of the environment may happen: one of these

Releases == 1..MaxRelease
NoRelease == 0

Moves == {"create", "edit", "unmark", "delete", "override", "values",
          "dropConfig", "version", "bundle", "rollout", "cli", "crash", "fault"}

ASSUME ComponentsAssumption ==
    /\ Components # {}
    /\ ChartOf \in [Components -> Charts]
    /\ KeyOf \in [Components -> Keys]
    /\ Matching \subseteq Components
    /\ Exempt \subseteq Components
    /\ Prime \subseteq Charts

\* Two components whose layout is accepted never share a slot: the repository
\* next to a slot is one component's repository (bundled.go:65-69).
ASSUME KeysAssumption ==
    \A c, d \in Matching : KeyOf[c] = KeyOf[d] => c = d

ASSUME TagsAssumption ==
    /\ Tags \subseteq TagRecord
    /\ NoTag \notin Tags
    /\ MaxRelease \in Nat \ {0}
    /\ Bundled \in [1..MaxRelease -> [Components -> Tags]]
    /\ ZeroDay \in [1..MaxRelease -> Nat]
    /\ Published \in [Components -> SUBSET Tags]
    /\ Requested \subseteq Tags

ASSUME BoundsAssumption == MaxOther \in Nat /\ Budgets \subseteq [Moves -> Nat]

VARIABLES
    ip,       \* ImagePatch objects, one per component (name = spec.component)
    hcc,      \* HelmChartConfig objects, one per chart
    state,    \* the rke2-patcher-state ConfigMap of the CLI
    release,  \* the release whose version the API server reports
    bundle,   \* the release whose chart each HelmChart embeds
    running,  \* tags the pods of each component run that are Running
    budget    \* moves the environment has left

clusterVars == <<ip, hcc, state, release, bundle, running, budget>>

OptTag == Tags \cup {NoTag}
Policies == {"Manual", "AutoRevert"}

\* Ready condition reasons; "" is the status of an object never reconciled.
Reasons == {"", "Error", "NotPrime", "CLIPatchesExist", "ChartLayoutMismatch",
            "RKE2Upgraded",
            "RevertedAfterUpgrade", "AtBaseline", "Patched", "RolloutInProgress",
            "StalePatchesExist", "NotNewer", "MinorVersionChange", "TagNotFound",
            "UnparsableTag", "OutsidePatchWindow", "ConflictingOverride", "Retrying"}

Status == [appliedTag : OptTag, reason : Reasons, observedGeneration : Nat]

\* A resource version and a generation survive the object, so that neither is
\* ever reused: they stand for (uid, resourceVersion) and (uid, generation).
\* revertedGeneration is the annotation's value, 0 when it is not there.
ImagePatch == [exists : BOOLEAN, rv : Nat, generation : Nat, deleting : BOOLEAN,
               finalizer : BOOLEAN, tag : Tags, upgradePolicy : Policies,
               revertedGeneration : Nat, status : Status]

\* managedOn is the annotation patcher.rke2.cattle.io/<component>.
HelmChartConfig == [exists : BOOLEAN, rv : Nat, values : [Keys -> OptTag],
                    managedOn : [Components -> Releases \cup {NoRelease}],
                    other : 0..MaxOther]

\* One patch made with the CLI; the key of an entry is clusterVersion|component.
Entry == [component : Components, clusterVersion : Releases,
          baselineTag : Tags, patchedToTag : Tags]

\* rv 0 is the empty resource version of a ConfigMap that does not exist.
State == [rv : Nat, entries : SUBSET Entry]

AnyTag == CHOOSE t \in Tags : TRUE
NoStatus == [appliedTag |-> NoTag, reason |-> "", observedGeneration |-> 0]
NoImagePatch == [exists |-> FALSE, rv |-> 0, generation |-> 0, deleting |-> FALSE,
                 finalizer |-> FALSE, tag |-> AnyTag, upgradePolicy |-> "Manual",
                 revertedGeneration |-> 0, status |-> NoStatus]
NoConfig == [exists |-> FALSE, rv |-> 0, values |-> [k \in Keys |-> NoTag],
             managedOn |-> [c \in Components |-> NoRelease], other |-> 0]

ClusterInit ==
    /\ ip = [c \in Components |-> NoImagePatch]
    /\ hcc = [ch \in Charts |-> NoConfig]
    /\ state = [rv |-> 0, entries |-> {}]
    /\ release = 1
    /\ bundle = [ch \in Charts |-> 1]
    /\ running = [c \in Components |-> {Bundled[1][c]}]
    /\ budget \in Budgets

---------------------------------------------------------------------------
(* API server writes.  A write carries the resource version that was read. *)

\* r.Update and Status().Update succeed only on the version that was read.
CanUpdate(c, obj) == ip[c].exists /\ ip[c].rv = obj.rv

\* Update of the main resource: the server keeps its own status.
UpdateImagePatch(c, obj) ==
    ip' = [ip EXCEPT ![c] = [obj EXCEPT !.rv = ip[c].rv + 1, !.status = ip[c].status]]

\* Update of the status subresource: the server keeps its own spec and metadata.
UpdateStatus(c, status) ==
    ip' = [ip EXCEPT ![c].status = status, ![c].rv = @ + 1]

\* The last finalizer of a deleted object goes: so does the object.
RemoveImagePatch(c) ==
    ip' = [ip EXCEPT ![c] = [NoImagePatch EXCEPT !.rv = ip[c].rv + 1,
                                                 !.generation = ip[c].generation]]

\* Mutant: the version that was read is not compared.
CanApplyAnyVersion(ch, current) == hcc[ch].exists = current.exists

\* An empty resource version creates and fails on an object that exists
\* (AlreadyExists); any other one updates that version only (Conflict).
CanApply(ch, current) ==
    IF current.exists THEN hcc[ch].exists /\ hcc[ch].rv = current.rv
                      ELSE ~hcc[ch].exists

ApplyHelmChartConfig(ch, content) ==
    hcc' = [hcc EXCEPT ![ch] = [content EXCEPT !.exists = TRUE, !.rv = hcc[ch].rv + 1]]

\* Mutant: the generated values replace the existing ones.
MergeOverwrites(current, c, tag) == [current EXCEPT !.values = [k \in {KeyOf[c]} |-> tag]]

\* Merge keeps every value of the existing object and sets the generated ones.
MergeGenerated(current, c, tag) == [current EXCEPT !.values[KeyOf[c]] = tag]

\* Subtract removes the generated keys whatever their value is.
SubtractGenerated(current, c) == [current EXCEPT !.values[KeyOf[c]] = NoTag]

SetAnnotation(current, c, version) == [current EXCEPT !.managedOn[c] = version]

\* Mutant: the last one to save wins.
CanSaveAlways(loaded) == loaded.rv \in Nat

\* Saving the state succeeds only on the version that was loaded.
CanSave(loaded) == state.rv = loaded.rv

SaveState(entries) == state' = [rv |-> state.rv + 1, entries |-> entries]

Managed(config, c) == config.managedOn[c] # NoRelease

---------------------------------------------------------------------------
(* The environment.                                                        *)

Spend(move) == budget[move] > 0 /\ budget' = [budget EXCEPT ![move] = @ - 1]

CreateImagePatch(c, t, p) ==
    /\ ~ip[c].exists
    /\ Spend("create")
    /\ ip' = [ip EXCEPT ![c] = [NoImagePatch EXCEPT
                 !.exists = TRUE, !.rv = ip[c].rv + 1,
                 !.generation = ip[c].generation + 1,
                 !.tag = t, !.upgradePolicy = p]]
    /\ UNCHANGED <<hcc, state, release, bundle, running>>

\* Only spec.tag and spec.upgradePolicy are mutable; a change bumps generation.
EditImagePatch(c, t, p) ==
    /\ ip[c].exists
    /\ <<t, p>> # <<ip[c].tag, ip[c].upgradePolicy>>
    /\ Spend("edit")
    /\ ip' = [ip EXCEPT ![c] = [ip[c] EXCEPT
                 !.rv = ip[c].rv + 1, !.generation = ip[c].generation + 1,
                 !.tag = t, !.upgradePolicy = p]]
    /\ UNCHANGED <<hcc, state, release, bundle, running>>

\* The user removes the reverted-generation annotation to patch again.
RemoveMarker(c) ==
    /\ ip[c].exists /\ ip[c].revertedGeneration # 0
    /\ Spend("unmark")
    /\ ip' = [ip EXCEPT ![c] = [ip[c] EXCEPT !.rv = ip[c].rv + 1,
                                             !.revertedGeneration = 0]]
    /\ UNCHANGED <<hcc, state, release, bundle, running>>

\* With a finalizer the object stays, marked (a generation of its own).
DeleteImagePatch(c) ==
    /\ ip[c].exists /\ ~ip[c].deleting
    /\ Spend("delete")
    /\ IF ip[c].finalizer
       THEN ip' = [ip EXCEPT ![c] = [ip[c] EXCEPT
                !.rv = ip[c].rv + 1, !.generation = ip[c].generation + 1,
                !.deleting = TRUE]]
       ELSE RemoveImagePatch(c)
    /\ UNCHANGED <<hcc, state, release, bundle, running>>

\* A user sets or removes the image values of a component by hand.
OverrideImage(c, t) ==
    /\ hcc[ChartOf[c]].values[KeyOf[c]] # t
    /\ Spend("override")
    /\ ApplyHelmChartConfig(ChartOf[c], MergeGenerated(hcc[ChartOf[c]], c, t))
    /\ UNCHANGED <<ip, state, release, bundle, running>>

\* A user changes something else in the object.
EditOtherValues(ch) ==
    /\ hcc[ch].other < MaxOther
    /\ Spend("values")
    /\ ApplyHelmChartConfig(ch, [hcc[ch] EXCEPT !.other = @ + 1])
    /\ UNCHANGED <<ip, state, release, bundle, running>>

DeleteConfig(ch) ==
    /\ hcc[ch].exists
    /\ Spend("dropConfig")
    /\ hcc' = [hcc EXCEPT ![ch] = [NoConfig EXCEPT !.rv = hcc[ch].rv + 1]]
    /\ UNCHANGED <<ip, state, release, bundle, running>>

\* An upgrade: the API server reports the next version, and RKE2 replaces the
\* charts, in no particular order.
UpgradeVersion ==
    /\ release < MaxRelease
    /\ Spend("version")
    /\ release' = release + 1
    /\ UNCHANGED <<ip, hcc, state, bundle, running>>

UpgradeChart(ch) ==
    /\ bundle[ch] < MaxRelease
    /\ Spend("bundle")
    /\ bundle' = [bundle EXCEPT ![ch] = @ + 1]
    /\ UNCHANGED <<ip, hcc, state, release, running>>

\* What helm renders for a component: its override, else the bundled tag.
Rendered(c) ==
    IF hcc[ChartOf[c]].values[KeyOf[c]] # NoTag THEN hcc[ChartOf[c]].values[KeyOf[c]]
    ELSE Bundled[bundle[ChartOf[c]]][c]

\* Pods are replaced some at a time: first both tags run, then the new one; or
\* the old ones are gone before a new one runs, if its image can be pulled.
Rollout(c) ==
    /\ running[c] # {Rendered(c)}
    /\ Spend("rollout")
    /\ \/ running' = [running EXCEPT ![c] = {Rendered(c)}]
       \/ /\ Rendered(c) \notin running[c]
          /\ running' \in {[running EXCEPT ![c] = {}],
                           [running EXCEPT ![c] = @ \cup {Rendered(c)}]}
    /\ UNCHANGED <<ip, hcc, state, release, bundle>>

UserStep ==
    \/ \E c \in Components, t \in Requested, p \in Policies :
          CreateImagePatch(c, t, p) \/ EditImagePatch(c, t, p)
    \/ \E c \in Components : RemoveMarker(c) \/ DeleteImagePatch(c)
    \/ \E c \in Components, t \in Requested \cup {NoTag} : OverrideImage(c, t)
    \/ \E ch \in Charts : EditOtherValues(ch) \/ DeleteConfig(ch)

\* What RKE2, helm and the other mode do besides.
PlatformStep ==
    \/ \E ch \in Charts : UpgradeChart(ch)
    \/ \E c \in Components : Rollout(c)

---------------------------------------------------------------------------
(* What the proofs about both modes say of the objects.                    *)

\* A lagging copy is of an older version or equals the object.
CopyOf(copy, obj) == copy.rv <= obj.rv /\ (copy.rv = obj.rv => copy = obj)

\* Nothing is written in the object, or it is not there.
EmptyConfig(config) ==
    config.values = NoConfig.values /\ config.managedOn = NoConfig.managedOn
    /\ config.other = NoConfig.other

ClusterTypeOK ==
    /\ ip \in [Components -> ImagePatch]
    /\ hcc \in [Charts -> HelmChartConfig]
    /\ state \in State
    /\ release \in Releases
    /\ bundle \in [Charts -> Releases]
    /\ running \in [Components -> SUBSET Tags]
    /\ budget \in [Moves -> Nat]
=============================================================================
