--------------------------- MODULE Cluster_proofs ---------------------------
(***************************************************************************)
(* Lemmas about the objects of the API server and the writes to them, for  *)
(* the proofs about the controller and about the commands: what a write    *)
(* leaves behind, and that the environment keeps every object typed.       *)
(***************************************************************************)
EXTENDS Cluster, TLAPS

\* The objects that stand for "nothing there" are objects of their type.
LEMMA ObjectDefaults ==
    /\ AnyTag \in Tags
    /\ NoStatus \in Status
    /\ NoImagePatch \in ImagePatch
    /\ NoConfig \in HelmChartConfig
    /\ ~NoConfig.exists /\ EmptyConfig(NoConfig)
<1>1. 1 \in 1..MaxRelease
  BY TagsAssumption
<1>2. PICK c \in Components : TRUE
  BY ComponentsAssumption
<1>3. Bundled[1][c] \in Tags
  BY <1>1, <1>2, TagsAssumption
<1>4. AnyTag \in Tags
  BY <1>3 DEF AnyTag
<1>5. NoStatus \in Status
  BY DEF NoStatus, Status, OptTag, Reasons
<1>6. NoImagePatch \in ImagePatch
  BY <1>4, <1>5 DEF NoImagePatch, ImagePatch, Policies
<1>7. NoConfig \in HelmChartConfig
  BY BoundsAssumption DEF NoConfig, HelmChartConfig, OptTag, NoRelease
<1>8. ~NoConfig.exists /\ EmptyConfig(NoConfig)
  BY DEF NoConfig, EmptyConfig
<1> QED
  BY <1>4, <1>5, <1>6, <1>7, <1>8

\* The cluster starts with objects of their types.
LEMMA ClusterInitTyped ==
    ASSUME ClusterInit
    PROVE  ClusterTypeOK
<1>1. 1 \in Releases
  BY TagsAssumption DEF Releases
<1>2. \A c \in Components : Bundled[1][c] \in Tags
  BY <1>1, TagsAssumption DEF Releases
<1> QED
  BY <1>1, <1>2, ObjectDefaults, BoundsAssumption DEF ClusterInit, ClusterTypeOK, State

---------------------------------------------------------------------------
(* Writes.                                                                 *)

LEMMA ImagePatchWrites ==
    ASSUME ClusterTypeOK, NEW c \in Components
    PROVE  /\ \A obj \in ImagePatch : UpdateImagePatch(c, obj) =>
                 ip' \in [Components -> ImagePatch]
           /\ \A status \in Status : UpdateStatus(c, status) =>
                 ip' \in [Components -> ImagePatch]
           /\ RemoveImagePatch(c) => ip' \in [Components -> ImagePatch]
<1> USE DEF ClusterTypeOK
<1>1. ip[c] \in ImagePatch /\ ip[c].rv + 1 \in Nat /\ ip[c].generation \in Nat
      /\ ip[c].status \in Status
  BY DEF ImagePatch
<1>2. ASSUME NEW obj \in ImagePatch, UpdateImagePatch(c, obj)
      PROVE  ip' \in [Components -> ImagePatch]
  <2>1. [obj EXCEPT !.rv = ip[c].rv + 1, !.status = ip[c].status] \in ImagePatch
    BY <1>1 DEF ImagePatch
  <2> QED
    BY <1>2, <2>1 DEF UpdateImagePatch
<1>3. ASSUME NEW status \in Status, UpdateStatus(c, status)
      PROVE  ip' \in [Components -> ImagePatch]
  <2>1. [ip[c] EXCEPT !.status = status, !.rv = ip[c].rv + 1] \in ImagePatch
    BY <1>1 DEF ImagePatch
  <2>2. ip' = [ip EXCEPT ![c] = [ip[c] EXCEPT !.status = status, !.rv = ip[c].rv + 1]]
    BY <1>1, <1>3 DEF UpdateStatus, ImagePatch
  <2> QED
    BY <2>1, <2>2
<1>4. ASSUME RemoveImagePatch(c)
      PROVE  ip' \in [Components -> ImagePatch]
  <2>1. [NoImagePatch EXCEPT !.rv = ip[c].rv + 1, !.generation = ip[c].generation] \in ImagePatch
    BY <1>1, ObjectDefaults DEF ImagePatch
  <2> QED
    BY <1>4, <2>1 DEF RemoveImagePatch
<1> QED
  BY <1>2, <1>3, <1>4

LEMMA ConfigWrites ==
    ASSUME ClusterTypeOK, NEW ch \in Charts, NEW content \in HelmChartConfig,
           ApplyHelmChartConfig(ch, content)
    PROVE  hcc' \in [Charts -> HelmChartConfig]
<1>1. hcc[ch].rv + 1 \in Nat
  BY DEF ClusterTypeOK, HelmChartConfig
<1>2. [content EXCEPT !.exists = TRUE, !.rv = hcc[ch].rv + 1] \in HelmChartConfig
  BY <1>1 DEF HelmChartConfig
<1> QED
  BY <1>2 DEF ApplyHelmChartConfig, ClusterTypeOK

\* What a write leaves behind, told apart by the annotations it writes.
LEMMA ConfigWritten ==
    ASSUME ClusterTypeOK, NEW ch \in Charts, NEW content \in HelmChartConfig,
           ApplyHelmChartConfig(ch, content)
    PROVE  /\ \A e \in Charts \ {ch} : hcc'[e] = hcc[e]
           /\ hcc'[ch].exists /\ hcc'[ch].rv = hcc[ch].rv + 1
           /\ hcc'[ch].values = content.values
           /\ hcc'[ch].managedOn = content.managedOn
           /\ hcc'[ch].other = content.other
BY DEF ApplyHelmChartConfig, ClusterTypeOK, HelmChartConfig

\* A write that is accepted replaces an object whose contents were read: an
\* older copy is refused, and a missing object has no contents.
LEMMA AcceptedWrite ==
    ASSUME ClusterTypeOK, NEW ch \in Charts, NEW copy \in HelmChartConfig,
           IF copy.exists THEN CopyOf(copy, hcc[ch]) ELSE EmptyConfig(copy),
           ~hcc[ch].exists => EmptyConfig(hcc[ch]),
           CanApply(ch, copy)
    PROVE  /\ copy.values = hcc[ch].values
           /\ copy.managedOn = hcc[ch].managedOn
           /\ copy.other = hcc[ch].other
BY DEF CanApply, CopyOf, EmptyConfig

\* What is written is a HelmChartConfig again, and differs from what was read in
\* the one slot or the one annotation it is about.
LEMMA ContentsTyped ==
    ASSUME NEW config \in HelmChartConfig, NEW c \in Components
    PROVE  /\ \A t \in OptTag : MergeGenerated(config, c, t) \in HelmChartConfig
           /\ \A v \in Releases \cup {NoRelease} :
                 SetAnnotation(config, c, v) \in HelmChartConfig
           /\ SubtractGenerated(config, c) \in HelmChartConfig
<1>1. KeyOf[c] \in Keys
  BY ComponentsAssumption
<1>2. ASSUME NEW t \in OptTag PROVE MergeGenerated(config, c, t) \in HelmChartConfig
  BY <1>1 DEF MergeGenerated, HelmChartConfig
<1>3. ASSUME NEW v \in Releases \cup {NoRelease}
      PROVE  SetAnnotation(config, c, v) \in HelmChartConfig
  BY DEF SetAnnotation, HelmChartConfig
<1>4. SubtractGenerated(config, c) \in HelmChartConfig
  BY <1>1 DEF SubtractGenerated, HelmChartConfig, OptTag
<1> QED
  BY <1>2, <1>3, <1>4

LEMMA SpendTyped ==
    ASSUME ClusterTypeOK, NEW m \in Moves, Spend(m)
    PROVE  budget' \in [Moves -> Nat]
BY DEF Spend, ClusterTypeOK

---------------------------------------------------------------------------
(* The environment.                                                        *)

\* What users do.
LEMMA UserTyped ==
    ASSUME ClusterTypeOK, UserStep
    PROVE  ClusterTypeOK'
<1> USE DEF ClusterTypeOK
<1>1. ASSUME NEW c \in Components, NEW t \in Requested, NEW p \in Policies,
             CreateImagePatch(c, t, p) \/ EditImagePatch(c, t, p)
      PROVE  ClusterTypeOK'
  <2>1. t \in Tags /\ ip[c] \in ImagePatch
    BY TagsAssumption
  <2>2. ip[c].rv + 1 \in Nat /\ ip[c].generation + 1 \in Nat
    BY <2>1 DEF ImagePatch
  <2>3. [NoImagePatch EXCEPT !.exists = TRUE, !.rv = ip[c].rv + 1,
             !.generation = ip[c].generation + 1, !.tag = t, !.upgradePolicy = p] \in ImagePatch
    BY <2>1, <2>2, ObjectDefaults DEF ImagePatch
  <2>4. [ip[c] EXCEPT !.rv = ip[c].rv + 1, !.generation = ip[c].generation + 1,
                      !.tag = t, !.upgradePolicy = p] \in ImagePatch
    BY <2>1, <2>2 DEF ImagePatch
  <2>5. ip' \in [Components -> ImagePatch]
    <3>1. CASE CreateImagePatch(c, t, p)
      BY <3>1, <2>3 DEF CreateImagePatch
    <3>2. CASE EditImagePatch(c, t, p)
      BY <3>2, <2>4 DEF EditImagePatch
    <3> QED
      BY <1>1, <3>1, <3>2
  <2>6. budget' \in [Moves -> Nat]
    BY <1>1, SpendTyped DEF CreateImagePatch, EditImagePatch, Moves
  <2> QED
    BY <1>1, <2>5, <2>6 DEF CreateImagePatch, EditImagePatch
<1>2. ASSUME NEW c \in Components, RemoveMarker(c) \/ DeleteImagePatch(c)
      PROVE  ClusterTypeOK'
  <2>1. ip[c] \in ImagePatch /\ ip[c].rv + 1 \in Nat /\ ip[c].generation + 1 \in Nat
    BY DEF ImagePatch
  <2>2. [ip[c] EXCEPT !.rv = ip[c].rv + 1, !.revertedGeneration = 0] \in ImagePatch
    BY <2>1 DEF ImagePatch
  <2>3. [ip[c] EXCEPT !.rv = ip[c].rv + 1, !.generation = ip[c].generation + 1,
                      !.deleting = TRUE] \in ImagePatch
    BY <2>1 DEF ImagePatch
  <2>4. RemoveImagePatch(c) => ip' \in [Components -> ImagePatch]
    BY ImagePatchWrites
  <2>5. ip' \in [Components -> ImagePatch]
    <3>1. CASE RemoveMarker(c)
      BY <3>1, <2>2 DEF RemoveMarker
    <3>2. CASE DeleteImagePatch(c) /\ ip[c].finalizer
      BY <3>2, <2>3 DEF DeleteImagePatch
    <3>3. CASE DeleteImagePatch(c) /\ ~ip[c].finalizer
      BY <3>3, <2>4 DEF DeleteImagePatch
    <3> QED
      BY <1>2, <3>1, <3>2, <3>3
  <2>6. budget' \in [Moves -> Nat]
    BY <1>2, SpendTyped DEF RemoveMarker, DeleteImagePatch, Moves
  <2> QED
    BY <1>2, <2>5, <2>6 DEF RemoveMarker, DeleteImagePatch
<1>3. ASSUME NEW c \in Components, NEW t \in Requested \cup {NoTag}, OverrideImage(c, t)
      PROVE  ClusterTypeOK'
  <2>1. ChartOf[c] \in Charts /\ hcc[ChartOf[c]] \in HelmChartConfig /\ t \in OptTag
    BY ComponentsAssumption, TagsAssumption DEF OptTag
  <2>2. hcc' \in [Charts -> HelmChartConfig]
    BY <1>3, <2>1, ContentsTyped, ConfigWrites DEF OverrideImage
  <2>3. budget' \in [Moves -> Nat]
    BY <1>3, SpendTyped DEF OverrideImage, Moves
  <2> QED
    BY <1>3, <2>2, <2>3 DEF OverrideImage
<1>4. ASSUME NEW ch \in Charts, EditOtherValues(ch) \/ DeleteConfig(ch)
      PROVE  ClusterTypeOK'
  <2>1. hcc[ch] \in HelmChartConfig /\ hcc[ch].rv + 1 \in Nat
    BY DEF HelmChartConfig
  <2>2. ASSUME hcc[ch].other < MaxOther
        PROVE  [hcc[ch] EXCEPT !.other = @ + 1] \in HelmChartConfig
    <3>1. hcc[ch].other + 1 \in 0..MaxOther
      BY <2>1, <2>2, BoundsAssumption DEF HelmChartConfig
    <3>2. [hcc[ch] EXCEPT !.other = hcc[ch].other + 1] \in HelmChartConfig
      BY <2>1, <3>1 DEF HelmChartConfig
    <3> QED
      BY <2>1, <3>2 DEF HelmChartConfig
  <2>3. [NoConfig EXCEPT !.rv = hcc[ch].rv + 1] \in HelmChartConfig
    BY <2>1, ObjectDefaults DEF HelmChartConfig
  <2>4. hcc' \in [Charts -> HelmChartConfig]
    <3>1. CASE EditOtherValues(ch)
      <4>1. /\ hcc[ch].other < MaxOther
            /\ ApplyHelmChartConfig(ch, [hcc[ch] EXCEPT !.other = @ + 1])
        BY <3>1 DEF EditOtherValues
      <4> QED
        BY <4>1, <2>2, ConfigWrites
    <3>2. CASE DeleteConfig(ch)
      BY <3>2, <2>3 DEF DeleteConfig
    <3> QED
      BY <1>4, <3>1, <3>2
  <2>5. budget' \in [Moves -> Nat]
    BY <1>4, SpendTyped DEF EditOtherValues, DeleteConfig, Moves
  <2> QED
    BY <1>4, <2>4, <2>5 DEF EditOtherValues, DeleteConfig
<1> QED
  BY <1>1, <1>2, <1>3, <1>4 DEF UserStep

\* What helm renders is a tag.
LEMMA RenderedTyped ==
    ASSUME ClusterTypeOK, NEW c \in Components
    PROVE  Rendered(c) \in Tags
<1>1. ChartOf[c] \in Charts /\ KeyOf[c] \in Keys
  BY ComponentsAssumption
<1>2. hcc[ChartOf[c]].values[KeyOf[c]] \in OptTag
  BY <1>1 DEF ClusterTypeOK, HelmChartConfig
<1>3. Bundled[bundle[ChartOf[c]]][c] \in Tags
  BY <1>1, TagsAssumption DEF ClusterTypeOK, Releases
<1> QED
  BY <1>2, <1>3 DEF Rendered, OptTag

\* What RKE2 and helm do.
LEMMA PlatformTyped ==
    ASSUME ClusterTypeOK, PlatformStep \/ UpgradeVersion
    PROVE  ClusterTypeOK'
<1> USE DEF ClusterTypeOK
<1>1. ASSUME NEW ch \in Charts, UpgradeChart(ch)
      PROVE  ClusterTypeOK'
  <2>1. bundle' \in [Charts -> Releases]
    BY <1>1, TagsAssumption DEF UpgradeChart, Releases
  <2>2. budget' \in [Moves -> Nat]
    BY <1>1, SpendTyped DEF UpgradeChart, Moves
  <2> QED
    BY <1>1, <2>1, <2>2 DEF UpgradeChart
<1>2. ASSUME NEW c \in Components, Rollout(c)
      PROVE  ClusterTypeOK'
  <2>1. running' \in [Components -> SUBSET Tags]
    BY <1>2, RenderedTyped DEF Rollout
  <2>2. budget' \in [Moves -> Nat]
    BY <1>2, SpendTyped DEF Rollout, Moves
  <2> QED
    BY <1>2, <2>1, <2>2 DEF Rollout
<1>3. ASSUME UpgradeVersion
      PROVE  ClusterTypeOK'
  <2>1. release' \in Releases
    BY <1>3, TagsAssumption DEF UpgradeVersion, Releases
  <2>2. budget' \in [Moves -> Nat]
    BY <1>3, SpendTyped DEF UpgradeVersion, Moves
  <2> QED
    BY <1>3, <2>1, <2>2 DEF UpgradeVersion
<1> QED
  BY <1>1, <1>2, <1>3 DEF PlatformStep

---------------------------------------------------------------------------
(* Versions.                                                               *)

\* A HelmChartConfig that changes gets the next resource version, and one that
\* is not there is empty.
ConfigsAdvance ==
    \A ch \in Charts :
        \/ hcc'[ch] = hcc[ch]
        \/ /\ hcc'[ch].rv = hcc[ch].rv + 1
           /\ hcc'[ch].exists \/ EmptyConfig(hcc'[ch])

\* So do the objects that are written.
LEMMA WriteAdvances ==
    ASSUME ClusterTypeOK, NEW ch \in Charts, NEW content \in HelmChartConfig,
           ApplyHelmChartConfig(ch, content)
    PROVE  ConfigsAdvance
<1>1. /\ \A e \in Charts \ {ch} : hcc'[e] = hcc[e]
      /\ hcc'[ch].exists /\ hcc'[ch].rv = hcc[ch].rv + 1
  BY ConfigWritten
<1> QED
  BY <1>1 DEF ConfigsAdvance

\* What users do to HelmChartConfig objects, and that they leave the state of
\* the CLI alone.
LEMMA UserAdvances ==
    ASSUME ClusterTypeOK, UserStep
    PROVE  ConfigsAdvance /\ UNCHANGED state
<1>1. ASSUME NEW c \in Components,
             \/ \E t \in Requested, p \in Policies :
                   CreateImagePatch(c, t, p) \/ EditImagePatch(c, t, p)
             \/ RemoveMarker(c) \/ DeleteImagePatch(c)
      PROVE  UNCHANGED <<hcc, state>>
  BY <1>1 DEF CreateImagePatch, EditImagePatch, RemoveMarker, DeleteImagePatch
<1>2. ASSUME NEW c \in Components, NEW t \in Requested \cup {NoTag}, OverrideImage(c, t)
      PROVE  ConfigsAdvance /\ UNCHANGED state
  <2>1. ChartOf[c] \in Charts /\ t \in OptTag /\ hcc[ChartOf[c]] \in HelmChartConfig
    BY ComponentsAssumption, TagsAssumption DEF OptTag, ClusterTypeOK
  <2>2. MergeGenerated(hcc[ChartOf[c]], c, t) \in HelmChartConfig
    BY <2>1, ContentsTyped
  <2> QED
    BY <1>2, <2>1, <2>2, WriteAdvances DEF OverrideImage
<1>3. ASSUME NEW ch \in Charts, EditOtherValues(ch)
      PROVE  ConfigsAdvance /\ UNCHANGED state
  <2>1. hcc[ch] \in HelmChartConfig /\ hcc[ch].other + 1 \in 0..MaxOther
    BY <1>3, BoundsAssumption DEF EditOtherValues, ClusterTypeOK, HelmChartConfig
  <2>2. [hcc[ch] EXCEPT !.other = @ + 1] \in HelmChartConfig
    BY <2>1 DEF HelmChartConfig
  <2> QED
    BY <1>3, <2>2, WriteAdvances DEF EditOtherValues
<1>4. ASSUME NEW ch \in Charts, DeleteConfig(ch)
      PROVE  ConfigsAdvance /\ UNCHANGED state
  <2>1. \A e \in Charts : hcc'[e] = IF e = ch THEN [NoConfig EXCEPT !.rv = hcc[ch].rv + 1]
                                               ELSE hcc[e]
    BY <1>4 DEF DeleteConfig, ClusterTypeOK
  <2>2. LET new == [NoConfig EXCEPT !.rv = hcc[ch].rv + 1]
        IN  EmptyConfig(new) /\ new.rv = hcc[ch].rv + 1
    BY DEF EmptyConfig, NoConfig
  <2> QED
    BY <1>4, <2>1, <2>2 DEF DeleteConfig, ConfigsAdvance
<1> QED
  BY <1>1, <1>2, <1>3, <1>4 DEF UserStep, ConfigsAdvance

LEMMA PlatformKeeps ==
    ASSUME PlatformStep \/ UpgradeVersion
    PROVE  UNCHANGED <<ip, hcc, state>>
BY DEF PlatformStep, UpgradeChart, Rollout, UpgradeVersion

=============================================================================
