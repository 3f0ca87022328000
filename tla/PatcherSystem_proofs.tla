------------------------ MODULE PatcherSystem_proofs ------------------------
(***************************************************************************)
(* Proofs about both modes on one cluster: each keeps its own inductive    *)
(* invariant next to the other, only a race of an image-patch with a new   *)
(* ImagePatch mixes them, and the controller still implements              *)
(* PatchLifecycle.                                                         *)
(***************************************************************************)
EXTENDS PatcherSystem, ImagePatchController_refinement

\* PatcherCLI once more, with what is proved about it.
Commands == INSTANCE PatcherCLI_proofs

---------------------------------------------------------------------------
(* The two instances of PatcherCLI, and Cluster as the controller sees it, *)
(* are the same: their definitions are, word by word.                      *)

LEMMA AssumptionsMet ==
    /\ Commands!ComponentsAssumption /\ Commands!KeysAssumption /\ Commands!TagsAssumption
    /\ Commands!BoundsAssumption /\ Commands!ProcessesAssumption
BY ComponentsAssumption, KeysAssumption, TagsAssumption, BoundsAssumption, OperatorsAssumption
DEF Commands!ComponentsAssumption, Commands!KeysAssumption, Commands!TagsAssumption,
    Commands!BoundsAssumption, Commands!ProcessesAssumption,
    TagRecord, Commands!TagRecord, Moves, Commands!Moves

LEMMA SameObjects ==
    /\ ClusterTypeOK <=> Commands!ClusterTypeOK
    /\ ClusterTypeOK' <=> Commands!ClusterTypeOK'
    /\ ClusterInit <=> Commands!ClusterInit
    /\ ConfigsAdvance <=> Commands!ConfigsAdvance
BY DEF ClusterInit, Commands!ClusterInit, NoImagePatch, Commands!NoImagePatch, NoStatus,
    Commands!NoStatus, AnyTag, Commands!AnyTag, ClusterTypeOK, Commands!ClusterTypeOK, ConfigsAdvance, Commands!ConfigsAdvance,
    ImagePatch, Commands!ImagePatch, HelmChartConfig, Commands!HelmChartConfig, State,
    Commands!State, Releases, Commands!Releases, Moves, Commands!Moves, EmptyConfig,
    Commands!EmptyConfig, Policies, Commands!Policies, Status, Commands!Status, OptTag,
    Commands!OptTag, NoRelease, Commands!NoRelease, Entry, Commands!Entry, NoConfig,
    Commands!NoConfig, Reasons, Commands!Reasons

LEMMA SameCommands == CLI!CLIStep <=> Commands!CLIStep
BY DEF CLI!CLIStep, Commands!CLIStep, CLI!Start, Commands!Start, CLI!Step, Commands!Step,
    CLI!Stop, Commands!Stop, CLI!StartPatch, Commands!StartPatch, CLI!StartReconcile,
    Commands!StartReconcile, CLI!RefuseInControllerMode, Commands!RefuseInControllerMode,
    CLI!NoRunningImage, Commands!NoRunningImage, CLI!ChooseTarget, Commands!ChooseTarget,
    CLI!CheckPatchWindow, Commands!CheckPatchWindow, CLI!ReadConfig, Commands!ReadConfig,
    CLI!ReadVersion, Commands!ReadVersion, CLI!CheckState, Commands!CheckState,
    CLI!ApplyPatch, Commands!ApplyPatch, CLI!ReadCurrentVersion,
    Commands!ReadCurrentVersion, CLI!ReadEntries, Commands!ReadEntries, CLI!GetConfig,
    Commands!GetConfig, CLI!StripConfig, Commands!StripConfig, CLI!AllReverted,
    Commands!AllReverted, CLI!LoadState, Commands!LoadState, CLI!Save, Commands!Save,
    CLI!Spend, Commands!Spend, CLI!Exit, Commands!Exit, CLI!Unrecorded, Commands!Unrecorded,
    CLI!Begin, Commands!Begin, CLI!NoCommand, Commands!NoCommand, CLI!Continue,
    Commands!Continue, CLI!clusterVars, Commands!clusterVars, CLI!DefaultTargets,
    Commands!DefaultTargets, CLI!ExplicitTargets, Commands!ExplicitTargets, CLI!Set,
    Commands!Set, CLI!ValidatePatchWindow, Commands!ValidatePatchWindow, CLI!Persisted,
    Commands!Persisted, CLI!CanApply, Commands!CanApply, CLI!WriteConfig,
    Commands!WriteConfig, CLI!MergeGenerated, Commands!MergeGenerated, CLI!StaleEntries,
    Commands!StaleEntries, CLI!SubtractGenerated, Commands!SubtractGenerated,
    CLI!NothingToDo, Commands!NothingToDo, CLI!CanSave, Commands!CanSave, CLI!Mutated,
    Commands!Mutated, CLI!SaveState, Commands!SaveState, CLI!UpdatePCs, Commands!UpdatePCs,
    CLI!AnyTag, Commands!AnyTag, CLI!NoConfig, Commands!NoConfig, CLI!AnyEntry,
    Commands!AnyEntry, CLI!PatchTargets, Commands!PatchTargets, CLI!Newer, Commands!Newer,
    CLI!CompareTags, Commands!CompareTags, CLI!SameReleaseLine, Commands!SameReleaseLine,
    CLI!HasBuildDate, Commands!HasBuildDate, CLI!DayNumber, Commands!DayNumber,
    CLI!PatchWindowDays, Commands!PatchWindowDays, CLI!SameKey, Commands!SameKey,
    CLI!ApplyHelmChartConfig, Commands!ApplyHelmChartConfig, CLI!NoRelease,
    Commands!NoRelease, CLI!IsNewerMinorRelease, Commands!IsNewerMinorRelease,
    CLI!compareInt, Commands!compareInt, CLI!IsDate, Commands!IsDate, CLI!Year,
    Commands!Year, CLI!Month, Commands!Month, CLI!IsLeap, Commands!IsLeap, CLI!Day,
    Commands!Day, CLI!DaysIn, Commands!DaysIn

LEMMA SameInvariants ==
    /\ CLI!NoCommand = Commands!NoCommand
    /\ CLI!TypeOK <=> Commands!TypeOK
    /\ CLI!TypeOK' <=> Commands!TypeOK'
    /\ CLI!Consistent <=> Commands!Consistent
    /\ CLI!Consistent' <=> Commands!Consistent'
BY DEF CLI!NoCommand, Commands!NoCommand, CLI!TypeOK, Commands!TypeOK, CLI!Consistent,
    Commands!Consistent, CLI!AnyTag, Commands!AnyTag, CLI!NoConfig, Commands!NoConfig,
    CLI!AnyEntry, Commands!AnyEntry, CLI!ClusterTypeOK, Commands!ClusterTypeOK, CLI!Command,
    Commands!Command, CLI!EmptyConfig, Commands!EmptyConfig, CLI!UniqueKeys,
    Commands!UniqueKeys, CLI!WorkKnown, Commands!WorkKnown, CLI!CopiesKnown,
    Commands!CopiesKnown, CLI!TodoKnown, Commands!TodoKnown, CLI!NoRelease,
    Commands!NoRelease, CLI!ImagePatch, Commands!ImagePatch, CLI!HelmChartConfig,
    Commands!HelmChartConfig, CLI!State, Commands!State, CLI!Releases, Commands!Releases,
    CLI!Moves, Commands!Moves, CLI!PatchPCs, Commands!PatchPCs, CLI!ReconcilePCs,
    Commands!ReconcilePCs, CLI!UpdatePCs, Commands!UpdatePCs, CLI!OptTag, Commands!OptTag,
    CLI!Entry, Commands!Entry, CLI!Outs, Commands!Outs, CLI!SameKey, Commands!SameKey,
    CLI!CopyOf, Commands!CopyOf, CLI!Policies, Commands!Policies, CLI!Status,
    Commands!Status, CLI!Reasons, Commands!Reasons

---------------------------------------------------------------------------
(* What a step of one mode does to what the other mode relies on.          *)

\* The steps that are not a command's are steps the controller knows.
LEMMA OwnSteps ==
    ASSUME ControllerStep \/ WorldStep \/ UpgradeStep
    PROVE  Next
BY DEF WorldStep, Next, EnvironmentStep

LEMMA CommandKeepsTypes ==
    ASSUME TypeOK, CLI!TypeOK, CommandStep
    PROVE  TypeOK' /\ CLI!TypeOK'
<1>1. Commands!TypeOK'
  BY SameCommands, SameInvariants, Commands!CommandStepTyped, AssumptionsMet DEF CommandStep
<1>2. ClusterTypeOK'
  BY <1>1, SameObjects DEF Commands!TypeOK
<1>3. TypeOK'
  BY <1>2 DEF CommandStep, Woken, TypeOK
<1> QED
  BY <1>1, <1>3, SameInvariants

LEMMA ControllerKeepsTypes ==
    ASSUME TypeOK, CLI!TypeOK, ControllerStep \/ WorldStep \/ UpgradeStep,
           UNCHANGED <<cli, lost>>
    PROVE  TypeOK' /\ CLI!TypeOK'
<1>1. TypeOK'
  BY OwnSteps, StepTyped
<1>2. Commands!ClusterTypeOK'
  BY <1>1, SameObjects DEF TypeOK
<1>3. Commands!TypeOK'
  BY <1>2, SameInvariants DEF Commands!TypeOK
<1> QED
  BY <1>1, <1>3, SameInvariants

\* To the commands, the steps of the controller are writes like any others.
LEMMA ControllerAdvances ==
    ASSUME TypeOK, ControllerStep \/ WorldStep \/ UpgradeStep
    PROVE  ConfigsAdvance /\ UNCHANGED state
<1> USE ObjectsTyped
<1>1. UNCHANGED hcc => ConfigsAdvance
  BY DEF ConfigsAdvance
<1>2. CASE Revert
  BY <1>1, <1>2, RevertedTyped, WriteAdvances DEF Revert
<1>3. CASE Apply
  <2>1. rec.obj.tag \in OptTag /\ rec.on \in Releases \cup {NoRelease}
    BY DEF OptTag
  <2>2. SetAnnotation(MergeGenerated(rec.cur, rec.c, rec.obj.tag), rec.c, rec.on)
           \in HelmChartConfig
    BY <2>1, ContentsTyped
  <2> QED
    BY <1>1, <1>3, <2>2, WriteAdvances DEF Apply
<1>4. CASE WorldStep \/ UpgradeStep
  BY <1>1, <1>4, UserAdvances, PlatformKeeps DEF WorldStep, UpgradeStep
<1>5. CASE ControllerStep /\ ~Revert /\ ~Apply
  <2>1. UNCHANGED <<hcc, state>>
    BY <1>5 DEF ControllerStep, WorkerStep, AddFinalizer, ReadCLIState, ReadVersion,
       ReadChart, ReadConfig, ClearMarker, MarkReverted, ReportReverted, ReadImages,
       ImagesUnavailable, Validate, WriteStatus, Finalize, RemoveFinalizer, Dequeue,
       SyncCache, CallFails, Crash, clusterVars
  <2> QED
    BY <1>1, <2>1
<1> QED
  BY <1>2, <1>3, <1>4, <1>5

\* To the controller, a command is a user that edits values and the state.
LEMMA CommandIsSafe ==
    ASSUME SystemTypeOK, SystemConsistent, CommandStep
    PROVE  /\ Consistent' /\ Unseen
           /\ \A c \in Components : Managed(hcc'[ChartOf[c]], c) => Managed(hcc[ChartOf[c]], c)
           /\ \/ state'.entries \subseteq state.entries
              \/ \E p \in Processes : cli[p].pc = "save" /\ ~cli[p].reconciles
<1> USE AssumptionsMet
<1>1. Commands!TypeOK /\ Commands!Consistent /\ UNCHANGED <<cache, rec>>
  BY SameInvariants DEF SystemTypeOK, SystemConsistent, CommandStep
<1>2. PICK p \in Processes : Commands!Start(p) \/ Commands!Step(p) \/ Commands!Stop(p)
  BY SameCommands DEF CommandStep, Commands!CLIStep
<1>3. /\ ConfigsAdvance
      /\ \A ch \in Charts : hcc'[ch] # hcc[ch] =>
            /\ ch = ChartOf[cli[p].c]
            /\ hcc'[ch].managedOn = hcc[ch].managedOn
  BY <1>1, <1>2, SameObjects, Commands!CommandEffects
<1>4. UNCHANGED ip
  BY <1>1, <1>2, Commands!OthersUndisturbed
<1>5. \/ state'.entries \subseteq state.entries
      \/ cli[p].pc = "save" /\ ~cli[p].reconciles
  BY <1>1, <1>2, Commands!OnlyPatchesRecord
<1>6. \A c \in Components : /\ ChartOf[c] \in Charts
                            /\ hcc'[ChartOf[c]].managedOn = hcc[ChartOf[c]].managedOn
  BY <1>3, ComponentsAssumption
<1>7. Unseen
  BY <1>4, <1>6, SeesObjects
<1>8. Consistent'
  <2>1. TypeOK /\ Consistent /\ hcc \in [Charts -> HelmChartConfig]
        /\ hcc' \in [Charts -> HelmChartConfig]
    BY CommandKeepsTypes DEF SystemTypeOK, SystemConsistent, TypeOK, ClusterTypeOK
  <2>2. CASE UNCHANGED hcc
    BY <1>1, <1>4, <2>1, <2>2, NothingSeenIsSafe
  <2>3. CASE hcc' # hcc
    <3>1. PICK ch \in Charts : hcc'[ch] # hcc[ch]
      BY <2>1, <2>3
    <3>2. /\ \A e \in Charts \ {ch} : hcc'[e] = hcc[e]
          /\ hcc'[ch].rv = hcc[ch].rv + 1 /\ hcc'[ch].managedOn = hcc[ch].managedOn
          /\ hcc'[ch].exists \/ EmptyConfig(hcc'[ch])
      BY <1>3, <3>1 DEF ConfigsAdvance
    <3> QED
      BY <1>1, <1>4, <2>1, <3>2, ConfigEditsAreSafe
  <2> QED
    BY <2>2, <2>3
<1> QED
  BY <1>2, <1>5, <1>6, <1>7, <1>8 DEF Managed

\* A reconcile is admitted where it finds no patches of the CLI.
LEMMA AdmissionIsChecked ==
    ASSUME TypeOK, ControllerStep, rec'.pc \in Admitted
    PROVE  rec.pc \in Admitted \/ state.entries = {}
<1> USE ObjectsTyped DEF Admitted
<1>0. Idle.pc = "idle"
  BY DEF Idle
<1>1. ~Failed
  BY <1>0 DEF Failed, Finish, Outcome, Reconcile
<1>2. rec' # Idle
  BY <1>0
<1>3. CASE AddFinalizer \/ MarkReverted \/ Revert \/ RemoveFinalizer \/ WriteStatus
  <2>1. CASE AddFinalizer
    BY <1>1, <2>1 DEF AddFinalizer, Reconcile
  <2>2. CASE MarkReverted
    BY <1>1, <2>2 DEF MarkReverted, Reconcile
  <2>3. CASE Revert
    BY <1>1, <2>3 DEF Revert, Reconcile
  <2>4. CASE RemoveFinalizer \/ WriteStatus
    BY <1>1, <1>2, <2>4 DEF RemoveFinalizer, WriteStatus, Finish
  <2> QED
    BY <1>3, <2>1, <2>2, <2>3, <2>4
<1>4. CASE ReadCLIState
  BY <1>4 DEF ReadCLIState, Outcome, Goto, Reconcile
<1>5. CASE ReportReverted \/ ImagesUnavailable \/ Finalize
  BY <1>5 DEF ReportReverted, ImagesUnavailable, Finalize, Outcome, Reconcile
<1>6. CASE \/ ReadVersion \/ ReadChart \/ ReadConfig \/ ClearMarker \/ ReadImages
           \/ Validate \/ Apply
  BY <1>6 DEF ReadVersion, ReadChart, ReadConfig, ClearMarker, ReadImages, Validate, Apply
<1>7. ASSUME NEW c \in Components, Dequeue(c) \/ SyncCache(c)
      PROVE  rec.pc \in Admitted
  <2>1. CASE SyncCache(c)
    BY <2>1 DEF SyncCache
  <2>2. CASE Dequeue(c)
    <3>1. rec' = rec \/ rec'.pc \in {"finalize", "cliState", "addFinalizer"}
      BY <2>2 DEF Dequeue, Idle
    <3> QED
      BY <3>1
  <2> QED
    BY <1>7, <2>1, <2>2
<1> QED
  BY <1>1, <1>2, <1>3, <1>4, <1>5, <1>6, <1>7 DEF ControllerStep, WorkerStep, CallFails, Crash

\* Only an apply adds to what the controller manages.
LEMMA ManagedByApply ==
    ASSUME TypeOK, Consistent, ControllerStep \/ WorldStep \/ UpgradeStep,
           NEW c \in Components, Managed(hcc'[ChartOf[c]], c), ~Managed(hcc[ChartOf[c]], c)
    PROVE  Apply
<1> USE ObjectsTyped
<1> SUFFICES ASSUME ~Apply PROVE FALSE
  OBVIOUS
<1>1. Applied[c] = NoRelease /\ Applied'[c] # NoRelease
  BY DEF Applied, Managed
<1>2. ~Unseen
  BY <1>1 DEF Unseen
<1>3. CASE Revert
  BY <1>1, <1>2, <1>3, RevertMapped DEF Lifecycle!Revert, Applied
<1>4. CASE WorldStep \/ UpgradeStep
  <2>1. EnvironmentStep
    BY <1>4 DEF WorldStep, EnvironmentStep
  <2> QED
    BY <1>1, <1>2, <2>1, EnvironmentMapped DEF Lifecycle!ConfigDeleted, Applied
<1>5. CASE ControllerStep /\ ~Revert
  <2>1. UNCHANGED hcc
    BY <1>5 DEF ControllerStep, WorkerStep, AddFinalizer, ReadCLIState, ReadVersion,
       ReadChart, ReadConfig, ClearMarker, MarkReverted, ReportReverted, ReadImages,
       ImagesUnavailable, Validate, WriteStatus, Finalize, RemoveFinalizer, Dequeue,
       SyncCache, CallFails, Crash, clusterVars
  <2> QED
    BY <2>1
<1> QED
  BY <1>3, <1>4, <1>5

\* A managed value, and a reconcile that may apply one, have an ImagePatch: an
\* image-patch that gets as far as its save next to them has raced.
LEMMA SavesMeetNobody ==
    ASSUME SystemTypeOK, SystemConsistent, ~raced,
           NEW p \in Processes, cli[p].pc = "save", ~cli[p].reconciles
    PROVE  /\ \A c \in Components : ~Managed(hcc[ChartOf[c]], c)
           /\ rec.pc \notin Admitted
<1>1. \A c \in Components : ~ip[c].exists
  BY DEF SystemConsistent, RacesAreNoted, Racing
<1>2. rec.c \in Components
  BY ObjectsTyped DEF SystemTypeOK
<1> QED
  BY <1>1, <1>2
  DEF SystemConsistent, Consistent, NoOrphanedPatch, WorkerConsistent, Admitted

---------------------------------------------------------------------------
(* The invariants of both modes together.                                  *)

LEMMA SystemStepIsSafe ==
    ASSUME SystemTypeOK, SystemConsistent, SystemNext
    PROVE  SystemConsistent'
<1> USE AssumptionsMet
<1>1. TypeOK /\ Commands!TypeOK /\ Consistent /\ Commands!Consistent
  BY SameInvariants DEF SystemTypeOK, SystemConsistent
<1>2. raced' = (raced \/ Racing')
  BY DEF SystemNext
<1>3. RacesAreNoted'
  BY <1>2 DEF RacesAreNoted
<1>4. CASE (ControllerStep \/ WorldStep \/ UpgradeStep) /\ UNCHANGED <<cli, lost>>
  <2>1. Consistent'
    BY <1>1, <1>4, OwnSteps, StepIsSafe
  <2>2. Commands!ConfigsAdvance /\ UNCHANGED state
    BY <1>1, <1>4, ControllerAdvances, SameObjects
  <2>3. Commands!Consistent'
    BY <1>1, <1>4, <2>2, Commands!WritersKeepConsistent
  <2>4. AdmissionHolds'
    <3>1. CASE ControllerStep
      BY <1>1, <1>2, <2>2, <3>1, AdmissionIsChecked DEF SystemConsistent, AdmissionHolds
    <3>2. CASE WorldStep \/ UpgradeStep
      BY <1>2, <2>2, <3>2 DEF WorldStep, UpgradeStep, SystemConsistent, AdmissionHolds
    <3> QED
      BY <1>4, <3>1, <3>2
  <2> QED
    BY <1>3, <2>1, <2>3, <2>4, SameInvariants DEF SystemConsistent
<1>5. CASE CommandStep
  <2>1. Consistent'
    BY <1>5, CommandIsSafe
  <2>2. Commands!Consistent'
    BY <1>1, <1>5, SameCommands, Commands!CommandsKeepConsistent DEF CommandStep
  <2>3. AdmissionHolds'
    BY <1>2, <1>5, CommandIsSafe, SavesMeetNobody
    DEF CommandStep, SystemConsistent, AdmissionHolds
  <2> QED
    BY <1>3, <2>1, <2>2, <2>3, SameInvariants DEF SystemConsistent
<1> QED
  BY <1>4, <1>5 DEF SystemNext

LEMMA SystemStarts ==
    ASSUME SystemInit
    PROVE  SystemTypeOK /\ SystemConsistent /\ OwnRelease /\ state.entries = {}
<1> USE AssumptionsMet
<1>1. Init /\ lost = {} /\ cli = [p \in Processes |-> Commands!NoCommand] /\ raced = FALSE
  BY SameInvariants DEF SystemInit
<1>2. TypeOK /\ Consistent
  BY <1>1, InitTyped, StartIsConsistent
<1>3. Commands!Init
  BY <1>1, SameObjects DEF Init, Commands!Init
<1>4. Commands!TypeOK /\ Commands!Consistent
  BY <1>3, Commands!InitTyped, Commands!StartIsConsistent
<1>5. rec.pc = "idle" /\ state.entries = {} /\ \A p \in Processes : cli[p].pc = "idle"
  BY <1>1 DEF Init, ClusterInit, Idle, Commands!NoCommand
<1>6. RacesAreNoted /\ AdmissionHolds /\ OwnRelease
  BY <1>5 DEF RacesAreNoted, Racing, AdmissionHolds, OwnRelease, Admitted
<1> QED
  BY <1>1, <1>2, <1>4, <1>5, <1>6, SameInvariants DEF SystemTypeOK, SystemConsistent

LEMMA StutterIsSafe ==
    ASSUME SystemTypeOK, SystemConsistent, UNCHANGED systemVars
    PROVE  SystemTypeOK' /\ SystemConsistent'
<1> USE AssumptionsMet DEF systemVars, vars, clusterVars
<1>1. TypeOK'
  BY DEF SystemTypeOK, TypeOK, ClusterTypeOK
<1>2. Commands!TypeOK /\ Commands!Consistent
  BY SameInvariants DEF SystemTypeOK, SystemConsistent
<1>3. Commands!TypeOK'
  BY <1>1, <1>2, SameObjects DEF TypeOK, Commands!TypeOK
<1>4. Commands!Consistent'
  <2>1. Commands!ConfigsAdvance
    BY DEF Commands!ConfigsAdvance
  <2> QED
    BY <1>2, <2>1, Commands!WritersKeepConsistent
<1>5. Consistent'
  BY NothingSeenIsSafe DEF SystemConsistent
<1>6. RacesAreNoted' /\ AdmissionHolds'
  BY DEF SystemConsistent, RacesAreNoted, Racing, AdmissionHolds
<1> QED
  BY <1>1, <1>3, <1>4, <1>5, <1>6, SameInvariants DEF SystemTypeOK, SystemConsistent

\* Next to the other mode, each mode keeps what its own writes rely on: the
\* copies of the controller and those of the commands are of older versions or
\* what is there; and where there has been no race, a reconcile that may apply
\* a patch is past a check that still holds (reconcilePatch, runImagePatch).
THEOREM ModesAreConsistent == SystemSpec => [](SystemTypeOK /\ SystemConsistent)
<1>1. SystemInit => SystemTypeOK /\ SystemConsistent
  BY SystemStarts
<1>2. SystemTypeOK /\ SystemConsistent /\ [SystemNext]_systemVars
         => (SystemTypeOK /\ SystemConsistent)'
  <2> SUFFICES ASSUME SystemTypeOK, SystemConsistent, [SystemNext]_systemVars
               PROVE  SystemTypeOK' /\ SystemConsistent'
    OBVIOUS
  <2>1. CASE SystemNext
    <3>1. TypeOK' /\ CLI!TypeOK'
      BY <2>1, CommandKeepsTypes, ControllerKeepsTypes DEF SystemNext, SystemTypeOK
    <3>2. raced' \in BOOLEAN
      BY <2>1 DEF SystemNext
    <3> QED
      BY <2>1, <3>1, <3>2, SystemStepIsSafe DEF SystemTypeOK
  <2>2. CASE UNCHANGED systemVars
    BY <2>2, StutterIsSafe
  <2> QED
    BY <2>1, <2>2
<1> QED
  BY <1>1, <1>2, PTL DEF SystemSpec

\* Next to the commands, too, a managed value has its ImagePatch with the
\* finalizer, and all managed values are of one release (finalize, stalePatches).
THEOREM PatchesStayOwned == SystemSpec => [](NoOrphanedPatch /\ OneReleasePatched)
<1>1. SystemConsistent => NoOrphanedPatch /\ OneReleasePatched
  BY DEF SystemConsistent, Consistent
<1> QED
  BY <1>1, ModesAreConsistent, PTL

---------------------------------------------------------------------------
(* Only races mix the modes.                                               *)

\* There are patches of both modes only where an ImagePatch has met an
\* image-patch that had looked for one: the commands stop at an ImagePatch, the
\* controller at the state of the CLI, and nothing comes between check and
\* write but such a race (refuseInControllerMode, reconcilePatch).
THEOREM ModesAreExclusive == SystemSpec => []OnlyRacesMixModes
<1>1. SystemInit => OnlyRacesMixModes
  BY SystemStarts DEF OnlyRacesMixModes, PatchesOfBoth
<1>2. SystemTypeOK /\ SystemConsistent /\ OnlyRacesMixModes /\ [SystemNext]_systemVars
         => OnlyRacesMixModes'
  <2> SUFFICES ASSUME SystemTypeOK, SystemConsistent, OnlyRacesMixModes,
                      [SystemNext]_systemVars, PatchesOfBoth', ~raced'
               PROVE  FALSE
    BY DEF OnlyRacesMixModes
  <2>1. ~raced /\ ~PatchesOfBoth
    BY DEF SystemNext, systemVars, OnlyRacesMixModes
  <2>2. PICK c \in Components : Managed(hcc'[ChartOf[c]], c)
    BY DEF PatchesOfBoth
  <2>3. CASE (ControllerStep \/ WorldStep \/ UpgradeStep) /\ UNCHANGED <<cli, lost>>
    <3>1. UNCHANGED state
      BY <2>3, ControllerAdvances DEF SystemTypeOK
    <3>2. ~Managed(hcc[ChartOf[c]], c)
      BY <2>1, <2>2, <3>1 DEF PatchesOfBoth
    <3>3. Apply
      BY <2>2, <2>3, <3>2, ManagedByApply DEF SystemTypeOK, SystemConsistent
    <3>4. state.entries = {}
      BY <2>1, <3>3 DEF Apply, SystemConsistent, AdmissionHolds, Admitted
    <3> QED
      BY <3>1, <3>4 DEF PatchesOfBoth
  <2>4. CASE CommandStep
    <3>1. Managed(hcc[ChartOf[c]], c)
      BY <2>2, <2>4, CommandIsSafe
    <3>2. state'.entries \subseteq state.entries
      BY <2>1, <2>4, <3>1, CommandIsSafe, SavesMeetNobody
    <3> QED
      BY <2>1, <3>1, <3>2 DEF PatchesOfBoth
  <2>5. CASE UNCHANGED systemVars
    BY <2>1, <2>5 DEF systemVars, vars, clusterVars, PatchesOfBoth
  <2> QED
    BY <2>3, <2>4, <2>5 DEF SystemNext
<1> QED
  BY <1>1, <1>2, ModesAreConsistent, PTL DEF SystemSpec

\* Without a race a command writes no value of a component that the controller
\* manages: an image-patch that gets to its write next to one has raced, and an
\* image-reconcile has found its entries in the state, where they would be
\* patches of both modes (runImagePatch, runReconcile).
THEOREM ManagedAreSpared == SystemSpec => CommandsSpareManaged
<1> DEFINE Spares ==
      \A p \in Processes :
         LET c == cli[p].c
             ch == ChartOf[c]
         IN  cli'[p] # cli[p] /\ hcc'[ch].values[KeyOf[c]] # hcc[ch].values[KeyOf[c]]
                 /\ Managed(hcc[ch], c)
             => raced \/ \E q \in Processes \ {p} : c \in WorksOn[q]
<1>1. SystemTypeOK /\ SystemConsistent /\ OnlyRacesMixModes /\ [SystemNext]_systemVars
         => [Spares]_systemVars
  <2> SUFFICES ASSUME SystemTypeOK, SystemConsistent, OnlyRacesMixModes, SystemNext, ~raced,
                      NEW p \in Processes, cli'[p] # cli[p], NEW c, c = cli[p].c,
                      hcc'[ChartOf[c]].values[KeyOf[c]] # hcc[ChartOf[c]].values[KeyOf[c]],
                      Managed(hcc[ChartOf[c]], c),
                      \A q \in Processes \ {p} : c \notin WorksOn[q]
               PROVE  FALSE
    BY DEF Spares
  <2> USE AssumptionsMet
  <2>1. Commands!TypeOK /\ Commands!Consistent
    BY SameInvariants DEF SystemTypeOK, SystemConsistent
  <2>2. PICK q \in Processes : Commands!Start(q) \/ Commands!Step(q) \/ Commands!Stop(q)
    BY SameCommands DEF SystemNext, CommandStep, Commands!CLIStep
  <2>3. q = p
    BY <2>1, <2>2, Commands!OthersUndisturbed
  <2>4. c \in Components /\ Commands!Slot(c)' # Commands!Slot(c)
    BY <2>1, Commands!CommandTyped DEF Commands!CommandFacts, Commands!Slot
  <2>5. Commands!ApplyPatch(p) \/ Commands!StripConfig(p)
    BY <2>1, <2>2, <2>3, <2>4, Commands!SlotsWritten
  <2>6. CASE Commands!ApplyPatch(p)
    <3>1. cli[p].pc = "apply" /\ ~cli[p].reconciles
      BY <2>1, <2>6 DEF Commands!ApplyPatch, Commands!Consistent, Commands!WorkKnown,
         Commands!PatchPCs
    <3>2. ip[c].exists
      BY <2>4 DEF SystemConsistent, Consistent, NoOrphanedPatch
    <3> QED
      BY <2>4, <3>1, <3>2 DEF SystemConsistent, RacesAreNoted, Racing
  <2>7. CASE Commands!StripConfig(p)
    <3>1. cli[p].pc = "strip" /\ cli[p].todo # {}
      BY <2>4, <2>7 DEF Commands!StripConfig, Commands!Slot
    <3>2. cli[p].todo \subseteq state.entries
      BY <2>1, <3>1 DEF Commands!Consistent, Commands!TodoKnown
    <3> QED
      BY <2>4, <3>1, <3>2 DEF OnlyRacesMixModes, PatchesOfBoth
  <2> QED
    BY <2>5, <2>6, <2>7
<1> QED
  BY <1>1, ModesAreConsistent, ModesAreExclusive, PTL DEF SystemSpec, CommandsSpareManaged

---------------------------------------------------------------------------
(* The refinement.                                                         *)

\* Next to the commands the controller implements PatchLifecycle as it does by
\* itself: no interleaving with image-patch or image-reconcile makes it apply
\* without a claim, release a claim with a patch, or mix two releases.
THEOREM LifecycleSurvives == SystemSpec => ImplementsLifecycle
<1>1. SystemInit => OwnRelease /\ Lifecycle!Init
  BY SystemStarts, StartMapped DEF SystemInit
<1>2. SystemTypeOK /\ OwnRelease /\ [SystemNext]_systemVars => OwnRelease'
  BY OwnSteps, OwnReleaseStep
  DEF SystemTypeOK, SystemNext, CommandStep, systemVars, vars, OwnRelease
<1>3. SystemTypeOK /\ SystemConsistent /\ OwnRelease /\ [SystemNext]_systemVars
         => [Lifecycle!Next]_Lifecycle!vars
  <2> SUFFICES ASSUME SystemTypeOK, SystemConsistent, OwnRelease, [SystemNext]_systemVars
               PROVE  Lifecycle!Next \/ Unseen
    BY DEF Lifecycle!vars, Unseen, Claimed, Applied
  <2>1. CASE UNCHANGED systemVars
    BY <2>1, NoWriteUnseen DEF systemVars, vars, clusterVars
  <2>2. CASE ControllerStep \/ WorldStep \/ UpgradeStep
    BY <2>2, OwnSteps, StepMapped DEF SystemTypeOK, SystemConsistent
  <2> QED
    BY <2>1, <2>2, CommandIsSafe DEF SystemNext
<1> QED
  BY <1>1, <1>2, <1>3, ModesAreConsistent, PTL
  DEF SystemSpec, ImplementsLifecycle, Lifecycle!Spec

=============================================================================
