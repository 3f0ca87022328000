-------------------------- MODULE PatcherCLI_proofs --------------------------
(***************************************************************************)
(* Proofs about the commands image-patch and image-reconcile: type         *)
(* correctness, what a command knows of the objects it writes, and what    *)
(* follows from it.                                                        *)
(***************************************************************************)
EXTENDS PatcherCLI, Cluster_proofs

---------------------------------------------------------------------------
(* Type correctness.                                                       *)

\* No command, and the entry that stands for none, are of their types.
LEMMA NoCommandTyped ==
    /\ AnyEntry \in Entry
    /\ \A out \in Outs : [NoCommand EXCEPT !.out = out] \in Command
    /\ NoCommand \in Command
<1>1. 1 \in Releases
  BY TagsAssumption DEF Releases
<1>2. (CHOOSE c \in Components : TRUE) \in Components
  BY ComponentsAssumption
<1>3. AnyEntry \in Entry
  BY <1>1, <1>2, ObjectDefaults DEF AnyEntry, Entry
<1>4. 1 \in 1..UpdateAttempts
  BY ProcessesAssumption
<1>5. NoCommand \in Command
  BY <1>1, <1>2, <1>3, <1>4, ObjectDefaults DEF NoCommand, Command, OptTag, State, Outs
<1>6. ASSUME NEW out \in Outs PROVE [NoCommand EXCEPT !.out = out] \in Command
  BY <1>5 DEF Command
<1> QED
  BY <1>3, <1>5, <1>6

\* The updates of a command the steps make keep its type.
LEMMA UpdatesTyped ==
    ASSUME NEW r \in Command,
           NEW pc \in {"idle"} \cup PatchPCs \cup ReconcilePCs \cup UpdatePCs
    PROVE  /\ [r EXCEPT !.pc = pc] \in Command
           /\ \A current, target \in Tags :
                 [r EXCEPT !.pc = pc, !.current = current, !.target = target] \in Command
           /\ \A cur \in HelmChartConfig : [r EXCEPT !.pc = pc, !.cur = cur] \in Command
           /\ \A on \in Releases : [r EXCEPT !.pc = pc, !.on = on] \in Command
           /\ \A e \in Entry : [r EXCEPT !.pc = pc, !.write = e] \in Command
           /\ \A todo \in SUBSET Entry : [r EXCEPT !.pc = pc, !.todo = todo] \in Command
           /\ \A todo \in SUBSET Entry : [r EXCEPT !.todo = todo] \in Command
           /\ \A todo, done \in SUBSET Entry :
                 [r EXCEPT !.pc = pc, !.todo = todo, !.done = done] \in Command
           /\ \A loaded \in State, e \in Entry :
                 [r EXCEPT !.pc = pc, !.loaded = loaded, !.write = e] \in Command
           /\ \A n \in 1..UpdateAttempts :
                 [r EXCEPT !.pc = pc, !.attempt = n] \in Command
           /\ \A c \in Components, t \in OptTag :
                 [r EXCEPT !.pc = pc, !.c = c, !.requested = t] \in Command
           /\ \A c \in Components :
                 [r EXCEPT !.pc = pc, !.c = c, !.reconciles = TRUE] \in Command
<1>1. [r EXCEPT !.pc = pc] \in Command
  BY DEF Command
<1>2. ASSUME NEW current \in Tags, NEW target \in Tags
      PROVE  [r EXCEPT !.pc = pc, !.current = current, !.target = target] \in Command
  BY Zenon DEF Command
<1>3. ASSUME NEW cur \in HelmChartConfig
      PROVE  [r EXCEPT !.pc = pc, !.cur = cur] \in Command
  BY Zenon DEF Command
<1>4. ASSUME NEW on \in Releases
      PROVE  [r EXCEPT !.pc = pc, !.on = on] \in Command
  BY Zenon DEF Command
<1>5. ASSUME NEW e \in Entry
      PROVE  [r EXCEPT !.pc = pc, !.write = e] \in Command
  BY Zenon DEF Command
<1>6. ASSUME NEW todo \in SUBSET Entry
      PROVE  [r EXCEPT !.pc = pc, !.todo = todo] \in Command
  BY Zenon DEF Command
<1>7. ASSUME NEW todo \in SUBSET Entry
      PROVE  [r EXCEPT !.todo = todo] \in Command
  BY Zenon DEF Command
<1>8. ASSUME NEW todo \in SUBSET Entry, NEW done \in SUBSET Entry
      PROVE  [r EXCEPT !.pc = pc, !.todo = todo, !.done = done] \in Command
  BY Zenon DEF Command
<1>9. ASSUME NEW loaded \in State, NEW e \in Entry
      PROVE  [r EXCEPT !.pc = pc, !.loaded = loaded, !.write = e] \in Command
  BY Zenon DEF Command
<1>10. ASSUME NEW n \in 1..UpdateAttempts
      PROVE  [r EXCEPT !.pc = pc, !.attempt = n] \in Command
  BY Zenon DEF Command
<1>11. ASSUME NEW c \in Components, NEW t \in OptTag
      PROVE  [r EXCEPT !.pc = pc, !.c = c, !.requested = t] \in Command
  BY Zenon DEF Command
<1>12. ASSUME NEW c \in Components
      PROVE  [r EXCEPT !.pc = pc, !.c = c, !.reconciles = TRUE] \in Command
  BY Zenon DEF Command
<1> QED
  BY <1>1, <1>2, <1>3, <1>4, <1>5, <1>6, <1>7, <1>8, <1>9, <1>10, <1>11, <1>12

\* The steps of a command before it updates the state are others than those of Update.
LEMMA StepsApart ==
    /\ PatchPCs \cap UpdatePCs = {} /\ ReconcilePCs \cap UpdatePCs = {}
    /\ "refuse" \in PatchPCs /\ "window" \in PatchPCs /\ "version" \in PatchPCs
    /\ "state" \in PatchPCs /\ "apply" \in PatchPCs
    /\ "currentVersion" \in ReconcilePCs /\ "entries" \in ReconcilePCs
    /\ "get" \in ReconcilePCs /\ "strip" \in ReconcilePCs
    /\ "load" \in UpdatePCs /\ "save" \in UpdatePCs
BY DEF PatchPCs, ReconcilePCs, UpdatePCs

\* The command an operator starts.
LEMMA StartsTyped ==
    ASSUME NEW c \in Components, NEW t \in Requested \cup {NoTag}
    PROVE  /\ [NoCommand EXCEPT !.pc = "refuse", !.c = c, !.requested = t] \in Command
           /\ [NoCommand EXCEPT !.pc = "currentVersion", !.c = c, !.reconciles = TRUE]
                 \in Command
<1>1. t \in OptTag
  BY TagsAssumption DEF OptTag
<1> QED
  BY <1>1, NoCommandTyped, UpdatesTyped, StepsApart

\* What TypeOK says of one command and of the objects it works on.
CommandFacts(p) ==
    /\ ClusterTypeOK
    /\ cli[p] \in Command /\ cli[p].c \in Components /\ cli[p].requested \in OptTag
    /\ cli[p].current \in Tags /\ cli[p].target \in Tags /\ cli[p].target \in OptTag
    /\ cli[p].on \in Releases
    /\ cli[p].cur \in HelmChartConfig /\ cli[p].write \in Entry
    /\ cli[p].todo \subseteq Entry /\ cli[p].done \subseteq Entry
    /\ cli[p].loaded \in State /\ cli[p].attempt \in 1..UpdateAttempts
    /\ ChartOf[cli[p].c] \in Charts /\ KeyOf[cli[p].c] \in Keys
    /\ hcc[ChartOf[cli[p].c]] \in HelmChartConfig
    /\ state \in State /\ state.entries \subseteq Entry /\ release \in Releases

LEMMA CommandTyped ==
    ASSUME TypeOK, NEW p \in Processes
    PROVE  CommandFacts(p)
BY ComponentsAssumption DEF CommandFacts, TypeOK, ClusterTypeOK, Command, OptTag, State

\* A command that is set is the command of that process.
LEMMA SetTyped ==
    ASSUME TypeOK, NEW p \in Processes
    PROVE  /\ \A command \in Command : Set(p, command) =>
                 cli' \in [Processes -> Command] /\ cli'[p] = command
           /\ \A command : \A q \in Processes : Set(p, command) /\ q # p => cli'[q] = cli[q]
           /\ \A out \in Outs : Exit(p, out) =>
                 cli' \in [Processes -> Command] /\ cli'[p] = [NoCommand EXCEPT !.out = out]
BY NoCommandTyped DEF TypeOK, Set, Exit

\* The entry Persist writes is an entry, with the key and the patch it is given.
LEMMA PersistedEntry ==
    ASSUME NEW entries \in SUBSET Entry, NEW e \in Entry
    PROVE  /\ Persisted(entries, e) \in Entry
           /\ Persisted(entries, e).component = e.component
           /\ Persisted(entries, e).clusterVersion = e.clusterVersion
           /\ Persisted(entries, e).patchedToTag = e.patchedToTag
           /\ (\A f \in entries : ~SameKey(e, f)) => Persisted(entries, e) = e
           /\ (\E f \in entries : SameKey(e, f)) =>
                 \E f \in entries : SameKey(e, f) /\ Persisted(entries, e).baselineTag = f.baselineTag
<1> DEFINE existing == {f \in entries : SameKey(e, f)}
<1>1. CASE existing = {}
  BY <1>1 DEF Persisted
<1>2. CASE existing # {}
  <2>1. PICK f \in existing : f = CHOOSE g \in existing : TRUE
    BY <1>2
  <2>2. f \in entries /\ f \in Entry /\ SameKey(e, f)
    BY <2>1
  <2>3. Persisted(entries, e) = [e EXCEPT !.baselineTag = f.baselineTag]
    BY <1>2, <2>1 DEF Persisted
  <2> HIDE DEF existing
  <2> QED
    BY <2>2, <2>3 DEF Entry
<1> QED
  BY <1>1, <1>2

LEMMA MutatedTyped ==
    ASSUME NEW command \in Command, NEW entries \in SUBSET Entry
    PROVE  Mutated(entries, command) \in SUBSET Entry
<1>1. command.write \in Entry
  BY DEF Command
<1>2. Persisted(entries, command.write) \in Entry
  BY <1>1, PersistedEntry
<1> QED
  BY <1>2 DEF Mutated

\* Exits and moves to another step.
LEMMA ProgressTyped ==
    ASSUME TypeOK, NEW p \in Processes
    PROVE  /\ \A pc \in {"idle"} \cup PatchPCs \cup ReconcilePCs \cup UpdatePCs :
                 /\ [cli[p] EXCEPT !.pc = pc] \in Command
                 /\ Continue(p, pc) => cli' \in [Processes -> Command]
           /\ Exit(p, "error") \/ Exit(p, "ok") => cli' \in [Processes -> Command]
<1>1. ASSUME NEW pc \in {"idle"} \cup PatchPCs \cup ReconcilePCs \cup UpdatePCs
      PROVE  [cli[p] EXCEPT !.pc = pc] \in Command
  BY CommandTyped DEF CommandFacts, Command
<1> QED
  BY <1>1, SetTyped DEF Continue, Outs

\* The steps of both commands that only read, or check what was read.
LEMMA ReadsTyped ==
    ASSUME TypeOK, NEW p \in Processes,
           \/ RefuseInControllerMode(p) \/ NoRunningImage(p) \/ ChooseTarget(p)
           \/ CheckPatchWindow(p) \/ ReadConfig(p) \/ ReadVersion(p) \/ CheckState(p)
           \/ ReadCurrentVersion(p) \/ ReadEntries(p) \/ GetConfig(p) \/ AllReverted(p)
    PROVE  TypeOK'
<1>0. CommandFacts(p)
  BY CommandTyped
<1> USE <1>0 DEF CommandFacts
<1>1. UNCHANGED <<clusterVars, lost>>
  BY DEF RefuseInControllerMode, NoRunningImage, ChooseTarget, CheckPatchWindow, ReadConfig,
         ReadVersion, CheckState, ReadCurrentVersion, ReadEntries, GetConfig, AllReverted
<1>2. cli' \in [Processes -> Command]
  <2>1. CASE RefuseInControllerMode(p) \/ NoRunningImage(p) \/ CheckPatchWindow(p) \/ AllReverted(p)
    BY <2>1, ProgressTyped
    DEF RefuseInControllerMode, NoRunningImage, CheckPatchWindow, AllReverted, PatchPCs, UpdatePCs
  <2>2. CASE ChooseTarget(p)
    <3>1. PICK current \in running[cli[p].c], targets \in SUBSET Tags :
             IF targets = {} THEN Exit(p, "error")
             ELSE \E t \in targets :
                    Set(p, [cli[p] EXCEPT !.pc = "window", !.current = current, !.target = t])
      <4>1. Published[cli[p].c] \subseteq Tags
        BY TagsAssumption
      <4>2. \A current, tag : /\ DefaultTargets(Published[cli[p].c], current) \subseteq Tags
                              /\ ExplicitTargets(Published[cli[p].c], current, tag) \subseteq Tags
        BY <4>1 DEF DefaultTargets, ExplicitTargets, PatchTargets, Newer
      <4> QED
        BY <2>2, <4>2 DEF ChooseTarget
    <3>2. current \in Tags
      BY DEF TypeOK, ClusterTypeOK
    <3>3. \A t \in Tags : [cli[p] EXCEPT !.pc = "window", !.current = current, !.target = t] \in Command
      BY <3>2, UpdatesTyped, StepsApart
    <3> QED
      BY <3>1, <3>3, SetTyped, ProgressTyped
  <2>3. CASE ReadConfig(p)
    <3>1. [cli[p] EXCEPT !.pc = "version", !.cur = hcc[ChartOf[cli[p].c]]] \in Command
      BY UpdatesTyped, StepsApart
    <3> QED
      BY <2>3, <3>1, SetTyped, ProgressTyped DEF ReadConfig
  <2>4. CASE ReadVersion(p) \/ ReadCurrentVersion(p)
    <3>1. /\ [cli[p] EXCEPT !.pc = "state", !.on = release] \in Command
          /\ [cli[p] EXCEPT !.pc = "entries", !.on = release] \in Command
      BY UpdatesTyped, StepsApart
    <3> QED
      BY <2>4, <3>1, SetTyped DEF ReadVersion, ReadCurrentVersion
  <2>5. CASE CheckState(p)
    <3> DEFINE new == [component |-> cli[p].c, clusterVersion |-> cli[p].on,
                       baselineTag |-> cli[p].current, patchedToTag |-> cli[p].target]
    <3>1. new \in Entry
      BY DEF Entry
    <3>2. \A e \in Entry : [cli[p] EXCEPT !.pc = "apply", !.write = e] \in Command
      BY UpdatesTyped, StepsApart
    <3>3. Persisted(state.entries, new) \in Entry
      BY <3>1, PersistedEntry
    <3>4. \/ Exit(p, "error")
          \/ Set(p, [cli[p] EXCEPT !.pc = "apply", !.write = Persisted(state.entries, new)])
      BY <2>5 DEF CheckState
    <3> QED
      BY <3>2, <3>3, <3>4, SetTyped, ProgressTyped
  <2>6. CASE ReadEntries(p)
    <3>1. \A todo \in SUBSET Entry : [cli[p] EXCEPT !.pc = "get", !.todo = todo] \in Command
      BY UpdatesTyped, StepsApart
    <3> QED
      BY <2>6, <3>1, SetTyped, ProgressTyped DEF ReadEntries, StaleEntries
  <2>7. CASE GetConfig(p)
    <3>1. [cli[p] EXCEPT !.pc = "strip", !.cur = hcc[ChartOf[cli[p].c]]] \in Command
      BY UpdatesTyped, StepsApart
    <3>2. \A e : [cli[p] EXCEPT !.todo = cli[p].todo \ {e}] \in Command
      <4>1. ASSUME NEW e PROVE cli[p].todo \ {e} \in SUBSET Entry
        OBVIOUS
      <4> QED
        BY <4>1, UpdatesTyped
    <3>3. \/ Set(p, [cli[p] EXCEPT !.pc = "strip", !.cur = hcc[ChartOf[cli[p].c]]])
          \/ \E e : Set(p, [cli[p] EXCEPT !.todo = cli[p].todo \ {e}])
      BY <2>7 DEF GetConfig, Command
    <3> QED
      BY <3>1, <3>2, <3>3, SetTyped
  <2> QED
    BY <2>1, <2>2, <2>3, <2>4, <2>5, <2>6, <2>7
<1> QED
  BY <1>1, <1>2 DEF TypeOK, ClusterTypeOK, clusterVars

\* The writes of the commands.
LEMMA WritesTyped ==
    ASSUME TypeOK, NEW p \in Processes,
           ApplyPatch(p) \/ StripConfig(p) \/ LoadState(p) \/ Save(p)
    PROVE  TypeOK'
<1>0. CommandFacts(p)
  BY CommandTyped
<1> USE <1>0 DEF CommandFacts
<1>1. ASSUME NEW ch \in Charts, NEW content \in HelmChartConfig, WriteConfig(ch, content)
      PROVE  hcc' \in [Charts -> HelmChartConfig]
  BY <1>1, ConfigWrites DEF WriteConfig, ClusterTypeOK
<1>2. CASE ApplyPatch(p)
  <2>1. MergeGenerated(cli[p].cur, cli[p].c, cli[p].target) \in HelmChartConfig
    BY ContentsTyped
  <2>2. hcc' \in [Charts -> HelmChartConfig]
    BY <1>1, <1>2, <2>1 DEF ApplyPatch, ClusterTypeOK
  <2>3. cli' \in [Processes -> Command]
    BY <1>2, ProgressTyped DEF ApplyPatch, UpdatePCs
  <2> QED
    BY <1>2, <2>2, <2>3 DEF ApplyPatch, TypeOK, ClusterTypeOK
<1>3. CASE StripConfig(p)
  <2>1. SubtractGenerated(cli[p].cur, cli[p].c) \in HelmChartConfig
    BY ContentsTyped
  <2>2. hcc' \in [Charts -> HelmChartConfig]
    BY <1>1, <1>3, <2>1 DEF StripConfig, ClusterTypeOK
  <2>3. \A e \in cli[p].todo :
           [cli[p] EXCEPT !.pc = "get", !.todo = cli[p].todo \ {e},
                          !.done = cli[p].done \cup {e}] \in Command
    <3>1. ASSUME NEW e \in cli[p].todo
          PROVE  cli[p].todo \ {e} \in SUBSET Entry /\ cli[p].done \cup {e} \in SUBSET Entry
      OBVIOUS
    <3> QED
      BY <3>1, UpdatesTyped, StepsApart
  <2>4. \/ Exit(p, "error")
        \/ \E e \in cli[p].todo :
              Set(p, [cli[p] EXCEPT !.pc = "get", !.todo = cli[p].todo \ {e},
                                    !.done = cli[p].done \cup {e}])
    BY <1>3 DEF StripConfig, Command
  <2>5. cli' \in [Processes -> Command]
    BY <2>3, <2>4, SetTyped, ProgressTyped
  <2> QED
    BY <1>3, <2>2, <2>5 DEF StripConfig, TypeOK, ClusterTypeOK
<1>4. CASE LoadState(p)
  <2>1. Persisted(state.entries, cli[p].write) \in Entry
    BY PersistedEntry
  <2>2. [cli[p] EXCEPT !.pc = "save", !.loaded = state,
                       !.write = Persisted(state.entries, cli[p].write)] \in Command
    BY <2>1, UpdatesTyped, StepsApart
  <2>3. \/ Exit(p, "ok")
        \/ Set(p, [cli[p] EXCEPT !.pc = "save", !.loaded = state,
                                 !.write = Persisted(state.entries, cli[p].write)])
    BY <1>4 DEF LoadState, Command
  <2>4. cli' \in [Processes -> Command]
    BY <2>2, <2>3, SetTyped, ProgressTyped
  <2> QED
    BY <1>4, <2>4 DEF LoadState, TypeOK, ClusterTypeOK, clusterVars
<1>5. CASE Save(p)
  <2>1. Mutated(cli[p].loaded.entries, cli[p]) \in SUBSET Entry
    BY MutatedTyped DEF State
  <2>2. state' \in State
    BY <1>5, <2>1 DEF Save, SaveState, State
  <2>3. cli[p].attempt < UpdateAttempts =>
           [cli[p] EXCEPT !.pc = "load", !.attempt = cli[p].attempt + 1] \in Command
    <3>1. cli[p].attempt < UpdateAttempts => cli[p].attempt + 1 \in 1..UpdateAttempts
      BY ProcessesAssumption
    <3> QED
      BY <3>1, UpdatesTyped, StepsApart
  <2>4. \/ Exit(p, "ok") \/ Exit(p, "error")
        \/ /\ cli[p].attempt < UpdateAttempts
           /\ Set(p, [cli[p] EXCEPT !.pc = "load", !.attempt = cli[p].attempt + 1])
    BY <1>5 DEF Save, Command
  <2>5. cli' \in [Processes -> Command]
    BY <2>3, <2>4, SetTyped, ProgressTyped
  <2>6. lost' \subseteq Components
    BY <1>5 DEF Save, Unrecorded, TypeOK
  <2> QED
    BY <1>5, <2>2, <2>5, <2>6 DEF Save, TypeOK, ClusterTypeOK
<1> QED
  BY <1>2, <1>3, <1>4, <1>5

\* Commands start, and stop anywhere.
LEMMA StartStopTyped ==
    ASSUME TypeOK, NEW p \in Processes, Start(p) \/ Stop(p)
    PROVE  TypeOK'
<1>0. CommandFacts(p)
  BY CommandTyped
<1> USE <1>0 DEF CommandFacts
<1>1. ASSUME NEW command \in Command, Begin(p, command)
      PROVE  TypeOK'
  <2>1. cli' \in [Processes -> Command]
    BY <1>1, SetTyped, ProgressTyped DEF Begin
  <2>2. budget' \in [Moves -> Nat]
    BY <1>1, SpendTyped DEF Begin, Moves
  <2> QED
    BY <1>1, <2>1, <2>2 DEF Begin, TypeOK, ClusterTypeOK
<1>2. ASSUME NEW c \in Components, NEW t \in Requested \cup {NoTag}
      PROVE  [NoCommand EXCEPT !.pc = "refuse", !.c = c, !.requested = t] \in Command
  BY StartsTyped
<1>3. ASSUME NEW c \in Components
      PROVE  [NoCommand EXCEPT !.pc = "currentVersion", !.c = c, !.reconciles = TRUE] \in Command
  BY StartsTyped
<1>4. CASE Stop(p)
  <2>1. cli' \in [Processes -> Command] /\ lost' \subseteq Components
    BY <1>4, ProgressTyped DEF Stop, Unrecorded, TypeOK
  <2>2. budget' \in [Moves -> Nat]
    BY <1>4, SpendTyped DEF Stop, Moves
  <2> QED
    BY <1>4, <2>1, <2>2 DEF Stop, TypeOK, ClusterTypeOK
<1> QED
  BY <1>1, <1>2, <1>3, <1>4 DEF Start, StartPatch, StartReconcile

LEMMA CommandStepTyped ==
    ASSUME TypeOK, CLIStep
    PROVE  TypeOK'
BY ReadsTyped, WritesTyped, StartStopTyped DEF CLIStep, Step

LEMMA InitTyped ==
    ASSUME Init
    PROVE  TypeOK
BY ClusterInitTyped, NoCommandTyped DEF Init, TypeOK

\* Every value of every variable is of its type: no command decides on a
\* version, a tag, a HelmChartConfig or a state it has not read (Command).
THEOREM TypeCorrect == Spec => []TypeOK
<1>1. Init => TypeOK
  BY InitTyped
<1>2. TypeOK /\ [Next]_vars => TypeOK'
  <2> SUFFICES ASSUME TypeOK, [Next]_vars PROVE TypeOK'
    OBVIOUS
  <2>1. CASE EnvironmentStep
    <3>1. ClusterTypeOK'
      BY <2>1, UserTyped, PlatformTyped DEF EnvironmentStep, TypeOK
    <3> QED
      BY <2>1, <3>1 DEF EnvironmentStep, TypeOK, cliVars
  <2>2. CASE UNCHANGED vars
    BY <2>2 DEF vars, clusterVars, cliVars, TypeOK, ClusterTypeOK
  <2> QED
    BY <2>1, <2>2, CommandStepTyped DEF Next
<1> QED
  BY <1>1, <1>2, PTL DEF Spec

---------------------------------------------------------------------------
(* Consistent is an inductive invariant.                                   *)

\* What a command knows, all in one.
Knows(p) == WorkKnown(p) /\ CopiesKnown(p) /\ TodoKnown(p)

\* A command that has ended knows nothing that could be wrong.
LEMMA EndKnows ==
    ASSUME NEW p \in Processes, NEW out, cli'[p] = [NoCommand EXCEPT !.out = out]
    PROVE  Knows(p)'
<1>1. /\ cli'[p].pc = "idle" /\ cli'[p].cur = NoConfig
      /\ cli'[p].todo = {} /\ cli'[p].done = {}
  BY DEF NoCommand
<1> QED
  BY <1>1, ObjectDefaults
  DEF Knows, WorkKnown, CopiesKnown, TodoKnown, PatchPCs, ReconcilePCs, UpdatePCs, EmptyConfig

LEMMA ExitKnows ==
    ASSUME TypeOK, NEW p \in Processes
    PROVE  Exit(p, "error") \/ Exit(p, "ok") => Knows(p)'
<1>1. ASSUME NEW out \in Outs, Exit(p, out)
      PROVE  Knows(p)'
  <2>1. cli'[p] = [NoCommand EXCEPT !.out = out]
    BY <1>1, SetTyped
  <2> QED
    BY <2>1, EndKnows
<1> QED
  BY <1>1 DEF Outs

\* The copies stay copies, whoever writes the objects.
LEMMA CopiesStay ==
    ASSUME TypeOK, NEW p \in Processes, CopiesKnown(p),
           ConfigsAdvance, UNCHANGED state \/ state'.rv = state.rv + 1,
           cli'[p].cur = cli[p].cur, cli'[p].c = cli[p].c,
           cli'[p].pc = "save" => cli[p].pc = "save" /\ cli'[p].loaded = cli[p].loaded
    PROVE  CopiesKnown(p)'
<1>1. /\ hcc[ChartOf[cli[p].c]].rv \in Nat /\ cli[p].cur.rv \in Nat
      /\ state.rv \in Nat /\ cli[p].loaded.rv \in Nat
  BY CommandTyped DEF CommandFacts, HelmChartConfig, State
<1>2. \/ hcc'[ChartOf[cli[p].c]] = hcc[ChartOf[cli[p].c]]
      \/ hcc'[ChartOf[cli[p].c]].rv = hcc[ChartOf[cli[p].c]].rv + 1
  BY CommandTyped DEF CommandFacts, ConfigsAdvance
<1> QED
  BY <1>1, <1>2 DEF CopiesKnown, CopyOf, EmptyConfig

\* Nobody else's command is disturbed by a step that keeps the entries of the
\* component it works on.
LEMMA OthersKnow ==
    ASSUME TypeOK, NEW p \in Processes, Knows(p), cli'[p] = cli[p],
           ConfigsAdvance, UNCHANGED state \/ state'.rv = state.rv + 1,
           \/ \A e \in state.entries : e.component = cli[p].c => e \in state'.entries
           \/ \E q \in Processes \ {p} : cli[p].c \in WorksOn[q]
    PROVE  Knows(p)'
<1>1. CopiesKnown(p)'
  BY CopiesStay DEF Knows
<1>2. WorkKnown(p)'
  BY DEF Knows, WorkKnown
<1>3. TodoKnown(p)'
  <2>1. \A e \in cli[p].todo : e.component = cli[p].c
    BY DEF Knows, WorkKnown
  <2> QED
    BY <2>1 DEF Knows, TodoKnown
<1> QED
  BY <1>1, <1>2, <1>3 DEF Knows

\* The steps of a command that only read: what it learns is so at that moment.
LEMMA ReadsKnow ==
    ASSUME TypeOK, Consistent, NEW p \in Processes,
           \/ RefuseInControllerMode(p) \/ NoRunningImage(p) \/ ChooseTarget(p)
           \/ CheckPatchWindow(p) \/ ReadConfig(p) \/ ReadVersion(p) \/ CheckState(p)
           \/ ReadCurrentVersion(p) \/ ReadEntries(p) \/ GetConfig(p) \/ AllReverted(p)
           \/ LoadState(p)
    PROVE  Knows(p)' /\ UNCHANGED <<hcc, state>>
<1>0. CommandFacts(p)
  BY CommandTyped
<1> USE <1>0 DEF CommandFacts
<1>1. UNCHANGED <<hcc, state>> /\ Knows(p)
  BY DEF RefuseInControllerMode, NoRunningImage, ChooseTarget, CheckPatchWindow, ReadConfig,
         ReadVersion, CheckState, ReadCurrentVersion, ReadEntries, GetConfig, AllReverted,
         LoadState, clusterVars, Consistent, Knows
<1>2. (Exit(p, "error") => Knows(p)') /\ (Exit(p, "ok") => Knows(p)')
  BY ExitKnows
<1>3. CASE \/ RefuseInControllerMode(p) \/ NoRunningImage(p) \/ ChooseTarget(p)
           \/ CheckPatchWindow(p) \/ ReadVersion(p)
  <2>1. CASE Exit(p, "error")
    BY <1>1, <1>2, <2>1
  <2>2. CASE ~Exit(p, "error")
    <3>1. /\ cli[p].pc \in PatchPCs /\ cli'[p].pc \in PatchPCs \ {"apply"}
          /\ cli'[p].c = cli[p].c /\ cli'[p].cur = cli[p].cur
          /\ cli'[p].reconciles = cli[p].reconciles
          /\ cli'[p].todo = cli[p].todo /\ cli'[p].done = cli[p].done
      <4> USE DEF Continue, Set, PatchPCs, TypeOK, Command
      <4>1. CASE RefuseInControllerMode(p)
        BY <2>2, <4>1 DEF RefuseInControllerMode
      <4>2. CASE NoRunningImage(p)
        BY <2>2, <4>2 DEF NoRunningImage
      <4>3. CASE ChooseTarget(p)
        <5>1. PICK current, t :
                 Set(p, [cli[p] EXCEPT !.pc = "window", !.current = current, !.target = t])
          BY <2>2, <4>3 DEF ChooseTarget
        <5> QED
          BY <4>3, <5>1 DEF ChooseTarget
      <4>4. CASE CheckPatchWindow(p)
        BY <2>2, <4>4 DEF CheckPatchWindow
      <4>5. CASE ReadVersion(p)
        BY <4>5 DEF ReadVersion
      <4> QED
        BY <1>3, <4>1, <4>2, <4>3, <4>4, <4>5
    <3> QED
      BY <1>1, <3>1 DEF Knows, WorkKnown, CopiesKnown, TodoKnown, PatchPCs, ReconcilePCs,
         UpdatePCs, CopyOf, EmptyConfig
  <2> QED
    BY <2>1, <2>2
<1>4. CASE ReadConfig(p)
  <2>1. CASE Exit(p, "ok")
    BY <1>1, <1>2, <2>1
  <2>2. CASE Set(p, [cli[p] EXCEPT !.pc = "version", !.cur = hcc[ChartOf[cli[p].c]]])
    <3>1. /\ cli[p].pc = "config" /\ cli'[p].pc = "version"
          /\ cli'[p].c = cli[p].c /\ cli'[p].cur = hcc[ChartOf[cli[p].c]]
          /\ cli'[p].reconciles = cli[p].reconciles
          /\ cli'[p].todo = cli[p].todo /\ cli'[p].done = cli[p].done
      BY <1>4, <2>2 DEF ReadConfig, Set, TypeOK, Command
    <3>2. CopiesKnown(p)'
      BY <1>1, <3>1 DEF CopiesKnown, CopyOf, Consistent, EmptyConfig, HelmChartConfig
    <3> QED
      BY <1>1, <3>1, <3>2 DEF Knows, WorkKnown, TodoKnown, PatchPCs, ReconcilePCs, UpdatePCs
  <2> QED
    BY <1>4, <2>1, <2>2 DEF ReadConfig
<1>5. CASE CheckState(p)
  <2> DEFINE new == [component |-> cli[p].c, clusterVersion |-> cli[p].on,
                     baselineTag |-> cli[p].current, patchedToTag |-> cli[p].target]
  <2>1. CASE Exit(p, "error")
    BY <1>1, <1>2, <2>1
  <2>2. CASE Set(p, [cli[p] EXCEPT !.pc = "apply", !.write = Persisted(state.entries, new)])
    <3>1. new \in Entry /\ new.component = cli[p].c /\ new.patchedToTag = cli[p].target
      BY DEF Entry
    <3> HIDE DEF new
    <3>2. /\ Persisted(state.entries, new).component = cli[p].c
          /\ Persisted(state.entries, new).patchedToTag = cli[p].target
      BY <3>1, PersistedEntry
    <3>3. /\ cli[p].pc = "state" /\ cli'[p].pc = "apply"
          /\ cli'[p].c = cli[p].c /\ cli'[p].cur = cli[p].cur /\ cli'[p].target = cli[p].target
          /\ cli'[p].reconciles = cli[p].reconciles
          /\ cli'[p].todo = cli[p].todo /\ cli'[p].done = cli[p].done
          /\ cli'[p].write = Persisted(state.entries, new)
      BY <1>5, <2>2 DEF CheckState, Set, TypeOK, Command
    <3> QED
      BY <1>1, <3>2, <3>3 DEF Knows, WorkKnown, CopiesKnown, TodoKnown, PatchPCs,
         ReconcilePCs, UpdatePCs, CopyOf, EmptyConfig
  <2> QED
    BY <1>5, <2>1, <2>2 DEF CheckState
<1>6. CASE ReadCurrentVersion(p)
  <2>1. /\ cli[p].pc = "currentVersion" /\ cli'[p].pc = "entries"
        /\ cli'[p].c = cli[p].c /\ cli'[p].cur = cli[p].cur
        /\ cli'[p].reconciles = cli[p].reconciles
        /\ cli'[p].todo = cli[p].todo /\ cli'[p].done = cli[p].done
    BY <1>6 DEF ReadCurrentVersion, Set, TypeOK, Command
  <2> QED
    BY <1>1, <2>1 DEF Knows, WorkKnown, CopiesKnown, TodoKnown, PatchPCs, ReconcilePCs,
       UpdatePCs, CopyOf, EmptyConfig
<1>7. CASE ReadEntries(p)
  <2>1. CASE Exit(p, "ok")
    BY <1>1, <1>2, <2>1
  <2>2. CASE ~Exit(p, "ok")
    <3>1. PICK todo : /\ todo \subseteq {e \in state.entries : e.component = cli[p].c}
                      /\ Set(p, [cli[p] EXCEPT !.pc = "get", !.todo = todo])
      BY <1>7, <2>2 DEF ReadEntries, StaleEntries
    <3>2. /\ cli[p].pc = "entries" /\ cli'[p].pc = "get"
          /\ cli'[p].c = cli[p].c /\ cli'[p].cur = cli[p].cur
          /\ cli'[p].reconciles = cli[p].reconciles
          /\ cli'[p].todo = todo /\ cli'[p].done = cli[p].done
      BY <1>7, <3>1 DEF ReadEntries, Set, TypeOK, Command
    <3> QED
      BY <1>1, <3>1, <3>2 DEF Knows, WorkKnown, CopiesKnown, TodoKnown, PatchPCs,
         ReconcilePCs, UpdatePCs, CopyOf, EmptyConfig
  <2> QED
    BY <2>1, <2>2
<1>8. CASE GetConfig(p)
  <2>1. /\ cli[p].pc = "get" /\ cli'[p].pc \in {"get", "strip"} /\ cli'[p].c = cli[p].c
        /\ \/ cli'[p].cur = cli[p].cur
           \/ cli'[p].cur = hcc[ChartOf[cli[p].c]] /\ cli'[p].cur.exists
        /\ cli'[p].reconciles = cli[p].reconciles
        /\ cli'[p].todo \subseteq cli[p].todo /\ cli'[p].done = cli[p].done
    <3>1. CASE hcc[ChartOf[cli[p].c]].exists
      <4>1. Set(p, [cli[p] EXCEPT !.pc = "strip", !.cur = hcc[ChartOf[cli[p].c]]])
        BY <1>8, <3>1 DEF GetConfig
      <4> QED
        BY <1>8, <3>1, <4>1 DEF GetConfig, Set, TypeOK, Command
    <3>2. CASE ~hcc[ChartOf[cli[p].c]].exists
      <4>1. PICK e \in cli[p].todo : Set(p, [cli[p] EXCEPT !.todo = cli[p].todo \ {e}])
        BY <1>8, <3>2 DEF GetConfig, Command
      <4> QED
        BY <1>8, <4>1 DEF GetConfig, Set, TypeOK, Command
    <3> QED
      BY <3>1, <3>2
  <2>2. CopiesKnown(p)'
    BY <1>1, <2>1 DEF Knows, CopiesKnown, CopyOf, EmptyConfig, HelmChartConfig
  <2> QED
    BY <1>1, <2>1, <2>2 DEF Knows, WorkKnown, TodoKnown, PatchPCs, ReconcilePCs, UpdatePCs
<1>9. CASE AllReverted(p)
  <2>1. CASE Exit(p, "ok")
    BY <1>1, <1>2, <2>1
  <2>2. CASE Continue(p, "load")
    <3>1. /\ cli[p].pc = "get" /\ cli'[p].pc = "load" /\ cli'[p].c = cli[p].c
          /\ cli'[p].cur = cli[p].cur /\ cli'[p].reconciles = cli[p].reconciles
          /\ cli'[p].todo = cli[p].todo /\ cli'[p].done = cli[p].done
      BY <1>9, <2>2 DEF AllReverted, Continue, Set, TypeOK, Command
    <3> QED
      BY <1>1, <3>1 DEF Knows, WorkKnown, CopiesKnown, TodoKnown, PatchPCs, ReconcilePCs,
         UpdatePCs, CopyOf, EmptyConfig
  <2> QED
    BY <1>9, <2>1, <2>2 DEF AllReverted
<1>10. CASE LoadState(p)
  <2>1. CASE Exit(p, "ok")
    BY <1>1, <1>2, <2>1
  <2>2. CASE Set(p, [cli[p] EXCEPT !.pc = "save", !.loaded = state,
                                   !.write = Persisted(state.entries, cli[p].write)])
    <3>1. /\ cli[p].pc = "load" /\ cli'[p].pc = "save" /\ cli'[p].c = cli[p].c
          /\ cli'[p].cur = cli[p].cur /\ cli'[p].reconciles = cli[p].reconciles
          /\ cli'[p].todo = cli[p].todo /\ cli'[p].done = cli[p].done
          /\ cli'[p].loaded = state /\ cli'[p].target = cli[p].target
          /\ cli'[p].write = Persisted(state.entries, cli[p].write)
      BY <1>10, <2>2 DEF LoadState, Set, TypeOK, Command
    <3>2. /\ Persisted(state.entries, cli[p].write).component = cli[p].write.component
          /\ Persisted(state.entries, cli[p].write).patchedToTag = cli[p].write.patchedToTag
      BY PersistedEntry
    <3> QED
      BY <1>1, <3>1, <3>2 DEF Knows, WorkKnown, CopiesKnown, TodoKnown, PatchPCs,
         ReconcilePCs, UpdatePCs, CopyOf, EmptyConfig, State
  <2> QED
    BY <1>10, <2>1, <2>2 DEF LoadState, Command
<1> QED
  BY <1>1, <1>3, <1>4, <1>5, <1>6, <1>7, <1>8, <1>9, <1>10


\* Subtracting is merging with nothing in the slot.
LEMMA SubtractIsMerge ==
    ASSUME NEW config, NEW c
    PROVE  SubtractGenerated(config, c) = MergeGenerated(config, c, NoTag)
BY DEF SubtractGenerated, MergeGenerated

\* What the write of a command leaves behind: the object as it is, but for the
\* slot of the command's component.
LEMMA SlotWritten ==
    ASSUME TypeOK, Consistent, NEW p \in Processes, NEW t \in OptTag,
           CanApply(ChartOf[cli[p].c], cli[p].cur),
           WriteConfig(ChartOf[cli[p].c], MergeGenerated(cli[p].cur, cli[p].c, t))
    PROVE  LET ch == ChartOf[cli[p].c] IN
           /\ ConfigsAdvance
           /\ \A d \in Charts \ {ch} : hcc'[d] = hcc[d]
           /\ hcc'[ch].managedOn = hcc[ch].managedOn /\ hcc'[ch].other = hcc[ch].other
           /\ hcc'[ch].values = [hcc[ch].values EXCEPT ![KeyOf[cli[p].c]] = t]
<1> DEFINE ch == ChartOf[cli[p].c]
           content == MergeGenerated(cli[p].cur, cli[p].c, t)
<1>1. /\ ch \in Charts /\ cli[p].cur \in HelmChartConfig /\ ClusterTypeOK
      /\ cli[p].c \in Components /\ hcc[ch] \in HelmChartConfig
  BY CommandTyped DEF CommandFacts
<1>2. content \in HelmChartConfig
  BY <1>1, ContentsTyped
<1>3. /\ cli[p].cur.values = hcc[ch].values /\ cli[p].cur.managedOn = hcc[ch].managedOn
      /\ cli[p].cur.other = hcc[ch].other
  <2>1. IF cli[p].cur.exists THEN CopyOf(cli[p].cur, hcc[ch]) ELSE EmptyConfig(cli[p].cur)
    BY DEF Consistent, CopiesKnown
  <2>2. ~hcc[ch].exists => EmptyConfig(hcc[ch])
    BY <1>1 DEF Consistent
  <2> QED
    BY <1>1, <2>1, <2>2, AcceptedWrite
<1>4. /\ content.managedOn = hcc[ch].managedOn /\ content.other = hcc[ch].other
      /\ content.values = [hcc[ch].values EXCEPT ![KeyOf[cli[p].c]] = t]
  BY <1>1, <1>3 DEF MergeGenerated, HelmChartConfig
<1> HIDE DEF content
<1>5. CASE content = hcc[ch]
  <2>1. UNCHANGED hcc
    BY <1>5 DEF WriteConfig, content
  <2> QED
    BY <1>4, <1>5, <2>1 DEF ConfigsAdvance
<1>6. CASE content # hcc[ch]
  <2>1. ApplyHelmChartConfig(ch, content)
    BY <1>6 DEF WriteConfig, content
  <2>2. ConfigsAdvance
    BY <1>1, <1>2, <2>1, WriteAdvances
  <2> QED
    BY <1>1, <1>2, <1>4, <2>1, <2>2, ConfigWritten
<1> QED
  BY <1>5, <1>6

\* What a command saves: the entries of other components as they are, and still
\* at most one entry of each key.
LEMMA MutatedEntries ==
    ASSUME NEW command \in Command, NEW entries \in SUBSET Entry,
           command.reconciles \/ command.write.component = command.c,
           \A e \in command.done : e.component = command.c
    PROVE  /\ \A e \in Entry : e.component # command.c =>
                 (e \in Mutated(entries, command) <=> e \in entries)
           /\ (\A e, f \in entries : SameKey(e, f) => e = f) =>
                 \A e, f \in Mutated(entries, command) : SameKey(e, f) => e = f
<1> DEFINE new == Persisted(entries, command.write)
<1>1. /\ command.write \in Entry /\ new \in Entry
      /\ new.component = command.write.component
      /\ new.clusterVersion = command.write.clusterVersion
  BY PersistedEntry DEF Command
<1>2. ASSUME NEW e \in Entry, e.component # command.c
      PROVE  e \in Mutated(entries, command) <=> e \in entries
  BY <1>1, <1>2 DEF Mutated, SameKey
<1>3. ASSUME \A e, f \in entries : SameKey(e, f) => e = f,
             NEW e \in Mutated(entries, command), NEW f \in Mutated(entries, command),
             SameKey(e, f)
      PROVE  e = f
  <2>1. CASE command.reconciles
    BY <1>3, <2>1 DEF Mutated
  <2>2. CASE ~command.reconciles
    <3>1. e \in {g \in entries : ~SameKey(g, command.write)} \cup {new}
      BY <2>2 DEF Mutated
    <3>2. f \in {g \in entries : ~SameKey(g, command.write)} \cup {new}
      BY <2>2 DEF Mutated
    <3> QED
      BY <1>1, <1>3, <3>1, <3>2 DEF SameKey
  <2> QED
    BY <2>1, <2>2
<1> QED
  BY <1>2, <1>3

\* A save that is not refused applies to the state as it is.
LEMMA SaveWrites ==
    ASSUME TypeOK, Consistent, NEW p \in Processes, Save(p)
    PROVE  \/ UNCHANGED state
           \/ /\ cli[p].loaded = state
              /\ state' = [rv |-> state.rv + 1, entries |-> Mutated(state.entries, cli[p])]
<1>1. CASE ~CanSave(cli[p].loaded)
  BY <1>1 DEF Save
<1>2. CASE CanSave(cli[p].loaded)
  <2>1. cli[p].loaded = state
    BY <1>2 DEF Consistent, CopiesKnown, CopyOf, CanSave, Save
  <2> QED
    BY <1>2, <2>1 DEF Save, SaveState
<1> QED
  BY <1>1, <1>2

\* The writes of a command.
LEMMA WritesKnow ==
    ASSUME TypeOK, Consistent, NEW p \in Processes, ApplyPatch(p) \/ StripConfig(p) \/ Save(p)
    PROVE  /\ Knows(p)' /\ ConfigsAdvance
           /\ UNCHANGED state \/ state'.rv = state.rv + 1
<1>0. CommandFacts(p)
  BY CommandTyped
<1> USE <1>0 DEF CommandFacts
<1>1. Knows(p)
  BY DEF Consistent, Knows
<1>2. (Exit(p, "error") => Knows(p)') /\ (Exit(p, "ok") => Knows(p)')
  BY ExitKnows
<1>3. UNCHANGED hcc => ConfigsAdvance
  BY DEF ConfigsAdvance
<1>4. CASE ApplyPatch(p)
  <2>1. CASE CanApply(ChartOf[cli[p].c], cli[p].cur)
    <3>1. ConfigsAdvance
      BY <1>4, <2>1, SlotWritten DEF ApplyPatch
    <3>2. /\ cli[p].pc = "apply" /\ cli'[p].pc = "load" /\ cli'[p].c = cli[p].c
          /\ cli'[p].cur = cli[p].cur /\ cli'[p].reconciles = cli[p].reconciles
          /\ cli'[p].todo = cli[p].todo /\ cli'[p].done = cli[p].done
          /\ cli'[p].target = cli[p].target /\ cli'[p].write = cli[p].write
          /\ UNCHANGED state
      BY <1>4, <2>1 DEF ApplyPatch, Continue, Set, TypeOK, Command
    <3>3. CopiesKnown(p)'
      BY <1>1, <3>1, <3>2, CopiesStay DEF Knows
    <3> QED
      BY <1>1, <3>1, <3>2, <3>3
      DEF Knows, WorkKnown, TodoKnown, PatchPCs, ReconcilePCs, UpdatePCs
  <2>2. CASE ~CanApply(ChartOf[cli[p].c], cli[p].cur)
    BY <1>2, <1>3, <1>4, <2>2 DEF ApplyPatch
  <2> QED
    BY <2>1, <2>2
<1>5. CASE StripConfig(p)
  <2>1. CASE CanApply(ChartOf[cli[p].c], cli[p].cur)
    <3>1. ConfigsAdvance
      BY <1>5, <2>1, SlotWritten, SubtractIsMerge DEF StripConfig, OptTag
    <3>2. PICK e \in cli[p].todo :
             Set(p, [cli[p] EXCEPT !.pc = "get", !.todo = cli[p].todo \ {e},
                                   !.done = cli[p].done \cup {e}])
      BY <1>5, <2>1 DEF StripConfig, Command
    <3>3. /\ cli[p].pc = "strip" /\ cli'[p].pc = "get" /\ cli'[p].c = cli[p].c
          /\ cli'[p].cur = cli[p].cur /\ cli'[p].reconciles = cli[p].reconciles
          /\ cli'[p].todo \subseteq cli[p].todo
          /\ cli'[p].done = cli[p].done \cup {e}
          /\ UNCHANGED state
      BY <1>5, <3>2 DEF StripConfig, Set, TypeOK, Command
    <3>4. CopiesKnown(p)'
      BY <1>1, <3>1, <3>3, CopiesStay DEF Knows
    <3> QED
      BY <1>1, <3>1, <3>2, <3>3, <3>4
      DEF Knows, WorkKnown, TodoKnown, PatchPCs, ReconcilePCs, UpdatePCs
  <2>2. CASE ~CanApply(ChartOf[cli[p].c], cli[p].cur)
    BY <1>2, <1>3, <1>5, <2>2 DEF StripConfig
  <2> QED
    BY <2>1, <2>2
<1>6. CASE Save(p)
  <2>1. UNCHANGED hcc
    BY <1>6 DEF Save
  <2>2. UNCHANGED state \/ state'.rv = state.rv + 1
    BY <1>6, SaveWrites
  <2>3. CASE Exit(p, "ok") \/ Exit(p, "error")
    BY <1>2, <1>3, <2>1, <2>2, <2>3
  <2>4. CASE ~(Exit(p, "ok") \/ Exit(p, "error"))
    <3>1. /\ cli[p].pc = "save" /\ UNCHANGED state
          /\ Set(p, [cli[p] EXCEPT !.pc = "load", !.attempt = cli[p].attempt + 1])
      BY <1>6, <2>4 DEF Save, Command
    <3>2. /\ cli'[p].pc = "load" /\ cli'[p].c = cli[p].c
          /\ cli'[p].cur = cli[p].cur /\ cli'[p].reconciles = cli[p].reconciles
          /\ cli'[p].todo = cli[p].todo /\ cli'[p].done = cli[p].done
          /\ cli'[p].target = cli[p].target /\ cli'[p].write = cli[p].write
      BY <3>1 DEF Set, TypeOK, Command
    <3>3. CopiesKnown(p)'
      BY <1>1, <1>3, <2>1, <3>1, <3>2, CopiesStay DEF Knows
    <3> QED
      BY <1>1, <1>3, <2>1, <3>1, <3>2, <3>3
      DEF Knows, WorkKnown, TodoKnown, PatchPCs, ReconcilePCs, UpdatePCs
  <2> QED
    BY <2>3, <2>4
<1> QED
  BY <1>4, <1>5, <1>6


\* Commands start knowing nothing, and stop anywhere.
LEMMA StartStopKnow ==
    ASSUME TypeOK, NEW p \in Processes, Start(p) \/ Stop(p)
    PROVE  Knows(p)' /\ UNCHANGED <<hcc, state>>
<1>1. (Exit(p, "error") => Knows(p)') /\ (Exit(p, "ok") => Knows(p)')
  BY ExitKnows
<1>2. CASE Stop(p)
  BY <1>1, <1>2 DEF Stop
<1>3. ASSUME NEW command \in Command, Begin(p, command),
             command.pc \in {"refuse", "currentVersion"},
             command.reconciles <=> command.pc = "currentVersion",
             command.cur = NoConfig, command.todo = {}, command.done = {}
      PROVE  Knows(p)' /\ UNCHANGED <<hcc, state>>
  <2>1. CASE Set(p, command)
    <3>1. cli'[p] = command
      BY <2>1, SetTyped
    <3> QED
      BY <1>3, <3>1, ObjectDefaults
      DEF Begin, Knows, WorkKnown, CopiesKnown, TodoKnown, PatchPCs, ReconcilePCs,
          UpdatePCs, EmptyConfig
  <2>2. CASE Exit(p, "error")
    BY <1>1, <1>3, <2>2 DEF Begin
  <2> QED
    BY <1>3, <2>1, <2>2 DEF Begin
<1>4. ASSUME NEW c \in Components, NEW t \in Requested \cup {NoTag}, StartPatch(p, c, t)
      PROVE  Knows(p)' /\ UNCHANGED <<hcc, state>>
  <2> DEFINE command == [NoCommand EXCEPT !.pc = "refuse", !.c = c, !.requested = t]
  <2>1. /\ command \in Command /\ command.pc = "refuse" /\ ~command.reconciles
        /\ command.cur = NoConfig /\ command.todo = {} /\ command.done = {}
    BY StartsTyped DEF NoCommand
  <2> QED
    BY <1>3, <1>4, <2>1 DEF StartPatch
<1>5. ASSUME NEW c \in Components, StartReconcile(p, c)
      PROVE  Knows(p)' /\ UNCHANGED <<hcc, state>>
  <2> DEFINE command ==
        [NoCommand EXCEPT !.pc = "currentVersion", !.c = c, !.reconciles = TRUE]
  <2>1. /\ command \in Command /\ command.pc = "currentVersion" /\ command.reconciles
        /\ command.cur = NoConfig /\ command.todo = {} /\ command.done = {}
    BY StartsTyped DEF NoCommand
  <2> QED
    BY <1>3, <1>5, <2>1 DEF StartReconcile
<1> QED
  BY <1>2, <1>4, <1>5 DEF Start

---------------------------------------------------------------------------
(* What a step of a command does to the cluster, and to the others.        *)

LEMMA OthersUndisturbed ==
    ASSUME TypeOK, NEW p \in Processes, Start(p) \/ Step(p) \/ Stop(p)
    PROVE  /\ \A q \in Processes \ {p} : cli'[q] = cli[q]
           /\ UNCHANGED <<ip, release, bundle, running>>
<1>1. UNCHANGED <<ip, release, bundle, running>>
  BY DEF Start, StartPatch, StartReconcile, Begin, Step, Stop, RefuseInControllerMode,
         NoRunningImage, ChooseTarget, CheckPatchWindow, ReadConfig, ReadVersion, CheckState,
         ApplyPatch, ReadCurrentVersion, ReadEntries, GetConfig, StripConfig, AllReverted,
         LoadState, Save, clusterVars
<1>2. \E command : Set(p, command)
  <2>1. CASE Start(p)
    BY <2>1 DEF Start, StartPatch, StartReconcile, Begin, Exit
  <2>2. CASE Stop(p)
    BY <2>2 DEF Stop, Exit
  <2>3. CASE RefuseInControllerMode(p) \/ NoRunningImage(p) \/ ChooseTarget(p) \/ CheckPatchWindow(p)
    BY <2>3 DEF RefuseInControllerMode, NoRunningImage, ChooseTarget, CheckPatchWindow,
                Continue, Exit
  <2>4. CASE ReadConfig(p) \/ ReadVersion(p) \/ CheckState(p) \/ ApplyPatch(p)
    BY <2>4 DEF ReadConfig, ReadVersion, CheckState, ApplyPatch, Continue, Exit
  <2>5. CASE ReadCurrentVersion(p) \/ ReadEntries(p) \/ GetConfig(p) \/ StripConfig(p)
    BY <2>5 DEF ReadCurrentVersion, ReadEntries, GetConfig, StripConfig, Continue, Exit
  <2>6. CASE AllReverted(p) \/ LoadState(p) \/ Save(p)
    BY <2>6 DEF AllReverted, LoadState, Save, Continue, Exit
  <2> QED
    BY <2>1, <2>2, <2>3, <2>4, <2>5, <2>6 DEF Step
<1> QED
  BY <1>1, <1>2, SetTyped


\* A step of a command writes the one slot of its component and the entries of
\* its component, and knows what it has done.
LEMMA CommandEffects ==
    ASSUME TypeOK, Consistent, NEW p \in Processes, Start(p) \/ Step(p) \/ Stop(p)
    PROVE  /\ Knows(p)' /\ ConfigsAdvance /\ UniqueKeys'
           /\ UNCHANGED state \/ state'.rv = state.rv + 1
           /\ UNCHANGED state \/ cli[p].c \in WorksOn[p]
           /\ \A e \in Entry : e.component # cli[p].c =>
                 (e \in state'.entries <=> e \in state.entries)
           /\ \A ch \in Charts : hcc'[ch] # hcc[ch] =>
                 /\ ch = ChartOf[cli[p].c]
                 /\ hcc'[ch].managedOn = hcc[ch].managedOn /\ hcc'[ch].other = hcc[ch].other
                 /\ \A k \in Keys \ {KeyOf[cli[p].c]} : hcc'[ch].values[k] = hcc[ch].values[k]
<1>0. CommandFacts(p)
  BY CommandTyped
<1> USE <1>0 DEF CommandFacts
<1>1. UNCHANGED hcc => ConfigsAdvance
  BY DEF ConfigsAdvance
<1>2. UniqueKeys
  BY DEF Consistent
<1>3. CASE Start(p) \/ Stop(p)
  BY <1>1, <1>2, <1>3, StartStopKnow DEF UniqueKeys
<1>4. CASE \/ RefuseInControllerMode(p) \/ NoRunningImage(p) \/ ChooseTarget(p)
           \/ CheckPatchWindow(p) \/ ReadConfig(p) \/ ReadVersion(p) \/ CheckState(p)
           \/ ReadCurrentVersion(p) \/ ReadEntries(p) \/ GetConfig(p) \/ AllReverted(p)
           \/ LoadState(p)
  BY <1>1, <1>2, <1>4, ReadsKnow DEF UniqueKeys
<1>5. CASE ApplyPatch(p) \/ StripConfig(p)
  <2>1. UNCHANGED state
    BY <1>5 DEF ApplyPatch, StripConfig
  <2>2. Knows(p)' /\ ConfigsAdvance
    BY <1>5, WritesKnow
  <2>3. \/ UNCHANGED hcc
        \/ /\ CanApply(ChartOf[cli[p].c], cli[p].cur)
           /\ \E t \in OptTag :
                 WriteConfig(ChartOf[cli[p].c], MergeGenerated(cli[p].cur, cli[p].c, t))
    BY <1>5, SubtractIsMerge DEF ApplyPatch, StripConfig, OptTag
  <2>4. \A ch \in Charts : hcc'[ch] # hcc[ch] =>
            /\ ch = ChartOf[cli[p].c]
            /\ hcc'[ch].managedOn = hcc[ch].managedOn /\ hcc'[ch].other = hcc[ch].other
            /\ \A k \in Keys \ {KeyOf[cli[p].c]} : hcc'[ch].values[k] = hcc[ch].values[k]
    <3>1. CASE UNCHANGED hcc
      BY <3>1
    <3>2. ASSUME NEW t \in OptTag, CanApply(ChartOf[cli[p].c], cli[p].cur),
                 WriteConfig(ChartOf[cli[p].c], MergeGenerated(cli[p].cur, cli[p].c, t)),
                 NEW ch \in Charts, hcc'[ch] # hcc[ch]
          PROVE  /\ ch = ChartOf[cli[p].c]
                 /\ hcc'[ch].managedOn = hcc[ch].managedOn /\ hcc'[ch].other = hcc[ch].other
                 /\ \A k \in Keys \ {KeyOf[cli[p].c]} : hcc'[ch].values[k] = hcc[ch].values[k]
      <4>1. ch = ChartOf[cli[p].c]
        BY <3>2, SlotWritten
      <4>2. /\ hcc'[ch].managedOn = hcc[ch].managedOn /\ hcc'[ch].other = hcc[ch].other
            /\ hcc'[ch].values = [hcc[ch].values EXCEPT ![KeyOf[cli[p].c]] = t]
        BY <3>2, <4>1, SlotWritten
      <4> QED
        BY <4>1, <4>2 DEF HelmChartConfig
    <3> QED
      BY <2>3, <3>1, <3>2
  <2> QED
    BY <1>2, <2>1, <2>2, <2>4 DEF UniqueKeys
<1>6. CASE Save(p)
  <2>1. UNCHANGED hcc /\ cli[p].pc = "save"
    BY <1>6 DEF Save
  <2>2. Knows(p)' /\ (UNCHANGED state \/ state'.rv = state.rv + 1)
    BY <1>6, WritesKnow
  <2>3. WorkKnown(p)
    BY DEF Consistent
  <2>4. cli[p].c \in WorksOn[p]
    BY <2>1, <2>3 DEF WorkKnown
  <2>5. UNCHANGED state \/ state'.entries = Mutated(state.entries, cli[p])
    BY <1>6, SaveWrites
  <2>6. /\ cli[p].reconciles \/ cli[p].write.component = cli[p].c
        /\ \A e \in cli[p].done : e.component = cli[p].c
    BY <2>1, <2>3 DEF WorkKnown, UpdatePCs
  <2>7. UniqueKeys' /\ \A e \in Entry : e.component # cli[p].c =>
                          (e \in state'.entries <=> e \in state.entries)
    <3>1. CASE UNCHANGED state
      BY <1>2, <3>1 DEF UniqueKeys
    <3>2. CASE state'.entries = Mutated(state.entries, cli[p])
      BY <1>2, <2>6, <3>2, MutatedEntries DEF UniqueKeys
    <3> QED
      BY <2>5, <3>1, <3>2
  <2> QED
    BY <1>1, <2>1, <2>2, <2>4, <2>7
<1> QED
  BY <1>3, <1>4, <1>5, <1>6 DEF Step

\* The state gains entries by the save of an image-patch only.
LEMMA OnlyPatchesRecord ==
    ASSUME TypeOK, Consistent, NEW p \in Processes, Start(p) \/ Step(p) \/ Stop(p)
    PROVE  \/ state'.entries \subseteq state.entries
           \/ cli[p].pc = "save" /\ ~cli[p].reconciles
<1>1. CASE Save(p)
  <2>1. CASE cli[p].reconciles
    <3>1. Mutated(state.entries, cli[p]) \subseteq state.entries
      BY <2>1 DEF Mutated
    <3> QED
      BY <1>1, <3>1, SaveWrites
  <2> QED
    BY <1>1, <2>1 DEF Save
<1>2. CASE ApplyPatch(p) \/ StripConfig(p)
  BY <1>2 DEF ApplyPatch, StripConfig
<1> QED
  BY <1>1, <1>2, ReadsKnow, StartStopKnow DEF Step

\* Consistent survives the steps of the commands ...
LEMMA CommandsKeepConsistent ==
    ASSUME TypeOK, Consistent, CLIStep
    PROVE  Consistent'
<1>1. PICK p \in Processes : Start(p) \/ Step(p) \/ Stop(p)
  BY DEF CLIStep
<1>2. /\ Knows(p)' /\ ConfigsAdvance /\ UniqueKeys'
      /\ UNCHANGED state \/ state'.rv = state.rv + 1
      /\ UNCHANGED state \/ cli[p].c \in WorksOn[p]
      /\ \A e \in Entry : e.component # cli[p].c =>
            (e \in state'.entries <=> e \in state.entries)
  BY <1>1, CommandEffects
<1>3. ASSUME NEW q \in Processes \ {p}
      PROVE  Knows(q)'
  <2>1. cli'[q] = cli[q]
    BY <1>1, OthersUndisturbed
  <2>2. Knows(q)
    BY DEF Consistent, Knows
  <2>3. \/ \A e \in state.entries : e.component = cli[q].c => e \in state'.entries
        \/ \E r \in Processes \ {q} : cli[q].c \in WorksOn[r]
    BY <1>2, CommandTyped DEF CommandFacts
  <2> QED
    BY <1>2, <2>1, <2>2, <2>3, OthersKnow
<1>4. \A ch \in Charts : ~hcc'[ch].exists => EmptyConfig(hcc'[ch])
  BY <1>2 DEF ConfigsAdvance, Consistent
<1> QED
  BY <1>2, <1>3, <1>4 DEF Consistent, Knows

\* ... and whatever else writes HelmChartConfig objects, users as well as the
\* controller: a copy of an older version is refused, whoever wrote the newer.
LEMMA WritersKeepConsistent ==
    ASSUME TypeOK, Consistent, ConfigsAdvance, UNCHANGED <<state, cli>>
    PROVE  Consistent'
<1>1. ASSUME NEW q \in Processes
      PROVE  Knows(q)'
  <2>1. Knows(q)
    BY DEF Consistent, Knows
  <2> QED
    BY <2>1, OthersKnow
<1>2. \A ch \in Charts : ~hcc'[ch].exists => EmptyConfig(hcc'[ch])
  BY DEF ConfigsAdvance, Consistent
<1>3. UniqueKeys'
  BY DEF Consistent, UniqueKeys
<1> QED
  BY <1>1, <1>2, <1>3 DEF Consistent, Knows

LEMMA EnvironmentEffects ==
    ASSUME TypeOK, EnvironmentStep
    PROVE  ConfigsAdvance /\ UNCHANGED <<state, cli, lost>>
<1>1. ClusterTypeOK
  BY DEF TypeOK
<1>2. UNCHANGED hcc => ConfigsAdvance
  BY DEF ConfigsAdvance
<1> QED
  BY <1>1, <1>2, UserAdvances, PlatformKeeps DEF EnvironmentStep, cliVars

LEMMA StartIsConsistent ==
    ASSUME Init
    PROVE  Consistent
<1>1. /\ \A ch \in Charts : hcc[ch] = NoConfig
      /\ \A p \in Processes : cli[p] = NoCommand
      /\ state.entries = {}
  BY DEF Init, ClusterInit
<1>2. ASSUME NEW p \in Processes
      PROVE  WorkKnown(p) /\ CopiesKnown(p) /\ TodoKnown(p)
  <2>1. /\ cli[p].pc = "idle" /\ cli[p].cur = NoConfig
        /\ cli[p].todo = {} /\ cli[p].done = {}
    <3>1. cli[p] = NoCommand
      BY <1>1
    <3>2. /\ NoCommand.pc = "idle" /\ NoCommand.cur = NoConfig
          /\ NoCommand.todo = {} /\ NoCommand.done = {}
      BY DEF NoCommand
    <3> QED
      BY <3>1, <3>2
  <2> QED
    BY <2>1, ObjectDefaults
    DEF WorkKnown, CopiesKnown, TodoKnown, PatchPCs, ReconcilePCs, UpdatePCs
<1> QED
  BY <1>1, <1>2, ObjectDefaults DEF Consistent, UniqueKeys

\* What a command has read of the objects it writes is of an older version, and
\* its write is refused, or it is what is there; it records or removes entries
\* of its own component; no two entries have one key; and what is not there
\* has no contents (ApplyHelmChartConfig, clistate.Update).
THEOREM CommandsAreConsistent == Spec => []Consistent
<1>1. Init => Consistent
  BY StartIsConsistent
<1>2. TypeOK /\ Consistent /\ [Next]_vars => Consistent'
  <2> SUFFICES ASSUME TypeOK, Consistent, [Next]_vars PROVE Consistent'
    OBVIOUS
  <2>1. CASE EnvironmentStep
    BY <2>1, EnvironmentEffects, WritersKeepConsistent
  <2>2. CASE UNCHANGED vars
    BY <2>2, WritersKeepConsistent DEF vars, clusterVars, cliVars, ConfigsAdvance
  <2> QED
    BY <2>1, <2>2, CommandsKeepConsistent DEF Next
<1> QED
  BY <1>1, <1>2, TypeCorrect, PTL DEF Spec


---------------------------------------------------------------------------
(* What follows from it.                                                   *)

\* A command changes nothing in a HelmChartConfig but the slot of its own
\* component, whatever users and other commands write between its read and its
\* write (runImagePatch, runReconcile, kube.ApplyHelmChartConfig).
THEOREM OtherValuesAreKept == Spec => OtherValuesKept
<1>1. TypeOK /\ Consistent /\ [Next]_vars =>
        [\A p \in Processes, ch \in Charts : cli'[p] # cli[p] /\ hcc'[ch] # hcc[ch] =>
            /\ ch = ChartOf[cli[p].c]
            /\ hcc'[ch].managedOn = hcc[ch].managedOn /\ hcc'[ch].other = hcc[ch].other
            /\ \A k \in Keys \ {KeyOf[cli[p].c]} : hcc'[ch].values[k] = hcc[ch].values[k]]_vars
  <2> SUFFICES ASSUME TypeOK, Consistent, Next, NEW p \in Processes, NEW ch \in Charts,
                      cli'[p] # cli[p], hcc'[ch] # hcc[ch]
               PROVE  /\ ch = ChartOf[cli[p].c]
                      /\ hcc'[ch].managedOn = hcc[ch].managedOn
                      /\ hcc'[ch].other = hcc[ch].other
                      /\ \A k \in Keys \ {KeyOf[cli[p].c]} :
                            hcc'[ch].values[k] = hcc[ch].values[k]
    OBVIOUS
  <2>1. CLIStep
    BY DEF Next, EnvironmentStep, cliVars
  <2>2. Start(p) \/ Step(p) \/ Stop(p)
    BY <2>1, OthersUndisturbed DEF CLIStep
  <2> QED
    BY <2>2, CommandEffects
<1> QED
  BY <1>1, TypeCorrect, CommandsAreConsistent, PTL DEF Spec, OtherValuesKept

\* Saving a patch is one Record of the store, saving reverts is one Remove.
LEMMA SaveImplements ==
    ASSUME TypeOK, Consistent, NEW p \in Processes, Save(p)
    PROVE  \/ UNCHANGED state.entries
           \/ \E e \in Store!Entry : Store!Record(e)
           \/ \E c \in Components : Store!Remove(c)
<1>0. CommandFacts(p)
  BY CommandTyped
<1> USE <1>0 DEF CommandFacts
<1>1. Store!Entry = Entry
  BY DEF Store!Entry, Entry
<1>2. \A e, f : Store!SameKey(e, f) <=> SameKey(e, f)
  BY DEF Store!SameKey, SameKey
<1>3. WorkKnown(p) /\ UniqueKeys
  BY DEF Consistent
<1> SUFFICES ASSUME state'.entries # state.entries
             PROVE  \/ \E e \in Store!Entry : Store!Record(e)
                    \/ \E c \in Components : Store!Remove(c)
  OBVIOUS
<1>4. state'.entries = Mutated(state.entries, cli[p])
  BY SaveWrites
<1>5. CASE cli[p].reconciles
  <2>1. state'.entries = {e \in state.entries : ~\E f \in cli[p].done : SameKey(e, f)}
    BY <1>4, <1>5 DEF Mutated
  <2>2. \A e \in state.entries \ state'.entries : e.component = cli[p].c
    BY <1>3, <2>1 DEF WorkKnown, SameKey
  <2> QED
    BY <2>1, <2>2 DEF Store!Remove
<1>6. CASE ~cli[p].reconciles
  <2> DEFINE new == Persisted(state.entries, cli[p].write)
  <2>1. state'.entries = {e \in state.entries : ~SameKey(e, cli[p].write)} \cup {new}
    BY <1>4, <1>6 DEF Mutated
  <2>2. /\ new \in Entry /\ \A f : SameKey(new, f) <=> SameKey(cli[p].write, f)
        /\ (\E f \in state.entries : SameKey(new, f)) =>
              \E f \in state.entries : SameKey(new, f) /\ new.baselineTag = f.baselineTag
    BY PersistedEntry DEF SameKey
  <2> HIDE DEF new
  <2>3. \A f \in state.entries : SameKey(new, f) => new.baselineTag = f.baselineTag
    BY <1>3, <2>2 DEF UniqueKeys, SameKey
  <2>4. state'.entries = {f \in state.entries : ~SameKey(new, f)} \cup {new}
    BY <2>1, <2>2 DEF SameKey
  <2>5. Store!Record(new)
    BY <1>2, <2>3, <2>4 DEF Store!Record
  <2> QED
    BY <1>1, <2>2, <2>5
<1> QED
  BY <1>5, <1>6

\* The ConfigMap is the atomic map StateStore promises, however many commands
\* load and save it at a time: a save that would lose an update is refused, and
\* the first baseline tag of an entry stays (clistate.Update, Persist).
THEOREM StoreImplemented == Spec => StoreIsAtomic
<1>1. Init => Store!Init
  BY DEF Init, ClusterInit, Store!Init
<1>2. TypeOK /\ Consistent /\ [Next]_vars => [Store!Next]_(state.entries)
  <2> SUFFICES ASSUME TypeOK, Consistent, [Next]_vars
               PROVE  UNCHANGED state.entries \/ Store!Next
    OBVIOUS
  <2>1. CASE \E p \in Processes : Save(p)
    BY <2>1, SaveImplements DEF Store!Next
  <2>2. CASE ~\E p \in Processes : Save(p)
    <3>1. UNCHANGED state
      <4>1. ASSUME NEW p \in Processes, Start(p) \/ Step(p) \/ Stop(p)
            PROVE  UNCHANGED state
        <5>1. CASE Start(p) \/ Stop(p)
          BY <5>1, StartStopKnow
        <5>2. CASE ApplyPatch(p) \/ StripConfig(p)
          BY <5>2 DEF ApplyPatch, StripConfig
        <5> QED
          BY <2>2, <4>1, <5>1, <5>2, ReadsKnow DEF Step
      <4>2. CASE EnvironmentStep
        BY <4>2, EnvironmentEffects
      <4>3. CASE UNCHANGED vars
        BY <4>3 DEF vars, clusterVars
      <4> QED
        BY <4>1, <4>2, <4>3 DEF Next, CLIStep
    <3> QED
      BY <3>1
  <2> QED
    BY <2>1, <2>2
<1> QED
  BY <1>1, <1>2, TypeCorrect, CommandsAreConsistent, PTL DEF Spec, StoreIsAtomic, Store!Spec


---------------------------------------------------------------------------
(* Patches are recorded.                                                   *)

\* A command changes the slot it works on, when it patches or reverts.
LEMMA SlotsWritten ==
    ASSUME TypeOK, Consistent, NEW p \in Processes, Start(p) \/ Step(p) \/ Stop(p),
           NEW c \in Components, Slot(c)' # Slot(c)
    PROVE  /\ ApplyPatch(p) \/ StripConfig(p)
           /\ cli[p].c \in WorksOn[p]
           /\ ChartOf[cli[p].c] = ChartOf[c] /\ KeyOf[cli[p].c] = KeyOf[c]
<1>1. ApplyPatch(p) \/ StripConfig(p)
  BY ReadsKnow, StartStopKnow DEF Step, Slot, Save
<1>2. cli[p].c \in WorksOn[p]
  BY <1>1 DEF ApplyPatch, StripConfig, Consistent, WorkKnown
<1>3. ChartOf[c] \in Charts /\ KeyOf[c] \in Keys
  BY ComponentsAssumption
<1>4. /\ hcc'[ChartOf[c]] # hcc[ChartOf[c]]
      /\ hcc'[ChartOf[c]].values[KeyOf[c]] # hcc[ChartOf[c]].values[KeyOf[c]]
  BY DEF Slot
<1>5. ChartOf[c] = ChartOf[cli[p].c] /\ KeyOf[c] = KeyOf[cli[p].c]
  BY <1>3, <1>4, CommandEffects
<1> QED
  BY <1>1, <1>2, <1>5

\* So a slot with one writer is changed by that one's commands on it.
LEMMA SoleWriterWrites ==
    ASSUME TypeOK, Consistent, NEW q \in Processes, Start(q) \/ Step(q) \/ Stop(q),
           NEW p \in Processes, NEW c \in Components, SoleWriter(p, c), Slot(c)' # Slot(c)
    PROVE  /\ q = p /\ cli[p].c = c
           /\ \/ ApplyPatch(p) /\ Slot(c)' = cli[p].target
              \/ StripConfig(p) /\ Slot(c)' = NoTag
<1>0. CommandFacts(q)
  BY CommandTyped
<1> USE <1>0 DEF CommandFacts
<1>1. q = p /\ cli[p].c = c
  BY SlotsWritten DEF SoleWriter
<1>2. KeyOf[c] \in Keys /\ hcc[ChartOf[c]].values \in [Keys -> OptTag]
  BY <1>1, ComponentsAssumption DEF HelmChartConfig
<1>3. CASE ApplyPatch(p)
  <2>1. CanApply(ChartOf[c], cli[p].cur)
    BY <1>3, <1>1 DEF ApplyPatch, Slot
  <2>2. hcc'[ChartOf[c]].values = [hcc[ChartOf[c]].values EXCEPT ![KeyOf[c]] = cli[p].target]
    BY <1>1, <1>3, <2>1, SlotWritten DEF ApplyPatch
  <2> QED
    BY <1>1, <1>2, <1>3, <2>2 DEF Slot
<1>4. CASE StripConfig(p)
  <2>1. CanApply(ChartOf[c], cli[p].cur)
    BY <1>4, <1>1 DEF StripConfig, Slot
  <2>2. hcc'[ChartOf[c]].values = [hcc[ChartOf[c]].values EXCEPT ![KeyOf[c]] = NoTag]
    BY <1>1, <1>4, <2>1, SlotWritten, SubtractIsMerge DEF StripConfig, OptTag
  <2> QED
    BY <1>1, <1>2, <1>4, <2>2 DEF Slot
<1> QED
  BY <1>1, <1>3, <1>4, SlotsWritten

\* What users do by hand, but setting image values, empties a slot at most.
LEMMA EnvironmentSpares ==
    ASSUME TypeOK, EnvironmentStep, \A c \in Components, t \in Requested : ~OverrideImage(c, t),
           NEW c \in Components
    PROVE  Slot(c)' \in {Slot(c), NoTag}
<1>1. ChartOf[c] \in Charts /\ KeyOf[c] \in Keys /\ hcc[ChartOf[c]] \in HelmChartConfig
  BY ComponentsAssumption DEF TypeOK, ClusterTypeOK
<1>2. ASSUME NEW ch \in Charts, EditOtherValues(ch)
      PROVE  Slot(c)' = Slot(c)
  <2>1. hcc'[ChartOf[c]].values = hcc[ChartOf[c]].values
    BY <1>1, <1>2 DEF EditOtherValues, ApplyHelmChartConfig, TypeOK, ClusterTypeOK, HelmChartConfig
  <2> QED
    BY <2>1 DEF Slot
<1>3. ASSUME NEW ch \in Charts, DeleteConfig(ch)
      PROVE  Slot(c)' \in {Slot(c), NoTag}
  <2>1. hcc'[ChartOf[c]].values \in {hcc[ChartOf[c]].values, [k \in Keys |-> NoTag]}
    BY <1>1, <1>3 DEF DeleteConfig, NoConfig, TypeOK, ClusterTypeOK
  <2> QED
    BY <1>1, <2>1 DEF Slot
<1>4. ASSUME NEW d \in Components, OverrideImage(d, NoTag)
      PROVE  Slot(c)' \in {Slot(c), NoTag}
  <2>1. /\ ChartOf[d] \in Charts /\ KeyOf[d] \in Keys
        /\ hcc[ChartOf[d]] \in HelmChartConfig /\ ClusterTypeOK
    BY ComponentsAssumption DEF TypeOK, ClusterTypeOK
  <2>2. MergeGenerated(hcc[ChartOf[d]], d, NoTag) \in HelmChartConfig
    BY <2>1, ContentsTyped DEF OptTag
  <2>3. /\ ChartOf[c] # ChartOf[d] => hcc'[ChartOf[c]] = hcc[ChartOf[c]]
        /\ hcc'[ChartOf[d]].values = MergeGenerated(hcc[ChartOf[d]], d, NoTag).values
    BY <1>1, <1>4, <2>1, <2>2, ConfigWritten DEF OverrideImage
  <2>4. MergeGenerated(hcc[ChartOf[d]], d, NoTag).values
          = [hcc[ChartOf[d]].values EXCEPT ![KeyOf[d]] = NoTag]
    BY <2>1 DEF MergeGenerated, HelmChartConfig
  <2> QED
    BY <1>1, <2>1, <2>3, <2>4 DEF Slot, HelmChartConfig
<1>5. ASSUME NEW d \in Components,
             \/ \E t \in Requested, policy \in Policies :
                   CreateImagePatch(d, t, policy) \/ EditImagePatch(d, t, policy)
             \/ RemoveMarker(d) \/ DeleteImagePatch(d)
      PROVE  UNCHANGED hcc
  BY <1>5 DEF CreateImagePatch, EditImagePatch, RemoveMarker, DeleteImagePatch
<1>6. CASE UserStep
  BY <1>2, <1>3, <1>4, <1>5, <1>6 DEF UserStep, Slot
<1>7. CASE PlatformStep \/ UpgradeVersion
  BY <1>7, PlatformKeeps DEF Slot
<1> QED
  BY <1>6, <1>7 DEF EnvironmentStep


\* A command that records a patch has it in the state when it is done with it.
LEMMA RecordEnds ==
    ASSUME TypeOK, Consistent, NEW p \in Processes, ~cli[p].reconciles
    PROVE  /\ LoadState(p) /\ NothingToDo(state.entries, cli[p]) =>
                 \E e \in state'.entries :
                    e.component = cli[p].c /\ e.patchedToTag = cli[p].target
           /\ Save(p) /\ CanSave(cli[p].loaded) =>
                 \E e \in state'.entries :
                    e.component = cli[p].c /\ e.patchedToTag = cli[p].target
<1>0. CommandFacts(p)
  BY CommandTyped
<1> USE <1>0 DEF CommandFacts
<1>1. cli[p].pc \in UpdatePCs =>
         cli[p].write.component = cli[p].c /\ cli[p].write.patchedToTag = cli[p].target
  BY DEF Consistent, WorkKnown
<1>2. ASSUME LoadState(p), NothingToDo(state.entries, cli[p])
      PROVE  cli[p].write \in state'.entries
  BY <1>2 DEF LoadState, NothingToDo, clusterVars
<1>3. ASSUME Save(p), CanSave(cli[p].loaded)
      PROVE  Persisted(state.entries, cli[p].write) \in state'.entries
  <2>1. cli[p].loaded = state
    BY <1>3 DEF Consistent, CopiesKnown, CopyOf, CanSave, Save
  <2>2. Persisted(state.entries, cli[p].write) \in Mutated(state.entries, cli[p])
    BY DEF Mutated
  <2>3. state'.entries = Mutated(state.entries, cli[p])
    BY <1>3, <2>1 DEF Save, SaveState
  <2> QED
    BY <2>2, <2>3
<1>4. /\ Persisted(state.entries, cli[p].write).component = cli[p].write.component
      /\ Persisted(state.entries, cli[p].write).patchedToTag = cli[p].write.patchedToTag
  BY PersistedEntry
<1>5. LoadState(p) \/ Save(p) => cli[p].pc \in UpdatePCs
  BY DEF LoadState, Save, UpdatePCs
<1> QED
  BY <1>1, <1>2, <1>3, <1>4, <1>5

\* What the command that takes a step knows of its slot afterwards.
LEMMA OwnSlotKnown ==
    ASSUME TypeOK, Consistent, NEW p \in Processes, SlotKnown(p),
           Start(p) \/ Step(p) \/ Stop(p)
    PROVE  SlotKnown(p)'
<1>0. CommandFacts(p)
  BY CommandTyped
<1> USE <1>0 DEF CommandFacts
<1>1. ASSUME NEW out, cli'[p] = [NoCommand EXCEPT !.out = out]
      PROVE  SlotKnown(p)'
  <2>1. cli'[p].pc = "idle" /\ cli'[p].done = {}
    BY <1>1 DEF NoCommand
  <2> QED
    BY <2>1 DEF SlotKnown, UpdatePCs
<1>2. /\ Exit(p, "error") => SlotKnown(p)'
      /\ Exit(p, "ok") => SlotKnown(p)'
  BY <1>1, SetTyped DEF Outs
<1>3. CASE Stop(p)
  BY <1>2, <1>3 DEF Stop
<1>4. CASE Start(p)
  <2>1. ASSUME NEW command, Begin(p, command), command \in Command,
               command.pc \notin UpdatePCs, command.done = {}
        PROVE  SlotKnown(p)'
    BY <1>2, <2>1, SetTyped DEF Begin, SlotKnown
  <2>2. ASSUME NEW c \in Components, NEW t \in Requested \cup {NoTag}, StartPatch(p, c, t)
        PROVE  SlotKnown(p)'
    <3> DEFINE command == [NoCommand EXCEPT !.pc = "refuse", !.c = c, !.requested = t]
    <3>1. command \in Command /\ command.pc = "refuse" /\ command.done = {}
      BY StartsTyped DEF NoCommand
    <3>2. command.pc \notin UpdatePCs
      BY <3>1 DEF UpdatePCs
    <3> QED
      BY <2>1, <2>2, <3>1, <3>2 DEF StartPatch
  <2>3. ASSUME NEW c \in Components, StartReconcile(p, c)
        PROVE  SlotKnown(p)'
    <3> DEFINE command ==
          [NoCommand EXCEPT !.pc = "currentVersion", !.c = c, !.reconciles = TRUE]
    <3>1. command \in Command
      BY StartsTyped
    <3>2. command.pc = "currentVersion" /\ command.done = {}
      BY DEF NoCommand
    <3>3. command.pc \notin UpdatePCs
      BY <3>2 DEF UpdatePCs
    <3> QED
      BY <2>1, <2>3, <3>1, <3>2, <3>3 DEF StartReconcile
  <2> QED
    BY <1>4, <2>2, <2>3 DEF Start
<1>5. CASE ~(Exit(p, "error") \/ Exit(p, "ok")) /\ Step(p)
  <2>1. WorkKnown(p)
    BY DEF Consistent
  <2>2. ASSUME NEW c \in Components, SoleWriter(p, c), ~(ApplyPatch(p) \/ StripConfig(p))
        PROVE  Slot(c)' = Slot(c)
    BY <1>5, <2>2, SoleWriterWrites
  <2>3. ASSUME cli'[p].c = cli[p].c, ~(ApplyPatch(p) \/ StripConfig(p)),
               SoleWriter(p, cli[p].c)'
        PROVE  SoleWriter(p, cli[p].c) /\ Slot(cli[p].c)' = Slot(cli[p].c)
    <3>1. SoleWriter(p, cli[p].c)
      BY <2>3 DEF SoleWriter
    <3>2. hcc'[ChartOf[cli[p].c]].values[KeyOf[cli[p].c]] = Slot(cli[p].c)
      BY <2>2, <2>3, <3>1 DEF Slot
    <3> QED
      BY <2>3, <3>1, <3>2 DEF Slot
  <2>4. CASE ApplyPatch(p)
    <3>1. /\ cli[p].pc = "apply" /\ cli'[p].c = cli[p].c /\ cli'[p].target = cli[p].target
          /\ cli'[p].reconciles = cli[p].reconciles
      BY <1>5, <2>4 DEF ApplyPatch, Continue, Set, TypeOK, Command
    <3>2. ~cli[p].reconciles
      BY <2>1, <3>1 DEF WorkKnown, PatchPCs
    <3>3. /\ CanApply(ChartOf[cli[p].c], cli[p].cur)
          /\ WriteConfig(ChartOf[cli[p].c], MergeGenerated(cli[p].cur, cli[p].c, cli[p].target))
      BY <1>5, <2>4 DEF ApplyPatch
    <3>4. hcc'[ChartOf[cli[p].c]].values
            = [hcc[ChartOf[cli[p].c]].values EXCEPT ![KeyOf[cli[p].c]] = cli[p].target]
      BY <3>3, SlotWritten
    <3>5. Slot(cli[p].c)' = cli[p].target
      BY <3>1, <3>4 DEF Slot, HelmChartConfig
    <3> QED
      BY <3>1, <3>2, <3>5 DEF SlotKnown
  <2>5. CASE StripConfig(p)
    <3>1. /\ CanApply(ChartOf[cli[p].c], cli[p].cur)
          /\ WriteConfig(ChartOf[cli[p].c], MergeGenerated(cli[p].cur, cli[p].c, NoTag))
          /\ \E e \in cli[p].todo :
                Set(p, [cli[p] EXCEPT !.pc = "get", !.todo = @ \ {e}, !.done = @ \cup {e}])
      BY <1>5, <2>5, SubtractIsMerge DEF StripConfig
    <3>2. cli'[p].pc = "get" /\ cli'[p].c = cli[p].c
      BY <3>1 DEF Set, TypeOK, Command
    <3>3. hcc'[ChartOf[cli[p].c]].values
            = [hcc[ChartOf[cli[p].c]].values EXCEPT ![KeyOf[cli[p].c]] = NoTag]
      BY <3>1, SlotWritten DEF OptTag
    <3>4. Slot(cli[p].c)' = NoTag
      BY <3>2, <3>3 DEF Slot, HelmChartConfig
    <3> QED
      BY <3>2, <3>4 DEF SlotKnown, UpdatePCs
  <2>6. CASE LoadState(p) \/ Save(p)
    <3>1. /\ cli'[p].c = cli[p].c /\ cli'[p].target = cli[p].target
          /\ cli'[p].reconciles = cli[p].reconciles /\ cli'[p].done = cli[p].done
          /\ cli[p].pc \in UpdatePCs /\ cli'[p].pc \in UpdatePCs
      <4>1. CASE LoadState(p)
        <5>1. PICK write : Set(p, [cli[p] EXCEPT !.pc = "save", !.loaded = state,
                                                 !.write = write])
          BY <1>5, <4>1 DEF LoadState, Command
        <5>2. cli[p].pc = "load"
          BY <4>1 DEF LoadState
        <5> QED
          BY <5>1, <5>2 DEF Set, UpdatePCs, TypeOK, Command
      <4>2. CASE Save(p)
        <5>1. Set(p, [cli[p] EXCEPT !.pc = "load", !.attempt = cli[p].attempt + 1])
          BY <1>5, <4>2 DEF Save, Command
        <5> QED
          BY <4>2, <5>1 DEF Save, Set, UpdatePCs, TypeOK, Command
      <4> QED
        BY <2>6, <4>1, <4>2
    <3>2. ~(ApplyPatch(p) \/ StripConfig(p))
      BY <3>1 DEF ApplyPatch, StripConfig, UpdatePCs
    <3> QED
      BY <2>3, <3>1, <3>2 DEF SlotKnown
  <2>7. CASE ReadEntries(p) \/ GetConfig(p) \/ AllReverted(p) \/ ReadCurrentVersion(p)
    <3>1. /\ cli'[p].c = cli[p].c /\ cli'[p].reconciles = cli[p].reconciles
          /\ cli'[p].done = cli[p].done
          /\ cli[p].pc \in ReconcilePCs \ {"strip"}
      <4>1. CASE ReadEntries(p)
        <5>1. PICK todo : Set(p, [cli[p] EXCEPT !.pc = "get", !.todo = todo])
          BY <1>5, <4>1 DEF ReadEntries
        <5> QED
          BY <4>1, <5>1 DEF ReadEntries, Set, ReconcilePCs, TypeOK, Command
      <4>2. CASE GetConfig(p)
        <5>1. \/ Set(p, [cli[p] EXCEPT !.pc = "strip", !.cur = hcc[ChartOf[cli[p].c]]])
              \/ \E e : Set(p, [cli[p] EXCEPT !.todo = cli[p].todo \ {e}])
          BY <4>2 DEF GetConfig, Command
        <5>2. cli[p].pc = "get"
          BY <4>2 DEF GetConfig
        <5>3. /\ cli'[p].c = cli[p].c /\ cli'[p].reconciles = cli[p].reconciles
              /\ cli'[p].done = cli[p].done
          BY <5>1 DEF Set, TypeOK, Command
        <5> QED
          BY <5>2, <5>3 DEF ReconcilePCs
      <4>3. CASE AllReverted(p) \/ ReadCurrentVersion(p)
        <5>1. \/ Set(p, [cli[p] EXCEPT !.pc = "load"])
              \/ Set(p, [cli[p] EXCEPT !.pc = "entries", !.on = release])
          BY <1>5, <4>3 DEF AllReverted, ReadCurrentVersion, Continue
        <5> QED
          <6>1. cli[p].pc \in {"get", "currentVersion"}
            BY <4>3 DEF AllReverted, ReadCurrentVersion
          <6>2. /\ cli'[p].c = cli[p].c /\ cli'[p].reconciles = cli[p].reconciles
                /\ cli'[p].done = cli[p].done
            BY <5>1 DEF Set, TypeOK, Command
          <6> QED
            BY <6>1, <6>2 DEF ReconcilePCs
      <4> QED
        BY <2>7, <4>1, <4>2, <4>3
    <3>2. cli[p].reconciles
      BY <2>1, <3>1 DEF WorkKnown
    <3>3. ~(ApplyPatch(p) \/ StripConfig(p))
      BY <3>1 DEF ApplyPatch, StripConfig, ReconcilePCs
    <3> QED
      BY <2>3, <3>1, <3>2, <3>3 DEF SlotKnown, UpdatePCs
  <2>8. CASE \/ RefuseInControllerMode(p) \/ NoRunningImage(p) \/ ChooseTarget(p)
             \/ CheckPatchWindow(p) \/ ReadConfig(p) \/ ReadVersion(p) \/ CheckState(p)
    <3>1. /\ cli[p].pc \in PatchPCs /\ cli'[p].pc \notin UpdatePCs
          /\ cli'[p].reconciles = cli[p].reconciles
      <4>1. cli[p].pc \in PatchPCs
        BY <2>8 DEF RefuseInControllerMode, NoRunningImage, ChooseTarget, CheckPatchWindow,
           ReadConfig, ReadVersion, CheckState, PatchPCs
      <4>2. PICK pc \in PatchPCs : cli'[p].pc = pc /\ cli'[p].reconciles = cli[p].reconciles
        <5>1. CASE RefuseInControllerMode(p) \/ NoRunningImage(p) \/ CheckPatchWindow(p)
          <6>1. \E pc \in PatchPCs : Set(p, [cli[p] EXCEPT !.pc = pc])
            BY <1>5, <5>1 DEF RefuseInControllerMode, NoRunningImage, CheckPatchWindow,
               Continue, PatchPCs
          <6> QED
            BY <6>1 DEF Set, TypeOK, Command
        <5>2. CASE ChooseTarget(p)
          <6>1. PICK current, t :
                   Set(p, [cli[p] EXCEPT !.pc = "window", !.current = current, !.target = t])
            BY <1>5, <5>2 DEF ChooseTarget
          <6> QED
            BY <6>1, StepsApart DEF Set, TypeOK, Command
        <5>3. CASE ReadConfig(p)
          <6>1. Set(p, [cli[p] EXCEPT !.pc = "version", !.cur = hcc[ChartOf[cli[p].c]]])
            BY <1>5, <5>3 DEF ReadConfig
          <6> QED
            BY <6>1, StepsApart DEF Set, TypeOK, Command
        <5>4. CASE ReadVersion(p)
          <6>1. Set(p, [cli[p] EXCEPT !.pc = "state", !.on = release])
            BY <5>4 DEF ReadVersion
          <6> QED
            BY <6>1, StepsApart DEF Set, TypeOK, Command
        <5>5. CASE CheckState(p)
          <6>1. PICK write : Set(p, [cli[p] EXCEPT !.pc = "apply", !.write = write])
            BY <1>5, <5>5 DEF CheckState
          <6> QED
            BY <6>1, StepsApart DEF Set, TypeOK, Command
        <5> QED
          BY <2>8, <5>1, <5>2, <5>3, <5>4, <5>5
      <4> QED
        BY <4>1, <4>2, StepsApart
    <3>2. ~cli[p].reconciles
      BY <2>1, <3>1 DEF WorkKnown
    <3> QED
      BY <3>1, <3>2 DEF SlotKnown
  <2> QED
    BY <1>5, <2>4, <2>5, <2>6, <2>7, <2>8 DEF Step
<1>6. CASE (Exit(p, "error") \/ Exit(p, "ok")) /\ Step(p)
  BY <1>2, <1>6
<1> QED
  BY <1>3, <1>4, <1>5, <1>6


\* Nobody else's knowledge of a slot is disturbed.
LEMMA OtherSlotsKnown ==
    ASSUME TypeOK, Consistent, NEW q \in Processes, Start(q) \/ Step(q) \/ Stop(q),
           NEW p \in Processes \ {q}, SlotKnown(p)
    PROVE  SlotKnown(p)'
<1>1. cli'[p] = cli[p]
  BY OthersUndisturbed
<1>2. ASSUME SoleWriter(p, cli[p].c)
      PROVE  hcc'[ChartOf[cli[p].c]].values[KeyOf[cli[p].c]] = Slot(cli[p].c)
  <2>1. cli[p].c \in Components
    BY CommandTyped DEF CommandFacts
  <2>2. \A c \in Components : SoleWriter(p, c) => Slot(c)' = Slot(c)
    BY SoleWriterWrites
  <2> QED
    BY <1>2, <2>1, <2>2 DEF Slot
<1> QED
  BY <1>1, <1>2 DEF SlotKnown, Slot, SoleWriter

\* A patch that is recorded, or on its way to be, stays so through the steps of
\* every command.
LEMMA CommandsRecord ==
    ASSUME TypeOK, Consistent, \A p \in Processes : SlotKnown(p), NoUnrecordedPatch,
           NEW q \in Processes, Start(q) \/ Step(q) \/ Stop(q)
    PROVE  NoUnrecordedPatch'
<1>0. CommandFacts(q)
  BY CommandTyped
<1> USE <1>0 DEF CommandFacts
<1> DEFINE Recorded(c) == \E e \in state.entries : e.component = c /\ e.patchedToTag = Slot(c)
           OnItsWay(p, c) == /\ cli[p].pc \in UpdatePCs /\ cli[p].c = c
                             /\ ~cli[p].reconciles /\ cli[p].target = Slot(c)
<1> SUFFICES ASSUME NEW p \in Processes, NEW c \in Components, SoleWriter(p, c),
                    Slot(c)' # NoTag, c \notin lost'
             PROVE  Recorded(c)' \/ OnItsWay(p, c)'
  BY DEF NoUnrecordedPatch, SoleWriter
<1>1. \A r \in Processes \ {q} : cli'[r] = cli[r]
  BY OthersUndisturbed
<1>2. CASE Slot(c)' # Slot(c)
  <2>1. q = p /\ cli[p].c = c /\ ApplyPatch(p) /\ Slot(c)' = cli[p].target
    BY <1>2, SoleWriterWrites
  <2>2. CanApply(ChartOf[c], cli[p].cur)
    BY <1>2, <2>1 DEF ApplyPatch, Slot
  <2>3. Continue(p, "load") /\ cli[p].pc = "apply"
    BY <2>1, <2>2 DEF ApplyPatch
  <2>4. ~cli[p].reconciles
    BY <2>3 DEF Consistent, WorkKnown, PatchPCs
  <2>5. cli'[p].pc = "load" /\ cli'[p].c = c /\ ~cli'[p].reconciles
        /\ cli'[p].target = cli[p].target
    BY <2>1, <2>3, <2>4 DEF Continue, Set, TypeOK, Command
  <2> QED
    BY <2>1, <2>5 DEF UpdatePCs
<1>3. CASE Slot(c)' = Slot(c)
  <2>1. Slot(c) # NoTag
    BY <1>3
  <2>2. c \in lost \/ Recorded(c) \/ OnItsWay(p, c)
    BY <2>1 DEF NoUnrecordedPatch
  <2>3. cli[q].pc # "idle" /\ cli[q].c = c => q = p
    BY DEF SoleWriter, Consistent, WorkKnown
  <2>4. ASSUME q = p, cli[p].c = c, ~cli[p].reconciles, cli[p].pc \in UpdatePCs,
               \E e \in state'.entries :
                  e.component = cli[p].c /\ e.patchedToTag = cli[p].target
        PROVE  Recorded(c)'
    <3>1. Slot(c) = cli[p].target
      BY <2>1, <2>4 DEF SlotKnown
    <3> QED
      BY <1>3, <2>4, <3>1
  <2>5. CASE c \in lost
    <3>1. lost' # lost
      BY <2>5
    <3>2. \/ LoadState(q) /\ NothingToDo(state.entries, cli[q])
          \/ Save(q) /\ CanSave(cli[q].loaded)
      <4>1. ~(Save(q) /\ ~CanSave(cli[q].loaded)) /\ ~Stop(q)
        BY <2>5 DEF Save, Stop, Unrecorded
      <4>2. ~Start(q)
        BY <3>1 DEF Start, StartPatch, StartReconcile, Begin
      <4> QED
        BY <3>1, <4>1, <4>2
        DEF Step, RefuseInControllerMode, NoRunningImage, ChooseTarget, CheckPatchWindow,
            ReadConfig, ReadVersion, CheckState, ApplyPatch, ReadCurrentVersion, ReadEntries,
            GetConfig, StripConfig, AllReverted, LoadState
    <3>3. ~cli[q].reconciles /\ cli[q].c = c /\ cli[q].pc \in UpdatePCs /\ cli[q].pc # "idle"
      BY <2>5, <3>2 DEF LoadState, Save, UpdatePCs
    <3> QED
      BY <2>3, <2>4, <3>2, <3>3, RecordEnds
  <2>6. CASE Recorded(c)
    <3>1. PICK e \in state.entries : e.component = c /\ e.patchedToTag = Slot(c)
      BY <2>6
    <3>2. CASE e \in state'.entries
      BY <1>3, <3>1, <3>2
    <3>3. CASE e \notin state'.entries
      <4>1. Save(q) /\ CanSave(cli[q].loaded)
        <5>1. ~UNCHANGED state
          BY <3>3
        <5>2. Save(q)
          BY <5>1, ReadsKnow, StartStopKnow DEF Step, ApplyPatch, StripConfig
        <5> QED
          BY <5>1, <5>2 DEF Save
      <4>2. cli[q].c = c /\ cli[q].pc # "idle" /\ cli[q].pc \in UpdatePCs
        BY <3>1, <3>3, <4>1, CommandEffects DEF Save, UpdatePCs
      <4>3. q = p
        BY <2>3, <4>2
      <4>4. CASE cli[p].reconciles
        <5>1. state'.entries = Mutated(state.entries, cli[p])
          BY <3>3, <4>1, <4>3, SaveWrites
        <5>2. cli[p].done # {}
          BY <3>3, <4>4, <5>1 DEF Mutated
        <5> QED
          BY <2>1, <4>2, <4>3, <4>4, <5>2 DEF SlotKnown
      <4>5. CASE ~cli[p].reconciles
        BY <2>4, <4>1, <4>2, <4>3, <4>5, RecordEnds
      <4> QED
        BY <4>4, <4>5
    <3> QED
      BY <3>2, <3>3
  <2>7. CASE OnItsWay(p, c)
    <3>1. CASE q # p
      BY <1>1, <1>3, <2>7, <3>1
    <3>2. CASE q = p
      <4>1. cli[p].pc \in {"load", "save"} /\ cli[p].c = c /\ ~cli[p].reconciles
            /\ cli[p].target = Slot(c)
        BY <2>7 DEF UpdatePCs
      <4>2. LoadState(p) \/ Save(p) \/ Stop(p)
        BY <3>2, <4>1 DEF Start, StartPatch, StartReconcile, Begin, Step,
            RefuseInControllerMode, NoRunningImage, ChooseTarget, CheckPatchWindow,
            ReadConfig, ReadVersion, CheckState, ApplyPatch, ReadCurrentVersion, ReadEntries,
            GetConfig, StripConfig, AllReverted
      <4>3. ASSUME Unrecorded(p) PROVE FALSE
        BY <4>1, <4>3 DEF Unrecorded, UpdatePCs
      <4>4. CASE \/ LoadState(p) /\ NothingToDo(state.entries, cli[p])
                 \/ Save(p) /\ CanSave(cli[p].loaded)
        BY <2>4, <3>2, <4>1, <4>4, RecordEnds DEF UpdatePCs
      <4>5. CASE LoadState(p) /\ ~NothingToDo(state.entries, cli[p])
        <5>1. PICK write, loaded :
                 Set(p, [cli[p] EXCEPT !.pc = "save", !.loaded = loaded, !.write = write])
          BY <4>5 DEF LoadState
        <5>2. /\ cli'[p].pc = "save" /\ cli'[p].c = c /\ ~cli'[p].reconciles
              /\ cli'[p].target = cli[p].target
          BY <4>1, <5>1 DEF Set, TypeOK, Command
        <5> QED
          BY <1>3, <4>1, <5>2 DEF UpdatePCs
      <4>6. CASE Save(p) /\ ~CanSave(cli[p].loaded)
        <5>1. Set(p, [cli[p] EXCEPT !.pc = "load", !.attempt = cli[p].attempt + 1])
          BY <4>3, <4>6 DEF Save, Command
        <5>2. /\ cli'[p].pc = "load" /\ cli'[p].c = c /\ ~cli'[p].reconciles
              /\ cli'[p].target = cli[p].target
          BY <4>1, <5>1 DEF Set, TypeOK, Command
        <5> QED
          BY <1>3, <4>1, <5>2 DEF UpdatePCs
      <4> QED
        BY <4>2, <4>3, <4>4, <4>5, <4>6 DEF Stop
    <3> QED
      BY <3>1, <3>2
  <2> QED
    BY <2>2, <2>5, <2>6, <2>7
<1> QED
  BY <1>2, <1>3


\* A patched value in the cluster whose slot has one writer has its entry in
\* the state, or the command that wrote it is on its way there, or it failed
\* between its two writes (lost): neither other commands nor conflicts, upgrades
\* and deleted objects take the entry away before the patch.  The hypothesis is
\* that nobody sets the image values by hand (runImagePatch, clistate.Update).
THEOREM PatchesAreRecorded == Spec /\ NotByHand => []NoUnrecordedPatch
<1> DEFINE SlotsKnown == \A p \in Processes : SlotKnown(p)
           ByHand == \E c \in Components, t \in Requested : OverrideImage(c, t)
<1>1. Init => SlotsKnown /\ NoUnrecordedPatch
  <2> SUFFICES ASSUME Init PROVE SlotsKnown /\ NoUnrecordedPatch
    OBVIOUS
  <2>1. \A c \in Components : Slot(c) = NoTag
    BY ComponentsAssumption DEF Init, ClusterInit, Slot, NoConfig
  <2>2. ASSUME NEW p \in Processes PROVE SlotKnown(p)
    <3>1. cli[p] = NoCommand
      BY DEF Init
    <3>2. NoCommand.pc = "idle" /\ NoCommand.done = {}
      BY DEF NoCommand
    <3> QED
      BY <3>1, <3>2 DEF SlotKnown, UpdatePCs
  <2> QED
    BY <2>1, <2>2 DEF NoUnrecordedPatch
<1> HIDE DEF SlotsKnown, ByHand
<1>2. TypeOK /\ Consistent /\ SlotsKnown /\ NoUnrecordedPatch /\ [Next]_vars /\ [~ByHand]_vars
        => (SlotsKnown /\ NoUnrecordedPatch)'
  <2> SUFFICES ASSUME TypeOK, Consistent, SlotsKnown, NoUnrecordedPatch,
                      [Next]_vars, [~ByHand]_vars
               PROVE  (SlotsKnown /\ NoUnrecordedPatch)'
    OBVIOUS
  <2>1. ASSUME NEW q \in Processes, Start(q) \/ Step(q) \/ Stop(q)
        PROVE  (SlotsKnown /\ NoUnrecordedPatch)'
    <3>1. \A p \in Processes : SlotKnown(p)
      BY DEF SlotsKnown
    <3>2. \A p \in Processes : SlotKnown(p)'
      BY <2>1, <3>1, OwnSlotKnown, OtherSlotsKnown
    <3>3. NoUnrecordedPatch'
      BY <2>1, <3>1, CommandsRecord
    <3> QED
      BY <3>2, <3>3 DEF SlotsKnown
  <2>2. ASSUME UNCHANGED <<state, cli, lost>>,
               \A c \in Components : Slot(c)' \in {Slot(c), NoTag}
        PROVE  (SlotsKnown /\ NoUnrecordedPatch)'
    <3>1. \A p \in Processes : hcc'[ChartOf[cli[p].c]].values[KeyOf[cli[p].c]]
                                  \in {Slot(cli[p].c), NoTag}
      BY <2>2, CommandTyped DEF CommandFacts, Slot
    <3>2. SlotsKnown'
      BY <2>2, <3>1 DEF SlotsKnown, SlotKnown, Slot, SoleWriter
    <3>3. NoUnrecordedPatch'
      BY <2>2 DEF NoUnrecordedPatch, SoleWriter
    <3> QED
      BY <3>2, <3>3
  <2>3. CASE EnvironmentStep /\ ~ByHand
    BY <2>2, <2>3, EnvironmentEffects, EnvironmentSpares DEF ByHand
  <2>4. CASE UNCHANGED vars
    BY <2>2, <2>4 DEF vars, clusterVars, cliVars, Slot
  <2> QED
    BY <2>1, <2>3, <2>4 DEF Next, CLIStep
<1>3. [\A c \in Components, t \in Requested : ~OverrideImage(c, t)]_vars => [~ByHand]_vars
  BY DEF ByHand
<1> QED
  BY <1>1, <1>2, <1>3, TypeCorrect, CommandsAreConsistent, PTL DEF Spec, NotByHand

=============================================================================
