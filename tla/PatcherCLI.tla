----------------------------- MODULE PatcherCLI -----------------------------
(***************************************************************************)
(* The commands image-patch and image-reconcile (internal/cmd) with the    *)
(* state they share (internal/clistate).  Several operators may run them   *)
(* at the same time.  Every call to the API server or the registry is a    *)
(* step of its own: a command decides on what it has read before.          *)
(***************************************************************************)
EXTENDS Cluster

CONSTANTS
    Processes,      \* who runs commands
    WorksOn,        \* the components each of them patches
    UpdateAttempts  \* clistate.updateAttempts

ASSUME ProcessesAssumption ==
    /\ WorksOn \in [Processes -> SUBSET Components]
    /\ UpdateAttempts \in Nat \ {0}

VARIABLES
    cli,   \* the command each process is running
    lost   \* history: components whose patch was written but not recorded

cliVars == <<cli, lost>>
vars == <<clusterVars, cliVars>>

PatchPCs == {"refuse", "images", "window", "config", "version", "state", "apply"}
ReconcilePCs == {"currentVersion", "entries", "get", "strip"}
UpdatePCs == {"load", "save"}

\* How a command ended: an error, or none; "" before the first command.
Outs == {"", "error", "ok"}

\* requested: --tag, or NoTag; current, target: the running tag read and the
\* tag chosen; on: the cluster version read; cur: the HelmChartConfig read;
\* write: the entry to record; todo, done: the entries to revert and those
\* reverted; loaded: the state read by Update.
Command == [pc : {"idle"} \cup PatchPCs \cup ReconcilePCs \cup UpdatePCs,
            c : Components, requested : OptTag, current : Tags, target : Tags,
            on : Releases, cur : HelmChartConfig, reconciles : BOOLEAN, write : Entry,
            todo : SUBSET Entry, done : SUBSET Entry, loaded : State,
            attempt : 1..UpdateAttempts, out : Outs]

AnyEntry == [component |-> CHOOSE c \in Components : TRUE, clusterVersion |-> 1,
             baselineTag |-> AnyTag, patchedToTag |-> AnyTag]

NoCommand == [pc |-> "idle", c |-> CHOOSE c \in Components : TRUE, requested |-> NoTag,
              current |-> AnyTag, target |-> AnyTag, on |-> 1, cur |-> NoConfig,
              reconciles |-> FALSE, write |-> AnyEntry, todo |-> {}, done |-> {},
              loaded |-> [rv |-> 0, entries |-> {}], attempt |-> 1, out |-> ""]

Init ==
    /\ ClusterInit
    /\ cli = [p \in Processes |-> NoCommand]
    /\ lost = {}

Set(p, command) == cli' = [cli EXCEPT ![p] = command]
Continue(p, pc) == Set(p, [cli[p] EXCEPT !.pc = pc])
Exit(p, out) == Set(p, [NoCommand EXCEPT !.out = out])

SameKey(e, f) == e.component = f.component /\ e.clusterVersion = f.clusterVersion

\* The entry that is written: with the baseline tag that is already there.
Persisted(entries, e) ==
    LET existing == {f \in entries : SameKey(e, f)}
    IN  IF existing = {} THEN e
        ELSE [e EXCEPT !.baselineTag = (CHOOSE f \in existing : TRUE).baselineTag]

\* requirePrimeCluster comes first, whatever the command.
Begin(p, command) ==
    /\ cli[p].pc = "idle" /\ command.c \in WorksOn[p]
    /\ Spend("cli")
    /\ IF ChartOf[command.c] \in Prime THEN Set(p, command) ELSE Exit(p, "error")
    /\ UNCHANGED <<ip, hcc, state, release, bundle, running, lost>>

---------------------------------------------------------------------------
(* runImagePatch.                                                          *)

StartPatch(p, c, requested) ==
    Begin(p, [NoCommand EXCEPT !.pc = "refuse", !.c = c, !.requested = requested])

\* refuseInControllerMode: not while any ImagePatch exists.
RefuseInControllerMode(p) ==
    /\ cli[p].pc = "refuse"
    /\ IF \E c \in Components : ip[c].exists THEN Exit(p, "error") ELSE Continue(p, "images")
    /\ UNCHANGED <<clusterVars, lost>>

\* The first image listed counts as the running one, and there has to be one;
\* the target is chosen among the published tags, if there is one to choose.
NoRunningImage(p) ==
    /\ cli[p].pc = "images" /\ running[cli[p].c] = {}
    /\ Exit(p, "error")
    /\ UNCHANGED <<clusterVars, lost>>

ChooseTarget(p) ==
    /\ cli[p].pc = "images"
    /\ \E current \in running[cli[p].c] :
          LET published == Published[cli[p].c]
              targets == IF cli[p].requested = NoTag
                         THEN DefaultTargets(published, current)
                         ELSE ExplicitTargets(published, current, cli[p].requested)
          IN IF targets = {} THEN Exit(p, "error")
             ELSE \E t \in targets :
                    Set(p, [cli[p] EXCEPT !.pc = "window", !.current = current, !.target = t])
    /\ UNCHANGED <<clusterVars, lost>>

CheckPatchWindow(p) ==
    /\ cli[p].pc = "window"
    /\ IF ValidatePatchWindow(cli[p].c \in Exempt, cli[p].target, ZeroDay[release]) = "ok"
       THEN Continue(p, "config") ELSE Exit(p, "error")
    /\ UNCHANGED <<clusterVars, lost>>

\* A dry run ends here, and so does a merge the user does not approve.
ReadConfig(p) ==
    /\ cli[p].pc = "config"
    /\ \/ Set(p, [cli[p] EXCEPT !.pc = "version", !.cur = hcc[ChartOf[cli[p].c]]])
       \/ Exit(p, "ok")
    /\ UNCHANGED <<clusterVars, lost>>

ReadVersion(p) ==
    /\ cli[p].pc = "version"
    /\ Set(p, [cli[p] EXCEPT !.pc = "state", !.on = release])
    /\ UNCHANGED <<clusterVars, lost>>

\* generateStateWrite: refused while an entry of another version is there; an
\* entry of this version keeps its first baseline tag.
CheckState(p) ==
    /\ cli[p].pc = "state"
    /\ LET new == [component |-> cli[p].c, clusterVersion |-> cli[p].on,
                   baselineTag |-> cli[p].current, patchedToTag |-> cli[p].target]
       IN IF \E e \in state.entries : e.clusterVersion # cli[p].on THEN Exit(p, "error")
          ELSE Set(p, [cli[p] EXCEPT !.pc = "apply", !.write = Persisted(state.entries, new)])
    /\ UNCHANGED <<clusterVars, lost>>

\* An update that changes nothing keeps the resource version.
WriteConfig(ch, content) ==
    IF content = hcc[ch] THEN UNCHANGED hcc ELSE ApplyHelmChartConfig(ch, content)

\* A lost race is an error here: nothing has been written.
ApplyPatch(p) ==
    /\ cli[p].pc = "apply"
    /\ IF CanApply(ChartOf[cli[p].c], cli[p].cur)
       THEN /\ WriteConfig(ChartOf[cli[p].c],
                           MergeGenerated(cli[p].cur, cli[p].c, cli[p].target))
            /\ Continue(p, "load")
       ELSE Exit(p, "error") /\ UNCHANGED hcc
    /\ UNCHANGED <<ip, state, release, bundle, running, budget, lost>>

---------------------------------------------------------------------------
(* runReconcile.                                                           *)

StartReconcile(p, c) ==
    Begin(p, [NoCommand EXCEPT !.pc = "currentVersion", !.c = c, !.reconciles = TRUE])

ReadCurrentVersion(p) ==
    /\ cli[p].pc = "currentVersion"
    /\ Set(p, [cli[p] EXCEPT !.pc = "entries", !.on = release])
    /\ UNCHANGED <<clusterVars, lost>>

StaleEntries(entries, c, on) == {e \in entries : e.component = c /\ e.clusterVersion # on}

\* Stale entries first; those of this version only if the user approves.
ReadEntries(p) ==
    /\ cli[p].pc = "entries"
    /\ LET own == {e \in state.entries : e.component = cli[p].c}
           stale == StaleEntries(state.entries, cli[p].c, cli[p].on)
       IN \/ own # {} /\ Set(p, [cli[p] EXCEPT !.pc = "get",
                                    !.todo = IF stale # {} THEN stale ELSE own])
          \/ stale = {} /\ Exit(p, "ok")
    /\ UNCHANGED <<clusterVars, lost>>

\* The entries are taken in no particular order.  One whose HelmChartConfig is
\* gone is skipped: it is not reverted, and will not be removed.
GetConfig(p) ==
    /\ cli[p].pc = "get" /\ cli[p].todo # {}
    /\ LET config == hcc[ChartOf[cli[p].c]]
       IN IF config.exists
          THEN Set(p, [cli[p] EXCEPT !.pc = "strip", !.cur = config])
          ELSE \E e \in cli[p].todo : Set(p, [cli[p] EXCEPT !.todo = @ \ {e}])
    /\ UNCHANGED <<clusterVars, lost>>

\* A lost race is an error: what was reverted before stays in the state.
StripConfig(p) ==
    /\ cli[p].pc = "strip"
    /\ IF CanApply(ChartOf[cli[p].c], cli[p].cur)
       THEN \E e \in cli[p].todo :
              /\ WriteConfig(ChartOf[cli[p].c], SubtractGenerated(cli[p].cur, cli[p].c))
              /\ Set(p, [cli[p] EXCEPT !.pc = "get", !.todo = @ \ {e}, !.done = @ \cup {e}])
       ELSE Exit(p, "error") /\ UNCHANGED hcc
    /\ UNCHANGED <<ip, state, release, bundle, running, budget, lost>>

AllReverted(p) ==
    /\ cli[p].pc = "get" /\ cli[p].todo = {}
    /\ IF cli[p].done = {} THEN Exit(p, "ok") ELSE Continue(p, "load")
    /\ UNCHANGED <<clusterVars, lost>>

---------------------------------------------------------------------------
(* clistate.Update, with Persist and RemoveEntries as what it applies.     *)

Mutated(entries, command) ==
    IF command.reconciles
    THEN {e \in entries : ~\E f \in command.done : SameKey(e, f)}
    ELSE {e \in entries : ~SameKey(e, command.write)}
            \cup {Persisted(entries, command.write)}

\* An entry that is there as it is to be written needs no save, nor do keys
\* that are all gone.
NothingToDo(entries, command) ==
    IF command.reconciles THEN Mutated(entries, command) = entries
                          ELSE command.write \in entries

LoadState(p) ==
    /\ cli[p].pc = "load"
    /\ IF NothingToDo(state.entries, cli[p])
       THEN /\ Exit(p, "ok")
            /\ lost' = IF cli[p].reconciles THEN lost ELSE lost \ {cli[p].c}
       ELSE /\ Set(p, [cli[p] EXCEPT !.pc = "save", !.loaded = state,
                                     !.write = Persisted(state.entries, @)])
            /\ UNCHANGED lost
    /\ UNCHANGED clusterVars

\* A patch that cannot be recorded stays in the HelmChartConfig all the same.
Unrecorded(p) ==
    lost' = IF cli[p].pc \in UpdatePCs /\ ~cli[p].reconciles
            THEN lost \cup {cli[p].c} ELSE lost

\* Mutant: a conflict is taken for a success.
SaveOnce(p) ==
    /\ cli[p].pc = "save"
    /\ IF CanSave(cli[p].loaded)
       THEN SaveState(Mutated(cli[p].loaded.entries, cli[p])) ELSE UNCHANGED state
    /\ Exit(p, "ok")
    /\ UNCHANGED <<ip, hcc, release, bundle, running, budget, lost>>

Save(p) ==
    /\ cli[p].pc = "save"
    /\ IF CanSave(cli[p].loaded)
       THEN /\ LET entries == Mutated(cli[p].loaded.entries, cli[p]) IN
               IF entries = state.entries THEN UNCHANGED state ELSE SaveState(entries)
            /\ Exit(p, "ok")
            /\ lost' = IF cli[p].reconciles THEN lost ELSE lost \ {cli[p].c}
       ELSE /\ UNCHANGED state
            /\ IF cli[p].attempt < UpdateAttempts
               THEN /\ Set(p, [cli[p] EXCEPT !.pc = "load", !.attempt = @ + 1])
                    /\ UNCHANGED lost
               ELSE Exit(p, "error") /\ Unrecorded(p)
    /\ UNCHANGED <<ip, hcc, release, bundle, running, budget>>

\* A call fails, or the command is interrupted.
Stop(p) ==
    /\ cli[p].pc # "idle"
    /\ Spend("fault")
    /\ Exit(p, "error") /\ Unrecorded(p)
    /\ UNCHANGED <<ip, hcc, state, release, bundle, running>>

---------------------------------------------------------------------------
(* The specification.                                                      *)

Step(p) ==
    \/ RefuseInControllerMode(p) \/ NoRunningImage(p) \/ ChooseTarget(p) \/ CheckPatchWindow(p)
    \/ ReadConfig(p) \/ ReadVersion(p) \/ CheckState(p) \/ ApplyPatch(p)
    \/ ReadCurrentVersion(p) \/ ReadEntries(p) \/ GetConfig(p) \/ StripConfig(p)
    \/ AllReverted(p) \/ LoadState(p) \/ Save(p)

Start(p) ==
    \/ \E c \in Components, t \in Requested \cup {NoTag} : StartPatch(p, c, t)
    \/ \E c \in Components : StartReconcile(p, c)

CLIStep == \E p \in Processes : Start(p) \/ Step(p) \/ Stop(p)

EnvironmentStep == (UserStep \/ PlatformStep \/ UpgradeVersion) /\ UNCHANGED cliVars

Next == CLIStep \/ EnvironmentStep

Spec == Init /\ [][Next]_vars

\* A command that runs goes on.
FairSpec == Spec /\ \A p \in Processes : WF_vars(Step(p))

---------------------------------------------------------------------------
(* Properties.                                                             *)

TypeOK ==
    /\ ClusterTypeOK
    /\ cli \in [Processes -> Command]
    /\ lost \subseteq Components

\* The image values of a component in the cluster: a tag, or nothing.
Slot(c) == hcc[ChartOf[c]].values[KeyOf[c]]

\* Nobody but p patches c, nor another component that is written to the slot
\* of c, as rke2-dns-node-cache is to that of rke2-coredns.
SoleWriter(p, c) ==
    \A q \in Processes : \A d \in WorksOn[q] :
        ChartOf[d] = ChartOf[c] /\ KeyOf[d] = KeyOf[c] => q = p /\ d = c

\* Where a slot has one writer and nobody edits the image values of the
\* component by hand, its patched value in the cluster has an entry in the
\* state, so that image-reconcile can revert it after an upgrade; unless the
\* command that wrote it is still on its way or failed between its two writes.
NoUnrecordedPatch ==
    \A p \in Processes, c \in Components :
        \/ ~SoleWriter(p, c)
        \/ Slot(c) = NoTag \/ c \in lost
        \/ \E e \in state.entries : e.component = c /\ e.patchedToTag = Slot(c)
        \/ /\ cli[p].pc \in UpdatePCs /\ cli[p].c = c
           /\ ~cli[p].reconciles /\ cli[p].target = Slot(c)

---------------------------------------------------------------------------
(* Why these hold: the inductive invariant behind them.                    *)

\* The key of an entry is that of the ConfigMap's data.
UniqueKeys == \A e, f \in state.entries : SameKey(e, f) => e = f

\* What a command works on, and what it is going to record or to remove.
WorkKnown(p) ==
    /\ cli[p].pc # "idle" => cli[p].c \in WorksOn[p]
    /\ cli[p].pc \in PatchPCs => ~cli[p].reconciles
    /\ cli[p].pc \in ReconcilePCs => cli[p].reconciles
    /\ \A e \in cli[p].todo \cup cli[p].done : e.component = cli[p].c
    /\ cli[p].pc \in {"apply"} \cup UpdatePCs /\ ~cli[p].reconciles =>
          cli[p].write.component = cli[p].c /\ cli[p].write.patchedToTag = cli[p].target

\* The copies a command writes from: of an older version, or the object.
CopiesKnown(p) ==
    /\ IF cli[p].cur.exists THEN CopyOf(cli[p].cur, hcc[ChartOf[cli[p].c]])
                            ELSE EmptyConfig(cli[p].cur)
    /\ cli[p].pc = "save" => CopyOf(cli[p].loaded, state)

\* The entries p is going to revert are there until it removes them, if nobody
\* else patches the component.
TodoKnown(p) ==
    cli[p].pc \in {"get", "strip"} /\ (\A q \in Processes \ {p} : cli[p].c \notin WorksOn[q])
        => cli[p].todo \subseteq state.entries

Consistent ==
    /\ \A ch \in Charts : ~hcc[ch].exists => EmptyConfig(hcc[ch])
    /\ UniqueKeys
    /\ \A p \in Processes : WorkKnown(p) /\ CopiesKnown(p) /\ TodoKnown(p)

\* While p records a patch or its removal, the slot it alone writes holds what
\* it has written there, or nothing.
SlotKnown(p) ==
    SoleWriter(p, cli[p].c) =>
        /\ cli[p].pc \in UpdatePCs /\ ~cli[p].reconciles =>
              Slot(cli[p].c) \in {NoTag, cli[p].target}
        /\ cli[p].reconciles /\ cli[p].done # {} => Slot(cli[p].c) = NoTag

\* Nobody sets the image values of a component by hand.
NotByHand == [][\A c \in Components, t \in Requested : ~OverrideImage(c, t)]_vars

\* A command changes nothing in a HelmChartConfig but the slot of its own
\* component: concurrent edits and patches of the other component of the
\* chart survive (ApplyHelmChartConfig on the version that was read).
OtherValuesKept ==
    [][\A p \in Processes, ch \in Charts : cli'[p] # cli[p] /\ hcc'[ch] # hcc[ch] =>
          /\ ch = ChartOf[cli[p].c]
          /\ hcc'[ch].managedOn = hcc[ch].managedOn /\ hcc'[ch].other = hcc[ch].other
          /\ \A k \in Keys \ {KeyOf[cli[p].c]} : hcc'[ch].values[k] = hcc[ch].values[k]]_vars

\* The ConfigMap is the atomic map StateStore promises: no update is lost, and
\* the first baseline tag of an entry stays (clistate.Update, Persist).
Store == INSTANCE StateStore WITH entries <- state.entries
StoreIsAtomic == Store!Spec

\* README.md:172: with stale state "run `rke2-patcher image-reconcile
\* <component>` for each previously patched component before patching again".
\* A reconcile that ends without an error leaves no stale entry it could see.
ReconcileClears ==
    [][\A p \in Processes : cli[p].pc = "get" /\ cli'[p].pc = "idle" /\ cli'[p].out = "ok"
          => StaleEntries(state.entries, cli[p].c, cli[p].on) = {}]_vars
=============================================================================
