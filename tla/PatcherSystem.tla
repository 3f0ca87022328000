---------------------------- MODULE PatcherSystem ----------------------------
(***************************************************************************)
(* Both modes on one cluster: the commands of the CLI, step by step, next  *)
(* to the ImagePatch controller.  They meet in the HelmChartConfig objects *)
(* and look at each other's traces before they write: the CLI at ImagePatch*)
(* objects, the controller at the state of the CLI.                        *)
(***************************************************************************)
EXTENDS ImagePatchController

CONSTANTS Processes, WorksOn, UpdateAttempts

ASSUME OperatorsAssumption ==
    /\ WorksOn \in [Processes -> SUBSET Components]
    /\ UpdateAttempts \in Nat \ {0}

\* raced: history, an image-patch that had looked for an ImagePatch, and had
\* not ended, met one.
VARIABLES cli, lost, raced

CLI == INSTANCE PatcherCLI

systemVars == <<vars, cli, lost, raced>>

SystemInit == Init /\ cli = [p \in Processes |-> CLI!NoCommand] /\ lost = {} /\ raced = FALSE

\* The writes of the CLI wake the controller like anybody else's.
CommandStep == CLI!CLIStep /\ queue' = queue \cup Woken /\ UNCHANGED <<cache, rec>>

WorldStep == (UserStep \/ PlatformStep) /\ queue' = queue \cup Woken /\ UNCHANGED <<cache, rec>>

Racing ==
    /\ \E c \in Components : ip[c].exists
    /\ \E p \in Processes : cli[p].pc \notin {"idle", "refuse"} /\ ~cli[p].reconciles

SystemNext ==
    /\ \/ (ControllerStep \/ WorldStep \/ UpgradeStep) /\ UNCHANGED <<cli, lost>>
       \/ CommandStep
    /\ raced' = (raced \/ Racing')

SystemSpec == SystemInit /\ [][SystemNext]_systemVars

\* The controller goes on as it does by itself; commands may be left waiting.
SystemFairSpec == SystemSpec /\ Fairness

---------------------------------------------------------------------------

PatchesOfBoth ==
    state.entries # {} /\ \E c \in Components : Managed(hcc[ChartOf[c]], c)

\* README.md:344-347: "The two modes are exclusive": image-patch refuses while
\* an ImagePatch exists, and while the state holds patches of the CLI no
\* ImagePatch is applied.  There are never patches of both.
ModesExclusive == ~PatchesOfBoth

\* What the code does keep: the modes are exclusive unless an ImagePatch is
\* there while an image-patch that has looked for one is under way
\* (refuseInControllerMode, reconcilePatch).  Nothing else mixes them: no
\* reconcile, deletion, upgrade or failure at any point of the other mode.
OnlyRacesMixModes == PatchesOfBoth => raced

\* Without such a race a command never writes the values of a component that
\* the controller manages: image-reconcile, which does not look for ImagePatch
\* objects and "only reverts patches made with the CLI" (README.md:346), comes
\* too late or too early for that, where a component has one operator
\* (runReconcile, RevertEntryWith).
CommandsSpareManaged ==
    [][\A p \in Processes :
          LET c == cli[p].c
              ch == ChartOf[c]
          IN  cli'[p] # cli[p] /\ hcc'[ch].values[KeyOf[c]] # hcc[ch].values[KeyOf[c]]
                  /\ Managed(hcc[ch], c)
              => raced \/ \E q \in Processes \ {p} : c \in WorksOn[q]]_systemVars

---------------------------------------------------------------------------
(* Why these hold: what each mode knows of the other.                      *)

SystemTypeOK == TypeOK /\ CLI!TypeOK /\ raced \in BOOLEAN

\* Two modes that meet have raced.
RacesAreNoted == Racing => raced

\* A reconcile that has found no patches of the CLI may apply one until it
\* ends; it has an ImagePatch, so that no image-patch comes in between.
Admitted == {"version", "chart", "config", "clearMarker", "images", "validate", "apply"}
AdmissionHolds == rec.pc \in Admitted /\ ~raced => state.entries = {}

\* What each mode relies on by itself, next to the other.
SystemConsistent == Consistent /\ CLI!Consistent /\ RacesAreNoted /\ AdmissionHolds
=============================================================================
