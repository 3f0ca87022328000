--------------------------- MODULE MCPatcherSystem ---------------------------
(***************************************************************************)
(* One operator runs the CLI on the component that gets an ImagePatch.     *)
(***************************************************************************)
EXTENDS PatcherSystem, TLC

CONSTANTS calico, canal, calicoImage, None, alice

Tag(build) == [parses |-> TRUE, build |-> build, major |-> 1, minor |-> 0,
               patch |-> 0, flavor |-> 0]
t1 == Tag(20260101)
t2 == Tag(20260105)

MCTags == {t1, t2}
MCBundled == [r \in Releases |-> [c \in Components |-> t1]]
MCZeroDay == [r \in Releases |-> 20260101]
MCPublished == [c \in Components |-> MCTags]
OneTag == {t2}
MCKeyOf == [c \in Components |-> calicoImage]
MCChartOf == [c \in Components |-> canal]
MCWorksOn == [p \in Processes |-> Components]

NoMoves == [m \in Moves |-> 0]
\* What happens to the other mode while a command runs, by budget.
PatchThenReconcile == "cli" :> 2 @@ "create" :> 1
BothMoves == {PatchThenReconcile @@ "delete" :> 1 @@ NoMoves,
              PatchThenReconcile @@ "fault" :> 1 @@ "crash" :> 1 @@ NoMoves,
              PatchThenReconcile @@ "version" :> 1 @@ "bundle" :> 1 @@ NoMoves,
              PatchThenReconcile @@ "dropConfig" :> 1 @@ NoMoves}
SystemMoves == {"cli" :> 1 @@ "create" :> 1 @@ NoMoves}
=============================================================================
