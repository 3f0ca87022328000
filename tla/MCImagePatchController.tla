----------------------- MODULE MCImagePatchController -----------------------
(***************************************************************************)
(* Small instances of the ImagePatch controller for TLC.  Two components   *)
(* share a chart, as rke2-canal-calico and rke2-canal-flannel do; release  *)
(* 2 bundles a newer tag than release 1, and spec.tag t3 stays valid on it.*)
(***************************************************************************)
EXTENDS ImagePatchController, TLC

CONSTANTS calico, flannel, canal, calicoImage, flannelImage, None

Tag(build) == [parses |-> TRUE, build |-> build, major |-> 1, minor |-> 0,
               patch |-> 0, flavor |-> 0]
t1 == Tag(20260101)
t2 == Tag(20260105)
t3 == Tag(20260110)
t4 == Tag(20260115)

MCTags == {t1, t2, t3, t4}
MCBundled == <<[c \in Components |-> t1], [c \in Components |-> t2]>>
MCZeroDay == <<20260101, 20260105>>
MCPublished == [c \in Components |-> {t1, t2, t3, t4}]

OneComponent == {calico}
TwoComponents == {calico, flannel}
MCKeyOf == [c \in Components |-> IF c = calico THEN calicoImage ELSE flannelImage]
MCChartOf == [c \in Components |-> canal]

\* Moves of the environment, by run: how often each may happen.
OneTag == {t3}
BaseAndPatch == {t1, t3}
TwoTags == {t3, t4}
NoMoves == [m \in Moves |-> 0]
AutoRevertMoves == {"create" :> 1 @@ "version" :> 1 @@ NoMoves}
BaselineMoves == {"create" :> 1 @@ "edit" :> 1 @@ "rollout" :> 1 @@ NoMoves}
DeletionMoves == "create" :> 2 @@ "delete" :> 1 @@ "crash" :> 1 @@ "values" :> 1
                 @@ "cli" :> 1 @@ NoMoves
UpgradeMoves == "create" :> 1 @@ "unmark" :> 1 @@ "version" :> 1 @@ "bundle" :> 1
                @@ "delete" :> 1 @@ NoMoves
OverrideMoves == "create" :> 1 @@ "edit" :> 1 @@ "override" :> 1 @@ "version" :> 1
                 @@ "bundle" :> 1 @@ NoMoves
TroubleMoves == "create" :> 1 @@ "edit" :> 1 @@ "delete" :> 1 @@ "fault" :> 1
                @@ "crash" :> 1 @@ NoMoves
RolloutMoves == "create" :> 1 @@ "edit" :> 1 @@ "delete" :> 1 @@ "crash" :> 1
                @@ "rollout" :> 2 @@ NoMoves
OneComponentMoves == {DeletionMoves, UpgradeMoves, OverrideMoves, TroubleMoves, RolloutMoves}
TwoOverrideMoves == "create" :> 2 @@ "override" :> 1 @@ NoMoves
TwoUpgradeMoves == "create" :> 2 @@ "version" :> 1 @@ "delete" :> 1 @@ NoMoves
TwoComponentsMoves == {TwoOverrideMoves, TwoUpgradeMoves}
=============================================================================
