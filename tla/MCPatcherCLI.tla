---------------------------- MODULE MCPatcherCLI ----------------------------
(***************************************************************************)
(* Two operators.  Alice patches both components of the canal chart, Bob   *)
(* patches flannel as well, and RKE2 is upgraded in between.               *)
(***************************************************************************)
EXTENDS PatcherCLI, TLC

CONSTANTS calico, flannel, canal, calicoImage, flannelImage, None, alice, bob

Tag(build) == [parses |-> TRUE, build |-> build, major |-> 1, minor |-> 0,
               patch |-> 0, flavor |-> 0]
t1 == Tag(20260101)
t2 == Tag(20260105)
t3 == Tag(20260110)

MCTags == {t1, t2, t3}
MCBundled == <<[c \in Components |-> t1], [c \in Components |-> t2]>>
MCZeroDay == <<20260101, 20260105>>
MCPublished == [c \in Components |-> MCTags]
OneTag == {t3}

OneComponent == {calico}
TwoComponents == {calico, flannel}
MCKeyOf == [c \in Components |-> IF c = calico THEN calicoImage ELSE flannelImage]
MCChartOf == [c \in Components |-> canal]
BothWork == [p \in Processes |-> IF p = alice THEN {calico, flannel} ELSE {flannel}]
AliceWorks == [p \in Processes |-> {calico}]

\* Moves of the environment, by run: how often each may happen.
NoMoves == [m \in Moves |-> 0]
CLIMoves == {"cli" :> 3 @@ "version" :> 1 @@ "rollout" :> 1 @@ "fault" :> 1
             @@ "dropConfig" :> 1 @@ NoMoves}
StaleMoves == {"cli" :> 2 @@ "version" :> 1 @@ "dropConfig" :> 1 @@ NoMoves}
=============================================================================
