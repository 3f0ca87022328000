----------------------------- MODULE ValuesTree -----------------------------
(***************************************************************************)
(* The chart values of one HelmChartConfig as the patcher holds them: the  *)
(* nested maps yaml.Unmarshal returns, merged, stripped and compared by    *)
(* recursion (internal/patcher).  It implements Values: every write is to   *)
(* the tree, and doc shows its leaves.                                     *)
(*                                                                         *)
(* A path is a sequence of keys; a node is a scalar or a map of nodes.     *)
(***************************************************************************)
EXTENDS Values, Sequences, FiniteSetsExt

VARIABLE tree   \* the document

treeVars == <<tree, vars>>

Scalar(v) == [kind |-> "scalar", value |-> v]
Map(f) == [kind |-> "map", keys |-> f]
IsMap(node) == node.kind = "map"
NoKeys == [k \in {} |-> Scalar(Empty)]

BothMaps(f, g, k) == k \in DOMAIN f /\ k \in DOMAIN g /\ IsMap(f[k]) /\ IsMap(g[k])

---------------------------------------------------------------------------
(* From one form to the other.                                             *)

RECURSIVE LeavesBelow(_, _)
LeavesBelow(prefix, node) ==
    IF ~IsMap(node) THEN {<<prefix, node.value>>}
    ELSE IF DOMAIN node.keys = {} THEN {<<prefix, Empty>>}
    ELSE UNION {LeavesBelow(Append(prefix, k), node.keys[k]) : k \in DOMAIN node.keys}

\* The document of a tree; of the empty map, none.
Leaves(node) ==
    LET pairs == LeavesBelow(Root, node) \ {<<Root, Empty>>}
    IN  [p \in {x[1] : x \in pairs} |-> (CHOOSE x \in pairs : x[1] = p)[2]]

\* The tree with a node at a path, in place of whatever is in its way.
RECURSIVE Put(_, _, _)
Put(f, path, node) ==
    LET k == Head(path)
        below == IF k \in DOMAIN f /\ IsMap(f[k]) THEN f[k].keys ELSE NoKeys
    IN  [j \in DOMAIN f \cup {k} |->
            IF j # k THEN f[j]
            ELSE IF Len(path) = 1 THEN node ELSE Map(Put(below, Tail(path), node))]

\* The tree without what is at a path, and without maps that are left empty.
RECURSIVE Cut(_, _)
Cut(f, path) ==
    LET k == Head(path)
        rest == IF Len(path) > 1 /\ k \in DOMAIN f /\ IsMap(f[k])
                THEN Cut(f[k].keys, Tail(path)) ELSE NoKeys
        gone == Len(path) = 1 \/ (k \in DOMAIN f /\ IsMap(f[k]) /\ f[k].keys # NoKeys /\ rest = NoKeys)
    IN  [j \in IF gone THEN DOMAIN f \ {k} ELSE DOMAIN f |->
            IF j = k /\ Len(path) > 1 /\ IsMap(f[k]) THEN Map(rest) ELSE f[j]]

---------------------------------------------------------------------------
(* internal/patcher.                                                       *)

\* Mutant: the first key of a path is lost on the way.
RenderedFlat(c, t) ==
    FoldSet(LAMBDA i, f : Put(Put(f, Tail(i.repository), Scalar(Repository[c])), i.tag, Scalar(t)),
            NoKeys, Images[c])

\* renderValuesContent, parsed.
Rendered(c, t) ==
    FoldSet(LAMBDA i, f : Put(Put(f, i.repository, Scalar(Repository[c])), i.tag, Scalar(t)),
            NoKeys, Images[c])

\* Mutant: maps are replaced, not merged.
MergeShallow(f, g) ==
    [k \in DOMAIN f \cup DOMAIN g |-> IF k \in DOMAIN g THEN g[k] ELSE f[k]]

\* mergo.Merge with override: maps are merged, anything else is replaced.
RECURSIVE mergeMapsWithOverride(_, _)
mergeMapsWithOverride(f, g) ==
    [k \in DOMAIN f \cup DOMAIN g |->
        IF BothMaps(f, g, k) THEN Map(mergeMapsWithOverride(f[k].keys, g[k].keys))
        ELSE IF k \in DOMAIN g THEN g[k] ELSE f[k]]

\* A document that is no map gives way to the generated one.
mergeValuesContent(node, g) ==
    Map(mergeMapsWithOverride(IF IsMap(node) THEN node.keys ELSE NoKeys, g))

\* Mutant: a map that is left empty stays.
RECURSIVE SubtractKeepsMaps(_, _)
SubtractKeepsMaps(f, g) ==
    [k \in {j \in DOMAIN f : j \notin DOMAIN g \/ BothMaps(f, g, j)} |->
        IF k \in DOMAIN g THEN Map(SubtractKeepsMaps(f[k].keys, g[k].keys)) ELSE f[k]]

\* Mutant: a map goes as a whole.
SubtractWholeMaps(f, g) == [k \in DOMAIN f \ DOMAIN g |-> f[k]]

\* Maps are stripped and go when nothing is left; anything else goes.
RECURSIVE deepSubtractMap(_, _)
deepSubtractMap(f, g) ==
    LET stripped == [k \in {j \in DOMAIN g : BothMaps(f, g, j)} |->
                        deepSubtractMap(f[k].keys, g[k].keys)]
        stays(k) == k \notin DOMAIN g \/ (k \in DOMAIN stripped /\ stripped[k] # NoKeys)
    IN  [k \in {j \in DOMAIN f : stays(j)} |->
            IF k \in DOMAIN stripped THEN Map(stripped[k]) ELSE f[k]]

\* Mutant: a scalar where the patcher needs a map is no conflict.
RECURSIVE ConflictsAtLeavesOnly(_, _)
ConflictsAtLeavesOnly(f, g) ==
    \E k \in DOMAIN f \cap DOMAIN g :
        IF IsMap(g[k]) THEN IsMap(f[k]) /\ ConflictsAtLeavesOnly(f[k].keys, g[k].keys)
        ELSE f[k] # g[k]

\* compareLeaves: whether it lists a conflict.
RECURSIVE conflicts(_, _)
conflicts(f, g) ==
    \E k \in DOMAIN f \cap DOMAIN g :
        IF IsMap(g[k]) THEN ~IsMap(f[k]) \/ conflicts(f[k].keys, g[k].keys)
        ELSE f[k] # g[k]

\* compareLeaves: whether every generated leaf is there.
RECURSIVE allPresent(_, _)
allPresent(f, g) ==
    \A k \in DOMAIN g :
        IF IsMap(g[k]) THEN BothMaps(f, g, k) /\ allPresent(f[k].keys, g[k].keys)
        ELSE k \in DOMAIN f /\ f[k] = g[k]

\* lookupString; nothing but a scalar is a tag or a repository.
RECURSIVE lookup(_, _)
lookup(f, path) ==
    IF Head(path) \notin DOMAIN f THEN Empty
    ELSE LET node == f[Head(path)]
         IN  IF Len(path) = 1 THEN (IF IsMap(node) THEN Empty ELSE node.value)
             ELSE IF IsMap(node) THEN lookup(node.keys, Tail(path)) ELSE Empty

\* The default values of the chart, as a tree.
ChartValues ==
    FoldSet(LAMBDA p, f : Put(f, p, Scalar(Defaults[p])), NoKeys, DOMAIN Defaults)

\* Mutant: the repository next to the tag is not looked at.
BundledAnyImage(c) ==
    \E t \in Tags : \A i \in Images[c] : lookup(ChartValues, i.tag) = t

\* Whether there is one bundled tag at every place, next to this repository.
BundledImageTag(c) ==
    \E t \in Tags : \A i \in Images[c] :
        /\ lookup(ChartValues, i.tag) = t
        /\ lookup(ChartValues, i.repository) = Repository[c]

---------------------------------------------------------------------------

Write(node) == tree' = node /\ doc' = Leaves(node)

TreeInit == Init /\ tree = Map(NoKeys)

TreeUserSets(p, v) ==
    /\ ~(p = Root /\ v = Empty)
    /\ UserEdit(p)
    /\ LET node == IF v = Empty THEN Map(NoKeys) ELSE Scalar(v)
       IN  Write(IF p = Root THEN node
                 ELSE Map(Put(IF IsMap(tree) THEN tree.keys ELSE NoKeys, p, node)))
    /\ base' = Overlay(base, Leaf(p, v))

TreeUserRemoves(p) ==
    /\ UserEdit(p)
    /\ Write(IF p = Root THEN Map(NoKeys)
             ELSE IF IsMap(tree) THEN Map(Cut(tree.keys, p)) ELSE tree)
    /\ base' = Without(base, AtOrBelow(p))

TreePatchCLI(c, t) ==
    /\ mode = "cli"
    /\ Write(mergeValuesContent(tree, Rendered(c, t)))
    /\ owned' = owned \cup {c}
    /\ UNCHANGED <<mode, edits, base, crossed>>

TreeApply(c, t) ==
    /\ mode = "controller"
    /\ BundledImageTag(c)
    /\ IsMap(tree)
    /\ ~(c \in owned /\ allPresent(tree.keys, Rendered(c, t)))
    /\ c \in owned \/ ~conflicts(tree.keys, Rendered(c, t))
    /\ Write(mergeValuesContent(tree, Rendered(c, t)))
    /\ owned' = owned \cup {c}
    /\ UNCHANGED <<mode, edits, base, crossed>>

\* The keys depend on the component only; any tag renders them.
TreeRevert(c) ==
    /\ c \in owned
    /\ IsMap(tree)
    /\ Write(Map(deepSubtractMap(tree.keys, Rendered(c, Empty))))
    /\ owned' = owned \ {c}
    /\ UNCHANGED <<mode, edits, base, crossed>>

TreeNext ==
    \/ \E p \in UserPaths : TreeUserRemoves(p) \/ \E v \in UserValues : TreeUserSets(p, v)
    \/ \E c \in Components :
          TreeRevert(c) \/ \E t \in Tags : TreePatchCLI(c, t) \/ TreeApply(c, t)

TreeSpec == TreeInit /\ [][TreeNext]_treeVars

---------------------------------------------------------------------------
(* Properties.                                                             *)

\* The recursion over nested maps does to the leaves what Values says: nothing
\* else is lost, moved or left behind, and no check overlooks anything
\* (mergeMapsWithOverride, deepSubtractMap, compareLeaves, BundledImageTag).
ImplementsValues == Spec
=============================================================================
