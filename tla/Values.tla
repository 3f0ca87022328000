------------------------------- MODULE Values -------------------------------
(***************************************************************************)
(* What the patcher promises about the chart values of one HelmChartConfig *)
(* (internal/patcher): a document is the set of its leaves, each a path    *)
(* with a scalar.  The components patched through the chart own a few of   *)
(* these paths; everything else belongs to the user.                       *)
(***************************************************************************)
EXTENDS Integers, Functions

CONSTANTS
    Components,  \* components whose chart this is
    Paths,       \* places in the document; the root is one
    Root,
    Above,       \* the pairs <<p, q>> in which p is a proper prefix of q
    Scalars,     \* what may stand at a leaf
    Empty,       \* the map without keys, a leaf like the others
    Tags,
    Repository,  \* Component.Repository
    Images,      \* component -> the [repository, tag] paths it sets
    Defaults,    \* the default values of the chart
    UserPaths,   \* where users edit, and
    UserValues,  \* what they write
    MaxEdits     \* bound on their edits

ASSUME PathsAssumption ==
    /\ Root \in Paths
    /\ Above \subseteq Paths \X Paths
    /\ \A p \in Paths : <<p, p>> \notin Above
    /\ \A p, q, r \in Paths : <<p, q>> \in Above /\ <<q, r>> \in Above => <<p, r>> \in Above

ASSUME ValuesAssumption ==
    /\ Empty \in Scalars
    /\ Tags \subseteq Scalars \ {Empty}
    /\ Repository \in [Components -> Scalars \ (Tags \cup {Empty})]
    /\ \A c, d \in Components : Repository[c] = Repository[d] => c = d
    /\ Images \in [Components -> SUBSET [repository : Paths, tag : Paths]]
    /\ \A c, d \in Components : \A i \in Images[c], j \in Images[d] :
          /\ i.tag = j.tag => i.repository = j.repository
          /\ i.tag # j.repository
    /\ UserPaths \subseteq Paths
    /\ UserValues \subseteq Scalars
    /\ MaxEdits \in Nat

VARIABLES
    doc,      \* spec.valuesContent
    owned,    \* components the mode in use has a patch of: annotations, entries
    mode,     \* who patches this cluster
    edits,    \* edits users have left
    base,     \* history: the document as users alone would have made it
    crossed   \* history: a user edited where a patch was in place

vars == <<doc, owned, mode, edits, base, crossed>>

---------------------------------------------------------------------------
(* Documents.                                                              *)

Touch(p, q) == p = q \/ <<p, q>> \in Above \/ <<q, p>> \in Above

Touching(S) == {p \in Paths : \E q \in S : Touch(p, q)}

\* A scalar and something below it do not fit into one document.
IsDocument(d) ==
    /\ DOMAIN d \subseteq Paths
    /\ \A p \in DOMAIN d : d[p] \in Scalars
    /\ \A p, q \in DOMAIN d : <<p, q>> \notin Above

Without(d, S) == Restrict(d, DOMAIN d \ S)

\* The leaves of e, and those of d that leave room for them.
Overlay(d, e) ==
    [p \in (DOMAIN d \ Touching(DOMAIN e)) \cup DOMAIN e |->
        IF p \in DOMAIN e THEN e[p] ELSE d[p]]

OwnPaths(c) == {i.repository : i \in Images[c]} \cup {i.tag : i \in Images[c]}

\* The values a patch generates are a document, and so are those of a chart.
ASSUME DocumentsAssumption ==
    /\ \A c \in Components : (OwnPaths(c) \X OwnPaths(c)) \cap Above = {}
    /\ IsDocument(Defaults)

Generated(c, t) ==
    [p \in OwnPaths(c) |-> IF \E i \in Images[c] : p = i.tag THEN t ELSE Repository[c]]

Merge(d, c, t) == Overlay(d, Generated(c, t))

\* Whatever the values are.
Subtract(d, c) == Without(d, Touching(OwnPaths(c)))

Present(d, g) == \A p \in DOMAIN g : p \in DOMAIN d /\ d[p] = g[p]

\* A map without keys makes room for what is below it.
Conflicts(d, g) ==
    {p \in DOMAIN d : \E q \in DOMAIN g :
        \/ p = q /\ d[p] # g[q]
        \/ <<p, q>> \in Above /\ d[p] # Empty
        \/ <<q, p>> \in Above}

\* BundledImageTag: the chart has one tag of this very image at every place.
LayoutMatches(c) ==
    \A i \in Images[c] :
        /\ i.tag \in DOMAIN Defaults /\ i.repository \in DOMAIN Defaults
        /\ Defaults[i.repository] = Repository[c]
        /\ \A j \in Images[c] : Defaults[i.tag] = Defaults[j.tag]

\* yaml.Unmarshal into a map fails on anything else.
IsMapping(d) == Root \notin DOMAIN d

---------------------------------------------------------------------------

Nothing == [p \in {} |-> Empty]

Init ==
    /\ doc = Nothing /\ base = Nothing
    /\ owned = {}
    /\ mode \in {"cli", "controller"}
    /\ edits = MaxEdits
    /\ crossed = FALSE

Leaf(p, v) == [q \in {p} |-> v]

AtOrBelow(p) == {p} \cup {q \in Paths : <<p, q>> \in Above}

Crosses(p) == \E c \in owned : p \in Touching(OwnPaths(c))

UserEdit(p) ==
    /\ edits > 0 /\ edits' = edits - 1
    /\ crossed' = (crossed \/ Crosses(p))
    /\ UNCHANGED <<owned, mode>>

UserSets(p, v) ==
    /\ ~(p = Root /\ v = Empty)
    /\ UserEdit(p)
    /\ doc' = Overlay(doc, Leaf(p, v))
    /\ base' = Overlay(base, Leaf(p, v))

UserRemoves(p) ==
    /\ UserEdit(p)
    /\ doc' = Without(doc, AtOrBelow(p))
    /\ base' = Without(base, AtOrBelow(p))

\* image-patch asks before it merges, and merges whatever is there.
PatchCLI(c, t) ==
    /\ mode = "cli"
    /\ owned' = owned \cup {c}
    /\ UNCHANGED <<mode, edits, base, crossed>>
    /\ doc' = Merge(doc, c, t)

\* The controller refuses a layout it does not know and values of others.
Apply(c, t) ==
    /\ mode = "controller"
    /\ LayoutMatches(c)
    /\ IsMapping(doc)
    /\ ~(c \in owned /\ Present(doc, Generated(c, t)))
    /\ c \in owned \/ Conflicts(doc, Generated(c, t)) = {}
    /\ owned' = owned \cup {c}
    /\ UNCHANGED <<mode, edits, base, crossed>>
    /\ doc' = Merge(doc, c, t)

Revert(c) ==
    /\ c \in owned
    /\ IsMapping(doc)
    /\ owned' = owned \ {c}
    /\ UNCHANGED <<mode, edits, base, crossed>>
    /\ doc' = Subtract(doc, c)

Next ==
    \/ \E p \in UserPaths : UserRemoves(p) \/ \E v \in UserValues : UserSets(p, v)
    \/ \E c \in Components : Revert(c) \/ \E t \in Tags : PatchCLI(c, t) \/ Apply(c, t)

Spec == Init /\ [][Next]_vars

---------------------------------------------------------------------------
(* Properties.                                                             *)

TypeOK ==
    /\ IsDocument(doc) /\ IsDocument(base)
    /\ owned \subseteq Components
    /\ mode \in {"cli", "controller"}
    /\ edits \in 0..MaxEdits
    /\ crossed \in BOOLEAN

\* Paths no component of the chart has anything to do with.
Free == Paths \ Touching(UNION {OwnPaths(c) : c \in Components})

\* README.md:325: "any other value [...] is left exactly as it is".  Whatever
\* is patched, reverted and edited in whatever order, the values beside the
\* generated keys are those users would have without the patcher.
OtherValuesIntact ==
    Restrict(doc, DOMAIN doc \cap Free) = Restrict(base, DOMAIN base \cap Free)

\* README.md:325: "the ImagePatch is Blocked/ConflictingOverride instead of
\* overwriting them".  The first patch of a component takes no value away: the
\* check for conflicts sees everything the merge would replace.
NothingOverwritten ==
    [][\A c \in Components :
          c \in owned' \ owned /\ mode = "controller" =>
              \A p \in DOMAIN doc : doc[p] = Empty \/ (p \in DOMAIN doc' /\ doc'[p] = doc[p])]_vars

\* bundled.go:47-50: "a patcher path that points at another image of a shared
\* chart is reported".  No two components the controller patches write the same
\* place, nor one above the other.
OwnersApart ==
    mode = "controller" =>
        \A c, d \in owned : c # d => OwnPaths(c) \cap Touching(OwnPaths(d)) = {}

\* README.md:328: "Deleting an ImagePatch reverts the patch".  With all patches
\* reverted, and none crossed by an edit, the document is the users' again, but
\* for maps without keys and for what a patch would have set to the same value.
RevertRestores ==
    mode = "controller" /\ owned = {} /\ ~crossed =>
        /\ \A p \in DOMAIN doc : p \in DOMAIN base /\ doc[p] = base[p]
        /\ \A p \in DOMAIN base \ DOMAIN doc :
              \/ base[p] = Empty
              \/ \E c \in Components, t \in Tags :
                    p \in OwnPaths(c) /\ base[p] = Generated(c, t)[p]
=============================================================================
