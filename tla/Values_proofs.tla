---------------------------- MODULE Values_proofs ----------------------------
(***************************************************************************)
(* What a patch and its revert do to the values of one HelmChartConfig,    *)
(* for any components, paths, scalars and number of edits.                 *)
(***************************************************************************)
EXTENDS Values, TLAPS

---------------------------------------------------------------------------
(* Documents.                                                              *)

\* What an overlay holds, place by place.
LEMMA OverlayAt ==
    ASSUME NEW d, NEW e, NEW p
    PROVE  /\ p \in DOMAIN Overlay(d, e) <=>
                 p \in DOMAIN e \/ (p \in DOMAIN d /\ p \notin Touching(DOMAIN e))
           /\ p \in DOMAIN e => Overlay(d, e)[p] = e[p]
           /\ p \in DOMAIN d /\ p \notin Touching(DOMAIN e) /\ p \notin DOMAIN e
                 => Overlay(d, e)[p] = d[p]
BY DEF Overlay

LEMMA WithoutAt ==
    ASSUME NEW d, NEW S, NEW p
    PROVE  /\ p \in DOMAIN Without(d, S) <=> p \in DOMAIN d /\ p \notin S
           /\ p \in DOMAIN d /\ p \notin S => Without(d, S)[p] = d[p]
BY DEF Without, Restrict

LEMMA OverlayIsDocument ==
    ASSUME NEW d, NEW e, IsDocument(d), IsDocument(e)
    PROVE  IsDocument(Overlay(d, e))
<1> DEFINE o == Overlay(d, e)
<1>1. DOMAIN o \subseteq Paths
  BY OverlayAt DEF IsDocument
<1>2. \A p \in DOMAIN o : o[p] \in Scalars
  BY OverlayAt DEF IsDocument
<1>3. \A p, q \in DOMAIN o : <<p, q>> \notin Above
  BY <1>1, OverlayAt DEF IsDocument, Touching, Touch
<1> QED
  BY <1>1, <1>2, <1>3 DEF IsDocument

LEMMA WithoutIsDocument ==
    ASSUME NEW d, NEW S, IsDocument(d)
    PROVE  IsDocument(Without(d, S))
BY WithoutAt DEF IsDocument

LEMMA LeafIsDocument ==
    ASSUME NEW p \in Paths, NEW v \in Scalars
    PROVE  IsDocument(Leaf(p, v))
BY PathsAssumption DEF IsDocument, Leaf

\* What a patch generates.
LEMMA OwnPathsArePaths ==
    ASSUME NEW c \in Components
    PROVE  OwnPaths(c) \subseteq Paths
BY ValuesAssumption DEF OwnPaths

LEMMA GeneratedAt ==
    ASSUME NEW c \in Components, NEW t
    PROVE  /\ DOMAIN Generated(c, t) = OwnPaths(c)
           /\ \A p \in OwnPaths(c) : Generated(c, t)[p] \in {t, Repository[c]}
BY DEF Generated

LEMMA GeneratedIsDocument ==
    ASSUME NEW c \in Components, NEW t \in Tags
    PROVE  IsDocument(Generated(c, t))
<1>1. t \in Scalars /\ Repository[c] \in Scalars
  BY ValuesAssumption
<1>2. \A p, q \in OwnPaths(c) : <<p, q>> \notin Above
  BY DocumentsAssumption
<1> QED
  BY <1>1, <1>2, OwnPathsArePaths, GeneratedAt DEF IsDocument

---------------------------------------------------------------------------
(* Types.                                                                  *)

LEMMA InitTyped == Init => TypeOK
<1>1. IsDocument(Nothing)
  <2>1. DOMAIN Nothing = {}
    BY DEF Nothing
  <2> QED
    BY <2>1 DEF IsDocument
<1>2. MaxEdits \in 0..MaxEdits
  BY ValuesAssumption
<1> QED
  BY <1>1, <1>2 DEF Init, TypeOK

LEMMA StepTyped ==
    ASSUME TypeOK, [Next]_vars
    PROVE  TypeOK'
<1>1. ASSUME NEW p \in UserPaths, NEW v \in UserValues, UserSets(p, v)
      PROVE  TypeOK'
  <2>1. p \in Paths /\ v \in Scalars
    BY ValuesAssumption
  <2>2. IsDocument(Overlay(doc, Leaf(p, v))) /\ IsDocument(Overlay(base, Leaf(p, v)))
    BY <2>1, OverlayIsDocument, LeafIsDocument DEF TypeOK
  <2> QED
    BY <1>1, <2>2, ValuesAssumption DEF TypeOK, UserSets, UserEdit, Crosses
<1>2. ASSUME NEW p \in UserPaths, UserRemoves(p)
      PROVE  TypeOK'
  <2>1. IsDocument(Without(doc, AtOrBelow(p))) /\ IsDocument(Without(base, AtOrBelow(p)))
    BY WithoutIsDocument DEF TypeOK
  <2> QED
    BY <1>2, <2>1, ValuesAssumption DEF TypeOK, UserRemoves, UserEdit, Crosses
<1>3. ASSUME NEW c \in Components, NEW t \in Tags, PatchCLI(c, t) \/ Apply(c, t)
      PROVE  TypeOK'
  <2>1. IsDocument(Merge(doc, c, t))
    BY OverlayIsDocument, GeneratedIsDocument DEF TypeOK, Merge
  <2> QED
    BY <1>3, <2>1 DEF TypeOK, PatchCLI, Apply
<1>4. ASSUME NEW c \in Components, Revert(c)
      PROVE  TypeOK'
  <2>1. IsDocument(Subtract(doc, c))
    BY WithoutIsDocument DEF TypeOK, Subtract
  <2> QED
    BY <1>4, <2>1 DEF TypeOK, Revert
<1>5. CASE UNCHANGED vars
  BY <1>5 DEF TypeOK, vars
<1> QED
  BY <1>1, <1>2, <1>3, <1>4, <1>5 DEF Next

\* The values stay a document, whatever is merged into it or stripped from it
\* (internal/patcher), and so does the one users would have.
THEOREM TypeCorrect == Spec => []TypeOK
<1>1. Init => TypeOK
  BY InitTyped
<1>2. TypeOK /\ [Next]_vars => TypeOK'
  BY StepTyped
<1> QED
  BY <1>1, <1>2, PTL DEF Spec

---------------------------------------------------------------------------
(* The values beside the generated keys.                                   *)

LEMMA TouchBothWays ==
    ASSUME NEW p, NEW q
    PROVE  Touch(p, p) /\ (Touch(p, q) <=> Touch(q, p))
BY DEF Touch

LEMMA FreeOfGenerated ==
    ASSUME NEW p \in Free, NEW c \in Components
    PROVE  p \in Paths /\ p \notin OwnPaths(c) /\ p \notin Touching(OwnPaths(c))
BY TouchBothWays DEF Free, Touching

\* Two documents agree on the free paths.
Agree(d, e) ==
    \A p \in Free : /\ p \in DOMAIN d <=> p \in DOMAIN e
                    /\ p \in DOMAIN d => d[p] = e[p]

LEMMA IntactMeansAgree == OtherValuesIntact <=> Agree(doc, base)
<1>1. ASSUME OtherValuesIntact PROVE Agree(doc, base)
  <2> DEFINE S == DOMAIN doc \cap Free
             T == DOMAIN base \cap Free
  <2>1. [p \in S |-> doc[p]] = [p \in T |-> base[p]]
    BY <1>1 DEF OtherValuesIntact, Restrict
  <2>2. S = T /\ \A p \in S : doc[p] = base[p]
    BY <2>1
  <2> QED
    BY <2>2 DEF Agree
<1>2. ASSUME Agree(doc, base) PROVE OtherValuesIntact
  BY <1>2 DEF OtherValuesIntact, Restrict, Agree
<1> QED
  BY <1>1, <1>2

LEMMA StepAgrees ==
    ASSUME Agree(doc, base), [Next]_vars
    PROVE  Agree(doc, base)'
<1>1. ASSUME NEW p \in UserPaths, NEW v \in UserValues, UserSets(p, v)
      PROVE  Agree(doc, base)'
  BY <1>1, OverlayAt DEF UserSets, Agree
<1>2. ASSUME NEW p \in UserPaths, UserRemoves(p)
      PROVE  Agree(doc, base)'
  BY <1>2, WithoutAt DEF UserRemoves, Agree
<1>3. ASSUME NEW c \in Components, NEW t \in Tags, PatchCLI(c, t) \/ Apply(c, t)
      PROVE  Agree(doc, base)'
  <2>1. doc' = Overlay(doc, Generated(c, t)) /\ base' = base
    BY <1>3 DEF PatchCLI, Apply, Merge
  <2> QED
    BY <2>1, OverlayAt, GeneratedAt, FreeOfGenerated DEF Agree
<1>4. ASSUME NEW c \in Components, Revert(c)
      PROVE  Agree(doc, base)'
  BY <1>4, WithoutAt, FreeOfGenerated DEF Revert, Subtract, Agree
<1>5. CASE UNCHANGED vars
  BY <1>5 DEF Agree, vars
<1> QED
  BY <1>1, <1>2, <1>3, <1>4, <1>5 DEF Next

\* Whatever is patched, reverted and edited, in whatever order and mode, the
\* values beside the generated keys are those users would have without the
\* patcher (README.md:325).
THEOREM OtherValuesAlwaysIntact == Spec => []OtherValuesIntact
<1>1. Init => Agree(doc, base)
  BY DEF Init, Agree
<1>2. Agree(doc, base) /\ [Next]_vars => Agree(doc, base)'
  BY StepAgrees
<1>3. Agree(doc, base) => OtherValuesIntact
  BY IntactMeansAgree
<1> QED
  BY <1>1, <1>2, <1>3, PTL DEF Spec

---------------------------------------------------------------------------
(* Owners.                                                                 *)

\* What BundledImageTag lets through, for all the controller patches.
LayoutsMatch == mode = "controller" => \A c \in owned : LayoutMatches(c)

LEMMA LayoutsMatchStep ==
    ASSUME LayoutsMatch, [Next]_vars
    PROVE  LayoutsMatch'
<1>1. ASSUME NEW p \in UserPaths, NEW v \in UserValues, UserSets(p, v)
      PROVE  LayoutsMatch'
  BY <1>1 DEF UserSets, UserEdit, LayoutsMatch, LayoutMatches
<1>2. ASSUME NEW p \in UserPaths, UserRemoves(p)
      PROVE  LayoutsMatch'
  BY <1>2 DEF UserRemoves, UserEdit, LayoutsMatch, LayoutMatches
<1>3. ASSUME NEW c \in Components, NEW t \in Tags, PatchCLI(c, t) \/ Apply(c, t)
      PROVE  LayoutsMatch'
  BY <1>3 DEF PatchCLI, Apply, LayoutsMatch, LayoutMatches
<1>4. ASSUME NEW c \in Components, Revert(c)
      PROVE  LayoutsMatch'
  BY <1>4 DEF Revert, LayoutsMatch, LayoutMatches
<1>5. CASE UNCHANGED vars
  BY <1>5 DEF vars, LayoutsMatch, LayoutMatches
<1> QED
  BY <1>1, <1>2, <1>3, <1>4, <1>5 DEF Next

\* Two components that match the chart are apart: where their paths met, the
\* chart would have to have two repositories in one place.
LEMMA MatchingApart ==
    ASSUME NEW c \in Components, NEW d \in Components, c # d,
           LayoutMatches(c), LayoutMatches(d)
    PROVE  OwnPaths(c) \cap Touching(OwnPaths(d)) = {}
<1>1. OwnPaths(c) \subseteq DOMAIN Defaults /\ OwnPaths(d) \subseteq DOMAIN Defaults
  BY DEF LayoutMatches, OwnPaths
<1>2. \A p, q \in DOMAIN Defaults : <<p, q>> \notin Above
  BY DocumentsAssumption DEF IsDocument
<1>3. Repository[c] # Repository[d]
  BY ValuesAssumption
<1>4. OwnPaths(c) \cap OwnPaths(d) = {}
  <2> SUFFICES ASSUME NEW p \in OwnPaths(c), p \in OwnPaths(d) PROVE FALSE
    OBVIOUS
  <2>1. PICK i \in Images[c] : p = i.repository \/ p = i.tag
    BY DEF OwnPaths
  <2>2. PICK j \in Images[d] : p = j.repository \/ p = j.tag
    BY DEF OwnPaths
  <2>3. i.repository = j.repository
    BY <2>1, <2>2, ValuesAssumption
  <2> QED
    BY <2>3, <1>3 DEF LayoutMatches
<1> QED
  BY <1>1, <1>2, <1>4 DEF Touching, Touch

\* No two components the controller patches through one chart write the same
\* place, nor one above the other (bundled.go:47-50).
THEOREM OwnersAlwaysApart == Spec => []OwnersApart
<1>1. Init => LayoutsMatch
  BY DEF Init, LayoutsMatch
<1>2. LayoutsMatch /\ [Next]_vars => LayoutsMatch'
  BY LayoutsMatchStep
<1>3. TypeOK /\ LayoutsMatch => OwnersApart
  BY MatchingApart DEF TypeOK, LayoutsMatch, OwnersApart
<1> QED
  BY <1>1, <1>2, <1>3, TypeCorrect, PTL DEF Spec
---------------------------------------------------------------------------
(* The first patch.                                                        *)

\* The check for conflicts sees everything the merge would replace.
LEMMA NoConflictNoLoss ==
    ASSUME NEW c \in Components, NEW t \in Tags, IsDocument(doc),
           Conflicts(doc, Generated(c, t)) = {},
           NEW p \in DOMAIN doc
    PROVE  \/ doc[p] = Empty
           \/ p \in DOMAIN Merge(doc, c, t) /\ Merge(doc, c, t)[p] = doc[p]
<1> DEFINE g == Generated(c, t)
<1>1. \A q \in DOMAIN g : /\ p = q => doc[p] = g[q]
                          /\ <<p, q>> \in Above => doc[p] = Empty
                          /\ <<q, p>> \notin Above
  BY DEF Conflicts
<1>2. CASE p \in DOMAIN g
  <2>1. p \in DOMAIN Overlay(doc, g) /\ Overlay(doc, g)[p] = g[p]
    BY <1>2, OverlayAt
  <2>2. doc[p] = g[p]
    BY <1>1, <1>2
  <2> QED
    BY <2>1, <2>2 DEF Merge
<1>3. CASE p \in Touching(DOMAIN g) /\ p \notin DOMAIN g
  BY <1>1, <1>3 DEF Touching, Touch
<1>4. CASE p \notin Touching(DOMAIN g) /\ p \notin DOMAIN g
  BY <1>4, OverlayAt DEF Merge
<1> QED
  BY <1>2, <1>3, <1>4

LEMMA NothingOverwrittenStep ==
    ASSUME TypeOK, [Next]_vars,
           NEW c \in Components, c \in owned' \ owned, mode = "controller",
           NEW p \in DOMAIN doc
    PROVE  doc[p] = Empty \/ (p \in DOMAIN doc' /\ doc'[p] = doc[p])
<1>1. PICK t \in Tags : Apply(c, t)
  BY DEF Next, UserSets, UserRemoves, UserEdit, PatchCLI, Apply, Revert, vars
<1>2. Conflicts(doc, Generated(c, t)) = {} /\ doc' = Merge(doc, c, t)
  BY <1>1 DEF Apply
<1> QED
  BY <1>2, NoConflictNoLoss DEF TypeOK

\* The controller's first patch of a component takes no value away, but for
\* maps without keys (CompareGeneratedValues, README.md:325).
THEOREM NothingIsOverwritten == Spec => NothingOverwritten
<1> DEFINE Kept == \A c \in Components :
                      c \in owned' \ owned /\ mode = "controller" =>
                          \A p \in DOMAIN doc :
                              doc[p] = Empty \/ (p \in DOMAIN doc' /\ doc'[p] = doc[p])
<1>1. TypeOK /\ [Next]_vars => [Kept]_vars
  BY NothingOverwrittenStep
<1> QED
  BY <1>1, TypeCorrect, PTL DEF Spec, NothingOverwritten

---------------------------------------------------------------------------
(* What a revert gives back.                                               *)

Patched == UNION {OwnPaths(c) : c \in owned}

\* The users' value at p may be lost without harm.
ByChance(p) ==
    \/ base[p] = Empty
    \/ \E c \in Components, t \in Tags : p \in OwnPaths(c) /\ base[p] = Generated(c, t)[p]

\* As long as users keep away from the patches: what is not patched is theirs;
\* theirs is there, or may be lost, and what is patched may be lost; and next to
\* a patch there is nothing but the patch.
Restorable ==
    mode = "controller" /\ ~crossed =>
        /\ \A p \in DOMAIN doc \ Patched : p \in DOMAIN base /\ doc[p] = base[p]
        /\ \A p \in DOMAIN base : p \notin DOMAIN doc \/ p \in Patched => ByChance(p)
        /\ \A c \in owned : DOMAIN doc \cap Touching(OwnPaths(c)) = OwnPaths(c)

LEMMA OwnTouches ==
    ASSUME NEW c \in Components
    PROVE  OwnPaths(c) \subseteq Touching(OwnPaths(c))
BY OwnPathsArePaths, TouchBothWays DEF Touching

\* An edit away from the patches leaves them alone.
LEMMA EditAway ==
    ASSUME NEW p \in Paths, ~Crosses(p), NEW c \in owned, NEW q \in OwnPaths(c)
    PROVE  ~Touch(p, q) /\ ~Touch(q, p)
BY TouchBothWays DEF Crosses, Touching

LEMMA UserSetsRestorable ==
    ASSUME TypeOK, Restorable, NEW p \in UserPaths, NEW v \in UserValues, UserSets(p, v)
    PROVE  Restorable'
<1> SUFFICES ASSUME mode = "controller", ~crossed, ~Crosses(p)
             PROVE  Restorable'
  BY DEF Restorable, UserSets, UserEdit
<1>1. /\ \A q : /\ q \in DOMAIN doc' <=> q = p \/ (q \in DOMAIN doc /\ ~(q \in Paths /\ Touch(q, p)))
                /\ q \in DOMAIN base' <=> q = p \/ (q \in DOMAIN base /\ ~(q \in Paths /\ Touch(q, p)))
                /\ q \in DOMAIN doc' /\ q # p => doc'[q] = doc[q]
                /\ q \in DOMAIN base' /\ q # p => base'[q] = base[q]
      /\ doc'[p] = v /\ base'[p] = v
  BY OverlayAt DEF UserSets, Leaf, Touching
<1>2. Patched' = Patched /\ owned' = owned
  BY DEF UserSets, UserEdit, Patched
<1>3. p \in Paths /\ \A q \in Patched : ~Touch(p, q) /\ ~Touch(q, p)
  BY ValuesAssumption, EditAway DEF Patched
<1>4. \A q \in DOMAIN doc' \ Patched' : q \in DOMAIN base' /\ doc'[q] = base'[q]
  BY <1>1, <1>2 DEF Restorable
<1>5. ASSUME NEW q \in DOMAIN base', q \notin DOMAIN doc' \/ q \in Patched'
      PROVE  ByChance(q)'
  <2>1. q # p
    BY <1>1, <1>2, <1>3, <1>5, TouchBothWays
  <2>2. base'[q] = base[q] /\ ByChance(q)
    BY <2>1, <1>1, <1>2, <1>5 DEF Restorable
  <2> QED
    BY <2>2 DEF ByChance
<1>6. ASSUME NEW c \in owned'
      PROVE  DOMAIN doc' \cap Touching(OwnPaths(c)) = OwnPaths(c)
  <2>1. DOMAIN doc \cap Touching(OwnPaths(c)) = OwnPaths(c)
    BY <1>2, <1>6 DEF Restorable
  <2>2. p \notin Touching(OwnPaths(c)) /\ \A q \in OwnPaths(c) : ~Touch(q, p)
    BY <1>2, <1>6, EditAway, ValuesAssumption DEF Touching
  <2> QED
    BY <1>1, <2>1, <2>2
<1> QED
  BY <1>4, <1>5, <1>6 DEF Restorable

LEMMA UserRemovesRestorable ==
    ASSUME TypeOK, Restorable, NEW p \in UserPaths, UserRemoves(p)
    PROVE  Restorable'
<1> SUFFICES ASSUME mode = "controller", ~crossed, ~Crosses(p)
             PROVE  Restorable'
  BY DEF Restorable, UserRemoves, UserEdit
<1>1. \A q : /\ q \in DOMAIN doc' <=> q \in DOMAIN doc /\ q \notin AtOrBelow(p)
             /\ q \in DOMAIN base' <=> q \in DOMAIN base /\ q \notin AtOrBelow(p)
             /\ q \in DOMAIN doc' => doc'[q] = doc[q]
             /\ q \in DOMAIN base' => base'[q] = base[q]
  BY WithoutAt DEF UserRemoves
<1>2. Patched' = Patched /\ owned' = owned
  BY DEF UserRemoves, UserEdit, Patched
<1>3. \A q \in DOMAIN doc' \ Patched' : q \in DOMAIN base' /\ doc'[q] = base'[q]
  BY <1>1, <1>2 DEF Restorable
<1>4. ASSUME NEW q \in DOMAIN base', q \notin DOMAIN doc' \/ q \in Patched'
      PROVE  ByChance(q)'
  <2>1. base'[q] = base[q] /\ ByChance(q)
    BY <1>1, <1>2, <1>4 DEF Restorable
  <2> QED
    BY <2>1 DEF ByChance
<1>5. ASSUME NEW c \in owned'
      PROVE  DOMAIN doc' \cap Touching(OwnPaths(c)) = OwnPaths(c)
  <2>1. DOMAIN doc \cap Touching(OwnPaths(c)) = OwnPaths(c)
    BY <1>2, <1>5 DEF Restorable
  <2>2. \A q \in OwnPaths(c) : q \notin AtOrBelow(p)
    BY <1>2, <1>5, EditAway, ValuesAssumption DEF AtOrBelow, Touch
  <2> QED
    BY <1>1, <2>1, <2>2
<1> QED
  BY <1>3, <1>4, <1>5 DEF Restorable

LEMMA ApplyRestorable ==
    ASSUME TypeOK, Restorable, OwnersApart', NEW c \in Components, NEW t \in Tags, Apply(c, t)
    PROVE  Restorable'
<1> DEFINE own == OwnPaths(c)
<1> SUFFICES ASSUME mode = "controller", ~crossed
             PROVE  Restorable'
  BY DEF Restorable, Apply
<1>1. /\ \A q : /\ q \in DOMAIN doc' <=> q \in own \/ (q \in DOMAIN doc /\ q \notin Touching(own))
                /\ q \in DOMAIN doc' /\ q \notin own => doc'[q] = doc[q]
      /\ base' = base
  BY OverlayAt, GeneratedAt DEF Apply, Merge
<1>2. owned' = owned \cup {c} /\ Patched' = Patched \cup own
  BY DEF Apply, Patched
<1>3. own \subseteq Touching(own)
  BY OwnTouches
<1>4. \A q \in DOMAIN doc' \ Patched' : q \in DOMAIN base' /\ doc'[q] = base'[q]
  BY <1>1, <1>2 DEF Restorable
<1>5. ASSUME NEW q \in DOMAIN base', q \notin DOMAIN doc' \/ q \in Patched'
      PROVE  ByChance(q)'
  <2>1. CASE q \notin DOMAIN doc \/ q \in Patched
    BY <1>1, <1>5, <2>1 DEF Restorable, ByChance
  <2>2. CASE q \in DOMAIN doc /\ q \notin Patched
    <3>1. c \notin owned
      BY <1>1, <1>2, <1>3, <1>5, <2>2 DEF Restorable, Patched
    <3>2. doc[q] = base[q]
      BY <2>2 DEF Restorable
    <3>3. Conflicts(doc, Generated(c, t)) = {}
      BY <3>1 DEF Apply
    <3>4. CASE q \in own
      <4>1. doc[q] = Generated(c, t)[q]
        BY <2>2, <3>3, <3>4, GeneratedAt DEF Conflicts
      <4> QED
        BY <1>1, <3>2, <3>4, <4>1 DEF ByChance
    <3>5. CASE q \notin own
      <4>1. q \in Touching(own)
        BY <1>1, <1>2, <1>5, <2>2, <3>5
      <4>2. doc[q] = Empty
        BY <2>2, <3>3, <3>5, <4>1, GeneratedAt DEF Conflicts, Touching, Touch
      <4> QED
        BY <1>1, <3>2, <4>2 DEF ByChance
    <3> QED
      BY <3>4, <3>5
  <2> QED
    BY <2>1, <2>2
<1>6. ASSUME NEW d \in owned'
      PROVE  DOMAIN doc' \cap Touching(OwnPaths(d)) = OwnPaths(d)
  <2>1. CASE d = c
    BY <1>1, <1>3, <2>1
  <2>2. CASE d # c
    <3>1. d \in owned /\ d \in Components
      BY <1>2, <1>6, <2>2 DEF TypeOK
    <3>2. DOMAIN doc \cap Touching(OwnPaths(d)) = OwnPaths(d)
      BY <3>1 DEF Restorable
    <3>3. own \cap Touching(OwnPaths(d)) = {} /\ OwnPaths(d) \cap Touching(own) = {}
      BY <1>2, <2>2, <3>1 DEF OwnersApart, Apply
    <3> QED
      BY <1>1, <3>2, <3>3
  <2> QED
    BY <2>1, <2>2
<1> QED
  BY <1>4, <1>5, <1>6 DEF Restorable

LEMMA RevertRestorable ==
    ASSUME TypeOK, Restorable, OwnersApart, NEW c \in Components, Revert(c)
    PROVE  Restorable'
<1> DEFINE own == OwnPaths(c)
<1> SUFFICES ASSUME mode = "controller", ~crossed
             PROVE  Restorable'
  BY DEF Restorable, Revert
<1>1. /\ \A q : /\ q \in DOMAIN doc' <=> q \in DOMAIN doc /\ q \notin Touching(own)
                /\ q \in DOMAIN doc' => doc'[q] = doc[q]
      /\ base' = base
  BY WithoutAt DEF Revert, Subtract
<1>2. c \in owned /\ owned' = owned \ {c}
  BY DEF Revert
<1>3. Patched \subseteq Patched' \cup own /\ Patched' \subseteq Patched
  BY <1>2 DEF Patched
<1>4. own \subseteq Touching(own) /\ DOMAIN doc \cap Touching(own) = own
  BY <1>2, OwnTouches DEF Restorable
<1>5. \A q \in DOMAIN doc' \ Patched' : q \in DOMAIN base' /\ doc'[q] = base'[q]
  BY <1>1, <1>3, <1>4 DEF Restorable
<1>6. ASSUME NEW q \in DOMAIN base', q \notin DOMAIN doc' \/ q \in Patched'
      PROVE  ByChance(q)'
  <2>1. q \notin DOMAIN doc \/ q \in Patched
    BY <1>1, <1>2, <1>3, <1>4, <1>6 DEF Patched
  <2> QED
    BY <1>1, <1>6, <2>1 DEF Restorable, ByChance
<1>7. ASSUME NEW d \in owned'
      PROVE  DOMAIN doc' \cap Touching(OwnPaths(d)) = OwnPaths(d)
  <2>1. d \in owned /\ d # c /\ d \in Components
    BY <1>2, <1>7 DEF TypeOK
  <2>2. DOMAIN doc \cap Touching(OwnPaths(d)) = OwnPaths(d)
    BY <2>1 DEF Restorable
  <2>3. OwnPaths(d) \cap Touching(own) = {}
    BY <1>2, <2>1 DEF OwnersApart
  <2> QED
    BY <1>1, <2>2, <2>3
<1> QED
  BY <1>5, <1>6, <1>7 DEF Restorable

LEMMA RestorableStep ==
    ASSUME TypeOK, Restorable, OwnersApart, OwnersApart', [Next]_vars
    PROVE  Restorable'
<1>1. ASSUME NEW c \in Components, NEW t \in Tags, PatchCLI(c, t)
      PROVE  Restorable'
  BY <1>1 DEF PatchCLI, Restorable
<1>2. CASE UNCHANGED vars
  BY <1>2 DEF Restorable, Patched, ByChance, vars
<1> QED
  BY <1>1, <1>2, UserSetsRestorable, UserRemovesRestorable, ApplyRestorable, RevertRestorable
  DEF Next

\* Once the controller has reverted all its patches, and users have kept away
\* from them, the document is the users' again, but for maps without keys and
\* for values a patch would have set anyway (README.md:328, revert).
THEOREM RevertAlwaysRestores == Spec => []RevertRestores
<1>1. Init => Restorable
  BY DEF Init, Restorable, Patched, Nothing
<1>2. /\ TypeOK /\ OwnersApart /\ OwnersApart' /\ Restorable /\ [Next]_vars
      => Restorable'
  BY RestorableStep
<1>3. Restorable => RevertRestores
  BY DEF Restorable, RevertRestores, Patched, ByChance
<1> QED
  BY <1>1, <1>2, <1>3, TypeCorrect, OwnersAlwaysApart, PTL DEF Spec
=============================================================================
