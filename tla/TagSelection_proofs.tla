------------------------- MODULE TagSelection_proofs -------------------------
(***************************************************************************)
(* Proofs about the listing of tags (TagListing), the order and the rules  *)
(* that choose among them (TagPolicy), and the patches of one component    *)
(* that follow each other (TagSelection).                                  *)
(***************************************************************************)
EXTENDS TagSelection, FiniteSetTheorems, WellFoundedInduction, TLAPS

---------------------------------------------------------------------------
(* Finite sets of numbers, and the first n of them.                        *)

LEMMA Smallest ==
    ASSUME NEW S \in SUBSET Nat, S # {}
    PROVE  \E a \in S : \A b \in S : a <= b
<1>1. PICK a \in S : \A b \in S : <<b, a>> \notin OpToRel(<, Nat)
  BY NatLessThanWellFounded, WFMin
<1>2. \A b \in S : ~(b < a)
  BY <1>1 DEF OpToRel
<1> QED
  BY <1>2

\* How many are smaller: a rank that grows with the number.
LEMMA RankGrows ==
    ASSUME NEW S \in SUBSET Nat, IsFiniteSet(S), NEW a \in S, NEW b \in S, b < a
    PROVE  /\ Cardinality({x \in S : x < b}) \in Nat
           /\ Cardinality({x \in S : x < a}) \in Nat
           /\ Cardinality({x \in S : x < a}) <= Cardinality(S)
           /\ Cardinality({x \in S : x < b}) < Cardinality({x \in S : x < a})
<1> DEFINE A == {x \in S : x < a}
           B == {x \in S : x < b}
<1>1. IsFiniteSet(A) /\ Cardinality(A) \in Nat /\ Cardinality(A) <= Cardinality(S)
  BY FS_Subset, FS_CardinalityType
<1>2. B \subseteq A /\ b \in A /\ b \notin B
  <2>1. ASSUME NEW x \in S, x < b PROVE x < a
    <3>1. x \in Int /\ a \in Int /\ b \in Int
      OBVIOUS
    <3> QED
      BY <2>1, <3>1
  <2>2. ~(b < b)
    <3>1. b \in Int
      OBVIOUS
    <3> QED
      BY <3>1
  <2>3. B \subseteq A
    BY <2>1
  <2> QED
    BY <2>2, <2>3
<1>3. Cardinality(B) \in Nat /\ Cardinality(B) <= Cardinality(A) /\ Cardinality(B) # Cardinality(A)
  BY <1>1, <1>2, FS_Subset, FS_CardinalityType
<1> QED
  BY <1>1, <1>3

\* A finite set has a last number.
LEMMA LastIsLargest ==
    ASSUME NEW S \in SUBSET Nat, IsFiniteSet(S), S # {}
    PROVE  Last(S) \in S /\ \A m \in S : m <= Last(S)
<1> DEFINE rank(a) == Cardinality({x \in S : x < a})
           left == {Cardinality(S) - rank(a) : a \in S}
<1>1. Cardinality(S) \in Nat
  BY FS_CardinalityType
<1>2. \A a \in S : rank(a) \in Nat /\ rank(a) <= Cardinality(S)
  BY FS_Subset, FS_CardinalityType
<1>3. \A a \in S, b \in S : b < a => rank(b) < rank(a)
  BY RankGrows
<1> HIDE DEF rank
<1>4. left \in SUBSET Nat /\ left # {}
  <2>1. ASSUME NEW a \in S PROVE Cardinality(S) - rank(a) \in Nat
    BY <1>1, <1>2
  <2> QED
    BY <2>1
<1>5. PICK l \in left : \A k \in left : l <= k
  <2> HIDE DEF left
  <2> QED
    BY <1>4, Smallest
<1>6. PICK a \in S : l = Cardinality(S) - rank(a)
  OBVIOUS
<1>7. ASSUME NEW b \in S PROVE rank(b) <= rank(a)
  <2>1. Cardinality(S) - rank(b) \in left
    OBVIOUS
  <2> QED
    BY <1>1, <1>2, <1>5, <1>6, <2>1
<1>8. ASSUME NEW m \in S PROVE m <= a
  <2>1. ~(a < m)
    BY <1>2, <1>3, <1>7
  <2> QED
    BY <2>1
<1> QED
  BY <1>8 DEF Last

\* The first n numbers of a set: what is before one of them is among them; they
\* are all there is, or at least n; and there is one.
LEMMA FirstNumbers ==
    ASSUME NEW S \in SUBSET Nat, IsFiniteSet(S), NEW n \in Nat
    PROVE  /\ First(n, S) \subseteq S
           /\ \A a \in First(n, S), b \in S : b < a => b \in First(n, S)
           /\ First(n, S) = S \/ Cardinality(First(n, S)) >= n
           /\ S # {} /\ n > 0 => First(n, S) # {}
<1> DEFINE rank(a) == Cardinality({x \in S : x < a})
<1>1. \A a \in S : rank(a) \in Nat
  BY FS_Subset, FS_CardinalityType
<1>2. First(n, S) = {a \in S : rank(a) < n}
  BY DEF First
<1>3. \A a \in S, b \in S : b < a => rank(b) < rank(a)
  BY RankGrows
<1>4. ASSUME First(n, S) # S
      PROVE  Cardinality(First(n, S)) >= n
  <2>1. PICK a \in S \ First(n, S) : \A b \in S \ First(n, S) : a <= b
    BY <1>2, <1>4, Smallest
  <2>2. {x \in S : x < a} \subseteq First(n, S)
    <3>1. ASSUME NEW x \in S, x < a, x \notin First(n, S) PROVE FALSE
      <4>1. x \in Int /\ a \in Int /\ a <= x
        BY <2>1, <3>1
      <4> QED
        BY <3>1, <4>1
    <3> QED
      BY <3>1
  <2>3. IsFiniteSet(First(n, S)) /\ Cardinality(First(n, S)) \in Nat
    BY <1>2, FS_Subset, FS_CardinalityType
  <2>4. rank(a) <= Cardinality(First(n, S))
    BY <2>2, <2>3, FS_Subset
  <2>5. rank(a) >= n
    BY <1>1, <1>2, <2>1
  <2> QED
    BY <1>1, <2>1, <2>3, <2>4, <2>5
<1>5. ASSUME S # {}, n > 0
      PROVE  First(n, S) # {}
  <2>1. PICK a \in S : \A b \in S : a <= b
    BY <1>5, Smallest
  <2>2. {x \in S : x < a} = {}
    <3>1. ASSUME NEW x \in S, x < a PROVE FALSE
      <4>1. x \in Int /\ a \in Int /\ a <= x
        BY <2>1
      <4> QED
        BY <3>1, <4>1
    <3> QED
      BY <3>1
  <2> QED
    BY <1>2, <1>5, <2>2, FS_EmptySet
<1>6. ASSUME NEW a \in First(n, S), NEW b \in S, b < a
      PROVE  b \in First(n, S)
  <2> HIDE DEF rank
  <2>1. a \in S /\ rank(a) < n /\ rank(b) < rank(a)
    BY <1>2, <1>3, <1>6
  <2>2. rank(b) < n
    BY <1>1, <2>1
  <2> QED
    BY <1>2, <2>2
<1> QED
  BY <1>2, <1>4, <1>5, <1>6


---------------------------------------------------------------------------
(* Listing.                                                                *)

LEMMA NamesAreNumbers ==
    /\ Names \subseteq Nat /\ IsFiniteSet(Names)
    /\ \A S \in SUBSET Names : S \subseteq Nat /\ IsFiniteSet(S) /\ Cardinality(S) \in Nat
BY ListingAssumption, FS_Subset, FS_CardinalityType

\* A page is a stretch of what lies ahead: nothing in it is passed over.
LEMMA PageIsNext ==
    ASSUME ListingTypeOK
    PROVE  /\ Page(next) \subseteq After(next) /\ After(next) \subseteq published
           /\ \A n \in After(next) : n > next
           /\ After(next) # Page(next) =>
                 /\ Last(Page(next)) \in Page(next)
                 /\ \A n \in After(next) \ Page(next) : n > Last(Page(next))
<1>1. After(next) \in SUBSET Nat /\ IsFiniteSet(After(next)) /\ After(next) \subseteq Names
  BY NamesAreNumbers DEF After, ListingTypeOK
<1>2. PageSize \in Nat /\ PageSize > 0
  BY ListingAssumption
<1>3. /\ Page(next) \subseteq After(next)
      /\ \A a \in Page(next), b \in After(next) : b < a => b \in Page(next)
      /\ After(next) # {} => Page(next) # {}
  BY <1>1, <1>2, FirstNumbers DEF Page
<1>4. ASSUME After(next) # Page(next)
      PROVE  /\ Last(Page(next)) \in Page(next)
             /\ \A n \in After(next) \ Page(next) : n > Last(Page(next))
  <2>1. Page(next) \in SUBSET Nat /\ IsFiniteSet(Page(next)) /\ Page(next) # {}
    BY <1>1, <1>3, <1>4, FS_Subset
  <2>2. Last(Page(next)) \in Page(next)
    BY <2>1, LastIsLargest
  <2>3. ASSUME NEW n \in After(next) \ Page(next)
        PROVE  n > Last(Page(next))
    <3>1. n \in Nat /\ Last(Page(next)) \in Nat /\ n # Last(Page(next))
      BY <1>1, <2>1, <2>2
    <3>2. ~(n < Last(Page(next)))
      BY <1>3, <2>2
    <3> QED
      BY <3>1, <3>2
  <2> QED
    BY <2>2, <2>3
<1> QED
  BY <1>3, <1>4 DEF After

\* What a page adds, and what it means for the listing to go on or to end.
LEMMA PageTaken ==
    ASSUME ListingTypeOK, ListingConsistent, pc \in {"page", "token", "retry"}, TakePage
    PROVE  /\ listed' \subseteq Names /\ next' \in Nat /\ pc' \in {"page", "ok", "error"}
           /\ pc' = "page" => Cardinality(listed') < Limit
           /\ pc' = "error" => listed' = {}
           /\ Cardinality(listed') < Limit =>
                 \A n \in kept \ Ignored : n \in listed' \/ (n > next' /\ pc' = "page")
<1> DEFINE page == Page(next)
           usable == (page \ Ignored) \ listed
           room == Limit - Cardinality(listed)
           now == listed \cup First(room, usable)
           more == After(next) # page
<1>1. /\ listed' = now
      /\ next' = IF more THEN Last(page) ELSE next
      /\ pc' = IF more /\ Cardinality(now) < Limit THEN "page"
               ELSE IF now = {} THEN "error" ELSE "ok"
  BY DEF TakePage
<1>2. /\ page \subseteq After(next) /\ After(next) \subseteq Names /\ page \subseteq Names
      /\ usable \in SUBSET Nat /\ IsFiniteSet(usable)
  BY PageIsNext, NamesAreNumbers DEF ListingTypeOK
<1>3. /\ Limit \in Nat /\ Cardinality(listed) \in Nat /\ IsFiniteSet(listed)
      /\ room \in Nat /\ room > 0
  <2>1. Limit \in Nat /\ Cardinality(listed) \in Nat /\ IsFiniteSet(listed)
    BY NamesAreNumbers, ListingAssumption DEF ListingTypeOK
  <2>2. Cardinality(listed) < Limit
    BY DEF ListingConsistent
  <2> QED
    BY <2>1, <2>2
<1>4. /\ First(room, usable) \subseteq usable
      /\ First(room, usable) = usable \/ Cardinality(First(room, usable)) >= room
  BY <1>2, <1>3, FirstNumbers
<1>5. now \subseteq Names /\ next' \in Nat
  <2>1. more => Last(page) \in page
    BY PageIsNext
  <2>2. next \in Nat /\ listed \subseteq Names
    BY DEF ListingTypeOK
  <2> QED
    BY <1>1, <1>2, <1>4, <2>1, <2>2, NamesAreNumbers
\* Below the limit the page is listed whole.
<1>6. ASSUME Cardinality(now) < Limit
      PROVE  First(room, usable) = usable
  <2> DEFINE added == First(room, usable)
  <2>1. IsFiniteSet(added) /\ Cardinality(added) \in Nat
    BY <1>2, <1>4, FS_Subset, FS_CardinalityType
  <2>2. listed \cap added = {}
    BY <1>4
  <2>3. Cardinality(now) = Cardinality(listed) + Cardinality(added)
    <3> HIDE DEF added
    <3>1. Cardinality(listed \cup added)
            = Cardinality(listed) + Cardinality(added) - Cardinality(listed \cap added)
      BY <1>3, <2>1, FS_Union
    <3>2. Cardinality(listed \cap added) = 0
      BY <2>2, FS_EmptySet
    <3> QED
      BY <1>3, <2>1, <3>1, <3>2 DEF added
  <2>4. ~(Cardinality(added) >= room)
    <3> HIDE DEF added, now
    <3> QED
      BY <1>3, <1>6, <2>1, <2>3
  <2> QED
    BY <1>4, <2>4
<1>7. ASSUME Cardinality(now) < Limit, NEW n \in kept \ Ignored, n \notin now
      PROVE  n > next' /\ pc' = "page"
  <2>1. n \notin page
    BY <1>6, <1>7
  <2>2. n \in After(next)
    <3>1. n > next
      BY <1>7 DEF ListingConsistent
    <3> QED
      BY <1>7, <3>1 DEF After, ListingTypeOK
  <2>3. more /\ n > Last(page)
    BY <2>1, <2>2, PageIsNext
  <2> QED
    BY <1>1, <1>7, <2>3
<1> HIDE DEF now, more
<1> QED
  BY <1>1, <1>5, <1>7


\* A listing goes on: what it promises about its end holds when it ends.
LEMMA StepListed ==
    ASSUME ListingTypeOK, ListingConsistent, pc \in {"page", "token", "retry"}, ListingStep
    PROVE  /\ ListingTypeOK' /\ ListingConsistent'
           /\ NothingMissed' /\ ErrorHasCause'
<1> USE DEF ListingTypeOK, ListingConsistent
<1>1. ASSUME TakePage, UNCHANGED <<published, token, kept, budget>>
      PROVE  /\ ListingTypeOK' /\ ListingConsistent'
             /\ NothingMissed' /\ ErrorHasCause'
  <2>1. /\ listed' \subseteq Names /\ next' \in Nat /\ pc' \in {"page", "ok", "error"}
        /\ pc' = "page" => Cardinality(listed') < Limit
        /\ pc' = "error" => listed' = {}
        /\ Cardinality(listed') < Limit =>
              \A n \in kept \ Ignored : n \in listed' \/ (n > next' /\ pc' = "page")
    BY <1>1, PageTaken
  <2>2. ListingTypeOK' /\ ListingConsistent'
    BY <1>1, <2>1
  <2>3. NothingMissed'
    BY <1>1, <2>1 DEF NothingMissed
  <2>4. ErrorHasCause'
    <3>1. Cardinality({}) < Limit
      BY FS_EmptySet, ListingAssumption
    <3> QED
      BY <1>1, <2>1, <3>1 DEF ErrorHasCause
  <2> QED
    BY <2>2, <2>3, <2>4
<1>2. CASE Request
  <2>1. CASE Unauthorized
    BY <1>2, <2>1 DEF Request, NothingMissed, ErrorHasCause
  <2>2. CASE ~Unauthorized
    BY <1>1, <1>2, <2>2 DEF Request
  <2> QED
    BY <2>1, <2>2
<1>3. CASE FetchBearerToken
  BY <1>3 DEF FetchBearerToken, NothingMissed, ErrorHasCause
<1>4. CASE Retry
  <2>1. ~Unauthorized
    BY <1>4 DEF Retry, Unauthorized
  <2> QED
    BY <1>1, <1>4, <2>1 DEF Retry
<1>5. CASE RequestFails
  <2>1. /\ "fault" \in Moves /\ budget["fault"] > 0
        /\ budget' = [budget EXCEPT !["fault"] = budget["fault"] - 1]
    BY <1>5 DEF RequestFails, Spend, Moves
  <2>2. Budget["fault"] \in Nat /\ budget["fault"] \in Nat /\ budget["fault"] <= Budget["fault"]
    BY <2>1, ListingAssumption
  <2>3. /\ budget' \in [Moves -> Nat] /\ \A m \in Moves : budget'[m] <= Budget[m]
        /\ budget'["fault"] < Budget["fault"]
    BY <2>1, <2>2
  <2> QED
    BY <1>5, <2>3 DEF RequestFails, NothingMissed, ErrorHasCause
<1>6. CASE RegistryStep
  <2>1. ASSUME NEW m \in Moves, Spend(m)
        PROVE  budget' \in [Moves -> Nat] /\ \A x \in Moves : budget'[x] <= Budget[x]
    <3>1. budget[m] > 0 /\ budget' = [budget EXCEPT ![m] = budget[m] - 1]
      BY <2>1 DEF Spend
    <3>2. budget[m] \in Nat /\ Budget[m] \in Nat
      BY ListingAssumption
    <3> QED
      BY <3>1, <3>2
  <2>2. CASE ExpireToken
    BY <2>1, <2>2 DEF ExpireToken, Moves, NothingMissed, ErrorHasCause
  <2>3. ASSUME NEW n \in Names, Push(n) \/ Remove(n)
        PROVE  /\ ListingTypeOK' /\ ListingConsistent'
               /\ NothingMissed' /\ ErrorHasCause'
    <3>1. budget' \in [Moves -> Nat] /\ \A x \in Moves : budget'[x] <= Budget[x]
      BY <2>1, <2>3 DEF Push, Remove, Moves
    <3> QED
      BY <2>3, <3>1 DEF Push, Remove, NothingMissed, ErrorHasCause
  <2> QED
    BY <1>6, <2>2, <2>3 DEF RegistryStep
<1> QED
  BY <1>2, <1>3, <1>4, <1>5, <1>6 DEF ListingStep

\* A call begins, and a command ends.
LEMMA CallListed ==
    ASSUME (\E names \in SUBSET Names : CallListTags(names)) \/ Return,
           ListingTypeOK, ListingConsistent
    PROVE  /\ ListingTypeOK' /\ ListingConsistent'
           /\ NothingMissed' /\ ErrorHasCause'
<1>1. Limit > 0 /\ Cardinality({}) = 0
  BY ListingAssumption, FS_EmptySet
<1>2. CASE Return
  BY <1>2, ListingAssumption
  DEF Return, ListingTypeOK, ListingConsistent, NothingMissed, ErrorHasCause
<1>3. ASSUME NEW names \in SUBSET Names, CallListTags(names)
      PROVE  /\ ListingTypeOK' /\ ListingConsistent'
             /\ NothingMissed' /\ ErrorHasCause'
  <2>1. /\ pc' = "page" /\ published' = names /\ kept' = names
        /\ listed' = {} /\ next' = 0 /\ UNCHANGED <<token, budget>>
    BY <1>3 DEF CallListTags, ListingConsistent
  <2>2. \A n \in names : n > 0
    BY ListingAssumption
  <2> QED
    BY <1>1, <2>1, <2>2
    DEF ListingTypeOK, ListingConsistent, NothingMissed, ErrorHasCause
<1> QED
  BY <1>2, <1>3

---------------------------------------------------------------------------
(* The order of tags, and what is chosen.                                  *)

\* CompareTags is a total order: sorting tags by it gives one result, and two
\* different names never compare equal (CompareTags, policy/tags.go).
THEOREM TagsAreOrdered ==
    \A a, b, c \in TagRecord :
        /\ CompareTags(a, b) \in {-1, 0, 1} /\ CompareTags(b, a) = -CompareTags(a, b)
        /\ CompareTags(a, b) <= 0 /\ CompareTags(b, c) <= 0 => CompareTags(a, c) <= 0
        /\ CompareTags(a, b) = 0 /\ a.parses = b.parses => a = b
<1> SUFFICES ASSUME NEW a \in TagRecord, NEW b \in TagRecord, NEW c \in TagRecord
             PROVE  /\ CompareTags(a, b) \in {-1, 0, 1}
                    /\ CompareTags(b, a) = -CompareTags(a, b)
                    /\ CompareTags(a, b) <= 0 /\ CompareTags(b, c) <= 0 => CompareTags(a, c) <= 0
                    /\ CompareTags(a, b) = 0 /\ a.parses = b.parses => a = b
  OBVIOUS
<1>1. CompareTags(a, b) \in {-1, 0, 1} /\ CompareTags(b, a) = -CompareTags(a, b)
  BY DEF CompareTags, compareInt, TagRecord
<1>2. CompareTags(a, b) <= 0 /\ CompareTags(b, c) <= 0 => CompareTags(a, c) <= 0
  BY DEF CompareTags, compareInt, TagRecord
<1>3. CompareTags(a, b) = 0 /\ a.parses = b.parses => a = b
  BY DEF CompareTags, compareInt, TagRecord
<1> QED
  BY <1>1, <1>2, <1>3

\* Of the targets image-patch finds there is at most one: what it does depends
\* on the tags listed, not on their order (resolvePatchTargetTagForTarget).
THEOREM TargetIsUnique ==
    ASSUME NEW available \in SUBSET TagRecord, NEW current \in TagRecord
    PROVE  /\ \A s, t \in DefaultTargets(available, current) : s = t
           /\ \A requested : \A s, t \in ExplicitTargets(available, current, requested) : s = t
<1>1. ASSUME NEW s \in DefaultTargets(available, current),
             NEW t \in DefaultTargets(available, current)
      PROVE  s = t
  <2>1. /\ s \in TagRecord /\ t \in TagRecord /\ s.parses /\ t.parses
        /\ CompareTags(s, t) >= 0 /\ CompareTags(t, s) >= 0
    BY DEF DefaultTargets, PatchTargets, Newer
  <2>2. CompareTags(s, t) \in {-1, 0, 1} /\ CompareTags(t, s) = -CompareTags(s, t)
    BY <2>1, TagsAreOrdered
  <2>3. CompareTags(s, t) = 0
    BY <2>1, <2>2
  <2> QED
    BY <2>1, <2>3, TagsAreOrdered DEF TagRecord
<1> QED
  BY <1>1 DEF ExplicitTargets, PatchTargets


---------------------------------------------------------------------------
(* Commands one after the other.                                           *)

\* What holds of a listing at any time, all in one.
Listing == ListingTypeOK /\ ListingConsistent /\ NothingMissed /\ ErrorHasCause

LEMMA ListingHolds == Spec => []Listing
<1>1. Init => Listing
  BY ListingAssumption
  DEF Init, ListingInit, Listing, ListingTypeOK, ListingConsistent, NothingMissed, ErrorHasCause
<1>2. Listing /\ [Next]_vars => Listing'
  <2> SUFFICES ASSUME Listing, [Next]_vars PROVE Listing'
    OBVIOUS
  <2>1. ASSUME (\E names \in SUBSET Names : CallListTags(names)) \/ Return
        PROVE  Listing'
    BY <2>1, CallListed DEF Listing
  <2>2. ASSUME ListingStep PROVE Listing'
    <3>1. pc \in {"page", "token", "retry"}
      BY <2>2 DEF ListingStep, Request, FetchBearerToken, Retry, RequestFails
    <3> QED
      BY <2>2, <3>1, StepListed DEF Listing
  <2>3. CASE UNCHANGED vars
    BY <2>3 DEF vars, listingVars, Listing, ListingTypeOK, ListingConsistent, NothingMissed,
                ErrorHasCause
  <2> QED
    BY <2>1, <2>2, <2>3 DEF Next, Begin, PatchNext, PatchTo, Patch, End
<1> QED
  BY <1>1, <1>2, PTL DEF Spec

\* A listing below the limit has every tag that was in the repository all the
\* time: nothing falls between two pages, whatever is pushed or removed, however
\* many names a page holds that are ignored (ListTags, getTagsPage).
THEOREM NothingIsMissed == Spec => []NothingMissed
BY ListingHolds, PTL DEF Listing

\* A listing fails only if a request failed or there was nothing to list: a
\* token that expires between two pages, any number of times, is replaced
\* (getTagsPage, fetchBearerToken).
THEOREM ErrorsHaveCause == Spec => []ErrorHasCause
BY ListingHolds, PTL DEF Listing

\* A patch runs a tag of the registry, newer than the one that ran, and of no
\* newer minor release.
LEMMA PatchedTag ==
    ASSUME Listing, running \in TagRecord,
           PatchNext \/ \E n \in Names : PatchTo(TagOf[n])
    PROVE  /\ pc = "ok" /\ running' \in TagRecord
           /\ CompareTags(running', running) > 0
           /\ ~IsNewerMinorRelease(running, running')
<1>1. Available \subseteq TagRecord
  BY SelectionAssumption DEF Available, Listing, ListingTypeOK
<1>2. ASSUME NEW targets,
             targets = DefaultTargets(Available, running)
             \/ \E t : targets = ExplicitTargets(Available, running, t),
             Patch(targets)
      PROVE  /\ pc = "ok" /\ running' \in TagRecord
             /\ CompareTags(running', running) > 0
             /\ ~IsNewerMinorRelease(running, running')
  BY <1>1, <1>2 DEF Patch, DefaultTargets, ExplicitTargets, PatchTargets, Newer
<1> QED
  BY <1>2 DEF PatchNext, PatchTo

\* What runs is a tag that parses into numbers.
LEMMA RunningTyped == Spec => [](running \in TagRecord)
<1> DEFINE Typed == running \in TagRecord
<1>1. Init => Typed
  BY SelectionAssumption DEF Init
<1>2. Listing /\ Typed /\ [Next]_vars => Typed'
  <2> SUFFICES ASSUME Listing, Typed, [Next]_vars PROVE Typed'
    OBVIOUS
  <2> QED
    BY PatchedTag DEF Next, Begin, End, vars
<1> HIDE DEF Typed
<1>3. Spec => []Typed
  BY <1>1, <1>2, ListingHolds, PTL DEF Spec
<1> QED
  BY <1>3 DEF Typed

\* No chain of patches, with and without --tag and each allowed by itself, leads
\* to a minor release newer than the bundled one (resolvePatchTargetTagForTarget).
THEOREM NoNewerMinor == Spec => []NeverNewerMinor
<1> DEFINE Inv == running \in TagRecord /\ NeverNewerMinor
<1>1. Init => Inv
  BY SelectionAssumption DEF Init, NeverNewerMinor, IsNewerMinorRelease, TagRecord
<1>2. Listing /\ Inv /\ [Next]_vars => Inv'
  <2> SUFFICES ASSUME Listing, Inv, [Next]_vars PROVE Inv'
    OBVIOUS
  <2>1. CASE PatchNext \/ \E n \in Names : PatchTo(TagOf[n])
    <3>1. running' \in TagRecord /\ ~IsNewerMinorRelease(running, running')
      BY <2>1, PatchedTag
    <3> QED
      BY <3>1, SelectionAssumption DEF NeverNewerMinor, IsNewerMinorRelease, TagRecord
  <2>2. CASE UNCHANGED running
    BY <2>2 DEF NeverNewerMinor
  <2> QED
    BY <2>1, <2>2 DEF Next, Begin, End, vars
<1> QED
  BY <1>1, <1>2, ListingHolds, PTL DEF Spec

\* image-patch without --tag skips no tag: between the one that runs and the one
\* it takes lies none that was in the repository all the time, unless the limit
\* cut the listing off (ListTags, resolvePatchTargetTagForTarget).
THEOREM NextTagIsTaken == Spec => NothingSkipped
<1> DEFINE Typed == running \in TagRecord
<1>1. Listing /\ Typed /\ [Next]_vars =>
        [PatchNext /\ Cardinality(listed) < Limit =>
            ~\E n \in kept \ Ignored :
                /\ TagOf[n].parses
                /\ CompareTags(TagOf[n], running) > 0
                /\ CompareTags(TagOf[n], running') < 0]_vars
  <2> SUFFICES ASSUME Listing, running \in TagRecord, PatchNext, Cardinality(listed) < Limit,
                      NEW n \in kept \ Ignored, TagOf[n].parses,
                      CompareTags(TagOf[n], running) > 0
               PROVE  ~(CompareTags(TagOf[n], running') < 0)
    OBVIOUS
  <2>1. n \in listed
    BY PatchedTag DEF Listing, NothingMissed
  <2>2. TagOf[n] \in Newer(Available, running)
    BY <2>1 DEF Newer, Available
  <2>3. running' \in DefaultTargets(Available, running)
    BY DEF PatchNext, Patch
  <2>4. CompareTags(TagOf[n], running') >= 0
    BY <2>2, <2>3 DEF DefaultTargets, PatchTargets
  <2>5. TagOf[n] \in TagRecord /\ running' \in TagRecord
    BY <2>1, PatchedTag, SelectionAssumption DEF Listing, ListingTypeOK
  <2>6. CompareTags(TagOf[n], running') \in {-1, 0, 1}
    BY <2>5, TagsAreOrdered
  <2> QED
    BY <2>4, <2>6
<1>2. Spec => []Typed
  BY RunningTyped
<1> HIDE DEF Typed
<1> QED
  BY <1>1, <1>2, ListingHolds, PTL DEF Spec, NothingSkipped

\* image-list lists as eligible whatever image-patch would accept from the same
\* listing, with and without --tag (splitTagsByPatchWindow).
THEOREM PatchableAreListed == Spec => []PatchableIsListed
<1>1. PatchableIsListed
  BY DEF PatchableIsListed, DefaultTargets, ExplicitTargets, PatchTargets, EligibleTags, TagsToShow
<1> QED
  BY <1>1, PTL

---------------------------------------------------------------------------
(* The calendar: counting days, and going on one day.                      *)

\* What DayNumber adds up: the days before a year, and before a month of it.
YearStart(y) == 365 * y + (y + 3) \div 4 - (y + 99) \div 100 + (y + 399) \div 400
LeapDay(y) == IF IsLeap(y) THEN 1 ELSE 0
MonthStart(y, m) ==
    <<0, 31, 59, 90, 120, 151, 181, 212, 243, 273, 304, 334>>[m]
    + (IF m > 2 /\ IsLeap(y) THEN 1 ELSE 0)

\* IsDate, in years of more than four digits too.
DayOfCalendar(build) ==
    /\ build \in Nat
    /\ Month(build) \in 1..12
    /\ Day(build) \in 1..DaysIn(Year(build), Month(build))

DateOf(y, m, d) == y * 10000 + m * 100 + d

\* A build puts year, month and day together, two digits for each of the last two.
LEMMA DateParts ==
    ASSUME NEW y \in Nat, NEW m \in 0..99, NEW d \in 0..99
    PROVE  /\ DateOf(y, m, d) \in Nat
           /\ Year(DateOf(y, m, d)) = y /\ Month(DateOf(y, m, d)) = m
           /\ Day(DateOf(y, m, d)) = d
<1> DEFINE build == y * 10000 + m * 100 + d
<1>1. build \in Nat /\ build \div 10000 = y /\ build % 100 = d
  OBVIOUS
<1>2. build \div 100 = y * 100 + m
  OBVIOUS
<1>3. (y * 100 + m) % 100 = m
  OBVIOUS
<1> QED
  BY <1>1, <1>2, <1>3 DEF Year, Month, Day, DateOf

\* Taken apart and put together, it is the same build.
LEMMA DateIsItsParts ==
    ASSUME NEW build \in Nat
    PROVE  /\ Year(build) \in Nat /\ Month(build) \in 0..99 /\ Day(build) \in 0..99
           /\ build = Year(build) * 10000 + Month(build) * 100 + Day(build)
<1> DEFINE q == build \div 100
<1>1. q \in Nat /\ build % 100 \in 0..99 /\ build = q * 100 + (build % 100)
  OBVIOUS
<1>2. q % 100 \in 0..99 /\ q = (q \div 100) * 100 + (q % 100) /\ q \div 100 \in Nat
  BY <1>1
<1>3. q \div 100 = build \div 10000
  OBVIOUS
<1> HIDE DEF q
<1> QED
  BY <1>1, <1>2, <1>3 DEF Year, Month, Day, q

\* A year later is 365 days later, or 366.
LEMMA YearsCount ==
    ASSUME NEW y \in Nat
    PROVE  /\ YearStart(y) \in Int /\ LeapDay(y) \in 0..1
           /\ \A z \in Nat : z = y + 1 => YearStart(z) = YearStart(y) + 365 + LeapDay(y)
           /\ \A z \in Nat : y <= z => YearStart(y) <= YearStart(z)
<1>1. (y + 1 + 3) \div 4 = (y + 3) \div 4 + (IF y % 4 = 0 THEN 1 ELSE 0)
  OBVIOUS
<1>2. (y + 1 + 99) \div 100 = (y + 99) \div 100 + (IF y % 100 = 0 THEN 1 ELSE 0)
  OBVIOUS
<1>3. (y + 1 + 399) \div 400 = (y + 399) \div 400 + (IF y % 400 = 0 THEN 1 ELSE 0)
  OBVIOUS
<1>4. (y % 400 = 0 => y % 100 = 0) /\ (y % 100 = 0 => y % 4 = 0)
  OBVIOUS
<1>5. YearStart(y + 1) = YearStart(y) + 365 + LeapDay(y)
  BY <1>1, <1>2, <1>3, <1>4 DEF YearStart, LeapDay, IsLeap
<1>6. ASSUME NEW z \in Nat, y <= z PROVE YearStart(y) <= YearStart(z)
  BY <1>6 DEF YearStart
<1>7. YearStart(y) \in Int /\ LeapDay(y) \in 0..1
  BY DEF YearStart, LeapDay
<1> QED
  BY <1>5, <1>6, <1>7

\* The tables of the months.
LEMMA MonthsTyped ==
    ASSUME NEW y \in Nat, NEW m \in 1..12
    PROVE  MonthStart(y, m) \in Nat /\ DaysIn(y, m) \in 28..31
<1>1. m = 1 \/ m = 2 \/ m = 3 \/ m = 4 \/ m = 5 \/ m = 6 \/ m = 7 \/ m = 8 \/ m = 9
      \/ m = 10 \/ m = 11 \/ m = 12
  OBVIOUS
<1> QED
  BY <1>1 DEF MonthStart, DaysIn

\* A month begins where the one before it ends.
LEMMA MonthsCount ==
    ASSUME NEW y \in Nat
    PROVE  /\ \A m, n \in 1..12 : n = m + 1 =>
                 MonthStart(y, n) = MonthStart(y, m) + DaysIn(y, m)
           /\ MonthStart(y, 1) = 0
           /\ MonthStart(y, 12) + DaysIn(y, 12) = 365 + LeapDay(y)
<1>1. ASSUME NEW m \in 1..12, NEW n \in 1..12, n = m + 1
      PROVE  MonthStart(y, n) = MonthStart(y, m) + DaysIn(y, m)
  <2>1. m = 1 \/ m = 2 \/ m = 3 \/ m = 4 \/ m = 5 \/ m = 6 \/ m = 7 \/ m = 8 \/ m = 9
        \/ m = 10 \/ m = 11
    BY <1>1
  <2> QED
    BY <1>1, <2>1 DEF MonthStart, DaysIn
<1>2. MonthStart(y, 1) = 0 /\ MonthStart(y, 12) + DaysIn(y, 12) = 365 + LeapDay(y)
  BY DEF MonthStart, DaysIn, LeapDay
<1> QED
  BY <1>1, <1>2

\* The months of a year follow each other.
LEMMA MonthsFollow ==
    ASSUME NEW y \in Nat, NEW m \in 1..12
    PROVE  /\ \A n \in 1..12 : m < n => MonthStart(y, m) + DaysIn(y, m) <= MonthStart(y, n)
           /\ MonthStart(y, m) + DaysIn(y, m) <= 365 + LeapDay(y)
<1> DEFINE At(k) == MonthStart(y, k)
           Of(k) == DaysIn(y, k)
<1>1. \A k \in 1..12 : At(k) \in Nat /\ Of(k) \in 28..31
  BY MonthsTyped
<1>2. /\ \A k, l \in 1..12 : l = k + 1 => At(l) = At(k) + Of(k)
      /\ At(12) + Of(12) = 365 + LeapDay(y)
  BY MonthsCount
<1>3. LeapDay(y) \in 0..1
  BY YearsCount
<1> HIDE DEF At, Of
<1>4. /\ At(2) = At(1) + Of(1) /\ At(3) = At(2) + Of(2) /\ At(4) = At(3) + Of(3)
      /\ At(5) = At(4) + Of(4) /\ At(6) = At(5) + Of(5) /\ At(7) = At(6) + Of(6)
      /\ At(8) = At(7) + Of(7) /\ At(9) = At(8) + Of(8) /\ At(10) = At(9) + Of(9)
      /\ At(11) = At(10) + Of(10) /\ At(12) = At(11) + Of(11)
  BY <1>2
<1>5. m = 1 \/ m = 2 \/ m = 3 \/ m = 4 \/ m = 5 \/ m = 6 \/ m = 7 \/ m = 8 \/ m = 9
      \/ m = 10 \/ m = 11 \/ m = 12
  OBVIOUS
<1>6. ASSUME NEW n \in 1..12, m < n
      PROVE  At(m) + Of(m) <= At(n)
  <2>1. n = 1 \/ n = 2 \/ n = 3 \/ n = 4 \/ n = 5 \/ n = 6 \/ n = 7 \/ n = 8 \/ n = 9
        \/ n = 10 \/ n = 11 \/ n = 12
    OBVIOUS
  <2> QED
    BY <1>1, <1>4, <1>5, <1>6, <2>1
<1>7. At(m) + Of(m) <= 365 + LeapDay(y)
  BY <1>1, <1>2, <1>3, <1>4, <1>5
<1> QED
  BY <1>6, <1>7 DEF At, Of

\* DayNumber is the sum of the three.
LEMMA DaysSum ==
    ASSUME NEW b, DayOfCalendar(b)
    PROVE  DayNumber(b) = YearStart(Year(b)) + MonthStart(Year(b), Month(b)) + Day(b) - 1
<1> DEFINE y == Year(b)
           m == Month(b)
           d == Day(b)
<1>1. y \in Nat /\ m \in 1..12 /\ d \in Nat
  BY DateIsItsParts DEF DayOfCalendar
<1>2. DayNumber(b) =
         365 * y + (y + 3) \div 4 - (y + 99) \div 100 + (y + 399) \div 400
         + <<0, 31, 59, 90, 120, 151, 181, 212, 243, 273, 304, 334>>[m]
         + (IF m > 2 /\ IsLeap(y) THEN 1 ELSE 0) + d - 1
  BY DEF DayNumber
<1>3. /\ YearStart(y) = 365 * y + (y + 3) \div 4 - (y + 99) \div 100 + (y + 399) \div 400
      /\ YearStart(y) \in Int
  <2>1. YearStart(y) \in Int
    BY <1>1, YearsCount
  <2> QED
    BY <2>1 DEF YearStart
<1>4. /\ MonthStart(y, m) =
            <<0, 31, 59, 90, 120, 151, 181, 212, 243, 273, 304, 334>>[m]
            + (IF m > 2 /\ IsLeap(y) THEN 1 ELSE 0)
      /\ <<0, 31, 59, 90, 120, 151, 181, 212, 243, 273, 304, 334>>[m] \in Nat
  BY <1>1 DEF MonthStart
<1> HIDE DEF y, m, d
<1>5. DayNumber(b) = YearStart(y) + MonthStart(y, m) + d - 1
  BY <1>1, <1>2, <1>3, <1>4
<1> QED
  BY <1>5 DEF y, m, d

\* DayNumber grows with the date.
LEMMA LaterIsMore ==
    ASSUME NEW a, NEW b, DayOfCalendar(a), DayOfCalendar(b), a < b
    PROVE  DayNumber(a) < DayNumber(b)
<1> DEFINE y == Year(a)
           z == Year(b)
           m == Month(a)
           n == Month(b)
           c == Day(a)
           d == Day(b)
<1>1. /\ a \in Nat /\ b \in Nat /\ y \in Nat /\ z \in Nat /\ m \in 1..12 /\ n \in 1..12
      /\ c \in 1..DaysIn(y, m) /\ d \in 1..DaysIn(z, n)
      /\ a = y * 10000 + m * 100 + c /\ b = z * 10000 + n * 100 + d
      /\ c \in 1..99 /\ d \in 1..99
  BY DateIsItsParts DEF DayOfCalendar
<1>2. /\ DayNumber(a) = YearStart(y) + MonthStart(y, m) + c - 1
      /\ DayNumber(b) = YearStart(z) + MonthStart(z, n) + d - 1
  BY DaysSum
<1>3. /\ YearStart(y) \in Int /\ YearStart(z) \in Int
      /\ MonthStart(y, m) \in Nat /\ MonthStart(z, n) \in Nat
      /\ DaysIn(y, m) \in Nat /\ DaysIn(z, n) \in Nat
  <2>0. y \in Nat /\ z \in Nat /\ m \in 1..12 /\ n \in 1..12
    BY <1>1
  <2>1. YearStart(y) \in Int /\ YearStart(z) \in Int
    BY <2>0, YearsCount
  <2>2. MonthStart(y, m) \in Nat /\ DaysIn(y, m) \in 28..31
    BY <2>0, MonthsTyped
  <2>3. MonthStart(z, n) \in Nat /\ DaysIn(z, n) \in 28..31
    BY <2>0, MonthsTyped
  <2> QED
    BY <2>1, <2>2, <2>3
<1> HIDE DEF y, z, m, n, c, d
<1>4. y < z \/ (y = z /\ m < n) \/ (y = z /\ m = n /\ c < d)
  <2>1. /\ y \in Nat /\ z \in Nat /\ m \in 1..12 /\ n \in 1..12 /\ c \in 1..99 /\ d \in 1..99
        /\ y * 10000 + m * 100 + c < z * 10000 + n * 100 + d
    BY <1>1
  <2> QED
    BY <2>1
<1>5. CASE y < z
  <2>1. y + 1 \in Nat /\ y + 1 <= z /\ LeapDay(y) \in 0..1
    BY <1>1, <1>5, YearsCount
  <2>2. YearStart(y) + 365 + LeapDay(y) <= YearStart(z)
    BY <1>1, <2>1, YearsCount
  <2>3. MonthStart(y, m) + DaysIn(y, m) <= 365 + LeapDay(y)
    BY <1>1, MonthsFollow
  <2> QED
    BY <1>1, <1>2, <1>3, <2>1, <2>2, <2>3
<1>6. CASE y = z /\ m < n
  <2>1. MonthStart(y, m) + DaysIn(y, m) <= MonthStart(z, n)
    BY <1>1, <1>6, MonthsFollow
  <2> QED
    BY <1>1, <1>2, <1>3, <1>6, <2>1
<1>7. CASE y = z /\ m = n /\ c < d
  BY <1>1, <1>2, <1>3, <1>7
<1> QED
  BY <1>4, <1>5, <1>6, <1>7

\* NextDay goes on one day, across the ends of months and years.
LEMMA NextDayCounts ==
    ASSUME NEW b, DayOfCalendar(b)
    PROVE  DayOfCalendar(NextDay(b)) /\ DayNumber(NextDay(b)) = DayNumber(b) + 1
<1> DEFINE y == Year(b)
           m == Month(b)
           d == Day(b)
           after == NextDay(b)
<1>1. /\ b \in Nat /\ y \in Nat /\ m \in 1..12 /\ d \in 1..DaysIn(y, m)
      /\ b = y * 10000 + m * 100 + d /\ d \in 1..99
  BY DateIsItsParts DEF DayOfCalendar
<1>2. /\ YearStart(y) \in Int /\ MonthStart(y, m) \in Nat /\ DaysIn(y, m) \in 28..31
  <2>0. y \in Nat /\ m \in 1..12
    BY <1>1
  <2>1. YearStart(y) \in Int
    BY <2>0, YearsCount
  <2>2. MonthStart(y, m) \in Nat /\ DaysIn(y, m) \in 28..31
    BY <2>0, MonthsTyped
  <2> QED
    BY <2>1, <2>2
<1>4. after = IF d < DaysIn(y, m) THEN b + 1
             ELSE IF m < 12 THEN y * 10000 + (m + 1) * 100 + 1
             ELSE (y + 1) * 10000 + 101
  BY DEF NextDay
<1> HIDE DEF y, m, d, after
<1>5. ASSUME NEW yy \in Nat, NEW mm \in 1..12, NEW dd \in 0..99, dd \in 1..DaysIn(yy, mm),
             after = DateOf(yy, mm, dd)
      PROVE  DayOfCalendar(after) /\ DayNumber(after) = YearStart(yy) + MonthStart(yy, mm) + dd - 1
  <2>1. mm \in 0..99
    OBVIOUS
  <2>2. after \in Nat /\ Year(after) = yy /\ Month(after) = mm /\ Day(after) = dd
    BY <1>5, <2>1, DateParts
  <2>3. DayOfCalendar(after)
    BY <1>5, <2>2 DEF DayOfCalendar
  <2> QED
    BY <2>2, <2>3, DaysSum
<1>6. DayNumber(b) = YearStart(y) + MonthStart(y, m) + d - 1
  BY DaysSum DEF y, m, d
<1>7. CASE d < DaysIn(y, m)
  <2>1. d + 1 \in 1..DaysIn(y, m) /\ d + 1 \in 0..99 /\ after = y * 10000 + m * 100 + (d + 1)
    BY <1>1, <1>2, <1>4, <1>7
  <2>2. DayOfCalendar(after) /\ DayNumber(after) = YearStart(y) + MonthStart(y, m) + (d + 1) - 1
    <3>1. y \in Nat /\ m \in 1..12 /\ d + 1 \in 0..99 /\ d + 1 \in 1..DaysIn(y, m)
      BY <1>1, <2>1
    <3>2. after = DateOf(y, m, d + 1)
      BY <2>1 DEF DateOf
    <3> QED
      BY <1>5, <3>1, <3>2
  <2> QED
    BY <1>1, <1>2, <1>6, <2>2 DEF after
<1>8. CASE d = DaysIn(y, m) /\ m < 12
  <2>1. m + 1 \in 1..12 /\ DaysIn(y, m + 1) \in 28..31
    <3>1. m + 1 \in 1..12
      BY <1>1, <1>8
    <3>2. y \in Nat
      BY <1>1
    <3> QED
      BY <3>1, <3>2, MonthsTyped
  <2>2. 1 \in 1..DaysIn(y, m + 1) /\ after = DateOf(y, m + 1, 1)
    BY <1>2, <1>4, <1>8, <2>1 DEF DateOf
  <2>3. DayOfCalendar(after) /\ DayNumber(after) = YearStart(y) + MonthStart(y, m + 1) + 1 - 1
    BY <1>1, <1>5, <2>1, <2>2
  <2>4. MonthStart(y, m + 1) = MonthStart(y, m) + DaysIn(y, m)
    BY <1>1, <1>8, MonthsCount
  <2> QED
    BY <1>1, <1>2, <1>6, <1>8, <2>3, <2>4 DEF after
<1>9. CASE d = DaysIn(y, m) /\ m = 12
  <2>1. y + 1 \in Nat /\ DaysIn(y + 1, 1) \in 28..31 /\ MonthStart(y + 1, 1) = 0
    <3>1. y + 1 \in Nat /\ 1 \in 1..12
      BY <1>1
    <3> QED
      BY <3>1, MonthsTyped, MonthsCount
  <2>2. 1 \in 1..DaysIn(y + 1, 1) /\ after = DateOf(y + 1, 1, 1)
    BY <1>1, <1>2, <1>4, <1>9, <2>1 DEF DateOf
  <2>3. DayOfCalendar(after) /\ DayNumber(after) = YearStart(y + 1) + MonthStart(y + 1, 1) + 1 - 1
    BY <1>1, <1>5, <2>1, <2>2
  <2>4. YearStart(y + 1) = YearStart(y) + 365 + LeapDay(y) /\ LeapDay(y) \in 0..1
    BY <1>1, <2>1, YearsCount
  <2>5. MonthStart(y, m) + DaysIn(y, m) = 365 + LeapDay(y)
    BY <1>1, <1>9, MonthsCount
  <2> QED
    BY <1>1, <1>2, <1>6, <1>9, <2>1, <2>3, <2>4, <2>5 DEF after
<1> QED
  BY <1>1, <1>2, <1>7, <1>8, <1>9

---------------------------------------------------------------------------
(* The patch window.                                                       *)

\* The reference calendar is what its recursive definition says.
LEMMA DaysLaterDefined ==
    /\ DaysLater[0] = Start
    /\ \A n \in 1..PatchWindowDays : DaysLater[n] = NextDay(DaysLater[n - 1])
<1> DEFINE Days(f, last) == f = [n \in 0..last |-> IF n = 0 THEN Start ELSE NextDay(f[n - 1])]
           S == {last \in Nat : ~\E f : Days(f, last)}
<1>1. ASSUME NEW last \in S, \A b \in S : last <= b
      PROVE  FALSE
  <2>1. CASE last = 0
    <3> DEFINE f == [n \in 0..0 |-> Start]
    <3>1. f = [n \in 0..0 |-> IF n = 0 THEN Start ELSE NextDay(f[n - 1])]
      OBVIOUS
    <3> QED
      BY <2>1, <3>1
  <2>2. CASE last # 0
    <3>1. last \in Nat /\ last - 1 \in Nat /\ last - 1 \notin S
      <4>1. last \in Nat
        OBVIOUS
      <4>2. last - 1 \in S => last <= last - 1
        BY <1>1
      <4> HIDE DEF S
      <4> QED
        BY <2>2, <4>1, <4>2
    <3>2. PICK f : f = [n \in 0..last - 1 |-> IF n = 0 THEN Start ELSE NextDay(f[n - 1])]
      BY <3>1
    <3> DEFINE g == [n \in 0..last |-> IF n = last THEN NextDay(f[last - 1]) ELSE f[n]]
    <3>3. ASSUME NEW n \in 0..last
          PROVE  g[n] = IF n = 0 THEN Start ELSE NextDay(g[n - 1])
      <4>1. CASE n = 0
        BY <2>2, <3>1, <3>2, <4>1
      <4>2. CASE n # 0
        <5>1. n - 1 \in 0..last - 1 /\ n - 1 \in 0..last /\ n - 1 # last
          BY <3>1, <4>2
        <5>2. g[n - 1] = f[n - 1]
          BY <5>1
        <5>3. CASE n = last
          BY <4>2, <5>2, <5>3
        <5>4. CASE n # last
          <6>1. n \in 0..last - 1
            BY <3>1, <5>4
          <6> QED
            BY <3>2, <4>2, <5>2, <5>4, <6>1
        <5> QED
          BY <5>3, <5>4
      <4> QED
        BY <4>1, <4>2
    <3>4. g = [n \in 0..last |-> IF n = 0 THEN Start ELSE NextDay(g[n - 1])]
      <4> HIDE DEF g
      <4>1. g = [n \in 0..last |-> g[n]]
        BY DEF g
      <4> QED
        BY <3>3, <4>1
    <3> QED
      BY <3>4
  <2> QED
    BY <2>1, <2>2
<1>2. S = {}
  <2>1. S \in SUBSET Nat
    OBVIOUS
  <2> HIDE DEF S
  <2> QED
    BY <1>1, <2>1, Smallest
<1>3. PatchWindowDays \in Nat
  BY DEF PatchWindowDays
<1>4. \E f : Days(f, PatchWindowDays)
  BY <1>2, <1>3
<1>5. DaysLater = [n \in 0..PatchWindowDays |->
                      IF n = 0 THEN Start ELSE NextDay(DaysLater[n - 1])]
  BY <1>4 DEF DaysLater
<1> QED
  BY <1>3, <1>5

\* It counts as DayNumber does.
LEMMA LastDayCounts ==
    /\ DayOfCalendar(DaysLater[PatchWindowDays])
    /\ DayNumber(DaysLater[PatchWindowDays]) = DayNumber(Start) + PatchWindowDays
    /\ DayOfCalendar(Start) /\ DayNumber(Start) \in Int
<1>1. DayOfCalendar(Start)
  BY SelectionAssumption DEF IsDate, DayOfCalendar
<1>2. DayNumber(Start) \in Int
  <2>1. Year(Start) \in Nat /\ Month(Start) \in 1..12 /\ Day(Start) \in Int
    BY <1>1, DateIsItsParts DEF DayOfCalendar
  <2>2. YearStart(Year(Start)) \in Int /\ MonthStart(Year(Start), Month(Start)) \in Nat
    BY <2>1, YearsCount, MonthsTyped
  <2> QED
    BY <1>1, <2>1, <2>2, DaysSum
<1> DEFINE Counts(n) == /\ DayOfCalendar(DaysLater[n])
                        /\ DayNumber(DaysLater[n]) = DayNumber(Start) + n
           S == {n \in 0..PatchWindowDays : ~Counts(n)}
<1>3. PatchWindowDays \in Nat
  BY DEF PatchWindowDays
<1>4. ASSUME NEW n \in S, \A b \in S : n <= b
      PROVE  FALSE
  <2>1. CASE n = 0
    BY <1>1, <1>2, <1>3, <2>1, DaysLaterDefined
  <2>2. CASE n # 0
    <3>1. n \in 1..PatchWindowDays /\ n - 1 \in 0..PatchWindowDays /\ n - 1 \notin S
      BY <1>3, <1>4, <2>2
    <3>2. Counts(n - 1)
      BY <3>1
    <3>3. DaysLater[n] = NextDay(DaysLater[n - 1])
      BY <3>1, DaysLaterDefined
    <3>4. /\ DayOfCalendar(DaysLater[n])
          /\ DayNumber(DaysLater[n]) = DayNumber(DaysLater[n - 1]) + 1
      BY <3>2, <3>3, NextDayCounts
    <3> QED
      BY <1>2, <3>1, <3>2, <3>4
  <2> QED
    BY <2>1, <2>2
<1>5. S = {}
  <2>1. S \in SUBSET Nat
    BY <1>3
  <2> HIDE DEF S
  <2> QED
    BY <1>4, <2>1, Smallest
<1>6. Counts(PatchWindowDays)
  BY <1>3, <1>5
<1> QED
  BY <1>1, <1>2, <1>6

\* However many patches are made, a component that is not exempt never runs a tag
\* built after the last day of the window, 45 days of the calendar from the
\* zero-day (ValidatePatchWindow).
THEOREM WindowIsKept == Spec => []WithinWindow
<1>1. Init => WithinWindow
  BY DEF Init, WithinWindow
<1>2. ASSUME NEW t \in TagRecord, ValidatePatchWindow(Exempt, t, Start) = "ok", ~Exempt
      PROVE  t.build <= DaysLater[PatchWindowDays]
  <2>1. HasBuildDate(t) /\ ~(DayNumber(t.build) > DayNumber(Start) + PatchWindowDays)
    BY <1>2 DEF ValidatePatchWindow
  <2>2. DayOfCalendar(t.build)
    BY <2>1 DEF HasBuildDate, IsDate, DayOfCalendar, TagRecord
  <2>3. ~(DaysLater[PatchWindowDays] < t.build)
    <3>1. ASSUME DaysLater[PatchWindowDays] < t.build
          PROVE  DayNumber(DaysLater[PatchWindowDays]) < DayNumber(t.build)
      BY <2>2, <3>1, LaterIsMore, LastDayCounts
    <3>2. DayNumber(t.build) \in Int
      <4>1. /\ Year(t.build) \in Nat /\ Month(t.build) \in 1..12 /\ Day(t.build) \in Int
        BY <2>2, DateIsItsParts DEF DayOfCalendar
      <4>2. /\ YearStart(Year(t.build)) \in Int
            /\ MonthStart(Year(t.build), Month(t.build)) \in Nat
        BY <4>1, YearsCount, MonthsTyped
      <4> QED
        BY <2>2, <4>1, <4>2, DaysSum
    <3>3. PatchWindowDays \in Nat
      BY DEF PatchWindowDays
    <3> QED
      BY <2>1, <3>1, <3>2, <3>3, LastDayCounts
  <2>4. t.build \in Nat /\ DaysLater[PatchWindowDays] \in Nat
    BY <2>2, LastDayCounts DEF DayOfCalendar
  <2> QED
    BY <2>3, <2>4
<1>3. Listing /\ running \in TagRecord /\ WithinWindow /\ [Next]_vars => WithinWindow'
  <2> SUFFICES ASSUME Listing, running \in TagRecord, WithinWindow, [Next]_vars
               PROVE  WithinWindow'
    OBVIOUS
  <2>1. CASE PatchNext \/ \E n \in Names : PatchTo(TagOf[n])
    <3>1. running' \in TagRecord
      BY <2>1, PatchedTag
    <3>2. ValidatePatchWindow(Exempt, running', Start) = "ok"
      BY <2>1 DEF PatchNext, PatchTo, Patch
    <3> QED
      BY <1>2, <3>1, <3>2 DEF WithinWindow
  <2>2. CASE UNCHANGED running
    BY <2>2 DEF WithinWindow
  <2> QED
    BY <2>1, <2>2 DEF Next, Begin, End, vars
<1> QED
  BY <1>1, <1>3, ListingHolds, RunningTyped, PTL DEF Spec

=============================================================================
