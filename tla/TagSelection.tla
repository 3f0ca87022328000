---------------------------- MODULE TagSelection ----------------------------
(***************************************************************************)
(* One component patched again and again with the CLI: image-patch with    *)
(* and without --tag lists the tags (TagListing), page by page, and        *)
(* chooses among them.  image-list is judged by what image-patch would do  *)
(* with the same listing.  The rollout of a patch is complete before the   *)
(* next command.                                                           *)
(***************************************************************************)
EXTENDS TagPolicy, TagListing

CONSTANTS
    TagOf,      \* what ParseTag makes of a name
    Shipped,    \* the tag the chart bundles
    Start,      \* build of the kube-apiserver image: the zero-day
    Exempt      \* IsPatchWindowExempt of the component

ASSUME SelectionAssumption ==
    /\ TagOf \in [Names -> TagRecord]
    /\ \A m, n \in Names : TagOf[m] = TagOf[n] /\ TagOf[m].parses => m = n
    /\ Shipped \in TagRecord /\ Shipped.parses
    /\ Start \in Nat /\ IsDate(Start)
    /\ Exempt \in BOOLEAN

VARIABLE running   \* the tag the pods run

vars == <<listingVars, running>>

Init == ListingInit /\ running = Shipped

Begin(names) == CallListTags(names) /\ UNCHANGED running

\* What the commands choose from.
Available == {TagOf[n] : n \in listed}

Patch(targets) ==
    /\ pc = "ok"
    /\ \E t \in targets :
          /\ ValidatePatchWindow(Exempt, t, Start) = "ok"
          /\ running' = t
    /\ Return

PatchNext == Patch(DefaultTargets(Available, running))

PatchTo(t) == Patch(ExplicitTargets(Available, running, t))

\* No tags, or none to patch to; or the command only looked (image-list).
End == Return /\ UNCHANGED running

Next ==
    \/ \E names \in SUBSET Names : Begin(names)
    \/ ListingStep /\ UNCHANGED running
    \/ PatchNext
    \/ \E n \in Names : PatchTo(TagOf[n])
    \/ End

Spec == Init /\ [][Next]_vars

---------------------------------------------------------------------------
(* The calendar again, day by day, as the reference for the patch window.  *)

NextDay(build) ==
    LET y == Year(build)
        m == Month(build)
        d == Day(build)
    IN  IF d < DaysIn(y, m) THEN build + 1
        ELSE IF m < 12 THEN y * 10000 + (m + 1) * 100 + 1
        ELSE (y + 1) * 10000 + 101

DaysLater[n \in 0..PatchWindowDays] ==
    IF n = 0 THEN Start ELSE NextDay(DaysLater[n - 1])

---------------------------------------------------------------------------
(* Properties.                                                             *)

\* However many patches are made, a component that is not exempt never runs a
\* tag built after the last day of the window: 45 calendar days from the
\* zero-day, across month ends and leap days (ValidatePatchWindow).
WithinWindow ==
    Exempt \/ running = Shipped \/ running.build <= DaysLater[PatchWindowDays]

\* No chain of patches, each allowed by itself, leads to a minor release newer
\* than the bundled one (README.md:171, resolvePatchTargetTagForTarget).
NeverNewerMinor == ~IsNewerMinorRelease(Shipped, running)

\* image-patch without --tag takes the next newer tag: none lies between the
\* old one and the new one that was in the repository all the time, whatever was
\* pushed or removed meanwhile, unless the limit cut the listing off.
NothingSkipped ==
    [][PatchNext /\ Cardinality(listed) < Limit =>
          ~\E n \in kept \ Ignored :
              /\ TagOf[n].parses
              /\ CompareTags(TagOf[n], running) > 0
              /\ CompareTags(TagOf[n], running') < 0]_vars

\* image-list does not hide a choice: what image-patch would accept is listed
\* as eligible (splitTagsByPatchWindow).
PatchableIsListed ==
    pc = "ok" =>
        \A n \in Names :
            LET accepted == {t \in DefaultTargets(Available, running)
                                   \cup ExplicitTargets(Available, running, TagOf[n]) :
                                ValidatePatchWindow(Exempt, t, Start) = "ok"}
            IN  accepted \subseteq EligibleTags(Exempt, Available, running, Start)
=============================================================================
