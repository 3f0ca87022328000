----------------------------- MODULE TagPolicy -----------------------------
(***************************************************************************)
(* The pure rules of internal/policy that decide which tags a component    *)
(* may be patched to.  They are shared by the CLI and the controller.      *)
(*                                                                         *)
(* A tag is the record ParseTag returns.  The four string tie-breaks of    *)
(* CompareTags (FlavorBase, FlavorNumber, Flavor, Name) are one number,    *)
(* "flavor": the rank of the tag among the tags that agree on the rest.    *)
(* A name ParseTag rejects (a signature, an attestation, a version without *)
(* three parts) is a record with parses = FALSE.  A build is the number    *)
(* behind "-build", normally a date yyyymmdd; 0 stands for no build.       *)
(***************************************************************************)
EXTENDS Integers

\* The fields a tag has once parsed.
TagRecord == [parses : BOOLEAN, build : Nat, major : Nat, minor : Nat,
              patch : Nat, flavor : Nat]

\* 1 if left is newer than right, -1 if older, 0 if equal.
compareInt(left, right) ==
    IF left > right THEN 1 ELSE IF left < right THEN -1 ELSE 0

\* The build date decides before the version does: a rebuild of an older
\* version that was published later is the newer tag.
CompareTags(left, right) ==
    CASE left.build # right.build -> compareInt(left.build, right.build)
      [] left.build = right.build /\ left.major # right.major ->
            compareInt(left.major, right.major)
      [] left.build = right.build /\ left.major = right.major
         /\ left.minor # right.minor -> compareInt(left.minor, right.minor)
      [] left.build = right.build /\ left.major = right.major
         /\ left.minor = right.minor /\ left.patch # right.patch ->
            compareInt(left.patch, right.patch)
      [] OTHER -> compareInt(left.flavor, right.flavor)

IsNewerMinorRelease(current, target) ==
    IF target.major # current.major THEN target.major > current.major
                                    ELSE target.minor > current.minor

SameReleaseLine(a, b) == a.major = b.major /\ a.minor = b.minor

---------------------------------------------------------------------------
(* Build dates: time.Parse("20060102", ...) and AddDate on the calendar.   *)

PatchWindowDays == 45

Year(build) == build \div 10000
Month(build) == (build \div 100) % 100
Day(build) == build % 100

IsLeap(y) == y % 4 = 0 /\ (y % 100 # 0 \/ y % 400 = 0)

DaysIn(y, m) ==
    IF m = 2 /\ IsLeap(y) THEN 29
    ELSE <<31, 28, 31, 30, 31, 30, 31, 31, 30, 31, 30, 31>>[m]

\* The builds that are a date: eight digits, a real month and a real day.
IsDate(build) ==
    /\ build > 0 /\ build < 100000000
    /\ Month(build) \in 1..12
    /\ Day(build) \in 1..DaysIn(Year(build), Month(build))

\* BuildDate succeeds on parsed tags with a dated build only.
HasBuildDate(tag) == tag.parses /\ IsDate(tag.build)

\* Days since 0000-01-01.
DayNumber(build) ==
    LET y == Year(build)
        m == Month(build)
        before == <<0, 31, 59, 90, 120, 151, 181, 212, 243, 273, 304, 334>>[m]
    IN  365 * y + (y + 3) \div 4 - (y + 99) \div 100 + (y + 399) \div 400
        + before + (IF m > 2 /\ IsLeap(y) THEN 1 ELSE 0) + Day(build) - 1

---------------------------------------------------------------------------
(* The validations.  Each one returns "ok" or the reason of the Violation. *)

\* Mutant: the deadline is one day late.
ValidatePatchWindowLate(exempt, targetTag, zeroDay) ==
    IF exempt THEN "ok"
    ELSE IF ~HasBuildDate(targetTag) THEN "UnparsableTag"
    ELSE IF DayNumber(targetTag.build) > DayNumber(zeroDay) + PatchWindowDays + 1
    THEN "OutsidePatchWindow" ELSE "ok"

\* The deadline day itself is still inside the window (After is strict).
\* zeroDay is the build of the running kube-apiserver image.
ValidatePatchWindow(exempt, targetTag, zeroDay) ==
    CASE exempt -> "ok"
      [] ~exempt /\ ~HasBuildDate(targetTag) -> "UnparsableTag"
      [] ~exempt /\ HasBuildDate(targetTag) ->
            IF DayNumber(targetTag.build) > DayNumber(zeroDay) + PatchWindowDays
            THEN "OutsidePatchWindow" ELSE "ok"

\* Newer than the bundled tag and on the same major/minor release line.
ValidateAgainstBaseline(baselineTag, targetTag) ==
    IF ~baselineTag.parses \/ ~targetTag.parses THEN "UnparsableTag"
    ELSE IF CompareTags(targetTag, baselineTag) <= 0 THEN "NotNewer"
    ELSE IF ~SameReleaseLine(targetTag, baselineTag) THEN "MinorVersionChange"
    ELSE "ok"

\* OrderTags drops the names that do not parse before they get here.
ValidateExplicitTarget(baselineTag, targetTag, availableTags) ==
    IF ~(targetTag \in availableTags /\ targetTag.parses) THEN "TagNotFound"
    ELSE ValidateAgainstBaseline(baselineTag, targetTag)

\* Tags that do not parse are never refused here.
ValidateNotOlderThanCurrent(currentTag, targetTag) ==
    IF currentTag.parses /\ targetTag.parses /\ CompareTags(targetTag, currentTag) < 0
    THEN "NotNewer" ELSE "ok"

---------------------------------------------------------------------------
(* What the CLI patches to, and what it lists (internal/cmd).  "available" *)
(* is what the registry lists; names that do not parse are left out.       *)

Newer(available, current) ==
    {t \in available : t.parses /\ CompareTags(t, current) > 0}

\* Mutant: a newer minor release is not refused.
PatchTargetsOfAnyMinor(available, current, candidates) ==
    {t \in candidates : current \in available /\ current.parses}

\* The targets image-patch accepts, at most one; none when it refuses.  The
\* current tag itself must be among the listed ones.
PatchTargets(available, current, candidates) ==
    {t \in candidates : /\ current \in available /\ current.parses
                        /\ ~IsNewerMinorRelease(current, t)}

\* Mutant: the newest tag instead of the next one.
DefaultTargetsNewest(available, current) ==
    PatchTargets(available, current,
        {t \in Newer(available, current) :
            \A u \in Newer(available, current) : CompareTags(u, t) <= 0})

\* Without --tag: the next newer tag.
DefaultTargets(available, current) ==
    PatchTargets(available, current,
        {t \in Newer(available, current) :
            \A u \in Newer(available, current) : CompareTags(u, t) >= 0})

\* With --tag: that tag, on the release line of the running one.
ExplicitTargets(available, current, requested) ==
    PatchTargets(available, current,
        {t \in Newer(available, current) \cap {requested} : SameReleaseLine(t, current)})

\* image-list shows the newer tags, the current one and the one before it.
PreviousTags(available, current) ==
    LET older == {t \in available : t.parses /\ CompareTags(t, current) < 0}
    IN  {t \in older : \A u \in older : CompareTags(u, t) <= 0}

\* Mutant: other release lines are hidden.
TagsOfReleaseLine(available, current) ==
    IF current \notin available \/ ~current.parses THEN {}
    ELSE {t \in Newer(available, current) : SameReleaseLine(t, current)}
            \cup {current} \cup PreviousTags(available, current)

TagsToShow(available, current) ==
    IF current \notin available \/ ~current.parses THEN {}
    ELSE Newer(available, current) \cup {current} \cup PreviousTags(available, current)

\* Those it lists as eligible; the rest "require an RKE2 upgrade".
EligibleTags(exempt, available, current, zeroDay) ==
    {t \in TagsToShow(available, current) :
        \/ t \in {current} \cup PreviousTags(available, current)
        \/ ValidatePatchWindow(exempt, t, zeroDay) = "ok"}
=============================================================================
