---------------------------- MODULE TagListing ----------------------------
(***************************************************************************)
(* ListTags of internal/registry: the tags of a repository are read page   *)
(* by page, with a bearer token that may expire on the way, while others   *)
(* push and delete tags.                                                   *)
(*                                                                         *)
(* A name is a number, its place in the order in which the registry lists  *)
(* names.  What happens to the repository between two calls is chosen when *)
(* the second begins.                                                      *)
(***************************************************************************)
EXTENDS Integers, FiniteSets

CONSTANTS
    Names,      \* names that may be in the repository
    Ignored,    \* names ListTags leaves out: latest, sha256-..., .sig, .att
    Limit,      \* how many tags are asked for
    PageSize,   \* min(100, Limit)
    Private,    \* the registry asks for a token
    Budget      \* how often each move of the environment may happen during a call

Moves == {"push", "remove", "expire", "fault"}

ASSUME ListingAssumption ==
    /\ Names \subseteq Nat \ {0} /\ IsFiniteSet(Names)
    /\ Ignored \subseteq Names
    /\ Limit \in Nat \ {0} /\ PageSize \in 1..Limit
    /\ Private \in BOOLEAN
    /\ Budget \in [Moves -> Nat]

VARIABLES
    published,  \* names in the repository
    pc,         \* where ListTags is: "idle", on its way, "ok" or "error"
    token,      \* the bearer token held
    next,       \* the page to ask for: the names after this one
    listed,     \* names listed so far
    kept,       \* history: names that have been there all the time
    budget

listingVars == <<published, pc, token, next, listed, kept, budget>>

ListingInit ==
    /\ published = {} /\ kept = {}
    /\ pc = "idle"
    /\ token = "none"
    /\ next = 0
    /\ listed = {}
    /\ budget = Budget

Spend(move) == budget[move] > 0 /\ budget' = [budget EXCEPT ![move] = @ - 1]

---------------------------------------------------------------------------
(* The registry.                                                           *)

Push(n) ==
    /\ n \notin published
    /\ Spend("push")
    /\ published' = published \cup {n}
    /\ UNCHANGED <<pc, token, next, listed, kept>>

Remove(n) ==
    /\ n \in published
    /\ Spend("remove")
    /\ published' = published \ {n} /\ kept' = kept \ {n}
    /\ UNCHANGED <<pc, token, next, listed>>

\* A fresh token lives long enough for the request it was fetched for.
ExpireToken ==
    /\ token = "valid" /\ pc # "retry"
    /\ Spend("expire")
    /\ token' = "expired"
    /\ UNCHANGED <<published, pc, next, listed, kept>>

RegistryStep == ExpireToken \/ \E n \in Names : Push(n) \/ Remove(n)

First(n, names) == {a \in names : Cardinality({b \in names : b < a}) < n}

After(name) == {n \in published : n > name}
Page(name) == First(PageSize, After(name))
Last(names) == CHOOSE n \in names : \A m \in names : m <= n

Unauthorized == Private /\ token # "valid"

---------------------------------------------------------------------------
(* ListTags.                                                               *)

CallListTags(names) ==
    /\ pc = "idle"
    /\ published' = names /\ kept' = names
    /\ pc' = "page"
    /\ UNCHANGED <<token, next, listed, budget>>

\* Mutant: a page without a usable tag ends the listing.
TakePageUntilEmpty ==
    LET page == Page(next)
        usable == (page \ Ignored) \ listed
        now == listed \cup First(Limit - Cardinality(listed), usable)
        more == After(next) # page /\ usable # {}
    IN  /\ listed' = now
        /\ next' = IF more THEN Last(page) ELSE next
        /\ pc' = IF more /\ Cardinality(now) < Limit THEN "page"
                 ELSE IF now = {} THEN "error" ELSE "ok"

\* What the page holds is added, up to the limit; the Link header leads to the
\* next page, if there is one.
TakePage ==
    LET page == Page(next)
        usable == (page \ Ignored) \ listed
        now == listed \cup First(Limit - Cardinality(listed), usable)
        more == After(next) # page
    IN  /\ listed' = now
        /\ next' = IF more THEN Last(page) ELSE next
        /\ pc' = IF more /\ Cardinality(now) < Limit THEN "page"
                 ELSE IF now = {} THEN "error" ELSE "ok"

\* Mutant: a token is fetched for the first page only.
RequestWithFirstToken ==
    /\ pc = "page"
    /\ IF Unauthorized
       THEN pc' = (IF token = "none" THEN "token" ELSE "error") /\ UNCHANGED <<next, listed>>
       ELSE TakePage
    /\ UNCHANGED <<published, token, kept, budget>>

\* With the token at hand, if any: 401 leads to the challenge.
Request ==
    /\ pc = "page"
    /\ IF Unauthorized THEN pc' = "token" /\ UNCHANGED <<next, listed>> ELSE TakePage
    /\ UNCHANGED <<published, token, kept, budget>>

FetchBearerToken ==
    /\ pc = "token"
    /\ token' = "valid"
    /\ pc' = "retry"
    /\ UNCHANGED <<published, next, listed, kept, budget>>

\* The same page once more, with the new token.
Retry ==
    /\ pc = "retry"
    /\ IF Unauthorized THEN pc' = "error" /\ UNCHANGED <<next, listed>> ELSE TakePage
    /\ UNCHANGED <<published, token, kept, budget>>

\* A request fails with anything but 401, or the token is refused.
RequestFails ==
    /\ pc \in {"page", "token", "retry"}
    /\ Spend("fault")
    /\ pc' = "error"
    /\ UNCHANGED <<published, token, next, listed, kept>>

ListingStep ==
    \/ Request \/ FetchBearerToken \/ Retry \/ RequestFails
    \/ pc \in {"page", "token", "retry"} /\ RegistryStep

\* The caller has what it asked for; nothing of the call stays.
Return ==
    /\ pc \in {"ok", "error"}
    /\ published' = {} /\ kept' = {} /\ listed' = {}
    /\ pc' = "idle" /\ token' = "none" /\ next' = 0
    /\ budget' = Budget

---------------------------------------------------------------------------
(* Properties.                                                             *)

\* A listing below the limit has every tag that was in the repository all the
\* time, whatever was pushed or removed between two pages (ListTags).
NothingMissed ==
    pc = "ok" /\ Cardinality(listed) < Limit => kept \ Ignored \subseteq listed

\* Without a failing request a listing fails only if there was nothing to list:
\* a token that expires between two pages is replaced (getTagsPage).
ErrorHasCause ==
    pc = "error" => budget["fault"] < Budget["fault"] \/ kept \ Ignored = {}

---------------------------------------------------------------------------
(* Why these hold: the inductive invariant behind them.                    *)

ListingTypeOK ==
    /\ published \subseteq Names /\ kept \subseteq published
    /\ listed \subseteq Names
    /\ pc \in {"idle", "page", "token", "retry", "ok", "error"}
    /\ token \in {"none", "valid", "expired"}
    /\ next \in Nat
    /\ budget \in [Moves -> Nat] /\ \A m \in Moves : budget[m] <= Budget[m]

\* A call begins with nothing listed; the token of a retry is fresh; and on its
\* way a listing is below its limit and has left nothing behind: what it does
\* not have yet lies ahead.
ListingConsistent ==
    /\ pc = "idle" => listed = {} /\ next = 0
    /\ pc = "retry" => token = "valid"
    /\ pc \in {"page", "token", "retry"} =>
          /\ Cardinality(listed) < Limit
          /\ \A n \in kept \ Ignored : n \in listed \/ n > next
=============================================================================
