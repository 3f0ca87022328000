--------------------------- MODULE PatchLifecycle ---------------------------
(***************************************************************************)
(* What the ImagePatch controller promises about patches, whatever races,  *)
(* crashes and upgrades it lives through: a component is claimed before it *)
(* is patched and stays claimed until its patch is reverted; the patches   *)
(* of a cluster are of one RKE2 release; and a patch of an earlier release *)
(* is reverted, never carried over.                                        *)
(***************************************************************************)
CONSTANTS Components, Charts, ChartOf, Releases, NoRelease

VARIABLES
    claimed,  \* components whose ImagePatch cannot go without a revert
    applied   \* the release each component is patched on, or NoRelease

vars == <<claimed, applied>>

Init == claimed = {} /\ applied = [c \in Components |-> NoRelease]

Claim(c) == claimed' = claimed \cup {c} /\ UNCHANGED applied

\* Drift is put right the same way.
Apply(c, on) ==
    /\ c \in claimed
    /\ \A d \in Components : applied[d] \in {NoRelease, on}
    /\ applied' = [applied EXCEPT ![c] = on]
    /\ UNCHANGED claimed

Revert(c) == applied' = [applied EXCEPT ![c] = NoRelease] /\ UNCHANGED claimed

Release(c) ==
    /\ applied[c] = NoRelease
    /\ claimed' = claimed \ {c}
    /\ UNCHANGED applied

\* A user deletes the HelmChartConfig, and with it the patches of its chart.
ConfigDeleted(ch) ==
    /\ applied' = [c \in Components |-> IF ChartOf[c] = ch THEN NoRelease ELSE applied[c]]
    /\ UNCHANGED claimed

Next ==
    \/ \E c \in Components :
          Claim(c) \/ Revert(c) \/ Release(c) \/ \E on \in Releases : Apply(c, on)
    \/ \E ch \in Charts : ConfigDeleted(ch)

Spec == Init /\ [][Next]_vars
=============================================================================
