----------------------------- MODULE StateStore -----------------------------
(***************************************************************************)
(* What the rke2-patcher-state ConfigMap promises the commands that share  *)
(* it: an atomic map from (RKE2 version, component) to the patch made      *)
(* there, whatever number of commands load and save it at the same time.   *)
(***************************************************************************)
CONSTANTS Components, Releases, Tags

VARIABLE entries

Entry == [component : Components, clusterVersion : Releases,
          baselineTag : Tags, patchedToTag : Tags]

\* EntryKey: two entries have the same key.
SameKey(e, f) == e.component = f.component /\ e.clusterVersion = f.clusterVersion

Init == entries = {}

\* One entry is added or takes the place of the one with its key, whose
\* baseline tag it keeps; all the others stay.
Record(e) ==
    /\ \A f \in entries : SameKey(e, f) => e.baselineTag = f.baselineTag
    /\ entries' = {f \in entries : ~SameKey(e, f)} \cup {e}

\* Entries of one component go; all the others stay.
Remove(c) ==
    /\ entries' \subseteq entries
    /\ \A e \in entries \ entries' : e.component = c

Next == (\E e \in Entry : Record(e)) \/ (\E c \in Components : Remove(c))

Spec == Init /\ [][Next]_entries
=============================================================================
