--------------------------- MODULE MCTagSelection ---------------------------
(***************************************************************************)
(* Tags around the last day of a window that crosses the 29th of February, *)
(* on three minor release lines, with one that has no build date.  The     *)
(* names are in the order of the registry, which is not that of their      *)
(* dates; the two that are ignored may fill a page of their own.           *)
(***************************************************************************)
EXTENDS TagSelection

Tag(build, minor) == [parses |-> TRUE, build |-> build, major |-> 1, minor |-> minor,
                      patch |-> 0, flavor |-> 0]
shipped == Tag(20240110, 1)
signature == [shipped EXCEPT !.parses = FALSE, !.build = 0]

MCNames == 1..8
MCTagOf == <<Tag(20240215, 0),   \* an older line
             Tag(0, 1),          \* no build date
             shipped,
             signature, signature,
             Tag(20240229, 1),   \* the last day of the window
             Tag(20240301, 1),   \* the day after
             Tag(20240201, 2)>>  \* a newer line
MCIgnored == {4, 5}

OneOfEach == [m \in Moves |-> 1]
=============================================================================
