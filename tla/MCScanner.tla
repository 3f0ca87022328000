------------------------------ MODULE MCScanner ------------------------------
(***************************************************************************)
(* Small scans.  In the cluster: image-cve of one image, image-list of two.*)
(* On the machine: a command with two images next to one with one.         *)
(***************************************************************************)
EXTENDS Scanner, TLC

CONSTANTS coredns1, coredns2, list, cve

OneImage == {[images |-> <<coredns1>>, batch |-> FALSE]}
TwoImages == {[images |-> <<coredns1, coredns2>>, batch |-> TRUE]}
OneOrTwo == OneImage \cup TwoImages
BatchOfOne == {[images |-> <<coredns1>>, batch |-> TRUE]}

OneOfEach == [m \in Moves |-> 1]
NoMoves == [m \in Moves |-> 0]

MCImageCount == (list :> 2) @@ (cve :> 1)
OneLocalOfEach == [m \in LocalMoves |-> 1]
=============================================================================
