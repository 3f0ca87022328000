---------------------------- MODULE MCValuesTree ----------------------------
(***************************************************************************)
(* The chart of rke2-coredns with two of its components, one of them with  *)
(* two images; a third writes the keys of the first and is not what the    *)
(* chart has there.  Users edit above, at, beside and below these keys.    *)
(***************************************************************************)
EXTENDS ValuesTree, SequencesExt, TLC

CONSTANTS coredns, cache, scaler, t1, t2, theirs, none

image == <<"image">>
pair(prefix) == [repository |-> Append(prefix, "repository"), tag |-> Append(prefix, "tag")]
node == <<"scaler", "node">>
cni == <<"scaler", "cni">>

MCComponents == {coredns, cache, scaler}
MCTags == {t1, t2}
MCRepository == (coredns :> "coredns") @@ (cache :> "cache") @@ (scaler :> "scaler")
MCImages == (coredns :> {pair(image)}) @@ (cache :> {pair(image)})
            @@ (scaler :> {pair(node), pair(cni)})
MCScalars == {t1, t2, theirs, none, "coredns", "cache", "scaler"}

MCUserPaths == {<<>>, image, Append(image, "tag"), Append(image, "policy"),
                Append(Append(cni, "tag"), "more")}
MCUserValues == {t1, theirs, none}
MCPaths == MCUserPaths \cup UNION {{i.repository, i.tag} : i \in UNION {MCImages[c] : c \in MCComponents}}
           \cup {node, cni}

MCRoot == <<>>
MCAbove == {<<p, q>> \in MCPaths \X MCPaths : IsStrictPrefix(p, q)}
MCDefaults ==
    (pair(image).repository :> "coredns") @@ (pair(image).tag :> t1)
    @@ (pair(node).repository :> "scaler") @@ (pair(node).tag :> t1)
    @@ (pair(cni).repository :> "scaler") @@ (pair(cni).tag :> t1)
=============================================================================
