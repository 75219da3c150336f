-------------------------------- MODULE Tree --------------------------------
(***************************************************************************)
(* Searching a dumped UI tree: UiNode's traversals, UiTree's parent links  *)
(* and Selector, as functions of a tree.                                   *)
(*                                                                         *)
(* A node is its nodeId.  Of its attributes a selector reads one, which    *)
(* may be absent; "exact", "contains" and "regex" are each a set of        *)
(* accepted values.  A selector is the sequence of its own criterion, that *)
(* of its container, that of the container's container, and so on.         *)
(***************************************************************************)
EXTENDS Integers, Sequences, SequencesExt, FiniteSets

CONSTANTS
    Values,    \* values of the attribute
    Criteria,  \* sets of values that by, value and match may accept
    Indices,   \* what index may be
    MaxNodes,  \* bound: nodes of a tree
    MaxDepth,  \* bound: length of a chain of .within()
    Absent

ASSUME TreeAssumption ==
    /\ Criteria \subseteq SUBSET Values
    /\ Indices \subseteq Nat \cup {Absent}
    /\ Absent \notin Values \cup Nat
    /\ MaxNodes \in Nat /\ MaxDepth \in Nat

-----------------------------------------------------------------------------
(* The members of s that are in S, in their order.                         *)
Among(s, S) ==
    LET kept[i \in 0..Len(s)] == IF i = 0 THEN <<>>
                                 ELSE IF s[i] \in S THEN Append(kept[i - 1], s[i])
                                 ELSE kept[i - 1]
    IN kept[Len(s)]

-----------------------------------------------------------------------------
(* Trees as the agent numbers them: ids are given in pre-order from 0, so  *)
(* a node's parent is the node before it or an ancestor of that one.       *)

Parentings(n) ==
    {p \in [1..(n - 1) -> 0..(n - 1)] :
        \A i \in 1..(n - 1) :
            p[i] < i /\ \A j \in (p[i] + 1)..(i - 1) : p[j] >= p[i]}

Dump(n, p, label) ==
    [label |-> label,
     children |-> [m \in 0..(n - 1) |->
                      Among([i \in 1..(n - 1) |-> i], {i \in 1..(n - 1) : p[i] = m})]]

Dumps ==
    UNION {{Dump(n, p, label) : p \in Parentings(n),
                                label \in [0..(n - 1) -> Values \cup {Absent}]}
              : n \in 1..MaxNodes}

Nodes(t) == DOMAIN t.label

-----------------------------------------------------------------------------
(* Traversals                                                              *)

(* The nodes below each node, in pre-order.                                *)
Descendants(t) ==
    LET below[n \in Nodes(t)] ==
            FlattenSeq([k \in DOMAIN t.children[n] |->
                           <<t.children[n][k]>> \o below[t.children[n][k]]])
    IN below

Walk(t, root) == <<root>> \o Descendants(t)[root]

(* UiTree.link, which every search of a tree does first.                   *)
Holders(t, n) == {m \in Nodes(t) : n \in ToSet(t.children[m])}
Link(t) == [n \in Nodes(t) |-> IF Holders(t, n) = {} THEN Absent
                               ELSE CHOOSE m \in Holders(t, n) : TRUE]

(* The nodes above each node, from its parent up.                          *)
Ancestors(t) ==
    LET parent == Link(t)
        above[n \in Nodes(t)] ==
            IF parent[n] = Absent THEN <<>> ELSE <<parent[n]>> \o above[parent[n]]
    IN above

-----------------------------------------------------------------------------
(* Selector                                                                *)

Selectors == UNION {[1..d -> [accepts : Criteria, index : Indices]] : d \in 1..MaxDepth}

(* An absent attribute matches nothing.                                    *)
Matches(t, n, criterion) == t.label[n] \in criterion.accepts

OnceTwice(s) == s                                           \* mutant
(* The members of s, each where it comes first.                            *)
Once(s) ==
    LET kept[i \in 0..Len(s)] == IF i = 0 THEN <<>>
                                 ELSE IF s[i] \in ToSet(kept[i - 1]) THEN kept[i - 1]
                                 ELSE Append(kept[i - 1], s[i])
    IN kept[Len(s)]

Inside(t, containers) ==
    Once(FlattenSeq([k \in DOMAIN containers |-> Descendants(t)[containers[k]]]))

Pick(s, index) == IF index = Absent THEN s
                  ELSE IF index < Len(s) THEN <<s[index + 1]>>
                  ELSE <<>>

FindAll(t, root, selector) ==
    LET found[d \in DOMAIN selector] ==
            LET scope == IF d = Len(selector) THEN Walk(t, root)
                                              ELSE Inside(t, found[d + 1])
            IN Pick(Among(scope, {n \in Nodes(t) : Matches(t, n, selector[d])}),
                    selector[d].index)
    IN found[1]

Find(t, root, selector) ==
    LET found == FindAll(t, root, selector)
    IN IF found = <<>> THEN Absent ELSE found[1]

-----------------------------------------------------------------------------
(* What a search should find                                               *)

(* What a selector names in the subtree of root, told from the parent      *)
(* links: a match below or at root, under a node its container names, and, *)
(* with an index, the one that many such nodes come before.                *)
Named(t, root, selector) ==
    LET Within(n, m) == m \in ToSet(Ancestors(t)[n])
        named[d \in DOMAIN selector] ==
            LET all == {n \in Nodes(t) :
                           /\ Matches(t, n, selector[d])
                           /\ IF d = Len(selector) THEN n = root \/ Within(n, root)
                              ELSE \E m \in named[d + 1] : Within(n, m)}
            IN IF selector[d].index = Absent THEN all
               ELSE {n \in all : Cardinality({m \in all : m < n}) = selector[d].index}
    IN named[1]

ExactOn(t, root, selector) ==
    LET found == FindAll(t, root, selector)
        named == Named(t, root, selector)
    IN  /\ ToSet(found) = named
        /\ \A i, j \in DOMAIN found : i < j => found[i] < found[j]
        /\ Find(t, root, selector) =
               IF named = {} THEN Absent
               ELSE CHOOSE n \in named : \A m \in named : n <= m

(* The search agrees with the definition on every tree, for every chain of *)
(* containers, within the bounds.                                          *)
ExactWithinBounds ==
    \A t \in Dumps, selector \in Selectors : \A root \in Nodes(t) :
        ExactOn(t, root, selector)
=============================================================================
