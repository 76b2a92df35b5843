----------------------------- MODULE SingleLink -----------------------------
(***************************************************************************)
(* The union-find that three parts of the system repeat: level clusters    *)
(* (pool/clustering.py), price zones (resonance/scoring.py) and groups of  *)
(* dependent evidence (resonance/scoring_contracts.py).  The items are     *)
(* numbered in their sorted order and the pairs are tried in the order of  *)
(* itertools.combinations; a union makes the larger root a child of the    *)
(* smaller.  Path halving is left out: it moves no root.  A graph is the   *)
(* set of its links, pairs of items, and goes both ways.                   *)
(***************************************************************************)
EXTENDS Integers, Sequences, SequencesExt

(* find: a parent is never larger than its child. *)
Find(parent, index) ==
    LET root[i \in DOMAIN parent] == IF parent[i] = i THEN i ELSE root[parent[i]]
    IN root[index]

Smaller(a, b) == IF a < b THEN a ELSE b
Larger(a, b) == IF a < b THEN b ELSE a

(* Mutant of Union: the second item is moved, not its root. *)
UnionOfItems(parent, left, right) == [parent EXCEPT ![right] = Find(parent, left)]

Union(parent, left, right) ==
    LET a == Find(parent, left)
        b == Find(parent, right)
    IN [parent EXCEPT ![Larger(a, b)] = Smaller(a, b)]

Join(parent, left, right, links) ==
    IF <<left, right>> \in links THEN Union(parent, left, right) ELSE parent

(* combinations(range(n), 2), from 1: an item with each that comes later,  *)
(* and so each item in turn.                                               *)
JoinRow(parent, left, n, links) ==
    LET row[right \in left .. n] ==
            IF right = left THEN parent ELSE Join(row[right - 1], left, right, links)
    IN row[n]

Joined(n, links) ==
    LET after[left \in 0 .. n] ==
            IF left = 0 THEN [i \in 1 .. n |-> i] ELSE JoinRow(after[left - 1], left, n, links)
    IN after[n]

(* The components of the items S of 1 .. n, of which alone links tells:    *)
(* what is not in S is tried too, and linked to nothing.                   *)
ComponentsOf(n, S, links) ==
    LET parent == Joined(n, links)
    IN {{i \in S : Find(parent, i) = root} : root \in {Find(parent, i) : i \in S}}

(* What a component is, without a closure: no link leaves a block, and a   *)
(* block cannot be cut in two without cutting a link.                      *)
IsSingleLinkage(blocks, S, links) ==
    /\ UNION blocks = S /\ {} \notin blocks
    /\ \A A, B \in blocks :
          A # B => A \cap B = {} /\ \A a \in A, b \in B : <<a, b>> \notin links
    /\ \A A \in blocks : \A part \in (SUBSET A) \ {{}, A} :
          \E a \in part, b \in A \ part : <<a, b>> \in links

(* pool/distance.py range_gap *)
RangeGap(left, right) ==
    CASE left.high < right.low -> right.low - left.high
      [] right.high < left.low -> left.low - right.high
      [] OTHER -> 0
=============================================================================
