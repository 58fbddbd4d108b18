------------------------------- MODULE Lists --------------------------------
(***************************************************************************)
(* Lists that are built by a comprehension, [e for e in list if ...], and  *)
(* a waiter taken out of a queue: what is kept stays in its order.  Said   *)
(* by positions and not by recursion, so that it can be reasoned about.    *)
(***************************************************************************)
EXTENDS FiniteSets, Naturals, Sequences

\* How many of the positions are at i or before.
Rank(positions, i) == Cardinality({j \in positions : j <= i})

\* A finite set of positions, from the first to the last.
InOrder(positions) ==
    [n \in 1..Cardinality(positions) |-> CHOOSE i \in positions : Rank(positions, i) = n]

Kept(list, gone) == {i \in DOMAIN list : list[i] \notin gone}

\* The elements of a list, those that are gone left out.
Without(list, gone) ==
    LET kept == Kept(list, gone)
    IN  [n \in 1..Cardinality(kept) |-> list[InOrder(kept)[n]]]

Listed(list) == {list[i] : i \in DOMAIN list}

=============================================================================
