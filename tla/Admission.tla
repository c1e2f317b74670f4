----------------------------- MODULE Admission -----------------------------
(***************************************************************************)
(* What a query pool promises (sqldesk/pools.py, its docstring), with no   *)
(* word of hash, lock, TTL or thread: work is let in one at a time, and    *)
(* only when what is in then keeps to the budget, to the ceiling of every  *)
(* kind and off the floors.  Module Pools implements it.                   *)
(***************************************************************************)
EXTENDS Naturals, FiniteSets

CONSTANTS
    Holders,
    Kinds,
    KindOf,     \* Holders -> Kinds
    Rank,       \* Kinds -> Nat, 0 for the kind that goes before all others
    FloorOf,    \* Kinds -> slots that are kept from the kinds that rank below
    CeilingOf,  \* Kinds -> slots that the kind may have at most
    Limit

VARIABLE letIn  \* what counts against the pool

Of(kind, holders)    == {h \in holders : KindOf[h] = kind}
Below(kind, holders) == {h \in holders : Rank[KindOf[h]] > Rank[kind]}

Fits(holders) ==
    /\ Cardinality(holders) <= Limit
    /\ \A k \in Kinds : Cardinality(Of(k, holders)) <= CeilingOf[k]
    /\ \A k \in Kinds : Cardinality(Below(k, holders)) + FloorOf[k] <= Limit

Init == letIn = {}

LetIn(h) ==
    /\ letIn' = letIn \cup {h}
    /\ Fits(letIn')

\* At the end of the query, or with the process.
LetGo(h) == letIn' = letIn \ {h}

Next == \E h \in Holders : LetGo(h) \/ LetIn(h)

Spec == Init /\ [][Next]_letIn
=============================================================================
