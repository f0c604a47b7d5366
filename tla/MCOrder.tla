------------------------------ MODULE MCOrder ------------------------------
(***************************************************************************)
(* Small graphs for Order.  The edges of an element are added in the order *)
(* of their targets; since all graphs on the numbered elements are taken,  *)
(* the search meets every shape from every side.                           *)
(***************************************************************************)
EXTENDS Order

PairSeq(n) == [k \in 1 .. n * n |-> <<((k - 1) \div n) + 1, ((k - 1) % n) + 1>>]
Pairs(n) == {p \in (1 .. n) \X (1 .. n) : p[1] # p[2]}

\* The graph of a function from pairs of elements to edge types.
Graph(n, types, el0) ==
  LET es == SelectSeq(PairSeq(n), LAMBDA p : p \in DOMAIN types)
  IN  [n |-> n, el |-> el0,
       calls |-> [i \in DOMAIN es |-> <<es[i][1], es[i][2], types[es[i]]>>]]

Elements(uninst, scripts, repo, media) ==
  [uninst |-> uninst, scripts |-> scripts, repo |-> repo, media |-> media]
Ones(n) == [i \in 1 .. n |-> 1]

\* Every graph of up to six requirements between four elements.
GraphsPlain == {Graph(4, [e \in E |-> {TYPE_REQ}], Elements({}, {}, Ones(4), Ones(4))) :
                  E \in {F \in SUBSET Pairs(4) : Cardinality(F) <= 6}}

\* Three elements that may need each other in several ways, where the first
\* one runs scripts; an edge that is added twice has both types.
Labels == {{}, {TYPE_REQ_UI}, {TYPE_REQ_UU}, {TYPE_REQ, TYPE_CON}, {TYPE_PREREQ}}
GraphsTyped ==
  {Graph(3, [e \in {f \in Pairs(3) : t[f] # {}} |-> t[e]],
         Elements({}, {1}, Ones(3), Ones(3))) :
     t \in {u \in [Pairs(3) -> Labels] : /\ u[<<1, 2>>] # {}
                                          /\ u[<<2, 3>>] \in {{TYPE_REQ_UU}, {TYPE_REQ, TYPE_CON}}
                                          /\ u[<<3, 2>>] \in {{}, {TYPE_PREREQ}}}}

\* Up to five of the six edges a < b and one that may close a cycle, on two
\* media of two repositories, with and without an erased element.
ForwardPairs == {p \in Pairs(4) : p[1] > p[2]}
GraphsMedia ==
  {Graph(4, [e \in E |-> {TYPE_REQ}], Elements(u, {}, <<1, 2, r, 1>>, <<1, m, 2, 1>>)) :
     E \in {F \cup G : F \in SUBSET ForwardPairs, G \in {{}, {<<1, 3>>}}},
     u \in {{}, {2}}, r \in {1, 2}, m \in {1, 2}}

\* The three families together.
GraphsAll == UNION {GraphsPlain, GraphsTyped, GraphsMedia}

=============================================================================
