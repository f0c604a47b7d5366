------------------------------- MODULE Order -------------------------------
(***************************************************************************)
(* order.c: transaction_order, from the typed dependency graph of the      *)
(* transaction elements to the order of the steps, and the manual ordering *)
(* of transaction_order_add_choices.                                       *)
(*                                                                         *)
(* An edge from -> to says that element "to" is done before "from".  The   *)
(* type of an edge is a bit mask in the code and the set of its bit        *)
(* numbers here.  Elements that erase a package are those in "uninst", the *)
(* repository and the medium of the others steer the order.                *)
(***************************************************************************)
EXTENDS Integers, FiniteSets, Sequences, SequencesExt

TYPE_BROKEN == 0
TYPE_CON == 1
TYPE_REQ_UI == 4
TYPE_PREREQ_UI == 5
TYPE_REQ_UU == 6
TYPE_PREREQ_UU == 7
TYPE_SUG == 8
TYPE_REC == 9
TYPE_REQ == 10
TYPE_PREREQ == 11
TYPE_CYCLETAIL == 16
TYPE_CYCLEHEAD == 17

CONSTANT Graphs   \* the graphs to order: the elements and the addteedge calls

DepTypes == {TYPE_CON, TYPE_REQ_UI, TYPE_PREREQ_UI, TYPE_REQ_UU, TYPE_PREREQ_UU,
             TYPE_SUG, TYPE_REC, TYPE_REQ, TYPE_PREREQ}

(* n elements and the calls that give them their edges.  The repository of *)
(* an element is never 0, which lastrepo starts with.                      *)
IsGraph(g) ==
  LET E == 1 .. g.n
  IN  /\ g.n \in Nat
      /\ g.el.uninst \subseteq E /\ g.el.scripts \subseteq E
      /\ g.el.repo \in [E -> Nat \ {0}] /\ g.el.media \in [E -> Nat]
      /\ g.calls \in Seq(E \X E \X SUBSET DepTypes)

ASSUME GraphsAssumption == \A g \in Graphs : IsGraph(g)

VARIABLES
  el,          \* what the elements are: [uninst, scripts, repo, media]
  edges,       \* edgedata: for each element the sequence of its edges
  mark,        \* te->mark
  todo,        \* the stack of the cycle search, then the queue todo
  cycles,      \* the cycles broken so far (cycles and cyclesdata)
  cycq,        \* the cycles addcycleedges is still to be called for
  uninstq, samerepoq,      \* ready elements that are taken before todo
  lastrepo, lastmedia, lastte,
  order,       \* the elements in the order they were output (tr)
  choices,     \* the choices transaction_order_add_choices has returned
  chosen,      \* the elements the application has chosen
  early,       \* those of them it chose before everything they need (history)
  opc          \* the phase of transaction_order

queueVars == <<uninstq, samerepoq, lastrepo, lastmedia, lastte, order>>
choiceVars == <<choices, chosen, early>>
orderVars == <<el, edges, mark, todo, cycles, cycq, queueVars, choiceVars, opc>>

Types == DepTypes \cup {TYPE_BROKEN, TYPE_CYCLETAIL, TYPE_CYCLEHEAD}

(* The numerical order of two bit masks: the highest differing bit.        *)
Less(t, u) == \E b \in u \ t : \A c \in t \ u : c < b

TEs == DOMAIN edges

(***************************************************************************)
(* addteedge: a second edge between two elements adds its type to the      *)
(* first, whatever has become of that one.                                 *)
(***************************************************************************)
EdgeIndex(es, from, to) == {i \in DOMAIN es[from] : es[from][i].to = to}

WithType(es, from, to, type) ==
  [i \in DOMAIN es[from] |->
     IF es[from][i].to = to
     THEN [to |-> to, type |-> es[from][i].type \cup type]
     ELSE es[from][i]]

addteedge(es, from, to, type) ==
  IF from = to THEN es
  ELSE [es EXCEPT ![from] =
          IF EdgeIndex(es, from, to) = {} THEN Append(es[from], [to |-> to, type |-> type])
          ELSE WithType(es, from, to, type)]

(* A sequence of such calls; a call is <<from, to, type>>.                 *)
addteedges(es, calls) ==
  LET after[k \in 0 .. Len(calls)] ==
        IF k = 0 THEN es
        ELSE addteedge(after[k - 1], calls[k][1], calls[k][2], calls[k][3])
  IN  after[Len(calls)]

Unbroken(es, from) ==
  {es[from][i].to : i \in {j \in DOMAIN es[from] : TYPE_BROKEN \notin es[from][j].type}}

EdgeType(es, from, to) == es[from][CHOOSE i \in EdgeIndex(es, from, to) : TRUE].type

(* What can be reached from a set of elements over unbroken edges: the     *)
(* least set of elements that has them and whatever its members need.      *)
Reach(es, S) ==
  {x \in DOMAIN es :
     \A T \in SUBSET DOMAIN es :
       S \subseteq T /\ (\A y \in T : Unbroken(es, y) \subseteq T) => x \in T}

(* The members of A among the elements of a sequence, in their order.      *)
Those(s, A) ==
  LET taken[i \in 0 .. Len(s)] ==
        IF i = 0 THEN <<>>
        ELSE IF s[i] \in A THEN Append(taken[i - 1], s[i]) ELSE taken[i - 1]
  IN  taken[Len(s)]

(* A set of elements in the order of their numbers, as a loop over od.tes  *)
(* finds them.                                                             *)
InTEOrder(S) == Those([i \in TEs |-> i], S)

-----------------------------------------------------------------------------
(***************************************************************************)
(* The search for cycles: a depth-first search with an explicit stack, in  *)
(* which -i marks the end of the edges of i.                               *)
(***************************************************************************)
StartOrder(g) ==
  /\ opc = "idle"
  /\ g.n > 0
  /\ el' = g.el
  /\ edges' = addteedges([i \in 1 .. g.n |-> <<>>], g.calls)
  /\ mark' = [i \in 1 .. g.n |-> 0]
  /\ todo' = [i \in 1 .. g.n |-> g.n + 1 - i]
  /\ cycles' = <<>>
  /\ cycq' = <<>>
  /\ UNCHANGED <<queueVars, choiceVars>>
  /\ opc' = "break"

Searching == opc = "break" /\ todo # <<>>

EndOfEdges ==
  /\ Searching
  /\ Last(todo) < 0
  /\ mark' = [mark EXCEPT ![-Last(todo)] = 2]
  /\ todo' = Front(todo)
  /\ UNCHANGED <<el, edges, cycles, cycq, queueVars, choiceVars, opc>>

AlreadyFinished ==
  /\ Searching
  /\ Last(todo) > 0
  /\ mark[Last(todo)] = 2
  /\ todo' = Front(todo)
  /\ UNCHANGED <<el, edges, mark, cycles, cycq, queueVars, choiceVars, opc>>

VisitEdges ==
  /\ Searching
  /\ Last(todo) > 0
  /\ mark[Last(todo)] = 0
  /\ LET i == Last(todo)
         open == Those(edges[i], {e \in Range(edges[i]) : TYPE_BROKEN \notin e.type /\ mark[e.to] # 2})
     IN  IF open = <<>>
         THEN /\ mark' = [mark EXCEPT ![i] = 2]
              /\ todo' = Front(todo)
         ELSE /\ mark' = [mark EXCEPT ![i] = 1]
              /\ todo' = Front(todo) \o <<-i>> \o [k \in DOMAIN open |-> open[k].to]
  /\ UNCHANGED <<el, edges, cycles, cycq, queueVars, choiceVars, opc>>

(* The elements of the cycle the search has run into, starting with i.     *)
CycleStart(stack, i) == Max({j \in DOMAIN stack : stack[j] = -i} \cup {0})

CyclePath(stack, i) ==
  LET open == Those(SubSeq(stack, CycleStart(stack, i), Len(stack)), {-x : x \in TEs})
  IN  [k \in DOMAIN open |-> -open[k]]

Succ(cycle, k) == cycle[(k % Len(cycle)) + 1]

CycleEdge(cycle, k) == EdgeType(edges, cycle[k], Succ(cycle, k))

(* The degree breakcycle compares: UU counts as UI.                        *)
Degree(type) ==
  (type \ {TYPE_REQ_UU, TYPE_PREREQ_UU})
    \cup {TYPE_REQ_UI : t \in type \cap {TYPE_REQ_UU}}
    \cup {TYPE_PREREQ_UI : t \in type \cap {TYPE_PREREQ_UU}}

scriptletedge(cycle, k) ==
  LET UU == {TYPE_REQ_UU, TYPE_PREREQ_UU}
      type == CycleEdge(cycle, k)
  IN  \/ type \cap UU # {} /\ Succ(cycle, k) \in el.scripts
      \/ type \ UU # {} /\ cycle[k] \in el.scripts

(* The edge to break: the least degree, if possible no scriptlet edge.     *)
EdgeToBreak(cycle) ==
  LET least == {k \in DOMAIN cycle : \A j \in DOMAIN cycle :
                  ~Less(Degree(CycleEdge(cycle, j)), Degree(CycleEdge(cycle, k)))}
      harmless == {k \in least : ~scriptletedge(cycle, k)}
  IN  Min(IF harmless = {} THEN least ELSE harmless)

(* The record of a broken cycle: it starts with the tail, the target of    *)
(* the broken edge, and ends with the head, its source.                    *)
BrokenCycle(cycle, l) ==
  LET n == Len(cycle)
      degs == {Degree(CycleEdge(cycle, k)) : k \in 1 .. n}
  IN  [tes |-> [k \in 1 .. n |-> cycle[((l + k - 1) % n) + 1]],
       type |-> CycleEdge(cycle, l),
       min |-> Degree(CycleEdge(cycle, l)),
       max |-> CHOOSE d \in degs : \A e \in degs : ~Less(d, e)]

\* Forgets to reset the marks of the cycle.
BreakCycleNoReset ==                     \* mutant: marks are kept
  /\ Searching
  /\ Last(todo) > 0
  /\ mark[Last(todo)] = 1
  /\ LET i == Last(todo)
         stack == Front(todo)
         cycle == CyclePath(stack, i)
         l == EdgeToBreak(cycle)
     IN  /\ cycles' = Append(cycles, BrokenCycle(cycle, l))
         /\ edges' = addteedge(edges, cycle[l], Succ(cycle, l), {TYPE_BROKEN})
         /\ todo' = Append(SubSeq(stack, 1, CycleStart(stack, i) - 1), i)
  /\ UNCHANGED <<el, mark, cycq, queueVars, choiceVars, opc>>

\* Forgets to break the edge.
BreakCycleNoBreak ==                     \* mutant: the edge is not broken
  /\ Searching
  /\ Last(todo) > 0
  /\ mark[Last(todo)] = 1
  /\ LET i == Last(todo)
         stack == Front(todo)
         cycle == CyclePath(stack, i)
     IN  /\ mark' = [x \in TEs |-> IF x \in Range(cycle) THEN 0 ELSE mark[x]]
         /\ todo' = Append(SubSeq(stack, 1, CycleStart(stack, i) - 1), i)
  /\ UNCHANGED <<el, edges, cycles, cycq, queueVars, choiceVars, opc>>

BreakCycle ==
  /\ Searching
  /\ Last(todo) > 0
  /\ mark[Last(todo)] = 1
  /\ LET i == Last(todo)
         stack == Front(todo)
         cycle == CyclePath(stack, i)
         l == EdgeToBreak(cycle)
     IN  /\ cycles' = Append(cycles, BrokenCycle(cycle, l))
         /\ edges' = addteedge(edges, cycle[l], Succ(cycle, l), {TYPE_BROKEN})
         /\ mark' = [x \in TEs |-> IF x \in Range(cycle) THEN 0 ELSE mark[x]]
         /\ todo' = Append(SubSeq(stack, 1, CycleStart(stack, i) - 1), i)
  /\ UNCHANGED <<el, cycq, queueVars, choiceVars, opc>>

(* The cycles whose broken edge is a requirement are treated first, each   *)
(* group from the last cycle to the first.                                 *)
Severe(c) == ~Less(c.type, {TYPE_REQ})

CyclesBroken ==
  /\ opc = "break"
  /\ todo = <<>>
  /\ cycq' = Reverse(Those(cycles, {c \in Range(cycles) : Severe(c)}))
             \o Reverse(Those(cycles, {c \in Range(cycles) : ~Severe(c)}))
  /\ opc' = "cycle"
  /\ UNCHANGED <<el, edges, mark, todo, cycles, queueVars, choiceVars>>

-----------------------------------------------------------------------------
(***************************************************************************)
(* addcycleedges: an element that is not reachable from the cycle but has  *)
(* an edge into it gets an edge to the tail, and the head gets an edge to  *)
(* every element a member of the cycle needs and that does not need the    *)
(* cycle.                                                                  *)
(***************************************************************************)
TailEdges(es, cycle) ==
  LET C == Range(cycle)
      outside == InTEOrder({x \in TEs : /\ x \notin Reach(es, C)
                                         /\ Unbroken(es, x) \cap (C \ {cycle[1]}) # {}})
  IN  addteedges(es, [k \in DOMAIN outside |-> <<outside[k], cycle[1], {TYPE_CYCLETAIL}>>])

HeadEdgesBug(es, cycle) == es            \* mutant: nothing waits for the head

HeadEdges(es, cycle) ==
  LET C == Range(cycle)
      head == Last(cycle)
      needed(x) == Those([i \in DOMAIN es[x] |-> es[x][i].to],
                         {k \in Unbroken(es, x) \ Unbroken(es, head) :
                            Reach(es, {k}) \cap C = {}})
      ks == FlattenSeq([i \in 1 .. Len(cycle) - 1 |-> needed(cycle[i])])
  IN  addteedges(es, [j \in DOMAIN ks |-> <<head, ks[j], {TYPE_CYCLEHEAD}>>])

AddCycleEdges ==
  /\ opc = "cycle"
  /\ cycq # <<>>
  /\ LET cycle == Head(cycq).tes
     IN  edges' = HeadEdges(TailEdges(edges, cycle), cycle)
  /\ cycq' = Tail(cycq)
  /\ UNCHANGED <<el, mark, todo, cycles, queueVars, choiceVars, opc>>

-----------------------------------------------------------------------------
NeedsBug == [x \in TEs |-> IF Unbroken(edges, x) = {} THEN 0 ELSE 1] \* mutant: waits for one only

(***************************************************************************)
(* The final order: mark counts the unbroken edges of an element whose     *)
(* target is still to be done.                                             *)
(***************************************************************************)
Needs == [x \in TEs |-> Cardinality(Unbroken(edges, x))]

(* The elements behind the inverted edges of i: invedgedata is filled from *)
(* the end, so they come last to first.                                    *)
Followers(i) == Reverse(InTEOrder({x \in TEs : i \in Unbroken(edges, x)}))

InvertEdges ==
  /\ opc = "cycle"
  /\ cycq = <<>>
  /\ mark' = Needs
  /\ LET ready == {x \in TEs : Needs[x] = 0}
     IN  /\ uninstq' = InTEOrder(ready \cap el.uninst)
         /\ todo' = InTEOrder(ready \ el.uninst)
  /\ samerepoq' = <<>>
  /\ lastrepo' = 0
  /\ lastmedia' = 0
  /\ lastte' = 0
  /\ order' = <<>>
  /\ opc' = "order"
  /\ UNCHANGED <<el, edges, cycles, cycq, choiceVars>>

(* Element i is output: its followers need one element less, and those     *)
(* that need nothing more are queued.  The arguments are the queues and    *)
(* the medium after i was taken.                                           *)
Output(i, todo1, samerepoq1, uninstq1, repo, media) ==
  LET next == Range(Followers(i))
      free == {x \in next : mark[x] = 1}
      near == {x \in TEs : el.repo[x] = repo /\ el.media[x] = media}
  IN  /\ order' = Append(order, i)
      /\ lastte' = IF i \in el.uninst THEN lastte ELSE i
      /\ mark' = [x \in TEs |-> IF x \in next THEN mark[x] - 1 ELSE mark[x]]
      /\ uninstq' = uninstq1 \o Those(Followers(i), free \cap el.uninst)
      /\ samerepoq' = samerepoq1 \o Those(Followers(i), (free \ el.uninst) \cap near)
      /\ todo' = todo1 \o Those(Followers(i), (free \ el.uninst) \ near)
      /\ lastrepo' = repo
      /\ lastmedia' = media
      /\ UNCHANGED <<el, edges, cycles, cycq, choiceVars, opc>>

TakeUninstall ==
  /\ opc = "order"
  /\ uninstq # <<>>
  /\ Output(Head(uninstq), todo, samerepoq, Tail(uninstq), lastrepo, lastmedia)

share_cycle(x, y) == \E k \in DOMAIN cycles : {x, y} \subseteq Range(cycles[k].tes)

TakeSameRepo ==
  /\ opc = "order"
  /\ uninstq = <<>>
  /\ samerepoq # <<>>
  /\ LET near == {j \in DOMAIN samerepoq : lastte # 0 /\ share_cycle(lastte, samerepoq[j])}
         j == IF near = {} THEN 1 ELSE Min(near)
     IN  Output(samerepoq[j], todo, RemoveAt(samerepoq, j), uninstq, lastrepo, lastmedia)

TakeNextMedium ==
  /\ opc = "order"
  /\ uninstq = <<>>
  /\ samerepoq = <<>>
  /\ todo # <<>>
  /\ LET media == Min({el.media[x] : x \in Range(todo)})
         first == Min({j \in DOMAIN todo : el.media[todo[j]] = media})
         repo == el.repo[todo[first]]
         match == {x \in TEs : el.media[x] = media /\ el.repo[x] = repo}
         same == Those(todo, match)
     IN  Output(Head(same), Those(todo, TEs \ match), Tail(same), uninstq, repo, media)

OrderDone ==
  /\ opc = "order"
  /\ uninstq = <<>> /\ samerepoq = <<>> /\ todo = <<>>
  /\ opc' = "done"
  /\ UNCHANGED <<el, edges, mark, todo, cycles, cycq, queueVars, choiceVars>>

(* transaction_order_get_cycle: how bad it is that cycle c was broken.     *)
transaction_order_get_cycle(c) ==
  IF Less(c.min, {TYPE_REQ}) THEN "HARMLESS"
  ELSE IF TYPE_PREREQ \in c.max THEN "CRITICAL" ELSE "NORMAL"

-----------------------------------------------------------------------------
(***************************************************************************)
(* transaction_order_add_choices: the application orders the elements      *)
(* itself.  It may choose an element that is not offered yet, once.        *)
(***************************************************************************)
InitChoices ==
  /\ opc = "done"
  /\ mark' = Needs
  /\ choices' = InTEOrder({x \in TEs : Needs[x] = 0})
  /\ opc' = "choices"
  /\ UNCHANGED <<el, edges, todo, cycles, cycq, queueVars, chosen, early>>

AddChoices(i) ==
  /\ opc = "choices"
  /\ i \notin chosen
  /\ LET next == {x \in Range(Followers(i)) : mark[x] > 0}
     IN  /\ choices' = choices \o Those(Followers(i), {x \in next : mark[x] = 1})
         /\ mark' = [x \in TEs |-> IF x \in next THEN mark[x] - 1
                                   ELSE IF x = i /\ mark[x] > 0 THEN -1 ELSE mark[x]]
  /\ chosen' = chosen \cup {i}
  /\ early' = early \cup ({i} \ {x \in TEs : Unbroken(edges, x) \subseteq chosen})
  /\ UNCHANGED <<el, edges, todo, cycles, cycq, queueVars, opc>>

-----------------------------------------------------------------------------
NoElements == [uninst |-> {}, scripts |-> {}, repo |-> <<>>, media |-> <<>>]

OrderInit ==
  /\ el = NoElements
  /\ edges = <<>>
  /\ mark = <<>>
  /\ todo = <<>> /\ cycles = <<>> /\ cycq = <<>>
  /\ uninstq = <<>> /\ samerepoq = <<>>
  /\ lastrepo = 0 /\ lastmedia = 0 /\ lastte = 0
  /\ order = <<>> /\ choices = <<>> /\ chosen = {} /\ early = {}
  /\ opc = "idle"

(* The application has chosen everything.                                  *)
AllChosen == opc = "choices" /\ chosen = TEs /\ UNCHANGED orderVars

OrderStep ==
  \/ EndOfEdges \/ AlreadyFinished \/ VisitEdges \/ BreakCycle
  \/ CyclesBroken \/ AddCycleEdges \/ InvertEdges
  \/ TakeUninstall \/ TakeSameRepo \/ TakeNextMedium \/ OrderDone

OrderNext ==
  \/ \E g \in Graphs : StartOrder(g)
  \/ OrderStep
  \/ InitChoices
  \/ \E i \in TEs : AddChoices(i)
  \/ AllChosen

OrderSpec == OrderInit /\ [][OrderNext]_orderVars

-----------------------------------------------------------------------------
OrderTypeOK ==
  /\ el.uninst \subseteq TEs /\ el.scripts \subseteq TEs
  /\ edges \in [TEs -> Seq([to : TEs, type : SUBSET Types])]
  /\ mark \in [TEs -> Int]
  /\ todo \in Seq(TEs \cup {-i : i \in TEs})
  /\ \A q \in {uninstq, samerepoq, order, choices} : q \in Seq(TEs)
  /\ lastte \in TEs \cup {0}
  /\ early \subseteq chosen /\ chosen \subseteq TEs
  /\ opc \in {"idle", "break", "cycle", "order", "done", "choices"}

(***************************************************************************)
(* The assertions of transaction_order and transaction_order_add_choices:  *)
(* an element met again during the search closes a cycle of at least two   *)
(* elements on the stack, joined by unbroken edges and all marked 1; a     *)
(* follower of an element about to be done still counts it; at the end     *)
(* nothing is left; and a follower of an element the application chooses   *)
(* still counts it or was itself chosen out of order.                      *)
(***************************************************************************)
SearchAssertions ==
  Searching /\ Last(todo) > 0 /\ mark[Last(todo)] = 1 =>
    LET stack == Front(todo)
        cycle == CyclePath(stack, Last(todo))
    IN  /\ CycleStart(stack, Last(todo)) > 0
        /\ Len(cycle) > 1
        /\ \A k \in DOMAIN cycle : /\ mark[cycle[k]] = 1
                                   /\ Succ(cycle, k) \in Unbroken(edges, cycle[k])

Ready == Range(uninstq) \cup Range(samerepoq) \cup Range(todo)

AssertionsHold ==
  /\ SearchAssertions
  /\ opc = "order" => \A i \in Ready : \A x \in Range(Followers(i)) : mark[x] > 0
  /\ opc = "order" /\ order = <<>> => Ready # {}
  /\ opc = "done" => \A x \in TEs : mark[x] = 0
  /\ opc = "choices" => \A i \in TEs \ chosen : \A x \in Range(Followers(i)) :
                          mark[x] > 0 \/ (mark[x] = -1 /\ x \in chosen)

(***************************************************************************)
(* "All edges are finally set up and there are no cycles": once the search *)
(* is over no element needs itself, and the cycle edges that follow ("we   *)
(* are not creating a new cycle!") keep it so.  On the way the search      *)
(* never finishes an element too early: what a finished element needs is   *)
(* finished, although breaking a cycle restarts it inside its stack.       *)
(***************************************************************************)
NoCyclesLeft ==
  /\ opc \in {"cycle", "order"} =>
       \A x \in TEs : x \notin Reach(edges, Unbroken(edges, x))
  /\ opc = "break" =>
       \A x \in TEs : mark[x] = 2 => \A y \in Unbroken(edges, x) : mark[y] = 2

Plain(type) == type \ {TYPE_BROKEN, TYPE_CYCLETAIL, TYPE_CYCLEHEAD}

SeverityIsMeant(cycle) ==
  LET c == cycle.tes
      types == {Plain(EdgeType(edges, c[j], Succ(c, j))) : j \in DOMAIN c}
      hard == \A t \in types : t \cap {TYPE_REQ, TYPE_PREREQ} # {}
      pre == \E t \in types : TYPE_PREREQ \in t
  IN  transaction_order_get_cycle(cycle) =
        IF ~hard THEN "HARMLESS" ELSE IF pre THEN "CRITICAL" ELSE "NORMAL"

(***************************************************************************)
(* Every broken edge was the weakest of a cycle of the dependency graph:   *)
(* the records of the broken cycles name real cycles, the broken edge goes *)
(* from the head to the tail, and no edge of the cycle has a lower degree. *)
(* The severity reported for the cycle, which comes from the least and the *)
(* greatest degree breakcycle saw, is NORMAL or worse exactly when every   *)
(* edge of it was a requirement of a new package, and CRITICAL when one of *)
(* them was a prerequisite.                                                *)
(***************************************************************************)
BrokenEdgesAreWeakest ==
  /\ \A k \in DOMAIN cycles :
       LET c == cycles[k].tes
       IN  /\ \A j \in DOMAIN c : EdgeIndex(edges, c[j], Succ(c, j)) # {}
           /\ TYPE_BROKEN \in EdgeType(edges, Last(c), c[1])
           /\ \A j \in DOMAIN c : ~Less(Degree(Plain(EdgeType(edges, c[j], Succ(c, j)))),
                                        Degree(Plain(EdgeType(edges, Last(c), c[1]))))
           /\ SeverityIsMeant(cycles[k])
  /\ \A x \in TEs : \A e \in Range(edges[x]) :
       TYPE_BROKEN \in e.type =>
         \E k \in DOMAIN cycles : Last(cycles[k].tes) = x /\ cycles[k].tes[1] = e.to

(***************************************************************************)
(* "Order the steps in the transactions so that dependent packages are     *)
(* updated before packages that depend on them": an element is output once *)
(* and after everything an unbroken edge says it needs, and in the end all *)
(* elements are output.                                                    *)
(***************************************************************************)
Before(x, y) == \E i, j \in DOMAIN order : i < j /\ order[i] = x /\ order[j] = y

OrderRespectsEdges ==
  /\ \A y \in Range(order) : \A x \in Unbroken(edges, y) : Before(x, y)
  /\ IsInjective(order)
  /\ opc \in {"done", "choices"} => Range(order) = TEs

(***************************************************************************)
(* A medium is changed only when nothing more can be installed from it: no *)
(* ready element of the repository and medium in use waits in todo.        *)
(***************************************************************************)
NoNeedlessMediumChange ==
  opc = "order" => \A x \in Range(todo) :
                     ~(el.repo[x] = lastrepo /\ el.media[x] = lastmedia)

(***************************************************************************)
(* What the cycle edges are for ("we found an edge to the cycle, add an    *)
(* extra edge to the tail"): the elements of a broken cycle are done as a  *)
(* block.  Who needs a member and is not needed by the cycle waits for its *)
(* tail, and what a member needs and does not need the cycle is done       *)
(* before its head.                                                        *)
(***************************************************************************)
Requires(x) ==
  {e.to : e \in {f \in Range(edges[x]) : TYPE_BROKEN \notin f.type /\ Plain(f.type) # {}}}

WaitForTail(C) == {x \in TEs \ Reach(edges, C) : Requires(x) \cap C # {}}
NeededByHead(C) == {k \in UNION {Requires(c) : c \in C} : Reach(edges, {k}) \cap C = {}}

(***************************************************************************)
(* As much of it as the code achieves: addteedge finds a broken edge       *)
(* between the two elements and leaves it broken, in all other cases the   *)
(* cycle edge is there and is respected.                                   *)
(***************************************************************************)
Dropped(x, y) == EdgeIndex(edges, x, y) # {} /\ TYPE_BROKEN \in EdgeType(edges, x, y)

BlocksWherePossible ==
  opc = "done" =>
    \A n \in DOMAIN cycles :
      LET cycle == cycles[n].tes
      IN  /\ \A x \in WaitForTail(Range(cycle)) : Before(cycle[1], x) \/ Dropped(x, cycle[1])
          /\ \A k \in NeededByHead(Range(cycle)) : Before(k, Last(cycle))
                                                   \/ Dropped(Last(cycle), k)

(***************************************************************************)
(* transaction_order_add_choices offers an element once, exactly when      *)
(* everything it needs was chosen, and never one that was chosen before    *)
(* its turn, in whatever order the application chooses.                    *)
(***************************************************************************)
ChoicesAreExact ==
  opc = "choices" =>
    /\ IsInjective(choices)
    /\ Range(choices) = {x \in TEs : Unbroken(edges, x) \subseteq chosen} \ early

(***************************************************************************)
(* transaction_order keeps its state in shape: the types and the           *)
(* assertions of the code.                                                 *)
(***************************************************************************)
OrderInvariant == OrderTypeOK /\ AssertionsHold

(***************************************************************************)
(* The cycles are broken well: none is left, only weakest edges went, and  *)
(* the elements of a cycle stay together where that is possible.           *)
(***************************************************************************)
CyclesBrokenWell == NoCyclesLeft /\ BrokenEdgesAreWeakest /\ BlocksWherePossible

(***************************************************************************)
(* The output is right: no element comes before one it needs, the medium   *)
(* is not changed while elements of the current one are ready, and an      *)
(* application that chooses itself is offered what it may choose.          *)
(***************************************************************************)
OutputRight == OrderRespectsEdges /\ NoNeedlessMediumChange /\ ChoicesAreExact

OpenEdges == {p \in TEs \X TEs : p[2] \in Unbroken(edges, p[1])}
Fresh == {x \in TEs : mark[x] = 0}

(***************************************************************************)
(* The search ends although it starts over in the middle of its stack:     *)
(* every step breaks an edge, or visits an element for the first time      *)
(* since an edge was broken, or makes the stack shorter.                   *)
(***************************************************************************)
SearchAdvances ==
  [][opc = "break" /\ opc' = "break" =>
       \/ OpenEdges' \subseteq OpenEdges /\ OpenEdges' # OpenEdges
       \/ /\ OpenEdges' = OpenEdges
          /\ \/ Fresh' \subseteq Fresh /\ Fresh' # Fresh
             \/ Fresh' = Fresh /\ Len(todo') < Len(todo)]_orderVars

=============================================================================
