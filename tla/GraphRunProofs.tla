--------------------------- MODULE GraphRunProofs ---------------------------
(***************************************************************************)
(* Proofs about GraphRules and GraphRun, for every set of finite graphs.   *)
(*                                                                         *)
(* Every loop of the code (the searches, the Kahn sort, the marking of     *)
(* unreachable nodes) is Saturate, and what it returns is the least set    *)
(* that a round leaves alone.  Where an argument goes along a path or up   *)
(* the clauses of an expression, it takes a minimal counterexample instead *)
(* of an induction: a minimal set of a finite family, a last node of an    *)
(* acyclic graph, the last clause that raises.                             *)
(***************************************************************************)
EXTENDS GraphRun, FiniteSetTheorems, WellFoundedInduction, SequenceTheorems, TLAPS

-----------------------------------------------------------------------------
(* The loop that goes on while something is new.                            *)

\* A family of subsets of a finite set that is not empty has a member without a
\* smaller one.
LEMMA MinimalSet ==
    ASSUME NEW U, IsFiniteSet(U), NEW F \in SUBSET SUBSET U, F # {}
    PROVE  \E S \in F : \A T \in F : T \subseteq S => T = S
  <1> DEFINE R == StrictSubsetOrdering(U)
  <1>1. F \subseteq FiniteSubsetsOf(U)
    BY FS_Subset DEF FiniteSubsetsOf
  <1>2. IsWellFoundedOn(R, FiniteSubsetsOf(U))
    BY FS_StrictSubsetOrderingWellFounded
  <1>3. PICK S \in F : \A T \in F : ~(<<T, S>> \in R)
    <2> HIDE DEF R
    <2> QED BY <1>1, <1>2, WFMin
  <1>4. ASSUME NEW T \in F, T \subseteq S, T # S PROVE FALSE
    <2>1. <<T, S>> \in (SUBSET U) \X (SUBSET U)
      OBVIOUS
    <2>2. <<T, S>> \in R
      BY <2>1, <1>4 DEF StrictSubsetOrdering
    <2> QED BY <2>2, <1>3
  <1> QED BY <1>4

\* One round of a loop adds what is new, and never less than an earlier round did.
Rounds(U, new) ==
    /\ IsFiniteSet(U) /\ new \in [SUBSET U -> SUBSET U]
    /\ \A S \in SUBSET U : new[S] \cap S = {}
    /\ \A S, T \in SUBSET U : S \subseteq T => new[S] \subseteq new[T] \cup T

\* The equation of the loop.
IsLoop(U, new, f) == f = [S \in SUBSET U |-> IF new[S] = {} THEN S ELSE f[S \cup new[S]]]

\* The loop is well defined: there is a function that satisfies its equation.
LEMMA LoopExists ==
    ASSUME NEW U, NEW new, Rounds(U, new)
    PROVE  \E f : IsLoop(U, new, f)
  <1> DEFINE Above(S) == {T \in SUBSET U : S \subseteq T /\ new[T] = {}}
             f == [S \in SUBSET U |-> {x \in U : \A T \in Above(S) : x \in T}]
  <1>1. ASSUME NEW S \in SUBSET U, new[S] = {} PROVE f[S] = S
    BY <1>1
  <1>2. ASSUME NEW S \in SUBSET U, new[S] # {} PROVE S \cup new[S] \in SUBSET U /\ f[S] = f[S \cup new[S]]
    <2>1. S \cup new[S] \in SUBSET U
      BY DEF Rounds
    <2>2. Above(S) = Above(S \cup new[S])
      BY <2>1 DEF Rounds
    <2> QED BY <2>1, <2>2
  <1>3. IsLoop(U, new, f)
    <2>1. \A S \in SUBSET U : f[S] = IF new[S] = {} THEN S ELSE f[S \cup new[S]]
      BY <1>1, <1>2
    <2>2. f = [S \in SUBSET U |-> f[S]]
      OBVIOUS
    <2> HIDE DEF f
    <2> QED BY <2>1, <2>2 DEF IsLoop
  <1> HIDE DEF f
  <1> QED BY <1>3

\* What the loop ends with: nothing is new to it, and it is the least such set.
LEMMA Saturated ==
    ASSUME NEW U, NEW new, Rounds(U, new)
    PROVE  /\ Saturate(new) \in SUBSET U /\ new[Saturate(new)] = {}
           /\ \A T \in SUBSET U : new[T] = {} => Saturate(new) \subseteq T
  <1> DEFINE loop == CHOOSE f : IsLoop(U, new, f)
  <1>1. loop = [S \in SUBSET U |-> IF new[S] = {} THEN S ELSE loop[S \cup new[S]]]
    <2>1. \E f : IsLoop(U, new, f)
      BY LoopExists
    <2>2. IsLoop(U, new, loop)
      BY <2>1, Zenon
    <2> HIDE DEF loop
    <2> QED BY <2>2 DEF IsLoop
  <1>2. Saturate(new) = loop[{}]
    <2>1. DOMAIN new = SUBSET U
      BY DEF Rounds
    <2> QED BY <2>1, Zenon DEF Saturate, IsLoop
  <1> HIDE DEF loop
  <1> DEFINE Ends(S) == /\ loop[S] \in SUBSET U /\ new[loop[S]] = {}
                        /\ \A T \in SUBSET U : new[T] = {} /\ S \subseteq T => loop[S] \subseteq T
  <1>3. ASSUME NEW S \in SUBSET U, new[S] = {} PROVE Ends(S)
    BY <1>1, <1>3
  <1>4. ASSUME NEW S \in SUBSET U, new[S] # {}, Ends(S \cup new[S]) PROVE Ends(S)
    <2>1. S \cup new[S] \in SUBSET U /\ loop[S] = loop[S \cup new[S]]
      BY <1>1, <1>4 DEF Rounds
    <2>2. ASSUME NEW T \in SUBSET U, new[T] = {}, S \subseteq T PROVE loop[S] \subseteq T
      <3>1. S \cup new[S] \subseteq T
        BY <2>2 DEF Rounds
      <3> QED BY <3>1, <2>1, <2>2, <1>4
    <2> QED BY <2>1, <2>2, <1>4
  <1> DEFINE F == {D \in SUBSET U : ~Ends(U \ D)}
  <1>5. F = {}
    <2> SUFFICES ASSUME F # {} PROVE FALSE
      OBVIOUS
    <2>1. IsFiniteSet(U) /\ F \in SUBSET SUBSET U
      BY DEF Rounds
    <2> HIDE DEF F
    <2>2. PICK D \in F : \A T \in F : T \subseteq D => T = D
      BY <2>1, MinimalSet
    <2> USE DEF F
    <2> HIDE DEF Ends
    <2>3. U \ D \in SUBSET U /\ ~Ends(U \ D)
      BY <2>2
    <2>4. new[U \ D] # {}
      BY <2>3, <1>3
    <2> DEFINE E == D \ new[U \ D]
    <2>5. U \ E = (U \ D) \cup new[U \ D] /\ E \in SUBSET U /\ E # D /\ E \subseteq D
      BY <2>2, <2>4 DEF Rounds
    <2>6. Ends(U \ E)
      BY <2>5, <2>2
    <2> QED BY <2>6, <2>5, <2>4, <2>3, <1>4
  <1>6. Ends({})
    <2>1. U \ U = {} /\ U \in SUBSET U
      OBVIOUS
    <2> HIDE DEF Ends
    <2> QED BY <2>1, <1>5
  <1> QED BY <1>6, <1>2

-----------------------------------------------------------------------------
(* Searches in a directed graph, given by the successors of each node.      *)

\* A finite directed graph, by the successors of each node.
Successors(U, next) == IsFiniteSet(U) /\ next \in [U -> SUBSET U]

\* What the search finds is the least set that a step cannot leave except to a
\* node that it goes without.
LEMMA Explored ==
    ASSUME NEW U, NEW next, Successors(U, next), NEW without, NEW stack \in SUBSET U
    PROVE  /\ Explore(next, without, stack) \in SUBSET (U \ without)
           /\ stack \subseteq Explore(next, without, stack) \cup without
           /\ \A x \in Explore(next, without, stack) : next[x] \subseteq Explore(next, without, stack) \cup without
           /\ \A T \in SUBSET U : stack \subseteq T \cup without /\ (\A x \in T : next[x] \subseteq T \cup without)
                => Explore(next, without, stack) \subseteq T
  <1> DEFINE new == [seen \in SUBSET DOMAIN next |->
                        (stack \cup UNION {next[x] : x \in seen}) \ (seen \cup without)]
             E == Explore(next, without, stack)
  <1>1. DOMAIN next = U
    BY DEF Successors
  <1>2. new \in [SUBSET U -> SUBSET U]
    <2>1. ASSUME NEW S \in SUBSET U PROVE (stack \cup UNION {next[x] : x \in S}) \ (S \cup without) \in SUBSET U
      BY DEF Successors
    <2> QED BY <2>1, <1>1
  <1>3. \A S \in SUBSET U : new[S] = (stack \cup UNION {next[x] : x \in S}) \ (S \cup without)
    BY <1>1
  <1>4. E = Saturate(new)
    BY Zenon DEF Explore
  <1> HIDE DEF new
  <1>5. Rounds(U, new)
    <2>1. \A S \in SUBSET U : new[S] \cap S = {}
      BY <1>3
    <2>2. ASSUME NEW S \in SUBSET U, NEW T \in SUBSET U, S \subseteq T PROVE new[S] \subseteq new[T] \cup T
      BY <1>3, <2>2
    <2> QED BY <1>2, <2>1, <2>2 DEF Rounds, Successors
  <1>6. \A S \in SUBSET U : new[S] = {} <=>
            stack \subseteq S \cup without /\ \A x \in S : next[x] \subseteq S \cup without
    BY <1>3
  <1>7. /\ E \in SUBSET U /\ new[E] = {} /\ \A T \in SUBSET U : new[T] = {} => E \subseteq T
    BY <1>4, <1>5, Saturated
  <1> HIDE DEF E
  <1>8. E \subseteq E \ without
    <2>1. E \ without \in SUBSET U
      BY <1>7
    <2>2. new[E \ without] = {}
      BY <2>1, <1>6, <1>7
    <2> QED BY <2>1, <2>2, <1>7
  <1>9. /\ E \in SUBSET (U \ without)
        /\ stack \subseteq E \cup without
        /\ \A x \in E : next[x] \subseteq E \cup without
        /\ \A T \in SUBSET U : stack \subseteq T \cup without /\ (\A x \in T : next[x] \subseteq T \cup without)
             => E \subseteq T
    BY <1>6, <1>7, <1>8
  <1> QED BY <1>9 DEF E

\* The nodes that a path leads to.
Reach(U, next, x) ==
    {y \in U : \A S \in SUBSET U : next[x] \subseteq S /\ (\A z \in S : next[z] \subseteq S) => y \in S}

\* It is the least set that has the successors of x and is closed.
LEMMA ReachClosed ==
    ASSUME NEW U, NEW next, Successors(U, next), NEW x \in U
    PROVE  /\ next[x] \subseteq Reach(U, next, x)
           /\ \A z \in Reach(U, next, x) : next[z] \subseteq Reach(U, next, x)
           /\ \A S \in SUBSET U : next[x] \subseteq S /\ (\A z \in S : next[z] \subseteq S) => Reach(U, next, x) \subseteq S
  <1>1. next[x] \subseteq U /\ \A z \in U : next[z] \subseteq U
    BY DEF Successors
  <1> QED BY <1>1 DEF Reach

\* Paths can be joined.
LEMMA ReachTransitive ==
    ASSUME NEW U, NEW next, Successors(U, next), NEW x \in U, NEW y \in Reach(U, next, x)
    PROVE  y \in U /\ Reach(U, next, y) \subseteq Reach(U, next, x)
  <1>1. y \in U /\ Reach(U, next, x) \in SUBSET U
    BY DEF Reach
  <1> QED BY <1>1, ReachClosed

\* A path backwards is a path along the converse edges.
LEMMA ReachConverse ==
    ASSUME NEW U, NEW next, Successors(U, next), NEW prev, Successors(U, prev),
           \A a, b \in U : b \in next[a] <=> a \in prev[b],
           NEW x \in U, NEW y \in Reach(U, next, x)
    PROVE  x \in Reach(U, prev, y)
  <1> DEFINE S == {z \in U : x \in Reach(U, prev, z)}
  <1>1. next[x] \subseteq S
    <2> SUFFICES ASSUME NEW z \in next[x] PROVE z \in U /\ x \in Reach(U, prev, z)
      OBVIOUS
    <2>1. z \in U
      BY DEF Successors
    <2>2. x \in prev[z]
      BY <2>1
    <2> QED BY <2>1, <2>2, ReachClosed
  <1>2. ASSUME NEW z \in S, NEW w \in next[z] PROVE w \in S
    <2>1. w \in U /\ z \in U /\ x \in Reach(U, prev, z)
      BY <1>2 DEF Successors
    <2>2. z \in prev[w]
      BY <2>1
    <2>3. z \in Reach(U, prev, w)
      BY <2>1, <2>2, ReachClosed
    <2>4. Reach(U, prev, z) \subseteq Reach(U, prev, w)
      BY <2>1, <2>3, ReachTransitive
    <2> QED BY <2>1, <2>4
  <1>3. Reach(U, next, x) \subseteq S
    <2>1. S \in SUBSET U
      OBVIOUS
    <2> HIDE DEF S
    <2> QED BY <1>1, <1>2, <2>1, ReachClosed
  <1> QED BY <1>3

\* A search from the successors of x finds what x reaches, except x itself.
LEMMA ExploreReach ==
    ASSUME NEW U, NEW next, Successors(U, next), NEW x \in U
    PROVE  Explore(next, {x}, next[x]) = Reach(U, next, x) \ {x}
  <1> DEFINE E == Explore(next, {x}, next[x])
             R == Reach(U, next, x)
  <1>1. next[x] \in SUBSET U /\ R \in SUBSET U /\ E \cup {x} \in SUBSET U
    <2>1. next[x] \in SUBSET U
      BY DEF Successors
    <2>2. E \in SUBSET (U \ {x})
      BY <2>1, Explored
    <2> QED BY <2>1, <2>2 DEF Reach
  <1>2. /\ E \in SUBSET (U \ {x}) /\ next[x] \subseteq E \cup {x}
        /\ \A z \in E : next[z] \subseteq E \cup {x}
        /\ \A T \in SUBSET U : next[x] \subseteq T \cup {x} /\ (\A z \in T : next[z] \subseteq T \cup {x}) => E \subseteq T
    BY <1>1, Explored
  <1>3. next[x] \subseteq R /\ \A z \in R : next[z] \subseteq R
    BY ReachClosed
  <1>4. R \subseteq E \cup {x}
    <2>1. \A S \in SUBSET U : next[x] \subseteq S /\ (\A z \in S : next[z] \subseteq S) => R \subseteq S
      BY ReachClosed
    <2> HIDE DEF E, R
    <2> QED BY <1>1, <1>2, <2>1
  <1> HIDE DEF E, R
  <1>5. E \subseteq R
    BY <1>1, <1>2, <1>3
  <1>6. E = R \ {x}
    BY <1>2, <1>4, <1>5
  <1> QED BY <1>6 DEF E, R

\* No path leads back to where it started.
Acyclic(U, next) == \A x \in U : x \notin Reach(U, next, x)

\* Among some nodes of an acyclic graph, one has no successor.
LEMMA Sink ==
    ASSUME NEW U, NEW next, Successors(U, next), Acyclic(U, next), NEW C \in SUBSET U, C # {}
    PROVE  \E x \in C : next[x] \cap C = {}
  <1> DEFINE F == {Reach(U, next, x) : x \in C}
  <1>1. F \in SUBSET SUBSET U /\ F # {} /\ IsFiniteSet(U)
    <2>1. \A x \in C : Reach(U, next, x) \in SUBSET U
      BY DEF Reach
    <2> QED BY <2>1 DEF Successors
  <1>2. PICK S \in F : \A T \in F : T \subseteq S => T = S
    <2> HIDE DEF F
    <2> QED BY <1>1, MinimalSet
  <1>3. PICK x \in C : S = Reach(U, next, x)
    BY <1>2
  <1>4. ASSUME NEW y \in next[x] \cap C PROVE FALSE
    <2>1. y \in Reach(U, next, x)
      BY ReachClosed
    <2>2. Reach(U, next, y) \subseteq Reach(U, next, x)
      BY <2>1, ReachTransitive
    <2>3. y \notin Reach(U, next, y)
      BY DEF Acyclic
    <2>4. Reach(U, next, y) \in F
      OBVIOUS
    <2> HIDE DEF F
    <2> QED BY <2>1, <2>2, <2>3, <2>4, <1>2, <1>3
  <1> QED BY <1>4

-----------------------------------------------------------------------------
(* GraphIndex computes what its names say.                                  *)

\* A list has finitely many positions and members.
LEMMA FiniteRange ==
    ASSUME NEW S, NEW s \in Seq(S)
    PROVE  IsFiniteSet(DOMAIN s) /\ IsFiniteSet(Range(s))
  <1>1. DOMAIN s = 1 .. Len(s) /\ Len(s) \in Nat
    OBVIOUS
  <1>2. IsFiniteSet(DOMAIN s)
    BY <1>1, FS_Interval
  <1>3. s \in Surjection(DOMAIN s, Range(s))
    BY <1>1 DEF Surjection, Range
  <1> QED BY <1>2, <1>3, FS_Surjection

\* A graph that meets the contract is a finite directed graph whose edges join nodes
\* of its own, and Before is the converse of After.
LEMMA Contract ==
    ASSUME NEW g \in Graphs, validate_graph_contract(g)
    PROVE  /\ Successors(ids(g), After(g)) /\ Successors(ids(g), Before(g))
           /\ \A a, b \in ids(g) : b \in After(g)[a] <=> a \in Before(g)[b]
           /\ IsFiniteSet(ids(g)) /\ IsFiniteSet(Range(g.edges))
           /\ \A e \in Range(g.edges) : e.src \in ids(g) /\ e.dst \in ids(g)
  <1>1. g.nodes \in Seq(Range(g.nodes)) /\ g.edges \in Seq(Range(g.edges))
    BY GraphsAreDocuments
  <1>2. IsFiniteSet(Range(g.edges)) /\ IsFiniteSet(DOMAIN g.nodes)
    BY <1>1, FiniteRange
  <1>3. IsFiniteSet(ids(g))
    <2> DEFINE f == [i \in DOMAIN g.nodes |-> g.nodes[i].id]
    <2>1. f \in Surjection(DOMAIN g.nodes, ids(g))
      BY DEF Surjection, ids, Range
    <2> HIDE DEF f
    <2> QED BY <2>1, <1>2, FS_Surjection
  <1>4. \A e \in Range(g.edges) : e.src \in ids(g) /\ e.dst \in ids(g)
    BY DEF validate_graph_contract
  <1>5. After(g) \in [ids(g) -> SUBSET ids(g)] /\ Before(g) \in [ids(g) -> SUBSET ids(g)]
    BY <1>4 DEF After, Before, incoming_edges, outgoing_edges
  <1>6. ASSUME NEW a \in ids(g), NEW b \in ids(g) PROVE b \in After(g)[a] <=> a \in Before(g)[b]
    BY DEF After, Before, incoming_edges, outgoing_edges
  <1> QED BY <1>2, <1>3, <1>4, <1>5, <1>6 DEF Successors

\* The counter of Kahn's loop is 0 when every predecessor was taken off.
LEMMA Indegree ==
    ASSUME NEW g \in Graphs, validate_graph_contract(g), NEW done, NEW x \in ids(g)
    PROVE  indegree(g, done, x) \in Nat /\ (indegree(g, done, x) = 0 <=> Before(g)[x] \subseteq done)
  <1> DEFINE all == incoming_edges(g, x)
             gone == {e \in all : e.src \in done}
  <1>1. IsFiniteSet(all)
    <2>1. IsFiniteSet(Range(g.edges)) /\ all \in SUBSET Range(g.edges)
      BY Contract DEF incoming_edges
    <2> QED BY <2>1, FS_Subset
  <1>2. gone \in SUBSET all
    OBVIOUS
  <1>3. indegree(g, done, x) = Cardinality(all) - Cardinality(gone)
    BY DEF indegree
  <1>4. Before(g)[x] \subseteq done <=> gone = all
    BY DEF Before
  <1> HIDE DEF all, gone
  <1>5. /\ IsFiniteSet(gone) /\ Cardinality(gone) <= Cardinality(all)
        /\ Cardinality(all) = Cardinality(gone) => all = gone
    BY <1>1, <1>2, FS_Subset
  <1>6. Cardinality(gone) \in Nat /\ Cardinality(all) \in Nat
    BY <1>1, <1>5, FS_CardinalityType
  <1> QED BY <1>3, <1>4, <1>5, <1>6

\* Kahn's loop takes off a node when its predecessors are gone, and no other.
LEMMA Drained ==
    ASSUME NEW g \in Graphs, validate_graph_contract(g)
    PROVE  /\ Drain(g) \in SUBSET ids(g)
           /\ \A x \in ids(g) : x \in Drain(g) <=> Before(g)[x] \subseteq Drain(g)
           /\ \A T \in SUBSET ids(g) : (\A x \in ids(g) : Before(g)[x] \subseteq T => x \in T) => Drain(g) \subseteq T
  <1> DEFINE U == ids(g)
             new == [done \in SUBSET U |-> {x \in U \ done : indegree(g, done, x) = 0}]
             D == Drain(g)
  <1>1. D = Saturate(new)
    BY DEF Drain
  <1>2. \A S \in SUBSET U : new[S] = {x \in U \ S : Before(g)[x] \subseteq S}
    BY Indegree
  <1>3. new \in [SUBSET U -> SUBSET U]
    OBVIOUS
  <1>4. IsFiniteSet(U)
    BY Contract
  <1> HIDE DEF new, D, U
  <1>5. Rounds(U, new)
    <2>1. \A S \in SUBSET U : new[S] \cap S = {}
      BY <1>2
    <2>2. ASSUME NEW S \in SUBSET U, NEW T \in SUBSET U, S \subseteq T PROVE new[S] \subseteq new[T] \cup T
      BY <1>2, <2>2
    <2> QED BY <1>3, <1>4, <2>1, <2>2 DEF Rounds
  <1>6. D \in SUBSET U /\ new[D] = {} /\ \A T \in SUBSET U : new[T] = {} => D \subseteq T
    BY <1>1, <1>5, Saturated
  <1>7. \A x \in U : Before(g)[x] \subseteq D => x \in D
    BY <1>2, <1>6
  <1>8. ASSUME NEW T \in SUBSET U, \A x \in U : Before(g)[x] \subseteq T => x \in T PROVE D \subseteq T
    <2>1. new[T] = {}
      BY <1>2, <1>8
    <2> QED BY <1>6, <2>1
  <1>9. \A x \in D : Before(g)[x] \subseteq D
    <2> DEFINE T == {x \in D : Before(g)[x] \subseteq D}
    <2>1. T \in SUBSET U
      BY <1>6
    <2>2. ASSUME NEW x \in U, Before(g)[x] \subseteq T PROVE x \in T
      BY <2>2, <1>7
    <2> HIDE DEF T
    <2>3. D \subseteq T
      BY <2>1, <2>2, <1>8
    <2> QED BY <2>3 DEF T
  <1>10. /\ D \in SUBSET U
         /\ \A x \in U : x \in D <=> Before(g)[x] \subseteq D
         /\ \A T \in SUBSET U : (\A x \in U : Before(g)[x] \subseteq T => x \in T) => D \subseteq T
    BY <1>6, <1>7, <1>8, <1>9
  <1> QED BY <1>10 DEF D, U

\* A node is left over exactly in a graph with a cycle.
LEMMA CycleExact ==
    ASSUME NEW g \in Graphs, validate_graph_contract(g)
    PROVE  has_cycle(g) <=> ~Acyclic(ids(g), After(g))
  <1> DEFINE U == ids(g)
             A(x) == Reach(U, Before(g), x)
  <1>1. has_cycle(g) <=> Drain(g) # U
    <2>1. \A x \in U : indegree(g, Drain(g), x) > 0 <=> x \notin Drain(g)
      BY Indegree, Drained
    <2>2. Drain(g) \in SUBSET U
      BY Drained
    <2> QED BY <2>1, <2>2 DEF has_cycle, cycle_nodes
  <1>2. /\ Successors(U, After(g)) /\ Successors(U, Before(g))
        /\ \A a, b \in U : b \in After(g)[a] <=> a \in Before(g)[b]
    BY Contract
  <1>3. Acyclic(U, After(g)) <=> Acyclic(U, Before(g))
    BY <1>2, ReachConverse DEF Acyclic
  <1>4. ASSUME Acyclic(U, Before(g)), Drain(g) # U PROVE FALSE
    <2>1. U \ Drain(g) \in SUBSET U /\ U \ Drain(g) # {}
      BY <1>4, Drained
    <2>2. PICK x \in U \ Drain(g) : Before(g)[x] \cap (U \ Drain(g)) = {}
      <3> DEFINE C == U \ Drain(g)
      <3>1. C \in SUBSET U /\ C # {}
        BY <2>1
      <3> HIDE DEF C, U
      <3>2. \E x \in C : Before(g)[x] \cap C = {}
        BY <3>1, <1>2, <1>4, Sink
      <3> QED BY <3>2 DEF C
    <2>3. Before(g)[x] \subseteq U
      BY <1>2 DEF Successors
    <2> QED BY <2>2, <2>3, Drained
  <1>5. ASSUME Drain(g) = U PROVE Acyclic(U, Before(g))
    <2> DEFINE T == {x \in U : x \notin A(x)}
    <2>1. ASSUME NEW x \in U, Before(g)[x] \subseteq T, x \in A(x) PROVE FALSE
      <3> DEFINE S == {y \in U : y \in Before(g)[x] \/ \E z \in Before(g)[x] : y \in A(z)}
      <3>1. Before(g)[x] \subseteq S /\ S \in SUBSET U
        BY <1>2 DEF Successors
      <3>2. ASSUME NEW y \in S, NEW w \in Before(g)[y] PROVE w \in S
        <4>1. w \in U
          BY <3>2, <1>2 DEF Successors
        <4>2. CASE y \in Before(g)[x]
          <5>1. w \in A(y)
            BY <4>2, <1>2, ReachClosed
          <5> QED BY <4>1, <4>2, <5>1
        <4>3. ASSUME NEW z \in Before(g)[x], y \in A(z) PROVE w \in S
          <5>1. z \in U
            BY <1>2 DEF Successors
          <5>2. w \in A(z)
            BY <4>3, <5>1, <1>2, ReachClosed
          <5> QED BY <4>1, <5>2
        <4> QED BY <3>2, <4>2, <4>3
      <3>3. A(x) \subseteq S
        <4> HIDE DEF S
        <4> QED BY <3>1, <3>2, <1>2, ReachClosed
      <3>4. x \notin Before(g)[x]
        BY <2>1
      <3>5. PICK z \in Before(g)[x] : x \in A(z)
        BY <3>3, <3>4, <2>1
      <3>6. z \in U /\ z \notin A(z)
        BY <2>1
      <3>7. z \in A(z)
        BY <3>5, <3>6, <1>2, ReachClosed
      <3> QED BY <3>6, <3>7
    <2>2. Drain(g) \subseteq T
      <3>1. T \in SUBSET U
        OBVIOUS
      <3>2. \A x \in U : Before(g)[x] \subseteq T => x \in T
        BY <2>1
      <3> HIDE DEF T
      <3> QED BY <3>1, <3>2, Drained
    <2> QED BY <2>2, <1>5 DEF Acyclic
  <1> QED BY <1>1, <1>3, <1>4, <1>5

\* The searches against the pairs that a path connects.
LEMMA SearchesExact ==
    ASSUME NEW g \in Graphs, validate_graph_contract(g), NEW x \in ids(g)
    PROVE  /\ descendants(g, x) = Reach(ids(g), After(g), x) \ {x}
           /\ ancestors(g, x) = Reach(ids(g), Before(g), x) \ {x}
           /\ \A y \in ids(g) : y \in Reach(ids(g), Before(g), x) <=> x \in Reach(ids(g), After(g), y)
           /\ reachable_from(g, {x}) = {x} \cup Reach(ids(g), After(g), x)
  <1> DEFINE U == ids(g)
  <1>1. /\ Successors(U, After(g)) /\ Successors(U, Before(g))
        /\ \A a, b \in U : b \in After(g)[a] <=> a \in Before(g)[b]
    BY Contract
  <1>2. descendants(g, x) = Reach(U, After(g), x) \ {x} /\ ancestors(g, x) = Reach(U, Before(g), x) \ {x}
    BY <1>1, ExploreReach DEF descendants, ancestors
  <1>3. ASSUME NEW y \in U PROVE y \in Reach(U, Before(g), x) <=> x \in Reach(U, After(g), y)
    <2> HIDE DEF U
    <2>1. x \in U
      BY DEF U
    <2>2. x \in Reach(U, After(g), y) => y \in Reach(U, Before(g), x)
      BY <2>1, <1>1, ReachConverse
    <2>3. y \in Reach(U, Before(g), x) => x \in Reach(U, After(g), y)
      BY <2>1, <1>1, ReachConverse
    <2> QED BY <2>2, <2>3
  <1>4. reachable_from(g, {x}) = {x} \cup Reach(U, After(g), x)
    <2> DEFINE R == Reach(U, After(g), x)
               E == Explore(After(g), {}, {x})
    <2>1. {x} \in SUBSET U /\ R \in SUBSET U
      BY DEF Reach
    <2>2. After(g)[x] \subseteq R /\ \A z \in R : After(g)[z] \subseteq R
      BY <1>1, ReachClosed
    <2>3. \A S \in SUBSET U : After(g)[x] \subseteq S /\ (\A z \in S : After(g)[z] \subseteq S) => R \subseteq S
      BY <1>1, ReachClosed
    <2>4. /\ E \in SUBSET U /\ {x} \subseteq E /\ \A z \in E : After(g)[z] \subseteq E
          /\ \A T \in SUBSET U : {x} \subseteq T /\ (\A z \in T : After(g)[z] \subseteq T) => E \subseteq T
      <3>1. /\ E \in SUBSET (U \ {}) /\ {x} \subseteq E \cup {} /\ \A z \in E : After(g)[z] \subseteq E \cup {}
            /\ \A T \in SUBSET U : {x} \subseteq T \cup {} /\ (\A z \in T : After(g)[z] \subseteq T \cup {}) => E \subseteq T
        BY <1>1, <2>1, Explored
      <3> HIDE DEF E
      <3> QED BY <3>1
    <2> HIDE DEF R, E
    <2>5. R \subseteq E
      BY <2>3, <2>4
    <2>6. E \subseteq {x} \cup R
      BY <2>1, <2>2, <2>4
    <2>7. E = {x} \cup R
      BY <2>4, <2>5, <2>6
    <2> QED BY <2>7 DEF R, E, reachable_from
  <1> QED BY <1>2, <1>3, <1>4

\* The pairs of the property are the pairs of the search lemmas.
LEMMA ReachesExact ==
    ASSUME NEW g \in Graphs, NEW x \in ids(g), NEW y \in ids(g)
    PROVE  <<x, y>> \in Reaches(g) <=> y \in Reach(ids(g), After(g), x)
  BY DEF Reaches, Reach

\* The searches of GraphIndex and the Kahn sort compute what their names say.
LEMMA IndexExact ==
    ASSUME NEW g \in Graphs, validate_graph_contract(g)
    PROVE  /\ \A x \in ids(g) :
                /\ descendants(g, x) = {y \in ids(g) \ {x} : <<x, y>> \in Reaches(g)}
                /\ ancestors(g, x) = {y \in ids(g) \ {x} : <<y, x>> \in Reaches(g)}
                /\ reachable_from(g, {x}) = {x} \cup {y \in ids(g) : <<x, y>> \in Reaches(g)}
           /\ has_cycle(g) <=> \E x \in ids(g) : <<x, x>> \in Reaches(g)
  <1>1. \A x, y \in ids(g) : <<x, y>> \in Reaches(g) <=> y \in Reach(ids(g), After(g), x)
    BY ReachesExact
  <1>2. \A x \in ids(g) : Reach(ids(g), After(g), x) \subseteq ids(g) /\ Reach(ids(g), Before(g), x) \subseteq ids(g)
    BY DEF Reach
  <1>3. ASSUME NEW x \in ids(g)
        PROVE  /\ descendants(g, x) = {y \in ids(g) \ {x} : <<x, y>> \in Reaches(g)}
               /\ ancestors(g, x) = {y \in ids(g) \ {x} : <<y, x>> \in Reaches(g)}
               /\ reachable_from(g, {x}) = {x} \cup {y \in ids(g) : <<x, y>> \in Reaches(g)}
    BY <1>1, <1>2, SearchesExact
  <1>4. has_cycle(g) <=> \E x \in ids(g) : <<x, x>> \in Reaches(g)
    BY <1>1, CycleExact DEF Acyclic
  <1> QED BY <1>3, <1>4

-----------------------------------------------------------------------------
(* What an accepted graph is like.                                          *)

\* A graph that validation lets through: it becomes a Version that is run.
Accepted(g) == g \in Graphs /\ validate_graph_contract(g) /\ validate_graph(g) = {}

\* A rule without an issue found its condition false.
LEMMA NoIssue == \A c, code : Issue(c, code) = {} => ~c
  BY DEF Issue

\* Every rule of the validation engine found nothing.
LEMMA RulesHold ==
    ASSUME NEW g, Accepted(g)
    PROVE  /\ entry_rule(g) = {} /\ output_rule(g) = {} /\ ~has_cycle(g) /\ unreachable_rule(g) = {}
           /\ dead_end_rule(g) = {} /\ parallel_rule(g) = {} /\ merge_rule(g) = {} /\ pairing_rule(g) = {}
           /\ validate_nodes(g) = {} /\ validate_context(g) = {} /\ validate_schema(g) = {}
  <1>1. g.nodes # <<>>
    BY DEF Accepted, validate_graph
  <1>2. validate_topology(g) = {} /\ validate_nodes(g) = {} /\ validate_context(g) = {} /\ validate_schema(g) = {}
    BY <1>1 DEF Accepted, validate_graph
  <1>3. Issue(has_cycle(g), "UNSUPPORTED_CYCLE") = {}
    BY <1>2 DEF validate_topology
  <1>4. ~has_cycle(g)
    BY <1>3, NoIssue
  <1> QED BY <1>2, <1>4 DEF validate_topology

\* One Data Input, which nothing leads to.
LEMMA OneEntry ==
    ASSUME NEW g, Accepted(g)
    PROVE  \E i \in ids(g) : entry_node_ids(g) = {i} /\ incoming_edges(g, i) = {} /\ kind(g, i) = "input"
  <1> DEFINE I == entry_node_ids(g)
  <1>1. /\ Issue(Cardinality(I) = 0, "MISSING_INPUT_NODE") = {}
        /\ Issue(Cardinality(I) > 1, "MULTIPLE_INPUT_NODES") = {}
        /\ Issue(/\ Cardinality(I) = 1
                 /\ \E x \in I : incoming_edges(g, x) # {}, "INVALID_INPUT_NODE_EDGE") = {}
    BY RulesHold DEF entry_rule
  <1>2. ~(Cardinality(I) = 0) /\ ~(Cardinality(I) > 1)
    BY <1>1, NoIssue
  <1>3. I \in SUBSET ids(g) /\ IsFiniteSet(ids(g))
    BY Contract DEF entry_node_ids, Accepted
  <1>4. IsFiniteSet(I) /\ Cardinality(I) \in Nat
    BY <1>3, FS_Subset, FS_CardinalityType
  <1>5. Cardinality(I) = 1
    BY <1>2, <1>4
  <1>6. ~\E x \in I : incoming_edges(g, x) # {}
    BY <1>1, <1>5 DEF Issue
  <1>7. PICK i : I = {i}
    BY <1>4, <1>5, FS_Singleton
  <1> QED BY <1>3, <1>6, <1>7 DEF entry_node_ids

\* The later topology rules are applied: the graph is a DAG with one Data Input.
LEMMA OneEntryDagHolds ==
    ASSUME NEW g, Accepted(g)
    PROVE  OneEntryDag(g)
  <1>1. PICK i \in ids(g) : entry_node_ids(g) = {i}
    BY OneEntry
  <1> QED BY <1>1, FS_Singleton, RulesHold DEF OneEntryDag

\* The Data Input leads to every node.
LEMMA AllReachable ==
    ASSUME NEW g, Accepted(g)
    PROVE  ids(g) = reachable_from(g, entry_node_ids(g))
  <1>1. Issue(OneEntryDag(g) /\ ids(g) \ reachable_from(g, entry_node_ids(g)) # {}, "UNREACHABLE_NODE") = {}
    BY RulesHold DEF unreachable_rule
  <1>2. ids(g) \subseteq reachable_from(g, entry_node_ids(g))
    BY <1>1, NoIssue, OneEntryDagHolds
  <1>3. PICK i \in ids(g) : entry_node_ids(g) = {i}
    BY OneEntry
  <1>4. reachable_from(g, {i}) \subseteq ids(g)
    BY SearchesExact DEF Accepted, Reach
  <1> QED BY <1>2, <1>3, <1>4

\* There is a Data Output.
LEMMA OutputsExist ==
    ASSUME NEW g, Accepted(g)
    PROVE  output_node_ids(g) # {}
  <1>1. Issue(output_node_ids(g) = {}, "MISSING_OUTPUT_NODE") = {}
    BY RulesHold DEF output_rule
  <1> QED BY <1>1, NoIssue

\* A Condition has a valid expression and one edge for each of its branches.
LEMMA ConditionRules ==
    ASSUME NEW g, Accepted(g), NEW x \in ids(g), kind(g, x) = "condition"
    PROVE  /\ validate_expression(node(g, x).expr)
           /\ \A h \in {"true", "false"} : Cardinality(Branches(g, x, h)) = 1
  <1>1. validate_condition(g, x) = {}
    <2>1. (IF kind(g, x) \in DOMAIN ConfigIssue THEN Issue(node(g, x).config = "bad", ConfigIssue[kind(g, x)])
           ELSE validate_logic(g, x)) = {}
      BY RulesHold DEF validate_nodes
    <2>2. kind(g, x) \notin DOMAIN ConfigIssue
      BY DEF ConfigIssue
    <2> QED BY <2>1, <2>2 DEF validate_logic
  <1>2. Issue(~validate_expression(node(g, x).expr), "INVALID_CONDITION") = {}
    BY <1>1 DEF validate_condition
  <1>3. validate_expression(node(g, x).expr)
    BY <1>2, NoIssue
  <1>4. Issue(/\ node(g, x).expr # <<>>
              /\ \/ \E e \in outgoing_edges(g, x) : e.handle \notin {"true", "false"}
                 \/ \E h \in {"true", "false"} : Cardinality(Branches(g, x, h)) # 1, "INVALID_CONDITION_BRANCH") = {}
    BY <1>1 DEF validate_condition
  <1>5. node(g, x).expr # <<>>
    BY <1>3 DEF validate_expression
  <1> QED BY <1>3, <1>4, <1>5 DEF Issue

\* Every node but an Output has a successor.
LEMMA GoesOn ==
    ASSUME NEW g, Accepted(g), NEW x \in ids(g), kind(g, x) # "output"
    PROVE  outgoing_edges(g, x) # {}
  <1>1. CASE kind(g, x) = "condition"
    <2>1. Cardinality(Branches(g, x, "true")) = 1
      BY <1>1, ConditionRules
    <2>2. Branches(g, x, "true") # {}
      BY <2>1, FS_EmptySet
    <2> QED BY <2>2 DEF Branches
  <1>2. CASE kind(g, x) \in {"parallel", "merge"}
    <2> SUFFICES ASSUME outgoing_edges(g, x) = {} PROVE FALSE
      OBVIOUS
    <2>1. Cardinality(outgoing_edges(g, x)) = 0
      BY FS_EmptySet
    <2>2. parallel_rule(g) = {} /\ merge_rule(g) = {}
      BY RulesHold
    <2> QED BY <2>1, <2>2, <1>2 DEF parallel_rule, merge_rule, Issue
  <1>3. CASE kind(g, x) = "input"
    <2> SUFFICES ASSUME outgoing_edges(g, x) = {} PROVE FALSE
      OBVIOUS
    <2>1. entry_node_ids(g) = {x}
      BY <1>3, OneEntry DEF entry_node_ids
    <2>2. After(g)[x] = {}
      BY DEF After
    <2>3. ids(g) = {x} \cup Reach(ids(g), After(g), x)
      BY <2>1, AllReachable, SearchesExact DEF Accepted
    <2>4. Reach(ids(g), After(g), x) = {}
      <3>1. {} \in SUBSET ids(g)
        OBVIOUS
      <3> QED BY <2>2, <3>1 DEF Reach
    <2>5. PICK o \in ids(g) : kind(g, o) = "output"
      BY OutputsExist DEF output_node_ids
    <2> QED BY <2>3, <2>4, <2>5, <1>3
  <1>4. CASE kind(g, x) \notin {"input", "output", "condition", "parallel", "merge"}
    <2>1. PICK o \in output_node_ids(g) : x \in ancestors(g, o)
      <3> DEFINE backwards == output_node_ids(g) \cup UNION {ancestors(g, y) : y \in output_node_ids(g)}
                 stuck == {y \in reachable_from(g, entry_node_ids(g)) \ backwards :
                             kind(g, y) \notin {"input", "output", "condition", "parallel", "merge"}}
      <3>1. Issue(output_node_ids(g) # {} /\ OneEntryDag(g) /\ stuck # {}, "DEAD_END_BRANCH") = {}
        BY RulesHold DEF dead_end_rule
      <3>2. stuck = {}
        BY <3>1, NoIssue, OutputsExist, OneEntryDagHolds
      <3>3. x \in backwards
        BY <3>2, <1>4, AllReachable
      <3>4. x \notin output_node_ids(g)
        BY DEF output_node_ids
      <3> QED BY <3>3, <3>4
    <2>2. o \in ids(g)
      BY DEF output_node_ids
    <2>3. x \in Reach(ids(g), Before(g), o)
      BY <2>1, <2>2, SearchesExact DEF Accepted
    <2>4. o \in Reach(ids(g), After(g), x)
      BY <2>2, <2>3, SearchesExact DEF Accepted
    <2>5. ASSUME outgoing_edges(g, x) = {} PROVE FALSE
      <3>1. After(g)[x] = {}
        BY <2>5 DEF After
      <3>2. {} \in SUBSET ids(g)
        OBVIOUS
      <3> QED BY <2>4, <3>1, <3>2 DEF Reach
    <2> QED BY <2>5
  <1> QED BY <1>1, <1>2, <1>3, <1>4

\* The node with an id.
LEMMA NodeOf ==
    ASSUME NEW g, Accepted(g), NEW x \in ids(g)
    PROVE  node(g, x) \in Range(g.nodes) /\ node(g, x).id = x
  <1>1. PICK i \in DOMAIN g.nodes : g.nodes[i].id = x
    BY DEF ids, Range
  <1>2. i \in Int
    <2>1. g.nodes \in Seq(Range(g.nodes))
      BY GraphsAreDocuments DEF Accepted
    <2> QED BY <2>1, <1>1
  <1>3. {k \in DOMAIN g.nodes : g.nodes[k].id = x} = {i}
    BY <1>1 DEF Accepted, validate_graph_contract, Unique
  <1>4. Max({i}) = i
    BY <1>2 DEF Max
  <1> QED BY <1>1, <1>3, <1>4 DEF node, Range

-----------------------------------------------------------------------------
(* The scheduler.                                                           *)

\* The statuses of a NodeRun that the model has.
NodeStatus == {"pending", "queued", "dispatched", "waiting", "completed", "failed", "skipped"}

\* Those of a node that is at work.
Busy == {"queued", "dispatched", "waiting"}

\* The part of ScheduleInv that the scheduler works on.
Consistent(st, out) ==
    /\ st[Entry] = "completed"
    /\ \A x \in ids(graph) :
         /\ st[x] \notin {"pending", "skipped"} /\ x # Entry => Ran(x, st, out)
         /\ st[x] = "skipped" => Cut(x, st, out)

\* Entry is the one Data Input of the graph that is run.
LEMMA EntryIs ==
    ASSUME Accepted(graph)
    PROVE  Entry \in ids(graph) /\ entry_node_ids(graph) = {Entry} /\ incoming_edges(graph, Entry) = {}
  <1>1. PICK i \in ids(graph) : entry_node_ids(graph) = {i} /\ incoming_edges(graph, i) = {}
    BY OneEntry
  <1>2. Entry = i
    BY <1>1 DEF Entry
  <1> QED BY <1>1, <1>2

\* Edges into a node come from nodes of the graph.
LEMMA Incoming ==
    ASSUME Accepted(graph), NEW x, NEW e \in incoming_edges(graph, x)
    PROVE  e.src \in ids(graph) /\ e.dst = x
  BY Contract DEF Accepted, incoming_edges

\* An edge is inactive only if its source ended.
LEMMA InactiveSettled ==
    ASSUME NEW st, NEW out, NEW e, ~edge_is_active(e, st, out)
    PROVE  st[e.src] \in {"completed", "skipped"}
  BY DEF edge_is_active

\* Where the nodes that ended keep their status and output, a node that had the
\* right to run keeps it, and one that had not does not get it.
LEMMA Carry ==
    ASSUME Accepted(graph), NEW st, NEW out, NEW st2, NEW out2,
           \A z \in ids(graph) : st[z] \in {"completed", "skipped"} => st2[z] = st[z] /\ out2[z] = out[z],
           NEW x
    PROVE  (Ran(x, st, out) => Ran(x, st2, out2)) /\ (Cut(x, st, out) => Cut(x, st2, out2))
  <1>1. ASSUME NEW e \in incoming_edges(graph, x), st[e.src] \in {"completed", "skipped"}
        PROVE  /\ st2[e.src] = st[e.src]
               /\ edge_is_active(e, st2, out2) <=> edge_is_active(e, st, out)
    <2>1. e.src \in ids(graph)
      BY Incoming
    <2>2. st2[e.src] = st[e.src] /\ out2[e.src] = out[e.src]
      BY <2>1, <1>1
    <2> QED BY <2>2 DEF edge_is_active
  <1>2. ASSUME Ran(x, st, out) PROVE Ran(x, st2, out2)
    <2>1. \A e \in incoming_edges(graph, x) : st[e.src] \in {"completed", "skipped"}
      BY <1>2, InactiveSettled DEF Ran
    <2> QED BY <1>1, <1>2, <2>1 DEF Ran
  <1>3. ASSUME Cut(x, st, out) PROVE Cut(x, st2, out2)
    <2>1. \A e \in incoming_edges(graph, x) : st[e.src] \in {"completed", "skipped"}
      BY <1>3, InactiveSettled DEF Cut
    <2> QED BY <1>1, <1>3, <2>1 DEF Cut
  <1> QED BY <1>2, <1>3

\* A node that is at work ends, or is parked.
LEMMA StepConsistent ==
    ASSUME Accepted(graph), NEW st \in [ids(graph) -> NodeStatus], NEW out, DOMAIN out = ids(graph), Consistent(st, out),
           NEW x \in ids(graph), st[x] \in Busy, NEW s \in {"completed", "failed", "waiting"}, NEW o
    PROVE  Consistent([st EXCEPT ![x] = s], [out EXCEPT ![x] = o])
  <1> DEFINE st2 == [st EXCEPT ![x] = s]
             out2 == [out EXCEPT ![x] = o]
  <1>1. \A z \in ids(graph) : z # x => st2[z] = st[z] /\ out2[z] = out[z]
    OBVIOUS
  <1>2. st2[x] = s
    OBVIOUS
  <1> HIDE DEF st2, out2
  <1>3. \A z \in ids(graph) : st[z] \in {"completed", "skipped"} => st2[z] = st[z] /\ out2[z] = out[z]
    BY <1>1 DEF Busy
  <1>4. \A y : (Ran(y, st, out) => Ran(y, st2, out2)) /\ (Cut(y, st, out) => Cut(y, st2, out2))
    BY <1>3, Carry
  <1>5. Entry # x /\ Entry \in ids(graph)
    BY EntryIs DEF Consistent, Busy
  <1>6. Consistent(st2, out2)
    BY <1>1, <1>2, <1>4, <1>5 DEF Consistent, Busy
  <1> QED BY <1>6 DEF st2, out2

\* The fixed-point loop skips exactly the PENDING nodes that are cut off.
LEMMA MarkedNodes ==
    ASSUME Accepted(graph), NEW st \in [ids(graph) -> NodeStatus], NEW out
    PROVE  /\ mark_unreachable_condition_nodes(st, out) \in SUBSET ids(graph)
           /\ \A x \in mark_unreachable_condition_nodes(st, out) :
                 st[x] = "pending" /\ Cut(x, Skip(st, mark_unreachable_condition_nodes(st, out)), out)
  <1> DEFINE U == ids(graph)
             C(S, x) == st[x] = "pending" /\ Cut(x, Skip(st, S), out)
             new == [S \in SUBSET U |->
                        {x \in U \ S :
                            /\ st[x] = "pending" /\ incoming_edges(graph, x) # {}
                            /\ \A e \in incoming_edges(graph, x) : ~edge_is_active(e, Skip(st, S), out)}]
             M == mark_unreachable_condition_nodes(st, out)
  <1>1. M = Saturate(new)
    BY DEF mark_unreachable_condition_nodes
  <1>2. \A S \in SUBSET U : new[S] = {x \in U \ S : C(S, x)}
    BY DEF Cut
  <1>3. new \in [SUBSET U -> SUBSET U]
    OBVIOUS
  <1> HIDE DEF new, M
  <1>4. ASSUME NEW S \in SUBSET U, NEW T \in SUBSET U, S \subseteq T, NEW x \in U, C(S, x) PROVE C(T, x)
    <2>1. ASSUME NEW e \in incoming_edges(graph, x), edge_is_active(e, Skip(st, T), out)
          PROVE  edge_is_active(e, Skip(st, S), out)
      <3>1. e.src \in U
        BY Incoming
      <3>2. Skip(st, T)[e.src] # "skipped"
        BY <2>1 DEF edge_is_active
      <3>3. e.src \notin T
        BY <3>1, <3>2 DEF Skip
      <3>4. Skip(st, T)[e.src] = Skip(st, S)[e.src]
        BY <3>1, <3>3, <1>4 DEF Skip
      <3> QED BY <3>4, <2>1 DEF edge_is_active
    <2> QED BY <1>4, <2>1 DEF Cut
  <1> HIDE DEF C
  <1>5. Rounds(U, new)
    <2>1. \A S \in SUBSET U : new[S] \cap S = {}
      BY <1>2
    <2>2. ASSUME NEW S \in SUBSET U, NEW T \in SUBSET U, S \subseteq T PROVE new[S] \subseteq new[T] \cup T
      BY <1>2, <1>4, <2>2
    <2>3. IsFiniteSet(U)
      BY Contract DEF Accepted
    <2> QED BY <1>3, <2>1, <2>2, <2>3 DEF Rounds
  <1>6. M \in SUBSET U /\ new[M] = {} /\ \A T \in SUBSET U : new[T] = {} => M \subseteq T
    BY <1>1, <1>5, Saturated
  <1>7. \A x \in M : C(M, x)
    <2> DEFINE T == {x \in M : C(M, x)}
    <2>1. T \in SUBSET U /\ T \subseteq M
      BY <1>6
    <2>2. ASSUME NEW x \in new[T] PROVE FALSE
      <3>1. x \in U \ T /\ C(T, x)
        BY <2>1, <2>2, <1>2
      <3> HIDE DEF T
      <3>2. C(M, x)
        BY <3>1, <2>1, <1>4, <1>6
      <3>3. x \in M
        BY <3>1, <3>2, <1>2, <1>6
      <3> QED BY <3>1, <3>2, <3>3 DEF T
    <2>3. new[T] = {}
      BY <2>2
    <2>4. M \subseteq T
      <3> HIDE DEF T
      <3> QED BY <2>1, <2>3, <1>6
    <2> QED BY <2>4
  <1> QED BY <1>6, <1>7 DEF C, M

\* The loop that skips nodes leaves the rows consistent: it skips what is cut off,
\* and nothing that already ran loses an edge it ran for.
LEMMA MarkConsistent ==
    ASSUME Accepted(graph), NEW st \in [ids(graph) -> NodeStatus], NEW out, Consistent(st, out)
    PROVE  Consistent(Skip(st, mark_unreachable_condition_nodes(st, out)), out)
  <1> DEFINE M == mark_unreachable_condition_nodes(st, out)
             st2 == Skip(st, M)
  <1>1. M \in SUBSET ids(graph) /\ \A x \in M : st[x] = "pending" /\ Cut(x, st2, out)
    BY MarkedNodes
  <1>2. \A z \in ids(graph) : st2[z] = IF z \in M THEN "skipped" ELSE st[z]
    BY DEF Skip
  <1> HIDE DEF M, st2
  <1>3. \A z \in ids(graph) : st[z] \in {"completed", "skipped"} => st2[z] = st[z] /\ out[z] = out[z]
    BY <1>1, <1>2
  <1>4. \A y : (Ran(y, st, out) => Ran(y, st2, out)) /\ (Cut(y, st, out) => Cut(y, st2, out))
    BY <1>3, Carry
  <1>5. st2[Entry] = "completed"
    BY <1>1, <1>2, EntryIs DEF Consistent
  <1>6. Consistent(st2, out)
    BY <1>1, <1>2, <1>4, <1>5 DEF Consistent
  <1> QED BY <1>6 DEF st2, M

\* Submitting ready nodes, to a Worker or a Runner, leaves the rows consistent.
LEMMA QueueConsistent ==
    ASSUME Accepted(graph), NEW st \in [ids(graph) -> NodeStatus], NEW out, Consistent(st, out),
           NEW Q \in SUBSET find_ready_nodes(st, out), NEW st2,
           \A z \in ids(graph) : IF z \in Q THEN st2[z] \in {"queued", "dispatched"} ELSE st2[z] = st[z]
    PROVE  Consistent(st2, out)
  <1>1. \A x \in Q : x \in ids(graph) /\ st[x] = "pending" /\ Ran(x, st, out)
    BY DEF find_ready_nodes, Ran
  <1>2. \A z \in ids(graph) : st[z] \in {"completed", "skipped"} => st2[z] = st[z] /\ out[z] = out[z]
    BY <1>1
  <1>3. \A y : (Ran(y, st, out) => Ran(y, st2, out)) /\ (Cut(y, st, out) => Cut(y, st2, out))
    BY <1>2, Carry
  <1>4. st2[Entry] = "completed"
    BY <1>1, EntryIs DEF Consistent
  <1> QED BY <1>1, <1>3, <1>4 DEF Consistent

\* One reconciliation: only PENDING nodes change, to QUEUED or SKIPPED.
LEMMA Scheduled ==
    ASSUME Accepted(graph), NEW st \in [ids(graph) -> NodeStatus], NEW in, NEW out, Consistent(st, out)
    PROVE  /\ schedule_ready_nodes(st, in, out) \in [ids(graph) -> NodeStatus]
           /\ Consistent(schedule_ready_nodes(st, in, out), out)
           /\ \A x \in ids(graph) :
                 IF st[x] = "pending"
                 THEN schedule_ready_nodes(st, in, out)[x] \in {"pending", "queued", "dispatched", "skipped"}
                 ELSE schedule_ready_nodes(st, in, out)[x] = st[x]
           /\ \A x \in ids(graph) :
                 schedule_ready_nodes(st, in, out)[x] = "dispatched" => st[x] = "dispatched" \/ OnRunner(x)
  <1> DEFINE M == mark_unreachable_condition_nodes(st, out)
             marked == Skip(st, M)
             Q == {x \in find_ready_nodes(marked, out) : dispatchable(x, in, out)}
             st2 == [x \in ids(graph) |-> IF x \notin Q THEN marked[x]
                                          ELSE IF runner_payload(x, in, out) THEN "dispatched" ELSE "queued"]
  <1>1. schedule_ready_nodes(st, in, out) = st2
    BY DEF schedule_ready_nodes
  <1>2. M \in SUBSET ids(graph) /\ \A x \in M : st[x] = "pending"
    BY MarkedNodes
  <1>3. marked \in [ids(graph) -> NodeStatus]
    BY DEF Skip, NodeStatus
  <1>4. Consistent(marked, out)
    BY MarkConsistent
  <1>5. \A x \in ids(graph) : marked[x] = IF x \in M THEN "skipped" ELSE st[x]
    BY DEF Skip
  <1> HIDE DEF marked, M
  <1>6. Q \in SUBSET find_ready_nodes(marked, out)
    OBVIOUS
  <1>7. \A x \in Q : marked[x] = "pending"
    BY DEF find_ready_nodes
  <1> HIDE DEF Q
  <1>8. \A x \in ids(graph) : IF x \in Q THEN st2[x] \in {"queued", "dispatched"} ELSE st2[x] = marked[x]
    OBVIOUS
  <1>9. st2 \in [ids(graph) -> NodeStatus]
    BY <1>3 DEF NodeStatus
  <1>10. \A x \in ids(graph) : st2[x] = "dispatched" => st[x] = "dispatched" \/ OnRunner(x)
    BY <1>5 DEF runner_payload
  <1> HIDE DEF st2
  <1>11. Consistent(st2, out)
    BY <1>3, <1>4, <1>6, <1>8, QueueConsistent
  <1>12. \A x \in ids(graph) : IF st[x] = "pending" THEN st2[x] \in {"pending", "queued", "dispatched", "skipped"}
                                                    ELSE st2[x] = st[x]
    BY <1>2, <1>5, <1>7, <1>8
  <1> QED BY <1>1, <1>9, <1>10, <1>11, <1>12

-----------------------------------------------------------------------------
(* The evaluation of an expression.                                         *)

\* A set of numbers that is not empty has a least element.
LEMMA LeastNat ==
    ASSUME NEW S \in SUBSET Nat, S # {}
    PROVE  Min(S) \in S /\ \A y \in S : Min(S) <= y
  <1> DEFINE R == {ss \in Nat \X Nat : ss[1] < ss[2]}
  <1>1. IsWellFoundedOn(R, Nat)
    BY NatLessThanWellFounded, Zenon DEF OpToRel
  <1>2. \E x \in S : \A y \in S : ~(<<y, x>> \in R)
    <2> HIDE DEF R
    <2> QED BY <1>1, WFMin
  <1>3. PICK x \in S : \A y \in S : ~(<<y, x>> \in R)
    BY <1>2
  <1>4. ASSUME NEW y \in S PROVE x <= y
    <2>1. x \in Nat /\ y \in Nat
      OBVIOUS
    <2>2. ~(<<y, x>>[1] < <<y, x>>[2])
      BY <1>3, <2>1
    <2> QED BY <2>1, <2>2
  <1> QED BY <1>4 DEF Min

\* An expression is a finite tree.
Tree(expr) ==
    /\ expr \in Seq(Range(expr))
    /\ \A i \in DOMAIN expr : expr[i].clauses \in Seq(i + 1 .. Len(expr))

\* The verdict on clause i, from the verdicts f on the clauses after it.
VerdictOn(expr, value, f, i) ==
    LET x == expr[i]
        goOn == IF x.shape = "and" THEN "true" ELSE "false"
        stops == {k \in DOMAIN x.clauses : f[x.clauses[k]] # goOn}
    IN  IF x.shape = "compare" THEN compare(value[x.left], x.op, value[x.right])
        ELSE IF x.clauses = <<>> THEN "raise"
        ELSE IF stops = {} THEN goOn ELSE f[x.clauses[Min(stops)]]

\* The equation of the evaluation.
IsVerdict(expr, value, f) == f = [i \in DOMAIN expr |-> VerdictOn(expr, value, f, i)]

\* The verdict depends on the later clauses only.
LEMMA VerdictLocal ==
    ASSUME NEW expr, Tree(expr), NEW value, NEW f, NEW g, NEW i \in DOMAIN expr,
           \A j \in i + 1 .. Len(expr) : f[j] = g[j]
    PROVE  VerdictOn(expr, value, f, i) = VerdictOn(expr, value, g, i)
  <1> DEFINE x == expr[i]
             goOn == IF x.shape = "and" THEN "true" ELSE "false"
             sf == {k \in DOMAIN x.clauses : f[x.clauses[k]] # goOn}
             sg == {k \in DOMAIN x.clauses : g[x.clauses[k]] # goOn}
  <1>1. x.clauses \in Seq(i + 1 .. Len(expr))
    BY DEF Tree
  <1>2. \A k \in DOMAIN x.clauses : f[x.clauses[k]] = g[x.clauses[k]]
    <2> DEFINE c == x.clauses
               T == i + 1 .. Len(expr)
    <2>1. c \in Seq(T) /\ \A j \in T : f[j] = g[j]
      BY <1>1
    <2> HIDE DEF c, T
    <2>2. \A k \in DOMAIN c : c[k] \in T
      BY <2>1
    <2>3. \A k \in DOMAIN c : f[c[k]] = g[c[k]]
      BY <2>1, <2>2
    <2> QED BY <2>3 DEF c
  <1>3. sf = sg
    BY <1>2
  <1>4. sf # {} => Min(sf) \in sf
    <2>1. sf \in SUBSET Nat
      BY <1>1
    <2> HIDE DEF sf
    <2> QED BY <2>1, LeastNat
  <1>5. sf # {} => f[x.clauses[Min(sf)]] = g[x.clauses[Min(sg)]]
    <2> SUFFICES ASSUME sf # {} PROVE f[x.clauses[Min(sf)]] = g[x.clauses[Min(sg)]]
      OBVIOUS
    <2>1. Min(sf) = Min(sg)
      <3> HIDE DEF sf, sg
      <3> QED BY <1>3
    <2>2. Min(sf) \in DOMAIN x.clauses
      <3>1. sf \subseteq DOMAIN x.clauses
        OBVIOUS
      <3> HIDE DEF sf
      <3> QED BY <1>4, <3>1
    <2> HIDE DEF sf, sg, x
    <2> QED BY <1>2, <2>1, <2>2
  <1>6. /\ VerdictOn(expr, value, f, i) =
             IF x.shape = "compare"
             THEN compare(value[x.left], x.op, value[x.right])
             ELSE IF x.clauses = <<>> THEN "raise" ELSE IF sf = {} THEN goOn ELSE f[x.clauses[Min(sf)]]
        /\ VerdictOn(expr, value, g, i) =
             IF x.shape = "compare"
             THEN compare(value[x.left], x.op, value[x.right])
             ELSE IF x.clauses = <<>> THEN "raise" ELSE IF sg = {} THEN goOn ELSE g[x.clauses[Min(sg)]]
    BY DEF VerdictOn
  <1> HIDE DEF sf, sg, goOn, x
  <1> QED BY <1>3, <1>5, <1>6

\* The evaluation is well defined: there are verdicts that agree with each other.
LEMMA VerdictExists ==
    ASSUME NEW expr, Tree(expr), NEW value
    PROVE  \E f : IsVerdict(expr, value, f)
  <1> DEFINE N == Len(expr)
             V(f, i) == VerdictOn(expr, value, f, i)
             From(k) == \E f : \A i \in 1 .. N : i > N - k => f[i] = V(f, i)
  <1>1. N \in Nat /\ DOMAIN expr = 1 .. N
    BY DEF Tree
  <1>2. From(0)
    BY <1>1
  <1>3. ASSUME NEW k \in 0 .. N, k # 0, From(k - 1) PROVE From(k)
    <2>1. PICK f : \A i \in 1 .. N : i > N - (k - 1) => f[i] = V(f, i)
      BY <1>3
    <2> DEFINE n == N - k + 1
               g == [i \in 1 .. N |-> IF i = n THEN V(f, n) ELSE f[i]]
    <2>2. n \in 1 .. N /\ k \in Int
      BY <1>1, <1>3
    <2>3. g[n] = V(f, n) /\ \A i \in 1 .. N : i # n => g[i] = f[i]
      BY <2>2
    <2> HIDE DEF g
    <2>4. ASSUME NEW i \in 1 .. N, i > N - k PROVE g[i] = V(g, i)
      <3>1. i >= n
        BY <1>1, <2>4, <2>2
      <3>2. \A j \in i + 1 .. Len(expr) : g[j] = f[j]
        BY <1>1, <2>2, <2>3, <3>1
      <3>3. V(f, i) = V(g, i)
        BY <1>1, <3>2, VerdictLocal
      <3>4. g[i] = V(f, i)
        <4>1. CASE i = n
          BY <4>1, <2>3
        <4>2. CASE i # n
          <5>1. i > N - (k - 1)
            BY <1>1, <2>2, <3>1, <4>2
          <5> QED BY <2>1, <2>3, <4>2, <5>1
        <4> QED BY <4>1, <4>2
      <3> QED BY <3>3, <3>4
    <2> HIDE DEF V
    <2> QED BY <2>4
  <1>4. From(N)
    <2> DEFINE K == {k \in 0 .. N : ~From(k)}
    <2> HIDE DEF From
    <2> SUFFICES ASSUME K # {} PROVE FALSE
      BY <1>1
    <2>1. K \in SUBSET Nat
      BY <1>1
    <2>2. PICK k \in K : \A y \in K : k <= y
      <3> HIDE DEF K
      <3> QED BY <2>1, LeastNat
    <2>3. k \in 0 .. N /\ k # 0
      BY <1>2, <2>2
    <2>4. k - 1 \in 0 .. N /\ ~(k <= k - 1)
      BY <1>1, <2>3
    <2>5. From(k - 1)
      BY <2>2, <2>4
    <2> QED BY <1>3, <2>2, <2>3, <2>5
  <1>5. PICK f : \A i \in 1 .. N : f[i] = V(f, i)
    <2>1. PICK f : \A i \in 1 .. N : i > N - N => f[i] = V(f, i)
      BY <1>4
    <2>2. \A i \in 1 .. N : i > N - N
      BY <1>1
    <2> QED BY <2>1, <2>2
  <1> DEFINE g == [i \in DOMAIN expr |-> f[i]]
  <1>6. ASSUME NEW i \in DOMAIN expr PROVE g[i] = V(g, i)
    <2>1. \A j \in i + 1 .. Len(expr) : g[j] = f[j]
      BY <1>1
    <2> HIDE DEF g
    <2>2. V(f, i) = V(g, i)
      BY <2>1, VerdictLocal
    <2>3. g[i] = f[i]
      BY DEF g
    <2> QED BY <1>1, <1>5, <2>2, <2>3
  <1>7. g = [i \in DOMAIN expr |-> g[i]]
    OBVIOUS
  <1> HIDE DEF g
  <1>8. IsVerdict(expr, value, g)
    BY <1>6, <1>7 DEF IsVerdict
  <1> QED BY <1>8

\* What evaluate_expression returns is the verdict of the first clause in a table
\* of verdicts that satisfies the equation.
LEMMA EvaluateIs ==
    ASSUME NEW expr, Tree(expr), NEW value
    PROVE  \E f : /\ evaluate_expression(expr, value) = f[1]
                  /\ \A i \in DOMAIN expr : f[i] = VerdictOn(expr, value, f, i)
  <1> DEFINE f == CHOOSE f : IsVerdict(expr, value, f)
  <1>1. \E h : IsVerdict(expr, value, h)
    BY VerdictExists
  <1>2. IsVerdict(expr, value, f)
    BY <1>1, Zenon
  <1>3. evaluate_expression(expr, value) = f[1]
    BY Zenon DEF evaluate_expression, IsVerdict, VerdictOn
  <1> HIDE DEF f
  <1>4. \A i \in DOMAIN expr : f[i] = VerdictOn(expr, value, f, i)
    BY <1>2 DEF IsVerdict
  <1> QED BY <1>3, <1>4

\* A comparison is true, false or raises.
LEMMA CompareRange ==
    ASSUME NEW v, NEW op, NEW w
    PROVE  compare(v, op, w) \in {"true", "false", "raise"}
  <1>1. \A d, b : Verdict(d, b) \in {"true", "false", "raise"}
    BY DEF Verdict
  <1>2. CASE op \in {"==", "!=", "is_empty", "is_not_empty"}
    BY <1>1, <1>2 DEF compare
  <1>3. CASE op \in {">", ">=", "<", "<="}
    BY <1>1, <1>3 DEF compare
  <1>4. CASE op \in {"contains", "not_contains"}
    BY <1>1, <1>4 DEF compare
  <1>5. CASE op \notin {"==", "!=", ">", ">=", "<", "<=", "contains", "not_contains", "is_empty", "is_not_empty"}
    BY <1>5 DEF compare
  <1> QED BY <1>2, <1>3, <1>4, <1>5

\* So is an expression: a last clause with another verdict would have it from a
\* comparison or from a later clause.
LEMMA EvaluateRange ==
    ASSUME NEW expr, Tree(expr), expr # <<>>, NEW value
    PROVE  evaluate_expression(expr, value) \in {"true", "false", "raise"}
  <1> DEFINE N == Len(expr)
             Three == {"true", "false", "raise"}
  <1>1. N \in Nat /\ DOMAIN expr = 1 .. N /\ N # 0
    BY DEF Tree
  <1>2. PICK f : /\ evaluate_expression(expr, value) = f[1]
                 /\ \A i \in DOMAIN expr : f[i] = VerdictOn(expr, value, f, i)
    BY EvaluateIs
  <1> DEFINE R == {d \in 0 .. N - 1 : f[N - d] \notin Three}
  <1> SUFFICES ASSUME f[1] \notin Three PROVE FALSE
    BY <1>2
  <1>3. R \in SUBSET Nat /\ R # {}
    <2>1. N - 1 \in 0 .. N - 1 /\ N - (N - 1) = 1
      BY <1>1
    <2>2. N - 1 \in R
      BY <2>1
    <2>3. R \in SUBSET Nat
      BY <1>1
    <2> HIDE DEF R
    <2> QED BY <2>2, <2>3
  <1>4. PICK d \in R : \A y \in R : d <= y
    <2> HIDE DEF R
    <2> QED BY <1>3, LeastNat
  <1> DEFINE i == N - d
             x == expr[i]
             c == x.clauses
             goOn == IF x.shape = "and" THEN "true" ELSE "false"
             stops == {k \in DOMAIN c : f[c[k]] # goOn}
  <1>5. i \in 1 .. N /\ i \in DOMAIN expr /\ f[i] \notin Three
    BY <1>1, <1>4
  <1>6. ASSUME NEW j \in i + 1 .. N PROVE f[j] \in Three
    <2>1. N - j \in 0 .. N - 1 /\ N - (N - j) = j /\ ~(d <= N - j)
      BY <1>1, <1>4
    <2> QED BY <1>4, <2>1
  <1>7. c \in Seq(i + 1 .. N)
    BY <1>5 DEF Tree
  <1>8. f[i] = IF x.shape = "compare" THEN compare(value[x.left], x.op, value[x.right])
               ELSE IF c = <<>> THEN "raise" ELSE IF stops = {} THEN goOn ELSE f[c[Min(stops)]]
    BY <1>2, <1>5 DEF VerdictOn
  <1>9. stops # {} => Min(stops) \in DOMAIN c
    <2>1. stops \in SUBSET Nat /\ stops \subseteq DOMAIN c
      BY <1>7
    <2> HIDE DEF stops
    <2> QED BY <2>1, LeastNat
  <1>10. \A k \in DOMAIN c : c[k] \in i + 1 .. N
    <2> DEFINE T == i + 1 .. N
    <2> HIDE DEF T, c
    <2>1. c \in Seq(T)
      BY <1>7 DEF T
    <2>2. \A k \in DOMAIN c : c[k] \in T
      BY <2>1
    <2> QED BY <2>2 DEF T
  <1>11. goOn \in Three
    OBVIOUS
  <1>12. compare(value[x.left], x.op, value[x.right]) \in Three
    BY CompareRange
  <1> HIDE DEF stops, goOn, c, x, i
  <1> QED BY <1>5, <1>6, <1>8, <1>9, <1>10, <1>11, <1>12

-----------------------------------------------------------------------------
(* The inductive invariant of a Run.                                        *)

\* There is a Run.
Started == phase \in {"running", "waiting", "completed", "failed"}

\* What is left of the schema when an answer has been sanitized.
Enforced(o, schema) ==
    \A f \in DOMAIN o \cap DOMAIN schema.type : f # "trace" /\ ~Sensitive(f) => conforms(o[f], schema.type[f])

\* Every operand of the Condition has a value.
Determined(x) == \A r \in operands(Range(node(graph, x).expr)) : resolve_reference(r, input, output) # None

\* A branch that the expression of the Condition selects.
Selects(x, h) == h \in {"true", "false"} /\ h = evaluate_expression(node(graph, x).expr, OperandValues(x))

\* Rows: who may wait, which outputs and errors there are.
RowInv(x) ==
    /\ status[x] = "waiting" => kind(graph, x) \in {"approval", "form", "wait"}
    /\ status[x] = "dispatched" => OnRunner(x)
    /\ status[x] # "completed" => output[x] = <<>>
    /\ error[x] # "none" => phase = "failed"
    /\ phase = "completed" => status[x] \in {"completed", "skipped"}
    /\ kind(graph, x) = "condition" /\ status[x] = "completed" =>
          Determined(x) /\ Selects(x, output[x]["selected_branch"])
    /\ kind(graph, x) \in {"agent", "service"} /\ status[x] = "completed" =>
          Enforced(output[x], node(graph, x).out)

\* The input has its schema, if that is enforced.
InputFits == node(graph, Entry).out.object => validate_payload(input, node(graph, Entry).out)

\* The inductive invariant: the Run is one of an accepted graph, its rows are
\* consistent with the graph, and what is checked of its input and outputs holds.
RunInv ==
    /\ graph \in Graphs
    /\ phase \in {"draft", "invalid", "rejected", "running", "waiting", "completed", "failed"}
    /\ ~Started => DOMAIN status = {}
    /\ Started =>
         /\ Accepted(graph)
         /\ status \in [ids(graph) -> NodeStatus] /\ attempt \in [ids(graph) -> Nat]
         /\ output = [x \in ids(graph) |-> output[x]] /\ DOMAIN error = ids(graph)
         /\ Consistent(status, output)
         /\ InputFits
         /\ \A x \in ids(graph) : RowInv(x)

\* A step does not change the graph.
LEMMA SameGraph ==
    ASSUME graph' = graph
    PROVE  /\ Consistent(status', output') => Consistent(status, output)'
           /\ Entry' = Entry
           /\ Accepted(graph) => Accepted(graph)'
  <1>1. Entry' = Entry
    BY DEF Entry
  <1>2. ASSUME NEW e PROVE edge_is_active(e, status, output)' <=> edge_is_active(e, status', output')
    BY DEF edge_is_active
  <1>3. ASSUME NEW x
        PROVE  /\ Ran(x, status, output)' <=> Ran(x, status', output')
               /\ Cut(x, status, output)' <=> Cut(x, status', output')
    BY <1>2 DEF Ran, Cut
  <1> QED BY <1>1, <1>3 DEF Consistent, Accepted

\* The status of the Run after a step.
LEMMA Derived ==
    ASSUME NEW st, NEW out
    PROVE  /\ derive_workflow_state(st, out) \in {"running", "waiting", "completed", "failed"}
           /\ (\E x \in ids(graph) : st[x] = "failed") => derive_workflow_state(st, out) = "failed"
           /\ derive_workflow_state(st, out) = "completed" => \A x \in ids(graph) : st[x] \in {"completed", "skipped"}
  BY DEF derive_workflow_state, Terminal

\* An operand that has a value keeps it while the outputs there are stay: its
\* reference names a node that has one.
LEMMA ValuesKept ==
    ASSUME Accepted(graph), UNCHANGED <<graph, input>>,
           \A z \in ids(graph) : output[z] # <<>> => output'[z] = output[z],
           NEW x \in ids(graph), Determined(x)
    PROVE  Determined(x)' /\ \A h : Selects(x, h) => Selects(x, h)'
  <1> DEFINE n == node(graph, x)
             R == operands(Range(n.expr))
  <1>1. graph' = graph /\ input' = input
    OBVIOUS
  <1>2. ASSUME NEW r \in R PROVE resolve_reference(r, input, output)' = resolve_reference(r, input, output)
    <2>1. resolve_reference(r, input, output) # None
      BY DEF Determined
    <2>2. CASE r.scope # "node"
      BY <1>1, <2>2 DEF resolve_reference
    <2>3. CASE r.scope = "node"
      <3>1. resolve_reference(r, input, output) =
              IF r.field \in DOMAIN output[r.node] THEN member(output[r.node][r.field], r.rest) ELSE None
        BY <2>3 DEF resolve_reference
      <3>2. output[r.node] # <<>>
        BY <2>1, <3>1
      <3>3. r.node \in ids(graph)
        <4>1. n \in Range(graph.nodes)
          BY NodeOf
        <4>2. r \in config_refs(n)
          BY DEF config_refs
        <4>3. r.node \in NodeRefs(n)
          BY <2>3, <4>2 DEF NodeRefs
        <4> QED BY <4>1, <4>3 DEF Accepted, validate_graph_contract
      <3>4. output'[r.node] = output[r.node]
        BY <3>2, <3>3
      <3>5. resolve_reference(r, input, output)' =
              IF r.field \in DOMAIN output'[r.node] THEN member(output'[r.node][r.field], r.rest) ELSE None
        BY <2>3 DEF resolve_reference
      <3> QED BY <3>1, <3>4, <3>5
    <2> QED BY <2>2, <2>3
  <1>3. node(graph, x)' = n /\ operands(Range(node(graph, x).expr))' = R
    BY <1>1
  <1>4. Determined(x)'
    BY <1>2, <1>3 DEF Determined
  <1>5. OperandValues(x)' = OperandValues(x)
    <2>1. OperandValues(x) = [r \in R |-> resolve_reference(r, input, output)]
      BY DEF OperandValues
    <2>2. OperandValues(x)' = [r \in R |-> resolve_reference(r, input, output)']
      BY <1>3 DEF OperandValues
    <2> QED BY <1>2, <2>1, <2>2
  <1>6. \A h : Selects(x, h) => Selects(x, h)'
    BY <1>3, <1>5 DEF Selects
  <1> QED BY <1>4, <1>6

\* The input of the Run does not change.
LEMMA InputKept ==
    ASSUME UNCHANGED <<graph, input>>, InputFits
    PROVE  InputFits'
  <1>1. Entry' = Entry
    BY DEF Entry
  <1> QED BY <1>1 DEF InputFits, validate_payload

\* The end of a step on a node that is at work.
LEMMA SettleInv ==
    ASSUME RunInv, phase \in {"running", "waiting"}, NEW x \in ids(graph), status[x] \in Busy,
           NEW s \in {"completed", "failed", "waiting"}, NEW o, NEW code,
           Settle(x, s, o, code), attempt' \in [ids(graph) -> Nat],
           s # "completed" => o = <<>>,
           s = "waiting" => kind(graph, x) \in {"approval", "form", "wait"},
           code # "none" => s = "failed",
           s = "completed" /\ kind(graph, x) = "condition" => Determined(x) /\ Selects(x, o["selected_branch"]),
           s = "completed" /\ kind(graph, x) \in {"agent", "service"} => Enforced(o, node(graph, x).out)
    PROVE  RunInv' /\ (s = "failed" => phase' = "failed")
  <1> DEFINE U == ids(graph)
             st == [status EXCEPT ![x] = s]
  <1>1. /\ Accepted(graph) /\ status \in [U -> NodeStatus] /\ output = [y \in U |-> output[y]]
        /\ DOMAIN output = U /\ DOMAIN error = U /\ Consistent(status, output)
        /\ InputFits /\ \A y \in U : RowInv(y)
    <2>1. /\ Accepted(graph) /\ status \in [U -> NodeStatus] /\ output = [y \in U |-> output[y]]
          /\ DOMAIN error = U /\ Consistent(status, output)
          /\ InputFits /\ \A y \in U : RowInv(y)
      BY DEF RunInv, Started
    <2> QED BY <2>1
  <1>2. /\ output' = [output EXCEPT ![x] = o] /\ status' = schedule_ready_nodes(st, input, output')
        /\ phase' = derive_workflow_state(status', output') /\ error' = [error EXCEPT ![x] = code]
        /\ graph' = graph /\ input' = input
    BY DEF Settle
  <1>3. st \in [U -> NodeStatus] /\ st[x] = s /\ \A y \in U : y # x => st[y] = status[y]
    BY <1>1 DEF NodeStatus
  <1>4. Consistent(st, output')
    BY <1>1, <1>2, StepConsistent
  <1> HIDE DEF st
  <1>5. /\ status' \in [U -> NodeStatus] /\ Consistent(status', output')
        /\ \A y \in U : IF st[y] = "pending" THEN status'[y] \in {"pending", "queued", "dispatched", "skipped"}
                                              ELSE status'[y] = st[y]
        /\ \A y \in U : status'[y] = "dispatched" => st[y] = "dispatched" \/ OnRunner(y)
    <2> DEFINE st2 == schedule_ready_nodes(st, input, output')
    <2>1. Accepted(graph) /\ st \in [ids(graph) -> NodeStatus]
      BY <1>1, <1>3
    <2>2. /\ st2 \in [ids(graph) -> NodeStatus] /\ Consistent(st2, output')
          /\ \A y \in ids(graph) : IF st[y] = "pending" THEN st2[y] \in {"pending", "queued", "dispatched", "skipped"}
                                                        ELSE st2[y] = st[y]
          /\ \A y \in ids(graph) : st2[y] = "dispatched" => st[y] = "dispatched" \/ OnRunner(y)
      BY <2>1, <1>4, Scheduled
    <2>3. status' = st2
      BY <1>2
    <2> HIDE DEF st2
    <2> QED BY <2>2, <2>3
  <1>6. status'[x] = s /\ \A y \in U : y # x => (status'[y] \in {"completed", "waiting"} => status'[y] = status[y])
                                           /\ (status'[y] # "completed" => status[y] # "completed")
                                           /\ (status'[y] = "dispatched" => status[y] = "dispatched" \/ OnRunner(y))
    BY <1>3, <1>5
  <1>7. /\ phase' \in {"running", "waiting", "completed", "failed"}
        /\ s = "failed" => phase' = "failed"
        /\ phase' = "completed" => \A y \in U : status'[y] \in {"completed", "skipped"}
    BY <1>2, <1>6, Derived
  <1>8. /\ output' = [y \in U |-> output'[y]] /\ DOMAIN error' = U
        /\ output'[x] = o /\ error'[x] = code
        /\ \A y \in U : y # x => output'[y] = output[y] /\ error'[y] = error[y]
    BY <1>1, <1>2
  <1>9. \A z \in U : output[z] # <<>> => output'[z] = output[z]
    <2>1. output[x] = <<>>
      BY <1>1 DEF RowInv, Busy
    <2> QED BY <2>1, <1>8
  <1>10. ASSUME NEW y \in U, Determined(y) PROVE Determined(y)' /\ \A h : Selects(y, h) => Selects(y, h)'
    BY <1>1, <1>2, <1>9, <1>10, ValuesKept
  <1>11. ASSUME NEW y \in U PROVE RowInv(y)'
    <2>1. kind(graph, y)' = kind(graph, y) /\ node(graph, y)' = node(graph, y) /\ OnRunner(y)' = OnRunner(y)
      BY <1>2 DEF OnRunner
    <2>2. CASE y = x
      <3>1. /\ (status[y] = "waiting" => kind(graph, y) \in {"approval", "form", "wait"})'
            /\ (status[y] = "dispatched" => OnRunner(y))'
            /\ (status[y] # "completed" => output[y] = <<>>)'
            /\ (error[y] # "none" => phase = "failed")'
            /\ (phase = "completed" => status[y] \in {"completed", "skipped"})'
        BY <2>1, <2>2, <1>6, <1>7, <1>8
      <3>2. (kind(graph, y) = "condition" /\ status[y] = "completed" =>
               Determined(y) /\ Selects(y, output[y]["selected_branch"]))'
        <4> SUFFICES ASSUME kind(graph, y)' = "condition", status'[y] = "completed"
                     PROVE  Determined(y)' /\ Selects(y, output[y]["selected_branch"])'
          OBVIOUS
        <4>1. Determined(y) /\ Selects(y, o["selected_branch"])
          BY <2>1, <2>2, <1>6
        <4>2. Determined(y)' /\ Selects(y, o["selected_branch"])'
          BY <4>1, <1>10
        <4>3. (output[y]["selected_branch"])' = o["selected_branch"]
          BY <2>2, <1>8
        <4> QED BY <4>2, <4>3 DEF Selects
      <3>3. (kind(graph, y) \in {"agent", "service"} /\ status[y] = "completed" =>
               Enforced(output[y], node(graph, y).out))'
        BY <2>1, <2>2, <1>6, <1>8 DEF Enforced
      <3> QED BY <3>1, <3>2, <3>3 DEF RowInv
    <2>3. CASE y # x
      <3>1. RowInv(y) /\ phase # "failed"
        BY <1>1
      <3>2. /\ output'[y] = output[y] /\ error'[y] = error[y]
            /\ status'[y] \in {"completed", "waiting"} => status'[y] = status[y]
            /\ status'[y] # "completed" => status[y] # "completed"
            /\ status'[y] = "dispatched" => status[y] = "dispatched" \/ OnRunner(y)
            /\ phase' = "completed" => status'[y] \in {"completed", "skipped"}
        BY <2>3, <1>6, <1>7, <1>8
      <3>3. /\ (status[y] = "waiting" => kind(graph, y) \in {"approval", "form", "wait"})'
            /\ (status[y] = "dispatched" => OnRunner(y))'
            /\ (status[y] # "completed" => output[y] = <<>>)'
            /\ (error[y] # "none" => phase = "failed")'
            /\ (phase = "completed" => status[y] \in {"completed", "skipped"})'
        BY <2>1, <3>1, <3>2 DEF RowInv
      <3>4. (kind(graph, y) = "condition" /\ status[y] = "completed" =>
               Determined(y) /\ Selects(y, output[y]["selected_branch"]))'
        <4> SUFFICES ASSUME kind(graph, y)' = "condition", status'[y] = "completed"
                     PROVE  Determined(y)' /\ Selects(y, output[y]["selected_branch"])'
          OBVIOUS
        <4>1. Determined(y) /\ Selects(y, output[y]["selected_branch"])
          BY <2>1, <3>1, <3>2 DEF RowInv
        <4>2. Determined(y)' /\ \A h : Selects(y, h) => Selects(y, h)'
          BY <4>1, <1>10
        <4>3. (output[y]["selected_branch"])' = output[y]["selected_branch"]
          BY <3>2
        <4> QED BY <4>1, <4>2, <4>3 DEF Selects
      <3>5. (kind(graph, y) \in {"agent", "service"} /\ status[y] = "completed" =>
               Enforced(output[y], node(graph, y).out))'
        BY <2>1, <3>1, <3>2 DEF RowInv, Enforced
      <3> QED BY <3>3, <3>4, <3>5 DEF RowInv
    <2> QED BY <2>2, <2>3
  <1>12. Accepted(graph)' /\ Consistent(status, output)' /\ Entry' = Entry
    BY <1>1, <1>2, <1>5, SameGraph
  <1>13. Started' /\ graph' \in Graphs
    BY <1>2, <1>7 DEF Started, RunInv
  <1>14. InputFits'
    BY <1>1, <1>2, InputKept
  <1> QED BY <1>2, <1>5, <1>7, <1>8, <1>11, <1>12, <1>13, <1>14 DEF RunInv, Started

\* What a capability answers has its schema.
LEMMA AnswersFit ==
    ASSUME NEW schema, NEW v \in Answers(schema)
    PROVE  validate_payload(v, schema)
  BY DEF Answers

\* What is kept of it has the schema in the fields that are not redacted.
LEMMA SanitizedFits ==
    ASSUME NEW schema, NEW a \in Answers(schema), NEW o \in sanitize_output(a)
    PROVE  Enforced(o, schema)
  <1>1. validate_payload(a, schema)
    BY AnswersFit
  <1>2. \A f \in DOMAIN o : f # "trace" /\ ~Sensitive(f) => f \in DOMAIN a /\ o[f] = a[f]
    BY DEF sanitize_output
  <1> QED BY <1>1, <1>2 DEF Enforced, validate_payload

\* It holds before the draft is submitted.
LEMMA RunInit == Init => RunInv
  BY DEF Init, RunInv, Started

\* A rejected draft has no Run.
LEMMA RejectInv ==
    ASSUME RunInv, reject
    PROVE  RunInv'
  BY DEF RunInv, reject, Started

\* A new Run: only the Data Input has ended, and the first nodes are queued.
LEMMA CreateInv ==
    ASSUME RunInv, create_run
    PROVE  RunInv'
  <1> DEFINE U == ids(graph)
  <1>1. Accepted(graph) /\ graph' = graph /\ phase' = "running"
    BY DEF RunInv, create_run, Accepted
  <1>2. PICK in \in RunInputs(node(graph, Entry).out) :
          LET out == [x \in U |-> IF x = Entry THEN in ELSE <<>>]
              st == [x \in U |-> IF x = Entry THEN "completed" ELSE "pending"]
          IN  input' = in /\ output' = out /\ status' = schedule_ready_nodes(st, in, out)
    BY DEF create_run
  <1> DEFINE out == [x \in U |-> IF x = Entry THEN in ELSE <<>>]
             st == [x \in U |-> IF x = Entry THEN "completed" ELSE "pending"]
  <1>3. input' = in /\ output' = out /\ status' = schedule_ready_nodes(st, in, out)
    BY <1>2
  <1>4. Entry \in U /\ kind(graph, Entry) = "input" /\ \A x \in U : kind(graph, x) = "input" => x = Entry
    BY <1>1, EntryIs DEF entry_node_ids
  <1>5. st \in [U -> NodeStatus] /\ Consistent(st, out)
    BY <1>4 DEF NodeStatus, Consistent
  <1>6. /\ output' = [x \in U |-> output'[x]]
        /\ \A x \in U : x # Entry => output'[x] = <<>> /\ st[x] = "pending"
        /\ st[Entry] = "completed"
    BY <1>3, <1>4
  <1> HIDE DEF st, out
  <1>7. /\ status' \in [U -> NodeStatus] /\ Consistent(status', output')
        /\ \A x \in U : IF st[x] = "pending" THEN status'[x] \in {"pending", "queued", "dispatched", "skipped"}
                                              ELSE status'[x] = st[x]
        /\ \A x \in U : status'[x] = "dispatched" => st[x] = "dispatched" \/ OnRunner(x)
    BY <1>1, <1>3, <1>5, Scheduled
  <1>8. error' = [x \in U |-> "none"] /\ attempt' = [x \in U |-> 0]
    BY DEF create_run
  <1>9. Accepted(graph)' /\ Consistent(status, output)' /\ Entry' = Entry
    BY <1>1, <1>7, SameGraph
  <1>10. InputFits'
    <2>1. node(graph, Entry).out.object => validate_payload(in, node(graph, Entry).out)
      BY AnswersFit DEF RunInputs
    <2> QED BY <2>1, <1>1, <1>3, <1>9 DEF InputFits, validate_payload
  <1>11. ASSUME NEW x \in U PROVE RowInv(x)'
    <2>1. CASE x = Entry
      BY <2>1, <1>1, <1>4, <1>6, <1>7, <1>8 DEF RowInv, OnRunner
    <2>2. CASE x # Entry
      BY <2>2, <1>1, <1>6, <1>7, <1>8 DEF RowInv, OnRunner
    <2> QED BY <2>1, <2>2
  <1>12. attempt' \in [U -> Nat] /\ DOMAIN error' = U
    BY <1>8
  <1>13. graph' \in Graphs
    BY <1>1 DEF Accepted
  <1> QED BY <1>1, <1>6, <1>7, <1>9, <1>10, <1>11, <1>12, <1>13 DEF RunInv, Started

\* The node of a step, and what is known of it.
LEMMA AtWork ==
    ASSUME RunInv, NEW x \in DOMAIN status
    PROVE  /\ Started /\ Accepted(graph) /\ x \in ids(graph) /\ attempt \in [ids(graph) -> Nat]
           /\ [attempt EXCEPT ![x] = @ + 1] \in [ids(graph) -> Nat]
  BY DEF RunInv

\* A node that fails ends the Run, and no output changes.
LEMMA FailInv ==
    ASSUME RunInv, NEW x \in DOMAIN status, phase \in {"running", "waiting"}, status[x] \in Busy,
           NEW code, Fail(x, code)
    PROVE  RunInv' /\ phase' = "failed" /\ output' = output /\ UNCHANGED <<graph, input>>
           /\ error' = [error EXCEPT ![x] = code]
  <1>1. Settle(x, "failed", <<>>, code) /\ attempt' = attempt
    BY DEF Fail
  <1>2. x \in ids(graph) /\ attempt' \in [ids(graph) -> Nat]
    BY <1>1, AtWork
  <1>3. RunInv' /\ phase' = "failed"
    BY <1>1, <1>2, SettleInv
  <1>4. output = [y \in ids(graph) |-> output[y]] /\ output[x] = <<>>
    BY <1>2, AtWork DEF RunInv, RowInv, Busy
  <1> QED BY <1>1, <1>3, <1>4 DEF Settle

\* Where the rows stay, so does what is known of one.
LEMMA RowKept ==
    ASSUME Accepted(graph), UNCHANGED <<graph, phase, input, status, output, error>>, NEW x \in ids(graph), RowInv(x)
    PROVE  RowInv(x)'
  <1>1. kind(graph, x)' = kind(graph, x) /\ node(graph, x)' = node(graph, x) /\ OnRunner(x)' = OnRunner(x)
    BY DEF OnRunner
  <1>2. Determined(x) => Determined(x)' /\ \A h : Selects(x, h) => Selects(x, h)'
    BY ValuesKept
  <1>3. (kind(graph, x) = "condition" /\ status[x] = "completed" =>
            Determined(x) /\ Selects(x, output[x]["selected_branch"]))'
    <2> SUFFICES ASSUME kind(graph, x)' = "condition", status'[x] = "completed"
                 PROVE  Determined(x)' /\ Selects(x, output[x]["selected_branch"])'
      OBVIOUS
    <2>1. Determined(x) /\ Selects(x, output[x]["selected_branch"])
      BY <1>1 DEF RowInv
    <2> QED BY <1>2, <2>1 DEF Selects
  <1>4. (kind(graph, x) \in {"agent", "service"} /\ status[x] = "completed" => Enforced(output[x], node(graph, x).out))'
    BY <1>1 DEF RowInv, Enforced
  <1> QED BY <1>1, <1>3, <1>4 DEF RowInv

\* Another attempt: nothing but the counter changes.
LEMMA AgainInv ==
    ASSUME RunInv, NEW x \in DOMAIN status, attempt' = [attempt EXCEPT ![x] = @ + 1],
           UNCHANGED <<graph, phase, input, status, output, error>>
    PROVE  RunInv'
  <1>1. attempt' \in [ids(graph) -> Nat] /\ Started /\ Accepted(graph)
    BY AtWork
  <1>2. Consistent(status', output')
    BY <1>1 DEF RunInv
  <1>3. Consistent(status, output)' /\ Entry' = Entry /\ Accepted(graph)'
    BY <1>1, <1>2, SameGraph
  <1>4. \A y \in ids(graph) : RowInv(y)'
    BY <1>1, RowKept DEF RunInv
  <1>5. InputFits'
    BY <1>1, InputKept DEF RunInv
  <1> QED BY <1>1, <1>3, <1>4, <1>5 DEF RunInv, Started

\* A call of a capability: an answer, another attempt, or a failure.
LEMMA CallInv ==
    ASSUME RunInv, NEW x \in DOMAIN status, call_succeeds(x) \/ call_retryable(x) \/ call_rejected(x)
    PROVE  RunInv' /\ error'[x] \in {error[x], "none", "HTTP_ERROR", "HTTP_REJECTED"}
  <1>1. /\ phase \in {"running", "waiting"} /\ status[x] \in Busy /\ kind(graph, x) \in {"agent", "service"}
        /\ attempt' = [attempt EXCEPT ![x] = @ + 1]
    BY DEF call_succeeds, call_retryable, call_rejected, Calls, Executes, Busy
  <1>2. x \in ids(graph) /\ attempt' \in [ids(graph) -> Nat] /\ DOMAIN error = ids(graph)
    BY <1>1, AtWork DEF RunInv
  <1>3. CASE call_succeeds(x)
    <2>1. PICK a \in Answers(node(graph, x).out) : \E o \in sanitize_output(a) : Settle(x, "completed", o, "none")
      BY <1>3 DEF call_succeeds
    <2>2. PICK o \in sanitize_output(a) : Settle(x, "completed", o, "none")
      BY <2>1
    <2>3. Enforced(o, node(graph, x).out)
      BY SanitizedFits
    <2>4. RunInv'
      BY <1>1, <1>2, <2>2, <2>3, SettleInv
    <2> QED BY <1>2, <2>2, <2>4 DEF Settle
  <1>4. ASSUME NEW code \in {"HTTP_ERROR", "HTTP_REJECTED"}, Settle(x, "failed", <<>>, code)
        PROVE  RunInv' /\ error'[x] = code
    <2>1. RunInv'
      BY <1>1, <1>2, <1>4, SettleInv
    <2> QED BY <1>2, <1>4, <2>1 DEF Settle
  <1>5. CASE call_retryable(x)
    <2>1. CASE attempt[x] + 1 < retry_settings_for_node(node(graph, x))
      <3>1. UNCHANGED <<graph, phase, input, status, output, error>>
        BY <1>5, <2>1 DEF call_retryable
      <3> QED BY <1>1, <3>1, AgainInv
    <2>2. CASE ~(attempt[x] + 1 < retry_settings_for_node(node(graph, x)))
      BY <1>4, <1>5, <2>2 DEF call_retryable
    <2> QED BY <2>1, <2>2
  <1>6. CASE call_rejected(x)
    BY <1>4, <1>6 DEF call_rejected
  <1> QED BY <1>3, <1>5, <1>6

\* A Condition selects the branch that its expression decides on, or fails.
LEMMA ConditionInv ==
    ASSUME RunInv, NEW x \in DOMAIN status, execute_condition(x)
    PROVE  RunInv'
  <1> DEFINE verdict == evaluate_expression(node(graph, x).expr, OperandValues(x))
             o == [f \in {"selected_branch"} |-> IF verdict = "true" THEN "true" ELSE "false"]
  <1>1. phase \in {"running", "waiting"} /\ status[x] \in Busy /\ kind(graph, x) = "condition" /\ Resolved(x)
    BY DEF execute_condition, Executes, Busy
  <1>2. \/ Fail(x, "CONDITION_EVALUATION_FAILED")
        \/ verdict # "raise" /\ Settle(x, "completed", o, "none") /\ attempt' = attempt
    BY DEF execute_condition
  <1>3. Accepted(graph) /\ x \in ids(graph) /\ attempt \in [ids(graph) -> Nat]
    BY AtWork
  <1>4. CASE verdict # "raise" /\ Settle(x, "completed", o, "none") /\ attempt' = attempt
    <2>1. Tree(node(graph, x).expr) /\ node(graph, x).expr # <<>>
      <3>1. node(graph, x) \in Range(graph.nodes) /\ graph \in Graphs
        BY <1>3, NodeOf DEF Accepted
      <3>2. validate_expression(node(graph, x).expr)
        BY <1>1, <1>3, ConditionRules
      <3> QED BY <3>1, <3>2, GraphsAreDocuments DEF Tree, validate_expression
    <2>2. verdict \in {"true", "false", "raise"}
      BY <2>1, EvaluateRange
    <2>3. o["selected_branch"] = verdict /\ verdict \in {"true", "false"}
      BY <2>2, <1>4
    <2>4. Determined(x)
      BY <1>1 DEF Resolved, Resolves, AllRefs, config_refs, Determined
    <2> HIDE DEF o
    <2>5. Selects(x, o["selected_branch"])
      BY <2>3 DEF Selects
    <2> HIDE DEF verdict
    <2> QED BY <1>1, <1>3, <1>4, <2>4, <2>5, SettleInv
  <1>5. CASE Fail(x, "CONDITION_EVALUATION_FAILED")
    BY <1>1, <1>5, FailInv
  <1> QED BY <1>2, <1>4, <1>5

\* A deterministic node, a parked one, and the report of a Runner.
LEMMA GraphNodeInv ==
    ASSUME RunInv, NEW x \in DOMAIN status, execute_graph_node(x) \/ park(x) \/ runner_executes(x)
    PROVE  RunInv' /\ error'[x] \in {error[x], "none", "RUNNER_FAILED"}
  <1>1. phase \in {"running", "waiting"} /\ status[x] \in Busy
    BY DEF execute_graph_node, park, runner_executes, Executes, Busy
  <1>2. x \in ids(graph) /\ attempt \in [ids(graph) -> Nat] /\ [attempt EXCEPT ![x] = @ + 1] \in [ids(graph) -> Nat]
        /\ DOMAIN error = ids(graph)
    BY AtWork DEF RunInv
  <1>3. CASE execute_graph_node(x)
    <2>1. kind(graph, x) \in {"parallel", "merge", "transform", "output"} /\ attempt' = attempt
      BY <1>3 DEF execute_graph_node, Executes
    <2>2. PICK o \in sanitize_output(ResolvedInput(x)) : Settle(x, "completed", o, "none")
      BY <1>3 DEF execute_graph_node
    <2>3. RunInv'
      BY <1>1, <1>2, <2>1, <2>2, SettleInv
    <2> QED BY <1>2, <2>2, <2>3 DEF Settle
  <1>4. CASE park(x)
    <2>1. /\ kind(graph, x) \in {"approval", "form", "wait"}
          /\ Settle(x, "waiting", <<>>, "none") /\ attempt' = attempt
      BY <1>4 DEF park, Executes
    <2>2. RunInv'
      BY <1>1, <1>2, <2>1, SettleInv
    <2> QED BY <1>2, <2>1, <2>2 DEF Settle
  <1>5. CASE runner_executes(x)
    <2>1. attempt' = [attempt EXCEPT ![x] = @ + 1]
      BY <1>5 DEF runner_executes
    <2>2. kind(graph, x) \notin {"condition", "agent", "service"}
      BY <1>2, <1>5, AtWork DEF RunInv, RowInv, runner_executes, OnRunner
    <2>3. ASSUME NEW o, Settle(x, "completed", o, "none")
          PROVE  RunInv' /\ error'[x] = "none"
      <3>1. RunInv'
        BY <1>1, <1>2, <2>1, <2>2, <2>3, SettleInv
      <3> QED BY <1>2, <2>3, <3>1 DEF Settle
    <2>4. ASSUME UNCHANGED <<graph, phase, input, status, output, error>> PROVE RunInv' /\ error'[x] = error[x]
      BY <2>1, <2>4, AgainInv
    <2>5. ASSUME Settle(x, "failed", <<>>, "RUNNER_FAILED") PROVE RunInv' /\ error'[x] = "RUNNER_FAILED"
      <3>1. RunInv'
        BY <1>1, <1>2, <2>1, <2>5, SettleInv
      <3> QED BY <1>2, <2>5, <3>1 DEF Settle
    <2> QED BY <1>5, <2>3, <2>4, <2>5 DEF runner_executes
  <1> QED BY <1>3, <1>4, <1>5

\* A decision about a parked node.
LEMMA ResumeInv ==
    ASSUME RunInv, NEW x \in DOMAIN status, resume(x)
    PROVE  RunInv' /\ error'[x] \in {"none", "REJECTED"}
  <1>1. phase \in {"running", "waiting"} /\ status[x] = "waiting" /\ status[x] \in Busy
    BY DEF resume, Busy
  <1>2. x \in ids(graph) /\ attempt \in [ids(graph) -> Nat] /\ DOMAIN error = ids(graph)
        /\ kind(graph, x) \in {"approval", "form", "wait"}
    BY <1>1, AtWork DEF RunInv, RowInv
  <1>3. CASE Settle(x, "completed", <<>>, "none") /\ attempt' = attempt
    <2>1. RunInv'
      BY <1>1, <1>2, <1>3, SettleInv
    <2> QED BY <1>2, <1>3, <2>1 DEF Settle
  <1>4. CASE Fail(x, "REJECTED")
    BY <1>1, <1>2, <1>4, FailInv
  <1> QED BY <1>3, <1>4 DEF resume

\* Every step keeps the invariant, one case for each action.
LEMMA RunStep ==
    ASSUME RunInv, [Next]_vars
    PROVE  RunInv'
  <1>1. ASSUME NEW x \in DOMAIN status, work(x) PROVE RunInv'
    <2>1. CASE unresolved(x) \/ input_mismatch(x) \/ unsupported_connector(x)
      BY <2>1, FailInv DEF unresolved, input_mismatch, unsupported_connector, Executes, Busy
    <2>2. CASE call_succeeds(x) \/ call_retryable(x) \/ call_rejected(x)
      BY <2>2, CallInv
    <2>3. CASE execute_condition(x)
      BY <2>3, ConditionInv
    <2>4. CASE execute_graph_node(x) \/ park(x) \/ runner_executes(x)
      BY <2>4, GraphNodeInv
    <2> QED BY <1>1, <2>1, <2>2, <2>3, <2>4 DEF work
  <1>2. CASE UNCHANGED vars
    <2>1. UNCHANGED <<graph, phase, input, status, output, error, attempt>>
      BY <1>2 DEF vars
    <2>2. Entry' = Entry /\ (Accepted(graph) => Accepted(graph)')
          /\ (Consistent(status, output) => Consistent(status, output)')
      BY <2>1, SameGraph
    <2>3. ASSUME Accepted(graph), NEW y \in ids(graph), RowInv(y) PROVE RowInv(y)'
      BY <2>1, <2>3, RowKept
    <2>4. InputFits => InputFits'
      BY <2>1, InputKept
    <2> QED BY <2>1, <2>2, <2>3, <2>4 DEF RunInv, Started
  <1> QED BY <1>1, <1>2, RejectInv, CreateInv, ResumeInv DEF Next

-----------------------------------------------------------------------------
(* What the Run keeps to.                                                   *)

\* The nodes before one that may run have ended.
LEMMA AncestorsSettled ==
    ASSUME RunInv, Started, NEW x \in ids(graph), status[x] \notin {"pending", "skipped"}
    PROVE  \A y \in ancestors(graph, x) : status[y] \in {"completed", "skipped"}
  <1> DEFINE U == ids(graph)
             S == {y \in U : status[y] \in {"completed", "skipped"}}
  <1>1. Accepted(graph) /\ Consistent(status, output)
    BY DEF RunInv
  <1>2. ASSUME NEW y \in U, status[y] # "pending" PROVE Before(graph)[y] \subseteq S
    <2> SUFFICES ASSUME NEW e \in incoming_edges(graph, y) PROVE e.src \in S
      BY DEF Before
    <2>1. e.src \in U
      BY <1>1, Incoming
    <2>2. y # Entry
      BY <1>1, EntryIs
    <2>3. Ran(y, status, output) \/ Cut(y, status, output)
      BY <1>1, <1>2, <2>2 DEF Consistent
    <2>4. status[e.src] \in {"completed", "skipped"}
      BY <2>3, InactiveSettled DEF Ran, Cut
    <2> QED BY <2>1, <2>4
  <1>3. Successors(U, Before(graph))
    BY <1>1, Contract DEF Accepted
  <1>4. S \in SUBSET U /\ Before(graph)[x] \subseteq S /\ \A y \in S : Before(graph)[y] \subseteq S
    BY <1>2
  <1> HIDE DEF S
  <1>5. Reach(U, Before(graph), x) \subseteq S
    BY <1>3, <1>4, ReachClosed
  <1>6. ancestors(graph, x) \subseteq S
    BY <1>1, <1>5, SearchesExact DEF Accepted
  <1> QED BY <1>6 DEF S

\* What a reference may name is an ancestor, and the ancestors of a queued node ended.
LEMMA RefsSettledHolds == RunInv => RefsSettled
  <1> SUFFICES ASSUME RunInv, NEW x \in DOMAIN status, status[x] \notin {"pending", "skipped"},
                      NEW r \in reference_bearing_values(node(graph, x)), r.scope = "node"
               PROVE  status[r.node] \in Terminal
    BY DEF RefsSettled
  <1>1. Started /\ Accepted(graph) /\ x \in ids(graph)
    BY AtWork
  <1>2. validate_reference(graph, x, r) = {}
    BY <1>1, RulesHold DEF validate_context
  <1>3. validate_upstream(graph, x, r) = {}
    BY <1>2 DEF validate_reference
  <1>4. upstream(graph, x, r.node)
    BY <1>1, <1>3, RulesHold DEF validate_upstream
  <1> QED BY <1>1, <1>4, AncestorsSettled DEF upstream, Terminal

\* The edges that an evaluated Condition activates.
LEMMA ActiveBranch ==
    ASSUME RunInv, Started, NEW x \in ids(graph), kind(graph, x) = "condition", status[x] = "completed"
    PROVE  \E h \in {"true", "false"} :
              {e \in outgoing_edges(graph, x) : edge_is_active(e, status, output)} = Branches(graph, x, h)
  <1>1. output[x]["selected_branch"] \in {"true", "false"}
    BY DEF RunInv, RowInv, Selects
  <1>2. \A e \in outgoing_edges(graph, x) : edge_is_active(e, status, output) <=> e.handle = output[x]["selected_branch"]
    BY <1>1 DEF edge_is_active, outgoing_edges
  <1> QED BY <1>1, <1>2 DEF Branches

\* Of the two edges of a Condition, the handle of one is the selected branch, which
\* is what the expression still decides on.
LEMMA OneBranchHolds == RunInv => OneBranchSelected
  <1> SUFFICES ASSUME RunInv, NEW x \in DOMAIN status, kind(graph, x) = "condition", status[x] = "completed"
               PROVE  /\ Cardinality({e \in outgoing_edges(graph, x) : edge_is_active(e, status, output)}) = 1
                      /\ output[x]["selected_branch"] = evaluate_expression(node(graph, x).expr, OperandValues(x))
    BY DEF OneBranchSelected
  <1>1. Started /\ Accepted(graph) /\ x \in ids(graph)
    BY AtWork
  <1>2. output[x]["selected_branch"] = evaluate_expression(node(graph, x).expr, OperandValues(x))
    BY <1>1 DEF RunInv, RowInv, Selects
  <1> QED BY <1>1, <1>2, ActiveBranch, ConditionRules

\* In a COMPLETED Run a COMPLETED node that is no Output has a COMPLETED successor.
LEMMA NextCompleted ==
    ASSUME RunInv, phase = "completed", NEW x \in ids(graph), status[x] = "completed", kind(graph, x) # "output"
    PROVE  \E y \in ids(graph) : y \in After(graph)[x] /\ status[y] = "completed"
  <1>1. Started /\ Accepted(graph) /\ Consistent(status, output) /\ \A y \in ids(graph) : RowInv(y)
    BY DEF RunInv, Started
  <1>2. PICK e \in outgoing_edges(graph, x) : edge_is_active(e, status, output)
    <2>1. CASE kind(graph, x) = "condition"
      <3>1. PICK h \in {"true", "false"} :
                {e \in outgoing_edges(graph, x) : edge_is_active(e, status, output)} = Branches(graph, x, h)
        BY <1>1, <2>1, ActiveBranch
      <3>2. Cardinality(Branches(graph, x, h)) = 1
        BY <1>1, <2>1, ConditionRules
      <3>3. Branches(graph, x, h) # {}
        BY <3>2, FS_EmptySet
      <3> QED BY <3>1, <3>3
    <2>2. CASE kind(graph, x) # "condition"
      <3>1. PICK e \in outgoing_edges(graph, x) : TRUE
        BY <1>1, GoesOn
      <3>2. edge_is_active(e, status, output)
        BY <2>2 DEF edge_is_active, outgoing_edges
      <3> QED BY <3>2
    <2> QED BY <2>1, <2>2
  <1>3. e.dst \in ids(graph) /\ e \in incoming_edges(graph, e.dst) /\ e.dst \in After(graph)[x]
    BY <1>1, Contract DEF Accepted, After, outgoing_edges, incoming_edges
  <1>4. status[e.dst] # "skipped"
    BY <1>1, <1>2, <1>3 DEF Consistent, Cut
  <1>5. status[e.dst] = "completed"
    BY <1>1, <1>3, <1>4 DEF RowInv
  <1> QED BY <1>3, <1>5

\* A set of nodes has a last one in the order of the connections.
LEMMA GraphSinks ==
    ASSUME Accepted(graph), NEW C \in SUBSET ids(graph), C # {}
    PROVE  \E x \in C : After(graph)[x] \cap C = {}
  <1>1. Successors(ids(graph), After(graph)) /\ Acyclic(ids(graph), After(graph))
    BY Contract, CycleExact, RulesHold DEF Accepted
  <1> QED BY <1>1, Sink

\* From a completed node that is no Output a completed node follows, and the graph
\* has no cycle: the last completed node is an Output.
LEMMA OutputHolds == RunInv => CompletedHasOutput
  <1> SUFFICES ASSUME RunInv, phase = "completed", \A x \in output_node_ids(graph) : status[x] # "completed"
               PROVE  FALSE
    BY DEF CompletedHasOutput
  <1> DEFINE C == {x \in ids(graph) : status[x] = "completed"}
  <1>1. Accepted(graph) /\ status[Entry] = "completed"
    BY DEF RunInv, Started, Consistent
  <1>2. C \in SUBSET ids(graph) /\ C # {}
    BY <1>1, EntryIs
  <1>3. \A x \in C : x \in ids(graph) /\ status[x] = "completed" /\ kind(graph, x) # "output"
    BY DEF output_node_ids
  <1>4. \A x \in C : \E y \in C : y \in After(graph)[x]
    BY <1>3, NextCompleted
  <1> HIDE DEF C
  <1> QED BY <1>1, <1>2, <1>4, GraphSinks

\* What a Parallel reaches without going on past a Merge.
LEMMA MergeFreeIs ==
    ASSUME Accepted(graph), NEW p \in ids(graph)
    PROVE  /\ MergeFree(graph, p) \in SUBSET (ids(graph) \ {p})
           /\ MergeFree(graph, p) \subseteq descendants(graph, p)
           /\ After(graph)[p] \subseteq MergeFree(graph, p) \cup {p}
           /\ \A x \in MergeFree(graph, p) :
                 kind(graph, x) # "merge" => After(graph)[x] \subseteq MergeFree(graph, p) \cup {p}
           /\ kind(graph, p) = "parallel" /\ parallel_merge_descendants(graph, p) # {} =>
                 \A x \in MergeFree(graph, p) : kind(graph, x) # "output"
  <1> DEFINE U == ids(graph)
             after == After(graph)
             next == [x \in U |-> IF kind(graph, x) = "merge" THEN {} ELSE after[x]]
             F == MergeFree(graph, p)
             D == descendants(graph, p)
  <1>1. Successors(U, after)
    BY Contract DEF Accepted
  <1>2. Successors(U, next) /\ after[p] \in SUBSET U
    BY <1>1 DEF Successors
  <1>3. \A x \in U : next[x] = IF kind(graph, x) = "merge" THEN {} ELSE after[x]
    OBVIOUS
  <1>4. F = Explore(next, {}, after[p])
    BY DEF MergeFree
  <1> HIDE DEF next
  <1>5. /\ F \in SUBSET U /\ after[p] \subseteq F /\ \A x \in F : next[x] \subseteq F
        /\ \A T \in SUBSET U : after[p] \subseteq T /\ (\A x \in T : next[x] \subseteq T) => F \subseteq T
    <2> HIDE DEF F
    <2>1. /\ F \in SUBSET (U \ {}) /\ after[p] \subseteq F \cup {} /\ \A x \in F : next[x] \subseteq F \cup {}
          /\ \A T \in SUBSET U : after[p] \subseteq T \cup {} /\ (\A x \in T : next[x] \subseteq T \cup {}) => F \subseteq T
      BY <1>2, <1>4, Explored
    <2> QED BY <2>1
  <1>6. D \in SUBSET U /\ p \notin D /\ after[p] \subseteq D /\ \A x \in D : after[x] \subseteq D
    <2> DEFINE R == Reach(U, after, p)
    <2>1. D = R \ {p} /\ p \notin R
      BY SearchesExact, CycleExact, RulesHold DEF Accepted, Acyclic
    <2>2. R \in SUBSET U /\ after[p] \subseteq R /\ \A x \in R : after[x] \subseteq R
      BY <1>1, ReachClosed DEF Reach
    <2> HIDE DEF D, R
    <2> QED BY <2>1, <2>2
  <1> HIDE DEF F, D, after
  <1>7. F \subseteq D
    <2>1. \A x \in D : next[x] \subseteq D
      BY <1>3, <1>6
    <2> QED BY <1>5, <1>6, <2>1
  <1>8. ASSUME kind(graph, p) = "parallel", parallel_merge_descendants(graph, p) # {}, NEW x \in F
        PROVE  kind(graph, x) # "output"
    <2>1. pairing_rule(graph) = {} /\ ~has_cycle(graph)
      BY RulesHold
    <2>2. \E m \in descendants(graph, p) : kind(graph, m) = "merge"
      BY <1>8 DEF parallel_merge_descendants
    <2>3. MergeFree(graph, p) \cap output_node_ids(graph) = {}
      BY <2>1, <2>2, <1>8 DEF pairing_rule, Issue
    <2> QED BY <2>3, <1>5, <1>8 DEF F, output_node_ids
  <1>9. /\ F \in SUBSET (U \ {p}) /\ F \subseteq D /\ after[p] \subseteq F \cup {p}
        /\ \A x \in F : kind(graph, x) # "merge" => after[x] \subseteq F \cup {p}
    BY <1>3, <1>5, <1>6, <1>7
  <1> QED BY <1>8, <1>9 DEF F, D, after

\* A node that runs without any of the Merges is reached around p, or before them.
LEMMA BeforeMerge ==
    ASSUME RunInv, Started, NEW p \in ids(graph), kind(graph, p) = "parallel",
           \A m \in parallel_merge_descendants(graph, p) : status[m] # "completed",
           NEW x \in ids(graph), status[x] \notin {"pending", "skipped"}
    PROVE  x \in Around(graph, p) \cup {p} \cup MergeFree(graph, p)
  <1> DEFINE U == ids(graph)
             A == Around(graph, p)
             F == MergeFree(graph, p)
             C == {y \in U : status[y] \notin {"pending", "skipped"} /\ y \notin A \cup {p} \cup F}
  <1>1. Accepted(graph) /\ Consistent(status, output)
    BY DEF RunInv
  <1>2. /\ {Entry} \subseteq A \cup {p} /\ \A y \in A : After(graph)[y] \subseteq A \cup {p}
    <2>1. A = Explore(After(graph), {p}, {Entry}) /\ {Entry} \in SUBSET U
      BY <1>1, EntryIs DEF Around
    <2>2. Successors(U, After(graph))
      BY <1>1, Contract DEF Accepted
    <2> QED BY <2>1, <2>2, Explored
  <1>3. /\ F \subseteq descendants(graph, p) /\ After(graph)[p] \subseteq F \cup {p}
        /\ \A y \in F : kind(graph, y) # "merge" => After(graph)[y] \subseteq F \cup {p}
    BY <1>1, MergeFreeIs
  <1> HIDE DEF A, F
  <1>4. ASSUME NEW y \in C PROVE \E z \in C : z \in Before(graph)[y]
    <2>1. y # Entry /\ Ran(y, status, output)
      BY <1>1, <1>2, <1>4 DEF Consistent
    <2>2. PICK e \in incoming_edges(graph, y) : edge_is_active(e, status, output) /\ status[e.src] = "completed"
      BY <2>1 DEF Ran
    <2> DEFINE z == e.src
    <2>3. z \in U /\ z \in Before(graph)[y] /\ y \in After(graph)[z]
      BY <1>1, <2>2, Incoming DEF Before, After, incoming_edges, outgoing_edges
    <2>4. z \notin A
      BY <1>2, <1>4, <2>3
    <2>5. z # p
      BY <1>3, <1>4, <2>3
    <2>6. z \notin F
      <3> SUFFICES ASSUME z \in F PROVE FALSE
        OBVIOUS
      <3>1. kind(graph, z) # "merge"
        BY <1>3, <2>2 DEF parallel_merge_descendants
      <3> QED BY <1>3, <1>4, <2>3, <3>1
    <2> QED BY <2>2, <2>3, <2>4, <2>5, <2>6
  <1>5. C = {}
    <2> SUFFICES ASSUME C # {} PROVE FALSE
      OBVIOUS
    <2>1. Successors(U, Before(graph)) /\ Successors(U, After(graph))
          /\ \A a, b \in U : b \in Before(graph)[a] <=> a \in After(graph)[b]
      BY <1>1, Contract DEF Accepted
    <2>2. Acyclic(U, After(graph))
      BY <1>1, CycleExact, RulesHold DEF Accepted
    <2>3. Acyclic(U, Before(graph))
      BY <2>1, <2>2, ReachConverse DEF Acyclic
    <2>4. C \in SUBSET U
      OBVIOUS
    <2> HIDE DEF C
    <2> QED BY <1>4, <2>1, <2>3, <2>4, Sink
  <1> QED BY <1>5 DEF A, F

\* With every Merge after the Parallel unexecuted, the completed nodes after it
\* stay among those that no Merge precedes, and none of these is an Output.
LEMMA MergeHolds == RunInv => OutputAfterMerge
  <1> SUFFICES ASSUME RunInv, NEW p \in DOMAIN status, NEW x \in DOMAIN status,
                      kind(graph, p) = "parallel", status[p] = "completed",
                      kind(graph, x) = "output", status[x] = "completed",
                      phase = "completed" \/ x \notin Around(graph, p),
                      parallel_merge_descendants(graph, p) # {},
                      \A m \in parallel_merge_descendants(graph, p) : status[m] # "completed"
               PROVE  FALSE
    BY DEF OutputAfterMerge
  <1>1. Started /\ Accepted(graph) /\ p \in ids(graph) /\ x \in ids(graph)
    BY AtWork
  <1> DEFINE F == MergeFree(graph, p)
             C == {y \in {p} \cup F : status[y] = "completed"}
  <1>2. /\ F \in SUBSET (ids(graph) \ {p}) /\ F \subseteq descendants(graph, p) /\ After(graph)[p] \subseteq F \cup {p}
        /\ \A y \in F : kind(graph, y) # "merge" => After(graph)[y] \subseteq F \cup {p}
        /\ \A y \in F : kind(graph, y) # "output"
    BY <1>1, MergeFreeIs
  <1> HIDE DEF F
  <1>3. CASE x \notin Around(graph, p)
    BY <1>1, <1>2, <1>3, BeforeMerge DEF F
  <1>4. CASE phase = "completed"
    <2>1. C \in SUBSET ids(graph) /\ C # {}
      BY <1>1, <1>2
    <2>2. ASSUME NEW y \in C PROVE \E z \in C : z \in After(graph)[y]
      <3>1. y \in ids(graph) /\ status[y] = "completed" /\ kind(graph, y) # "output"
        BY <1>1, <1>2
      <3>2. PICK z \in ids(graph) : z \in After(graph)[y] /\ status[z] = "completed"
        BY <1>4, <3>1, NextCompleted
      <3>3. y \in F => kind(graph, y) # "merge"
        BY <1>2, <3>1 DEF parallel_merge_descendants
      <3>4. z \in F \cup {p}
        BY <1>2, <3>2, <3>3
      <3> QED BY <3>2, <3>4
    <2> HIDE DEF C
    <2> QED BY <1>1, <2>1, <2>2, GraphSinks
  <1> QED BY <1>3, <1>4

\* The property of GraphIndex, for the graph of the Run.
LEMMA ReachabilityHolds == RunInv => ReachabilityExact
  <1> SUFFICES ASSUME graph \in Graphs, validate_graph_contract(graph)
               PROVE  LET reaches == Reaches(graph) IN
                      /\ \A x \in ids(graph) :
                           /\ descendants(graph, x) = {y \in ids(graph) \ {x} : <<x, y>> \in reaches}
                           /\ ancestors(graph, x) = {y \in ids(graph) \ {x} : <<y, x>> \in reaches}
                           /\ reachable_from(graph, {x}) = {x} \cup {y \in ids(graph) : <<x, y>> \in reaches}
                      /\ has_cycle(graph) <=> \E x \in ids(graph) : <<x, x>> \in reaches
    BY DEF RunInv, ReachabilityExact
  <1> QED BY IndexExact

-----------------------------------------------------------------------------
(* Conditions: the evaluation raises only where a comparison raises.        *)

\* A comparison raises only on operands that its operator is not defined for.
LEMMA CompareRaises ==
    ASSUME NEW v, NEW w, NEW op \in ConditionOperator, compare(v, op, w) = "raise"
    PROVE  \/ op \in {">", ">=", "<", "<="} /\ ~Ordered(v, w)
           \/ op \in {"contains", "not_contains"} /\ ~Searchable(v, w)
  <1>1. ASSUME NEW d, NEW b, Verdict(d, b) = "raise" PROVE ~d
    BY <1>1 DEF Verdict
  <1>2. \A b : Verdict(TRUE, b) # "raise"
    BY DEF Verdict
  <1>3. CASE op \in {"==", "!=", "is_empty", "is_not_empty"}
    BY <1>2, <1>3 DEF compare
  <1>4. CASE op \in {">", ">=", "<", "<="}
    BY <1>1, <1>4 DEF compare
  <1>5. CASE op \in {"contains", "not_contains"}
    BY <1>1, <1>5 DEF compare
  <1> QED BY <1>3, <1>4, <1>5 DEF ConditionOperator

\* A valid expression raises only where one of its comparisons does.
LEMMA ExpressionRaises ==
    ASSUME NEW expr, Tree(expr), validate_expression(expr), NEW value,
           value = [r \in operands(Range(expr)) |-> resolve_reference(r, input, output)],
           evaluate_expression(expr, value) = "raise"
    PROVE  \E leaf \in Range(expr) : leaf.shape = "compare" /\ ~Comparable(leaf)
  <1> DEFINE N == Len(expr)
  <1>1. N \in Nat /\ DOMAIN expr = 1 .. N /\ N # 0
    BY DEF Tree, validate_expression
  <1>2. PICK f : /\ evaluate_expression(expr, value) = f[1]
                 /\ \A i \in DOMAIN expr : f[i] = VerdictOn(expr, value, f, i)
    BY EvaluateIs
  <1> DEFINE R == {d \in 0 .. N - 1 : f[N - d] = "raise"}
  <1>3. R \in SUBSET Nat /\ R # {}
    <2>1. N - 1 \in 0 .. N - 1 /\ N - (N - 1) = 1
      BY <1>1
    <2>2. N - 1 \in R
      BY <1>2, <2>1
    <2>3. R \in SUBSET Nat
      BY <1>1
    <2> HIDE DEF R
    <2> QED BY <2>2, <2>3
  <1>4. PICK d \in R : \A y \in R : d <= y
    <2> HIDE DEF R
    <2> QED BY <1>3, LeastNat
  <1> DEFINE i == N - d
             x == expr[i]
  <1>5. i \in 1 .. N /\ i \in DOMAIN expr /\ f[i] = "raise"
    BY <1>1, <1>4
  <1>6. ASSUME NEW j \in i + 1 .. N PROVE f[j] # "raise"
    <2>1. N - j \in 0 .. N - 1 /\ N - (N - j) = j /\ ~(d <= N - j)
      BY <1>1, <1>4
    <2> QED BY <1>4, <2>1
  <1>7. x \in Range(expr)
    BY <1>5 DEF Range
  <1>8. \/ x.shape \in {"and", "or"} /\ x.clauses # <<>>
        \/ x.shape = "compare" /\ x.op \in ConditionOperator
    BY <1>7 DEF validate_expression
  <1>9. CASE x.shape = "compare" /\ x.op \in ConditionOperator
    <2>1. compare(value[x.left], x.op, value[x.right]) = "raise"
      BY <1>2, <1>5, <1>9 DEF VerdictOn
    <2>2. {x.left, x.right} \subseteq operands(Range(expr))
      BY <1>7 DEF operands
    <2>3. compare(resolve_reference(x.left, input, output), x.op, resolve_reference(x.right, input, output)) = "raise"
      BY <2>1, <2>2
    <2>4. ~Comparable(x)
      <3> HIDE DEF x
      <3> QED BY <1>9, <2>3, CompareRaises DEF Comparable
    <2> QED BY <1>7, <1>9, <2>4
  <1>10. CASE x.shape \in {"and", "or"} /\ x.clauses # <<>>
    <2> DEFINE c == x.clauses
               goOn == IF x.shape = "and" THEN "true" ELSE "false"
               stops == {k \in DOMAIN c : f[c[k]] # goOn}
    <2>1. c \in Seq(i + 1 .. N)
      BY <1>5 DEF Tree
    <2>2. f[i] = IF stops = {} THEN goOn ELSE f[c[Min(stops)]]
      BY <1>2, <1>5, <1>10 DEF VerdictOn
    <2>3. stops # {} => Min(stops) \in DOMAIN c
      <3>1. stops \in SUBSET Nat /\ stops \subseteq DOMAIN c
        BY <2>1
      <3> HIDE DEF stops
      <3> QED BY <3>1, LeastNat
    <2>4. goOn # "raise"
      OBVIOUS
    <2>5. \A k \in DOMAIN c : c[k] \in i + 1 .. N
      <3> DEFINE T == i + 1 .. N
      <3> HIDE DEF T, c
      <3>1. c \in Seq(T)
        BY <2>1 DEF T
      <3>2. \A k \in DOMAIN c : c[k] \in T
        BY <3>1
      <3> QED BY <3>2 DEF T
    <2> HIDE DEF stops, goOn, c
    <2> QED BY <1>5, <1>6, <2>2, <2>3, <2>4, <2>5
  <1> QED BY <1>8, <1>9, <1>10

\* A Condition that fails had operands that cannot be compared.
LEMMA ConditionFails ==
    ASSUME RunInv, NEW x \in DOMAIN status, execute_condition(x), error'[x] = "CONDITION_EVALUATION_FAILED"
    PROVE  /\ \E leaf \in Range(node(graph, x).expr) : leaf.shape = "compare" /\ ~Comparable(leaf)
           /\ output' = output /\ input' = input /\ graph' = graph
  <1> DEFINE expr == node(graph, x).expr
  <1>1. Accepted(graph) /\ x \in ids(graph) /\ DOMAIN error = ids(graph)
    BY AtWork DEF RunInv
  <1>2. phase \in {"running", "waiting"} /\ status[x] = "queued" /\ kind(graph, x) = "condition"
    BY DEF execute_condition, Executes
  <1>3. evaluate_expression(expr, OperandValues(x)) = "raise" /\ Fail(x, "CONDITION_EVALUATION_FAILED")
    <2> SUFFICES ASSUME evaluate_expression(expr, OperandValues(x)) # "raise" PROVE FALSE
      BY DEF execute_condition
    <2>1. error' = [error EXCEPT ![x] = "none"]
      BY DEF execute_condition, Settle
    <2> QED BY <1>1, <2>1
  <1>4. Tree(expr)
    <2>1. node(graph, x) \in Range(graph.nodes) /\ graph \in Graphs
      BY <1>1, NodeOf DEF Accepted
    <2> QED BY <2>1, GraphsAreDocuments DEF Tree
  <1>5. validate_expression(expr)
    BY <1>1, <1>2, ConditionRules
  <1> HIDE DEF expr
  <1>6. \E leaf \in Range(expr) : leaf.shape = "compare" /\ ~Comparable(leaf)
    <2> DEFINE value == OperandValues(x)
    <2>1. value = [r \in operands(Range(expr)) |-> resolve_reference(r, input, output)]
      BY DEF OperandValues, expr
    <2> HIDE DEF value
    <2>2. evaluate_expression(expr, value) = "raise"
      BY <1>3 DEF value
    <2> QED BY <1>4, <1>5, <2>1, <2>2, ExpressionRaises
  <1>7. output' = output /\ input' = input /\ graph' = graph
    BY <1>2, <1>3, FailInv DEF Busy
  <1> QED BY <1>6, <1>7 DEF expr

-----------------------------------------------------------------------------
(* Mapped inputs.                                                           *)

\* A value that a mapping resolves to has the type that validation inferred, where
\* something enforces that type.
LEMMA SourceConforms ==
    ASSUME RunInv, Started, NEW v, mapping_source_type(graph, v) # "unknown", Reliable(v),
           resolve_reference(v, input, output) # None
    PROVE  conforms(resolve_reference(v, input, output), mapping_source_type(graph, v))
  <1>1. CASE v.scope = "literal"
    <2>1. resolve_reference(v, input, output) = v.value
      BY <1>1 DEF resolve_reference
    <2>2. mapping_source_type(graph, v) = literal_type(v.value)
      BY <1>1 DEF mapping_source_type
    <2> DEFINE t == v.value[1]
    <2>3. t \in {"bool", "int", "whole", "frac", "obj", "arr", "null", "str"}
      BY <2>2 DEF literal_type
    <2>4. conforms(v.value, literal_type(v.value))
      <3>1. CASE t = "bool" \/ t = "int"
        BY <3>1 DEF literal_type, conforms
      <3>2. CASE t \in {"whole", "frac"}
        BY <3>2 DEF literal_type, conforms
      <3>3. CASE t = "obj" \/ t = "arr"
        BY <3>3 DEF literal_type, conforms
      <3>4. CASE t = "null" \/ t = "str"
        BY <3>4 DEF literal_type, conforms
      <3> QED BY <2>3, <3>1, <3>2, <3>3, <3>4
    <2> QED BY <2>1, <2>2, <2>4
  <1>2. CASE v.scope # "literal"
    <2>1. mapping_source_type(graph, v) = reference_type(graph, v) /\ reference_type(graph, v) # "unknown"
      BY <1>2 DEF mapping_source_type
    <2>2. v.scope \in {"variables", "input", "node"}
      BY <1>2 DEF Reliable
    <2>3. CASE v.scope = "variables"
      <3>1. v.rest = "" /\ v.field \in DOMAIN graph.variables /\ reference_type(graph, v) = graph.variables[v.field].type
        BY <2>1, <2>3 DEF reference_type
      <3>2. resolve_reference(v, input, output) = graph.variables[v.field].default
        BY <2>3, <3>1 DEF resolve_reference, member
      <3>3. conforms(graph.variables[v.field].default, graph.variables[v.field].type)
        BY <2>3 DEF Reliable
      <3> QED BY <2>1, <3>1, <3>2, <3>3
    <2>4. CASE v.scope = "input"
      <3> DEFINE schema == node(graph, Entry).out
      <3>1. v.rest = "" /\ schema.object
        BY <2>4 DEF Reliable
      <3>2. reference_type(graph, v) = field_type(schema, v.field)
        BY <2>1, <2>4 DEF reference_type, Entry
      <3>3. resolve_reference(v, input, output) = IF v.field \in DOMAIN input THEN input[v.field] ELSE None
        BY <2>4, <3>1 DEF resolve_reference, member
      <3>4. v.field \in DOMAIN input /\ v.field \in DOMAIN schema.type /\ reference_type(graph, v) = schema.type[v.field]
        BY <2>1, <3>2, <3>3 DEF field_type
      <3>5. validate_payload(input, schema)
        BY <3>1 DEF RunInv, InputFits
      <3>6. conforms(input[v.field], schema.type[v.field])
        BY <3>4, <3>5 DEF validate_payload
      <3> QED BY <2>1, <3>3, <3>4, <3>6
    <2>5. CASE v.scope = "node"
      <3> DEFINE schema == node(graph, v.node).out
                 value == output[v.node]
      <3>1. kind(graph, v.node) \in {"agent", "service"} /\ v.rest = "" /\ v.field # "trace" /\ ~Sensitive(v.field)
        BY <2>5 DEF Reliable
      <3>2. v.node \in ids(graph) /\ reference_type(graph, v) = field_type(schema, v.field)
        BY <2>1, <2>5 DEF reference_type
      <3>3. resolve_reference(v, input, output) = IF v.field \in DOMAIN value THEN value[v.field] ELSE None
        BY <2>5, <3>1 DEF resolve_reference, member
      <3>4. v.field \in DOMAIN value /\ v.field \in DOMAIN schema.type /\ reference_type(graph, v) = schema.type[v.field]
        BY <2>1, <3>2, <3>3 DEF field_type
      <3>5. status[v.node] = "completed"
        <4>1. value # <<>>
          BY <3>4
        <4> QED BY <3>2, <4>1 DEF RunInv, RowInv
      <3>6. Enforced(value, schema)
        BY <3>1, <3>2, <3>5 DEF RunInv, RowInv
      <3>7. conforms(value[v.field], schema.type[v.field])
        BY <3>1, <3>4, <3>6 DEF Enforced
      <3> QED BY <2>1, <3>3, <3>4, <3>7
    <2> QED BY <2>2, <2>3, <2>4, <2>5
  <1> QED BY <1>1, <1>2

\* A compatible source fits its target.
LEMMA CompatibleFits ==
    ASSUME NEW v, NEW s, NEW t, check_compatibility(s, t) \notin {"incompatible", "narrowing"}, conforms(v, s)
    PROVE  conforms(v, t)
  <1>1. s = t \/ (s = "integer" /\ t = "number")
    BY DEF check_compatibility
  <1>2. CASE s = "integer" /\ t = "number"
    BY <1>2 DEF conforms
  <1> QED BY <1>1, <1>2

\* An input that does not have its schema was warned of, has a schema that was not
\* looked at, or a source without a type that something enforces.
LEMMA MismatchExplained ==
    ASSUME RunInv, NEW x \in DOMAIN status, input_mismatch(x)
    PROVE  \/ warnings(graph) # {}
           \/ ~node(graph, x).schema.object
           \/ \E v \in Range(node(graph, x).mapping) : mapping_source_type(graph, v) = "unknown" \/ ~Reliable(v)
  <1> SUFFICES ASSUME warnings(graph) = {}, node(graph, x).schema.object,
                      \A v \in Range(node(graph, x).mapping) : mapping_source_type(graph, v) # "unknown" /\ Reliable(v)
               PROVE  FALSE
    OBVIOUS
  <1> DEFINE n == node(graph, x)
             type(f) == mapping_source_type(graph, n.mapping[f])
             value(f) == resolve_reference(n.mapping[f], input, output)
  <1>1. Started /\ Accepted(graph) /\ x \in ids(graph)
    BY AtWork
  <1>2. n \in Called(graph)
    BY <1>1, NodeOf DEF input_mismatch, Executes, kind, Called
  <1>3. validate_mapping(graph, n) = {} /\ Issue("narrowing" \in Verdicts(graph, n), "SCHEMA_TYPE_MISMATCH") = {}
    BY <1>1, <1>2, RulesHold DEF validate_schema, warnings
  <1>4. /\ n.schema.required \subseteq DOMAIN n.mapping
        /\ n.schema.closed => DOMAIN n.mapping \subseteq DOMAIN n.schema.type
        /\ "incompatible" \notin Verdicts(graph, n) /\ "narrowing" \notin Verdicts(graph, n)
    <2>1. /\ Issue(n.schema.object /\ ~(n.schema.required \subseteq DOMAIN n.mapping), "MISSING_REQUIRED_INPUT") = {}
          /\ Issue(n.schema.object /\ n.schema.closed /\ ~(DOMAIN n.mapping \subseteq DOMAIN n.schema.type), "UNKNOWN_INPUT_FIELD") = {}
          /\ Issue("incompatible" \in Verdicts(graph, n), "SCHEMA_TYPE_MISMATCH") = {}
      BY <1>3 DEF validate_mapping
    <2> QED BY <1>3, <2>1 DEF Issue
  <1>5. ASSUME NEW f \in DOMAIN n.mapping \cap DOMAIN n.schema.type PROVE conforms(value(f), n.schema.type[f])
    <2>1. n.mapping[f] \in Range(n.mapping)
      BY DEF Range
    <2>2. type(f) # "unknown" /\ Reliable(n.mapping[f])
      BY <2>1
    <2>3. value(f) # None
      BY <2>1 DEF input_mismatch, Resolved, Resolves, AllRefs
    <2>4. conforms(value(f), type(f))
      BY <1>1, <2>2, <2>3, SourceConforms
    <2>5. check_compatibility(type(f), n.schema.type[f]) \in Verdicts(graph, n)
      BY <2>2 DEF Verdicts
    <2>6. check_compatibility(type(f), n.schema.type[f]) \notin {"incompatible", "narrowing"}
      BY <1>4, <2>5
    <2> QED BY <2>4, <2>6, CompatibleFits
  <1>6. ResolvedInput(x) = [f \in DOMAIN n.mapping |-> value(f)]
    BY DEF ResolvedInput, resolve
  <1>7. validate_payload(ResolvedInput(x), n.schema)
    BY <1>4, <1>5, <1>6 DEF validate_payload
  <1> QED BY <1>7 DEF input_mismatch

-----------------------------------------------------------------------------
(* The theorems.                                                            *)

\* A Run that goes on has no error: a step sets at most that of its own node.
LEMMA ErrorOfStep ==
    ASSUME RunInv, NEW x \in DOMAIN status, work(x) \/ resume(x)
    PROVE  /\ graph' = graph /\ error[x] = "none"
           /\ \A y \in ids(graph) : y # x => error'[y] = "none"
  <1>1. phase \in {"running", "waiting"}
    BY DEF work, resume, unresolved, input_mismatch, call_succeeds, call_retryable, call_rejected, Calls,
           execute_condition, execute_graph_node, unsupported_connector, runner_executes, park, Executes
  <1>2. x \in ids(graph) /\ DOMAIN error = ids(graph) /\ \A y \in ids(graph) : error[y] = "none"
    BY <1>1, AtWork DEF RunInv, RowInv
  <1>3. ASSUME NEW s, NEW o, NEW code, Settle(x, s, o, code)
        PROVE  graph' = graph /\ \E c : error' = [error EXCEPT ![x] = c]
    BY <1>3 DEF Settle
  <1>4. CASE \/ unresolved(x) \/ input_mismatch(x) \/ execute_graph_node(x) \/ unsupported_connector(x)
             \/ park(x) \/ resume(x)
    <2>1. \E s, o, code : Settle(x, s, o, code)
      BY <1>4 DEF unresolved, input_mismatch, execute_graph_node, unsupported_connector, park, resume, Fail
    <2> QED BY <1>2, <1>3, <2>1
  <1>5. CASE execute_condition(x)
    <2>1. \E s, o, code : Settle(x, s, o, code)
      BY <1>5 DEF execute_condition, Fail
    <2> QED BY <1>2, <1>3, <2>1
  <1>6. CASE call_succeeds(x) \/ call_retryable(x) \/ call_rejected(x) \/ runner_executes(x)
    <2>1. (\E s, o, code : Settle(x, s, o, code)) \/ UNCHANGED <<graph, error>>
      BY <1>6 DEF call_succeeds, call_retryable, call_rejected, runner_executes
    <2> QED BY <1>2, <1>3, <2>1
  <1> QED BY <1>4, <1>5, <1>6 DEF work

\* The two properties of errors, on a step of node x.
LEMMA ErrorStep ==
    ASSUME RunInv, NEW x \in DOMAIN status, work(x) \/ resume(x)
    PROVE  ConditionEvaluates' /\ MappedInputFits'
  <1>1. graph' = graph /\ error[x] = "none" /\ \A y \in ids(graph) : y # x => error'[y] = "none"
    BY ErrorOfStep
  <1>2. \A y \in DOMAIN status' : y \in ids(graph)
    <2>1. RunInv'
      BY RunStep DEF Next
    <2> QED BY <1>1, <2>1 DEF RunInv, Started
  <1>3. x \in ids(graph) /\ DOMAIN error = ids(graph)
    BY AtWork DEF RunInv
  <1>4. error'[x] = "CONDITION_EVALUATION_FAILED" => execute_condition(x)
    <2>1. CASE unresolved(x)
      <3>1. error'[x] = "UNRESOLVED_CONTEXT_REFERENCE"
        BY <1>3, <2>1 DEF unresolved, Fail, Settle
      <3> QED BY <3>1
    <2>2. CASE input_mismatch(x)
      <3>1. error'[x] = "EXECUTION_SCHEMA_MISMATCH"
        BY <1>3, <2>2 DEF input_mismatch, Fail, Settle
      <3> QED BY <3>1
    <2>3. CASE unsupported_connector(x)
      <3>1. error'[x] = "UNSUPPORTED_AGENT_CONNECTOR"
        BY <1>3, <2>3 DEF unsupported_connector, Fail, Settle
      <3> QED BY <3>1
    <2> QED BY <1>1, <2>1, <2>2, <2>3, CallInv, GraphNodeInv, ResumeInv DEF work
  <1>5. error'[x] = "EXECUTION_SCHEMA_MISMATCH" => input_mismatch(x)
    <2>1. CASE unresolved(x)
      <3>1. error'[x] = "UNRESOLVED_CONTEXT_REFERENCE"
        BY <1>3, <2>1 DEF unresolved, Fail, Settle
      <3> QED BY <3>1
    <2>2. CASE execute_condition(x)
      <3>1. error'[x] \in {"none", "CONDITION_EVALUATION_FAILED"}
        BY <1>3, <2>2 DEF execute_condition, Fail, Settle
      <3> QED BY <3>1
    <2>3. CASE unsupported_connector(x)
      <3>1. error'[x] = "UNSUPPORTED_AGENT_CONNECTOR"
        BY <1>3, <2>3 DEF unsupported_connector, Fail, Settle
      <3> QED BY <3>1
    <2> QED BY <1>1, <2>1, <2>2, <2>3, CallInv, GraphNodeInv, ResumeInv DEF work
  <1>6. ConditionEvaluates'
    <2> SUFFICES ASSUME NEW y \in DOMAIN status', error'[y] = "CONDITION_EVALUATION_FAILED"
                 PROVE  (\E leaf \in Range(node(graph, y).expr) : leaf.shape = "compare" /\ ~Comparable(leaf))'
      BY DEF ConditionEvaluates
    <2>1. y = x
      BY <1>1, <1>2
    <2>2. /\ \E leaf \in Range(node(graph, x).expr) : leaf.shape = "compare" /\ ~Comparable(leaf)
          /\ output' = output /\ input' = input
      BY <1>4, <2>1, ConditionFails
    <2>3. ASSUME NEW leaf PROVE Comparable(leaf)' <=> Comparable(leaf)
      BY <1>1, <2>2 DEF Comparable, resolve_reference
    <2> QED BY <1>1, <2>1, <2>2, <2>3
  <1>7. MappedInputFits'
    <2> SUFFICES ASSUME NEW y \in DOMAIN status', error'[y] = "EXECUTION_SCHEMA_MISMATCH"
                 PROVE  (\/ warnings(graph) # {}
                         \/ ~node(graph, y).schema.object
                         \/ \E v \in Range(node(graph, y).mapping) : mapping_source_type(graph, v) = "unknown" \/ ~Reliable(v))'
      BY DEF MappedInputFits
    <2>1. y = x
      BY <1>1, <1>2
    <2>2. \/ warnings(graph) # {}
          \/ ~node(graph, x).schema.object
          \/ \E v \in Range(node(graph, x).mapping) : mapping_source_type(graph, v) = "unknown" \/ ~Reliable(v)
      BY <1>5, <2>1, MismatchExplained
    <2>3. ASSUME NEW v PROVE Reliable(v)' <=> Reliable(v)
      BY <1>1 DEF Reliable, Entry
    <2> QED BY <1>1, <2>1, <2>2, <2>3
  <1> QED BY <1>6, <1>7

\* Every step keeps the two properties of errors.
LEMMA ErrorsExplained ==
    ASSUME RunInv, ConditionEvaluates, MappedInputFits, [Next]_vars
    PROVE  ConditionEvaluates' /\ MappedInputFits'
  <1>1. CASE UNCHANGED vars
    <2>1. UNCHANGED <<graph, input, status, output, error>>
      BY <1>1 DEF vars
    <2>2. ASSUME NEW leaf PROVE Comparable(leaf)' <=> Comparable(leaf)
      BY <2>1 DEF Comparable, resolve_reference
    <2>3. ConditionEvaluates'
      BY <2>1, <2>2 DEF ConditionEvaluates
    <2>4. ASSUME NEW v PROVE Reliable(v)' <=> Reliable(v)
      BY <2>1 DEF Reliable, Entry
    <2>5. MappedInputFits'
      BY <2>1, <2>4 DEF MappedInputFits
    <2> QED BY <2>3, <2>5
  <1>2. CASE reject
    <2>1. DOMAIN status' = {}
      BY <1>2 DEF RunInv, Started, reject
    <2> QED BY <2>1 DEF ConditionEvaluates, MappedInputFits
  <1>3. CASE create_run
    <2>1. RunInv'
      BY <1>3, CreateInv
    <2>2. graph' = graph /\ error' = [x \in ids(graph) |-> "none"]
      BY <1>3 DEF create_run
    <2>3. \A y \in DOMAIN status' : y \in ids(graph)
      BY <2>1, <2>2 DEF RunInv, Started
    <2>4. \A y \in DOMAIN status' : error'[y] = "none"
      BY <2>2, <2>3
    <2> QED BY <2>4 DEF ConditionEvaluates, MappedInputFits
  <1> QED BY <1>1, <1>2, <1>3, ErrorStep DEF Next

\* The types are a part of the invariant.
LEMMA RunTypes == RunInv => GraphTypeOK
  BY DEF RunInv, Started, GraphTypeOK, NodeStatus, Terminal

\* So is what the scheduler keeps to.
LEMMA RunSchedule == RunInv => ScheduleInv
  BY DEF RunInv, Started, ScheduleInv, Consistent, RowInv

(* RunInv, with the two properties of errors, is an invariant of the Run    *)
(* on every graph: every decision of the conditions, every answer of the    *)
(* capabilities, every order of the executions.                             *)
THEOREM RunInvariant == Spec => [](RunInv /\ ConditionEvaluates /\ MappedInputFits)
  <1>1. Init => RunInv /\ ConditionEvaluates /\ MappedInputFits
    BY RunInit DEF Init, ConditionEvaluates, MappedInputFits
  <1>2. RunInv /\ ConditionEvaluates /\ MappedInputFits /\ [Next]_vars
        => (RunInv /\ ConditionEvaluates /\ MappedInputFits)'
    BY RunStep, ErrorsExplained
  <1> QED BY <1>1, <1>2, PTL DEF Spec

(* GraphIndex.ancestors, descendants and reachable_from and the Kahn sort   *)
(* of has_cycle compute the transitive closure of the connections, on every *)
(* graph that meets the contract.                                           *)
THEOREM GraphReachabilityExact == Spec => []ReachabilityExact
  BY RunInvariant, ReachabilityHolds, PTL

(* No accepted branch runs dry: a COMPLETED Run has a COMPLETED Data        *)
(* Output, on every accepted graph and for every choice of the conditions.  *)
THEOREM GraphCompletedHasOutput == Spec => []CompletedHasOutput
  BY RunInvariant, OutputHolds, PTL

(* The ancestor rule of validate_context is enough for the resolver: what a *)
(* node's references name has ended when the scheduler queues the node.     *)
THEOREM GraphRefsSettled == Spec => []RefsSettled
  BY RunInvariant, RefsSettledHolds, PTL

(* The pairing rule is enough for the join: no Output that is fed through   *)
(* the Parallel only, and no COMPLETED Run, goes round all of its Merges.   *)
THEOREM GraphOutputAfterMerge == Spec => []OutputAfterMerge
  BY RunInvariant, MergeHolds, PTL

(* The rows are well formed and soundly scheduled, and an accepted          *)
(* Condition selects exactly one branch or fails for its operands.          *)
THEOREM GraphSafety == Spec => []GraphInv
  <1>1. RunInv /\ ConditionEvaluates => GraphInv
    BY RunTypes, RunSchedule, OneBranchHolds DEF GraphInv
  <1> QED BY <1>1, RunInvariant, PTL

(* check_compatibility is sound: an input that validation typed and did not *)
(* warn of has the capability's schema when it is resolved.                 *)
THEOREM GraphMappedInputFits == Spec => []MappedInputFits
  BY RunInvariant, PTL

=============================================================================
