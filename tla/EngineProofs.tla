----------------------------- MODULE EngineProofs -----------------------------
EXTENDS Engine, FiniteSetTheorems, FunctionTheorems, SequenceTheorems, WellFoundedInduction, TLAPS

-------------------------------------------------------------------------------
(* Induction and recursion *)

\* A set of natural numbers that is not empty has a least element: the form in
\* which induction is used here.
LEMMA Least ==
    ASSUME NEW T \in SUBSET Nat, T # {}
    PROVE  \E x \in T : \A y \in T : x <= y
  <1> DEFINE R == {p \in Nat \X Nat : p[1] < p[2]}
  <1>1. IsWellFoundedOn(R, Nat)
    BY NatLessThanWellFounded, Zenon DEF OpToRel
  <1>2. PICK x \in T : \A y \in T : <<y, x>> \notin R
    <2> HIDE DEF R
    <2> QED BY <1>1, WFMin, Zenon
  <1>3. \A y \in T : x <= y
    <2>1. SUFFICES ASSUME NEW y \in T, ~(x <= y) PROVE FALSE
      OBVIOUS
    <2>2. x \in Nat /\ y \in Nat /\ y < x
      BY <2>1
    <2>3. <<y, x>> \in R
      BY <2>2
    <2> QED BY <1>2, <2>3
  <1> QED BY <1>3

\* A relation along which one cannot go down for ever.
Descends(R, S) ==
    /\ \A x, y, z \in S : <<x, y>> \in R /\ <<y, z>> \in R => <<x, z>> \in R
    /\ \A T \in SUBSET S : T # {} => \E x \in T : \A y \in T : <<y, x>> \notin R

\* f obeys the recursion at s: what F makes of f there.
Obeys(f, F, s) == f[s] = F[s][f]
Below(R, S, s) == {t \in S : t = s \/ <<t, s>> \in R}
\* F asks a function only for what is below.
AsksBelow(F, R, S, V) ==
    \A s \in S : \A g, h \in [S -> V] :
        (\A t \in S : <<t, s>> \in R => g[t] = h[t]) => F[s][g] = F[s][h]

Recursive(F, R, S, V) ==
    Descends(R, S) /\ F \in [S -> [[S -> V] -> V]] /\ AsksBelow(F, R, S, V) /\ V # {}
Solvable(F, S, V) == \E f \in [S -> V] : \A s \in S : f[s] = F[s][f]

\* Such a recursion has a solution.
LEMMA Recursion ==
    ASSUME NEW S, NEW V, NEW R, NEW F, Recursive(F, R, S, V)
    PROVE  Solvable(F, S, V)
  <1> SUFFICES ASSUME Descends(R, S), F \in [S -> [[S -> V] -> V]], AsksBelow(F, R, S, V), NEW a \in V
               PROVE  Solvable(F, S, V)
    BY DEF Recursive
  <1>0. ASSUME NEW s \in S, NEW f \in [S -> V], NEW g \in [S -> V],
               \A t \in Below(R, S, s) : Obeys(f, F, t) /\ Obeys(g, F, t)
        PROVE  \A t \in Below(R, S, s) : f[t] = g[t]
    <2> DEFINE T == {t \in Below(R, S, s) : f[t] # g[t]}
    <2>1. SUFFICES ASSUME T # {} PROVE FALSE
      OBVIOUS
    <2>2. PICK x \in T : \A y \in T : <<y, x>> \notin R
      <3>1. T \in SUBSET S
        BY DEF Below
      <3> HIDE DEF T
      <3> QED BY <2>1, <3>1 DEF Descends
    <2>3. x \in S /\ x \in Below(R, S, s) /\ f[x] # g[x]
      BY DEF Below
    <2>4. ASSUME NEW t \in S, <<t, x>> \in R PROVE f[t] = g[t]
      <3>1. t \in Below(R, S, s)
        BY <2>3, <2>4 DEF Below, Descends
      <3>2. t \notin T
        BY <2>2, <2>4
      <3> QED BY <3>1, <3>2
    <2>5. F[x][f] = F[x][g]
      <3> HIDE DEF T
      <3> QED BY <2>3, <2>4 DEF AsksBelow
    <2> HIDE DEF T
    <2> QED BY <1>0, <2>3, <2>5 DEF Obeys
  <1> DEFINE Good(f, s) == f \in [S -> V] /\ \A t \in Below(R, S, s) : Obeys(f, F, t)
             T == {s \in S : ~\E f : Good(f, s)}
             of(s) == CHOOSE f : Good(f, s)
  <1>1. ASSUME NEW s \in S, s \notin T PROVE Good(of(s), s)
    <2>1. \E f : Good(f, s)
      BY <1>1
    <2> HIDE DEF Good, T
    <2> QED BY <2>1
  <1>2. ASSUME NEW s \in S, NEW t \in Below(R, S, s), s \notin T, t \notin T
        PROVE  of(s)[t] = of(t)[t]
    <2>1. Below(R, S, t) \subseteq Below(R, S, s) /\ t \in S /\ t \in Below(R, S, t)
      BY DEF Below, Descends
    <2>2. Good(of(s), s) /\ Good(of(t), t)
      BY <1>1, <1>2, <2>1
    <2>3. /\ of(s) \in [S -> V] /\ of(t) \in [S -> V]
          /\ \A u \in Below(R, S, t) : Obeys(of(s), F, u) /\ Obeys(of(t), F, u)
      BY <2>1, <2>2
    <2>4. PICK f \in [S -> V], g \in [S -> V] : f = of(s) /\ g = of(t)
      BY <2>3
    <2>5. \A u \in Below(R, S, t) : f[u] = g[u]
      <3>1. t \in S /\ \A u \in Below(R, S, t) : Obeys(f, F, u) /\ Obeys(g, F, u)
        BY <2>1, <2>3, <2>4
      <3> HIDE DEF of, T, Good
      <3> QED BY <1>0, <3>1
    <2> HIDE DEF of, T, Good
    <2> QED BY <2>1, <2>4, <2>5
  <1>3. T = {}
    <2>1. SUFFICES ASSUME T # {} PROVE FALSE
      OBVIOUS
    <2>2. PICK x \in T : \A y \in T : <<y, x>> \notin R
      <3>1. T \in SUBSET S
        OBVIOUS
      <3> HIDE DEF T
      <3> QED BY <2>1, <3>1 DEF Descends
    <2>3. x \in S /\ ~\E f : Good(f, x)
      OBVIOUS
    <2> DEFINE low == [t \in S |-> IF <<t, x>> \in R THEN of(t)[t] ELSE a]
               top == [t \in S |-> IF t = x THEN F[x][low] ELSE low[t]]
    <2>4. <<x, x>> \notin R
      BY <2>2
    <2>5. ASSUME NEW t \in S, <<t, x>> \in R
          PROVE  t \notin T /\ Good(of(t), t) /\ of(t) \in [S -> V]
      BY <1>1, <2>2, <2>5
    <2>6. low \in [S -> V]
      <3>1. \A t \in S : <<t, x>> \in R => of(t)[t] \in V
        BY <2>5
      <3> HIDE DEF of
      <3> QED BY <3>1
    <2>7. top \in [S -> V]
      <3> HIDE DEF low
      <3> QED BY <2>3, <2>6
    <2>8. \A t \in S : <<t, x>> \in R => top[t] = of(t)[t] /\ top[t] = low[t]
      <3> HIDE DEF of
      <3> QED BY <2>4
    <2>9. ASSUME NEW t \in S, <<t, x>> \in R PROVE Obeys(top, F, t)
      <3>1. t \in Below(R, S, t)
        BY DEF Below
      <3>2. of(t)[t] = F[t][of(t)]
        BY <2>5, <2>9, <3>1 DEF Obeys
      <3>3. ASSUME NEW u \in S, <<u, t>> \in R PROVE top[u] = of(t)[u]
        <4>1. <<u, x>> \in R /\ u \in Below(R, S, t)
          BY <2>3, <2>9, <3>3 DEF Descends, Below
        <4>2. of(t)[u] = of(u)[u]
          BY <1>2, <2>5, <2>9, <4>1
        <4> HIDE DEF of, top
        <4> QED BY <2>8, <4>1, <4>2
      <3>4. F[t][top] = F[t][of(t)]
        <4>1. of(t) \in [S -> V]
          BY <2>5, <2>9
        <4> HIDE DEF of, top
        <4> QED BY <2>7, <3>3, <4>1 DEF AsksBelow
      <3>5. top[t] = of(t)[t]
        BY <2>8, <2>9
      <3> HIDE DEF of, top
      <3> QED BY <3>2, <3>4, <3>5 DEF Obeys
    <2>10. Obeys(top, F, x)
      <3>1. top[x] = F[x][low]
        BY <2>3
      <3>2. F[x][top] = F[x][low]
        <4> HIDE DEF top, low
        <4> QED BY <2>3, <2>6, <2>7, <2>8 DEF AsksBelow
      <3> HIDE DEF top, low
      <3> QED BY <3>1, <3>2 DEF Obeys
    <2>11. Good(top, x)
      <3> HIDE DEF top
      <3> QED BY <2>7, <2>9, <2>10 DEF Below
    <2> HIDE DEF Good, top
    <2> QED BY <2>3, <2>11
  <1> DEFINE all == [s \in S |-> of(s)[s]]
  <1>4. \A s \in S : Good(of(s), s) /\ s \in Below(R, S, s)
    BY <1>1, <1>3 DEF Below
  <1>5. all \in [S -> V]
    <2>1. \A s \in S : of(s) \in [S -> V]
      BY <1>4
    <2> HIDE DEF of
    <2> QED BY <2>1
  <1>6. ASSUME NEW s \in S PROVE all[s] = F[s][all]
    <2>1. all[s] = F[s][of(s)] /\ of(s) \in [S -> V]
      <3> HIDE DEF of
      <3> QED BY <1>4 DEF Obeys
    <2>2. \A t \in S : <<t, s>> \in R => of(s)[t] = all[t]
      <3>1. ASSUME NEW t \in S, <<t, s>> \in R PROVE of(s)[t] = of(t)[t]
        <4>1. t \in Below(R, S, s) /\ s \notin T /\ t \notin T
          BY <1>3, <3>1 DEF Below
        <4> QED BY <1>2, <4>1
      <3> HIDE DEF of
      <3> QED BY <3>1
    <2> HIDE DEF all, of
    <2> QED BY <1>5, <2>1, <2>2 DEF AsksBelow
  <1> HIDE DEF all
  <1> QED BY <1>5, <1>6 DEF Solvable

\* One may go down by a number, or by three numbers of which the first counts most.
ByRank(S, rank) == {p \in S \X S : rank[p[1]] < rank[p[2]]}
ByRanks(S, a, b, c) ==
    {p \in S \X S : \/ a[p[1]] < a[p[2]]
                    \/ a[p[1]] = a[p[2]] /\ b[p[1]] < b[p[2]]
                    \/ a[p[1]] = a[p[2]] /\ b[p[1]] = b[p[2]] /\ c[p[1]] < c[p[2]]}

\* Where a number is least.
LEMMA LeastRank ==
    ASSUME NEW S, NEW rank \in [S -> Nat], NEW T \in SUBSET S, T # {}
    PROVE  \E x \in T : \A y \in T : rank[x] <= rank[y]
  <1> DEFINE Q == {rank[x] : x \in T}
  <1>1. Q \in SUBSET Nat /\ Q # {}
    OBVIOUS
  <1>2. PICK q \in Q : \A p \in Q : q <= p
    <2> HIDE DEF Q
    <2> QED BY <1>1, Least
  <1>3. PICK x \in T : rank[x] = q
    OBVIOUS
  <1>4. \A y \in T : rank[y] \in Q
    OBVIOUS
  <1> QED BY <1>2, <1>3, <1>4

LEMMA ByRankDescends ==
    ASSUME NEW S, NEW rank \in [S -> Nat]
    PROVE  Descends(ByRank(S, rank), S)
  <1>1. ASSUME NEW T \in SUBSET S, T # {}
        PROVE  \E x \in T : \A y \in T : <<y, x>> \notin ByRank(S, rank)
    <2>1. PICK x \in T : \A y \in T : rank[x] <= rank[y]
      BY <1>1, LeastRank
    <2>2. ASSUME NEW y \in T PROVE <<y, x>> \notin ByRank(S, rank)
      BY <2>1 DEF ByRank
    <2> QED BY <2>2
  <1>2. ASSUME NEW x \in S, NEW y \in S, NEW z \in S,
               <<x, y>> \in ByRank(S, rank), <<y, z>> \in ByRank(S, rank)
        PROVE  <<x, z>> \in ByRank(S, rank)
    BY <1>2 DEF ByRank
  <1> QED BY <1>1, <1>2 DEF Descends

LEMMA ByRanksDescends ==
    ASSUME NEW S, NEW a \in [S -> Nat], NEW b \in [S -> Nat], NEW c \in [S -> Nat]
    PROVE  Descends(ByRanks(S, a, b, c), S)
  <1>1. ASSUME NEW T \in SUBSET S, T # {}
        PROVE  \E x \in T : \A y \in T : <<y, x>> \notin ByRanks(S, a, b, c)
    <2>1. PICK x1 \in T : \A y \in T : a[x1] <= a[y]
      BY <1>1, LeastRank
    <2> DEFINE A == {y \in T : a[y] = a[x1]}
    <2>2. PICK x2 \in A : \A y \in A : b[x2] <= b[y]
      <3>1. A \in SUBSET S /\ A # {}
        OBVIOUS
      <3> HIDE DEF A
      <3> QED BY <3>1, LeastRank
    <2> DEFINE B == {y \in A : b[y] = b[x2]}
    <2>3. PICK x \in B : \A y \in B : c[x] <= c[y]
      <3>1. B \in SUBSET S /\ B # {}
        OBVIOUS
      <3> HIDE DEF B
      <3> QED BY <3>1, LeastRank
    <2>4. ASSUME NEW y \in T PROVE <<y, x>> \notin ByRanks(S, a, b, c)
      <3>1. a[x] = a[x1] /\ b[x] = b[x2] /\ x \in S /\ y \in S
        OBVIOUS
      <3>2. ~(a[y] < a[x])
        BY <2>1, <3>1
      <3>3. a[y] = a[x] => ~(b[y] < b[x])
        BY <2>2, <3>1
      <3>4. a[y] = a[x] /\ b[y] = b[x] => ~(c[y] < c[x])
        BY <2>3, <3>1
      <3> QED BY <3>2, <3>3, <3>4 DEF ByRanks
    <2>5. x \in T
      OBVIOUS
    <2> QED BY <2>4, <2>5
  <1>2. ASSUME NEW x \in S, NEW y \in S, NEW z \in S,
               <<x, y>> \in ByRanks(S, a, b, c), <<y, z>> \in ByRanks(S, a, b, c)
        PROVE  <<x, z>> \in ByRanks(S, a, b, c)
    BY <1>2 DEF ByRanks
  <1> QED BY <1>1, <1>2 DEF Descends

-------------------------------------------------------------------------------
(* The order in which a walk leaves the nodes (FinishOrder) *)

Entered(s, stack, node) ==
    [stack |-> Append(stack, <<node, 1>>), visited |-> s.visited \cup {node}, order |-> s.order]
Halted(adjacency, s) == s.stack = <<>> /\ DOMAIN adjacency \ s.visited = {}
After(adjacency, s) ==
    LET node == Last(s.stack)[1]  next == Last(s.stack)[2]
        stay == Append(Front(s.stack), <<node, next + 1>>)
    IN IF s.stack = <<>> THEN Entered(s, <<>>, Min(DOMAIN adjacency \ s.visited))
       ELSE IF next > Len(adjacency[node])
       THEN [stack |-> Front(s.stack), visited |-> s.visited, order |-> Append(s.order, node)]
       ELSE IF adjacency[node][next] \in s.visited THEN [s EXCEPT !.stack = stay]
       ELSE Entered(s, stay, adjacency[node][next])

Remaining(adjacency, s) ==
    IF s.stack = <<>> \/ Last(s.stack)[2] > Len(adjacency[Last(s.stack)[1]]) THEN 0
    ELSE Len(adjacency[Last(s.stack)[1]]) + 1 - Last(s.stack)[2]
WalkOrder(adjacency) ==
    ByRanks(Walks(adjacency),
            [s \in Walks(adjacency) |-> Cardinality(DOMAIN adjacency \ s.visited)],
            [s \in Walks(adjacency) |-> Len(s.stack)],
            [s \in Walks(adjacency) |-> Remaining(adjacency, s)])

\* Nodes are positions, and so are the targets of edges.
IsGraph(adjacency) == \E n \in Nat : adjacency \in [1..n -> Seq(1..n)]

LEMMA MinIsLeast ==
    ASSUME NEW T \in SUBSET Nat, T # {}
    PROVE  Min(T) \in T /\ \A y \in T : Min(T) <= y
  BY Least DEF Min

LEMMA LastAndFront ==
    ASSUME NEW S, NEW s \in Seq(S), s # <<>>
    PROVE  /\ Len(s) \in Nat \ {0}
           /\ Last(s) \in S
           /\ Front(s) \in Seq(S)
           /\ Len(Front(s)) = Len(s) - 1
           /\ \A i \in 1..(Len(s) - 1) : Front(s)[i] = s[i]
  <1>1. Len(s) \in Nat /\ Len(s) # 0 /\ \A i \in 1..Len(s) : s[i] \in S
    BY EmptySeq, LenProperties, ElementOfSeq
  <1>2. PICK m \in Nat : Len(s) = m + 1
    <2>1. Len(s) - 1 \in Nat /\ Len(s) = (Len(s) - 1) + 1
      BY <1>1
    <2> QED BY <2>1
  <1>3. Len(s) \in 1..Len(s) /\ Len(s) - 1 = m /\ \A i \in 1..m : i \in 1..Len(s)
    BY <1>2
  <1>4. /\ SubSeq(s, 1, m) \in Seq(S)
        /\ Len(SubSeq(s, 1, m)) = IF 1 <= m THEN m - 1 + 1 ELSE 0
        /\ \A i \in 1..(m - 1 + 1) : SubSeq(s, 1, m)[i] = s[1 + i - 1]
    BY <1>1, <1>3, SubSeqProperties
  <1>5. /\ SubSeq(s, 1, m) \in Seq(S)
        /\ Len(SubSeq(s, 1, m)) = m
        /\ \A i \in 1..m : SubSeq(s, 1, m)[i] = s[i]
    BY <1>4
  <1> QED BY <1>1, <1>3, <1>5 DEF Last, Front

\* Every node that was visited is in the order or on the stack.
OnStack(q) == {q[i][1] : i \in 1..Len(q)}
Covers(s) == s.visited = ToSet(s.order) \cup OnStack(s.stack)

LEMMA AppendFacts ==
    ASSUME NEW S, NEW s \in Seq(S), NEW x \in S
    PROVE  /\ Append(s, x) \in Seq(S)
           /\ Len(Append(s, x)) = Len(s) + 1
           /\ Append(s, x)[Len(s) + 1] = x
           /\ \A i \in 1..Len(s) : Append(s, x)[i] = s[i]
           /\ ToSet(Append(s, x)) = ToSet(s) \cup {x}
  <1>1. /\ Append(s, x) \in Seq(S)
        /\ Len(Append(s, x)) = Len(s) + 1
        /\ \A i \in 1..Len(s) : Append(s, x)[i] = s[i]
        /\ Append(s, x)[Len(s) + 1] = x
    BY AppendProperties
  <1>2. Len(s) \in Nat /\ DOMAIN s = 1..Len(s) /\ DOMAIN Append(s, x) = 1..(Len(s) + 1)
    BY <1>1, LenProperties
  <1>3. ToSet(Append(s, x)) = ToSet(s) \cup {x}
    <2>1. ASSUME NEW y \in ToSet(Append(s, x)) PROVE y \in ToSet(s) \cup {x}
      <3>1. PICK i \in 1..(Len(s) + 1) : y = Append(s, x)[i]
        BY <1>2 DEF ToSet
      <3>2. i \in 1..Len(s) \/ i = Len(s) + 1
        BY <1>2
      <3> QED BY <1>1, <1>2, <3>1, <3>2 DEF ToSet
    <2>2. ASSUME NEW y \in ToSet(s) \cup {x} PROVE y \in ToSet(Append(s, x))
      <3>1. Len(s) + 1 \in 1..(Len(s) + 1) /\ \A i \in 1..Len(s) : i \in 1..(Len(s) + 1)
        BY <1>2
      <3>2. CASE y = x
        BY <1>1, <1>2, <3>1, <3>2 DEF ToSet
      <3>3. CASE y # x
        <4>1. PICK i \in 1..Len(s) : y = s[i]
          BY <1>2, <3>3 DEF ToSet
        <4> QED BY <1>1, <1>2, <3>1, <4>1 DEF ToSet
      <3> QED BY <3>2, <3>3
    <2> QED BY <2>1, <2>2
  <1> QED BY <1>1, <1>3

\* A list is its head and what follows.
LEMMA HeadAndTail ==
    ASSUME NEW S, NEW q \in Seq(S), q # <<>>
    PROVE  /\ Head(q) \in S /\ Tail(q) \in Seq(S)
           /\ Len(q) \in Nat \ {0} /\ DOMAIN q = 1..Len(q) /\ Head(q) = q[1]
           /\ Len(Tail(q)) = Len(q) - 1 /\ DOMAIN Tail(q) = 1..(Len(q) - 1)
           /\ \A i \in 1..(Len(q) - 1) : Tail(q)[i] = q[i + 1]
           /\ ToSet(q) = {Head(q)} \cup ToSet(Tail(q))
  <1>1. /\ Head(q) \in S /\ Tail(q) \in Seq(S) /\ Len(q) \in Nat /\ Len(q) # 0 /\ DOMAIN q = 1..Len(q)
        /\ Len(Tail(q)) = Len(q) - 1 /\ Head(q) = q[1]
        /\ \A i \in 1..Len(Tail(q)) : Tail(q)[i] = q[i + 1]
    BY EmptySeq, LenProperties, HeadTailProperties
  <1>2. DOMAIN Tail(q) = 1..(Len(q) - 1)
    BY <1>1, LenProperties
  <1>3. 1 \in 1..Len(q) /\ \A i \in 1..(Len(q) - 1) : i + 1 \in 1..Len(q)
    BY <1>1
  <1>4. \A i \in 1..(Len(q) - 1) : Tail(q)[i] = q[i + 1]
    BY <1>1
  <1>5. \A i \in 1..(Len(q) - 1) : Tail(q)[i] \in ToSet(q)
    BY <1>1, <1>3, <1>4 DEF ToSet
  <1>6. ASSUME NEW i \in 1..Len(q), i # 1 PROVE q[i] \in ToSet(Tail(q))
    <2>1. i - 1 \in 1..(Len(q) - 1) /\ (i - 1) + 1 = i
      BY <1>1, <1>6
    <2>2. q[i] = Tail(q)[i - 1] /\ i - 1 \in DOMAIN Tail(q)
      BY <1>2, <1>4, <2>1
    <2> QED BY <2>2 DEF ToSet
  <1>7. ToSet(q) = {Head(q)} \cup ToSet(Tail(q))
    <2>1. Head(q) \in ToSet(q)
      BY <1>1, <1>3 DEF ToSet
    <2>2. \A x \in ToSet(q) : x = Head(q) \/ x \in ToSet(Tail(q))
      BY <1>1, <1>6 DEF ToSet
    <2>3. \A x \in ToSet(Tail(q)) : x \in ToSet(q)
      BY <1>2, <1>5 DEF ToSet
    <2> QED BY <2>1, <2>2, <2>3
  <1> QED BY <1>1, <1>2, <1>4, <1>7

LEMMA LastIndex ==
    ASSUME NEW k \in Nat
    PROVE  \A i \in 1..(k + 1) : i \in 1..k \/ i = k + 1
  OBVIOUS

\* A step of the walk enters a node, leaves one, or looks at its next target.
LEMMA WalkEnters ==
    ASSUME NEW n \in Nat, NEW adjacency \in [1..n -> Seq(1..n)], NEW s \in Walks(adjacency),
           NEW stack \in Seq((1..n) \X (Nat \ {0})), NEW node \in (1..n) \ s.visited,
           OnStack(stack) = OnStack(s.stack)
    PROVE  /\ Entered(s, stack, node) \in Walks(adjacency)
           /\ <<Entered(s, stack, node), s>> \in WalkOrder(adjacency)
           /\ Covers(s) => Covers(Entered(s, stack, node))
  <1> DEFINE K == (1..n) \X (Nat \ {0})
             t == Entered(s, stack, node)
  <1>1. DOMAIN adjacency = 1..n
    OBVIOUS
  <1>2. /\ s.stack \in Seq(K) /\ s.visited \in SUBSET (1..n) /\ s.order \in Seq(1..n)
        /\ s \in [stack : Seq(K), visited : SUBSET (1..n), order : Seq(1..n)]
    BY <1>1 DEF Walks
  <1>3. t = [stack |-> Append(stack, <<node, 1>>), visited |-> s.visited \cup {node}, order |-> s.order]
    BY DEF Entered
  <1>4. <<node, 1>> \in K
    OBVIOUS
  <1>5. /\ Append(stack, <<node, 1>>) \in Seq(K)
        /\ Len(Append(stack, <<node, 1>>)) = Len(stack) + 1
        /\ Append(stack, <<node, 1>>)[Len(stack) + 1] = <<node, 1>>
        /\ \A i \in 1..Len(stack) : Append(stack, <<node, 1>>)[i] = stack[i]
        /\ Len(stack) \in Nat
    <2> HIDE DEF K
    <2> QED BY <1>4, AppendFacts, LenProperties DEF K
  <1>6. t \in Walks(adjacency)
    <2> HIDE DEF t
    <2> QED BY <1>1, <1>2, <1>3, <1>5 DEF Walks
  <1>7. Cardinality((1..n) \ t.visited) < Cardinality((1..n) \ s.visited)
    <2>1. IsFiniteSet((1..n) \ s.visited)
      <3>1. IsFiniteSet(1..n)
        BY FS_Interval
      <3> QED BY <3>1, FS_Difference
    <2>2. (1..n) \ t.visited = ((1..n) \ s.visited) \ {node} /\ node \in (1..n) \ s.visited
      <3> HIDE DEF t
      <3> QED BY <1>3
    <2>3. Cardinality((1..n) \ t.visited) = Cardinality((1..n) \ s.visited) - 1
      <3>1. Cardinality(((1..n) \ s.visited) \ {node}) = Cardinality((1..n) \ s.visited) - 1
        BY <2>1, FS_RemoveElement
      <3> HIDE DEF t
      <3> QED BY <2>2, <3>1
    <2>4. Cardinality((1..n) \ s.visited) \in Nat
      BY <2>1, FS_CardinalityType
    <2> QED BY <2>3, <2>4
  <1>8. <<t, s>> \in WalkOrder(adjacency)
    <2> HIDE DEF t
    <2> QED BY <1>1, <1>6, <1>7 DEF WalkOrder, ByRanks
  <1>9. OnStack(Append(stack, <<node, 1>>)) = OnStack(stack) \cup {node}
    <2>1. \A i \in 1..(Len(stack) + 1) : i \in 1..Len(stack) \/ i = Len(stack) + 1
      BY <1>5, LastIndex
    <2>2. Len(stack) + 1 \in 1..(Len(stack) + 1) /\ \A i \in 1..Len(stack) : i \in 1..(Len(stack) + 1)
      BY <1>5
    <2>3. <<node, 1>>[1] = node
      OBVIOUS
    <2> QED BY <1>5, <2>1, <2>2, <2>3 DEF OnStack
  <1>10. ASSUME Covers(s) PROVE Covers(t)
    <2> HIDE DEF t
    <2>1. t.visited = s.visited \cup {node} /\ t.order = s.order /\ t.stack = Append(stack, <<node, 1>>)
      BY <1>3
    <2> QED BY <1>9, <1>10, <2>1 DEF Covers
  <1> QED BY <1>6, <1>8, <1>10

LEMMA OnStackAgrees ==
    ASSUME NEW m \in Nat \ {0}, NEW p, NEW q, Len(p) = m, Len(q) = m,
           \A i \in 1..(m - 1) : p[i] = q[i], p[m][1] = q[m][1]
    PROVE  OnStack(p) = OnStack(q)
  <1>1. \A i \in 1..m : i = m \/ i \in 1..(m - 1)
    OBVIOUS
  <1>2. \A i \in 1..m : p[i][1] = q[i][1]
    BY <1>1
  <1> QED BY <1>2 DEF OnStack

LEMMA OnStackFront ==
    ASSUME NEW m \in Nat \ {0}, NEW p, NEW q, Len(p) = m, Len(q) = m - 1,
           \A i \in 1..(m - 1) : q[i] = p[i]
    PROVE  OnStack(p) = OnStack(q) \cup {p[m][1]}
  <1>1. (\A i \in 1..m : i = m \/ i \in 1..(m - 1)) /\ m \in 1..m /\ \A i \in 1..(m - 1) : i \in 1..m
    OBVIOUS
  <1> QED BY <1>1 DEF OnStack

LEMMA WalkStep ==
    ASSUME NEW n \in Nat, NEW adjacency \in [1..n -> Seq(1..n)], NEW s \in Walks(adjacency),
           ~Halted(adjacency, s)
    PROVE  /\ After(adjacency, s) \in Walks(adjacency)
           /\ <<After(adjacency, s), s>> \in WalkOrder(adjacency)
           /\ Covers(s) => Covers(After(adjacency, s))
  <1> DEFINE K == (1..n) \X (Nat \ {0})
  <1>1. DOMAIN adjacency = 1..n
    OBVIOUS
  <1>2. /\ s.stack \in Seq(K) /\ s.visited \in SUBSET (1..n) /\ s.order \in Seq(1..n)
        /\ s \in [stack : Seq(K), visited : SUBSET (1..n), order : Seq(1..n)]
        /\ Walks(adjacency) = [stack : Seq(K), visited : SUBSET (1..n), order : Seq(1..n)]
    BY <1>1 DEF Walks
  <1>3. CASE s.stack = <<>>
    <2> DEFINE node == Min((1..n) \ s.visited)
    <2>1. node \in (1..n) \ s.visited
      <3>1. (1..n) \ s.visited \in SUBSET Nat /\ (1..n) \ s.visited # {}
        BY <1>1, <1>3 DEF Halted
      <3> HIDE DEF node
      <3> QED BY <3>1, MinIsLeast DEF node
    <2>2. After(adjacency, s) = Entered(s, <<>>, node)
      BY <1>1, <1>3 DEF After
    <2>3. s.stack \in Seq((1..n) \X (Nat \ {0}))
      BY <1>2
    <2> HIDE DEF node, K
    <2>4. /\ Entered(s, s.stack, node) \in Walks(adjacency)
          /\ <<Entered(s, s.stack, node), s>> \in WalkOrder(adjacency)
          /\ Covers(s) => Covers(Entered(s, s.stack, node))
      BY <2>1, <2>3, WalkEnters
    <2> QED BY <1>3, <2>2, <2>4
  <1>4. CASE s.stack # <<>>
    <2> DEFINE node == Last(s.stack)[1]
               next == Last(s.stack)[2]
               rest == Front(s.stack)
               stay == Append(rest, <<node, next + 1>>)
               m == Len(s.stack)
    <2>1. /\ Last(s.stack) \in K /\ rest \in Seq(K) /\ m \in Nat \ {0} /\ Len(rest) = m - 1
          /\ \A i \in 1..(m - 1) : rest[i] = s.stack[i]
      <3> HIDE DEF K
      <3> QED BY <1>2, <1>4, LastAndFront
    <2>2. node \in 1..n /\ next \in Nat \ {0} /\ <<node, next + 1>> \in K /\ s.stack[m][1] = node
      BY <2>1 DEF Last
    <2>3. /\ stay \in Seq(K) /\ Len(stay) = m /\ stay[m] = <<node, next + 1>>
          /\ \A i \in 1..(m - 1) : stay[i] = s.stack[i]
      <3>1. /\ stay \in Seq(K) /\ Len(stay) = (m - 1) + 1 /\ stay[(m - 1) + 1] = <<node, next + 1>>
            /\ \A i \in 1..(m - 1) : stay[i] = rest[i]
        <4> HIDE DEF K, node, next, rest, m
        <4> QED BY <2>1, <2>2, AppendFacts
      <3>2. (m - 1) + 1 = m
        BY <2>1
      <3> HIDE DEF K, node, next, rest, m, stay
      <3> QED BY <2>1, <3>1, <3>2
    <2>5. OnStack(stay) = OnStack(s.stack)
      <3>1. stay[m][1] = s.stack[m][1]
        BY <2>2, <2>3
      <3>2. Len(s.stack) = m
        OBVIOUS
      <3> HIDE DEF K, node, next, rest, m, stay
      <3> QED BY <2>1, <2>3, <3>1, <3>2, OnStackAgrees
    <2>6. OnStack(s.stack) = OnStack(rest) \cup {node}
      <3>2. Len(s.stack) = m
        OBVIOUS
      <3> HIDE DEF K, node, next, rest, m, stay
      <3>3. OnStack(s.stack) = OnStack(rest) \cup {s.stack[m][1]}
        BY <2>1, <3>2, OnStackFront
      <3> QED BY <2>2, <3>3
    <2>7. After(adjacency, s) =
             IF next > Len(adjacency[node])
             THEN [stack |-> rest, visited |-> s.visited, order |-> Append(s.order, node)]
             ELSE IF adjacency[node][next] \in s.visited THEN [s EXCEPT !.stack = stay]
             ELSE Entered(s, stay, adjacency[node][next])
      BY <1>4 DEF After
    <2>8. CASE next > Len(adjacency[node])
      <3> DEFINE t == [stack |-> rest, visited |-> s.visited, order |-> Append(s.order, node)]
      <3>1. Append(s.order, node) \in Seq(1..n) /\ ToSet(Append(s.order, node)) = ToSet(s.order) \cup {node}
        <4>1. s.order \in Seq(1..n) /\ node \in 1..n
          BY <1>2, <2>2
        <4>2. \A x \in 1..n : /\ Append(s.order, x) \in Seq(1..n)
                              /\ ToSet(Append(s.order, x)) = ToSet(s.order) \cup {x}
          <5> DEFINE q == s.order
          <5>1. q \in Seq(1..n)
            BY <4>1
          <5> HIDE DEF q, K, node, next, rest, stay, m, t
          <5>2. \A x \in 1..n : Append(q, x) \in Seq(1..n) /\ ToSet(Append(q, x)) = ToSet(q) \cup {x}
            BY <5>1, AppendFacts
          <5> QED BY <5>2 DEF q
        <4> HIDE DEF K, node, next, rest, stay, m, t
        <4> QED BY <4>1, <4>2
      <3>2. t \in Walks(adjacency)
        BY <1>2, <2>1, <3>1
      <3>3. Len(t.stack) < Len(s.stack)
        BY <2>1
      <3>4. <<t, s>> \in WalkOrder(adjacency)
        <4>1. t.visited = s.visited
          OBVIOUS
        <4> HIDE DEF t
        <4> QED BY <3>2, <3>3, <4>1 DEF WalkOrder, ByRanks
      <3>5. Covers(s) => Covers(t)
        BY <2>6, <3>1 DEF Covers
      <3> QED BY <2>7, <2>8, <3>2, <3>4, <3>5
    <2>9. CASE ~(next > Len(adjacency[node])) /\ adjacency[node][next] \in s.visited
      <3> DEFINE t == [s EXCEPT !.stack = stay]
      <3>1. t = [stack |-> stay, visited |-> s.visited, order |-> s.order]
        <4>1. s \in [stack : Seq(K), visited : SUBSET (1..n), order : Seq(1..n)]
          BY <1>2
        <4> HIDE DEF stay, K
        <4> QED BY <4>1
      <3>2. t \in Walks(adjacency)
        <4> HIDE DEF t, stay
        <4> QED BY <1>2, <2>3, <3>1
      <3>3. Covers(s) => Covers(t)
        <4> HIDE DEF t, stay
        <4> QED BY <2>5, <3>1 DEF Covers
      <3>4. Remaining(adjacency, t) < Remaining(adjacency, s)
        <4>1. Len(adjacency[node]) \in Nat
          BY <2>2, LenProperties
        <4>2. Remaining(adjacency, s) = Len(adjacency[node]) + 1 - next
          BY <1>4, <2>9 DEF Remaining
        <4>3. t.stack = stay /\ stay # <<>> /\ Last(stay) = <<node, next + 1>>
          BY <2>1, <2>3, <3>1 DEF Last
        <4>4. Remaining(adjacency, t) =
                 IF next + 1 > Len(adjacency[node]) THEN 0 ELSE Len(adjacency[node]) + 1 - (next + 1)
          <5>1. Last(stay)[1] = node /\ Last(stay)[2] = next + 1
            BY <4>3
          <5> HIDE DEF t, stay, node, next
          <5> QED BY <4>3, <5>1 DEF Remaining
        <4> HIDE DEF t, stay, node, next, rest, m, K
        <4> QED BY <2>2, <2>9, <4>1, <4>2, <4>4
      <3>5. <<t, s>> \in WalkOrder(adjacency)
        <4>1. t.visited = s.visited /\ Len(t.stack) = Len(s.stack)
          BY <2>3, <3>1
        <4> HIDE DEF t
        <4> QED BY <3>2, <3>4, <4>1 DEF WalkOrder, ByRanks
      <3> QED BY <2>7, <2>9, <3>2, <3>3, <3>5
    <2>10. CASE ~(next > Len(adjacency[node])) /\ adjacency[node][next] \notin s.visited
      <3>1. adjacency[node] \in Seq(1..n) /\ adjacency[node][next] \in 1..n
        <4>1. adjacency[node] \in Seq(1..n)
          BY <2>2
        <4>2. Len(adjacency[node]) \in Nat /\ next \in 1..Len(adjacency[node])
          BY <2>2, <2>10, <4>1, LenProperties
        <4> QED BY <4>1, <4>2, ElementOfSeq
      <3> DEFINE target == adjacency[node][next]
      <3> HIDE DEF stay, node, next
      <3> HIDE DEF target
      <3>2. /\ Entered(s, stay, target) \in Walks(adjacency)
            /\ <<Entered(s, stay, target), s>> \in WalkOrder(adjacency)
            /\ Covers(s) => Covers(Entered(s, stay, target))
        BY <2>3, <2>5, <2>10, <3>1, WalkEnters DEF target
      <3> QED BY <2>7, <2>10, <3>2 DEF target
    <2> QED BY <2>8, <2>9, <2>10
  <1> QED BY <1>3, <1>4

LEMMA WalkDescends ==
    ASSUME NEW n \in Nat, NEW adjacency \in [1..n -> Seq(1..n)]
    PROVE  Descends(WalkOrder(adjacency), Walks(adjacency))
  <1> DEFINE S == Walks(adjacency)
  <1>1. [s \in S |-> Cardinality(DOMAIN adjacency \ s.visited)] \in [S -> Nat]
    <2>1. ASSUME NEW s \in S PROVE Cardinality(DOMAIN adjacency \ s.visited) \in Nat
      <3>1. IsFiniteSet(1..n)
        BY FS_Interval
      <3>2. IsFiniteSet((1..n) \ s.visited)
        BY <3>1, FS_Difference
      <3> QED BY <3>2, FS_CardinalityType
    <2> HIDE DEF S
    <2> QED BY <2>1
  <1>2. [s \in S |-> Len(s.stack)] \in [S -> Nat]
    <2>1. ASSUME NEW s \in S PROVE Len(s.stack) \in Nat
      BY LenProperties DEF Walks
    <2> HIDE DEF S
    <2> QED BY <2>1
  <1>3. [s \in S |-> Remaining(adjacency, s)] \in [S -> Nat]
    <2>1. ASSUME NEW s \in S PROVE Remaining(adjacency, s) \in Nat
      <3>1. CASE s.stack = <<>>
        BY <3>1 DEF Remaining
      <3>2. CASE s.stack # <<>>
        <4>1. s.stack \in Seq((1..n) \X (Nat \ {0}))
          BY DEF Walks
        <4>2. Last(s.stack) \in (1..n) \X (Nat \ {0})
          BY <3>2, <4>1, LastAndFront
        <4>3. Len(adjacency[Last(s.stack)[1]]) \in Nat /\ Last(s.stack)[2] \in Nat
          BY <4>2, LenProperties
        <4> QED BY <3>2, <4>3 DEF Remaining
      <3> QED BY <3>1, <3>2
    <2> HIDE DEF S
    <2> QED BY <2>1
  <1> HIDE DEF S
  <1> QED BY <1>1, <1>2, <1>3, ByRanksDescends DEF WalkOrder, S

\* The recursion of FinishOrder.
LEMMA WalkUnfold ==
    ASSUME NEW n \in Nat, NEW adjacency \in [1..n -> Seq(1..n)]
    PROVE  \E walk :
              /\ FinishOrder(adjacency) = walk[[stack |-> <<>>, visited |-> {}, order |-> <<>>]]
              /\ \A s \in Walks(adjacency) :
                    walk[s] = IF Halted(adjacency, s) THEN s.order ELSE walk[After(adjacency, s)]
  <1> DEFINE S == Walks(adjacency)
             V == Seq(1..n)
             R == WalkOrder(adjacency)
             Body(g, s) == IF Halted(adjacency, s) THEN s.order ELSE g[After(adjacency, s)]
             F == [s \in S |-> [g \in [S -> V] |-> Body(g, s)]]
             W(walk) ==
                [s \in Walks(adjacency) |->
                    IF s.stack = <<>>
                    THEN LET unseen == DOMAIN adjacency \ s.visited
                         IN IF unseen = {} THEN s.order ELSE walk[Entered(s, <<>>, Min(unseen))]
                    ELSE LET node == Last(s.stack)[1]  next == Last(s.stack)[2]
                             stay == Append(Front(s.stack), <<node, next + 1>>)
                         IN IF next > Len(adjacency[node])
                            THEN walk[[stack |-> Front(s.stack), visited |-> s.visited, order |-> Append(s.order, node)]]
                            ELSE IF adjacency[node][next] \in s.visited
                            THEN walk[[s EXCEPT !.stack = stay]]
                            ELSE walk[Entered(s, stay, adjacency[node][next])]]
             walk == CHOOSE walk : walk = W(walk)
  <1>1. FinishOrder(adjacency) = walk[[stack |-> <<>>, visited |-> {}, order |-> <<>>]]
    BY DEF FinishOrder, Entered
  <1>2. \A g : W(g) = [s \in S |-> Body(g, s)]
    <2>1. \A g : \A s \in S : W(g)[s] = Body(g, s)
      BY DEF Halted, After
    <2> QED BY <2>1
  <1>3. Descends(R, S)
    BY WalkDescends
  <1>4. \A s \in S : s.order \in V /\ (~Halted(adjacency, s) => After(adjacency, s) \in S /\ <<After(adjacency, s), s>> \in R)
    <2>1. \A s \in S : s.order \in V
      BY DEF Walks
    <2> QED BY <2>1, WalkStep
  <1>5. F \in [S -> [[S -> V] -> V]]
    <2> HIDE DEF S, V, R
    <2> QED BY <1>4
  <1>6. AsksBelow(F, R, S, V)
    <2> HIDE DEF S, V, R
    <2> QED BY <1>4 DEF AsksBelow
  <1>7. PICK f \in [S -> V] : \A s \in S : f[s] = F[s][f]
    <2>1. <<>> \in V
      OBVIOUS
    <2> HIDE DEF S, V, R, F
    <2>2. Recursive(F, R, S, V)
      BY <1>3, <1>5, <1>6, <2>1 DEF Recursive
    <2>3. Solvable(F, S, V)
      BY <2>2, Recursion
    <2> QED BY <2>3 DEF Solvable
  <1>8. f = W(f)
    <2>1. \A s \in S : f[s] = Body(f, s)
      <3> HIDE DEF S, V
      <3> QED BY <1>7
    <2> HIDE DEF S, V, R, F, W, Body
    <2> QED BY <1>2, <1>7, <2>1
  <1>9. walk = W(walk)
    <2> HIDE DEF W
    <2> QED BY <1>8
  <1> HIDE DEF walk, W
  <1>10. \A s \in S : walk[s] = Body(walk, s)
    <2> HIDE DEF S, Body
    <2> QED BY <1>2, <1>9
  <1> QED BY <1>1, <1>10

\* A walk leaves every node once it has seen all, and none that is no node.
LEMMA FinishOrderCovers ==
    ASSUME NEW n \in Nat, NEW adjacency \in [1..n -> Seq(1..n)]
    PROVE  FinishOrder(adjacency) \in Seq(1..n) /\ ToSet(FinishOrder(adjacency)) = 1..n
  <1> DEFINE S == Walks(adjacency)
             start == [stack |-> <<>>, visited |-> {}, order |-> <<>>]
  <1>1. PICK walk :
              /\ FinishOrder(adjacency) = walk[start]
              /\ \A s \in S : walk[s] = IF Halted(adjacency, s) THEN s.order ELSE walk[After(adjacency, s)]
    BY WalkUnfold
  <1> DEFINE T == {s \in S : Covers(s) /\ ~(walk[s] \in Seq(1..n) /\ 1..n \subseteq ToSet(walk[s]))}
  <1>2. T = {}
    <2>1. SUFFICES ASSUME T # {} PROVE FALSE
      OBVIOUS
    <2>2. PICK x \in T : \A y \in T : <<y, x>> \notin WalkOrder(adjacency)
      <3>1. T \in SUBSET S
        OBVIOUS
      <3> HIDE DEF T
      <3> QED BY <2>1, <3>1, WalkDescends DEF Descends
    <2>3. x \in S /\ Covers(x) /\ ~(walk[x] \in Seq(1..n) /\ 1..n \subseteq ToSet(walk[x]))
      OBVIOUS
    <2>4. CASE Halted(adjacency, x)
      <3>1. walk[x] = x.order /\ x.order \in Seq(1..n) /\ 1..n \subseteq x.visited /\ x.stack = <<>>
        BY <1>1, <2>3, <2>4 DEF Halted, Walks
      <3>2. OnStack(x.stack) = {}
        BY <3>1 DEF OnStack
      <3> QED BY <2>3, <3>1, <3>2 DEF Covers
    <2>5. CASE ~Halted(adjacency, x)
      <3>1. After(adjacency, x) \in S /\ <<After(adjacency, x), x>> \in WalkOrder(adjacency) /\ Covers(After(adjacency, x))
        BY <2>3, <2>5, WalkStep
      <3>2. walk[x] = walk[After(adjacency, x)]
        BY <1>1, <2>3, <2>5
      <3>3. After(adjacency, x) \notin T
        BY <2>2, <3>1
      <3> QED BY <2>3, <3>1, <3>2, <3>3
    <2> QED BY <2>4, <2>5
  <1>3. start \in S /\ Covers(start)
    BY DEF Walks, Covers, OnStack, ToSet
  <1>4. walk[start] \in Seq(1..n) /\ 1..n \subseteq ToSet(walk[start])
    <2> HIDE DEF start
    <2> QED BY <1>2, <1>3
  <1>5. ToSet(walk[start]) \subseteq 1..n
    <2> HIDE DEF start
    <2> QED BY <1>4, ElementOfSeq, LenProperties DEF ToSet
  <1> QED BY <1>1, <1>4, <1>5

\* A recursion by a number has a solution.
LEMMA RankedRecursion ==
    ASSUME NEW S, NEW V, NEW rank \in [S -> Nat], NEW F, F \in [S -> [[S -> V] -> V]],
           AsksBelow(F, ByRank(S, rank), S, V), V # {}
    PROVE  Solvable(F, S, V)
  <1>1. Recursive(F, ByRank(S, rank), S, V)
    BY ByRankDescends DEF Recursive
  <1> QED BY <1>1, Recursion

\* What is left of a finite set shrinks as more is taken.
LEMMA LeftShrinks ==
    ASSUME NEW D, IsFiniteSet(D), NEW A \in SUBSET D, NEW B \in SUBSET D, A \subseteq B, A # B
    PROVE  /\ Cardinality(D \ A) \in Nat /\ Cardinality(D \ B) \in Nat
           /\ Cardinality(D \ B) < Cardinality(D \ A)
  <1>1. IsFiniteSet(D \ A) /\ IsFiniteSet(D \ B)
    BY FS_Difference
  <1>2. Cardinality(D \ A) \in Nat /\ Cardinality(D \ B) \in Nat
    BY <1>1, FS_CardinalityType
  <1>3. (D \ B) \in SUBSET (D \ A) /\ (D \ B) # (D \ A)
    OBVIOUS
  <1>4. Cardinality(D \ B) <= Cardinality(D \ A) /\ Cardinality(D \ A) # Cardinality(D \ B)
    BY <1>1, <1>3, FS_Subset
  <1> QED BY <1>2, <1>4

-------------------------------------------------------------------------------
(* Strongly connected components *)

\* What enters S and is still free.
Entering(adjacency, free, S) ==
    ({m \in DOMAIN adjacency : \E i \in DOMAIN adjacency[m] : adjacency[m][i] \in S} \cap free) \ S

Gathers(gather, adjacency, free) ==
    \A S \in SUBSET free :
        gather[S] = IF Entering(adjacency, free, S) = {} THEN S ELSE gather[S \cup Entering(adjacency, free, S)]

\* The recursion of Gathered.
LEMMA GatherUnfold ==
    ASSUME NEW n \in Nat, NEW adjacency, NEW free \in SUBSET (1..n), NEW root
    PROVE  \E gather : Gathered(adjacency, root, free) = gather[{root}] /\ Gathers(gather, adjacency, free)
  <1> DEFINE Q == SUBSET free
             rank == [S \in Q |-> Cardinality(free \ S)]
             Body(g, S) == IF Entering(adjacency, free, S) = {} THEN S
                           ELSE g[S \cup Entering(adjacency, free, S)]
             F == [S \in Q |-> [g \in [Q -> Q] |-> Body(g, S)]]
             W(gather) ==
                [S \in SUBSET free |->
                    LET more == ({m \in DOMAIN adjacency : \E i \in DOMAIN adjacency[m] : adjacency[m][i] \in S}
                                 \cap free) \ S
                    IN IF more = {} THEN S ELSE gather[S \cup more]]
             gather == CHOOSE gather : gather = W(gather)
  <1>1. Gathered(adjacency, root, free) = gather[{root}]
    BY DEF Gathered
  <1>2. \A g : W(g) = [S \in Q |-> Body(g, S)]
    BY DEF Entering
  <1>3. IsFiniteSet(free)
    <2>1. IsFiniteSet(1..n)
      BY FS_Interval
    <2> QED BY <2>1, FS_Subset
  <1>4. rank \in [Q -> Nat]
    <2>1. \A S \in Q : Cardinality(free \ S) \in Nat
      BY <1>3, FS_Difference, FS_CardinalityType
    <2> HIDE DEF Q
    <2> QED BY <2>1
  <1>5. \A S \in Q : S \cup Entering(adjacency, free, S) \in Q
    BY DEF Entering
  <1>6. \A S \in Q : Entering(adjacency, free, S) # {} => <<S \cup Entering(adjacency, free, S), S>> \in ByRank(Q, rank)
    <2>1. SUFFICES ASSUME NEW S \in Q, Entering(adjacency, free, S) # {}
                   PROVE  <<S \cup Entering(adjacency, free, S), S>> \in ByRank(Q, rank)
      OBVIOUS
    <2>2. PICK T \in Q : T = S \cup Entering(adjacency, free, S)
      BY <1>5
    <2>3. S \subseteq T /\ S # T
      BY <2>1, <2>2 DEF Entering
    <2>4. rank[T] < rank[S]
      BY <1>3, <2>3, LeftShrinks
    <2> HIDE DEF Q, rank
    <2> QED BY <2>2, <2>4 DEF ByRank
  <1>7. F \in [Q -> [[Q -> Q] -> Q]]
    <2> HIDE DEF Q
    <2> QED BY <1>5
  <1>8. AsksBelow(F, ByRank(Q, rank), Q, Q)
    <2> HIDE DEF Q, rank
    <2> QED BY <1>5, <1>6 DEF AsksBelow
  <1>9. PICK f \in [Q -> Q] : \A S \in Q : f[S] = F[S][f]
    <2>1. Q # {}
      OBVIOUS
    <2> HIDE DEF Q, rank, F
    <2>2. Solvable(F, Q, Q)
      BY <1>4, <1>7, <1>8, <2>1, RankedRecursion
    <2> QED BY <2>2 DEF Solvable
  <1>10. f = W(f)
    <2>1. \A S \in Q : f[S] = Body(f, S)
      <3> HIDE DEF Q
      <3> QED BY <1>9
    <2> HIDE DEF Q, rank, F, W, Body
    <2> QED BY <1>2, <1>9, <2>1
  <1>11. gather = W(gather)
    <2> HIDE DEF W
    <2> QED BY <1>10
  <1> HIDE DEF gather, W
  <1>12. \A S \in Q : gather[S] = Body(gather, S)
    <2> HIDE DEF Q, Body
    <2> QED BY <1>2, <1>11
  <1> QED BY <1>1, <1>12 DEF Gathers

\* What is gathered holds the root and every free node that leads into it.
LEMMA GatheredFacts ==
    ASSUME NEW n \in Nat, NEW adjacency, NEW free \in SUBSET (1..n), NEW root \in free
    PROVE  LET G == Gathered(adjacency, root, free)
           IN root \in G /\ G \subseteq free /\ Entering(adjacency, free, G) = {}
  <1>1. PICK gather : Gathered(adjacency, root, free) = gather[{root}] /\ Gathers(gather, adjacency, free)
    BY GatherUnfold
  <1> DEFINE Q == SUBSET free
             rank == [S \in Q |-> Cardinality(free \ S)]
             Good(S) == S \subseteq gather[S] /\ gather[S] \subseteq free /\ Entering(adjacency, free, gather[S]) = {}
             T == {S \in Q : ~Good(S)}
  <1>2. IsFiniteSet(free)
    <2>1. IsFiniteSet(1..n)
      BY FS_Interval
    <2> QED BY <2>1, FS_Subset
  <1>3. rank \in [Q -> Nat]
    <2>1. \A S \in Q : Cardinality(free \ S) \in Nat
      BY <1>2, FS_Difference, FS_CardinalityType
    <2> HIDE DEF Q
    <2> QED BY <2>1
  <1>4. T = {}
    <2>1. SUFFICES ASSUME T # {} PROVE FALSE
      OBVIOUS
    <2>2. PICK S \in T : \A U \in T : rank[S] <= rank[U]
      <3>1. T \in SUBSET Q
        OBVIOUS
      <3> HIDE DEF T, rank, Q
      <3> QED BY <1>3, <2>1, <3>1, LeastRank
    <2>3. S \in Q /\ ~Good(S)
      OBVIOUS
    <2>4. CASE Entering(adjacency, free, S) = {}
      BY <1>1, <2>3, <2>4 DEF Gathers
    <2>5. CASE Entering(adjacency, free, S) # {}
      <3>1. PICK U \in Q : U = S \cup Entering(adjacency, free, S)
        BY <2>3 DEF Entering
      <3>2. S \subseteq U /\ S # U
        BY <2>5, <3>1 DEF Entering
      <3>3. rank[U] < rank[S]
        BY <1>2, <2>3, <3>2, LeftShrinks
      <3>4. rank[U] \in Nat /\ rank[S] \in Nat
        BY <1>3, <2>3
      <3>5. ~(rank[S] <= rank[U])
        BY <3>3, <3>4
      <3>6. Good(U)
        BY <2>2, <3>5
      <3>7. gather[S] = gather[U]
        BY <1>1, <2>3, <2>5, <3>1 DEF Gathers
      <3> QED BY <2>3, <3>2, <3>6, <3>7
    <2> QED BY <2>4, <2>5
  <1>5. {root} \in Q
    OBVIOUS
  <1>6. Good({root})
    BY <1>4, <1>5
  <1> QED BY <1>1, <1>6

Cells(n) == [order : Seq(1..n), free : SUBSET (1..n)]
Passed(s) == [order |-> Tail(s.order), free |-> s.free]
Component(adjacency, s) == Gathered(adjacency, Head(s.order), s.free)
Assigned(adjacency, s) == [order |-> Tail(s.order), free |-> s.free \ Component(adjacency, s)]
Collects(collect, adjacency, n) ==
    \A s \in Cells(n) :
        collect[s] = IF s.order = <<>> THEN {}
                     ELSE IF Head(s.order) \notin s.free THEN collect[Passed(s)]
                     ELSE {Component(adjacency, s)} \cup collect[Assigned(adjacency, s)]

\* A step of the second pass.
LEMMA CellFacts ==
    ASSUME NEW n \in Nat, NEW adjacency, NEW s \in Cells(n), s.order # <<>>
    PROVE  /\ Passed(s) \in Cells(n) /\ Assigned(adjacency, s) \in Cells(n)
           /\ Len(s.order) \in Nat \ {0}
           /\ Len(Passed(s).order) = Len(s.order) - 1
           /\ Len(Assigned(adjacency, s).order) = Len(s.order) - 1
           /\ ToSet(s.order) = {Head(s.order)} \cup ToSet(Tail(s.order))
  <1>1. s.order \in Seq(1..n) /\ s.free \in SUBSET (1..n)
    BY DEF Cells
  <1>2. /\ Head(s.order) \in 1..n /\ Tail(s.order) \in Seq(1..n)
        /\ Len(s.order) \in Nat \ {0} /\ Len(Tail(s.order)) = Len(s.order) - 1
        /\ ToSet(s.order) = {Head(s.order)} \cup ToSet(Tail(s.order))
    BY <1>1, HeadAndTail
  <1> QED BY <1>1, <1>2 DEF Cells, Passed, Assigned

LEMMA CollectUnfold ==
    ASSUME NEW n \in Nat, NEW adjacency, DOMAIN adjacency = 1..n
    PROVE  \E collect :
              /\ StronglyConnectedComponents(adjacency) =
                    collect[[order |-> Reverse(FinishOrder(adjacency)), free |-> 1..n]]
              /\ Collects(collect, adjacency, n)
  <1> DEFINE Q == Cells(n)
             V == SUBSET (SUBSET (1..n))
             rank == [s \in Q |-> Len(s.order)]
             Body(g, s) ==
                IF s.order = <<>> THEN {}
                ELSE IF Head(s.order) \notin s.free THEN g[Passed(s)]
                ELSE {Component(adjacency, s)} \cup g[Assigned(adjacency, s)]
             F == [s \in Q |-> [g \in [Q -> V] |-> Body(g, s)]]
             W(collect) ==
                [s \in [order : Seq(DOMAIN adjacency), free : SUBSET DOMAIN adjacency] |->
                    LET rest == Tail(s.order)
                        component == Gathered(adjacency, Head(s.order), s.free)
                    IN IF s.order = <<>> THEN {}
                       ELSE IF Head(s.order) \notin s.free THEN collect[[order |-> rest, free |-> s.free]]
                       ELSE {component} \cup collect[[order |-> rest, free |-> s.free \ component]]]
             collect == CHOOSE collect : collect = W(collect)
  <1>1. StronglyConnectedComponents(adjacency) =
            collect[[order |-> Reverse(FinishOrder(adjacency)), free |-> DOMAIN adjacency]]
    BY DEF StronglyConnectedComponents
  <1>2. \A g : W(g) = [s \in Q |-> Body(g, s)]
    BY DEF Cells, Passed, Component, Assigned
  <1>3. rank \in [Q -> Nat]
    <2>1. \A s \in Q : Len(s.order) \in Nat
      BY LenProperties DEF Cells
    <2> HIDE DEF Q
    <2> QED BY <2>1
  <1>4. ASSUME NEW s \in Q, s.order # <<>>
        PROVE  /\ Passed(s) \in Q /\ <<Passed(s), s>> \in ByRank(Q, rank)
               /\ Assigned(adjacency, s) \in Q /\ <<Assigned(adjacency, s), s>> \in ByRank(Q, rank)
    <2>1. /\ Passed(s) \in Q /\ Assigned(adjacency, s) \in Q /\ Len(s.order) \in Nat
          /\ Len(Passed(s).order) = Len(s.order) - 1 /\ Len(Assigned(adjacency, s).order) = Len(s.order) - 1
      BY <1>4, CellFacts
    <2>2. rank[Passed(s)] < rank[s] /\ rank[Assigned(adjacency, s)] < rank[s]
      <3> HIDE DEF Q
      <3> QED BY <2>1
    <2> HIDE DEF Q, rank
    <2> QED BY <2>1, <2>2 DEF ByRank
  <1>5. ASSUME NEW s \in Q, s.order # <<>>, Head(s.order) \in s.free
        PROVE  Component(adjacency, s) \in SUBSET (1..n)
    <2>1. s.free \in SUBSET (1..n)
      BY DEF Cells
    <2>2. Gathered(adjacency, Head(s.order), s.free) \subseteq s.free
      BY <1>5, <2>1, GatheredFacts
    <2> QED BY <2>1, <2>2 DEF Component
  <1>6. F \in [Q -> [[Q -> V] -> V]]
    <2>1. ASSUME NEW s \in Q, NEW g \in [Q -> V] PROVE Body(g, s) \in V
      <3>1. CASE s.order = <<>>
        BY <3>1
      <3>2. CASE s.order # <<>> /\ Head(s.order) \notin s.free
        <4>1. g[Passed(s)] \in V
          <5> HIDE DEF Q, V
          <5> QED BY <1>4, <3>2
        <4> QED BY <3>2, <4>1
      <3>3. CASE s.order # <<>> /\ Head(s.order) \in s.free
        <4>1. g[Assigned(adjacency, s)] \in V
          <5> HIDE DEF Q, V
          <5> QED BY <1>4, <3>3
        <4> QED BY <1>5, <3>3, <4>1
      <3> QED BY <3>1, <3>2, <3>3
    <2> HIDE DEF Q, V, Body
    <2> QED BY <2>1
  <1>7. AsksBelow(F, ByRank(Q, rank), Q, V)
    <2>1. ASSUME NEW s \in Q, NEW g \in [Q -> V], NEW h \in [Q -> V],
                 \A t \in Q : <<t, s>> \in ByRank(Q, rank) => g[t] = h[t]
          PROVE  Body(g, s) = Body(h, s)
      <3>1. s.order # <<>> => g[Passed(s)] = h[Passed(s)] /\ g[Assigned(adjacency, s)] = h[Assigned(adjacency, s)]
        <4> HIDE DEF Q, V, rank
        <4> QED BY <1>4, <2>1
      <3> QED BY <3>1
    <2> HIDE DEF Q, V, rank, Body
    <2> QED BY <2>1 DEF AsksBelow
  <1>8. PICK f \in [Q -> V] : \A s \in Q : f[s] = F[s][f]
    <2>1. V # {}
      OBVIOUS
    <2> HIDE DEF Q, V, rank, F
    <2>2. Solvable(F, Q, V)
      BY <1>3, <1>6, <1>7, <2>1, RankedRecursion
    <2> QED BY <2>2 DEF Solvable
  <1>9. f = W(f)
    <2>1. \A s \in Q : f[s] = Body(f, s)
      <3> HIDE DEF Q, V, Body
      <3> QED BY <1>8
    <2> HIDE DEF Q, V, rank, F, W, Body
    <2> QED BY <1>2, <1>8, <2>1
  <1>10. collect = W(collect)
    <2> HIDE DEF W
    <2> QED BY <1>9
  <1> HIDE DEF collect, W
  <1>11. \A s \in Q : collect[s] = Body(collect, s)
    <2> HIDE DEF Q, Body
    <2> QED BY <1>2, <1>10
  <1> QED BY <1>1, <1>11 DEF Collects

\* The nodes of a graph lie on levels: those of one level are one of the components, and
\* no edge leads up.
Levelled(adjacency, free, components, r) ==
    /\ r \in [free -> Nat]
    /\ \A x \in free : {y \in free : r[y] = r[x]} \in components
    /\ \A u \in free : \A i \in DOMAIN adjacency[u] : adjacency[u][i] \in free => r[adjacency[u][i]] <= r[u]

LEMMA LevelAbove ==
    ASSUME NEW adjacency, NEW free, free \subseteq DOMAIN adjacency,
           NEW C \in SUBSET free, Entering(adjacency, free, C) = {},
           NEW K, NEW m \in Nat, NEW r, Levelled(adjacency, free \ C, K, r), \A x \in free \ C : r[x] <= m
    PROVE  \E q : Levelled(adjacency, free, {C} \cup K, q) /\ \A x \in free : q[x] <= m + 1
  <1> DEFINE q == [x \in free |-> IF x \in C THEN m + 1 ELSE r[x]]
  <1>1. r \in [free \ C -> Nat]
    BY DEF Levelled
  <1>2. q \in [free -> Nat] /\ \A x \in free : q[x] <= m + 1
    BY <1>1
  <1>3. ASSUME NEW x \in C PROVE {y \in free : q[y] = q[x]} = C
    <2>1. \A y \in free : (q[y] = m + 1) <=> (y \in C)
      BY <1>1
    <2>2. q[x] = m + 1
      OBVIOUS
    <2> HIDE DEF q
    <2> QED BY <2>1, <2>2
  <1>4. ASSUME NEW x \in free \ C PROVE {y \in free : q[y] = q[x]} \in K
    <2>1. q[x] = r[x] /\ r[x] # m + 1
      BY <1>1
    <2>2. \A y \in free : (q[y] = r[x]) <=> (y \in free \ C /\ r[y] = r[x])
      BY <2>1
    <2>3. {y \in free : q[y] = q[x]} = {y \in free \ C : r[y] = r[x]}
      <3> HIDE DEF q
      <3> QED BY <2>1, <2>2
    <2> QED BY <2>3 DEF Levelled
  <1>5. ASSUME NEW u \in free, NEW i \in DOMAIN adjacency[u], adjacency[u][i] \in free
        PROVE  q[adjacency[u][i]] <= q[u]
    <2>1. CASE u \in C
      <3>1. q[u] = m + 1
        BY <2>1
      <3> HIDE DEF q
      <3> QED BY <1>2, <1>5, <3>1
    <2>2. CASE u \notin C
      <3>1. adjacency[u][i] \notin C
        BY <1>5, <2>2 DEF Entering
      <3>2. r[adjacency[u][i]] <= r[u]
        BY <1>5, <2>2, <3>1 DEF Levelled
      <3> QED BY <1>5, <2>2, <3>1, <3>2
    <2> QED BY <2>1, <2>2
  <1>6. Levelled(adjacency, free, {C} \cup K, q)
    <2>1. \A x \in free : {y \in free : q[y] = q[x]} \in {C} \cup K
      <3> HIDE DEF q
      <3> QED BY <1>3, <1>4
    <2> HIDE DEF q
    <2> QED BY <1>2, <1>5, <2>1 DEF Levelled
  <1> HIDE DEF q
  <1> QED BY <1>2, <1>6

Placed(adjacency, s, components) ==
    \E r : Levelled(adjacency, s.free, components, r) /\ \A x \in s.free : r[x] <= Len(s.order)

LEMMA CollectedIsLevelled ==
    ASSUME NEW n \in Nat, NEW adjacency, DOMAIN adjacency = 1..n, NEW collect, Collects(collect, adjacency, n),
           NEW s0 \in Cells(n), s0.free \subseteq ToSet(s0.order)
    PROVE  Placed(adjacency, s0, collect[s0])
  <1> DEFINE Q == Cells(n)
             rank == [s \in Q |-> Len(s.order)]
             T == {s \in Q : s.free \subseteq ToSet(s.order) /\ ~Placed(adjacency, s, collect[s])}
  <1>1. rank \in [Q -> Nat]
    <2>1. \A s \in Q : Len(s.order) \in Nat
      BY LenProperties DEF Cells
    <2> HIDE DEF Q
    <2> QED BY <2>1
  <1>2. T = {}
    <2>1. SUFFICES ASSUME T # {} PROVE FALSE
      OBVIOUS
    <2>2. PICK s \in T : \A t \in T : rank[s] <= rank[t]
      <3>1. T \in SUBSET Q
        OBVIOUS
      <3> HIDE DEF T, rank, Q
      <3> QED BY <1>1, <2>1, <3>1, LeastRank
    <2>3. s \in Q /\ s.free \subseteq ToSet(s.order) /\ ~Placed(adjacency, s, collect[s])
          /\ s.free \in SUBSET (1..n) /\ Len(s.order) \in Nat
      BY LenProperties DEF Cells
    <2>4. ASSUME NEW t \in Q, Len(t.order) = Len(s.order) - 1, t.free \subseteq ToSet(t.order)
          PROVE  Placed(adjacency, t, collect[t])
      <3>1. rank[t] = Len(s.order) - 1 /\ rank[s] = Len(s.order)
        BY <2>3, <2>4
      <3>2. ~(rank[s] <= rank[t])
        BY <2>3, <3>1
      <3>3. t \notin T
        BY <2>2, <3>2
      <3> QED BY <2>4, <3>3
    <2>5. CASE s.order = <<>>
      <3>1. s.free = {}
        BY <2>3, <2>5 DEF ToSet
      <3>2. Levelled(adjacency, s.free, collect[s], [x \in {} |-> 0])
        BY <3>1 DEF Levelled
      <3> QED BY <2>3, <3>1, <3>2 DEF Placed
    <2>6. CASE s.order # <<>> /\ Head(s.order) \notin s.free
      <3> DEFINE t == Passed(s)
      <3>1. t \in Q /\ Len(t.order) = Len(s.order) - 1 /\ ToSet(s.order) = {Head(s.order)} \cup ToSet(Tail(s.order))
            /\ t.free = s.free /\ t.order = Tail(s.order)
        BY <2>3, <2>6, CellFacts DEF Passed
      <3>2. Placed(adjacency, t, collect[t])
        BY <2>3, <2>4, <2>6, <3>1
      <3>3. collect[s] = collect[t]
        BY <2>3, <2>6 DEF Collects
      <3>4. PICK r : Levelled(adjacency, s.free, collect[s], r) /\ \A x \in s.free : r[x] <= Len(s.order) - 1
        BY <3>1, <3>2, <3>3 DEF Placed
      <3>5. \A x \in s.free : r[x] <= Len(s.order)
        BY <2>3, <3>4 DEF Levelled
      <3> QED BY <2>3, <3>4, <3>5 DEF Placed
    <2>7. CASE s.order # <<>> /\ Head(s.order) \in s.free
      <3> DEFINE t == Assigned(adjacency, s)
                 C == Component(adjacency, s)
      <3>1. t \in Q /\ Len(t.order) = Len(s.order) - 1 /\ ToSet(s.order) = {Head(s.order)} \cup ToSet(Tail(s.order))
            /\ t.free = s.free \ C /\ t.order = Tail(s.order)
        BY <2>3, <2>7, CellFacts DEF Assigned
      <3>2. Head(s.order) \in C /\ C \in SUBSET s.free /\ Entering(adjacency, s.free, C) = {}
        BY <2>3, <2>7, GatheredFacts DEF Component
      <3>3. Placed(adjacency, t, collect[t])
        BY <2>3, <2>4, <3>1, <3>2
      <3>4. collect[s] = {C} \cup collect[t]
        BY <2>3, <2>7 DEF Collects
      <3>5. PICK m \in Nat : m = Len(s.order) - 1 /\ m + 1 = Len(s.order)
        <4>1. Len(s.order) # 0
          BY <2>3, <2>7, EmptySeq DEF Cells
        <4>2. Len(s.order) - 1 \in Nat /\ (Len(s.order) - 1) + 1 = Len(s.order)
          BY <2>3, <4>1
        <4> QED BY <4>2
      <3> HIDE DEF t, C
      <3>6. PICK r : Levelled(adjacency, s.free \ C, collect[t], r) /\ \A x \in s.free \ C : r[x] <= m
        BY <3>1, <3>3, <3>5 DEF Placed
      <3>7. \E q : Levelled(adjacency, s.free, {C} \cup collect[t], q) /\ \A x \in s.free : q[x] <= m + 1
        BY <2>3, <3>2, <3>6, LevelAbove
      <3> QED BY <2>3, <3>4, <3>5, <3>7 DEF Placed
    <2> QED BY <2>5, <2>6, <2>7
  <1> HIDE DEF rank
  <1> QED BY <1>2

\* What a sequence holds does not depend on its direction.
LEMMA ReverseFacts ==
    ASSUME NEW S, NEW s \in Seq(S)
    PROVE  Reverse(s) \in Seq(S) /\ ToSet(s) \subseteq ToSet(Reverse(s))
  <1>1. Len(s) \in Nat /\ DOMAIN s = 1..Len(s)
    BY LenProperties
  <1>2. \A i \in 1..Len(s) : (Len(s) - i) + 1 \in 1..Len(s) /\ (Len(s) - ((Len(s) - i) + 1)) + 1 = i
    BY <1>1
  <1>3. \A i \in 1..Len(s) : s[(Len(s) - i) + 1] \in S
    BY <1>2, ElementOfSeq
  <1> DEFINE q == [i \in 1..Len(s) |-> s[(Len(s) - i) + 1]]
  <1>4. q \in Seq(S)
    BY <1>1, <1>3, IsASeq
  <1>5. DOMAIN q = 1..Len(s)
    OBVIOUS
  <1>6. \A i \in 1..Len(s) : s[i] = q[(Len(s) - i) + 1]
    BY <1>2
  <1>7. ToSet(s) \subseteq ToSet(q)
    <2> HIDE DEF q
    <2> QED BY <1>1, <1>2, <1>5, <1>6 DEF ToSet
  <1> QED BY <1>4, <1>7 DEF Reverse

\* The components of a graph are its levels.
LEMMA ComponentsAreLevels ==
    ASSUME NEW n \in Nat, NEW adjacency \in [1..n -> Seq(1..n)]
    PROVE  \E r : Levelled(adjacency, 1..n, StronglyConnectedComponents(adjacency), r)
  <1>0. DOMAIN adjacency = 1..n
    OBVIOUS
  <1> DEFINE start == [order |-> Reverse(FinishOrder(adjacency)), free |-> 1..n]
  <1>1. PICK collect : StronglyConnectedComponents(adjacency) = collect[start] /\ Collects(collect, adjacency, n)
    BY <1>0, CollectUnfold
  <1>2. start \in Cells(n) /\ start.free = 1..n /\ start.free \subseteq ToSet(start.order)
    <2>1. FinishOrder(adjacency) \in Seq(1..n) /\ ToSet(FinishOrder(adjacency)) = 1..n
      BY FinishOrderCovers
    <2>2. /\ Reverse(FinishOrder(adjacency)) \in Seq(1..n)
          /\ ToSet(FinishOrder(adjacency)) \subseteq ToSet(Reverse(FinishOrder(adjacency)))
      BY <2>1, ReverseFacts
    <2> QED BY <2>1, <2>2 DEF Cells
  <1> HIDE DEF start
  <1>3. Placed(adjacency, start, collect[start])
    BY <1>0, <1>1, <1>2, CollectedIsLevelled
  <1> QED BY <1>1, <1>2, <1>3 DEF Placed

-------------------------------------------------------------------------------
(* Cycles *)

\* Where every place of a finite set can be left, some can be entered for ever.
LEMMA CycleTurns ==
    ASSUME NEW T, IsFiniteSet(T), T # {}, NEW R, \A x \in T : \E y \in T : <<x, y>> \in R
    PROVE  \E U \in SUBSET T : U # {} /\ \A y \in U : \E x \in U : <<x, y>> \in R
  <1> DEFINE Q == SUBSET T
             rank == [U \in Q |-> Cardinality(U)]
             Left == {U \in Q : U # {} /\ \A x \in U : \E y \in U : <<x, y>> \in R}
  <1>1. rank \in [Q -> Nat]
    <2>1. \A U \in Q : Cardinality(U) \in Nat
      BY FS_Subset, FS_CardinalityType
    <2> HIDE DEF Q
    <2> QED BY <2>1
  <1>2. PICK U \in Left : \A V \in Left : rank[U] <= rank[V]
    <2>1. Left \in SUBSET Q /\ T \in Left
      OBVIOUS
    <2> HIDE DEF Left, Q, rank
    <2> QED BY <1>1, <2>1, LeastRank
  <1>3. U \in Q /\ U # {} /\ \A x \in U : \E y \in U : <<x, y>> \in R
    OBVIOUS
  <1>4. ASSUME NEW y \in U, \A x \in U : <<x, y>> \notin R
        PROVE  FALSE
    <2>1. U \ {y} \in Q /\ U \ {y} # {} /\ \A x \in U \ {y} : \E z \in U \ {y} : <<x, z>> \in R
      <3>1. \A x \in U : \E z \in U \ {y} : <<x, z>> \in R
        BY <1>3, <1>4
      <3> QED BY <1>3, <3>1
    <2>2. U \ {y} \in Left
      BY <2>1
    <2>3. Cardinality(U \ {y}) = Cardinality(U) - 1 /\ Cardinality(U) \in Nat
      BY <1>3, FS_Subset, FS_RemoveElement, FS_CardinalityType
    <2>4. rank[U \ {y}] = rank[U] - 1 /\ rank[U] \in Nat
      BY <1>3, <2>1, <2>3
    <2>5. rank[U] <= rank[U \ {y}]
      <3> HIDE DEF Left, rank
      <3> QED BY <1>2, <2>2
    <2> HIDE DEF rank
    <2> QED BY <2>4, <2>5
  <1>5. \A y \in U : \E x \in U : <<x, y>> \in R
    BY <1>4
  <1> QED BY <1>3, <1>5

\* Every place of T can be left for another along R; the places as high as x.
GoesOn(T, R) == \A x \in T : \E y \in T : <<x, y>> \in R
OnLevel(T, r, x) == {y \in T : r[y] = r[x]}
NeverRises(D, r, R) == \A x, y \in D : <<x, y>> \in R => r[y] <= r[x]

\* A cycle along which the level never rises stays on one level.
LEMMA CycleOnLevel ==
    ASSUME NEW D, NEW r \in [D -> Nat], NEW T \in SUBSET D, T # {}, NEW R, GoesOn(T, R), NeverRises(D, r, R)
    PROVE  \E x \in T : GoesOn(OnLevel(T, r, x), R)
  <1>1. PICK x \in T : \A y \in T : r[x] <= r[y]
    BY LeastRank
  <1>2. ASSUME NEW u \in T, r[u] = r[x]
        PROVE  \E v \in T : r[v] = r[x] /\ <<u, v>> \in R
    <2>1. PICK v \in T : <<u, v>> \in R
      BY DEF GoesOn
    <2>2. r[v] <= r[x] /\ r[x] <= r[v] /\ r[x] \in Nat /\ r[v] \in Nat
      BY <1>1, <1>2, <2>1 DEF NeverRises
    <2>3. r[v] = r[x]
      BY <2>2
    <2> QED BY <2>1, <2>3
  <1> QED BY <1>2 DEF GoesOn, OnLevel

\* What has_cycle_without takes away at once.
Entrances(adjacency, S) == {n \in S : \A m \in S : \A i \in DOMAIN adjacency[m] : adjacency[m][i] # n}
Peels(peel, adjacency, component) ==
    \A S \in SUBSET component :
        peel[S] = IF Entrances(adjacency, S) = {} THEN S ELSE peel[S \ Entrances(adjacency, S)]

LEMMA PeelUnfold ==
    ASSUME NEW component, IsFiniteSet(component), NEW gate, NEW adjacency
    PROVE  \E peel : /\ HasCycleWithout(component, gate, adjacency) <=> peel[component \ {gate}] # {}
                     /\ Peels(peel, adjacency, component)
  <1> DEFINE Q == SUBSET component
             rank == [S \in Q |-> Cardinality(S)]
             Body(g, S) == IF Entrances(adjacency, S) = {} THEN S ELSE g[S \ Entrances(adjacency, S)]
             F == [S \in Q |-> [g \in [Q -> Q] |-> Body(g, S)]]
             W(peel) ==
                [S \in SUBSET component |->
                    LET free == {n \in S : \A m \in S : \A i \in DOMAIN adjacency[m] : adjacency[m][i] # n}
                    IN IF free = {} THEN S ELSE peel[S \ free]]
             peel == CHOOSE peel : peel = W(peel)
  <1>1. HasCycleWithout(component, gate, adjacency) <=> peel[component \ {gate}] # {}
    BY DEF HasCycleWithout
  <1>2. \A g : W(g) = [S \in Q |-> Body(g, S)]
    BY DEF Entrances
  <1>3. \A S \in Q : IsFiniteSet(S) /\ Cardinality(S) \in Nat
    BY FS_Subset, FS_CardinalityType
  <1>4. rank \in [Q -> Nat]
    <2> HIDE DEF Q
    <2> QED BY <1>3
  <1>5. ASSUME NEW S \in Q, Entrances(adjacency, S) # {}
        PROVE  S \ Entrances(adjacency, S) \in Q /\ <<S \ Entrances(adjacency, S), S>> \in ByRank(Q, rank)
    <2>1. PICK U \in Q : U = S \ Entrances(adjacency, S)
      OBVIOUS
    <2>2. U \in SUBSET S /\ U # S
      BY <1>5, <2>1 DEF Entrances
    <2>3. Cardinality(U) <= Cardinality(S) /\ Cardinality(U) # Cardinality(S)
      BY <1>3, <2>2, FS_Subset
    <2>4. rank[U] < rank[S]
      BY <1>3, <2>3
    <2> HIDE DEF Q, rank
    <2> QED BY <2>1, <2>4 DEF ByRank
  <1>6. F \in [Q -> [[Q -> Q] -> Q]]
    <2> HIDE DEF Q
    <2> QED BY <1>5
  <1>7. AsksBelow(F, ByRank(Q, rank), Q, Q)
    <2> HIDE DEF Q, rank
    <2> QED BY <1>5 DEF AsksBelow
  <1>8. PICK f \in [Q -> Q] : \A S \in Q : f[S] = F[S][f]
    <2>1. Q # {}
      OBVIOUS
    <2> HIDE DEF Q, rank, F
    <2>2. Solvable(F, Q, Q)
      BY <1>4, <1>6, <1>7, <2>1, RankedRecursion
    <2> QED BY <2>2 DEF Solvable
  <1>9. f = W(f)
    <2>1. \A S \in Q : f[S] = Body(f, S)
      <3> HIDE DEF Q
      <3> QED BY <1>8
    <2> HIDE DEF Q, rank, F, W, Body
    <2> QED BY <1>2, <1>8, <2>1
  <1>10. peel = W(peel)
    <2> HIDE DEF W
    <2> QED BY <1>9
  <1> HIDE DEF peel, W
  <1>11. \A S \in Q : peel[S] = Body(peel, S)
    <2> HIDE DEF Q, Body
    <2> QED BY <1>2, <1>10
  <1> QED BY <1>1, <1>11 DEF Peels

\* What can be entered for ever is never taken away.
LEMMA PeelKeepsCycles ==
    ASSUME NEW component, IsFiniteSet(component), NEW gate, NEW adjacency,
           NEW U \in SUBSET (component \ {gate}), U # {},
           \A y \in U : \E x \in U : \E i \in DOMAIN adjacency[x] : adjacency[x][i] = y
    PROVE  HasCycleWithout(component, gate, adjacency)
  <1>1. PICK peel : /\ HasCycleWithout(component, gate, adjacency) <=> peel[component \ {gate}] # {}
                    /\ Peels(peel, adjacency, component)
    BY PeelUnfold
  <1> DEFINE Q == SUBSET component
             rank == [S \in Q |-> Cardinality(S)]
             T == {S \in Q : U \subseteq S /\ peel[S] = {}}
  <1>2. \A S \in Q : IsFiniteSet(S) /\ Cardinality(S) \in Nat
    BY FS_Subset, FS_CardinalityType
  <1>3. rank \in [Q -> Nat]
    <2> HIDE DEF Q
    <2> QED BY <1>2
  <1>4. T = {}
    <2>1. SUFFICES ASSUME T # {} PROVE FALSE
      OBVIOUS
    <2>2. PICK S \in T : \A V \in T : rank[S] <= rank[V]
      <3>1. T \in SUBSET Q
        OBVIOUS
      <3> HIDE DEF T, Q, rank
      <3> QED BY <1>3, <2>1, <3>1, LeastRank
    <2>3. S \in Q /\ U \subseteq S /\ peel[S] = {}
      OBVIOUS
    <2>4. PICK V \in Q : V = S \ Entrances(adjacency, S)
      BY <2>3
    <2>5. U \subseteq V
      BY <2>3, <2>4 DEF Entrances
    <2>6. Entrances(adjacency, S) # {} /\ peel[V] = {}
      BY <1>1, <2>3, <2>4 DEF Peels
    <2>7. V \in SUBSET S /\ V # S
      BY <2>4, <2>6 DEF Entrances
    <2>8. Cardinality(V) <= Cardinality(S) /\ Cardinality(V) # Cardinality(S)
      BY <1>2, <2>3, <2>7, FS_Subset
    <2>9. V \in T /\ ~(rank[S] <= rank[V])
      BY <1>2, <2>3, <2>5, <2>6, <2>8
    <2> QED BY <2>2, <2>9
  <1>5. component \ {gate} \in Q
    OBVIOUS
  <1> QED BY <1>1, <1>4, <1>5

\* A set with two members has more than one.
LEMMA TwoAreMore ==
    ASSUME NEW S, IsFiniteSet(S), NEW x \in S, NEW y \in S, x # y
    PROVE  Cardinality(S) > 1
  <1>1. Cardinality(S) \in Nat /\ IsFiniteSet({x}) /\ Cardinality({x}) = 1
    BY FS_CardinalityType, FS_Singleton
  <1>2. {x} \in SUBSET S /\ S # {x}
    OBVIOUS
  <1>3. 1 <= Cardinality(S) /\ Cardinality(S) # 1
    BY <1>1, <1>2, FS_Subset
  <1> QED BY <1>1, <1>3

-------------------------------------------------------------------------------
(* The graphs of a workflow *)



LEMMA FlowFacts ==
    ASSUME NEW w, IsFlow(w)
    PROVE  /\ Len(w.nodes) \in Nat /\ DOMAIN w.nodes = 1..Len(w.nodes)
           /\ Len(w.edges) \in Nat /\ DOMAIN w.edges = 1..Len(w.edges)
  BY LenProperties DEF IsFlow

LEMMA PositionFacts ==
    ASSUME NEW w, IsFlow(w), NEW id, HasNode(w, id)
    PROVE  Position(w, id) \in 1..Len(w.nodes) /\ w.nodes[Position(w, id)].id = id
  <1> DEFINE I == {i \in 1..Len(w.nodes) : w.nodes[i].id = id}
  <1>1. I \in SUBSET Nat /\ I # {}
    BY FlowFacts DEF HasNode
  <1>2. Min(I) \in I
    <2> HIDE DEF I
    <2> QED BY <1>1, MinIsLeast
  <1>3. Position(w, id) = IF I # {} THEN Min(I) ELSE 0
    BY DEF Position, SelectInSeq
  <1> HIDE DEF I
  <1>4. Position(w, id) \in I
    BY <1>1, <1>2, <1>3
  <1> QED BY <1>4 DEF I

LEMMA JoinsFacts ==
    ASSUME NEW w, IsFlow(w), NEW e, Joins(w, e)
    PROVE  Position(w, e.source) \in 1..Len(w.nodes) /\ Position(w, e.target) \in 1..Len(w.nodes)
  BY PositionFacts DEF Joins

\* The recursion of Adjacency.
Follows(w, through, n, k) == Joins(w, w.edges[k]) /\ Position(w, w.edges[k].source) = n /\ w.edges[k] \in through
Lists(next, w, through, n) ==
    /\ next \in [0..Len(w.edges) -> Seq(1..Len(w.nodes))]
    /\ \A k \in 0..Len(w.edges) :
          next[k] = IF k = 0 THEN <<>>
                    ELSE IF Follows(w, through, n, k) THEN Append(next[k - 1], Position(w, w.edges[k].target))
                    ELSE next[k - 1]

LEMMA AdjacencyUnfold ==
    ASSUME NEW w, IsFlow(w), NEW through, NEW n \in 1..Len(w.nodes)
    PROVE  \E next : Adjacency(w, through)[n] = next[Len(w.edges)] /\ Lists(next, w, through, n)
  <1> DEFINE L == Len(w.edges)
             Q == 0..L
             V == Seq(1..Len(w.nodes))
             rank == [k \in Q |-> k]
             Body(g, k) ==
                IF k = 0 THEN <<>>
                ELSE IF Follows(w, through, n, k) THEN Append(g[k - 1], Position(w, w.edges[k].target))
                ELSE g[k - 1]
             F == [k \in Q |-> [g \in [Q -> V] |-> Body(g, k)]]
             W(next) ==
                [k \in 0..Len(w.edges) |->
                    IF k = 0 THEN <<>>
                    ELSE LET e == w.edges[k]
                         IN IF Joins(w, e) /\ Position(w, e.source) = n /\ e \in through
                            THEN Append(next[k - 1], Position(w, e.target)) ELSE next[k - 1]]
             next == CHOOSE next : next = W(next)
  <1>1. Adjacency(w, through)[n] = next[L]
    BY FlowFacts DEF Adjacency
  <1>2. \A g : W(g) = [k \in Q |-> Body(g, k)]
    BY DEF Follows
  <1>3. L \in Nat /\ rank \in [Q -> Nat]
    BY FlowFacts
  <1>4. ASSUME NEW k \in Q, k # 0
        PROVE  k - 1 \in Q /\ <<k - 1, k>> \in ByRank(Q, rank)
    <2>1. k - 1 \in Q /\ k - 1 < k
      BY <1>3, <1>4
    <2>2. rank[k - 1] < rank[k]
      <3> HIDE DEF Q
      <3> QED BY <2>1
    <2> HIDE DEF Q, rank
    <2> QED BY <2>1, <2>2 DEF ByRank
  <1>5. ASSUME NEW k \in Q, Follows(w, through, n, k)
        PROVE  Position(w, w.edges[k].target) \in 1..Len(w.nodes)
    BY <1>5, JoinsFacts DEF Follows
  <1>6. F \in [Q -> [[Q -> V] -> V]]
    <2>1. ASSUME NEW k \in Q, NEW g \in [Q -> V] PROVE Body(g, k) \in V
      <3>1. CASE k = 0
        BY <3>1
      <3>2. CASE k # 0
        <4>1. g[k - 1] \in V
          <5> HIDE DEF Q, V
          <5> QED BY <1>4, <3>2
        <4>2. Follows(w, through, n, k) => Append(g[k - 1], Position(w, w.edges[k].target)) \in V
          BY <1>5, <4>1, AppendProperties
        <4> HIDE DEF V, Q
        <4> QED BY <3>2, <4>1, <4>2
      <3> QED BY <3>1, <3>2
    <2> HIDE DEF Q, V, Body
    <2> QED BY <2>1
  <1>7. AsksBelow(F, ByRank(Q, rank), Q, V)
    <2>1. ASSUME NEW k \in Q, NEW g \in [Q -> V], NEW h \in [Q -> V],
                 \A t \in Q : <<t, k>> \in ByRank(Q, rank) => g[t] = h[t]
          PROVE  Body(g, k) = Body(h, k)
      <3>1. k # 0 => g[k - 1] = h[k - 1]
        <4> HIDE DEF Q, V, rank
        <4> QED BY <1>4, <2>1
      <3> QED BY <3>1
    <2> HIDE DEF Q, V, rank, Body
    <2> QED BY <2>1 DEF AsksBelow
  <1>8. PICK f \in [Q -> V] : \A k \in Q : f[k] = F[k][f]
    <2>1. <<>> \in V
      OBVIOUS
    <2> HIDE DEF Q, V, rank, F
    <2>2. Solvable(F, Q, V)
      BY <1>3, <1>6, <1>7, <2>1, RankedRecursion
    <2> QED BY <2>2 DEF Solvable
  <1>9. f = W(f)
    <2>1. \A k \in Q : f[k] = Body(f, k)
      <3> HIDE DEF Q, V, Body
      <3> QED BY <1>8
    <2> HIDE DEF Q, V, rank, F, W, Body
    <2> QED BY <1>2, <1>8, <2>1
  <1>10. next = W(next)
    <2> HIDE DEF W
    <2> QED BY <1>9
  <1> HIDE DEF next, W
  <1>11. next = [k \in Q |-> Body(next, k)]
    BY <1>2, <1>10
  <1>12. \A k \in Q : next[k] = Body(next, k)
    <2> HIDE DEF Q, Body
    <2> QED BY <1>11
  <1>13. next \in [Q -> V]
    <2> DEFINE T == {k \in Q : next[k] \notin V}
    <2>1. ASSUME NEW k \in T, \A m \in T : k <= m PROVE FALSE
      <3>1. k \in Q /\ next[k] \notin V
        OBVIOUS
      <3>2. CASE k = 0
        <4>1. next[0] = <<>> /\ next[0] \notin V
          BY <1>12, <3>1, <3>2
        <4> QED BY <4>1, EmptySeq
      <3>3. CASE k # 0
        <4>1. k - 1 \in Q /\ ~(k <= k - 1)
          BY <1>3, <1>4, <3>1, <3>3
        <4>2. next[k - 1] \in V
          BY <2>1, <4>1
        <4>3. Follows(w, through, n, k) => Append(next[k - 1], Position(w, w.edges[k].target)) \in V
          BY <1>5, <3>1, <4>2, AppendProperties
        <4>4. next[k] = Body(next, k)
          BY <1>12, <3>1
        <4> HIDE DEF V, Q, T
        <4> QED BY <3>1, <3>3, <4>2, <4>3, <4>4
      <3> QED BY <3>2, <3>3
    <2>2. T = {}
      <3>1. T \in SUBSET Nat
        BY <1>3
      <3> HIDE DEF T
      <3> QED BY <2>1, <3>1, Least
    <2> HIDE DEF Q, V, Body
    <2> QED BY <1>11, <2>2
  <1> QED BY <1>1, <1>12, <1>13 DEF Lists

\* The graph of a workflow has its nodes, and an edge for every edge that is asked for.
LEMMA AdjacencyFacts ==
    ASSUME NEW w, IsFlow(w), NEW through
    PROVE  /\ Adjacency(w, through) \in [1..Len(w.nodes) -> Seq(1..Len(w.nodes))]
           /\ \A e \in ToSet(w.edges) \cap through :
                 Joins(w, e) => Position(w, e.target) \in ToSet(Adjacency(w, through)[Position(w, e.source)])
  <1> DEFINE L == Len(w.edges)
  <1>1. L \in Nat /\ DOMAIN w.nodes = 1..Len(w.nodes) /\ DOMAIN w.edges = 1..L
    BY FlowFacts
  <1>2. DOMAIN Adjacency(w, through) = 1..Len(w.nodes)
    BY <1>1 DEF Adjacency
  <1>3. \A n \in 1..Len(w.nodes) : Adjacency(w, through)[n] \in Seq(1..Len(w.nodes))
    <2>1. TAKE n \in 1..Len(w.nodes)
    <2>2. PICK next : Adjacency(w, through)[n] = next[L] /\ Lists(next, w, through, n)
      BY AdjacencyUnfold
    <2>3. L \in 0..L
      BY <1>1
    <2> QED BY <2>2, <2>3 DEF Lists
  <1>4. Adjacency(w, through) \in [1..Len(w.nodes) -> Seq(1..Len(w.nodes))]
    <2>1. Adjacency(w, through) = [n \in 1..Len(w.nodes) |-> Adjacency(w, through)[n]]
      BY <1>1 DEF Adjacency
    <2> QED BY <1>3, <2>1
  <1>5. ASSUME NEW e \in ToSet(w.edges) \cap through, Joins(w, e)
        PROVE  Position(w, e.target) \in ToSet(Adjacency(w, through)[Position(w, e.source)])
    <2>1. PICK j \in 1..L : w.edges[j] = e
      BY <1>1 DEF ToSet
    <2> DEFINE n == Position(w, e.source)
               p == Position(w, e.target)
    <2>2. n \in 1..Len(w.nodes) /\ p \in 1..Len(w.nodes)
      BY <1>5, JoinsFacts
    <2>3. PICK next : Adjacency(w, through)[n] = next[L] /\ Lists(next, w, through, n)
      BY <2>2, AdjacencyUnfold
    <2>4. Follows(w, through, n, j)
      BY <1>5, <2>1 DEF Follows
    <2> DEFINE T == {k \in j..L : p \notin ToSet(next[k])}
    <2>5. ASSUME NEW k \in T, \A m \in T : k <= m PROVE FALSE
      <3>1. k \in j..L /\ p \notin ToSet(next[k])
        OBVIOUS
      <3>2. k \in 0..L /\ k - 1 \in 0..L /\ k # 0 /\ ~(k <= k - 1) /\ (k = j \/ k - 1 \in j..L)
        BY <1>1, <3>1
      <3>3. next[k - 1] \in Seq(1..Len(w.nodes))
        BY <2>3, <3>2 DEF Lists
      <3>4. next[k] = IF Follows(w, through, n, k) THEN Append(next[k - 1], Position(w, w.edges[k].target))
                      ELSE next[k - 1]
        BY <2>3, <3>2 DEF Lists
      <3>5. CASE k = j
        <4>1. next[k] = Append(next[k - 1], p)
          BY <2>1, <2>4, <3>4, <3>5
        <4> HIDE DEF p, n, T
        <4>2. ToSet(Append(next[k - 1], p)) = ToSet(next[k - 1]) \cup {p}
          BY <2>2, <3>3, AppendFacts
        <4>3. p \in ToSet(next[k])
          BY <4>1, <4>2
        <4> QED BY <3>1, <4>3
      <3>6. CASE k # j
        <4>1. p \in ToSet(next[k - 1])
          BY <2>5, <3>2, <3>6
        <4>2. Follows(w, through, n, k) => ToSet(Append(next[k - 1], Position(w, w.edges[k].target)))
                                             = ToSet(next[k - 1]) \cup {Position(w, w.edges[k].target)}
          BY <3>3, JoinsFacts, AppendFacts DEF Follows
        <4> HIDE DEF p, n, T
        <4> QED BY <3>1, <3>4, <4>1, <4>2
      <3> QED BY <3>5, <3>6
    <2>6. T = {}
      <3>1. T \in SUBSET Nat
        BY <1>1
      <3> HIDE DEF T
      <3> QED BY <2>5, <3>1, Least
    <2>7. L \in j..L
      BY <1>1
    <2>8. p \in ToSet(next[L])
      BY <2>6, <2>7
    <2> QED BY <2>3, <2>8
  <1> QED BY <1>4, <1>5

-------------------------------------------------------------------------------
(* What the validation of control flow rules out *)

Everything(w) == ToSet(w.edges)
Activating(d, w) == {e \in ToSet(w.edges) : Sequencing(d, w, e)}
Whole(w) == Adjacency(w, Everything(w))
Sequenced(d, w) == Adjacency(w, Activating(d, w))

LEMMA StepsFacts ==
    ASSUME NEW w, IsFlow(w), NEW through, NEW x, NEW y, <<x, y>> \in Steps(w, through)
    PROVE  /\ x \in 1..Len(w.nodes) /\ y \in 1..Len(w.nodes)
           /\ y \in ToSet(Adjacency(w, through)[x]) /\ y \in ToSet(Whole(w)[x])
  <1>1. PICK e \in ToSet(w.edges) \cap through :
            Joins(w, e) /\ x = Position(w, e.source) /\ y = Position(w, e.target)
    BY DEF Steps
  <1>2. x \in 1..Len(w.nodes) /\ y \in 1..Len(w.nodes)
    BY <1>1, JoinsFacts
  <1>3. y \in ToSet(Adjacency(w, through)[x])
    BY <1>1, AdjacencyFacts
  <1>4. e \in ToSet(w.edges) \cap Everything(w)
    BY <1>1 DEF Everything
  <1>5. y \in ToSet(Whole(w)[x])
    BY <1>1, <1>4, AdjacencyFacts DEF Whole
  <1> QED BY <1>2, <1>3, <1>5

LEMMA ControlFlowChecked ==
    ASSUME NEW d, NEW w, NEW provided, ValidateControlFlow(d, w, provided) = {},
           NEW K \in StronglyConnectedComponents(Whole(w))
    PROVE  ValidateComponent(d, w, provided, K, Whole(w), Sequenced(d, w)) = {}
  <1>1. ValidateComponent(d, w, provided, K, Whole(w), Sequenced(d, w)) \subseteq ValidateControlFlow(d, w, provided)
    <2> DEFINE Of(adjacency, sequencing) ==
                  UNION {ValidateComponent(d, w, provided, component, adjacency, sequencing) :
                         component \in StronglyConnectedComponents(adjacency)}
    <2>1. ValidateControlFlow(d, w, provided) =
             UNION {Of(adjacency, sequencing) : adjacency \in {Whole(w)}, sequencing \in {Sequenced(d, w)}}
      BY DEF ValidateControlFlow, Whole, Sequenced, Everything, Activating
    <2>2. ValidateComponent(d, w, provided, K, Whole(w), Sequenced(d, w)) \subseteq Of(Whole(w), Sequenced(d, w))
      BY Zenon
    <2> HIDE DEF Of
    <2> QED BY <2>1, <2>2
  <1> QED BY <1>1

\* The gate of a cyclic component is its only one, and without it nothing goes round.
GatedBy(d, w, K, gate) ==
    /\ gate \in K /\ IsGate(d, w.nodes[gate])
    /\ \A h \in K : IsGate(d, w.nodes[h]) => h = gate
    /\ ~HasCycleWithout(K, gate, Sequenced(d, w))

LEMMA ComponentGated ==
    ASSUME NEW d, NEW w, NEW provided, NEW K, IsFiniteSet(K),
           ValidateComponent(d, w, provided, K, Whole(w), Sequenced(d, w)) = {},
           (Cardinality(K) > 1) \/ (\E x \in K : x \in ToSet(Whole(w)[x]))
    PROVE  \E gate \in K : GatedBy(d, w, K, gate)
  <1> DEFINE gates == {n \in K : IsGate(d, w.nodes[n])}
             gate == CHOOSE n \in gates : TRUE
  <1>1. /\ (IF gates = {} THEN {"graph.cycle"}
             ELSE IF Cardinality(gates) > 1 THEN {"loop.multiple_gates"}
             ELSE ValidateGate(d, w, provided, K, gate, Sequenced(d, w))) = {}
    BY DEF ValidateComponent
  <1>2. gates # {} /\ ~(Cardinality(gates) > 1) /\ ValidateGate(d, w, provided, K, gate, Sequenced(d, w)) = {}
    BY <1>1
  <1>3. gate \in gates
    BY <1>2
  <1>4. \A h \in gates : h = gate
    <2>1. IsFiniteSet(gates)
      BY FS_Subset
    <2> HIDE DEF gates, gate
    <2> QED BY <1>2, <1>3, <2>1, TwoAreMore
  <1>5. ~HasCycleWithout(K, gate, Sequenced(d, w))
    <2> HIDE DEF gate, gates
    <2> QED BY <1>2 DEF ValidateGate
  <1>6. gate \in K /\ IsGate(d, w.nodes[gate]) /\ \A h \in K : IsGate(d, w.nodes[h]) => h = gate
    <2>1. \A h \in K : IsGate(d, w.nodes[h]) => h \in gates
      OBVIOUS
    <2> HIDE DEF gate
    <2> QED BY <1>3, <1>4, <2>1
  <1> HIDE DEF gate
  <1> QED BY <1>5, <1>6 DEF GatedBy

\* The workflow lies on levels; a level that can be gone round has one gate.
Leveled(d, w, r) ==
    LET On(x) == OnLevel(1..Len(w.nodes), r, x)
    IN /\ r \in [1..Len(w.nodes) -> Nat]
       /\ \A x, y \in 1..Len(w.nodes) : y \in ToSet(Whole(w)[x]) => r[y] <= r[x]
       /\ \A x \in 1..Len(w.nodes) :
             (\E y \in On(x) : y # x) \/ x \in ToSet(Whole(w)[x]) => \E gate \in On(x) : GatedBy(d, w, On(x), gate)

LEMMA LevelsGated ==
    ASSUME NEW d, NEW w, IsFlow(w), NEW provided, ValidateControlFlow(d, w, provided) = {}
    PROVE  \E r : Leveled(d, w, r)
  <1> DEFINE N == Len(w.nodes)
  <1>1. N \in Nat /\ Whole(w) \in [1..N -> Seq(1..N)]
    BY FlowFacts, AdjacencyFacts DEF Whole
  <1>2. PICK r : Levelled(Whole(w), 1..N, StronglyConnectedComponents(Whole(w)), r)
    <2> HIDE DEF N
    <2> QED BY <1>1, ComponentsAreLevels
  <1>3. r \in [1..N -> Nat]
    BY <1>2 DEF Levelled
  <1>4. ASSUME NEW x \in 1..N, NEW y \in 1..N, y \in ToSet(Whole(w)[x])
        PROVE  r[y] <= r[x]
    <2>1. PICK i \in DOMAIN Whole(w)[x] : y = Whole(w)[x][i]
      BY <1>4 DEF ToSet
    <2> QED BY <1>2, <1>4, <2>1 DEF Levelled
  <1>5. ASSUME NEW x \in 1..N, NEW K, K = OnLevel(1..N, r, x), (\E y \in K : y # x) \/ x \in ToSet(Whole(w)[x])
        PROVE  \E gate \in K : GatedBy(d, w, K, gate)
    <2>1. K \in StronglyConnectedComponents(Whole(w)) /\ x \in K
      BY <1>2, <1>5 DEF Levelled, OnLevel
    <2>2. ValidateComponent(d, w, provided, K, Whole(w), Sequenced(d, w)) = {}
      BY <2>1, ControlFlowChecked
    <2>3. IsFiniteSet(K)
      <3>1. IsFiniteSet(1..N)
        BY <1>1, FS_Interval
      <3> QED BY <1>5, <3>1, FS_Subset DEF OnLevel
    <2>4. (Cardinality(K) > 1) \/ (\E y \in K : y \in ToSet(Whole(w)[y]))
      BY <1>5, <2>1, <2>3, TwoAreMore
    <2> QED BY <2>2, <2>3, <2>4, ComponentGated
  <1> HIDE DEF N
  <1>6. \A x \in 1..N : (\E y \in OnLevel(1..N, r, x) : y # x) \/ x \in ToSet(Whole(w)[x])
                          => \E gate \in OnLevel(1..N, r, x) : GatedBy(d, w, OnLevel(1..N, r, x), gate)
    BY <1>5
  <1> QED BY <1>3, <1>4, <1>6 DEF Leveled, N

\* No way round avoids the gates.
LEMMA NoUngatedCycle ==
    ASSUME NEW d, NEW w, IsFlow(w), NEW provided, ValidateControlFlow(d, w, provided) = {},
           NEW T \in SUBSET (1..Len(w.nodes)), T # {}, \A x \in T : ~IsGate(d, w.nodes[x]),
           GoesOn(T, Steps(w, Activating(d, w)))
    PROVE  FALSE
  <1> DEFINE N == Len(w.nodes)
             R == Steps(w, Activating(d, w))
  <1>1. PICK r : Leveled(d, w, r)
    BY LevelsGated
  <1>2. r \in [1..N -> Nat] /\ N \in Nat
    BY <1>1, FlowFacts DEF Leveled
  <1>3. NeverRises(1..N, r, R)
    BY <1>1, StepsFacts DEF Leveled, NeverRises
  <1>4. PICK x \in T : GoesOn(OnLevel(T, r, x), R)
    <2> HIDE DEF N, R
    <2>1. T \in SUBSET (1..N)
      BY DEF N
    <2>2. GoesOn(T, R)
      BY DEF R
    <2> QED BY <1>2, <1>3, <2>1, <2>2, CycleOnLevel
  <1> DEFINE U == OnLevel(T, r, x)
             K == OnLevel(1..N, r, x)
  <1>5. x \in U /\ U \subseteq T /\ U \subseteq K /\ K \subseteq 1..N /\ x \in 1..N
    BY DEF OnLevel
  <1>6. (\E y \in K : y # x) \/ x \in ToSet(Whole(w)[x])
    <2>1. PICK v \in U : <<x, v>> \in R
      BY <1>4, <1>5 DEF GoesOn
    <2>2. CASE v = x
      BY <2>1, <2>2, StepsFacts
    <2>3. CASE v # x
      BY <1>5, <2>3
    <2> QED BY <2>2, <2>3
  <1>7. PICK gate \in K : GatedBy(d, w, K, gate)
    BY <1>1, <1>5, <1>6 DEF Leveled
  <1>8. IsFiniteSet(K) /\ IsFiniteSet(U)
    <2>1. IsFiniteSet(1..N)
      BY <1>2, FS_Interval
    <2> QED BY <1>5, <2>1, FS_Subset
  <1>9. PICK V \in SUBSET U : V # {} /\ \A y \in V : \E z \in V : <<z, y>> \in R
    <2>1. \A y \in U : \E z \in U : <<y, z>> \in R
      BY <1>4 DEF GoesOn
    <2> HIDE DEF U, R
    <2> QED BY <1>5, <1>8, <2>1, CycleTurns
  <1>10. \A y \in V : \E z \in V : \E i \in DOMAIN Sequenced(d, w)[z] : Sequenced(d, w)[z][i] = y
    <2>1. \A y \in V : \E z \in V : y \in ToSet(Sequenced(d, w)[z])
      BY <1>9, StepsFacts DEF Sequenced
    <2> QED BY <2>1 DEF ToSet
  <1>11. V \in SUBSET (K \ {gate})
    <2> HIDE DEF U, K
    <2> QED BY <1>5, <1>7, <1>9 DEF GatedBy
  <1>12. HasCycleWithout(K, gate, Sequenced(d, w))
    <2> HIDE DEF K, U
    <2> QED BY <1>8, <1>9, <1>10, <1>11, PeelKeepsCycles
  <1> QED BY <1>7, <1>12 DEF GatedBy

\* Where there is no gate, nothing goes round at all.
LEMMA NoCycle ==
    ASSUME NEW d, NEW w, IsFlow(w), NEW provided, ValidateControlFlow(d, w, provided) = {},
           \A x \in 1..Len(w.nodes) : ~IsGate(d, w.nodes[x]),
           NEW T \in SUBSET (1..Len(w.nodes)), T # {},
           GoesOn(T, Steps(w, Everything(w)))
    PROVE  FALSE
  <1> DEFINE N == Len(w.nodes)
             R == Steps(w, Everything(w))
  <1>1. PICK r : Leveled(d, w, r)
    BY LevelsGated
  <1>2. r \in [1..N -> Nat]
    BY <1>1 DEF Leveled
  <1>3. NeverRises(1..N, r, R)
    BY <1>1, StepsFacts DEF Leveled, NeverRises
  <1>4. PICK x \in T : GoesOn(OnLevel(T, r, x), R)
    <2> HIDE DEF N, R
    <2>1. T \in SUBSET (1..N)
      BY DEF N
    <2>2. GoesOn(T, R)
      BY DEF R
    <2> QED BY <1>2, <1>3, <2>1, <2>2, CycleOnLevel
  <1>5. PICK v \in T : r[v] = r[x] /\ <<x, v>> \in R
    BY <1>4 DEF GoesOn, OnLevel
  <1> DEFINE K == OnLevel(1..N, r, x)
  <1>6. (\E y \in K : y # x) \/ x \in ToSet(Whole(w)[x])
    BY <1>5, StepsFacts DEF OnLevel
  <1>7. \E gate \in K : GatedBy(d, w, K, gate)
    BY <1>1, <1>6 DEF Leveled
  <1> QED BY <1>7 DEF GatedBy, OnLevel

\* No two gates lie on one way round.
LEMMA GatesApart ==
    ASSUME NEW d, NEW w, IsFlow(w), NEW provided, ValidateControlFlow(d, w, provided) = {},
           NEW g \in 1..Len(w.nodes), NEW h \in 1..Len(w.nodes), g # h,
           IsGate(d, w.nodes[g]), IsGate(d, w.nodes[h]),
           Reaches(1..Len(w.nodes), Steps(w, Activating(d, w)), g, h),
           Reaches(1..Len(w.nodes), Steps(w, Activating(d, w)), h, g)
    PROVE  FALSE
  <1> DEFINE N == Len(w.nodes)
             R == Steps(w, Activating(d, w))
  <1>1. PICK r : Leveled(d, w, r)
    BY LevelsGated
  <1>2. r \in [1..N -> Nat]
    BY <1>1 DEF Leveled
  <1>3. ASSUME NEW x \in 1..N, NEW y \in 1..N, Reaches(1..N, R, x, y)
        PROVE  r[y] <= r[x]
    <2> DEFINE T == {z \in 1..N : r[z] <= r[x]}
    <2>1. T \in SUBSET (1..N) /\ x \in T
      BY <1>2
    <2>2. ASSUME NEW p \in R, p[1] \in T PROVE p[2] \in T
      <3>1. PICK a, b : p = <<a, b>>
        BY DEF Steps
      <3>2. a \in 1..N /\ b \in 1..N /\ b \in ToSet(Whole(w)[a])
        BY <2>2, <3>1, StepsFacts
      <3>3. r[b] <= r[a] /\ r[a] <= r[x]
        BY <1>1, <2>2, <3>1, <3>2 DEF Leveled
      <3>4. r[b] \in Nat /\ r[a] \in Nat /\ r[x] \in Nat
        BY <1>2, <3>2
      <3>5. r[b] <= r[x]
        BY <3>3, <3>4
      <3> QED BY <3>1, <3>2, <3>5
    <2>3. y \in T
      <3> HIDE DEF T, R, N
      <3> QED BY <1>3, <2>1, <2>2 DEF Reaches
    <2> QED BY <2>3
  <1>4. r[g] <= r[h] /\ r[h] <= r[g]
    BY <1>3
  <1>5. r[g] = r[h]
    BY <1>2, <1>4
  <1> DEFINE K == OnLevel(1..N, r, g)
  <1>6. h \in K /\ g \in K
    BY <1>5 DEF OnLevel
  <1>7. PICK gate \in K : GatedBy(d, w, K, gate)
    BY <1>1, <1>6 DEF Leveled
  <1> HIDE DEF K
  <1> QED BY <1>6, <1>7 DEF GatedBy

-------------------------------------------------------------------------------
(* What an accepted document is *)

Checked(d, w) == \E provided : ValidateWorkflow(d, w, provided) = {}

LEMMA AcceptedIsChecked ==
    ASSUME NEW d, Accepted(d), NEW w \in WorkflowsOf(d)
    PROVE  Checked(d, w)
  <1>1. ValidateWorkflow(d, d.workflow, {}) = {} /\ ValidateSubgraphs(d) = {}
    BY DEF Accepted, Errors
  <1>2. CASE w = d.workflow
    BY <1>1, <1>2 DEF Checked
  <1>3. CASE w # d.workflow
    <2>1. PICK key \in DOMAIN d.subgraphs : w = d.subgraphs[key].workflow
      BY <1>3 DEF WorkflowsOf
    <2>2. ValidateWorkflow(d, w, Provided(d.subgraphs[key])) \subseteq ValidateSubgraphs(d)
      <3> DEFINE Of(k) ==
                    LET sub == d.subgraphs[k]
                    IN  (IF sub.id = NoId \/ sub.id # k THEN {"subgraph.duplicate_id"} ELSE {}) \cup
                        (IF ~sub.supported THEN {"subgraph.unsupported_version"} ELSE {}) \cup
                        (IF sub.definesOthers THEN {"subgraph.nested_definitions"} ELSE {}) \cup
                        ValidateWorkflow(d, sub.workflow, Provided(sub)) \cup
                        ValidateSubgraphPorts(sub) \cup ValidateSubgraphBindings(d, sub)
      <3>1. ValidateWorkflow(d, w, Provided(d.subgraphs[key])) \subseteq Of(key)
        BY <2>1
      <3>2. UNION {Of(k) : k \in DOMAIN d.subgraphs} \subseteq ValidateSubgraphs(d)
        BY Zenon DEF ValidateSubgraphs
      <3> HIDE DEF Of
      <3> QED BY <3>1, <3>2
    <2> QED BY <1>1, <2>2 DEF Checked
  <1> QED BY <1>2, <1>3

LEMMA CheckedFacts ==
    ASSUME NEW d, NEW w, Checked(d, w)
    PROVE  /\ \E provided : ValidateControlFlow(d, w, provided) = {}
           /\ \A i \in DOMAIN w.nodes : HasSpec(d, w.nodes[i])
           /\ \A e \in ToSet(w.edges) : Joins(w, e) /\ e.source # e.target
  <1>1. PICK provided : ValidateWorkflow(d, w, provided) = {}
    BY DEF Checked
  <1>2. ValidateControlFlow(d, w, provided) = {} /\ ValidateEdges(d, w, provided) = {}
    <2>1. ValidateControlFlow(d, w, provided) \subseteq ValidateWorkflow(d, w, provided)
      BY Zenon DEF ValidateWorkflow
    <2>2. ValidateEdges(d, w, provided) \subseteq ValidateWorkflow(d, w, provided)
      BY Zenon DEF ValidateWorkflow
    <2> QED BY <1>1, <2>1, <2>2
  <1>3. ASSUME NEW i \in DOMAIN w.nodes PROVE HasSpec(d, w.nodes[i])
    <2>1. ValidateNode(d, w.nodes[i]) \subseteq ValidateWorkflow(d, w, provided)
      BY DEF ValidateWorkflow
    <2>2. ValidateNode(d, w.nodes[i]) = {}
      BY <1>1, <2>1
    <2> QED BY <2>2 DEF ValidateNode
  <1>4. ASSUME NEW e \in ToSet(w.edges) PROVE Joins(w, e) /\ e.source # e.target
    <2>1. PICK k \in DOMAIN w.edges : e = w.edges[k]
      BY DEF ToSet
    <2>2. ValidateEdge(d, w, e) \subseteq ValidateEdges(d, w, provided)
      BY <2>1 DEF ValidateEdges
    <2>3. ValidateEdge(d, w, e) = {}
      BY <1>2, <2>2
    <2> QED BY <2>3 DEF ValidateEdge, Joins
  <1> QED BY <1>2, <1>3, <1>4

\* What AcceptedCyclesAreGated says of one workflow.
CyclesAreGated(d, w) ==
    LET R == Steps(w, {e \in ToSet(w.edges) : e.kind = "control" \/ ~IsCollaborationInput(d, w, e)})
        gates == {n \in DOMAIN w.nodes : IsGate(d, w.nodes[n])}
    IN /\ ~CyclesIn(DOMAIN w.nodes \ gates, R)
       /\ \A g, h \in gates : g # h =>
             ~(Reaches(DOMAIN w.nodes, R, g, h) /\ Reaches(DOMAIN w.nodes, R, h, g))

LEMMA CheckedIsGated ==
    ASSUME NEW d, NEW w, IsFlow(w), Checked(d, w)
    PROVE  CyclesAreGated(d, w)
  <1> DEFINE D == DOMAIN w.nodes
             R == Steps(w, Activating(d, w))
             gates == {n \in D : IsGate(d, w.nodes[n])}
  <1>1. D = 1..Len(w.nodes)
    BY FlowFacts
  <1>2. PICK provided : ValidateControlFlow(d, w, provided) = {}
    BY CheckedFacts
  <1>3. Activating(d, w) = {e \in ToSet(w.edges) : e.kind = "control" \/ ~IsCollaborationInput(d, w, e)}
    BY DEF Activating, Sequencing
  <1>4. ASSUME CyclesIn(D \ gates, R) PROVE FALSE
    <2>1. PICK T \in SUBSET (D \ gates) : T # {} /\ \A x \in T : \E y \in T : <<x, y>> \in R
      BY <1>4 DEF CyclesIn
    <2>2. T \in SUBSET (1..Len(w.nodes)) /\ \A x \in T : ~IsGate(d, w.nodes[x])
      BY <1>1, <2>1
    <2>3. GoesOn(T, Steps(w, Activating(d, w)))
      BY <2>1 DEF GoesOn
    <2> QED BY <1>2, <2>1, <2>2, <2>3, NoUngatedCycle
  <1>5. ASSUME NEW g \in gates, NEW h \in gates, g # h, Reaches(D, R, g, h), Reaches(D, R, h, g)
        PROVE  FALSE
    <2>1. g \in 1..Len(w.nodes) /\ h \in 1..Len(w.nodes) /\ IsGate(d, w.nodes[g]) /\ IsGate(d, w.nodes[h])
      BY <1>1
    <2>2. /\ Reaches(1..Len(w.nodes), Steps(w, Activating(d, w)), g, h)
          /\ Reaches(1..Len(w.nodes), Steps(w, Activating(d, w)), h, g)
      BY <1>1, <1>5
    <2> QED BY <1>2, <1>5, <2>1, <2>2, GatesApart
  <1> QED BY <1>3, <1>4, <1>5 DEF CyclesAreGated

\* walk_recursive_references, as a recursion by the definitions that are not on the path.
Meets(d, walk, path) ==
    \E reference \in References(d, Last(path)) :
        \/ reference \in ToSet(path)
        \/ reference \in DOMAIN d.subgraphs /\ walk[Append(path, reference)]
OffPath(d) == [path \in Seq(DOMAIN d.subgraphs) |-> Cardinality(DOMAIN d.subgraphs \ ToSet(path))]

LEMMA OffPathFacts ==
    ASSUME NEW d, IsFiniteSet(DOMAIN d.subgraphs)
    PROVE  /\ OffPath(d) \in [Seq(DOMAIN d.subgraphs) -> Nat]
           /\ \A path \in Seq(DOMAIN d.subgraphs), key \in DOMAIN d.subgraphs : key \notin ToSet(path) =>
                 Append(path, key) \in Seq(DOMAIN d.subgraphs) /\ OffPath(d)[Append(path, key)] < OffPath(d)[path]
  <1> DEFINE D == DOMAIN d.subgraphs
  <1>1. \A path \in Seq(D) : Cardinality(D \ ToSet(path)) \in Nat
    BY FS_Difference, FS_CardinalityType
  <1>2. OffPath(d) \in [Seq(D) -> Nat]
    BY <1>1 DEF OffPath
  <1>3. ASSUME NEW path \in Seq(D), NEW key \in D, key \notin ToSet(path)
        PROVE  Append(path, key) \in Seq(D) /\ OffPath(d)[Append(path, key)] < OffPath(d)[path]
    <2> HIDE DEF D
    <2>1. Append(path, key) \in Seq(D) /\ ToSet(Append(path, key)) = ToSet(path) \cup {key}
      BY AppendFacts
    <2>2. ToSet(path) \in SUBSET D
      BY ElementOfSeq, LenProperties DEF ToSet
    <2>3. ToSet(path) \cup {key} \in SUBSET D /\ ToSet(path) \subseteq ToSet(path) \cup {key}
          /\ ToSet(path) # ToSet(path) \cup {key} /\ IsFiniteSet(D)
      BY <1>3, <2>2 DEF D
    <2>4. Cardinality(D \ (ToSet(path) \cup {key})) < Cardinality(D \ ToSet(path))
      BY <2>2, <2>3, LeftShrinks
    <2> QED BY <2>1, <2>4 DEF OffPath, D
  <1> QED BY <1>2, <1>3

LEMMA RecursesUnfold ==
    ASSUME NEW d, IsFiniteSet(DOMAIN d.subgraphs), NEW key
    PROVE  \E walk : /\ Recurses(d, key) <=> walk[<<key>>]
                     /\ \A path \in Seq(DOMAIN d.subgraphs) : walk[path] = Meets(d, walk, path)
  <1> DEFINE D == DOMAIN d.subgraphs
             Q == Seq(D)
             R == ByRank(Q, OffPath(d))
             F == [path \in Q |-> [g \in [Q -> BOOLEAN] |-> Meets(d, g, path)]]
             W(walk) ==
                [path \in Seq(DOMAIN d.subgraphs) |->
                    \E reference \in References(d, Last(path)) :
                        \/ reference \in ToSet(path)
                        \/ reference \in DOMAIN d.subgraphs /\ walk[Append(path, reference)]]
             walk == CHOOSE walk : walk = W(walk)
  <1>1. Recurses(d, key) <=> walk[<<key>>]
    BY DEF Recurses
  <1>2. \A g : W(g) = [path \in Q |-> Meets(d, g, path)]
    BY DEF Meets
  <1>3. F \in [Q -> [[Q -> BOOLEAN] -> BOOLEAN]]
    <2>1. \A path, g : Meets(d, g, path) \in BOOLEAN
      BY DEF Meets
    <2> HIDE DEF Q
    <2> QED BY <2>1
  <1>4. AsksBelow(F, R, Q, BOOLEAN)
    <2>1. ASSUME NEW path \in Q, NEW g \in [Q -> BOOLEAN], NEW h \in [Q -> BOOLEAN],
                 \A t \in Q : <<t, path>> \in R => g[t] = h[t]
          PROVE  Meets(d, g, path) = Meets(d, h, path)
      <3>1. ASSUME NEW reference \in D, reference \notin ToSet(path)
            PROVE  g[Append(path, reference)] = h[Append(path, reference)]
        <4>1. Append(path, reference) \in Q /\ OffPath(d)[Append(path, reference)] < OffPath(d)[path]
          BY <3>1, OffPathFacts
        <4>2. <<Append(path, reference), path>> \in R
          <5> HIDE DEF Q
          <5> QED BY <4>1 DEF ByRank
        <4> QED BY <2>1, <4>1, <4>2
      <3> HIDE DEF Q, R
      <3> QED BY <3>1 DEF Meets
    <2> HIDE DEF Q, R
    <2> QED BY <2>1 DEF AsksBelow
  <1>5. PICK f \in [Q -> BOOLEAN] : \A path \in Q : f[path] = F[path][f]
    <2>1. OffPath(d) \in [Q -> Nat]
      BY OffPathFacts
    <2> HIDE DEF Q, F
    <2>2. Solvable(F, Q, BOOLEAN)
      BY <1>3, <1>4, <2>1, RankedRecursion
    <2> QED BY <2>2 DEF Solvable
  <1>6. f = W(f)
    <2>1. \A path \in Q : f[path] = Meets(d, f, path)
      <3> HIDE DEF Q
      <3> QED BY <1>5
    <2> HIDE DEF Q, F, W
    <2> QED BY <1>2, <1>5, <2>1
  <1>7. walk = W(walk)
    <2> HIDE DEF W
    <2> QED BY <1>6
  <1> HIDE DEF walk, W
  <1>8. \A path \in Q : walk[path] = Meets(d, walk, path)
    <2> HIDE DEF Q
    <2> QED BY <1>2, <1>7
  <1> QED BY <1>1, <1>8

\* Definitions that refer to each other for ever are seen from each of them.
LEMMA CycleIsMet ==
    ASSUME NEW d, IsFiniteSet(DOMAIN d.subgraphs), NEW T \in SUBSET DOMAIN d.subgraphs,
           \A x \in T : \E y \in T : y \in References(d, x), NEW key \in T
    PROVE  Recurses(d, key)
  <1> DEFINE D == DOMAIN d.subgraphs
             Q == Seq(D)
  <1>1. PICK walk : /\ Recurses(d, key) <=> walk[<<key>>]
                    /\ \A path \in Q : walk[path] = Meets(d, walk, path)
    BY RecursesUnfold
  <1> DEFINE B == {path \in Q : Last(path) \in T /\ ~walk[path]}
  <1>2. B = {}
    <2>1. SUFFICES ASSUME B # {} PROVE FALSE
      OBVIOUS
    <2>2. PICK path \in B : \A q \in B : OffPath(d)[path] <= OffPath(d)[q]
      <3>1. B \in SUBSET Q /\ OffPath(d) \in [Q -> Nat]
        BY OffPathFacts
      <3> HIDE DEF B, Q
      <3> QED BY <2>1, <3>1, LeastRank
    <2>3. path \in Q /\ Last(path) \in T /\ ~Meets(d, walk, path)
      <3>1. path \in Q /\ Last(path) \in T /\ ~walk[path]
        OBVIOUS
      <3> HIDE DEF B, Q
      <3> QED BY <1>1, <3>1
    <2>4. PICK y \in T : y \in References(d, Last(path))
      BY <2>3
    <2>5. y \notin ToSet(path) /\ ~walk[Append(path, y)]
      BY <2>3, <2>4 DEF Meets
    <2>6. Append(path, y) \in Q /\ OffPath(d)[Append(path, y)] < OffPath(d)[path]
      BY <2>3, <2>5, OffPathFacts
    <2>7. Last(Append(path, y)) = y
      <3>1. y \in D
        OBVIOUS
      <3>2. Len(Append(path, y)) = Len(path) + 1 /\ Append(path, y)[Len(path) + 1] = y
        BY <2>3, <3>1, AppendFacts
      <3> QED BY <3>2 DEF Last
    <2>8. Append(path, y) \in B
      BY <2>5, <2>6, <2>7
    <2>9. OffPath(d)[path] \in Nat /\ OffPath(d)[Append(path, y)] \in Nat
      BY <2>3, <2>6, OffPathFacts
    <2>10. OffPath(d)[path] <= OffPath(d)[Append(path, y)]
      <3> HIDE DEF B, Q
      <3> QED BY <2>2, <2>8
    <2> HIDE DEF B, Q
    <2> QED BY <2>6, <2>9, <2>10
  <1>3. <<key>> \in Q /\ Last(<<key>>) = key
    <2>1. Len(<<key>>) = 1 /\ <<key>>[1] = key
      OBVIOUS
    <2>2. key \in D
      OBVIOUS
    <2>3. <<key>> \in Seq(D)
      <3>1. \A i \in 1..1 : key \in D
        BY <2>2
      <3>2. [i \in 1..1 |-> key] \in Seq(D)
        <4> HIDE DEF D
        <4> QED BY <3>1, IsASeq
      <3>3. <<key>> = [i \in 1..1 |-> key]
        OBVIOUS
      <3> QED BY <3>2, <3>3
    <2> QED BY <2>1, <2>3 DEF Last
  <1> QED BY <1>1, <1>2, <1>3

\* What ExpansionEnds says of a document.
Expands(d) ==
    LET R == UNION {{<<key, reference>> : reference \in References(d, key)} : key \in DOMAIN d.subgraphs}
    IN ~CyclesIn(DOMAIN d.subgraphs, R) /\ \A pair \in R : pair[2] \in DOMAIN d.subgraphs

LEMMA AcceptedExpands ==
    ASSUME NEW d \in Documents, Accepted(d)
    PROVE  Expands(d)
  <1> DEFINE D == DOMAIN d.subgraphs
             R == UNION {{<<key, reference>> : reference \in References(d, key)} : key \in D}
  <1>1. IsFiniteSet(D) /\ \A key \in D : d.subgraphs[key].workflow \in WorkflowsOf(d)
    BY DocumentAssumption DEF WorkflowsOf
  <1>2. \A key \in D : ~Recurses(d, key)
    BY DEF Accepted, Errors, ValidateRecursiveReferences, Report
  <1>3. ~CyclesIn(D, R)
    <2>1. SUFFICES ASSUME NEW T \in SUBSET D, T # {}, \A x \in T : \E y \in T : <<x, y>> \in R
                   PROVE  FALSE
      BY DEF CyclesIn
    <2>2. \A x \in T : \E y \in T : y \in References(d, x)
      BY <2>1
    <2>3. PICK key \in T : TRUE
      BY <2>1
    <2> QED BY <1>1, <1>2, <2>2, <2>3, CycleIsMet
  <1>4. ASSUME NEW pair \in R PROVE pair[2] \in D
    <2>1. PICK key \in D : pair[2] \in References(d, key)
      OBVIOUS
    <2> DEFINE w == d.subgraphs[key].workflow
    <2>2. PICK i \in DOMAIN w.nodes : w.nodes[i].kind = Composite /\ w.nodes[i].sub = pair[2]
      BY <2>1 DEF References, ToSet
    <2>3. HasSpec(d, w.nodes[i])
      BY <1>1, AcceptedIsChecked, CheckedFacts
    <2> QED BY <2>2, <2>3 DEF HasSpec
  <1> QED BY <1>3, <1>4 DEF Expands

-------------------------------------------------------------------------------
(* The order in which the engine visits the nodes *)

\* Ids tell the nodes of an accepted workflow apart.
LEMMA IdsAreUnique ==
    ASSUME NEW d, NEW w, Checked(d, w), NEW i \in DOMAIN w.nodes, NEW j \in DOMAIN w.nodes,
           w.nodes[i].id = w.nodes[j].id
    PROVE  i = j
  <1>1. PICK provided : ValidateWorkflow(d, w, provided) = {}
    BY DEF Checked
  <1> DEFINE Empty == IF \E k \in DOMAIN w.nodes : w.nodes[k].id = NoId THEN {"node.empty_id"} ELSE {}
             Twice == IF \E k, l \in DOMAIN w.nodes : k # l /\ w.nodes[k].id = w.nodes[l].id /\ w.nodes[k].id # NoId
                      THEN {"node.duplicate_id"} ELSE {}
  <1>2. Empty \subseteq ValidateWorkflow(d, w, provided) /\ Twice \subseteq ValidateWorkflow(d, w, provided)
    BY DEF ValidateWorkflow
  <1>3. Empty = {} /\ Twice = {}
    <2> HIDE DEF Empty, Twice
    <2> QED BY <1>1, <1>2
  <1> QED BY <1>3

Sources(w, n) == {Position(w, w.edges[e].source) : e \in Incoming(w, w.nodes[n].id)}

\* What feeds a node is another node, from which a step leads to it.
LEMMA SourcesAreSteps ==
    ASSUME NEW d, NEW w, IsFlow(w), Checked(d, w), NEW n \in 1..Len(w.nodes)
    PROVE  /\ Sources(w, n) \subseteq (1..Len(w.nodes)) \ {n}
           /\ \A m : m \in Sources(w, n) <=> <<m, n>> \in Steps(w, Everything(w))
  <1>1. DOMAIN w.nodes = 1..Len(w.nodes)
    BY FlowFacts
  <1>2. ASSUME NEW e \in DOMAIN w.edges
        PROVE  /\ w.edges[e] \in ToSet(w.edges) /\ Joins(w, w.edges[e]) /\ w.edges[e].source # w.edges[e].target
               /\ Position(w, w.edges[e].source) \in 1..Len(w.nodes)
               /\ w.nodes[Position(w, w.edges[e].source)].id = w.edges[e].source
               /\ Position(w, w.edges[e].target) \in 1..Len(w.nodes)
               /\ w.nodes[Position(w, w.edges[e].target)].id = w.edges[e].target
    <2>1. w.edges[e] \in ToSet(w.edges)
      BY DEF ToSet
    <2>2. Joins(w, w.edges[e]) /\ w.edges[e].source # w.edges[e].target
      BY <2>1, CheckedFacts
    <2> QED BY <2>1, <2>2, PositionFacts DEF Joins
  <1>3. ASSUME NEW e \in Incoming(w, w.nodes[n].id)
        PROVE  e \in DOMAIN w.edges /\ Position(w, w.edges[e].target) = n
    <2>1. e \in DOMAIN w.edges /\ w.edges[e].target = w.nodes[n].id
      BY DEF Incoming
    <2> QED BY <1>1, <1>2, <2>1, IdsAreUnique
  <1>4. ASSUME NEW m \in Sources(w, n)
        PROVE  m \in (1..Len(w.nodes)) \ {n} /\ <<m, n>> \in Steps(w, Everything(w))
    <2>1. PICK e \in Incoming(w, w.nodes[n].id) : m = Position(w, w.edges[e].source)
      BY DEF Sources
    <2>2. e \in DOMAIN w.edges /\ Position(w, w.edges[e].target) = n
      BY <1>3
    <2>3. m \in (1..Len(w.nodes)) \ {n}
      BY <1>2, <2>1, <2>2
    <2>4. w.edges[e] \in {f \in ToSet(w.edges) \cap Everything(w) : Joins(w, f)}
      BY <1>2, <2>2 DEF Everything
    <2>5. <<m, n>> \in Steps(w, Everything(w))
      BY <2>1, <2>2, <2>4 DEF Steps
    <2> QED BY <2>3, <2>5
  <1>5. ASSUME NEW m, <<m, n>> \in Steps(w, Everything(w))
        PROVE  m \in Sources(w, n)
    <2>1. PICK f \in ToSet(w.edges) : m = Position(w, f.source) /\ n = Position(w, f.target)
      BY <1>5 DEF Steps
    <2>2. PICK e \in DOMAIN w.edges : f = w.edges[e]
      BY DEF ToSet
    <2>3. w.edges[e].target = w.nodes[n].id
      BY <1>2, <2>1, <2>2
    <2> QED BY <2>1, <2>2, <2>3 DEF Sources, Incoming
  <1> QED BY <1>4, <1>5

\* Every node stands once, behind all that feed it that are not settled before.
InOrder(w, q, settled) ==
    /\ q \in Seq(DOMAIN w.nodes)
    /\ \A i, j \in 1..Len(q) : q[i] = q[j] => i = j
    /\ \A i \in 1..Len(q) : \A m \in Sources(w, q[i]) : m \in settled \/ \E j \in 1..Len(q) : j < i /\ q[j] = m

ReadyAfter(w, done) ==
    {n \in DOMAIN w.nodes \ ToSet(done) :
        \A e \in Incoming(w, w.nodes[n].id) : Position(w, w.edges[e].source) \in ToSet(done)}
Visits(next, w) ==
    \A done \in Seq(DOMAIN w.nodes) :
        next[done] = IF ReadyAfter(w, done) = {} THEN done ELSE next[Append(done, Min(ReadyAfter(w, done)))]
Unvisited(w) == [done \in Seq(DOMAIN w.nodes) |-> Cardinality(DOMAIN w.nodes \ ToSet(done))]

LEMMA ReadyFacts ==
    ASSUME NEW w, IsFlow(w)
    PROVE  /\ Unvisited(w) \in [Seq(DOMAIN w.nodes) -> Nat]
           /\ \A done \in Seq(DOMAIN w.nodes) :
                 LET n == Min(ReadyAfter(w, done))
                 IN ReadyAfter(w, done) # {} =>
                       /\ n \in ReadyAfter(w, done) /\ Append(done, n) \in Seq(DOMAIN w.nodes)
                       /\ Unvisited(w)[Append(done, n)] < Unvisited(w)[done]
  <1> DEFINE D == DOMAIN w.nodes
  <1>1. D \in SUBSET Nat /\ IsFiniteSet(D)
    <2>1. D = 1..Len(w.nodes) /\ Len(w.nodes) \in Nat
      BY FlowFacts
    <2> QED BY <2>1, FS_Interval
  <1>2. \A done \in Seq(D) : Cardinality(D \ ToSet(done)) \in Nat
    BY <1>1, FS_Difference, FS_CardinalityType
  <1>3. ASSUME NEW done \in Seq(D), ReadyAfter(w, done) # {}, NEW n, n = Min(ReadyAfter(w, done))
        PROVE  n \in ReadyAfter(w, done) /\ Append(done, n) \in Seq(D)
               /\ Unvisited(w)[Append(done, n)] < Unvisited(w)[done]
    <2>1. ReadyAfter(w, done) \in SUBSET Nat
      BY <1>1 DEF ReadyAfter
    <2>2. n \in ReadyAfter(w, done)
      BY <1>3, <2>1, MinIsLeast
    <2>3. n \in D /\ n \notin ToSet(done)
      BY <2>2 DEF ReadyAfter
    <2> HIDE DEF D
    <2>4. Append(done, n) \in Seq(D) /\ ToSet(Append(done, n)) = ToSet(done) \cup {n}
      BY <2>3, AppendFacts
    <2>5. ToSet(done) \in SUBSET D
      BY ElementOfSeq, LenProperties DEF ToSet
    <2>6. ToSet(done) \cup {n} \in SUBSET D /\ ToSet(done) \subseteq ToSet(done) \cup {n}
          /\ ToSet(done) # ToSet(done) \cup {n}
      BY <2>3, <2>5
    <2>7. Cardinality(D \ (ToSet(done) \cup {n})) < Cardinality(D \ ToSet(done))
      BY <1>1, <2>5, <2>6, LeftShrinks
    <2> QED BY <2>2, <2>4, <2>7 DEF Unvisited, D
  <1>4. Unvisited(w) \in [Seq(D) -> Nat]
    BY <1>2 DEF Unvisited
  <1> QED BY <1>3, <1>4

LEMMA OrderUnfold ==
    ASSUME NEW w, IsFlow(w)
    PROVE  \E next : ExecutionOrder(w) = next[<<>>] /\ Visits(next, w)
  <1> DEFINE Q == Seq(DOMAIN w.nodes)
             R == ByRank(Q, Unvisited(w))
             Body(g, done) == IF ReadyAfter(w, done) = {} THEN done ELSE g[Append(done, Min(ReadyAfter(w, done)))]
             F == [done \in Q |-> [g \in [Q -> Q] |-> Body(g, done)]]
             W(next) ==
                [done \in Seq(DOMAIN w.nodes) |->
                    LET ready == {n \in DOMAIN w.nodes \ ToSet(done) :
                                     \A e \in Incoming(w, w.nodes[n].id) :
                                           Position(w, w.edges[e].source) \in ToSet(done)}
                    IN IF ready = {} THEN done ELSE next[Append(done, Min(ready))]]
             next == CHOOSE next : next = W(next)
  <1>1. ExecutionOrder(w) = next[<<>>]
    BY DEF ExecutionOrder
  <1>2. \A g : W(g) = [done \in Q |-> Body(g, done)]
    BY DEF ReadyAfter
  <1>3. ASSUME NEW done \in Q, ReadyAfter(w, done) # {}
        PROVE  LET t == Append(done, Min(ReadyAfter(w, done))) IN t \in Q /\ <<t, done>> \in R
    <2> DEFINE t == Append(done, Min(ReadyAfter(w, done)))
    <2>1. t \in Q /\ Unvisited(w)[t] < Unvisited(w)[done]
      BY <1>3, ReadyFacts
    <2> HIDE DEF t, Q
    <2>2. <<t, done>> \in R
      BY <2>1 DEF ByRank
    <2> QED BY <2>1, <2>2 DEF t
  <1>4. F \in [Q -> [[Q -> Q] -> Q]]
    <2> HIDE DEF Q, R
    <2> QED BY <1>3
  <1>5. AsksBelow(F, R, Q, Q)
    <2> HIDE DEF Q, R
    <2> QED BY <1>3 DEF AsksBelow
  <1>6. PICK f \in [Q -> Q] : \A done \in Q : f[done] = F[done][f]
    <2>1. Unvisited(w) \in [Q -> Nat]
      BY ReadyFacts
    <2>2. Q # {}
      BY EmptySeq
    <2> HIDE DEF Q, F
    <2>3. Solvable(F, Q, Q)
      BY <1>4, <1>5, <2>1, <2>2, RankedRecursion
    <2> QED BY <2>3 DEF Solvable
  <1>7. f = W(f)
    <2>1. \A done \in Q : f[done] = Body(f, done)
      <3> HIDE DEF Q, Body
      <3> QED BY <1>6
    <2> HIDE DEF Q, F, W, Body
    <2> QED BY <1>2, <1>6, <2>1
  <1>8. next = W(next)
    <2> HIDE DEF W
    <2> QED BY <1>7
  <1> HIDE DEF next, W
  <1>9. \A done \in Q : next[done] = Body(next, done)
    <2> HIDE DEF Q, Body
    <2> QED BY <1>2, <1>8
  <1> QED BY <1>1, <1>9 DEF Visits

\* A node that is ready may come next.
LEMMA ReadyComesNext ==
    ASSUME NEW w, NEW q, InOrder(w, q, {}), NEW n \in ReadyAfter(w, q)
    PROVE  InOrder(w, Append(q, n), {})
  <1> DEFINE D == DOMAIN w.nodes
             p == Append(q, n)
  <1>1. q \in Seq(D) /\ n \in D /\ n \notin ToSet(q) /\ Sources(w, n) \subseteq ToSet(q)
    BY DEF InOrder, ReadyAfter, Sources
  <1>2. /\ p \in Seq(D) /\ Len(p) = Len(q) + 1 /\ p[Len(q) + 1] = n
        /\ \A i \in 1..Len(q) : p[i] = q[i]
    <2> HIDE DEF D
    <2> QED BY <1>1, AppendFacts
  <1>3. Len(q) \in Nat /\ DOMAIN q = 1..Len(q)
    <2> HIDE DEF D
    <2> QED BY <1>1, LenProperties
  <1>4. \A i \in 1..(Len(q) + 1) : i \in 1..Len(q) \/ i = Len(q) + 1
    BY <1>3, LastIndex
  <1>5. \A i \in 1..Len(q) : i \in 1..(Len(q) + 1) /\ i < Len(q) + 1 /\ q[i] # n
    BY <1>1, <1>3 DEF ToSet
  <1> HIDE DEF p
  <1>6. \A i, j \in 1..Len(p) : p[i] = p[j] => i = j
    BY <1>2, <1>4, <1>5 DEF InOrder
  <1>7. ASSUME NEW i \in 1..Len(p), NEW m \in Sources(w, p[i])
        PROVE  \E j \in 1..Len(p) : j < i /\ p[j] = m
    <2>1. CASE i \in 1..Len(q)
      <3>1. PICK j \in 1..Len(q) : j < i /\ q[j] = m
        BY <1>2, <1>7, <2>1 DEF InOrder
      <3> QED BY <1>2, <1>5, <3>1
    <2>2. CASE i = Len(q) + 1
      <3>1. m \in ToSet(q)
        BY <1>1, <1>2, <1>7, <2>2
      <3>2. PICK j \in 1..Len(q) : q[j] = m
        BY <1>3, <3>1 DEF ToSet
      <3> QED BY <1>2, <1>5, <2>2, <3>2
    <2> QED BY <1>2, <1>4, <2>1, <2>2
  <1> QED BY <1>2, <1>6, <1>7 DEF InOrder, p

\* Where there is no gate, something is ready as long as anything is left.
LEMMA SomethingIsReady ==
    ASSUME NEW d, NEW w, IsFlow(w), Checked(d, w), \A n \in 1..Len(w.nodes) : ~IsGate(d, w.nodes[n]),
           NEW done, ReadyAfter(w, done) = {}
    PROVE  DOMAIN w.nodes \subseteq ToSet(done)
  <1> DEFINE T == DOMAIN w.nodes \ ToSet(done)
             R == Steps(w, Everything(w))
             B == {p \in T \X T : <<p[2], p[1]>> \in R}
  <1>1. SUFFICES ASSUME T # {} PROVE FALSE
    OBVIOUS
  <1>2. DOMAIN w.nodes = 1..Len(w.nodes) /\ Len(w.nodes) \in Nat
    BY FlowFacts
  <1>3. \A n \in T : \E m \in T : <<n, m>> \in B
    <2>1. SUFFICES ASSUME NEW n \in T PROVE \E m \in T : <<n, m>> \in B
      OBVIOUS
    <2>2. PICK m \in Sources(w, n) : m \notin ToSet(done)
      BY DEF ReadyAfter, Sources
    <2>3. m \in 1..Len(w.nodes) /\ <<m, n>> \in R
      BY <1>2, <2>2, SourcesAreSteps
    <2> HIDE DEF R
    <2> QED BY <1>2, <2>2, <2>3
  <1>4. IsFiniteSet(T)
    <2>1. IsFiniteSet(1..Len(w.nodes))
      BY <1>2, FS_Interval
    <2> QED BY <1>2, <2>1, FS_Difference
  <1>5. PICK U \in SUBSET T : U # {} /\ \A y \in U : \E x \in U : <<x, y>> \in B
    <2> HIDE DEF T, B
    <2> QED BY <1>1, <1>3, <1>4, CycleTurns
  <1>6. GoesOn(U, Steps(w, Everything(w)))
    BY <1>5 DEF GoesOn
  <1>7. U \in SUBSET (1..Len(w.nodes))
    BY <1>2
  <1>8. PICK provided : ValidateControlFlow(d, w, provided) = {}
    BY CheckedFacts
  <1> QED BY <1>5, <1>6, <1>7, <1>8, NoCycle

LEMMA OrderIsComplete ==
    ASSUME NEW d, NEW w, IsFlow(w), Checked(d, w), \A n \in 1..Len(w.nodes) : ~IsGate(d, w.nodes[n])
    PROVE  InOrder(w, ExecutionOrder(w), {}) /\ ToSet(ExecutionOrder(w)) = DOMAIN w.nodes
  <1> DEFINE D == DOMAIN w.nodes
             Q == Seq(D)
             Good(q) == InOrder(w, q, {}) /\ D \subseteq ToSet(q)
  <1>1. PICK next : ExecutionOrder(w) = next[<<>>] /\ Visits(next, w)
    BY OrderUnfold
  <1> DEFINE T == {done \in Q : InOrder(w, done, {}) /\ ~Good(next[done])}
  <1>2. T = {}
    <2>1. SUFFICES ASSUME T # {} PROVE FALSE
      OBVIOUS
    <2>2. PICK done \in T : \A q \in T : Unvisited(w)[done] <= Unvisited(w)[q]
      <3>1. T \in SUBSET Q /\ Unvisited(w) \in [Q -> Nat]
        BY ReadyFacts
      <3> HIDE DEF T, Q
      <3> QED BY <2>1, <3>1, LeastRank
    <2>3. done \in Q /\ InOrder(w, done, {}) /\ ~Good(next[done])
      OBVIOUS
    <2>4. CASE ReadyAfter(w, done) = {}
      <3>1. next[done] = done
        BY <1>1, <2>3, <2>4 DEF Visits
      <3>2. D \subseteq ToSet(done)
        BY <2>4, SomethingIsReady
      <3> QED BY <2>3, <3>1, <3>2
    <2>5. CASE ReadyAfter(w, done) # {}
      <3> DEFINE n == Min(ReadyAfter(w, done))
                 t == Append(done, n)
      <3>1. n \in ReadyAfter(w, done) /\ t \in Q /\ Unvisited(w)[t] < Unvisited(w)[done]
        BY <2>3, <2>5, ReadyFacts
      <3>2. next[done] = next[t]
        BY <1>1, <2>3, <2>5 DEF Visits
      <3>3. InOrder(w, t, {})
        <4> HIDE DEF n
        <4> QED BY <2>3, <3>1, ReadyComesNext
      <3>4. Unvisited(w)[t] \in Nat /\ Unvisited(w)[done] \in Nat
        BY <2>3, <3>1, ReadyFacts
      <3> HIDE DEF t, n
      <3>5. t \notin T
        <4>1. ~(Unvisited(w)[done] <= Unvisited(w)[t])
          BY <3>1, <3>4
        <4> HIDE DEF T
        <4> QED BY <2>2, <4>1
      <3> HIDE DEF Good
      <3> QED BY <2>3, <3>1, <3>2, <3>3, <3>5
    <2> QED BY <2>4, <2>5
  <1>3. <<>> \in Q /\ InOrder(w, <<>>, {})
    BY EmptySeq DEF InOrder
  <1>4. Good(ExecutionOrder(w))
    <2> HIDE DEF Good, Q
    <2> QED BY <1>1, <1>2, <1>3
  <1>5. ToSet(ExecutionOrder(w)) \subseteq D
    <2>1. ExecutionOrder(w) \in Seq(D)
      BY <1>4 DEF InOrder
    <2> HIDE DEF D
    <2> QED BY <2>1, ElementOfSeq, LenProperties DEF ToSet
  <1> QED BY <1>4, <1>5

-------------------------------------------------------------------------------
(* Types *)

\* A document that is executed here, node by node.
Runnable == doc \in Documents /\ Accepted(doc) /\ ~RequiresControlFlow(Workflow)

LEMMA RunnableFacts ==
    ASSUME Runnable
    PROVE  /\ IsFlow(Workflow) /\ Checked(doc, Workflow)
           /\ DOMAIN Workflow.nodes = Nodes /\ Nodes = 1..Len(Workflow.nodes)
           /\ \A n \in Nodes : /\ ~IsGate(doc, Workflow.nodes[n])
                               /\ Workflow.nodes[n].kind # Composite /\ Workflow.nodes[n].kind \in DOMAIN Registry
  <1>1. Workflow \in WorkflowsOf(doc)
    BY DEF Workflow, WorkflowsOf
  <1>2. IsFlow(Workflow) /\ Checked(doc, Workflow)
    BY <1>1, DocumentAssumption, AcceptedIsChecked DEF Runnable
  <1>3. DOMAIN Workflow.nodes = Nodes /\ Nodes = 1..Len(Workflow.nodes)
    <2>1. DOMAIN Workflow.nodes = Nodes
      BY NodesAssumption DEF Runnable, Workflow
    <2> QED BY <1>2, <2>1, FlowFacts
  <1>4. ASSUME NEW n \in Nodes
        PROVE  /\ ~IsGate(doc, Workflow.nodes[n])
               /\ Workflow.nodes[n].kind # Composite /\ Workflow.nodes[n].kind \in DOMAIN Registry
    <2>1. HasSpec(doc, Workflow.nodes[n])
      BY <1>2, <1>3, CheckedFacts
    <2>2. Workflow.nodes[n].kind # Composite
      BY <1>3 DEF Runnable, RequiresControlFlow
    <2>3. Workflow.nodes[n].kind \in DOMAIN Registry
      BY <2>1, <2>2 DEF HasSpec
    <2>4. Registry[Workflow.nodes[n].kind].control = "normal"
      BY <1>3, <2>3 DEF Runnable, RequiresControlFlow
    <2>5. ~IsGate(doc, Workflow.nodes[n])
      BY <2>2, <2>4 DEF IsGate, SpecOf
    <2> QED BY <2>2, <2>3, <2>5
  <1> QED BY <1>2, <1>3, <1>4

LEMMA RunnableOrder ==
    ASSUME Runnable
    PROVE  InOrder(Workflow, ExecutionOrder(Workflow), {}) /\ ToSet(ExecutionOrder(Workflow)) = Nodes
           /\ ExecutionOrder(Workflow) \in Seq(Nodes)
  <1>1. InOrder(Workflow, ExecutionOrder(Workflow), {}) /\ ToSet(ExecutionOrder(Workflow)) = DOMAIN Workflow.nodes
    BY RunnableFacts, OrderIsComplete
  <1> QED BY <1>1, RunnableFacts DEF InOrder

\* Where a run comes from, and what it has not yet done.
Origin ==
    /\ doc \in Documents
    /\ phase \in {"handed", "running"} => Accepted(doc)
    /\ phase = "running" => ~RequiresControlFlow(Workflow)
Idle ==
    /\ phase # "running" => executing = 0
    /\ phase # "over" => status = "none"
    /\ phase \in {"fresh", "handed"} => DOMAIN outputs \cup failed \cup skipped \cup unavailable = {} /\ ~cancelled
Grounded == TypeOK /\ Origin /\ Idle

LEMMA TurnFacts ==
    ASSUME Grounded, NEW n \in Nodes, Turn(n)
    PROVE  /\ Runnable /\ n = Head(order) /\ order # <<>> /\ executing = 0 /\ order' \in Seq(Nodes)
           /\ order' = Tail(order) /\ phase = "running" /\ ~cancelled
           /\ UNCHANGED <<doc, phase, status, cancelled, paused>>
  BY HeadTailProperties DEF Grounded, TypeOK, Origin, Turn, Runnable, control

LEMMA ExecutingFacts ==
    ASSUME Grounded, executing # 0
    PROVE  Runnable /\ phase = "running" /\ executing \in Nodes /\ status = "none"
  BY DEF Grounded, TypeOK, Origin, Idle, Runnable

LEMMA GroundedInit ==
    ASSUME Init PROVE Grounded
  <1>1. DOMAIN outputs = {}
    BY DEF Init
  <1>2. order \in Seq(Nodes)
    BY EmptySeq DEF Init
  <1> QED BY <1>1, <1>2 DEF Init, Grounded, TypeOK, Origin, Idle

LEMMA GroundedInductive ==
    ASSUME Grounded, [Next]_vars
    PROVE  Grounded'
  <1>1. CASE UNCHANGED vars
    BY <1>1 DEF vars, books, control, Grounded, TypeOK, Origin, Idle, Workflow
  <1>2. CASE Admit
    <2>1. phase = "fresh" /\ UNCHANGED <<doc, executing, outputs, failed, skipped, unavailable, cancelled, paused>>
      BY <1>2 DEF Admit, books, control
    <2>2. CASE ~Accepted(doc) /\ Refuse
      BY <2>1, <2>2 DEF Refuse, Grounded, TypeOK, Origin, Idle, Workflow
    <2>3. CASE Accepted(doc) /\ RequiresControlFlow(Workflow) /\ HandOver
      BY <2>1, <2>3 DEF HandOver, Grounded, TypeOK, Origin, Idle, Workflow
    <2>4. CASE Accepted(doc) /\ ~RequiresControlFlow(Workflow) /\ Begin
      <3>1. ExecutionOrder(Workflow) \in Seq(Nodes)
        BY <2>4, RunnableOrder DEF Runnable, Grounded, Origin
      <3>2. phase' = "running" /\ order' = ExecutionOrder(Workflow) /\ status' = status
        BY <2>4 DEF Begin
      <3>3. TypeOK'
        BY <2>1, <3>1, <3>2 DEF Grounded, TypeOK
      <3>4. Origin' /\ Idle'
        BY <2>1, <2>4, <3>2 DEF Grounded, TypeOK, Origin, Idle, Workflow
      <3> QED BY <3>3, <3>4 DEF Grounded
    <2> QED BY <1>2, <2>2, <2>3, <2>4 DEF Admit
  <1>3. ASSUME NEW n \in Nodes, SkipNode(n) PROVE Grounded'
    <2>1. Turn(n)
      BY <1>3 DEF SkipNode
    <2> QED BY <1>3, <2>1, TurnFacts DEF SkipNode, Grounded, TypeOK, Origin, Idle, Workflow
  <1>4. ASSUME NEW n \in Nodes, RefuseNode(n) PROVE Grounded'
    <2>1. Turn(n)
      BY <1>4 DEF RefuseNode
    <2> QED BY <1>4, <2>1, TurnFacts DEF RefuseNode, Grounded, TypeOK, Origin, Idle, Workflow
  <1>5. ASSUME NEW n \in Nodes, StartNode(n) PROVE Grounded'
    <2>1. Turn(n)
      BY <1>5 DEF StartNode
    <2> QED BY <1>5, <2>1, TurnFacts DEF StartNode, books, Grounded, TypeOK, Origin, Idle, Workflow
  <1>6. CASE FinishNode
    <2>1. Runnable /\ executing \in Nodes /\ phase = "running" /\ executing # 0
      BY <1>6, ExecutingFacts DEF FinishNode
    <2> DEFINE node == Workflow.nodes[executing]
               names == {p.name : p \in ToSet(SpecOf(doc, node).outputs)}
    <2>2. names \subseteq Ports
      <3>1. node.kind # Composite /\ node.kind \in DOMAIN Registry
        BY <2>1, RunnableFacts
      <3>2. SpecOf(doc, node) = Registry[node.kind]
        BY <3>1 DEF SpecOf
      <3> QED BY <3>1, <3>2, PortsAssumption
    <2>3. PICK produced \in SUBSET names :
             outputs' = [n \in DOMAIN outputs \cup {executing} |-> IF n = executing THEN produced ELSE outputs[n]]
      BY <1>6 DEF FinishNode
    <2> HIDE DEF names, node
    <2>4. DOMAIN outputs' = DOMAIN outputs \cup {executing}
      BY <2>3
    <2>5. /\ executing' = 0
          /\ UNCHANGED <<doc, phase, order, failed, skipped, unavailable, status, cancelled, paused>>
      BY <1>6 DEF FinishNode, control
    <2>6. \A n \in DOMAIN outputs' : outputs'[n] \subseteq Ports
      BY <2>2, <2>3 DEF Grounded, TypeOK
    <2>7. TypeOK'
      BY <2>1, <2>4, <2>5, <2>6 DEF Grounded, TypeOK
    <2>8. Origin' /\ Idle'
      BY <2>1, <2>5 DEF Grounded, Origin, Idle, Workflow
    <2> QED BY <2>7, <2>8 DEF Grounded
  <1>7. CASE FailNode
    BY <1>7, ExecutingFacts DEF FailNode, control, Grounded, TypeOK, Origin, Idle, Workflow
  <1>8. CASE CancelNode
    BY <1>8, ExecutingFacts, EmptySeq DEF CancelNode, control, Grounded, TypeOK, Origin, Idle, Workflow
  <1>9. CASE Finish
    BY <1>9 DEF Finish, books, control, Grounded, TypeOK, Origin, Idle, Workflow
  <1>10. CASE Cancel
    BY <1>10 DEF Cancel, books, control, Grounded, TypeOK, Origin, Idle, Workflow
  <1>11. CASE PauseOrResume
    BY <1>11 DEF PauseOrResume, books, control, Grounded, TypeOK, Origin, Idle, Workflow
  <1> QED BY <1>1, <1>2, <1>3, <1>4, <1>5, <1>6, <1>7, <1>8, <1>9, <1>10, <1>11 DEF Next, Schedule, Visit

-------------------------------------------------------------------------------
(* What has been visited *)

Settled == DOMAIN outputs \cup failed \cup skipped
Now == {executing} \ {0}

\* A node that is still to be visited, or at work, has left no trace; a node has one fate.
Apart ==
    /\ \A i, j \in 1..Len(order) : order[i] = order[j] => i = j
    /\ ToSet(order) \cap (Settled \cup unavailable \cup Now) = {}
    /\ executing \notin Settled \cup unavailable
    /\ DOMAIN outputs \cap unavailable = {}
    /\ failed \cup skipped \subseteq unavailable /\ failed \cap skipped = {}

\* The run was not given up.
Reliable == (phase = "running" /\ ~cancelled) \/ status = "completed" \/ (status = "failed" /\ failed # {})

\* Everything that feeds a settled node is settled, and what it found unavailable
\* still tells whether it was passed over.
Accounts ==
    /\ Runnable
    /\ InOrder(Workflow, order, Settled \cup Now)
    /\ Nodes \subseteq ToSet(order) \cup Settled \cup Now
    /\ unavailable = failed \cup skipped
    /\ \A n \in Settled \cup Now : Sources(Workflow, n) \subseteq Settled
    /\ \A n \in Settled \cup Now :
          n \in skipped <=> ~Workflow.nodes[n].enabled \/ Sources(Workflow, n) \cap unavailable # {}
Concluded ==
    phase # "running" => order = <<>> /\ executing = 0 /\ (status = "completed" <=> failed = {})

EngineInv == Grounded /\ Apart /\ (Reliable => Accounts /\ Concluded)

LEMMA BlockedIs ==
    ASSUME NEW n
    PROVE  Blocked(n) <=> Sources(Workflow, n) \cap unavailable # {}
  BY DEF Blocked, Feeds, Sources

\* The head of the order, and what stays behind it.
LEMMA TailFacts ==
    ASSUME order \in Seq(Nodes), order # <<>>, Apart, NEW n, n = Head(order)
    PROVE  /\ n \in Nodes /\ n \in ToSet(order) /\ Tail(order) \in Seq(Nodes)
           /\ \A i, j \in 1..Len(Tail(order)) : Tail(order)[i] = Tail(order)[j] => i = j
           /\ ToSet(Tail(order)) = ToSet(order) \ {n}
  <1>1. /\ n \in Nodes /\ Tail(order) \in Seq(Nodes) /\ n = order[1]
        /\ Len(order) \in Nat \ {0} /\ DOMAIN order = 1..Len(order)
        /\ Len(Tail(order)) = Len(order) - 1 /\ DOMAIN Tail(order) = 1..(Len(order) - 1)
        /\ \A i \in 1..(Len(order) - 1) : Tail(order)[i] = order[i + 1]
        /\ ToSet(order) = {n} \cup ToSet(Tail(order))
    BY HeadAndTail
  <1>2. 1 \in 1..Len(order) /\ \A i \in 1..(Len(order) - 1) : i + 1 \in 1..Len(order) /\ i + 1 # 1
    BY <1>1
  <1>3. \A i, j \in 1..(Len(order) - 1) : Tail(order)[i] = Tail(order)[j] => i = j
    <2>1. \A i, j \in 1..(Len(order) - 1) : order[i + 1] = order[j + 1] => i + 1 = j + 1
      BY <1>2 DEF Apart
    <2> QED BY <1>1, <2>1
  <1>4. \A i \in 1..(Len(order) - 1) : Tail(order)[i] # n
    BY <1>1, <1>2 DEF Apart
  <1>5. n \notin ToSet(Tail(order))
    BY <1>1, <1>4 DEF ToSet
  <1> QED BY <1>1, <1>3, <1>5

\* When the head is settled the rest is still in order.
LEMMA TailInOrder ==
    ASSUME NEW w, NEW q, NEW S, InOrder(w, q, S), q # <<>>, DOMAIN w.nodes = Nodes
    PROVE  /\ Sources(w, Head(q)) \subseteq S
           /\ InOrder(w, Tail(q), S \cup {Head(q)})
  <1>1. /\ Len(q) \in Nat /\ Len(q) # 0 /\ q \in Seq(Nodes)
        /\ Tail(q) \in Seq(Nodes) /\ Len(Tail(q)) = Len(q) - 1
        /\ \A i \in 1..(Len(q) - 1) : Tail(q)[i] = q[i + 1]
    BY EmptySeq, LenProperties, HeadTailProperties DEF InOrder
  <1>2. 1 \in 1..Len(q) /\ Head(q) = q[1] /\ \A j \in 1..Len(q) : ~(j < 1)
    BY <1>1
  <1>3. \A i \in 1..(Len(q) - 1) : i + 1 \in 1..Len(q)
    BY <1>1
  <1>4. Sources(w, Head(q)) \subseteq S
    BY <1>2 DEF InOrder
  <1>5. \A i, j \in 1..(Len(q) - 1) : Tail(q)[i] = Tail(q)[j] => i = j
    <2>1. \A i, j \in 1..(Len(q) - 1) : q[i + 1] = q[j + 1] => i + 1 = j + 1
      BY <1>3 DEF InOrder
    <2> QED BY <1>1, <2>1
  <1>6. ASSUME NEW i \in 1..(Len(q) - 1), NEW m \in Sources(w, Tail(q)[i]), m \notin S \cup {Head(q)}
        PROVE  \E j \in 1..(Len(q) - 1) : j < i /\ Tail(q)[j] = m
    <2>1. PICK k \in 1..Len(q) : k < i + 1 /\ q[k] = m
      BY <1>1, <1>3, <1>6 DEF InOrder
    <2>2. k # 1
      BY <1>2, <1>6, <2>1
    <2>3. k - 1 \in 1..(Len(q) - 1) /\ k - 1 < i /\ (k - 1) + 1 = k
      BY <1>1, <2>1, <2>2
    <2> QED BY <1>1, <2>1, <2>3
  <1> QED BY <1>1, <1>4, <1>5, <1>6 DEF InOrder

LEMMA SettledMore ==
    ASSUME NEW w, NEW q, NEW S, NEW T, InOrder(w, q, S), S \subseteq T
    PROVE  InOrder(w, q, T)
  BY DEF InOrder

\* The turn of a node: its sources are settled, and so is it for what follows.
LEMMA TurnAccounts ==
    ASSUME Grounded, Apart, Accounts, NEW n \in Nodes, Turn(n)
    PROVE  /\ InOrder(Workflow, Tail(order), Settled \cup {n})
           /\ Sources(Workflow, n) \subseteq Settled
           /\ PassedOver(n) <=> ~Workflow.nodes[n].enabled \/ Sources(Workflow, n) \cap unavailable # {}
  <1>1. n = Head(order) /\ order # <<>> /\ InOrder(Workflow, order, Settled) /\ DOMAIN Workflow.nodes = Nodes
    <2>1. Settled \cup Now = Settled
      BY TurnFacts DEF Now
    <2> QED BY <2>1, TurnFacts, RunnableFacts DEF Accounts
  <1>2. Sources(Workflow, n) \subseteq Settled /\ InOrder(Workflow, Tail(order), Settled \cup {n})
    BY <1>1, TailInOrder
  <1>3. PassedOver(n) <=> ~Workflow.nodes[n].enabled \/ Sources(Workflow, n) \cap unavailable # {}
    BY BlockedIs DEF PassedOver
  <1> QED BY <1>2, <1>3

LEMMA TurnApart ==
    ASSUME Grounded, Apart, NEW n \in Nodes, Turn(n)
    PROVE  /\ \A i, j \in 1..Len(order') : order'[i] = order'[j] => i = j
           /\ ToSet(order') = ToSet(order) \ {n} /\ n \in ToSet(order)
           /\ n \notin Settled \cup unavailable /\ n # 0 /\ Now = {}
  <1>1. order \in Seq(Nodes) /\ order # <<>> /\ n = Head(order) /\ order' = Tail(order) /\ executing = 0
    BY TurnFacts DEF Grounded, TypeOK
  <1>2. /\ n \in ToSet(order) /\ ToSet(Tail(order)) = ToSet(order) \ {n}
        /\ \A i, j \in 1..Len(Tail(order)) : Tail(order)[i] = Tail(order)[j] => i = j
    BY <1>1, TailFacts
  <1>3. n \notin Settled \cup unavailable
    BY <1>2 DEF Apart
  <1>4. n # 0
    BY NodesAssumption
  <1> QED BY <1>1, <1>2, <1>3, <1>4 DEF Now

\* In a turn the run is neither given up nor over.
LEMMA TurnReliable ==
    ASSUME Grounded, NEW n \in Nodes, Turn(n)
    PROVE  Reliable /\ Workflow' = Workflow /\ (Runnable => Runnable') /\ Concluded'
  BY TurnFacts DEF Reliable, Workflow, Runnable, Concluded

LEMMA SkipKeeps ==
    ASSUME EngineInv, NEW n \in Nodes, SkipNode(n)
    PROVE  Apart' /\ (Reliable' => Accounts' /\ Concluded')
  <1>1. /\ Turn(n) /\ PassedOver(n) /\ Grounded /\ Apart
        /\ skipped' = skipped \cup {n} /\ unavailable' = unavailable \cup {n}
        /\ executing' = executing /\ outputs' = outputs /\ failed' = failed
    BY DEF EngineInv, SkipNode
  <1>2. Settled' = Settled \cup {n} /\ Now' = Now
    BY <1>1 DEF Settled, Now
  <1>3. Apart'
    <2>1. /\ \A i, j \in 1..Len(order') : order'[i] = order'[j] => i = j
          /\ ToSet(order') = ToSet(order) \ {n} /\ n \in ToSet(order)
          /\ n \notin Settled \cup unavailable /\ n # 0 /\ Now = {} /\ executing = 0
      BY <1>1, TurnApart, TurnFacts
    <2> QED BY <1>1, <1>2, <2>1, NodesAssumption DEF Apart, Settled
  <1>4. Accounts'
    <2>1. Accounts /\ order' = Tail(order) /\ Workflow' = Workflow /\ Runnable'
      BY <1>1, TurnFacts, TurnReliable DEF EngineInv
    <2>2. /\ InOrder(Workflow, Tail(order), Settled \cup {n}) /\ Sources(Workflow, n) \subseteq Settled
          /\ ~Workflow.nodes[n].enabled \/ Sources(Workflow, n) \cap unavailable # {}
      BY <1>1, <2>1, TurnAccounts
    <2>3. ToSet(order') = ToSet(order) \ {n} /\ n \notin Settled /\ n \notin unavailable /\ Now = {}
      BY <1>1, TurnApart
    <2>4. \A k \in Settled : Sources(Workflow, k) \subseteq Settled /\ k # n
      BY <2>1, <2>3 DEF Accounts
    <2>5. \A k \in Settled' \cup Now' : Sources(Workflow, k) \subseteq Settled'
      BY <1>2, <2>2, <2>3, <2>4
    <2>6. ASSUME NEW k \in Settled' \cup Now'
          PROVE  k \in skipped' <=> ~Workflow.nodes[k].enabled \/ Sources(Workflow, k) \cap unavailable' # {}
      <3>1. CASE k = n
        BY <1>1, <2>2, <3>1
      <3>2. CASE k # n
        <4>1. k \in Settled /\ n \notin Sources(Workflow, k)
          BY <1>2, <2>3, <2>4, <2>6, <3>2
        <4>2. k \in skipped <=> ~Workflow.nodes[k].enabled \/ Sources(Workflow, k) \cap unavailable # {}
          BY <2>1, <4>1 DEF Accounts
        <4> QED BY <1>1, <3>2, <4>1, <4>2
      <3> QED BY <3>1, <3>2
    <2>7. Nodes \subseteq ToSet(order') \cup Settled' \cup Now' /\ unavailable' = failed' \cup skipped'
      BY <1>1, <1>2, <2>1, <2>3 DEF Accounts
    <2>8. Settled' \cup Now' = Settled \cup {n}
      BY <1>2, <2>3
    <2> QED BY <1>2, <2>1, <2>2, <2>5, <2>6, <2>7, <2>8 DEF Accounts
  <1> QED BY <1>1, <1>3, <1>4, TurnReliable

LEMMA RefuseKeeps ==
    ASSUME EngineInv, NEW n \in Nodes, RefuseNode(n)
    PROVE  Apart' /\ (Reliable' => Accounts' /\ Concluded')
  <1>1. /\ Turn(n) /\ ~PassedOver(n) /\ Grounded /\ Apart
        /\ failed' = failed \cup {n} /\ unavailable' = unavailable \cup {n}
        /\ executing' = executing /\ outputs' = outputs /\ skipped' = skipped
    BY DEF EngineInv, RefuseNode
  <1>2. Settled' = Settled \cup {n} /\ Now' = Now
    BY <1>1 DEF Settled, Now
  <1>3. Apart'
    <2>1. /\ \A i, j \in 1..Len(order') : order'[i] = order'[j] => i = j
          /\ ToSet(order') = ToSet(order) \ {n} /\ n \in ToSet(order)
          /\ n \notin Settled \cup unavailable /\ n # 0 /\ Now = {} /\ executing = 0
      BY <1>1, TurnApart, TurnFacts
    <2> QED BY <1>1, <1>2, <2>1, NodesAssumption DEF Apart, Settled
  <1>4. Accounts'
    <2>1. Accounts /\ order' = Tail(order) /\ Workflow' = Workflow /\ Runnable'
      BY <1>1, TurnFacts, TurnReliable DEF EngineInv
    <2>2. /\ InOrder(Workflow, Tail(order), Settled \cup {n}) /\ Sources(Workflow, n) \subseteq Settled
          /\ Workflow.nodes[n].enabled /\ Sources(Workflow, n) \cap unavailable = {}
      BY <1>1, <2>1, TurnAccounts
    <2>3. ToSet(order') = ToSet(order) \ {n} /\ n \notin Settled /\ n \notin unavailable /\ Now = {}
      BY <1>1, TurnApart
    <2>4. \A k \in Settled : Sources(Workflow, k) \subseteq Settled /\ k # n
      BY <2>1, <2>3 DEF Accounts
    <2>5. \A k \in Settled' \cup Now' : Sources(Workflow, k) \subseteq Settled'
      BY <1>2, <2>2, <2>3, <2>4
    <2>6. ASSUME NEW k \in Settled' \cup Now'
          PROVE  k \in skipped' <=> ~Workflow.nodes[k].enabled \/ Sources(Workflow, k) \cap unavailable' # {}
      <3>1. CASE k = n
        <4>1. n \notin skipped /\ n \notin Sources(Workflow, n)
          BY <2>2, <2>3 DEF Settled
        <4> QED BY <1>1, <2>2, <3>1, <4>1
      <3>2. CASE k # n
        <4>1. k \in Settled /\ n \notin Sources(Workflow, k)
          BY <1>2, <2>3, <2>4, <2>6, <3>2
        <4>2. k \in skipped <=> ~Workflow.nodes[k].enabled \/ Sources(Workflow, k) \cap unavailable # {}
          BY <2>1, <4>1 DEF Accounts
        <4> QED BY <1>1, <3>2, <4>1, <4>2
      <3> QED BY <3>1, <3>2
    <2>7. Nodes \subseteq ToSet(order') \cup Settled' \cup Now' /\ unavailable' = failed' \cup skipped'
      BY <1>1, <1>2, <2>1, <2>3 DEF Accounts
    <2>8. Settled' \cup Now' = Settled \cup {n}
      BY <1>2, <2>3
    <2> QED BY <1>2, <2>1, <2>2, <2>5, <2>6, <2>7, <2>8 DEF Accounts
  <1> QED BY <1>1, <1>3, <1>4, TurnReliable

LEMMA StartKeeps ==
    ASSUME EngineInv, NEW n \in Nodes, StartNode(n)
    PROVE  Apart' /\ (Reliable' => Accounts' /\ Concluded')
  <1>1. /\ Turn(n) /\ ~PassedOver(n) /\ Grounded /\ Apart /\ executing' = n
        /\ UNCHANGED <<outputs, failed, skipped, unavailable>>
    BY DEF EngineInv, StartNode, books
  <1>2. /\ \A i, j \in 1..Len(order') : order'[i] = order'[j] => i = j
        /\ ToSet(order') = ToSet(order) \ {n} /\ n \in ToSet(order)
        /\ n \notin Settled \cup unavailable /\ n # 0 /\ Now = {}
    BY <1>1, TurnApart
  <1>3. Settled' = Settled /\ Now' = {n}
    BY <1>1, <1>2 DEF Settled, Now
  <1>4. Apart'
    BY <1>1, <1>2, <1>3 DEF Apart
  <1>5. Accounts'
    <2>1. Accounts /\ order' = Tail(order) /\ Workflow' = Workflow /\ Runnable'
      BY <1>1, TurnFacts, TurnReliable DEF EngineInv
    <2>2. /\ InOrder(Workflow, Tail(order), Settled \cup {n}) /\ Sources(Workflow, n) \subseteq Settled
          /\ Workflow.nodes[n].enabled /\ Sources(Workflow, n) \cap unavailable = {}
      BY <1>1, <2>1, TurnAccounts
    <2>3. n \notin skipped'
      BY <1>1, <1>2 DEF Settled
    <2>4. Nodes \subseteq ToSet(order') \cup Settled' \cup Now'
      BY <1>2, <1>3, <2>1 DEF Accounts
    <2> QED BY <1>1, <1>2, <1>3, <2>1, <2>2, <2>3, <2>4 DEF Accounts
  <1> QED BY <1>1, <1>4, <1>5, TurnReliable

\* The node at work is settled: it finishes or fails.
LEMMA LeaveKeeps ==
    ASSUME EngineInv, executing # 0, ~cancelled, executing' = 0,
           UNCHANGED <<doc, phase, order, skipped, status, cancelled>>,
           \/ DOMAIN outputs' = DOMAIN outputs \cup {executing} /\ UNCHANGED <<failed, unavailable>>
           \/ /\ failed' = failed \cup {executing} /\ unavailable' = unavailable \cup {executing}
              /\ UNCHANGED outputs
    PROVE  Apart' /\ (Reliable' => Accounts' /\ Concluded')
  <1> DEFINE n == executing
  <1>1. Runnable /\ phase = "running" /\ n \in Nodes /\ n # 0 /\ Reliable /\ Apart /\ Accounts
    BY ExecutingFacts DEF EngineInv, Reliable
  <1>2. Now = {n} /\ Now' = {} /\ Settled' = Settled \cup {n}
    BY DEF Now, Settled
  <1>3. n \notin Settled /\ n \notin unavailable /\ n \notin ToSet(order) /\ 0 \notin Nodes
    BY <1>1, <1>2, NodesAssumption DEF Apart
  <1>4. Settled \cup unavailable \subseteq Nodes
    BY DEF EngineInv, Grounded, TypeOK, Settled
  <1>5. Apart'
    <2>1. \A i, j \in 1..Len(order') : order'[i] = order'[j] => i = j
      BY <1>1 DEF Apart
    <2>2. unavailable' \subseteq unavailable \cup {n}
      OBVIOUS
    <2>3. ToSet(order') \cap (Settled' \cup unavailable' \cup Now') = {}
      BY <1>1, <1>2, <1>3, <2>2 DEF Apart
    <2>4. executing' \notin Settled' \cup unavailable'
      BY <1>1, <1>2, <1>3, <1>4, <2>2
    <2>5. DOMAIN outputs' \cap unavailable' = {}
      BY <1>1, <1>3 DEF Apart, Settled
    <2>6. failed' \cup skipped' \subseteq unavailable' /\ failed' \cap skipped' = {}
      BY <1>1, <1>3 DEF Apart, Settled
    <2> QED BY <2>1, <2>3, <2>4, <2>5, <2>6 DEF Apart
  <1>6. Accounts'
    <2>1. Workflow' = Workflow /\ Runnable'
      BY <1>1 DEF Workflow, Runnable
    <2>2. Settled' \cup Now' = Settled \cup Now
      BY <1>2
    <2>3. \A k \in Settled \cup Now : Sources(Workflow, k) \subseteq Settled
      BY <1>1 DEF Accounts
    <2>4. \A k \in Settled' \cup Now' : Sources(Workflow, k) \subseteq Settled'
      BY <1>2, <2>2, <2>3
    <2>5. ASSUME NEW k \in Settled' \cup Now'
          PROVE  k \in skipped' <=> ~Workflow.nodes[k].enabled \/ Sources(Workflow, k) \cap unavailable' # {}
      <3>1. k \in skipped <=> ~Workflow.nodes[k].enabled \/ Sources(Workflow, k) \cap unavailable # {}
        BY <1>1, <2>2, <2>5 DEF Accounts
      <3>2. n \notin Sources(Workflow, k)
        BY <1>3, <2>2, <2>3, <2>5
      <3> QED BY <3>1, <3>2
    <2>6. InOrder(Workflow, order', Settled' \cup Now') /\ Nodes \subseteq ToSet(order') \cup (Settled' \cup Now')
      BY <1>1, <2>2 DEF Accounts
    <2>7. unavailable' = failed' \cup skipped'
      BY <1>1 DEF Accounts
    <2> QED BY <2>1, <2>4, <2>5, <2>6, <2>7 DEF Accounts
  <1> QED BY <1>1, <1>5, <1>6 DEF Concluded

LEMMA FinishDomain ==
    ASSUME FinishNode PROVE DOMAIN outputs' = DOMAIN outputs \cup {executing}
  <1> DEFINE names == {p.name : p \in ToSet(SpecOf(doc, Workflow.nodes[executing]).outputs)}
  <1>1. PICK produced \in SUBSET names :
             outputs' = [n \in DOMAIN outputs \cup {executing} |-> IF n = executing THEN produced ELSE outputs[n]]
    BY DEF FinishNode
  <1> HIDE DEF names
  <1> QED BY <1>1

\* The run begins: every node stands in the order, behind what feeds it.
LEMMA BeginKeeps ==
    ASSUME EngineInv, phase = "fresh", Accepted(doc), ~RequiresControlFlow(Workflow), Begin,
           UNCHANGED <<doc, executing, outputs, failed, skipped, unavailable, cancelled, paused>>
    PROVE  Apart' /\ Accounts' /\ Concluded'
  <1>1. /\ Runnable /\ executing = 0 /\ Settled = {} /\ unavailable = {} /\ failed = {} /\ skipped = {}
        /\ DOMAIN outputs = {}
    BY DEF EngineInv, Grounded, Origin, Idle, Runnable, Settled
  <1>2. phase' = "running" /\ order' = ExecutionOrder(Workflow) /\ Workflow' = Workflow /\ Runnable'
    BY <1>1 DEF Begin, Workflow, Runnable
  <1>3. /\ InOrder(Workflow, order', {}) /\ ToSet(order') = Nodes
    BY <1>1, <1>2, RunnableOrder
  <1>4. Settled' = {} /\ Now' = {} /\ executing' = 0 /\ 0 \notin Nodes
    BY <1>1, NodesAssumption DEF Settled, Now
  <1>5. Apart'
    BY <1>1, <1>3, <1>4 DEF Apart, InOrder
  <1>6. Accounts'
    BY <1>1, <1>2, <1>3, <1>4 DEF Accounts
  <1> QED BY <1>2, <1>5, <1>6 DEF Concluded

LEMMA EngineInvInit ==
    ASSUME Init PROVE EngineInv
  <1>1. Grounded
    BY GroundedInit
  <1>2. order = <<>> /\ Len(order) = 0 /\ ToSet(order) = {} /\ DOMAIN outputs = {}
    BY DEF Init, ToSet
  <1>3. Apart
    BY <1>2 DEF Init, Apart, Settled
  <1>4. ~Reliable
    BY DEF Init, Reliable
  <1> QED BY <1>1, <1>3, <1>4 DEF EngineInv

LEMMA EngineInvInductive ==
    ASSUME EngineInv, [Next]_vars
    PROVE  EngineInv'
  <1>1. Grounded /\ Grounded' /\ Apart
    BY GroundedInductive DEF EngineInv
  <1> SUFFICES Apart' /\ (Reliable' => Accounts' /\ Concluded')
    BY <1>1 DEF EngineInv
  <1>2. ASSUME UNCHANGED <<doc, phase, order, executing, outputs, failed, skipped, unavailable, status>>, Reliable' => Reliable
        PROVE  Apart' /\ (Reliable' => Accounts' /\ Concluded')
    <2>1. Apart'
      BY <1>1, <1>2 DEF Apart, Settled, Now
    <2>2. Accounts /\ Concluded => Accounts' /\ Concluded'
      BY <1>2 DEF Accounts, Concluded, Settled, Now, Runnable, Workflow
    <2> QED BY <1>2, <2>1, <2>2 DEF EngineInv
  <1>3. CASE UNCHANGED vars
    BY <1>2, <1>3 DEF vars, books, control, Reliable
  <1>4. CASE Admit
    <2>1. phase = "fresh" /\ UNCHANGED <<doc, executing, outputs, failed, skipped, unavailable, cancelled, paused>>
      BY <1>4 DEF Admit, books, control
    <2>2. CASE Accepted(doc) /\ ~RequiresControlFlow(Workflow) /\ Begin
      BY <2>1, <2>2, BeginKeeps
    <2>3. CASE Refuse \/ HandOver
      <3>1. UNCHANGED order /\ failed = {} /\ phase' # "running" /\ status' \in {"none", "failed"}
        BY <1>1, <2>1, <2>3 DEF Refuse, HandOver, Grounded, Idle
      <3>2. Apart'
        BY <1>1, <2>1, <3>1 DEF Apart, Settled, Now
      <3>3. ~Reliable'
        BY <2>1, <3>1 DEF Reliable
      <3> QED BY <3>2, <3>3
    <2> QED BY <1>4, <2>2, <2>3 DEF Admit
  <1>5. ASSUME NEW n \in Nodes, SkipNode(n) \/ RefuseNode(n) \/ StartNode(n)
        PROVE  Apart' /\ (Reliable' => Accounts' /\ Concluded')
    BY <1>5, SkipKeeps, RefuseKeeps, StartKeeps
  <1>6. CASE FinishNode
    BY <1>6, LeaveKeeps, FinishDomain DEF FinishNode, control
  <1>7. CASE FailNode
    BY <1>7, LeaveKeeps DEF FailNode, control
  <1>8. CASE CancelNode
    <2>1. /\ executing # 0 /\ cancelled /\ unavailable' = unavailable \cup {executing} /\ executing' = 0 /\ order' = <<>>
          /\ UNCHANGED <<doc, phase, outputs, failed, skipped, status, cancelled, paused>>
      BY <1>8 DEF CancelNode, control
    <2>2. executing \in Nodes /\ 0 \notin Nodes /\ status = "none" /\ Settled \cup unavailable \subseteq Nodes
      BY <1>1, <2>1, ExecutingFacts, NodesAssumption DEF Grounded, TypeOK, Settled
    <2>3. Settled' = Settled /\ Len(order') = 0 /\ ToSet(order') = {}
      BY <2>1 DEF Settled, ToSet
    <2>4. Apart'
      BY <1>1, <2>1, <2>2, <2>3 DEF Apart, Settled
    <2>5. ~Reliable'
      BY <2>1, <2>2 DEF Reliable
    <2> QED BY <2>4, <2>5
  <1>9. CASE Finish
    <2>1. /\ phase = "running" /\ executing = 0 /\ (order = <<>> \/ cancelled) /\ phase' = "over"
          /\ status' = IF cancelled THEN "cancelled" ELSE IF failed = {} THEN "completed" ELSE "failed"
          /\ UNCHANGED <<doc, order, executing, outputs, failed, skipped, unavailable, cancelled, paused>>
      BY <1>9 DEF Finish, books, control
    <2>2. Apart'
      BY <1>1, <2>1 DEF Apart, Settled, Now
    <2>3. ASSUME ~cancelled PROVE Accounts' /\ Concluded'
      <3>1. Accounts /\ order = <<>>
        BY <2>1, <2>3 DEF EngineInv, Reliable
      <3>2. Accounts'
        BY <2>1, <3>1 DEF Accounts, Settled, Now, Runnable, Workflow
      <3> QED BY <2>1, <2>3, <3>1, <3>2 DEF Concluded
    <2>4. cancelled => ~Reliable'
      BY <2>1 DEF Reliable
    <2> QED BY <2>2, <2>3, <2>4
  <1>10. CASE Cancel
    BY <1>2, <1>10, <1>1 DEF Cancel, books, Reliable, Grounded, Idle
  <1>11. CASE PauseOrResume
    BY <1>2, <1>11 DEF PauseOrResume, books, Reliable
  <1> QED BY <1>3, <1>4, <1>5, <1>6, <1>7, <1>8, <1>9, <1>10, <1>11 DEF Next, Schedule, Visit

-------------------------------------------------------------------------------
(* What follows for every run *)

LEMMA EngineInvHolds == Spec => []EngineInv
  BY EngineInvInit, EngineInvInductive, PTL DEF Spec

\* Every variable keeps to its type; an executor's ports are ports of the registry.
THEOREM TypeCorrect == Spec => []TypeOK
  <1>1. EngineInv => TypeOK
    BY DEF EngineInv, Grounded
  <1> QED BY <1>1, EngineInvHolds, PTL

\* A document is admitted only when each of its cycles of activation passes through a loop
\* gate, and no two gates lie on one way round (validation.rs:934-1103).
THEOREM CyclesAreCounted == Spec => []AcceptedCyclesAreGated
  <1>1. ASSUME EngineInv PROVE AcceptedCyclesAreGated
    <2>1. SUFFICES ASSUME Admitted, NEW w \in AllWorkflows PROVE CyclesAreGated(doc, w)
      BY DEF AcceptedCyclesAreGated, CyclesAreGated
    <2>2. Accepted(doc) /\ doc \in Documents
      BY <1>1, <2>1 DEF EngineInv, Grounded, Origin, Admitted
    <2>3. IsFlow(w) /\ Checked(doc, w)
      BY <2>1, <2>2, DocumentAssumption, AcceptedIsChecked DEF AllWorkflows
    <2> QED BY <2>3, CheckedIsGated
  <1> QED BY <1>1, EngineInvHolds, PTL

\* The definitions of an admitted document can be expanded (validation.rs:551).
THEOREM AdmittedExpands == Spec => []ExpansionEnds
  <1>1. ASSUME EngineInv PROVE ExpansionEnds
    <2>1. SUFFICES ASSUME Admitted PROVE Expands(doc)
      BY DEF ExpansionEnds, Expands
    <2> QED BY <1>1, <2>1, AcceptedExpands DEF EngineInv, Grounded, Origin, Admitted
  <1> QED BY <1>1, EngineInvHolds, PTL

LEMMA ContainedAtEnd ==
    ASSUME EngineInv, status = "completed" \/ (status = "failed" /\ failed # {})
    PROVE  /\ LET R == Steps(Workflow, ToSet(Workflow.edges))
              IN \A n \in Nodes : n \in skipped <=>
                     \/ ~Workflow.nodes[n].enabled
                     \/ \E m \in Nodes \ (DOMAIN outputs \cup {n}) : Reaches(Nodes, R, m, n)
           /\ DOMAIN outputs \cup failed = Nodes \ skipped
           /\ (status = "completed") <=> (failed = {})
  <1> DEFINE R == Steps(Workflow, ToSet(Workflow.edges))
  <1>1. /\ Accounts /\ Concluded /\ Apart /\ phase = "over"
        /\ DOMAIN outputs \subseteq Nodes /\ failed \subseteq Nodes /\ skipped \subseteq Nodes
    BY DEF EngineInv, Reliable, Grounded, Idle, TypeOK
  <1>2. order = <<>> /\ executing = 0 /\ (status = "completed" <=> failed = {})
    BY <1>1 DEF Concluded
  <1>3. ToSet(order) = {} /\ Now = {}
    BY <1>2 DEF ToSet, Now
  <1>4. Settled = Nodes
    BY <1>1, <1>3 DEF Accounts, Settled
  <1>5. /\ unavailable = failed \cup skipped /\ Runnable
        /\ \A n \in Nodes : n \in skipped <=> ~Workflow.nodes[n].enabled \/ Sources(Workflow, n) \cap unavailable # {}
    BY <1>1, <1>4 DEF Accounts
  <1>6. DOMAIN outputs \cap unavailable = {} /\ failed \cap skipped = {}
    BY <1>1 DEF Apart
  <1>7. IsFlow(Workflow) /\ Checked(doc, Workflow) /\ Nodes = 1..Len(Workflow.nodes)
    BY <1>5, RunnableFacts
  <1>8. \A n \in Nodes : /\ Sources(Workflow, n) \subseteq Nodes \ {n}
                         /\ \A m : m \in Sources(Workflow, n) <=> <<m, n>> \in R
    BY <1>7, SourcesAreSteps DEF Everything
  <1>9. \A r \in R : r[2] \in Nodes /\ r[1] \in Sources(Workflow, r[2])
    <2>1. ASSUME NEW r \in R PROVE r[2] \in Nodes /\ r = <<r[1], r[2]>>
      <3>1. PICK e \in ToSet(Workflow.edges) :
               r = <<Position(Workflow, e.source), Position(Workflow, e.target)>>
        BY <2>1 DEF Steps
      <3>2. r = <<r[1], r[2]>>
        BY <3>1
      <3>3. <<r[1], r[2]>> \in Steps(Workflow, ToSet(Workflow.edges))
        BY <2>1, <3>2
      <3> QED BY <1>7, <3>2, <3>3, StepsFacts
    <2> HIDE DEF R
    <2> QED BY <1>8, <2>1
  <1> HIDE DEF R
  <1>10. ASSUME NEW n \in Nodes, n \in skipped, Workflow.nodes[n].enabled
         PROVE  \E m \in Nodes \ (DOMAIN outputs \cup {n}) : Reaches(Nodes, R, m, n)
    <2>1. PICK m \in Sources(Workflow, n) : m \in unavailable
      BY <1>5, <1>10
    <2>2. m \in Nodes \ (DOMAIN outputs \cup {n}) /\ <<m, n>> \in R
      BY <1>6, <1>8, <2>1
    <2>3. Reaches(Nodes, R, m, n)
      BY <2>2 DEF Reaches
    <2> QED BY <2>2, <2>3
  <1>11. ASSUME NEW n \in Nodes, NEW m \in Nodes \ (DOMAIN outputs \cup {n}), Reaches(Nodes, R, m, n)
         PROVE  n \in skipped
    <2> DEFINE T == {m} \cup skipped
    <2>1. T \in SUBSET Nodes /\ T \subseteq unavailable
      BY <1>1, <1>4, <1>5 DEF Settled
    <2>2. \A r \in R : r[1] \in T => r[2] \in T
      BY <1>5, <1>9, <2>1
    <2>3. n \in T
      BY <1>11, <2>1, <2>2 DEF Reaches
    <2> QED BY <2>3
  <1>12. \A n \in Nodes : ~Workflow.nodes[n].enabled => n \in skipped
    BY <1>5
  <1>13. DOMAIN outputs \cup failed = Nodes \ skipped
    BY <1>1, <1>4, <1>5, <1>6 DEF Settled
  <1> QED BY <1>2, <1>10, <1>11, <1>12, <1>13 DEF R

\* In a run that was not given up, what was passed over is what is disabled or descends
\* from a node that did not finish, and nothing else (engine.rs:248-284).
THEOREM FailureTakesDescendants == Spec => []FailureIsContained
  <1>1. ASSUME EngineInv PROVE FailureIsContained
    BY <1>1, ContainedAtEnd DEF FailureIsContained
  <1> QED BY <1>1, EngineInvHolds, PTL

-------------------------------------------------------------------------------
(* The order at the start of a run *)

Untouched ==
    phase = "running" /\ executing = 0 /\ DOMAIN outputs \cup failed \cup skipped \cup unavailable = {} =>
        order = ExecutionOrder(Workflow)

LEMMA UntouchedInductive ==
    ASSUME Grounded, Untouched, [Next]_vars
    PROVE  Untouched'
  <1>1. CASE UNCHANGED vars
    BY <1>1 DEF vars, books, Untouched, Workflow
  <1>2. CASE Admit
    BY <1>2 DEF Admit, Refuse, HandOver, Begin, Untouched, Workflow
  <1>3. ASSUME NEW n \in Nodes, SkipNode(n) \/ RefuseNode(n) PROVE Untouched'
    BY <1>3 DEF SkipNode, RefuseNode, Untouched
  <1>4. ASSUME NEW n \in Nodes, StartNode(n) PROVE Untouched'
    BY <1>4, NodesAssumption DEF StartNode, Untouched
  <1>5. CASE FinishNode
    BY <1>5, FinishDomain DEF FinishNode, Untouched
  <1>6. CASE FailNode
    BY <1>6 DEF FailNode, Untouched
  <1>7. CASE CancelNode
    BY <1>7 DEF CancelNode, Untouched
  <1>8. CASE Finish
    BY <1>8 DEF Finish, Untouched
  <1>9. CASE Cancel \/ PauseOrResume
    BY <1>9 DEF Cancel, PauseOrResume, books, Untouched, Workflow
  <1> QED BY <1>1, <1>2, <1>3, <1>4, <1>5, <1>6, <1>7, <1>8, <1>9 DEF Next, Schedule, Visit

\* A list of all the members of 1..n, each once, has n entries.
LEMMA ListOfAll ==
    ASSUME NEW n \in Nat, NEW q \in Seq(1..n), ToSet(q) = 1..n, \A i, j \in 1..Len(q) : q[i] = q[j] => i = j
    PROVE  Len(q) = n
  <1>1. DOMAIN q = 1..Len(q) /\ Len(q) \in Nat
    BY LenProperties
  <1>2. q \in [1..Len(q) -> 1..n]
    BY <1>1, LenProperties, ElementOfSeq
  <1>3. q \in Bijection(1..Len(q), 1..n)
    BY <1>1, <1>2, Fun_IsBij DEF ToSet
  <1>4. IsFiniteSet(1..n) /\ Cardinality(1..n) = n
    BY FS_Interval
  <1>5. IsFiniteSet(1..Len(q)) /\ Cardinality(1..Len(q)) = Len(q)
    <2>1. \A k \in Nat : IsFiniteSet(1..k) /\ Cardinality(1..k) = k
      BY FS_Interval
    <2> QED BY <1>1, <2>1
  <1>6. ExistsBijection(1..Len(q), 1..n)
    BY <1>3 DEF ExistsBijection
  <1> QED BY <1>4, <1>5, <1>6, FS_Bijection

\* A run that begins visits every node once, each after all that feed it: the branch of the
\* engine for a graph with a cycle is dead (engine.rs:528).
THEOREM OrderCoversTheRun == Spec => []OrderIsTopological
  <1>1. ASSUME EngineInv, Untouched PROVE OrderIsTopological
    <2>1. SUFFICES ASSUME phase = "running", executing = 0, DOMAIN outputs \cup failed \cup skipped \cup unavailable = {}
                   PROVE  /\ ToSet(order) = DOMAIN Workflow.nodes /\ Len(order) = Len(Workflow.nodes)
                          /\ \A i, j \in DOMAIN order :
                                <<order[i], order[j]>> \in Steps(Workflow, ToSet(Workflow.edges)) => i < j
      BY DEF OrderIsTopological
    <2>2. order = ExecutionOrder(Workflow) /\ Runnable
      BY <1>1, <2>1 DEF Untouched, EngineInv, Grounded, Origin, Runnable
    <2>3. /\ IsFlow(Workflow) /\ Checked(doc, Workflow) /\ DOMAIN Workflow.nodes = 1..Len(Workflow.nodes)
          /\ Nodes = 1..Len(Workflow.nodes) /\ Len(Workflow.nodes) \in Nat
      BY <2>2, RunnableFacts, FlowFacts
    <2>4. InOrder(Workflow, order, {}) /\ ToSet(order) = Nodes /\ order \in Seq(Nodes)
      BY <2>2, RunnableOrder
    <2>5. Len(order) = Len(Workflow.nodes)
      BY <2>3, <2>4, ListOfAll DEF InOrder
    <2>6. DOMAIN order = 1..Len(order) /\ Len(order) \in Nat
      BY <2>4, LenProperties
    <2>7. ASSUME NEW i \in DOMAIN order, NEW j \in DOMAIN order,
                 <<order[i], order[j]>> \in Steps(Workflow, ToSet(Workflow.edges))
          PROVE  i < j
      <3>1. order[j] \in 1..Len(Workflow.nodes)
        BY <2>3, <2>4 DEF ToSet
      <3>2. order[i] \in Sources(Workflow, order[j])
        BY <2>3, <2>7, <3>1, SourcesAreSteps DEF Everything
      <3>3. PICK k \in 1..Len(order) : k < j /\ order[k] = order[i]
        BY <2>4, <2>6, <3>2 DEF InOrder
      <3>4. k = i
        BY <2>4, <2>6, <3>3 DEF InOrder
      <3> QED BY <3>3, <3>4
    <2> QED BY <2>3, <2>4, <2>5, <2>7
  <1>2. Init => Untouched
    BY DEF Init, Untouched
  <1>3. EngineInv /\ Untouched /\ [Next]_vars => Untouched'
    BY UntouchedInductive DEF EngineInv
  <1> QED BY <1>1, <1>2, <1>3, EngineInvHolds, PTL DEF Spec

-------------------------------------------------------------------------------
(* The contract *)

\* The contract sees one node at a time.
LEMMA OneNodeMoves ==
    ASSUME NEW n \in Nodes, NEW p, Progress(n)' = p, \A m \in Nodes \ {n} : Progress(m)' = Progress(m)
    PROVE  Contract!Becomes(n, p)
  <1>1. [m \in Nodes |-> Progress(m)]' = [[m \in Nodes |-> Progress(m)] EXCEPT ![n] = p]
    OBVIOUS
  <1> QED BY <1>1 DEF Contract!Becomes

LEMMA StepKeepsContract ==
    ASSUME EngineInv, EngineInv', [Next]_vars
    PROVE  [Contract!Next \/ Contract!Abandon]_(Contract!vars)
  <1> DEFINE Stays(m) == Progress(m)' = Progress(m)
  <1>0. /\ 0 \notin Nodes /\ Apart /\ Apart' /\ Grounded
        /\ \A n \in Nodes : n # executing => Progress(n) # "running"
    BY NodesAssumption DEF EngineInv, Progress
  <1>1. ASSUME \A n \in Nodes : Stays(n), (phase' = "over") <=> (phase = "over")
        PROVE  UNCHANGED Contract!vars
    BY <1>1 DEF Contract!vars
  <1>2. ASSUME executing = 0 PROVE Contract!NobodyRuns
    BY <1>0, <1>2 DEF Contract!NobodyRuns
  <1>3. ASSUME NEW n \in Nodes, Turn(n)
        PROVE  /\ Progress(n) = "unreached" /\ Contract!NobodyRuns /\ phase # "over" /\ phase' # "over"
               /\ n # executing /\ executing = 0 /\ n \notin Settled \cup unavailable
    <2>1. n \notin Settled \cup unavailable /\ executing = 0 /\ phase = "running" /\ phase' = phase
      BY <1>0, <1>3, TurnApart, TurnFacts
    <2>2. Progress(n) = "unreached"
      BY <1>0, <2>1 DEF Progress, Settled
    <2> QED BY <1>0, <1>2, <2>1, <2>2
  <1>4. CASE UNCHANGED vars
    BY <1>1, <1>4 DEF vars, books, Progress
  <1>5. CASE Admit
    <2>1. phase = "fresh" /\ UNCHANGED <<executing, outputs, failed, skipped, unavailable>>
      BY <1>5 DEF Admit, books
    <2>2. \A n \in Nodes : Stays(n)
      BY <2>1 DEF Progress
    <2>3. CASE Refuse
      <3>1. executing = 0 /\ phase' = "over"
        BY <1>0, <2>1, <2>3 DEF Refuse, Grounded, Idle
      <3>2. Contract!Abandon
        BY <1>2, <2>2, <3>1 DEF Contract!Abandon
      <3> QED BY <3>2
    <2>4. CASE HandOver \/ Begin
      BY <1>1, <2>1, <2>2, <2>4 DEF HandOver, Begin
    <2> QED BY <1>5, <2>3, <2>4 DEF Admit
  <1>6. ASSUME NEW n \in Nodes, SkipNode(n) PROVE Contract!Skip(n)
    <2>1. /\ Turn(n) /\ skipped' = skipped \cup {n} /\ unavailable' = unavailable \cup {n}
          /\ UNCHANGED <<executing, outputs, failed>>
      BY <1>6 DEF SkipNode
    <2>2. Progress(n)' = "skipped" /\ \A m \in Nodes \ {n} : Stays(m)
      BY <1>3, <2>1 DEF Progress, Settled
    <2>3. Contract!Becomes(n, "skipped")
      BY <2>2, OneNodeMoves
    <2> QED BY <1>3, <2>1, <2>3 DEF Contract!Skip
  <1>7. ASSUME NEW n \in Nodes, RefuseNode(n) PROVE Contract!Handle(n)
    <2>1. /\ Turn(n) /\ failed' = failed \cup {n} /\ unavailable' = unavailable \cup {n}
          /\ UNCHANGED <<executing, outputs, skipped>>
      BY <1>7 DEF RefuseNode
    <2>2. Progress(n)' = "failed" /\ \A m \in Nodes \ {n} : Stays(m)
      BY <1>3, <2>1 DEF Progress, Settled
    <2>3. Contract!Becomes(n, "failed")
      BY <2>2, OneNodeMoves
    <2> QED BY <1>3, <2>1, <2>3 DEF Contract!Handle
  <1>8. ASSUME NEW n \in Nodes, StartNode(n) PROVE Contract!Start(n)
    <2>1. Turn(n) /\ executing' = n /\ UNCHANGED <<outputs, failed, skipped, unavailable>>
      BY <1>8 DEF StartNode, books
    <2>2. Progress(n)' = "running" /\ \A m \in Nodes \ {n} : Stays(m)
      BY <1>0, <1>3, <2>1 DEF Progress
    <2>3. Contract!Becomes(n, "running")
      BY <2>2, OneNodeMoves
    <2> QED BY <1>3, <2>1, <2>3 DEF Contract!Start
  <1>9. ASSUME executing # 0, executing' = 0, phase' = phase, skipped' = skipped,
               \/ DOMAIN outputs' = DOMAIN outputs \cup {executing} /\ unavailable' = unavailable
               \/ outputs' = outputs /\ unavailable' = unavailable \cup {executing}
        PROVE  Contract!Leave(executing)
    <2>1. executing \in Nodes /\ executing \notin Settled \cup unavailable
      BY <1>0, <1>9, ExecutingFacts DEF Apart
    <2>2. Progress(executing) = "running" /\ \A m \in Nodes \ {executing} : Stays(m)
      BY <1>0, <1>9 DEF Progress
    <2>3. [m \in Nodes |-> Progress(m)][executing] = "running"
      BY <2>1, <2>2
    <2> DEFINE n == executing
    <2>4. ASSUME NEW k \in Nodes, k = executing PROVE Progress(k)' \in {"ran", "failed"}
      BY <1>0, <1>9, <2>1, <2>4 DEF Progress, Settled
    <2>5. ASSUME NEW k \in Nodes, k = executing PROVE Contract!Leave(k)
      <3>1. PICK p \in {"ran", "failed"} : Progress(k)' = p
        BY <2>4, <2>5
      <3>2. Contract!Becomes(k, p)
        BY <2>2, <2>5, <3>1, OneNodeMoves
      <3> QED BY <1>9, <2>3, <2>5, <3>1, <3>2 DEF Contract!Leave
    <2> QED BY <2>1, <2>5
  <1>10. CASE FinishNode
    <2>1. Contract!Leave(executing) /\ executing \in Nodes
      BY <1>0, <1>9, <1>10, FinishDomain, ExecutingFacts DEF FinishNode
    <2> QED BY <2>1 DEF Contract!Next
  <1>11. CASE FailNode
    <2>1. Contract!Leave(executing) /\ executing \in Nodes
      BY <1>0, <1>9, <1>11, ExecutingFacts DEF FailNode
    <2> QED BY <2>1 DEF Contract!Next
  <1>12. CASE CancelNode
    <2>1. Contract!Leave(executing) /\ executing \in Nodes
      BY <1>0, <1>9, <1>12, ExecutingFacts DEF CancelNode
    <2> QED BY <2>1 DEF Contract!Next
  <1>13. CASE Finish
    <2>1. executing = 0 /\ phase' = "over" /\ UNCHANGED <<executing, outputs, failed, skipped, unavailable>>
      BY <1>13 DEF Finish, books
    <2>2. Contract!Abandon
      BY <1>2, <2>1 DEF Contract!Abandon, Progress
    <2> QED BY <2>2
  <1>14. CASE Cancel \/ PauseOrResume
    BY <1>1, <1>14 DEF Cancel, PauseOrResume, books, Progress
  <1>15. CASE Visit
    <2>1. PICK n \in Nodes : SkipNode(n) \/ RefuseNode(n) \/ StartNode(n)
      BY <1>15 DEF Visit
    <2> QED BY <1>6, <1>7, <1>8, <2>1 DEF Contract!Next
  <1> QED BY <1>4, <1>5, <1>10, <1>11, <1>12, <1>13, <1>14, <1>15 DEF Next, Schedule

\* The engine keeps the contract of module NodeProgress; a run that is refused or cancelled
\* may leave nodes unreached (engine.rs:216).
THEOREM RunKeepsContract == Spec => KeepsContract
  <1>1. Init => Contract!Init
    <2> SUFFICES ASSUME Init PROVE Contract!Init
      OBVIOUS
    <2>1. \A n \in Nodes : Progress(n) = "unreached"
      BY NodesAssumption DEF Init, Progress
    <2> QED BY <2>1 DEF Init, Contract!Init
  <1>2. EngineInv /\ EngineInv' /\ [Next]_vars => [Contract!Next \/ Contract!Abandon]_(Contract!vars)
    BY StepKeepsContract
  <1> QED BY <1>1, <1>2, EngineInvHolds, PTL DEF Spec, KeepsContract, Contract!CancellableSpec
===============================================================================
