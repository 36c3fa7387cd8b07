----------------------------- MODULE ReportsProofs -----------------------------
(***************************************************************************)
(* Proofs about the admin portal's reports, for any bets, filters and page *)
(* size, and the facts about sums over finite sets that they rest on.      *)
(***************************************************************************)
EXTENDS Reports, FiniteSetTheorems, WellFoundedInduction, TLAPS

-----------------------------------------------------------------------------
(* Sums.  What holds of every finite set is proved by its least counterexample. *)

LEMMA LeastSet ==
  ASSUME NEW S, IsFiniteSet(S), NEW Bad \in SUBSET SUBSET S, Bad # {}
  PROVE  \E X \in Bad : \A Y \in Bad : Y \subseteq X => Y = X
  <1>1. IsWellFoundedOn(StrictSubsetOrdering(S), SUBSET S)
    BY FS_StrictSubsetOrderingWellFounded, FS_FiniteSubsetsOfFinite
  <1>2. PICK X \in Bad : \A Y \in Bad : ~ (<<Y, X>> \in StrictSubsetOrdering(S))
    <2> HIDE DEF StrictSubsetOrdering
    <2> QED
      BY <1>1, WFMin
  <1> QED
    BY <1>2 DEF StrictSubsetOrdering

Choice(S) == CHOOSE x \in S : TRUE

LEMMA ChoiceIn == \A S : S # {} => Choice(S) \in S
  BY DEF Choice

\* sum is the function of the subsets of S that SumFunctionOnSet defines by recursion.
IsSum(f, S, sum) ==
  sum = [T \in SUBSET S |-> IF T = {} THEN 0 ELSE f[Choice(T)] + sum[T \ {Choice(T)}]]

LEMMA SumsAgree ==
  ASSUME NEW f, NEW S, IsFiniteSet(S), NEW A \in SUBSET S, NEW B \in SUBSET S,
         NEW s, IsSum(f, A, s), NEW t, IsSum(f, B, t)
  PROVE  \A X \in SUBSET (A \cap B) : s[X] = t[X]
  <1> DEFINE Bad == {X \in SUBSET (A \cap B) : s[X] # t[X]}
  <1> SUFFICES ASSUME Bad # {} PROVE FALSE
    OBVIOUS
  <1>1. PICK X \in Bad : \A Y \in Bad : Y \subseteq X => Y = X
    <2>1. Bad \in SUBSET SUBSET S
      OBVIOUS
    <2> HIDE DEF Bad
    <2> QED
      BY <2>1, LeastSet
  <1>2. /\ s[X] = IF X = {} THEN 0 ELSE f[Choice(X)] + s[X \ {Choice(X)}]
        /\ t[X] = IF X = {} THEN 0 ELSE f[Choice(X)] + t[X \ {Choice(X)}]
    BY DEF IsSum
  <1>3. X # {} /\ Choice(X) \in X
    BY <1>2, ChoiceIn
  <1>4. X \ {Choice(X)} \notin Bad
    BY <1>1, <1>3
  <1> QED
    BY <1>2, <1>3, <1>4

LEMMA SumExists ==
  ASSUME NEW f, NEW S, IsFiniteSet(S)
  PROVE  \A T \in SUBSET S : \E sum : IsSum(f, T, sum)
  <1> DEFINE Bad == {T \in SUBSET S : ~ \E sum : IsSum(f, T, sum)}
             Total(T) == CHOOSE sum : IsSum(f, T, sum)
  <1> SUFFICES ASSUME Bad # {} PROVE FALSE
    OBVIOUS
  <1>1. PICK T \in Bad : \A Y \in Bad : Y \subseteq T => Y = T
    <2>1. Bad \in SUBSET SUBSET S
      OBVIOUS
    <2> HIDE DEF Bad
    <2> QED
      BY <2>1, LeastSet
  <1>2. \A X \in SUBSET T : X # T => IsSum(f, X, Total(X))
    <2> TAKE X \in SUBSET T
    <2> HAVE X # T
    <2>1. X \notin Bad /\ X \in SUBSET S
      BY <1>1
    <2> QED
      BY <2>1
  <1> DEFINE Rest(X) == X \ {Choice(X)}
             g == [X \in SUBSET T |-> IF X = {} THEN 0 ELSE f[Choice(X)] + Total(Rest(X))[Rest(X)]]
  <1> HIDE DEF Total
  <1>3. \A X \in SUBSET T : X # {} => Rest(X) \in SUBSET T /\ Rest(X) # T /\ Rest(X) # X
    BY ChoiceIn
  <1>4. \A X \in SUBSET T : X # {} => g[Rest(X)] = Total(Rest(X))[Rest(X)]
    <2> TAKE X \in SUBSET T
    <2> HAVE X # {}
    <2> DEFINE Y == Rest(X)
    <2>1. Y \in SUBSET T /\ Y # T
      BY <1>3
    <2>2. IsSum(f, Y, Total(Y))
      BY <1>2, <2>1
    <2>3. Total(Y)[Y] = IF Y = {} THEN 0 ELSE f[Choice(Y)] + Total(Y)[Rest(Y)]
      <3> HIDE DEF Y
      <3> QED
        BY <2>2 DEF IsSum
    <2>4. Y # {} => Total(Y)[Rest(Y)] = Total(Rest(Y))[Rest(Y)]
      <3> HIDE DEF Y
      <3> SUFFICES ASSUME Y # {} PROVE Total(Y)[Rest(Y)] = Total(Rest(Y))[Rest(Y)]
        OBVIOUS
      <3>1. Rest(Y) \in SUBSET T /\ Rest(Y) # T
        BY <1>3, <2>1
      <3>2. IsSum(f, Rest(Y), Total(Rest(Y)))
        BY <1>2, <3>1
      <3> QED
        BY <2>1, <2>2, <3>1, <3>2, SumsAgree
    <2>5. g[Y] = IF Y = {} THEN 0 ELSE f[Choice(Y)] + Total(Rest(Y))[Rest(Y)]
      <3> HIDE DEF Y
      <3> QED
        BY <2>1
    <2> QED
      BY <2>3, <2>4, <2>5
  <1>5. IsSum(f, T, g)
    <2>1. g = [X \in SUBSET T |-> IF X = {} THEN 0 ELSE f[Choice(X)] + g[Rest(X)]]
      <3> DEFINE h == [X \in SUBSET T |-> IF X = {} THEN 0 ELSE f[Choice(X)] + g[Rest(X)]]
      <3>1. \A X \in SUBSET T : g[X] = h[X]
        BY <1>4
      <3> QED
        BY <3>1
    <2> QED
      BY <2>1 DEF IsSum
  <1> QED
    BY <1>5

\* What the recursion says of a set that is not empty, and of one that is.
LEMMA SumStep ==
  ASSUME NEW f, NEW S, IsFiniteSet(S)
  PROVE  SumFunctionOnSet(f, S) =
            IF S = {} THEN 0 ELSE f[Choice(S)] + SumFunctionOnSet(f, S \ {Choice(S)})
  <1> DEFINE Total(T) == CHOOSE sum : IsSum(f, T, sum)
  <1>1. \A T : SumFunctionOnSet(f, T) = Total(T)[T]
    BY DEF SumFunctionOnSet, FoldFunctionOnSet, MapThenFoldSet, IsSum, Choice
  <1>2. \A T \in SUBSET S : IsSum(f, T, Total(T))
    BY SumExists
  <1> DEFINE R == S \ {Choice(S)}
  <1>3. Total(S)[R] = Total(R)[R]
    <2> HIDE DEF Total
    <2> QED
      BY <1>2, SumsAgree
  <1>4. Total(S)[S] = IF S = {} THEN 0 ELSE f[Choice(S)] + Total(S)[R]
    <2> HIDE DEF Total
    <2> QED
      BY <1>2 DEF IsSum
  <1> HIDE DEF Total
  <1> QED
    BY <1>1, <1>3, <1>4

\* Sums of integers are integers.
LEMMA SumInt ==
  ASSUME NEW S, IsFiniteSet(S), NEW f, \A x \in S : f[x] \in Int
  PROVE  SumFunctionOnSet(f, S) \in Int
  <1> DEFINE Bad == {T \in SUBSET S : SumFunctionOnSet(f, T) \notin Int}
  <1> SUFFICES ASSUME Bad # {} PROVE FALSE
    OBVIOUS
  <1>1. PICK T \in Bad : \A Y \in Bad : Y \subseteq T => Y = T
    <2>1. Bad \in SUBSET SUBSET S
      OBVIOUS
    <2> HIDE DEF Bad
    <2> QED
      BY <2>1, LeastSet
  <1>2. SumFunctionOnSet(f, T) =
           IF T = {} THEN 0 ELSE f[Choice(T)] + SumFunctionOnSet(f, T \ {Choice(T)})
    BY <1>1, FS_Subset, SumStep
  <1>3. T # {} => f[Choice(T)] \in Int /\ SumFunctionOnSet(f, T \ {Choice(T)}) \in Int
    BY <1>1, ChoiceIn
  <1> QED
    BY <1>1, <1>2, <1>3

\* Any element may be taken first.
LEMMA SumOut ==
  ASSUME NEW S, IsFiniteSet(S), NEW f, \A x \in S : f[x] \in Int
  PROVE  \A x \in S : SumFunctionOnSet(f, S) = f[x] + SumFunctionOnSet(f, S \ {x})
  <1> DEFINE Sum(T) == SumFunctionOnSet(f, T)
             Bad == {T \in SUBSET S : \E x \in T : Sum(T) # f[x] + Sum(T \ {x})}
  <1> SUFFICES ASSUME Bad # {} PROVE FALSE
    OBVIOUS
  <1>1. PICK T \in Bad : \A Y \in Bad : Y \subseteq T => Y = T
    <2>1. Bad \in SUBSET SUBSET S
      OBVIOUS
    <2> HIDE DEF Bad
    <2> QED
      BY <2>1, LeastSet
  <1>2. PICK x \in T : Sum(T) # f[x] + Sum(T \ {x})
    BY <1>1
  <1>3. \A Y \in SUBSET S : Sum(Y) \in Int
    BY FS_Subset, SumInt
  <1> DEFINE c == Choice(T)
  <1>4. c \in T /\ Sum(T) = f[c] + Sum(T \ {c})
    BY <1>1, <1>2, FS_Subset, SumStep, ChoiceIn
  <1>5. \A Y \in SUBSET T : Y # T => \A y \in Y : Sum(Y) = f[y] + Sum(Y \ {y})
    BY <1>1
  <1> HIDE DEF c, Sum, Bad
  <1>6. c # x
    BY <1>2, <1>4
  <1>7. Sum(T \ {c}) = f[x] + Sum((T \ {c}) \ {x}) /\ Sum(T \ {x}) = f[c] + Sum((T \ {x}) \ {c})
    BY <1>2, <1>4, <1>5, <1>6
  <1>8. Sum((T \ {c}) \ {x}) = Sum((T \ {x}) \ {c})
    <2>1. (T \ {c}) \ {x} = (T \ {x}) \ {c}
      OBVIOUS
    <2> QED
      BY <2>1, Zenon
  <1>9. f[c] \in Int /\ f[x] \in Int /\ Sum((T \ {x}) \ {c}) \in Int
    BY <1>1, <1>2, <1>3, <1>4 DEF Bad
  <1> QED
    BY <1>2, <1>4, <1>7, <1>8, <1>9

\* A sum of differences is the difference of the sums.
LEMMA SumDifference ==
  ASSUME NEW S, IsFiniteSet(S), NEW A \in SUBSET S, NEW B \in SUBSET S, NEW f, NEW g, NEW h,
         \A x \in A : f[x] \in Int, \A x \in B : g[x] \in Int,
         \A x \in S : h[x] = (IF x \in A THEN f[x] ELSE 0) - (IF x \in B THEN g[x] ELSE 0)
  PROVE  SumFunctionOnSet(h, S) = SumFunctionOnSet(f, A) - SumFunctionOnSet(g, B)
  <1> DEFINE Sum(k, T) == SumFunctionOnSet(k, T)
             Bad == {T \in SUBSET S : Sum(h, T) # Sum(f, A \cap T) - Sum(g, B \cap T)}
  <1> SUFFICES ASSUME Bad # {} PROVE FALSE
    <2>1. A \cap S = A /\ B \cap S = B
      OBVIOUS
    <2> QED
      BY <2>1
  <1>1. PICK T \in Bad : \A Y \in Bad : Y \subseteq T => Y = T
    <2>1. Bad \in SUBSET SUBSET S
      OBVIOUS
    <2> HIDE DEF Bad
    <2> QED
      BY <2>1, LeastSet
  <1>2. \A x \in S : h[x] \in Int
    OBVIOUS
  <1>3. /\ IsFiniteSet(T) /\ IsFiniteSet(A \cap T) /\ IsFiniteSet(B \cap T)
        /\ \A x : IsFiniteSet(A \cap (T \ {x})) /\ IsFiniteSet(B \cap (T \ {x}))
    BY <1>1, FS_Subset
  <1>4. T # {}
    <2> SUFFICES ASSUME T = {} PROVE FALSE
      OBVIOUS
    <2>1. A \cap T = {} /\ B \cap T = {}
      OBVIOUS
    <2>2. Sum(h, T) = 0 /\ Sum(f, A \cap T) = 0 /\ Sum(g, B \cap T) = 0
      BY <1>3, <2>1, SumStep
    <2>3. Sum(h, T) # Sum(f, A \cap T) - Sum(g, B \cap T)
      BY <1>1
    <2> HIDE DEF Sum
    <2> QED
      BY <2>2, <2>3
  <1>5. PICK x : x \in T
    BY <1>4
  <1> DEFINE R == T \ {x}
  <1>6. Sum(h, R) = Sum(f, A \cap R) - Sum(g, B \cap R)
    BY <1>1, <1>5
  <1>7. Sum(h, T) = h[x] + Sum(h, R)
    BY <1>1, <1>2, <1>3, <1>5, SumOut
  <1>8. Sum(f, A \cap T) = (IF x \in A THEN f[x] ELSE 0) + Sum(f, A \cap R)
    <2>1. CASE x \in A
      <3>1. A \cap R = (A \cap T) \ {x} /\ x \in A \cap T
        BY <1>5, <2>1
      <3> HIDE DEF R
      <3> QED
        BY <1>3, <2>1, <3>1, SumOut
    <2>2. CASE x \notin A
      <3>1. A \cap R = A \cap T
        BY <2>2
      <3>2. Sum(f, A \cap T) \in Int
        BY <1>3, SumInt
      <3> HIDE DEF R, Sum
      <3>3. Sum(f, A \cap R) = Sum(f, A \cap T)
        BY <3>1, Zenon
      <3> QED
        BY <2>2, <3>2, <3>3
    <2> QED
      BY <2>1, <2>2
  <1>9. Sum(g, B \cap T) = (IF x \in B THEN g[x] ELSE 0) + Sum(g, B \cap R)
    <2>1. CASE x \in B
      <3>1. B \cap R = (B \cap T) \ {x} /\ x \in B \cap T
        BY <1>5, <2>1
      <3> HIDE DEF R
      <3> QED
        BY <1>3, <2>1, <3>1, SumOut
    <2>2. CASE x \notin B
      <3>1. B \cap R = B \cap T
        BY <2>2
      <3>2. Sum(g, B \cap T) \in Int
        BY <1>3, SumInt
      <3> HIDE DEF R, Sum
      <3>3. Sum(g, B \cap R) = Sum(g, B \cap T)
        BY <3>1, Zenon
      <3> QED
        BY <2>2, <3>2, <3>3
    <2> QED
      BY <2>1, <2>2
  <1>10. Sum(f, A \cap R) \in Int /\ Sum(g, B \cap R) \in Int
    BY <1>3, SumInt
  <1>11. h[x] = (IF x \in A THEN f[x] ELSE 0) - (IF x \in B THEN g[x] ELSE 0) /\ x \in S
    BY <1>1, <1>5
  <1>12. Sum(h, T) # Sum(f, A \cap T) - Sum(g, B \cap T)
    BY <1>1
  <1> HIDE DEF Sum, R, Bad
  <1> QED
    BY <1>6, <1>7, <1>8, <1>9, <1>10, <1>11, <1>12

\* The sum of two sets that have no element in common.
LEMMA SumUnion ==
  ASSUME NEW A, NEW B, IsFiniteSet(A), IsFiniteSet(B), A \cap B = {},
         NEW f, \A x \in A \cup B : f[x] \in Int
  PROVE  SumFunctionOnSet(f, A \cup B) = SumFunctionOnSet(f, A) + SumFunctionOnSet(f, B)
  <1> DEFINE S == A \cup B
             h == [x \in S |-> IF x \in B THEN f[x] ELSE 0]
  <1>1. IsFiniteSet(S) /\ A \in SUBSET S /\ B \in SUBSET S /\ S \in SUBSET S /\ {} \in SUBSET S
    BY FS_Union
  <1>2. \A x \in S :
           /\ h[x] = (IF x \in S THEN f[x] ELSE 0) - (IF x \in A THEN f[x] ELSE 0)
           /\ h[x] = (IF x \in B THEN f[x] ELSE 0) - (IF x \in {} THEN f[x] ELSE 0)
    OBVIOUS
  <1>3. \A x \in S : f[x] \in Int
    OBVIOUS
  <1> HIDE DEF h, S
  <1>4. SumFunctionOnSet(h, S) = SumFunctionOnSet(f, S) - SumFunctionOnSet(f, A)
    BY <1>1, <1>2, <1>3, SumDifference
  <1>5. SumFunctionOnSet(h, S) = SumFunctionOnSet(f, B) - SumFunctionOnSet(f, {})
    BY <1>1, <1>2, <1>3, SumDifference
  <1>6. SumFunctionOnSet(f, {}) = 0
    BY FS_EmptySet, SumStep
  <1>7. /\ SumFunctionOnSet(f, S) \in Int
        /\ SumFunctionOnSet(f, A) \in Int
        /\ SumFunctionOnSet(f, B) \in Int
    BY <1>1, <1>3, SumInt
  <1>8. SumFunctionOnSet(f, S) = SumFunctionOnSet(f, A) + SumFunctionOnSet(f, B)
    BY <1>4, <1>5, <1>6, <1>7
  <1> QED
    BY <1>8 DEF S

\* group[g] are the elements of S whose key is g, and G the keys.
Divides(group, G, key, S) ==
  /\ \A x \in S : key[x] \in G
  /\ \A g \in G : \E x \in S : key[x] = g
  /\ \A g \in G : group[g] \subseteq S /\ \A x \in S : x \in group[g] <=> key[x] = g

\* The sums of the groups that a key divides a set into add up to the sum of the set.
LEMMA SumOfGroups ==
  ASSUME NEW S, IsFiniteSet(S), NEW f, \A x \in S : f[x] \in Int,
         NEW key, NEW G, NEW group, Divides(group, G, key, S),
         NEW row, \A g \in G : row[g] = SumFunctionOnSet(f, group[g])
  PROVE  SumFunctionOnSet(row, G) = SumFunctionOnSet(f, S)
  <1> USE DEF Divides
  <1> DEFINE In(T) == {x \in S : key[x] \in T}
             Bad == {T \in SUBSET G : SumFunctionOnSet(row, T) # SumFunctionOnSet(f, In(T))}
  <1>1. IsFiniteSet(G)
    <2> DEFINE k == [x \in S |-> key[x]]
    <2>1. k \in Surjection(S, G)
      BY DEF Surjection
    <2> QED
      BY <2>1, FS_Surjection
  <1>2. \A T : In(T) \in SUBSET S /\ IsFiniteSet(In(T)) /\ \A x \in In(T) : f[x] \in Int
    BY FS_Subset
  <1> SUFFICES ASSUME Bad # {} PROVE FALSE
    <2>1. In(G) = S
      OBVIOUS
    <2>2. SumFunctionOnSet(row, G) = SumFunctionOnSet(f, In(G))
      OBVIOUS
    <2> HIDE DEF In
    <2> QED
      BY <2>1, <2>2, Zenon
  <1>3. PICK T \in Bad : \A Y \in Bad : Y \subseteq T => Y = T
    <2>1. Bad \in SUBSET SUBSET G
      OBVIOUS
    <2> HIDE DEF Bad
    <2> QED
      BY <1>1, <2>1, LeastSet
  <1>4. T \in SUBSET G /\ IsFiniteSet(T) /\ SumFunctionOnSet(row, T) # SumFunctionOnSet(f, In(T))
    BY <1>1, <1>3, FS_Subset
  <1>5. T # {}
    <2> SUFFICES ASSUME T = {} PROVE FALSE
      OBVIOUS
    <2>1. In(T) = {}
      OBVIOUS
    <2>2. SumFunctionOnSet(row, T) = 0 /\ SumFunctionOnSet(f, In(T)) = 0
      BY <1>2, <1>4, <2>1, SumStep
    <2> HIDE DEF In
    <2> QED
      BY <1>4, <2>2
  <1>6. PICK g : g \in T
    BY <1>5
  <1> DEFINE R == T \ {g}
  <1>7. SumFunctionOnSet(row, R) = SumFunctionOnSet(f, In(R))
    BY <1>3, <1>6
  <1>8. \A t \in T : row[t] \in Int
    <2> TAKE t \in T
    <2>1. t \in G
      BY <1>4
    <2>2. IsFiniteSet(group[t]) /\ \A x \in group[t] : f[x] \in Int
      BY <2>1, FS_Subset
    <2> QED
      BY <2>1, <2>2, SumInt
  <1>9. SumFunctionOnSet(row, T) = row[g] + SumFunctionOnSet(row, R)
    BY <1>4, <1>6, <1>8, SumOut
  <1> DEFINE M == group[g]
  <1>10. row[g] = SumFunctionOnSet(f, M)
    BY <1>4, <1>6
  <1>11. In(T) = M \cup In(R) /\ M \cap In(R) = {} /\ IsFiniteSet(M) /\ M \subseteq S
    <2>1. g \in G /\ M \subseteq S /\ \A x \in S : x \in M <=> key[x] = g
      BY <1>4, <1>6
    <2> HIDE DEF M
    <2> QED
      BY <1>6, <2>1, FS_Subset
  <1> HIDE DEF In, M, R
  <1>12. SumFunctionOnSet(f, M \cup In(R)) = SumFunctionOnSet(f, M) + SumFunctionOnSet(f, In(R))
    <2>1. \A x \in M \cup In(R) : f[x] \in Int
      BY <1>2, <1>11
    <2> QED
      BY <1>2, <1>11, <2>1, SumUnion
  <1>13. SumFunctionOnSet(f, In(T)) = SumFunctionOnSet(f, M \cup In(R))
    BY <1>11, Zenon
  <1> QED
    BY <1>4, <1>7, <1>9, <1>10, <1>12, <1>13

-----------------------------------------------------------------------------
(* The rows and the reader are well typed, and the rows tell what happened. *)

LEMMA ReportsInvInit == ReportsInit => ReportsInv
  BY FS_EmptySet, ReportsAssumption
     DEF ReportsInit, ReportsInv, ReportsTypeOK, RowsOrdered, RowsTell, PagesTurned, PagesShowAll,
         NoWalk, NoEnds, Period, Rows, RowStatus, Outcome

LEMMA ListedFinite == Listed \subseteq Rows /\ Listed \subseteq Bet /\ IsFiniteSet(Listed)
  <1>1. Listed \subseteq Rows /\ Rows \subseteq Bet
    BY DEF Listed, BetsFor, Rows
  <1> QED
    BY <1>1, ReportsAssumption, FS_Subset

Walks(f) ==
  [stage : {"none", "open", "next", "count", "done"}, filter : {f},
   status : WalkStatus \cup {AnyValue}, page : Nat \ {0}, total : Nat,
   shown : SUBSET Bet, there : SUBSET Bet, raced : BOOLEAN, left : BOOLEAN]

\* Nothing of the reader changes, but what it may have missed.
LEMMA WalkSlips ==
  ASSUME walk \in Walks(walk.filter), MaySlip
  PROVE  /\ walk' \in Walks(walk'.filter)
         /\ walk'.stage = walk.stage /\ walk'.filter = walk.filter /\ walk'.status = walk.status
         /\ walk'.page = walk.page /\ walk'.total = walk.total
         /\ walk'.shown = walk.shown /\ walk'.there = walk.there
         /\ walk'.raced = (walk.raced \/ walk.stage = "count")
         /\ walk'.left = (walk.left \/ \E b \in Bet : Leaves(b))
  <1> DEFINE r == walk.raced \/ walk.stage = "count"
             l == walk.left \/ \E b \in Bet : Leaves(b)
  <1>1. walk' = [walk EXCEPT !.raced = r, !.left = l] /\ r \in BOOLEAN /\ l \in BOOLEAN
    BY DEF MaySlip
  <1> HIDE DEF r, l
  <1>2. /\ walk'.stage = walk.stage /\ walk'.filter = walk.filter /\ walk'.status = walk.status
        /\ walk'.page = walk.page /\ walk'.total = walk.total
        /\ walk'.shown = walk.shown /\ walk'.there = walk.there
        /\ walk'.raced = r /\ walk'.left = l
    BY <1>1 DEF Walks
  <1>3. walk' \in Walks(walk.filter)
    BY <1>1 DEF Walks
  <1> QED
    BY <1>2, <1>3 DEF r, l

\* What the agent may have applied when a call ends.
LEMMA AppliedMore ==
  ASSUME ReportsTypeOK, NEW b \in Bet, NEW o \in Outcome, Apply(b, o)
  PROVE  /\ applied' \in [Bet -> [Outcome -> Nat]] /\ applied'[b][o] > 0
         /\ \A c \in Bet, e \in Outcome : applied[c][e] > 0 => applied'[c][e] > 0
  <1>1. applied \in [Bet -> [Outcome -> Nat]]
    BY DEF ReportsTypeOK
  <1>2. applied' = [applied EXCEPT ![b] = [applied[b] EXCEPT ![o] = applied[b][o] + 1]]
    BY DEF Apply
  <1>3. [applied[b] EXCEPT ![o] = applied[b][o] + 1] \in [Outcome -> Nat]
    BY <1>1
  <1> QED
    BY <1>1, <1>2, <1>3

LEMMA ResolveApplies ==
  ASSUME ReportsTypeOK, NEW b \in Bet, Resolve(b)
  PROVE  /\ applied' \in [Bet -> [Outcome -> Nat]]
         /\ \A c \in Bet, e \in Outcome : applied[c][e] > 0 => applied'[c][e] > 0
         /\ status' \in [Bet -> RowStatus \cup {"none", "deleted"}]
         /\ \A c \in Bet \ {b} : status'[c] = status[c]
         /\ status'[b] \in Outcome
         /\ (status'[b] = status[b] \/ applied'[b][status'[b]] > 0)
  <1>1. status \in [Bet -> RowStatus \cup {"none", "deleted"}] /\ applied \in [Bet -> [Outcome -> Nat]]
    BY DEF ReportsTypeOK
  <1>2. PICK o \in Outcome : /\ Apply(b, o) \/ (applied[b][o] > 0 /\ UNCHANGED applied)
                            /\ status' = [status EXCEPT ![b] = AfterResult(status[b], o)]
    BY ReportsAssumption DEF Resolve
  <1>3. AfterResult(status[b], o) = o \/ (AfterResult(status[b], o) = status[b] /\ status[b] \in Outcome)
    BY DEF AfterResult, Outcome
  <1>4. /\ applied' \in [Bet -> [Outcome -> Nat]] /\ applied'[b][o] > 0
        /\ \A c \in Bet, e \in Outcome : applied[c][e] > 0 => applied'[c][e] > 0
    BY <1>1, <1>2, AppliedMore
  <1>5. o \in RowStatus /\ Outcome \subseteq RowStatus
    BY DEF RowStatus
  <1> QED
    BY <1>1, <1>2, <1>3, <1>4, <1>5

LEMMA FailApplies ==
  ASSUME ReportsTypeOK, NEW b \in Bet, Fail(b)
  PROVE  /\ applied' \in [Bet -> [Outcome -> Nat]]
         /\ \A c \in Bet, e \in Outcome : applied[c][e] > 0 => applied'[c][e] > 0
  <1>1. applied \in [Bet -> [Outcome -> Nat]]
    BY DEF ReportsTypeOK
  <1>2. UNCHANGED applied \/ \E o \in Outcome : Apply(b, o)
    BY ReportsAssumption DEF Fail
  <1> QED
    BY <1>1, <1>2, AppliedMore

LEMMA ReportsTyped ==
  ASSUME ReportsInv, [ReportsNext]_reportVars
  PROVE  ReportsTypeOK'
  <1> USE DEF ReportsInv, ReportsTypeOK, RowStatus, Outcome
  <1>1. CASE OpenList
    <2>1. PICK f \in WalkFilter, s \in WalkStatus :
             walk' = [NoWalk EXCEPT !.stage = "open", !.filter = f, !.status = s]
      BY <1>1 DEF OpenList
    <2>2. walk' \in Walks(walk'.filter)
      <3>1. NoWalk \in Walks(AnyValue)
        BY DEF Walks, NoWalk
      <3>2. walk' \in Walks(f) /\ walk'.filter = f
        <4> HIDE DEF NoWalk
        <4> QED
          BY <2>1, <3>1 DEF Walks
      <3> QED
        BY <3>2
    <2> QED
      BY <1>1, <2>2 DEF OpenList, Walks
  <1>2. CASE CountRows
    <2>1. Cardinality(Listed) \in Nat /\ Listed \subseteq Bet
      BY ListedFinite, FS_CardinalityType
    <2> QED
      BY <1>2, <2>1 DEF CountRows
  <1>3. CASE FetchPage
    <2>1. Page(walk.page) \subseteq Bet
      BY ListedFinite DEF Page
    <2> DEFINE seen == walk.shown \cup Page(walk.page)
    <2>2. \/ walk' = [walk EXCEPT !.stage = "next", !.shown = seen, !.page = walk.page + 1]
          \/ walk' = [walk EXCEPT !.stage = "done", !.shown = seen, !.page = 1]
      BY <1>3 DEF FetchPage
    <2>3. seen \in SUBSET Bet /\ walk.page + 1 \in Nat \ {0}
      BY <2>1
    <2> HIDE DEF seen
    <2>4. walk' \in Walks(walk'.filter)
      <3>1. walk \in Walks(walk.filter)
        BY DEF Walks
      <3>2. PICK st \in {"next", "done"}, p \in Nat \ {0} :
               walk' = [walk EXCEPT !.stage = st, !.shown = seen, !.page = p]
        <4>1. CASE walk' = [walk EXCEPT !.stage = "next", !.shown = seen, !.page = walk.page + 1]
          BY <2>3, <4>1, Zenon
        <4>2. CASE walk' = [walk EXCEPT !.stage = "done", !.shown = seen, !.page = 1]
          <5>1. 1 \in Nat \ {0}
            OBVIOUS
          <5> QED
            BY <4>2, <5>1, Zenon
        <4> QED
          BY <2>2, <4>1, <4>2
      <3>3. walk' \in Walks(walk.filter) /\ walk'.filter = walk.filter
        BY <2>3, <3>1, <3>2 DEF Walks
      <3> QED
        BY <3>3
    <2> QED
      BY <1>3, <2>4 DEF FetchPage, Walks
  <1>4. ASSUME NEW b \in Bet, PlaceBet(b) PROVE ReportsTypeOK'
    <2>1. walk' \in Walks(walk'.filter)
      BY <1>4, WalkSlips DEF PlaceBet, Walks
    <2> QED
      BY <1>4, <2>1 DEF PlaceBet, Rows, Walks
  <1>5. ASSUME NEW b \in Bet, Resolve(b) PROVE ReportsTypeOK'
    <2>1. walk' \in Walks(walk'.filter)
      BY <1>5, WalkSlips DEF Resolve, Walks
    <2>2. status' \in [Bet -> RowStatus \cup {"none", "deleted"}] /\ applied' \in [Bet -> [Outcome -> Nat]]
      BY <1>5, ResolveApplies
    <2> QED
      BY <1>5, <2>1, <2>2 DEF Resolve, Walks
  <1>6. ASSUME NEW b \in Bet, Fail(b) PROVE ReportsTypeOK'
    <2>1. walk' \in Walks(walk'.filter)
      BY <1>6, WalkSlips DEF Fail, Walks
    <2>2. applied' \in [Bet -> [Outcome -> Nat]]
      BY <1>6, FailApplies
    <2> QED
      BY <1>6, <2>1, <2>2 DEF Fail, Walks
  <1>7. CASE PeriodEnds
    BY <1>7, ReportsAssumption DEF PeriodEnds, Period
  <1>8. CASE DeleteBetsBeforeDate
    BY <1>8 DEF DeleteBetsBeforeDate, NoEnds
  <1>9. CASE UNCHANGED reportVars
    BY <1>9 DEF reportVars
  <1> QED
    BY <1>1, <1>2, <1>3, <1>4, <1>5, <1>6, <1>7, <1>8, <1>9 DEF ReportsNext

LEMMA RowsKept ==
  ASSUME ReportsInv, [ReportsNext]_reportVars
  PROVE  RowsOrdered' /\ RowsTell'
  <1> USE DEF ReportsInv, ReportsTypeOK, RowsOrdered, RowsTell, RowStatus, Outcome, Rows
  <1>1. ASSUME NEW b \in Bet, PlaceBet(b) PROVE RowsOrdered' /\ RowsTell'
    <2>1. period \in Nat /\ created'[b] = period /\ \A c \in Bet : created'[c] \in {created[c], period}
      BY <1>1, ReportsAssumption DEF PlaceBet, Period
    <2>2. PICK later \in SUBSET {c \in Rows : created[c] = period} :
             after' = after \cup (later \X {b}) \cup ({b} \X (Rows \ later))
      BY <1>1 DEF PlaceBet
    <2>3. b \notin Rows /\ Rows' = Rows \cup {b}
      BY <1>1 DEF PlaceBet
    <2>4. after' \subseteq Rows' \X Rows'
      BY <2>2, <2>3
    <2>5. \A c \in Bet : created'[c] <= period'
      BY <1>1, <2>1, ReportsAssumption DEF PlaceBet, Period
    <2>6. \A c, d \in Bet : <<c, d>> \in after' => c # d /\ created'[d] <= created'[c]
      <3> SUFFICES ASSUME NEW c \in Bet, NEW d \in Bet, <<c, d>> \in after'
                   PROVE  c # d /\ created'[d] <= created'[c]
        OBVIOUS
      <3>1. CASE <<c, d>> \in after
        BY <1>1, <2>3, <3>1 DEF PlaceBet
      <3>2. CASE c \in later /\ d = b
        BY <1>1, <2>1, <2>3, <3>2 DEF PlaceBet
      <3>3. CASE c = b /\ d \in Rows
        BY <1>1, <2>1, <2>3, <3>3 DEF PlaceBet
      <3> QED
        BY <2>2, <3>1, <3>2, <3>3
    <2>7. RowsTell'
      BY <1>1 DEF PlaceBet
    <2> QED
      BY <2>4, <2>5, <2>6, <2>7
  <1>2. ASSUME NEW b \in Bet, Resolve(b) PROVE RowsOrdered' /\ RowsTell'
    <2>1. Rows' = Rows /\ RowsTell'
      BY <1>2, ResolveApplies DEF Resolve
    <2> QED
      BY <1>2, <2>1 DEF Resolve
  <1>3. ASSUME NEW b \in Bet, Fail(b) PROVE RowsOrdered' /\ RowsTell'
    <2>1. Rows' = Rows /\ RowsTell'
      BY <1>3, FailApplies DEF Fail
    <2> QED
      BY <1>3, <2>1 DEF Fail
  <1>4. CASE PeriodEnds
    BY <1>4, ReportsAssumption DEF PeriodEnds, Period
  <1>5. CASE DeleteBetsBeforeDate
    <2>1. \A b \in Bet : status'[b] = IF IsOld(b) THEN "deleted" ELSE status[b]
      BY <1>5 DEF DeleteBetsBeforeDate
    <2>2. Rows' = {b \in Rows : ~IsOld(b)}
      BY <2>1
    <2> QED
      BY <1>5, <2>1, <2>2 DEF DeleteBetsBeforeDate
  <1>6. CASE OpenList \/ CountRows \/ FetchPage \/ UNCHANGED reportVars
    BY <1>6, ZenonT(60) DEF OpenList, CountRows, FetchPage, reportVars
  <1> QED
    BY <1>1, <1>2, <1>3, <1>4, <1>5, <1>6 DEF ReportsNext

-----------------------------------------------------------------------------
(* The pages *)

\* How the list may move under a reader whom deletions alone take rows from: rows come,
\* and those that leave are deleted, after every row that they come before.
ListMoves ==
  /\ walk'.stage = walk.stage /\ walk'.filter = walk.filter /\ walk'.status = walk.status
  /\ walk'.page = walk.page /\ walk'.total = walk.total
  /\ walk'.shown = walk.shown /\ walk'.there = walk.there
  /\ \A b \in Bet : status[b] = "deleted" => status'[b] = "deleted"
  /\ \A b \in Listed : b \in Listed' \/ status'[b] = "deleted"
  /\ \A b \in Listed \cap Listed', c \in Listed :
        ComesBefore(c, b) => c \in Listed' /\ ComesBefore(c, b)'
  /\ walk.stage = "count" /\ ~walk'.raced => ~walk.raced /\ Listed' \subseteq Listed


\* What being listed asks of a row's period and of its status.
Fits(f, b, p) ==
  /\ p \in f.fromDate .. f.toDate
  /\ Given(f, "operatorId", Columns[b].operatorId)
  /\ Given(f, "userId", Columns[b].userId)
  /\ Given(f, "gameCode", Columns[b].gameCode)
  /\ OnActivePlatform(f, b)

LEMMA ListedRows ==
  /\ Listed = {b \in Bet : /\ status[b] \in RowStatus
                           /\ Fits(walk.filter, b, created[b]) /\ HasStatus(walk.status, status[b])}
  /\ Listed' = {b \in Bet : /\ status'[b] \in RowStatus
                            /\ Fits(walk'.filter, b, created'[b]) /\ HasStatus(walk'.status, status'[b])}
  BY DEF Listed, BetsFor, Rows, InWhere, Fits

\* A row that is marked anew comes onto the list, or leaves it under the reader's eyes.
LEMMA MarkedMovesList ==
  ASSUME walk \in Walks(walk.filter), MaySlip, ~walk'.left, UNCHANGED <<created, after>>,
         NEW b \in Bet, status[b] \in RowStatus, status'[b] \in RowStatus,
         \A c \in Bet \ {b} : status'[c] = status[c]
  PROVE  ListMoves
  <1>1. /\ walk'.stage = walk.stage /\ walk'.filter = walk.filter /\ walk'.status = walk.status
        /\ walk'.page = walk.page /\ walk'.total = walk.total
        /\ walk'.shown = walk.shown /\ walk'.there = walk.there
        /\ walk'.raced = (walk.raced \/ walk.stage = "count")
        /\ ~Leaves(b)
    BY WalkSlips
  <1>2. HasStatus(walk.status, status[b]) => HasStatus(walk.status, status'[b])
    BY <1>1 DEF Leaves
  <1>3. Listed \subseteq Listed' /\ Listed \subseteq Bet
    BY <1>1, <1>2, ListedRows
  <1>4. \A c \in Bet : status[c] = "deleted" => status'[c] = "deleted"
    BY DEF RowStatus, Outcome
  <1> QED
    BY <1>1, <1>3, <1>4 DEF ListMoves, ComesBefore, Walks

LEMMA BetsMoveList ==
  ASSUME ReportsInv, ~walk'.left,
         (\E b \in Bet : PlaceBet(b) \/ Resolve(b) \/ Fail(b)) \/ PeriodEnds \/ DeleteBetsBeforeDate
  PROVE  ListMoves
  <1>1. walk \in Walks(walk.filter)
    BY DEF ReportsInv, ReportsTypeOK, Walks
  <1>3. /\ status \in [Bet -> RowStatus \cup {"none", "deleted"}]
        /\ created \in [Bet -> Period] /\ after \subseteq Bet \X Bet
        /\ after \subseteq Rows \X Rows
        /\ \A b, c \in Bet : <<b, c>> \in after => created[c] <= created[b]
    BY DEF ReportsInv, ReportsTypeOK, RowsOrdered
  <1> USE DEF ListMoves, ComesBefore, RowStatus, Outcome
  <1>4. ASSUME NEW b \in Bet, PlaceBet(b) PROVE ListMoves
    <2>1. /\ status[b] = "none" /\ status' = [status EXCEPT ![b] = "placed"]
          /\ created' = [created EXCEPT ![b] = period]
          /\ after \subseteq after'
      BY <1>4 DEF PlaceBet
    <2>2. /\ walk'.stage = walk.stage /\ walk'.filter = walk.filter /\ walk'.status = walk.status
          /\ walk'.page = walk.page /\ walk'.total = walk.total
          /\ walk'.shown = walk.shown /\ walk'.there = walk.there
          /\ walk'.raced = (walk.raced \/ walk.stage = "count")
      BY <1>1, <1>4, WalkSlips DEF PlaceBet
    <2> QED
      BY <1>3, <2>1, <2>2, ListedRows
  <1>5. ASSUME NEW b \in Bet, Resolve(b) PROVE ListMoves
    BY <1>1, <1>3, <1>5, MarkedMovesList, ResolveApplies DEF Resolve, ReportsInv
  <1>6. ASSUME NEW b \in Bet, Fail(b) PROVE ListMoves
    BY <1>1, <1>3, <1>6, MarkedMovesList DEF Fail, ReportsInv
  <1>7. CASE PeriodEnds
    <2>1. status' = status /\ created' = created /\ after' = after /\ walk' = walk
      BY <1>7 DEF PeriodEnds
    <2> QED
      BY <2>1, ListedRows
  <1>8. CASE DeleteBetsBeforeDate
    <2>1. /\ \A b \in Bet : status'[b] = IF IsOld(b) THEN "deleted" ELSE status[b]
          /\ after' = {pair \in after : ~IsOld(pair[1]) /\ ~IsOld(pair[2])}
          /\ created' = created /\ walk' = walk /\ period' = period
      BY <1>8 DEF DeleteBetsBeforeDate
    <2>2. Listed' = {b \in Listed : ~IsOld(b)}
      BY <2>1, ListedRows
    <2>3. \A b, c \in Bet : status[b] \in RowStatus /\ <<c, b>> \in after /\ ~IsOld(b) => ~IsOld(c)
      BY <1>3, ReportsAssumption DEF IsOld, Period, ReportsInv, ReportsTypeOK
    <2>4. Listed \subseteq Bet /\ \A b \in Listed : status[b] \in RowStatus
      BY ListedRows
    <2>5. \A b \in Listed : b \in Listed' \/ status'[b] = "deleted"
      BY <2>1, <2>2, <2>4
    <2>6. \A b \in Listed \cap Listed', c \in Listed :
             <<c, b>> \in after => c \in Listed' /\ <<c, b>> \in after'
      BY <2>1, <2>2, <2>3, <2>4
    <2>7. \A b \in Bet : status[b] = "deleted" => status'[b] = "deleted"
      BY <2>1
    <2> QED
      BY <2>1, <2>2, <2>5, <2>6, <2>7
  <1> QED
    BY <1>4, <1>5, <1>6, <1>7, <1>8

LEMMA PlacesGrow ==
  ASSUME ListMoves
  PROVE  \A b \in Listed \cap Listed' : Place(b) \in Nat /\ Place(b)' \in Nat /\ Place(b) <= Place(b)'
  <1> TAKE b \in Listed \cap Listed'
  <1> DEFINE B == {c \in Listed : ComesBefore(c, b)}
  <1>1. IsFiniteSet(Listed) /\ IsFiniteSet(Listed')
    <2>1. Listed' \subseteq Bet
      BY ListedRows
    <2> QED
      BY <2>1, ListedFinite, ReportsAssumption, FS_Subset
  <1>2. B \subseteq B' /\ B' \subseteq Listed' /\ B \subseteq Listed
    BY DEF ListMoves
  <1>3. Place(b) = Cardinality(B) + 1 /\ Place(b)' = Cardinality(B') + 1
    BY DEF Place
  <1>4. B \in SUBSET Listed /\ B' \in SUBSET Listed' /\ B \in SUBSET B'
    BY <1>2
  <1>5. IsFiniteSet(B) /\ IsFiniteSet(B')
    <2> HIDE DEF B
    <2> QED
      BY <1>1, <1>4, FS_Subset
  <1>6. Cardinality(B) \in Nat /\ Cardinality(B') \in Nat /\ Cardinality(B) <= Cardinality(B')
    <2> HIDE DEF B
    <2> QED
      BY <1>4, <1>5, FS_CardinalityType, FS_Subset
  <1> QED
    BY <1>3, <1>6

LEMMA PlacesOnList ==
  ASSUME ReportsInv
  PROVE  /\ Cardinality(Listed) \in Nat
         /\ \A b \in Listed : Place(b) \in Nat /\ 1 <= Place(b) /\ Place(b) <= Cardinality(Listed)
  <1>1. IsFiniteSet(Listed) /\ Cardinality(Listed) \in Nat
    BY ListedFinite, FS_CardinalityType
  <1> SUFFICES ASSUME NEW b \in Listed
               PROVE  Place(b) \in Nat /\ 1 <= Place(b) /\ Place(b) <= Cardinality(Listed)
    BY <1>1
  <1> DEFINE B == {c \in Listed : ComesBefore(c, b)}
  <1>2. b \notin B
    BY ListedFinite DEF ReportsInv, RowsOrdered, ComesBefore
  <1>3. B \in SUBSET (Listed \ {b}) /\ Place(b) = Cardinality(B) + 1
    BY <1>2 DEF Place
  <1> HIDE DEF B
  <1>4. IsFiniteSet(Listed \ {b}) /\ Cardinality(Listed \ {b}) = Cardinality(Listed) - 1
    BY <1>1, FS_RemoveElement
  <1>5. IsFiniteSet(B) /\ Cardinality(B) <= Cardinality(Listed \ {b})
    BY <1>3, <1>4, FS_Subset
  <1>6. Cardinality(B) \in Nat
    BY <1>5, FS_CardinalityType
  <1> QED
    BY <1>1, <1>3, <1>4, <1>5, <1>6

\* A step of the reader's leaves the list as it is.
LEMMA ReaderMovesNothing ==
  ASSUME UNCHANGED <<period, status, created, after, applied>>,
         walk'.filter = walk.filter, walk'.status = walk.status
  PROVE  Listed' = Listed /\ \A b : Place(b)' = Place(b)
  <1>1. Listed' = Listed
    BY DEF Listed, BetsFor, Rows, InWhere
  <1> HIDE DEF Listed
  <1>2. \A b : {c \in Listed' : ComesBefore(c, b)'} = {c \in Listed : ComesBefore(c, b)}
    BY <1>1 DEF ComesBefore
  <1> QED
    BY <1>1, <1>2, Zenon DEF Place

LEMMA PagesKept ==
  ASSUME ReportsInv, [ReportsNext]_reportVars
  PROVE  PagesTurned' /\ PagesShowAll'
  <1> DEFINE Pages == PagesTurned' /\ PagesShowAll'
  <1>1. /\ walk \in Walks(walk.filter) /\ PagesTurned /\ PagesShowAll
        /\ PageLimit \in Nat \ {0}
    BY ReportsAssumption DEF ReportsInv, ReportsTypeOK, Walks
  <1>2. CASE (\E b \in Bet : PlaceBet(b) \/ Resolve(b) \/ Fail(b)) \/ PeriodEnds \/ DeleteBetsBeforeDate
    <2>1. walk.left => walk'.left
      BY <1>1, <1>2, WalkSlips DEF PlaceBet, Resolve, Fail, PeriodEnds, DeleteBetsBeforeDate
    <2>2. CASE walk'.left
      BY <2>2 DEF PagesTurned, PagesShowAll
    <2>3. CASE ~walk'.left /\ ~walk.left
      <3>1. ListMoves
        BY <1>2, <2>3, BetsMoveList
      <3>2. \A b \in walk.there \cap Listed' : b \in Listed /\ Place(b) <= Place(b)'
                                                 /\ Place(b) \in Nat /\ Place(b)' \in Nat
        <4> TAKE b \in walk.there \cap Listed'
        <4>1. b \in Listed \/ status'[b] = "deleted"
          BY <1>1, <2>3, <3>1 DEF ListMoves, PagesTurned, Walks
        <4>2. status'[b] # "deleted"
          BY ListedRows DEF RowStatus, Outcome
        <4> QED
          BY <3>1, <4>1, <4>2, PlacesGrow
      <3>3. \A b \in walk.there : b \in Listed' \/ status'[b] = "deleted"
        BY <1>1, <2>3, <3>1 DEF ListMoves, PagesTurned, Walks
      <3>4. walk.stage = "count" /\ ~walk'.raced => Cardinality(Listed') <= walk.total
        <4> SUFFICES ASSUME walk.stage = "count", ~walk'.raced
                     PROVE  Cardinality(Listed') <= walk.total
          OBVIOUS
        <4>1. ~walk.raced /\ Listed' \in SUBSET Listed
          BY <3>1 DEF ListMoves
        <4>2. Cardinality(Listed) <= walk.total
          BY <1>1, <2>3, <4>1 DEF PagesTurned
        <4>3. /\ IsFiniteSet(Listed') /\ Cardinality(Listed') <= Cardinality(Listed)
              /\ Cardinality(Listed) \in Nat /\ walk.total \in Nat
          BY <1>1, <4>1, ListedFinite, FS_Subset, FS_CardinalityType DEF Walks
        <4>4. Cardinality(Listed') \in Nat
          BY <4>3, FS_CardinalityType
        <4> QED
          BY <4>2, <4>3, <4>4
      <3>5. (walk.page - 1) * PageLimit \in Int
        BY <1>1 DEF Walks
      <3>6. PagesTurned'
        BY <1>1, <2>3, <3>1, <3>2, <3>3, <3>4, <3>5 DEF PagesTurned, ListMoves
      <3>7. PagesShowAll'
        <4>1. walk'.stage = "done" /\ ~walk'.raced => ~walk.raced
          BY <1>1, <1>2, <3>1, WalkSlips
             DEF ListMoves, PlaceBet, Resolve, Fail, PeriodEnds, DeleteBetsBeforeDate
        <4> QED
          BY <1>1, <2>3, <3>1, <3>2, <4>1 DEF PagesShowAll, ListMoves
      <3> QED
        BY <3>6, <3>7
    <2> QED
      BY <2>1, <2>2, <2>3
  <1>3. CASE OpenList
    <2>1. walk'.stage = "open" /\ walk'.there = {} /\ walk'.page = 1
      BY <1>3 DEF OpenList, NoWalk
    <2> QED
      BY <2>1 DEF PagesTurned, PagesShowAll
  <1>4. CASE CountRows
    <2>1. /\ walk.stage \in {"open", "next"} /\ walk'.stage = "count"
          /\ walk'.filter = walk.filter /\ walk'.status = walk.status /\ walk'.page = walk.page
          /\ walk'.left = walk.left /\ walk'.shown = walk.shown /\ walk'.total = Cardinality(Listed)
          /\ walk'.there = IF walk.stage = "open" THEN Listed ELSE walk.there
          /\ UNCHANGED <<period, status, created, after, applied>>
      BY <1>1, <1>4 DEF CountRows, Walks
    <2>2. Listed' = Listed /\ \A b : Place(b)' = Place(b)
      BY <2>1, ReaderMovesNothing
    <2>3. PagesTurned'
      BY <1>1, <2>1, <2>2, PlacesOnList DEF PagesTurned, Walks
    <2> QED
      BY <2>1, <2>3 DEF PagesShowAll
  <1>5. CASE FetchPage
    <2>1. /\ walk.stage = "count" /\ walk'.total = walk.total /\ walk'.raced = walk.raced
          /\ walk'.left = walk.left
          /\ walk'.filter = walk.filter /\ walk'.status = walk.status /\ walk'.there = walk.there
          /\ walk'.shown = walk.shown \cup Page(walk.page)
          /\ \/ walk'.stage = "next" /\ walk'.page = walk.page + 1
             \/ walk'.stage = "done" /\ walk.page * PageLimit >= walk.total
          /\ UNCHANGED <<period, status, created, after, applied>>
      BY <1>1, <1>5, ZenonT(60) DEF FetchPage, Walks
    <2>2. Listed' = Listed /\ \A b : Place(b)' = Place(b)
      BY <2>1, ReaderMovesNothing
    <2> SUFFICES ASSUME ~walk.left
                 PROVE  Pages
      BY <2>1 DEF PagesTurned, PagesShowAll
    <2>3. \A b \in (walk.there \cap Listed) \ walk'.shown : Place(b) > walk.page * PageLimit
      <3> TAKE b \in (walk.there \cap Listed) \ walk'.shown
      <3>1. Place(b) > (walk.page - 1) * PageLimit
        BY <1>1, <2>1 DEF PagesTurned
      <3>2. Place(b) \notin (walk.page - 1) * PageLimit + 1 .. walk.page * PageLimit
        BY <2>1 DEF Page
      <3>3. /\ (walk.page - 1) * PageLimit \in Int /\ walk.page * PageLimit \in Int
            /\ Place(b) \in Int
        BY <1>1, PlacesOnList DEF Walks
      <3> QED
        BY <3>1, <3>2, <3>3
    <2>4. CASE walk'.stage = "next" /\ walk'.page = walk.page + 1
      <3>1. (walk'.page - 1) * PageLimit = walk.page * PageLimit
        BY <1>1, <2>4 DEF Walks
      <3>2. PagesTurned'
        BY <1>1, <2>1, <2>2, <2>3, <2>4, <3>1 DEF PagesTurned
      <3> QED
        BY <2>4, <3>2 DEF PagesShowAll
    <2>5. CASE walk'.stage = "done" /\ walk.page * PageLimit >= walk.total
      <3>1. ~walk.raced => (walk.there \cap Listed) \ walk'.shown = {}
        <4> SUFFICES ASSUME ~walk.raced, NEW b \in (walk.there \cap Listed) \ walk'.shown
                     PROVE  FALSE
          OBVIOUS
        <4>1. Cardinality(Listed) <= walk.total
          BY <1>1, <2>1 DEF PagesTurned
        <4>2. walk.page * PageLimit \in Int /\ walk.total \in Int
          BY <1>1 DEF Walks
        <4> QED
          BY <2>3, <2>5, <4>1, <4>2, PlacesOnList
      <3>2. PagesShowAll'
        BY <2>1, <2>2, <3>1 DEF PagesShowAll
      <3>3. PagesTurned'
        BY <1>1, <2>1, <2>2, <2>5 DEF PagesTurned
      <3> QED
        BY <3>2, <3>3
    <2> QED
      BY <2>1, <2>4, <2>5
  <1>6. CASE UNCHANGED reportVars
    <2>1. Listed' = Listed /\ (\A b : Place(b)' = Place(b)) /\ walk' = walk /\ status' = status
      BY <1>6, ReaderMovesNothing DEF reportVars
    <2> QED
      BY <1>1, <2>1 DEF PagesTurned, PagesShowAll
  <1> QED
    BY <1>2, <1>3, <1>4, <1>5, <1>6 DEF ReportsNext

LEMMA ReportsInvAlways == ReportsSpec => []ReportsInv
  <1>1. ReportsInv /\ [ReportsNext]_reportVars => ReportsInv'
    BY ReportsTyped, RowsKept, PagesKept DEF ReportsInv
  <1> QED
    BY <1>1, ReportsInvInit, PTL DEF ReportsSpec

\* The rows, their order and the reader stay well typed.
THEOREM ReportsTypeCorrect == ReportsSpec => []ReportsTypeOK
  <1>1. ReportsInv => ReportsTypeOK
    BY DEF ReportsInv
  <1> QED
    BY <1>1, ReportsInvAlways, PTL

\* Whoever reads the list of bets (AdminBetService.getBets) page by page to the end has
\* seen every bet that stayed on it, however many others come, change and go meanwhile.
THEOREM ReadersSeeAll == ReportsSpec => []PagesShowAll
  <1>1. ReportsInv => PagesShowAll
    BY DEF ReportsInv
  <1> QED
    BY <1>1, ReportsInvAlways, PTL

-----------------------------------------------------------------------------
(* The totals *)

Stakes == [b \in Bet |-> Columns[b].stake]
Payouts == [b \in Bet |-> Columns[b].payout]
Takings == [b \in Bet |-> Taken(b)]
Misses == [b \in Bet |-> Untold(b)]
Shown == [b \in Bet |-> (IF Counts(b) THEN Columns[b].stake ELSE 0)
                           - (IF status[b] = "won" THEN Columns[b].payout ELSE 0)]

\* What a row shows is what the agent took and gave, but for the ends that it does not tell.
LEMMA RowsCount ==
  ASSUME ReportsInv, NEW b \in Rows
  PROVE  /\ Taken(b) \in Int /\ Untold(b) \in Int /\ Shown[b] \in Int
         /\ Taken(b) = Shown[b] - (IF ~Told(b) THEN Untold(b) ELSE 0)
  <1>1. b \in Bet /\ status[b] \in RowStatus
    BY DEF Rows, ReportsInv, ReportsTypeOK
  <1>2. Columns[b].stake \in Int /\ Columns[b].payout \in Int
    BY <1>1, ReportsAssumption
  <1>3. /\ applied[b]["won"] \in Nat /\ applied[b]["lost"] \in Nat /\ applied[b]["refunded"] \in Nat
        /\ status[b] \in Outcome => applied[b][status[b]] > 0
    BY <1>1 DEF ReportsInv, ReportsTypeOK, RowsTell, Outcome
  <1>4. GivenBack(b) \in Int
    BY <1>2, <1>3 DEF GivenBack
  <1>5. Taken(b) = Columns[b].stake - GivenBack(b)
    BY DEF Taken
  <1>6. Shown[b] = (IF status[b] # "refunded" THEN Columns[b].stake ELSE 0)
                     - (IF status[b] = "won" THEN Columns[b].payout ELSE 0)
    BY <1>1 DEF Shown, Counts
  <1>7. /\ Untold(b) \in Int
        /\ Taken(b) = Shown[b] - Untold(b)
    <2>1. CASE status[b] = "won"
      BY <1>2, <1>4, <1>5, <1>6, <2>1 DEF Untold
    <2>2. CASE status[b] = "refunded"
      BY <1>2, <1>4, <1>5, <1>6, <2>2 DEF Untold
    <2>3. CASE status[b] \notin {"won", "refunded"}
      BY <1>2, <1>4, <1>5, <1>6, <2>3 DEF Untold
    <2> QED
      BY <2>1, <2>2, <2>3
  <1>8. ASSUME Told(b) PROVE Untold(b) = 0
    <2> DEFINE w == applied[b]["won"]
               l == applied[b]["lost"]
               r == applied[b]["refunded"]
    <2>1. w \in Nat /\ l \in Nat /\ r \in Nat
          /\ w + l + r = (IF status[b] \in Outcome THEN 1 ELSE 0)
      BY <1>3, <1>8 DEF Told, Ends
    <2>2. GivenBack(b) = w * Columns[b].payout + r * Columns[b].stake
      BY DEF GivenBack
    <2>3. status[b] \in Outcome => applied[b][status[b]] > 0
      BY <1>3
    <2>4. CASE status[b] = "won"
      <3>1. w = 1 /\ r = 0
        BY <2>1, <2>3, <2>4 DEF Outcome
      <3> HIDE DEF w, l, r
      <3> QED
        BY <1>2, <2>2, <2>4, <3>1 DEF Untold
    <2>5. CASE status[b] = "lost"
      <3>1. w = 0 /\ r = 0
        BY <2>1, <2>3, <2>5 DEF Outcome
      <3> HIDE DEF w, l, r
      <3> QED
        BY <1>2, <2>2, <2>5, <3>1 DEF Untold
    <2>6. CASE status[b] = "refunded"
      <3>1. w = 0 /\ r = 1
        BY <2>1, <2>3, <2>6 DEF Outcome
      <3> HIDE DEF w, l, r
      <3> QED
        BY <1>2, <2>2, <2>6, <3>1 DEF Untold
    <2>7. CASE status[b] \notin Outcome
      <3>1. w + l + r = 0
        BY <2>1, <2>7
      <3>2. status[b] # "won" /\ status[b] # "refunded"
        BY <2>7 DEF Outcome
      <3> HIDE DEF w, l, r
      <3>3. w = 0 /\ r = 0
        BY <2>1, <3>1
      <3> QED
        BY <1>2, <2>2, <3>2, <3>3 DEF Untold
    <2> QED
      BY <2>4, <2>5, <2>6, <2>7 DEF Outcome
  <1>9. Shown[b] \in Int
    BY <1>2, <1>6
  <1> QED
    BY <1>2, <1>4, <1>5, <1>7, <1>8, <1>9

LEMMA RevenueIsCash ==
  ASSUME ReportsInv, NEW bets \in SUBSET Rows
  PROVE  /\ IsFiniteSet(bets) /\ \A b \in bets : Shown[b] \in Int
         /\ NetRevenue(bets) = SumFunctionOnSet(Shown, bets)
         /\ NetRevenue(bets)
              = SumFunctionOnSet(Takings, bets) + SumFunctionOnSet(Misses, {b \in bets : ~Told(b)})
  <1> DEFINE A == {b \in bets : Counts(b)}
             B == {b \in bets : status[b] = "won"}
             U == {b \in bets : ~Told(b)}
  <1>1. bets \in SUBSET Bet /\ IsFiniteSet(bets)
    BY ReportsAssumption, FS_Subset DEF Rows
  <1>2. \A b \in bets :
           /\ Shown[b] \in Int /\ Misses[b] \in Int /\ Takings[b] \in Int
           /\ Shown[b] = (IF b \in A THEN Stakes[b] ELSE 0) - (IF b \in B THEN Payouts[b] ELSE 0)
           /\ Takings[b] = (IF b \in bets THEN Shown[b] ELSE 0) - (IF b \in U THEN Misses[b] ELSE 0)
    BY <1>1, RowsCount DEF Takings, Stakes, Payouts, Misses, Shown
  <1>3. (\A b \in A : Stakes[b] \in Int) /\ (\A b \in B : Payouts[b] \in Int)
    BY <1>1, ReportsAssumption DEF Stakes, Payouts
  <1>4. NetRevenue(bets) = SumFunctionOnSet(Stakes, A) - SumFunctionOnSet(Payouts, B)
    BY DEF NetRevenue, StakeSum, WinSum, Stakes, Payouts
  <1>5. A \in SUBSET bets /\ B \in SUBSET bets /\ U \in SUBSET bets /\ bets \in SUBSET bets
    OBVIOUS
  <1>6. \A b \in U : Misses[b] \in Int
    BY <1>2
  <1> HIDE DEF A, B, U
  <1>7. SumFunctionOnSet(Shown, bets) = SumFunctionOnSet(Stakes, A) - SumFunctionOnSet(Payouts, B)
    BY <1>1, <1>2, <1>3, <1>5, SumDifference
  <1>8. SumFunctionOnSet(Takings, bets) = SumFunctionOnSet(Shown, bets) - SumFunctionOnSet(Misses, U)
    BY <1>1, <1>2, <1>5, <1>6, SumDifference
  <1>9. SumFunctionOnSet(Shown, bets) \in Int /\ SumFunctionOnSet(Misses, U) \in Int
    BY <1>1, <1>2, <1>5, <1>6, SumInt, FS_Subset
  <1> QED
    BY <1>1, <1>2, <1>4, <1>7, <1>8, <1>9 DEF U

LEMMA GroupsAddUp ==
  ASSUME ReportsInv, NEW bets \in SUBSET Rows
  PROVE  SumFunction([g \in Groups(bets) |-> NetRevenue(GroupOf(bets, g))])
            = SumFunctionOnSet(Shown, bets)
  <1> DEFINE G == Groups(bets)
             key == [b \in bets |-> <<Columns[b].userId, Columns[b].gameCode>>]
             group == [g \in G |-> GroupOf(bets, g)]
             row == [g \in G |-> NetRevenue(GroupOf(bets, g))]
  <1>1. IsFiniteSet(bets) /\ \A b \in bets : Shown[b] \in Int
    BY RevenueIsCash
  <1>2. (\A b \in bets : key[b] \in G) /\ (\A g \in G : \E b \in bets : key[b] = g)
    BY DEF Groups
  <1>3. \A g \in G :
           /\ group[g] \subseteq bets /\ \A b \in bets : b \in group[g] <=> key[b] = g
           /\ row[g] = SumFunctionOnSet(Shown, group[g])
    <2> TAKE g \in G
    <2>1. group[g] = GroupOf(bets, g) /\ row[g] = NetRevenue(GroupOf(bets, g))
      OBVIOUS
    <2>2. GroupOf(bets, g) \in SUBSET bets /\ \A b \in bets : b \in GroupOf(bets, g) <=> key[b] = g
      BY DEF GroupOf
    <2>3. NetRevenue(GroupOf(bets, g)) = SumFunctionOnSet(Shown, GroupOf(bets, g))
      BY <2>2, RevenueIsCash
    <2> HIDE DEF row, key, group
    <2> QED
      BY <2>1, <2>2, <2>3
  <1>4. SumFunction(row) = SumFunctionOnSet(row, G)
    BY DEF SumFunction
  <1> HIDE DEF row, key, group, G
  <1>5. SumFunctionOnSet(row, G) = SumFunctionOnSet(Shown, bets)
    <2>1. Divides(group, G, key, bets)
      BY <1>2, <1>3 DEF Divides
    <2>2. \A g \in G : row[g] = SumFunctionOnSet(Shown, group[g])
      BY <1>3
    <2> HIDE DEF Shown
    <2> QED
      BY <1>1, <2>1, <2>2, SumOfGroups
  <1> QED
    BY <1>4, <1>5 DEF row, G

\* Whatever the filter, the totals that AdminBetService and AdminPlayerSummaryService
\* compute, and the rows of the players' summary together, are what the agents' wallets have
\* taken less what they gave back; what they gave back beyond the end that a row tells is
\* all that is missing, and it is missing for those bets alone.
THEOREM ReportsAreTheMoney == ReportsSpec => []ReportsMatchMoney
  <1>1. ReportsInv => ReportsMatchMoney
    <2> SUFFICES ASSUME ReportsInv, NEW f \in Filter
                 PROVE  LET bets == BetsFor(f)
                            players == PlayersBetsFor(f)
                            Cash(s) == SumFunctionOnSet([b \in Bet |-> Taken(b)], s)
                            Missed(s) ==
                              SumFunctionOnSet([b \in Bet |-> Untold(b)], {b \in s : ~Told(b)})
                            Row(g) == NetRevenue(GroupOf(players, g))
                        IN  /\ NetRevenue(bets) = Cash(bets) + Missed(bets)
                            /\ NetRevenue(players) = Cash(players) + Missed(players)
                            /\ SumFunction([g \in Groups(players) |-> Row(g)])
                                 = Cash(players) + Missed(players)
      BY DEF ReportsMatchMoney
    <2>1. BetsFor(f) \in SUBSET Rows /\ PlayersBetsFor(f) \in SUBSET Rows
      BY DEF BetsFor, PlayersBetsFor
    <2> QED
      BY <2>1, RevenueIsCash, GroupsAddUp DEF Takings, Misses
  <1> QED
    BY <1>1, ReportsInvAlways, PTL
=============================================================================
