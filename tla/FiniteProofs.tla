---------------------------- MODULE FiniteProofs ----------------------------
(***************************************************************************)
(* Facts about finite sets of numbers and about sums, for the proofs of    *)
(* the services.                                                           *)
(***************************************************************************)
EXTENDS Integers, FiniteSetsExt, FiniteSetTheorems, TLAPS

-----------------------------------------------------------------------------
(* Induction over the subsets of a finite set.                             *)

\* A set of subsets has a member from which nothing can be taken away.
LEMMA LeastSubset ==
    ASSUME NEW S, IsFiniteSet(S), NEW Bad, Bad \subseteq SUBSET S, Bad # {}
    PROVE  \E T \in Bad : \A x \in T : T \ {x} \notin Bad
<1>1. IsWellFoundedOn(StrictSubsetOrdering(S), SUBSET S)
    BY FS_StrictSubsetOrderingWellFounded, FS_FiniteSubsetsOfFinite
<1>2. PICK T \in Bad : \A U \in Bad : <<U, T>> \notin StrictSubsetOrdering(S)
    BY <1>1, WFMin
<1>3. ASSUME NEW x \in T, T \ {x} \in Bad PROVE FALSE
    <2>1. <<T \ {x}, T>> \in StrictSubsetOrdering(S)
        BY <1>3 DEF StrictSubsetOrdering
    <2>. QED BY <1>2, <1>3, <2>1
<1>. QED BY <1>3

\* A finite set of numbers has a largest one.
LEMMA FiniteMax ==
    ASSUME NEW S, IsFiniteSet(S), S \subseteq Nat, S # {}
    PROVE  \E m \in S : \A x \in S : x <= m
<1>. DEFINE HasMax(T) == \E m \in T : \A x \in T : x <= m
            Bad == {T \in SUBSET S : T # {} /\ ~HasMax(T)}
<1>. SUFFICES ASSUME Bad # {} PROVE FALSE
    OBVIOUS
<1>1. PICK T \in Bad : \A x \in T : T \ {x} \notin Bad
    BY LeastSubset
<1>2. PICK x \in T : TRUE
    OBVIOUS
<1>3. CASE T \ {x} = {}
    BY <1>3
<1>4. CASE T \ {x} # {}
    <2>1. PICK m \in T \ {x} : \A y \in T \ {x} : y <= m
        BY <1>1, <1>2, <1>4
    <2>2. CASE x <= m
        BY <2>1, <2>2
    <2>3. CASE m <= x
        BY <2>1, <2>3
    <2>. QED BY <2>2, <2>3
<1>. QED BY <1>3, <1>4

-----------------------------------------------------------------------------
(* Sums.                                                                   *)

\* Addition, folded: the facts below that say Plus are matched as they stand.
Plus(x, y) == x + y

\* How a sum takes the members of a set one after the other.
Pick(T) == CHOOSE x \in T : TRUE

Adds(F, f, T) ==
    \A U \in SUBSET T : F[U] = IF U = {} THEN 0 ELSE f[Pick(U)] + F[U \ {Pick(U)}]

LEMMA PickIn ==
    ASSUME NEW T, T # {}
    PROVE  Pick(T) \in T
BY DEF Pick

\* Two functions that add up the same numbers agree.
LEMMA AddsUnique ==
    ASSUME NEW S, IsFiniteSet(S), NEW f, NEW T \in SUBSET S, NEW U \in SUBSET S,
           NEW F, NEW G, Adds(F, f, T), Adds(G, f, U), NEW V, V \subseteq T, V \subseteq U
    PROVE  F[V] = G[V]
<1>. DEFINE Bad == {W \in SUBSET (T \cap U) : F[W] # G[W]}
<1>. SUFFICES ASSUME Bad # {} PROVE FALSE
    OBVIOUS
<1>1. PICK W \in Bad : \A x \in W : W \ {x} \notin Bad
    <2>1. Bad \subseteq SUBSET S
        OBVIOUS
    <2>. HIDE DEF Bad
    <2>. QED BY <2>1, LeastSubset
<1>2. CASE W = {}
    BY <1>2 DEF Adds
<1>3. CASE W # {}
    <2>. DEFINE x == Pick(W)
    <2>1. x \in W
        BY <1>3, PickIn
    <2>2. F[W \ {x}] = G[W \ {x}]
        BY <1>1, <2>1
    <2>3. F[W] = f[x] + F[W \ {x}] /\ G[W] = f[x] + G[W \ {x}]
        BY <1>3 DEF Adds
    <2>. QED BY <2>2, <2>3
<1>. QED BY <1>2, <1>3

\* There is a function that adds up.
LEMMA AddsExists ==
    ASSUME NEW S, IsFiniteSet(S), NEW f \in [S -> Int]
    PROVE  \E F \in [SUBSET S -> Int] : Adds(F, f, S)
<1>. DEFINE Good(T) == \E F \in [SUBSET T -> Int] : Adds(F, f, T)
            Bad == {T \in SUBSET S : ~Good(T)}
<1>. SUFFICES ASSUME Bad # {} PROVE FALSE
    OBVIOUS
<1>1. PICK T \in Bad : \A x \in T : T \ {x} \notin Bad
    <2>1. Bad \subseteq SUBSET S
        OBVIOUS
    <2>. HIDE DEF Bad
    <2>. QED BY <2>1, LeastSubset
<1>. DEFINE Part == [x \in T |-> CHOOSE F \in [SUBSET (T \ {x}) -> Int] : Adds(F, f, T \ {x})]
<1>2. ASSUME NEW x \in T
      PROVE  Part[x] \in [SUBSET (T \ {x}) -> Int] /\ Adds(Part[x], f, T \ {x})
    <2>1. \E F \in [SUBSET (T \ {x}) -> Int] : Adds(F, f, T \ {x})
        BY <1>1
    <2>. QED BY <2>1
<1>. HIDE DEF Part
<1>. DEFINE Missing(U) == CHOOSE x \in T : x \notin U
            c == Pick(T)
            Whole == [U \in SUBSET T |->
                        IF U = T THEN IF T = {} THEN 0 ELSE f[c] + Part[c][T \ {c}]
                        ELSE Part[Missing(U)][U]]
<1>3. ASSUME NEW U \in SUBSET T, U # T
      PROVE  Missing(U) \in T /\ U \in SUBSET (T \ {Missing(U)})
    <2>1. \E x \in T : x \notin U
        BY <1>3
    <2>2. Missing(U) \in T /\ Missing(U) \notin U
        BY <2>1
    <2>. QED BY <2>2
<1>. HIDE DEF Missing
<1>4. T # {} => c \in T /\ T \ {c} \in SUBSET (T \ {c})
    BY PickIn
<1>. HIDE DEF c
<1>5. Whole \in [SUBSET T -> Int]
    <2>1. ASSUME NEW U \in SUBSET T PROVE Whole[U] \in Int
        <3>1. CASE U = T /\ T # {}
            <4>1. c \in S /\ T \ {c} \in SUBSET (T \ {c})
                BY <1>1, <1>4, <3>1
            <4>2. f[c] \in Int /\ Part[c][T \ {c}] \in Int
                BY <1>2, <1>4, <3>1, <4>1
            <4>. QED BY <3>1, <4>2
        <3>2. CASE U = T /\ T = {}
            BY <3>2
        <3>3. CASE U # T
            <4>1. PICK x \in T : x = Missing(U) /\ U \in SUBSET (T \ {x})
                BY <1>3, <3>3
            <4>2. Part[x] \in [SUBSET (T \ {x}) -> Int]
                BY <1>2
            <4>3. Part[x][U] \in Int
                BY ONLY <4>1, <4>2
            <4>. QED BY <3>3, <4>1, <4>3
        <3>. QED BY <3>1, <3>2, <3>3
    <2>. QED BY <2>1
<1>6. Adds(Whole, f, T)
    <2>1. SUFFICES ASSUME NEW U \in SUBSET T, U # {}
                   PROVE  Whole[U] = f[Pick(U)] + Whole[U \ {Pick(U)}]
        <3>1. Whole[{}] = 0
            <4>1. CASE T = {}
                BY <4>1
            <4>2. CASE T # {}
                <5>1. Missing({}) \in T /\ {} \in SUBSET (T \ {Missing({})})
                    BY <1>3, <4>2
                <5>2. Part[Missing({})][{}] = 0
                    BY <1>2, <5>1 DEF Adds
                <5>. QED BY <4>2, <5>2
            <4>. QED BY <4>1, <4>2
        <3>. HIDE DEF Whole
        <3>. QED BY <3>1 DEF Adds
    <2>. DEFINE p == Pick(U)
                V == U \ {p}
    <2>2. p \in U /\ V \in SUBSET T /\ V # T
        BY <2>1, PickIn
    <2>. HIDE DEF p
    <2>3. Missing(V) \in T /\ V \in SUBSET (T \ {Missing(V)})
        BY <1>3, <2>2
    <2>4. Whole[V] = Part[Missing(V)][V]
        BY <2>2
    <2>5. CASE U = T
        <3>1. c = p
            BY <2>5 DEF c, p
        <3>2. Missing(V) = p
            BY <2>2, <2>3, <2>5
        <3>. QED BY <2>1, <2>4, <2>5, <3>1, <3>2 DEF p
    <2>6. CASE U # T
        <3>1. Missing(U) \in T /\ U \in SUBSET (T \ {Missing(U)})
            BY <1>3, <2>6
        <3>2. Part[Missing(U)][U] = f[p] + Part[Missing(U)][V]
            BY <1>2, <2>1, <3>1 DEF Adds, p
        <3>3. Part[Missing(U)][V] = Part[Missing(V)][V]
            <4>1. T \ {Missing(U)} \in SUBSET S /\ T \ {Missing(V)} \in SUBSET S
                BY <1>1
            <4>2. V \in SUBSET ((T \ {Missing(U)}) \cap (T \ {Missing(V)}))
                BY <2>3, <3>1
            <4>3. Adds(Part[Missing(U)], f, T \ {Missing(U)})
                BY <1>2, <3>1
            <4>4. Adds(Part[Missing(V)], f, T \ {Missing(V)})
                BY <1>2, <2>3
            <4>5. PICK F, G : F = Part[Missing(U)] /\ G = Part[Missing(V)]
                OBVIOUS
            <4>6. PICK A \in SUBSET S, B \in SUBSET S :
                    A = T \ {Missing(U)} /\ B = T \ {Missing(V)}
                BY <4>1
            <4>7. Adds(F, f, A) /\ Adds(G, f, B) /\ V \subseteq A /\ V \subseteq B
                BY <4>2, <4>3, <4>4, <4>5, <4>6
            <4>8. F[V] = G[V]
                <5>. HIDE DEF V, Whole
                <5>1. IsFiniteSet(S)
                    OBVIOUS
                <5>. QED BY ONLY <4>7, <5>1, A \in SUBSET S, B \in SUBSET S, AddsUnique
            <4>. QED BY <4>5, <4>8
        <3>4. Whole[U] = Part[Missing(U)][U]
            BY <2>6
        <3>. QED BY <2>4, <3>2, <3>3, <3>4 DEF p
    <2>. QED BY <2>5, <2>6
<1>7. Good(T)
    <2>. HIDE DEF Whole
    <2>. QED BY <1>5, <1>6
<1>. QED BY <1>1, <1>7

\* SumFunction adds up.
LEMMA SumAdds ==
    ASSUME NEW S, IsFiniteSet(S), NEW f \in [S -> Int]
    PROVE  \E F : F \in [SUBSET S -> Int] /\ Adds(F, f, S) /\ SumFunction(f) = F[S]
<1>. DEFINE it[U \in SUBSET S] == IF U = {} THEN 0
                ELSE f[CHOOSE x \in U : TRUE] + it[U \ {CHOOSE x \in U : TRUE}]
<1>1. SumFunction(f) = it[S]
    BY DEF SumFunction, SumFunctionOnSet, FoldFunctionOnSet, MapThenFoldSet
<1>2. PICK F \in [SUBSET S -> Int] : Adds(F, f, S)
    BY AddsExists
<1>3. F = [U \in SUBSET S |-> IF U = {} THEN 0
                ELSE f[CHOOSE x \in U : TRUE] + F[U \ {CHOOSE x \in U : TRUE}]]
    BY <1>2 DEF Adds, Pick
<1>4. it = [U \in SUBSET S |-> IF U = {} THEN 0
                ELSE f[CHOOSE x \in U : TRUE] + it[U \ {CHOOSE x \in U : TRUE}]]
    BY <1>3
<1>. HIDE DEF it
<1>5. Adds(it, f, S)
    BY <1>4 DEF Adds, Pick
<1>6. it[S] = F[S]
    BY <1>2, <1>5, AddsUnique
<1>. QED BY <1>1, <1>2, <1>6

LEMMA SumType ==
    ASSUME NEW S, IsFiniteSet(S), NEW f \in [S -> Int]
    PROVE  SumFunction(f) \in Int
<1>1. PICK F : F \in [SUBSET S -> Int] /\ Adds(F, f, S) /\ SumFunction(f) = F[S]
    BY SumAdds
<1>2. F[S] \in Int
    BY <1>1
<1>. QED BY <1>1, <1>2

LEMMA SumEmpty ==
    ASSUME NEW f \in [{} -> Int]
    PROVE  SumFunction(f) = 0
<1>1. PICK F : F \in [SUBSET {} -> Int] /\ Adds(F, f, {}) /\ SumFunction(f) = F[{}]
    BY SumAdds, FS_EmptySet
<1>. QED BY <1>1 DEF Adds

\* A sum changes by what one of its numbers changes by.
LEMMA SumChange ==
    ASSUME NEW S, IsFiniteSet(S), NEW f, f \in [S -> Int], NEW g, g \in [S -> Int],
           NEW a \in S, \A x \in S : x # a => g[x] = f[x],
           NEW d, d \in Int, g[a] = Plus(f[a], d)
    PROVE  SumFunction(g) = Plus(SumFunction(f), d)
<1>1. PICK F : F \in [SUBSET S -> Int] /\ Adds(F, f, S) /\ SumFunction(f) = F[S]
    BY SumAdds
<1>2. PICK G : G \in [SUBSET S -> Int] /\ Adds(G, g, S) /\ SumFunction(g) = G[S]
    BY SumAdds
<1>. DEFINE Same(T) == G[T] = F[T] + (IF a \in T THEN d ELSE 0)
            Bad == {T \in SUBSET S : ~Same(T)}
<1>3. SUFFICES ASSUME Bad # {} PROVE FALSE
    BY <1>1, <1>2 DEF Plus
<1>4. PICK T \in Bad : \A x \in T : T \ {x} \notin Bad
    <2>1. Bad \subseteq SUBSET S
        OBVIOUS
    <2>. HIDE DEF Bad
    <2>. QED BY <1>3, <2>1, LeastSubset
<1>5. CASE T = {}
    <2>1. F[{}] = 0 /\ G[{}] = 0
        BY <1>1, <1>2 DEF Adds
    <2>2. Same({})
        BY <2>1
    <2>. QED BY <1>4, <1>5, <2>2
<1>6. CASE T # {}
    <2>. DEFINE p == Pick(T)
                R == T \ {p}
    <2>1. p \in T /\ p \in S /\ R \in SUBSET S /\ T \in SUBSET S
        BY <1>4, <1>6, PickIn
    <2>2. F[T] = f[p] + F[R] /\ G[T] = g[p] + G[R]
        BY <1>1, <1>2, <1>6, <2>1 DEF Adds
    <2>3. Same(R)
        BY <1>4, <2>1
    <2>4. F[R] \in Int /\ G[R] \in Int
        BY <1>1, <1>2, <2>1
    <2>5. f[p] \in Int /\ g[p] \in Int /\ g[a] = f[a] + d
        BY <2>1 DEF Plus
    <2>6. a \in R <=> a \in T /\ a # p
        OBVIOUS
    <2>7. p # a => g[p] = f[p]
        BY <2>1
    <2>. HIDE DEF p, R
    <2>8. Same(T)
        BY <2>1, <2>2, <2>3, <2>4, <2>5, <2>6, <2>7
    <2>. QED BY <1>4, <2>8
<1>. QED BY <1>5, <1>6

\* What one number loses another one gains.
Moved(f, g, a, b, n, S) == /\ f[a] = Plus(g[a], n)
                           /\ g[b] = Plus(f[b], n)
                           /\ \A x \in S \ {a, b} : g[x] = f[x]

LEMMA SumTransfer ==
    ASSUME NEW S, IsFiniteSet(S), NEW f, f \in [S -> Int], NEW g, g \in [S -> Int],
           NEW a \in S, NEW b \in S, a # b, NEW n \in Int,
           Moved(f, g, a, b, n, S)
    PROVE  SumFunction(g) = SumFunction(f)
<1>1. PICK h : h = [f EXCEPT ![a] = g[a]]
    OBVIOUS
<1>2. /\ h \in [S -> Int] /\ h[a] = Plus(f[a], -n) /\ g[b] = Plus(h[b], n)
      /\ \A x \in S : x # a => h[x] = f[x]
      /\ \A x \in S : x # b => g[x] = h[x]
    <2>1. f[a] \in Int /\ f[b] \in Int
        OBVIOUS
    <2>2. h[a] = g[a] /\ h[b] = f[b]
        BY <1>1
    <2>. QED BY <1>1, <2>1, <2>2 DEF Plus, Moved
<1>3. SumFunction(h) = Plus(SumFunction(f), -n)
    <2>1. -n \in Int
        OBVIOUS
    <2>. QED BY <1>2, <2>1, SumChange
<1>4. SumFunction(g) = Plus(SumFunction(h), n)
    BY <1>2, SumChange
<1>5. SumFunction(f) \in Int
    BY SumType
<1>. QED BY <1>3, <1>4, <1>5 DEF Plus

\* It does not matter which number is added first.
AnyFirst(F, f, T) == \A V \in SUBSET T : \A a \in V : F[V] = Plus(f[a], F[V \ {a}])

LEMMA AddsAnyFirst ==
    ASSUME NEW S, IsFiniteSet(S), NEW f, f \in [S -> Int],
           NEW F, F \in [SUBSET S -> Int], Adds(F, f, S)
    PROVE  AnyFirst(F, f, S)
<1>. DEFINE Good(T) == \A b \in T : F[T] = f[b] + F[T \ {b}]
            Bad == {T \in SUBSET S : ~Good(T)}
<1>1. SUFFICES ASSUME Bad # {} PROVE FALSE
    BY DEF AnyFirst, Plus
<1>2. PICK T \in Bad : \A x \in T : T \ {x} \notin Bad
    <2>1. Bad \subseteq SUBSET S
        OBVIOUS
    <2>. HIDE DEF Bad
    <2>. QED BY <1>1, <2>1, LeastSubset
<1>3. SUFFICES ASSUME NEW b \in T PROVE F[T] = f[b] + F[T \ {b}]
    BY <1>2
<1>. DEFINE p == Pick(T)
<1>4. p \in T /\ T \in SUBSET S
    BY <1>2, PickIn
<1>5. F[T] = f[p] + F[T \ {p}]
    BY <1>4 DEF Adds
<1>. HIDE DEF p
<1>6. CASE b = p
    BY <1>5, <1>6
<1>7. CASE b # p
    <2>. DEFINE rest == (T \ {p}) \ {b}
    <2>1. F[T \ {p}] = f[b] + F[rest]
        BY <1>2, <1>4, <1>7
    <2>2. F[T \ {b}] = f[p] + F[rest]
        <3>1. (T \ {b}) \ {p} = rest
            OBVIOUS
        <3>2. F[T \ {b}] = f[p] + F[(T \ {b}) \ {p}]
            BY <1>2, <1>4, <1>7
        <3>. QED BY <3>1, <3>2
    <2>3. f[p] \in Int /\ f[b] \in Int /\ F[rest] \in Int
        BY <1>4
    <2>. HIDE DEF rest
    <2>. QED BY <1>5, <2>1, <2>2, <2>3
<1>. QED BY <1>6, <1>7

\* A sum over one member more.
LEMMA SumNew ==
    ASSUME NEW S, IsFiniteSet(S), NEW a \in S, NEW f, f \in [S -> Int],
           NEW g, g \in [S \ {a} -> Int], \A x \in S \ {a} : g[x] = f[x]
    PROVE  SumFunction(f) = Plus(f[a], SumFunction(g))
<1>1. PICK F : F \in [SUBSET S -> Int] /\ Adds(F, f, S) /\ SumFunction(f) = F[S]
    BY SumAdds
<1>2. IsFiniteSet(S \ {a})
    BY FS_RemoveElement
<1>3. PICK G : G \in [SUBSET (S \ {a}) -> Int] /\ Adds(G, g, S \ {a}) /\ SumFunction(g) = G[S \ {a}]
    BY <1>2, SumAdds
<1>4. Adds(G, f, S \ {a})
    <2>1. \A U \in SUBSET (S \ {a}) : U # {} => g[Pick(U)] = f[Pick(U)]
        BY PickIn
    <2>. QED BY <1>3, <2>1 DEF Adds
<1>5. F[S \ {a}] = G[S \ {a}]
    BY <1>1, <1>4, AddsUnique
<1>6. F[S] = Plus(f[a], F[S \ {a}])
    <2>1. AnyFirst(F, f, S)
        BY <1>1, AddsAnyFirst
    <2>. QED BY <2>1 DEF AnyFirst
<1>. QED BY <1>1, <1>3, <1>5, <1>6

LEMMA SumByParts ==
    ASSUME NEW T, IsFiniteSet(T), NEW f, f \in [T -> Int]
    PROVE  \E F \in [SUBSET T -> Int] :
              /\ Adds(F, f, T)
              /\ SumFunction(f) = F[T]
              /\ AnyFirst(F, f, T)
<1>1. PICK F : F \in [SUBSET T -> Int] /\ Adds(F, f, T) /\ SumFunction(f) = F[T]
    BY SumAdds
<1>2. AnyFirst(F, f, T)
    BY <1>1, AddsAnyFirst
<1>. QED BY <1>1, <1>2

\* Without negative numbers, a sum over more members is at least as large.
LEMMA SumGrows ==
    ASSUME NEW T, IsFiniteSet(T), NEW f, f \in [T -> Int], \A x \in T : f[x] >= 0,
           NEW S, S \subseteq T, NEW g, g \in [S -> Int], \A x \in S : g[x] = f[x]
    PROVE  SumFunction(g) <= SumFunction(f)
<1>1. PICK F \in [SUBSET T -> Int] :
         /\ Adds(F, f, T)
         /\ SumFunction(f) = F[T]
         /\ AnyFirst(F, f, T)
    BY SumByParts
<1>2. SumFunction(g) = F[S]
    <2>1. PICK G : G \in [SUBSET S -> Int] /\ Adds(G, g, S) /\ SumFunction(g) = G[S]
        BY SumAdds, FS_Subset
    <2>2. Adds(G, f, S)
        <3>1. \A U \in SUBSET S : U # {} => g[Pick(U)] = f[Pick(U)]
            BY PickIn
        <3>. QED BY <2>1, <3>1 DEF Adds
    <2>. QED BY <1>1, <2>1, <2>2, AddsUnique
<1>. DEFINE Bad == {V \in SUBSET T : S \subseteq V /\ ~(F[S] <= F[V])}
<1>3. SUFFICES ASSUME Bad # {} PROVE FALSE
    BY <1>1, <1>2
<1>4. PICK V \in Bad : \A x \in V : V \ {x} \notin Bad
    <2>1. Bad \subseteq SUBSET T
        OBVIOUS
    <2>. HIDE DEF Bad
    <2>. QED BY <1>3, <2>1, LeastSubset
<1>5. PICK x \in V : x \notin S
    <2>1. F[S] \in Int
        BY <1>1
    <2>2. V # S
        BY <1>4, <2>1
    <2>. QED BY <1>4, <2>2
<1>6. F[S] <= F[V \ {x}]
    BY <1>4, <1>5
<1>7. F[V] = Plus(f[x], F[V \ {x}])
    BY <1>1, <1>4 DEF AnyFirst
<1>8. F[S] \in Int /\ F[V] \in Int /\ F[V \ {x}] \in Int /\ f[x] \in Int /\ f[x] >= 0
    BY <1>1, <1>4, <1>5
<1>9. F[S] <= F[V]
    BY <1>6, <1>7, <1>8 DEF Plus
<1>. QED BY <1>4, <1>9

\* Nothing adds up to nothing.
LEMMA SumZero ==
    ASSUME NEW S, IsFiniteSet(S), NEW f, f \in [S -> Int], \A x \in S : f[x] = 0
    PROVE  SumFunction(f) = 0
<1>1. PICK F : F \in [SUBSET S -> Int] /\ Adds(F, f, S) /\ SumFunction(f) = F[S]
    BY SumAdds
<1>. DEFINE Bad == {T \in SUBSET S : F[T] # 0}
<1>2. SUFFICES ASSUME Bad # {} PROVE FALSE
    BY <1>1
<1>3. PICK T \in Bad : \A x \in T : T \ {x} \notin Bad
    <2>1. Bad \subseteq SUBSET S
        OBVIOUS
    <2>. HIDE DEF Bad
    <2>. QED BY <1>2, <2>1, LeastSubset
<1>4. CASE T = {}
    BY <1>1, <1>3, <1>4 DEF Adds
<1>5. CASE T # {}
    <2>1. Pick(T) \in T /\ T \in SUBSET S
        BY <1>3, <1>5, PickIn
    <2>2. F[T] = f[Pick(T)] + F[T \ {Pick(T)}]
        BY <1>1, <1>5, <2>1 DEF Adds
    <2>3. f[Pick(T)] = 0 /\ F[T \ {Pick(T)}] = 0
        BY <1>3, <2>1
    <2>. QED BY <1>3, <2>2, <2>3
<1>. QED BY <1>4, <1>5
=============================================================================
