----------------------------- MODULE FiniteFacts ----------------------------
(* Facts about finite sets that the theorems share: induction, sums over a   *)
(* set, when an element is taken out, of two sets that are apart, of the     *)
(* classes of a partition, how sums compare, and lists in ascending order.   *)
EXTENDS Integers, Sequences, FiniteSets, Functions, FiniteSetTheorems, WellFoundedInduction, TLAPS

-----------------------------------------------------------------------------
(* Sums: induction over a finite set is stated with the set of the subsets   *)
(* for which a claim holds.                                                  *)

LEMMA LeastOf ==
    ASSUME NEW S \in SUBSET Nat, S # {}
    PROVE  \E n \in S : \A m \in S : n <= m
<1>1. PICK n \in S : \A m \in S : ~(<<m, n>> \in OpToRel(<, Nat))
  BY NatLessThanWellFounded, WFMin, Zenon
<1>2. \A m \in S : n <= m
  <2> SUFFICES ASSUME NEW m \in S, m < n PROVE FALSE
    BY SMT
  <2>1. m \in Nat /\ n \in Nat
    OBVIOUS
  <2>2. <<m, n>> \in OpToRel(<, Nat)
    BY <2>1, Zenon DEF OpToRel
  <2>3. QED
    BY <1>1, <2>2
<1>3. QED
  BY <1>2

LEMMA ImageFinite ==
    ASSUME NEW S, IsFiniteSet(S), NEW f
    PROVE  IsFiniteSet({f[x] : x \in S})
<1> PICK T : T = {f[x] : x \in S}
  OBVIOUS
<1> PICK g : g = [x \in S |-> f[x]]
  OBVIOUS
<1>1. g \in Surjection(S, T)
  BY DEF Surjection
<1>2. QED
  BY <1>1, FS_Surjection

\* What holds of a set as soon as it holds of the set less any one element holds
\* of every finite set: a smallest exception would have none smaller.
LEMMA SetInduction ==
    ASSUME NEW S, IsFiniteSet(S), NEW G,
           \A T \in SUBSET S : (\A x \in T : T \ {x} \in G) => T \in G
    PROVE  S \in G
<1> SUFFICES ASSUME S \notin G PROVE FALSE
  OBVIOUS
<1> DEFINE sizes == {Cardinality(T) : T \in (SUBSET S) \ G}
<1>1. \A T \in SUBSET S : IsFiniteSet(T) /\ Cardinality(T) \in Nat
  BY FS_Subset, FS_CardinalityType
<1>2. sizes \in SUBSET Nat /\ sizes # {}
  BY <1>1
<1>3. PICK n \in sizes : \A m \in sizes : n <= m
  BY <1>2, LeastOf
<1>4. PICK T \in (SUBSET S) \ G : n = Cardinality(T)
  BY <1>3
<1>5. PICK x \in T : T \ {x} \notin G
  BY <1>4
<1>6. T \ {x} \in SUBSET S /\ Cardinality(T \ {x}) = Cardinality(T) - 1
  BY <1>1, <1>4, FS_RemoveElement
<1>7. Cardinality(T \ {x}) \in sizes
  BY <1>5, <1>6
<1>8. n <= Cardinality(T \ {x})
  BY <1>3, <1>7
<1>9. QED
  BY <1>1, <1>4, <1>6, <1>8

-----------------------------------------------------------------------------
(* The recursion behind a sum has a solution, and only one.                  *)

IsSum(f, D, g) ==
    g = [s \in D |-> IF s = {} THEN 0
                     ELSE f[CHOOSE x \in s : TRUE] + g[s \ {CHOOSE x \in s : TRUE}]]

LEMMA SumSolves ==
    ASSUME NEW f, NEW S, NEW h, IsSum(f, SUBSET S, h)
    PROVE  \E g : IsSum(f, SUBSET S, g) /\ SumFunctionOnSet(f, S) = g[S]
<1> DEFINE g == CHOOSE g : g = [s \in SUBSET S |-> IF s = {} THEN 0
                     ELSE f[CHOOSE x \in s : TRUE] + g[s \ {CHOOSE x \in s : TRUE}]]
<1>1. g = [s \in SUBSET S |-> IF s = {} THEN 0
                     ELSE f[CHOOSE x \in s : TRUE] + g[s \ {CHOOSE x \in s : TRUE}]]
  BY Zenon DEF IsSum
<1>2. SumFunctionOnSet(f, S) = g[S]
  BY Zenon DEF SumFunctionOnSet, FoldFunctionOnSet, MapThenFoldSet
<1>3. QED
  BY <1>1, <1>2, Zenon DEF IsSum

\* The subsets of at most n elements.
UpTo(S, n) == {s \in SUBSET S : Cardinality(s) <= n}

LEMMA SumExists ==
    ASSUME NEW f, NEW S, IsFiniteSet(S)
    PROVE  \E g : IsSum(f, SUBSET S, g)
<1>1. \A s \in SUBSET S : IsFiniteSet(s) /\ Cardinality(s) \in Nat /\ Cardinality(s) <= Cardinality(S)
  BY FS_Subset, FS_CardinalityType
<1>2. UpTo(S, Cardinality(S)) = SUBSET S
  BY <1>1 DEF UpTo
<1> SUFFICES ASSUME ~\E g : IsSum(f, UpTo(S, Cardinality(S)), g) PROVE FALSE
  BY <1>2
<1> DEFINE bad == {n \in Nat : ~\E g : IsSum(f, UpTo(S, n), g)}
<1>3. PICK n \in bad : \A m \in bad : n <= m
  <2>1. Cardinality(S) \in bad
    BY <1>1
  <2>2. QED
    BY <2>1, LeastOf
<1>4. n \in Nat /\ ~\E g : IsSum(f, UpTo(S, n), g)
  BY <1>3
<1>5. n # 0
  <2> SUFFICES ASSUME n = 0 PROVE FALSE
    OBVIOUS
  <2>1. UpTo(S, 0) \subseteq {{}}
    <3> SUFFICES ASSUME NEW s \in SUBSET S, Cardinality(s) <= 0 PROVE s = {}
      BY DEF UpTo
    <3>1. IsFiniteSet(s) /\ Cardinality(s) = 0
      BY <1>1
    <3>2. QED
      BY <3>1, FS_EmptySet
  <2> DEFINE g == [s \in UpTo(S, 0) |-> 0]
  <2>2. IsSum(f, UpTo(S, 0), g)
    BY <2>1 DEF IsSum
  <2>3. QED
    BY <1>4, <2>2
<1>6. PICK h : IsSum(f, UpTo(S, n - 1), h)
  <2>1. n - 1 \in Nat /\ n - 1 \notin bad
    BY <1>3, <1>4, <1>5
  <2>2. QED
    BY <2>1
<1> DEFINE D == UpTo(S, n)
           C == UpTo(S, n - 1)
<1> PICK g : g = [s \in D |-> IF s = {} THEN 0
                              ELSE f[CHOOSE x \in s : TRUE] + h[s \ {CHOOSE x \in s : TRUE}]]
  OBVIOUS
<1>7. \A s \in C : s \in D /\ g[s] = h[s]
  <2> SUFFICES ASSUME NEW s \in C PROVE s \in D /\ g[s] = h[s]
    OBVIOUS
  <2>1. s \in D
    BY <1>1, <1>4 DEF UpTo
  <2>2. h[s] = IF s = {} THEN 0
               ELSE f[CHOOSE x \in s : TRUE] + h[s \ {CHOOSE x \in s : TRUE}]
    BY <1>6, Zenon DEF IsSum
  <2>3. QED
    BY <2>1, <2>2, Zenon
<1>8. ASSUME NEW s \in D, s # {} PROVE s \ {CHOOSE x \in s : TRUE} \in C
  <2>1. PICK c \in s : c = CHOOSE x \in s : TRUE
    BY <1>8
  <2>2. s \ {c} \in SUBSET S /\ Cardinality(s \ {c}) = Cardinality(s) - 1 /\ Cardinality(s) <= n
    BY <1>1, FS_RemoveElement DEF UpTo
  <2>3. s \ {c} \in C
    BY <1>1, <1>4, <2>2 DEF UpTo
  <2>4. QED
    BY <2>1, <2>3
<1>9. IsSum(f, D, g)
  <2>1. PICK t : t = [s \in D |-> h[s \ {CHOOSE x \in s : TRUE}]]
    OBVIOUS
  <2>2. \A s \in D : s # {} => t[s] = g[s \ {CHOOSE x \in s : TRUE}]
    BY <1>7, <1>8, <2>1
  <2>3. \A s \in D : g[s] = IF s = {} THEN 0
                            ELSE f[CHOOSE x \in s : TRUE] + g[s \ {CHOOSE x \in s : TRUE}]
    <3> SUFFICES ASSUME NEW s \in D PROVE g[s] = IF s = {} THEN 0
                            ELSE f[CHOOSE x \in s : TRUE] + g[s \ {CHOOSE x \in s : TRUE}]
      OBVIOUS
    <3> HIDE DEF D
    <3>1. g[s] = IF s = {} THEN 0 ELSE f[CHOOSE x \in s : TRUE] + t[s]
      BY <2>1
    <3>2. QED
      BY <2>2, <3>1
  <2>4. g = [s \in D |-> g[s]]
    OBVIOUS
  <2> HIDE DEF D
  <2>5. QED
    BY <2>3, <2>4, Zenon DEF IsSum
<1>10. QED
  BY <1>4, <1>9

\* A solution on the subsets of a larger set agrees with it.
LEMMA SumUnique ==
    ASSUME NEW f, NEW D, NEW E, NEW g, NEW h, IsSum(f, D, g), IsSum(f, E, h),
           NEW u, SUBSET u \subseteq D, SUBSET u \subseteq E, IsFiniteSet(u)
    PROVE  g[u] = h[u]
<1> DEFINE G == {v \in SUBSET u : g[v] = h[v]}
<1>1. ASSUME NEW v \in SUBSET u, \A x \in v : v \ {x} \in G PROVE v \in G
  <2>1. v \in D /\ v \in E
    OBVIOUS
  <2>2. g[v] = IF v = {} THEN 0
               ELSE f[CHOOSE x \in v : TRUE] + g[v \ {CHOOSE x \in v : TRUE}]
    BY <2>1, Zenon DEF IsSum
  <2>3. h[v] = IF v = {} THEN 0
               ELSE f[CHOOSE x \in v : TRUE] + h[v \ {CHOOSE x \in v : TRUE}]
    BY <2>1, Zenon DEF IsSum
  <2>4. CASE v = {}
    BY <2>2, <2>3, <2>4
  <2>5. CASE v # {}
    <3>1. (CHOOSE x \in v : TRUE) \in v
      BY <2>5
    <3>2. g[v \ {CHOOSE x \in v : TRUE}] = h[v \ {CHOOSE x \in v : TRUE}]
      BY <1>1, <3>1
    <3>3. QED
      BY <2>2, <2>3, <2>5, <3>2
  <2>6. QED
    BY <2>4, <2>5
<1> HIDE DEF G
<1>2. u \in G
  BY <1>1, SetInduction
<1>3. QED
  BY <1>2 DEF G

LEMMA SumEmpty ==
    ASSUME NEW f
    PROVE  SumFunctionOnSet(f, {}) = 0
<1>1. PICK g : IsSum(f, SUBSET {}, g) /\ SumFunctionOnSet(f, {}) = g[{}]
  BY FS_EmptySet, SumExists, SumSolves
<1>2. {} \in SUBSET {}
  OBVIOUS
<1>3. QED
  BY <1>1, <1>2, Zenon DEF IsSum

LEMMA SumChosen ==
    ASSUME NEW f, NEW S, IsFiniteSet(S), S # {}
    PROVE  LET c == CHOOSE x \in S : TRUE
           IN  SumFunctionOnSet(f, S) = f[c] + SumFunctionOnSet(f, S \ {c})
<1>1. PICK c \in S : c = CHOOSE x \in S : TRUE
  OBVIOUS
<1> PICK R : R = S \ {c}
  OBVIOUS
<1>2. IsFiniteSet(R) /\ R \in SUBSET S /\ R \in SUBSET R
  BY FS_Subset
<1>3. PICK g : IsSum(f, SUBSET S, g) /\ SumFunctionOnSet(f, S) = g[S]
  BY SumExists, SumSolves
<1>4. PICK h : IsSum(f, SUBSET R, h) /\ SumFunctionOnSet(f, R) = h[R]
  BY <1>2, SumExists, SumSolves
<1>5. g[R] = h[R]
  <2> PICK D, E : D = SUBSET S /\ E = SUBSET R
    OBVIOUS
  <2>1. IsSum(f, D, g) /\ IsSum(f, E, h)
    BY <1>3, <1>4, Zenon
  <2>2. IsFiniteSet(R) /\ SUBSET R \subseteq D /\ SUBSET R \subseteq E
    BY <1>2
  <2> HIDE DEF IsSum
  <2>3. QED
    BY <2>1, <2>2, SumUnique
<1>6. g[S] = f[c] + g[R]
  <2>1. S \in SUBSET S
    OBVIOUS
  <2>2. g[S] = IF S = {} THEN 0 ELSE f[CHOOSE x \in S : TRUE] + g[S \ {CHOOSE x \in S : TRUE}]
    BY <1>3, <2>1, Zenon DEF IsSum
  <2>3. QED
    BY <1>1, <2>2
<1>7. QED
  BY <1>1, <1>3, <1>4, <1>5, <1>6

LEMMA SumNat ==
    ASSUME NEW S, IsFiniteSet(S), NEW f, \A x \in S : f[x] \in Nat
    PROVE  SumFunctionOnSet(f, S) \in Nat
<1> DEFINE G == {T \in SUBSET S : SumFunctionOnSet(f, T) \in Nat}
<1>1. ASSUME NEW T \in SUBSET S, \A x \in T : T \ {x} \in G PROVE T \in G
  <2>1. CASE T = {}
    BY <2>1, SumEmpty
  <2>2. CASE T # {}
    <3>1. PICK c \in T : c = CHOOSE x \in T : TRUE
      BY <2>2
    <3>2. SumFunctionOnSet(f, T) = f[c] + SumFunctionOnSet(f, T \ {c})
      BY <2>2, <3>1, SumChosen, FS_Subset
    <3>3. SumFunctionOnSet(f, T \ {c}) \in Nat
      BY <1>1, <3>1
    <3>4. QED
      BY <3>2, <3>3
  <2>3. QED
    BY <2>1, <2>2
<1> HIDE DEF G
<1>2. S \in G
  BY <1>1, SetInduction
<1>3. QED
  BY <1>2 DEF G

\* Whichever element is taken out.
LEMMA SumRemove ==
    ASSUME NEW S, IsFiniteSet(S), NEW f, \A x \in S : f[x] \in Nat, NEW e \in S
    PROVE  SumFunctionOnSet(f, S) = f[e] + SumFunctionOnSet(f, S \ {e})
<1> DEFINE G == {T \in SUBSET S : \A x \in T :
                    SumFunctionOnSet(f, T) = f[x] + SumFunctionOnSet(f, T \ {x})}
<1>0. \A T \in SUBSET S : IsFiniteSet(T) /\ SumFunctionOnSet(f, T) \in Nat
  BY FS_Subset, SumNat
<1>1. ASSUME NEW T \in SUBSET S, \A x \in T : T \ {x} \in G PROVE T \in G
  <2> SUFFICES ASSUME NEW x \in T
               PROVE  SumFunctionOnSet(f, T) = f[x] + SumFunctionOnSet(f, T \ {x})
    OBVIOUS
  <2>1. PICK c \in T : c = CHOOSE y \in T : TRUE
    OBVIOUS
  <2>2. SumFunctionOnSet(f, T) = f[c] + SumFunctionOnSet(f, T \ {c})
    BY <1>0, <2>1, SumChosen
  <2>3. CASE x = c
    BY <2>2, <2>3
  <2>4. CASE x # c
    <3>1. SumFunctionOnSet(f, T \ {c}) = f[x] + SumFunctionOnSet(f, (T \ {c}) \ {x})
      BY <1>1, <2>4
    <3>2. SumFunctionOnSet(f, T \ {x}) = f[c] + SumFunctionOnSet(f, (T \ {x}) \ {c})
      BY <1>1, <2>4
    <3>3. (T \ {x}) \ {c} = (T \ {c}) \ {x}
      OBVIOUS
    <3>4. SumFunctionOnSet(f, (T \ {c}) \ {x}) \in Nat /\ f[c] \in Nat /\ f[x] \in Nat
      BY <1>0
    <3>5. QED
      BY <2>2, <3>1, <3>2, <3>3, <3>4
  <2>5. QED
    BY <2>3, <2>4
<1> HIDE DEF G
<1>2. S \in G
  BY <1>1, SetInduction
<1>3. QED
  BY <1>2 DEF G

-----------------------------------------------------------------------------
(* Sums of two functions over one set, and of one over two sets.             *)

LEMMA SumMonotone ==
    ASSUME NEW S, IsFiniteSet(S), NEW f, NEW g,
           \A x \in S : f[x] \in Nat /\ g[x] \in Nat /\ f[x] <= g[x]
    PROVE  SumFunctionOnSet(f, S) <= SumFunctionOnSet(g, S)
<1> DEFINE G == {T \in SUBSET S : SumFunctionOnSet(f, T) <= SumFunctionOnSet(g, T)}
<1>0. \A T \in SUBSET S : IsFiniteSet(T) /\ SumFunctionOnSet(f, T) \in Nat /\ SumFunctionOnSet(g, T) \in Nat
  BY FS_Subset, SumNat
<1>1. ASSUME NEW T \in SUBSET S, \A x \in T : T \ {x} \in G PROVE T \in G
  <2>1. CASE T = {}
    BY <2>1, SumEmpty
  <2>2. CASE T # {}
    <3>1. PICK c \in T : TRUE
      BY <2>2
    <3>2. /\ SumFunctionOnSet(f, T) = f[c] + SumFunctionOnSet(f, T \ {c})
          /\ SumFunctionOnSet(g, T) = g[c] + SumFunctionOnSet(g, T \ {c})
      BY <1>0, SumRemove
    <3>3. SumFunctionOnSet(f, T \ {c}) <= SumFunctionOnSet(g, T \ {c})
      BY <1>1
    <3>4. T \ {c} \in SUBSET S
      OBVIOUS
    <3>5. QED
      BY <1>0, <3>2, <3>3, <3>4
  <2>3. QED
    BY <2>1, <2>2
<1> HIDE DEF G
<1>2. S \in G
  BY <1>1, SetInduction
<1>3. QED
  BY <1>2 DEF G

LEMMA SumSame ==
    ASSUME NEW S, IsFiniteSet(S), NEW f, NEW g, \A x \in S : f[x] \in Nat /\ f[x] = g[x]
    PROVE  SumFunctionOnSet(f, S) = SumFunctionOnSet(g, S)
<1>1. SumFunctionOnSet(f, S) <= SumFunctionOnSet(g, S) /\ SumFunctionOnSet(g, S) <= SumFunctionOnSet(f, S)
  BY SumMonotone
<1>2. SumFunctionOnSet(f, S) \in Nat /\ SumFunctionOnSet(g, S) \in Nat
  BY SumNat
<1>3. QED
  BY <1>1, <1>2

LEMMA SumUnion ==
    ASSUME NEW A, NEW S, IsFiniteSet(A), IsFiniteSet(S), A \cap S = {},
           NEW f, \A x \in A \cup S : f[x] \in Nat
    PROVE  SumFunctionOnSet(f, A \cup S) = SumFunctionOnSet(f, A) + SumFunctionOnSet(f, S)
<1> DEFINE G == {T \in SUBSET S : SumFunctionOnSet(f, A \cup T) = SumFunctionOnSet(f, A) + SumFunctionOnSet(f, T)}
<1>0. /\ \A T \in SUBSET S : IsFiniteSet(T) /\ SumFunctionOnSet(f, T) \in Nat
      /\ \A T \in SUBSET S : IsFiniteSet(A \cup T)
      /\ SumFunctionOnSet(f, A) \in Nat
  <2>1. \A T \in SUBSET S : IsFiniteSet(T)
    BY FS_Subset
  <2>2. \A T \in SUBSET S : IsFiniteSet(A \cup T)
    BY <2>1, FS_Union
  <2>3. QED
    BY <2>1, <2>2, SumNat
<1>1. ASSUME NEW T \in SUBSET S, \A x \in T : T \ {x} \in G PROVE T \in G
  <2>1. CASE T = {}
    <3>1. A \cup T = A
      BY <2>1
    <3>2. QED
      BY <1>0, <2>1, <3>1, SumEmpty
  <2>2. CASE T # {}
    <3>1. PICK c \in T : TRUE
      BY <2>2
    <3>2. SumFunctionOnSet(f, T) = f[c] + SumFunctionOnSet(f, T \ {c})
      BY <1>0, SumRemove
    <3>3. SumFunctionOnSet(f, A \cup T) = f[c] + SumFunctionOnSet(f, A \cup (T \ {c}))
      <4>1. (A \cup T) \ {c} = A \cup (T \ {c})
        OBVIOUS
      <4>2. c \in A \cup T /\ \A x \in A \cup T : f[x] \in Nat
        OBVIOUS
      <4>3. SumFunctionOnSet(f, A \cup T) = f[c] + SumFunctionOnSet(f, (A \cup T) \ {c})
        BY <1>0, <4>2, SumRemove
      <4>4. QED
        BY <4>1, <4>3
    <3>4. SumFunctionOnSet(f, A \cup (T \ {c})) = SumFunctionOnSet(f, A) + SumFunctionOnSet(f, T \ {c})
      BY <1>1
    <3>5. T \ {c} \in SUBSET S /\ f[c] \in Nat
      OBVIOUS
    <3>6. QED
      BY <1>0, <3>2, <3>3, <3>4, <3>5
  <2>3. QED
    BY <2>1, <2>2
<1> HIDE DEF G
<1>2. S \in G
  BY <1>1, SetInduction
<1>3. QED
  BY <1>2 DEF G

LEMMA SumSubset ==
    ASSUME NEW S, IsFiniteSet(S), NEW f, \A x \in S : f[x] \in Nat, NEW T \in SUBSET S
    PROVE  SumFunctionOnSet(f, T) <= SumFunctionOnSet(f, S)
<1>1. IsFiniteSet(T) /\ IsFiniteSet(S \ T) /\ T \cup (S \ T) = S /\ T \cap (S \ T) = {}
  BY FS_Subset
<1>2. SumFunctionOnSet(f, S) = SumFunctionOnSet(f, T) + SumFunctionOnSet(f, S \ T)
  BY <1>1, SumUnion
<1>3. SumFunctionOnSet(f, T) \in Nat /\ SumFunctionOnSet(f, S \ T) \in Nat
  BY <1>1, SumNat
<1>4. QED
  BY <1>2, <1>3

-----------------------------------------------------------------------------
(* Sums of sums.                                                             *)

\* The classes of a set cover it: their sums come to at least its sum.
LEMMA SumCovered ==
    ASSUME NEW K, IsFiniteSet(K), NEW S, IsFiniteSet(S), NEW f, \A x \in S : f[x] \in Nat,
           NEW C, \A k \in K : C[k] \in SUBSET S, \A x \in S : \E k \in K : x \in C[k],
           NEW g, \A k \in K : g[k] = SumFunctionOnSet(f, C[k])
    PROVE  SumFunctionOnSet(g, K) >= SumFunctionOnSet(f, S)
<1> DEFINE Within(L) == {x \in S : \E k \in L : x \in C[k]}
           G == {L \in SUBSET K : SumFunctionOnSet(g, L) >= SumFunctionOnSet(f, Within(L))}
<1>0. /\ \A T \in SUBSET S : IsFiniteSet(T) /\ SumFunctionOnSet(f, T) \in Nat
      /\ \A k \in K : g[k] \in Nat
      /\ \A L \in SUBSET K : IsFiniteSet(L) /\ SumFunctionOnSet(g, L) \in Nat
  <2>1. \A T \in SUBSET S : IsFiniteSet(T) /\ SumFunctionOnSet(f, T) \in Nat
    BY FS_Subset, SumNat
  <2>2. \A k \in K : g[k] \in Nat
    BY <2>1
  <2>3. \A L \in SUBSET K : IsFiniteSet(L) /\ SumFunctionOnSet(g, L) \in Nat
    BY <2>2, FS_Subset, SumNat
  <2>4. QED
    BY <2>1, <2>2, <2>3
<1>1. ASSUME NEW L \in SUBSET K, \A k \in L : L \ {k} \in G PROVE L \in G
  <2>1. CASE L = {}
    <3>1. Within(L) = {}
      BY <2>1
    <3>2. QED
      BY <2>1, <3>1, SumEmpty
  <2>2. CASE L # {}
    <3>1. PICK k \in L : TRUE
      BY <2>2
    <3> DEFINE rest == Within(L \ {k})
               new == C[k] \ rest
    <3>2. rest \in SUBSET S /\ new \in SUBSET S /\ new \in SUBSET C[k] /\ rest \cap new = {}
      OBVIOUS
    <3>3. Within(L) = rest \cup new
      OBVIOUS
    <3>4. SumFunctionOnSet(f, Within(L)) = SumFunctionOnSet(f, rest) + SumFunctionOnSet(f, new)
      <4> HIDE DEF rest, new, Within
      <4>1. IsFiniteSet(rest) /\ IsFiniteSet(new) /\ \A x \in rest \cup new : f[x] \in Nat
        BY <1>0, <3>2
      <4>2. QED
        BY <3>2, <3>3, <4>1, SumUnion
    <3>5. SumFunctionOnSet(f, new) <= g[k]
      <4> HIDE DEF new
      <4>1. IsFiniteSet(C[k]) /\ \A x \in C[k] : f[x] \in Nat
        BY <1>0
      <4>2. QED
        BY <3>2, <4>1, SumSubset
    <3>6. SumFunctionOnSet(g, L) = g[k] + SumFunctionOnSet(g, L \ {k})
      BY <1>0, SumRemove
    <3>7. SumFunctionOnSet(g, L \ {k}) >= SumFunctionOnSet(f, rest)
      BY <1>1
    <3>8. /\ SumFunctionOnSet(f, rest) \in Nat /\ SumFunctionOnSet(f, new) \in Nat
          /\ g[k] \in Nat /\ SumFunctionOnSet(g, L \ {k}) \in Nat
      <4> HIDE DEF rest, new
      <4>1. L \ {k} \in SUBSET K
        OBVIOUS
      <4>2. QED
        BY <1>0, <3>2, <4>1
    <3> HIDE DEF rest, new, Within
    <3>9. SumFunctionOnSet(g, L) >= SumFunctionOnSet(f, Within(L))
      BY <3>4, <3>5, <3>6, <3>7, <3>8
    <3>10. QED
      BY <3>9 DEF Within
  <2>3. QED
    BY <2>1, <2>2
<1>2. K \in G
  <2> HIDE DEF G
  <2>1. QED
    BY <1>1, SetInduction
<1>3. Within(K) = S
  OBVIOUS
<1>4. QED
  BY <1>2, <1>3

\* part[k] holds the elements of S whose key is k.
Parts(part, key, S, K) ==
    \A k \in K : part[k] \in SUBSET S /\ \A x \in S : x \in part[k] <=> key[x] = k

\* The classes of a partition: their sums come to its sum.
LEMMA SumPartition ==
    ASSUME NEW K, IsFiniteSet(K), NEW S, IsFiniteSet(S), NEW f, \A x \in S : f[x] \in Nat,
           NEW key, \A x \in S : key[x] \in K, NEW part, Parts(part, key, S, K),
           NEW g, \A k \in K : g[k] = SumFunctionOnSet(f, part[k])
    PROVE  SumFunctionOnSet(g, K) = SumFunctionOnSet(f, S)
<1> DEFINE Within(L) == {x \in S : key[x] \in L}
           G == {L \in SUBSET K : SumFunctionOnSet(g, L) = SumFunctionOnSet(f, Within(L))}
<1>0. /\ \A T \in SUBSET S : IsFiniteSet(T) /\ SumFunctionOnSet(f, T) \in Nat
      /\ \A k \in K : g[k] \in Nat
      /\ \A L \in SUBSET K : IsFiniteSet(L)
  <2>1. \A T \in SUBSET S : IsFiniteSet(T) /\ SumFunctionOnSet(f, T) \in Nat
    BY FS_Subset, SumNat
  <2>2. \A k \in K : g[k] \in Nat
    BY <2>1 DEF Parts
  <2>3. \A L \in SUBSET K : IsFiniteSet(L)
    BY FS_Subset
  <2>4. QED
    BY <2>1, <2>2, <2>3
<1>1. ASSUME NEW L \in SUBSET K, \A k \in L : L \ {k} \in G PROVE L \in G
  <2>1. CASE L = {}
    <3>1. Within(L) = {}
      BY <2>1
    <3>2. QED
      BY <2>1, <3>1, SumEmpty
  <2>2. CASE L # {}
    <3>1. PICK k \in L : TRUE
      BY <2>2
    <3> DEFINE rest == Within(L \ {k})
               class == part[k]
    <3>2. rest \in SUBSET S /\ class \in SUBSET S /\ class \cap rest = {} /\ Within(L) = class \cup rest
      BY DEF Parts
    <3>3. g[k] = SumFunctionOnSet(f, class)
      OBVIOUS
    <3>4. SumFunctionOnSet(g, L \ {k}) = SumFunctionOnSet(f, rest)
      BY <1>1
    <3>5. SumFunctionOnSet(g, L) = g[k] + SumFunctionOnSet(g, L \ {k})
      BY <1>0, SumRemove
    <3> HIDE DEF rest, class, Within
    <3>6. SumFunctionOnSet(f, Within(L)) = SumFunctionOnSet(f, class) + SumFunctionOnSet(f, rest)
      <4>1. IsFiniteSet(rest) /\ IsFiniteSet(class) /\ \A x \in class \cup rest : f[x] \in Nat
        BY <1>0, <3>2
      <4>2. QED
        BY <3>2, <4>1, SumUnion
    <3>7. SumFunctionOnSet(g, L) = SumFunctionOnSet(f, Within(L))
      BY <3>3, <3>4, <3>5, <3>6
    <3>8. QED
      BY <3>7 DEF Within
  <2>3. QED
    BY <2>1, <2>2
<1>2. K \in G
  <2> HIDE DEF G
  <2>1. QED
    BY <1>1, SetInduction
<1>3. Within(K) = S
  OBVIOUS
<1>4. QED
  BY <1>2, <1>3

\* Sums of functions that add up, or are a hundred times another.
LEMMA SumPlus ==
    ASSUME NEW S, IsFiniteSet(S), NEW f, NEW g, NEW h,
           \A x \in S : f[x] \in Nat /\ g[x] \in Nat /\ h[x] = f[x] + g[x]
    PROVE  SumFunctionOnSet(h, S) = SumFunctionOnSet(f, S) + SumFunctionOnSet(g, S)
<1> DEFINE G == {T \in SUBSET S : SumFunctionOnSet(h, T) = SumFunctionOnSet(f, T) + SumFunctionOnSet(g, T)}
<1>0. \A T \in SUBSET S : /\ IsFiniteSet(T) /\ SumFunctionOnSet(f, T) \in Nat
                          /\ SumFunctionOnSet(g, T) \in Nat
  BY FS_Subset, SumNat
<1>1. ASSUME NEW T \in SUBSET S, \A x \in T : T \ {x} \in G PROVE T \in G
  <2>1. CASE T = {}
    BY <2>1, SumEmpty
  <2>2. CASE T # {}
    <3>1. PICK c \in T : TRUE
      BY <2>2
    <3>2. \A x \in T : f[x] \in Nat /\ g[x] \in Nat /\ h[x] \in Nat
      OBVIOUS
    <3>3. /\ SumFunctionOnSet(f, T) = f[c] + SumFunctionOnSet(f, T \ {c})
          /\ SumFunctionOnSet(g, T) = g[c] + SumFunctionOnSet(g, T \ {c})
          /\ SumFunctionOnSet(h, T) = h[c] + SumFunctionOnSet(h, T \ {c})
      BY <1>0, <3>2, SumRemove
    <3>4. SumFunctionOnSet(h, T \ {c}) = SumFunctionOnSet(f, T \ {c}) + SumFunctionOnSet(g, T \ {c})
      BY <1>1
    <3>5. T \ {c} \in SUBSET S /\ h[c] = f[c] + g[c]
      OBVIOUS
    <3>6. QED
      BY <1>0, <3>2, <3>3, <3>4, <3>5
  <2>3. QED
    BY <2>1, <2>2
<1> HIDE DEF G
<1>2. S \in G
  BY <1>1, SetInduction
<1>3. QED
  BY <1>2 DEF G

LEMMA SumHundredfold ==
    ASSUME NEW S, IsFiniteSet(S), NEW f, NEW g, \A x \in S : f[x] \in Nat /\ g[x] = 100 * f[x]
    PROVE  SumFunctionOnSet(g, S) = 100 * SumFunctionOnSet(f, S)
<1> DEFINE G == {T \in SUBSET S : SumFunctionOnSet(g, T) = 100 * SumFunctionOnSet(f, T)}
<1>0. \A T \in SUBSET S : IsFiniteSet(T) /\ SumFunctionOnSet(f, T) \in Nat
  BY FS_Subset, SumNat
<1>1. ASSUME NEW T \in SUBSET S, \A x \in T : T \ {x} \in G PROVE T \in G
  <2>1. CASE T = {}
    BY <2>1, SumEmpty
  <2>2. CASE T # {}
    <3>1. PICK c \in T : TRUE
      BY <2>2
    <3>2. \A x \in T : f[x] \in Nat /\ g[x] \in Nat
      OBVIOUS
    <3>3. /\ SumFunctionOnSet(f, T) = f[c] + SumFunctionOnSet(f, T \ {c})
          /\ SumFunctionOnSet(g, T) = g[c] + SumFunctionOnSet(g, T \ {c})
      BY <1>0, <3>2, SumRemove
    <3>4. SumFunctionOnSet(g, T \ {c}) = 100 * SumFunctionOnSet(f, T \ {c})
      BY <1>1
    <3>5. T \ {c} \in SUBSET S /\ g[c] = 100 * f[c]
      OBVIOUS
    <3>6. QED
      BY <1>0, <3>2, <3>3, <3>4, <3>5
  <2>3. QED
    BY <2>1, <2>2
<1> HIDE DEF G
<1>2. S \in G
  BY <1>1, SetInduction
<1>3. QED
  BY <1>2 DEF G

\* Rounded summands: each is at most a hundred away, and so is their mean.
LEMMA SumNear ==
    ASSUME NEW S, IsFiniteSet(S), NEW f, NEW g,
           \A x \in S : f[x] \in Nat /\ g[x] \in Nat /\ 100 * f[x] <= g[x] + 100 /\ g[x] <= 100 * f[x] + 100
    PROVE  /\ 100 * SumFunctionOnSet(f, S) <= SumFunctionOnSet(g, S) + 100 * Cardinality(S)
           /\ SumFunctionOnSet(g, S) <= 100 * SumFunctionOnSet(f, S) + 100 * Cardinality(S)
<1> DEFINE G == {T \in SUBSET S :
                   /\ 100 * SumFunctionOnSet(f, T) <= SumFunctionOnSet(g, T) + 100 * Cardinality(T)
                   /\ SumFunctionOnSet(g, T) <= 100 * SumFunctionOnSet(f, T) + 100 * Cardinality(T)}
<1>0. \A T \in SUBSET S : /\ IsFiniteSet(T) /\ SumFunctionOnSet(f, T) \in Nat
                          /\ SumFunctionOnSet(g, T) \in Nat /\ Cardinality(T) \in Nat
  BY FS_Subset, FS_CardinalityType, SumNat
<1>1. ASSUME NEW T \in SUBSET S, \A x \in T : T \ {x} \in G PROVE T \in G
  <2>1. CASE T = {}
    BY <2>1, SumEmpty, FS_EmptySet
  <2>2. CASE T # {}
    <3>1. PICK c \in T : TRUE
      BY <2>2
    <3>2. /\ SumFunctionOnSet(f, T) = f[c] + SumFunctionOnSet(f, T \ {c})
          /\ SumFunctionOnSet(g, T) = g[c] + SumFunctionOnSet(g, T \ {c})
          /\ Cardinality(T \ {c}) = Cardinality(T) - 1
      BY <1>0, SumRemove, FS_RemoveElement
    <3>3. /\ 100 * SumFunctionOnSet(f, T \ {c}) <= SumFunctionOnSet(g, T \ {c}) + 100 * Cardinality(T \ {c})
          /\ SumFunctionOnSet(g, T \ {c}) <= 100 * SumFunctionOnSet(f, T \ {c}) + 100 * Cardinality(T \ {c})
      BY <1>1
    <3>4. T \ {c} \in SUBSET S
      OBVIOUS
    <3>5. QED
      BY <1>0, <3>2, <3>3, <3>4
  <2>3. QED
    BY <2>1, <2>2
<1> HIDE DEF G
<1>2. S \in G
  BY <1>1, SetInduction
<1>3. QED
  BY <1>2 DEF G

\* What is nothing outside a part is summed over the part.
LEMMA SumOfPart ==
    ASSUME NEW S, IsFiniteSet(S), NEW f, \A x \in S : f[x] \in Nat,
           NEW T \in SUBSET S, \A x \in S \ T : f[x] = 0
    PROVE  SumFunctionOnSet(f, S) = SumFunctionOnSet(f, T)
<1> PICK R : R = S \ T
  OBVIOUS
<1>1. IsFiniteSet(T) /\ IsFiniteSet(R) /\ T \cup R = S /\ T \cap R = {}
  BY FS_Subset
<1>2. SumFunctionOnSet(f, S) = SumFunctionOnSet(f, T) + SumFunctionOnSet(f, R)
  BY <1>1, SumUnion
<1>3. SumFunctionOnSet(f, R) = 0
  <2> DEFINE zero == [x \in R |-> 0]
  <2>1. SumFunctionOnSet(zero, R) = 100 * SumFunctionOnSet(zero, R)
    BY <1>1, SumHundredfold
  <2>2. SumFunctionOnSet(zero, R) \in Nat
    BY <1>1, SumNat
  <2>3. SumFunctionOnSet(f, R) = SumFunctionOnSet(zero, R)
    <3>1. \A x \in R : f[x] \in Nat /\ f[x] = zero[x]
      OBVIOUS
    <3> HIDE DEF zero
    <3>2. QED
      BY <1>1, <3>1, SumSame
  <2>4. QED
    BY <2>1, <2>2, <2>3
<1>4. QED
  BY <1>1, <1>2, <1>3, SumNat

LEMMA SumAdd ==
    ASSUME NEW S, IsFiniteSet(S), NEW f, \A x \in S : f[x] \in Nat, NEW e, e \notin S, f[e] \in Nat
    PROVE  SumFunctionOnSet(f, S \cup {e}) = f[e] + SumFunctionOnSet(f, S)
<1>1. IsFiniteSet(S \cup {e}) /\ \A x \in S \cup {e} : f[x] \in Nat
  BY FS_AddElement
<1>2. (S \cup {e}) \ {e} = S
  OBVIOUS
<1>3. QED
  BY <1>1, <1>2, SumRemove

\* A sum of the model is one of these, whatever else the function is summed over.
LEMMA SumWithin ==
    ASSUME NEW T, IsFiniteSet(T), NEW f, DOMAIN f = T, NEW g, \A x \in T : f[x] \in Nat /\ f[x] = g[x]
    PROVE  SumFunction(f) = SumFunctionOnSet(g, T)
<1>1. SumFunction(f) = SumFunctionOnSet(f, T)
  BY Zenon DEF SumFunction
<1>2. QED
  BY <1>1, SumSame

-----------------------------------------------------------------------------
(* Lists in ascending order *)

Orders(s, S) ==
    s \in [1..Cardinality(S) -> S] /\ \A j, k \in DOMAIN s : j < k => s[j] < s[k]

\* By induction on the number of elements: the least one in front of the others.
LEMMA OrderExists ==
    ASSUME NEW S \in SUBSET Nat, IsFiniteSet(S)
    PROVE  \E s : Orders(s, S)
<1> DEFINE bad == {n \in Nat : \E T \in SUBSET Nat : /\ IsFiniteSet(T) /\ Cardinality(T) = n
                                                     /\ \A s : ~Orders(s, T)}
<1>1. bad = {}
  <2> SUFFICES ASSUME bad # {} PROVE FALSE
    OBVIOUS
  <2>1. PICK n \in bad : \A m \in bad : n <= m
    <3>1. bad \in SUBSET Nat
      OBVIOUS
    <3>2. QED
      BY <3>1, LeastOf
  <2>2. PICK T \in SUBSET Nat : IsFiniteSet(T) /\ Cardinality(T) = n /\ \A s : ~Orders(s, T)
    BY <2>1
  <2>3. n \in Nat
    BY <2>1
  <2>4. T # {}
    <3>1. ASSUME T = {} PROVE FALSE
      <4>1. Cardinality(T) = 0
        BY <3>1, FS_EmptySet
      <4>2. Orders([k \in 1..0 |-> 0], T)
        BY <4>1 DEF Orders
      <4>3. QED
        BY <2>2, <4>2
    <3>2. QED
      BY <3>1
  <2>5. PICK x \in T : \A y \in T : x <= y
    BY <2>4, LeastOf
  <2>6. IsFiniteSet(T \ {x}) /\ Cardinality(T \ {x}) = n - 1
    BY <2>2, FS_RemoveElement
  <2>7. n - 1 \in Nat
    BY <2>6, FS_CardinalityType
  <2>8. n - 1 \notin bad
    BY <2>1, <2>3
  <2>9. PICK s : Orders(s, T \ {x})
    BY <2>6, <2>7, <2>8
  <2>10. s \in [1..(n - 1) -> T \ {x}] /\ \A j, k \in 1..(n - 1) : j < k => s[j] < s[k]
    BY <2>6, <2>9 DEF Orders
  <2> DEFINE r == [k \in 1..n |-> IF k = 1 THEN x ELSE s[k - 1]]
  <2>11. \A k \in 1..n : k # 1 => k - 1 \in 1..(n - 1)
    BY <2>3
  <2>12. r \in [1..n -> T]
    BY <2>10, <2>11
  <2>13. ASSUME NEW j \in 1..n, NEW k \in 1..n, j < k PROVE r[j] < r[k]
    <3>1. k # 1 /\ r[k] = s[k - 1] /\ s[k - 1] \in T \ {x}
      BY <2>10, <2>11, <2>13
    <3>2. CASE j = 1
      <4>1. r[j] = x /\ x \in Nat /\ s[k - 1] \in Nat
        BY <3>1, <3>2
      <4>2. QED
        BY <2>5, <3>1, <4>1
    <3>3. CASE j # 1
      <4>1. r[j] = s[j - 1] /\ j - 1 < k - 1
        BY <2>13, <3>3
      <4>2. QED
        BY <2>10, <2>11, <3>1, <3>3, <4>1
    <3>4. QED
      BY <3>2, <3>3
  <2>14. Orders(r, T)
    BY <2>2, <2>12, <2>13 DEF Orders
  <2>15. QED
    BY <2>2, <2>14
<1>2. Cardinality(S) \in Nat
  BY FS_CardinalityType
<1>3. QED
  BY <1>1, <1>2

\* What is listed in ascending order is all of it.
LEMMA OrderedList ==
    ASSUME NEW S \in SUBSET Nat, IsFiniteSet(S), NEW s, Orders(s, S)
    PROVE  /\ s \in Seq(S)
           /\ \A x \in S : \E k \in DOMAIN s : s[k] = x
<1>3. PICK n : n = Cardinality(S)
  OBVIOUS
<1>4. n \in Nat
  BY <1>3, FS_CardinalityType
<1>5. s \in [1..n -> S] /\ \A j, k \in DOMAIN s : j < k => s[j] < s[k]
  BY <1>3, Zenon DEF Orders
<1>6. s \in Injection(1..n, S)
  <2>1. ASSUME NEW j \in 1..n, NEW k \in 1..n, s[j] = s[k] PROVE j = k
    <3>1. s[j] \in Nat /\ s[k] \in Nat
      BY <1>5
    <3>2. QED
      BY <1>4, <1>5, <2>1, <3>1
  <2>2. QED
    BY <1>5, <2>1 DEF Injection, IsInjective
<1>7. Cardinality(1..n) = Cardinality(S)
  BY <1>3, <1>4, FS_Interval
<1>8. s \in Surjection(1..n, S)
  BY <1>6, <1>7, FS_Injection
<1>9. \A x \in S : \E k \in 1..n : s[k] = x
  BY <1>8 DEF Surjection
<1>10. QED
  BY <1>4, <1>5, <1>9
=============================================================================
