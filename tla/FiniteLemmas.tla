----------------------------- MODULE FiniteLemmas -----------------------------
(***************************************************************************)
(* Finite sets and the sums the models take over them: a sum is taken in   *)
(* an order CHOOSE decides, and what is proved here does not depend on it. *)
(* Induction is by a counterexample with the fewest elements.              *)
(***************************************************************************)
EXTENDS Integers, FiniteSets, FiniteSetTheorems, WellFoundedInduction, TLAPS

(* Every set of natural numbers has a least one.                           *)
LEMMA Least ==
    ASSUME NEW S \in SUBSET Nat, S # {}
    PROVE  \E n \in S : \A m \in S : n <= m
<1>1. \E R : IsWellFoundedOn(R, Nat) /\ \A m, n \in Nat : m < n => <<m, n>> \in R
  <2>1. \A m, n \in Nat : m < n => <<m, n>> \in OpToRel(<, Nat)
    BY DEF OpToRel
  <2> QED
    BY <2>1, NatLessThanWellFounded
<1>2. PICK R : IsWellFoundedOn(R, Nat) /\ \A m, n \in Nat : m < n => <<m, n>> \in R
  BY <1>1
<1>3. IsWellFoundedOn(R, Nat)
  BY <1>2
<1>4. PICK n \in S : \A m \in S : ~(<<m, n>> \in R)
  BY <1>3, WFMin
<1>5. \A m \in S : ~(m < n)
  BY <1>2, <1>4, Zenon
<1> QED
  BY <1>4, <1>5

(* Of some finite sets, one has the fewest elements: no proper subset of   *)
(* it is one of them.                                                      *)
LEMMA Fewest ==
    ASSUME NEW B, B # {}, \A S \in B : IsFiniteSet(S)
    PROVE  \E S \in B : \A T \in SUBSET S : T # S => T \notin B
<1> DEFINE Sizes == {Cardinality(S) : S \in B}
<1>1. Sizes \in SUBSET Nat /\ Sizes # {}
  BY FS_CardinalityType
<1> HIDE DEF Sizes
<1>2. PICK n \in Sizes : \A m \in Sizes : n <= m
  BY <1>1, Least
<1>3. PICK S \in B : Cardinality(S) = n
  BY <1>2 DEF Sizes
<1>4. ASSUME NEW T \in SUBSET S, T # S, T \in B
      PROVE  FALSE
  <2>1. /\ Cardinality(T) <= n /\ Cardinality(T) # n /\ Cardinality(T) \in Nat /\ n \in Nat
    BY <1>1, <1>3, <1>4, FS_Subset, FS_CardinalityType
  <2>2. n <= Cardinality(T)
    BY <1>2, <1>4 DEF Sizes
  <2> QED BY <2>1, <2>2
<1> QED BY <1>3, <1>4

---------------------------------------------------------------------------
(* Sums                                                                    *)

Some(s) == CHOOSE x \in s : TRUE

(* it maps every part of S to the sum of f over it.                        *)
Sums(it, f, S) ==
    it = [s \in SUBSET S |-> IF s = {} THEN 0 ELSE f[Some(s)] + it[s \ {Some(s)}]]

Sum(f, S) == (CHOOSE it : Sums(it, f, S))[S]

LEMMA SomeIs == ASSUME NEW s, s # {} PROVE Some(s) \in s
BY DEF Some

LEMMA SumsAgree ==
    ASSUME NEW f, NEW S, NEW T, NEW it, NEW jt, Sums(it, f, S), Sums(jt, f, T),
           NEW u, u \subseteq S, u \subseteq T, IsFiniteSet(u)
    PROVE  it[u] = jt[u]
<1> DEFINE B == {s \in SUBSET u : it[s] # jt[s]}
<1> SUFFICES ASSUME it[u] # jt[u] PROVE FALSE
  OBVIOUS
<1>1. B # {} /\ \A s \in B : IsFiniteSet(s)
  BY FS_Subset
<1>2. PICK s \in B : \A t \in SUBSET s : t # s => t \notin B
  <2> HIDE DEF B
  <2> QED BY <1>1, Fewest
<1>3. s \in SUBSET u /\ s \in SUBSET S /\ s \in SUBSET T /\ it[s] # jt[s]
  BY <1>2
<1>4. s # {}
  BY <1>3 DEF Sums
<1>5. Some(s) \in s
  BY <1>4, SomeIs
<1>6. it[s \ {Some(s)}] = jt[s \ {Some(s)}]
  BY <1>2, <1>3, <1>5
<1>7. it[s] = f[Some(s)] + it[s \ {Some(s)}] /\ jt[s] = f[Some(s)] + jt[s \ {Some(s)}]
  BY <1>3, <1>4 DEF Sums
<1> QED BY <1>3, <1>6, <1>7

LEMMA SumsExist ==
    ASSUME NEW f, NEW S, IsFiniteSet(S)
    PROVE  \E it : Sums(it, f, S)
<1> DEFINE B == {s \in SUBSET S : ~\E it : Sums(it, f, s)}
<1> SUFFICES ASSUME ~\E it : Sums(it, f, S) PROVE FALSE
  OBVIOUS
<1>1. B # {} /\ \A s \in B : IsFiniteSet(s)
  BY FS_Subset
<1>2. PICK u \in B : \A t \in SUBSET u : t # u => t \notin B
  <2> HIDE DEF B
  <2> QED BY <1>1, Fewest
<1>3. u \in SUBSET S /\ IsFiniteSet(u) /\ ~\E it : Sums(it, f, u)
  BY <1>1, <1>2
<1> DEFINE below == [t \in SUBSET u |-> CHOOSE it : Sums(it, f, t)]
           value == [t \in SUBSET u |-> below[t][t]]
           it == [s \in SUBSET u |->
                     IF s = {} THEN 0 ELSE f[Some(s)] + value[s \ {Some(s)}]]
<1>4. \A t \in SUBSET u : t # u => Sums(below[t], f, t)
  <2> SUFFICES ASSUME NEW t \in SUBSET u, t # u PROVE Sums(below[t], f, t)
    OBVIOUS
  <2>1. \E jt : Sums(jt, f, t)
    BY <1>2, <1>3
  <2> QED BY <2>1
<1>5. \A t \in SUBSET u : value[t] = below[t][t]
  OBVIOUS
<1>6. it = [s \in SUBSET u |-> IF s = {} THEN 0 ELSE f[Some(s)] + value[s \ {Some(s)}]]
  OBVIOUS
<1> HIDE DEF below, value, it, B
<1>7. \A t \in SUBSET u : t # u => it[t] = value[t]
  <2> SUFFICES ASSUME NEW t \in SUBSET u, t # u PROVE it[t] = value[t]
    OBVIOUS
  <2>1. Sums(below[t], f, t) /\ value[t] = below[t][t]
    BY <1>4, <1>5
  <2>2. CASE t = {}
    BY <1>6, <2>1, <2>2 DEF Sums
  <2>3. CASE t # {}
    <3> DEFINE r == t \ {Some(t)}
    <3>1. Some(t) \in t /\ r \in SUBSET u /\ r # u /\ r \in SUBSET t
      BY <2>3, SomeIs
    <3>2. IsFiniteSet(r)
      BY <1>3, <3>1, FS_Subset
    <3>3. Sums(below[r], f, r) /\ value[r] = below[r][r]
      BY <1>4, <1>5, <3>1
    <3>4. value[t] = f[Some(t)] + below[t][r]
      BY <2>1, <2>3 DEF Sums
    <3>5. below[t][r] = below[r][r]
      BY <2>1, <3>1, <3>2, <3>3, SumsAgree
    <3>6. it[t] = f[Some(t)] + value[r]
      BY <1>6, <2>3
    <3> QED BY <3>3, <3>4, <3>5, <3>6
  <2> QED BY <2>2, <2>3
<1>8. \A s \in SUBSET u : s # {} => it[s \ {Some(s)}] = value[s \ {Some(s)}]
  <2> SUFFICES ASSUME NEW s \in SUBSET u, s # {}
               PROVE  it[s \ {Some(s)}] = value[s \ {Some(s)}]
    OBVIOUS
  <2>1. s \ {Some(s)} \in SUBSET u /\ s \ {Some(s)} # u
    BY SomeIs
  <2> QED BY <1>7, <2>1
<1>9. Sums(it, f, u)
  BY <1>6, <1>8 DEF Sums
<1> QED BY <1>3, <1>9

LEMMA SumEmpty == ASSUME NEW f PROVE Sum(f, {}) = 0
<1>1. PICK it : Sums(it, f, {})
  BY FS_EmptySet, SumsExist
<1>2. Sums(CHOOSE jt : Sums(jt, f, {}), f, {})
  BY <1>1
<1> DEFINE jt == CHOOSE kt : Sums(kt, f, {})
<1>3. Sums(jt, f, {})
  BY <1>2
<1> HIDE DEF jt
<1>4. jt[{}] = 0
  BY <1>3 DEF Sums
<1> QED BY <1>4 DEF Sum, jt

LEMMA SumStep ==
    ASSUME NEW f, NEW S, IsFiniteSet(S), S # {}
    PROVE  Sum(f, S) = f[Some(S)] + Sum(f, S \ {Some(S)})
<1> DEFINE R == S \ {Some(S)}
           it == CHOOSE kt : Sums(kt, f, S)
           jt == CHOOSE kt : Sums(kt, f, R)
<1>1. IsFiniteSet(R) /\ R \in SUBSET S
  BY FS_Subset
<1>2. Sums(it, f, S)
  BY SumsExist
<1>3. Sums(jt, f, R)
  <2> HIDE DEF R
  <2>1. \E kt : Sums(kt, f, R)
    BY <1>1, SumsExist
  <2> QED BY <2>1
<1>4. Sum(f, S) = it[S] /\ Sum(f, R) = jt[R]
  BY DEF Sum
<1> HIDE DEF it, jt
<1>5. it[S] = f[Some(S)] + it[R]
  BY <1>2 DEF Sums
<1>6. it[R] = jt[R]
  BY <1>1, <1>2, <1>3, SumsAgree
<1> QED BY <1>4, <1>5, <1>6

(* What a sum has beyond f decides it.                                     *)
LEMMA SumSame ==
    ASSUME NEW f, NEW g, NEW S, IsFiniteSet(S), \A x \in S : f[x] = g[x]
    PROVE  Sum(f, S) = Sum(g, S)
<1> DEFINE B == {s \in SUBSET S : Sum(f, s) # Sum(g, s)}
<1> SUFFICES ASSUME Sum(f, S) # Sum(g, S) PROVE FALSE
  OBVIOUS
<1>1. B # {} /\ \A s \in B : IsFiniteSet(s)
  BY FS_Subset
<1>2. PICK u \in B : \A t \in SUBSET u : t # u => t \notin B
  <2> HIDE DEF B
  <2> QED BY <1>1, Fewest
<1>3. u \in SUBSET S /\ IsFiniteSet(u) /\ Sum(f, u) # Sum(g, u)
  BY <1>1, <1>2
<1>4. u # {}
  BY <1>3, SumEmpty
<1>5. Some(u) \in u
  BY <1>4, SomeIs
<1>6. Sum(f, u \ {Some(u)}) = Sum(g, u \ {Some(u)})
  BY <1>2, <1>3, <1>5
<1> QED BY <1>3, <1>4, <1>5, <1>6, SumStep

LEMMA SumInt ==
    ASSUME NEW f, NEW S, IsFiniteSet(S), \A x \in S : f[x] \in Int
    PROVE  Sum(f, S) \in Int
<1> DEFINE B == {s \in SUBSET S : Sum(f, s) \notin Int}
<1> SUFFICES ASSUME Sum(f, S) \notin Int PROVE FALSE
  OBVIOUS
<1>1. B # {} /\ \A s \in B : IsFiniteSet(s)
  BY FS_Subset
<1>2. PICK u \in B : \A t \in SUBSET u : t # u => t \notin B
  <2> HIDE DEF B
  <2> QED BY <1>1, Fewest
<1>3. u \in SUBSET S /\ IsFiniteSet(u) /\ Sum(f, u) \notin Int
  BY <1>1, <1>2
<1>4. u # {}
  BY <1>3, SumEmpty
<1>5. Some(u) \in u
  BY <1>4, SomeIs
<1>6. Sum(f, u \ {Some(u)}) \in Int
  BY <1>2, <1>3, <1>5
<1>7. Sum(f, u) = f[Some(u)] + Sum(f, u \ {Some(u)})
  BY <1>3, <1>4, SumStep
<1>8. f[Some(u)] \in Int
  BY <1>3, <1>5
<1> QED BY <1>3, <1>6, <1>7, <1>8

LEMMA SumNat ==
    ASSUME NEW f, NEW S, IsFiniteSet(S), \A x \in S : f[x] \in Nat
    PROVE  Sum(f, S) \in Nat
<1> DEFINE B == {s \in SUBSET S : Sum(f, s) \notin Nat}
<1> SUFFICES ASSUME Sum(f, S) \notin Nat PROVE FALSE
  OBVIOUS
<1>1. B # {} /\ \A s \in B : IsFiniteSet(s)
  BY FS_Subset
<1>2. PICK u \in B : \A t \in SUBSET u : t # u => t \notin B
  <2> HIDE DEF B
  <2> QED BY <1>1, Fewest
<1>3. u \in SUBSET S /\ IsFiniteSet(u) /\ Sum(f, u) \notin Nat
  BY <1>1, <1>2
<1>4. u # {}
  BY <1>3, SumEmpty
<1>5. Some(u) \in u
  BY <1>4, SomeIs
<1>6. Sum(f, u \ {Some(u)}) \in Nat
  BY <1>2, <1>3, <1>5
<1>7. Sum(f, u) = f[Some(u)] + Sum(f, u \ {Some(u)})
  BY <1>3, <1>4, SumStep
<1>8. f[Some(u)] \in Nat
  BY <1>3, <1>5
<1> QED BY <1>3, <1>6, <1>7, <1>8

LEMMA SumZero ==
    ASSUME NEW f, NEW S, IsFiniteSet(S), \A x \in S : f[x] = 0
    PROVE  Sum(f, S) = 0
<1> DEFINE B == {s \in SUBSET S : Sum(f, s) # 0}
<1> SUFFICES ASSUME Sum(f, S) # 0 PROVE FALSE
  OBVIOUS
<1>1. B # {} /\ \A s \in B : IsFiniteSet(s)
  BY FS_Subset
<1>2. PICK u \in B : \A t \in SUBSET u : t # u => t \notin B
  BY <1>1, Fewest
<1>3. u # {} /\ IsFiniteSet(u)
  BY <1>1, SumEmpty
<1>4. Sum(f, u) = f[Some(u)] + Sum(f, u \ {Some(u)}) /\ Some(u) \in u
  BY <1>3, SumStep, SomeIs
<1>5. u \ {Some(u)} \in SUBSET S /\ u \ {Some(u)} \notin B
  BY <1>2, <1>4
<1> QED BY <1>2, <1>4, <1>5

(* Any element may be taken out of a sum.                                  *)
LEMMA SumRemove ==
    ASSUME NEW f, NEW S, IsFiniteSet(S), \A x \in S : f[x] \in Int, NEW y \in S
    PROVE  Sum(f, S) = f[y] + Sum(f, S \ {y})
<1> DEFINE B == {s \in SUBSET S : \E x \in s : Sum(f, s) # f[x] + Sum(f, s \ {x})}
<1> SUFFICES ASSUME Sum(f, S) # f[y] + Sum(f, S \ {y}) PROVE FALSE
  OBVIOUS
<1>1. B # {} /\ \A s \in B : IsFiniteSet(s)
  BY FS_Subset
<1>2. PICK u \in B : \A t \in SUBSET u : t # u => t \notin B
  <2> HIDE DEF B
  <2> QED BY <1>1, Fewest
<1>3. u \in SUBSET S /\ IsFiniteSet(u)
  BY <1>1, <1>2
<1>4. PICK x \in u : Sum(f, u) # f[x] + Sum(f, u \ {x})
  BY <1>2
<1> DEFINE z == Some(u)
<1>5. z \in u /\ Sum(f, u) = f[z] + Sum(f, u \ {z})
  BY <1>3, <1>4, SomeIs, SumStep
<1> HIDE DEF z
<1>6. x # z
  BY <1>4, <1>5
<1>7. /\ u \ {z} \in SUBSET u /\ u \ {z} # u /\ x \in u \ {z}
      /\ u \ {x} \in SUBSET u /\ u \ {x} # u /\ z \in u \ {x}
      /\ u \ {z} \in SUBSET S /\ u \ {x} \in SUBSET S
  BY <1>3, <1>4, <1>5, <1>6
<1>8. Sum(f, u \ {z}) = f[x] + Sum(f, (u \ {z}) \ {x})
  <2>1. u \ {z} \notin B
    BY <1>2, <1>7
  <2> QED BY <1>7, <2>1
<1>9. Sum(f, u \ {x}) = f[z] + Sum(f, (u \ {x}) \ {z})
  <2>1. u \ {x} \notin B
    BY <1>2, <1>7
  <2> QED BY <1>7, <2>1
<1>10. (u \ {z}) \ {x} = (u \ {x}) \ {z}
  OBVIOUS
<1>11. f[x] \in Int /\ f[z] \in Int /\ Sum(f, (u \ {x}) \ {z}) \in Int
  <2>1. (u \ {x}) \ {z} \in SUBSET S /\ IsFiniteSet((u \ {x}) \ {z})
    BY <1>3, <1>7, FS_Subset
  <2> QED BY <1>3, <1>4, <1>5, <2>1, SumInt
<1>12. Sum(f, u) = f[z] + (f[x] + Sum(f, (u \ {x}) \ {z}))
  BY <1>5, <1>8, <1>10
<1>13. Sum(f, u) # f[x] + (f[z] + Sum(f, (u \ {x}) \ {z}))
  BY <1>4, <1>9
<1> DEFINE rest == Sum(f, (u \ {x}) \ {z})
<1>14. f[z] + (f[x] + rest) = f[x] + (f[z] + rest)
  <2> SUFFICES ASSUME NEW a \in Int, NEW b \in Int, NEW c \in Int
               PROVE  a + (b + c) = b + (a + c)
    BY <1>11
  <2> QED OBVIOUS
<1> QED BY <1>12, <1>13, <1>14

(* A new element adds what f says of it.                                   *)
LEMMA SumAdd ==
    ASSUME NEW f, NEW S, IsFiniteSet(S), NEW y, y \notin S, \A x \in S \cup {y} : f[x] \in Int
    PROVE  Sum(f, S \cup {y}) = f[y] + Sum(f, S)
<1>1. IsFiniteSet(S \cup {y}) /\ (S \cup {y}) \ {y} = S
  BY FS_AddElement
<1> QED BY <1>1, SumRemove

(* One element that changes changes the sum by as much.                    *)
LEMMA SumChange ==
    ASSUME NEW f, NEW g, NEW S, IsFiniteSet(S), NEW y \in S,
           \A x \in S : f[x] \in Int /\ g[x] \in Int, \A x \in S \ {y} : f[x] = g[x]
    PROVE  Sum(g, S) = Sum(f, S) + g[y] - f[y]
<1>1. IsFiniteSet(S \ {y})
  BY FS_RemoveElement
<1>2. Sum(f, S \ {y}) = Sum(g, S \ {y}) /\ Sum(f, S \ {y}) \in Int
  BY <1>1, SumSame, SumInt
<1>3. Sum(f, S) = f[y] + Sum(f, S \ {y}) /\ Sum(g, S) = g[y] + Sum(g, S \ {y})
  BY SumRemove
<1> QED BY <1>2, <1>3

(* Of natural numbers, fewer or smaller ones do not sum to more.           *)
LEMMA SumPart ==
    ASSUME NEW f, NEW S, IsFiniteSet(S), \A x \in S : f[x] \in Nat, NEW T \in SUBSET S
    PROVE  Sum(f, T) <= Sum(f, S)
<1> DEFINE B == {s \in SUBSET S : T \subseteq s /\ ~(Sum(f, T) <= Sum(f, s))}
<1> SUFFICES ASSUME ~(Sum(f, T) <= Sum(f, S)) PROVE FALSE
  OBVIOUS
<1>1. B # {} /\ \A s \in B : IsFiniteSet(s)
  BY FS_Subset
<1>2. PICK u \in B : \A t \in SUBSET u : t # u => t \notin B
  <2> HIDE DEF B
  <2> QED BY <1>1, Fewest
<1>3. u \in SUBSET S /\ IsFiniteSet(u) /\ T \subseteq u /\ ~(Sum(f, T) <= Sum(f, u))
  BY <1>1, <1>2
<1>4. IsFiniteSet(T) /\ Sum(f, T) \in Nat
  <2>1. IsFiniteSet(T)
    BY FS_Subset
  <2> QED BY <2>1, SumNat
<1>5. PICK y \in u : y \notin T
  BY <1>3, <1>4
<1>6. Sum(f, u) = f[y] + Sum(f, u \ {y}) /\ Sum(f, u \ {y}) \in Nat /\ f[y] \in Nat
  <2>1. IsFiniteSet(u \ {y})
    BY <1>3, FS_RemoveElement
  <2> QED BY <1>3, <2>1, SumRemove, SumNat
<1>7. u \ {y} \in SUBSET u /\ u \ {y} # u /\ T \subseteq u \ {y} /\ u \ {y} \in SUBSET S
  BY <1>3, <1>5
<1>8. Sum(f, T) <= Sum(f, u \ {y})
  BY <1>2, <1>7
<1> QED BY <1>3, <1>4, <1>6, <1>8

(* Smaller numbers do not sum to more.                                     *)
LEMMA SumBelow ==
    ASSUME NEW f, NEW g, NEW S, IsFiniteSet(S),
           \A x \in S : f[x] \in Nat /\ g[x] \in Nat /\ f[x] <= g[x]
    PROVE  Sum(f, S) <= Sum(g, S)
<1> DEFINE B == {s \in SUBSET S : ~(Sum(f, s) <= Sum(g, s))}
<1> SUFFICES ASSUME ~(Sum(f, S) <= Sum(g, S)) PROVE FALSE
  OBVIOUS
<1>1. B # {} /\ \A s \in B : IsFiniteSet(s)
  BY FS_Subset
<1>2. PICK u \in B : \A t \in SUBSET u : t # u => t \notin B
  <2> HIDE DEF B
  <2> QED BY <1>1, Fewest
<1>3. u \in SUBSET S /\ IsFiniteSet(u) /\ ~(Sum(f, u) <= Sum(g, u))
  BY <1>1, <1>2
<1>4. u # {}
  BY <1>3, SumEmpty
<1> DEFINE z == Some(u)
           r == u \ {z}
<1>5. z \in u /\ Sum(f, u) = f[z] + Sum(f, r) /\ Sum(g, u) = g[z] + Sum(g, r)
  BY <1>3, <1>4, SomeIs, SumStep
<1> HIDE DEF z
<1>6. r \in SUBSET u /\ r # u /\ r \in SUBSET S /\ IsFiniteSet(r)
  BY <1>3, <1>5, FS_RemoveElement
<1>7. Sum(f, r) <= Sum(g, r)
  BY <1>2, <1>6
<1>8. Sum(f, r) \in Nat /\ Sum(g, r) \in Nat
  <2>1. \A x \in r : f[x] \in Nat /\ g[x] \in Nat
    BY <1>6
  <2> QED BY <1>6, <2>1, SumNat
<1>9. f[z] \in Nat /\ g[z] \in Nat /\ f[z] <= g[z]
  BY <1>3, <1>5
<1> HIDE DEF r
<1> QED BY <1>3, <1>5, <1>7, <1>8, <1>9

(* The library's sum is this one.                                          *)
LEMMA LibrarySum ==
    ASSUME NEW f, NEW S PROVE SumFunctionOnSet(f, S) = Sum(f, S)
BY DEF SumFunctionOnSet, FoldFunctionOnSet, MapThenFoldSet, Sum, Sums, Some

---------------------------------------------------------------------------
(* Orders                                                                  *)

(* Of finitely many natural numbers, one is the greatest.                  *)
LEMMA Greatest ==
    ASSUME NEW S \in SUBSET Nat, S # {}, IsFiniteSet(S)
    PROVE  \E n \in S : \A m \in S : m <= n
<1> DEFINE B == {T \in SUBSET S : T # {} /\ ~\E n \in T : \A m \in T : m <= n}
<1> SUFFICES ASSUME ~\E n \in S : \A m \in S : m <= n PROVE FALSE
  OBVIOUS
<1>1. B # {} /\ \A T \in B : IsFiniteSet(T)
  BY FS_Subset
<1>2. PICK u \in B : \A t \in SUBSET u : t # u => t \notin B
  <2> HIDE DEF B
  <2> QED BY <1>1, Fewest
<1>3. u \in SUBSET S /\ u # {} /\ ~\E n \in u : \A m \in u : m <= n
  BY <1>2
<1>4. PICK x \in u : TRUE
  BY <1>3
<1>5. CASE u \ {x} = {}
  <2>1. u = {x} /\ x \in Nat
    BY <1>3, <1>4, <1>5
  <2> QED BY <1>3, <2>1
<1>6. CASE u \ {x} # {}
  <2>1. u \ {x} \in SUBSET u /\ u \ {x} # u /\ u \ {x} \in SUBSET S
    BY <1>3, <1>4
  <2>2. PICK y \in u \ {x} : \A m \in u \ {x} : m <= y
    BY <1>2, <1>6, <2>1
  <2>3. x \in Nat /\ y \in Nat /\ y \in u /\ \A m \in u : m \in Nat /\ (m = x \/ m <= y)
    BY <1>3, <1>4, <2>2
  <2>4. CASE x <= y
    BY <1>3, <2>3, <2>4
  <2>5. CASE y <= x
    <3>1. \A m \in u : m <= x
      BY <2>3, <2>5
    <3> QED BY <1>3, <1>4, <3>1
  <2> QED BY <2>3, <2>4, <2>5
<1> QED BY <1>5, <1>6

(* q counts the elements of S, those of which f says less first.           *)
Ascending(q, f, S) ==
    /\ q \in Bijection(1..Cardinality(S), S)
    /\ \A i, j \in 1..Cardinality(S) : i < j => f[q[i]] <= f[q[j]]

LEMMA AscendingExists ==
    ASSUME NEW f, NEW S, IsFiniteSet(S), \A x \in S : f[x] \in Nat
    PROVE  \E q : Ascending(q, f, S)
<1> DEFINE B == {T \in SUBSET S : ~\E q : Ascending(q, f, T)}
<1> SUFFICES ASSUME ~\E q : Ascending(q, f, S) PROVE FALSE
  OBVIOUS
<1>1. B # {} /\ \A T \in B : IsFiniteSet(T)
  BY FS_Subset
<1>2. PICK u \in B : \A t \in SUBSET u : t # u => t \notin B
  <2> HIDE DEF B
  <2> QED BY <1>1, Fewest
<1>3. u \in SUBSET S /\ IsFiniteSet(u) /\ ~\E q : Ascending(q, f, u)
  BY <1>1, <1>2
<1>4. u # {}
  <2> SUFFICES ASSUME u = {} PROVE FALSE
    OBVIOUS
  <2> DEFINE q == [i \in 1..0 |-> i]
  <2>1. Cardinality({}) = 0 /\ 1..0 = {}
    BY FS_EmptySet
  <2>2. q \in [1..Cardinality(u) -> u]
    BY <2>1
  <2>3. q \in Bijection(1..Cardinality(u), u)
    BY <2>1, <2>2 DEF Bijection, Injection, Surjection, IsInjective
  <2>4. Ascending(q, f, u)
    BY <2>1, <2>3 DEF Ascending
  <2> QED BY <1>3, <2>4
<1>5. PICK x \in u : \A y \in u : f[y] <= f[x]
  <2> DEFINE V == {f[y] : y \in u}
  <2>1. V \in SUBSET Nat /\ V # {}
    BY <1>3, <1>4
  <2>2. IsFiniteSet(V)
    <3>1. [y \in u |-> f[y]] \in Surjection(u, V)
      BY DEF Surjection
    <3> QED BY <3>1, <1>3, FS_Surjection
  <2>3. PICK n \in V : \A m \in V : m <= n
    <3> HIDE DEF V
    <3> QED BY <2>1, <2>2, Greatest
  <2> QED BY <2>3
<1> DEFINE t == u \ {x}
<1>6. t \in SUBSET u /\ t # u /\ t \in SUBSET S /\ u = t \cup {x} /\ x \notin t
  BY <1>3, <1>5
<1>7. PICK p : Ascending(p, f, t)
  BY <1>2, <1>6
<1>8. IsFiniteSet(t) /\ Cardinality(t) \in Nat /\ Cardinality(u) = Cardinality(t) + 1
  <2>1. IsFiniteSet(t) /\ Cardinality(t) \in Nat
    BY <1>3, FS_RemoveElement, FS_CardinalityType
  <2>2. Cardinality(t \cup {x}) = Cardinality(t) + 1
    BY <1>6, <2>1, FS_AddElement
  <2> QED BY <1>6, <2>1, <2>2
<1> DEFINE n == Cardinality(t)
           q == [i \in 1..(n + 1) |-> IF i = n + 1 THEN x ELSE p[i]]
<1>9. /\ n \in Nat /\ p \in [1..n -> t]
      /\ \A a, b \in 1..n : p[a] = p[b] => a = b
      /\ \A y \in t : \E a \in 1..n : p[a] = y
      /\ \A i, j \in 1..n : i < j => f[p[i]] <= f[p[j]]
  BY <1>7, <1>8 DEF Ascending, Bijection, Injection, Surjection, IsInjective
<1> HIDE DEF t, n
<1>10. /\ q[n + 1] = x
       /\ \A i \in 1..n : q[i] = p[i] /\ p[i] \in t
       /\ \A i \in 1..(n + 1) : i = n + 1 \/ i \in 1..n
  BY <1>9
<1>11. q \in [1..(n + 1) -> u]
  BY <1>6, <1>10
<1> HIDE DEF q
<1>12. \A a, b \in 1..(n + 1) : q[a] = q[b] => a = b
  BY <1>6, <1>9, <1>10
<1>13. \A y \in u : \E a \in 1..(n + 1) : q[a] = y
  <2> SUFFICES ASSUME NEW y \in u PROVE \E a \in 1..(n + 1) : q[a] = y
    OBVIOUS
  <2>1. CASE y = x
    BY <1>9, <1>10, <2>1
  <2>2. CASE y \in t
    <3>1. PICK a \in 1..n : p[a] = y
      BY <1>9, <2>2
    <3> QED BY <1>9, <1>10, <3>1
  <2> QED BY <1>6, <2>1, <2>2
<1>14. \A i, j \in 1..(n + 1) : i < j => f[q[i]] <= f[q[j]]
  <2> SUFFICES ASSUME NEW i \in 1..(n + 1), NEW j \in 1..(n + 1), i < j
               PROVE  f[q[i]] <= f[q[j]]
    OBVIOUS
  <2>1. i \in 1..n
    BY <1>9
  <2>2. CASE j = n + 1
    BY <1>5, <1>6, <1>10, <2>1, <2>2
  <2>3. CASE j \in 1..n
    BY <1>9, <1>10, <2>1, <2>3
  <2> QED BY <1>10, <2>2, <2>3
<1>15. Cardinality(u) = n + 1
  BY <1>8 DEF n, t
<1>16. Ascending(q, f, u)
  BY <1>11, <1>12, <1>13, <1>14, <1>15
     DEF Ascending, Bijection, Injection, Surjection, IsInjective
<1> QED BY <1>3, <1>16
=============================================================================
