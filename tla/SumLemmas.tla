------------------------------- MODULE SumLemmas -------------------------------
(***************************************************************************)
(* Sums of a function's values over finite sets, SumFunctionOnSet of the   *)
(* community modules: what a sum is, and how it changes with its set and   *)
(* its function.  A statement about every finite set is proved by its      *)
(* least counterexample.                                                   *)
(***************************************************************************)
EXTENDS Functions, FiniteSetTheorems, WellFoundedInduction, TLAPS

(* Among finite sets with a property there is one no part of which has it. *)
LEMMA LeastSet ==
    ASSUME NEW U, IsFiniteSet(U), NEW Bad, Bad \subseteq SUBSET U, Bad # {}
    PROVE  \E T \in Bad : \A V \in SUBSET T : V # T => V \notin Bad
<1>1. Bad \subseteq FiniteSubsetsOf(U)
  BY FS_Subset DEF FiniteSubsetsOf
<1>2. PICK T \in Bad : \A V \in Bad : <<V, T>> \notin StrictSubsetOrdering(U)
  BY <1>1, FS_StrictSubsetOrderingWellFounded, WFMin
<1>3. ASSUME NEW V \in SUBSET T, V # T, V \in Bad PROVE FALSE
  <2>1. <<V, T>> \in StrictSubsetOrdering(U)
    BY <1>3 DEF StrictSubsetOrdering
  <2> QED BY <1>2, <1>3, <2>1
<1> QED BY <1>2, <1>3

(* The element a fold takes first.                                         *)
First(s) == CHOOSE x \in s : TRUE

(* g tells the sum of f over every part of S.                              *)
Table(g, f, S) ==
    g = [s \in SUBSET S |-> IF s = {} THEN 0 ELSE f[First(s)] + g[s \ {First(s)}]]

LEMMA SumIsTable ==
    ASSUME NEW f, NEW S
    PROVE  SumFunctionOnSet(f, S) = (CHOOSE g : Table(g, f, S))[S]
BY DEF SumFunctionOnSet, FoldFunctionOnSet, MapThenFoldSet, Table, First

LEMMA FirstIsMember == \A s : s # {} => First(s) \in s
BY DEF First

(* Tables agree where both tell a sum.                                     *)
LEMMA TablesAgree ==
    ASSUME NEW f, NEW S, IsFiniteSet(S), NEW T \in SUBSET S, NEW g, NEW h,
           Table(g, f, S), Table(h, f, T)
    PROVE  \A s \in SUBSET T : g[s] = h[s]
<1> DEFINE Bad == {s \in SUBSET T : g[s] # h[s]}
<1>1. SUFFICES ASSUME Bad # {} PROVE FALSE
  OBVIOUS
<1>2. IsFiniteSet(T)
  BY FS_Subset
<1>3. PICK s \in Bad : \A V \in SUBSET s : V # s => V \notin Bad
  <2>1. Bad \subseteq SUBSET T
    OBVIOUS
  <2> HIDE DEF Bad
  <2> QED BY <1>1, <1>2, <2>1, LeastSet
<1>4. s # {}
  BY DEF Table
<1> DEFINE c == First(s)
<1>5. c \in s
  BY <1>4, FirstIsMember
<1>6. g[s] = f[c] + g[s \ {c}] /\ h[s] = f[c] + h[s \ {c}]
  BY <1>4 DEF Table
<1>7. g[s \ {c}] = h[s \ {c}]
  <2>1. s \ {c} \in SUBSET s /\ s \ {c} # s /\ s \ {c} \in SUBSET T
    BY <1>5
  <2> QED BY <1>3, <2>1
<1> QED BY <1>6, <1>7

(* Every finite set has one.                                               *)
LEMMA TableExists ==
    ASSUME NEW f, NEW S, IsFiniteSet(S)
    PROVE  \E g : Table(g, f, S)
<1> DEFINE Bad == {s \in SUBSET S : \A g : ~Table(g, f, s)}
<1>1. SUFFICES ASSUME Bad # {} PROVE FALSE
  OBVIOUS
<1>2. PICK T \in Bad : \A V \in SUBSET T : V # T => V \notin Bad
  <2>1. Bad \subseteq SUBSET S
    OBVIOUS
  <2> HIDE DEF Bad
  <2> QED BY <1>1, <2>1, LeastSet
<1> DEFINE G(t) == CHOOSE g : Table(g, f, t)
           Rest(s) == s \ {First(s)}
           h == [s \in SUBSET T |-> IF s = {} THEN 0 ELSE f[First(s)] + G(Rest(s))[Rest(s)]]
<1>3. ASSUME NEW s \in SUBSET T, s # {}
      PROVE  Rest(s) \in SUBSET T /\ Rest(s) # T /\ Rest(s) \in SUBSET s /\ Rest(s) # s
  <2>1. First(s) \in s
    BY <1>3, FirstIsMember
  <2> QED BY <2>1
<1>4. ASSUME NEW t \in SUBSET T, t # T PROVE Table(G(t), f, t)
  <2>1. \E g : Table(g, f, t)
    BY <1>2, <1>4
  <2> HIDE DEF Table
  <2> QED BY <2>1
<1>5. ASSUME NEW t \in SUBSET T, t # T PROVE h[t] = G(t)[t]
  <2>1. G(t) = [s \in SUBSET t |-> IF s = {} THEN 0 ELSE f[First(s)] + G(t)[s \ {First(s)}]]
    BY <1>4, <1>5 DEF Table
  <2> HIDE DEF G
  <2>2. CASE t = {}
    <3>1. G(t)[t] = 0
      BY <2>1, <2>2
    <3> QED BY <2>2, <3>1
  <2>3. CASE t # {}
    <3>1. G(t)[t] = f[First(t)] + G(t)[Rest(t)]
      BY <2>1, <2>3
    <3>2. /\ Rest(t) \in SUBSET T /\ Rest(t) # T /\ Rest(t) \in SUBSET t
      BY <1>3, <2>3
    <3>3. Table(G(Rest(t)), f, Rest(t)) /\ Table(G(t), f, t)
      BY <1>4, <1>5, <3>2
    <3>4. IsFiniteSet(t)
      BY FS_Subset
    <3>5. G(t)[Rest(t)] = G(Rest(t))[Rest(t)]
      BY <3>2, <3>3, <3>4, TablesAgree
    <3>6. h[t] = f[First(t)] + G(Rest(t))[Rest(t)]
      BY <2>3
    <3> QED BY <3>1, <3>5, <3>6
  <2> QED BY <2>2, <2>3
<1>6. ASSUME NEW s \in SUBSET T, s # {} PROVE h[s] = f[First(s)] + h[s \ {First(s)}]
  <2>1. h[s] = f[First(s)] + G(Rest(s))[Rest(s)]
    BY <1>6
  <2>2. h[Rest(s)] = G(Rest(s))[Rest(s)]
    BY <1>3, <1>5, <1>6
  <2> QED BY <2>1, <2>2
<1>7. h[{}] = 0
  OBVIOUS
<1>8. h = [s \in SUBSET T |-> h[s]]
  OBVIOUS
<1>9. Table(h, f, T)
  <2> HIDE DEF h
  <2> QED BY <1>6, <1>7, <1>8 DEF Table
<1> QED BY <1>9
-------------------------------------------------------------------------------
(* The sum over no element is zero, any other takes its first element off. *)
LEMMA EmptySum ==
    ASSUME NEW f
    PROVE  SumFunctionOnSet(f, {}) = 0
<1>1. PICK g : Table(g, f, {}) /\ SumFunctionOnSet(f, {}) = g[{}]
  <2>1. IsFiniteSet({})
    BY FS_EmptySet
  <2>2. \E g : Table(g, f, {})
    BY <2>1, TableExists
  <2>3. Table(CHOOSE g : Table(g, f, {}), f, {})
    <3> HIDE DEF Table
    <3> QED BY <2>2
  <2> QED BY <2>3, SumIsTable
<1> QED BY <1>1 DEF Table

LEMMA SumUnfolds ==
    ASSUME NEW f, NEW S, IsFiniteSet(S), S # {}
    PROVE  SumFunctionOnSet(f, S) = f[First(S)] + SumFunctionOnSet(f, S \ {First(S)})
<1> DEFINE T == S \ {First(S)}
<1>1. ASSUME NEW U \in SUBSET S PROVE \E g : Table(g, f, U) /\ SumFunctionOnSet(f, U) = g[U]
  <2>1. IsFiniteSet(U)
    BY FS_Subset
  <2>2. \E g : Table(g, f, U)
    BY <2>1, TableExists
  <2>3. Table(CHOOSE g : Table(g, f, U), f, U)
    <3> HIDE DEF Table
    <3> QED BY <2>2
  <2> QED BY <2>3, SumIsTable
<1>2. PICK g : Table(g, f, S) /\ SumFunctionOnSet(f, S) = g[S]
  BY <1>1
<1>3. PICK h : Table(h, f, T) /\ SumFunctionOnSet(f, T) = h[T]
  BY <1>1
<1>4. g[T] = h[T]
  BY <1>2, <1>3, TablesAgree
<1>5. g[S] = f[First(S)] + g[T]
  BY <1>2 DEF Table
<1> QED BY <1>2, <1>3, <1>4, <1>5

(* A sum of natural numbers is one.                                        *)
LEMMA SumIsNat ==
    ASSUME NEW f, NEW S, IsFiniteSet(S), \A x \in S : f[x] \in Nat
    PROVE  SumFunctionOnSet(f, S) \in Nat
<1> DEFINE Bad == {s \in SUBSET S : SumFunctionOnSet(f, s) \notin Nat}
<1>1. SUFFICES ASSUME Bad # {} PROVE FALSE
  OBVIOUS
<1>2. PICK T \in Bad : \A V \in SUBSET T : V # T => V \notin Bad
  <2>1. Bad \subseteq SUBSET S
    OBVIOUS
  <2> HIDE DEF Bad
  <2> QED BY <1>1, <2>1, LeastSet
<1>3. T # {}
  <2>1. CASE T = {}
    BY <1>2, <2>1, EmptySum
  <2> QED BY <2>1
<1>4. First(T) \in T /\ IsFiniteSet(T)
  BY <1>3, FirstIsMember, FS_Subset
<1>5. SumFunctionOnSet(f, T) = f[First(T)] + SumFunctionOnSet(f, T \ {First(T)})
  BY <1>3, <1>4, SumUnfolds
<1>6. SumFunctionOnSet(f, T \ {First(T)}) \in Nat
  <2> HIDE DEF First
  <2> QED BY <1>2, <1>4
<1> QED BY <1>4, <1>5, <1>6

(* Any element may be taken off first.                                     *)
LEMMA SumSplits ==
    ASSUME NEW f, NEW S, IsFiniteSet(S), \A y \in S : f[y] \in Nat, NEW x \in S
    PROVE  SumFunctionOnSet(f, S) = f[x] + SumFunctionOnSet(f, S \ {x})
<1> DEFINE Splits(s, z) == SumFunctionOnSet(f, s) = f[z] + SumFunctionOnSet(f, s \ {z})
           Bad == {s \in SUBSET S : \E z \in s : ~Splits(s, z)}
<1>1. SUFFICES ASSUME Bad # {} PROVE FALSE
  OBVIOUS
<1>2. PICK T \in Bad : \A V \in SUBSET T : V # T => V \notin Bad
  <2>1. Bad \subseteq SUBSET S
    OBVIOUS
  <2> HIDE DEF Bad
  <2> QED BY <1>1, <2>1, LeastSet
<1>3. PICK z \in T : ~Splits(T, z)
  BY <1>2
<1> DEFINE c == First(T)
<1>4. c \in T /\ IsFiniteSet(T) /\ T # {}
  BY <1>3, FirstIsMember, FS_Subset
<1>5. SumFunctionOnSet(f, T) = f[c] + SumFunctionOnSet(f, T \ {c})
  BY <1>4, SumUnfolds
<1>6. c # z
  BY <1>3, <1>5
<1>7. SumFunctionOnSet(f, T \ {c}) = f[z] + SumFunctionOnSet(f, (T \ {c}) \ {z})
  <2>1. T \ {c} \notin Bad /\ T \ {c} \in SUBSET S
    BY <1>2, <1>4
  <2> QED BY <1>6, <2>1
<1>8. SumFunctionOnSet(f, T \ {z}) = f[c] + SumFunctionOnSet(f, (T \ {z}) \ {c})
  <2>1. T \ {z} \notin Bad /\ T \ {z} \in SUBSET S
    BY <1>2
  <2> QED BY <1>4, <1>6, <2>1
<1>9. (T \ {c}) \ {z} = (T \ {z}) \ {c}
  OBVIOUS
<1>10. /\ f[c] \in Nat /\ f[z] \in Nat
       /\ SumFunctionOnSet(f, (T \ {z}) \ {c}) \in Nat
  <2>1. IsFiniteSet((T \ {z}) \ {c})
    BY <1>4, FS_Subset
  <2> QED BY <1>4, <2>1, SumIsNat
<1> DEFINE u == SumFunctionOnSet(f, (T \ {z}) \ {c})
<1>11. SumFunctionOnSet(f, T) = f[c] + (f[z] + u)
  BY <1>5, <1>7, <1>9
<1>12. f[z] + SumFunctionOnSet(f, T \ {z}) = f[z] + (f[c] + u)
  BY <1>8
<1>13. f[c] + (f[z] + u) = f[z] + (f[c] + u)
  <2> HIDE DEF c, u
  <2> QED BY <1>10 DEF u
<1> HIDE DEF c, u
<1> QED BY <1>3, <1>11, <1>12, <1>13

(* A sum looks at the values over its set and at nothing else.             *)
LEMMA SameSum ==
    ASSUME NEW f, NEW g, NEW S, IsFiniteSet(S), \A x \in S : f[x] = g[x]
    PROVE  SumFunctionOnSet(f, S) = SumFunctionOnSet(g, S)
<1> DEFINE Bad == {s \in SUBSET S : SumFunctionOnSet(f, s) # SumFunctionOnSet(g, s)}
<1>1. SUFFICES ASSUME Bad # {} PROVE FALSE
  OBVIOUS
<1>2. PICK T \in Bad : \A V \in SUBSET T : V # T => V \notin Bad
  <2>1. Bad \subseteq SUBSET S
    OBVIOUS
  <2> HIDE DEF Bad
  <2> QED BY <1>1, <2>1, LeastSet
<1>3. T # {}
  <2>1. CASE T = {}
    BY <1>2, <2>1, EmptySum
  <2> QED BY <2>1
<1>4. First(T) \in T /\ IsFiniteSet(T)
  BY <1>3, FirstIsMember, FS_Subset
<1>5. /\ SumFunctionOnSet(f, T) = f[First(T)] + SumFunctionOnSet(f, T \ {First(T)})
      /\ SumFunctionOnSet(g, T) = g[First(T)] + SumFunctionOnSet(g, T \ {First(T)})
  BY <1>3, <1>4, SumUnfolds
<1>6. SumFunctionOnSet(f, T \ {First(T)}) = SumFunctionOnSet(g, T \ {First(T)})
  BY <1>2, <1>4
<1> QED BY <1>2, <1>4, <1>5, <1>6

(* A sum over a set that gains an element gains its value; one that loses  *)
(* an element loses it.  The other values may not change meanwhile.        *)
LEMMA SumGains ==
    ASSUME NEW f, NEW g, NEW S, IsFiniteSet(S), NEW x, x \notin S,
           \A y \in S : f[y] \in Nat /\ g[y] = f[y], g[x] \in Nat
    PROVE  SumFunctionOnSet(g, S \cup {x}) = SumFunctionOnSet(f, S) + g[x]
<1>1. IsFiniteSet(S \cup {x}) /\ (S \cup {x}) \ {x} = S
  BY FS_AddElement
<1>2. SumFunctionOnSet(g, S \cup {x}) = g[x] + SumFunctionOnSet(g, S)
  <2>1. \A y \in S \cup {x} : g[y] \in Nat
    OBVIOUS
  <2>2. SumFunctionOnSet(g, S \cup {x}) = g[x] + SumFunctionOnSet(g, (S \cup {x}) \ {x})
    BY <1>1, <2>1, SumSplits
  <2> QED BY <1>1, <2>2
<1>3. SumFunctionOnSet(g, S) = SumFunctionOnSet(f, S) /\ SumFunctionOnSet(f, S) \in Nat
  BY SameSum, SumIsNat
<1> QED BY <1>2, <1>3

LEMMA SumLoses ==
    ASSUME NEW f, NEW g, NEW S, IsFiniteSet(S), NEW x \in S,
           \A y \in S : f[y] \in Nat, \A y \in S \ {x} : g[y] = f[y]
    PROVE  /\ SumFunctionOnSet(g, S \ {x}) \in Nat
           /\ SumFunctionOnSet(f, S) = SumFunctionOnSet(g, S \ {x}) + f[x]
<1>1. SumFunctionOnSet(f, S) = f[x] + SumFunctionOnSet(f, S \ {x})
  BY SumSplits
<1>2. IsFiniteSet(S \ {x})
  BY FS_Subset
<1>3. SumFunctionOnSet(g, S \ {x}) = SumFunctionOnSet(f, S \ {x})
  BY <1>2, SameSum
<1>4. SumFunctionOnSet(f, S \ {x}) \in Nat
  BY <1>2, SumIsNat
<1> QED BY <1>1, <1>3, <1>4
================================================================================
