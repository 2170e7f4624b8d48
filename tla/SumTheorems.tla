---------------------------- MODULE SumTheorems ----------------------------
(***************************************************************************)
(* What SumFunctionOnSet returns: the sum over no element, over one more   *)
(* element, and over two functions that agree.  The library's induction    *)
(* rules take a predicate as a parameter; here each induction over the     *)
(* finite sets is done on a least counterexample instead, the existence of *)
(* the recursive function behind the sum included.                         *)
(***************************************************************************)
EXTENDS Functions, FiniteSetTheorems, TLAPS

Pick(T) == CHOOSE x \in T : TRUE

(* g is the table of the partial sums of f over the subsets of S. *)
IsTable(g, f, S) ==
    g = [T \in SUBSET S |-> IF T = {} THEN 0 ELSE f[Pick(T)] + g[T \ {Pick(T)}]]

Table(f, S) == CHOOSE g : IsTable(g, f, S)

LEMMA Unfolded ==
    ASSUME NEW f, NEW S
    PROVE  SumFunctionOnSet(f, S) = Table(f, S)[S]
BY DEF SumFunctionOnSet, FoldFunctionOnSet, MapThenFoldSet, Table, IsTable, Pick

LEMMA PickIsMember == ASSUME NEW T, T # {} PROVE Pick(T) \in T
BY DEF Pick

(* Among the finite sets that are counterexamples, one has no smaller one.   *)
LEMMA LeastSet ==
    ASSUME NEW S, IsFiniteSet(S), NEW Bad, Bad \subseteq SUBSET S, Bad # {}
    PROVE  \E T \in Bad : \A U \in Bad : U \subseteq T => U = T
<1>1. IsWellFoundedOn(StrictSubsetOrdering(S), SUBSET S)
  BY FS_StrictSubsetOrderingWellFounded, FS_FiniteSubsetsOfFinite
<1>2. PICK T \in Bad : \A U \in Bad : <<U, T>> \notin StrictSubsetOrdering(S)
  BY <1>1, WFMin
<1>3. ASSUME NEW U \in Bad, U \subseteq T PROVE U = T
  BY <1>2, <1>3 DEF StrictSubsetOrdering
<1> QED BY <1>2, <1>3

LEMMA TablesAgree ==
    ASSUME NEW f, NEW S, IsFiniteSet(S), NEW A \in SUBSET S, NEW B \in SUBSET S,
           NEW g, NEW h, IsTable(g, f, A), IsTable(h, f, B),
           NEW T \in SUBSET (A \cap B)
    PROVE  g[T] = h[T]
<1> DEFINE Bad == {U \in SUBSET (A \cap B) : g[U] # h[U]}
<1>1. SUFFICES ASSUME Bad # {} PROVE FALSE
  OBVIOUS
<1>2. PICK U \in Bad : \A V \in Bad : V \subseteq U => V = U
  <2>1. Bad \subseteq SUBSET S
    OBVIOUS
  <2> HIDE DEF Bad
  <2> QED BY <1>1, <2>1, LeastSet
<1>3. /\ g[U] = IF U = {} THEN 0 ELSE f[Pick(U)] + g[U \ {Pick(U)}]
      /\ h[U] = IF U = {} THEN 0 ELSE f[Pick(U)] + h[U \ {Pick(U)}]
  BY <1>2 DEF IsTable
<1>4. CASE U = {}
  BY <1>2, <1>3, <1>4
<1>5. CASE U # {}
  <2>1. Pick(U) \in U
    BY <1>5, PickIsMember
  <2>2. U \ {Pick(U)} \notin Bad
    BY <1>2, <2>1
  <2>3. g[U \ {Pick(U)}] = h[U \ {Pick(U)}]
    BY <2>2, <1>2
  <2> QED BY <1>2, <1>3, <1>5, <2>3
<1> QED BY <1>4, <1>5

(* A table of S holds the tables of its subsets. *)
LEMMA TableOfSubset ==
    ASSUME NEW f, NEW S, NEW g, IsTable(g, f, S), NEW T \in SUBSET S
    PROVE  IsTable([U \in SUBSET T |-> g[U]], f, T)
<1> DEFINE h == [U \in SUBSET T |-> g[U]]
<1>1. ASSUME NEW U \in SUBSET T
      PROVE  h[U] = IF U = {} THEN 0 ELSE f[Pick(U)] + h[U \ {Pick(U)}]
  <2>1. g[U] = IF U = {} THEN 0 ELSE f[Pick(U)] + g[U \ {Pick(U)}]
    BY DEF IsTable
  <2>2. h[U] = g[U] /\ h[U \ {Pick(U)}] = g[U \ {Pick(U)}]
    OBVIOUS
  <2> QED BY <2>1, <2>2
<1> HIDE DEF h
<1>2. h = [U \in SUBSET T |-> h[U]]
  BY DEF h
<1>3. h = [U \in SUBSET T |-> IF U = {} THEN 0 ELSE f[Pick(U)] + h[U \ {Pick(U)}]]
  BY <1>1, <1>2
<1>4. IsTable(h, f, T)
  BY <1>3 DEF IsTable
<1> QED BY <1>4 DEF h

(* Every finite set has a table: a smallest one without would get its table  *)
(* from those of its subsets.                                                *)
LEMMA TableExists ==
    ASSUME NEW f, NEW S, IsFiniteSet(S)
    PROVE  \A T \in SUBSET S : IsTable(Table(f, T), f, T)
<1> DEFINE Bad == {T \in SUBSET S : ~IsTable(Table(f, T), f, T)}
<1>1. SUFFICES ASSUME Bad # {} PROVE FALSE
  OBVIOUS
<1>2. PICK T \in Bad : \A U \in Bad : U \subseteq T => U = T
  <2>1. Bad \subseteq SUBSET S
    OBVIOUS
  <2> HIDE DEF Bad
  <2> QED BY <1>1, <2>1, LeastSet
<1>3. \A U \in SUBSET T : U # T => IsTable(Table(f, U), f, U)
  BY <1>2
<1> DEFINE value(U) == IF U = {} THEN 0
                       ELSE f[Pick(U)] + Table(f, U \ {Pick(U)})[U \ {Pick(U)}]
           g == [U \in SUBSET T |-> value(U)]
<1>4. ASSUME NEW U \in SUBSET T, U # {}
      PROVE  Table(f, U \ {Pick(U)})[U \ {Pick(U)}] = g[U \ {Pick(U)}]
  <2> DEFINE V == U \ {Pick(U)}
  <2>1. V \in SUBSET T /\ V # T
    BY <1>4, PickIsMember
  <2>2. IsTable(Table(f, V), f, V)
    BY <1>3, <2>1
  <2>3. g[V] = value(V)
    BY <2>1
  <2>4. Table(f, V)[V] = IF V = {} THEN 0
                         ELSE f[Pick(V)] + Table(f, V)[V \ {Pick(V)}]
    BY <2>2 DEF IsTable
  <2>5. CASE V = {}
    BY <2>3, <2>4, <2>5
  <2>6. CASE V # {}
    <3> DEFINE W == V \ {Pick(V)}
    <3>1. W \in SUBSET T /\ W # T /\ W \subseteq V
      BY <2>1, <2>6, PickIsMember
    <3>2. IsTable(Table(f, W), f, W)
      BY <1>3, <3>1
    <3>3. Table(f, V)[W] = Table(f, W)[W]
      <4>1. IsFiniteSet(S) /\ V \in SUBSET S /\ W \in SUBSET S /\ W \in SUBSET (V \cap W)
        BY <2>1, <3>1, <1>2
      <4> HIDE DEF V, W
      <4> QED BY <4>1, <2>2, <3>2, TablesAgree
    <3> QED BY <2>3, <2>4, <2>6, <3>3
  <2> QED BY <2>5, <2>6
<1>5. ASSUME NEW U \in SUBSET T
      PROVE  g[U] = IF U = {} THEN 0 ELSE f[Pick(U)] + g[U \ {Pick(U)}]
  BY <1>4
<1>6. g = [U \in SUBSET T |-> g[U]]
  OBVIOUS
<1> HIDE DEF g
<1>7. g = [U \in SUBSET T |-> IF U = {} THEN 0 ELSE f[Pick(U)] + g[U \ {Pick(U)}]]
  BY <1>5, <1>6
<1>8. IsTable(g, f, T)
  BY <1>7 DEF IsTable
<1>9. IsTable(Table(f, T), f, T)
  BY <1>8 DEF Table
<1> QED BY <1>2, <1>9

(* The sum over the empty set, and one step of the recursion. *)
LEMMA SumEmpty == ASSUME NEW f PROVE SumFunctionOnSet(f, {}) = 0
<1>1. IsTable(Table(f, {}), f, {})
  BY TableExists, FS_EmptySet
<1> QED BY <1>1, Unfolded DEF IsTable

LEMMA SumPick ==
    ASSUME NEW f, NEW S, IsFiniteSet(S), S # {}
    PROVE  SumFunctionOnSet(f, S) = f[Pick(S)] + SumFunctionOnSet(f, S \ {Pick(S)})
<1> DEFINE R == S \ {Pick(S)}
<1>1. IsTable(Table(f, S), f, S) /\ IsTable(Table(f, R), f, R)
  BY TableExists
<1>2. Table(f, S)[S] = f[Pick(S)] + Table(f, S)[R]
  BY <1>1 DEF IsTable
<1>3. R \in SUBSET S /\ S \in SUBSET S /\ R \in SUBSET (S \cap R)
  OBVIOUS
<1> HIDE DEF R
<1>4. Table(f, S)[R] = Table(f, R)[R]
  BY <1>1, <1>3, TablesAgree
<1> QED BY <1>2, <1>4, Unfolded DEF R

(* The sum of integers is an integer, of naturals a natural. *)
LEMMA SumType ==
    ASSUME NEW f, NEW S, IsFiniteSet(S), NEW N \in {Nat, Int}, \A x \in S : f[x] \in N
    PROVE  SumFunctionOnSet(f, S) \in N
<1> DEFINE Bad == {T \in SUBSET S : SumFunctionOnSet(f, T) \notin N}
<1>1. SUFFICES ASSUME Bad # {} PROVE FALSE
  OBVIOUS
<1>2. PICK T \in Bad : \A U \in Bad : U \subseteq T => U = T
  <2>1. Bad \subseteq SUBSET S
    OBVIOUS
  <2> HIDE DEF Bad
  <2> QED BY <1>1, <2>1, LeastSet
<1>3. CASE T = {}
  BY <1>2, <1>3, SumEmpty
<1>4. CASE T # {}
  <2>1. Pick(T) \in T /\ T \in SUBSET S /\ IsFiniteSet(T)
    BY <1>2, <1>4, PickIsMember, FS_Subset
  <2>2. SumFunctionOnSet(f, T \ {Pick(T)}) \in N
    BY <1>2, <2>1
  <2>3. f[Pick(T)] \in N
    BY <2>1
  <2>4. SumFunctionOnSet(f, T) = f[Pick(T)] + SumFunctionOnSet(f, T \ {Pick(T)})
    BY <1>4, <2>1, SumPick
  <2>5. SumFunctionOnSet(f, T) \in N
    BY <2>2, <2>3, <2>4
  <2> QED BY <1>2, <2>5
<1> QED BY <1>3, <1>4

(* Any element can be taken out first: the order does not matter.            *)
LEMMA SumSplit ==
    ASSUME NEW f, NEW S, IsFiniteSet(S), \A x \in S : f[x] \in Int, NEW y \in S
    PROVE  SumFunctionOnSet(f, S) = f[y] + SumFunctionOnSet(f, S \ {y})
<1> DEFINE Splits(T) == \A x \in T : SumFunctionOnSet(f, T)
                                        = f[x] + SumFunctionOnSet(f, T \ {x})
           Bad == {T \in SUBSET S : ~Splits(T)}
<1>1. SUFFICES ASSUME Bad # {} PROVE FALSE
  OBVIOUS
<1>2. PICK T \in Bad : \A U \in Bad : U \subseteq T => U = T
  <2>1. Bad \subseteq SUBSET S
    OBVIOUS
  <2> HIDE DEF Bad
  <2> QED BY <1>1, <2>1, LeastSet
<1>3. ASSUME NEW x \in T
      PROVE  SumFunctionOnSet(f, T) = f[x] + SumFunctionOnSet(f, T \ {x})
  <2> DEFINE p == Pick(T)
             R == T \ {p}
  <2>1. p \in T /\ T \in SUBSET S /\ IsFiniteSet(T)
    BY <1>2, <1>3, PickIsMember, FS_Subset
  <2>2. SumFunctionOnSet(f, T) = f[p] + SumFunctionOnSet(f, R)
    BY <1>3, <2>1, SumPick
  <2>3. CASE x = p
    BY <2>2, <2>3
  <2>4. CASE x # p
    <3>1. Splits(R) /\ Splits(T \ {x})
      BY <1>2, <1>3, <2>1
    <3>2. SumFunctionOnSet(f, R) = f[x] + SumFunctionOnSet(f, R \ {x})
      BY <1>3, <2>4, <3>1
    <3>3. SumFunctionOnSet(f, T \ {x}) = f[p] + SumFunctionOnSet(f, (T \ {x}) \ {p})
      BY <2>1, <2>4, <3>1
    <3> DEFINE Q == R \ {x}
    <3>4. SumFunctionOnSet(f, T \ {x}) = f[p] + SumFunctionOnSet(f, Q)
      <4>1. Q = (T \ {x}) \ {p}
        OBVIOUS
      <4> QED BY <3>3, <4>1
    <3>5. f[x] \in Int /\ f[p] \in Int /\ SumFunctionOnSet(f, Q) \in Int
      <4>1. Q \in SUBSET T /\ \A z \in T : f[z] \in Int
        BY <2>1
      <4> HIDE DEF Q
      <4>2. IsFiniteSet(Q) /\ \A z \in Q : f[z] \in Int
        BY <2>1, <4>1, FS_Subset
      <4> QED BY <1>3, <2>1, <4>1, <4>2, SumType
    <3> HIDE DEF p, R, Q
    <3> QED BY <2>2, <3>2, <3>4, <3>5 DEF Q
  <2> QED BY <2>3, <2>4
<1> QED BY <1>2, <1>3

LEMMA SumAdd ==
    ASSUME NEW f, NEW S, IsFiniteSet(S), NEW y, y \notin S,
           \A x \in S \cup {y} : f[x] \in Int
    PROVE  SumFunctionOnSet(f, S \cup {y}) = f[y] + SumFunctionOnSet(f, S)
<1>1. IsFiniteSet(S \cup {y}) /\ y \in S \cup {y} /\ (S \cup {y}) \ {y} = S
  BY FS_AddElement
<1> QED BY <1>1, SumSplit

(* Functions that agree on a set have the same sum over it. *)
LEMMA SumSame ==
    ASSUME NEW f, NEW g, NEW S, IsFiniteSet(S), \A x \in S : f[x] = g[x]
    PROVE  SumFunctionOnSet(f, S) = SumFunctionOnSet(g, S)
<1> DEFINE Bad == {T \in SUBSET S : SumFunctionOnSet(f, T) # SumFunctionOnSet(g, T)}
<1>1. SUFFICES ASSUME Bad # {} PROVE FALSE
  OBVIOUS
<1>2. PICK T \in Bad : \A U \in Bad : U \subseteq T => U = T
  <2>1. Bad \subseteq SUBSET S
    OBVIOUS
  <2> HIDE DEF Bad
  <2> QED BY <1>1, <2>1, LeastSet
<1>3. CASE T = {}
  BY <1>2, <1>3, SumEmpty
<1>4. CASE T # {}
  <2>1. Pick(T) \in T /\ T \in SUBSET S /\ IsFiniteSet(T)
    BY <1>2, <1>4, PickIsMember, FS_Subset
  <2>2. SumFunctionOnSet(f, T \ {Pick(T)}) = SumFunctionOnSet(g, T \ {Pick(T)})
    BY <1>2, <2>1
  <2>3. SumFunctionOnSet(f, T) = SumFunctionOnSet(g, T)
    BY <1>4, <2>1, <2>2, SumPick
  <2> QED BY <1>2, <2>3
<1> QED BY <1>3, <1>4

(* A function changed at one element changes the sum by as much. *)
LEMMA SumChange ==
    ASSUME NEW f, NEW g, NEW S, IsFiniteSet(S), NEW y \in S,
           \A x \in S : f[x] \in Int /\ g[x] \in Int,
           \A x \in S \ {y} : g[x] = f[x]
    PROVE  SumFunctionOnSet(g, S) = SumFunctionOnSet(f, S) - f[y] + g[y]
<1> DEFINE R == S \ {y}
<1>1. IsFiniteSet(R)
  BY FS_RemoveElement
<1>2. SumFunctionOnSet(g, R) = SumFunctionOnSet(f, R)
  BY <1>1, SumSame
<1>3. /\ SumFunctionOnSet(f, S) = f[y] + SumFunctionOnSet(f, R)
      /\ SumFunctionOnSet(g, S) = g[y] + SumFunctionOnSet(g, R)
  BY SumSplit
<1>4. SumFunctionOnSet(f, R) \in Int
  BY <1>1, SumType
<1> QED BY <1>2, <1>3, <1>4
=============================================================================
