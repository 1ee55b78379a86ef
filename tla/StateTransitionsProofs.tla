------------------------ MODULE StateTransitionsProofs ------------------------
(***************************************************************************)
(* Proofs about StateTransitions, for any asset locks, fees, keys and      *)
(* lengths of chain.  The invariant says of the stores and of the open     *)
(* transaction alike that balances cover their fees and that keys and      *)
(* identities agree, and that the transaction extends the stores.          *)
(***************************************************************************)
EXTENDS StateTransitions, FiniteSetTheorems, WellFoundedInduction, TLAPS

-----------------------------------------------------------------------------
(* Sums over finite sets, by induction over the subsets of one *)

\* Induction over the subsets of a finite set, with a set of sets for the property.
LEMMA SubsetInduction ==
  ASSUME NEW S, IsFiniteSet(S), NEW G \in SUBSET SUBSET S, {} \in G,
         \A T \in SUBSET S : T # {} /\ (\A x \in T : T \ {x} \in G) => T \in G
  PROVE  G = SUBSET S
<1> SUFFICES ASSUME G # SUBSET S PROVE FALSE
  OBVIOUS
<1> DEFINE B == (SUBSET S) \ G
<1>1. IsWellFoundedOn(StrictSubsetOrdering(S), FiniteSubsetsOf(S))
  BY FS_StrictSubsetOrderingWellFounded
<1>2. B \subseteq FiniteSubsetsOf(S) /\ B # {}
  BY FS_FiniteSubsetsOfFinite
<1>3. PICK T \in B : \A U \in B : ~(<<U, T>> \in StrictSubsetOrdering(S))
  <2> HIDE DEF B
  <2> QED BY <1>1, <1>2, WFMin
<1>4. ASSUME NEW x \in T PROVE T \ {x} \in G
  <2>1. T \ {x} \in SUBSET S /\ T \ {x} \subseteq T /\ T \ {x} # T /\ T \in SUBSET S
    BY <1>3
  <2>2. <<T \ {x}, T>> \in StrictSubsetOrdering(S)
    BY <2>1 DEF StrictSubsetOrdering
  <2> QED BY <1>3, <2>1, <2>2
<1>5. T \in SUBSET S /\ T \notin G /\ T # {}
  BY <1>3
<1> QED BY <1>4, <1>5

\* The element a sum begins with, and what it is to be one.
First(s) == CHOOSE x \in s : TRUE
Sums(f, g, S) == \A s \in SUBSET S :
                   g[s] = IF s = {} THEN 0 ELSE f[First(s)] + g[s \ {First(s)}]

LEMMA FirstIn == ASSUME NEW s, s # {} PROVE First(s) \in s
BY DEF First

\* Two functions that sum up agree where both do.
LEMMA SumsUnique ==
  ASSUME NEW S, IsFiniteSet(S), NEW f, NEW T \in SUBSET S, NEW U \in SUBSET S,
         NEW g, NEW h, Sums(f, g, T), Sums(f, h, U), NEW s \in SUBSET S, s \subseteq T, s \subseteq U
  PROVE  g[s] = h[s]
<1> DEFINE G == {r \in SUBSET S : r \subseteq T /\ r \subseteq U => g[r] = h[r]}
<1>1. G \in SUBSET SUBSET S
  OBVIOUS
<1>2. {} \in G
  <2>1. g[{}] = 0 /\ h[{}] = 0
    BY DEF Sums
  <2> QED BY <2>1
<1>3. ASSUME NEW r \in SUBSET S, r # {}, \A x \in r : r \ {x} \in G
      PROVE  r \in G
  <2> SUFFICES ASSUME r \subseteq T, r \subseteq U PROVE g[r] = h[r]
    OBVIOUS
  <2> DEFINE x == First(r)
  <2>1. x \in r
    BY <1>3, FirstIn
  <2>2. g[r \ {x}] = h[r \ {x}]
    BY <1>3, <2>1
  <2>3. g[r] = f[x] + g[r \ {x}] /\ h[r] = f[x] + h[r \ {x}]
    BY <1>3 DEF Sums
  <2> QED BY <2>2, <2>3
<1>4. G = SUBSET S
  <2>1. \A r \in SUBSET S : r # {} /\ (\A x \in r : r \ {x} \in G) => r \in G
    BY <1>3
  <2> HIDE DEF G
  <2> QED BY <1>1, <1>2, <2>1, SubsetInduction
<1> QED BY <1>4

\* There is one for every finite set of integers.
LEMMA SumsExist ==
  ASSUME NEW S, IsFiniteSet(S), NEW f, \A x \in S : f[x] \in Int
  PROVE  \E g \in [SUBSET S -> Int] : Sums(f, g, S)
<1> DEFINE E == {T \in SUBSET S : \E g \in [SUBSET T -> Int] : Sums(f, g, T)}
           G(s) == CHOOSE g : g \in [SUBSET s -> Int] /\ Sums(f, g, s)
           F == [s \in SUBSET S |-> G(s)[s]]
<1>7. ASSUME NEW s \in SUBSET S, NEW r \in SUBSET s, NEW p, NEW q, Sums(f, p, r), Sums(f, q, s)
      PROVE  p[r] = q[r]
  <2>1. r \in SUBSET S /\ r \subseteq r
    OBVIOUS
  <2> QED BY <1>7, <2>1, SumsUnique
<1>1. E \in SUBSET SUBSET S
  OBVIOUS
<1>2. {} \in E
  <2> DEFINE z == [s \in {{}} |-> 0]
  <2>1. z \in [SUBSET {} -> Int] /\ z[{}] = 0
    OBVIOUS
  <2>2. Sums(f, z, {})
    BY <2>1 DEF Sums
  <2> QED BY <2>1, <2>2
<1>3. \A T \in E : G(T) \in [SUBSET T -> Int] /\ Sums(f, G(T), T)
  OBVIOUS
<1>4. ASSUME NEW T \in E, NEW U \in SUBSET T PROVE U \in E
  <2> DEFINE g == [s \in SUBSET U |-> G(T)[s]]
  <2>1. SUBSET U \subseteq SUBSET T
    OBVIOUS
  <2>2. g \in [SUBSET U -> Int]
    BY <1>3, <2>1
  <2>3. Sums(f, g, U)
    <3> SUFFICES ASSUME NEW s \in SUBSET U
                 PROVE  g[s] = IF s = {} THEN 0 ELSE f[First(s)] + g[s \ {First(s)}]
      BY DEF Sums
    <3>1. s \in SUBSET T /\ s \ {First(s)} \in SUBSET U
      OBVIOUS
    <3>2. G(T)[s] = IF s = {} THEN 0 ELSE f[First(s)] + G(T)[s \ {First(s)}]
      BY <1>3, <3>1 DEF Sums
    <3> QED BY <3>1, <3>2
  <2> QED BY <2>2, <2>3
<1>5. ASSUME NEW T \in SUBSET S, T # {}, \A x \in T : T \ {x} \in E
      PROVE  T \in E
  <2> DEFINE c == First(T)
             g == [s \in SUBSET T |-> IF s = T THEN f[c] + F[T \ {c}] ELSE F[s]]
  <2>1. c \in T /\ c \in S /\ T \ {c} \in E
    BY <1>5, FirstIn
  <2>2. ASSUME NEW s \in SUBSET T, s # T
        PROVE  s \in E
    <3>1. PICK x \in T : x \notin s
      BY <2>2
    <3>2. T \ {x} \in E /\ s \in SUBSET (T \ {x})
      BY <1>5, <2>2, <3>1
    <3> QED BY <1>4, <3>2
  <2>3. ASSUME NEW s \in E
        PROVE  F[s] \in Int /\ F[s] = G(s)[s]
    <3>1. s \in SUBSET S /\ s \in SUBSET s
      OBVIOUS
    <3> QED BY <1>3, <3>1
  <2>4. g \in [SUBSET T -> Int]
    <3>1. f[c] \in Int /\ F[T \ {c}] \in Int
      BY <2>1, <2>3
    <3>2. \A s \in SUBSET T : s # T => F[s] \in Int
      BY <2>2, <2>3
    <3> HIDE DEF F, c
    <3> QED BY <3>1, <3>2
  <2>5. Sums(f, g, T)
    <3> SUFFICES ASSUME NEW s \in SUBSET T
                 PROVE  g[s] = IF s = {} THEN 0 ELSE f[First(s)] + g[s \ {First(s)}]
      BY DEF Sums
    <3>1. CASE s = {}
      <4>1. s # T /\ s \in E
        BY <1>2, <1>5, <3>1
      <4>2. g[s] = F[s] /\ F[s] = G(s)[s]
        BY <2>3, <4>1
      <4>3. Sums(f, G(s), s)
        BY <1>3, <4>1
      <4>4. G(s)[s] = 0
        BY <3>1, <4>3 DEF Sums
      <4> QED BY <3>1, <4>2, <4>4
    <3>2. CASE s = T
      <4>1. T \ {c} # T /\ T \ {c} \in SUBSET T
        BY <2>1
      <4>2. g[T] = f[c] + F[T \ {c}] /\ g[T \ {c}] = F[T \ {c}]
        BY <4>1
      <4> QED BY <1>5, <3>2, <4>2
    <3>3. CASE s # {} /\ s # T
      <4> DEFINE d == First(s)
                 r == s \ {d}
      <4>1. d \in s
        BY <3>3, FirstIn
      <4>2. s \in E /\ r \in E /\ r \in SUBSET T /\ r # T /\ r \in SUBSET s /\ s \in SUBSET S
        BY <2>2, <3>3, <4>1
      <4>3. Sums(f, G(s), s) /\ Sums(f, G(r), r)
        BY <1>3, <4>2
      <4> HIDE DEF G
      <4>4. G(r)[r] = G(s)[r]
        <5> HIDE DEF r, d, E
        <5>1. s \in SUBSET S /\ r \in SUBSET s
          BY <4>2
        <5>2. \A p, q : Sums(f, p, r) /\ Sums(f, q, s) => p[r] = q[r]
          BY <5>1, <1>7
        <5>3. Sums(f, G(r), r) /\ Sums(f, G(s), s)
          BY <4>3
        <5> QED BY <5>2, <5>3, Zenon
      <4>5. G(s)[s] = f[d] + G(s)[r]
        BY <3>3, <4>3 DEF Sums
      <4>6. F[s] = G(s)[s] /\ F[r] = G(r)[r]
        BY <4>2
      <4>7. g[s] = F[s] /\ g[r] = F[r]
        BY <3>3, <4>2
      <4> QED BY <3>3, <4>4, <4>5, <4>6, <4>7
    <3> QED BY <3>1, <3>2, <3>3
  <2> HIDE DEF g
  <2> QED BY <2>4, <2>5
<1>6. E = SUBSET S
  <2> HIDE DEF E
  <2> QED BY <1>1, <1>2, <1>5, SubsetInduction
<1> QED BY <1>6

\* The sum of a function over a set, as the community modules define it.
Sum(f, S) == MapThenSumSet(LAMBDA x : f[x], S)

LEMMA SumIs ==
  ASSUME NEW S, IsFiniteSet(S), NEW f, \A x \in S : f[x] \in Int
  PROVE  \E g \in [SUBSET S -> Int] : Sums(f, g, S) /\ Sum(f, S) = g[S]
<1> DEFINE Body(g) == [s \in SUBSET S |-> IF s = {} THEN 0 ELSE f[First(s)] + g[s \ {First(s)}]]
<1>1. PICK g \in [SUBSET S -> Int] : Sums(f, g, S)
  BY SumsExist
<1>2. g = Body(g)
  BY <1>1 DEF Sums
<1> DEFINE h == CHOOSE h : h = Body(h)
<1>3. h = Body(h)
  BY <1>2
<1>4. Sum(f, S) = h[S]
  BY DEF Sum, MapThenSumSet, MapThenFoldSet, First
<1>5. Sums(f, h, S)
  <2> SUFFICES ASSUME NEW s \in SUBSET S
               PROVE  h[s] = IF s = {} THEN 0 ELSE f[First(s)] + h[s \ {First(s)}]
    BY DEF Sums
  <2> HIDE DEF h
  <2>1. h[s] = Body(h)[s]
    BY <1>3
  <2> QED BY <2>1
<1> HIDE DEF h
<1>6. S \in SUBSET S /\ S \subseteq S
  OBVIOUS
<1>7. h[S] = g[S]
  BY <1>1, <1>5, <1>6, SumsUnique
<1> QED BY <1>1, <1>4, <1>7

\* A sum begins with some element.
LEMMA SumFirst ==
  ASSUME NEW S, IsFiniteSet(S), NEW f, \A x \in S : f[x] \in Int
  PROVE  /\ Sum(f, S) \in Int
         /\ S = {} => Sum(f, S) = 0
         /\ S # {} => Sum(f, S) = f[First(S)] + Sum(f, S \ {First(S)})
<1>1. PICK g \in [SUBSET S -> Int] : Sums(f, g, S) /\ Sum(f, S) = g[S]
  BY SumIs
<1>2. S \in SUBSET S
  OBVIOUS
<1>3. Sum(f, S) \in Int
  BY <1>1, <1>2
<1>4. S = {} => Sum(f, S) = 0
  BY <1>1, <1>2 DEF Sums
<1>5. ASSUME S # {} PROVE Sum(f, S) = f[First(S)] + Sum(f, S \ {First(S)})
  <2> DEFINE r == S \ {First(S)}
  <2>1. IsFiniteSet(r) /\ r \in SUBSET S /\ \A x \in r : f[x] \in Int
    BY FS_Subset
  <2>2. PICK h \in [SUBSET r -> Int] : Sums(f, h, r) /\ Sum(f, r) = h[r]
    BY <2>1, SumIs
  <2>3. h[r] = g[r]
    <3> HIDE DEF r
    <3> QED BY <1>1, <1>2, <2>1, <2>2, SumsUnique
  <2>4. g[S] = f[First(S)] + g[r]
    BY <1>1, <1>2, <1>5 DEF Sums
  <2> QED BY <1>1, <2>2, <2>3, <2>4
<1> QED BY <1>3, <1>4, <1>5

\* Any element can be taken out of a sum.
LEMMA SumOut ==
  ASSUME NEW S, IsFiniteSet(S), NEW f, \A x \in S : f[x] \in Int, NEW x \in S
  PROVE  Sum(f, S) = f[x] + Sum(f, S \ {x})
<1> DEFINE G == {T \in SUBSET S : \A y \in T : Sum(f, T) = f[y] + Sum(f, T \ {y})}
<1>1. \A T \in SUBSET S : IsFiniteSet(T) /\ \A y \in T : f[y] \in Int
  BY FS_Subset
<1>2. G \in SUBSET SUBSET S /\ {} \in G
  OBVIOUS
<1>3. ASSUME NEW T \in SUBSET S, T # {}, \A y \in T : T \ {y} \in G
      PROVE  T \in G
  <2> SUFFICES ASSUME NEW y \in T PROVE Sum(f, T) = f[y] + Sum(f, T \ {y})
    OBVIOUS
  <2> DEFINE c == First(T)
  <2>1. c \in T /\ f[c] \in Int /\ f[y] \in Int
    BY <1>1, <1>3, FirstIn
  <2>2. Sum(f, T) = f[c] + Sum(f, T \ {c})
    BY <1>1, <1>3, SumFirst
  <2>3. CASE y = c
    BY <2>2, <2>3
  <2>4. CASE y # c
    <3> HIDE DEF c
    <3> DEFINE r == (T \ {c}) \ {y}
    <3>1. (T \ {y}) \ {c} = r /\ r \in SUBSET S
      OBVIOUS
    <3>2. Sum(f, r) \in Int
      BY <1>1, <3>1, SumFirst
    <3>3. T \ {c} \in G /\ T \ {y} \in G /\ y \in T \ {c} /\ c \in T \ {y}
      BY <1>3, <2>1, <2>4
    <3>4. Sum(f, T \ {c}) = f[y] + Sum(f, r)
      BY <3>3
    <3>5. Sum(f, T \ {y}) = f[c] + Sum(f, r)
      BY <3>1, <3>3
    <3> QED BY <2>1, <2>2, <3>2, <3>4, <3>5
  <2> QED BY <2>3, <2>4
<1>4. G = SUBSET S
  <2>1. \A T \in SUBSET S : T # {} /\ (\A y \in T : T \ {y} \in G) => T \in G
    BY <1>3
  <2> HIDE DEF G
  <2> QED BY <1>2, <2>1, SubsetInduction
<1>5. S \in G
  BY <1>4
<1> QED BY <1>5

\* A sum depends on the function's values on the set only.
LEMMA SumSame ==
  ASSUME NEW S, IsFiniteSet(S), NEW f, NEW h, \A x \in S : f[x] \in Int /\ h[x] = f[x]
  PROVE  Sum(h, S) = Sum(f, S)
<1> DEFINE G == {T \in SUBSET S : Sum(h, T) = Sum(f, T)}
<1>1. \A T \in SUBSET S : IsFiniteSet(T) /\ \A y \in T : f[y] \in Int /\ h[y] \in Int
  BY FS_Subset
<1>2. G \in SUBSET SUBSET S
  OBVIOUS
<1>3. {} \in G
  BY <1>1, SumFirst
<1>4. ASSUME NEW T \in SUBSET S, T # {}, \A y \in T : T \ {y} \in G
      PROVE  T \in G
  <2> DEFINE c == First(T)
  <2>1. c \in T /\ h[c] = f[c]
    BY <1>4, FirstIn
  <2>2. Sum(h, T \ {c}) = Sum(f, T \ {c})
    BY <1>4, <2>1
  <2>3. Sum(f, T) = f[c] + Sum(f, T \ {c})
    BY <1>1, <1>4, SumFirst
  <2>4. Sum(h, T) = h[c] + Sum(h, T \ {c})
    BY <1>1, <1>4, SumFirst
  <2> QED BY <2>1, <2>2, <2>3, <2>4
<1>5. G = SUBSET S
  <2>1. \A T \in SUBSET S : T # {} /\ (\A y \in T : T \ {y} \in G) => T \in G
    BY <1>4
  <2> HIDE DEF G
  <2> QED BY <1>2, <1>3, <2>1, SubsetInduction
<1>6. S \in G
  BY <1>5
<1> QED BY <1>6

\* The sum over one element more.
LEMMA SumWith ==
  ASSUME NEW S, IsFiniteSet(S), NEW f, \A y \in S : f[y] \in Int, NEW x, x \notin S, f[x] \in Int
  PROVE  Sum(f, S \cup {x}) = Sum(f, S) + f[x]
<1>1. IsFiniteSet(S \cup {x})
  BY FS_AddElement
<1>2. x \in S \cup {x} /\ (S \cup {x}) \ {x} = S /\ \A y \in S \cup {x} : f[y] \in Int
  OBVIOUS
<1>3. Sum(f, S \cup {x}) = f[x] + Sum(f, (S \cup {x}) \ {x})
  BY <1>1, <1>2, SumOut
<1>4. Sum(f, S \cup {x}) = f[x] + Sum(f, S)
  BY <1>2, <1>3
<1>5. Sum(f, S) \in Int
  BY SumFirst
<1> QED BY <1>4, <1>5

\* What a change at one point does to a sum.
LEMMA SumChanged ==
  ASSUME NEW S, IsFiniteSet(S), NEW f, \A y \in S : f[y] \in Int, NEW x \in S,
         NEW h, h[x] \in Int, \A y \in S : y # x => h[y] = f[y]
  PROVE  Sum(h, S) = Sum(f, S) + (h[x] - f[x])
<1> DEFINE r == S \ {x}
<1>1. IsFiniteSet(r) /\ \A y \in r : f[y] \in Int /\ h[y] = f[y]
  BY FS_Subset
<1>2. \A y \in S : h[y] \in Int
  OBVIOUS
<1>3. Sum(f, S) = f[x] + Sum(f, r) /\ Sum(h, S) = h[x] + Sum(h, r)
  BY <1>2, SumOut
<1>4. Sum(h, r) = Sum(f, r) /\ Sum(f, r) \in Int
  <2> HIDE DEF r
  <2> QED BY <1>1, SumSame, SumFirst
<1> QED BY <1>3, <1>4

-----------------------------------------------------------------------------
(* The invariant *)

Solvent(t) == \A i \in Outpoints : t.balance[i] >= 0

\* The open transaction only adds to what was taken.
Extends ==
  /\ state.spent \subseteq tx.spent /\ state.contracts \subseteq tx.contracts
  /\ \A k \in Keys : state.keyOwner[k] # None => tx.keyOwner[k] = state.keyOwner[k]

IInv ==
  /\ TypeOK
  /\ Solvent(state) /\ Solvent(tx)
  /\ Agree(state) /\ Agree(tx)
  /\ Extends /\ CreatedAreNew

USE TransitionsAssumption

-----------------------------------------------------------------------------
(* Lemmas about a transition *)

\* The fields of a state.
LEMMA StateFields ==
  ASSUME NEW t \in States
  PROVE  /\ t.identities \subseteq Outpoints /\ t.spent \subseteq Outpoints
         /\ t.contracts \subseteq Outpoints /\ t.pool \in Nat
         /\ t.balance \in [Outpoints -> Int] /\ t.keys \in [Outpoints -> SUBSET Keys]
         /\ t.keyOwner \in [Keys -> Outpoints \cup {None}]
BY DEF States

\* What Charge does, field by field.
LEMMA Charged ==
  ASSUME NEW t \in States, NEW i \in Outpoints, NEW fee \in Fees, Charge(t, i, fee)
  PROVE  /\ tx' \in States
         /\ tx'.balance = [t.balance EXCEPT ![i] = @ - fee]
         /\ tx'.identities = t.identities /\ tx'.keys = t.keys /\ tx'.keyOwner = t.keyOwner
         /\ tx'.spent = t.spent /\ tx'.contracts = t.contracts
         /\ fees' = fees + fee
BY DEF Charge, States

\* A charge that is covered leaves no debt.
LEMMA CoveredCharge ==
  ASSUME NEW t \in States, NEW i \in Outpoints, NEW fee \in Fees, Charge(t, i, fee),
         Solvent(t), t.balance[i] >= fee
  PROVE  Solvent(tx')
<1> SUFFICES ASSUME NEW j \in Outpoints PROVE tx'.balance[j] >= 0
  BY DEF Solvent
<1>1. t.balance \in [Outpoints -> Int] /\ t.balance[j] >= 0 /\ fee \in Nat
  BY StateFields DEF Solvent
<1>2. tx'.balance = [t.balance EXCEPT ![i] = @ - fee]
  BY Charged
<1> QED BY <1>1, <1>2

LEMMA RangeAppend ==
  ASSUME NEW S, NEW s \in Seq(S), NEW e \in S
  PROVE  Range(Append(s, e)) = Range(s) \cup {e}
<1>1. DOMAIN Append(s, e) = 1 .. Len(s) + 1 /\ DOMAIN s = 1 .. Len(s) /\ Len(s) \in Nat
  OBVIOUS
<1>2. Append(s, e)[Len(s) + 1] = e /\ \A n \in 1 .. Len(s) : Append(s, e)[n] = s[n]
  OBVIOUS
<1> QED BY <1>1, <1>2 DEF Range

LEMMA RangeEmpty == Range(<< >>) = {}
BY DEF Range

-----------------------------------------------------------------------------
(* What the apply functions leave, field by field *)

LEMMA IdentityFields ==
  ASSUME NEW t \in States, NEW o \in Outpoints, NEW ks \in SUBSET Keys
  PROVE  LET u == WithIdentity(t, o, ks)
         IN  /\ u \in States
             /\ u.identities = t.identities \cup {o} /\ u.spent = t.spent \cup {o}
             /\ u.balance = [t.balance EXCEPT ![o] = Credits[o]]
             /\ u.keys = [t.keys EXCEPT ![o] = ks]
             /\ u.keyOwner = [k \in Keys |-> IF k \in ks THEN o ELSE t.keyOwner[k]]
             /\ u.contracts = t.contracts
<1> DEFINE u == WithIdentity(t, o, ks)
<1>1. /\ u.identities = t.identities \cup {o} /\ u.spent = t.spent \cup {o}
      /\ u.contracts = t.contracts /\ u.pool = t.pool
  BY DEF States, WithIdentity
<1>2. u.balance = [t.balance EXCEPT ![o] = Credits[o]] /\ u.keys = [t.keys EXCEPT ![o] = ks]
  BY DEF States, WithIdentity
<1>3. u.keyOwner = [k \in Keys |-> IF k \in ks THEN o ELSE t.keyOwner[k]]
  BY DEF States, WithIdentity
<1>5. u.balance \in [Outpoints -> Int] /\ u.keys \in [Outpoints -> SUBSET Keys]
  BY <1>2, StateFields
<1>6. u.keyOwner \in [Keys -> Outpoints \cup {None}]
  BY <1>3, StateFields
<1>7. u.identities \subseteq Outpoints /\ u.spent \subseteq Outpoints
      /\ u.contracts \subseteq Outpoints /\ u.pool \in Nat
  BY <1>1, StateFields
<1>8. u \in States
  BY <1>5, <1>6, <1>7 DEF States, WithIdentity
<1> QED BY <1>1, <1>2, <1>3, <1>8

LEMMA CreditsFields ==
  ASSUME NEW t \in States, NEW i \in Outpoints, NEW o \in Outpoints
  PROVE  LET u == WithCredits(t, i, o)
         IN  /\ u \in States
             /\ u.spent = t.spent \cup {o}
             /\ u.balance = [t.balance EXCEPT ![i] = @ + Credits[o]]
             /\ u.identities = t.identities /\ u.keys = t.keys
             /\ u.keyOwner = t.keyOwner /\ u.contracts = t.contracts
<1> DEFINE u == WithCredits(t, i, o)
<1>1. /\ u.identities = t.identities /\ u.keys = t.keys /\ u.keyOwner = t.keyOwner
      /\ u.contracts = t.contracts /\ u.pool = t.pool /\ u.spent = t.spent \cup {o}
  BY DEF States, WithCredits
<1>2. u.balance = [t.balance EXCEPT ![i] = @ + Credits[o]]
  BY DEF States, WithCredits
<1>3. u.balance \in [Outpoints -> Int]
  BY <1>2, StateFields
<1>4. u \in States
  BY <1>3 DEF States, WithCredits
<1> QED BY <1>1, <1>2, <1>4

LEMMA ContractFields ==
  ASSUME NEW t \in States, NEW i \in Outpoints
  PROVE  LET u == WithContract(t, i)
         IN  /\ u \in States
             /\ u.contracts = t.contracts \cup {i}
             /\ u.balance = t.balance /\ u.spent = t.spent
             /\ u.identities = t.identities /\ u.keys = t.keys /\ u.keyOwner = t.keyOwner
BY DEF States, WithContract

-----------------------------------------------------------------------------
(* One lemma per transition *)

LEMMA IdentityCreateStep ==
  ASSUME IInv, NEW o \in Outpoints, NEW ks \in SUBSET Keys, NEW fee \in Fees,
         IdentityCreate(o, ks, fee)
  PROVE  IInv'
<1> DEFINE u == WithIdentity(tx, o, ks)
<1>1. /\ Charge(u, o, fee) /\ o \notin tx.identities /\ Credits[o] >= fee /\ KeysFree(tx, ks)
      /\ UNCHANGED <<phase, height, state, pool, created, saved, discarded>>
  BY DEF IdentityCreate
<1>2. tx \in States /\ state \in States /\ fees \in Nat /\ fee \in Nat /\ Credits[o] \in Nat
  BY DEF IInv, TypeOK
<1>3. /\ u \in States
      /\ u.identities = tx.identities \cup {o} /\ u.spent = tx.spent \cup {o}
      /\ u.balance = [tx.balance EXCEPT ![o] = Credits[o]]
      /\ u.keys = [tx.keys EXCEPT ![o] = ks]
      /\ u.keyOwner = [k \in Keys |-> IF k \in ks THEN o ELSE tx.keyOwner[k]]
      /\ u.contracts = tx.contracts
  BY <1>2, IdentityFields
<1> HIDE DEF u
<1>4. /\ tx' \in States /\ fees' = fees + fee
      /\ tx'.identities = u.identities /\ tx'.keys = u.keys /\ tx'.keyOwner = u.keyOwner
      /\ tx'.spent = u.spent /\ tx'.contracts = u.contracts
  BY <1>1, <1>3, Charged
<1>5. TypeOK'
  BY <1>1, <1>2, <1>4 DEF IInv, TypeOK
<1>6. Solvent(tx')
  <2>1. Solvent(u)
    BY <1>2, <1>3, StateFields DEF IInv, Solvent
  <2>2. u.balance[o] >= fee
    BY <1>1, <1>2, <1>3, StateFields
  <2> QED BY <1>1, <1>3, <2>1, <2>2, CoveredCharge
<1>7. Agree(tx')
  <2> SUFFICES ASSUME NEW k \in Keys, NEW i \in Outpoints
               PROVE  u.keyOwner[k] = i <=> i \in u.identities /\ k \in u.keys[i]
    BY <1>4 DEF Agree
  <2>1. tx.keyOwner[k] = i <=> i \in tx.identities /\ k \in tx.keys[i]
    BY DEF IInv, Agree
  <2>2. tx.keyOwner[k] = o <=> o \in tx.identities /\ k \in tx.keys[o]
    BY DEF IInv, Agree
  <2>3. k \in ks => tx.keyOwner[k] = None
    BY <1>1 DEF KeysFree
  <2>4. u.keys[i] = IF i = o THEN ks ELSE tx.keys[i]
    BY <1>2, <1>3, StateFields
  <2> QED BY <1>1, <1>3, <2>1, <2>2, <2>3, <2>4
<1>8. Extends'
  <2>1. state'.spent \subseteq tx'.spent /\ state'.contracts \subseteq tx'.contracts
    BY <1>1, <1>3, <1>4 DEF IInv, Extends
  <2>2. ASSUME NEW k \in Keys, state.keyOwner[k] # None
        PROVE  tx'.keyOwner[k] = state.keyOwner[k]
    <3>1. tx.keyOwner[k] = state.keyOwner[k]
      BY <2>2 DEF IInv, Extends
    <3>2. k \notin ks
      BY <1>1, <2>2, <3>1 DEF KeysFree
    <3> QED BY <1>3, <1>4, <3>1, <3>2
  <2> QED BY <1>1, <2>1, <2>2 DEF Extends
<1>9. CreatedAreNew'
  BY <1>1, <1>3, <1>4 DEF IInv, CreatedAreNew
<1> QED BY <1>1, <1>5, <1>6, <1>7, <1>8, <1>9 DEF IInv

\* The steps that touch neither keys nor who owns them.
LEMMA BalanceStep ==
  ASSUME IInv, NEW u \in States, NEW i \in Outpoints, NEW fee \in Fees,
         Charge(u, i, fee), Solvent(u), u.balance[i] >= fee,
         u.identities = tx.identities, u.keys = tx.keys, u.keyOwner = tx.keyOwner,
         tx.spent \subseteq u.spent, tx.contracts \subseteq u.contracts,
         UNCHANGED <<phase, height, state, pool, saved, discarded>>,
         created' \in Seq(Outpoints),
         phase # "idle" => Range(created') = u.contracts \ state.contracts
  PROVE  IInv'
<1>1. /\ tx' \in States /\ fees' = fees + fee
      /\ tx'.identities = u.identities /\ tx'.keys = u.keys /\ tx'.keyOwner = u.keyOwner
      /\ tx'.spent = u.spent /\ tx'.contracts = u.contracts
  BY Charged
<1>2. TypeOK'
  <2>1. fees' \in Nat
    BY <1>1 DEF IInv, TypeOK
  <2> QED BY <1>1, <2>1 DEF IInv, TypeOK
<1>3. Solvent(tx')
  BY CoveredCharge
<1>4. Agree(tx')
  BY <1>1 DEF IInv, Agree
<1>5. Extends'
  BY <1>1 DEF IInv, Extends
<1>6. CreatedAreNew'
  BY <1>1 DEF CreatedAreNew
<1> QED BY <1>2, <1>3, <1>4, <1>5, <1>6 DEF IInv

LEMMA TopUpStep ==
  ASSUME IInv, NEW i \in Outpoints, NEW o \in Outpoints, NEW fee \in Fees,
         IdentityTopUp(i, o, fee)
  PROVE  IInv'
<1> DEFINE u == WithCredits(tx, i, o)
<1>1. /\ Charge(u, i, fee) /\ Covers(tx, i, Credits[o], fee)
      /\ UNCHANGED <<phase, height, state, pool, created, saved, discarded>>
  BY DEF IdentityTopUp
<1>2. tx \in States /\ Credits[o] \in Nat /\ created \in Seq(Outpoints)
  BY DEF IInv, TypeOK
<1>3. /\ u \in States /\ u.spent = tx.spent \cup {o}
      /\ u.balance = [tx.balance EXCEPT ![i] = @ + Credits[o]]
      /\ u.identities = tx.identities /\ u.keys = tx.keys
      /\ u.keyOwner = tx.keyOwner /\ u.contracts = tx.contracts
  BY <1>2, CreditsFields
<1> HIDE DEF u
<1>4. u.balance[i] >= fee
  BY <1>1, <1>2, <1>3, StateFields DEF Covers
<1>5. Solvent(u)
  <2> SUFFICES ASSUME NEW j \in Outpoints PROVE u.balance[j] >= 0
    BY DEF Solvent
  <2>1. tx.balance[j] >= 0 /\ tx.balance \in [Outpoints -> Int]
    BY <1>2, StateFields DEF IInv, Solvent
  <2> QED BY <1>2, <1>3, <2>1
<1>6. phase # "idle" => Range(created') = u.contracts \ state.contracts
  BY <1>1, <1>3 DEF IInv, CreatedAreNew
<1> QED BY <1>1, <1>2, <1>3, <1>4, <1>5, <1>6, BalanceStep

LEMMA ContractStep ==
  ASSUME IInv, NEW i \in Outpoints, NEW fee \in Fees, DataContractCreate(i, fee)
  PROVE  IInv'
<1> DEFINE u == WithContract(tx, i)
<1>1. /\ Charge(u, i, fee) /\ Covers(tx, i, 0, fee) /\ i \notin state.contracts
      /\ created' = Append(created, i) /\ phase = "executing"
      /\ UNCHANGED <<phase, height, state, pool, saved, discarded>>
  BY DEF DataContractCreate
<1>2. tx \in States /\ created \in Seq(Outpoints)
  BY DEF IInv, TypeOK
<1>3. /\ u \in States /\ u.contracts = tx.contracts \cup {i}
      /\ u.balance = tx.balance /\ u.spent = tx.spent
      /\ u.identities = tx.identities /\ u.keys = tx.keys /\ u.keyOwner = tx.keyOwner
  BY <1>2, ContractFields
<1> HIDE DEF u
<1>4. Solvent(u) /\ u.balance[i] >= fee
  BY <1>1, <1>2, <1>3, StateFields DEF IInv, Solvent, Covers
<1>5. created' \in Seq(Outpoints) /\ Range(created') = Range(created) \cup {i}
  BY <1>1, <1>2, RangeAppend
<1>6. Range(created') = u.contracts \ state.contracts
  BY <1>1, <1>3, <1>5 DEF IInv, CreatedAreNew
<1> QED BY <1>1, <1>3, <1>4, <1>5, <1>6, BalanceStep

LEMMA BatchStep ==
  ASSUME IInv, NEW i \in Outpoints, NEW contract \in Outpoints, NEW fee \in Fees,
         DocumentsBatch(i, contract, fee)
  PROVE  IInv'
<1>1. /\ Charge(tx, i, fee) /\ Covers(tx, i, 0, fee)
      /\ UNCHANGED <<phase, height, state, pool, created, saved, discarded>>
  BY DEF DocumentsBatch
<1>2. tx \in States /\ created \in Seq(Outpoints) /\ Solvent(tx)
  BY DEF IInv, TypeOK
<1>3. tx.balance[i] >= fee
  BY <1>1, <1>2, StateFields DEF Covers
<1>4. phase # "idle" => Range(created') = tx.contracts \ state.contracts
  BY <1>1 DEF IInv, CreatedAreNew
<1> QED BY <1>1, <1>2, <1>3, <1>4, BalanceStep

-----------------------------------------------------------------------------
(* The steps of a block, restarts and initial states *)

LEMMA BeginBlockStep ==
  ASSUME IInv, BeginBlock
  PROVE  IInv'
<1>1. /\ height < MaxHeight /\ height' = height + 1 /\ phase' = "executing"
      /\ fees' = 0 /\ created' = << >> /\ tx' = state
      /\ UNCHANGED <<state, pool, saved, discarded>>
  BY DEF BeginBlock
<1>2. TypeOK'
  <2>1. height' \in 0 .. MaxHeight /\ created' \in Seq(Outpoints)
    BY <1>1 DEF IInv, TypeOK
  <2> QED BY <1>1, <2>1 DEF IInv, TypeOK
<1>3. Solvent(state') /\ Solvent(tx') /\ Agree(state') /\ Agree(tx')
  BY <1>1 DEF IInv
<1>4. Extends' /\ CreatedAreNew'
  BY <1>1, RangeEmpty DEF Extends, CreatedAreNew
<1> QED BY <1>2, <1>3, <1>4 DEF IInv

LEMMA EndBlockStep ==
  ASSUME IInv, EndBlock
  PROVE  IInv'
<1>1. phase = "executing" /\ phase' = "ended"
      /\ UNCHANGED <<context, state, tx, pool, saved, discarded>>
  BY DEF EndBlock
<1>2. TypeOK'
  BY <1>1 DEF IInv, TypeOK, context
<1>3. Extends' /\ CreatedAreNew'
  BY <1>1 DEF IInv, Extends, CreatedAreNew, context
<1>4. Solvent(state') /\ Solvent(tx') /\ Agree(state') /\ Agree(tx')
  BY <1>1 DEF IInv
<1> QED BY <1>2, <1>3, <1>4 DEF IInv

\* What leaves the pool when it is set is never more than it held.
LEMMA NextPoolBounds ==
  ASSUME TypeOK
  PROVE  NextPool \in Nat /\ pool + fees - NextPool \in Nat
<1>1. pool \in Nat /\ fees \in Nat
  BY DEF TypeOK
<1>2. CASE height \in FixedHeights
  BY <1>1, <1>2 DEF NextPool
<1>3. CASE height \notin FixedHeights
  BY <1>1, <1>3 DEF NextPool
<1> QED BY <1>2, <1>3

\* Commit makes the stores what the transaction saw.
LEMMA CommitFields ==
  ASSUME TypeOK, Commit
  PROVE  /\ state' \in States /\ tx' = state'
         /\ state'.identities = tx.identities /\ state'.balance = tx.balance
         /\ state'.keys = tx.keys /\ state'.keyOwner = tx.keyOwner
         /\ state'.spent = tx.spent /\ state'.contracts = tx.contracts
<1>1. tx \in States /\ NextPool \in Nat
  BY NextPoolBounds DEF TypeOK
<1>2. state' = [tx EXCEPT !.pool = NextPool] /\ tx' = state'
  BY DEF Commit
<1> QED BY <1>1, <1>2 DEF States

LEMMA CommitStep ==
  ASSUME IInv, Commit
  PROVE  IInv'
<1>1. /\ phase' = "idle" /\ pool' = NextPool /\ discarded' = discarded + (pool + fees - NextPool)
      /\ saved' = [height |-> height, fees |-> fees, created |-> created]
      /\ height' = height /\ fees' = fees /\ created' = created
  BY DEF Commit, context
<1>2. TypeOK
  BY DEF IInv
<1>3. /\ state' \in States /\ tx' = state' /\ state'.identities = tx.identities
      /\ state'.balance = tx.balance /\ state'.keys = tx.keys /\ state'.keyOwner = tx.keyOwner
  BY <1>2, CommitFields
<1>4. TypeOK'
  <2>a. NextPool \in Nat /\ pool + fees - NextPool \in Nat
    BY <1>2, NextPoolBounds
  <2>b. discarded \in Nat
    BY <1>2 DEF TypeOK
  <2>1. pool' \in Nat /\ discarded' \in Nat
    BY <1>1, <2>a, <2>b
  <2>2. saved' \in [height : 0 .. MaxHeight, fees : Nat, created : Seq(Outpoints)]
    BY <1>1, <1>2 DEF TypeOK
  <2> QED BY <1>1, <1>2, <1>3, <2>1, <2>2 DEF TypeOK
<1>5. Solvent(state') /\ Solvent(tx')
  BY <1>3 DEF IInv, Solvent
<1>6. Agree(state') /\ Agree(tx')
  BY <1>3 DEF IInv, Agree
<1>7. Extends' /\ CreatedAreNew'
  BY <1>1, <1>3 DEF Extends, CreatedAreNew
<1> QED BY <1>4, <1>5, <1>6, <1>7 DEF IInv

LEMMA RestartStep ==
  ASSUME IInv, Restart
  PROVE  IInv'
<1>1. /\ phase' = "idle" /\ tx' = state /\ pool' = state.pool
      /\ height' = saved.height /\ fees' = saved.fees /\ created' = saved.created
      /\ UNCHANGED <<state, saved, discarded>>
  BY DEF Restart
<1>2. TypeOK'
  <2>1. pool' \in Nat
    BY <1>1, StateFields DEF IInv, TypeOK
  <2>2. height' \in 0 .. MaxHeight /\ fees' \in Nat /\ created' \in Seq(Outpoints)
    BY <1>1 DEF IInv, TypeOK
  <2> QED BY <1>1, <2>1, <2>2 DEF IInv, TypeOK
<1>3. Solvent(state') /\ Solvent(tx') /\ Agree(state') /\ Agree(tx')
  BY <1>1 DEF IInv
<1>4. Extends' /\ CreatedAreNew'
  BY <1>1 DEF Extends, CreatedAreNew
<1> QED BY <1>2, <1>3, <1>4 DEF IInv

LEMMA StutterStep ==
  ASSUME IInv, UNCHANGED vars
  PROVE  IInv'
<1>1. UNCHANGED <<phase, height, fees, created, state, tx, pool, saved, discarded>>
  BY DEF vars, context
<1>2. TypeOK' /\ Extends' /\ CreatedAreNew'
  BY <1>1 DEF IInv, TypeOK, Extends, CreatedAreNew
<1>3. Solvent(state') /\ Solvent(tx') /\ Agree(state') /\ Agree(tx')
  BY <1>1 DEF IInv
<1> QED BY <1>2, <1>3 DEF IInv

LEMMA InitStates == Init => IInv
<1> SUFFICES ASSUME Init PROVE IInv
  OBVIOUS
<1>1. EmptyState \in States
  BY DEF EmptyState, States
<1>2. TypeOK
  BY <1>1 DEF Init, TypeOK
<1>3. Solvent(EmptyState) /\ Agree(EmptyState)
  BY DEF EmptyState, Solvent, Agree
<1>4. Extends /\ CreatedAreNew
  BY DEF Init, Extends, CreatedAreNew
<1> QED BY <1>2, <1>3, <1>4 DEF Init, IInv

LEMMA NextStates == IInv /\ [Next]_vars => IInv'
<1> SUFFICES ASSUME IInv, [Next]_vars PROVE IInv'
  OBVIOUS
<1>1. CASE BeginBlock
  BY <1>1, BeginBlockStep
<1>2. CASE \E o \in Outpoints, ks \in (SUBSET Keys) \ {{}}, fee \in Fees : IdentityCreate(o, ks, fee)
  BY <1>2, IdentityCreateStep
<1>3. CASE \E i, o \in Outpoints, fee \in Fees : IdentityTopUp(i, o, fee)
  BY <1>3, TopUpStep
<1>4. CASE \E i \in Outpoints, fee \in Fees : DataContractCreate(i, fee)
  BY <1>4, ContractStep
<1>5. CASE \E i, c \in Outpoints, fee \in Fees : DocumentsBatch(i, c, fee)
  BY <1>5, BatchStep
<1>6. CASE EndBlock
  BY <1>6, EndBlockStep
<1>7. CASE Commit
  BY <1>7, CommitStep
<1>8. CASE Restart
  BY <1>8, RestartStep
<1>9. CASE UNCHANGED vars
  BY <1>9, StutterStep
<1> QED BY <1>1, <1>2, <1>3, <1>4, <1>5, <1>6, <1>7, <1>8, <1>9 DEF Next

-----------------------------------------------------------------------------
(* Credits *)

\* What the identities of a state hold, and what its asset locks bought.
Held(t) == Sum(t.balance, t.identities)
Bought(t) == Sum(Credits, t.spent)
Finite(t) == IsFiniteSet(t.identities) /\ IsFiniteSet(t.spent)

\* The fees that are neither in a balance nor in the pool.
FeesTaken == IF phase = "idle" THEN 0 ELSE fees

\* The balance of the books, of the stores and of the open transaction: an
\* aborted block goes back to the first, and a commit makes the second the first.
CreditInv ==
  /\ Finite(state) /\ Finite(tx) /\ pool = state.pool
  /\ Held(state) + pool + discarded = Bought(state)
  /\ Held(tx) + pool + discarded + FeesTaken = Bought(tx)

LEMMA Amounts ==
  ASSUME NEW t \in States, Finite(t)
  PROVE  Held(t) \in Int /\ Bought(t) \in Int
<1>1. \A i \in t.identities : t.balance[i] \in Int
  BY StateFields
<1>2. \A o \in t.spent : Credits[o] \in Int
  BY StateFields
<1>3. Held(t) \in Int
  BY <1>1, SumFirst DEF Finite, Held
<1>4. Bought(t) \in Int
  BY <1>2, SumFirst DEF Finite, Bought
<1> QED BY <1>3, <1>4

\* A fee leaves its payer and nobody else.
LEMMA ChargedCredits ==
  ASSUME NEW t \in States, Finite(t), NEW i \in t.identities, NEW fee \in Fees, Charge(t, i, fee)
  PROVE  Finite(tx') /\ Held(tx') = Held(t) - fee /\ Bought(tx') = Bought(t)
<1>1. i \in Outpoints /\ t.balance \in [Outpoints -> Int] /\ t.identities \subseteq Outpoints /\ fee \in Nat
  BY StateFields
<1>2. /\ tx'.balance = [t.balance EXCEPT ![i] = @ - fee]
      /\ tx'.identities = t.identities /\ tx'.spent = t.spent
  BY <1>1, Charged
<1>3. /\ tx'.balance[i] = t.balance[i] - fee /\ tx'.balance[i] \in Int /\ t.balance[i] \in Int
      /\ \A j \in t.identities : j # i => tx'.balance[j] = t.balance[j]
      /\ \A j \in t.identities : t.balance[j] \in Int
  BY <1>1, <1>2
<1>4. Sum(tx'.balance, t.identities) = Sum(t.balance, t.identities) + (tx'.balance[i] - t.balance[i])
  BY <1>3, SumChanged DEF Finite
<1>5. Held(t) \in Int
  BY Amounts
<1>6. Held(tx') = Held(t) - fee
  BY <1>1, <1>2, <1>3, <1>4, <1>5 DEF Held
<1>7. Finite(tx') /\ Bought(tx') = Bought(t)
  BY <1>2 DEF Finite, Bought
<1> QED BY <1>6, <1>7

\* A transition that brings as much as it buys and pays its fee keeps the books.
LEMMA PaidStep ==
  ASSUME IInv, CreditInv, phase # "idle", NEW t \in States, Finite(t),
         NEW i \in t.identities, NEW fee \in Fees, Charge(t, i, fee),
         Held(t) - Held(tx) = Bought(t) - Bought(tx),
         UNCHANGED <<phase, state, pool, discarded>>
  PROVE  CreditInv'
<1>1. i \in Outpoints /\ fee \in Nat /\ tx \in States
  BY StateFields DEF IInv, TypeOK
<1>2. fees' = fees + fee
  BY <1>1, Charged
<1>3. Finite(tx') /\ Held(tx') = Held(t) - fee /\ Bought(tx') = Bought(t)
  BY ChargedCredits
<1>4. /\ Held(t) \in Int /\ Bought(t) \in Int /\ Held(tx) \in Int /\ Bought(tx) \in Int
      /\ pool \in Nat /\ discarded \in Nat /\ fees \in Nat
  BY <1>1, Amounts DEF IInv, TypeOK, CreditInv
<1>5. Held(tx) + pool + discarded + fees = Bought(tx)
  BY DEF CreditInv, FeesTaken
<1>6. Held(tx') + pool' + discarded' + FeesTaken' = Bought(tx')
  BY <1>1, <1>2, <1>3, <1>4, <1>5 DEF FeesTaken
<1>7. Held(state') + pool' + discarded' = Bought(state') /\ Finite(state') /\ pool' = state'.pool
  BY DEF CreditInv
<1> QED BY <1>3, <1>6, <1>7 DEF CreditInv

\* An identity begins with the credits of its asset lock: its id is the lock's,
\* so that an unused id and an unspent output come together.
LEMMA CreateCredits ==
  ASSUME IInv, CreditInv, NEW o \in Outpoints, NEW ks \in SUBSET Keys, NEW fee \in Fees,
         IdentityCreate(o, ks, fee)
  PROVE  CreditInv'
<1> DEFINE u == WithIdentity(tx, o, ks)
<1>1. /\ Charge(u, o, fee) /\ o \notin tx.identities /\ o \notin tx.spent /\ phase # "idle"
      /\ UNCHANGED <<phase, state, pool, discarded>>
  BY DEF IdentityCreate, Unspent
<1>2. tx \in States /\ Finite(tx) /\ Credits[o] \in Int
  BY DEF IInv, TypeOK, CreditInv
<1>3. /\ u \in States
      /\ u.identities = tx.identities \cup {o} /\ u.spent = tx.spent \cup {o}
      /\ u.balance = [tx.balance EXCEPT ![o] = Credits[o]]
      /\ u.keys = [tx.keys EXCEPT ![o] = ks]
      /\ u.keyOwner = [k \in Keys |-> IF k \in ks THEN o ELSE tx.keyOwner[k]]
      /\ u.contracts = tx.contracts
  BY <1>2, IdentityFields
<1> HIDE DEF u
<1>4. tx.balance \in [Outpoints -> Int] /\ tx.identities \subseteq Outpoints /\ tx.spent \subseteq Outpoints
  BY <1>2, StateFields
<1>5. Finite(u) /\ o \in u.identities
  <2>1. IsFiniteSet(tx.identities \cup {o}) /\ IsFiniteSet(tx.spent \cup {o})
    BY <1>2, FS_AddElement DEF Finite
  <2> QED BY <1>3, <2>1 DEF Finite
<1>6. Held(u) = Held(tx) + Credits[o]
  <2>1. u.balance[o] = Credits[o]
        /\ \A i \in tx.identities : tx.balance[i] \in Int /\ u.balance[i] = tx.balance[i]
    BY <1>1, <1>3, <1>4
  <2>2. Sum(u.balance, tx.identities) = Sum(tx.balance, tx.identities)
    BY <1>2, <2>1, SumSame DEF Finite
  <2>3. u.balance[o] \in Int /\ \A i \in tx.identities : u.balance[i] \in Int
    BY <1>2, <2>1
  <2>4. Sum(u.balance, tx.identities \cup {o}) = Sum(u.balance, tx.identities) + u.balance[o]
    BY <1>1, <1>2, <2>3, SumWith DEF Finite
  <2> QED BY <1>3, <2>1, <2>2, <2>4 DEF Held
<1>7. Bought(u) = Bought(tx) + Credits[o]
  <2>1. \A p \in tx.spent : Credits[p] \in Int
    BY <1>4
  <2>2. Sum(Credits, tx.spent \cup {o}) = Sum(Credits, tx.spent) + Credits[o]
    BY <1>1, <1>2, <2>1, SumWith DEF Finite
  <2> QED BY <1>3, <2>2 DEF Bought
<1>8. Held(u) - Held(tx) = Bought(u) - Bought(tx)
  BY <1>2, <1>6, <1>7, Amounts
<1> QED BY <1>1, <1>3, <1>5, <1>8, PaidStep

LEMMA TopUpCredits ==
  ASSUME IInv, CreditInv, NEW i \in Outpoints, NEW o \in Outpoints, NEW fee \in Fees,
         IdentityTopUp(i, o, fee)
  PROVE  CreditInv'
<1> DEFINE u == WithCredits(tx, i, o)
<1>1. /\ Charge(u, i, fee) /\ i \in tx.identities /\ o \notin tx.spent /\ phase # "idle"
      /\ UNCHANGED <<phase, state, pool, discarded>>
  BY DEF IdentityTopUp, Unspent
<1>2. tx \in States /\ Finite(tx) /\ Credits[o] \in Int
  BY DEF IInv, TypeOK, CreditInv
<1>3. /\ u \in States /\ u.spent = tx.spent \cup {o} /\ u.identities = tx.identities
      /\ u.balance = [tx.balance EXCEPT ![i] = @ + Credits[o]]
  BY <1>2, CreditsFields
<1> HIDE DEF u
<1>4. tx.balance \in [Outpoints -> Int] /\ tx.identities \subseteq Outpoints /\ tx.spent \subseteq Outpoints
  BY <1>2, StateFields
<1>5. Finite(u) /\ i \in u.identities
  BY <1>1, <1>2, <1>3, FS_AddElement DEF Finite
<1>6. Held(u) = Held(tx) + Credits[o]
  <2>1. /\ u.balance[i] = tx.balance[i] + Credits[o] /\ u.balance[i] \in Int /\ tx.balance[i] \in Int
        /\ \A j \in tx.identities : tx.balance[j] \in Int
        /\ \A j \in tx.identities : j # i => u.balance[j] = tx.balance[j]
    BY <1>2, <1>3, <1>4
  <2>2. Sum(u.balance, tx.identities) = Sum(tx.balance, tx.identities) + (u.balance[i] - tx.balance[i])
    BY <1>1, <1>2, <2>1, SumChanged DEF Finite
  <2>3. Held(tx) \in Int
    BY <1>2, Amounts
  <2> QED BY <1>2, <1>3, <2>1, <2>2, <2>3 DEF Held
<1>7. Bought(u) = Bought(tx) + Credits[o]
  <2>1. \A p \in tx.spent : Credits[p] \in Int
    BY <1>4
  <2>2. Sum(Credits, tx.spent \cup {o}) = Sum(Credits, tx.spent) + Credits[o]
    BY <1>1, <1>2, <2>1, SumWith DEF Finite
  <2> QED BY <1>3, <2>2 DEF Bought
<1>8. Held(u) - Held(tx) = Bought(u) - Bought(tx)
  BY <1>2, <1>6, <1>7, Amounts
<1> QED BY <1>1, <1>3, <1>5, <1>8, PaidStep

LEMMA ContractCredits ==
  ASSUME IInv, CreditInv, NEW i \in Outpoints, NEW fee \in Fees, DataContractCreate(i, fee)
  PROVE  CreditInv'
<1> DEFINE u == WithContract(tx, i)
<1>1. /\ Charge(u, i, fee) /\ i \in tx.identities /\ phase # "idle"
      /\ UNCHANGED <<phase, state, pool, discarded>>
  BY DEF DataContractCreate
<1>2. tx \in States /\ Finite(tx)
  BY DEF IInv, TypeOK, CreditInv
<1>3. u \in States /\ u.balance = tx.balance /\ u.spent = tx.spent /\ u.identities = tx.identities
  BY <1>2, ContractFields
<1> HIDE DEF u
<1>4. Finite(u) /\ Held(u) = Held(tx) /\ Bought(u) = Bought(tx)
  BY <1>2, <1>3 DEF Finite, Held, Bought
<1>5. Held(u) - Held(tx) = Bought(u) - Bought(tx)
  BY <1>2, <1>4, Amounts
<1> QED BY <1>1, <1>3, <1>4, <1>5, PaidStep

LEMMA BatchCredits ==
  ASSUME IInv, CreditInv, NEW i \in Outpoints, NEW c \in Outpoints, NEW fee \in Fees,
         DocumentsBatch(i, c, fee)
  PROVE  CreditInv'
<1>1. /\ Charge(tx, i, fee) /\ i \in tx.identities /\ phase # "idle"
      /\ UNCHANGED <<phase, state, pool, discarded>>
  BY DEF DocumentsBatch
<1>2. tx \in States /\ Finite(tx)
  BY DEF IInv, TypeOK, CreditInv
<1>3. Held(tx) - Held(tx) = Bought(tx) - Bought(tx)
  BY <1>2, Amounts
<1> QED BY <1>1, <1>2, <1>3, PaidStep

\* A block begins with the books of the stores, whatever was left open.
LEMMA BeginBlockCredits ==
  ASSUME IInv, CreditInv, BeginBlock
  PROVE  CreditInv'
<1>1. /\ phase' = "executing" /\ fees' = 0 /\ tx' = state
      /\ UNCHANGED <<state, pool, discarded>>
  BY DEF BeginBlock
<1>2. Held(state) \in Int /\ pool \in Nat /\ discarded \in Nat
  BY Amounts DEF IInv, TypeOK, CreditInv
<1>3. FeesTaken' = 0
  BY <1>1 DEF FeesTaken
<1>4. Held(tx') + pool' + discarded' + FeesTaken' = Bought(tx')
  BY <1>1, <1>2, <1>3 DEF CreditInv
<1> QED BY <1>1, <1>4 DEF CreditInv

LEMMA EndBlockCredits ==
  ASSUME IInv, CreditInv, EndBlock
  PROVE  CreditInv'
<1>1. phase # "idle" /\ phase' # "idle" /\ UNCHANGED <<fees, state, tx, pool, discarded>>
  BY DEF EndBlock, context
<1>2. FeesTaken' = FeesTaken
  BY <1>1 DEF FeesTaken
<1> QED BY <1>1, <1>2 DEF CreditInv

\* A commit moves the fees to the pool; what it drops is booked as discarded.
LEMMA CommitCredits ==
  ASSUME IInv, CreditInv, Commit
  PROVE  CreditInv'
<1>1. /\ phase # "idle" /\ phase' = "idle" /\ pool' = NextPool
      /\ discarded' = discarded + (pool + fees - NextPool)
      /\ state' = [tx EXCEPT !.pool = NextPool]
  BY DEF Commit
<1>2. TypeOK /\ tx \in States /\ fees \in Nat /\ pool \in Nat /\ discarded \in Nat
  BY DEF IInv, TypeOK
<1>3. /\ tx' = state' /\ state'.identities = tx.identities
      /\ state'.balance = tx.balance /\ state'.spent = tx.spent
  BY <1>2, CommitFields
<1>4. state'.pool = NextPool /\ NextPool \in Nat
  BY <1>1, <1>2, NextPoolBounds DEF States
<1>5. Finite(state') /\ Held(state') = Held(tx) /\ Bought(state') = Bought(tx)
  BY <1>3 DEF Finite, Held, Bought, CreditInv
<1>6. Held(tx) + pool + discarded + fees = Bought(tx) /\ Held(tx) \in Int /\ Bought(tx) \in Int
  BY <1>1, <1>2, Amounts DEF CreditInv, FeesTaken
<1>7. Held(state') + pool' + discarded' = Bought(state')
  BY <1>1, <1>2, <1>4, <1>5, <1>6
<1>8. Held(state') + pool' + discarded' + FeesTaken' = Bought(state')
  <2>1. FeesTaken' = 0 /\ Held(state') \in Int /\ pool' \in Nat /\ discarded' \in Int
    BY <1>1, <1>2, <1>4, <1>5, <1>6 DEF FeesTaken
  <2> QED BY <1>7, <2>1
<1> QED BY <1>1, <1>3, <1>4, <1>5, <1>7, <1>8 DEF CreditInv

\* A restart loses the transaction and its fees together.
LEMMA RestartCredits ==
  ASSUME IInv, CreditInv, Restart
  PROVE  CreditInv'
<1>1. phase' = "idle" /\ tx' = state /\ pool' = state.pool /\ UNCHANGED <<state, discarded>>
  BY DEF Restart
<1>2. Held(state) \in Int /\ pool \in Nat /\ discarded \in Nat
  BY Amounts DEF IInv, TypeOK, CreditInv
<1>3. FeesTaken' = 0 /\ pool' = pool
  BY <1>1 DEF FeesTaken, CreditInv
<1>4. Held(tx') + pool' + discarded' + FeesTaken' = Bought(tx')
  BY <1>1, <1>2, <1>3 DEF CreditInv
<1> QED BY <1>1, <1>3, <1>4 DEF CreditInv

LEMMA InitCredits == Init => CreditInv
<1> SUFFICES ASSUME Init PROVE CreditInv
  OBVIOUS
<1>1. state = EmptyState /\ tx = EmptyState /\ pool = 0 /\ discarded = 0 /\ phase = "idle"
  BY DEF Init
<1>2. /\ EmptyState.identities = {} /\ EmptyState.spent = {} /\ EmptyState.pool = 0
  BY DEF EmptyState
<1>3. Finite(EmptyState)
  BY <1>2, FS_EmptySet DEF Finite
<1>4. Held(EmptyState) = 0 /\ Bought(EmptyState) = 0
  <2>1. IsFiniteSet({})
    BY FS_EmptySet
  <2>2. \A f : Sum(f, {}) = 0
    BY <2>1, SumFirst
  <2> QED BY <1>2, <2>2 DEF Held, Bought
<1> QED BY <1>1, <1>2, <1>3, <1>4 DEF CreditInv, FeesTaken

LEMMA NextCredits == IInv /\ CreditInv /\ [Next]_vars => CreditInv'
<1> SUFFICES ASSUME IInv, CreditInv, [Next]_vars PROVE CreditInv'
  OBVIOUS
<1>1. CASE BeginBlock
  BY <1>1, BeginBlockCredits
<1>2. CASE \E o \in Outpoints, ks \in (SUBSET Keys) \ {{}}, fee \in Fees : IdentityCreate(o, ks, fee)
  BY <1>2, CreateCredits
<1>3. CASE \E i, o \in Outpoints, fee \in Fees : IdentityTopUp(i, o, fee)
  BY <1>3, TopUpCredits
<1>4. CASE \E i \in Outpoints, fee \in Fees : DataContractCreate(i, fee)
  BY <1>4, ContractCredits
<1>5. CASE \E i, c \in Outpoints, fee \in Fees : DocumentsBatch(i, c, fee)
  BY <1>5, BatchCredits
<1>6. CASE EndBlock
  BY <1>6, EndBlockCredits
<1>7. CASE Commit
  BY <1>7, CommitCredits
<1>8. CASE Restart
  BY <1>8, RestartCredits
<1>9. CASE UNCHANGED vars
  <2>1. UNCHANGED <<phase, fees, state, tx, pool, discarded>>
    BY <1>9 DEF vars, context
  <2>2. FeesTaken' = FeesTaken
    BY <2>1 DEF FeesTaken
  <2> QED BY <2>1, <2>2 DEF CreditInv
<1> QED BY <1>1, <1>2, <1>3, <1>4, <1>5, <1>6, <1>7, <1>8, <1>9 DEF Next

-----------------------------------------------------------------------------
(* Theorems *)

LEMMA InductiveInvariant == Spec => []IInv
<1> QED BY InitStates, NextStates, PTL DEF Spec

\* Every state has the types that TypeOK states: in particular no step leaves a
\* negative pool or a negative sum of fees.
THEOREM TypeCorrect == Spec => []TypeOK
<1>1. IInv => TypeOK
  BY DEF IInv
<1> QED BY <1>1, InductiveInvariant, PTL

\* The fees a block charges, transition by transition and without a check at
\* the end of the block, leave no identity with a negative balance.
THEOREM NoIdentityInDebt == Spec => []NoDebt
<1>1. IInv => NoDebt
  BY DEF IInv, Solvent, NoDebt
<1> QED BY <1>1, InductiveInvariant, PTL

\* The identities and the map from public keys to identities, which are two
\* stores written one after the other, agree with each other.
THEOREM KeysAndIdentitiesAgree == Spec => []KeysAgree
<1>1. IInv => KeysAgree
  BY DEF IInv, KeysAgree
<1> QED BY <1>1, InductiveInvariant, PTL

\* The context's list of contracts, from which commit creates databases, holds
\* the contracts of the block and of no other.
THEOREM CreatedContractsAreNew == Spec => []CreatedAreNew
<1>1. IInv => CreatedAreNew
  BY DEF IInv
<1> QED BY <1>1, InductiveInvariant, PTL

\* Whatever a block of transitions does and wherever a restart cuts it off, the
\* credits bought are with the identities, in the open block's fees, in the pool
\* or among those dropped when the pool was set.
THEOREM NoCreditMadeOrLost == Spec => []CreditsConserved
<1>1. IInv /\ CreditInv => CreditsConserved
  BY DEF CreditInv, CreditsConserved, FeesTaken, Held, Bought, Sum
<1>2. Spec => []CreditInv
  BY InitCredits, NextCredits, InductiveInvariant, PTL DEF Spec
<1> QED BY <1>1, <1>2, InductiveInvariant, PTL

\* No commit and no restart takes a key from its identity, frees a spent output
\* or removes a contract.
THEOREM TakenIsForever == Spec => TakenStaysTaken
<1> DEFINE Kept ==
     /\ state.spent \subseteq state'.spent /\ state.contracts \subseteq state'.contracts
     /\ \A k \in Keys : state.keyOwner[k] # None => state'.keyOwner[k] = state.keyOwner[k]
<1>1. ASSUME IInv, Next PROVE Kept
  <2>1. CASE Commit
    <3>1. /\ state'.keyOwner = tx.keyOwner /\ state'.spent = tx.spent
          /\ state'.contracts = tx.contracts
      BY <1>1, <2>1, CommitFields DEF IInv
    <3> QED BY <1>1, <3>1 DEF IInv, Extends
  <2>2. CASE state' = state
    BY <2>2
  <2>3. Commit \/ state' = state
    BY <1>1 DEF Next, BeginBlock, IdentityCreate, IdentityTopUp, DataContractCreate,
                DocumentsBatch, EndBlock, Restart
  <2> QED BY <2>1, <2>2, <2>3
<1>2. IInv /\ [Next]_vars => [Kept]_vars
  BY <1>1
<1> HIDE DEF Kept
<1>3. Spec => [][Kept]_vars
  BY <1>2, InductiveInvariant, PTL DEF Spec
<1> QED BY <1>3 DEF TakenStaysTaken, Kept

=============================================================================
