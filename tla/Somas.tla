------------------------------- MODULE Somas -------------------------------
(***************************************************************************)
(* Sums of a function's values over a finite set, as SumFunction of the    *)
(* community modules computes them: what the proofs about stock, cash and  *)
(* purchases need of them.                                                 *)
(*                                                                         *)
(* SumFunctionOnSet is a recursive function, and the induction theorems of *)
(* the library take the induction's formula as an operator, which the      *)
(* provers here cannot instantiate.  The lemmas go round that through      *)
(* WFMin: strict inclusion is well founded on the subsets of a finite set, *)
(* so a set of subsets that fail a claim has a minimal one, and the claim  *)
(* is a set comprehension rather than an operator.                         *)
(***************************************************************************)
EXTENDS Integers, FiniteSetTheorems, FiniteSetsExt, TLAPS

Soma(f, S) == SumFunctionOnSet(f, S)

Escolha(T) == CHOOSE x \in T : TRUE

SomaPasso(f, g, S) == g = [T \in SUBSET S |->
    IF T = {} THEN 0 ELSE f[Escolha(T)] + g[T \ {Escolha(T)}]]

\* Induction over the subsets of a finite set: a set B of subsets that holds T whenever it
\* holds T's proper subsets holds them all.
LEMMA InducaoFinita ==
    ASSUME NEW S, IsFiniteSet(S), NEW B \in SUBSET SUBSET S,
           \A T \in SUBSET S : (\A U \in (SUBSET T) \ {T} : U \in B) => T \in B
    PROVE  \A T \in SUBSET S : T \in B
<1> DEFINE R == StrictSubsetOrdering(S)
           M == (SUBSET S) \ B
<1>1. IsWellFoundedOn(R, SUBSET S)
  BY FS_StrictSubsetOrderingWellFounded, FS_FiniteSubsetsOfFinite
<1>2. SUFFICES ASSUME M # {} PROVE FALSE
  OBVIOUS
<1>3. M \subseteq SUBSET S
  OBVIOUS
<1> HIDE DEF R
<1>4. PICK T \in M : \A U \in M : <<U, T>> \notin R
  <2> HIDE DEF M
  <2> QED BY <1>1, <1>2, <1>3, WFMin
<1>5. ASSUME NEW U \in (SUBSET T) \ {T} PROVE U \in B
  BY <1>4, <1>5 DEF R, StrictSubsetOrdering
<1> QED BY <1>4, <1>5

\* The element a fold takes next is one of the set's.
LEMMA EscolhaPertence == ASSUME NEW T, T # {} PROVE Escolha(T) \in T
BY DEF Escolha

\* What SumFunctionOnSet is, opened once: the value at S of a function that adds the chosen
\* element of each subset to the sum of the others.
LEMMA SomaAberta ==
    ASSUME NEW f, NEW S
    PROVE  Soma(f, S) = (CHOOSE g : SomaPasso(f, g, S))[S]
BY DEF Soma, SumFunctionOnSet, FoldFunctionOnSet, MapThenFoldSet, SomaPasso, Escolha

\* At most one function adds that way.
LEMMA SomaUnica ==
    ASSUME NEW f, NEW S, IsFiniteSet(S), NEW g, NEW h, SomaPasso(f, g, S), SomaPasso(f, h, S)
    PROVE  g = h
<1> DEFINE B == {T \in SUBSET S : g[T] = h[T]}
<1>1. ASSUME NEW T \in SUBSET S, \A U \in (SUBSET T) \ {T} : U \in B PROVE T \in B
  <2>1. CASE T = {}
    BY <2>1 DEF SomaPasso
  <2>2. CASE T # {}
    <3>1. T \ {Escolha(T)} \in (SUBSET T) \ {T}
      BY <2>2, EscolhaPertence
    <3>2. g[T \ {Escolha(T)}] = h[T \ {Escolha(T)}]
      BY <3>1, <1>1
    <3> QED BY <2>2, <3>2 DEF SomaPasso
  <2> QED BY <2>1, <2>2
<1>2. \A T \in SUBSET S : T \in B
  <2> HIDE DEF B
  <2>1. B \in SUBSET SUBSET S
    BY DEF B
  <2> QED BY <1>1, <2>1, InducaoFinita
<1> QED BY <1>2 DEF SomaPasso

\* Restricted to the subsets of T, a function that adds that way does so on T.
LEMMA SomaRestrita ==
    ASSUME NEW f, NEW S, NEW g, SomaPasso(f, g, S), NEW T \in SUBSET S
    PROVE  SomaPasso(f, [U \in SUBSET T |-> g[U]], T)
<1> DEFINE r == [U \in SUBSET T |-> g[U]]
<1>1. ASSUME NEW U \in SUBSET T
      PROVE  r[U] = IF U = {} THEN 0 ELSE f[Escolha(U)] + r[U \ {Escolha(U)}]
  <2>1. g[U] = IF U = {} THEN 0 ELSE f[Escolha(U)] + g[U \ {Escolha(U)}]
    BY DEF SomaPasso
  <2>2. U \ {Escolha(U)} \in SUBSET T
    OBVIOUS
  <2> QED BY <2>1, <2>2
<1> QED BY <1>1 DEF SomaPasso

\* One does: each subset takes its value from the functions of its proper subsets.
LEMMA SomaExiste ==
    ASSUME NEW f, NEW S, IsFiniteSet(S)
    PROVE  \E g : SomaPasso(f, g, S)
<1> DEFINE B == {T \in SUBSET S : \E g : SomaPasso(f, g, T)}
<1>1. ASSUME NEW T \in SUBSET S, \A U \in (SUBSET T) \ {T} : U \in B PROVE T \in B
  <2> DEFINE h(U) == CHOOSE g : SomaPasso(f, g, U)
             v == [U \in SUBSET T |->
                     IF U = {} THEN 0
                     ELSE f[Escolha(U)] + h(U \ {Escolha(U)})[U \ {Escolha(U)}]]
  <2>1. ASSUME NEW U \in (SUBSET T) \ {T} PROVE SomaPasso(f, h(U), U)
    <3>1. \E g : SomaPasso(f, g, U)
      BY <1>1
    <3> QED BY <3>1
  <2>2. ASSUME NEW U \in (SUBSET T) \ {T} PROVE v[U] = h(U)[U]
    <3> DEFINE W == U \ {Escolha(U)}
    <3>1. CASE U = {}
      <4>1. h(U)[U] = 0
        <5>1. SomaPasso(f, h(U), U)
          BY <2>1
        <5>2. U \in SUBSET U
          OBVIOUS
        <5> HIDE DEF h
        <5> QED BY <3>1, <5>1, <5>2 DEF SomaPasso
      <4>2. v[U] = 0
        BY <3>1
      <4> QED BY <4>1, <4>2
    <3>2. CASE U # {}
      <4>1. /\ W \in (SUBSET T) \ {T}
            /\ W \in SUBSET U
        BY <3>2, EscolhaPertence
      <4>2. h(U)[U] = f[Escolha(U)] + h(U)[W]
        BY <2>1, <3>2 DEF SomaPasso
      <4>3. IsFiniteSet(W)
        BY <4>1, FS_Subset
      <4>4. SomaPasso(f, [Z \in SUBSET W |-> h(U)[Z]], W)
        BY <2>1, <4>1, SomaRestrita
      <4>5. SomaPasso(f, h(W), W)
        BY <2>1, <4>1
      <4>6. h(W) = [Z \in SUBSET W |-> h(U)[Z]]
        <5> HIDE DEF h, W
        <5> QED BY <4>3, <4>4, <4>5, SomaUnica
      <4>7. h(W)[W] = h(U)[W]
        <5> HIDE DEF h, W
        <5> QED BY <4>6
      <4>8. v[U] = f[Escolha(U)] + h(W)[W]
        BY <3>2
      <4> QED BY <4>2, <4>7, <4>8
    <3> QED BY <3>1, <3>2
  <2>3. ASSUME NEW U \in SUBSET T
        PROVE  v[U] = IF U = {} THEN 0 ELSE f[Escolha(U)] + v[U \ {Escolha(U)}]
    <3>1. CASE U = {}
      BY <3>1
    <3>2. CASE U # {}
      <4> DEFINE W == U \ {Escolha(U)}
      <4>1. W \in (SUBSET T) \ {T}
        BY <3>2, EscolhaPertence
      <4>2. v[W] = h(W)[W]
        <5> HIDE DEF W, v, h
        <5> QED BY <2>2, <4>1
      <4>3. v[U] = f[Escolha(U)] + h(W)[W]
        BY <3>2
      <4> QED BY <3>2, <4>2, <4>3
    <3> QED BY <3>1, <3>2
  <2>4. SomaPasso(f, v, T)
    <3>1. v = [U \in SUBSET T |-> v[U]]
      OBVIOUS
    <3> HIDE DEF v
    <3> QED BY <2>3, <3>1 DEF SomaPasso
  <2> QED BY <2>4
<1>2. \A T \in SUBSET S : T \in B
  <2> HIDE DEF B
  <2>1. B \in SUBSET SUBSET S
    BY DEF B
  <2> QED BY <1>1, <2>1, InducaoFinita
<1> QED BY <1>2

\* The recursion itself, free of the choice of the function.
LEMMA SomaRecursiva ==
    ASSUME NEW f, NEW S, IsFiniteSet(S)
    PROVE  Soma(f, S) = IF S = {} THEN 0
                        ELSE f[Escolha(S)] + Soma(f, S \ {Escolha(S)})
<1> DEFINE h(T) == CHOOSE g : SomaPasso(f, g, T)
           T == S \ {Escolha(S)}
<1>1. SomaPasso(f, h(S), S) /\ SomaPasso(f, h(T), T)
  <2>1. IsFiniteSet(T)
    BY FS_Subset
  <2>2. \E g : SomaPasso(f, g, S)
    BY SomaExiste
  <2>3. \E g : SomaPasso(f, g, T)
    <3> HIDE DEF T
    <3> QED BY <2>1, SomaExiste
  <2>4. SomaPasso(f, h(S), S)
    BY <2>2
  <2>5. SomaPasso(f, h(T), T)
    <3> HIDE DEF T
    <3> QED BY <2>3
  <2> QED BY <2>4, <2>5
<1>2. h(S)[T] = h(T)[T]
  <2>1. T \in SUBSET S /\ IsFiniteSet(T)
    BY FS_Subset
  <2> HIDE DEF h, T
  <2>2. SomaPasso(f, [U \in SUBSET T |-> h(S)[U]], T)
    BY <1>1, <2>1, SomaRestrita
  <2>3. h(T) = [U \in SUBSET T |-> h(S)[U]]
    BY <1>1, <2>1, <2>2, SomaUnica
  <2> QED BY <2>3
<1>3. Soma(f, S) = h(S)[S] /\ Soma(f, T) = h(T)[T]
  BY SomaAberta
<1>4. h(S)[S] = IF S = {} THEN 0 ELSE f[Escolha(S)] + h(S)[T]
  BY <1>1 DEF SomaPasso
<1> QED BY <1>2, <1>3, <1>4

\* The sum over no element.
LEMMA SomaVazia ==
    ASSUME NEW f
    PROVE  Soma(f, {}) = 0
BY SomaRecursiva, FS_EmptySet

\* Sums of functions that agree on the set are equal.
LEMMA SomaIgual ==
    ASSUME NEW f, NEW g, NEW S, IsFiniteSet(S), \A x \in S : f[x] = g[x]
    PROVE  Soma(f, S) = Soma(g, S)
<1> DEFINE B == {T \in SUBSET S : Soma(f, T) = Soma(g, T)}
<1>1. ASSUME NEW T \in SUBSET S, \A U \in (SUBSET T) \ {T} : U \in B PROVE T \in B
  <2>1. IsFiniteSet(T)
    BY FS_Subset
  <2>2. CASE T = {}
    BY <2>2, SomaVazia
  <2>3. CASE T # {}
    <3> DEFINE x == Escolha(T)
               U == T \ {x}
    <3>1. x \in T /\ x \in S /\ U \in (SUBSET T) \ {T}
      BY <2>3, EscolhaPertence
    <3>2. Soma(f, U) = Soma(g, U)
      <4> HIDE DEF U
      <4> QED BY <1>1, <3>1
    <3>3. Soma(f, T) = f[x] + Soma(f, U) /\ Soma(g, T) = g[x] + Soma(g, U)
      BY <2>1, <2>3, SomaRecursiva
    <3> QED BY <3>1, <3>2, <3>3
  <2> QED BY <2>2, <2>3
<1>2. \A T \in SUBSET S : T \in B
  <2> HIDE DEF B
  <2>1. B \in SUBSET SUBSET S
    BY DEF B
  <2> QED BY <1>1, <2>1, InducaoFinita
<1> QED BY <1>2

\* Sums of integers are integers.
LEMMA SomaInteira ==
    ASSUME NEW f, NEW S, IsFiniteSet(S), \A x \in S : f[x] \in Int
    PROVE  Soma(f, S) \in Int
<1> DEFINE B == {T \in SUBSET S : Soma(f, T) \in Int}
<1>1. ASSUME NEW T \in SUBSET S, \A U \in (SUBSET T) \ {T} : U \in B PROVE T \in B
  <2>1. IsFiniteSet(T)
    BY FS_Subset
  <2>2. CASE T = {}
    BY <2>2, SomaVazia
  <2>3. CASE T # {}
    <3> DEFINE x == Escolha(T)
               U == T \ {x}
    <3>1. x \in T /\ x \in S /\ U \in (SUBSET T) \ {T}
      BY <2>3, EscolhaPertence
    <3>2. Soma(f, U) \in Int
      <4> HIDE DEF U
      <4> QED BY <1>1, <3>1
    <3>3. Soma(f, T) = f[x] + Soma(f, U)
      BY <2>1, <2>3, SomaRecursiva
    <3> QED BY <3>1, <3>2, <3>3
  <2> QED BY <2>2, <2>3
<1>2. \A T \in SUBSET S : T \in B
  <2> HIDE DEF B
  <2>1. B \in SUBSET SUBSET S
    BY DEF B
  <2> QED BY <1>1, <2>1, InducaoFinita
<1> QED BY <1>2

\* Any element may be taken out first, not just the one the fold chooses.
LEMMA SomaSem ==
    ASSUME NEW f, NEW S, IsFiniteSet(S), \A x \in S : f[x] \in Int, NEW a \in S
    PROVE  Soma(f, S) = f[a] + Soma(f, S \ {a})
<1> DEFINE B == {T \in SUBSET S : \A b \in T : Soma(f, T) = f[b] + Soma(f, T \ {b})}
<1>0. ASSUME NEW T \in SUBSET S PROVE IsFiniteSet(T) /\ Soma(f, T) \in Int
  <2>1. IsFiniteSet(T)
    BY FS_Subset
  <2> QED BY <2>1, SomaInteira
<1>1. ASSUME NEW T \in SUBSET S, \A U \in (SUBSET T) \ {T} : U \in B PROVE T \in B
  <2> SUFFICES ASSUME NEW b \in T PROVE Soma(f, T) = f[b] + Soma(f, T \ {b})
    OBVIOUS
  <2> DEFINE x == Escolha(T)
             U == T \ {x}
             W == T \ {b}
             Z == U \ {b}
  <2>1. x \in T /\ U \in (SUBSET T) \ {T} /\ W \in (SUBSET T) \ {T}
    BY EscolhaPertence
  <2>2. Soma(f, T) = f[x] + Soma(f, U)
    BY <1>0, SomaRecursiva
  <2>3. CASE b = x
    BY <2>2, <2>3
  <2>4. CASE b # x
    <3>1. b \in U /\ x \in W /\ Z = W \ {x}
      BY <2>1, <2>4
    <3>2. Soma(f, U) = f[b] + Soma(f, Z)
      <4> HIDE DEF U
      <4> QED BY <1>1, <2>1, <3>1
    <3>3. Soma(f, W) = f[x] + Soma(f, Z)
      <4> HIDE DEF W, Z
      <4> QED BY <1>1, <2>1, <3>1
    <3>4. f[x] \in Int /\ f[b] \in Int
      BY <2>1
    <3>5. Soma(f, Z) \in Int
      BY <1>0
    <3> HIDE DEF x, U, W, Z
    <3>6. Soma(f, T) = f[b] + Soma(f, W)
      BY <2>2, <3>2, <3>3, <3>4, <3>5
    <3> QED BY <3>6 DEF W
  <2> QED BY <2>3, <2>4
<1>2. \A T \in SUBSET S : T \in B
  <2> HIDE DEF B
  <2>1. B \in SUBSET SUBSET S
    BY DEF B
  <2> QED BY <1>1, <2>1, InducaoFinita
<1> QED BY <1>2

\* Changing the value at one element moves the sum by the difference.
LEMMA SomaMuda ==
    ASSUME NEW f, NEW g, NEW S, IsFiniteSet(S), NEW a \in S,
           \A x \in S : f[x] \in Int /\ g[x] \in Int,
           \A x \in S \ {a} : f[x] = g[x]
    PROVE  Soma(g, S) = Soma(f, S) - f[a] + g[a]
<1> DEFINE T == S \ {a}
<1>1. IsFiniteSet(T)
  BY FS_Subset
<1>2. Soma(f, S) = f[a] + Soma(f, T) /\ Soma(g, S) = g[a] + Soma(g, T)
  BY SomaSem
<1>3. Soma(f, T) = Soma(g, T)
  <2> \A x \in T : f[x] = g[x]
    OBVIOUS
  <2> HIDE DEF T
  <2> QED BY <1>1, SomaIgual
<1>4. Soma(f, T) \in Int /\ f[a] \in Int /\ g[a] \in Int
  <2>1. \A x \in T : f[x] \in Int
    OBVIOUS
  <2> HIDE DEF T
  <2> QED BY <1>1, <2>1, SomaInteira
<1> QED BY <1>2, <1>3, <1>4

\* A sum of zeros.
LEMMA SomaNula ==
    ASSUME NEW f, NEW S, IsFiniteSet(S), \A x \in S : f[x] = 0
    PROVE  Soma(f, S) = 0
<1> DEFINE B == {T \in SUBSET S : Soma(f, T) = 0}
<1>1. ASSUME NEW T \in SUBSET S, \A U \in (SUBSET T) \ {T} : U \in B PROVE T \in B
  <2>1. IsFiniteSet(T)
    BY FS_Subset
  <2>2. CASE T = {}
    BY <2>2, SomaVazia
  <2>3. CASE T # {}
    <3> DEFINE x == Escolha(T)
               U == T \ {x}
    <3>1. x \in T /\ x \in S /\ U \in (SUBSET T) \ {T}
      BY <2>3, EscolhaPertence
    <3>2. Soma(f, U) = 0
      <4> HIDE DEF U
      <4> QED BY <1>1, <3>1
    <3>3. Soma(f, T) = f[x] + Soma(f, U)
      BY <2>1, <2>3, SomaRecursiva
    <3> QED BY <3>1, <3>2, <3>3
  <2> QED BY <2>2, <2>3
<1>2. \A T \in SUBSET S : T \in B
  <2> HIDE DEF B
  <2>1. B \in SUBSET SUBSET S
    BY DEF B
  <2> QED BY <1>1, <2>1, InducaoFinita
<1> QED BY <1>2

\* SumFunction, the form the models use: over a function's whole domain.
LEMMA SomaFuncao ==
    ASSUME NEW f, NEW S, DOMAIN f = S
    PROVE  SumFunction(f) = Soma(f, S)
BY DEF SumFunction, Soma

\* A sum of naturals is a natural.
LEMMA SomaNatural ==
    ASSUME NEW f, NEW S, IsFiniteSet(S), \A x \in S : f[x] \in Nat
    PROVE  Soma(f, S) \in Nat
<1> DEFINE B == {T \in SUBSET S : Soma(f, T) \in Nat}
<1>1. ASSUME NEW T \in SUBSET S, \A U \in (SUBSET T) \ {T} : U \in B PROVE T \in B
  <2>1. IsFiniteSet(T)
    BY FS_Subset
  <2>2. CASE T = {}
    BY <2>2, SomaVazia
  <2>3. CASE T # {}
    <3>1. PICK a \in T : TRUE
      BY <2>3
    <3>2. Soma(f, T) = f[a] + Soma(f, T \ {a})
      BY <2>1, SomaSem
    <3>3. T \ {a} \in (SUBSET T) \ {T}
      OBVIOUS
    <3>4. Soma(f, T \ {a}) \in Nat
      BY <1>1, <3>3
    <3>5. QED
      BY <3>2, <3>4
  <2>4. QED
    BY <2>2, <2>3
<1>2. \A T \in SUBSET S : T \in B
  <2> HIDE DEF B
  <2>1. B \in SUBSET SUBSET S
    BY DEF B
  <2>2. QED
    BY <1>1, <2>1, InducaoFinita
<1>3. QED
  BY <1>2

\* Where the function is zero it may be left out of the sum.
LEMMA SomaParcial ==
    ASSUME NEW f, NEW S, IsFiniteSet(S), \A x \in S : f[x] \in Int,
           NEW P \in SUBSET S, \A x \in S \ P : f[x] = 0
    PROVE  Soma(f, S) = Soma(f, P)
<1> DEFINE B == {T \in SUBSET S : Soma(f, T) = Soma(f, T \cap P)}
<1>1. ASSUME NEW T \in SUBSET S, \A U \in (SUBSET T) \ {T} : U \in B PROVE T \in B
  <2>1. IsFiniteSet(T)
    BY FS_Subset
  <2>2. CASE T \subseteq P
    <3>1. T \cap P = T
      BY <2>2
    <3>2. QED
      BY <3>1
  <2>3. CASE ~(T \subseteq P)
    <3>1. PICK a \in T \ P : TRUE
      BY <2>3
    <3>2. Soma(f, T) = f[a] + Soma(f, T \ {a})
      BY <2>1, SomaSem
    <3>3. T \ {a} \in (SUBSET T) \ {T} /\ (T \ {a}) \cap P = T \cap P
      BY <3>1
    <3>4. Soma(f, T \ {a}) = Soma(f, T \cap P)
      BY <1>1, <3>3
    <3>5. IsFiniteSet(T \ {a})
      BY <2>1, FS_Subset
    <3>6. Soma(f, T \ {a}) \in Int
      BY <3>5, SomaInteira
    <3>7. QED
      BY <3>1, <3>2, <3>4, <3>6
  <2>4. QED
    BY <2>2, <2>3
<1>2. \A T \in SUBSET S : T \in B
  <2> HIDE DEF B
  <2>1. B \in SUBSET SUBSET S
    BY DEF B
  <2>2. QED
    BY <1>1, <2>1, InducaoFinita
<1>3. S \in SUBSET S /\ S \cap P = P
  OBVIOUS
<1>4. QED
  BY <1>2, <1>3

\* A finite set of integers has its maximum among its elements.
LEMMA MaximoPertence ==
    ASSUME NEW S \in SUBSET Int, IsFiniteSet(S), S # {}
    PROVE  Max(S) \in S /\ \A y \in S : Max(S) >= y
<1> DEFINE B == {T \in SUBSET S : T = {} \/ \E x \in T : \A y \in T : x >= y}
<1>1. ASSUME NEW T \in SUBSET S, \A U \in (SUBSET T) \ {T} : U \in B PROVE T \in B
  <2>1. CASE T = {}
    BY <2>1
  <2>2. CASE T # {}
    <3>1. PICK a \in T : TRUE
      BY <2>2
    <3>2. T \ {a} \in (SUBSET T) \ {T}
      OBVIOUS
    <3>3. T \ {a} = {} \/ \E x \in T \ {a} : \A y \in T \ {a} : x >= y
      BY <1>1, <3>2
    <3>4. CASE T \ {a} = {}
      <4>1. T = {a} /\ a \in Int
        BY <3>4
      <4>2. a >= a
        BY <4>1
      <4>3. QED
        BY <4>1, <4>2
    <3>5. CASE \E x \in T \ {a} : \A y \in T \ {a} : x >= y
      <4>1. PICK x \in T \ {a} : \A y \in T \ {a} : x >= y
        BY <3>5
      <4>2. a \in Int /\ x \in Int /\ \A y \in T : y \in Int
        OBVIOUS
      <4>3. CASE x >= a
        BY <4>1, <4>3
      <4>4. CASE a >= x
        <5>1. \A y \in T : a >= y
          BY <4>1, <4>2, <4>4
        <5>2. QED
          BY <5>1
      <4>5. QED
        BY <4>2, <4>3, <4>4
    <3>6. QED
      BY <3>3, <3>4, <3>5
  <2>3. QED
    BY <2>1, <2>2
<1>2. \A T \in SUBSET S : T \in B
  <2> HIDE DEF B
  <2>1. B \in SUBSET SUBSET S
    BY DEF B
  <2>2. QED
    BY <1>1, <2>1, InducaoFinita
<1>3. \E x \in S : \A y \in S : x >= y
  BY <1>2
<1>4. QED
  BY <1>3 DEF Max

\* The values of a function on a finite set are finitely many.
LEMMA ImagemFinita ==
    ASSUME NEW f, NEW S, IsFiniteSet(S)
    PROVE  IsFiniteSet({f[x] : x \in S})
<1> DEFINE T == {f[x] : x \in S}
           g == [x \in S |-> f[x]]
<1>1. g \in Surjection(S, T)
  BY DEF Surjection
<1>2. QED
  BY <1>1, FS_Surjection
=============================================================================
