------------------------ MODULE StagePlacementProofs ------------------------
(***************************************************************************)
(* The planner of stages, for any model, machines, policies and beams: its *)
(* search for a completion is exact, so the beam never keeps a dead end    *)
(* nor drops the only way out, and what it plans fits.                     *)
(***************************************************************************)
EXTENDS StagePlacement, FiniteSetTheorems, SequenceTheorems, TLAPS

-----------------------------------------------------------------------------
\* The least of some numbers, from the well-foundedness of their order.
LEMMA LeastOf ==
  ASSUME NEW S, S \subseteq Nat, S # {}
  PROVE  \E n \in S : \A m \in S : n <= m
<1> DEFINE R == {ss \in Nat \X Nat : ss[1] < ss[2]}
<1>1. IsWellFoundedOn(R, Nat)
  BY NatLessThanWellFounded DEF OpToRel
<1> HIDE DEF R
<1>2. PICK n \in S : \A m \in S : <<m, n>> \notin R
  BY <1>1, WFMin
<1>3. \A m \in S : ~(m < n)
  BY <1>2 DEF R
<1> QED
  BY <1>3

\* Among some subsets of a finite set there is one that no other is one element
\* short of: induction on finite sets.
LEMMA LeastSubset ==
  ASSUME NEW D, IsFiniteSet(D), NEW B, B \subseteq SUBSET D, B # {}
  PROVE  \E s \in B : \A x \in s : s \ {x} \notin B
<1>1. IsWellFoundedOn(StrictSubsetOrdering(D), FiniteSubsetsOf(D))
  BY FS_StrictSubsetOrderingWellFounded
<1>2. B \subseteq FiniteSubsetsOf(D)
  BY FS_FiniteSubsetsOfFinite
<1>3. PICK s \in B : \A t \in B : <<t, s>> \notin StrictSubsetOrdering(D)
  BY <1>1, <1>2, WFMin
<1>4. \A x \in s : <<s \ {x}, s>> \in StrictSubsetOrdering(D)
  BY DEF StrictSubsetOrdering
<1> QED
  BY <1>3, <1>4

\* f sums up the weights w of the elements of any subset of D.
Sums(f, D, w) ==
    /\ f \in [SUBSET D -> Nat] /\ f[{}] = 0
    /\ \A s \in SUBSET D : \A x \in s : f[s] = w[x] + f[s \ {x}]

\* There is such a function.
LEMMA SumExists ==
  ASSUME NEW D, IsFiniteSet(D), NEW w \in [D -> Nat]
  PROVE  \E f : Sums(f, D, w)
<1> DEFINE B == {s \in SUBSET D : ~\E f : Sums(f, s, w)}
<1>1. SUFFICES ASSUME D \in B PROVE FALSE
  OBVIOUS
<1>2. PICK s \in B : \A x \in s : s \ {x} \notin B
  <2> HIDE DEF B
  <2>1. B \subseteq SUBSET D
    BY DEF B
  <2> QED
    BY <1>1, <2>1, LeastSubset
<1>3. CASE s = {}
  <2>1. Sums([t \in SUBSET {} |-> 0], {}, w)
    BY DEF Sums
  <2> QED
    BY <1>2, <1>3, <2>1
<1>4. CASE s # {}
  <2>1. PICK x \in s : TRUE
    BY <1>4
  <2>2. PICK f : Sums(f, s \ {x}, w)
    BY <1>2, <2>1
  <2> DEFINE g == [t \in SUBSET s |-> IF x \in t THEN w[x] + f[t \ {x}] ELSE f[t]]
  <2>3. \A t \in SUBSET s : t \ {x} \in SUBSET (s \ {x}) /\ (x \notin t => t \in SUBSET (s \ {x}))
    OBVIOUS
  <2>4. w[x] \in Nat /\ \A y \in s : w[y] \in Nat
    BY <1>2, <2>1
  <2>5. g \in [SUBSET s -> Nat] /\ g[{}] = 0
    BY <2>2, <2>3, <2>4 DEF Sums
  <2>6. ASSUME NEW t \in SUBSET s, NEW y \in t
        PROVE  g[t] = w[y] + g[t \ {y}]
    <3>1. CASE x \notin t
      BY <2>2, <2>3, <3>1 DEF Sums
    <3>2. CASE y = x
      BY <3>2
    <3>3. CASE x \in t /\ y # x
      <4>1. /\ t \ {x} \in SUBSET (s \ {x}) /\ y \in t \ {x}
            /\ (t \ {x}) \ {y} = (t \ {y}) \ {x}
            /\ (t \ {y}) \ {x} \in SUBSET (s \ {x})
        BY <3>3
      <4>2. f[t \ {x}] = w[y] + f[(t \ {y}) \ {x}] /\ f[(t \ {y}) \ {x}] \in Nat
        BY <2>2, <4>1 DEF Sums
      <4>3. g[t] = w[x] + f[t \ {x}] /\ g[t \ {y}] = w[x] + f[(t \ {y}) \ {x}]
        BY <3>3
      <4>4. w[x] \in Nat /\ w[y] \in Nat
        BY <2>4
      <4> HIDE DEF g
      <4> QED
        BY <4>2, <4>3, <4>4
    <3> QED
      BY <3>1, <3>2, <3>3
  <2> HIDE DEF g
  <2>7. Sums(g, s, w)
    BY <2>5, <2>6 DEF Sums
  <2> QED
    BY <1>2, <2>7
<1> QED
  BY <1>3, <1>4

\* More elements, a larger sum.
LEMMA SumGrows ==
  ASSUME NEW D, IsFiniteSet(D), NEW w \in [D -> Nat], NEW f, Sums(f, D, w),
         NEW S \in SUBSET D, NEW T \in SUBSET S
  PROVE  f[T] <= f[S]
<1> DEFINE B == {s \in SUBSET S : T \subseteq s /\ ~(f[T] <= f[s])}
<1>1. SUFFICES ASSUME B # {} PROVE FALSE
  OBVIOUS
<1>2. PICK s \in B : \A x \in s : s \ {x} \notin B
  <2>1. B \subseteq SUBSET D
    OBVIOUS
  <2> HIDE DEF B
  <2> QED
    BY <1>1, <2>1, LeastSubset
<1>3. f[T] \in Nat /\ f[s] \in Nat
  BY DEF Sums
<1>4. PICK x \in s : x \notin T
  BY <1>2, <1>3
<1>5. f[s] = w[x] + f[s \ {x}] /\ w[x] \in Nat /\ f[s \ {x}] \in Nat
  BY DEF Sums
<1>6. f[T] <= f[s \ {x}]
  BY <1>2, <1>4
<1> QED
  BY <1>2, <1>3, <1>5, <1>6

\* A fold over S, which takes the elements in the order of its choices, is the
\* sum.
Any(s) == CHOOSE x \in s : TRUE
Folds(g, w, S) ==
    g = [s \in SUBSET S |-> IF s = {} THEN 0 ELSE w[Any(s)] + g[s \ {Any(s)}]]

\* Whatever order the fold chooses, it adds up the weights.
LEMMA FoldIsSum ==
  ASSUME NEW D, IsFiniteSet(D), NEW w \in [D -> Nat], NEW f, Sums(f, D, w),
         NEW S \in SUBSET D
  PROVE  /\ \E g : Folds(g, w, S)
         /\ \A g : Folds(g, w, S) => g[S] = f[S]
<1>1. ASSUME NEW s \in SUBSET S, s # {} PROVE Any(s) \in s
  BY <1>1 DEF Any
<1>2. Folds([s \in SUBSET S |-> f[s]], w, S)
  <2> DEFINE h == [s \in SUBSET S |-> f[s]]
  <2>1. ASSUME NEW s \in SUBSET S, s # {}
        PROVE  h[s] = w[Any(s)] + h[s \ {Any(s)}]
    BY <1>1, <2>1 DEF Sums
  <2>2. h[{}] = 0
    BY DEF Sums
  <2> QED
    BY <2>1, <2>2 DEF Folds
<1>3. ASSUME NEW g, Folds(g, w, S), g[S] # f[S] PROVE FALSE
  <2> DEFINE B == {s \in SUBSET S : g[s] # f[s]}
  <2>1. S \in B /\ B \subseteq SUBSET D
    BY <1>3
  <2>2. PICK s \in B : \A x \in s : s \ {x} \notin B
    <3> HIDE DEF B
    <3> QED
      BY <2>1, LeastSubset
  <2>3. s # {}
    BY <1>3 DEF Sums, Folds
  <2>4. Any(s) \in s /\ s \in SUBSET S /\ g[s] # f[s]
    BY <1>1, <2>3
  <2>5. g[s] = w[Any(s)] + g[s \ {Any(s)}]
    BY <1>3, <2>3 DEF Folds
  <2>6. f[s] = w[Any(s)] + f[s \ {Any(s)}]
    BY <2>4 DEF Sums
  <2>7. g[s \ {Any(s)}] = f[s \ {Any(s)}]
    BY <2>2, <2>4
  <2> QED
    BY <2>4, <2>5, <2>6, <2>7
<1> QED
  BY <1>2, <1>3

-----------------------------------------------------------------------------
\* The stages placed on a device and on a miner.
On(p, d)     == {i \in DOMAIN p : p[i] = d}
OnMiner(p, m) == {i \in DOMAIN p : Miner(p[i]) = m}

\* Stages that a type of device may run, and what they need there.
Allowed(d) == {i \in Stages : Type(d) \in DOMAIN ask.need[i]}
Needs(d)   == [i \in Allowed(d) |-> Need(i, d)]

\* A placement of some stages on devices of allowed types.
Typed(p) ==
    /\ DOMAIN p \subseteq Stages
    /\ \A i \in DOMAIN p : p[i] \in Devices /\ i \in Allowed(p[i])

LEMMA StagesFinite ==
  /\ IsFiniteSet(Stages) /\ IsFiniteSet(Devices)
  /\ \A d : IsFiniteSet(Allowed(d))
<1> \A n \in Nat : IsFiniteSet(1..n)
  BY FS_Interval
<1>1. IsFiniteSet(Stages)
  BY PlacementAssumption DEF Stages
<1>2. IsFiniteSet(Devices)
  BY PlacementAssumption DEF Devices
<1>3. \A d : Allowed(d) \in SUBSET Stages
  BY DEF Allowed
<1> QED
  BY <1>1, <1>2, <1>3, FS_Subset

\* A stage needs memory on every device that may hold it.
LEMMA NeedsPositive ==
  ASSUME ask \in Asks, NEW d
  PROVE  /\ \A i \in Allowed(d) : Need(i, d) \in Nat \ {0}
         /\ Needs(d) \in [Allowed(d) -> Nat]
BY AskAssumption DEF Allowed, Needs, Need

\* What a device uses is the sum of what its stages need.
LEMMA UsedIsSum ==
  ASSUME ask \in Asks, NEW d
  PROVE  \E f : /\ Sums(f, Allowed(d), Needs(d))
                /\ \A p : Typed(p) => On(p, d) \subseteq Allowed(d) /\ Used(p, d) = f[On(p, d)]
<1>1. IsFiniteSet(Allowed(d)) /\ Needs(d) \in [Allowed(d) -> Nat]
  BY StagesFinite, NeedsPositive
<1>2. PICK f : Sums(f, Allowed(d), Needs(d))
  BY <1>1, SumExists
<1>3. ASSUME NEW p, Typed(p)
      PROVE  On(p, d) \subseteq Allowed(d) /\ Used(p, d) = f[On(p, d)]
  <2> DEFINE S == On(p, d)
             P(g) == g = [s \in SUBSET S |->
                 IF s = {} THEN 0 ELSE Need(CHOOSE x \in s : TRUE, d) + g[s \ {CHOOSE x \in s : TRUE}]]
             g == CHOOSE h : P(h)
  <2>1. S \in SUBSET Allowed(d)
    BY <1>3 DEF Typed, On
  <2>2. Used(p, d) = g[S]
    BY DEF Used, On, MapThenSumSet, MapThenFoldSet
  <2>3. ASSUME NEW h PROVE P(h) <=> Folds(h, Needs(d), S)
    <3>1. ASSUME NEW s \in SUBSET S, s # {}
          PROVE  Needs(d)[Any(s)] = Need(Any(s), d)
      BY <2>1, <3>1 DEF Needs, Any
    <3> HIDE DEF S, g
    <3>2. [s \in SUBSET S |-> IF s = {} THEN 0 ELSE Need(Any(s), d) + h[s \ {Any(s)}]]
          = [s \in SUBSET S |-> IF s = {} THEN 0 ELSE Needs(d)[Any(s)] + h[s \ {Any(s)}]]
      BY <3>1
    <3> QED
      BY <3>2 DEF Folds, Any
  <2> HIDE DEF P, S
  <2>4. \E h : Folds(h, Needs(d), S)
    BY <1>1, <1>2, <2>1, FoldIsSum
  <2>5. P(g)
    BY <2>3, <2>4
  <2>6. g[S] = f[S]
    <3>1. Folds(g, Needs(d), S)
      BY <2>3, <2>5
    <3> HIDE DEF g
    <3> QED
      BY <1>1, <1>2, <2>1, <3>1, FoldIsSum
  <2> QED
    BY <2>1, <2>2, <2>6 DEF S
<1> QED
  BY <1>2, <1>3

\* A placement that puts more on a device uses more of it.
LEMMA UsedFacts ==
  ASSUME ask \in Asks, NEW d, NEW q, Typed(q)
  PROVE  /\ Used(q, d) \in Nat
         /\ \A p : Typed(p) /\ On(p, d) \subseteq On(q, d) => Used(p, d) <= Used(q, d)
         /\ \A i \in On(q, d) : Need(i, d) <= Used(q, d)
<1>1. PICK f : /\ Sums(f, Allowed(d), Needs(d))
               /\ \A p : Typed(p) => On(p, d) \subseteq Allowed(d) /\ Used(p, d) = f[On(p, d)]
  BY UsedIsSum
<1>2. IsFiniteSet(Allowed(d)) /\ Needs(d) \in [Allowed(d) -> Nat]
  BY StagesFinite, NeedsPositive
<1>3. On(q, d) \in SUBSET Allowed(d) /\ Used(q, d) = f[On(q, d)]
  BY <1>1
<1>4. Used(q, d) \in Nat
  BY <1>1, <1>3 DEF Sums
<1>5. ASSUME NEW p, Typed(p), On(p, d) \subseteq On(q, d)
      PROVE  Used(p, d) <= Used(q, d)
  <2>1. f[On(p, d)] <= f[On(q, d)]
    BY <1>1, <1>2, <1>3, <1>5, SumGrows
  <2> QED
    BY <1>1, <1>3, <1>5, <2>1
<1>6. ASSUME NEW i \in On(q, d)
      PROVE  Need(i, d) <= Used(q, d)
  <2>1. /\ Used(q, d) = Needs(d)[i] + f[On(q, d) \ {i}]
        /\ f[On(q, d) \ {i}] \in Nat
    BY <1>1, <1>3 DEF Sums
  <2>2. Needs(d)[i] = Need(i, d) /\ Need(i, d) \in Nat
    BY <1>3, NeedsPositive DEF Needs
  <2> QED
    BY <2>1, <2>2
<1> QED
  BY <1>4, <1>5, <1>6

\* A device with no stage uses nothing.
LEMMA UnusedFacts ==
  ASSUME ask \in Asks, NEW d, NEW p, Typed(p), On(p, d) = {}
  PROVE  Used(p, d) = 0
<1>1. PICK f : /\ Sums(f, Allowed(d), Needs(d))
               /\ \A q : Typed(q) => On(q, d) \subseteq Allowed(d) /\ Used(q, d) = f[On(q, d)]
  BY UsedIsSum
<1> QED
  BY <1>1 DEF Sums

\* A placement that puts more on a miner counts more stages there.
LEMMA PlacedFacts ==
  ASSUME NEW m, NEW q, Typed(q)
  PROVE  /\ Placed(q, m) \in Nat
         /\ \A p : Typed(p) /\ OnMiner(p, m) \subseteq OnMiner(q, m) => Placed(p, m) <= Placed(q, m)
<1>1. IsFiniteSet(OnMiner(q, m))
  <2>1. OnMiner(q, m) \in SUBSET Stages
    BY DEF OnMiner, Typed
  <2> QED
    BY <2>1, StagesFinite, FS_Subset
<1>2. \A p : Placed(p, m) = Cardinality(OnMiner(p, m))
  BY DEF Placed, OnMiner
<1> QED
  BY <1>1, <1>2, FS_CardinalityType, FS_Subset

\* One more stage.
OneMore(q, p, i, d) ==
    /\ i \in Stages \ DOMAIN p /\ d \in Devices /\ i \in Allowed(d)
    /\ DOMAIN q = DOMAIN p \cup {i} /\ q[i] = d /\ \A j \in DOMAIN p : q[j] = p[j]

\* One stage more costs its device what the stage needs, its miner one place,
\* and nobody else anything.
LEMMA OneMoreFacts ==
  ASSUME ask \in Asks, NEW p, Typed(p), NEW i, NEW d, NEW q, OneMore(q, p, i, d)
  PROVE  /\ Typed(q)
         /\ \A e : Used(q, e) = IF e = d THEN Used(p, d) + Need(i, d) ELSE Used(p, e)
         /\ \A m : Placed(q, m) = IF m = Miner(d) THEN Placed(p, m) + 1 ELSE Placed(p, m)
<1>1. Typed(q)
  BY DEF OneMore, Typed
<1>2. ASSUME NEW e
      PROVE  Used(q, e) = IF e = d THEN Used(p, d) + Need(i, d) ELSE Used(p, e)
  <2>1. PICK f : /\ Sums(f, Allowed(e), Needs(e))
                 /\ \A r : Typed(r) => On(r, e) \subseteq Allowed(e) /\ Used(r, e) = f[On(r, e)]
    BY UsedIsSum
  <2>2. /\ On(q, e) \in SUBSET Allowed(e) /\ Used(q, e) = f[On(q, e)]
        /\ On(p, e) \in SUBSET Allowed(e) /\ Used(p, e) = f[On(p, e)]
    BY <1>1, <2>1
  <2>3. CASE e = d
    <3>1. i \in On(q, d) /\ On(p, d) = On(q, d) \ {i}
      BY DEF OneMore, On
    <3>2. f[On(q, e)] = Needs(e)[i] + f[On(q, e) \ {i}]
      BY <2>1, <2>2, <2>3, <3>1 DEF Sums
    <3>3. Needs(e)[i] = Need(i, d) /\ Need(i, d) \in Nat
      BY <2>3, NeedsPositive DEF OneMore, Needs
    <3>4. Used(p, d) \in Nat
      BY UsedFacts
    <3> QED
      BY <2>2, <2>3, <3>1, <3>2, <3>3, <3>4
  <2>4. CASE e # d
    <3>1. On(q, e) = On(p, e)
      BY <2>4 DEF OneMore, On
    <3> QED
      BY <2>2, <2>4, <3>1
  <2> QED
    BY <2>3, <2>4
<1>3. ASSUME NEW m
      PROVE  Placed(q, m) = IF m = Miner(d) THEN Placed(p, m) + 1 ELSE Placed(p, m)
  <2>1. Placed(q, m) = Cardinality(OnMiner(q, m)) /\ Placed(p, m) = Cardinality(OnMiner(p, m))
    BY DEF Placed, OnMiner
  <2>2. i \notin OnMiner(p, m) /\ IsFiniteSet(OnMiner(p, m))
    <3>1. OnMiner(p, m) \in SUBSET Stages /\ i \notin OnMiner(p, m)
      BY DEF OnMiner, Typed, OneMore
    <3> QED
      BY <3>1, StagesFinite, FS_Subset
  <2>3. CASE m = Miner(d)
    <3>1. OnMiner(q, m) = OnMiner(p, m) \cup {i}
      BY <2>3 DEF OnMiner, OneMore
    <3> QED
      BY <2>1, <2>2, <2>3, <3>1, FS_AddElement
  <2>4. CASE m # Miner(d)
    <3>1. OnMiner(q, m) = OnMiner(p, m)
      BY <2>4 DEF OnMiner, OneMore
    <3> QED
      BY <2>1, <2>4, <3>1
  <2> QED
    BY <2>3, <2>4
<1> QED
  BY <1>1, <1>2, <1>3

-----------------------------------------------------------------------------
\* The search for a completion (Completes) finds one if there is one.  It looks
\* only at the devices of the stages that are left.
CompletesTo(p, q) ==
    /\ q \in [Stages -> Devices]
    /\ \A i \in DOMAIN p : q[i] = p[i]
    /\ \A i \in Stages \ DOMAIN p :
          /\ q[i] \in Eligible(i) /\ Used(q, q[i]) <= budget[q[i]]
          /\ Placed(q, Miner(q[i])) <= ask.most[Miner(q[i])]

Completable(p) == \E q : CompletesTo(p, q)

Asked == ask \in Asks /\ budget \in [Devices -> Nat]

\* What a step of the search adds to a placement is such a stage.
LEMMA PartialFacts ==
  ASSUME NEW p \in Partial
  PROVE  /\ Typed(p) /\ p \in [DOMAIN p -> Devices]
         /\ \A i \in Stages \ DOMAIN p : \A d \in Eligible(i) :
               With(p, i, d) \in Partial /\ OneMore(With(p, i, d), p, i, d)
<1>1. PICK S \in SUBSET Stages : p \in [S -> Devices]
  BY DEF Partial
<1>2. \A i \in DOMAIN p : p[i] \in Eligible(i)
  BY DEF Partial
<1>3. Typed(p)
  BY <1>1, <1>2 DEF Typed, Eligible, Allowed
<1>4. ASSUME NEW i \in Stages \ DOMAIN p, NEW d \in Eligible(i)
      PROVE  With(p, i, d) \in Partial /\ OneMore(With(p, i, d), p, i, d)
  <2> DEFINE r == With(p, i, d)
  <2>1. /\ DOMAIN r = S \cup {i} /\ r[i] = d /\ \A j \in S : r[j] = p[j]
        /\ S \cup {i} \in SUBSET Stages /\ r \in [S \cup {i} -> Devices]
    BY <1>1 DEF With, Eligible
  <2> HIDE DEF r
  <2>2. \A j \in DOMAIN r : r[j] \in Eligible(j)
    BY <1>1, <1>2, <2>1
  <2>3. r \in Partial
    BY <2>1, <2>2 DEF Partial
  <2>4. OneMore(r, p, i, d)
    BY <1>1, <2>1 DEF OneMore, Eligible, Allowed
  <2> QED
    BY <2>3, <2>4 DEF r
<1> QED
  BY <1>1, <1>3, <1>4

\* A completion of p is well typed, and its stages that are left can go where it
\* has them.
LEMMA CompletionFacts ==
  ASSUME Asked, NEW p \in Partial, NEW q, CompletesTo(p, q)
  PROVE  /\ Typed(q) /\ q \in Partial
         /\ \A i \in Stages \ DOMAIN p : q[i] \in Options(p, i)
<1>0. Typed(p)
  BY PartialFacts
<1>1. q \in Partial
  <2>1. q \in [Stages -> Devices] /\ \A i \in DOMAIN q : q[i] \in Eligible(i)
    BY DEF CompletesTo, Partial
  <2> QED
    BY <2>1 DEF Partial
<1>2. Typed(q)
  BY <1>1, PartialFacts
<1>3. ASSUME NEW i \in Stages \ DOMAIN p
      PROVE  q[i] \in Options(p, i)
  <2> DEFINE d == q[i]
             r == With(p, i, d)
  <2>1. /\ d \in Eligible(i) /\ d \in Devices
        /\ Used(q, d) <= budget[d] /\ Placed(q, Miner(d)) <= ask.most[Miner(d)]
    BY DEF CompletesTo
  <2>2. OneMore(r, p, i, d)
    BY <2>1, PartialFacts
  <2>3. /\ Typed(r) /\ Used(r, d) = Used(p, d) + Need(i, d)
        /\ Placed(r, Miner(d)) = Placed(p, Miner(d)) + 1
    BY <1>0, <2>2, OneMoreFacts DEF Asked
  <2>4. On(r, d) \subseteq On(q, d) /\ OnMiner(r, Miner(d)) \subseteq OnMiner(q, Miner(d))
    <3>1. DOMAIN r \subseteq DOMAIN q /\ \A j \in DOMAIN r : r[j] = q[j]
      <4> HIDE DEF r
      <4> QED
        BY <1>0, <2>2 DEF OneMore, CompletesTo, Typed
    <3> HIDE DEF r
    <3> QED
      BY <3>1 DEF On, OnMiner
  <2>5. /\ Used(r, d) <= Used(q, d) /\ Placed(r, Miner(d)) <= Placed(q, Miner(d))
        /\ Used(q, d) \in Nat /\ Used(r, d) \in Nat
        /\ Placed(q, Miner(d)) \in Nat /\ Placed(r, Miner(d)) \in Nat
        /\ Placed(p, Miner(d)) \in Nat
    BY <1>0, <1>2, <2>3, <2>4, UsedFacts, PlacedFacts DEF Asked
  <2>6. budget[d] \in Nat /\ ask.most[Miner(d)] \in Nat
    BY <2>1, AskAssumption DEF Asked, Miner
  <2>7. Used(p, d) + Need(i, d) <= budget[d] /\ Placed(p, Miner(d)) < ask.most[Miner(d)]
    BY <2>1, <2>3, <2>5, <2>6
  <2> QED
    BY <2>1, <2>7 DEF Options
<1> QED
  BY <1>1, <1>2, <1>3

\* Stage i goes anywhere its completion has it, and from there the rest does.
LEMMA SearchStep ==
  ASSUME Asked, NEW p \in Partial, NEW i \in Stages \ DOMAIN p
  PROVE  Completable(p) <=> /\ \A j \in Stages \ DOMAIN p : Options(p, j) # {}
                            /\ \E d \in Options(p, i) : Completable(With(p, i, d))
<1>0. Typed(p)
  BY PartialFacts
<1>1. ASSUME Completable(p)
      PROVE  /\ \A j \in Stages \ DOMAIN p : Options(p, j) # {}
             /\ \E d \in Options(p, i) : Completable(With(p, i, d))
  <2>1. PICK q : CompletesTo(p, q)
    BY <1>1 DEF Completable
  <2>2. \A j \in Stages \ DOMAIN p : q[j] \in Options(p, j)
    BY <2>1, CompletionFacts
  <2>3. q[i] \in Eligible(i)
    BY <2>1 DEF CompletesTo
  <2>4. OneMore(With(p, i, q[i]), p, i, q[i])
    BY <2>3, PartialFacts
  <2>5. CompletesTo(With(p, i, q[i]), q)
    BY <2>1, <2>4 DEF CompletesTo, OneMore
  <2> QED
    BY <2>2, <2>5 DEF Completable
<1>2. ASSUME \A j \in Stages \ DOMAIN p : Options(p, j) # {},
             NEW d \in Options(p, i), Completable(With(p, i, d))
      PROVE  Completable(p)
  <2> DEFINE r == With(p, i, d)
  <2>1. PICK q : CompletesTo(r, q)
    BY <1>2 DEF Completable
  <2>2. /\ d \in Eligible(i) /\ d \in Devices
        /\ Used(p, d) + Need(i, d) <= budget[d] /\ Placed(p, Miner(d)) < ask.most[Miner(d)]
    BY DEF Options, Eligible
  <2>3. r \in Partial /\ OneMore(r, p, i, d)
    BY <2>2, PartialFacts
  <2>4. Typed(r) /\ Typed(q)
    BY <2>1, <2>3, PartialFacts, CompletionFacts
  <2>5. /\ Used(r, d) = Used(p, d) + Need(i, d) /\ Placed(r, Miner(d)) = Placed(p, Miner(d)) + 1
        /\ Placed(p, Miner(d)) \in Nat
    BY <1>0, <2>3, OneMoreFacts, PlacedFacts DEF Asked
  <2>6. /\ q \in [Stages -> Devices] /\ q[i] = d /\ \A j \in DOMAIN p : q[j] = p[j]
        /\ \A j \in Stages \ DOMAIN p : j # i =>
              /\ q[j] \in Eligible(j) /\ Used(q, q[j]) <= budget[q[j]]
              /\ Placed(q, Miner(q[j])) <= ask.most[Miner(q[j])]
    BY <2>1, <2>3 DEF CompletesTo, OneMore
  <2>7. Used(q, d) <= budget[d]
    <3>1. CASE \E j \in Stages \ DOMAIN r : q[j] = d
      BY <2>1, <3>1 DEF CompletesTo
    <3>2. CASE ~\E j \in Stages \ DOMAIN r : q[j] = d
      <4>1. On(q, d) \subseteq On(r, d)
        BY <2>1, <3>2 DEF CompletesTo, On
      <4>2. Used(q, d) <= Used(r, d) /\ Used(r, d) \in Nat /\ Used(q, d) \in Nat
        BY <2>4, <4>1, UsedFacts DEF Asked
      <4> QED
        BY <2>2, <2>5, <4>2 DEF Asked
    <3> QED
      BY <3>1, <3>2
  <2>8. Placed(q, Miner(d)) <= ask.most[Miner(d)]
    <3>1. CASE \E j \in Stages \ DOMAIN r : Miner(q[j]) = Miner(d)
      BY <2>1, <3>1 DEF CompletesTo
    <3>2. CASE ~\E j \in Stages \ DOMAIN r : Miner(q[j]) = Miner(d)
      <4>1. OnMiner(q, Miner(d)) \subseteq OnMiner(r, Miner(d))
        BY <2>1, <3>2 DEF CompletesTo, OnMiner
      <4>2. /\ Placed(q, Miner(d)) <= Placed(r, Miner(d))
            /\ Placed(r, Miner(d)) \in Nat /\ Placed(q, Miner(d)) \in Nat
        BY <2>4, <4>1, PlacedFacts
      <4> QED
        BY <2>2, <2>5, <4>2, AskAssumption DEF Asked, Miner
    <3> QED
      BY <3>1, <3>2
  <2>9. CompletesTo(p, q)
    BY <2>2, <2>6, <2>7, <2>8 DEF CompletesTo
  <2> QED
    BY <2>9 DEF Completable
<1> QED
  BY <1>1, <1>2

\* The stage that the search places next.
Left(p)  == Stages \ DOMAIN p
Opts(p)  == [i \in Left(p) |-> Options(p, i)]
First(p)  ==
    CHOOSE i \in Left(p) : \A j \in Left(p) :
        \/ Cardinality(Opts(p)[i]) < Cardinality(Opts(p)[j])
        \/ Cardinality(Opts(p)[i]) = Cardinality(Opts(p)[j]) /\ i <= j

\* The search goes on with one of the stages that are left.
LEMMA FirstIsLeft ==
  ASSUME NEW p, Left(p) # {}
  PROVE  First(p) \in Left(p)
<1> DEFINE n(i) == Cardinality(Opts(p)[i])
           N    == {n(i) : i \in Left(p)}
<1>1. \A i \in Left(p) : n(i) \in Nat
  <2>1. \A i \in Left(p) : Opts(p)[i] \in SUBSET Devices
    BY DEF Opts, Options, Eligible
  <2> QED
    BY <2>1, StagesFinite, FS_Subset, FS_CardinalityType
<1> HIDE DEF n
<1>2. PICK a \in N : \A b \in N : a <= b
  <2>1. N \subseteq Nat /\ N # {}
    BY <1>1
  <2> HIDE DEF N
  <2> QED
    BY <2>1, LeastOf
<1> DEFINE M == {i \in Left(p) : n(i) = a}
<1>3. PICK i \in M : \A j \in M : i <= j
  <2>1. M \subseteq Nat /\ M # {}
    BY PlacementAssumption DEF Left, Stages
  <2> HIDE DEF M
  <2> QED
    BY <2>1, LeastOf
<1>4. ASSUME NEW j \in Left(p) PROVE n(i) < n(j) \/ (n(i) = n(j) /\ i <= j)
  <2>1. n(i) = a /\ n(i) \in Nat /\ n(j) \in Nat /\ a <= n(j)
    BY <1>1, <1>2
  <2>2. n(j) = a => i <= j
    BY <1>3
  <2> QED
    BY <2>1, <2>2
<1>5. \E k \in Left(p) : \A j \in Left(p) : n(k) < n(j) \/ (n(k) = n(j) /\ k <= j)
  BY <1>4
<1> QED
  BY <1>5 DEF First, n

\* The equation that the search solves.
Searches(g) ==
    g = [p \in Partial |->
            \/ Left(p) = {}
            \/ /\ \A i \in Left(p) : Opts(p)[i] # {}
               /\ \E d \in Opts(p)[First(p)] : g[With(p, First(p), d)]]

\* Completion is a solution of its equation if there is one.
LEMMA CompletionSearches ==
  ASSUME \E g : Searches(g)
  PROVE  Searches(Completion)
<1>1. Completion = CHOOSE g : Searches(g)
  BY DEF Completion, Searches, Left, Opts, First
<1> QED
  BY <1>1

\* Whether p can be completed is a solution too.
LEMMA CompletableSearches ==
  ASSUME Asked, NEW p \in Partial
  PROVE  Completable(p) <=>
            \/ Left(p) = {}
            \/ /\ \A i \in Left(p) : Opts(p)[i] # {}
               /\ \E d \in Opts(p)[First(p)] : Completable(With(p, First(p), d))
<1>1. CASE Left(p) = {}
  <2>1. DOMAIN p = Stages /\ p \in [Stages -> Devices]
    BY <1>1, PartialFacts DEF Left, Typed
  <2>2. CompletesTo(p, p)
    BY <2>1 DEF CompletesTo
  <2> QED
    BY <1>1, <2>2 DEF Completable
<1>2. CASE Left(p) # {}
  <2>1. First(p) \in Left(p)
    BY <1>2, FirstIsLeft
  <2>2. \A i \in Left(p) : Opts(p)[i] = Options(p, i)
    BY DEF Opts
  <2> QED
    BY <1>2, <2>1, <2>2, SearchStep DEF Left
<1> QED
  BY <1>1, <1>2

\* The search with the fewest options first is exact: it fails only if there is
\* no completion.
THEOREM SearchIsExact ==
  ASSUME Asked, NEW p \in Partial
  PROVE  Completes(p) <=> Completable(p)
<1> DEFINE f == [r \in Partial |-> Completable(r)]
<1>1. ASSUME NEW r \in Partial, Left(r) # {}, NEW d \in Opts(r)[First(r)]
      PROVE  /\ With(r, First(r), d) \in Partial
             /\ Left(With(r, First(r), d)) = Left(r) \ {First(r)}
  <2>1. First(r) \in Left(r)
    BY <1>1, FirstIsLeft
  <2>2. d \in Eligible(First(r))
    BY <1>1, <2>1 DEF Opts, Options
  <2> QED
    <3> DEFINE q == With(r, First(r), d)
    <3>1. q \in Partial /\ OneMore(q, r, First(r), d)
      BY <2>1, <2>2, PartialFacts DEF Left
    <3> HIDE DEF q
    <3>2. Left(q) = Left(r) \ {First(r)}
      BY <3>1 DEF Left, OneMore
    <3> QED
      BY <3>1, <3>2 DEF q
<1>2. Searches(f)
  <2>1. ASSUME NEW r \in Partial
        PROVE  f[r] = (\/ Left(r) = {}
                       \/ /\ \A i \in Left(r) : Opts(r)[i] # {}
                          /\ \E d \in Opts(r)[First(r)] : f[With(r, First(r), d)])
    <3>1. CASE Left(r) = {}
      BY <3>1, CompletableSearches
    <3>2. CASE Left(r) # {}
      <4>1. \A d \in Opts(r)[First(r)] :
               f[With(r, First(r), d)] = Completable(With(r, First(r), d))
        BY <1>1, <3>2
      <4>2. Completable(r) <=> /\ \A i \in Left(r) : Opts(r)[i] # {}
                               /\ \E d \in Opts(r)[First(r)] : Completable(With(r, First(r), d))
        BY <3>2, CompletableSearches
      <4>3. f[r] = Completable(r)
        OBVIOUS
      <4> HIDE DEF f
      <4>4. (\E d \in Opts(r)[First(r)] : Completable(With(r, First(r), d)))
               <=> (\E d \in Opts(r)[First(r)] : f[With(r, First(r), d)])
        BY <4>1
      <4>5. Completable(r) = (/\ \A i \in Left(r) : Opts(r)[i] # {}
                              /\ \E d \in Opts(r)[First(r)] : f[With(r, First(r), d)])
        BY <4>2, <4>4 DEF Completable
      <4> QED
        BY <3>2, <4>3, <4>5
    <3> QED
      BY <3>1, <3>2
  <2> HIDE DEF f
  <2>2. f = [r \in Partial |-> f[r]]
    BY DEF f
  <2> QED
    BY <2>1, <2>2 DEF Searches
<1>3. Searches(Completion)
  BY <1>2, CompletionSearches
<1>4. ASSUME NEW r \in Partial
      PROVE  Completion[r] =
                (\/ Left(r) = {}
                 \/ /\ \A i \in Left(r) : Opts(r)[i] # {}
                    /\ \E d \in Opts(r)[First(r)] : Completion[With(r, First(r), d)])
  BY <1>3 DEF Searches
<1> DEFINE B == {Left(r) : r \in {s \in Partial : Completion[s] # Completable(s)}}
<1>5. SUFFICES ASSUME B # {} PROVE FALSE
  BY <1>4 DEF Completes
<1>6. PICK l \in B : \A i \in l : l \ {i} \notin B
  <2>1. B \subseteq SUBSET Stages
    BY DEF Left
  <2> HIDE DEF B
  <2> QED
    BY <1>5, <2>1, StagesFinite, LeastSubset
<1>7. PICK r \in Partial : l = Left(r) /\ Completion[r] # Completable(r)
  OBVIOUS
<1>8. CASE Left(r) = {}
  BY <1>4, <1>7, <1>8, CompletableSearches
<1>9. CASE Left(r) # {}
  <2>1. First(r) \in Left(r)
    BY <1>9, FirstIsLeft
  <2>2. ASSUME NEW d \in Opts(r)[First(r)]
        PROVE  Completion[With(r, First(r), d)] = Completable(With(r, First(r), d))
    BY <1>1, <1>6, <1>7, <1>9, <2>1
  <2>3. Completion[r] = (/\ \A i \in Left(r) : Opts(r)[i] # {}
                         /\ \E d \in Opts(r)[First(r)] : Completable(With(r, First(r), d)))
    BY <1>4, <1>9, <2>2
  <2>4. Completable(r) <=> /\ \A i \in Left(r) : Opts(r)[i] # {}
                           /\ \E d \in Opts(r)[First(r)] : Completable(With(r, First(r), d))
    BY <1>9, CompletableSearches
  <2>5. Completable(r) \in BOOLEAN
    BY DEF Completable
  <2> HIDE DEF B
  <2> QED
    BY <1>7, <2>3, <2>4, <2>5
<1> QED
  BY <1>8, <1>9

-----------------------------------------------------------------------------
\* Placements of the first stages, as the beam has them.
Line(p) == p \in Seq(Devices) /\ Len(p) <= NumStages

Fits(p) ==
    /\ Line(p) /\ p \in Partial
    /\ \A d \in Devices : Used(p, d) <= budget[d] /\ Placed(p, Miner(d)) <= ask.most[Miner(d)]

Prefix(q, k) == [i \in 1..k |-> q[i]]

\* A call starts from the placement of nothing.
LEMMA NothingFits == Asked => Fits(<<>>)
<1> SUFFICES ASSUME Asked PROVE Fits(<<>>)
  OBVIOUS
<1>1. DOMAIN <<>> = {} /\ <<>> \in Seq(Devices) /\ Len(<<>>) = 0 /\ <<>> \in [{} -> Devices]
  OBVIOUS
<1>2. Line(<<>>) /\ <<>> \in Partial /\ Typed(<<>>)
  <2>1. NumStages \in Nat \ {0}
    BY PlacementAssumption
  <2>2. Line(<<>>) /\ Typed(<<>>)
    BY <1>1, <2>1 DEF Line, Typed
  <2> QED
    BY <1>1, <2>2 DEF Partial
<1>3. ASSUME NEW d \in Devices PROVE Used(<<>>, d) <= budget[d]
  <2>1. On(<<>>, d) = {}
    BY <1>1 DEF On
  <2>2. Used(<<>>, d) = 0
    BY <1>2, <2>1, UnusedFacts DEF Asked
  <2> QED
    BY <2>2 DEF Asked
<1>4. ASSUME NEW d \in Devices PROVE Placed(<<>>, Miner(d)) <= ask.most[Miner(d)]
  <2>1. Placed(<<>>, Miner(d)) = Cardinality({})
    BY <1>1 DEF Placed
  <2>2. ask.most[Miner(d)] \in Nat
    BY AskAssumption DEF Asked, Miner
  <2> QED
    BY <2>1, <2>2, FS_EmptySet
<1> QED
  BY <1>2, <1>3, <1>4 DEF Fits

\* A placement that fits is a completion of each of its beginnings.
LEMMA FittingCompletes ==
  ASSUME Asked, NEW q \in Placements, Fit(q, budget)
  PROVE  /\ q \in Partial /\ Typed(q)
         /\ \A p : DOMAIN p \subseteq Stages /\ (\A i \in DOMAIN p : p[i] = q[i]) => CompletesTo(p, q)
<1>1. q \in [Stages -> Devices] /\ \A i \in Stages : q[i] \in Devices \ gone
  BY DEF Placements
<1>2. Typed(q)
  BY <1>1 DEF Typed, Fit, Allowed
<1>3. ASSUME NEW i \in Stages PROVE q[i] \in Eligible(i)
  <2>1. i \in On(q, q[i]) /\ i \in Allowed(q[i])
    BY <1>1, <1>2 DEF On, Typed
  <2>2. Need(i, q[i]) <= Used(q, q[i]) /\ Used(q, q[i]) \in Nat
    BY <1>2, <2>1, UsedFacts DEF Asked
  <2>3. Used(q, q[i]) <= budget[q[i]] /\ budget[q[i]] \in Nat
    BY <1>1 DEF Fit, Asked
  <2>4. Need(i, q[i]) \in Nat
    BY <2>1, NeedsPositive DEF Asked
  <2> QED
    BY <1>1, <2>1, <2>2, <2>3, <2>4 DEF Eligible, Allowed
<1>4. q \in Partial
  BY <1>1, <1>3 DEF Partial
<1>5. ASSUME NEW p, DOMAIN p \subseteq Stages, \A i \in DOMAIN p : p[i] = q[i]
      PROVE  CompletesTo(p, q)
  BY <1>1, <1>3, <1>5 DEF CompletesTo, Fit
<1> QED
  BY <1>2, <1>4, <1>5

\* A line of the beam and the next stage.
LEMMA LineGrows ==
  ASSUME NEW p \in Partial, Line(p), Len(p) < NumStages, NEW d \in Eligible(Len(p) + 1)
  PROVE  /\ Append(p, d) = With(p, Len(p) + 1, d)
         /\ Append(p, d) \in Partial /\ Line(Append(p, d)) /\ Len(Append(p, d)) = Len(p) + 1
         /\ OneMore(Append(p, d), p, Len(p) + 1, d)
<1> DEFINE i == Len(p) + 1
<1>1. /\ p \in Seq(Devices) /\ DOMAIN p = 1..Len(p) /\ Len(p) \in Nat
      /\ d \in Devices
  BY DEF Line, Eligible
<1>2. i \in Stages \ DOMAIN p
  BY <1>1, PlacementAssumption DEF Stages
<1>3. /\ Append(p, d) \in Seq(Devices) /\ Len(Append(p, d)) = i
      /\ Append(p, d) = With(p, i, d)
  <2>1. Append(p, d) \in Seq(Devices) /\ Len(Append(p, d)) = i /\ DOMAIN Append(p, d) = 1..i
    BY <1>1
  <2>2. \A j \in 1..i : Append(p, d)[j] = IF j = i THEN d ELSE p[j]
    BY <1>1
  <2>3. 1..i = DOMAIN p \cup {i}
    BY <1>1
  <2>4. Append(p, d) = [j \in 1..i |-> Append(p, d)[j]]
    <3> DEFINE r == Append(p, d)
    <3>1. r \in Seq(Devices) /\ Len(r) = i
      BY <2>1
    <3> HIDE DEF r
    <3>2. r \in [1..i -> Devices]
      BY <3>1, LenProperties
    <3>3. r = [j \in 1..i |-> r[j]]
      BY <3>2
    <3> QED
      BY <3>3 DEF r
  <2> QED
    BY <2>1, <2>2, <2>3, <2>4 DEF With
<1>4. With(p, i, d) \in Partial /\ OneMore(With(p, i, d), p, i, d)
  BY <1>2, PartialFacts
<1> QED
  BY <1>1, <1>3, <1>4, PlacementAssumption DEF Line

\* A stage placed on one of its options keeps within every budget.
LEMMA OptionFits ==
  ASSUME Asked, NEW p, Fits(p), Len(p) < NumStages, NEW d \in Options(p, Len(p) + 1)
  PROVE  Fits(Append(p, d))
<1> DEFINE r == Append(p, d)
           i == Len(p) + 1
<1>1. /\ d \in Eligible(i) /\ Used(p, d) + Need(i, d) <= budget[d]
      /\ Placed(p, Miner(d)) < ask.most[Miner(d)]
  BY DEF Options
<1>2. r \in Partial /\ Line(r) /\ OneMore(r, p, i, d)
  BY <1>1, LineGrows DEF Fits
<1> HIDE DEF r
<1>3. Typed(p)
  BY PartialFacts DEF Fits
<1>4. /\ \A e : Used(r, e) = IF e = d THEN Used(p, d) + Need(i, d) ELSE Used(p, e)
      /\ \A m : Placed(r, m) = IF m = Miner(d) THEN Placed(p, m) + 1 ELSE Placed(p, m)
  BY <1>2, <1>3, OneMoreFacts DEF Asked
<1>5. ASSUME NEW e \in Devices PROVE Placed(r, Miner(e)) <= ask.most[Miner(e)]
  <2>1. Placed(p, Miner(e)) \in Nat /\ ask.most[Miner(e)] \in Nat
    BY <1>3, PlacedFacts, AskAssumption DEF Asked, Miner
  <2>2. Placed(p, Miner(e)) <= ask.most[Miner(e)]
    BY DEF Fits
  <2> HIDE DEF i
  <2> QED
    BY <1>1, <1>4, <2>1, <2>2
<1>6. \A e \in Devices : Used(r, e) <= budget[e]
  BY <1>1, <1>4 DEF Fits
<1> QED
  BY <1>2, <1>5, <1>6 DEF Fits, r

-----------------------------------------------------------------------------
\* Scores are numbers, and the sort has a first placement.
LEMMA IncrementIsNat ==
  ASSUME Asked, NEW p, Fits(p), NEW i \in DOMAIN p
  PROVE  Increment(p, i) \in Nat
<1> DEFINE d    == p[i]
           used == Used(SubSeq(p, 1, i), d)
           move == IF prev # <<>> /\ ~forced THEN IF prev[i] # d THEN Migration ELSE 0 ELSE 0
<1>1. /\ p \in Seq(Devices) /\ DOMAIN p = 1..Len(p) /\ Len(p) \in Nat /\ d \in Devices
      /\ i \in 1..Len(p)
  BY DEF Fits, Line
<1>2. Typed(p) /\ d \in Eligible(i) /\ i \in Allowed(d)
  BY <1>1, PartialFacts DEF Fits, Partial, Typed
<1>3. used \in Nat
  <2> DEFINE r == SubSeq(p, 1, i)
  <2>1. DOMAIN r = 1..i /\ \A j \in 1..i : r[j] = p[j]
    BY <1>1
  <2> HIDE DEF r
  <2>2. Typed(r)
    BY <1>1, <1>2, <2>1 DEF Typed
  <2>3. Used(r, d) \in Nat
    BY <2>2, UsedFacts DEF Asked
  <2> QED
    BY <2>3 DEF r
<1>4. budget[d] \in Nat \ {0}
  <2>1. Need(i, d) \in Nat \ {0} /\ Need(i, d) <= budget[d] /\ budget[d] \in Nat
    BY <1>1, <1>2, NeedsPositive DEF Asked, Eligible
  <2> QED
    BY <2>1
<1>5. move \in Nat
  BY DEF Migration
<1>6. ask.compute[d] \in Nat /\ ask.worn[d] \in Nat /\ ask.burden[d] \in Nat
  BY <1>1, AskAssumption DEF Asked
<1>7. (IF i = 1 THEN 0 ELSE Transfer(p[i - 1], d)) \in Nat
  BY DEF Transfer
<1>8. (100 * 1000 * used) \div budget[d] \in Nat
  <2>1. 100 * 1000 * used \in Nat
    BY <1>3
  <2>2. \A m \in Nat, n \in Nat \ {0} : m \div n \in Nat
    OBVIOUS
  <2> HIDE DEF used
  <2> QED
    BY <1>4, <2>1, <2>2
<1>9. Increment(p, i) = 100 * (move + ask.worn[d])
        + IF ask.policy = "memory-first"
          THEN (100 * 1000 * used) \div budget[d] + ask.compute[d]
          ELSE 100 * (ask.compute[d] + ask.burden[d]
                      + (IF i = 1 THEN 0 ELSE Transfer(p[i - 1], d)))
  BY DEF Increment
<1> DEFINE div  == (100 * 1000 * used) \div budget[d]
           step == IF i = 1 THEN 0 ELSE Transfer(p[i - 1], d)
<1>10. div \in Nat /\ step \in Nat
  BY <1>7, <1>8
<1>11. Increment(p, i) = 100 * (move + ask.worn[d])
        + IF ask.policy = "memory-first" THEN div + ask.compute[d]
          ELSE 100 * (ask.compute[d] + ask.burden[d] + step)
  BY <1>9
<1> HIDE DEF move, div, step, d
<1> QED
  BY <1>5, <1>6, <1>10, <1>11

\* Scores are sums, so any two compare.
LEMMA ScoreIsNat ==
  ASSUME Asked, NEW p, Fits(p)
  PROVE  Score(p) \in Nat
<1> DEFINE S == DOMAIN p
           w == [i \in S |-> Increment(p, i)]
           P(g) == g = [s \in SUBSET S |->
               IF s = {} THEN 0 ELSE Increment(p, CHOOSE x \in s : TRUE) + g[s \ {CHOOSE x \in s : TRUE}]]
           g == CHOOSE h : P(h)
<1>1. IsFiniteSet(S) /\ w \in [S -> Nat]
  <2>1. S \in SUBSET Stages
    BY PartialFacts DEF Fits, Typed
  <2> QED
    BY <2>1, IncrementIsNat, StagesFinite, FS_Subset
<1>2. Score(p) = g[S]
  BY DEF Score, MapThenSumSet, MapThenFoldSet
<1>3. ASSUME NEW h PROVE P(h) <=> Folds(h, w, S)
  <2>1. ASSUME NEW s \in SUBSET S, s # {}
        PROVE  w[Any(s)] = Increment(p, Any(s))
    BY <2>1 DEF Any
  <2> HIDE DEF S, w
  <2> QED
    BY <2>1 DEF Folds, Any
<1> HIDE DEF P, w, S
<1>4. PICK f : Sums(f, S, w)
  BY <1>1, SumExists
<1>5. S \in SUBSET S
  OBVIOUS
<1>6. \E h : Folds(h, w, S)
  BY <1>1, <1>4, <1>5, FoldIsSum
<1>7. P(g)
  BY <1>3, <1>6
<1>8. Folds(g, w, S)
  BY <1>3, <1>7
<1> HIDE DEF g
<1>9. g[S] = f[S]
  BY <1>1, <1>4, <1>5, <1>8, FoldIsSum
<1> QED
  BY <1>2, <1>4, <1>9 DEF Sums

\* Among lines of the same length there is one that no other is earlier than.
LEMMA EarliestExists ==
  ASSUME NEW k \in Nat, NEW S, S # {}, \A p \in S : p \in Seq(Devices) /\ Len(p) = k
  PROVE  \E p \in S : \A q \in S : ~Earlier(q, p)
<1> DEFINE Sooner(q, p, n) == \E i \in 1..n : q[i] < p[i] /\ \A j \in 1..(i - 1) : q[j] = p[j]
           B == {n \in 0..k : ~\E p \in S : \A q \in S : ~Sooner(q, p, n)}
<1>1. ASSUME NEW p \in S, NEW i \in 1..k PROVE p[i] \in Nat
  BY <1>1 DEF Devices
<1>2. SUFFICES ASSUME B # {} PROVE FALSE
  <2>1. k \notin B
    BY <1>2
  <2>2. PICK p \in S : \A q \in S : ~Sooner(q, p, k)
    BY <2>1
  <2>3. \A q \in S : ~Earlier(q, p)
    BY <2>2 DEF Earlier
  <2> QED
    BY <2>3
<1>3. PICK n \in B : \A m \in B : n <= m
  <2>1. B \subseteq Nat
    OBVIOUS
  <2> HIDE DEF B
  <2> QED
    BY <1>2, <2>1, LeastOf
<1>4. n \in 1..k
  <2>1. n # 0
    <3>1. \A p, q : ~Sooner(q, p, 0)
      OBVIOUS
    <3> HIDE DEF Sooner
    <3> QED
      BY <3>1
  <2> QED
    BY <2>1
<1>5. PICK p \in S : \A q \in S : ~Sooner(q, p, n - 1)
  <2>1. n - 1 \in 0..k /\ ~(n <= n - 1)
    BY <1>4
  <2>2. n - 1 \notin B
    <3> HIDE DEF B
    <3> QED
      BY <1>3, <2>1
  <2> HIDE DEF Sooner
  <2> QED
    BY <2>1, <2>2
<1> DEFINE T == {q \in S : \A j \in 1..(n - 1) : q[j] = p[j]}
           V == {q[n] : q \in T}
<1>6. PICK v \in V : \A u \in V : v <= u
  <2>1. p \in T /\ T \subseteq S
    OBVIOUS
  <2> HIDE DEF B, T, Sooner
  <2>2. V \subseteq Nat /\ V # {}
    BY <1>1, <1>4, <2>1
  <2> HIDE DEF V
  <2> QED
    BY <2>2, LeastOf
<1>7. PICK r \in T : r[n] = v
  OBVIOUS
<1>8. ASSUME NEW q \in S, NEW i \in 1..n, q[i] < r[i], \A j \in 1..(i - 1) : q[j] = r[j]
      PROVE  FALSE
  <2>1. r \in S /\ \A j \in 1..(n - 1) : r[j] = p[j]
    BY <1>7
  <2>2. CASE i = n
    <3>1. q \in T
      BY <1>8, <2>1, <2>2
    <3>2. v <= q[n] /\ v \in Nat /\ q[n] \in Nat
      BY <1>1, <1>4, <1>6, <1>7, <2>1, <3>1
    <3> HIDE DEF B, T, V, Sooner
    <3> QED
      BY <1>7, <1>8, <2>2, <3>2
  <2>3. CASE i # n
    <3>1. i \in 1..(n - 1) /\ \A j \in 1..(i - 1) : j \in 1..(n - 1)
      <4> n \in Nat /\ i \in Nat /\ i >= 1 /\ i <= n /\ n <= k
        BY <1>4
      <4> HIDE DEF B, T, V, Sooner
      <4> QED
        BY <2>3
    <3>2. q[i] < p[i] /\ \A j \in 1..(i - 1) : q[j] = p[j]
      BY <1>8, <2>1, <3>1
    <3>3. Sooner(q, p, n - 1)
      BY <3>1, <3>2
    <3> QED
      BY <1>5, <3>3
  <2> QED
    BY <2>2, <2>3
<1>9. \A q \in S : ~Sooner(q, r, n)
  BY <1>8
<1>10. r \in S
  BY <1>7
<1> HIDE DEF Sooner
<1> QED
  BY <1>9, <1>10

\* A sort of placements that are not none keeps something.
LEMMA CheapestExists ==
  ASSUME Asked, NEW S, S # {}, \A p \in S : Fits(p),
         NEW k \in Nat, \A p \in S : Len(p) = k, NEW n \in Nat \ {0}
  PROVE  Cheapest(S, n) # {}
<1> DEFINE cost == [p \in S |-> Score(p)]
           C == {Score(p) : p \in S}
<1>1. \A p \in S : Score(p) \in Nat
  BY ScoreIsNat
<1>2. PICK c \in C : \A b \in C : c <= b
  <2>1. C \subseteq Nat /\ C # {}
    BY <1>1
  <2> HIDE DEF C
  <2> QED
    BY <2>1, LeastOf
<1> DEFINE T == {p \in S : Score(p) = c}
<1>3. PICK p \in T : \A q \in T : ~Earlier(q, p)
  <2>1. T # {} /\ \A q \in T : q \in Seq(Devices) /\ Len(q) = k
    BY <1>2 DEF Fits, Line
  <2> HIDE DEF T
  <2> QED
    BY <2>1, EarliestExists
<1>4. ASSUME NEW q \in S PROVE ~Before(cost, q, p)
  <2>1. c <= Score(q) /\ Score(q) \in Nat /\ c \in Nat /\ cost[q] = Score(q) /\ cost[p] = c /\ p \in S
    BY <1>1, <1>2, <1>3
  <2>2. Score(q) = c => ~Earlier(q, p)
    BY <1>3
  <2> HIDE DEF cost
  <2> QED
    BY <2>1, <2>2 DEF Before
<1>5. {q \in S : Before(cost, q, p)} = {} /\ p \in S
  <2> HIDE DEF cost
  <2> QED
    BY <1>3, <1>4
<1>6. Cardinality({q \in S : Before(cost, q, p)}) < n
  <2>1. 0 < n
    OBVIOUS
  <2> HIDE DEF cost, C, T
  <2> QED
    BY <1>5, <2>1, FS_EmptySet
<1>7. p \in Cheapest(S, n)
  BY <1>5, <1>6 DEF Cheapest
<1> QED
  BY <1>7

-----------------------------------------------------------------------------

Outcomes == {"started", "none", "placed", "no_eligible_device", "capacity_exhausted", "coverage_missing"}

TypeOK ==
    /\ ask \in Asks /\ others \in [Devices -> Nat]
    /\ Line(plan) /\ Typed(plan) /\ Line(prev) /\ Typed(prev)
    /\ phase \in {"rest", "plan"} /\ outcome \in Outcomes
    /\ told \subseteq Devices /\ gone \subseteq Devices
    /\ budget \in [Devices -> Nat]
    /\ forced \in BOOLEAN /\ cut \in BOOLEAN /\ requests \in Nat

\* The budget of a device about which a call knew the truth is what it has.
Honest ==
    phase = "plan" \/ outcome \notin {"started", "none"} =>
        \A d \in Devices : Known(d) => /\ Capacity[d] <= budget[d]
                                       /\ budget[d] + others[d] <= Machines[d].total

\* The beam has placements of the same number of stages, each with a way to go
\* on, and, if nothing was cut, the beginning of every one that fits.
Beaming ==
    phase = "plan" =>
        /\ outcome = "none"
        /\ IsFiniteSet(beam) /\ beam # {}
        /\ \A p \in beam : Fits(p) /\ (p = <<>> \/ Completable(p))
        /\ \A p, q \in beam : Len(p) = Len(q)
        /\ ~cut => \A q \in Placements : Fit(q, budget) =>
                       \A p \in beam : Prefix(q, Len(p)) \in beam

Ended ==
    /\ outcome = "placed" => Fits(plan) /\ Len(plan) = NumStages
    /\ outcome = "no_eligible_device" => \E i \in Stages : Eligible(i) = {}
    /\ outcome = "capacity_exhausted" => ~\E q \in Placements : Fit(q, budget)

Inv == TypeOK /\ Honest /\ Beaming /\ Ended /\ BestUnlessCut

-----------------------------------------------------------------------------
\* What is only about the model, the devices and their budgets stays the same
\* during a call.  (UsedBy is Used, with ask as a parameter.)
UsedBy(a, p, d) == MapThenSumSet(LAMBDA i : a.need[i][Type(d)], {i \in DOMAIN p : p[i] = d})

\* What a placement uses depends on the request alone.
LEMMA UsedOfAsk == \A p, d : Used(p, d) = UsedBy(ask, p, d)
BY DEF Used, UsedBy, Need

LEMMA UsedStays ==
  ASSUME ask' = ask
  PROVE  /\ \A p, d : Used(p, d)' = Used(p, d)
         /\ \A i, d : Need(i, d)' = Need(i, d)
<1>1. \A p, d : Used(p, d) = UsedBy(ask, p, d)
  BY UsedOfAsk
<1>2. (\A p, d : Used(p, d) = UsedBy(ask, p, d))'
  BY UsedOfAsk, PTL
<1>3. \A p, d : Used(p, d)' = UsedBy(ask', p, d)
  BY <1>2
<1> QED
  BY <1>1, <1>3 DEF Need

\* What the search finds depends on the request and the budgets alone.
LEMMA CallStays ==
  ASSUME UNCHANGED <<ask, gone, budget>>
  PROVE  /\ \A p : (Typed(p)' <=> Typed(p)) /\ (Fits(p)' <=> Fits(p))
         /\ \A p : Completable(p)' <=> Completable(p)
         /\ \A i : Eligible(i)' = Eligible(i)
         /\ Placements' = Placements
         /\ \A q : Fit(q, budget)' <=> Fit(q, budget)
         /\ \A p : Covers(p)' <=> Covers(p)
<1>1. /\ \A p, d : Used(p, d)' = Used(p, d)
      /\ \A i, d : Need(i, d)' = Need(i, d)
  BY UsedStays
<1>2. \A p : Typed(p)' <=> Typed(p)
  BY DEF Typed, Allowed
<1>3. \A i : Eligible(i)' = Eligible(i)
  BY <1>1 DEF Eligible
<1>4. Partial' = Partial
  BY <1>3 DEF Partial
<1>5. \A p : Fits(p)' <=> Fits(p)
  BY <1>1, <1>4 DEF Fits, Line, Placed
<1>6. \A p, q : CompletesTo(p, q)' <=> CompletesTo(p, q)
  BY <1>1, <1>3 DEF CompletesTo, Placed
<1>7. \A p : Completable(p)' <=> Completable(p)
  BY <1>6 DEF Completable
<1>8. Placements' = Placements
  BY DEF Placements
<1>9. \A q : Fit(q, budget)' <=> Fit(q, budget)
  BY <1>1 DEF Fit, Placed
<1>10. \A p : Covers(p)' <=> Covers(p)
  BY DEF Covers
<1> QED
  BY <1>2, <1>3, <1>5, <1>7, <1>8, <1>9, <1>10

\* Score, with the call as a parameter.
ScoreBy(a, pr, fo, bu, p) ==
    MapThenSumSet(LAMBDA i :
        LET d    == p[i]
            used == UsedBy(a, SubSeq(p, 1, i), d)
            move == IF pr # <<>> /\ ~fo THEN IF pr[i] # d THEN Migration ELSE 0 ELSE 0
        IN  100 * (move + a.worn[d])
            + IF a.policy = "memory-first"
              THEN (100 * 1000 * used) \div bu[d] + a.compute[d]
              ELSE 100 * (a.compute[d] + a.burden[d]
                          + (IF i = 1 THEN 0 ELSE Transfer(p[i - 1], d))),
        DOMAIN p)

\* A score depends on the call alone.
LEMMA ScoreOfCall == \A p : Score(p) = ScoreBy(ask, prev, forced, budget, p)
BY DEF Score, ScoreBy, Increment, Used, UsedBy, Need

LEMMA ScoreStays ==
  ASSUME UNCHANGED <<ask, prev, forced, budget>>
  PROVE  \A p : Score(p)' = Score(p)
<1>1. \A p : Score(p) = ScoreBy(ask, prev, forced, budget, p)
  BY ScoreOfCall
<1>2. (\A p : Score(p) = ScoreBy(ask, prev, forced, budget, p))'
  BY ScoreOfCall, PTL
<1>3. \A p : Score(p)' = ScoreBy(ask', prev', forced', budget', p)
  BY <1>2
<1> QED
  BY <1>1, <1>3

LEMMA InitInv == Init => Inv
<1> SUFFICES ASSUME Init PROVE Inv
  OBVIOUS
<1>1. DOMAIN <<>> = {} /\ <<>> \in Seq(Devices) /\ Len(<<>>) = 0
  OBVIOUS
<1>2. Line(<<>>) /\ Typed(<<>>)
  BY <1>1, PlacementAssumption DEF Line, Typed
<1>3. others \in [Devices -> Nat]
  <2>1. \A d \in Devices : Machines[d].total \in Nat /\ ask.free[d] \in Nat
    BY PlacementAssumption, AskAssumption DEF Init
  <2> QED
    BY <2>1 DEF Init, Less
<1>4. TypeOK
  BY <1>2, <1>3 DEF Init, TypeOK, Outcomes
<1> QED
  BY <1>4 DEF Init, Inv, Honest, Beaming, Ended, BestUnlessCut

\* The budgets of a call are numbers, whatever it was told.
LEMMA BudgetIsNat ==
  ASSUME TypeOK, NEW d \in Devices, NEW t
  PROVE  /\ Budget(d, t, plan) \in Nat /\ Used(plan, d) \in Nat /\ others[d] \in Nat
         /\ Machines[d].total \in Nat /\ ask.free[d] \in Nat /\ ask.reserve[d] \in Nat
<1> DEFINE F == Free(d, t, plan)
           U == IF F > 0 THEN Used(plan, d) ELSE 0
<1>1. Used(plan, d) \in Nat
  BY UsedFacts DEF TypeOK
<1>2. /\ others[d] \in Nat /\ Machines[d].total \in Nat
      /\ ask.free[d] \in Nat /\ ask.reserve[d] \in Nat
  BY PlacementAssumption, AskAssumption DEF TypeOK
<1>3. F \in Nat
  BY <1>1, <1>2 DEF Free, FreeNow
<1>4. \A a, b \in Nat : Less(a, b) \in Nat /\ Least(a, b) \in Nat
  BY DEF Less, Least
<1>5. U \in Nat
  BY <1>1
<1>6. Budget(d, t, plan) =
        Least(Less(Machines[d].total, ask.reserve[d]), Less(F, ask.reserve[d]) + U)
  BY DEF Budget
<1> HIDE DEF F, U
<1>7. Less(F, ask.reserve[d]) + U \in Nat /\ Less(Machines[d].total, ask.reserve[d]) \in Nat
  <2>1. Less(F, ask.reserve[d]) \in Nat /\ Less(Machines[d].total, ask.reserve[d]) \in Nat
    BY <1>2, <1>3, <1>4
  <2> QED
    BY <1>5, <2>1
<1> QED
  BY <1>1, <1>2, <1>4, <1>6, <1>7

\* The budget of a device about which a call knows the truth: no more than what
\* the other programs leave, and no less beside the reserve.
LEMMA BudgetIsHonest ==
  ASSUME TypeOK, NEW d \in Devices, NEW t, NEW now, now = FreeNow(d, plan),
         \/ d \in t /\ now > 0
         \/ ask.free[d] = now /\ (now > 0 \/ Used(plan, d) = 0)
  PROVE  /\ Less(Machines[d].total, others[d] + ask.reserve[d]) <= Budget(d, t, plan)
         /\ Budget(d, t, plan) + others[d] <= Machines[d].total
<1> DEFINE U == Used(plan, d)
           T == Machines[d].total
           O == others[d]
           R == ask.reserve[d]
           F == Free(d, t, plan)
<1>1. U \in Nat /\ T \in Nat /\ O \in Nat /\ R \in Nat /\ ask.free[d] \in Nat
  BY BudgetIsNat
<1>2. now = T - (O + U) /\ now \in Int
  BY <1>1 DEF FreeNow
<1>3. F = now
  BY DEF Free
<1>4. now \in Nat /\ (now > 0 \/ U = 0) /\ O + U <= T
  BY <1>1, <1>2
<1>5. Less(F, R) = IF now > R THEN now - R ELSE 0
  BY <1>3 DEF Less
<1>6. Less(T, R) = (IF T > R THEN T - R ELSE 0) /\ Less(T, O + R) = (IF T > O + R THEN T - (O + R) ELSE 0)
  BY DEF Less
<1>7. Budget(d, t, plan) = Least(Less(T, R), Less(F, R) + U)
  <2>1. U = IF F > 0 THEN U ELSE 0
    BY <1>3, <1>4
  <2> QED
    BY <2>1 DEF Budget
<1>8. Budget(d, t, plan) = IF Less(T, R) < Less(F, R) + U THEN Less(T, R) ELSE Less(F, R) + U
  BY <1>7 DEF Least
<1> HIDE DEF U, T, O, R, F
<1> QED
  BY <1>1, <1>2, <1>4, <1>5, <1>6, <1>8 DEF U, T, O, R

\* A call begins with budgets that are honest where it knows the truth.
LEMMA RequestInv ==
  ASSUME Inv, NEW f \in BOOLEAN, NEW g \in SUBSET Devices, NEW t \in SUBSET Devices,
         Request(f, g, t)
  PROVE  Inv'
<1>0. TypeOK
  BY DEF Inv
<1>1. budget' \in [Devices -> Nat]
  BY <1>0, BudgetIsNat DEF Request
<1>2. TypeOK'
  <2>1. \A p : Typed(p)' <=> Typed(p)
    BY DEF Typed, Allowed, Request
  <2>2. Line(plan)' /\ Typed(plan)' /\ Line(prev)' /\ Typed(prev)'
    BY <1>0, <2>1 DEF TypeOK, Request, Line
  <2>3. phase' \in {"rest", "plan"} /\ outcome' \in Outcomes
    BY DEF Request, Outcomes
  <2>4. ask' = ask /\ others' = others /\ told' = t /\ gone' = g
        /\ forced' = (f /\ plan # <<>>) /\ cut' = FALSE /\ requests' = requests + 1
    BY DEF Request
  <2>5. (ask \in Asks /\ others \in [Devices -> Nat])'
    BY <1>0, <2>4 DEF TypeOK
  <2>6. (told \subseteq Devices /\ gone \subseteq Devices)'
    BY <2>4
  <2>7. (forced \in BOOLEAN /\ cut \in BOOLEAN /\ requests \in Nat)'
    <3>1. forced' \in BOOLEAN /\ cut' \in BOOLEAN
      BY <2>4, Zenon
    <3>2. requests' \in Nat
      BY <1>0, <2>4 DEF TypeOK
    <3> QED
      BY <3>1, <3>2
  <2> QED
    BY <1>1, <2>2, <2>3, <2>5, <2>6, <2>7 DEF TypeOK
<1>3. Honest'
  <2> SUFFICES ASSUME NEW d \in Devices, Known(d)'
               PROVE  /\ Capacity[d]' <= budget[d]'
                      /\ budget[d]' + others[d]' <= Machines[d].total
    BY DEF Honest
  <2>1. /\ budget'[d] = Budget(d, t, plan)
        /\ Capacity'[d] = Less(Machines[d].total, others[d] + ask.reserve[d])
    BY DEF Request, Capacity
  <2>2. \A p, e : Used(p, e)' = Used(p, e)
    BY UsedStays DEF Request
  <2>3. FreeNow(d, prev)' = FreeNow(d, plan) /\ Used(prev, d)' = Used(plan, d)
    BY <2>2 DEF FreeNow, Request
  <2>4. \/ d \in t /\ FreeNow(d, plan) > 0
        \/ ask.free[d] = FreeNow(d, plan) /\ (FreeNow(d, plan) > 0 \/ Used(plan, d) = 0)
    BY <2>3 DEF Known, Request
  <2> QED
    BY <1>0, <2>1, <2>4, BudgetIsHonest DEF Request
<1>4. Beaming'
  <2> SUFFICES ASSUME phase' = "plan" PROVE Beaming'
    BY DEF Beaming
  <2>1. beam' = {<<>>} /\ outcome' = "none"
    BY DEF Request
  <2>2. (Asked => Fits(<<>>))'
    BY NothingFits, PTL
  <2>3. Fits(<<>>)'
    BY <1>2, <2>2 DEF Asked, TypeOK
  <2>4. \A q : Prefix(q, Len(<<>>)) = <<>>
    BY DEF Prefix
  <2>5. IsFiniteSet(beam')
    BY <2>1, FS_Singleton
  <2>6. \A p \in beam' : p = <<>>
    BY <2>1
  <2> QED
    BY <2>1, <2>3, <2>4, <2>5, <2>6 DEF Beaming
<1>5. Ended' /\ BestUnlessCut'
  BY DEF Ended, BestUnlessCut, Request
<1> QED
  BY <1>2, <1>3, <1>4, <1>5 DEF Inv

\* What is computed from finitely many values is finitely many values.
LEMMA ImageFinite ==
  ASSUME NEW S, IsFiniteSet(S), NEW f
  PROVE  IsFiniteSet({f[x] : x \in S})
<1> DEFINE T == {f[x] : x \in S}
           h == [x \in S |-> f[x]]
<1>1. h \in Surjection(S, T)
  BY DEF Surjection
<1> QED
  BY <1>1, FS_Surjection

\* The placements with one stage more that have a way to go on.
Grown == {p \in UNION {Next1(q) : q \in beam} : Completes(p)}

\* A placement that can be completed has a next one on the way to that
\* completion.
LEMMA GoesOn ==
  ASSUME Asked, NEW p, Fits(p), Len(p) < NumStages, NEW q, CompletesTo(p, q)
  PROVE  LET r == Append(p, q[Len(p) + 1])
         IN  r \in Next1(p) /\ CompletesTo(r, q) /\ Completes(r)
<1> DEFINE i == Len(p) + 1
           d == q[i]
           r == Append(p, d)
<1>1. i \in Stages \ DOMAIN p /\ p \in Partial /\ Line(p)
  <2>1. p \in Seq(Devices) /\ p \in Partial /\ Line(p)
    BY DEF Fits, Line
  <2>2. DOMAIN p = 1..Len(p) /\ Len(p) \in Nat
    BY <2>1
  <2> QED
    BY <2>1, <2>2, PlacementAssumption DEF Stages
<1>2. d \in Options(p, i)
  BY <1>1, CompletionFacts
<1>3. d \in Eligible(i)
  BY <1>2 DEF Options
<1>4. r \in Partial /\ OneMore(r, p, i, d)
  BY <1>1, <1>3, LineGrows
<1>5. r \in Next1(p)
  BY <1>2 DEF Next1
<1> HIDE DEF r, i
<1>6. CompletesTo(r, q)
  BY <1>4 DEF CompletesTo, OneMore
<1>7. Completes(r)
  BY <1>4, <1>6, SearchIsExact DEF Completable
<1> QED
  BY <1>5, <1>6, <1>7 DEF r, i

\* The next beam: it holds no dead end, it is empty only if nothing fits, and
\* unless something was cut it holds the beginning of all that fits.
LEMMA GrownFacts ==
  ASSUME Asked, phase = "plan", Beaming, \A p \in beam : Len(p) < NumStages
  PROVE  /\ IsFiniteSet(Grown)
         /\ \A p \in Grown : Fits(p) /\ Completable(p)
         /\ \A p, q \in Grown : Len(p) = Len(q)
         /\ ~cut => \A q \in Placements : Fit(q, budget) =>
                        \A p \in Grown : Prefix(q, Len(p)) \in Grown
         /\ Grown = {} => ~\E q \in Placements : Fit(q, budget)
         /\ Grown # {} => Cheapest(Grown, ask.width) # {}
<1>1. PICK p0 \in beam : \A p \in beam : Len(p) = Len(p0)
  BY DEF Beaming
<1> DEFINE k == Len(p0)
<1>2. /\ \A p \in beam : Fits(p) /\ Len(p) = k /\ p \in Partial /\ Line(p)
      /\ k \in Nat /\ k < NumStages
  BY <1>1 DEF Beaming, Fits, Line
<1> HIDE DEF k
<1>3. ASSUME NEW p \in Grown
      PROVE  Fits(p) /\ Completable(p) /\ Len(p) = k + 1
  <2>1. PICK q \in beam : p \in Next1(q)
    BY DEF Grown
  <2>2. PICK d \in Options(q, k + 1) : p = Append(q, d)
    BY <1>2, <2>1 DEF Next1
  <2>3. Fits(p)
    BY <1>2, <2>2, OptionFits
  <2>4. p \in Partial
    BY <2>3 DEF Fits
  <2>5. Completable(p)
    BY <2>4, SearchIsExact DEF Grown
  <2>6. q \in Seq(Devices) /\ d \in Devices
    BY <1>2, <2>2 DEF Line, Options, Eligible
  <2>7. Len(Append(q, d)) = Len(q) + 1
    BY <2>6
  <2> QED
    BY <1>2, <2>2, <2>3, <2>5, <2>7
<1>4. IsFiniteSet(Grown)
  <2>1. ASSUME NEW q \in beam PROVE IsFiniteSet(Next1(q))
    <3>1. Options(q, Len(q) + 1) \in SUBSET Devices
      BY DEF Options, Eligible
    <3>2. IsFiniteSet(Options(q, Len(q) + 1))
      BY <3>1, StagesFinite, FS_Subset
    <3> DEFINE O == Options(q, Len(q) + 1)
               f == [d \in O |-> Append(q, d)]
    <3>3. IsFiniteSet({f[d] : d \in O})
      <4> HIDE DEF f
      <4> QED
        BY <3>2, ImageFinite
    <3>4. {f[d] : d \in O} = Next1(q)
      BY DEF Next1
    <3> QED
      BY <3>3, <3>4
  <2>2. IsFiniteSet({Next1(q) : q \in beam})
    <3>1. IsFiniteSet(beam)
      BY DEF Beaming
    <3> DEFINE f == [q \in beam |-> Next1(q)]
    <3>2. IsFiniteSet({f[q] : q \in beam})
      <4> HIDE DEF f
      <4> QED
        BY <3>1, ImageFinite
    <3>3. {f[q] : q \in beam} = {Next1(q) : q \in beam}
      OBVIOUS
    <3> QED
      BY <3>2, <3>3
  <2>3. IsFiniteSet(UNION {Next1(q) : q \in beam})
    BY <2>1, <2>2, FS_UNION
  <2>4. Grown \in SUBSET UNION {Next1(q) : q \in beam}
    BY DEF Grown
  <2> QED
    BY <2>3, <2>4, FS_Subset
<1>5. ASSUME ~cut, NEW q \in Placements, Fit(q, budget), NEW p \in Grown
      PROVE  Prefix(q, Len(p)) \in Grown
  <2> DEFINE b == Prefix(q, k)
             d == q[k + 1]
  <2>1. b \in beam
    BY <1>2, <1>5 DEF Beaming
  <2>2. Fits(b) /\ Len(b) = k /\ b \in Seq(Devices)
    BY <1>2, <2>1 DEF Line
  <2>3. DOMAIN b = 1..k /\ \A i \in 1..k : b[i] = q[i]
    BY DEF Prefix
  <2>4. CompletesTo(b, q)
    <3>1. DOMAIN b \subseteq Stages
      BY <1>2, <2>3, PlacementAssumption DEF Stages
    <3> HIDE DEF b
    <3> QED
      BY <1>5, <2>3, <3>1, FittingCompletes
  <2>5. Append(b, d) = Prefix(q, k + 1)
    <3>1. d \in Devices
      <4>1. k + 1 \in Stages
        BY <1>2, PlacementAssumption DEF Stages
      <4> QED
        BY <4>1 DEF Placements
    <3>2. Append(b, d) = [i \in 1..(k + 1) |-> IF i = k + 1 THEN d ELSE b[i]]
      <4> HIDE DEF b, d
      <4>1. Append(b, d) \in Seq(Devices) /\ Len(Append(b, d)) = k + 1
        BY <2>2, <3>1
      <4>2. \A i \in 1..(k + 1) : Append(b, d)[i] = IF i = k + 1 THEN d ELSE b[i]
        BY <1>2, <2>2, <3>1
      <4>3. Append(b, d) \in [1..(k + 1) -> Devices]
        BY <4>1, LenProperties
      <4> HIDE <2>2
      <4> QED
        BY <4>2, <4>3
    <3>3. \A i \in 1..(k + 1) : (IF i = k + 1 THEN d ELSE b[i]) = q[i]
      <4> HIDE DEF b
      <4> QED
        BY <1>2, <2>3
    <3> HIDE DEF b, d
    <3> QED
      BY <3>2, <3>3 DEF Prefix
  <2>6. Append(b, q[Len(b) + 1]) \in Next1(b) /\ Completes(Append(b, q[Len(b) + 1]))
    <3> HIDE DEF b
    <3> QED
      BY <1>2, <2>2, <2>4, GoesOn
  <2>7. Append(b, d) \in Grown
    <3> HIDE DEF b
    <3> QED
      BY <2>1, <2>2, <2>6 DEF Grown
  <2> HIDE DEF b, d
  <2> QED
    BY <1>3, <2>5, <2>7
<1>6. ASSUME Grown = {}, NEW q \in Placements, Fit(q, budget)
      PROVE  FALSE
  <2>1. Completable(p0)
    <3>1. CASE p0 = <<>>
      <4>1. DOMAIN p0 \subseteq Stages /\ \A i \in DOMAIN p0 : p0[i] = q[i]
        BY <3>1
      <4>2. CompletesTo(p0, q)
        BY <1>6, <4>1, FittingCompletes
      <4> QED
        BY <4>2 DEF Completable
    <3>2. CASE p0 # <<>>
      BY <3>2 DEF Beaming
    <3> QED
      BY <3>1, <3>2
  <2>2. PICK r : CompletesTo(p0, r)
    BY <2>1 DEF Completable
  <2>3. Append(p0, r[Len(p0) + 1]) \in Next1(p0) /\ Completes(Append(p0, r[Len(p0) + 1]))
    BY <1>2, <2>2, GoesOn
  <2> QED
    BY <1>6, <2>3 DEF Grown
<1>7. ASSUME Grown # {} PROVE Cheapest(Grown, ask.width) # {}
  <2>1. ask.width \in Nat \ {0}
    BY AskAssumption DEF Asked
  <2> QED
    BY <1>2, <1>3, <1>7, <2>1, CheapestExists
<1> QED
  BY <1>3, <1>4, <1>5, <1>6, <1>7

\* What a call was told does not change before the next one.
LEMMA TruthStays ==
  ASSUME UNCHANGED <<ask, others, prev, told>>
  PROVE  (\A d : Known(d)' <=> Known(d)) /\ Capacity' = Capacity
<1>1. \A p, d : Used(p, d)' = Used(p, d)
  BY UsedStays
<1>2. \A d : FreeNow(d, prev)' = FreeNow(d, prev) /\ Used(prev, d)' = Used(prev, d)
  BY <1>1 DEF FreeNow
<1> QED
  BY <1>2 DEF Known, Capacity

\* The beam is grown by a stage and sorted.
LEMMA PlaceStageInv == Inv /\ PlaceStage => Inv'
<1> SUFFICES ASSUME Inv, PlaceStage PROVE Inv'
  OBVIOUS
<1>1. Asked /\ phase = "plan" /\ Beaming /\ outcome = "none" /\ \A p \in beam : Len(p) < NumStages
  BY DEF Inv, TypeOK, Asked, PlaceStage, Beaming
<1>2. UNCHANGED <<ask, others, plan, prev, forced, gone, told, budget, requests>>
  BY DEF PlaceStage, callVars
<1>3. beam' = Cheapest(Grown, ask.width) /\ cut' = (cut \/ beam' # Grown)
  BY DEF PlaceStage, Grown
<1>4. IF Grown = {} THEN phase' = "rest" /\ outcome' = "capacity_exhausted"
      ELSE phase' = "plan" /\ outcome' = "none"
  BY <1>1 DEF PlaceStage, Grown
<1>5. /\ \A p : (Typed(p)' <=> Typed(p)) /\ (Fits(p)' <=> Fits(p))
      /\ \A p : Completable(p)' <=> Completable(p)
      /\ Placements' = Placements
      /\ \A q : Fit(q, budget)' <=> Fit(q, budget)
  BY <1>2, CallStays
<1>6. TypeOK'
  <2>1. phase' \in {"rest", "plan"} /\ outcome' \in Outcomes
    BY <1>4 DEF Outcomes
  <2>2. cut' \in BOOLEAN
    BY <1>3, Zenon
  <2>3. Line(plan)' /\ Typed(plan)' /\ Line(prev)' /\ Typed(prev)'
    BY <1>2, <1>5 DEF Inv, TypeOK, Line
  <2> QED
    BY <1>2, <2>1, <2>2, <2>3 DEF Inv, TypeOK
<1>7. Honest'
  BY <1>1, <1>2, TruthStays DEF Inv, Honest
<1>8. Beaming'
  <2> SUFFICES ASSUME phase' = "plan" PROVE Beaming'
    BY DEF Beaming
  <2>1. Grown # {} /\ outcome' = "none"
    BY <1>4
  <2>2. beam' # {}
    BY <1>1, <1>3, <2>1, GrownFacts
  <2>3. beam' \in SUBSET Grown
    BY <1>3 DEF Cheapest
  <2>4. IsFiniteSet(beam')
    BY <1>1, <2>3, GrownFacts, FS_Subset
  <2>5. \A p \in beam' : Fits(p)' /\ Completable(p)'
    BY <1>1, <1>5, <2>3, GrownFacts
  <2>6. \A p, q \in beam' : Len(p) = Len(q)
    BY <1>1, <2>3, GrownFacts
  <2>7. ASSUME ~cut', NEW q \in Placements, Fit(q, budget), NEW p \in beam'
        PROVE  Prefix(q, Len(p)) \in beam'
    <3>1. ~cut /\ beam' = Grown
      BY <1>3, <2>7
    <3> QED
      BY <1>1, <2>7, <3>1, GrownFacts
  <2>8. (~cut => \A q \in Placements : Fit(q, budget) => \A p \in beam : Prefix(q, Len(p)) \in beam)'
    BY <1>5, <2>7
  <2> QED
    BY <2>1, <2>2, <2>4, <2>5, <2>6, <2>8 DEF Beaming
<1>9. Ended'
  <2>1. outcome' = "capacity_exhausted" => ~\E q \in Placements : Fit(q, budget)
    BY <1>1, <1>4, GrownFacts
  <2>2. (outcome = "capacity_exhausted" => ~\E q \in Placements : Fit(q, budget))'
    BY <1>5, <2>1
  <2> QED
    BY <1>4, <2>2 DEF Ended
<1>10. BestUnlessCut'
  BY <1>4 DEF BestUnlessCut
<1> QED
  BY <1>6, <1>7, <1>8, <1>9, <1>10 DEF Inv

\* A placement of all stages within the budgets is one that fits.
LEMMA CompleteFits ==
  ASSUME Asked, NEW p, Fits(p), Len(p) = NumStages
  PROVE  p \in Placements /\ Fit(p, budget)
<1>1. p \in Seq(Devices) /\ DOMAIN p = Stages
  BY PlacementAssumption DEF Fits, Line, Stages
<1>2. \A i \in Stages : p[i] \in Eligible(i)
  BY <1>1 DEF Fits, Partial
<1>3. p \in Placements
  <2>1. p \in [Stages -> Devices]
    BY <1>1, LenProperties DEF Stages
  <2>2. \A i \in Stages : p[i] \in Devices \ gone
    BY <1>2 DEF Eligible
  <2> QED
    BY <2>1, <2>2 DEF Placements
<1>4. Fit(p, budget)
  <2>1. \A i \in Stages : Type(p[i]) \in DOMAIN ask.need[i] /\ p[i] \in Devices
    BY <1>2 DEF Eligible
  <2>2. (\A d \in Devices : Used(p, d) <= budget[d] /\ Placed(p, Miner(d)) <= ask.most[Miner(d)])
    BY DEF Fits
  <2> QED
    BY <2>1, <2>2 DEF Fit
<1> QED
  BY <1>3, <1>4

\* The one placement the last sort keeps has the least score.
LEMMA CheapestIsBest ==
  ASSUME Asked, NEW S, IsFiniteSet(S), \A p \in S : Fits(p), NEW p \in Cheapest(S, 1)
  PROVE  p \in S /\ \A q \in S : Score(p) <= Score(q)
<1> DEFINE cost == [q \in S |-> Score(q)]
           T == {q \in S : Before(cost, q, p)}
<1>1. p \in S /\ Cardinality(T) < 1
  BY DEF Cheapest
<1>2. IsFiniteSet(T)
  <2>1. T \in SUBSET S
    OBVIOUS
  <2> HIDE DEF T
  <2> QED
    BY <2>1, FS_Subset
<1>3. T = {}
  <2> HIDE DEF T
  <2>1. Cardinality(T) = 0
    BY <1>1, <1>2, FS_CardinalityType
  <2> QED
    BY <1>2, <2>1, FS_EmptySet
<1>4. ASSUME NEW q \in S PROVE Score(p) <= Score(q)
  <2>1. ~(Score(q) < Score(p))
    BY <1>1, <1>3 DEF Before
  <2>2. Score(p) \in Nat /\ Score(q) \in Nat
    BY <1>1, ScoreIsNat
  <2> QED
    BY <2>1, <2>2
<1> QED
  BY <1>1, <1>4

\* The best of the beam becomes the plan.
LEMMA ChooseInv == Inv /\ Choose => Inv'
<1> SUFFICES ASSUME Inv, Choose PROVE Inv'
  OBVIOUS
<1> DEFINE complete == {p \in beam : Covers(p)}
<1>1. Asked /\ phase = "plan" /\ Beaming /\ \A p \in beam : Fits(p) /\ Len(p) = NumStages
  BY DEF Inv, TypeOK, Asked, Choose, Beaming
<1>2. /\ UNCHANGED <<ask, others, prev, forced, gone, told, budget, cut, requests>>
      /\ phase' = "rest" /\ beam' = {}
  BY DEF Choose, callVars
<1>3. \/ complete = {} /\ outcome' = "coverage_missing" /\ plan' = plan
      \/ complete # {} /\ outcome' = "placed" /\ plan' \in Cheapest(complete, 1)
  BY DEF Choose
<1>4. /\ \A p : (Typed(p)' <=> Typed(p)) /\ (Fits(p)' <=> Fits(p))
      /\ Placements' = Placements
      /\ \A q : Fit(q, budget)' <=> Fit(q, budget)
      /\ \A p : Covers(p)' <=> Covers(p)
  BY <1>2, CallStays
<1>5. ASSUME outcome' = "placed"
      PROVE  /\ plan' \in complete /\ Fits(plan') /\ Len(plan') = NumStages
             /\ \A q \in complete : Score(plan') <= Score(q)
  <2>1. plan' \in Cheapest(complete, 1)
    BY <1>3, <1>5
  <2>2. IsFiniteSet(complete)
    <3>1. complete \in SUBSET beam /\ IsFiniteSet(beam)
      BY <1>1 DEF Beaming
    <3> HIDE DEF complete
    <3> QED
      BY <3>1, FS_Subset
  <2>3. \A p \in complete : Fits(p) /\ Len(p) = NumStages
    BY <1>1
  <2> HIDE DEF complete
  <2>4. plan' \in complete /\ \A q \in complete : Score(plan') <= Score(q)
    BY <1>1, <2>1, <2>2, <2>3, CheapestIsBest
  <2> QED
    BY <2>3, <2>4
<1>6. TypeOK'
  <2>1. Line(plan') /\ Typed(plan')
    <3>1. CASE outcome' = "placed"
      BY <1>5, <3>1, PartialFacts DEF Fits
    <3>2. CASE outcome' # "placed"
      BY <1>3, <3>2 DEF Inv, TypeOK
    <3> QED
      BY <3>1, <3>2
  <2>2. Line(plan)' /\ Typed(plan)' /\ Line(prev)' /\ Typed(prev)'
    BY <1>2, <1>4, <2>1 DEF Inv, TypeOK, Line
  <2>3. outcome' \in Outcomes
    BY <1>3 DEF Outcomes
  <2> QED
    BY <1>2, <2>2, <2>3 DEF Inv, TypeOK
<1>7. Honest'
  BY <1>1, <1>2, TruthStays DEF Inv, Honest
<1>8. Beaming'
  BY <1>2 DEF Beaming
<1>9. Ended'
  BY <1>3, <1>4, <1>5 DEF Ended
<1>10. ASSUME ~cut, NEW q \in Placements, Fit(q, budget), Covers(q)
       PROVE  q \in complete
  <2>1. PICK p \in beam : Len(p) = NumStages
    BY <1>1 DEF Beaming
  <2>2. Prefix(q, NumStages) \in beam
    BY <1>1, <1>10, <2>1 DEF Beaming
  <2>3. Prefix(q, NumStages) = q
    BY DEF Prefix, Placements, Stages
  <2> QED
    BY <1>10, <2>2, <2>3
<1>11. BestUnlessCut'
  <2>1. ASSUME outcome' = "placed", ~cut
        PROVE  /\ plan' \in Placements /\ Fit(plan', budget) /\ Covers(plan')
               /\ \A q \in Placements : Fit(q, budget) /\ Covers(q) => Score(plan') <= Score(q)
    <3>1. plan' \in Placements /\ Fit(plan', budget)
      BY <1>1, <1>5, <2>1, CompleteFits
    <3> QED
      BY <1>5, <1>10, <2>1, <3>1
  <2>2. ASSUME outcome' = "coverage_missing", ~cut
        PROVE  \A q \in Placements : ~(Fit(q, budget) /\ Covers(q))
    BY <1>3, <1>10, <2>2
  <2>3. \A p : Score(p)' = Score(p)
    BY <1>2, ScoreStays
  <2> DEFINE able == {q \in Placements : Fit(q, budget) /\ Covers(q)}
  <2>4. able' = able
    BY <1>4
  <2>5. outcome' = "placed" /\ ~cut' => plan' \in able /\ \A q \in able : Score(plan)' <= Score(q)'
    BY <1>2, <2>1, <2>3
  <2>6. outcome' = "coverage_missing" /\ ~cut' => able = {}
    BY <1>2, <2>2
  <2> QED
    BY <2>4, <2>5, <2>6 DEF BestUnlessCut
<1> QED
  BY <1>6, <1>7, <1>8, <1>9, <1>11 DEF Inv

\* Other programs take or return memory between the calls.
LEMMA OthersInv ==
  ASSUME Inv, NEW d \in Devices, NEW n \in Nat, OthersChange(d, n)
  PROVE  Inv'
<1>1. /\ phase' = "rest" /\ outcome' = "none"
      /\ UNCHANGED <<ask, plan, prev, forced, gone, told, budget, beam, cut, requests>>
  BY DEF Inv, TypeOK, Beaming, OthersChange, callVars
<1>2. others' \in [Devices -> Nat]
  BY DEF Inv, TypeOK, OthersChange
<1>3. \A p : Typed(p)' <=> Typed(p)
  BY <1>1, CallStays
<1>4. TypeOK'
  BY <1>1, <1>2, <1>3 DEF Inv, TypeOK, Line, Outcomes
<1> QED
  BY <1>1, <1>4 DEF Inv, Honest, Beaming, Ended, BestUnlessCut

LEMMA StutterInv == Inv /\ UNCHANGED vars => Inv'
<1> SUFFICES ASSUME Inv, UNCHANGED vars PROVE Inv'
  OBVIOUS
<1>1. UNCHANGED <<ask, others, plan, phase, prev, forced, gone, told, budget, beam, cut,
                  outcome, requests>>
  BY DEF vars, callVars
<1>2. /\ \A p : (Typed(p)' <=> Typed(p)) /\ (Fits(p)' <=> Fits(p))
      /\ \A p : Completable(p)' <=> Completable(p)
      /\ \A i : Eligible(i)' = Eligible(i)
      /\ Placements' = Placements
      /\ \A q : Fit(q, budget)' <=> Fit(q, budget)
      /\ \A p : Covers(p)' <=> Covers(p)
  BY <1>1, CallStays
<1>3. \A p : Score(p)' = Score(p)
  BY <1>1, ScoreStays
<1>4. (\A d : Known(d)' <=> Known(d)) /\ Capacity' = Capacity
  BY <1>1, TruthStays
<1>5. TypeOK'
  BY <1>1, <1>2 DEF Inv, TypeOK, Line
<1>6. Honest'
  BY <1>1, <1>4 DEF Inv, Honest
<1>7. Beaming'
  BY <1>1, <1>2 DEF Inv, Beaming
<1>8. Ended'
  BY <1>1, <1>2 DEF Inv, Ended
<1>9. BestUnlessCut'
  <2> DEFINE able == {q \in Placements : Fit(q, budget) /\ Covers(q)}
  <2>1. able' = able
    BY <1>2
  <2>2. outcome' = "placed" /\ ~cut' => plan' \in able /\ \A q \in able : Score(plan)' <= Score(q)'
    BY <1>1, <1>3 DEF Inv, BestUnlessCut
  <2>3. outcome' = "coverage_missing" /\ ~cut' => able = {}
    BY <1>1 DEF Inv, BestUnlessCut
  <2> QED
    BY <2>1, <2>2, <2>3 DEF BestUnlessCut
<1> QED
  BY <1>5, <1>6, <1>7, <1>8, <1>9 DEF Inv

\* The invariant of the planner holds always.
THEOREM PlacementInvariance == Spec => []Inv
<1>1. Inv /\ [Next]_vars => Inv'
  <2> SUFFICES ASSUME Inv, [Next]_vars PROVE Inv'
    OBVIOUS
  <2>1. ASSUME NEW f \in BOOLEAN, NEW c \in Calls, Request(f, c[1], c[2])
        PROVE  Inv'
    <3>1. c[1] \in SUBSET Devices /\ c[2] \in SUBSET Devices
      BY PlacementAssumption
    <3> QED
      BY <2>1, <3>1, RequestInv
  <2>2. CASE PlaceStage
    BY <2>2, PlaceStageInv
  <2>3. CASE Choose
    BY <2>3, ChooseInv
  <2>4. ASSUME NEW d \in Devices, NEW n \in OtherUses, OthersChange(d, n)
        PROVE  Inv'
    BY <2>4, OthersInv, PlacementAssumption
  <2>5. CASE UNCHANGED vars
    BY <2>5, StutterInv
  <2> QED
    BY <2>1, <2>2, <2>3, <2>4, <2>5 DEF Next
<1> QED
  BY <1>1, InitInv, PTL DEF Spec

\* No sequence of plans and new plans gives a device more than it has, if the
\* planner knew the truth about it.
THEOREM PlansFitMachines == Spec => []FitsMachines
<1>1. ASSUME Inv PROVE FitsMachines
  <2> SUFFICES ASSUME outcome = "placed", NEW d \in Devices, Known(d)
               PROVE  Used(plan, d) + others[d] <= Machines[d].total
    BY DEF FitsMachines
  <2>1. Used(plan, d) <= budget[d] /\ budget[d] + others[d] <= Machines[d].total
    BY <1>1 DEF Inv, Ended, Honest, Fits
  <2>2. Used(plan, d) \in Nat /\ budget[d] \in Nat /\ others[d] \in Nat /\ Machines[d].total \in Nat
    BY <1>1, BudgetIsNat DEF Inv, TypeOK
  <2> QED
    BY <2>1, <2>2
<1> QED
  BY <1>1, PlacementInvariance, PTL

\* Planning fails for lack of devices only if no placement fits, if the planner
\* knew the truth about the devices it was given.
THEOREM FailuresAreJustified == Spec => []FailsOnlyIfImpossible
<1>1. ASSUME Inv PROVE FailsOnlyIfImpossible
  <2> SUFFICES ASSUME outcome \in {"no_eligible_device", "capacity_exhausted"},
                      \A d \in Devices \ gone : Known(d),
                      NEW q \in Placements, Fit(q, Capacity)
               PROVE  FALSE
    BY DEF FailsOnlyIfImpossible
  <2>1. Asked
    BY <1>1 DEF Inv, TypeOK, Asked
  <2>2. Typed(q)
    BY DEF Typed, Placements, Fit, Allowed
  <2>3. ASSUME NEW d \in Devices \ gone PROVE Used(q, d) <= budget[d]
    <3>1. Used(q, d) <= Capacity[d] /\ Capacity[d] <= budget[d]
      BY <1>1 DEF Inv, Honest, Fit
    <3>2. Capacity[d] = Less(Machines[d].total, others[d] + ask.reserve[d])
      BY DEF Capacity
    <3>3. /\ Machines[d].total \in Nat /\ others[d] \in Nat
          /\ ask.reserve[d] \in Nat /\ budget[d] \in Nat
      BY <1>1, BudgetIsNat DEF Inv, TypeOK
    <3>4. Capacity[d] \in Nat
      BY <3>2, <3>3 DEF Less
    <3>5. Used(q, d) \in Nat
      BY <2>1, <2>2, UsedFacts DEF Asked
    <3> QED
      BY <3>1, <3>3, <3>4, <3>5
  <2>4. ASSUME NEW d \in Devices \cap gone PROVE Used(q, d) <= budget[d]
    <3>1. On(q, d) = {}
      BY DEF On, Placements
    <3>2. Used(q, d) = 0 /\ budget[d] \in Nat
      BY <2>1, <2>2, <3>1, UnusedFacts DEF Asked
    <3> QED
      BY <3>2
  <2>5. Fit(q, budget)
    BY <2>3, <2>4 DEF Fit
  <2>6. \A i \in Stages : q[i] \in Eligible(i)
    BY <2>1, <2>5, FittingCompletes DEF Partial, Placements
  <2> QED
    BY <1>1, <2>5, <2>6 DEF Inv, Ended
<1> QED
  BY <1>1, PlacementInvariance, PTL

\* A beam that dropped nothing finds the placement of least score.
THEOREM BestIsFound == Spec => []BestUnlessCut
<1>1. Inv => BestUnlessCut
  BY DEF Inv
<1> QED
  BY <1>1, PlacementInvariance, PTL
=============================================================================
