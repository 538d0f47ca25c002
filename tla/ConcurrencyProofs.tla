------------------------- MODULE ConcurrencyProofs -------------------------
(***************************************************************************)
(* What is proved of the parts of MCConcurrency: the module loader for     *)
(* every finite set of threads, every set of objects and any number of     *)
(* loads, the worker pool for every set of tasks and every number of       *)
(* threads asked for and granted, the event bus for every set of event     *)
(* types, any number of subscriptions and any nesting.  Each part has an   *)
(* inductive invariant; the theorems at the end put them together.         *)
(***************************************************************************)
EXTENDS MCConcurrency, SequenceTheorems, FunctionTheorems, FiniteSetTheorems, TLAPS

\* The instances of the components bring their own copy of Cardinality.
LEMMA LoaderCardinality == \A S : Loader!Cardinality(S) = Cardinality(S)
BY DEF Loader!Cardinality, Cardinality

\* The other copy.
LEMMA PoolCardinality == \A S : Pool!Cardinality(S) = Cardinality(S)
BY DEF Pool!Cardinality, Cardinality

---------------------------------------------------------------------------
(* ModuleLoader                                                            *)

LoaderConstants == IsFiniteSet(Thread) /\ Loader!LoadsAssumption

At(s, p) == {i \in 1..Len(s) : s[i] = p}
Entries(p) == At(modules, p)
Loading(p) == {th \in Thread : modulePlace[th] = "loading" /\ subject[th] = p}

Balance(p) == refs[p] + Cardinality(Loader!ClosedSoFar(p)) =
                Cardinality(Entries(p)) + Cardinality(Loading(p)) + leaked[p]

\* std::shared_mutex: who unloads is alone with those that do not hold it.
Exclusive == \A th, other \in Thread :
               modulePlace[th] \in {"unload", "unloadAll"} /\ other # th
                  => modulePlace[other] \in {"idle", "loading"}

LoaderInv == LoaderConstants /\ Loader!TypeOK /\ Exclusive /\ Loader!HandlesBalance
             /\ Loader!CallsAreMapped

---------------------------------------------------------------------------
\* The sets that HandlesBalance counts are finite.
LEMMA Counts ==
  ASSUME LoaderConstants, Loader!TypeOK, NEW p \in Path
  PROVE  /\ IsFiniteSet(Entries(p)) /\ Cardinality(Entries(p)) \in Nat
         /\ IsFiniteSet(Loading(p)) /\ Cardinality(Loading(p)) \in Nat
         /\ IsFiniteSet(Loader!ClosedSoFar(p)) /\ Cardinality(Loader!ClosedSoFar(p)) \in Nat
         /\ Loader!ClosedSoFar(p) \subseteq Entries(p)
         /\ Cardinality(Loader!ClosedSoFar(p)) <= Cardinality(Entries(p))
         /\ refs[p] \in Nat /\ leaked[p] \in Nat
<1>1. Len(modules) \in Nat
  BY LenProperties DEF Loader!TypeOK
<1>2. IsFiniteSet(1..Len(modules))
  BY <1>1, FS_Interval
<1>3. IsFiniteSet(Entries(p))
  BY <1>2, FS_Subset DEF Entries, At
<1>4. Loader!ClosedSoFar(p) \subseteq Entries(p)
  BY DEF Loader!ClosedSoFar, Entries, At
<1>5. IsFiniteSet(Loader!ClosedSoFar(p))
      /\ Cardinality(Loader!ClosedSoFar(p)) <= Cardinality(Entries(p))
  BY <1>3, <1>4, FS_Subset
<1>6. IsFiniteSet(Loading(p))
  BY FS_Subset DEF LoaderConstants, Loading
<1>7. refs[p] \in Nat /\ leaked[p] \in Nat
  BY DEF Loader!TypeOK
<1> QED
  BY <1>3, <1>4, <1>5, <1>6, <1>7, FS_CardinalityType

\* A set that is not empty, or a strict subset, counts.
LEMMA SomeElement ==
  ASSUME NEW S, IsFiniteSet(S), NEW x \in S
  PROVE  Cardinality(S) \in Nat /\ Cardinality(S) > 0
BY FS_CardinalityType, FS_EmptySet

\* A set that gains or loses an element under a condition.
LEMMA GainsIf ==
  ASSUME NEW S, IsFiniteSet(S), NEW x, x \notin S, NEW a, NEW b,
         NEW T, T = IF a = b THEN S \cup {x} ELSE S
  PROVE  Cardinality(T) = Cardinality(S) + (IF a = b THEN 1 ELSE 0)
<1>1. Cardinality(S) \in Nat
  BY FS_CardinalityType
<1>2. CASE a = b
  BY <1>2, FS_AddElement
<1>3. CASE a # b
  BY <1>1, <1>3
<1> QED
  BY <1>2, <1>3

\* The same for an element that goes.
LEMMA LosesIf ==
  ASSUME NEW S, IsFiniteSet(S), NEW x, NEW a, NEW b, a = b => x \in S,
         NEW T, T = IF a = b THEN S \ {x} ELSE S
  PROVE  Cardinality(T) = Cardinality(S) - (IF a = b THEN 1 ELSE 0)
<1>1. Cardinality(S) \in Nat
  BY FS_CardinalityType
<1>2. CASE a = b
  BY <1>2, FS_RemoveElement
<1>3. CASE a # b
  BY <1>1, <1>3
<1> QED
  BY <1>2, <1>3

\* A subset without one of the elements is smaller.
LEMMA OneLess ==
  ASSUME NEW S, IsFiniteSet(S), NEW T \in SUBSET S, NEW x \in S \ T
  PROVE  Cardinality(T) < Cardinality(S)
<1>1. Cardinality(T) <= Cardinality(S) /\ Cardinality(T) # Cardinality(S)
  BY FS_Subset
<1> QED
  BY <1>1, FS_Subset, FS_CardinalityType

\* The balance, by name; the instance has its own copy of Cardinality.
LEMMA BalanceIs == Loader!HandlesBalance <=> (~broken => \A p \in Path : Balance(p))
BY LoaderCardinality DEF Loader!HandlesBalance, Balance, Entries, At, Loading

\* While no UnloadAll runs nothing is half-way closed.
LEMMA NoneClosed ==
  ASSUME \A th \in Thread : modulePlace[th] # "unloadAll", NEW p
  PROVE  Loader!ClosedSoFar(p) = {}
BY DEF Loader!ClosedSoFar

\* An entry of modules_ that no UnloadAll has closed is mapped.
LEMMA EntryMapped ==
  ASSUME LoaderInv, ~broken, NEW i \in 1..Len(modules), i \notin Loader!ClosedSoFar(modules[i])
  PROVE  Loader!Mapped(modules[i])
<1> DEFINE p == modules[i]
<1>1. p \in Path
  BY ElementOfSeq, LenProperties DEF LoaderInv, Loader!TypeOK
<1>2. i \in Entries(p) \ Loader!ClosedSoFar(p)
  BY DEF Entries, At
<1> HIDE DEF p
<1>3. Cardinality(Loader!ClosedSoFar(p)) < Cardinality(Entries(p))
  BY <1>1, <1>2, Counts, OneLess DEF LoaderInv
<1>4. Balance(p)
  BY <1>1, BalanceIs DEF LoaderInv
<1>5. refs[p] > 0
  BY <1>1, <1>3, <1>4, Counts DEF LoaderInv, Balance
<1> QED
  BY <1>5 DEF p, Loader!Mapped

\* What a thread is loading is mapped.
LEMMA LoadingMapped ==
  ASSUME LoaderInv, ~broken, NEW th \in Thread, modulePlace[th] = "loading"
  PROVE  refs[subject[th]] > 0
<1> DEFINE p == subject[th]
<1>1. p \in Path
  BY DEF LoaderInv, Loader!TypeOK
<1>2. th \in Loading(p)
  BY DEF Loading
<1> HIDE DEF p
<1>3. Cardinality(Loading(p)) > 0
  BY <1>1, <1>2, Counts, SomeElement DEF LoaderInv
<1>4. Balance(p)
  BY <1>1, BalanceIs DEF LoaderInv
<1>5. refs[p] > 0
  BY <1>1, <1>3, <1>4, Counts DEF LoaderInv, Balance
<1> QED
  BY <1>5 DEF p

---------------------------------------------------------------------------
\* RemoveAt of one entry: what it is, and how many of an object are left.
LEMMA RemoveAtIs ==
  ASSUME NEW S, NEW s \in Seq(S), NEW k \in 1..Len(s)
  PROVE  /\ Loader!RemoveAt(s, k) \in Seq(S)
         /\ Len(Loader!RemoveAt(s, k)) = Len(s) - 1
         /\ \A j \in 1..(Len(s) - 1) : Loader!RemoveAt(s, k)[j] = IF j < k THEN s[j] ELSE s[j + 1]
<1> DEFINE a == SubSeq(s, 1, k - 1)
           b == SubSeq(s, k + 1, Len(s))
<1>1. /\ a \in Seq(S) /\ Len(a) = k - 1 /\ \A j \in 1..(k - 1) : a[j] = s[j]
      /\ b \in Seq(S) /\ Len(b) = Len(s) - k /\ \A j \in 1..(Len(s) - k) : b[j] = s[k + j]
  OBVIOUS
<1>2. Loader!RemoveAt(s, k) = a \o b
  BY DEF Loader!RemoveAt
<1> HIDE DEF a, b
<1>3. /\ a \o b \in Seq(S) /\ Len(a \o b) = Len(a) + Len(b)
      /\ \A j \in 1..(Len(a) + Len(b)) : (a \o b)[j] = IF j <= Len(a) THEN a[j] ELSE b[j - Len(a)]
  BY <1>1, ConcatProperties, Zenon
<1>4. Len(a) + Len(b) = Len(s) - 1
  BY <1>1
<1>5. ASSUME NEW j \in 1..(Len(s) - 1)
      PROVE  (a \o b)[j] = IF j < k THEN s[j] ELSE s[j + 1]
  <2> DEFINE c == (a \o b)[j]
  <2>1. c = IF j <= Len(a) THEN a[j] ELSE b[j - Len(a)]
    BY <1>3, <1>4
  <2> HIDE DEF c
  <2>2. CASE j < k
    BY <1>1, <2>1, <2>2
  <2>3. CASE ~(j < k)
    <3>1. j - Len(a) \in 1..(Len(s) - k) /\ k + (j - Len(a)) = j + 1 /\ ~(j <= Len(a))
      BY <1>1, <2>3
    <3> QED
      BY <1>1, <2>1, <2>3, <3>1
  <2> QED
    BY <2>2, <2>3 DEF c
<1> QED
  BY <1>2, <1>3, <1>4, <1>5

\* Those left of an object are one fewer if the entry was one of its own.
LEMMA CountAfterRemove ==
  ASSUME NEW s \in Seq(Path), NEW k \in 1..Len(s), NEW p
  PROVE  Cardinality(At(Loader!RemoveAt(s, k), p))
         = Cardinality(At(s, p)) - (IF s[k] = p THEN 1 ELSE 0)
<1> DEFINE r == Loader!RemoveAt(s, k)
           before == {i \in 1..Len(s) : s[i] = p}
           after == {i \in 1..Len(r) : r[i] = p}
           up == [i \in after |-> IF i < k THEN i ELSE i + 1]
<1>1. Len(s) \in Nat /\ Len(r) = Len(s) - 1
      /\ \A j \in 1..(Len(s) - 1) : r[j] = IF j < k THEN s[j] ELSE s[j + 1]
  BY RemoveAtIs, LenProperties
<1> HIDE DEF r
<1>2. IsFiniteSet(before) /\ IsFiniteSet(after)
  <2>1. IsFiniteSet(1..Len(s)) /\ IsFiniteSet(1..Len(r))
    BY <1>1, FS_Interval
  <2> QED
    BY <2>1, FS_Subset
<1>3. up \in Bijection(after, before \ {k})
  <2>1. up \in [after -> before \ {k}]
    <3> SUFFICES ASSUME NEW i \in after
                 PROVE  (IF i < k THEN i ELSE i + 1) \in before \ {k}
      OBVIOUS
    <3>1. i \in 1..(Len(s) - 1) /\ r[i] = p
      BY <1>1
    <3> QED
      BY <1>1, <3>1
  <2>2. \A i, j \in after : up[i] = up[j] => i = j
    BY <1>1
  <2>3. \A m \in before \ {k} : \E i \in after : up[i] = m
    <3> SUFFICES ASSUME NEW m \in before \ {k}
                 PROVE  \E i \in after : up[i] = m
      OBVIOUS
    <3>1. CASE m < k
      <4>1. m \in after
        BY <1>1, <3>1
      <4> QED
        BY <3>1, <4>1
    <3>2. CASE m > k
      <4>1. PICK n : n = m - 1
        OBVIOUS
      <4>2. m \in 1..Len(s) /\ s[m] = p /\ m \in Nat /\ k \in Nat
        BY <1>1
      <4>3. n \in 1..(Len(s) - 1) /\ ~(n < k) /\ n + 1 = m
        BY <1>1, <3>2, <4>1, <4>2
      <4>4. r[n] = p
        BY <1>1, <4>2, <4>3
      <4>5. n \in after
        BY <1>1, <4>3, <4>4
      <4>6. up[n] = m
        BY <4>3, <4>5
      <4> QED
        BY <4>5, <4>6
    <3>3. m < k \/ m > k
      <4>1. m \in Nat /\ k \in Nat /\ m # k
        BY <1>1
      <4> QED
        BY ONLY <4>1
    <3> QED
      BY <3>1, <3>2, <3>3
  <2> QED
    BY <2>1, <2>2, <2>3, Fun_IsBij
<1>4. Cardinality(before \ {k}) = Cardinality(after)
  BY <1>2, <1>3, FS_Bijection DEF ExistsBijection
<1>5. Cardinality(before \ {k}) = Cardinality(before) - (IF s[k] = p THEN 1 ELSE 0)
  <2>1. Cardinality(before) \in Nat /\ (k \in before <=> s[k] = p)
    BY <1>2, FS_CardinalityType
  <2>2. Cardinality(before \ {k})
        = IF k \in before THEN Cardinality(before) - 1 ELSE Cardinality(before)
    BY <1>2, FS_RemoveElement
  <2> QED
    BY <2>1, <2>2
<1> QED
  BY <1>4, <1>5 DEF At, r

---------------------------------------------------------------------------
\* Types and the mutex.
LEMMA TypesKept ==
  ASSUME LoaderConstants, Loader!TypeOK, Exclusive, NEW th \in Thread,
         Loader!Calling(th) \/ Loader!Working(th)
  PROVE  Loader!TypeOK'
<1>1. /\ modules \in Seq(Path) /\ refs \in [Path -> Nat]
      /\ modulePlace \in [Thread -> Loader!Place]
      /\ subject \in [Thread -> Path] /\ pos \in [Thread -> Nat \ {0}] /\ leaked \in [Path -> Nat]
      /\ Len(modules) \in Nat /\ loads \in Nat /\ MaxLoads \in Nat /\ loads <= MaxLoads
      /\ \A i \in 1..Len(modules) : modules[i] \in Path
  BY LenProperties, ElementOfSeq DEF Loader!TypeOK, LoaderConstants, Loader!LoadsAssumption
<1>2. \A p \in Path : Loader!Closed(p) \in [Path -> Nat]
  <2> SUFFICES ASSUME NEW p \in Path PROVE Loader!Closed(p) \in [Path -> Nat]
    OBVIOUS
  <2>1. (IF refs[p] = 0 THEN 0 ELSE refs[p] - 1) \in Nat
    BY <1>1
  <2> QED
    BY <1>1, <2>1 DEF Loader!Closed
<1>3. ASSUME NEW p \in Path, Loader!LoadOpens(th, p) PROVE Loader!TypeOK'
  <2>1. loads' \in 0..MaxLoads /\ refs' \in [Path -> Nat] /\ subject' \in [Thread -> Path]
    BY <1>1, <1>3 DEF Loader!LoadOpens
  <2>2. modulePlace' \in [Thread -> Loader!Place]
        /\ \A t \in Thread : modulePlace'[t] = "unload" => modulePlace[t] = "unload"
    BY <1>1, <1>3 DEF Loader!LoadOpens, Loader!Goto, Loader!Place
  <2> QED
    BY <1>3, <2>1, <2>2 DEF Loader!TypeOK, Loader!LoadOpens
<1>4. ASSUME Loader!LoadRejected(th) PROVE Loader!TypeOK'
  <2>1. modulePlace' \in [Thread -> Loader!Place]
        /\ \A t \in Thread : modulePlace'[t] = "unload" => modulePlace[t] = "unload"
    BY <1>1, <1>4 DEF Loader!LoadRejected, Loader!Goto, Loader!Place
  <2> QED
    BY <1>1, <1>2, <1>4, <2>1 DEF Loader!TypeOK, Loader!LoadRejected, Loader!histVars
<1>5. ASSUME Loader!LoadThrows(th) PROVE Loader!TypeOK'
  <2>1. modulePlace' \in [Thread -> Loader!Place]
        /\ \A t \in Thread : modulePlace'[t] = "unload" => modulePlace[t] = "unload"
    BY <1>1, <1>5 DEF Loader!LoadThrows, Loader!Goto, Loader!Place
  <2> QED
    BY <1>1, <1>5, <2>1 DEF Loader!TypeOK, Loader!LoadThrows
<1>6. ASSUME Loader!LoadPushes(th) PROVE Loader!TypeOK'
  <2>1. modulePlace' \in [Thread -> Loader!Place] /\ \A t \in Thread : modulePlace'[t] # "unload"
    BY <1>1, <1>6 DEF Loader!LoadPushes, Loader!Goto, Loader!Place, Loader!Unlocked
  <2>2. modules' \in Seq(Path)
    BY <1>1, <1>6, AppendProperties DEF Loader!LoadPushes
  <2> QED
    BY <1>6, <2>1, <2>2 DEF Loader!TypeOK, Loader!LoadPushes, Loader!histVars
<1>7. ASSUME Loader!DispatchLocks(th) \/ Loader!DispatchCalls(th) \/ Loader!DispatchEnds(th)
      PROVE Loader!TypeOK'
  <2>1. modulePlace' \in [Thread -> Loader!Place]
    BY <1>1, <1>7
    DEF Loader!DispatchLocks, Loader!DispatchCalls, Loader!DispatchEnds, Loader!Goto,
        Loader!Place
  <2>3. pos' \in [Thread -> Nat \ {0}]
    <3>1. pos[th] + 1 \in Nat \ {0} /\ 1 \in Nat \ {0}
      BY <1>1
    <3> QED
      BY <1>1, <1>7, <3>1 DEF Loader!DispatchLocks, Loader!DispatchCalls, Loader!DispatchEnds
  <2>4. crashed' \in BOOLEAN
    <3>1. CASE Loader!DispatchCalls(th)
      BY <3>1, Zenon DEF Loader!DispatchCalls
    <3>2. CASE ~Loader!DispatchCalls(th)
      BY <1>7, <3>2 DEF Loader!TypeOK, Loader!DispatchLocks, Loader!DispatchEnds
    <3> QED
      BY <3>1, <3>2
  <2>2. \A t \in Thread : modulePlace'[t] = "unload" => modulePlace[t] = "unload"
        /\ pos'[t] = pos[t]
    BY <1>1, <1>7 DEF Loader!DispatchLocks, Loader!DispatchCalls, Loader!DispatchEnds, Loader!Goto
  <2> QED
    BY <1>7, <2>1, <2>2, <2>3, <2>4
    DEF Loader!TypeOK, Loader!DispatchLocks, Loader!DispatchCalls, Loader!DispatchEnds,
        Loader!histVars
<1>8. ASSUME NEW i \in 1..Len(modules), Loader!UnloadLocks(th, i) PROVE Loader!TypeOK'
  <2>1. /\ modulePlace' \in [Thread -> Loader!Place] /\ pos' \in [Thread -> Nat \ {0}]
        /\ crashed' \in BOOLEAN
    BY <1>1, <1>8 DEF Loader!TypeOK, Loader!UnloadLocks, Loader!Goto, Loader!Place
  <2>2. \A t \in Thread : modulePlace'[t] = "unload" => pos'[t] <= Len(modules)
    <3>1. pos'[th] = i /\ \A t \in Thread \ {th} : modulePlace'[t] = modulePlace[t]
      BY <1>1, <1>8 DEF Loader!UnloadLocks, Loader!Goto
    <3>2. \A t \in Thread : modulePlace[t] # "unload"
      BY <1>8 DEF Loader!UnloadLocks, Loader!Unlocked
    <3> QED
      BY <1>1, <3>1, <3>2
  <2> QED
    BY <1>8, <2>1, <2>2 DEF Loader!TypeOK, Loader!UnloadLocks, Loader!histVars
<1>9. ASSUME Loader!UnloadCloses(th) PROVE Loader!TypeOK'
  <2>1. pos[th] \in 1..Len(modules)
    BY <1>1, <1>9 DEF Loader!TypeOK, Loader!UnloadCloses
  <2>2. modules' \in Seq(Path) /\ refs' \in [Path -> Nat]
    BY <1>1, <1>2, <1>9, <2>1, RemoveAtIs DEF Loader!UnloadCloses, Loader!Here
  <2>3. modulePlace' \in [Thread -> Loader!Place] /\ \A t \in Thread : modulePlace'[t] # "unload"
    BY <1>1, <1>9 DEF Exclusive, Loader!UnloadCloses, Loader!Goto, Loader!Place
  <2> QED
    BY <1>9, <2>2, <2>3 DEF Loader!TypeOK, Loader!UnloadCloses, Loader!histVars
<1>10. ASSUME Loader!UnloadThrows(th) \/ Loader!UnloadAllLocks(th) PROVE Loader!TypeOK'
  <2>1. modulePlace' \in [Thread -> Loader!Place]
    BY <1>1, <1>10 DEF Loader!UnloadThrows, Loader!UnloadAllLocks, Loader!Goto, Loader!Place
  <2>2. pos' \in [Thread -> Nat \ {0}]
    <3>1. CASE Loader!UnloadThrows(th)
      BY <1>1, <3>1 DEF Loader!UnloadThrows
    <3>2. CASE Loader!UnloadAllLocks(th)
      BY <1>1, <3>2 DEF Loader!UnloadAllLocks
    <3> QED
      BY <1>10, <3>1, <3>2
  <2>3. \A t \in Thread : modulePlace'[t] = "unload" => modulePlace[t] = "unload"
        /\ pos'[t] = pos[t]
    BY <1>1, <1>10 DEF Loader!UnloadThrows, Loader!UnloadAllLocks, Loader!Goto
  <2> QED
    BY <1>10, <2>1, <2>2, <2>3
    DEF Loader!TypeOK, Loader!UnloadThrows, Loader!UnloadAllLocks, Loader!histVars
<1>11. ASSUME Loader!UnloadAllCloses(th) PROVE Loader!TypeOK'
  <2>1. pos[th] \in 1..Len(modules) /\ Loader!Here(th) \in Path /\ pos[th] + 1 \in Nat \ {0}
    BY <1>1, <1>11 DEF Loader!UnloadAllCloses, Loader!Here
  <2>3. refs' \in [Path -> Nat] /\ crashed' \in BOOLEAN
    BY <1>1, <1>2, <1>11, <2>1 DEF Loader!TypeOK, Loader!UnloadAllCloses
  <2>4. pos' \in [Thread -> Nat \ {0}]
    BY <1>1, <1>11, <2>1 DEF Loader!UnloadAllCloses
  <2>2. \A t \in Thread : modulePlace'[t] = "unload" => modulePlace[t] = "unload"
        /\ pos'[t] = pos[t]
    BY <1>1, <1>11 DEF Loader!UnloadAllCloses
  <2> QED
    BY <1>11, <2>2, <2>3, <2>4 DEF Loader!TypeOK, Loader!UnloadAllCloses, Loader!histVars
<1>12. ASSUME Loader!UnloadAllThrows(th) PROVE Loader!TypeOK'
  <2>1. modulePlace' \in [Thread -> Loader!Place]
        /\ \A t \in Thread : modulePlace'[t] = "unload" => modulePlace[t] = "unload"
    BY <1>1, <1>12 DEF Loader!UnloadAllThrows, Loader!Goto, Loader!Place
  <2>2. broken' \in BOOLEAN
    BY <1>12, Zenon DEF Loader!UnloadAllThrows
  <2> QED
    BY <1>12, <2>1, <2>2 DEF Loader!TypeOK, Loader!UnloadAllThrows
<1>13. ASSUME Loader!UnloadAllClears(th) PROVE Loader!TypeOK'
  <2>1. modulePlace' \in [Thread -> Loader!Place] /\ \A t \in Thread : modulePlace'[t] # "unload"
    BY <1>1, <1>13 DEF Exclusive, Loader!UnloadAllClears, Loader!Goto, Loader!Place
  <2>2. modules' \in Seq(Path)
    BY <1>13, EmptySeq DEF Loader!UnloadAllClears
  <2> QED
    BY <1>13, <2>1, <2>2 DEF Loader!TypeOK, Loader!UnloadAllClears, Loader!histVars
<1> QED
  BY <1>3, <1>4, <1>5, <1>6, <1>7, <1>8, <1>9, <1>10, <1>11, <1>12, <1>13
  DEF Loader!Calling, Loader!Working

\* Who takes the mutex to unload finds nobody else holding it.
LEMMA ExclusionKept ==
  ASSUME Loader!TypeOK, Exclusive, NEW th \in Thread, Loader!Calling(th) \/ Loader!Working(th)
  PROVE  Exclusive'
<1>1. modulePlace \in [Thread -> Loader!Place]
  BY DEF Loader!TypeOK
<1>2. \A t \in Thread \ {th} : modulePlace'[t] = modulePlace[t]
  BY <1>1
  DEF Loader!Calling, Loader!Working, Loader!LoadOpens, Loader!LoadRejected, Loader!LoadThrows,
      Loader!LoadPushes, Loader!DispatchLocks, Loader!DispatchCalls, Loader!DispatchEnds,
      Loader!UnloadLocks, Loader!UnloadCloses, Loader!UnloadThrows, Loader!UnloadAllLocks,
      Loader!UnloadAllCloses, Loader!UnloadAllThrows, Loader!UnloadAllClears, Loader!Goto
<1>3. CASE modulePlace'[th] \in {"unload", "unloadAll"} /\ modulePlace[th] = "idle"
  <2>1. Loader!Unlocked
    BY <1>1, <1>3
    DEF Loader!Calling, Loader!Working, Loader!LoadOpens, Loader!LoadRejected,
        Loader!LoadThrows, Loader!LoadPushes, Loader!DispatchLocks, Loader!DispatchCalls,
        Loader!DispatchEnds, Loader!UnloadLocks, Loader!UnloadCloses, Loader!UnloadThrows,
        Loader!UnloadAllLocks, Loader!UnloadAllCloses, Loader!UnloadAllThrows,
        Loader!UnloadAllClears, Loader!Goto
  <2> QED
    BY <1>2, <1>3, <2>1 DEF Exclusive, Loader!Unlocked
<1>4. CASE modulePlace'[th] = "dispatch"
  <2>1. Loader!NoWriter
    BY <1>1, <1>4
    DEF Loader!Calling, Loader!Working, Loader!LoadOpens, Loader!LoadRejected,
        Loader!LoadThrows, Loader!LoadPushes, Loader!DispatchLocks, Loader!DispatchCalls,
        Loader!DispatchEnds, Loader!UnloadLocks, Loader!UnloadCloses, Loader!UnloadThrows,
        Loader!UnloadAllLocks, Loader!UnloadAllCloses, Loader!UnloadAllThrows,
        Loader!UnloadAllClears, Loader!Goto, Exclusive, Loader!NoWriter
  <2> QED
    BY <1>2, <1>4, <2>1 DEF Exclusive, Loader!NoWriter
<1>5. CASE modulePlace'[th] \in {"idle", "loading"} \/ modulePlace'[th] = modulePlace[th]
  BY <1>2, <1>5 DEF Exclusive
<1>6. \/ modulePlace'[th] \in {"unload", "unloadAll"} /\ modulePlace[th] = "idle"
      \/ modulePlace'[th] = "dispatch"
      \/ modulePlace'[th] \in {"idle", "loading"}
      \/ modulePlace'[th] = modulePlace[th]
  BY <1>1
  DEF Loader!Calling, Loader!Working, Loader!LoadOpens, Loader!LoadRejected, Loader!LoadThrows,
      Loader!LoadPushes, Loader!DispatchLocks, Loader!DispatchCalls, Loader!DispatchEnds,
      Loader!UnloadLocks, Loader!UnloadCloses, Loader!UnloadThrows, Loader!UnloadAllLocks,
      Loader!UnloadAllCloses, Loader!UnloadAllThrows, Loader!UnloadAllClears, Loader!Goto
<1> QED
  BY <1>3, <1>4, <1>5, <1>6

---------------------------------------------------------------------------
\* No call goes into an unmapped object.
LEMMA CallsKept ==
  ASSUME LoaderInv, NEW th \in Thread, Loader!Calling(th) \/ Loader!Working(th)
  PROVE  Loader!CallsAreMapped'
<1>0. pos[th] \in Nat \ {0} /\ Len(modules) \in Nat
  BY LenProperties DEF LoaderInv, Loader!TypeOK
<1>1. CASE Loader!DispatchCalls(th)
  <2>1. pos[th] \in 1..Len(modules) /\ \A t \in Thread : modulePlace[t] # "unloadAll"
    BY <1>0, <1>1 DEF LoaderInv, Exclusive, Loader!DispatchCalls
  <2>2. ~broken => Loader!Mapped(Loader!Here(th))
    BY <2>1, NoneClosed, EntryMapped DEF Loader!Here
  <2> QED
    BY <1>1, <2>2 DEF Loader!CallsAreMapped, Loader!DispatchCalls, Loader!histVars
<1>2. ASSUME NEW i \in 1..Len(modules), Loader!UnloadLocks(th, i) PROVE Loader!CallsAreMapped'
  <2>1. \A t \in Thread : modulePlace[t] # "unloadAll"
    BY <1>2 DEF Loader!Unlocked, Loader!UnloadLocks
  <2>2. ~broken => Loader!Mapped(modules[i])
    BY <2>1, NoneClosed, EntryMapped
  <2> QED
    BY <1>2, <2>2 DEF Loader!CallsAreMapped, Loader!UnloadLocks, Loader!histVars
<1>3. CASE Loader!UnloadAllCloses(th)
  <2>1. pos[th] \in 1..Len(modules) /\ pos[th] \notin Loader!ClosedSoFar(Loader!Here(th))
    BY <1>0, <1>3 DEF LoaderInv, Exclusive, Loader!ClosedSoFar, Loader!UnloadAllCloses
  <2>2. ~broken => Loader!Mapped(Loader!Here(th))
    BY <2>1, EntryMapped DEF Loader!Here
  <2> QED
    BY <1>3, <2>2 DEF LoaderInv, Loader!CallsAreMapped, Loader!UnloadAllCloses, Loader!histVars
<1>4. CASE Loader!UnloadAllThrows(th)
  BY <1>4 DEF Loader!CallsAreMapped, Loader!UnloadAllThrows
<1>5. CASE UNCHANGED <<broken, crashed>>
  BY <1>5 DEF LoaderInv, Loader!CallsAreMapped
<1> QED
  BY <1>1, <1>2, <1>3, <1>4, <1>5
  DEF Loader!Calling, Loader!Working, Loader!LoadOpens, Loader!LoadRejected, Loader!LoadThrows,
      Loader!LoadPushes, Loader!DispatchLocks, Loader!DispatchEnds, Loader!UnloadCloses,
      Loader!UnloadThrows, Loader!UnloadAllLocks, Loader!UnloadAllClears, Loader!histVars

---------------------------------------------------------------------------
\* Open handles.

\* A step that moves neither handle, entry, load nor leak of p.
LEMMA SameBalance ==
  ASSUME NEW p, Balance(p), refs'[p] = refs[p], leaked'[p] = leaked[p],
         Entries(p)' = Entries(p), Loading(p)' = Loading(p),
         Loader!ClosedSoFar(p)' = Loader!ClosedSoFar(p)
  PROVE  Balance(p)'
BY DEF Balance

\* LoadModule gains a handle and loses it again, to modules_ or an exception.
LEMMA LoadBalances ==
  ASSUME LoaderInv, NEW th \in Thread, NEW p \in Path, Balance(p), ~broken,
         (\E q \in Path : Loader!LoadOpens(th, q)) \/ Loader!LoadRejected(th)
         \/ Loader!LoadThrows(th) \/ Loader!LoadPushes(th)
  PROVE  Balance(p)'
<1>1. /\ refs \in [Path -> Nat] /\ modulePlace \in [Thread -> Loader!Place]
      /\ subject \in [Thread -> Path]
      /\ leaked \in [Path -> Nat] /\ modules \in Seq(Path) /\ Len(modules) \in Nat
  BY LenProperties DEF LoaderInv, Loader!TypeOK
<1>2. /\ IsFiniteSet(Entries(p)) /\ IsFiniteSet(Loading(p))
      /\ Cardinality(Entries(p)) \in Nat /\ Cardinality(Loading(p)) \in Nat
      /\ Cardinality(Loader!ClosedSoFar(p)) \in Nat /\ refs[p] \in Nat /\ leaked[p] \in Nat
  BY Counts DEF LoaderInv
<1>3. ASSUME NEW q \in Path, Loader!LoadOpens(th, q) PROVE Balance(p)'
  <2>1. Entries(p)' = Entries(p)
        /\ Loader!ClosedSoFar(p)' = Loader!ClosedSoFar(p) /\ leaked' = leaked
    BY <1>1, <1>3 DEF Loader!LoadOpens, Loader!Goto, Entries, At, Loader!ClosedSoFar
  <2>2. th \notin Loading(p)
    BY <1>3 DEF Loader!LoadOpens, Loading
  <2>3. Loading(p)' = IF p = q THEN Loading(p) \cup {th} ELSE Loading(p)
    BY <1>1, <1>3 DEF Loader!LoadOpens, Loader!Goto, Loading
  <2>4. Cardinality(Loading(p))' = Cardinality(Loading(p)) + (IF p = q THEN 1 ELSE 0)
    BY <1>2, <2>2, <2>3, GainsIf
  <2>5. refs'[p] = refs[p] + (IF p = q THEN 1 ELSE 0)
    BY <1>1, <1>3 DEF Loader!LoadOpens
  <2> QED
    BY <1>2, <2>1, <2>4, <2>5 DEF Balance
<1>4. ASSUME Loader!LoadRejected(th) \/ Loader!LoadThrows(th) \/ Loader!LoadPushes(th)
      PROVE  /\ th \in Loading(subject[th])
             /\ Loading(p)' = IF p = subject[th] THEN Loading(p) \ {th} ELSE Loading(p)
             /\ Cardinality(Loading(p))' =
                  Cardinality(Loading(p)) - (IF p = subject[th] THEN 1 ELSE 0)
  <2>1. th \in Loading(subject[th])
    BY <1>4 DEF Loader!LoadRejected, Loader!LoadThrows, Loader!LoadPushes, Loading
  <2>2. Loading(p)' = IF p = subject[th] THEN Loading(p) \ {th} ELSE Loading(p)
    BY <1>1, <1>4
    DEF Loader!LoadRejected, Loader!LoadThrows, Loader!LoadPushes, Loader!Goto, Loading
  <2> QED
    BY <1>2, <2>1, <2>2, LosesIf
<1>5. ASSUME Loader!LoadRejected(th) PROVE Balance(p)'
  <2>1. Entries(p)' = Entries(p)
        /\ Loader!ClosedSoFar(p)' = Loader!ClosedSoFar(p) /\ leaked' = leaked
    BY <1>1, <1>5
    DEF Loader!LoadRejected, Loader!Goto, Entries, At, Loader!ClosedSoFar, Loader!histVars
  <2>2. refs[subject[th]] > 0
    BY <1>5, LoadingMapped DEF Loader!LoadRejected
  <2>3. refs'[p] = refs[p] - (IF p = subject[th] THEN 1 ELSE 0)
    BY <1>1, <1>5, <2>2 DEF Loader!LoadRejected, Loader!Closed
  <2> QED
    BY <1>2, <1>4, <1>5, <2>1, <2>3 DEF Balance
<1>6. ASSUME Loader!LoadThrows(th) PROVE Balance(p)'
  <2>1. Entries(p)' = Entries(p) /\ Loader!ClosedSoFar(p)' = Loader!ClosedSoFar(p) /\ refs' = refs
    BY <1>1, <1>6 DEF Loader!LoadThrows, Loader!Goto, Entries, At, Loader!ClosedSoFar
  <2>2. leaked'[p] = leaked[p] + (IF p = subject[th] THEN 1 ELSE 0)
    BY <1>1, <1>6 DEF Loader!LoadThrows
  <2> QED
    BY <1>2, <1>4, <1>6, <2>1, <2>2 DEF Balance
<1>7. ASSUME Loader!LoadPushes(th) PROVE Balance(p)'
  <2>1. Loader!ClosedSoFar(p) = {}
        /\ Loader!ClosedSoFar(p)' = {} /\ refs' = refs /\ leaked' = leaked
    BY <1>1, <1>7
    DEF Loader!LoadPushes, Loader!Unlocked, Loader!Goto, Loader!ClosedSoFar, Loader!histVars
  <2>2. /\ Len(modules') = Len(modules) + 1 /\ modules'[Len(modules) + 1] = subject[th]
        /\ \A i \in 1..Len(modules) : modules'[i] = modules[i]
    BY <1>1, <1>7, AppendProperties DEF Loader!LoadPushes
  <2>3. Entries(p)' = IF p = subject[th] THEN Entries(p) \cup {Len(modules) + 1} ELSE Entries(p)
    <3>1. /\ Entries(p) = {i \in 1..Len(modules) : modules[i] = p}
          /\ Entries(p)' = {i \in 1..Len(modules') : modules'[i] = p}
      BY DEF Entries, At
    <3>2. 1..Len(modules') = 1..Len(modules) \cup {Len(modules) + 1}
      BY <1>1, <2>2
    <3> QED
      BY <2>2, <3>1, <3>2
  <2>4. Len(modules) + 1 \notin Entries(p)
    BY <1>1 DEF Entries, At
  <2>5. Cardinality(Entries(p))' = Cardinality(Entries(p)) + (IF p = subject[th] THEN 1 ELSE 0)
    <3>1. PICK last : last = Len(modules) + 1
      OBVIOUS
    <3>2. last \notin Entries(p)
      BY <2>4, <3>1
    <3>3. Entries(p)' = IF p = subject[th] THEN Entries(p) \cup {last} ELSE Entries(p)
      BY <2>3, <3>1
    <3> QED
      BY <1>2, <3>2, <3>3, GainsIf
  <2> QED
    BY <1>2, <1>4, <1>7, <2>1, <2>5 DEF Balance
<1> QED
  BY <1>3, <1>5, <1>6, <1>7

\* UnloadModule closes the handle of the entry it erases.
LEMMA UnloadBalances ==
  ASSUME LoaderInv, NEW th \in Thread, NEW p \in Path, Balance(p), ~broken,
         Loader!UnloadCloses(th)
  PROVE  Balance(p)'
<1>1. /\ refs \in [Path -> Nat] /\ modulePlace \in [Thread -> Loader!Place]
      /\ modules \in Seq(Path)
      /\ pos[th] \in 1..Len(modules) /\ Len(modules) \in Nat
  BY LenProperties DEF LoaderInv, Loader!TypeOK, Loader!UnloadCloses
<1>2. \A t \in Thread : modulePlace[t] # "unloadAll"
  BY DEF LoaderInv, Exclusive, Loader!UnloadCloses
<1>3. Loader!ClosedSoFar(p) = {} /\ Loader!ClosedSoFar(p)' = {} /\ leaked' = leaked
      /\ Loading(p)' = Loading(p)
  BY <1>1, <1>2 DEF Loader!UnloadCloses, Loader!Goto, Loader!ClosedSoFar, Loading, Loader!histVars
<1>4. refs[Loader!Here(th)] > 0
  BY <1>1, <1>2, NoneClosed, EntryMapped DEF Loader!Here, Loader!Mapped
<1>5. refs'[p] = refs[p] - (IF p = Loader!Here(th) THEN 1 ELSE 0)
  BY <1>1, <1>4 DEF Loader!UnloadCloses, Loader!Closed
<1>6. /\ Cardinality(Entries(p)) \in Nat /\ Cardinality(Loading(p)) \in Nat
      /\ refs[p] \in Nat /\ leaked[p] \in Nat
  BY Counts DEF LoaderInv
<1>7. Cardinality(Entries(p))' = Cardinality(Entries(p)) - (IF p = Loader!Here(th) THEN 1 ELSE 0)
  <2>1. modules' = Loader!RemoveAt(modules, pos[th])
    BY DEF Loader!UnloadCloses
  <2>3. Cardinality(Entries(p)')
        = Cardinality(Entries(p)) - (IF modules[pos[th]] = p THEN 1 ELSE 0)
    BY <1>1, <2>1, CountAfterRemove DEF Entries
  <2> QED
    BY <2>3 DEF Loader!Here
<1> QED
  BY <1>3, <1>5, <1>6, <1>7, FS_EmptySet DEF Balance

\* UnloadAll closes one entry after the other and clears them all.
LEMMA UnloadAllBalances ==
  ASSUME LoaderInv, NEW th \in Thread, NEW p \in Path, Balance(p), ~broken', ~broken,
         Loader!UnloadAllLocks(th) \/ Loader!UnloadAllCloses(th) \/ Loader!UnloadAllThrows(th)
         \/ Loader!UnloadAllClears(th)
  PROVE  Balance(p)'
<1>1. /\ refs \in [Path -> Nat] /\ modulePlace \in [Thread -> Loader!Place]
      /\ modules \in Seq(Path)
      /\ pos \in [Thread -> Nat \ {0}] /\ Len(modules) \in Nat
  BY LenProperties DEF LoaderInv, Loader!TypeOK
<1>2. /\ Cardinality(Entries(p)) \in Nat /\ Cardinality(Loading(p)) \in Nat
      /\ Cardinality(Loader!ClosedSoFar(p)) \in Nat /\ IsFiniteSet(Loader!ClosedSoFar(p))
      /\ refs[p] \in Nat /\ leaked[p] \in Nat
  BY Counts DEF LoaderInv
<1>3. \A t \in Thread \ {th} : modulePlace[t] # "unloadAll"
  BY DEF LoaderInv, Exclusive, Loader!Unlocked, Loader!UnloadAllLocks, Loader!UnloadAllCloses,
         Loader!UnloadAllThrows, Loader!UnloadAllClears
<1>4. CASE Loader!UnloadAllLocks(th)
  <2>1. Loader!ClosedSoFar(p) = {} /\ Loader!ClosedSoFar(p)' = {}
    BY <1>1, <1>3, <1>4 DEF Loader!UnloadAllLocks, Loader!Goto, Loader!ClosedSoFar
  <2> QED
    BY <1>1, <1>4, <2>1, SameBalance
    DEF Loader!UnloadAllLocks, Loader!Goto, Entries, At, Loading, Loader!histVars
<1>5. CASE Loader!UnloadAllCloses(th)
  <2>1. /\ pos[th] \in 1..Len(modules) /\ pos[th] \notin Loader!ClosedSoFar(p)
        /\ pos[th] \notin Loader!ClosedSoFar(Loader!Here(th))
    BY <1>1, <1>3, <1>5 DEF Loader!ClosedSoFar, Loader!UnloadAllCloses
  <2>2. Loader!Mapped(Loader!Here(th))
    BY <2>1, EntryMapped DEF Loader!Here
  <2>3. /\ refs' = Loader!Closed(Loader!Here(th)) /\ pos' = [pos EXCEPT ![th] = @ + 1]
        /\ modules' = modules /\ modulePlace' = modulePlace /\ subject' = subject
        /\ leaked' = leaked
        /\ modulePlace[th] = "unloadAll"
    BY <1>5, <2>2 DEF Loader!UnloadAllCloses, Loader!histVars
  <2>4. refs'[p] = refs[p] - (IF p = Loader!Here(th) THEN 1 ELSE 0)
    BY <1>1, <2>2, <2>3 DEF Loader!Closed, Loader!Mapped
  <2>5. Loader!ClosedSoFar(p)' = IF p = Loader!Here(th)
        THEN Loader!ClosedSoFar(p) \cup {pos[th]} ELSE Loader!ClosedSoFar(p)
    <3>1. pos'[th] = pos[th] + 1 /\ \A t \in Thread \ {th} : pos'[t] = pos[t]
      BY <1>1, <2>3
    <3>2. Loader!ClosedSoFar(p) = {i \in 1..Len(modules) : modules[i] = p /\ i < pos[th]}
      BY <1>3, <2>3 DEF Loader!ClosedSoFar
    <3>3. Loader!ClosedSoFar(p)' = {i \in 1..Len(modules) : modules[i] = p /\ i < pos[th] + 1}
      BY <1>3, <2>3, <3>1 DEF Loader!ClosedSoFar
    <3> QED
      BY <1>1, <2>1, <3>2, <3>3 DEF Loader!Here
  <2>6. Cardinality(Loader!ClosedSoFar(p))' =
          Cardinality(Loader!ClosedSoFar(p)) + (IF p = Loader!Here(th) THEN 1 ELSE 0)
    BY <1>2, <2>1, <2>5, GainsIf
  <2>7. Entries(p)' = Entries(p) /\ Loading(p)' = Loading(p)
    BY <2>3 DEF Entries, At, Loading
  <2> QED
    BY <1>2, <2>3, <2>4, <2>6, <2>7 DEF Balance
<1>6. CASE Loader!UnloadAllThrows(th)
  <2>0. ~(pos[th] > 1)
    BY <1>6, Zenon DEF Loader!UnloadAllThrows
  <2>1. pos[th] = 1
    BY <1>1, <2>0
  <2>2. Loader!ClosedSoFar(p) = {} /\ Loader!ClosedSoFar(p)' = {}
    BY <1>1, <1>3, <1>6, <2>1 DEF Loader!UnloadAllThrows, Loader!Goto, Loader!ClosedSoFar
  <2> QED
    BY <1>1, <1>6, <2>2, SameBalance DEF Loader!UnloadAllThrows, Loader!Goto, Entries, At, Loading
<1>7. CASE Loader!UnloadAllClears(th)
  <2>1. Loader!ClosedSoFar(p) = Entries(p)
    BY <1>1, <1>7 DEF Loader!UnloadAllClears, Loader!ClosedSoFar, Entries, At
  <2>2. Entries(p)' = {} /\ Loader!ClosedSoFar(p)' = {}
    <3>1. modules' = <<>> /\ Len(modules') = 0
      BY <1>7, EmptySeq DEF Loader!UnloadAllClears
    <3> QED
      BY <3>1 DEF Entries, At, Loader!ClosedSoFar
  <2>3. Loading(p)' = Loading(p) /\ refs' = refs /\ leaked' = leaked
    BY <1>1, <1>7 DEF Loader!UnloadAllClears, Loader!Goto, Loading, Loader!histVars
  <2>4. Cardinality(Entries(p)') = 0 /\ Cardinality(Loader!ClosedSoFar(p)') = 0
    BY <2>2, FS_EmptySet
  <2> QED
    BY <1>2, <2>1, <2>3, <2>4 DEF Balance
<1> QED
  BY <1>4, <1>5, <1>6, <1>7

\* The other steps leave handles and entries alone.
LEMMA OthersBalance ==
  ASSUME LoaderInv, NEW th \in Thread, NEW p \in Path, Balance(p),
         \/ Loader!DispatchLocks(th) \/ Loader!DispatchCalls(th) \/ Loader!DispatchEnds(th)
         \/ Loader!UnloadThrows(th)
         \/ \E i \in 1..Len(modules) : Loader!UnloadLocks(th, i)
  PROVE  Balance(p)'
<1>1. modulePlace \in [Thread -> Loader!Place] /\ pos \in [Thread -> Nat \ {0}]
  BY DEF LoaderInv, Loader!TypeOK
<1>2. UNCHANGED <<modules, refs, leaked, subject>>
  BY DEF Loader!DispatchLocks, Loader!DispatchCalls, Loader!DispatchEnds, Loader!UnloadThrows,
         Loader!UnloadLocks, Loader!histVars
<1>3. /\ \A t \in Thread : modulePlace'[t] = "loading" <=> modulePlace[t] = "loading"
      /\ \A t \in Thread : modulePlace'[t] = "unloadAll" <=> modulePlace[t] = "unloadAll"
      /\ \A t \in Thread : modulePlace[t] = "unloadAll" => pos'[t] = pos[t]
  BY <1>1
  DEF Loader!DispatchLocks, Loader!DispatchCalls, Loader!DispatchEnds, Loader!UnloadThrows,
      Loader!UnloadLocks, Loader!Goto
<1>4. Entries(p)' = Entries(p) /\ Loading(p)' = Loading(p)
      /\ Loader!ClosedSoFar(p)' = Loader!ClosedSoFar(p)
  BY <1>2, <1>3 DEF Entries, At, Loading, Loader!ClosedSoFar
<1> QED
  BY <1>2, <1>4, SameBalance

\* So every step keeps the balance until an exception breaks UnloadAll.
LEMMA BalanceKept ==
  ASSUME LoaderInv, NEW th \in Thread, Loader!Calling(th) \/ Loader!Working(th)
  PROVE  Loader!HandlesBalance'
<1>1. SUFFICES ASSUME ~broken', NEW p \in Path PROVE Balance(p)'
  BY LoaderCardinality DEF Loader!HandlesBalance, Balance, Entries, At, Loading
<1>2. ~broken
  BY <1>1
  DEF Loader!Calling, Loader!Working, Loader!LoadOpens, Loader!LoadRejected, Loader!LoadThrows,
      Loader!LoadPushes, Loader!DispatchLocks, Loader!DispatchCalls, Loader!DispatchEnds,
      Loader!UnloadLocks, Loader!UnloadCloses, Loader!UnloadThrows, Loader!UnloadAllLocks,
      Loader!UnloadAllCloses, Loader!UnloadAllThrows, Loader!UnloadAllClears, Loader!histVars
<1>3. Balance(p)
  BY <1>2, BalanceIs DEF LoaderInv
<1> QED
  BY <1>1, <1>2, <1>3, LoadBalances, UnloadBalances, UnloadAllBalances, OthersBalance
  DEF Loader!Calling, Loader!Working

---------------------------------------------------------------------------
\* At first nothing is open and nobody is in a call.
LEMMA LoaderInitInv == LoaderConstants /\ Loader!Init => LoaderInv
<1> SUFFICES ASSUME LoaderConstants, Loader!Init PROVE LoaderInv
  OBVIOUS
<1>1. modules = <<>> /\ modules \in Seq(Path) /\ Len(modules) = 0
  BY EmptySeq DEF Loader!Init
<1>2. Loader!TypeOK
  <2>1. /\ refs \in [Path -> Nat] /\ leaked \in [Path -> Nat] /\ pos \in [Thread -> Nat \ {0}]
        /\ modulePlace \in [Thread -> Loader!Place]
        /\ \A th \in Thread : modulePlace[th] # "unload"
    BY DEF Loader!Init, Loader!Place
  <2>2. loads \in 0..MaxLoads
    BY DEF LoaderConstants, Loader!LoadsAssumption, Loader!Init
  <2> QED
    BY <1>1, <2>1, <2>2 DEF Loader!Init, Loader!TypeOK
<1>3. Exclusive /\ Loader!CallsAreMapped
  BY DEF Loader!Init, Exclusive, Loader!CallsAreMapped
<1>4. ASSUME NEW p \in Path PROVE Balance(p)
  <2>1. Entries(p) = {} /\ Loading(p) = {} /\ Loader!ClosedSoFar(p) = {}
    BY <1>1 DEF Loader!Init, Entries, At, Loading, Loader!ClosedSoFar
  <2>2. refs[p] = 0 /\ leaked[p] = 0
    BY DEF Loader!Init
  <2> QED
    BY <2>1, <2>2, FS_EmptySet DEF Balance
<1> QED
  BY <1>2, <1>3, <1>4, BalanceIs DEF LoaderInv

\* A step of some thread, or none.
LEMMA LoaderStepInv == LoaderInv /\ [Loader!Next]_loaderVars => LoaderInv'
<1> SUFFICES ASSUME LoaderInv, [Loader!Next]_loaderVars PROVE LoaderInv'
  OBVIOUS
<1>1. CASE Loader!Next
  <2>1. PICK th \in Thread : Loader!Calling(th) \/ Loader!Working(th)
    BY <1>1 DEF Loader!Next
  <2>2. Loader!TypeOK' /\ Exclusive' /\ Loader!CallsAreMapped' /\ Loader!HandlesBalance'
    BY <2>1, TypesKept, ExclusionKept, CallsKept, BalanceKept DEF LoaderInv
  <2> QED
    BY <2>2 DEF LoaderInv, LoaderConstants, Loader!LoadsAssumption
<1>2. CASE UNCHANGED loaderVars
  BY <1>2
  DEF loaderVars, Loader!histVars, LoaderInv, LoaderConstants, Loader!LoadsAssumption,
      Loader!TypeOK, Exclusive, Loader!CallsAreMapped, Loader!HandlesBalance, Loader!ClosedSoFar
<1> QED
  BY <1>1, <1>2

\* The step that DispatchUndisturbed allows.
StepUndisturbed ==
  \A th \in Thread : modulePlace[th] = "dispatch" =>
    /\ UNCHANGED <<modules, broken>>
    /\ ~broken => \A i \in 1..Len(modules) : refs'[modules[i]] > 0

\* Nobody unloads while a dispatch holds the mutex, and the entries that it
\* goes through stay mapped because each of them still counts.
LEMMA DispatchSteps ==
  ASSUME LoaderInv, LoaderInv', [Loader!Next]_loaderVars
  PROVE  [StepUndisturbed]_(Loader!vars)
<1>0. CASE UNCHANGED loaderVars
  BY <1>0 DEF loaderVars, Loader!vars, Loader!histVars
<1> SUFFICES ASSUME Loader!Next, NEW th \in Thread, modulePlace[th] = "dispatch"
             PROVE  /\ UNCHANGED <<modules, broken>>
                    /\ ~broken => \A i \in 1..Len(modules) : refs'[modules[i]] > 0
  BY <1>0 DEF StepUndisturbed
<1>1. PICK other \in Thread : Loader!Calling(other) \/ Loader!Working(other)
  BY DEF Loader!Next
<1>2. /\ modulePlace \in [Thread -> Loader!Place]
      /\ \A t \in Thread : modulePlace[t] \notin {"unload", "unloadAll"}
  BY DEF LoaderInv, Loader!TypeOK, Exclusive
<1>3. UNCHANGED <<modules, broken>>
  BY <1>1, <1>2
  DEF Loader!Calling, Loader!Working, Loader!LoadOpens, Loader!LoadRejected, Loader!LoadThrows,
      Loader!LoadPushes, Loader!Unlocked, Loader!DispatchLocks, Loader!DispatchCalls,
      Loader!DispatchEnds, Loader!UnloadLocks, Loader!UnloadCloses, Loader!UnloadThrows,
      Loader!UnloadAllLocks, Loader!UnloadAllCloses, Loader!UnloadAllThrows,
      Loader!UnloadAllClears, Loader!histVars
<1>4. \A t \in Thread : modulePlace'[t] # "unloadAll"
  BY <1>1, <1>2
  DEF Loader!Calling, Loader!Working, Loader!LoadOpens, Loader!LoadRejected, Loader!LoadThrows,
      Loader!LoadPushes, Loader!Unlocked, Loader!DispatchLocks, Loader!DispatchCalls,
      Loader!DispatchEnds, Loader!UnloadLocks, Loader!UnloadCloses, Loader!UnloadThrows,
      Loader!UnloadAllLocks, Loader!UnloadAllCloses, Loader!UnloadAllThrows,
      Loader!UnloadAllClears, Loader!Goto
<1>5. ASSUME ~broken, NEW i \in 1..Len(modules) PROVE refs'[modules[i]] > 0
  <2>0. PICK p \in Path : p = modules[i]
    BY ElementOfSeq, LenProperties DEF LoaderInv, Loader!TypeOK
  <2>1. i \in Entries(p)
    BY <2>0 DEF Entries, At
  <2>2. Entries(p)' = Entries(p) /\ Loader!ClosedSoFar(p)' = {}
    BY <1>3, <1>4 DEF Entries, At, Loader!ClosedSoFar
  <2>3. Cardinality(Entries(p)) > 0
    BY <2>1, Counts, SomeElement DEF LoaderInv
  <2>4. Balance(p)'
    BY <1>3, <1>5, LoaderCardinality
    DEF LoaderInv, Loader!HandlesBalance, Balance, Entries, At, Loading
  <2>5. /\ Cardinality(Loading(p))' \in Nat /\ refs'[p] \in Nat /\ leaked'[p] \in Nat
        /\ Cardinality(Entries(p)) \in Nat
    <3>1. IsFiniteSet(Loading(p)')
      BY FS_Subset DEF LoaderInv, LoaderConstants, Loading
    <3> QED
      BY <3>1, Counts, FS_CardinalityType DEF LoaderInv, Loader!TypeOK
  <2>6. refs'[p] > 0
    BY <2>2, <2>3, <2>4, <2>5, FS_EmptySet DEF Balance
  <2> QED
    BY <2>0, <2>6
<1> QED
  BY <1>3, <1>5

---------------------------------------------------------------------------
(* AsyncWorker                                                             *)

PoolConstants == Pool!TaskAssumption /\ Pool!CountAssumption

Busy == {w \in Pool!Worker : place[w] \in {"work", "callback"}}

\* TypeOK without the bound of the counter.
PoolTyped == /\ running \in BOOLEAN /\ tasks \in Seq(Task)
             /\ size \in 0..MaxThreads /\ size <= capacity
             /\ capacity \in Nat /\ index \in Nat
             /\ owner \in {"idle", "starting", "joining"}
             /\ place \in [Pool!Worker -> Pool!Place]
             /\ task \in [Pool!Worker -> Task \cup {NoTask}]
             /\ submitted \subseteq Task /\ begun \subseteq Task
             /\ called \subseteq Task /\ failed \subseteq Task
             /\ overlap \in BOOLEAN

\* A worker has a task between taking it and its end; positions behind the
\* last thread are empty.
PoolSeats == /\ \A w \in Pool!Worker : place[w] \in {"took", "work", "callback"} <=> Pool!Holds(w)
             /\ \A w \in Pool!Worker : w > size => place[w] = "none"

\* What was handed over, begun, called back and thrown.
PoolHistories == /\ begun \subseteq submitted /\ failed \subseteq Throwing
                 /\ \A w \in Pool!Worker : Pool!Holds(w) => task[w] \in submitted
                 /\ \A w \in Busy : task[w] \in begun \ Null
                 /\ \A w \in Pool!Worker : place[w] = "callback" => task[w] \notin Throwing

\* While no Start finds the pool running, its loop is as far as the vector.
PoolBounded == ~overlap => /\ size <= ThreadCount /\ capacity = ThreadCount
                           /\ owner = "starting" => index = size

PoolCounted == active = Cardinality(Busy)

PoolInv == /\ PoolConstants /\ PoolTyped /\ PoolSeats /\ PoolHistories
           /\ Pool!TaskInOnePlace /\ Pool!CallbackAfterWork /\ PoolBounded /\ PoolCounted

---------------------------------------------------------------------------
\* A step of a worker, but for the counter and the queue's content.
LEMMA WorkerTypes ==
  ASSUME PoolInv, NEW w \in Pool!Worker, Pool!WorkerStep(w)
  PROVE  PoolTyped'
<1>1. /\ place \in [Pool!Worker -> Pool!Place] /\ task \in [Pool!Worker -> Task \cup {NoTask}]
      /\ tasks \in Seq(Task)
  BY DEF PoolInv, PoolTyped
<1>2. place' \in [Pool!Worker -> Pool!Place]
  BY <1>1
  DEF Pool!WorkerStep, Pool!WorkerTests, Pool!WorkerFindsNone, Pool!WorkerTakes,
      Pool!WorkerDrops, Pool!WorkerBegins, Pool!WorkerCallsBack, Pool!WorkerEnds, Pool!Goto,
      Pool!Place
<1>3. task' \in [Pool!Worker -> Task \cup {NoTask}] /\ tasks' \in Seq(Task)
  <2>1. CASE Pool!WorkerTakes(w)
    <3>1. Head(tasks) \in Task /\ Tail(tasks) \in Seq(Task)
      BY <1>1, <2>1, HeadTailProperties DEF Pool!WorkerTakes
    <3> QED
      BY <1>1, <2>1, <3>1 DEF Pool!WorkerTakes
  <2>2. CASE ~Pool!WorkerTakes(w)
    BY <1>1, <2>2
    DEF Pool!WorkerStep, Pool!WorkerTests, Pool!WorkerFindsNone, Pool!WorkerDrops,
        Pool!WorkerBegins, Pool!WorkerCallsBack, Pool!WorkerEnds
  <2> QED
    BY <2>1, <2>2
<1>4. Pool!Holds(w) => task[w] \in Task
  BY <1>1 DEF Pool!Holds
<1>5. /\ submitted' \subseteq Task /\ begun' \subseteq Task
      /\ called' \subseteq Task /\ failed' \subseteq Task
  <2>1. place[w] \in {"took", "work", "callback"} => task[w] \in Task
    BY <1>4 DEF PoolInv, PoolSeats
  <2> QED
    BY <2>1
    DEF PoolInv, PoolTyped, Pool!WorkerStep, Pool!WorkerTests, Pool!WorkerFindsNone,
        Pool!WorkerTakes, Pool!WorkerDrops, Pool!WorkerBegins, Pool!WorkerCallsBack,
        Pool!WorkerEnds, Pool!Over, Pool!histVars
<1>6. UNCHANGED <<running, Pool!poolVars>>
  BY DEF Pool!WorkerStep, Pool!WorkerTests, Pool!WorkerFindsNone, Pool!WorkerTakes,
         Pool!WorkerDrops, Pool!WorkerBegins, Pool!WorkerCallsBack, Pool!WorkerEnds
<1> QED
  BY <1>2, <1>3, <1>5, <1>6 DEF PoolInv, PoolTyped, Pool!poolVars

\* The owner and those who submit.
LEMMA OtherTypes ==
  ASSUME PoolInv, Pool!Start \/ Pool!Stop \/ Pool!OwnerStep \/ \E t \in Task : Pool!Submit(t)
  PROVE  PoolTyped'
<1>1. ASSUME Pool!Stop \/ Pool!StartExhausted \/ Pool!StartReturns PROVE PoolTyped'
  BY <1>1 DEF PoolInv, PoolTyped, Pool!Stop, Pool!StartExhausted, Pool!StartReturns, Pool!histVars
<1>5. ASSUME Pool!Start PROVE PoolTyped'
  <2>1. overlap' \in BOOLEAN
    BY <1>5, Zenon DEF Pool!Start
  <2> QED
    BY <1>5, <2>1 DEF PoolInv, PoolTyped, Pool!Start, Pool!histVars
<1>2. ASSUME Pool!StartSpawns PROVE PoolTyped'
  <2>1. size \in Nat /\ size < MaxThreads /\ MaxThreads \in Nat /\ size + 1 \in Pool!Worker
        /\ capacity \in Nat /\ size <= capacity /\ index < capacity /\ index \in Nat
    BY <1>2
    DEF PoolInv, PoolConstants, Pool!CountAssumption, PoolTyped, Pool!StartSpawns, Pool!Worker
  <2>2. size' = size + 1 /\ size' \in 0..MaxThreads /\ index' \in Nat
    BY <1>2, <2>1 DEF Pool!StartSpawns
  <2>3. capacity' \in Nat /\ size' <= capacity'
    BY <1>2, <2>1, <2>2 DEF Pool!StartSpawns
  <2>4. place' \in [Pool!Worker -> Pool!Place]
    BY <1>2, <2>1 DEF PoolInv, PoolTyped, Pool!StartSpawns, Pool!Goto, Pool!Place
  <2> QED
    BY <1>2, <2>2, <2>3, <2>4 DEF PoolInv, PoolTyped, Pool!StartSpawns, Pool!histVars
<1>3. ASSUME Pool!StopJoins PROVE PoolTyped'
  BY <1>3
  DEF PoolInv, PoolConstants, Pool!CountAssumption, PoolTyped, Pool!StopJoins, Pool!histVars,
      Pool!Place
<1>4. ASSUME NEW t \in Task, Pool!Submit(t) PROVE PoolTyped'
  <2>1. tasks' \in Seq(Task)
    BY <1>4, AppendProperties DEF PoolInv, PoolTyped, Pool!Submit
  <2> QED
    BY <1>4, <2>1 DEF PoolInv, PoolTyped, Pool!Submit, Pool!poolVars
<1> QED
  BY <1>1, <1>2, <1>3, <1>4, <1>5 DEF Pool!OwnerStep

---------------------------------------------------------------------------
\* Only a step of a worker moves a worker that has a task.
LEMMA WorkerSeats ==
  ASSUME PoolInv, NEW w \in Pool!Worker, Pool!WorkerStep(w)
  PROVE  PoolSeats'
<1>1. /\ place \in [Pool!Worker -> Pool!Place] /\ task \in [Pool!Worker -> Task \cup {NoTask}]
      /\ tasks \in Seq(Task) /\ NoTask \notin Task
  BY DEF PoolInv, PoolTyped, PoolConstants, Pool!TaskAssumption
<1>2. place[w] # "none" /\ w <= size
  BY <1>1
  DEF PoolInv, PoolTyped, PoolSeats, Pool!Worker, Pool!WorkerStep, Pool!WorkerTests,
      Pool!WorkerFindsNone, Pool!WorkerTakes, Pool!WorkerDrops, Pool!WorkerBegins,
      Pool!WorkerCallsBack, Pool!WorkerEnds, Pool!Over
<1>3. size' = size /\ \A v \in Pool!Worker \ {w} : place'[v] = place[v] /\ task'[v] = task[v]
  BY <1>1
  DEF Pool!WorkerStep, Pool!WorkerTests, Pool!WorkerFindsNone, Pool!WorkerTakes,
      Pool!WorkerDrops, Pool!WorkerBegins, Pool!WorkerCallsBack, Pool!WorkerEnds, Pool!Goto,
      Pool!poolVars
<1>4. place'[w] \in {"took", "work", "callback"} <=> task'[w] # NoTask
  <2>1. CASE Pool!WorkerTakes(w)
    <3>1. Head(tasks) \in Task
      BY <1>1, <2>1, HeadTailProperties DEF Pool!WorkerTakes
    <3> QED
      BY <1>1, <2>1, <3>1 DEF Pool!WorkerTakes, Pool!Goto
  <2>2. CASE Pool!WorkerTests(w) \/ Pool!WorkerFindsNone(w) \/ Pool!WorkerDrops(w)
    BY <1>1, <2>2
    DEF PoolInv, PoolSeats, Pool!Holds, Pool!WorkerTests, Pool!WorkerFindsNone,
        Pool!WorkerDrops, Pool!Goto
  <2>3. CASE Pool!WorkerBegins(w) \/ Pool!WorkerCallsBack(w) \/ Pool!WorkerEnds(w)
    BY <1>1, <2>3
    DEF PoolInv, PoolSeats, Pool!Holds, Pool!WorkerBegins, Pool!WorkerCallsBack,
        Pool!WorkerEnds, Pool!Goto
  <2> QED
    BY <2>1, <2>2, <2>3 DEF Pool!WorkerStep
<1> QED
  BY <1>2, <1>3, <1>4 DEF PoolInv, PoolTyped, PoolSeats, Pool!Holds, Pool!Worker

\* The owner gives a new worker an empty seat and clears them all at the end.
LEMMA OtherSeats ==
  ASSUME PoolInv, Pool!Start \/ Pool!Stop \/ Pool!OwnerStep \/ \E t \in Task : Pool!Submit(t)
  PROVE  PoolSeats'
<1>0. place \in [Pool!Worker -> Pool!Place] /\ size \in Nat
  BY DEF PoolInv, PoolTyped, PoolConstants, Pool!CountAssumption
<1>1. ASSUME Pool!Start \/ Pool!Stop \/ Pool!StartExhausted \/ Pool!StartReturns
             \/ \E t \in Task : Pool!Submit(t)
      PROVE  PoolSeats'
  BY <1>1
  DEF PoolInv, PoolSeats, Pool!Holds, Pool!Start, Pool!Stop, Pool!StartExhausted,
      Pool!StartReturns, Pool!Submit, Pool!poolVars
<1>2. ASSUME Pool!StartSpawns PROVE PoolSeats'
  <2>1. size + 1 \in Pool!Worker /\ place[size + 1] = "none"
    BY <1>2
    DEF PoolInv, PoolConstants, Pool!CountAssumption, PoolTyped, PoolSeats, Pool!StartSpawns,
        Pool!Worker
  <2>2. \A v \in Pool!Worker : place'[v] = IF v = size + 1 THEN "test" ELSE place[v]
    BY <1>0, <1>2 DEF Pool!StartSpawns, Pool!Goto
  <2>3. task' = task /\ size' = size + 1
    BY <1>2 DEF Pool!StartSpawns
  <2> QED
    BY <1>0, <2>1, <2>2, <2>3 DEF PoolInv, PoolSeats, Pool!Holds, Pool!Worker
<1>3. ASSUME Pool!StopJoins PROVE PoolSeats'
  BY <1>3 DEF PoolInv, PoolSeats, Pool!Holds, Pool!StopJoins
<1> QED
  BY <1>1, <1>2, <1>3 DEF Pool!OwnerStep

---------------------------------------------------------------------------
\* A worker begins only what it took, and calls back only what it began.
LEMMA WorkerHistories ==
  ASSUME PoolInv, NEW w \in Pool!Worker, Pool!WorkerStep(w)
  PROVE  PoolHistories' /\ Pool!CallbackAfterWork'
<1>1. /\ place \in [Pool!Worker -> Pool!Place] /\ task \in [Pool!Worker -> Task \cup {NoTask}]
      /\ tasks \in Seq(Task) /\ NoTask \notin Task
  BY DEF PoolInv, PoolTyped, PoolConstants, Pool!TaskAssumption
<1>2. CASE Pool!WorkerTakes(w)
  <2>1. Head(tasks) \in submitted
    BY <1>1, <1>2, HeadTailProperties, ElementOfSeq, LenProperties
    DEF PoolInv, Pool!TaskInOnePlace, Pool!ToSet, Pool!WorkerTakes
  <2> QED
    BY <1>1, <1>2, <2>1
    DEF PoolInv, PoolSeats, PoolHistories, Busy, Pool!Holds, Pool!CallbackAfterWork,
        Pool!WorkerTakes, Pool!Goto, Pool!histVars
<1>3. CASE Pool!WorkerTests(w) \/ Pool!WorkerFindsNone(w) \/ Pool!WorkerDrops(w)
  BY <1>1, <1>3
  DEF PoolInv, PoolHistories, Busy, Pool!Holds, Pool!CallbackAfterWork, Pool!WorkerTests,
      Pool!WorkerFindsNone, Pool!WorkerDrops, Pool!Goto, Pool!histVars
<1>4. CASE Pool!WorkerBegins(w)
  BY <1>1, <1>4
  DEF PoolInv, PoolSeats, PoolHistories, Busy, Pool!Holds, Pool!CallbackAfterWork,
      Pool!WorkerBegins, Pool!Goto
<1>5. CASE Pool!WorkerCallsBack(w)
  BY <1>1, <1>5
  DEF PoolInv, PoolSeats, PoolHistories, Busy, Pool!Holds, Pool!CallbackAfterWork,
      Pool!WorkerCallsBack, Pool!Goto
<1>6. CASE Pool!WorkerEnds(w)
  BY <1>1, <1>6
  DEF PoolInv, PoolSeats, PoolHistories, Busy, Pool!Holds, Pool!CallbackAfterWork,
      Pool!WorkerEnds, Pool!Over, Pool!Goto
<1> QED
  BY <1>2, <1>3, <1>4, <1>5, <1>6 DEF Pool!WorkerStep

\* The owner begins and calls back nothing.
LEMMA OtherHistories ==
  ASSUME PoolInv, Pool!Start \/ Pool!Stop \/ Pool!OwnerStep \/ \E t \in Task : Pool!Submit(t)
  PROVE  PoolHistories' /\ Pool!CallbackAfterWork'
<1>0. place \in [Pool!Worker -> Pool!Place] /\ size \in Nat
  BY DEF PoolInv, PoolTyped, PoolConstants, Pool!CountAssumption
<1>1. ASSUME Pool!Start \/ Pool!Stop \/ Pool!StartExhausted \/ Pool!StartReturns
             \/ \E t \in Task : Pool!Submit(t)
      PROVE  PoolHistories' /\ Pool!CallbackAfterWork'
  BY <1>1
  DEF PoolInv, PoolHistories, Busy, Pool!Holds, Pool!CallbackAfterWork, Pool!Start, Pool!Stop,
      Pool!StartExhausted, Pool!StartReturns, Pool!Submit, Pool!poolVars, Pool!histVars
<1>2. ASSUME Pool!StartSpawns PROVE PoolHistories' /\ Pool!CallbackAfterWork'
  BY <1>0, <1>2
  DEF PoolInv, PoolHistories, Busy, Pool!Holds, Pool!CallbackAfterWork, Pool!StartSpawns,
      Pool!Goto, Pool!histVars
<1>3. ASSUME Pool!StopJoins PROVE PoolHistories' /\ Pool!CallbackAfterWork'
  BY <1>3
  DEF PoolInv, PoolHistories, Busy, Pool!Holds, Pool!CallbackAfterWork, Pool!StopJoins,
      Pool!histVars
<1> QED
  BY <1>1, <1>2, <1>3 DEF Pool!OwnerStep

---------------------------------------------------------------------------
\* One place per task.

\* Appending what is not in the queue, and taking its front.
LEMMA QueueGrows ==
  ASSUME NEW s \in Seq(Task), NEW t \in Task, Pool!IsInjective(s), t \notin Pool!ToSet(s)
  PROVE  Pool!IsInjective(Append(s, t)) /\ Pool!ToSet(Append(s, t)) = Pool!ToSet(s) \cup {t}
<1> DEFINE a == Append(s, t)
<1>1. /\ a \in Seq(Task) /\ Len(s) \in Nat /\ Len(a) = Len(s) + 1
      /\ DOMAIN s = 1..Len(s) /\ DOMAIN a = 1..Len(a)
      /\ \A i \in 1..Len(s) : a[i] = s[i]
      /\ a[Len(s) + 1] = t
  BY AppendProperties, LenProperties
<1>2. \A i \in 1..Len(s) : s[i] # t
  BY <1>1 DEF Pool!ToSet
<1> HIDE DEF a
<1>3. Pool!IsInjective(a)
  BY <1>1, <1>2 DEF Pool!IsInjective
<1>4. Pool!ToSet(a) = Pool!ToSet(s) \cup {t}
  BY <1>1 DEF Pool!ToSet
<1> QED
  BY <1>3, <1>4 DEF a

\* What is left behind the front of a queue without duplicates.
LEMMA QueueShrinks ==
  ASSUME NEW s \in Seq(Task), s # <<>>, Pool!IsInjective(s)
  PROVE  /\ Tail(s) \in Seq(Task) /\ Head(s) \in Pool!ToSet(s)
         /\ Pool!IsInjective(Tail(s)) /\ Pool!ToSet(Tail(s)) \subseteq Pool!ToSet(s) \ {Head(s)}
<1> DEFINE r == Tail(s)
<1>1. /\ r \in Seq(Task) /\ Len(s) \in Nat \ {0} /\ Len(r) = Len(s) - 1
      /\ DOMAIN s = 1..Len(s) /\ DOMAIN r = 1..Len(r)
      /\ \A i \in 1..Len(r) : r[i] = s[i + 1]
      /\ Head(s) = s[1]
  BY HeadTailProperties, LenProperties, EmptySeq
<1> HIDE DEF r
<1>2. Head(s) \in Pool!ToSet(s)
  BY <1>1 DEF Pool!ToSet
<1>3. Pool!IsInjective(r)
  BY <1>1 DEF Pool!IsInjective
<1>4. \A i \in DOMAIN r : r[i] \in Pool!ToSet(s) /\ r[i] # Head(s)
  <2> SUFFICES ASSUME NEW i \in DOMAIN r PROVE r[i] \in Pool!ToSet(s) /\ r[i] # Head(s)
    OBVIOUS
  <2>1. i \in 1..Len(r) /\ r[i] = s[i + 1] /\ i + 1 \in DOMAIN s /\ 1 \in DOMAIN s /\ i + 1 # 1
    BY <1>1
  <2>2. r[i] \in Pool!ToSet(s)
    BY <2>1 DEF Pool!ToSet
  <2>3. r[i] # s[1]
    BY <2>1 DEF Pool!IsInjective
  <2> QED
    BY <1>1, <2>2, <2>3
<1>5. Pool!ToSet(r) \subseteq Pool!ToSet(s) \ {Head(s)}
  BY <1>4 DEF Pool!ToSet
<1> QED
  BY <1>1, <1>2, <1>3, <1>5 DEF r

\* A task that a worker takes has left the queue by then.
LEMMA WorkerOnePlace ==
  ASSUME PoolInv, NEW w \in Pool!Worker, Pool!WorkerStep(w)
  PROVE  Pool!TaskInOnePlace'
<1>1. /\ place \in [Pool!Worker -> Pool!Place] /\ task \in [Pool!Worker -> Task \cup {NoTask}]
      /\ tasks \in Seq(Task) /\ NoTask \notin Task
  BY DEF PoolInv, PoolTyped, PoolConstants, Pool!TaskAssumption
<1>2. CASE Pool!WorkerTakes(w)
  <2>1. /\ Tail(tasks) \in Seq(Task) /\ Head(tasks) \in Pool!ToSet(tasks)
        /\ Pool!IsInjective(Tail(tasks))
        /\ Pool!ToSet(Tail(tasks)) \subseteq Pool!ToSet(tasks) \ {Head(tasks)}
    BY <1>1, <1>2, QueueShrinks DEF PoolInv, Pool!TaskInOnePlace, Pool!WorkerTakes
  <2>2. /\ tasks' = Tail(tasks) /\ begun' = begun /\ submitted' = submitted
        /\ \A v \in Pool!Worker : task'[v] = IF v = w THEN Head(tasks) ELSE task[v]
        /\ \A v \in Pool!Worker : place'[v] = IF v = w THEN "took" ELSE place[v]
    BY <1>1, <1>2 DEF Pool!WorkerTakes, Pool!Goto, Pool!histVars
  <2> QED
    BY <2>1, <2>2 DEF PoolInv, Pool!TaskInOnePlace, Pool!Holds
<1>3. CASE Pool!WorkerTests(w) \/ Pool!WorkerFindsNone(w) \/ Pool!WorkerDrops(w)
  BY <1>1, <1>3
  DEF PoolInv, Pool!TaskInOnePlace, Pool!Holds, Pool!WorkerTests, Pool!WorkerFindsNone,
      Pool!WorkerDrops, Pool!Goto, Pool!histVars
<1>4. CASE Pool!WorkerBegins(w)
  BY <1>1, <1>4
  DEF PoolInv, PoolSeats, Pool!TaskInOnePlace, Pool!Holds, Pool!WorkerBegins, Pool!Goto
<1>5. CASE Pool!WorkerCallsBack(w)
  BY <1>1, <1>5 DEF PoolInv, Pool!TaskInOnePlace, Pool!Holds, Pool!WorkerCallsBack, Pool!Goto
<1>6. CASE Pool!WorkerEnds(w)
  BY <1>1, <1>6
  DEF PoolInv, Pool!TaskInOnePlace, Pool!Holds, Pool!WorkerEnds, Pool!Over, Pool!Goto
<1> QED
  BY <1>2, <1>3, <1>4, <1>5, <1>6 DEF Pool!WorkerStep

\* A task that is submitted is new.
LEMMA OtherOnePlace ==
  ASSUME PoolInv, Pool!Start \/ Pool!Stop \/ Pool!OwnerStep \/ \E t \in Task : Pool!Submit(t)
  PROVE  Pool!TaskInOnePlace'
<1>0. place \in [Pool!Worker -> Pool!Place] /\ tasks \in Seq(Task)
  BY DEF PoolInv, PoolTyped
<1>1. ASSUME Pool!Start \/ Pool!Stop \/ Pool!StartExhausted \/ Pool!StartReturns
      PROVE Pool!TaskInOnePlace'
  BY <1>1
  DEF PoolInv, Pool!TaskInOnePlace, Pool!Holds, Pool!Start, Pool!Stop, Pool!StartExhausted,
      Pool!StartReturns, Pool!histVars
<1>2. ASSUME Pool!StartSpawns PROVE Pool!TaskInOnePlace'
  BY <1>0, <1>2
  DEF PoolInv, Pool!TaskInOnePlace, Pool!Holds, Pool!StartSpawns, Pool!Goto, Pool!histVars
<1>3. ASSUME Pool!StopJoins PROVE Pool!TaskInOnePlace'
  BY <1>3 DEF PoolInv, Pool!TaskInOnePlace, Pool!Holds, Pool!StopJoins, Pool!histVars
<1>4. ASSUME NEW t \in Task, Pool!Submit(t) PROVE Pool!TaskInOnePlace'
  <2>1. t \notin Pool!ToSet(tasks) /\ t \notin begun
        /\ \A w \in Pool!Worker : Pool!Holds(w) => task[w] # t
    BY <1>4 DEF PoolInv, Pool!TaskInOnePlace, PoolHistories, Pool!Submit
  <2>2. Pool!IsInjective(tasks') /\ Pool!ToSet(tasks') = Pool!ToSet(tasks) \cup {t}
    BY <1>0, <1>4, <2>1, QueueGrows DEF PoolInv, Pool!TaskInOnePlace, Pool!Submit
  <2> QED
    BY <1>4, <2>1, <2>2 DEF PoolInv, Pool!TaskInOnePlace, Pool!Holds, Pool!Submit
<1> QED
  BY <1>1, <1>2, <1>3, <1>4 DEF Pool!OwnerStep

---------------------------------------------------------------------------
\* The number of threads.
LEMMA StaysBounded ==
  ASSUME PoolInv, Pool!Next
  PROVE  PoolBounded'
<1>1. CASE Pool!Start
  <2>1. ~overlap' => ~overlap /\ ~(size > 0)
    BY <1>1, Zenon DEF Pool!Start
  <2>2. size \in Nat
    BY DEF PoolInv, PoolConstants, Pool!CountAssumption, PoolTyped
  <2> QED
    BY <1>1, <2>1, <2>2 DEF PoolInv, PoolBounded, Pool!Start
<1>2. CASE Pool!StartSpawns
  <2>1. /\ size \in Nat /\ index \in Nat /\ ThreadCount \in Nat /\ overlap' = overlap
        /\ index < capacity /\ index' = index + 1 /\ size' = size + 1 /\ owner = "starting"
        /\ capacity' = IF size = capacity THEN 2 * capacity ELSE capacity
    BY <1>2 DEF PoolInv, PoolConstants, Pool!CountAssumption, PoolTyped, Pool!StartSpawns
  <2>2. ~overlap => size < ThreadCount /\ capacity = ThreadCount /\ index = size
    BY <2>1 DEF PoolInv, PoolBounded
  <2> QED
    BY <2>1, <2>2 DEF PoolBounded
<1>3. CASE Pool!StartExhausted \/ Pool!StartReturns \/ Pool!Stop
  BY <1>3 DEF PoolInv, PoolBounded, Pool!StartExhausted, Pool!StartReturns, Pool!Stop
<1>4. CASE Pool!StopJoins
  BY <1>4 DEF PoolInv, PoolConstants, Pool!CountAssumption, PoolBounded, Pool!StopJoins
<1>5. ASSUME NEW t \in Task, Pool!Submit(t) PROVE PoolBounded'
  BY <1>5 DEF PoolInv, PoolBounded, Pool!Submit, Pool!poolVars
<1>6. ASSUME NEW w \in Pool!Worker, Pool!WorkerStep(w) PROVE PoolBounded'
  <2>1. UNCHANGED Pool!poolVars
    BY <1>6
    DEF Pool!WorkerStep, Pool!WorkerTests, Pool!WorkerFindsNone, Pool!WorkerTakes,
        Pool!WorkerDrops, Pool!WorkerBegins, Pool!WorkerCallsBack, Pool!WorkerEnds
  <2> QED
    BY <2>1 DEF PoolInv, PoolBounded, Pool!poolVars
<1> QED
  BY <1>1, <1>2, <1>3, <1>4, <1>5, <1>6 DEF Pool!Next, Pool!OwnerStep

---------------------------------------------------------------------------
\* The counter.
LEMMA BusyFinite ==
  ASSUME PoolInv
  PROVE  IsFiniteSet(Busy) /\ Cardinality(Busy) \in 0..MaxThreads
<1>1. IsFiniteSet(Pool!Worker) /\ Cardinality(Pool!Worker) = MaxThreads
  BY FS_Interval DEF PoolInv, PoolConstants, Pool!CountAssumption, Pool!Worker
<1> QED
  BY <1>1, FS_Subset, FS_CardinalityType DEF Busy, PoolInv, PoolConstants, Pool!CountAssumption

\* A worker enters a work once and leaves it once, with the counter.
LEMMA StaysCounted ==
  ASSUME PoolInv, Pool!Next
  PROVE  PoolCounted'
<1>0. place \in [Pool!Worker -> Pool!Place] /\ IsFiniteSet(Busy) /\ active = Cardinality(Busy)
  BY BusyFinite DEF PoolInv, PoolTyped, PoolCounted
<1>1. CASE Pool!Start \/ Pool!Stop \/ Pool!StartExhausted \/ Pool!StartReturns
           \/ \E t \in Task : Pool!Submit(t)
  <2>1. Busy' = Busy /\ active' = active
    BY <1>1 DEF Busy, Pool!Start, Pool!Stop, Pool!StartExhausted, Pool!StartReturns, Pool!Submit
  <2> QED
    BY <1>0, <2>1 DEF PoolCounted
<1>2. CASE Pool!StartSpawns
  <2>1. size + 1 \in Pool!Worker /\ place[size + 1] = "none"
    BY <1>2
    DEF PoolInv, PoolConstants, Pool!CountAssumption, PoolTyped, PoolSeats, Pool!StartSpawns,
        Pool!Worker
  <2>2. Busy' = Busy /\ active' = active
    BY <1>0, <1>2, <2>1 DEF Busy, Pool!StartSpawns, Pool!Goto
  <2> QED
    BY <1>0, <2>2 DEF PoolCounted
<1>3. CASE Pool!StopJoins
  <2>1. Busy' = Busy /\ active' = active
    BY <1>3 DEF Busy, Pool!StopJoins
  <2> QED
    BY <1>0, <2>1 DEF PoolCounted
<1>4. ASSUME NEW w \in Pool!Worker, Pool!WorkerStep(w) PROVE PoolCounted'
  <2>1. CASE Pool!WorkerBegins(w)
    <3>1. w \notin Busy /\ Busy' = Busy \cup {w} /\ active' = active + 1
      BY <1>0, <2>1 DEF Busy, Pool!WorkerBegins, Pool!Goto
    <3>2. Cardinality(Busy \cup {w}) = Cardinality(Busy) + 1
      BY <1>0, <3>1, FS_AddElement
    <3> QED
      BY <1>0, <3>1, <3>2 DEF PoolCounted
  <2>2. CASE Pool!WorkerEnds(w)
    <3>1. w \in Busy /\ Busy' = Busy \ {w} /\ active' = active - 1
      BY <1>0, <2>2 DEF Busy, Pool!WorkerEnds, Pool!Over, Pool!Goto
    <3>2. Cardinality(Busy \ {w}) = Cardinality(Busy) - 1
      BY <1>0, <3>1, FS_RemoveElement
    <3> QED
      BY <1>0, <3>1, <3>2 DEF PoolCounted
  <2>3. CASE ~Pool!WorkerBegins(w) /\ ~Pool!WorkerEnds(w)
    <3>1. Busy' = Busy /\ active' = active
      BY <1>0, <1>4, <2>3
      DEF Busy, Pool!WorkerStep, Pool!WorkerTests, Pool!WorkerFindsNone, Pool!WorkerTakes,
          Pool!WorkerDrops, Pool!WorkerCallsBack, Pool!Goto
    <3> QED
      BY <1>0, <3>1 DEF PoolCounted
  <2> QED
    BY <2>1, <2>2, <2>3
<1> QED
  BY <1>1, <1>2, <1>3, <1>4 DEF Pool!Next, Pool!OwnerStep

---------------------------------------------------------------------------
\* At first there is no thread and no task.
LEMMA PoolInitInv == PoolConstants /\ Pool!Init => PoolInv
<1> SUFFICES ASSUME PoolConstants, Pool!Init PROVE PoolInv
  OBVIOUS
<1>1. \A w \in Pool!Worker : place[w] = "none" /\ task[w] = NoTask
  BY DEF Pool!Init
<1>2. tasks = <<>> /\ Pool!ToSet(tasks) = {} /\ tasks \in Seq(Task) /\ Pool!IsInjective(tasks)
  BY EmptySeq DEF Pool!Init, Pool!ToSet, Pool!IsInjective
<1>3. PoolTyped
  <2>1. place \in [Pool!Worker -> Pool!Place] /\ task \in [Pool!Worker -> Task \cup {NoTask}]
    BY DEF Pool!Init, Pool!Place
  <2>2. size \in 0..MaxThreads /\ size <= capacity /\ capacity \in Nat /\ index \in Nat
    BY DEF Pool!Init, PoolConstants, Pool!CountAssumption
  <2> QED
    BY <1>2, <2>1, <2>2 DEF Pool!Init, PoolTyped
<1>4. PoolSeats /\ PoolHistories /\ Pool!CallbackAfterWork
  BY <1>1 DEF Pool!Init, PoolSeats, Pool!Holds, PoolHistories, Busy, Pool!CallbackAfterWork
<1>5. Pool!TaskInOnePlace
  BY <1>1, <1>2 DEF Pool!TaskInOnePlace, Pool!Holds, Pool!Init
<1>6. PoolBounded
  BY DEF Pool!Init, PoolBounded, PoolConstants, Pool!CountAssumption
<1>7. PoolCounted
  <2>1. Busy = {}
    BY <1>1 DEF Busy
  <2> QED
    BY <2>1, FS_EmptySet DEF PoolCounted, Pool!Init
<1> QED
  BY <1>3, <1>4, <1>5, <1>6, <1>7 DEF PoolInv

\* A step of a worker, of the owner, of someone who submits, or none.
LEMMA PoolStepInv == PoolInv /\ [Pool!Next]_poolVars => PoolInv'
<1> SUFFICES ASSUME PoolInv, [Pool!Next]_poolVars PROVE PoolInv'
  OBVIOUS
<1>1. ASSUME NEW w \in Pool!Worker, Pool!WorkerStep(w)
      PROVE  PoolTyped' /\ PoolSeats' /\ PoolHistories' /\ Pool!CallbackAfterWork'
             /\ Pool!TaskInOnePlace'
  BY <1>1, WorkerTypes, WorkerSeats, WorkerHistories, WorkerOnePlace
<1>2. ASSUME Pool!Start \/ Pool!Stop \/ Pool!OwnerStep \/ \E t \in Task : Pool!Submit(t)
      PROVE  PoolTyped' /\ PoolSeats' /\ PoolHistories' /\ Pool!CallbackAfterWork'
             /\ Pool!TaskInOnePlace'
  BY <1>2, OtherTypes, OtherSeats, OtherHistories, OtherOnePlace
<1>3. CASE Pool!Next
  <2>1. PoolTyped' /\ PoolSeats' /\ PoolHistories' /\ Pool!CallbackAfterWork'
        /\ Pool!TaskInOnePlace'
    BY <1>1, <1>2, <1>3 DEF Pool!Next
  <2> QED
    BY <1>3, <2>1, StaysBounded, StaysCounted
    DEF PoolInv, PoolConstants, Pool!TaskAssumption, Pool!CountAssumption
<1>4. CASE UNCHANGED poolVars
  BY <1>4
  DEF poolVars, Pool!poolVars, Pool!histVars, PoolInv, PoolConstants, Pool!TaskAssumption,
      Pool!CountAssumption, PoolTyped, PoolSeats, Pool!Holds, PoolHistories, Busy,
      Pool!TaskInOnePlace, Pool!CallbackAfterWork, PoolBounded, PoolCounted
<1> QED
  BY <1>3, <1>4

\* What Inv says of the state.
LEMMA Implied == PoolInv => Pool!TypeOK /\ Pool!ActiveCount /\ Pool!ThreadsBounded
<1> SUFFICES ASSUME PoolInv PROVE Pool!TypeOK /\ Pool!ActiveCount /\ Pool!ThreadsBounded
  OBVIOUS
<1>1. active \in 0..MaxThreads
  BY BusyFinite DEF PoolInv, PoolCounted
<1>2. Pool!TypeOK
  BY <1>1 DEF PoolInv, PoolTyped, Pool!TypeOK
<1>3. owner = "idle" /\ size = 0 => active = 0 /\ \A w \in Pool!Worker : place[w] = "none"
  <2> SUFFICES ASSUME size = 0 PROVE active = 0 /\ \A w \in Pool!Worker : place[w] = "none"
    OBVIOUS
  <2>1. \A w \in Pool!Worker : place[w] = "none"
    BY DEF PoolInv, PoolSeats, Pool!Worker, PoolConstants, Pool!CountAssumption
  <2>2. Busy = {}
    BY <2>1 DEF Busy
  <2> QED
    BY <2>1, <2>2, FS_EmptySet DEF PoolInv, PoolCounted
<1>4. active = Pool!Cardinality(Busy)
  BY PoolCardinality DEF PoolInv, PoolCounted
<1>5. Pool!ActiveCount
  BY <1>3, <1>4 DEF Pool!ActiveCount, Busy
<1> QED
  BY <1>2, <1>5 DEF PoolInv, PoolBounded, Pool!ThreadsBounded

---------------------------------------------------------------------------
(* EventBus                                                                *)

\* What is kept of a Publish in progress.
Publications == [type : Types, end : Nat, subscribed : Seq(Nat), called : Seq(Nat)]

\* Element by element, t begins with s.
StartsWith(t, s) == Len(s) <= Len(t) /\ \A j \in 1..Len(s) : t[j] = s[j]

\* A Publish in progress: its vector still begins with the handlers it had,
\* whose number it took, and it has called some of them in order.
OnTrack(p) == /\ StartsWith(handlers[p.type], p.subscribed)
              /\ p.end = Len(p.subscribed)
              /\ StartsWith(p.subscribed, p.called)

BusInv == Bus!TypeOK /\ (~undefined => \A i \in DOMAIN publishing : OnTrack(publishing[i]))

---------------------------------------------------------------------------
\* What is compared element by element is a prefix.
LEMMA PrefixIs ==
  ASSUME NEW s \in Seq(Nat), NEW t \in Seq(Nat), StartsWith(t, s)
  PROVE  Bus!IsPrefix(s, t)
<1>1. SubSeq(s, 1, Len(s)) = s
  BY SubSeqFull
<1>2. /\ SubSeq(t, 1, Len(s)) \in Seq(Nat) /\ Len(SubSeq(t, 1, Len(s))) = Len(s)
      /\ \A j \in 1..Len(s) : SubSeq(t, 1, Len(s))[j] = t[j]
  BY DEF StartsWith
<1>3. SubSeq(t, 1, Len(s)) = s
  BY <1>2, SeqEqual DEF StartsWith
<1> QED
  BY <1>1, <1>3 DEF Bus!IsPrefix, StartsWith

\* A sequence starts with itself and with whatever its start starts with,
\* and goes on to when it grows.
LEMMA StartsGrow ==
  ASSUME NEW s \in Seq(Nat), NEW t \in Seq(Nat), NEW e \in Nat
  PROVE  /\ StartsWith(s, s)
         /\ StartsWith(t, s) => StartsWith(Append(t, e), s)
         /\ StartsWith(t, s) /\ Len(s) < Len(t) => StartsWith(t, Append(s, t[Len(s) + 1]))
<1>1. StartsWith(s, s)
  BY DEF StartsWith
<1>2. ASSUME StartsWith(t, s) PROVE StartsWith(Append(t, e), s)
  <2>1. Len(Append(t, e)) = Len(t) + 1 /\ \A i \in 1..Len(t) : Append(t, e)[i] = t[i]
    BY AppendProperties
  <2> QED
    BY <1>2, <2>1 DEF StartsWith
<1>3. ASSUME StartsWith(t, s), Len(s) < Len(t)
      PROVE  StartsWith(t, Append(s, t[Len(s) + 1]))
  <2> DEFINE n == t[Len(s) + 1]
  <2>1. n \in Nat
    BY <1>3, ElementOfSeq
  <2>2. /\ Len(Append(s, n)) = Len(s) + 1 /\ Append(s, n)[Len(s) + 1] = n
        /\ \A i \in 1..Len(s) : Append(s, n)[i] = s[i]
    BY <2>1, AppendProperties
  <2>3. Len(Append(s, n)) <= Len(t)
    BY <1>3, <2>2
  <2>4. \A j \in 1..Len(s) : t[j] = s[j]
    BY <1>3 DEF StartsWith
  <2>5. \A j \in 1..(Len(s) + 1) : t[j] = Append(s, n)[j]
    BY <2>2, <2>4
  <2> QED
    BY <2>2, <2>3, <2>5 DEF StartsWith
<1> QED
  BY <1>1, <1>2, <1>3

\* All but the last element of a sequence.
LEMMA FrontIs ==
  ASSUME NEW R, NEW s \in Seq(R), s # <<>>
  PROVE  /\ Bus!Front(s) \in Seq(R) /\ Len(Bus!Front(s)) = Len(s) - 1
         /\ \A i \in 1..Len(Bus!Front(s)) : Bus!Front(s)[i] = s[i]
         /\ Bus!Last(s) \in R
<1> DEFINE n == Len(s) - 1
<1>1. Len(s) \in Nat \ {0} /\ n \in Nat
  BY EmptySeq
<1>2. \A i \in 1..n : s[i] \in R
  BY <1>1, ElementOfSeq
<1>3. Bus!Last(s) \in R
  BY <1>1, ElementOfSeq DEF Bus!Last
<1>4. /\ SubSeq(s, 1, n) \in Seq(R) /\ Len(SubSeq(s, 1, n)) = n
      /\ \A i \in 1..n : SubSeq(s, 1, n)[i] = s[i]
  <2> HIDE DEF n
  <2> QED
    BY <1>1, <1>2
<1> QED
  BY <1>3, <1>4 DEF Bus!Front

\* Without the innermost Publish the others are what they were.
LEMMA OuterIs ==
  ASSUME NEW R, publishing \in Seq(R), publishing # <<>>
  PROVE  /\ Bus!Outer \in Seq(R) /\ Len(Bus!Outer) = Len(publishing) - 1
         /\ \A i \in 1..Len(Bus!Outer) : Bus!Outer[i] = publishing[i]
         /\ Bus!Inner \in R /\ Len(publishing) \in DOMAIN publishing
         /\ Bus!Inner = publishing[Len(publishing)]
<1>1. Len(publishing) \in DOMAIN publishing
  BY EmptySeq
<1> QED
  BY <1>1, FrontIs DEF Bus!Outer, Bus!Inner, Bus!Last

---------------------------------------------------------------------------
\* The type of a Publish in progress.
LEMMA StackedIs ==
  ASSUME Bus!TypeOK, NEW i \in DOMAIN publishing
  PROVE  publishing[i] \in Publications
<1>1. publishing \in Seq(Publications)
  BY DEF Bus!TypeOK, Publications
<1>2. i \in 1..Len(publishing)
  BY <1>1, LenProperties
<1> QED
  BY <1>1, <1>2, ElementOfSeq

\* At first there is no handler and no Publish.
LEMMA BusInitInv == Bus!Init => BusInv
<1> SUFFICES ASSUME Bus!Init PROVE BusInv
  OBVIOUS
<1>1. publishing = <<>> /\ DOMAIN publishing = {} /\ publishing \in Seq(Publications)
  BY DEF Bus!Init
<1>2. handlers \in [Types -> Seq(Nat)] /\ vectorCapacity \in [Types -> Nat]
  BY DEF Bus!Init
<1>3. \A t \in Types : Len(handlers[t]) <= vectorCapacity[t]
  BY DEF Bus!Init
<1>4. made \in Nat /\ undefined \in BOOLEAN
  BY DEF Bus!Init
<1> QED
  BY <1>1, <1>2, <1>3, <1>4 DEF BusInv, Bus!TypeOK, Publications

\* A subscription adds behind what a Publish in progress iterates over.
LEMMA SubscribeKeeps ==
  ASSUME BusInv, ~undefined, NEW t \in Types, Bus!Subscribe(t)
  PROVE  BusInv'
<1>1. made \in Nat /\ made' = made + 1 /\ made' \in Nat
  BY DEF BusInv, Bus!TypeOK, Bus!Subscribe
<1>2. handlers \in [Types -> Seq(Nat)] /\ handlers' = [handlers EXCEPT ![t] = Append(@, made')]
  BY DEF BusInv, Bus!TypeOK, Bus!Subscribe
<1>3. /\ handlers'[t] = Append(handlers[t], made')
      /\ handlers'[t] \in Seq(Nat) /\ Len(handlers'[t]) = Len(handlers[t]) + 1
      /\ \A u \in Types \ {t} : handlers'[u] = handlers[u]
      /\ handlers' \in [Types -> Seq(Nat)]
  BY <1>1, <1>2, AppendProperties
<1>4. vectorCapacity' \in [Types -> Nat]
      /\ \A u \in Types : Len(handlers'[u]) <= vectorCapacity'[u]
  <2>1. vectorCapacity \in [Types -> Nat]
        /\ \A u \in Types : Len(handlers[u]) <= vectorCapacity[u]
    BY DEF BusInv, Bus!TypeOK
  <2>2. \A u \in Types : Len(handlers[u]) \in Nat
    BY <1>2
  <2>3. vectorCapacity'
        = [vectorCapacity EXCEPT ![t] = IF ~Bus!Full(t) THEN @ ELSE IF @ = 0 THEN 1 ELSE 2 * @]
    BY DEF Bus!Subscribe
  <2>4. vectorCapacity'[t] \in Nat /\ Len(handlers[t]) + 1 <= vectorCapacity'[t]
    BY <2>1, <2>2, <2>3 DEF Bus!Full
  <2>5. vectorCapacity' \in [Types -> Nat]
        /\ \A u \in Types \ {t} : vectorCapacity'[u] = vectorCapacity[u]
    BY <2>1, <2>3, <2>4
  <2> QED
    BY <1>3, <2>1, <2>4, <2>5
<1>5. publishing' = publishing
  BY DEF Bus!Subscribe
<1>6. \A i \in DOMAIN publishing : OnTrack(publishing[i])'
  <2> SUFFICES ASSUME NEW i \in DOMAIN publishing PROVE OnTrack(publishing[i])'
    OBVIOUS
  <2> DEFINE p == publishing[i]
  <2>1. p \in Publications
    BY StackedIs DEF BusInv
  <2>2. p.type \in Types /\ p.subscribed \in Seq(Nat) /\ handlers[p.type] \in Seq(Nat)
    BY <1>2, <2>1 DEF Publications
  <2>3. OnTrack(p)
    BY DEF BusInv
  <2>4. StartsWith(handlers[p.type], p.subscribed)
    BY <2>3 DEF OnTrack
  <2>5. StartsWith(Append(handlers[p.type], made'), p.subscribed)
    BY <1>1, <2>2, <2>4, StartsGrow
  <2>6. handlers'[p.type] = handlers[p.type]
        \/ handlers'[p.type] = Append(handlers[p.type], made')
    BY <1>3, <2>2
  <2>7. StartsWith(handlers'[p.type], p.subscribed)
    BY <2>4, <2>5, <2>6
  <2> QED
    BY <1>5, <2>3, <2>7 DEF OnTrack, StartsWith
<1>7. undefined' \in BOOLEAN
  BY DEF Bus!Subscribe
<1> QED
  BY <1>1, <1>3, <1>4, <1>5, <1>6, <1>7 DEF BusInv, Bus!TypeOK

\* Another Publish on the stack, itself on track.
LEMMA PushKeeps ==
  ASSUME BusInv, ~undefined, NEW outer \in Seq(Publications), NEW p \in Publications,
         \A i \in 1..Len(outer) : OnTrack(outer[i]) /\ Len(outer[i].called) \in 1..outer[i].end,
         OnTrack(p), Len(p.called) \in 1..p.end,
         publishing' = Append(outer, p), UNCHANGED <<handlers, vectorCapacity, made, undefined>>
  PROVE  BusInv'
<1>1. /\ publishing' \in Seq(Publications) /\ Len(publishing') = Len(outer) + 1
      /\ \A i \in 1..Len(outer) : publishing'[i] = outer[i]
      /\ publishing'[Len(outer) + 1] = p
  BY AppendProperties
<1>2. DOMAIN publishing' = 1..(Len(outer) + 1)
  BY <1>1
<1>3. \A i \in DOMAIN publishing' :
        OnTrack(publishing'[i]) /\ Len(publishing'[i].called) \in 1..publishing'[i].end
  BY <1>1, <1>2
<1>4. \A i \in DOMAIN publishing' : OnTrack(publishing[i])'
  BY <1>3 DEF OnTrack
<1> QED
  BY <1>1, <1>3, <1>4 DEF BusInv, Bus!TypeOK, Publications

\* The innermost Publish ends.
LEMMA PopKeeps ==
  ASSUME BusInv, publishing # <<>>, publishing' = Bus!Outer,
         UNCHANGED <<handlers, vectorCapacity, made, undefined>>
  PROVE  BusInv'
<1>1. publishing \in Seq(Publications)
  BY DEF BusInv, Bus!TypeOK, Publications
<1>2. /\ publishing' \in Seq(Publications) /\ Len(publishing') = Len(publishing) - 1
      /\ \A i \in 1..Len(publishing') : publishing'[i] = publishing[i]
  BY <1>1, OuterIs
<1>3. DOMAIN publishing' = 1..Len(publishing') /\ DOMAIN publishing' \subseteq DOMAIN publishing
  BY <1>1, <1>2
<1> QED
  BY <1>2, <1>3 DEF BusInv, Bus!TypeOK, OnTrack, Publications

\* What the invariant says of the Publications on the stack.
LEMMA StackIs ==
  ASSUME BusInv, ~undefined, publishing # <<>>
  PROVE  /\ Bus!Outer \in Seq(Publications) /\ Bus!Inner \in Publications
         /\ OnTrack(Bus!Inner) /\ Len(Bus!Inner.called) \in 1..Bus!Inner.end
         /\ \A i \in 1..Len(Bus!Outer) :
              OnTrack(Bus!Outer[i]) /\ Len(Bus!Outer[i].called) \in 1..Bus!Outer[i].end
<1>1. publishing \in Seq(Publications)
  BY DEF BusInv, Bus!TypeOK, Publications
<1>2. /\ Bus!Outer \in Seq(Publications) /\ Len(Bus!Outer) = Len(publishing) - 1
      /\ \A i \in 1..Len(Bus!Outer) : Bus!Outer[i] = publishing[i]
      /\ Bus!Inner \in Publications /\ Len(publishing) \in DOMAIN publishing
      /\ Bus!Inner = publishing[Len(publishing)]
  BY <1>1, OuterIs
<1>3. \A i \in DOMAIN publishing :
        OnTrack(publishing[i]) /\ Len(publishing[i].called) \in 1..publishing[i].end
  BY DEF BusInv, Bus!TypeOK
<1>4. \A i \in 1..Len(Bus!Outer) : i \in DOMAIN publishing
  BY <1>1, <1>2
<1> QED
  BY <1>2, <1>3, <1>4

\* A new Publish begins with the first handler of its vector.
LEMMA PublishKeeps ==
  ASSUME BusInv, ~undefined, NEW t \in Types, Bus!Publish(t)
  PROVE  BusInv'
<1> DEFINE p == [type |-> t, end |-> Len(handlers[t]), subscribed |-> handlers[t],
                 called |-> <<Head(handlers[t])>>]
<1>1. handlers[t] \in Seq(Nat) /\ handlers[t] # <<>>
  BY DEF BusInv, Bus!TypeOK, Bus!Publish
<1>2. /\ Len(handlers[t]) \in Nat \ {0} /\ Head(handlers[t]) = handlers[t][1]
      /\ Head(handlers[t]) \in Nat
  BY <1>1, EmptySeq, HeadTailProperties
<1>3. p \in Publications /\ Len(p.called) \in 1..p.end
  BY <1>1, <1>2 DEF Publications
<1>4. OnTrack(p)
  <2>1. StartsWith(handlers[t], handlers[t])
    BY <1>1, StartsGrow
  <2>2. StartsWith(handlers[t], <<Head(handlers[t])>>)
    BY <1>2 DEF StartsWith
  <2> QED
    BY <2>1, <2>2 DEF OnTrack
<1>5. publishing \in Seq(Publications)
  BY DEF BusInv, Bus!TypeOK, Publications
<1>6. \A i \in 1..Len(publishing) :
        OnTrack(publishing[i]) /\ Len(publishing[i].called) \in 1..publishing[i].end
  BY <1>5 DEF BusInv, Bus!TypeOK
<1> QED
  BY <1>3, <1>4, <1>5, <1>6, PushKeeps DEF Bus!Publish

\* When a handler returns its Publish calls the next one, or returns.
LEMMA ReturnKeeps ==
  ASSUME BusInv, ~undefined, Bus!HandlerReturns
  PROVE  BusInv'
<1>1. /\ Bus!Outer \in Seq(Publications) /\ Bus!Inner \in Publications
      /\ OnTrack(Bus!Inner) /\ Len(Bus!Inner.called) \in 1..Bus!Inner.end
      /\ \A i \in 1..Len(Bus!Outer) :
           OnTrack(Bus!Outer[i]) /\ Len(Bus!Outer[i].called) \in 1..Bus!Outer[i].end
  BY StackIs DEF Bus!HandlerReturns
<1>2. CASE Len(Bus!Inner.called) >= Bus!Inner.end
  BY <1>2, PopKeeps DEF Bus!HandlerReturns
<1>3. CASE ~(Len(Bus!Inner.called) >= Bus!Inner.end)
  <2> DEFINE next == handlers[Bus!Inner.type][Len(Bus!Inner.called) + 1]
             p == [Bus!Inner EXCEPT !.called = Append(@, next)]
  <2>1. /\ Bus!Inner.type \in Types /\ Bus!Inner.end \in Nat
        /\ Bus!Inner.subscribed \in Seq(Nat) /\ Bus!Inner.called \in Seq(Nat)
        /\ handlers[Bus!Inner.type] \in Seq(Nat)
    BY <1>1 DEF Publications, BusInv, Bus!TypeOK
  <2>2. Len(Bus!Inner.called) < Bus!Inner.end /\ Bus!Inner.end = Len(Bus!Inner.subscribed)
    BY <1>1, <1>3, <2>1 DEF OnTrack
  <2>3. next = Bus!Inner.subscribed[Len(Bus!Inner.called) + 1]
    <3>1. Len(Bus!Inner.called) + 1 \in 1..Len(Bus!Inner.subscribed)
      BY <2>1, <2>2
    <3> QED
      BY <1>1, <3>1 DEF OnTrack, StartsWith
  <2>4. next \in Nat
    BY <2>1, <2>2, <2>3, ElementOfSeq
  <2>5. StartsWith(Bus!Inner.subscribed, Append(Bus!Inner.called, next))
    BY <1>1, <2>1, <2>2, <2>3, StartsGrow, SMTT(20) DEF OnTrack
  <2>6. /\ Append(Bus!Inner.called, next) \in Seq(Nat)
        /\ Len(Append(Bus!Inner.called, next)) = Len(Bus!Inner.called) + 1
    BY <2>1, <2>4, AppendProperties
  <2>7. /\ p.type = Bus!Inner.type /\ p.end = Bus!Inner.end /\ p.subscribed = Bus!Inner.subscribed
        /\ p.called = Append(Bus!Inner.called, next) /\ p \in Publications
    BY <1>1, <2>6 DEF Publications
  <2>8. OnTrack(p)
    BY <1>1, <2>5, <2>7 DEF OnTrack
  <2>9. Len(p.called) \in 1..p.end
    BY <2>1, <2>2, <2>6, <2>7
  <2>10. publishing' = Append(Bus!Outer, p)
         /\ UNCHANGED <<handlers, vectorCapacity, made, undefined>>
    BY <1>3 DEF Bus!HandlerReturns
  <2> QED
    BY <1>1, <2>7, <2>8, <2>9, <2>10, PushKeeps
<1> QED
  BY <1>2, <1>3

\* Clear leaves every iterator dangling.
LEMMA ClearKeeps ==
  ASSUME BusInv, Bus!Clear
  PROVE  BusInv'
<1>1. publishing' = publishing /\ made' = made /\ undefined' = (publishing # <<>>)
  BY DEF Bus!Clear
<1>2. handlers' \in [Types -> Seq(Nat)] /\ vectorCapacity' \in [Types -> Nat]
  BY DEF Bus!Clear
<1>3. \A t \in Types : Len(handlers'[t]) <= vectorCapacity'[t]
  BY DEF Bus!Clear
<1>4. publishing = <<>> \/ undefined'
  BY DEF Bus!Clear
<1>5. publishing = <<>> => DOMAIN publishing = {}
  OBVIOUS
<1>6. undefined' \in BOOLEAN
  BY <1>1
<1>7. Bus!TypeOK'
  BY <1>1, <1>2, <1>3, <1>6 DEF BusInv, Bus!TypeOK
<1>8. ~undefined' => \A i \in DOMAIN publishing' : OnTrack(publishing[i])'
  BY <1>1, <1>4, <1>5
<1> QED
  BY <1>1, <1>7, <1>8 DEF BusInv

\* What the invariant says does not depend on anything else.
LEMMA StutterKeeps ==
  ASSUME BusInv, UNCHANGED busVars
  PROVE  BusInv'
BY DEF BusInv, Bus!TypeOK, OnTrack, busVars

\* A call from outside or from a handler, or none.
LEMMA BusStepInv == BusInv /\ [Bus!Next]_busVars => BusInv'
<1> SUFFICES ASSUME BusInv, [Bus!Next]_busVars PROVE BusInv'
  OBVIOUS
<1>1. ASSUME ~undefined, Bus!Clear PROVE BusInv'
  BY <1>1, ClearKeeps
<1>2. ASSUME ~undefined, Bus!HandlerReturns PROVE BusInv'
  BY <1>2, ReturnKeeps
<1>3. ASSUME ~undefined, Bus!HandlerThrows PROVE BusInv'
  BY <1>3, PopKeeps DEF Bus!HandlerThrows
<1>4. ASSUME ~undefined, NEW t \in Types, Bus!Subscribe(t) PROVE BusInv'
  BY <1>4, SubscribeKeeps
<1>5. ASSUME ~undefined, NEW t \in Types, Bus!Publish(t) PROVE BusInv'
  BY <1>5, PublishKeeps
<1>6. ASSUME UNCHANGED busVars PROVE BusInv'
  BY <1>6, StutterKeeps
<1> QED
  BY <1>1, <1>2, <1>3, <1>4, <1>5, <1>6 DEF Bus!Next

\* What is on track has called a part of what it began with.
LEMMA CalledIs == BusInv => Bus!CalledAsSubscribed
<1> SUFFICES ASSUME BusInv, ~undefined, NEW i \in DOMAIN publishing
             PROVE  Bus!IsPrefix(publishing[i].called, publishing[i].subscribed)
  BY DEF Bus!CalledAsSubscribed
<1>1. publishing[i] \in Publications
  BY StackedIs DEF BusInv
<1>2. publishing[i].called \in Seq(Nat) /\ publishing[i].subscribed \in Seq(Nat)
  BY <1>1 DEF Publications
<1>3. StartsWith(publishing[i].subscribed, publishing[i].called)
  BY DEF BusInv, OnTrack
<1> QED
  BY <1>2, <1>3, PrefixIs

\* A step that AllCalled allows.
StepCalledAll == Bus!HandlerReturns /\ Len(publishing') < Len(publishing)
                   => Bus!Inner.called = Bus!Inner.subscribed

\* A Publish returns only at the end that it took, the length of its vector
\* when it began.
LEMMA ReturnsAtEnd ==
  ASSUME BusInv, [Bus!Next]_busVars
  PROVE  [StepCalledAll]_(Bus!vars)
<1>0. CASE UNCHANGED busVars
  BY <1>0 DEF busVars, Bus!vars
<1> SUFFICES ASSUME Bus!Next, Bus!HandlerReturns, Len(publishing') < Len(publishing)
             PROVE  Bus!Inner.called = Bus!Inner.subscribed
  BY <1>0 DEF StepCalledAll
<1>1. publishing \in Seq(Publications) /\ publishing # <<>> /\ ~undefined
  BY DEF BusInv, Bus!TypeOK, Publications, Bus!HandlerReturns, Bus!Next
<1>2. /\ Bus!Inner \in Publications /\ OnTrack(Bus!Inner)
      /\ Len(Bus!Inner.called) \in 1..Bus!Inner.end
      /\ Bus!Outer \in Seq(Publications) /\ Len(Bus!Outer) = Len(publishing) - 1
  BY <1>1, StackIs, OuterIs
<1>3. Len(Bus!Inner.called) >= Bus!Inner.end
  <2> SUFFICES ASSUME ~(Len(Bus!Inner.called) >= Bus!Inner.end) PROVE FALSE
    OBVIOUS
  <2> DEFINE p == [Bus!Inner EXCEPT !.called =
                     Append(@, handlers[Bus!Inner.type][Len(Bus!Inner.called) + 1])]
  <2>1. publishing' = Append(Bus!Outer, p)
    BY DEF Bus!HandlerReturns
  <2>2. Len(publishing') = Len(Bus!Outer) + 1
    BY <1>2, <2>1
  <2> QED
    BY <1>1, <1>2, <2>2
<1>4. /\ Bus!Inner.called \in Seq(Nat) /\ Bus!Inner.subscribed \in Seq(Nat)
      /\ Bus!Inner.end \in Nat
      /\ Bus!Inner.end = Len(Bus!Inner.subscribed)
      /\ StartsWith(Bus!Inner.subscribed, Bus!Inner.called)
  BY <1>2 DEF Publications, OnTrack
<1>5. Len(Bus!Inner.called) = Len(Bus!Inner.subscribed)
  BY <1>2, <1>3, <1>4
<1> QED
  BY <1>4, <1>5, SeqEqual DEF StartsWith

---------------------------------------------------------------------------
\* At first nothing is loaded, queued or subscribed to.
LEMMA PartsInit == Init => LoaderInv /\ PoolInv /\ BusInv
<1>1. Init => Loader!Init /\ Pool!Init /\ Bus!Init
  BY DEF Init
<1>2. LoaderConstants /\ PoolConstants
  BY LoaderAssumption, PoolAssumption DEF LoaderConstants, PoolConstants
<1> QED
  BY <1>1, <1>2, LoaderInitInv, PoolInitInv, BusInitInv

\* A step is one of the part that runs and leaves the others as they are.
LEMMA PartsNext ==
  [Next]_vars => [Loader!Next]_loaderVars /\ [Pool!Next]_poolVars /\ [Bus!Next]_busVars
<1> SUFFICES ASSUME [Next]_vars
             PROVE  [Loader!Next]_loaderVars /\ [Pool!Next]_poolVars /\ [Bus!Next]_busVars
  OBVIOUS
<1>1. CASE UNCHANGED vars
  BY <1>1, Zenon DEF vars
<1>2. CASE Next
  BY <1>2, Zenon DEF Next
<1> QED
  BY <1>1, <1>2

\* The three invariants together.
LEMMA Invariance == Spec => [](LoaderInv /\ PoolInv /\ BusInv)
<1>1. LoaderInv /\ PoolInv /\ BusInv /\ [Next]_vars => (LoaderInv /\ PoolInv /\ BusInv)'
  BY PartsNext, LoaderStepInv, PoolStepInv, BusStepInv
<1> QED
  BY PartsInit, <1>1, PTL DEF Spec

(* However loads, dispatches and unloads of any number of threads          *)
(* interleave, no call goes into an object that is not mapped and every    *)
(* open handle belongs to an entry of modules_, to a LoadModule in         *)
(* progress or to one that an exception ended, unless an OnUnload threw in *)
(* the middle of UnloadAll.                                                *)
THEOREM ModulesMapped == Spec => []ModulesStayMapped
<1>1. LoaderInv => ModulesStayMapped
  BY DEF LoaderInv, ModulesStayMapped
<1> QED
  BY <1>1, Invariance, PTL

(* While DispatchEvent holds the mutex nobody changes modules_ or unmaps   *)
(* an object in it, although LoadModule works without the mutex.           *)
THEOREM Undisturbed == Spec => Loader!DispatchUndisturbed
<1>1. LoaderInv /\ LoaderInv' /\ [Next]_vars => [StepUndisturbed]_(Loader!vars)
  BY PartsNext, DispatchSteps
<1>2. Spec => [][StepUndisturbed]_(Loader!vars)
  BY <1>1, Invariance, PTL DEF Spec
<1> QED
  BY <1>2 DEF Loader!DispatchUndisturbed, StepUndisturbed

(* Over any number of Start and Stop a task is queued, or with one worker, *)
(* or behind it, so that no work runs twice; a callback follows only a     *)
(* work that did not throw; GetActiveThreads counts the busy threads; and  *)
(* without a second Start there are never more threads than asked for.     *)
THEOREM TasksKept == Spec => []PoolKeepsTasks
<1>1. PoolInv => PoolKeepsTasks
  BY Implied DEF PoolInv, PoolKeepsTasks
<1> QED
  BY <1>1, Invariance, PTL

(* However calls of Publish nest and whatever their handlers subscribe to, *)
(* each has called, in order, handlers that its type had when it began.    *)
THEOREM InOrder == Spec => [](Bus!TypeOK /\ Bus!CalledAsSubscribed)
<1>1. BusInv => Bus!TypeOK /\ Bus!CalledAsSubscribed
  BY CalledIs DEF BusInv
<1> QED
  BY <1>1, Invariance, PTL

(* A Publish that returns has called every handler its type had when it    *)
(* began.                                                                  *)
THEOREM NoneSkipped == Spec => Bus!AllCalled
<1>1. BusInv /\ [Next]_vars => [StepCalledAll]_(Bus!vars)
  BY PartsNext, ReturnsAtEnd
<1>2. Spec => [][StepCalledAll]_(Bus!vars)
  BY <1>1, Invariance, PTL DEF Spec
<1> QED
  BY <1>2 DEF Bus!AllCalled, StepCalledAll

\* The three together: a dispatch to the modules is undisturbed, and Publish
\* calls the handlers its type had, in order and, unless one throws, all.
THEOREM DispatchesAreComplete == Spec => DispatchesComplete
BY Undisturbed, InOrder, NoneSkipped DEF DispatchesComplete
=============================================================================
