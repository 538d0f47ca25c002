--------------------------- MODULE PlayersProofs ---------------------------
(***************************************************************************)
(* What is proved of the parts of MCPlayers: the economy, the event        *)
(* pipeline, the chat filter, the bans, the kits and the requests to       *)
(* teleport, for every value of their constants that the assumptions       *)
(* there allow.  Each part has an inductive invariant, a lemma for Init    *)
(* and one for Next; the theorems at the end put them together.            *)
(***************************************************************************)
EXTENDS MCPlayers, FiniteSetTheorems, SequenceTheorems, WellFoundedInduction, TLAPS

\* Every set of naturals that is not empty has a smallest member.
LEMMA Smallest ==
  ASSUME NEW T, T \subseteq Nat, T # {}
  PROVE  \E n \in T : \A m \in T : n <= m
<1> DEFINE R == {ss \in Nat \X Nat : ss[1] < ss[2]}
<1>1. IsWellFoundedOn(R, Nat)
  BY NatLessThanWellFounded DEF OpToRel
<1> HIDE DEF R
<1>2. PICK n \in T : \A m \in T : ~(<<m, n>> \in R)
  BY <1>1, WFMin, Zenon
<1>3. \A m \in T : n <= m
  <2> TAKE m \in T
  <2>1. ~(m < n)
    BY <1>2 DEF R
  <2> QED
    BY <2>1
<1> QED
  BY <1>3

\* A number is its quotient times the divisor and its remainder.
LEMMA Remainder ==
  ASSUME NEW w \in Nat \ {0}, NEW x \in Int
  PROVE  \E q \in Int, r \in 0..(w - 1) : x = w * q + r /\ x % w = r /\ x \div w = q
<1>1. x = w * (x \div w) + (x % w) /\ x \div w \in Int /\ x % w \in 0..(w - 1)
  OBVIOUS
<1> QED
  BY <1>1

\* There is only one way to divide.
LEMMA RemainderIs ==
  ASSUME NEW w \in Nat \ {0}, NEW x \in Int, NEW q \in Int, NEW r \in 0..(w - 1), x = w * q + r
  PROVE  x % w = r /\ x \div w = q
OBVIOUS

\* The instances of the components bring their own copy of Cardinality.
LEMMA SameCardinality ==
  \A S : Pipeline!Cardinality(S) = Cardinality(S) /\ Teleport!Cardinality(S) = Cardinality(S)
BY DEF Pipeline!Cardinality, Teleport!Cardinality, Cardinality

---------------------------------------------------------------------------
(* Economy                                                                 *)

\* The sum of two currencies, the second of them positive, wraps at most
\* once, and not at all when it is small enough.
LEMMA WrappedType ==
  ASSUME NEW m \in Currency, NEW a \in Currency, a > 0
  PROVE  /\ Wrapped(m + a) \in Currency
         /\ m + a <= MaxCurrency => Wrapped(m + a) = m + a
BY CurrencyAssumption DEF Wrapped, Currency

\* A deposit changes one balance; that balance stays a currency.
LEMMA PaidIs ==
  ASSUME NEW b \in [Players -> Currency], NEW p \in Players, NEW a \in Currency, a > 0
  PROVE  /\ Paid(b, p, a) \in [Players -> Currency]
         /\ \A q \in Players \ {p} : Paid(b, p, a)[q] = b[q]
         /\ ~Over(b, p, a) => Paid(b, p, a)[p] = b[p] + a
<1>1. Wrapped(b[p] + a) \in Currency
  BY WrappedType
<1>2. ~Over(b, p, a) => Wrapped(b[p] + a) = b[p] + a
  BY WrappedType, CurrencyAssumption DEF Over, Currency
<1> QED
  BY <1>1, <1>2 DEF Paid

\* What a withdrawal that is covered leaves.
LEMMA TakenIs ==
  ASSUME NEW b \in [Players -> Currency], NEW p \in Players, NEW a \in Currency,
         a > 0, b[p] >= a
  PROVE  /\ [b EXCEPT ![p] = @ - a] \in [Players -> Currency]
         /\ [b EXCEPT ![p] = @ - a][p] = b[p] - a
         /\ b[p] - a >= 0
         /\ \A q \in Players \ {p} : [b EXCEPT ![p] = @ - a][q] = b[q]
<1>1. b[p] - a \in Currency /\ b[p] - a >= 0
  BY CurrencyAssumption DEF Currency
<1> QED
  BY <1>1

\* The parts of a transfer put together.
LEMMA MovedIs ==
  ASSUME TypeOK, NEW f \in Players, NEW t \in Players, NEW a \in Currency, Covers(f, a)
  PROVE  LET b == [balance EXCEPT ![f] = @ - a]
         IN /\ Moved(f, t, a) \in [Players -> Currency]
            /\ b \in [Players -> Currency]
            /\ b[f] = balance[f] - a /\ b[f] >= 0
            /\ \A q \in Players \ {f} : b[q] = balance[q]
            /\ \A q \in Players \ {t} : Moved(f, t, a)[q] = b[q]
            /\ ~Over(b, t, a) => Moved(f, t, a)[t] = b[t] + a
<1> DEFINE b == [balance EXCEPT ![f] = @ - a]
<1>1. a > 0 /\ balance[f] >= a /\ balance \in [Players -> Currency]
  BY DEF Covers, TypeOK
<1>2. b \in [Players -> Currency] /\ b[f] = balance[f] - a /\ b[f] >= 0
      /\ \A q \in Players \ {f} : b[q] = balance[q]
  BY <1>1, TakenIs
<1>3. Moved(f, t, a) = Paid(b, t, a)
  BY DEF Moved
<1> HIDE DEF b
<1>4. /\ Paid(b, t, a) \in [Players -> Currency]
      /\ \A q \in Players \ {t} : Paid(b, t, a)[q] = b[q]
      /\ ~Over(b, t, a) => Paid(b, t, a)[t] = b[t] + a
  BY <1>1, <1>2, PaidIs
<1> QED
  BY <1>2, <1>3, <1>4 DEF b

---------------------------------------------------------------------------
\* What a call can be.
Calls == {"none", "create", "delete", "deposit", "withdraw", "transfer"}

\* At first nobody has an account and every balance is 0.
LEMMA InitTypes == Init => TypeOK /\ NoDebt
<1> SUFFICES ASSUME Init PROVE TypeOK /\ NoDebt
  OBVIOUS
<1>1. 0 \in Currency
  BY CurrencyAssumption DEF Currency
<1>2. balance \in [Players -> Currency] /\ \A p \in Players : balance[p] = 0
  BY <1>1 DEF Init
<1>3. call \in [op : Calls, amount : Currency, ok : BOOLEAN]
  BY <1>1 DEF Init, Calls
<1>4. holders \subseteq Players /\ issued \in Int
  BY DEF Init
<1>4a. credited \in BOOLEAN /\ overflowed \in BOOLEAN
  BY Zenon DEF Init
<1>5. TypeOK
  BY <1>2, <1>3, <1>4, <1>4a DEF TypeOK, Calls
<1>6. NoDebt
  BY <1>2 DEF NoDebt
<1> QED
  BY <1>5, <1>6

\* One step, by the call it is.
LEMMA NextTypes == TypeOK /\ NoDebt /\ [Next]_vars => (TypeOK /\ NoDebt)'
<1> SUFFICES ASSUME TypeOK, NoDebt, [Next]_vars PROVE TypeOK' /\ NoDebt'
  OBVIOUS
<1>0. 0 \in Currency
  BY CurrencyAssumption DEF Currency
<1>1. ASSUME NEW p \in Players, DeleteAccount(p) PROVE TypeOK' /\ NoDebt'
  <2>1. balance' \in [Players -> Currency] /\ balance'[p] = 0
        /\ \A q \in Players \ {p} : balance'[q] = balance[q]
    BY <1>1, <1>0 DEF DeleteAccount, TypeOK
  <2>2. issued' \in Int
    BY <1>1, CurrencyAssumption DEF DeleteAccount, TypeOK, Issued, Currency
  <2> QED
    BY <1>0, <1>1, <2>1, <2>2 DEF DeleteAccount, Called, TypeOK, NoDebt
<1>2. ASSUME NEW p \in Players, NEW a \in Currency, CreateAccount(p, a) PROVE TypeOK' /\ NoDebt'
  <2>1. balance' \in [Players -> Currency] /\ balance'[p] = a
        /\ \A q \in Players \ {p} : balance'[q] = balance[q]
    BY <1>2 DEF CreateAccount, TypeOK
  <2>2. issued' \in Int
    BY <1>2, CurrencyAssumption DEF CreateAccount, TypeOK, Issued, Currency
  <2>3. credited' \in BOOLEAN /\ (~credited' => ~credited /\ a >= 0)
    <3>1. credited' = (credited \/ a < 0)
      BY <1>2 DEF CreateAccount
    <3>2. ~(a < 0) => a >= 0
      BY CurrencyAssumption DEF Currency
    <3> QED
      BY <3>1, <3>2, Zenon DEF TypeOK
  <2>4. TypeOK'
    BY <1>2, <2>1, <2>2, <2>3 DEF CreateAccount, Called, TypeOK
  <2>5. NoDebt'
    BY <1>2, <2>1, <2>3 DEF CreateAccount, NoDebt
  <2> QED
    BY <2>4, <2>5
<1>3. ASSUME NEW o \in Calls, NEW a \in Currency, Refused(o, a) PROVE TypeOK' /\ NoDebt'
  BY <1>3 DEF Refused, Called, TypeOK, NoDebt, Calls
<1>4. ASSUME NEW p \in Players, NEW a \in Currency, Deposit(p, a) PROVE TypeOK' /\ NoDebt'
  <2>1. CASE a <= 0
    BY <1>3, <1>4, <2>1 DEF Deposit, Calls
  <2>2. CASE a > 0
    <3>0. ~(a <= 0)
      BY <2>2, CurrencyAssumption DEF Currency
    <3>1. balance' = Paid(balance, p, a) /\ holders' = holders \cup {p} /\ UNCHANGED credited
          /\ overflowed' = (overflowed \/ Over(balance, p, a)) /\ Issued(issued + a)
          /\ Called("deposit", a, TRUE)
      BY <1>4, <3>0, Zenon DEF Deposit
    <3>2. /\ balance' \in [Players -> Currency]
          /\ \A q \in Players \ {p} : balance'[q] = balance[q]
          /\ ~Over(balance, p, a) => balance'[p] = balance[p] + a
      BY <3>1, <2>2, PaidIs DEF TypeOK
    <3>3. issued' \in Int /\ overflowed' \in BOOLEAN
      BY <3>1, CurrencyAssumption DEF TypeOK, Issued, Currency, Over
    <3>4. TypeOK'
      BY <3>1, <3>2, <3>3 DEF Called, TypeOK
    <3>5. ASSUME ~credited', ~overflowed', NEW q \in Players PROVE balance'[q] >= 0
      <4>1. ~credited /\ ~overflowed /\ ~Over(balance, p, a)
        BY <3>1, <3>5
      <4> QED
        BY <4>1, <3>2, <2>2, CurrencyAssumption DEF NoDebt, TypeOK, Currency
    <3> QED
      BY <3>4, <3>5 DEF NoDebt
  <2> QED
    BY <2>1, <2>2, CurrencyAssumption DEF Currency
<1>5. ASSUME NEW p \in Players, NEW a \in Currency, Withdraw(p, a) PROVE TypeOK' /\ NoDebt'
  <2>1. CASE ~Covers(p, a)
    BY <1>3, <1>5, <2>1 DEF Withdraw, Calls
  <2>2. CASE Covers(p, a)
    <3>1. balance' = [balance EXCEPT ![p] = @ - a] /\ UNCHANGED <<holders, credited, overflowed>>
          /\ Issued(issued - a) /\ Called("withdraw", a, TRUE) /\ p \in holders
      BY <1>5, <2>2 DEF Withdraw, Covers
    <3>2. /\ balance' \in [Players -> Currency] /\ balance'[p] >= 0
          /\ \A q \in Players \ {p} : balance'[q] = balance[q]
      BY <3>1, <2>2, TakenIs DEF TypeOK, Covers
    <3>3. issued' \in Int
      BY <3>1, CurrencyAssumption DEF TypeOK, Issued, Currency
    <3>4. TypeOK'
      BY <3>1, <3>2, <3>3 DEF Called, TypeOK
    <3>5. NoDebt'
      BY <3>1, <3>2 DEF NoDebt
    <3> QED
      BY <3>4, <3>5
  <2> QED
    BY <2>1, <2>2
<1>6. ASSUME NEW f \in Players, NEW t \in Players, NEW a \in Currency, Transfer(f, t, a)
      PROVE  TypeOK' /\ NoDebt'
  <2>1. CASE ~Covers(f, a)
    BY <1>3, <1>6, <2>1 DEF Transfer, Calls
  <2>2. CASE Covers(f, a)
    <3> DEFINE b == [balance EXCEPT ![f] = @ - a]
    <3>1. balance' = Moved(f, t, a) /\ holders' = holders \cup {t} /\ UNCHANGED credited
          /\ overflowed' = (overflowed \/ Over(b, t, a)) /\ Issued(issued)
          /\ Called("transfer", a, TRUE) /\ f \in holders /\ a > 0
      BY <1>6, <2>2 DEF Transfer, Covers
    <3>2. /\ balance' \in [Players -> Currency] /\ b \in [Players -> Currency]
          /\ b[f] >= 0 /\ \A q \in Players \ {f} : b[q] = balance[q]
          /\ \A q \in Players \ {t} : balance'[q] = b[q]
          /\ ~Over(b, t, a) => balance'[t] = b[t] + a
      BY <3>1, <2>2, MovedIs
    <3> HIDE DEF b
    <3>3. issued' \in Int /\ overflowed' \in BOOLEAN
      BY <3>1 DEF TypeOK, Issued, Over
    <3>4. \A q \in Players \ holders' : balance'[q] = 0
      BY <3>1, <3>2 DEF TypeOK
    <3>5. TypeOK'
      BY <3>1, <3>2, <3>3, <3>4 DEF Called, TypeOK
    <3>6. ASSUME ~credited', ~overflowed', NEW q \in Players PROVE balance'[q] >= 0
      <4>1. ~credited /\ ~overflowed /\ ~Over(b, t, a)
        BY <3>1, <3>6
      <4>2. b[q] >= 0 /\ b[t] >= 0
        BY <4>1, <3>2 DEF NoDebt
      <4> QED
        BY <4>1, <4>2, <3>1, <3>2, CurrencyAssumption DEF Currency
    <3> QED
      BY <3>5, <3>6 DEF NoDebt
  <2> QED
    BY <2>1, <2>2
<1>7. CASE UNCHANGED vars
  BY <1>7 DEF vars, TypeOK, NoDebt
<1> QED
  BY <1>1, <1>2, <1>4, <1>5, <1>6, <1>7 DEF Next

\* What TransferExact says of one step.
Exact ==
  call'.op = "transfer" /\ call' # call /\ call'.ok /\ ~overflowed' =>
    \/ balance' = balance
    \/ \E f, t \in Players : /\ f # t
                             /\ balance'[f] = balance[f] - call'.amount
                             /\ balance'[t] = balance[t] + call'.amount
                             /\ \A p \in Players \ {f, t} : balance'[p] = balance[p]

\* To oneself the withdrawal is undone by the deposit; to another the two
\* balances move.
LEMMA StepExact == TypeOK /\ [Next]_vars => Exact
<1> SUFFICES ASSUME TypeOK, Next, call'.op = "transfer", call'.ok, ~overflowed'
             PROVE  \/ balance' = balance
                    \/ \E f, t \in Players : /\ f # t
                                             /\ balance'[f] = balance[f] - call'.amount
                                             /\ balance'[t] = balance[t] + call'.amount
                                             /\ \A p \in Players \ {f, t} : balance'[p] = balance[p]
  BY DEF Exact, vars
<1>1. PICK f \in Players, t \in Players, a \in Currency : Transfer(f, t, a)
  BY DEF Next, DeleteAccount, CreateAccount, Deposit, Withdraw, Refused, Called
<1> DEFINE b == [balance EXCEPT ![f] = @ - a]
<1>2. Covers(f, a)
  BY <1>1 DEF Transfer, Refused, Called
<1>3. balance' = Moved(f, t, a) /\ overflowed' = (overflowed \/ Over(b, t, a)) /\ call'.amount = a
  BY <1>1, <1>2 DEF Transfer, Called
<1>4. /\ balance' \in [Players -> Currency] /\ b \in [Players -> Currency]
      /\ b[f] = balance[f] - a /\ \A q \in Players \ {f} : b[q] = balance[q]
      /\ \A q \in Players \ {t} : balance'[q] = b[q]
      /\ ~Over(b, t, a) => balance'[t] = b[t] + a
  BY <1>2, <1>3, MovedIs
<1> HIDE DEF b
<1>5. ~Over(b, t, a)
  BY <1>3
<1>6. CASE f # t
  <2>1. balance'[f] = balance[f] - a /\ balance'[t] = balance[t] + a
        /\ \A p \in Players \ {f, t} : balance'[p] = balance[p]
    BY <1>4, <1>5, <1>6
  <2> QED
    BY <1>3, <1>6, <2>1
<1>7. CASE f = t
  <2>1. \A q \in Players : balance'[q] = balance[q]
    BY <1>4, <1>5, <1>7, CurrencyAssumption DEF TypeOK, Currency
  <2> QED
    BY <2>1, <1>4 DEF TypeOK
<1> QED
  BY <1>6, <1>7

---------------------------------------------------------------------------
\* The fold that Conserved adds the balances up with takes one member after
\* another out of the set of players; what it has for every subset is the
\* solution of an equation.
Pick(s) == CHOOSE x \in s : TRUE
SumsOf(h, b, S) ==
  h = [s \in SUBSET S |-> IF s = {} THEN 0 ELSE b[Pick(s)] + h[s \ {Pick(s)}]]

\* A member is taken out of a set that has one.
LEMMA PickIs == ASSUME NEW s, s # {} PROVE Pick(s) \in s
BY DEF Pick

\* The fold is the value of some solution at the whole set.
LEMMA FoldSolves ==
  ASSUME NEW b, NEW S, S = DOMAIN b, NEW h, SumsOf(h, b, S)
  PROVE  \E k : SumsOf(k, b, S) /\ FoldFunction(LAMBDA x, y : x + y, 0, b) = k[S]
<1> DEFINE k == CHOOSE f : SumsOf(f, b, S)
<1>1. SumsOf(k, b, S)
  BY Zenon
<1>2. FoldFunction(LAMBDA x, y : x + y, 0, b) = k[S]
  BY Zenon DEF FoldFunction, FoldFunctionOnSet, MapThenFoldSet, SumsOf, Pick
<1> QED
  BY <1>1, <1>2

\* There is only one: two would differ first on a smallest subset.
LEMMA SumsUnique ==
  ASSUME NEW S, IsFiniteSet(S), NEW b, NEW h, SumsOf(h, b, S), NEW k, SumsOf(k, b, S)
  PROVE  h[S] = k[S]
<1> DEFINE D == {s \in SUBSET S : h[s] # k[s]}
           T == {Cardinality(s) : s \in D}
<1> SUFFICES ASSUME D # {} PROVE FALSE
  OBVIOUS
<1>1. \A s \in SUBSET S : IsFiniteSet(s) /\ Cardinality(s) \in Nat
  BY FS_Subset, FS_CardinalityType
<1>2. T \subseteq Nat /\ T # {}
  BY <1>1
<1>3. PICK n \in T : \A m \in T : n <= m
  BY <1>2, Smallest
<1>4. PICK s \in D : n = Cardinality(s)
  BY <1>3
<1>5. s # {}
  BY DEF SumsOf
<1>6. Pick(s) \in s
  BY <1>5, PickIs
<1>7. s \ {Pick(s)} \in SUBSET S /\ Cardinality(s \ {Pick(s)}) = n - 1 /\ n \in Nat
  BY <1>1, <1>4, <1>6, FS_RemoveElement
<1>8. h[s \ {Pick(s)}] = k[s \ {Pick(s)}]
  BY <1>3, <1>7
<1> QED
  BY <1>5, <1>8 DEF SumsOf

\* The balances of all players add up to n.
AddsUp(b, n) == \E h \in [SUBSET Players -> Int] : SumsOf(h, b, Players) /\ h[Players] = n

\* The fold gives n when the balances add up to n.
LEMMA AddsUpIs ==
  ASSUME NEW b, DOMAIN b = Players, NEW n, AddsUp(b, n)
  PROVE  FoldFunction(LAMBDA x, y : x + y, 0, b) = n
<1>1. PICK h : SumsOf(h, b, Players) /\ h[Players] = n
  BY DEF AddsUp
<1>2. PICK k : SumsOf(k, b, Players) /\ FoldFunction(LAMBDA x, y : x + y, 0, b) = k[Players]
  BY <1>1, FoldSolves
<1>3. h[Players] = k[Players]
  BY <1>1, <1>2, PlayersAssumption, SumsUnique
<1> QED
  BY <1>1, <1>2, <1>3

\* Balances of 0 add up to 0.
LEMMA NothingAddsUp == ASSUME NEW b, \A p \in Players : b[p] = 0 PROVE AddsUp(b, 0)
<1> DEFINE h == [s \in SUBSET Players |-> 0]
<1>1. ASSUME NEW s \in SUBSET Players, s # {} PROVE b[Pick(s)] + h[s \ {Pick(s)}] = 0
  BY <1>1, PickIs
<1>2. SumsOf(h, b, Players)
  BY <1>1 DEF SumsOf
<1>3. h \in [SUBSET Players -> Int] /\ h[Players] = 0
  OBVIOUS
<1> HIDE DEF h
<1> QED
  BY <1>2, <1>3 DEF AddsUp

\* When one balance changes the sum changes by as much.
LEMMA OneChanges ==
  ASSUME NEW b \in [Players -> Int], NEW c \in [Players -> Int], NEW p \in Players,
         \A q \in Players \ {p} : c[q] = b[q], NEW n \in Int, AddsUp(b, n)
  PROVE  AddsUp(c, n + (c[p] - b[p]))
<1>1. PICK h \in [SUBSET Players -> Int] : SumsOf(h, b, Players) /\ h[Players] = n
  BY DEF AddsUp
<1>2. PICK d \in Int : d = c[p] - b[p]
  OBVIOUS
<1> DEFINE k == [s \in SUBSET Players |-> h[s] + (IF p \in s THEN d ELSE 0)]
<1>3. k \in [SUBSET Players -> Int] /\ k[Players] = n + d
  BY <1>1
<1>4. ASSUME NEW s \in SUBSET Players
      PROVE  k[s] = IF s = {} THEN 0 ELSE c[Pick(s)] + k[s \ {Pick(s)}]
  <2>1. CASE s = {}
    BY <1>1, <2>1 DEF SumsOf
  <2>2. CASE s # {}
    <3>1. PICK x \in Players : x = Pick(s) /\ x \in s
      BY <2>2, PickIs
    <3>2. h[s] = b[x] + h[s \ {x}] /\ h[s \ {x}] \in Int
      BY <1>1, <2>2, <3>1 DEF SumsOf
    <3>3. k[s] = h[s] + (IF p \in s THEN d ELSE 0)
          /\ k[s \ {x}] = h[s \ {x}] + (IF p \in s /\ p # x THEN d ELSE 0)
      OBVIOUS
    <3>4. CASE x = p
      BY <1>2, <2>2, <3>1, <3>2, <3>3, <3>4
    <3>5. CASE x # p
      <4>1. c[x] = b[x]
        BY <3>5
      <4> QED
        BY <2>2, <3>1, <3>2, <3>3, <3>5, <4>1
    <3> QED
      BY <3>4, <3>5
  <2> QED
    BY <2>1, <2>2
<1>5. SumsOf(k, c, Players)
  BY <1>4 DEF SumsOf
<1> QED
  BY <1>2, <1>3, <1>5 DEF AddsUp

\* Until a deposit overflows the sum is what was issued.
MoneyInv == \E n \in Int : AddsUp(balance, n) /\ (~overflowed => n = issued)

\* The invariant says of every width and every set of players what the run
\* checks of three.
LEMMA MoneyHolds == TypeOK /\ MoneyInv => Conserved
BY AddsUpIs DEF MoneyInv, Conserved, TypeOK

\* At first nothing is issued and nobody has any.
LEMMA MoneyInit == Init => MoneyInv
<1> SUFFICES ASSUME Init PROVE MoneyInv
  OBVIOUS
<1>1. AddsUp(balance, 0)
  BY NothingAddsUp DEF Init
<1> QED
  BY <1>1 DEF Init, MoneyInv

\* One balance of the state changes by d.
LEMMA OneMoves ==
  ASSUME TypeOK, MoneyInv, NEW p \in Players, NEW d \in Int, balance' \in [Players -> Currency],
         balance'[p] = balance[p] + d, \A q \in Players \ {p} : balance'[q] = balance[q]
  PROVE  \E n \in Int : AddsUp(balance', n + d) /\ (~overflowed => n = issued)
<1>1. balance \in [Players -> Int] /\ balance' \in [Players -> Int]
  BY CurrencyAssumption DEF TypeOK, Currency
<1>2. PICK n \in Int : AddsUp(balance, n) /\ (~overflowed => n = issued)
  BY DEF MoneyInv
<1>3. balance'[p] - balance[p] = d
  BY <1>1
<1>4. AddsUp(balance', n + (balance'[p] - balance[p]))
  BY <1>1, <1>2, OneChanges
<1> QED
  BY <1>2, <1>3, <1>4

\* What follows for the money when the history counts the same d.
LEMMA MoneyStays ==
  ASSUME NEW d \in Int, NEW n \in Int, AddsUp(balance', n + d), ~overflowed => n = issued,
         overflowed => overflowed', overflowed \in BOOLEAN, overflowed' \in BOOLEAN,
         ~overflowed' => issued' = issued + d
  PROVE  MoneyInv'
<1>1. PICK m \in Int : m = n + d
  OBVIOUS
<1>2. ~overflowed' => m = issued'
  BY <1>1
<1>3. AddsUp(balance, m)'
  BY <1>1 DEF AddsUp, SumsOf
<1> QED
  BY <1>2, <1>3 DEF MoneyInv

\* A call changes one balance by what it issues or, a transfer, takes from
\* one and then pays the other; the sum follows one change at a time.
LEMMA MoneyNext == TypeOK /\ NoDebt /\ MoneyInv /\ [Next]_vars => MoneyInv'
<1> SUFFICES ASSUME TypeOK, NoDebt, MoneyInv, [Next]_vars PROVE MoneyInv'
  OBVIOUS
<1>0. /\ Currency \subseteq Int /\ balance \in [Players -> Currency]
      /\ \A q \in Players : balance[q] \in Int
  BY CurrencyAssumption DEF TypeOK, Currency
<1>a. TypeOK'
  BY NextTypes
<1>b. /\ overflowed \in BOOLEAN /\ overflowed' \in BOOLEAN /\ issued \in Int
      /\ balance' \in [Players -> Currency] /\ \A q \in Players : balance'[q] \in Int
  BY <1>0, <1>a DEF TypeOK
<1>c. ASSUME NEW n \in Int, Issued(n) PROVE ~overflowed' => issued' = n
  BY <1>c DEF Issued
<1>d. ASSUME NEW o, NEW a, Refused(o, a) PROVE MoneyInv'
  BY <1>d DEF Refused, MoneyInv, AddsUp, SumsOf
<1>1. ASSUME NEW p \in Players, DeleteAccount(p) PROVE MoneyInv'
  <2>1. PICK d \in Int : d = -balance[p]
    BY <1>0
  <2>2. balance'[p] = balance[p] + d /\ \A q \in Players \ {p} : balance'[q] = balance[q]
    BY <1>0, <1>1, <2>1 DEF DeleteAccount
  <2>3. overflowed' = overflowed /\ (~overflowed' => issued' = issued + d)
    BY <1>0, <1>1, <1>b, <1>c, <2>1 DEF DeleteAccount
  <2>4. PICK n \in Int : AddsUp(balance', n + d) /\ (~overflowed => n = issued)
    BY <1>b, <2>2, OneMoves
  <2> QED
    BY <1>b, <2>3, <2>4, MoneyStays
<1>2. ASSUME NEW p \in Players, NEW a \in Currency, CreateAccount(p, a) PROVE MoneyInv'
  <2>1. PICK d \in Int : d = a - balance[p]
    BY <1>0
  <2>2. balance'[p] = balance[p] + d /\ \A q \in Players \ {p} : balance'[q] = balance[q]
    BY <1>0, <1>2, <2>1 DEF CreateAccount
  <2>3. overflowed' = overflowed /\ (~overflowed' => issued' = issued + d)
    BY <1>0, <1>2, <1>b, <1>c, <2>1 DEF CreateAccount
  <2>4. PICK n \in Int : AddsUp(balance', n + d) /\ (~overflowed => n = issued)
    BY <1>b, <2>2, OneMoves
  <2> QED
    BY <1>b, <2>3, <2>4, MoneyStays
<1>3. ASSUME NEW p \in Players, NEW a \in Currency, Deposit(p, a) PROVE MoneyInv'
  <2>1. CASE a <= 0
    BY <1>3, <1>d, <2>1 DEF Deposit
  <2>2. CASE ~(a <= 0)
    <3>1. a > 0
      BY <1>0, <2>2
    <3>2. /\ balance' = Paid(balance, p, a) /\ Issued(issued + a)
          /\ overflowed' = (overflowed \/ Over(balance, p, a))
      BY <1>3, <2>2, Zenon DEF Deposit
    <3>3. /\ \A q \in Players \ {p} : balance'[q] = balance[q]
          /\ ~Over(balance, p, a) => balance'[p] = balance[p] + a
      BY <1>0, <3>1, <3>2, PaidIs
    <3>4. PICK d \in Int : d = balance'[p] - balance[p]
      BY <1>0, <1>b
    <3>5. balance'[p] = balance[p] + d
      BY <1>0, <1>b, <3>4
    <3>6. ~overflowed' => issued' = issued + d
      <4>1. ~overflowed' => ~Over(balance, p, a)
        BY <3>2
      <4>2. ~overflowed' => d = a
        BY <1>0, <1>b, <3>3, <3>4, <4>1
      <4> QED
        BY <1>0, <1>b, <1>c, <3>2, <4>2
    <3>7. overflowed => overflowed'
      BY <3>2
    <3>8. PICK n \in Int : AddsUp(balance', n + d) /\ (~overflowed => n = issued)
      BY <1>b, <3>3, <3>5, OneMoves
    <3> QED
      BY <1>b, <3>6, <3>7, <3>8, MoneyStays
  <2> QED
    BY <2>1, <2>2
<1>4. ASSUME NEW p \in Players, NEW a \in Currency, Withdraw(p, a) PROVE MoneyInv'
  <2>1. CASE ~Covers(p, a)
    BY <1>4, <1>d, <2>1 DEF Withdraw
  <2>2. CASE Covers(p, a)
    <3>1. PICK d \in Int : d = -a
      BY <1>0
    <3>2. balance'[p] = balance[p] + d /\ \A q \in Players \ {p} : balance'[q] = balance[q]
      BY <1>0, <1>4, <2>2, <3>1 DEF Withdraw
    <3>3. overflowed' = overflowed /\ (~overflowed' => issued' = issued + d)
      BY <1>0, <1>4, <2>2, <1>b, <1>c, <3>1 DEF Withdraw
    <3>4. PICK n \in Int : AddsUp(balance', n + d) /\ (~overflowed => n = issued)
      BY <1>b, <3>2, OneMoves
    <3> QED
      BY <1>b, <3>3, <3>4, MoneyStays
  <2> QED
    BY <2>1, <2>2
<1>5. ASSUME NEW f \in Players, NEW t \in Players, NEW a \in Currency, Transfer(f, t, a)
      PROVE  MoneyInv'
  <2>1. CASE ~Covers(f, a)
    BY <1>5, <1>d, <2>1 DEF Transfer
  <2>2. CASE Covers(f, a)
    <3> DEFINE b == [balance EXCEPT ![f] = @ - a]
    <3>1. /\ balance' = Moved(f, t, a) /\ Issued(issued)
          /\ overflowed' = (overflowed \/ Over(b, t, a))
      BY <1>5, <2>2 DEF Transfer
    <3>2. /\ b \in [Players -> Currency] /\ b[f] = balance[f] - a
          /\ \A q \in Players \ {f} : b[q] = balance[q]
          /\ \A q \in Players \ {t} : balance'[q] = b[q]
          /\ ~Over(b, t, a) => balance'[t] = b[t] + a
      BY <2>2, <3>1, MovedIs
    <3> HIDE DEF b
    <3>3. balance \in [Players -> Int] /\ b \in [Players -> Int] /\ balance' \in [Players -> Int]
          /\ a \in Int
      BY <1>0, <1>b, <3>2
    <3>4. PICK n \in Int : AddsUp(balance, n) /\ (~overflowed => n = issued)
      BY DEF MoneyInv
    <3>5. AddsUp(b, n + (b[f] - balance[f]))
      BY <3>2, <3>3, <3>4, OneChanges
    <3>6. PICK m \in Int : m = n + (b[f] - balance[f])
      BY <3>3, <3>4
    <3>7. AddsUp(balance', m + (balance'[t] - b[t]))
      BY <3>2, <3>3, <3>5, <3>6, OneChanges
    <3>8. PICK k \in Int : k = m + (balance'[t] - b[t])
      BY <3>3, <3>6
    <3>9. ~overflowed' => ~overflowed /\ ~Over(b, t, a) /\ issued' = issued
      BY <1>b, <1>c, <3>1
    <3>10. ~overflowed' => k = issued'
      BY <3>2, <3>3, <3>4, <3>6, <3>8, <3>9
    <3>11. AddsUp(balance, k)'
      BY <3>7, <3>8 DEF AddsUp, SumsOf
    <3> QED
      BY <3>10, <3>11 DEF MoneyInv
  <2> QED
    BY <2>1, <2>2
<1>6. CASE UNCHANGED vars
  BY <1>6 DEF vars, MoneyInv, AddsUp, SumsOf
<1> QED
  BY <1>1, <1>2, <1>3, <1>4, <1>5, <1>6 DEF Next

---------------------------------------------------------------------------
(* EventPipeline                                                           *)

\* The largest member of a set of positions is one of them.
LEMMA LargestIs ==
  ASSUME NEW n \in Nat, NEW T, T \subseteq 1..n, T # {}
  PROVE  Pipeline!Max(T) \in T
<1> DEFINE U == {n - i : i \in T}
<1>1. U \subseteq Nat /\ U # {}
  <2>1. ASSUME NEW i \in T PROVE n - i \in Nat
    OBVIOUS
  <2> QED
    BY <2>1
<1>2. PICK k \in U : \A m \in U : k <= m
  BY <1>1, Smallest
<1>3. PICK i \in T : k = n - i
  BY <1>2
<1>4. \A j \in T : i >= j
  <2> TAKE j \in T
  <2>1. n - j \in U
    OBVIOUS
  <2>2. k <= n - j /\ i \in Nat /\ j \in Nat
    BY <1>2, <2>1
  <2> QED
    BY <1>3, <2>2
<1> QED
  BY <1>4, Zenon DEF Pipeline!Max

\* A counter that wraps can be added to before it is cut or after.
LEMMA WrapAdds ==
  ASSUME NEW w \in Nat \ {0}, NEW x \in Int, NEW k \in Int, NEW c, c = x % w
  PROVE  (c + k) % w = (x + k) % w /\ (c + k) % w \in 0..(w - 1)
<1>1. PICK q \in Int, r \in 0..(w - 1) : x = w * q + r /\ x % w = r
  BY Remainder
<1>2. PICK z \in Int : z = r + k
  OBVIOUS
<1>3. PICK m \in Int, s \in 0..(w - 1) : z = w * m + s /\ z % w = s
  BY Remainder
<1>4. PICK v \in Int : v = q + m
  OBVIOUS
<1>5. PICK y \in Int : y = x + k
  OBVIOUS
<1>6. y = w * v + s
  BY <1>1, <1>2, <1>3, <1>4, <1>5
<1>7. y % w = s
  BY <1>6, RemainderIs
<1> QED
  BY <1>1, <1>2, <1>3, <1>5, <1>7

---------------------------------------------------------------------------
\* The bundle that the run checks, with that the registry is finite and that
\* actions are pending only while an event is handled.
PipelineInv == MetricsFollow /\ IsFiniteSet(Pipeline!Registered) /\ (~handling => pending = <<>>)

\* What is assumed of the constants of the pipeline.
LEMMA PipelineConstants ==
  /\ Word \in Nat \ {0} /\ 0 \in 0..(Word - 1) /\ MaxEvents \in Nat
  /\ Shown \notin Pipeline!Scene /\ {TestScene, ModScene, NoScene} = Pipeline!Scene
  /\ Pipeline!Action = {TestScene, ModScene, Shown}
BY PipelineAssumption DEF Pipeline!SceneAssumption, Pipeline!BoundAssumption, Pipeline!Scene,
   Pipeline!Action

\* At first nobody is registered and nothing is counted.
LEMMA PipelineInit == Pipeline!Init => PipelineInv
<1> SUFFICES ASSUME Pipeline!Init PROVE PipelineInv
  OBVIOUS
<1>1. Pipeline!Registered = {} /\ IsFiniteSet({}) /\ Cardinality({}) = 0
  BY FS_EmptySet DEF Pipeline!Init, Pipeline!Registered
<1>2. Pipeline!TypeOK
  <2>1. <<>> \in Seq(Pipeline!Action)
    BY EmptySeq
  <2>2. players \in [Pipeline!Registered -> Pipeline!Scene]
    BY <1>1 DEF Pipeline!Init, Pipeline!Registered
  <2>3. scene \in Pipeline!Scene /\ stale \subseteq Pipeline!Registered /\ pending \in Seq(Pipeline!Action)
    BY <2>1 DEF Pipeline!Init, Pipeline!Scene
  <2>4. /\ connected \in 0..(Word - 1) /\ executed \in 0..(Word - 1) /\ events \in 0..MaxEvents
        /\ drift \in Int /\ applied \in Nat
    BY PipelineConstants DEF Pipeline!Init
  <2>5. handling \in BOOLEAN
    BY DEF Pipeline!Init
  <2> QED
    BY <1>1, <2>2, <2>3, <2>4, <2>5 DEF Pipeline!TypeOK
<1>3. 0 % Word = 0
  BY PipelineConstants
<1>4. Pipeline!MetricMatchesRegistry /\ Pipeline!ExecutedActionsCounted /\ Pipeline!SceneRecordedAtJoin
  <2>1. Len(<<>>) = 0
    BY EmptySeq
  <2> QED
    BY <1>1, <1>3, <2>1, SameCardinality DEF Pipeline!Init, Pipeline!MetricMatchesRegistry,
       Pipeline!ExecutedActionsCounted, Pipeline!SceneRecordedAtJoin
<1> QED
  BY <1>1, <1>2, <1>4 DEF PipelineInv, MetricsFollow, Pipeline!Init

\* The modules are handed a list of actions and leave one.
LEMMA DispatchedIs ==
  ASSUME NEW s \in Seq(Pipeline!Action)
  PROVE  Pipeline!Dispatched(s) \subseteq Seq(Pipeline!Action)
<1>1. Shown \in Pipeline!Action /\ ModScene \in Pipeline!Action
  BY PipelineConstants
<1>2. /\ Append(s, Shown) \in Seq(Pipeline!Action)
      /\ Append(s, ModScene) \in Seq(Pipeline!Action) /\ <<>> \in Seq(Pipeline!Action)
  BY <1>1, AppendProperties, EmptySeq
<1> QED
  BY <1>2 DEF Pipeline!Dispatched

\* What an event adds to the count of actions is what is pending after it.
\* An event is handled only when the actions of the last have been applied.
LEMMA AnswerCounts ==
  ASSUME PipelineInv, Pipeline!Ready, NEW s \in Seq(Pipeline!Action), Pipeline!Answer(s),
         UNCHANGED applied
  PROVE  /\ pending' \in Seq(Pipeline!Action) /\ executed' \in 0..(Word - 1)
         /\ events' \in 0..MaxEvents /\ handling' \in BOOLEAN /\ applied' \in Nat
         /\ Pipeline!ExecutedActionsCounted'
<1>1. pending' \in Seq(Pipeline!Action) /\ Len(pending') \in Nat
  BY DispatchedIs, LenProperties DEF Pipeline!Answer
<1>2. executed = (applied + 0) % Word /\ applied \in Nat /\ executed \in 0..(Word - 1)
  BY EmptySeq DEF PipelineInv, MetricsFollow, Pipeline!ExecutedActionsCounted, Pipeline!TypeOK,
     Pipeline!Ready
<1>3. executed' = (executed + Len(pending')) % Word
  BY DEF Pipeline!Answer
<1>4. executed' = (applied + Len(pending')) % Word /\ executed' \in 0..(Word - 1)
  <2>1. PICK k \in Int, a \in Int : k = Len(pending') /\ a = applied
    BY <1>1, <1>2
  <2>2. executed = a % Word /\ Word \in Nat \ {0}
    BY <1>2, <2>1, PipelineConstants
  <2>3. (executed + k) % Word = (a + k) % Word /\ (executed + k) % Word \in 0..(Word - 1)
    BY <2>2, WrapAdds
  <2> QED
    BY <2>1, <2>3, <1>3
<1>6. events' \in 0..MaxEvents
  BY PipelineConstants DEF PipelineInv, MetricsFollow, Pipeline!TypeOK, Pipeline!Ready, Pipeline!Answer
<1> QED
  BY <1>1, <1>2, <1>4, <1>6 DEF Pipeline!Answer, Pipeline!ExecutedActionsCounted

\* A join and a quit keep the metric and the registry together, an answer is
\* counted before its actions are applied, and a scene changes as a whole.
LEMMA PipelineNext == PipelineInv /\ [Pipeline!Next]_eventVars => PipelineInv'
<1> SUFFICES ASSUME PipelineInv, [Pipeline!Next]_eventVars PROVE PipelineInv'
  OBVIOUS
<1> USE PipelineConstants
<1>0. /\ Pipeline!TypeOK /\ Pipeline!MetricMatchesRegistry /\ Pipeline!ExecutedActionsCounted
      /\ Pipeline!SceneRecordedAtJoin /\ IsFiniteSet(Pipeline!Registered)
      /\ Cardinality(Pipeline!Registered) \in Nat
  BY FS_CardinalityType DEF PipelineInv, MetricsFollow
<1>1. ASSUME NEW p \in Player, Pipeline!HandleJoin(p) PROVE PipelineInv'
  <2>1. <<>> \in Seq(Pipeline!Action)
    BY EmptySeq
  <2>2. /\ pending' \in Seq(Pipeline!Action) /\ executed' \in 0..(Word - 1)
        /\ events' \in 0..MaxEvents /\ handling' \in BOOLEAN /\ applied' \in Nat
        /\ Pipeline!ExecutedActionsCounted'
    BY <1>1, <2>1, AnswerCounts DEF Pipeline!HandleJoin
  <2>3. /\ Pipeline!Registered' = Pipeline!Registered \cup {p}
        /\ players' \in [Pipeline!Registered' -> Pipeline!Scene]
        /\ players'[p] = scene /\ \A q \in Pipeline!Registered \ {p} : players'[q] = players[q]
    BY <1>0, <1>1 DEF Pipeline!HandleJoin, Pipeline!Registered, Pipeline!TypeOK
  <2>4. /\ IsFiniteSet(Pipeline!Registered')
        /\ Cardinality(Pipeline!Registered') =
             IF p \in Pipeline!Registered THEN Cardinality(Pipeline!Registered)
             ELSE Cardinality(Pipeline!Registered) + 1
    BY <1>0, <2>3, FS_AddElement
  <2>5. drift' \in Int /\ Cardinality(Pipeline!Registered') \in Nat /\ Cardinality(Pipeline!Registered') + drift' =
                            (Cardinality(Pipeline!Registered) + drift) + 1
    BY <1>0, <1>1, <2>4, FS_CardinalityType DEF Pipeline!HandleJoin, Pipeline!TypeOK
  <2>6. connected' = (Cardinality(Pipeline!Registered') + drift') % Word /\ connected' \in 0..(Word - 1)
    <3>1. PICK x \in Int : x = Cardinality(Pipeline!Registered) + drift
      BY <1>0 DEF Pipeline!TypeOK
    <3>2. connected = x % Word
      BY <1>0, <3>1, SameCardinality DEF Pipeline!MetricMatchesRegistry
    <3>3. connected' = (connected + 1) % Word
      BY <1>1 DEF Pipeline!HandleJoin
    <3>4. Cardinality(Pipeline!Registered') + drift' = x + 1
      BY <2>5, <3>1
    <3>5. PICK k \in Int : k = 1
      OBVIOUS
    <3>6. (connected + k) % Word = (x + k) % Word /\ (connected + k) % Word \in 0..(Word - 1)
      BY <3>2, WrapAdds
    <3> QED
      BY <3>3, <3>4, <3>5, <3>6
  <2>8. Pipeline!TypeOK'
    BY <1>0, <1>1, <2>2, <2>3, <2>5, <2>6 DEF Pipeline!HandleJoin, Pipeline!TypeOK
  <2>9. Pipeline!SceneRecordedAtJoin'
    BY <1>0, <1>1, <2>3 DEF Pipeline!HandleJoin, Pipeline!SceneRecordedAtJoin
  <2> QED
    BY <1>1, <2>2, <2>4, <2>6, <2>8, <2>9, SameCardinality DEF PipelineInv, MetricsFollow,
       Pipeline!MetricMatchesRegistry, Pipeline!HandleJoin, Pipeline!Answer
<1>2. ASSUME NEW p \in Player, Pipeline!HandleQuit(p) PROVE PipelineInv'
  <2>1. <<>> \in Seq(Pipeline!Action)
    BY EmptySeq
  <2>2. /\ pending' \in Seq(Pipeline!Action) /\ executed' \in 0..(Word - 1)
        /\ events' \in 0..MaxEvents /\ handling' \in BOOLEAN /\ applied' \in Nat
        /\ Pipeline!ExecutedActionsCounted'
    BY <1>2, <2>1, AnswerCounts DEF Pipeline!HandleQuit
  <2>3. /\ Pipeline!Registered' = Pipeline!Registered \ {p}
        /\ players' \in [Pipeline!Registered' -> Pipeline!Scene]
        /\ \A q \in Pipeline!Registered' : players'[q] = players[q]
    BY <1>0, <1>2 DEF Pipeline!HandleQuit, Pipeline!Registered, Pipeline!TypeOK
  <2>4. /\ IsFiniteSet(Pipeline!Registered')
        /\ Cardinality(Pipeline!Registered') =
             IF p \in Pipeline!Registered THEN Cardinality(Pipeline!Registered) - 1
             ELSE Cardinality(Pipeline!Registered)
    BY <1>0, <2>3, FS_RemoveElement
  <2>5. drift' \in Int /\ Cardinality(Pipeline!Registered') \in Nat /\ Cardinality(Pipeline!Registered') + drift' =
                            (Cardinality(Pipeline!Registered) + drift) + (-1)
    BY <1>0, <1>2, <2>4, FS_CardinalityType DEF Pipeline!HandleQuit, Pipeline!TypeOK
  <2>6. connected' = (Cardinality(Pipeline!Registered') + drift') % Word /\ connected' \in 0..(Word - 1)
    <3>1. PICK x \in Int : x = Cardinality(Pipeline!Registered) + drift
      BY <1>0 DEF Pipeline!TypeOK
    <3>2. connected = x % Word
      BY <1>0, <3>1, SameCardinality DEF Pipeline!MetricMatchesRegistry
    <3>3. connected' = (connected + (-1)) % Word
      BY <1>0, <1>2 DEF Pipeline!HandleQuit, Pipeline!TypeOK
    <3>4. Cardinality(Pipeline!Registered') + drift' = x + (-1)
      BY <2>5, <3>1
    <3>5. PICK k \in Int : k = (-1)
      OBVIOUS
    <3>6. (connected + k) % Word = (x + k) % Word /\ (connected + k) % Word \in 0..(Word - 1)
      BY <3>2, WrapAdds
    <3> QED
      BY <3>3, <3>4, <3>5, <3>6
  <2>8. Pipeline!TypeOK'
    BY <1>0, <1>2, <2>2, <2>3, <2>5, <2>6 DEF Pipeline!HandleQuit, Pipeline!TypeOK
  <2>9. Pipeline!SceneRecordedAtJoin'
    BY <1>0, <1>2, <2>3 DEF Pipeline!HandleQuit, Pipeline!SceneRecordedAtJoin
  <2> QED
    BY <1>2, <2>2, <2>4, <2>6, <2>8, <2>9, SameCardinality DEF PipelineInv, MetricsFollow,
       Pipeline!MetricMatchesRegistry, Pipeline!HandleQuit, Pipeline!Answer
<1>3. ASSUME Pipeline!HandleOther PROVE PipelineInv'
  <2>1. PICK r \in Pipeline!Reply : Pipeline!Answer(r)
    BY <1>3 DEF Pipeline!HandleOther
  <2>2. r \in Seq(Pipeline!Action)
    <3>1. <<>> \in Seq(Pipeline!Action) /\ <<Shown>> \in Seq(Pipeline!Action)
          /\ <<Shown, TestScene>> \in Seq(Pipeline!Action)
      BY EmptySeq
    <3> QED
      BY <3>1 DEF Pipeline!Reply
  <2>3. /\ pending' \in Seq(Pipeline!Action) /\ executed' \in 0..(Word - 1)
        /\ events' \in 0..MaxEvents /\ handling' \in BOOLEAN /\ applied' \in Nat
        /\ Pipeline!ExecutedActionsCounted'
    BY <1>3, <2>1, <2>2, AnswerCounts DEF Pipeline!HandleOther
  <2>4. UNCHANGED <<players, scene, connected, drift, stale>>
    BY <1>3 DEF Pipeline!HandleOther
  <2>5. Pipeline!TypeOK'
    BY <1>0, <2>3, <2>4 DEF Pipeline!TypeOK, Pipeline!Registered
  <2>6. handling'
    BY <2>1 DEF Pipeline!Answer
  <2> QED
    BY <1>0, <2>3, <2>4, <2>5, <2>6 DEF PipelineInv, MetricsFollow, Pipeline!Registered,
       Pipeline!MetricMatchesRegistry, Pipeline!SceneRecordedAtJoin
<1>4. ASSUME Pipeline!Apply PROVE PipelineInv'
  <2>1. pending \in Seq(Pipeline!Action) /\ Len(pending) \in Nat /\ DOMAIN pending = 1..Len(pending)
    BY <1>0, LenProperties DEF Pipeline!TypeOK
  <2>2. UNCHANGED <<players, connected, executed, events, drift>> /\ pending' = <<>> /\ handling' = FALSE
        /\ applied' = applied + Len(pending) /\ Pipeline!Registered' = Pipeline!Registered
    BY <1>4 DEF Pipeline!Apply, Pipeline!Registered
  <2>3. Pipeline!ExecutedActionsCounted'
    <3>1. <<>> \in Seq(Pipeline!Action) /\ Len(<<>>) = 0
      BY EmptySeq
    <3> QED
      BY <1>0, <2>1, <2>2, <3>1 DEF Pipeline!ExecutedActionsCounted, Pipeline!TypeOK
  <2>4. ASSUME Pipeline!Loads # {}
        PROVE  Pipeline!Max(Pipeline!Loads) \in Pipeline!Loads
    BY <2>1, <2>4, LargestIs DEF Pipeline!Loads
  <2>5. \A i \in Pipeline!Loads : pending[i] \in Pipeline!Scene
    BY <2>1 DEF Pipeline!Loads
  <2>6. scene' \in Pipeline!Scene /\ ((\A i \in Pipeline!Loads : pending[i] = scene) => scene' = scene)
    BY <1>0, <1>4, <2>4, <2>5 DEF Pipeline!Apply, Pipeline!TypeOK
  <2>7. IF \A i \in Pipeline!Loads : pending[i] = scene THEN stale' = stale ELSE stale' = Pipeline!Registered
    BY <1>4 DEF Pipeline!Apply
  <2>8. Pipeline!SceneRecordedAtJoin'
    BY <1>0, <2>2, <2>6, <2>7 DEF Pipeline!SceneRecordedAtJoin
  <2>9. Pipeline!TypeOK'
    <3>1. applied' \in Nat /\ pending' \in Seq(Pipeline!Action)
      BY <1>0, <2>1, <2>2, EmptySeq DEF Pipeline!TypeOK
    <3>2. stale' \subseteq Pipeline!Registered'
      BY <1>0, <2>2, <2>7 DEF Pipeline!TypeOK
    <3> QED
      BY <1>0, <2>2, <2>6, <3>1, <3>2 DEF Pipeline!TypeOK
  <2> QED
    BY <1>0, <2>2, <2>3, <2>8, <2>9 DEF PipelineInv, MetricsFollow, Pipeline!MetricMatchesRegistry
<1>5. CASE UNCHANGED eventVars
  BY <1>5 DEF eventVars, PipelineInv, MetricsFollow, Pipeline!TypeOK, Pipeline!Registered,
     Pipeline!MetricMatchesRegistry, Pipeline!ExecutedActionsCounted, Pipeline!SceneRecordedAtJoin
<1> QED
  BY <1>1, <1>2, <1>3, <1>4, <1>5 DEF Pipeline!Next

---------------------------------------------------------------------------
(* ChatFilter                                                              *)

\* The timestamps kept are the last of the messages that passed; the ones
\* before them have expired, and none is younger than one after it.
Aged(ts) == now - ts >= 6 * Ticks
ChatInv ==
  /\ Chat!TypeOK /\ Chat!RateHolds
  /\ Len(timestamps) <= Len(counted)
  /\ \A i \in 1..Len(timestamps) : timestamps[i] = counted[Len(counted) - Len(timestamps) + i]
  /\ \A i, j \in 1..Len(counted) : i <= j => counted[i] <= counted[j]
  /\ \A i \in 1..(Len(counted) - Len(timestamps)) : Aged(counted[i])

\* What is assumed of the constants of the filter.
LEMMA ChatConstants == Ticks \in Nat \ {0} /\ ChatTime \in Nat
BY ChatAssumption DEF Chat!TimeAssumption

\* Six seconds are a whole number of ticks.
LEMMA SixWhole ==
  ASSUME NEW w \in Nat \ {0}, NEW x \in Nat
  PROVE  x \div w > 5 <=> x >= 6 * w
OBVIOUS

\* Truncated to whole seconds, an age is over five from six seconds on.
LEMMA ExpiredIs ==
  ASSUME NEW ts \in Int, now \in Int, ts <= now
  PROVE  Chat!Expired(ts) <=> Aged(ts)
<1>1. PICK x \in Nat : x = now - ts
  OBVIOUS
<1>2. x \div Ticks > 5 <=> x >= 6 * Ticks
  BY SixWhole, ChatConstants
<1> QED
  BY <1>1, <1>2 DEF Chat!Expired, Chat!Window, Aged

\* One recursive function satisfies the equation of KeptOf.
KeptEq(k) == k = [i \in 0..Len(timestamps) |->
                    IF i = 0 THEN <<>>
                    ELSE IF Chat!Expired(timestamps[i]) THEN k[i - 1]
                         ELSE Append(k[i - 1], timestamps[i])]

\* The recursive function solves its equation when anything does.
LEMMA KeptSolves == ASSUME NEW h, KeptEq(h) PROVE KeptEq(Chat!KeptOf)
<1>1. KeptEq(CHOOSE k : KeptEq(k))
  BY Zenon
<1> QED
  BY <1>1 DEF KeptEq, Chat!KeptOf

\* Two solutions would differ first at a smallest position.
LEMMA KeptUnique ==
  ASSUME Len(timestamps) \in Nat, NEW h, KeptEq(h), NEW k, KeptEq(k)
  PROVE  \A i \in 0..Len(timestamps) : h[i] = k[i]
<1> DEFINE T == {i \in 0..Len(timestamps) : h[i] # k[i]}
<1> SUFFICES ASSUME T # {} PROVE FALSE
  OBVIOUS
<1>0. T \subseteq Nat
  OBVIOUS
<1>1. PICK n \in T : \A m \in T : n <= m
  BY <1>0, Smallest
<1>2. n # 0
  BY DEF KeptEq
<1>3. n - 1 \in 0..Len(timestamps) /\ h[n - 1] = k[n - 1]
  BY <1>1, <1>2
<1> QED
  BY <1>2, <1>3 DEF KeptEq

\* A part of a sequence grows by its next element.
LEMMA AppendPart ==
  ASSUME NEW S, NEW s \in Seq(S), NEW g \in 0..Len(s), NEW i \in (g + 1)..Len(s)
  PROVE  /\ Append([j \in 1..(i - 1 - g) |-> s[g + j]], s[i]) = [j \in 1..(i - g) |-> s[g + j]]
         /\ i = g + 1 => [j \in 1..(i - 1 - g) |-> s[g + j]] = <<>>
<1>1. Len(s) \in Nat /\ \A k \in 1..Len(s) : s[k] \in S
  BY LenProperties, ElementOfSeq
<1> DEFINE f == [j \in 1..(i - 1 - g) |-> s[g + j]]
           h == [j \in 1..(i - g) |-> s[g + j]]
<1>2. PICK m \in Nat : m = i - 1 - g
  BY <1>1
<1>3. f = [j \in 1..m |-> s[g + j]] /\ \A j \in 1..m : s[g + j] \in S
  BY <1>1, <1>2
<1>4. f \in Seq(S) /\ Len(f) = m
  BY <1>3
<1>4a. m = 0 => f = <<>>
  BY <1>4, EmptySeq
<1>5. h = [j \in 1..(m + 1) |-> s[g + j]] /\ s[i] \in S
  BY <1>1, <1>2
<1> HIDE DEF f, h
<1>6. /\ Append(f, s[i]) \in Seq(S) /\ Len(Append(f, s[i])) = m + 1 
      /\ \A j \in 1..m : Append(f, s[i])[j] = f[j]
      /\ Append(f, s[i])[m + 1] = s[i]
  BY <1>4, <1>5, AppendProperties
<1>7. DOMAIN Append(f, s[i]) = 1..(m + 1)
  BY <1>6, LenProperties
<1>8. \A j \in 1..(m + 1) : Append(f, s[i])[j] = s[g + j]
  BY <1>2, <1>3, <1>6
<1>9. Append(f, s[i]) = h
  BY <1>5, <1>6, <1>7, <1>8
<1> QED
  BY <1>2, <1>4a, <1>9 DEF f, h

\* With the oldest first, the expired ones come first and the rest are kept.
LEMMA KeptIs ==
  ASSUME ChatInv
  PROVE  \E g \in 0..Len(timestamps) :
           /\ \A i \in 1..g : Aged(timestamps[i])
           /\ \A i \in (g + 1)..Len(timestamps) : ~Aged(timestamps[i])
           /\ Chat!Kept \in Seq(0..now) /\ Len(Chat!Kept) = Len(timestamps) - g
           /\ \A i \in 1..Len(Chat!Kept) : Chat!Kept[i] = timestamps[g + i]
<1>0. PICK n \in Nat : n = Len(timestamps)
  BY LenProperties DEF ChatInv, Chat!TypeOK
<1>1. /\ timestamps \in Seq(0..now) /\ n = Len(timestamps) /\ DOMAIN timestamps = 1..n /\ now \in Int
      /\ \A i \in 1..n : timestamps[i] \in 0..now
  BY <1>0, LenProperties, ElementOfSeq DEF ChatInv, Chat!TypeOK
<1>2. \A i, j \in 1..n : i <= j => timestamps[i] <= timestamps[j]
  <2>1. counted \in Seq(0..now) /\ Len(counted) \in Nat
    BY LenProperties DEF ChatInv, Chat!TypeOK
  <2> TAKE i, j \in 1..n
  <2> HAVE i <= j
  <2> DEFINE a == Len(counted) - n + i
             b == Len(counted) - n + j
  <2>1a. Len(timestamps) <= Len(counted)
    BY DEF ChatInv
  <2>2. a \in 1..Len(counted) /\ b \in 1..Len(counted) /\ a <= b
    BY <1>0, <2>1, <2>1a
  <2>3. timestamps[i] = counted[a] /\ timestamps[j] = counted[b]
    BY <1>1 DEF ChatInv
  <2> HIDE DEF a, b
  <2> QED
    BY <2>2, <2>3 DEF ChatInv
<1>3. \A i \in 1..n : Chat!Expired(timestamps[i]) <=> Aged(timestamps[i])
  BY <1>1, ExpiredIs
<1>4. PICK g \in 0..n : /\ \A i \in 1..g : Aged(timestamps[i])
                        /\ \A i \in (g + 1)..n : ~Aged(timestamps[i])
  <2> DEFINE T == {i \in 1..n : ~Aged(timestamps[i])}
  <2>1. CASE T = {}
    <3>1. n \in 0..n /\ \A i \in 1..n : Aged(timestamps[i])
      BY <1>1, <2>1
    <3> QED
      BY <1>1, <3>1
  <2>2. CASE T # {}
    <3>0. T \subseteq Nat
      BY <1>1
    <3>1. PICK m \in T : \A k \in T : m <= k
      BY <2>2, <3>0, Smallest
    <3>2. m - 1 \in 0..n /\ \A i \in 1..(m - 1) : Aged(timestamps[i])
      BY <1>1, <3>1
    <3>3. ASSUME NEW i \in m..n PROVE ~Aged(timestamps[i])
      <4>1. timestamps[m] <= timestamps[i] /\ ~Aged(timestamps[m]) /\ timestamps[m] \in Int
            /\ timestamps[i] \in Int
        BY <1>1, <1>2, <3>1
      <4> QED
        BY <4>1, <1>1, ChatConstants DEF Aged
    <3>4. PICK k \in 0..n : k = m - 1
      BY <3>2
    <3>5. \A i \in 1..k : Aged(timestamps[i])
      BY <3>2, <3>4
    <3>6. k + 1 = m
      BY <1>1, <3>1, <3>4
    <3>7. \A i \in (k + 1)..n : ~Aged(timestamps[i])
      BY <3>3, <3>6
    <3> QED
      BY <3>5, <3>7
  <2> QED
    BY <2>1, <2>2
<1> DEFINE Part(i) == [j \in 1..(i - g) |-> timestamps[g + j]]
           h == [i \in 0..n |-> IF i <= g THEN <<>> ELSE Part(i)]
<1>5. KeptEq(h)
  <2>1. ASSUME NEW i \in 0..n
        PROVE  h[i] = IF i = 0 THEN <<>>
                      ELSE IF Chat!Expired(timestamps[i]) THEN h[i - 1]
                           ELSE Append(h[i - 1], timestamps[i])
    <3>1. CASE i = 0
      BY <3>1, <1>1
    <3>2. CASE i \in 1..g
      BY <3>2, <1>1, <1>3, <1>4
    <3>3. CASE i \in (g + 1)..n
      <4>1. ~Chat!Expired(timestamps[i]) /\ i # 0 /\ i - 1 \in 0..n /\ h[i] = Part(i)
        BY <3>3, <1>1, <1>3, <1>4
      <4>2. Append(Part(i - 1), timestamps[i]) = Part(i) /\ (i = g + 1 => Part(i - 1) = <<>>)
        BY <3>3, <1>1, AppendPart
      <4> HIDE DEF Part
      <4>3. h[i - 1] = Part(i - 1)
        BY <4>1, <4>2, <3>3, <1>1
      <4> QED
        BY <4>1, <4>2, <4>3
    <3> QED
      BY <3>1, <3>2, <3>3, <1>1
  <2> QED
    BY <1>1, <2>1 DEF KeptEq
<1>6. Chat!Kept = Chat!KeptOf[n] /\ n \in 0..n
  BY <1>1 DEF Chat!Kept
<1>7. Chat!Kept = h[n]
  <2> HIDE DEF h
  <2>1. KeptEq(Chat!KeptOf)
    BY <1>5, KeptSolves
  <2> QED
    BY <1>1, <1>5, <1>6, <2>1, KeptUnique
<1>8. Chat!Kept = IF n <= g THEN <<>> ELSE Part(n)
  BY <1>1, <1>7
<1>9. CASE g = n
  BY <1>1, <1>4, <1>8, <1>9, EmptySeq
<1>10. CASE g < n
  <2>0. n - g \in Nat
    OBVIOUS
  <2>1. PICK m \in Nat : m = n - g
    BY <2>0
  <2>2. Part(n) = [j \in 1..m |-> timestamps[g + j]] /\ \A j \in 1..m : timestamps[g + j] \in 0..now
    BY <1>1, <2>1
  <2> HIDE DEF Part
  <2>3. Part(n) \in Seq(0..now) /\ Len(Part(n)) = m /\ \A i \in 1..m : Part(n)[i] = timestamps[g + i]
    BY <2>2
  <2>4. Chat!Kept = Part(n)
    BY <1>8, <1>10
  <2>5. /\ Chat!Kept \in Seq(0..now) /\ Len(Chat!Kept) = n - g
        /\ \A i \in 1..Len(Chat!Kept) : Chat!Kept[i] = timestamps[g + i]
    BY <2>1, <2>3, <2>4
  <2> QED
    BY <1>1, <1>4, <2>5
<1> QED
  BY <1>1, <1>9, <1>10

\* What the invariant says at the door: the limit is reached only by five
\* messages that passed less than six seconds ago.
LEMMA ChatHolds == ChatInv => ChatRate
<1> SUFFICES ASSUME ChatInv, Chat!Full
             PROVE  Len(counted) >= 5 /\ now - counted[Len(counted) - 4] < 6 * Ticks
  BY DEF ChatInv, ChatRate, Chat!RefusalsDoNotCount, Chat!Limit, Chat!Window
<1>1. PICK g \in 0..Len(timestamps) :
        /\ \A i \in (g + 1)..Len(timestamps) : ~Aged(timestamps[i])
        /\ Len(Chat!Kept) = Len(timestamps) - g
  BY KeptIs
<1>2. Len(Chat!Kept) >= 5
  BY DEF Chat!Full, Chat!Limit
<1>3. /\ Len(timestamps) \in Nat /\ Len(counted) \in Nat /\ Len(timestamps) <= Len(counted)
      /\ Len(timestamps) <= 5 /\ now \in Int
      /\ \A i \in 1..Len(counted) : counted[i] \in 0..now
  BY LenProperties, ElementOfSeq DEF ChatInv, Chat!TypeOK, Chat!Limit
<1>4. g = 0 /\ Len(timestamps) = 5
  BY <1>1, <1>2, <1>3
<1>5. timestamps[1] = counted[Len(counted) - 4] /\ ~Aged(timestamps[1])
  <2>1. timestamps[1] = counted[Len(counted) - 5 + 1]
    BY <1>3, <1>4 DEF ChatInv
  <2>2. Len(counted) - 5 + 1 = Len(counted) - 4
    BY <1>3
  <2> QED
    BY <1>1, <1>4, <2>1, <2>2
<1>6. counted[Len(counted) - 4] \in 0..now
  BY <1>3, <1>4
<1> QED
  BY <1>3, <1>4, <1>5, <1>6, ChatConstants DEF Aged

\* At first no message has been sent.
LEMMA ChatInit == Chat!Init => ChatInv
<1> SUFFICES ASSUME Chat!Init PROVE ChatInv
  OBVIOUS
<1>1. now = 0 /\ timestamps = <<>> /\ checked = 0 /\ counted = <<>> /\ Len(<<>>) = 0
      /\ <<>> \in Seq(0..now)
  BY EmptySeq DEF Chat!Init
<1>2. Chat!TypeOK
  BY <1>1, ChatConstants DEF Chat!TypeOK, Chat!Limit
<1>3. Chat!RateHolds
  BY <1>1 DEF Chat!RateHolds, Chat!Limit
<1> QED
  BY <1>1, <1>2, <1>3 DEF ChatInv

\* The history keeps the last six messages.
LEMMA RememberIs ==
  ASSUME NEW S, NEW s \in Seq(S), NEW n \in 0..7, n = Len(s)
  PROVE  /\ Chat!Remember(s) \in Seq(S)
         /\ n = 7 => Len(Chat!Remember(s)) = n - 1 /\ \A i \in 1..(n - 1) : Chat!Remember(s)[i] = s[1 + i]
         /\ n # 7 => Chat!Remember(s) = s
<1>1. CASE n = 7
  <2>0. Len(<<>>) = 0 /\ n # 0
    BY <1>1, EmptySeq
  <2>1. s # <<>>
    BY <2>0
  <2>2. Chat!Remember(s) = Tail(s)
    BY <1>1 DEF Chat!Remember, Chat!Limit
  <2>3. PICK m \in Nat : /\ m = Len(Tail(s)) /\ m = n - 1 /\ Tail(s) \in Seq(S)
                         /\ \A i \in 1..m : Tail(s)[i] = s[i + 1]
    BY <2>1, HeadTailProperties, LenProperties
  <2>4. Len(Tail(s)) = n - 1 /\ \A i \in 1..(n - 1) : Tail(s)[i] = s[1 + i]
    BY <2>3
  <2> QED
    BY <1>1, <2>2, <2>3, <2>4
<1>2. CASE n # 7
  <2>1. Chat!Remember(s) = s
    BY <1>2 DEF Chat!Remember, Chat!Limit
  <2> QED
    BY <1>2, <2>1
<1> QED
  BY <1>1, <1>2

\* What both outcomes of a call have in common.
LEMMA CallIs ==
  ASSUME ChatInv
  PROVE  \E L \in 0..6, n \in 0..5, g \in 0..5, k \in 0..5 :
           /\ L = Len(counted) /\ n = Len(timestamps) /\ k = Len(Chat!Kept) /\ k = n - g /\ n <= L
           /\ Chat!Kept \in Seq(0..now)
           /\ \A i \in 1..k : Chat!Kept[i] = counted[L - k + i]
           /\ \A j \in 1..(L - k) : Aged(counted[j])
<1>1. PICK L \in 0..6, n \in 0..5 : L = Len(counted) /\ n = Len(timestamps) /\ n <= L
  <2>1. PICK L \in Nat, n \in Nat : L = Len(counted) /\ n = Len(timestamps)
    BY LenProperties DEF ChatInv, Chat!TypeOK
  <2>2. L <= 6 /\ n <= 5 /\ n <= L
    BY <2>1 DEF ChatInv, Chat!TypeOK, Chat!Limit
  <2>3. L \in 0..6 /\ n \in 0..5
    BY <2>2
  <2> QED
    BY <2>1, <2>2, <2>3
<1>2. PICK g \in 0..n :
           /\ \A i \in 1..g : Aged(timestamps[i])
           /\ Chat!Kept \in Seq(0..now) /\ Len(Chat!Kept) = n - g
           /\ \A i \in 1..Len(Chat!Kept) : Chat!Kept[i] = timestamps[g + i]
  BY <1>1, KeptIs
<1>3. PICK k \in 0..5 : k = Len(Chat!Kept) /\ k = n - g
  BY <1>2
<1>4. \A i \in 1..n : timestamps[i] = counted[L - n + i]
  BY <1>1 DEF ChatInv
<1>5. ASSUME NEW i \in 1..k PROVE Chat!Kept[i] = counted[L - k + i]
  <2>1. Chat!Kept[i] = timestamps[g + i]
    BY <1>2, <1>3
  <2>2. g + i \in 1..n /\ L - n + (g + i) = L - k + i
    BY <1>1, <1>2, <1>3
  <2> QED
    BY <1>4, <2>1, <2>2
<1>6. ASSUME NEW j \in 1..(L - k) PROVE Aged(counted[j])
  <2>1. CASE j <= L - n
    <3>1. j \in 1..(L - n)
      BY <2>1, <1>1
    <3> QED
      BY <1>1, <3>1 DEF ChatInv
  <2>2. CASE j > L - n
    <3>1. PICK i \in 1..g : L - n + i = j
      <4>1. j - (L - n) \in 1..g /\ L - n + (j - (L - n)) = j
        BY <2>2, <1>1, <1>2, <1>3
      <4> QED
        BY <4>1
    <3>2. i \in 1..n
      BY <1>2, <3>1
    <3> QED
      BY <1>2, <1>4, <3>1, <3>2
  <2> QED
    BY <2>1, <2>2, <1>1
<1>7. g \in 0..5
  OBVIOUS
<1>8. /\ L = Len(counted) /\ n = Len(timestamps) /\ k = Len(Chat!Kept) /\ k = n - g /\ n <= L
      /\ Chat!Kept \in Seq(0..now)
  BY <1>1, <1>2, <1>3
<1> QED
  BY <1>5, <1>6, <1>7, <1>8

\* A call that passes adds its own time behind what is kept; a refused one
\* adds nothing; time only ages them.
LEMMA ChatNext == ChatInv /\ [Chat!Next]_chatVars => ChatInv'
<1> SUFFICES ASSUME ChatInv, [Chat!Next]_chatVars PROVE ChatInv'
  OBVIOUS
<1> USE ChatConstants
<1>0. PICK L \in 0..6, n \in 0..5, g \in 0..5, k \in 0..5 :
           /\ L = Len(counted) /\ n = Len(timestamps) /\ k = Len(Chat!Kept) /\ k = n - g /\ n <= L
           /\ Chat!Kept \in Seq(0..now)
           /\ \A i \in 1..k : Chat!Kept[i] = counted[L - k + i]
           /\ \A j \in 1..(L - k) : Aged(counted[j])
  BY CallIs
<1>a. k = n - g /\ n <= L /\ k <= L
  BY <1>0
<1>0a. /\ timestamps \in Seq(0..now) /\ counted \in Seq(0..now) /\ now \in 0..ChatTime
       /\ checked \in 0..now /\ \A i \in 1..L : counted[i] \in 0..now
  BY <1>0, ElementOfSeq DEF ChatInv, Chat!TypeOK
<1>0b. \A i \in 1..n : timestamps[i] = counted[L - n + i]
  BY <1>0 DEF ChatInv
<1>0c. \A i, j \in 1..L : i <= j => counted[i] <= counted[j]
  BY <1>0 DEF ChatInv
<1>1. ASSUME Chat!Tick PROVE ChatInv'
  <2>1. now' = now + 1 /\ now < ChatTime /\ UNCHANGED <<timestamps, checked, counted>>
    BY <1>1 DEF Chat!Tick
  <2>2. 0..now \subseteq 0..now'
    BY <1>0a, <2>1
  <2>3. timestamps' \in Seq(0..now') /\ counted' \in Seq(0..now')
    BY <1>0a, <2>1, <2>2, SeqMonotonic
  <2>4. Chat!TypeOK'
    BY <1>0, <1>0a, <2>1, <2>3 DEF ChatInv, Chat!TypeOK
  <2>5. \A i \in 1..(L - n) : Aged(counted[i])'
    <3>1. ASSUME NEW i \in 1..(L - n) PROVE Aged(counted[i])'
      <4>1. Aged(counted[i]) /\ counted[i] \in Int
        BY <1>0, <1>0a DEF ChatInv
      <4> QED
        BY <4>1, <2>1, <1>0a DEF Aged
    <3> QED
      BY <3>1
  <2> QED
    BY <1>0, <2>1, <2>4, <2>5 DEF ChatInv, Chat!RateHolds
<1>2. ASSUME Chat!IsSpamByRate PROVE ChatInv'
  <2>1. timestamps' = Chat!Kept /\ checked' = now /\ UNCHANGED <<now, counted>>
    BY <1>2 DEF Chat!IsSpamByRate
  <2>2. Chat!TypeOK'
    <3>1. Len(timestamps') = k
      BY <1>0, <2>1
    <3>1a. Len(timestamps') <= 5
      BY <3>1
    <3>2. timestamps' \in Seq(0..now') /\ counted' \in Seq(0..now') /\ checked' \in 0..now'
      BY <1>0, <1>0a, <2>1
    <3>3. now' \in 0..ChatTime /\ Len(counted') <= 6
      BY <1>0, <1>0a, <2>1 DEF ChatInv, Chat!TypeOK, Chat!Limit
    <3> QED
      BY <3>1a, <3>2, <3>3 DEF Chat!TypeOK, Chat!Limit
  <2> QED
    BY <1>0, <1>a, <2>1, <2>2 DEF ChatInv, Chat!RateHolds, Aged
<1>3. ASSUME Chat!IsSpamByPatternOrNot PROVE ChatInv'
  <2> DEFINE c == Append(counted, now)
  <2>1. /\ timestamps' = Append(Chat!Kept, now) /\ checked' = now /\ now' = now
        /\ counted' = Chat!Remember(c)
    BY <1>3 DEF Chat!IsSpamByPatternOrNot
  <2>2. k <= 4
    BY <1>0, <1>3 DEF Chat!IsSpamByPatternOrNot, Chat!Full, Chat!Limit
  <2>3. PICK m \in 0..7 : /\ m = L + 1 /\ m = Len(c) /\ c \in Seq(0..now)
                          /\ \A i \in 1..L : c[i] = counted[i]
                          /\ c[m] = now
    <3>1. now \in 0..now
      BY <1>0a
    <3>2. PICK m \in 0..7 : m = L + 1
      OBVIOUS
    <3>3. /\ c \in Seq(0..now) /\ Len(c) = m /\ \A i \in 1..L : c[i] = counted[i]
          /\ c[m] = now
      BY <1>0, <1>0a, <3>1, <3>2, AppendProperties
    <3> QED
      BY <3>2, <3>3
  <2> HIDE DEF c
  <2>4. PICK d \in {0, 1} : /\ d = IF m = 7 THEN 1 ELSE 0
                            /\ counted' \in Seq(0..now) /\ Len(counted') = m - d
                            /\ \A i \in 1..(m - d) : counted'[i] = c[d + i]
    <3>0. PICK S, r : S = 0..now /\ r = c
      OBVIOUS
    <3>1. r \in Seq(S) /\ m = Len(r)
      BY <2>3, <3>0
    <3>2. /\ Chat!Remember(r) \in Seq(S)
          /\ m = 7 => Len(Chat!Remember(r)) = m - 1 /\ \A i \in 1..(m - 1) : Chat!Remember(r)[i] = r[1 + i]
          /\ m # 7 => Chat!Remember(r) = r
      BY <3>1, RememberIs
    <3>3. CASE m = 7
      <4>1. /\ counted' \in Seq(0..now) /\ Len(counted') = m - 1
            /\ \A i \in 1..(m - 1) : counted'[i] = c[1 + i]
        BY <2>1, <3>0, <3>2, <3>3
      <4> QED
        BY <3>3, <4>1
    <3>4. CASE m # 7
      BY <2>1, <2>3, <3>0, <3>2, <3>4
    <3> QED
      BY <3>3, <3>4
  <2>5. /\ timestamps' \in Seq(0..now) /\ Len(timestamps') = k + 1
        /\ \A i \in 1..k : timestamps'[i] = Chat!Kept[i]
        /\ timestamps'[k + 1] = now
    <3>1. now \in 0..now
      BY <1>0a
    <3>2. Chat!Kept \in Seq(0..now) /\ Len(Chat!Kept) = k
      BY <1>0
    <3> QED
      BY <3>1, <3>2, <2>1, AppendProperties
  <2>6a. m = L + 1 /\ d = IF m = 7 THEN 1 ELSE 0
    BY <2>3, <2>4
  <2>6b. m - d \in 1..6 /\ k + 1 <= m - d
    BY <2>2, <2>6a, <1>a
  <2>6. PICK M \in 1..6 : M = m - d /\ M = Len(counted') /\ k + 1 <= M
    BY <2>4, <2>6b
  <2>6c. M = m - d
    BY <2>6
  <2>7. Chat!TypeOK'
    <3>1. Len(timestamps') <= 5
      BY <2>2, <2>5
    <3>2. Len(counted') <= 6
      BY <2>6
    <3> QED
      BY <1>0a, <2>1, <2>4, <2>5, <3>1, <3>2 DEF Chat!TypeOK, Chat!Limit
  <2>8. \A i \in 1..(k + 1) : timestamps'[i] = counted'[M - (k + 1) + i]
    <3> SUFFICES ASSUME NEW i \in 1..(k + 1) PROVE timestamps'[i] = counted'[M - (k + 1) + i]
      OBVIOUS
    <3>1. M - (k + 1) + i \in 1..(m - d) /\ d + (M - (k + 1) + i) = L - k + i
      BY <2>2, <2>6a, <2>6b, <2>6c
    <3>2. counted'[M - (k + 1) + i] = c[L - k + i]
      BY <2>4, <3>1
    <3>3. CASE i = k + 1
      BY <3>2, <3>3, <2>3, <2>5, <1>0
    <3>4. CASE i \in 1..k
      <4>1. L - k + i \in 1..L
        BY <1>a, <3>4
      <4> QED
        BY <3>2, <3>4, <4>1, <2>3, <2>5, <1>0
    <3> QED
      BY <3>3, <3>4
  <2>9. \A i, j \in 1..M : i <= j => counted'[i] <= counted'[j]
    <3> SUFFICES ASSUME NEW i \in 1..M, NEW j \in 1..M, i <= j PROVE counted'[i] <= counted'[j]
      OBVIOUS
    <3>0. d + i \in 1..m /\ d + j \in 1..m /\ d + i <= d + j
      BY <2>6c
    <3>1. counted'[i] = c[d + i] /\ counted'[j] = c[d + j]
      BY <2>4, <2>6c
    <3>2. CASE d + j = m
      <4>1. c[d + i] \in 0..now
        BY <2>3, <3>0, <1>0a, ElementOfSeq
      <4> QED
        BY <3>1, <3>2, <4>1, <2>3, <1>0a
    <3>3. CASE d + j # m
      <4>1. d + j \in 1..L /\ d + i \in 1..L
        BY <3>0, <3>3, <2>6a
      <4> QED
        BY <3>0, <3>1, <4>1, <2>3, <1>0c
    <3> QED
      BY <3>2, <3>3
  <2>10. \A i \in 1..(M - (k + 1)) : Aged(counted[i])'
    <3> SUFFICES ASSUME NEW i \in 1..(M - (k + 1)) PROVE Aged(counted[i])'
      OBVIOUS
    <3>0. d + i \in 1..(L - k) /\ d + i \in 1..L /\ i \in 1..(m - d)
      BY <2>6a, <2>6b, <2>6c
    <3>1. counted'[i] = c[d + i]
      BY <3>0, <2>4
    <3>2. Aged(counted[d + i]) /\ counted'[i] = counted[d + i]
      BY <3>0, <3>1, <1>0, <2>3
    <3> QED
      BY <3>2, <2>1 DEF Aged
  <2>11. Chat!RateHolds'
    <3> SUFFICES ASSUME M = 6 PROVE counted'[6] - counted'[1] >= 6 * Ticks
      BY <2>6 DEF Chat!RateHolds, Chat!Limit, Chat!Window, Chat!Last
    <3>1. counted'[6] = now
      BY <2>3, <2>4, <2>6
    <3>2. d + 1 \in 1..(L - k) /\ d + 1 \in 1..L /\ 1 \in 1..(m - d)
      BY <2>2, <2>6a, <2>6b, <2>6c
    <3>2a. counted'[1] = c[d + 1]
      BY <3>2, <2>4
    <3>3. Aged(counted[d + 1]) /\ counted'[1] = counted[d + 1]
      BY <3>2, <3>2a, <1>0, <2>3
    <3> QED
      BY <3>1, <3>3 DEF Aged
  <2> QED
    BY <2>5, <2>6, <2>7, <2>8, <2>9, <2>10, <2>11 DEF ChatInv
<1>4. CASE UNCHANGED chatVars
  BY <1>4 DEF chatVars, ChatInv, Chat!TypeOK, Chat!RateHolds, Aged
<1> QED
  BY <1>1, <1>2, <1>3, <1>4 DEF Chat!Next

---------------------------------------------------------------------------
(* BanManager                                                              *)

\* What is known of one player: how the entry in the list, if there is one,
\* compares with the time that the last call promised.
BanOf(p) ==
  IF p \notin DOMAIN bans THEN owed[p] <= hours
  ELSE IF bans[p].permanent THEN owed[p] = BanTime + 1
  ELSE /\ ~over[p] /\ ~ahead[p] => bans[p].expires >= owed[p] + shift
       /\ ~back[p] => bans[p].expires <= owed[p] + shift
BanInv ==
  /\ Ban!TypeOK
  /\ owed \in [Banned -> Int] /\ over \in [Banned -> BOOLEAN]
  /\ ahead \in [Banned -> BOOLEAN] /\ back \in [Banned -> BOOLEAN]
  /\ \A p \in Banned : BanOf(p)

\* What is assumed of the constants of the bans.
LEMMA BanConstants ==
  /\ BanTime \in Nat /\ Largest \in Nat /\ Hours \subseteq Nat /\ Shifts \cup {0} \subseteq Int
  /\ \A s \in Shifts \cup {0}, t \in 0..BanTime : t + s \in (-Largest - 1)..Largest
BY BansAssumption DEF Ban!BanAssumption

\* A time point that fits is itself; one that is too large becomes smaller.
LEMMA BanWraps ==
  ASSUME NEW n \in Int, n >= -Largest - 1
  PROVE  /\ Ban!Wrapped(n) \in (-Largest - 1)..Largest
         /\ n <= Largest => Ban!Wrapped(n) = n
         /\ Ban!Wrapped(n) <= n
<1>0. Largest \in Nat
  BY BanConstants
<1>1. PICK w \in Nat \ {0}, x \in Nat : w = 2 * Largest + 2 /\ x = n + Largest + 1
  BY <1>0
<1>2. x % w \in 0..(w - 1) /\ (x < w => x % w = x) /\ x % w <= x
  OBVIOUS
<1>3. Ban!Wrapped(n) = (x % w) - (Largest + 1)
  BY <1>1 DEF Ban!Wrapped
<1> QED
  BY <1>0, <1>1, <1>2, <1>3

\* What is known of each player gives what the run checks of them.
LEMMA BanHolds == BanInv => BansLast
<1> SUFFICES ASSUME BanInv PROVE BansLast
  OBVIOUS
<1>1. Ban!ListAgrees
  BY DEF Ban!ListAgrees, Ban!GetActiveBans, Ban!Active, Ban!IsBanned
<1>2. hours \in 0..BanTime /\ shift \in Int
  BY BanConstants DEF BanInv, Ban!TypeOK
<1>3. ASSUME NEW p \in Banned
      PROVE  /\ ~Ban!IsBanned(p) /\ hours < owed[p] => over[p] \/ ahead[p]
             /\ Ban!IsBanned(p) /\ hours >= owed[p] => back[p]
  <2>1. BanOf(p) /\ owed[p] \in Int
    BY DEF BanInv
  <2>2. CASE p \notin DOMAIN bans
    BY <1>2, <2>1, <2>2 DEF BanOf, Ban!IsBanned
  <2>3. CASE p \in DOMAIN bans
    <3>1. bans[p].expires \in Int /\ bans[p].permanent \in BOOLEAN
      BY <2>3 DEF BanInv, Ban!TypeOK, Ban!Entry
    <3>2. CASE bans[p].permanent
      <4>1. owed[p] = BanTime + 1 /\ Ban!IsBanned(p)
        BY <2>1, <2>3, <3>2 DEF BanOf, Ban!IsBanned
      <4> QED
        BY <1>2, <4>1, BanConstants
    <3>3. CASE ~bans[p].permanent
      <4>1. /\ ~over[p] /\ ~ahead[p] => bans[p].expires >= owed[p] + shift
            /\ ~back[p] => bans[p].expires <= owed[p] + shift
        BY <2>1, <2>3, <3>3 DEF BanOf
      <4>2. Ban!IsBanned(p) <=> hours + shift < bans[p].expires
        BY <2>3, <3>3 DEF Ban!IsBanned, Ban!Now
      <4>3. hours + shift < bans[p].expires /\ bans[p].expires <= owed[p] + shift => hours < owed[p]
        BY <1>2, <2>1, <3>1
      <4>4. hours < owed[p] /\ bans[p].expires >= owed[p] + shift => hours + shift < bans[p].expires
        BY <1>2, <2>1, <3>1
      <4>5. ~(hours < owed[p]) <=> hours >= owed[p]
        BY <1>2, <2>1
      <4> QED
        BY <4>1, <4>2, <4>3, <4>4, <4>5, Zenon
    <3> QED
      BY <3>2, <3>3
  <2> QED
    BY <2>2, <2>3
<1> QED
  BY <1>1, <1>3 DEF BansLast, BanInv, Ban!FreedEarly, Ban!KeptLong

\* At first nobody is banned and nobody is owed a ban.
LEMMA BanInit == Ban!Init => BanInv
<1> SUFFICES ASSUME Ban!Init PROVE BanInv
  OBVIOUS
<1>1. DOMAIN bans = {} /\ hours = 0 /\ shift = 0 /\ owed = [p \in Banned |-> 0]
  BY DEF Ban!Init
<1>2. over \in [Banned -> BOOLEAN] /\ ahead \in [Banned -> BOOLEAN] /\ back \in [Banned -> BOOLEAN]
  BY DEF Ban!Init
<1>3. Ban!TypeOK
  BY <1>1, BanConstants DEF Ban!TypeOK
<1>4. \A p \in Banned : BanOf(p)
  BY <1>1 DEF BanOf
<1> QED
  BY <1>1, <1>2, <1>3, <1>4 DEF BanInv

\* A call about one player leaves the entries of the others alone.
LEMMA BanOthers ==
  ASSUME BanInv, NEW p \in Banned, NEW until \in Int, NEW wraps \in BOOLEAN,
         Ban!Called(p, until, wraps),
         \A q \in Banned \ {p} : /\ q \in DOMAIN bans' <=> q \in DOMAIN bans
                                 /\ q \in DOMAIN bans => bans'[q] = bans[q]
  PROVE  /\ owed' \in [Banned -> Int] /\ over' \in [Banned -> BOOLEAN]
         /\ ahead' \in [Banned -> BOOLEAN] /\ back' \in [Banned -> BOOLEAN]
         /\ owed'[p] = until /\ over'[p] = wraps /\ ~ahead'[p] /\ ~back'[p]
         /\ hours' = hours /\ shift' = shift
         /\ \A q \in Banned \ {p} : BanOf(q)'
<1>1. /\ owed' = [owed EXCEPT ![p] = until] /\ over' = [over EXCEPT ![p] = wraps]
      /\ ahead' = [ahead EXCEPT ![p] = FALSE] /\ back' = [back EXCEPT ![p] = FALSE]
      /\ hours' = hours /\ shift' = shift
  BY DEF Ban!Called
<1>2. owed' \in [Banned -> Int] /\ over' \in [Banned -> BOOLEAN]
      /\ ahead' \in [Banned -> BOOLEAN] /\ back' \in [Banned -> BOOLEAN]
      /\ owed'[p] = until /\ over'[p] = wraps /\ ~ahead'[p] /\ ~back'[p]
  BY <1>1 DEF BanInv
<1>3. ASSUME NEW q \in Banned \ {p} PROVE BanOf(q)'
  <2>1. owed'[q] = owed[q] /\ over'[q] = over[q] /\ ahead'[q] = ahead[q] /\ back'[q] = back[q]
    BY <1>1 DEF BanInv
  <2>2. BanOf(q)
    BY DEF BanInv
  <2> QED
    BY <1>1, <2>1, <2>2 DEF BanOf
<1> QED
  BY <1>1, <1>2, <1>3

\* A ban replaces the entry and the promise together; a pardon, a look at the
\* door and a change of the clock keep them related for everybody.
LEMMA BanNext == BanInv /\ [Ban!Next]_banVars => BanInv'
<1> SUFFICES ASSUME BanInv, [Ban!Next]_banVars PROVE BanInv'
  OBVIOUS
<1>0. /\ hours \in 0..BanTime /\ shift \in Shifts \cup {0} /\ shift \in Int
      /\ hours + shift \in (-Largest - 1)..Largest /\ Largest \in Nat /\ BanTime \in Nat
  BY BanConstants DEF BanInv, Ban!TypeOK
<1>0a. /\ DOMAIN bans \subseteq Banned /\ \A p \in DOMAIN bans : bans[p] \in Ban!Entry
       /\ \A p \in DOMAIN bans : bans[p].expires \in (-Largest - 1)..Largest
  BY DEF BanInv, Ban!TypeOK
\* An entry put under a player.
<1>a. ASSUME NEW p \in Banned, NEW e \in Ban!Entry, e.expires \in (-Largest - 1)..Largest,
             bans' = Ban!With(p, e), UNCHANGED <<hours, shift>>
      PROVE  /\ Ban!TypeOK' /\ p \in DOMAIN bans' /\ bans'[p] = e
             /\ \A q \in Banned \ {p} : /\ q \in DOMAIN bans' <=> q \in DOMAIN bans
                                        /\ q \in DOMAIN bans => bans'[q] = bans[q]
  <2>1. bans' = [q \in DOMAIN bans \cup {p} |-> IF q = p THEN e ELSE bans[q]]
    BY <1>a DEF Ban!With
  <2>2. /\ DOMAIN bans' = DOMAIN bans \cup {p} /\ bans'[p] = e
        /\ \A q \in DOMAIN bans \ {p} : bans'[q] = bans[q]
    BY <2>1
  <2> QED
    BY <1>0, <1>0a, <1>a, <2>2 DEF Ban!TypeOK
<1>1. ASSUME NEW p \in Banned, Ban!Unban(p) PROVE BanInv'
  <2>1. /\ DOMAIN bans' = DOMAIN bans \ {p} /\ \A q \in DOMAIN bans' : bans'[q] = bans[q]
        /\ Ban!Called(p, 0, FALSE)
    BY <1>1 DEF Ban!Unban
  <2>1a. \A q \in Banned \ {p} : /\ q \in DOMAIN bans' <=> q \in DOMAIN bans
                                 /\ q \in DOMAIN bans => bans'[q] = bans[q]
    BY <2>1
  <2>1b. 0 \in Int /\ FALSE \in BOOLEAN
    OBVIOUS
  <2>2. /\ owed' \in [Banned -> Int] /\ over' \in [Banned -> BOOLEAN]
        /\ ahead' \in [Banned -> BOOLEAN] /\ back' \in [Banned -> BOOLEAN]
        /\ owed'[p] = 0 /\ hours' = hours /\ shift' = shift
        /\ \A q \in Banned \ {p} : BanOf(q)'
    BY <2>1, <2>1a, <2>1b, BanOthers, Zenon
  <2>3. BanOf(p)'
    BY <1>0, <2>1, <2>2 DEF BanOf
  <2>4. Ban!TypeOK'
    BY <1>0, <1>0a, <2>1, <2>2 DEF Ban!TypeOK
  <2> QED
    BY <2>2, <2>3, <2>4 DEF BanInv
<1>2. ASSUME NEW p \in Banned, Ban!BanPermanent(p) PROVE BanInv'
  <2> DEFINE e == [expires |-> 0, permanent |-> TRUE]
  <2>1. e \in Ban!Entry /\ e.expires \in (-Largest - 1)..Largest /\ e.permanent
    BY <1>0 DEF Ban!Entry
  <2>2. bans' = Ban!With(p, e) /\ Ban!Called(p, BanTime + 1, FALSE) /\ UNCHANGED <<hours, shift>>
    BY <1>2 DEF Ban!BanPermanent, Ban!Forever, Ban!Called
  <2> HIDE DEF e
  <2>3. /\ Ban!TypeOK' /\ p \in DOMAIN bans' /\ bans'[p] = e
        /\ \A q \in Banned \ {p} : /\ q \in DOMAIN bans' <=> q \in DOMAIN bans
                                   /\ q \in DOMAIN bans => bans'[q] = bans[q]
    BY <1>a, <2>1, <2>2
  <2>3a. BanTime + 1 \in Int /\ FALSE \in BOOLEAN
    BY <1>0
  <2>4. /\ owed' \in [Banned -> Int] /\ over' \in [Banned -> BOOLEAN]
        /\ ahead' \in [Banned -> BOOLEAN] /\ back' \in [Banned -> BOOLEAN]
        /\ owed'[p] = BanTime + 1 /\ hours' = hours /\ shift' = shift
        /\ \A q \in Banned \ {p} : BanOf(q)'
    BY <2>2, <2>3, <2>3a, BanOthers, Zenon
  <2>5. BanOf(p)'
    BY <2>1, <2>3, <2>4 DEF BanOf
  <2> QED
    BY <2>3, <2>4, <2>5 DEF BanInv
<1>3. ASSUME NEW p \in Banned, NEW d \in Hours, Ban!Ban(p, d) PROVE BanInv'
  <2>0. d \in Nat
    BY BanConstants
  <2>1. PICK n \in Int : n = hours + shift + d /\ n >= -Largest - 1 /\ n = (hours + d) + shift
    BY <1>0, <2>0
  <2>2. PICK x \in (-Largest - 1)..Largest : x = Ban!Wrapped(n) /\ x <= n /\ (n <= Largest => x = n)
    BY <2>1, BanWraps
  <2> DEFINE e == [expires |-> x, permanent |-> FALSE]
  <2>3. e \in Ban!Entry /\ e.expires = x /\ e.permanent = FALSE
    BY <1>0, <2>2 DEF Ban!Entry
  <2>4. bans' = Ban!With(p, e) /\ Ban!Called(p, hours + d, n > Largest) /\ UNCHANGED <<hours, shift>>
    BY <1>3, <2>1, <2>2 DEF Ban!Ban, Ban!Temporary, Ban!Now, Ban!Called
  <2> HIDE DEF e
  <2>5. /\ Ban!TypeOK' /\ p \in DOMAIN bans' /\ bans'[p] = e
        /\ \A q \in Banned \ {p} : /\ q \in DOMAIN bans' <=> q \in DOMAIN bans
                                   /\ q \in DOMAIN bans => bans'[q] = bans[q]
    BY <1>a, <2>3, <2>4
  <2>5a. hours + d \in Int /\ (n > Largest) \in BOOLEAN
    BY <1>0, <2>0
  <2>5b. Ban!Called(p, hours + d, n > Largest)
    BY <2>4
  <2>5c. \A q \in Banned \ {p} : /\ q \in DOMAIN bans' <=> q \in DOMAIN bans
                                 /\ q \in DOMAIN bans => bans'[q] = bans[q]
    BY <2>5
  <2>6. /\ owed' \in [Banned -> Int] /\ over' \in [Banned -> BOOLEAN]
        /\ ahead' \in [Banned -> BOOLEAN] /\ back' \in [Banned -> BOOLEAN]
        /\ owed'[p] = hours + d /\ over'[p] = (n > Largest) /\ hours' = hours /\ shift' = shift
        /\ \A q \in Banned \ {p} : BanOf(q)'
    BY <2>5a, <2>5b, <2>5c, BanOthers, ZenonT(30)
  <2>7. BanOf(p)'
    <3>1. bans'[p].expires = x /\ ~bans'[p].permanent /\ owed'[p] + shift' = n
      BY <1>0, <2>0, <2>1, <2>3, <2>5, <2>6
    <3>2. ~over'[p] => x = n
      BY <1>0, <2>2, <2>6
    <3> QED
      BY <2>2, <2>5, <3>1, <3>2 DEF BanOf
  <2> QED
    BY <2>5, <2>6, <2>7 DEF BanInv
<1>4. ASSUME Ban!Hour PROVE BanInv'
  <2>1. hours' = hours + 1 /\ hours < BanTime /\ UNCHANGED <<bans, shift, owed, over, ahead, back>>
    BY <1>4 DEF Ban!Hour
  <2>2. Ban!TypeOK'
    BY <1>0, <1>0a, <2>1 DEF Ban!TypeOK
  <2>3. ASSUME NEW p \in Banned PROVE BanOf(p)'
    <3>1. BanOf(p) /\ owed[p] \in Int
      BY DEF BanInv
    <3>2. owed[p] <= hours => owed[p] <= hours + 1
      BY <1>0, <3>1
    <3> QED
      BY <2>1, <3>1, <3>2 DEF BanOf
  <2> QED
    BY <2>1, <2>2, <2>3 DEF BanInv
<1>5. ASSUME NEW s \in Shifts, Ban!SetClock(s) PROVE BanInv'
  <2>1. /\ shift' = s /\ UNCHANGED <<bans, hours, owed, over>> /\ s \in Int
        /\ ahead' = [p \in Banned |-> ahead[p] \/ s > shift]
        /\ back' = [p \in Banned |-> back[p] \/ s < shift]
    BY <1>5, BanConstants DEF Ban!SetClock
  <2>2. Ban!TypeOK'
    BY <1>0, <1>0a, <2>1 DEF Ban!TypeOK
  <2>3. ahead' \in [Banned -> BOOLEAN] /\ back' \in [Banned -> BOOLEAN]
    <3>1. \A p \in Banned : (ahead[p] \/ s > shift) \in BOOLEAN /\ (back[p] \/ s < shift) \in BOOLEAN
      BY Zenon
    <3> QED
      BY <2>1, <3>1, Zenon
  <2>4. ASSUME NEW p \in Banned PROVE BanOf(p)'
    <3>1. BanOf(p) /\ owed[p] \in Int
      BY DEF BanInv
    <3>2. CASE p \notin DOMAIN bans \/ bans[p].permanent
      BY <2>1, <3>1, <3>2 DEF BanOf
    <3>3. CASE p \in DOMAIN bans /\ ~bans[p].permanent
      <4>1. bans[p].expires \in Int
        BY <1>0, <1>0a, <3>3
      <4>2. ahead'[p] = (ahead[p] \/ s > shift) /\ back'[p] = (back[p] \/ s < shift)
        BY <2>1
      <4>3. ~ahead'[p] => ~ahead[p] /\ ~(s > shift)
        BY <4>2, Zenon
      <4>4. ~back'[p] => ~back[p] /\ ~(s < shift)
        BY <4>2, Zenon
      <4>5. /\ ~over[p] /\ ~ahead[p] => bans[p].expires >= owed[p] + shift
            /\ ~back[p] => bans[p].expires <= owed[p] + shift
        BY <3>1, <3>3 DEF BanOf
      <4>6. ~over[p] /\ ~ahead'[p] => bans[p].expires >= owed[p] + s
        BY <1>0, <2>1, <3>1, <4>1, <4>3, <4>5
      <4>7. ~back'[p] => bans[p].expires <= owed[p] + s
        BY <1>0, <2>1, <3>1, <4>1, <4>4, <4>5
      <4> QED
        BY <2>1, <3>3, <4>6, <4>7 DEF BanOf
    <3> QED
      BY <3>2, <3>3
  <2> QED
    BY <2>1, <2>2, <2>3, <2>4 DEF BanInv
<1>6. CASE UNCHANGED banVars
  BY <1>6 DEF banVars, BanInv, Ban!TypeOK, BanOf
<1> QED
  BY <1>1, <1>2, <1>3, <1>4, <1>5, <1>6 DEF Ban!Next

---------------------------------------------------------------------------
(* KitManager                                                              *)

\* What cutting off the fractions of two times does to their difference.
LEMMA WholeSeconds ==
  ASSUME NEW w \in Nat \ {0}, NEW t \in Nat, NEW g \in Nat, NEW c \in Int
  PROVE  /\ t \div w \in Nat
         /\ (t \div w) - (g \div w) >= c => t - g > (c - 1) * w
         /\ t - g >= c * w => (t \div w) - (g \div w) >= c
         /\ g <= t => g \div w <= t \div w
<1>1. PICK a \in Int, r \in 0..(w - 1) : t = w * a + r /\ t \div w = a
  BY Remainder
<1>2. PICK b \in Int, s \in 0..(w - 1) : g = w * b + s /\ g \div w = b
  BY Remainder
<1>3. ASSUME a - b >= c PROVE t - g > (c - 1) * w
  <2>1. PICK e \in Nat : a = b + c + e
    <3>1. a - b - c \in Nat /\ a = b + c + (a - b - c)
      BY <1>3
    <3> QED
      BY <3>1
  <2>2. PICK x \in Nat : x = w * e
    OBVIOUS
  <2>3. w * a = w * b + c * w + x /\ (c - 1) * w = c * w - w
    BY <2>1, <2>2
  <2>4. PICK y \in Int : y = c * w
    OBVIOUS
  <2>5. PICK u \in Int, v \in Int : u = w * a /\ v = w * b
    OBVIOUS
  <2> QED
    BY <1>1, <1>2, <2>3, <2>4, <2>5
<1>4. ASSUME a - b < c PROVE t - g < c * w
  <2>1. PICK e \in Nat : c = a - b + 1 + e
    <3>1. c - (a - b + 1) \in Nat /\ c = a - b + 1 + (c - (a - b + 1))
      BY <1>4
    <3> QED
      BY <3>1
  <2>2. PICK x \in Nat : x = w * e
    OBVIOUS
  <2>3. c * w = w * a - w * b + w + x
    BY <2>1, <2>2
  <2>4. PICK y \in Int : y = c * w
    OBVIOUS
  <2>5. PICK u \in Int, v \in Int : u = w * a /\ v = w * b
    OBVIOUS
  <2> QED
    BY <1>1, <1>2, <2>3, <2>4, <2>5
<1>5. t \div w \in Nat
  OBVIOUS
<1>6. ASSUME g <= t PROVE b <= a
  <2>1. SUFFICES ASSUME a < b PROVE FALSE
    OBVIOUS
  <2>2. PICK e \in Nat : b = a + 1 + e
    <3>1. b - (a + 1) \in Nat /\ b = a + 1 + (b - (a + 1))
      BY <2>1
    <3> QED
      BY <3>1
  <2>3. PICK x \in Nat : x = w * e
    OBVIOUS
  <2>4. w * b = w * a + w + x
    BY <2>2, <2>3
  <2>5. PICK u \in Int, v \in Int : u = w * a /\ v = w * b
    OBVIOUS
  <2> QED
    BY <1>1, <1>2, <1>6, <2>4, <2>5
<1>7. t - g >= c * w => a - b >= c
  <2>1. PICK y \in Int : y = c * w
    OBVIOUS
  <2> QED
    BY <1>4, <2>1
<1> QED
  BY <1>1, <1>2, <1>3, <1>5, <1>6, <1>7

\* The history that the manager keeps is the times at which it gave, cut.
KitInv ==
  /\ Kit!TypeOK
  /\ DOMAIN given = DOMAIN last
  /\ \A r \in DOMAIN given : given[r] \in 0..clock /\ last[r] = given[r] \div Fractions

\* What is assumed of the constants of the kits.
LEMMA KitConstants == Fractions \in Nat \ {0} /\ Cooldowns \subseteq Int /\ KitTime \in Nat
BY KitsAssumption DEF Kit!KitAssumption

\* What is remembered of each kit gives what the run checks.
LEMMA KitHolds == KitInv => KitsCool
<1> SUFFICES ASSUME KitInv PROVE KitsCool
  OBVIOUS
<1> USE KitConstants
<1>0. clock \in 0..KitTime /\ \A k \in DOMAIN kits : kits[k] \in Cooldowns
  BY DEF KitInv, Kit!TypeOK
<1>1a. \A k \in DOMAIN kits : kits[k] \in Int
  BY <1>0
<1>1b. clock \in Nat
  BY <1>0
<1>1. clock \in Nat /\ \A k \in DOMAIN kits : kits[k] \in Int
  BY <1>1a, <1>1b
<1>2. ASSUME NEW p \in Receivers, NEW k \in Kits, Kit!CanReceiveKit(p, k), <<p, k>> \in DOMAIN given
      PROVE  Kit!Since(<<p, k>>) > (kits[k] - 1) * Fractions
  <2>1. PICK g \in Nat, c \in Int, t \in Nat : g = given[<<p, k>>] /\ c = kits[k] /\ t = clock
                                               /\ last[<<p, k>>] = g \div Fractions
    BY <1>1, <1>2 DEF KitInv, Kit!CanReceiveKit
  <2>2. (t \div Fractions) - (g \div Fractions) >= c
    BY <1>2, <2>1 DEF KitInv, Kit!CanReceiveKit, Kit!Cooled, Kit!GetCurrentTimestamp
  <2>3. t - g > (c - 1) * Fractions
    BY <2>2, WholeSeconds
  <2> QED
    BY <2>1, <2>3 DEF Kit!Since
<1>3. ASSUME NEW p \in Receivers, NEW k \in DOMAIN kits, <<p, k>> \in DOMAIN given,
             Kit!Since(<<p, k>>) >= kits[k] * Fractions
      PROVE  Kit!CanReceiveKit(p, k)
  <2>1. PICK g \in Nat, c \in Int, t \in Nat : g = given[<<p, k>>] /\ c = kits[k] /\ t = clock
                                               /\ last[<<p, k>>] = g \div Fractions
    BY <1>1, <1>3 DEF KitInv
  <2>2. t - g >= c * Fractions
    BY <1>3, <2>1 DEF Kit!Since
  <2>3. (t \div Fractions) - (g \div Fractions) >= c
    BY <2>2, WholeSeconds
  <2> QED
    BY <2>1, <2>3 DEF Kit!CanReceiveKit, Kit!Cooled, Kit!GetCurrentTimestamp
<1> QED
  BY <1>2, <1>3 DEF KitsCool, KitInv, Kit!NeverEarly, Kit!NeverLate

\* At first no kit exists and none has been given.
LEMMA KitInit == Kit!Init => KitInv
BY KitConstants DEF Kit!Init, KitInv, Kit!TypeOK

\* Time passes, a kit is created, deleted, given or refused: the time of the
\* last gift stays the second in which it was given.
LEMMA KitNext == KitInv /\ [Kit!Next]_kitVars => KitInv'
<1> SUFFICES ASSUME KitInv, [Kit!Next]_kitVars PROVE KitInv'
  OBVIOUS
<1> USE KitConstants
<1>0. /\ DOMAIN kits \subseteq Kits /\ \A k \in DOMAIN kits : kits[k] \in Cooldowns
      /\ DOMAIN last \subseteq Receivers \X Kits /\ clock \in 0..KitTime
      /\ \A r \in DOMAIN last : last[r] \in 0..(KitTime \div Fractions)
  BY DEF KitInv, Kit!TypeOK
<1>1. ASSUME Kit!Passes PROVE KitInv'
  <2>1. clock' = clock + 1 /\ clock < KitTime /\ UNCHANGED <<kits, last, given>>
    BY <1>1 DEF Kit!Passes
  <2>2. \A r \in DOMAIN given : given[r] \in 0..clock'
    BY <1>0, <2>1 DEF KitInv
  <2> QED
    BY <1>0, <2>1, <2>2 DEF KitInv, Kit!TypeOK
<1>2. ASSUME NEW k \in Kits, Kit!DeleteKit(k) PROVE KitInv'
  <2>1. /\ DOMAIN kits' = DOMAIN kits \ {k} /\ \A j \in DOMAIN kits' : kits'[j] = kits[j]
        /\ UNCHANGED <<last, clock, given>>
    BY <1>2 DEF Kit!DeleteKit, Kit!KeepsHistory
  <2> QED
    BY <1>0, <2>1 DEF KitInv, Kit!TypeOK
<1>3. ASSUME NEW k \in Kits, NEW c \in Cooldowns, Kit!DefineKit(k, c) PROVE KitInv'
  <2>1. /\ DOMAIN kits' = DOMAIN kits \cup {k} /\ UNCHANGED <<last, clock, given>>
        /\ \A j \in DOMAIN kits' : kits'[j] = IF j = k THEN c ELSE kits[j]
    BY <1>3 DEF Kit!DefineKit, Kit!Put
  <2> QED
    BY <1>0, <2>1 DEF KitInv, Kit!TypeOK
<1>4. ASSUME NEW k \in Kits, NEW p \in Receivers, Kit!GiveKit(p, k) PROVE KitInv'
  <2>1. PICK n \in Nat : n = clock \div Fractions /\ n <= KitTime \div Fractions
    <3>1. PICK g \in Nat, t \in Nat, c \in Int : g = clock /\ t = KitTime /\ g <= t
      BY <1>0
    <3>2. g \div Fractions \in Nat /\ g \div Fractions <= t \div Fractions
      BY <3>1, WholeSeconds
    <3> QED
      BY <3>1, <3>2
  <2>2. /\ DOMAIN last' = DOMAIN last \cup {<<p, k>>} /\ DOMAIN given' = DOMAIN given \cup {<<p, k>>}
        /\ \A r \in DOMAIN last' : last'[r] = IF r = <<p, k>> THEN n ELSE last[r]
        /\ \A r \in DOMAIN given' : given'[r] = IF r = <<p, k>> THEN clock ELSE given[r]
        /\ UNCHANGED <<kits, clock>>
    BY <1>4, <2>1 DEF Kit!GiveKit, Kit!Put, Kit!GetCurrentTimestamp
  <2>3. KitTime \div Fractions \in Nat
    OBVIOUS
  <2>4. Kit!TypeOK'
    BY <1>0, <2>1, <2>2, <2>3 DEF Kit!TypeOK
  <2>5. ASSUME NEW r \in DOMAIN given' PROVE given'[r] \in 0..clock /\ last'[r] = given'[r] \div Fractions
    <3>1. CASE r = <<p, k>>
      BY <1>0, <2>1, <2>2, <3>1 DEF KitInv
    <3>2. CASE r # <<p, k>>
      BY <1>0, <2>1, <2>2, <2>5, <3>2 DEF KitInv
    <3> QED
      BY <3>1, <3>2
  <2> QED
    BY <2>2, <2>4, <2>5 DEF KitInv
<1>5. CASE UNCHANGED kitVars
  BY <1>5 DEF kitVars, KitInv, Kit!TypeOK
<1> QED
  BY <1>1, <1>2, <1>3, <1>4, <1>5 DEF Kit!Next

---------------------------------------------------------------------------
(* TeleportManager                                                         *)

\* The bundle that the run checks, with what the histories range over and
\* that only finitely many requests are pending.
TeleportInv ==
  /\ TeleportsAnswered
  /\ DOMAIN newest = Players /\ DOMAIN wants = Players
  /\ several \subseteq Players /\ IsFiniteSet(DOMAIN pendingRequests)

\* At first nothing is asked for.
LEMMA TeleportInit == Teleport!Init => TeleportInv
<1> SUFFICES ASSUME Teleport!Init PROVE TeleportInv
  OBVIOUS
<1>1. /\ DOMAIN pendingRequests = {} /\ made = 0 /\ DOMAIN newest = Players /\ DOMAIN wants = Players
      /\ \A p \in Players : wants[p] = {}
      /\ several = {} /\ IsFiniteSet({})
  BY FS_EmptySet DEF Teleport!Init
<1>2. Teleport!TypeOK
  BY <1>1, TeleportsAssumption DEF Teleport!TypeOK, Teleport!RequestAssumption
<1> QED
  BY <1>1, <1>2 DEF TeleportInv, TeleportsAnswered, Teleport!AnswersNewest,
     Teleport!WaitedForPending, Teleport!PendingOf, Teleport!LeftOnlyIfSeveral

\* Two members make a set larger than one.
LEMMA TwoMembers ==
  ASSUME NEW S, IsFiniteSet(S), NEW x \in S, NEW y \in S, x # y
  PROVE  Cardinality(S) > 1
<1>1. IsFiniteSet(S \ {x}) /\ Cardinality(S \ {x}) = Cardinality(S) - 1
  BY FS_RemoveElement
<1>2. S \ {x} # {}
  OBVIOUS
<1>3. Cardinality(S \ {x}) \in Nat /\ Cardinality(S \ {x}) # 0 /\ Cardinality(S) \in Nat
  BY <1>1, <1>2, FS_CardinalityType, FS_EmptySet
<1> QED
  BY <1>1, <1>3

\* A request, an answer and a withdrawal keep the newest request of a player
\* among those the player still wants.
LEMMA TeleportNext == TeleportInv /\ [Teleport!Next]_teleportVars => TeleportInv'
<1> SUFFICES ASSUME TeleportInv, [Teleport!Next]_teleportVars PROVE TeleportInv'
  OBVIOUS
<1>0. /\ DOMAIN pendingRequests \subseteq Players /\ made \in 0..MaxRequests
      /\ \A t \in DOMAIN pendingRequests : pendingRequests[t] \in Players
      /\ \A p \in Players : \A t \in wants[p] : t \in DOMAIN pendingRequests /\ pendingRequests[t] = p
      /\ \A t \in DOMAIN pendingRequests : pendingRequests[t] = newest[t]
      /\ \A t \in DOMAIN pendingRequests :
            t \in wants[pendingRequests[t]] \/ t \in several
      /\ DOMAIN newest = Players /\ DOMAIN wants = Players
      /\ several \subseteq Players /\ IsFiniteSet(DOMAIN pendingRequests) /\ MaxRequests \in Nat
  BY TeleportsAssumption DEF TeleportInv, TeleportsAnswered, Teleport!TypeOK, Teleport!PendingOf,
     Teleport!AnswersNewest, Teleport!WaitedForPending, Teleport!LeftOnlyIfSeveral,
     Teleport!RequestAssumption
\* The same facts of the next state are what has to be shown.
<1>a. ASSUME /\ DOMAIN pendingRequests' \subseteq Players /\ made' \in 0..MaxRequests
             /\ \A t \in DOMAIN pendingRequests' : pendingRequests'[t] \in Players
             /\ \A p \in Players : \A t \in wants'[p] :
                   t \in DOMAIN pendingRequests' /\ pendingRequests'[t] = p
             /\ \A t \in DOMAIN pendingRequests' : pendingRequests'[t] = newest'[t]
             /\ \A t \in DOMAIN pendingRequests' :
                   t \in wants'[pendingRequests'[t]] \/ t \in several'
             /\ DOMAIN newest' = Players /\ DOMAIN wants' = Players
             /\ several' \subseteq Players /\ IsFiniteSet(DOMAIN pendingRequests')
      PROVE  TeleportInv'
  BY <1>a DEF TeleportInv, TeleportsAnswered, Teleport!TypeOK, Teleport!PendingOf,
     Teleport!AnswersNewest, Teleport!WaitedForPending, Teleport!LeftOnlyIfSeveral
\* A request is taken away.
<1>b. ASSUME NEW t, pendingRequests' = Teleport!Without(t)
      PROVE  /\ DOMAIN pendingRequests' = DOMAIN pendingRequests \ {t}
             /\ \A u \in DOMAIN pendingRequests' : pendingRequests'[u] = pendingRequests[u]
             /\ IsFiniteSet(DOMAIN pendingRequests')
  <2>1. /\ DOMAIN pendingRequests' = DOMAIN pendingRequests \ {t}
        /\ \A u \in DOMAIN pendingRequests' : pendingRequests'[u] = pendingRequests[u]
    BY <1>b DEF Teleport!Without
  <2> QED
    BY <1>0, <2>1, FS_Subset
<1>1. ASSUME NEW t \in Players, Teleport!Answer(t) PROVE TeleportInv'
  <2>1. /\ DOMAIN pendingRequests' = DOMAIN pendingRequests \ {t}
        /\ \A u \in DOMAIN pendingRequests' : pendingRequests'[u] = pendingRequests[u]
        /\ IsFiniteSet(DOMAIN pendingRequests')
    BY <1>1, <1>b DEF Teleport!Answer
  <2>2. /\ newest' = [newest EXCEPT ![t] = Teleport!Nobody] /\ UNCHANGED made
        /\ several' = several \ {t}
        /\ wants' = [p \in Players |-> wants[p] \ {t}]
    BY <1>1 DEF Teleport!Answer
  <2>3. DOMAIN newest' = Players /\ \A u \in Players \ {t} : newest'[u] = newest[u]
    BY <1>0, <2>2
  <2>4. DOMAIN wants' = Players /\ \A p \in Players : wants'[p] = wants[p] \ {t}
    BY <2>2
  <2> QED
    BY <1>0, <1>a, <2>1, <2>2, <2>3, <2>4
<1>2. ASSUME NEW r \in Players, Teleport!CancelTeleport(r) PROVE TeleportInv'
  <2>1. /\ wants' = [wants EXCEPT ![r] = {}] /\ UNCHANGED made
        /\ several' = IF Cardinality(Teleport!PendingOf(r)) > 1
                       THEN several \cup Teleport!PendingOf(r) ELSE several
    BY <1>2, SameCardinality DEF Teleport!CancelTeleport
  <2>2. DOMAIN wants' = Players /\ wants'[r] = {} /\ \A p \in Players \ {r} : wants'[p] = wants[p]
    BY <1>0, <2>1
  <2>3. several \subseteq several' /\ several' \subseteq Players
    BY <1>0, <2>1 DEF Teleport!PendingOf
  <2>4. CASE Teleport!PendingOf(r) = {}
    <3>1. UNCHANGED <<pendingRequests, newest>>
      BY <1>2, <2>4 DEF Teleport!CancelTeleport, Teleport!AsRequester
    <3>2. \A t \in DOMAIN pendingRequests : pendingRequests[t] # r
      BY <2>4 DEF Teleport!PendingOf
    <3> QED
      BY <1>0, <1>a, <2>1, <2>2, <2>3, <3>1, <3>2
  <2>5. CASE Teleport!PendingOf(r) # {}
    <3>1. PICK t \in Teleport!PendingOf(r) : /\ pendingRequests' = Teleport!Without(t)
                                             /\ newest' = [newest EXCEPT ![t] = Teleport!Nobody]
      BY <1>2, <2>5 DEF Teleport!CancelTeleport, Teleport!AsRequester
    <3>2. t \in DOMAIN pendingRequests /\ pendingRequests[t] = r
      BY DEF Teleport!PendingOf
    <3>3. /\ DOMAIN pendingRequests' = DOMAIN pendingRequests \ {t}
          /\ \A u \in DOMAIN pendingRequests' : pendingRequests'[u] = pendingRequests[u]
          /\ IsFiniteSet(DOMAIN pendingRequests')
      BY <1>b, <3>1
    <3>4. DOMAIN newest' = Players /\ \A u \in Players \ {t} : newest'[u] = newest[u]
      BY <1>0, <3>1
    \* A request of the same player that is left makes two of them.
    <3>5. ASSUME NEW u \in DOMAIN pendingRequests', pendingRequests'[u] = r PROVE u \in several'
      <4>1. u \in Teleport!PendingOf(r) /\ u # t
        BY <3>3, <3>5 DEF Teleport!PendingOf
      <4>2. IsFiniteSet(Teleport!PendingOf(r))
        BY <1>0, FS_Subset DEF Teleport!PendingOf
      <4>3. Cardinality(Teleport!PendingOf(r)) > 1
        BY <4>1, <4>2, TwoMembers
      <4> QED
        BY <2>1, <4>1, <4>3
    <3>6. \A u \in DOMAIN pendingRequests' :
             u \in wants'[pendingRequests'[u]] \/ u \in several'
      <4> TAKE u \in DOMAIN pendingRequests'
      <4>1. CASE pendingRequests'[u] = r
        BY <3>5, <4>1
      <4>2. CASE pendingRequests'[u] # r
        <5>1. pendingRequests'[u] = pendingRequests[u] /\ u \in DOMAIN pendingRequests
              /\ pendingRequests[u] \in Players \ {r}
          BY <1>0, <3>3, <4>2
        <5> QED
          BY <1>0, <2>2, <2>3, <5>1
      <4> QED
        BY <4>1, <4>2
    <3>7. \A p \in Players : \A u \in wants'[p] :
             u \in DOMAIN pendingRequests' /\ pendingRequests'[u] = p
      BY <1>0, <2>2, <3>2, <3>3
    <3>8. /\ DOMAIN pendingRequests' \subseteq Players /\ made' \in 0..MaxRequests
          /\ \A u \in DOMAIN pendingRequests' : pendingRequests'[u] \in Players
          /\ \A u \in DOMAIN pendingRequests' : pendingRequests'[u] = newest'[u]
      BY <1>0, <2>1, <3>3, <3>4
    <3> QED
      BY <1>a, <2>2, <2>3, <3>3, <3>4, <3>6, <3>7, <3>8
  <2> QED
    BY <2>4, <2>5
<1>3. ASSUME NEW r \in Players, NEW t \in Players, Teleport!RequestTeleport(r, t)
      PROVE  TeleportInv'
  <2>1. /\ made < MaxRequests /\ made' = made + 1 /\ several' = several \ {t}
        /\ pendingRequests' = Teleport!Assigned(r, t) /\ newest' = [newest EXCEPT ![t] = r]
        /\ wants' = [p \in Players |-> IF p = r THEN wants[p] \cup {t} ELSE wants[p] \ {t}]
    BY <1>3 DEF Teleport!RequestTeleport
  <2>2. /\ DOMAIN pendingRequests' = DOMAIN pendingRequests \cup {t} /\ pendingRequests'[t] = r
        /\ \A u \in DOMAIN pendingRequests \ {t} : pendingRequests'[u] = pendingRequests[u]
    BY <2>1 DEF Teleport!Assigned
  <2>3. DOMAIN newest' = Players /\ newest'[t] = r /\ \A u \in Players \ {t} : newest'[u] = newest[u]
    BY <1>0, <2>1
  <2>4. /\ DOMAIN wants' = Players /\ wants'[r] = wants[r] \cup {t}
        /\ \A p \in Players \ {r} : wants'[p] = wants[p] \ {t}
    BY <2>1
  <2>5. IsFiniteSet(DOMAIN pendingRequests')
    BY <1>0, <2>2, FS_AddElement
  <2>6. made' \in 0..MaxRequests
    BY <1>0, <2>1
  <2>7. \A u \in DOMAIN pendingRequests' :
           u \in wants'[pendingRequests'[u]] \/ u \in several'
    <3> TAKE u \in DOMAIN pendingRequests'
    <3>1. CASE u = t
      BY <2>2, <2>4, <3>1
    <3>2. CASE u # t
      <4>1. u \in DOMAIN pendingRequests /\ pendingRequests'[u] = pendingRequests[u]
            /\ pendingRequests[u] \in Players
        BY <1>0, <2>2, <3>2
      <4> QED
        BY <1>0, <2>1, <2>4, <3>2, <4>1
    <3> QED
      BY <3>1, <3>2
  <2>8. \A p \in Players : \A u \in wants'[p] :
           u \in DOMAIN pendingRequests' /\ pendingRequests'[u] = p
    BY <1>0, <2>2, <2>4
  <2>9. /\ DOMAIN pendingRequests' \subseteq Players
        /\ \A u \in DOMAIN pendingRequests' : pendingRequests'[u] \in Players
        /\ \A u \in DOMAIN pendingRequests' : pendingRequests'[u] = newest'[u]
    BY <1>0, <2>2, <2>3
  <2> QED
    BY <1>0, <1>a, <2>1, <2>3, <2>4, <2>5, <2>6, <2>7, <2>8, <2>9
<1>4. CASE UNCHANGED teleportVars
  BY <1>4 DEF teleportVars, TeleportInv, TeleportsAnswered, Teleport!TypeOK, Teleport!PendingOf,
     Teleport!AnswersNewest, Teleport!WaitedForPending, Teleport!LeftOnlyIfSeveral
<1> QED
  BY <1>1, <1>2, <1>3, <1>4 DEF Teleport!Next, teleportVars

---------------------------------------------------------------------------
\* One part runs; what the others keep does not change.
LEMMA PartsInit ==
  InitPart => Init /\ Pipeline!Init /\ Chat!Init /\ Ban!Init /\ Kit!Init /\ Teleport!Init
BY DEF InitPart

\* So a step of the server is a step of each part or leaves it as it is.
LEMMA PartsNext ==
  [NextPart]_allVars => /\ [Next]_vars /\ [Pipeline!Next]_eventVars /\ [Chat!Next]_chatVars
                        /\ [Ban!Next]_banVars /\ [Kit!Next]_kitVars
                        /\ [Teleport!Next]_teleportVars
<1> SUFFICES ASSUME [NextPart]_allVars
             PROVE  /\ [Next]_vars /\ [Pipeline!Next]_eventVars /\ [Chat!Next]_chatVars
                    /\ [Ban!Next]_banVars /\ [Kit!Next]_kitVars /\ [Teleport!Next]_teleportVars
  OBVIOUS
<1>1. CASE UNCHANGED allVars
  BY <1>1, Zenon DEF allVars
<1>2. CASE NextPart
  BY <1>2, Zenon DEF NextPart
<1> QED
  BY <1>1, <1>2

\* The economy keeps its types, owes nothing it should not and adds up.
LEMMA EconomyNext ==
  TypeOK /\ NoDebt /\ MoneyInv /\ [NextPart]_allVars => (TypeOK /\ NoDebt /\ MoneyInv)'
BY PartsNext, NextTypes, MoneyNext

(* Every variable of the economy keeps its type, for every set of players  *)
(* and every width: a balance never leaves the range of a Currency, and    *)
(* GetBalance gives 0 for whoever has no account.                          *)
THEOREM Typed == SpecPart => []TypeOK
<1> QED
  BY PartsInit, InitTypes, MoneyInit, EconomyNext, PTL DEF SpecPart

(* Accounts created and deleted, payments and transfers, whatever the      *)
(* players and the width of a Currency: nobody's balance falls below zero  *)
(* unless an account was created in debt, and the balances of all players  *)
(* add up to what was issued, until a deposit overflows.                   *)
THEOREM MoneyIsKept == SpecPart => []MoneyKept
<1>1. TypeOK /\ NoDebt /\ MoneyInv => MoneyKept
  BY MoneyHolds DEF MoneyKept
<1> QED
  BY PartsInit, InitTypes, MoneyInit, EconomyNext, <1>1, PTL DEF SpecPart

(* A transfer that overflows nothing moves its amount from one player to   *)
(* another, or nothing when they are the same, and touches nobody else.    *)
THEOREM TransfersExact == SpecPart => TransferExact
<1>1. TypeOK /\ [NextPart]_allVars => [Exact]_vars
  BY PartsNext, StepExact
<1>2. SpecPart => [][Exact]_vars
  BY PartsInit, InitTypes, MoneyInit, EconomyNext, <1>1, PTL DEF SpecPart
<1> QED
  BY <1>2 DEF TransferExact, Exact

(* However players join, quit, answer and change scenes, the metric of     *)
(* connected players follows the registry, the counter of actions is what  *)
(* was applied and is pending, and the registry has the scene of the join. *)
THEOREM MetricsFollowAlways == SpecPart => []MetricsFollow
<1>1. PipelineInv /\ [NextPart]_allVars => PipelineInv'
  BY PartsNext, PipelineNext
<1>2. PipelineInv => MetricsFollow
  BY DEF PipelineInv
<1> QED
  BY PartsInit, PipelineInit, <1>1, <1>2, PTL DEF SpecPart

(* The window of the filter lets no more than five messages pass in less   *)
(* than six seconds, for every division of a second into ticks.            *)
THEOREM ChatRateAlways == SpecPart => []ChatRate
<1>1. ChatInv /\ [NextPart]_allVars => ChatInv'
  BY PartsNext, ChatNext
<1> QED
  BY PartsInit, ChatInit, ChatHolds, <1>1, PTL DEF SpecPart

(* A ban ends when the last call said, for every width of the clock and    *)
(* every duration, unless its end was out of range or the clock was set.   *)
THEOREM BansLastAlways == SpecPart => []BansLast
<1>1. BanInv /\ [NextPart]_allVars => BanInv'
  BY PartsNext, BanNext
<1> QED
  BY PartsInit, BanInit, BanHolds, <1>1, PTL DEF SpecPart

(* Whole seconds cut off both times of a cooldown: it is at most a second  *)
(* short and never long, for every cooldown and every fraction observed.   *)
THEOREM KitsCoolAlways == SpecPart => []KitsCool
<1>1. KitInv /\ [NextPart]_allVars => KitInv'
  BY PartsNext, KitNext
<1> QED
  BY PartsInit, KitInit, KitHolds, <1>1, PTL DEF SpecPart

(* Whoever answers a request to teleport answers the newest; what a player *)
(* waits for stays pending through the Cancels of others; a request that   *)
(* outlived its player's Cancel was one of several.  For any number of     *)
(* players and requests, to oneself too, and Cancels that find nothing.    *)
THEOREM TeleportsAnsweredAlways == SpecPart => []TeleportsAnswered
<1>1. TeleportInv /\ [NextPart]_allVars => TeleportInv'
  BY PartsNext, TeleportNext
<1>2. TeleportInv => TeleportsAnswered
  BY DEF TeleportInv
<1> QED
  BY PartsInit, TeleportInit, <1>1, <1>2, PTL DEF SpecPart
=============================================================================
