------------------------------ MODULE Economy ------------------------------
(***************************************************************************)
(* src/core/economy_manager.cpp: accounts that are created, deleted, paid  *)
(* into and out of, and transfers made of a withdrawal and a deposit.  A   *)
(* Currency is a signed integer that wraps.                                *)
(***************************************************************************)
EXTENDS Integers, FiniteSets, Functions

CONSTANTS Players,
          MaxCurrency   \* 2^63 - 1 in the code
ASSUME CurrencyAssumption == MaxCurrency \in Nat
ASSUME PlayersAssumption == IsFiniteSet(Players)

VARIABLES
  holders,    \* players with an account
  balance,    \* GetBalance: 0 for a player without one
  issued,     \* history: paid in from outside less what left, until an overflow
  credited,   \* history: an account was created with a negative balance
  overflowed, \* history: a deposit went over the largest Currency
  call        \* the last call: [op, from, to, amount, ok]
vars == <<holders, balance, issued, credited, overflowed, call>>

Currency == -(MaxCurrency + 1)..MaxCurrency
Wrapped(n) == IF n > MaxCurrency THEN n - 2 * (MaxCurrency + 1) ELSE n

Init == /\ holders = {} /\ balance = [p \in Players |-> 0] /\ issued = 0
        /\ credited = FALSE /\ overflowed = FALSE
        /\ call = [op |-> "none", amount |-> 0, ok |-> TRUE]

Issued(n) == issued' = IF overflowed' THEN 0 ELSE n
Called(o, a, r) == call' = [op |-> o, amount |-> a, ok |-> r]
Refused(o, a) == Called(o, a, FALSE) /\ UNCHANGED <<holders, balance, issued, credited, overflowed>>

---------------------------------------------------------------------------
\* An account that exists is replaced; deposit alone tells whether it does.
CreateAccount(p, a) ==
  /\ holders' = holders \cup {p} /\ balance' = [balance EXCEPT ![p] = a]
  /\ UNCHANGED overflowed /\ Issued(issued + a - balance[p])
  /\ credited' = (credited \/ a < 0) /\ Called("create", a, TRUE)

DeleteAccount(p) ==
  /\ holders' = holders \ {p} /\ balance' = [balance EXCEPT ![p] = 0]
  /\ UNCHANGED <<credited, overflowed>> /\ Issued(issued - balance[p])
  /\ Called("delete", 0, TRUE)

\* The balances after a deposit, and whether it has overflowed.
Paid(b, p, a) == [b EXCEPT ![p] = Wrapped(@ + a)]
Over(b, p, a) == b[p] + a > MaxCurrency

Deposit(p, a) ==
  IF a <= 0 THEN Refused("deposit", a)
  ELSE /\ holders' = holders \cup {p} /\ balance' = Paid(balance, p, a)
       /\ overflowed' = (overflowed \/ Over(balance, p, a)) /\ Issued(issued + a)
       /\ Called("deposit", a, TRUE) /\ UNCHANGED credited

\* Faulty variant: a withdrawal does not look at the balance.
UncheckedCovers(p, a) == a > 0 /\ p \in holders
Covers(p, a) == a > 0 /\ p \in holders /\ balance[p] >= a
Withdraw(p, a) ==
  IF ~Covers(p, a) THEN Refused("withdraw", a)
  ELSE /\ balance' = [balance EXCEPT ![p] = @ - a]
       /\ UNCHANGED <<holders, credited, overflowed>> /\ Issued(issued - a)
       /\ Called("withdraw", a, TRUE)

\* Faulty variant: both balances are read before either is written.
MovedStale(f, t, a) == [[balance EXCEPT ![f] = @ - a] EXCEPT ![t] = Wrapped(balance[t] + a)]
Moved(f, t, a) == Paid([balance EXCEPT ![f] = @ - a], t, a)
Transfer(f, t, a) ==
  IF ~Covers(f, a) THEN Refused("transfer", a)
  ELSE /\ holders' = holders \cup {t} /\ balance' = Moved(f, t, a)
       /\ overflowed' = (overflowed \/ Over([balance EXCEPT ![f] = @ - a], t, a))
       /\ Issued(issued)
       /\ Called("transfer", a, TRUE) /\ UNCHANGED credited

Next == \E p \in Players : \/ DeleteAccount(p)
                           \/ \E a \in Currency : \/ CreateAccount(p, a) \/ Deposit(p, a) \/ Withdraw(p, a)
                                                  \/ \E t \in Players : Transfer(p, t, a)
Spec == Init /\ [][Next]_vars

---------------------------------------------------------------------------
(* Every variable has a value of its type; only holders have money.        *)
TypeOK == /\ holders \subseteq Players /\ balance \in [Players -> Currency] /\ issued \in Int
          /\ credited \in BOOLEAN /\ overflowed \in BOOLEAN
          /\ call \in [op : {"none", "create", "delete", "deposit", "withdraw", "transfer"},
                       amount : Currency, ok : BOOLEAN]
          /\ \A p \in Players \ holders : balance[p] = 0

(* No sequence of calls takes a balance below zero, unless an account was  *)
(* created in debt or a deposit overflowed.                                *)
NoDebt == ~credited /\ ~overflowed => \A p \in Players : balance[p] >= 0

(* The money of all players is what was issued, however it was passed on,  *)
(* until a deposit overflows.                                              *)
Conserved == ~overflowed => FoldFunction(LAMBDA x, y : x + y, 0, balance) = issued

(* What the accounts promise of money: no debt, and nothing made or lost.  *)
MoneyKept == NoDebt /\ Conserved

(* A transfer, to oneself and to a player without an account included,     *)
(* takes from one what it gives to the other and touches nobody else.      *)
TransferExact ==
  [][call'.op = "transfer" /\ call' # call /\ call'.ok /\ ~overflowed' =>
       \/ balance' = balance
       \/ \E f, t \in Players : /\ f # t
                                /\ balance'[f] = balance[f] - call'.amount
                                /\ balance'[t] = balance[t] + call'.amount
                                /\ \A p \in Players \ {f, t} : balance'[p] = balance[p]]_vars
=============================================================================
