----------------------------- MODULE KitManager -----------------------------
(***************************************************************************)
(* src/core/kit_manager.cpp: kits with a cooldown in seconds, against      *)
(* the second in which a player last received each.  Time passes in        *)
(* fractions of a second, which GetCurrentTimestamp cuts off.              *)
(***************************************************************************)
EXTENDS Integers

CONSTANTS Players, Kits, Cooldowns, \* cooldownSeconds a caller may define
          Fractions,                \* parts that a second is observed in
          MaxTime                   \* bound on time, in those parts
KitAssumption == Fractions \in Nat \ {0} /\ Cooldowns \subseteq Int /\ MaxTime \in Nat

VARIABLES kits,  \* kits_: names to cooldowns
          last,  \* lastReceived_: pairs of a player and a name to a timestamp
          time,  \* steady_clock
          given  \* history: pairs to the time they were really given at
vars == <<kits, last, time, given>>

Init == kits = [k \in {} |-> 0] /\ last = [r \in {} |-> 0] /\ time = 0 /\ given = last

GetCurrentTimestamp == time \div Fractions
Put(f, x, y) == [z \in DOMAIN f \cup {x} |-> IF z = x THEN y ELSE f[z]]
\* Faulty variant: the kit's history goes with it.
DropsHistory(k) == last' = [r \in {q \in DOMAIN last : q[2] # k} |-> last[r]]
KeepsHistory(k) == UNCHANGED last

DefineKit(k, c) == kits' = Put(kits, k, c) /\ UNCHANGED <<last, time, given>>
DeleteKit(k) == /\ kits' = [j \in DOMAIN kits \ {k} |-> kits[j]] /\ KeepsHistory(k)
                /\ UNCHANGED <<time, given>>
Cooled(elapsed, c) == elapsed >= c
CanReceiveKit(p, k) == /\ k \in DOMAIN kits
                       /\ <<p, k>> \in DOMAIN last => Cooled(GetCurrentTimestamp - last[<<p, k>>], kits[k])
GiveKit(p, k) == /\ CanReceiveKit(p, k)
                 /\ last' = Put(last, <<p, k>>, GetCurrentTimestamp)
                 /\ given' = Put(given, <<p, k>>, time) /\ UNCHANGED <<kits, time>>
Passes == time < MaxTime /\ time' = time + 1 /\ UNCHANGED <<kits, last, given>>

Next == \/ Passes
        \/ \E k \in Kits : \/ DeleteKit(k)
                           \/ \E c \in Cooldowns : DefineKit(k, c)
                           \/ \E p \in Players : GiveKit(p, k)
Spec == Init /\ [][Next]_vars

---------------------------------------------------------------------------
(* Every variable has a value of its type. *)
TypeOK == /\ DOMAIN kits \subseteq Kits /\ \A k \in DOMAIN kits : kits[k] \in Cooldowns
          /\ DOMAIN last \subseteq Players \X Kits /\ time \in 0..MaxTime
          /\ \A r \in DOMAIN last : last[r] \in 0..(MaxTime \div Fractions)

Since(r) == time - given[r]
(* Nobody receives a kit again more than a second before the cooldown that *)
(* it has now is over, deleted, defined again or changed as it may be.     *)
NeverEarly == \A p \in Players, k \in Kits :
                CanReceiveKit(p, k) /\ <<p, k>> \in DOMAIN given
                  => Since(<<p, k>>) > (kits[k] - 1) * Fractions

(* Nobody is refused a kit that exists once that cooldown is over. *)
NeverLate == \A p \in Players, k \in DOMAIN kits :
               <<p, k>> \in DOMAIN given /\ Since(<<p, k>>) >= kits[k] * Fractions
                 => CanReceiveKit(p, k)
=============================================================================
