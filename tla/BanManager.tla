----------------------------- MODULE BanManager -----------------------------
(***************************************************************************)
(* src/core/ban_manager.cpp: bans by player, until a time of the           *)
(* system's clock, which an operator may set, in a representation of       *)
(* bounded width.  Real time is kept beside it to say what a ban promised. *)
(***************************************************************************)
EXTENDS Integers

CONSTANTS Players, Hours, \* durations a caller may give, in hours
          MaxTime,        \* bound on real time
          Largest,        \* largest time point the clock's type holds
          Shifts          \* how far the clock can be set, in hours
\* The clock itself stays within its range, whatever it is set to.
BanAssumption == /\ MaxTime \in Nat /\ Largest \in Nat /\ Hours \subseteq Nat
                 /\ Shifts \subseteq Int /\ MaxTime <= Largest
                 /\ \A s \in Shifts : -Largest - 1 <= s /\ MaxTime + s <= Largest

VARIABLES bans,  \* bans_: players to [expires, permanent]
          time,  \* hours that have really passed
          shift, \* system_clock less real time
          owed,  \* history: per player, the real time the last call banned them until
          over,  \* history: per player, that the last ban's end was out of range
          ahead, \* history: per player, that the clock was set forward since the last call
          back   \* history: the same, back
vars == <<bans, time, shift, owed, over, ahead, back>>

Forever == MaxTime + 1
Now == time + shift
Entry == [expires : Int, permanent : BOOLEAN]
Init == /\ bans = [p \in {} |-> 0] /\ time = 0 /\ shift = 0
        /\ owed = [p \in Players |-> 0]
        /\ over = [p \in Players |-> FALSE] /\ ahead = over /\ back = over

\* Adding to a time point wraps, as the build's 64-bit arithmetic does.
Wrapped(n) == ((n + Largest + 1) % (2 * Largest + 2)) - (Largest + 1)
With(p, entry) == [q \in DOMAIN bans \cup {p} |-> IF q = p THEN entry ELSE bans[q]]
Called(p, until, wraps) == /\ owed' = [owed EXCEPT ![p] = until] /\ over' = [over EXCEPT ![p] = wraps]
                           /\ ahead' = [ahead EXCEPT ![p] = FALSE]
                           /\ back' = [back EXCEPT ![p] = FALSE] /\ UNCHANGED <<time, shift>>

Temporary(p, d) == [expires |-> Wrapped(Now + d), permanent |-> FALSE]
Ban(p, d) == bans' = With(p, Temporary(p, d)) /\ Called(p, time + d, Now + d > Largest)
BanPermanent(p) == /\ bans' = With(p, [expires |-> 0, permanent |-> TRUE])
                   /\ Called(p, Forever, FALSE)
Unban(p) == bans' = [q \in DOMAIN bans \ {p} |-> bans[q]] /\ Called(p, 0, FALSE)

\* Faulty variant: the end of a permanent ban, which is not set, is read.
EndOnly(p) == p \in DOMAIN bans /\ Now < bans[p].expires
Active(p) == bans[p].permanent \/ Now < bans[p].expires
IsBanned(p) == p \in DOMAIN bans /\ (bans[p].permanent \/ Now < bans[p].expires)
GetActiveBans == {p \in DOMAIN bans : Active(p)}

Hour == time < MaxTime /\ time' = time + 1 /\ UNCHANGED <<bans, shift, owed, over, ahead, back>>
SetClock(s) == /\ shift # s /\ shift' = s
               /\ ahead' = [p \in Players |-> ahead[p] \/ s > shift]
               /\ back' = [p \in Players |-> back[p] \/ s < shift]
               /\ UNCHANGED <<bans, time, owed, over>>

Next == \/ \E p \in Players : Unban(p) \/ BanPermanent(p) \/ \E d \in Hours : Ban(p, d)
        \/ Hour
        \/ \E s \in Shifts : SetClock(s)
Spec == Init /\ [][Next]_vars

---------------------------------------------------------------------------
(* Every variable has a value of its type; an end of a ban is one that the *)
(* clock's type holds.                                                     *)
TypeOK == /\ DOMAIN bans \subseteq Players /\ \A p \in DOMAIN bans : bans[p] \in Entry
          /\ \A p \in DOMAIN bans : bans[p].expires \in -Largest - 1..Largest
          /\ time \in 0..MaxTime /\ shift \in Shifts \cup {0}

(* A player is let in before the end of the last call's ban only if that   *)
(* end was out of range or the clock was set forward since.                *)
FreedEarly == \A p \in Players : ~IsBanned(p) /\ time < owed[p] => over[p] \/ ahead[p]

(* A player is kept out after it, or after an unban, only if the clock was *)
(* set back since: no earlier ban, however long, outlives the last call.   *)
KeptLong == \A p \in Players : IsBanned(p) /\ time >= owed[p] => back[p]

(* The list of active bans and the question asked at the door agree. *)
ListAgrees == \A p \in Players : p \in GetActiveBans <=> IsBanned(p)
=============================================================================
