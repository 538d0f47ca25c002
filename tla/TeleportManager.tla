-------------------------- MODULE TeleportManager --------------------------
(***************************************************************************)
(* src/core/teleport_manager.cpp: at most one request per target, kept     *)
(* under the target.  ClearExpiredRequests has no caller: none expires.    *)
(***************************************************************************)
EXTENDS Naturals, FiniteSets

CONSTANTS Players, MaxRequests \* bound on requests made
RequestAssumption == MaxRequests \in Nat

VARIABLES pendingRequests, \* targets to requesters
          made,     \* requests so far
          newest,   \* history: per target, who asked last, or "none" once answered
          wants,    \* history: per player, the targets asked and not heard of since
          several   \* history: targets whose request was one of several when its player cancelled
vars == <<pendingRequests, made, newest, wants, several>>

Nobody == "none"
Init == /\ pendingRequests = [t \in {} |-> Nobody] /\ made = 0
        /\ newest = [t \in Players |-> Nobody] /\ wants = [p \in Players |-> {}]
        /\ several = {}

PendingOf(p) == {t \in DOMAIN pendingRequests : pendingRequests[t] = p}
Without(t) == [u \in DOMAIN pendingRequests \ {t} |-> pendingRequests[u]]

Assigned(r, t) == [u \in DOMAIN pendingRequests \cup {t} |-> IF u = t THEN r ELSE pendingRequests[u]]
RequestTeleport(r, t) ==
  /\ made < MaxRequests /\ made' = made + 1
  /\ pendingRequests' = Assigned(r, t) /\ newest' = [newest EXCEPT ![t] = r]
  /\ wants' = [p \in Players |-> IF p = r THEN wants[p] \cup {t} ELSE wants[p] \ {t}]
  /\ several' = several \ {t}

\* AcceptTeleport and DenyTeleport: the player is not moved by either.
Answer(t) == /\ t \in DOMAIN pendingRequests /\ pendingRequests' = Without(t)
             /\ newest' = [newest EXCEPT ![t] = Nobody]
             /\ wants' = [p \in Players |-> wants[p] \ {t}] /\ several' = several \ {t}
             /\ UNCHANGED made

\* CancelTeleport erases the first of the player's requests that the hash
\* map's order happens to give, and nothing if there is none.
\* Faulty variant: it looks for the player as a target.
AsTarget(r) == {t \in DOMAIN pendingRequests : t = r}
AsRequester(r) == PendingOf(r)
CancelTeleport(r) == /\ wants' = [wants EXCEPT ![r] = {}]
                     /\ several' = IF Cardinality(PendingOf(r)) > 1
                                     THEN several \cup PendingOf(r) ELSE several
                     /\ IF AsRequester(r) = {} THEN UNCHANGED <<pendingRequests, newest>>
                        ELSE \E t \in AsRequester(r) : /\ pendingRequests' = Without(t)
                                                       /\ newest' = [newest EXCEPT ![t] = Nobody]
                     /\ UNCHANGED made

\* Nothing keeps a player from being their own target.
Next == \E p \in Players : \/ Answer(p) \/ CancelTeleport(p)
                           \/ \E t \in Players : RequestTeleport(p, t)
Spec == Init /\ [][Next]_vars

---------------------------------------------------------------------------
(* Every variable has a value of its type. *)
TypeOK == /\ DOMAIN pendingRequests \subseteq Players /\ made \in 0..MaxRequests
          /\ \A t \in DOMAIN pendingRequests : pendingRequests[t] \in Players
          /\ several \subseteq Players /\ \A p \in Players : wants[p] \subseteq Players

(* What a player still waits for is pending: only its target's answer, a   *)
(* newer request to the target or the player's own Cancel takes a request  *)
(* away, and a Cancel of one whose requests were all replaced withdraws    *)
(* nobody else's.                                                          *)
WaitedForPending == \A p \in Players : wants[p] \subseteq PendingOf(p)

(* The request that a target would answer is that of the player who asked *)
(* last, the one the target was told of last, unless that was withdrawn:   *)
(* no earlier one comes back.                                              *)
AnswersNewest == \A t \in DOMAIN pendingRequests : pendingRequests[t] = newest[t]

(* A request that outlives its player's Cancel was one of several pending  *)
(* then: Cancel withdraws one of them, not always the newest, and leaves   *)
(* the others; one that was replaced, or made after a Cancel that found    *)
(* nothing, is not taken for it.                                           *)
LeftOnlyIfSeveral == \A t \in DOMAIN pendingRequests :
                       t \in wants[pendingRequests[t]] \/ t \in several
=============================================================================
