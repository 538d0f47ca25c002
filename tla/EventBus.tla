------------------------------ MODULE EventBus ------------------------------
(***************************************************************************)
(* src/core/event_bus.cpp: handlers by event type.  Publish iterates over  *)
(* the vector of a type while the handlers it calls may themselves         *)
(* subscribe, publish and clear.  Publish takes begin and end of the       *)
(* vector once; a vector that grows or is destroyed under it leaves what   *)
(* follows undefined.                                                      *)
(***************************************************************************)
EXTENDS Naturals, Sequences, SequencesExt

CONSTANTS Types,        \* EVENT_TYPE
          MaxHandlers,  \* bound on the calls of Subscribe
          MaxDepth      \* bound on Publish within Publish

VARIABLES handlers,   \* handlers_: each type's vector; a handler is the number of its Subscribe
          capacity,   \* of each vector
          publishing, \* the calls of Publish in progress, the innermost last
          made,       \* calls of Subscribe so far
          undefined   \* an iterator of a Publish in progress dangles
vars == <<handlers, capacity, publishing, made, undefined>>

Init == /\ handlers = [t \in Types |-> <<>>] /\ capacity = [t \in Types |-> 0]
        /\ publishing = <<>> /\ made = 0 /\ undefined = FALSE

Iterated(t) == \E i \in DOMAIN publishing : publishing[i].type = t
Full(t) == Len(handlers[t]) = capacity[t]

---------------------------------------------------------------------------
\* Calls of the program, between events or from the handler that runs.

\* push_back; the vector doubles when it is full.
Subscribe(t) ==
  /\ made < MaxHandlers /\ made' = made + 1
  /\ handlers' = [handlers EXCEPT ![t] = Append(@, made')]
  /\ capacity' = [capacity EXCEPT ![t] = IF ~Full(t) THEN @ ELSE IF @ = 0 THEN 1 ELSE 2 * @]
  /\ undefined' = (Full(t) /\ Iterated(t))
  /\ UNCHANGED publishing

\* `subscribed` and `called` are history: the handlers of the type when
\* Publish began, and those called since.
Publish(t) ==
  /\ handlers[t] # <<>> /\ Len(publishing) < MaxDepth
  /\ publishing' = Append(publishing, [type |-> t, end |-> Len(handlers[t]), subscribed |-> handlers[t],
                                       called |-> <<Head(handlers[t])>>])
  /\ UNCHANGED <<handlers, capacity, made, undefined>>

Clear == /\ handlers' = [t \in Types |-> <<>>] /\ capacity' = [t \in Types |-> 0]
         /\ undefined' = (publishing # <<>>)
         /\ UNCHANGED <<publishing, made>>

---------------------------------------------------------------------------
\* The innermost Publish.
Outer == Front(publishing)
Inner == Last(publishing)

HandlerReturns ==
  /\ publishing # <<>>
  /\ LET position == Len(Inner.called)
     IN publishing' = IF position >= Inner.end THEN Outer
                      ELSE Append(Outer, [Inner EXCEPT !.called =
                                            Append(@, handlers[Inner.type][position + 1])])
  /\ UNCHANGED <<handlers, capacity, made, undefined>>

\* The exception leaves Publish; the handler that called Publish, if one did,
\* catches it, or throws next.
HandlerThrows == /\ publishing # <<>> /\ publishing' = Outer
                 /\ UNCHANGED <<handlers, capacity, made, undefined>>

Next == /\ ~undefined
        /\ \/ Clear \/ HandlerReturns \/ HandlerThrows
           \/ \E t \in Types : Subscribe(t) \/ Publish(t)
Spec == Init /\ [][Next]_vars

---------------------------------------------------------------------------
(* Types, a vector within its capacity, and an iterator of each Publish at *)
(* or before the end that it took.                                         *)
TypeOK ==
  /\ handlers \in [Types -> Seq(Nat)] /\ capacity \in [Types -> Nat]
  /\ \A t \in Types : Len(handlers[t]) <= capacity[t]
  /\ publishing \in Seq([type : Types, end : Nat, subscribed : Seq(Nat), called : Seq(Nat)])
  /\ \A i \in DOMAIN publishing : Len(publishing[i].called) \in 1..publishing[i].end
  /\ made \in Nat /\ undefined \in BOOLEAN

(* Every Publish calls the handlers that its type had when it began, each  *)
(* once and in the order of Subscribe, whatever its handlers subscribe to, *)
(* publish or throw, as long as none of them clears the bus or subscribes  *)
(* to a type being published whose vector is full.                         *)
CalledAsSubscribed ==
  ~undefined => \A i \in DOMAIN publishing :
                  IsPrefix(publishing[i].called, publishing[i].subscribed)

(* A Publish that ends without an exception has called them all.           *)
AllCalled == [][HandlerReturns /\ Len(publishing') < Len(publishing)
                => Inner.called = Inner.subscribed]_vars
=============================================================================
