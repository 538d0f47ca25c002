---------------------------- MODULE UpdateCheck ----------------------------
(***************************************************************************)
(* src/core/update_checker.cpp: CheckForUpdates and DownloadUpdate, each   *)
(* with an HttpClient of its own that it starts, hands one request, leaves *)
(* alone for two or five seconds, stops and destroys.  Nothing relates the *)
(* sleep to the request, so it may end at any time.                        *)
(***************************************************************************)
EXTENDS HttpClient

VARIABLES kind,   \* "check" or "download"
          phase,  \* where the calling thread is
          told    \* how often callback_ has been called

checkVars == <<vars, kind, phase, told>>

InitCheck == /\ Init
             /\ kind \in {"check", "download"}
             /\ phase = "idle" /\ told = 0

Begins == phase = "idle" /\ Start /\ phase' = "started" /\ UNCHANGED <<kind, told>>
Gets == /\ phase = "started"
        /\ \E c \in Call : Request(c)
        /\ phase' = "sleeping"
        /\ UNCHANGED <<kind, told>>
SleepEnds == phase = "sleeping" /\ StopStores /\ phase' = "stopping" /\ UNCHANGED <<kind, told>>
Returns == /\ phase = "stopping" /\ owner = "idle"
           /\ phase' = "returned"
           /\ UNCHANGED <<vars, kind, told>>

\* The callback handed to Get: only success with status 200 is reported to
\* callback_; DownloadUpdate's only logs.
Reports == kind = "check" /\ response.success /\ response.statusCode = 200

Answers == /\ CallbackReturns
           /\ told' = told + (IF Reports THEN 1 ELSE 0)
           /\ UNCHANGED <<kind, phase>>

Client == /\ OwnerStep \/ WorkerStep \/ SpuriousWakeup \/ PerformReturns
             \/ PerformKills \/ CallbackKills
          /\ UNCHANGED <<kind, phase, told>>

NextCheck == ~dead /\ (Begins \/ Gets \/ SleepEnds \/ Returns \/ Answers \/ Client)

\* As in HttpClient; a thread that waits for the mutex gets it although the
\* worker may take it again and again (spurious wake-ups).
CheckFairness == /\ SF_checkVars(~dead /\ Gets)
                 /\ WF_checkVars(~dead /\ (SleepEnds \/ Returns))
                 /\ WF_checkVars(~dead /\ OwnerStep /\ UNCHANGED <<kind, phase, told>>)
                 /\ WF_checkVars(~dead /\ WorkerStep /\ UNCHANGED <<kind, phase, told>>)
                 /\ WF_checkVars(~dead /\ (PerformReturns \/ PerformKills) /\ UNCHANGED <<kind, phase, told>>)
                 /\ WF_checkVars(~dead /\ Answers)
SpecCheck == InitCheck /\ [][NextCheck]_checkVars /\ CheckFairness

---------------------------------------------------------------------------
\* callback_ captures its caller's state by reference (the launchers pass
\* such lambdas): it never runs once the call has returned, and the client
\* then has no thread left.
NothingAfterReturn == [][phase = "returned" => UNCHANGED <<told, answered, worker>>]_checkVars

\* A request is either answered by the time the call returns or was never
\* taken from the queue, in which case its callback is destroyed uncalled: the
\* caller may not wait for the callback to know that a check is over.
AnsweredOrDropped == phase = "returned" => (answered # <<>>) # (queue # <<>>)

\* What is reported is the answer to this call's request, and a success.
ToldTheTruth == told > 0 => kind = "check" /\ Len(answered) = told /\ response.statusCode = 200

\* The call gets as far as stopping its client, and returns unless the
\* wake-up of that Stop falls into the worker's gap: then it hangs in the
\* join, for good.
CheckReturns == /\ (phase = "started") ~> (phase = "stopping" \/ dead)
                /\ (owner = "stopping" /\ worker # "block") ~> (phase = "returned" \/ dead)
=============================================================================
