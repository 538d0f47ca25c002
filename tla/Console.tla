------------------------------ MODULE Console ------------------------------
(***************************************************************************)
(* src/core/console.cpp and the CommandRegistry::Execute it is meant       *)
(* to call: a thread reads lines and hands them to the handler; the owner, *)
(* or a command itself, stops it.  ParseCommand is left out: a line is the *)
(* name of its command, or empty.                                          *)
(***************************************************************************)
EXTENDS Naturals, Sequences, FiniteSets

CONSTANTS Commands, \* "stop" calls Console::Stop, the others return or throw
          MaxLines, \* bound on lines typed
          MaxStarts \* bound on calls of Start
Blank == ""  \* an empty line
BoundAssumption == MaxLines \in Nat /\ MaxStarts \in Nat

VARIABLES
  running,  \* running_
  thread,   \* "none" (not joinable), "loop", "reading", "handling", "ended" (joinable)
  owner,    \* "idle", or "joining" inside Stop
  input,    \* lines typed and not read; eof: that it has ended
  eof,
  command,  \* the line being handled
  caught,   \* the handler is CommandRegistry::Execute, which catches
  typed,    \* history: every line typed
  handled,  \* history: the lines handled
  late,     \* history: lines handled since the owner's Stop stored FALSE
  stopped,  \* history: Stop has returned since the last Start
  starts, crashed
inputVars == <<input, eof, typed>>
vars == <<running, thread, owner, inputVars, command, caught, handled, late, stopped, starts, crashed>>

Joinable == thread # "none"
Init == /\ running = FALSE /\ thread = "none" /\ owner = "idle" /\ input = <<>> /\ eof = FALSE
        /\ command = Blank /\ caught \in BOOLEAN /\ typed = <<>> /\ handled = <<>> /\ late = 0
        /\ stopped = TRUE /\ starts = 0 /\ crashed = FALSE

Alive == ~crashed
Type(c) == /\ Alive /\ ~eof /\ Len(typed) < MaxLines /\ typed' = Append(typed, c) /\ input' = Append(input, c)
           /\ UNCHANGED <<running, thread, owner, eof, command, caught, handled, late, stopped, starts, crashed>>
InputEnds == /\ Alive /\ ~eof /\ eof' = TRUE
             /\ UNCHANGED <<running, thread, owner, input, typed, command, caught, handled, late, stopped, starts, crashed>>

\* Assigning to a thread that is joinable, ended or not, terminates.
Start == /\ Alive /\ owner = "idle" /\ starts < MaxStarts /\ starts' = starts + 1 /\ running' = TRUE /\ stopped' = FALSE
         /\ IF Joinable THEN crashed' = TRUE /\ UNCHANGED <<thread, late>>
                        ELSE thread' = "loop" /\ late' = 0 /\ UNCHANGED crashed
         /\ UNCHANGED <<owner, inputVars, command, caught, handled>>
Joins == IF Joinable THEN "joining" ELSE "idle"
StopStores == /\ Alive /\ owner = "idle" /\ starts > 0 /\ running' = FALSE /\ late' = 0 /\ owner' = Joins
              /\ UNCHANGED <<thread, inputVars, command, caught, handled, stopped, starts, crashed>>
StopJoins == /\ Alive /\ owner = "joining" /\ thread \in {"ended", "none"} /\ owner' = "idle" /\ thread' = "none"
             /\ stopped' = TRUE /\ UNCHANGED <<running, inputVars, command, caught, handled, late, starts, crashed>>

---------------------------------------------------------------------------
(* ReadLoop. *)
Moves(to) == /\ thread' = to /\ UNCHANGED <<owner, eof, typed, caught, stopped, starts>>
LoopTests == /\ Alive /\ thread = "loop" /\ Moves(IF running THEN "reading" ELSE "ended")
             /\ UNCHANGED <<running, input, command, handled, late, crashed>>
ReadsEnd == /\ Alive /\ thread = "reading" /\ input = <<>> /\ eof /\ Moves("ended")
            /\ UNCHANGED <<running, input, command, handled, late, crashed>>
TakesLine == input' = Tail(input)
Reads == /\ Alive /\ thread = "reading" /\ input # <<>> /\ TakesLine /\ command' = Head(input)
         /\ Moves(IF Head(input) = Blank THEN "loop" ELSE "handling")
         /\ UNCHANGED <<running, handled, late, crashed>>
Handled == /\ handled' = Append(handled, command)
           /\ late' = IF running' THEN late ELSE late + 1

HandlerReturns == /\ Alive /\ thread = "handling" /\ command # "stop" /\ Moves("loop")
                  /\ running' = running /\ Handled /\ UNCHANGED <<input, command, crashed>>
\* Faulty variant: Execute does not catch.
ThrowsThrough == /\ Alive /\ thread = "handling" /\ command # "stop" /\ Moves("loop")
                 /\ running' = running /\ Handled /\ crashed' = TRUE /\ UNCHANGED <<input, command>>
\* An exception ends the process unless Execute is there to catch it.
HandlerThrows == /\ Alive /\ thread = "handling" /\ command # "stop" /\ Moves("loop")
                 /\ running' = running /\ Handled /\ crashed' = ~caught /\ UNCHANGED <<input, command>>
\* Stop from the handler clears the flag and joins its own thread: it throws.
HandlerStops == /\ Alive /\ thread = "handling" /\ command = "stop" /\ Moves("loop")
                /\ running' = FALSE /\ handled' = Append(handled, command) /\ late' = late
                /\ crashed' = ~caught /\ UNCHANGED <<input, command>>

ThreadStep == LoopTests \/ ReadsEnd \/ Reads \/ HandlerReturns \/ HandlerThrows \/ HandlerStops
Next == \/ Start \/ StopStores \/ StopJoins \/ ThreadStep \/ InputEnds
        \/ \E c \in Commands \cup {Blank} : Type(c)
Spec == Init /\ [][Next]_vars /\ WF_vars(ThreadStep) /\ WF_vars(StopJoins)

---------------------------------------------------------------------------
(* Every variable has a value of its type; while Stop waits, the thread it *)
(* waits for is there to be joined.                                        *)
TypeOK == /\ running \in BOOLEAN /\ thread \in {"none", "loop", "reading", "handling", "ended"}
          /\ owner \in {"idle", "joining"} /\ starts \in 0..MaxStarts /\ crashed \in BOOLEAN
          /\ owner = "joining" => Joinable

(* What was handled is what was typed, without the empty lines, in order   *)
(* and once each, over stops and starts: nothing typed in between is lost. *)
(* The line at i, if it is not empty, is the one with as many as there are *)
(* lines that are not empty up to i.                                       *)
Busy == IF thread = "handling" THEN <<command>> ELSE <<>>
Nonempty(i) == {j \in 1..i : typed[j] # Blank}
HandledAsTyped ==
  LET read == Len(typed) - Len(input)
      taken == handled \o Busy
  IN /\ input = SubSeq(typed, read + 1, Len(typed))
     /\ Len(taken) = Cardinality(Nonempty(read))
     /\ \A i \in Nonempty(read) : taken[Cardinality(Nonempty(i))] = typed[i]

(* After the owner's Stop has cleared the flag one more command may be     *)
(* handled, of the line the thread was waiting for, and never a second.    *)
OneLate == ~running => late <= 1

(* No command is handled once Stop has returned, until the next Start.     *)
QuietWhenStopped == [][stopped => UNCHANGED handled]_vars

(* The process dies only by a Start with no Stop since the last one, also  *)
(* if the input has ended meanwhile, or by an exception of a handler that  *)
(* is not CommandRegistry::Execute: a command may stop the console itself. *)
DiesOnlyIf == [][crashed' # crashed => ~stopped /\ (starts' > starts \/ ~caught)]_vars

(* Stop returns once the input has ended or given one more line; it waits  *)
(* for the thread, which waits for a line.                                 *)
StopReturns == owner = "joining" /\ (eof \/ input # <<>>) ~> owner = "idle" \/ crashed
=============================================================================
