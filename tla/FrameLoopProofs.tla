--------------------------- MODULE FrameLoopProofs ---------------------------
(***************************************************************************)
(* Proofs about FrameLoop for every set of tasks and throwing tasks, every *)
(* set of delays and every bound on the clock: the iterator of the scan    *)
(* stays in the vector, each frame serves exactly what was due when it     *)
(* began, and serves it once, and no task that was handed over is lost.    *)
(***************************************************************************)
EXTENDS FrameLoop, SequenceTheorems, TLAPS

\* The erase of one element: what comes before stays, what follows moves up.
LEMMA RemoveAtIs ==
  ASSUME NEW S, NEW s \in Seq(S), NEW i \in 1..Len(s)
  PROVE  /\ RemoveAt(s, i) \in Seq(S)
         /\ Len(RemoveAt(s, i)) = Len(s) - 1
         /\ \A j \in 1..(Len(s) - 1) :
              RemoveAt(s, i)[j] = IF j < i THEN s[j] ELSE s[j + 1]
<1> DEFINE front == SubSeq(s, 1, i - 1)
           rest  == SubSeq(s, i + 1, Len(s))
<1>1. front \in Seq(S) /\ Len(front) = i - 1 /\ \A j \in 1..(i - 1) : front[j] = s[j]
  OBVIOUS
<1>2. rest \in Seq(S) /\ Len(rest) = Len(s) - i /\ \A j \in 1..(Len(s) - i) : rest[j] = s[i + j]
  OBVIOUS
<1>3. RemoveAt(s, i) = front \o rest
  BY DEF RemoveAt
<1> HIDE DEF front, rest
<1>4. front \o rest \in Seq(S) /\ Len(front \o rest) = Len(s) - 1
  <2>1. /\ front \o rest \in Seq(S)
        /\ Len(front \o rest) = Len(front) + Len(rest)
    BY <1>1, <1>2, ConcatProperties, Zenon
  <2>2. Len(front) + Len(rest) = Len(s) - 1
    BY <1>1, <1>2
  <2> QED
    BY <2>1, <2>2
<1>5. ASSUME NEW j \in 1..(Len(s) - 1)
      PROVE  (front \o rest)[j] = IF j < i THEN s[j] ELSE s[j + 1]
  <2> DEFINE joined == (front \o rest)[j]
  <2>1. ASSUME j < i PROVE joined = s[j]
    BY <2>1, <1>1, <1>2
  <2>2. ASSUME j >= i PROVE joined = s[j + 1]
    <3>1. (front \o rest)[j] = rest[j - (i - 1)]
      BY <2>2, <1>1, <1>2
    <3>2. j - (i - 1) \in 1..(Len(s) - i)
      BY <2>2
    <3> QED
      BY <2>2, <3>1, <3>2, <1>2
  <2> HIDE DEF joined
  <2>3. joined = IF j < i THEN s[j] ELSE s[j + 1]
    BY <2>1, <2>2
  <2> QED
    BY <2>3, Zenon DEF joined
<1>6. RemoveAt(s, i) \in Seq(S) /\ Len(RemoveAt(s, i)) = Len(s) - 1
  BY ONLY <1>3, <1>4, Zenon
<1>7. \A j \in 1..(Len(s) - 1) : RemoveAt(s, i)[j] = IF j < i THEN s[j] ELSE s[j + 1]
  BY ONLY <1>3, <1>5, Zenon
<1> QED
  BY ONLY <1>6, <1>7, Zenon

---------------------------------------------------------------------------
\* The vector holds each handed-over task once.
Distinct == /\ \A i \in 1..Len(tasks) : tasks[i] \in scheduled
            /\ \A i, j \in 1..Len(tasks) : tasks[i] = tasks[j] => i = j

\* What the scan has passed was not due; what lies ahead has not run in this
\* frame, and neither has anything that is still to be handed over.
ScanInv == /\ loop = "scan" => itValid
           /\ Scanning =>
                /\ thisFrame \subseteq scheduled
                /\ \A i \in 1..Len(tasks) :
                     /\ i < it => when[tasks[i]] > frameNow
                     /\ i > it \/ (i = it /\ loop = "scan") => tasks[i] \notin thisFrame

IInv == TypeOK /\ Distinct /\ ScanInv

\* Before Run there is nothing to scan.
LEMMA InitIInv == Init => IInv
<1> SUFFICES ASSUME Init PROVE IInv
  OBVIOUS
<1>1. tasks \in Seq(Task) /\ Len(tasks) = 0
  BY DEF Init
<1>2. TypeOK
  <2>1. /\ when \in [Task -> Nat] /\ itValid \in BOOLEAN
        /\ running \in BOOLEAN /\ shutdown \in BOOLEAN
    BY DEF Init
  <2>2. ~Scanning /\ loop \in LoopPlace
    BY DEF Init, Scanning, LoopPlace
  <2> QED
    BY <1>1, <2>1, <2>2 DEF Init, TypeOK, OutsidePlace
<1>3. Distinct /\ ScanInv
  BY <1>1 DEF Init, Distinct, ScanInv, Scanning
<1> QED
  BY <1>2, <1>3 DEF IInv

\* A task that is scheduled goes to the end of the vector and was not in it.
LEMMA ScheduleIInv ==
  ASSUME IInv, NEW t \in Task, NEW d \in Delay, Schedule(t, d)
  PROVE  IInv'
<1> USE DEF IInv
<1>1. /\ tasks' \in Seq(Task)
      /\ Len(tasks') = Len(tasks) + 1
      /\ \A i \in 1..Len(tasks) : tasks'[i] = tasks[i]
      /\ tasks'[Len(tasks) + 1] = t
  BY DEF Schedule, TypeOK
<1>2. /\ when' \in [Task -> Nat]
      /\ \A u \in Task : u # t => when'[u] = when[u]
  BY TimeAssumption DEF Schedule, TypeOK
<1>3. /\ t \notin scheduled /\ scheduled' = scheduled \cup {t}
      /\ loop \notin {"scan"} /\ loop' = loop
      /\ now' = now /\ frameNow' = frameNow /\ it' = it /\ back' = back
      /\ running' = running /\ shutdown' = shutdown
      /\ ran' = ran /\ thisFrame' = thisFrame
  BY DEF Schedule, Outside, OutsidePlace, histVars
<1>4. /\ capacity' \in Nat /\ itValid' \in BOOLEAN
      /\ Len(tasks') <= capacity'
      /\ loop = "task" /\ itValid' => itValid
  <2>1. CASE Len(tasks) = capacity
    <3>1. capacity' \in Nat /\ Len(tasks) + 1 <= capacity'
      BY <2>1 DEF Schedule, TypeOK, Grown
    <3>2. itValid' = (loop # "task")
      BY <2>1, Zenon DEF Schedule
    <3> QED
      BY <1>1, <3>1, <3>2
  <2>2. CASE Len(tasks) # capacity
    <3>1. capacity' = capacity /\ itValid' = itValid
      BY <2>2, Zenon DEF Schedule
    <3>2. Len(tasks) + 1 <= capacity
      BY <2>2 DEF TypeOK
    <3> QED
      BY <1>1, <3>1, <3>2 DEF TypeOK
  <2> QED
    BY <2>1, <2>2
<1>5. TypeOK'
  BY <1>1, <1>2, <1>3, <1>4 DEF TypeOK, Scanning
<1>6. Distinct'
  <2>1. \A i \in 1..Len(tasks) : tasks[i] \in scheduled /\ tasks[i] # t
    BY <1>3 DEF Distinct
  <2>2. \A i \in 1..Len(tasks') : i \in 1..Len(tasks) \/ i = Len(tasks) + 1
    BY <1>1 DEF TypeOK
  <2>3. ASSUME NEW i \in 1..Len(tasks')
        PROVE  /\ i \in 1..Len(tasks) => tasks'[i] = tasks[i] /\ tasks'[i] # t
               /\ i = Len(tasks) + 1 => tasks'[i] = t
    BY <1>1, <2>1
  <2>4. ASSUME NEW i \in 1..Len(tasks')
        PROVE  tasks'[i] \in scheduled'
    <3>1. CASE i \in 1..Len(tasks)
      BY <3>1, <1>1, <1>3, <2>1
    <3>2. CASE i = Len(tasks) + 1
      BY <3>2, <1>1, <1>3
    <3> QED
      BY <2>2, <3>1, <3>2
  <2>5. ASSUME NEW i \in 1..Len(tasks'), NEW j \in 1..Len(tasks'), tasks'[i] = tasks'[j]
        PROVE  i = j
    <3>1. CASE i \in 1..Len(tasks) /\ j \in 1..Len(tasks)
      <4>1. tasks[i] = tasks[j]
        BY <3>1, <2>3, <2>5
      <4> QED
        BY <3>1, <4>1 DEF Distinct
    <3>2. CASE i = Len(tasks) + 1 \/ j = Len(tasks) + 1
      BY <3>2, <2>2, <2>3, <2>5
    <3> QED
      BY <2>2, <3>1, <3>2
  <2> QED
    BY <2>4, <2>5 DEF Distinct
<1>7. ScanInv'
  <2> SUFFICES ASSUME loop = "task", itValid
               PROVE  /\ thisFrame' \subseteq scheduled'
                      /\ \A i \in 1..Len(tasks') :
                           /\ i < it' => when'[tasks'[i]] > frameNow'
                           /\ i > it' => tasks'[i] \notin thisFrame'
    BY <1>3, <1>4 DEF ScanInv, Scanning
  <2>1. Scanning /\ it <= Len(tasks)
    BY DEF Scanning, TypeOK
  <2>2. \A i \in 1..Len(tasks) : tasks[i] \in Task /\ tasks[i] # t
    BY <1>3 DEF Distinct, TypeOK
  <2>3. /\ thisFrame \subseteq scheduled
        /\ \A i \in 1..Len(tasks) : /\ i < it => when[tasks[i]] > frameNow
                                    /\ i > it => tasks[i] \notin thisFrame
    BY <2>1 DEF ScanInv
  <2>4. ASSUME NEW i \in 1..Len(tasks)
        PROVE  /\ i < it' => when'[tasks'[i]] > frameNow'
               /\ i > it' => tasks'[i] \notin thisFrame'
    BY <1>1, <1>2, <1>3, <2>2, <2>3
  <2>5. /\ ~(Len(tasks) + 1 < it')
        /\ tasks'[Len(tasks) + 1] \notin thisFrame'
    BY <1>1, <1>3, <2>1, <2>3 DEF TypeOK
  <2>6. \A i \in 1..Len(tasks') : i \in 1..Len(tasks) \/ i = Len(tasks) + 1
    BY <1>1 DEF TypeOK
  <2> QED
    BY <1>3, <2>3, <2>4, <2>5, <2>6
<1> QED
  BY <1>5, <1>6, <1>7

\* The erase leaves the iterator on the element behind the erased one.
LEMMA ReturnIInv ==
  ASSUME IInv, TaskReturns
  PROVE  IInv'
<1> USE DEF IInv
<1>1. Scanning /\ it \in 1..Len(tasks) /\ tasks \in Seq(Task)
  BY DEF TaskReturns, Scanning, TypeOK
<1>2. /\ tasks' \in Seq(Task)
      /\ Len(tasks') = Len(tasks) - 1
      /\ \A j \in 1..(Len(tasks) - 1) : tasks'[j] = IF j < it THEN tasks[j] ELSE tasks[j + 1]
  BY <1>1, RemoveAtIs DEF TaskReturns
<1>3. /\ loop' = "scan" /\ itValid' /\ it' = it /\ frameNow' = frameNow /\ back' = back
      /\ when' = when /\ scheduled' = scheduled /\ capacity' = capacity
      /\ ran' = ran /\ thisFrame' = thisFrame /\ now' = now
      /\ running' = running /\ shutdown' = shutdown
  BY DEF TaskReturns, scanVars, histVars
<1>4. TypeOK'
  BY <1>1, <1>2, <1>3 DEF TypeOK, Scanning, LoopPlace
<1>5. Distinct'
  BY <1>1, <1>2, <1>3, SMTT(20) DEF Distinct
<1>6. ScanInv'
  BY <1>1, <1>2, <1>3 DEF ScanInv, Scanning
<1> QED
  BY <1>4, <1>5, <1>6

\* A cleared vector is trivially scanned.
LEMMA ClearIInv ==
  ASSUME IInv, Clear
  PROVE  IInv'
<1>1. tasks' \in Seq(Task) /\ Len(tasks') = 0
  BY DEF Clear
<1>2. loop' = loop /\ loop # "scan" /\ ~Scanning' /\ itValid' \in BOOLEAN
  BY DEF Clear, Outside, OutsidePlace, Scanning
<1>3. TypeOK'
  BY <1>1, <1>2 DEF Clear, IInv, TypeOK, histVars
<1>4. Distinct' /\ ScanInv'
  BY <1>1, <1>2 DEF Distinct, ScanInv
<1> QED
  BY <1>3, <1>4 DEF IInv

\* Every step keeps the invariant.
LEMMA NextIInv == IInv /\ [Next]_vars => IInv'
<1> SUFFICES ASSUME IInv, [Next]_vars PROVE IInv'
  OBVIOUS
<1> USE DEF IInv, TypeOK, Distinct, ScanInv, Scanning, LoopPlace, vecVars, scanVars, histVars
<1>1. CASE Tick
  BY <1>1 DEF Tick
<1>2. ASSUME NEW t \in Task, NEW d \in Delay, Schedule(t, d)
      PROVE  IInv'
  BY <1>2, ScheduleIInv
<1>3. CASE Clear
  BY <1>3, ClearIInv
<1>4. CASE Run \/ Load \/ LoopEnds \/ FrameEnds
  BY <1>4 DEF Run, Load, LoopEnds, FrameEnds, OutsidePlace
<1>5. CASE FrameBegins \/ UpdateCalled
  <2>1. loop \in OutsidePlace \cup {"test"} /\ Update
    BY <1>5 DEF FrameBegins, UpdateCalled, Outside
  <2> QED
    BY <2>1 DEF Update
<1>6. CASE TaskBegins
  BY <1>6 DEF TaskBegins
<1>7. CASE TaskSkipped
  BY <1>7 DEF TaskSkipped, Due
<1>8. CASE TaskReturns
  BY <1>8, ReturnIInv
<1>9. CASE TaskThrows \/ TaskReturnsToFreedVector
  BY <1>9 DEF TaskThrows, TaskReturnsToFreedVector, OutsidePlace
<1>10. CASE Stop \/ Signal
  <2>1. /\ running' \in BOOLEAN /\ shutdown' \in BOOLEAN
        /\ UNCHANGED <<now, vecVars, scanVars, loop, histVars>>
    BY <1>10 DEF Stop, Signal
  <2>2. TypeOK' /\ Distinct' /\ ScanInv'
    BY <2>1
  <2> QED
    BY <2>2
<1>11. CASE UNCHANGED vars
  BY <1>11 DEF vars
<1> QED
  BY <1>1, <1>2, <1>3, <1>4, <1>5, <1>6, <1>7, <1>8, <1>9, <1>10, <1>11
     DEF Next, LoopStep, TaskEnds

\* IInv holds in every reachable state.
THEOREM Invariance == Spec => []IInv
BY InitIInv, NextIInv, PTL DEF Spec

\* Types, and an iterator that never leaves the vector.
THEOREM TypeCorrect == Spec => []TypeOK
<1>1. IInv => TypeOK
  BY DEF IInv
<1> QED
  BY Invariance, <1>1, PTL

\* A frame that runs to its end leaves nothing behind that was due when it
\* began, and no frame runs a task that was not.
THEOREM FramesServeDue == Spec => FrameServesDue
<1> DEFINE Served == /\ loop = "scan" /\ loop' \notin {"scan", "task"} =>
                           \A i \in 1..Len(tasks) : when[tasks[i]] > frameNow
                     /\ loop = "scan" /\ loop' = "task" => when[tasks[it]] <= frameNow
<1>1. IInv /\ [Next]_vars => [Served]_vars
  <2> SUFFICES ASSUME IInv, Next, loop = "scan", loop' # "scan" PROVE Served
    OBVIOUS
  <2>1. FrameEnds \/ TaskBegins
    BY DEF Next, LoopStep, TaskEnds, Tick, Schedule, Clear, Outside, OutsidePlace, Run, Load,
           UpdateCalled, FrameBegins, Update,
           LoopEnds, TaskSkipped, TaskReturns, TaskThrows, TaskReturnsToFreedVector, Stop,
           Signal
  <2>2. CASE FrameEnds
    BY <2>2 DEF FrameEnds, IInv, TypeOK, OutsidePlace, ScanInv, Scanning
  <2>3. CASE TaskBegins
    BY <2>3 DEF TaskBegins, Due
  <2> QED
    BY <2>1, <2>2, <2>3
<1> QED
  BY Invariance, <1>1, PTL DEF Spec, FrameServesDue

\* Once a signal has come and no frame of Run's loop is in progress, none
\* ever is, not even after another Run: only FrameBegins lets Update return
\* to the loop's test, and it looks at g_shutdownRequested, which nothing
\* resets.
THEOREM SignalFinal == Spec => SignalIsFinal
<1> DEFINE Quiet == shutdown /\ ~InFrame
<1>1. IInv /\ Quiet /\ [Next]_vars => Quiet'
  <2> SUFFICES ASSUME IInv, Quiet, [Next]_vars PROVE Quiet'
    OBVIOUS
  <2> USE DEF InFrame
  <2>1. CASE Run \/ Load \/ LoopEnds
    BY <2>1 DEF Run, Load, LoopEnds, scanVars
  <2>2. CASE UpdateCalled
    BY <2>2 DEF UpdateCalled, Update, Outside, OutsidePlace
  <2>3. CASE FrameBegins
    BY <2>3 DEF FrameBegins, Continue
  <2>4. CASE TaskBegins \/ TaskSkipped \/ TaskReturns
    BY <2>4 DEF TaskBegins, TaskSkipped, TaskReturns, scanVars
  <2>5. CASE TaskThrows \/ TaskReturnsToFreedVector \/ FrameEnds
    BY <2>5 DEF TaskThrows, TaskReturnsToFreedVector, FrameEnds, scanVars, IInv, TypeOK,
                OutsidePlace
  <2>6. CASE Stop \/ Signal \/ Tick
    BY <2>6 DEF Stop, Signal, Tick, scanVars
  <2>7. CASE Clear
    BY <2>7 DEF Clear
  <2>8. CASE \E t \in Task, d \in Delay : Schedule(t, d)
    BY <2>8 DEF Schedule
  <2>9. CASE UNCHANGED vars
    BY <2>9 DEF vars, scanVars
  <2> QED
    BY <2>1, <2>2, <2>3, <2>4, <2>5, <2>6, <2>7, <2>8, <2>9 DEF Next, LoopStep, TaskEnds
<1>2. Quiet => ~InFrame
  OBVIOUS
<1> QED
  BY Invariance, <1>1, <1>2, PTL DEF Spec, SignalIsFinal

\* No task runs twice in one frame.
THEOREM RunsOnceAFrame == Spec => OnceAFrame
<1> DEFINE Once == loop = "scan" /\ loop' = "task" => tasks[it] \notin thisFrame
<1>1. IInv /\ [Next]_vars => [Once]_vars
  <2> SUFFICES ASSUME IInv, Next, loop = "scan", loop' = "task" PROVE Once
    OBVIOUS
  <2>1. back # "task"
    BY DEF IInv, TypeOK, OutsidePlace
  <2>2. TaskBegins
    BY <2>1 DEF Next, LoopStep, TaskEnds, Tick, Schedule, Clear, Outside, OutsidePlace, Run, Load,
           UpdateCalled, FrameBegins, Update,
           LoopEnds, TaskSkipped, FrameEnds, TaskReturns, TaskThrows,
           TaskReturnsToFreedVector, Stop, Signal
  <2> QED
    BY <2>2 DEF TaskBegins, IInv, TypeOK, ScanInv, Scanning
<1> QED
  BY Invariance, <1>1, PTL DEF Spec, OnceAFrame
---------------------------------------------------------------------------
\* NothingLost.

\* What was handed over and has not run is in the vector, and what has run
\* is in it only if it threw or runs now.  A task run and no longer known can
\* only have been cleared: after it threw, or by a task under whose iterator
\* the vector then changed.  The task whose iterator the scan holds has run.
InOrRun == \A t \in scheduled : t \in ran \/ \E i \in 1..Len(tasks) : tasks[i] = t
RunOnly == \A i \in 1..Len(tasks) :
              tasks[i] \in ran => tasks[i] \in Throwing \/ (loop = "task" /\ i = it)
RanKnown == \A t \in ran : t \in scheduled \/ t \in Throwing
RunsNow == loop = "task" => tasks[it] \in ran
Keeps == loop # "undefined" => /\ InOrRun
                               /\ (loop = "task" => itValid) => RunOnly /\ RanKnown /\ RunsNow

\* Nothing has been handed over at first.
LEMMA InitKeeps == Init => Keeps
BY DEF Init, Keeps, InOrRun, RunOnly, RanKnown, RunsNow

\* What is handed over is in the vector, and has not run unless it threw.
LEMMA ScheduleKeeps ==
  ASSUME IInv, Keeps, NEW t \in Task, NEW d \in Delay, Schedule(t, d)
  PROVE  Keeps'
<1>1. /\ Len(tasks') = Len(tasks) + 1 /\ Len(tasks) \in Nat
      /\ \A i \in 1..Len(tasks) : tasks'[i] = tasks[i]
      /\ tasks'[Len(tasks) + 1] = t
  BY DEF Schedule, IInv, TypeOK
<1>2. /\ t \notin scheduled /\ scheduled' = scheduled \cup {t}
      /\ loop' = loop /\ loop # "undefined" /\ ran' = ran /\ it' = it
      /\ loop = "task" /\ itValid' => itValid
  BY DEF Schedule, histVars, Outside, OutsidePlace
<1>3. \A i \in 1..Len(tasks') : i \in 1..Len(tasks) \/ i = Len(tasks) + 1
  BY <1>1
<1>4. 1..Len(tasks) \subseteq 1..Len(tasks') /\ Len(tasks) + 1 \in 1..Len(tasks')
  BY <1>1
<1>5. InOrRun'
  <2>1. InOrRun
    BY <1>2 DEF Keeps
  <2> QED
    BY <2>1, <1>1, <1>2, <1>4 DEF InOrRun
<1>6. ASSUME loop' = "task" => itValid'
      PROVE  RunOnly' /\ RanKnown' /\ RunsNow'
  <2>1. RunOnly /\ RanKnown /\ RunsNow
    BY <1>2, <1>6 DEF Keeps
  <2>2. t \in ran => t \in Throwing
    BY <1>2, <2>1 DEF RanKnown
  <2>3. RunOnly'
    <3> SUFFICES ASSUME NEW i \in 1..Len(tasks'), tasks'[i] \in ran'
                 PROVE  tasks'[i] \in Throwing \/ (loop' = "task" /\ i = it')
      BY DEF RunOnly
    <3>1. CASE i \in 1..Len(tasks)
      BY <3>1, <1>1, <1>2, <2>1 DEF RunOnly
    <3>2. CASE i = Len(tasks) + 1
      BY <3>2, <1>1, <1>2, <2>2
    <3> QED
      BY <1>3, <3>1, <3>2
  <2>4. RanKnown'
    BY <1>2, <2>1 DEF RanKnown
  <2>5. RunsNow'
    <3> SUFFICES ASSUME loop = "task" PROVE tasks'[it] \in ran
      BY <1>2 DEF RunsNow
    <3>1. it \in 1..Len(tasks)
      BY <1>2, <1>6 DEF IInv, TypeOK, Scanning
    <3> QED
      BY <3>1, <1>1, <2>1 DEF RunsNow
  <2> QED
    BY <2>3, <2>4, <2>5
<1> QED
  BY <1>5, <1>6 DEF Keeps

\* The erased task has run; the others move up and stay.
LEMMA ReturnKeeps ==
  ASSUME IInv, Keeps, TaskReturns
  PROVE  Keeps'
<1>1. it \in 1..Len(tasks) /\ tasks \in Seq(Task) /\ Len(tasks) \in Nat
  BY DEF TaskReturns, Scanning, IInv, TypeOK
<1>2. /\ Len(tasks') = Len(tasks) - 1
      /\ \A j \in 1..(Len(tasks) - 1) : tasks'[j] = IF j < it THEN tasks[j] ELSE tasks[j + 1]
  BY <1>1, RemoveAtIs DEF TaskReturns
<1>3. /\ loop = "task" /\ itValid /\ loop' = "scan" /\ itValid' = itValid /\ it' = it
      /\ scheduled' = scheduled /\ ran' = ran
  BY DEF TaskReturns, scanVars, histVars
<1>4. InOrRun /\ RunOnly /\ RanKnown /\ tasks[it] \in ran
  BY <1>3 DEF Keeps, RunsNow
<1>5. RanKnown'
  BY <1>3, <1>4 DEF RanKnown
<1>6. RunOnly'
  <2> SUFFICES ASSUME NEW i \in 1..Len(tasks'), tasks'[i] \in ran
               PROVE  tasks'[i] \in Throwing
    BY <1>3 DEF RunOnly
  <2>1. i \in 1..(Len(tasks) - 1)
    BY <1>1, <1>2
  <2>2. CASE i < it
    <3>1. tasks'[i] = tasks[i] /\ i \in 1..Len(tasks) /\ i # it
      BY <1>1, <1>2, <2>1, <2>2
    <3> QED
      BY <3>1, <1>4 DEF RunOnly
  <2>3. CASE ~(i < it)
    <3>1. tasks'[i] = tasks[i + 1] /\ i + 1 \in 1..Len(tasks) /\ i + 1 # it
      BY <1>1, <1>2, <2>1, <2>3
    <3> QED
      BY <3>1, <1>4 DEF RunOnly
  <2> QED
    BY <2>2, <2>3
<1>7. InOrRun'
  <2> SUFFICES ASSUME NEW t \in scheduled, t \notin ran
               PROVE  \E j \in 1..Len(tasks') : tasks'[j] = t
    BY <1>3 DEF InOrRun
  <2>1. PICK i \in 1..Len(tasks) : tasks[i] = t
    BY <1>4 DEF InOrRun
  <2>2. tasks[it] \in ran
    BY <1>4
  <2>3. CASE i < it
    <3>1. i \in 1..(Len(tasks) - 1) /\ tasks'[i] = t
      BY <1>1, <1>2, <2>1, <2>3
    <3> QED
      BY <3>1, <1>2
  <2>4. CASE i > it
    <3>1. i - 1 \in 1..(Len(tasks) - 1) /\ tasks'[i - 1] = t
      BY <1>1, <1>2, <2>1, <2>4
    <3> QED
      BY <3>1, <1>2
  <2> QED
    BY <1>1, <2>1, <2>2, <2>3, <2>4
<1> QED
  BY <1>3, <1>5, <1>6, <1>7 DEF Keeps, RunsNow

\* Who is cleared is no longer known; what has run among it had thrown, or
\* the iterator of the running task is gone with the vector.
LEMMA ClearKeeps ==
  ASSUME IInv, Keeps, Clear
  PROVE  Keeps'
<1>1. /\ loop' = loop /\ loop # "undefined" /\ loop # "scan" /\ ran' = ran
      /\ itValid' = (loop # "task") /\ Len(tasks') = 0
      /\ scheduled' = scheduled \ ToSet(tasks)
  BY DEF Clear, Outside, OutsidePlace, histVars
<1>2. \A t : t \in ToSet(tasks) <=> \E i \in 1..Len(tasks) : tasks[i] = t
  BY DEF ToSet, IInv, TypeOK
<1>3. InOrRun'
  BY <1>1, <1>2 DEF Keeps, InOrRun
<1>4. ASSUME loop # "task"
      PROVE  RunOnly' /\ RanKnown' /\ RunsNow'
  <2>1. RunOnly /\ RanKnown
    BY <1>1, <1>4 DEF Keeps
  <2>2. RunOnly' /\ RunsNow'
    BY <1>1, <1>4 DEF RunOnly, RunsNow
  <2>3. ASSUME NEW t \in ran, t \notin Throwing
        PROVE  t \in scheduled /\ t \notin ToSet(tasks)
    BY <1>2, <1>4, <2>1, <2>3 DEF RunOnly, RanKnown
  <2>4. RanKnown'
    BY <1>1, <2>3 DEF RanKnown
  <2> QED
    BY <2>2, <2>4
<1> QED
  BY <1>1, <1>3, <1>4 DEF Keeps

\* The task that begins is handed over and is the one at the iterator.
LEMMA BeginKeeps ==
  ASSUME IInv, Keeps, TaskBegins
  PROVE  Keeps'
<1>1. /\ loop = "scan" /\ loop' = "task" /\ it \in 1..Len(tasks)
      /\ ran' = ran \cup {tasks[it]}
      /\ UNCHANGED <<tasks, scheduled, it, itValid>>
  BY DEF TaskBegins, vecVars, scanVars, IInv, TypeOK
<1>2. InOrRun /\ RunOnly /\ RanKnown /\ tasks[it] \in scheduled
  BY <1>1 DEF Keeps, IInv, Distinct
<1>3. InOrRun'
  BY <1>1, <1>2 DEF InOrRun
<1>4. RunOnly'
  <2> SUFFICES ASSUME NEW i \in 1..Len(tasks), tasks[i] \in ran \/ tasks[i] = tasks[it]
               PROVE  tasks[i] \in Throwing \/ i = it
    BY <1>1 DEF RunOnly
  <2> QED
    BY <1>1, <1>2 DEF RunOnly, IInv, Distinct
<1>5. RanKnown' /\ RunsNow'
  BY <1>1, <1>2 DEF RanKnown, RunsNow
<1> QED
  BY <1>3, <1>4, <1>5 DEF Keeps

\* A task that throws stays in the vector, as one that has run.
LEMMA ThrowKeeps ==
  ASSUME IInv, Keeps, TaskThrows
  PROVE  Keeps'
<1>1. /\ loop = "task" /\ itValid /\ tasks[it] \in Throwing
      /\ loop' \notin {"task", "undefined"}
      /\ UNCHANGED <<tasks, scheduled, ran, it>>
  BY DEF TaskThrows, vecVars, scanVars, histVars, IInv, TypeOK, OutsidePlace
<1>2. InOrRun /\ RunOnly /\ RanKnown
  BY <1>1 DEF Keeps
<1>3. InOrRun' /\ RanKnown'
  BY <1>1, <1>2 DEF InOrRun, RanKnown
<1>4. RunOnly' /\ RunsNow'
  BY <1>1, <1>2 DEF RunOnly, RunsNow
<1> QED
  BY <1>3, <1>4 DEF Keeps

\* A step between two tasks hands nothing over and runs nothing.
LEMMA BetweenKeeps ==
  ASSUME Keeps, UNCHANGED <<tasks, scheduled, ran>>,
         loop \notin {"task", "undefined"}, loop' # "task"
  PROVE  Keeps'
<1>1. InOrRun /\ RunOnly /\ RanKnown
  BY DEF Keeps
<1>2. InOrRun' /\ RanKnown'
  BY <1>1 DEF InOrRun, RanKnown
<1>3. RunOnly' /\ RunsNow'
  BY <1>1 DEF RunOnly, RunsNow
<1> QED
  BY <1>2, <1>3 DEF Keeps

\* A step that leaves the scan alone.
LEMMA AsideKeeps ==
  ASSUME Keeps, UNCHANGED <<vecVars, scanVars, loop, histVars>>
  PROVE  Keeps'
BY DEF Keeps, InOrRun, RunOnly, RanKnown, RunsNow, vecVars, scanVars, histVars

\* Every step keeps it.
LEMMA NextKeeps == IInv /\ Keeps /\ [Next]_vars => Keeps'
<1> SUFFICES ASSUME IInv, Keeps, [Next]_vars PROVE Keeps'
  OBVIOUS
<1>1. CASE Tick \/ Stop \/ Signal \/ UNCHANGED vars
  BY <1>1, AsideKeeps DEF Tick, Stop, Signal, vars
<1>2. ASSUME NEW t \in Task, NEW d \in Delay, Schedule(t, d)
      PROVE  Keeps'
  BY <1>2, ScheduleKeeps
<1>3. CASE Clear
  BY <1>3, ClearKeeps
<1>4. CASE Run \/ Load \/ LoopEnds \/ TaskSkipped \/ FrameEnds
  <2>1. /\ UNCHANGED <<tasks, scheduled, ran>>
        /\ loop \notin {"task", "undefined"} /\ loop' # "task"
    BY <1>4 DEF Run, Load, LoopEnds, TaskSkipped, FrameEnds, vecVars, histVars,
                IInv, TypeOK, OutsidePlace
  <2> QED
    BY <2>1, BetweenKeeps
<1>5. CASE FrameBegins \/ UpdateCalled
  <2>1. /\ UNCHANGED <<tasks, scheduled, ran>>
        /\ loop \notin {"task", "undefined"} /\ loop' # "task"
    BY <1>5 DEF FrameBegins, UpdateCalled, Outside, OutsidePlace, Update, vecVars
  <2> QED
    BY <2>1, BetweenKeeps
<1>6. CASE TaskBegins
  BY <1>6, BeginKeeps
<1>7. CASE TaskReturns
  BY <1>7, ReturnKeeps
<1>8. CASE TaskThrows
  BY <1>8, ThrowKeeps
<1>9. CASE TaskReturnsToFreedVector
  BY <1>9 DEF TaskReturnsToFreedVector, Keeps
<1> QED
  BY <1>1, <1>2, <1>3, <1>4, <1>5, <1>6, <1>7, <1>8, <1>9 DEF Next, LoopStep, TaskEnds

\* A task that was handed over is in the vector once or has run, and is both
\* only if it threw or runs now.
THEOREM NothingIsLost == Spec => []NothingLost
<1>1. IInv /\ Keeps => NothingLost
  <2> SUFFICES ASSUME IInv, Keeps, loop # "undefined"
               PROVE  /\ IsInjective(tasks)
                      /\ scheduled = ToSet(tasks) \cup {t \in scheduled : t \in ran}
                      /\ ToSet(tasks) \subseteq scheduled
                      /\ Scanning => RunOnly
    BY DEF NothingLost, RunOnly
  <2>1. DOMAIN tasks = 1..Len(tasks)
    BY DEF IInv, TypeOK
  <2>2. \A t : t \in ToSet(tasks) <=> \E i \in 1..Len(tasks) : tasks[i] = t
    BY <2>1 DEF ToSet
  <2>3. IsInjective(tasks)
    BY <2>1 DEF IInv, Distinct, IsInjective
  <2>4. ToSet(tasks) \subseteq scheduled
    BY <2>2 DEF IInv, Distinct
  <2>5. scheduled = ToSet(tasks) \cup {t \in scheduled : t \in ran}
    BY <2>2, <2>4 DEF Keeps, InOrRun
  <2>6. Scanning => RunOnly
    BY DEF Keeps, Scanning
  <2> QED
    BY <2>3, <2>4, <2>5, <2>6
<1>2. Spec => []Keeps
  BY InitKeeps, NextKeeps, Invariance, PTL DEF Spec
<1> QED
  BY Invariance, <1>1, <1>2, PTL
=============================================================================
