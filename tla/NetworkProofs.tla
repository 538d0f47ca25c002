---------------------------- MODULE NetworkProofs ----------------------------
(***************************************************************************)
(* What is proved of the parts of MCNetwork, for any number of calls,      *)
(* clients, descriptors, connections, packets and Starts.  Each part has   *)
(* an inductive invariant; the theorems at the end put them together.      *)
(***************************************************************************)
EXTENDS MCNetwork, FiniteSets, SequenceTheorems, TLAPS

---------------------------------------------------------------------------
(* HttpClient                                                              *)


\* Types of what the proofs speak of.
HttpTyped ==
  /\ httpRunning \in BOOLEAN
  /\ httpQueue \in Seq(Call) /\ asked \in Seq(Call) /\ answered \in Seq(Call)
  /\ worker \in {"none", "test", "check", "block", "wait", "perform", "callback", "exited"}
  /\ httpOwner \in {"idle", "stopping", "joining"}

\* The calls made are, in this order, those answered, the one in flight and
\* those queued.
HttpInOrder ==
  /\ Len(asked) = Len(answered) + Http!InFlight + Len(httpQueue)
  /\ \A i \in 1..Len(answered) : answered[i] = asked[i]
  /\ \A i \in 1..Len(httpQueue) : httpQueue[i] = asked[Len(answered) + Http!InFlight + i]

\* Once Stop has returned there is no worker until the next Start.
HttpJoined == httpOwner = "idle" /\ ~httpRunning => worker = "none"

HttpInv == HttpTyped /\ HttpInOrder /\ HttpJoined

\* What a history of calls and a queue are.
LEMMA HttpLengths ==
  ASSUME HttpTyped
  PROVE  /\ Len(asked) \in Nat /\ Len(answered) \in Nat /\ Len(httpQueue) \in Nat
         /\ Http!InFlight \in Nat
BY DEF HttpTyped, Http!InFlight

\* A step that neither makes nor takes nor answers a call keeps the order.
LEMMA HttpOrderKept ==
  ASSUME HttpInOrder, UNCHANGED <<asked, answered, httpQueue>>, Http!InFlight' = Http!InFlight
  PROVE  HttpInOrder'
BY DEF HttpInOrder

---------------------------------------------------------------------------
\* At first nothing is asked.
LEMMA HttpInitInv == Http!Init => HttpInv
<1> SUFFICES ASSUME Http!Init PROVE HttpInv
  OBVIOUS
<1>1. HttpTyped /\ HttpJoined
  <2>1. /\ httpRunning = FALSE /\ worker = "none" /\ httpOwner = "idle"
        /\ httpQueue = <<>> /\ asked = <<>> /\ answered = <<>>
    BY DEF Http!Init
  <2>2. <<>> \in Seq(Call)
    BY EmptySeq
  <2> QED
    BY <2>1, <2>2 DEF HttpTyped, HttpJoined
<1>2. Len(asked) = 0 /\ Len(answered) = 0 /\ Len(httpQueue) = 0 /\ Http!InFlight = 0
  BY DEF Http!Init, Http!InFlight
<1>3. HttpInOrder
  BY <1>2 DEF HttpInOrder
<1> QED
  BY <1>1, <1>3 DEF HttpInv

\* Start and the two steps of Stop before the join.
LEMMA HttpOwnerInv ==
  ASSUME HttpInv, Http!Start \/ Http!StopStores \/ Http!StopNotifies
  PROVE  HttpInv'
<1>1. HttpTyped'
  BY DEF HttpInv, HttpTyped, Http!Start, Http!StopStores, Http!StopNotifies, Http!requestVars,
     Http!workerVars, Http!Notified
<1>2. UNCHANGED <<asked, answered, httpQueue>> /\ Http!InFlight' = Http!InFlight
  BY DEF Http!Start, Http!StopStores, Http!StopNotifies, Http!requestVars, Http!workerVars,
     Http!Notified, Http!InFlight
<1>3. HttpJoined'
  BY DEF HttpJoined, Http!Start, Http!StopStores, Http!StopNotifies
<1> QED
  BY <1>1, <1>2, <1>3, HttpOrderKept DEF HttpInv

\* The join: the worker has ended.
LEMMA HttpJoinInv ==
  ASSUME HttpInv, Http!StopJoins
  PROVE  HttpInv'
<1>1. HttpTyped' /\ HttpJoined'
  BY DEF HttpInv, HttpTyped, HttpJoined, Http!StopJoins, Http!requestVars
<1>2. UNCHANGED <<asked, answered, httpQueue>> /\ Http!InFlight' = Http!InFlight
  BY DEF Http!StopJoins, Http!requestVars, Http!InFlight
<1> QED
  BY <1>1, <1>2, HttpOrderKept DEF HttpInv

\* The new call is the last one made and the last one queued.
LEMMA HttpRequestInv ==
  ASSUME HttpInv, NEW c \in Call, Http!Request(c)
  PROVE  HttpInv'
<1> DEFINE n == Len(answered) + Http!InFlight
<1>1. /\ httpQueue' = Append(httpQueue, c) /\ asked' = Append(asked, c)
      /\ UNCHANGED <<httpRunning, httpOwner, answered>> /\ worker' = Http!Notified
  BY DEF Http!Request
<1>2. Http!InFlight' = Http!InFlight /\ worker' \in {worker, "check"} /\ (worker = "none" => worker' = "none")
  BY <1>1 DEF Http!Notified, Http!InFlight
<1>3. /\ httpQueue \in Seq(Call) /\ asked \in Seq(Call) /\ Len(answered) \in Nat /\ Http!InFlight \in Nat
      /\ Len(httpQueue) \in Nat /\ Len(asked) \in Nat
  BY HttpLengths DEF HttpInv, HttpTyped
<1>4. /\ httpQueue' \in Seq(Call) /\ Len(httpQueue') = Len(httpQueue) + 1
      /\ \A i \in 1..Len(httpQueue) : httpQueue'[i] = httpQueue[i]
      /\ httpQueue'[Len(httpQueue) + 1] = c
  BY <1>1, <1>3, AppendProperties
<1>5. /\ asked' \in Seq(Call) /\ Len(asked') = Len(asked) + 1
      /\ \A i \in 1..Len(asked) : asked'[i] = asked[i]
      /\ asked'[Len(asked) + 1] = c
  BY <1>1, <1>3, AppendProperties
<1>6. HttpTyped' /\ HttpJoined'
  BY <1>1, <1>2, <1>4, <1>5 DEF HttpInv, HttpTyped, HttpJoined
<1>7. Len(asked) = n + Len(httpQueue)
  BY DEF HttpInv, HttpInOrder
<1>8. Len(asked') = n + Len(httpQueue')
  BY <1>3, <1>4, <1>5, <1>7
<1>9. \A i \in 1..Len(answered) : answered[i] = asked'[i]
  <2> SUFFICES ASSUME NEW i \in 1..Len(answered) PROVE answered[i] = asked'[i]
    OBVIOUS
  <2>1. i \in 1..Len(asked) /\ answered[i] = asked[i]
    BY <1>3, <1>7 DEF HttpInv, HttpInOrder
  <2> QED
    BY <1>5, <2>1
<1>10. \A i \in 1..Len(httpQueue') : httpQueue'[i] = asked'[n + i]
  <2> SUFFICES ASSUME NEW i \in 1..Len(httpQueue') PROVE httpQueue'[i] = asked'[n + i]
    OBVIOUS
  <2>1. CASE i = Len(httpQueue) + 1
    <3>1. n + i = Len(asked) + 1
      BY <1>3, <1>7, <2>1
    <3> QED
      BY <1>4, <1>5, <2>1, <3>1
  <2>2. CASE i # Len(httpQueue) + 1
    <3>1. i \in 1..Len(httpQueue) /\ n + i \in 1..Len(asked)
      BY <1>3, <1>4, <1>7, <2>2
    <3>2. httpQueue[i] = asked[n + i]
      BY <3>1 DEF HttpInv, HttpInOrder
    <3> QED
      BY <1>4, <1>5, <3>1, <3>2
  <2> QED
    BY <2>1, <2>2
<1> QED
  BY <1>1, <1>2, <1>6, <1>8, <1>9, <1>10 DEF HttpInv, HttpInOrder

\* The worker finds a call, takes the first, or goes to sleep or to its end.
LEMMA HttpChecksInv ==
  ASSUME HttpInv, Http!WorkerChecks
  PROVE  HttpInv'
<1>1. worker = "check" /\ UNCHANGED <<httpRunning, asked, answered, httpOwner>> /\ Http!InFlight = 0
  BY DEF Http!WorkerChecks, Http!InFlight
<1>2. HttpJoined'
  BY <1>1 DEF HttpInv, HttpJoined
<1>3. /\ httpQueue \in Seq(Call) /\ Len(asked) \in Nat /\ Len(answered) \in Nat /\ Len(httpQueue) \in Nat
  BY HttpLengths DEF HttpInv, HttpTyped
<1>4. CASE httpRunning /\ httpQueue # <<>>
  <2>1. worker' = "perform" /\ httpQueue' = Tail(httpQueue)
    BY <1>4 DEF Http!WorkerChecks, Http!Rest
  <2>2. /\ Tail(httpQueue) \in Seq(Call) /\ Len(Tail(httpQueue)) = Len(httpQueue) - 1
        /\ \A i \in 1..Len(Tail(httpQueue)) : Tail(httpQueue)[i] = httpQueue[i + 1]
    BY <1>3, <1>4, HeadTailProperties
  <2>3. HttpTyped' /\ Http!InFlight' = 1
    BY <1>1, <2>1, <2>2 DEF HttpInv, HttpTyped, Http!InFlight
  <2>4. \A i \in 1..Len(httpQueue') : httpQueue'[i] = asked[Len(answered) + 1 + i]
    <3> SUFFICES ASSUME NEW i \in 1..Len(httpQueue')
                 PROVE  httpQueue'[i] = asked[Len(answered) + 1 + i]
      OBVIOUS
    <3>1. i + 1 \in 1..Len(httpQueue) /\ httpQueue'[i] = httpQueue[i + 1]
      BY <1>3, <2>1, <2>2
    <3>2. httpQueue[i + 1] = asked[Len(answered) + 0 + (i + 1)]
      BY <1>1, <3>1 DEF HttpInv, HttpInOrder
    <3>3. Len(answered) + 0 + (i + 1) = Len(answered) + 1 + i
      BY <1>3, <3>1
    <3> QED
      BY <3>1, <3>2, <3>3
  <2>5. Len(asked) = Len(answered) + 1 + Len(httpQueue')
    BY <1>1, <1>3, <2>1, <2>2 DEF HttpInv, HttpInOrder
  <2>6. HttpInOrder'
    BY <1>1, <2>3, <2>4, <2>5 DEF HttpInv, HttpInOrder
  <2> QED
    BY <1>2, <2>3, <2>6 DEF HttpInv
<1>5. CASE ~(httpRunning /\ httpQueue # <<>>)
  <2>1. worker' \in {"exited", "block"} /\ httpQueue' = httpQueue
    BY <1>5 DEF Http!WorkerChecks
  <2>2. HttpTyped' /\ Http!InFlight' = 0
    BY <1>1, <2>1 DEF HttpInv, HttpTyped, Http!InFlight
  <2> QED
    BY <1>1, <1>2, <2>1, <2>2, HttpOrderKept DEF HttpInv
<1> QED
  BY <1>4, <1>5

\* The call in flight is the first that has not been answered.
LEMMA HttpCurrent ==
  ASSUME HttpInv, Http!InFlight = 1
  PROVE  Http!Current = asked[Len(answered) + 1] /\ Http!Current \in Call /\ Len(answered) < Len(asked)
<1>1. Len(asked) = Len(answered) + 1 + Len(httpQueue) /\ asked \in Seq(Call)
      /\ Len(answered) \in Nat /\ Len(httpQueue) \in Nat /\ Len(asked) \in Nat
  BY HttpLengths DEF HttpInv, HttpInOrder, HttpTyped
<1>2. Http!Taken = Len(answered) + 1 /\ Http!Taken \in 1..Len(asked)
  BY <1>1 DEF Http!Taken
<1> QED
  BY <1>1, <1>2, ElementOfSeq DEF Http!Current

\* A callback returns: the call it was about is answered.
LEMMA HttpReturnsInv ==
  ASSUME HttpInv, Http!CallbackReturns
  PROVE  HttpInv'
<1>1. /\ worker = "callback" /\ worker' = "test" /\ Http!InFlight = 1 /\ Http!InFlight' = 0
      /\ UNCHANGED <<httpRunning, httpQueue, asked, httpOwner>> /\ answered' = Append(answered, Http!Current)
  BY DEF Http!CallbackReturns, Http!requestVars, Http!InFlight
<1>2. Http!Current = asked[Len(answered) + 1] /\ Http!Current \in Call /\ Len(answered) < Len(asked)
  BY <1>1, HttpCurrent
<1>3. /\ answered \in Seq(Call) /\ Len(answered) \in Nat /\ Len(httpQueue) \in Nat
      /\ Len(asked) = Len(answered) + 1 + Len(httpQueue)
  BY <1>1, HttpLengths DEF HttpInv, HttpTyped, HttpInOrder
<1>4. /\ answered' \in Seq(Call) /\ Len(answered') = Len(answered) + 1
      /\ \A i \in 1..Len(answered) : answered'[i] = answered[i]
      /\ answered'[Len(answered) + 1] = Http!Current
  BY <1>1, <1>2, <1>3, AppendProperties
<1>5. HttpTyped' /\ HttpJoined'
  BY <1>1, <1>4 DEF HttpInv, HttpTyped, HttpJoined
<1>6. Len(asked) = Len(answered') + 0 + Len(httpQueue)
  BY <1>3, <1>4
<1>7. \A i \in 1..Len(answered') : answered'[i] = asked[i]
  <2> SUFFICES ASSUME NEW i \in 1..Len(answered') PROVE answered'[i] = asked[i]
    OBVIOUS
  <2>1. i = Len(answered) + 1 \/ i \in 1..Len(answered)
    BY <1>3, <1>4
  <2>2. i \in 1..Len(answered) => answered[i] = asked[i]
    BY DEF HttpInv, HttpInOrder
  <2> QED
    BY <1>2, <1>4, <2>1, <2>2
<1>8. \A i \in 1..Len(httpQueue) : httpQueue[i] = asked[Len(answered') + 0 + i]
  <2> SUFFICES ASSUME NEW i \in 1..Len(httpQueue)
               PROVE  httpQueue[i] = asked[Len(answered') + 0 + i]
    OBVIOUS
  <2>1. httpQueue[i] = asked[Len(answered) + 1 + i]
    BY <1>1 DEF HttpInv, HttpInOrder
  <2>2. Len(answered') + 0 + i = Len(answered) + 1 + i
    BY <1>3, <1>4
  <2> QED
    BY <2>1, <2>2
<1> QED
  BY <1>1, <1>5, <1>6, <1>7, <1>8 DEF HttpInv, HttpInOrder

\* The steps of the worker, and the end of the process, that leave the calls
\* alone.
LEMMA HttpRestInv ==
  ASSUME HttpInv,
         \/ Http!WorkerTests \/ Http!WorkerBlocks \/ Http!SpuriousWakeup
         \/ Http!PerformReturns \/ Http!PerformKills \/ Http!CallbackKills
  PROVE  HttpInv'
<1>1. UNCHANGED <<httpRunning, asked, answered, httpQueue, httpOwner>> /\ Http!InFlight' = Http!InFlight
  BY DEF Http!WorkerTests, Http!WorkerBlocks, Http!SpuriousWakeup, Http!PerformReturns,
     Http!PerformKills, Http!CallbackKills,
         Http!Terminate, Http!requestVars, Http!workerVars, Http!InFlight
<1>2. /\ worker' \in {"none", "test", "check", "block", "wait", "perform", "callback", "exited"}
      /\ worker = "none" => worker' = "none"
  BY DEF HttpInv, HttpTyped, Http!WorkerTests, Http!WorkerBlocks, Http!SpuriousWakeup,
     Http!PerformReturns, Http!PerformKills,
         Http!CallbackKills, Http!Terminate, Http!workerVars
<1>3. HttpTyped' /\ HttpJoined'
  BY <1>1, <1>2 DEF HttpInv, HttpTyped, HttpJoined
<1> QED
  BY <1>1, <1>3, HttpOrderKept DEF HttpInv

\* Every step keeps the order of the calls.
LEMMA HttpStepInv == HttpInv /\ [Http!Next]_httpVars => HttpInv'
<1> SUFFICES ASSUME HttpInv, [Http!Next]_httpVars PROVE HttpInv'
  OBVIOUS
<1>1. CASE Http!Start \/ Http!StopStores \/ Http!StopNotifies
  BY <1>1, HttpOwnerInv
<1>2. CASE Http!StopJoins
  BY <1>2, HttpJoinInv
<1>3. ASSUME NEW c \in Call, Http!Request(c) PROVE HttpInv'
  BY <1>3, HttpRequestInv
<1>4. CASE Http!WorkerChecks
  BY <1>4, HttpChecksInv
<1>5. CASE Http!CallbackReturns
  BY <1>5, HttpReturnsInv
<1>6. CASE \/ Http!WorkerTests \/ Http!WorkerBlocks \/ Http!SpuriousWakeup
           \/ Http!PerformReturns \/ Http!PerformKills \/ Http!CallbackKills
  BY <1>6, HttpRestInv
<1>7. CASE UNCHANGED httpVars
  BY <1>7 DEF httpVars, HttpInv, HttpTyped, HttpInOrder, Http!InFlight, HttpJoined
<1> QED
  BY <1>1, <1>2, <1>3, <1>4, <1>5, <1>6, <1>7 DEF Http!Next, Http!OwnerStep, Http!WorkerStep


---------------------------------------------------------------------------
\* What the order of calls does not depend on.
HttpData ==
  /\ url \in [Call -> Url] /\ response \in [statusCode : Nat, success : BOOLEAN]
  /\ httpDead \in BOOLEAN /\ httpStarts \in 0..MaxHttpStarts

\* The data of calls and responses at first.
LEMMA HttpInitData == Http!Init => HttpData
<1> SUFFICES ASSUME Http!Init PROVE HttpData
  OBVIOUS
<1>1. response \in [statusCode : Nat, success : BOOLEAN]
  BY DEF Http!Init, Http!NoResponse
<1>2. httpDead \in BOOLEAN
  BY DEF Http!Init
<1> QED
  BY <1>1, <1>2, ClientsAssumption DEF Http!Init, HttpData, Http!StatusAssumption

\* Every step keeps the types of the data.
LEMMA HttpStepData == HttpData /\ [Http!Next]_httpVars => HttpData'
<1> SUFFICES ASSUME HttpData, [Http!Next]_httpVars PROVE HttpData'
  OBVIOUS
<1>1. Status \subseteq Nat /\ MaxHttpStarts \in Nat
  BY ClientsAssumption DEF Http!StatusAssumption
<1>2. CASE Http!Start
  <2>1. httpDead' \in BOOLEAN
    BY <1>2 DEF Http!Start
  <2>2. httpStarts' \in 0..MaxHttpStarts
    BY <1>1, <1>2 DEF Http!Start, HttpData
  <2> QED
    BY <1>2, <2>1, <2>2 DEF Http!Start, HttpData, Http!requestVars
<1>3. CASE Http!PerformReturns
  <2>1. response' \in [statusCode : Nat, success : BOOLEAN]
    <3>1. \/ response' = [statusCode |-> 0, success |-> FALSE]
          \/ \E s \in Status : response' = [statusCode |-> s, success |-> s \in 200..299]
      BY <1>3 DEF Http!PerformReturns, Http!Responses, Http!NoResponse
    <3>2. \A s \in Status : [statusCode |-> s, success |-> s \in 200..299] \in [statusCode : Nat, success : BOOLEAN]
      BY <1>1
    <3>3. [statusCode |-> 0, success |-> FALSE] \in [statusCode : Nat, success : BOOLEAN]
      OBVIOUS
    <3>4. ASSUME NEW s \in Status, response' = [statusCode |-> s, success |-> s \in 200..299]
          PROVE  response' \in [statusCode : Nat, success : BOOLEAN]
      BY <3>2, <3>4, Zenon
    <3>5. CASE response' = [statusCode |-> 0, success |-> FALSE]
      BY <3>3, <3>5, Zenon
    <3> QED
      BY <3>1, <3>4, <3>5, Zenon
  <2> QED
    BY <1>3, <2>1 DEF Http!PerformReturns, HttpData, Http!requestVars
<1>4. CASE Http!PerformKills \/ Http!CallbackKills
  <2>1. httpDead' \in BOOLEAN
    BY <1>4 DEF Http!PerformKills, Http!CallbackKills, Http!Terminate
  <2> QED
    BY <1>4, <2>1 DEF Http!PerformKills, Http!CallbackKills, Http!Terminate, HttpData,
                      Http!requestVars, Http!workerVars
<1>5. ASSUME NEW c \in Call, Http!Request(c) PROVE HttpData'
  BY <1>5 DEF Http!Request, HttpData
<1>6. CASE UNCHANGED httpVars
  BY <1>6 DEF httpVars, HttpData
<1>7. CASE \/ Http!StopStores \/ Http!StopNotifies \/ Http!StopJoins \/ Http!WorkerTests \/ Http!WorkerChecks
           \/ Http!WorkerBlocks \/ Http!SpuriousWakeup \/ Http!CallbackReturns
  BY <1>7 DEF Http!StopStores, Http!StopNotifies, Http!StopJoins, Http!WorkerTests,
     Http!WorkerChecks,
              Http!WorkerBlocks, Http!SpuriousWakeup, Http!CallbackReturns, HttpData,
              Http!requestVars, Http!workerVars
<1> QED
  BY <1>2, <1>3, <1>4, <1>5, <1>6, <1>7 DEF Http!Next, Http!OwnerStep, Http!WorkerStep

\* Together they are the type of every variable.
LEMMA HttpTypeOK == HttpInv /\ HttpData => Http!TypeOK
BY DEF HttpInv, HttpTyped, HttpData, Http!TypeOK

---------------------------------------------------------------------------
\* The order of calls says that none is lost.
LEMMA HttpNoneLost == HttpInv => Http!NothingLost
<1> SUFFICES ASSUME HttpInv PROVE Http!NothingLost
  OBVIOUS
<1>1. /\ asked \in Seq(Call) /\ answered \in Seq(Call) /\ httpQueue \in Seq(Call)
      /\ Len(asked) \in Nat /\ Len(answered) \in Nat /\ Len(httpQueue) \in Nat /\ Http!InFlight \in Nat
      /\ Len(asked) = Len(answered) + Http!InFlight + Len(httpQueue)
  BY HttpLengths DEF HttpInv, HttpTyped, HttpInOrder
<1>2. Http!Taken = Len(answered) + Http!InFlight /\ Http!Taken \in Nat /\ Http!Taken + Len(httpQueue) = Len(asked)
  BY <1>1 DEF Http!Taken
<1>3. answered = SubSeq(asked, 1, Len(answered))
  <2> DEFINE s == SubSeq(asked, 1, Len(answered))
  <2>1. \A i \in 1..Len(answered) : asked[i] \in Call
    BY <1>1, ElementOfSeq
  <2>2. s \in Seq(Call) /\ Len(s) = Len(answered) /\ \A i \in 1..Len(answered) : s[i] = asked[i]
    BY <1>1, <2>1
  <2>3. \A i \in 1..Len(answered) : answered[i] = s[i]
    BY <2>2 DEF HttpInv, HttpInOrder
  <2> HIDE DEF s
  <2>4. answered = s
    BY <1>1, <2>2, <2>3, SeqEqual
  <2> QED
    BY <2>4 DEF s
<1>4. httpQueue = SubSeq(asked, Http!Taken + 1, Len(asked))
  <2> DEFINE s == SubSeq(asked, Http!Taken + 1, Len(asked))
  <2>1. \A i \in (Http!Taken + 1)..Len(asked) : asked[i] \in Call
    BY <1>1, <1>2, ElementOfSeq
  <2>2. /\ s \in Seq(Call) /\ Len(s) = Len(httpQueue)
        /\ \A i \in 1..Len(httpQueue) : s[i] = asked[Http!Taken + i]
    <3> HIDE DEF Http!Taken
    <3>1. /\ s \in Seq(Call)
          /\ Len(s) = IF Http!Taken + 1 <= Len(asked) THEN Len(asked) - (Http!Taken + 1) + 1 ELSE 0
          /\ \A i \in 1..(Len(asked) - (Http!Taken + 1) + 1) : s[i] = asked[(Http!Taken + 1) + i - 1]
      BY <1>1, <1>2, <2>1, SubSeqProperties
    <3>2. Len(asked) - (Http!Taken + 1) + 1 = Len(httpQueue)
      BY <1>1, <1>2
    <3>3. \A i \in 1..Len(httpQueue) : (Http!Taken + 1) + i - 1 = Http!Taken + i
      BY <1>2
    <3> QED
      BY <1>1, <1>2, <3>1, <3>2, <3>3
  <2>3. \A i \in 1..Len(httpQueue) : httpQueue[i] = s[i]
    BY <1>2, <2>2 DEF HttpInv, HttpInOrder
  <2> HIDE DEF s
  <2>4. httpQueue = s
    BY <1>1, <2>2, <2>3, SeqEqual
  <2> QED
    BY <2>4 DEF s
<1> QED
  BY <1>2, <1>3, <1>4 DEF Http!NothingLost
\* A callback that returns is that of a worker, of a client not stopped.
StepQuiet == answered' # answered => worker # "none" /\ (httpOwner = "idle" => httpRunning)

\* Only CallbackReturns answers.
LEMMA QuietStep == HttpInv /\ [Http!Next]_httpVars => [StepQuiet]_(Http!vars)
<1> SUFFICES ASSUME HttpInv, [Http!Next]_httpVars, answered' # answered
             PROVE  worker # "none" /\ (httpOwner = "idle" => httpRunning)
  BY DEF StepQuiet
<1>1. Http!CallbackReturns
  BY DEF Http!Next, Http!OwnerStep, Http!WorkerStep, Http!Start, Http!StopStores,
         Http!StopNotifies, Http!StopJoins, Http!Request, Http!WorkerTests, Http!WorkerChecks,
         Http!WorkerBlocks, Http!SpuriousWakeup, Http!PerformReturns, Http!PerformKills,
         Http!CallbackKills, Http!Terminate, Http!workerVars, httpVars
<1> QED
  BY <1>1 DEF Http!CallbackReturns, HttpInv, HttpJoined

---------------------------------------------------------------------------
\* The client as RequestQueue sees it: the calls made, how many have been
\* answered, and whether it is open.
LEMMA HttpInitContract == Http!Init => Http!Contract!AbsInit
BY DEF Http!Init, Http!Contract!AbsInit

\* Request is Make, CallbackReturns is Give, and the owner opens and shuts.
LEMMA HttpNextContract ==
  HttpInv /\ [Http!Next]_httpVars => [Http!Contract!AbsNext]_<<asked, Len(answered), httpRunning \/ httpOwner # "idle">>
<1> SUFFICES ASSUME HttpInv, [Http!Next]_httpVars
             PROVE  \/ Http!Contract!AbsNext
                    \/ UNCHANGED <<asked, Len(answered), httpRunning \/ httpOwner # "idle">>
  OBVIOUS
<1>1. ASSUME Http!Start \/ Http!StopStores \/ Http!StopNotifies PROVE Http!Contract!Open
  BY <1>1 DEF Http!Start, Http!StopStores, Http!StopNotifies, Http!requestVars, Http!workerVars,
     Http!Contract!Open
<1>2. ASSUME Http!StopJoins PROVE Http!Contract!Open \/ Http!Contract!Shut
  BY <1>2 DEF Http!StopJoins, Http!requestVars, Http!Contract!Open, Http!Contract!Shut
<1>3. ASSUME NEW c \in Call, Http!Request(c) PROVE Http!Contract!Make(c)
  BY <1>3 DEF Http!Request, Http!Contract!Make
<1>4. ASSUME Http!CallbackReturns PROVE Http!Contract!Give
  <2>1. /\ worker = "callback" /\ Http!InFlight = 1 /\ UNCHANGED <<asked, httpRunning, httpOwner>>
        /\ answered' = Append(answered, Http!Current)
    BY <1>4 DEF Http!CallbackReturns, Http!requestVars, Http!InFlight
  <2>2. Http!Current \in Call /\ Len(answered) < Len(asked)
    BY <2>1, HttpCurrent
  <2>3. Len(answered') = Len(answered) + 1
    BY <2>1, <2>2, AppendProperties DEF HttpInv, HttpTyped
  <2>4. httpRunning \/ httpOwner # "idle"
    BY <2>1 DEF HttpInv, HttpJoined
  <2> QED
    BY <2>1, <2>2, <2>3, <2>4 DEF Http!Contract!Give
<1>5. ASSUME \/ Http!WorkerStep \/ Http!SpuriousWakeup \/ Http!PerformReturns \/ Http!PerformKills \/ Http!CallbackKills
             \/ UNCHANGED httpVars
      PROVE  UNCHANGED <<asked, answered, httpRunning, httpOwner>>
  BY <1>5 DEF Http!WorkerStep, Http!WorkerTests, Http!WorkerChecks, Http!WorkerBlocks,
     Http!SpuriousWakeup, Http!PerformReturns,
         Http!PerformKills, Http!CallbackKills, Http!Terminate, Http!requestVars,
         Http!workerVars, httpVars
<1> QED
  BY <1>1, <1>2, <1>3, <1>4, <1>5 DEF Http!Next, Http!OwnerStep, Http!Contract!AbsNext

---------------------------------------------------------------------------
(* WebSocketServer                                                         *)


WsBusy == wsThread \in WebSocket!Session \cup {"handshake", "onDisconnect"}

\* The client that shakes hands has a number nobody was reported with.
WsSessions ==
  /\ WebSocket!SessionsPaired
  /\ wsThread = "handshake" => nextClientId >= 2 /\ \A c \in wsConnected : c <= nextClientId - 2

\* A client's descriptor is that of the client being served, and never
\* serverFd_; serverFd_ names a listener exactly while it is not stale; every
\* listener whose number was not overwritten is it, and has a thread.
WsDescriptors ==
  /\ \A f \in Fd : holder[f] = "client" => f = clientFd /\ WsBusy
  /\ WsBusy => clientFd \in Fd /\ clientFd # serverFd /\ holder[clientFd] = "client"
  /\ serverFd # 0 => (stale <=> holder[serverFd] # "listener")
  /\ wsRunning => WebSocket!Listening \/ wsLost # {}
  /\ wsOwner # "idle" => ~wsRunning
  /\ ~wsDead => \A f \in Fd \ wsLost : holder[f] = "listener" =>
                  f = serverFd /\ wsThread # "none" /\ wsOwner \in {"idle", "closing"}

WsInv == WebSocket!TypeOK /\ WsSessions /\ WsDescriptors

\* At first no descriptor is open and no client known.
LEMMA WsInitInv == WebSocket!Init => WsInv
<1> SUFFICES ASSUME WebSocket!Init PROVE WsInv
  OBVIOUS
<1>1. ~wsRunning /\ wsRunning \in BOOLEAN /\ ~wsDead /\ wsDead \in BOOLEAN /\ ~stale /\ stale \in BOOLEAN
  BY DEF WebSocket!Init
<1>2. MaxServerStarts \in Nat /\ ~WsBusy /\ wsThread \notin WebSocket!Session
  BY ServersAssumption DEF WebSocket!BoundAssumption, WebSocket!Init, WsBusy, WebSocket!Session
<1>3. WebSocket!TypeOK
  BY <1>1, <1>2 DEF WebSocket!Init, WebSocket!TypeOK, WebSocket!ThisClient
<1>4. WsSessions
  BY <1>2 DEF WebSocket!Init, WsSessions, WebSocket!SessionsPaired
<1>5. WsDescriptors
  BY <1>1, <1>2 DEF WebSocket!Init, WsDescriptors
<1> QED
  BY <1>3, <1>4, <1>5 DEF WsInv

\* What the descriptors are.
LEMMA WsFd == 0 \notin Fd /\ (\A f \in Fd : f \in Nat) /\ MaxServerStarts \in Nat
BY ServersAssumption DEF WebSocket!FdAssumption, WebSocket!BoundAssumption

\* A step that changes no session keeps them.
LEMMA WsSessionsKept ==
  ASSUME WsSessions, UNCHANGED <<clients, wsConnected, disconnected, nextClientId>>,
         wsThread' = wsThread \/ {wsThread, wsThread'} \cap (WebSocket!Session \cup {"handshake"}) = {}
                              \/ (wsThread \in WebSocket!Session /\ wsThread' \in WebSocket!Session)
  PROVE  WsSessions'
<1>1. wsThread' \in WebSocket!Session <=> wsThread \in WebSocket!Session
  OBVIOUS
<1>2. wsThread' = "handshake" => wsThread = "handshake"
  BY DEF WebSocket!Session
<1>3. WebSocket!SessionsPaired'
  BY <1>1 DEF WsSessions, WebSocket!SessionsPaired, WebSocket!ThisClient
<1> QED
  BY <1>2, <1>3 DEF WsSessions

\* Starts that find no free port or descriptor, and those that do.
LEMMA WsFailsInv ==
  ASSUME WsInv, WebSocket!StartFails
  PROVE  WsInv'
<1>1. /\ UNCHANGED <<holder, wsForeign, clientFd, clients, nextClientId, wsConnected, disconnected,
                     wsRunning, wsOwner, wsThread, waiting, wsDead>>
      /\ wsStarts < MaxServerStarts /\ wsStarts' = wsStarts + 1 /\ wsOwner = "idle"
  BY DEF WebSocket!StartFails, WebSocket!clientVars
<1>2. /\ serverFd' = 0 \/ (serverFd' \in Fd /\ holder[serverFd'] = "nobody")
      /\ stale' \in BOOLEAN
      /\ serverFd' # 0 => stale'
  BY WsFd DEF WebSocket!StartFails, WebSocket!Lowest, WebSocket!Free
<1>3. wsLost' = IF WebSocket!Listening THEN wsLost \cup {serverFd} ELSE wsLost
  BY DEF WebSocket!StartFails
<1>4. WebSocket!Listening => serverFd \in Fd
  BY DEF WebSocket!Listening, WebSocket!Holds, WsInv, WebSocket!TypeOK
<1>5. WebSocket!TypeOK'
  BY <1>1, <1>2, <1>3, <1>4, WsFd DEF WsInv, WebSocket!TypeOK, WebSocket!ThisClient
<1>6. WsSessions'
  BY <1>1, WsSessionsKept DEF WsInv
<1>7. WsBusy' <=> WsBusy
  BY <1>1 DEF WsBusy
<1>8. \A f \in Fd : holder[f] = "client" => f = clientFd /\ WsBusy
  BY DEF WsInv, WsDescriptors
<1>9. WsBusy => clientFd \in Fd /\ clientFd # serverFd' /\ holder[clientFd] = "client"
  BY <1>2, WsFd DEF WsInv, WsDescriptors
<1>10. wsRunning => wsLost' # {}
  BY <1>3 DEF WsInv, WsDescriptors
<1>11. ~wsDead => \A f \in Fd \ wsLost' : holder[f] = "listener" =>
                  f = serverFd' /\ wsThread # "none" /\ wsOwner \in {"idle", "closing"}
  <2> SUFFICES ASSUME ~wsDead, NEW f \in Fd \ wsLost', holder[f] = "listener" PROVE FALSE
    OBVIOUS
  <2>1. f \in Fd \ wsLost /\ f = serverFd
    BY <1>3 DEF WsInv, WsDescriptors
  <2>2. WebSocket!Listening
    BY <2>1, WsFd DEF WebSocket!Listening, WebSocket!Holds
  <2> QED
    BY <1>3, <2>1, <2>2
<1>12. WsDescriptors'
  <2>1. wsRunning' => wsLost' # {}
    BY <1>1, <1>10
  <2>2. wsOwner' # "idle" => ~wsRunning'
    BY <1>1
  <2>3. serverFd' # 0 => (stale' <=> holder'[serverFd'] # "listener")
    BY <1>1, <1>2
  <2> QED
    BY <1>1, <1>7, <1>8, <1>9, <1>11, <2>1, <2>2, <2>3 DEF WsDescriptors
<1> QED
  BY <1>5, <1>6, <1>12 DEF WsInv

\* A Start that listens, and ends the process if it finds a thread.
LEMMA WsRunsInv ==
  ASSUME WsInv, ~wsDead, WebSocket!StartRuns
  PROVE  WsInv'
<1>1. /\ UNCHANGED <<wsForeign, wsLost, clientFd, clients, nextClientId, wsConnected, disconnected, wsOwner>>
      /\ wsStarts < MaxServerStarts /\ wsStarts' = wsStarts + 1 /\ wsOwner = "idle" /\ waiting' = 0
  BY DEF WebSocket!StartRuns, WebSocket!clientVars
<1>2. /\ serverFd' \in Fd /\ holder[serverFd'] = "nobody"
      /\ holder' = [holder EXCEPT ![serverFd'] = "listener"]
  BY WsFd DEF WebSocket!StartRuns, WebSocket!Lowest, WebSocket!Free
<1>3. ~stale' /\ stale' \in BOOLEAN /\ wsRunning' /\ wsRunning' \in BOOLEAN
  BY DEF WebSocket!StartRuns
<1>4. wsDead' \in BOOLEAN /\ (~wsDead' => wsThread = "none" /\ wsThread' = "loopTest")
      /\ (wsThread # "none" => wsThread' = wsThread)
  BY DEF WebSocket!StartRuns
<1>5. wsThread' \in {wsThread, "loopTest"} /\ (wsThread' # wsThread => wsThread = "none")
  BY DEF WebSocket!StartRuns
<1>6. WebSocket!TypeOK'
  <2>1. holder' \in [Fd -> {"nobody", "listener", "client", "other"}]
    BY <1>2 DEF WsInv, WebSocket!TypeOK
  <2>2. wsStarts' \in 0..MaxServerStarts
    BY <1>1, WsFd DEF WsInv, WebSocket!TypeOK
  <2> QED
    BY <1>1, <1>2, <1>3, <1>4, <1>5, <2>1, <2>2 DEF WsInv, WebSocket!TypeOK, WebSocket!ThisClient
<1>7. WsSessions'
  BY <1>1, <1>5, WsSessionsKept DEF WsInv, WebSocket!Session
<1>8. WsBusy' <=> WsBusy
  BY <1>5 DEF WsBusy, WebSocket!Session
<1>9. holder \in [Fd -> {"nobody", "listener", "client", "other"}] /\ serverFd' # 0
  BY <1>2, WsFd DEF WsInv, WebSocket!TypeOK
<1>10. \A f \in Fd : holder'[f] = IF f = serverFd' THEN "listener" ELSE holder[f]
  BY <1>2, <1>9
<1>11. \A f \in Fd : holder'[f] = "client" => f = clientFd' /\ WsBusy'
  BY <1>1, <1>8, <1>10 DEF WsInv, WsDescriptors
<1>12. WsBusy' => clientFd' \in Fd /\ clientFd' # serverFd' /\ holder'[clientFd'] = "client"
  BY <1>1, <1>2, <1>8, <1>10 DEF WsInv, WsDescriptors
<1>13. holder'[serverFd'] = "listener" /\ WebSocket!Listening'
  BY <1>2, <1>9, <1>10 DEF WebSocket!Listening, WebSocket!Holds
<1>14. ~wsDead' => \A f \in Fd \ wsLost' : holder'[f] = "listener" =>
                  f = serverFd' /\ wsThread' # "none" /\ wsOwner' \in {"idle", "closing"}
  <2> SUFFICES ASSUME ~wsDead', NEW f \in Fd \ wsLost', holder'[f] = "listener"
               PROVE  f = serverFd' /\ wsThread' # "none" /\ wsOwner' \in {"idle", "closing"}
    OBVIOUS
  <2>1. wsThread = "none" /\ wsThread' = "loopTest" /\ wsOwner' = "idle"
    BY <1>1, <1>4
  <2>2. f # serverFd' => holder[f] = "listener"
    BY <1>10
  <2>3. f # serverFd' => FALSE
    BY <1>1, <2>1, <2>2 DEF WsInv, WsDescriptors
  <2> QED
    BY <2>1, <2>3
<1>15. WsDescriptors'
  BY <1>1, <1>3, <1>11, <1>12, <1>13, <1>14 DEF WsDescriptors
<1> QED
  BY <1>6, <1>7, <1>15 DEF WsInv

\* Stop: the store, the close of whatever has the number, the join.
LEMMA WsStopInv ==
  ASSUME WsInv, WebSocket!StopStores \/ WebSocket!StopCloses \/ WebSocket!StopJoins
  PROVE  WsInv'
<1>1. CASE WebSocket!StopStores
  <2>1. ~wsRunning' /\ wsRunning' \in BOOLEAN
    BY <1>1 DEF WebSocket!StopStores
  <2>2. /\ wsOwner = "idle" /\ wsOwner' = "closing"
        /\ UNCHANGED <<holder, serverFd, stale, wsForeign, wsLost, clientFd, clients, nextClientId,
                       wsConnected, disconnected, wsStarts, wsThread, waiting, wsDead>>
    BY <1>1 DEF WebSocket!StopStores, WebSocket!fdVars, WebSocket!clientVars
  <2>3. WebSocket!TypeOK'
    BY <2>1, <2>2 DEF WsInv, WebSocket!TypeOK, WebSocket!ThisClient
  <2>4. WsSessions'
    BY <2>2, WsSessionsKept DEF WsInv
  <2>5. WsDescriptors'
    BY <2>1, <2>2 DEF WsInv, WsDescriptors, WsBusy
  <2> QED
    BY <2>3, <2>4, <2>5 DEF WsInv
<1>2. CASE WebSocket!StopCloses
  <2>1. /\ wsOwner = "closing" /\ wsOwner' = "joining"
        /\ UNCHANGED <<serverFd, wsLost, clientFd, clients, nextClientId,
                       wsConnected, disconnected, wsRunning, wsStarts, wsThread, wsDead>>
    BY <1>2 DEF WebSocket!StopCloses, WebSocket!fdVars, WebSocket!clientVars
  <2>2. CASE serverFd = 0
    <3>1. UNCHANGED <<holder, stale, wsForeign, waiting>>
      BY <1>2, <2>2 DEF WebSocket!StopCloses, WebSocket!fdVars
    <3>2. WebSocket!TypeOK'
      BY <2>1, <3>1 DEF WsInv, WebSocket!TypeOK, WebSocket!ThisClient
    <3>3. WsSessions'
      BY <2>1, WsSessionsKept DEF WsInv
    <3>4. \A f \in Fd : f # serverFd
      BY <2>2, WsFd
    <3>5. WsDescriptors'
      BY <2>1, <2>2, <3>1, <3>4 DEF WsInv, WsDescriptors, WsBusy
    <3> QED
      BY <3>2, <3>3, <3>5 DEF WsInv
  <2>3. CASE serverFd # 0
    <3>1. /\ serverFd \in Fd /\ holder \in [Fd -> {"nobody", "listener", "client", "other"}]
          /\ holder' = [holder EXCEPT ![serverFd] = "nobody"]
          /\ wsForeign' \in {wsForeign, wsForeign \cup {"close"}} /\ waiting' \in {0, waiting}
      BY <1>2, <2>3 DEF WebSocket!StopCloses, WsInv, WebSocket!TypeOK
    <3>2. stale' /\ stale' \in BOOLEAN
      BY <1>2, <2>3 DEF WebSocket!StopCloses
    <3>3. holder' \in [Fd -> {"nobody", "listener", "client", "other"}]
          /\ \A f \in Fd : holder'[f] = IF f = serverFd THEN "nobody" ELSE holder[f]
      BY <3>1
    <3>4. WebSocket!TypeOK'
      BY <2>1, <3>1, <3>2, <3>3 DEF WsInv, WebSocket!TypeOK, WebSocket!ThisClient
    <3>5. WsSessions'
      BY <2>1, WsSessionsKept DEF WsInv
    <3>6. WsBusy' <=> WsBusy
      BY <2>1 DEF WsBusy
    <3>7. ~wsRunning
      BY <2>1 DEF WsInv, WsDescriptors
    <3>8. WsBusy' => clientFd' \in Fd /\ clientFd' # serverFd' /\ holder'[clientFd'] = "client"
      BY <2>1, <3>3, <3>6 DEF WsInv, WsDescriptors
    <3>9. \A f \in Fd : holder'[f] = "client" => f = clientFd' /\ WsBusy'
      BY <2>1, <3>3, <3>6 DEF WsInv, WsDescriptors
    <3>10. ~wsDead' => \A f \in Fd \ wsLost' : holder'[f] # "listener"
      BY <2>1, <3>3 DEF WsInv, WsDescriptors
    <3>11. holder'[serverFd'] # "listener"
      BY <2>1, <3>1, <3>3
    <3>12. WsDescriptors'
      BY <2>1, <3>2, <3>7, <3>8, <3>9, <3>10, <3>11 DEF WsDescriptors
    <3> QED
      BY <3>4, <3>5, <3>12 DEF WsInv
  <2> QED
    BY <2>2, <2>3
<1>3. CASE WebSocket!StopJoins
  <2>1. /\ wsOwner = "joining" /\ wsOwner' = "idle" /\ wsThread \in {"none", "exited"}
        /\ wsThread' = "none" /\ clients' = {}
        /\ UNCHANGED <<holder, serverFd, stale, wsForeign, wsLost, clientFd, nextClientId,
                       wsConnected, disconnected, wsRunning, wsStarts, waiting, wsDead>>
    BY <1>3 DEF WebSocket!StopJoins, WebSocket!fdVars
  <2>2. WebSocket!TypeOK'
    BY <2>1 DEF WsInv, WebSocket!TypeOK, WebSocket!ThisClient
  <2>3. wsConnected \ disconnected = {}
    BY <2>1 DEF WsInv, WsSessions, WebSocket!SessionsPaired, WebSocket!Session
  <2>4. WsSessions'
    BY <2>1, <2>3 DEF WsSessions, WebSocket!SessionsPaired, WebSocket!Session
  <2>5. ~WsBusy /\ ~WsBusy'
    BY <2>1 DEF WsBusy, WebSocket!Session
  <2>6. ~wsRunning
    BY <2>1 DEF WsInv, WsDescriptors
  <2>7. ~wsDead => \A f \in Fd \ wsLost : holder[f] # "listener"
    BY <2>1 DEF WsInv, WsDescriptors
  <2>8. WsDescriptors'
    BY <2>1, <2>5, <2>6, <2>7 DEF WsInv, WsDescriptors
  <2> QED
    BY <2>2, <2>4, <2>8 DEF WsInv
<1> QED
  BY <1>1, <1>2, <1>3

\* A step of the thread that leaves the descriptors and the sessions alone.
LEMMA WsThreadKept ==
  ASSUME WsInv, wsThread # "none",
         UNCHANGED <<holder, serverFd, stale, wsForeign, wsLost, clientFd, clients, nextClientId,
                     wsConnected, disconnected, wsRunning, wsOwner, wsStarts, waiting, wsDead>>,
         \/ {wsThread, wsThread'} \subseteq {"loopTest", "select", "accept", "exited"}
         \/ {wsThread, wsThread'} \subseteq WebSocket!Session
  PROVE  WsInv'
<1>1. WebSocket!TypeOK'
  BY DEF WsInv, WebSocket!TypeOK, WebSocket!ThisClient
<1>2. WsSessions'
  BY WsSessionsKept DEF WsInv, WebSocket!Session
<1>3. WsBusy' <=> WsBusy
  BY DEF WsBusy, WebSocket!Session
<1>4. wsThread' # "none"
  BY DEF WebSocket!Session
<1>5. WsDescriptors'
  BY <1>3, <1>4 DEF WsInv, WsDescriptors, WebSocket!Listening, WebSocket!Holds
<1> QED
  BY <1>1, <1>2, <1>5 DEF WsInv

\* The moves of the thread that only look.
LEMMA WsMovesInv ==
  ASSUME WsInv, \/ WebSocket!LoopTests \/ WebSocket!Selects \/ WebSocket!AcceptFails
                \/ WebSocket!Receives \/ WebSocket!CallbackReturns
  PROVE  WsInv'
<1>1. /\ UNCHANGED <<holder, serverFd, stale, wsForeign, wsLost, clientFd, clients, nextClientId,
                     wsConnected, disconnected, wsRunning, wsOwner, wsStarts, waiting, wsDead>>
      /\ wsThread # "none"
      /\ \/ {wsThread, wsThread'} \subseteq {"loopTest", "select", "accept", "exited"}
         \/ {wsThread, wsThread'} \subseteq {"onConnect", "loop", "recv", "onMessage", "leave"}
  BY DEF WebSocket!LoopTests, WebSocket!Selects, WebSocket!AcceptFails, WebSocket!Receives,
         WebSocket!CallbackReturns, WebSocket!Moves, WebSocket!Elsewhere, WebSocket!fdVars,
         WebSocket!clientVars, WebSocket!ownerVars
<1> QED
  BY <1>1, WsThreadKept DEF WebSocket!Session

\* accept, of a client of this server or of somebody else's.
LEMMA WsAcceptsInv ==
  ASSUME WsInv, WebSocket!AcceptsClient \/ WebSocket!AcceptsForeign
  PROVE  WsInv'
<1>1. /\ wsThread = "accept" /\ wsThread' = "handshake" /\ nextClientId' = nextClientId + 1
      /\ UNCHANGED <<serverFd, stale, wsLost, clients, wsConnected, disconnected,
                     wsRunning, wsOwner, wsStarts, wsDead>>
      /\ clientFd' \in Fd /\ holder[clientFd'] = "nobody"
      /\ holder' = [holder EXCEPT ![clientFd'] = "client"]
  BY WsFd DEF WebSocket!AcceptsClient, WebSocket!AcceptsForeign, WebSocket!Accepted,
     WebSocket!Moves,
         WebSocket!Elsewhere, WebSocket!ownerVars, WebSocket!Lowest, WebSocket!Free
<1>2. wsForeign' \in {wsForeign, wsForeign \cup {"accept"}}
  BY DEF WebSocket!AcceptsClient, WebSocket!AcceptsForeign
<1>3. waiting' \in Nat
  BY DEF WebSocket!AcceptsClient, WebSocket!AcceptsForeign, WsInv, WebSocket!TypeOK
<1>4. serverFd # 0 /\ serverFd # clientFd'
  BY <1>1 DEF WebSocket!AcceptsClient, WebSocket!AcceptsForeign, WebSocket!Listening,
     WebSocket!Holds
<1>5. /\ holder \in [Fd -> {"nobody", "listener", "client", "other"}] /\ nextClientId \in Nat \ {0}
      /\ clients \subseteq 1..(nextClientId - 1) /\ wsConnected \subseteq 1..(nextClientId - 1)
      /\ disconnected \subseteq wsConnected /\ serverFd \in Fd
  BY <1>4 DEF WsInv, WebSocket!TypeOK, WebSocket!ThisClient
<1>6. /\ holder' \in [Fd -> {"nobody", "listener", "client", "other"}]
      /\ \A f \in Fd : holder'[f] = IF f = clientFd' THEN "client" ELSE holder[f]
  BY <1>1, <1>5
<1>7. WebSocket!TypeOK'
  <2>1. /\ nextClientId' \in Nat \ {0} /\ clients' \subseteq 1..(nextClientId' - 1)
        /\ wsConnected' \subseteq 1..(nextClientId' - 1)
    BY <1>1, <1>5
  <2> QED
    BY <1>1, <1>2, <1>3, <1>6, <2>1 DEF WsInv, WebSocket!TypeOK, WebSocket!ThisClient
<1>8. WsSessions'
  <2>1. nextClientId' >= 2 /\ \A c \in wsConnected' : c <= nextClientId' - 2
    BY <1>1, <1>5
  <2> QED
    BY <1>1, <2>1 DEF WsInv, WsSessions, WebSocket!SessionsPaired, WebSocket!Session
<1>9. ~WsBusy /\ WsBusy'
  BY <1>1 DEF WsBusy, WebSocket!Session
<1>10. \A f \in Fd : holder'[f] = "client" => f = clientFd'
  BY <1>6, <1>9 DEF WsInv, WsDescriptors
<1>11. holder'[clientFd'] = "client" /\ holder'[serverFd] = holder[serverFd]
  BY <1>1, <1>4, <1>5, <1>6
<1>12. \A f \in Fd : holder'[f] = "listener" => holder[f] = "listener"
  BY <1>6
<1>13. ~wsDead' => \A f \in Fd \ wsLost' : holder'[f] = "listener" =>
                  f = serverFd' /\ wsThread' # "none" /\ wsOwner' \in {"idle", "closing"}
  BY <1>1, <1>12 DEF WsInv, WsDescriptors
<1>14. WsDescriptors'
  BY <1>1, <1>4, <1>9, <1>10, <1>11, <1>13
     DEF WsInv, WsDescriptors, WebSocket!Listening, WebSocket!Holds
<1> QED
  BY <1>7, <1>8, <1>14 DEF WsInv

\* The end of a connection closes the client's descriptor and no other.
LEMMA WsClosesInv ==
  ASSUME WsInv, WebSocket!HandshakeFails \/ WebSocket!SessionEnds
  PROVE  WsInv'
<1>1. /\ wsThread \in {"handshake", "onDisconnect"} /\ wsThread' = "loopTest"
      /\ holder' = [holder EXCEPT ![clientFd] = "nobody"]
      /\ UNCHANGED <<serverFd, stale, wsForeign, wsLost, clientFd, clients, nextClientId,
                     wsConnected, disconnected, wsRunning, wsOwner, wsStarts, waiting, wsDead>>
  BY DEF WebSocket!HandshakeFails, WebSocket!SessionEnds, WebSocket!Moves, WebSocket!CloseClient,
         WebSocket!Elsewhere, WebSocket!clientVars, WebSocket!ownerVars
<1>2. WsBusy /\ ~WsBusy'
  BY <1>1 DEF WsBusy, WebSocket!Session
<1>3. clientFd \in Fd /\ clientFd # serverFd /\ holder \in [Fd -> {"nobody", "listener", "client", "other"}]
  BY <1>2 DEF WsInv, WsDescriptors, WebSocket!TypeOK
<1>4. /\ holder' \in [Fd -> {"nobody", "listener", "client", "other"}]
      /\ \A f \in Fd : holder'[f] = IF f = clientFd THEN "nobody" ELSE holder[f]
  BY <1>1, <1>3
<1>5. WebSocket!TypeOK'
  BY <1>1, <1>4 DEF WsInv, WebSocket!TypeOK, WebSocket!ThisClient
<1>6. WsSessions'
  BY <1>1 DEF WsInv, WsSessions, WebSocket!SessionsPaired, WebSocket!Session
<1>7. \A f \in Fd : holder'[f] # "client"
  BY <1>4 DEF WsInv, WsDescriptors
<1>8. serverFd # 0 => holder'[serverFd] = holder[serverFd]
  BY <1>3, <1>4 DEF WsInv, WebSocket!TypeOK
<1>9. ~wsDead' => \A f \in Fd \ wsLost' : holder'[f] = "listener" =>
                  f = serverFd' /\ wsThread' # "none" /\ wsOwner' \in {"idle", "closing"}
  BY <1>1, <1>4 DEF WsInv, WsDescriptors
<1>10. WsDescriptors'
  BY <1>1, <1>2, <1>7, <1>8, <1>9 DEF WsInv, WsDescriptors, WebSocket!Listening, WebSocket!Holds
<1> QED
  BY <1>5, <1>6, <1>10 DEF WsInv

\* Where a session begins and ends, and the end of the process.
LEMMA WsReportsInv ==
  ASSUME WsInv, WebSocket!HandshakeSucceeds \/ WebSocket!Leaves \/ WebSocket!ThreadKills
  PROVE  WsInv'
<1>1. /\ UNCHANGED <<holder, serverFd, stale, wsForeign, wsLost, clientFd, nextClientId,
                     wsRunning, wsOwner, wsStarts, waiting>>
      /\ wsThread \in WebSocket!Session \cup {"handshake", "onDisconnect"}
      /\ wsThread' \in WebSocket!Session \cup {"handshake", "onDisconnect"}
  BY DEF WebSocket!HandshakeSucceeds, WebSocket!Leaves, WebSocket!ThreadKills, WebSocket!Moves,
     WebSocket!Elsewhere,
         WebSocket!fdVars, WebSocket!clientVars, WebSocket!ownerVars, WebSocket!Session,
         WebSocket!Callbacks
<1>2. wsDead' \in BOOLEAN /\ (~wsDead' => ~wsDead)
  <2>1. CASE WebSocket!ThreadKills
    <3>1. wsDead' /\ wsDead' \in BOOLEAN
      BY <2>1 DEF WebSocket!ThreadKills
    <3> QED
      BY <3>1
  <2>2. CASE WebSocket!HandshakeSucceeds \/ WebSocket!Leaves
    BY <2>2 DEF WebSocket!HandshakeSucceeds, WebSocket!Leaves, WebSocket!Elsewhere, WsInv,
       WebSocket!TypeOK
  <2> QED
    BY <2>1, <2>2
<1>3. WsBusy /\ WsBusy' /\ wsThread' # "none"
  BY <1>1 DEF WsBusy, WebSocket!Session
<1>4. WsDescriptors'
  BY <1>1, <1>2, <1>3 DEF WsInv, WsDescriptors, WebSocket!Listening, WebSocket!Holds
<1>5. /\ nextClientId \in Nat \ {0} /\ disconnected \subseteq wsConnected
      /\ wsConnected \subseteq 1..(nextClientId - 1)
      /\ clients \subseteq 1..(nextClientId - 1) /\ wsThread' # "none"
  BY <1>3 DEF WsInv, WebSocket!TypeOK, WebSocket!ThisClient
<1>6. CASE WebSocket!HandshakeSucceeds
  <2> DEFINE me == nextClientId - 1
  <2>1. /\ wsThread = "handshake" /\ wsThread' = "onConnect" /\ clients' = clients \cup {me}
        /\ wsConnected' = wsConnected \cup {me} /\ disconnected' = disconnected
    BY <1>6 DEF WebSocket!HandshakeSucceeds, WebSocket!Moves, WebSocket!ThisClient
  <2>2. me \in 1..(nextClientId - 1) /\ me \notin wsConnected
    BY <1>5, <2>1 DEF WsInv, WsSessions
  <2>3. clients = wsConnected \ disconnected /\ wsConnected \ disconnected = {}
    BY <2>1 DEF WsInv, WsSessions, WebSocket!SessionsPaired, WebSocket!Session
  <2>4. wsConnected' \ disconnected' = {me} /\ clients' = {me}
    BY <1>5, <2>1, <2>2, <2>3
  <2>5. WsSessions'
    BY <1>1, <2>1, <2>4 DEF WsSessions, WebSocket!SessionsPaired, WebSocket!Session,
       WebSocket!ThisClient
  <2>6. WebSocket!TypeOK'
    BY <1>1, <1>2, <1>5, <2>1, <2>2 DEF WsInv, WebSocket!TypeOK, WebSocket!ThisClient
  <2> QED
    BY <1>4, <2>5, <2>6 DEF WsInv
<1>7. CASE WebSocket!Leaves
  <2> DEFINE me == nextClientId - 1
  <2>1. /\ wsThread = "leave" /\ wsThread' = "onDisconnect" /\ clients' = clients \ {me}
        /\ wsConnected' = wsConnected /\ disconnected' = disconnected \cup {me}
    BY <1>7 DEF WebSocket!Leaves, WebSocket!Moves, WebSocket!ThisClient, WebSocket!Reported
  <2>2. clients = {me} /\ wsConnected \ disconnected = {me}
    BY <2>1 DEF WsInv, WsSessions, WebSocket!SessionsPaired, WebSocket!Session, WebSocket!ThisClient
  <2>3. clients' = {} /\ wsConnected' \ disconnected' = {} /\ me \in wsConnected
    BY <2>1, <2>2
  <2>4. WsSessions'
    BY <1>1, <2>1, <2>3 DEF WsSessions, WebSocket!SessionsPaired, WebSocket!Session
  <2>5. WebSocket!TypeOK'
    BY <1>1, <1>2, <1>5, <2>1, <2>3 DEF WsInv, WebSocket!TypeOK, WebSocket!ThisClient
  <2> QED
    BY <1>4, <2>4, <2>5 DEF WsInv
<1>8. CASE WebSocket!ThreadKills
  <2>1. UNCHANGED <<wsThread, clients, wsConnected, disconnected>>
    BY <1>8 DEF WebSocket!ThreadKills, WebSocket!clientVars
  <2>2. WsSessions'
    BY <1>1, <2>1, WsSessionsKept DEF WsInv
  <2>3. WebSocket!TypeOK'
    BY <1>1, <1>2, <2>1 DEF WsInv, WebSocket!TypeOK, WebSocket!ThisClient
  <2> QED
    BY <1>4, <2>2, <2>3 DEF WsInv
<1> QED
  BY <1>6, <1>7, <1>8

\* Clients that connect, and descriptors that others open and close.
LEMMA WsOthersInv ==
  ASSUME WsInv, WebSocket!ClientConnects \/ WebSocket!OtherOpens \/ WebSocket!OtherCloses
  PROVE  WsInv'
<1>1. /\ UNCHANGED <<serverFd, stale, wsForeign, wsLost, clientFd, clients, nextClientId, wsConnected,
                     disconnected, wsRunning, wsOwner, wsStarts, wsThread, wsDead>>
      /\ waiting' \in {waiting, waiting + 1}
  BY DEF WebSocket!ClientConnects, WebSocket!OtherOpens, WebSocket!OtherCloses, WebSocket!fdVars,
         WebSocket!clientVars, WebSocket!ownerVars
<1>2. holder \in [Fd -> {"nobody", "listener", "client", "other"}] /\ serverFd \in Fd \cup {0} /\ waiting \in Nat
  BY DEF WsInv, WebSocket!TypeOK
<1>3. /\ holder' \in [Fd -> {"nobody", "listener", "client", "other"}]
      /\ \A f \in Fd : holder'[f] = holder[f] \/ {holder[f], holder'[f]} \subseteq {"nobody", "other"}
  <2>1. CASE WebSocket!ClientConnects
    BY <1>2, <2>1 DEF WebSocket!ClientConnects, WebSocket!fdVars
  <2>2. CASE WebSocket!OtherOpens
    BY <1>2, <2>2 DEF WebSocket!OtherOpens, WebSocket!Lowest, WebSocket!Free
  <2>3. CASE WebSocket!OtherCloses
    BY <1>2, <2>3 DEF WebSocket!OtherCloses
  <2> QED
    BY <2>1, <2>2, <2>3
<1>4. \A f \in Fd : (holder'[f] = "client" <=> holder[f] = "client") /\ (holder'[f] = "listener" <=> holder[f] = "listener")
  BY <1>3
<1>5. WebSocket!TypeOK'
  BY <1>1, <1>2, <1>3 DEF WsInv, WebSocket!TypeOK, WebSocket!ThisClient
<1>6. WsSessions'
  BY <1>1, WsSessionsKept DEF WsInv
<1>7. WsBusy' <=> WsBusy
  BY <1>1 DEF WsBusy
<1>8. WsDescriptors'
  BY <1>1, <1>2, <1>4, <1>7 DEF WsInv, WsDescriptors, WebSocket!Listening, WebSocket!Holds
<1> QED
  BY <1>5, <1>6, <1>8 DEF WsInv

\* Every step keeps sessions and descriptors.
LEMMA WsStepInv == WsInv /\ [WebSocket!Next]_wsVars => WsInv'
<1> SUFFICES ASSUME WsInv, [WebSocket!Next]_wsVars PROVE WsInv'
  OBVIOUS
<1>1. CASE UNCHANGED wsVars
  BY <1>1 DEF wsVars, WsInv, WebSocket!TypeOK, WebSocket!ThisClient, WsSessions,
     WebSocket!SessionsPaired,
              WsDescriptors, WsBusy, WebSocket!Listening, WebSocket!Holds
<1>2. CASE WebSocket!Next
  BY <1>2, WsFailsInv, WsRunsInv, WsStopInv, WsMovesInv, WsAcceptsInv, WsClosesInv, WsReportsInv,
     WsOthersInv
     DEF WebSocket!Next, WebSocket!OwnerStep, WebSocket!ThreadStep, WebSocket!PeerEnds
<1> QED
  BY <1>1, <1>2

\* What the invariant says of sessions and leaks.
LEMMA WsServes == WsInv => WebSocket!TypeOK /\ WebSocket!SessionsPaired /\ WebSocket!NothingLeaked
<1> SUFFICES ASSUME WsInv, ~wsDead
             PROVE  /\ wsThread \in {"none", "loopTest", "select", "accept", "exited"} =>
                         \A f \in Fd : holder[f] # "client"
                    /\ wsOwner = "idle" /\ wsThread = "none" => \A f \in Fd \ wsLost : holder[f] # "listener"
  BY DEF WsInv, WsSessions, WebSocket!NothingLeaked
<1> QED
  BY DEF WsInv, WsDescriptors, WsBusy, WebSocket!Session

\* Other descriptors are touched where serverFd_ is stale.
StepForeign == wsForeign' # wsForeign => stale /\ (~wsRunning \/ wsLost # {})

\* Only the close of Stop and accept touch what serverFd_ names.
LEMMA ForeignStep == WsInv /\ [WebSocket!Next]_wsVars => [StepForeign]_(WebSocket!vars)
<1> SUFFICES ASSUME WsInv, [WebSocket!Next]_wsVars, wsForeign' # wsForeign
             PROVE  stale /\ (~wsRunning \/ wsLost # {})
  BY DEF StepForeign
<1>1. WebSocket!StopCloses \/ WebSocket!AcceptsForeign
  BY DEF WebSocket!Next, WebSocket!OwnerStep, WebSocket!ThreadStep, WebSocket!PeerEnds,
     WebSocket!StartFails,
         WebSocket!StartRuns, WebSocket!StopStores, WebSocket!StopJoins, WebSocket!LoopTests,
         WebSocket!Selects,
         WebSocket!AcceptsClient, WebSocket!AcceptFails, WebSocket!HandshakeFails,
         WebSocket!HandshakeSucceeds,
         WebSocket!Receives, WebSocket!CallbackReturns, WebSocket!Leaves, WebSocket!SessionEnds,
         WebSocket!ThreadKills,
         WebSocket!ClientConnects, WebSocket!OtherOpens, WebSocket!OtherCloses, WebSocket!fdVars,
         wsVars
<1>2. WebSocket!Holds("other")
  BY <1>1 DEF WebSocket!StopCloses, WebSocket!AcceptsForeign, WebSocket!fdVars
<1>3. serverFd # 0 /\ holder[serverFd] = "other" /\ ~WebSocket!Listening
  BY <1>2 DEF WebSocket!Holds, WebSocket!Listening
<1> QED
  BY <1>3 DEF WsInv, WsDescriptors

---------------------------------------------------------------------------
(* Rcon: client and servers                                                *)


\* Connections are numbered in the order they are made; the one that the
\* server reads from has not been closed by it.
RemoteLinks ==
  /\ \A c \in Remote!Conn : c > made => conn[c] = "none" /\ unread[c] = 0
  /\ sock <= made
  /\ rconThread # "none" => rconPeer = "RconServer"
  /\ rconThread = "recv" => rconServing \in Remote!Conn /\ conn[rconServing] \in {"accepted", "gone"}

\* Nothing arrives from RconServer.  The other server owes the client at
\* most one reply while the stream is whole: it has yet to read the request,
\* or the reply is on its way, or it has closed.
RemoteReplies ==
  /\ rconPeer \in {"RconServer", "other"}
  /\ rconPeer = "RconServer" => replies = <<>> /\ ~garbled /\ last.id = 0
  /\ rconPeer = "other" /\ sock # 0 /\ conn[sock] \in {"closed", "reset"} => unread[sock] = 0
  /\ rconPeer = "other" /\ sock # 0 /\ ~garbled =>
       \/ unread[sock] = 0 /\ replies = <<>>
       \/ op # "none" /\ unread[sock] = 1 /\ replies = <<>>
       \/ op # "none" /\ unread[sock] = 0 /\ \E id \in {-1, request} : replies = <<id>>

RemoteInv == Remote!TypeOK /\ RemoteLinks /\ RemoteReplies /\ Remote!InStep

\* What the numbers of connections and requests are.
LEMMA RemoteBounds == MaxConn \in Nat \ {0} /\ MaxRequest \in Nat
BY ClientsAssumption DEF Remote!BoundAssumption

\* At first nothing is connected.
LEMMA RemoteInitInv == Remote!Init => RemoteInv
<1> SUFFICES ASSUME Remote!Init PROVE RemoteInv
  OBVIOUS
<1>1. /\ ~rconRunning /\ rconRunning \in BOOLEAN /\ ~rconConnected /\ rconConnected \in BOOLEAN
      /\ ~garbled /\ garbled \in BOOLEAN
  BY DEF Remote!Init
<1>2. conn \in [Remote!Conn -> Remote!Link] /\ unread \in [Remote!Conn -> Nat]
  BY DEF Remote!Init, Remote!Link
<1>3. replies \in Seq(Int)
  BY DEF Remote!Init
<1>4. Remote!TypeOK
  BY <1>1, <1>2, <1>3, RemoteBounds DEF Remote!Init, Remote!TypeOK
<1>5. RemoteLinks
  BY RemoteBounds DEF Remote!Init, RemoteLinks
<1>6. RemoteReplies
  BY DEF Remote!Init, RemoteReplies, Remote!Nothing
<1>7. Remote!InStep
  BY DEF Remote!Init, Remote!InStep, Remote!Nothing
<1> QED
  BY <1>4, <1>5, <1>6, <1>7 DEF RemoteInv

\* The client connects, over an old connection or none, and disconnects.
LEMMA RemoteConnectInv ==
  ASSUME RemoteInv, Remote!Connect \/ Remote!ConnectFails \/ Remote!Disconnect
  PROVE  RemoteInv'
<1>1. /\ UNCHANGED <<rconPeer, rconRunning, rconThread, rconServing, rconOwner, served, unread,
                     op, request, last>>
      /\ op = "none"
  BY DEF Remote!Connect, Remote!ConnectFails, Remote!Disconnect, Remote!serverVars
<1>2. /\ conn \in [Remote!Conn -> Remote!Link] /\ unread \in [Remote!Conn -> Nat]
      /\ made \in 0..MaxConn /\ sock \in 0..MaxConn /\ replies \in Seq(Int)
      /\ rconConnected \in BOOLEAN /\ garbled \in BOOLEAN
  BY DEF RemoteInv, Remote!TypeOK
<1>3. Remote!InStep'
  BY <1>1 DEF RemoteInv, Remote!InStep
<1>4. CASE Remote!Connect
  <2>1. /\ made < MaxConn /\ made' = made + 1 /\ sock' = made + 1 /\ replies' = <<>>
        /\ conn' = [conn EXCEPT ![made + 1] = IF rconPeer = "other" THEN "accepted" ELSE "pending"]
    BY <1>4 DEF Remote!Connect
  <2>2. ~garbled' /\ garbled' \in BOOLEAN /\ rconConnected' \in BOOLEAN
    BY <1>4 DEF Remote!Connect
  <2>3. made + 1 \in Remote!Conn /\ conn[made + 1] = "none" /\ unread[made + 1] = 0
    BY <1>2, <2>1, RemoteBounds DEF RemoteInv, RemoteLinks, Remote!Conn
  <2>4. /\ conn' \in [Remote!Conn -> Remote!Link]
        /\ \A c \in Remote!Conn : c # made + 1 => conn'[c] = conn[c]
        /\ conn'[made + 1] \in {"accepted", "pending"}
    BY <1>2, <2>1, <2>3 DEF Remote!Link
  <2>5. replies' \in Seq(Int) /\ made' \in 0..MaxConn /\ sock' \in 0..MaxConn
    BY <1>2, <2>1, RemoteBounds
  <2>6. Remote!TypeOK'
    BY <1>1, <2>2, <2>4, <2>5 DEF RemoteInv, Remote!TypeOK
  <2>7. RemoteLinks'
    <3>1. \A c \in Remote!Conn : c > made' => c > made /\ c # made + 1
      BY <1>2, <2>1 DEF Remote!Conn
    <3>2. sock' <= made'
      BY <1>2, <2>1
    <3> QED
      BY <1>1, <2>3, <2>4, <3>1, <3>2 DEF RemoteInv, RemoteLinks
  <2>8. RemoteReplies'
    BY <1>1, <2>1, <2>2, <2>3 DEF RemoteInv, RemoteReplies
  <2> QED
    BY <1>3, <2>6, <2>7, <2>8 DEF RemoteInv
<1>5. CASE Remote!ConnectFails
  <2>1. sock' = 0 /\ UNCHANGED <<conn, made, rconConnected, replies, garbled>>
    BY <1>5 DEF Remote!ConnectFails
  <2>2. Remote!TypeOK'
    BY <1>1, <2>1, RemoteBounds DEF RemoteInv, Remote!TypeOK
  <2>3. RemoteLinks'
    BY <1>1, <1>2, <2>1 DEF RemoteInv, RemoteLinks
  <2>4. RemoteReplies'
    BY <1>1, <2>1 DEF RemoteInv, RemoteReplies
  <2> QED
    BY <1>3, <2>2, <2>3, <2>4 DEF RemoteInv
<1>6. CASE Remote!Disconnect
  <2>1. /\ sock' = 0 /\ UNCHANGED <<made, replies, garbled>>
        /\ conn' = IF sock = 0 THEN conn ELSE [conn EXCEPT ![sock] = "gone"]
    BY <1>6 DEF Remote!Disconnect
  <2>2. rconConnected' \in BOOLEAN
    BY <1>6 DEF Remote!Disconnect
  <2>3. /\ conn' \in [Remote!Conn -> Remote!Link]
        /\ \A c \in Remote!Conn : conn'[c] = conn[c] \/ (c = sock /\ conn'[c] = "gone")
    BY <1>2, <2>1 DEF Remote!Link
  <2>4. Remote!TypeOK'
    BY <1>1, <2>1, <2>2, <2>3, RemoteBounds DEF RemoteInv, Remote!TypeOK
  <2>5. RemoteLinks'
    <3>1. \A c \in Remote!Conn : c > made => c # sock
      BY <1>2 DEF RemoteInv, RemoteLinks, Remote!Conn
    <3> QED
      BY <1>1, <1>2, <2>1, <2>3, <3>1 DEF RemoteInv, RemoteLinks
  <2>6. RemoteReplies'
    BY <1>1, <2>1 DEF RemoteInv, RemoteReplies
  <2> QED
    BY <1>3, <2>4, <2>5, <2>6 DEF RemoteInv
<1> QED
  BY <1>4, <1>5, <1>6

\* A packet is sent when no reply is owed.
LEMMA RemoteSendsInv ==
  ASSUME RemoteInv, NEW kind \in {"authenticate", "command"}, Remote!Sends(kind)
  PROVE  RemoteInv'
<1>1. /\ UNCHANGED <<rconPeer, rconRunning, rconThread, rconServing, rconOwner, served, made, sock,
                     rconConnected, replies, garbled>>
      /\ op = "none" /\ request < MaxRequest /\ request' = request + 1
  BY DEF Remote!Sends, Remote!serverVars
<1>2. /\ conn \in [Remote!Conn -> Remote!Link] /\ unread \in [Remote!Conn -> Nat]
      /\ made \in 0..MaxConn /\ sock \in 0..MaxConn /\ request \in 0..MaxRequest
  BY DEF RemoteInv, Remote!TypeOK
<1>3. request' \in 0..MaxRequest
  BY <1>1, <1>2, RemoteBounds
<1>4. CASE sock = 0
  <2>1. op' = "none" /\ last' = [by |-> kind, how |-> "unsent", id |-> 0]
    BY <1>4 DEF Remote!Sends, Remote!Unsent
  <2>2. UNCHANGED <<unread, conn>>
    BY <1>4 DEF Remote!Sends
  <2>3. Remote!TypeOK'
    BY <1>1, <1>3, <2>1, <2>2 DEF RemoteInv, Remote!TypeOK
  <2>4. RemoteLinks' /\ RemoteReplies'
    BY <1>1, <1>4, <2>1, <2>2 DEF RemoteInv, RemoteLinks, RemoteReplies
  <2>5. Remote!InStep'
    BY <2>1 DEF Remote!InStep
  <2> QED
    BY <2>3, <2>4, <2>5 DEF RemoteInv
<1>5. CASE sock # 0
  <2>1. op' = kind /\ last' = last
    BY <1>5 DEF Remote!Sends, Remote!Unsent, Remote!Awaits
  <2>2. sock \in Remote!Conn
    BY <1>2, <1>5, RemoteBounds DEF Remote!Conn
  <2>3. unread' = IF conn[sock] \in {"pending", "accepted"} THEN [unread EXCEPT ![sock] = @ + 1] ELSE unread
    BY <1>5 DEF Remote!Sends
  <2>4. conn' = IF conn[sock] = "closed" THEN [conn EXCEPT ![sock] = "reset"] ELSE conn
    BY <1>5 DEF Remote!Sends
  <2>5. /\ unread' \in [Remote!Conn -> Nat] /\ conn' \in [Remote!Conn -> Remote!Link]
        /\ \A c \in Remote!Conn : c # sock => unread'[c] = unread[c] /\ conn'[c] = conn[c]
        /\ conn[sock] \in {"pending", "accepted"} => unread'[sock] = unread[sock] + 1
        /\ conn[sock] \notin {"pending", "accepted"} => unread'[sock] = unread[sock]
        /\ conn[sock] # "closed" => conn'[sock] = conn[sock]
        /\ conn[sock] = "closed" => conn'[sock] = "reset"
    BY <1>2, <2>2, <2>3, <2>4 DEF Remote!Link
  <2>6. Remote!TypeOK'
    BY <1>1, <1>3, <1>5, <2>1, <2>5 DEF RemoteInv, Remote!TypeOK
  <2>7. RemoteLinks'
    <3>1. \A c \in Remote!Conn : c > made => c # sock
      BY <1>2 DEF RemoteInv, RemoteLinks, Remote!Conn
    <3> QED
      BY <1>1, <2>2, <2>5, <3>1 DEF RemoteInv, RemoteLinks
  <2>8. RemoteReplies'
    <3>1. rconPeer = "RconServer" => replies' = <<>> /\ ~garbled' /\ last'.id = 0
      BY <1>1, <2>1 DEF RemoteInv, RemoteReplies
    <3>2. ASSUME rconPeer = "other", ~garbled
          PROVE  unread'[sock] \in {0, 1} /\ replies' = <<>>
      BY <1>1, <1>5, <2>5, <3>2 DEF RemoteInv, RemoteReplies
    <3>3. rconPeer = "other" /\ conn'[sock] \in {"closed", "reset"} => unread'[sock] = 0
      BY <1>5, <2>5 DEF RemoteInv, RemoteReplies
    <3> QED
      BY <1>1, <2>1, <3>1, <3>2, <3>3 DEF RemoteInv, RemoteReplies
  <2>9. Remote!InStep'
    BY <2>1 DEF Remote!InStep
  <2> QED
    BY <2>6, <2>7, <2>8, <2>9 DEF RemoteInv
<1> QED
  BY <1>4, <1>5

\* A call of the client ends.
LEMMA RemoteReceiveInv ==
  ASSUME RemoteInv, Remote!Receive
  PROVE  RemoteInv'
<1>1. /\ UNCHANGED <<rconPeer, rconRunning, rconThread, rconServing, rconOwner, served, conn, unread,
                     made, sock, rconConnected, request>>
      /\ op # "none" /\ op' = "none"
  BY DEF Remote!Receive, Remote!ReceivesNothing, Remote!ReceivesReply, Remote!ReceivesGarbage,
     Remote!Given, Remote!serverVars
<1>2. sock # 0 /\ replies \in Seq(Int) /\ garbled \in BOOLEAN
  BY <1>1 DEF RemoteInv, Remote!TypeOK
<1>3. RemoteLinks'
  BY <1>1 DEF RemoteInv, RemoteLinks
<1>4. CASE Remote!ReceivesNothing
  <2>1. /\ conn[sock] \in {"closed", "reset"} /\ replies = <<>> /\ UNCHANGED <<replies, garbled>>
        /\ last' = [by |-> op, how |-> "lost", id |-> 0]
    BY <1>4 DEF Remote!ReceivesNothing, Remote!Given, Remote!LostId
  <2>2. Remote!TypeOK'
    BY <1>1, <2>1 DEF RemoteInv, Remote!TypeOK
  <2>3. RemoteReplies'
    BY <1>1, <1>2, <2>1 DEF RemoteInv, RemoteReplies
  <2>4. Remote!InStep'
    BY <2>1 DEF Remote!InStep
  <2> QED
    BY <1>3, <2>2, <2>3, <2>4 DEF RemoteInv
<1>5. CASE Remote!ReceivesReply
  <2>1. replies # <<>> /\ ~garbled /\ replies' = Tail(replies)
    BY <1>5 DEF Remote!ReceivesReply
  <2>2. garbled' \in BOOLEAN
    BY <1>5 DEF Remote!ReceivesReply
  <2>3. \/ last' = [by |-> op, how |-> "reply", id |-> Head(replies)]
        \/ last' = [by |-> op, how |-> "lost", id |-> 0]
    BY <1>5 DEF Remote!ReceivesReply, Remote!Given, Remote!LostId
  <2>4. rconPeer = "other" /\ unread[sock] = 0 /\ \E id \in {-1, request} : replies = <<id>>
    BY <1>2, <2>1 DEF RemoteInv, RemoteReplies
  <2>5. PICK id \in {-1, request} : replies = <<id>>
    BY <2>4
  <2>6. Head(replies) = id /\ replies' = <<>>
    BY <2>1, <2>5
  <2>7. replies' \in Seq(Int)
    BY <2>6
  <2>8. Remote!TypeOK'
    BY <1>1, <2>2, <2>7 DEF RemoteInv, Remote!TypeOK
  <2>9. RemoteReplies'
    BY <1>1, <2>4, <2>6 DEF RemoteInv, RemoteReplies
  <2>10. Remote!InStep'
    BY <1>1, <2>3, <2>6 DEF Remote!InStep
  <2> QED
    BY <1>3, <2>8, <2>9, <2>10 DEF RemoteInv
<1>6. CASE Remote!ReceivesGarbage
  <2>1. /\ garbled /\ garbled' = garbled /\ replies' \in {replies, <<>>}
        /\ \E id \in {-1, 0} : last' = [by |-> op, how |-> "garbage", id |-> id]
    BY <1>6 DEF Remote!ReceivesGarbage, Remote!Given
  <2>2. replies' \in Seq(Int)
    <3>1. <<>> \in Seq(Int)
      OBVIOUS
    <3> QED
      BY <1>2, <2>1, <3>1
  <2>3. Remote!TypeOK'
    BY <1>1, <2>1, <2>2 DEF RemoteInv, Remote!TypeOK
  <2>4. rconPeer = "other"
    BY <2>1 DEF RemoteInv, RemoteReplies
  <2>5. RemoteReplies'
    BY <1>1, <2>1, <2>4 DEF RemoteInv, RemoteReplies
  <2>6. Remote!InStep'
    BY <2>1 DEF Remote!InStep
  <2> QED
    BY <1>3, <2>3, <2>5, <2>6 DEF RemoteInv
<1> QED
  BY <1>4, <1>5, <1>6 DEF Remote!Receive

\* The other server answers the oldest request it has, or closes.
LEMMA RemoteOtherInv ==
  ASSUME RemoteInv, Remote!OtherReplies \/ Remote!OtherCloses
  PROVE  RemoteInv'
<1>1. /\ UNCHANGED <<rconPeer, rconRunning, rconThread, rconServing, rconOwner, served, made, sock,
                     rconConnected, op, request, garbled, last>>
      /\ rconPeer = "other" /\ sock # 0
  BY DEF Remote!OtherReplies, Remote!OtherCloses, Remote!serverVars, Remote!clientVars
<1>2. /\ conn \in [Remote!Conn -> Remote!Link] /\ unread \in [Remote!Conn -> Nat] /\ replies \in Seq(Int)
      /\ made \in 0..MaxConn /\ sock \in 0..MaxConn /\ request \in 0..MaxRequest
  BY DEF RemoteInv, Remote!TypeOK
<1>3. sock \in Remote!Conn /\ \A c \in Remote!Conn : c > made => c # sock
  BY <1>1, <1>2, RemoteBounds DEF Remote!Conn, RemoteInv, RemoteLinks
<1>4. Remote!InStep'
  BY <1>1 DEF RemoteInv, Remote!InStep
<1>5. rconThread = "none"
  BY <1>1 DEF RemoteInv, RemoteLinks
<1>6. CASE Remote!OtherReplies
  <2>1. PICK id \in {-1, request - unread[sock] + 1} : replies' = Append(replies, id)
    BY <1>6 DEF Remote!OtherReplies
  <2>2. /\ unread[sock] > 0 /\ unread' = [unread EXCEPT ![sock] = @ - 1] /\ conn' = conn
    BY <1>6 DEF Remote!OtherReplies
  <2>3. /\ unread' \in [Remote!Conn -> Nat] /\ unread'[sock] = unread[sock] - 1
        /\ \A c \in Remote!Conn : c # sock => unread'[c] = unread[c]
    BY <1>2, <1>3, <2>2
  <2>4. id \in Int /\ replies' \in Seq(Int)
    BY <1>2, <1>3, <2>1
  <2>5. Remote!TypeOK'
    BY <1>1, <2>2, <2>3, <2>4 DEF RemoteInv, Remote!TypeOK
  <2>6. RemoteLinks'
    BY <1>1, <1>3, <1>5, <2>2, <2>3 DEF RemoteInv, RemoteLinks
  <2>7. ASSUME ~garbled
        PROVE  op # "none" /\ unread'[sock] = 0 /\ id \in {-1, request} /\ replies' = <<id>>
    <3>1. op # "none" /\ unread[sock] = 1 /\ replies = <<>>
      BY <1>1, <2>2, <2>7 DEF RemoteInv, RemoteReplies
    <3>2. request - 1 + 1 = request
      BY <1>2
    <3>3. Append(<<>>, id) = <<id>>
      BY <2>4
    <3> QED
      BY <2>1, <2>3, <3>1, <3>2, <3>3
  <2>8. conn[sock] \notin {"closed", "reset"}
    BY <1>1, <2>2 DEF RemoteInv, RemoteReplies
  <2>9. RemoteReplies'
    BY <1>1, <2>2, <2>7, <2>8 DEF RemoteInv, RemoteReplies
  <2> QED
    BY <1>4, <2>5, <2>6, <2>9 DEF RemoteInv
<1>7. CASE Remote!OtherCloses
  <2>1. /\ conn' = [conn EXCEPT ![sock] = IF unread[sock] > 0 THEN "reset" ELSE "closed"]
        /\ unread' = [unread EXCEPT ![sock] = 0] /\ replies' = replies
    BY <1>7 DEF Remote!OtherCloses
  <2>2. /\ conn' \in [Remote!Conn -> Remote!Link] /\ unread' \in [Remote!Conn -> Nat] /\ unread'[sock] = 0
        /\ \A c \in Remote!Conn : c # sock => unread'[c] = unread[c] /\ conn'[c] = conn[c]
    BY <1>2, <1>3, <2>1 DEF Remote!Link
  <2>3. Remote!TypeOK'
    BY <1>1, <2>1, <2>2 DEF RemoteInv, Remote!TypeOK
  <2>4. RemoteLinks'
    BY <1>1, <1>3, <1>5, <2>2 DEF RemoteInv, RemoteLinks
  <2>5. RemoteReplies'
    BY <1>1, <2>1, <2>2 DEF RemoteInv, RemoteReplies
  <2> QED
    BY <1>4, <2>3, <2>4, <2>5 DEF RemoteInv
<1> QED
  BY <1>6, <1>7

\* The steps of RconServer.
LEMMA RemoteServerInv ==
  ASSUME RemoteInv,
         Remote!Start \/ Remote!StopCloses \/ Remote!StopJoins \/ Remote!LoopTests \/ Remote!Accepts \/ Remote!Handles
  PROVE  RemoteInv'
<1>1. UNCHANGED <<rconPeer, made, sock, rconConnected, op, request, garbled, last, replies>>
  BY DEF Remote!Start, Remote!StopCloses, Remote!StopJoins, Remote!LoopTests, Remote!Accepts,
     Remote!Handles,
         Remote!ServerOnly, Remote!clientVars
<1>2. rconPeer = "RconServer"
  BY DEF Remote!Start, Remote!StopCloses, Remote!StopJoins, Remote!LoopTests, Remote!Accepts,
     Remote!Handles, RemoteInv, RemoteLinks
<1>3. RemoteReplies' /\ Remote!InStep'
  BY <1>1, <1>2 DEF RemoteInv, RemoteReplies, Remote!InStep
<1>4. conn \in [Remote!Conn -> Remote!Link] /\ unread \in [Remote!Conn -> Nat] /\ served \subseteq Remote!Conn
      /\ rconRunning \in BOOLEAN
  BY DEF RemoteInv, Remote!TypeOK
<1>5. CASE Remote!Start \/ Remote!StopJoins \/ Remote!LoopTests
  <2>1. UNCHANGED <<rconServing, served, conn, unread>> /\ rconThread' \in {"none", "loopTest", "select", "exited"}
        /\ rconOwner' \in {rconOwner, "idle"}
    BY <1>5 DEF Remote!Start, Remote!StopJoins, Remote!LoopTests
  <2>2. rconRunning' \in BOOLEAN
    BY <1>4, <1>5 DEF Remote!Start, Remote!StopJoins, Remote!LoopTests
  <2>3. Remote!TypeOK'
    BY <1>1, <2>1, <2>2 DEF RemoteInv, Remote!TypeOK
  <2>4. RemoteLinks'
    BY <1>1, <1>2, <2>1 DEF RemoteInv, RemoteLinks
  <2> QED
    BY <1>3, <2>3, <2>4 DEF RemoteInv
<1>6. CASE Remote!StopCloses
  <2>1. UNCHANGED <<rconThread, rconServing, served, unread>> /\ rconOwner' = "joining"
        /\ conn' = [c \in Remote!Conn |-> IF conn[c] = "pending" THEN "reset" ELSE conn[c]]
    BY <1>6 DEF Remote!StopCloses
  <2>2. rconRunning' \in BOOLEAN
    BY <1>6 DEF Remote!StopCloses
  <2>3. conn' \in [Remote!Conn -> Remote!Link] /\ \A c \in Remote!Conn : conn[c] # "pending" => conn'[c] = conn[c]
    BY <1>4, <2>1 DEF Remote!Link
  <2>4. Remote!TypeOK'
    BY <1>1, <2>1, <2>2, <2>3 DEF RemoteInv, Remote!TypeOK
  <2>5. RemoteLinks'
    BY <1>1, <2>1, <2>3 DEF RemoteInv, RemoteLinks
  <2> QED
    BY <1>3, <2>4, <2>5 DEF RemoteInv
<1>7. CASE Remote!Accepts
  <2>1. UNCHANGED <<rconRunning, rconOwner, served, unread>>
    BY <1>7 DEF Remote!Accepts
  <2>2. CASE Remote!Oldest = {}
    <3>1. rconThread' = "loopTest" /\ UNCHANGED <<rconServing, conn>>
      BY <1>7, <2>2 DEF Remote!Accepts
    <3>2. Remote!TypeOK' /\ RemoteLinks'
      BY <1>1, <1>2, <2>1, <3>1 DEF RemoteInv, Remote!TypeOK, RemoteLinks
    <3> QED
      BY <1>3, <3>2 DEF RemoteInv
  <2>3. CASE Remote!Oldest # {}
    <3>1. /\ rconServing' \in Remote!Conn /\ conn[rconServing'] = "pending" /\ rconThread' = "recv"
          /\ conn' = [conn EXCEPT ![rconServing'] = "accepted"]
      BY <1>7, <2>3 DEF Remote!Accepts, Remote!Oldest
    <3>2. /\ conn' \in [Remote!Conn -> Remote!Link] /\ conn'[rconServing'] = "accepted"
          /\ \A c \in Remote!Conn : conn[c] # "pending" => conn'[c] = conn[c]
      BY <1>4, <3>1 DEF Remote!Link
    <3>3. rconServing' \in 0..MaxConn
      BY <3>1, RemoteBounds DEF Remote!Conn
    <3>4. Remote!TypeOK'
      BY <1>1, <2>1, <3>1, <3>2, <3>3 DEF RemoteInv, Remote!TypeOK
    <3>5. RemoteLinks'
      BY <1>1, <1>2, <2>1, <3>1, <3>2 DEF RemoteInv, RemoteLinks
    <3> QED
      BY <1>3, <3>4, <3>5 DEF RemoteInv
  <2> QED
    BY <2>2, <2>3
<1>8. CASE Remote!Handles
  <2>1. /\ rconThread = "recv" /\ rconThread' = "loopTest" /\ UNCHANGED <<rconRunning, rconServing, rconOwner>>
        /\ served' = served \cup Remote!HasSent /\ unread' = [unread EXCEPT ![rconServing] = 0]
        /\ conn' = [conn EXCEPT ![rconServing] = IF @ = "gone" THEN "gone" ELSE "closed"]
    BY <1>8 DEF Remote!Handles, Remote!Closed
  <2>2. rconServing \in Remote!Conn /\ conn[rconServing] \in {"accepted", "gone"}
    BY <2>1 DEF RemoteInv, RemoteLinks
  <2>3. /\ conn' \in [Remote!Conn -> Remote!Link] /\ unread' \in [Remote!Conn -> Nat] /\ served' \subseteq Remote!Conn
        /\ \A c \in Remote!Conn : c # rconServing => conn'[c] = conn[c] /\ unread'[c] = unread[c]
    BY <1>4, <2>1, <2>2 DEF Remote!Link, Remote!HasSent
  <2>4. Remote!TypeOK'
    BY <1>1, <2>1, <2>3 DEF RemoteInv, Remote!TypeOK
  <2>5. \A c \in Remote!Conn : c > made => c # rconServing
    BY <2>2 DEF RemoteInv, RemoteLinks
  <2>6. RemoteLinks'
    BY <1>1, <1>2, <2>1, <2>3, <2>5 DEF RemoteInv, RemoteLinks
  <2> QED
    BY <1>3, <2>4, <2>6 DEF RemoteInv
<1> QED
  BY <1>5, <1>6, <1>7, <1>8

\* Every step keeps replies and requests in step.
LEMMA RemoteStepInv == RemoteInv /\ [Remote!Next]_rconVars => RemoteInv'
<1> SUFFICES ASSUME RemoteInv, [Remote!Next]_rconVars PROVE RemoteInv'
  OBVIOUS
<1>1. CASE UNCHANGED rconVars
  BY <1>1 DEF rconVars, RemoteInv, Remote!TypeOK, RemoteLinks, RemoteReplies, Remote!InStep
<1>2. CASE Remote!Next
  BY <1>2, RemoteConnectInv, RemoteSendsInv, RemoteReceiveInv, RemoteOtherInv, RemoteServerInv
     DEF Remote!Next, Remote!ClientStep, Remote!ThreadStep
<1> QED
  BY <1>1, <1>2

\* Whatever came from RconServer has the id 0, which reads as consent.
LEMMA RemoteKept == RemoteInv => Remote!TypeOK /\ Remote!InStep /\ Remote!NeverRefused
BY DEF RemoteInv, RemoteReplies, Remote!NeverRefused, Remote!ReturnsTrue

\* The handler runs for what the connection being read from has sent.
StepHandled == \A c \in Remote!Conn : c \in served' \ served => conn[c] \in {"accepted", "gone"} /\ unread[c] > 0

\* Only Handles calls the handler.
LEMMA HandledStep == RemoteInv /\ [Remote!Next]_rconVars => [StepHandled]_(Remote!vars)
<1> SUFFICES ASSUME RemoteInv, [Remote!Next]_rconVars, NEW c \in Remote!Conn, c \in served' \ served
             PROVE  conn[c] \in {"accepted", "gone"} /\ unread[c] > 0
  BY DEF StepHandled
<1>1. served' # served
  OBVIOUS
<1>2. Remote!Handles
  BY <1>1 DEF Remote!Next, Remote!ClientStep, Remote!ThreadStep, Remote!Connect,
     Remote!ConnectFails,
         Remote!Disconnect, Remote!Sends, Remote!Receive, Remote!ReceivesNothing,
         Remote!ReceivesReply,
         Remote!ReceivesGarbage, Remote!OtherReplies, Remote!OtherCloses, Remote!Start,
         Remote!StopCloses,
         Remote!StopJoins, Remote!LoopTests, Remote!Accepts, Remote!serverVars, rconVars
<1>3. c = rconServing /\ unread[c] > 0
  BY <1>2 DEF Remote!Handles, Remote!HasSent
<1> QED
  BY <1>2, <1>3 DEF Remote!Handles, RemoteInv, RemoteLinks

---------------------------------------------------------------------------
(* NetworkBridge                                                           *)


\* A run of the thread connects once, and once more where Stop cleared the
\* flag between its two reads; the flag that a Stop cleared is set again only
\* by a Connect that was under way or already decided on.
BridgeTyped ==
  /\ bridgeRunning \in BOOLEAN /\ bridgeConnected \in BOOLEAN /\ bridgePeer \in BOOLEAN
  /\ raced \in BOOLEAN /\ bridgeDead \in BOOLEAN
  /\ bridgeThread \in {"none", "test", "connected?", "connect", "store", "drain", "ended"}
  /\ bridgeOwner \in {"idle", "disconnect", "join"}
  /\ bridgeQueue \in 0..MaxPackets /\ bridgeStarts \in 0..MaxBridgeStarts
  /\ sockets \in Nat /\ reopens \in Nat
Spare == sockets < bridgeStarts + reopens
BridgeInv ==
  /\ BridgeTyped /\ sockets <= bridgeStarts + reopens /\ reopens <= bridgeStarts
  /\ bridgeThread # "none" /\ bridgeOwner # "join" => reopens < bridgeStarts
  /\ bridgeOwner # "idle" => ~bridgeRunning
  /\ bridgeOwner = "idle" /\ ~bridgeRunning => bridgeThread = "none"
  /\ bridgeThread = "connect" => Spare
  /\ bridgeThread = "test" /\ bridgeRunning /\ ~bridgeConnected => Spare
  /\ bridgeThread = "connected?" /\ ~bridgeConnected => Spare
  /\ bridgeThread = "drain" /\ bridgeRunning => bridgeConnected
  /\ bridgeThread \in {"store", "drain"} \/ bridgeConnected => sockets > 0
  /\ bridgeOwner = "join" /\ (bridgeConnected \/ bridgeThread \in {"connected?", "connect", "store"})
     => raced
  /\ Bridge!StaleOnlyIfRaced

\* At first nothing has been connected.
LEMMA BridgeInitInv == Bridge!Init => BridgeInv
<1> SUFFICES ASSUME Bridge!Init PROVE BridgeInv
  OBVIOUS
<1>1. MaxBridgeStarts \in Nat /\ MaxPackets \in Nat
  BY BridgesAssumption DEF Bridge!BoundAssumption
<1>2. ~bridgeRunning /\ bridgeRunning \in BOOLEAN /\ ~bridgeConnected /\ bridgeConnected \in BOOLEAN
  BY DEF Bridge!Init
<1>3. raced \in BOOLEAN /\ bridgeDead \in BOOLEAN
  BY DEF Bridge!Init
<1> QED
  BY <1>1, <1>2, <1>3 DEF Bridge!Init, BridgeInv, BridgeTyped, Spare, Bridge!StaleOnlyIfRaced

\* The owner's calls and packets that are sent.
LEMMA BridgeOwnerInv ==
  ASSUME BridgeInv,
         \/ Bridge!Start \/ Bridge!StopStores \/ Bridge!StopDisconnects \/ Bridge!StopJoins
         \/ Bridge!Send \/ Bridge!PeerTurns
  PROVE  BridgeInv'
<1>1. MaxBridgeStarts \in Nat /\ MaxPackets \in Nat
  BY BridgesAssumption DEF Bridge!BoundAssumption
<1> USE DEF BridgeInv, BridgeTyped, Spare, Bridge!StaleOnlyIfRaced, Bridge!histories
<1>2. CASE Bridge!Start
  <2>1. bridgeRunning' /\ bridgeRunning' \in BOOLEAN /\ ~raced' /\ raced' \in BOOLEAN
    BY <1>2 DEF Bridge!Start
  <2>2. bridgeDead' \in BOOLEAN /\ (bridgeDead' <=> bridgeThread # "none")
    BY <1>2 DEF Bridge!Start
  <2>3. /\ bridgeOwner = "idle" /\ bridgeStarts' = bridgeStarts + 1
        /\ bridgeStarts' \in 0..MaxBridgeStarts
        /\ bridgeThread' = IF bridgeThread # "none" THEN bridgeThread ELSE "test"
        /\ UNCHANGED <<bridgeConnected, bridgeOwner, bridgeQueue, bridgePeer, sockets, reopens>>
    BY <1>1, <1>2, <2>2 DEF Bridge!Start
  <2> QED
    BY <2>1, <2>2, <2>3
<1>3. CASE Bridge!StopStores
  <2>1. ~bridgeRunning' /\ bridgeRunning' \in BOOLEAN
    BY <1>3 DEF Bridge!StopStores
  <2> QED
    BY <1>3, <2>1 DEF Bridge!StopStores
<1>4. CASE Bridge!StopDisconnects
  <2>1. ~bridgeConnected' /\ bridgeConnected' \in BOOLEAN
    BY <1>4 DEF Bridge!StopDisconnects
  <2>2. raced' \in BOOLEAN
    BY <1>4 DEF Bridge!StopDisconnects
  <2>3. bridgeThread \in {"connected?", "connect", "store"} => raced'
    BY <1>4 DEF Bridge!StopDisconnects
  <2>4. /\ bridgeOwner = "disconnect" /\ bridgeOwner' = "join"
        /\ UNCHANGED <<bridgeRunning, bridgeThread, bridgeQueue, bridgePeer, bridgeStarts, sockets,
                       bridgeDead>>
    BY <1>4 DEF Bridge!StopDisconnects
  <2>5. CASE bridgeThread = "connected?" /\ bridgeConnected
    <3>1. reopens' = reopens + 1
      BY <1>4, <2>5 DEF Bridge!StopDisconnects
    <3> QED
      BY <2>1, <2>2, <2>3, <2>4, <2>5, <3>1
  <2>6. CASE ~(bridgeThread = "connected?" /\ bridgeConnected)
    <3>1. reopens' = reopens
      BY <1>4, <2>6 DEF Bridge!StopDisconnects
    <3> QED
      BY <2>1, <2>2, <2>3, <2>4, <2>6, <3>1
  <2> QED
    BY <2>5, <2>6
<1>5. CASE Bridge!StopJoins
  BY <1>5 DEF Bridge!StopJoins
<1>6. CASE Bridge!Send
  BY <1>1, <1>6 DEF Bridge!Send
<1>7. CASE Bridge!PeerTurns
  <2>1. bridgePeer' \in BOOLEAN
    BY <1>7 DEF Bridge!PeerTurns
  <2> QED
    BY <1>7, <2>1 DEF Bridge!PeerTurns
<1> QED
  BY <1>2, <1>3, <1>4, <1>5, <1>6, <1>7

\* The thread: it connects where the flag is not set.
LEMMA BridgeThreadInv ==
  ASSUME BridgeInv, Bridge!ThreadStep
  PROVE  BridgeInv'
<1>1. MaxBridgeStarts \in Nat /\ MaxPackets \in Nat
  BY BridgesAssumption DEF Bridge!BoundAssumption
<1> USE DEF BridgeInv, BridgeTyped, Spare, Bridge!StaleOnlyIfRaced, Bridge!histories, Bridge!Goes
<1>2. CASE Bridge!LoopTests \/ Bridge!LoopTestsConnected \/ Bridge!ConnectFails
  BY <1>2 DEF Bridge!LoopTests, Bridge!LoopTestsConnected, Bridge!ConnectFails
<1>3. CASE Bridge!ConnectSucceeds
  BY <1>3 DEF Bridge!ConnectSucceeds
<1>4. CASE Bridge!ConnectStores
  <2>1. bridgeConnected' /\ bridgeConnected' \in BOOLEAN
    BY <1>4 DEF Bridge!ConnectStores
  <2> QED
    BY <1>4, <2>1 DEF Bridge!ConnectStores
<1>5. CASE Bridge!Drains
  BY <1>1, <1>5 DEF Bridge!Drains
<1> QED
  BY <1>2, <1>3, <1>4, <1>5 DEF Bridge!ThreadStep

\* Every step keeps the sockets counted.
LEMMA BridgeStepInv == BridgeInv /\ [Bridge!Next]_bridgeVars => BridgeInv'
<1>1. BridgeInv /\ UNCHANGED bridgeVars => BridgeInv'
  BY DEF bridgeVars, BridgeInv, BridgeTyped, Spare, Bridge!StaleOnlyIfRaced
<1> QED
  BY <1>1, BridgeOwnerInv, BridgeThreadInv DEF Bridge!Next, Bridge!OwnerStep

\* What the invariant says of the sockets and of a stopped bridge.
LEMMA BridgeKept ==
  BridgeInv => Bridge!TypeOK /\ Bridge!StaleOnlyIfRaced /\ Bridge!SocketsBounded
<1> SUFFICES ASSUME BridgeInv PROVE Bridge!TypeOK
  BY DEF BridgeInv, Bridge!SocketsBounded
<1>1. sockets \in 0..2 * MaxBridgeStarts /\ reopens \in 0..bridgeStarts
  BY BridgesAssumption DEF Bridge!BoundAssumption, BridgeInv, BridgeTyped
<1> QED
  BY <1>1 DEF BridgeInv, BridgeTyped, Bridge!TypeOK

\* The queue is emptied by a thread that has had a connection.
StepDrained == bridgeQueue' < bridgeQueue => sockets > 0

\* Only Drains shortens the queue.
LEMMA BridgeDrains == BridgeInv /\ [Bridge!Next]_bridgeVars => [StepDrained]_(Bridge!vars)
<1> SUFFICES ASSUME BridgeInv, [Bridge!Next]_bridgeVars, bridgeQueue' < bridgeQueue
             PROVE  sockets > 0
  BY DEF StepDrained
<1>1. bridgeQueue \in Nat
  BY DEF BridgeInv, BridgeTyped
<1>2. CASE Bridge!Drains
  BY <1>2 DEF Bridge!Drains, BridgeInv, BridgeTyped
<1>3. CASE ~Bridge!Drains
  <2>1. bridgeQueue' = bridgeQueue \/ bridgeQueue' = bridgeQueue + 1
    BY <1>3
    DEF bridgeVars, Bridge!Next, Bridge!OwnerStep, Bridge!ThreadStep, Bridge!Start,
        Bridge!StopStores, Bridge!StopDisconnects, Bridge!StopJoins, Bridge!Send,
        Bridge!PeerTurns, Bridge!Goes, Bridge!LoopTests, Bridge!LoopTestsConnected,
        Bridge!ConnectFails, Bridge!ConnectSucceeds, Bridge!ConnectStores
  <2> QED
    BY <1>1, <2>1
<1> QED
  BY <1>2, <1>3

---------------------------------------------------------------------------
(* PaperBridge                                                             *)


\* The members of a sequence, and no member twice.
In(s) == {s[i] : i \in 1..Len(s)}
Once(s) == \A i, j \in 1..Len(s) : s[i] = s[j] => i = j

PaperTyped ==
  /\ paperRunning \in BOOLEAN /\ paperForeign \in BOOLEAN /\ failed \in BOOLEAN
  /\ paperDead \in BOOLEAN
  /\ paperThread \in Paper!SetUp \cup {"none", "test", "select", "recv", "callback", "ended"}
  /\ paperOwner \in {"idle", "join"} /\ paperStarts \in 0..MaxPaperStarts
  /\ paperServing \in Clients \cup {"none"} /\ said \subseteq Clients /\ paperLost \subseteq Clients
  /\ paperServing # "none" <=> paperThread \in {"recv", "callback"}
  /\ backlog \in Seq(Clients) /\ seen \in Seq(Clients)
\* A client has one fate; a thread that has left a running bridge could not
\* set its socket up, and one that Stop has waited for is none.
PaperFates ==
  /\ Once(backlog) /\ Once(seen) /\ In(backlog) \cap In(seen) = {}
  /\ paperLost \cap (In(backlog) \cup In(seen)) = {} /\ paperServing \notin paperLost
  /\ paperServing \notin In(backlog) \cup In(seen)
PaperEnds ==
  /\ Paper!DeafOnlyIfFailed
  /\ paperOwner = "idle" /\ ~paperRunning => paperThread = "none"
  /\ paperOwner = "join" => ~paperRunning
PaperInv == PaperTyped /\ PaperFates /\ PaperEnds

\* The members of the sequences that the steps make.
LEMMA InAppend ==
  ASSUME NEW S, NEW s \in Seq(S), NEW x \in S
  PROVE  /\ In(Append(s, x)) = In(s) \cup {x}
         /\ Once(s) /\ x \notin In(s) => Once(Append(s, x))
<1>1. Len(s) \in Nat /\ Len(Append(s, x)) = Len(s) + 1 /\ Append(s, x)[Len(s) + 1] = x
      /\ \A i \in 1..Len(s) : Append(s, x)[i] = s[i]
  BY AppendProperties, LenProperties
<1>2. 1..Len(s) + 1 = 1..Len(s) \cup {Len(s) + 1}
  BY <1>1
<1>3. In(Append(s, x)) = In(s) \cup {x}
  BY <1>1, <1>2 DEF In
<1>4. ASSUME Once(s), x \notin In(s) PROVE Once(Append(s, x))
  BY <1>1, <1>2, <1>4 DEF In, Once
<1> QED
  BY <1>3, <1>4

\* What taking the head of a sequence does to its members.
LEMMA InTail ==
  ASSUME NEW S, NEW s \in Seq(S), s # <<>>
  PROVE  /\ In(Tail(s)) \subseteq In(s) /\ Head(s) \in In(s) /\ Head(s) \in S
         /\ Tail(s) \in Seq(S)
         /\ Once(s) => Once(Tail(s)) /\ Head(s) \notin In(Tail(s))
<1>1. /\ Len(s) \in Nat /\ Len(s) > 0 /\ Tail(s) \in Seq(S) /\ Len(Tail(s)) = Len(s) - 1
      /\ Head(s) = s[1] /\ Head(s) \in S
      /\ \A i \in 1..Len(Tail(s)) : Tail(s)[i] = s[i + 1]
  BY HeadTailProperties, LenProperties, EmptySeq
<1>2. \A i \in 1..Len(Tail(s)) : i + 1 \in 1..Len(s) /\ i + 1 # 1
  BY <1>1
<1>3. In(Tail(s)) \subseteq In(s) /\ Head(s) \in In(s)
  BY <1>1, <1>2 DEF In
<1>4. ASSUME Once(s) PROVE Once(Tail(s))
  <2> SUFFICES ASSUME NEW i \in 1..Len(Tail(s)), NEW j \in 1..Len(Tail(s)), Tail(s)[i] = Tail(s)[j]
               PROVE  i = j
    BY DEF Once
  <2>1. s[i + 1] = s[j + 1]
    BY <1>1
  <2>2. i + 1 = j + 1
    BY <1>2, <1>4, <2>1 DEF Once
  <2> QED
    BY <1>1, <2>2
<1>5. ASSUME Once(s) PROVE Head(s) \notin In(Tail(s))
  <2> SUFFICES ASSUME NEW i \in 1..Len(Tail(s)), Tail(s)[i] = s[1] PROVE FALSE
    BY <1>1 DEF In
  <2> QED
    BY <1>1, <1>2, <1>5 DEF Once
<1> QED
  BY <1>1, <1>3, <1>4, <1>5

\* The fates are those that OneFate speaks of.
LEMMA InIsSet == ASSUME NEW S, NEW s \in Seq(S) PROVE Paper!ToSet(s) = In(s)
BY LenProperties DEF Paper!ToSet, In

\* The fates of the clients exclude one another.
LEMMA FatesAreOne ==
  ASSUME PaperTyped, PaperFates
  PROVE  Paper!OneFate
<1> DEFINE t == backlog \o seen
<1>1. backlog \in Seq(Clients) /\ seen \in Seq(Clients)
  BY DEF PaperTyped
<1>2. PICK m \in Nat, n \in Nat : m = Len(backlog) /\ n = Len(seen)
  BY <1>1, LenProperties
<1>3. /\ t \in Seq(Clients) /\ Len(t) = m + n /\ DOMAIN t = 1..m + n
      /\ \A i \in 1..m : t[i] = backlog[i]
      /\ \A i \in 1..n : t[m + i] = seen[i]
  BY <1>1, <1>2
<1>4. \A i \in 1..m + n : i \in 1..m \/ (i - m \in 1..n /\ i = m + (i - m))
  BY <1>2
<1>5. \A i \in 1..m + n : \/ i \in 1..m /\ t[i] = backlog[i]
                          \/ i - m \in 1..n /\ t[i] = seen[i - m]
  BY <1>3, <1>4
<1> HIDE DEF t
<1>6. In(t) = In(backlog) \cup In(seen)
  <2>1. In(t) \subseteq In(backlog) \cup In(seen)
    BY <1>2, <1>3, <1>5 DEF In
  <2>2. \A i \in 1..m : i \in 1..m + n
    BY <1>2
  <2>3. \A i \in 1..n : m + i \in 1..m + n
    BY <1>2
  <2>4. In(backlog) \subseteq In(t)
    BY <1>2, <1>3, <2>2 DEF In
  <2>5. In(seen) \subseteq In(t)
    BY <1>2, <1>3, <2>3 DEF In
  <2> QED
    BY <2>1, <2>4, <2>5
<1>7. ASSUME NEW i \in 1..m + n, NEW j \in 1..m + n, t[i] = t[j] PROVE i = j
  <2>1. CASE i \in 1..m /\ j \in 1..m
    BY <1>2, <1>3, <1>7, <2>1 DEF PaperFates, Once
  <2>2. CASE i - m \in 1..n /\ j - m \in 1..n /\ i \notin 1..m /\ j \notin 1..m
    <3>1. t[i] = seen[i - m] /\ t[j] = seen[j - m]
      BY <1>5, <2>2
    <3>2. i - m = j - m
      BY <1>2, <1>7, <2>2, <3>1 DEF PaperFates, Once
    <3> QED
      BY <1>2, <3>2
  <2>3. ASSUME NEW k \in 1..m + n, NEW l \in 1..m + n, k \in 1..m, l \notin 1..m PROVE t[k] # t[l]
    <3>1. t[k] \in In(backlog) /\ t[l] \in In(seen)
      BY <1>2, <1>3, <1>5, <2>3 DEF In
    <3> QED
      BY <3>1 DEF PaperFates
  <2> QED
    BY <1>4, <1>7, <2>1, <2>2, <2>3
<1>8. Paper!IsInjective(t)
  BY <1>3, <1>7 DEF Paper!IsInjective
<1>9. Paper!ToSet(t) = In(backlog) \cup In(seen)
  BY <1>3, <1>6, InIsSet
<1> QED
  BY <1>8, <1>9 DEF Paper!OneFate, PaperFates, t

\* At first nobody has connected.
LEMMA PaperInitInv == Paper!Init => PaperInv
<1> SUFFICES ASSUME Paper!Init PROVE PaperInv
  OBVIOUS
<1>1. MaxPaperStarts \in Nat
  BY BridgesAssumption DEF Paper!ClientsAssumption
<1>2. ~paperRunning /\ paperRunning \in BOOLEAN /\ failed \in BOOLEAN /\ paperDead \in BOOLEAN
  BY DEF Paper!Init
<1>3. PaperTyped
  BY <1>1, <1>2 DEF Paper!Init, Paper!None, PaperTyped
<1>4. In(<<>>) = {} /\ Once(<<>>)
  BY DEF In, Once
<1>5. PaperFates
  BY <1>4 DEF Paper!Init, Paper!None, PaperFates
<1> QED
  BY <1>2, <1>3, <1>5 DEF Paper!Init, Paper!None, PaperInv, PaperEnds, Paper!DeafOnlyIfFailed

\* The owner's calls, and who else has the port.
LEMMA PaperOwnerInv ==
  ASSUME PaperInv, Paper!Start \/ Paper!StopStores \/ Paper!StopJoins \/ Paper!ForeignTurns
  PROVE  PaperInv'
<1>1. MaxPaperStarts \in Nat
  BY BridgesAssumption DEF Paper!ClientsAssumption
<1>2. UNCHANGED <<backlog, paperServing, said, seen, paperLost>>
  BY DEF Paper!Start, Paper!StopStores, Paper!StopJoins, Paper!ForeignTurns, Paper!clientVars
<1>3. PaperFates'
  BY <1>2 DEF PaperInv, PaperFates, In, Once
<1> USE DEF PaperInv, PaperTyped, PaperEnds, Paper!DeafOnlyIfFailed, Paper!None, Paper!SetUp
<1>4. CASE Paper!Start
  <2>1. paperRunning' /\ paperRunning' \in BOOLEAN
    BY <1>4 DEF Paper!Start
  <2>2. paperDead' \in BOOLEAN /\ (paperDead' <=> paperThread # "none")
    BY <1>4 DEF Paper!Start
  <2>3. failed' \in BOOLEAN /\ (failed' <=> failed /\ paperDead')
    BY <1>4 DEF Paper!Start
  <2>4. /\ paperThread' = IF paperThread # "none" THEN paperThread ELSE "socket"
        /\ paperOwner = "idle" /\ paperStarts' \in 0..MaxPaperStarts
        /\ UNCHANGED <<paperOwner, paperForeign>>
    BY <1>1, <1>4, <2>2 DEF Paper!Start
  <2> QED
    BY <1>2, <1>3, <2>1, <2>2, <2>3, <2>4
<1>5. CASE Paper!StopStores
  <2>1. ~paperRunning' /\ paperRunning' \in BOOLEAN
    BY <1>5 DEF Paper!StopStores
  <2> QED
    BY <1>2, <1>3, <1>5, <2>1 DEF Paper!StopStores
<1>6. CASE Paper!StopJoins
  BY <1>2, <1>3, <1>6 DEF Paper!StopJoins
<1>7. CASE Paper!ForeignTurns
  <2>1. paperForeign' \in BOOLEAN
    BY <1>7 DEF Paper!ForeignTurns
  <2> QED
    BY <1>2, <1>3, <1>7, <2>1 DEF Paper!ForeignTurns
<1> QED
  BY <1>4, <1>5, <1>6, <1>7

\* The thread: it takes the first of the backlog, reports it, or resets all.
LEMMA PaperThreadInv ==
  ASSUME PaperInv, Paper!ThreadStep, ~Paper!CallbackKills
  PROVE  PaperInv'
<1>1. "none" \notin Clients
  BY BridgesAssumption DEF Paper!ClientsAssumption
<1>2. PaperTyped /\ PaperFates /\ PaperEnds
  BY DEF PaperInv
<1> USE DEF Paper!SetUp
<1>3. /\ PaperEnds'
      /\ UNCHANGED <<paperRunning, paperOwner, paperForeign, paperStarts, paperDead>>
  <2>1. UNCHANGED <<paperRunning, paperOwner, paperForeign, paperStarts, paperDead>>
    BY DEF Paper!ThreadStep, Paper!SetUpFails, Paper!SetsUp, Paper!LoopTests, Paper!TimesOut,
           Paper!Accepts, Paper!AcceptFails, Paper!Receives, Paper!CallbackReturns, Paper!Goes
  <2>2. paperThread # "none" /\ (paperThread' = "ended" => ~paperRunning \/ failed')
    <3>1. CASE Paper!SetUpFails
      BY <3>1 DEF Paper!SetUpFails, Paper!Goes
    <3>2. CASE Paper!SetsUp
      BY <3>2 DEF Paper!SetsUp, Paper!Goes
    <3>3. CASE ~Paper!SetUpFails /\ ~Paper!SetsUp
      BY <3>3, <1>2
      DEF PaperTyped, Paper!ThreadStep, Paper!LoopTests, Paper!TimesOut, Paper!Accepts,
          Paper!AcceptFails, Paper!Receives, Paper!CallbackReturns, Paper!Goes
    <3> QED
      BY <3>1, <3>2, <3>3
  <2> QED
    BY <1>2, <2>1, <2>2 DEF PaperEnds, Paper!DeafOnlyIfFailed
<1>4. ASSUME UNCHANGED <<backlog, paperServing, said, seen, paperLost>>, failed' \in BOOLEAN,
             paperThread' \in Paper!SetUp \cup {"none", "test", "select", "recv", "callback", "ended"},
             paperThread \in {"recv", "callback"} <=> paperThread' \in {"recv", "callback"}
      PROVE  PaperInv'
  <2>1. PaperTyped'
    BY <1>2, <1>3, <1>4 DEF PaperTyped
  <2>2. PaperFates'
    BY <1>2, <1>4 DEF PaperFates, In, Once
  <2> QED
    BY <1>3, <2>1, <2>2 DEF PaperInv
<1>5. CASE Paper!SetUpFails
  <2>1. failed' /\ failed' \in BOOLEAN
    BY <1>5 DEF Paper!SetUpFails
  <2> QED
    BY <1>4, <1>5, <2>1 DEF Paper!SetUpFails, Paper!Goes, Paper!clientVars
<1>6. CASE Paper!SetsUp \/ Paper!TimesOut \/ Paper!Receives
  <2>1. failed' \in BOOLEAN
    BY <1>2, <1>6 DEF Paper!SetsUp, Paper!TimesOut, Paper!Receives, PaperTyped
  <2> QED
    BY <1>4, <1>6, <2>1
    DEF Paper!SetsUp, Paper!TimesOut, Paper!Receives, Paper!Goes, Paper!clientVars
<1>7. CASE Paper!LoopTests /\ paperRunning
  <2>1. failed' \in BOOLEAN
    BY <1>2, <1>7 DEF Paper!LoopTests, PaperTyped
  <2> QED
    BY <1>4, <1>7, <2>1 DEF Paper!LoopTests, Paper!Goes, Paper!clientVars
<1>8. CASE Paper!LoopTests /\ ~paperRunning
  <2>1. /\ paperThread = "test" /\ paperThread' = "ended" /\ backlog' = <<>>
        /\ paperLost' = paperLost \cup Paper!ToSet(backlog)
        /\ UNCHANGED <<paperServing, said, seen, failed>>
    BY <1>8 DEF Paper!LoopTests, Paper!Goes
  <2>2. Paper!ToSet(backlog) = In(backlog) /\ In(backlog) \subseteq Clients
    BY <1>2, InIsSet, ElementOfSeq DEF PaperTyped, In
  <2>3. PaperTyped'
    BY <1>2, <1>3, <2>1, <2>2 DEF PaperTyped
  <2>4. In(<<>>) = {} /\ Once(<<>>)
    BY DEF In, Once
  <2>5. In(backlog)' = In(<<>>) /\ Once(backlog)' = Once(<<>>) /\ In(seen)' = In(seen)
        /\ Once(seen)' = Once(seen)
    BY <2>1 DEF In, Once
  <2>6. PaperFates'
    BY <1>2, <2>1, <2>2, <2>4, <2>5 DEF PaperFates
  <2> QED
    BY <1>3, <2>3, <2>6 DEF PaperInv
<1>9. CASE Paper!Accepts
  <2>1. /\ paperThread = "select" /\ paperThread' = "recv" /\ backlog # <<>>
        /\ paperServing' = Head(backlog) /\ backlog' = Tail(backlog)
        /\ UNCHANGED <<said, seen, paperLost, failed>>
    BY <1>9 DEF Paper!Accepts, Paper!Goes
  <2>2. /\ In(Tail(backlog)) \subseteq In(backlog) /\ Head(backlog) \in In(backlog)
        /\ Head(backlog) \in Clients /\ Tail(backlog) \in Seq(Clients)
        /\ Once(Tail(backlog)) /\ Head(backlog) \notin In(Tail(backlog))
    BY <1>2, <2>1, InTail DEF PaperTyped, PaperFates
  <2>3. PaperTyped'
    BY <1>1, <1>2, <1>3, <2>1, <2>2 DEF PaperTyped
  <2>4. /\ In(backlog)' = In(Tail(backlog)) /\ Once(backlog)' = Once(Tail(backlog))
        /\ In(seen)' = In(seen) /\ Once(seen)' = Once(seen)
    BY <2>1 DEF In, Once
  <2>5. PaperFates'
    BY <1>2, <2>1, <2>2, <2>4 DEF PaperFates
  <2> QED
    BY <1>3, <2>3, <2>5 DEF PaperInv
<1>10. CASE Paper!CallbackReturns
  <2>1. /\ paperThread = "callback" /\ paperThread' = "test"
        /\ seen' = Append(seen, paperServing) /\ paperServing' = "none"
        /\ UNCHANGED <<backlog, said, paperLost, failed>>
    BY <1>10 DEF Paper!CallbackReturns, Paper!Goes, Paper!None
  <2>2. paperServing \in Clients
    BY <1>2, <2>1 DEF PaperTyped
  <2>3. /\ In(Append(seen, paperServing)) = In(seen) \cup {paperServing}
        /\ Once(Append(seen, paperServing)) /\ Append(seen, paperServing) \in Seq(Clients)
    BY <1>2, <2>2, InAppend, AppendProperties DEF PaperTyped, PaperFates
  <2>4. PaperTyped'
    BY <1>2, <1>3, <2>1, <2>3 DEF PaperTyped
  <2>5. /\ In(seen)' = In(Append(seen, paperServing))
        /\ Once(seen)' = Once(Append(seen, paperServing))
        /\ In(backlog)' = In(backlog) /\ Once(backlog)' = Once(backlog)
    BY <2>1 DEF In, Once
  <2>6. In(backlog) \subseteq Clients /\ In(seen) \subseteq Clients
    BY <1>2, ElementOfSeq DEF PaperTyped, In
  <2>7. PaperFates'
    BY <1>1, <1>2, <2>1, <2>2, <2>3, <2>5, <2>6 DEF PaperFates, PaperTyped
  <2> QED
    BY <1>3, <2>4, <2>7 DEF PaperInv
<1>11. CASE Paper!AcceptFails
  <2>1. /\ paperThread = "select" /\ paperThread' = "test" /\ backlog # <<>>
        /\ UNCHANGED <<paperServing, said, seen, failed>>
        /\ \/ UNCHANGED <<backlog, paperLost>>
           \/ /\ backlog' = Tail(backlog)
              /\ paperLost' = paperLost \cup {Head(backlog)}
    BY <1>11 DEF Paper!AcceptFails, Paper!Goes
  <2>2. CASE UNCHANGED <<backlog, paperLost>>
    <3>1. failed' \in BOOLEAN
      BY <1>2, <2>1 DEF PaperTyped
    <3> QED
      BY <1>4, <2>1, <2>2, <3>1
  <2>3. CASE backlog' = Tail(backlog) /\ paperLost' = paperLost \cup {Head(backlog)}
    <3>1. /\ In(Tail(backlog)) \subseteq In(backlog) /\ Head(backlog) \in In(backlog)
          /\ Head(backlog) \in Clients /\ Tail(backlog) \in Seq(Clients)
          /\ Once(Tail(backlog)) /\ Head(backlog) \notin In(Tail(backlog))
      BY <1>2, <2>1, InTail DEF PaperTyped, PaperFates
    <3>2. PaperTyped'
      BY <1>2, <1>3, <2>1, <2>3, <3>1 DEF PaperTyped
    <3>3. /\ In(backlog)' = In(Tail(backlog)) /\ Once(backlog)' = Once(Tail(backlog))
          /\ In(seen)' = In(seen) /\ Once(seen)' = Once(seen)
      BY <2>1, <2>3 DEF In, Once
    <3>4. PaperFates'
      BY <1>2, <2>1, <2>3, <3>1, <3>3 DEF PaperFates
    <3> QED
      BY <1>3, <3>2, <3>4 DEF PaperInv
  <2> QED
    BY <2>1, <2>2, <2>3
<1> QED
  BY <1>5, <1>6, <1>7, <1>8, <1>9, <1>10, <1>11 DEF Paper!ThreadStep

\* The process ends in the callback: nothing else changes.
LEMMA PaperKillInv ==
  ASSUME PaperInv, Paper!CallbackKills
  PROVE  PaperInv'
<1>1. paperDead' \in BOOLEAN
  BY DEF Paper!CallbackKills
<1> QED
  BY <1>1
  DEF Paper!CallbackKills, PaperInv, PaperTyped, PaperFates, PaperEnds, Paper!DeafOnlyIfFailed,
      Paper!clientVars, In, Once

\* Clients connect, of whom nothing was known, and speak.
LEMMA PaperClientInv ==
  ASSUME PaperInv, NEW c \in Clients, Paper!ClientConnects(c) \/ Paper!ClientSpeaks(c)
  PROVE  PaperInv'
<1>1. PaperTyped /\ PaperFates /\ PaperEnds
  BY DEF PaperInv
<1>2. CASE Paper!ClientConnects(c)
  <2>1. /\ backlog' = Append(backlog, c) /\ c \notin Paper!Known
        /\ UNCHANGED <<paperRunning, paperThread, paperOwner, paperForeign, paperServing, said,
                       seen, paperLost, paperStarts, failed, paperDead>>
    BY <1>2 DEF Paper!ClientConnects
  <2>2. c \notin paperLost /\ c \notin In(backlog) /\ c \notin In(seen) /\ c # paperServing
    BY <1>1, <2>1, InIsSet DEF Paper!Known, PaperTyped
  <2>3. /\ In(Append(backlog, c)) = In(backlog) \cup {c} /\ Once(Append(backlog, c))
        /\ Append(backlog, c) \in Seq(Clients)
    BY <1>1, <2>2, InAppend, AppendProperties DEF PaperTyped, PaperFates
  <2>4. PaperTyped'
    BY <1>1, <2>1, <2>3 DEF PaperTyped
  <2>5. /\ In(backlog)' = In(Append(backlog, c)) /\ Once(backlog)' = Once(Append(backlog, c))
        /\ In(seen)' = In(seen) /\ Once(seen)' = Once(seen)
    BY <2>1 DEF In, Once
  <2>6. PaperFates'
    BY <1>1, <2>1, <2>2, <2>3, <2>5 DEF PaperFates
  <2> QED
    BY <1>1, <2>1, <2>4, <2>6 DEF PaperInv, PaperEnds, Paper!DeafOnlyIfFailed
<1>3. CASE Paper!ClientSpeaks(c)
  BY <1>1, <1>3
  DEF Paper!ClientSpeaks, PaperInv, PaperTyped, PaperFates, PaperEnds, Paper!DeafOnlyIfFailed,
      In, Once
<1> QED
  BY <1>2, <1>3

\* Every step gives each client one fate.
LEMMA PaperStepInv == PaperInv /\ [Paper!Next]_paperVars => PaperInv'
<1>1. PaperInv /\ UNCHANGED paperVars => PaperInv'
  BY DEF paperVars, PaperInv, PaperTyped, PaperFates, PaperEnds, Paper!DeafOnlyIfFailed, In, Once
<1> QED
  BY <1>1, PaperOwnerInv, PaperThreadInv, PaperKillInv, PaperClientInv DEF Paper!Next

\* What the invariant says of clients and of a bridge that is deaf.
LEMMA PaperKept == PaperInv => Paper!TypeOK /\ Paper!OneFate /\ Paper!DeafOnlyIfFailed
<1> SUFFICES ASSUME PaperInv PROVE Paper!TypeOK /\ Paper!OneFate
  BY DEF PaperInv, PaperEnds
<1>1. Paper!TypeOK
  BY DEF PaperInv, PaperTyped, Paper!TypeOK, Paper!None
<1> QED
  BY <1>1, FatesAreOne DEF PaperInv

\* A client is taken from the head of the backlog.
StepServed == \A c \in Paper!ToSet(backlog) :
  paperServing' # paperServing /\ paperServing' # Paper!None => paperServing' = Head(backlog)

\* Only Accepts begins to serve a client.
LEMMA PaperServes == [Paper!Next]_paperVars => [StepServed]_(Paper!vars)
BY DEF StepServed, paperVars, Paper!Next, Paper!Start, Paper!StopStores, Paper!StopJoins,
       Paper!ThreadStep, Paper!ForeignTurns, Paper!ClientConnects, Paper!ClientSpeaks,
       Paper!SetUpFails, Paper!SetsUp, Paper!LoopTests, Paper!TimesOut, Paper!Accepts,
       Paper!AcceptFails, Paper!Receives, Paper!CallbackReturns, Paper!CallbackKills, Paper!Goes,
       Paper!clientVars, Paper!vars

---------------------------------------------------------------------------
(* The parts together                                                      *)

PartsInv == HttpInv /\ HttpData /\ WsInv /\ RemoteInv /\ BridgeInv /\ PaperInv

\* Each part starts in its invariant.
LEMMA PartsInit == Init => PartsInv
BY HttpInitInv, HttpInitData, WsInitInv, RemoteInitInv, BridgeInitInv, PaperInitInv
DEF Init, PartsInv

\* A step is one of the part that runs and leaves the others as they are.
LEMMA PartsNext ==
  [Next]_vars => /\ [Http!Next]_httpVars /\ [WebSocket!Next]_wsVars /\ [Remote!Next]_rconVars
                 /\ [Bridge!Next]_bridgeVars /\ [Paper!Next]_paperVars
<1> SUFFICES ASSUME [Next]_vars
             PROVE  /\ [Http!Next]_httpVars /\ [WebSocket!Next]_wsVars /\ [Remote!Next]_rconVars
                    /\ [Bridge!Next]_bridgeVars /\ [Paper!Next]_paperVars
  OBVIOUS
<1>1. CASE UNCHANGED vars
  BY <1>1, Zenon DEF vars
<1>2. CASE Next
  BY <1>2, Zenon DEF Next
<1> QED
  BY <1>1, <1>2

\* The invariants together.
LEMMA Invariance == Spec => []PartsInv
<1>1. PartsInv /\ [Next]_vars => PartsInv'
  BY PartsNext, HttpStepInv, HttpStepData, WsStepInv, RemoteStepInv, BridgeStepInv, PaperStepInv
  DEF PartsInv
<1> QED
  BY PartsInit, <1>1, PTL DEF Spec

(* For any calls, from any thread and from callbacks, over any number of   *)
(* stops and restarts and whatever peers answer: each call is answered     *)
(* once and in its turn, no callback runs once Stop has returned, and      *)
(* HttpClient implements RequestQueue.                                     *)
THEOREM HttpAnswersAlways == Spec => HttpAnswers
<1>1. PartsInv => Http!TypeOK /\ Http!NothingLost
  BY HttpTypeOK, HttpNoneLost DEF PartsInv
<1>2. Spec => [](Http!TypeOK /\ Http!NothingLost)
  BY <1>1, Invariance, PTL
<1>3. PartsInv /\ [Next]_vars => [StepQuiet]_(Http!vars)
  BY PartsNext, QuietStep DEF PartsInv
<1>4. Spec => [][StepQuiet]_(Http!vars)
  BY <1>3, Invariance, PTL DEF Spec
<1>5. Init => Http!Contract!AbsInit
  BY HttpInitContract DEF Init
<1>6. PartsInv /\ [Next]_vars =>
        [Http!Contract!AbsNext]_<<asked, Len(answered), httpRunning \/ httpOwner # "idle">>
  BY PartsNext, HttpNextContract DEF PartsInv
<1>7. Spec => Http!Contract!AbsSpec
  BY <1>5, <1>6, Invariance, PTL DEF Spec, Http!Contract!AbsSpec
<1> QED
  BY <1>2, <1>4, <1>7 DEF HttpAnswers, Http!QuietWhenStopped, StepQuiet, Http!ImplementsContract

(* However many clients come and whichever way they end, over any number   *)
(* of Starts and Stops and whoever else opens descriptors: sessions pair   *)
(* up, no descriptor is leaked, and none of anyone else's is touched while *)
(* serverFd_ names the listener.                                           *)
THEOREM SessionsAreServed == Spec => WebSocketServes
<1>1. PartsInv => WebSocket!TypeOK /\ WebSocket!SessionsPaired /\ WebSocket!NothingLeaked
  BY WsServes DEF PartsInv
<1>2. Spec => [](WebSocket!TypeOK /\ WebSocket!SessionsPaired /\ WebSocket!NothingLeaked)
  BY <1>1, Invariance, PTL
<1>3. PartsInv /\ [Next]_vars => [StepForeign]_(WebSocket!vars)
  BY PartsNext, ForeignStep DEF PartsInv
<1>4. Spec => [][StepForeign]_(WebSocket!vars)
  BY <1>3, Invariance, PTL DEF Spec
<1> QED
  BY <1>2, <1>4 DEF WebSocketServes, WebSocket!ForeignOnlyWhenStale, StepForeign

(* For any number of connections and packets, however replies are cut: the *)
(* reply a call gets is to its own request while the stream is whole, the  *)
(* server refuses no password, and its handler runs for connections that   *)
(* sent something.                                                         *)
THEOREM RepliesInStep == Spec => RconInStep
<1>1. PartsInv => Remote!TypeOK /\ Remote!InStep /\ Remote!NeverRefused
  BY RemoteKept DEF PartsInv
<1>2. Spec => [](Remote!TypeOK /\ Remote!InStep /\ Remote!NeverRefused)
  BY <1>1, Invariance, PTL
<1>3. PartsInv /\ [Next]_vars => [StepHandled]_(Remote!vars)
  BY PartsNext, HandledStep DEF PartsInv
<1>4. Spec => [][StepHandled]_(Remote!vars)
  BY <1>3, Invariance, PTL DEF Spec
<1> QED
  BY <1>2, <1>4 DEF RconInStep, Remote!HandledIfSent, StepHandled

(* Over any number of Starts and packets: a stopped bridge claims a        *)
(* connection only after Stop cleared the flag of a loop on its way to set *)
(* it; a Start opens one socket, and a second only where Stop came between *)
(* the loop's two reads; packets wait for a connection to have been made.  *)
THEOREM BridgeConnectsAlways == Spec => BridgeConnects
<1>1. PartsInv => Bridge!TypeOK /\ Bridge!StaleOnlyIfRaced /\ Bridge!SocketsBounded
  BY BridgeKept DEF PartsInv
<1>2. Spec => [](Bridge!TypeOK /\ Bridge!StaleOnlyIfRaced /\ Bridge!SocketsBounded)
  BY <1>1, Invariance, PTL
<1>3. PartsInv /\ [Next]_vars => [StepDrained]_(Bridge!vars)
  BY PartsNext, BridgeDrains DEF PartsInv
<1>4. Spec => [][StepDrained]_(Bridge!vars)
  BY <1>3, Invariance, PTL DEF Spec
<1> QED
  BY <1>2, <1>4 DEF BridgeConnects, Bridge!WaitsForConnection, StepDrained

(* For every set of clients and number of Starts: a client has one fate    *)
(* and one only, clients are served in order, and only a socket, bind or   *)
(* listen that failed leaves a running bridge deaf.                        *)
THEOREM PaperReportsAlways == Spec => PaperReports
<1>1. PartsInv => Paper!TypeOK /\ Paper!OneFate /\ Paper!DeafOnlyIfFailed
  BY PaperKept DEF PartsInv
<1>2. Spec => [](Paper!TypeOK /\ Paper!OneFate /\ Paper!DeafOnlyIfFailed)
  BY <1>1, Invariance, PTL
<1>3. [Next]_vars => [StepServed]_(Paper!vars)
  BY PartsNext, PaperServes
<1>4. Spec => [][StepServed]_(Paper!vars)
  BY <1>3, PTL DEF Spec
<1> QED
  BY <1>2, <1>4 DEF PaperReports, Paper!ServedInOrder, StepServed
=============================================================================
