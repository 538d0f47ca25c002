---------------------------- MODULE EventPipeline ----------------------------
(***************************************************************************)
(* src/core/server.cpp (HandleEvent) with the PlayerRegistry, the          *)
(* SceneManager, the hardcoded script runtime, the modules' OnEvent, the   *)
(* Metrics and the ActionApplier: what one event after another does to the *)
(* state of the server.  As in RunDemo, each event is handled and the      *)
(* actions it yields are applied before the next one.                      *)
(***************************************************************************)
EXTENDS Integers, Sequences, FiniteSetsExt

CONSTANTS Player,      \* player ids
          NoScene,     \* the empty name: no scene loaded yet
          TestScene,   \* the scene of the runtime's "!scene test"
          ModScene,    \* a scene some module loads
          Shown,       \* an action that only writes to the log when applied
          Word,        \* 2^w, w the width of size_t
          MaxEvents    \* bound on the events

Scene == {NoScene, TestScene, ModScene}

\* Actions are told apart by what applying them does: a LoadScene is the
\* scene it loads, every other action is Shown.
Action == {TestScene, ModScene, Shown}

SceneAssumption == Cardinality(Scene) = 3 /\ Shown \notin Scene
BoundAssumption == Word \in Nat \ {0, 1} /\ MaxEvents \in Nat

VARIABLES players,    \* players_: the scene recorded for each registered player
          scene,      \* SceneManager::currentScene_
          connected,  \* Metrics::playersConnected
          executed,   \* Metrics::actionsExecuted
          events,     \* Metrics::eventsProcessed
          pending,    \* the actions of the last event, not yet applied
          handling,   \* between an event and the application of its actions
          drift,      \* history: joins of registered minus quits of unknown players
          applied,    \* history: actions applied
          stale       \* history: players registered before the last scene change

vars == <<players, scene, connected, executed, events, pending, handling,
          drift, applied, stale>>

Registered == DOMAIN players

Init == /\ players = <<>>
        /\ scene = NoScene
        /\ connected = 0 /\ executed = 0 /\ events = 0
        /\ pending = <<>>
        /\ handling = FALSE
        /\ drift = 0
        /\ applied = 0
        /\ stale = {}

---------------------------------------------------------------------------
\* Server::HandleEvent

\* What the modules make of the action list they are handed: a module may
\* append to it or empty it, and one that throws keeps what it had done.
Dispatched(actions) == {actions, Append(actions, Shown), Append(actions, ModScene), <<>>}

\* Faulty variant: the actions are counted before the modules see them.
AnswerCountsEarly(actions) == /\ pending' \in Dispatched(actions)
                              /\ executed' = (executed + Len(actions)) % Word
                              /\ events' = events + 1
                              /\ handling' = TRUE

\* The script runtime's actions, then the modules'; their number is added to
\* the metric whether or not they are ever applied.
Answer(actions) == /\ pending' \in Dispatched(actions)
                   /\ executed' = (executed + Len(pending')) % Word
                   /\ events' = events + 1
                   /\ handling' = TRUE

Ready == ~handling /\ events < MaxEvents

\* PLAYER_JOIN: AddPlayer overwrites an entry of the same id, the metric
\* counts the join in any case.
HandleJoin(p) == /\ Ready
                 /\ players' = [q \in Registered \cup {p} |->
                                  IF q = p THEN scene ELSE players[q]]
                 /\ connected' = (connected + 1) % Word
                 /\ drift' = IF p \in Registered THEN drift + 1 ELSE drift
                 /\ stale' = stale \ {p}
                 /\ Answer(<<>>)
                 /\ UNCHANGED <<scene, applied>>

\* PLAYER_QUIT: RemovePlayer ignores an unknown id, the metric does not; it
\* is unsigned and wraps.
HandleQuit(p) == /\ Ready
                 /\ players' = [q \in Registered \ {p} |-> players[q]]
                 /\ connected' = (connected - 1) % Word
                 /\ drift' = IF p \in Registered THEN drift ELSE drift - 1
                 /\ stale' = stale \ {p}
                 /\ Answer(<<>>)
                 /\ UNCHANGED <<scene, applied>>

\* CHAT: "!hello" yields a broadcast, "!scene test" a broadcast and a scene
\* to load, any other message nothing; so do the other types of event, and a
\* JOIN or QUIT that carries no player.
Reply == {<<Shown>>, <<Shown, TestScene>>, <<>>}

HandleOther == /\ Ready
               /\ \E r \in Reply : Answer(r)
               /\ UNCHANGED <<players, scene, connected, drift, applied, stale>>

---------------------------------------------------------------------------
\* ActionApplier::Apply: only LoadScene changes the server, and loading the
\* current scene again changes nothing.  Nobody tells the registry.
Loads == {i \in DOMAIN pending : pending[i] # Shown}

Apply == /\ handling
         /\ scene' = IF Loads = {} THEN scene ELSE pending[Max(Loads)]
         /\ stale' = IF \A i \in Loads : pending[i] = scene THEN stale ELSE Registered
         /\ applied' = applied + Len(pending)
         /\ pending' = <<>>
         /\ handling' = FALSE
         /\ UNCHANGED <<players, connected, executed, events, drift>>

Next == \/ \E p \in Player : HandleJoin(p) \/ HandleQuit(p)
        \/ HandleOther
        \/ Apply

Spec == Init /\ [][Next]_vars

---------------------------------------------------------------------------
\* Properties.

TypeOK == /\ Registered \subseteq Player
          /\ players \in [Registered -> Scene]
          /\ scene \in Scene
          /\ connected \in 0..(Word - 1) /\ executed \in 0..(Word - 1)
          /\ events \in 0..MaxEvents
          /\ pending \in Seq(Action)
          /\ handling \in BOOLEAN
          /\ drift \in Int /\ applied \in Nat
          /\ stale \subseteq Registered

\* The metric of connected players and the registry say the same, modulo the
\* width of the counter, up to the joins of players already registered and
\* the quits of unknown ones: those drift apart for good, and a quit of an
\* unknown player on an empty server makes the metric the largest size_t.
MetricMatchesRegistry == connected = (Cardinality(Registered) + drift) % Word

\* Every action that was ever handed out is counted once, the modules' too,
\* and is applied or still in the caller's hands.
ExecutedActionsCounted == executed = (applied + Len(pending)) % Word

\* A registered player's recorded scene is the current one unless the scene
\* has changed since the player last joined: then it is out of date until
\* the next join, since no code calls UpdatePlayerScene.
SceneRecordedAtJoin == \A p \in Registered \ stale : players[p] = scene
=============================================================================
