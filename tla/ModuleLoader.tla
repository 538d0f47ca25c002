---------------------------- MODULE ModuleLoader ----------------------------
(***************************************************************************)
(* src/core/module_loader.cpp: shared objects loaded into the server, each *)
(* with one module instance, the dispatch of an event to all of them, and  *)
(* their unloading, by threads that share the loader's std::shared_mutex.  *)
(*                                                                         *)
(* A thread's place is where it stands between two actions.  It holds the  *)
(* mutex shared at "dispatch", exclusively at "unload" and "unloadAll",    *)
(* and not at all at "loading", where LoadModule has opened the object and *)
(* calls CreateModule, GetInfo and OnLoad.  A module is known by its       *)
(* object: UnloadModule's name is the one the object always reports.       *)
(***************************************************************************)
EXTENDS Naturals, SequencesExt, FiniteSetsExt

CONSTANTS Thread,     \* threads that use the loader
          Path,       \* shared objects
          Bad,        \* those whose OnUnload throws
          MaxLoads    \* bound on the objects opened

PathAssumption == Bad \subseteq Path
LoadsAssumption == MaxLoads \in Nat

VARIABLES modules,   \* modules_: the object of each entry
          refs,      \* open handles of each object, counted by dlopen (external)
          place,     \* where each thread is
          subject,   \* the object a thread is loading
          pos,       \* a thread's position in modules_
          loads,     \* objects opened so far
          leaked,    \* history: handles LoadModule lost to an exception
          broken,    \* history: an exception left UnloadAll half-way
          crashed    \* a call went into an object that is no longer mapped

histVars == <<loads, leaked, broken>>
vars == <<modules, refs, place, subject, pos, histVars, crashed>>

Place == {"idle", "loading", "dispatch", "unload", "unloadAll"}

Unlocked == \A th \in Thread : place[th] \in {"idle", "loading"}
NoWriter == \A th \in Thread : place[th] \notin {"unload", "unloadAll"}

Goto(th, where) == place' = [place EXCEPT ![th] = where]
Mapped(p) == refs[p] > 0
Here(th) == modules[pos[th]]

Init == /\ modules = <<>>
        /\ refs = [p \in Path |-> 0]
        /\ place = [th \in Thread |-> "idle"]
        /\ subject \in [Thread -> Path]
        /\ pos = [th \in Thread |-> 1]
        /\ loads = 0
        /\ leaked = [p \in Path |-> 0]
        /\ broken = FALSE
        /\ crashed = FALSE

\* A dlclose of an object (external): the last one unmaps it, one too many
\* is an error that changes nothing.
Closed(p) == [refs EXCEPT ![p] = IF @ = 0 THEN 0 ELSE @ - 1]

---------------------------------------------------------------------------
\* LoadModule

LoadOpens(th, p) == /\ ~crashed
                    /\ place[th] = "idle"
                    /\ loads < MaxLoads
                    /\ loads' = loads + 1
                    /\ refs' = [refs EXCEPT ![p] = @ + 1]
                    /\ subject' = [subject EXCEPT ![th] = p]
                    /\ Goto(th, "loading")
                    /\ UNCHANGED <<modules, pos, leaked, broken, crashed>>

\* Faulty variant: the early return forgets the dlclose.
LoadRejectedOpen(th) == /\ ~crashed
                        /\ place[th] = "loading"
                        /\ Goto(th, "idle")
                        /\ UNCHANGED <<modules, refs, subject, pos, histVars, crashed>>

\* No CreateModule export, a null instance, another API version, or OnLoad
\* returned false: each closes the handle.
LoadRejected(th) == /\ ~crashed
                    /\ place[th] = "loading"
                    /\ refs' = Closed(subject[th])
                    /\ Goto(th, "idle")
                    /\ UNCHANGED <<modules, subject, pos, histVars, crashed>>

\* CreateModule, GetInfo or OnLoad throws: nobody closes the handle.
LoadThrows(th) == /\ ~crashed
                  /\ place[th] = "loading"
                  /\ leaked' = [leaked EXCEPT ![subject[th]] = @ + 1]
                  /\ Goto(th, "idle")
                  /\ UNCHANGED <<modules, refs, subject, pos, loads, broken, crashed>>

\* Faulty variant: push_back without the unique_lock.
LoadPushesUnlocked(th) == /\ ~crashed
                          /\ place[th] = "loading"
                          /\ modules' = Append(modules, subject[th])
                          /\ Goto(th, "idle")
                          /\ UNCHANGED <<refs, subject, pos, histVars, crashed>>

LoadPushes(th) == /\ ~crashed
                  /\ place[th] = "loading"
                  /\ Unlocked
                  /\ modules' = Append(modules, subject[th])
                  /\ Goto(th, "idle")
                  /\ UNCHANGED <<refs, subject, pos, histVars, crashed>>

---------------------------------------------------------------------------
\* DispatchEvent

DispatchLocks(th) == /\ ~crashed
                     /\ place[th] = "idle"
                     /\ NoWriter
                     /\ pos' = [pos EXCEPT ![th] = 1]
                     /\ Goto(th, "dispatch")
                     /\ UNCHANGED <<modules, refs, subject, histVars, crashed>>

\* OnEvent of the next module; what it throws is caught, so that the loop
\* goes on either way.
DispatchCalls(th) == /\ ~crashed
                     /\ place[th] = "dispatch"
                     /\ pos[th] <= Len(modules)
                     /\ crashed' = ~Mapped(Here(th))
                     /\ pos' = [pos EXCEPT ![th] = @ + 1]
                     /\ UNCHANGED <<modules, refs, place, subject, histVars>>

DispatchEnds(th) == /\ ~crashed
                    /\ place[th] = "dispatch"
                    /\ pos[th] > Len(modules)
                    /\ Goto(th, "idle")
                    /\ UNCHANGED <<modules, refs, subject, pos, histVars, crashed>>

---------------------------------------------------------------------------
\* UnloadModule: the first entry of that name.

UnloadLocks(th, i) == /\ ~crashed
                      /\ place[th] = "idle"
                      /\ Unlocked
                      /\ \A j \in 1..(i - 1) : modules[j] # modules[i]
                      /\ pos' = [pos EXCEPT ![th] = i]
                      /\ Goto(th, "unload")
                      /\ crashed' = ~Mapped(modules[i])
                      /\ UNCHANGED <<modules, refs, subject, histVars>>

\* OnUnload returned: dlclose, erase, unlock.
UnloadCloses(th) == /\ ~crashed
                    /\ place[th] = "unload"
                    /\ Here(th) \notin Bad
                    /\ refs' = Closed(Here(th))
                    /\ modules' = RemoveAt(modules, pos[th])
                    /\ Goto(th, "idle")
                    /\ UNCHANGED <<subject, pos, histVars, crashed>>

\* OnUnload threw: the module stays loaded.
UnloadThrows(th) == /\ ~crashed
                    /\ place[th] = "unload"
                    /\ Here(th) \in Bad
                    /\ Goto(th, "idle")
                    /\ UNCHANGED <<modules, refs, subject, pos, histVars, crashed>>

---------------------------------------------------------------------------
\* UnloadAll, also the destructor's.

UnloadAllLocks(th) == /\ ~crashed
                      /\ place[th] = "idle"
                      /\ Unlocked
                      /\ modules # <<>>
                      /\ pos' = [pos EXCEPT ![th] = 1]
                      /\ Goto(th, "unloadAll")
                      /\ UNCHANGED <<modules, refs, subject, histVars, crashed>>

\* OnUnload and dlclose of one entry, which stays in modules_ for now.
UnloadAllCloses(th) == /\ ~crashed
                       /\ place[th] = "unloadAll"
                       /\ pos[th] <= Len(modules)
                       /\ IF Mapped(Here(th))
                            THEN /\ Here(th) \notin Bad
                                 /\ refs' = Closed(Here(th))
                                 /\ pos' = [pos EXCEPT ![th] = @ + 1]
                                 /\ UNCHANGED crashed
                            ELSE crashed' = TRUE /\ UNCHANGED <<refs, pos>>
                       /\ UNCHANGED <<modules, place, subject, histVars>>

\* OnUnload throws out of the loop, past clear(): the entries before this one
\* stay in modules_ with their handles closed.
UnloadAllThrows(th) == /\ ~crashed
                       /\ place[th] = "unloadAll"
                       /\ pos[th] <= Len(modules)
                       /\ Mapped(Here(th))
                       /\ Here(th) \in Bad
                       /\ broken' = (broken \/ pos[th] > 1)
                       /\ Goto(th, "idle")
                       /\ UNCHANGED <<modules, refs, subject, pos, loads, leaked, crashed>>

UnloadAllClears(th) == /\ ~crashed
                       /\ place[th] = "unloadAll"
                       /\ pos[th] > Len(modules)
                       /\ modules' = <<>>
                       /\ Goto(th, "idle")
                       /\ UNCHANGED <<refs, subject, pos, histVars, crashed>>

---------------------------------------------------------------------------
Working(th) == \/ LoadRejected(th) \/ LoadThrows(th) \/ LoadPushes(th)
               \/ DispatchCalls(th) \/ DispatchEnds(th)
               \/ UnloadCloses(th) \/ UnloadThrows(th)
               \/ UnloadAllCloses(th) \/ UnloadAllThrows(th) \/ UnloadAllClears(th)

Calling(th) == \/ \E p \in Path : LoadOpens(th, p)
               \/ DispatchLocks(th)
               \/ \E i \in 1..Len(modules) : UnloadLocks(th, i)
               \/ UnloadAllLocks(th)

Next == \E th \in Thread : Calling(th) \/ Working(th)

\* A thread in a call goes on: what it calls in a module returns or throws.
Fairness == \A th \in Thread : WF_vars(Working(th))

Spec == Init /\ [][Next]_vars
FairSpec == Spec /\ Fairness

---------------------------------------------------------------------------
\* Properties.

TypeOK == /\ modules \in Seq(Path)
          /\ refs \in [Path -> Nat]
          /\ place \in [Thread -> Place]
          /\ subject \in [Thread -> Path]
          /\ pos \in [Thread -> Nat \ {0}]
          /\ loads \in 0..MaxLoads
          /\ leaked \in [Path -> Nat]
          /\ broken \in BOOLEAN /\ crashed \in BOOLEAN
          /\ \A th \in Thread : place[th] = "unload" => pos[th] <= Len(modules)

\* No call ever goes into an unmapped object, whatever loads, dispatches and
\* unloads interleave and however often one object is loaded; except after
\* an OnUnload threw in the middle of UnloadAll.
CallsAreMapped == crashed => broken

\* Entries of an object that UnloadAll has already closed in its loop.
ClosedSoFar(p) == {i \in 1..Len(modules) :
                     /\ modules[i] = p
                     /\ \E th \in Thread : place[th] = "unloadAll" /\ i < pos[th]}

\* Every open handle is accounted for: an entry of modules_ not yet closed, a
\* thread that is loading it, or an exception of LoadModule that leaked it.
HandlesBalance ==
  ~broken => \A p \in Path :
    refs[p] + Cardinality(ClosedSoFar(p)) =
      Cardinality({i \in 1..Len(modules) : modules[i] = p})
      + Cardinality({th \in Thread : place[th] = "loading" /\ subject[th] = p})
      + leaked[p]

\* The modules an event is dispatched to neither change nor get unmapped
\* under the dispatch, although LoadModule works outside the mutex.
DispatchUndisturbed ==
  [][\A th \in Thread : place[th] = "dispatch" =>
       /\ UNCHANGED <<modules, broken>>
       /\ ~broken => \A i \in 1..Len(modules) : refs'[modules[i]] > 0]_vars

\* A dispatch that holds the mutex comes to its end, whatever throws.
DispatchTerminates == \A th \in Thread :
                        place[th] = "dispatch" ~> (place[th] = "idle" \/ crashed)
=============================================================================
