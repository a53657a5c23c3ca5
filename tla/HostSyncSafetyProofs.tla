------------------------ MODULE HostSyncSafetyProofs ------------------------
(***************************************************************************)
(* What the goroutines that share syncMu keep true of the backends and the  *)
(* routes, and what follows for the results that are shown, for every value *)
(* of HostSync's constants.                                                 *)
(***************************************************************************)
EXTENDS HostSyncProofs

----------------------------------------------------------------------------
(* The inductive invariants.                                                *)

\* server.backends has exactly the processes nobody has stopped, each under its
\* own key, and syncHost's backend cannot go while it holds syncMu.
ProcessesInv ==
  /\ \A k \in DOMAIN backends :
       /\ backends[k] \in DOMAIN procs
       /\ procs[backends[k]].key = k
       /\ procs[backends[k]].status # "stopped"
  /\ NoStrayProcess
  /\ sync # Free /\ sync.pc \in {"register", "send"} => sync.key \in DOMAIN backends

\* Whatever was made under an earlier epoch, the frame of the syncHost that
\* runs included, goes with the reconfigureBackends that the change spawned.
EpochInv ==
  /\ BackendsAreCurrent
  /\ RoutesAreCurrent
  /\ sync # Free /\ sync.epoch # epoch => reconfs > 0

\* A route's fields are those its URI names.
RoutesNamed ==
  \A g \in DOMAIN routes :
    routes[g].source = g.source /\ routes[g].version = g.version

\* The text behind a result and the version it is remembered for are one edit.
HostTexts ==
  \A u \in DOMAIN host : host[u].said.what = "result" =>
     <<host[u].version, host[u].said.text>> \in Edits(u)

----------------------------------------------------------------------------
(* What the actions do to the processes.                                    *)

\* It runs, or has crashed and nobody has waited for it.
Alive(p) == p.status \in {"running", "crashed"}

\* This step stops the processes in S, forgets some stopped ones and does not
\* change what the others were started for.
Stops(S) ==
  /\ DOMAIN procs' \subseteq DOMAIN procs
  /\ \A b \in DOMAIN procs' :
       /\ procs'[b].key = procs[b].key /\ procs'[b].epoch = procs[b].epoch
       /\ procs'[b].late = procs[b].late
       /\ Alive(procs'[b]) => Alive(procs[b])
       /\ procs'[b].status = "stopped" <=> (procs[b].status = "stopped" \/ b \in S)
  /\ \A b \in DOMAIN procs \ S : procs[b].status # "stopped" => b \in DOMAIN procs'

LEMMA UnchangedStopsNone ==
  ASSUME procs' = procs
  PROVE  Stops({})
BY DEF Stops

LEMMA ProcessFields ==
  ASSUME TypeOK, NEW b \in DOMAIN procs
  PROVE  procs[b] \in [key : Keys, epoch : Epochs, late : BOOLEAN,
                      status : {"running", "crashed", "stopped", "closed", "watched"},
                      opened : SUBSET Results, out : Seq(Results)]
<1>1. procs[b] \in Processes
  BY MapValue DEF TypeOK
<1> QED
  BY <1>1 DEF Processes

LEMMA AfterStoppingStops ==
  ASSUME TypeOK, NEW S, procs' = AfterStopping(S)
  PROVE  Stops(S)
<1> DEFINE ps == [b \in DOMAIN procs |->
                    IF b \in S
                    THEN [procs[b] EXCEPT !.status = "stopped", !.opened = {}]
                    ELSE procs[b]]
<1>1. ASSUME NEW b \in DOMAIN procs
      PROVE  /\ ps[b].key = procs[b].key /\ ps[b].epoch = procs[b].epoch
             /\ ps[b].late = procs[b].late /\ (Alive(ps[b]) => Alive(procs[b]))
             /\ ps[b].status = "stopped" <=> (procs[b].status = "stopped" \/ b \in S)
  BY ProcessFields DEF Alive
<1>2. DOMAIN ps = DOMAIN procs
  OBVIOUS
<1> HIDE DEF ps
<1>3. procs' = Restrict(ps, {b \in DOMAIN ps : ps[b].status # "stopped" \/ ps[b].out # <<>>})
  BY DEF AfterStopping, Reaped, ps
<1>4. /\ DOMAIN procs' = {b \in DOMAIN ps : ps[b].status # "stopped" \/ ps[b].out # <<>>}
      /\ \A b \in DOMAIN procs' : procs'[b] = ps[b]
  BY <1>3 DEF Restrict
<1> QED
  BY <1>1, <1>2, <1>4 DEF Stops

LEMMA OpenedStopsNone ==
  ASSUME TypeOK, NEW b, NEW opened, procs' = [procs EXCEPT ![b].opened = opened]
  PROVE  Stops({})
<1>1. ASSUME NEW x \in DOMAIN procs
      PROVE  /\ procs'[x].key = procs[x].key /\ procs'[x].epoch = procs[x].epoch
             /\ procs'[x].late = procs[x].late
             /\ procs'[x].status = procs[x].status
  BY ProcessFields
<1> QED
  BY <1>1 DEF Stops, Alive

LEMMA OutStopsNone ==
  ASSUME TypeOK, NEW b, NEW out,
         \/ procs' = [procs EXCEPT ![b].out = out]
         \/ procs' = Reaped([procs EXCEPT ![b].out = out])
  PROVE  Stops({})
<1> DEFINE ps == [procs EXCEPT ![b].out = out]
<1>1. ASSUME NEW x \in DOMAIN procs
      PROVE  /\ ps[x].key = procs[x].key /\ ps[x].epoch = procs[x].epoch
             /\ ps[x].late = procs[x].late
             /\ ps[x].status = procs[x].status
  BY ProcessFields
<1>2. DOMAIN ps = DOMAIN procs
  OBVIOUS
<1> HIDE DEF ps
<1>3. CASE procs' = ps
  BY <1>1, <1>2, <1>3 DEF Stops, Alive
<1>4. CASE procs' = Reaped(ps)
  <2>1. /\ DOMAIN procs' = {x \in DOMAIN ps : ps[x].status # "stopped" \/ ps[x].out # <<>>}
        /\ \A x \in DOMAIN procs' : procs'[x] = ps[x]
    BY <1>4 DEF Restrict, Reaped
  <2> QED
    BY <1>1, <1>2, <2>1 DEF Stops, Alive
<1> QED
  BY <1>3, <1>4 DEF ps

LEMMA CrashStopsNone ==
  ASSUME TypeOK, NEW b \in Backends, Crash(b)
  PROVE  Stops({})
<1>1. ASSUME NEW x \in DOMAIN procs
      PROVE  /\ procs'[x].key = procs[x].key /\ procs'[x].epoch = procs[x].epoch
             /\ procs'[x].late = procs[x].late /\ (Alive(procs'[x]) => Alive(procs[x]))
             /\ procs'[x].status = "stopped" <=> procs[x].status = "stopped"
  BY ProcessFields DEF Crash, Alive
<1>2. DOMAIN procs' = DOMAIN procs
  BY DEF Crash
<1> QED
  BY <1>1, <1>2 DEF Stops

LEMMA ClosingStopsNone ==
  ASSUME TypeOK, NEW closed, NEW watchers, procs' = AfterClosing(closed, watchers),
         \A b \in closed \cap DOMAIN procs : procs[b].status # "stopped"
  PROVE  /\ Stops({})
         /\ \A b \in closed \cap DOMAIN procs : ~Alive(procs'[b])
<1>1. ASSUME NEW x \in DOMAIN procs
      PROVE  /\ procs'[x].key = procs[x].key /\ procs'[x].epoch = procs[x].epoch
             /\ procs'[x].late = procs[x].late /\ (Alive(procs'[x]) => Alive(procs[x]))
             /\ procs'[x].status = "stopped" <=> procs[x].status = "stopped"
             /\ x \in closed => ~Alive(procs'[x])
  BY ProcessFields DEF AfterClosing, Alive
<1>2. DOMAIN procs' = DOMAIN procs
  BY DEF AfterClosing
<1> QED
  BY <1>1, <1>2 DEF Stops

\* Everything but starting a backend, closeBackends, and the three ways of
\* stopping a process for good.
LEMMA OthersStopNone ==
  ASSUME TypeOK,
         \/ UNCHANGED procs
         \/ SyncSend
         \/ \E u \in Docs : CloseHost(u)
         \/ \E b \in Backends :
              Analyse(b) \/ Crash(b) \/ LoseResults(b) \/ PublishDiagnostics(b)
  PROVE  Stops({})
<1>1. CASE UNCHANGED procs
  BY <1>1, UnchangedStopsNone
<1>2. CASE SyncSend
  BY <1>2, OpenedStopsNone DEF SyncSend
<1>3. CASE \E u \in Docs : CloseHost(u)
  <2> PICK u \in Docs : CloseHost(u)
    BY <1>3
  <2>1. \/ procs' = procs
        \/ \E g \in DOMAIN routes :
             procs' = [procs EXCEPT ![backends[routes[g].key]].opened =
                         Unopened(procs[backends[routes[g].key]].opened, {g})]
    BY DEF CloseHost
  <2> QED
    BY <2>1, OpenedStopsNone, UnchangedStopsNone
<1>4. ASSUME NEW b \in Backends,
             Analyse(b) \/ Crash(b) \/ LoseResults(b) \/ PublishDiagnostics(b)
      PROVE  Stops({})
  BY <1>4, CrashStopsNone, OutStopsNone
  DEF Analyse, LoseResults, PublishDiagnostics
<1> QED
  BY <1>1, <1>2, <1>3, <1>4

----------------------------------------------------------------------------
(* No process is leaked.                                                    *)

\* Nothing that leaves server.backends alone and stops no process matters.
LEMMA ProcessesCarry ==
  ASSUME TypeOK, ProcessesInv, Stops({}), backends' = backends,
         \/ sync' = sync \/ sync' = Free
         \/ sync' # Free /\ sync'.pc \notin {"register", "send"}
         \/ sync # Free /\ sync.pc = "register" /\ sync'.key = sync.key
  PROVE  ProcessesInv'
<1>1. ASSUME NEW k \in DOMAIN backends
      PROVE  /\ backends[k] \in DOMAIN procs'
             /\ procs'[backends[k]].key = k
             /\ procs'[backends[k]].status # "stopped"
  BY DEF ProcessesInv, Stops
<1>2. NoStrayProcess'
  BY DEF ProcessesInv, Stops, NoStrayProcess
<1>3. sync' # Free /\ sync'.pc \in {"register", "send"} => sync'.key \in DOMAIN backends
  BY DEF ProcessesInv
<1> QED
  BY <1>1, <1>2, <1>3 DEF ProcessesInv

LEMMA StartProcesses ==
  ASSUME TypeOK, ProcessesInv, NEW b \in Backends, SyncStartBackend(b)
  PROVE  ProcessesInv'
<1> DEFINE p == [key |-> sync.key, epoch |-> sync.epoch, late |-> sync.late,
                 status |-> "running", opened |-> {}, out |-> <<>>]
<1>1. /\ procs' = Put(procs, b, p) /\ backends' = Put(backends, sync.key, b)
      /\ b \notin DOMAIN procs /\ sync.key \notin DOMAIN backends
  BY DEF SyncStartBackend
<1>2. p.key = sync.key /\ p.status # "stopped"
  OBVIOUS
<1> HIDE DEF p
<1>3. /\ DOMAIN procs' = DOMAIN procs \cup {b} /\ procs'[b] = p
      /\ \A x \in DOMAIN procs : procs'[x] = procs[x]
  BY <1>1 DEF Put
<1>4. /\ DOMAIN backends' = DOMAIN backends \cup {sync.key} /\ backends'[sync.key] = b
      /\ \A k \in DOMAIN backends : backends'[k] = backends[k]
  BY <1>1 DEF Put
<1>5. ASSUME NEW k \in DOMAIN backends'
      PROVE  /\ backends'[k] \in DOMAIN procs'
             /\ procs'[backends'[k]].key = k
             /\ procs'[backends'[k]].status # "stopped"
  BY <1>2, <1>3, <1>4 DEF ProcessesInv
<1>6. NoStrayProcess'
  BY <1>2, <1>3, <1>4 DEF ProcessesInv, NoStrayProcess
<1>7. sync'.key \in DOMAIN backends'
  <2>1. sync'.key = sync.key
    BY FrameFields DEF SyncStartBackend, Frames
  <2> QED
    BY <1>4, <2>1
<1> QED
  BY <1>5, <1>6, <1>7 DEF ProcessesInv

\* Withdrawing a key and stopping its process leaves the others in use.
LEMMA WithdrawProcesses ==
  ASSUME TypeOK, ProcessesInv, NEW k \in DOMAIN backends, Stops({backends[k]}),
         backends' = Delete(backends, k), sync' = Free
  PROVE  ProcessesInv'
<1>1. /\ DOMAIN backends' = DOMAIN backends \ {k}
      /\ \A j \in DOMAIN backends' : backends'[j] = backends[j]
  BY DEF Delete, DeleteAll, Restrict
<1>2. ASSUME NEW j \in DOMAIN backends'
      PROVE  /\ backends'[j] \in DOMAIN procs'
             /\ procs'[backends'[j]].key = j
             /\ procs'[backends'[j]].status # "stopped"
  <2>1. /\ j \in DOMAIN backends /\ j # k /\ backends'[j] = backends[j]
        /\ procs[backends[j]].key = j /\ procs[backends[k]].key = k
        /\ backends[j] \in DOMAIN procs /\ procs[backends[j]].status # "stopped"
    BY <1>1 DEF ProcessesInv
  <2>2. backends[j] # backends[k]
    BY <2>1
  <2> QED
    BY <2>1, <2>2 DEF Stops
<1>3. NoStrayProcess'
  BY <1>1 DEF Stops, ProcessesInv, NoStrayProcess
<1> QED
  BY <1>2, <1>3 DEF ProcessesInv

LEMMA StopAllProcesses ==
  ASSUME TypeOK, ProcessesInv, ReconfigureBackends
  PROVE  ProcessesInv'
<1>1. Stops(Range(backends)) /\ backends' = EmptyMap /\ sync' = Free
  BY AfterStoppingStops DEF ReconfigureBackends
<1>2. DOMAIN backends' = {}
  BY <1>1 DEF EmptyMap
<1>3. NoStrayProcess'
  BY <1>1 DEF Stops, ProcessesInv, NoStrayProcess, Range
<1> QED
  BY <1>1, <1>2, <1>3 DEF ProcessesInv

\* closeBackends reaches every process that is alive, and leaves each in its place.
LEMMA CloseProcesses ==
  ASSUME TypeOK, ProcessesInv, CloseBackends
  PROVE  /\ Stops({}) /\ ProcessesInv'
         /\ \A b \in DOMAIN procs' : ~Alive(procs'[b])
<1>1. PICK watchers \in SUBSET Crashed : procs' = AfterClosing(Range(backends), watchers)
  BY DEF CloseBackends
<1>2. \A b \in Range(backends) \cap DOMAIN procs : procs[b].status # "stopped"
  BY DEF ProcessesInv, Range
<1>3. /\ Stops({})
      /\ \A b \in Range(backends) \cap DOMAIN procs : ~Alive(procs'[b])
  BY <1>1, <1>2, ClosingStopsNone
<1>4. ProcessesInv'
  BY <1>3, ProcessesCarry DEF CloseBackends
<1>5. ASSUME NEW b \in DOMAIN procs', Alive(procs'[b])
      PROVE  FALSE
  <2>1. b \in DOMAIN procs /\ procs[b].status # "stopped"
    BY <1>3, <1>5 DEF Stops, Alive
  <2>2. b \in Range(backends)
    BY <2>1 DEF ProcessesInv, NoStrayProcess, Range
  <2> QED
    BY <1>3, <1>5, <2>1, <2>2
<1> QED
  BY <1>3, <1>4, <1>5

LEMMA ProcessesInductive ==
  ASSUME TypeOK, ProcessesInv, [Next]_vars
  PROVE  ProcessesInv'
<1>1. CASE Editor \/ End \/ UNCHANGED vars \/ \E r \in reports : ReportLoss(r)
  <2>1. UNCHANGED <<backends, procs, sync>>
    BY <1>1 DEF End, Editor, DidOpen, DidChange, DidSave, DidClose, DidChangeConfiguration,
                DidChangeWorkspaceFolders, Exit, vars, waiting, ReportLoss
  <2> QED
    BY <2>1, ProcessesCarry, UnchangedStopsNone
<1>2. CASE SyncWarn \/ SyncStartFails \/ SyncRegister \/ SyncSend
  <2>1. Stops({}) /\ backends' = backends
    BY <1>2, OthersStopNone
    DEF SyncWarn, SyncStartFails, SyncRegister, SyncSend
  <2>2. CASE SyncWarn \/ SyncSend
    BY <2>1, <2>2, ProcessesCarry DEF SyncWarn, SyncSend
  <2>3. CASE SyncStartFails
    <3>1. sync'.pc = "warn" /\ sync' # Free
      BY <2>3, FrameFields DEF SyncStartFails, Frames, Free
    <3> QED
      BY <2>1, <3>1, ProcessesCarry
  <2>4. CASE SyncRegister
    <3>1. sync' = Free \/ sync'.key = sync.key
      BY <2>4, FrameFields DEF SyncRegister, Frames
    <3> QED
      BY <2>1, <2>4, <3>1, ProcessesCarry DEF SyncRegister
  <2> QED
    BY <1>2, <2>2, <2>3, <2>4
<1>3. CASE SyncReuseBackend
  <2>1. sync'.key = sync.key
    BY <1>3, FrameFields DEF SyncReuseBackend, Frames
  <2> QED
    BY <1>3, <2>1 DEF SyncReuseBackend, ProcessesInv, NoStrayProcess
<1>4. CASE \E b \in Backends : SyncStartBackend(b)
  BY <1>4, StartProcesses
<1>5. CASE SyncSendFails
  <2>1. sync.key \in DOMAIN backends
    BY <1>5 DEF SyncSendFails, ProcessesInv
  <2> QED
    BY <1>5, <2>1, AfterStoppingStops, WithdrawProcesses DEF SyncSendFails
<1>6. CASE \E b \in Backends : WatchBackend(b)
  <2> PICK b \in Backends : WatchBackend(b)
    BY <1>6
  <2>1. Stops({b})
    BY AfterStoppingStops DEF WatchBackend
  <2> QED
    BY <2>1, WithdrawProcesses DEF WatchBackend
<1>7. CASE ReconfigureBackends \/ CloseBackends
  BY <1>7, StopAllProcesses, CloseProcesses
<1>8. CASE \E u \in Docs : SyncBegin(u)
  <2> PICK u \in Docs : SyncBegin(u)
    BY <1>8
  <2>1. backends' = backends /\ procs' = procs
    BY DEF SyncBegin
  <2>2. sync' = Free \/ (sync' # Free /\ sync'.pc \in {"warn", "backend"})
    BY DEF SyncBegin, Enter, Free
  <2> QED
    BY <2>1, <2>2, ProcessesCarry, UnchangedStopsNone
<1>9. CASE (\E u \in Docs : CloseHost(u)) \/ Environment
  <2>1. Stops({}) /\ backends' = backends /\ sync' = sync
    BY <1>9, OthersStopNone
    DEF CloseHost, Environment, Analyse, Crash, LoseResults, PublishDiagnostics, DiskChange
  <2> QED
    BY <2>1, ProcessesCarry
<1> QED
  BY <1>1, <1>2, <1>3, <1>4, <1>5, <1>6, <1>7, <1>8, <1>9 DEF Next, Holder, Acquire, Ended

\* Whatever fails or crashes, and whoever gets syncMu next, a process that nobody
\* has stopped is the one server.backends has under its key: it can still be
\* stopped, so no child process is leaked.
THEOREM NoStrayCorrect == Spec => []NoStrayProcess
<1>1. Init => ProcessesInv
  BY DEF Init, ProcessesInv, NoStrayProcess, EmptyMap
<1>2. TypeOK /\ ProcessesInv /\ [Next]_vars => ProcessesInv'
  BY ProcessesInductive
<1>3. ProcessesInv => NoStrayProcess
  BY DEF ProcessesInv
<1> QED
  BY <1>1, <1>2, <1>3, TypeCorrect, PTL DEF Spec

\* After closeBackends only a syncHost that took syncMu later is under way, and
\* only what such a one has started is alive.
ClosedInv ==
  serving \in {"closed", "ended"} =>
    /\ sync # Free => sync.late
    /\ \A b \in DOMAIN procs : Alive(procs[b]) => procs[b].late

\* Steps that start no process and enter no syncHost.
LEMMA ClosedCarry ==
  ASSUME ClosedInv, NEW S, Stops(S),
         serving' \in {"closed", "ended"} => serving \in {"closed", "ended"},
         sync' = Free \/ (sync # Free /\ sync'.late = sync.late)
  PROVE  ClosedInv'
BY DEF ClosedInv, Stops

LEMMA StartClosed ==
  ASSUME TypeOK, ClosedInv, NEW b \in Backends, SyncStartBackend(b)
  PROVE  ClosedInv'
<1> DEFINE p == [key |-> sync.key, epoch |-> sync.epoch, late |-> sync.late,
                 status |-> "running", opened |-> {}, out |-> <<>>]
<1>1. procs' = Put(procs, b, p) /\ sync # Free /\ serving' = serving
  BY DEF SyncStartBackend, waiting
<1>2. p.late = sync.late
  OBVIOUS
<1> HIDE DEF p
<1>3. /\ DOMAIN procs' = DOMAIN procs \cup {b} /\ procs'[b] = p
      /\ \A x \in DOMAIN procs \ {b} : procs'[x] = procs[x]
  BY <1>1 DEF Put
<1>4. sync'.late = sync.late
  BY FrameFields DEF SyncStartBackend, Frames
<1> QED
  BY <1>1, <1>2, <1>3, <1>4 DEF ClosedInv

LEMMA ClosedInductive ==
  ASSUME TypeOK, ProcessesInv, ClosedInv, [Next]_vars
  PROVE  ClosedInv'
<1>1. CASE Editor \/ End \/ UNCHANGED vars \/ \E r \in reports : ReportLoss(r)
  <2>1. UNCHANGED <<procs, sync>>
    BY <1>1 DEF End, Editor, DidOpen, DidChange, DidSave, DidClose, DidChangeConfiguration,
                DidChangeWorkspaceFolders, Exit, vars, waiting, ReportLoss
  <2>2. serving' \in {"closed", "ended"} => serving \in {"closed", "ended"}
    BY <1>1 DEF End, Editor, DidOpen, DidChange, DidSave, DidClose, DidChangeConfiguration,
                DidChangeWorkspaceFolders, Exit, vars, waiting, ReportLoss
  <2> QED
    BY <2>1, <2>2, UnchangedStopsNone, ClosedCarry
<1>2. CASE \E b \in Backends : SyncStartBackend(b)
  BY <1>2, StartClosed
<1>3. CASE Holder /\ ~(\E b \in Backends : SyncStartBackend(b))
  <2>1. PICK S : Stops(S)
    BY <1>3, OthersStopNone, AfterStoppingStops
    DEF Holder, SyncWarn, SyncReuseBackend, SyncStartFails, SyncRegister, SyncSendFails
  <2>2. serving' = serving
    BY <1>3 DEF Holder, SyncWarn, SyncReuseBackend, SyncStartFails, SyncRegister, SyncSend,
                SyncSendFails, waiting
  <2>3. sync' = Free \/ (sync # Free /\ sync'.late = sync.late)
    BY <1>3, FrameFields DEF Holder, SyncWarn, SyncReuseBackend, SyncStartFails,
       SyncRegister, SyncSend, SyncSendFails, Frames
  <2> QED
    BY <2>1, <2>2, <2>3, ClosedCarry
<1>4. CASE serving # "ended" /\ \E u \in Docs : SyncBegin(u)
  <2> PICK u \in Docs : SyncBegin(u)
    BY <1>4
  <2>1. UNCHANGED <<procs, serving>>
    BY DEF SyncBegin
  <2>2. sync' # Free => sync'.late = (serving = "closed")
    BY DEF SyncBegin, Enter
  <2> QED
    BY <1>4, <2>1, <2>2 DEF ClosedInv
<1>5. CASE CloseBackends
  BY <1>5, CloseProcesses DEF ClosedInv, CloseBackends
<1>6. CASE Acquire /\ ~CloseBackends /\ ~(\E u \in Docs : SyncBegin(u))
  <2>1. PICK S : Stops(S)
    BY <1>6, OthersStopNone, AfterStoppingStops
    DEF Acquire, ReconfigureBackends, WatchBackend
  <2>2. UNCHANGED <<serving, sync>> /\ sync = Free
    BY <1>6 DEF Acquire, CloseHost, ReconfigureBackends, WatchBackend
  <2> QED
    BY <2>1, <2>2, ClosedCarry
<1>7. CASE Environment
  <2>1. Stops({})
    BY <1>7, OthersStopNone DEF Environment, DiskChange
  <2>2. UNCHANGED <<serving, sync>>
    BY <1>7 DEF Environment, Analyse, Crash, LoseResults, PublishDiagnostics, DiskChange,
       waiting
  <2> QED
    BY <2>1, <2>2, ClosedCarry
<1> QED
  BY <1>1, <1>2, <1>3, <1>4, <1>5, <1>6, <1>7 DEF Next, Ended

\* However the server was told to exit, and whoever still waited for syncMu,
\* closeBackends has stopped and waited for every child but those that a syncHost
\* which took the lock after it has started.
THEOREM NoneLeftBehindCorrect == Spec => []NoneLeftBehind
<1>1. Init => ProcessesInv /\ ClosedInv
  BY DEF Init, ProcessesInv, NoStrayProcess, EmptyMap, ClosedInv
<1>2. TypeOK /\ (ProcessesInv /\ ClosedInv) /\ [Next]_vars => (ProcessesInv /\ ClosedInv)'
  BY ProcessesInductive, ClosedInductive
<1>3. ProcessesInv /\ ClosedInv => NoneLeftBehind
  BY DEF ClosedInv, NoneLeftBehind, Alive
<1> QED
  BY <1>1, <1>2, <1>3, TypeCorrect, PTL DEF Spec

----------------------------------------------------------------------------
(* Nothing of an earlier epoch outlives its reconfiguration.                *)

\* Steps that make no backend and no route, and change no epoch.
LEMMA EpochCarry ==
  ASSUME TypeOK, ProcessesInv, ProcessesInv', EpochInv, NEW S, Stops(S),
         epoch' = epoch, reconfs' = reconfs,
         DOMAIN backends' \subseteq DOMAIN backends,
         \A k \in DOMAIN backends' : backends'[k] = backends[k],
         DOMAIN routes' \subseteq DOMAIN routes,
         \A g \in DOMAIN routes' : routes'[g] = routes[g],
         \/ sync' = sync \/ sync' = Free
         \/ sync # Free /\ sync'.epoch = sync.epoch
         \/ sync'.epoch = epoch
  PROVE  EpochInv'
<1>1. BackendsAreCurrent'
  BY DEF EpochInv, BackendsAreCurrent, ProcessesInv, Stops
<1>2. RoutesAreCurrent'
  BY DEF EpochInv, RoutesAreCurrent
<1> QED
  BY <1>1, <1>2 DEF EpochInv

LEMMA ConfigurationEpoch ==
  ASSUME TypeOK,
         \/ \E s \in Settings : DidChangeConfiguration(s)
         \/ \E f \in Folders : DidChangeWorkspaceFolders(f)
  PROVE  EpochInv'
<1>1. reconfs' = reconfs + 1 /\ reconfs \in Nat
  BY DEF DidChangeConfiguration, DidChangeWorkspaceFolders, TypeOK
<1>2. reconfs' # 0 /\ reconfs' > 0
  BY <1>1
<1> QED
  BY <1>2 DEF EpochInv, BackendsAreCurrent, RoutesAreCurrent

\* A backend is started for the settings of the snapshot: if they have changed,
\* a reconfigureBackends is still to come.
LEMMA StartEpoch ==
  ASSUME TypeOK, ProcessesInv, EpochInv, NEW b \in Backends, SyncStartBackend(b)
  PROVE  EpochInv'
<1> DEFINE p == [key |-> sync.key, epoch |-> sync.epoch, late |-> sync.late,
                 status |-> "running", opened |-> {}, out |-> <<>>]
<1>1. /\ procs' = Put(procs, b, p) /\ backends' = Put(backends, sync.key, b)
      /\ b \notin DOMAIN procs /\ sync # Free
      /\ UNCHANGED <<epoch, reconfs, routes>>
  BY DEF SyncStartBackend, board, waiting
<1>2. p.epoch = sync.epoch
  OBVIOUS
<1> HIDE DEF p
<1>3. /\ procs'[b] = p
      /\ \A x \in DOMAIN procs : procs'[x] = procs[x]
  BY <1>1 DEF Put
<1>4. /\ DOMAIN backends' = DOMAIN backends \cup {sync.key} /\ backends'[sync.key] = b
      /\ \A k \in DOMAIN backends \ {sync.key} : backends'[k] = backends[k]
  BY <1>1 DEF Put
<1>5. reconfs = 0 => sync.epoch = epoch
  BY <1>1 DEF EpochInv, TypeOK
<1>6. BackendsAreCurrent'
  BY <1>1, <1>2, <1>3, <1>4, <1>5 DEF EpochInv, BackendsAreCurrent, ProcessesInv
<1>7. sync'.epoch = sync.epoch
  BY <1>1, FrameFields DEF SyncStartBackend, Frames
<1>8. RoutesAreCurrent' /\ (sync' # Free /\ sync'.epoch # epoch' => reconfs' > 0)
  BY <1>1, <1>7 DEF EpochInv, RoutesAreCurrent
<1> QED
  BY <1>6, <1>8 DEF EpochInv

\* syncHost compares the epoch again before it registers a route.
LEMMA RegisterEpoch ==
  ASSUME TypeOK, ProcessesInv, EpochInv, SyncRegister
  PROVE  EpochInv'
<1> DEFINE r == [source |-> sync.u, version |-> sync.doc.version,
                 epoch |-> sync.epoch, kind |-> sync.key.kind, key |-> sync.key]
           Rest == DeleteAll(routes, PriorRoutes(sync.u, sync.key))
<1>1. UNCHANGED <<epoch, reconfs, backends, procs>> /\ sync # Free
  BY DEF SyncRegister, board, waiting
<1>2. BackendsAreCurrent'
  BY <1>1 DEF EpochInv, BackendsAreCurrent
<1>3. sync' = Free \/ sync'.epoch = sync.epoch
  BY FrameFields DEF SyncRegister, Frames
<1>4. RoutesAreCurrent'
  <2>1. CASE routes' = routes
    BY <1>1, <2>1 DEF EpochInv, RoutesAreCurrent
  <2>2. CASE routes' = Put(Rest, GeneratedFor(sync), r) /\ epoch = sync.epoch
    <3>1. r.epoch = epoch
      BY <2>2
    <3>2. /\ DOMAIN Rest \subseteq DOMAIN routes
          /\ \A g \in DOMAIN Rest : Rest[g] = routes[g]
      BY DEF DeleteAll, Restrict
    <3> HIDE DEF r, Rest
    <3>3. \A g \in DOMAIN routes' :
             routes'[g] = r \/ (g \in DOMAIN Rest /\ routes'[g] = Rest[g])
      BY <2>2 DEF Put
    <3> QED
      BY <1>1, <3>1, <3>2, <3>3 DEF EpochInv, RoutesAreCurrent
  <2> QED
    BY <2>1, <2>2 DEF SyncRegister
<1> QED
  BY <1>1, <1>2, <1>3, <1>4 DEF EpochInv

\* reconfigureBackends has syncMu, so no snapshot of earlier settings is left.
LEMMA ReconfigureEpoch ==
  ASSUME ReconfigureBackends
  PROVE  EpochInv'
<1>1. DOMAIN backends' = {} /\ DOMAIN routes' = {} /\ sync' = Free
  BY DEF ReconfigureBackends, EmptyMap
<1> QED
  BY <1>1 DEF EpochInv, BackendsAreCurrent, RoutesAreCurrent

LEMMA EpochInductive ==
  ASSUME TypeOK, ProcessesInv, ProcessesInv', EpochInv, [Next]_vars
  PROVE  EpochInv'
<1>1. CASE (Editor /\ epoch' = epoch) \/ End \/ UNCHANGED vars \/ \E r \in reports : ReportLoss(r)
  <2>1. UNCHANGED <<backends, procs, routes, sync, epoch, reconfs>>
    <3>1. CASE Editor /\ epoch' = epoch
      <4>1. epoch' = epoch + 1 => FALSE
        BY <3>1 DEF TypeOK, Epochs
      <4> QED
        BY <3>1, <4>1 DEF Editor, DidOpen, DidChange, DidSave, DidClose,
           DidChangeConfiguration, DidChangeWorkspaceFolders, Exit, waiting
    <3> QED
      BY <1>1, <3>1 DEF vars, board, waiting, ReportLoss, HostFailure, End
  <2> QED
    BY <2>1 DEF EpochInv, BackendsAreCurrent, RoutesAreCurrent
<1>2. CASE Editor /\ epoch' # epoch
  <2>1. \/ \E s \in Settings : DidChangeConfiguration(s)
        \/ \E f \in Folders : DidChangeWorkspaceFolders(f)
    BY <1>2 DEF Editor, DidOpen, DidChange, DidSave, DidClose, Exit, board
  <2> QED
    BY <2>1, ConfigurationEpoch
<1>3. CASE \E b \in Backends : SyncStartBackend(b)
  BY <1>3, StartEpoch
<1>4. CASE SyncRegister
  BY <1>4, RegisterEpoch
<1>5. CASE ReconfigureBackends
  BY <1>5, ReconfigureEpoch
<1>6. CASE SyncWarn \/ SyncStartFails \/ SyncReuseBackend \/ SyncSend
  <2>1. Stops({})
    BY <1>6, OthersStopNone DEF SyncWarn, SyncStartFails, SyncReuseBackend, SyncSend
  <2>2. UNCHANGED <<epoch, reconfs, backends, routes>>
    BY <1>6 DEF SyncWarn, SyncStartFails, SyncReuseBackend, SyncSend, HostFailure,
                board, waiting
  <2>3. sync' = Free \/ (sync # Free /\ sync'.epoch = sync.epoch)
    BY <1>6, FrameFields DEF SyncWarn, SyncStartFails, SyncReuseBackend, SyncSend, Frames
  <2> QED
    BY <2>1, <2>2, <2>3, EpochCarry
<1>7. CASE SyncSendFails
  <2>1. Stops({backends[sync.key]})
    BY <1>7, AfterStoppingStops DEF SyncSendFails
  <2>2. UNCHANGED <<epoch, reconfs, routes>> /\ sync' = Free
    BY <1>7 DEF SyncSendFails, HostFailure, waiting
  <2>3. /\ DOMAIN backends' \subseteq DOMAIN backends
        /\ \A k \in DOMAIN backends' : backends'[k] = backends[k]
    BY <1>7 DEF SyncSendFails, Delete, DeleteAll, Restrict
  <2> QED
    BY <2>1, <2>2, <2>3, EpochCarry
<1>8. CASE \E b \in Backends : WatchBackend(b)
  <2> PICK b \in Backends : WatchBackend(b)
    BY <1>8
  <2>1. Stops({b})
    BY AfterStoppingStops DEF WatchBackend
  <2>2. UNCHANGED <<epoch, reconfs, sync>>
    BY DEF WatchBackend, board
  <2>3. /\ DOMAIN backends' \subseteq DOMAIN backends
        /\ \A k \in DOMAIN backends' : backends'[k] = backends[k]
    BY DEF WatchBackend, Delete, DeleteAll, Restrict
  <2>4. /\ DOMAIN routes' \subseteq DOMAIN routes
        /\ \A g \in DOMAIN routes' : routes'[g] = routes[g]
    BY DEF WatchBackend, DeleteAll, Restrict
  <2> QED
    BY <2>1, <2>2, <2>3, <2>4, EpochCarry
<1>9. CASE \E u \in Docs : CloseHost(u)
  <2> PICK u \in Docs : CloseHost(u)
    BY <1>9
  <2>1. Stops({})
    BY OthersStopNone
  <2>2. UNCHANGED <<epoch, reconfs, sync, backends>>
    BY DEF CloseHost, board
  <2>3. routes' = routes \/ \E g \in DOMAIN routes : routes' = Delete(routes, g)
    BY DEF CloseHost
  <2>4. /\ DOMAIN routes' \subseteq DOMAIN routes
        /\ \A g \in DOMAIN routes' : routes'[g] = routes[g]
    BY <2>3 DEF Delete, DeleteAll, Restrict
  <2> QED
    BY <2>1, <2>2, <2>4, EpochCarry
<1>10. CASE \E u \in Docs : SyncBegin(u)
  <2> PICK u \in Docs : SyncBegin(u)
    BY <1>10
  <2>1. UNCHANGED <<epoch, reconfs, backends, procs, routes>>
    BY DEF SyncBegin, board
  <2>2. sync' = Free \/ sync'.epoch = epoch
    BY DEF SyncBegin, Enter
  <2> QED
    BY <2>1, <2>2, UnchangedStopsNone, EpochCarry
<1>11. CASE Environment
  <2>1. Stops({})
    BY <1>11, OthersStopNone DEF Environment, DiskChange
  <2>2. UNCHANGED <<epoch, reconfs, sync, backends, routes>>
    BY <1>11 DEF Environment, Analyse, Crash, LoseResults, PublishDiagnostics,
                 DiskChange, board, waiting
  <2> QED
    BY <2>1, <2>2, EpochCarry
<1>12. CASE CloseBackends
  <2>1. Stops({}) /\ backends' = backends
    BY <1>12, CloseProcesses DEF CloseBackends
  <2>2. UNCHANGED <<epoch, reconfs, sync, routes>>
    BY <1>12 DEF CloseBackends, board
  <2> QED
    BY <2>1, <2>2, EpochCarry
<1> QED
  BY <1>1, <1>2, <1>3, <1>4, <1>5, <1>6, <1>7, <1>8, <1>9, <1>10, <1>11, <1>12
  DEF Next, Holder, Acquire, Ended

\* Once no reconfigureBackends is waiting, every backend in use and every route
\* was made under the settings and the folders in force, however long a syncHost
\* of earlier ones took to start its backend.
THEOREM EpochsCorrect == Spec => [](BackendsAreCurrent /\ RoutesAreCurrent)
<1>1. Init => ProcessesInv /\ EpochInv
  BY DEF Init, ProcessesInv, NoStrayProcess, EmptyMap, EpochInv, BackendsAreCurrent,
         RoutesAreCurrent
<1>2. TypeOK /\ (ProcessesInv /\ EpochInv) /\ [Next]_vars => (ProcessesInv /\ EpochInv)'
  BY ProcessesInductive, EpochInductive
<1>3. ProcessesInv /\ EpochInv => BackendsAreCurrent /\ RoutesAreCurrent
  BY DEF EpochInv
<1> QED
  BY <1>1, <1>2, <1>3, TypeCorrect, PTL DEF Spec

----------------------------------------------------------------------------
(* Routes.                                                                  *)

\* What a step may do to the routes: lose some, or have syncHost replace those
\* of its document and backend by one.
LEMMA RouteSteps ==
  ASSUME [Next]_vars
  PROVE  \/ /\ DOMAIN routes' \subseteq DOMAIN routes
            /\ \A g \in DOMAIN routes' : routes'[g] = routes[g]
         \/ SyncRegister
<1>1. CASE Editor \/ Environment \/ End \/ UNCHANGED vars \/ \E r \in reports : ReportLoss(r)
  <2>1. routes' = routes
    BY <1>1 DEF End, Editor, DidOpen, DidChange, DidSave, DidClose, DidChangeConfiguration,
       DidChangeWorkspaceFolders, Environment, Analyse, Crash, LoseResults,
       PublishDiagnostics, DiskChange, ReportLoss, Exit, vars
  <2> QED
    BY <2>1
<1>2. CASE Holder
  <2>1. routes' = routes \/ SyncRegister
    BY <1>2 DEF Holder, SyncWarn, SyncReuseBackend, SyncStartBackend, SyncStartFails,
       SyncSend, SyncSendFails
  <2> QED
    BY <2>1
<1>3. CASE Acquire
  <2>1. \/ routes' = routes
        \/ \E L : routes' = DeleteAll(routes, L)
        \/ routes' = EmptyMap
    BY <1>3 DEF Acquire, SyncBegin, CloseHost, WatchBackend, ReconfigureBackends,
                CloseBackends, Delete
  <2> QED
    BY <2>1 DEF DeleteAll, Restrict, EmptyMap
<1> QED
  BY <1>1, <1>2, <1>3 DEF Next, Ended

LEMMA RegisteredRoute ==
  ASSUME SyncRegister
  PROVE  \/ routes' = routes
         \/ /\ routes'[GeneratedFor(sync)] =
                  [source |-> sync.u, version |-> sync.doc.version,
                   epoch |-> sync.epoch, kind |-> sync.key.kind, key |-> sync.key]
            /\ GeneratedFor(sync) \in DOMAIN routes'
            /\ \A g \in DOMAIN routes' \ {GeneratedFor(sync)} :
                 /\ g \in DOMAIN routes \ PriorRoutes(sync.u, sync.key)
                 /\ routes'[g] = routes[g]
<1> DEFINE r == [source |-> sync.u, version |-> sync.doc.version,
                 epoch |-> sync.epoch, kind |-> sync.key.kind, key |-> sync.key]
           Rest == DeleteAll(routes, PriorRoutes(sync.u, sync.key))
<1>1. routes' = routes \/ routes' = Put(Rest, GeneratedFor(sync), r)
  BY DEF SyncRegister
<1>2. /\ DOMAIN Rest = DOMAIN routes \ PriorRoutes(sync.u, sync.key)
      /\ \A g \in DOMAIN Rest : Rest[g] = routes[g]
  BY DEF DeleteAll, Restrict
<1> HIDE DEF r, Rest
<1>3. CASE routes' = Put(Rest, GeneratedFor(sync), r)
  <2>1. /\ DOMAIN routes' = DOMAIN Rest \cup {GeneratedFor(sync)}
        /\ routes'[GeneratedFor(sync)] = r
        /\ \A g \in DOMAIN routes' \ {GeneratedFor(sync)} :
             g \in DOMAIN Rest /\ routes'[g] = Rest[g]
    BY <1>3 DEF Put
  <2> QED
    BY <1>2, <2>1 DEF r
<1> QED
  BY <1>1, <1>3

LEMMA OneRouteInductive ==
  ASSUME OneRoutePerBackend, [Next]_vars
  PROVE  OneRoutePerBackend'
<1>1. CASE /\ DOMAIN routes' \subseteq DOMAIN routes
           /\ \A g \in DOMAIN routes' : routes'[g] = routes[g]
  BY <1>1 DEF OneRoutePerBackend
<1>2. CASE SyncRegister
  <2> DEFINE new == GeneratedFor(sync)
  <2>1. CASE routes' = routes
    BY <2>1 DEF OneRoutePerBackend
  <2>2. CASE routes' # routes
    <3>1. routes'[new].source = sync.u /\ routes'[new].key = sync.key
      BY <1>2, <2>2, RegisteredRoute
    <3>2. \A g \in DOMAIN routes' \ {new} :
             /\ g \in DOMAIN routes /\ routes'[g] = routes[g]
             /\ ~(routes'[g].source = sync.u /\ routes'[g].key = sync.key)
      BY <1>2, <2>2, RegisteredRoute DEF PriorRoutes
    <3> HIDE DEF new
    <3> QED
      BY <3>1, <3>2 DEF OneRoutePerBackend
  <2> QED
    BY <2>1, <2>2
<1> QED
  BY <1>1, <1>2, RouteSteps

\* Each version opens another URI, yet a document never has two routes to one
\* backend: syncHost deletes the prior ones in the critical section that adds one.
THEOREM OneRouteCorrect == Spec => []OneRoutePerBackend
<1>1. Init => OneRoutePerBackend
  BY DEF Init, OneRoutePerBackend, EmptyMap
<1>2. OneRoutePerBackend /\ [Next]_vars => OneRoutePerBackend'
  BY OneRouteInductive
<1> QED
  BY <1>1, <1>2, PTL DEF Spec

LEMMA NamesInductive ==
  ASSUME RoutesNamed, [Next]_vars
  PROVE  RoutesNamed'
<1>1. CASE /\ DOMAIN routes' \subseteq DOMAIN routes
           /\ \A g \in DOMAIN routes' : routes'[g] = routes[g]
  BY <1>1 DEF RoutesNamed
<1>2. CASE SyncRegister
  <2> DEFINE new == GeneratedFor(sync)
  <2>1. CASE routes' = routes
    BY <2>1 DEF RoutesNamed
  <2>2. CASE routes' # routes
    <3>1. routes'[new].source = new.source /\ routes'[new].version = new.version
      BY <1>2, <2>2, RegisteredRoute DEF GeneratedFor
    <3>2. \A g \in DOMAIN routes' \ {new} : g \in DOMAIN routes /\ routes'[g] = routes[g]
      BY <1>2, <2>2, RegisteredRoute
    <3> HIDE DEF new
    <3> QED
      BY <3>1, <3>2 DEF RoutesNamed
  <2> QED
    BY <2>1, <2>2
<1> QED
  BY <1>1, <1>2, RouteSteps

----------------------------------------------------------------------------
(* Results and the texts they are about.                                    *)

\* What a step may do to the backends' diagnostics: lose some, add a warning, or
\* add the result of a text that a process had diagnosed.
LEMMA HostSteps ==
  ASSUME TypeOK, [Next]_vars, NEW u \in DOMAIN host', host'[u].said.what = "result"
  PROVE  \/ u \in DOMAIN host /\ host'[u] = host[u]
         \/ \E b \in Backends, m \in Results, version \in {0} \cup Versions :
              /\ Accepts(b, m, version)
              /\ u = routes[m.uri].source
              /\ host'[u].version = docs[u].version /\ host'[u].said.text = m.text
<1> DEFINE Kept == u \in DOMAIN host /\ host'[u] = host[u]
<1>1. CASE UNCHANGED host
  BY <1>1
<1>2. CASE Editor
  <2>1. \/ host' = host \/ host' = EmptyMap
        \/ \E x \in Docs : host' = Delete(host, x)
    BY <1>2 DEF Editor, DidOpen, DidChange, DidSave, DidClose, DidChangeConfiguration,
       DidChangeWorkspaceFolders, Exit, board
  <2> QED
    BY <2>1 DEF Delete, DeleteAll, Restrict, EmptyMap
<1>3. CASE SyncWarn \/ SyncSendFails \/ \E r \in reports : ReportLoss(r)
  <2>1. PICK x, version : host' = host \/ host' = Put(host, x, Warning(version))
    BY <1>3 DEF SyncWarn, SyncSendFails, ReportLoss, HostFailure
  <2>2. Warning(version).said.what # "result"
    BY DEF Warning
  <2>3. ASSUME host' = Put(host, x, Warning(version))
        PROVE  Kept
    <3> DEFINE w == Warning(version)
    <3> HIDE DEF w
    <3>1. host' = Put(host, x, w) /\ w.said.what # "result"
      BY <2>2, <2>3 DEF w
    <3>2. u = x => host'[u] = w
      BY <3>1 DEF Put
    <3>3. u # x
      BY <3>1, <3>2
    <3> QED
      BY <3>1, <3>3 DEF Put
  <2> QED
    BY <2>1, <2>3
<1>4. CASE \E b \in Backends : PublishDiagnostics(b)
  <2> PICK b \in Backends : PublishDiagnostics(b)
    BY <1>4
  <2>1. CASE UNCHANGED board
    BY <2>1 DEF board
  <2>2. CASE ~UNCHANGED board
    <3> DEFINE m == Head(procs[b].out)
               x == routes[m.uri].source
               said == [what |-> "result", text |-> m.text, epoch |-> procs[b].epoch]
               entry == [version |-> docs[x].version, said |-> said]
    <3>1. PICK version \in {0, m.uri.version} :
             Accepts(b, m, version) /\ host' = Put(host, x, entry)
      BY <2>2 DEF PublishDiagnostics
    <3>2. m \in Results
      <4>1. procs[b].out \in Seq(Results) /\ procs[b].out # <<>>
        BY ProcessFields DEF PublishDiagnostics
      <4> QED
        BY <4>1
    <3>3. version \in {0} \cup Versions
      BY <3>2 DEF Results, Generated
    <3>4. entry.version = docs[x].version /\ entry.said.text = m.text
      OBVIOUS
    <3> HIDE DEF m, x, entry
    <3>5. (u = x /\ host'[u] = entry) \/ Kept
      BY <3>1 DEF Put
    <3> QED
      BY <3>1, <3>2, <3>3, <3>4, <3>5 DEF x
  <2> QED
    BY <2>1, <2>2
<1>5. CASE UNCHANGED board \/ End \/ UNCHANGED vars \/ \E d \in Disks : DiskChange(d)
  BY <1>1, <1>5 DEF End, board, vars, DiskChange
<1>6. CASE Holder /\ ~SyncWarn /\ ~SyncSendFails
  <2>1. UNCHANGED board
    BY <1>6 DEF Holder, SyncReuseBackend, SyncStartBackend, SyncStartFails, SyncRegister,
       SyncSend
  <2> QED
    BY <1>5, <2>1
<1>7. CASE Acquire
  <2>1. UNCHANGED board
    BY <1>7 DEF Acquire, SyncBegin, CloseHost, ReconfigureBackends, WatchBackend,
                CloseBackends
  <2> QED
    BY <1>5, <2>1
<1>8. CASE \E b \in Backends : Analyse(b) \/ Crash(b) \/ LoseResults(b)
  <2>1. UNCHANGED board
    BY <1>8 DEF Analyse, Crash, LoseResults
  <2> QED
    BY <1>5, <2>1
<1> QED
  BY <1>2, <1>3, <1>4, <1>5, <1>6, <1>7, <1>8 DEF Next, Environment, Ended

LEMMA TextsInductive ==
  ASSUME TypeOK, RoutesNamed, HostTexts, [Next]_vars
  PROVE  HostTexts'
<1> SUFFICES ASSUME NEW u \in DOMAIN host', host'[u].said.what = "result"
             PROVE  <<host'[u].version, host'[u].said.text>> \in Edits(u)
  BY DEF HostTexts
<1>1. CASE u \in DOMAIN host /\ host'[u] = host[u]
  BY <1>1 DEF HostTexts
<1>2. ASSUME NEW b \in Backends, NEW m \in Results, NEW version \in {0} \cup Versions,
             Accepts(b, m, version), u = routes[m.uri].source,
             host'[u].version = docs[u].version, host'[u].said.text = m.text
      PROVE  <<host'[u].version, host'[u].said.text>> \in Edits(u)
  <2>1. docs[u].version = m.uri.version /\ u = m.uri.source
    BY <1>2 DEF Accepts, RoutesNamed
  <2>2. <<m.uri.version, m.text>> \in Edits(m.uri.source)
    BY DEF Results
  <2> QED
    BY <1>2, <2>1, <2>2
<1> QED
  BY <1>1, <1>2, HostSteps

\* A result that is shown for a document was computed from the text that is open,
\* whatever was in flight when it changed, closed or opened again, as long as
\* the editor never gives one version number to two texts of that document.
THEOREM TextCorrect ==
  ASSUME \A u \in Docs : \A e, f \in Edits(u) : e[1] = f[1] => e[2] = f[2]
  PROVE  Spec => []ResultIsForText
<1>1. Init => RoutesNamed /\ HostTexts
  BY DEF Init, RoutesNamed, HostTexts, EmptyMap
<1>2. TypeOK /\ (RoutesNamed /\ HostTexts) /\ [Next]_vars => (RoutesNamed /\ HostTexts)'
  BY NamesInductive, TextsInductive
<1>3. TypeOK /\ HostIsCurrent /\ HostTexts => ResultIsForText
  <2> SUFFICES ASSUME TypeOK, HostIsCurrent, HostTexts,
                      NEW u \in DOMAIN host, host[u].said.what = "result"
               PROVE  host[u].said.text = docs[u].text
    BY DEF ResultIsForText
  <2>1. u \in DOMAIN docs /\ host[u].version = docs[u].version
    BY DEF HostIsCurrent
  <2>2. u \in Docs
    BY <2>1 DEF TypeOK, IsMap
  <2>3. <<docs[u].version, docs[u].text>> \in Edits(u)
    BY <2>1 DEF TypeOK
  <2>4. <<docs[u].version, host[u].said.text>> \in Edits(u)
    BY <2>1 DEF HostTexts
  <2>5. \A e, f \in Edits(u) : e[1] = f[1] => e[2] = f[2]
    BY <2>2
  <2> QED
    BY <2>3, <2>4, <2>5
<1> QED
  BY <1>1, <1>2, <1>3, TypeCorrect, SilenceCorrect, PTL DEF Spec

----------------------------------------------------------------------------
(* Versions of a document do not pile up in a backend: OpenedIsRouted, for  *)
(* every value of the constants but a disk that changes.  The inductive     *)
(* invariant:                                                               *)

\* The backend that a document of this kind goes to now.
KeyHere(u, kind) ==
  [kind |-> kind, root |-> RootOf(Env, u), path |-> Executable(settings, kind)]

\* Whatever settings and folders made, they would make again: a URI, which names
\* a document and a kind, is never routed to two backends in turn.
KeysAreHere ==
  reconfs = 0 =>
    /\ \A g \in DOMAIN routes : routes[g].key = KeyHere(g.source, g.kind)
    /\ sync # Free => sync.key = KeyHere(sync.u, sync.key.kind)

\* What syncHost is about to open is routed to the backend it opens it in.
SendIsRouted ==
  sync # Free /\ sync.pc = "send" =>
    /\ GeneratedFor(sync) \in DOMAIN routes
    /\ routes[GeneratedFor(sync)].key = sync.key

OpenedInv ==
  /\ ProcessesInv
  /\ OneRoutePerBackend
  /\ KeysAreHere
  /\ SendIsRouted
  /\ OpenedIsRouted

----------------------------------------------------------------------------
(* What the actions do to the documents that the processes hold.            *)

\* No process comes to hold more.
HoldsNoMore ==
  \A b \in DOMAIN procs' :
    b \in DOMAIN procs /\ procs'[b].opened \subseteq procs[b].opened

LEMMA ReapingHoldsNoMore ==
  ASSUME NEW ps, DOMAIN ps = DOMAIN procs,
         \A b \in DOMAIN ps : ps[b].opened \subseteq procs[b].opened,
         procs' = ps \/ procs' = Reaped(ps)
  PROVE  HoldsNoMore
<1>1. /\ DOMAIN procs' \subseteq DOMAIN ps
      /\ \A b \in DOMAIN procs' : procs'[b] = ps[b]
  BY DEF Reaped, Restrict
<1> QED
  BY <1>1 DEF HoldsNoMore

LEMMA StoppingHoldsNoMore ==
  ASSUME TypeOK, NEW S, procs' = AfterStopping(S)
  PROVE  HoldsNoMore
<1> DEFINE ps == [b \in DOMAIN procs |->
                    IF b \in S
                    THEN [procs[b] EXCEPT !.status = "stopped", !.opened = {}]
                    ELSE procs[b]]
<1>1. \A b \in DOMAIN procs : ps[b].opened \subseteq procs[b].opened
  BY ProcessFields
<1>2. DOMAIN ps = DOMAIN procs
  OBVIOUS
<1>3. procs' = Reaped(ps)
  BY DEF AfterStopping
<1> HIDE DEF ps
<1> QED
  BY <1>1, <1>2, <1>3, ReapingHoldsNoMore

LEMMA ClosingHoldsNoMore ==
  ASSUME TypeOK, NEW closed, NEW watchers, procs' = AfterClosing(closed, watchers)
  PROVE  HoldsNoMore
<1>1. ASSUME NEW b \in DOMAIN procs
      PROVE  procs'[b].opened \subseteq procs[b].opened
  BY ProcessFields DEF AfterClosing
<1>2. DOMAIN procs' = DOMAIN procs
  BY DEF AfterClosing
<1> QED
  BY <1>1, <1>2 DEF HoldsNoMore

LEMMA EnvironmentHoldsNoMore ==
  ASSUME TypeOK, Environment
  PROVE  HoldsNoMore
<1>1. CASE UNCHANGED procs
  BY <1>1 DEF HoldsNoMore
<1>2. ASSUME NEW b, NEW out,
             \/ procs' = [procs EXCEPT ![b].out = out]
             \/ procs' = Reaped([procs EXCEPT ![b].out = out])
      PROVE  HoldsNoMore
  <2> DEFINE ps == [procs EXCEPT ![b].out = out]
  <2>1. \A x \in DOMAIN procs : ps[x].opened \subseteq procs[x].opened
    BY ProcessFields
  <2>2. DOMAIN ps = DOMAIN procs /\ (procs' = ps \/ procs' = Reaped(ps))
    BY <1>2
  <2> HIDE DEF ps
  <2> QED
    BY <2>1, <2>2, ReapingHoldsNoMore
<1>3. ASSUME NEW b \in Backends, Crash(b)
      PROVE  HoldsNoMore
  BY <1>3, ProcessFields DEF Crash, HoldsNoMore
<1>4. ASSUME NEW b \in Backends, Analyse(b) \/ LoseResults(b) \/ PublishDiagnostics(b)
      PROVE  HoldsNoMore
  BY <1>2, <1>4 DEF Analyse, LoseResults, PublishDiagnostics
<1> QED
  BY <1>1, <1>3, <1>4 DEF Environment, DiskChange

----------------------------------------------------------------------------
(* The steps.                                                               *)

\* The settings, the folders and the disk stay, or all will be made anew.
LEMMA EnvironmentStays ==
  ASSUME TypeOK, \A d, e \in Disks : d = e, [Next]_vars
  PROVE  \/ reconfs' > 0 /\ UNCHANGED <<sync, routes>>
         \/ ReconfigureBackends
         \/ UNCHANGED <<settings, Env, reconfs>>
<1>1. CASE Editor
  <2>1. CASE \/ \E s \in Settings : DidChangeConfiguration(s)
             \/ \E f \in Folders : DidChangeWorkspaceFolders(f)
    <3>1. reconfs' = reconfs + 1 /\ reconfs \in Nat /\ UNCHANGED <<sync, routes>>
      BY <2>1 DEF DidChangeConfiguration, DidChangeWorkspaceFolders, TypeOK
    <3> QED
      BY <3>1
  <2>2. CASE ~(\/ \E s \in Settings : DidChangeConfiguration(s)
               \/ \E f \in Folders : DidChangeWorkspaceFolders(f))
    BY <1>1, <2>2 DEF Editor, DidOpen, DidChange, DidSave, DidClose, Exit, Env, board, waiting
  <2> QED
    BY <2>1, <2>2
<1>2. CASE Holder \/ End \/ UNCHANGED vars \/ \E r \in reports : ReportLoss(r)
  BY <1>2 DEF End, Holder, SyncWarn, SyncReuseBackend, SyncStartBackend, SyncStartFails,
     SyncRegister, SyncSend, SyncSendFails, ReportLoss, HostFailure, Env, board, waiting, vars
<1>3. CASE Acquire
  BY <1>3 DEF Acquire, SyncBegin, CloseHost, WatchBackend, CloseBackends, Env, board
<1>4. CASE Environment
  <2>1. ~ \E d \in Disks : DiskChange(d)
    BY DEF DiskChange, TypeOK
  <2> QED
    BY <1>4, <2>1 DEF Environment, Analyse, Crash, LoseResults, PublishDiagnostics, Env,
       board, waiting
<1> QED
  BY <1>1, <1>2, <1>3, <1>4 DEF Next, Ended

\* A frame is made for the present environment and keeps its document and key.
LEMMA FrameSteps ==
  ASSUME TypeOK, [Next]_vars
  PROVE  \/ sync' = Free
         \/ sync # Free /\ sync'.u = sync.u /\ sync'.key = sync.key
         \/ sync'.key = KeyHere(sync'.u, sync'.key.kind)
<1>1. CASE Holder
  BY <1>1, FrameFields
  DEF Holder, SyncWarn, SyncReuseBackend, SyncStartBackend, SyncStartFails, SyncRegister,
      SyncSend, SyncSendFails, Frames
<1>2. CASE \E u \in Docs : SyncBegin(u)
  BY <1>2 DEF SyncBegin, Enter, KeyOf, KeyHere, Env
<1>3. CASE ~Holder /\ ~(\E u \in Docs : SyncBegin(u))
  BY <1>3 DEF Next, End, Editor, DidOpen, DidChange, DidSave, DidClose, DidChangeConfiguration,
     DidChangeWorkspaceFolders, Exit, Acquire, CloseHost, ReconfigureBackends, WatchBackend,
     CloseBackends, ReportLoss, Environment, Analyse, Crash, LoseResults, PublishDiagnostics,
     DiskChange, Ended, vars
<1> QED
  BY <1>1, <1>2, <1>3

\* A syncHost that is about to write has just registered, or nothing has moved.
LEMMA SendSteps ==
  ASSUME TypeOK, [Next]_vars, ~SyncRegister, sync' # Free, sync'.pc = "send"
  PROVE  UNCHANGED <<sync, routes>>
<1>1. CASE Editor \/ Environment \/ End \/ UNCHANGED vars \/ \E r \in reports : ReportLoss(r)
  BY <1>1 DEF End, Editor, DidOpen, DidChange, DidSave, DidClose, DidChangeConfiguration,
     DidChangeWorkspaceFolders, Exit, Environment, Analyse, Crash, LoseResults,
     PublishDiagnostics, DiskChange, ReportLoss, vars
<1>2. CASE Holder
  <2>1. sync'.pc \in {"register", "warn"}
    BY <1>2, FrameFields
    DEF Holder, SyncWarn, SyncReuseBackend, SyncStartBackend, SyncStartFails, SyncSend,
        SyncSendFails, Frames
  <2> QED
    BY <2>1
<1>3. CASE \E u \in Docs : SyncBegin(u)
  <2>1. sync' = Free \/ sync'.pc \in {"warn", "backend"}
    BY <1>3 DEF SyncBegin, Enter, Free
  <2> QED
    BY <2>1
<1>4. CASE Acquire /\ ~ \E u \in Docs : SyncBegin(u)
  BY <1>4 DEF Acquire, CloseHost, ReconfigureBackends, WatchBackend, CloseBackends
<1> QED
  BY <1>1, <1>2, <1>3, <1>4 DEF Next, Ended

LEMMA RegisteredRoutes ==
  ASSUME TypeOK, SyncRegister, ~(sync' = Free /\ routes' = routes)
  PROVE  /\ sync # Free /\ sync.pc = "register"
         /\ GeneratedFor(sync) \in DOMAIN routes'
         /\ routes'[GeneratedFor(sync)].key = sync.key
         /\ \A g \in DOMAIN routes \ (PriorRoutes(sync.u, sync.key) \cup {GeneratedFor(sync)}) :
              g \in DOMAIN routes' /\ routes'[g] = routes[g]
         /\ \A g \in DOMAIN routes' \ {GeneratedFor(sync)} :
              g \in DOMAIN routes /\ routes'[g] = routes[g]
         /\ sync' # Free /\ sync'.pc = "send" /\ sync'.key = sync.key
         /\ GeneratedFor(sync') = GeneratedFor(sync)
         /\ sync'.prior \subseteq PriorRoutes(sync.u, sync.key)
         /\ sync'.prior = {} => PriorRoutes(sync.u, sync.key) = {}
<1> DEFINE r == [source |-> sync.u, version |-> sync.doc.version,
                 epoch |-> sync.epoch, kind |-> sync.key.kind, key |-> sync.key]
           Rest == DeleteAll(routes, PriorRoutes(sync.u, sync.key))
<1>1. routes' = Put(Rest, GeneratedFor(sync), r)
  BY DEF SyncRegister
<1>2. /\ DOMAIN Rest = DOMAIN routes \ PriorRoutes(sync.u, sync.key)
      /\ \A g \in DOMAIN Rest : Rest[g] = routes[g]
  BY DEF DeleteAll, Restrict
<1>3. r.key = sync.key
  OBVIOUS
<1> HIDE DEF r, Rest
<1>4. /\ DOMAIN routes' = DOMAIN Rest \cup {GeneratedFor(sync)}
      /\ routes'[GeneratedFor(sync)] = r
      /\ \A g \in DOMAIN Rest \ {GeneratedFor(sync)} : routes'[g] = Rest[g]
  BY <1>1 DEF Put
<1>5. PICK prior \in SUBSET PriorRoutes(sync.u, sync.key) :
        /\ prior = {} => PriorRoutes(sync.u, sync.key) = {}
        /\ sync' = [sync EXCEPT !.pc = "send", !.prior = prior]
  BY DEF SyncRegister
<1>6. /\ sync' # Free /\ sync'.pc = "send" /\ sync'.prior = prior
      /\ sync'.u = sync.u /\ sync'.doc = sync.doc /\ sync'.key = sync.key
  BY <1>5, FrameFields DEF SyncRegister, Frames, Free
<1> QED
  BY <1>2, <1>3, <1>4, <1>5, <1>6 DEF SyncRegister, GeneratedFor

----------------------------------------------------------------------------
(* Keys.                                                                    *)

LEMMA KeysInductive ==
  ASSUME TypeOK, KeysAreHere, \A d, e \in Disks : d = e, [Next]_vars
  PROVE  KeysAreHere'
<1>1. CASE reconfs' > 0 /\ UNCHANGED <<sync, routes>>
  BY <1>1 DEF KeysAreHere
<1>2. CASE ReconfigureBackends
  BY <1>2 DEF ReconfigureBackends, KeysAreHere, EmptyMap
<1>3. CASE UNCHANGED <<settings, Env, reconfs>> /\ reconfs = 0
  <2>1. \A u, kind : KeyHere(u, kind)' = KeyHere(u, kind)
    BY <1>3 DEF KeyHere
  <2>2. sync' # Free => sync'.key = KeyHere(sync'.u, sync'.key.kind)
    BY <1>3, FrameSteps DEF KeysAreHere
  <2>3. \A g \in DOMAIN routes' : routes'[g].key = KeyHere(g.source, g.kind)
    <3>1. CASE /\ DOMAIN routes' \subseteq DOMAIN routes
               /\ \A g \in DOMAIN routes' : routes'[g] = routes[g]
      BY <1>3, <3>1 DEF KeysAreHere
    <3>2. CASE SyncRegister /\ ~(sync' = Free /\ routes' = routes)
      <4> DEFINE new == GeneratedFor(sync)
      <4>1. /\ routes'[new].key = KeyHere(sync.u, sync.key.kind)
            /\ \A g \in DOMAIN routes' \ {new} : g \in DOMAIN routes /\ routes'[g] = routes[g]
        BY <1>3, <3>2, RegisteredRoutes DEF KeysAreHere
      <4>2. new.source = sync.u /\ new.kind = sync.key.kind
        BY DEF GeneratedFor
      <4> HIDE DEF new
      <4> QED
        BY <1>3, <4>1, <4>2 DEF KeysAreHere
    <3> QED
      BY <3>1, <3>2, RouteSteps
  <2> QED
    BY <2>1, <2>2, <2>3 DEF KeysAreHere
<1>4. CASE UNCHANGED reconfs /\ reconfs # 0
  BY <1>4 DEF KeysAreHere
<1> QED
  BY <1>1, <1>2, <1>3, <1>4, EnvironmentStays

LEMMA SendInductive ==
  ASSUME TypeOK, SendIsRouted, [Next]_vars
  PROVE  SendIsRouted'
<1>1. CASE SyncRegister /\ sync' # Free
  BY <1>1, RegisteredRoutes DEF SendIsRouted
<1>2. CASE sync' = Free \/ sync'.pc # "send"
  BY <1>2 DEF SendIsRouted
<1>3. CASE ~SyncRegister /\ sync' # Free /\ sync'.pc = "send"
  <2>1. UNCHANGED <<sync, routes>>
    BY <1>3, SendSteps
  <2>2. GeneratedFor(sync)' = GeneratedFor(sync)
    BY <2>1
  <2> QED
    BY <2>1, <2>2 DEF SendIsRouted
<1> QED
  BY <1>1, <1>2, <1>3

----------------------------------------------------------------------------
(* What the backends hold.                                                  *)

\* Steps after which the backends in use hold no more than before, and that
\* leave their routes.
LEMMA OpenedCarry ==
  ASSUME ProcessesInv', OpenedIsRouted, HoldsNoMore, reconfs' = reconfs,
         DOMAIN backends' \subseteq DOMAIN backends,
         \A k \in DOMAIN backends' : backends'[k] = backends[k],
         \A g \in DOMAIN routes : routes[g].key \in DOMAIN backends' =>
            g \in DOMAIN routes' /\ routes'[g] = routes[g],
         \/ sync' = sync
         \/ sync = Free \/ sync.pc # "send"
         \/ sync.key \notin DOMAIN backends'
  PROVE  OpenedIsRouted'
<1> SUFFICES ASSUME reconfs = 0, NEW k \in DOMAIN backends',
                    NEW held \in procs'[backends'[k]].opened
             PROVE  \/ held.uri \in DOMAIN routes' /\ routes'[held.uri].key = k
                    \/ /\ sync' # Free /\ sync'.pc = "send"
                       /\ sync'.key = k /\ held.uri \in sync'.prior
  BY DEF OpenedIsRouted
<1>1. held \in procs[backends[k]].opened /\ k \in DOMAIN backends
  BY DEF ProcessesInv, HoldsNoMore
<1>2. \/ held.uri \in DOMAIN routes /\ routes[held.uri].key = k
      \/ /\ sync # Free /\ sync.pc = "send"
         /\ sync.key = k /\ held.uri \in sync.prior
  BY <1>1 DEF OpenedIsRouted
<1> QED
  BY <1>2

LEMMA StartOpened ==
  ASSUME TypeOK, ProcessesInv, OpenedIsRouted, NEW b \in Backends, SyncStartBackend(b)
  PROVE  OpenedIsRouted'
<1> DEFINE p == [key |-> sync.key, epoch |-> sync.epoch, late |-> sync.late,
                 status |-> "running", opened |-> {}, out |-> <<>>]
<1>1. /\ procs' = Put(procs, b, p) /\ backends' = Put(backends, sync.key, b)
      /\ b \notin DOMAIN procs /\ sync # Free /\ sync.pc = "backend"
      /\ UNCHANGED <<reconfs, routes>>
  BY DEF SyncStartBackend, waiting
<1>2. p.opened = {}
  OBVIOUS
<1> HIDE DEF p
<1>3. procs'[b] = p /\ \A x \in DOMAIN procs : procs'[x] = procs[x]
  BY <1>1 DEF Put
<1>4. /\ DOMAIN backends' = DOMAIN backends \cup {sync.key} /\ backends'[sync.key] = b
      /\ \A k \in DOMAIN backends \ {sync.key} : backends'[k] = backends[k]
  BY <1>1 DEF Put
<1>5. \A k \in DOMAIN backends : backends[k] \in DOMAIN procs
  BY DEF ProcessesInv
<1> QED
  BY <1>1, <1>2, <1>3, <1>4, <1>5 DEF OpenedIsRouted

\* The URIs that lose their route are the prior one, which is to be closed, and
\* none that another backend holds.
LEMMA RegisterOpened ==
  ASSUME TypeOK, OneRoutePerBackend, KeysAreHere, OpenedIsRouted, SyncRegister
  PROVE  OpenedIsRouted'
<1> DEFINE new == GeneratedFor(sync)
           Prior == PriorRoutes(sync.u, sync.key)
<1>0. UNCHANGED <<backends, procs, reconfs>>
  BY DEF SyncRegister, waiting
<1>1. CASE sync' = Free /\ routes' = routes
  BY <1>0, <1>1 DEF OpenedIsRouted, SyncRegister
<1>2. CASE ~(sync' = Free /\ routes' = routes)
  <2> SUFFICES ASSUME reconfs = 0, NEW k \in DOMAIN backends,
                      NEW held \in procs[backends[k]].opened
               PROVE  \/ held.uri \in DOMAIN routes' /\ routes'[held.uri].key = k
                      \/ /\ sync' # Free /\ sync'.pc = "send"
                         /\ sync'.key = k /\ held.uri \in sync'.prior
    BY <1>0 DEF OpenedIsRouted
  <2>1. held.uri \in DOMAIN routes /\ routes[held.uri].key = k
    BY <1>2, RegisteredRoutes DEF OpenedIsRouted
  <2>2. CASE held.uri = new
    <3>1. new.source = sync.u /\ new.kind = sync.key.kind
      BY DEF GeneratedFor
    <3>2. routes[new].key = KeyHere(new.source, new.kind)
      BY <2>1, <2>2 DEF KeysAreHere
    <3>3. sync.key = KeyHere(sync.u, sync.key.kind)
      BY <1>2, RegisteredRoutes DEF KeysAreHere
    <3>4. k = sync.key
      BY <2>1, <2>2, <3>1, <3>2, <3>3
    <3> QED
      BY <1>2, <2>2, <3>4, RegisteredRoutes
  <2>3. CASE held.uri # new /\ held.uri \in Prior
    <3>1. k = sync.key
      BY <2>1, <2>3 DEF PriorRoutes
    <3>2. \A g \in Prior : g = held.uri
      BY <2>3 DEF PriorRoutes, OneRoutePerBackend
    <3>3. held.uri \in sync'.prior
      BY <1>2, <2>3, <3>2, RegisteredRoutes
    <3> QED
      BY <1>2, <3>1, <3>3, RegisteredRoutes
  <2>4. CASE held.uri # new /\ held.uri \notin Prior
    BY <1>2, <2>1, <2>4, RegisteredRoutes
  <2> QED
    BY <2>2, <2>3, <2>4
<1> QED
  BY <1>1, <1>2

LEMMA SendOpened ==
  ASSUME TypeOK, ProcessesInv, SendIsRouted, OpenedIsRouted, SyncSend
  PROVE  OpenedIsRouted'
<1> DEFINE b == backends[sync.key]
           new == GeneratedFor(sync)
           item == [uri |-> new, text |-> sync.doc.text]
           opened == Unopened(procs[b].opened, sync.prior \cup {new}) \cup {item}
<1>1. /\ sync # Free /\ sync.pc = "send" /\ sync' = Free
      /\ procs' = [procs EXCEPT ![b].opened = opened]
      /\ UNCHANGED <<routes, backends, reconfs>>
  BY DEF SyncSend, waiting
<1>2. sync.key \in DOMAIN backends /\ b \in DOMAIN procs /\ procs[b].key = sync.key
  BY <1>1 DEF ProcessesInv
<1>3. new \in DOMAIN routes /\ routes[new].key = sync.key
  BY <1>1 DEF SendIsRouted
<1>4. \A held \in opened :
        held.uri = new \/ (held \in procs[b].opened /\ held.uri \notin sync.prior)
  BY DEF Unopened
<1> HIDE DEF opened, new, b
<1>5. /\ procs'[b].opened = opened
      /\ \A x \in DOMAIN procs \ {b} : procs'[x] = procs[x]
  BY <1>1, <1>2, ProcessFields
<1> SUFFICES ASSUME reconfs = 0, NEW k \in DOMAIN backends,
                    NEW held \in procs'[backends[k]].opened
             PROVE  held.uri \in DOMAIN routes /\ routes[held.uri].key = k
  BY <1>1 DEF OpenedIsRouted
<1>6. backends[k] \in DOMAIN procs /\ procs[backends[k]].key = k
  BY DEF ProcessesInv
<1>7. CASE k = sync.key
  BY <1>1, <1>3, <1>4, <1>5, <1>7 DEF OpenedIsRouted, b
<1>8. CASE k # sync.key
  <2>1. held \in procs[backends[k]].opened
    BY <1>2, <1>5, <1>6, <1>8
  <2> QED
    BY <1>8, <2>1 DEF OpenedIsRouted
<1> QED
  BY <1>7, <1>8

LEMMA CloseOpened ==
  ASSUME TypeOK, ProcessesInv, OpenedIsRouted, NEW u \in Docs, CloseHost(u)
  PROVE  OpenedIsRouted'
<1>1. sync = Free /\ UNCHANGED <<sync, backends, reconfs>>
  BY DEF CloseHost
<1>2. CASE UNCHANGED <<routes, procs>>
  BY <1>1, <1>2 DEF OpenedIsRouted
<1>3. ASSUME NEW g \in DOMAIN routes, routes' = Delete(routes, g),
             procs' = IF routes[g].key \in DOMAIN backends
                      THEN [procs EXCEPT ![backends[routes[g].key]].opened =
                              Unopened(procs[backends[routes[g].key]].opened, {g})]
                      ELSE procs
      PROVE  OpenedIsRouted'
  <2>1. /\ DOMAIN routes' = DOMAIN routes \ {g}
        /\ \A h \in DOMAIN routes' : routes'[h] = routes[h]
    BY <1>3 DEF Delete, DeleteAll, Restrict
  <2> SUFFICES ASSUME reconfs = 0, NEW k \in DOMAIN backends,
                      NEW held \in procs'[backends[k]].opened
               PROVE  held.uri \in DOMAIN routes' /\ routes'[held.uri].key = k
    BY <1>1 DEF OpenedIsRouted
  <2>2. backends[k] \in DOMAIN procs
    BY DEF ProcessesInv
  <2>3. /\ held \in procs[backends[k]].opened
        /\ routes[g].key = k => held.uri # g
    <3>1. CASE routes[g].key \in DOMAIN backends
      <4> DEFINE b == backends[routes[g].key]
                 opened == Unopened(procs[b].opened, {g})
      <4>1. procs' = [procs EXCEPT ![b].opened = opened]
        BY <1>3, <3>1
      <4>2. \A x \in opened : x \in procs[b].opened /\ x.uri # g
        BY DEF Unopened
      <4> HIDE DEF b, opened
      <4>3. /\ backends[k] = b => procs'[backends[k]].opened = opened
            /\ backends[k] # b => procs'[backends[k]] = procs[backends[k]]
        BY <2>2, <4>1, ProcessFields
      <4> QED
        BY <4>2, <4>3 DEF b
    <3>2. CASE routes[g].key \notin DOMAIN backends
      BY <1>3, <3>2
    <3> QED
      BY <3>1, <3>2
  <2>4. held.uri \in DOMAIN routes /\ routes[held.uri].key = k
    BY <1>1, <2>3 DEF OpenedIsRouted
  <2> QED
    BY <2>1, <2>3, <2>4
<1> QED
  BY <1>2, <1>3 DEF CloseHost

LEMMA OpenedInductive ==
  ASSUME TypeOK, OpenedInv, ProcessesInv', \A d, e \in Disks : d = e, [Next]_vars
  PROVE  OpenedIsRouted'
<1> USE DEF OpenedInv
<1>1. CASE reconfs' > 0
  BY <1>1 DEF OpenedIsRouted
<1>2. CASE ReconfigureBackends
  BY <1>2 DEF ReconfigureBackends, EmptyMap, OpenedIsRouted
<1>13. CASE CloseBackends
  <2>1. HoldsNoMore
    BY <1>13, ClosingHoldsNoMore DEF CloseBackends
  <2>2. UNCHANGED <<routes, sync, backends, reconfs>>
    BY <1>13 DEF CloseBackends
  <2> QED
    BY <2>1, <2>2, OpenedCarry
<1>3. CASE End \/ UNCHANGED vars \/ \E r \in reports : ReportLoss(r)
  <2>1. UNCHANGED <<routes, sync, backends, procs, reconfs>>
    BY <1>3 DEF End, vars, waiting, ReportLoss
  <2> QED
    BY <2>1 DEF OpenedIsRouted
<1>4. CASE Editor /\ ~(reconfs' > 0) /\ ~ReconfigureBackends
  <2>1. UNCHANGED <<routes, sync, backends, procs>>
    BY <1>4 DEF Editor, DidOpen, DidChange, DidSave, DidClose, DidChangeConfiguration,
       DidChangeWorkspaceFolders, Exit
  <2>2. UNCHANGED reconfs
    BY <1>4, EnvironmentStays
  <2> QED
    BY <2>1, <2>2 DEF OpenedIsRouted
<1>5. CASE Environment
  <2>1. UNCHANGED <<routes, sync, backends, reconfs>>
    BY <1>5 DEF Environment, Analyse, Crash, LoseResults, PublishDiagnostics, DiskChange,
       waiting
  <2> QED
    BY <1>5, <2>1, EnvironmentHoldsNoMore, OpenedCarry
<1>6. CASE SyncWarn \/ SyncReuseBackend \/ SyncStartFails \/ \E u \in Docs : SyncBegin(u)
  <2>1. UNCHANGED <<routes, backends, procs, reconfs>>
    BY <1>6 DEF SyncWarn, SyncReuseBackend, SyncStartFails, SyncBegin, waiting
  <2>2. sync = Free \/ sync.pc # "send"
    BY <1>6 DEF SyncWarn, SyncReuseBackend, SyncStartFails, SyncBegin
  <2> QED
    BY <2>1, <2>2 DEF OpenedIsRouted
<1>7. CASE SyncSendFails
  <2>1. HoldsNoMore
    BY <1>7, StoppingHoldsNoMore DEF SyncSendFails
  <2>2. /\ DOMAIN backends' = DOMAIN backends \ {sync.key}
        /\ \A k \in DOMAIN backends' : backends'[k] = backends[k]
    BY <1>7 DEF SyncSendFails, Delete, DeleteAll, Restrict
  <2>3. UNCHANGED <<routes, reconfs>>
    BY <1>7 DEF SyncSendFails, waiting
  <2> QED
    BY <2>1, <2>2, <2>3, OpenedCarry
<1>8. ASSUME NEW b \in Backends, WatchBackend(b)
      PROVE  OpenedIsRouted'
  <2> DEFINE Lost == {g \in DOMAIN routes : routes[g].key = procs[b].key}
  <2>1. HoldsNoMore
    BY <1>8, StoppingHoldsNoMore DEF WatchBackend
  <2>2. /\ DOMAIN backends' = DOMAIN backends \ {procs[b].key}
        /\ \A k \in DOMAIN backends' : backends'[k] = backends[k]
    BY <1>8 DEF WatchBackend, Delete, DeleteAll, Restrict
  <2>3. /\ DOMAIN routes' = DOMAIN routes \ Lost
        /\ \A g \in DOMAIN routes' : routes'[g] = routes[g]
    BY <1>8 DEF WatchBackend, DeleteAll, Restrict
  <2>4. UNCHANGED <<sync, reconfs>>
    BY <1>8 DEF WatchBackend
  <2> QED
    BY <2>1, <2>2, <2>3, <2>4, OpenedCarry
<1>9. CASE SyncRegister
  BY <1>9, RegisterOpened
<1>10. CASE SyncSend
  BY <1>10, SendOpened
<1>11. ASSUME NEW b \in Backends, SyncStartBackend(b)
       PROVE  OpenedIsRouted'
  BY <1>11, StartOpened
<1>12. ASSUME NEW u \in Docs, CloseHost(u)
       PROVE  OpenedIsRouted'
  BY <1>12, CloseOpened
<1> QED
  BY <1>1, <1>2, <1>3, <1>4, <1>5, <1>6, <1>7, <1>8, <1>9, <1>10, <1>11, <1>12, <1>13
  DEF Next, Holder, Acquire, Ended

\* If the disk does not change, whatever a backend in use holds open is routed to
\* it, or is about to be closed in it: however versions, closings, crashes and new
\* settings interleave, no virtual document is left behind in a backend.
THEOREM OpenedCorrect ==
  ASSUME \A d, e \in Disks : d = e
  PROVE  Spec => []OpenedIsRouted
<1>1. Init => OpenedInv
  BY DEF Init, OpenedInv, ProcessesInv, NoStrayProcess, OneRoutePerBackend, KeysAreHere,
         SendIsRouted, OpenedIsRouted, EmptyMap
<1>2. TypeOK /\ OpenedInv /\ [Next]_vars => OpenedInv'
  <2> SUFFICES ASSUME TypeOK, OpenedInv, [Next]_vars
               PROVE  OpenedInv'
    OBVIOUS
  <2>1. ProcessesInv'
    BY ProcessesInductive DEF OpenedInv
  <2>2. OneRoutePerBackend'
    BY OneRouteInductive DEF OpenedInv
  <2>3. KeysAreHere'
    BY KeysInductive DEF OpenedInv
  <2>4. SendIsRouted'
    BY SendInductive DEF OpenedInv
  <2>5. OpenedIsRouted'
    BY <2>1, OpenedInductive
  <2> QED
    BY <2>1, <2>2, <2>3, <2>4, <2>5 DEF OpenedInv
<1>3. OpenedInv => OpenedIsRouted
  BY DEF OpenedInv
<1> QED
  BY <1>1, <1>2, <1>3, TypeCorrect, PTL DEF Spec
=============================================================================
