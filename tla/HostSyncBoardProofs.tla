------------------------ MODULE HostSyncBoardProofs -------------------------
(***************************************************************************)
(* HostSync implements DiagnosticsBoard, for every value of its constants:  *)
(* its initial states are the board's, and each of its steps is one of the  *)
(* board's or leaves the board alone.                                       *)
(***************************************************************************)
EXTENDS HostSyncBoard, HostSyncProofs

----------------------------------------------------------------------------
(* What a step does to the variables a publication is made from.            *)

Edited(u, doc) ==
  /\ u \in DOMAIN docs => doc.version > docs[u].version
  /\ docs' = Put(docs, u, doc) /\ host' = Delete(host, u)
  /\ UNCHANGED <<settings, folders, disk>>
  /\ Publish(u)

Saved(u) ==
  /\ u \in DOMAIN docs
  /\ UNCHANGED <<docs, host, settings, folders, disk>>
  /\ Publish(u)

Closed(u) ==
  /\ docs' = Delete(docs, u) /\ host' = Delete(host, u)
  /\ UNCHANGED <<settings, folders, disk>>
  /\ shown' = [shown EXCEPT ![u] = NoView]

Ruled ==
  /\ settings' \in Settings /\ folders' \in Folders
  /\ UNCHANGED <<docs, disk>> /\ host' = EmptyMap
  /\ Republish

Said(u, said) ==
  /\ u \in DOMAIN docs
  /\ host' = Put(host, u, [version |-> docs[u].version, said |-> said])
  /\ UNCHANGED <<docs, settings, folders, disk>>
  /\ Publish(u)

Drifted ==
  /\ disk' \in Disks
  /\ UNCHANGED <<docs, host, settings, folders, shown>>

Aside == UNCHANGED <<docs, host, settings, folders, disk, shown>>

BoardStep ==
  \/ \E u \in Docs, doc \in Documents : Edited(u, doc)
  \/ \E u \in Docs : Saved(u)
  \/ \E u \in Docs : Closed(u)
  \/ Ruled
  \/ \E u \in Docs, said \in Sayings : Said(u, said)
  \/ Drifted
  \/ Aside

LEMMA EditorSteps ==
  ASSUME TypeOK, Editor
  PROVE  BoardStep
<1>1. ASSUME NEW u \in Docs, NEW edit \in Edits(u),
             (ClientOpens(u) /\ DidOpen(u, edit)) \/ DidChange(u, edit)
      PROVE  BoardStep
  <2> DEFINE doc == [version |-> edit[1], text |-> edit[2]]
  <2>1. doc \in Documents
    BY EditIsDocument
  <2>2. Edited(u, doc)
    BY <1>1 DEF ClientOpens, DidOpen, DidChange, Edited
  <2> HIDE DEF doc
  <2> QED
    BY <2>1, <2>2 DEF BoardStep
<1>2. ASSUME NEW u \in Docs, DidSave(u)
      PROVE  BoardStep
  BY <1>2 DEF DidSave, Saved, BoardStep
<1>3. ASSUME NEW u \in Docs, DidClose(u)
      PROVE  BoardStep
  BY <1>3 DEF DidClose, Closed, BoardStep
<1>4. ASSUME \/ \E s \in Settings : DidChangeConfiguration(s)
             \/ \E f \in Folders : DidChangeWorkspaceFolders(f)
      PROVE  BoardStep
  BY <1>4 DEF DidChangeConfiguration, DidChangeWorkspaceFolders, TypeOK, Ruled, BoardStep
<1>5. ASSUME Exit
      PROVE  BoardStep
  BY <1>5 DEF Exit, board, Aside, BoardStep
<1> QED
  BY <1>1, <1>2, <1>3, <1>4, <1>5 DEF Editor

LEMMA HostFailureStep ==
  ASSUME TypeOK, NEW u \in Docs, NEW version \in Versions, HostFailure(u, version)
  PROVE  BoardStep
<1> DEFINE said == [what |-> "warning"]
<1>1. said \in Sayings
  BY DEF Sayings
<1>2. CASE u \in DOMAIN docs /\ docs[u].version = version
  <2>1. Said(u, said)
    BY <1>2 DEF HostFailure, Said, Warning
  <2> HIDE DEF said
  <2> QED
    BY <1>1, <2>1 DEF BoardStep
<1>3. CASE ~(u \in DOMAIN docs /\ docs[u].version = version)
  BY <1>3 DEF HostFailure, Aside, BoardStep
<1> QED
  BY <1>2, <1>3

LEMMA ResultStep ==
  ASSUME TypeOK, NEW b \in Backends, PublishDiagnostics(b)
  PROVE  BoardStep
<1>1. CASE UNCHANGED board
  BY <1>1 DEF board, Aside, BoardStep
<1>2. CASE ~UNCHANGED board
  <2> DEFINE m == Head(procs[b].out)
             u == routes[m.uri].source
             said == [what |-> "result", text |-> m.text, epoch |-> procs[b].epoch]
  <2>1. /\ b \in DOMAIN procs /\ procs[b].out # <<>>
        /\ \E version \in {0, m.uri.version} : Accepts(b, m, version)
        /\ host' = Put(host, u, [version |-> docs[u].version, said |-> said])
        /\ UNCHANGED <<docs, settings, folders, disk>> /\ Publish(u)
    BY <1>2 DEF PublishDiagnostics
  <2>2. procs[b] \in Processes
    BY <2>1 DEF TypeOK, IsMap
  <2>3. m \in Results /\ procs[b].epoch \in Epochs
    BY <2>1, <2>2 DEF Processes
  <2>4. said \in Sayings
    BY <2>3 DEF Sayings, Results
  <2>5. u \in DOMAIN docs
    BY <2>1 DEF Accepts
  <2>6. u \in Docs
    BY <2>5 DEF TypeOK, IsMap
  <2>7. Said(u, said)
    BY <2>1, <2>5 DEF Said
  <2> HIDE DEF u, said
  <2> QED
    BY <2>4, <2>6, <2>7 DEF BoardStep
<1> QED
  BY <1>1, <1>2

\* The goroutines touch the board in hostFailure and PublishDiagnostics only.
LEMMA EveryStep ==
  ASSUME TypeOK, [Next]_vars
  PROVE  BoardStep
<1>1. CASE UNCHANGED board
  BY <1>1 DEF board, Aside, BoardStep
<1>2. CASE Editor
  BY <1>2, EditorSteps
<1>3. CASE SyncWarn \/ SyncSendFails
  <2>1. sync.u \in Docs /\ sync.doc.version \in Versions
    BY <1>3, FrameFields, DocumentFields DEF SyncWarn, SyncSendFails
  <2> QED
    BY <1>3, <2>1, HostFailureStep DEF SyncWarn, SyncSendFails
<1>4. CASE \E r \in reports : ReportLoss(r)
  BY <1>4, HostFailureStep DEF ReportLoss, TypeOK
<1>5. CASE \E b \in Backends : PublishDiagnostics(b)
  BY <1>5, ResultStep
<1>6. CASE \E d \in Disks : DiskChange(d)
  BY <1>6 DEF DiskChange, Drifted, BoardStep
<1>7. CASE Holder /\ ~SyncWarn /\ ~SyncSendFails
  <2>1. UNCHANGED board
    BY <1>7 DEF Holder, SyncReuseBackend, SyncStartBackend, SyncStartFails,
                SyncRegister, SyncSend
  <2> QED
    BY <1>1, <2>1
<1>8. CASE Acquire
  <2>1. UNCHANGED board
    BY <1>8 DEF Acquire, SyncBegin, CloseHost, ReconfigureBackends, WatchBackend,
                CloseBackends
  <2> QED
    BY <1>1, <2>1
<1>9. CASE Environment /\ ~(\E b \in Backends : PublishDiagnostics(b))
                       /\ ~(\E d \in Disks : DiskChange(d))
  <2>1. UNCHANGED board
    BY <1>9 DEF Environment, Analyse, Crash, LoseResults
  <2> QED
    BY <1>1, <2>1
<1>10. CASE End \/ UNCHANGED vars
  BY <1>1, <1>10 DEF End, vars
<1> QED
  BY <1>2, <1>3, <1>4, <1>5, <1>6, <1>7, <1>8, <1>9, <1>10 DEF Next, Ended

----------------------------------------------------------------------------
(* What is shown of a backend is what the server remembers of it: needed    *)
(* where the board is published again without a new saying.                 *)

HostPart(u, doc, h) ==
  IF u \in DOMAIN h /\ h[u].version = doc.version THEN {h[u].said} ELSE {}

HostIsShown == \A u \in DOMAIN docs : shown[u].host = HostPart(u, docs[u], host)

\* What each publication shows on behalf of a backend.
LEMMA ShownHost ==
  ASSUME TypeOK, NEW u \in Docs, Publish(u)
  PROVE  /\ shown'[u].host = HostPart(u, docs'[u], host')
         /\ \A x \in Docs \ {u} : shown'[x] = shown[x]
BY DEF TypeOK, Publish, View, HostPart

LEMMA HostIsShownInductive ==
  ASSUME TypeOK, HostIsShown, BoardStep
  PROVE  HostIsShown'
<1> SUFFICES ASSUME NEW x \in DOMAIN docs'
             PROVE  shown'[x].host = HostPart(x, docs'[x], host')
  BY DEF HostIsShown, HostPart
<1>0. DOMAIN docs \subseteq Docs
  BY DEF TypeOK, IsMap
<1>1. ASSUME NEW u \in Docs, NEW doc \in Documents, Edited(u, doc)
      PROVE  shown'[x].host = HostPart(x, docs'[x], host')
  <2>1. CASE x = u
    BY <1>1, <2>1, ShownHost DEF Edited
  <2>2. CASE x # u
    <3>1. x \in DOMAIN docs /\ docs'[x] = docs[x]
      BY <1>1, <2>2 DEF Edited, Put
    <3>2. /\ x \in DOMAIN host' <=> x \in DOMAIN host
          /\ x \in DOMAIN host => host'[x] = host[x]
      BY <1>1, <2>2 DEF Edited, Delete, DeleteAll, Restrict
    <3>3. shown'[x] = shown[x]
      BY <1>0, <1>1, <2>2, <3>1, ShownHost DEF Edited
    <3> QED
      BY <3>1, <3>2, <3>3 DEF HostIsShown, HostPart
  <2> QED
    BY <2>1, <2>2
<1>2. ASSUME NEW u \in Docs, Saved(u)
      PROVE  shown'[x].host = HostPart(x, docs'[x], host')
  <2>1. docs' = docs /\ host' = host /\ Publish(u)
    BY <1>2 DEF Saved
  <2> QED
    BY <1>0, <2>1, ShownHost DEF HostIsShown
<1>3. ASSUME NEW u \in Docs, Closed(u)
      PROVE  shown'[x].host = HostPart(x, docs'[x], host')
  <2>1. x # u /\ x \in DOMAIN docs /\ docs'[x] = docs[x]
    BY <1>3 DEF Closed, Delete, DeleteAll, Restrict
  <2>2. /\ x \in DOMAIN host' <=> x \in DOMAIN host
        /\ x \in DOMAIN host => host'[x] = host[x]
    BY <1>3, <2>1 DEF Closed, Delete, DeleteAll, Restrict
  <2>3. shown'[x] = shown[x]
    BY <1>0, <1>3, <2>1 DEF Closed, TypeOK
  <2> QED
    BY <2>1, <2>2, <2>3 DEF HostIsShown, HostPart
<1>4. ASSUME Ruled
      PROVE  shown'[x].host = HostPart(x, docs'[x], host')
  BY <1>0, <1>4 DEF Ruled, Republish, View, HostPart
<1>5. ASSUME NEW u \in Docs, NEW said \in Sayings, Said(u, said)
      PROVE  shown'[x].host = HostPart(x, docs'[x], host')
  <2>1. CASE x = u
    BY <1>5, <2>1, ShownHost DEF Said
  <2>2. CASE x # u
    <3> DEFINE entry == [version |-> docs[u].version, said |-> said]
    <3>1. docs' = docs /\ host' = Put(host, u, entry)
      BY <1>5 DEF Said
    <3> HIDE DEF entry
    <3>2. /\ x \in DOMAIN host' <=> x \in DOMAIN host
          /\ x \in DOMAIN host => host'[x] = host[x]
      BY <2>2, <3>1 DEF Put
    <3>3. shown'[x] = shown[x]
      BY <1>0, <1>5, <2>2, <3>1, ShownHost DEF Said
    <3> QED
      BY <3>1, <3>2, <3>3 DEF HostIsShown, HostPart
  <2> QED
    BY <2>1, <2>2
<1>6. ASSUME Drifted \/ Aside
      PROVE  shown'[x].host = HostPart(x, docs'[x], host')
  BY <1>6 DEF Drifted, Aside, HostIsShown, HostPart
<1> QED
  BY <1>1, <1>2, <1>3, <1>4, <1>5, <1>6 DEF BoardStep

----------------------------------------------------------------------------
(* The steps of the board.                                                  *)

LEMMA BoardInit == Init => Board!Init
BY DataAssumption DEF Init, Board!Init, NoView, Board!NoView, EmptyMap, Board!EmptyMap

LEMMA BoardSteps ==
  ASSUME TypeOK, HostIsShown, BoardStep
  PROVE  [Board!Next]_(Board!vars)
<1>1. ASSUME NEW u \in Docs, NEW doc \in Documents, Edited(u, doc)
      PROVE  Board!Write(u, doc)
  <2>1. docs'[u] = doc /\ u \notin DOMAIN host'
    BY <1>1 DEF Edited, Put, Delete, DeleteAll, Restrict
  <2>2. shown' = [shown EXCEPT ![u] = View(Env', u, doc, host')]
    BY <1>1, <2>1 DEF Edited, Publish
  <2>3. View(Env', u, doc, host') = Board!Entry(u, doc, {})
    BY <1>1, <2>1 DEF View, Env, Board!Entry, BoardLocalPart, Edited
  <2> QED
    BY <1>1, <2>2, <2>3 DEF Board!Write, Edited, Put, Board!Put
<1>2. ASSUME NEW u \in Docs, Saved(u)
      PROVE  Board!Refresh(u)
  <2>1. /\ u \in DOMAIN docs /\ docs' = docs /\ host' = host
        /\ settings' = settings /\ folders' = folders /\ disk' = disk
        /\ shown' = [shown EXCEPT ![u] = View(Env', u, docs'[u], host')]
    BY <1>2 DEF Saved, Publish
  <2>2. shown[u].host = HostPart(u, docs[u], host)
    BY <2>1 DEF HostIsShown
  <2>3. View(Env', u, docs'[u], host') = Board!Entry(u, docs[u], shown[u].host)
    BY <2>1, <2>2 DEF View, HostPart, Env, Board!Entry, BoardLocalPart
  <2> QED
    BY <2>1, <2>3 DEF Board!Refresh
<1>3. ASSUME NEW u \in Docs, Closed(u)
      PROVE  Board!Close(u)
  BY <1>3 DEF Closed, Board!Close, NoView, Board!NoView, Delete, Board!Delete,
              DeleteAll, Board!DeleteAll, Restrict, Board!Restrict
<1>4. ASSUME Ruled
      PROVE  Board!Rule(<<settings', folders'>>)
  <2>1. ASSUME NEW u \in Docs
        PROVE  View(Env', u, docs'[u], host') = Board!Entry(u, docs[u], {})
    BY <1>4 DEF Ruled, View, EmptyMap, Env, Board!Entry, BoardLocalPart
  <2>2. shown' = [u \in Docs |-> IF u \in DOMAIN docs
                                 THEN Board!Entry(u, docs[u], {}) ELSE shown[u]]
    BY <1>4, <2>1 DEF Ruled, Republish
  <2> QED
    BY <1>4, <2>2 DEF Ruled, Board!Rule
<1>5. ASSUME NEW u \in Docs, NEW said \in Sayings, Said(u, said)
      PROVE  Board!Say(u, said)
  <2>1. /\ u \in DOMAIN host' /\ host'[u].said = said
        /\ host'[u].version = docs[u].version
    BY <1>5 DEF Said, Put
  <2>2. shown' = [shown EXCEPT ![u] = View(Env', u, docs[u], host')]
    BY <1>5 DEF Said, Publish
  <2>3. View(Env', u, docs[u], host') = Board!Entry(u, docs[u], {said})
    BY <1>5, <2>1 DEF Said, View, Env, Board!Entry, BoardLocalPart
  <2> QED
    BY <1>5, <2>2, <2>3 DEF Said, Board!Say
<1>6. ASSUME Drifted
      PROVE  Board!Drift
  BY <1>6 DEF Drifted, Board!Drift
<1>7. ASSUME Aside
      PROVE  UNCHANGED Board!vars
  BY <1>7 DEF Aside, Board!vars
<1>8. Ruled => <<settings', folders'>> \in Settings \X Folders
  BY DEF Ruled
<1> QED
  BY <1>1, <1>2, <1>3, <1>4, <1>5, <1>6, <1>7, <1>8 DEF BoardStep, Board!Next

\* HostSync implements DiagnosticsBoard: whatever the goroutines, the backends
\* and their failures do, the editor is sent what the board allows.
THEOREM BoardCorrect == Spec => KeepsBoard
<1>1. Init => HostIsShown /\ Board!Init
  BY BoardInit DEF Init, HostIsShown, EmptyMap
<1>2. TypeOK /\ HostIsShown /\ [Next]_vars
        => HostIsShown' /\ [Board!Next]_(Board!vars)
  BY EveryStep, HostIsShownInductive, BoardSteps
<1> QED
  BY <1>1, <1>2, TypeCorrect, PTL DEF Spec, KeepsBoard, Board!Spec

----------------------------------------------------------------------------
(* What is shown is what the state says now.                                *)

\* A document that a step is not about looks the same after it.
LEMMA OthersLookTheSame ==
  ASSUME NEW x \in DOMAIN docs, docs'[x] = docs[x], Env' = Env,
         x \in DOMAIN host' <=> x \in DOMAIN host,
         x \in DOMAIN host => host'[x] = host[x]
  PROVE  View(Env', x, docs'[x], host') = View(Env, x, docs[x], host)
BY DEF View

LEMMA CurrentInductive ==
  ASSUME TypeOK, ShownIsCurrent, BoardStep, \A d, e \in Disks : d = e
  PROVE  ShownIsCurrent'
<1> SUFFICES ASSUME NEW x \in DOMAIN docs'
             PROVE  shown'[x] = View(Env', x, docs'[x], host')
  BY DEF ShownIsCurrent
<1>0. DOMAIN docs \subseteq Docs /\ shown \in [Docs -> Views]
  BY DEF TypeOK, IsMap
<1>1. ASSUME NEW u \in Docs, NEW doc \in Documents, Edited(u, doc)
      PROVE  shown'[x] = View(Env', x, docs'[x], host')
  <2>1. CASE x = u
    BY <1>0, <1>1, <2>1 DEF Edited, Publish
  <2>2. CASE x # u
    <3>1. x \in DOMAIN docs /\ docs'[x] = docs[x]
      BY <1>1, <2>2 DEF Edited, Put
    <3>2. /\ x \in DOMAIN host' <=> x \in DOMAIN host
          /\ x \in DOMAIN host => host'[x] = host[x]
      BY <1>1, <2>2 DEF Edited, Delete, DeleteAll, Restrict
    <3>3. shown'[x] = shown[x] /\ Env' = Env
      BY <1>0, <1>1, <2>2, <3>1 DEF Edited, Publish, Env
    <3> QED
      BY <3>1, <3>2, <3>3, OthersLookTheSame DEF ShownIsCurrent
  <2> QED
    BY <2>1, <2>2
<1>2. ASSUME NEW u \in Docs, Saved(u)
      PROVE  shown'[x] = View(Env', x, docs'[x], host')
  <2>1. docs' = docs /\ host' = host /\ Env' = Env /\ Publish(u)
    BY <1>2 DEF Saved, Env
  <2> QED
    BY <1>0, <2>1 DEF Publish, ShownIsCurrent
<1>3. ASSUME NEW u \in Docs, Closed(u)
      PROVE  shown'[x] = View(Env', x, docs'[x], host')
  <2>1. x # u /\ x \in DOMAIN docs /\ docs'[x] = docs[x]
    BY <1>3 DEF Closed, Delete, DeleteAll, Restrict
  <2>2. /\ x \in DOMAIN host' <=> x \in DOMAIN host
        /\ x \in DOMAIN host => host'[x] = host[x]
    BY <1>3, <2>1 DEF Closed, Delete, DeleteAll, Restrict
  <2>3. shown'[x] = shown[x] /\ Env' = Env
    BY <1>0, <1>3, <2>1 DEF Closed, Env
  <2> QED
    BY <2>1, <2>2, <2>3, OthersLookTheSame DEF ShownIsCurrent
<1>4. ASSUME Ruled
      PROVE  shown'[x] = View(Env', x, docs'[x], host')
  BY <1>0, <1>4 DEF Ruled, Republish
<1>5. ASSUME NEW u \in Docs, NEW said \in Sayings, Said(u, said)
      PROVE  shown'[x] = View(Env', x, docs'[x], host')
  <2> DEFINE entry == [version |-> docs[u].version, said |-> said]
  <2>1. docs' = docs /\ host' = Put(host, u, entry) /\ Env' = Env /\ Publish(u)
    BY <1>5 DEF Said, Env
  <2> HIDE DEF entry
  <2>2. CASE x = u
    BY <1>0, <2>1, <2>2 DEF Publish
  <2>3. CASE x # u
    <3>1. /\ x \in DOMAIN host' <=> x \in DOMAIN host
          /\ x \in DOMAIN host => host'[x] = host[x]
      BY <2>1, <2>3 DEF Put
    <3>2. shown'[x] = shown[x]
      BY <1>0, <2>1, <2>3 DEF Publish
    <3> QED
      BY <2>1, <3>1, <3>2, OthersLookTheSame DEF ShownIsCurrent
  <2> QED
    BY <2>2, <2>3
<1>6. ASSUME Drifted \/ Aside
      PROVE  shown'[x] = View(Env', x, docs'[x], host')
  <2>1. disk' = disk
    BY <1>6 DEF Drifted, Aside, TypeOK
  <2> QED
    BY <1>6, <2>1 DEF Drifted, Aside, ShownIsCurrent, Env
<1> QED
  BY <1>1, <1>2, <1>3, <1>4, <1>5, <1>6 DEF BoardStep

\* If the disk does not change, the editor's last publication for each open
\* document is what the server would publish now: no critical section changes
\* a document, the settings or a backend's diagnostics and leaves it stale.
THEOREM CurrentCorrect ==
  ASSUME \A d, e \in Disks : d = e
  PROVE  Spec => []ShownIsCurrent
<1>1. Init => ShownIsCurrent
  BY DEF Init, ShownIsCurrent, EmptyMap
<1>2. TypeOK /\ ShownIsCurrent /\ [Next]_vars => ShownIsCurrent'
  BY EveryStep, CurrentInductive
<1> QED
  BY <1>1, <1>2, TypeCorrect, PTL DEF Spec
=============================================================================
