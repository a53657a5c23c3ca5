--------------------------- MODULE HostSyncProofs ---------------------------
(***************************************************************************)
(* Theorems about HostSync for every value of its constants: any documents, *)
(* edits, settings, backends and bounds.                                    *)
(***************************************************************************)
EXTENDS HostSync, DataTheorems

----------------------------------------------------------------------------
(* Lemmas about the data.                                                   *)

\* An edit the editor may send is a document, with a version and a text.
LEMMA EditIsDocument ==
  ASSUME NEW u \in Docs, NEW edit \in Edits(u)
  PROVE  /\ [version |-> edit[1], text |-> edit[2]] \in Documents
         /\ <<edit[1], edit[2]>> \in Edits(u)
<1>1. edit \in AllEdits
  BY DEF AllEdits
<1>2. edit = <<edit[1], edit[2]>>
  BY DataAssumption
<1> QED
  BY <1>1, <1>2 DEF Documents

LEMMA DocumentFields ==
  ASSUME NEW doc \in Documents
  PROVE  doc.version \in Versions /\ doc.version \in Nat /\ doc.text \in Texts
<1>1. AllEdits \subseteq Nat \X Texts
  BY DataAssumption DEF AllEdits
<1> QED
  BY <1>1 DEF Documents, Versions

\* What server.publish sends is a view.
LEMMA ViewTyped ==
  ASSUME NEW e, NEW u, NEW doc \in Documents, NEW h, IsMap(h, Docs, HostEntries)
  PROVE  View(e, u, doc, h) \in Views
<1> DEFINE local == LocalPart(e, u, doc.text)
           said == IF u \in DOMAIN h /\ h[u].version = doc.version
                   THEN {h[u].said} ELSE {}
<1>1. doc.version \in Versions \cup {0}
  BY DocumentFields
<1>2. local \in SUBSET {"syntax", "shellcheck"}
  BY DEF LocalPart
<1>3. said \in SUBSET Sayings
  <2>1. ASSUME u \in DOMAIN h  PROVE h[u].said \in Sayings
    <3>1. h[u] \in HostEntries
      BY <2>1, MapValue
    <3> QED
      BY <3>1 DEF HostEntries
  <2> QED
    BY <2>1
<1>4. View(e, u, doc, h) = [version |-> doc.version, local |-> local, host |-> said]
  BY DEF View
<1> HIDE DEF local, said
<1> QED
  BY <1>1, <1>2, <1>3, <1>4 DEF Views

LEMMA NoViewTyped == NoView \in Views
BY DEF NoView, Views

\* Publishing keeps the type of what is shown.
LEMMA PublishTyped ==
  ASSUME shown \in [Docs -> Views], NEW u \in Docs, Publish(u),
         u \in DOMAIN docs', IsMap(docs', Docs, Documents),
         IsMap(host', Docs, HostEntries)
  PROVE  shown' \in [Docs -> Views]
<1>1. docs'[u] \in Documents
  BY MapValue
<1>2. View(Env', u, docs'[u], host') \in Views
  BY <1>1, ViewTyped
<1> QED
  BY <1>2 DEF Publish

LEMMA RepublishTyped ==
  ASSUME shown \in [Docs -> Views], Republish,
         IsMap(docs', Docs, Documents), IsMap(host', Docs, HostEntries)
  PROVE  shown' \in [Docs -> Views]
<1> SUFFICES ASSUME NEW u \in Docs, u \in DOMAIN docs'
             PROVE  View(Env', u, docs'[u], host') \in Views
  BY DEF Republish
<1>1. docs'[u] \in Documents
  BY MapValue
<1> QED
  BY <1>1, ViewTyped

\* hostFailure keeps the types of host and shown.
LEMMA HostFailureTyped ==
  ASSUME TypeOK, NEW u \in Docs, NEW version \in Versions, HostFailure(u, version)
  PROVE  /\ IsMap(host', Docs, HostEntries)
         /\ shown' \in [Docs -> Views]
<1>1. Warning(version) \in HostEntries
  BY DEF Warning, HostEntries, Sayings
<1>2. IsMap(host', Docs, HostEntries)
  BY <1>1, PutIsMap DEF HostFailure, TypeOK
<1>3. shown' \in [Docs -> Views]
  <2>1. CASE u \in DOMAIN docs /\ docs[u].version = version
    BY <1>2, <2>1, PublishTyped DEF HostFailure, TypeOK
  <2>2. CASE ~(u \in DOMAIN docs /\ docs[u].version = version)
    BY <2>2 DEF HostFailure, TypeOK
  <2> QED
    BY <2>1, <2>2
<1> QED
  BY <1>2, <1>3

LEMMA EnvTyped ==
  ASSUME TypeOK
  PROVE  Env \in Environments
BY DEF TypeOK, Env, Environments

\* A document that is wanted has a key.
LEMMA KeyTyped ==
  ASSUME NEW e \in Environments, NEW u \in Docs, NEW text \in Texts,
         Wanted(e, u, text)
  PROVE  KeyOf(e, u, text) \in Keys
BY OperatorAssumption, DataAssumption DEF Wanted, KeyOf, Keys, Environments

LEMMA EnterTyped ==
  ASSUME TypeOK, NEW u \in DOMAIN docs, Wanted(Env, u, docs[u].text)
  PROVE  /\ Enter(u) \in Frames
         /\ <<Enter(u).doc.version, Enter(u).doc.text>> \in Edits(Enter(u).u)
<1>1. u \in Docs /\ docs[u] \in Documents
  BY MapValue DEF TypeOK
<1>2. docs[u].text \in Texts
  BY <1>1, DocumentFields
<1>3. KeyOf(Env, u, docs[u].text) \in Keys
  BY <1>1, <1>2, KeyTyped, EnvTyped
<1> QED
  BY <1>1, <1>3 DEF Enter, Frames, TypeOK

LEMMA FrameFields ==
  ASSUME TypeOK, sync # Free
  PROVE  /\ sync \in Frames
         /\ sync.u \in Docs /\ sync.doc \in Documents /\ sync.key \in Keys
         /\ sync.epoch \in Epochs /\ sync.prior \in SUBSET Generated
         /\ sync.doc.version \in Versions /\ sync.doc.text \in Texts
         /\ sync.late \in BOOLEAN
         /\ <<sync.doc.version, sync.doc.text>> \in Edits(sync.u)
BY DocumentFields DEF TypeOK, Frames

LEMMA GeneratedTyped ==
  ASSUME TypeOK, sync # Free
  PROVE  GeneratedFor(sync) \in Generated
BY FrameFields DEF GeneratedFor, Generated, Keys

----------------------------------------------------------------------------
(* Lemmas about processes.                                                  *)

\* Changing one process to another of the right type keeps the map's type.
LEMMA ProcessUpdate ==
  ASSUME NEW ps, IsMap(ps, Backends, Processes), NEW b \in DOMAIN ps,
         NEW p \in Processes
  PROVE  IsMap([ps EXCEPT ![b] = p], Backends, Processes)
BY DEF IsMap

LEMMA ReapedTyped ==
  ASSUME NEW ps, IsMap(ps, Backends, Processes)
  PROVE  IsMap(Reaped(ps), Backends, Processes)
BY RestrictIsMap DEF Reaped

\* backend.stop leaves a well-formed set of processes, without those stopped
\* whose results have all been read.
LEMMA StoppingTyped ==
  ASSUME TypeOK, NEW stopped
  PROVE  IsMap(AfterStopping(stopped), Backends, Processes)
<1> DEFINE ps == [b \in DOMAIN procs |->
                    IF b \in stopped
                    THEN [procs[b] EXCEPT !.status = "stopped", !.opened = {}]
                    ELSE procs[b]]
<1>1. IsMap(ps, Backends, Processes)
  <2>1. ASSUME NEW b \in DOMAIN procs
        PROVE  b \in Backends /\ procs[b] \in Processes
    BY MapValue DEF TypeOK
  <2>2. ASSUME NEW b \in DOMAIN procs
        PROVE  [procs[b] EXCEPT !.status = "stopped", !.opened = {}] \in Processes
    BY <2>1 DEF Processes
  <2> QED
    BY <2>1, <2>2 DEF IsMap
<1> QED
  BY <1>1, ReapedTyped DEF AfterStopping

LEMMA ClosingTyped ==
  ASSUME TypeOK, NEW closed, NEW watchers
  PROVE  IsMap(AfterClosing(closed, watchers), Backends, Processes)
<1>1. ASSUME NEW b \in DOMAIN procs
      PROVE  b \in Backends /\ procs[b] \in Processes
  BY MapValue DEF TypeOK
<1>2. ASSUME NEW b \in DOMAIN procs, NEW status \in {"watched", "closed"}
      PROVE  [procs[b] EXCEPT !.opened = {}, !.status = status] \in Processes
  BY <1>1 DEF Processes
<1> QED
  BY <1>1, <1>2 DEF IsMap, AfterClosing

----------------------------------------------------------------------------
(* Type correctness, one lemma per group of actions.                        *)

LEMMA InitTyped == Init => TypeOK
<1> SUFFICES ASSUME Init PROVE TypeOK
  OBVIOUS
<1>1. /\ IsMap(docs, Docs, Documents) /\ IsMap(host, Docs, HostEntries)
      /\ IsMap(routes, Generated, Routes) /\ IsMap(backends, Keys, Backends)
      /\ IsMap(procs, Backends, Processes)
  BY EmptyIsMap DEF Init
<1>2. shown \in [Docs -> Views]
  BY NoViewTyped DEF Init
<1>3. 0 \in Epochs
  BY BoundsAssumption DEF Epochs
<1>4. DOMAIN docs = {}
  BY DEF Init, EmptyMap
<1> QED
  BY <1>1, <1>2, <1>3, <1>4, DataAssumption DEF Init, TypeOK

\* What didOpen and didChange do to the types.
LEMMA WriteTyped ==
  ASSUME TypeOK, NEW u \in Docs, NEW edit \in Edits(u),
         DidOpen(u, edit) \/ DidChange(u, edit)
  PROVE  TypeOK'
<1> DEFINE doc == [version |-> edit[1], text |-> edit[2]]
<1>1. docs' = Put(docs, u, doc) /\ host' = Delete(host, u) /\ Publish(u)
  BY DEF DidOpen, DidChange
<1>2. /\ IsMap(docs', Docs, Documents) /\ u \in DOMAIN docs'
      /\ \A x \in DOMAIN docs' : <<docs'[x].version, docs'[x].text>> \in Edits(x)
  <2>1. /\ doc \in Documents
        /\ <<doc.version, doc.text>> \in Edits(u)
    BY EditIsDocument
  <2> HIDE DEF doc
  <2>2. IsMap(Put(docs, u, doc), Docs, Documents)
    BY <2>1, PutIsMap DEF TypeOK
  <2>3. /\ DOMAIN docs' = DOMAIN docs \cup {u} /\ docs'[u] = doc
        /\ \A x \in DOMAIN docs \ {u} : docs'[x] = docs[x]
    BY <1>1 DEF Put
  <2> QED
    BY <1>1, <2>1, <2>2, <2>3 DEF TypeOK
<1>3. IsMap(host', Docs, HostEntries)
  BY <1>1, DeleteAllIsMap DEF TypeOK, Delete
<1>4. shown' \in [Docs -> Views]
  BY <1>1, <1>2, <1>3, PublishTyped DEF TypeOK
<1>5. syncs' \in [Docs -> Nat]
  BY DEF TypeOK, DidOpen, DidChange
<1> QED
  BY <1>2, <1>3, <1>4, <1>5 DEF TypeOK, DidOpen, DidChange

LEMMA SaveTyped ==
  ASSUME TypeOK, NEW u \in Docs, DidSave(u)
  PROVE  TypeOK'
<1>1. shown' \in [Docs -> Views]
  BY PublishTyped DEF DidSave, TypeOK
<1> QED
  BY <1>1 DEF TypeOK, DidSave, waiting

LEMMA CloseTyped ==
  ASSUME TypeOK, NEW u \in Docs, DidClose(u)
  PROVE  TypeOK'
<1>1. IsMap(docs', Docs, Documents) /\ IsMap(host', Docs, HostEntries)
  BY DeleteAllIsMap DEF DidClose, TypeOK, Delete
<1>3. DOMAIN docs' \subseteq DOMAIN docs /\ \A x \in DOMAIN docs' : docs'[x] = docs[x]
  BY DEF DidClose, Delete, DeleteAll, Restrict
<1>2. shown' \in [Docs -> Views] /\ closes' \in [Docs -> Nat]
  BY NoViewTyped DEF DidClose, TypeOK
<1> QED
  BY <1>1, <1>2, <1>3 DEF TypeOK, DidClose

LEMMA ConfigureTyped ==
  ASSUME TypeOK,
         \/ \E s \in Settings : DidChangeConfiguration(s)
         \/ \E f \in Folders : DidChangeWorkspaceFolders(f)
  PROVE  TypeOK'
<1>1. IsMap(host', Docs, HostEntries)
  BY EmptyIsMap DEF DidChangeConfiguration, DidChangeWorkspaceFolders
<1>2. shown' \in [Docs -> Views]
  <2>1. Republish /\ IsMap(docs', Docs, Documents)
    BY DEF DidChangeConfiguration, DidChangeWorkspaceFolders, TypeOK
  <2> QED
    BY <1>1, <2>1, RepublishTyped DEF TypeOK
<1>3. epoch' \in Epochs /\ reconfs' \in Nat
  BY BoundsAssumption
  DEF DidChangeConfiguration, DidChangeWorkspaceFolders, TypeOK, Epochs
<1> QED
  BY <1>1, <1>2, <1>3
  DEF TypeOK, DidChangeConfiguration, DidChangeWorkspaceFolders

LEMMA EditorTyped ==
  ASSUME TypeOK, Editor
  PROVE  TypeOK'
<1>1. CASE Exit
  BY <1>1 DEF Exit, TypeOK, board
<1> QED
  BY <1>1, WriteTyped, SaveTyped, CloseTyped, ConfigureTyped DEF Editor

LEMMA BeginTyped ==
  ASSUME TypeOK, NEW u \in Docs, SyncBegin(u)
  PROVE  TypeOK'
<1>1. /\ sync' \in Frames \cup {Free}
      /\ sync' # Free => <<sync'.doc.version, sync'.doc.text>> \in Edits(sync'.u)
  BY EnterTyped DEF SyncBegin
<1>2. syncs' \in [Docs -> Nat]
  BY DEF SyncBegin, TypeOK
<1> QED
  BY <1>1, <1>2 DEF TypeOK, SyncBegin, board

LEMMA WarnTyped ==
  ASSUME TypeOK, SyncWarn
  PROVE  TypeOK'
<1>1. sync.u \in Docs /\ sync.doc.version \in Versions
  BY FrameFields DEF SyncWarn
<1>2. IsMap(host', Docs, HostEntries) /\ shown' \in [Docs -> Views]
  BY <1>1, HostFailureTyped DEF SyncWarn
<1> QED
  BY <1>2 DEF TypeOK, SyncWarn, HostFailure, waiting

LEMMA StartTyped ==
  ASSUME TypeOK,
         \/ SyncReuseBackend
         \/ SyncStartFails
         \/ \E b \in Backends : SyncStartBackend(b)
  PROVE  TypeOK'
<1>1. /\ sync \in Frames /\ sync.key \in Keys /\ sync.epoch \in Epochs
      /\ sync.late \in BOOLEAN
      /\ <<sync.doc.version, sync.doc.text>> \in Edits(sync.u)
  BY FrameFields DEF SyncReuseBackend, SyncStartFails, SyncStartBackend
<1>2. sync' \in Frames /\ sync'.doc = sync.doc /\ sync'.u = sync.u
  BY <1>1 DEF SyncReuseBackend, SyncStartFails, SyncStartBackend, Frames
<1>3. IsMap(procs', Backends, Processes) /\ IsMap(backends', Keys, Backends)
  <2>1. CASE \E b \in Backends : SyncStartBackend(b)
    <3> PICK b \in Backends : SyncStartBackend(b)
      BY <2>1
    <3> DEFINE p == [key |-> sync.key, epoch |-> sync.epoch, late |-> sync.late,
                     status |-> "running", opened |-> {}, out |-> <<>>]
    <3>1. p \in Processes
      BY <1>1 DEF Processes
    <3>2. procs' = Put(procs, b, p) /\ backends' = Put(backends, sync.key, b)
      BY DEF SyncStartBackend
    <3> QED
      BY <1>1, <3>1, <3>2, PutIsMap DEF TypeOK
  <2>2. CASE SyncReuseBackend \/ SyncStartFails
    BY <2>2 DEF SyncReuseBackend, SyncStartFails, TypeOK
  <2> QED
    BY <2>1, <2>2
<1> QED
  BY <1>1, <1>2, <1>3
  DEF TypeOK, SyncReuseBackend, SyncStartFails, SyncStartBackend, board, waiting

LEMMA RegisterTyped ==
  ASSUME TypeOK, SyncRegister
  PROVE  TypeOK'
<1>1. sync \in Frames /\ GeneratedFor(sync) \in Generated
  BY FrameFields, GeneratedTyped DEF SyncRegister
<1>2. CASE routes' = routes /\ sync' = Free
  BY <1>2 DEF TypeOK, SyncRegister, board, waiting
<1>3. CASE ~(routes' = routes /\ sync' = Free)
  <2> DEFINE r == [source |-> sync.u, version |-> sync.doc.version,
                   epoch |-> sync.epoch, kind |-> sync.key.kind, key |-> sync.key]
             Rest == DeleteAll(routes, PriorRoutes(sync.u, sync.key))
  <2>1. routes' = Put(Rest, GeneratedFor(sync), r)
    BY <1>3 DEF SyncRegister
  <2>2. r \in Routes
    BY FrameFields DEF SyncRegister, Routes, Keys
  <2>3. IsMap(routes', Generated, Routes)
    BY <1>1, <2>1, <2>2, PutIsMap, DeleteAllIsMap DEF TypeOK
  <2>4. PriorRoutes(sync.u, sync.key) \subseteq Generated
    BY DEF PriorRoutes, TypeOK, IsMap
  <2>5. PICK prior \in SUBSET PriorRoutes(sync.u, sync.key) :
          sync' = [sync EXCEPT !.pc = "send", !.prior = prior]
    BY <1>3 DEF SyncRegister
  <2>6. sync' \in Frames /\ sync'.doc = sync.doc /\ sync'.u = sync.u
    BY <1>1, <2>4, <2>5 DEF Frames
  <2>7. <<sync'.doc.version, sync'.doc.text>> \in Edits(sync'.u)
    BY <2>6, FrameFields DEF SyncRegister
  <2> QED
    BY <2>3, <2>6, <2>7 DEF TypeOK, SyncRegister, board, waiting
<1> QED
  BY <1>2, <1>3

\* Changing one field of one process: what syncHost, closeHost and the processes
\* themselves do.
LEMMA ProcessFieldTyped ==
  ASSUME TypeOK, NEW b
  PROVE  /\ \A opened : (b \in DOMAIN procs => opened \in SUBSET Results) =>
              IsMap([procs EXCEPT ![b].opened = opened], Backends, Processes)
         /\ \A out : (b \in DOMAIN procs => out \in Seq(Results)) =>
              IsMap([procs EXCEPT ![b].out = out], Backends, Processes)
         /\ \A status \in {"running", "crashed", "stopped", "closed", "watched"} :
              IsMap([procs EXCEPT ![b].status = status], Backends, Processes)
<1>1. ASSUME NEW x \in DOMAIN procs
      PROVE  x \in Backends /\ procs[x] \in Processes
  BY MapValue DEF TypeOK
<1>2. CASE b \in DOMAIN procs
  BY <1>1, <1>2 DEF IsMap, Processes
<1>3. CASE b \notin DOMAIN procs
  BY <1>1, <1>3 DEF IsMap
<1> QED
  BY <1>2, <1>3

LEMMA SendTyped ==
  ASSUME TypeOK, SyncSend
  PROVE  TypeOK'
<1> DEFINE b == backends[sync.key]
           held == [uri |-> GeneratedFor(sync), text |-> sync.doc.text]
           opened == Unopened(procs[b].opened, sync.prior \cup {GeneratedFor(sync)})
                       \cup {held}
<1>1. held \in Results
  <2>1. held \in [uri : Generated, text : Texts]
    BY GeneratedTyped, FrameFields DEF SyncSend
  <2>2. <<held.uri.version, held.text>> \in Edits(held.uri.source)
    BY FrameFields DEF SyncSend, GeneratedFor
  <2> QED
    BY <2>1, <2>2 DEF Results
<1>2. b \in DOMAIN procs => procs[b] \in Processes
  BY MapValue DEF TypeOK
<1>3. b \in DOMAIN procs => opened \in SUBSET Results
  BY <1>1, <1>2 DEF Unopened, Processes
<1>4. procs' = [procs EXCEPT ![b].opened = opened]
  BY DEF SyncSend
<1> HIDE DEF b, opened
<1>5. IsMap(procs', Backends, Processes)
  BY <1>3, <1>4, ProcessFieldTyped
<1> QED
  BY <1>5 DEF TypeOK, SyncSend, board, waiting

LEMMA SendFailsTyped ==
  ASSUME TypeOK, SyncSendFails
  PROVE  TypeOK'
<1>1. sync.u \in Docs /\ sync.doc.version \in Versions
  BY FrameFields DEF SyncSendFails
<1>2. IsMap(host', Docs, HostEntries) /\ shown' \in [Docs -> Views]
  BY <1>1, HostFailureTyped DEF SyncSendFails
<1>3. IsMap(backends', Keys, Backends) /\ IsMap(procs', Backends, Processes)
  BY DeleteAllIsMap, StoppingTyped DEF SyncSendFails, TypeOK, Delete
<1> QED
  BY <1>2, <1>3 DEF TypeOK, SyncSendFails, HostFailure, waiting

LEMMA HolderTyped ==
  ASSUME TypeOK, Holder
  PROVE  TypeOK'
BY WarnTyped, StartTyped, RegisterTyped, SendTyped, SendFailsTyped DEF Holder

LEMMA CloseHostTyped ==
  ASSUME TypeOK, NEW u \in Docs, CloseHost(u)
  PROVE  TypeOK'
<1>1. closes' \in [Docs -> Nat]
  BY DEF CloseHost, TypeOK
<1>2. IsMap(routes', Generated, Routes) /\ IsMap(procs', Backends, Processes)
  <2>1. CASE routes' = routes /\ procs' = procs
    BY <2>1 DEF TypeOK
  <2>2. CASE ~(routes' = routes /\ procs' = procs)
    <3> DEFINE Mine == {g \in DOMAIN routes : routes[g].source = u}
               Told(g) == IF routes[g].key \in DOMAIN backends
                          THEN [procs EXCEPT ![backends[routes[g].key]].opened =
                                  Unopened(@, {g})]
                          ELSE procs
    <3>0. \E g \in Mine : routes' = Delete(routes, g) /\ procs' = Told(g)
      BY <2>2 DEF CloseHost
    <3>1. PICK g \in Mine : routes' = Delete(routes, g) /\ procs' = Told(g)
      BY <3>0
    <3> DEFINE b == backends[routes[g].key]
               opened == Unopened(procs[b].opened, {g})
    <3>2. procs' = procs \/ procs' = [procs EXCEPT ![b].opened = opened]
      BY <3>1
    <3>3. b \in DOMAIN procs => opened \in SUBSET Results
      <4> HIDE DEF b
      <4>1. b \in DOMAIN procs => procs[b] \in Processes
        BY MapValue DEF TypeOK
      <4> QED
        BY <4>1 DEF Unopened, Processes
    <3>4. IsMap(procs', Backends, Processes)
      <4> HIDE DEF b, opened
      <4>1. IsMap([procs EXCEPT ![b].opened = opened], Backends, Processes)
        BY <3>3, ProcessFieldTyped
      <4> QED
        BY <3>2, <4>1 DEF TypeOK
    <3> QED
      BY <3>1, <3>4, DeleteAllIsMap DEF TypeOK, Delete
  <2> QED
    BY <2>1, <2>2
<1> QED
  BY <1>1, <1>2 DEF TypeOK, CloseHost, board

LEMMA CloseBackendsTyped ==
  ASSUME TypeOK, CloseBackends
  PROVE  TypeOK'
<1>1. IsMap(procs', Backends, Processes)
  BY ClosingTyped DEF CloseBackends
<1> QED
  BY <1>1 DEF TypeOK, CloseBackends, board

LEMMA ReconfigureTyped ==
  ASSUME TypeOK, ReconfigureBackends
  PROVE  TypeOK'
<1>1. reconfs' \in Nat /\ syncs' \in [Docs -> Nat]
  BY DEF ReconfigureBackends, TypeOK
<1>2. /\ IsMap(routes', Generated, Routes) /\ IsMap(backends', Keys, Backends)
      /\ IsMap(procs', Backends, Processes)
  BY EmptyIsMap, StoppingTyped DEF ReconfigureBackends
<1> QED
  BY <1>1, <1>2 DEF TypeOK, ReconfigureBackends, board

LEMMA WatchTyped ==
  ASSUME TypeOK, NEW b \in Backends, WatchBackend(b)
  PROVE  TypeOK'
<1> DEFINE Lost == {g \in DOMAIN routes : routes[g].key = procs[b].key}
<1>1. /\ IsMap(routes', Generated, Routes) /\ IsMap(backends', Keys, Backends)
      /\ IsMap(procs', Backends, Processes)
  BY DeleteAllIsMap, StoppingTyped DEF WatchBackend, TypeOK, Delete
<1>2. reports' \subseteq Docs \X Versions
  <2>1. \A g \in Lost : routes[g] \in Routes
    BY MapValue DEF TypeOK
  <2> QED
    BY <2>1 DEF WatchBackend, TypeOK, Routes
<1> QED
  BY <1>1, <1>2 DEF TypeOK, WatchBackend, board

LEMMA AcquireTyped ==
  ASSUME TypeOK, Acquire
  PROVE  TypeOK'
BY BeginTyped, CloseHostTyped, ReconfigureTyped, WatchTyped, CloseBackendsTyped DEF Acquire

LEMMA ReportTyped ==
  ASSUME TypeOK, NEW r \in reports, ReportLoss(r)
  PROVE  TypeOK'
<1>1. r[1] \in Docs /\ r[2] \in Versions
  BY DEF TypeOK
<1>2. IsMap(host', Docs, HostEntries) /\ shown' \in [Docs -> Views]
  BY <1>1, HostFailureTyped DEF ReportLoss
<1> QED
  BY <1>2 DEF TypeOK, ReportLoss, HostFailure

LEMMA BackendTyped ==
  ASSUME TypeOK, NEW b \in Backends, Analyse(b) \/ Crash(b) \/ LoseResults(b)
  PROVE  TypeOK'
<1>1. procs[b] \in Processes
  BY MapValue DEF TypeOK, Analyse, Crash, LoseResults
<1>2. IsMap(procs', Backends, Processes)
  <2>1. CASE Analyse(b)
    <3> PICK held \in procs[b].opened :
          procs' = [procs EXCEPT ![b].out = Append(procs[b].out, held)]
      BY <2>1 DEF Analyse
    <3>1. Append(procs[b].out, held) \in Seq(Results)
      BY <1>1 DEF Processes
    <3> QED
      BY <3>1, ProcessFieldTyped
  <2>2. CASE Crash(b)
    BY <2>2, ProcessFieldTyped DEF Crash
  <2>3. CASE LoseResults(b)
    <3>1. <<>> \in Seq(Results)
      OBVIOUS
    <3> QED
      BY <2>3, <3>1, ProcessFieldTyped, ReapedTyped DEF LoseResults
  <2> QED
    BY <2>1, <2>2, <2>3
<1> QED
  BY <1>2 DEF TypeOK, Analyse, Crash, LoseResults, board, waiting

LEMMA PublishDiagnosticsTyped ==
  ASSUME TypeOK, NEW b \in Backends, PublishDiagnostics(b)
  PROVE  TypeOK'
<1> DEFINE m == Head(procs[b].out)
<1>1. procs[b] \in Processes /\ procs[b].out # <<>>
  BY MapValue DEF TypeOK, PublishDiagnostics
<1>2. m \in Results /\ Tail(procs[b].out) \in Seq(Results)
  BY <1>1 DEF Processes
<1>3. IsMap(procs', Backends, Processes)
  BY <1>2, ProcessFieldTyped, ReapedTyped DEF PublishDiagnostics
<1>4. CASE UNCHANGED board
  BY <1>3, <1>4 DEF TypeOK, PublishDiagnostics, board, waiting
<1>5. CASE ~UNCHANGED board
  <2> DEFINE r == routes[m.uri]
             entry == [version |-> docs[r.source].version,
                       said |-> [what |-> "result", text |-> m.text,
                                 epoch |-> procs[b].epoch]]
  <2>1. /\ \E version \in {0, m.uri.version} : Accepts(b, m, version)
        /\ host' = Put(host, r.source, entry)
        /\ UNCHANGED <<docs, settings, folders, epoch, disk>>
        /\ Publish(r.source)
    BY <1>5 DEF PublishDiagnostics
  <2>2. r \in Routes /\ r.source \in DOMAIN docs
    BY <2>1, MapValue DEF Accepts, TypeOK
  <2>3. r.source \in Docs /\ docs[r.source] \in Documents
    BY <2>2, MapValue DEF TypeOK
  <2>4. entry \in HostEntries
    BY <1>1, <1>2, <2>3, DocumentFields DEF HostEntries, Sayings, Results, Processes
  <2> HIDE DEF entry
  <2>5. IsMap(host', Docs, HostEntries)
    BY <2>1, <2>3, <2>4, PutIsMap DEF TypeOK
  <2>6. IsMap(docs', Docs, Documents) /\ r.source \in DOMAIN docs'
    BY <2>1, <2>2 DEF TypeOK
  <2> HIDE DEF r
  <2>7. shown' \in [Docs -> Views]
    BY <2>1, <2>3, <2>5, <2>6, PublishTyped DEF TypeOK
  <2> QED
    BY <1>3, <2>1, <2>5, <2>7 DEF TypeOK, PublishDiagnostics, waiting
<1> QED
  BY <1>4, <1>5

LEMMA EnvironmentTyped ==
  ASSUME TypeOK, Environment
  PROVE  TypeOK'
<1>1. CASE \E d \in Disks : DiskChange(d)
  BY <1>1 DEF DiskChange, TypeOK, waiting
<1> QED
  BY <1>1, BackendTyped, PublishDiagnosticsTyped DEF Environment

LEMMA TypeInvariance ==
  ASSUME TypeOK, [Next]_vars
  PROVE  TypeOK'
<1>1. CASE UNCHANGED vars
  BY <1>1 DEF TypeOK, vars, board, waiting
<1>2. CASE End
  BY <1>2 DEF End, TypeOK, board
<1> QED
  BY <1>1, <1>2, EditorTyped, HolderTyped, AcquireTyped, ReportTyped, EnvironmentTyped
  DEF Next, Ended

\* The server's maps, its epoch and its counters of waiting goroutines always
\* have the types server.go and backend.go declare: in particular no goroutine
\* is counted twice on its way out, and every URI names a version the editor
\* has used.
THEOREM TypeCorrect == Spec => []TypeOK
<1>1. Init => TypeOK
  BY InitTyped
<1>2. TypeOK /\ [Next]_vars => TypeOK'
  BY TypeInvariance
<1> QED
  BY <1>1, <1>2, PTL DEF Spec

----------------------------------------------------------------------------
(* What is shown belongs to the open version.                               *)

LEMMA InitSilent == Init => HostIsCurrent /\ ClosedIsSilent
BY DEF Init, HostIsCurrent, ClosedIsSilent, EmptyMap

\* Publishing an open document leaves the closed ones silent.
LEMMA PublishSilent ==
  ASSUME TypeOK, ClosedIsSilent, NEW u \in Docs, Publish(u), u \in DOMAIN docs',
         DOMAIN docs \subseteq DOMAIN docs', DOMAIN host' \subseteq DOMAIN docs'
  PROVE  ClosedIsSilent'
BY DEF Publish, ClosedIsSilent, TypeOK

LEMMA HostFailureSilent ==
  ASSUME TypeOK, HostIsCurrent, ClosedIsSilent,
         NEW u \in Docs, NEW version \in Versions, HostFailure(u, version)
  PROVE  HostIsCurrent' /\ ClosedIsSilent'
<1>1. CASE u \in DOMAIN docs /\ docs[u].version = version
  <2>1. docs' = docs /\ host' = Put(host, u, Warning(version)) /\ Publish(u)
    BY <1>1 DEF HostFailure
  <2> DEFINE warning == Warning(version)
  <2>4. warning.version = docs[u].version
    BY <1>1 DEF Warning
  <2> HIDE DEF warning
  <2>5. /\ DOMAIN host' = DOMAIN host \cup {u} /\ host'[u] = warning
        /\ \A x \in DOMAIN host \ {u} : host'[x] = host[x]
    BY <2>1 DEF Put, warning
  <2>2. HostIsCurrent'
    BY <1>1, <2>1, <2>4, <2>5 DEF HostIsCurrent
  <2>3. DOMAIN host' \subseteq DOMAIN docs'
    BY <2>2 DEF HostIsCurrent
  <2> QED
    BY <1>1, <2>1, <2>2, <2>3, PublishSilent
<1>2. CASE ~(u \in DOMAIN docs /\ docs[u].version = version)
  BY <1>2 DEF HostFailure, HostIsCurrent, ClosedIsSilent
<1> QED
  BY <1>1, <1>2

\* A document that is opened or changed loses what the backends said of it.
LEMMA EditSilent ==
  ASSUME TypeOK, HostIsCurrent, ClosedIsSilent, NEW u \in Docs, NEW edit \in Edits(u),
         DidOpen(u, edit) \/ DidChange(u, edit)
  PROVE  HostIsCurrent' /\ ClosedIsSilent'
<1> DEFINE doc == [version |-> edit[1], text |-> edit[2]]
<1>1. docs' = Put(docs, u, doc) /\ host' = DeleteAll(host, {u}) /\ Publish(u)
  BY DEF DidOpen, DidChange, Delete
<1> HIDE DEF doc
<1>2. /\ DOMAIN docs' = DOMAIN docs \cup {u}
      /\ \A x \in DOMAIN docs \ {u} : docs'[x] = docs[x]
  BY <1>1 DEF Put
<1>3. /\ DOMAIN host' = DOMAIN host \ {u}
      /\ \A x \in DOMAIN host \ {u} : host'[x] = host[x]
  BY <1>1, DeleteAllValues
<1>4. HostIsCurrent'
  BY <1>2, <1>3 DEF HostIsCurrent
<1>5. DOMAIN host' \subseteq DOMAIN docs'
  BY <1>4 DEF HostIsCurrent
<1> QED
  BY <1>1, <1>2, <1>4, <1>5, PublishSilent

LEMMA CloseSilent ==
  ASSUME TypeOK, HostIsCurrent, ClosedIsSilent, NEW u \in Docs, DidClose(u)
  PROVE  HostIsCurrent' /\ ClosedIsSilent'
<1>1. /\ DOMAIN docs' = DOMAIN docs \ {u}
      /\ \A x \in DOMAIN docs \ {u} : docs'[x] = docs[x]
  BY DeleteAllValues DEF DidClose, Delete
<1>2. /\ DOMAIN host' = DOMAIN host \ {u}
      /\ \A x \in DOMAIN host \ {u} : host'[x] = host[x]
  BY DeleteAllValues DEF DidClose, Delete
<1>3. HostIsCurrent'
  BY <1>1, <1>2 DEF HostIsCurrent
<1>4. shown' = [shown EXCEPT ![u] = NoView]
  BY DEF DidClose
<1>5. ClosedIsSilent'
  BY <1>1, <1>2, <1>4 DEF ClosedIsSilent, TypeOK
<1> QED
  BY <1>3, <1>5

LEMMA ConfigurationSilent ==
  ASSUME TypeOK, HostIsCurrent, ClosedIsSilent,
         \/ \E s \in Settings : DidChangeConfiguration(s)
         \/ \E f \in Folders : DidChangeWorkspaceFolders(f)
  PROVE  HostIsCurrent' /\ ClosedIsSilent'
<1>1. docs' = docs /\ host' = EmptyMap /\ Republish
  BY DEF DidChangeConfiguration, DidChangeWorkspaceFolders
<1> QED
  BY <1>1 DEF HostIsCurrent, ClosedIsSilent, EmptyMap, Republish, TypeOK

\* PublishDiagnostics stores a result under the version that is open.
LEMMA ResultSilent ==
  ASSUME TypeOK, HostIsCurrent, ClosedIsSilent, NEW b \in Backends,
         PublishDiagnostics(b)
  PROVE  HostIsCurrent' /\ ClosedIsSilent'
<1>1. CASE UNCHANGED board
  BY <1>1 DEF board, HostIsCurrent, ClosedIsSilent
<1>2. CASE ~UNCHANGED board
  <2> DEFINE m == Head(procs[b].out)
             u == routes[m.uri].source
             said == [what |-> "result", text |-> m.text, epoch |-> procs[b].epoch]
             entry == [version |-> docs[u].version, said |-> said]
  <2>1. /\ \E version \in {0, m.uri.version} : Accepts(b, m, version)
        /\ host' = Put(host, u, entry) /\ docs' = docs /\ Publish(u)
    BY <1>2 DEF PublishDiagnostics
  <2>2. u \in DOMAIN docs
    BY <2>1 DEF Accepts
  <2>3. u \in Docs
    BY <2>2 DEF TypeOK, IsMap
  <2>4. entry.version = docs[u].version
    OBVIOUS
  <2> HIDE DEF m, u, entry
  <2>7. /\ DOMAIN host' = DOMAIN host \cup {u} /\ host'[u] = entry
        /\ \A x \in DOMAIN host \ {u} : host'[x] = host[x]
    BY <2>1 DEF Put
  <2>5. HostIsCurrent'
    BY <2>1, <2>2, <2>4, <2>7 DEF HostIsCurrent
  <2>6. DOMAIN host' \subseteq DOMAIN docs'
    BY <2>5 DEF HostIsCurrent
  <2> QED
    BY <2>1, <2>2, <2>3, <2>5, <2>6, PublishSilent
<1> QED
  BY <1>1, <1>2

LEMMA SilentInductive ==
  ASSUME TypeOK, HostIsCurrent, ClosedIsSilent, [Next]_vars
  PROVE  HostIsCurrent' /\ ClosedIsSilent'
<1> USE DEF HostIsCurrent, ClosedIsSilent
<1>1. CASE UNCHANGED <<docs, host, shown>>
  BY <1>1
<1>2. CASE Editor
  <2>1. CASE \E u \in Docs : DidSave(u)
    <3> PICK u \in Docs : DidSave(u)
      BY <2>1
    <3>1. /\ docs' = docs /\ host' = host /\ u \in DOMAIN docs /\ Publish(u)
      BY DEF DidSave
    <3> QED
      BY <3>1, PublishSilent
  <2>2. CASE Exit
    BY <1>1, <2>2 DEF Exit, board
  <2> QED
    BY <1>2, <2>1, <2>2, EditSilent, CloseSilent, ConfigurationSilent DEF Editor
<1>3. CASE SyncWarn \/ SyncSendFails
  BY <1>3, FrameFields, HostFailureSilent DEF SyncWarn, SyncSendFails
<1>4. CASE \E r \in reports : ReportLoss(r)
  BY <1>4, HostFailureSilent DEF ReportLoss, TypeOK
<1>5. CASE \E b \in Backends : PublishDiagnostics(b)
  BY <1>5, ResultSilent
<1>6. CASE UNCHANGED vars
  BY <1>1, <1>6 DEF vars, board
<1>7. CASE Holder /\ ~SyncWarn /\ ~SyncSendFails
  <2>1. UNCHANGED board
    BY <1>7 DEF Holder, SyncReuseBackend, SyncStartBackend, SyncStartFails,
                SyncRegister, SyncSend
  <2> QED
    BY <1>1, <2>1 DEF board
<1>8. CASE Acquire
  <2>1. UNCHANGED board
    BY <1>8 DEF Acquire, SyncBegin, CloseHost, ReconfigureBackends, WatchBackend,
                CloseBackends
  <2> QED
    BY <1>1, <2>1 DEF board
<1>9. CASE Environment /\ ~\E b \in Backends : PublishDiagnostics(b)
  <2>1. UNCHANGED <<docs, host, shown>>
    BY <1>9 DEF Environment, Analyse, Crash, LoseResults, DiskChange, board
  <2> QED
    BY <1>1, <2>1
<1>10. CASE End
  BY <1>1, <1>10 DEF End, board
<1> QED
  BY <1>2, <1>3, <1>4, <1>5, <1>6, <1>7, <1>8, <1>9, <1>10 DEF Next, Ended

\* A document that is not open shows nothing, and what is remembered of a
\* backend is about the open version: no interleaving of late results, late
\* failures, edits and closing breaks it.
THEOREM SilenceCorrect == Spec => [](HostIsCurrent /\ ClosedIsSilent)
<1>1. Init => HostIsCurrent /\ ClosedIsSilent
  BY InitSilent
<1>2. TypeOK /\ (HostIsCurrent /\ ClosedIsSilent) /\ [Next]_vars
        => (HostIsCurrent /\ ClosedIsSilent)'
  BY SilentInductive
<1> QED
  BY <1>1, <1>2, TypeCorrect, PTL DEF Spec
=============================================================================
