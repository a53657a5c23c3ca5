------------------------------ MODULE HostSync ------------------------------
(***************************************************************************)
(* The concurrent core of plato-ls (internal/plato/server.go, backend.go):  *)
(* the editor's notifications, the goroutines that keep optional YAML and   *)
(* Bash language servers ("backends") supplied with projections of the open *)
(* documents, and the diagnostics those backends send back.                 *)
(*                                                                          *)
(* Two mutexes order everything.  server.mu guards docs, host, routes,      *)
(* settings, folders and epoch, and is held only for short sections: one    *)
(* such section is one action here.  server.syncMu is held by one           *)
(* syncHost, closeHost, watchBackend or reconfigureBackends goroutine for   *)
(* as long as it talks to backends; syncHost gives up server.mu in between, *)
(* so it is cut into actions where it does, and `sync' is its call frame.   *)
(*                                                                          *)
(* What a file's name, text and workspace imply is data: the CONSTANT       *)
(* operators below stand for hostForFile, settings.forFile, eligible,       *)
(* syntaxDiagnostics and makeProjection.                                    *)
(***************************************************************************)
EXTENDS Naturals, Sequences, FiniteSets, GoMap

CONSTANTS
  Docs,        \* document URIs
  Texts,       \* document contents
  Settings,    \* values of server.settings
  Folders,     \* values of server.folders
  Disks,       \* what the code finds on disk: plato.yaml files, tools in PATH
  Kinds,       \* host languages: "yaml", "bash"
  NoKind,      \* hostForFile found none
  Paths,       \* backend executables
  NoPath,      \* no executable configured
  Roots,       \* workspace roots
  Backends,    \* identities of backend processes, reused once forgotten
  InitSettings, InitFolders, InitDisk,   \* as left by Initialize
  Closable,    \* bound: the documents the editor ever closes
  Exits,       \* bound: whether the editor ever exits or hangs up
  MaxEpoch,    \* bound: settings and folder changes the editor makes
  MaxPending,  \* bound: goroutines waiting for one document before it sends more
  MaxOut       \* bound: results a backend has in flight; 0 if none answers

CONSTANTS
  Edits(_),               \* document: the <<version, text>> pairs the editor may send
  KindOf(_, _),           \* document, text: hostForFile
  Executable(_, _),       \* settings, kind: YAMLBackend or BashBackend
  RootOf(_, _),           \* environment, document: forFile(...).root
  Eligible(_, _, _),      \* environment, document, text: workspace.eligible
  Broken(_, _, _),        \* environment, document, text: some syntaxDiagnostics
  Unprojectable(_, _),    \* kind, text: makeProjection fails or is not safe
  ShellCheckMissing(_)    \* environment: exec.LookPath fails

Environments == [settings : Settings, folders : Folders, disk : Disks]

ASSUME BoundsAssumption ==
  /\ MaxEpoch \in Nat
  /\ MaxPending \in Nat \ {0}
  /\ MaxOut \in Nat
  /\ Exits \in BOOLEAN

ASSUME DataAssumption ==
  /\ \A u \in Docs : Edits(u) \subseteq Nat \X Texts
  /\ InitSettings \in Settings
  /\ InitFolders \in Folders
  /\ InitDisk \in Disks
  /\ NoKind \notin Kinds
  /\ NoPath \notin Paths

ASSUME OperatorAssumption ==
  /\ \A u \in Docs, t \in Texts : KindOf(u, t) \in Kinds \cup {NoKind}
  /\ \A u \in Docs, t1, t2 \in Texts :   \* the extension decides, or a shebang
        NoKind \notin {KindOf(u, t1), KindOf(u, t2)} => KindOf(u, t1) = KindOf(u, t2)
  /\ \A s \in Settings, k \in Kinds : Executable(s, k) \in Paths \cup {NoPath}
  /\ \A e \in Environments, u \in Docs : RootOf(e, u) \in Roots
  /\ \A e \in Environments, u \in Docs, t \in Texts :
        Eligible(e, u, t) \in BOOLEAN /\ Broken(e, u, t) \in BOOLEAN
  /\ \A k \in Kinds, t \in Texts : Unprojectable(k, t) \in BOOLEAN
  /\ \A e \in Environments : ShellCheckMissing(e) \in BOOLEAN

VARIABLES
  docs,      \* server.docs: open documents
  host,      \* server.host: what the backends last said about a document
  routes,    \* server.routes: generated URI -> document it stands for
  settings, folders, epoch,   \* server.settings, .folders, .epoch
  disk,      \* the file system, which nobody locks
  shown,     \* the editor's last publishDiagnostics for each document
  sync,      \* the frame of the syncHost that holds syncMu, or Free
  backends,  \* server.backends: key -> process
  procs,     \* the processes startBackend has made and nothing has forgotten
  syncs,     \* syncHost goroutines waiting for syncMu, per document
  closes,    \* closeHost goroutines waiting for syncMu, per document
  reconfs,   \* reconfigureBackends goroutines waiting for syncMu
  reports,   \* hostFailure calls a watchBackend still owes, after its unlock
  serving    \* Serve: "serving", "exiting" once its select has fired, "closed"
             \* after closeBackends, "ended" when the program is over

board == <<docs, host, settings, folders, epoch, disk, shown>>
waiting == <<syncs, closes, reconfs, reports, serving>>
vars == <<board, routes, sync, backends, procs, waiting>>

----------------------------------------------------------------------------
AllEdits == UNION {Edits(u) : u \in Docs}
Versions == {edit[1] : edit \in AllEdits}
Documents == {[version |-> edit[1], text |-> edit[2]] : edit \in AllEdits}
Epochs == 0 .. MaxEpoch

\* The virtual file name.plato-ls-v<version><extension> shown to a backend.
Generated == [source : Docs, version : Versions, kind : Kinds]

Keys == [kind : Kinds, root : Roots, path : Paths]

Routes == [source : Docs, version : Versions, epoch : Epochs, kind : Kinds, key : Keys]

\* A result carries the text it was computed from and the epoch whose settings
\* its backend was started with: the code keeps neither.
Sayings == [what : {"warning"}] \cup [what : {"result"}, text : Texts, epoch : Epochs]

HostEntries == [version : Versions, said : Sayings]

\* A text that a backend holds or has diagnosed, under the URI that names its
\* version: always one edit of that document's.
Results == {r \in [uri : Generated, text : Texts] :
              <<r.uri.version, r.text>> \in Edits(r.uri.source)}

\* status: "crashed" when its connection is done but nobody has called stop;
\* "closed" when closeBackends has called stop, which leaves it in the map, and
\* "watched" when moreover it had crashed and its watcher was waiting for syncMu.
\* opened: backend.opened, each URI with the text the process then holds for it.
\* late: its syncHost took syncMu after closeBackends had (the code does not say).
Processes ==
  [key : Keys, epoch : Epochs, late : BOOLEAN,
   status : {"running", "crashed", "stopped", "closed", "watched"},
   opened : SUBSET Results, out : Seq(Results)]

Free == [pc |-> "free"]

Frames ==
  [pc : {"backend", "register", "send", "warn"}, u : Docs, doc : Documents,
   epoch : Epochs, key : Keys, prior : SUBSET Generated, late : BOOLEAN]

Views == [version : Versions \cup {0}, local : SUBSET {"syntax", "shellcheck"},
          host : SUBSET Sayings]

TypeOK ==
  /\ IsMap(docs, Docs, Documents)
  /\ \A u \in DOMAIN docs : <<docs[u].version, docs[u].text>> \in Edits(u)
  /\ IsMap(host, Docs, HostEntries)
  /\ IsMap(routes, Generated, Routes)
  /\ settings \in Settings /\ folders \in Folders /\ disk \in Disks
  /\ epoch \in Epochs
  /\ shown \in [Docs -> Views]
  /\ sync \in Frames \cup {Free}
  /\ sync # Free => <<sync.doc.version, sync.doc.text>> \in Edits(sync.u)
  /\ IsMap(backends, Keys, Backends)
  /\ IsMap(procs, Backends, Processes)
  /\ syncs \in [Docs -> Nat] /\ closes \in [Docs -> Nat] /\ reconfs \in Nat
  /\ reports \subseteq Docs \X Versions
  /\ serving \in {"serving", "exiting", "closed", "ended"}

----------------------------------------------------------------------------
(* What the editor sees.                                                    *)

Env == [settings |-> settings, folders |-> folders, disk |-> disk]

\* The diagnostics plato-ls computes itself: none for an excluded document.
LocalPart(e, u, text) ==
  LET shellcheck == /\ KindOf(u, text) = "bash"
                    /\ Executable(e.settings, "bash") # NoPath
                    /\ ShellCheckMissing(e)
  IN {d \in {"syntax", "shellcheck"} :
        /\ Eligible(e, u, text)
        /\ d = "syntax" => Broken(e, u, text)
        /\ d = "shellcheck" => shellcheck}

View(e, u, doc, h) ==
  [version |-> doc.version, local |-> LocalPart(e, u, doc.text),
   host |-> IF u \in DOMAIN h /\ h[u].version = doc.version
            THEN {h[u].said} ELSE {}]

NoView == [version |-> 0, local |-> {}, host |-> {}]

\* server.publish, after the assignments of the same critical section.
Publish(u) == shown' = [shown EXCEPT ![u] = View(Env', u, docs'[u], host')]

Republish ==
  shown' = [u \in Docs |-> IF u \in DOMAIN docs'
                           THEN View(Env', u, docs'[u], host') ELSE shown[u]]

----------------------------------------------------------------------------
(* The editor's notifications.  Each handler is one critical section of     *)
(* server.mu followed by a `go' statement.  The conjuncts that begin with   *)
(* Client are what a language client does, not what the handler checks.     *)

ClientOpens(u) == u \notin DOMAIN docs
ClientCloses(u) == u \in DOMAIN docs /\ u \in Closable

DidOpen(u, edit) ==
  /\ syncs[u] < MaxPending
  /\ docs' = Put(docs, u, [version |-> edit[1], text |-> edit[2]])
  /\ host' = Delete(host, u)
  /\ syncs' = [syncs EXCEPT ![u] = @ + 1]
  /\ UNCHANGED <<settings, folders, epoch, disk>>
  /\ Publish(u)
  /\ UNCHANGED <<routes, sync, backends, procs, closes, reconfs, reports, serving>>

\* Mutant: the backend's diagnostics of the old text survive the change.
DidChangeKeepingHost(u, edit) ==
  /\ syncs[u] < MaxPending
  /\ u \in DOMAIN docs /\ edit[1] > docs[u].version
  /\ docs' = Put(docs, u, [version |-> edit[1], text |-> edit[2]])
  /\ syncs' = [syncs EXCEPT ![u] = @ + 1]
  /\ UNCHANGED <<host, settings, folders, epoch, disk>>
  /\ Publish(u)
  /\ UNCHANGED <<routes, sync, backends, procs, closes, reconfs, reports, serving>>

\* A change that is not newer is dropped, as is one for a document not open.
DidChange(u, edit) ==
  /\ syncs[u] < MaxPending
  /\ u \in DOMAIN docs /\ edit[1] > docs[u].version
  /\ docs' = Put(docs, u, [version |-> edit[1], text |-> edit[2]])
  /\ host' = Delete(host, u)
  /\ syncs' = [syncs EXCEPT ![u] = @ + 1]
  /\ UNCHANGED <<settings, folders, epoch, disk>>
  /\ Publish(u)
  /\ UNCHANGED <<routes, sync, backends, procs, closes, reconfs, reports, serving>>

DidSave(u) ==
  /\ u \in DOMAIN docs
  /\ UNCHANGED <<docs, host, settings, folders, epoch, disk>>
  /\ Publish(u)
  /\ UNCHANGED <<routes, sync, backends, procs, waiting>>

DidClose(u) ==
  /\ closes[u] < MaxPending
  /\ docs' = Delete(docs, u)
  /\ host' = Delete(host, u)
  /\ shown' = [shown EXCEPT ![u] = NoView]
  /\ closes' = [closes EXCEPT ![u] = @ + 1]
  /\ UNCHANGED <<settings, folders, epoch, disk, routes, sync, backends, procs,
                 syncs, reconfs, reports, serving>>

\* Mutant: the open documents are not published again.
DidChangeConfigurationQuietly(s) ==
  /\ epoch < MaxEpoch
  /\ settings' = s
  /\ epoch' = epoch + 1
  /\ host' = EmptyMap
  /\ reconfs' = reconfs + 1
  /\ UNCHANGED <<docs, folders, disk, shown, routes, sync, backends, procs,
                 syncs, closes, reports, serving>>

\* Settings that do not parse are refused before the lock: nothing changes.
DidChangeConfiguration(s) ==
  /\ epoch < MaxEpoch
  /\ settings' = s
  /\ epoch' = epoch + 1
  /\ host' = EmptyMap
  /\ UNCHANGED <<docs, folders, disk>>
  /\ Republish
  /\ reconfs' = reconfs + 1
  /\ UNCHANGED <<routes, sync, backends, procs, syncs, closes, reports, serving>>

\* Mutant: diagnostics of the old folders are carried over.
DidChangeWorkspaceFoldersKeepingHost(f) ==
  /\ epoch < MaxEpoch
  /\ folders' = f
  /\ epoch' = epoch + 1
  /\ UNCHANGED <<docs, host, settings, disk>>
  /\ Republish
  /\ reconfs' = reconfs + 1
  /\ UNCHANGED <<routes, sync, backends, procs, syncs, closes, reports, serving>>

DidChangeWorkspaceFolders(f) ==
  /\ epoch < MaxEpoch
  /\ folders' = f
  /\ host' = EmptyMap
  /\ epoch' = epoch + 1
  /\ UNCHANGED <<docs, settings, disk>>
  /\ Republish
  /\ reconfs' = reconfs + 1
  /\ UNCHANGED <<routes, sync, backends, procs, syncs, closes, reports, serving>>

\* The exit notification, or the end of the connection: Serve's select fires,
\* once.  Until closeBackends has syncMu everything goes on as before.
Exit ==
  /\ Exits
  /\ serving' = "exiting"
  /\ UNCHANGED <<board, routes, sync, backends, procs, syncs, closes, reconfs, reports>>

----------------------------------------------------------------------------
(* backend.stop kills the process.  Its identity can be used again once     *)
(* nothing it sent is on its way.                                           *)

Reaped(ps) ==
  Restrict(ps, {b \in DOMAIN ps : ps[b].status # "stopped" \/ ps[b].out # <<>>})

AfterStopping(stopped) ==
  Reaped([b \in DOMAIN procs |->
            IF b \in stopped
            THEN [procs[b] EXCEPT !.status = "stopped", !.opened = {}]
            ELSE procs[b]])

----------------------------------------------------------------------------
(* syncHost.  syncMu is free exactly when sync = Free.                      *)

\* The host language, root and executable syncHost derives for a document.
KeyOf(e, u, text) ==
  [kind |-> KindOf(u, text), root |-> RootOf(e, u),
   path |-> Executable(e.settings, KindOf(u, text))]

\* The document goes to a backend, or deserves a warning why it does not.
Wanted(e, u, text) ==
  /\ KindOf(u, text) # NoKind
  /\ Executable(e.settings, KindOf(u, text)) # NoPath
  /\ Eligible(e, u, text)
  /\ ~Broken(e, u, text)

Warning(version) == [version |-> version, said |-> [what |-> "warning"]]

\* Mutant: the document is not looked up again.
HostFailureUnchecked(u, version) ==
  /\ host' = Put(host, u, Warning(version))
  /\ shown' = [shown EXCEPT ![u].host = {Warning(version).said}]
  /\ UNCHANGED <<docs, settings, folders, epoch, disk>>

\* server.hostFailure: one critical section of server.mu.
HostFailure(u, version) ==
  /\ host' = IF u \in DOMAIN docs /\ docs[u].version = version
             THEN Put(host, u, Warning(version)) ELSE host
  /\ UNCHANGED <<docs, settings, folders, epoch, disk>>
  /\ IF u \in DOMAIN docs /\ docs[u].version = version
     THEN Publish(u) ELSE UNCHANGED shown

Enter(u) ==
  [pc |-> IF Unprojectable(KindOf(u, docs[u].text), docs[u].text)
          THEN "warn" ELSE "backend",
   u |-> u, doc |-> docs[u], epoch |-> epoch,
   key |-> KeyOf(Env, u, docs[u].text), prior |-> {}, late |-> serving = "closed"]

\* Takes syncMu, snapshots the document and the settings, and returns at once
\* when there is nothing to validate.
SyncBegin(u) ==
  /\ sync = Free /\ syncs[u] > 0
  /\ syncs' = [syncs EXCEPT ![u] = @ - 1]
  /\ sync' = IF u \in DOMAIN docs /\ Wanted(Env, u, docs[u].text)
             THEN Enter(u) ELSE Free
  /\ UNCHANGED <<board, routes, backends, procs, closes, reconfs, reports, serving>>

\* An unsafe projection, or a backend that did not start: warn and return.
SyncWarn ==
  /\ sync # Free /\ sync.pc = "warn"
  /\ HostFailure(sync.u, sync.doc.version)
  /\ sync' = Free
  /\ UNCHANGED <<routes, backends, procs, waiting>>

SyncReuseBackend ==
  /\ sync # Free /\ sync.pc = "backend"
  /\ sync.key \in DOMAIN backends
  /\ sync' = [sync EXCEPT !.pc = "register"]
  /\ UNCHANGED <<board, routes, backends, procs, waiting>>

\* The process gets the settings of the snapshot, whatever they are by now.
SyncStartBackend(b) ==
  /\ sync # Free /\ sync.pc = "backend"
  /\ sync.key \notin DOMAIN backends
  /\ b \notin DOMAIN procs
  /\ procs' = Put(procs, b, [key |-> sync.key, epoch |-> sync.epoch,
                             late |-> sync.late, status |-> "running",
                             opened |-> {}, out |-> <<>>])
  /\ backends' = Put(backends, sync.key, b)
  /\ sync' = [sync EXCEPT !.pc = "register"]
  /\ UNCHANGED <<board, routes, waiting>>

SyncStartFails ==
  /\ sync # Free /\ sync.pc = "backend"
  /\ sync.key \notin DOMAIN backends
  /\ sync' = [sync EXCEPT !.pc = "warn"]
  /\ UNCHANGED <<board, routes, backends, procs, waiting>>

\* Mutant: the URI names the version to come.
GeneratedForNext(frame) ==
  [source |-> frame.u, version |-> frame.doc.version + 1, kind |-> frame.key.kind]

GeneratedFor(frame) ==
  [source |-> frame.u, version |-> frame.doc.version, kind |-> frame.key.kind]

\* Mutant: only the route of the same version is taken for a prior one.
PriorRoutesOfVersion(u, key) ==
  {g \in DOMAIN routes : routes[g].source = u /\ routes[g].key = key
                         /\ u \in DOMAIN docs /\ g.version = docs[u].version}

\* Routes of the same document to the same backend.
PriorRoutes(u, key) ==
  {g \in DOMAIN routes : routes[g].source = u /\ routes[g].key = key}

\* The snapshot may be out of date by now: the document is then left to the
\* goroutine that its change has spawned.
SyncRegister ==
  /\ sync # Free /\ sync.pc = "register"
  /\ IF /\ sync.u \in DOMAIN docs
        /\ docs[sync.u].version = sync.doc.version
        /\ epoch = sync.epoch
     THEN /\ routes' = Put(DeleteAll(routes, PriorRoutes(sync.u, sync.key)),
                           GeneratedFor(sync),
                           [source |-> sync.u, version |-> sync.doc.version,
                            epoch |-> sync.epoch, kind |-> sync.key.kind,
                            key |-> sync.key])
          /\ \E prior \in SUBSET PriorRoutes(sync.u, sync.key) :
               /\ Cardinality(prior) <= 1
               /\ prior = {} => PriorRoutes(sync.u, sync.key) = {}
               /\ sync' = [sync EXCEPT !.pc = "send", !.prior = prior]
     ELSE routes' = routes /\ sync' = Free
  /\ UNCHANGED <<board, backends, procs, waiting>>

Unopened(opened, uris) == {held \in opened : held.uri \notin uris}

\* Mutant: the prior URI is not closed.
SyncSendLeaking ==
  /\ sync # Free /\ sync.pc = "send"
  /\ procs' = [procs EXCEPT ![backends[sync.key]].opened =
                 Unopened(@, {GeneratedFor(sync)}) \cup
                 {[uri |-> GeneratedFor(sync), text |-> sync.doc.text]}]
  /\ sync' = Free
  /\ UNCHANGED <<board, routes, backends, waiting>>

\* didClose of the prior URI, then didOpen, or didChange if the URI is still
\* open there: either way the process then holds the text of the snapshot.  A
\* pipe that has just broken may still take the message.
SyncSend ==
  /\ sync # Free /\ sync.pc = "send"
  /\ procs[backends[sync.key]].status \in {"running", "crashed"}
  /\ procs' = [procs EXCEPT ![backends[sync.key]].opened =
                 Unopened(@, sync.prior \cup {GeneratedFor(sync)}) \cup
                 {[uri |-> GeneratedFor(sync), text |-> sync.doc.text]}]
  /\ sync' = Free
  /\ UNCHANGED <<board, routes, backends, waiting>>

\* Mutant: the process is forgotten without being stopped.
SyncSendFailsUnstopped ==
  /\ sync # Free /\ sync.pc = "send"
  /\ procs[backends[sync.key]].status = "crashed"
  /\ HostFailure(sync.u, sync.doc.version)
  /\ backends' = Delete(backends, sync.key)
  /\ sync' = Free
  /\ UNCHANGED <<routes, procs, waiting>>

\* The connection is broken, or closed.  The routes to that backend stay.
SyncSendFails ==
  /\ sync # Free /\ sync.pc = "send"
  /\ procs[backends[sync.key]].status # "running"
  /\ HostFailure(sync.u, sync.doc.version)
  /\ backends' = Delete(backends, sync.key)
  /\ procs' = AfterStopping({backends[sync.key]})
  /\ sync' = Free
  /\ UNCHANGED <<routes, waiting>>

----------------------------------------------------------------------------
(* The other goroutines that take syncMu.                                   *)

\* Mutant: the route of a backend that is gone is left.
CloseHostOfBackend(u) ==
  LET Mine == {g \in DOMAIN routes :
                 routes[g].source = u /\ routes[g].key \in DOMAIN backends}
  IN /\ sync = Free /\ closes[u] > 0
     /\ closes' = [closes EXCEPT ![u] = @ - 1]
     /\ \/ /\ u \in DOMAIN docs \/ Mine = {}
           /\ UNCHANGED <<routes, procs>>
        \/ /\ u \notin DOMAIN docs
           /\ \E g \in Mine :
                /\ routes' = Delete(routes, g)
                /\ procs' = [procs EXCEPT ![backends[routes[g].key]].opened =
                               Unopened(@, {g})]
     /\ UNCHANGED <<board, sync, backends, syncs, reconfs, reports, serving>>

\* Mutant: the backend is not told.
CloseHostSilently(u) ==
  LET Mine == {g \in DOMAIN routes : routes[g].source = u}
  IN /\ sync = Free /\ closes[u] > 0
     /\ closes' = [closes EXCEPT ![u] = @ - 1]
     /\ routes' \in IF u \in DOMAIN docs \/ Mine = {} THEN {routes}
                    ELSE {Delete(routes, g) : g \in Mine}
     /\ UNCHANGED <<board, sync, backends, procs, syncs, reconfs, reports, serving>>

\* closeHost gives up if the document is open again; otherwise it deletes the
\* first route the iteration meets, and only that one.
CloseHost(u) ==
  LET Mine == {g \in DOMAIN routes : routes[g].source = u}
  IN /\ sync = Free /\ closes[u] > 0
     /\ closes' = [closes EXCEPT ![u] = @ - 1]
     /\ \/ /\ u \in DOMAIN docs \/ Mine = {}
           /\ UNCHANGED <<routes, procs>>
        \/ /\ u \notin DOMAIN docs
           /\ \E g \in Mine :
                /\ routes' = Delete(routes, g)
                /\ procs' = IF routes[g].key \in DOMAIN backends
                            THEN [procs EXCEPT ![backends[routes[g].key]].opened =
                                    Unopened(@, {g})]
                            ELSE procs
     /\ UNCHANGED <<board, sync, backends, syncs, reconfs, reports, serving>>

\* Mutant: the routes stay.
ReconfigureKeepingRoutes ==
  /\ sync = Free /\ reconfs > 0
  /\ reconfs' = reconfs - 1
  /\ procs' = AfterStopping(Range(backends))
  /\ backends' = EmptyMap
  /\ syncs' = [u \in Docs |-> IF u \in DOMAIN docs THEN syncs[u] + 1 ELSE syncs[u]]
  /\ UNCHANGED <<board, routes, sync, closes, reports, serving>>

\* Mutant: syncMu is not taken.
ReconfigureUnlocked ==
  /\ reconfs > 0 /\ (sync # Free => sync.pc = "backend")
  /\ reconfs' = reconfs - 1
  /\ procs' = AfterStopping(Range(backends))
  /\ backends' = EmptyMap
  /\ routes' = EmptyMap
  /\ syncs' = [u \in Docs |-> IF u \in DOMAIN docs THEN syncs[u] + 1 ELSE syncs[u]]
  /\ UNCHANGED <<board, sync, closes, reports, serving>>

\* Stops every backend, forgets every route, and spawns a syncHost for every
\* document open at that time.
ReconfigureBackends ==
  /\ sync = Free /\ reconfs > 0
  /\ reconfs' = reconfs - 1
  /\ procs' = AfterStopping(Range(backends))
  /\ backends' = EmptyMap
  /\ routes' = EmptyMap
  /\ syncs' = [u \in Docs |-> IF u \in DOMAIN docs THEN syncs[u] + 1 ELSE syncs[u]]
  /\ UNCHANGED <<board, sync, closes, reports, serving>>

\* server.backends is left as it is: a stopped process keeps its place.  A watcher
\* that found its process crashed before stop was called still wants syncMu.
AfterClosing(closed, watchers) ==
  [b \in DOMAIN procs |->
     IF b \in closed
     THEN [procs[b] EXCEPT !.opened = {},
                           !.status = IF b \in watchers THEN "watched" ELSE "closed"]
     ELSE procs[b]]

Crashed == {b \in DOMAIN procs : procs[b].status = "crashed"}

\* Mutant: it waits until the backends have no document left.
CloseBackendsWithoutRoutes ==
  /\ sync = Free /\ serving = "exiting"
  /\ routes = EmptyMap
  /\ \E watchers \in SUBSET Crashed : procs' = AfterClosing(Range(backends), watchers)
  /\ serving' = "closed"
  /\ UNCHANGED <<board, routes, sync, backends, syncs, closes, reconfs, reports>>

\* Mutant: syncMu is not taken.
CloseBackendsUnlocked ==
  /\ serving = "exiting" /\ (sync # Free => sync.pc = "backend")
  /\ \E watchers \in SUBSET Crashed : procs' = AfterClosing(Range(backends), watchers)
  /\ serving' = "closed"
  /\ UNCHANGED <<board, routes, sync, backends, syncs, closes, reconfs, reports>>

\* Mutant: only the processes that still run are stopped and waited for.
CloseRunningBackends ==
  /\ sync = Free /\ serving = "exiting"
  /\ procs' = AfterClosing(Range(backends) \ Crashed, {})
  /\ serving' = "closed"
  /\ UNCHANGED <<board, routes, sync, backends, syncs, closes, reconfs, reports>>

\* closeBackends stops what it finds and gives syncMu up again: whichever
\* goroutine still waits goes on, until the program is over.
CloseBackends ==
  /\ sync = Free /\ serving = "exiting"
  /\ \E watchers \in SUBSET Crashed : procs' = AfterClosing(Range(backends), watchers)
  /\ serving' = "closed"
  /\ UNCHANGED <<board, routes, sync, backends, syncs, closes, reconfs, reports>>

\* Serve and main return, at any point of what the goroutines do.
End ==
  /\ serving = "closed"
  /\ serving' = "ended"
  /\ UNCHANGED <<board, routes, sync, backends, procs, syncs, closes, reconfs, reports>>

\* Mutant: nobody is warned.
WatchBackendQuietly(b) ==
  LET Lost == {g \in DOMAIN routes : routes[g].key = procs[b].key}
  IN /\ sync = Free
     /\ b \in DOMAIN procs /\ procs[b].status \in {"crashed", "watched"}
     /\ procs[b].key \in DOMAIN backends /\ backends[procs[b].key] = b
     /\ backends' = Delete(backends, procs[b].key)
     /\ routes' = DeleteAll(routes, Lost)
     /\ procs' = AfterStopping({b})
     /\ UNCHANGED <<board, sync, syncs, closes, reconfs, reports, serving>>

\* The watcher of a process whose connection is done.  It does nothing for one
\* that was stopped on purpose before it looked; otherwise it withdraws the
\* backend's routes and goes on, without the locks, to warn about the documents
\* behind them.
WatchBackend(b) ==
  LET Lost == {g \in DOMAIN routes : routes[g].key = procs[b].key}
  IN /\ sync = Free
     /\ b \in DOMAIN procs /\ procs[b].status \in {"crashed", "watched"}
     /\ procs[b].key \in DOMAIN backends /\ backends[procs[b].key] = b
     /\ backends' = Delete(backends, procs[b].key)
     /\ routes' = DeleteAll(routes, Lost)
     /\ reports' = reports \cup {<<routes[g].source, routes[g].version>> : g \in Lost}
     /\ procs' = AfterStopping({b})
     /\ UNCHANGED <<board, sync, syncs, closes, reconfs, serving>>

ReportLoss(r) ==
  /\ r \in reports
  /\ reports' = reports \ {r}
  /\ HostFailure(r[1], r[2])
  /\ UNCHANGED <<routes, sync, backends, procs, syncs, closes, reconfs, serving>>

----------------------------------------------------------------------------
(* The backends: other people's programs, known only by what they send.     *)

\* The process diagnoses a document it holds; its answer is on its way.
Analyse(b) ==
  /\ b \in DOMAIN procs /\ procs[b].status = "running"
  /\ Len(procs[b].out) < MaxOut
  /\ \E held \in procs[b].opened :
       procs' = [procs EXCEPT ![b].out = Append(@, held)]
  /\ UNCHANGED <<board, routes, sync, backends, waiting>>

\* The process dies, or its pipe breaks.
Crash(b) ==
  /\ b \in DOMAIN procs /\ procs[b].status = "running"
  /\ procs' = [procs EXCEPT ![b].status = "crashed"]
  /\ UNCHANGED <<board, routes, sync, backends, waiting>>

\* What a dead process had sent may be lost, but need not be.
LoseResults(b) ==
  /\ b \in DOMAIN procs /\ procs[b].status # "running"
  /\ procs[b].out # <<>>
  /\ procs' = Reaped([procs EXCEPT ![b].out = <<>>])
  /\ UNCHANGED <<board, routes, sync, backends, waiting>>

\* Mutant: the version of the open document is not compared.
AcceptsAnyVersion(b, m, version) ==
  /\ m.uri \in DOMAIN routes
  /\ LET r == routes[m.uri]
     IN /\ r.epoch = epoch
        /\ r.kind = procs[b].key.kind
        /\ version \in {0, r.version}
        /\ r.source \in DOMAIN docs

\* backendClient.PublishDiagnostics' checks: the URI is routed, under the
\* present epoch, to a document still at the version the URI names.  A server
\* may leave the version out (0).
Accepts(b, m, version) ==
  /\ m.uri \in DOMAIN routes
  /\ LET r == routes[m.uri]
     IN /\ r.epoch = epoch
        /\ r.kind = procs[b].key.kind
        /\ version \in {0, r.version}
        /\ r.source \in DOMAIN docs
        /\ docs[r.source].version = r.version

PublishDiagnostics(b) ==
  /\ b \in DOMAIN procs /\ procs[b].out # <<>>
  /\ procs' = Reaped([procs EXCEPT ![b].out = Tail(@)])
  /\ LET m == Head(procs[b].out)
     IN \E version \in {0, m.uri.version} :
          IF Accepts(b, m, version)
          THEN LET r == routes[m.uri]
               IN /\ host' = Put(host, r.source,
                                 [version |-> docs[r.source].version,
                                  said |-> [what |-> "result", text |-> m.text,
                                            epoch |-> procs[b].epoch]])
                  /\ UNCHANGED <<docs, settings, folders, epoch, disk>>
                  /\ Publish(r.source)
          ELSE UNCHANGED board
  /\ UNCHANGED <<routes, sync, backends, waiting>>

\* Someone writes plato.yaml, or installs ShellCheck.
DiskChange(d) ==
  /\ d # disk
  /\ disk' = d
  /\ UNCHANGED <<docs, host, settings, folders, epoch, shown, routes, sync,
                 backends, procs, waiting>>
----------------------------------------------------------------------------
Init ==
  /\ docs = EmptyMap /\ host = EmptyMap /\ routes = EmptyMap
  /\ settings = InitSettings /\ folders = InitFolders /\ epoch = 0
  /\ disk = InitDisk
  /\ shown = [u \in Docs |-> NoView]
  /\ sync = Free /\ backends = EmptyMap /\ procs = EmptyMap
  /\ syncs = [u \in Docs |-> 0] /\ closes = [u \in Docs |-> 0]
  /\ reconfs = 0 /\ reports = {} /\ serving = "serving"

\* Messages are handled one after the other: none is left when the connection
\* ends, and a client sends none after exit.
Editor ==
  /\ serving = "serving"
  /\ \/ \E u \in Docs : \E edit \in Edits(u) : ClientOpens(u) /\ DidOpen(u, edit)
     \/ \E u \in Docs : \E edit \in Edits(u) : DidChange(u, edit)
     \/ \E u \in Docs : DidSave(u)
     \/ \E u \in Docs : ClientCloses(u) /\ DidClose(u)
     \/ \E s \in Settings : DidChangeConfiguration(s)
     \/ \E f \in Folders : DidChangeWorkspaceFolders(f)
     \/ Exit

\* The steps of the goroutine that holds syncMu.
Holder ==
  \/ SyncWarn
  \/ SyncReuseBackend
  \/ \E b \in Backends : SyncStartBackend(b)
  \/ SyncStartFails
  \/ SyncRegister
  \/ SyncSend
  \/ SyncSendFails

\* The steps that begin with taking syncMu.
Acquire ==
  \/ \E u \in Docs : SyncBegin(u)
  \/ \E u \in Docs : CloseHost(u)
  \/ ReconfigureBackends
  \/ \E b \in Backends : WatchBackend(b)
  \/ CloseBackends

Environment ==
  \/ \E b \in Backends : Analyse(b)
  \/ \E b \in Backends : Crash(b)
  \/ \E b \in Backends : LoseResults(b)
  \/ \E b \in Backends : PublishDiagnostics(b)
  \/ \E d \in Disks : DiskChange(d)

Ended == serving = "ended" /\ UNCHANGED vars

Next ==
  \/ /\ serving # "ended"
     /\ \/ Editor
        \/ Holder
        \/ Acquire
        \/ \E r \in reports : ReportLoss(r)
        \/ End
        \/ Environment
  \/ Ended

\* Calls on behalf of the holder of syncMu return: startBackend within its ten
\* seconds, a write because the pipe is read or broken.  Go's mutexes hand over
\* to a goroutine that has waited a millisecond, so none waits for ever.  Nothing
\* holds main up once closeBackends has returned.
Fairness ==
  /\ WF_vars(Holder)
  /\ \A u \in Docs : SF_vars(SyncBegin(u)) /\ SF_vars(CloseHost(u))
  /\ SF_vars(ReconfigureBackends) /\ SF_vars(CloseBackends) /\ WF_vars(End)
  /\ \A b \in Backends : SF_vars(WatchBackend(b))
  /\ \A u \in Docs, version \in Versions : WF_vars(ReportLoss(<<u, version>>))

Spec == Init /\ [][Next]_vars /\ Fairness

----------------------------------------------------------------------------
(* Safety.                                                                  *)

\* After didClose nothing is shown for a document until it is opened again:
\* no late result and no late failure brings diagnostics back
\* (PublishDiagnostics and hostFailure both look the document up under mu).
ClosedIsSilent ==
  \A u \in Docs \ DOMAIN docs : shown[u] = NoView /\ u \notin DOMAIN host

\* What the editor last received is what the server's state says now: every
\* change of the document, the settings, the folders or the backend's
\* diagnostics is published in the critical section that makes it.  (The file
\* system is not watched, so this is about a disk that does not change.)
ShownIsCurrent ==
  \A u \in DOMAIN docs : shown[u] = View(Env, u, docs[u], host)

\* The remembered backend diagnostics are those of the open version.
HostIsCurrent ==
  \A u \in DOMAIN host : u \in DOMAIN docs /\ host[u].version = docs[u].version

\* A backend started for settings that have since changed is only in use while
\* a reconfigureBackends is still to come.
BackendsAreCurrent ==
  reconfs = 0 => \A k \in DOMAIN backends : procs[backends[k]].epoch = epoch

\* So is a route registered under an earlier epoch.
RoutesAreCurrent ==
  reconfs = 0 => \A g \in DOMAIN routes : routes[g].epoch = epoch

\* No child process is leaked: one that nobody has stopped is the one that
\* server.backends has for its key.
NoStrayProcess ==
  \A b \in DOMAIN procs : procs[b].status # "stopped" =>
     procs[b].key \in DOMAIN backends /\ backends[procs[b].key] = b

\* Whatever was being started, had failed or had crashed when the server was told
\* to exit, closeBackends leaves no child behind; the only ones that can run after
\* it belong to a syncHost that was still waiting for syncMu, and took it later.
NoneLeftBehind ==
  serving \in {"closed", "ended"} =>
    \A b \in DOMAIN procs : procs[b].status \in {"running", "crashed"} => procs[b].late

\* A document has one route to a given backend.
OneRoutePerBackend ==
  \A g, h \in DOMAIN routes :
     routes[g].source = routes[h].source /\ routes[g].key = routes[h].key => g = h

\* Whatever a backend in use holds open is routed to it, so it will be told to
\* close it: versions of a document do not pile up in the backend.
OpenedIsRouted ==
  reconfs = 0 =>
    \A k \in DOMAIN backends : \A held \in procs[backends[k]].opened :
       \/ held.uri \in DOMAIN routes /\ routes[held.uri].key = k
       \/ /\ sync # Free /\ sync.pc = "send"
          /\ sync.key = k /\ held.uri \in sync.prior

\* The text behind a shown result is the open text, if the editor never gives
\* one version number to two texts of one document: URIs name versions only.
ResultIsForText ==
  \A u \in DOMAIN host : host[u].said.what = "result" =>
     host[u].said.text = docs[u].text

\* README.md says of excluded documents that nothing is published for them.
ExcludedIsSilent ==
  \A u \in DOMAIN docs : ~Eligible(Env, u, docs[u].text) =>
     shown[u].local = {} /\ shown[u].host = {}

\* README.md says that stale results are discarded.  Once the backends have been
\* reconfigured, a shown result comes from one started for the settings in force.
ResultIsForSettings ==
  reconfs = 0 => \A u \in DOMAIN host : host[u].said.what = "result" =>
                   host[u].said.epoch = epoch

----------------------------------------------------------------------------
(* Liveness.                                                                *)

\* The document is open and a backend is to validate its text.
Presented(u) ==
  /\ serving # "ended"
  /\ u \in DOMAIN docs /\ Wanted(Env, u, docs[u].text)

\* A backend holds its present version, routed under the present settings, or the
\* editor has been shown a result or a warning for it.
Handled(u) ==
  \/ u \in DOMAIN host
  \/ \E g \in DOMAIN routes :
       /\ routes[g].source = u /\ routes[g].epoch = epoch
       /\ u \in DOMAIN docs /\ routes[g].version = docs[u].version
       /\ routes[g].key \in DOMAIN backends
       /\ \E held \in procs[backends[routes[g].key]].opened : held.uri = g

\* No document is forgotten: whichever goroutine gets syncMu first, and
\* whatever changes in between, a document that stays open is handled at its
\* version, again after every edit, every reconfiguration and every loss of a
\* backend.  It is true of a document that shares its backends with no other.
EventuallyHandled ==
  \A u \in Docs : (Presented(u) /\ ~Handled(u)) ~> (Handled(u) \/ ~Presented(u))

\* A document that stays closed ends up with no route, so the backend has been
\* told to close it or has been stopped.
EventuallyUnrouted ==
  \A u \in Docs : (u \notin DOMAIN docs) ~>
     \/ u \in DOMAIN docs \/ serving = "ended"
     \/ \A g \in DOMAIN routes : routes[g].source # u

\* The server stops when told to, however busy the goroutines keep syncMu.
EventuallyEnded == (serving = "exiting") ~> (serving = "ended")
=============================================================================
