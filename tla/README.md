# A verification project for plato-ls (helm-ls fork)

The repository holds two language servers. `plato-ls serve` is the one that
runs: `internal/plato`, about 1200 lines of Go, with template diagnostics of its
own and optional YAML and Bash language servers ("backends") behind it. It
reads templates with a parser of its own, 11 000 lines of C that tree-sitter has
generated. Around it lies the Helm LS it was forked from, still compiled and
tested but not reachable from `serve` (README.md:139-140 of the repository).
This project models the first two in depth and has begun on the third.

Contents: [parts](#the-system) · [modules](#modules) · [runs](#runs) ·
[bounds](#bounds) · [fairness](#fairness) · [findings](#findings) ·
[proofs](#proofs) · [what is left out](#not-modelled) · [plan](#plan).

## The system

### plato-ls

| Part | State | Operations | Correct when |
| --- | --- | --- | --- |
| Server (`server.go`) | `docs`, `host`, `routes`, `settings`, `folders`, `epoch`, all under `mu` | LSP notifications; `publish`, `republish`; each spawns a goroutine: `syncHost`, `closeHost`, `reconfigureBackends` | the editor is shown what the state says; nothing for closed documents; no diagnostics of old texts or old settings |
| Backends (`backend.go`) | `backends`, each with a process and its `opened` URIs, used under `syncMu` | start, stop, `didOpen`/`didChange`/`didClose` of projections, watch for the end of the process, accept results | no process and no virtual document is leaked; only the answer to the present question is accepted; every document is handled or its author told why not |
| Workspace (`workspace.go`) | none; reads `plato.yaml` | `forFile`: root, source tree, settings of a document; `eligible` | a document belongs to the project of its innermost folder, whatever the order of folders |
| Projection (`projection.go`, `syntax.go`, `parser.go`) | none | mask the template actions, map a backend's range back | a diagnostic shown is about text the author wrote, at its place; none that could be shown is withheld |
| Plato parser (`tree-sitter/plato/parser.c`, `templateRegions` in `parser.go`) | the lexer's automaton, the stack of parse states | one character, one token, shift, reduce, accept | what `text/template` accepts is read as it reads it: literal text is text, control flow is seen, nothing is an error |
| Lifecycle (`Serve`, `cmds/serve.go`) | the connection, the exit signal | `exit`, end of the stream, `closeBackends` | the server stops when told to and leaves no child behind |

How they interact. An editor notification takes `mu`, changes `docs`,
`settings` or `folders`, publishes, and ends with a `go` statement. The
goroutines queue for `syncMu`, in no particular order, and hold it for as long
as they talk to backends. `syncHost` takes a snapshot under `mu`, gives `mu` up
while it projects the document and starts a backend (up to ten seconds), and
takes it again to register the route `virtual URI -> document`. A backend's
`publishDiagnostics` arrives on that backend's connection, takes `mu` only, and
is accepted if its URI is still routed, under the present epoch, to a document
at the version the URI names. A process that dies wakes `watchBackend`, which
withdraws its routes under both locks and then, without them, warns about the
documents that were behind them. A projection is made only of documents in which
`text/template` finds no error; the Plato parser then says which bytes are
literal and whether there is control flow, and a backend is shown the rest as
blanks.

What is hard: state read under `mu` and used after it has been given up;
results of an older version, older settings or an earlier incarnation of a
document; goroutines that run in another order than the notifications that
spawned them; processes that fail to start, break while written to, or die at
any time; shutting down amid all that; UTF-16 columns against byte offsets; two
grammars, of `text/template` and of tree-sitter, that have to agree.

### Helm LS, inherited

| Part | State | Operations | Correct when |
| --- | --- | --- | --- |
| JSON schema cache (`jsonschema`) | cache, singleflight group, schema files | `GetJSONSchemaForChart`, recursive over related charts, one goroutine each | every request is answered, with a current file whose references exist |
| Document store and handlers (`lsp/document`, `handler`) | documents, loaded in the background and opened by the editor | didOpen, didChange, save, watched files, configuration | an open document is never overwritten by what is on disk |
| yaml-language-server connector (`adapter/yamlls`, `diagnostics_cache.go`) | process, connection, last diagnostics | document sync, merging and throttling of diagnostics | diagnostics shown are a merge of the latest of both sources |
| Chart store (`charts`) | charts by URI, values files | load with dependencies and callbacks, scoping of values | parents and dependencies found whatever is loaded first |
| Symbol table (`lsp/symboltable`) | per document | visitor with a stack of template contexts | the stack balances; each name resolves to the enclosing scope |
| Features, documentation, lint, utilities, the inherited template grammar | none | look-ups, formatting | not modelled |

## Modules

| Module | Models |
| --- | --- |
| `GoMap` | a Go map with few keys: `Put`, `Delete`, `DeleteAll`, `Restrict` |
| `HostSync` | server, backends and lifecycle of plato-ls |
| `DiagnosticsBoard` | the abstract promise: what may be on display for a document, and when |
| `HostSyncBoard` | `HostSync` implements `DiagnosticsBoard` (refinement mapping) |
| `Workspace` | `forFile`, `eligible`, and the folder list under its notifications |
| `Projection` | `makeProjection`'s masking, positions, `mapDiagnostic` |
| `CharacterSet` | `set_contains`, the lexer's search in a table of character ranges |
| `PlatoLexer` | `ts_lex`: the automaton, as tables of moves |
| `PlatoTables` | the parse tables: lexer modes, shifts, reductions, gotos |
| `TextTemplate` | documents that Go's `text/template` accepts, as a writer of them |
| `PlatoParser` | lexer and tables as the runtime drives them, composed with `TextTemplate` |
| `PlatoStacks` | what may lie on the parser's stack: the grammar's items, and what the tables have to be for them |
| `SchemaCache` | the inherited JSON schema cache |
| `MC...` | small instances for TLC |
| `DataTheorems` | lemmas on data: maps, naturals, sequences, the folds and `FlattenSeq` of the community modules |
| `HostSyncProofs`, `HostSyncSafetyProofs`, `HostSyncBoardProofs`, `WorkspaceProofs`, `ProjectionProofs`, `SchemaCacheProofs` | the theorems about the modules they are named after |
| `PlatoProofs` | the theorems about `CharacterSet`, `PlatoParser` and `PlatoStacks` |

An operator whose comment begins with `Mutant:` is a plausible mistake in the
code, in the shape of the definition after it; no specification uses it. For
each property there is one with which TLC finds the property violated.

### HostSync

Names are the code's. A critical section of `mu` is one action, because no other
code can see its middle; the `go` statement at its end increments a counter of
waiting goroutines (`syncs`, `closes`, `reconfs`), which makes their order
unspecified, as it is in Go. `sync` is the stack frame of the `syncHost` that
holds `syncMu` (`Free` when the lock is free), and its `pc` is where the code
gives up `mu`: `SyncBegin` (snapshot), `SyncReuseBackend` / `SyncStartBackend` /
`SyncStartFails`, `SyncRegister` (which looks again whether the document and
the epoch are the same), `SyncSend` / `SyncSendFails`, `SyncWarn`. `closeHost`,
`reconfigureBackends` and `closeBackends` hold `syncMu` for one short section
each and are one action each; `watchBackend` is `WatchBackend`, and one
`ReportLoss` for each warning it gives after its unlock. `closeBackends` stops
the processes it finds, leaves the map as it is and gives `syncMu` up again
(`CloseBackends`); `Serve` and `main` return at some later moment (`End`), and
until then every goroutine goes on: a `syncHost` that was waiting may find its
backend closed, or start one (its frame and its process are then `late`).
`Analyse`, `Crash`,
`LoseResults` and `DiskChange` are the world: a backend may answer what it has
open, late, more than once, with or without a version, or never.

Some fields are ghosts: `said.text`/`said.epoch` of a displayed result and
`epoch` of a process record from which text and settings it came, `late` whether
a `syncHost` took `syncMu` after `closeBackends` had. The code keeps none of
them; properties compare the first with what is open now, and `NoneLeftBehind`
needs the last to say which processes `closeBackends` should have found.

Abstractions, all in `HostSync`:
- what a name, a text and a workspace imply (`hostForFile`, `forFile`,
  `eligible`, `syntaxDiagnostics`, `makeProjection`) are CONSTANT operators;
  `OperatorAssumption` states what is used of them;
- the disk is one value, read at the snapshot; it may change at any time;
- publishing to the editor always succeeds, and notifications are handled in
  the order the editor sends them (jsonrpc2 handles them one at a time);
- `reports` is a set: two equal pending warnings are one;
- closing and opening the URIs of a document in one backend is one step, as the
  backend reads them from one pipe;
- a stopped process is forgotten once nothing it sent is on its way, so that
  its identity can be used again;
- the editor sends nothing after `exit` or the end of its stream.

### DiagnosticsBoard

A board with one entry per document. An entry is written only for the document
as it is open now, under the rules in force now; new text and new rules take
the backend's part off the board at once; a closed document has an empty entry.
`KeepsBoard` says that `HostSync`, with goroutines, processes and locks hidden,
does nothing else.

### Workspace

A path is a sequence of names. `folders` is the slice the code edits in place,
`client` the editor's own list, so `FoldersAreTheClients` compares the two after
any sequence of events that remove and add several folders at once. `ForFile`
follows `forFile` line by line: longest folder, upward search for `plato.yaml`,
`configPath`, defaults. `PathAssumption` and `SettingsAssumption` say what paths
and settings are: a file has a name, an option is a path or absent. Not
modelled: `parseSettings`; patterns of `excludedPaths` (a set of names stands for
what they match); a `source` that is absolute or leads upwards (`..`). One thing the model made visible: a `source` in the settings alone
(no `root`) is enough to do without a `plato.yaml`; `RealProject` therefore
excepts it.

### Projection

A document is a sequence of runes, each in a literal or in an action, of five
kinds: one byte; four bytes and two UTF-16 units; a line end; the first
rune of a schema selector; and a literal brace. `templateRegions` makes one span
of each text token, and the generated lexer ends a text token at every brace and
makes a token of each brace that opens no action (`parser.c:2176-2197`): so
`Literals` are the runs of text between braces, and each brace alone. A
diagnostic must lie in one span, so one whose range has a literal brace in it,
in a YAML flow mapping or a shell's `${x}`, is withheld, and `NothingLost` is
about ranges of one token. The tree-sitter parse and the regular expressions are
inputs (`part`, `unstable`, `block`, the `$` rune), and the placeholders `x` and
`_` count as blanks. The behaviour only types documents; the operators are the
algorithm. `Ranges` are all ranges a backend may report, reversed ones and ones
past the end of a line included.

### Plato parser

`parser.c` has two halves: `ts_lex`, a function of 203 cases, and tables for
366 parse states. `PlatoLexer` gives each case the characters it moves on and
the case each leads to; cases that differ in a few characters are written as one
table with an exception. `PlatoTables` gives each parse state its lexer mode, the
tokens it shifts and on which it reduces, its production and its gotos; here too
states with the same row share it. Both were compared with the C source, row by
row, by a script. `CharacterSet` is the loop of `set_contains`, one step for each
halving. `PlatoParser` drives them: `MoveOn`, `SkipSpace` and `AskClass` are one
round of `ts_lex`, `EndToken` is what the runtime does when no move is left,
`Shift`, `Reduce`, `Accept` and `Fail` are the parser's actions. What
`templateRegions` takes from the tree is in the state: which tokens are literal
text, and whether a node of control flow has been built (`unstable`).

`TextTemplate` is the other side. `syntaxDiagnostics` reports a document that
`text/template` refuses and nothing is projected then, so the documents that
matter are those it accepts. The module writes them, piece by piece, whenever
the lexer asks for more: text, pipelines, comments, blocks with their clauses,
each character marked as literal or as part of an action. Only what is not read
yet is in the state, and it is forgotten once it is, so a run is about documents
of every length: TLC stops when no new combination of automaton, stack and open
blocks appears. That holds because what a parser of this kind knows of the past
is its stack.

The grammar is ambiguous after an `else`, and there tree-sitter goes on with two
versions of the stack. The model follows one, any of them, and `misread` counts
where it takes a branch that the document does not. A version that misreads may
still reach the end: the last of `{{{if x}}}{{{else if x}}}{{{else}}}{{{end}}}`
can be read as a call of a function `else` inside the second clause. It loses,
because each clause has a dynamic precedence that the right reading collects:
`PreferredReading`. The dialects in `MCPlato` say what documents are made of, and
how many misreadings a version is followed through.

The runtime reduces without looking: it pops as many states as the production
has children and asks the state below for a goto. `PlatoStacks` says why it may.
A state stands for what has been read of some symbols, one child or several
(`Items`: in 67 and 68 the left delimiter and the word of an `if_action` have
been read, in 245 and 248 its condition too). `Rooted` says of a whole stack that
each state has those children below it and, below them, a state with a goto for
the symbol; `Fits` says it of two neighbours only, which the tables can be asked
one row at a time. The facts about the tables (`LexerFits`, `WordsFit`,
`ItemsFit`, `TablesFit`, `ReductionsFit`, `ControlFits`) are assumptions of the
module without a parameter: they speak of 203 lexer states and 366 parse states
that are written down in the modules, and TLC computes each of them, for every
row, before the run `plato` begins. A changed table that did not satisfy one would
stop that run. `Items` itself is nothing the code has: it was read off the tables,
and a wrong entry would make one of these facts false.

External, and modelled from how this code relies on them: the tree-sitter
runtime (when it asks for a token, the mode it lexes in, shift and reduce, the
comparison of versions) and `text/template`. One document that Go parses and the
grammar refuses is left out of the pipelines: `{{{(x) y}}}`, which can only fail
when it is executed.

### SchemaCache

A call of `GetJSONSchemaForChart` is named by its stack: the request, and the
charts down to its own. `flights` is the singleflight group. A chart without a
cached schema is generated outside the group, which the code does and which
matters: it is why mutually related charts can be generated the first time. A
chart's successive values are numbered, and `Checksums` gives the Adler-32
checksum of each. The cache compares checksums, and file names are made of them,
so two values with one checksum (`x: 131` and `x: 212`) are one to the code: the
constant may give them, and the instance does. A schema cannot be made for a
chart in `Faulty` (`CreateFails`), and its file may fail to be written for one in
`Unwritable` (`WriteFails`): opened and cut short, or not opened at all, with
nothing cached and related charts not looked after. What a schema says is left
out but for the values it was made from and the files it refers to.

## Runs

All with `tlc -workers 2`; distinct states and time on two cores.

| Run | Configuration | States | Shows |
| --- | --- | --- | --- |
| `edits` | `HostSync_edits.cfg` | 235 000, 35 s | one document, three edits, two processes: closed documents stay silent, what is shown is current, results are for the open text, routes and opened documents agree; `KeepsBoard` with results arriving late |
| `two_documents` | `HostSync_two_documents.cfg` | 27 000, 35 s | two documents in one process: no stray process, none with old settings in use, nothing left open in a backend; the closed one does not stay routed |
| `shutdown` | `HostSync_shutdown.cfg` | 118 000, 110 s | exit at any moment: the server stops, `closeBackends` leaves no child of those it should find; a document alone in its backend is not forgotten; `KeepsBoard` with a script that loses its shebang, a text that cannot be projected, folder changes, a `plato.yaml` that comes and goes |
| `projection` | `Projection.cfg` | 32 000, 65 s | every document of four runes, every range |
| `workspace` | `Workspace.cfg` | 43 000, 50 s | nested folders, changing settings and `plato.yaml` files |
| `plato` | `Plato.cfg` | 6 280 000, 140 s | documents of every length, five dialects: text, operands and comments of many forms without blocks (`flat`); trim markers, raw names, variables, one block deep (`trimmed`); every block two deep (`nested`); clauses with one misreading, one deep with blocks after it (`clauses1`) and two deep (`clauses2`) |
| `schemas` | `SchemaCache_schemas.cfg` | 81 000, 65 s | two concurrent requests over a chart, whose file cannot always be written, and two subcharts, of which one is faulty and the other's values change twice, the first time with the same checksum |
| `schemas_hang`, `stale_text`, `stale_settings`, `excluded`, `forgotten` | as named | - | violated, see findings |

The properties are stated, each with the behaviour it is about, at the end of
their modules. In a word:

- `ClosedIsSilent`, `HostIsCurrent`, `ShownIsCurrent`, `ResultIsForText`,
  `KeepsBoard`: what the editor sees;
- `RoutesAreCurrent`, `BackendsAreCurrent`, `OneRoutePerBackend`,
  `OpenedIsRouted`, `NoStrayProcess`, `NoneLeftBehind`: what is behind it;
- `EventuallyHandled`, `EventuallyUnrouted`, `EventuallyEnded`,
  `AnsweredOneByOne`: that it gets there;
- `Attributable`, `RangeIsKept`, `NothingLost`: ranges, soundness and
  completeness;
- `LiteralsAreText`, `LiteralsAreKept`: exactly the literal text is text to the
  parser, which `Projection` takes for granted;
- `StructureIsSeen`: control flow is found when there is some, and only then;
- `ValidIsAccepted`, `BlocksAreRead`, `PreferredReading`: what `text/template`
  accepts is read to its end, with its blocks, and no other reading is chosen;
- `StackFits`: no reduction runs off the stack or into a state without a goto,
  and an accepted document leaves nothing on it;
- `MembershipIsExact`: the search answers what the table says;
- `FoldersAreTheClients`, `OrderIsIrrelevant`, `WithinFolder`, `RealProject`,
  `OneProjectPerTree`: projects;
- `RefsExist`, `AnswerIsFresh`: schemas.

Some hold under a condition, and say so: `ShownIsCurrent`, `OpenedIsRouted` and
the liveness properties are checked with a disk that does not change (the code
does not watch it); `ResultIsForText` with version numbers that are not reused
(`stale_text` shows the other case), which each document does for itself;
`EventuallyHandled` with one document (`forgotten` shows the other case);
`AnsweredOneByOne` with values that change only while every other schema is
current (`schemas_hang` shows the other case). `AnswerIsFresh` is about values
that change between requests. With values that change during one it does not
hold: the checksum is computed again when the entry is written (`cache.go:97`), so
a schema made from the values before is cached as that of the values after; and a
request that joins a flight is given what the flight had read. And it is about
checksums: a change that keeps the checksum is answered with the old schema for
as long as it does. The second half of `RefsExist` for answers given when no other
request is at work, because an entry is cached before the schemas it refers to
are made and a second request may see it.

`CHECK_DEADLOCK FALSE` is set where a behaviour may end: a document of `MaxLen`
runes, values at the last of their `Checksums`, settings that no longer change. `HostSync` checks
deadlock, with `Ended` as the one state in which nothing more happens, and
`PlatoParser` with `Finished`.

## Bounds

- `MaxEpoch = 1`: one change of settings or folders. Every comparison is "same
  epoch or not" and one change puts goroutines, routes, processes and results on
  both sides of it. `stale_text` needs none.
- `MaxPending = 1`: the editor sends no further notification for a document
  while a goroutine for it has not got the lock. `reconfigureBackends` may still
  add to the count, so two `syncHost` of one document do occur.
- `MaxOut`: one result in flight per process; 0 where no property needs
  results (`shutdown`, whose board is also checked in `edits`, with them, and
  `two_documents`).
- `Edits`: for each document its versions with their texts: three in `edits`, so
  that a result can be two versions late, the last of them broken; three in
  `shutdown`; one for each of two documents, with the same number.
- `Backends`: two identities where a late process can meet its successor; with
  one, a successor must wait until the predecessor is forgotten. Symmetric in
  `edits`, where no liveness is checked.
- `Closable`: in runs with two documents only one of them is ever closed.
- `Exits`: only `shutdown` has the editor leave.
- `MaxLen = 4`: one rune before, in and after an action, and a line end; or
  literal braces, one or two in a row, with text around them.
- `nesting`: blocks two deep have every kind of block, and every clause of one,
  inside every other; what the parser does one level further is decided by the
  same states, because a row depends on the innermost block and its clause.
  `misreadings`: one wrong turn in a document. `reopens`: whether more blocks are
  opened after it. The characters are ASCII, and `MCPlato` cuts the class tables
  there, keeping one range beyond.
- `MaxFolders = 2`: one folder inside another, and one beside.
- `Checksums`, `Calm`: values change between requests, twice those of the
  subchart (the first change keeps the checksum) and in `schemas_hang` once those
  of its parent. `Unwritable`: the parent, in `schemas`; each write may fail or
  succeed.

## Fairness

- `WF(Holder)`: the goroutine that holds `syncMu` goes on. Each of its calls
  returns: `startBackend` has a timeout of ten seconds, and a write to a pipe
  ends because the pipe is read or broken. A backend that neither reads nor dies
  is outside this assumption, and would block every document (listed as a
  hazard).
- `SF` for each step that takes `syncMu`: the lock is taken and given back in
  between, so weak fairness would not do; a Go mutex hands over to a goroutine
  that has waited a millisecond, so none waits for ever.
- `WF(End)`: once `closeBackends` has returned, `main` has nothing to wait for.
- `WF(ReportLoss)`: a goroutine that needs only `mu` runs.
- Nothing is assumed of the editor, the disk, or backends: they may never
  answer, never crash, or crash always.
- `SchemaCache`: the goroutines of a request run, whatever those of another do.
- `PlatoParser` has none: it is a sequential program, and what it must not do is
  safety (`ValidIsAccepted`).

## Findings

Each is a run in which TLC finds the property violated.

- `excluded` (`backend.go:348`): a `syncHost` that began before a settings
  change can put its warning on a document that the new settings exclude;
  `hostFailure` compares the version but not the epoch. README.md:67-68 says
  that excluded documents publish an empty list.
- `stale_text` (`backend.go:273`): a document closed and reopened with the same
  version number (editors start again at 1) can be shown results computed from
  its old text: virtual URIs name versions only. README.md:99-101 says that they
  discard stale results.
- `stale_settings` (`backend.go:68`): between `epoch++` and
  `reconfigureBackends` a document of the new epoch can be sent to a backend with
  the old settings, its answer is accepted, and the reconfiguration does not
  take it down.
- `schemas_hang` (`jsonschema/cache.go:72`, inherited): when the values of a
  chart and of its subchart have both changed since their schemas were cached,
  the request waits for a flight that waits for the request. It never returns,
  nor does any later request for these charts. A failed write leads there, too: it
  leaves the parent without an entry, so one change of the subchart is enough
  (`AnsweredOneByOne` excludes both). With values that change while a request is
  under way, one chart is enough.
- `forgotten` (`backend.go:309`): two documents share a backend that dies; opening
  one of them there fails, which removes and stops the backend, so its watcher
  returns without warning about the other. That one has a route to a key without
  a backend: until its next edit it is neither validated nor is its author told.
  README.md:69 says that missing executables produce diagnostics, and
  `backend_test.go:442` fails when a missing backend is "reported as clean".

## Proofs

`tlapm` checks all of them from nothing, about 8000 obligations in ten minutes.
They hold for any documents, texts, dialects, paths, settings, processes, charts
and bounds, from the assumptions that the modules state of their constants alone
(`BoundsAssumption`, `DataAssumption`, `OperatorAssumption`; `ChartsAssumption`;
`TablesAssumption`, `ClassesAssumption`, `DialectsAssumption`; `BoundAssumption`, `PathAssumption`, `SettingsAssumption`;
`MaxLenAssumption`), and for the parser from the facts about the generated tables
that `PlatoStacks` states and TLC computes.

| Theorem | Says |
| --- | --- |
| `TypeCorrect` | `Spec => []TypeOK` |
| `SilenceCorrect` | `Spec => [](HostIsCurrent /\ ClosedIsSilent)` |
| `NoStrayCorrect` | `Spec => []NoStrayProcess` |
| `NoneLeftBehindCorrect` | `Spec => []NoneLeftBehind` |
| `EpochsCorrect` | `Spec => [](BackendsAreCurrent /\ RoutesAreCurrent)` |
| `OneRouteCorrect` | `Spec => []OneRoutePerBackend` |
| `TextCorrect` | `Spec => []ResultIsForText`, assuming that no document has two texts under one version number in its `Edits` |
| `OpenedCorrect` | `Spec => []OpenedIsRouted`, assuming that `Disks` has one member |
| `BoardCorrect` | `Spec => KeepsBoard`: `HostSync` implements `DiagnosticsBoard` |
| `CurrentCorrect` | `Spec => []ShownIsCurrent`, assuming that `Disks` has one member |
| `WorkspaceTypes` | `Workspace!Spec => []TypeOK` |
| `FoldersFollow` | `Workspace!Spec => []FoldersAreTheClients` |
| `OrderDoesNotMatter` | `Workspace!Spec => []OrderIsIrrelevant` |
| `FolderIsTheLimit` | `Workspace!Spec => []WithinFolder` |
| `OnlyRealProjects` | `Workspace!Spec => []RealProject` |
| `OneProject` | `Workspace!Spec => []OneProjectPerTree` |
| `ProjectionTypes` | `Projection!Spec => []TypeOK` |
| `ShownIsAttributable` | `Projection!Spec => []Attributable` |
| `ShownIsUnmoved` | `Projection!Spec => []RangeIsKept` |
| `AttributableIsShown` | `Projection!Spec => []NothingLost`, of ranges in one literal token, for documents of any length, as the three before it |
| `SearchIsExact` | `CharacterSet!SetSpec => []MembershipIsExact`, for every sorted table |
| `LexerSearches` | `PlatoParser!Spec => SetSpec`: the lexer implements what `CharacterSet` specifies |
| `ClassesAreExact` | `PlatoParser!Spec => []MembershipIsExact` |
| `ParserTypes` | `PlatoParser!Spec => []TypeOK` |
| `StackIsRooted` | `PlatoParser!Spec => []Rooted` |
| `ReductionsFindTheirStates` | `PlatoParser!Spec => []StackFits` |
| `ControlFlowIsNoticed` | `PlatoParser!Spec => ControlIsNoticed` |
| `SchemasTyped` | `SchemaCache!Spec => []TypeOK` |
| `AnswersExist` | a request is answered with a file that is there, or an error |
| `AnswersFresh` | `SchemaCache!Spec => []AnswerIsFresh`, for any `Checksums`, colliding ones included |
| `CallsReturnInOrder` | when a request has returned, so has every call of its family |
| `FamiliesAreComplete` | `SchemaCache!Spec => []RefsExist`, assuming `Calm` (values change between requests only); charts in `Faulty` and `Unwritable` excepted |

The argument. `TypeOK` is inductive as it stands, one lemma per action.
`HostIsCurrent /\ ClosedIsSilent` is inductive given `TypeOK`: the first is
needed because publishing reads `host`. `NoStrayProcess` is not: the frame of a
`syncHost` that is about to write must be about a backend in use, and each key
must lead to a living process of that key; `ProcessesInv` says so. The proof goes
by `Stops(S)`: this step stops the processes in `S` and changes no others.
`NoneLeftBehind` needs one thing more, that a `syncHost` under way after
`closeBackends` has taken `syncMu` after it, because the lock was free when
`closeBackends` ran (`ClosedInv`).
`BackendsAreCurrent` needs to know what a frame with an old snapshot may still
do: `EpochInv` adds that a frame of an earlier epoch implies a pending
`reconfigureBackends`, which will take away what that frame is about to make.
`OneRoutePerBackend` is inductive alone, because registering
deletes all prior routes to the key. `TextCorrect` rests on `RoutesNamed` (a
route says what its URI says) and `HostTexts` (a displayed result is an edit of
the version it is shown for). For the board, every step of `HostSync` is first
shown to be one of seven (`BoardStep`), by what it does to the variables a
publication is made from; each of these is then a step of the board or none. The
one that needs an invariant is `didSave`, which publishes again what the server
remembers: `HostIsShown` says that this is what is shown already.

`OpenedIsRouted` could fail in one way that is not obvious: a URI names a
document, a version and a kind, but not a backend, so registering a route could
take it from another backend that has the URI open. `KeysAreHere` excludes that:
while no reconfiguration is pending, every route has the key that the present
settings, folders and disk give its document. This is where the disk matters, and
why the theorem assumes that it does not change: with one that does, the second
backend is never told to close the document, a hazard listed without a property.

`Workspace`'s `LongestFolder` and `RemoveEach` are folds. A fold of the community
modules is a function by recursion on sets of indices; `DataTheorems` unfolds it
(`FoldIterates`, `FoldAgrees`) into a sequence of intermediate results, over
which one can induct with a set instead of an operator. What `LongestFolder`
returns is then a fact about sets, not about the order of the list
(`LongestFolderValue`), and `OrderDoesNotMatter` follows from it and from
`FoldersAreTheClients`, which is inductive. `OneProject` is the deepest of them: two
documents of one source tree have roots that both lie above that tree. So each
root is searched for by the other document, too; the nearest of one is at least
as near as that of the other, and both ways.

`Projection` only types documents, and its invariants are about operators: the
proof is an induction along the document (`Layout`: so many runes of the
projection stand for the first `i` of the document). Masking moves no byte and no line, and
two runes at one place are the same unless something before them on the line was
overwritten (`AllCorrespond`). A place in a text, its offset in bytes and its
position in UTF-16 units determine one another (`PlaceOf`). The spans of
actions are maximal runs (`RunAround`), so that every rune that was
overwritten is in a synthetic span; the literals are runs and single braces, and
runes of one token lie in one of them (`TokenAround`). A range that `mapDiagnostic` lets through
therefore lies in lines in which nothing was overwritten, where positions in both
texts agree; conversely, such a range of a literal is let through. The end of a
line, to which an end past it is clamped, is the end of that line in both texts
(`LineEndsCorrespond`).

The search is exact because the ranges outside its window cannot hold the
character (`Window`); that the window never empties, which the C code relies
on to index the table, is part of it. The parser around it asks about one
character at a time and leaves it in its place until the answer is there
(`Calling`), so that each of its steps is one of the search or none.

The types of the parser and the shape of its stack have to be proved together.
What a reduction pushes is in the table only if the state uncovered has a goto,
and that follows from `Rooted`, which holds because of what was pushed before.
`ModelInv` is both, with `Calling`. `PushKeepsStack` is the heart of it: for the
new top, the items of a state with `n` children behind it are those of the old
top with `n - 1`, so `Fits` between two neighbours is enough to continue
`Rooted` by one; `PopKeepsStack` is that a prefix of such a stack is one. What an
accepting parser has left is then known from `Grounded`: the first state is only
at the bottom, and state 360, in which the document is complete, only on top of
it. That control flow is noticed follows from the items, too: what a reduction
pops are the children of its symbol, in order, and a state for a word of control
flow is the second child of the actions of control flow and a child of nothing
else. Nothing is assumed of the document but that its characters have a code
point: the theorems hold for whatever is written, in any nesting and with any
number of misreadings, a wrong one included.

For the schema cache `AnswerInv` follows what a call has in hand at each point
of its code, a cached entry, a schema, a file's name, whose checksum is that of
the values the file was made from unless it was cut short; `TypeInv` adds that a
flight is led by a call for its own chart, without which a returning call could
leave its flight behind. `RefsExist` speaks of whole families of calls. A call
started by another keeps it waiting until it has returned (`ParentsWait`), hence
`CallsReturnInOrder`. That is not enough, because a call may be answered by
somebody else's flight. But a flight is led by a call that does not itself wait
for a flight (`LeadersWork`), and that call has its own children to wait for.
`FamilyInv` then says that every file a schema names is there or is still owed by
some call, or belongs to a chart that may fail; when no request is at work nothing
is owed.

Only model-checked: everything about time (`Eventually...`), because fairness and
`ENABLED` are out of the prover's reach; and what relates the parser to the
document it reads (`LiteralsAreText`, `LiteralsAreKept`, `StructureIsSeen`,
`ValidIsAccepted`, `BlocksAreRead`, `PreferredReading`). These are about concrete
characters: they hold because the automaton, run on the spelling of a delimiter or
a word, accepts the token that the present state expects, and an invariant
for that would have to say for every prefix of every piece of a document in which
state of the automaton and of the parser it can be read. They also depend on the
dialects; there are documents for which they do not hold, as the one left out
above.

## Not modelled

- Hanging writes.
- `Initialize` beyond the state it leaves, and a second `initialize`.
- The text of messages, logging, the LSP framing, Cobra.
- Source directories that are absolute or lead upwards (`..`).
- The regular expressions of the projection.
- Of the Plato parser: field names, aliases and symbol metadata of the tree, which
  `templateRegions` does not look at beyond the kinds of nodes; documents with
  errors, which are refused before; characters beyond ASCII, and with them most
  of the Unicode class tables (the search in them is proved for every table);
  how many versions of the stack the runtime keeps and when it drops one. The
  last matters in principle: in a `range` whose body has an `if` with an
  `else if`, followed by the `else` of the `range`, a reading that is bound to fail
  leads for a while, so that the right one survives only because the runtime
  keeps several.
- Of Helm LS everything but the schema cache; see the plan.

`PROJECT.json` lists the hazards of the code at their lines, with the properties
that would catch them, or why none does.

## Plan

Done, in this order: `HostSync` with its runs and proofs; `DiagnosticsBoard` and
the refinement; `Projection`; `Workspace`; `SchemaCache`; the Plato parser with
`TextTemplate`; the proofs of `OpenedIsRouted`, of the search, of the schema cache
with its families, of `Workspace` and of `Projection`; of the parser's types and
stack, and that it implements the search.

Next, models:
1. `DocumentStore`: documents opened by the editor while the background scan
   loads the same files (`document_store.go:48`); the handlers of save, change
   and watched files.
2. `YamllsConnector` with `DiagnosticsCache`: the connection's end against calls
   under way, the display rule over sequences of publications, reconfiguration.
3. `ChartStore`: loading with dependencies and callbacks, parents found before
   or after their subcharts, `GetScopedValuesFiles` as the `Related` of
   `SchemaCache`; then both composed.
4. `SymbolTable`: the context stack against a reference definition of scope.

Next, proofs:
1. Of the document store, once modelled: an open document is the editor's.
2. Of `PlatoParser`: that one piece of a document, read in a state where it may
   stand, is read as one token after another and leaves a state where the next
   may stand; `LiteralsAreText` would follow.
