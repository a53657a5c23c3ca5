----------------------------- MODULE Workspace ------------------------------
(***************************************************************************)
(* Which project a document belongs to, and whether plato-ls looks at it    *)
(* (internal/plato/workspace.go), as the editor's folders, the settings and *)
(* the plato.yaml files on disk change.                                     *)
(*                                                                          *)
(* A path is the sequence of its names.  A Go value that may be empty is a  *)
(* set of at most one element.                                              *)
(***************************************************************************)
EXTENDS Naturals, FiniteSets, Sequences, SequencesExt, GoMap

CONSTANTS
  Names,       \* the names that paths are made of
  Files,       \* documents the editor may open
  Folders,     \* folders it may have in its workspace, besides
  Virtual,     \*   one that is not in the file system
  Configs,     \* what a plato.yaml says: [ok, source, binary], the source relative
  ConfigDirs,  \* directories that may hold a plato.yaml
  Settings,    \* values of server.settings: [root, configPath, source, ...],
               \*   the root absolute and the source relative
  ElsewhereDir,   \* holds the plato.yaml an absolute configPath names
  Markable,    \* documents that may be marked
  MaxFolders   \* bound: folders in the workspace

ASSUME BoundAssumption == MaxFolders \in Nat

\* A file has a name; a folder without a path in the file system is another value.
ASSUME PathAssumption ==
  /\ Files \subseteq Seq(Names) \ {<<>>}
  /\ Folders \subseteq Seq(Names) /\ IsFiniteSet(Folders) /\ Virtual \notin Folders
  /\ ConfigDirs \subseteq Seq(Names)

\* "templates"
DefaultSource == <<"t">>

\* A Go string that may be empty, and holds a path.
IsPathOption(option) == option \subseteq Seq(Names) /\ \A a, b \in option : a = b

ASSUME SettingsAssumption ==
  /\ \A s \in Settings : IsPathOption(s.root) /\ IsPathOption(s.source)
  /\ \A config \in Configs : config.ok \in BOOLEAN /\ IsPathOption(config.source)
  /\ DefaultSource \in Seq(Names)

VARIABLES
  settings,    \* server.settings
  folders,     \* server.folders, a slice
  client,      \* the folders the editor has in its workspace
  plato,       \* directory -> what its plato.yaml says
  marked       \* files with a NUL, that are irregular, or with a .symlink beside

vars == <<settings, folders, client, plato, marked>>

Dirs == (UNION {Prefixes(f) : f \in Files}) \cup Folders \cup (UNION {s.root : s \in Settings})
Dir(path) == Front(path)
Inside(dir, path) == IsStrictPrefix(dir, path)
DefaultBinary == {"z"}

----------------------------------------------------------------------------
(* settings.forFile                                                         *)

\* Mutant: the last folder that contains the file wins.
LastFolder(list, file) ==
  FoldLeft(LAMBDA best, dir : IF Inside(dir, file) THEN {dir} ELSE best, {}, list)

\* The longest of the folders that contain the file.
LongestFolder(list, file) ==
  FoldLeft(LAMBDA best, dir :
             IF Inside(dir, file) /\ \A b \in best : Len(dir) > Len(b) THEN {dir} ELSE best,
           {}, list)

\* The root before any plato.yaml is looked for, unless there is none.
FirstRoot(s, list, file) ==
  CASE s.root # {} -> s.root
    [] s.root = {} /\ LongestFolder(list, file) # {} -> LongestFolder(list, file)
    [] OTHER -> IF list # <<>> /\ s.source = {} /\ s.configPath = {} THEN {} ELSE {Dir(file)}

\* Mutant: the search looks into the parent directory and no higher.
SearchedNearby(list, file, root) ==
  {dir \in Prefixes(Dir(file)) :
     IsPrefix(IF list = <<>> THEN <<>> ELSE root, dir) /\ Len(dir) + 1 >= Len(Dir(file))}

\* Mutant: the search goes on above the folder.
SearchedToTheTop(list, file, root) == Prefixes(Dir(file))

\* The directories that are searched for a plato.yaml, the nearest first: up to
\* the folder, or to the top of the file system when there are no folders.
Searched(list, file, root) ==
  {dir \in Prefixes(Dir(file)) : IsPrefix(IF list = <<>> THEN <<>> ELSE root, dir)}

Nearest(dirs) == CHOOSE dir \in dirs : \A other \in dirs : Len(other) <= Len(dir)

ProjectRoot(s, list, disk, file, root) ==
  LET found == Searched(list, file, root) \cap DOMAIN disk
  IN IF s.root = {} /\ s.configPath = {} /\ found # {} THEN Nearest(found) ELSE root

\* The directory whose plato.yaml is read: a configPath other than an absolute
\* one is joined to the root.
ConfigDir(s, root) == IF s.configPath = {"absolute"} THEN ElsewhereDir ELSE root

NoWorkspace ==
  [root |-> <<>>, source |-> {}, problem |-> "none", excluded |-> {}, binary |-> {}]

Or(option, default) == IF option # {} THEN option ELSE default

At(root, s, config, problem) ==
  [root |-> root,
   source |-> {root \o source : source \in Or(s.source, Or(config.source, {DefaultSource}))},
   problem |-> problem,
   excluded |-> s.excluded,
   binary |-> Or(s.binary, Or(config.binary, DefaultBinary))]

EmptyConfig == [source |-> {}, binary |-> {}]

\* Mutant: a plato.yaml is not asked for.
ForFileAnywhere(s, list, disk, file) ==
  LET first == FirstRoot(s, list, file)
      root == ProjectRoot(s, list, disk, file, CHOOSE r \in first : TRUE)
      dir == ConfigDir(s, root)
  IN CASE first = {} -> NoWorkspace
       [] first # {} /\ dir \in DOMAIN disk ->
            IF disk[dir].ok THEN At(root, s, disk[dir], "none")
            ELSE At(root, s, EmptyConfig, "unreadable")
       [] first # {} /\ dir \notin DOMAIN disk ->
            At(root, s, EmptyConfig, IF s.configPath # {} THEN "missing" ELSE "none")

ForFile(s, list, disk, file) ==
  LET first == FirstRoot(s, list, file)
      root == ProjectRoot(s, list, disk, file, CHOOSE r \in first : TRUE)
      dir == ConfigDir(s, root)
  IN CASE first = {} -> NoWorkspace
       [] first # {} /\ dir \in DOMAIN disk ->
            IF disk[dir].ok THEN At(root, s, disk[dir], "none")
            ELSE At(root, s, EmptyConfig, "unreadable")
       [] first # {} /\ dir \notin DOMAIN disk ->
            IF s.configPath = {} /\ s.root = {} /\ s.source = {} THEN NoWorkspace
            ELSE At(root, s, EmptyConfig, IF s.configPath # {} THEN "missing" ELSE "none")

\* workspace.eligible.  A name stands for what suffixes and patterns see of it.
Eligible(w, file) ==
  /\ \E source \in w.source :
       /\ Inside(source, file)
       /\ SubSeq(file, Len(source) + 1, Len(file)) \notin w.excluded
  /\ Last(file) \notin w.binary
  /\ file \notin marked

----------------------------------------------------------------------------
(* The notifications, and what happens to the file system meanwhile.        *)

DidChangeConfiguration(s) ==
  /\ settings' = s
  /\ UNCHANGED <<folders, client, plato, marked>>

\* Mutant: only the first folder of the event is removed.
RemoveOne(list, removed) ==
  IF removed = <<>> THEN list ELSE RemoveFirst(list, Head(removed))

\* Each removed folder takes its first occurrence away.
RemoveEach(list, removed) == FoldLeft(RemoveFirst, list, removed)

\* Mutant: a folder outside the file system is added like any other.
AddAll(list, added) == list \o added

\* pathForURI finds no path for such a folder.
AddEach(list, added) ==
  FoldLeft(LAMBDA l, dir : IF dir = Virtual THEN l ELSE Append(l, dir), list, added)

DidChangeWorkspaceFolders(removed, added) ==
  /\ folders' = AddEach(RemoveEach(folders, removed), added)
  /\ client' = (client \ ToSet(removed)) \cup ToSet(added)
  /\ UNCHANGED <<settings, plato, marked>>

\* What a language client sends: it removes folders it has and adds others.
Removals == SetToAllKPermutations(client)
Additions(removed) ==
  {added \in SetToAllKPermutations((Folders \cup {Virtual}) \ (client \ ToSet(removed))) :
     Cardinality(client \ ToSet(removed)) + Len(added) <= MaxFolders}

WriteConfig(dir, config) ==
  /\ plato' = Put(plato, dir, config)
  /\ UNCHANGED <<settings, folders, client, marked>>

RemoveConfig(dir) ==
  /\ plato' = Delete(plato, dir)
  /\ UNCHANGED <<settings, folders, client, marked>>

Mark(file) ==
  /\ marked' = IF file \in marked THEN marked \ {file} ELSE marked \cup {file}
  /\ UNCHANGED <<settings, folders, client, plato>>

Init ==
  /\ settings \in Settings
  /\ folders \in {<<>>} \cup {<<dir>> : dir \in Folders}
  /\ client = ToSet(folders)
  /\ plato = EmptyMap /\ marked = {}

Next ==
  \/ \E s \in Settings : DidChangeConfiguration(s)
  \/ \E removed \in Removals : \E added \in Additions(removed) :
       DidChangeWorkspaceFolders(removed, added)
  \/ \E dir \in ConfigDirs, config \in Configs : WriteConfig(dir, config)
  \/ \E dir \in DOMAIN plato : RemoveConfig(dir)
  \/ \E file \in Markable : Mark(file)

Spec == Init /\ [][Next]_vars

----------------------------------------------------------------------------
Of(file) == ForFile(settings, folders, plato, file)

TypeOK ==
  /\ settings \in Settings
  /\ folders \in Seq(Folders)
  /\ client \subseteq Folders \cup {Virtual}
  /\ IsMap(plato, ConfigDirs, Configs)
  /\ marked \subseteq Markable
  /\ \A file \in Files : Of(file).root \in Dirs /\ Cardinality(Of(file).source) <= 1

\* The slice holds the editor's folders, each once, however many events have
\* removed and added how many folders in which order.
FoldersAreTheClients ==
  /\ ToSet(folders) = client \ {Virtual}
  /\ IsInjective(folders)

\* Nested folders: a document's project does not depend on the order in which
\* the editor has added them.
OrderIsIrrelevant ==
  \A list \in SetToSeqs(ToSet(folders)), file \in Files :
    ForFile(settings, list, plato, file) = Of(file)

\* README.md has plato.yaml found inside each workspace folder: without settings
\* that say otherwise, nothing outside the innermost folder of a document decides
\* about it, and nothing at all if no folder contains it.
WithinFolder ==
  \A file \in Files :
    settings.root = {} /\ settings.configPath = {} /\ folders # <<>> /\ Eligible(Of(file), file) =>
      \/ \E dir \in ToSet(folders) :
           /\ Inside(dir, file) /\ IsPrefix(dir, Of(file).root)
           /\ \A other \in ToSet(folders) : Inside(other, file) => IsPrefix(other, dir)
      \/ settings.source # {} /\ \A dir \in ToSet(folders) : ~Inside(dir, file)

\* Without a root or a source in the settings, an eligible document has a
\* plato.yaml at its root or is told that the configured one is missing.
RealProject ==
  \A file \in Files :
    settings.root = {} /\ settings.source = {} /\ Eligible(Of(file), file) =>
      \/ ConfigDir(settings, Of(file).root) \in DOMAIN plato
      \/ Of(file).problem = "missing"

\* Documents of one source tree belong to one project: they have one root, and
\* so one process for each backend.
OneProjectPerTree ==
  \A f1, f2 \in Files :
    /\ Eligible(Of(f1), f1) /\ Eligible(Of(f2), f2)
    /\ Of(f1).source = Of(f2).source
    => Of(f1).root = Of(f2).root
=============================================================================
