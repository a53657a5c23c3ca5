SPECIFICATION Spec
CONSTANTS
  u1 = u1
  u2 = u2
  script = script
  b1 = b1
  b2 = b2
  Docs = {u1}
  Texts = {"one", "two", "script", "prose", "loop", "broken"}
  Edits <- YAMLEdits
  Settings <- ExcludesFirst
  Folders = {"work"}
  Disks = {"plain"}
  Kinds <- MCKinds
  NoKind = "none"
  Paths <- MCPaths
  NoPath = "none"
  Roots = {"work", "sub", "elsewhere"}
  Backends = {b1, b2}
  InitSettings <- AllOn
  InitFolders = "work"
  InitDisk = "plain"
  Closable = {u1}
  Exits = FALSE
  MaxEpoch = 1
  MaxPending = 1
  MaxOut = 1
  KindOf <- MCKindOf
  Executable <- MCExecutable
  RootOf <- MCRootOf
  Eligible <- MCEligible
  Broken <- MCBroken
  Unprojectable <- MCUnprojectable
  ShellCheckMissing <- MCShellCheckMissing
SYMMETRY AnyBackend
INVARIANTS
  TypeOK
  ClosedIsSilent
  ShownIsCurrent
  HostIsCurrent
  RoutesAreCurrent
  ResultIsForText
  OneRoutePerBackend
  OpenedIsRouted
PROPERTIES
  KeepsBoard
