SPECIFICATION Spec
CONSTANTS
  u1 = u1
  u2 = u2
  script = script
  b1 = b1
  b2 = b2
  Docs = {script}
  Texts = {"one", "two", "script", "prose", "loop", "broken"}
  Edits <- ScriptEdits
  Settings <- AlwaysOn
  Folders = {"work", "elsewhere"}
  Disks = {"plain", "nested"}
  Kinds <- MCKinds
  NoKind = "none"
  Paths <- MCPaths
  NoPath = "none"
  Roots = {"work", "sub", "elsewhere"}
  Backends = {b1}
  InitSettings <- AllOn
  InitFolders = "work"
  InitDisk = "plain"
  Closable = {script}
  Exits = TRUE
  MaxEpoch = 1
  MaxPending = 1
  MaxOut = 0
  KindOf <- MCKindOf
  Executable <- MCExecutable
  RootOf <- MCRootOf
  Eligible <- MCEligible
  Broken <- MCBroken
  Unprojectable <- MCUnprojectable
  ShellCheckMissing <- MCShellCheckMissing
INVARIANTS
  NoneLeftBehind
PROPERTIES
  KeepsBoard
  EventuallyEnded
  EventuallyHandled
