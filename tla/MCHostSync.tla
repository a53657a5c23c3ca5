----------------------------- MODULE MCHostSync -----------------------------
(***************************************************************************)
(* Small instances of HostSync for TLC.  A settings value is the executable *)
(* configured for YAML, that for Bash, and the documents excludedPaths      *)
(* matches; a text's name says what the code finds in it.                   *)
(***************************************************************************)
EXTENDS HostSyncBoard, TLC
CONSTANTS u1, u2, script, b1, b2
MCKinds == {"yaml", "bash"}
MCPaths == {"exe"}
Config(yaml, bash, excluded) ==
  [yaml |-> yaml, bash |-> bash, excluded |-> excluded]
AllOn == Config("exe", "exe", {})
AllOff == Config("none", "none", {})
FirstExcluded == Config("exe", "exe", {u1})
\* u1 and u2 are YAML files by their names.  The name of script says nothing, so
\* its text must have a shebang to be a script.
MCKindOf(u, text) ==
  CASE u \in {u1, u2} -> "yaml"
    [] u = script /\ text = "prose" -> "none"
    [] OTHER -> "bash"
MCExecutable(s, kind) == s[kind]
\* A folder is the root of its documents, unless a plato.yaml is found below.
MCRootOf(e, u) == IF e.disk = "nested" THEN "sub" ELSE e.folders
MCEligible(e, u, text) == u \notin e.settings.excluded /\ e.folders = "work"
MCBroken(e, u, text) == text = "broken"
MCUnprojectable(kind, text) == text = "loop"
MCShellCheckMissing(e) == TRUE
ExcludesFirst == {AllOn, FirstExcluded}
OnAndOff == {AllOn, AllOff}
AlwaysOn == {AllOn}
AnyBackend == Permutations({b1, b2})
OneEdit(u) == IF u = u2 THEN {<<1, "two">>} ELSE {<<1, "one">>}
VersionReused(u) == {<<1, "one">>, <<1, "two">>}
ScriptEdits(u) == {<<1, "script">>, <<2, "prose">>, <<3, "loop">>}
YAMLEdits(u) == {<<1, "one">>, <<2, "two">>, <<3, "broken">>}
=============================================================================
