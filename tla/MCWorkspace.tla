---------------------------- MODULE MCWorkspace -----------------------------
(* Two nested folders and one beside them, three places for a plato.yaml, and *)
(* documents above, in and below the source trees these can name.             *)
EXTENDS Workspace
Top == <<>>
A == <<"a">>
AT == <<"a", "t">>
T == <<"t">>
ATT == <<"a", "t", "t">>
MCNames == {"a", "t", "f", "z"}
MCFiles == {Append(dir, "f") : dir \in {A, AT, T, ATT}} \cup {Append(AT, "z")}
MCFolders == {Top, A, T}
MCVirtual == <<"virtual">>
MCConfigDirs == {Top, A, AT}
\* The second one names, from the top, the tree that is A's by default.
MCConfigs == {[ok |-> TRUE, source |-> {}, binary |-> {}],
              [ok |-> TRUE, source |-> {AT}, binary |-> {"f"}],
              [ok |-> FALSE, source |-> {}, binary |-> {}]}
MCSettings ==
  {s \in [root : {{}, {A}}, configPath : {{}, {"relative"}, {"absolute"}},
          source : {{}, {T}}, excluded : {{}, {<<"f">>}}, binary : {{}, {"y"}}] :
     s.binary = {} <=> s.excluded = {}}
MCMarkable == {Append(AT, "f")}
=============================================================================
