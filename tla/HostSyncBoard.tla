---------------------------- MODULE HostSyncBoard ----------------------------
(***************************************************************************)
(* HostSync implements DiagnosticsBoard: every step the server, its         *)
(* goroutines and the backends take is one the board allows, or leaves the  *)
(* board as it is.                                                          *)
(***************************************************************************)
EXTENDS HostSync

BoardLocalPart(r, d, u, text) ==
  LocalPart([settings |-> r[1], folders |-> r[2], disk |-> d], u, text)

Board == INSTANCE DiagnosticsBoard WITH
  Rules <- Settings \X Folders, rules <- <<settings, folders>>,
  LocalPart <- BoardLocalPart

\* Every publication the editor gets from server.publish, republish and
\* DidClose is one the board allows: nothing for a closed document, never an
\* old version or old rules, and no backend's diagnostics carried over to a
\* new version or to new settings.
KeepsBoard == Board!Spec
=============================================================================
