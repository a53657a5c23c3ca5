-------------------------- MODULE DiagnosticsBoard --------------------------
(***************************************************************************)
(* What plato-ls promises the editor, with nothing said of how backends are *)
(* run: a board with one entry per document, the diagnostics last published *)
(* for it.                                                                  *)
(*   - A document that is not open has an empty entry.                      *)
(*   - An entry is only ever written for the document as it is open now and *)
(*     with the rules (settings and folders) in force now.                  *)
(*   - New text and new rules take the backend's diagnostics off the board  *)
(*     at once, whatever is still being computed; a backend can put some    *)
(*     back for an open document.                                           *)
(***************************************************************************)
EXTENDS Naturals, GoMap

CONSTANTS
  Docs,
  Documents,           \* versioned texts
  Rules,               \* settings and folders
  Disks,               \* file systems
  Sayings,             \* what may be on the board on behalf of a backend
  LocalPart(_, _, _, _)   \* rules, disk, document, text: template diagnostics

VARIABLES docs, rules, disk, shown

vars == <<docs, rules, disk, shown>>

NoView == [version |-> 0, local |-> {}, host |-> {}]

Entry(u, doc, said) ==
  [version |-> doc.version, local |-> LocalPart(rules', disk, u, doc.text),
   host |-> said]

Init ==
  /\ docs = EmptyMap
  /\ rules \in Rules /\ disk \in Disks
  /\ shown = [u \in Docs |-> NoView]

\* The document gets a text, and a newer version if it was open already.
Write(u, doc) ==
  /\ u \in DOMAIN docs => doc.version > docs[u].version
  /\ docs' = Put(docs, u, doc)
  /\ UNCHANGED <<rules, disk>>
  /\ shown' = [shown EXCEPT ![u] = Entry(u, doc, {})]

Close(u) ==
  /\ docs' = Delete(docs, u)
  /\ shown' = [shown EXCEPT ![u] = NoView]
  /\ UNCHANGED <<rules, disk>>

Rule(r) ==
  /\ rules' = r
  /\ UNCHANGED <<docs, disk>>
  /\ shown' = [u \in Docs |-> IF u \in DOMAIN docs
                              THEN Entry(u, docs[u], {}) ELSE shown[u]]

\* A backend's diagnostics, or a warning that there are none.
Say(u, said) ==
  /\ u \in DOMAIN docs
  /\ UNCHANGED <<docs, rules, disk>>
  /\ shown' = [shown EXCEPT ![u] = Entry(u, docs[u], {said})]

\* Published again: the template diagnostics follow the disk.
Refresh(u) ==
  /\ u \in DOMAIN docs
  /\ UNCHANGED <<docs, rules, disk>>
  /\ shown' = [shown EXCEPT ![u] = Entry(u, docs[u], shown[u].host)]

Drift ==
  /\ disk' \in Disks
  /\ UNCHANGED <<docs, rules, shown>>

Next ==
  \/ \E u \in Docs, doc \in Documents : Write(u, doc)
  \/ \E u \in Docs : Close(u) \/ Refresh(u)
  \/ \E r \in Rules : Rule(r)
  \/ \E u \in Docs, said \in Sayings : Say(u, said)
  \/ Drift

Spec == Init /\ [][Next]_vars
=============================================================================
