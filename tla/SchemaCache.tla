---------------------------- MODULE SchemaCache -----------------------------
(***************************************************************************)
(* The JSON schemas that Helm LS generates from the values files of a chart *)
(* (internal/jsonschema/cache.go) on the request of yaml-language-server.   *)
(* A schema refers to the schemas of the chart's parents and dependencies,  *)
(* so one call generates those too, each in a goroutine it waits for; a     *)
(* singleflight.Group lets one call at a time renew a schema, and the       *)
(* others wait for its answer.                                              *)
(*                                                                          *)
(* A call is named by its stack: the request, and the charts from the       *)
(* requested one down to its own.  A chart's values files are numbered in   *)
(* the order in which the program comes to see them, and Checksums gives    *)
(* the Adler-32 checksum of each: different values can have the same one,   *)
(* as "x: 131" and "x: 212" do.                                             *)
(***************************************************************************)
EXTENDS Naturals, Sequences, FiniteSets, SequencesExt, GoMap

CONSTANTS
  Charts,
  Related,     \* chart -> its parents and dependencies (GetScopedValuesFiles)
  Faulty,      \* charts whose values.schema.json does not parse
  Unwritable,  \* charts whose schema file cannot always be written
  Requests,    \* requests that may be under way at the same time
  Checksums,   \* chart -> checksums of its successive values (bound: their number)
  Calm         \* bound: values change between requests only

ASSUME ChartsAssumption ==
  /\ Related \in [Charts -> SUBSET Charts]
  /\ Faulty \subseteq Charts /\ Unwritable \subseteq Charts
  /\ Checksums \in [Charts -> Seq(Nat) \ {<<>>}]
  /\ Calm \in BOOLEAN

VARIABLES
  values,      \* chart -> number of its values, as last reloaded
  cache,       \* JSONSchemaCache.cache: chart -> checksum and file
  flights,     \* singleflightGroup: chart -> the call that renews its schema
  files,       \* the schema files on disk: path -> what they were made from
  calls        \* stack -> frame of GetJSONSchemaForChart

vars == <<values, cache, flights, files, calls>>

\* A file's name has the checksum of the values and the chart's name.
Paths == [chart : Charts, checksum : Nat]
Cached == [checksum : Nat, file : Paths]
\* The number of the chart's own values, and the files of related charts.
Schemas == [built : Nat, refs : SUBSET Paths]
NoFile == [chart |-> "none"]    \* the empty string, with an error
Blank == [built |-> 0, refs |-> {}]    \* no schema, or a file that was cut short

ChartOf(id) == Last(id)
Checksum(c) == Checksums[c][values[c]]
Stale == {c \in DOMAIN cache : cache[c].checksum # Checksum(c)}
Path(c) == [chart |-> c, checksum |-> Checksum(c)]

Frames ==
  [pc : {"read", "do", "compare", "join", "create", "write", "store", "wait", "return"},
   cached : Cached, schema : Schemas, answer : Paths \cup {NoFile}]

Start(c) ==
  [pc |-> "read", schema |-> Blank, answer |-> NoFile,
   cached |-> [checksum |-> 0, file |-> [chart |-> c, checksum |-> 0]]]

At(id, pc) == id \in DOMAIN calls /\ calls[id].pc = pc
Goto(id, pc) == calls' = [calls EXCEPT ![id].pc = pc]
Answer(id, file) == calls' = [calls EXCEPT ![id].pc = "return", ![id].answer = file]

----------------------------------------------------------------------------
\* Mutant: a schema that was never made is made in a flight like any other.
ReadAndFly(id) ==
  /\ At(id, "read")
  /\ calls' = [calls EXCEPT ![id].pc = "do", ![id].cached =
                 IF ChartOf(id) \in DOMAIN cache THEN cache[ChartOf(id)]
                 ELSE [@ EXCEPT !.checksum = Checksum(ChartOf(id)) + 1]]
  /\ UNCHANGED <<values, cache, flights, files>>

\* readCache: the first schema of a chart is made outside the group.
Read(id) ==
  /\ At(id, "read")
  /\ IF ChartOf(id) \in DOMAIN cache
     THEN calls' = [calls EXCEPT ![id].pc = "do", ![id].cached = cache[ChartOf(id)]]
     ELSE Goto(id, "create")
  /\ UNCHANGED <<values, cache, flights, files>>

\* singleflightGroup.Do: wait for the flight there is, or begin one.
Do(id) ==
  /\ At(id, "do")
  /\ IF ChartOf(id) \in DOMAIN flights
     THEN Goto(id, "join") /\ UNCHANGED flights
     ELSE Goto(id, "compare") /\ flights' = Put(flights, ChartOf(id), id)
  /\ UNCHANGED <<values, cache, files>>

\* Mutant: what is cached is taken for current.
CompareNever(id) ==
  /\ At(id, "compare")
  /\ Answer(id, calls[id].cached.file)
  /\ UNCHANGED <<values, cache, flights, files>>

\* The entry that was read before Do is compared with the values of now, by
\* their checksums.
Compare(id) ==
  /\ At(id, "compare")
  /\ IF calls[id].cached.checksum # Checksum(ChartOf(id))
     THEN Goto(id, "create")
     ELSE Answer(id, calls[id].cached.file)
  /\ UNCHANGED <<values, cache, flights, files>>

\* schemaCreation: reads the values, and names the files of related charts.
Create(id) ==
  /\ At(id, "create") /\ ChartOf(id) \notin Faulty
  /\ calls' = [calls EXCEPT ![id].pc = "write",
                 ![id].schema = [built |-> values[ChartOf(id)],
                                 refs |-> {Path(c) : c \in Related[ChartOf(id)]}]]
  /\ UNCHANGED <<values, cache, flights, files>>

CreateFails(id) ==
  /\ At(id, "create") /\ ChartOf(id) \in Faulty
  /\ Answer(id, NoFile)
  /\ UNCHANGED <<values, cache, flights, files>>

\* writeSchemaToFile: its name is computed from the values of now.
Write(id) ==
  /\ At(id, "write")
  /\ files' = Put(files, Path(ChartOf(id)), calls[id].schema)
  /\ calls' = [calls EXCEPT ![id].pc = "store", ![id].answer = Path(ChartOf(id))]
  /\ UNCHANGED <<values, cache, flights>>

\* The file is not opened, or it is emptied and not written in full: the call
\* ends with nothing cached, and related charts are not looked after.
WriteFails(id) ==
  /\ At(id, "write") /\ ChartOf(id) \in Unwritable
  /\ files' \in {files, Put(files, Path(ChartOf(id)), Blank)}
  /\ Answer(id, NoFile)
  /\ UNCHANGED <<values, cache, flights>>

\* Mutant: related charts are left for their own requests.
StoreOnly(id) ==
  /\ At(id, "store")
  /\ cache' = Put(cache, ChartOf(id), [checksum |-> Checksum(ChartOf(id)),
                                       file |-> calls[id].answer])
  /\ Goto(id, "return")
  /\ UNCHANGED <<values, flights, files>>

\* writeCache, then processDependencies: a goroutine for each related chart.
Store(id) ==
  /\ At(id, "store")
  /\ cache' = Put(cache, ChartOf(id), [checksum |-> Checksum(ChartOf(id)),
                                       file |-> calls[id].answer])
  /\ LET children == {Append(id, c) : c \in Related[ChartOf(id)]}
     IN calls' = [i \in DOMAIN calls \cup children |->
                    IF i \in children THEN Start(ChartOf(i))
                    ELSE IF i = id THEN [calls[id] EXCEPT !.pc = "wait"] ELSE calls[i]]
  /\ UNCHANGED <<values, flights, files>>

\* wg.Wait: what the goroutines answered, errors included, is ignored.
Wait(id) ==
  /\ At(id, "wait")
  /\ \A i \in DOMAIN calls : i = <<>> \/ Front(i) # id
  /\ Goto(id, "return")
  /\ UNCHANGED <<values, cache, flights, files>>

\* Mutant: the flight is not removed.
ReturnInFlight(id) ==
  /\ At(id, "return")
  /\ calls' = Delete(calls, id)
  /\ UNCHANGED <<values, cache, flights, files>>

\* The call returns; a flight ends and gives its answer to those that joined it.
Return(id) ==
  /\ At(id, "return")
  /\ LET c == ChartOf(id)
         leads == c \in DOMAIN flights /\ flights[c] = id
         joined == {i \in DOMAIN calls : leads /\ ChartOf(i) = c /\ calls[i].pc = "join"}
     IN /\ flights' = IF leads THEN Delete(flights, c) ELSE flights
        /\ calls' = [i \in DOMAIN calls \ {id} |->
                       IF i \in joined
                       THEN [calls[i] EXCEPT !.pc = "return", !.answer = calls[id].answer]
                       ELSE calls[i]]
  /\ UNCHANGED <<values, cache, files>>

----------------------------------------------------------------------------
\* custom/schema/request for a values file of the chart.
Request(r, c) ==
  /\ \A i \in DOMAIN calls : Head(i) # r
  /\ calls' = Put(calls, <<r, c>>, Start(c))
  /\ UNCHANGED <<values, cache, flights, files>>

\* ValuesFile.Reload, when the editor reports that a values file has changed.
Reload(c) ==
  /\ values[c] < Len(Checksums[c])
  /\ Calm => calls = EmptyMap
  /\ values' = [values EXCEPT ![c] = @ + 1]
  /\ UNCHANGED <<cache, flights, files, calls>>

Init ==
  /\ values = [c \in Charts |-> 1]
  /\ cache = EmptyMap /\ flights = EmptyMap /\ files = EmptyMap /\ calls = EmptyMap

Step(id) ==
  \/ Read(id) \/ Do(id) \/ Compare(id) \/ Create(id) \/ CreateFails(id)
  \/ Write(id) \/ WriteFails(id) \/ Store(id) \/ Wait(id) \/ Return(id)

Next ==
  \/ \E id \in DOMAIN calls : Step(id)
  \/ \E r \in Requests, c \in Charts : Request(r, c)
  \/ \E c \in Charts : Reload(c)

\* A request's goroutines run, whatever those of another request do; nothing
\* forces a request or a change.
Fairness ==
  \A r \in Requests : WF_vars(\E id \in DOMAIN calls : Head(id) = r /\ Step(id))

Spec == Init /\ [][Next]_vars /\ Fairness

----------------------------------------------------------------------------
TypeOK ==
  /\ values \in [Charts -> Nat] /\ \A c \in Charts : values[c] \in 1 .. Len(Checksums[c])
  /\ IsMap(cache, Charts, Cached)
  /\ IsMap(flights, Charts, DOMAIN calls)
  /\ IsMap(files, Paths, Schemas)
  /\ calls \in [DOMAIN calls -> Frames]
  /\ \A id \in DOMAIN calls : Head(id) \in Requests /\ Tail(id) \in Seq(Charts) /\ Len(id) > 1

Root(id) == Len(id) = 2

\* The charts that may be without a schema: GetJSONSchemaForChart can fail.
MayFail == Faulty \cup Unwritable

\* What yaml-language-server is told to use is there, and once no other request
\* is at work it is complete: every file it refers to is there too, but those of
\* charts whose schema cannot be made or written.
RefsExist ==
  \A id \in DOMAIN calls : At(id, "return") /\ Root(id) /\ calls[id].answer # NoFile =>
    /\ calls[id].answer \in DOMAIN files
    /\ DOMAIN calls = {id} =>
         \A ref \in files[calls[id].answer].refs : ref.chart \notin MayFail => ref \in DOMAIN files

\* It was made from values with the checksum that the chart's values have now, if
\* those were not changed while the schema was being made.  They need not be the
\* values of now: a change that keeps the checksum goes unnoticed.  Only the file
\* of a chart whose file cannot always be written may have been cut short.
AnswerIsFresh ==
  Calm => \A id \in DOMAIN calls : At(id, "return") /\ Root(id) /\ calls[id].answer # NoFile =>
            LET schema == files[calls[id].answer]
            IN IF schema = Blank THEN ChartOf(id) \in Unwritable
               ELSE Checksums[ChartOf(id)][schema.built] = Checksum(ChartOf(id))

\* Every request is answered, though charts refer to each other: cache_test.go
\* fails with "Test didn't finish in time" when one is not.
EventuallyAnswered ==
  \A r \in Requests, c \in Charts : (<<r, c>> \in DOMAIN calls) ~> (<<r, c>> \notin DOMAIN calls)

\* The charts whose schema has yet to be made, again or for the first time.
Outdated == {c \in Charts \ Faulty : c \notin DOMAIN cache \/ c \in Stale}

\* Every request is answered as long as a chart's values change only when every
\* other chart has a current schema: a flight then waits for no call that makes
\* a schema, and so for none that asks for the flight's own chart.
AnsweredOneByOne ==
  [](calls = EmptyMap /\ Stale # {} => Cardinality(Outdated) = 1) => EventuallyAnswered
=============================================================================
