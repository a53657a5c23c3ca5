------------------------- MODULE SchemaCacheProofs -------------------------
(***************************************************************************)
(* What a request for a schema is answered, for any charts, related in any   *)
(* way, any number of requests at once and any changes of values.            *)
(***************************************************************************)
EXTENDS SchemaCache, DataTheorems

----------------------------------------------------------------------------
(* Call stacks.                                                             *)

IsStack(id) ==
  /\ id \in Seq(Requests \cup Charts) /\ Len(id) > 1
  /\ Head(id) \in Requests /\ Tail(id) \in Seq(Charts)

LEMMA StackChart ==
  ASSUME NEW id, IsStack(id)
  PROVE  ChartOf(id) \in Charts
<1>1. Tail(id)[Len(id) - 1] \in Charts
  BY DEF IsStack
<1>2. Tail(id)[Len(id) - 1] = id[Len(id)]
  BY DEF IsStack
<1> QED
  BY <1>1, <1>2 DEF ChartOf, Last

LEMMA RequestStack ==
  ASSUME NEW r \in Requests, NEW c \in Charts
  PROVE  IsStack(<<r, c>>) /\ ChartOf(<<r, c>>) = c
BY DEF IsStack, ChartOf, Last

LEMMA ChildStack ==
  ASSUME NEW id, IsStack(id), NEW c \in Charts
  PROVE  IsStack(Append(id, c)) /\ ChartOf(Append(id, c)) = c
<1>1. /\ Append(id, c) \in Seq(Requests \cup Charts)
      /\ Len(Append(id, c)) = Len(id) + 1 /\ Len(Append(id, c)) > 1
      /\ Head(Append(id, c)) = Head(id)
  BY DEF IsStack
<1>2. Tail(Append(id, c)) = Append(Tail(id), c)
  BY DEF IsStack
<1>3. Append(id, c)[Len(id) + 1] = c
  BY DEF IsStack
<1> QED
  BY <1>1, <1>2, <1>3 DEF IsStack, ChartOf, Last

----------------------------------------------------------------------------
(* Types.                                                                   *)

\* A flight is known under the chart of the call that leads it, so none is left
\* behind when that call returns.
TypeInv ==
  /\ TypeOK
  /\ \A id \in DOMAIN calls : IsStack(id)
  /\ \A c \in DOMAIN flights : ChartOf(flights[c]) = c

LEMMA CallFields ==
  ASSUME TypeInv, NEW id \in DOMAIN calls
  PROVE  /\ calls[id] \in Frames
         /\ calls[id].cached \in Cached /\ calls[id].schema \in Schemas
         /\ calls[id].answer \in Paths \cup {NoFile}
         /\ calls[id].cached.checksum \in Nat /\ calls[id].cached.file \in Paths
         /\ ChartOf(id) \in Charts
BY StackChart DEF TypeInv, TypeOK, Frames, Cached

LEMMA PathTyped ==
  ASSUME TypeInv, NEW c \in Charts
  PROVE  /\ values[c] \in Nat /\ values[c] \in 1 .. Len(Checksums[c])
         /\ Checksum(c) \in Nat
         /\ Path(c) \in Paths /\ Path(c).chart = c /\ Path(c).checksum = Checksum(c)
<1>1. values[c] \in Nat /\ values[c] \in 1 .. Len(Checksums[c])
  BY DEF TypeInv, TypeOK
<1>2. Checksums[c] \in Seq(Nat)
  BY ChartsAssumption
<1>3. Checksum(c) \in Nat
  BY <1>1, <1>2 DEF Checksum
<1> QED
  BY <1>1, <1>3 DEF Path, Paths

LEMMA StartTyped ==
  ASSUME NEW c \in Charts
  PROVE  Start(c) \in Frames /\ Start(c).pc = "read"
<1>1. /\ Blank \in Schemas
      /\ [checksum |-> 0, file |-> [chart |-> c, checksum |-> 0]] \in Cached
  BY DEF Blank, Schemas, Cached, Paths
<1> QED
  BY <1>1 DEF Start, Frames

\* A step of one call that starts no others and ends none.
Moves(id) ==
  /\ DOMAIN calls' = DOMAIN calls
  /\ calls' \in [DOMAIN calls -> Frames]
  /\ \A i \in DOMAIN calls \ {id} : calls'[i] = calls[i]

LEMMA FrameMoves ==
  ASSUME TypeInv, NEW id \in DOMAIN calls, NEW frame \in Frames,
         calls' = [calls EXCEPT ![id] = frame]
  PROVE  Moves(id) /\ calls'[id] = frame
BY DEF TypeInv, TypeOK, Moves

LEMMA GotoMoves ==
  ASSUME TypeInv, NEW id \in DOMAIN calls,
         NEW pc \in {"create", "join", "compare", "return"}, Goto(id, pc)
  PROVE  /\ Moves(id) /\ calls'[id].pc = pc
         /\ calls'[id].cached = calls[id].cached
         /\ calls'[id].schema = calls[id].schema
         /\ calls'[id].answer = calls[id].answer
<1> DEFINE frame == [calls[id] EXCEPT !.pc = pc]
<1>1. /\ frame \in Frames /\ frame.pc = pc /\ frame.cached = calls[id].cached
      /\ frame.schema = calls[id].schema /\ frame.answer = calls[id].answer
  BY CallFields DEF Frames
<1>2. calls' = [calls EXCEPT ![id] = frame]
  BY DEF Goto
<1> HIDE DEF frame
<1> QED
  BY <1>1, <1>2, FrameMoves

LEMMA AnswerMoves ==
  ASSUME TypeInv, NEW id \in DOMAIN calls, NEW file \in Paths \cup {NoFile},
         Answer(id, file)
  PROVE  Moves(id) /\ calls'[id].pc = "return" /\ calls'[id].answer = file
<1> DEFINE frame == [calls[id] EXCEPT !.pc = "return", !.answer = file]
<1>1. frame \in Frames /\ frame.pc = "return" /\ frame.answer = file
  BY CallFields DEF Frames
<1>2. calls' = [calls EXCEPT ![id] = frame]
  BY DEF Answer
<1> HIDE DEF frame
<1> QED
  BY <1>1, <1>2, FrameMoves

LEMMA ReadMoves ==
  ASSUME TypeInv, NEW id \in DOMAIN calls, Read(id)
  PROVE  /\ Moves(id)
         /\ \/ calls'[id].pc = "create"
            \/ /\ calls'[id].pc = "do" /\ ChartOf(id) \in DOMAIN cache
               /\ calls'[id].cached = cache[ChartOf(id)]
<1>1. CASE ChartOf(id) \in DOMAIN cache
  <2> DEFINE frame == [calls[id] EXCEPT !.pc = "do", !.cached = cache[ChartOf(id)]]
  <2>1. cache[ChartOf(id)] \in Cached
    BY <1>1, MapValue DEF TypeInv, TypeOK
  <2>2. frame \in Frames /\ frame.pc = "do" /\ frame.cached = cache[ChartOf(id)]
    BY <2>1, CallFields DEF Frames
  <2>3. calls' = [calls EXCEPT ![id] = frame]
    BY <1>1 DEF Read
  <2> HIDE DEF frame
  <2> QED
    BY <1>1, <2>2, <2>3, FrameMoves
<1>2. CASE ChartOf(id) \notin DOMAIN cache
  BY <1>2, GotoMoves DEF Read
<1> QED
  BY <1>1, <1>2

LEMMA CreateMoves ==
  ASSUME TypeInv, NEW id \in DOMAIN calls, Create(id)
  PROVE  /\ Moves(id) /\ calls'[id].pc = "write"
         /\ calls'[id].schema.built = values[ChartOf(id)]
         /\ calls'[id].schema.refs = {Path(c) : c \in Related[ChartOf(id)]}
<1> DEFINE schema == [built |-> values[ChartOf(id)],
                      refs |-> {Path(c) : c \in Related[ChartOf(id)]}]
           frame == [calls[id] EXCEPT !.pc = "write", !.schema = schema]
<1>1. /\ schema \in Schemas /\ schema.built = values[ChartOf(id)]
      /\ schema.refs = {Path(c) : c \in Related[ChartOf(id)]}
  <2>1. Related[ChartOf(id)] \subseteq Charts /\ ChartOf(id) \in Charts
    BY CallFields, ChartsAssumption
  <2>2. {Path(c) : c \in Related[ChartOf(id)]} \subseteq Paths
    BY <2>1, PathTyped
  <2> QED
    BY <2>1, <2>2, PathTyped DEF Schemas
<1> HIDE DEF schema
<1>2. frame \in Frames /\ frame.pc = "write" /\ frame.schema = schema
  BY <1>1, CallFields DEF Frames
<1>3. calls' = [calls EXCEPT ![id] = frame]
  BY DEF Create, schema
<1> HIDE DEF frame
<1> QED
  BY <1>1, <1>2, <1>3, FrameMoves

LEMMA WriteMoves ==
  ASSUME TypeInv, NEW id \in DOMAIN calls, Write(id)
  PROVE  /\ Moves(id) /\ calls'[id].pc = "store"
         /\ calls'[id].answer = Path(ChartOf(id))
<1> DEFINE frame == [calls[id] EXCEPT !.pc = "store", !.answer = Path(ChartOf(id))]
<1>1. frame \in Frames /\ frame.pc = "store" /\ frame.answer = Path(ChartOf(id))
  BY CallFields, PathTyped DEF Frames
<1>2. calls' = [calls EXCEPT ![id] = frame]
  BY DEF Write
<1> HIDE DEF frame
<1> QED
  BY <1>1, <1>2, FrameMoves

\* What a failed write leaves: nothing new, or an empty file of the chart.
LEMMA WriteFailsLeaves ==
  ASSUME TypeInv, NEW id \in DOMAIN calls, WriteFails(id)
  PROVE  /\ Moves(id) /\ calls[id].pc = "write" /\ ChartOf(id) \in Unwritable
         /\ calls'[id].pc = "return" /\ calls'[id].answer = NoFile
         /\ UNCHANGED <<values, cache, flights>>
         /\ IsMap(files', Paths, Schemas) /\ DOMAIN files \subseteq DOMAIN files'
         /\ \A path \in DOMAIN files' :
              \/ path \in DOMAIN files /\ files'[path] = files[path]
              \/ path.chart \in Unwritable /\ files'[path] = Blank
<1> DEFINE path == Path(ChartOf(id))
<1>1. path \in Paths /\ path.chart = ChartOf(id) /\ Blank \in Schemas
  BY CallFields, PathTyped DEF Blank, Schemas
<1>2. files' = files \/ files' = Put(files, path, Blank)
  BY DEF WriteFails
<1> HIDE DEF path
<1>3. IsMap(files', Paths, Schemas)
  BY <1>1, <1>2, PutIsMap DEF TypeInv, TypeOK
<1>4. ChartOf(id) \in Unwritable
  BY DEF WriteFails
<1>5. /\ DOMAIN files \subseteq DOMAIN files'
      /\ \A p \in DOMAIN files' : \/ p \in DOMAIN files /\ files'[p] = files[p]
                                  \/ p.chart \in Unwritable /\ files'[p] = Blank
  BY <1>1, <1>2, <1>4 DEF Put
<1>6. /\ Moves(id) /\ calls'[id].pc = "return" /\ calls'[id].answer = NoFile
      /\ calls[id].pc = "write" /\ UNCHANGED <<values, cache, flights>>
  BY AnswerMoves DEF WriteFails, At
<1> QED
  BY <1>3, <1>4, <1>5, <1>6

\* The two steps that start or end calls.
Children(id) == {Append(id, c) : c \in Related[ChartOf(id)]}

LEMMA StoreStarts ==
  ASSUME TypeInv, NEW id \in DOMAIN calls, Store(id)
  PROVE  /\ calls' = [i \in DOMAIN calls' |-> calls'[i]]
         /\ DOMAIN calls' = DOMAIN calls \cup Children(id)
         /\ \A i \in DOMAIN calls' :
              \/ /\ i \in Children(id) /\ IsStack(i)
                 /\ calls'[i] \in Frames /\ calls'[i].pc = "read"
              \/ /\ i = id /\ calls'[id] \in Frames /\ calls'[id].pc = "wait"
                 /\ calls'[id].answer = calls[id].answer
              \/ i \in DOMAIN calls \ {id} /\ calls'[i] = calls[i]
<1> DEFINE frame == [calls[id] EXCEPT !.pc = "wait"]
<1>1. ASSUME NEW i \in Children(id)
      PROVE  IsStack(i) /\ Start(ChartOf(i)) \in Frames /\ Start(ChartOf(i)).pc = "read"
  <2>1. PICK c \in Related[ChartOf(id)] : i = Append(id, c)
    BY DEF Children
  <2>2. c \in Charts
    BY CallFields, ChartsAssumption
  <2>3. IsStack(i) /\ ChartOf(i) = c
    BY <2>1, <2>2, ChildStack DEF TypeInv
  <2> QED
    BY <2>2, <2>3, StartTyped
<1>2. frame \in Frames /\ frame.pc = "wait" /\ frame.answer = calls[id].answer
  BY CallFields DEF Frames
<1>3. calls' = [i \in DOMAIN calls \cup Children(id) |->
                  IF i \in Children(id) THEN Start(ChartOf(i))
                  ELSE IF i = id THEN frame ELSE calls[i]]
  BY DEF Store, Children
<1> HIDE DEF frame
<1> QED
  BY <1>1, <1>2, <1>3

LEMMA ReturnEnds ==
  ASSUME TypeInv, NEW id \in DOMAIN calls, Return(id)
  PROVE  /\ DOMAIN calls' = DOMAIN calls \ {id}
         /\ calls' = [i \in DOMAIN calls' |-> calls'[i]]
         /\ \A i \in DOMAIN calls' :
              \/ calls'[i] = calls[i]
              \/ /\ ChartOf(i) = ChartOf(id) /\ calls[i].pc = "join"
                 /\ calls'[i] \in Frames /\ calls'[i].pc = "return"
                 /\ calls'[i].answer = calls[id].answer
<1>1. ASSUME NEW i \in DOMAIN calls
      PROVE  LET frame == [calls[i] EXCEPT !.pc = "return", !.answer = calls[id].answer]
             IN frame \in Frames /\ frame.pc = "return" /\ frame.answer = calls[id].answer
  BY CallFields DEF Frames
<1> DEFINE leads == ChartOf(id) \in DOMAIN flights /\ flights[ChartOf(id)] = id
           joined == {i \in DOMAIN calls :
                        leads /\ ChartOf(i) = ChartOf(id) /\ calls[i].pc = "join"}
<1>2. calls' = [i \in DOMAIN calls \ {id} |->
                  IF i \in joined
                  THEN [calls[i] EXCEPT !.pc = "return", !.answer = calls[id].answer]
                  ELSE calls[i]]
  BY DEF Return
<1>3. \A i \in joined : ChartOf(i) = ChartOf(id) /\ calls[i].pc = "join"
  OBVIOUS
<1> HIDE DEF joined
<1> QED
  BY <1>1, <1>2, <1>3

LEMMA RequestStarts ==
  ASSUME NEW r \in Requests, NEW c \in Charts, Request(r, c)
  PROVE  /\ DOMAIN calls' = DOMAIN calls \cup {<<r, c>>}
         /\ calls' = [i \in DOMAIN calls' |-> calls'[i]]
         /\ calls'[<<r, c>>] \in Frames /\ calls'[<<r, c>>].pc = "read"
         /\ \A i \in DOMAIN calls \ {<<r, c>>} : calls'[i] = calls[i]
<1> DEFINE frame == Start(c)
<1>1. frame \in Frames /\ frame.pc = "read"
  BY StartTyped
<1>2. calls' = Put(calls, <<r, c>>, frame)
  BY DEF Request
<1> HIDE DEF frame
<1> QED
  BY <1>1, <1>2 DEF Put

----------------------------------------------------------------------------
\* A step that keeps the calls keeps the flights' leaders.
LEMMA TypeCarry ==
  ASSUME TypeInv, NEW id, Moves(id) \/ UNCHANGED calls,
         values' \in [Charts -> Nat], \A c \in Charts : values'[c] \in 1 .. Len(Checksums[c]),
         IsMap(cache', Charts, Cached),
         IsMap(files', Paths, Schemas), UNCHANGED flights
  PROVE  TypeInv'
<1>1. DOMAIN calls' = DOMAIN calls /\ calls' \in [DOMAIN calls' -> Frames]
  BY DEF Moves, TypeInv, TypeOK
<1> QED
  BY <1>1 DEF TypeInv, TypeOK, IsMap

LEMMA DoTyped ==
  ASSUME TypeInv, NEW id \in DOMAIN calls, Do(id)
  PROVE  Moves(id) /\ calls'[id].pc \in {"join", "compare"}
         /\ calls'[id].cached = calls[id].cached /\ TypeInv'
<1>1. /\ Moves(id) /\ calls'[id].pc \in {"join", "compare"}
      /\ calls'[id].cached = calls[id].cached
  BY GotoMoves DEF Do
<1>2. UNCHANGED <<values, cache, files>>
  BY DEF Do
<1>3. CASE UNCHANGED flights
  BY <1>1, <1>2, <1>3, TypeCarry DEF TypeInv, TypeOK
<1>4. CASE flights' = Put(flights, ChartOf(id), id)
  <2>1. DOMAIN calls' = DOMAIN calls /\ calls' \in [DOMAIN calls' -> Frames]
    BY <1>1 DEF Moves
  <2>2. IsMap(flights', Charts, DOMAIN calls')
    BY <1>4, <2>1, CallFields, PutIsMap DEF TypeInv, TypeOK
  <2>3. \A c \in DOMAIN flights' : ChartOf(flights'[c]) = c
    BY <1>4 DEF TypeInv, Put
  <2> QED
    BY <1>1, <1>2, <2>1, <2>2, <2>3 DEF TypeInv, TypeOK
<1> QED
  BY <1>1, <1>3, <1>4 DEF Do

LEMMA StoreTyped ==
  ASSUME TypeInv, NEW id \in DOMAIN calls, calls[id].answer \in Paths, Store(id)
  PROVE  TypeInv'
<1>1. /\ calls' \in [DOMAIN calls' -> Frames] /\ DOMAIN calls \subseteq DOMAIN calls'
      /\ \A i \in DOMAIN calls' : IsStack(i)
  <2>1. \A i \in DOMAIN calls' : calls'[i] \in Frames /\ IsStack(i)
    BY StoreStarts, CallFields DEF TypeInv
  <2> QED
    BY <2>1, StoreStarts
<1> DEFINE entry == [checksum |-> Checksum(ChartOf(id)), file |-> calls[id].answer]
<1>2. entry \in Cached
  BY CallFields, PathTyped DEF Cached
<1>3. cache' = Put(cache, ChartOf(id), entry) /\ UNCHANGED <<values, flights, files>>
  BY DEF Store
<1> HIDE DEF entry
<1>4. IsMap(cache', Charts, Cached)
  BY <1>2, <1>3, CallFields, PutIsMap DEF TypeInv, TypeOK
<1>5. IsMap(flights', Charts, DOMAIN calls')
  BY <1>1, <1>3 DEF TypeInv, TypeOK, IsMap
<1> QED
  BY <1>1, <1>3, <1>4, <1>5 DEF TypeInv, TypeOK, IsStack

LEMMA ReturnTyped ==
  ASSUME TypeInv, NEW id \in DOMAIN calls, Return(id)
  PROVE  TypeInv'
<1>1. /\ DOMAIN calls' = DOMAIN calls \ {id}
      /\ calls' \in [DOMAIN calls' -> Frames]
  BY ReturnEnds, CallFields
<1>2. /\ flights' = IF ChartOf(id) \in DOMAIN flights /\ flights[ChartOf(id)] = id
                    THEN Delete(flights, ChartOf(id)) ELSE flights
      /\ UNCHANGED <<values, cache, files>>
  BY DEF Return
<1>3. /\ DOMAIN flights' \subseteq DOMAIN flights
      /\ flights' = [c \in DOMAIN flights' |-> flights[c]]
  BY <1>2 DEF Delete, DeleteAll, Restrict, TypeInv, TypeOK, IsMap
<1>4. \A c \in DOMAIN flights' : flights[c] # id
  BY <1>2 DEF Delete, DeleteAll, Restrict, TypeInv
<1>5. IsMap(flights', Charts, DOMAIN calls')
  BY <1>1, <1>3, <1>4 DEF TypeInv, TypeOK, IsMap
<1> QED
  BY <1>1, <1>2, <1>3, <1>5 DEF TypeInv, TypeOK

LEMMA RequestTyped ==
  ASSUME TypeInv, NEW r \in Requests, NEW c \in Charts, Request(r, c)
  PROVE  TypeInv'
<1>1. calls' \in [DOMAIN calls' -> Frames] /\ DOMAIN calls \subseteq DOMAIN calls'
  BY RequestStarts, CallFields
<1>2. \A i \in DOMAIN calls' : IsStack(i)
  <2> DEFINE id == <<r, c>>
  <2>1. DOMAIN calls' = DOMAIN calls \cup {id}
    BY RequestStarts
  <2>2. IsStack(id)
    BY RequestStack
  <2> HIDE DEF id
  <2> QED
    BY <2>1, <2>2 DEF TypeInv
<1>3. UNCHANGED <<values, cache, flights, files>>
  BY DEF Request
<1>4. IsMap(flights', Charts, DOMAIN calls')
  BY <1>1, <1>3 DEF TypeInv, TypeOK, IsMap
<1> QED
  BY <1>1, <1>2, <1>3, <1>4 DEF TypeInv, TypeOK, IsStack

LEMMA ReloadTyped ==
  ASSUME TypeInv, NEW c \in Charts, Reload(c)
  PROVE  TypeInv'
<1>1. /\ values' = [values EXCEPT ![c] = @ + 1]
      /\ values[c] \in Nat /\ values[c] >= 1
      /\ values[c] < Len(Checksums[c]) /\ Len(Checksums[c]) \in Nat
  BY ChartsAssumption DEF Reload, TypeInv, TypeOK
<1>2. values' \in [Charts -> Nat] /\ \A d \in Charts : values'[d] \in 1 .. Len(Checksums[d])
  BY <1>1 DEF TypeInv, TypeOK
<1>3. UNCHANGED <<cache, flights, files, calls>>
  BY DEF Reload
<1> QED
  BY <1>2, <1>3, TypeCarry DEF TypeInv, TypeOK

----------------------------------------------------------------------------
(* Answers.                                                                 *)

\* The file is there, is the chart's, and if values change only between requests
\* has the checksum in its name.
Sound(file, c, checksum) ==
  file \in DOMAIN files /\ file.chart = c /\ (Calm => file.checksum = checksum)

\* The file was made from values with the checksum in its name, or was cut short.
Made(path, schema) ==
  IF schema = Blank THEN path.chart \in Unwritable
  ELSE Checksums[path.chart][schema.built] = path.checksum

\* What a call has in hand, at each point of its code.
CallSound(id) ==
  /\ calls[id].pc \in {"do", "compare", "join"} =>
       Sound(calls[id].cached.file, ChartOf(id), calls[id].cached.checksum)
  /\ calls[id].pc = "write" /\ Calm => calls[id].schema.built = values[ChartOf(id)]
  /\ calls[id].pc \in {"store", "wait"} =>
       Sound(calls[id].answer, ChartOf(id), Checksum(ChartOf(id)))
  /\ calls[id].pc = "return" =>
       \/ calls[id].answer = NoFile
       \/ Sound(calls[id].answer, ChartOf(id), Checksum(ChartOf(id)))

AnswerInv ==
  /\ Calm => \A path \in DOMAIN files : Made(path, files[path])
  /\ \A c \in DOMAIN cache : Sound(cache[c].file, c, cache[c].checksum)
  /\ \A id \in DOMAIN calls : CallSound(id)

\* A request that is answered is answered with a file that is there.
AnswerExists ==
  \A id \in DOMAIN calls : At(id, "return") /\ calls[id].answer # NoFile =>
    calls[id].answer \in DOMAIN files

\* Schemas are written over, and never removed: what was sound stays so.
LEMMA SoundStays ==
  ASSUME DOMAIN files \subseteq DOMAIN files', UNCHANGED values,
         \A i \in DOMAIN calls' : (i \in DOMAIN calls /\ calls'[i] = calls[i]) \/ CallSound(i)',
         Calm => \A path \in DOMAIN files' :
                   (path \in DOMAIN files /\ files'[path] = files[path]) \/ Made(path, files'[path]),
         \A c \in DOMAIN cache' : (c \in DOMAIN cache /\ cache'[c] = cache[c])
                                  \/ Sound(cache[c].file, c, cache[c].checksum)',
         AnswerInv
  PROVE  AnswerInv'
<1>1. ASSUME NEW i \in DOMAIN calls', i \in DOMAIN calls, calls'[i] = calls[i]
      PROVE  CallSound(i)'
  BY <1>1 DEF AnswerInv, CallSound, Sound, Checksum
<1>2. ASSUME NEW c \in DOMAIN cache', c \in DOMAIN cache, cache'[c] = cache[c]
      PROVE  Sound(cache[c].file, c, cache[c].checksum)'
  BY <1>2 DEF AnswerInv, Sound
<1>3. Calm => \A path \in DOMAIN files' : Made(path, files'[path])
  BY DEF AnswerInv
<1> QED
  BY <1>1, <1>2, <1>3 DEF AnswerInv

LEMMA StepSound ==
  ASSUME TypeInv, AnswerInv, NEW id \in DOMAIN calls, Step(id)
  PROVE  AnswerInv'
<1>1. CASE Read(id)
  <2>1. CallSound(id)'
    BY <1>1, ReadMoves DEF AnswerInv, CallSound, Sound, Read
  <2> QED
    BY <1>1, <2>1, ReadMoves, SoundStays DEF Moves, Read, AnswerInv
<1>2. CASE Do(id)
  <2>1. CallSound(id)'
    BY <1>2, DoTyped DEF AnswerInv, CallSound, Sound, Do, At
  <2> QED
    BY <1>2, <2>1, DoTyped, SoundStays DEF Moves, Do, AnswerInv
<1>3. CASE Compare(id)
  <2>1. UNCHANGED <<values, cache, files>> /\ Moves(id)
    BY <1>3, CallFields, GotoMoves, AnswerMoves DEF Compare
  <2>2. CallSound(id)'
    BY <1>3, <2>1, CallFields, GotoMoves, AnswerMoves
    DEF AnswerInv, CallSound, Sound, Checksum, Compare, At
  <2> QED
    BY <2>1, <2>2, SoundStays DEF Moves, AnswerInv
<1>4. CASE Create(id)
  <2>1. CallSound(id)'
    BY <1>4, CreateMoves DEF CallSound, Create
  <2> QED
    BY <1>4, <2>1, CreateMoves, SoundStays DEF Moves, Create, AnswerInv
<1>5. CASE CreateFails(id)
  <2>1. Moves(id) /\ CallSound(id)'
    BY <1>5, AnswerMoves DEF CallSound, CreateFails
  <2> QED
    BY <1>5, <2>1, SoundStays DEF Moves, CreateFails, AnswerInv
<1>6. CASE Write(id)
  <2> DEFINE path == Path(ChartOf(id))
             schema == calls[id].schema
  <2>1. /\ path.chart = ChartOf(id) /\ path.checksum = Checksum(ChartOf(id))
        /\ values[ChartOf(id)] # 0
    BY CallFields, PathTyped
  <2>2. Calm => Made(path, schema)
    <3>1. Calm => schema.built = values[ChartOf(id)]
      BY <1>6 DEF Write, At, AnswerInv, CallSound
    <3>2. Blank.built = 0
      BY DEF Blank
    <3> HIDE DEF path, schema
    <3> QED
      BY <2>1, <3>1, <3>2 DEF Made, Checksum
  <2>3. files' = Put(files, path, schema) /\ UNCHANGED <<values, cache>>
    BY <1>6 DEF Write
  <2>4. Moves(id) /\ calls'[id].pc = "store" /\ calls'[id].answer = path
    BY <1>6, WriteMoves
  <2> HIDE DEF path, schema
  <2>5. /\ DOMAIN files' = DOMAIN files \cup {path}
        /\ Calm => \A p \in DOMAIN files' :
                     (p \in DOMAIN files /\ files'[p] = files[p]) \/ Made(p, files'[p])
    BY <2>2, <2>3 DEF Put
  <2>6. CallSound(id)'
    BY <2>1, <2>3, <2>4, <2>5 DEF CallSound, Sound, Checksum
  <2> QED
    BY <2>3, <2>4, <2>5, <2>6, SoundStays DEF Moves
<1>7. CASE Store(id)
  <2> DEFINE entry == [checksum |-> Checksum(ChartOf(id)), file |-> calls[id].answer]
  <2>1. Sound(calls[id].answer, ChartOf(id), Checksum(ChartOf(id)))
    BY <1>7 DEF Store, At, AnswerInv, CallSound
  <2>2. entry.checksum = Checksum(ChartOf(id)) /\ entry.file = calls[id].answer
    OBVIOUS
  <2>3. cache' = Put(cache, ChartOf(id), entry) /\ UNCHANGED <<values, files>>
    BY <1>7 DEF Store
  <2> HIDE DEF entry
  <2>4. \A c \in DOMAIN cache' : (c \in DOMAIN cache /\ cache'[c] = cache[c])
                                 \/ Sound(cache[c].file, c, cache[c].checksum)'
    BY <2>1, <2>2, <2>3 DEF Put, Sound
  <2>5. \A i \in DOMAIN calls' : (i \in DOMAIN calls /\ calls'[i] = calls[i]) \/ CallSound(i)'
    <3>1. \A i : calls'[i].pc = "read" => CallSound(i)'
      BY DEF CallSound
    <3>2. Checksum(ChartOf(id))' = Checksum(ChartOf(id))
      BY <2>3 DEF Checksum
    <3>3. calls'[id].pc = "wait" /\ calls'[id].answer = calls[id].answer => CallSound(id)'
      BY <2>1, <2>3, <3>2 DEF CallSound, Sound
    <3> QED
      BY <1>7, <3>1, <3>3, StoreStarts
  <2> QED
    BY <2>3, <2>4, <2>5, SoundStays DEF AnswerInv
<1>8. CASE Wait(id)
  <2>1. Moves(id) /\ CallSound(id)'
    BY <1>8, GotoMoves DEF AnswerInv, CallSound, Sound, Checksum, Wait, At
  <2> QED
    BY <1>8, <2>1, SoundStays DEF Moves, Wait, AnswerInv
<1>9. CASE Return(id)
  <2>1. \/ calls[id].answer = NoFile
        \/ Sound(calls[id].answer, ChartOf(id), Checksum(ChartOf(id)))
    BY <1>9 DEF Return, At, AnswerInv, CallSound
  <2>2. UNCHANGED <<values, cache, files>>
    BY <1>9 DEF Return
  <2>3. \A i \in DOMAIN calls' : (i \in DOMAIN calls /\ calls'[i] = calls[i]) \/ CallSound(i)'
    BY <1>9, <2>1, <2>2, ReturnEnds DEF CallSound, Sound, Checksum
  <2> QED
    BY <2>2, <2>3, SoundStays DEF AnswerInv
<1>10. CASE WriteFails(id)
  <2>1. CallSound(id)'
    BY <1>10, WriteFailsLeaves DEF CallSound
  <2>2. \A path \in DOMAIN files' :
          (path \in DOMAIN files /\ files'[path] = files[path]) \/ Made(path, files'[path])
    BY <1>10, WriteFailsLeaves DEF Made
  <2> QED
    BY <1>10, <2>1, <2>2, WriteFailsLeaves, SoundStays DEF Moves, AnswerInv
<1> QED
  BY <1>1, <1>2, <1>3, <1>4, <1>5, <1>6, <1>7, <1>8, <1>9, <1>10 DEF Step

LEMMA NextSound ==
  ASSUME TypeInv, AnswerInv, [Next]_vars
  PROVE  AnswerInv'
<1>1. ASSUME NEW r \in Requests, NEW c \in Charts, Request(r, c)
      PROVE  AnswerInv'
  <2>1. \A i \in DOMAIN calls' : (i \in DOMAIN calls /\ calls'[i] = calls[i]) \/ CallSound(i)'
    BY <1>1, RequestStarts DEF CallSound
  <2> QED
    BY <1>1, <2>1, SoundStays DEF Request, AnswerInv
<1>2. ASSUME NEW c \in Charts, Reload(c)
      PROVE  AnswerInv'
  <2>1. CASE Calm
    BY <1>2, <2>1 DEF Reload, EmptyMap, AnswerInv, Sound
  <2>2. CASE ~Calm
    BY <1>2, <2>2 DEF Reload, AnswerInv, CallSound, Sound
  <2> QED
    BY <2>1, <2>2
<1>3. CASE UNCHANGED vars
  BY <1>3, SoundStays DEF vars, AnswerInv
<1> QED
  BY <1>1, <1>2, <1>3, StepSound DEF Next

LEMMA NextTyped ==
  ASSUME TypeInv, AnswerInv, [Next]_vars
  PROVE  TypeInv'
<1>1. ASSUME NEW id \in DOMAIN calls, Step(id)
      PROVE  TypeInv'
  <2>1. CASE Read(id) \/ Compare(id) \/ Create(id) \/ CreateFails(id) \/ Wait(id)
    <3>1. Moves(id)
      BY <2>1, CallFields, ReadMoves, GotoMoves, AnswerMoves, CreateMoves
      DEF Compare, CreateFails, Wait
    <3>2. UNCHANGED <<values, cache, flights, files>>
      BY <2>1 DEF Read, Compare, Create, CreateFails, Wait
    <3> QED
      BY <3>1, <3>2, TypeCarry DEF TypeInv, TypeOK
  <2>2. CASE Write(id)
    <3>1. IsMap(files', Paths, Schemas)
      BY <2>2, CallFields, PathTyped, PutIsMap DEF Write, TypeInv, TypeOK
    <3>2. UNCHANGED <<values, cache, flights>>
      BY <2>2 DEF Write
    <3> QED
      BY <2>2, <3>1, <3>2, WriteMoves, TypeCarry DEF TypeInv, TypeOK
  <2>3. CASE Store(id)
    <3>1. calls[id].answer \in Paths
      BY <2>3 DEF Store, At, AnswerInv, CallSound, Sound, TypeInv, TypeOK, IsMap
    <3> QED
      BY <2>3, <3>1, StoreTyped
  <2>4. CASE WriteFails(id)
    BY <2>4, WriteFailsLeaves, TypeCarry DEF TypeInv, TypeOK
  <2> QED
    BY <1>1, <2>1, <2>2, <2>3, <2>4, DoTyped, ReturnTyped DEF Step
<1>2. CASE UNCHANGED vars
  BY <1>2, TypeCarry DEF vars, TypeInv, TypeOK
<1> QED
  BY <1>1, <1>2, RequestTyped, ReloadTyped DEF Next

----------------------------------------------------------------------------
(* Families: the calls that a call has started, and the files a schema names. *)

\* A call that was started by another keeps it waiting.
ParentsWait ==
  \A id \in DOMAIN calls : Len(id) > 2 =>
    Front(id) \in DOMAIN calls /\ calls[Front(id)].pc = "wait"

\* A flight is led by a call that does not wait for a flight itself.
LeadersWork ==
  \A c \in DOMAIN flights : calls[flights[c]].pc \notin {"read", "do", "join"}

LEMMA ChildFront ==
  ASSUME NEW id, IsStack(id), NEW c \in Charts
  PROVE  Len(Append(id, c)) > 2 /\ Front(Append(id, c)) = id /\ Append(id, c) # id
<1> DEFINE child == Append(id, c)
           S == Requests \cup Charts
<1>1. /\ id \in Seq(S) /\ Len(id) \in Nat /\ Len(id) > 1
      /\ child \in Seq(S) /\ Len(child) = Len(id) + 1
      /\ \A k \in 1 .. Len(id) : child[k] = id[k]
  BY DEF IsStack
<1>2. /\ SubSeq(child, 1, Len(child) - 1) \in Seq(S)
      /\ Len(SubSeq(child, 1, Len(child) - 1)) = Len(id)
      /\ \A k \in 1 .. Len(id) : SubSeq(child, 1, Len(child) - 1)[k] = id[k]
  BY <1>1
<1> HIDE DEF child, S
<1>3. SubSeq(child, 1, Len(child) - 1) = id
  BY <1>1, <1>2
<1>4. Len(child) > 2 /\ Front(child) = id /\ child # id
  BY <1>1, <1>3 DEF Front
<1> QED
  BY <1>4 DEF child

\* A call that is about to start others has none yet.
LEMMA ChildrenAreNew ==
  ASSUME TypeInv, ParentsWait, NEW id \in DOMAIN calls, calls[id].pc # "wait"
  PROVE  \A i \in Children(id) : i \notin DOMAIN calls /\ Len(i) > 2 /\ Front(i) = id
<1> SUFFICES ASSUME NEW c \in Related[ChartOf(id)]
             PROVE  LET i == Append(id, c)
                    IN i \notin DOMAIN calls /\ Len(i) > 2 /\ Front(i) = id
  BY DEF Children
<1>1. c \in Charts
  BY CallFields, ChartsAssumption
<1> QED
  BY <1>1, ChildFront DEF ParentsWait, TypeInv

LEMMA ParentsStep ==
  ASSUME TypeInv, ParentsWait, NEW id \in DOMAIN calls, Step(id)
  PROVE  ParentsWait'
<1>1. CASE Moves(id) /\ calls[id].pc # "wait"
  BY <1>1 DEF ParentsWait, Moves
<1>2. CASE Wait(id)
  <2>1. Moves(id)
    BY <1>2, GotoMoves DEF Wait
  <2>2. \A i \in DOMAIN calls : Len(i) > 2 => Front(i) # id
    BY <1>2 DEF Wait
  <2> QED
    BY <2>1, <2>2 DEF ParentsWait, Moves
<1>3. CASE Store(id)
  <2>1. calls[id].pc = "store"
    BY <1>3 DEF Store, At
  <2>2. \A i \in Children(id) : i \notin DOMAIN calls /\ Len(i) > 2 /\ Front(i) = id
    BY <2>1, ChildrenAreNew
  <2>3. /\ DOMAIN calls' = DOMAIN calls \cup Children(id)
        /\ calls'[id].pc = "wait"
        /\ \A i \in DOMAIN calls \ {id} : calls'[i] = calls[i]
    BY <1>3, <2>2, StoreStarts
  <2> QED
    BY <2>1, <2>2, <2>3 DEF ParentsWait
<1>4. CASE Return(id)
  <2>1. calls[id].pc = "return"
    BY <1>4 DEF Return, At
  <2>2. /\ DOMAIN calls' = DOMAIN calls \ {id}
        /\ \A i \in DOMAIN calls' : calls[i].pc = "wait" => calls'[i] = calls[i]
    BY <1>4, ReturnEnds
  <2> QED
    BY <2>1, <2>2 DEF ParentsWait
<1>5. CASE \/ Read(id) \/ Do(id) \/ Compare(id) \/ Create(id) \/ CreateFails(id)
           \/ Write(id) \/ WriteFails(id)
  <2>1. Moves(id)
    BY <1>5, CallFields, ReadMoves, DoTyped, CreateMoves, WriteMoves, WriteFailsLeaves,
       GotoMoves, AnswerMoves
    DEF Compare, CreateFails
  <2>2. calls[id].pc # "wait"
    BY <1>5 DEF Read, Do, Compare, Create, CreateFails, Write, WriteFails, At
  <2> QED
    BY <1>1, <2>1, <2>2
<1> QED
  BY <1>2, <1>3, <1>4, <1>5 DEF Step

LEMMA LeadersStep ==
  ASSUME TypeInv, TypeInv', ParentsWait, LeadersWork, NEW id \in DOMAIN calls, Step(id)
  PROVE  LeadersWork'
<1>1. \A c \in DOMAIN flights : flights[c] \in DOMAIN calls
  BY DEF TypeInv, TypeOK, IsMap
<1>2. CASE Moves(id) /\ UNCHANGED flights /\
           (calls'[id].pc \notin {"read", "do", "join"} \/ calls[id].pc \in {"read", "do"})
  BY <1>1, <1>2 DEF LeadersWork, Moves
<1>3. CASE Read(id)
  BY <1>2, <1>3, ReadMoves DEF Read, At
<1>4. CASE Do(id)
  <2>1. Moves(id) /\ calls'[id].pc \in {"join", "compare"} /\ calls[id].pc = "do"
    BY <1>4, DoTyped DEF Do, At
  <2>2. CASE UNCHANGED flights
    BY <1>2, <2>1, <2>2
  <2>3. CASE Goto(id, "compare") /\ flights' = Put(flights, ChartOf(id), id)
    <3>1. calls'[id].pc = "compare"
      BY <2>3, GotoMoves
    <3> QED
      BY <1>1, <2>1, <2>3, <3>1 DEF LeadersWork, Moves, Put
  <2> QED
    BY <1>4, <2>2, <2>3 DEF Do
<1>5. CASE \/ Compare(id) \/ Create(id) \/ CreateFails(id)
           \/ Write(id) \/ WriteFails(id) \/ Wait(id)
  <2>1. Moves(id) /\ calls'[id].pc \notin {"read", "do", "join"}
    BY <1>5, CallFields, CreateMoves, WriteMoves, WriteFailsLeaves, GotoMoves, AnswerMoves
    DEF Compare, CreateFails, Wait
  <2>2. UNCHANGED flights
    BY <1>5 DEF Compare, Create, CreateFails, Write, WriteFails, Wait
  <2> QED
    BY <1>2, <2>1, <2>2
<1>6. CASE Store(id)
  <2>1. calls[id].pc = "store" /\ UNCHANGED flights
    BY <1>6 DEF Store, At
  <2>2. \A i \in DOMAIN calls : i \notin Children(id)
    BY <2>1, ChildrenAreNew
  <2> QED
    BY <1>1, <1>6, <2>1, <2>2, StoreStarts DEF LeadersWork
<1>7. CASE Return(id)
  <2>1. \A c \in DOMAIN flights' : c \in DOMAIN flights /\ flights'[c] = flights[c]
    BY <1>7 DEF Return, Delete, DeleteAll, Restrict
  <2>2. \A c \in DOMAIN flights' : flights'[c] \in DOMAIN calls'
    BY DEF TypeInv, TypeOK, IsMap
  <2> QED
    BY <1>7, <2>1, <2>2, ReturnEnds DEF LeadersWork
<1> QED
  BY <1>3, <1>4, <1>5, <1>6, <1>7 DEF Step

LEMMA OrderStep ==
  ASSUME TypeInv, TypeInv', ParentsWait, LeadersWork, [Next]_vars
  PROVE  ParentsWait' /\ LeadersWork'
<1>1. ASSUME NEW r \in Requests, NEW c \in Charts, Request(r, c)
      PROVE  ParentsWait' /\ LeadersWork'
  <2> DEFINE id == <<r, c>>
  <2>1. id \notin DOMAIN calls /\ Len(id) = 2
    BY <1>1 DEF Request
  <2>2. /\ DOMAIN calls' = DOMAIN calls \cup {id} /\ UNCHANGED flights
        /\ \A i \in DOMAIN calls \ {id} : calls'[i] = calls[i]
    BY <1>1, RequestStarts DEF Request
  <2>3. \A d \in DOMAIN flights : flights[d] \in DOMAIN calls
    BY DEF TypeInv, TypeOK, IsMap
  <2> HIDE DEF id
  <2>4. ASSUME NEW i \in DOMAIN calls', Len(i) > 2
        PROVE  Front(i) \in DOMAIN calls' /\ calls'[Front(i)].pc = "wait"
    <3>1. ~ (2 > 2)
      OBVIOUS
    <3>2. i # id
      BY <2>1, <2>4, <3>1
    <3>3. i \in DOMAIN calls
      BY <2>2, <2>4, <3>2
    <3> QED
      BY <2>1, <2>2, <2>4, <3>3 DEF ParentsWait
  <2>5. LeadersWork'
    BY <2>1, <2>2, <2>3 DEF LeadersWork
  <2> QED
    BY <2>4, <2>5 DEF ParentsWait
<1>2. CASE UNCHANGED <<calls, flights>>
  BY <1>2 DEF ParentsWait, LeadersWork
<1> QED
  BY <1>1, <1>2, ParentsStep, LeadersStep DEF Next, Reload, vars

----------------------------------------------------------------------------
(* If values change between requests only.                                  *)

Working == {"read", "do", "compare", "create", "write"}

\* The call has still to see to it that the chart has a file.
Owes(id, c) ==
  \/ ChartOf(id) = c /\ calls[id].pc \in Working
  \/ c \in Related[ChartOf(id)] /\ calls[id].pc = "store"

Owed(c) == \E id \in DOMAIN calls : Owes(id, c)

HasFile(c) == c \in MayFail \/ Path(c) \in DOMAIN files

\* What the chart of a call has, at each point of its code.
CallNamed(id) ==
  /\ calls[id].pc = "write" =>
       calls[id].schema.refs = {Path(c) : c \in Related[ChartOf(id)]}
  /\ calls[id].pc \in {"store", "wait", "return"} => HasFile(ChartOf(id))

\* A file that is named is there, or some call has still to write it.
RefSound(ref) ==
  \/ ref.chart \in MayFail \/ ref \in DOMAIN files
  \/ ref = Path(ref.chart) /\ Owed(ref.chart)

FamilyInv ==
  /\ \A id \in DOMAIN calls : CallNamed(id)
  /\ \A path \in DOMAIN files : \A ref \in files[path].refs : RefSound(ref)

\* A step that leaves the values alone and pays what it no longer owes.
LEMMA FamilyStays ==
  ASSUME FamilyInv, UNCHANGED values, DOMAIN files \subseteq DOMAIN files',
         \A i \in DOMAIN calls' : (i \in DOMAIN calls /\ calls'[i] = calls[i]) \/ CallNamed(i)',
         \A c : Owed(c) => Owed(c)' \/ HasFile(c)',
         \A path \in DOMAIN files' : \/ path \in DOMAIN files /\ files'[path] = files[path]
                                     \/ \A ref \in files'[path].refs : RefSound(ref)'
  PROVE  FamilyInv'
<1>1. \A c : Path(c)' = Path(c) /\ (HasFile(c) => HasFile(c)')
  BY DEF Path, Checksum, HasFile
<1>2. ASSUME NEW i \in DOMAIN calls', i \in DOMAIN calls, calls'[i] = calls[i]
      PROVE  CallNamed(i)'
  BY <1>1, <1>2 DEF FamilyInv, CallNamed
<1>3. ASSUME NEW ref, RefSound(ref)
      PROVE  RefSound(ref)'
  BY <1>1, <1>3 DEF RefSound, HasFile
<1> QED
  BY <1>2, <1>3 DEF FamilyInv

\* A step of one call that writes no file.
LEMMA FamilyMoves ==
  ASSUME FamilyInv, NEW id \in DOMAIN calls, Moves(id), UNCHANGED <<values, files>>,
         CallNamed(id)', \A c : Owes(id, c) => Owed(c)' \/ HasFile(c)'
  PROVE  FamilyInv'
<1>1. \A i \in DOMAIN calls \ {id} : \A c : Owes(i, c) => Owes(i, c)'
  BY DEF Moves, Owes
<1>2. \A c : Owed(c) => Owed(c)' \/ HasFile(c)'
  BY <1>1 DEF Owed, Moves
<1> QED
  BY <1>2, FamilyStays DEF Moves, FamilyInv

LEMMA FamilyStep ==
  ASSUME TypeInv, AnswerInv, ParentsWait, LeadersWork, FamilyInv, Calm,
         NEW id \in DOMAIN calls, Step(id)
  PROVE  FamilyInv'
<1> DEFINE chart == ChartOf(id)
<1>1. CallNamed(id) /\ CallSound(id) /\ chart \in Charts
  BY CallFields DEF FamilyInv, AnswerInv
<1>2. CASE Read(id)
  <2>1. CallNamed(id)'
    BY <1>2, ReadMoves DEF CallNamed
  <2>2. \A c : Owes(id, c) => Owed(c)'
    BY <1>2, ReadMoves DEF Owes, Owed, Working, Read, At, Moves
  <2> QED
    BY <1>2, <2>1, <2>2, ReadMoves, FamilyMoves DEF Read
<1>3. CASE Do(id)
  <2>1. /\ Moves(id) /\ calls[id].pc = "do" /\ calls'[id].pc \in {"join", "compare"}
        /\ calls'[id].cached = calls[id].cached
    BY <1>3, DoTyped DEF Do, At
  <2>2. CallNamed(id)'
    BY <1>1, <2>1 DEF CallNamed
  <2>3. ASSUME calls'[id].pc = "compare"
        PROVE  \A c : Owes(id, c) => Owed(c)'
    BY <2>1, <2>3 DEF Owes, Owed, Working, Moves
  <2>4. ASSUME calls'[id].pc = "join"
        PROVE  Owed(chart)' \/ HasFile(chart)'
    <3>1. chart \in DOMAIN flights
      BY <1>3, <2>4, GotoMoves DEF Do
    <3>2. PICK leader \in DOMAIN calls :
            ChartOf(leader) = chart /\ calls[leader].pc \notin {"read", "do", "join"}
      BY <3>1 DEF LeadersWork, TypeInv, TypeOK, IsMap
    <3>3. leader # id /\ calls[leader] \in Frames /\ CallNamed(leader)
      BY <2>1, <3>2, CallFields DEF FamilyInv
    <3>4. Owes(leader, chart)' \/ HasFile(chart)
      BY <2>1, <3>2, <3>3 DEF CallNamed, Owes, Working, Moves, Frames
    <3>5. HasFile(chart) => HasFile(chart)'
      BY <1>3 DEF HasFile, Path, Checksum, Do
    <3> QED
      BY <2>1, <3>2, <3>4, <3>5 DEF Owes, Owed, Working, Moves
  <2>5. \A c : Owes(id, c) => Owed(c)' \/ HasFile(c)'
    BY <2>1, <2>3, <2>4 DEF Owes
  <2> QED
    BY <1>3, <2>1, <2>2, <2>5, FamilyMoves DEF Do
<1>4. CASE Compare(id)
  <2>1. /\ UNCHANGED <<values, cache, files>> /\ Moves(id)
        /\ calls[id].pc = "compare" /\ calls'[id].pc \in {"create", "return"}
    BY <1>4, CallFields, GotoMoves, AnswerMoves DEF Compare, At
  <2>2. calls'[id].pc = "return" => HasFile(chart)
    <3>1. SUFFICES ASSUME calls'[id].pc = "return"
                   PROVE  HasFile(chart)
      OBVIOUS
    <3>2. calls[id].cached.checksum = Checksum(chart)
      BY <1>4, <3>1, GotoMoves DEF Compare
    <3> DEFINE file == calls[id].cached.file
    <3>3. file \in Paths /\ file \in DOMAIN files
          /\ file.chart = chart /\ file.checksum = Checksum(chart)
      BY <1>1, <2>1, <3>2, CallFields DEF CallSound, Sound
    <3> HIDE DEF file
    <3>4. file = Path(chart)
      BY <3>3 DEF Paths, Path
    <3> QED
      BY <3>3, <3>4 DEF HasFile
  <2>3. HasFile(chart) => HasFile(chart)'
    BY <2>1 DEF HasFile, Path, Checksum
  <2>4. CallNamed(id)'
    BY <2>1, <2>2, <2>3 DEF CallNamed
  <2>5. \A c : Owes(id, c) => Owed(c)' \/ HasFile(c)'
    BY <2>1, <2>2, <2>3 DEF Owes, Owed, Working, Moves
  <2> QED
    BY <2>1, <2>4, <2>5, FamilyMoves
<1>5. CASE Create(id)
  <2>1. /\ UNCHANGED <<values, cache, files>> /\ Moves(id)
        /\ calls[id].pc = "create" /\ calls'[id].pc = "write"
        /\ calls'[id].schema.refs = {Path(c) : c \in Related[chart]}
    BY <1>5, CreateMoves DEF Create, At
  <2>2. \A c : Path(c)' = Path(c)
    BY <2>1 DEF Path, Checksum
  <2>3. CallNamed(id)'
    BY <2>1, <2>2 DEF CallNamed
  <2>4. \A c : Owes(id, c) => Owed(c)'
    BY <2>1 DEF Owes, Owed, Working, Moves
  <2> QED
    BY <2>1, <2>3, <2>4, FamilyMoves
<1>6. CASE CreateFails(id)
  <2>1. /\ UNCHANGED <<values, cache, files>> /\ Moves(id)
        /\ calls[id].pc = "create" /\ calls'[id].pc = "return" /\ chart \in Faulty
    BY <1>6, AnswerMoves DEF CreateFails, At
  <2>2. CallNamed(id)'
    BY <2>1 DEF CallNamed, HasFile, MayFail
  <2>3. \A c : Owes(id, c) => HasFile(c)'
    BY <2>1 DEF Owes, HasFile, MayFail
  <2> QED
    BY <2>1, <2>2, <2>3, FamilyMoves
<1>7. CASE Write(id)
  <2> DEFINE path == Path(chart)
             schema == calls[id].schema
  <2>1. /\ files' = Put(files, path, schema) /\ UNCHANGED <<values, cache>> /\ Moves(id)
        /\ calls[id].pc = "write" /\ calls'[id].pc = "store"
        /\ calls'[id].answer = path
    BY <1>7, WriteMoves DEF Write, At
  <2>2. path = Path(chart) /\ schema.refs = {Path(c) : c \in Related[chart]}
    BY <1>1, <2>1 DEF CallNamed
  <2> HIDE DEF path, schema
  <2>3. /\ files'[path] = schema /\ DOMAIN files' = DOMAIN files \cup {path}
        /\ \A p \in DOMAIN files \ {path} : files'[p] = files[p]
    BY <2>1 DEF Put
  <2>4. \A c : Path(c)' = Path(c) /\ Path(c).chart = c
    BY <2>1 DEF Path, Checksum
  <2>5. HasFile(chart)'
    BY <2>2, <2>3, <2>4 DEF HasFile
  <2>6. CallNamed(id)'
    BY <2>1, <2>2, <2>4, <2>5 DEF CallNamed
  <2>7. \A c \in Related[chart] : Owed(c)'
    BY <2>1 DEF Owed, Owes, Moves
  <2>8. \A ref \in files'[path].refs : RefSound(ref)'
    BY <2>2, <2>3, <2>4, <2>7 DEF RefSound
  <2>9. \A c : Owed(c) => Owed(c)' \/ HasFile(c)'
    <3>1. \A i \in DOMAIN calls \ {id} : \A c : Owes(i, c) => Owes(i, c)'
      BY <2>1 DEF Moves, Owes
    <3>2. \A c : Owes(id, c) => HasFile(c)'
      BY <2>1, <2>5 DEF Owes
    <3> QED
      BY <2>1, <3>1, <3>2 DEF Owed, Moves
  <2> QED
    BY <2>1, <2>3, <2>6, <2>8, <2>9, FamilyStays DEF Moves, FamilyInv
<1>8. CASE Store(id)
  <2>1. UNCHANGED <<values, files>> /\ calls[id].pc = "store"
    BY <1>8 DEF Store, At
  <2>2. \A i \in Children(id) : i \notin DOMAIN calls
    BY <2>1, ChildrenAreNew
  <2>3. /\ DOMAIN calls' = DOMAIN calls \cup Children(id)
        /\ calls'[id].pc = "wait"
        /\ \A i \in DOMAIN calls \ {id} : calls'[i] = calls[i]
        /\ \A i \in Children(id) : calls'[i].pc = "read"
    BY <1>8, <2>2, StoreStarts
  <2>4. HasFile(chart) /\ HasFile(chart)'
    BY <1>1, <2>1 DEF CallNamed, HasFile, Path, Checksum
  <2>5. ASSUME NEW i \in DOMAIN calls'
        PROVE  (i \in DOMAIN calls /\ calls'[i] = calls[i]) \/ CallNamed(i)'
    BY <2>2, <2>3, <2>4 DEF CallNamed
  <2>6. \A c : Owed(c) => Owed(c)'
    <3>1. \A c \in Related[chart] : Append(id, c) \in Children(id) /\ ChartOf(Append(id, c)) = c
      BY <1>1, ChartsAssumption, ChildStack DEF Children, TypeInv
    <3>2. \A c : Owes(id, c) => Owed(c)'
      BY <2>1, <2>3, <3>1 DEF Owed, Owes, Working
    <3>3. \A i \in DOMAIN calls \ {id} : \A c : Owes(i, c) => Owes(i, c)'
      BY <2>3 DEF Owes
    <3> QED
      BY <2>3, <3>2, <3>3 DEF Owed
  <2> QED
    BY <2>1, <2>5, <2>6, FamilyStays DEF FamilyInv
<1>9. CASE Wait(id)
  <2>1. /\ UNCHANGED <<values, cache, files>> /\ Moves(id)
        /\ calls[id].pc = "wait" /\ calls'[id].pc = "return"
    BY <1>9, GotoMoves DEF Wait, At
  <2>2. CallNamed(id)'
    BY <1>1, <2>1 DEF CallNamed, HasFile, Path, Checksum
  <2>3. \A c : ~ Owes(id, c)
    BY <2>1 DEF Owes, Working
  <2> QED
    BY <2>1, <2>2, <2>3, FamilyMoves
<1>10. CASE Return(id)
  <2>1. UNCHANGED <<values, cache, files>> /\ calls[id].pc = "return"
    BY <1>10 DEF Return, At
  <2>2. /\ DOMAIN calls' = DOMAIN calls \ {id}
        /\ \A i \in DOMAIN calls' :
             \/ calls'[i] = calls[i]
             \/ ChartOf(i) = chart /\ calls[i].pc = "join" /\ calls'[i].pc = "return"
    BY <1>10, ReturnEnds
  <2>3. HasFile(chart)'
    BY <1>1, <2>1 DEF CallNamed, HasFile, Path, Checksum
  <2>4. ASSUME NEW i \in DOMAIN calls'
        PROVE  (i \in DOMAIN calls /\ calls'[i] = calls[i]) \/ CallNamed(i)'
    BY <2>2, <2>3 DEF CallNamed
  <2>5. \A i \in DOMAIN calls : \A c : Owes(i, c) => i \in DOMAIN calls' /\ Owes(i, c)'
    BY <2>1, <2>2 DEF Owes, Working
  <2>6. \A c : Owed(c) => Owed(c)'
    BY <2>5 DEF Owed
  <2> QED
    BY <2>1, <2>4, <2>6, FamilyStays DEF FamilyInv
<1>11. CASE WriteFails(id)
  <2>1. /\ UNCHANGED values /\ Moves(id) /\ chart \in Unwritable
        /\ calls[id].pc = "write" /\ calls'[id].pc = "return"
        /\ DOMAIN files \subseteq DOMAIN files'
        /\ \A path \in DOMAIN files' :
             (path \in DOMAIN files /\ files'[path] = files[path]) \/ files'[path] = Blank
    BY <1>11, WriteFailsLeaves
  <2>2. CallNamed(id)'
    BY <2>1 DEF CallNamed, HasFile, MayFail
  <2>3. \A c : Owed(c) => Owed(c)' \/ HasFile(c)'
    <3>1. \A i \in DOMAIN calls \ {id} : \A c : Owes(i, c) => Owes(i, c)'
      BY <2>1 DEF Moves, Owes
    <3>2. \A c : Owes(id, c) => HasFile(c)'
      BY <2>1 DEF Owes, HasFile, MayFail
    <3> QED
      BY <2>1, <3>1, <3>2 DEF Owed, Moves
  <2>4. Blank.refs = {}
    BY DEF Blank
  <2> QED
    BY <2>1, <2>2, <2>3, <2>4, FamilyStays DEF Moves
<1> QED
  BY <1>2, <1>3, <1>4, <1>5, <1>6, <1>7, <1>8, <1>9, <1>10, <1>11 DEF Step

LEMMA FamilyNext ==
  ASSUME TypeInv, AnswerInv, ParentsWait, LeadersWork, FamilyInv, Calm, [Next]_vars
  PROVE  FamilyInv'
<1>1. ASSUME NEW r \in Requests, NEW c \in Charts, Request(r, c)
      PROVE  FamilyInv'
  <2> DEFINE id == <<r, c>>
  <2>1. id \notin DOMAIN calls /\ UNCHANGED <<values, cache, files>>
    BY <1>1 DEF Request
  <2>2. /\ DOMAIN calls' = DOMAIN calls \cup {id} /\ calls'[id].pc = "read"
        /\ \A i \in DOMAIN calls \ {id} : calls'[i] = calls[i]
    BY <1>1, RequestStarts
  <2> HIDE DEF id
  <2>3. CallNamed(id)'
    BY <2>2 DEF CallNamed
  <2>4. \A c1 : Owed(c1) => Owed(c1)'
    BY <2>1, <2>2 DEF Owed, Owes
  <2>5. \A i \in DOMAIN calls' : (i \in DOMAIN calls /\ calls'[i] = calls[i]) \/ CallNamed(i)'
    BY <2>1, <2>2, <2>3
  <2> QED
    BY <2>1, <2>4, <2>5, FamilyStays DEF FamilyInv
<1>2. ASSUME NEW c \in Charts, Reload(c)
      PROVE  FamilyInv'
  <2>1. UNCHANGED <<cache, files, calls>> /\ DOMAIN calls = {}
    BY <1>2 DEF Reload, EmptyMap
  <2>2. \A c1 : ~ Owed(c1)
    BY <2>1 DEF Owed
  <2> QED
    BY <2>1, <2>2 DEF FamilyInv, RefSound
<1>3. CASE UNCHANGED vars
  <2>1. UNCHANGED <<values, cache, files, calls>>
    BY <1>3 DEF vars
  <2>2. \A c : Owed(c) => Owed(c)'
    BY <2>1 DEF Owed, Owes
  <2> QED
    BY <2>1, <2>2, FamilyStays DEF FamilyInv
<1> QED
  BY <1>1, <1>2, <1>3, FamilyStep DEF Next

----------------------------------------------------------------------------
LEMMA InitInv == Init => TypeInv /\ AnswerInv
<1> SUFFICES ASSUME Init PROVE TypeInv /\ AnswerInv
  OBVIOUS
<1>1. DOMAIN cache = {} /\ DOMAIN flights = {} /\ DOMAIN files = {} /\ DOMAIN calls = {}
  BY DEF Init, EmptyMap
<1>2. \A c \in Charts : 1 \in 1 .. Len(Checksums[c])
  <2>1. ASSUME NEW c \in Charts
        PROVE  Checksums[c] \in Seq(Nat) /\ Checksums[c] # <<>>
    BY ChartsAssumption
  <2> QED
    BY <2>1
<1>3. TypeOK
  BY <1>1, <1>2, EmptyIsMap DEF Init, TypeOK, EmptyMap
<1> QED
  BY <1>1, <1>3 DEF TypeInv, AnswerInv

LEMMA InvCorrect == Spec => [](TypeInv /\ AnswerInv)
<1>1. TypeInv /\ AnswerInv /\ [Next]_vars => TypeInv' /\ AnswerInv'
  BY NextTyped, NextSound
<1> QED
  BY <1>1, InitInv, PTL DEF Spec

\* The state of the cache has its types: in particular a flight is always led by
\* a call that is still under way.
THEOREM SchemasTyped == Spec => []TypeOK
<1>1. TypeInv => TypeOK
  BY DEF TypeInv
<1> QED
  BY <1>1, InvCorrect, PTL

\* Whatever is asked and reloaded at the same time, a request is answered with
\* the name of a file that is there, or with an error.
THEOREM AnswersExist == Spec => []AnswerExists
<1>1. AnswerInv => AnswerExists
  BY DEF AnswerInv, AnswerExists, CallSound, Sound, At
<1> QED
  BY <1>1, InvCorrect, PTL

\* If values change between requests only, a request is answered with a schema
\* made from values with the checksum of its chart's present ones, or, for a chart
\* whose file cannot always be written, with one that was cut short: however
\* charts refer to each other and whoever made the schema.
THEOREM AnswersFresh == Spec => []AnswerIsFresh
<1>1. AnswerInv => AnswerIsFresh
  <2> SUFFICES ASSUME AnswerInv, Calm,
                      NEW id \in DOMAIN calls, At(id, "return"), calls[id].answer # NoFile
               PROVE  LET schema == files[calls[id].answer]
                      IN IF schema = Blank THEN ChartOf(id) \in Unwritable
                         ELSE Checksums[ChartOf(id)][schema.built] = Checksum(ChartOf(id))
    BY DEF AnswerIsFresh
  <2>1. Sound(calls[id].answer, ChartOf(id), Checksum(ChartOf(id)))
    BY DEF AnswerInv, CallSound, At
  <2> QED
    BY <2>1 DEF AnswerInv, Sound, Made
<1> QED
  BY <1>1, InvCorrect, PTL

\* Whatever charts refer to each other and whatever is asked at the same time: no
\* call returns while one that it has started, for a related chart, is under way.
NoneOutlived ==
  \A id \in DOMAIN calls : At(id, "return") => \A i \in DOMAIN calls : Len(i) > 2 => Front(i) # id

LEMMA OrderCorrect == Spec => [](ParentsWait /\ LeadersWork)
<1>1. Init => ParentsWait /\ LeadersWork
  BY DEF Init, EmptyMap, ParentsWait, LeadersWork
<1>2. TypeInv /\ TypeInv' /\ (ParentsWait /\ LeadersWork) /\ [Next]_vars
        => (ParentsWait /\ LeadersWork)'
  BY OrderStep
<1> QED
  BY <1>1, <1>2, InvCorrect, PTL DEF Spec

\* A request that is answered has left nobody at work for it: GetJSONSchemaForChart
\* returns after every goroutine it has started, down to the last of its family.
THEOREM CallsReturnInOrder == Spec => []NoneOutlived
<1>1. ParentsWait => NoneOutlived
  BY DEF ParentsWait, NoneOutlived, At
<1> QED
  BY <1>1, OrderCorrect, PTL

\* If values change between requests only, a request is answered with the name of
\* a file that is there; and when no other call is under way, every file that it
\* names is there too, but those of charts whose schema cannot be made or written.
\* No bound on how charts refer to each other, on the requests, or on who made
\* which file when.
THEOREM FamiliesAreComplete ==
  ASSUME Calm
  PROVE  Spec => []RefsExist
<1>1. Init => FamilyInv
  BY DEF Init, EmptyMap, FamilyInv
<1>2. (TypeInv /\ AnswerInv) /\ (ParentsWait /\ LeadersWork) /\ FamilyInv /\ [Next]_vars
        => FamilyInv'
  BY FamilyNext
<1>3. AnswerInv /\ FamilyInv => RefsExist
  <2> SUFFICES ASSUME AnswerInv, FamilyInv,
                      NEW id \in DOMAIN calls, At(id, "return"), calls[id].answer # NoFile
               PROVE  /\ calls[id].answer \in DOMAIN files
                      /\ DOMAIN calls = {id} =>
                           \A ref \in files[calls[id].answer].refs :
                             ref.chart \notin MayFail => ref \in DOMAIN files
    BY DEF RefsExist
  <2>1. calls[id].answer \in DOMAIN files
    BY DEF AnswerInv, CallSound, Sound, At
  <2>2. DOMAIN calls = {id} => \A c : ~ Owed(c)
    BY DEF Owed, Owes, Working, At
  <2> QED
    BY <2>1, <2>2 DEF FamilyInv, RefSound
<1> QED
  BY <1>1, <1>2, <1>3, InvCorrect, OrderCorrect, PTL DEF Spec
=============================================================================
