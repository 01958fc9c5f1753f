----------------------- MODULE ArtifactTransport_proofs -----------------------
(***************************************************************************)
(* The transport, for any nodes, files and chunks, any failures and any    *)
(* calls: what was staged is kept, and the number is exact.                *)
(***************************************************************************)
EXTENDS ArtifactTransportProps, FiniteSetTheorems, WellFoundedInduction, TLAPS

\* No staged file is the one that stands for none.
LEMMA NoFileIsNone == NoFile \notin File /\ \A f \in File : f.size \in Nat \ {0} /\ f.node \in Node
  BY TransportAssumption DEF NoFile

-----------------------------------------------------------------------------
(* Types. *)

\* A failure leaves a number of failures to come.
LEMMA FaultType ==
    ASSUME VariableTypes, Fault
    PROVE  faults' \in Nat
<1>1. faults \in Nat
  BY DEF VariableTypes
<1> QED
  BY <1>1 DEF Fault

\* What a function on files or nodes keeps when one value is replaced.
LEMMA CountType ==
    ASSUME NEW S, NEW f \in [S -> Nat], NEW x, NEW c \in Nat
    PROVE  [f EXCEPT ![x] = c] \in [S -> Nat]
  OBVIOUS

\* A new call starts its streams before their first chunk.
LEMMA CollectTypes ==
    ASSUME VariableTypes, Collect
    PROVE  VariableTypes'
<1> PICK live \in SUBSET Node :
      /\ call' = IF remote /\ live = {} THEN "skipped" ELSE "in"
      /\ listed' = live
      /\ unseeded' = (IF remote THEN {} ELSE live)
      /\ pending' = (IF remote THEN live ELSE {})
      /\ left' = [n \in Node |-> IF n \in live THEN StagedOn(n) ELSE {}]
  BY DEF Collect
<1>1. left' \in [Node -> SUBSET File]
  BY DEF VariableTypes, StagedOn
<1>2. at' \in [Node -> [file : File \cup {NoFile}, chunk : Nat]]
  BY DEF Collect, Nowhere
<1>3. calls' \in Nat
  <2>1. calls \in Nat
    BY DEF VariableTypes
  <2> QED
    BY <2>1 DEF Collect
<1>4. /\ listed' \subseteq Node /\ pending' \subseteq listed' /\ unseeded' \subseteq listed'
      /\ asked' = {} /\ ok' = {} /\ failed' = {} /\ refused' = {} /\ call' \in {"in", "skipped"}
  BY DEF Collect
<1>5. /\ ready' \in [Node -> {"nothing", "data", "error"}]
      /\ opened' \in [Node -> File \cup {NoFile}] /\ counted' \in [Node -> Nat]
  BY DEF Collect
<1>6. UNCHANGED <<remote, strict, collected, staged, written, faults>>
  BY DEF Collect, options, store
<1> QED
  BY <1>1, <1>2, <1>3, <1>4, <1>5, <1>6 DEF VariableTypes

\* A chunk that is written leaves the destination's bookkeeping typed.
LEMMA WriteTypes ==
    ASSUME VariableTypes, NEW n \in pending, WriteChunk(n), at[n].file \in File
    PROVE  /\ written' \in [File -> Nat] /\ opened' \in [Node -> File \cup {NoFile}]
           /\ counted' \in [Node -> Nat]
<1> DEFINE f == at[n].file
           before == IF opened[n] = f THEN written[f] ELSE 0
<1>1. n \in Node /\ f \in File /\ written[f] \in Nat /\ counted[n] \in Nat
  BY DEF VariableTypes
<1>2. before \in Nat
  BY <1>1
<1>3. /\ written' = [written EXCEPT ![f] = before + 1]
      /\ opened' = [opened EXCEPT ![n] = IF at[n].chunk = f.size THEN NoFile ELSE f]
      /\ counted' = [counted EXCEPT ![n] = IF at[n].chunk = f.size THEN counted[n] + 1 ELSE counted[n]]
  BY DEF WriteChunk
<1> HIDE DEF before, f
<1>4. written' \in [File -> Nat]
  <2>1. written \in [File -> Nat]
    BY DEF VariableTypes
  <2>2. before + 1 \in Nat
    BY <1>2
  <2> QED
    BY <1>3, <2>1, <2>2, CountType
<1>5. counted' \in [Node -> Nat]
  <2>1. counted \in [Node -> Nat]
    BY DEF VariableTypes
  <2> QED
    BY <1>1, <1>3, <2>1, CountType
<1>6. opened' \in [Node -> File \cup {NoFile}]
  BY <1>1, <1>3 DEF VariableTypes
<1> QED
  BY <1>4, <1>5, <1>6

\* So does the step of the driver that takes it.
LEMMA TakeChunkTypes ==
    ASSUME VariableTypes, NEW n \in Node, TakeChunk(n), at[n].file \in File
    PROVE  VariableTypes'
<1>1. n \in pending
  BY DEF TakeChunk, Received
<1>2. /\ written' \in [File -> Nat] /\ opened' \in [Node -> File \cup {NoFile}]
      /\ counted' \in [Node -> Nat]
  BY <1>1, WriteTypes DEF TakeChunk
<1>3. /\ ready' = [ready EXCEPT ![n] = "nothing"]
      /\ pending' = pending \ {n} /\ asked' = {n}
      /\ UNCHANGED <<options, collected, call, listed, unseeded, left, at, refused, ok, failed, count,
                     staged, faults, calls>>
  BY DEF TakeChunk
<1> QED
  BY <1>1, <1>2, <1>3 DEF VariableTypes, options

\* A stream that answers, with another chunk due or at its end.
LEMMA AnswerTypes ==
    ASSUME VariableTypes, NEW n \in Node, Answer(n)
    PROVE  VariableTypes'
<1>1. /\ at' \in [Node -> [file : File \cup {NoFile}, chunk : Nat]]
      /\ left' \in [Node -> SUBSET File]
  <2>1. CASE UNCHANGED <<at, left>>
    BY <2>1 DEF VariableTypes
  <2>2. ASSUME NEW next \in Following(n), at' = [at EXCEPT ![n] = next],
               left' = [left EXCEPT ![n] = @ \ {next.file}]
        PROVE  /\ at' \in [Node -> [file : File \cup {NoFile}, chunk : Nat]]
               /\ left' \in [Node -> SUBSET File]
    <3>1. at[n] \in [file : File \cup {NoFile}, chunk : Nat] /\ left[n] \subseteq File
      BY DEF VariableTypes
    <3>2. next \in [file : File \cup {NoFile}, chunk : Nat]
      BY <2>2, <3>1 DEF Following
    <3> QED
      BY <2>2, <3>2 DEF VariableTypes
  <2> QED
    BY <2>1, <2>2 DEF Answer
<1>2. /\ n \in asked /\ asked' = asked \ {n}
      /\ pending' \in {pending, pending \cup {n}} /\ ok' \in {ok, ok \cup {n}}
      /\ UNCHANGED <<options, collected, call, listed, unseeded, ready, opened, counted, refused,
                     failed, count, store, faults, calls>>
  BY DEF Answer
<1> QED
  BY <1>1, <1>2 DEF VariableTypes, options, store

\* And one that fails.
LEMMA AnswerFailsTypes ==
    ASSUME VariableTypes, NEW n \in Node, AnswerFails(n)
    PROVE  VariableTypes'
<1>1. faults' \in Nat
  BY FaultType DEF AnswerFails
<1>2. /\ n \in asked /\ asked' = asked \ {n}
      /\ pending' \in {pending, pending \cup {n}} /\ failed' \in {failed, failed \cup {n}}
      /\ ready' \in {ready, [ready EXCEPT ![n] = "error"]}
      /\ opened' \in {opened, [opened EXCEPT ![n] = NoFile]}
      /\ UNCHANGED <<options, collected, call, listed, unseeded, left, at, counted, refused, ok, count,
                     store, calls>>
  BY DEF AnswerFails
<1>3. /\ ready' \in [Node -> {"nothing", "data", "error"}] /\ opened' \in [Node -> File \cup {NoFile}]
  BY <1>2 DEF VariableTypes
<1>4. asked' \subseteq listed' /\ pending' \subseteq listed' /\ failed' \subseteq listed'
  <2>1. listed' = listed /\ n \in listed
    BY <1>2 DEF VariableTypes
  <2> QED
    BY <1>2, <2>1 DEF VariableTypes
<1>5. UNCHANGED <<remote, strict, collected, call, listed, unseeded, left, at, counted, refused, ok, count,
                  staged, written, calls>>
  BY <1>2 DEF options, store
<1> QED
  BY <1>1, <1>3, <1>4, <1>5 DEF VariableTypes

\* And the nodes that are given up, by a stall or by an error.
LEMMA GiveUpTypes ==
    ASSUME VariableTypes, NEW nodes, nodes \subseteq pending, GiveUp(nodes)
    PROVE  VariableTypes'
<1>1. CASE remote /\ strict
  BY <1>1 DEF GiveUp, Escapes, VariableTypes, options, store
<1>2. CASE ~(remote /\ strict)
  BY <1>2 DEF GiveUp, VariableTypes, options, store
<1> QED
  BY <1>1, <1>2

\* The steps of an actor, and the ends of a call.
LEMMA OtherTypes ==
    ASSUME VariableTypes,
           \/ CollectAgain \/ CollectFails \/ Return \/ StrictFails
           \/ \E n \in Node : \/ Ask(n) \/ Arrive(n) \/ Break(n) \/ TakeResult(n)
                              \/ \E f \in File : Upload(n, f) \/ UploadFails(n, f)
    PROVE  VariableTypes'
<1>1. CASE CollectAgain
  <2>1. calls \in Nat
    BY DEF VariableTypes
  <2>2. calls' \in Nat
    BY <1>1, <2>1 DEF CollectAgain
  <2> QED
    BY <1>1, <2>2 DEF CollectAgain, VariableTypes, options, stream, store
<1>2. CASE CollectFails
  BY <1>2, FaultType DEF CollectFails, Escapes, Kept, VariableTypes, options
<1>3. CASE Return
  BY <1>3 DEF Return, CleanUp, VariableTypes, options, stream
<1>4. CASE StrictFails
  BY <1>4 DEF StrictFails, Escapes, VariableTypes, options, store
<1>5. ASSUME NEW n \in Node, Ask(n) \/ Arrive(n) \/ TakeResult(n)
      PROVE  VariableTypes'
  BY <1>5 DEF Ask, Arrive, TakeResult, Received, VariableTypes, options, store
<1>6. ASSUME NEW n \in Node, Break(n)
      PROVE  VariableTypes'
  BY <1>6, FaultType DEF Break, VariableTypes, options, store
<1>7. ASSUME NEW n \in Node, NEW f \in File, Upload(n, f)
      PROVE  VariableTypes'
  <2>1. f.size \in Nat
    BY NoFileIsNone
  <2>2. counted \in [Node -> Nat] /\ written \in [File -> Nat]
    BY DEF VariableTypes
  <2>3. counted' \in [Node -> Nat] /\ written' \in [File -> Nat]
    <3>1. counted[n] + 1 \in Nat
      BY <2>2
    <3> QED
      BY <1>7, <2>1, <2>2, <3>1, CountType DEF Upload
  <2>4. left' \in [Node -> SUBSET File]
    BY <1>7 DEF Upload, VariableTypes
  <2> QED
    BY <1>7, <2>3, <2>4 DEF Upload, VariableTypes, options
<1>8. ASSUME NEW n \in Node, NEW f \in File, UploadFails(n, f)
      PROVE  VariableTypes'
  <2>1. \A g \in File : g.size \in Nat
    BY NoFileIsNone
  <2>2. /\ left' \in [Node -> SUBSET File]
        /\ written' \in [File -> Nat]
        /\ ready' \in [Node -> {"nothing", "data", "error"}]
        /\ refused' \subseteq File
    <3>1. CASE strict
      <4>1. PICK running \in SUBSET (left[n] \ {f}) :
              written' = [g \in File |-> IF g \in running THEN g.size ELSE written[g]]
        BY <1>8, <3>1 DEF UploadFails
      <4>2. written \in [File -> Nat]
        BY DEF VariableTypes
      <4>3. written' \in [File -> Nat]
        BY <2>1, <4>1, <4>2
      <4>4. left' \in [Node -> SUBSET File] /\ ready' \in [Node -> {"nothing", "data", "error"}]
        <5>1. left' = [left EXCEPT ![n] = {}] /\ ready' = [ready EXCEPT ![n] = "error"]
          BY <1>8, <3>1 DEF UploadFails
        <5> QED
          BY <5>1 DEF VariableTypes
      <4>5. refused' \subseteq File
        BY <1>8, <3>1 DEF UploadFails, VariableTypes
      <4> QED
        BY <4>3, <4>4, <4>5
    <3>2. CASE ~strict
      <4>1. /\ left' = [left EXCEPT ![n] = left[n] \ {f}] /\ refused' = refused \cup {f}
            /\ UNCHANGED <<ready, written>>
        BY <1>8, <3>2 DEF UploadFails
      <4> QED
        BY <4>1 DEF VariableTypes
    <3> QED
      BY <3>1, <3>2
  <2>3. faults' \in Nat
    BY <1>8, FaultType DEF UploadFails
  <2> QED
    BY <1>8, <2>2, <2>3 DEF UploadFails, VariableTypes, options
<1> QED
  BY <1>1, <1>2, <1>3, <1>4, <1>5, <1>6, <1>7, <1>8

\* A chunk that could not be taken.
LEMMA TakeChunkFailsTypes ==
    ASSUME VariableTypes, NEW n \in Node, TakeChunkFails(n)
    PROVE  VariableTypes'
<1>1. written' \in [File -> Nat]
  <2>1. written' = written \/ written' = [written EXCEPT ![at[n].file] = 0]
    BY DEF TakeChunkFails
  <2>2. written \in [File -> Nat]
    BY DEF VariableTypes
  <2> QED
    BY <2>1, <2>2, CountType
<1>2. faults' \in Nat
  BY FaultType DEF TakeChunkFails
<1>3. /\ UNCHANGED <<remote, strict, collected, call, listed, unseeded, asked, ready, left, at, counted,
                     refused, ok, staged, calls>>
      /\ n \in pending
      /\ opened' = [opened EXCEPT ![n] = NoFile]
      /\ pending' = pending \ {n} /\ failed' = failed \cup {n}
  BY DEF TakeChunkFails, Received, options
<1>4. /\ opened' \in [Node -> File \cup {NoFile}]
      /\ pending' \subseteq listed' /\ failed' \subseteq listed'
  BY <1>3 DEF VariableTypes
<1>5. /\ listed' \subseteq Node /\ unseeded' \subseteq listed' /\ asked' \subseteq listed'
      /\ ok' \subseteq listed' /\ ready' \in [Node -> {"nothing", "data", "error"}]
  BY <1>3 DEF VariableTypes
<1>6. /\ left' \in [Node -> SUBSET File] /\ refused' \subseteq File
      /\ at' \in [Node -> [file : File \cup {NoFile}, chunk : Nat]]
      /\ counted' \in [Node -> Nat] /\ staged' \subseteq File /\ calls' \in Nat
  BY <1>3 DEF VariableTypes
<1>7. /\ remote' \in BOOLEAN /\ strict' \in BOOLEAN /\ collected' \in BOOLEAN
      /\ call' \in {"never", "in", "returned", "raised", "gave up", "already", "skipped"}
  BY <1>3 DEF VariableTypes
<1> QED
  BY <1>1, <1>2, <1>4, <1>5, <1>6, <1>7 DEF VariableTypes

-----------------------------------------------------------------------------
(* Streams, uploads and staging stay in order. *)

\* Before its first chunk a stream is at the end of no file.
LEMMA NowhereIsBetween ==
    ASSUME NEW n \in Node, at[n] = Nowhere
    PROVE  ~Begun(n) /\ at[n].file = NoFile /\ at[n].chunk \in 0..at[n].file.size
  BY DEF Nowhere, Begun, NoFile

\* A stream depends only on its own position and files.
LEMMA StreamUntouched ==
    ASSUME NEW m \in Node, at'[m] = at[m], left'[m] = left[m], opened'[m] = opened[m],
           \A g \in FilesOf(m) : written'[g] = written[g]
    PROVE  /\ Between(m) => Between(m)'
           /\ ChunkDue(m) => ChunkDue(m)'
<1>1. \A g \in FilesOf(m) : Whole(g)' = Whole(g)
  BY DEF Whole
<1>2. Begun(m)' = Begun(m) /\ FilesOf(m)' = FilesOf(m)
  BY DEF Begun, FilesOf
<1>3. ASSUME Between(m) PROVE Between(m)'
  <2>1. Begun(m) => at[m].file \in FilesOf(m)
    BY <1>3 DEF Between, Begun, NoFile
  <2> QED
    BY <1>1, <1>2, <1>3, <2>1 DEF Between
<1>4. ASSUME ChunkDue(m) PROVE ChunkDue(m)'
  BY <1>1, <1>2, <1>4 DEF ChunkDue
<1> QED
  BY <1>3, <1>4

\* A new call: streams and uploads are at their beginning.
LEMMA CollectKeepsInv ==
    ASSUME TransportInv, Collect
    PROVE  StreamInv' /\ UploadInv' /\ SettledInv'
<1> PICK live \in SUBSET Node :
      /\ call' = IF remote /\ live = {} THEN "skipped" ELSE "in"
      /\ listed' = live
      /\ unseeded' = (IF remote THEN {} ELSE live)
      /\ pending' = (IF remote THEN live ELSE {})
      /\ left' = [n \in Node |-> IF n \in live THEN StagedOn(n) ELSE {}]
  BY DEF Collect
<1>1. /\ ~collected /\ staged = File /\ \A n \in Node : StagedOn(n) = FilesOf(n)
      /\ UNCHANGED <<remote, strict, collected, staged, written>>
      /\ failed' = {} /\ ok' = {} /\ asked' = {} /\ opened' = [n \in Node |-> NoFile]
      /\ ready' = [n \in Node |-> "nothing"] /\ at' = [n \in Node |-> Nowhere]
  BY DEF Collect, TransportInv, SettledInv, StagedOn, FilesOf, options, store
<1>2. \A n \in live : n \in Node /\ left'[n] = FilesOf(n)
  BY <1>1
<1>3. StreamInv'
  <2> SUFFICES ASSUME ~remote, NEW n \in live
               PROVE  at'[n] = Nowhere /\ Between(n)' /\ ready'[n] = "nothing"
    BY <1>1 DEF StreamInv
  <2>1. /\ at'[n] = Nowhere /\ ready'[n] = "nothing" /\ opened'[n] = NoFile /\ left'[n] = FilesOf(n)
        /\ NoFile \notin FilesOf(n)
    BY <1>1, <1>2, NoFileIsNone DEF FilesOf
  <2>2. ~Begun(n)' /\ at'[n].file = NoFile /\ at'[n].chunk = 0 /\ NoFile.size = 0
    BY <2>1 DEF Nowhere, Begun, NoFile
  <2>3. Between(n)'
    BY <2>1, <2>2 DEF Between, FilesOf
  <2> QED
    BY <2>1, <2>3
<1>4. UploadInv'
  <2> SUFFICES ASSUME NEW n \in live
               PROVE  left'[n] = FilesOf(n) /\ ready'[n] = "nothing"
    BY <1>1 DEF UploadInv, FilesOf
  <2> QED
    BY <1>1, <1>2
<1>5. SettledInv'
  BY <1>1 DEF SettledInv, Unsettled, FilesOf
<1> QED
  BY <1>3, <1>4, <1>5

\* A reference becomes ready, with data or with an error.
LEMMA ReadyKeepsInv ==
    ASSUME TransportInv, NEW n \in Node, Arrive(n) \/ Break(n)
    PROVE  StreamInv' /\ UploadInv' /\ SettledInv'
<1>1. UNCHANGED <<remote, strict, collected, call, listed, unseeded, asked, pending, left, at, opened,
                  refused, ok, failed, staged, written>>
  BY DEF Arrive, Break, options, store
<1>2. /\ call = "in" /\ ready[n] = "nothing" /\ ready \in [Node -> {"nothing", "data", "error"}]
      /\ listed \subseteq Node /\ unseeded \subseteq listed /\ asked \subseteq listed /\ pending \subseteq listed
      /\ ~remote => n \in pending /\ n \notin unseeded \cup asked
  BY DEF TransportInv, VariableTypes, SettledInv, Arrive, Break, Working
<1>3. \/ ready' = [ready EXCEPT ![n] = "data"] /\ (remote => left[n] = {})
      \/ ready' = [ready EXCEPT ![n] = "error"]
  BY DEF Arrive, Break
<1>4. SettledInv'
  BY <1>1 DEF TransportInv, SettledInv, Unsettled, Whole
<1>5. StreamInv'
  <2> SUFFICES ASSUME ~remote
               PROVE  /\ \A m \in unseeded : at'[m] = Nowhere
                      /\ \A m \in unseeded \cup asked : Between(m)' /\ ready'[m] = "nothing"
                      /\ \A m \in pending : ready'[m] # "error" => ChunkDue(m)'
    BY <1>1 DEF StreamInv
  <2>1. \A m \in Node : (Between(m) => Between(m)') /\ (ChunkDue(m) => ChunkDue(m)')
    BY <1>1, StreamUntouched
  <2>2. \A m \in Node : m # n => ready'[m] = ready[m]
    BY <1>2, <1>3
  <2>3. ChunkDue(n)
    BY <1>2 DEF TransportInv, StreamInv
  <2> QED
    BY <1>1, <1>2, <2>1, <2>2, <2>3 DEF TransportInv, StreamInv
<1>6. UploadInv'
  BY <1>1, <1>2, <1>3 DEF TransportInv, UploadInv, Whole
<1> QED
  BY <1>4, <1>5, <1>6

\* An upload that ends, well or not, leaves no file of its node open.
LEMMA UploadKeepsInv ==
    ASSUME TransportInv, NEW n \in Node, NEW f \in File, Upload(n, f) \/ UploadFails(n, f)
    PROVE  StreamInv' /\ UploadInv' /\ SettledInv'
<1>1. /\ remote /\ call = "in" /\ n \in listed /\ ready[n] = "nothing" /\ f \in left[n]
      /\ UNCHANGED <<remote, strict, collected, call, listed, unseeded, asked, pending, ok, failed, staged>>
  BY DEF Upload, UploadFails, Working, options
<1>2. /\ left \in [Node -> SUBSET File] /\ written \in [File -> Nat] /\ listed \subseteq Node
      /\ ready \in [Node -> {"nothing", "data", "error"}]
  BY DEF TransportInv, VariableTypes
<1>3. /\ \A g \in File : Whole(g) => Whole(g)'
      /\ refused \subseteq refused'
      /\ \A m \in Node \ {n} : left'[m] = left[m] /\ ready'[m] = ready[m]
      /\ \/ ready'[n] = "error"
         \/ /\ ready'[n] = "nothing" /\ left'[n] = left[n] \ {f}
            /\ Whole(f)' \/ f \in refused'
  <2>1. CASE Upload(n, f)
    BY <1>1, <1>2, <2>1 DEF Upload, Whole
  <2>2. CASE UploadFails(n, f) /\ strict
    <3>1. /\ \E running \in SUBSET (left[n] \ {f}) :
                written' = [g \in File |-> IF g \in running THEN g.size ELSE written[g]]
          /\ left' = [left EXCEPT ![n] = {}] /\ ready' = [ready EXCEPT ![n] = "error"]
          /\ refused' = refused
      BY <2>2 DEF UploadFails
    <3> QED
      BY <1>2, <3>1 DEF Whole
  <2>3. CASE UploadFails(n, f) /\ ~strict
    <3>1. /\ left' = [left EXCEPT ![n] = left[n] \ {f}] /\ refused' = refused \cup {f}
          /\ UNCHANGED <<ready, written>>
      BY <2>3 DEF UploadFails
    <3> QED
      BY <1>1, <1>2, <3>1 DEF Whole
  <2> QED
    BY <2>1, <2>2, <2>3
<1>4. StreamInv'
  <2>1. remote' = remote
    BY <1>1
  <2>2. remote'
    BY <1>1, <2>1
  <2> QED
    BY <2>2 DEF StreamInv
<1>5. UploadInv'
  <2>0. \A m \in listed : left'[m] \subseteq left[m]
    <3>1. \/ left' = [left EXCEPT ![n] = {}] \/ left' = [left EXCEPT ![n] = left[n] \ {f}]
      BY DEF Upload, UploadFails
    <3> QED
      BY <1>2, <3>1
  <2> SUFFICES ASSUME NEW m \in listed, ready'[m] # "error"
               PROVE  /\ \A g \in FilesOf(m) : g \in left'[m] \/ Whole(g)' \/ g \in refused'
                      /\ ready'[m] = "data" => left'[m] = {}
    BY <1>1, <2>0 DEF TransportInv, UploadInv
  <2>1. FilesOf(m) \subseteq File
    BY DEF FilesOf
  <2>2. ready[m] # "error"
    BY <1>1, <1>2, <1>3
  <2>3. /\ \A g \in FilesOf(m) : g \in left[m] \/ Whole(g) \/ g \in refused
        /\ ready[m] = "data" => left[m] = {}
    BY <1>1, <2>2 DEF TransportInv, UploadInv
  <2>4. CASE m = n
    BY <1>3, <2>1, <2>3, <2>4
  <2>5. CASE m # n
    BY <1>2, <1>3, <2>1, <2>3, <2>5
  <2> QED
    BY <2>4, <2>5
<1>6. SettledInv'
  BY <1>1, <1>3 DEF TransportInv, SettledInv, Unsettled, FilesOf
<1> QED
  BY <1>4, <1>5, <1>6

\* The result of an upload is taken when none of its files is left.
LEMMA TakeResultKeepsInv ==
    ASSUME TransportInv, NEW n \in Node, TakeResult(n)
    PROVE  StreamInv' /\ UploadInv' /\ SettledInv'
<1>0. /\ remote /\ call = "in" /\ n \in pending /\ ready[n] = "data"
      /\ pending' = pending \ {n} /\ ok' = ok \cup {n}
      /\ UNCHANGED <<remote, strict, collected, call, listed, unseeded, asked, ready, left, refused, failed,
                     staged, written>>
  BY DEF TakeResult, Received, Looping, options, store
<1>1. n \in listed
  BY <1>0 DEF TransportInv, VariableTypes
<1>2. \A f \in FilesOf(n) : Whole(f) \/ f \in refused
  BY <1>0, <1>1 DEF TransportInv, UploadInv
<1>3. StreamInv' /\ UploadInv'
  BY <1>0, <1>1 DEF TransportInv, StreamInv, UploadInv, Whole
<1>4. SettledInv'
  BY <1>0, <1>1, <1>2 DEF TransportInv, SettledInv, Unsettled, Whole
<1> QED
  BY <1>3, <1>4

\* The driver asks a stream for its first reference: it stays where it is.
LEMMA AskKeepsInv ==
    ASSUME TransportInv, NEW n \in Node, Ask(n)
    PROVE  StreamInv' /\ UploadInv' /\ SettledInv'
<1>1. /\ call = "in" /\ n \in unseeded /\ asked = {} /\ asked' = {n} /\ unseeded' = unseeded \ {n}
      /\ UNCHANGED <<remote, strict, collected, call, listed, pending, ready, left, at, opened, refused,
                     ok, failed, staged, written>>
  BY DEF Ask, options, store
<1>2. ~remote /\ listed \subseteq Node /\ unseeded \subseteq listed /\ pending \subseteq listed
  BY <1>1 DEF TransportInv, VariableTypes, SettledInv
<1>3. \A m \in Node : (Between(m) => Between(m)') /\ (ChunkDue(m) => ChunkDue(m)')
  BY <1>1, StreamUntouched
<1>4. StreamInv'
  BY <1>1, <1>2, <1>3 DEF TransportInv, StreamInv
<1>5. UploadInv'
  BY <1>1, <1>2 DEF UploadInv
<1>6. SettledInv'
  BY <1>1, <1>2 DEF TransportInv, SettledInv, Unsettled, Whole
<1> QED
  BY <1>4, <1>5, <1>6

\* The next chunk is due where the stream stands.
LEMMA NextIsDue ==
    ASSUME NEW n \in Node, Between(n), at \in [Node -> [file : File \cup {NoFile}, chunk : Nat]],
           left \in [Node -> SUBSET File], NEW next \in Following(n),
           at' = [at EXCEPT ![n] = next], left' = [left EXCEPT ![n] = left[n] \ {next.file}],
           UNCHANGED <<opened, written>>
    PROVE  ChunkDue(n)'
<1> DEFINE f == at[n].file
           k == at[n].chunk
<1>1. at'[n] = next /\ left'[n] = left[n] \ {next.file} /\ opened'[n] = opened[n]
  OBVIOUS
<1>2. /\ f \in FilesOf(n) \cup {NoFile} /\ k \in 0..f.size /\ left[n] \subseteq FilesOf(n) \ {f}
      /\ f.size \in Nat /\ (f \notin FilesOf(n) => f.size = 0)
  BY NoFileIsNone DEF Between, FilesOf, NoFile
<1>3. \A g \in File : Whole(g)' = Whole(g)
  BY DEF Whole
<1>4. CASE k < f.size
  <2>1. next = [file |-> f, chunk |-> k + 1]
    BY <1>4 DEF Following
  <2>2. k # 0 /\ opened[n] = f /\ written[f] = k /\ f \in FilesOf(n)
    BY <1>2, <1>4 DEF Between, Begun
  <2>3. k + 1 \in 1..f.size /\ k + 1 # 1 /\ (k + 1) - 1 = k
    BY <1>2, <1>4, <2>2
  <2>4. \A g \in FilesOf(n) \ (left'[n] \cup {f}) : Whole(g)'
    BY <1>1, <1>3, <2>1 DEF Between, FilesOf
  <2>5. at'[n].file = f /\ at'[n].chunk = k + 1
    BY <1>1, <2>1
  <2> HIDE DEF f, k
  <2> QED
    BY <1>1, <1>2, <2>1, <2>2, <2>3, <2>4, <2>5 DEF ChunkDue, FilesOf
<1>5. CASE ~(k < f.size)
  <2>1. PICK h \in left[n] : next = [file |-> h, chunk |-> 1]
    BY <1>5 DEF Following
  <2>2. h \in FilesOf(n) /\ h \in File /\ h.size \in Nat \ {0} /\ h # NoFile
    BY <1>2, <2>1, NoFileIsNone DEF FilesOf
  <2>3. opened[n] = NoFile /\ \A g \in FilesOf(n) \ left[n] : Whole(g)
    BY <1>5 DEF Between, Begun
  <2>4. \A g \in FilesOf(n) \ (left'[n] \cup {h}) : Whole(g)'
    BY <1>1, <1>3, <2>1, <2>3 DEF FilesOf
  <2>5. at'[n].file = h /\ at'[n].chunk = 1
    BY <1>1, <2>1
  <2> HIDE DEF f, k
  <2> QED
    BY <1>1, <1>2, <2>1, <2>2, <2>3, <2>4, <2>5 DEF ChunkDue, FilesOf
<1> QED
  BY <1>4, <1>5

\* A stream answers: it has another chunk, or it has sent everything.
LEMMA AnswerKeepsInv ==
    ASSUME TransportInv, NEW n \in Node, Answer(n)
    PROVE  StreamInv' /\ UploadInv' /\ SettledInv'
<1>1. /\ call = "in" /\ n \in asked /\ asked' = asked \ {n}
      /\ UNCHANGED <<remote, strict, collected, call, listed, unseeded, ready, opened, refused, failed,
                     staged, written>>
  BY DEF Answer, options, store
<1>2. /\ ~remote /\ Between(n) /\ ready[n] = "nothing" /\ n \notin unseeded \cup pending
      /\ listed \subseteq Node /\ unseeded \subseteq listed /\ pending \subseteq listed /\ asked \subseteq listed
      /\ at \in [Node -> [file : File \cup {NoFile}, chunk : Nat]] /\ left \in [Node -> SUBSET File]
  BY <1>1 DEF TransportInv, VariableTypes, SettledInv, StreamInv
<1>3. \/ StreamEnds(n) /\ ok' = ok \cup {n} /\ pending' = pending /\ at' = at /\ left' = left
      \/ /\ ok' = ok /\ pending' = pending \cup {n}
         /\ \E next \in Following(n) : /\ at' = [at EXCEPT ![n] = next]
                                       /\ left' = [left EXCEPT ![n] = left[n] \ {next.file}]
  BY DEF Answer
<1>4. \A m \in Node : m # n => at'[m] = at[m] /\ left'[m] = left[m]
  BY <1>2, <1>3
<1>5. \A m \in Node : m # n => (Between(m) => Between(m)') /\ (ChunkDue(m) => ChunkDue(m)')
  BY <1>1, <1>4, StreamUntouched
<1>6. StreamInv'
  <2>1. n \in pending' => ChunkDue(n)'
    BY <1>1, <1>2, <1>3, NextIsDue
  <2>2. pending' \subseteq pending \cup {n}
    BY <1>3
  <2> QED
    BY <1>1, <1>2, <1>4, <1>5, <2>1, <2>2 DEF TransportInv, StreamInv
<1>7. UploadInv'
  BY <1>1, <1>2 DEF UploadInv
<1>8. SettledInv'
  <2>1. \A g \in File : Whole(g)' = Whole(g)
    BY <1>1 DEF Whole
  <2>2. StreamEnds(n) => \A g \in FilesOf(n) : Whole(g)
    <3>1. StreamEnds(n) => ~Begun(n)
      BY <1>2, NoFileIsNone DEF StreamEnds, Begun, NoFile
    <3> QED
      BY <1>2, <3>1 DEF Between, StreamEnds
  <2>3. n \notin ok
    BY <1>1 DEF TransportInv, SettledInv, Unsettled
  <2> QED
    BY <1>1, <1>2, <1>3, <2>1, <2>2, <2>3 DEF TransportInv, SettledInv, Unsettled, FilesOf
<1> QED
  BY <1>6, <1>7, <1>8

\* A stream that fails when it is asked is settled, or its error is waited for.
LEMMA AnswerFailsKeepsInv ==
    ASSUME TransportInv, NEW n \in Node, AnswerFails(n)
    PROVE  StreamInv' /\ UploadInv' /\ SettledInv'
<1>1. /\ call = "in" /\ n \in asked /\ asked' = asked \ {n}
      /\ UNCHANGED <<remote, strict, collected, call, listed, unseeded, left, at, refused, ok, staged, written>>
      /\ \/ /\ pending' = pending \cup {n} /\ ready' = [ready EXCEPT ![n] = "error"]
            /\ failed' = failed /\ opened' = opened
         \/ /\ pending' = pending /\ ready' = ready
            /\ failed' = failed \cup {n} /\ opened' = [opened EXCEPT ![n] = NoFile]
  BY DEF AnswerFails, options, store
<1>2. /\ ~remote /\ n \notin unseeded \cup pending
      /\ listed \subseteq Node /\ unseeded \subseteq listed /\ pending \subseteq listed /\ asked \subseteq listed
      /\ ready \in [Node -> {"nothing", "data", "error"}] /\ opened \in [Node -> File \cup {NoFile}]
  BY <1>1 DEF TransportInv, VariableTypes, SettledInv
<1>3. /\ n \in pending' => ready'[n] = "error"
      /\ \A m \in Node : m # n => ready'[m] = ready[m] /\ opened'[m] = opened[m]
  BY <1>1, <1>2
<1>4. \A m \in Node : m # n => (Between(m) => Between(m)') /\ (ChunkDue(m) => ChunkDue(m)')
  BY <1>1, <1>3, StreamUntouched
<1>5. StreamInv'
  BY <1>1, <1>2, <1>3, <1>4 DEF TransportInv, StreamInv
<1>6. UploadInv'
  BY <1>1, <1>2 DEF UploadInv
<1>7. SettledInv'
  <2>1. \A g \in File : Whole(g)' = Whole(g)
    BY <1>1 DEF Whole
  <2> QED
    BY <1>1, <1>2, <2>1 DEF TransportInv, SettledInv, Unsettled, FilesOf
<1> QED
  BY <1>5, <1>6, <1>7

\* A chunk is written: the file due grows by it, and nothing else at the
\* destination changes.
LEMMA TakeChunkKeepsInv ==
    ASSUME TransportInv, NEW n \in Node, TakeChunk(n)
    PROVE  StreamInv' /\ UploadInv' /\ SettledInv'
<1> DEFINE f == at[n].file
           k == at[n].chunk
<1>1. /\ ~remote /\ call = "in" /\ n \in pending /\ unseeded = {} /\ asked = {} /\ ready[n] = "data"
      /\ pending' = pending \ {n} /\ asked' = {n} /\ ready' = [ready EXCEPT ![n] = "nothing"]
      /\ UNCHANGED <<remote, strict, collected, call, listed, unseeded, left, at, refused, ok, failed, staged>>
  BY DEF TakeChunk, Received, Looping, options
<1>2. /\ f \in FilesOf(n) /\ f \in File /\ f.node = n /\ f.size \in Nat \ {0} /\ k \in 1..f.size
      /\ left[n] \subseteq FilesOf(n) \ {f}
      /\ IF k = 1 THEN opened[n] # f ELSE opened[n] = f /\ written[f] = k - 1
      /\ \A g \in FilesOf(n) \ (left[n] \cup {f}) : Whole(g)
  BY <1>1, NoFileIsNone DEF TransportInv, StreamInv, ChunkDue, FilesOf
<1>3. /\ written \in [File -> Nat] /\ opened \in [Node -> File \cup {NoFile}]
      /\ pending \subseteq listed /\ listed \subseteq Node
      /\ ready \in [Node -> {"nothing", "data", "error"}]
  BY DEF TransportInv, VariableTypes
<1>4. /\ written' = [written EXCEPT ![f] = k]
      /\ opened' = [opened EXCEPT ![n] = IF k = f.size THEN NoFile ELSE f]
  <2>1. (IF opened[n] = f THEN written[f] ELSE 0) + 1 = k
    <3>1. CASE k = 1
      BY <1>2, <3>1
    <3>2. CASE k # 1
      BY <1>2, <3>2
    <3> QED
      BY <3>1, <3>2
  <2>2. written' = [written EXCEPT ![f] = (IF opened[n] = f THEN written[f] ELSE 0) + 1]
    BY DEF TakeChunk, WriteChunk
  <2>3. opened' = [opened EXCEPT ![n] = IF k = f.size THEN NoFile ELSE f]
    BY DEF TakeChunk, WriteChunk
  <2> QED
    BY <2>1, <2>2, <2>3
<1>5. /\ \A g \in File \ {f} : Whole(g)' = Whole(g) /\ written'[g] = written[g]
      /\ written'[f] = k
  BY <1>2, <1>3, <1>4 DEF Whole
<1>6. ASSUME NEW m \in Node, m # n
      PROVE  (Between(m) => Between(m)') /\ (ChunkDue(m) => ChunkDue(m)') /\ ready'[m] = ready[m]
  <2>1. at'[m] = at[m] /\ left'[m] = left[m] /\ opened'[m] = opened[m] /\ ready'[m] = ready[m]
    BY <1>1, <1>3, <1>4, <1>6
  <2>2. \A g \in FilesOf(m) : g \in File \ {f}
    BY <1>2, <1>6 DEF FilesOf
  <2> QED
    BY <1>5, <2>1, <2>2, StreamUntouched
<1>7. Between(n)'
  <2>1. at'[n].file = f /\ at'[n].chunk = k /\ left'[n] = left[n]
    BY <1>1
  <2>2. opened'[n] = IF k = f.size THEN NoFile ELSE f
    BY <1>3, <1>4
  <2>3. Begun(n)' <=> k < f.size
    BY <2>1 DEF Begun
  <2> HIDE DEF f, k
  <2>4. k \in 0..f.size /\ k # 0 /\ (k < f.size <=> k # f.size)
    BY <1>2
  <2>5. \A g \in FilesOf(n) \ left[n] : (g = f /\ Begun(n)') \/ Whole(g)'
    <3> TAKE g \in FilesOf(n) \ left[n]
    <3>1. CASE g = f
      BY <1>5, <2>3, <2>4, <3>1 DEF Whole
    <3>2. CASE g # f
      BY <1>2, <1>5, <3>2 DEF FilesOf
    <3> QED
      BY <3>1, <3>2
  <2> QED
    BY <1>2, <1>5, <2>1, <2>2, <2>3, <2>4, <2>5 DEF Between, FilesOf
<1> HIDE DEF f, k
<1>8. StreamInv'
  <2>1. ready'[n] = "nothing"
    BY <1>1, <1>3
  <2> QED
    BY <1>1, <1>3, <1>6, <1>7, <2>1 DEF TransportInv, StreamInv
<1>9. UploadInv'
  BY <1>1 DEF UploadInv
<1>10. SettledInv'
  <2>1. n \notin ok
    BY <1>1 DEF TransportInv, SettledInv, Unsettled
  <2>2. \A m \in ok : \A g \in FilesOf(m) : Whole(g)' = Whole(g)
    BY <1>2, <1>5, <2>1 DEF FilesOf
  <2> QED
    BY <1>1, <1>3, <2>1, <2>2 DEF TransportInv, SettledInv, Unsettled, FilesOf
<1> QED
  BY <1>8, <1>9, <1>10

\* A chunk that cannot be written fails its node; no other node notices.
LEMMA TakeChunkFailsKeepsInv ==
    ASSUME TransportInv, NEW n \in Node, TakeChunkFails(n)
    PROVE  StreamInv' /\ UploadInv' /\ SettledInv'
<1>1. /\ ~remote /\ call = "in" /\ n \in pending /\ ready[n] = "data" /\ unseeded = {} /\ asked = {}
      /\ pending' = pending \ {n} /\ failed' = failed \cup {n}
      /\ opened' = [opened EXCEPT ![n] = NoFile]
      /\ UNCHANGED <<remote, strict, collected, call, listed, unseeded, asked, ready, left, at, refused,
                     ok, staged>>
  BY DEF TakeChunkFails, Received, Looping, options
<1>2. at[n].file \in FilesOf(n) /\ n \notin ok
  BY <1>1 DEF TransportInv, StreamInv, ChunkDue, SettledInv, Unsettled
<1>3. /\ written \in [File -> Nat] /\ opened \in [Node -> File \cup {NoFile}]
      /\ listed \subseteq Node /\ pending \subseteq listed /\ ok \subseteq listed
  BY DEF TransportInv, VariableTypes
<1>4. \A m \in Node \ {n} : \A g \in FilesOf(m) : written'[g] = written[g] /\ Whole(g)' = Whole(g)
  <2>1. written' = written \/ written' = [written EXCEPT ![at[n].file] = 0]
    BY DEF TakeChunkFails
  <2>2. \A m \in Node \ {n} : \A g \in FilesOf(m) : g \in File /\ g # at[n].file
    BY <1>2 DEF FilesOf
  <2> QED
    BY <1>3, <2>1, <2>2 DEF Whole
<1>5. \A m \in Node \ {n} : (Between(m) => Between(m)') /\ (ChunkDue(m) => ChunkDue(m)')
  BY <1>1, <1>3, <1>4, StreamUntouched
<1>6. StreamInv'
  BY <1>1, <1>3, <1>5 DEF TransportInv, StreamInv
<1>7. UploadInv'
  BY <1>1 DEF UploadInv
<1>8. SettledInv'
  <2>1. \A m \in ok : m \in Node \ {n}
    BY <1>2, <1>3
  <2> QED
    BY <1>1, <1>3, <1>4, <2>1 DEF TransportInv, SettledInv, Unsettled, FilesOf
<1> QED
  BY <1>6, <1>7, <1>8

\* The call is left: what was staged stays.
LEMMA EscapeKeepsInv ==
    ASSUME TransportInv, call = "in", Escapes, UNCHANGED staged
    PROVE  StreamInv' /\ UploadInv' /\ SettledInv'
<1>1. call' # "in"
  BY DEF Escapes
<1> QED
  BY <1>1 DEF Escapes, TransportInv, SettledInv, StreamInv, UploadInv

\* Nodes given up are reported, and the others go on where they are.
LEMMA GiveUpKeepsInv ==
    ASSUME TransportInv, call = "in", NEW nodes \in SUBSET pending, GiveUp(nodes)
    PROVE  StreamInv' /\ UploadInv' /\ SettledInv'
<1>1. CASE remote /\ strict
  BY <1>1, EscapeKeepsInv DEF GiveUp, store
<1>2. CASE ~(remote /\ strict)
  <2>1. /\ failed' = failed \cup nodes /\ pending' = pending \ nodes
        /\ opened' = [n \in Node |-> IF n \in nodes THEN NoFile ELSE opened[n]]
        /\ UNCHANGED <<remote, strict, collected, call, listed, unseeded, asked, ready, left, at, refused,
                       ok, staged, written>>
    BY <1>2 DEF GiveUp, options, store
  <2>2. /\ listed \subseteq Node /\ unseeded \subseteq listed /\ asked \subseteq listed /\ pending \subseteq listed
        /\ pending \cap (unseeded \cup asked) = {}
    BY DEF TransportInv, VariableTypes, SettledInv
  <2>3. \A m \in Node \ nodes : (Between(m) => Between(m)') /\ (ChunkDue(m) => ChunkDue(m)')
    BY <2>1, StreamUntouched
  <2>4. StreamInv'
    BY <2>1, <2>2, <2>3 DEF TransportInv, StreamInv
  <2>5. UploadInv'
    BY <2>1 DEF TransportInv, UploadInv, Whole
  <2>6. SettledInv'
    <3>1. \A g \in File : Whole(g)' = Whole(g)
      BY <2>1 DEF Whole
    <3> QED
      BY <2>1, <2>2, <3>1 DEF TransportInv, SettledInv, Unsettled, FilesOf
  <2> QED
    BY <2>4, <2>5, <2>6
<1> QED
  BY <1>1, <1>2

\* Every step keeps streams, uploads and staging in order.
LEMMA StepKeepsInv ==
    ASSUME TransportInv, VariableTypes', Next
    PROVE  StreamInv' /\ UploadInv' /\ SettledInv'
<1> DEFINE Good == StreamInv' /\ UploadInv' /\ SettledInv'
<1>1. CASE Return
  <2>1. call' = "returned" /\ collected' = TRUE
    BY <1>1 DEF Return
  <2> QED
    BY <2>1 DEF StreamInv, UploadInv, SettledInv
<1>2. CASE CollectAgain
  <2>1. call' # "in" /\ collected' = collected /\ collected
    BY <1>2 DEF CollectAgain
  <2> QED
    BY <2>1 DEF StreamInv, UploadInv, SettledInv
<1>3. CASE CollectFails \/ StrictFails
  <2>1. Escapes /\ UNCHANGED staged /\ call = "in"
    BY <1>3 DEF CollectFails, StrictFails, Looping, Kept, store
  <2> QED
    BY <2>1, EscapeKeepsInv
<1>4. CASE Stall
  BY <1>4, GiveUpKeepsInv DEF Stall, Looping
<1>5. ASSUME NEW n \in Node, TakeError(n)
      PROVE  Good
  <2>1. GiveUp({n}) /\ n \in pending /\ call = "in"
    BY <1>5 DEF TakeError, Received, Looping
  <2> QED
    BY <2>1, GiveUpKeepsInv
<1> QED
  BY <1>1, <1>2, <1>3, <1>4, <1>5, CollectKeepsInv, ReadyKeepsInv, UploadKeepsInv, TakeResultKeepsInv,
     AskKeepsInv, AnswerKeepsInv, AnswerFailsKeepsInv, TakeChunkKeepsInv, TakeChunkFailsKeepsInv
     DEF Next, Drive

\* No step leaves the types, given where a stream is.
LEMMA StepTypes ==
    ASSUME TransportInv, Next
    PROVE  VariableTypes'
<1> VariableTypes
  BY DEF TransportInv
<1>1. ASSUME NEW n \in Node, TakeChunk(n)
      PROVE  VariableTypes'
  <2>1. n \in pending /\ ready[n] = "data" /\ call = "in" /\ ~remote
    BY <1>1 DEF TakeChunk, Received, Looping
  <2>2. at[n].file \in File
    BY <2>1 DEF TransportInv, StreamInv, ChunkDue, FilesOf
  <2> QED
    BY <1>1, <2>2, TakeChunkTypes
<1>2. CASE Stall
  BY <1>2, GiveUpTypes DEF Stall
<1>3. ASSUME NEW n \in Node, TakeError(n)
      PROVE  VariableTypes'
  BY <1>3, GiveUpTypes DEF TakeError, Received
<1> QED
  BY <1>1, <1>2, <1>3, CollectTypes, OtherTypes, TakeChunkFailsTypes, AnswerTypes, AnswerFailsTypes
     DEF Next, Drive

\* Streams, uploads and staging stay in order in every run.
THEOREM TransportInvHolds == Spec => []TransportInv
<1>1. Init => TransportInv
  <2> SUFFICES ASSUME Init
               PROVE  TransportInv
    OBVIOUS
  <2>1. VariableTypes
    BY DEF Init, VariableTypes, NoFile, Nowhere
  <2> QED
    BY <2>1 DEF Init, TransportInv, StreamInv, UploadInv, SettledInv
<1>2. TransportInv /\ [Next]_vars => TransportInv'
  <2> SUFFICES ASSUME TransportInv, [Next]_vars
               PROVE  TransportInv'
    OBVIOUS
  <2>1. CASE Next
    BY <2>1, StepTypes, StepKeepsInv DEF TransportInv
  <2>2. CASE UNCHANGED vars
    BY ZenonT(60), <2>2 DEF vars, options, stream, store, TransportInv, VariableTypes, StreamInv, UploadInv,
                SettledInv, Unsettled, Between, ChunkDue, Begun, Whole
  <2> QED
    BY <2>1, <2>2
<1> QED
  BY <1>1, <1>2, PTL DEF Spec

-----------------------------------------------------------------------------
(* Who reports what.                                                       *)

\* Before the first call nothing was returned or reported.
LEMMA InitReportInv == Init => ReportInv
  BY DEF Init, ReportInv

\* Every step keeps who reports what.
LEMMA ReportInvStep == TransportInv /\ ReportInv /\ [Next]_vars => ReportInv'
<1> SUFFICES ASSUME TransportInv, ReportInv, [Next]_vars
             PROVE  ReportInv'
  OBVIOUS
<1>0. /\ ready \in [Node -> {"nothing", "data", "error"}] /\ collected \in BOOLEAN
      /\ ok \subseteq listed /\ listed \subseteq Node
      /\ call = "in" => /\ Unsettled \cap ok = {} /\ ~collected
                        /\ remote => asked = {}
  BY DEF TransportInv, VariableTypes, SettledInv
<1>1. CASE UNCHANGED vars
  BY <1>1 DEF vars, options, stream, store, ReportInv, Unsettled
<1>2. CASE Collect
  <2>1. /\ call' \in {"in", "skipped"} /\ ~collected /\ ~collected' /\ failed' = {} /\ refused' = {} /\ ok' = {}
    BY <1>2 DEF Collect
  <2> QED
    BY <2>1 DEF ReportInv
<1>3. CASE CollectAgain
  BY <1>0, <1>3 DEF CollectAgain, ReportInv, options, stream
<1>4. CASE Return
  BY <1>0, <1>4 DEF Return, Looping, ReportInv, options, stream
<1>5. ASSUME call = "in", Escapes
      PROVE  ReportInv'
  BY <1>0, <1>5 DEF Escapes, ReportInv, options
<1>6. CASE CollectFails \/ StrictFails
  BY <1>5, <1>6 DEF CollectFails, StrictFails, Looping
<1>7. ASSUME NEW nodes \in SUBSET pending, call = "in", GiveUp(nodes)
      PROVE  ReportInv'
  <2>1. CASE remote /\ strict
    BY <1>5, <1>7, <2>1 DEF GiveUp
  <2>2. CASE ~(remote /\ strict)
    <3>1. /\ failed' = failed \cup nodes /\ pending' = pending \ nodes
          /\ UNCHANGED <<options, collected, call, unseeded, asked, ready, refused, ok>>
      BY <2>2, <1>7 DEF GiveUp
    <3>2. nodes \cap (unseeded \cup asked) = {}
      BY <1>7 DEF TransportInv, SettledInv
    <3> QED
      BY <1>0, <1>7, <2>2, <3>1, <3>2 DEF ReportInv, Unsettled, options
  <2> QED
    BY <2>1, <2>2
<1>8. CASE Stall
  BY <1>7, <1>8 DEF Stall, Looping
<1>9. ASSUME NEW n \in Node, TakeError(n)
      PROVE  ReportInv'
  BY <1>7, <1>9 DEF TakeError, Received, Looping
<1>10. ASSUME NEW n \in Node, TakeResult(n)
       PROVE  ReportInv'
  BY <1>0, <1>10 DEF TakeResult, Received, Looping, ReportInv, Unsettled, options, store
<1>11. ASSUME NEW n \in Node, Ask(n) \/ TakeChunk(n) \/ Answer(n)
       PROVE  ReportInv'
  <2>1. /\ ~remote /\ call = "in" /\ Unsettled' \subseteq Unsettled
        /\ UNCHANGED <<options, collected, call, refused, failed>>
    <3>1. CASE Ask(n)
      BY <3>1 DEF Ask, Unsettled, TransportInv, SettledInv
    <3>2. CASE TakeChunk(n)
      BY <3>2 DEF TakeChunk, Received, Looping, Unsettled
    <3>3. CASE Answer(n)
      BY <1>0, <3>3 DEF Answer, Unsettled
    <3> QED
      BY <1>11, <3>1, <3>2, <3>3
  <2> QED
    BY <1>0, <2>1 DEF ReportInv, options
<1>12. ASSUME NEW n \in Node, TakeChunkFails(n)
       PROVE  ReportInv'
  <2>1. /\ ~remote /\ call = "in" /\ pending' = pending \ {n} /\ failed' = failed \cup {n}
        /\ unseeded = {} /\ asked = {} /\ UNCHANGED <<options, collected, call, unseeded, asked, refused>>
    BY <1>12 DEF TakeChunkFails, Received, Looping
  <2> QED
    BY <1>0, <2>1 DEF ReportInv, Unsettled, options
<1>13. ASSUME NEW n \in Node, AnswerFails(n)
       PROVE  ReportInv'
  <2>1. /\ ~remote /\ call = "in" /\ n \in asked /\ asked' = asked \ {n}
        /\ \/ pending' = pending \cup {n} /\ failed' = failed
           \/ pending' = pending /\ failed' = failed \cup {n}
        /\ UNCHANGED <<options, collected, call, unseeded, refused>>
    BY <1>0, <1>13 DEF AnswerFails
  <2>2. n \notin unseeded \cup pending
    BY <2>1 DEF TransportInv, SettledInv
  <2> QED
    BY <1>0, <2>1, <2>2 DEF ReportInv, Unsettled, options
<1>14. ASSUME NEW n \in Node, Arrive(n) \/ Break(n)
       PROVE  ReportInv'
  <2>1. /\ call = "in" /\ ready[n] = "nothing"
        /\ \A m \in Node \ {n} : ready'[m] = ready[m]
        /\ UNCHANGED <<options, collected, call, unseeded, asked, pending, ok, refused, failed>>
    BY <1>0, <1>14 DEF Arrive, Break, Working
  <2>2. remote => n \notin ok
    BY <2>1 DEF ReportInv
  <2> QED
    BY <1>0, <2>1, <2>2 DEF ReportInv, Unsettled, options
<1>15. ASSUME NEW n \in Node, NEW f \in File, Upload(n, f)
       PROVE  ReportInv'
  BY <1>0, <1>15 DEF Upload, ReportInv, Unsettled, options
<1>16. ASSUME NEW n \in Node, NEW f \in File, UploadFails(n, f)
       PROVE  ReportInv'
  <2>1. /\ remote /\ call = "in" /\ ready[n] = "nothing"
        /\ \A m \in Node \ {n} : ready'[m] = ready[m]
        /\ strict => refused' = refused
        /\ UNCHANGED <<options, collected, call, unseeded, asked, pending, ok, failed>>
    BY <1>0, <1>16 DEF UploadFails, Working
  <2>2. n \notin ok
    BY <2>1 DEF ReportInv
  <2> QED
    BY <1>0, <2>1, <2>2 DEF ReportInv, Unsettled, options
<1> QED
  BY <1>1, <1>2, <1>3, <1>4, <1>6, <1>8, <1>9, <1>10, <1>11, <1>12, <1>13, <1>14, <1>15, <1>16
     DEF Next, Drive

-----------------------------------------------------------------------------
(* What leaves the staging.                                                *)

\* While files are only staged, none is lost.
LEMMA StagedIsKept ==
    ASSUME SettledInv, ~collected
    PROVE  StagingKept
  BY DEF SettledInv, StagingKept, Lost

\* When a call returns only the staging of the driver's node goes; if the node was
\* found it is settled well, with all files through or, in a lenient call, refused;
\* or it is reported, which only a lenient call does.
LEMMA ReturnKeepsStaging ==
    ASSUME TransportInv, ReportInv, Return
    PROVE  StagingKept'
<1>1. /\ call = "in" /\ pending = {} /\ unseeded = {} /\ asked = {} /\ collected' = TRUE
      /\ ~(strict /\ ~remote /\ failed # {})
      /\ UNCHANGED <<remote, strict, listed, written, failed, refused>>
      /\ staged \ StagedOn(Driver) \subseteq staged'
  BY DEF Return, Looping, CleanUp, options, stream
<1>2. /\ staged = File /\ listed = ok \cup failed
      /\ \A n \in ok : \A f \in FilesOf(n) : Whole(f) \/ f \in refused
      /\ strict => failed = {} /\ refused = {}
  BY <1>1 DEF TransportInv, SettledInv, Unsettled, ReportInv
<1> SUFFICES ASSUME NEW f \in File, Lost(f)'
             PROVE  f.node = Driver /\ (Driver \notin listed \/ (~strict /\ (Driver \in failed \/ f \in refused)))
  BY <1>1 DEF StagingKept
<1>3. f \notin staged' /\ ~Whole(f)
  BY <1>1 DEF Lost, Whole
<1>4. f.node = Driver /\ f \in FilesOf(Driver)
  BY <1>1, <1>2, <1>3 DEF StagedOn, FilesOf
<1> QED
  BY <1>2, <1>3, <1>4

\* Files leave the staging when they are delivered, and else only as StagingKept says.
THEOREM StagingKeptHolds == Spec => []StagingKept
<1>1. Init => StagingKept
  BY DEF Init, StagingKept, Lost
<1>2. TransportInv /\ TransportInv' /\ ReportInv /\ StagingKept /\ [Next]_vars => StagingKept'
  <2> SUFFICES ASSUME TransportInv, TransportInv', ReportInv, StagingKept, [Next]_vars
               PROVE  StagingKept'
    OBVIOUS
  <2>1. CASE Return
    BY <2>1, ReturnKeepsStaging
  <2>2. CASE CollectAgain \/ UNCHANGED vars
    <3>1. UNCHANGED <<strict, listed, failed, refused, staged, written, collected>>
      BY <2>2 DEF CollectAgain, vars, options, stream, store
    <3> QED
      BY <3>1 DEF StagingKept, Lost, Whole
  <2>3. CASE ~Return /\ ~CollectAgain /\ ~UNCHANGED vars
    <3>1. ~collected
      <4>1. call = "in" \/ Collect
        BY <2>3 DEF Next, Drive, CollectFails, StrictFails, Stall, TakeError, TakeResult, TakeChunk,
           TakeChunkFails, Received, Looping, Ask, Answer, AnswerFails, Arrive, Break, Upload, UploadFails,
           Working
      <4> QED
        BY <4>1 DEF Collect, TransportInv, SettledInv
    <3>2. collected' = collected
      BY <2>3 DEF Next, Drive, Collect, CollectFails, StrictFails, Stall, TakeError, TakeResult, TakeChunk,
         TakeChunkFails, Ask, Answer, AnswerFails, Arrive, Break, Upload, UploadFails, GiveUp, Escapes
    <3>3. SettledInv' /\ ~collected'
      BY <3>1, <3>2 DEF TransportInv
    <3> QED
      BY <3>3, StagedIsKept, Zenon DEF SettledInv, StagingKept, Lost
  <2> QED
    BY <2>1, <2>2, <2>3
<1> QED
  BY <1>1, <1>2, InitReportInv, ReportInvStep, TransportInvHolds, PTL DEF Spec

-----------------------------------------------------------------------------
(* The transport implements DeliveryPromise.                               *)

\* The fate of a node while a call goes on: open until it is settled.
Settled == call = "in" =>
  \A n \in Node : Fate[n] = IF n \notin listed THEN "unlisted"
                           ELSE IF n \in Unsettled THEN "open"
                           ELSE IF n \in failed \/ FilesOf(n) \cap refused # {} THEN "reported"
                           ELSE "delivered"

\* What the promise sees of a node follows from the sets of the driver.
LEMMA FateIsSettled == TransportInv /\ ReportInv => Settled
<1> SUFFICES ASSUME TransportInv, ReportInv, call = "in", NEW n \in Node
             PROVE  Fate[n] = IF n \notin listed THEN "unlisted"
                              ELSE IF n \in Unsettled THEN "open"
                              ELSE IF n \in failed \/ FilesOf(n) \cap refused # {} THEN "reported"
                              ELSE "delivered"
  BY DEF Settled
<1>1. /\ listed = Unsettled \cup ok \cup failed /\ Unsettled \cap ok = {} /\ Unsettled \cap failed = {}
      /\ \A m \in ok : \A f \in FilesOf(m) : Whole(f) \/ f \in refused
  BY DEF TransportInv, SettledInv, ReportInv
<1>2. n \in ok /\ FilesOf(n) \cap refused = {} => \A f \in FilesOf(n) : Whole(f)
  BY <1>1
<1> QED
  BY <1>1, <1>2 DEF Fate

\* A step that settles nodes and leaves the settled ones alone.
LEMMA SettleStep ==
    ASSUME call = "in", call' = "in", Settled, Settled',
           NEW nodes \in SUBSET Unsettled, Unsettled' = Unsettled \ nodes,
           Unsettled \subseteq listed, listed \subseteq Node,
           NEW what, what \in {"delivered", "reported"},
           \A n \in nodes : Fate'[n] = what,
           \A n \in Node \ Unsettled : n \in listed =>
             (n \in failed' \/ FilesOf(n) \cap refused' # {})
               = (n \in failed \/ FilesOf(n) \cap refused # {}),
           strict' = strict, listed' = listed
    PROVE  Promise!Next
<1>1. \A n \in Node \ nodes : Fate'[n] = Fate[n]
  <2> TAKE n \in Node \ nodes
  <2>1. CASE n \notin listed \/ n \in Unsettled
    BY <2>1 DEF Settled
  <2>2. CASE n \in listed /\ n \notin Unsettled
    BY <2>2 DEF Settled
  <2> QED
    BY <2>1, <2>2
<1>2. \A n \in nodes : n \in Node /\ Fate[n] = "open"
  BY DEF Settled
<1>3. Fate' = [n \in Node |-> IF n \in nodes THEN what ELSE Fate[n]]
  <2>1. Fate' = [n \in Node |-> Fate'[n]]
    BY DEF Fate
  <2> QED
    BY <1>1, <2>1
<1> QED
  BY <1>2, <1>3 DEF Promise!Settle, Promise!Next

\* A step after which no node is settled that was not before.
LEMMA OpenStep ==
    ASSUME call = "in", call' = "in", Settled, Settled', Unsettled' = Unsettled,
           Unsettled \subseteq listed, listed \subseteq Node,
           \A n \in Node \ Unsettled : n \in listed =>
             (n \in failed' \/ FilesOf(n) \cap refused' # {})
               = (n \in failed \/ FilesOf(n) \cap refused # {}),
           strict' = strict, listed' = listed
    PROVE  Promise!Next
  BY SettleStep, {} \in SUBSET Unsettled

\* A call that is left by an exception settles nothing more.
LEMMA EscapeStep ==
    ASSUME call = "in", Escapes, UNCHANGED written
    PROVE  Promise!Next
<1>1. Fate' = Fate /\ strict' = strict
  BY DEF Escapes, Fate, Whole, options
<1> QED
  BY <1>1 DEF Escapes, Promise!Fail, Promise!Next

\* Giving nodes up reports them, or fails the call.
LEMMA GiveUpStep ==
    ASSUME TransportInv, Settled, Settled', call = "in", NEW nodes \in SUBSET pending, GiveUp(nodes)
    PROVE  Promise!Next
<1>1. CASE remote /\ strict
  BY <1>1, EscapeStep DEF GiveUp, store
<1>2. CASE ~(remote /\ strict)
  <2>1. /\ failed' = failed \cup nodes /\ pending' = pending \ nodes /\ call' = "in"
        /\ UNCHANGED <<strict, listed, unseeded, asked, refused>>
    BY <1>2 DEF GiveUp, options
  <2>2. /\ Unsettled \subseteq listed /\ listed \subseteq Node
        /\ nodes \in SUBSET Unsettled /\ Unsettled' = Unsettled \ nodes
    BY <2>1 DEF TransportInv, VariableTypes, SettledInv, Unsettled
  <2>3. \A n \in nodes : Fate'[n] = "reported"
    BY <2>1, <2>2 DEF Settled
  <2>4. \A n \in Node \ Unsettled : (n \in failed' \/ FilesOf(n) \cap refused' # {})
                                  = (n \in failed \/ FilesOf(n) \cap refused # {})
    BY <2>1, <2>2
  <2> QED
    BY <2>1, <2>2, <2>3, <2>4, SettleStep
<1> QED
  BY <1>1, <1>2

\* A new call finds nodes, or none and is skipped.
LEMMA CollectStep ==
    ASSUME TransportInv, TransportInv', ReportInv, Settled', Collect
    PROVE  Promise!Next
<1> PICK live \in SUBSET Node :
      /\ call' = IF remote /\ live = {} THEN "skipped" ELSE "in"
      /\ listed' = live
      /\ unseeded' = (IF remote THEN {} ELSE live)
      /\ pending' = (IF remote THEN live ELSE {})
  BY DEF Collect
<1>1. /\ ~collected /\ call # "in" /\ strict' = strict /\ asked' = {} /\ ok' = {} /\ failed' = {}
  BY DEF Collect, options
<1>2. \A n \in Node : Fate'[n] = IF n \in live THEN "open" ELSE "unlisted"
  BY <1>1 DEF Fate
<1>3. Fate' = [n \in Node |-> IF n \in live THEN "open" ELSE "unlisted"]
  <2>1. Fate' = [n \in Node |-> Fate'[n]]
    BY DEF Fate
  <2> QED
    BY <1>2, <2>1
<1>4. call \notin {"in", "returned", "already"}
  BY <1>1 DEF ReportInv
<1>5. call' \in {"in"} \cup (IF live = {} THEN {"skipped"} ELSE {})
  OBVIOUS
<1>6. Promise!Begin(live)
  BY <1>1, <1>3, <1>4, <1>5 DEF Promise!Begin
<1> QED
  BY <1>6 DEF Promise!Next

\* A call returns when each node is settled, a strict one with everything.
LEMMA ReturnStep ==
    ASSUME TransportInv, ReportInv, Settled, Return
    PROVE  Promise!Next
<1>1. /\ call = "in" /\ call' = "returned" /\ Unsettled = {} /\ strict' = strict
      /\ ~(strict /\ ~remote /\ failed # {})
      /\ UNCHANGED <<listed, ok, failed, refused, written>>
  BY DEF Return, Looping, Unsettled, options, stream
<1>2. Fate' = Fate
  BY <1>1 DEF Fate, Whole
<1>3. strict => failed = {} /\ refused = {}
  BY <1>1 DEF ReportInv
<1>4. \A n \in Node : Fate[n] \in {"unlisted", "delivered"} \cup (IF strict THEN {} ELSE {"reported"})
  <2> TAKE n \in Node
  <2>1. CASE strict
    BY <1>1, <1>3, <2>1 DEF Settled
  <2>2. CASE ~strict
    BY <1>1, <2>2 DEF Settled
  <2> QED
    BY <2>1, <2>2
<1> QED
  BY <1>1, <1>2, <1>4 DEF Promise!Return, Promise!Next

\* A step that settles one node settles it somehow.
LEMMA SettleOne ==
    ASSUME call = "in", call' = "in", Settled, Settled', NEW n \in Unsettled, Unsettled' = Unsettled \ {n},
           Unsettled \subseteq listed, listed \subseteq Node, failed' \in {failed, failed \cup {n}},
           refused' = refused, strict' = strict, listed' = listed
    PROVE  Promise!Next
<1>1. n \in Node /\ n \in listed
  OBVIOUS
<1>2. Fate'[n] \in {"delivered", "reported"}
  BY <1>1 DEF Settled
<1>3. \A m \in Node \ Unsettled : (m \in failed' \/ FilesOf(m) \cap refused' # {})
                                = (m \in failed \/ FilesOf(m) \cap refused # {})
  OBVIOUS
<1>4. \A m \in {n} : Fate'[m] = Fate'[n]
  OBVIOUS
<1> QED
  BY <1>2, <1>3, <1>4, SettleStep, {n} \in SUBSET Unsettled

\* The nodes that stream or upload.
LEMMA NodeStep ==
    ASSUME TransportInv, ReportInv, Settled, Settled', NEW n \in Node,
           \/ Ask(n) \/ Answer(n) \/ AnswerFails(n) \/ Arrive(n) \/ Break(n)
           \/ TakeResult(n) \/ TakeChunk(n) \/ TakeChunkFails(n)
           \/ \E f \in File : Upload(n, f) \/ UploadFails(n, f)
    PROVE  Promise!Next
<1>0. /\ Unsettled \subseteq listed /\ listed \subseteq Node
      /\ call = "in" => /\ listed = Unsettled \cup ok \cup failed
                        /\ unseeded \cap asked = {} /\ pending \cap (unseeded \cup asked) = {}
  BY DEF TransportInv, VariableTypes, SettledInv, Unsettled
<1>1. ASSUME call = "in", Unsettled' = Unsettled, UNCHANGED <<strict, call, listed, failed, refused>>
      PROVE  Promise!Next
  BY <1>0, <1>1, OpenStep
<1>2. ASSUME call = "in", n \in Unsettled, Unsettled' = Unsettled \ {n}, failed' \in {failed, failed \cup {n}},
             UNCHANGED <<strict, call, listed, refused>>
      PROVE  Promise!Next
  BY <1>0, <1>2, SettleOne
<1>3. CASE Arrive(n) \/ Break(n)
  <2>1. /\ call = "in"
        /\ UNCHANGED <<strict, call, listed, unseeded, asked, pending, failed, refused>>
    BY <1>3 DEF Arrive, Break, Working, options
  <2> QED
    BY <1>1, <2>1 DEF Unsettled
<1>4. CASE TakeResult(n) \/ TakeChunkFails(n)
  <2>1. /\ call = "in" /\ n \in pending /\ pending' = pending \ {n} /\ failed' \in {failed, failed \cup {n}}
        /\ UNCHANGED <<strict, call, listed, unseeded, asked, refused>>
    BY <1>4 DEF TakeResult, TakeChunkFails, Received, Looping, options
  <2> QED
    BY <1>0, <1>2, <2>1 DEF Unsettled
<1>5. CASE Ask(n) \/ TakeChunk(n)
  <2>1. /\ call = "in" /\ Unsettled' = Unsettled
        /\ UNCHANGED <<strict, call, listed, failed, refused>>
    BY <1>5 DEF Ask, TakeChunk, Received, Looping, Unsettled, options
  <2> QED
    BY <1>1, <2>1
<1>6. CASE Answer(n) \/ AnswerFails(n)
  <2>1. /\ call = "in" /\ n \in asked /\ asked' = asked \ {n} /\ unseeded' = unseeded
        /\ \/ pending' = pending \cup {n} /\ failed' = failed
           \/ pending' = pending /\ failed' \in {failed, failed \cup {n}}
        /\ UNCHANGED <<strict, call, listed, refused>>
    BY <1>6 DEF Answer, AnswerFails, options
  <2>2. CASE pending' = pending \cup {n} /\ failed' = failed
    BY <1>1, <2>1, <2>2 DEF Unsettled
  <2>3. CASE pending' = pending /\ failed' \in {failed, failed \cup {n}}
    BY <1>0, <1>2, <2>1, <2>3 DEF Unsettled
  <2> QED
    BY <2>1, <2>2, <2>3
<1>7. ASSUME NEW f \in File, Upload(n, f) \/ UploadFails(n, f)
      PROVE  Promise!Next
  <2>1. /\ call = "in" /\ remote /\ ready[n] = "nothing" /\ f \in left[n]
        /\ UNCHANGED <<strict, call, listed, unseeded, asked, pending, ok, failed>>
    BY <1>7 DEF Upload, UploadFails, Working, options
  <2>2. n \notin ok
    BY <2>1 DEF ReportInv
  <2>3. refused' = refused \/ refused' = refused \cup {f}
    BY <1>7 DEF Upload, UploadFails
  <2> QED
    <3>1. \A m \in ok : f \notin FilesOf(m)
      <4>1. n \in listed
        BY <1>7, <2>1 DEF Upload, UploadFails, Working
      <4>2. f \in FilesOf(n)
        BY <2>1, <4>1 DEF TransportInv, UploadInv
      <4> QED
        BY <2>2, <4>2 DEF FilesOf
    <3>2. Unsettled' = Unsettled
      BY <2>1 DEF Unsettled
    <3>3. \A m \in Node \ Unsettled : m \in listed =>
             (m \in failed' \/ FilesOf(m) \cap refused' # {})
               = (m \in failed \/ FilesOf(m) \cap refused # {})
      BY <1>0, <2>1, <2>3, <3>1
    <3> QED
      BY <1>0, <2>1, <3>2, <3>3, OpenStep
<1> QED
  BY <1>3, <1>4, <1>5, <1>6, <1>7

\* The transport implements the delivery that DeliveryPromise describes.
THEOREM KeepsPromiseHolds == Spec => KeepsPromise
<1>1. Init => Promise!Init
  <2> SUFFICES ASSUME Init
               PROVE  Promise!Init
    OBVIOUS
  <2>1. Fate = [n \in Node |-> "unlisted"]
    BY DEF Init, Fate
  <2> QED
    BY <2>1 DEF Init, Promise!Init
<1>2. ASSUME TransportInv, TransportInv', ReportInv, Settled, Settled', [Next]_vars
      PROVE  [Promise!Next]_(Promise!vars)
  <2>1. CASE UNCHANGED vars
    BY <2>1 DEF vars, options, stream, store, Promise!vars, Fate, Whole
  <2>2. CASE Collect
    BY <1>2, <2>2, CollectStep
  <2>3. CASE CollectAgain
    <3>1. Fate' = Fate /\ strict' = strict /\ call' = "already"
      BY <2>3 DEF CollectAgain, Fate, Whole, options, stream, store
    <3>2. call \in {"returned", "already"}
      BY <1>2, <2>3 DEF CollectAgain, ReportInv
    <3> QED
      BY <3>1, <3>2 DEF Promise!Again, Promise!Next
  <2>4. CASE Return
    BY <1>2, <2>4, ReturnStep
  <2>5. CASE CollectFails \/ StrictFails
    BY <2>5, EscapeStep DEF CollectFails, StrictFails, Looping, store
  <2>6. CASE Stall
    BY <1>2, <2>6, GiveUpStep DEF Stall, Looping
  <2>7. ASSUME NEW n \in Node, TakeError(n)
        PROVE  Promise!Next
    <3>1. GiveUp({n}) /\ call = "in" /\ {n} \in SUBSET pending
      BY <2>7 DEF TakeError, Received, Looping
    <3> QED
      BY <1>2, <3>1, GiveUpStep
  <2>8. ASSUME NEW n \in Node,
               \/ Ask(n) \/ Answer(n) \/ AnswerFails(n) \/ Arrive(n) \/ Break(n)
               \/ TakeResult(n) \/ TakeChunk(n) \/ TakeChunkFails(n)
               \/ \E f \in File : Upload(n, f) \/ UploadFails(n, f)
        PROVE  Promise!Next
    BY <1>2, <2>8, NodeStep
  <2> QED
    BY <1>2, <2>1, <2>2, <2>3, <2>4, <2>5, <2>6, <2>7, <2>8 DEF Next, Drive
<1>3. Spec => [](TransportInv /\ ReportInv)
  BY InitReportInv, ReportInvStep, TransportInvHolds, PTL DEF Spec
<1> QED
  BY <1>1, <1>2, <1>3, FateIsSettled, PTL DEF Spec, KeepsPromise, Promise!Spec

-----------------------------------------------------------------------------
(* The number that a call returns.                                         *)

\* Files are finitely many, and one more than some of them is one more.
LEMMA OneMore ==
    ASSUME NEW S \in SUBSET File, NEW f \in File \ S
    PROVE  Cardinality(S \cup {f}) = Cardinality(S) + 1
<1>1. IsFiniteSet(S)
  BY TransportAssumption, FS_Subset
<1> QED
  BY <1>1, FS_AddElement

\* SumOf recurses over sets of nodes.  When every node has the number of its files
\* of a set G, the numbers of files of G on a set of nodes solve the recursion, and
\* nothing else does: a smallest set of nodes with another value has none.
LEMMA SumIsCardinality ==
    ASSUME NEW G \in SUBSET File, NEW nodes \in SUBSET Node,
           \A n \in nodes : counted[n] = Cardinality({f \in G : f.node = n})
    PROVE  SumOf(nodes) = Cardinality({f \in G : f.node \in nodes})
<1> DEFINE On(S) == {f \in G : f.node \in S}
           Value(g, S) == IF S = {} THEN 0
                          ELSE LET n == CHOOSE n \in S : TRUE IN counted[n] + g[S \ {n}]
           Solves(g) == g = [S \in SUBSET nodes |-> Value(g, S)]
           size == [S \in SUBSET nodes |-> Cardinality(On(S))]
<1>1. IsFiniteSet(nodes) /\ IsFiniteSet(G)
  BY TransportAssumption, FS_Subset
<1>2. ASSUME NEW S \in SUBSET nodes, NEW n \in S
      PROVE  Cardinality(On(S)) = counted[n] + Cardinality(On(S \ {n}))
  <2> DEFINE A == {f \in G : f.node = n}
             B == On(S \ {n})
  <2>1. On(S) = A \cup B /\ A \cap B = {}
    OBVIOUS
  <2>2. IsFiniteSet(A) /\ IsFiniteSet(B)
    BY <1>1, FS_Subset
  <2>3. Cardinality(A \cup B) = Cardinality(A) + Cardinality(B) - Cardinality(A \cap B)
    BY <2>2, FS_Union
  <2>4. Cardinality(A) \in Nat /\ Cardinality(B) \in Nat /\ Cardinality({}) = 0
    BY <2>2, FS_CardinalityType, FS_EmptySet
  <2>5. counted[n] = Cardinality(A)
    OBVIOUS
  <2>6. B = On(S \ {n})
    OBVIOUS
  <2> HIDE DEF A, B, On
  <2>7. /\ Cardinality(On(S)) = Cardinality(A \cup B) /\ Cardinality(A \cap B) = Cardinality({})
        /\ Cardinality(On(S \ {n})) = Cardinality(B)
    BY <2>1, <2>6, Zenon
  <2> QED
    BY <2>3, <2>4, <2>5, <2>7
<1>3. Cardinality(On({})) = 0
  <2>1. On({}) = {}
    OBVIOUS
  <2> QED
    BY <2>1, FS_EmptySet
<1> HIDE DEF On
<1>4. Solves(size)
  <2>1. ASSUME NEW S \in SUBSET nodes PROVE size[S] = Value(size, S)
    <3>1. CASE S = {}
      BY <1>3, <3>1
    <3>2. CASE S # {}
      <4> DEFINE n == CHOOSE n \in S : TRUE
      <4>1. n \in S
        BY <3>2
      <4> HIDE DEF n
      <4>2. S \ {n} \in SUBSET nodes
        OBVIOUS
      <4>3. size[S] = counted[n] + size[S \ {n}]
        BY <1>2, <4>1, <4>2
      <4> QED
        BY <3>2, <4>3 DEF n
    <3> QED
      BY <3>1, <3>2
  <2> QED
    BY <2>1
<1>5. ASSUME NEW g, Solves(g) PROVE g[nodes] = size[nodes]
  <2> DEFINE Bad == {S \in SUBSET nodes : g[S] # size[S]}
             R == StrictSubsetOrdering(nodes)
  <2>1. SUFFICES ASSUME Bad # {} PROVE FALSE
    OBVIOUS
  <2>2. IsWellFoundedOn(R, FiniteSubsetsOf(nodes))
    BY FS_StrictSubsetOrderingWellFounded
  <2>3. Bad \subseteq FiniteSubsetsOf(nodes)
    BY <1>1, FS_Subset DEF FiniteSubsetsOf
  <2> HIDE DEF R
  <2>4. PICK S \in Bad : \A T \in Bad : ~(<<T, S>> \in R)
    BY <2>1, <2>2, <2>3, WFMin
  <2>5. S \in SUBSET nodes /\ g[S] = Value(g, S) /\ size[S] = Value(size, S) /\ g[S] # size[S]
    BY <1>4, <1>5, <2>4
  <2>6. CASE S = {}
    BY <2>5, <2>6
  <2>7. CASE S # {}
    <3> DEFINE n == CHOOSE n \in S : TRUE
               T == S \ {n}
    <3>1. n \in S
      BY <2>7
    <3>2. Value(g, S) = counted[n] + g[T] /\ Value(size, S) = counted[n] + size[T]
      BY <2>7
    <3> HIDE DEF n
    <3>3. <<T, S>> \in R /\ T \in SUBSET nodes
      BY <2>5, <3>1 DEF R, StrictSubsetOrdering
    <3>4. g[T] = size[T]
      BY <2>4, <3>3
    <3> QED
      BY <2>5, <3>2, <3>4
  <2> QED
    BY <2>6, <2>7
<1> DEFINE sum == CHOOSE g : Solves(g)
<1>6. Solves(sum)
  BY <1>4
<1>7. SumOf(nodes) = sum[nodes]
  BY DEF SumOf
<1> HIDE DEF sum, Solves, Value
<1>8. SumOf(nodes) = size[nodes]
  BY <1>5, <1>6, <1>7
<1>9. nodes \in SUBSET nodes
  OBVIOUS
<1> QED
  BY <1>8, <1>9 DEF On

\* A new call has streamed and uploaded nothing.
LEMMA CollectCounts ==
    ASSUME TransportInv, Collect
    PROVE  CountInv'
<1> PICK live \in SUBSET Node :
      /\ call' = IF remote /\ live = {} THEN "skipped" ELSE "in"
      /\ listed' = live
      /\ unseeded' = (IF remote THEN {} ELSE live)
      /\ pending' = (IF remote THEN live ELSE {})
      /\ left' = [n \in Node |-> IF n \in live THEN StagedOn(n) ELSE {}]
  BY DEF Collect
<1>1. /\ refused' = {} /\ ok' = {} /\ asked' = {}
      /\ counted' = [n \in Node |-> 0] /\ ready' = [n \in Node |-> "nothing"]
  BY DEF Collect
<1>2. \A n \in Node : StagedOn(n) = FilesOf(n)
  BY DEF Collect, TransportInv, SettledInv, StagedOn, FilesOf
<1>3. ASSUME NEW n \in live PROVE Counts(n)'
  <2>1. left'[n] = FilesOf(n) /\ counted'[n] = 0
    BY <1>1, <1>2
  <2>2. Brought(n)' = {}
    BY <2>1 DEF Brought, FilesOf
  <2> QED
    BY <1>1, <2>1, <2>2, FS_EmptySet DEF Counts
<1>4. Unsettled' \subseteq live
  BY <1>1 DEF Unsettled
<1>5. CountExact'
  BY DEF CountExact
<1> QED
  BY <1>1, <1>3, <1>4, <1>5 DEF CountInv

\* A reference that becomes ready, with data or an error, brings no file.
LEMMA ReadyCounts ==
    ASSUME TransportInv, ReportInv, CountInv, NEW n \in Node, Arrive(n) \/ Break(n)
    PROVE  CountInv'
<1>1. /\ call = "in" /\ call' = "in" /\ Working(n)
      /\ UNCHANGED <<remote, unseeded, asked, pending, left, at, counted, refused, ok>>
      /\ \E r \in {"data", "error"} : ready' = [ready EXCEPT ![n] = r]
  BY DEF Arrive, Break, Working, options
<1>2. \A m \in Node \ {n} : ready'[m] = ready[m]
  BY <1>1 DEF TransportInv, VariableTypes
<1>3. n \notin ok /\ ready[n] # "error"
  <2>1. CASE remote
    BY <1>1, <2>1 DEF Working, ReportInv
  <2>2. CASE ~remote
    BY <1>1, <2>2 DEF Working, TransportInv, SettledInv, Unsettled
  <2> QED
    BY <2>1, <2>2
<1>4. Unsettled \subseteq Node /\ ok \subseteq Node /\ Unsettled' = Unsettled
  BY <1>1 DEF TransportInv, VariableTypes, Unsettled
<1>5. ASSUME NEW m \in Unsettled \cup ok PROVE Counts(m)'
  <2>1. Counts(m) /\ (ready'[m] # "error" => ready[m] # "error")
    BY <1>1, <1>2, <1>3, <1>4 DEF CountInv
  <2> QED
    BY <1>1, <2>1 DEF Counts, Brought, Due, Begun, FilesOf
<1> QED
  BY <1>1, <1>2, <1>3, <1>4, <1>5 DEF CountInv, CountExact

\* An upload that succeeds is one file more; one that fails is refused, or ends the
\* uploads of the node.
LEMMA UploadCounts ==
    ASSUME TransportInv, CountInv, NEW n \in Node, NEW f \in File, Upload(n, f) \/ UploadFails(n, f)
    PROVE  CountInv'
<1>1. /\ call = "in" /\ call' = "in" /\ remote /\ f \in left[n] /\ n \in listed /\ ready[n] = "nothing"
      /\ UNCHANGED <<remote, unseeded, asked, pending, ok>>
  BY DEF Upload, UploadFails, Working, options
<1>2. /\ left \in [Node -> SUBSET File] /\ ready \in [Node -> {"nothing", "data", "error"}]
      /\ counted \in [Node -> Nat] /\ refused \subseteq File
      /\ Unsettled \subseteq listed /\ ok \subseteq listed /\ listed \subseteq Node
      /\ Unsettled' = Unsettled
  BY <1>1 DEF TransportInv, VariableTypes, Unsettled
<1>3. \A m \in listed : left[m] \subseteq FilesOf(m)
  BY <1>1 DEF TransportInv, UploadInv
<1>4. n \notin ok
  BY <1>1 DEF CountInv
<1>5. ASSUME NEW m \in Unsettled \cup ok, m # n, Counts(m),
             refused' \subseteq refused \cup {f}, refused \subseteq refused',
             left'[m] = left[m], ready'[m] = ready[m], counted'[m] = counted[m]
      PROVE  Counts(m)'
  <2>1. f \notin FilesOf(m) /\ left[m] \subseteq FilesOf(m)
    BY <1>1, <1>2, <1>3, <1>5 DEF FilesOf
  <2>2. Brought(m)' = Brought(m)
    BY <1>1, <1>5, <2>1 DEF Brought, Due, Begun, FilesOf
  <2> QED
    BY <1>5, <2>1, <2>2 DEF Counts
<1>6. CASE Upload(n, f)
  <2>1. /\ left' = [left EXCEPT ![n] = left[n] \ {f}]
        /\ counted' = [counted EXCEPT ![n] = counted[n] + 1]
        /\ UNCHANGED <<ready, refused>>
    BY <1>6 DEF Upload
  <2>2. \A m \in Unsettled \cup ok : m # n => Counts(m)'
    BY <1>1, <1>2, <1>5, <2>1 DEF CountInv
  <2>3. ASSUME n \in Unsettled PROVE Counts(n)'
    <3>1. Counts(n) /\ left[n] \cap refused = {} /\ counted[n] = Cardinality(Brought(n))
      BY <1>1, <2>3 DEF CountInv, Counts
    <3>2. f \in File \ Brought(n) /\ Brought(n) \in SUBSET File
      BY <1>1 DEF Brought, Due, Begun, FilesOf
    <3>3. Brought(n)' = Brought(n) \cup {f}
      <4>1. left'[n] = left[n] \ {f} /\ f \notin refused /\ f \in FilesOf(n)
        BY <1>1, <1>2, <1>3, <2>1, <3>1
      <4>2. FilesOf(n) \ (left'[n] \cup refused) = (FilesOf(n) \ (left[n] \cup refused)) \cup {f}
        BY <1>1, <4>1
      <4> QED
        BY <1>1, <2>1, <4>2 DEF Brought, Due, Begun, FilesOf
    <3>4. counted'[n] = Cardinality(Brought(n)')
      BY <1>2, <2>1, <3>1, <3>2, <3>3, OneMore
    <3> QED
      BY <1>2, <2>1, <3>1, <3>4 DEF Counts
  <2>4. \A m \in ok : left'[m] = {} /\ ready'[m] # "error"
    BY <1>2, <1>4, <1>1, <2>1 DEF CountInv
  <2> QED
    BY <1>1, <1>2, <1>4, <2>2, <2>3, <2>4 DEF CountInv, CountExact
<1>7. CASE UploadFails(n, f) /\ strict
  <2>1. /\ left' = [left EXCEPT ![n] = {}] /\ ready' = [ready EXCEPT ![n] = "error"]
        /\ UNCHANGED <<counted, refused>>
    BY <1>7 DEF UploadFails
  <2>2. \A m \in Unsettled \cup ok : m # n => Counts(m)'
    BY <1>1, <1>2, <1>5, <2>1 DEF CountInv
  <2>3. Counts(n)'
    BY <1>2, <2>1 DEF Counts
  <2>4. \A m \in ok : left'[m] = {} /\ ready'[m] # "error"
    BY <1>2, <1>4, <1>1, <2>1 DEF CountInv
  <2> QED
    BY <1>1, <1>2, <2>2, <2>3, <2>4 DEF CountInv, CountExact
<1>8. CASE UploadFails(n, f) /\ ~strict
  <2>1. /\ left' = [left EXCEPT ![n] = left[n] \ {f}] /\ refused' = refused \cup {f}
        /\ UNCHANGED <<counted, ready>>
    BY <1>8 DEF UploadFails
  <2>2. \A m \in Unsettled \cup ok : m # n => Counts(m)'
    BY <1>1, <1>2, <1>5, <2>1 DEF CountInv
  <2>3. ASSUME n \in Unsettled PROVE Counts(n)'
    <3>1. Counts(n)
      BY <2>3, <1>1 DEF CountInv
    <3>2. left'[n] = left[n] \ {f} /\ left'[n] \cup refused' = left[n] \cup refused
      BY <1>1, <1>2, <2>1
    <3>3. Brought(n)' = Brought(n)
      BY <1>1, <3>2 DEF Brought, Due, Begun, FilesOf
    <3> QED
      BY <2>1, <3>1, <3>2, <3>3 DEF Counts
  <2>4. \A m \in ok : left'[m] = {} /\ ready'[m] # "error"
    BY <1>2, <1>4, <1>1, <2>1 DEF CountInv
  <2> QED
    BY <1>1, <1>2, <1>4, <2>2, <2>3, <2>4 DEF CountInv, CountExact
<1> QED
  BY <1>6, <1>7, <1>8

\* The result of an upload leaves its numbers as they are; its node has nothing left.
LEMMA TakeResultCounts ==
    ASSUME TransportInv, CountInv, NEW n \in Node, TakeResult(n)
    PROVE  CountInv'
<1>1. /\ call = "in" /\ call' = "in" /\ remote /\ n \in pending /\ ready[n] = "data"
      /\ pending' = pending \ {n} /\ ok' = ok \cup {n}
      /\ UNCHANGED <<remote, unseeded, asked, ready, left, at, counted, refused>>
  BY DEF TakeResult, Received, Looping, options
<1>2. left[n] = {}
  BY <1>1 DEF TransportInv, UploadInv, VariableTypes
<1>3. \A m \in Unsettled \cup ok : Counts(m)'
  BY <1>1 DEF CountInv, Counts, Brought, Due, FilesOf
<1>4. Unsettled' \cup ok' \subseteq Unsettled \cup ok
  BY <1>1 DEF Unsettled
<1> QED
  BY <1>1, <1>2, <1>3, <1>4 DEF CountInv, CountExact

\* A node whose place, stream and counter stay counts as before.
LEMMA SameCounts ==
    ASSUME NEW m, Counts(m), remote' = remote, refused' = refused,
           m \in pending' <=> m \in pending, m \in asked' <=> m \in asked,
           ready'[m] = ready[m], left'[m] = left[m], at'[m] = at[m], counted'[m] = counted[m]
    PROVE  Counts(m)'
<1>1. Brought(m)' = Brought(m)
  BY DEF Brought, Due, Begun, FilesOf
<1> QED
  BY <1>1 DEF Counts

\* A stream that is asked for its first reference is in the middle of no file.
LEMMA AskCounts ==
    ASSUME TransportInv, CountInv, NEW n \in Node, Ask(n)
    PROVE  CountInv'
<1>1. /\ call = "in" /\ call' = "in" /\ n \in unseeded /\ asked = {} /\ asked' = {n}
      /\ unseeded' = unseeded \ {n}
      /\ UNCHANGED <<remote, pending, ready, left, at, counted, refused, ok>>
  BY DEF Ask, options
<1>2. /\ ~remote /\ at[n] = Nowhere /\ n \notin pending /\ Unsettled \cap ok = {} /\ n \in Unsettled
      /\ Unsettled' = Unsettled
  BY <1>1 DEF TransportInv, SettledInv, StreamInv, Unsettled
<1>3. Counts(n)'
  <2>1. Counts(n) /\ ~Begun(n)
    BY <1>1, <1>2, NowhereIsBetween DEF CountInv
  <2>2. Brought(n)' = Brought(n)
    BY <1>1, <1>2, <2>1 DEF Brought, Due, Begun, FilesOf
  <2> QED
    BY <1>1, <2>1, <2>2 DEF Counts
<1>4. ASSUME NEW m \in Unsettled \cup ok, m # n PROVE Counts(m)'
  <2>1. Counts(m) /\ (m \in asked' <=> m \in asked)
    BY <1>1, <1>4 DEF CountInv
  <2> QED
    BY <1>1, <2>1, SameCounts
<1> QED
  BY <1>1, <1>2, <1>3, <1>4 DEF CountInv, CountExact

\* A stream that answers has the file due that it was in the middle of, or one of
\* those left, or it is at its end.
LEMMA AnswerCounts ==
    ASSUME TransportInv, ReportInv, CountInv, NEW n \in Node, Answer(n)
    PROVE  CountInv'
<1>1. /\ call = "in" /\ call' = "in" /\ n \in asked /\ asked' = asked \ {n}
      /\ UNCHANGED <<remote, unseeded, ready, counted, refused>>
  BY DEF Answer, options
<1>2. /\ ~remote /\ Between(n) /\ ready[n] = "nothing" /\ n \notin pending /\ n \notin ok /\ n \in Unsettled
      /\ at \in [Node -> [file : File \cup {NoFile}, chunk : Nat]] /\ left \in [Node -> SUBSET File]
      /\ refused = {} /\ Unsettled \subseteq Node /\ ok \subseteq Node
  BY <1>1 DEF TransportInv, VariableTypes, SettledInv, StreamInv, Unsettled, ReportInv
<1>3. \/ StreamEnds(n) /\ ok' = ok \cup {n} /\ pending' = pending /\ at' = at /\ left' = left
      \/ /\ ok' = ok /\ pending' = pending \cup {n}
         /\ \E next \in Following(n) : /\ at' = [at EXCEPT ![n] = next]
                                       /\ left' = [left EXCEPT ![n] = left[n] \ {next.file}]
  BY DEF Answer
<1>4. Unsettled' \cup ok' \subseteq Unsettled \cup ok
  BY <1>1, <1>2, <1>3 DEF Unsettled
<1>5. ASSUME NEW m \in Unsettled \cup ok, m # n PROVE Counts(m)'
  <2>1. Counts(m) /\ m \in Node
    BY <1>1, <1>2 DEF CountInv
  <2>2. at'[m] = at[m] /\ left'[m] = left[m] /\ (m \in pending' <=> m \in pending) /\ (m \in asked' <=> m \in asked)
    BY <1>1, <1>2, <1>3, <1>5, <2>1
  <2> QED
    BY <1>1, <2>1, <2>2, SameCounts
<1>6. Counts(n) /\ counted[n] = Cardinality(Brought(n))
  BY <1>1, <1>2 DEF CountInv, Counts
<1>7. Brought(n)' = Brought(n)
  <2>1. CASE StreamEnds(n) /\ pending' = pending /\ at' = at /\ left' = left
    <3>1. ~Begun(n)
      BY <1>2, <2>1, NoFileIsNone DEF StreamEnds, Begun, NoFile
    <3> QED
      BY <1>1, <1>2, <2>1, <3>1 DEF Brought, Due, Begun, FilesOf
  <2>2. ASSUME NEW next \in Following(n), pending' = pending \cup {n},
               at' = [at EXCEPT ![n] = next], left' = [left EXCEPT ![n] = left[n] \ {next.file}]
        PROVE  Brought(n)' = Brought(n)
    <3>1. /\ left'[n] = left[n] \ {next.file} /\ at'[n] = next
          /\ left[n] \subseteq FilesOf(n) \ {at[n].file}
      BY <1>2, <2>2 DEF Between
    <3>2. Due(n)' = {next.file}
      BY <1>1, <1>2, <2>2, <3>1 DEF Due
    <3>3. CASE Begun(n)
      <4>1. next.file = at[n].file
        BY <3>3 DEF Following, Begun
      <4>2. Due(n) = {at[n].file}
        BY <1>1, <1>2, <3>3 DEF Due
      <4> QED
        BY <1>1, <3>1, <3>2, <4>1, <4>2 DEF Brought, FilesOf
    <3>4. CASE ~Begun(n)
      <4>1. next.file \in left[n]
        BY <3>4 DEF Following, Begun
      <4>2. Due(n) = {}
        BY <1>2, <3>4 DEF Due
      <4> QED
        BY <1>1, <3>1, <3>2, <4>1, <4>2 DEF Brought, FilesOf
    <3> QED
      BY <3>3, <3>4
  <2> QED
    BY <1>3, <2>1, <2>2
<1>8. Counts(n)'
  BY <1>1, <1>2, <1>6, <1>7 DEF Counts
<1>9. \A m \in ok' : left'[m] = {} /\ ready'[m] # "error"
  <2>1. \A m \in ok : left[m] = {} /\ ready[m] # "error" /\ left'[m] = left[m]
    BY <1>1, <1>2, <1>3 DEF CountInv
  <2> QED
    BY <1>1, <1>2, <1>3, <2>1 DEF StreamEnds
<1> QED
  BY <1>1, <1>4, <1>5, <1>8, <1>9 DEF CountInv, CountExact

\* A chunk that is written: the last of a file makes the file one of those brought.
LEMMA TakeChunkCounts ==
    ASSUME TransportInv, ReportInv, CountInv, NEW n \in Node, TakeChunk(n)
    PROVE  CountInv'
<1>1. /\ call = "in" /\ call' = "in" /\ ~remote /\ ~remote' /\ n \in pending /\ ready[n] = "data"
      /\ refused = {} /\ refused' = {} /\ asked = {} /\ asked' = {n} /\ pending' = pending \ {n}
      /\ UNCHANGED <<remote, unseeded, at, left, ok>>
      /\ ready' = [ready EXCEPT ![n] = "nothing"]
      /\ counted' = [counted EXCEPT ![n] = IF at[n].chunk = at[n].file.size THEN counted[n] + 1 ELSE counted[n]]
  BY DEF TakeChunk, Received, Looping, options, WriteChunk, ReportInv
<1>2. /\ ready \in [Node -> {"nothing", "data", "error"}] /\ counted \in [Node -> Nat]
      /\ ok \subseteq Node /\ Unsettled \subseteq Node /\ n \notin ok
      /\ Unsettled' = Unsettled /\ n \in Unsettled
  BY <1>1 DEF TransportInv, VariableTypes, SettledInv, Unsettled
<1>3. /\ at[n].file \in FilesOf(n) /\ at[n].file \in File /\ left[n] \subseteq FilesOf(n) \ {at[n].file}
      /\ at[n].chunk \in 1..at[n].file.size /\ at[n].file.size \in Nat
  BY <1>1, NoFileIsNone DEF TransportInv, StreamInv, ChunkDue, FilesOf
<1>4. Brought(n) = FilesOf(n) \ (left[n] \cup {at[n].file}) /\ counted[n] = Cardinality(Brought(n))
  BY <1>1, <1>2 DEF CountInv, Counts, Brought, Due
<1>6. Counts(n)'
  <2>1. CASE at[n].chunk = at[n].file.size
    <3>1. Due(n)' = {} /\ counted'[n] = counted[n] + 1
      <4>1. ~Begun(n)' /\ n \notin pending'
        BY <1>1, <1>3, <2>1 DEF Begun
      <4>2. Due(n)' = {}
        BY Zenon, <4>1 DEF Due
      <4>3. counted'[n] = counted[n] + 1
        BY <1>1, <1>2, <2>1
      <4> QED
        BY <4>2, <4>3
    <3>2. Brought(n)' = Brought(n) \cup {at[n].file} /\ at[n].file \in File \ Brought(n)
      BY <1>1, <1>3, <1>4, <3>1 DEF Brought, FilesOf
    <3>3. Brought(n) \in SUBSET File
      BY DEF Brought, FilesOf
    <3>4. counted'[n] = Cardinality(Brought(n)')
      BY <1>4, <3>1, <3>2, <3>3, OneMore
    <3> QED
      BY <1>1, <3>4 DEF Counts
  <2>2. CASE at[n].chunk # at[n].file.size
    <3>1. Due(n)' = {at[n].file} /\ counted'[n] = counted[n]
      <4>1. Begun(n)' /\ n \in asked' /\ at'[n] = at[n]
        BY <1>1, <1>3, <2>2 DEF Begun
      <4>2. Due(n)' = {at[n].file}
        BY Zenon, <1>1, <4>1 DEF Due
      <4>3. counted'[n] = counted[n]
        BY <1>1, <1>2, <2>2
      <4> QED
        BY <4>2, <4>3
    <3>2. Brought(n)' = Brought(n)
      BY <1>1, <1>4, <3>1 DEF Brought, FilesOf
    <3> QED
      BY <1>1, <1>4, <3>1, <3>2 DEF Counts
  <2> QED
    BY <2>1, <2>2
<1>7. ASSUME NEW m \in Unsettled \cup ok, m # n PROVE Counts(m)'
  <2>1. Counts(m) /\ ready'[m] = ready[m] /\ counted'[m] = counted[m]
    BY <1>1, <1>2, <1>7 DEF CountInv
  <2>2. (m \in pending' <=> m \in pending) /\ (m \in asked' <=> m \in asked) /\ refused' = refused
    BY <1>1, <1>7
  <2> QED
    BY <1>1, <2>1, <2>2, SameCounts
<1>8. \A m \in ok : left'[m] = {} /\ ready'[m] # "error"
  BY <1>1, <1>2 DEF CountInv
<1> QED
  BY <1>1, <1>2, <1>6, <1>7, <1>8 DEF CountInv, CountExact

\* Nodes given up are no longer counted, and a stream that broke not yet.
LEMMA DropCounts ==
    ASSUME CountInv, call = "in", call' = "in", Unsettled' \subseteq Unsettled, ok' = ok,
           UNCHANGED <<remote, left, at, counted, refused>>,
           \A m \in Unsettled' \cup ok :
             \/ m \notin ok /\ ready'[m] = "error"
             \/ /\ ready'[m] = ready[m]
                /\ m \in pending' <=> m \in pending
                /\ m \in asked' <=> m \in asked
    PROVE  CountInv'
<1>1. ASSUME NEW m \in Unsettled' \cup ok PROVE Counts(m)'
  <2>1. Counts(m)
    BY DEF CountInv
  <2>2. CASE ready'[m] = "error"
    BY <2>2 DEF Counts
  <2>3. CASE ready'[m] # "error"
    BY <2>1, <2>3, SameCounts
  <2> QED
    BY <2>2, <2>3
<1>2. \A m \in ok : left'[m] = {} /\ ready'[m] # "error"
  BY DEF CountInv
<1> QED
  BY <1>1, <1>2 DEF CountInv, CountExact

\* A call that is left returns no number.
LEMMA EscapeCounts ==
    ASSUME Escapes
    PROVE  CountInv'
  BY DEF Escapes, CountInv, CountExact

\* Only Return returns a number: the sum over the nodes settled well of what came
\* through from them, which is whole.
LEMMA ReturnCounts ==
    ASSUME TransportInv, CountInv, Return
    PROVE  CountInv'
<1> DEFINE G == File \ refused
           through == {f \in File : f.node \in ok /\ f \notin refused}
<1>1. /\ call = "in" /\ call' = "returned" /\ pending = {} /\ asked = {} /\ count' = SumOf(ok)
      /\ UNCHANGED <<ok, refused, written>>
  BY DEF Return, Looping, CountedNodes, stream
<1>2. ok \in SUBSET Node /\ G \in SUBSET File
  BY Zenon DEF TransportInv, VariableTypes
<1>3. ASSUME NEW n \in ok PROVE counted[n] = Cardinality({f \in G : f.node = n})
  <2>1. Counts(n) /\ left[n] = {} /\ ready[n] # "error"
    BY <1>1 DEF CountInv
  <2>2. Brought(n) = {f \in G : f.node = n}
    BY <1>1, <2>1 DEF Brought, Due, FilesOf
  <2> QED
    BY <2>1, <2>2 DEF Counts
<1>4. SumOf(ok) = Cardinality({f \in G : f.node \in ok})
  BY <1>2, <1>3, SumIsCardinality
<1>5. {f \in G : f.node \in ok} = through
  OBVIOUS
<1>6. \A f \in through : Whole(f)
  BY <1>1 DEF TransportInv, SettledInv, FilesOf
<1> HIDE DEF G
<1>7. count' = Cardinality(through) /\ \A f \in through : Whole(f)'
  BY <1>1, <1>4, <1>5, <1>6 DEF Whole
<1> QED
  BY <1>1, <1>7 DEF CountInv, CountExact

\* Every step keeps the numbers right.
LEMMA StepCounts ==
    ASSUME TransportInv, ReportInv, CountInv, [Next]_vars
    PROVE  CountInv'
<1>0. /\ ready \in [Node -> {"nothing", "data", "error"}] /\ Unsettled \subseteq Node /\ ok \subseteq Node
      /\ call = "in" => /\ Unsettled \cap ok = {} /\ unseeded \cap asked = {}
                        /\ pending \cap (unseeded \cup asked) = {}
  BY DEF TransportInv, VariableTypes, SettledInv, Unsettled
<1>1. CASE UNCHANGED vars
  BY <1>1 DEF vars, options, stream, store, CountInv, CountExact, Counts, Unsettled, Brought, Due, Begun,
     FilesOf, Whole
<1>2. CASE Collect
  BY <1>2, CollectCounts
<1>3. CASE CollectAgain
  <2>1. call' = "already"
    BY <1>3 DEF CollectAgain
  <2> QED
    BY <2>1 DEF CountInv, CountExact
<1>4. CASE CollectFails \/ StrictFails
  BY <1>4, EscapeCounts DEF CollectFails, StrictFails
<1>5. ASSUME NEW nodes \in SUBSET pending, call = "in", GiveUp(nodes)
      PROVE  CountInv'
  <2>1. CASE remote /\ strict
    BY <1>5, <2>1, EscapeCounts DEF GiveUp
  <2>2. CASE ~(remote /\ strict)
    <3>1. /\ pending' = pending \ nodes /\ call' = "in"
          /\ UNCHANGED <<remote, unseeded, asked, ready, left, at, counted, refused, ok>>
      BY <1>5, <2>2 DEF GiveUp, options
    <3>2. /\ Unsettled' \subseteq Unsettled
          /\ \A m \in Unsettled' \cup ok : m \in pending' <=> m \in pending
      BY <1>0, <1>5, <3>1 DEF Unsettled
    <3> QED
      BY <1>5, <3>1, <3>2, DropCounts
  <2> QED
    BY <2>1, <2>2
<1>6. CASE Stall
  BY <1>5, <1>6 DEF Stall, Looping
<1>7. ASSUME NEW n \in Node, TakeError(n)
      PROVE  CountInv'
  <2>1. GiveUp({n}) /\ {n} \in SUBSET pending /\ call = "in"
    BY <1>7 DEF TakeError, Received, Looping
  <2> QED
    BY <1>5, <2>1
<1>8. ASSUME NEW n \in Node, TakeChunkFails(n)
      PROVE  CountInv'
  <2>1. /\ call = "in" /\ call' = "in" /\ n \in pending /\ pending' = pending \ {n}
        /\ UNCHANGED <<remote, unseeded, asked, ready, left, at, counted, refused, ok>>
    BY <1>8 DEF TakeChunkFails, Received, Looping, options
  <2>2. /\ Unsettled' \subseteq Unsettled
        /\ \A m \in Unsettled' \cup ok : m \in pending' <=> m \in pending
    BY <1>0, <2>1 DEF Unsettled
  <2> QED
    BY <2>1, <2>2, DropCounts
<1>9. ASSUME NEW n \in Node, AnswerFails(n)
      PROVE  CountInv'
  <2>1. /\ call = "in" /\ call' = "in" /\ n \in asked /\ asked' = asked \ {n}
        /\ UNCHANGED <<remote, unseeded, left, at, counted, refused, ok>>
        /\ \/ pending' = pending \cup {n} /\ ready' = [ready EXCEPT ![n] = "error"]
           \/ pending' = pending /\ ready' = ready
    BY <1>9 DEF AnswerFails, options
  <2>2. n \notin ok /\ n \notin unseeded \cup pending
    BY <1>0, <2>1 DEF Unsettled
  <2>3. /\ Unsettled' \subseteq Unsettled
        /\ \A m \in Unsettled' \cup ok :
             \/ m \notin ok /\ ready'[m] = "error"
             \/ /\ ready'[m] = ready[m]
                /\ m \in pending' <=> m \in pending
                /\ m \in asked' <=> m \in asked
    <3>1. CASE pending' = pending \cup {n} /\ ready' = [ready EXCEPT ![n] = "error"]
      BY <1>0, <2>1, <2>2, <3>1 DEF Unsettled
    <3>2. CASE pending' = pending /\ ready' = ready
      BY <1>0, <2>1, <2>2, <3>2 DEF Unsettled
    <3> QED
      BY <2>1, <3>1, <3>2
  <2> QED
    BY <2>1, <2>3, DropCounts
<1>10. CASE Return
  BY <1>10, ReturnCounts
<1> QED
  BY <1>1, <1>2, <1>3, <1>4, <1>6, <1>7, <1>8, <1>9, <1>10,
     ReadyCounts, UploadCounts, TakeResultCounts, AskCounts, AnswerCounts, TakeChunkCounts DEF Next, Drive

\* The number that collect returns is exact.
THEOREM CountExactHolds == Spec => []CountExact
<1>1. Init => CountInv
  BY DEF Init, CountInv, CountExact
<1>2. TransportInv /\ ReportInv /\ CountInv /\ [Next]_vars => CountInv'
  BY StepCounts
<1>3. CountInv => CountExact
  BY DEF CountInv
<1>4. TransportInv /\ ReportInv /\ [Next]_vars => ReportInv'
  BY ReportInvStep
<1> QED
  BY <1>1, <1>2, <1>3, <1>4, InitReportInv, TransportInvHolds, PTL DEF Spec

\* Every variable keeps its type; the number is one because it counts files.
THEOREM TypeCorrect == Spec => []TypeOK
<1>1. TransportInv /\ count \in Nat => TypeOK
  BY DEF TransportInv, TypeOK
<1>2. TransportInv /\ TransportInv' /\ ReportInv /\ CountInv /\ TypeOK /\ [Next]_vars
      => CountInv' /\ TypeOK'
  <2> SUFFICES ASSUME TransportInv, TransportInv', ReportInv, CountInv, TypeOK, [Next]_vars
               PROVE  CountInv' /\ count' \in Nat
    BY DEF TransportInv, TypeOK
  <2> count \in Nat
    BY DEF TypeOK
  <2>1. CountInv'
    BY StepCounts
  <2>2. CASE Return
    <3> DEFINE through == {f \in File : f.node \in ok' /\ f \notin refused'}
    <3>1. call' = "returned"
      BY <2>2 DEF Return
    <3>2. count' = Cardinality(through)
      BY <2>1, <3>1 DEF CountInv, CountExact
    <3>3. IsFiniteSet(through)
      BY TransportAssumption, FS_Subset
    <3> HIDE DEF through
    <3> QED
      BY <2>1, <3>2, <3>3, FS_CardinalityType
  <2>3. CASE ~Return
    <3>1. count' \in {count, 0}
      BY <2>3 DEF Next, Drive, Stall, StrictFails, TakeResult, TakeChunk, TakeError, Collect,
         CollectAgain, CollectFails, Ask, Answer, AnswerFails, Arrive, Break, TakeChunkFails, Upload, UploadFails, GiveUp, Escapes, vars
    <3> QED
      BY <2>1, <3>1
  <2> QED
    BY <2>1, <2>2, <2>3
<1>3. Init => CountInv
  BY DEF Init, CountInv, CountExact
<1>4. TransportInv /\ ReportInv /\ [Next]_vars => ReportInv'
  BY ReportInvStep
<1>5. Init /\ TransportInv => TypeOK
  BY <1>1 DEF Init
<1> QED
  BY <1>1, <1>2, <1>3, <1>4, <1>5, InitReportInv, TransportInvHolds, PTL DEF Spec
=============================================================================
