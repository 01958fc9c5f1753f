--------------------------- MODULE ArtifactTransport ---------------------------
(***************************************************************************)
(* ArtifactDelivery.collect: the files that the processes of a cluster     *)
(* staged on their nodes are brought to the destination.  To a local one   *)
(* an actor on each node streams its files in chunks to the driver, which  *)
(* writes them; to a remote one an actor on each node uploads them.  A     *)
(* node may fail, or say nothing: the driver gives up when all are silent, *)
(* except while it asks one of them for the next reference of its stream.  *)
(***************************************************************************)
EXTENDS Integers, FiniteSets

CONSTANTS
  Node,       \* nodes of the cluster
  Driver,     \* the node of the driver, whose staging is on its own disk
  File,       \* records [node, name, size]: staged files and their chunks
  MaxFaults,  \* bound: reads, writes, uploads and actors that fail
  MaxCalls    \* bound: calls of collect

ASSUME TransportAssumption ==
  /\ Driver \in Node /\ IsFiniteSet(Node) /\ IsFiniteSet(File)
  /\ \A f \in File : DOMAIN f = {"node", "name", "size"} /\ f.node \in Node /\ f.size \in Nat \ {0}
  /\ MaxFaults \in Nat /\ MaxCalls \in Nat

VARIABLES
  remote, strict,  \* the destination and _strict of the instance
  collected,       \* _collected
  call,            \* "in" while collect runs, else how the last call ended
  listed,          \* the live nodes the call found
  unseeded,        \* nodes whose stream was not yet asked for a first reference
  asked,           \* the node, if any, whose next(gen) has not returned
  pending,         \* nodes with a reference the driver waits for
  ready,           \* what the reference of a node holds: "nothing", "data", "error"
  left,            \* files a node has not begun to stream or not uploaded
  at,              \* file and number of the chunk waited for, else of the last one
  opened,          \* the file the driver has open for a node, if any
  counted,         \* files_collected, files_uploaded of a node
  refused,         \* files in the errors of an upload result
  ok, failed,      \* nodes_ok (remote: results received), nodes_failed
  count,           \* what collect returned
  staged,          \* files in the staging directories
  written,         \* the chunks of a file at the destination
  faults, calls

options == <<remote, strict>>
stream == <<unseeded, asked, pending, ready, left, at, opened, counted, refused, ok, failed>>
store == <<staged, written>>
vars == <<options, collected, call, listed, stream, count, store, faults, calls>>

NoFile == [node |-> Driver, name |-> "none", size |-> 0]

\* Before the first chunk: as after the last one of a file.
Nowhere == [file |-> NoFile, chunk |-> 0]

FilesOf(n) == {f \in File : f.node = n}
StagedOn(n) == {f \in staged : f.node = n}
Whole(f) == written[f] = f.size

Init == /\ remote \in BOOLEAN /\ strict \in BOOLEAN
        /\ collected = FALSE /\ call = "never" /\ listed = {} /\ unseeded = {} /\ asked = {}
        /\ pending = {} /\ ok = {} /\ failed = {} /\ refused = {} /\ count = 0
        /\ ready = [n \in Node |-> "nothing"] /\ left = [n \in Node |-> {}]
        /\ at = [n \in Node |-> Nowhere]
        /\ opened = [n \in Node |-> NoFile] /\ counted = [n \in Node |-> 0]
        /\ staged = File /\ written = [f \in File |-> 0]
        /\ faults = 0 /\ calls = 0

Fault == faults < MaxFaults /\ faults' = faults + 1

-----------------------------------------------------------------------------
(* The call and its actors.                                                *)

\* Actors are deployed on the live nodes, whichever the cluster lists: the streams
\* are then asked for a first reference, the uploads run.  With no node an upload
\* is skipped, strict or not, and may be called again; a local collection goes on
\* and returns as an empty success.
Collect ==
  /\ call # "in" /\ ~collected /\ calls < MaxCalls
  /\ calls' = calls + 1
  /\ \E live \in SUBSET Node :
       /\ call' = IF remote /\ live = {} THEN "skipped" ELSE "in"
       /\ listed' = live
       /\ unseeded' = (IF remote THEN {} ELSE live)
       /\ pending' = (IF remote THEN live ELSE {})
       /\ left' = [n \in Node |-> IF n \in live THEN StagedOn(n) ELSE {}]
  /\ asked' = {} /\ ok' = {} /\ failed' = {} /\ refused' = {} /\ count' = 0
  /\ ready' = [n \in Node |-> "nothing"] /\ at' = [n \in Node |-> Nowhere]
  /\ opened' = [n \in Node |-> NoFile] /\ counted' = [n \in Node |-> 0]
  /\ UNCHANGED <<options, collected, store, faults>>

\* A second call after one that returned (a shutdown hook after an explicit call).
CollectAgain == /\ call # "in" /\ collected /\ calls < MaxCalls
                /\ call' = "already" /\ calls' = calls + 1 /\ count' = 0
                /\ UNCHANGED <<options, collected, listed, stream, store, faults>>

\* An upload the driver no longer waits for goes on until the actors are killed.
Working(n) == /\ call = "in" /\ ready[n] = "nothing"
              /\ n \in IF remote THEN listed ELSE pending

\* The chunk of a reference is fetched, or the result of an upload is there.
Arrive(n) == /\ Working(n) /\ (remote => left[n] = {})
             /\ ready' = [ready EXCEPT ![n] = "data"]
             /\ UNCHANGED <<options, collected, call, listed, unseeded, asked, pending, left, at, opened,
                            counted, refused, ok, failed, count, store, faults, calls>>

\* The actor of an upload dies or cannot be placed; a chunk is lost on its way.
Break(n) == /\ Working(n) /\ Fault
            /\ ready' = [ready EXCEPT ![n] = "error"]
            /\ UNCHANGED <<options, collected, call, listed, unseeded, asked, pending, left, at, opened,
                           counted, refused, ok, failed, count, store, calls>>

-----------------------------------------------------------------------------
(* _NodeUploader.upload: up to ten uploads at a time.                      *)

Upload(n, f) == /\ remote /\ Working(n) /\ f \in left[n]
                /\ left' = [left EXCEPT ![n] = @ \ {f}]
                /\ written' = [written EXCEPT ![f] = f.size]
                /\ counted' = [counted EXCEPT ![n] = @ + 1]
                /\ UNCHANGED <<options, collected, call, listed, unseeded, asked, pending, ready, at,
                               opened, refused, ok, failed, count, staged, faults, calls>>

\* An upload that fails is recorded and the others go on; in a strict call it
\* cancels them, except those that run already, and raises.
UploadFails(n, f) ==
  /\ remote /\ Working(n) /\ f \in left[n] /\ Fault
  /\ IF strict
     THEN \E running \in SUBSET (left[n] \ {f}) :
            /\ written' = [g \in File |-> IF g \in running THEN g.size ELSE written[g]]
            /\ left' = [left EXCEPT ![n] = {}]
            /\ ready' = [ready EXCEPT ![n] = "error"]
            /\ UNCHANGED refused
     ELSE /\ left' = [left EXCEPT ![n] = @ \ {f}]
          /\ refused' = refused \cup {f}
          /\ UNCHANGED <<ready, written>>
  /\ UNCHANGED <<options, collected, call, listed, unseeded, asked, pending, at, opened, counted, ok,
                 failed, count, staged, calls>>

-----------------------------------------------------------------------------
(* The driver's loop.                                                      *)

\* The driver is in its loop over ray.wait, and not in next(gen) of one node.
Looping == call = "in" /\ unseeded = {} /\ asked = {}

Received(n, what) == Looping /\ n \in pending /\ ready[n] = what

TakeResult(n) == /\ remote /\ Received(n, "data")
                 /\ pending' = pending \ {n} /\ ok' = ok \cup {n}
                 /\ UNCHANGED <<options, collected, call, listed, unseeded, asked, ready, left, at, opened,
                                counted, refused, failed, count, store, faults, calls>>

\* Mutant: a stream has ended when only one file is left.
EndsEarly(n) == at[n].chunk = at[n].file.size /\ Cardinality(left[n]) <= 1

StreamEnds(n) == at[n].chunk = at[n].file.size /\ left[n] = {}

\* Where a stream goes from the last chunk: files come in any order.
Following(n) ==
  IF at[n].chunk < at[n].file.size
  THEN {[file |-> at[n].file, chunk |-> at[n].chunk + 1]}
  ELSE {[file |-> f, chunk |-> 1] : f \in left[n]}

\* Seeding: the driver asks one stream after the other, and waits for each.
Ask(n) == /\ call = "in" /\ asked = {} /\ n \in unseeded
          /\ asked' = {n} /\ unseeded' = unseeded \ {n}
          /\ UNCHANGED <<options, collected, call, listed, pending, ready, left, at, opened, counted,
                         refused, ok, failed, count, store, faults, calls>>

\* next(gen) returns when the node has yielded another chunk, or when its stream is
\* at its end, which for an empty directory it is at once; no time limit applies.
Answer(n) ==
  /\ call = "in" /\ n \in asked /\ asked' = asked \ {n}
  /\ \/ /\ StreamEnds(n)
        /\ ok' = ok \cup {n}
        /\ UNCHANGED <<pending, at, left>>
     \/ /\ ~StreamEnds(n)
        /\ \E next \in Following(n) : /\ at' = [at EXCEPT ![n] = next]
                                      /\ left' = [left EXCEPT ![n] = @ \ {next.file}]
        /\ pending' = pending \cup {n}
        /\ UNCHANGED ok
  /\ UNCHANGED <<options, collected, call, listed, unseeded, ready, opened, counted, refused, failed,
                 count, store, faults, calls>>

\* The actor dies, cannot be placed or cannot read: next(gen) gives a reference to
\* the error, or raises, which only in the loop is the failure of that node.
AnswerFails(n) ==
  /\ call = "in" /\ n \in asked /\ asked' = asked \ {n} /\ Fault
  /\ \/ /\ pending' = pending \cup {n} /\ ready' = [ready EXCEPT ![n] = "error"]
        /\ UNCHANGED <<failed, opened>>
     \/ /\ at[n] # Nowhere
        /\ failed' = failed \cup {n} /\ opened' = [opened EXCEPT ![n] = NoFile]
        /\ UNCHANGED <<pending, ready>>
  /\ UNCHANGED <<options, collected, call, listed, unseeded, left, at, counted, refused, ok, count,
                 store, calls>>

\* _process_chunk: a file that is not the open one is opened, which truncates it.
WriteChunk(n) ==
  LET f == at[n].file
      before == IF opened[n] = f THEN written[f] ELSE 0
  IN /\ written' = [written EXCEPT ![f] = before + 1]
     /\ opened' = [opened EXCEPT ![n] = IF at[n].chunk = f.size THEN NoFile ELSE f]
     /\ counted' = [counted EXCEPT ![n] = IF at[n].chunk = f.size THEN @ + 1 ELSE @]

\* A chunk is written and the next one asked for.
TakeChunk(n) ==
  /\ ~remote /\ Received(n, "data")
  /\ WriteChunk(n)
  /\ pending' = pending \ {n} /\ asked' = {n} /\ ready' = [ready EXCEPT ![n] = "nothing"]
  /\ UNCHANGED <<options, collected, call, listed, unseeded, left, at, refused, ok, failed, count,
                 staged, faults, calls>>

\* The chunk cannot be written: nothing of it is, but the file may be truncated.
TakeChunkFails(n) ==
  /\ ~remote /\ Received(n, "data") /\ Fault
  /\ \/ UNCHANGED written
     \/ opened[n] # at[n].file /\ written' = [written EXCEPT ![at[n].file] = 0]
  /\ opened' = [opened EXCEPT ![n] = NoFile]
  /\ pending' = pending \ {n} /\ failed' = failed \cup {n}
  /\ UNCHANGED <<options, collected, call, listed, unseeded, asked, ready, left, at, counted, refused,
                 ok, count, staged, calls>>

\* An exception leaves the call: the actors are killed.
Escapes == /\ call' = IF strict THEN "raised" ELSE "gave up"
           /\ unseeded' = {} /\ asked' = {} /\ pending' = {}
           /\ opened' = [n \in Node |-> NoFile]
           /\ UNCHANGED <<options, collected, listed, ready, left, at, counted, refused, ok,
                          failed, count, calls>>

\* What happens to the nodes the driver gives up: a strict upload raises, the
\* transport reports them in any case.
GiveUp(nodes) ==
  IF remote /\ strict
  THEN Escapes /\ UNCHANGED <<store, faults>>
  ELSE /\ failed' = failed \cup nodes /\ pending' = pending \ nodes
       /\ opened' = [n \in Node |-> IF n \in nodes THEN NoFile ELSE opened[n]]
       /\ UNCHANGED <<options, collected, call, listed, unseeded, asked, ready, left, at, counted,
                      refused, ok, count, store, faults, calls>>

TakeError(n) == Received(n, "error") /\ GiveUp({n})

\* Mutant: nodes are only given up if none has answered yet.
SilentFromTheStart == pending = listed /\ \A n \in pending : ready[n] = "nothing"

\* No reference waited for is there for the whole time limit.
Silent == pending # {} /\ \A n \in pending : ready[n] = "nothing"

Stall == Looping /\ Silent /\ GiveUp(pending)

-----------------------------------------------------------------------------
(* The end of the call.                                                    *)

\* Mutant: the files of every node count.
CountedOfAll == listed

CountedNodes == ok

\* Only the directory of the driver's own node is removed, as far as possible.
CleanUp == \E gone \in SUBSET StagedOn(Driver) : staged' = staged \ gone

SumOf(nodes) ==
  LET sum[S \in SUBSET nodes] ==
        IF S = {} THEN 0 ELSE LET n == CHOOSE n \in S : TRUE IN counted[n] + sum[S \ {n}]
  IN sum[nodes]

Return == /\ Looping /\ pending = {} /\ ~(strict /\ ~remote /\ failed # {})
          /\ call' = "returned" /\ collected' = TRUE
          /\ count' = SumOf(CountedNodes)
          /\ CleanUp
          /\ UNCHANGED <<options, listed, stream, written, faults, calls>>

\* A strict local call looks at the failed nodes after the transport is done.
StrictFails == /\ Looping /\ pending = {} /\ strict /\ ~remote /\ failed # {}
               /\ Escapes /\ UNCHANGED <<store, faults>>

\* Mutant: staging is cleaned however the call ends.
KeptOnlyElsewhere == staged' = staged \ StagedOn(Driver)

Kept == UNCHANGED staged

\* Anything outside the handling of a single node: the listing of nodes, a writer
\* that cannot be made, the output directory, a stream that raises while it is seeded.
CollectFails == call = "in" /\ Fault /\ Escapes /\ Kept /\ UNCHANGED written

Drive == \/ Stall \/ Return \/ StrictFails
         \/ \E n \in Node : Ask(n) \/ TakeResult(n) \/ TakeChunk(n) \/ TakeError(n)

Next == \/ Drive \/ Collect \/ CollectAgain \/ CollectFails
        \/ \E n \in Node : \/ Answer(n) \/ AnswerFails(n) \/ Arrive(n) \/ Break(n) \/ TakeChunkFails(n)
                           \/ \E f \in File : Upload(n, f) \/ UploadFails(n, f)

Spec == Init /\ [][Next]_vars

\* The driver goes on where it need not wait; nodes answer or do not.
LiveSpec == Spec /\ WF_vars(Drive)
=============================================================================
