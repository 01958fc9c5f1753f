------------------------ MODULE ArtifactTransportProps ------------------------
(***************************************************************************)
(* What a caller of ArtifactDelivery.collect can rely on.                  *)
(***************************************************************************)
EXTENDS ArtifactTransport

\* Every variable keeps its type.
VariableTypes ==
  /\ remote \in BOOLEAN /\ strict \in BOOLEAN /\ collected \in BOOLEAN
  /\ call \in {"never", "in", "returned", "raised", "gave up", "already", "skipped"}
  /\ listed \subseteq Node /\ unseeded \subseteq listed /\ asked \subseteq listed
  /\ pending \subseteq listed /\ ok \subseteq listed /\ failed \subseteq listed
  /\ ready \in [Node -> {"nothing", "data", "error"}]
  /\ left \in [Node -> SUBSET File] /\ refused \subseteq File
  /\ at \in [Node -> [file : File \cup {NoFile}, chunk : Nat]] /\ opened \in [Node -> File \cup {NoFile}]
  /\ counted \in [Node -> Nat]
  /\ staged \subseteq File /\ written \in [File -> Nat]
  /\ faults \in Nat /\ calls \in Nat

TypeOK == VariableTypes /\ count \in Nat

\* What became of a node: reported if it failed or some of its files did.
Fate == [n \in Node |->
  IF n \notin listed THEN "unlisted"
  ELSE IF n \in failed \/ (n \in ok /\ FilesOf(n) \cap refused # {}) THEN "reported"
  ELSE IF n \in ok /\ \A f \in FilesOf(n) : Whole(f) THEN "delivered"
  ELSE "open"]

Promise == INSTANCE DeliveryPromise WITH fate <- Fate

\* collect keeps the promise of DeliveryPromise, whichever way it goes: a call that
\* returns has settled every node it found, a node is only counted as delivered
\* with all its files whole, and a strict call returns only with everything.
KeepsPromise == Promise!Spec

\* The number returned is that of the files that came through whole from the nodes
\* that are not reported, and from reported ones of an upload those not refused.
CountExact ==
  call = "returned" =>
    LET through == {f \in File : f.node \in ok /\ f \notin refused}
    IN count = Cardinality(through) /\ \A f \in through : Whole(f)

\* A file that is neither staged any more nor whole at the destination.
Lost(f) == f \notin staged /\ ~Whole(f)

\* collect removes what it staged only when it is delivered, except in the two ways
\* in which the code does lose a file, of the driver's own node and in a call that
\* returns: the call did not find that node among the live ones (it may find none)
\* and removes its files with no report, or the call is lenient and has reported
\* the node or the file.  A strict call loses nothing of a node it found.
StagingKept ==
  \A f \in File : Lost(f) =>
    /\ f.node = Driver /\ collected
    /\ \/ Driver \notin listed
       \/ ~strict /\ (Driver \in failed \/ f \in refused)

\* A call ends, though nodes may never answer: the driver gives them up.  This does
\* not help it while it asks a node for its next reference, which has no time
\* limit: the call ends if no such question is left open for ever.  An upload asks
\* none and ends whatever the nodes do.
CollectEnds == []<>(asked = {}) => (call = "in" ~> call # "in")

-----------------------------------------------------------------------------
(* What makes StagingKept inductive.                                       *)

\* Nodes that are not settled.
Unsettled == unseeded \cup asked \cup pending

\* The file a stream is in the middle of.
Begun(n) == at[n].chunk < at[n].file.size

\* Between two references: the files begun are whole, but the one in the middle of
\* which the stream stands, which has the chunks up to the last.
Between(n) ==
  /\ at[n].file \in FilesOf(n) \cup {NoFile} /\ at[n].chunk \in 0..at[n].file.size
  /\ left[n] \subseteq FilesOf(n) \ {at[n].file}
  /\ IF Begun(n) THEN /\ at[n].chunk # 0
                      /\ opened[n] = at[n].file /\ written[at[n].file] = at[n].chunk
     ELSE opened[n] = NoFile
  /\ \A f \in FilesOf(n) \ left[n] : (f = at[n].file /\ Begun(n)) \/ Whole(f)

\* A chunk is due: it is the first of a file or the next of the one that is open.
ChunkDue(n) ==
  /\ at[n].file \in FilesOf(n) /\ at[n].chunk \in 1..at[n].file.size
  /\ left[n] \subseteq FilesOf(n) \ {at[n].file}
  /\ IF at[n].chunk = 1 THEN opened[n] # at[n].file
     ELSE opened[n] = at[n].file /\ written[at[n].file] = at[n].chunk - 1
  /\ \A f \in FilesOf(n) \ (left[n] \cup {at[n].file}) : Whole(f)

StreamInv ==
  (call = "in" /\ ~remote) =>
    /\ \A n \in unseeded : at[n] = Nowhere
    /\ \A n \in unseeded \cup asked : Between(n) /\ ready[n] = "nothing"
    /\ \A n \in pending : ready[n] # "error" => ChunkDue(n)

\* A node that uploads, unless it broke, has uploaded or reported the rest.
UploadInv ==
  (call = "in" /\ remote) => \A n \in listed :
    /\ left[n] \subseteq FilesOf(n)
    /\ ready[n] # "error" => /\ \A f \in FilesOf(n) : f \in left[n] \/ Whole(f) \/ f \in refused
                             /\ ready[n] = "data" => left[n] = {}

\* Every node found is unsettled, and one thing only, or settled, and one settled as
\* well has its files through or reported; before a call returns nothing leaves the
\* staging, and what then does is of the driver's node.
SettledInv ==
  /\ call = "in" => /\ listed = Unsettled \cup ok \cup failed /\ Unsettled \cap ok = {}
                    /\ unseeded \cap asked = {} /\ pending \cap (unseeded \cup asked) = {}
                    /\ remote => unseeded = {} /\ asked = {}
                    /\ \A n \in ok : \A f \in FilesOf(n) : Whole(f) \/ f \in refused
                    /\ ~collected
  /\ ~collected => staged = File

\* Who reports what: a node is settled once, a strict upload has nothing to report,
\* and who returned once does not collect again.
ReportInv ==
  /\ collected <=> call \in {"returned", "already"}
  /\ strict \/ ~remote => refused = {}
  /\ call = "in" => /\ Unsettled \cap failed = {}
                    /\ strict /\ remote => failed = {}
                    /\ remote => \A n \in ok : ready[n] = "data"

TransportInv == VariableTypes /\ StreamInv /\ UploadInv /\ SettledInv

\* The file of a stream that is due or in the middle.
Due(n) == IF ~remote /\ (n \in pending \/ (n \in asked /\ Begun(n))) THEN {at[n].file} ELSE {}

\* The files a node has streamed or uploaded to the end: not those left, refused
\* or due.
Brought(n) == FilesOf(n) \ (left[n] \cup refused \cup Due(n))

\* Their number is the node's counter, as long as its upload goes on.
Counts(n) == ready[n] # "error" => left[n] \cap refused = {} /\ counted[n] = Cardinality(Brought(n))

\* What makes CountExact inductive: the counters of all nodes unsettled or settled
\* well are right, and one that is settled well has nothing left.
CountInv ==
  /\ call = "in" => /\ \A n \in Unsettled \cup ok : Counts(n)
                    /\ \A n \in ok : left[n] = {} /\ ready[n] # "error"
  /\ CountExact
=============================================================================
