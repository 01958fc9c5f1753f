--------------------------- MODULE VllmCaptionProps ---------------------------
(***************************************************************************)
(* What the captioning of a batch keeps and promises.                      *)
(***************************************************************************)
EXTENDS VllmCaption

\* Every variable stays in its range.
TypeOK ==
    /\ state \in {"idle", "busy", "refused"}
    /\ attempt \in 1..MaxRetries
    /\ engine \in {"up", "none"}
    /\ working \subseteq Ids
    /\ queue \subseteq Request /\ inflight \subseteq Request
    /\ index \in [Ids -> Windows \cup {NoWindow}]
    /\ results \in [Windows -> Captions \cup {Missing}]
    /\ \A w \in Windows : results[w] = Missing \/ results[w] \in Own(w)
    /\ error \in BOOLEAN
    /\ budget \in [calls : Nat, faults : Nat]

\* The books of the stage and of the engine agree: no answer is for a request
\* the stage does not know (a KeyError), and nothing of a batch or of a failed
\* attempt is left in the engine when the next one starts.
EngineAgrees ==
    /\ state = "busy" => working = IdsOf(inflight)
    /\ state # "busy" => working = {}

\* max_inflight_requests holds through both stages.
WithinLimit ==
    Inflight /\ MaxInflight > 0 => Cardinality(inflight) <= MaxInflight

\* Every request is filed under the window its frames come from, at the stage
\* its id was drawn for.
Waiting == queue \cup inflight
RequestsFiled ==
    \A r \in Waiting :
        /\ r.frames = r.id[1] /\ index[r.id] = r.frames
        /\ r.id[2] = 1 => r = First(r.frames)
        /\ r.id[2] = 2 => Stage2 /\ r = Refined(First(r.frames))

\* While a batch is worked on, each of its windows has a caption or exactly
\* one request on its way: none is lost, answered twice or in two places.
NoWindowLost ==
    state = "busy" =>
        /\ queue \cap inflight = {}
        /\ \A w \in Windows :
              (results[w] = Missing) <=> (\E r \in Waiting : r.frames = w)
        /\ \A r, s \in Waiting : r.frames = s.frames => r = s

\* An engine is missing only after an exception nobody took back.
EngineLossKnown == engine = "none" => error

\* The stage keeps its promise: every batch ends with captions of the right
\* frames and stage for all of its windows, or with an error on its videos.
\* The abstract error is what the next stage sees, not what an attempt sets.
Promise == INSTANCE CaptionPromise WITH error <- (state # "busy" /\ error)
KeepsPromise == Promise!Spec

\* Every batch that is begun ends, whatever the engine's order and however
\* often it fails: the loop never waits for a request nobody works on.
BatchesEnd == state = "busy" ~> state # "busy"

CaptionInv == TypeOK /\ EngineAgrees /\ RequestsFiled /\ NoWindowLost /\ EngineLossKnown
=============================================================================
