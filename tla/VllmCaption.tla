----------------------------- MODULE VllmCaption -----------------------------
(***************************************************************************)
(* VllmCaptionStage.process_data with vllm_caption: one actor captions     *)
(* batches of windows with a vLLM engine, in two stages if asked, with or  *)
(* without in-flight batching.  The engine answers in any order; whatever  *)
(* raises, the engine is torn down and the batch starts over, at most      *)
(* max_retries times.                                                      *)
(***************************************************************************)
EXTENDS Naturals, FiniteSets

CONSTANTS
    Windows,      \* the active windows of a batch, by their index
    Stage2,       \* vllm_config.stage2_caption
    Inflight,     \* inflight_batching
    MaxInflight,  \* max_inflight_requests, 0 for no limit
    MaxRetries,   \* vllm_config.max_retries
    NoWindow, Unknown, Empty, Missing,
    MaxCalls,     \* bound: batches the actor is given
    MaxFaults     \* bound: exceptions

ASSUME CaptionAssumption ==
    /\ Stage2 \in BOOLEAN /\ Inflight \in BOOLEAN
    /\ MaxInflight \in Nat /\ MaxRetries \in Nat \ {0}
    /\ NoWindow \notin Windows
    /\ Missing \notin [frames : Windows, draft : Windows \cup {NoWindow}] \cup {Unknown}
    /\ MaxCalls \in Nat /\ MaxFaults \in Nat

VARIABLES
    state,     \* process_data: "idle", "busy", "refused" (it raised)
    attempt,   \* of _vllm_caption
    engine,    \* "up", or "none" when self._llm is None
    working,   \* external: ids of the requests inside the engine
    queue,     \* request_q; its order changes nothing
    inflight,  \* in_flight_requests
    index,     \* request_id_to_index
    results,   \* results
    caption,   \* window.caption of the batch
    error,     \* errors["captioning"] of its videos
    budget     \* what is left of the bounds

localVars == <<working, queue, inflight, index, results>>
vars == <<state, attempt, engine, localVars, caption, error, budget>>

-----------------------------------------------------------------------------
(* A request id is a random token, never used twice: named here after the  *)
(* window it was first drawn for and the stage.                            *)

Ids == Windows \X {1, 2}

\* draft: the window whose stage-1 caption is in the prompt.
Request == [id : Ids, frames : Windows, draft : Windows \cup {NoWindow}, refine : BOOLEAN]

First(w) == [id |-> <<w, 1>>, frames |-> w, draft |-> NoWindow, refine |-> Stage2]

\* make_refined_llm_request: the frames and the caption of the request.
RefinedAgain(r) ==  \* mutant: the second request is to be refined as well
    [id |-> <<r.id[1], 2>>, frames |-> r.frames, draft |-> r.frames, refine |-> TRUE]
Refined(r) == [id |-> <<r.id[1], 2>>, frames |-> r.frames, draft |-> r.frames, refine |-> FALSE]

\* What the engine says of the frames and the draft it was given.
Text(r) == [frames |-> r.frames, draft |-> r.draft]
Own(w) == {[frames |-> w, draft |-> IF Stage2 THEN w ELSE NoWindow], Unknown}

Captions == UNION {Own(w) : w \in Windows}

IdsOf(S) == {r.id : r \in S}

Init ==
    /\ state = "idle" /\ attempt = 1 /\ engine = "up"
    /\ working = {} /\ queue = {} /\ inflight = {}
    /\ index = [id \in Ids |-> NoWindow]
    /\ results = [w \in Windows |-> Missing]
    /\ caption = [w \in Windows |-> Missing]
    /\ error = FALSE
    /\ budget = [calls |-> MaxCalls, faults |-> MaxFaults]

\* The locals of _caption_inflight_batching and _caption_no_inflight_batching.
FreshLocalsKeepResults ==  \* mutant
    /\ queue' = {First(w) : w \in Windows}
    /\ inflight' = {}
    /\ index' = [id \in Ids |-> IF id[2] = 1 THEN id[1] ELSE NoWindow]
    /\ UNCHANGED results
FreshLocals ==
    /\ queue' = {First(w) : w \in Windows}
    /\ inflight' = {}
    /\ index' = [id \in Ids |-> IF id[2] = 1 THEN id[1] ELSE NoWindow]
    /\ results' = [w \in Windows |-> Missing]

Begin ==
    /\ state = "idle" /\ engine = "up" /\ budget.calls > 0
    /\ state' = "busy" /\ attempt' = 1
    /\ FreshLocals
    /\ caption' = [w \in Windows |-> Missing]
    /\ error' = FALSE
    /\ budget' = [budget EXCEPT !.calls = @ - 1]
    /\ UNCHANGED <<engine, working>>

-----------------------------------------------------------------------------
(* One turn of the loop: admit, step the engine, take what it finished.    *)

Room == MaxInflight = 0 \/ Cardinality(inflight) < MaxInflight

\* In flight, one request at a time if there is room; otherwise a whole stage.
Admit ==
    IF ~Inflight THEN {queue}
    ELSE IF queue # {} /\ Room THEN {{r} : r \in queue} ELSE {{}}

\* llm.generate returns when all is finished, engine.step at any time.
Finishes(ids) == IF Inflight THEN SUBSET ids ELSE {ids}

\* The refined requests inherit the index of the request they refine.
IndexOfAnother(refined) ==  \* mutant: paired with another request of the same turn
    [id \in Ids |-> IF \E r \in refined : Refined(r).id = id
                    THEN index[(CHOOSE r \in refined : Refined(r).id # id \/ refined = {r}).id]
                    ELSE index[id]]
Inherited(refined) ==
    [id \in Ids |-> IF \E r \in refined : Refined(r).id = id
                    THEN index[<<id[1], 1>>] ELSE index[id]]

\* Captions that are final, filed under the index of their request; the
\* engine may have nothing to say.
Results(finished, blank) ==
    [w \in Windows |->
        IF \E r \in finished : ~r.refine /\ index[r.id] = w
        THEN LET r == CHOOSE q \in finished : ~q.refine /\ index[q.id] = w
             IN  IF r \in blank THEN Unknown ELSE Text(r)
        ELSE results[w]]

Complete == \A w \in Windows : results[w] # Missing

Turn(admitted, ids) ==
    LET flying == inflight \cup admitted
        finished == {r \in flying : r.id \in ids}
        refined == {r \in finished : r.refine}
    IN  /\ state = "busy" /\ engine = "up" /\ ~Complete
        /\ working' = (working \cup IdsOf(admitted)) \ ids
        /\ inflight' = flying \ finished
        /\ queue' = (queue \ admitted) \cup {Refined(r) : r \in refined}
        /\ index' = Inherited(refined)
        /\ \E blank \in SUBSET finished : results' = Results(finished, blank)
        /\ UNCHANGED <<state, attempt, engine, caption, error, budget>>

Step == \E admitted \in Admit : \E ids \in Finishes(working \cup IdsOf(admitted)) :
            Turn(admitted, ids)

\* All results are in: the error of an earlier attempt is taken back and the
\* captions are scattered.
Deliver ==
    /\ state = "busy" /\ engine = "up" /\ Complete
    /\ state' = "idle"
    /\ caption' = results
    /\ error' = FALSE
    /\ UNCHANGED <<attempt, engine, localVars, budget>>

-----------------------------------------------------------------------------
(* An exception: from a request, the engine or, once there is none, always. *)

\* _reset drops the engine and starts another, which may raise as well.
Reset ==
    LET left == IF engine = "up" THEN budget.faults - 1 ELSE budget.faults
    IN  /\ working' = {}
        /\ \/ engine' = "up" /\ budget' = [budget EXCEPT !.faults = left]
           \/ /\ left > 0
              /\ engine' = "none" /\ budget' = [budget EXCEPT !.faults = left - 1]

Raise ==
    /\ state = "busy"
    /\ engine = "up" => budget.faults > 0
    /\ error' = TRUE
    /\ Reset

Retry ==
    /\ Raise /\ attempt < MaxRetries
    /\ attempt' = attempt + 1
    /\ FreshLocals
    /\ UNCHANGED <<state, caption>>

GiveUp ==
    /\ Raise /\ attempt = MaxRetries
    /\ state' = "idle"
    /\ caption' = [w \in Windows |-> Empty]
    /\ UNCHANGED <<attempt, queue, inflight, index, results>>

\* Without an engine the next call raises before it does anything, every
\* time it is tried, and ends the run.
Refuse ==
    /\ state = "idle" /\ engine = "none" /\ budget.calls > 0
    /\ state' = "refused"
    /\ UNCHANGED <<attempt, engine, localVars, caption, error, budget>>

Next == Begin \/ Step \/ Deliver \/ Retry \/ GiveUp \/ Refuse

Spec == Init /\ [][Next]_vars

\* The actor keeps going, and the engine finishes whatever it was given.
StepOf(id) == \E admitted \in Admit : \E ids \in Finishes(working \cup IdsOf(admitted)) :
                  id \in ids /\ Turn(admitted, ids)

Fairness ==
    /\ WF_vars(Step) /\ WF_vars(Deliver)
    /\ WF_vars(engine = "none" /\ (Retry \/ GiveUp))
    /\ \A id \in Ids : WF_vars(StepOf(id))

LiveSpec == Spec /\ Fairness
=============================================================================
