-------------------------- MODULE VllmCaption_proofs --------------------------
(***************************************************************************)
(* The captioning stage keeps its books and its promise for every number   *)
(* of windows, both batching modes, one or two stages, any limit and any   *)
(* exceptions; and the preparation in front of it keeps scenes whole and   *)
(* their views aligned for any scenes, cameras, chunks and windows.  The   *)
(* two share no state and no name.                                         *)
(***************************************************************************)
EXTENDS VllmCaptionProps, MultiviewPrepProps, FiniteSetTheorems, TLAPS

-----------------------------------------------------------------------------
(* Requests and their ids. *)

\* The first request of a window is a request.
LEMMA FirstType ==
    ASSUME NEW w \in Windows
    PROVE  First(w) \in Request
  BY CaptionAssumption DEF First, Request, Ids

\* So is its refinement, of the same frames, with an id of stage two.
LEMMA RefinedType ==
    ASSUME NEW r \in Request
    PROVE  /\ Refined(r) \in Request
           /\ Refined(r).id = <<r.id[1], 2>> /\ Refined(r).frames = r.frames
  BY DEF Refined, Request, Ids

\* What a request that is filed looks like.
LEMMA Filed ==
    ASSUME TypeOK, RequestsFiled, NEW r \in Waiting
    PROVE  /\ r \in Request /\ r.id \in Ids
           /\ r.id = <<r.frames, r.id[2]>> /\ r.id[2] \in {1, 2} /\ r.frames \in Windows
           /\ index[r.id] = r.frames
           /\ r.refine <=> (r.id[2] = 1 /\ Stage2)
           /\ r.refine => r = First(r.frames)
           /\ ~r.refine => Text(r) \in Own(r.frames)
  <1>1. r \in Request /\ r.id \in Ids /\ r.frames \in Windows /\ r.refine \in BOOLEAN
    BY DEF TypeOK, Waiting, Request
  <1>2. r.id[1] = r.frames /\ r.id[2] \in {1, 2} /\ r.id = <<r.id[1], r.id[2]>>
    BY <1>1 DEF RequestsFiled, Ids
  <1>3. index[r.id] = r.frames
    BY DEF RequestsFiled
  <1>4. CASE r.id[2] = 1
    <2>1. r = First(r.frames)
      BY <1>4 DEF RequestsFiled
    <2>2. r.refine = Stage2 /\ r.draft = NoWindow
      BY <2>1 DEF First
    <2>3. ~r.refine => Text(r) \in Own(r.frames)
      BY <2>2 DEF Text, Own
    <2> QED
      BY <1>1, <1>2, <1>3, <1>4, <2>1, <2>2, <2>3, CaptionAssumption
  <1>5. CASE r.id[2] = 2
    <2>1. Stage2 /\ r = Refined(First(r.frames))
      BY <1>5 DEF RequestsFiled
    <2>2. r.refine = FALSE /\ r.draft = r.frames
      BY <2>1 DEF Refined, First
    <2>3. Text(r) \in Own(r.frames)
      BY <2>1, <2>2 DEF Text, Own
    <2> QED
      BY <1>1, <1>2, <1>3, <1>5, <2>1, <2>2, <2>3
  <1> QED
    BY <1>2, <1>4, <1>5

-----------------------------------------------------------------------------
(* A batch starts, or starts over. *)

\* An attempt that starts on an empty engine has every window queued once.
LEMMA FreshKeepsInv ==
    ASSUME FreshLocals, working' = {}
    PROVE  /\ queue' \subseteq Request /\ inflight' \subseteq Request
           /\ index' \in [Ids -> Windows \cup {NoWindow}]
           /\ results' = [w \in Windows |-> Missing]
           /\ working' = IdsOf(inflight')
           /\ RequestsFiled' /\ NoWindowLost'
  <1>1. queue' = {First(w) : w \in Windows} /\ inflight' = {}
        /\ results' = [w \in Windows |-> Missing]
    BY DEF FreshLocals
  <1>2. index' = [id \in Ids |-> IF id[2] = 1 THEN id[1] ELSE NoWindow]
    BY DEF FreshLocals
  <1>3. index' \in [Ids -> Windows \cup {NoWindow}]
    BY <1>2 DEF Ids
  <1>4. \A w \in Windows : First(w).id = <<w, 1>> /\ First(w).frames = w
    BY DEF First
  <1>5. RequestsFiled'
    <2> SUFFICES ASSUME NEW r \in Waiting'
                 PROVE  /\ r.frames = r.id[1] /\ index'[r.id] = r.frames
                        /\ r.id[2] = 1 => r = First(r.frames)
                        /\ r.id[2] = 2 => Stage2 /\ r = Refined(First(r.frames))
      BY DEF RequestsFiled, First, Refined
    <2>1. PICK w \in Windows : r = First(w)
      BY <1>1 DEF Waiting
    <2>2. r.id = <<w, 1>> /\ r.frames = w /\ r.id \in Ids
      BY <2>1, <1>4 DEF Ids
    <2> QED
      BY <2>1, <2>2, <1>2
  <1>6. NoWindowLost'
    BY <1>1, <1>4 DEF NoWindowLost, Waiting
  <1>7. queue' \subseteq Request
    BY <1>1, FirstType
  <1> QED
    BY <1>1, <1>3, <1>5, <1>6, <1>7 DEF IdsOf

-----------------------------------------------------------------------------
(* One turn of the loop. *)

\* Only queued requests are admitted.
LEMMA AdmitFromQueue ==
    ASSUME NEW admitted \in Admit
    PROVE  admitted \subseteq queue
  BY DEF Admit

\* Which requests are on their way after a turn, and what the engine has.
LEMMA TurnWaiting ==
    ASSUME CaptionInv, NEW admitted \in Admit,
           NEW ids \in Finishes(working \cup IdsOf(admitted)), Turn(admitted, ids)
    PROVE  LET finished == {r \in inflight \cup admitted : r.id \in ids}
           IN
           /\ finished \subseteq Waiting
           /\ working' = IdsOf(inflight')
           /\ inflight' = (inflight \cup admitted) \ finished
           /\ queue' = (queue \ admitted) \cup {Refined(r) : r \in {q \in finished : q.refine}}
           /\ Waiting' = (Waiting \ finished) \cup {Refined(r) : r \in {q \in finished : q.refine}}
  <1> DEFINE finished == {r \in inflight \cup admitted : r.id \in ids}
  <1>1. admitted \subseteq queue
    BY AdmitFromQueue
  <1>2. /\ working' = (working \cup IdsOf(admitted)) \ ids
        /\ inflight' = (inflight \cup admitted) \ finished
        /\ queue' = (queue \ admitted) \cup {Refined(r) : r \in {q \in finished : q.refine}}
        /\ state = "busy"
    BY Zenon DEF Turn
  <1>3. working = IdsOf(inflight) /\ queue \cap inflight = {}
    BY <1>2 DEF CaptionInv, EngineAgrees, NoWindowLost
  <1>4. working' = IdsOf(inflight')
    BY <1>2, <1>3 DEF IdsOf
  <1>5. finished \cap (queue \ admitted) = {}
    BY <1>3
  <1>6. Waiting' = (Waiting \ finished) \cup {Refined(r) : r \in {q \in finished : q.refine}}
    BY <1>1, <1>2, <1>5 DEF Waiting
  <1> QED
    BY <1>1, <1>2, <1>4, <1>6 DEF Waiting

\* A turn moves requests from queue to engine to results and loses none.
LEMMA TurnKeepsInv ==
    ASSUME CaptionInv, NEW admitted \in Admit,
           NEW ids \in Finishes(working \cup IdsOf(admitted)), Turn(admitted, ids)
    PROVE  CaptionInv'
  <1> DEFINE finished == {r \in inflight \cup admitted : r.id \in ids}
             refined == {r \in finished : r.refine}
  <1>1. /\ finished \subseteq Waiting
        /\ working' = IdsOf(inflight')
        /\ inflight' = (inflight \cup admitted) \ finished
        /\ queue' = (queue \ admitted) \cup {Refined(r) : r \in refined}
        /\ Waiting' = (Waiting \ finished) \cup {Refined(r) : r \in refined}
    BY TurnWaiting, Zenon
  <1>2. /\ state = "busy" /\ engine = "up"
        /\ index' = Inherited(refined)
        /\ \E blank \in SUBSET finished : results' = Results(finished, blank)
        /\ UNCHANGED <<state, attempt, engine, caption, error, budget>>
    BY Zenon DEF Turn
  <1>3. TypeOK /\ RequestsFiled /\ NoWindowLost /\ EngineLossKnown
    BY DEF CaptionInv
  <1>4. admitted \subseteq queue
    BY AdmitFromQueue
  <1>5. \A r, s \in Waiting : r.frames = s.frames => r = s
    BY <1>2, <1>3 DEF NoWindowLost
  <1>6. \A r \in refined : /\ r \in Waiting /\ r \in Request /\ r.frames \in Windows
                           /\ r.id = <<r.frames, 1>> /\ Stage2 /\ r = First(r.frames)
                           /\ Refined(r) \in Request
                           /\ Refined(r).id = <<r.frames, 2>> /\ Refined(r).frames = r.frames
    <2> TAKE r \in refined
    <2>1. r \in Waiting /\ r.refine
      BY <1>1
    <2>2. r \in Request /\ r.id = <<r.frames, r.id[2]>> /\ r.id[2] = 1 /\ Stage2
          /\ r = First(r.frames) /\ r.frames \in Windows
      BY <2>1, <1>3, Filed
    <2> QED
      BY <2>1, <2>2, RefinedType
  <1>7. index' \in [Ids -> Windows \cup {NoWindow}]
    <2>1. \A id \in Ids : <<id[1], 1>> \in Ids
      BY DEF Ids
    <2> QED
      BY <1>2, <1>3, <2>1 DEF Inherited, TypeOK
  <1>8. \A r \in Waiting \ finished : index'[r.id] = r.frames
    <2> TAKE r \in Waiting \ finished
    <2>1. r.id \in Ids /\ index[r.id] = r.frames /\ r.id[1] = r.frames
      BY <1>3, Filed
    <2>2. CASE \E q \in refined : Refined(q).id = r.id
      <3>1. PICK q \in refined : Refined(q).id = r.id
        BY <2>2
      <3>2. q.frames = r.frames /\ q \in Waiting /\ q \in finished
        BY <3>1, <1>6, <2>1
      <3> QED
        BY <3>2, <1>5
    <2>3. CASE ~ \E q \in refined : Refined(q).id = r.id
      BY <2>1, <2>3, <1>2 DEF Inherited
    <2> QED
      BY <2>2, <2>3
  <1>9. \A r \in refined : index'[Refined(r).id] = r.frames
    <2> TAKE r \in refined
    <2>1. index[<<r.frames, 1>>] = r.frames
      BY <1>3, <1>6, Filed
    <2>2. <<r.frames, 2>> \in Ids /\ <<r.frames, 2>>[1] = r.frames
      BY <1>6 DEF Ids
    <2>3. index'[<<r.frames, 2>>] = index[<<r.frames, 1>>]
      BY <1>2, <1>6, <2>2 DEF Inherited
    <2> QED
      BY <1>6, <2>1, <2>3
  <1>10. RequestsFiled'
    <2> SUFFICES ASSUME NEW r \in Waiting'
                 PROVE  /\ r.frames = r.id[1] /\ index'[r.id] = r.frames
                        /\ r.id[2] = 1 => r = First(r.frames)
                        /\ r.id[2] = 2 => Stage2 /\ r = Refined(First(r.frames))
      BY DEF RequestsFiled, First, Refined
    <2>1. CASE r \in Waiting \ finished
      BY <2>1, <1>3, <1>8 DEF RequestsFiled
    <2>2. CASE \E q \in refined : r = Refined(q)
      BY <2>2, <1>6, <1>9
    <2> QED
      BY <1>1, <2>1, <2>2
  <1>11. \A r \in finished : index[r.id] = r.frames /\ r.frames \in Windows
         /\ (~r.refine => Text(r) \in Own(r.frames)) /\ r.refine \in BOOLEAN
    BY <1>1, <1>3, Filed DEF Request
  <1>12. \A w \in Windows :
            IF \E r \in finished : ~r.refine /\ r.frames = w
            THEN results'[w] \in Own(w) ELSE results'[w] = results[w]
    <2>1. PICK blank \in SUBSET finished : results' = Results(finished, blank)
      BY <1>2
    <2> TAKE w \in Windows
    <2>2. CASE \E r \in finished : ~r.refine /\ r.frames = w
      <3> DEFINE r == CHOOSE q \in finished : ~q.refine /\ index[q.id] = w
      <3>1. r \in finished /\ ~r.refine /\ index[r.id] = w
        BY <2>2, <1>11
      <3>2. results'[w] = IF r \in blank THEN Unknown ELSE Text(r)
        BY <2>1, <2>2, <1>11 DEF Results
      <3>3. Text(r) \in Own(w)
        BY <3>1, <1>11
      <3> QED
        BY <2>2, <3>2, <3>3 DEF Own
    <2>3. CASE ~ \E r \in finished : ~r.refine /\ r.frames = w
      BY <2>1, <2>3, <1>11 DEF Results
    <2> QED
      BY <2>2, <2>3
  <1>13. \A w \in Windows : Missing \notin Own(w)
    BY CaptionAssumption DEF Own
  <1>14. NoWindowLost'
    <2>1. queue' \cap inflight' = {}
      <3> SUFFICES ASSUME NEW r \in queue', r \in inflight'
                   PROVE  FALSE
        OBVIOUS
      <3>1. r \in Waiting /\ r \notin finished
        BY <1>1, <1>4 DEF Waiting
      <3>2. CASE r \in queue \ admitted
        BY <3>2, <1>1, <1>2, <1>3 DEF NoWindowLost
      <3>3. CASE \E q \in refined : r = Refined(q)
        <4>1. PICK q \in refined : r = Refined(q)
          BY <3>3
        <4>2. q.frames = r.frames /\ q \in Waiting /\ q \in finished
          BY <4>1, <1>6
        <4> QED
          BY <4>2, <3>1, <1>5
      <3> QED
        BY <1>1, <3>2, <3>3
    <2>2. ASSUME NEW r \in Waiting', NEW s \in Waiting', r.frames = s.frames
          PROVE  r = s
      <3>1. \A x \in Waiting' : \E q \in Waiting :
                /\ q.frames = x.frames
                /\ \/ x = q /\ q \notin finished
                   \/ x = Refined(q) /\ q \in finished
        BY <1>1, <1>6
      <3>2. PICK q \in Waiting : /\ q.frames = r.frames
                                 /\ \/ r = q /\ q \notin finished
                                    \/ r = Refined(q) /\ q \in finished
        BY <3>1
      <3>3. PICK p \in Waiting : /\ p.frames = s.frames
                                 /\ \/ s = p /\ p \notin finished
                                    \/ s = Refined(p) /\ p \in finished
        BY <3>1
      <3>4. p = q
        BY <2>2, <3>2, <3>3, <1>5
      <3> QED
        BY <3>2, <3>3, <3>4
    <2>3. ASSUME NEW w \in Windows
          PROVE  (results'[w] = Missing) <=> (\E r \in Waiting' : r.frames = w)
      <3>1. (results[w] = Missing) <=> (\E r \in Waiting : r.frames = w)
        BY <1>2, <1>3 DEF NoWindowLost
      <3>2. CASE \E r \in finished : ~r.refine /\ r.frames = w
        <4>1. results'[w] # Missing
          BY <3>2, <1>12, <1>13
        <4>2. PICK r \in finished : ~r.refine /\ r.frames = w
          BY <3>2
        <4>3. ASSUME NEW s \in Waiting', s.frames = w PROVE FALSE
          <5>1. CASE s \in Waiting \ finished
            BY <5>1, <4>2, <4>3, <1>1, <1>5
          <5>2. CASE \E q \in refined : s = Refined(q)
            <6>1. PICK q \in refined : s = Refined(q)
              BY <5>2
            <6>2. q \in Waiting /\ q.frames = w /\ q.refine
              BY <6>1, <4>3, <1>6
            <6> QED
              BY <6>2, <4>2, <1>1, <1>5
          <5> QED
            BY <1>1, <5>1, <5>2
        <4> QED
          BY <4>1, <4>3
      <3>3. CASE ~ \E r \in finished : ~r.refine /\ r.frames = w
        <4>1. results'[w] = results[w]
          BY <3>3, <1>12
        <4>2. (\E r \in Waiting' : r.frames = w) => (\E r \in Waiting : r.frames = w)
          BY <1>1, <1>6
        <4>3. ASSUME NEW r \in Waiting, r.frames = w
              PROVE  \E s \in Waiting' : s.frames = w
          <5>1. CASE r \in finished
            <6>1. r \in refined
              BY <5>1, <4>3, <3>3
            <6> QED
              BY <6>1, <4>3, <1>1, <1>6
          <5>2. CASE r \notin finished
            BY <5>2, <4>3, <1>1
          <5> QED
            BY <5>1, <5>2
        <4> QED
          BY <4>1, <4>2, <4>3, <3>1
      <3> QED
        BY <3>2, <3>3
    <2> QED
      BY <2>1, <2>2, <2>3 DEF NoWindowLost
  <1>15. TypeOK'
    <2>1. queue' \subseteq Request /\ inflight' \subseteq Request
      BY <1>1, <1>3, <1>4, <1>6 DEF TypeOK
    <2>2. working' \subseteq Ids
      BY <2>1, <1>1 DEF IdsOf, Request
    <2>3. \A w \in Windows : results'[w] = Missing \/ results'[w] \in Own(w)
      BY <1>3, <1>12 DEF TypeOK
    <2>4. results' \in [Windows -> Captions \cup {Missing}]
      <3>1. PICK blank \in SUBSET finished : results' = Results(finished, blank)
        BY <1>2
      <3>2. \A w \in Windows : results'[w] \in Captions \cup {Missing}
        BY <2>3 DEF Captions
      <3> HIDE DEF finished, refined
      <3>3. results' = [w \in Windows |-> results'[w]]
        BY <3>1 DEF Results
      <3> QED
        BY <3>2, <3>3
    <2> QED
      BY <1>2, <1>3, <1>7, <2>1, <2>2, <2>3, <2>4 DEF TypeOK, Own
  <1>16. EngineAgrees' /\ EngineLossKnown'
    BY <1>1, <1>2, <1>3 DEF EngineAgrees, EngineLossKnown
  <1> QED
    BY <1>10, <1>14, <1>15, <1>16 DEF CaptionInv

-----------------------------------------------------------------------------
(* The invariant. *)

\* When everything has its caption nothing is left in the engine.
LEMMA CompleteIsEmpty ==
    ASSUME CaptionInv, state = "busy", Complete
    PROVE  working = {}
  <1>1. TypeOK /\ RequestsFiled /\ NoWindowLost /\ working = IdsOf(inflight)
    BY DEF CaptionInv, EngineAgrees
  <1>2. \A r \in Waiting : r.frames \in Windows
    BY <1>1, Filed
  <1>3. Waiting = {}
    BY <1>1, <1>2 DEF NoWindowLost, Complete
  <1> QED
    BY <1>1, <1>3 DEF Waiting, IdsOf

\* A reset empties the engine, and leaves one or none.
LEMMA ResetType ==
    ASSUME TypeOK, Reset, engine = "up" => budget.faults > 0
    PROVE  working' = {} /\ engine' \in {"up", "none"} /\ budget' \in [calls : Nat, faults : Nat]
  BY DEF Reset, TypeOK

\* The invariant holds before the first batch.
LEMMA InitInv == Init => CaptionInv
  <1> SUFFICES ASSUME Init PROVE CaptionInv
    OBVIOUS
  <1>0. 1 \in 1..MaxRetries
    BY CaptionAssumption
  <1>1. TypeOK
    BY <1>0, CaptionAssumption DEF Init, TypeOK
  <1>2. EngineAgrees /\ RequestsFiled /\ NoWindowLost /\ EngineLossKnown
    BY DEF Init, EngineAgrees, IdsOf, RequestsFiled, Waiting, NoWindowLost, EngineLossKnown
  <1> QED
    BY <1>1, <1>2 DEF CaptionInv

\* Every step of the actor keeps the invariant.
LEMMA StepInv == CaptionInv /\ [Next]_vars => CaptionInv'
  <1> SUFFICES ASSUME CaptionInv, [Next]_vars PROVE CaptionInv'
    OBVIOUS
  <1>1. TypeOK /\ EngineAgrees /\ RequestsFiled /\ NoWindowLost /\ EngineLossKnown
    BY DEF CaptionInv
  <1>2. CASE Begin
    <2>1. working' = {} /\ FreshLocals /\ state' = "busy" /\ engine' = "up"
      BY <1>1, <1>2 DEF Begin, EngineAgrees
    <2>2. /\ queue' \subseteq Request /\ inflight' \subseteq Request
          /\ index' \in [Ids -> Windows \cup {NoWindow}]
          /\ results' = [w \in Windows |-> Missing]
          /\ working' = IdsOf(inflight')
          /\ RequestsFiled' /\ NoWindowLost'
      BY <2>1, FreshKeepsInv
    <2>3. attempt' = 1 /\ error' = FALSE /\ budget' \in [calls : Nat, faults : Nat]
      BY <1>1, <1>2 DEF Begin, TypeOK
    <2>4. TypeOK'
      <3>1. 1 \in 1..MaxRetries
        BY CaptionAssumption
      <3> QED
        BY <2>1, <2>2, <2>3, <3>1 DEF TypeOK
    <2> QED
      BY <2>1, <2>2, <2>4 DEF CaptionInv, EngineAgrees, EngineLossKnown
  <1>3. CASE Step
    BY <1>3, TurnKeepsInv DEF Step
  <1>4. CASE Deliver
    <2>1. working = {}
      BY <1>4, CompleteIsEmpty DEF Deliver
    <2>2. TypeOK'
      BY <1>1, <1>4 DEF Deliver, localVars, TypeOK, Own
    <2>3. EngineAgrees' /\ NoWindowLost' /\ EngineLossKnown'
      BY <1>1, <1>4, <2>1 DEF Deliver, localVars, EngineAgrees, NoWindowLost, EngineLossKnown
    <2>4. RequestsFiled'
      BY <1>1, <1>4 DEF Deliver, localVars, RequestsFiled, Waiting, First, Refined
    <2> QED
      BY <2>2, <2>3, <2>4 DEF CaptionInv
  <1>5. CASE Retry
    <2>1. working' = {} /\ FreshLocals /\ state' = "busy" /\ engine' \in {"up", "none"}
          /\ budget' \in [calls : Nat, faults : Nat] /\ error' = TRUE
      BY <1>1, <1>5, ResetType DEF Retry, Raise
    <2>2. /\ queue' \subseteq Request /\ inflight' \subseteq Request
          /\ index' \in [Ids -> Windows \cup {NoWindow}]
          /\ results' = [w \in Windows |-> Missing]
          /\ working' = IdsOf(inflight')
          /\ RequestsFiled' /\ NoWindowLost'
      BY <2>1, FreshKeepsInv
    <2>3. attempt' \in 1..MaxRetries
      BY <1>1, <1>5, CaptionAssumption DEF Retry, TypeOK
    <2>4. TypeOK'
      BY <2>1, <2>2, <2>3 DEF TypeOK
    <2> QED
      BY <2>1, <2>2, <2>4 DEF CaptionInv, EngineAgrees, EngineLossKnown
  <1>6. CASE GiveUp
    <2>1. working' = {} /\ state' = "idle" /\ engine' \in {"up", "none"}
          /\ budget' \in [calls : Nat, faults : Nat] /\ error' = TRUE
          /\ UNCHANGED <<attempt, queue, inflight, index, results>>
      BY <1>1, <1>6, ResetType DEF GiveUp, Raise
    <2>2. TypeOK'
      BY <1>1, <2>1 DEF TypeOK, Own
    <2>3. RequestsFiled'
      BY <1>1, <2>1 DEF RequestsFiled, Waiting, First, Refined
    <2> QED
      BY <2>1, <2>2, <2>3 DEF CaptionInv, EngineAgrees, EngineLossKnown, NoWindowLost
  <1>7. CASE Refuse
    <2>1. TypeOK'
      BY <1>1, <1>7 DEF Refuse, localVars, TypeOK, Own
    <2>2. RequestsFiled'
      BY <1>1, <1>7 DEF Refuse, localVars, RequestsFiled, Waiting, First, Refined
    <2> QED
      BY <1>1, <1>7, <2>1, <2>2
      DEF Refuse, localVars, CaptionInv, EngineAgrees, EngineLossKnown, NoWindowLost
  <1>8. CASE UNCHANGED vars
    <2>1. TypeOK'
      BY <1>1, <1>8 DEF vars, localVars, TypeOK, Own
    <2>2. RequestsFiled'
      BY <1>1, <1>8 DEF vars, localVars, RequestsFiled, Waiting, First, Refined
    <2>3. EngineAgrees' /\ NoWindowLost' /\ EngineLossKnown'
      BY <1>1, <1>8 DEF vars, localVars, EngineAgrees, IdsOf, NoWindowLost, Waiting, EngineLossKnown
    <2> QED
      BY <2>1, <2>2, <2>3 DEF CaptionInv
  <1> QED
    BY <1>2, <1>3, <1>4, <1>5, <1>6, <1>7, <1>8 DEF Next

\* The books of the stage and of the engine agree and no window is lost, in
\* every reachable state, for all constants.
THEOREM CaptionInvHolds == Spec => []CaptionInv
  BY InitInv, StepInv, PTL DEF Spec

\* Each window of the batch in work has its caption or exactly one request.
THEOREM NoWindowLostHolds == Spec => []NoWindowLost
  <1>1. CaptionInv => NoWindowLost
    BY DEF CaptionInv
  <1> QED
    BY <1>1, CaptionInvHolds, PTL

-----------------------------------------------------------------------------
(* The limit of requests in flight. *)

LimitInv == Inflight => IsFiniteSet(inflight) /\ WithinLimit

\* max_inflight_requests bounds what the engine works on, in both stages.
THEOREM WithinLimitHolds == Spec => []WithinLimit
  <1>1. Init => LimitInv
    BY FS_EmptySet, CaptionAssumption DEF Init, LimitInv, WithinLimit
  <1>2. ASSUME Inflight, LimitInv, [Next]_vars PROVE LimitInv'
    <2>1. CASE inflight' = {}
      BY <2>1, FS_EmptySet, CaptionAssumption DEF LimitInv, WithinLimit
    <2>2. CASE inflight' = inflight
      BY <1>2, <2>2 DEF LimitInv, WithinLimit
    <2>3. CASE Step
      <3>0. PICK admitted \in Admit :
                \E ids \in Finishes(working \cup IdsOf(admitted)) : Turn(admitted, ids)
        BY <2>3 DEF Step
      <3>1. PICK ids \in Finishes(working \cup IdsOf(admitted)) : Turn(admitted, ids)
        BY <3>0
      <3>2. inflight' \subseteq inflight \cup admitted
        BY <3>1 DEF Turn
      <3>3. CASE admitted = {}
        <4>1. inflight' \subseteq inflight
          BY <3>2, <3>3
        <4>2. /\ IsFiniteSet(inflight')
              /\ Cardinality(inflight') <= Cardinality(inflight)
              /\ Cardinality(inflight) \in Nat /\ Cardinality(inflight') \in Nat
          BY <1>2, <4>1, FS_Subset, FS_CardinalityType DEF LimitInv
        <4> QED
          BY <1>2, <4>2, CaptionAssumption DEF LimitInv, WithinLimit
      <3>4. CASE Room /\ \E r \in queue : admitted = {r}
        <4>1. PICK r \in queue : admitted = {r}
          BY <3>4
        <4>2. /\ IsFiniteSet(inflight \cup {r}) /\ Cardinality(inflight) \in Nat
              /\ Cardinality(inflight \cup {r}) <= Cardinality(inflight) + 1
          <5>1. IsFiniteSet(inflight)
            BY <1>2 DEF LimitInv
          <5>2. /\ IsFiniteSet(inflight \cup {r})
                /\ Cardinality(inflight \cup {r}) =
                       IF r \in inflight THEN Cardinality(inflight) ELSE Cardinality(inflight) + 1
            BY <5>1, FS_AddElement, Zenon
          <5>3. Cardinality(inflight) \in Nat
            BY <5>1, FS_CardinalityType
          <5> QED
            BY <5>2, <5>3
        <4>3. /\ IsFiniteSet(inflight')
              /\ Cardinality(inflight') <= Cardinality(inflight \cup {r})
              /\ Cardinality(inflight') \in Nat /\ Cardinality(inflight \cup {r}) \in Nat
          BY <3>2, <4>1, <4>2, FS_Subset, FS_CardinalityType
        <4> QED
          BY <1>2, <3>4, <4>2, <4>3, CaptionAssumption DEF LimitInv, WithinLimit, Room
      <3> QED
        BY <1>2, <3>3, <3>4 DEF Admit
    <2> QED
      BY <1>2, <2>1, <2>2, <2>3
      DEF Next, Begin, Deliver, Retry, GiveUp, Refuse, FreshLocals, vars, localVars
  <1>3. LimitInv /\ [Next]_vars => LimitInv'
    BY <1>2 DEF LimitInv
  <1>4. LimitInv => WithinLimit
    BY DEF LimitInv, WithinLimit
  <1> QED
    BY <1>1, <1>3, <1>4, PTL DEF Spec

-----------------------------------------------------------------------------
(* The promise. *)

\* Every batch ends with the captions of its own frames, at the right stage,
\* or with empty ones and an error; only then may a later one be refused.
THEOREM KeepsPromiseHolds == Spec => KeepsPromise
  <1>1. Init => Promise!Init
    BY DEF Init, Promise!Init
  <1>2. ASSUME CaptionInv, [Next]_vars
        PROVE  [Promise!Next]_(Promise!vars)
    <2>1. TypeOK /\ EngineAgrees /\ RequestsFiled /\ NoWindowLost /\ EngineLossKnown
      BY <1>2 DEF CaptionInv
    <2>2. CASE Begin
      <3>1. Promise!Begin
        BY <2>2 DEF Begin, Promise!Begin
      <3> QED
        BY <3>1 DEF Promise!Next
    <2>3. CASE Step
      <3>1. UNCHANGED <<state, caption>> /\ state = "busy"
        BY <2>3 DEF Step, Turn
      <3> QED
        BY <3>1 DEF Promise!vars
    <2>4. CASE Deliver
      <3>1. state = "busy" /\ state' = "idle" /\ error' = FALSE /\ caption' = results
        BY <2>4 DEF Deliver
      <3>2. \A w \in Windows : results[w] \in Own(w)
        BY <2>1, <2>4 DEF Deliver, Complete, TypeOK
      <3>3. results = [w \in Windows |-> results[w]]
        BY <2>1 DEF TypeOK
      <3>4. results \in [Windows -> UNION {Own(w) : w \in Windows}]
        <4>1. \A w \in Windows : results[w] \in UNION {Own(v) : v \in Windows}
          BY <3>2
        <4> QED
          BY <3>3, <4>1
      <3>5. Promise!Deliver
        BY <3>1, <3>2, <3>4 DEF Promise!Deliver
      <3> QED
        BY <3>5 DEF Promise!Next
    <2>5. CASE Retry
      <3>1. UNCHANGED <<state, caption>> /\ state = "busy"
        BY <2>5 DEF Retry, Raise
      <3> QED
        BY <3>1 DEF Promise!vars
    <2>6. CASE GiveUp
      <3>1. Promise!GiveUp
        BY <2>6 DEF GiveUp, Raise, Promise!GiveUp
      <3> QED
        BY <3>1 DEF Promise!Next
    <2>7. CASE Refuse
      <3>1. Promise!Refuse
        BY <2>1, <2>7 DEF Refuse, EngineLossKnown, Promise!Refuse
      <3> QED
        BY <3>1 DEF Promise!Next
    <2>8. CASE UNCHANGED vars
      BY <2>8 DEF vars, Promise!vars
    <2> QED
      BY <1>2, <2>2, <2>3, <2>4, <2>5, <2>6, <2>7, <2>8 DEF Next
  <1> QED
    BY <1>1, <1>2, CaptionInvHolds, PTL DEF Spec, KeepsPromise, Promise!Spec

-----------------------------------------------------------------------------
(* Multi-view preparation: for any scenes, cameras, chunks and windows, and   *)
(* any order of arrival.                                                      *)

\* The task of a call is new, and what the buffer may hold then has arrived.
LEMMA StoredArrives ==
    ASSUME PrepTypeOK, NEW t \in Task, ProcessData(t)
    PROVE  /\ t \in coming /\ Arrived' = Arrived \cup {t}
           /\ t \notin buffer /\ t \notin returned
           /\ Stored(t) \subseteq Arrived'
  BY DEF ProcessData, PrepTypeOK, Arrived, Stored

\* Buffered and returned tasks have arrived, in any run.
THEOREM PrepTypeCorrect == PrepSpec => []PrepTypeOK
<1>1. PrepInit => PrepTypeOK
  BY DEF PrepInit, PrepTypeOK, Arrived
<1>2. PrepTypeOK /\ [PrepNext]_prepVars => PrepTypeOK'
  <2> SUFFICES ASSUME PrepTypeOK, [PrepNext]_prepVars
               PROVE  PrepTypeOK'
    OBVIOUS
  <2>1. CASE UNCHANGED prepVars
    BY <2>1 DEF prepVars, PrepTypeOK, Arrived
  <2>2. ASSUME NEW t \in Task, ProcessData(t)
        PROVE  PrepTypeOK'
    <3>1. /\ Arrived' = Arrived \cup {t} /\ Stored(t) \subseteq Arrived'
          /\ coming' \subseteq Task /\ moments' \in Contents
      BY <2>2, StoredArrives DEF ProcessData, PrepTypeOK
    <3>2. CASE Wait(t)
      BY <3>1, <3>2 DEF Wait, PrepTypeOK
    <3>3. CASE Release(t)
      BY <3>1, <3>3 DEF Release, PrepTypeOK, Group, Triplet
    <3>4. CASE Break(t)
      BY <3>1, <3>4 DEF Break, PrepTypeOK
    <3> QED
      BY <2>2, <3>2, <3>3, <3>4 DEF ProcessData
  <2> QED
    BY <2>1, <2>2 DEF PrepNext
<1> QED
  BY <1>1, <1>2, PTL DEF PrepSpec

-----------------------------------------------------------------------------
(* Plain scenes. *)

\* A task that is buffered under its own scene and camera displaces no task of a
\* plain scene.
LEMMA PlainIsStored ==
    ASSUME NEW t \in Task, NEW u \in buffer \cup {t}, u \in Task, Plain(u.scene)
    PROVE  u \in Stored(t)
  BY DEF Plain, Stored

\* A complete group of a plain scene is the whole scene, and leaves as a whole.
LEMMA PlainIsWhole ==
    ASSUME NEW scene, NEW held \in SUBSET Task, Plain(scene),
           IsComplete(Group(held, scene))
    PROVE  \A u \in Task : u.scene = scene => u \in Triplet(Group(held, scene))
<1> SUFFICES ASSUME NEW u \in Task, u.scene = scene
             PROVE  u \in Triplet(Group(held, scene))
  OBVIOUS
<1>1. u.cam \in Required
  BY DEF Plain
<1>2. PICK v \in Group(held, scene) : v.cam = u.cam
  BY <1>1 DEF IsComplete
<1>3. v = u
  BY <1>2 DEF Plain, Group
<1> QED
  BY <1>1, <1>2, <1>3 DEF Triplet

\* Of a scene that is its three front videos no task is lost.
THEOREM PlainScenesSurviveHolds == PrepSpec => []PlainScenesSurvive
<1>1. PrepInit => PlainScenesSurvive
  BY DEF PrepInit, PlainScenesSurvive, Arrived
<1>2. PrepTypeOK /\ PlainScenesSurvive /\ [PrepNext]_prepVars => PlainScenesSurvive'
  <2> SUFFICES ASSUME PrepTypeOK, PlainScenesSurvive, [PrepNext]_prepVars
               PROVE  PlainScenesSurvive'
    OBVIOUS
  <2>1. CASE UNCHANGED prepVars
    BY <2>1 DEF prepVars, PlainScenesSurvive, Arrived
  <2>2. ASSUME NEW t \in Task, ProcessData(t)
        PROVE  PlainScenesSurvive'
    <3>1. /\ Arrived' = Arrived \cup {t} /\ Stored(t) \subseteq Task
          /\ t \notin returned
      BY <2>2, StoredArrives DEF Arrived
    <3> SUFFICES ASSUME NEW u \in Arrived', Plain(u.scene)
                 PROVE  /\ u \in buffer' \cup returned'
                        /\ u \in returned' => \A w \in Task : w.scene = u.scene => w \in returned'
      BY DEF PlainScenesSurvive
    <3>2. /\ u \in Task
          /\ u \in Stored(t) \cup returned
          /\ u \in returned => \A w \in Task : w.scene = u.scene => w \in returned
      BY <3>1, PlainIsStored DEF PlainScenesSurvive, Arrived
    <3>3. CASE buffer' = Stored(t) /\ returned' = returned
      BY <3>2, <3>3
    <3>4. CASE Release(t) /\ u.scene = t.scene
      BY <3>1, <3>2, <3>4, PlainIsWhole DEF Release
    <3>5. CASE Release(t) /\ u.scene # t.scene
      BY <3>2, <3>5 DEF Release, Group, Triplet
    <3> QED
      BY <2>2, <3>3, <3>4, <3>5 DEF ProcessData, Wait, Break
  <2> QED
    BY <2>1, <2>2 DEF PrepNext
<1> QED
  BY <1>1, <1>2, PrepTypeCorrect, PTL DEF PrepSpec

-----------------------------------------------------------------------------
(* Inputs show one moment on all cameras. *)

\* FiniteContents are counted from 1, and each has its number.
LEMMA NthExists ==
    ASSUME NEW t \in Task, moments[t] \in SUBSET Nat, IsFiniteSet(moments[t]),
           NEW m \in moments[t]
    PROVE  \E n \in 1..Count(t) : Nth(t, n) = m
<1> DEFINE Below(k) == {j \in moments[t] : j < k}
           n == Cardinality(Below(m)) + 1
<1>1. \A k \in moments[t] : IsFiniteSet(Below(k)) /\ Cardinality(Below(k)) \in Nat
  <2> TAKE k \in moments[t]
  <2>1. IsFiniteSet(Below(k))
    BY FS_Subset, Below(k) \in SUBSET moments[t]
  <2> QED
    BY <2>1, FS_CardinalityType
<1>2. \A j, k \in moments[t] : j < k => Cardinality(Below(j)) < Cardinality(Below(k))
  <2> SUFFICES ASSUME NEW j \in moments[t], NEW k \in moments[t], j < k
               PROVE  Cardinality(Below(j)) < Cardinality(Below(k))
    OBVIOUS
  <2>1. Below(j) \in SUBSET Below(k) /\ Below(j) # Below(k)
    <3>1. j \in Below(k) /\ j \notin Below(j)
      OBVIOUS
    <3>2. \A i \in Below(j) : i \in Below(k)
      OBVIOUS
    <3> QED
      BY <3>1, <3>2
  <2>2. /\ Cardinality(Below(j)) <= Cardinality(Below(k))
        /\ Cardinality(Below(k)) = Cardinality(Below(j)) => Below(k) = Below(j)
    BY <1>1, <2>1, FS_Subset
  <2> HIDE DEF Below
  <2> QED
    BY <1>1, <2>1, <2>2
<1>3. n \in 1..Count(t)
  <2>1. Below(m) \in SUBSET moments[t] /\ Below(m) # moments[t]
    <3>1. m \notin Below(m)
      OBVIOUS
    <3> QED
      BY <3>1
  <2>2. /\ Cardinality(Below(m)) <= Count(t)
        /\ Count(t) = Cardinality(Below(m)) => moments[t] = Below(m)
    BY <2>1, FS_Subset DEF Count
  <2>3. Count(t) \in Nat
    BY FS_CardinalityType DEF Count
  <2> HIDE DEF Below
  <2> QED
    BY <1>1, <2>1, <2>2, <2>3
<1>4. Nth(t, n) = m
  <2>1. n - 1 = Cardinality(Below(m))
    <3> HIDE DEF Below
    <3> QED BY <1>1
  <2>2. \A k \in moments[t] : Cardinality(Below(k)) = n - 1 => k = m
    <3> HIDE DEF Below
    <3> QED BY <1>1, <1>2, <2>1
  <2>3. Nth(t, n) = CHOOSE k \in moments[t] : Cardinality(Below(k)) = n - 1
    BY DEF Nth
  <2> HIDE DEF Below, n
  <2> QED
    BY <2>1, <2>2, <2>3
<1> HIDE DEF n
<1> QED
  BY <1>3, <1>4

\* The contents of a task are a finite set of windows.
LEMMA FiniteContents ==
    ASSUME PrepTypeOK, NEW t \in Task
    PROVE  moments[t] \in SUBSET Nat /\ IsFiniteSet(moments[t])
<1>1. moments[t] \in SUBSET Moment
  BY MultiviewAssumption DEF PrepTypeOK
<1> QED
  BY <1>1, MultiviewAssumption, FS_Subset

\* A camera of a complete group is a task of that scene.
LEMMA OfGroup ==
    ASSUME NEW scene, NEW held \in SUBSET Task, NEW cam \in Required,
           IsComplete(Group(held, scene))
    PROVE  /\ Of(Group(held, scene), cam) \in Group(held, scene)
           /\ Of(Group(held, scene), cam).cam = cam
           /\ Of(Group(held, scene), cam).scene = scene
           /\ Of(Group(held, scene), cam) \in Task
<1>1. \E u \in Group(held, scene) : u.cam = cam
  BY DEF IsComplete
<1>2. /\ Of(Group(held, scene), cam) \in Group(held, scene)
      /\ Of(Group(held, scene), cam).cam = cam
  BY <1>1 DEF Of
<1>3. \A u \in Group(held, scene) : u.scene = scene /\ u \in Task
  BY DEF Group
<1> QED
  BY <1>2, <1>3

\* The inputs of a group that lost no clip: one for each window of CAM_FRONT, with
\* that window on all cameras.
LEMMA IntactInputs ==
    ASSUME PrepTypeOK, NEW scene, NEW held \in SUBSET Task,
           IsComplete(Group(held, scene)), OneChunk(scene), Intact(scene),
           NEW f, f = Of(Group(held, scene), Front), NEW m \in moments[f]
    PROVE  {i \in Inputs(Group(held, scene)) : i.task = f /\ i.at = m}
             = {[task |-> f, at |-> m, views |-> [cam \in Sides |-> [chunk |-> f.chunk, at |-> m]]]}
<1> DEFINE g == Group(held, scene)
           Made(n) == [task |-> f, at |-> Nth(f, n),
                       views |-> [cam \in Sides |-> [chunk |-> f.chunk, at |-> Nth(f, n)]]]
<1>0. \A cam \in Required : Of(g, cam) \in Task /\ Of(g, cam).scene = scene /\ Of(g, cam).cam = cam
  BY OfGroup
<1>1. f \in Task /\ f.scene = scene /\ f.cam = Front
  BY <1>0 DEF Required
<1>2. \A cam \in Sides : moments[Of(g, cam)] = moments[f] /\ Of(g, cam).chunk = f.chunk
  BY <1>0, <1>1 DEF Required, Intact, OneChunk
<1>3. \A n : \A cam \in Sides : View(Of(g, cam), n) = [chunk |-> f.chunk, at |-> Nth(f, n)]
  BY <1>2 DEF View, Nth
<1>4. Inputs(g) = {Made(n) : n \in 1..Count(f)}
  <2>1. Inputs(g) = {[task |-> f, at |-> Nth(f, n),
                      views |-> [cam \in Sides |-> View(Of(g, cam), n)]] : n \in 1..Count(f)}
    BY DEF Inputs
  <2> HIDE DEF g
  <2> QED
    BY <1>3, <2>1
<1>5. \E n \in 1..Count(f) : Nth(f, n) = m
  BY <1>1, FiniteContents, NthExists
<1> HIDE DEF g
<1> QED
  <2>1. Inputs(g) = {Made(n) : n \in 1..Count(f)}
    BY <1>4
  <2> QED
    BY <1>5, <2>1 DEF g

\* A camera of a scene is buffered once, and a task that has left does not return.
LEMMA StoredOnce ==
    ASSUME ViewsInv, NEW t \in Task, ProcessData(t)
    PROVE  /\ \A u, v \in Stored(t) : u.scene = v.scene /\ u.cam = v.cam => u = v
           /\ Stored(t) \cap returned = {}
           /\ Stored(t) \subseteq Task
  BY StoredArrives DEF ViewsInv, OneTaskPerCamera, LeftForGood, Stored, Arrived

\* The inputs of a released scene, and only those, are new.
LEMMA ReleaseKeepsViews ==
    ASSUME ViewsInv, NEW t \in Task, ProcessData(t), Release(t)
    PROVE  LeftForGood' /\ ViewsAligned'
<1> DEFINE g == Group(Stored(t), t.scene)
           f == Of(g, Front)
<1>1. /\ IsComplete(g) /\ buffer' = Stored(t) \ g
      /\ returned' = returned \cup Triplet(g)
      /\ input' = input \cup Inputs(g)
      /\ moments' = moments
  BY DEF Release, ProcessData
<1>2. /\ f \in g /\ f.cam = Front
      /\ f \in Triplet(g) /\ f \notin returned
  <2>1. f \in g /\ f.cam = Front
    BY <1>1, OfGroup, StoredOnce DEF Required
  <2> QED
    BY <2>1, StoredOnce DEF Required, Triplet, Group
<1>3. \A i \in Inputs(g) : i.task = f
  BY DEF Inputs
<1>4. LeftForGood'
  BY <1>1, <1>2, <1>3, StoredOnce DEF ViewsInv, LeftForGood, Triplet
<1>5. ASSUME NEW u \in returned', u.cam = Front, OneChunk(u.scene), Intact(u.scene), NEW m \in moments[u]
      PROVE  {i \in input' : i.task = u /\ i.at = m}
               = {[task |-> u, at |-> m, views |-> [cam \in Sides |-> [chunk |-> u.chunk, at |-> m]]]}
  <2>1. CASE u \in returned
    <3>1. {i \in input' : i.task = u /\ i.at = m} = {i \in input : i.task = u /\ i.at = m}
      BY <1>1, <1>2, <1>3, <2>1
    <3> QED
      BY <1>5, <2>1, <3>1 DEF ViewsInv, ViewsAligned
  <2>2. CASE u \notin returned
    <3>1. u = f
      BY <1>1, <1>2, <1>5, <2>2, StoredOnce DEF Triplet, Group
    <3>2. {i \in input' : i.task = u /\ i.at = m} = {i \in Inputs(g) : i.task = u /\ i.at = m}
      BY <1>1, <2>2 DEF ViewsInv, LeftForGood
    <3>3. OneChunk(t.scene) /\ Intact(t.scene) /\ m \in moments[f]
      BY <1>2, <1>5, <3>1 DEF Group
    <3> QED
      BY <1>1, <3>1, <3>2, <3>3, StoredOnce, IntactInputs DEF ViewsInv
  <2> QED
    BY <2>1, <2>2
<1>6. ViewsAligned'
  BY <1>1, <1>5 DEF ViewsAligned, Intact
<1> QED
  BY <1>4, <1>6

\* Buffer, returned tasks and inputs stay in step.
THEOREM ViewsInvHolds == PrepSpec => []ViewsInv
<1>1. PrepInit => ViewsInv
  BY DEF PrepInit, ViewsInv, PrepTypeOK, OneTaskPerCamera, LeftForGood, ViewsAligned, Arrived
<1>2. ViewsInv /\ PrepTypeOK' /\ [PrepNext]_prepVars => ViewsInv'
  <2> SUFFICES ASSUME ViewsInv, PrepTypeOK', [PrepNext]_prepVars
               PROVE  OneTaskPerCamera' /\ LeftForGood' /\ ViewsAligned'
    BY DEF ViewsInv
  <2>1. CASE UNCHANGED prepVars
    BY <2>1 DEF prepVars, ViewsInv, OneTaskPerCamera, LeftForGood, ViewsAligned, Intact
  <2>2. ASSUME NEW t \in Task, ProcessData(t)
        PROVE  OneTaskPerCamera' /\ LeftForGood' /\ ViewsAligned'
    <3>1. CASE Release(t)
      <4>1. OneTaskPerCamera'
        BY <2>2, <3>1, StoredOnce DEF Release, OneTaskPerCamera
      <4> QED
        BY <2>2, <3>1, <4>1, ReleaseKeepsViews
    <3>2. CASE Wait(t) \/ Break(t)
      <4>1. /\ buffer' = Stored(t) /\ returned' = returned /\ input' = input
            /\ moments' = moments
        BY <2>2, <3>2 DEF ProcessData, Wait, Break
      <4>2. OneTaskPerCamera' /\ LeftForGood'
        BY <2>2, <4>1, StoredOnce DEF OneTaskPerCamera, LeftForGood, ViewsInv
      <4>3. ViewsAligned'
        BY <4>1 DEF ViewsInv, ViewsAligned, Intact
      <4> QED
        BY <4>2, <4>3
    <3> QED
      BY <2>2, <3>1, <3>2 DEF ProcessData
  <2> QED
    BY <2>1, <2>2 DEF PrepNext
<1> QED
  BY <1>1, <1>2, PrepTypeCorrect, PTL DEF PrepSpec

\* In a scene of one chunk per camera whose videos lost the same clips, every window of
\* CAM_FRONT has one input, which shows that window of that chunk on all three cameras.
THEOREM ViewsAlignedHolds == PrepSpec => []ViewsAligned
  BY ViewsInvHolds, PTL DEF ViewsInv
=============================================================================
