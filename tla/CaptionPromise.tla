---------------------------- MODULE CaptionPromise ----------------------------
(***************************************************************************)
(* What VllmCaptionStage promises for each batch of windows: all of them   *)
(* get the caption of their own frames, or all get an empty caption and    *)
(* the videos carry an error.  An actor turns a batch away only after it   *)
(* gave up an earlier one.                                                 *)
(***************************************************************************)
CONSTANTS Windows, Own(_), Empty, Missing

VARIABLES
    state,    \* "idle", "busy" with a batch, "refused" one
    caption,  \* of each window of the batch
    error     \* errors["captioning"] of its videos

vars == <<state, caption, error>>

Init ==
    /\ state = "idle"
    /\ caption = [w \in Windows |-> Missing]
    /\ error = FALSE

Begin ==
    /\ state = "idle"
    /\ state' = "busy"
    /\ caption' = [w \in Windows |-> Missing]
    /\ error' = FALSE

Deliver ==
    /\ state = "busy"
    /\ state' = "idle"
    /\ \E c \in [Windows -> UNION {Own(w) : w \in Windows}] :
          (\A w \in Windows : c[w] \in Own(w)) /\ caption' = c
    /\ UNCHANGED error

GiveUp ==
    /\ state = "busy"
    /\ state' = "idle"
    /\ caption' = [w \in Windows |-> Empty]
    /\ error' = TRUE

Refuse ==
    /\ state = "idle" /\ error
    /\ state' = "refused"
    /\ UNCHANGED <<caption, error>>

Next == Begin \/ Deliver \/ GiveUp \/ Refuse

Spec == Init /\ [][Next]_vars
=============================================================================
