---------------------------- MODULE AtomicDataset ----------------------------
(***************************************************************************)
(* What the recorder promises of a dataset that several recorder and       *)
(* recovery processes write: at most one run has it open, only that run's  *)
(* episode changes, an episode grows from nothing over a part to the       *)
(* whole and never back, and the dataset is never closed on a part.        *)
(***************************************************************************)
CONSTANTS Runs, Nobody

VARIABLES
    open,     \* the run whose commit guard stands, or Nobody
    content   \* per run: how much of its episode the dataset holds

Init == open = Nobody /\ content = [r \in Runs |-> "none"]

Begin(r) ==
    /\ open = Nobody /\ content[r] # "partial"
    /\ open' = r /\ UNCHANGED content

Write(r) ==
    /\ open = r /\ content[r] = "none"
    /\ content' = [content EXCEPT ![r] = "partial"] /\ UNCHANGED open

Complete(r) ==
    /\ open = r /\ content[r] = "partial"
    /\ content' = [content EXCEPT ![r] = "complete"] /\ UNCHANGED open

Close(r) ==
    /\ open = r /\ \A q \in Runs : content[q] # "partial"
    /\ open' = Nobody /\ UNCHANGED content

Next == \E r \in Runs : Begin(r) \/ Write(r) \/ Complete(r) \/ Close(r)

Spec == Init /\ [][Next]_<<open, content>>
=============================================================================
