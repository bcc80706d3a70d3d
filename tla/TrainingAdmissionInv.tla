------------------------ MODULE TrainingAdmissionInv ------------------------
(***************************************************************************)
(* The inductive invariant of TrainingAdmission.  Four parts: the dataset  *)
(* only moves past what was reviewed; a batch on its way to an inventory   *)
(* is what it was agreed to be; the documents of a live launch are its     *)
(* own; what is found for an output is what its trainer was launched with. *)
(* TLC checks it on the instance of the runs, TrainingAdmissionProofs      *)
(* proves it.                                                              *)
(***************************************************************************)
EXTENDS TrainingAdmission

-----------------------------------------------------------------------------
(* Shared state *)

\* The dataset has come as far as a revision said, or further.
Reached(revision) ==
    \A r \in Runs :
        /\ revision.content[r] = "complete" => content[r] = "complete"
        /\ revision.content[r] = "partial" => content[r] # "none"

\* Once the guard of a revision is gone it never comes back.
DatasetInv ==
    /\ open # Nobody => open \in begun
    /\ inventory # None => Reached(inventory.bytes)
    /\ strayed => inventory # None /\ content # inventory.bytes.content

OutputInv ==
    /\ output = "none" => \A k \in Names : settled[k] = None
    /\ output # "none" => made # None /\ \A k \in Names : Found(k) = made

-----------------------------------------------------------------------------
(* One process *)

Drafted   == {"ask", "lock", "recheck", "write", "again", "publish"}
Rechecked == {"write", "again", "publish"}
Admitted  == {"vacant", "admit2", "reserve", "native", "start", "training", "settle", "unwind",
              "accepted"}
Reserved  == {"native", "start", "training"}
Leaving   == {"settle", "unwind"}

\* A batch that was made, until its inventory is published.
DraftInv(p) ==
    /\ proc[p].at \in {"begin", "prepare"} => proc[p].asked \in Requests
    /\ proc[p].at \in Drafted =>
        /\ Batch(p) # None /\ proc[p].asked \in Requests
        /\ Batch(p).episodes = proc[p].asked
        /\ \A r \in proc[p].asked : Batch(p).bytes.content[r] = "complete"
        /\ Batch(p).bytes.open # Nobody => Batch(p).bytes.open \in begun
        /\ Reached(Batch(p).bytes)
        /\ proc[p].at # "ask" => proc[p].agreed = Batch(p)
    /\ proc[p].at = "recheck" /\ proc[p].looked /\ Batch(p).bytes.open # Nobody
         => open # Batch(p).bytes.open
    /\ proc[p].at \in Rechecked => Batch(p).bytes.open = Nobody
    /\ proc[p].at \in {"again", "publish"} =>
         \A f \in FilesOf(proc[p].asked) : files[f] = Batch(p)

\* A launch and a resumption go by the inventory.
LaunchInv(p) ==
    /\ proc[p].command \in {"run", "launch"} => proc[p].recipe \in Recipes
    /\ proc[p].at \in {"begin", "outputs", "compare", "admit1", "recover"} \cup (Admitted \ {"accepted"})
         /\ ~proc[p].resumed => proc[p].command \in {"run", "launch"}
    /\ proc[p].at \in Admitted => inventory # None /\ Batch(p) = inventory
    /\ proc[p].resumed => proc[p].at \in Reserved
    /\ proc[p].resumed \/ proc[p].at = "accepted" => output # "none"

\* What a launch has written stands beside the output until it moves there.
WrittenInv(p) ==
    /\ proc[p].at \in Reserved /\ ~proc[p].resumed => proc[p].written = Names
    /\ proc[p].at = "reserve" => "receipt" \notin proc[p].written
    /\ proc[p].written # {} =>
         proc[p].at \in {"reserve"} \cup Reserved \cup Leaving /\ ~proc[p].resumed
    /\ \A k \in proc[p].written : pending[k] = Mine(p)

\* No two launches write the same document.
Apart == \A p, q \in Processes : p # q => proc[p].written \cap proc[q].written = {}

Inv ==
    /\ TypeOK /\ DatasetInv /\ InventoryIsReviewed /\ OutputInv
    /\ \A p \in Processes : DraftInv(p) /\ LaunchInv(p) /\ WrittenInv(p)
    /\ Apart
=============================================================================
