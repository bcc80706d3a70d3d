---------------------------- MODULE CuratorProofs ----------------------------
(***************************************************************************)
(* Inv (CuratorInv) is inductive, and what follows from it: every run that *)
(* has a request loads (RunsLoad), a receipt is true (ReceiptIsTrue), a    *)
(* recorded decision governs the candidate (DecisionHolds) and only what   *)
(* was approved is published (PublishedIsApproved), for any number of      *)
(* runs, of processes and of mishaps.                                      *)
(*                                                                         *)
(* The chain of events is dealt with first, as a sequence: which event can *)
(* stand where, what an append adds and what a prefix keeps.  An action of *)
(* a process then changes its own run only (MineOnly), which keeps what    *)
(* holds of all others; what it does to its own run is one lemma each.     *)
(***************************************************************************)
EXTENDS CuratorInv, TLAPS

-----------------------------------------------------------------------------
(* The chain of events. *)

LEMMA UpToSix ==
  ASSUME NEW n \in Nat, n <= 6
  PROVE  n \in 0..6 /\ (n # 0 => n \in 1..6)
  OBVIOUS

LEMMA Small ==
  ASSUME NEW n \in 0..6
  PROVE  n \in {0, 1, 2, 3, 4, 5, 6}
  OBVIOUS

LEMMA NearFour ==
  ASSUME NEW n \in Nat
  PROVE  /\ n >= 4 \/ ~(n >= 3) \/ n = 3
         /\ n \in {0, 1, 2, 3, 4, 5, 6} /\ n >= 4 => n \in {4, 5, 6}
         /\ n \in {1, 2, 3, 4} => n <= 5 /\ n # 0
         /\ n = 4 => n <= 5 /\ n # 0 /\ n + 1 = 5 /\ n >= 4
         /\ n = 5 => n <= 5 /\ n # 0 /\ n + 1 = 6 /\ n >= 4
  OBVIOUS

LEMMA FiveOrSix ==
  ASSUME NEW n \in 1..6, NEW i \in 5..6, i <= n
  PROVE  i = n \/ (i = 5 /\ n = 6)
  OBVIOUS

LEMMA EventFacts ==
  ASSUME NEW e \in Events
  PROVE  /\ e.name \in EventNames /\ e.after \in EventNames \cup {"-"}
         /\ e.name = "decision" => e.says \in {"APPROVE", "REJECT"}
  BY DEF Events, Event, EventNames

\* Which event can stand at which place.
LEMMA EventPlaces ==
  ASSUME NEW s \in Seq(Events), Chain(s), NEW i \in 1..Len(s)
  PROVE  /\ Len(s) \in 1..6 /\ s[i].name \in EventNames
         /\ s[i].name = "request" <=> i = 1
         /\ s[i].name = "candidate_ready" => i = 2 /\ s[1].name = "request"
         /\ s[i].name = "review_ready" => i = 3 /\ s[2].name = "candidate_ready"
         /\ s[i].name = "decision" => i = 4 /\ s[3].name = "review_ready"
         /\ s[i].name = "failure" => i \in 2..5 /\ s[i - 1].name = ORDER[i - 1]
         /\ s[i].name = "receipt" => i \in 5..6 /\ s[4].name = "decision"
                                       /\ (i = 6 => s[5].name = "failure")
<1>0. Len(s) \in Nat /\ s[i] \in Events
  OBVIOUS
<1>a. Len(s) <= 6
  BY DEF Chain
<1>b. Len(s) # 0
  BY <1>0
<1>1. Len(s) \in 1..6 /\ s[i].name \in EventNames
  BY <1>0, <1>a, <1>b, EventFacts, UpToSix
<1>2. s[1].name = "request"
  BY <1>1 DEF Chain
<1>3. CASE i = 1
  BY <1>1, <1>2, <1>3
<1>4. CASE i \in 2..6
  <2>1. Follows(s, i)
    BY <1>1, <1>4 DEF Chain
  <2>. QED
    BY <2>1, <1>1, <1>2, <1>4 DEF Follows, ORDER, EventNames
<1>. QED
  BY <1>1, <1>3, <1>4

\* How far the events have come.
LEMMA Reaches ==
  ASSUME NEW s \in Seq(Events), Chain(s)
  PROVE  /\ Len(s) \in 0..6
         /\ Reached(s, 4) => Reached(s, 3)
         /\ Reached(s, 3) => Reached(s, 2)
         /\ Reached(s, 2) => Len(s) >= 2
         /\ Reached(s, 3) => Len(s) >= 3
         /\ Reached(s, 4) => Len(s) >= 4
         /\ Receipted(s) => Reached(s, 4) /\ Len(s) >= 5
         /\ Reached(s, 4) <=> Chosen(s, "APPROVE") \/ Chosen(s, "REJECT")
         /\ ~(Chosen(s, "APPROVE") /\ Chosen(s, "REJECT"))
<1>0. Len(s) \in Nat
  OBVIOUS
<1>a. Len(s) <= 6
  BY DEF Chain
<1>1. Len(s) \in 0..6
  BY <1>0, <1>a, UpToSix
<1>2. Reached(s, 4) => Reached(s, 3)
  BY <1>1, EventPlaces DEF Reached, ORDER
<1>3. Reached(s, 3) => Reached(s, 2)
  BY <1>1, EventPlaces DEF Reached, ORDER
<1>4. Receipted(s) => Reached(s, 4) /\ Len(s) >= 5
  BY <1>1, EventPlaces DEF Reached, Receipted, ORDER
<1>5. Reached(s, 4) => s[4].says \in {"APPROVE", "REJECT"}
  <2>. SUFFICES ASSUME Reached(s, 4) PROVE s[4].says \in {"APPROVE", "REJECT"}
    OBVIOUS
  <2>1. s[4] \in Events /\ s[4].name = "decision"
    BY <1>1 DEF Reached, ORDER
  <2>. QED
    BY <2>1, EventFacts
<1>. QED
  BY <1>1, <1>2, <1>3, <1>4, <1>5 DEF Reached, Chosen

\* Without a failure the events are those of ORDER, and a failure is the last
\* event but for a receipt.
LEMMA FailedLast ==
  ASSUME NEW s \in Seq(Events), Chain(s)
  PROVE  /\ ~Failed(s) => \A n \in 2..4 : Len(s) >= n => Reached(s, n)
         /\ \A i \in 1..Len(s) : s[i].name = "failure" =>
               /\ i \in 2..5
               /\ i = Len(s) \/ (i = 5 /\ Len(s) = 6 /\ Receipted(s))
               /\ Reached(s, 4) <=> i = 5
               /\ Reached(s, 3) <=> i >= 4
<1>0. Len(s) \in Nat
  OBVIOUS
<1>a. Len(s) <= 6
  BY DEF Chain
<1>1. Len(s) \in 0..6
  BY <1>0, <1>a, UpToSix
<1>2. \A i \in 2..Len(s) : Follows(s, i)
  BY DEF Chain
<1>3. ASSUME ~Failed(s) PROVE \A n \in 2..4 : Len(s) >= n => Reached(s, n)
  <2>1. \A n \in 2..4 : Len(s) >= n => s[n].name # "failure" /\ n \in 2..Len(s)
    BY <1>1, <1>3 DEF Failed
  <2>2. \A n \in 2..4 : Len(s) >= n => s[n].name = ORDER[n]
    BY <2>1, <1>2 DEF Follows
  <2>. QED
    BY <2>2 DEF Reached
<1>4. ASSUME NEW i \in 1..Len(s), s[i].name = "failure"
      PROVE  /\ i \in 2..5
             /\ i = Len(s) \/ (i = 5 /\ Len(s) = 6 /\ Receipted(s))
             /\ Reached(s, 4) <=> i = 5
             /\ Reached(s, 3) <=> i >= 4
  <2>1. i \in 2..5 /\ s[i - 1].name = ORDER[i - 1]
    BY <1>4, EventPlaces
  <2>2. i = Len(s) \/ (i = 5 /\ Len(s) = 6 /\ s[6].name = "receipt")
    <3>. SUFFICES ASSUME i + 1 <= Len(s) PROVE i = 5 /\ Len(s) = 6 /\ s[6].name = "receipt"
      BY <1>1, <2>1
    <3>1. Follows(s, i + 1)
      BY <1>1, <1>2, <2>1
    <3>. QED
      BY <3>1, <1>1, <1>4, <2>1, EventPlaces DEF Follows, ORDER
  <2>3. CASE i = 2
    <3>1. Len(s) = 2
      BY <2>2, <2>3
    <3>. QED
      BY <3>1, <2>1, <2>2, <2>3 DEF Reached
  <2>4. CASE i = 3
    <3>1. Len(s) = 3 /\ s[3].name # "review_ready"
      BY <2>2, <2>4, <1>4
    <3>. QED
      BY <3>1, <2>1, <2>2, <2>4 DEF Reached, ORDER
  <2>5. CASE i = 4
    BY <2>1, <2>2, <2>5, <1>1, <1>4 DEF Reached, Receipted, ORDER
  <2>6. CASE i = 5
    <3>1. Reached(s, 4)
      BY <2>1, <2>6, <1>1 DEF Reached, ORDER
    <3>. QED
      BY <3>1, Reaches, <2>1, <2>2, <2>6, <1>1 DEF Receipted
  <2>. QED
    BY <2>1, <2>3, <2>4, <2>5, <2>6
<1>. QED
  BY <1>3, <1>4

-----------------------------------------------------------------------------
(* What is asked of a run's events, in terms of the chain. *)

LEMMA HasAt ==
  ASSUME NEW r \in Runs, log[r] \in Seq(Events), NEW name
  PROVE  Has(r, name) <=> \E i \in 1..Len(log[r]) : log[r][i].name = name
<1>1. DOMAIN log[r] = 1..Len(log[r])
  OBVIOUS
<1>. QED
  BY <1>1, Zenon DEF Has

LEMMA NamesFacts ==
  ASSUME NEW s \in Seq(Events), Chain(s)
  PROVE  /\ (\E i \in 1..Len(s) : s[i].name = "request") <=> Len(s) # 0
         /\ (\E i \in 1..Len(s) : s[i].name = "candidate_ready") <=> Reached(s, 2)
         /\ (\E i \in 1..Len(s) : s[i].name = "review_ready") <=> Reached(s, 3)
         /\ (\E i \in 1..Len(s) : s[i].name = "decision") <=> Reached(s, 4)
         /\ (\E i \in 1..Len(s) : s[i].name = "failure") <=> Failed(s)
         /\ (\E i \in 1..Len(s) : s[i].name = "receipt") <=> Receipted(s)
<1>0. Len(s) \in Nat
  OBVIOUS
<1>2. \A i \in 1..Len(s) :
         /\ s[i].name = "request" <=> i = 1
         /\ s[i].name = "candidate_ready" => i = 2
         /\ s[i].name = "review_ready" => i = 3
         /\ s[i].name = "decision" => i = 4
         /\ s[i].name = "failure" => i \in 2..5
         /\ s[i].name = "receipt" => i \in 5..6
  BY EventPlaces
<1>3. (\E i \in 1..Len(s) : s[i].name = "request") <=> Len(s) # 0
  BY <1>0, <1>2
<1>4. (\E i \in 1..Len(s) : s[i].name = "candidate_ready") <=> Reached(s, 2)
  BY <1>0, <1>2 DEF Reached, ORDER
<1>5. (\E i \in 1..Len(s) : s[i].name = "review_ready") <=> Reached(s, 3)
  BY <1>0, <1>2 DEF Reached, ORDER
<1>6. (\E i \in 1..Len(s) : s[i].name = "decision") <=> Reached(s, 4)
  BY <1>0, <1>2 DEF Reached, ORDER
<1>7. (\E i \in 1..Len(s) : s[i].name = "failure") <=> Failed(s)
  BY <1>0, <1>2 DEF Failed
<1>8. (\E i \in 1..Len(s) : s[i].name = "receipt") <=> Receipted(s)
  <2>1. ASSUME NEW i \in 1..Len(s), s[i].name = "receipt" PROVE i = Len(s) /\ i >= 5
    <3>0. i \in 5..6 /\ Len(s) \in 1..6 /\ i <= Len(s)
      BY <1>2, <2>1, EventPlaces
    <3>1. CASE i # Len(s)
      <4>1. Len(s) = 6 /\ i = 5
        BY <3>0, <3>1, FiveOrSix
      <4>2. Follows(s, 6)
        BY <4>1 DEF Chain
      <4>. QED
        BY <4>1, <4>2, <2>1 DEF Follows, ORDER
    <3>. QED
      BY <3>0, <3>1
  <2>. QED
    BY <1>0, <2>1 DEF Receipted
<1>. QED
  BY <1>3, <1>4, <1>5, <1>6, <1>7, <1>8

LEMMA HasFacts ==
  ASSUME NEW r \in Runs, log[r] \in Seq(Events), Chain(log[r])
  PROVE  /\ Has(r, "request") <=> Len(log[r]) # 0
         /\ Has(r, "candidate_ready") <=> Reached(log[r], 2)
         /\ Has(r, "review_ready") <=> Reached(log[r], 3)
         /\ Has(r, "decision") <=> Reached(log[r], 4)
         /\ Has(r, "failure") <=> Failed(log[r])
         /\ Has(r, "receipt") <=> Receipted(log[r])
<1>1. Has(r, "request") <=> (\E i \in 1..Len(log[r]) : log[r][i].name = "request")
  BY HasAt
<1>2. Has(r, "candidate_ready") <=> (\E i \in 1..Len(log[r]) : log[r][i].name = "candidate_ready")
  BY HasAt
<1>3. Has(r, "review_ready") <=> (\E i \in 1..Len(log[r]) : log[r][i].name = "review_ready")
  BY HasAt
<1>4. Has(r, "decision") <=> (\E i \in 1..Len(log[r]) : log[r][i].name = "decision")
  BY HasAt
<1>5. Has(r, "failure") <=> (\E i \in 1..Len(log[r]) : log[r][i].name = "failure")
  BY HasAt
<1>6. Has(r, "receipt") <=> (\E i \in 1..Len(log[r]) : log[r][i].name = "receipt")
  BY HasAt
<1>7. /\ (\E i \in 1..Len(log[r]) : log[r][i].name = "request") <=> Len(log[r]) # 0
      /\ (\E i \in 1..Len(log[r]) : log[r][i].name = "candidate_ready") <=> Reached(log[r], 2)
      /\ (\E i \in 1..Len(log[r]) : log[r][i].name = "review_ready") <=> Reached(log[r], 3)
      /\ (\E i \in 1..Len(log[r]) : log[r][i].name = "decision") <=> Reached(log[r], 4)
      /\ (\E i \in 1..Len(log[r]) : log[r][i].name = "failure") <=> Failed(log[r])
      /\ (\E i \in 1..Len(log[r]) : log[r][i].name = "receipt") <=> Receipted(log[r])
  BY NamesFacts
<1>. QED
  BY <1>1, <1>2, <1>3, <1>4, <1>5, <1>6, <1>7, Zenon

\* A named event is one of the chain's.
LEMMA TheEvent ==
  ASSUME NEW r \in Runs, log[r] \in Seq(Events), NEW name, Has(r, name)
  PROVE  \E i \in 1..Len(log[r]) : log[r][i].name = name /\ The(r, name) = log[r][i]
<1>. DEFINE j == CHOOSE i \in DOMAIN log[r] : log[r][i].name = name
<1>1. DOMAIN log[r] = 1..Len(log[r])
  OBVIOUS
<1>2. \E i \in DOMAIN log[r] : log[r][i].name = name
  BY DEF Has
<1>3. j \in DOMAIN log[r] /\ log[r][j].name = name
  BY <1>2, Zenon
<1>4. The(r, name) = log[r][j]
  BY DEF The
<1>. HIDE DEF j
<1>. QED
  BY <1>1, <1>3, <1>4

LEMMA TheFacts ==
  ASSUME NEW r \in Runs, log[r] \in Seq(Events), Chain(log[r])
  PROVE  /\ Has(r, "candidate_ready") => The(r, "candidate_ready") = log[r][2]
         /\ Has(r, "review_ready") => The(r, "review_ready") = log[r][3]
         /\ Has(r, "decision") => The(r, "decision") = log[r][4]
         /\ Has(r, "receipt") => The(r, "receipt") = log[r][Len(log[r])]
         /\ \A choice : Decided(r, choice) <=> Chosen(log[r], choice)
         /\ Failed(log[r]) => \E i \in 2..5 : /\ The(r, "failure") = log[r][i]
                                              /\ i \in 2..Len(log[r]) /\ log[r][i].name = "failure"
<1>1. Has(r, "candidate_ready") => The(r, "candidate_ready") = log[r][2]
  BY TheEvent, EventPlaces
<1>2. Has(r, "review_ready") => The(r, "review_ready") = log[r][3]
  BY TheEvent, EventPlaces
<1>3. Has(r, "decision") => The(r, "decision") = log[r][4]
  BY TheEvent, EventPlaces
<1>4. Has(r, "receipt") => The(r, "receipt") = log[r][Len(log[r])]
  <2>. SUFFICES ASSUME Has(r, "receipt") PROVE The(r, "receipt") = log[r][Len(log[r])]
    OBVIOUS
  <2>1. PICK i \in 1..Len(log[r]) : log[r][i].name = "receipt" /\ The(r, "receipt") = log[r][i]
    BY TheEvent
  <2>2. i \in 5..6 /\ Len(log[r]) \in 1..6
    BY <2>1, EventPlaces
  <2>3. i = Len(log[r])
    <3>0. i <= Len(log[r])
      BY <2>1
    <3>. SUFFICES ASSUME i = 5, Len(log[r]) = 6 PROVE FALSE
      BY <2>2, <3>0, FiveOrSix
    <3>1. Follows(log[r], 6)
      BY DEF Chain
    <3>. QED
      BY <3>1, <2>1 DEF Follows, ORDER
  <2>. QED
    BY <2>1, <2>3
<1>5. \A choice : Decided(r, choice) <=> Chosen(log[r], choice)
  BY <1>3, HasFacts DEF Decided, Chosen
<1>6. Failed(log[r]) => \E i \in 2..5 : /\ The(r, "failure") = log[r][i]
                                        /\ i \in 2..Len(log[r]) /\ log[r][i].name = "failure"
  <2>. SUFFICES ASSUME Failed(log[r])
                PROVE  \E i \in 2..5 : /\ The(r, "failure") = log[r][i]
                                       /\ i \in 2..Len(log[r]) /\ log[r][i].name = "failure"
    OBVIOUS
  <2>1. PICK i \in 1..Len(log[r]) : log[r][i].name = "failure" /\ The(r, "failure") = log[r][i]
    BY TheEvent, HasFacts
  <2>2. i \in 2..5
    BY <2>1, EventPlaces
  <2>. QED
    BY <2>1, <2>2
<1>. QED
  BY <1>1, <1>2, <1>3, <1>4, <1>5, <1>6

\* A failure is one that the next decide finishes exactly where it was written
\* after the decision.
LEMMA FailureFacts ==
  ASSUME NEW r \in Runs, log[r] \in Seq(Events), Chain(log[r]), Failed(log[r])
  PROVE  /\ Recoverable(r) <=> Reached(log[r], 4)
         /\ The(r, "failure").says \in PublishFailures => Chosen(log[r], "APPROVE")
         /\ The(r, "failure").says \in RejectFailures => Chosen(log[r], "REJECT")
         /\ The(r, "failure").after = IF Reached(log[r], 4) THEN "decision"
                                      ELSE IF Reached(log[r], 3) THEN "review_ready"
                                      ELSE IF Reached(log[r], 2) THEN "candidate_ready"
                                      ELSE "request"
<1>. DEFINE s == log[r]
<1>0. s \in Seq(Events) /\ Chain(s)
  OBVIOUS
<1>1. PICK i \in 2..5 : The(r, "failure") = s[i] /\ i \in 2..Len(s) /\ s[i].name = "failure"
  BY TheFacts
<1>2. Follows(s, i) /\ i \in 1..Len(s)
  BY <1>1, <1>0 DEF Chain
<1>. HIDE DEF s
<1>3. /\ Reached(s, 4) <=> i = 5
      /\ Reached(s, 3) <=> i >= 4
      /\ s[i - 1].name = ORDER[i - 1]
  BY <1>0, <1>1, <1>2, FailedLast, EventPlaces
<1>4. Reached(s, 2) <=> i >= 3
  <2>1. CASE i = 2
    BY <1>1, <2>1 DEF Reached, ORDER
  <2>2. CASE i = 3
    BY <1>1, <1>2, <1>3, <2>2 DEF Reached, ORDER
  <2>3. CASE i >= 4
    BY <1>0, <1>3, <2>3, Reaches
  <2>. QED
    BY <2>1, <2>2, <2>3
<1>5. /\ s[i].after = s[i - 1].name
      /\ s[i].says \in RECOVERABLE_FAILURE_STATES <=> i = 5
      /\ s[i].says \in PublishFailures => s[4].says = "APPROVE"
      /\ s[i].says \in RejectFailures => s[4].says = "REJECT"
  BY <1>1, <1>2 DEF Follows, ORDER
<1>6. PublishFailures \cup RejectFailures = RECOVERABLE_FAILURE_STATES
  BY DEF PublishFailures, RejectFailures, RECOVERABLE_FAILURE_STATES
<1>7. s[i].after = ORDER[i - 1]
  BY <1>3, <1>5
<1>8. s[i].after = IF Reached(s, 4) THEN "decision"
                   ELSE IF Reached(s, 3) THEN "review_ready"
                   ELSE IF Reached(s, 2) THEN "candidate_ready" ELSE "request"
  BY <1>1, <1>3, <1>4, <1>7 DEF ORDER
<1>9. /\ s[i].says \in PublishFailures => Chosen(s, "APPROVE")
      /\ s[i].says \in RejectFailures => Chosen(s, "REJECT")
  BY <1>3, <1>5, <1>6 DEF Chosen
<1>. QED
  BY <1>1, <1>3, <1>5, <1>8, <1>9 DEF s, Recoverable

\* A chain loads.
LEMMA ChainLoads ==
  ASSUME NEW r \in Runs, log[r] \in Seq(Events), Chain(log[r]), Len(log[r]) # 0
  PROVE  Loads(r)
<1>. DEFINE s == log[r]
<1>0. s \in Seq(Events) /\ Chain(s) /\ Len(s) \in 0..6
  BY Reaches
<1>1. \A i \in 2..4 : Has(r, ORDER[i]) <=> Reached(s, i)
  BY HasFacts DEF ORDER
<1>2. Has(r, ORDER[1])
  BY HasFacts DEF ORDER
<1>3. \A i \in 2..4 : Has(r, ORDER[i]) => The(r, ORDER[i]) = s[i]
  BY TheFacts DEF ORDER
<1>4. ASSUME NEW i \in 2..4, Reached(s, i)
      PROVE  Has(r, ORDER[i - 1]) /\ s[i].after = ORDER[i - 1]
  <2>1. Follows(s, i) /\ s[i].name = ORDER[i]
    BY <1>0, <1>4 DEF Chain, Reached
  <2>2. s[i].after = ORDER[i - 1]
    BY <2>1 DEF Follows, ORDER
  <2>3. Has(r, ORDER[i - 1])
    BY <1>0, <1>1, <1>2, <1>4, Reaches
  <2>. QED
    BY <2>2, <2>3
<1>5. \A i \in 2..4 : Has(r, ORDER[i]) => Has(r, ORDER[i - 1]) /\ The(r, ORDER[i]).after = ORDER[i - 1]
  BY <1>1, <1>3, <1>4
<1>6. Receipted(s) =>
        /\ Failed(s) <=> Len(s) = 6
        /\ s[Len(s)].after = IF Failed(s) THEN "failure" ELSE "decision"
        /\ s[Len(s)].says = "PUBLISHED" <=> Chosen(s, "APPROVE")
  <2>. SUFFICES ASSUME Receipted(s)
                PROVE  /\ Failed(s) <=> Len(s) = 6
                       /\ s[Len(s)].after = IF Failed(s) THEN "failure" ELSE "decision"
                       /\ s[Len(s)].says = "PUBLISHED" <=> Chosen(s, "APPROVE")
    OBVIOUS
  <2>1. Len(s) \in 5..6 /\ s[Len(s)].name = "receipt" /\ Reached(s, 4)
    BY <1>0, Reaches DEF Receipted
  <2>2. Follows(s, Len(s))
    BY <1>0, <2>1 DEF Chain
  <2>3. /\ Len(s) = 6 => s[5].name = "failure" /\ s[6].after = "failure"
        /\ Len(s) = 5 => s[5].after = "decision"
        /\ s[Len(s)].says = IF s[4].says = "APPROVE" THEN "PUBLISHED" ELSE "REJECTED"
        /\ s[4].name = "decision"
    <3>1. CASE Len(s) = 5
      BY <3>1, <2>1, <2>2 DEF Follows, ORDER
    <3>2. CASE Len(s) = 6
      BY <3>2, <2>1, <2>2 DEF Follows, ORDER
    <3>. QED
      BY <2>1, <3>1, <3>2
  <2>4. Failed(s) => Len(s) = 6
    <3>. SUFFICES ASSUME NEW i \in 2..5, i <= Len(s), s[i].name = "failure" PROVE Len(s) = 6
      BY DEF Failed
    <3>. QED
      BY <1>0, <2>1, FailedLast
  <2>5. Len(s) = 6 => Failed(s)
    BY <2>3 DEF Failed
  <2>6. s[Len(s)].after = IF Failed(s) THEN "failure" ELSE "decision"
    <3>1. CASE Len(s) = 5
      BY <3>1, <2>3, <2>4
    <3>2. CASE Len(s) = 6
      BY <3>2, <2>3, <2>5
    <3>. QED
      BY <2>1, <3>1, <3>2
  <2>7. s[4].says \in {"APPROVE", "REJECT"} /\ (Chosen(s, "APPROVE") <=> s[4].says = "APPROVE")
    BY <1>0, <2>1, Reaches DEF Chosen
  <2>8. s[Len(s)].says = "PUBLISHED" <=> Chosen(s, "APPROVE")
    BY <2>3, <2>7
  <2>. QED
    BY <2>4, <2>5, <2>6, <2>8
<1>. HIDE DEF s
<1>7. /\ Has(r, "request") /\ (Has(r, "candidate_ready") <=> Reached(s, 2))
      /\ Has(r, "review_ready") <=> Reached(s, 3)
      /\ Has(r, "decision") <=> Reached(s, 4)
      /\ Has(r, "failure") <=> Failed(s)
      /\ Has(r, "receipt") <=> Receipted(s)
      /\ Receipted(s) => The(r, "receipt") = s[Len(s)] /\ Reached(s, 4)
      /\ Decided(r, "APPROVE") <=> Chosen(s, "APPROVE")
      /\ Decided(r, "REJECT") <=> Chosen(s, "REJECT")
  BY HasFacts, TheFacts, Reaches DEF s
<1>8. Failed(s) =>
        /\ Recoverable(r) <=> Reached(s, 4)
        /\ The(r, "failure").says \in PublishFailures => Chosen(s, "APPROVE")
        /\ The(r, "failure").says \in RejectFailures => Chosen(s, "REJECT")
        /\ The(r, "failure").after = IF Reached(s, 4) THEN "decision"
                                     ELSE IF Reached(s, 3) THEN "review_ready"
                                     ELSE IF Reached(s, 2) THEN "candidate_ready"
                                     ELSE "request"
  BY FailureFacts DEF s
<1>. QED
  BY <1>5, <1>6, <1>7, <1>8, Zenon DEF Loads, PublishFailures, RejectFailures

-----------------------------------------------------------------------------
(* What an append adds to the chain, and what a prefix keeps of it. *)

LEMMA AppendedAt ==
  ASSUME NEW s \in Seq(Events), NEW e \in Events
  PROVE  /\ Append(s, e) \in Seq(Events) /\ Len(Append(s, e)) = Len(s) + 1
         /\ \A i \in 1..Len(s) : Append(s, e)[i] = s[i]
         /\ Append(s, e)[Len(s) + 1] = e
  OBVIOUS

LEMMA AppendedTo ==
  ASSUME NEW s \in Seq(Events), NEW e \in Events, NEW m, m = Len(s) + 1
  PROVE  Append(s, e)[m] = e
  BY AppendedAt

LEMMA AppendedToFour ==
  ASSUME NEW s \in Seq(Events), NEW e \in Events, Len(s) = 4
  PROVE  Append(s, e)[5] = e /\ Append(s, e)[4] = s[4]
<1>1. 5 = Len(s) + 1 /\ 4 \in 1..Len(s)
  OBVIOUS
<1>2. Append(s, e)[5] = e
  BY <1>1, AppendedTo
<1>3. Append(s, e)[4] = s[4]
  BY <1>1, AppendedAt
<1>. QED
  BY <1>2, <1>3

LEMMA AppendedToFive ==
  ASSUME NEW s \in Seq(Events), NEW e \in Events, Len(s) = 5
  PROVE  Append(s, e)[6] = e /\ Append(s, e)[5] = s[5] /\ Append(s, e)[4] = s[4]
<1>1. 6 = Len(s) + 1 /\ 4 \in 1..Len(s) /\ 5 \in 1..Len(s)
  OBVIOUS
<1>2. Append(s, e)[6] = e
  BY <1>1, AppendedTo
<1>3. Append(s, e)[4] = s[4] /\ Append(s, e)[5] = s[5]
  BY <1>1, AppendedAt
<1>. QED
  BY <1>2, <1>3

LEMMA FollowsKept ==
  ASSUME NEW s \in Seq(Events), NEW t \in Seq(Events), NEW i \in 2..6, Follows(s, i),
         \A j \in 1..i : t[j] = s[j]
  PROVE  Follows(t, i)
<1>0. i \in 1..i /\ i - 1 \in 1..i
  OBVIOUS
<1>1. t[i] = s[i] /\ t[i - 1] = s[i - 1]
  BY <1>0
<1>2. CASE i <= 4 /\ s[i].name = ORDER[i] /\ s[i - 1].name = ORDER[i - 1]
  BY <1>1, <1>2 DEF Follows
<1>3. CASE /\ i <= 5 /\ s[i].name = "failure" /\ s[i - 1].name = ORDER[i - 1]
           /\ s[i].says \in RECOVERABLE_FAILURE_STATES <=> i = 5
           /\ s[i].says \in PublishFailures => s[4].says = "APPROVE"
           /\ s[i].says \in RejectFailures => s[4].says = "REJECT"
  <2>1. PublishFailures \cup RejectFailures = RECOVERABLE_FAILURE_STATES
    BY DEF PublishFailures, RejectFailures, RECOVERABLE_FAILURE_STATES
  <2>2. i = 5 => t[4] = s[4]
    OBVIOUS
  <2>3. /\ s[i].says \in PublishFailures => t[4].says = "APPROVE"
        /\ s[i].says \in RejectFailures => t[4].says = "REJECT"
    BY <1>3, <2>1, <2>2
  <2>. QED
    BY <1>1, <1>3, <2>3 DEF Follows
<1>4. CASE /\ s[i].name = "receipt" /\ s[4].name = "decision"
           /\ i = 5 \/ (i = 6 /\ s[5].name = "failure")
           /\ s[i].says = IF s[4].says = "APPROVE" THEN "PUBLISHED" ELSE "REJECTED"
  <2>1. t[4] = s[4] /\ (i = 6 => t[5] = s[5])
    BY <1>4
  <2>. QED
    BY <1>1, <1>4, <2>1 DEF Follows
<1>. QED
  BY <1>2, <1>3, <1>4 DEF Follows

LEMMA ChainAppend ==
  ASSUME NEW s \in Seq(Events), Chain(s), NEW e \in Events, Len(s) <= 5,
         IF Len(s) = 0 THEN e.name = "request" /\ e.after = "-"
                       ELSE Follows(Append(s, e), Len(s) + 1)
  PROVE  Chain(Append(s, e))
<1>. DEFINE t == Append(s, e)
<1>0. Len(s) \in 0..6
  BY Reaches
<1>1. /\ t \in Seq(Events) /\ Len(t) = Len(s) + 1
      /\ \A i \in 1..Len(s) : t[i] = s[i]
      /\ t[Len(s) + 1] = e
  BY AppendedAt
<1>. HIDE DEF t
<1>2. t[1].name = "request" /\ t[1].after = "-"
  <2>1. CASE Len(s) = 0
    BY <2>1, <1>1
  <2>2. CASE Len(s) # 0
    BY <2>2, <1>0, <1>1 DEF Chain
  <2>. QED
    BY <2>1, <2>2
<1>3. ASSUME NEW i \in 2..Len(t) PROVE Follows(t, i)
  <2>1. CASE i = Len(s) + 1
    BY <2>1, <1>0, <1>3 DEF t
  <2>2. CASE i <= Len(s)
    <3>1. Follows(s, i)
      BY <2>2, <1>3 DEF Chain
    <3>2. i \in 2..6 /\ \A j \in 1..i : t[j] = s[j]
      BY <2>2, <1>0, <1>1, <1>3
    <3>. QED
      BY <3>1, <3>2, <1>1, FollowsKept
  <2>. QED
    BY <2>1, <2>2, <1>0, <1>1, <1>3
<1>4. Len(t) <= 6
  BY <1>0, <1>1
<1>. QED
  BY <1>2, <1>3, <1>4 DEF Chain, t

\* How far the events have come after one more.
LEMMA ReachedAppend ==
  ASSUME NEW s \in Seq(Events), NEW e \in Events, NEW n \in 2..4
  PROVE  /\ Reached(Append(s, e), n) <=> Reached(s, n) \/ (Len(s) = n - 1 /\ e.name = ORDER[n])
         /\ Len(s) # 3 => \A c : Chosen(Append(s, e), c) <=> Chosen(s, c)
         /\ Len(s) = 3 => \A c : Chosen(Append(s, e), c) <=> e.name = "decision" /\ e.says = c
         /\ Receipted(Append(s, e)) <=> Len(s) >= 4 /\ e.name = "receipt"
<1>. DEFINE t == Append(s, e)
<1>0. Len(s) \in Nat
  OBVIOUS
<1>1. /\ Len(t) = Len(s) + 1
      /\ \A i \in 1..Len(s) : t[i] = s[i]
      /\ t[Len(s) + 1] = e
  BY AppendedAt
<1>. HIDE DEF t
<1>2. Reached(t, n) <=> Reached(s, n) \/ (Len(s) = n - 1 /\ e.name = ORDER[n])
  BY <1>0, <1>1 DEF Reached
<1>a. Reached(s, 4) => t[4] = s[4]
  BY <1>0, <1>1 DEF Reached
<1>3. Len(s) # 3 => (Reached(t, 4) <=> Reached(s, 4)) /\ (Reached(s, 4) => t[4] = s[4])
  <2>1. CASE Len(s) >= 4
    BY <2>1, <1>0, <1>1, <1>a DEF Reached
  <2>2. CASE ~(Len(s) >= 3)
    BY <2>2, <1>0, <1>1, <1>a DEF Reached
  <2>3. Len(s) >= 4 \/ ~(Len(s) >= 3) \/ Len(s) = 3
    BY <1>0, NearFour, Zenon
  <2>. QED
    BY <2>1, <2>2, <2>3
<1>4. Len(s) = 3 => (Reached(t, 4) <=> e.name = "decision") /\ t[4] = e
  BY <1>0, <1>1 DEF Reached, ORDER
<1>5. Receipted(t) <=> Len(s) >= 4 /\ e.name = "receipt"
  BY <1>0, <1>1 DEF Receipted
<1>6. Len(s) # 3 => \A c : Chosen(t, c) <=> Chosen(s, c)
  BY <1>3 DEF Chosen
<1>7. Len(s) = 3 => \A c : Chosen(t, c) <=> e.name = "decision" /\ e.says = c
  BY <1>4 DEF Chosen
<1>. QED
  BY <1>2, <1>5, <1>6, <1>7 DEF t

\* The next event in order.
LEMMA AppendOrdered ==
  ASSUME NEW s \in Seq(Events), Chain(s), NEW e \in Events, NEW n \in 2..4,
         Len(s) = n - 1, s[n - 1].name = ORDER[n - 1], e.name = ORDER[n], e.after = ORDER[n - 1]
  PROVE  Chain(Append(s, e))
<1>1. Append(s, e)[n] = e /\ Append(s, e)[n - 1] = s[n - 1]
  BY AppendedAt
<1>2. Follows(Append(s, e), n)
  BY <1>1 DEF Follows
<1>. QED
  BY <1>2, ChainAppend

LEMMA FollowsAt ==
  ASSUME NEW s \in Seq(Events), Chain(s), NEW i \in {2, 3, 4, 5, 6}, Len(s) = i
  PROVE  Follows(s, i)
  BY DEF Chain

LEMMA Lengths ==
  ASSUME NEW s \in Seq(Events), Chain(s)
  PROVE  Len(s) \in {0, 1, 2, 3, 4, 5, 6}
  BY Reaches, Small

\* Where neither a failure nor a receipt stands, the events are those of ORDER.
LEMMA OpenEnd ==
  ASSUME NEW s \in Seq(Events), Chain(s), ~Failed(s), ~Receipted(s), Len(s) # 0
  PROVE  /\ Len(s) \in {1, 2, 3, 4}
         /\ Reached(s, 4) <=> Len(s) = 4
         /\ Reached(s, 3) <=> Len(s) \in {3, 4}
         /\ Reached(s, 2) <=> Len(s) \in {2, 3, 4}
         /\ s[Len(s)].name = ORDER[Len(s)]
<1>0. Len(s) \in {1, 2, 3, 4, 5, 6}
  BY Lengths
<1>1. Len(s) # 6
  <2>. SUFFICES ASSUME Len(s) = 6 PROVE FALSE
    OBVIOUS
  <2>1. Follows(s, 6)
    BY FollowsAt, Zenon
  <2>. QED
    BY <2>1 DEF Follows, Receipted
<1>2. Len(s) # 5
  <2>. SUFFICES ASSUME Len(s) = 5 PROVE FALSE
    OBVIOUS
  <2>1. Follows(s, 5)
    BY FollowsAt, Zenon
  <2>2. s[5].name # "failure" /\ s[5].name # "receipt"
    BY DEF Failed, Receipted
  <2>. QED
    BY <2>1, <2>2 DEF Follows
<1>3. Len(s) \in {1, 2, 3, 4}
  BY <1>0, <1>1, <1>2
<1>4. \A n \in 2..4 : Len(s) >= n <=> Reached(s, n)
  BY FailedLast DEF Reached
<1>5. CASE Len(s) = 1
  BY <1>4, <1>5 DEF Chain, ORDER
<1>6. CASE Len(s) = 2
  BY <1>4, <1>6 DEF Reached
<1>7. CASE Len(s) = 3
  BY <1>4, <1>7 DEF Reached
<1>8. CASE Len(s) = 4
  BY <1>4, <1>8 DEF Reached
<1>. QED
  BY <1>3, <1>5, <1>6, <1>7, <1>8

\* Where a decision stands without a receipt, a failure may follow it.
LEMMA ReceiptRoom ==
  ASSUME NEW s \in Seq(Events), Chain(s), Reached(s, 4), ~Receipted(s)
  PROVE  \/ Len(s) = 4 /\ ~Failed(s) /\ s[4].name = "decision"
         \/ Len(s) = 5 /\ Failed(s) /\ s[4].name = "decision" /\ s[5].name = "failure"
<1>0. Len(s) \in {4, 5, 6}
  <2>1. Len(s) \in Nat
    OBVIOUS
  <2>2. Len(s) >= 4
    BY Reaches
  <2>3. Len(s) \in {0, 1, 2, 3, 4, 5, 6}
    BY Lengths
  <2>. QED
    BY <2>1, <2>2, <2>3, NearFour, Zenon
<1>1. Len(s) # 6
  <2>. SUFFICES ASSUME Len(s) = 6 PROVE FALSE
    OBVIOUS
  <2>1. Follows(s, 6)
    BY FollowsAt, Zenon
  <2>. QED
    BY <2>1 DEF Follows, Receipted
<1>2. s[4].name = "decision"
  BY DEF Reached, ORDER
<1>3. CASE Len(s) = 4
  <2>1. ASSUME Failed(s) PROVE FALSE
    <3>1. PICK i \in 2..5 : i <= Len(s) /\ s[i].name = "failure"
      BY <2>1 DEF Failed
    <3>2. i \in 1..Len(s) /\ i # 5
      BY <3>1, <1>3
    <3>. QED
      BY <3>1, <3>2, FailedLast
  <2>. QED
    BY <2>1, <1>2, <1>3
<1>4. CASE Len(s) = 5
  <2>1. Follows(s, 5)
    BY <1>4, FollowsAt, Zenon
  <2>2. s[5].name # "receipt"
    BY <1>4 DEF Receipted
  <2>3. s[5].name = "failure"
    BY <2>1, <2>2 DEF Follows
  <2>. QED
    BY <1>2, <1>4, <2>3 DEF Failed
<1>. QED
  BY <1>0, <1>1, <1>3, <1>4

\* A failure that fits what was decided.
LEMMA AppendFailure ==
  ASSUME NEW s \in Seq(Events), Chain(s), ~Failed(s), ~Receipted(s), Len(s) # 0,
         NEW e \in Events, e.name = "failure",
         e.after = IF Reached(s, 4) THEN "decision"
                   ELSE IF Reached(s, 3) THEN "review_ready"
                   ELSE IF Reached(s, 2) THEN "candidate_ready" ELSE "request",
         e.says \in RECOVERABLE_FAILURE_STATES <=> Reached(s, 4),
         e.says \in PublishFailures => Chosen(s, "APPROVE"),
         e.says \in RejectFailures => Chosen(s, "REJECT")
  PROVE  Chain(Append(s, e))
<1>. DEFINE t == Append(s, e)
<1>1. Len(s) \in {1, 2, 3, 4} /\ s[Len(s)].name = ORDER[Len(s)]
  BY OpenEnd
<1>2. ASSUME NEW m \in {1, 2, 3, 4}, m = Len(s) PROVE Follows(t, m + 1)
  <2>1. t[m + 1] = e /\ t[m] = s[m] /\ (m = 4 => t[4] = s[4])
    BY <1>2, AppendedAt
  <2>2. /\ Reached(s, 4) <=> m = 4
        /\ Reached(s, 3) <=> m \in {3, 4}
        /\ Reached(s, 2) <=> m \in {2, 3, 4}
        /\ s[m].name = ORDER[m]
    BY <1>2, OpenEnd
  <2>3. e.after = ORDER[m]
    BY <2>2 DEF ORDER
  <2>4. /\ e.says \in PublishFailures => m = 4 /\ s[4].says = "APPROVE"
        /\ e.says \in RejectFailures => m = 4 /\ s[4].says = "REJECT"
    BY <2>2 DEF Chosen
  <2>5. e.says \in RECOVERABLE_FAILURE_STATES <=> m + 1 = 5
    BY <2>2
  <2>. HIDE DEF t
  <2>. QED
    BY <2>1, <2>2, <2>3, <2>4, <2>5 DEF Follows
<1>3. Follows(t, Len(s) + 1)
  BY <1>1, <1>2, Zenon
<1>4. Len(s) \in Nat
  OBVIOUS
<1>5. Len(s) <= 5 /\ Len(s) # 0
  BY <1>1, <1>4, NearFour, Zenon
<1>. QED
  BY <1>3, <1>5, ChainAppend

\* The receipt of the decision.
LEMMA AppendReceipt ==
  ASSUME NEW s \in Seq(Events), Chain(s), Reached(s, 4), ~Receipted(s),
         NEW e \in Events, e.name = "receipt",
         e.after = IF Failed(s) THEN "failure" ELSE "decision",
         e.says = IF Chosen(s, "APPROVE") THEN "PUBLISHED" ELSE "REJECTED"
  PROVE  Chain(Append(s, e)) /\ Len(s) >= 4
<1>. DEFINE t == Append(s, e)
<1>0. Len(s) \in Nat
  OBVIOUS
<1>1. e.says = IF s[4].says = "APPROVE" THEN "PUBLISHED" ELSE "REJECTED"
  BY DEF Chosen
<1>2. CASE Len(s) = 4 /\ ~Failed(s) /\ s[4].name = "decision"
  <2>1. t[5] = e /\ t[4] = s[4]
    BY <1>2, AppendedToFour
  <2>. HIDE DEF t
  <2>2. Follows(t, 5)
    BY <1>1, <1>2, <2>1 DEF Follows
  <2>3. Len(s) + 1 = 5 /\ Len(s) <= 5 /\ Len(s) # 0 /\ Len(s) >= 4
    BY <1>0, <1>2, NearFour, Zenon
  <2>4. Follows(t, Len(s) + 1)
    BY <2>2, <2>3, Zenon
  <2>. QED
    BY <2>3, <2>4, ChainAppend DEF t
<1>3. CASE Len(s) = 5 /\ Failed(s) /\ s[4].name = "decision" /\ s[5].name = "failure"
  <2>1. t[6] = e /\ t[5] = s[5] /\ t[4] = s[4]
    BY <1>3, AppendedToFive
  <2>. HIDE DEF t
  <2>2. Follows(t, 6)
    BY <1>1, <1>3, <2>1 DEF Follows
  <2>3. Len(s) + 1 = 6 /\ Len(s) <= 5 /\ Len(s) # 0 /\ Len(s) >= 4
    BY <1>0, <1>3, NearFour, Zenon
  <2>4. Follows(t, Len(s) + 1)
    BY <2>2, <2>3, Zenon
  <2>. QED
    BY <2>3, <2>4, ChainAppend DEF t
<1>. QED
  BY <1>2, <1>3, ReceiptRoom

\* What a loss of power leaves.
LEMMA Prefixes ==
  ASSUME NEW s \in Seq(Events), Chain(s), NEW n \in 0..Len(s)
  PROVE  /\ SubSeq(s, 1, n) \in Seq(Events) /\ Len(SubSeq(s, 1, n)) = n
         /\ Chain(SubSeq(s, 1, n))
         /\ \A c : Chosen(SubSeq(s, 1, n), c) => Chosen(s, c)
         /\ Receipted(SubSeq(s, 1, n)) => Receipted(s) /\ SubSeq(s, 1, n)[4] = s[4]
<1>. DEFINE t == SubSeq(s, 1, n)
<1>a. PICK m \in 0..6 : m = Len(s)
  BY Reaches
<1>0. Len(s) \in 0..6 /\ n \in 0..6 /\ n <= Len(s)
  <2>1. n \in 0..m
    BY <1>a
  <2>. QED
    BY <1>a, <2>1
<1>1. /\ t \in Seq(Events) /\ Len(t) = n
      /\ \A i \in 1..n : t[i] = s[i]
  OBVIOUS
<1>. HIDE DEF t
<1>2. ASSUME NEW i \in 2..n PROVE Follows(t, i)
  <2>1. Follows(s, i)
    BY <1>0 DEF Chain
  <2>2. i \in 2..6 /\ \A j \in 1..i : t[j] = s[j]
    BY <1>0, <1>1
  <2>. QED
    BY <2>1, <2>2, <1>1, FollowsKept
<1>3. n >= 1 => t[1].name = "request" /\ t[1].after = "-"
  BY <1>0, <1>1 DEF Chain
<1>4. Chain(t)
  BY <1>0, <1>1, <1>2, <1>3 DEF Chain
<1>5. \A c : Chosen(t, c) => Chosen(s, c)
  <2>1. Reached(t, 4) => Reached(s, 4) /\ t[4] = s[4]
    BY <1>0, <1>1 DEF Reached
  <2>. QED
    BY <2>1 DEF Chosen
<1>6. Receipted(t) => Receipted(s) /\ t[4] = s[4]
  <2>. SUFFICES ASSUME Receipted(t) PROVE Receipted(s) /\ t[4] = s[4]
    OBVIOUS
  <2>1. n >= 5 /\ s[n].name = "receipt" /\ n \in 1..Len(s) /\ t[4] = s[4]
    BY <1>0, <1>1 DEF Receipted
  <2>. QED
    BY <2>1, NamesFacts
<1>. QED
  BY <1>1, <1>4, <1>5, <1>6 DEF t

-----------------------------------------------------------------------------
(* What a step of one process leaves to the others. *)

LEMMA Types ==
  ASSUME TypeOK
  PROVE  /\ log \in [Runs -> Seq(Events)] /\ sure \in [Runs -> Nat]
         /\ loc \in [Runs -> Places] /\ maybe \in [Runs -> SUBSET Places]
         /\ \A r \in Runs : sure[r] <= Len(log[r]) /\ loc[r] \in maybe[r]
         /\ altered \in [Runs -> BOOLEAN]
         /\ \A p \in Processes : proc[p] \in [at : Steps, run : Runs \cup {Nobody},
                                              ev : EventNames \cup {"-"}]
         /\ DOMAIN proc = Processes
         /\ proc = [p \in Processes |-> proc[p]]
         /\ lock \in [Runs -> Processes \cup {Nobody}]
         /\ mishaps \in 0..MaxMishaps
  BY DEF TypeOK

\* What must hold of its run where p is at a step.
Fits(p, step, ev, s, place, places) ==
    /\ step \in Steps \ {"idle"}
    /\ step = "sync" => ev \in EventNames
    /\ PrepareInv(s, lock[proc[p].run] = p, step, ev, place, places)
    /\ CleanInv(s, lock[proc[p].run] = p, step, ev, place)
    /\ DecideInv(s, lock[proc[p].run] = p, step, ev, place, places)

LEMMA Fitting ==
  ASSUME NEW p \in Processes, proc[p] # Idle, TypeOK
  PROVE  StepInv(p) <=> /\ proc[p].run \in Runs
                        /\ Fits(p, proc[p].at, proc[p].ev, log[proc[p].run],
                                loc[proc[p].run], maybe[proc[p].run])
  BY Types DEF StepInv, Fits

\* Certainty about the present names changes nothing else.
LEMMA Certain ==
  ASSUME NEW s, NEW h, NEW step, NEW ev, NEW place, NEW places, place \in places
  PROVE  /\ PrepareInv(s, h, step, ev, place, places) => PrepareInv(s, h, step, ev, place, {place})
         /\ DecideInv(s, h, step, ev, place, places) => DecideInv(s, h, step, ev, place, {place})
<1>1. \A c : places = {c} => {place} = {c}
  OBVIOUS
<1>2. PrepareInv(s, h, step, ev, place, places) => PrepareInv(s, h, step, ev, place, {place})
  BY <1>1, Zenon DEF PrepareInv
<1>3. DecideInv(s, h, step, ev, place, places) => DecideInv(s, h, step, ev, place, {place})
  <2>1. CASE Chosen(s, "APPROVE")
    BY <1>1, <2>1, Zenon DEF DecideInv
  <2>2. CASE ~Chosen(s, "APPROVE")
    BY <1>1, <2>2, Zenon DEF DecideInv
  <2>. QED
    BY <2>1, <2>2
<1>. QED
  BY <1>2, <1>3

\* The steps of a process that prepared a run which is ready to be decided.
Lingers(p) == proc[p].at = "fail" \/ (proc[p].at = "sync" /\ proc[p].ev = "review_ready")

DecideSteps == {"prompt", "decision", "finish", "receipt"}

LEMMA StepKinds ==
  ASSUME NEW step \in Steps \ {"idle"}
  PROVE  \/ step \in PrepareSteps \/ step \in CleaningSteps \cup {"failure"}
         \/ step \in DecideSteps \/ step \in PublishSteps \/ step = "sync"
  BY DEF Steps, EventNames, PrepareSteps, CleaningSteps, DecideSteps, PublishSteps

\* A holder of a lock works on a run that is ready for review, and anyone else
\* on such a run lingers.
LEMMA Holders ==
  ASSUME NEW p \in Processes, NEW s, NEW step, NEW ev, NEW place, NEW places,
         Fits(p, step, ev, s, place, places), Reached(s, 4) => Reached(s, 3),
         s # <<>> \/ ~Reached(s, 3), Len(s) # 1 \/ ~Reached(s, 3), Len(s) # 2 \/ ~Reached(s, 3)
  PROVE  /\ lock[proc[p].run] = p => Reached(s, 3) /\ step # "fail" /\ ~(step = "sync" /\ ev = "review_ready")
         /\ lock[proc[p].run] # p /\ Reached(s, 3) => step = "fail" \/ (step = "sync" /\ ev = "review_ready")
<1>0. step \in Steps \ {"idle"} /\ (step = "sync" => ev \in EventNames)
  BY DEF Fits
<1>1. CASE step \in PrepareSteps
  <2>1. lock[proc[p].run] # p
    BY <1>1, Zenon DEF Fits, PrepareInv
  <2>2. CASE step = "request"
    BY <2>1, <2>2 DEF Fits, PrepareInv
  <2>3. CASE step \in {"commit", "commitSync", "candidate_ready"}
    BY <2>1, <2>3 DEF Fits, PrepareInv
  <2>4. CASE step = "review_ready"
    BY <2>1, <2>4 DEF Fits, PrepareInv
  <2>. QED
    BY <1>1, <2>1, <2>2, <2>3, <2>4 DEF PrepareSteps
<1>2. CASE step \in CleaningSteps \cup {"failure"}
  BY <1>2 DEF Fits, CleanInv, CleaningSteps
<1>3. CASE step \in DecideSteps
  BY <1>3 DEF Fits, DecideInv, DecideSteps
<1>4. CASE step \in PublishSteps
  BY <1>4 DEF Fits, DecideInv, PublishSteps
<1>5. CASE step = "sync"
  <2>1. CASE ev \in {"request", "candidate_ready", "review_ready"}
    BY <1>5, <2>1 DEF Fits, PrepareInv
  <2>2. CASE ev = "failure"
    BY <1>5, <2>2 DEF Fits, CleanInv
  <2>3. CASE ev \in {"decision", "receipt"}
    BY <1>5, <2>3 DEF Fits, DecideInv
  <2>. QED
    BY <1>0, <1>5, <2>1, <2>2, <2>3 DEF EventNames
<1>. QED
  BY <1>0, <1>1, <1>2, <1>3, <1>4, <1>5, StepKinds

LEMMA PastTwo ==
  ASSUME NEW n \in Nat, n >= 3
  PROVE  n # 0 /\ n # 1 /\ n # 2
  OBVIOUS

LEMMA ReachedThree ==
  ASSUME NEW s \in Seq(Events), Reached(s, 3)
  PROVE  Len(s) # 1 /\ Len(s) # 2 /\ s # <<>>
<1>1. Len(s) >= 3 /\ Len(s) \in Nat
  BY DEF Reached
<1>. QED
  BY <1>1, PastTwo

\* Two processes on one run: one has the lock, the other lingers.
LEMMA Alone ==
  ASSUME Inv, NEW p \in Processes, NEW q \in Processes, p # q,
         proc[p] # Idle, proc[q] # Idle, proc[p].run = proc[q].run
  PROVE  \/ lock[proc[p].run] = p /\ Lingers(q) /\ ~Lingers(p)
         \/ lock[proc[p].run] = q /\ Lingers(p) /\ ~Lingers(q)
<1>. DEFINE r == proc[p].run
<1>1. r \in Runs /\ log[r] \in Seq(Events) /\ Chain(log[r])
  BY Fitting, Types DEF Inv, RunInv, RunSays
<1>2. lock[r] \in {p, q}
  BY DEF Inv, AloneInv
<1>3. ASSUME NEW h \in Processes, NEW o \in Processes, h # o, lock[r] = h,
             proc[h] # Idle, proc[o] # Idle, proc[h].run = r, proc[o].run = r
      PROVE  Lingers(o) /\ ~Lingers(h)
  <2>1. Fits(h, proc[h].at, proc[h].ev, log[r], loc[r], maybe[r])
    BY <1>3, Fitting DEF Inv
  <2>2. Fits(o, proc[o].at, proc[o].ev, log[r], loc[r], maybe[r])
    BY <1>3, Fitting DEF Inv
  <2>3. Reached(log[r], 4) => Reached(log[r], 3)
    BY <1>1, Reaches
  <2>5. Reached(log[r], 3) => Len(log[r]) # 1 /\ Len(log[r]) # 2 /\ log[r] # <<>>
    BY <1>1, ReachedThree, Zenon
  <2>6. Reached(log[r], 3) /\ ~Lingers(h)
    <3>1. /\ log[r] # <<>> \/ ~Reached(log[r], 3)
          /\ Len(log[r]) # 1 \/ ~Reached(log[r], 3)
          /\ Len(log[r]) # 2 \/ ~Reached(log[r], 3)
      BY <2>5
    <3>2. lock[proc[h].run] = h
      BY <1>3
    <3>3. Reached(log[r], 3) /\ proc[h].at # "fail" /\ ~(proc[h].at = "sync" /\ proc[h].ev = "review_ready")
      BY <2>1, <2>3, <3>1, <3>2, Holders
    <3>. QED
      BY <3>3 DEF Lingers
  <2>7. Lingers(o)
    <3>1. /\ log[r] # <<>> \/ ~Reached(log[r], 3)
          /\ Len(log[r]) # 1 \/ ~Reached(log[r], 3)
          /\ Len(log[r]) # 2 \/ ~Reached(log[r], 3)
      BY <2>5
    <3>2. lock[proc[o].run] # o
      BY <1>3
    <3>3. proc[o].at = "fail" \/ (proc[o].at = "sync" /\ proc[o].ev = "review_ready")
      BY <2>2, <2>3, <2>6, <3>1, <3>2, Holders
    <3>. QED
      BY <3>3 DEF Lingers
  <2>. QED
    BY <2>6, <2>7
<1>. QED
  BY <1>2, <1>3

\* What a step of p may do to anything but p and its run.
Mine(p) ==
    /\ \A q \in Processes : q # p => proc'[q] = proc[q]
    /\ \A x \in Runs : lock'[x] = lock[x] \/ (lock[x] = p /\ lock'[x] = Nobody)
    /\ \A x \in Runs : x # proc[p].run =>
          log'[x] = log[x] /\ loc'[x] = loc[x] /\ maybe'[x] \in {maybe[x], {loc[x]}}

\* What it may do to its run where another process is on it.
MineOnly(p) ==
    LET r == proc[p].run
    IN \/ log'[r] = log[r] /\ loc'[r] = loc[r] /\ maybe'[r] \in {maybe[r], {loc[r]}}
       \/ ~Lingers(p) /\ (Reached(log[r], 3) => Reached(log'[r], 3))

LEMMA OthersKept ==
  ASSUME Inv, NEW p \in Processes, proc[p] # Idle, Mine(p), MineOnly(p),
         NEW q \in Processes, q # p
  PROVE  StepInv(q)'
<1>. DEFINE x == proc[q].run
            r == proc[p].run
<1>. SUFFICES ASSUME proc[q] # Idle PROVE StepInv(q)'
  BY DEF StepInv, Mine
<1>1. proc'[q] = proc[q] /\ x \in Runs /\ r \in Runs
  BY Fitting DEF Mine, Inv
<1>2. lock'[x] = q <=> lock[x] = q
  BY <1>1, CuratorAssumption DEF Mine
<1>3. /\ PrepareInv(log[x], lock[x] = q, proc[q].at, proc[q].ev, loc[x], maybe[x])
      /\ CleanInv(log[x], lock[x] = q, proc[q].at, proc[q].ev, loc[x])
      /\ DecideInv(log[x], lock[x] = q, proc[q].at, proc[q].ev, loc[x], maybe[x])
      /\ proc[q].at # "idle"
      /\ proc[q].at = "sync" => proc[q].ev \in EventNames
  BY <1>1 DEF Inv, StepInv
<1>4. loc[x] \in maybe[x]
  BY <1>1, Types DEF Inv
<1>5. CASE log'[x] = log[x] /\ loc'[x] = loc[x] /\ maybe'[x] \in {maybe[x], {loc[x]}}
  <2>1. /\ PrepareInv(log'[x], lock[x] = q, proc[q].at, proc[q].ev, loc'[x], maybe'[x])
        /\ CleanInv(log'[x], lock[x] = q, proc[q].at, proc[q].ev, loc'[x])
        /\ DecideInv(log'[x], lock[x] = q, proc[q].at, proc[q].ev, loc'[x], maybe'[x])
    <3>1. CASE maybe'[x] = maybe[x]
      BY <1>3, <1>5, <3>1, Zenon
    <3>2. CASE maybe'[x] = {loc[x]}
      <4>1. /\ PrepareInv(log[x], lock[x] = q, proc[q].at, proc[q].ev, loc[x], {loc[x]})
            /\ DecideInv(log[x], lock[x] = q, proc[q].at, proc[q].ev, loc[x], {loc[x]})
        BY <1>3, <1>4, Certain
      <4>. QED
        BY <1>3, <1>5, <3>2, <4>1, Zenon
    <3>. QED
      BY <1>5, <3>1, <3>2
  <2>2. (lock'[x] = q) = (lock[x] = q)
    BY <1>2
  <2>. QED
    BY <1>1, <1>3, <2>1, <2>2, Zenon DEF StepInv
<1>6. CASE x = r /\ ~Lingers(p) /\ (Reached(log[r], 3) => Reached(log'[r], 3))
  <2>1. Lingers(q) /\ lock[x] = p
    BY <1>6, Alone
  <2>2. lock'[x] # q
    BY <1>2, <2>1
  <2>3. proc[q].at = "sync" => Reached(log'[x], 3)
    BY <1>3, <1>6, <2>1 DEF PrepareInv, Lingers
  <2>. QED
    BY <1>1, <1>3, <2>1, <2>2, <2>3 DEF StepInv, PrepareInv, CleanInv, DecideInv, Lingers,
         CleaningSteps, PublishSteps
<1>. QED
  BY <1>1, <1>5, <1>6 DEF Mine, MineOnly

LEMMA RunKept ==
  ASSUME Inv, NEW x \in Runs, RunInv(x),
         log'[x] = log[x], loc'[x] = loc[x], maybe'[x] \in {maybe[x], {loc[x]}}
  PROVE  RunInv(x)'
<1>1. loc[x] \in maybe[x]
  BY Types DEF Inv
<1>2. CASE maybe'[x] = maybe[x]
  BY <1>2 DEF RunInv
<1>3. CASE maybe'[x] = {loc[x]}
  BY <1>1, <1>3 DEF RunInv, RunSays
<1>. QED
  BY <1>2, <1>3

\* Where p goes on, or ends.
LEMMA AloneKept ==
  ASSUME Inv, NEW p \in Processes, proc[p] # Idle, Mine(p),
         \/ proc'[p] = Idle /\ \A x \in Runs : lock'[x] # p
         \/ proc'[p] # Idle /\ proc'[p].run = proc[p].run /\ lock' = lock
  PROVE  AloneInv'
<1>1. ASSUME NEW x \in Runs, lock'[x] # Nobody
      PROVE  proc'[lock'[x]] # Idle /\ proc'[lock'[x]].run = x
  <2>1. lock'[x] = lock[x] /\ lock[x] \in Processes
    BY <1>1, Types DEF Mine, Inv
  <2>2. proc[lock[x]] # Idle /\ proc[lock[x]].run = x
    BY <1>1, <2>1 DEF Inv, AloneInv
  <2>3. CASE lock[x] = p
    BY <1>1, <2>1, <2>2, <2>3
  <2>4. CASE lock[x] # p
    BY <2>1, <2>2, <2>4 DEF Mine
  <2>. QED
    BY <2>3, <2>4
<1>2. ASSUME NEW a \in Processes, NEW b \in Processes, a # b,
             proc'[a] # Idle, proc'[b] # Idle, proc'[a].run = proc'[b].run
      PROVE  lock'[proc'[a].run] \in {a, b}
  <2>1. /\ proc[a] # Idle /\ proc'[a].run = proc[a].run
        /\ proc[b] # Idle /\ proc'[b].run = proc[b].run
    BY <1>2 DEF Mine
  <2>2. lock[proc[a].run] \in {a, b} /\ proc[a].run \in Runs
    BY <1>2, <2>1, Fitting DEF Inv, AloneInv
  <2>3. lock'[proc[a].run] = lock[proc[a].run]
    BY <1>2, <2>2 DEF Mine
  <2>. QED
    BY <2>1, <2>2, <2>3
<1>. QED
  BY <1>1, <1>2 DEF AloneInv

-----------------------------------------------------------------------------
(* The kinds of step. *)

\* TypeOK from its parts, after a step.
LEMMA TypesNext ==
  ASSUME log' \in [Runs -> Seq(Events)], sure' \in [Runs -> Nat],
         loc' \in [Runs -> Places], maybe' \in [Runs -> SUBSET Places],
         \A r \in Runs : sure'[r] <= Len(log'[r]) /\ loc'[r] \in maybe'[r],
         altered' \in [Runs -> BOOLEAN],
         proc' \in [Processes -> [at : Steps, run : Runs \cup {Nobody}, ev : EventNames \cup {"-"}]],
         lock' \in [Runs -> Processes \cup {Nobody}], mishaps' \in 0..MaxMishaps
  PROVE  TypeOK'
  BY DEF TypeOK

LEMMA ProcessTyped ==
  ASSUME TypeOK, NEW p \in Processes
  PROVE  /\ proc[p].at \in Steps /\ proc[p].run \in Runs \cup {Nobody}
         /\ proc[p].ev \in EventNames \cup {"-"}
         /\ proc \in [Processes -> [at : Steps, run : Runs \cup {Nobody}, ev : EventNames \cup {"-"}]]
  BY DEF TypeOK

LEMMA ProcTyped ==
  ASSUME TypeOK
  PROVE  proc \in [Processes -> [at : Steps, run : Runs \cup {Nobody}, ev : EventNames \cup {"-"}]]
  BY DEF TypeOK

LEMMA IdleFacts == Idle.at = "idle" /\ Idle.run = Nobody /\ Idle.ev = "-"
                   /\ Idle \in [at : Steps, run : Runs \cup {Nobody}, ev : EventNames \cup {"-"}]
  BY DEF Idle, Steps

\* What Goes and Ends do to the processes and their locks.
LEMMA GoesFacts ==
  ASSUME TypeOK, NEW p \in Processes, NEW step \in Steps \ {"idle"}, Goes(p, step)
  PROVE  /\ \A q \in Processes : q # p => proc'[q] = proc[q]
         /\ proc'[p].at = step /\ proc'[p].run = proc[p].run /\ proc'[p].ev = "-"
         /\ proc'[p] # Idle /\ lock' = lock
         /\ proc' \in [Processes -> [at : Steps, run : Runs \cup {Nobody}, ev : EventNames \cup {"-"}]]
<1>1. proc' = [proc EXCEPT ![p] = [@ EXCEPT !.at = step, !.ev = "-"]] /\ lock' = lock
  BY DEF Goes
<1>2. /\ proc \in [Processes -> [at : Steps, run : Runs \cup {Nobody}, ev : EventNames \cup {"-"}]]
  BY ProcessTyped
<1>. QED
  BY <1>1, <1>2, IdleFacts

LEMMA EndsFacts ==
  ASSUME TypeOK, NEW p \in Processes, Ends(p)
  PROVE  /\ \A q \in Processes : q # p => proc'[q] = proc[q]
         /\ proc'[p] = Idle
         /\ \A x \in Runs : lock'[x] = IF lock[x] = p THEN Nobody ELSE lock[x]
         /\ lock' \in [Runs -> Processes \cup {Nobody}]
         /\ proc' \in [Processes -> [at : Steps, run : Runs \cup {Nobody}, ev : EventNames \cup {"-"}]]
<1>1. /\ proc' = [proc EXCEPT ![p] = Idle]
      /\ lock' = [r \in Runs |-> IF lock[r] = p THEN Nobody ELSE lock[r]]
  BY DEF Ends
<1>2. /\ proc \in [Processes -> [at : Steps, run : Runs \cup {Nobody}, ev : EventNames \cup {"-"}]]
      /\ lock \in [Runs -> Processes \cup {Nobody}]
  BY Types, ProcessTyped
<1>. QED
  BY <1>1, <1>2, IdleFacts

\* Where p goes on to a step that fits, or ends.
Moves(p, s, place, places) ==
    \/ Ends(p)
    \/ \E step \in Steps : Goes(p, step) /\ Fits(p, step, "-", s, place, places)

\* p is at a new step, or idle: what Moves and an append have in common.
LEMMA ActorKept ==
  ASSUME Inv, NEW p \in Processes, proc[p] # Idle,
         Moves(p, log'[proc[p].run], loc'[proc[p].run], maybe'[proc[p].run])
  PROVE  /\ StepInv(p)'
         /\ \A q \in Processes : q # p => proc'[q] = proc[q]
         /\ \A x \in Runs : lock'[x] = lock[x] \/ (lock[x] = p /\ lock'[x] = Nobody)
         /\ \/ proc'[p] = Idle /\ \A x \in Runs : lock'[x] # p
            \/ proc'[p] # Idle /\ proc'[p].run = proc[p].run /\ lock' = lock
         /\ lock' \in [Runs -> Processes \cup {Nobody}]
         /\ proc' \in [Processes -> [at : Steps, run : Runs \cup {Nobody}, ev : EventNames \cup {"-"}]]
<1>. DEFINE r == proc[p].run
<1>0. TypeOK /\ r \in Runs /\ lock \in [Runs -> Processes \cup {Nobody}]
  BY Fitting, Types DEF Inv
<1>1. CASE Ends(p)
  <2>1. proc'[p] = Idle
    BY <1>0, <1>1, EndsFacts
  <2>2. StepInv(p)'
    BY <2>1 DEF StepInv
  <2>. QED
    BY <1>0, <1>1, <2>2, EndsFacts, CuratorAssumption
<1>2. ASSUME NEW step \in Steps, Goes(p, step),
             Fits(p, step, "-", log'[r], loc'[r], maybe'[r])
      PROVE  /\ StepInv(p)'
             /\ \A q \in Processes : q # p => proc'[q] = proc[q]
             /\ lock' = lock /\ proc'[p] # Idle /\ proc'[p].run = proc[p].run
             /\ proc' \in [Processes -> [at : Steps, run : Runs \cup {Nobody}, ev : EventNames \cup {"-"}]]
  <2>0. step \in Steps \ {"idle"}
    BY <1>2 DEF Fits
  <2>1. /\ \A q \in Processes : q # p => proc'[q] = proc[q]
        /\ proc'[p].at = step /\ proc'[p].run = r /\ proc'[p].ev = "-"
        /\ proc'[p] # Idle /\ lock' = lock
        /\ proc' \in [Processes -> [at : Steps, run : Runs \cup {Nobody}, ev : EventNames \cup {"-"}]]
    BY <1>0, <1>2, <2>0, GoesFacts
  <2>2. /\ PrepareInv(log'[r], lock'[r] = p, step, "-", loc'[r], maybe'[r])
        /\ CleanInv(log'[r], lock'[r] = p, step, "-", loc'[r])
        /\ DecideInv(log'[r], lock'[r] = p, step, "-", loc'[r], maybe'[r])
        /\ step # "idle" /\ (step = "sync" => "-" \in EventNames)
    BY <1>2, <2>1, Zenon DEF Fits
  <2>3. StepInv(p)'
    BY <1>0, <2>1, <2>2, Zenon DEF StepInv
  <2>. QED
    BY <2>1, <2>3
<1>. QED
  BY <1>0, <1>1, <1>2 DEF Moves

\* The events and the candidate stay, or the present names become certain.
Rests == log' = log /\ loc' = loc /\ maybe' = maybe
Syncs == log' = log /\ loc' = loc /\ maybe' = [r \in Runs |-> {loc[r]}]

Counted ==
    /\ sure' \in [Runs -> Nat] /\ \A r \in Runs : sure'[r] <= Len(log'[r])
    /\ altered' \in [Runs -> BOOLEAN] /\ mishaps' \in 0..MaxMishaps

LEMMA Moved ==
  ASSUME Inv, NEW p \in Processes, proc[p] # Idle, Rests \/ Syncs, Counted,
         Moves(p, log[proc[p].run], loc[proc[p].run], maybe'[proc[p].run])
  PROVE  Inv'
<1>1. /\ log' = log /\ loc' = loc
      /\ maybe' \in [Runs -> SUBSET Places]
      /\ \A x \in Runs : maybe'[x] \in {maybe[x], {loc[x]}} /\ loc[x] \in maybe'[x]
  BY Types DEF Rests, Syncs, Inv
<1>2. Moves(p, log'[proc[p].run], loc'[proc[p].run], maybe'[proc[p].run])
  BY <1>1
<1>3. /\ StepInv(p)'
      /\ \A q \in Processes : q # p => proc'[q] = proc[q]
      /\ \A x \in Runs : lock'[x] = lock[x] \/ (lock[x] = p /\ lock'[x] = Nobody)
      /\ \/ proc'[p] = Idle /\ \A x \in Runs : lock'[x] # p
         \/ proc'[p] # Idle /\ proc'[p].run = proc[p].run /\ lock' = lock
      /\ lock' \in [Runs -> Processes \cup {Nobody}]
      /\ proc' \in [Processes -> [at : Steps, run : Runs \cup {Nobody}, ev : EventNames \cup {"-"}]]
  BY <1>2, ActorKept
<1>4. Mine(p) /\ MineOnly(p)
  BY <1>1, <1>3, Fitting DEF Mine, MineOnly, Inv
<1>5. \A q \in Processes : StepInv(q)'
  BY <1>3, <1>4, OthersKept
<1>6. AloneInv'
  BY <1>3, <1>4, AloneKept
<1>7. \A x \in Runs : RunInv(x)'
  BY <1>1, RunKept DEF Inv
<1>8. TypeOK'
  BY <1>1, <1>3, Types, TypesNext DEF Inv, Counted
<1>. QED
  BY <1>5, <1>6, <1>7, <1>8 DEF Inv

\* The candidate of p's run gets another name.
LEMMA Renamed ==
  ASSUME Inv, NEW p \in Processes, proc[p] # Idle, ~Lingers(p), Counted, NEW place \in Places,
         Rename(proc[p].run, place), ~Receipted(log[proc[p].run]),
         place = "output" \/ "output" \notin maybe[proc[p].run],
         Chosen(log[proc[p].run], "APPROVE") => place \in {"candidate", "publish", "output"},
         Chosen(log[proc[p].run], "REJECT") => place \in {"candidate", "reject", "gone"},
         place # "candidate" \/ ~Reached(log[proc[p].run], 2) \/ Reached(log[proc[p].run], 4),
         Moves(p, log[proc[p].run], place, maybe[proc[p].run] \cup {place})
  PROVE  Inv'
<1>. DEFINE r == proc[p].run
<1>0. TypeOK /\ r \in Runs /\ RunInv(r)
  BY Fitting DEF Inv
<1>1. /\ log' = log
      /\ loc'[r] = place /\ maybe'[r] = maybe[r] \cup {place}
      /\ loc' \in [Runs -> Places] /\ maybe' \in [Runs -> SUBSET Places]
      /\ \A x \in Runs : x # r => loc'[x] = loc[x] /\ maybe'[x] = maybe[x]
      /\ \A x \in Runs : loc'[x] \in maybe'[x]
  BY <1>0, Types DEF Rename
<1>2. Moves(p, log'[r], loc'[r], maybe'[r])
  BY <1>1
<1>3. /\ StepInv(p)'
      /\ \A q \in Processes : q # p => proc'[q] = proc[q]
      /\ \A x \in Runs : lock'[x] = lock[x] \/ (lock[x] = p /\ lock'[x] = Nobody)
      /\ \/ proc'[p] = Idle /\ \A x \in Runs : lock'[x] # p
         \/ proc'[p] # Idle /\ proc'[p].run = proc[p].run /\ lock' = lock
      /\ lock' \in [Runs -> Processes \cup {Nobody}]
      /\ proc' \in [Processes -> [at : Steps, run : Runs \cup {Nobody}, ev : EventNames \cup {"-"}]]
  BY <1>2, ActorKept
<1>4. Mine(p) /\ MineOnly(p)
  BY <1>1, <1>3 DEF Mine, MineOnly
<1>5. \A q \in Processes : StepInv(q)'
  BY <1>3, <1>4, OthersKept
<1>6. AloneInv'
  BY <1>3, <1>4, AloneKept
<1>7. RunSays(log'[r], loc'[r], maybe'[r])
  <2>1. RunSays(log[r], loc[r], maybe[r])
    BY <1>0 DEF RunInv
  <2>. QED
    BY <1>1, <2>1 DEF RunSays
<1>8. ASSUME NEW x \in Runs PROVE RunInv(x)'
  <2>1. CASE x = r
    BY <1>7, <2>1 DEF RunInv
  <2>2. CASE x # r
    <3>1. RunInv(x) /\ log'[x] = log[x] /\ loc'[x] = loc[x] /\ maybe'[x] \in {maybe[x], {loc[x]}}
      BY <1>1, <2>2 DEF Inv
    <3>. QED
      BY <3>1, RunKept, Zenon
  <2>. QED
    BY <2>1, <2>2
<1>9. TypeOK'
  BY <1>1, <1>3, Types, TypesNext DEF Inv, Counted
<1>. QED
  BY <1>5, <1>6, <1>8, <1>9 DEF Inv

\* An event appears in p's run, and p syncs it.
LEMMA Appended ==
  ASSUME Inv, NEW p \in Processes, proc[p] # Idle, proc[p].at \in EventNames,
         NEW e \in Events, e.name = proc[p].at,
         log' = [log EXCEPT ![proc[p].run] = Append(log[proc[p].run], e)],
         loc' = loc, maybe' = maybe, sure' = sure, altered' = altered, mishaps' = mishaps,
         proc' = [proc EXCEPT ![p] = [@ EXCEPT !.at = "sync", !.ev = e.name]], lock' = lock,
         RunSays(log'[proc[p].run], loc[proc[p].run], maybe[proc[p].run]),
         Reached(log[proc[p].run], 3) => Reached(log'[proc[p].run], 3),
         Fits(p, "sync", e.name, log'[proc[p].run], loc[proc[p].run], maybe[proc[p].run])
  PROVE  Inv'
<1>. DEFINE r == proc[p].run
<1>0. TypeOK /\ r \in Runs /\ log[r] \in Seq(Events)
  BY Fitting, Types DEF Inv
<1>1. /\ log' \in [Runs -> Seq(Events)]
      /\ \A x \in Runs : x # r => log'[x] = log[x]
      /\ log'[r] = Append(log[r], e)
  BY <1>0, Types, AppendedAt
<1>2. /\ \A q \in Processes : q # p => proc'[q] = proc[q]
      /\ proc'[p].at = "sync" /\ proc'[p].run = r /\ proc'[p].ev = e.name /\ proc'[p] # Idle
      /\ proc' \in [Processes -> [at : Steps, run : Runs \cup {Nobody}, ev : EventNames \cup {"-"}]]
  <2>1. /\ proc \in [Processes -> [at : Steps, run : Runs \cup {Nobody}, ev : EventNames \cup {"-"}]]
        /\ "sync" \in Steps /\ e.name \in EventNames
    BY <1>0, ProcessTyped, EventFacts DEF Steps
  <2>. QED
    BY <2>1, IdleFacts
<1>3. StepInv(p)'
  <2>1. /\ PrepareInv(log'[r], lock'[r] = p, "sync", e.name, loc'[r], maybe'[r])
        /\ CleanInv(log'[r], lock'[r] = p, "sync", e.name, loc'[r])
        /\ DecideInv(log'[r], lock'[r] = p, "sync", e.name, loc'[r], maybe'[r])
        /\ e.name \in EventNames
    BY EventFacts, Zenon DEF Fits
  <2>. QED
    BY <1>0, <1>2, <2>1, Zenon DEF StepInv
<1>4. Mine(p)
  BY <1>1, <1>2 DEF Mine
<1>5. ~Lingers(p) /\ MineOnly(p)
  BY DEF Lingers, MineOnly, EventNames
<1>6. \A q \in Processes : StepInv(q)'
  BY <1>3, <1>4, <1>5, OthersKept
<1>7. AloneInv'
  BY <1>2, <1>4, AloneKept
<1>8. ASSUME NEW x \in Runs PROVE RunInv(x)'
  <2>1. CASE x = r
    BY <2>1 DEF RunInv
  <2>2. CASE x # r
    <3>1. RunInv(x) /\ log'[x] = log[x] /\ loc'[x] = loc[x] /\ maybe'[x] \in {maybe[x], {loc[x]}}
      BY <1>1, <2>2 DEF Inv
    <3>. QED
      BY <3>1, RunKept, Zenon
  <2>. QED
    BY <2>1, <2>2
<1>9. \A x \in Runs : sure'[x] <= Len(log'[x])
  <2>1. ASSUME NEW x \in Runs PROVE sure[x] <= Len(log'[x])
    <3>1. sure[x] <= Len(log[x]) /\ sure[x] \in Nat /\ log[x] \in Seq(Events)
      BY <1>0, Types
    <3>2. CASE x = r
      <4>1. Len(log'[x]) = Len(log[x]) + 1
        BY <1>1, <3>1, <3>2, AppendedAt
      <4>. QED
        BY <3>1, <4>1
    <3>3. CASE x # r
      BY <1>1, <3>1, <3>3
    <3>. QED
      BY <3>2, <3>3
  <2>. QED
    BY <2>1
<1>10. TypeOK'
  BY <1>0, <1>1, <1>2, <1>9, Types, TypesNext
<1>. QED
  BY <1>6, <1>7, <1>8, <1>10 DEF Inv

\* The events, the names and the processes stay.
LEMMA Watched ==
  ASSUME Inv, Rests, Counted, proc' = proc, lock' = lock
  PROVE  Inv'
<1>1. TypeOK'
  BY TypesNext, Types, ProcTyped DEF Inv, Rests, Counted
<1>2. \A x \in Runs : RunInv(x)'
  BY DEF Inv, Rests, RunInv
<1>3. ASSUME NEW p \in Processes PROVE StepInv(p)'
  BY DEF Inv, Rests, StepInv
<1>4. AloneInv'
  BY DEF Inv, AloneInv
<1>. QED
  BY <1>1, <1>2, <1>3, <1>4 DEF Inv

-----------------------------------------------------------------------------
(* What each step asks of its run. *)

\* A failure may be written, by the holder of the lock of a run that was ready
\* for review or by the one that prepares it.
MayFail(p, s) ==
    /\ ~Receipted(s)
    /\ IF lock[proc[p].run] = p THEN Reached(s, 3) ELSE ~Reached(s, 3) /\ Len(s) >= 1

LEMMA FitsFailure ==
  ASSUME NEW p, NEW s, NEW ev, NEW place, NEW places
  PROVE  Fits(p, "failure", ev, s, place, places) <=> MayFail(p, s)
  BY DEF Fits, PrepareInv, CleanInv, DecideInv, PrepareSteps, CleaningSteps, PublishSteps, MayFail,
       Steps, EventNames

LEMMA FitsClean ==
  ASSUME NEW p, NEW s, NEW ev, NEW place, NEW places, NEW step \in CleaningSteps
  PROVE  Fits(p, step, ev, s, place, places) <=>
            /\ MayFail(p, s) /\ ~Chosen(s, "APPROVE")
            /\ step = "unstage" => place = "candidate"
            /\ step \in {"unstageSync", "remove"} => place = "reject"
            /\ step = "removeSync" => place = "gone"
<1>1. /\ step \in Steps \ {"idle"} /\ step # "sync" /\ step \notin PrepareSteps
      /\ step \notin {"prompt", "decision", "finish", "receipt", "failure"} \cup PublishSteps
  BY DEF Steps, CleaningSteps, PrepareSteps, PublishSteps
<1>2. PrepareInv(s, lock[proc[p].run] = p, step, ev, place, places)
  BY <1>1 DEF PrepareInv, PrepareSteps
<1>3. DecideInv(s, lock[proc[p].run] = p, step, ev, place, places)
  BY <1>1 DEF DecideInv, PublishSteps
<1>4. CleanInv(s, lock[proc[p].run] = p, step, ev, place) <=>
            /\ MayFail(p, s) /\ ~Chosen(s, "APPROVE")
            /\ step = "unstage" => place = "candidate"
            /\ step \in {"unstageSync", "remove"} => place = "reject"
            /\ step = "removeSync" => place = "gone"
  BY <1>1 DEF CleanInv, MayFail
<1>. QED
  BY <1>1, <1>2, <1>3, <1>4 DEF Fits

\* The holder of the lock of a decided run finishes it.
MayFinish(p, s) == lock[proc[p].run] = p /\ Reached(s, 4) /\ ~Receipted(s)

LEMMA FitsFinish ==
  ASSUME NEW p, NEW s, NEW ev, NEW place, NEW places
  PROVE  /\ Fits(p, "finish", ev, s, place, places) <=> MayFinish(p, s)
         /\ Fits(p, "receipt", ev, s, place, places) <=>
               /\ MayFinish(p, s)
               /\ places = IF Chosen(s, "APPROVE") THEN {"output"} ELSE {"gone"}
  BY DEF Fits, PrepareInv, CleanInv, DecideInv, PrepareSteps, CleaningSteps, PublishSteps, MayFinish,
       Steps, EventNames

LEMMA FitsPublish ==
  ASSUME NEW p, NEW s, NEW ev, NEW place, NEW places, NEW step \in PublishSteps
  PROVE  Fits(p, step, ev, s, place, places) <=>
            /\ MayFinish(p, s) /\ Chosen(s, "APPROVE")
            /\ step = "toStage" => place = "candidate"
            /\ step \in {"stageSync", "toOutput"} => place = "publish"
            /\ step = "outputSync" => place = "output"
<1>1. /\ step \in Steps \ {"idle"} /\ step # "sync" /\ step \notin PrepareSteps
      /\ step \notin {"prompt", "decision", "finish", "receipt", "failure"} \cup CleaningSteps
  BY DEF Steps, CleaningSteps, PrepareSteps, PublishSteps
<1>2. PrepareInv(s, lock[proc[p].run] = p, step, ev, place, places)
  BY <1>1 DEF PrepareInv, PrepareSteps
<1>3. CleanInv(s, lock[proc[p].run] = p, step, ev, place)
  BY <1>1 DEF CleanInv, CleaningSteps
<1>4. DecideInv(s, lock[proc[p].run] = p, step, ev, place, places) <=>
            /\ MayFinish(p, s) /\ Chosen(s, "APPROVE")
            /\ step = "toStage" => place = "candidate"
            /\ step \in {"stageSync", "toOutput"} => place = "publish"
            /\ step = "outputSync" => place = "output"
  BY <1>1 DEF DecideInv, MayFinish
<1>. QED
  BY <1>1, <1>2, <1>3, <1>4 DEF Fits

LEMMA FitsPrompt ==
  ASSUME NEW p, NEW s, NEW ev, NEW place, NEW places, NEW step \in {"prompt", "decision"}
  PROVE  Fits(p, step, ev, s, place, places) <=>
            /\ lock[proc[p].run] = p /\ Len(s) = 3 /\ Reached(s, 3)
            /\ place = "candidate" /\ places = {"candidate"}
  BY DEF Fits, PrepareInv, CleanInv, DecideInv, PrepareSteps, CleaningSteps, PublishSteps,
       Steps, EventNames

LEMMA FitsPrepare ==
  ASSUME NEW p, NEW s, NEW ev, NEW place, NEW places
  PROVE  /\ Fits(p, "request", ev, s, place, places) <=>
               lock[proc[p].run] # p /\ s = <<>> /\ places = {"none"}
         /\ Fits(p, "commit", ev, s, place, places) <=>
               lock[proc[p].run] # p /\ Len(s) = 1 /\ places = {"none"}
         /\ Fits(p, "commitSync", ev, s, place, places) <=>
               lock[proc[p].run] # p /\ Len(s) = 1 /\ place = "candidate"
         /\ Fits(p, "candidate_ready", ev, s, place, places) <=>
               lock[proc[p].run] # p /\ Len(s) = 1 /\ places = {"candidate"}
         /\ Fits(p, "review_ready", ev, s, place, places) <=>
               lock[proc[p].run] # p /\ Len(s) = 2 /\ Reached(s, 2)
         /\ Fits(p, "fail", ev, s, place, places) <=> lock[proc[p].run] # p
<1>1. Fits(p, "request", ev, s, place, places) <=>
               lock[proc[p].run] # p /\ s = <<>> /\ places = {"none"}
  BY DEF Fits, PrepareInv, CleanInv, DecideInv, PrepareSteps, CleaningSteps, PublishSteps,
       Steps, EventNames
<1>2. Fits(p, "commit", ev, s, place, places) <=>
               lock[proc[p].run] # p /\ Len(s) = 1 /\ places = {"none"}
  BY DEF Fits, PrepareInv, CleanInv, DecideInv, PrepareSteps, CleaningSteps, PublishSteps,
       Steps, EventNames
<1>3. Fits(p, "commitSync", ev, s, place, places) <=>
               lock[proc[p].run] # p /\ Len(s) = 1 /\ place = "candidate"
  BY DEF Fits, PrepareInv, CleanInv, DecideInv, PrepareSteps, CleaningSteps, PublishSteps,
       Steps, EventNames
<1>4. Fits(p, "candidate_ready", ev, s, place, places) <=>
               lock[proc[p].run] # p /\ Len(s) = 1 /\ places = {"candidate"}
  BY DEF Fits, PrepareInv, CleanInv, DecideInv, PrepareSteps, CleaningSteps, PublishSteps,
       Steps, EventNames
<1>5. Fits(p, "review_ready", ev, s, place, places) <=>
               lock[proc[p].run] # p /\ Len(s) = 2 /\ Reached(s, 2)
  BY DEF Fits, PrepareInv, CleanInv, DecideInv, PrepareSteps, CleaningSteps, PublishSteps,
       Steps, EventNames
<1>6. Fits(p, "fail", ev, s, place, places) <=> lock[proc[p].run] # p
  BY DEF Fits, PrepareInv, CleanInv, DecideInv, PrepareSteps, CleaningSteps, PublishSteps,
       Steps, EventNames
<1>. QED
  BY <1>1, <1>2, <1>3, <1>4, <1>5, <1>6

LEMMA FitsSync ==
  ASSUME NEW p, NEW s, NEW place, NEW places
  PROVE  /\ Fits(p, "sync", "request", s, place, places) <=>
               lock[proc[p].run] # p /\ Len(s) = 1 /\ places = {"none"}
         /\ Fits(p, "sync", "candidate_ready", s, place, places) <=>
               lock[proc[p].run] # p /\ Len(s) = 2 /\ Reached(s, 2)
         /\ Fits(p, "sync", "review_ready", s, place, places) <=>
               lock[proc[p].run] # p /\ Reached(s, 3)
         /\ Fits(p, "sync", "decision", s, place, places) <=> MayFinish(p, s)
         /\ Fits(p, "sync", "receipt", s, place, places) <=>
               lock[proc[p].run] = p /\ Reached(s, 4)
         /\ Fits(p, "sync", "failure", s, place, places) <=>
               IF lock[proc[p].run] = p THEN Reached(s, 3) ELSE ~Reached(s, 3) /\ Len(s) >= 1
<1>1. Fits(p, "sync", "request", s, place, places) <=>
               lock[proc[p].run] # p /\ Len(s) = 1 /\ places = {"none"}
  BY DEF Fits, PrepareInv, CleanInv, DecideInv, PrepareSteps, CleaningSteps, PublishSteps,
       Steps, EventNames
<1>2. Fits(p, "sync", "candidate_ready", s, place, places) <=>
               lock[proc[p].run] # p /\ Len(s) = 2 /\ Reached(s, 2)
  BY DEF Fits, PrepareInv, CleanInv, DecideInv, PrepareSteps, CleaningSteps, PublishSteps,
       Steps, EventNames
<1>3. Fits(p, "sync", "review_ready", s, place, places) <=>
               lock[proc[p].run] # p /\ Reached(s, 3)
  BY DEF Fits, PrepareInv, CleanInv, DecideInv, PrepareSteps, CleaningSteps, PublishSteps,
       Steps, EventNames
<1>4. Fits(p, "sync", "decision", s, place, places) <=> MayFinish(p, s)
  BY DEF Fits, PrepareInv, CleanInv, DecideInv, PrepareSteps, CleaningSteps, PublishSteps,
       Steps, EventNames, MayFinish
<1>5. Fits(p, "sync", "receipt", s, place, places) <=>
               lock[proc[p].run] = p /\ Reached(s, 4)
  BY DEF Fits, PrepareInv, CleanInv, DecideInv, PrepareSteps, CleaningSteps, PublishSteps,
       Steps, EventNames
<1>6. Fits(p, "sync", "failure", s, place, places) <=>
               IF lock[proc[p].run] = p THEN Reached(s, 3) ELSE ~Reached(s, 3) /\ Len(s) >= 1
  BY DEF Fits, PrepareInv, CleanInv, DecideInv, PrepareSteps, CleaningSteps, PublishSteps,
       Steps, EventNames
<1>. QED
  BY <1>1, <1>2, <1>3, <1>4, <1>5, <1>6

\* What the events of p's run are known to say.
LEMMA Facts ==
  ASSUME Inv, NEW p \in Processes, NEW r, r = proc[p].run, proc[p] # Idle
  PROVE  /\ r \in Runs /\ log[r] \in Seq(Events) /\ Chain(log[r])
         /\ RunSays(log[r], loc[r], maybe[r]) /\ loc[r] \in maybe[r]
         /\ Fits(p, proc[p].at, proc[p].ev, log[r], loc[r], maybe[r])
         /\ Has(r, "request") <=> Len(log[r]) # 0
         /\ Has(r, "candidate_ready") <=> Reached(log[r], 2)
         /\ Has(r, "review_ready") <=> Reached(log[r], 3)
         /\ Has(r, "decision") <=> Reached(log[r], 4)
         /\ Has(r, "failure") <=> Failed(log[r])
         /\ Has(r, "receipt") <=> Receipted(log[r])
         /\ \A c : Decided(r, c) <=> Chosen(log[r], c)
<1>1. /\ r \in Runs /\ log[r] \in Seq(Events)
      /\ RunSays(log[r], loc[r], maybe[r]) /\ loc[r] \in maybe[r]
      /\ Fits(p, proc[p].at, proc[p].ev, log[r], loc[r], maybe[r])
  BY Fitting, Types DEF Inv, RunInv
<1>2. Chain(log[r])
  BY <1>1 DEF RunSays
<1>. QED
  BY <1>1, <1>2, HasFacts, TheFacts

LEMMA NotIdle ==
  ASSUME Inv, NEW p \in Processes
  PROVE  proc[p].at # "idle" => proc[p] # Idle
  BY IdleFacts

\* The ways the disk stays.
LEMMA MishapsCounted ==
  ASSUME Inv, UNCHANGED mishaps \/ Faulty
  PROVE  mishaps' \in 0..MaxMishaps
<1>1. mishaps \in 0..MaxMishaps /\ MaxMishaps \in Nat
  BY Types, CuratorAssumption DEF Inv
<1>. QED
  BY <1>1 DEF Faulty

LEMMA SureCounted ==
  ASSUME Inv
  PROVE  /\ sure \in [Runs -> Nat] /\ altered \in [Runs -> BOOLEAN]
         /\ \A r \in Runs : sure[r] <= Len(log[r])
  BY Types DEF Inv

LEMMA StillRests ==
  ASSUME Inv, Still, UNCHANGED altered \/ altered' \in [Runs -> BOOLEAN], UNCHANGED mishaps \/ Faulty
  PROVE  Rests /\ Counted
<1>1. mishaps' \in 0..MaxMishaps /\ altered' \in [Runs -> BOOLEAN]
  BY MishapsCounted, SureCounted
<1>2. log' = log /\ loc' = loc /\ maybe' = maybe /\ sure' = sure
  BY DEF Still
<1>. QED
  BY <1>1, <1>2, SureCounted DEF Rests, Counted

LEMMA SyncSyncs ==
  ASSUME Inv, SyncParent, UNCHANGED altered \/ altered' \in [Runs -> BOOLEAN], UNCHANGED mishaps \/ Faulty
  PROVE  Syncs /\ Counted
<1>1. mishaps' \in 0..MaxMishaps /\ altered' \in [Runs -> BOOLEAN]
  BY MishapsCounted, SureCounted
<1>2. log' = log /\ loc' = loc /\ maybe' = [r \in Runs |-> {loc[r]}] /\ sure' = sure
  BY DEF SyncParent
<1>. QED
  BY <1>1, <1>2, SureCounted DEF Syncs, Counted

LEMMA RenameCounted ==
  ASSUME Inv, NEW r, NEW place, Rename(r, place), UNCHANGED altered, UNCHANGED mishaps
  PROVE  Counted
  BY Types DEF Inv, Rename, Counted

\* Where it may write a failure, p fails or ends.
LEMMA FailsMoves ==
  ASSUME NEW p, NEW r, NEW s, NEW place, NEW places, Fails(p, r), MayFail(p, s)
  PROVE  Moves(p, s, place, places)
<1>1. Fits(p, "failure", "-", s, place, places) /\ "failure" \in Steps
  BY FitsFailure DEF Steps, EventNames
<1>. QED
  BY <1>1 DEF Fails, Moves

LEMMA GoesMoves ==
  ASSUME NEW p, NEW step \in Steps, NEW s, NEW place, NEW places, Goes(p, step),
         Fits(p, step, "-", s, place, places)
  PROVE  Moves(p, s, place, places)
  BY DEF Moves

LEMMA EndsMoves ==
  ASSUME NEW p, NEW s, NEW place, NEW places, Ends(p)
  PROVE  Moves(p, s, place, places)
  BY DEF Moves

-----------------------------------------------------------------------------
(* prepare. *)

LEMMA PrepareInvKept ==
  ASSUME Inv, NEW p \in Processes, NEW r \in Runs, Prepare(p, r)
  PROVE  Inv'
<1>1. /\ log' = log /\ sure' = sure /\ loc' = loc /\ maybe' = maybe /\ lock' = lock
      /\ altered' = altered /\ mishaps' = mishaps
      /\ proc' = [proc EXCEPT ![p] = [@ EXCEPT !.at = "request", !.run = r]]
      /\ proc[p] = Idle /\ log[r] = <<>> /\ maybe[r] = {"none"}
      /\ \A q \in Processes : proc[q].run # r
  BY DEF Prepare, Still
<1>2. /\ proc \in [Processes -> [at : Steps, run : Runs \cup {Nobody}, ev : EventNames \cup {"-"}]]
      /\ "request" \in Steps
  BY ProcTyped DEF Inv, Steps, EventNames
<1>3. /\ \A q \in Processes : q # p => proc'[q] = proc[q]
      /\ proc'[p].at = "request" /\ proc'[p].run = r /\ proc'[p] # Idle
      /\ proc' \in [Processes -> [at : Steps, run : Runs \cup {Nobody}, ev : EventNames \cup {"-"}]]
  BY <1>1, <1>2, IdleFacts
<1>4. lock[r] # p
  <2>1. lock[r] # Nobody => proc[lock[r]] # Idle
    BY DEF Inv, AloneInv
  <2>. QED
    BY <1>1, <2>1, CuratorAssumption
<1>5. StepInv(p)'
  <2>2. /\ PrepareInv(log[r], FALSE, "request", proc'[p].ev, loc[r], maybe[r])
        /\ CleanInv(log[r], FALSE, "request", proc'[p].ev, loc[r])
        /\ DecideInv(log[r], FALSE, "request", proc'[p].ev, loc[r], maybe[r])
    BY <1>1 DEF PrepareInv, CleanInv, DecideInv, PrepareSteps, CleaningSteps, PublishSteps
  <2>3. (lock'[r] = p) = FALSE
    BY <1>1, <1>4
  <2>4. /\ PrepareInv(log'[r], lock'[r] = p, "request", proc'[p].ev, loc'[r], maybe'[r])
        /\ CleanInv(log'[r], lock'[r] = p, "request", proc'[p].ev, loc'[r])
        /\ DecideInv(log'[r], lock'[r] = p, "request", proc'[p].ev, loc'[r], maybe'[r])
    BY <1>1, <2>2, <2>3, Zenon
  <2>. QED
    BY <1>3, <2>4 DEF StepInv
<1>6. ASSUME NEW q \in Processes, q # p PROVE StepInv(q)'
  <2>1. StepInv(q)
    BY DEF Inv
  <2>. QED
    BY <1>1, <1>3, <1>6, <2>1 DEF StepInv
<1>7. AloneInv'
  <2>1. ASSUME NEW x \in Runs, lock[x] # Nobody PROVE proc'[lock[x]] # Idle /\ proc'[lock[x]].run = x
    <3>1. proc[lock[x]] # Idle /\ proc[lock[x]].run = x /\ lock[x] \in Processes
      BY <2>1, Types DEF Inv, AloneInv
    <3>2. lock[x] # p
      BY <1>1, <3>1
    <3>. QED
      BY <1>3, <3>1, <3>2
  <2>2. ASSUME NEW a \in Processes, NEW b \in Processes, a # b,
               proc'[a] # Idle, proc'[b] # Idle, proc'[a].run = proc'[b].run
        PROVE  lock[proc'[a].run] \in {a, b}
    <3>1. a # p /\ b # p
      BY <1>1, <1>3, <2>2
    <3>. QED
      BY <1>3, <2>2, <3>1 DEF Inv, AloneInv
  <2>. QED
    BY <1>1, <2>1, <2>2 DEF AloneInv
<1>8. \A x \in Runs : RunInv(x)'
  BY <1>1, Zenon DEF Inv, RunInv
<1>9. TypeOK'
  BY <1>1, <1>3, Types, TypesNext DEF Inv
<1>. QED
  BY <1>5, <1>6, <1>7, <1>8, <1>9 DEF Inv

LEMMA CommitKept ==
  ASSUME Inv, NEW p \in Processes, Commit(p)
  PROVE  Inv'
<1>. DEFINE r == proc[p].run
<1>1. proc[p].at = "commit" /\ proc[p] # Idle /\ altered' = altered
  BY NotIdle DEF Commit
<1>2. /\ lock[r] # p /\ Len(log[r]) = 1 /\ maybe[r] = {"none"}
      /\ log[r] \in Seq(Events) /\ Chain(log[r])
  BY <1>1, Facts, FitsPrepare
<1>3. CASE Works /\ Rename(r, "candidate") /\ Goes(p, "commitSync")
  <2>1. Fits(p, "commitSync", "-", log[r], "candidate", maybe[r] \cup {"candidate"})
    BY <1>2, FitsPrepare
  <2>2. Moves(p, log[r], "candidate", maybe[r] \cup {"candidate"})
    BY <1>3, <2>1, GoesMoves DEF Steps
  <2>3. ~Reached(log[r], 2) /\ ~Chosen(log[r], "APPROVE") /\ ~Chosen(log[r], "REJECT") /\ ~Receipted(log[r])
    BY <1>2 DEF Reached, Chosen, Receipted
  <2>4. ~Lingers(p) /\ Counted
    BY <1>1, <1>3, RenameCounted DEF Lingers, Works
  <2>. QED
    BY <1>1, <1>2, <1>3, <2>2, <2>3, <2>4, Renamed DEF Places
<1>4. CASE Faulty /\ Still /\ Goes(p, "fail")
  <2>1. Moves(p, log[r], loc[r], maybe'[r])
    BY <1>2, <1>4, FitsPrepare, GoesMoves DEF Steps
  <2>. QED
    BY <1>1, <1>4, <2>1, StillRests, Moved
<1>. QED
  BY <1>3, <1>4 DEF Commit

LEMMA CommitSyncKept ==
  ASSUME Inv, NEW p \in Processes, CommitSync(p)
  PROVE  Inv'
<1>. DEFINE r == proc[p].run
<1>1. proc[p].at = "commitSync" /\ proc[p] # Idle /\ altered' = altered
  BY NotIdle DEF CommitSync
<1>2. lock[r] # p /\ Len(log[r]) = 1 /\ loc[r] = "candidate" /\ r \in Runs
  BY <1>1, Facts, FitsPrepare
<1>3. CASE Works /\ SyncParent /\ (Goes(p, "fail") \/ Goes(p, "candidate_ready"))
  <2>1. maybe'[r] = {"candidate"}
    BY <1>2, <1>3 DEF SyncParent
  <2>2. Moves(p, log[r], loc[r], maybe'[r])
    BY <1>2, <1>3, <2>1, FitsPrepare, GoesMoves DEF Steps, EventNames
  <2>. QED
    BY <1>1, <1>3, <2>2, SyncSyncs, Moved DEF Works
<1>4. CASE Faulty /\ Still /\ Goes(p, "fail")
  <2>1. Moves(p, log[r], loc[r], maybe'[r])
    BY <1>2, <1>4, FitsPrepare, GoesMoves DEF Steps
  <2>. QED
    BY <1>1, <1>4, <2>1, StillRests, Moved
<1>. QED
  BY <1>3, <1>4 DEF CommitSync

LEMMA FailKept ==
  ASSUME Inv, NEW p \in Processes, Fail(p)
  PROVE  Inv'
<1>. DEFINE r == proc[p].run
<1>1. /\ proc[p].at = "fail" /\ proc[p] # Idle /\ Still
      /\ altered' = altered /\ mishaps' = mishaps
  BY NotIdle DEF Fail
<1>2. /\ lock[r] # p /\ log[r] \in Seq(Events) /\ Chain(log[r])
      /\ Has(r, "request") <=> Len(log[r]) # 0
      /\ Has(r, "review_ready") <=> Reached(log[r], 3)
  BY <1>1, Facts, FitsPrepare
<1>3. CASE Has(r, "review_ready") \/ ~Has(r, "request")
  <2>1. Moves(p, log[r], loc[r], maybe'[r])
    BY <1>3, EndsMoves DEF Fail
  <2>. QED
    BY <1>1, <2>1, StillRests, Moved
<1>4. CASE ~(Has(r, "review_ready") \/ ~Has(r, "request"))
  <2>1. MayFail(p, log[r]) /\ ~Chosen(log[r], "APPROVE")
    <3>1. ~Reached(log[r], 3) /\ Len(log[r]) >= 1
      BY <1>2, <1>4
    <3>2. ~Reached(log[r], 4)
      BY <1>2, <3>1, Reaches
    <3>3. ~Receipted(log[r]) /\ ~Chosen(log[r], "APPROVE")
      BY <1>2, <3>2, Reaches
    <3>. QED
      BY <1>2, <3>1, <3>3 DEF MayFail
  <2>2. CASE loc[r] = "candidate" /\ Goes(p, "cleanup")
    <3>1. Fits(p, "cleanup", "-", log[r], loc[r], maybe'[r])
      BY <2>1, FitsClean DEF CleaningSteps
    <3>2. Moves(p, log[r], loc[r], maybe'[r])
      BY <2>2, <3>1, GoesMoves DEF Steps
    <3>. QED
      BY <1>1, <3>2, StillRests, Moved
  <2>3. CASE Fails(p, r)
    <3>1. Moves(p, log[r], loc[r], maybe'[r])
      BY <2>1, <2>3, FailsMoves
    <3>. QED
      BY <1>1, <3>1, StillRests, Moved
  <2>. QED
    BY <1>4, <2>2, <2>3 DEF Fail
<1>. QED
  BY <1>3, <1>4

-----------------------------------------------------------------------------
(* cleanup_candidate. *)

\* What holds of p and its run while a candidate is cleaned up.
LEMMA Cleaning ==
  ASSUME Inv, NEW p \in Processes, proc[p].at \in CleaningSteps, NEW r, r = proc[p].run
  PROVE  /\ proc[p] # Idle /\ ~Lingers(p)
         /\ MayFail(p, log[r]) /\ ~Chosen(log[r], "APPROVE") /\ ~Receipted(log[r])
         /\ proc[p].at = "unstage" => loc[r] = "candidate"
         /\ proc[p].at \in {"unstageSync", "remove"} => loc[r] = "reject"
         /\ proc[p].at = "removeSync" => loc[r] = "gone"
<1>1. proc[p] # Idle /\ ~Lingers(p)
  BY NotIdle DEF CleaningSteps, Lingers
<1>2. Fits(p, proc[p].at, proc[p].ev, log[r], loc[r], maybe[r])
  BY <1>1, Facts
<1>. QED
  BY <1>1, <1>2, FitsClean DEF MayFail

LEMMA CleanupKept ==
  ASSUME Inv, NEW p \in Processes, Cleanup(p)
  PROVE  Inv'
<1>. DEFINE r == proc[p].run
<1>1. proc[p].at = "cleanup" /\ "cleanup" \in CleaningSteps
  BY DEF Cleanup, CleaningSteps
<1>2. proc[p] # Idle /\ MayFail(p, log[r]) /\ ~Chosen(log[r], "APPROVE")
  BY <1>1, Cleaning
<1>3. CASE /\ loc[r] = "candidate" /\ Works /\ Still /\ UNCHANGED altered
           /\ IF altered[r] THEN Fails(p, r) ELSE Goes(p, "unstage")
  <2>1. CASE Fails(p, r)
    BY <1>2, <1>3, <2>1, FailsMoves, StillRests, Moved DEF Works
  <2>2. CASE Goes(p, "unstage")
    <3>1. Fits(p, "unstage", "-", log[r], loc[r], maybe'[r])
      BY <1>2, <1>3, FitsClean DEF CleaningSteps
    <3>2. Moves(p, log[r], loc[r], maybe'[r])
      BY <2>2, <3>1, GoesMoves DEF Steps
    <3>. QED
      BY <1>2, <1>3, <3>2, StillRests, Moved DEF Works
  <2>. QED
    BY <1>3, <2>1, <2>2
<1>4. CASE /\ loc[r] = "reject" /\ Works /\ Still
           /\ altered' = [altered EXCEPT ![r] = TRUE] /\ Goes(p, "remove")
  <2>1. Fits(p, "remove", "-", log[r], loc[r], maybe'[r])
    BY <1>2, <1>4, FitsClean DEF CleaningSteps
  <2>2. Moves(p, log[r], loc[r], maybe'[r])
    BY <1>4, <2>1, GoesMoves DEF Steps
  <2>3. altered' \in [Runs -> BOOLEAN]
    BY <1>4, SureCounted
  <2>. QED
    BY <1>2, <1>4, <2>2, <2>3, StillRests, Moved DEF Works
<1>. QED
  BY <1>3, <1>4 DEF Cleanup

\* A candidate that is cleaned up moves to a name no approval leads to.
LEMMA CleaningRenames ==
  ASSUME Inv, NEW p \in Processes, proc[p].at \in {"unstage", "remove"}, NEW r, r = proc[p].run,
         NEW place \in {"reject", "gone"}, NEW step \in CleaningSteps,
         step = "unstageSync" => place = "reject", step = "removeSync" => place = "gone",
         step \in {"unstageSync", "removeSync"},
         Works, Rename(r, place), Goes(p, step), UNCHANGED altered
  PROVE  Inv'
<1>1. /\ proc[p] # Idle /\ ~Lingers(p) /\ MayFail(p, log[r]) /\ ~Chosen(log[r], "APPROVE")
      /\ ~Receipted(log[r]) /\ loc[r] # "output"
  BY Cleaning DEF CleaningSteps
<1>2. "output" \notin maybe[r]
  BY <1>1, Facts DEF RunSays
<1>3. Fits(p, step, "-", log[r], place, maybe[r] \cup {place})
  BY <1>1, FitsClean
<1>4. Moves(p, log[r], place, maybe[r] \cup {place})
  BY <1>3, GoesMoves DEF CleaningSteps, Steps
<1>5. Counted
  BY RenameCounted DEF Works
<1>. QED
  BY <1>1, <1>2, <1>4, <1>5, Renamed DEF Places

LEMMA UnstageKept ==
  ASSUME Inv, NEW p \in Processes, Unstage(p)
  PROVE  Inv'
<1>. DEFINE r == proc[p].run
<1>1. proc[p].at = "unstage" /\ "unstageSync" \in CleaningSteps /\ proc[p].at \in CleaningSteps
  BY DEF Unstage, CleaningSteps
<1>2. CASE Works /\ Rename(r, "reject") /\ Goes(p, "unstageSync")
  <2>1. UNCHANGED altered /\ "reject" \in {"reject", "gone"} /\ proc[p].at \in {"unstage", "remove"}
    BY <1>1 DEF Unstage
  <2>. QED
    BY <1>1, <1>2, <2>1, CleaningRenames
<1>3. CASE Faulty /\ Still /\ Fails(p, r)
  BY <1>1, <1>3, Cleaning, FailsMoves, StillRests, Moved DEF Unstage
<1>. QED
  BY <1>2, <1>3 DEF Unstage

LEMMA UnstageSyncKept ==
  ASSUME Inv, NEW p \in Processes, UnstageSync(p)
  PROVE  Inv'
<1>. DEFINE r == proc[p].run
<1>1. proc[p].at = "unstageSync" /\ proc[p].at \in CleaningSteps /\ "remove" \in CleaningSteps
  BY DEF UnstageSync, CleaningSteps
<1>2. proc[p] # Idle /\ MayFail(p, log[r]) /\ ~Chosen(log[r], "APPROVE") /\ loc[r] = "reject"
  BY <1>1, Cleaning
<1>3. Fits(p, "remove", "-", log[r], loc[r], maybe'[r])
  BY <1>1, <1>2, FitsClean
<1>4. Moves(p, log[r], loc[r], maybe'[r])
  BY <1>3, GoesMoves DEF UnstageSync, Steps
<1>5. altered' \in [Runs -> BOOLEAN]
  BY SureCounted DEF UnstageSync
<1>6. CASE Works /\ SyncParent
  BY <1>2, <1>4, <1>5, <1>6, SyncSyncs, Moved DEF Works
<1>7. CASE Faulty /\ Still
  BY <1>2, <1>4, <1>5, <1>7, StillRests, Moved
<1>. QED
  BY <1>6, <1>7 DEF UnstageSync

LEMMA RemoveKept ==
  ASSUME Inv, NEW p \in Processes, Remove(p)
  PROVE  Inv'
<1>. DEFINE r == proc[p].run
<1>1. proc[p].at = "remove" /\ "removeSync" \in CleaningSteps /\ proc[p].at \in CleaningSteps
  BY DEF Remove, CleaningSteps
<1>2. CASE Works /\ Rename(r, "gone") /\ Goes(p, "removeSync")
  <2>1. UNCHANGED altered /\ "gone" \in {"reject", "gone"} /\ proc[p].at \in {"unstage", "remove"}
    BY <1>1 DEF Remove
  <2>. QED
    BY <1>1, <1>2, <2>1, CleaningRenames
<1>3. CASE Faulty /\ Still /\ Fails(p, r)
  BY <1>1, <1>3, Cleaning, FailsMoves, StillRests, Moved DEF Remove
<1>. QED
  BY <1>2, <1>3 DEF Remove

LEMMA RemoveSyncKept ==
  ASSUME Inv, NEW p \in Processes, RemoveSync(p)
  PROVE  Inv'
<1>. DEFINE r == proc[p].run
<1>1. proc[p].at = "removeSync" /\ proc[p].at \in CleaningSteps
  BY DEF RemoveSync, CleaningSteps
<1>2. proc[p] # Idle /\ MayFail(p, log[r]) /\ ~Chosen(log[r], "APPROVE") /\ loc[r] = "gone"
  BY <1>1, Cleaning
<1>3. /\ r \in Runs /\ log[r] \in Seq(Events) /\ Chain(log[r])
      /\ Has(r, "decision") <=> Reached(log[r], 4)
  BY <1>2, Facts
<1>4. CASE Works /\ SyncParent /\ CleanedUp(p, r)
  <2>1. maybe'[r] = {"gone"}
    BY <1>2, <1>3, <1>4 DEF SyncParent
  <2>2. CASE Has(r, "decision")
    <3>1. MayFinish(p, log[r])
      BY <1>2, <1>3, <2>2, Reaches DEF MayFail, MayFinish
    <3>2. Fits(p, "receipt", "-", log[r], loc[r], maybe'[r])
      BY <1>2, <2>1, <3>1, FitsFinish
    <3>3. Moves(p, log[r], loc[r], maybe'[r])
      BY <1>4, <2>2, <3>2, GoesMoves DEF CleanedUp, Steps, EventNames
    <3>. QED
      BY <1>1, <1>2, <1>4, <3>3, SyncSyncs, Moved DEF RemoveSync, Works
  <2>3. CASE ~Has(r, "decision")
    <3>1. Fits(p, "failure", "-", log[r], loc[r], maybe'[r])
      BY <1>2, FitsFailure
    <3>2. Moves(p, log[r], loc[r], maybe'[r])
      BY <1>4, <2>3, <3>1, GoesMoves DEF CleanedUp, Steps, EventNames
    <3>. QED
      BY <1>1, <1>2, <1>4, <3>2, SyncSyncs, Moved DEF RemoveSync, Works
  <2>. QED
    BY <2>2, <2>3
<1>5. CASE Faulty /\ Still /\ Fails(p, r)
  BY <1>2, <1>5, FailsMoves, StillRests, Moved DEF RemoveSync
<1>. QED
  BY <1>4, <1>5 DEF RemoveSync

-----------------------------------------------------------------------------
(* decide. *)

LEMMA DecideKept ==
  ASSUME Inv, NEW p \in Processes, NEW r \in Runs, Decide(p, r)
  PROVE  Inv'
<1>. DEFINE step == IF Has(r, "decision") THEN "finish" ELSE "prompt"
<1>1. /\ log' = log /\ sure' = sure /\ loc' = loc /\ maybe' = maybe
      /\ altered' = altered /\ mishaps' = mishaps
      /\ lock' = [lock EXCEPT ![r] = p]
      /\ proc' = [proc EXCEPT ![p] = [@ EXCEPT !.at = step, !.run = r]]
      /\ proc[p] = Idle /\ lock[r] = Nobody /\ ~Has(r, "receipt")
      /\ Has(r, "decision") \/ (Has(r, "review_ready") /\ ~Has(r, "failure") /\ Valid(r))
  BY DEF Decide, Still
<1>2. step \in {"finish", "prompt"} /\ step \in Steps
  BY DEF Steps
<1>3. TypeOK /\ log[r] \in Seq(Events) /\ RunSays(log[r], loc[r], maybe[r]) /\ Chain(log[r])
  BY Types DEF Inv, RunInv, RunSays
<1>4. /\ Has(r, "review_ready") <=> Reached(log[r], 3)
      /\ Has(r, "decision") <=> Reached(log[r], 4)
      /\ Has(r, "failure") <=> Failed(log[r])
      /\ Has(r, "receipt") <=> Receipted(log[r])
  BY <1>3, HasFacts
<1>5. Reached(log[r], 3) /\ ~Receipted(log[r])
  BY <1>1, <1>3, <1>4, Reaches
<1>6. /\ PrepareInv(log[r], TRUE, step, proc'[p].ev, loc[r], maybe[r])
      /\ CleanInv(log[r], TRUE, step, proc'[p].ev, loc[r])
      /\ DecideInv(log[r], TRUE, step, proc'[p].ev, loc[r], maybe[r])
  <2>1. CASE step = "finish"
    <3>1. Reached(log[r], 4)
      BY <1>4, <2>1
    <3>. QED
      BY <1>5, <2>1, <3>1 DEF PrepareInv, CleanInv, DecideInv, PrepareSteps, CleaningSteps, PublishSteps
  <2>2. CASE step = "prompt"
    <3>1. ~Reached(log[r], 4) /\ ~Failed(log[r]) /\ loc[r] = "candidate"
      BY <1>1, <1>4, <2>2 DEF Valid
    <3>2. Reached(log[r], 2) /\ Len(log[r]) # 0
      BY <1>3, <1>5, Reaches, ReachedThree
    <3>3. maybe[r] = {"candidate"}
      BY <1>3, <3>1, <3>2 DEF RunSays
    <3>4. Len(log[r]) = 3
      <4>1. Len(log[r]) \in {3, 4} /\ (Reached(log[r], 4) <=> Len(log[r]) = 4)
        BY <1>3, <1>5, <3>1, <3>2, OpenEnd
      <4>. QED
        BY <3>1, <4>1
    <3>. QED
      BY <1>5, <2>2, <3>1, <3>3, <3>4
      DEF PrepareInv, CleanInv, DecideInv, PrepareSteps, CleaningSteps, PublishSteps
  <2>. QED
    BY <2>1, <2>2
<1>. HIDE DEF step
<1>7. /\ \A q \in Processes : q # p => proc'[q] = proc[q]
      /\ proc'[p].at = step /\ proc'[p].run = r /\ proc'[p] # Idle
      /\ proc' \in [Processes -> [at : Steps, run : Runs \cup {Nobody}, ev : EventNames \cup {"-"}]]
  BY <1>1, <1>2, <1>3, ProcTyped, IdleFacts
<1>8. /\ lock' \in [Runs -> Processes \cup {Nobody}] /\ lock'[r] = p
      /\ \A x \in Runs : x # r => lock'[x] = lock[x]
  BY <1>1, <1>3, Types
<1>9. StepInv(p)'
  <2>1. /\ PrepareInv(log'[r], lock'[r] = p, step, proc'[p].ev, loc'[r], maybe'[r])
        /\ CleanInv(log'[r], lock'[r] = p, step, proc'[p].ev, loc'[r])
        /\ DecideInv(log'[r], lock'[r] = p, step, proc'[p].ev, loc'[r], maybe'[r])
    <3>1. (lock'[r] = p) = TRUE
      BY <1>8
    <3>. QED
      BY <1>1, <1>6, <3>1, Zenon
  <2>. QED
    BY <1>2, <1>7, <2>1 DEF StepInv
<1>10. ASSUME NEW q \in Processes, q # p PROVE StepInv(q)'
  <2>1. StepInv(q) /\ proc'[q] = proc[q]
    BY <1>7, <1>10 DEF Inv
  <2>2. CASE proc[q].run = r
    <3>1. lock[r] # q /\ lock'[r] # q
      BY <1>1, <1>8, <1>10, CuratorAssumption
    <3>. QED
      BY <1>1, <2>1, <2>2, <3>1 DEF StepInv
  <2>3. CASE proc[q].run # r
    <3>1. proc[q] # Idle => lock'[proc[q].run] = lock[proc[q].run]
      BY <1>8, <2>1, <2>3 DEF StepInv
    <3>. QED
      BY <1>1, <2>1, <2>3, <3>1 DEF StepInv
  <2>. QED
    BY <2>2, <2>3
<1>11. AloneInv'
  <2>1. ASSUME NEW x \in Runs, lock'[x] # Nobody PROVE proc'[lock'[x]] # Idle /\ proc'[lock'[x]].run = x
    <3>1. CASE x = r
      BY <1>7, <1>8, <3>1
    <3>2. CASE x # r
      <4>1. lock'[x] = lock[x] /\ proc[lock[x]] # Idle /\ proc[lock[x]].run = x /\ lock[x] \in Processes
        BY <1>3, <1>8, <2>1, <3>2, Types DEF Inv, AloneInv
      <4>2. lock[x] # p
        BY <1>1, <4>1
      <4>. QED
        BY <1>7, <4>1, <4>2
    <3>. QED
      BY <3>1, <3>2
  <2>2. ASSUME NEW a \in Processes, NEW b \in Processes, a # b,
               proc'[a] # Idle, proc'[b] # Idle, proc'[a].run = proc'[b].run
        PROVE  lock'[proc'[a].run] \in {a, b}
    <3>1. CASE proc'[a].run = r
      <4>1. CASE a = p \/ b = p
        BY <1>8, <3>1, <4>1
      <4>2. CASE a # p /\ b # p
        <5>1. proc[a] # Idle /\ proc[b] # Idle /\ proc[a].run = r /\ proc[b].run = r
          BY <1>7, <2>2, <3>1, <4>2
        <5>2. lock[r] \in {a, b}
          BY <2>2, <5>1 DEF Inv, AloneInv
        <5>. QED
          BY <1>1, <5>2, CuratorAssumption
      <4>. QED
        BY <4>1, <4>2
    <3>2. CASE proc'[a].run # r
      <4>1. a # p /\ b # p
        BY <1>7, <2>2, <3>2
      <4>2. proc[a] # Idle /\ proc[b] # Idle /\ proc[a].run = proc[b].run /\ proc'[a] = proc[a]
        BY <1>7, <2>2, <4>1
      <4>3. lock[proc[a].run] \in {a, b} /\ proc[a].run \in Runs
        BY <2>2, <4>2, Fitting DEF Inv, AloneInv
      <4>. QED
        BY <1>8, <3>2, <4>2, <4>3
    <3>. QED
      BY <3>1, <3>2
  <2>. QED
    BY <2>1, <2>2 DEF AloneInv
<1>12. \A x \in Runs : RunInv(x)'
  BY <1>1, Zenon DEF Inv, RunInv
<1>13. TypeOK'
  BY <1>1, <1>3, <1>7, <1>8, Types, TypesNext
<1>. QED
  BY <1>9, <1>10, <1>11, <1>12, <1>13 DEF Inv

LEMMA ReplayKept ==
  ASSUME Inv, NEW p \in Processes, NEW r \in Runs, Replay(p, r)
  PROVE  Inv'
<1>1. Rests /\ proc' = proc /\ lock' = lock
  BY DEF Replay, Rests
<1>2. Counted
  <2>1. /\ sure' = [sure EXCEPT ![r] = Len(log[r])] /\ log' = log
        /\ altered' = altered /\ mishaps' = mishaps
    BY DEF Replay
  <2>2. Len(log[r]) \in Nat
    BY Types DEF Inv
  <2>3. sure' \in [Runs -> Nat] /\ \A x \in Runs : sure'[x] = IF x = r THEN Len(log[r]) ELSE sure[x]
    BY <2>1, <2>2, SureCounted
  <2>4. \A x \in Runs : sure'[x] <= Len(log'[x])
    BY <2>1, <2>2, <2>3, SureCounted
  <2>. QED
    BY <2>1, <2>3, <2>4, SureCounted, MishapsCounted DEF Counted
<1>. QED
  BY <1>1, <1>2, Watched

LEMMA PromptKept ==
  ASSUME Inv, NEW p \in Processes, Prompt(p)
  PROVE  Inv'
<1>. DEFINE r == proc[p].run
<1>1. /\ proc[p].at = "prompt" /\ proc[p] # Idle /\ Still
      /\ altered' = altered /\ mishaps' = mishaps
  BY NotIdle DEF Prompt
<1>2. /\ lock[r] = p /\ Len(log[r]) = 3 /\ Reached(log[r], 3)
      /\ loc[r] = "candidate" /\ maybe[r] = {"candidate"}
      /\ log[r] \in Seq(Events) /\ Chain(log[r])
  BY <1>1, Facts, FitsPrompt
<1>3. maybe' = maybe /\ Rests /\ Counted
  BY <1>1, StillRests DEF Still
<1>4. MayFail(p, log[r]) /\ ~Chosen(log[r], "APPROVE")
  BY <1>2 DEF MayFail, Receipted, Chosen, Reached
<1>5. CASE Ends(p)
  BY <1>1, <1>3, <1>5, EndsMoves, Moved
<1>6. CASE Goes(p, "decision")
  <2>1. Fits(p, "decision", "-", log[r], loc[r], maybe'[r])
    BY <1>2, <1>3, FitsPrompt
  <2>2. Moves(p, log[r], loc[r], maybe'[r])
    BY <1>6, <2>1, GoesMoves DEF Steps, EventNames
  <2>. QED
    BY <1>1, <1>3, <2>2, Moved
<1>7. CASE Goes(p, "cleanup")
  <2>1. Fits(p, "cleanup", "-", log[r], loc[r], maybe'[r])
    BY <1>4, FitsClean DEF CleaningSteps
  <2>2. Moves(p, log[r], loc[r], maybe'[r])
    BY <1>7, <2>1, GoesMoves DEF Steps
  <2>. QED
    BY <1>1, <1>3, <2>2, Moved
<1>8. CASE Goes(p, "failure")
  <2>1. Fits(p, "failure", "-", log[r], loc[r], maybe'[r])
    BY <1>4, FitsFailure
  <2>2. Moves(p, log[r], loc[r], maybe'[r])
    BY <1>8, <2>1, GoesMoves DEF Steps, EventNames
  <2>. QED
    BY <1>1, <1>3, <2>2, Moved
<1>. QED
  BY <1>2, <1>5, <1>6, <1>7, <1>8 DEF Prompt

-----------------------------------------------------------------------------
(* The recorded decision is finished. *)

\* What holds of p and its run while the decision is finished.
LEMMA Finishing ==
  ASSUME Inv, NEW p \in Processes, proc[p].at \in PublishSteps \cup {"finish", "receipt"},
         NEW r, r = proc[p].run
  PROVE  /\ proc[p] # Idle /\ ~Lingers(p) /\ MayFinish(p, log[r]) /\ MayFail(p, log[r])
         /\ proc[p].at \in PublishSteps => Chosen(log[r], "APPROVE")
         /\ proc[p].at = "toStage" => loc[r] = "candidate"
         /\ proc[p].at \in {"stageSync", "toOutput"} => loc[r] = "publish"
         /\ proc[p].at = "outputSync" => loc[r] = "output"
         /\ \A c : Decided(r, c) <=> Chosen(log[r], c)
         /\ ~(Chosen(log[r], "APPROVE") /\ Chosen(log[r], "REJECT"))
         /\ RunSays(log[r], loc[r], maybe[r]) /\ loc[r] \in maybe[r] /\ r \in Runs
<1>1. proc[p] # Idle /\ ~Lingers(p)
  BY NotIdle DEF PublishSteps, Lingers
<1>2. /\ Fits(p, proc[p].at, proc[p].ev, log[r], loc[r], maybe[r])
      /\ log[r] \in Seq(Events) /\ Chain(log[r])
      /\ RunSays(log[r], loc[r], maybe[r]) /\ loc[r] \in maybe[r] /\ r \in Runs
      /\ \A c : Decided(r, c) <=> Chosen(log[r], c)
  BY <1>1, Facts
<1>3. ~(Chosen(log[r], "APPROVE") /\ Chosen(log[r], "REJECT"))
  BY <1>2, Reaches
<1>4. MayFinish(p, log[r])
  <2>1. CASE proc[p].at \in PublishSteps
    BY <1>2, <2>1, FitsPublish
  <2>2. CASE proc[p].at \in {"finish", "receipt"}
    BY <1>2, <2>2, FitsFinish
  <2>. QED
    BY <2>1, <2>2
<1>5. MayFail(p, log[r])
  BY <1>2, <1>4, Reaches DEF MayFail, MayFinish
<1>6. proc[p].at \in PublishSteps =>
         /\ Chosen(log[r], "APPROVE")
         /\ proc[p].at = "toStage" => loc[r] = "candidate"
         /\ proc[p].at \in {"stageSync", "toOutput"} => loc[r] = "publish"
         /\ proc[p].at = "outputSync" => loc[r] = "output"
  BY <1>2, FitsPublish
<1>. QED
  BY <1>1, <1>2, <1>3, <1>4, <1>5, <1>6 DEF PublishSteps

LEMMA FinishCompletedKept ==
  ASSUME Inv, NEW p \in Processes, FinishCompleted(p)
  PROVE  Inv'
<1>. DEFINE r == proc[p].run
<1>1. proc[p].at = "finish" /\ altered' = altered
  BY DEF FinishCompleted
<1>2. /\ proc[p] # Idle /\ MayFinish(p, log[r])
      /\ \A c : Decided(r, c) <=> Chosen(log[r], c)
      /\ ~(Chosen(log[r], "APPROVE") /\ Chosen(log[r], "REJECT"))
      /\ RunSays(log[r], loc[r], maybe[r]) /\ loc[r] \in maybe[r] /\ r \in Runs
  BY <1>1, Finishing
<1>3. CASE Works /\ SyncParent /\ Goes(p, "receipt")
  <2>1. maybe'[r] = {loc[r]}
    BY <1>2, <1>3 DEF SyncParent
  <2>2. {loc[r]} = IF Chosen(log[r], "APPROVE") THEN {"output"} ELSE {"gone"}
    <3>1. CASE Decided(r, "REJECT") /\ loc[r] \notin {"candidate", "reject", "publish", "output"}
      <4>1. maybe[r] \subseteq {"candidate", "reject", "gone"} /\ ~Chosen(log[r], "APPROVE")
        BY <1>2, <3>1 DEF RunSays
      <4>2. loc[r] = "gone"
        BY <1>2, <3>1, <4>1
      <4>. QED
        BY <4>1, <4>2
    <3>2. CASE Decided(r, "APPROVE") /\ loc[r] = "output"
      BY <1>2, <3>2
    <3>. QED
      BY <3>1, <3>2 DEF FinishCompleted
  <2>3. Fits(p, "receipt", "-", log[r], loc[r], maybe'[r])
    BY <1>2, <2>1, <2>2, FitsFinish
  <2>4. Moves(p, log[r], loc[r], maybe'[r])
    BY <1>3, <2>3, GoesMoves DEF Steps, EventNames
  <2>. QED
    BY <1>1, <1>2, <1>3, <2>4, SyncSyncs, Moved DEF Works
<1>4. CASE Faulty /\ Still /\ Ends(p)
  BY <1>1, <1>2, <1>4, EndsMoves, StillRests, Moved
<1>. QED
  BY <1>3, <1>4 DEF FinishCompleted

LEMMA FinishActionKept ==
  ASSUME Inv, NEW p \in Processes, FinishAction(p)
  PROVE  Inv'
<1>. DEFINE r == proc[p].run
<1>1. proc[p].at = "finish" /\ altered' = altered /\ Still
  BY DEF FinishAction
<1>2. /\ proc[p] # Idle /\ MayFinish(p, log[r]) /\ MayFail(p, log[r])
      /\ \A c : Decided(r, c) <=> Chosen(log[r], c)
      /\ ~(Chosen(log[r], "APPROVE") /\ Chosen(log[r], "REJECT"))
  BY <1>1, Finishing
<1>3. CASE Decided(r, "REJECT") /\ loc[r] \in {"candidate", "reject"} /\ Goes(p, "cleanup") /\ Works
  <2>1. Fits(p, "cleanup", "-", log[r], loc[r], maybe'[r])
    BY <1>2, <1>3, FitsClean DEF CleaningSteps
  <2>2. Moves(p, log[r], loc[r], maybe'[r])
    BY <1>3, <2>1, GoesMoves DEF Steps
  <2>. QED
    BY <1>1, <1>2, <1>3, <2>2, StillRests, Moved DEF Works
<1>4. CASE Decided(r, "APPROVE") /\ loc[r] \in {"candidate", "publish"}
           /\ Goes(p, IF loc[r] = "candidate" THEN "toStage" ELSE "toOutput") /\ Works
  <2>. DEFINE step == IF loc[r] = "candidate" THEN "toStage" ELSE "toOutput"
  <2>0. step \in PublishSteps /\ step \in Steps
    BY DEF PublishSteps, Steps
  <2>1. /\ step = "toStage" => loc[r] = "candidate"
        /\ step \in {"stageSync", "toOutput"} => loc[r] = "publish"
        /\ step # "outputSync"
    BY <1>4
  <2>. HIDE DEF step
  <2>2. Fits(p, step, "-", log[r], loc[r], maybe'[r])
    BY <1>2, <1>4, <2>0, <2>1, FitsPublish
  <2>3. Moves(p, log[r], loc[r], maybe'[r])
    BY <1>4, <2>0, <2>2, GoesMoves DEF step
  <2>. QED
    BY <1>1, <1>2, <1>4, <2>3, StillRests, Moved DEF Works
<1>5. CASE Fails(p, r) /\ (Works \/ Faulty)
  BY <1>1, <1>2, <1>5, FailsMoves, StillRests, Moved DEF Works
<1>. QED
  BY <1>3, <1>4, <1>5 DEF FinishAction

LEMMA FinishRefusesKept ==
  ASSUME Inv, NEW p \in Processes, FinishRefuses(p)
  PROVE  Inv'
<1>1. /\ proc[p] # Idle /\ Still /\ altered' = altered /\ mishaps' = mishaps /\ Ends(p)
  BY NotIdle DEF FinishRefuses
<1>. QED
  BY <1>1, EndsMoves, StillRests, Moved

\* A candidate that is published moves to a name no reject leads to.
LEMMA PublishRenames ==
  ASSUME Inv, NEW p \in Processes, proc[p].at \in PublishSteps, NEW r, r = proc[p].run,
         NEW place \in {"candidate", "publish", "output"}, NEW step \in PublishSteps,
         step = "toStage" => place = "candidate",
         step \in {"stageSync", "toOutput"} => place = "publish",
         step = "outputSync" => place = "output",
         place = "output" \/ loc[r] # "output",
         Works, Rename(r, place), Goes(p, step), UNCHANGED altered
  PROVE  Inv'
<1>1. /\ proc[p] # Idle /\ ~Lingers(p) /\ MayFinish(p, log[r]) /\ Chosen(log[r], "APPROVE")
      /\ ~Chosen(log[r], "REJECT") /\ RunSays(log[r], loc[r], maybe[r])
  BY Finishing
<1>2. place = "output" \/ "output" \notin maybe[r]
  BY <1>1 DEF RunSays
<1>3. ~Receipted(log[r]) /\ Reached(log[r], 4)
  BY <1>1 DEF MayFinish
<1>4. Fits(p, step, "-", log[r], place, maybe[r] \cup {place})
  BY <1>1, FitsPublish
<1>5. Moves(p, log[r], place, maybe[r] \cup {place})
  BY <1>4, GoesMoves DEF PublishSteps, Steps
<1>6. Counted /\ place \in Places
  BY RenameCounted DEF Works, Places
<1>. QED
  BY <1>1, <1>2, <1>3, <1>5, <1>6, Renamed

\* Its error path undoes the stage.
LEMMA PublishUndone ==
  ASSUME Inv, NEW p \in Processes, proc[p].at \in PublishSteps, Still, Goes(p, "undo"),
         UNCHANGED altered, Works \/ Faulty
  PROVE  Inv'
<1>. DEFINE r == proc[p].run
<1>1. proc[p] # Idle /\ MayFinish(p, log[r]) /\ Chosen(log[r], "APPROVE")
  BY Finishing
<1>2. Fits(p, "undo", "-", log[r], loc[r], maybe'[r])
  BY <1>1, FitsPublish DEF PublishSteps
<1>3. Moves(p, log[r], loc[r], maybe'[r])
  BY <1>2, GoesMoves DEF Steps
<1>. QED
  BY <1>1, <1>3, StillRests, Moved DEF Works

LEMMA ToStageKept ==
  ASSUME Inv, NEW p \in Processes, ToStage(p)
  PROVE  Inv'
<1>. DEFINE r == proc[p].run
<1>1. proc[p].at = "toStage" /\ proc[p].at \in PublishSteps /\ "stageSync" \in PublishSteps
  BY DEF ToStage, PublishSteps
<1>2. loc[r] = "candidate" /\ UNCHANGED altered
  BY <1>1, Finishing DEF ToStage
<1>3. CASE Works /\ Rename(r, "publish") /\ Goes(p, "stageSync")
  BY <1>1, <1>2, <1>3, PublishRenames
<1>4. CASE Faulty /\ Still /\ Goes(p, "undo")
  BY <1>1, <1>2, <1>4, PublishUndone
<1>. QED
  BY <1>3, <1>4 DEF ToStage

LEMMA StageSyncKept ==
  ASSUME Inv, NEW p \in Processes, StageSync(p)
  PROVE  Inv'
<1>. DEFINE r == proc[p].run
<1>1. proc[p].at = "stageSync" /\ proc[p].at \in PublishSteps /\ "toOutput" \in PublishSteps
  BY DEF StageSync, PublishSteps
<1>2. /\ proc[p] # Idle /\ MayFinish(p, log[r]) /\ Chosen(log[r], "APPROVE")
      /\ loc[r] = "publish" /\ UNCHANGED altered
  BY <1>1, Finishing DEF StageSync
<1>3. CASE Works /\ SyncParent /\ Goes(p, "toOutput")
  <2>1. Fits(p, "toOutput", "-", log[r], loc[r], maybe'[r])
    BY <1>1, <1>2, FitsPublish
  <2>2. Moves(p, log[r], loc[r], maybe'[r])
    BY <1>3, <2>1, GoesMoves DEF Steps
  <2>. QED
    BY <1>2, <1>3, <2>2, SyncSyncs, Moved DEF Works
<1>4. CASE Faulty /\ Still /\ Goes(p, "undo")
  BY <1>1, <1>2, <1>4, PublishUndone
<1>. QED
  BY <1>3, <1>4 DEF StageSync

LEMMA ToOutputKept ==
  ASSUME Inv, NEW p \in Processes, ToOutput(p)
  PROVE  Inv'
<1>. DEFINE r == proc[p].run
<1>1. proc[p].at = "toOutput" /\ proc[p].at \in PublishSteps /\ "outputSync" \in PublishSteps
  BY DEF ToOutput, PublishSteps
<1>2. UNCHANGED altered
  BY DEF ToOutput
<1>3. CASE Works /\ Rename(r, "output") /\ Goes(p, "outputSync")
  BY <1>1, <1>2, <1>3, PublishRenames
<1>4. CASE Still /\ Goes(p, "undo") /\ (Works \/ Faulty)
  BY <1>1, <1>2, <1>4, PublishUndone
<1>. QED
  BY <1>3, <1>4 DEF ToOutput

LEMMA OutputSyncKept ==
  ASSUME Inv, NEW p \in Processes, OutputSync(p)
  PROVE  Inv'
<1>. DEFINE r == proc[p].run
<1>1. proc[p].at = "outputSync" /\ proc[p].at \in PublishSteps
  BY DEF OutputSync, PublishSteps
<1>2. /\ proc[p] # Idle /\ MayFinish(p, log[r]) /\ Chosen(log[r], "APPROVE")
      /\ loc[r] = "output" /\ UNCHANGED altered /\ r \in Runs
  BY <1>1, Finishing DEF OutputSync
<1>3. CASE Works /\ SyncParent /\ Goes(p, "receipt")
  <2>1. maybe'[r] = {"output"}
    BY <1>2, <1>3 DEF SyncParent
  <2>2. Fits(p, "receipt", "-", log[r], loc[r], maybe'[r])
    BY <1>2, <2>1, FitsFinish
  <2>3. Moves(p, log[r], loc[r], maybe'[r])
    BY <1>3, <2>2, GoesMoves DEF Steps, EventNames
  <2>. QED
    BY <1>2, <1>3, <2>3, SyncSyncs, Moved DEF Works
<1>4. CASE Faulty /\ Still /\ Goes(p, "undo")
  BY <1>1, <1>2, <1>4, PublishUndone
<1>. QED
  BY <1>3, <1>4 DEF OutputSync

LEMMA UndoKept ==
  ASSUME Inv, NEW p \in Processes, Undo(p)
  PROVE  Inv'
<1>. DEFINE r == proc[p].run
<1>1. proc[p].at = "undo" /\ proc[p].at \in PublishSteps /\ "undoSync" \in PublishSteps
  BY DEF Undo, PublishSteps
<1>2. UNCHANGED altered /\ proc[p] # Idle /\ MayFail(p, log[r])
  BY <1>1, Finishing DEF Undo
<1>3. CASE loc[r] = "publish" /\ Works /\ Rename(r, "candidate") /\ Goes(p, "undoSync")
  BY <1>1, <1>2, <1>3, PublishRenames
<1>4. CASE Still /\ Fails(p, r) /\ (Works \/ Faulty)
  BY <1>2, <1>4, FailsMoves, StillRests, Moved DEF Works
<1>. QED
  BY <1>3, <1>4 DEF Undo

LEMMA UndoSyncKept ==
  ASSUME Inv, NEW p \in Processes, UndoSync(p)
  PROVE  Inv'
<1>. DEFINE r == proc[p].run
<1>1. proc[p].at = "undoSync" /\ proc[p].at \in PublishSteps
  BY DEF UndoSync, PublishSteps
<1>2. UNCHANGED altered /\ proc[p] # Idle /\ MayFail(p, log[r]) /\ Fails(p, r)
  BY <1>1, Finishing DEF UndoSync
<1>3. Moves(p, log[r], loc[r], maybe'[r])
  BY <1>2, FailsMoves
<1>4. CASE Works /\ SyncParent
  BY <1>2, <1>3, <1>4, SyncSyncs, Moved DEF Works
<1>5. CASE Faulty /\ Still
  BY <1>2, <1>3, <1>5, StillRests, Moved
<1>. QED
  BY <1>4, <1>5 DEF UndoSync

-----------------------------------------------------------------------------
(* append_event. *)

LEMMA NextPlace ==
  ASSUME NEW k \in {1, 2, 3}
  PROVE  k + 1 \in 2..4 /\ (k + 1) - 1 = k /\ k <= 5 /\ k # 0 /\ ~(k >= 4)
  OBVIOUS

\* The next event in order, where k of them stand.
LEMMA AppendNext ==
  ASSUME NEW s \in Seq(Events), Chain(s), NEW e \in Events, NEW k \in {1, 2, 3},
         Len(s) = k, s[k].name = ORDER[k], e.name = ORDER[k + 1], e.after = ORDER[k]
  PROVE  /\ Append(s, e) \in Seq(Events) /\ Chain(Append(s, e)) /\ Len(Append(s, e)) = k + 1
         /\ Append(s, e)[k + 1] = e
         /\ ~Receipted(Append(s, e))
<1>1. k + 1 \in 2..4 /\ (k + 1) - 1 = k /\ ~(k >= 4)
  BY NextPlace
<1>2. /\ Len(s) = (k + 1) - 1 /\ s[(k + 1) - 1].name = ORDER[(k + 1) - 1]
      /\ e.after = ORDER[(k + 1) - 1]
  BY <1>1, Zenon
<1>3. Chain(Append(s, e))
  BY <1>1, <1>2, AppendOrdered, Zenon
<1>4. Append(s, e) \in Seq(Events) /\ Len(Append(s, e)) = k + 1 /\ Append(s, e)[k + 1] = e
  BY AppendedAt, Zenon
<1>5. ~Receipted(Append(s, e))
  <2>1. 2 \in 2..4
    OBVIOUS
  <2>2. Receipted(Append(s, e)) <=> Len(s) >= 4 /\ e.name = "receipt"
    BY <2>1, ReachedAppend, Zenon
  <2>. QED
    BY <1>1, <2>2, Zenon
<1>. QED
  BY <1>3, <1>4, <1>5, Zenon

\* What a chain of so many events says.
LEMMA ShortFacts ==
  ASSUME NEW t, Len(t) \in {0, 1, 2, 3}
  PROVE  ~Reached(t, 4) /\ \A c : ~Chosen(t, c)
<1>1. ~(0 >= 4) /\ ~(1 >= 4) /\ ~(2 >= 4) /\ ~(3 >= 4)
  OBVIOUS
<1>2. ~(Len(t) >= 4)
  BY <1>1, Zenon
<1>. QED
  BY <1>2, Zenon DEF Reached, Chosen

LEMMA AppendFirst ==
  ASSUME NEW s \in Seq(Events), Chain(s), s = <<>>, NEW e \in Events,
         e.name = "request", e.after = "-"
  PROVE  /\ Chain(Append(s, e)) /\ Len(Append(s, e)) = 1
         /\ ~Reached(Append(s, e), 2) /\ ~Receipted(Append(s, e))
<1>1. Len(s) = 0 /\ 0 + 1 = 1 /\ 0 <= 5 /\ ~(1 >= 2) /\ ~(0 >= 4) /\ 2 \in 2..4
  OBVIOUS
<1>2. Len(Append(s, e)) = 1
  BY <1>1, AppendedAt, Zenon
<1>3. Chain(Append(s, e))
  BY <1>1, ChainAppend
<1>4. ~Reached(Append(s, e), 2)
  BY <1>1, <1>2, Zenon DEF Reached
<1>5. Receipted(Append(s, e)) <=> Len(s) >= 4 /\ e.name = "receipt"
  BY <1>1, ReachedAppend, Zenon
<1>. QED
  BY <1>1, <1>2, <1>3, <1>4, <1>5, Zenon

LEMMA AppendSecond ==
  ASSUME NEW s \in Seq(Events), Chain(s), Len(s) = 1, NEW e \in Events,
         e.name = "candidate_ready", e.after = "request"
  PROVE  /\ Chain(Append(s, e)) /\ Len(Append(s, e)) = 2
         /\ Reached(Append(s, e), 2) /\ ~Receipted(Append(s, e))
<1>1. /\ ORDER[1] = "request" /\ ORDER[2] = "candidate_ready" /\ 1 + 1 = 2
      /\ 1 \in {1, 2, 3} /\ 1 >= 1 /\ 2 >= 2
  BY DEF ORDER
<1>2. s[1].name = "request"
  BY <1>1, Zenon DEF Chain
<1>3. /\ Chain(Append(s, e)) /\ Len(Append(s, e)) = 1 + 1 /\ Append(s, e)[1 + 1] = e
      /\ ~Receipted(Append(s, e))
  <2>1. s[1].name = ORDER[1] /\ e.name = ORDER[1 + 1] /\ e.after = ORDER[1]
    BY <1>1, <1>2, Zenon
  <2>. QED
    BY <1>1, <2>1, AppendNext, Zenon
<1>4. Len(Append(s, e)) = 2 /\ Append(s, e)[2] = e
  BY <1>1, <1>3, Zenon
<1>. QED
  BY <1>1, <1>3, <1>4, Zenon DEF Reached

LEMMA AppendThird ==
  ASSUME NEW s \in Seq(Events), Chain(s), Len(s) = 2, Reached(s, 2), NEW e \in Events,
         e.name = "review_ready", e.after = "candidate_ready"
  PROVE  /\ Chain(Append(s, e)) /\ Len(Append(s, e)) = 3
         /\ Reached(Append(s, e), 3) /\ ~Receipted(Append(s, e))
<1>1. /\ ORDER[2] = "candidate_ready" /\ ORDER[3] = "review_ready" /\ 2 + 1 = 3
      /\ 2 \in {1, 2, 3} /\ 3 >= 3
  BY DEF ORDER
<1>3. /\ Chain(Append(s, e)) /\ Len(Append(s, e)) = 2 + 1 /\ Append(s, e)[2 + 1] = e
      /\ ~Receipted(Append(s, e))
  <2>1. s[2].name = ORDER[2] /\ e.name = ORDER[2 + 1] /\ e.after = ORDER[2]
    BY <1>1, Zenon DEF Reached
  <2>. QED
    BY <1>1, <2>1, AppendNext, Zenon
<1>4. Len(Append(s, e)) = 3 /\ Append(s, e)[3] = e
  BY <1>1, <1>3, Zenon
<1>. QED
  BY <1>1, <1>3, <1>4, Zenon DEF Reached

LEMMA AppendFourth ==
  ASSUME NEW s \in Seq(Events), Chain(s), Len(s) = 3, Reached(s, 3), NEW e \in Events,
         e.name = "decision", e.after = "review_ready"
  PROVE  /\ Chain(Append(s, e)) /\ Len(Append(s, e)) = 4
         /\ Reached(Append(s, e), 4) /\ ~Receipted(Append(s, e))
<1>1. /\ ORDER[3] = "review_ready" /\ ORDER[4] = "decision" /\ 3 + 1 = 4
      /\ 3 \in {1, 2, 3} /\ 4 >= 4
  BY DEF ORDER
<1>3. /\ Chain(Append(s, e)) /\ Len(Append(s, e)) = 3 + 1 /\ Append(s, e)[3 + 1] = e
      /\ ~Receipted(Append(s, e))
  <2>1. s[3].name = ORDER[3] /\ e.name = ORDER[3 + 1] /\ e.after = ORDER[3]
    BY <1>1, Zenon DEF Reached
  <2>. QED
    BY <1>1, <2>1, AppendNext, Zenon
<1>4. Len(Append(s, e)) = 4 /\ Append(s, e)[4] = e
  BY <1>1, <1>3, Zenon
<1>. QED
  BY <1>1, <1>3, <1>4, Zenon DEF Reached

\* An event of another name changes nothing that was reached.
LEMMA AppendOther ==
  ASSUME NEW s \in Seq(Events), NEW e \in Events, e.name \in {"failure", "receipt"},
         Len(s) # 3 \/ e.name = "failure"
  PROVE  /\ \A n \in 2..4 : Reached(Append(s, e), n) <=> Reached(s, n)
         /\ \A c : Chosen(Append(s, e), c) <=> Chosen(s, c)
         /\ Receipted(Append(s, e)) <=> Len(s) >= 4 /\ e.name = "receipt"
<1>1. \A n \in 2..4 : e.name # ORDER[n]
  BY DEF ORDER
<1>2. ASSUME NEW n \in 2..4
      PROVE  Reached(Append(s, e), n) <=> Reached(s, n)
  <2>1. Reached(Append(s, e), n) <=> Reached(s, n) \/ (Len(s) = n - 1 /\ e.name = ORDER[n])
    BY ReachedAppend, Zenon
  <2>. QED
    BY <1>1, <2>1, Zenon
<1>3. 2 \in 2..4 /\ e.name # "decision" /\ 3 \in {0, 1, 2, 3}
  OBVIOUS
<1>4. \A c : Chosen(Append(s, e), c) <=> Chosen(s, c)
  <2>1. CASE Len(s) = 3
    <3>1. \A c : Chosen(Append(s, e), c) <=> e.name = "decision" /\ e.says = c
      BY <1>3, <2>1, ReachedAppend, Zenon
    <3>2. Len(s) \in {0, 1, 2, 3}
      BY <2>1
    <3>3. \A c : ~Chosen(s, c)
      BY <3>2, ShortFacts
    <3>. QED
      BY <1>3, <3>1, <3>3, Zenon
  <2>2. CASE Len(s) # 3
    BY <1>3, <2>2, ReachedAppend, Zenon
  <2>. QED
    BY <2>1, <2>2
<1>5. Receipted(Append(s, e)) <=> Len(s) >= 4 /\ e.name = "receipt"
  BY <1>3, ReachedAppend, Zenon
<1>. QED
  BY <1>2, <1>4, <1>5, Zenon

\* What was reached stays so.
LEMMA ReachedStays ==
  ASSUME NEW s \in Seq(Events), NEW e \in Events, Reached(s, 3)
  PROVE  Reached(Append(s, e), 3)
<1>1. 3 \in 2..4
  OBVIOUS
<1>. QED
  BY <1>1, ReachedAppend, Zenon

LEMMA Successor ==
  ASSUME NEW n \in Nat, NEW m, m = n + 1
  PROVE  m >= 1
  OBVIOUS

LEMMA PastTwoOf ==
  ASSUME NEW n \in Nat, n >= 5
  PROVE  n # 0
  OBVIOUS

LEMMA SelfBound ==
  ASSUME NEW n \in Nat, NEW m, m = n \/ m <= n
  PROVE  m <= n
  OBVIOUS

LEMMA NotThree ==
  ASSUME NEW n \in Nat, n >= 4
  PROVE  n # 3
  OBVIOUS

LEMMA EventIn ==
  ASSUME NEW after \in EventNames \cup {"-"}
  PROVE  /\ \A n \in {"request", "candidate_ready", "review_ready"} :
               [name |-> n, says |-> "-", after |-> after] \in Events
         /\ \A c \in {"APPROVE", "REJECT"} : [name |-> "decision", says |-> c, after |-> after] \in Events
         /\ \A c \in {"PUBLISHED", "REJECTED"} : [name |-> "receipt", says |-> c, after |-> after] \in Events
         /\ \A c \in Failures : [name |-> "failure", says |-> c, after |-> after] \in Events
<1>1. \A n \in {"request", "candidate_ready", "review_ready"} :
         [name |-> n, says |-> "-", after |-> after] \in Event(n, {"-"})
  BY DEF Event
<1>2. \A c \in {"APPROVE", "REJECT"} :
         [name |-> "decision", says |-> c, after |-> after] \in Event("decision", {"APPROVE", "REJECT"})
  BY DEF Event
<1>3. \A c \in {"PUBLISHED", "REJECTED"} :
         [name |-> "receipt", says |-> c, after |-> after] \in Event("receipt", {"PUBLISHED", "REJECTED"})
  BY DEF Event
<1>4. \A c \in Failures : [name |-> "failure", says |-> c, after |-> after] \in Event("failure", Failures)
  BY DEF Event
<1>. QED
  BY <1>1, <1>2, <1>3, <1>4 DEF Events

LEMMA PreviousFacts ==
  ASSUME NEW r
  PROVE  /\ Previous(r, "request") = "-" /\ Previous(r, "candidate_ready") = "request"
         /\ Previous(r, "review_ready") = "candidate_ready" /\ Previous(r, "decision") = "review_ready"
         /\ Previous(r, "receipt") = IF Has(r, "failure") THEN "failure" ELSE "decision"
         /\ Previous(r, "failure") = IF Has(r, "decision") THEN "decision"
                                     ELSE IF Has(r, "review_ready") THEN "review_ready"
                                     ELSE IF Has(r, "candidate_ready") THEN "candidate_ready"
                                     ELSE "request"
  BY DEF Previous

\* A failure is recorded as one to recover from exactly where there is a
\* decision, and for what was decided.
LEMMA FailureStates ==
  ASSUME NEW r, NEW s, \A c : Decided(r, c) <=> Chosen(s, c), ~Receipted(s),
         RunSays(s, loc[r], maybe[r]), loc[r] \in maybe[r],
         Reached(s, 4) <=> Chosen(s, "APPROVE") \/ Chosen(s, "REJECT"),
         ~(Chosen(s, "APPROVE") /\ Chosen(s, "REJECT"))
  PROVE  /\ FailureState(r) \in Failures
         /\ FailureState(r) \in RECOVERABLE_FAILURE_STATES <=> Reached(s, 4)
         /\ FailureState(r) \in PublishFailures => Chosen(s, "APPROVE")
         /\ FailureState(r) \in RejectFailures => Chosen(s, "REJECT")
<1>1. CASE Chosen(s, "APPROVE")
  <2>1. loc[r] \in {"candidate", "publish", "output"} /\ Decided(r, "APPROVE") /\ ~Decided(r, "REJECT")
    BY <1>1 DEF RunSays
  <2>2. FailureState(r) \in PublishFailures
    BY <2>1 DEF FailureState, PublishFailures
  <2>. QED
    BY <1>1, <2>2 DEF PublishFailures, RejectFailures, RECOVERABLE_FAILURE_STATES, Failures
<1>2. CASE Chosen(s, "REJECT")
  <2>1. Decided(r, "REJECT") /\ ~Decided(r, "APPROVE")
    BY <1>2
  <2>2. FailureState(r) \in RejectFailures
    BY <2>1 DEF FailureState, RejectFailures
  <2>. QED
    BY <1>2, <2>2 DEF PublishFailures, RejectFailures, RECOVERABLE_FAILURE_STATES, Failures
<1>3. CASE ~Chosen(s, "APPROVE") /\ ~Chosen(s, "REJECT")
  <2>1. ~Decided(r, "REJECT") /\ ~Decided(r, "APPROVE")
    BY <1>3
  <2>2. FailureState(r) \in {"DECISION_FAILED", "PREPARE_FAILED"}
    BY <2>1 DEF FailureState
  <2>. QED
    BY <1>3, <2>2 DEF PublishFailures, RejectFailures, RECOVERABLE_FAILURE_STATES, Failures
<1>. QED
  BY <1>1, <1>2, <1>3

\* p appends an event.
Appends(p, e) ==
    /\ log' = [log EXCEPT ![proc[p].run] = Append(log[proc[p].run], e)]
    /\ loc' = loc /\ maybe' = maybe /\ sure' = sure /\ altered' = altered /\ mishaps' = mishaps
    /\ proc' = [proc EXCEPT ![p] = [@ EXCEPT !.at = "sync", !.ev = e.name]] /\ lock' = lock

LEMMA AppendsKept ==
  ASSUME Inv, NEW p \in Processes, proc[p] # Idle, proc[p].at \in EventNames,
         NEW e \in Events, e.name = proc[p].at, Appends(p, e), NEW r, r = proc[p].run,
         RunSays(Append(log[r], e), loc[r], maybe[r]),
         Fits(p, "sync", e.name, Append(log[r], e), loc[r], maybe[r])
  PROVE  Inv'
<1>1. r \in Runs /\ log[r] \in Seq(Events) /\ log \in [Runs -> Seq(Events)]
  BY Facts, Types DEF Inv
<1>2. log'[r] = Append(log[r], e)
  BY <1>1 DEF Appends
<1>3. Reached(log[r], 3) => Reached(log'[r], 3)
  BY <1>1, <1>2, ReachedStays
<1>. QED
  BY <1>2, <1>3, Appended DEF Appends

LEMMA RequestAppended ==
  ASSUME Inv, NEW p \in Processes, proc[p].at = "request", NEW r, r = proc[p].run,
         NEW e, e = [name |-> "request", says |-> "-", after |-> Previous(r, "request")],
         Appends(p, e)
  PROVE  Inv'
<1>. DEFINE t == Append(log[r], e)
<1>1. proc[p] # Idle
  BY NotIdle
<1>2. /\ log[r] = <<>> /\ maybe[r] = {"none"} /\ lock[r] # p /\ loc[r] \in maybe[r]
      /\ log[r] \in Seq(Events) /\ Chain(log[r])
  BY <1>1, Facts, FitsPrepare
<1>3. e \in Events /\ e.name = "request" /\ e.after = "-"
  BY EventIn, PreviousFacts
<1>4. Chain(t) /\ Len(t) = 1 /\ ~Reached(t, 2) /\ ~Receipted(t)
  BY <1>2, <1>3, AppendFirst, Zenon
<1>. HIDE DEF t
<1>5. \A c : ~Chosen(t, c)
  BY <1>4, ShortFacts
<1>6. RunSays(t, loc[r], maybe[r])
  BY <1>2, <1>4, <1>5 DEF RunSays
<1>7. Fits(p, "sync", "request", t, loc[r], maybe[r])
  BY <1>2, <1>4, FitsSync
<1>. QED
  BY <1>1, <1>3, <1>6, <1>7, AppendsKept DEF t, EventNames

LEMMA CandidateAppended ==
  ASSUME Inv, NEW p \in Processes, proc[p].at = "candidate_ready", NEW r, r = proc[p].run,
         NEW e, e = [name |-> "candidate_ready", says |-> "-", after |-> Previous(r, "candidate_ready")],
         Appends(p, e)
  PROVE  Inv'
<1>. DEFINE t == Append(log[r], e)
<1>1. proc[p] # Idle
  BY NotIdle
<1>2. /\ Len(log[r]) = 1 /\ maybe[r] = {"candidate"} /\ lock[r] # p /\ loc[r] \in maybe[r]
      /\ log[r] \in Seq(Events) /\ Chain(log[r])
  BY <1>1, Facts, FitsPrepare
<1>3. e \in Events /\ e.name = "candidate_ready" /\ e.after = "request"
  BY EventIn, PreviousFacts DEF EventNames
<1>4. Chain(t) /\ Len(t) = 2 /\ Reached(t, 2) /\ ~Receipted(t)
  BY <1>2, <1>3, AppendSecond, Zenon
<1>. HIDE DEF t
<1>5. \A c : ~Chosen(t, c)
  BY <1>4, ShortFacts
<1>6. RunSays(t, loc[r], maybe[r])
  BY <1>2, <1>4, <1>5 DEF RunSays
<1>7. Fits(p, "sync", "candidate_ready", t, loc[r], maybe[r])
  BY <1>2, <1>4, FitsSync
<1>. QED
  BY <1>1, <1>3, <1>6, <1>7, AppendsKept DEF t, EventNames

LEMMA ReviewAppended ==
  ASSUME Inv, NEW p \in Processes, proc[p].at = "review_ready", NEW r, r = proc[p].run,
         NEW e, e = [name |-> "review_ready", says |-> "-", after |-> Previous(r, "review_ready")],
         Appends(p, e)
  PROVE  Inv'
<1>. DEFINE t == Append(log[r], e)
<1>1. proc[p] # Idle
  BY NotIdle
<1>2. /\ Len(log[r]) = 2 /\ Reached(log[r], 2) /\ lock[r] # p /\ loc[r] \in maybe[r]
      /\ log[r] \in Seq(Events) /\ Chain(log[r]) /\ RunSays(log[r], loc[r], maybe[r])
  BY <1>1, Facts, FitsPrepare
<1>3. e \in Events /\ e.name = "review_ready" /\ e.after = "candidate_ready"
  BY EventIn, PreviousFacts DEF EventNames
<1>4. Chain(t) /\ Len(t) = 3 /\ Reached(t, 3) /\ ~Receipted(t)
  BY <1>2, <1>3, AppendThird, Zenon
<1>5. ~Reached(log[r], 4)
  BY <1>2, ShortFacts
<1>6. /\ "output" \in maybe[r] => loc[r] = "output"
      /\ loc[r] = "candidate" => maybe[r] = {"candidate"}
  BY <1>2, <1>5 DEF RunSays
<1>. HIDE DEF t
<1>7. \A c : ~Chosen(t, c)
  BY <1>4, ShortFacts
<1>8. RunSays(t, loc[r], maybe[r])
  BY <1>4, <1>6, <1>7 DEF RunSays
<1>9. Fits(p, "sync", "review_ready", t, loc[r], maybe[r])
  BY <1>2, <1>4, FitsSync
<1>. QED
  BY <1>1, <1>3, <1>8, <1>9, AppendsKept DEF t, EventNames

LEMMA DecisionAppended ==
  ASSUME Inv, NEW p \in Processes, proc[p].at = "decision", NEW r, r = proc[p].run,
         NEW says \in {"APPROVE", "REJECT"},
         NEW e, e = [name |-> "decision", says |-> says, after |-> Previous(r, "decision")],
         Appends(p, e)
  PROVE  Inv'
<1>. DEFINE t == Append(log[r], e)
<1>1. proc[p] # Idle
  BY NotIdle
<1>2. /\ Len(log[r]) = 3 /\ Reached(log[r], 3) /\ lock[r] = p /\ maybe[r] = {"candidate"}
      /\ loc[r] \in maybe[r] /\ log[r] \in Seq(Events) /\ Chain(log[r])
  BY <1>1, Facts, FitsPrompt
<1>3. e \in Events /\ e.name = "decision" /\ e.after = "review_ready"
  BY EventIn, PreviousFacts DEF EventNames
<1>4. Chain(t) /\ Reached(t, 4) /\ ~Receipted(t)
  BY <1>2, <1>3, AppendFourth, Zenon
<1>. HIDE DEF t
<1>5. RunSays(t, loc[r], maybe[r])
  BY <1>2, <1>4 DEF RunSays
<1>6. Fits(p, "sync", "decision", t, loc[r], maybe[r])
  BY <1>2, <1>4, FitsSync DEF MayFinish
<1>. QED
  BY <1>1, <1>3, <1>5, <1>6, AppendsKept DEF t, EventNames

LEMMA FailureAppended ==
  ASSUME Inv, NEW p \in Processes, proc[p].at = "failure", NEW r, r = proc[p].run, ~Has(r, "failure"),
         NEW e, e = [name |-> "failure", says |-> FailureState(r), after |-> Previous(r, "failure")],
         Appends(p, e)
  PROVE  Inv'
<1>. DEFINE s == log[r]
            t == Append(s, e)
<1>1. proc[p] # Idle
  BY NotIdle
<1>2. /\ MayFail(p, s) /\ loc[r] \in maybe[r] /\ RunSays(s, loc[r], maybe[r])
      /\ s \in Seq(Events) /\ Chain(s) /\ ~Failed(s)
      /\ \A c : Decided(r, c) <=> Chosen(s, c)
      /\ Has(r, "decision") <=> Reached(s, 4)
      /\ Has(r, "review_ready") <=> Reached(s, 3)
      /\ Has(r, "candidate_ready") <=> Reached(s, 2)
  BY <1>1, Facts, FitsFailure
<1>. HIDE DEF s
<1>3. /\ Reached(s, 4) <=> Chosen(s, "APPROVE") \/ Chosen(s, "REJECT")
      /\ ~(Chosen(s, "APPROVE") /\ Chosen(s, "REJECT"))
      /\ ~Receipted(s)
  BY <1>2, Reaches DEF MayFail
<1>4. /\ FailureState(r) \in Failures
      /\ FailureState(r) \in RECOVERABLE_FAILURE_STATES <=> Reached(s, 4)
      /\ FailureState(r) \in PublishFailures => Chosen(s, "APPROVE")
      /\ FailureState(r) \in RejectFailures => Chosen(s, "REJECT")
  BY <1>2, <1>3, FailureStates
<1>5. e \in Events /\ e.name = "failure" /\ e.says = FailureState(r) /\ e.after = Previous(r, "failure")
  BY <1>4, EventIn, PreviousFacts DEF EventNames
<1>6. e.after = IF Reached(s, 4) THEN "decision"
                ELSE IF Reached(s, 3) THEN "review_ready"
                ELSE IF Reached(s, 2) THEN "candidate_ready" ELSE "request"
  BY <1>2, <1>5, PreviousFacts
<1>7. Len(s) # 0
  <2>1. CASE Len(s) >= 1
    BY <2>1
  <2>2. CASE Reached(s, 3)
    BY <1>2, <2>2, ReachedThree
  <2>. QED
    BY <1>2, <2>1, <2>2 DEF MayFail
<1>8. Chain(t)
  BY <1>2, <1>3, <1>4, <1>5, <1>6, <1>7, AppendFailure
<1>9. /\ \A n \in 2..4 : Reached(t, n) <=> Reached(s, n)
      /\ \A c : Chosen(t, c) <=> Chosen(s, c)
      /\ Receipted(t) <=> Len(s) >= 4 /\ e.name = "receipt"
  BY <1>2, <1>5, AppendOther
<1>10. /\ Reached(t, 2) <=> Reached(s, 2)
       /\ Reached(t, 3) <=> Reached(s, 3)
       /\ Reached(t, 4) <=> Reached(s, 4)
       /\ ~Receipted(t)
  BY <1>5, <1>9
<1>11. Len(t) >= 1
  <2>1. Len(s) \in Nat /\ Len(t) = Len(s) + 1
    BY <1>2, <1>5, AppendedAt
  <2>. QED
    BY <2>1, Successor
<1>. HIDE DEF t
<1>12. RunSays(t, loc[r], maybe[r])
  BY <1>2, <1>8, <1>9, <1>10 DEF RunSays
<1>13. Fits(p, "sync", "failure", t, loc[r], maybe[r])
  BY <1>2, <1>10, <1>11, FitsSync DEF MayFail
<1>. QED
  BY <1>1, <1>5, <1>12, <1>13, AppendsKept DEF t, s, EventNames

LEMMA ReceiptAppended ==
  ASSUME Inv, NEW p \in Processes, proc[p].at = "receipt", NEW r, r = proc[p].run,
         NEW says, says = IF Decided(r, "APPROVE") THEN "PUBLISHED" ELSE "REJECTED",
         NEW e, e = [name |-> "receipt", says |-> says, after |-> Previous(r, "receipt")],
         Appends(p, e)
  PROVE  Inv'
<1>. DEFINE s == log[r]
            t == Append(s, e)
<1>1. proc[p] # Idle
  BY NotIdle
<1>2. /\ MayFinish(p, s) /\ maybe[r] = IF Chosen(s, "APPROVE") THEN {"output"} ELSE {"gone"}
      /\ loc[r] \in maybe[r] /\ RunSays(s, loc[r], maybe[r])
      /\ s \in Seq(Events) /\ Chain(s)
      /\ \A c : Decided(r, c) <=> Chosen(s, c)
      /\ Has(r, "failure") <=> Failed(s)
  <2>1. /\ Fits(p, "receipt", proc[p].ev, s, loc[r], maybe[r])
        /\ loc[r] \in maybe[r] /\ RunSays(s, loc[r], maybe[r])
        /\ s \in Seq(Events) /\ Chain(s)
    BY <1>1, Facts, Zenon
  <2>2. (\A c : Decided(r, c) <=> Chosen(s, c)) /\ (Has(r, "failure") <=> Failed(s))
    BY <1>1, Facts, Zenon
  <2>3. MayFinish(p, s) /\ maybe[r] = IF Chosen(s, "APPROVE") THEN {"output"} ELSE {"gone"}
    BY <2>1, FitsFinish, Zenon
  <2>. QED
    BY <2>1, <2>2, <2>3, Zenon
<1>. HIDE DEF s
<1>3. Reached(s, 4) /\ ~Receipted(s) /\ lock[r] = p
  BY <1>2 DEF MayFinish
<1>5. /\ e \in Events /\ e.name = "receipt"
      /\ e.says = IF Chosen(s, "APPROVE") THEN "PUBLISHED" ELSE "REJECTED"
      /\ e.after = IF Failed(s) THEN "failure" ELSE "decision"
  BY <1>2, EventIn, PreviousFacts DEF EventNames
<1>6. Chain(t) /\ Len(s) >= 4
  BY <1>2, <1>3, <1>5, AppendReceipt
<1>7. Len(s) # 3
  <2>1. Len(s) \in Nat
    BY <1>2
  <2>. QED
    BY <1>6, <2>1, NotThree
<1>8. Receipted(t) /\ (Reached(t, 4) <=> Reached(s, 4)) /\ \A c : Chosen(t, c) <=> Chosen(s, c)
  <2>1. 4 \in 2..4
    OBVIOUS
  <2>2. /\ \A n \in 2..4 : Reached(t, n) <=> Reached(s, n)
        /\ \A c : Chosen(t, c) <=> Chosen(s, c)
        /\ Receipted(t) <=> Len(s) >= 4 /\ e.name = "receipt"
    BY <1>2, <1>5, <1>7, AppendOther
  <2>. QED
    BY <1>5, <1>6, <2>1, <2>2, Zenon
<1>. HIDE DEF t
<1>9. RunSays(t, loc[r], maybe[r])
  BY <1>2, <1>6, <1>8 DEF RunSays
<1>10. Fits(p, "sync", "receipt", t, loc[r], maybe[r])
  BY <1>3, <1>8, FitsSync
<1>. QED
  BY <1>1, <1>5, <1>9, <1>10, AppendsKept DEF t, s, EventNames

\* An event that did not appear, or whose fsync was not confirmed.
LEMMA RefusedKept ==
  ASSUME Inv, NEW p \in Processes, proc[p].at \in EventNames, Still, UNCHANGED altered, Faulty,
         Refused(p, proc[p].run, proc[p].at)
  PROVE  Inv'
<1>. DEFINE r == proc[p].run
<1>1. proc[p] # Idle /\ Rests /\ Counted
  BY NotIdle, StillRests DEF EventNames
<1>2. CASE proc[p].at \in {"request", "candidate_ready", "review_ready"}
  <2>1. lock[r] # p
    BY <1>1, <1>2, Facts, FitsPrepare
  <2>2. Goes(p, "fail")
    BY <1>2 DEF Refused
  <2>. QED
    BY <1>1, <2>1, <2>2, FitsPrepare, GoesMoves, Moved DEF Steps
<1>3. CASE proc[p].at = "receipt"
  <2>1. MayFail(p, log[r]) /\ Fails(p, r)
    BY <1>3, Finishing DEF Refused
  <2>. QED
    BY <1>1, <2>1, FailsMoves, Moved
<1>4. CASE proc[p].at \in {"decision", "failure"}
  <2>1. Ends(p)
    BY <1>4 DEF Refused
  <2>. QED
    BY <1>1, <2>1, EndsMoves, Moved
<1>. QED
  BY <1>2, <1>3, <1>4 DEF EventNames

LEMMA Append1Kept ==
  ASSUME Inv, NEW p \in Processes, Append1(p)
  PROVE  Inv'
<1>. DEFINE r == proc[p].run
            name == proc[p].at
            e(says) == [name |-> name, says |-> says, after |-> Previous(r, name)]
<1>1. name \in EventNames
  BY DEF Append1
<1>2. CASE Faulty /\ Refused(p, r, name) /\ UNCHANGED log
  BY <1>1, <1>2, RefusedKept DEF Append1, Still
<1>3. CASE ~(Faulty /\ Refused(p, r, name) /\ UNCHANGED log)
  <2>0. /\ ~Has(r, name) /\ Works
        /\ \E says \in Says(r, name) : log' = [log EXCEPT ![r] = Append(@, e(says))]
        /\ proc' = [proc EXCEPT ![p] = [@ EXCEPT !.at = "sync", !.ev = name]] /\ UNCHANGED lock
        /\ UNCHANGED <<sure, loc, maybe, altered>>
    BY <1>3, Zenon DEF Append1
  <2>1. ~Has(r, name)
    BY <2>0
  <2>2. PICK says \in Says(r, name) : log' = [log EXCEPT ![r] = Append(log[r], e(says))]
    BY <2>0
  <2>3. e(says).name = name
    OBVIOUS
  <2>4. Appends(p, e(says))
    BY <2>0, <2>2, <2>3 DEF Works, Appends
  <2>5. CASE name = "request"
    BY <2>4, <2>5, <2>2, RequestAppended DEF Says
  <2>6. CASE name = "candidate_ready"
    BY <2>4, <2>6, <2>2, CandidateAppended DEF Says
  <2>7. CASE name = "review_ready"
    BY <2>4, <2>7, <2>2, ReviewAppended DEF Says
  <2>8. CASE name = "decision"
    BY <2>4, <2>8, <2>2, DecisionAppended DEF Says
  <2>9. CASE name = "failure"
    BY <2>1, <2>4, <2>9, <2>2, FailureAppended DEF Says
  <2>10. CASE name = "receipt"
    BY <2>4, <2>10, <2>2, ReceiptAppended DEF Says
  <2>. QED
    BY <1>1, <2>5, <2>6, <2>7, <2>8, <2>9, <2>10 DEF EventNames
<1>. QED
  BY <1>2, <1>3


\* The directory is synced: what is on disk stays, and p goes on as it may.
LEMMA SyncedCounted ==
  ASSUME Inv, NEW r \in Runs, sure' = [sure EXCEPT ![r] = Len(log[r])] \/ sure' = sure,
         log' = log, altered' = altered, UNCHANGED mishaps \/ Faulty
  PROVE  Counted
<1>1. Len(log[r]) \in Nat
  BY Types DEF Inv
<1>2. /\ sure' \in [Runs -> Nat]
      /\ \A x \in Runs : sure'[x] = sure[x] \/ sure'[x] = Len(log[x])
  BY <1>1, SureCounted
<1>3. ASSUME NEW x \in Runs PROVE sure'[x] <= Len(log'[x])
  <2>1. Len(log[x]) \in Nat /\ sure[x] <= Len(log[x]) /\ log'[x] = log[x]
    BY Types DEF Inv
  <2>. QED
    BY <1>2, <2>1, SelfBound
<1>4. mishaps' \in 0..MaxMishaps /\ altered' \in [Runs -> BOOLEAN]
  BY MishapsCounted, SureCounted
<1>. QED
  BY <1>2, <1>3, <1>4 DEF Counted

LEMMA Append2Moves ==
  ASSUME Inv, NEW p \in Processes, Append2(p), NEW r, r = proc[p].run
  PROVE  proc[p] # Idle /\ Moves(p, log[r], loc[r], maybe[r])
<1>. DEFINE s == log[r]
            name == proc[p].ev
<1>1. proc[p].at = "sync" /\ proc[p] # Idle
  BY NotIdle DEF Append2
<1>2. /\ Fits(p, "sync", name, s, loc[r], maybe[r]) /\ name \in EventNames
      /\ RunSays(s, loc[r], maybe[r]) /\ loc[r] \in maybe[r]
  BY <1>1, Facts DEF Fits
<1>3. {"fail", "commit", "review_ready", "finish"} \subseteq Steps
  BY DEF Steps, EventNames
<1>4. name \in {"request", "candidate_ready", "review_ready"} => lock[r] # p
  BY <1>2, FitsSync
<1>5. name \in {"request", "candidate_ready", "review_ready"} =>
         Fits(p, "fail", "-", s, loc[r], maybe[r])
  BY <1>4, FitsPrepare
<1>6. CASE Ambiguous(p, r, name)
  <2>1. CASE name \in {"request", "candidate_ready", "review_ready"}
    <3>1. Goes(p, "fail")
      BY <1>6, <2>1 DEF Ambiguous
    <3>. QED
      BY <1>1, <1>3, <1>5, <2>1, <3>1, GoesMoves
  <2>2. CASE name \notin {"request", "candidate_ready", "review_ready"}
    <3>1. Ends(p)
      BY <1>6, <2>2 DEF Ambiguous
    <3>. QED
      BY <1>1, <3>1, EndsMoves
  <2>. QED
    BY <2>1, <2>2
<1>7. CASE name = "request" /\ Build(p)
  <2>1. Fits(p, "commit", "-", s, loc[r], maybe[r])
    BY <1>2, <1>7, FitsSync, FitsPrepare
  <2>. QED
    BY <1>1, <1>3, <1>5, <1>7, <2>1, GoesMoves DEF Build
<1>8. CASE name = "candidate_ready" /\ Render(p, r)
  <2>1. Fits(p, "review_ready", "-", s, loc[r], maybe[r])
    BY <1>2, <1>8, FitsSync, FitsPrepare
  <2>. QED
    BY <1>1, <1>3, <1>5, <1>8, <2>1, GoesMoves DEF Render
<1>9. CASE name = "decision" /\ (Ends(p) \/ Goes(p, "finish"))
  <2>1. Fits(p, "finish", "-", s, loc[r], maybe[r])
    BY <1>2, <1>9, FitsSync, FitsFinish
  <2>. QED
    BY <1>1, <1>3, <1>9, <2>1, GoesMoves, EndsMoves
<1>10. CASE name \notin {"request", "candidate_ready", "decision"} /\ Ends(p)
  BY <1>1, <1>10, EndsMoves
<1>11. \/ Ambiguous(p, r, name)
       \/ CASE name = "request" -> Build(p)
            [] name = "candidate_ready" -> Render(p, r)
            [] name = "decision" -> Ends(p) \/ (Valid(r) /\ Goes(p, "finish"))
            [] OTHER -> Ends(p)
  BY DEF Append2
<1>. HIDE DEF s, name
<1>. QED
  BY <1>1, <1>6, <1>7, <1>8, <1>9, <1>10, <1>11 DEF s

LEMMA Append2Kept ==
  ASSUME Inv, NEW p \in Processes, Append2(p)
  PROVE  Inv'
<1>. DEFINE r == proc[p].run
<1>1. proc[p] # Idle /\ Moves(p, log[r], loc[r], maybe[r])
  BY Append2Moves
<1>2. r \in Runs
  BY <1>1, Facts
<1>3. /\ log' = log /\ loc' = loc /\ maybe' = maybe /\ altered' = altered
      /\ sure' = [sure EXCEPT ![r] = Len(log[r])] \/ sure' = sure
      /\ UNCHANGED mishaps \/ Faulty
  BY DEF Append2, Works
<1>4. Rests /\ Counted
  BY <1>2, <1>3, SyncedCounted DEF Rests
<1>5. Moves(p, log[r], loc[r], maybe'[r])
  BY <1>1, <1>3
<1>. QED
  BY <1>1, <1>4, <1>5, Moved

-----------------------------------------------------------------------------
(* A process is killed, the power is lost, a person edits. *)

LEMMA KillKept ==
  ASSUME Inv, NEW p \in Processes, Kill(p)
  PROVE  Inv'
<1>1. proc[p] # Idle /\ Ends(p) /\ Still /\ UNCHANGED <<altered, mishaps>>
  BY DEF Kill
<1>2. Rests /\ Counted
  BY <1>1, StillRests
<1>. QED
  BY <1>1, <1>2, EndsMoves, Moved

LEMMA EditKept ==
  ASSUME Inv, NEW r \in Runs, Edit(r)
  PROVE  Inv'
<1>1. altered' \in [Runs -> BOOLEAN] /\ Still /\ Faulty /\ proc' = proc /\ lock' = lock
  BY SureCounted DEF Edit
<1>2. Rests /\ Counted
  BY <1>1, StillRests
<1>. QED
  BY <1>1, <1>2, Watched

\* What a run says of its candidate survives what a loss of power takes back.
LEMMA LossSays ==
  ASSUME NEW s \in Seq(Events), NEW places, NEW old, RunSays(s, old, places),
         NEW n \in 0..Len(s), NEW place \in places
  PROVE  RunSays(SubSeq(s, 1, n), place, {place})
<1>. DEFINE t == SubSeq(s, 1, n)
<1>1. Chain(s)
  BY DEF RunSays
<1>2. /\ t \in Seq(Events) /\ Chain(t)
      /\ \A c : Chosen(t, c) => Chosen(s, c)
      /\ Receipted(t) => Receipted(s) /\ t[4] = s[4]
  BY <1>1, Prefixes
<1>. HIDE DEF t
<1>3. Receipted(t) => Reached(t, 4)
  BY <1>2, Reaches
<1>4. Receipted(t) => (Chosen(s, "APPROVE") <=> Chosen(t, "APPROVE"))
  BY <1>2, <1>3 DEF Chosen
<1>5. Receipted(t) => {place} = IF Chosen(t, "APPROVE") THEN {"output"} ELSE {"gone"}
  BY <1>2, <1>4 DEF RunSays
<1>6. /\ Chosen(t, "APPROVE") => {place} \subseteq {"candidate", "publish", "output"}
      /\ Chosen(t, "REJECT") => {place} \subseteq {"candidate", "reject", "gone"}
  BY <1>2 DEF RunSays
<1>7. RunSays(t, place, {place})
  BY <1>2, <1>5, <1>6 DEF RunSays
<1>. QED
  BY <1>7 DEF t

LEMMA PowerLossKept ==
  ASSUME Inv, NEW r \in Runs, PowerLoss(r)
  PROVE  Inv'
<1>1. PICK n \in sure[r]..Len(log[r]) : log' = [log EXCEPT ![r] = SubSeq(log[r], 1, n)]
  BY DEF PowerLoss
<1>2. PICK place \in maybe[r] : loc' = [loc EXCEPT ![r] = place]
  BY DEF PowerLoss
<1>3. /\ sure' = [q \in Runs |-> Len(log'[q])] /\ maybe' = [q \in Runs |-> {loc'[q]}]
      /\ proc' = [p \in Processes |-> Idle] /\ lock' = [q \in Runs |-> Nobody]
      /\ altered' = altered /\ Faulty
  BY DEF PowerLoss
<1>4. /\ log[r] \in Seq(Events) /\ sure[r] \in Nat /\ loc \in [Runs -> Places]
      /\ log \in [Runs -> Seq(Events)] /\ maybe[r] \subseteq Places
  BY Types DEF Inv
<1>5. n \in 0..Len(log[r])
  BY <1>4
<1>6. RunSays(log[r], loc[r], maybe[r])
  BY DEF Inv, RunInv
<1>7. RunSays(SubSeq(log[r], 1, n), place, {place}) /\ SubSeq(log[r], 1, n) \in Seq(Events)
  <2>1. Chain(log[r])
    BY <1>6 DEF RunSays
  <2>. QED
    BY <1>4, <1>5, <1>6, <2>1, LossSays, Prefixes
<1>8. /\ log' \in [Runs -> Seq(Events)] /\ loc' \in [Runs -> Places]
      /\ log'[r] = SubSeq(log[r], 1, n) /\ loc'[r] = place
      /\ \A x \in Runs : x # r => log'[x] = log[x] /\ loc'[x] = loc[x]
  BY <1>1, <1>2, <1>4, <1>7
<1>9. ASSUME NEW x \in Runs PROVE RunInv(x)'
  <2>1. maybe'[x] = {loc'[x]}
    BY <1>3
  <2>2. CASE x = r
    <3>1. RunSays(log'[x], loc'[x], maybe'[x])
      BY <1>7, <1>8, <2>1, <2>2
    <3>. QED
      BY <3>1 DEF RunInv
  <2>3. CASE x # r
    <3>1. RunInv(x) /\ log'[x] = log[x] /\ loc'[x] = loc[x] /\ maybe'[x] \in {maybe[x], {loc[x]}}
      BY <1>8, <2>1, <2>3 DEF Inv
    <3>. QED
      BY <3>1, RunKept, Zenon
  <2>. QED
    BY <2>2, <2>3
<1>10. \A p \in Processes : proc'[p] = Idle
  BY <1>3
<1>11. \A p \in Processes : StepInv(p)'
  BY <1>10 DEF StepInv
<1>12. AloneInv'
  BY <1>3, <1>10 DEF AloneInv
<1>13. TypeOK'
  <2>1. /\ sure' \in [Runs -> Nat] /\ \A x \in Runs : sure'[x] = Len(log'[x]) /\ Len(log'[x]) \in Nat
    BY <1>3, <1>8
  <2>2. \A x \in Runs : sure'[x] <= Len(log'[x])
    BY <2>1, SelfBound
  <2>3. /\ maybe' \in [Runs -> SUBSET Places] /\ \A x \in Runs : loc'[x] \in maybe'[x]
    BY <1>3, <1>8
  <2>4. proc' \in [Processes -> [at : Steps, run : Runs \cup {Nobody}, ev : EventNames \cup {"-"}]]
    BY <1>3, IdleFacts
  <2>5. lock' \in [Runs -> Processes \cup {Nobody}]
    BY <1>3
  <2>6. altered' \in [Runs -> BOOLEAN] /\ mishaps' \in 0..MaxMishaps
    BY <1>3, SureCounted, MishapsCounted
  <2>7. \A x \in Runs : sure'[x] <= Len(log'[x]) /\ loc'[x] \in maybe'[x]
    BY <2>2, <2>3
  <2>. QED
    BY <1>8, <2>1, <2>3, <2>4, <2>5, <2>6, <2>7, TypesNext
<1>. QED
  BY <1>9, <1>11, <1>12, <1>13 DEF Inv

-----------------------------------------------------------------------------
(* The invariant. *)

LEMMA InitInv == Init => Inv
<1>. SUFFICES ASSUME Init PROVE Inv
  OBVIOUS
<1>1. TypeOK
  <2>1. /\ log \in [Runs -> Seq(Events)] /\ sure \in [Runs -> Nat]
        /\ \A r \in Runs : sure[r] <= Len(log[r])
    BY DEF Init
  <2>2. loc \in [Runs -> Places] /\ maybe \in [Runs -> SUBSET Places]
        /\ \A r \in Runs : loc[r] \in maybe[r]
    BY DEF Init, Places
  <2>3. proc \in [Processes -> [at : Steps, run : Runs \cup {Nobody}, ev : EventNames \cup {"-"}]]
    BY IdleFacts DEF Init
  <2>4. altered \in [Runs -> BOOLEAN] /\ lock \in [Runs -> Processes \cup {Nobody}]
        /\ mishaps \in 0..MaxMishaps
    BY CuratorAssumption DEF Init
  <2>. QED
    BY <2>1, <2>2, <2>3, <2>4 DEF TypeOK
<1>2. Chain(<<>>) /\ ~Reached(<<>>, 2) /\ ~Reached(<<>>, 4) /\ ~Receipted(<<>>)
  BY DEF Chain, Reached, Receipted
<1>3. RunSays(<<>>, "none", {"none"})
  BY <1>2 DEF RunSays, Chosen
<1>4. \A r \in Runs : RunInv(r)
  BY <1>3 DEF Init, RunInv
<1>5. \A p \in Processes : StepInv(p)
  BY DEF Init, StepInv
<1>6. AloneInv
  BY DEF Init, AloneInv
<1>. QED
  BY <1>1, <1>4, <1>5, <1>6 DEF Inv

LEMMA StepKept ==
  ASSUME Inv, NEW p \in Processes, Step(p)
  PROVE  Inv'
  BY Zenon, Append1Kept, Append2Kept, CommitKept, CommitSyncKept, FailKept, CleanupKept, UnstageKept,
     UnstageSyncKept, RemoveKept, RemoveSyncKept, PromptKept, FinishCompletedKept, FinishActionKept,
     FinishRefusesKept, ToStageKept, StageSyncKept, ToOutputKept, OutputSyncKept, UndoKept,
     UndoSyncKept DEF Step

LEMMA NextInv == Inv /\ [Next]_vars => Inv'
<1>. SUFFICES ASSUME Inv, [Next]_vars PROVE Inv'
  OBVIOUS
<1>1. ASSUME NEW p \in Processes, Step(p) \/ Kill(p) PROVE Inv'
  BY <1>1, StepKept, KillKept, Zenon
<1>2. ASSUME NEW p \in Processes, NEW r \in Runs, Prepare(p, r) \/ Decide(p, r) \/ Replay(p, r)
      PROVE  Inv'
  BY <1>2, PrepareInvKept, DecideKept, ReplayKept, Zenon
<1>3. ASSUME NEW r \in Runs, Edit(r) \/ PowerLoss(r) PROVE Inv'
  BY <1>3, EditKept, PowerLossKept, Zenon
<1>4. CASE UNCHANGED vars
  <2>1. Rests /\ Counted /\ proc' = proc /\ lock' = lock
    <3>1. /\ log' = log /\ sure' = sure /\ loc' = loc /\ maybe' = maybe /\ altered' = altered
          /\ proc' = proc /\ lock' = lock /\ mishaps' = mishaps
      BY <1>4 DEF vars
    <3>. QED
      BY <3>1, StillRests DEF Still
  <2>. QED
    BY <2>1, Watched
<1>. QED
  BY <1>1, <1>2, <1>3, <1>4 DEF Next

\* Inv holds in every reachable state.
THEOREM Invariance == Spec => []Inv
<1>. QED
  BY InitInv, NextInv, PTL DEF Spec

\* The variables have their types.
THEOREM TypeCorrectness == Spec => []TypeOK
<1>1. Inv => TypeOK
  BY DEF Inv
<1>. QED
  BY <1>1, Invariance, PTL

-----------------------------------------------------------------------------
(* What follows from it. *)

LEMMA RunFacts ==
  ASSUME Inv, NEW r \in Runs
  PROVE  /\ log[r] \in Seq(Events) /\ Chain(log[r]) /\ RunSays(log[r], loc[r], maybe[r])
         /\ Has(r, "decision") <=> Reached(log[r], 4)
         /\ Has(r, "failure") <=> Failed(log[r])
         /\ Has(r, "receipt") <=> Receipted(log[r])
         /\ \A c : Decided(r, c) <=> Chosen(log[r], c)
<1>1. log[r] \in Seq(Events) /\ RunSays(log[r], loc[r], maybe[r])
  BY Types DEF Inv, RunInv
<1>2. Chain(log[r])
  BY <1>1 DEF RunSays
<1>. QED
  BY <1>1, <1>2, HasFacts, TheFacts

\* However its writers were killed, refused or left in doubt, and whatever a
\* loss of power took: a run that has a request loads.
THEOREM RunsAlwaysLoad == Spec => []RunsLoad
<1>1. ASSUME Inv PROVE RunsLoad
  <2>. SUFFICES ASSUME NEW r \in Runs, log[r] # <<>> PROVE Loads(r)
    BY DEF RunsLoad
  <2>1. log[r] \in Seq(Events) /\ Chain(log[r])
    BY <1>1, RunFacts
  <2>2. Len(log[r]) # 0
    BY <2>1
  <2>. QED
    BY <2>1, <2>2, ChainLoads
<1>. QED
  BY <1>1, Invariance, PTL

\* A receipt is true, and no loss of power can make it false.
THEOREM ReceiptsTrue == Spec => []ReceiptIsTrue
<1>1. ASSUME Inv PROVE ReceiptIsTrue
  <2>. SUFFICES ASSUME NEW r \in Runs, Has(r, "receipt")
                PROVE  maybe[r] = IF The(r, "receipt").says = "PUBLISHED" THEN {"output"} ELSE {"gone"}
    BY DEF ReceiptIsTrue
  <2>1. log[r] \in Seq(Events) /\ Chain(log[r]) /\ RunSays(log[r], loc[r], maybe[r])
    BY <1>1, RunFacts
  <2>2. Receipted(log[r]) /\ (Decided(r, "APPROVE") <=> Chosen(log[r], "APPROVE"))
    BY <1>1, RunFacts
  <2>3. maybe[r] = IF Chosen(log[r], "APPROVE") THEN {"output"} ELSE {"gone"}
    BY <2>1, <2>2, Zenon DEF RunSays
  <2>4. Len(log[r]) # 0
    <3>1. Len(log[r]) \in Nat /\ Len(log[r]) >= 5
      BY <2>1, <2>2 DEF Receipted
    <3>. QED
      BY <3>1, PastTwoOf
  <2>5. Loads(r)
    BY <2>1, <2>4, ChainLoads
  <2>6. The(r, "receipt").says = "PUBLISHED" <=> Decided(r, "APPROVE")
    BY <2>5, Zenon DEF Loads
  <2>. QED
    BY <2>2, <2>3, <2>6
<1>. QED
  BY <1>1, Invariance, PTL

\* A recorded decision governs the candidate until there is a receipt, and no
\* failure on record keeps the next decide from finishing it.
THEOREM DecisionsHold == Spec => []DecisionHolds
<1>1. ASSUME Inv PROVE DecisionHolds
  <2>. SUFFICES ASSUME NEW r \in Runs, Has(r, "decision")
                PROVE  /\ maybe[r] \subseteq (IF Decided(r, "APPROVE")
                                              THEN {"candidate", "publish", "output"}
                                              ELSE {"candidate", "reject", "gone"})
                       /\ Has(r, "failure") => Recoverable(r)
    BY DEF DecisionHolds
  <2>1. log[r] \in Seq(Events) /\ Chain(log[r]) /\ RunSays(log[r], loc[r], maybe[r])
    BY <1>1, RunFacts
  <2>2. /\ Reached(log[r], 4)
        /\ Decided(r, "APPROVE") <=> Chosen(log[r], "APPROVE")
        /\ Has(r, "failure") <=> Failed(log[r])
    BY <1>1, RunFacts
  <2>3. Chosen(log[r], "APPROVE") \/ Chosen(log[r], "REJECT")
    BY <2>1, <2>2, Reaches
  <2>4. Failed(log[r]) => Recoverable(r)
    BY <2>1, <2>2, FailureFacts
  <2>5. /\ Chosen(log[r], "APPROVE") => maybe[r] \subseteq {"candidate", "publish", "output"}
        /\ Chosen(log[r], "REJECT") => maybe[r] \subseteq {"candidate", "reject", "gone"}
    BY <2>1, Zenon DEF RunSays
  <2>. QED
    BY <2>2, <2>3, <2>4, <2>5
<1>. QED
  BY <1>1, Invariance, PTL

\* The names after a step that publishes nothing.
Elsewhere == loc' = loc \/ \E x \in Runs, place \in Places \ {"output"} : loc' = [loc EXCEPT ![x] = place]

LEMMA ElsewhereKept ==
  ASSUME Inv, NEW r \in Runs, loc[r] # "output", Elsewhere
  PROVE  loc'[r] # "output"
  BY Types DEF Inv, Elsewhere

LEMMA RenameElsewhere ==
  ASSUME Inv, NEW p \in Processes, proc[p].at # "idle", NEW place \in Places \ {"output"},
         Rename(proc[p].run, place)
  PROVE  Elsewhere
<1>1. proc[p].run \in Runs
  BY NotIdle, Facts
<1>. QED
  BY <1>1 DEF Rename, Elsewhere

LEMMA StepElsewhere ==
  ASSUME Inv, NEW p \in Processes, Step(p), ~ToOutput(p)
  PROVE  Elsewhere
<1>0. {"candidate", "publish", "reject", "gone"} \subseteq Places \ {"output"}
  BY DEF Places
<1>1. CASE Append1(p) \/ Append2(p) \/ Fail(p) \/ Cleanup(p) \/ Prompt(p)
  BY <1>1, Zenon DEF Append1, Append2, Fail, Cleanup, Prompt, Still, Elsewhere
<1>2. CASE FinishCompleted(p) \/ FinishAction(p) \/ FinishRefuses(p) \/ StageSync(p) \/ OutputSync(p)
  BY <1>2, Zenon DEF FinishCompleted, FinishAction, FinishRefuses, StageSync, OutputSync, SyncParent,
       Still, Elsewhere
<1>3. CASE CommitSync(p) \/ UnstageSync(p) \/ RemoveSync(p) \/ UndoSync(p)
  BY <1>3, Zenon DEF CommitSync, UnstageSync, RemoveSync, UndoSync, SyncParent, Still, Elsewhere
<1>4. CASE Commit(p)
  <2>1. proc[p].at # "idle" /\ (loc' = loc \/ Rename(proc[p].run, "candidate"))
    BY <1>4 DEF Commit, Still
  <2>. QED
    BY <1>0, <2>1, RenameElsewhere DEF Elsewhere
<1>5. CASE Unstage(p)
  <2>1. proc[p].at # "idle" /\ (loc' = loc \/ Rename(proc[p].run, "reject"))
    BY <1>5 DEF Unstage, Still
  <2>. QED
    BY <1>0, <2>1, RenameElsewhere DEF Elsewhere
<1>6. CASE Remove(p)
  <2>1. proc[p].at # "idle" /\ (loc' = loc \/ Rename(proc[p].run, "gone"))
    BY <1>6 DEF Remove, Still
  <2>. QED
    BY <1>0, <2>1, RenameElsewhere DEF Elsewhere
<1>7. CASE ToStage(p)
  <2>1. proc[p].at # "idle" /\ (loc' = loc \/ Rename(proc[p].run, "publish"))
    BY <1>7 DEF ToStage, Still
  <2>. QED
    BY <1>0, <2>1, RenameElsewhere DEF Elsewhere
<1>8. CASE Undo(p)
  <2>1. proc[p].at # "idle" /\ (loc' = loc \/ Rename(proc[p].run, "candidate"))
    BY <1>8 DEF Undo, Still
  <2>. QED
    BY <1>0, <2>1, RenameElsewhere DEF Elsewhere
<1>. QED
  BY <1>1, <1>2, <1>3, <1>4, <1>5, <1>6, <1>7, <1>8, Zenon DEF Step

\* A dataset appears at the output only if a person approved it as it is, and
\* where no other dataset stands.
THEOREM PublishedApproved == Spec => PublishedIsApproved
<1>. DEFINE A == \A r \in Runs : loc[r] # "output" /\ loc'[r] = "output" =>
                    Decided(r, "APPROVE") /\ ~altered[r] /\ ~OutputTaken(r)
<1>1. ASSUME Inv, [Next]_vars PROVE [A]_vars
  <2>. SUFFICES ASSUME NEW r \in Runs, loc[r] # "output", loc'[r] = "output", Next
                PROVE  Decided(r, "APPROVE") /\ ~altered[r] /\ ~OutputTaken(r)
    BY <1>1
  <2>0. ~Elsewhere
    BY <1>1, ElsewhereKept
  <2>1. ASSUME NEW p \in Processes, Step(p)
        PROVE  Decided(r, "APPROVE") /\ ~altered[r] /\ ~OutputTaken(r)
    <3>1. ToOutput(p)
      BY <1>1, <2>0, <2>1, StepElsewhere
    <3>2. /\ proc[p].at = "toOutput" /\ loc' # loc
      BY <2>0, <3>1 DEF ToOutput, Elsewhere
    <3>3. /\ Rename(proc[p].run, "output")
          /\ ~altered[proc[p].run] /\ ~OutputTaken(proc[p].run)
      BY <3>1, <3>2, Zenon DEF ToOutput, Still
    <3>4. proc[p].run \in Runs /\ Decided(proc[p].run, "APPROVE")
      BY <1>1, <3>2, Finishing DEF PublishSteps
    <3>5. proc[p].run = r
      BY <1>1, <3>3, <3>4, Types DEF Rename, Inv
    <3>. QED
      BY <3>3, <3>4, <3>5
  <2>2. ASSUME NEW p \in Processes, Kill(p) PROVE FALSE
    BY <2>0, <2>2 DEF Kill, Still, Elsewhere
  <2>3. ASSUME NEW p \in Processes, NEW x \in Runs, Prepare(p, x) \/ Decide(p, x) \/ Replay(p, x)
        PROVE  FALSE
    BY <2>0, <2>3, Zenon DEF Prepare, Decide, Replay, Still, Elsewhere
  <2>4. ASSUME NEW x \in Runs, Edit(x) PROVE FALSE
    BY <2>0, <2>4, Zenon DEF Edit, Still, Elsewhere
  <2>5. ASSUME NEW x \in Runs, PowerLoss(x) PROVE FALSE
    <3>1. PICK place \in maybe[x] : loc' = [loc EXCEPT ![x] = place]
      BY <2>5 DEF PowerLoss
    <3>2. maybe[x] \subseteq Places /\ loc \in [Runs -> Places]
      BY <1>1, Types DEF Inv
    <3>3. place = "output"
      BY <2>0, <3>1, <3>2 DEF Elsewhere
    <3>4. loc[x] = "output"
      BY <1>1, <3>1, <3>3, RunFacts DEF RunSays
    <3>5. loc' = loc
      BY <3>1, <3>2, <3>3, <3>4
    <3>. QED
      BY <2>0, <3>5 DEF Elsewhere
  <2>. QED
    BY <2>1, <2>2, <2>3, <2>4, <2>5 DEF Next
<1>. QED
  BY <1>1, Invariance, PTL DEF Spec, PublishedIsApproved

===============================================================================
