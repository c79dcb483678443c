----------------------------- MODULE SprintProofs -----------------------------
(***************************************************************************)
(* Proofs about SprintLifecycle for sprints of any size.  The shipment is  *)
(* safe since the write lock that it holds keeps every other task done,    *)
(* and a task that is done is not integrated again; the reconcilers are    *)
(* followed one by one through the view that each hands on to the next.    *)
(***************************************************************************)
EXTENDS SprintLifecycle, TLAPS

Steps == {"idle", "busy", "integrated", "merging", "verifying", "opening"}
Verdicts == {"pending", "passed", "blocked"}

\* A step works on an active task until it opens the sprint's pull request.
StepsWork ==
    \A t \in Tasks : step[t] \in {"busy", "integrated", "merging", "verifying"} =>
                         status[t] = "active"

\* The write lock keeps the other tasks done, and with them main.
WriterIsLast ==
    \A t \in Tasks : writer = t => /\ repo = "local"
                                   /\ \A u \in Tasks \ {t} : status[u] = "done"
                                   /\ step[t] = "verifying" => main = Tasks

\* Only a sprint with a remote has pull requests.
ReviewsAreRemote ==
    repo # "remote" => gates = 0 /\ \A t \in Tasks : step[t] # "opening"

Views == [status : [Tasks -> Statuses], phase : Phases, verification : Verdicts,
          evidence : Evidence]

\* What is known of a local sprint's row while it is reconciled: what makes it
\* shipped, and why it is blocked.
LocalOK(v) ==
    /\ v.verification = "passed" <=> v.phase = "shipped"
    /\ v.verification = "blocked" <=> v.phase = "blocked"
    /\ v.phase = "shipped" => \A t \in Tasks : v.status[t] # "unintegrated"
    /\ v.phase = "blocked" => \/ v.evidence.workspace \/ v.evidence.error # "none"
                              \/ v.evidence.status = "none"
    /\ v.phase = "shipped" /\ AllDone(v.status) => main = Tasks /\ (proven \/ NeedsProof(v))

ViewOK(v) ==
    /\ v \in Views
    /\ v.evidence.error = "dirty" => v.evidence.materialized = "none"
    /\ repo = "local" => LocalOK(v)

RowOK ==
    /\ View \in Views
    /\ evidence.error = "dirty" => evidence.materialized = "none"
    /\ repo = "local" =>
        /\ phase = "shipped" => \A t \in Tasks : status[t] # "unintegrated"
        /\ phase = "blocked" => \/ evidence.workspace \/ evidence.error # "none"
                                \/ evidence.status = "none"

Controls ==
    /\ repo \in Repos /\ gates \in Nat /\ step \in [Tasks -> Steps]
    /\ writer \in Tasks \cup {NoTask}
    /\ \A t \in Tasks : step[t] \in {"merging", "verifying"} <=> writer = t
    /\ main \in SUBSET Tasks /\ proven \in BOOLEAN
    /\ unseen \in BOOLEAN /\ undecided \in BOOLEAN
    /\ StepsWork /\ WriterIsLast /\ ReviewsAreRemote

IInv == Controls /\ RowOK /\ ShippedIsDelivered /\ VerdictMatchesPhase

-----------------------------------------------------------------------------
(* The reconcilers.                                                        *)

\* The row, as the reconcilers find it.
LEMMA ViewFacts ==
  ASSUME IInv PROVE ViewOK(View)
  BY DEF IInv, RowOK, ShippedIsDelivered, VerdictMatchesPhase, ViewOK, LocalOK, View

LEMMA FailOrphanedKeeps ==
  ASSUME NEW v \in Views, ViewOK(v), NEW died \in SUBSET Tasks
  PROVE  ViewOK(FailOrphaned(v, died))
  <1> DEFINE w == FailOrphaned(v, died)
  <1>1. /\ w \in Views /\ w.phase = v.phase /\ w.verification = v.verification
        /\ w.evidence = v.evidence
        /\ \A t \in Tasks : w.status[t] = IF t \in died THEN "failed" ELSE v.status[t]
    BY DEF FailOrphaned, Views, Statuses
  <1>2. /\ AllDone(w.status) => AllDone(v.status)
        /\ (\A t \in Tasks : v.status[t] # "unintegrated") =>
              \A t \in Tasks : w.status[t] # "unintegrated"
    BY <1>1 DEF AllDone
  <1>3. AllDone(w.status) /\ NeedsProof(v) => NeedsProof(w)
    BY <1>1 DEF NeedsProof
  <1> QED
    BY <1>1, <1>2, <1>3 DEF ViewOK, LocalOK

LEMMA BlockUnintegratedKeeps ==
  ASSUME NEW v \in Views, ViewOK(v), NEW changed \in SUBSET Tasks
  PROVE  ViewOK(BlockUnintegrated(v, changed))
  <1> DEFINE w == BlockUnintegrated(v, changed)
             s == [t \in Tasks |-> IF v.status[t] \notin {"done", "unintegrated"} THEN v.status[t]
                                   ELSE IF t \in changed THEN "unintegrated" ELSE "done"]
  <1>1. s \in [Tasks -> Statuses]
    BY DEF Views, Statuses
  <1>2. CASE v.phase = "shipped" /\ \E t \in Tasks : s[t] = "unintegrated"
    <2> DEFINE e == [v.evidence EXCEPT !.status = "blocked", !.workspace = TRUE]
    <2>1. w = [v EXCEPT !.status = s, !.phase = "blocked", !.verification = "blocked",
                        !.evidence = e]
      BY <1>2 DEF BlockUnintegrated
    <2>3. /\ e \in Evidence /\ e.workspace = TRUE /\ e.error = v.evidence.error
          /\ e.materialized = v.evidence.materialized
      BY DEF Views, Evidence
    <2> HIDE DEF e
    <2>2. /\ w \in Views /\ w.phase = "blocked" /\ w.verification = "blocked"
          /\ w.evidence.workspace = TRUE /\ w.evidence.error = v.evidence.error
          /\ w.evidence.materialized = v.evidence.materialized
      BY <1>1, <2>1, <2>3 DEF Views, Phases, Verdicts
    <2> QED
      BY <2>2 DEF ViewOK, LocalOK
  <1>3. CASE ~(v.phase = "shipped" /\ \E t \in Tasks : s[t] = "unintegrated")
    <2>1. w = [v EXCEPT !.status = s]
      BY <1>3 DEF BlockUnintegrated
    <2>2. /\ w \in Views /\ w.phase = v.phase /\ w.verification = v.verification
          /\ w.evidence = v.evidence /\ w.status = s
      BY <1>1, <2>1 DEF Views
    <2>3. v.phase = "shipped" => \A t \in Tasks : w.status[t] # "unintegrated"
      BY <1>3, <2>2
    <2>4. (\A t \in Tasks : v.status[t] # "unintegrated") /\ AllDone(w.status) => AllDone(v.status)
      BY <2>2 DEF AllDone
    <2>5. AllDone(w.status) /\ NeedsProof(v) => NeedsProof(w)
      BY <2>2 DEF NeedsProof
    <2> QED
      BY <2>2, <2>3, <2>4, <2>5 DEF ViewOK, LocalOK
  <1> QED
    BY <1>2, <1>3

\* A local sprint is put back to shipped only if its merge went through, and
\* then its checkout is still to be proven.
LEMMA ClearStaleBlockKeeps ==
  ASSUME NEW v \in Views, ViewOK(v), NEW restored \in BOOLEAN
  PROVE  ViewOK(ClearStaleBlock(v, restored))
  <1> DEFINE w == ClearStaleBlock(v, restored)
  <1>1. CASE v.phase = "blocked" /\ (StaleBlock(v) \/ Materialized(v, restored))
    <2> DEFINE e == [v.evidence EXCEPT !.status = "passed", !.error = "none"]
    <2>1. w = [v EXCEPT !.phase = "shipped", !.verification = "passed", !.evidence = e]
      BY <1>1 DEF ClearStaleBlock
    <2>4. /\ e \in Evidence /\ e.error = "none"
          /\ e.materialized = v.evidence.materialized
      BY DEF Views, Evidence
    <2> HIDE DEF e
    <2>2. /\ w \in Views /\ w.phase = "shipped" /\ w.verification = "passed"
          /\ w.evidence.error = "none" /\ w.status = v.status
          /\ w.evidence.materialized = v.evidence.materialized
      BY <2>1, <2>4 DEF Views, Phases, Verdicts
    <2>3. ASSUME repo = "local" PROVE LocalOK(w)
      <3>1. ~StaleBlock(v)
        BY <1>1, <2>3 DEF ViewOK, LocalOK, StaleBlock
      <3>2. v.evidence.error = "dirty" /\ AllDone(v.status) /\ main = Tasks
        BY <1>1, <3>1 DEF Materialized
      <3>3. NeedsProof(w)
        BY <2>2, <3>2 DEF ViewOK, NeedsProof
      <3> QED
        BY <2>2, <3>2, <3>3 DEF LocalOK, AllDone
    <2> QED
      BY <2>2, <2>3 DEF ViewOK
  <1>2. CASE ~(v.phase = "blocked" /\ (StaleBlock(v) \/ Materialized(v, restored)))
    BY <1>2 DEF ClearStaleBlock
  <1> QED
    BY <1>1, <1>2

\* After the last of them a local sprint that is shipped has been proven.
LEMMA ReblockKeeps ==
  ASSUME NEW v \in Views, ViewOK(v), NEW builds \in BOOLEAN, NEW t \in Tasks
  PROVE  LET w == Reblock(v, builds, t) IN
         /\ w \in Views
         /\ w.evidence.error = "dirty" => w.evidence.materialized = "none"
         /\ repo = "local" =>
              /\ w.verification = "passed" <=> w.phase = "shipped"
              /\ w.verification = "blocked" <=> w.phase = "blocked"
              /\ w.phase = "shipped" => \A u \in Tasks : w.status[u] # "unintegrated"
              /\ w.phase = "blocked" => \/ w.evidence.workspace \/ w.evidence.error # "none"
                                        \/ w.evidence.status = "none"
              /\ w.phase = "shipped" /\ AllDone(w.status) =>
                    main = Tasks /\ (IF NeedsProof(v) THEN builds ELSE proven)
  <1> DEFINE w == Reblock(v, builds, t)
  <1>1. CASE NeedsProof(v) /\ ~builds
    <2> DEFINE e == [v.evidence EXCEPT !.status = "blocked", !.materialized = "failed",
                                       !.error = "checkout"]
    <2>1. w = [v EXCEPT !.status[t] = "checkout", !.phase = "blocked", !.verification = "blocked",
                        !.evidence = e]
      BY <1>1 DEF Reblock
    <2>3. e \in Evidence /\ e.error = "checkout"
      BY DEF Views, Evidence
    <2> HIDE DEF e
    <2>2. /\ w \in Views /\ w.phase = "blocked" /\ w.verification = "blocked"
          /\ w.evidence.error = "checkout"
      BY <2>1, <2>3 DEF Views, Phases, Verdicts, Statuses
    <2> QED
      BY <2>2
  <1>2. CASE ~(NeedsProof(v) /\ ~builds)
    <2>1. w = v
      BY <1>2 DEF Reblock
    <2> QED
      BY <1>2, <2>1 DEF ViewOK, LocalOK
  <1> QED
    BY <1>1, <1>2

-----------------------------------------------------------------------------
(* Steps.                                                                  *)

\* The row of a sprint, apart from its tasks, is what View says.
LEMMA RowType ==
  ASSUME IInv
  PROVE  /\ status \in [Tasks -> Statuses] /\ phase \in Phases /\ verification \in Verdicts
         /\ evidence \in Evidence
  BY DEF IInv, RowOK, View, Views

\* A row is all right if it is of its type and its verdict fits.
LEMMA RowFromParts ==
  ASSUME status' \in [Tasks -> Statuses], phase' \in Phases, verification' \in Verdicts,
         evidence' \in Evidence
  PROVE  View' \in Views
  BY DEF View, Views

\* A step that leaves sprint and main alone, and makes nothing done that was
\* not, leaves the sprint as consistent as it was.
LEMMA RowStays ==
  ASSUME IInv, UNCHANGED <<repo, row, main, proven>>, status' \in [Tasks -> Statuses],
         AllDone(status)' => AllDone(status),
         \A t \in Tasks : status'[t] = "unintegrated" => status[t] = "unintegrated"
  PROVE  RowOK' /\ ShippedIsDelivered' /\ VerdictMatchesPhase'
  <1>1. View' \in Views
    BY RowType, RowFromParts DEF row
  <1>2. RowOK'
    BY <1>1 DEF IInv, RowOK, row
  <1> QED
    BY <1>2 DEF IInv, ShippedIsDelivered, VerdictMatchesPhase, row

\* A sprint that is not shipped, with evidence that says why, is consistent.
LEMMA RowIsBlocked ==
  ASSUME IInv, status' \in [Tasks -> Statuses], phase' = "blocked", verification' = "blocked",
         evidence' \in Evidence, repo' = repo,
         evidence'.error # "none" \/ evidence'.status = "none",
         evidence'.error = "dirty" => evidence'.materialized = "none"
  PROVE  RowOK' /\ ShippedIsDelivered' /\ VerdictMatchesPhase'
  <1>1. View' \in Views
    BY RowFromParts DEF Phases, Verdicts
  <1> QED
    BY <1>1 DEF RowOK, ShippedIsDelivered, VerdictMatchesPhase

\* Whatever evidence the shipment leaves is of its type.
LEMMA EvidenceFacts ==
  ASSUME NEW t \in Tasks
  PROVE  /\ NoEvidence \in Evidence /\ NoEvidence.error = "none" /\ NoEvidence.status = "none"
         /\ Passed(t) \in Evidence /\ Passed(t).error = "none"
         /\ Passed(t).materialized = "none"
  BY DEF NoEvidence, Passed, Evidence

LEMMA ErrorFacts ==
  ASSUME NEW t \in Tasks, NEW e \in {"merge", "dirty", "pr"}
  PROVE  LET ev == [Passed(t) EXCEPT !.error = e] IN
         ev \in Evidence /\ ev.error = e /\ ev.materialized = "none"
  BY EvidenceFacts DEF Evidence

LEMMA CheckoutErrorFacts ==
  ASSUME NEW t \in Tasks
  PROVE  LET ev == [Passed(t) EXCEPT !.error = "checkout", !.materialized = "failed"] IN
         ev \in Evidence /\ ev.error = "checkout"
  BY EvidenceFacts DEF Evidence

LEMMA MaterializedFacts ==
  ASSUME NEW t \in Tasks
  PROVE  LET ev == [Passed(t) EXCEPT !.materialized = "passed"] IN
         ev \in Evidence /\ ev.error = "none"
  BY EvidenceFacts DEF Evidence

LEMMA InitEstablishes == Init => IInv
  <1> SUFFICES ASSUME Init PROVE IInv
    OBVIOUS
  <1>1. NoEvidence \in Evidence /\ NoEvidence.error = "none"
    BY DEF NoEvidence, Evidence
  <1>2. Controls
    BY NoTaskAssumption DEF Init, Controls, Steps, Repos, StepsWork, WriterIsLast, ReviewsAreRemote
  <1>3. View \in Views
    BY <1>1 DEF Init, View, Views, Statuses, Phases, Verdicts
  <1> QED
    BY <1>1, <1>2, <1>3 DEF Init, IInv, RowOK, ShippedIsDelivered, VerdictMatchesPhase

LEMMA BeginPreserves ==
  ASSUME IInv, NEW t \in Tasks, Begin(t) PROVE IInv'
  <1>1. /\ status' = [status EXCEPT ![t] = "active"] /\ step' = [step EXCEPT ![t] = "busy"]
        /\ step[t] = "idle" /\ writer = NoTask
        /\ UNCHANGED <<repo, row, gates, writer, main, proven, unseen, undecided>>
    BY DEF Begin, To, Commit, Free
  <1>2. status \in [Tasks -> Statuses] /\ status' \in [Tasks -> Statuses]
    BY <1>1, RowType DEF Statuses
  <1>3. Controls'
    BY <1>1, <1>2, NoTaskAssumption
       DEF IInv, Controls, Steps, StepsWork, WriterIsLast, ReviewsAreRemote
  <1>4. RowOK' /\ ShippedIsDelivered' /\ VerdictMatchesPhase'
    BY <1>1, <1>2, RowStays DEF AllDone
  <1> QED
    BY <1>3, <1>4 DEF IInv

LEMMA StepEndsPreserves ==
  ASSUME IInv, NEW t \in Tasks, NEW s \in {"active", "waiting"}, StepEnds(t, s) PROVE IInv'
  <1>1. /\ status' = [status EXCEPT ![t] = s] /\ step' = [step EXCEPT ![t] = "idle"]
        /\ step[t] = "busy" /\ writer = NoTask
        /\ UNCHANGED <<repo, row, gates, writer, main, proven, unseen, undecided>>
    BY DEF StepEnds, To, Commit, Free
  <1>2. status \in [Tasks -> Statuses] /\ status' \in [Tasks -> Statuses]
    BY <1>1, RowType DEF Statuses
  <1>3. Controls'
    BY <1>1, <1>2, NoTaskAssumption
       DEF IInv, Controls, Steps, StepsWork, WriterIsLast, ReviewsAreRemote
  <1>4. RowOK' /\ ShippedIsDelivered' /\ VerdictMatchesPhase'
    BY <1>1, <1>2, RowStays DEF AllDone
  <1> QED
    BY <1>3, <1>4 DEF IInv

\* The stall check leaves a row that says why it is blocked.
LEMMA MarkStalledKeeps ==
  ASSUME IInv, NEW t \in Tasks, NEW s \in {"failed", "blocked"}, Commit(t, s), MarkStalled,
         UNCHANGED <<repo, main, proven>>
  PROVE  status' \in [Tasks -> Statuses] /\ RowOK' /\ ShippedIsDelivered' /\ VerdictMatchesPhase'
  <1>1. status' = [status EXCEPT ![t] = s]
    BY DEF Commit
  <1>2. status \in [Tasks -> Statuses] /\ status' \in [Tasks -> Statuses]
    BY <1>1, RowType DEF Statuses
  <1>3. CASE phase' = "blocked" /\ verification' = "blocked" /\ evidence' = NoEvidence
    BY <1>2, <1>3, EvidenceFacts, RowIsBlocked
  <1>4. CASE UNCHANGED row
    BY <1>1, <1>2, <1>4, RowStays DEF AllDone
  <1> QED
    BY <1>2, <1>3, <1>4 DEF MarkStalled

LEMMA StepFailsPreserves ==
  ASSUME IInv, NEW t \in Tasks, StepFails(t) PROVE IInv'
  <1>1. PICK s \in {"failed", "blocked"} : Commit(t, s)
    BY DEF StepFails
  <1>2. /\ status' = [status EXCEPT ![t] = s] /\ step' = [step EXCEPT ![t] = "idle"]
        /\ step[t] \in {"busy", "integrated"} /\ writer = NoTask /\ MarkStalled
        /\ unseen' = FALSE /\ UNCHANGED <<repo, gates, writer, main, proven, undecided>>
    BY <1>1 DEF StepFails, To, Commit, Free
  <1>3. /\ status \in [Tasks -> Statuses] /\ status' \in [Tasks -> Statuses]
        /\ RowOK' /\ ShippedIsDelivered' /\ VerdictMatchesPhase'
    BY <1>1, <1>2, RowType, MarkStalledKeeps
  <1>4. Controls'
    BY <1>2, <1>3, NoTaskAssumption
       DEF IInv, Controls, Steps, StepsWork, WriterIsLast, ReviewsAreRemote
  <1> QED
    BY <1>3, <1>4 DEF IInv

LEMMA ChainBlocksPreserves ==
  ASSUME IInv, NEW t \in Tasks, ChainBlocks(t) PROVE IInv'
  <1>1. /\ status' = [status EXCEPT ![t] = "blocked"] /\ step' = [step EXCEPT ![t] = "idle"]
        /\ step[t] \in {"busy", "integrated"} /\ writer = NoTask /\ unseen' = TRUE
        /\ UNCHANGED <<repo, row, gates, writer, main, proven, undecided>>
    BY DEF ChainBlocks, To, Commit, Free
  <1>2. status \in [Tasks -> Statuses] /\ status' \in [Tasks -> Statuses]
    BY <1>1, RowType DEF Statuses
  <1>3. Controls'
    BY <1>1, <1>2, NoTaskAssumption
       DEF IInv, Controls, Steps, StepsWork, WriterIsLast, ReviewsAreRemote
  <1>4. RowOK' /\ ShippedIsDelivered' /\ VerdictMatchesPhase'
    BY <1>1, <1>2, RowStays DEF AllDone
  <1> QED
    BY <1>3, <1>4 DEF IInv

\* What is integrated was active: not all tasks are done, and none ships.
LEMMA IntegratePreserves ==
  ASSUME IInv, NEW t \in Tasks, Integrate(t) PROVE IInv'
  <1>1. /\ step' = [step EXCEPT ![t] = "integrated"] /\ step[t] = "busy" /\ main' = main \ {t}
        /\ UNCHANGED <<repo, status, row, gates, writer, proven, unseen, undecided>>
    BY DEF Integrate, To
  <1>2. status[t] = "active"
    BY <1>1 DEF IInv, Controls, StepsWork
  <1>3. writer = NoTask
    BY <1>1, <1>2 DEF IInv, Controls, WriterIsLast
  <1>4. Controls'
    BY <1>1, <1>2, <1>3, NoTaskAssumption
       DEF IInv, Controls, Steps, StepsWork, WriterIsLast, ReviewsAreRemote
  <1>5. View' = View
    BY <1>1 DEF View, row
  <1>6. RowOK' /\ VerdictMatchesPhase'
    BY <1>1, <1>5 DEF IInv, RowOK, VerdictMatchesPhase, row
  <1>7. ShippedIsDelivered'
    BY <1>1, <1>2 DEF ShippedIsDelivered, AllDone
  <1> QED
    BY <1>4, <1>6, <1>7 DEF IInv

LEMMA ConcludeTaskPreserves ==
  ASSUME IInv, NEW t \in Tasks, ConcludeTask(t) PROVE IInv'
  <1>1. /\ status' = [status EXCEPT ![t] = "done"] /\ step' = [step EXCEPT ![t] = "idle"]
        /\ step[t] = "integrated" /\ writer = NoTask /\ ~AllDone(status')
        /\ unseen' = (unseen \/ IsStall(status')) /\ undecided' = FALSE
        /\ UNCHANGED <<repo, row, gates, writer, main, proven>>
    BY DEF ConcludeTask, To, Commit, Free
  <1>2. status \in [Tasks -> Statuses] /\ status' \in [Tasks -> Statuses]
    BY <1>1, RowType DEF Statuses
  <1>3. Controls'
    BY <1>1, <1>2, NoTaskAssumption
       DEF IInv, Controls, Steps, StepsWork, WriterIsLast, ReviewsAreRemote, IsStall
  <1>4. RowOK' /\ ShippedIsDelivered' /\ VerdictMatchesPhase'
    BY <1>1, <1>2, RowStays DEF AllDone
  <1> QED
    BY <1>3, <1>4 DEF IInv

-----------------------------------------------------------------------------
(* The shipment.                                                           *)

LEMMA ShipWithoutRepoPreserves ==
  ASSUME IInv, NEW t \in Tasks, ShipWithoutRepo(t) PROVE IInv'
  <1>1. /\ status' = [status EXCEPT ![t] = "done"] /\ step' = [step EXCEPT ![t] = "idle"]
        /\ repo = "none" /\ step[t] = "integrated" /\ writer = NoTask
        /\ phase' = "shipped" /\ verification' = "passed" /\ evidence' = Passed(t)
        /\ undecided' = FALSE /\ UNCHANGED <<repo, gates, writer, main, proven, unseen>>
    BY DEF ShipWithoutRepo, To, Commit, Free, Ship
  <1>2. status \in [Tasks -> Statuses] /\ status' \in [Tasks -> Statuses]
    BY <1>1, RowType DEF Statuses
  <1>3. Controls'
    BY <1>1, <1>2, NoTaskAssumption
       DEF IInv, Controls, Steps, StepsWork, WriterIsLast, ReviewsAreRemote
  <1>4. View' \in Views /\ evidence'.error = "none"
    BY <1>1, <1>2, EvidenceFacts, RowFromParts DEF Phases, Verdicts
  <1>5. RowOK' /\ ShippedIsDelivered' /\ VerdictMatchesPhase'
    BY <1>1, <1>4 DEF RowOK, ShippedIsDelivered, VerdictMatchesPhase
  <1> QED
    BY <1>3, <1>5 DEF IInv

LEMMA BeginShipmentPreserves ==
  ASSUME IInv, NEW t \in Tasks, BeginShipment(t) PROVE IInv'
  <1>1. /\ step' = [step EXCEPT ![t] = "merging"] /\ step[t] = "integrated"
        /\ repo = "local" /\ writer = NoTask /\ writer' = t
        /\ AllDone([status EXCEPT ![t] = "done"])
        /\ UNCHANGED <<repo, status, row, gates, main, proven, unseen, undecided>>
    BY DEF BeginShipment, To, Free
  <1>2. status \in [Tasks -> Statuses]
    BY RowType
  <1>3. \A u \in Tasks \ {t} : status[u] = "done"
    BY <1>1, <1>2 DEF AllDone
  <1>4. Controls'
    BY <1>1, <1>2, <1>3, NoTaskAssumption
       DEF IInv, Controls, Steps, StepsWork, WriterIsLast, ReviewsAreRemote
  <1>5. RowOK' /\ ShippedIsDelivered' /\ VerdictMatchesPhase'
    BY <1>1, <1>2, RowStays DEF AllDone
  <1> QED
    BY <1>4, <1>5 DEF IInv

\* The task that ships is active, and holds the lock alone.
LEMMA ShipperFacts ==
  ASSUME IInv, NEW t \in Tasks, step[t] \in {"merging", "verifying"}
  PROVE  /\ writer = t /\ status[t] = "active" /\ repo = "local"
         /\ \A u \in Tasks \ {t} : status[u] = "done"
         /\ step[t] = "verifying" => main = Tasks
  BY DEF IInv, Controls, StepsWork, WriterIsLast

LEMMA MergePreserves ==
  ASSUME IInv, NEW t \in Tasks, Merge(t) PROVE IInv'
  <1>1. /\ step' = [step EXCEPT ![t] = "verifying"] /\ step[t] = "merging"
        /\ main' = Tasks /\ proven' = (proven /\ main = Tasks)
        /\ UNCHANGED <<repo, status, row, gates, writer, unseen, undecided>>
    BY DEF Merge, To
  <1>2. status[t] = "active" /\ writer = t
    BY <1>1, ShipperFacts
  <1>3. Controls'
    BY <1>1, <1>2, NoTaskAssumption
       DEF IInv, Controls, Steps, StepsWork, WriterIsLast, ReviewsAreRemote
  <1>4. View' = View
    BY <1>1 DEF View, row
  <1>5. RowOK' /\ VerdictMatchesPhase'
    BY <1>1, <1>4 DEF IInv, RowOK, VerdictMatchesPhase, row
  <1>6. ShippedIsDelivered'
    BY <1>1, <1>2 DEF ShippedIsDelivered, AllDone
  <1> QED
    BY <1>3, <1>5, <1>6 DEF IInv

LEMMA MergeFailsPreserves ==
  ASSUME IInv, NEW t \in Tasks, MergeFails(t) PROVE IInv'
  <1>1. PICK e \in {"merge", "dirty"} : BlockSprint([Passed(t) EXCEPT !.error = e])
    BY DEF MergeFails
  <1>2. /\ status' = [status EXCEPT ![t] = "done"] /\ step' = [step EXCEPT ![t] = "idle"]
        /\ step[t] = "merging" /\ writer' = NoTask /\ undecided' = FALSE
        /\ UNCHANGED <<repo, gates, unseen>>
        /\ main' \in {main, Tasks} /\ proven' \in {proven, proven /\ main = Tasks}
    BY DEF MergeFails, To, Commit
  <1>3. /\ status \in [Tasks -> Statuses] /\ status' \in [Tasks -> Statuses]
        /\ main' \in SUBSET Tasks /\ proven' \in BOOLEAN
    BY <1>2, RowType DEF Statuses, IInv, Controls
  <1>4. Controls'
    BY <1>2, <1>3, ShipperFacts, NoTaskAssumption
       DEF IInv, Controls, Steps, StepsWork, WriterIsLast, ReviewsAreRemote
  <1>5. RowOK' /\ ShippedIsDelivered' /\ VerdictMatchesPhase'
    BY <1>1, <1>2, <1>3, ErrorFacts, RowIsBlocked DEF BlockSprint
  <1> QED
    BY <1>4, <1>5 DEF IInv

LEMMA CheckoutFailsPreserves ==
  ASSUME IInv, NEW t \in Tasks, CheckoutFails(t) PROVE IInv'
  <1>1. /\ status' = [status EXCEPT ![t] = "checkout"] /\ step' = [step EXCEPT ![t] = "idle"]
        /\ step[t] = "verifying" /\ writer' = NoTask /\ proven' = FALSE /\ undecided' = FALSE
        /\ BlockSprint([Passed(t) EXCEPT !.error = "checkout", !.materialized = "failed"])
        /\ UNCHANGED <<repo, gates, main, unseen>>
    BY DEF CheckoutFails, To, Commit
  <1>2. status \in [Tasks -> Statuses] /\ status' \in [Tasks -> Statuses]
    BY <1>1, RowType DEF Statuses
  <1>3. Controls'
    BY <1>1, <1>2, ShipperFacts, NoTaskAssumption
       DEF IInv, Controls, Steps, StepsWork, WriterIsLast, ReviewsAreRemote
  <1>4. RowOK' /\ ShippedIsDelivered' /\ VerdictMatchesPhase'
    BY <1>1, <1>2, CheckoutErrorFacts, RowIsBlocked DEF BlockSprint
  <1> QED
    BY <1>3, <1>4 DEF IInv

\* Main has had the work of every task since the merge, and now it builds.
LEMMA CheckoutBuildsPreserves ==
  ASSUME IInv, NEW t \in Tasks, CheckoutBuilds(t) PROVE IInv'
  <1>1. /\ status' = [status EXCEPT ![t] = "done"] /\ step' = [step EXCEPT ![t] = "idle"]
        /\ step[t] = "verifying" /\ writer' = NoTask /\ proven' = TRUE /\ undecided' = FALSE
        /\ phase' = "shipped" /\ verification' = "passed"
        /\ evidence' = [Passed(t) EXCEPT !.materialized = "passed"]
        /\ UNCHANGED <<repo, gates, main, unseen>>
    BY DEF CheckoutBuilds, To, Commit, Ship
  <1>2. status \in [Tasks -> Statuses] /\ status' \in [Tasks -> Statuses]
    BY <1>1, RowType DEF Statuses
  <1>3. main = Tasks /\ \A u \in Tasks : status'[u] = "done"
    BY <1>1, <1>2, ShipperFacts
  <1>4. Controls'
    BY <1>1, <1>2, <1>3, ShipperFacts, NoTaskAssumption
       DEF IInv, Controls, Steps, StepsWork, WriterIsLast, ReviewsAreRemote
  <1>5. View' \in Views /\ evidence'.error = "none"
    BY <1>1, <1>2, MaterializedFacts, RowFromParts DEF Phases, Verdicts
  <1>6. RowOK' /\ ShippedIsDelivered' /\ VerdictMatchesPhase'
    BY <1>1, <1>3, <1>5 DEF RowOK, ShippedIsDelivered, VerdictMatchesPhase
  <1> QED
    BY <1>4, <1>6 DEF IInv

LEMMA BeginPullRequestPreserves ==
  ASSUME IInv, NEW t \in Tasks, BeginPullRequest(t) PROVE IInv'
  <1>1. /\ status' = [status EXCEPT ![t] = "done"] /\ step' = [step EXCEPT ![t] = "opening"]
        /\ repo = "remote" /\ step[t] = "integrated" /\ writer = NoTask
        /\ verification' = "passed"
        /\ UNCHANGED <<repo, phase, evidence, gates, writer, main, proven, unseen, undecided>>
    BY DEF BeginPullRequest, To, Commit, Free
  <1>2. status \in [Tasks -> Statuses] /\ status' \in [Tasks -> Statuses]
    BY <1>1, RowType DEF Statuses
  <1>3. Controls'
    BY <1>1, <1>2, NoTaskAssumption
       DEF IInv, Controls, Steps, StepsWork, WriterIsLast, ReviewsAreRemote
  <1>4. View' \in Views
    BY <1>1, <1>2, RowType, RowFromParts DEF Verdicts
  <1>5. RowOK' /\ ShippedIsDelivered' /\ VerdictMatchesPhase'
    BY <1>1, <1>4 DEF IInv, RowOK, ShippedIsDelivered, VerdictMatchesPhase
  <1> QED
    BY <1>3, <1>5 DEF IInv

\* Who opens a pull request has a remote to open it at.
LEMMA OpenerFacts ==
  ASSUME IInv, NEW t \in Tasks, step[t] = "opening" PROVE repo = "remote"
  BY DEF IInv, Controls, ReviewsAreRemote

LEMMA OpenPullRequestPreserves ==
  ASSUME IInv, NEW t \in Tasks, OpenPullRequest(t) PROVE IInv'
  <1>1. /\ step' = [step EXCEPT ![t] = "idle"] /\ step[t] = "opening" /\ writer = NoTask
        /\ phase' = "pr_review" /\ evidence' = Passed(t) /\ gates' = gates + 1
        /\ undecided' = FALSE /\ UNCHANGED <<repo, status, verification, writer, main, proven, unseen>>
    BY DEF OpenPullRequest, To, Free
  <1>2. repo = "remote" /\ gates' \in Nat
    BY <1>1, OpenerFacts DEF IInv, Controls
  <1>3. Controls'
    <2>1. /\ step' = [step EXCEPT ![t] = "idle"] /\ step[t] = "opening" /\ writer = NoTask
          /\ repo = "remote" /\ gates' \in Nat /\ undecided' = FALSE
          /\ UNCHANGED <<repo, status, writer, main, proven, unseen>>
      BY <1>1, <1>2
    <2> QED
      BY <2>1, NoTaskAssumption
         DEF IInv, Controls, Steps, StepsWork, WriterIsLast, ReviewsAreRemote
  <1>4. View' \in Views /\ evidence'.error = "none"
    BY <1>1, EvidenceFacts, RowType, RowFromParts DEF Phases
  <1>5. RowOK' /\ ShippedIsDelivered' /\ VerdictMatchesPhase'
    BY <1>1, <1>2, <1>4 DEF RowOK, ShippedIsDelivered, VerdictMatchesPhase
  <1> QED
    BY <1>3, <1>5 DEF IInv

LEMMA PullRequestFailsPreserves ==
  ASSUME IInv, NEW t \in Tasks, PullRequestFails(t) PROVE IInv'
  <1>1. /\ step' = [step EXCEPT ![t] = "idle"] /\ step[t] = "opening" /\ writer = NoTask
        /\ BlockSprint([Passed(t) EXCEPT !.error = "pr"]) /\ undecided' = FALSE
        /\ UNCHANGED <<repo, status, gates, writer, main, proven, unseen>>
    BY DEF PullRequestFails, To, Free
  <1>2. Controls'
    BY <1>1, NoTaskAssumption
       DEF IInv, Controls, Steps, StepsWork, WriterIsLast, ReviewsAreRemote
  <1>3. RowOK' /\ ShippedIsDelivered' /\ VerdictMatchesPhase'
    BY <1>1, RowType, ErrorFacts, RowIsBlocked DEF BlockSprint
  <1> QED
    BY <1>2, <1>3 DEF IInv

LEMMA ShipmentRaisesPreserves ==
  ASSUME IInv, NEW t \in Tasks, ShipmentRaises(t) PROVE IInv'
  <1>1. /\ status' = [status EXCEPT ![t] = "failed"] /\ step' = [step EXCEPT ![t] = "idle"]
        /\ step[t] \in {"merging", "verifying", "opening"} /\ writer \in {t, NoTask}
        /\ writer' = NoTask /\ unseen' = FALSE /\ UNCHANGED <<repo, gates, main, proven, undecided>>
    BY DEF ShipmentRaises, To, Commit
  <1>2. /\ status \in [Tasks -> Statuses] /\ status' \in [Tasks -> Statuses]
        /\ RowOK' /\ ShippedIsDelivered' /\ VerdictMatchesPhase'
    BY RowType, MarkStalledKeeps DEF ShipmentRaises
  <1>3. Controls'
    BY <1>1, <1>2, NoTaskAssumption
       DEF IInv, Controls, Steps, StepsWork, WriterIsLast, ReviewsAreRemote
  <1> QED
    BY <1>2, <1>3 DEF IInv

-----------------------------------------------------------------------------
(* The operators.                                                          *)

LEMMA ResumePreserves ==
  ASSUME IInv, NEW t \in Tasks, Resume(t) PROVE IInv'
  <1>1. PICK s \in {"active", "rejected"} : Commit(t, s) /\ unseen' \in {unseen, TRUE}
    BY DEF Resume
  <1>2. /\ status' = [status EXCEPT ![t] = s] /\ status[t] = "waiting" /\ writer = NoTask
        /\ UNCHANGED <<repo, row, gates, step, writer, main, proven, undecided>>
    BY <1>1 DEF Resume, Commit, Free
  <1>3. status \in [Tasks -> Statuses] /\ status' \in [Tasks -> Statuses]
    BY <1>2, RowType DEF Statuses
  <1>4. Controls'
    BY <1>1, <1>2, <1>3, NoTaskAssumption
       DEF IInv, Controls, Steps, StepsWork, WriterIsLast, ReviewsAreRemote
  <1>5. RowOK' /\ ShippedIsDelivered' /\ VerdictMatchesPhase'
    BY <1>2, <1>3, RowStays DEF AllDone
  <1> QED
    BY <1>4, <1>5 DEF IInv

\* Whoever decides a pull request decides the sprint of a remote.
LEMMA DecidePullRequestPreserves ==
  ASSUME IInv, DecidePullRequest PROVE IInv'
  <1>1. /\ gates \in Nat /\ gates > 0 /\ gates' = gates - 1 /\ writer = NoTask
        /\ UNCHANGED <<repo, verification, evidence, step, writer, main, proven, unseen, undecided>>
    BY DEF DecidePullRequest, Free, IInv, Controls
  <1>2. gates' \in Nat /\ repo = "remote"
    BY <1>1 DEF IInv, Controls, ReviewsAreRemote
  <1>3. status' = status \/ status' = [t \in Tasks |-> "active"]
    BY DEF DecidePullRequest
  <1>4. status' \in [Tasks -> Statuses] /\ phase' \in Phases
    BY <1>3, RowType DEF DecidePullRequest, Statuses, Phases
  <1>5. Controls'
    <2>1. /\ repo = "remote" /\ gates' \in Nat /\ writer = NoTask
          /\ UNCHANGED <<repo, step, writer, main, proven, unseen, undecided>>
      BY <1>1, <1>2
    <2>2. StepsWork'
      BY <2>1, <1>3 DEF IInv, Controls, StepsWork
    <2> QED
      BY <2>1, <2>2, NoTaskAssumption
         DEF IInv, Controls, Steps, WriterIsLast, ReviewsAreRemote
  <1>6. View' \in Views
    BY <1>1, <1>4, RowType, RowFromParts
  <1>7. RowOK' /\ ShippedIsDelivered' /\ VerdictMatchesPhase'
    BY <1>1, <1>2, <1>6 DEF IInv, RowOK, ShippedIsDelivered, VerdictMatchesPhase
  <1> QED
    BY <1>5, <1>7 DEF IInv

LEMMA RecoverPreserves ==
  ASSUME IInv, NEW t \in Tasks, Recover(t) PROVE IInv'
  <1>1. PICK s \in {"active", "pending"} : Commit(t, s)
    BY DEF Recover
  <1>2. /\ status' = [status EXCEPT ![t] = s] /\ writer = NoTask
        /\ status[t] \in {"failed", "unintegrated", "blocked", "checkout", "done"}
        /\ unseen' = (unseen \/ IsStall(status'))
        /\ UNCHANGED <<repo, row, gates, step, writer, main, proven, undecided>>
    BY <1>1 DEF Recover, Recoverable, Commit, Free
  <1>3. status \in [Tasks -> Statuses] /\ status' \in [Tasks -> Statuses]
    BY <1>2, RowType DEF Statuses
  <1>4. unseen' \in BOOLEAN
    BY <1>2 DEF IsStall, IInv, Controls
  <1>5. Controls'
    BY <1>2, <1>3, <1>4, NoTaskAssumption
       DEF IInv, Controls, Steps, StepsWork, WriterIsLast, ReviewsAreRemote
  <1>6. RowOK' /\ ShippedIsDelivered' /\ VerdictMatchesPhase'
    BY <1>2, <1>3, RowStays DEF AllDone
  <1> QED
    BY <1>5, <1>6 DEF IInv

LEMMA PlanAgainPreserves ==
  ASSUME IInv, PlanAgain PROVE IInv'
  <1>1. /\ phase' = "implementation" /\ verification' = "pending"
        /\ unseen' = TRUE /\ undecided' = TRUE
        /\ UNCHANGED <<repo, status, evidence, gates, step, writer, main, proven>>
    BY DEF PlanAgain
  <1>2. Controls'
    BY <1>1 DEF IInv, Controls, StepsWork, WriterIsLast, ReviewsAreRemote
  <1>3. View' \in Views
    BY <1>1, RowType, RowFromParts DEF Phases, Verdicts
  <1>4. RowOK' /\ ShippedIsDelivered' /\ VerdictMatchesPhase'
    BY <1>1, <1>3 DEF IInv, RowOK, ShippedIsDelivered, VerdictMatchesPhase
  <1> QED
    BY <1>2, <1>4 DEF IInv

-----------------------------------------------------------------------------
(* A start of the server: from one reconciler to the next.                 *)

LEMMA RestartPreserves ==
  ASSUME IInv, Restart PROVE IInv'
  <1>1. PICK died \in SUBSET {t \in Tasks : step[t] # "idle" /\ status[t] = "active"},
             changed \in SUBSET Tasks, restored \in BOOLEAN, builds \in BOOLEAN,
             t \in IF evidence.source = NoTask THEN Tasks ELSE {evidence.source} :
             LET v == ClearStaleBlock(BlockUnintegrated(FailOrphaned(View, died), changed), restored)
                 w == Reblock(v, builds, t)
             IN  /\ status' = w.status /\ phase' = w.phase /\ verification' = w.verification
                 /\ evidence' = w.evidence
                 /\ proven' = (IF NeedsProof(v) /\ repo # "none" THEN builds ELSE proven)
                 /\ step' = [u \in Tasks |-> "idle"] /\ writer' = NoTask
                 /\ unseen' = TRUE /\ undecided' = TRUE
                 /\ UNCHANGED <<repo, gates, main>>
    BY DEF Restart
  <1> DEFINE v1 == FailOrphaned(View, died)
             v2 == BlockUnintegrated(v1, changed)
             v  == ClearStaleBlock(v2, restored)
             w  == Reblock(v, builds, t)
  <1>2. /\ status' = w.status /\ phase' = w.phase /\ verification' = w.verification
        /\ evidence' = w.evidence
        /\ proven' = (IF NeedsProof(v) /\ repo # "none" THEN builds ELSE proven)
        /\ step' = [u \in Tasks |-> "idle"] /\ writer' = NoTask
        /\ unseen' = TRUE /\ undecided' = TRUE
        /\ UNCHANGED <<repo, gates, main>>
    BY <1>1
  <1>3. t \in Tasks /\ died \in SUBSET Tasks
    BY <1>1, RowType DEF Evidence
  <1>4. ViewOK(v)
    <2>1. ViewOK(View) /\ View \in Views
      BY ViewFacts DEF ViewOK
    <2>2. ViewOK(v1) /\ v1 \in Views
      BY <2>1, <1>3, FailOrphanedKeeps DEF ViewOK
    <2>3. ViewOK(v2) /\ v2 \in Views
      BY <2>2, BlockUnintegratedKeeps DEF ViewOK
    <2> QED
      BY <2>3, ClearStaleBlockKeeps
  <1>5. v \in Views
    BY <1>4 DEF ViewOK
  <1> HIDE DEF v
  <1>6. /\ w \in Views
        /\ w.evidence.error = "dirty" => w.evidence.materialized = "none"
        /\ repo = "local" =>
             /\ w.verification = "passed" <=> w.phase = "shipped"
             /\ w.verification = "blocked" <=> w.phase = "blocked"
             /\ w.phase = "shipped" => \A u \in Tasks : w.status[u] # "unintegrated"
             /\ w.phase = "blocked" => \/ w.evidence.workspace \/ w.evidence.error # "none"
                                       \/ w.evidence.status = "none"
             /\ w.phase = "shipped" /\ AllDone(w.status) =>
                   main = Tasks /\ (IF NeedsProof(v) THEN builds ELSE proven)
    BY <1>3, <1>4, <1>5, ReblockKeeps
  <1> HIDE DEF w
  <1>7. View' \in Views
    BY <1>2, <1>6, RowFromParts DEF Views
  <1>8. RowOK' /\ ShippedIsDelivered' /\ VerdictMatchesPhase'
    BY <1>2, <1>6, <1>7 DEF RowOK, ShippedIsDelivered, VerdictMatchesPhase
  <1>9. Controls'
    <2>1. proven' \in BOOLEAN
      BY <1>2 DEF IInv, Controls
    <2> QED
      BY <1>2, <2>1, NoTaskAssumption
         DEF IInv, Controls, Steps, StepsWork, WriterIsLast, ReviewsAreRemote
  <1> QED
    BY <1>8, <1>9 DEF IInv

LEMMA NextPreserves ==
  ASSUME IInv, [Next]_vars PROVE IInv'
  <1>1. CASE UNCHANGED vars
    BY <1>1 DEF vars, row, IInv, Controls, StepsWork, WriterIsLast, ReviewsAreRemote, RowOK,
                View, ShippedIsDelivered, VerdictMatchesPhase
  <1>2. CASE DecidePullRequest \/ PlanAgain \/ Restart
    BY <1>2, DecidePullRequestPreserves, PlanAgainPreserves, RestartPreserves
  <1>3. ASSUME NEW t \in Tasks, ChainStep(t) PROVE IInv'
    BY <1>3, BeginPreserves, IntegratePreserves, StepFailsPreserves, ChainBlocksPreserves,
       ConcludeTaskPreserves, StepEndsPreserves DEF ChainStep
  <1>4. ASSUME NEW t \in Tasks, Shipment(t) PROVE IInv'
    BY <1>4, ShipWithoutRepoPreserves, BeginShipmentPreserves, MergePreserves,
       MergeFailsPreserves, CheckoutFailsPreserves, CheckoutBuildsPreserves,
       BeginPullRequestPreserves, OpenPullRequestPreserves, PullRequestFailsPreserves,
       ShipmentRaisesPreserves DEF Shipment
  <1>5. ASSUME NEW t \in Tasks, Resume(t) \/ Recover(t) PROVE IInv'
    BY <1>5, ResumePreserves, RecoverPreserves
  <1> QED
    BY <1>1, <1>2, <1>3, <1>4, <1>5 DEF Next

-----------------------------------------------------------------------------
(* Theorems.                                                               *)

\* The inductive invariant: the write lock, the sprint's row and its evidence
\* stay in step through shipments, failures, recoveries and restarts.
THEOREM SprintInvariant == Spec => []IInv
  <1> QED
    BY InitEstablishes, NextPreserves, PTL DEF Spec

\* Every variable keeps its type, and the one step that ships or verifies is
\* the one that holds the database's write lock.
THEOREM TypeCorrect == Spec => []TypeOK
  <1>1. IInv => TypeOK
    BY RowType DEF IInv, Controls, Steps, Verdicts, TypeOK
  <1> QED
    BY <1>1, SprintInvariant, PTL

\* A local sprint that says it is shipped, with all tasks done, has the work
\* of every task on a main branch whose checkout was built since.
THEOREM ShippedSprintsAreDelivered == Spec => []ShippedIsDelivered
  <1>1. IInv => ShippedIsDelivered
    BY DEF IInv
  <1> QED
    BY <1>1, SprintInvariant, PTL

\* Phase and verification_status of a local sprint never contradict each other.
THEOREM VerdictsMatchPhases == Spec => []VerdictMatchesPhase
  <1>1. IInv => VerdictMatchesPhase
    BY DEF IInv
  <1> QED
    BY <1>1, SprintInvariant, PTL

-----------------------------------------------------------------------------
(* What becomes of a sprint that nothing works on any more.                *)

LEMMA StallMarkStep ==
  ASSUME TypeOK, StallIsMarked, [Next]_vars, TypeOK' PROVE StallIsMarked'
  <1> USE DEF StallIsMarked, Silent
  <1>1. CASE UNCHANGED vars
    BY <1>1 DEF vars, row
  <1>2. ASSUME NEW t \in Tasks, StepFails(t) \/ ShipmentRaises(t) PROVE StallIsMarked'
    <2>1. MarkStalled
      BY <1>2 DEF StepFails, ShipmentRaises
    <2>2. CASE phase = "implementation" /\ IsStall(status')
      BY <2>1, <2>2 DEF MarkStalled
    <2>3. CASE phase # "implementation"
      BY <2>1, <2>3 DEF MarkStalled, row
    <2>4. CASE ~IsStall(status')
      BY <2>4 DEF TypeOK, Statuses, Stopped, IsStall
    <2> QED
      BY <2>2, <2>3, <2>4
  <1>3. ASSUME NEW t \in Tasks, ConcludeTask(t) \/ Recover(t) PROVE StallIsMarked'
    <2>1. unseen' = (unseen \/ IsStall(status'))
      BY <1>3 DEF ConcludeTask, Recover
    <2>2. Silent' => IsStall(status')
      BY DEF TypeOK, Statuses, Stopped, IsStall
    <2> QED
      BY <2>1, <2>2
  <1>4. ASSUME NEW t \in Tasks, ChainBlocks(t) \/ Resume(t) PROVE StallIsMarked'
    BY <1>4 DEF ChainBlocks, Resume, Commit, TypeOK, row
  <1>5. ASSUME NEW t \in Tasks, NEW s \in {"active", "waiting"}, Begin(t) \/ StepEnds(t, s)
        PROVE  StallIsMarked'
    BY <1>5 DEF Begin, StepEnds, Commit, TypeOK
  <1>6. ASSUME NEW t \in Tasks, Integrate(t) \/ BeginShipment(t) \/ Merge(t) PROVE StallIsMarked'
    BY <1>6 DEF Integrate, BeginShipment, Merge, row
  <1>7. ASSUME NEW t \in Tasks,
               \/ ShipWithoutRepo(t) \/ MergeFails(t) \/ CheckoutFails(t) \/ CheckoutBuilds(t)
               \/ OpenPullRequest(t) \/ PullRequestFails(t)
        PROVE  StallIsMarked'
    BY <1>7 DEF ShipWithoutRepo, MergeFails, CheckoutFails, CheckoutBuilds, OpenPullRequest,
                PullRequestFails, Ship, BlockSprint
  <1>8. ASSUME NEW t \in Tasks, BeginPullRequest(t) PROVE StallIsMarked'
    BY <1>8 DEF BeginPullRequest, AllDone
  <1>9. CASE DecidePullRequest
    BY <1>9 DEF DecidePullRequest
  <1>10. CASE PlanAgain \/ Restart
    BY <1>10 DEF PlanAgain, Restart
  <1> QED
    BY <1>1, <1>2, <1>3, <1>4, <1>5, <1>6, <1>7, <1>8, <1>9, <1>10 DEF Next, ChainStep, Shipment

\* A failed step that leaves pending tasks, and nothing that goes on, blocks
\* its sprint: only the ways out named by `unseen` leave one silent.
THEOREM FailuresAreNotSilent == Spec => []StallIsMarked
  <1>1. Init => StallIsMarked
    BY DEF Init, StallIsMarked, Silent
  <1> QED
    BY <1>1, StallMarkStep, TypeCorrect, PTL DEF Spec

LEMMA LastTaskStep ==
  ASSUME Tasks # {}, TypeOK, LastTaskDecides, [Next]_vars PROVE LastTaskDecides'
  <1> USE DEF LastTaskDecides, AllDone
  <1>1. CASE UNCHANGED vars
    BY <1>1 DEF vars, row
  <1>2. ASSUME NEW t \in Tasks, NEW s \in Statuses \ {"done"}, Commit(t, s) PROVE LastTaskDecides'
    BY <1>2 DEF Commit, TypeOK
  <1>3. ASSUME NEW t \in Tasks,
               \/ Begin(t) \/ StepFails(t) \/ ChainBlocks(t) \/ ShipmentRaises(t)
               \/ Resume(t) \/ Recover(t) \/ \E s \in {"active", "waiting"} : StepEnds(t, s)
        PROVE  LastTaskDecides'
    <2>1. \E s \in Statuses \ {"done"} : Commit(t, s)
      BY <1>3 DEF Begin, StepEnds, StepFails, ChainBlocks, ShipmentRaises, Resume, Recover, Statuses
    <2> QED
      BY <2>1, <1>2
  <1>4. ASSUME NEW t \in Tasks,
               Integrate(t) \/ BeginShipment(t) \/ Merge(t) \/ BeginPullRequest(t)
        PROVE  LastTaskDecides'
    BY <1>4 DEF Integrate, BeginShipment, Merge, BeginPullRequest, To, TypeOK
  <1>5. ASSUME NEW t \in Tasks, ConcludeTask(t) PROVE LastTaskDecides'
    BY <1>5 DEF ConcludeTask
  <1>6. ASSUME NEW t \in Tasks,
               \/ ShipWithoutRepo(t) \/ MergeFails(t) \/ CheckoutFails(t) \/ CheckoutBuilds(t)
               \/ OpenPullRequest(t) \/ PullRequestFails(t)
        PROVE  LastTaskDecides'
    BY <1>6 DEF ShipWithoutRepo, MergeFails, CheckoutFails, CheckoutBuilds, OpenPullRequest,
                PullRequestFails, Ship, BlockSprint
  <1>7. CASE DecidePullRequest
    BY <1>7 DEF DecidePullRequest
  <1>8. CASE PlanAgain \/ Restart
    BY <1>8 DEF PlanAgain, Restart
  <1> QED
    BY <1>1, <1>3, <1>4, <1>5, <1>6, <1>7, <1>8 DEF Next, ChainStep, Shipment

\* The task that is done last ships its sprint, blocks it or opens its review.
THEOREM LastTaskConcludes ==
  ASSUME Tasks # {} PROVE Spec => []LastTaskDecides
  <1>1. Init => LastTaskDecides
    BY DEF Init, LastTaskDecides, AllDone
  <1>2. TypeOK /\ LastTaskDecides /\ [Next]_vars => LastTaskDecides'
    BY LastTaskStep
  <1> QED
    BY <1>1, <1>2, TypeCorrect, PTL DEF Spec

\* A sprint that its shipment blocked has a task that an operator can recover,
\* or one that goes on or was rejected.
THEOREM BlockedSprintsHaveAWayOut ==
  ASSUME Tasks # {} PROVE Spec => []BlockedHasWayOut
  <1>1. TypeOK => BlockedHasWayOut
    <2> SUFFICES ASSUME TypeOK, phase = "blocked", evidence.error \in {"merge", "dirty", "checkout"}
                 PROVE  \E t \in Tasks : \/ Recoverable(t)
                                         \/ status[t] \in {"pending", "active", "waiting", "rejected"}
      BY DEF BlockedHasWayOut
    <2>1. PICK t \in Tasks : evidence.source \in {t, NoTask}
      BY DEF TypeOK, Evidence
    <2>2. HasMergeError(t)
      BY <2>1 DEF HasMergeError
    <2> QED
      BY <2>2 DEF TypeOK, Statuses, Recoverable
  <1> QED
    BY <1>1, TypeCorrect, PTL
=============================================================================
