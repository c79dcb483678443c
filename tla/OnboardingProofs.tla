--------------------------- MODULE OnboardingProofs ---------------------------
(***************************************************************************)
(* Proofs about Onboarding for any number of overlapping starts.  What     *)
(* keeps the operator's work is that a pipeline works on a file that is    *)
(* not finished, and that a finished file is turned into such a one only   *)
(* where the history notes it.                                             *)
(***************************************************************************)
EXTENDS Onboarding, TLAPS

Before == [repo_detect |-> {}, project_seed |-> {"repo_detect"},
           work_items |-> {"repo_detect", "project_seed"},
           knowledge |-> {"repo_detect", "project_seed", "work_items"},
           ready |-> {"repo_detect", "project_seed", "work_items", "knowledge"}]

\* A finished file has passed every other phase, a ready one that of readiness.
FileOK(f) ==
    /\ f \in States
    /\ Completed(f) => \A p \in Phases \ {"ready"} : f.phases[p] = "passed"
    /\ f.ready => f.phases["ready"] = "passed"

\* Whoever is on the way to a pipeline, or in one, has an unfinished copy of
\* what its phases have done so far.
CopyOK(s) ==
    /\ copy[s] \in States
    /\ copy[s].ready => pc[s] = "ending"
    /\ pc[s] \in {"preflight", "scheduled"} \cup Phases => ~Completed(copy[s])
    /\ pc[s] \in Phases => \A p \in Before[pc[s]] : copy[s].phases[p] = "passed"

Seeded(s) == pc[s] \in {"work_items", "knowledge", "ready"} => db # "empty"

\* The file is unfinished as long as a pipeline has phases to run.
FileIsOpen(s) == pc[s] \in {"scheduled"} \cup Phases => ~Completed(file)

DatabaseOK ==
    /\ db \in {"empty", "seeded", "work"} /\ forgotten \in BOOLEAN /\ wiped \in BOOLEAN
    /\ Completed(file) => db # "empty"
    /\ db = "work" => forgotten \/ Completed(file)
    /\ WorkIsKept

Controls ==
    /\ code \in BOOLEAN /\ inflight \in BOOLEAN
    /\ pc \in [Starts -> {"idle", "preflight", "scheduled", "ending"} \cup Phases]
    /\ copy \in [Starts -> States]
    /\ OnePipeline

IInv ==
    /\ Controls /\ FileOK(file) /\ DatabaseOK
    /\ \A s \in Starts : CopyOK(s) /\ Seeded(s) /\ FileIsOpen(s)

-----------------------------------------------------------------------------
(* Operators.                                                              *)

Verdicts == {"pending", "passed", "failed"}

\* Setting a phase leaves a state, and the other phases as they were.
LEMMA SetPhaseFacts ==
  ASSUME NEW c \in States, NEW p \in Phases, NEW v \in Verdicts
  PROVE  /\ SetPhase(c, p, v) \in States
         /\ \A q \in Phases : SetPhase(c, p, v).phases[q] = IF q = p THEN v ELSE c.phases[q]
         /\ SetPhase(c, p, v).current = p
         /\ SetPhase(c, p, v).ready = c.ready
  <1> DEFINE d == SetPhase(c, p, v)
  <1>1. c.phases \in [Phases -> Verdicts] /\ d.phases = [c.phases EXCEPT ![p] = v]
    BY DEF SetPhase, States, Verdicts
  <1>2. d \in States /\ d.current = p /\ d.ready = c.ready
    BY DEF SetPhase, States, Verdicts
  <1> QED
    BY <1>1, <1>2

\* A loaded state has the phases of the file; it is finished if the file is,
\* and ready only then.
LEMMA LoadFacts ==
  ASSUME NEW fit \in BOOLEAN, file \in States, code \in BOOLEAN
  PROVE  /\ Load(fit) \in States
         /\ Load(fit).phases = file.phases
         /\ Completed(Load(fit)) <=> Completed(file)
         /\ Load(fit).ready <=> Completed(file) /\ fit
  BY DEF Load, States, Completed, Classified, Modes, Phases

\* Nothing has happened in a default state.
LEMMA DefaultFacts ==
  ASSUME code \in BOOLEAN
  PROVE  /\ DefaultState \in States /\ ~Completed(DefaultState) /\ ~DefaultState.ready
         /\ [DefaultState EXCEPT !.mode = "reverse"] \in States
         /\ ~[DefaultState EXCEPT !.mode = "reverse"].ready
  BY DEF DefaultState, States, Completed, Classified, Modes, Phases

\* Setting readiness, or the mode, leaves the phases alone.
LEMMA SetReadyFacts ==
  ASSUME NEW c \in States, NEW b \in BOOLEAN
  PROVE  /\ [c EXCEPT !.ready = b] \in States /\ [c EXCEPT !.ready = b].phases = c.phases
         /\ [c EXCEPT !.ready = b].current = c.current /\ [c EXCEPT !.ready = b].ready = b
  BY DEF States

LEMMA SetModeFacts ==
  ASSUME NEW c \in States, NEW m \in Modes
  PROVE  /\ [c EXCEPT !.mode = m] \in States /\ [c EXCEPT !.mode = m].phases = c.phases
         /\ [c EXCEPT !.mode = m].current = c.current /\ [c EXCEPT !.mode = m].ready = c.ready
  BY DEF States

-----------------------------------------------------------------------------
(* The start of an onboarding.                                             *)

\* At first nothing has happened.
LEMMA InitEstablishes == Init => IInv
  <1> SUFFICES ASSUME Init PROVE IInv
    OBVIOUS
  <1>1. DefaultState \in States /\ ~Completed(DefaultState) /\ ~DefaultState.ready
    BY DefaultFacts DEF Init
  <1>2. Controls /\ FileOK(file) /\ DatabaseOK
    BY <1>1 DEF Init, Controls, FileOK, DatabaseOK, OnePipeline, InPipeline, WorkIsKept
  <1>3. ASSUME NEW s \in Starts PROVE CopyOK(s) /\ Seeded(s) /\ FileIsOpen(s)
    BY <1>1 DEF Init, CopyOK, Seeded, FileIsOpen, Phases
  <1> QED
    BY <1>2, <1>3 DEF IInv

\* A state that must be run is not finished, as a finished one has its project.
LEMMA MustRunIsUnfinished ==
  ASSUME IInv, NEW fit \in BOOLEAN, MustRun(Load(fit))
  PROVE  /\ Load(fit) \in States /\ ~Load(fit).ready
         /\ ~Completed(Load(fit)) /\ ~Completed(file)
  BY LoadFacts DEF IInv, Controls, FileOK, DatabaseOK, MustRun

\* An unfinished copy can be scheduled.
LEMMA SchedulePreserves ==
  ASSUME IInv, NEW s \in Starts, NEW c \in States, ~c.ready, ~Completed(c),
         pc[s] \in {"idle", "preflight"}, Schedule(s, c),
         UNCHANGED <<code, db, wiped>>, forgotten' = (forgotten \/ Completed(file))
  PROVE  IInv'
  <1>1. /\ pc' = [pc EXCEPT ![s] = "scheduled"] /\ copy' = [copy EXCEPT ![s] = c]
        /\ file' = c /\ ~inflight /\ inflight' = TRUE
    BY DEF Schedule
  <1>2. Controls'
    BY <1>1 DEF IInv, Controls, OnePipeline, InPipeline
  <1>3. FileOK(file)' /\ DatabaseOK'
    BY <1>1 DEF IInv, Controls, FileOK, DatabaseOK, WorkIsKept, Completed
  <1>4. ASSUME NEW t \in Starts PROVE (CopyOK(t) /\ Seeded(t) /\ FileIsOpen(t))'
    BY <1>1 DEF IInv, Controls, CopyOK, Seeded, FileIsOpen, Phases, Completed
  <1> QED
    BY <1>2, <1>3, <1>4 DEF IInv

LEMMA StartForwardPreserves ==
  ASSUME IInv, NEW s \in Starts, StartForward(s) PROVE IInv'
  <1>1. PICK fit \in BOOLEAN : MustRun(Load(fit)) /\ Schedule(s, Load(fit))
    BY DEF StartForward
  <1>2. /\ Load(fit) \in States /\ ~Load(fit).ready
        /\ ~Completed(Load(fit)) /\ ~Completed(file)
    BY <1>1, MustRunIsUnfinished
  <1>3. pc[s] = "idle" /\ UNCHANGED <<code, db, forgotten, wiped>> /\ forgotten \in BOOLEAN
    BY DEF StartForward, IInv, DatabaseOK
  <1> QED
    BY <1>1, <1>2, <1>3, SchedulePreserves

LEMMA StartReversePreserves ==
  ASSUME IInv, NEW s \in Starts, StartReverse(s) PROVE IInv'
  <1>1. PICK fit \in BOOLEAN :
          /\ MustRun(Load(fit))
          /\ pc' = [pc EXCEPT ![s] = "preflight"] /\ copy' = [copy EXCEPT ![s] = Load(fit)]
    BY DEF StartReverse
  <1>2. Load(fit) \in States /\ ~Load(fit).ready /\ ~Completed(Load(fit))
    BY <1>1, MustRunIsUnfinished
  <1>3. pc[s] = "idle" /\ UNCHANGED <<code, file, db, inflight, forgotten, wiped>>
    BY DEF StartReverse
  <1>4. Controls'
    BY <1>1, <1>2, <1>3 DEF IInv, Controls, OnePipeline, InPipeline
  <1>5. FileOK(file)' /\ DatabaseOK'
    BY <1>3 DEF IInv, FileOK, DatabaseOK, WorkIsKept, Completed
  <1>6. ASSUME NEW t \in Starts PROVE (CopyOK(t) /\ Seeded(t) /\ FileIsOpen(t))'
    BY <1>1, <1>2, <1>3 DEF IInv, Controls, CopyOK, Seeded, FileIsOpen, Phases, Completed
  <1> QED
    BY <1>4, <1>5, <1>6 DEF IInv

\* A request that ends leaves nothing behind.
LEMMA LeaveFacts ==
  ASSUME IInv, NEW s \in Starts, Leave(s)
  PROVE  /\ pc' = [pc EXCEPT ![s] = "idle"]
         /\ pc' \in [Starts -> {"idle", "preflight", "scheduled", "ending"} \cup Phases]
         /\ copy' \in [Starts -> States] /\ ~copy'[s].ready
         /\ \A t \in Starts \ {s} : copy'[t] = copy[t]
  BY DefaultFacts DEF IInv, Controls, Leave

LEMMA PreflightFailsPreserves ==
  ASSUME IInv, NEW s \in Starts, PreflightFails(s) PROVE IInv'
  <1> DEFINE f == [SetPhase(copy[s], "repo_detect", "failed") EXCEPT !.ready = FALSE]
  <1>1. /\ pc[s] = "preflight" /\ file' = f /\ Leave(s)
        /\ forgotten' = (forgotten \/ Completed(file)) /\ UNCHANGED <<code, db, inflight, wiped>>
    BY DEF PreflightFails, Forgets
  <1>2. copy[s] \in States /\ ~Completed(copy[s])
    BY <1>1 DEF IInv, CopyOK
  <1>3. f \in States /\ ~f.ready /\ ~Completed(f)
    <2>1. /\ SetPhase(copy[s], "repo_detect", "failed") \in States
          /\ SetPhase(copy[s], "repo_detect", "failed").phases["ready"] = copy[s].phases["ready"]
          /\ SetPhase(copy[s], "repo_detect", "failed").current = "repo_detect"
      BY <1>2, SetPhaseFacts DEF Phases, Verdicts
    <2> QED
      BY <1>2, <2>1, SetReadyFacts DEF Completed
  <1>4. Controls'
    BY <1>1, LeaveFacts DEF IInv, Controls, OnePipeline, InPipeline
  <1>5. FileOK(file)' /\ DatabaseOK'
    BY <1>1, <1>3 DEF IInv, FileOK, DatabaseOK, WorkIsKept, Completed
  <1>6. ASSUME NEW t \in Starts PROVE (CopyOK(t) /\ Seeded(t) /\ FileIsOpen(t))'
    BY <1>1, <1>3, LeaveFacts DEF IInv, Controls, CopyOK, Seeded, FileIsOpen, Phases, Completed
  <1> QED
    BY <1>4, <1>5, <1>6 DEF IInv

LEMMA PreflightPassesPreserves ==
  ASSUME IInv, NEW s \in Starts, PreflightPasses(s) PROVE IInv'
  <1>1. pc[s] = "preflight" /\ UNCHANGED <<code, db, wiped>>
    BY DEF PreflightPasses
  <1>2. copy[s] \in States /\ ~copy[s].ready /\ ~Completed(copy[s])
    BY <1>1 DEF IInv, CopyOK
  <1>3. CASE Schedule(s, copy[s]) /\ Forgets
    BY <1>1, <1>2, <1>3, SchedulePreserves DEF Forgets
  <1>4. CASE inflight /\ Leave(s) /\ UNCHANGED <<file, inflight, forgotten>>
    <2>1. Controls'
      BY <1>1, <1>4, LeaveFacts DEF IInv, Controls, OnePipeline, InPipeline
    <2>2. FileOK(file)' /\ DatabaseOK'
      BY <1>1, <1>4 DEF IInv, FileOK, DatabaseOK, WorkIsKept, Completed
    <2>3. ASSUME NEW t \in Starts PROVE (CopyOK(t) /\ Seeded(t) /\ FileIsOpen(t))'
      BY <1>1, <1>4, LeaveFacts DEF IInv, Controls, CopyOK, Seeded, FileIsOpen, Phases, Completed
    <2> QED
      BY <2>1, <2>2, <2>3 DEF IInv
  <1> QED
    BY <1>3, <1>4 DEF PreflightPasses

\* A retry changes neither what is finished nor what has passed.
LEMMA ResetPhasesPreserves ==
  ASSUME IInv, ResetPhases PROVE IInv'
  <1>1. PICK fit \in BOOLEAN :
          /\ ~Load(fit).ready
          /\ file' = [Load(fit) EXCEPT !.phases = [p \in Phases |->
                         IF Load(fit).phases[p] = "failed" THEN "pending"
                         ELSE Load(fit).phases[p]]]
          /\ UNCHANGED <<code, db, coroutines, forgotten, wiped>>
    BY DEF ResetPhases
  <1>2. /\ Load(fit) \in States /\ Load(fit).phases = file.phases
        /\ Completed(Load(fit)) <=> Completed(file)
    BY LoadFacts DEF IInv, Controls, FileOK
  <1>3. /\ file' \in States /\ ~file'.ready
        /\ \A p \in Phases : file'.phases[p] = "passed" <=> file.phases[p] = "passed"
        /\ file'.current = Load(fit).current
    BY <1>1, <1>2 DEF States
  <1>4. Completed(file)' <=> Completed(file)
    BY <1>2, <1>3 DEF Completed, Phases
  <1>5. FileOK(file)' /\ DatabaseOK'
    BY <1>1, <1>3, <1>4 DEF IInv, FileOK, DatabaseOK, WorkIsKept
  <1>6. Controls'
    BY <1>1 DEF IInv, Controls, OnePipeline, InPipeline, coroutines
  <1>7. ASSUME NEW t \in Starts PROVE (CopyOK(t) /\ Seeded(t) /\ FileIsOpen(t))'
    BY <1>1, <1>4 DEF IInv, CopyOK, Seeded, FileIsOpen, coroutines, Completed
  <1> QED
    BY <1>5, <1>6, <1>7 DEF IInv

LEMMA RefreshCompletedPreserves ==
  ASSUME IInv, RefreshCompleted PROVE IInv'
  <1>1. PICK before, now \in BOOLEAN :
          /\ Completed(Load(before)) /\ db # "empty"
          /\ file' = [SetPhase(Load(before), "ready", IF now THEN "passed" ELSE "failed")
                          EXCEPT !.ready = now]
          /\ UNCHANGED <<code, db, coroutines, forgotten, wiped>>
    BY DEF RefreshCompleted
  <1> DEFINE c == Load(before)
             d == SetPhase(c, "ready", IF now THEN "passed" ELSE "failed")
  <1>2. c \in States /\ c.phases = file.phases /\ Completed(file)
    BY <1>1, LoadFacts DEF IInv, Controls, FileOK
  <1>3. /\ d \in States /\ d.phases["ready"] = (IF now THEN "passed" ELSE "failed")
        /\ \A q \in Phases \ {"ready"} : d.phases[q] = c.phases[q]
        /\ d.current = "ready"
    BY <1>2, SetPhaseFacts DEF Phases, Verdicts
  <1>4. file' \in States /\ file'.phases = d.phases /\ file'.ready = now /\ Completed(file)'
    BY <1>1, <1>3, SetReadyFacts DEF Completed
  <1>5. FileOK(file)' /\ DatabaseOK'
    BY <1>1, <1>2, <1>3, <1>4 DEF IInv, FileOK, DatabaseOK, WorkIsKept
  <1>6. Controls'
    BY <1>1 DEF IInv, Controls, OnePipeline, InPipeline, coroutines
  <1>7. ASSUME NEW t \in Starts PROVE (CopyOK(t) /\ Seeded(t) /\ FileIsOpen(t))'
    BY <1>1, <1>2 DEF IInv, CopyOK, Seeded, FileIsOpen, coroutines, Completed
  <1> QED
    BY <1>5, <1>6, <1>7 DEF IInv

-----------------------------------------------------------------------------
(* The pipeline.                                                           *)

\* A pipeline that has phases to run is alone, and works on an open file.
LEMMA PipelineFacts ==
  ASSUME IInv, NEW s \in Starts, pc[s] \in {"scheduled"} \cup Phases
  PROVE  /\ copy[s] \in States /\ ~copy[s].ready /\ ~Completed(copy[s]) /\ ~Completed(file)
         /\ inflight
         /\ \A t \in Starts \ {s} : pc[t] \in {"idle", "preflight"}
         /\ db = "work" => forgotten
  BY DEF IInv, Controls, CopyOK, FileIsOpen, OnePipeline, InPipeline, DatabaseOK, Phases

\* A step of a pipeline that saves an unfinished copy, and goes on with what
\* that copy has passed.
LEMMA SavePreserves ==
  ASSUME IInv, NEW s \in Starts, pc[s] \in {"scheduled"} \cup Phases,
         NEW c \in States, ~c.ready, ~Completed(c), Save(s, c),
         NEW p \in {"ending"} \cup Phases, Goto(s, p),
         p \in Phases => \A q \in Before[p] : c.phases[q] = "passed",
         p \in {"work_items", "knowledge", "ready"} => db' # "empty",
         db' \in {"empty", "seeded", "work"}, db' = "work" => db = "work",
         wiped' \in BOOLEAN, wiped' => wiped \/ db = "work",
         UNCHANGED <<code, inflight, forgotten>>
  PROVE  IInv'
  <1>1. /\ pc' = [pc EXCEPT ![s] = p] /\ copy' = [copy EXCEPT ![s] = c] /\ file' = c
    BY DEF Save, Goto
  <1>2. Controls'
    BY <1>1, PipelineFacts DEF IInv, Controls, OnePipeline, InPipeline, Phases
  <1>3. FileOK(file)' /\ DatabaseOK'
    BY <1>1, PipelineFacts DEF IInv, FileOK, DatabaseOK, WorkIsKept, Completed
  <1>4. (CopyOK(s) /\ Seeded(s) /\ FileIsOpen(s))'
    BY <1>1 DEF IInv, Controls, CopyOK, Seeded, FileIsOpen, Phases, Completed
  <1>5. ASSUME NEW t \in Starts, t # s PROVE (CopyOK(t) /\ Seeded(t) /\ FileIsOpen(t))'
    BY <1>1, <1>5, PipelineFacts DEF IInv, Controls, CopyOK, Seeded, FileIsOpen, Phases, Completed
  <1> QED
    BY <1>2, <1>3, <1>4, <1>5 DEF IInv

\* A phase that passes, or fails, leaves the copy unfinished, but for the last.
LEMMA PhaseLeavesUnfinished ==
  ASSUME NEW c \in States, ~Completed(c), NEW p \in Phases \ {"ready"}, NEW v \in Verdicts
  PROVE  ~Completed(SetPhase(c, p, v))
  <1>1. p \in Phases /\ "ready" \in Phases /\ p # "ready"
    BY DEF Phases
  <1>2. SetPhase(c, p, v).phases["ready"] = c.phases["ready"] /\ SetPhase(c, p, v).current = p
    BY <1>1, SetPhaseFacts
  <1> QED
    BY <1>1, <1>2 DEF Completed

LEMMA BeginPipelinePreserves ==
  ASSUME IInv, NEW s \in Starts, BeginPipeline(s) PROVE IInv'
  <1>1. PICK fit \in BOOLEAN : Save(s, Load(fit))
    BY DEF BeginPipeline
  <1>2. /\ pc[s] = "scheduled" /\ Goto(s, "repo_detect")
        /\ UNCHANGED <<code, db, inflight, forgotten, wiped>>
    BY DEF BeginPipeline, At
  <1>3. Load(fit) \in States /\ ~Load(fit).ready /\ ~Completed(Load(fit))
    BY <1>2, LoadFacts, PipelineFacts DEF IInv, Controls, FileOK
  <1>4. db \in {"empty", "seeded", "work"} /\ wiped \in BOOLEAN
    BY DEF IInv, DatabaseOK
  <1> QED
    BY <1>1, <1>2, <1>3, <1>4, SavePreserves DEF Before, Phases

LEMMA RepoDetectPreserves ==
  ASSUME IInv, NEW s \in Starts, RepoDetect(s) PROVE IInv'
  <1> DEFINE d == SetPhase(copy[s], "repo_detect", "passed")
             c == [d EXCEPT !.mode = Classified]
  <1>1. /\ pc[s] = "repo_detect" /\ Goto(s, "project_seed") /\ Save(s, c)
        /\ UNCHANGED <<code, db, inflight, forgotten, wiped>>
    BY DEF RepoDetect, At
  <1>2. copy[s] \in States /\ ~copy[s].ready /\ ~Completed(copy[s])
    BY <1>1, PipelineFacts DEF Phases
  <1>3. d \in States /\ d.phases["repo_detect"] = "passed" /\ ~d.ready /\ ~Completed(d)
    <2>1. "repo_detect" \in Phases \ {"ready"} /\ "passed" \in Verdicts
      BY DEF Phases, Verdicts
    <2>2. d \in States /\ d.phases["repo_detect"] = "passed" /\ ~d.ready
      BY <1>2, <2>1, SetPhaseFacts
    <2>3. ~Completed(d)
      BY <1>2, <2>1, PhaseLeavesUnfinished
    <2> QED
      BY <2>2, <2>3
  <1>4. Classified \in Modes
    BY DEF Classified, Modes
  <1>5. c \in States /\ c.phases["repo_detect"] = "passed" /\ ~c.ready /\ ~Completed(c)
    BY <1>3, <1>4, SetModeFacts DEF Completed
  <1>6. db \in {"empty", "seeded", "work"} /\ wiped \in BOOLEAN
    BY DEF IInv, DatabaseOK
  <1> QED
    BY <1>1, <1>5, <1>6, SavePreserves DEF Before, Phases

\* What a phase that passes hands on.
LEMMA PassFacts ==
  ASSUME IInv, NEW s \in Starts, NEW p \in Phases \ {"repo_detect", "ready"}, Pass(s, p)
  PROVE  /\ pc[s] = p /\ Goto(s, After[p]) /\ After[p] \in {"work_items", "knowledge", "ready"}
         /\ \E c \in States : /\ ~c.ready /\ ~Completed(c) /\ Save(s, c)
                             /\ \A q \in Before[After[p]] : c.phases[q] = "passed"
  <1> DEFINE c == SetPhase(copy[s], p, "passed")
  <1>1. pc[s] = p /\ Goto(s, After[p]) /\ Save(s, c)
    BY DEF Pass, At
  <1>2. copy[s] \in States /\ ~copy[s].ready /\ ~Completed(copy[s])
    BY <1>1, PipelineFacts
  <1>3. \A q \in Before[p] : copy[s].phases[q] = "passed"
    BY <1>1 DEF IInv, CopyOK
  <1>4. /\ c \in States /\ ~c.ready /\ ~Completed(c)
        /\ c.phases[p] = "passed" /\ \A q \in Phases \ {p} : c.phases[q] = copy[s].phases[q]
    <2>1. p \in Phases \ {"ready"} /\ "passed" \in Verdicts
      BY DEF Verdicts
    <2>2. /\ c \in States /\ ~c.ready
          /\ c.phases[p] = "passed" /\ \A q \in Phases \ {p} : c.phases[q] = copy[s].phases[q]
      BY <1>2, <2>1, SetPhaseFacts
    <2>3. ~Completed(c)
      BY <1>2, <2>1, PhaseLeavesUnfinished
    <2> QED
      BY <2>2, <2>3
  <1>5. /\ After[p] \in {"work_items", "knowledge", "ready"}
        /\ Before[After[p]] = Before[p] \cup {p} /\ Before[p] \subseteq Phases \ {p}
    BY DEF After, Before, Phases
  <1> QED
    BY <1>1, <1>3, <1>4, <1>5

LEMMA ProjectSeedPreserves ==
  ASSUME IInv, NEW s \in Starts, ProjectSeed(s) PROVE IInv'
  <1>1. Pass(s, "project_seed") /\ UNCHANGED <<code, inflight, forgotten>>
    BY DEF ProjectSeed
  <1> DEFINE p == "project_seed"
  <1>2. p \in Phases \ {"repo_detect", "ready"} /\ After[p] = "work_items"
    BY DEF Phases, After
  <1>4. pc[s] = p /\ Goto(s, After[p])
    BY <1>1, <1>2, PassFacts
  <1>5. PICK c \in States : /\ ~c.ready /\ ~Completed(c) /\ Save(s, c)
                           /\ \A q \in Before[After[p]] : c.phases[q] = "passed"
    BY <1>1, <1>2, PassFacts
  <1>3. /\ db' # "empty" /\ db' \in {"empty", "seeded", "work"} /\ wiped' \in BOOLEAN
        /\ db' = "work" => db = "work"
        /\ wiped' => wiped \/ db = "work"
    BY DEF ProjectSeed, IInv, DatabaseOK
  <1> QED
    <2>1. /\ pc[s] \in {"scheduled"} \cup Phases /\ Goto(s, "work_items")
          /\ "work_items" \in {"ending"} \cup Phases
          /\ \A q \in Before["work_items"] : c.phases[q] = "passed"
      BY <1>2, <1>4, <1>5 DEF Phases
    <2> HIDE DEF p
    <2> QED
      BY <1>1, <1>3, <1>5, <2>1, SavePreserves

LEMMA ScanAndExtractPreserves ==
  ASSUME IInv, NEW s \in Starts, SeedWorkItems(s) \/ ExtractKnowledge(s) PROVE IInv'
  <1>1. PICK p \in {"work_items", "knowledge"} : Pass(s, p)
    BY DEF SeedWorkItems, ExtractKnowledge
  <1>2. /\ pc[s] = p /\ Goto(s, After[p]) /\ After[p] \in Phases
    BY <1>1, PassFacts DEF Phases
  <1>5. PICK c \in States : /\ ~c.ready /\ ~Completed(c) /\ Save(s, c)
                           /\ \A q \in Before[After[p]] : c.phases[q] = "passed"
    BY <1>1, PassFacts DEF Phases
  <1>3. UNCHANGED <<code, db, inflight, forgotten, wiped>>
    BY DEF SeedWorkItems, ExtractKnowledge
  <1>4. db # "empty" /\ db \in {"empty", "seeded", "work"} /\ wiped \in BOOLEAN
    BY <1>2 DEF IInv, Seeded, DatabaseOK
  <1> QED
    BY <1>2, <1>3, <1>4, <1>5, SavePreserves DEF Phases

LEMMA PhaseFailsPreserves ==
  ASSUME IInv, NEW s \in Starts, PhaseFails(s) PROVE IInv'
  <1> DEFINE at == IF pc[s] = "ready" THEN "knowledge" ELSE pc[s]
             d == SetPhase(copy[s], at, "failed")
             c == [d EXCEPT !.ready = FALSE]
  <1>1. /\ pc[s] \in Phases /\ Goto(s, "ending") /\ Save(s, c)
        /\ UNCHANGED <<code, db, inflight, forgotten, wiped>>
    BY DEF PhaseFails
  <1>2. copy[s] \in States /\ ~Completed(copy[s]) /\ at \in Phases \ {"ready"}
    BY <1>1, PipelineFacts DEF Phases
  <1>3. d \in States /\ ~Completed(d)
    BY <1>2, SetPhaseFacts, PhaseLeavesUnfinished DEF Verdicts
  <1>4. c \in States /\ ~c.ready /\ ~Completed(c)
    BY <1>3, SetReadyFacts DEF Completed
  <1>5. db \in {"empty", "seeded", "work"} /\ wiped \in BOOLEAN
    BY DEF IInv, DatabaseOK
  <1> QED
    BY <1>1, <1>4, <1>5, SavePreserves DEF Phases

\* The last phase finishes a file whose other phases have passed.
LEMMA AssessReadinessPreserves ==
  ASSUME IInv, NEW s \in Starts, AssessReadiness(s) PROVE IInv'
  <1>1. PICK fit \in BOOLEAN :
          Save(s, [SetPhase(copy[s], "ready", IF fit THEN "passed" ELSE "failed")
                       EXCEPT !.ready = fit])
    BY DEF AssessReadiness
  <1> DEFINE d == SetPhase(copy[s], "ready", IF fit THEN "passed" ELSE "failed")
             c == [d EXCEPT !.ready = fit]
  <1>2. /\ pc[s] = "ready" /\ pc' = [pc EXCEPT ![s] = "ending"]
        /\ copy' = [copy EXCEPT ![s] = c] /\ file' = c
        /\ UNCHANGED <<code, db, inflight, forgotten, wiped>>
    BY <1>1 DEF AssessReadiness, At, Goto, Save
  <1>3. /\ copy[s] \in States /\ db # "empty" /\ inflight
        /\ \A t \in Starts \ {s} : pc[t] \in {"idle", "preflight"}
    BY <1>2, PipelineFacts DEF IInv, Seeded, Phases
  <1>4. \A q \in Phases \ {"ready"} : copy[s].phases[q] = "passed"
    BY <1>2 DEF IInv, CopyOK, Before, Phases
  <1>5. /\ d \in States /\ d.phases["ready"] = (IF fit THEN "passed" ELSE "failed")
        /\ d.current = "ready"
        /\ \A q \in Phases \ {"ready"} : d.phases[q] = copy[s].phases[q]
    BY <1>3, SetPhaseFacts DEF Phases, Verdicts
  <1>6. c \in States /\ c.phases = d.phases /\ c.ready = fit /\ Completed(c)
    BY <1>5, SetReadyFacts DEF Completed
  <1>7. FileOK(c) /\ file' = c
    BY <1>2, <1>4, <1>5, <1>6 DEF FileOK
  <1>8. Controls'
    BY <1>2, <1>3, <1>6 DEF IInv, Controls, OnePipeline, InPipeline
  <1>9. DatabaseOK'
    BY <1>2, <1>3, <1>6 DEF IInv, DatabaseOK, WorkIsKept, Completed
  <1>10. FileOK(file)'
    BY <1>7 DEF FileOK, Completed
  <1>11. ASSUME NEW t \in Starts PROVE (CopyOK(t) /\ Seeded(t) /\ FileIsOpen(t))'
    BY <1>2, <1>3, <1>6 DEF IInv, Controls, CopyOK, Seeded, FileIsOpen, Phases, Completed
  <1> QED
    BY <1>8, <1>9, <1>10, <1>11 DEF IInv

LEMMA EndPipelinePreserves ==
  ASSUME IInv, NEW s \in Starts, EndPipeline(s) PROVE IInv'
  <1>1. /\ pc[s] = "ending" /\ ~inflight' /\ inflight' \in BOOLEAN /\ Leave(s)
        /\ UNCHANGED <<code, file, db, forgotten, wiped>>
    BY DEF EndPipeline, At
  <1>2. Controls'
    BY <1>1, LeaveFacts DEF IInv, Controls, OnePipeline, InPipeline
  <1>3. FileOK(file)' /\ DatabaseOK'
    BY <1>1 DEF IInv, FileOK, DatabaseOK, WorkIsKept, Completed
  <1>4. ASSUME NEW t \in Starts PROVE (CopyOK(t) /\ Seeded(t) /\ FileIsOpen(t))'
    BY <1>1, LeaveFacts DEF IInv, Controls, CopyOK, Seeded, FileIsOpen, Phases, Completed
  <1> QED
    BY <1>2, <1>3, <1>4 DEF IInv

-----------------------------------------------------------------------------
(* The rest of the system.                                                 *)

LEMMA WorkPreserves ==
  ASSUME IInv, Work PROVE IInv'
  <1>1. db' = "work" /\ db = "seeded" /\ UNCHANGED <<code, file, coroutines, forgotten, wiped>>
    BY DEF Work
  <1>2. Completed(file)
    BY LoadFacts DEF Work, IInv, Controls, FileOK
  <1> QED
    BY <1>1, <1>2 DEF IInv, Controls, OnePipeline, InPipeline, FileOK, DatabaseOK, WorkIsKept,
                      CopyOK, Seeded, FileIsOpen, Completed, coroutines

LEMMA CodeAppearsPreserves ==
  ASSUME IInv, CodeAppears PROVE IInv'
  BY DEF CodeAppears, IInv, Controls, OnePipeline, InPipeline, FileOK, DatabaseOK, WorkIsKept,
         CopyOK, Seeded, FileIsOpen, Completed, coroutines

LEMMA LoseFilePreserves ==
  ASSUME IInv, LoseFile PROVE IInv'
  <1>1. /\ file' = DefaultState /\ forgotten' = TRUE
        /\ UNCHANGED <<code, db, coroutines, wiped>>
    BY DEF LoseFile
  <1>2. DefaultState \in States /\ ~Completed(DefaultState) /\ ~DefaultState.ready
    BY DefaultFacts DEF IInv, Controls
  <1>3. FileOK(file)' /\ DatabaseOK'
    BY <1>1, <1>2 DEF IInv, FileOK, DatabaseOK, WorkIsKept, Completed
  <1>4. Controls'
    BY <1>1 DEF IInv, Controls, OnePipeline, InPipeline, coroutines
  <1>5. ASSUME NEW t \in Starts PROVE (CopyOK(t) /\ Seeded(t) /\ FileIsOpen(t))'
    BY <1>1, <1>2 DEF IInv, CopyOK, Seeded, FileIsOpen, Completed, coroutines
  <1> QED
    BY <1>3, <1>4, <1>5 DEF IInv

LEMMA RestartPreserves ==
  ASSUME IInv, Restart PROVE IInv'
  <1> DEFINE c == [DefaultState EXCEPT !.mode = "reverse"]
  <1>1. /\ inflight' = FALSE /\ pc' = [s \in Starts |-> "idle"] /\ copy' = [s \in Starts |-> c]
        /\ UNCHANGED <<code, file, db, forgotten, wiped>>
    BY DEF Restart
  <1>2. c \in States /\ ~c.ready
    BY DefaultFacts DEF IInv, Controls
  <1>3. FileOK(file)' /\ DatabaseOK'
    BY <1>1 DEF IInv, FileOK, DatabaseOK, WorkIsKept, Completed
  <1>4. Controls'
    BY <1>1, <1>2 DEF IInv, Controls, OnePipeline, InPipeline
  <1>5. ASSUME NEW t \in Starts PROVE (CopyOK(t) /\ Seeded(t) /\ FileIsOpen(t))'
    BY <1>1, <1>2 DEF CopyOK, Seeded, FileIsOpen, Phases
  <1> QED
    BY <1>3, <1>4, <1>5 DEF IInv

\* Every step keeps the invariant.
LEMMA NextPreserves == ASSUME IInv, [Next]_vars PROVE IInv'
  <1>1. ASSUME NEW s \in Starts, Start(s) PROVE IInv'
    BY <1>1, StartForwardPreserves, StartReversePreserves, PreflightPassesPreserves,
       PreflightFailsPreserves DEF Start
  <1>2. ASSUME NEW s \in Starts, Pipeline(s) PROVE IInv'
    BY <1>2, BeginPipelinePreserves, RepoDetectPreserves, ProjectSeedPreserves,
       ScanAndExtractPreserves, AssessReadinessPreserves, PhaseFailsPreserves,
       EndPipelinePreserves DEF Pipeline
  <1>3. CASE UNCHANGED vars
    BY <1>3 DEF vars, coroutines, IInv, Controls, OnePipeline, InPipeline, FileOK, DatabaseOK,
                WorkIsKept, CopyOK, Seeded, FileIsOpen, Completed
  <1> QED
    BY <1>1, <1>2, <1>3, RefreshCompletedPreserves, ResetPhasesPreserves, WorkPreserves,
       CodeAppearsPreserves, LoseFilePreserves, RestartPreserves DEF Next

-----------------------------------------------------------------------------
\* The invariant of everything a start, a pipeline and the file can be in.
THEOREM OnboardingInvariant == Spec => []IInv
  <1>1. Init => IInv
    BY InitEstablishes
  <1>2. IInv /\ [Next]_vars => IInv'
    BY NextPreserves
  <1> QED
    BY <1>1, <1>2, PTL DEF Spec

\* Every value in the file and in memory is of its type.
THEOREM TypeCorrect == Spec => []TypeOK
  <1>1. IInv => TypeOK
    BY DEF IInv, Controls, FileOK, DatabaseOK, CopyOK, TypeOK
  <1> QED
    BY <1>1, OnboardingInvariant, PTL

\* However many starts overlap, one pipeline runs.
THEOREM OnePipelineAtATime == Spec => []OnePipeline
  <1>1. IInv => OnePipeline
    BY DEF IInv, Controls
  <1> QED
    BY <1>1, OnboardingInvariant, PTL

\* A repository is declared ready by a pipeline that passed all of its phases.
THEOREM ReadinessIsEarned == Spec => []ReadyIsEarned
  <1>1. IInv => ReadyIsEarned
    BY DEF IInv, FileOK, DatabaseOK, ReadyIsEarned, Completed
  <1> QED
    BY <1>1, OnboardingInvariant, PTL

\* Onboarding deletes what the operator has made only if it has forgotten that
\* the repository was onboarded.
THEOREM OperatorsWorkIsKept == Spec => []WorkIsKept
  <1>1. IInv => WorkIsKept
    BY DEF IInv, DatabaseOK
  <1> QED
    BY <1>1, OnboardingInvariant, PTL

-----------------------------------------------------------------------------
(* A pipeline comes nearer to its end.                                     *)

LEMMA PipelineStepAdvances ==
  ASSUME IInv, NEW s \in Starts, Pipeline(s)
  PROVE  /\ InPipeline(s) /\ Rank[pc'[s]] < Rank[pc[s]]
         /\ \A t \in Starts \ {s} : pc'[t] = pc[t]
         /\ pc'[s] = "idle" => ~inflight'
  <1>1. pc \in [Starts -> {"idle", "preflight", "scheduled", "ending"} \cup Phases]
    BY DEF IInv, Controls
  <1>3. CASE BeginPipeline(s)
    BY <1>1, <1>3 DEF BeginPipeline, At, Goto, InPipeline, Rank
  <1>4. CASE RepoDetect(s)
    BY <1>1, <1>4 DEF RepoDetect, At, Goto, InPipeline, Rank
  <1>5. CASE ProjectSeed(s)
    BY <1>1, <1>5 DEF ProjectSeed, Pass, At, Goto, After, InPipeline, Rank
  <1>6. CASE SeedWorkItems(s)
    BY <1>1, <1>6 DEF SeedWorkItems, Pass, At, Goto, After, InPipeline, Rank
  <1>7. CASE ExtractKnowledge(s)
    BY <1>1, <1>7 DEF ExtractKnowledge, Pass, At, Goto, After, InPipeline, Rank
  <1>8. CASE AssessReadiness(s)
    BY <1>1, <1>8 DEF AssessReadiness, At, Goto, InPipeline, Rank
  <1>9. CASE PhaseFails(s)
    BY <1>1, <1>9 DEF PhaseFails, Phases, Goto, InPipeline, Rank
  <1>10. CASE EndPipeline(s)
    BY <1>1, <1>10 DEF EndPipeline, At, Leave, InPipeline, Rank
  <1> QED
    BY <1>3, <1>4, <1>5, <1>6, <1>7, <1>8, <1>9, <1>10 DEF Pipeline

\* Whoever starts while a pipeline runs does not move it.
LEMMA StartsLeavePipelines ==
  ASSUME IInv, NEW s \in Starts, Start(s)
  PROVE  ~InPipeline(s) /\ \A t \in Starts \ {s} : pc'[t] = pc[t]
  <1>1. pc \in [Starts -> {"idle", "preflight", "scheduled", "ending"} \cup Phases]
    BY DEF IInv, Controls
  <1>2. pc[s] \in {"idle", "preflight"} /\ \E q : pc' = [pc EXCEPT ![s] = q]
    BY DEF Start, StartForward, StartReverse, PreflightPasses, PreflightFails, Schedule, Leave
  <1> QED
    BY <1>1, <1>2 DEF InPipeline

LEMMA NextAdvances ==
  ASSUME IInv, [Next]_vars, NEW s \in Starts
  PROVE  /\ Pipeline(s) => Rank[pc'[s]] < Rank[pc[s]]
         /\ InPipeline(s) => \/ pc'[s] = pc[s]
                             \/ Rank[pc'[s]] < Rank[pc[s]] /\ (pc'[s] = "idle" => ~inflight')
  <1>1. CASE Pipeline(s)
    BY <1>1, PipelineStepAdvances
  <1>2. ASSUME ~Pipeline(s), InPipeline(s)
        PROVE  \/ pc'[s] = pc[s]
               \/ Rank[pc'[s]] < Rank[pc[s]] /\ (pc'[s] = "idle" => ~inflight')
    <2>1. ASSUME NEW t \in Starts, Start(t) \/ Pipeline(t) PROVE pc'[s] = pc[s]
      BY <1>2, <2>1, StartsLeavePipelines, PipelineStepAdvances
    <2>2. CASE RefreshCompleted \/ ResetPhases \/ Work \/ CodeAppears \/ LoseFile \/ UNCHANGED vars
      BY <2>2 DEF RefreshCompleted, ResetPhases, Work, CodeAppears, LoseFile, coroutines, vars
    <2>3. CASE Restart
      <3>1. pc'[s] = "idle" /\ ~inflight' /\ pc[s] \in {"scheduled", "ending"} \cup Phases
        BY <1>2, <2>3 DEF Restart, IInv, Controls, InPipeline
      <3> QED
        BY <3>1 DEF Rank, Phases
    <2> QED
      BY <2>1, <2>2, <2>3 DEF Next
  <1> QED
    BY <1>1, <1>2

\* A pipeline that has begun takes seven steps at most and gives its marker
\* back, whatever starts, retries and lost files come in between
\* (onboarding.py, _run_pipeline).
THEOREM PipelinesComeToAnEnd == Spec => PipelineAdvances
  <1>1. IInv /\ [Next]_vars =>
          [\A s \in Starts :
              /\ Pipeline(s) => Rank[pc'[s]] < Rank[pc[s]]
              /\ InPipeline(s) =>
                    \/ pc'[s] = pc[s]
                    \/ Rank[pc'[s]] < Rank[pc[s]] /\ (pc'[s] = "idle" => ~inflight')]_vars
    BY NextAdvances
  <1> QED
    BY <1>1, OnboardingInvariant, PTL DEF Spec, PipelineAdvances
=============================================================================
