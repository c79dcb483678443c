------------------------------ MODULE Onboarding ------------------------------
(***************************************************************************)
(* The onboarding of a repository by the embedded server (onboarding.py):  *)
(* the state file, which every request loads, changes and saves as a whole *)
(* and nothing locks, the pipeline of phases, and the database that the    *)
(* pipeline seeds - and clears, when it runs again.                        *)
(*                                                                         *)
(* A request runs from one await to the next without a switch.  Phases are *)
(* saved only once they are over, so no phase is "running" in the file.    *)
(***************************************************************************)
EXTENDS Naturals, FiniteSets

CONSTANT Starts   \* requests to start or retry that can be under way at once

VARIABLES
    code,       \* the repository has code of its own
    file,       \* onboarding-state.json
    db,         \* "empty", "seeded" by a pipeline, or with "work" of the operator
    inflight,   \* _pipeline_inflight has the repository
    pc,         \* of each start: where it, or the pipeline it scheduled, is
    copy,       \* of each start: the state in its memory
    forgotten,  \* history: the file's record of a finished onboarding was lost
    wiped       \* history: a pipeline cleared work of the operator

coroutines == <<inflight, pc, copy>>
vars == <<code, file, db, coroutines, forgotten, wiped>>

\* work_items is repo_scan and work_item_seed, knowledge is kb_extract and
\* kb_validate: nothing tells the two of a pair apart.
Phases == {"repo_detect", "project_seed", "work_items", "knowledge", "ready"}
After == [repo_detect |-> "project_seed", project_seed |-> "work_items",
          work_items |-> "knowledge", knowledge |-> "ready"]

Modes == {"forward", "reverse"}

\* A phase that is blocked counts as failed: whoever reads one reads the other.
States == [phases : [Phases -> {"pending", "passed", "failed"}],
           current : Phases, ready : BOOLEAN, mode : Modes]

\* _classify_onboarding_mode
Classified == IF code THEN "reverse" ELSE "forward"

DefaultState == [phases |-> [p \in Phases |-> "pending"], current |-> "repo_detect",
                 ready |-> FALSE, mode |-> Classified]

SetPhase(c, p, s) == [c EXCEPT !.phases[p] = s, !.current = p]

\* _onboarding_previously_completed
Completed(c) == c.current = "ready" \/ c.phases["ready"] = "passed"

\* load_onboarding_state: a finished onboarding keeps its mode, and is ready if
\* the repository is still fit by the Day-0 assessment.
Load(fit) ==
    [file EXCEPT !.mode = IF Completed(file) THEN file.mode ELSE Classified,
                 !.ready = Completed(file) /\ fit,
                 !.current = IF Completed(file) /\ fit THEN "ready" ELSE file.current]

Init ==
    /\ code \in BOOLEAN /\ file = DefaultState /\ db = "empty"
    /\ inflight = FALSE /\ pc = [s \in Starts |-> "idle"]
    /\ copy = [s \in Starts |-> DefaultState]
    /\ forgotten = FALSE /\ wiped = FALSE

-----------------------------------------------------------------------------
(* start_onboarding and retry_onboarding.                                  *)

\* A request ends, and its copy with it.
Leave(s) ==
    /\ pc' = [pc EXCEPT ![s] = "idle"]
    /\ copy' = [copy EXCEPT ![s] = [DefaultState EXCEPT !.mode = "reverse"]]

\* The marker is set, the pipeline's task created, the copy saved.
Schedule(s, c) ==
    /\ ~inflight /\ inflight' = TRUE
    /\ pc' = [pc EXCEPT ![s] = "scheduled"] /\ file' = c
    /\ copy' = [copy EXCEPT ![s] = c]

\* Readiness of an onboarding that was finished is assessed again.
RefreshCompleted ==
    \E before, now \in BOOLEAN :
        LET c == Load(before) IN
        /\ ~c.ready /\ Completed(c) /\ db # "empty"
        /\ file' = [SetPhase(c, "ready", IF now THEN "passed" ELSE "failed")
                        EXCEPT !.ready = now]
        /\ UNCHANGED <<code, db, coroutines, forgotten, wiped>>

MustRun(c) == ~c.ready /\ ~(Completed(c) /\ db # "empty")

\* In a repository without code there is nothing to wait for.
StartForward(s) ==
    /\ pc[s] = "idle"
    /\ \E fit \in BOOLEAN :
           LET c == Load(fit) IN MustRun(c) /\ c.mode = "forward" /\ Schedule(s, c)
    /\ UNCHANGED <<code, db, forgotten, wiped>>

\* In another one Claude must be available, and is asked.
StartReverse(s) ==
    /\ pc[s] = "idle"
    /\ \E fit \in BOOLEAN :
           LET c == Load(fit) IN
           /\ MustRun(c) /\ c.mode = "reverse"
           /\ pc' = [pc EXCEPT ![s] = "preflight"] /\ copy' = [copy EXCEPT ![s] = c]
    /\ UNCHANGED <<code, file, db, inflight, forgotten, wiped>>

\* A copy is saved over whatever the file says by now.
Forgets == forgotten' = (forgotten \/ Completed(file))

PreflightFails(s) ==
    /\ pc[s] = "preflight" /\ Leave(s)
    /\ file' = [SetPhase(copy[s], "repo_detect", "failed") EXCEPT !.ready = FALSE]
    /\ Forgets /\ UNCHANGED <<code, db, inflight, wiped>>

\* Faulty variant: the marker is looked at before the preflight only.
PreflightPasses_Unmarked(s) ==
    /\ pc[s] = "preflight" /\ inflight' = TRUE
    /\ pc' = [pc EXCEPT ![s] = "scheduled"] /\ file' = copy[s]
    /\ Forgets /\ UNCHANGED <<code, db, copy, wiped>>

PreflightPasses(s) ==
    /\ pc[s] = "preflight"
    /\ \/ Schedule(s, copy[s]) /\ Forgets
       \/ inflight /\ Leave(s) /\ UNCHANGED <<file, inflight, forgotten>>
    /\ UNCHANGED <<code, db, wiped>>

\* Faulty variant: onboarding is to begin again with its first phase.
ResetPhases_FromTheStart ==
    \E fit \in BOOLEAN :
        LET c == Load(fit) IN
        /\ ~c.ready
        /\ file' = [c EXCEPT !.current = "repo_detect", !.phases = [p \in Phases |->
                        IF c.phases[p] = "failed" THEN "pending" ELSE c.phases[p]]]
        /\ UNCHANGED <<code, db, coroutines, forgotten, wiped>>

\* retry_onboarding, up to the start that follows.
ResetPhases ==
    \E fit \in BOOLEAN :
        LET c == Load(fit) IN
        /\ ~c.ready
        /\ file' = [c EXCEPT !.phases = [p \in Phases |->
                        IF c.phases[p] = "failed" THEN "pending" ELSE c.phases[p]]]
        /\ UNCHANGED <<code, db, coroutines, forgotten, wiped>>

-----------------------------------------------------------------------------
(* The pipeline (_run_pipeline).                                           *)

At(s, p) == pc[s] = p
Goto(s, p) == pc' = [pc EXCEPT ![s] = p]

\* The copy is changed and saved.
Save(s, c) == copy' = [copy EXCEPT ![s] = c] /\ file' = c

Pass(s, p) ==
    At(s, p) /\ Goto(s, After[p]) /\ Save(s, SetPhase(copy[s], p, "passed"))

\* The pipeline loads the state anew.
BeginPipeline(s) ==
    /\ At(s, "scheduled") /\ Goto(s, "repo_detect") /\ \E fit \in BOOLEAN : Save(s, Load(fit))
    /\ UNCHANGED <<code, db, inflight, forgotten, wiped>>

RepoDetect(s) ==
    /\ At(s, "repo_detect") /\ Goto(s, "project_seed")
    /\ Save(s, [SetPhase(copy[s], "repo_detect", "passed") EXCEPT !.mode = Classified])
    /\ UNCHANGED <<code, db, inflight, forgotten, wiped>>

\* A project is reused in forward mode; otherwise everything is cleared.
ProjectSeed(s) ==
    /\ Pass(s, "project_seed")
    /\ IF copy[s].mode = "forward" /\ db # "empty"
       THEN UNCHANGED <<db, wiped>>
       ELSE db' = "seeded" /\ wiped' = (wiped \/ db = "work")
    /\ UNCHANGED <<code, inflight, forgotten>>

\* The repository is scanned and its work items are seeded, from the scan or,
\* in forward mode, later from an interview: the two phases pass together.
SeedWorkItems(s) ==
    /\ Pass(s, "work_items")
    /\ UNCHANGED <<code, db, inflight, forgotten, wiped>>

\* Faulty variant: the repository is ready before that has been assessed.
ExtractKnowledge_OpensEarly(s) ==
    /\ At(s, "knowledge") /\ Goto(s, After["knowledge"])
    /\ Save(s, [SetPhase(copy[s], "knowledge", "passed") EXCEPT !.ready = TRUE])
    /\ UNCHANGED <<code, db, inflight, forgotten, wiped>>

\* Knowledge is extracted and validated; in forward mode it is deferred, which
\* passes both phases.
ExtractKnowledge(s) ==
    /\ Pass(s, "knowledge")
    /\ UNCHANGED <<code, db, inflight, forgotten, wiped>>

AssessReadiness(s) ==
    /\ At(s, "ready") /\ Goto(s, "ending")
    /\ \E fit \in BOOLEAN :
           Save(s, [SetPhase(copy[s], "ready", IF fit THEN "passed" ELSE "failed")
                        EXCEPT !.ready = fit])
    /\ UNCHANGED <<code, db, inflight, forgotten, wiped>>

\* Faulty variant: the failure is saved, and the pipeline goes on.
PhaseFails_GoesOn(s) ==
    /\ pc[s] \in Phases \ {"ready"} /\ Goto(s, After[pc[s]])
    /\ Save(s, [SetPhase(copy[s], pc[s], "failed") EXCEPT !.ready = FALSE])
    /\ UNCHANGED <<code, db, inflight, forgotten, wiped>>

\* A phase raises and fails; an assessment that raises fails the phase before.
PhaseFails(s) ==
    /\ pc[s] \in Phases /\ Goto(s, "ending")
    /\ ~(pc[s] = "knowledge" /\ copy[s].mode = "forward")
    /\ LET at == IF pc[s] = "ready" THEN "knowledge" ELSE pc[s] IN
       Save(s, [SetPhase(copy[s], at, "failed") EXCEPT !.ready = FALSE])
    /\ UNCHANGED <<code, db, inflight, forgotten, wiped>>

\* Faulty variant: the marker is given back by a pipeline that ended well only.
EndPipeline_KeepsMarker(s) ==
    /\ At(s, "ending") /\ inflight' = ~copy[s].ready /\ Leave(s)
    /\ UNCHANGED <<code, file, db, forgotten, wiped>>

\* The end is published; only then is the marker given back.
EndPipeline(s) ==
    /\ At(s, "ending") /\ inflight' = FALSE /\ Leave(s)
    /\ UNCHANGED <<code, file, db, forgotten, wiped>>

-----------------------------------------------------------------------------
(* The rest of the system.                                                 *)

\* The operator's work begins when the dashboard is open.
Work ==
    /\ db = "seeded" /\ Load(TRUE).ready /\ db' = "work"
    /\ UNCHANGED <<code, file, coroutines, forgotten, wiped>>

CodeAppears ==
    ~code /\ code' = TRUE /\ UNCHANGED <<file, db, coroutines, forgotten, wiped>>

\* A file that is gone, or does not parse, is a state in which nothing has
\* happened; a save that is cut off leaves one.
LoseFile ==
    /\ file' = DefaultState /\ forgotten' = TRUE
    /\ UNCHANGED <<code, db, coroutines, wiped>>

Restart ==
    /\ inflight' = FALSE /\ pc' = [s \in Starts |-> "idle"]
    /\ copy' = [s \in Starts |-> [DefaultState EXCEPT !.mode = "reverse"]]
    /\ UNCHANGED <<code, file, db, forgotten, wiped>>

Pipeline(s) ==
    \/ BeginPipeline(s) \/ RepoDetect(s) \/ ProjectSeed(s)
    \/ SeedWorkItems(s) \/ ExtractKnowledge(s)
    \/ AssessReadiness(s) \/ PhaseFails(s) \/ EndPipeline(s)

Start(s) ==
    \/ StartForward(s) \/ StartReverse(s) \/ PreflightPasses(s) \/ PreflightFails(s)

Next ==
    \/ \E s \in Starts : Start(s) \/ Pipeline(s)
    \/ RefreshCompleted \/ ResetPhases \/ Work \/ CodeAppears \/ LoseFile \/ Restart

Spec == Init /\ [][Next]_vars

\* The pipeline's task is scheduled again after each of its awaits.
FairSpec == Spec /\ \A s \in Starts : WF_vars(Pipeline(s))

-----------------------------------------------------------------------------
(* Properties.                                                             *)

TypeOK ==
    /\ code \in BOOLEAN /\ file \in States /\ db \in {"empty", "seeded", "work"}
    /\ inflight \in BOOLEAN /\ copy \in [Starts -> States]
    /\ pc \in [Starts -> {"idle", "preflight", "scheduled", "ending"} \cup Phases]
    /\ \A s \in Starts : copy[s].ready => pc[s] = "ending"
    /\ forgotten \in BOOLEAN /\ wiped \in BOOLEAN

InPipeline(s) == pc[s] \notin {"idle", "preflight"}

\* However many starts and retries overlap, one pipeline runs, and the marker
\* stands for it.
OnePipeline ==
    /\ \A s, t \in Starts : InPipeline(s) /\ InPipeline(t) => s = t
    /\ inflight <=> \E s \in Starts : InPipeline(s)

\* A ready repository has passed every phase and has its project.
ReadyIsEarned ==
    file.ready => db # "empty" /\ \A p \in Phases : file.phases[p] = "passed"

\* The operator's work outlives every later start, retry and lapse of
\* readiness, unless the record of the finished onboarding was lost: with the
\* file, or under a start that had loaded the state before onboarding finished.
WorkIsKept == wiped => forgotten

\* The steps that are left to a pipeline, at most.
Rank == [idle |-> 0, preflight |-> 0, ending |-> 1, ready |-> 2, knowledge |-> 3,
         work_items |-> 4, project_seed |-> 5, repo_detect |-> 6, scheduled |-> 7]

\* What makes a pipeline settle: each of its steps leaves fewer, no overlapping
\* start, retry or loss of the file gives it one more, and with the last one
\* the marker is given back.
PipelineAdvances ==
    [][\A s \in Starts :
           /\ Pipeline(s) => Rank[pc'[s]] < Rank[pc[s]]
           /\ InPipeline(s) => \/ pc'[s] = pc[s]
                               \/ Rank[pc'[s]] < Rank[pc[s]] /\ (pc'[s] = "idle" => ~inflight')]_vars

\* A pipeline ends, and a retry can be made.
PipelineSettles == inflight ~> ~inflight
=============================================================================
