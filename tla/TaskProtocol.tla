---------------------------- MODULE TaskProtocol ----------------------------
(***************************************************************************)
(* What the builder promises of one task: who moves it, and on what        *)
(* grounds.  Work on an open task rewrites its code, clears it with the    *)
(* gates, asks for reviews, and ends by stopping the task or finishing it; *)
(* a task in review waits for the reviewer, a stopped one for an operator  *)
(* or a deadline; and only a task whose code was cleared and approved, or  *)
(* whose operator waived that, is ever done.  Nothing is said of phases,   *)
(* agents, chains and texts; TaskLifecycle implements this specification.  *)
(***************************************************************************)
VARIABLES
    place,       \* where the task is
    working,     \* somebody works on it
    asked,       \* the review that was asked for: of nothing, the plan, the code
    ownReview,   \* its code is reviewed with the task, not with a sprint
    \* What is known of its code, since it was last rewritten.
    cleared,     \* the gates passed, or were waived
    approved     \* its review was granted, or waived

Places == {"open", "review", "stopped", "done"}

task == <<place, working, asked>>
code == <<cleared, approved>>
vars == <<task, ownReview, code>>

Init ==
    /\ place = "open" /\ ~working /\ asked = "nothing"
    /\ ownReview \in BOOLEAN /\ ~cleared /\ ~approved

Settled == cleared /\ (ownReview => approved)

-----------------------------------------------------------------------------
(* Work.                                                                   *)

Begin ==
    /\ place = "open" /\ ~working
    /\ working' = TRUE
    /\ UNCHANGED <<place, asked, ownReview, code>>

Rewrite ==
    /\ working
    /\ ~cleared' /\ ~approved'
    /\ UNCHANGED <<task, ownReview>>

Clear ==
    /\ working
    /\ cleared' = TRUE
    /\ UNCHANGED <<task, ownReview, approved>>

\* Code is reviewed when it is cleared, and with its task only if it has a
\* review of its own.
Ask(what) ==
    /\ working /\ ownReview /\ (what = "code" => cleared)
    /\ place' = "review" /\ asked' = what /\ working' = FALSE
    /\ UNCHANGED <<ownReview, code>>

Stop ==
    /\ working
    /\ place' = "stopped" /\ working' = FALSE
    /\ UNCHANGED <<asked, ownReview, code>>

Finish ==
    /\ working /\ Settled
    /\ place' = "done" /\ working' = FALSE
    /\ UNCHANGED <<asked, ownReview, code>>

-----------------------------------------------------------------------------
(* Decisions and interruptions.                                            *)

Approve ==
    /\ asked # "nothing" /\ asked' = "nothing"
    /\ place' = "open" /\ working' = TRUE
    /\ approved' = (approved \/ asked = "code")
    /\ UNCHANGED <<ownReview, cleared>>

Reject ==
    /\ asked # "nothing" /\ asked' = "nothing"
    /\ place' = "stopped"
    /\ UNCHANGED <<working, ownReview, code>>

\* The question is dropped, and nobody asks it again.
Override ==
    /\ asked # "nothing" /\ asked' = "nothing"
    /\ UNCHANGED <<place, working, ownReview, code>>

\* A reviewer of the code wants changes: of the task, or of its sprint,
\* wherever the task is by then.
RequestChanges ==
    /\ asked = "code" \/ ~ownReview
    /\ asked' = "nothing" /\ place' = "open" /\ working' = TRUE
    /\ UNCHANGED <<ownReview, code>>

\* The operator puts a task back to work, and may waive what its code lacks:
\* a stopped one, or one whose verification or sprint has failed after all.
Recover ==
    /\ place # "review" /\ place' = "open"
    /\ UNCHANGED code \/ (cleared' \in {cleared, TRUE} /\ approved' = TRUE)
    /\ UNCHANGED <<working, asked, ownReview>>

\* What stopped the task has passed.
Resume ==
    /\ place = "stopped"
    /\ place' = "open" /\ working' = TRUE
    /\ UNCHANGED <<asked, ownReview, code>>

\* The server stops and starts.  Work is cut off; what was done may be found
\* wanting, and given back later.
Restart ==
    /\ working' = FALSE
    /\ \/ UNCHANGED place
       \/ place # "review" /\ place' = "stopped"
       \/ place = "stopped" /\ Settled /\ place' = "done"
    /\ UNCHANGED <<asked, ownReview, code>>

-----------------------------------------------------------------------------
Work == Begin \/ Rewrite \/ Clear \/ Ask("plan") \/ Ask("code") \/ Stop \/ Finish

Decision == Approve \/ Reject \/ Override \/ RequestChanges \/ Recover

Next == Work \/ Decision \/ Resume \/ Restart

Spec == Init /\ [][Next]_vars

\* What follows for every state: a task in hand is open, a question puts the
\* task in review, and a task is done only on good grounds.
Promise ==
    /\ working => place = "open"
    /\ asked # "nothing" => place = "review" /\ ownReview
    /\ place = "done" => Settled
=============================================================================
