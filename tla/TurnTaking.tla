----------------------------- MODULE TurnTaking -----------------------------
(***************************************************************************)
(* What the hub of chat sessions promises of one session: its turns are    *)
(* taken one after the other, and a caller that has reserved the next turn *)
(* gets it.  Nothing is said of slots, callbacks and tasks; ChatRuns       *)
(* implements this specification.                                          *)
(***************************************************************************)
CONSTANTS
    Turns,    \* the turns an agent can take
    Callers   \* the requests that can ask for one

VARIABLES
    running,  \* the turns being taken
    claims    \* the callers that hold a reservation

vars == <<running, claims>>

Init == running = {} /\ claims = {}

Claim(c) ==
    /\ running = {} /\ claims = {}
    /\ claims' = {c} /\ UNCHANGED running

\* The turn of a claim that cannot be used is given up.
Abandon(c) ==
    /\ c \in claims
    /\ claims' = claims \ {c} /\ UNCHANGED running

\* A turn begins for a claim, or without one when there is none.
Begin(t) ==
    /\ running = {} /\ running' = {t}
    /\ \/ claims = {} /\ UNCHANGED claims
       \/ \E c \in claims : claims' = claims \ {c}

Finish(t) ==
    /\ t \in running
    /\ running' = running \ {t} /\ UNCHANGED claims

\* The server stops, and turns and claims with it.
Reset == running' = {} /\ claims' = {}

Next ==
    \/ \E t \in Turns : Begin(t) \/ Finish(t)
    \/ \E c \in Callers : Claim(c) \/ Abandon(c)
    \/ Reset

Spec == Init /\ [][Next]_vars
=============================================================================
