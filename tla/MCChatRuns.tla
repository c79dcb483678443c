----------------------------- MODULE MCChatRuns -----------------------------
EXTENDS ChatRuns, Naturals

\* Bound: two answers to one question, or one answer while two are open.
ThreeOfQuestionsAndAnswers ==
    Cardinality({e \in Events : rows[e].status # "unused"})
    + Cardinality({r \in Answers : req[r].pc # "idle"}) <= 3
=============================================================================
