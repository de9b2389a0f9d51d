------------------------------ MODULE Resolver ------------------------------
(***************************************************************************)
(* What the DNS forwarder promises those who ask, with no transaction id,  *)
(* registry, socket or clock: a question is answered at most once and with *)
(* an answer to that very question, and what is kept for a question is an  *)
(* answer that someone who asked it was given.                             *)
(***************************************************************************)
CONSTANTS
    Askers,     \* who may ask, one question at a time
    Questions,  \* an answer is known by the question it answers
    Nothing

VARIABLES
    question,  \* question[a]: what a asks, or Nothing
    answer,    \* answer[a]: the answer that a was given, or Nothing
    kept       \* kept[q]: the answer kept for question q, or Nothing

resolverVars == <<question, answer, kept>>

Init ==
    /\ question = [a \in Askers |-> Nothing]
    /\ answer = [a \in Askers |-> Nothing]
    /\ kept = [q \in Questions |-> Nothing]

Ask(a, q) ==
    /\ question[a] = Nothing
    /\ question' = [question EXCEPT ![a] = q]
    /\ UNCHANGED <<answer, kept>>

Answer(a) ==
    /\ question[a] # Nothing /\ answer[a] = Nothing
    /\ answer' = [answer EXCEPT ![a] = question[a]]
    /\ UNCHANGED <<question, kept>>

\* a is done, answered or not; its answer may be kept.
Finish(a) ==
    /\ question[a] # Nothing
    /\ question' = [question EXCEPT ![a] = Nothing]
    /\ answer' = [answer EXCEPT ![a] = Nothing]
    /\ \/ UNCHANGED kept
       \/ answer[a] # Nothing /\ kept' = [kept EXCEPT ![question[a]] = answer[a]]

Forget(Q) ==
    /\ kept' = [q \in Questions |-> IF q \in Q THEN Nothing ELSE kept[q]]
    /\ UNCHANGED <<question, answer>>

Next ==
    \/ \E a \in Askers : Answer(a) \/ Finish(a) \/ \E q \in Questions : Ask(a, q)
    \/ \E Q \in SUBSET Questions : Forget(Q)

Spec == Init /\ [][Next]_resolverVars
=============================================================================
