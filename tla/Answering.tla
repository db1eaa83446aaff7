------------------------------ MODULE Answering ------------------------------
(***************************************************************************)
(* What a session promises the camera that asks: whichever loop of         *)
(* session.py reads a question answers it there and then, once, on the     *)
(* session and in the kind it was asked; nothing is answered unasked.      *)
(* Only the question in hand when the session ends may go without.         *)
(***************************************************************************)
EXTENDS Naturals

CONSTANT Questions

VARIABLES
  waiting,  \* per question: how often it was asked and not yet read
  answered, \* ... and how often it was answered
  open      \* does the session go on?

ansVars == <<waiting, answered, open>>

Init == /\ waiting = [q \in Questions |-> 0]
        /\ answered = [q \in Questions |-> 0]
        /\ open = TRUE

Ask == \E q \in Questions : /\ waiting' = [waiting EXCEPT ![q] = @ + 1]
                            /\ UNCHANGED <<answered, open>>

Reads(q) == waiting[q] > 0 /\ waiting' = [waiting EXCEPT ![q] = @ - 1]
Answers(q) == answered' = [answered EXCEPT ![q] = @ + 1]

Answer == \E q \in Questions : open /\ Reads(q) /\ Answers(q) /\ UNCHANGED open

\* The loop's last attempt may go into a question; a broken link takes its
\* answer.
End == /\ open /\ open' = FALSE
       /\ \/ UNCHANGED <<waiting, answered>>
          \/ \E q \in Questions : Reads(q) /\ (Answers(q) \/ UNCHANGED answered)

Next == Ask \/ Answer \/ End
Spec == Init /\ [][Next]_ansVars
=============================================================================
