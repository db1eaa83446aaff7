---------------------------- MODULE WsmAuth_proofs ----------------------------
(***************************************************************************)
(* Proofs about WsmAuth, for every world: whatever fails, hangs or comes.  *)
(***************************************************************************)
EXTENDS WsmAuth, TLAPS

\* No helper process is there before Spawn.
Started == host = "start" => exit = "none"

\* Each link of the chain that ends in a verdict: the helper exits with 0
\* only for a good confirmation of the response to its whole challenge, the
\* host checks one only once it has an answer, and a camera confirms only a
\* response that is one.
Chain ==
  /\ exit = "0" => challenge = "whole" /\ confirm \in {"good", "padded"}
  /\ host = "answered" /\ variant = "python" => challenge = "whole" /\ answer = "body"
  /\ variant = "helper" /\ confirm \in {"good", "padded"} => answer = "body"
  /\ host = "wait" => variant = "helper"
  /\ variant = "python" => exit = "none" /\ host \notin {"write", "collect"}
  /\ confirm # "none" => host \notin {"start", "write", "collect", "answered"}

Inv == TypeOK /\ Started /\ Chain /\ VerifiedIsGenuine

LEMMA HelperKeeps ==
  ASSUME Inv, Helper \/ HelperDies
  PROVE  Inv'
  BY DEF Inv, TypeOK, Started, Chain, VerifiedIsGenuine, Helper, HelperInit,
         HelperReads, HelperAnswers, HelperFails, HelperChecks, HelperDies, Running,
         given, results, process

LEMMA HostKeeps ==
  ASSUME Inv, Host \/ Unconfirmed \/ Interrupt
  PROVE  Inv'
  <1> USE DEF Inv, TypeOK, Started, Chain, VerifiedIsGenuine, Running, Kill,
              Quiet, Untouched, given, results, process
  <1>1. CASE Spawn  BY <1>1 DEF Spawn
  <1>2. CASE WriteChallenge
    <2>1. input' \in BOOLEAN
      BY <1>2, Zenon DEF WriteChallenge
    <2>2. /\ host = "write" /\ host' \in {"collect", "raised"}
          /\ UNCHANGED <<results, output, exit, given, helper>>
      BY <1>2 DEF WriteChallenge
    <2> QED  BY <2>1, <2>2
  <1>3. CASE Collect  BY <1>3 DEF Collect
  <1>4. CASE CollectNone  BY <1>4 DEF CollectNone
  <1>5. CASE VerifyConfirm  BY <1>5, WorldAssumption DEF VerifyConfirm
  <1>6. CASE Wait  BY <1>6 DEF Wait
  <1>7. CASE WaitTimeout  BY <1>7 DEF WaitTimeout
  <1>8. CASE PyChallenge  BY <1>8 DEF PyChallenge
  <1>9. CASE PyConfirm  BY <1>9, WorldAssumption DEF PyConfirm
  <1>10. CASE Close  BY <1>10 DEF Close
  <1>11. CASE Unconfirmed  BY <1>11 DEF Unconfirmed
  <1>12. CASE Interrupt  BY <1>12 DEF Interrupt
  <1> QED  BY <1>1, <1>2, <1>3, <1>4, <1>5, <1>6, <1>7, <1>8, <1>9, <1>10, <1>11, <1>12
           DEF Host

\* Types, the start and the chain behind a verdict are inductive together.
THEOREM InvariantHolds == Spec => []Inv
  <1>1. Init => Inv
    BY WorldAssumption DEF Init, Inv, TypeOK, Started, Chain, VerifiedIsGenuine, Running
  <1>2. Inv /\ [Next]_vars => Inv'
    <2> SUFFICES ASSUME Inv, [Next]_vars PROVE Inv'
      OBVIOUS
    <2>1. CASE Helper \/ HelperDies  BY <2>1, HelperKeeps
    <2>2. CASE Host \/ Unconfirmed \/ Interrupt  BY <2>2, HostKeeps
    <2>3. CASE UNCHANGED vars
      BY <2>3 DEF Inv, TypeOK, Started, Chain, VerifiedIsGenuine, Running,
                  vars, given, results, process
    <2> QED  BY <2>1, <2>2, <2>3 DEF Next, Done
  <1> QED  BY <1>1, <1>2, PTL DEF Spec

\* The helper's buffers, the pipes and the verdicts keep their types: an exit
\* code is set once, and at most one response is ever sent.
THEOREM TypeCorrect == Spec => []TypeOK
  BY InvariantHolds, PTL DEF Inv

\* verify_confirm says True only of a camera that answered for the response
\* to its own challenge.
THEOREM OnlyGenuine == Spec => []VerifiedIsGenuine
  BY InvariantHolds, PTL DEF Inv
=============================================================================
