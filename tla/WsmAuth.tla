------------------------------ MODULE WsmAuth ------------------------------
(***************************************************************************)
(* The two authenticators of the handshake's phase 2: the wsm_helper       *)
(* process under qemu (connect_libwsm.py, wsm_helper.c) and the Python     *)
(* client (connect_libpy.py, wsm/client.py), between run_wifi_session's    *)
(* process_challenge, verify_confirm and close.                            *)
(*                                                                         *)
(* A challenge, a response and a confirmation are what the other side      *)
(* would find them to be; the cryptography (libwsm, wsm/crypto.py) is an   *)
(* outcome.                                                                *)
(***************************************************************************)
EXTENDS Naturals

CONSTANT Worlds  \* what may happen; see WorldAssumption

ASSUME WorldAssumption == Worlds \subseteq
  [variant : SUBSET {"helper", "python"},
   challenges : SUBSET {"whole", "short", "long"},
   confirms : SUBSET {"good", "padded", "short", "wrong"},
   prompt : BOOLEAN,  \* the helper and the camera answer within the timeouts,
                      \* and nothing fails or interrupts
   rejects : BOOLEAN] \* the library may reject a challenge

VARIABLES
  world,
  variant,    \* the authenticator
  challenge,  \* AUTH_REQUEST's body
  host,       \* where run_wifi_session and the authenticator are
  answer,     \* what process_challenge returned: "none", "body", "filler"
  confirm,    \* AUTH_CONFIRM's body, as written to the helper or checked
  verdict,    \* what verify_confirm returned
  helper,     \* where the helper is
  input,      \* has the challenge been written to its stdin?
  output,     \* what is in its stdout
  exit        \* "none", "running", or how it ended: "0", "1", "killed"

given == <<world, variant, challenge>>
process == <<helper, output, exit>>
results == <<answer, confirm, verdict>>
vars == <<given, host, results, process, input>>

Init == /\ world \in Worlds
        /\ variant \in world.variant /\ challenge \in world.challenges
        /\ host = "start" /\ answer = "none" /\ confirm = "none" /\ verdict = "none"
        /\ helper = "init" /\ input = FALSE /\ output = "none" /\ exit = "none"

Running == exit = "running"

-----------------------------------------------------------------------------
(* wsm_helper.c (the helper process).                                      *)

\* The library takes a handle or fails.
HelperInit == /\ Running /\ helper = "init"
              /\ \/ helper' = "challenge" /\ UNCHANGED exit
                 \/ ~world.prompt /\ exit' = "1" /\ UNCHANGED helper
              /\ UNCHANGED <<given, host, results, input, output>>

\* fread waits for 70 bytes; what is more stays in its buffer.
HelperReads == /\ Running /\ helper = "challenge" /\ input
               /\ challenge # "short"
               /\ helper' = "check"
               /\ UNCHANGED <<given, host, results, input, output, exit>>

\* The response is written whether or not there is one: a buffer filled with
\* 0xAA goes out for a challenge the library rejects.
HelperAnswers == /\ Running /\ helper = "check"
                 /\ \/ output' = "body" /\ helper' = "confirm"
                    \/ world.rejects /\ output' = "filler" /\ helper' = "failed"
                 /\ UNCHANGED <<given, host, results, input, exit>>

HelperFails == /\ Running /\ helper = "failed"
               /\ exit' = "1"
               /\ UNCHANGED <<given, host, results, helper, input, output>>

\* 35 bytes of what follows the challenge: the confirmation only if nothing
\* else was left over, and too few at the end of stdin.
HelperChecks == /\ Running /\ helper = "confirm"
                /\ confirm # "none" \/ challenge = "long"
                /\ exit' = IF challenge = "whole" /\ confirm \in {"good", "padded"}
                           THEN "0" ELSE "1"
                /\ UNCHANGED <<given, host, results, helper, input, output>>

\* qemu or the library may crash.
HelperDies == /\ Running /\ ~world.prompt
              /\ exit' = "killed"
              /\ UNCHANGED <<given, host, results, helper, input, output>>

-----------------------------------------------------------------------------
(* HelperWsmAuthenticator.                                                 *)

Quiet == UNCHANGED <<given, helper>>

\* Popen raises when there is no qemu.
Spawn == /\ host = "start" /\ variant = "helper"
         /\ \/ host' = "write" /\ exit' = "running"
            \/ ~world.prompt /\ host' = "raised" /\ UNCHANGED exit
         /\ UNCHANGED <<results, input, output>> /\ Quiet

\* Nothing catches the broken pipe of a helper that has already ended.
\* (Mutant: the challenge stays in a buffer.)
WriteUnflushed == /\ host = "write"
                  /\ host' = IF Running THEN "collect" ELSE "raised"
                  /\ UNCHANGED <<results, input, output, exit>> /\ Quiet
WriteChallenge == /\ host = "write"
                  /\ IF Running THEN input' = TRUE /\ host' = "collect"
                                ELSE host' = "raised" /\ UNCHANGED input
                  /\ UNCHANGED <<results, output, exit>> /\ Quiet

\* The response is one write of 102 bytes, which a pipe keeps whole.
Collect == /\ host = "collect" /\ output # "none"
           /\ answer' = output /\ output' = "none"
           /\ host' = "answered"
           /\ UNCHANGED <<confirm, verdict, input, exit>> /\ Quiet

Kill == exit' = IF Running THEN "killed" ELSE exit

\* The end of stdout, or the deadline of 15 s.
\* (Mutant: only the end of stdout is noticed.)
CollectNoneEof == /\ host = "collect" /\ output = "none" /\ ~Running
                  /\ Kill /\ host' = "over"
                  /\ UNCHANGED <<results, input, output>> /\ Quiet
CollectNone == /\ host = "collect"
               /\ \/ output = "none" /\ ~Running
                  \/ ~world.prompt
               /\ Kill /\ host' = "over"
               /\ UNCHANGED <<results, input, output>> /\ Quiet

\* A helper that has ended by now does not read it; only its exit counts.
VerifyConfirm == /\ host = "answered" /\ variant = "helper"
                 /\ confirm' \in world.confirms \cap
                      IF answer = "body" THEN {"good", "padded", "short", "wrong"}
                                         ELSE {"short", "wrong"}
                 /\ host' = "wait"
                 /\ UNCHANGED <<answer, verdict, input, output, exit>> /\ Quiet

\* (Mutant: a helper that has ended has accepted.)
WaitEnded == /\ host = "wait" /\ ~Running
             /\ verdict' = "true" /\ host' = "over"
             /\ UNCHANGED <<answer, confirm, input, output, exit>> /\ Quiet
Wait == /\ host = "wait" /\ ~Running
        /\ verdict' = IF exit = "0" THEN "true" ELSE "false"
        /\ host' = "over"
        /\ UNCHANGED <<answer, confirm, input, output, exit>> /\ Quiet

\* After 10 s the helper is killed.
WaitTimeout == /\ host = "wait" /\ Running /\ ~world.prompt
               /\ Kill /\ verdict' = "false" /\ host' = "over"
               /\ UNCHANGED <<answer, confirm, input, output>> /\ Quiet

-----------------------------------------------------------------------------
(* PythonWsmAuthenticator and WSMClient: a challenge of another length, or *)
(* one the library rejects, is None; a confirmation of another length is   *)
(* False.                                                                  *)

Untouched == UNCHANGED <<given, process, input>>

PyChallenge == /\ host = "start" /\ variant = "python"
               /\ \/ challenge = "whole" /\ answer' = "body" /\ host' = "answered"
                  \/ /\ challenge # "whole" \/ world.rejects
                     /\ host' = "over" /\ UNCHANGED answer
               /\ UNCHANGED <<confirm, verdict>> /\ Untouched

PyConfirm == /\ host = "answered" /\ variant = "python"
             /\ confirm' \in world.confirms
             /\ verdict' = IF confirm' = "good" THEN "true" ELSE "false"
             /\ host' = "over"
             /\ UNCHANGED answer /\ Untouched

-----------------------------------------------------------------------------
(* run_wifi_session around them.                                           *)

\* No AUTH_CONFIRM comes, as when the camera was sent no response of its own.
Unconfirmed == /\ host = "answered" /\ (~world.prompt \/ answer = "filler")
               /\ host' = "over"
               /\ UNCHANGED <<results, process, input, given>>

\* Ctrl-C.
Interrupt == /\ host \in {"write", "collect", "answered", "wait"} /\ ~world.prompt
             /\ host' = "raised"
             /\ UNCHANGED <<results, process, input, given>>

\* The finally block: authenticator.close().
Close == /\ host \in {"over", "raised"}
         /\ Kill /\ host' = "closed"
         /\ UNCHANGED <<results, input, output>> /\ Quiet

Done == host = "closed" /\ UNCHANGED vars

Helper == HelperInit \/ HelperReads \/ HelperAnswers \/ HelperFails
          \/ HelperChecks
Host == Spawn \/ WriteChallenge \/ Collect \/ CollectNone \/ VerifyConfirm
        \/ Wait \/ WaitTimeout \/ PyChallenge \/ PyConfirm \/ Close

Next == Helper \/ HelperDies \/ Host \/ Unconfirmed \/ Interrupt \/ Done
Spec == Init /\ [][Next]_vars

\* The host's thread runs on; a prompt helper does, another may hang.
FairSpec == Spec /\ WF_vars(Host) /\ WF_vars(world.prompt /\ Helper)
-----------------------------------------------------------------------------
TypeOK ==
  /\ world \in Worlds /\ variant \in {"helper", "python"}
  /\ challenge \in {"whole", "short", "long"}
  /\ host \in {"start", "write", "collect", "answered", "wait", "over", "raised", "closed"}
  /\ answer \in {"none", "body", "filler"} /\ output \in {"none", "body", "filler"}
  /\ confirm \in {"none", "good", "padded", "short", "wrong"}
  /\ verdict \in {"none", "true", "false"}
  /\ helper \in {"init", "challenge", "check", "confirm", "failed"}
  /\ input \in BOOLEAN /\ exit \in {"none", "running", "0", "1", "killed"}

\* The camera is taken for authenticated only if it was given a response the
\* library made of its own, whole challenge, and has confirmed that one:
\* whatever dies, hangs or is killed between the three calls.
VerifiedIsGenuine ==
  verdict = "true" => /\ challenge = "whole" /\ answer = "body"
                      /\ confirm \in {"good", "padded"}

\* A camera that plays by the protocol is authenticated.
Authenticates == world.prompt => <>(verdict = "true")

\* Neither a silent helper, nor one that has ended before it was written to,
\* nor a short challenge holds the session for ever.
AuthEnds == <>(host = "closed")

\* WsmAuthenticator.process_challenge (session.py:64) is to "Return the
\* 102-byte AUTH_RESPONSE body for the camera's challenge, or None on failure".
NoneOnFailure == answer # "filler"
=============================================================================
