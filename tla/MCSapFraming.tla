---------------------------- MODULE MCSapFraming ----------------------------
(* SapFraming for TLC: the four plain frames of the handshake (peer         *)
(* description request and success, authentication request and confirmation)*)
(* and two SLP frames, a few bytes each.                                    *)
EXTENDS SapFraming

MCSize == <<3, 1, 2, 1, 2, 3>>

\* Frames laid end to end from byte 0.
MCStartOf(size) ==
  LET f[i \in 1 .. NFrames + 1] ==
        IF i = 1 THEN 0
        ELSE f[i - 1] + Lead(i - 1) + size[i - 1] + Trail(i - 1)
  IN f
MCStart == MCStartOf(MCSize)

\* Every plain frame waits for the host to be done with the one before it.
MCTurns == <<0, 1, 2, 3, 4, 4>>

\* PROTOCOL.md's order of messages: AUTH_REQUEST follows PD_SUCCESS with
\* no message of the phone between them.
MCProtocol == <<0, 1, 1, 3, 4, 4>>

\* The turn-taking runs meet the hypothesis of the theorems.
ASSUME MCTurnsMeetAssumption ==
  Whole /\ Await = MCTurns /\ Size = MCSize => TurnsAssumption
=============================================================================
