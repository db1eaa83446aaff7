---------------------------- MODULE FrameChannel ----------------------------
(***************************************************************************)
(* What SapSession promises the handshake above it: the camera writes      *)
(* frames 1, 2, ..., and the host is handed their payloads one by one, in  *)
(* that order, whole, none skipped and none invented.  Nothing is said of  *)
(* bytes, of packets or of checksums: SapFraming adds those.               *)
(***************************************************************************)
EXTENDS Naturals, Sequences

CONSTANTS NFrames,      \* frames the camera writes before the link closes
          Payload       \* [1..NFrames -> what the host is to be handed]

VARIABLES sent,         \* frames the camera has written
          rcvd          \* payloads the host has been handed, oldest first

vars == <<sent, rcvd>>

Init == /\ sent = 0
        /\ rcvd = <<>>

Send == /\ sent < NFrames
        /\ sent' = sent + 1
        /\ UNCHANGED rcvd

Receive == /\ Len(rcvd) < sent
           /\ rcvd' = Append(rcvd, Payload[Len(rcvd) + 1])
           /\ UNCHANGED sent

Next == Send \/ Receive

Spec == Init /\ [][Next]_vars
=============================================================================
