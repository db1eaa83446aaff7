----------------------------- MODULE SapFraming -----------------------------
(***************************************************************************)
(* The receiving half of SapSession (session.py): how the byte stream of   *)
(* the camera's RFCOMM link becomes frames.                                *)
(*                                                                         *)
(* The camera's frames are laid end to end in one stream; a byte is known  *)
(* by its position in it, and frame i occupies Start[i] .. Start[i+1]-1.   *)
(* The first NPlain frames (peer description, authentication) are read by  *)
(* read_frame: ONE os.read, whatever it returns.  The others are read by   *)
(* read_slp_frame, field by field, each field by _read_n, which loops      *)
(* until the field is complete.  A checksum mismatch is only logged, so    *)
(* checksums have a place in the stream and no value.                      *)
(***************************************************************************)
EXTENDS Naturals, Sequences

CONSTANTS
  NFrames,      \* frames the camera writes
  NPlain,       \* how many of them precede the SLP framing
  Size,         \* [1..NFrames -> payload bytes] (SLP: protocol header included)
  Start,        \* [1..NFrames+1 -> position of a frame's first byte]
  Await,        \* Await[i]: payloads the host must have been handed (and have
                \* answered) before the camera writes frame i
  CamCrc,       \* the camera's clMode: do its SLP frames carry checksums?
  PdMin,        \* bytes of PD_REQUEST the host's unpacking needs (5)
  ClModeLen,    \* bytes of PD_REQUEST needed to see the clMode (20)
  ReadMax,      \* the size given to os.read by read_frame (4096)
  Whole,        \* does RFCOMM deliver each plain frame in one piece?
  Prompt,       \* does the camera answer within the host's read timeouts?
  MaxGarbage    \* bound: largest length misread from a misaligned stream

Frames == 1 .. NFrames
IsPlain(i) == i <= NPlain
Lead(i) == IF ~IsPlain(i) /\ CamCrc THEN 4 ELSE 2
Trail(i) == IF ~IsPlain(i) /\ CamCrc THEN 2 ELSE 0
Payload == [i \in Frames |->
              <<Start[i] + Lead(i), Start[i] + Lead(i) + Size[i]>>]

ASSUME FramesAssumption ==
  /\ NFrames \in Nat
  /\ NPlain \in Nat \ {0}
  /\ NPlain <= NFrames
  /\ Size \in [Frames -> Nat]
  /\ Await \in [Frames -> Nat]
  /\ CamCrc \in BOOLEAN /\ Whole \in BOOLEAN /\ Prompt \in BOOLEAN
  /\ PdMin \in Nat \ {0} /\ ClModeLen \in Nat
  /\ ReadMax \in Nat /\ MaxGarbage \in Nat

\* Frames lie end to end, every SLP payload holding at least its header.
ASSUME StartAssumption ==
  /\ Start \in [1 .. NFrames + 1 -> Nat]
  /\ Start[1] = 0
  /\ \A i \in Frames : Start[i + 1] = Start[i] + Lead(i) + Size[i] + Trail(i)
  /\ \A i, j \in 1 .. NFrames + 1 : i < j => Start[i] < Start[j]
  /\ \A i \in Frames : ~IsPlain(i) => Size[i] >= 2

VARIABLES
  sent,   \* frames the camera has written
  dl,     \* bytes delivered to the host's socket
  rd,     \* bytes the host has taken out of it
  got,    \* the payloads handed to the caller, as <<first byte, end>>
  pc,     \* where the host is: between frames, in a field, or given up
  need,   \* bytes _read_n still lacks in the current field
  flen,   \* frame_len, once parsed
  at,     \* position of the payload's first byte, once reached
  crc,    \* SapSession.use_crc
  open    \* is the link up?

vars == <<sent, dl, rd, got, pc, need, flen, at, crc, open>>
host == <<rd, got, pc, need, flen, at, crc>>
link == <<sent, dl, open>>

Fields == {"len", "lencrc", "payload", "paycrc"}

Init == /\ sent = 0 /\ dl = 0 /\ rd = 0
        /\ got = <<>>
        /\ pc = "idle"
        /\ need = 0 /\ flen = 0 /\ at = 0
        /\ crc = FALSE
        /\ open = TRUE

-----------------------------------------------------------------------------
(* The camera and the link.                                                *)

CanWrite == open /\ sent < NFrames /\ Len(got) >= Await[sent + 1]

CamWrite == /\ CanWrite
            /\ sent' = sent + 1
            /\ UNCHANGED <<dl, open, host>>

\* Bytes arrive in any pieces; with Whole a plain frame arrives in one.
Deliver ==
  /\ open /\ dl < Start[sent + 1]
  /\ dl' \in dl + 1 .. Start[sent + 1]
  /\ Whole => \A i \in 1 .. NPlain :
                ~(Start[i] < dl' /\ dl' < Start[i + 1])
  /\ UNCHANGED <<sent, open, host>>

\* The link goes down; what was not delivered is lost.
Drop == /\ open /\ pc # "failed"
        /\ open' = FALSE
        /\ UNCHANGED <<sent, dl, host>>

-----------------------------------------------------------------------------
(* read_frame                                                              *)

InPlain == Len(got) < NPlain
Least(a, b) == IF a <= b THEN a ELSE b

\* The length found in two bytes at position p: a frame's size if a frame
\* starts there, anything otherwise.
LengthAt(p) == IF \E i \in Frames : Start[i] = p
               THEN {Size[i] : i \in {j \in Frames : Start[j] = p}}
               ELSE 0 .. MaxGarbage

\* The clMode is looked at only if the payload reaches that far.
\* (Mutant: the bound is off by one.)
HasClModeStrict(from, end) == end > from + ClModeLen
HasClMode(from, end) == end >= from + ClModeLen

\* The slice of a frame of n bytes out of a read of data bytes.
SliceEnd(data, n) == rd + Least(data, 2 + n)

\* One os.read: a frame of which only part has arrived is cut short, and
\* bytes after the frame are dropped.  run_wifi_session takes use_crc from
\* the first frame and gives up if it is too short to unpack; it may or may
\* not recognise that a payload is not the one it waits for.
PlainRead ==
  /\ pc = "idle" /\ InPlain /\ rd < dl
  /\ LET data == Least(dl - rd, ReadMax) IN
     /\ rd' = rd + data
     /\ \E n \in IF data < 2 THEN {0} ELSE LengthAt(rd) :
          LET end == SliceEnd(data, n)
              piece == <<rd + 2, end>> IN
          \/ /\ data > 2 /\ n > 0
             /\ got = <<>> => end >= rd + 2 + PdMin
             /\ got' = Append(got, piece)
             /\ crc' = IF got = <<>>
                       THEN CamCrc /\ HasClMode(rd + 2, end)
                       ELSE crc
             /\ UNCHANGED pc
          \/ /\ \/ data <= 2 \/ n = 0
                \/ (got = <<>> /\ end < rd + 2 + PdMin)
                \/ piece # Payload[Len(got) + 1]
             /\ pc' = "failed"
             /\ UNCHANGED <<got, crc>>
  /\ UNCHANGED <<need, flen, at, link>>

\* select times out before the frame comes: the handshake is abandoned.
PlainTimeout ==
  /\ pc = "idle" /\ InPlain /\ rd = dl
  /\ Prompt => ~CanWrite /\ dl = Start[sent + 1]
  /\ pc' = "failed"
  /\ UNCHANGED <<rd, got, need, flen, at, crc, link>>

-----------------------------------------------------------------------------
(* read_slp_frame.  A select that times out returns None and changes       *)
(* nothing; the callers ask again.                                         *)

SlpBegin == /\ pc = "idle" /\ ~InPlain /\ rd < dl
            /\ pc' = "len" /\ need' = 2
            /\ UNCHANGED <<rd, got, flen, at, crc, link>>

\* One os.read of _read_n.
\* (Mutant: a short read passes for the field.)
SlpBytesOnce == /\ pc \in Fields /\ need > 0 /\ rd < dl
                /\ rd' = rd + Least(need, dl - rd)
                /\ need' = 0
                /\ UNCHANGED <<got, pc, flen, at, crc, link>>
SlpBytes == /\ pc \in Fields /\ need > 0 /\ rd < dl
            /\ LET n == Least(need, dl - rd) IN
               /\ rd' = rd + n
               /\ need' = need - n
            /\ UNCHANGED <<got, pc, flen, at, crc, link>>

EnterPayload(n) == /\ pc' = "payload"
                   /\ need' = n
                   /\ at' = rd

SlpLength == /\ pc = "len" /\ need = 0
             /\ \E n \in LengthAt(rd - 2) :
                  /\ flen' = n
                  /\ IF crc THEN /\ pc' = "lencrc" /\ need' = 2
                                 /\ UNCHANGED at
                            ELSE EnterPayload(n)
             /\ UNCHANGED <<rd, got, crc, link>>

SlpLengthCrc == /\ pc = "lencrc" /\ need = 0
                /\ EnterPayload(flen)
                /\ UNCHANGED <<rd, got, flen, crc, link>>

\* The caller gets the payload unless it is shorter than its header.
\* (Mutants: the checksum is left on the payload; an empty message is lost.)
HandOverTrailing == got' = IF flen < 2 THEN got ELSE Append(got, <<at, rd>>)
HandOverNonEmpty == got' = IF flen <= 2 THEN got ELSE Append(got, <<at, at + flen>>)
HandOver == got' = IF flen < 2 THEN got ELSE Append(got, <<at, at + flen>>)

\* (Mutant: the payload's checksum is left unread.)
SlpPayloadNoTrailer == /\ pc = "payload" /\ need = 0
                       /\ pc' = "idle"
                       /\ HandOver
                       /\ UNCHANGED <<rd, need, flen, at, crc, link>>
SlpPayload == /\ pc = "payload" /\ need = 0
              /\ IF crc THEN /\ pc' = "paycrc" /\ need' = 2
                             /\ UNCHANGED got
                        ELSE /\ pc' = "idle"
                             /\ HandOver
                             /\ UNCHANGED need
              /\ UNCHANGED <<rd, flen, at, crc, link>>

SlpPayloadCrc == /\ pc = "paycrc" /\ need = 0
                 /\ pc' = "idle"
                 /\ HandOver
                 /\ UNCHANGED <<rd, need, flen, at, crc, link>>

\* The host is in a select or an os.read.
Reading == pc = "idle" \/ (pc \in Fields /\ need > 0)

\* End of file: the frame under way is lost, except that a payload whose
\* checksum never comes is handed over all the same.
Eof == /\ Reading
       /\ ~open /\ rd = dl
       /\ pc' = "failed"
       /\ IF pc = "paycrc" THEN HandOver ELSE UNCHANGED got
       /\ UNCHANGED <<rd, need, flen, at, crc, link>>

\* ECONNRESET: bytes not yet read are gone, with the frame under way.
Reset == /\ Reading
         /\ ~open
         /\ pc' = "failed"
         /\ UNCHANGED <<rd, got, need, flen, at, crc, link>>

Ended == pc = "failed" \/ (pc = "idle" /\ Len(got) >= NFrames)
Finish == Ended /\ UNCHANGED vars

Host == PlainRead \/ SlpBegin \/ SlpBytes \/ SlpLength \/ SlpLengthCrc
        \/ SlpPayload \/ SlpPayloadCrc \/ Eof

Next == CamWrite \/ Deliver \/ Drop \/ Host \/ PlainTimeout \/ Reset \/ Finish

Spec == Init /\ [][Next]_vars

\* The camera writes what it owes, the link delivers what was written while
\* it is up, the host's thread runs.
Fairness == WF_vars(CamWrite) /\ WF_vars(Deliver) /\ WF_vars(Host)
FairSpec == Spec /\ Fairness

-----------------------------------------------------------------------------
TypeOK ==
  /\ sent \in 0 .. NFrames /\ dl \in Nat /\ rd \in Nat
  /\ got \in Seq(Nat \X Nat)
  /\ pc \in Fields \cup {"idle", "failed"}
  /\ need \in Nat /\ flen \in Nat /\ at \in Nat
  /\ crc \in BOOLEAN /\ open \in BOOLEAN

\* Between two frames the host stands at the first byte of the frame its
\* caller has not had yet: the read before threw nothing away and left
\* nothing over (session.py, the single os.read of read_frame).
NothingSkipped == pc = "idle" => rd = Start[Len(got) + 1]

\* PROTOCOL.md's "CRC is always enabled for subsequent SLP frames": once the
\* first frame is in, both ends agree on whether SLP frames carry checksums.
CrcAgreed == got # <<>> /\ pc # "failed" => crc = CamCrc

\* The host's checksum mode differs from the camera's in one case and for
\* the whole session: the camera uses checksums and the ONE os.read that took
\* PD_REQUEST brought less of it than the clMode's last byte, whatever made
\* it short; no later frame, field or error changes it (session.py:201-204).
CrcFromFirstRead ==
  got # <<>> =>
    (crc # CamCrc <=> CamCrc /\ got[1][2] - got[1][1] < ClModeLen)

\* The inductive invariant behind it: the SLP fields come after that read.
CrcSettled == CrcFromFirstRead /\ (pc \in Fields => got # <<>>)

\* However the stream is cut up, no byte is handed to the callers twice: the
\* payloads are pieces of the stream in order, all of them read.
NoByteTwice ==
  /\ \A i \in DOMAIN got : got[i][1] <= got[i][2] /\ got[i][2] <= rd
  /\ \A i, j \in DOMAIN got : i < j => got[i][2] <= got[j][1]

\* The inductive invariant behind it: the payload being read lies after the
\* pieces handed over, and ends where the read will end.
Pieces ==
  /\ NoByteTwice
  /\ pc \in {"payload", "paycrc"} => \A i \in DOMAIN got : got[i][2] <= at
  /\ pc = "payload" => rd + need = at + flen
  /\ pc = "paycrc" => rd + need = at + flen + 2 /\ need <= 2

-----------------------------------------------------------------------------
(* Why framing stays aligned.  It does when the camera takes turns and     *)
(* RFCOMM keeps each plain frame in one piece that one os.read can take:   *)
(* nothing in read_frame itself ensures it.                                *)

TurnsAssumption ==
  /\ Whole
  /\ \A i \in Frames : Await[i] >= IF IsPlain(i) THEN i - 1 ELSE NPlain
  /\ \A i \in 1 .. NPlain : 2 + Size[i] <= ReadMax
  /\ ClModeLen <= Size[1]

cur == Len(got) + 1     \* the frame the caller has not had yet

\* No read runs ahead of the link, nor the link of the camera.
NotAhead == rd <= dl /\ dl <= Start[sent + 1] /\ Len(got) <= sent

\* In the plain phase at most one frame is under way, all of it or nothing.
PlainTurn == InPlain => /\ pc = "idle"
                        /\ sent <= cur
                        /\ dl \in {rd, Start[cur + 1]}

\* In an SLP frame, every field ends where the camera put its end.
FieldEnds ==
  /\ pc \in Fields => cur <= sent
  /\ pc = "len" => rd + need = Start[cur] + 2
  /\ pc = "lencrc" => crc /\ rd + need = Start[cur] + 4
  /\ pc = "payload" => rd + need = at + flen
  /\ pc = "paycrc" => crc /\ rd + need = at + flen + 2
  /\ pc \in {"lencrc", "payload", "paycrc"} => flen = Size[cur]
  /\ pc \in {"payload", "paycrc"} => at = Start[cur] + Lead(cur)

\* The inductive invariant behind NothingSkipped, CrcAgreed and the frame
\* channel: what was handed over is exact, and unless the host gave up, the
\* position, the checksum mode and the field under way agree with the camera.
Aligned ==
  /\ NotAhead
  /\ \A i \in DOMAIN got : got[i] = Payload[i]
  /\ pc # "failed" => CrcAgreed /\ NothingSkipped /\ PlainTurn /\ FieldEnds

-----------------------------------------------------------------------------
Channel == INSTANCE FrameChannel WITH rcvd <- got

\* The byte machine implements the frame channel: every payload handed over
\* is, byte for byte, the next frame the camera wrote.
DeliversFrames == Channel!Spec

\* If the link stays up, the host comes to hold every frame.
AllRead == <>(Len(got) = NFrames \/ ~open)
=============================================================================
