-------------------------- MODULE SapFraming_proofs --------------------------
(***************************************************************************)
(* Theorems about SapFraming, for every number and size of frames, every   *)
(* read size and every way the link may cut the stream up.                 *)
(***************************************************************************)
EXTENDS SapFraming, TLAPS

(* A later frame starts no earlier, and starts lie in order. *)
LEMMA StartOrder ==
  ASSUME NEW i \in 1 .. NFrames + 1, NEW j \in 1 .. NFrames + 1
  PROVE  /\ Start[i] \in Nat
         /\ i <= j => Start[i] <= Start[j]
         /\ Start[i] < Start[j] => i < j
         /\ Start[i] = Start[j] => i = j
<1>1. \A a, b \in 1 .. NFrames + 1 : a < b => Start[a] < Start[b]
  BY StartAssumption
<1>2. Start[i] \in Nat /\ Start[j] \in Nat
  BY StartAssumption
<1>3. NFrames \in Nat
  BY FramesAssumption
<1>4. i < j \/ i = j \/ j < i
  BY <1>3
<1> QED BY <1>1, <1>2, <1>3, <1>4

(* Frame i occupies its head, payload and trailer, and the next one follows. *)
LEMMA FrameSpan ==
  ASSUME NEW i \in Frames
  PROVE  /\ i \in 1 .. NFrames + 1 /\ i + 1 \in 1 .. NFrames + 1
         /\ Size[i] \in Nat /\ Start[i] \in Nat /\ Start[i + 1] \in Nat
         /\ Lead(i) \in {2, 4} /\ Trail(i) \in {0, 2}
         /\ Start[i + 1] = Start[i] + Lead(i) + Size[i] + Trail(i)
<1>1. NFrames \in Nat /\ Size[i] \in Nat
  BY FramesAssumption
<1>2. i \in 1 .. NFrames + 1 /\ i + 1 \in 1 .. NFrames + 1
  BY <1>1 DEF Frames
<1> QED BY <1>1, <1>2, StartAssumption DEF Lead, Trail

(* The length read where a frame starts is that frame's. *)
LEMMA LengthAtFrame ==
  ASSUME NEW i \in Frames
  PROVE  LengthAt(Start[i]) = {Size[i]}
<1>1. \A j \in Frames : Start[j] = Start[i] => j = i
  BY StartOrder, FrameSpan
<1> QED BY <1>1 DEF LengthAt

(* Whatever the stream, a length read is a natural number. *)
LEMMA LengthAtType == \A p : LengthAt(p) \subseteq Nat
  BY FramesAssumption DEF LengthAt

(* A range of positions is what got is a sequence of. *)
LEMMA AppendRange ==
  ASSUME NEW s \in Seq(Nat \X Nat), NEW a \in Nat, NEW b \in Nat
  PROVE  /\ Append(s, <<a, b>>) \in Seq(Nat \X Nat)
         /\ Len(Append(s, <<a, b>>)) = Len(s) + 1
         /\ \A i \in DOMAIN s : Append(s, <<a, b>>)[i] = s[i]
         /\ Append(s, <<a, b>>)[Len(s) + 1] = <<a, b>>
<1>1. <<a, b>> \in Nat \X Nat
  OBVIOUS
<1> DEFINE e == <<a, b>>
<1>2. e \in Nat \X Nat
  BY <1>1
<1> HIDE DEF e
<1>3. /\ Append(s, e) \in Seq(Nat \X Nat)
      /\ Len(Append(s, e)) = Len(s) + 1
      /\ \A i \in DOMAIN s : Append(s, e)[i] = s[i]
      /\ Append(s, e)[Len(s) + 1] = e
  BY <1>2
<1> QED BY <1>3 DEF e

(* What HandOver leaves the caller with. *)
LEMMA HandOverRange ==
  ASSUME TypeOK, HandOver
  PROVE  got' \in Seq(Nat \X Nat)
<1>1. CASE flen < 2
  BY <1>1 DEF HandOver, TypeOK
<1>2. CASE ~(flen < 2)
  BY <1>2, AppendRange DEF HandOver, TypeOK
<1> QED BY <1>1, <1>2

(* SapFraming keeps its variables within their types: the model of          *)
(* SapSession's state is well formed whatever the camera and link do.       *)
THEOREM TypeCorrect == Spec => []TypeOK
<1>1. Init => TypeOK
  <2>1. 0 \in 0 .. NFrames
    BY FramesAssumption
  <2>2. Init => got \in Seq(Nat \X Nat)
    BY DEF Init
  <2>3. Init => crc \in BOOLEAN /\ open \in BOOLEAN
    BY DEF Init
  <2> QED BY <2>1, <2>2, <2>3 DEF Init, TypeOK
<1>2. TypeOK /\ [Next]_vars => TypeOK'
  <2> SUFFICES ASSUME TypeOK, [Next]_vars PROVE TypeOK'
    OBVIOUS
  <2> USE DEF TypeOK, host, link
  <2>1. CASE CamWrite
    BY <2>1, FramesAssumption DEF CamWrite, CanWrite
  <2>2. CASE Deliver
    <3>1. sent + 1 \in 1 .. NFrames + 1
      BY FramesAssumption
    <3>2. Start[sent + 1] \in Nat
      BY <3>1, StartOrder
    <3> QED BY <2>2, <3>2 DEF Deliver
  <2>3. CASE Drop
    BY <2>3 DEF Drop
  <2>4. CASE PlainRead
    <3>1. LengthAt(rd) \subseteq Nat
      BY LengthAtType
    <3>2. Least(dl - rd, ReadMax) \in Nat
      BY <2>4, FramesAssumption DEF PlainRead, Least
    <3>3. PICK n \in {0} \cup LengthAt(rd) :
            \/ /\ got' = Append(got, <<rd + 2, rd + Least(Least(dl - rd, ReadMax), 2 + n)>>)
               /\ crc' \in {CamCrc /\ rd + Least(Least(dl - rd, ReadMax), 2 + n) >= rd + 2 + ClModeLen, crc}
               /\ UNCHANGED pc
            \/ pc' = "failed" /\ UNCHANGED <<got, crc>>
      BY <2>4 DEF PlainRead, HasClMode, SliceEnd
    <3>4. n \in Nat
      BY <3>1
    <3>5. /\ rd + 2 \in Nat
          /\ rd + Least(Least(dl - rd, ReadMax), 2 + n) \in Nat
      <4> DEFINE d == Least(dl - rd, ReadMax)
      <4>1. d \in Nat
        BY <3>2
      <4> HIDE DEF d
      <4>2. Least(d, 2 + n) \in Nat
        BY <4>1, <3>4 DEF Least
      <4> QED BY <4>2 DEF d
    <3>6. got' \in Seq(Nat \X Nat)
      <4> DEFINE e == rd + Least(Least(dl - rd, ReadMax), 2 + n)
      <4>1. rd + 2 \in Nat /\ e \in Nat
        BY <3>5
      <4>2. got' = Append(got, <<rd + 2, e>>) \/ got' = got
        BY <3>3
      <4> HIDE DEF e
      <4>3. Append(got, <<rd + 2, e>>) \in Seq(Nat \X Nat)
        BY <4>1, AppendRange
      <4> QED BY <4>2, <4>3
    <3>7. crc' \in BOOLEAN
      <4>1. CamCrc \in BOOLEAN
        BY FramesAssumption
      <4> QED BY <2>4, <4>1 DEF PlainRead
    <3>8. rd' \in Nat
      BY <2>4, <3>2 DEF PlainRead
    <3> QED BY <2>4, <3>3, <3>6, <3>7, <3>8 DEF PlainRead
  <2>5. CASE PlainTimeout
    BY <2>5 DEF PlainTimeout
  <2>6. CASE SlpBegin
    BY <2>6 DEF SlpBegin, Fields
  <2>7. CASE SlpBytes
    BY <2>7 DEF SlpBytes, Least
  <2>8. CASE SlpLength
    BY <2>8, LengthAtType DEF SlpLength, EnterPayload, Fields
  <2>9. CASE SlpLengthCrc
    BY <2>9 DEF SlpLengthCrc, EnterPayload, Fields
  <2>10. CASE SlpPayload
    BY <2>10, HandOverRange DEF SlpPayload, Fields
  <2>11. CASE SlpPayloadCrc
    BY <2>11, HandOverRange DEF SlpPayloadCrc
  <2>12. CASE Eof
    BY <2>12, HandOverRange DEF Eof
  <2>13. CASE Reset
    BY <2>13 DEF Reset
  <2>14. CASE UNCHANGED vars
    BY <2>14 DEF vars
  <2> QED
    BY <2>1, <2>2, <2>3, <2>4, <2>5, <2>6, <2>7, <2>8, <2>9, <2>10, <2>11,
       <2>12, <2>13, <2>14 DEF Next, Host, Finish
<1> QED BY <1>1, <1>2, PTL DEF Spec

-----------------------------------------------------------------------------
(* Appending a piece that lies after the others and was read keeps them in  *)
(* order.                                                                   *)
LEMMA PieceAppended ==
  ASSUME TypeOK, NoByteTwice, NEW a \in Nat, NEW b \in Nat,
         a <= b, b <= rd', rd' \in Nat, rd <= rd',
         \A i \in DOMAIN got : got[i][2] <= a,
         got' = Append(got, <<a, b>>)
  PROVE  /\ NoByteTwice'
         /\ \A i \in DOMAIN got' : got'[i][2] <= b
<1>1. got \in Seq(Nat \X Nat)
  BY DEF TypeOK
<1>2. /\ got' \in Seq(Nat \X Nat) /\ Len(got') = Len(got) + 1
      /\ \A i \in DOMAIN got : got'[i] = got[i]
      /\ got'[Len(got) + 1] = <<a, b>>
  BY <1>1, AppendRange
<1>3. DOMAIN got = 1 .. Len(got) /\ DOMAIN got' = 1 .. Len(got) + 1
      /\ Len(got) \in Nat
  BY <1>1, <1>2
<1>4. \A i \in DOMAIN got' : i \in DOMAIN got \/ i = Len(got) + 1
  BY <1>3
<1>5. \A i \in DOMAIN got : got[i][1] \in Nat /\ got[i][2] \in Nat
  BY <1>1
<1>6. <<a, b>>[1] = a /\ <<a, b>>[2] = b
  OBVIOUS
<1>7. \A i \in DOMAIN got' : got'[i][1] <= got'[i][2] /\ got'[i][2] <= b
  <2> SUFFICES ASSUME NEW i \in DOMAIN got'
               PROVE  got'[i][1] <= got'[i][2] /\ got'[i][2] <= b
    OBVIOUS
  <2>1. CASE i \in DOMAIN got
    <3>1. got'[i] = got[i] /\ got[i][1] <= got[i][2] /\ got[i][2] <= a
      BY <2>1, <1>2 DEF NoByteTwice
    <3> QED BY <3>1, <2>1, <1>5
  <2>2. CASE i = Len(got) + 1
    BY <2>2, <1>2, <1>6
  <2> QED BY <2>1, <2>2, <1>4
<1>8. \A i \in DOMAIN got' : got'[i][2] \in Nat
  BY <1>2, <1>3, <1>4, <1>5, <1>6
<1>9. \A i \in DOMAIN got' : got'[i][2] <= rd'
  BY <1>7, <1>8
<1>10. \A i, j \in DOMAIN got' : i < j => got'[i][2] <= got'[j][1]
  <2> SUFFICES ASSUME NEW i \in DOMAIN got', NEW j \in DOMAIN got', i < j
               PROVE  got'[i][2] <= got'[j][1]
    OBVIOUS
  <2>1. i \in DOMAIN got /\ got'[i] = got[i]
    BY <1>2, <1>3, <1>4
  <2>2. CASE j \in DOMAIN got
    BY <2>1, <2>2, <1>2 DEF NoByteTwice
  <2>3. CASE j = Len(got) + 1
    BY <2>1, <2>3, <1>2, <1>6
  <2> QED BY <2>2, <2>3, <1>4
<1> QED BY <1>7, <1>9, <1>10 DEF NoByteTwice

(* Reading on without handing anything over keeps the pieces in order.      *)
LEMMA PiecesKept ==
  ASSUME TypeOK, NoByteTwice, rd' \in Nat, rd <= rd', got' = got
  PROVE  NoByteTwice'
<1>1. \A i \in DOMAIN got : got[i][1] \in Nat /\ got[i][2] \in Nat
  BY DEF TypeOK
<1> QED BY <1>1 DEF NoByteTwice, TypeOK

(* However the camera writes and the link cuts up the stream, read_frame    *)
(* and read_slp_frame hand no byte to their callers twice.                  *)
THEOREM NoByteHandedOverTwice == Spec => []NoByteTwice
<1>1. Init => Pieces
  BY DEF Init, Pieces, NoByteTwice
<1>2. TypeOK /\ TypeOK' /\ Pieces /\ [Next]_vars => Pieces'
  <2> SUFFICES ASSUME TypeOK, TypeOK', Pieces, [Next]_vars PROVE Pieces'
    OBVIOUS
  <2>0. /\ rd \in Nat /\ rd' \in Nat /\ dl \in Nat /\ need \in Nat
        /\ need' \in Nat /\ at \in Nat /\ flen \in Nat /\ NoByteTwice
        /\ \A i \in DOMAIN got : got[i][2] \in Nat /\ got[i][2] <= rd
    BY DEF TypeOK, Pieces, NoByteTwice
  <2>1. CASE UNCHANGED host
    BY <2>1 DEF Pieces, NoByteTwice, host
  <2>2. CASE PlainRead
    <3> DEFINE data == Least(dl - rd, ReadMax)
    <3>1. data \in Nat /\ rd' = rd + data
      BY <2>2, <2>0, FramesAssumption DEF PlainRead, Least
    <3>2. pc' \in {"idle", "failed"}
      BY <2>2 DEF PlainRead
    <3>3. PICK n \in {0} \cup LengthAt(rd) :
            \/ data > 2 /\ got' = Append(got, <<rd + 2, rd + Least(data, 2 + n)>>)
            \/ UNCHANGED got
      BY <2>2 DEF PlainRead, HasClMode, SliceEnd
    <3>4. n \in Nat
      BY LengthAtType
    <3>5. CASE data > 2 /\ got' = Append(got, <<rd + 2, rd + Least(data, 2 + n)>>)
      <4> DEFINE e == rd + Least(data, 2 + n)
      <4>0. data > 2
        BY <3>5
      <4> HIDE DEF data
      <4>1. e \in Nat /\ rd + 2 \in Nat /\ rd + 2 <= e /\ e <= rd' /\ rd <= rd'
        BY <3>1, <4>0, <3>4, <2>0 DEF Least
      <4>2. \A i \in DOMAIN got : got[i][2] <= rd + 2
        BY <2>0
      <4>3. got' = Append(got, <<rd + 2, e>>)
        BY <3>5 DEF data
      <4> HIDE DEF e
      <4>4. NoByteTwice'
        BY <4>1, <4>2, <4>3, <2>0, PieceAppended
      <4> QED BY <4>4, <3>2 DEF Pieces
    <3>6. CASE UNCHANGED got
      <4>1. NoByteTwice'
        BY <3>6, <3>1, <2>0, PiecesKept
      <4> QED BY <4>1, <3>2 DEF Pieces
    <3> QED BY <3>3, <3>5, <3>6
  <2>3. CASE SlpBegin
    BY <2>3 DEF SlpBegin, Pieces, NoByteTwice
  <2>4. CASE SlpBytes
    <3>1. /\ rd <= rd' /\ rd' + need' = rd + need /\ need' <= need
          /\ UNCHANGED <<got, pc, flen, at>>
      BY <2>4, <2>0 DEF SlpBytes, Least
    <3>2. NoByteTwice'
      BY <3>1, <2>0, PiecesKept
    <3> QED BY <3>1, <3>2, <2>0 DEF Pieces
  <2>5. CASE SlpLength
    <3>1. /\ UNCHANGED <<got, rd>>
          /\ \/ pc' = "lencrc"
             \/ pc' = "payload" /\ at' = rd /\ need' = flen'
      BY <2>5 DEF SlpLength, EnterPayload
    <3>2. flen' \in Nat
      BY DEF TypeOK
    <3> QED BY <3>1, <3>2, <2>0 DEF Pieces, NoByteTwice
  <2>6. CASE SlpLengthCrc
    BY <2>6, <2>0 DEF SlpLengthCrc, EnterPayload, Pieces, NoByteTwice
  <2>7. ASSUME HandOver, pc \in {"payload", "paycrc"}, UNCHANGED rd,
               pc' \in {"idle", "failed"}, at + flen <= rd
        PROVE  Pieces'
    <3>1. CASE flen < 2
      BY <2>7, <3>1 DEF HandOver, Pieces, NoByteTwice
    <3>2. CASE ~(flen < 2)
      <4> DEFINE e == at + flen
      <4>1. got' = Append(got, <<at, e>>) /\ e \in Nat /\ at <= e /\ e <= rd'
        BY <2>7, <3>2, <2>0 DEF HandOver
      <4> HIDE DEF e
      <4>2. \A i \in DOMAIN got : got[i][2] <= at
        BY <2>7 DEF Pieces
      <4>3. NoByteTwice'
        BY <4>1, <4>2, <2>0, <2>7, PieceAppended
      <4> QED BY <4>3, <2>7 DEF Pieces
    <3> QED BY <3>1, <3>2
  <2>8. CASE SlpPayload
    <3>1. CASE crc
      BY <3>1, <2>8, <2>0 DEF SlpPayload, Pieces, NoByteTwice
    <3>2. CASE ~crc
      <4>1. /\ HandOver /\ pc = "payload" /\ UNCHANGED rd /\ pc' = "idle"
            /\ need = 0
        BY <3>2, <2>8 DEF SlpPayload
      <4>2. at + flen <= rd
        BY <4>1, <2>0 DEF Pieces
      <4> QED BY <4>1, <4>2, <2>7
    <3> QED BY <3>1, <3>2
  <2>9. CASE SlpPayloadCrc
    <3>1. /\ HandOver /\ pc = "paycrc" /\ UNCHANGED rd /\ pc' = "idle"
      BY <2>9 DEF SlpPayloadCrc
    <3>2. at + flen <= rd
      BY <3>1, <2>0 DEF Pieces
    <3> QED BY <3>1, <3>2, <2>7
  <2>10. CASE Eof
    <3>1. CASE pc = "paycrc"
      <4>1. HandOver /\ UNCHANGED rd /\ pc' = "failed"
        BY <3>1, <2>10 DEF Eof
      <4>2. at + flen <= rd
        BY <3>1, <2>0 DEF Pieces
      <4> QED BY <4>1, <4>2, <3>1, <2>7
    <3>2. CASE pc # "paycrc"
      BY <3>2, <2>10 DEF Eof, Pieces, NoByteTwice
    <3> QED BY <3>1, <3>2
  <2>11. CASE PlainTimeout \/ Reset
    BY <2>11 DEF PlainTimeout, Reset, Pieces, NoByteTwice
  <2>12. CASE CamWrite \/ Deliver \/ Drop \/ Finish \/ UNCHANGED vars
    <3>1. UNCHANGED host
      BY <2>12 DEF CamWrite, Deliver, Drop, Finish, vars, host
    <3> QED BY <3>1, <2>1
  <2> QED
    BY <2>2, <2>3, <2>4, <2>5, <2>6, <2>8, <2>9, <2>10, <2>11, <2>12
    DEF Next, Host
<1>3. Pieces => NoByteTwice
  BY DEF Pieces
<1> QED BY <1>1, <1>2, <1>3, TypeCorrect, PTL DEF Spec

-----------------------------------------------------------------------------
(* What the alignment of the host and the camera says of the frame under    *)
(* way, in numbers.                                                         *)
LEMMA AlignedFacts ==
  ASSUME TypeOK, Aligned
  PROVE  /\ Len(got) \in Nat /\ cur \in Nat \ {0} /\ sent \in Nat
         /\ cur \in 1 .. NFrames + 1 /\ sent + 1 \in 1 .. NFrames + 1
         /\ Start[cur] \in Nat /\ Start[sent + 1] \in Nat
         /\ NFrames \in Nat /\ NPlain \in Nat \ {0} /\ NPlain <= NFrames
         /\ InPlain <=> cur <= NPlain
         /\ cur <= sent => cur \in Frames
         /\ Start[cur] < Start[sent + 1] => cur <= sent
         /\ rd \in Nat /\ dl \in Nat /\ rd <= dl /\ dl <= Start[sent + 1]
<1>1. Len(got) \in Nat /\ sent \in 0 .. NFrames /\ rd \in Nat /\ dl \in Nat
  BY DEF TypeOK
<1>2. NFrames \in Nat /\ NPlain \in Nat \ {0} /\ NPlain <= NFrames
  BY FramesAssumption
<1>3. Len(got) <= sent /\ rd <= dl /\ dl <= Start[sent + 1]
  BY DEF Aligned, NotAhead
<1>4. cur \in 1 .. NFrames + 1 /\ sent + 1 \in 1 .. NFrames + 1
  BY <1>1, <1>2, <1>3 DEF cur
<1>5. /\ Start[cur] \in Nat /\ Start[sent + 1] \in Nat
      /\ Start[cur] < Start[sent + 1] => cur < sent + 1
  BY <1>4, StartOrder
<1> QED BY <1>1, <1>2, <1>3, <1>4, <1>5 DEF cur, InPlain, Frames

(* Handing over the frame under way, and only that, keeps what was handed   *)
(* over exact.                                                              *)
LEMMA ExactAppend ==
  ASSUME TypeOK, Aligned, cur \in Frames,
         got' = Append(got, Payload[cur])
  PROVE  /\ Len(got') = Len(got) + 1
         /\ got' # <<>>
         /\ \A i \in DOMAIN got' : got'[i] = Payload[i]
<1> DEFINE a == Start[cur] + Lead(cur)
           b == Start[cur] + Lead(cur) + Size[cur]
<1>1. a \in Nat /\ b \in Nat /\ Payload[cur] = <<a, b>>
  BY FrameSpan DEF Payload
<1> HIDE DEF a, b
<1>2. got \in Seq(Nat \X Nat) /\ cur = Len(got) + 1
  BY DEF TypeOK, cur
<1>3. /\ got' \in Seq(Nat \X Nat) /\ Len(got') = Len(got) + 1
      /\ \A i \in DOMAIN got : got'[i] = got[i]
      /\ got'[cur] = Payload[cur]
  BY <1>1, <1>2, AppendRange
<1>4. \A i \in DOMAIN got' : i \in DOMAIN got \/ i = cur
  BY <1>2, <1>3
<1>5. \A i \in DOMAIN got : got[i] = Payload[i]
  BY DEF Aligned
<1> QED BY <1>2, <1>3, <1>4, <1>5

(* One os.read of a camera that takes turns, delivered whole, is one frame. *)
LEMMA OneReadOneFrame ==
  ASSUME TypeOK, Aligned, TurnsAssumption, PlainRead
  PROVE  /\ cur \in Frames /\ sent = cur
         /\ rd' = Start[cur + 1] /\ dl = Start[cur + 1]
         /\ \/ /\ got' = Append(got, Payload[cur])
               /\ crc' = (IF got = <<>> THEN CamCrc ELSE crc)
               /\ UNCHANGED pc
            \/ pc' = "failed" /\ UNCHANGED <<got, crc>>
<1>1. pc = "idle" /\ InPlain /\ rd < dl
  BY DEF PlainRead
<1>2. rd = Start[cur] /\ sent <= cur /\ dl \in {rd, Start[cur + 1]}
  BY <1>1 DEF Aligned, NothingSkipped, PlainTurn, cur
<1>3. dl = Start[cur + 1] /\ cur <= sent /\ cur \in Frames /\ cur <= NPlain
  BY <1>1, <1>2, AlignedFacts
<1>4. sent = cur
  BY <1>2, <1>3, AlignedFacts
<1>5. Lead(cur) = 2 /\ Trail(cur) = 0
  BY <1>3 DEF Lead, Trail, IsPlain
<1>6. Size[cur] \in Nat /\ dl = rd + 2 + Size[cur] /\ rd \in Nat
  BY <1>2, <1>3, <1>5, FrameSpan
<1>7. 2 + Size[cur] <= ReadMax /\ ReadMax \in Nat
  BY <1>3, AlignedFacts, FramesAssumption DEF TurnsAssumption
<1>8. Least(dl - rd, ReadMax) = 2 + Size[cur]
  BY <1>6, <1>7 DEF Least
<1>9. LengthAt(rd) = {Size[cur]}
  BY <1>2, <1>3, LengthAtFrame
<1>10. Least(2 + Size[cur], 2 + Size[cur]) = 2 + Size[cur]
  BY DEF Least
<1>11. Payload[cur] = <<rd + 2, rd + (2 + Size[cur])>>
  BY <1>2, <1>3, <1>5, <1>6 DEF Payload
<1>12. ~(2 + Size[cur] < 2)
  BY <1>6
<1> DEFINE d == 2 + Size[cur]
<1>13. \/ /\ got' = Append(got, Payload[cur])
          /\ crc' = (IF got = <<>> THEN CamCrc /\ rd + d >= rd + 2 + ClModeLen
                     ELSE crc)
          /\ UNCHANGED pc
       \/ pc' = "failed" /\ UNCHANGED <<got, crc>>
  <2>1. \E n \in {Size[cur]} :
          LET end == rd + Least(d, 2 + n)
              piece == <<rd + 2, end>> IN
          \/ /\ got' = Append(got, piece)
             /\ crc' = IF got = <<>> THEN CamCrc /\ end >= rd + 2 + ClModeLen
                       ELSE crc
             /\ UNCHANGED pc
          \/ pc' = "failed" /\ UNCHANGED <<got, crc>>
    BY <1>8, <1>9, <1>12 DEF PlainRead, HasClMode, SliceEnd
  <2>2. Least(d, 2 + Size[cur]) = d
    BY <1>10
  <2> QED BY <2>1, <2>2, <1>11
<1>14. rd' = Start[cur + 1]
  BY <1>3, <1>6, <1>8 DEF PlainRead
<1>15. got = <<>> => rd + (2 + Size[cur]) >= rd + 2 + ClModeLen
  <2>1. got = <<>> => cur = 1
    BY DEF cur
  <2>2. ClModeLen <= Size[1] /\ ClModeLen \in Nat
    BY FramesAssumption DEF TurnsAssumption
  <2> QED BY <2>1, <2>2, <1>6
<1>16. CASE /\ got' = Append(got, Payload[cur])
            /\ crc' = (IF got = <<>> THEN CamCrc /\ rd + d >= rd + 2 + ClModeLen
                       ELSE crc)
            /\ UNCHANGED pc
  <2>1. CamCrc \in BOOLEAN
    BY FramesAssumption
  <2>2. crc' = (IF got = <<>> THEN CamCrc ELSE crc)
    BY <1>15, <1>16, <2>1
  <2> QED BY <1>3, <1>4, <1>14, <1>16, <2>2
<1> QED BY <1>3, <1>4, <1>13, <1>14, <1>16

(* A frame handed over by read_slp_frame leaves the host at the next one.   *)
LEMMA SlpDone ==
  ASSUME TypeOK, Aligned, pc \in Fields, flen = Size[cur],
         at = Start[cur] + Lead(cur), rd = Start[cur + 1],
         HandOver, pc' \in {"idle", "failed"}, UNCHANGED <<rd, crc, link>>
  PROVE  Aligned' /\ got' = Append(got, Payload[cur])
<1>1. cur <= sent /\ cur \in Frames
  BY AlignedFacts DEF Aligned, FieldEnds, Fields
<1>2. ~InPlain
  BY DEF Aligned, PlainTurn, Fields
<1>3. ~IsPlain(cur) /\ ~(flen < 2)
  <2>1. ~(cur <= NPlain)
    BY <1>2, AlignedFacts
  <2>2. Size[cur] >= 2 /\ Size[cur] \in Nat
    BY <2>1, <1>1, StartAssumption, FrameSpan DEF IsPlain
  <2> QED BY <2>1, <2>2 DEF IsPlain
<1>4. got' = Append(got, Payload[cur])
  BY <1>1, <1>3 DEF HandOver, Payload
<1>5. /\ Len(got') = cur /\ \A i \in DOMAIN got' : got'[i] = Payload[i]
      /\ cur' = cur + 1
  BY <1>1, <1>4, ExactAppend, AlignedFacts DEF cur
<1>6. crc = CamCrc
  <2>1. got # <<>>
    BY <1>2, AlignedFacts DEF InPlain
  <2> QED BY <2>1 DEF Aligned, CrcAgreed, Fields
<1>7. NotAhead'
  BY <1>1, <1>5, AlignedFacts DEF NotAhead, link
<1>8. ~InPlain'
  BY <1>2, <1>5, AlignedFacts DEF InPlain, cur
<1>9. NothingSkipped' /\ CrcAgreed'
  BY <1>5, <1>6, AlignedFacts DEF NothingSkipped, CrcAgreed, cur
<1>10. PlainTurn' /\ FieldEnds'
  BY <1>8 DEF PlainTurn, FieldEnds, Fields
<1> QED BY <1>4, <1>5, <1>7, <1>9, <1>10 DEF Aligned

(* With a camera that takes turns and plain frames delivered whole, the     *)
(* host's position never leaves the camera's frames.                        *)
LEMMA AlignedStep ==
  ASSUME TurnsAssumption, TypeOK, TypeOK', Aligned, [Next]_vars
  PROVE  Aligned'
<1>0. /\ NotAhead /\ \A i \in DOMAIN got : got[i] = Payload[i]
      /\ pc # "failed" => CrcAgreed /\ NothingSkipped /\ PlainTurn /\ FieldEnds
  BY DEF Aligned
<1>1. CASE CamWrite
  <2>1. /\ sent' = sent + 1 /\ UNCHANGED <<dl, host>> /\ sent < NFrames
        /\ Len(got) >= Await[sent + 1]
    BY <1>1 DEF CamWrite, CanWrite
  <2>2. UNCHANGED cur /\ (InPlain' <=> InPlain)
    BY <2>1 DEF cur, host, InPlain
  <2>3. sent + 1 \in Frames /\ sent + 2 \in 1 .. NFrames + 1
    BY <2>1, AlignedFacts DEF Frames
  <2>4. Start[sent + 1] <= Start[sent + 2] /\ Start[sent + 2] \in Nat
    BY <2>3, AlignedFacts, StartOrder
  <2>5. NotAhead'
    BY <2>1, <2>4, AlignedFacts, <1>0 DEF NotAhead, host
  <2>6. InPlain => sent + 1 <= cur
    <3>1. /\ Await[sent + 1] \in Nat
          /\ Await[sent + 1] >= IF IsPlain(sent + 1) THEN sent ELSE NPlain
      <4>1. Await[sent + 1] >= IF IsPlain(sent + 1) THEN (sent + 1) - 1
                                                    ELSE NPlain
        BY <2>3 DEF TurnsAssumption
      <4>2. Await[sent + 1] \in Nat
        BY <2>3, FramesAssumption
      <4>3. (sent + 1) - 1 = sent
        BY AlignedFacts
      <4> QED BY <4>1, <4>2, <4>3
    <3>2. IsPlain(sent + 1) <=> sent + 1 <= NPlain
      BY DEF IsPlain
    <3> QED BY <3>1, <3>2, <2>1, AlignedFacts DEF cur, InPlain
  <2>7. pc # "failed" => (CrcAgreed /\ NothingSkipped)'
    BY <1>0, <2>1 DEF CrcAgreed, NothingSkipped, host
  <2>8. pc # "failed" => PlainTurn'
    BY <1>0, <2>1, <2>2, <2>6 DEF PlainTurn, host
  <2>9. pc # "failed" => FieldEnds'
    BY <1>0, <2>1, <2>2, AlignedFacts DEF FieldEnds, host
  <2> QED BY <1>0, <2>1, <2>5, <2>7, <2>8, <2>9 DEF Aligned, host
<1>2. CASE Deliver
  <2>1. /\ dl < Start[sent + 1] /\ dl' \in dl + 1 .. Start[sent + 1]
        /\ UNCHANGED <<sent, host>>
        /\ \A i \in 1 .. NPlain : ~(Start[i] < dl' /\ dl' < Start[i + 1])
    BY <1>2 DEF Deliver, TurnsAssumption
  <2>2. UNCHANGED cur /\ (InPlain' <=> InPlain)
    BY <2>1 DEF cur, host, InPlain
  <2>3. NotAhead'
    BY <2>1, <1>0, AlignedFacts DEF NotAhead, host
  <2>4. pc # "failed" /\ InPlain => dl' = Start[cur + 1]
    <3> SUFFICES ASSUME pc # "failed", InPlain PROVE dl' = Start[cur + 1]
      OBVIOUS
    <3>1. pc = "idle" /\ rd = Start[cur] /\ sent <= cur
      BY <1>0 DEF PlainTurn, NothingSkipped, cur
    <3>2. cur <= sent
      BY <2>1, <3>1, AlignedFacts
    <3>3. sent = cur /\ cur \in 1 .. NPlain
      BY <3>1, <3>2, AlignedFacts
    <3>4. Start[cur] < dl' /\ dl' <= Start[cur + 1] /\ dl' \in Nat
      BY <2>1, <3>1, <3>3, AlignedFacts
    <3>5. Start[cur + 1] \in Nat
      BY <3>3, AlignedFacts
    <3> QED BY <3>3, <3>4, <3>5, <2>1
  <2>5. pc # "failed" => (CrcAgreed /\ NothingSkipped)'
    BY <1>0, <2>1 DEF CrcAgreed, NothingSkipped, host
  <2>6. pc # "failed" => PlainTurn'
    BY <1>0, <2>1, <2>2, <2>4 DEF PlainTurn, host
  <2>7. pc # "failed" => FieldEnds'
    BY <1>0, <2>1, <2>2 DEF FieldEnds, host
  <2> QED BY <1>0, <2>1, <2>3, <2>5, <2>6, <2>7 DEF Aligned, host
<1>3. CASE Drop \/ Finish \/ UNCHANGED vars
  <2>1. UNCHANGED <<sent, dl, host>>
    BY <1>3 DEF Drop, Finish, vars, host
  <2> QED BY <2>1 DEF Aligned, NotAhead, CrcAgreed, NothingSkipped, PlainTurn,
                      FieldEnds, cur, InPlain, host
<1>4. CASE PlainRead
  <2>1. /\ cur \in Frames /\ sent = cur
        /\ rd' = Start[cur + 1] /\ dl = Start[cur + 1]
    BY <1>4, OneReadOneFrame
  <2>2. pc = "idle" /\ UNCHANGED <<sent, dl>>
    BY <1>4 DEF PlainRead, link
  <2>3. CASE pc' = "failed" /\ UNCHANGED got
    BY <2>1, <2>2, <2>3, <1>0, AlignedFacts DEF Aligned, NotAhead
  <2>4. CASE /\ got' = Append(got, Payload[cur])
             /\ crc' = (IF got = <<>> THEN CamCrc ELSE crc)
             /\ UNCHANGED pc
    <3>1. /\ Len(got') = Len(got) + 1 /\ got' # <<>>
          /\ \A i \in DOMAIN got' : got'[i] = Payload[i]
      BY <2>1, <2>4, ExactAppend
    <3>2. cur' = cur + 1 /\ Len(got') = cur
      BY <3>1, AlignedFacts DEF cur
    <3>3. NotAhead'
      BY <2>1, <2>2, <3>2, AlignedFacts DEF NotAhead
    <3>4. CrcAgreed' /\ NothingSkipped'
      BY <2>1, <2>2, <2>4, <3>1, <3>2, <1>0, AlignedFacts
      DEF CrcAgreed, NothingSkipped, cur
    <3>5. PlainTurn'
      BY <2>1, <2>2, <2>4, <3>2, AlignedFacts DEF PlainTurn
    <3>6. FieldEnds'
      BY <2>2, <2>4 DEF FieldEnds, Fields
    <3> QED BY <3>1, <3>3, <3>4, <3>5, <3>6 DEF Aligned
  <2> QED BY <1>4, <2>3, <2>4, OneReadOneFrame
<1>5. CASE PlainTimeout \/ Reset
  <2>1. pc' = "failed" /\ UNCHANGED <<rd, got, link>>
    BY <1>5 DEF PlainTimeout, Reset
  <2> QED BY <1>0, <2>1 DEF Aligned, NotAhead, link
<1>6. CASE SlpBegin
  <2>1. /\ pc = "idle" /\ ~InPlain /\ rd < dl /\ pc' = "len" /\ need' = 2
        /\ UNCHANGED <<rd, got, crc, link>>
    BY <1>6 DEF SlpBegin
  <2>2. UNCHANGED cur /\ ~InPlain'
    BY <2>1 DEF cur, InPlain
  <2>3. rd = Start[cur] /\ cur <= sent
    BY <2>1, <1>0, AlignedFacts DEF NothingSkipped, cur
  <2> QED BY <1>0, <2>1, <2>2, <2>3
    DEF Aligned, NotAhead, CrcAgreed, NothingSkipped, PlainTurn, FieldEnds, link
<1>7. CASE SlpBytes
  <2>1. /\ pc \in Fields /\ rd' + need' = rd + need /\ rd' <= dl
        /\ UNCHANGED <<got, pc, flen, at, crc, link>>
    BY <1>7 DEF SlpBytes, Least, TypeOK
  <2>2. UNCHANGED cur /\ ~InPlain' /\ pc # "idle"
    BY <2>1, <1>0 DEF cur, InPlain, PlainTurn, Fields
  <2>3. NotAhead'
    BY <2>1, <1>0 DEF NotAhead, link
  <2>4. pc # "failed" => (CrcAgreed /\ NothingSkipped /\ PlainTurn)'
    BY <2>1, <2>2, <1>0 DEF CrcAgreed, NothingSkipped, PlainTurn
  <2>5. pc # "failed" => FieldEnds'
    BY <2>1, <2>2, <1>0 DEF FieldEnds, link
  <2> QED BY <1>0, <2>1, <2>3, <2>4, <2>5 DEF Aligned
<1>8. CASE SlpLength
  <2>1. /\ pc = "len" /\ need = 0 /\ UNCHANGED <<rd, got, crc, link>>
        /\ flen' \in LengthAt(rd - 2)
        /\ IF crc THEN pc' = "lencrc" /\ need' = 2
                  ELSE pc' = "payload" /\ need' = flen' /\ at' = rd
    BY <1>8 DEF SlpLength, EnterPayload
  <2>2. cur <= sent /\ rd = Start[cur] + 2 /\ crc = CamCrc /\ ~InPlain
    <3>1. rd + need = Start[cur] + 2 /\ cur <= sent
      BY <2>1, <1>0 DEF FieldEnds, Fields
    <3>2. ~InPlain
      BY <2>1, <1>0 DEF PlainTurn
    <3>3. got # <<>>
      BY <3>2, AlignedFacts DEF InPlain
    <3> QED BY <3>1, <3>2, <3>3, <2>1, <1>0, AlignedFacts DEF CrcAgreed
  <2>3. cur \in Frames /\ ~IsPlain(cur)
    BY <2>2, AlignedFacts DEF IsPlain
  <2>4. flen' = Size[cur]
    <3>1. rd - 2 = Start[cur]
      BY <2>2, AlignedFacts
    <3>2. cur \in Frames
      BY <2>3
    <3>3. LengthAt(rd - 2) = {Size[cur]}
      BY <3>1, <3>2, LengthAtFrame, Zenon
    <3> QED BY <2>1, <3>3
  <2>5. Lead(cur) = IF crc THEN 4 ELSE 2
    BY <2>2, <2>3 DEF Lead
  <2>6. UNCHANGED cur /\ ~InPlain' /\ pc' # "idle"
    BY <2>1, <2>2 DEF cur, InPlain
  <2>7. NotAhead' /\ CrcAgreed' /\ NothingSkipped' /\ PlainTurn'
    BY <2>1, <2>6, <1>0 DEF NotAhead, CrcAgreed, NothingSkipped, PlainTurn, link
  <2>8. FieldEnds'
    <3>1. CASE crc
      <4>1. pc' = "lencrc" /\ need' = 2 /\ flen' = Size[cur] /\ rd' = rd
        BY <3>1, <2>1, <2>4
      <4>2. rd' + need' = Start[cur] + 4
        <5>1. rd = Start[cur] + 2
          BY <2>2
        <5>2. Start[cur] \in Nat
          BY AlignedFacts
        <5> QED BY <5>1, <5>2, <4>1
      <4>3. crc'
        BY <3>1, <2>1
      <4> QED BY <4>1, <4>2, <4>3, <2>1, <2>2, <2>6 DEF FieldEnds, link
    <3>2. CASE ~crc
      <4>1. /\ pc' = "payload" /\ need' = Size[cur] /\ flen' = Size[cur]
            /\ at' = Start[cur] + Lead(cur) /\ rd' = at'
        BY <3>2, <2>1, <2>2, <2>4, <2>5
      <4> QED BY <4>1, <2>1, <2>2, <2>6 DEF FieldEnds, link
    <3> QED BY <3>1, <3>2
  <2> QED BY <1>0, <2>1, <2>7, <2>8 DEF Aligned
<1>9. CASE SlpLengthCrc
  <2>1. /\ pc = "lencrc" /\ need = 0 /\ UNCHANGED <<rd, got, flen, crc, link>>
        /\ pc' = "payload" /\ need' = flen /\ at' = rd
    BY <1>9 DEF SlpLengthCrc, EnterPayload
  <2>2. /\ cur <= sent /\ rd + 0 = Start[cur] + 4 /\ crc /\ flen = Size[cur]
        /\ ~InPlain
    BY <2>1, <1>0 DEF FieldEnds, PlainTurn, Fields
  <2>3. crc = CamCrc
    <3>1. got # <<>>
      BY <2>2, AlignedFacts DEF InPlain
    <3> QED BY <3>1, <2>1, <1>0 DEF CrcAgreed
  <2>4. Lead(cur) = 4
    BY <2>2, <2>3, AlignedFacts DEF Lead, IsPlain
  <2>5. UNCHANGED cur /\ ~InPlain' /\ pc' # "idle"
    BY <2>1, <2>2 DEF cur, InPlain
  <2>6. NotAhead' /\ CrcAgreed' /\ NothingSkipped' /\ PlainTurn'
    BY <2>1, <2>5, <1>0 DEF NotAhead, CrcAgreed, NothingSkipped, PlainTurn, link
  <2>7. FieldEnds'
    <3>1. at' = Start[cur] + Lead(cur)
      BY <2>1, <2>2, <2>4, AlignedFacts
    <3> QED BY <3>1, <2>1, <2>2, <2>5 DEF FieldEnds, link
  <2> QED BY <1>0, <2>1, <2>6, <2>7 DEF Aligned
<1>10. CASE SlpPayload
  <2>1. /\ pc = "payload" /\ need = 0 /\ UNCHANGED <<rd, flen, at, crc, link>>
    BY <1>10 DEF SlpPayload
  <2>2. /\ cur <= sent /\ rd + need = at + flen /\ flen = Size[cur]
        /\ at = Start[cur] + Lead(cur) /\ ~InPlain /\ crc = CamCrc
    <3>1. ~InPlain
      BY <2>1, <1>0 DEF PlainTurn
    <3>2. got # <<>>
      BY <3>1, AlignedFacts DEF InPlain
    <3> QED BY <2>1, <3>1, <3>2, <1>0 DEF FieldEnds, CrcAgreed, Fields
  <2>3. CASE crc
    <3>1. pc' = "paycrc" /\ need' = 2 /\ UNCHANGED got
      BY <2>3, <1>10 DEF SlpPayload
    <3>2. UNCHANGED cur /\ ~InPlain' /\ pc' # "idle"
      BY <3>1, <2>2 DEF cur, InPlain
    <3>3. NotAhead' /\ CrcAgreed' /\ NothingSkipped' /\ PlainTurn'
      BY <2>1, <3>1, <3>2, <1>0
      DEF NotAhead, CrcAgreed, NothingSkipped, PlainTurn, link
    <3>4. rd' + need' = at' + flen' + 2
      BY <2>1, <2>2, <3>1 DEF TypeOK
    <3>5. FieldEnds'
      BY <2>1, <2>2, <2>3, <3>1, <3>2, <3>4 DEF FieldEnds, link
    <3> QED BY <1>0, <3>1, <3>3, <3>5 DEF Aligned
  <2>4. CASE ~crc
    <3>1. pc' = "idle" /\ HandOver
      BY <2>4, <1>10 DEF SlpPayload
    <3>2. cur \in Frames /\ Trail(cur) = 0
      BY <2>2, <2>4, AlignedFacts DEF Trail
    <3>3. rd = Start[cur + 1]
      BY <2>1, <2>2, <3>2, FrameSpan DEF TypeOK
    <3> QED BY <2>1, <2>2, <3>1, <3>3, SlpDone DEF Fields
  <2> QED BY <2>3, <2>4
<1>11. ASSUME pc = "paycrc", need = 0 PROVE flen = Size[cur] /\ rd = Start[cur + 1]
  <2>1. /\ cur <= sent /\ rd + need = at + flen + 2 /\ flen = Size[cur]
        /\ at = Start[cur] + Lead(cur) /\ crc /\ ~InPlain
    BY <1>11, <1>0 DEF FieldEnds, PlainTurn, Fields
  <2>2. crc = CamCrc
    <3>1. got # <<>>
      BY <2>1, AlignedFacts DEF InPlain
    <3> QED BY <3>1, <1>11, <1>0 DEF CrcAgreed
  <2>3. cur \in Frames /\ Trail(cur) = 2
    BY <2>1, <2>2, AlignedFacts DEF Trail, IsPlain
  <2>4. /\ Start[cur + 1] = Start[cur] + Lead(cur) + Size[cur] + 2
        /\ Start[cur] \in Nat /\ Size[cur] \in Nat /\ Lead(cur) \in {2, 4}
    BY <2>3, FrameSpan
  <2>5. rd \in Nat
    BY DEF TypeOK
  <2> QED BY <1>11, <2>1, <2>4, <2>5
<1>12. CASE SlpPayloadCrc
  <2>1. /\ pc = "paycrc" /\ need = 0 /\ pc' = "idle" /\ HandOver
        /\ UNCHANGED <<rd, flen, at, crc, link>>
    BY <1>12 DEF SlpPayloadCrc
  <2>2. at = Start[cur] + Lead(cur)
    BY <2>1, <1>0 DEF FieldEnds
  <2> QED BY <2>1, <2>2, <1>11, SlpDone DEF Fields
<1>13. CASE Eof
  <2>1. pc' = "failed" /\ UNCHANGED <<rd, flen, at, crc, link>>
    BY <1>13 DEF Eof
  <2>2. CASE pc # "paycrc"
    <3>1. UNCHANGED got
      BY <2>2, <1>13 DEF Eof
    <3> QED BY <2>1, <3>1, <1>0 DEF Aligned, NotAhead, link
  <2>3. CASE pc = "paycrc"
    <3>1. HandOver
      BY <2>3, <1>13 DEF Eof
    <3>2. /\ cur <= sent /\ flen = Size[cur] /\ at = Start[cur] + Lead(cur)
          /\ ~InPlain
      BY <2>3, <1>0 DEF FieldEnds, PlainTurn, Fields
    <3>3. cur \in Frames /\ Size[cur] >= 2 /\ Size[cur] \in Nat
      BY <3>2, AlignedFacts, FrameSpan, StartAssumption DEF IsPlain
    <3>4. got' = Append(got, Payload[cur])
      BY <3>1, <3>2, <3>3 DEF HandOver, Payload
    <3>5. Len(got') = cur /\ \A i \in DOMAIN got' : got'[i] = Payload[i]
      BY <3>3, <3>4, ExactAppend DEF cur
    <3> QED BY <2>1, <3>2, <3>5, <1>0 DEF Aligned, NotAhead, link
  <2> QED BY <2>2, <2>3
<1> QED
  BY <1>1, <1>2, <1>3, <1>4, <1>5, <1>6, <1>7, <1>8, <1>9, <1>10, <1>12,
     <1>13 DEF Next, Host

LEMMA AlignedInit == Init => Aligned
<1> SUFFICES ASSUME Init PROVE Aligned
  OBVIOUS
<1>1. NFrames \in Nat /\ NPlain \in Nat \ {0} /\ Start[1] = 0 /\ Len(got) = 0
  BY FramesAssumption, StartAssumption DEF Init
<1>2. NotAhead /\ CrcAgreed /\ NothingSkipped /\ PlainTurn
  BY <1>1 DEF Init, NotAhead, CrcAgreed, NothingSkipped, PlainTurn, cur
<1>3. FieldEnds
  BY DEF Init, FieldEnds, Fields
<1> QED BY <1>2, <1>3 DEF Init, Aligned

(* The invariant of the receiving half of SapSession under a camera that    *)
(* takes turns and an RFCOMM that keeps plain frames in one piece.          *)
THEOREM StaysAligned ==
  ASSUME TurnsAssumption PROVE Spec => []Aligned
<1>1. TypeOK /\ TypeOK' /\ Aligned /\ [Next]_vars => Aligned'
  BY AlignedStep
<1> QED BY <1>1, AlignedInit, TypeCorrect, PTL DEF Spec

(* read_frame's single os.read and read_slp_frame's fields never leave the  *)
(* host anywhere but at the first byte of the caller's next frame.          *)
THEOREM NoFrameSkipped ==
  ASSUME TurnsAssumption PROVE Spec => []NothingSkipped
<1>1. Aligned => NothingSkipped
  BY DEF Aligned, NothingSkipped
<1> QED BY <1>1, StaysAligned, PTL

(* Without any assumption on turns or on whole frames: the checksum mode    *)
(* of a session is wrong exactly when the camera uses checksums and the one *)
(* os.read that took PD_REQUEST did not reach the clMode, however much more *)
(* of the frame arrives later (session.py:201-204).                         *)
THEOREM ChecksumsLostOnlyByACut == Spec => []CrcFromFirstRead
<1>1. Init => CrcSettled
  BY DEF Init, CrcSettled, CrcFromFirstRead, Fields
<1>2. TypeOK /\ TypeOK' /\ CrcSettled /\ [Next]_vars => CrcSettled'
  <2> SUFFICES ASSUME TypeOK, TypeOK', CrcSettled, [Next]_vars
               PROVE  CrcSettled'
    OBVIOUS
  <2>0. /\ NPlain \in Nat \ {0} /\ ClModeLen \in Nat /\ CamCrc \in BOOLEAN
        /\ got \in Seq(Nat \X Nat) /\ got' \in Seq(Nat \X Nat) /\ rd \in Nat
    BY FramesAssumption DEF TypeOK
  <2>1. ASSUME got # <<>>, NEW piece \in Nat \X Nat, got' = Append(got, piece)
        PROVE  got' # <<>> /\ got'[1] = got[1]
    BY <2>0, <2>1
  <2>2. ASSUME got # <<>>, UNCHANGED crc,
               \/ UNCHANGED got
               \/ \E piece \in Nat \X Nat : got' = Append(got, piece)
        PROVE  CrcSettled'
    BY <2>1, <2>2 DEF CrcSettled, CrcFromFirstRead
  <2>3. ASSUME got = <<>>, UNCHANGED got, pc' \notin Fields
        PROVE  CrcSettled'
    BY <2>3 DEF CrcSettled, CrcFromFirstRead
  <2>4. CASE UNCHANGED <<got, pc, crc>>
    BY <2>4 DEF CrcSettled, CrcFromFirstRead
  <2>5. CASE PlainRead
    <3>1. CASE got # <<>>
      <4>1. /\ UNCHANGED crc
            /\ \/ UNCHANGED got
               \/ \E end : got' = Append(got, <<rd + 2, end>>)
        BY <3>1, <2>5 DEF PlainRead
      <4>2. ASSUME NEW end, got' = Append(got, <<rd + 2, end>>)
            PROVE  <<rd + 2, end>> \in Nat \X Nat
        BY <4>2, <2>0, AppendRange
      <4> QED BY <3>1, <4>1, <4>2, <2>2
    <3>2. CASE got = <<>> /\ UNCHANGED got
      BY <3>2, <2>5, <2>3 DEF PlainRead, Fields
    <3>3. CASE got = <<>> /\ ~UNCHANGED got
      <4>1. PICK end : /\ got' = Append(got, <<rd + 2, end>>)
                       /\ crc' = (CamCrc /\ HasClMode(rd + 2, end))
                       /\ UNCHANGED pc
        BY <3>3, <2>5 DEF PlainRead
      <4>2. got' # <<>> /\ got'[1] = <<rd + 2, end>> /\ end \in Nat
        BY <3>3, <4>1, <2>0
      <4>3. HasClMode(rd + 2, end) <=> ~(end - (rd + 2) < ClModeLen)
        BY <4>2, <2>0 DEF HasClMode
      <4>4. (crc' # CamCrc) <=> (CamCrc /\ end - (rd + 2) < ClModeLen)
        BY <4>1, <4>3, <2>0
      <4>5. CrcFromFirstRead'
        BY <4>2, <4>4 DEF CrcFromFirstRead
      <4> QED BY <4>2, <4>5 DEF CrcSettled
    <3> QED BY <3>1, <3>2, <3>3
  <2>6. CASE PlainTimeout \/ Reset
    BY <2>6 DEF PlainTimeout, Reset, CrcSettled, CrcFromFirstRead, Fields
  <2>7. CASE SlpBegin
    <3>1. got # <<>>
      BY <2>7, <2>0 DEF SlpBegin, InPlain
    <3> QED BY <3>1, <2>2, <2>7 DEF SlpBegin
  <2>8. CASE SlpLength \/ SlpLengthCrc
    <3>1. got # <<>> /\ UNCHANGED <<got, crc>>
      BY <2>8 DEF SlpLength, SlpLengthCrc, CrcSettled, Fields
    <3> QED BY <3>1, <2>2
  <2>9. CASE SlpPayload \/ SlpPayloadCrc \/ Eof
    <3>1. UNCHANGED crc /\ (UNCHANGED got \/ (HandOver /\ pc \in Fields))
      BY <2>9 DEF SlpPayload, SlpPayloadCrc, Eof, Fields
    <3>2. CASE HandOver /\ pc \in Fields
      <4>1. got # <<>>
        BY <3>2 DEF CrcSettled
      <4>2. \/ UNCHANGED got
            \/ \E piece \in Nat \X Nat : got' = Append(got, piece)
        BY <3>2 DEF HandOver, TypeOK
      <4> QED BY <4>1, <4>2, <3>1, <2>2
    <3>3. CASE UNCHANGED got /\ got # <<>>
      BY <3>3, <3>1, <2>2
    <3>4. CASE UNCHANGED got /\ got = <<>>
      <4>1. pc' \notin Fields
        BY <3>4, <2>9
        DEF SlpPayload, SlpPayloadCrc, Eof, CrcSettled, Fields
      <4> QED BY <3>4, <4>1, <2>3
    <3> QED BY <3>1, <3>2, <3>3, <3>4
  <2>10. CASE CamWrite \/ Deliver \/ Drop \/ SlpBytes \/ Finish
              \/ UNCHANGED vars
    BY <2>4, <2>10 DEF CamWrite, Deliver, Drop, SlpBytes, Finish, vars, host
  <2> QED
    BY <2>5, <2>6, <2>7, <2>8, <2>9, <2>10 DEF Next, Host
<1>3. CrcSettled => CrcFromFirstRead
  BY DEF CrcSettled
<1> QED BY <1>1, <1>2, <1>3, TypeCorrect, PTL DEF Spec

(* What a step of the byte machine is to the frame channel: the camera's    *)
(* write is a Send, handing the frame under way over is a Receive, and      *)
(* every other step is a stutter.                                           *)
LEMMA StepIsChannelStep ==
  ASSUME TurnsAssumption, TypeOK, TypeOK', Aligned, Aligned', [Next]_vars
  PROVE  [Channel!Next]_(Channel!vars)
<1>1. ASSUME cur \in Frames, cur <= sent, got' = Append(got, Payload[cur]),
             UNCHANGED sent
      PROVE  Channel!Next
  BY <1>1, AlignedFacts DEF Channel!Next, Channel!Receive, cur
<1>2. ASSUME UNCHANGED <<sent, got>> PROVE UNCHANGED Channel!vars
  BY <1>2 DEF Channel!vars
<1>3. ASSUME HandOver, UNCHANGED sent, pc \in {"payload", "paycrc"}
      PROVE  [Channel!Next]_(Channel!vars)
  <2>1. /\ cur <= sent /\ flen = Size[cur] /\ at = Start[cur] + Lead(cur)
    BY <1>3 DEF Aligned, FieldEnds, Fields
  <2>2. cur \in Frames
    BY <2>1, AlignedFacts
  <2>3. \/ UNCHANGED got
        \/ got' = Append(got, Payload[cur])
    BY <1>3, <2>1, <2>2 DEF HandOver, Payload
  <2> QED BY <2>1, <2>2, <2>3, <1>1, <1>2, <1>3
<1>4. CASE CamWrite
  BY <1>4 DEF CamWrite, CanWrite, host, Channel!Next, Channel!Send
<1>5. CASE PlainRead
  <2>1. /\ cur \in Frames /\ sent = cur
        /\ got' = Append(got, Payload[cur]) \/ UNCHANGED got
    BY <1>5, OneReadOneFrame
  <2>2. UNCHANGED sent
    BY <1>5 DEF PlainRead, link
  <2> QED BY <2>1, <2>2, <1>1, <1>2, AlignedFacts
<1>6. CASE SlpPayload
  <2>1. pc = "payload" /\ UNCHANGED sent /\ (HandOver \/ UNCHANGED got)
    BY <1>6 DEF SlpPayload, link
  <2> QED BY <2>1, <1>2, <1>3
<1>7. CASE SlpPayloadCrc
  BY <1>7, <1>3 DEF SlpPayloadCrc, link
<1>8. CASE Eof
  <2>1. UNCHANGED sent /\ (UNCHANGED got \/ (HandOver /\ pc = "paycrc"))
    BY <1>8 DEF Eof, link
  <2> QED BY <2>1, <1>2, <1>3
<1>9. CASE Deliver \/ Drop \/ PlainTimeout \/ Reset \/ SlpBegin \/ SlpBytes
           \/ SlpLength \/ SlpLengthCrc \/ Finish \/ UNCHANGED vars
  <2>1. UNCHANGED <<sent, got>>
    BY <1>9 DEF Deliver, Drop, PlainTimeout, Reset, SlpBegin, SlpBytes,
                SlpLength, SlpLengthCrc, Finish, vars, host, link
  <2> QED BY <2>1, <1>2
<1> QED
  BY <1>4, <1>5, <1>6, <1>7, <1>8, <1>9 DEF Next, Host

(* The byte machine implements the frame channel: whatever the sizes of the *)
(* frames and however SLP frames are cut up, the handshake is handed the    *)
(* camera's frames whole, in order, none skipped.                           *)
THEOREM ImplementsFrameChannel ==
  ASSUME TurnsAssumption PROVE Spec => DeliversFrames
<1>1. Init => Channel!Init
  BY DEF Init, Channel!Init
<1>2. TypeOK /\ TypeOK' /\ Aligned /\ Aligned' /\ [Next]_vars
        => [Channel!Next]_(Channel!vars)
  BY StepIsChannelStep
<1> QED BY <1>1, <1>2, TypeCorrect, StaysAligned, PTL
        DEF Spec, DeliversFrames, Channel!Spec
=============================================================================
