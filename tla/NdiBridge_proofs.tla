--------------------------- MODULE NdiBridge_proofs ---------------------------
(***************************************************************************)
(* Proofs about NdiBridge, for every stream, every way it may end, all     *)
(* modes and pipes of every capacity.                                      *)
(***************************************************************************)
EXTENDS NdiBridge, TLAPS

LEMMA StreamLength == N \in Nat
  BY StreamAssumption DEF N

LEMMA OutsGrow ==
  ASSUME NEW s \in Seq(1 .. N), NEW c \in 1 .. N
  PROVE  Append(s, c) \in Seq(1 .. N) /\ Len(Append(s, c)) = Len(s) + 1
  OBVIOUS

\* What the generator keeps to by itself: it has yielded less than it read.
DemuxInv == DemuxTypeOK /\ Len(outs) < chunk

\* A step of the generator yields one frame or none.
YieldsOne == Len(outs') = Len(outs) + 1 /\ gen' = "yielded"
YieldsNone == outs' = outs /\ gen' # "yielded"

LEMMA ChunkMoves ==
  ASSUME DemuxInv, part # "tag", NextChunk
  PROVE  chunk' \in 1 .. N + 1 /\ part' = "tag" /\ chunk' = chunk + 1
  BY StreamLength DEF DemuxInv, DemuxTypeOK, NextChunk

LEMMA SourceTyped ==
  ASSUME DemuxTypeOK, Gets \/ GetsNone \/ GetsData \/ GetsNoData \/ Raises
  PROVE  src' \in {"open", "eof", "timeout", "stale", "reset"}
  BY DEF DemuxTypeOK, Gets, GetsNone, GetsData, GetsNoData, Raises

LEMMA DemuxKeeps ==
  ASSUME DemuxInv, Demux
  PROVE  DemuxInv' /\ gen = "reading" /\ (YieldsOne \/ YieldsNone)
  <1> USE StreamLength DEF Reading
  <1>1. CASE ReadTag
    <2>1. src' \in {"open", "eof", "timeout", "stale", "reset"}
      BY <1>1, SourceTyped DEF ReadTag, DemuxInv
    <2>2. UNCHANGED <<chunk, short, outs>> /\ gen = "reading" /\ part = "tag"
      BY <1>1 DEF ReadTag
    <2>3. /\ gen' \in {"reading", "done"} /\ part' \in {"tag", "rest", "size"}
          /\ part' # "tag" => chunk <= N
      BY <1>1, <2>2 DEF ReadTag, Gets
    <2> QED  BY <2>1, <2>2, <2>3 DEF DemuxInv, DemuxTypeOK, YieldsNone
  <1>2. CASE SkipHeader
    <2>1. src' \in {"open", "eof", "timeout", "stale", "reset"}
      BY <1>2, SourceTyped DEF SkipHeader, DemuxInv
    <2>2. chunk' \in 1 .. N + 1 /\ part' = "tag" /\ chunk' = chunk + 1
      BY <1>2, ChunkMoves DEF SkipHeader
    <2> QED  BY <1>2, <2>1, <2>2 DEF SkipHeader, DemuxInv, DemuxTypeOK, YieldsNone
  <1>3. CASE ReadSize
    <2>1. src' \in {"open", "eof", "timeout", "stale", "reset"}
      BY <1>3, SourceTyped DEF ReadSize, DemuxInv
    <2>2. short' \in BOOLEAN
      BY <1>3, Zenon DEF ReadSize, DemuxInv, DemuxTypeOK
    <2> QED  BY <1>3, <2>1, <2>2 DEF ReadSize, DemuxInv, DemuxTypeOK, YieldsNone
  <1>4. CASE SkipStamp
    <2>1. src' \in {"open", "eof", "timeout", "stale", "reset"}
      BY <1>4, SourceTyped DEF SkipStamp, DemuxInv
    <2>2. gen' \in {"reading", "done"} /\ part' \in {"stamp", "data"}
      BY <1>4 DEF SkipStamp
    <2> QED  BY <1>4, <2>1, <2>2 DEF SkipStamp, DemuxInv, DemuxTypeOK, YieldsNone
  <1>5. CASE ReadData
    <2>1. src' \in {"open", "eof", "timeout", "stale", "reset"}
      BY <1>5, SourceTyped DEF ReadData, DemuxInv
    <2>2. gen = "reading" /\ part = "data" /\ short' = short /\ chunk \in 1 .. N
      BY <1>5 DEF ReadData, DemuxInv, DemuxTypeOK
    <2>3. CASE NextChunk /\ outs' = Append(outs, chunk) /\ gen' = "yielded"
      <3>1. chunk' \in 1 .. N + 1 /\ part' = "tag" /\ chunk' = chunk + 1
        BY <2>2, <2>3, ChunkMoves
      <3>2. outs' \in Seq(1 .. N) /\ Len(outs') = Len(outs) + 1
        BY <2>2, <2>3, OutsGrow DEF DemuxInv, DemuxTypeOK
      <3>3. Len(outs') < chunk'
        BY <2>2, <3>1, <3>2 DEF DemuxInv, DemuxTypeOK
      <3> QED  BY <2>1, <2>2, <2>3, <3>1, <3>2, <3>3 DEF DemuxInv, DemuxTypeOK, YieldsOne
    <2>4. CASE NextChunk /\ UNCHANGED <<outs, gen>>
      <3>1. chunk' \in 1 .. N + 1 /\ part' = "tag" /\ chunk' = chunk + 1
        BY <2>2, <2>4, ChunkMoves
      <3> QED  BY <2>1, <2>2, <2>4, <3>1 DEF DemuxInv, DemuxTypeOK, YieldsNone
    <2>5. CASE gen' = "done" /\ UNCHANGED <<chunk, part, outs>>
      BY <2>1, <2>2, <2>5 DEF DemuxInv, DemuxTypeOK, YieldsNone
    <2> QED  BY <1>5, <2>3, <2>4, <2>5 DEF ReadData
  <1>6. CASE ReadRaises
    <2>1. src' \in {"open", "eof", "timeout", "stale", "reset"}
      BY <1>6, SourceTyped DEF ReadRaises, DemuxInv
    <2> QED  BY <1>6, <2>1 DEF ReadRaises, DemuxInv, DemuxTypeOK, YieldsNone
  <1> QED  BY <1>1, <1>2, <1>3, <1>4, <1>5, <1>6 DEF Demux

-----------------------------------------------------------------------------
(* Flow is inductive with the types and with what the generator keeps to.  *)

Inv == DemuxInv /\ TypeOK /\ Flow

\* The parser stands still in mode "pipe".
PipeInv == mode = "pipe" => part = "tag"

LEMMA Counts ==
  ASSUME TypeOK
  PROVE  wrote \in Nat /\ took \in Nat /\ made \in Nat /\ sent \in Nat
  BY StreamLength DEF TypeOK

LEMMA InitKeeps == Init => Inv
  <1> SUFFICES ASSUME Init PROVE Inv
    OBVIOUS
  <1>0. outs \in Seq(1 .. N) /\ Len(outs) = 0
    BY DEF Init, DemuxInit
  <1>1. DemuxInv
    <2>1. chunk \in 1 .. N + 1 /\ Len(outs) < chunk
      BY <1>0, StreamLength DEF Init, DemuxInit
    <2>2. /\ src \in {"open", "eof", "timeout", "stale", "reset"}
          /\ gen \in {"reading", "yielded", "done", "raised"} /\ part = "tag"
      BY DEF Init, DemuxInit
    <2>3. short \in BOOLEAN /\ part \in {"tag", "rest", "size", "stamp", "data"}
      BY Zenon DEF Init, DemuxInit
    <2> QED  BY <1>0, <2>1, <2>2, <2>3 DEF DemuxInv, DemuxTypeOK
  <1>2. TypeOK
    <2>1. /\ wrote \in 0 .. N /\ took \in 0 .. N /\ made \in 0 .. N /\ sent \in 0 .. N
          /\ errs \in 0 .. ErrCap
      BY StreamLength, PipesAssumption DEF Init
    <2>2. stop \in BOOLEAN /\ stdinOpen \in BOOLEAN /\ noisy \in BOOLEAN /\ disturbed \in BOOLEAN
      BY Zenon DEF Init
    <2>3. /\ mode \in Modes /\ dec \in {"none", "running", "killed", "exited"}
          /\ feeder \in {"none", "pull", "write", "closing", "over", "dead"}
          /\ main \in {"open", "spawned", "play", "init", "check", "read", "term", "wait",
                       "done", "gone"}
      BY DEF Init
    <2> QED  BY <1>1, <2>1, <2>2, <2>3, Zenon DEF TypeOK, DemuxInv
  <1>3. Flow
    <2>1. InHand = 0
      BY DEF Init, DemuxInit, InHand
    <2> QED  BY <1>0, <2>1, PipesAssumption DEF Init, Flow
  <1> QED  BY <1>1, <1>2, <1>3 DEF Inv

\* The source and the decoder.
LEMMA OutsideKeeps ==
  ASSUME Inv, Source \/ Decoder \/ DecObeys \/ DecCrashes
  PROVE  Inv'
  <1> USE StreamLength, PipesAssumption, Counts DEF Inv, Ended, decoder, mains, input, demux
  <1>1. CASE Source
    <2>1. DemuxInv'  BY <1>1, StreamAssumption DEF Source, SourceEnds, DemuxInv, DemuxTypeOK
    <2>2. TypeOK'  BY <1>1, <2>1 DEF Source, SourceEnds, TypeOK, DemuxInv
    <2>3. Flow'  BY <1>1 DEF Source, SourceEnds, Flow, InHand
    <2> QED  BY <2>1, <2>2, <2>3
  <1>2. CASE DecReads
    <2>1. DemuxInv'  BY <1>2 DEF DecReads, DemuxInv, DemuxTypeOK
    <2>2. TypeOK'
      <3>1. noisy' \in BOOLEAN
        BY <1>2 DEF DecReads
      <3>2. took' \in 0 .. N
        BY <1>2 DEF DecReads, TypeOK
      <3>3. UNCHANGED <<mode, feeder, main, stop, stdinOpen, wrote, made, sent, errs, dec, disturbed>>
        BY <1>2 DEF DecReads
      <3> QED  BY <2>1, <3>1, <3>2, <3>3 DEF TypeOK, DemuxInv
    <2>3. Flow'  BY <1>2 DEF DecReads, Flow, InHand
    <2> QED  BY <2>1, <2>2, <2>3
  <1>3. CASE DecWarns
    <2>1. DemuxInv'  BY <1>3 DEF DecWarns, DemuxInv, DemuxTypeOK
    <2>2. TypeOK'
      <3>1. errs \in 0 .. ErrCap /\ (errs' = errs \/ (errs < ErrCap /\ errs' = errs + 1))
        BY <1>3 DEF DecWarns, TypeOK
      <3>2. errs' \in 0 .. ErrCap
        BY <3>1
      <3>3. noisy' \in BOOLEAN
        BY <1>3, Zenon DEF DecWarns
      <3>4. UNCHANGED <<mode, feeder, main, stop, stdinOpen, wrote, took, made, sent, dec, disturbed>>
        BY <1>3 DEF DecWarns
      <3> QED  BY <2>1, <3>2, <3>3, <3>4 DEF TypeOK, DemuxInv
    <2>3. Flow'  BY <1>3 DEF DecWarns, Flow, InHand
    <2> QED  BY <2>1, <2>2, <2>3
  <1>4. CASE DecWrites
    <2>1. DemuxInv'  BY <1>4 DEF DecWrites, DemuxInv, DemuxTypeOK
    <2>2. TypeOK'  BY <1>4, <2>1 DEF DecWrites, TypeOK, DemuxInv, Flow
    <2>3. Flow'  BY <1>4 DEF DecWrites, Flow, InHand
    <2> QED  BY <2>1, <2>2, <2>3
  <1>5. CASE DecEnds
    <2>1. DemuxInv'  BY <1>5 DEF DecEnds, DemuxInv, DemuxTypeOK
    <2>2. TypeOK'  BY <1>5, <2>1 DEF DecEnds, TypeOK, DemuxInv
    <2>3. Flow'  BY <1>5 DEF DecEnds, Flow, InHand, TypeOK
    <2> QED  BY <2>1, <2>2, <2>3
  <1>6. CASE DecCrashes
    <2>1. DemuxInv'  BY <1>6 DEF DecCrashes, DemuxInv, DemuxTypeOK
    <2>2. TypeOK'  BY <1>6, <2>1 DEF DecCrashes, TypeOK, DemuxInv
    <2>3. Flow'  BY <1>6 DEF DecCrashes, Flow, InHand
    <2> QED  BY <2>1, <2>2, <2>3
  <1>7. CASE DecObeys \/ DecDies \/ DecBreaks
    <2>1. DemuxInv'  BY <1>7 DEF DecObeys, DecDies, DecBreaks, DemuxInv, DemuxTypeOK
    <2>2. dec' = "exited" /\ UNCHANGED <<demux, mode, feeder, mains, input, took, made, noisy, errs, disturbed>>
      BY <1>7 DEF DecObeys, DecDies, DecBreaks
    <2>3. TypeOK'  BY <2>1, <2>2 DEF TypeOK, DemuxInv
    <2>4. disturbed \/ mode = "play"
      BY <1>7 DEF DecObeys, DecDies, DecBreaks, Flow
    <2>5. Flow'  BY <1>7, <2>2, <2>4 DEF DecObeys, DecDies, DecBreaks, Flow, InHand
    <2> QED  BY <2>1, <2>3, <2>5
  <1> QED  BY <1>1, <1>2, <1>3, <1>4, <1>5, <1>6, <1>7 DEF Decoder

\* The feeder: a frame it holds has been yielded and not yet written.
LEMMA FeederKeeps ==
  ASSUME Inv, PipeInv, Feeder
  PROVE  Inv'
  <1> USE StreamLength, PipesAssumption, Counts DEF Inv, Ended, decoder, mains, input, demux, Feeding
  <1>1. CASE PullUrl
    <2>1. DemuxInv' /\ gen = "reading" /\ (YieldsOne \/ YieldsNone)
      BY <1>1, DemuxKeeps DEF PullUrl
    <2>2. TypeOK'
      BY <1>1, <2>1 DEF PullUrl, TypeOK, DemuxInv
    <2>3. feeder = "pull" /\ Len(outs') = wrote + InHand'
      BY <1>1, <2>1 DEF PullUrl, Flow, InHand, YieldsOne, YieldsNone
    <2>4. UNCHANGED <<mode, feeder, mains, input, decoder, disturbed>>
      BY <1>1 DEF PullUrl
    <2>5. Flow'
      BY <2>3, <2>4 DEF Flow
    <2> QED  BY <2>1, <2>2, <2>5
  <1>2. CASE TakeFrame
    <2>1. DemuxInv'  BY <1>2 DEF TakeFrame, DemuxInv, DemuxTypeOK
    <2>2. feeder' \in {"closing", "write"} /\ (feeder' = "closing" => stop)
      BY <1>2 DEF TakeFrame
    <2>3. feeder = "pull" /\ gen = "yielded" /\ UNCHANGED <<demux, mode, mains, input, decoder, disturbed>>
      BY <1>2 DEF TakeFrame
    <2>4. TypeOK'  BY <2>1, <2>2, <2>3 DEF TypeOK, DemuxInv
    <2>5. Flow'  BY <2>2, <2>3 DEF Flow, InHand
    <2> QED  BY <2>1, <2>4, <2>5
  <1>3. CASE SourceOver
    <2>1. DemuxInv'  BY <1>3 DEF SourceOver, DemuxInv, DemuxTypeOK
    <2>2. TypeOK'  BY <1>3, <2>1 DEF SourceOver, TypeOK, DemuxInv
    <2>3. Flow'  BY <1>3 DEF SourceOver, DemuxOver, Flow, InHand
    <2> QED  BY <2>1, <2>2, <2>3
  <1>4. CASE PullPipe
    <2>1. feeder = "pull" /\ gen = "reading" /\ UNCHANGED <<mode, mains, input, decoder, disturbed>>
      BY <1>4 DEF PullPipe
    <2>2. CASE feeder' = "closing" /\ UNCHANGED demux
      <3>1. DemuxInv'  BY <2>2 DEF DemuxInv, DemuxTypeOK
      <3>2. TypeOK'  BY <2>1, <2>2, <3>1 DEF TypeOK, DemuxInv
      <3>3. Flow'  BY <2>1, <2>2 DEF Flow, InHand
      <3> QED  BY <3>1, <3>2, <3>3
    <2>3. CASE /\ Gets /\ outs' = Append(outs, chunk) /\ chunk' = chunk + 1
               /\ gen' = "yielded" /\ UNCHANGED <<part, short, feeder>>
      <3>1. chunk \in 1 .. N /\ src' = src
        BY <2>3 DEF Gets, DemuxInv, DemuxTypeOK
      <3>2. outs' \in Seq(1 .. N) /\ Len(outs') = Len(outs) + 1
        BY <2>3, <3>1, OutsGrow DEF DemuxInv, DemuxTypeOK
      <3>3. part' = "tag"
        BY <1>4, <2>3 DEF PullPipe, PipeInv
      <3>4. DemuxInv'
        BY <2>1, <2>3, <3>1, <3>2, <3>3 DEF DemuxInv, DemuxTypeOK
      <3>5. TypeOK'  BY <2>1, <2>3, <3>4 DEF TypeOK, DemuxInv
      <3>6. Flow'  BY <2>1, <2>3, <3>2 DEF Flow, InHand
      <3> QED  BY <3>4, <3>5, <3>6
    <2> QED  BY <1>4, <2>2, <2>3 DEF PullPipe
  <1>5. CASE Write
    <2>1. DemuxInv'  BY <1>5 DEF Write, DemuxInv, DemuxTypeOK
    <2>2. wrote < Len(outs) /\ Len(outs) <= N
      BY <1>5 DEF Write, Flow, InHand, DemuxInv, DemuxTypeOK
    <2>3. TypeOK'  BY <1>5, <2>1, <2>2 DEF Write, TypeOK, DemuxInv
    <2>4. Flow'  BY <1>5 DEF Write, Flow, InHand
    <2> QED  BY <2>1, <2>3, <2>4
  <1>6. CASE WriteBreaks
    <2>1. DemuxInv'  BY <1>6 DEF WriteBreaks, DemuxInv, DemuxTypeOK
    <2>2. TypeOK'  BY <1>6, <2>1 DEF WriteBreaks, TypeOK, DemuxInv
    <2>3. Flow'  BY <1>6 DEF WriteBreaks, Flow, InHand
    <2> QED  BY <2>1, <2>2, <2>3
  <1>7. CASE CloseInput
    <2>1. DemuxInv'  BY <1>7 DEF CloseInput, DemuxInv, DemuxTypeOK
    <2>2. TypeOK'  BY <1>7, <2>1 DEF CloseInput, TypeOK, DemuxInv
    <2>3. Flow'  BY <1>7 DEF CloseInput, Flow, InHand
    <2> QED  BY <2>1, <2>2, <2>3
  <1> QED  BY <1>1, <1>2, <1>3, <1>4, <1>5, <1>6, <1>7 DEF Feeder

\* The main thread and the signal.
LEMMA MainKeeps ==
  ASSUME Inv, Main \/ Escapes \/ User
  PROVE  Inv'
  <1> USE StreamLength, PipesAssumption, Counts DEF Inv, Ended, decoder, mains, input, demux, Alone
  <1>1. CASE NdiStarts
    <2>1. DemuxInv'  BY <1>1 DEF NdiStarts, DemuxInv, DemuxTypeOK
    <2>2. TypeOK'  BY <1>1, <2>1 DEF NdiStarts, TypeOK, DemuxInv
    <2>3. Flow'  BY <1>1 DEF NdiStarts, Flow, InHand
    <2> QED  BY <2>1, <2>2, <2>3
  <1>2. CASE CheckStop
    <2>1. DemuxInv'  BY <1>2 DEF CheckStop, DemuxInv, DemuxTypeOK
    <2>2. TypeOK'  BY <1>2, <2>1 DEF CheckStop, TypeOK, DemuxInv
    <2>3. Flow'  BY <1>2 DEF CheckStop, Flow, InHand
    <2> QED  BY <2>1, <2>2, <2>3
  <1>3. CASE SendFrame
    <2>1. DemuxInv'  BY <1>3 DEF SendFrame, DemuxInv, DemuxTypeOK
    <2>2. sent' \in 0 .. N
      <3>1. sent < made /\ sent' \in {sent, sent + 1}
        BY <1>3 DEF SendFrame
      <3> QED  BY <3>1 DEF TypeOK
    <2>3. disturbed' \in BOOLEAN
      BY <1>3, Zenon DEF SendFrame, TypeOK
    <2>4. main' \in {"check", "term"} /\ UNCHANGED <<mode, feeder, stop, input, decoder>>
      BY <1>3 DEF SendFrame
    <2>5. TypeOK'  BY <2>1, <2>2, <2>3, <2>4 DEF TypeOK, DemuxInv
    <2>6. Flow'  BY <1>3 DEF SendFrame, Flow, InHand
    <2> QED  BY <2>1, <2>5, <2>6
  <1>4. CASE DecoderGone
    <2>1. DemuxInv'  BY <1>4 DEF DecoderGone, DemuxInv, DemuxTypeOK
    <2>2. TypeOK'  BY <1>4, <2>1 DEF DecoderGone, TypeOK, DemuxInv
    <2>3. Flow'  BY <1>4 DEF DecoderGone, Flow, InHand
    <2> QED  BY <2>1, <2>2, <2>3
  <1>5. CASE Terminate
    <2>1. DemuxInv'  BY <1>5 DEF Terminate, DemuxInv, DemuxTypeOK
    <2>2. TypeOK'  BY <1>5, <2>1 DEF Terminate, TypeOK, DemuxInv
    <2>3. Flow'  BY <1>5 DEF Terminate, Flow, InHand
    <2> QED  BY <2>1, <2>2, <2>3
  <1>6. CASE Sigint
    <2>1. DemuxInv'  BY <1>6 DEF Sigint, DemuxInv, DemuxTypeOK
    <2>2. TypeOK'  BY <1>6, <2>1 DEF Sigint, TypeOK, DemuxInv
    <2>3. Flow'  BY <1>6 DEF Sigint, Flow, InHand
    <2> QED  BY <2>1, <2>2, <2>3
  <1>7. CASE Starts \/ Start \/ StartPlayer
    <2>1. DemuxInv'  BY <1>7 DEF Starts, Start, StartPlayer, Enter, DemuxInv, DemuxTypeOK
    <2>2. TypeOK'  BY <1>7, <2>1 DEF Starts, Start, StartPlayer, Enter, TypeOK, DemuxInv
    <2>3. Flow'  BY <1>7 DEF Starts, Start, StartPlayer, Enter, Flow, InHand
    <2> QED  BY <2>1, <2>2, <2>3
  <1>8. CASE OpenFails
    <2>1. DemuxInv'  BY <1>8 DEF OpenFails, DemuxInv, DemuxTypeOK
    <2>2. TypeOK'  BY <1>8, <2>1 DEF OpenFails, TypeOK, DemuxInv
    <2>3. Flow'  BY <1>8 DEF OpenFails, Flow, InHand
    <2> QED  BY <2>1, <2>2, <2>3
  <1>9. CASE Interrupted
    <2>1. DemuxInv'  BY <1>9 DEF Interrupted, DemuxInv, DemuxTypeOK
    <2>2. TypeOK'  BY <1>9, <2>1 DEF Interrupted, TypeOK, DemuxInv
    <2>3. Flow'  BY <1>9 DEF Interrupted, Flow, InHand
    <2> QED  BY <2>1, <2>2, <2>3
  <1>10. CASE Waited \/ Kill
    <2>1. /\ main = "wait" /\ main' = "done" /\ feeder' = "over" /\ stdinOpen' = FALSE
          /\ UNCHANGED <<demux, mode, stop, sent, wrote, took, made, noisy, errs, disturbed>>
          /\ dec \in {"running", "exited"} /\ dec' = IF dec = "exited" THEN dec ELSE "killed"
      BY <1>10 DEF Waited, Kill, ExitAs
    <2>2. DemuxInv'  BY <2>1 DEF DemuxInv, DemuxTypeOK
    <2>3. TypeOK'  BY <2>1, <2>2 DEF TypeOK, DemuxInv
    <2>4. Flow'  BY <2>1 DEF Flow, InHand
    <2> QED  BY <2>2, <2>3, <2>4
  <1>11. CASE Escapes \/ CtrlC
    <2>1. /\ main' = "gone" /\ feeder' = "over" /\ stdinOpen' = FALSE /\ disturbed' = TRUE
          /\ UNCHANGED <<demux, mode, stop, sent, wrote, took, made, noisy, errs, dec>>
      BY <1>11 DEF Escapes, CtrlC, ExitAs
    <2>2. DemuxInv'  BY <2>1 DEF DemuxInv, DemuxTypeOK
    <2>3. TypeOK'  BY <2>1, <2>2 DEF TypeOK, DemuxInv
    <2>4. Flow'  BY <2>1 DEF Flow, InHand
    <2> QED  BY <2>2, <2>3, <2>4
  <1> QED  BY <1>1, <1>2, <1>3, <1>4, <1>5, <1>6, <1>7, <1>8, <1>9, <1>10, <1>11
           DEF Main, User

-----------------------------------------------------------------------------
(* The theorems.                                                           *)

LEMMA PipeKeeps ==
  ASSUME PipeInv, [Next]_vars, Inv
  PROVE  PipeInv'
  <1>1. mode' = mode /\ (UNCHANGED part \/ (mode # "pipe"))
    BY DEF Next, Source, SourceEnds, Feeder, PullUrl, TakeFrame, SourceOver, PullPipe, Write,
           WriteBreaks, CloseInput, Main, Starts, Start, StartPlayer, Enter, ExitAs, OpenFails, NdiStarts, CheckStop, SendFrame, DecoderGone,
           Terminate, Waited, Kill, Escapes, Decoder, DecReads, DecWarns, DecWrites, DecBreaks, DecEnds,
           DecDies, DecObeys, DecCrashes, User, Sigint, CtrlC, Interrupted,
           Done, Stuck, Feeding, Alone, vars, demux, mains, input, decoder
  <1> QED  BY <1>1 DEF PipeInv

LEMMA StutterKeeps ==
  ASSUME Inv, UNCHANGED vars
  PROVE  Inv'
  BY DEF Inv, DemuxInv, DemuxTypeOK, TypeOK, Flow, Ended, InHand, vars, demux, mains, input, decoder

\* Whatever the source, ffmpeg, NDI and the user do, the counts stay in step
\* and, while nothing is disturbed, a pipe loses its writer or its reader
\* (feed_decoder's close, ndi_send_loop's end) only once it is empty.
THEOREM InvariantHolds == Spec => [](Inv /\ PipeInv)
  <1>1. Init => Inv /\ PipeInv
    BY InitKeeps DEF Init, DemuxInit, PipeInv
  <1>2. Inv /\ PipeInv /\ [Next]_vars => Inv' /\ PipeInv'
    <2> SUFFICES ASSUME Inv, PipeInv, [Next]_vars PROVE Inv'
      BY PipeKeeps
    <2>1. CASE Source \/ Decoder \/ DecObeys \/ DecCrashes  BY <2>1, OutsideKeeps
    <2>2. CASE Feeder  BY <2>2, FeederKeeps
    <2>3. CASE Main \/ Escapes \/ User  BY <2>3, MainKeeps
    <2>4. CASE UNCHANGED vars  BY <2>4, StutterKeeps
    <2> QED  BY <2>1, <2>2, <2>3, <2>4 DEF Next, Done, Stuck
  <1> QED  BY <1>1, <1>2, PTL DEF Spec

\* The counts alone: nothing is made before it is taken, sent before it is
\* made, or lost between two ends of a pipe (_run_ndi_bridge).
THEOREM FlowHolds == Spec => []Flow
  BY InvariantHolds, PTL DEF Inv

\* TypeOK for every stream and every capacity.
THEOREM TypeCorrect == Spec => []TypeOK
  BY InvariantHolds, PTL DEF Inv

\* A bridge that ends by itself has sent every frame that the generator
\* yielded: at its end the decoder is gone, which it is only when its input
\* is closed and all of it has come out, and the feeder holds nothing.
THEOREM NothingIsCutOff == Spec => []SentToTheEnd
  <1>1. Inv => SentToTheEnd
    <2> SUFFICES ASSUME Inv, main = "done", ~disturbed, mode # "play" PROVE sent = Len(outs)
      BY DEF SentToTheEnd
    <2>1. dec = "exited" /\ sent = made
      BY DEF Inv, Flow
    <2>2. made = wrote /\ feeder = "over"
      BY <2>1 DEF Inv, Flow
    <2>3. InHand = 0
      BY <2>2 DEF Inv, Flow, InHand
    <2> QED  BY <2>1, <2>2, <2>3, Counts DEF Inv, Flow
  <1> QED  BY <1>1, InvariantHolds, PTL

-----------------------------------------------------------------------------
(* What is yielded (iter_video_frames).                                    *)

\* The rest of a header is read only after the tag of one.
RestIsHeader == part = "rest" => Tags[chunk] = "TTTS"
VideoInv == FramesInOrder /\ RestIsHeader

\* A chunk that is no video frame goes by and nothing is yielded.
LEMMA PassedBy ==
  ASSUME DemuxInv, FramesInOrder, chunk \in 1 .. N, Tags[chunk] # "00VD",
         chunk' = chunk + 1, outs' = outs
  PROVE  FramesInOrder'
  BY StreamLength DEF FramesInOrder, DemuxInv, DemuxTypeOK

\* A video frame is yielded after all those before it.
LEMMA OneMore ==
  ASSUME DemuxInv, FramesInOrder, chunk \in 1 .. N, Tags[chunk] = "00VD",
         chunk' = chunk + 1, outs' = Append(outs, chunk)
  PROVE  FramesInOrder'
  <1> USE StreamLength
  <1>0. outs \in Seq(1 .. N) /\ Len(outs) \in Nat
    BY DEF DemuxInv, DemuxTypeOK
  <1>1. /\ Len(outs') = Len(outs) + 1 /\ outs'[Len(outs) + 1] = chunk
        /\ \A j \in 1 .. Len(outs) : outs'[j] = outs[j]
    BY <1>0
  <1>2. ASSUME NEW i \in 1 .. N, i < chunk', Tags[i] = "00VD"
        PROVE  \E j \in 1 .. Len(outs') : outs'[j] = i
    <2>1. CASE i = chunk
      BY <1>0, <1>1, <2>1
    <2>2. CASE i < chunk
      <3>1. PICK j \in 1 .. Len(outs) : outs[j] = i
        BY <1>2, <2>2 DEF FramesInOrder
      <3> QED  BY <1>0, <1>1, <3>1
    <2> QED  BY <1>2, <2>1, <2>2
  <1>3. ASSUME NEW j \in 1 .. Len(outs')
        PROVE  outs'[j] < chunk' /\ Tags[outs'[j]] = "00VD"
    <2>1. CASE j = Len(outs) + 1
      BY <1>1, <2>1
    <2>2. CASE j \in 1 .. Len(outs)
      <3>1. outs[j] \in 1 .. N /\ outs[j] < chunk /\ Tags[outs[j]] = "00VD"
        BY <1>0, <2>2 DEF FramesInOrder
      <3> QED  BY <1>1, <2>2, <3>1
    <2> QED  BY <1>0, <1>1, <2>1, <2>2
  <1>4. ASSUME NEW j \in 1 .. Len(outs'), NEW k \in 1 .. Len(outs'), j < k
        PROVE  outs'[j] < outs'[k]
    <2>1. j \in 1 .. Len(outs) /\ outs'[j] = outs[j]
      BY <1>0, <1>1, <1>4
    <2>2. CASE k = Len(outs) + 1
      BY <1>1, <2>1, <2>2 DEF FramesInOrder
    <2>3. CASE k \in 1 .. Len(outs)
      BY <1>1, <1>4, <2>1, <2>3 DEF FramesInOrder
    <2> QED  BY <1>0, <1>1, <2>2, <2>3
  <1> QED  BY <1>2, <1>3, <1>4 DEF FramesInOrder

LEMMA DemuxYieldsInOrder ==
  ASSUME DemuxInv, VideoInv, Demux
  PROVE  VideoInv'
  <1> USE StreamLength DEF Reading, VideoInv
  <1>1. CASE ReadTag
    <2>1. FramesInOrder'
      BY <1>1 DEF ReadTag, FramesInOrder
    <2>2. RestIsHeader'
      BY <1>1 DEF ReadTag, RestIsHeader
    <2> QED  BY <2>1, <2>2
  <1>2. CASE SkipHeader
    <2>1. chunk \in 1 .. N /\ Tags[chunk] = "TTTS"
      BY <1>2 DEF SkipHeader, RestIsHeader, DemuxInv, DemuxTypeOK
    <2>2. chunk' = chunk + 1 /\ outs' = outs /\ part' = "tag"
      BY <1>2 DEF SkipHeader, NextChunk
    <2>3. FramesInOrder'
      BY <2>1, <2>2, PassedBy
    <2> QED  BY <2>2, <2>3 DEF RestIsHeader
  <1>3. CASE ReadSize \/ SkipStamp \/ ReadRaises
    BY <1>3 DEF ReadSize, SkipStamp, ReadRaises, FramesInOrder, RestIsHeader
  <1>4. CASE ReadData
    <2>1. part = "data" /\ chunk \in 1 .. N
      BY <1>4 DEF ReadData, DemuxInv, DemuxTypeOK
    <2>2. CASE NextChunk
      <3>1. chunk' = chunk + 1 /\ part' = "tag"
        BY <2>2 DEF NextChunk
      <3>2. CASE Yields(Tags[chunk]) /\ outs' = Append(outs, chunk)
        BY <2>1, <3>1, <3>2, OneMore DEF Yields, RestIsHeader
      <3>3. CASE ~Yields(Tags[chunk]) /\ outs' = outs
        BY <2>1, <3>1, <3>3, PassedBy DEF Yields, RestIsHeader
      <3>4. (Yields(Tags[chunk]) /\ outs' = Append(outs, chunk))
            \/ (~Yields(Tags[chunk]) /\ outs' = outs)
        BY <1>4, <2>2, <3>1 DEF ReadData, DemuxInv, DemuxTypeOK
      <3> QED  BY <3>2, <3>3, <3>4
    <2>3. CASE UNCHANGED <<chunk, part, outs>>
      BY <2>3 DEF FramesInOrder, RestIsHeader
    <2> QED  BY <1>4, <2>2, <2>3 DEF ReadData
  <1> QED  BY <1>1, <1>2, <1>3, <1>4 DEF Demux

\* However the source ends and wherever, NDI is fed the video frames of what
\* was read, each once and in order, and nothing else of the stream.
THEOREM OnlyVideoInOrder == Spec => []VideoOnly
  <1> DEFINE V == mode # "pipe" => VideoInv
  <1>1. Init => V
    <2> SUFFICES ASSUME Init PROVE VideoInv
      OBVIOUS
    <2>1. chunk = 1 /\ part = "tag" /\ outs = <<>> /\ Len(outs) = 0
      BY DEF Init, DemuxInit
    <2> QED  BY <2>1, StreamLength DEF VideoInv, FramesInOrder, RestIsHeader
  <1>2. V /\ Inv /\ [Next]_vars => V'
    <2> SUFFICES ASSUME V, Inv, [Next]_vars, mode' # "pipe" PROVE VideoInv'
      OBVIOUS
    <2>1. mode # "pipe" /\ (Demux \/ UNCHANGED <<chunk, part, outs>>)
      BY DEF Next, Source, SourceEnds, Feeder, PullUrl, TakeFrame, SourceOver, PullPipe, Write,
             WriteBreaks, CloseInput, Main, Starts, Start, StartPlayer, Enter, ExitAs, OpenFails, NdiStarts, CheckStop, SendFrame, DecoderGone,
             Terminate, Waited, Kill, Escapes, Decoder, DecReads, DecWarns, DecWrites, DecBreaks, DecEnds,
             DecDies, DecObeys, DecCrashes, User, Sigint, CtrlC, Interrupted,
             Done, Stuck, Feeding, Alone, vars, demux, mains, input, decoder
    <2>2. CASE Demux
      BY <2>1, <2>2, DemuxYieldsInOrder DEF Inv
    <2>3. CASE UNCHANGED <<chunk, part, outs>>
      BY <2>1, <2>3 DEF VideoInv, FramesInOrder, RestIsHeader
    <2> QED  BY <2>1, <2>2, <2>3
  <1>3. V => VideoOnly
    BY DEF VideoOnly, VideoInv
  <1> QED  BY <1>1, <1>2, <1>3, InvariantHolds, PTL DEF Spec
=============================================================================
