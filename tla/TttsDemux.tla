------------------------------ MODULE TttsDemux ------------------------------
(***************************************************************************)
(* iter_video_frames and read_exact_bytes (stream.py): the demultiplexer   *)
(* of the camera's TTTS stream, read by read, over an HTTP response that   *)
(* may end, fall silent or be reset between any two bytes.                 *)
(*                                                                         *)
(* A chunk is a repeated header (its tag and 200 bytes) or a frame (tag,   *)
(* size, timestamp, data).  A read gets all it asked for, or runs into the *)
(* end of what the source has.                                             *)
(***************************************************************************)
EXTENDS Naturals, Sequences

CONSTANTS
  Tags,   \* the tags of the chunks the camera sends
  Empty,  \* which of these frames have size 0
  Ends    \* how the source may end: "eof", "timeout", "reset"

N == Len(Tags)

ASSUME StreamAssumption == /\ Tags \in Seq({"TTTS", "00VD", "00AU", "junk"})
                           /\ Empty \subseteq 1 .. N
                           /\ Ends \subseteq {"eof", "timeout", "reset"}

VARIABLES
  src,    \* the source: "open", how it ended, or "stale" once a read of it
          \* has timed out
  chunk,  \* the chunk being read
  part,   \* what the generator reads next
  short,  \* size_bytes is None
  outs,   \* frames yielded, by their chunks
  gen     \* the generator: "reading", "yielded", "done" or "raised"

demux == <<src, chunk, part, short, outs, gen>>

DemuxInit == /\ src = "open" /\ chunk = 1 /\ part = "tag" /\ short = FALSE
             /\ outs = <<>> /\ gen = "reading"

\* The source ends (external).
SourceEnds == /\ src = "open"
              /\ src' \in Ends
              /\ UNCHANGED <<chunk, part, short, outs, gen>>

-----------------------------------------------------------------------------
(* read_exact_bytes: what was asked for, or None at the end and on a       *)
(* timeout.  A socket that has timed out once raises on every later read   *)
(* (CPython's SocketIO), as a reset one does.                              *)
Gets == src = "open" /\ chunk <= N /\ UNCHANGED src
GetsNone == \/ src = "eof" /\ UNCHANGED src
            \/ src = "timeout" /\ src' = "stale"
Raises == src \in {"stale", "reset"} /\ UNCHANGED src

\* A read of no bytes does not touch the source.
GetsData == Gets \/ (chunk \in Empty /\ UNCHANGED src)
GetsNoData == chunk \notin Empty /\ GetsNone

Reading(p) == gen = "reading" /\ part = p

-----------------------------------------------------------------------------
(* iter_video_frames.                                                      *)

ReadTag ==
  /\ Reading("tag")
  /\ \/ /\ Gets
        /\ CASE Tags[chunk] = "TTTS" -> part' = "rest" /\ UNCHANGED gen
             [] Tags[chunk] \in {"00VD", "00AU"} -> part' = "size" /\ UNCHANGED gen
             [] OTHER -> gen' = "done" /\ UNCHANGED part
     \/ GetsNone /\ gen' = "done" /\ UNCHANGED part
  /\ UNCHANGED <<chunk, short, outs>>

NextChunk == chunk' = chunk + 1 /\ part' = "tag"

\* A repeated header is skipped; whether it was there is not looked at.
SkipHeader == /\ Reading("rest") /\ (Gets \/ GetsNone)
              /\ NextChunk
              /\ UNCHANGED <<short, outs, gen>>

\* size_bytes is only looked at after the timestamp is read.
ReadSize == /\ Reading("size")
            /\ \/ Gets /\ UNCHANGED short
               \/ GetsNone /\ short' = TRUE
            /\ part' = "stamp"
            /\ UNCHANGED <<chunk, outs, gen>>

SkipStamp == /\ Reading("stamp") /\ (Gets \/ GetsNone)
             /\ IF short THEN gen' = "done" /\ UNCHANGED part
                         ELSE part' = "data" /\ UNCHANGED gen
             /\ UNCHANGED <<chunk, short, outs>>

\* (Mutant: audio is yielded too.)
YieldsAll(tag) == TRUE
Yields(tag) == tag = "00VD"
ReadData ==
  /\ Reading("data")
  /\ \/ /\ GetsData
        /\ IF Yields(Tags[chunk])
           THEN outs' = Append(outs, chunk) /\ gen' = "yielded"
           ELSE UNCHANGED <<outs, gen>>
        /\ NextChunk
     \/ GetsNoData /\ gen' = "done" /\ UNCHANGED <<chunk, part, outs>>
  /\ UNCHANGED short

\* An error that is not a timeout ends the generator.
ReadRaises == /\ gen = "reading" /\ Raises
              /\ ~(part = "data" /\ chunk \in Empty)
              /\ gen' = "raised"
              /\ UNCHANGED <<chunk, part, short, outs>>

Demux == ReadTag \/ SkipHeader \/ ReadSize \/ SkipStamp \/ ReadData \/ ReadRaises

\* The consumer asks for the next frame.
Resume == gen = "yielded" /\ gen' = "reading" /\ UNCHANGED <<src, chunk, part, short, outs>>

DemuxOver == gen \in {"done", "raised"}
DemuxNext == Demux \/ Resume \/ SourceEnds \/ (DemuxOver /\ UNCHANGED demux)
DemuxSpec == DemuxInit /\ [][DemuxNext]_demux
FairDemuxSpec == DemuxSpec /\ WF_demux(Demux \/ Resume) /\ WF_demux(SourceEnds)
-----------------------------------------------------------------------------
DemuxTypeOK ==
  /\ src \in {"open", "eof", "timeout", "stale", "reset"}
  /\ chunk \in 1 .. N + 1 /\ part \in {"tag", "rest", "size", "stamp", "data"}
  /\ part # "tag" => chunk <= N
  /\ short \in BOOLEAN /\ outs \in Seq(1 .. N)
  /\ gen \in {"reading", "yielded", "done", "raised"}

\* What is yielded is every video frame of what was read, once, in order, and
\* nothing else: no audio, no repeated header, wherever the stream breaks.
FramesInOrder ==
  /\ \A i \in 1 .. N : i < chunk /\ Tags[i] = "00VD" => \E j \in 1 .. Len(outs) : outs[j] = i
  /\ \A j \in 1 .. Len(outs) : outs[j] < chunk /\ Tags[outs[j]] = "00VD"
  /\ \A j, k \in 1 .. Len(outs) : j < k => outs[j] < outs[k]

\* The generator ends when the source does.
DemuxEnds == <>DemuxOver

\* stream.py:152, "A socket read timeout (the camera stopping the stream) is
\* treated as EOF so consumers end cleanly instead of crashing".
TimeoutIsClean == gen = "raised" => src = "reset"
=============================================================================
