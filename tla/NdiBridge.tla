------------------------------ MODULE NdiBridge ------------------------------
(***************************************************************************)
(* ndi_camera_stream.py: the bridge from a stream to NDI.  A feeder thread *)
(* takes frames off the source and writes them to ffmpeg's stdin, the main *)
(* thread reads decoded frames from its stdout and sends them; SIGINT sets *)
(* an event.  In mode "url" the feeder runs TttsDemux over the camera's    *)
(* HTTP response, in mode "pipe" it copies the process's own stdin.        *)
(* In mode "play" (play_live_stream, stream.py) there is no NDI: the one   *)
(* thread feeds the stream to ffplay, which shows it.                      *)
(*                                                                         *)
(* Frames are counted as they pass: a pipe keeps their order, so what is   *)
(* in it is the difference of the counts at its ends.  ffmpeg and NDI are  *)
(* external: ffmpeg turns each frame it reads into one it writes, may warn *)
(* on stderr, and may exit at any time; what ffplay makes is shown, which  *)
(* is what "sent" says of it.  Told to end, neither need do so; at the end *)
(* of its input ffmpeg exits, while ffplay, started without -autoexit,     *)
(* keeps its window open.                                                  *)
(***************************************************************************)
EXTENDS TttsDemux

CONSTANTS
  Modes,    \* "url", "pipe", "play"
  InCap,    \* frames that fit between the feeder and the decoder
  OutCap,   \* ... and between the decoder and the main thread
  ErrCap    \* warnings that fit into the decoder's stderr, which nobody reads

ASSUME PipesAssumption == /\ InCap \in Nat \ {0} /\ OutCap \in Nat \ {0}
                          /\ ErrCap \in Nat /\ Modes \subseteq {"url", "pipe", "play"}

VARIABLES
  mode,
  feeder,    \* "none", "pull", "write", "closing", "over", or "dead" by an
             \* exception
  main,      \* where the main thread is; "play": it feeds; "wait": it has
             \* told the decoder to end; "done", or "gone" by an exception
  stop,      \* stop_event
  stdinOpen, \* is the write end of the decoder's stdin open?
  wrote,     \* frames the feeder has written to it
  took,      \* frames the decoder has read from it
  made,      \* frames the decoder has written to its stdout
  sent,      \* frames the main thread has read and sent to NDI
  noisy,     \* does the decoder owe a warning before it goes on?
  errs,      \* warnings in its stderr pipe
  dec,       \* the decoder: "none", "running", "killed" or "exited"
  disturbed  \* was there an interrupt, a crash or an NDI failure, or did the
             \* stream not open?

input == <<stdinOpen, wrote>>
decoder == <<took, made, noisy, errs, dec>>
mains == <<main, stop, sent>>
vars == <<demux, mode, feeder, mains, input, decoder, disturbed>>

Init == /\ DemuxInit
        /\ mode \in Modes
        /\ feeder = "none" /\ main = "open" /\ stop = FALSE
        /\ stdinOpen = TRUE /\ wrote = 0 /\ took = 0 /\ made = 0 /\ sent = 0
        /\ noisy = FALSE /\ errs = 0 /\ dec = "none" /\ disturbed = FALSE

-----------------------------------------------------------------------------
(* The source and the decoder (external).                                  *)

Source == SourceEnds /\ UNCHANGED <<mode, feeder, mains, input, decoder, disturbed>>

DecReads == /\ dec = "running" /\ took = made /\ took < wrote
            /\ took' = took + 1
            /\ noisy' \in BOOLEAN /\ (mode = "play" => ~noisy')
            /\ UNCHANGED <<demux, mode, feeder, mains, input, made, errs, dec, disturbed>>

\* When the process that started it is gone, so are the other ends of its pipes:
\* a warning is lost, and a frame is a broken pipe.
DecWarns == /\ dec = "running" /\ noisy
            /\ noisy' = FALSE
            /\ \/ errs < ErrCap /\ errs' = errs + 1
               \/ main = "gone" /\ errs' = errs
            /\ UNCHANGED <<demux, mode, feeder, mains, input, took, made, dec, disturbed>>

DecBreaks == /\ dec = "running" /\ made < took /\ ~noisy
             /\ main = "gone" /\ mode # "play"
             /\ dec' = "exited"
             /\ UNCHANGED <<demux, mode, feeder, mains, input, took, made, noisy, errs, disturbed>>

DecWrites == /\ dec = "running" /\ made < took /\ ~noisy /\ made - sent < OutCap
             /\ main = "gone" => mode = "play"
             /\ made' = made + 1
             /\ sent' = IF mode = "play" THEN sent + 1 ELSE sent
             /\ UNCHANGED <<demux, mode, feeder, main, stop, input, took, noisy, errs, dec, disturbed>>

\* At the end of its input the decoder exits, and what it wrote stays.
DecEnds == /\ dec = "running" /\ made = wrote /\ ~stdinOpen /\ mode # "play"
           /\ dec' = "exited"
           /\ UNCHANGED <<demux, mode, feeder, mains, input, took, made, noisy, errs, disturbed>>

\* It may do as it is told, and cannot but die when killed.
DecObeys == /\ dec = "running" /\ main = "wait"
            /\ dec' = "exited"
            /\ UNCHANGED <<demux, mode, feeder, mains, input, took, made, noisy, errs, disturbed>>
DecDies == /\ dec = "killed"
           /\ dec' = "exited"
           /\ UNCHANGED <<demux, mode, feeder, mains, input, took, made, noisy, errs, disturbed>>

\* It may die, or end by the Ctrl-C of its terminal or the closing of its window.
DecCrashes == /\ dec = "running"
              /\ dec' = "exited" /\ disturbed' = TRUE
              /\ UNCHANGED <<demux, mode, feeder, mains, input, took, made, noisy, errs>>

-----------------------------------------------------------------------------
(* The feeder: a thread, or the main one in mode "play".                   *)

Feeding == UNCHANGED <<mode, mains, decoder, disturbed>>

\* The generator runs until it yields, ends or raises.
PullUrl == /\ feeder = "pull" /\ mode # "pipe"
           /\ Demux
           /\ UNCHANGED feeder /\ UNCHANGED input /\ Feeding

\* A frame it yields is written unless the bridge is stopping; what was read
\* from stdin is written in any case.
TakeFrame == /\ feeder = "pull" /\ gen = "yielded"
             /\ feeder' = IF stop /\ mode = "url" THEN "closing" ELSE "write"
             /\ UNCHANGED <<demux, input>> /\ Feeding

\* An exception other than a broken pipe ends the thread there and then; in
\* mode "play" there is a finally block.
\* (Mutant: the end of the stream stops the bridge.)
SourceOverStops == /\ feeder = "pull" /\ DemuxOver
                   /\ feeder' = IF gen = "raised" /\ mode # "play" THEN "dead" ELSE "closing"
                   /\ stop' = TRUE
                   /\ UNCHANGED <<demux, input, mode, main, sent, decoder, disturbed>>
SourceOver == /\ feeder = "pull" /\ DemuxOver
              /\ feeder' = IF gen = "raised" /\ mode # "play" THEN "dead" ELSE "closing"
              /\ UNCHANGED <<demux, input>> /\ Feeding

\* mode "pipe": a read of stdin ends only with data or at its end, and no
\* error escapes.
PullPipe == /\ feeder = "pull" /\ mode = "pipe" /\ gen = "reading"
            /\ \/ /\ stop
                  /\ feeder' = "closing" /\ UNCHANGED demux
               \/ /\ ~stop /\ Gets
                  /\ outs' = Append(outs, chunk) /\ chunk' = chunk + 1
                  /\ gen' = "yielded"
                  /\ UNCHANGED <<part, short, feeder>>
               \/ /\ ~stop /\ src # "open"
                  /\ feeder' = "closing" /\ UNCHANGED demux
            /\ UNCHANGED input /\ Feeding

Write == /\ feeder = "write" /\ dec = "running" /\ wrote - took < InCap
         /\ wrote' = wrote + 1
         /\ feeder' = "pull" /\ gen' = "reading"
         /\ UNCHANGED <<src, chunk, part, short, outs, stdinOpen>> /\ Feeding

WriteBreaks == /\ feeder = "write" /\ dec = "exited"
               /\ feeder' = "closing"
               /\ UNCHANGED <<demux, input>> /\ Feeding

\* (Mutant: the decoder's input is left open.)
CloseHttpOnly == /\ feeder = "closing"
                 /\ feeder' = "over"
                 /\ UNCHANGED <<demux, input>> /\ Feeding
CloseInput == /\ feeder = "closing"
              /\ feeder' = "over" /\ stdinOpen' = FALSE
              /\ UNCHANGED <<demux, wrote>> /\ Feeding

\* Ctrl-C in mode "play": out of the loop wherever it is.
Interrupted == /\ mode = "play" /\ feeder \in {"pull", "write"}
               /\ feeder' = "closing" /\ disturbed' = TRUE
               /\ UNCHANGED <<demux, mode, mains, input, decoder>>

Feeder == PullUrl \/ TakeFrame \/ SourceOver \/ PullPipe \/ Write
          \/ WriteBreaks \/ CloseInput

-----------------------------------------------------------------------------
(* The main thread.                                                        *)

Alone == UNCHANGED <<demux, mode, feeder, input>>

\* The process ends, and with it the feeder and its ends of the pipes.
ExitAs(p) == main' = p /\ feeder' = "over" /\ stdinOpen' = FALSE

\* The decoder, or the player, is started; then the handler of SIGINT is set
\* and the feeder started, or the loop entered.
Starts == /\ main = "open"
          /\ mode # "pipe" => src = "open"
          /\ main' = "spawned" /\ dec' = "running"
          /\ UNCHANGED <<stop, sent, took, made, noisy, errs, disturbed>> /\ Alone
Enter(next) == /\ main = "spawned"
               /\ main' = next /\ feeder' = "pull"
               /\ UNCHANGED <<demux, mode, stop, sent, input, decoder, disturbed>>
Start == mode # "play" /\ Enter("init")
StartPlayer == mode = "play" /\ Enter("play")

\* For a URL only once the response and its header are in: no answer, another
\* status, the end of the source or something other than a header ends it all;
\* so does a program that is not there.
OpenFails == /\ main = "open"
             /\ main' = "done" /\ disturbed' = TRUE
             /\ UNCHANGED <<stop, sent, decoder>> /\ Alone

NdiStarts == /\ main = "init"
             /\ \/ main' = "check" /\ UNCHANGED disturbed
                \/ main' = "term" /\ disturbed' = TRUE
             /\ UNCHANGED <<stop, sent, decoder>> /\ Alone

CheckStop == /\ main = "check"
             /\ main' = IF stop THEN "term" ELSE "read"
             /\ UNCHANGED <<stop, sent, decoder, disturbed>> /\ Alone

\* A signal does not end the read.  NDI may refuse the frame.
SendFrame == /\ main = "read" /\ sent < made
             /\ \/ sent' = sent + 1 /\ main' = "check" /\ UNCHANGED disturbed
                \/ main' = "term" /\ disturbed' = TRUE /\ UNCHANGED sent
             /\ UNCHANGED <<stop, decoder>> /\ Alone

\* (Mutant: the exit of the decoder ends the loop, whatever is still there.)
DecoderGoneEarly == /\ main = "read" /\ dec = "exited"
                    /\ stop' = TRUE /\ main' = "term"
                    /\ UNCHANGED <<sent, decoder, disturbed>> /\ Alone
DecoderGone == /\ main = "read" /\ sent = made /\ dec = "exited"
               /\ stop' = TRUE /\ main' = "term"
               /\ UNCHANGED <<sent, decoder, disturbed>> /\ Alone

\* What ndi_send_loop does not catch ends the process there and then.
Escapes == /\ main \in {"init", "read"}
           /\ ExitAs("gone") /\ disturbed' = TRUE
           /\ UNCHANGED <<demux, mode, stop, sent, wrote, decoder>>

\* The decoder is told to end; the player, which is not left the time to show
\* what it still has, once its input is closed.
Terminate == /\ \/ main = "term"
                \/ main = "play" /\ feeder = "over"
             /\ main' = "wait"
             /\ UNCHANGED <<stop, sent, decoder, disturbed>> /\ Alone

\* It is waited for, 3 s at most.
Waited == /\ main = "wait" /\ dec = "exited"
          /\ ExitAs("done")
          /\ UNCHANGED <<demux, mode, stop, sent, wrote, decoder, disturbed>>
\* (Mutant: one that does not end in time is left alone.)
GiveUp == /\ main = "wait" /\ dec = "running"
          /\ ExitAs("done")
          /\ UNCHANGED <<demux, mode, stop, sent, wrote, decoder, disturbed>>
Kill == /\ main = "wait" /\ dec = "running"
        /\ ExitAs("done") /\ dec' = "killed"
        /\ UNCHANGED <<demux, mode, stop, sent, wrote, took, made, noisy, errs, disturbed>>

\* SIGINT: the handler sets the event, nothing more.
Sigint == /\ ~stop /\ main \in {"init", "check", "read", "term", "wait"} /\ mode # "play"
          /\ stop' = TRUE /\ disturbed' = TRUE
          /\ UNCHANGED <<demux, mode, feeder, main, sent, input, decoder>>

\* Before the handler is set, and in the player's finally block, it raises.
CtrlC == /\ \/ main \in {"open", "spawned"}
            \/ main \in {"play", "wait"} /\ mode = "play" /\ feeder \in {"closing", "over"}
         /\ ExitAs("gone") /\ disturbed' = TRUE
         /\ UNCHANGED <<demux, mode, stop, sent, wrote, decoder>>

Main == Starts \/ Start \/ StartPlayer \/ OpenFails \/ NdiStarts \/ CheckStop
        \/ SendFrame \/ DecoderGone \/ Terminate \/ Waited \/ Kill
User == Sigint \/ CtrlC \/ Interrupted

Ended == main \in {"done", "gone"}
Done == Ended /\ UNCHANGED vars
\* The feeder has died with the decoder's input open, or the decoder waits for
\* room in a pipe that nobody reads: everyone waits for everyone.
Clogged == dec = "running" /\ noisy /\ errs = ErrCap
Stranded == main = "read" /\ (feeder = "dead" \/ Clogged)
Stuck == Stranded /\ UNCHANGED vars

Decoder == DecReads \/ DecWarns \/ DecWrites \/ DecBreaks \/ DecEnds \/ DecDies
Next == Source \/ Feeder \/ Main \/ Escapes \/ Decoder \/ DecObeys \/ DecCrashes
        \/ User \/ Done \/ Stuck
Spec == Init /\ [][Next]_vars

\* The source ends at some time; each thread and the decoder run on, and what is
\* killed dies.
FairSpec == /\ Spec
            /\ WF_vars(Source) /\ WF_vars(Feeder) /\ WF_vars(Main) /\ WF_vars(Decoder)
-----------------------------------------------------------------------------
TypeOK ==
  /\ DemuxTypeOK
  /\ mode \in Modes
  /\ feeder \in {"none", "pull", "write", "closing", "over", "dead"}
  /\ main \in {"open", "spawned", "play", "init", "check", "read", "term", "wait",
               "done", "gone"}
  /\ stop \in BOOLEAN /\ stdinOpen \in BOOLEAN /\ noisy \in BOOLEAN
  /\ disturbed \in BOOLEAN
  /\ wrote \in 0 .. N /\ took \in 0 .. N /\ made \in 0 .. N /\ sent \in 0 .. N
  /\ errs \in 0 .. ErrCap /\ dec \in {"none", "running", "killed", "exited"}

\* Why: while all goes well a pipe is closed, and its reader gone, only when
\* all that was written has come out of it.
InHand == IF gen = "yielded" THEN 1 ELSE 0
Flow ==
  /\ sent <= made /\ made <= took /\ took <= wrote
  /\ wrote - took <= InCap /\ took - made <= 1 /\ made - sent <= OutCap
  /\ Len(outs) = wrote + InHand
  /\ main \in {"open", "spawned"} => ~stop /\ feeder = "none"
  /\ main = "open" => dec = "none"
  /\ dec = "killed" => Ended
  /\ main = "gone" => disturbed
  /\ main = "play" => mode = "play"
  /\ feeder = "write" => gen = "yielded"
  /\ ~stdinOpen => feeder = "over"
  /\ ~disturbed /\ mode # "play" =>
       /\ dec = "exited" => made = wrote /\ ~stdinOpen
       /\ stop \/ main \in {"term", "wait", "done"} => dec = "exited" /\ sent = made
       /\ feeder \in {"closing", "over"} => gen # "yielded"

\* Of the camera's stream NDI, or the player, gets the video frames, in order.
VideoOnly == mode # "pipe" => FramesInOrder

\* When the stream ends by itself every frame of it is sent to NDI before the
\* bridge stops: nothing is cut off by stop_event or by the decoder's exit.
SentToTheEnd == main = "done" /\ ~disturbed /\ mode # "play" => sent = Len(outs)

\* No decoder and no player outlives what started it for good, however little
\* it heeds terminate: it is killed, or finds the ends of its pipes gone.  (The
\* one exception is a player whose end a Ctrl-C has broken off.)
DecoderEnds ==
  Ended /\ ~(main = "gone" /\ mode = "play") ~> dec \in {"none", "exited"}

\* Once the source has ended the bridge and the player end, but for two cases
\* of the bridge, for good: an exception has killed the feeder, or warnings have
\* filled the decoder's stderr.
EndsUnlessStuck == <>Ended \/ <>[]Stranded

\* stream.py:153, a read timeout "is treated as EOF so consumers end cleanly
\* instead of crashing": when the camera stops the stream, the bridge ends.
EndsOnTimeout == <>(Ended \/ Clogged)
=============================================================================
