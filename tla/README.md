# Verification of the Gear 360 link: TLA+ models, TLC runs and TLAPS proofs

The repository drives a Samsung Gear 360 camera from a Linux host: a Bluetooth
(SAP) handshake makes the camera bring up its WiFi access point, and its video is
bridged to NDI. This directory holds the TLA+ modules that model that program, the
TLC configurations that check them, and the theorems that TLAPS proves about them.
File names without a directory are under
`src/research/linux-stream-poc/src/gear360/`.

## The system

| Part | Source | State it keeps | Operations | Talks to |
|---|---|---|---|---|
| Framing | `session.py` `SapSession`, `framing.py` | fd, `use_crc`, the bytes of a read in progress | `read_frame`, `read_slp_frame`, `send_frame`, `send_slp_frame` | the RFCOMM socket below, the handshake above |
| Codec | `sap.py`, `framing.py`, SLP header in `session.py` | none | `make_*`, `parse_capex_response`, CRC16 | framing, handshake |
| Bluetooth connection | `bluetooth.py` | two profiles and their fds, two `Event`s, the GLib thread | `open`, `close`, `NewConnection` | BlueZ over D-Bus |
| Handshake | `session.py` phases 1-3 | phase, loop counters, `acceptor_id`, granted sessions | PD exchange, authentication, capability exchange, service connection | framing, authenticator |
| Device exchange | `session.py` phases 4-7 | ssid, password, device URL, loop counters | device info, liveview command, WiFi join, discovery, stream start | framing, `nmcli`, SSDP, HTTP |
| Authenticators | `connect_libwsm.py`, `connect_libpy.py`, `wsm/client.py`, `wsm_helper.c` | helper process and pipes, or the handshake secrets | `process_challenge`, `verify_confirm`, `close` | the handshake, qemu |
| Stream reader | `stream.py` | the socket, position in the TTTS stream | `parse_ttts_header`, `iter_video_frames`, `read_exact_bytes` | HTTP server of the camera |
| NDI bridge | `ndi_camera_stream.py` | decoder process, feeder thread, shutdown event | feed, decode, send, shut down | ffmpeg, NDI |
| Player | `stream.py` `play_live_stream` | player process | feed, end | ffplay |
| macOS probe | `macos-bluetooth-poc` | `GOT_CHANNEL`, `RECV`, channel list | SDP record, outbound probe, wait for connect-back | IOBluetooth |
| Research tools | `libwsm-reveng` | none kept | dump, extract, verify, patch | libwsm under qemu |

A session runs in one host thread, `run_wifi_session`: it opens the Bluetooth
connection, goes through phases 1-3 (handshake) and 4-7 (device exchange), plays
the stream, and in its `finally` block closes authenticator and connection. Beside
it run the GLib thread that BlueZ calls back, the camera, the helper process under
qemu, and NetworkManager. The NDI bridge is a process of its own: a feeder thread,
the main thread, ffmpeg, and a signal handler. The parts meet in four ways: by
calls (handshake over framing), by messages (host and camera), by shared state
(the profiles' descriptors and events, `stop_event`) and by bounded pipes (helper,
ffmpeg, ffplay).

What is hard in it, and what makes each part correct:

| Part | Hard behaviours | Correct when |
|---|---|---|
| Framing | RFCOMM cuts and joins writes; one `os.read` in `read_frame`; checksums switched on in the middle of the stream | the caller is handed the camera's frames, whole, in order |
| Codec | messages cut short; two kinds of message with one type code | nothing is read that was not written |
| Bluetooth connection | callbacks on another thread, late or repeated; descriptor numbers used again | `open` returns the camera's open connection, nothing foreign is closed, what `open` returned is closed |
| Handshake | overloaded type codes, late answers, the camera's own queries in four loops, attempts used up by other messages | the host uses the session and the component the camera named; every query is answered; it ends unless a frame is left unfinished |
| Device exchange | requests in any order, in any of the loops; the WiFi lives only as long as Bluetooth does | requests are answered once; the network acknowledged is joined, and held; it ends unless a wait without a bound never does |
| Authenticators | a process that fails, hangs or dies between two calls; bytes left over in a pipe | only a genuine exchange verifies; the session is not held by the helper |
| Stream reader | end, silence or reset between any two bytes | the video frames of what came, once, in order |
| NDI bridge, player | two threads, two bounded pipes, an event, a process that may die | all is sent in order and to the end; no process is left for good; it ends |

`PROJECT.json` lists every component with its status, the hazards at their lines
with the properties that watch them, and, under `map`, the lines behind every
definition.

## The modules

| Module | Models | State and actions in terms of the code |
|---|---|---|
| `FrameChannel` | what `SapSession` promises | frames written, payloads handed over |
| `SapFraming` | `read_frame`, `read_slp_frame`, `_read_n` | a byte is its position; `rd` is what `os.read` has taken, `pc` the field being read, `crc` is `use_crc`; one action per read and per field |
| `SapCodec` | `parse_capex_response`, `make_capex_response`, the parsing in `_wait_service_connection` | operators over sequences of bytes, offsets as in the code, the two loops as recursive functions of offset, services and iterations left; a profile id is a few bytes, one of which stands for the letters `DI_360` |
| `SapHandshake` | `run_wifi_session` up to phase 3 | `pc` is the place in the code, `n` the iteration of its `for` loop; one action per message read in each place, one for the `select` that finds nothing; `torn` says that the next message has begun to come and is not finished, which keeps the host in `_read_n` |
| `SapConnection` | `bluetooth.py` | main thread's `pc`, the GLib thread's callback in two steps (store the descriptor, set the event), the kernel's table of descriptors; unregistering may fail |
| `Discovery` | `_resolve_camera_ip`, the filter in `_ssdp_probe`, `upnp.py`, the choice of a stream URL | operators over tables, replies and documents; an address is a string, a URL a host and the segments of its path, a document the elements read out of it |
| `DeviceExchange` | phases 4-7 | as `SapHandshake`; which devices hear the search, what they say and what their servers hold is in the world; that a command or a request fails is an outcome; `ap` and `joined` are the state of the network, `torn` is as in the handshake; packets may keep coming while the search listens, and a body may never end |
| `Answering` | what a session promises a camera that asks | per question, how often it waits and how often it was answered; a step that reads one answers it |
| `Counting` | nothing of the code | how often a message is in a channel |
| `WsmAuth` | `connect_libwsm.py`, `wsm_helper.c`, `connect_libpy.py`, `wsm/client.py` | `host` is the place in the three calls, `helper` that in the C program's `main`; the pipes and the exit code between them |
| `TttsDemux` | `iter_video_frames`, `read_exact_bytes` | `part` is the read that is due; each read gets all it asks for, None, or raises |
| `NdiBridge` | `ndi_camera_stream.py`, `play_live_stream` | extends `TttsDemux`; frames are counted at both ends of each pipe; `mode` is `url`, `pipe` or `play`; the start (`Popen`, then the signal handler) and the end (`terminate`, `wait(3)`, `kill`) are steps of their own, and an exception or a Ctrl-C before the handler leaves by none of the latter |

`SapHandshake` extends `SapCodec`, `DeviceExchange` extends `Discovery`, and
`NdiBridge` extends `TttsDemux`. Two abstract specifications are implemented:
`FrameChannel` by `SapFraming`, and `Answering` by both `SapHandshake` (its questions are
kind and session of a capability query) and `DeviceExchange` (the requests of the
command session): phases 1-3 and 4-7 make the same promise in different loops. The
handshake's channel of whole messages is what `FrameChannel` grants; for the plain
frames it keeps the one thing framing does not hide, that `read_frame` drops what
came along with a frame. `MC*` modules give the constants their values; `*_proofs`
modules hold the theorems.

A camera that is prompt, one that is late and one that misbehaves are met in one run: a
constant `Worlds` is a set of records that say what may happen, the initial
state picks one, and the properties that need a cooperative environment say so
(`world.good`, `world.prompt`).

## The runs

| Run | Question | Answer |
|---|---|---|
| `framing_turns` | Does framing stay aligned when the camera waits for the host between plain frames? | yes, through any cut of the SLP frames; it implements `FrameChannel`, no byte is handed over twice, the checksum mode is the one the first read showed, and every frame arrives if the link stays up |
| `framing_pair` | PD_SUCCESS and AUTH_REQUEST in one segment, as PROTOCOL.md orders them? | violated: the second is dropped |
| `handshake` | Does a good camera get connected, whatever it asks meanwhile, and is anything mixed up by one that is late, refuses or sends cut responses? | connected, on the session granted and to the component named; no query is lost; each step of the host spends one of finitely many, and it ends unless a frame is begun and never finished |
| `connection` | Who holds and closes which descriptor when callbacks come early, late, twice, or never? | `open` returns the camera's; no foreign one is closed; `close` closes the one `open` returned, and every other connection of the camera's is left open |
| `connection_late` | Is the outbound connection dropped once `open` returns? | violated when it comes up after the one look at it |
| `exchange` | Are requests answered, the network held and the camera, of all devices, found in phases 4-7? | yes: each request is answered once, the network acknowledged is the one joined, the stream is the camera's; the good worlds reach it; each step of the host but the passing over of a packet spends one of finitely many, and it ends unless a frame, a body or the packets in answer to a search never do |
| `exchange_unrouted` | Is the stream asked of the camera when no route shows its address? | violated: it is asked of 192.168.43.1, where PROTOCOL.md:42 knows the camera at 192.168.107.1 |
| `exchange_session` | Are capability queries still answered on their session there? | violated: on session 0 |
| `bridge` | Do bridge and player send all, in order, end, and leave no process behind? | yes, but for a bridge whose feeder died or whose decoder's stderr is full, and a player whose end a second Ctrl-C breaks off |
| `bridge_timeout` | Is a silent camera an orderly end of the stream? | violated: the second read of a timed-out response raises, and the bridge waits for ever |
| `wsm` | Can a helper that fails, hangs or dies make a false camera pass, or hold the session? | no; a good camera is authenticated, and the session never hangs on it |
| `wsm_failure` | Does `process_challenge` return None when the library rejects the challenge? | violated: it returns the helper's filler |

The violated properties quote the comment or document they come from; the
findings in `PROJECT.json` tell the traces.

### Bounds

- Framing: four plain frames and two SLP frames of 1 to 6 bytes: each field of each
  kind of frame is met before, at and after the change of framing, and each can be
  cut at every byte. `MaxGarbage` = 3 caps the length the host reads out of
  bytes that are not a length, once it is out of step with the stream: nothing, or
  more than most frames carry. `Whole` is true in the run, so a PD_REQUEST that is cut is not in
  it: what it does to the checksum mode is a theorem (`ChecksumsLostOnlyByACut`).
- Handshake: the loops of 10 and 15 attempts become 5 (2 for the loop that only listens), with one
  query of each kind on each session: fewer messages than attempts, as in the code, and the late
  camera uses the attempts up. One capability response with three agents in two records, the service
  in the middle; one without it; both cut in the middle of an agent's profile and just after it.
- Connection: 3 polls, 2 connect-backs, 5 descriptors: enough for a number to be
  closed, taken by another part of the program and closed again. The late run needs
  only one connect-back.
- Exchange: 6 attempts where messages are waited for, 2 elsewhere; each kind of message once, the
  info twice; two searches; in the world where discovery fails a device repeats its packet as often
  as it likes. Five worlds divide what may happen, as the code's own phases do: one good, one found
  by search with another device answering, one late over a failing link, one where discovery fails
  in every way, one that asks for capabilities. A document holds at most three services.
- Bridge: pipes one frame deep and six chunks, with an empty frame, audio, a
  repeated header and junk: everybody waits for everybody as early as possible.
- Authenticators: no bound; the three calls happen once.

### Fairness

Weak fairness of the host's thread everywhere (the scheduler runs it; a `select` that finds nothing
times out, which is an action of it, but a read of the rest of a frame has no timeout and no action
while the rest is missing). Of the camera, the helper and the network only in the worlds that are
`prompt`; such a camera finishes what it began to send. In `NdiBridge` of both threads, of ffmpeg
(whose waiting for a full pipe is a guard, not unfairness, and which dies when killed, but need not
obey `terminate`) and of the source, which ends in some way: for `url` and `play` the timeouts of
the HTTP response see to that. In `SapConnection` of the GLib thread and of `ConnectProfile`, which
D-Bus ends by its own timeout; not of the camera's connecting back. In `SapFraming` of camera and
link only for `AllRead`, which excuses a link that goes down. Chatter, drops, crashes and Ctrl-C are
never fair.

## The theorems

TLAPS checks every proof, for every value of the constants that meets the named
assumptions (`FramesAssumption`, `StartAssumption`, `BoundsAssumption`, `StreamAssumption`,
`PipesAssumption`, `WorldAssumption`, `CameraAssumption`: types; for the framing, that
frames are laid end to end; for the handshake, that sessions are numbered from 1 to
1022, below the default one, that what is listed fits the format (texts without the
separator, numbers of two bytes), and that a world called good is `Favourable`: the
camera is heard, does not refuse, names the component, and asks fewer questions than
`QueryTries`; for the exchange, that what the camera says of itself is
at its own address, which is what makes its stream the camera's).

- **`SapFraming_proofs`.** `NoByteHandedOverTwice` holds for any packetisation. Its
  invariant `Pieces` adds where the payload in progress lies and ends: without it the
  next hand-over could overlap the last. `StaysAligned`, and from it
  `NoFrameSkipped` and `ImplementsFrameChannel`, assume
  `TurnsAssumption` as a hypothesis of the theorem: plain frames come whole, fit one
  read, and follow the host's answer. `framing_pair` shows that the hypothesis is
  needed. `Aligned` ties position, field and checksum mode to the frame in hand;
  `NothingSkipped` alone says nothing in the middle of a frame.
  `ChecksumsLostOnlyByACut` needs none of that: it also covers a PD_REQUEST that RFCOMM cuts. In
  such a session the camera sends checksums and the host does not expect them, exactly when
  the first read stopped before the clMode (`session.py:203`); its invariant `CrcSettled` adds
  that no field of an SLP frame is read before that first frame was handed over. The refinement proof
  maps each hand-over to `Receive`, each write of the camera to `Send`, and every other
  step to a stutter.
- **`SapConnection_proofs`.** `OpenReturnsAnInbound` and `NoForeignClose` follow
  from `Holding`: what a profile stores is the open descriptor of a connection of its
  own, stored before its event is set. This is what makes the main thread's unlocked
  reads safe, and it is where the order of the two statements in `NewConnection` counts.
  `AllIsAccountedFor` is for all ways `open` can end and any number of connect-backs: the outbound
  descriptor is closed if its connection came up in time, and of the camera's connections
  `close` closes the one `open` returned and no other. A second one, or one after the last poll,
  stays open: this is the leak of `bluetooth.py:127`, counted. Its invariants are `Outbound` and
  `Tally`: each connection the camera made is queued as a call, held, or the one closed.
- **`SapHandshake_proofs`.** The inductive invariant `HInv` has four parts. `Typed` says which
  messages each channel may carry in which phase: no plain frame is left once the sessions are open.
  `Shape` is what is under way to the camera while it waits for one message, which stays true after
  the host has failed. `Turns` lists where the two sides stand in each plain phase, with and without
  PD_SUCCESS. `OneSc` says that at most one service connection is being asked for: its request, the
  answer owed and the answer under way exclude each other, and once the service is asked for the
  answer tells what was granted. `InStepHolds` and `ConnectedGranted` follow. The last needs the
  bytes: `ScIsRead` proves that the parser in `_wait_service_connection` reads out of an accepting
  response the sessions that were laid into it, whatever their number and values, and `ScIsRefused`
  that no cut of a refusal is read as a grant. Every step's `Effect` on the questions under way is
  proved with the invariant (none moves, one is asked, one is answered, or the session ends), and
  gives `EveryQueryAnswered` and the refinement `ImplementsAnswering` at once. Two invariants stand
  on it. `LInv` adds `Spoken`, that every message under way with the type of a capability response
  is one a world offers, whole or cut, and the types; it gives `TypeCorrect` and `AcceptorIsListed`
  by way of the codec. `RInv` adds the reason why the loop that asks for the component does not give
  up on a good camera: on each of its iterations the host's query, or the listing that answers it,
  is under way (`UnderWay`), and the iterations done are no more than the questions answered so far
  (`Spent`), which stay below `QueryTries`. It needs the count of `NoQueryUnanswered` and gives
  `AsksRight`. Each of these invariants was checked by TLC on the run's instance first.
- **`SapCodec_proofs`.** `CapexIsRead`: for all records the format can carry and every prefix of
  the response they make, `parse_capex_response` returns the agents laid into it, in order, or the
  first ones of them. The parser goes on with its outer loop after the inner one broke,
  so the proof has to show that what is left of a cut response is too short for the outer loop
  to read anything from. `Laid` follows the offsets record by record;
  `ComponentIsListed` and `ListingHolds` carry the result over to the component that is
  chosen. No library theorem of induction is used: of the steps at which the parser
  could part from the layout there would be a least one, and there is none.
- **`DeviceExchange_proofs`.** `NetworkIsHeld`: nothing between join and stream closes
  Bluetooth. The invariant `Conv` counts, kind by kind, what is under way in both channels
  against what was asked and told, and ties the info kept to the acknowledgement:
  `RequestsAreAnswered`, `JoinsTheOffered` and the refinement `ImplementsAnswering` follow.
  `StreamIsTheCameras` has `Traced`: with the address resolved, every URL in hand on the way
  from a reply to the stream is the camera's. It stands on lemmas
  about dictionaries filled entry by entry (the last of a key is kept, so nothing is in
  them that was not offered). `Counting_proofs` has what sending and reading do to the
  count of a message.
- **`NdiBridge_proofs`.** `Flow` relates the counts at the ends of the pipes and says
  that, undisturbed, a pipe is closed only when it is empty. `NothingIsCutOff`
  and the types follow. `OnlyVideoInOrder` has an invariant of its own
  about the reader: after a repeated header it stands inside that header.
- **`WsmAuth_proofs`.** The invariant `Chain` ties a verdict to the helper's exit code, the
  exit code to the confirmation it read, and that to the response and the challenge before
  it: each link is written by another process at another time.

The types of framing, connection, bridge and authenticators and the invariant `Pieces` are
proved and no longer repeated in the runs; those runs check the properties that say more.

Every invariant and action property of a passing run, and both refinements, are proved.
The safe half of the liveness of the two session modules is proved too: `HostSpends` in
`SapHandshake` and in `DeviceExchange` bounds the steps the host has left (`Left`) by the bounds of its
loops. Each step of the host lowers that number, except one that passes over a packet in answer to
a search, of which the code allows any number, and
no step of anybody else touches what it is computed from (`HostIsBounded`, from `OnTime`: inside a
loop, the iterations done are below the bound of that loop and not of another). What is left
to the runs is that the host has a step, outside the waits named below, and that the scheduler takes it.

Only model-checked: liveness (`AllRead`, `Connects`, `HandshakeEnds`, `OpenReturns`,
`Streams`, `ExchangeEnds`, `EndsUnlessStuck`, `DecoderEnds`, `Authenticates`, `AuthEnds`), which this
prover does not reach. Where a proof needs a first or a last element, or an argument along
a loop, it takes the least of a set of numbers, which the library's well-founded orders
give without induction over data.

## What may never end

The liveness properties name the waits of the code that have no bound, and say that there are no others:

- `HandshakeEnds` and `ExchangeEnds` except a frame that the camera begins, on a link that stays up,
  and never finishes: only the `select` before its first byte has a timeout (`session.py:85-92`).
- `ExchangeEnds` also excepts the body of a response that never ends (`upnp.py:56`; each
  piece has a timeout, their number none) and packets that keep coming while the
  search listens (`session.py:604-607`; each `recvfrom` waits its three seconds anew).
- `EndsUnlessStuck` excepts a bridge whose feeder has died of an exception that is no
  `BrokenPipeError` (`ndi_camera_stream.py:202`), and one whose decoder waits for room in its
  stderr, which nobody reads (`ndi_camera_stream.py:47`).
- `DecoderEnds` excepts a player whose `finally` block a second Ctrl-C breaks off. A
  decoder that nobody terminates, because Ctrl-C came between `Popen` and the handler
  or an exception went through `main`, does end: it finds its pipes closed.

## What is not modelled

The cryptography and its tables, XML parsing, the wording of JSON and of command lines
are outcomes of the steps that use them. So is the checksum's value: a mismatch is only logged by the code.
The TTTS header's fields set sizes and rates that no property is about. A second
Ctrl-C inside a `finally` block is modelled for the player only. A read error in
`read_frame` other than the end of the link is left out, and so is that `kill` reaches `sudo` and not the
player it runs (`stream.py:105`).

Four hazards of the modelled code have no property, each for a reason that lies in the code:
Ctrl-C inside `setup_dbus` (`bluetooth.py:112`; the profiles stay registered, as they do when
`UnregisterProfile` fails, `bluetooth.py:93`; the model has both steps); the feeder's death and the
decoder's stderr, which `EndsUnlessStuck` names and excepts; and the `BrokenPipeError` that leaves
`process_challenge` when the helper has already exited (`connect_libwsm.py:44`; the session ends,
which is `AuthEnds`, and `wsm_failure` shows the same disagreement with `session.py:64` on another path).

Outside the Linux program, and not modelled: the macOS probe, kept as evidence that
the approach fails there (its delegate's callbacks against the two loops that poll them are
a hazard, listed at `main.rs:195`); the library research tools, the parity test, the shell scripts,
run by hand; the NDI test source and logging, which keep no state. The whole session
over one `pc` is not a module of its own: its phases follow one another in one thread,
`connected` of the handshake is the state phase 4 starts from, and the clean-up of each part is
in that part's module.

External, and modelled from how the code uses them: the camera, BlueZ, RFCOMM, NetworkManager, the
devices and servers on the networks, ffmpeg, ffplay, NDI and qemu.
