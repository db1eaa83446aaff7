---------------------------- MODULE DeviceExchange ----------------------------
(***************************************************************************)
(* Phases 4-7 of a session (session.py): the JSON exchange on the command  *)
(* session, the join of the camera's WiFi, discovery, and the start of the *)
(* live stream.  One host thread; the camera, NetworkManager, the WiFi and *)
(* the camera's UPnP server are external.                                  *)
(*                                                                         *)
(* A message is [k, s]: its kind (a msgId, or what it is) and the session  *)
(* it is sent on.                                                          *)
(***************************************************************************)
EXTENDS Discovery, Counting

CONSTANTS
  InfoTries, DrainTries, LiveTries, ScanTries, UrlTries, Probes,
                \* loop bounds: 30, 75, 30, 15, 50, 5
  Cmd, Capex,   \* command session; session of the capability exchange
  MaxEach,      \* bound: how many of each kind the camera sends by itself
  MaxInfos,     \* bound: how often it sends its info
  Worlds        \* the cameras and networks to be met, see below

\* What a world allows:
\*   chatter  kinds of message the camera sends on its own account
\*   infos    what its info may hold: "softap", "direct" (no password)
\*   urls     what its device-desc-url may say: "url", or "" if absent
\*   device   the URL it stands for
\*   prompt   it answers within the host's longer timeouts
\*   drops    the Bluetooth link may go down
\*   nmcli    outcomes of a scan: "ok", "refused", "unseen", "raises"
\*   at       the camera's address on its network
\*   networks tables of active connections that nmcli and ip may show
\*   replies  who may answer an SSDP search, and how
\*   repeats  they may do so again and again
\*   devices  for each address, what the HTTP server there may serve
\*   http     outcomes of the requests: "ok", "error", "raises", "endless"
\*   good     nothing of the above stands against the live stream

Requests == {"date-time-req", "config-info", "cmd-req"}
Queries == {"capex-query", "legacy-query"}

ASSUME BoundsAssumption ==
  /\ {InfoTries, DrainTries, LiveTries, ScanTries, UrlTries, Probes} \subseteq Nat \ {0}
  /\ Cmd \in 1 .. 1022 /\ Capex \in 1 .. 1022 /\ Cmd # Capex
  /\ MaxEach \in Nat /\ MaxInfos \in Nat \ {0}

\* What a camera says of itself is at its own address; nobody is at none.
Its(w) == [host : {w.at, ""}, path : Seq(STRING)]
ASSUME CameraAssumption == \A w \in Worlds :
  /\ w.chatter \subseteq Requests \cup Queries \cup {"widget-info-rsp"}
  /\ w.infos \subseteq {"softap", "direct"} /\ w.urls \subseteq {"url", ""}
  /\ w.device \in Its(w)
  /\ \A r \in w.replies : r.from = w.at => r.locations \in Seq(Its(w))
  /\ "" \notin DOMAIN w.devices
  /\ w.devices[w.at].documents \subseteq Seq([type : STRING, control : Seq(STRING)])
  /\ w.devices[w.at].answers \subseteq
       Seq([key : STRING, value : [host : {w.at}, path : Seq(STRING)] \cup {NoUrl}])

VARIABLES
  world,    \* the camera and network met
  pc,       \* where the host's thread is
  n,        \* iterations of the current loop done
  wifi,     \* wifi_info: "none" or what the info held
  ip,       \* camera_ip, "none" before it is resolved
  url,      \* the URL in hand: of the device, then its control, then the stream
  coming,   \* replies to the current search that are still to come
  c2h, h2c, \* messages under way
  link,     \* is Bluetooth up?
  sent,     \* how many of each kind the camera sent of its own account
  infos,    \* how many infos it sent
  due,      \* what else it has to say: "info", "cmd-rsp", "device-desc-url"
  heard,    \* how many of each kind it has read
  torn,     \* has it begun a frame and not finished it?
  ap,       \* is its access point up?
  joined    \* has the host joined it?

\* What the camera's steps, and what the host's, leave alone.
found == <<ip, url, coming>>
host == <<world, pc, n, wifi, found>>
camera == <<world, sent, infos, due, heard, torn>>
net == <<ap, joined>>
vars == <<host, c2h, h2c, link, camera, net>>

Msg(k, s) == [k |-> k, s |-> s]

HostKinds == {"device-info", "widget-info-req", "info-ack", "liveview",
              "date-time-rsp", "config-info-ack", "cmd-rsp", "capex-rsp", "legacy-rsp"}

Init == /\ world \in Worlds
        /\ pc = "start" /\ n = 0 /\ wifi = "none"
        /\ ip = "none" /\ url = NoUrl /\ coming = {}
        /\ c2h = <<>> /\ h2c = <<>> /\ link = TRUE
        /\ sent = [k \in world.chatter |-> 0] /\ infos = 0 /\ due = {}
        /\ heard = [k \in HostKinds |-> 0] /\ torn = FALSE
        /\ ap = FALSE /\ joined = FALSE

-----------------------------------------------------------------------------
(* The camera (external).                                                  *)

CamSays(m) == /\ link
              /\ c2h' = Append(c2h, m) /\ torn' = FALSE
              /\ UNCHANGED <<host, h2c, link, heard, net>>

\* Capex queries come on the capex connection, which stays up beside the
\* service's.
MayChat == {k \in world.chatter : sent[k] < MaxEach}
CamChats == \E k \in MayChat :
              /\ sent' = [sent EXCEPT ![k] = @ + 1]
              /\ CamSays(Msg(k, IF k \in Queries THEN Capex ELSE Cmd))
              /\ UNCHANGED <<infos, due>>

CamInforms == /\ "info" \in due
              /\ \E i \in world.infos : CamSays(Msg(i, Cmd))
              /\ infos' = infos + 1
              /\ due' \in {due \ {"info"}}
                          \cup IF infos + 1 < MaxInfos THEN {due} ELSE {}
              /\ UNCHANGED sent

CamReports == /\ \E k \in due \ {"info"} :
                   /\ \E u \in IF k = "cmd-rsp" THEN {k} ELSE world.urls : CamSays(Msg(u, Cmd))
                   /\ due' = due \ {k}
              /\ UNCHANGED <<sent, infos>>

\* Told to go live, the camera brings up its access point.  What comes on
\* session 0 reaches nobody there.
CamReads ==
  /\ link /\ h2c # <<>>
  /\ h2c' = Tail(h2c)
  /\ LET m == Head(h2c) IN
     /\ heard' = IF m.s = 0 THEN heard ELSE [heard EXCEPT ![m.k] = @ + 1]
     /\ due' = due \cup (IF m.k = "device-info" THEN {"info"} ELSE {})
                   \cup (IF m.k = "liveview" THEN {"cmd-rsp"} ELSE {})
     /\ ap' = (ap \/ m.k = "liveview")
  /\ UNCHANGED <<host, c2h, link, sent, infos, torn, joined>>

\* The first bytes of the frame it sends next have come, the others have not;
\* they may never come, unless the camera is prompt.
CamTears == /\ link /\ ~torn
            /\ due # {} \/ MayChat # {}
            /\ torn' = TRUE
            /\ UNCHANGED <<host, c2h, h2c, link, world, sent, infos, due, heard, net>>

\* "The camera shuts down WiFi if BT disconnects" (PROTOCOL.md:232).
LinkDrops == /\ world.drops /\ link
             /\ link' = FALSE /\ ap' = FALSE
             /\ UNCHANGED <<host, c2h, h2c, camera, joined>>

-----------------------------------------------------------------------------
(* The host.                                                               *)

Goto(p) == pc' = p /\ n' = 0

\* Sending on a link that is down raises, which ends the session.
Say(m, then) == IF link THEN h2c' = Append(h2c, m) /\ then
                        ELSE UNCHANGED <<h2c, wifi>> /\ Goto("over")

\* (Mutant: the end of the loop is not noticed.)
IterateForever(tries, over) == n' = n + 1 /\ UNCHANGED pc
Iterate(tries, over) == IF n + 1 < tries THEN n' = n + 1 /\ UNCHANGED pc
                                         ELSE Goto(over)

Read(p) == /\ pc = p /\ c2h # <<>> /\ c2h' = Tail(c2h)
           /\ UNCHANGED <<ip, coming, link, camera, net>>

\* A read finds nothing on a link that is down, or when its select times out:
\* before the first byte of a frame only, as _read_n has no timeout, and one of
\* 1 s or more outlasts a prompt camera's answer, one of 0.2 s may not.
CamQuiet == h2c = <<>> /\ due = {}
ReadNone(p) == /\ pc = p /\ c2h = <<>>
               /\ link => ~torn
               /\ p \in {"info", "liveview"} /\ link /\ world.prompt => CamQuiet
               /\ UNCHANGED <<c2h, h2c, wifi, found, link, camera, net>>

\* _handle_bt_message answers requests on the command session and capex
\* queries on session 0.
AnswerOf(k) == CASE k = "date-time-req" -> "date-time-rsp"
                 [] k = "config-info" -> "config-info-ack"
                 [] k = "cmd-req" -> "cmd-rsp"
                 [] k = "capex-query" -> "capex-rsp"
                 [] k = "legacy-query" -> "legacy-rsp"
HandleBtMessage(m, then) ==
  IF m.k \in Requests \cup Queries
  THEN Say(Msg(AnswerOf(m.k), IF m.k \in Queries THEN 0 ELSE Cmd), then)
  ELSE UNCHANGED h2c /\ then

SendAt(p, k, next) == /\ pc = p
                      /\ Say(Msg(k, Cmd), Goto(next) /\ UNCHANGED wifi)
                      /\ UNCHANGED <<c2h, found, link, camera, net>>
SendDeviceInfo == SendAt("start", "device-info", "start2")
SendWidgetReq == SendAt("start2", "widget-info-req", "info")
SendLiveview == SendAt("command", "liveview", "liveview")

IsInfo(m) == m.k \in {"softap", "direct"}

\* An info is kept and acknowledged.
InfoThen(keep, pass) ==
  \/ /\ Read("info") /\ UNCHANGED url
     /\ LET m == Head(c2h) IN
        IF IsInfo(m) THEN Say(Msg("info-ack", Cmd), wifi' = m.k /\ keep)
                     ELSE HandleBtMessage(m, pass /\ UNCHANGED wifi)
  \/ ReadNone("info") /\ Iterate(InfoTries, "drain")

\* The first info ends the loop, and nothing else does.
\* (Mutants: any message does; an info does not.)
WaitInfoAny == InfoThen(Goto("drain"), Goto("drain"))
WaitInfoOn == InfoThen(Iterate(InfoTries, "drain"), Iterate(InfoTries, "drain"))
WaitInfo == InfoThen(Goto("drain"), Iterate(InfoTries, "drain"))

\* With or without an info, what is queued is drained and live view asked for.
\* (Mutant: what is drained is not handled.)
DrainUnread ==
  \/ /\ Read("drain") /\ UNCHANGED url
     /\ Iterate(DrainTries, "command") /\ UNCHANGED <<wifi, h2c>>
  \/ ReadNone("drain") /\ Iterate(DrainTries, "command")
Drain ==
  \/ /\ Read("drain") /\ UNCHANGED url
     /\ HandleBtMessage(Head(c2h), Iterate(DrainTries, "command") /\ UNCHANGED wifi)
  \/ ReadNone("drain") /\ Iterate(DrainTries, "command")

\* The camera's cmd-rsp ends the loop, whatever it says; so does silence.
WaitLiveview ==
  \/ /\ Read("liveview") /\ UNCHANGED url
     /\ HandleBtMessage(Head(c2h),
                        /\ IF Head(c2h).k = "cmd-rsp" THEN Goto("decide")
                           ELSE Iterate(LiveTries, "decide")
                        /\ UNCHANGED wifi)
  \/ ReadNone("liveview") /\ Iterate(LiveTries, "decide")

Decide == /\ pc = "decide"
          /\ Goto(IF wifi = "softap" THEN "scan" ELSE "over")
          /\ UNCHANGED <<wifi, found, c2h, h2c, link, camera, net>>

\* One attempt of _connect_to_wifi: the network is seen only while it is up;
\* a missing nmcli or one that hangs ends it.
ScanOr(again) ==
  /\ pc = "scan"
  /\ link /\ world.prompt => CamQuiet
  /\ \E o \in world.nmcli :
       IF o = "raises" THEN Goto("over") /\ UNCHANGED <<joined, due>>
       ELSE IF ap /\ o = "ok"
       THEN /\ joined' = TRUE /\ Goto("resolve")
            /\ due' = due \cup {k \in {"device-desc-url"} : world.urls # {}}
       ELSE again /\ UNCHANGED <<joined, due>>
  /\ UNCHANGED <<world, wifi, found, c2h, h2c, link, sent, infos, heard, torn, ap>>
\* (Mutant: as long as the network is not seen, it is looked for.)
ScanForever == ScanOr(n' = (n + 1) % ScanTries /\ UNCHANGED pc)
Scan == ScanOr(Iterate(ScanTries, "over"))

\* From here on the host only asks the network and the servers on it.
Elsewhere == UNCHANGED <<wifi, c2h, h2c, link, camera, net>>

Resolve == /\ pc = "resolve"
           /\ \E table \in world.networks : ip' = ResolveCameraIp(table)
           /\ Goto("disc")
           /\ UNCHANGED <<url, coming>> /\ Elsewhere

\* _discover_device_url: over Bluetooth first; an empty URL ends it.
DiscoverBt ==
  \/ /\ Read("disc")
     /\ LET m == Head(c2h) IN
        CASE m.k = "url" -> url' = world.device /\ Goto("fetch") /\ UNCHANGED <<h2c, wifi>>
          [] m.k = "" -> Goto("over") /\ UNCHANGED <<h2c, wifi, url>>
          [] OTHER -> /\ HandleBtMessage(m, Iterate(UrlTries, "ssdp") /\ UNCHANGED wifi)
                      /\ UNCHANGED url
  \/ ReadNone("disc") /\ Iterate(UrlTries, "ssdp")

\* _ssdp_probe.  Those asked answer in any order; a prompt camera's answer is
\* not lost.
Hearing == {r \in world.replies : r.from = world.at => ap}
Search == /\ pc = "ssdp" /\ pc' = "replies"
          /\ coming' \in IF world.prompt THEN {Hearing} ELSE SUBSET Hearing
          /\ UNCHANGED <<n, ip, url>> /\ Elsewhere

\* They may answer again (external): each packet has the next recvfrom wait
\* its three seconds anew, and nothing bounds how many there are.
AnswerAgain == /\ pc = "replies" /\ world.repeats
               /\ \E r \in Hearing \ coming : coming' = coming \cup {r}
               /\ UNCHANGED <<pc, n, ip, url>> /\ Elsewhere

\* The probe that returned nothing is repeated.
NextProbe == /\ IF n + 1 < Probes THEN pc' = "ssdp" /\ n' = n + 1 ELSE Goto("over")
             /\ coming' = {} /\ UNCHANGED url

\* A reply that is no answer is passed over.
\* (Mutant: one of any address is taken.)
ReplyIf(answers) ==
  /\ pc = "replies"
  /\ \/ \E r \in coming \ answers : coming' = coming \ {r} /\ UNCHANGED <<pc, n, url>>
     \/ \E r \in answers : IF Head(r.locations) = NoUrl THEN NextProbe
                           ELSE url' = Head(r.locations) /\ coming' = {} /\ Goto("fetch")
     \/ coming = {} /\ NextProbe
  /\ UNCHANGED ip /\ Elsewhere
ReplyOfAny == ReplyIf({r \in coming : r.locations # <<>>})
Reply == ReplyIf({r \in coming : IsAnswer(r, ip)})

\* A request gets through to a server that is there, the camera's while its
\* network is up; anything but the expected page is an error.
Reached(u) == u.host \in DOMAIN world.devices /\ (u.host = world.at => ap)
Server == world.devices[url.host]

\* _fetch_upnp_services: a document that names no ContentDirectory, or none,
\* ends the session.
Fetch ==
  /\ pc = "fetch"
  /\ \E o \in world.http :
       IF o = "ok" /\ Reached(url) /\ url.path = Server.description
       THEN \E document \in Server.documents :
              LET services == ParseDeviceDescription(document, BaseUrl(url)) IN
              IF Loggable(services) /\ ContentDirectory \in DOMAIN services
              THEN url' = services[ContentDirectory] /\ Goto("rvf")
              ELSE Goto("over") /\ UNCHANGED url
       ELSE Goto("over") /\ UNCHANGED url
  /\ UNCHANGED <<ip, coming>> /\ Elsewhere

\* _start_live_stream: a failed SetOperationState is passed over, a failed
\* GetInfomation replaced by a default URL.
\* The body of its response is read to the end (upnp.py:56), each piece with
\* a timeout of its own: one that never ends holds the session.
Endless(o) == o = "endless" /\ Reached(url)
EnterRvf == /\ pc = "rvf"
            /\ \E o \in world.http : Goto(IF Endless(o) THEN "body"
                                          ELSE IF o = "raises" THEN "over" ELSE "urls")
            /\ UNCHANGED found /\ Elsewhere
GetUrls ==
  /\ pc = "urls"
  /\ \E o \in world.http :
       CASE o = "raises" -> Goto("over") /\ UNCHANGED url
         [] Endless(o) -> Goto("body") /\ UNCHANGED url
         [] o = "ok" /\ Reached(url) /\ url.path = Server.control ->
              \E answer \in Server.answers :
                /\ url' = StreamUrl(ParseStreamUrls(answer))
                /\ Goto(IF url' = NoUrl THEN "over" ELSE "live")
         [] OTHER -> url' = Url(ip, <<"livestream">>) /\ Goto("live")
  /\ UNCHANGED <<ip, coming>> /\ Elsewhere

StreamEnds == /\ pc = "live"
              /\ Goto("over")
              /\ UNCHANGED found /\ Elsewhere

\* The finally block of run_wifi_session.
\* (Mutant: Bluetooth is closed once the WiFi is joined.)
CloseEarly == /\ pc \in {"over", "fetch"}
              /\ pc' = IF pc = "over" THEN "closed" ELSE "rvf"
              /\ link' = FALSE /\ ap' = FALSE
              /\ UNCHANGED <<n, wifi, found, c2h, h2c, camera, joined>>
Close == /\ pc = "over"
         /\ pc' = "closed" /\ link' = FALSE /\ ap' = FALSE
         /\ UNCHANGED <<n, wifi, found, c2h, h2c, camera, joined>>

Done == pc \in {"body", "closed"} /\ UNCHANGED vars

Host == SendDeviceInfo \/ SendWidgetReq \/ WaitInfo \/ Drain \/ SendLiveview
        \/ WaitLiveview \/ Decide \/ Scan \/ Resolve \/ DiscoverBt \/ Search
        \/ Reply \/ Fetch \/ EnterRvf \/ GetUrls \/ Close
Camera == CamInforms \/ CamReports \/ CamReads

Next == Host \/ StreamEnds \/ AnswerAgain \/ Camera \/ CamChats \/ CamTears
        \/ LinkDrops \/ Done
Spec == Init /\ [][Next]_vars

\* The host's thread runs on; so does a prompt camera, which finishes what it
\* began to send, but need not chat.
FairSpec == Spec /\ WF_vars(Host)
                 /\ WF_vars(world.prompt /\ (Camera \/ (torn /\ CamChats)))
-----------------------------------------------------------------------------
Kinds == Requests \cup Queries \cup {"softap", "direct", "url", "", "widget-info-rsp", "cmd-rsp"}

TypeOK ==
  /\ world \in Worlds
  /\ pc \in {"start", "start2", "info", "drain", "command", "liveview", "decide",
             "scan", "resolve", "disc", "ssdp", "replies", "fetch", "rvf", "urls",
             "body", "live", "over", "closed"}
  /\ \E t \in {InfoTries, DrainTries, LiveTries, ScanTries, UrlTries, Probes} :
       n \in 0 .. t - 1
  /\ wifi \in {"none", "softap", "direct"} /\ coming \subseteq world.replies
  /\ c2h \in Seq([k : Kinds \ Queries, s : {Cmd}] \cup [k : Queries, s : {Capex}])
  /\ h2c \in Seq([k : HostKinds, s : {Cmd, 0}])
  /\ sent \in [world.chatter -> 0 .. MaxEach] /\ infos \in Nat
  /\ heard \in [HostKinds -> Nat]
  /\ torn \in BOOLEAN /\ link \in BOOLEAN /\ ap \in BOOLEAN /\ joined \in BOOLEAN
  /\ due \subseteq {"info", "cmd-rsp", "device-desc-url"}

\* "Messages 3-9 may arrive in varying order.  The phone handles all of them"
\* (PROTOCOL.md:207): whatever loop a request of the camera meets, it is
\* answered once, on the command session.  What the camera asked is what it
\* heard answered, what is on its way back, and what the host has yet to read.
RequestsAnswered ==
  pc \notin {"over", "closed"} =>
    \A k \in Requests \cap world.chatter :
      sent[k] = heard[AnswerOf(k)] + CountOf(h2c, Msg(AnswerOf(k), Cmd))
                + CountOf(c2h, Msg(k, Cmd))

\* The promise behind it, as a specification of its own.
Asking == INSTANCE Answering WITH
  Questions <- Requests,
  waiting <- [k \in Requests |-> CountOf(c2h, Msg(k, Cmd))],
  answered <- [k \in Requests |-> heard[AnswerOf(k)] + CountOf(h2c, Msg(AnswerOf(k), Cmd))],
  open <- pc \notin {"over", "closed"}

\* Phases 4-7 keep it: no loop reads a request and goes on without answering,
\* none answers twice, out of turn, or what was not asked.
AnswersRequests == Asking!Spec

\* An info is kept exactly if it is acknowledged, once, so that one that comes
\* too late leaves host and camera agreed that there is none; and the host goes
\* for the network of the info it kept, never without having told the camera,
\* once, to bring it up.
Using == {"resolve", "disc", "ssdp", "replies", "fetch", "rvf", "urls", "body", "live"}
Joining == {"scan"} \cup Using
Told(k) == heard[k] + CountOf(h2c, Msg(k, Cmd))
JoinsWhatWasOffered ==
  pc \notin {"over", "closed"} =>
    /\ Told("info-ack") = IF wifi = "none" THEN 0 ELSE 1
    /\ pc \in Joining => wifi = "softap" /\ Told("liveview") = 1

\* "BT must remain connected, the camera shuts down WiFi if BT disconnects"
\* (PROTOCOL.md:232): unless the link itself fails, the host has the
\* camera's network for as long as it uses it.
NetworkHolds ==
  ~world.drops /\ pc \in Using => ap /\ joined

\* The stream that is played is the camera's, whoever else on the networks
\* answers the search, and whatever the camera answers or fails to: this takes
\* no more than its address, resolved.
StreamsFromCamera == pc = "live" /\ ip = world.at => url.host = world.at

\* PROTOCOL.md:42, "Camera IP on SoftAP 192.168.107.1": the address is the
\* camera's, looked up or not.
PlaysTheCamera == pc = "live" => url.host = world.at

\* session.py:269, "Answer the camera's capability-discovery queries so it
\* keeps the session alive": the answer goes where the query came from.
OnItsSession == \A i \in DOMAIN h2c : h2c[i].k \in {"capex-rsp", "legacy-rsp"} => h2c[i].s = Capex

\* A prompt camera that offers its own network and requests that succeed: the
\* live stream starts, however much else the camera has to say.
Streams == world.good => <>(pc = "live")

\* Why they end: each step of the host's spends one of the steps it has left,
\* by the bounds of its loops, and nothing gives it one back: no message, no
\* reply, no probe that came to nothing.  Only a reply that is no answer is
\* passed over for nothing.
FromSearch == 2 * Probes + 5
FromResolve == UrlTries + FromSearch + 1
FromDecide == ScanTries + FromResolve + 1
FromCommand == LiveTries + FromDecide + 1
Left(p, k) ==
  CASE p = "start" -> InfoTries + DrainTries + FromCommand + 2
    [] p = "start2" -> InfoTries + DrainTries + FromCommand + 1
    [] p = "info" -> InfoTries - k + DrainTries + FromCommand
    [] p = "drain" -> DrainTries - k + FromCommand
    [] p = "command" -> FromCommand
    [] p = "liveview" -> LiveTries - k + FromDecide
    [] p = "decide" -> FromDecide
    [] p = "scan" -> ScanTries - k + FromResolve
    [] p = "resolve" -> FromResolve
    [] p = "disc" -> UrlTries - k + FromSearch
    [] p = "ssdp" -> 2 * (Probes - k) + 5
    [] p = "replies" -> 2 * (Probes - k) + 4
    [] p = "fetch" -> 5
    [] p = "rvf" -> 4
    [] p = "urls" -> 3
    [] p = "live" -> 2
    [] p = "over" -> 1
    [] OTHER -> 0
PassesOver == pc = "replies" /\ coming' # coming /\ UNCHANGED <<world, pc, n, wifi, ip, url>>
HostSpends == [][IF Host \/ StreamEnds
                 THEN PassesOver \/ Left(pc', n') \in 0 .. Left(pc, n) - 1
                 ELSE UNCHANGED <<world, pc, n, wifi, ip, url>>]_vars

\* Phases 4-7 end, the stream apart, whatever camera, network and link do, save
\* in three cases, where a wait has no bound: the camera leaves a frame
\* unfinished (session.py:85-92), a server never ends a body (upnp.py:56), or
\* packets that are no answer to the search never cease (session.py:604-607).
ExchangeEnds == \/ <>(pc \in {"live", "body", "closed"})
                \/ <>[](torn /\ link /\ c2h = <<>>)
                \/ <>[](pc = "replies") /\ []<><<AnswerAgain>>_vars
=============================================================================
