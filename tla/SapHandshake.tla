---------------------------- MODULE SapHandshake ----------------------------
(***************************************************************************)
(* Phases 1-3 of run_wifi_session (session.py): peer description,          *)
(* authentication, capability exchange and service connection, between the *)
(* host's one thread and the camera, whose side is external.               *)
(*                                                                         *)
(* Messages are those SapFraming hands over: [t, s, b], the type code, the *)
(* session it came on (0 for plain frames) and what it says.  Type codes   *)
(* are overloaded as on the wire: 1 is a service connection (SC) request   *)
(* or a capability (capex) query, 2 an SC response or a capex response,    *)
(* 5 a PD_REQUEST or a legacy query, 6 a PD_RESPONSE or a legacy response. *)
(* What the camera says in a message of type 2 are SapCodec's bytes.       *)
(***************************************************************************)
EXTENDS SapCodec, Counting

CONSTANTS
  ScTries, ServeTries, QueryTries, SvcTries,  \* loop bounds: 10, 15, 10, 15
  CompId,       \* the camera's componentId for that profile, not 0
  Worlds,       \* the cameras and links to be met, see below
  MaxQueries    \* bound: capex queries of each kind the camera makes

\* What a world allows:
\*   capex     session lists the camera may grant for the capex profile
\*   svc       ... and for the service profile
\*   offers    ALE records its capex response may list
\*   cuts      lengths such a response, or a refusal, may be cut to
\*   legacy    it may answer the host's query with a legacy response
\*   skips     it may leave PD_SUCCESS out
\*   refuses   it may refuse a service connection
\*   paced     it leaves PD_SUCCESS time to be read before going on
\*   prompt    it answers within the host's timeouts
\*   drops     the link may go down
\*   auth      what the authenticator may say to challenge and confirm
\*   good      nothing of the above stands against a connection, see Favourable

Default == 1023     \* DEFAULT_SESSION

\* Sessions are numbered from 1 below the default one.
Granting == Seq(1 .. Default - 1)

PdReq == 5  PdRsp == 6  PdOk == 9
AuthReq == 16  AuthRsp == 17  AuthConf == 18
Query == 1  LegacyQuery == 5  CapexRsp == 2  LegacyRsp == 6
ScReq == 1  ScRsp == 2

VARIABLES
  world,    \* the camera and link met
  pc,       \* where the host's thread is
  n,        \* iterations of the current loop done
  handled,  \* capex_handled > 0
  csid,     \* capex_session_id
  acceptor, \* camera_component_id or 0
  cmd,      \* the command session returned, 0 until then
  c2h, h2c, \* messages under way
  link,     \* is the link up?
  cam,      \* where the camera is
  owed,     \* answers the camera has to send
  granted,  \* command session the camera granted for the service, or 0
  asked,    \* per kind and session of query: how many the camera made
  answered, \* ... and how many answers it has read
  torn      \* has the camera begun a frame and not finished it?

\* What the camera's steps, and what the host's, leave alone.
hostVars == <<world, pc, n, handled, csid, acceptor, cmd>>
camVars == <<world, cam, owed, granted, asked, answered, torn>>
vars == <<hostVars, c2h, h2c, link, camVars>>

Msg(t, s, b) == [t |-> t, s |-> s, b |-> b]
IsQuery(m) == m.t \in {Query, LegacyQuery}
QuerySessions(w) == {IF g = <<>> THEN 1 ELSE g[1] : g \in w.capex}
QueryKinds == {Query, LegacyQuery} \X UNION {QuerySessions(w) : w \in Worlds}

\* Every question a world's camera may ask, and the worlds called good: they
\* stop short of what the host waits for, and any listing names the component.
Askable(w) == ({Query, LegacyQuery} \X QuerySessions(w)) \X (1 .. MaxQueries)
Named(services) ==
  {services[i].componentId : i \in {i \in DOMAIN services : Serves(services[i])}}
Favourable(w) ==
  /\ w.prompt /\ ~w.drops /\ ~w.legacy /\ ~w.refuses /\ w.cuts = {} /\ w.auth = {TRUE}
  /\ \A o \in w.offers : Named(Listing(o)) = {CompId}
  /\ IsFiniteSet(Askable(w)) /\ Cardinality(Askable(w)) < QueryTries

ASSUME WorldAssumption ==
  /\ \A tries \in {ScTries, ServeTries, QueryTries, SvcTries} : tries \in Nat \ {0}
  /\ MaxQueries \in Nat
  /\ \A w \in Worlds : /\ \A g \in w.capex : g \in Granting
                       /\ \A g \in w.svc : g \in Granting
                       /\ \A k \in w.cuts : k \in Nat
                       /\ \A o \in w.offers : Listable(o)
                       /\ w.good => Favourable(w)

Init == /\ world \in Worlds
        /\ pc = "pd" /\ n = 0 /\ handled = FALSE
        /\ csid = 0 /\ acceptor = 0 /\ cmd = 0
        /\ c2h = <<>> /\ h2c = <<>> /\ link = TRUE
        /\ cam = "pd" /\ owed = <<>> /\ granted = 0
        /\ asked = [k \in QueryKinds |-> 0]
        /\ answered = [k \in QueryKinds |-> 0]
        /\ torn = FALSE

-----------------------------------------------------------------------------
(* The camera (external).                                                  *)

CamWrites(m, next) == /\ link
                      /\ c2h' = Append(c2h, m)
                      /\ cam' = next
                      /\ UNCHANGED <<hostVars, h2c, link, owed, granted, asked, answered,
                                     torn>>

CamSpeaks == \/ cam = "pd" /\ CamWrites(Msg(PdReq, 0, <<>>), "rsp")
             \/ cam = "ok" /\ CamWrites(Msg(PdOk, 0, <<>>), "chal")
             \/ /\ cam = "chal" /\ (world.paced => c2h = <<>>)
                /\ CamWrites(Msg(AuthReq, 0, <<>>), "auth")
             \/ cam = "conf" /\ CamWrites(Msg(AuthConf, 0, <<>>), "sc")

\* What the camera is ready to read from the phone.
Accepts(m) == \/ cam = "rsp" /\ m.t = PdRsp /\ m.s = 0
              \/ cam = "auth" /\ m.t = AuthRsp /\ m.s = 0
              \/ cam = "sc" /\ m.t = ScReq /\ m.s = Default /\ m.b[1] = "capex"
              \/ cam = "up" /\ m.s # 0

CamReads(m) ==
  /\ link /\ h2c # <<>> /\ m = Head(h2c) /\ Accepts(m)
  /\ h2c' = Tail(h2c)
  /\ UNCHANGED <<hostVars, c2h, link, asked, torn>>

CamReadsPd ==
  /\ cam = "rsp" /\ CamReads(Head(h2c))
  /\ cam' \in {"ok"} \cup IF world.skips THEN {"chal"} ELSE {}
  /\ UNCHANGED <<owed, granted, answered>>

CamReadsAuth ==
  /\ cam = "auth" /\ CamReads(Head(h2c))
  /\ cam' = "conf"
  /\ UNCHANGED <<owed, granted, answered>>

Cut(b) == {b} \cup {SubSeq(b, 1, k) : k \in {k \in world.cuts : k < Len(b)}}

\* A service connection request is accepted with a list of sessions, that
\* for the service only for the component that offers it.
CamReadsSc ==
  /\ cam \in {"sc", "up"} /\ CamReads(Head(h2c))
  /\ LET m == Head(h2c) IN
     /\ m.t = ScReq /\ m.s = Default
     /\ \E g \in IF m.b[1] = "capex" THEN world.capex ELSE world.svc :
        \E ok \in IF world.refuses THEN BOOLEAN
                  ELSE {m.b[1] = "capex" \/ m.b[2] = CompId} :
        \E b \in IF ok THEN {ScResponse(0, g)} ELSE Cut(ScResponse(1, g)) :
          /\ owed' = Append(owed, Msg(ScRsp, Default, b))
          /\ granted' = IF m.b[1] = "service" /\ ok
                        THEN IF g = <<>> THEN 10 ELSE g[1]
                        ELSE granted
  /\ cam' = "up"
  /\ UNCHANGED answered

CamReadsQuery ==
  /\ cam = "up" /\ CamReads(Head(h2c))
  /\ LET m == Head(h2c) IN
     /\ m.t = Query /\ m.s # Default
     /\ \/ \E o \in world.offers : \E b \in Cut(CapexResponse(2, o)) :
             owed' = Append(owed, Msg(CapexRsp, m.s, b))
        \/ world.legacy /\ owed' = Append(owed, Msg(LegacyRsp, m.s, <<>>))
  /\ UNCHANGED <<cam, granted, answered>>

CamReadsAnswer ==
  /\ cam = "up" /\ CamReads(Head(h2c))
  /\ LET m == Head(h2c)
         k == <<IF m.t = CapexRsp THEN Query ELSE LegacyQuery, m.s>> IN
     /\ m.t \in {CapexRsp, LegacyRsp} /\ k \in QueryKinds
     /\ answered' = [answered EXCEPT ![k] = @ + 1]
  /\ UNCHANGED <<cam, owed, granted>>

CamReplies == /\ link /\ owed # <<>>
              /\ c2h' = Append(c2h, Head(owed))
              /\ owed' = Tail(owed)
              /\ torn' = FALSE
              /\ UNCHANGED <<hostVars, h2c, link, cam, granted, asked, answered>>

\* The camera asks for the phone's services, on a capex session, any number
\* of times from the phone's capex request on.
MayAsk == {k \in {Query, LegacyQuery} \X QuerySessions(world) : asked[k] < MaxQueries}
CamAsks == /\ link /\ cam = "up"
           /\ \E k \in MayAsk :
                /\ c2h' = Append(c2h, Msg(k[1], k[2], <<>>))
                /\ asked' = [asked EXCEPT ![k] = @ + 1]
           /\ torn' = FALSE
           /\ UNCHANGED <<hostVars, h2c, link, cam, owed, granted, answered>>

\* The first bytes of the frame it sends next have come, the others have not;
\* they may never come, unless the camera is prompt.
\* (Plain frames are read as far as they have come: SapFraming has them.)
CamTears == /\ link /\ cam = "up" /\ ~torn
            /\ owed # <<>> \/ MayAsk # {}
            /\ torn' = TRUE
            /\ UNCHANGED <<hostVars, c2h, h2c, link, cam, owed, granted, asked, answered>>

LinkDrops == /\ world.drops /\ link
             /\ link' = FALSE
             /\ UNCHANGED <<hostVars, c2h, h2c, camVars>>

-----------------------------------------------------------------------------
(* The host.                                                               *)

Fail == pc' = "failed" /\ UNCHANGED <<n, handled, csid, acceptor, cmd>>
Goto(p) == pc' = p /\ n' = 0 /\ UNCHANGED <<handled, csid, acceptor, cmd>>

\* Sending on a link that is down raises, which ends the session.
Say(m, then) == IF link THEN h2c' = Append(h2c, m) /\ then
                        ELSE UNCHANGED h2c /\ Fail

\* A read finds nothing: on a link that is down, or when the select times
\* out, which it only does before the first byte of a frame (_read_n has no
\* timeout, and waits for the others as long as the link is up); and, if the
\* camera is prompt, only after it had nothing left to say.
CamQuiet == h2c = <<>> /\ owed = <<>> /\ cam \notin {"pd", "ok", "chal", "conf"}
NothingComes == c2h = <<>> /\ (link => ~torn /\ (world.prompt => CamQuiet))

\* read_frame, of a plain frame: one os.read takes every frame that has
\* come by then, and keeps the first.
PlainFrame(p, m) == /\ pc = p /\ c2h # <<>> /\ m = Head(c2h)
                    /\ \E k \in 1 .. Len(c2h) : c2h' = SubSeq(c2h, k + 1, Len(c2h))
                    /\ UNCHANGED <<link, camVars>>

ReadPd == /\ PlainFrame("pd", Head(c2h))
          /\ IF Head(c2h).t = PdReq THEN Say(Msg(PdRsp, 0, <<>>), Goto("pdok"))
                                    ELSE UNCHANGED h2c /\ Fail

TakeChallenge(m) ==
  \E ok \in world.auth :
    IF m.t = AuthReq /\ ok THEN Say(Msg(AuthRsp, 0, <<>>), Goto("confirm"))
                           ELSE UNCHANGED h2c /\ Fail

\* PD_SUCCESS may be left out.
ReadPdOk == /\ PlainFrame("pdok", Head(c2h))
            /\ IF Head(c2h).t = PdOk THEN UNCHANGED h2c /\ Goto("authreq")
                                     ELSE TakeChallenge(Head(c2h))

ReadAuthReq == PlainFrame("authreq", Head(c2h)) /\ TakeChallenge(Head(c2h))

\* Once the confirmation verifies, the capex service connection is requested.
ReadConfirm ==
  /\ PlainFrame("confirm", Head(c2h))
  /\ \E ok \in world.auth :
       IF Head(c2h).t = AuthConf /\ ok
       THEN Say(Msg(ScReq, Default, <<"capex", 65535>>), Goto("capexsc"))
       ELSE UNCHANGED h2c /\ Fail

PlainNone == /\ pc \in {"pd", "pdok", "authreq", "confirm"} /\ NothingComes
             /\ Fail
             /\ UNCHANGED <<c2h, h2c, link, camVars>>

SlpFrame(p, m) == /\ pc = p /\ c2h # <<>> /\ m = Head(c2h)
                  /\ c2h' = Tail(c2h)
                  /\ UNCHANGED <<link, camVars>>

SlpNone(p) == /\ pc = p /\ NothingComes
              /\ UNCHANGED <<c2h, h2c, link, camVars>>

\* One iteration done of a loop of `tries`; `over` is where its end leads.
\* (Mutants: the loop has no bound; one iteration is lost.)
IterateForever(tries, over) == n' = n + 1 /\ UNCHANGED <<pc, csid, acceptor, cmd>>
IterateShort(tries, over) ==
  /\ IF n + 2 < tries THEN n' = n + 1 /\ UNCHANGED pc ELSE n' = 0 /\ pc' = over
  /\ UNCHANGED <<csid, acceptor, cmd>>
Iterate(tries, over) == IF n + 1 < tries
                        THEN n' = n + 1 /\ UNCHANGED <<pc, csid, acceptor, cmd>>
                        ELSE n' = 0 /\ pc' = over /\ UNCHANGED <<csid, acceptor, cmd>>

\* _handle_capex: a query is answered on its session, in its kind.
AnswerKind(t) == IF t = Query THEN CapexRsp ELSE LegacyRsp
Answer(m) == Msg(AnswerKind(m.t), m.s, <<>>)
\* (Mutant: legacy queries are not recognised.)
HandleCapexModern(m, then) == IF m.t = Query THEN Say(Answer(m), then)
                                             ELSE UNCHANGED h2c /\ then
HandleCapex(m, then) == IF IsQuery(m) THEN Say(Answer(m), then)
                                      ELSE UNCHANGED h2c /\ then

\* (Mutant: the session is not looked at.)
IsScRspAnySession(m) == m.t = ScRsp
IsScRsp(m) == m.t = ScRsp /\ m.s = Default

\* _wait_service_connection: the frame read is an SC response that accepts;
\* it refuses, or raises; it is something else, perhaps a query; or there is
\* none.
ScGranted(p) == /\ SlpFrame(p, Head(c2h)) /\ IsScRsp(Head(c2h))
                /\ ScStatus(Head(c2h).b) = "granted"
                /\ UNCHANGED h2c
ScRefused(p) == /\ SlpFrame(p, Head(c2h)) /\ IsScRsp(Head(c2h))
                /\ ScStatus(Head(c2h).b) \in {"refused", "raises"}
                /\ Fail /\ UNCHANGED h2c
ScWaits(p, tries) ==
  \/ /\ SlpFrame(p, Head(c2h))
     /\ IsScRsp(Head(c2h)) => ScStatus(Head(c2h).b) = "none"
     /\ HandleCapex(Head(c2h), Iterate(tries, "failed") /\ UNCHANGED handled)
  \/ SlpNone(p) /\ Iterate(tries, "failed") /\ UNCHANGED handled

FirstOr(sids, d) == IF sids = <<>> THEN d ELSE sids[1]

CapexSc == \/ /\ ScGranted("capexsc")
              /\ csid' = FirstOr(ScSessions(Head(c2h).b), 1)
              /\ pc' = "serve" /\ n' = 0
              /\ UNCHANGED <<handled, acceptor, cmd>>
           \/ ScRefused("capexsc")
           \/ ScWaits("capexsc", ScTries)

\* The camera's own queries, until one was answered and none follows.
Serve == /\ SlpFrame("serve", Head(c2h))
         /\ HandleCapex(Head(c2h),
                        /\ Iterate(ServeTries, "ask")
                        /\ handled' = (handled \/ IsQuery(Head(c2h))))

\* (Mutant: a read that times out does not count.)
ServeNoneForever == /\ SlpNone("serve")
                    /\ IF handled THEN Goto("ask") ELSE UNCHANGED hostVars
ServeNone == /\ SlpNone("serve")
             /\ IF handled THEN Goto("ask")
                           ELSE Iterate(ServeTries, "ask") /\ UNCHANGED handled

\* (Mutant: the session is left at send_slp_frame's default.)
AskDefaultSession == /\ pc = "ask"
                     /\ Say(Msg(Query, 0, <<>>), Goto("query"))
                     /\ UNCHANGED <<c2h, link, camVars>>
Ask == /\ pc = "ask"
       /\ Say(Msg(Query, csid, <<>>), Goto("query"))
       /\ UNCHANGED <<c2h, link, camVars>>

\* The first response, modern or legacy, ends the loop; an SC response is
\* read as a capex response that lists nothing.
LearnOr(again) ==
  \/ /\ SlpFrame("query", Head(c2h))
     /\ LET m == Head(c2h) IN
        IF m.t \in {CapexRsp, LegacyRsp}
        THEN /\ pc' = "request" /\ n' = 0
             /\ acceptor' = IF m.t = CapexRsp THEN ComponentOf(parse_capex_response(m.b)) ELSE 0
             /\ UNCHANGED <<h2c, handled, csid, cmd>>
        ELSE HandleCapex(m, again)
  \/ SlpNone("query") /\ Iterate(QueryTries, "request") /\ UNCHANGED handled
\* (Mutants: any frame ends the loop; it has the query sent again.)
LearnComponentOnce == LearnOr(Goto("request"))
LearnComponentAgain == LearnOr(Goto("ask"))
LearnComponent == LearnOr(Iterate(QueryTries, "request") /\ UNCHANGED handled)

Request == /\ pc = "request"
           /\ Say(Msg(ScReq, Default, <<"service", acceptor>>), Goto("svcsc"))
           /\ UNCHANGED <<c2h, link, camVars>>

SvcSc == \/ /\ ScGranted("svcsc")
            /\ cmd' = FirstOr(ScSessions(Head(c2h).b), 10)
            /\ pc' = "connected" /\ n' = 0
            /\ UNCHANGED <<handled, csid, acceptor>>
         \/ ScRefused("svcsc")
         \/ ScWaits("svcsc", SvcTries)

\* The finally block: the connection is closed.
Close == /\ pc = "failed"
         /\ pc' = "closed" /\ link' = FALSE
         /\ UNCHANGED <<n, handled, csid, acceptor, cmd, c2h, h2c, camVars>>

Done == pc \in {"connected", "closed"} /\ UNCHANGED vars

Host == ReadPd \/ ReadPdOk \/ ReadAuthReq \/ ReadConfirm \/ PlainNone
        \/ CapexSc \/ Serve \/ ServeNone \/ Ask \/ LearnComponent \/ Request
        \/ SvcSc \/ Close
Camera == CamSpeaks \/ CamReadsPd \/ CamReadsAuth \/ CamReadsSc \/ CamReadsQuery
          \/ CamReadsAnswer \/ CamReplies

Next == Host \/ Camera \/ CamAsks \/ CamTears \/ LinkDrops \/ Done
Spec == Init /\ [][Next]_vars

\* The host's thread always runs on; a prompt camera does too, and finishes
\* what it began to send, but need not ask anything.
FairSpec == Spec /\ WF_vars(Host)
                 /\ WF_vars(world.prompt /\ (Camera \/ (torn /\ CamAsks)))
-----------------------------------------------------------------------------
TypeOK ==
  /\ pc \in {"pd", "pdok", "authreq", "confirm", "capexsc", "serve", "ask",
             "query", "request", "svcsc", "connected", "failed", "closed"}
  /\ \E t \in {ScTries, ServeTries, QueryTries, SvcTries} : n \in 0 .. t - 1
  /\ handled \in BOOLEAN
  /\ csid \in 0 .. Default /\ acceptor \in Words /\ cmd \in 0 .. Default
  /\ cam \in {"pd", "rsp", "ok", "chal", "auth", "conf", "sc", "up"}
  /\ link \in BOOLEAN /\ torn \in BOOLEAN /\ granted \in 0 .. Default

\* The command session that phase 4 will use is the one the camera granted
\* for the service: not one read out of a late capex response, whose type
\* code is also 2, and not one of the capex connection.
ConnectedIsGranted == pc = "connected" => cmd = granted /\ cmd # 0

\* "Answer the camera's capability-discovery queries so it keeps the session
\* alive" (session.py:269): while the session lives, every query the camera
\* made is still on its way, or its answer is (on the query's own session and
\* in its kind), or the camera has read it.  No loop drops or doubles one.
Waiting == [k \in QueryKinds |-> CountOf(c2h, Msg(k[1], k[2], <<>>))]
Given == [k \in QueryKinds |->
            answered[k] + CountOf(h2c, Msg(AnswerKind(k[1]), k[2], <<>>))]
NoQueryUnanswered ==
  pc \notin {"failed", "closed"} => \A k \in QueryKinds : asked[k] = Waiting[k] + Given[k]

\* The promise behind it, as a specification of its own, and the handshake
\* keeping it: every step that reads a query answers it, on its session.
Asking == INSTANCE Answering WITH
  Questions <- QueryKinds,
  waiting <- Waiting,
  answered <- Given,
  open <- pc \notin {"failed", "closed"}
AnswersQueries == Asking!Spec

\* Host and camera stay in step: what the camera has to read next is what it
\* is waiting for, in every phase and whatever either side skipped.
InStep == h2c # <<>> => Accepts(Head(h2c))

\* While the camera has a component to name and is heard, the service is
\* requested of that component and not of 0.
AsksRightComponent ==
  world.good /\ pc \in {"svcsc", "connected"} => acceptor = CompId

\* Whatever the camera lists, and wherever its response is cut, the component
\* asked for is one it listed with the service's profile, or none.
Listed(c) == \E o \in world.offers : \E i \in DOMAIN o : \E j \in DOMAIN o[i].agents :
               o[i].agents[j].componentId = c /\ Serves(o[i].agents[j])
AcceptorListed == acceptor # 0 => Listed(acceptor)

\* A camera that is prompt, accepts and asks fewer questions than a loop has
\* iterations is connected to.
Connects == world.good => <>(pc = "connected")

\* Why it ends: each step of the host's, a frame read or a timeout, spends one
\* of the steps it has left, by the bounds of its loops, and the camera gives it
\* none back: not by querying, not by talking of other things, not by silence.
FromRequest == SvcTries + 2
FromAsk == QueryTries + FromRequest + 1
FromConfirm == ScTries + ServeTries + FromAsk + 1
Left(p, k) == CASE p = "pd" -> FromConfirm + 3
                [] p = "pdok" -> FromConfirm + 2
                [] p = "authreq" -> FromConfirm + 1
                [] p = "confirm" -> FromConfirm
                [] p = "capexsc" -> ScTries - k + ServeTries + FromAsk
                [] p = "serve" -> ServeTries - k + FromAsk
                [] p = "ask" -> FromAsk
                [] p = "query" -> QueryTries - k + FromRequest
                [] p = "request" -> FromRequest
                [] p = "svcsc" -> SvcTries - k + 1
                [] p = "failed" -> 1
                [] OTHER -> 0
HostSpends == [][IF Host THEN Left(pc', n') \in 0 .. Left(pc, n) - 1
                        ELSE UNCHANGED hostVars]_vars

\* The handshake ends, whatever the camera says, leaves out or delays, save in
\* one case: only the first byte of a frame is waited for with a timeout, so a
\* camera that leaves a frame unfinished, on a link that stays up, has
\* _read_n (session.py:85-92) wait for good.
HandshakeEnds == <>(pc \in {"connected", "closed"}) \/ <>[](torn /\ link /\ c2h = <<>>)
=============================================================================
