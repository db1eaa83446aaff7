------------------------- MODULE SapHandshake_proofs -------------------------
(***************************************************************************)
(* What holds of SapHandshake for every camera and link, every bound of    *)
(* its loops and any number of questions.                                  *)
(***************************************************************************)
EXTENDS SapHandshake, SapCodec_proofs
-----------------------------------------------------------------------------
(* What the two say.                                                       *)

Plain(t) == Msg(t, 0, <<>>)
Sessions == 1 .. Default - 1
CapexRequest == Msg(ScReq, Default, <<"capex", 65535>>)

\* Each question, and its answer.
Question == [k \in QueryKinds |-> Msg(k[1], k[2], <<>>)]
AnswerTo == [k \in QueryKinds |-> Msg(AnswerKind(k[1]), k[2], <<>>)]

\* The bodies of the camera's answers, wherever they are cut.
Cuts(b, K) == {b} \cup {SubSeq(b, 1, k) : k \in K}
Refusals(g) == LET r == ScResponse(1, g) IN Cuts(r, 0 .. Len(r))
ScBodies == {ScResponse(0, g) : g \in Granting}
            \cup UNION {Refusals(g) : g \in Granting}
Listings == UNION {Cuts(CapexResponse(2, o), Nat) : o \in UNION {w.offers : w \in Worlds}}

Replies == {Msg(ScRsp, Default, b) : b \in ScBodies}
           \cup {Msg(CapexRsp, s, b) : s \in Sessions, b \in Listings}
           \cup {Msg(LegacyRsp, s, <<>>) : s \in Sessions}
SaidUp == Replies \cup {Question[k] : k \in QueryKinds}
SaidPlain == {Plain(t) : t \in {PdReq, PdOk, AuthReq, AuthConf}}
Said == SaidUp \cup SaidPlain

Acceptors == {0} \cup {ComponentOf(parse_capex_response(b)) : b \in Listings \cup ScBodies}
ToldUp == {Msg(ScReq, Default, <<"service", a>>) : a \in Acceptors}
          \cup {Msg(Query, s, <<>>) : s \in Sessions}
          \cup {AnswerTo[k] : k \in QueryKinds}
Told == ToldUp \cup {CapexRequest, Plain(PdRsp), Plain(AuthRsp)}

PlainPcs == {"pd", "pdok", "authreq", "confirm"}
LatePcs == {"serve", "ask", "query", "request", "svcsc", "connected"}
Alive == pc \notin {"failed", "closed"}

Typed ==
  /\ world \in Worlds
  /\ pc \in PlainPcs \cup {"capexsc"} \cup LatePcs \cup {"failed", "closed"}
  /\ cam \in {"pd", "rsp", "ok", "chal", "auth", "conf", "sc", "up"}
  /\ c2h \in Seq(Said) /\ h2c \in Seq(Told) /\ owed \in Seq(Replies)
  /\ asked \in [QueryKinds -> Nat] /\ answered \in [QueryKinds -> Nat]
  /\ acceptor \in Acceptors /\ (pc \in {"serve", "ask"} => csid \in Sessions)
  /\ pc \notin PlainPcs /\ Alive => c2h \in Seq(SaidUp)
  /\ cam = "up" => h2c \in Seq(ToldUp)
  /\ cam # "up" => owed = <<>>

\* What is under way to the camera, which goes on after the host has failed.
Shape ==
  /\ cam \in {"pd", "ok", "chal", "conf"} => h2c = <<>>
  /\ cam = "rsp" => h2c \in {<<>>, <<Plain(PdRsp)>>}
  /\ cam = "auth" => h2c \in {<<>>, <<Plain(AuthRsp)>>}
  /\ cam = "sc" => h2c \in {<<>>, <<CapexRequest>>}

\* Where the two are, phase by phase.
Turns ==
  /\ pc = "pd" => /\ h2c = <<>>
                  /\ \/ cam = "pd" /\ c2h = <<>>
                     \/ cam = "rsp" /\ c2h = <<Plain(PdReq)>>
  /\ pc = "pdok" =>
       \/ cam = "rsp" /\ h2c = <<Plain(PdRsp)>> /\ c2h = <<>>
       \/ cam = "ok" /\ h2c = <<>> /\ c2h = <<>>
       \/ cam = "chal" /\ h2c = <<>> /\ c2h \in {<<>>, <<Plain(PdOk)>>}
       \/ /\ cam = "auth" /\ h2c = <<>>
          /\ c2h \in {<<Plain(AuthReq)>>, <<Plain(PdOk), Plain(AuthReq)>>}
  /\ pc = "authreq" => /\ h2c = <<>>
                       /\ \/ cam = "chal" /\ c2h = <<>>
                          \/ cam = "auth" /\ c2h \in {<<>>, <<Plain(AuthReq)>>}
  /\ pc = "confirm" =>
       \/ cam = "auth" /\ h2c = <<Plain(AuthRsp)>> /\ c2h = <<>>
       \/ cam = "conf" /\ h2c = <<>> /\ c2h = <<>>
       \/ cam = "sc" /\ h2c = <<>> /\ c2h = <<Plain(AuthConf)>>
  /\ pc = "capexsc" => \/ cam = "up"
                       \/ cam = "sc" /\ h2c = <<CapexRequest>> /\ c2h = <<>>
  /\ pc \in LatePcs => cam = "up"

\* At most one service connection is being asked for; once the service's is,
\* what answers it says what was granted.
IsSc(m, t) == m.t = t /\ m.s = Default
Has(ch, t) == \E i \in DOMAIN ch : IsSc(ch[i], t)
Lone(ch, t) == \A i, j \in DOMAIN ch : IsSc(ch[i], t) /\ IsSc(ch[j], t) => i = j
Says(b, session) == ScStatus(b) = "granted"
                      => FirstOr(ScSessions(b), 10) = session /\ session # 0
Tells(ch, session) == \A i \in DOMAIN ch : IsSc(ch[i], ScRsp) => Says(ch[i].b, session)
ForService(ch) == \A i \in DOMAIN ch : IsSc(ch[i], ScReq) => ch[i].b[1] = "service"
OneSc ==
  Alive =>
    /\ Lone(h2c, ScReq) /\ Lone(owed, ScRsp) /\ Lone(c2h, ScRsp)
    /\ Has(h2c, ScReq) => ~Has(owed, ScRsp)
    /\ Has(h2c, ScReq) => ~Has(c2h, ScRsp)
    /\ Has(owed, ScRsp) => ~Has(c2h, ScRsp)
    /\ pc \notin {"capexsc", "svcsc"} =>
         ~Has(h2c, ScReq) /\ ~Has(owed, ScRsp) /\ ~Has(c2h, ScRsp)
    /\ pc = "svcsc" => ForService(h2c) /\ Tells(owed, granted) /\ Tells(c2h, granted)
    /\ pc = "connected" => cmd = granted /\ cmd # 0

HInv == Typed /\ Shape /\ Turns /\ OneSc
-----------------------------------------------------------------------------
(* Messages, apart.                                                        *)

LEMMA MsgIs ==
  \A t, s, b : Msg(t, s, b).t = t /\ Msg(t, s, b).s = s /\ Msg(t, s, b).b = b
  BY DEF Msg

LEMMA KindsTyped ==
  ASSUME NEW k \in QueryKinds
  PROVE  k = <<k[1], k[2]>> /\ k[1] \in {Query, LegacyQuery} /\ k[2] \in Sessions
  <1>1. \A w \in Worlds : QuerySessions(w) \subseteq Sessions
    <2> SUFFICES ASSUME NEW w \in Worlds, NEW g \in w.capex
                 PROVE  (IF g = <<>> THEN 1 ELSE g[1]) \in Sessions
      BY DEF QuerySessions
    <2>1. g \in Seq(Sessions)  BY WorldAssumption DEF Granting, Sessions
    <2>2. CASE g = <<>>  BY <2>2 DEF Sessions, Default
    <2>3. CASE g # <<>>
      <3>1. 1 \in 1 .. Len(g)  BY <2>1, <2>3
      <3> QED  BY <2>1, <2>3, <3>1
    <2> QED  BY <2>2, <2>3
  <1> QED  BY <1>1 DEF QueryKinds

LEMMA QuestionIs ==
  ASSUME NEW k \in QueryKinds
  PROVE  /\ Question[k] = Msg(k[1], k[2], <<>>)
         /\ AnswerTo[k] = Msg(AnswerKind(k[1]), k[2], <<>>)
  BY DEF Question, AnswerTo

LEMMA QuestionsDiffer ==
  ASSUME NEW j \in QueryKinds, NEW k \in QueryKinds
  PROVE  /\ Question[j] = Question[k] => j = k
         /\ AnswerTo[j] = AnswerTo[k] => j = k
  <1>1. /\ j = <<j[1], j[2]>> /\ j[1] \in {Query, LegacyQuery}
        /\ k = <<k[1], k[2]>> /\ k[1] \in {Query, LegacyQuery}
    BY KindsTyped
  <1>2. Question[j] = Question[k] => j[1] = k[1] /\ j[2] = k[2]
    BY QuestionIs, MsgIs
  <1>3. AnswerTo[j] = AnswerTo[k] => AnswerKind(j[1]) = AnswerKind(k[1]) /\ j[2] = k[2]
    BY QuestionIs, MsgIs
  <1>4. AnswerKind(j[1]) = AnswerKind(k[1]) => j[1] = k[1]
    BY <1>1 DEF AnswerKind, Query, LegacyQuery, CapexRsp, LegacyRsp
  <1> QED  BY <1>1, <1>2, <1>3, <1>4

LEMMA RepliesAre ==
  ASSUME NEW m \in Replies
  PROVE  /\ m.t \in {CapexRsp, LegacyRsp} /\ m.s \in 1 .. Default
         /\ IsSc(m, ScRsp) => m.b \in ScBodies
         /\ m.t = CapexRsp => m.b \in Listings \cup ScBodies
  <1>1. CASE \E b \in ScBodies : m = Msg(ScRsp, Default, b)
    BY <1>1, MsgIs DEF IsSc, ScRsp, CapexRsp, Default
  <1>2. CASE \E s \in Sessions, b \in Listings : m = Msg(CapexRsp, s, b)
    BY <1>2, MsgIs DEF IsSc, Sessions, Default
  <1>3. CASE \E s \in Sessions : m = Msg(LegacyRsp, s, <<>>)
    <2>1. m.t = LegacyRsp /\ m.s \in Sessions  BY <1>3, MsgIs
    <2> QED  BY <2>1 DEF IsSc, ScRsp, CapexRsp, LegacyRsp, Sessions, Default
  <1> QED  BY <1>1, <1>2, <1>3 DEF Replies

LEMMA QuestionsAre ==
  ASSUME NEW k \in QueryKinds
  PROVE  /\ Question[k].t \in {Query, LegacyQuery} /\ Question[k].s \in 1 .. Default - 1
         /\ Question[k].b = <<>> /\ Answer(Question[k]) = AnswerTo[k]
         /\ AnswerTo[k].t \in {CapexRsp, LegacyRsp} /\ AnswerTo[k].s \in 1 .. Default - 1
  BY KindsTyped, QuestionIs, MsgIs
     DEF Answer, AnswerKind, Query, LegacyQuery, CapexRsp, LegacyRsp, Sessions

\* A question is told from whatever else the camera says by its type, once
\* the plain phases are over.
LEMMA SaidUpIs ==
  ASSUME NEW m \in SaidUp
  PROVE  /\ m.s \in 1 .. Default
         /\ IsQuery(m) => \E k \in QueryKinds : m = Question[k]
         /\ ~IsQuery(m) => \A k \in QueryKinds : m # Question[k]
         /\ ~IsQuery(m) => m \in Replies
         /\ IsQuery(m) => ~IsSc(m, ScRsp)
         /\ IsSc(m, ScRsp) => m.b \in ScBodies
         /\ m.t = CapexRsp => m.b \in Listings \cup ScBodies
  <1>1. CASE m \in Replies
    <2>1. m.t \notin {Query, LegacyQuery}
      BY <1>1, RepliesAre DEF Query, LegacyQuery, CapexRsp, LegacyRsp
    <2>2. \A k \in QueryKinds : m # Question[k]  BY <2>1, QuestionsAre
    <2> QED  BY <1>1, <2>1, <2>2, RepliesAre DEF IsQuery
  <1>2. CASE \E k \in QueryKinds : m = Question[k]
    <2>1. m.t \in {Query, LegacyQuery} /\ m.s \in 1 .. Default - 1  BY <1>2, QuestionsAre
    <2>2. m.s \in 1 .. Default  BY <2>1 DEF Default
    <2>3. m.t # CapexRsp /\ m.t # ScRsp
      BY <2>1 DEF Query, LegacyQuery, CapexRsp, ScRsp
    <2> QED  BY <1>2, <2>1, <2>2, <2>3 DEF IsQuery, IsSc
  <1> QED  BY <1>1, <1>2 DEF SaidUp

LEMMA ToldUpIs ==
  ASSUME NEW m \in ToldUp
  PROVE  /\ m.s \in 1 .. Default
         /\ m.t \in {CapexRsp, LegacyRsp} => \E k \in QueryKinds : m = AnswerTo[k]
         /\ m.t \notin {CapexRsp, LegacyRsp} => \A k \in QueryKinds : m # AnswerTo[k]
         /\ IsSc(m, ScReq) => m.b[1] = "service"
  <1>1. CASE \E a \in Acceptors : m = Msg(ScReq, Default, <<"service", a>>)
    <2>1. m.s = Default /\ m.t = ScReq /\ m.b[1] = "service"  BY <1>1, MsgIs
    <2>2. m.t \notin {CapexRsp, LegacyRsp}  BY <2>1 DEF ScReq, CapexRsp, LegacyRsp
    <2> QED  BY <2>1, <2>2, QuestionsAre DEF Default
  <1>2. CASE \E s \in Sessions : m = Msg(Query, s, <<>>)
    <2>1. m.s \in 1 .. Default - 1 /\ m.t = Query  BY <1>2, MsgIs DEF Sessions
    <2>2. m.t \notin {CapexRsp, LegacyRsp}  BY <2>1 DEF Query, CapexRsp, LegacyRsp
    <2>3. ~IsSc(m, ScReq)  BY <2>1 DEF Default, IsSc
    <2>4. m.s \in 1 .. Default  BY <2>1 DEF Default
    <2> QED  BY <2>2, <2>3, <2>4, QuestionsAre
  <1>3. CASE \E k \in QueryKinds : m = AnswerTo[k]
    <2>1. m.t \in {CapexRsp, LegacyRsp} /\ m.s \in 1 .. Default - 1  BY <1>3, QuestionsAre
    <2>2. m.t # ScReq  BY <2>1 DEF CapexRsp, LegacyRsp, ScReq
    <2> QED  BY <1>3, <2>1, <2>2 DEF Default, IsSc
  <1> QED  BY <1>1, <1>2, <1>3 DEF ToldUp
-----------------------------------------------------------------------------
(* Questions and answers under way, counted kind by kind.                  *)

Tally(ch, M) == [k \in QueryKinds |-> CountOf(ch, M[k])]
Apart(M) == \A j, k \in QueryKinds : M[j] = M[k] => j = k

LEMMA BothApart == Apart(Question) /\ Apart(AnswerTo)
  BY QuestionsDiffer DEF Apart

LEMMA Tallied ==
  /\ Waiting = Tally(c2h, Question)
  /\ Given = [k \in QueryKinds |-> answered[k] + Tally(h2c, AnswerTo)[k]]
  BY QuestionIs DEF Waiting, Given, Tally

LEMMA TallyTyped ==
  ASSUME NEW S, NEW ch \in Seq(S), NEW M
  PROVE  Tally(ch, M) \in [QueryKinds -> Nat]
  BY CountIsNat DEF Tally

LEMMA TallyNone ==
  ASSUME NEW S, NEW ch \in Seq(S), NEW M, \A k \in QueryKinds : M[k] \notin S
  PROVE  Tally(ch, M) = [k \in QueryKinds |-> 0]
  <1> SUFFICES ASSUME NEW k \in QueryKinds PROVE CountOf(ch, M[k]) = 0  BY DEF Tally
  <1>1. \A i \in DOMAIN ch : ch[i] \in S  OBVIOUS
  <1>2. Places(ch, M[k]) = {}  BY <1>1 DEF Places
  <1>3. Cardinality(Places(ch, M[k])) = 0  BY <1>2, FS_EmptySet, Zenon
  <1> QED  BY <1>3, CountPlaces

LEMMA TallySent ==
  ASSUME NEW S, NEW ch \in Seq(S), NEW x \in S, NEW M, Apart(M)
  PROVE  /\ (\A k \in QueryKinds : x # M[k]) => Tally(Append(ch, x), M) = Tally(ch, M)
         /\ \A k \in QueryKinds :
              x = M[k] => Tally(Append(ch, x), M) = [Tally(ch, M) EXCEPT ![k] = @ + 1]
  <1>1. \A j \in QueryKinds :
          CountOf(Append(ch, x), M[j]) = CountOf(ch, M[j]) + IF x = M[j] THEN 1 ELSE 0
    BY CountAppend
  <1>2. \A j \in QueryKinds : CountOf(ch, M[j]) \in Nat  BY CountIsNat
  <1>3. ASSUME \A k \in QueryKinds : x # M[k]
        PROVE  Tally(Append(ch, x), M) = Tally(ch, M)
    BY <1>1, <1>2, <1>3 DEF Tally
  <1>4. ASSUME NEW k \in QueryKinds, x = M[k]
        PROVE  Tally(Append(ch, x), M) = [Tally(ch, M) EXCEPT ![k] = @ + 1]
    <2>1. \A j \in QueryKinds : CountOf(Append(ch, x), M[j]) =
            IF j = k THEN CountOf(ch, M[k]) + 1 ELSE CountOf(ch, M[j])
      <3> SUFFICES ASSUME NEW j \in QueryKinds
                   PROVE  CountOf(Append(ch, x), M[j]) =
                            IF j = k THEN CountOf(ch, M[k]) + 1 ELSE CountOf(ch, M[j])
        OBVIOUS
      <3>1. x = M[j] <=> j = k  BY <1>4 DEF Apart
      <3> QED  BY <1>1, <1>2, <3>1
    <2> QED  BY <2>1 DEF Tally
  <1> QED  BY <1>3, <1>4

LEMMA TallyRead ==
  ASSUME NEW S, NEW ch \in Seq(S), ch # <<>>, NEW M, Apart(M)
  PROVE  /\ (\A k \in QueryKinds : Head(ch) # M[k]) => Tally(Tail(ch), M) = Tally(ch, M)
         /\ \A k \in QueryKinds : Head(ch) = M[k] =>
              Tally(ch, M)[k] > 0 /\ Tally(Tail(ch), M) = [Tally(ch, M) EXCEPT ![k] = @ - 1]
  <1> DEFINE T == Tail(ch)
             x == Head(ch)
  <1>0. T \in Seq(S)  OBVIOUS
  <1>1. \A j \in QueryKinds :
          CountOf(ch, M[j]) = CountOf(T, M[j]) + IF x = M[j] THEN 1 ELSE 0
    BY CountTail
  <1> HIDE DEF T, x
  <1>2. \A j \in QueryKinds : CountOf(ch, M[j]) \in Nat /\ CountOf(T, M[j]) \in Nat
    BY <1>0, CountIsNat
  <1>3. ASSUME \A k \in QueryKinds : x # M[k]
        PROVE  Tally(T, M) = Tally(ch, M)
    BY <1>1, <1>2, <1>3 DEF Tally
  <1>4. ASSUME NEW k \in QueryKinds, x = M[k]
        PROVE  Tally(ch, M)[k] > 0 /\ Tally(T, M) = [Tally(ch, M) EXCEPT ![k] = @ - 1]
    <2>1. \A j \in QueryKinds : CountOf(T, M[j]) =
            IF j = k THEN CountOf(ch, M[k]) - 1 ELSE CountOf(ch, M[j])
      <3> SUFFICES ASSUME NEW j \in QueryKinds
                   PROVE  CountOf(T, M[j]) =
                            IF j = k THEN CountOf(ch, M[k]) - 1 ELSE CountOf(ch, M[j])
        OBVIOUS
      <3>1. x = M[j] <=> j = k  BY <1>4 DEF Apart
      <3> QED  BY <1>1, <1>2, <3>1
    <2>2. CountOf(ch, M[k]) > 0  BY <1>1, <1>2, <1>4
    <2> QED  BY <2>1, <2>2 DEF Tally
  <1> QED  BY <1>3, <1>4 DEF T, x
-----------------------------------------------------------------------------
(* Service connections under way.                                          *)

LEMMA Ends ==
  ASSUME NEW S, NEW ch \in Seq(S), NEW x \in S
  PROVE  /\ Len(ch) \in Nat /\ DOMAIN ch = 1 .. Len(ch)
         /\ Append(ch, x) \in Seq(S) /\ DOMAIN Append(ch, x) = 1 .. Len(ch) + 1
         /\ \A i \in 1 .. Len(ch) : Append(ch, x)[i] = ch[i]
         /\ Append(ch, x)[Len(ch) + 1] = x
  BY AppendProperties

LEMMA ScSent ==
  ASSUME NEW S, NEW ch \in Seq(S), NEW x \in S, NEW t
  PROVE  /\ Has(Append(ch, x), t) <=> Has(ch, t) \/ IsSc(x, t)
         /\ Lone(ch, t) /\ (IsSc(x, t) => ~Has(ch, t)) => Lone(Append(ch, x), t)
         /\ ForService(ch) /\ (IsSc(x, ScReq) => x.b[1] = "service")
              => ForService(Append(ch, x))
         /\ \A g : Tells(ch, g) /\ (IsSc(x, ScRsp) => Says(x.b, g)) => Tells(Append(ch, x), g)
  <1> DEFINE new == Append(ch, x)
             last == Len(ch) + 1
  <1>1. /\ Len(ch) \in Nat /\ DOMAIN ch = 1 .. Len(ch) /\ DOMAIN new = 1 .. last
        /\ \A i \in 1 .. Len(ch) : new[i] = ch[i]
        /\ new[last] = x
    BY Ends
  <1>2. \A i \in 1 .. last : i \in 1 .. Len(ch) \/ i = last  BY <1>1
  <1>3. last \in 1 .. last /\ 1 .. Len(ch) \subseteq 1 .. last  BY <1>1
  <1> HIDE DEF new, last
  <1>4. Has(new, t) <=> Has(ch, t) \/ IsSc(x, t)
    BY <1>1, <1>2, <1>3 DEF Has
  <1>5. Lone(ch, t) /\ (IsSc(x, t) => ~Has(ch, t)) => Lone(new, t)
    BY <1>1, <1>2 DEF Lone, Has
  <1>6. ForService(ch) /\ (IsSc(x, ScReq) => x.b[1] = "service") => ForService(new)
    BY <1>1, <1>2 DEF ForService
  <1>7. \A g : Tells(ch, g) /\ (IsSc(x, ScRsp) => Says(x.b, g)) => Tells(new, g)
    BY <1>1, <1>2 DEF Tells
  <1> QED  BY <1>4, <1>5, <1>6, <1>7 DEF new

LEMMA ScRead ==
  ASSUME NEW S, NEW ch \in Seq(S), ch # <<>>, NEW t
  PROVE  /\ Has(Tail(ch), t) => Has(ch, t)
         /\ Lone(ch, t) => Lone(Tail(ch), t)
         /\ Lone(ch, t) /\ IsSc(Head(ch), t) => ~Has(Tail(ch), t)
         /\ IsSc(Head(ch), t) => Has(ch, t)
         /\ ForService(ch) => ForService(Tail(ch))
         /\ ForService(ch) /\ IsSc(Head(ch), ScReq) => Head(ch).b[1] = "service"
         /\ \A g : Tells(ch, g) => Tells(Tail(ch), g)
         /\ \A g : Tells(ch, g) /\ IsSc(Head(ch), ScRsp) => Says(Head(ch).b, g)
  <1> DEFINE T == Tail(ch)
  <1>1. /\ Len(ch) \in Nat \ {0} /\ DOMAIN ch = 1 .. Len(ch)
        /\ DOMAIN T = 1 .. Len(ch) - 1
        /\ \A i \in 1 .. Len(ch) - 1 : T[i] = ch[i + 1]
        /\ Head(ch) = ch[1]
    BY HeadTailProperties
  <1> HIDE DEF T
  <1>2. \A i \in DOMAIN T : i + 1 \in DOMAIN ch /\ T[i] = ch[i + 1] /\ i + 1 # 1  BY <1>1
  <1>3. \A i, j \in DOMAIN T : i + 1 = j + 1 => i = j  BY <1>1
  <1>4. 1 \in DOMAIN ch  BY <1>1
  <1>5. Has(T, t) => Has(ch, t)  BY <1>2 DEF Has
  <1>6. Lone(ch, t) => Lone(T, t)  BY <1>2, <1>3 DEF Lone
  <1>7. Lone(ch, t) /\ IsSc(Head(ch), t) => ~Has(T, t)  BY <1>1, <1>2, <1>4 DEF Lone, Has
  <1>8. IsSc(Head(ch), t) => Has(ch, t)  BY <1>1, <1>4 DEF Has
  <1>9. /\ ForService(ch) => ForService(T)
        /\ ForService(ch) /\ IsSc(Head(ch), ScReq) => Head(ch).b[1] = "service"
    BY <1>1, <1>2, <1>4 DEF ForService
  <1>10. \A g : Tells(ch, g) => Tells(T, g)  BY <1>2 DEF Tells
  <1>11. \A g : Tells(ch, g) /\ IsSc(Head(ch), ScRsp) => Says(Head(ch).b, g)
    BY <1>1, <1>4 DEF Tells
  <1> QED  BY <1>5, <1>6, <1>7, <1>8, <1>9, <1>10, <1>11 DEF T

\* Where there is none, whatever is said of it holds.
LEMMA NoScThere ==
  ASSUME NEW ch
  PROVE  /\ ~Has(ch, ScRsp) => \A g : Tells(ch, g)
         /\ ~Has(ch, ScReq) => ForService(ch)
         /\ \A t : ~Has(ch, t) => Lone(ch, t)
  BY DEF Has, Tells, ForService, Lone

LEMMA NoneInEmpty == \A t : ~Has(<<>>, t)
  BY DEF Has
-----------------------------------------------------------------------------
(* What a step does to the questions and answers under way.                *)

Same == Waiting' = Waiting /\ Given' = Given /\ asked' = asked
Puts(k) == /\ Waiting' = [Waiting EXCEPT ![k] = @ + 1] /\ Given' = Given
           /\ asked' = [asked EXCEPT ![k] = @ + 1]
Drops(k) == /\ Waiting[k] > 0 /\ Waiting' = [Waiting EXCEPT ![k] = @ - 1]
            /\ Given' = Given
Gives(k) == /\ Waiting[k] > 0 /\ Waiting' = [Waiting EXCEPT ![k] = @ - 1]
            /\ Given' = [Given EXCEPT ![k] = @ + 1] /\ asked' = asked
Effect ==
  \/ Same /\ (Alive' <=> Alive)
  \/ \E k \in QueryKinds : Puts(k) /\ (Alive' <=> Alive)
  \/ Alive /\ Alive' /\ \E k \in QueryKinds : Gives(k)
  \/ Alive /\ ~Alive' /\ (Same \/ \E k \in QueryKinds : Gives(k) \/ Drops(k))

LEMMA TalliedNext ==
  /\ Waiting' = Tally(c2h', Question)
  /\ Given' = [k \in QueryKinds |-> answered'[k] + Tally(h2c', AnswerTo)[k]]
  BY QuestionIs DEF Waiting, Given, Tally

LEMMA CountsTyped ==
  ASSUME Typed
  PROVE  /\ Waiting \in [QueryKinds -> Nat] /\ Given \in [QueryKinds -> Nat]
         /\ Tally(h2c, AnswerTo) \in [QueryKinds -> Nat]
  <1>1. c2h \in Seq(Said) /\ h2c \in Seq(Told) /\ answered \in [QueryKinds -> Nat]
    BY DEF Typed
  <1>2. /\ Tally(h2c, AnswerTo) \in [QueryKinds -> Nat]
        /\ Tally(c2h, Question) \in [QueryKinds -> Nat]
    BY <1>1, TallyTyped
  <1> QED  BY <1>1, <1>2, Tallied

\* Nothing that counts moves.
LEMMA NothingMoves ==
  ASSUME UNCHANGED <<asked, answered>>,
         Tally(c2h', Question) = Tally(c2h, Question),
         Tally(h2c', AnswerTo) = Tally(h2c, AnswerTo)
  PROVE  Same
  BY Tallied, TalliedNext DEF Same

\* One more answer given.
LEMMA OneGiven ==
  ASSUME Typed, NEW k \in QueryKinds,
         answered' = answered,
         Tally(h2c', AnswerTo) = [Tally(h2c, AnswerTo) EXCEPT ![k] = @ + 1]
  PROVE  Given' = [Given EXCEPT ![k] = @ + 1]
  <1> DEFINE A == Tally(h2c, AnswerTo)
             B == Tally(h2c', AnswerTo)
  <1>1. /\ answered \in [QueryKinds -> Nat] /\ A \in [QueryKinds -> Nat]
        /\ Given = [j \in QueryKinds |-> answered[j] + A[j]]
        /\ Given' = [j \in QueryKinds |-> answered[j] + B[j]]
        /\ B = [A EXCEPT ![k] = @ + 1]
    BY CountsTyped, Tallied, TalliedNext DEF Typed
  <1> HIDE DEF A, B
  <1>2. ASSUME NEW j \in QueryKinds
        PROVE  answered[j] + B[j] = IF j = k THEN answered[k] + A[k] + 1 ELSE answered[j] + A[j]
    BY <1>1
  <1> QED  BY <1>1, <1>2

\* An answer read is one given still.
LEMMA OneRead ==
  ASSUME Typed, NEW k \in QueryKinds,
         answered' = [answered EXCEPT ![k] = @ + 1],
         Tally(h2c', AnswerTo) = [Tally(h2c, AnswerTo) EXCEPT ![k] = @ - 1]
  PROVE  Given' = Given
  <1> DEFINE A == Tally(h2c, AnswerTo)
             B == Tally(h2c', AnswerTo)
  <1>1. /\ answered \in [QueryKinds -> Nat] /\ A \in [QueryKinds -> Nat]
        /\ Given = [j \in QueryKinds |-> answered[j] + A[j]]
        /\ Given' = [j \in QueryKinds |-> answered'[j] + B[j]]
        /\ B = [A EXCEPT ![k] = @ - 1]
    BY CountsTyped, Tallied, TalliedNext DEF Typed
  <1> HIDE DEF A, B
  <1>2. ASSUME NEW j \in QueryKinds PROVE answered'[j] + B[j] = answered[j] + A[j]
    BY <1>1
  <1> QED  BY <1>1, <1>2
LEMMA PlainIs ==
  ASSUME NEW m \in SaidPlain
  PROVE  m.s = 0 /\ (\A k \in QueryKinds : m # Question[k]) /\ \A t : ~IsSc(m, t)
  <1>1. m.s = 0  BY MsgIs DEF SaidPlain, Plain
  <1>2. \A k \in QueryKinds : Question[k].s # 0  BY QuestionsAre
  <1>3. \A t : ~IsSc(m, t)  BY <1>1 DEF IsSc, Default
  <1> QED  BY <1>1, <1>2, <1>3

LEMMA FirstToldAre ==
  ASSUME NEW m \in {CapexRequest, Plain(PdRsp), Plain(AuthRsp)}
  PROVE  /\ \A k \in QueryKinds : m # AnswerTo[k]
         /\ m \in Told
         /\ m = CapexRequest => m.t = ScReq /\ m.s = Default
         /\ m # CapexRequest => m.s = 0 /\ \A t : ~IsSc(m, t)
  <1>1. CASE m = CapexRequest
    <2>1. m.t = ScReq /\ m.s = Default  BY <1>1, MsgIs DEF CapexRequest
    <2>2. \A k \in QueryKinds : AnswerTo[k].s # Default
      <3> SUFFICES ASSUME NEW k \in QueryKinds PROVE AnswerTo[k].s # Default  OBVIOUS
      <3>1. AnswerTo[k].s \in 1 .. Default - 1  BY QuestionsAre
      <3>2. Default \in Nat /\ \A i \in 1 .. Default - 1 : i # Default  BY DEF Default
      <3> QED  BY <3>1, <3>2
    <2> QED  BY <1>1, <2>1, <2>2 DEF Told
  <1>2. CASE m \in {Plain(PdRsp), Plain(AuthRsp)}
    <2>1. m.s = 0  BY <1>2, MsgIs DEF Plain
    <2>2. CapexRequest.s = Default  BY MsgIs DEF CapexRequest
    <2>3. \A k \in QueryKinds : AnswerTo[k].s # 0  BY QuestionsAre
    <2>4. m # CapexRequest  BY <2>1, <2>2 DEF Default
    <2>5. \A t : ~IsSc(m, t)  BY <2>1 DEF IsSc, Default
    <2> QED  BY <1>2, <2>1, <2>3, <2>4, <2>5 DEF Told
  <1> QED  BY <1>1, <1>2

LEMMA PlainQuiet ==
  ASSUME NEW ch \in Seq(SaidPlain)
  PROVE  Tally(ch, Question) = [k \in QueryKinds |-> 0] /\ ~Has(ch, ScRsp)
  <1>1. \A k \in QueryKinds : Question[k] \notin SaidPlain  BY PlainIs
  <1>2. \A i \in DOMAIN ch : ch[i] \in SaidPlain  OBVIOUS
  <1> QED  BY <1>1, <1>2, TallyNone, PlainIs DEF Has
-----------------------------------------------------------------------------
(* The camera's steps.                                                     *)

LEMMA ShortOnes ==
  ASSUME NEW S, NEW m \in S
  PROVE  Append(<<>>, m) = <<m>> /\ \A x \in S : Append(<<x>>, m) = <<x, m>>
  <1>1. Append(<<>>, m) = <<m>>  OBVIOUS
  <1>2. ASSUME NEW x \in S PROVE Append(<<x>>, m) = <<x, m>>
    <2>1. <<x>> \in Seq(S) /\ Len(<<x>>) = 1 /\ <<x>>[1] = x  OBVIOUS
    <2>2. <<x, m>> \in Seq(S) /\ Len(<<x, m>>) = 2 /\ <<x, m>>[1] = x /\ <<x, m>>[2] = m  OBVIOUS
    <2> DEFINE a == Append(<<x>>, m)
               b == <<x, m>>
    <2>3. a \in Seq(S) /\ Len(a) = 2 /\ a[1] = x /\ a[2] = m  BY <2>1, AppendProperties
    <2>4. b \in Seq(S) /\ Len(b) = 2 /\ b[1] = x /\ b[2] = m  BY <2>2
    <2> HIDE DEF a, b
    <2>5. \A i \in 1 .. Len(a) : a[i] = b[i]  BY <2>3, <2>4
    <2>6. a = b  BY <2>3, <2>4, <2>5, SeqEqual
    <2> QED  BY <2>6 DEF a, b
  <1> QED  BY <1>1, <1>2

\* In the plain phases only plain messages are under way to the host.
LEMMA PlainPhase ==
  ASSUME HInv, pc \in PlainPcs
  PROVE  c2h \in Seq(SaidPlain) /\ ~Has(c2h, ScRsp)
  <1>1. \A t \in {PdReq, PdOk, AuthReq, AuthConf} : Plain(t) \in SaidPlain  BY DEF SaidPlain
  <1>3. <<>> \in Seq(SaidPlain) /\ \A x, y \in SaidPlain : <<x>> \in Seq(SaidPlain) /\ <<x, y>> \in Seq(SaidPlain)
    OBVIOUS
  <1>4. \/ c2h = <<>> \/ \E t \in {PdReq, PdOk, AuthReq, AuthConf} : c2h = <<Plain(t)>>
        \/ c2h = <<Plain(PdOk), Plain(AuthReq)>>
    BY DEF HInv, Turns, PlainPcs
  <1>2. c2h \in Seq(SaidPlain)  BY <1>1, <1>3, <1>4
  <1> QED  BY <1>2, PlainQuiet

LEMMA StepCamSpeaks == HInv /\ CamSpeaks => HInv' /\ Effect
  <1> SUFFICES ASSUME HInv, CamSpeaks PROVE HInv' /\ Effect  OBVIOUS
  <1>1. \E m \in SaidPlain :
          /\ c2h' = Append(c2h, m)
          /\ \/ cam = "pd" /\ m = Plain(PdReq) /\ cam' = "rsp"
             \/ cam = "ok" /\ m = Plain(PdOk) /\ cam' = "chal"
             \/ cam = "chal" /\ m = Plain(AuthReq) /\ cam' = "auth"
             \/ cam = "conf" /\ m = Plain(AuthConf) /\ cam' = "sc"
    BY DEF CamSpeaks, CamWrites, SaidPlain, Plain
  <1>2. PICK m \in SaidPlain :
          /\ c2h' = Append(c2h, m)
          /\ \/ cam = "pd" /\ m = Plain(PdReq) /\ cam' = "rsp"
             \/ cam = "ok" /\ m = Plain(PdOk) /\ cam' = "chal"
             \/ cam = "chal" /\ m = Plain(AuthReq) /\ cam' = "auth"
             \/ cam = "conf" /\ m = Plain(AuthConf) /\ cam' = "sc"
    BY <1>1
  <1>3. UNCHANGED <<hostVars, h2c, link, owed, granted, asked, answered>>
    BY DEF CamSpeaks, CamWrites
  <1>4. m \in Said /\ (\A k \in QueryKinds : m # Question[k]) /\ ~IsSc(m, ScRsp)
    BY PlainIs DEF Said
  <1>5. c2h \in Seq(Said) /\ c2h' \in Seq(Said)  BY <1>2, <1>4 DEF HInv, Typed
  <1>6. ~Alive \/ pc \in PlainPcs
    BY <1>2 DEF HInv, Typed, Turns, Alive
  <1>7. Effect
    <2>1. Tally(c2h', Question) = Tally(c2h, Question)
      BY <1>2, <1>4, <1>5, TallySent, BothApart
    <2>2. Same  BY <1>3, <2>1, NothingMoves
    <2> QED  BY <1>3, <2>2 DEF Effect, Alive, hostVars
  <1>8. Typed'
    <2>1. cam # "up" /\ cam' # "up" /\ cam' \in {"rsp", "chal", "auth", "sc"}  BY <1>2
    <2> QED  BY <1>3, <1>5, <1>6, <2>1
             DEF HInv, Typed, Alive, hostVars, PlainPcs, LatePcs
  <1>9. Shape'  BY <1>2, <1>3 DEF HInv, Shape
  <1>10. Turns'
    <2>1. Append(<<>>, m) = <<m>> /\ \A x \in Said : Append(<<x>>, m) = <<x, m>>
      BY <1>4, ShortOnes
    <2>3. Plain(PdOk) \in Said  BY DEF Said, SaidPlain
    <2>2. pc' = pc /\ h2c' = h2c  BY <1>3 DEF hostVars
    <2> QED  BY <1>2, <1>6, <2>1, <2>2, <2>3 DEF HInv, Turns, PlainPcs, LatePcs, Alive
  <1>11. OneSc'
    <2>1. ASSUME Alive PROVE pc \in PlainPcs /\ ~Has(c2h', ScRsp) /\ Lone(c2h', ScRsp)
      BY <1>2, <1>4, <1>5, <1>6, <2>1, PlainPhase, ScSent, NoScThere
    <2> QED  BY <1>3, <2>1 DEF HInv, OneSc, Alive, hostVars, PlainPcs
  <1> QED  BY <1>7, <1>8, <1>9, <1>10, <1>11 DEF HInv
LEMMA GrantingIs ==
  ASSUME NEW g \in Granting
  PROVE  /\ g \in Seq(Nat)
         /\ FirstOr(g, 1) \in Sessions
         /\ FirstOr(g, 10) = (IF g = <<>> THEN 10 ELSE g[1]) /\ FirstOr(g, 10) # 0
  <1>1. g \in Seq(Nat) /\ \A i \in 1 .. Len(g) : g[i] \in Sessions
    <2>1. g \in Seq(Sessions)  BY DEF Granting, Sessions
    <2>2. Sessions \subseteq Nat  BY DEF Sessions
    <2>3. Len(g) \in Nat /\ \A i \in 1 .. Len(g) : g[i] \in Sessions  BY <2>1
    <2>4. g = [i \in 1 .. Len(g) |-> g[i]]  BY <2>1
    <2>5. g \in [1 .. Len(g) -> Nat]  BY <2>2, <2>3, <2>4
    <2>6. g \in Seq(Nat)  BY <2>3, <2>5, SeqDef
    <2> QED  BY <2>3, <2>6
  <1>2. CASE g = <<>>  BY <1>1, <1>2 DEF FirstOr, Sessions, Default
  <1>3. CASE g # <<>>
    <2>1. 1 \in 1 .. Len(g)  BY <1>1, <1>3
    <2>2. g[1] \in Sessions /\ 0 \notin Sessions  BY <1>1, <2>1 DEF Sessions
    <2> QED  BY <1>1, <1>3, <2>2 DEF FirstOr
  <1> QED  BY <1>2, <1>3

\* What the camera answers a service connection request with.
LEMMA ScAnswers ==
  ASSUME NEW g \in Granting
  PROVE  /\ ScResponse(0, g) \in ScBodies /\ ScSessions(ScResponse(0, g)) = g
         /\ \A b \in Refusals(g) : b \in ScBodies /\ ScStatus(b) # "granted"
  <1>1. g \in Seq(Nat) /\ 0 \in Nat  BY GrantingIs
  <1>2. ScSessions(ScResponse(0, g)) = g  BY <1>1, ScIsRead
  <1>3. ScResponse(0, g) \in ScBodies /\ \A b \in Refusals(g) : b \in ScBodies
    BY DEF ScBodies
  <1>4. ASSUME NEW b \in Refusals(g) PROVE ScStatus(b) # "granted"
    <2> DEFINE r == ScResponse(1, g)
    <2>1. /\ r \in Seq(Nat) /\ Len(r) \in Nat
      <3>1. ScLaid(r, 1, g)  BY <1>1, ScBytes
      <3> HIDE DEF r
      <3> QED  BY <3>1 DEF ScLaid
    <2>2. \A k \in 0 .. Len(r) : ScStatus(SubSeq(r, 1, k)) # "granted"
      BY <1>1, ScIsRefused
    <2>3. b = r \/ \E k \in 0 .. Len(r) : b = SubSeq(r, 1, k)  BY DEF Refusals, Cuts
    <2> HIDE DEF r
    <2>4. r = SubSeq(r, 1, Len(r)) /\ Len(r) \in 0 .. Len(r)  BY <2>1
    <2> QED  BY <2>2, <2>3, <2>4
  <1> QED  BY <1>2, <1>3, <1>4

LEMMA GrantIsRead ==
  ASSUME NEW b \in ScBodies, ScStatus(b) = "granted"
  PROVE  FirstOr(ScSessions(b), 1) \in Sessions
  <1>1. \A g \in Granting : b \notin Refusals(g)  BY ScAnswers
  <1>2. PICK g \in Granting : b = ScResponse(0, g)  BY <1>1 DEF ScBodies
  <1> QED  BY <1>2, ScAnswers, GrantingIs

LEMMA CutsAre ==
  ASSUME NEW g \in Granting, world \in Worlds
  PROVE  Cut(ScResponse(1, g)) \subseteq Refusals(g)
  <1> DEFINE r == ScResponse(1, g)
  <1>1. Len(r) \in Nat
    <2>1. ScLaid(r, 1, g) /\ Len(g) \in Nat  BY ScBytes, GrantingIs
    <2> HIDE DEF r
    <2> QED  BY <2>1 DEF ScLaid
  <1>2. \A k \in world.cuts : k \in Nat  BY WorldAssumption
  <1> HIDE DEF r
  <1>3. {k \in world.cuts : k < Len(r)} \subseteq 0 .. Len(r)  BY <1>1, <1>2
  <1>4. Cut(r) \subseteq Cuts(r, 0 .. Len(r))  BY <1>3 DEF Cut, Cuts
  <1> QED  BY <1>4 DEF Refusals, r

LEMMA ListingsAre ==
  ASSUME world \in Worlds, NEW o \in world.offers
  PROVE  Cut(CapexResponse(2, o)) \subseteq Listings
  <1>1. \A k \in world.cuts : k \in Nat  BY WorldAssumption
  <1> DEFINE r == CapexResponse(2, o)
  <1> HIDE DEF r
  <1>2. Cut(r) \subseteq Cuts(r, Nat)  BY <1>1 DEF Cut, Cuts
  <1> QED  BY <1>2 DEF Listings, r

\* A read of the camera's that is no answer to it.
LEMMA CamTakes ==
  ASSUME HInv, h2c # <<>>, h2c' = Tail(h2c), \A k \in QueryKinds : Head(h2c) # AnswerTo[k]
  PROVE  Tally(h2c', AnswerTo) = Tally(h2c, AnswerTo) /\ h2c' \in Seq(Told)
  <1>1. h2c \in Seq(Told)  BY DEF HInv, Typed
  <1> QED  BY <1>1, TallyRead, BothApart

LEMMA OnlyOne == \A x : Head(<<x>>) = x /\ Tail(<<x>>) = <<>>
  OBVIOUS

\* The plain message it waits for.
LEMMA StepCamReadsPlain == HInv /\ (CamReadsPd \/ CamReadsAuth) => HInv' /\ Effect
  <1> SUFFICES ASSUME HInv, CamReadsPd \/ CamReadsAuth PROVE HInv' /\ Effect  OBVIOUS
  <1>1. /\ h2c # <<>> /\ h2c' = Tail(h2c) /\ UNCHANGED <<hostVars, c2h, link, asked>>
        /\ UNCHANGED <<owed, granted, answered>>
        /\ \/ cam = "rsp" /\ cam' \in {"ok", "chal"}
           \/ cam = "auth" /\ cam' = "conf"
    BY DEF CamReadsPd, CamReadsAuth, CamReads
  <1>2. h2c \in {<<Plain(PdRsp)>>, <<Plain(AuthRsp)>>}  BY <1>1 DEF HInv, Shape
  <1>3. h2c' = <<>> /\ Head(h2c) \in {Plain(PdRsp), Plain(AuthRsp)}
    BY <1>1, <1>2, OnlyOne, Zenon
  <1>4. Tally(h2c', AnswerTo) = Tally(h2c, AnswerTo)  BY <1>1, <1>3, FirstToldAre, CamTakes
  <1>5. Effect
    <2>1. Same  BY <1>1, <1>4, NothingMoves
    <2> QED  BY <1>1, <2>1 DEF Effect, Alive, hostVars
  <1>6. Typed'  BY <1>1, <1>3 DEF HInv, Typed, Alive, hostVars
  <1>7. Shape'  BY <1>1, <1>3 DEF HInv, Shape
  <1>8. Turns'
    <2>1. \/ cam = "rsp" /\ (Alive => pc = "pdok" /\ c2h = <<>>)
          \/ cam = "auth" /\ (Alive => pc = "confirm" /\ c2h = <<>>)
      BY <1>1 DEF HInv, Turns, Typed, PlainPcs, LatePcs, Alive
    <2> QED  BY <1>1, <1>3, <2>1 DEF Turns, hostVars, LatePcs, Alive
  <1>9. OneSc'
    <2>1. ~Has(h2c', ScReq) /\ Lone(h2c', ScReq) /\ ForService(h2c')
      BY <1>3, NoneInEmpty, NoScThere
    <2> QED  BY <1>1, <2>1 DEF HInv, OneSc, Alive, hostVars
  <1> QED  BY <1>5, <1>6, <1>7, <1>8, <1>9 DEF HInv
\* Once it is up, any message of the sessions.
LEMMA CamTakesUp ==
  ASSUME HInv, cam = "up", h2c # <<>>, h2c' = Tail(h2c)
  PROVE  /\ Head(h2c) \in ToldUp /\ h2c' \in Seq(ToldUp) /\ h2c' \in Seq(Told)
         /\ Lone(h2c, ScReq) => Lone(h2c', ScReq)
         /\ Has(h2c', ScReq) => Has(h2c, ScReq)
         /\ ForService(h2c) => ForService(h2c')
  <1>1. h2c \in Seq(ToldUp) /\ h2c \in Seq(Told)  BY DEF HInv, Typed
  <1> QED  BY <1>1, ScRead

LEMMA StepCamReadsSc == HInv /\ CamReadsSc => HInv' /\ Effect
  <1> SUFFICES ASSUME HInv, CamReadsSc PROVE HInv' /\ Effect  OBVIOUS
  <1> DEFINE m == Head(h2c)
  <1>1. /\ h2c # <<>> /\ h2c' = Tail(h2c) /\ UNCHANGED <<hostVars, c2h, link, asked, answered>>
        /\ cam \in {"sc", "up"} /\ cam' = "up"
        /\ m.t = ScReq /\ m.s = Default
    BY DEF CamReadsSc, CamReads
  <1>2. \E b \in ScBodies : /\ owed' = Append(owed, Msg(ScRsp, Default, b))
                            /\ m.b[1] = "service" => Says(b, granted')
    <2>1. world \in Worlds  BY DEF HInv, Typed
    <2>2. PICK g \in (IF m.b[1] = "capex" THEN world.capex ELSE world.svc),
               ok \in BOOLEAN :
          \E b \in IF ok THEN {ScResponse(0, g)} ELSE Cut(ScResponse(1, g)) :
            /\ owed' = Append(owed, Msg(ScRsp, Default, b))
            /\ granted' = IF m.b[1] = "service" /\ ok
                          THEN IF g = <<>> THEN 10 ELSE g[1]
                          ELSE granted
      BY DEF CamReadsSc
    <2>3. g \in Granting  BY <2>1, WorldAssumption
    <2>4. PICK b \in IF ok THEN {ScResponse(0, g)} ELSE Cut(ScResponse(1, g)) :
            /\ owed' = Append(owed, Msg(ScRsp, Default, b))
            /\ granted' = IF m.b[1] = "service" /\ ok
                          THEN IF g = <<>> THEN 10 ELSE g[1]
                          ELSE granted
      BY <2>2
    <2>5. CASE ok
      <3>1. b = ScResponse(0, g)  BY <2>4, <2>5
      <3>2. b \in ScBodies /\ ScSessions(b) = g  BY <2>3, <3>1, ScAnswers
      <3>3. m.b[1] = "service" => granted' = FirstOr(g, 10) /\ granted' # 0
        BY <2>3, <2>4, <2>5, GrantingIs
      <3> QED  BY <2>4, <3>2, <3>3 DEF Says
    <2>6. CASE ~ok
      <3>1. b \in Refusals(g)  BY <2>1, <2>3, <2>4, <2>6, CutsAre
      <3>2. b \in ScBodies /\ ScStatus(b) # "granted"  BY <2>3, <3>1, ScAnswers
      <3> QED  BY <2>4, <3>2 DEF Says
    <2> QED  BY <2>5, <2>6
  <1>3. PICK b \in ScBodies : /\ owed' = Append(owed, Msg(ScRsp, Default, b))
                              /\ m.b[1] = "service" => Says(b, granted')
    BY <1>2
  <1> DEFINE r == Msg(ScRsp, Default, b)
  <1>4. r \in Replies /\ IsSc(r, ScRsp) /\ r.b = b  BY MsgIs DEF Replies, IsSc
  <1>5. owed \in Seq(Replies) /\ h2c \in Seq(Told)  BY DEF HInv, Typed
  <1>a. owed' = Append(owed, r) /\ (m.b[1] = "service" => Says(b, granted'))
    BY <1>3
  <1> HIDE DEF m, r
  <1>6. /\ owed' = Append(owed, r) /\ owed' \in Seq(Replies)
        /\ ~Has(owed, ScRsp) => Lone(owed', ScRsp)
        /\ ~Has(owed, ScRsp) /\ Says(b, granted') => Tells(owed', granted')
    <2>1. owed' = Append(owed, r)  BY <1>a
    <2>2. /\ Lone(owed, ScRsp) /\ (IsSc(r, ScRsp) => ~Has(owed, ScRsp)) => Lone(owed', ScRsp)
          /\ \A g : Tells(owed, g) /\ (IsSc(r, ScRsp) => Says(r.b, g)) => Tells(owed', g)
      BY <1>4, <1>5, <2>1, ScSent
    <2>3. owed' \in Seq(Replies)  BY <1>4, <1>5, <2>1
    <2> QED  BY <1>4, <2>1, <2>2, <2>3, NoScThere
  <1>7. /\ h2c' \in Seq(ToldUp) /\ h2c' \in Seq(Told) /\ Has(h2c, ScReq)
        /\ Lone(h2c, ScReq) => ~Has(h2c', ScReq)
        /\ \A k \in QueryKinds : m # AnswerTo[k]
    <2>1. Has(h2c, ScReq) /\ (Lone(h2c, ScReq) => ~Has(h2c', ScReq))
      BY <1>1, <1>5, ScRead DEF IsSc, m
    <2>2. CASE cam = "up"
      <3>1. m \in ToldUp /\ h2c' \in Seq(ToldUp) /\ h2c' \in Seq(Told)
        BY <1>1, <2>2, CamTakesUp DEF m
      <3>2. m.t \notin {CapexRsp, LegacyRsp}  BY <1>1 DEF ScReq, CapexRsp, LegacyRsp
      <3> QED  BY <2>1, <3>1, <3>2, ToldUpIs
    <2>3. CASE cam = "sc"
      <3>1. h2c = <<CapexRequest>>  BY <1>1, <2>3 DEF HInv, Shape
      <3>2. h2c' = <<>> /\ m = CapexRequest  BY <1>1, <3>1 DEF m
      <3> QED  BY <2>1, <3>2, FirstToldAre
    <2> QED  BY <1>1, <2>2, <2>3
  <1>8. Effect
    <2>1. Tally(h2c', AnswerTo) = Tally(h2c, AnswerTo)  BY <1>1, <1>7, CamTakes DEF m
    <2>2. Same  BY <1>1, <2>1, NothingMoves
    <2> QED  BY <1>1, <2>2 DEF Effect, Alive, hostVars
  <1>9. Typed'  BY <1>1, <1>6, <1>7 DEF HInv, Typed, Alive, hostVars
  <1>10. Shape'  BY <1>1 DEF Shape
  <1>11. Turns'
    <2>1. pc \notin PlainPcs \/ ~Alive
      BY <1>1, <1>7, NoneInEmpty DEF HInv, Turns, PlainPcs
    <2> QED  BY <1>1, <2>1 DEF Turns, hostVars, PlainPcs, LatePcs, Alive
  <1>12. OneSc'
    <2> SUFFICES ASSUME Alive PROVE OneSc'
      BY <1>1 DEF OneSc, Alive, hostVars
    <2>1. /\ Lone(h2c, ScReq) /\ Lone(c2h, ScRsp) /\ ~Has(owed, ScRsp) /\ ~Has(c2h, ScRsp)
          /\ pc \in {"capexsc", "svcsc"} /\ (pc = "svcsc" => ForService(h2c))
      BY <1>7 DEF HInv, OneSc
    <2>2. ~Has(h2c', ScReq) /\ Lone(h2c', ScReq) /\ ForService(h2c')
      BY <1>7, <2>1, NoScThere
    <2>3. pc = "svcsc" => m.b[1] = "service"
      BY <1>1, <1>5, <2>1, ScRead DEF m, IsSc
    <2>4. Lone(owed', ScRsp) /\ (pc = "svcsc" => Tells(owed', granted'))
      BY <1>a, <1>6, <2>1, <2>3
    <2>5. Tells(c2h, granted')  BY <2>1, NoScThere
    <2>6. pc' = pc /\ c2h' = c2h  BY <1>1 DEF hostVars
    <2> QED  BY <2>1, <2>2, <2>4, <2>5, <2>6 DEF OneSc
  <1> QED  BY <1>8, <1>9, <1>10, <1>11, <1>12 DEF HInv
\* Where nothing of a service connection moves, what is said of it stays.
LEMMA OneScKept ==
  ASSUME HInv, pc' = pc, cmd' = cmd, granted' = granted,
         Alive => /\ Lone(h2c', ScReq) /\ (Has(h2c', ScReq) => Has(h2c, ScReq))
                  /\ ForService(h2c) => ForService(h2c'),
         Alive => /\ Lone(owed', ScRsp) /\ (Has(owed', ScRsp) => Has(owed, ScRsp))
                  /\ \A g : Tells(owed, g) => Tells(owed', g),
         Alive => /\ Lone(c2h', ScRsp) /\ (Has(c2h', ScRsp) => Has(c2h, ScRsp))
                  /\ \A g : Tells(c2h, g) => Tells(c2h', g)
  PROVE  OneSc'
  BY DEF HInv, OneSc, Alive

LEMMA StepCamReadsQuery == HInv /\ CamReadsQuery => HInv' /\ Effect
  <1> SUFFICES ASSUME HInv, CamReadsQuery PROVE HInv' /\ Effect  OBVIOUS
  <1> DEFINE m == Head(h2c)
  <1>1. /\ h2c # <<>> /\ h2c' = Tail(h2c)
        /\ UNCHANGED <<hostVars, c2h, link, asked, cam, granted, answered>>
        /\ cam = "up" /\ m.t = Query /\ m.s # Default
    BY DEF CamReadsQuery, CamReads
  <1>2. /\ owed \in Seq(Replies) /\ h2c \in Seq(Told) /\ world \in Worlds
        /\ m \in ToldUp /\ h2c' \in Seq(ToldUp) /\ h2c' \in Seq(Told)
    BY <1>1, CamTakesUp DEF HInv, Typed
  <1>3. m.s \in Sessions
    <2>1. m.s \in 1 .. Default  BY <1>2, ToldUpIs
    <2>2. Default \in Nat  BY DEF Default
    <2> HIDE DEF m
    <2> QED  BY <1>1, <2>1, <2>2 DEF Sessions
  <1>4. \E r \in Replies : owed' = Append(owed, r) /\ ~IsSc(r, ScRsp)
    <2>1. \A b \in Listings : Msg(CapexRsp, m.s, b) \in Replies
      BY <1>3 DEF Replies
    <2>2. Msg(LegacyRsp, m.s, <<>>) \in Replies  BY <1>3 DEF Replies
    <2>3. \A t, b : ~IsSc(Msg(t, m.s, b), ScRsp)  BY <1>1, MsgIs DEF IsSc
    <2>4. CASE owed' = Append(owed, Msg(LegacyRsp, m.s, <<>>))  BY <2>2, <2>3, <2>4
    <2>5. CASE \E o \in world.offers : \E b \in Cut(CapexResponse(2, o)) :
                 owed' = Append(owed, Msg(CapexRsp, m.s, b))
      BY <1>2, <2>1, <2>3, <2>5, ListingsAre
    <2> QED  BY <2>4, <2>5 DEF CamReadsQuery
  <1>5. PICK r \in Replies : owed' = Append(owed, r) /\ ~IsSc(r, ScRsp)  BY <1>4
  <1>6. \A k \in QueryKinds : m # AnswerTo[k]
    <2>1. m.t \notin {CapexRsp, LegacyRsp}  BY <1>1 DEF Query, CapexRsp, LegacyRsp
    <2> QED  BY <1>2, <2>1, ToldUpIs
  <1>7. Effect
    <2>1. Tally(h2c', AnswerTo) = Tally(h2c, AnswerTo)  BY <1>1, <1>6, CamTakes
    <2>2. Same  BY <1>1, <2>1, NothingMoves
    <2> QED  BY <1>1, <2>2 DEF Effect, Alive, hostVars
  <1>8. Typed'  BY <1>1, <1>2, <1>5 DEF HInv, Typed, Alive, hostVars
  <1>9. Shape'  BY <1>1 DEF Shape
  <1>10. Turns'  
    <2>1. pc \notin PlainPcs \/ ~Alive  BY <1>1 DEF HInv, Turns, PlainPcs
    <2> QED  BY <1>1, <2>1 DEF Turns, hostVars, PlainPcs, LatePcs, Alive
  <1>11. OneSc'
    <2>1. Alive => Lone(h2c, ScReq) /\ Lone(owed, ScRsp) /\ Lone(c2h, ScRsp)
      BY DEF HInv, OneSc
    <2>2. Alive => /\ Lone(h2c', ScReq) /\ (Has(h2c', ScReq) => Has(h2c, ScReq))
                   /\ ForService(h2c) => ForService(h2c')
      BY <1>1, <2>1, CamTakesUp
    <2>3. Alive => /\ Lone(owed', ScRsp) /\ (Has(owed', ScRsp) => Has(owed, ScRsp))
                   /\ \A g : Tells(owed, g) => Tells(owed', g)
      BY <1>2, <1>5, <2>1, ScSent
    <2>4. pc' = pc /\ cmd' = cmd /\ granted' = granted /\ c2h' = c2h  BY <1>1 DEF hostVars
    <2> QED  BY <2>1, <2>2, <2>3, <2>4, OneScKept
  <1> QED  BY <1>7, <1>8, <1>9, <1>10, <1>11 DEF HInv

\* The camera reads an answer: it stays given.
LEMMA StepCamReadsAnswer == HInv /\ CamReadsAnswer => HInv' /\ Effect
  <1> SUFFICES ASSUME HInv, CamReadsAnswer PROVE HInv' /\ Effect  OBVIOUS
  <1> DEFINE m == Head(h2c)
             k == <<IF m.t = CapexRsp THEN Query ELSE LegacyQuery, m.s>>
  <1>1. /\ h2c # <<>> /\ h2c' = Tail(h2c)
        /\ UNCHANGED <<hostVars, c2h, link, asked, cam, owed, granted>>
        /\ cam = "up" /\ m.t \in {CapexRsp, LegacyRsp} /\ k \in QueryKinds
        /\ answered' = [answered EXCEPT ![k] = @ + 1]
    BY DEF CamReadsAnswer, CamReads
  <1>2. /\ h2c \in Seq(Told) /\ m \in ToldUp /\ h2c' \in Seq(ToldUp) /\ h2c' \in Seq(Told)
    BY <1>1, CamTakesUp DEF HInv, Typed
  <1>3. m = AnswerTo[k]
    <2>1. PICK j \in QueryKinds : m = AnswerTo[j]  BY <1>1, <1>2, ToldUpIs
    <2>2. m.t = AnswerKind(j[1]) /\ m.s = j[2]  BY <2>1, QuestionIs, MsgIs
    <2>3. j = <<j[1], j[2]>> /\ j[1] \in {Query, LegacyQuery}  BY KindsTyped
    <2>4. (IF m.t = CapexRsp THEN Query ELSE LegacyQuery) = j[1]
      BY <2>2, <2>3 DEF AnswerKind, Query, LegacyQuery, CapexRsp, LegacyRsp
    <2>5. k = j  BY <2>2, <2>3, <2>4
    <2> QED  BY <2>1, <2>5
  <1> HIDE DEF m, k
  <1>4. Tally(h2c', AnswerTo) = [Tally(h2c, AnswerTo) EXCEPT ![k] = @ - 1]
    BY <1>1, <1>2, <1>3, TallyRead, BothApart DEF m
  <1>5. Effect
    <2>1. Given' = Given
      <3>1. Typed  BY DEF HInv
      <3> QED  BY <1>1, <1>4, <3>1, OneRead
    <2>2. Waiting' = Waiting  BY <1>1, Tallied, TalliedNext
    <2> QED  BY <1>1, <2>1, <2>2 DEF Effect, Same, Alive, hostVars
  <1>6. Typed'
    <2>1. answered' \in [QueryKinds -> Nat]  BY <1>1 DEF HInv, Typed
    <2> QED  BY <1>1, <1>2, <2>1 DEF HInv, Typed, Alive, hostVars
  <1>7. Shape'  BY <1>1 DEF Shape
  <1>8. Turns'  
    <2>1. pc \notin PlainPcs \/ ~Alive  BY <1>1 DEF HInv, Turns, PlainPcs
    <2> QED  BY <1>1, <2>1 DEF Turns, hostVars, PlainPcs, LatePcs, Alive
  <1>9. OneSc'
    <2>1. Alive => Lone(h2c, ScReq) /\ Lone(owed, ScRsp) /\ Lone(c2h, ScRsp)
      BY DEF HInv, OneSc
    <2>2. Alive => /\ Lone(h2c', ScReq) /\ (Has(h2c', ScReq) => Has(h2c, ScReq))
                   /\ ForService(h2c) => ForService(h2c')
      BY <1>1, <2>1, CamTakesUp
    <2>3. /\ pc' = pc /\ cmd' = cmd /\ granted' = granted /\ c2h' = c2h /\ owed' = owed
      BY <1>1 DEF hostVars
    <2> QED  BY <2>1, <2>2, <2>3, OneScKept
  <1> QED  BY <1>5, <1>6, <1>7, <1>8, <1>9 DEF HInv
\* What the camera sends once it is up joins what the host will read.
LEMMA UpSent ==
  ASSUME HInv, cam = "up", NEW m \in SaidUp, c2h' = Append(c2h, m),
         UNCHANGED <<hostVars, h2c, cam>>, owed' \in Seq(Replies),
         asked' \in [QueryKinds -> Nat], answered' \in [QueryKinds -> Nat]
  PROVE  Typed' /\ Shape' /\ Turns'
  <1>1. c2h \in Seq(Said) /\ m \in Said /\ c2h' \in Seq(Said)  BY DEF HInv, Typed, Said
  <1>2. pc \notin PlainPcs \/ ~Alive  BY DEF HInv, Turns, PlainPcs
  <1>3. Alive => c2h \in Seq(SaidUp) /\ c2h' \in Seq(SaidUp)
    BY <1>2 DEF HInv, Typed
  <1>4. Typed'
    BY <1>1, <1>2, <1>3 DEF HInv, Typed, Alive, hostVars
  <1>5. Shape'  BY DEF Shape
  <1>6. Turns'
    BY <1>2 DEF Turns, hostVars, PlainPcs, LatePcs, Alive
  <1> QED  BY <1>4, <1>5, <1>6

LEMMA StepCamReplies == HInv /\ CamReplies => HInv' /\ Effect
  <1> SUFFICES ASSUME HInv, CamReplies PROVE HInv' /\ Effect  OBVIOUS
  <1> DEFINE m == Head(owed)
  <1>1. /\ owed # <<>> /\ owed' = Tail(owed) /\ c2h' = Append(c2h, m)
        /\ UNCHANGED <<hostVars, h2c, link, cam, granted, asked, answered>>
    BY DEF CamReplies
  <1>2. /\ owed \in Seq(Replies) /\ m \in Replies /\ m \in SaidUp /\ m \in Said
        /\ owed' \in Seq(Replies) /\ c2h \in Seq(Said) /\ cam = "up"
    BY <1>1 DEF HInv, Typed, SaidUp, Said
  <1>3. \A k \in QueryKinds : m # Question[k]
    <2>1. ~IsQuery(m)
      BY <1>2, RepliesAre DEF IsQuery, Query, LegacyQuery, CapexRsp, LegacyRsp
    <2> QED  BY <1>2, <2>1, SaidUpIs
  <1>4. Effect
    <2>1. Tally(c2h', Question) = Tally(c2h, Question)  BY <1>1, <1>2, <1>3, TallySent, BothApart
    <2>2. Same  BY <1>1, <2>1, NothingMoves
    <2> QED  BY <1>1, <2>2 DEF Effect, Alive, hostVars
  <1>5. Typed' /\ Shape' /\ Turns'
    <2>1. asked' \in [QueryKinds -> Nat] /\ answered' \in [QueryKinds -> Nat]
      BY <1>1 DEF HInv, Typed
    <2> QED  BY <1>1, <1>2, <2>1, UpSent
  <1>6. OneSc'
    <2> SUFFICES ASSUME Alive PROVE OneSc'  BY <1>1 DEF OneSc, Alive, hostVars
    <2> HIDE DEF m
    <2>1. /\ Lone(h2c, ScReq) /\ Lone(owed, ScRsp) /\ Lone(c2h, ScRsp)
          /\ Has(owed, ScRsp) => ~Has(c2h, ScRsp)
      BY DEF HInv, OneSc
    <2>2. /\ Lone(owed', ScRsp) /\ (Has(owed', ScRsp) => Has(owed, ScRsp))
          /\ IsSc(m, ScRsp) => Has(owed, ScRsp) /\ ~Has(owed', ScRsp)
          /\ \A g : Tells(owed, g) => Tells(owed', g)
          /\ \A g : Tells(owed, g) /\ IsSc(m, ScRsp) => Says(m.b, g)
      BY <1>1, <1>2, <2>1, ScRead DEF m
    <2>3. /\ Lone(c2h', ScRsp) /\ (Has(c2h', ScRsp) <=> Has(c2h, ScRsp) \/ IsSc(m, ScRsp))
          /\ \A g : Tells(c2h, g) /\ (IsSc(m, ScRsp) => Says(m.b, g)) => Tells(c2h', g)
      BY <1>1, <1>2, <2>1, <2>2, ScSent
    <2>4. pc' = pc /\ cmd' = cmd /\ granted' = granted /\ h2c' = h2c  BY <1>1 DEF hostVars
    <2> QED  BY <2>1, <2>2, <2>3, <2>4 DEF HInv, OneSc, Alive
  <1> QED  BY <1>4, <1>5, <1>6 DEF HInv

\* A question goes under way.
LEMMA StepCamAsks == HInv /\ CamAsks => HInv' /\ Effect
  <1> SUFFICES ASSUME HInv, CamAsks PROVE HInv' /\ Effect  OBVIOUS
  <1>1. cam = "up" /\ UNCHANGED <<hostVars, h2c, link, cam, owed, granted, answered>>
    BY DEF CamAsks, MayAsk
  <1>2. PICK k \in {Query, LegacyQuery} \X QuerySessions(world) :
          /\ c2h' = Append(c2h, Msg(k[1], k[2], <<>>))
          /\ asked' = [asked EXCEPT ![k] = @ + 1]
    BY DEF CamAsks, MayAsk
  <1>3. k \in QueryKinds /\ Question[k] = Msg(k[1], k[2], <<>>)
    <2>1. world \in Worlds  BY DEF HInv, Typed
    <2> QED  BY <2>1, QuestionIs DEF QueryKinds
  <1>4. /\ Question[k] \in SaidUp /\ Question[k] \in Said /\ c2h \in Seq(Said)
        /\ c2h' = Append(c2h, Question[k]) /\ ~IsSc(Question[k], ScRsp)
    <2>1. Question[k] \in SaidUp  BY <1>3 DEF SaidUp
    <2>2. IsQuery(Question[k])  BY <1>3, QuestionsAre DEF IsQuery
    <2> QED  BY <1>2, <1>3, <2>1, <2>2, SaidUpIs DEF HInv, Typed, Said
  <1>5. Effect
    <2>1. Tally(c2h', Question) = [Tally(c2h, Question) EXCEPT ![k] = @ + 1]
      BY <1>3, <1>4, TallySent, BothApart
    <2>2. Waiting' = [Waiting EXCEPT ![k] = @ + 1]  BY <2>1, Tallied, TalliedNext
    <2>3. Given' = Given  BY <1>1, Tallied, TalliedNext
    <2>4. Puts(k)  BY <1>2, <2>2, <2>3 DEF Puts
    <2> QED  BY <1>1, <1>3, <2>4 DEF Effect, Alive, hostVars
  <1>6. Typed' /\ Shape' /\ Turns'
    <2>1. /\ asked' \in [QueryKinds -> Nat] /\ answered' \in [QueryKinds -> Nat]
          /\ owed' \in Seq(Replies)
      BY <1>1, <1>2, <1>3 DEF HInv, Typed
    <2> QED  BY <1>1, <1>4, <2>1, UpSent
  <1>7. OneSc'
    <2>1. Alive => Lone(h2c, ScReq) /\ Lone(owed, ScRsp) /\ Lone(c2h, ScRsp)
      BY DEF HInv, OneSc
    <2>2. Alive => /\ Lone(c2h', ScRsp) /\ (Has(c2h', ScRsp) => Has(c2h, ScRsp))
                   /\ \A g : Tells(c2h, g) => Tells(c2h', g)
      BY <1>4, <2>1, ScSent
    <2>3. /\ pc' = pc /\ cmd' = cmd /\ granted' = granted /\ h2c' = h2c /\ owed' = owed
      BY <1>1 DEF hostVars
    <2> QED  BY <2>1, <2>2, <2>3, OneScKept
  <1> QED  BY <1>5, <1>6, <1>7 DEF HInv

LEMMA StepLinkDrops == HInv /\ LinkDrops => HInv' /\ Effect
  <1> SUFFICES ASSUME HInv, LinkDrops PROVE HInv' /\ Effect  OBVIOUS
  <1>1. UNCHANGED <<hostVars, c2h, h2c, camVars>>  BY DEF LinkDrops
  <1>2. Same  BY <1>1, NothingMoves DEF camVars
  <1> QED  BY <1>1, <1>2 DEF HInv, Typed, Shape, Turns, OneSc, Effect, Alive, hostVars, camVars

\* The first bytes of a frame are no message yet.
LEMMA TearsLeave ==
  CamTears => /\ UNCHANGED <<hostVars, c2h, h2c, link, cam, owed, granted, asked, answered>>
              /\ UNCHANGED <<world, pc, n, handled, csid, acceptor, cmd>>
  BY DEF CamTears, hostVars

LEMMA StepCamTears == HInv /\ CamTears => HInv' /\ Effect
  <1> SUFFICES ASSUME HInv, CamTears PROVE HInv' /\ Effect  OBVIOUS
  <1>1. /\ UNCHANGED <<hostVars, c2h, h2c, link, cam, owed, granted, asked, answered>>
        /\ UNCHANGED <<world, pc, n, handled, csid, acceptor, cmd>>
    BY TearsLeave
  <1>2. Same  BY <1>1, NothingMoves
  <1> QED  BY <1>1, <1>2 DEF HInv, Typed, Shape, Turns, OneSc, Effect, Alive
-----------------------------------------------------------------------------
(* The host's steps: plain frames.                                         *)

LEMMA HostFails ==
  ASSUME HInv, pc' = "failed", h2c' = h2c, acceptor' = acceptor, UNCHANGED camVars,
         c2h' \in Seq(Said)
  PROVE  HInv'
  <1>1. Typed'  BY DEF HInv, Typed, camVars, Alive, PlainPcs, LatePcs
  <1>2. Shape'  BY DEF HInv, Shape, camVars
  <1>3. Turns'  BY DEF Turns, LatePcs
  <1>4. OneSc'  BY DEF OneSc, Alive
  <1> QED  BY <1>1, <1>2, <1>3, <1>4 DEF HInv

\* A plain frame read takes what is under way, or all but the last.
LEMMA PlainTaken ==
  ASSUME HInv, pc \in PlainPcs, c2h # <<>>,
         \E k \in 1 .. Len(c2h) : c2h' = SubSeq(c2h, k + 1, Len(c2h))
  PROVE  /\ c2h' \in Seq(SaidPlain) /\ c2h' \in Seq(Said)
         /\ Tally(c2h', Question) = Tally(c2h, Question)
         /\ \A x : c2h = <<x>> => c2h' = <<>>
         /\ \A x, y : c2h = <<x, y>> => c2h' = <<>> \/ c2h' = <<y>>
  <1>1. c2h \in Seq(SaidPlain)  BY PlainPhase
  <1>2. PICK k \in 1 .. Len(c2h) : c2h' = SubSeq(c2h, k + 1, Len(c2h))  OBVIOUS
  <1>3. Len(c2h) \in Nat /\ \A i \in 1 .. Len(c2h) : c2h[i] \in SaidPlain  BY <1>1
  <1>4. /\ k + 1 \in Int /\ Len(c2h) \in Int
        /\ \A i \in k + 1 .. Len(c2h) : c2h[i] \in SaidPlain
    BY <1>3
  <1>5. /\ c2h' \in Seq(SaidPlain)
        /\ Len(c2h') = IF k + 1 <= Len(c2h) THEN Len(c2h) - (k + 1) + 1 ELSE 0
        /\ \A i \in 1 .. Len(c2h) - (k + 1) + 1 : c2h'[i] = c2h[k + 1 + i - 1]
    <2>1. /\ SubSeq(c2h, k + 1, Len(c2h)) \in Seq(SaidPlain)
          /\ Len(SubSeq(c2h, k + 1, Len(c2h)))
               = IF k + 1 <= Len(c2h) THEN Len(c2h) - (k + 1) + 1 ELSE 0
          /\ \A i \in 1 .. Len(c2h) - (k + 1) + 1 :
               SubSeq(c2h, k + 1, Len(c2h))[i] = c2h[k + 1 + i - 1]
      BY <1>4, SubSeqProperties
    <2> QED  BY <1>2, <2>1, Zenon
  <1>6. c2h' \in Seq(Said)
    <2>1. SaidPlain \subseteq Said  BY DEF Said
    <2> QED  BY <1>5, <2>1, SeqMonotonic
  <1>7. Tally(c2h', Question) = Tally(c2h, Question)  BY <1>1, <1>5, PlainQuiet
  <1>8. ASSUME NEW x, c2h = <<x>> PROVE c2h' = <<>>
    <2>1. Len(c2h) = 1 /\ k = 1  BY <1>8
    <2>2. Len(c2h') = 0  BY <1>5, <2>1
    <2> QED  BY <1>5, <2>2
  <1>9. ASSUME NEW x, NEW y, c2h = <<x, y>> PROVE c2h' = <<>> \/ c2h' = <<y>>
    <2>1. Len(c2h) = 2 /\ k \in {1, 2} /\ c2h[2] = y /\ y \in SaidPlain  BY <1>1, <1>9
    <2>2. CASE k = 1
      <3>1. Len(c2h') = 1 /\ c2h'[1] = y  BY <1>5, <2>1, <2>2
      <3>2. <<y>> \in Seq(SaidPlain) /\ Len(<<y>>) = 1 /\ <<y>>[1] = y  BY <2>1
      <3> DEFINE a == c2h'
                 b == <<y>>
      <3>3. /\ a \in Seq(SaidPlain) /\ Len(a) = 1 /\ a[1] = y
            /\ b \in Seq(SaidPlain) /\ Len(b) = 1 /\ b[1] = y
        BY <1>5, <3>1, <3>2
      <3> HIDE DEF a, b
      <3>4. \A i \in 1 .. Len(a) : a[i] = b[i]  BY <3>3
      <3>5. a = b  BY <3>3, <3>4, SeqEqual
      <3> QED  BY <3>5 DEF a, b
    <2>3. CASE k = 2
      <3>1. Len(c2h') = 0  BY <1>5, <2>1, <2>3
      <3> QED  BY <1>5, <3>1
    <2> QED  BY <2>1, <2>2, <2>3
  <1> QED  BY <1>5, <1>6, <1>7, <1>8, <1>9

PlainActs == ReadPd \/ ReadPdOk \/ ReadAuthReq \/ ReadConfirm \/ PlainNone

\* Where a plain frame leads.
PlainLeads ==
  \/ pc' = "failed" /\ h2c' = h2c
  \/ /\ pc = "pd" /\ pc' = "pdok" /\ cam = "rsp"
     /\ h2c' = <<Plain(PdRsp)>> /\ c2h' = <<>>
  \/ /\ pc = "pdok" /\ pc' = "authreq" /\ h2c' = h2c
     /\ \/ cam = "chal" /\ c2h' = <<>>
        \/ cam = "auth" /\ c2h' \in {<<>>, <<Plain(AuthReq)>>}
  \/ /\ pc \in {"pdok", "authreq"} /\ pc' = "confirm" /\ cam = "auth"
     /\ h2c' = <<Plain(AuthRsp)>> /\ c2h' = <<>>
  \/ /\ pc = "confirm" /\ pc' = "capexsc" /\ cam = "sc"
     /\ h2c' = <<CapexRequest>> /\ c2h' = <<>>

LEMMA PlainActsLead ==
  ASSUME HInv, PlainActs
  PROVE  /\ PlainLeads /\ pc \in PlainPcs /\ UNCHANGED <<acceptor, camVars>>
         /\ c2h' \in Seq(Said) /\ Tally(c2h', Question) = Tally(c2h, Question)
  <1>1. CASE PlainNone
    <2>1. pc \in PlainPcs /\ pc' = "failed" /\ UNCHANGED <<acceptor, c2h, h2c, camVars>>
      BY <1>1 DEF PlainNone, Fail, PlainPcs
    <2> QED  BY <2>1 DEF PlainLeads, HInv, Typed
  <1>2. CASE ReadPd \/ ReadPdOk \/ ReadAuthReq \/ ReadConfirm
    <2>1. /\ pc \in PlainPcs /\ c2h # <<>> /\ UNCHANGED camVars
          /\ \E k \in 1 .. Len(c2h) : c2h' = SubSeq(c2h, k + 1, Len(c2h))
      BY <1>2 DEF ReadPd, ReadPdOk, ReadAuthReq, ReadConfirm, PlainFrame, PlainPcs
    <2>2. /\ c2h' \in Seq(Said) /\ Tally(c2h', Question) = Tally(c2h, Question)
          /\ \A x : c2h = <<x>> => c2h' = <<>>
          /\ \A x, y : c2h = <<x, y>> => c2h' = <<>> \/ c2h' = <<y>>
      BY <2>1, PlainTaken
    <2>3. acceptor' = acceptor
      BY <1>2 DEF ReadPd, ReadPdOk, ReadAuthReq, ReadConfirm, TakeChallenge, Say, Fail, Goto
    <2>4. \A t : Plain(t).t = t  BY MsgIs DEF Plain
    <2>5. \A x, y : Head(<<x>>) = x /\ Head(<<x, y>>) = x  OBVIOUS
    <2>6. \A x : Append(<<>>, x) = <<x>>  OBVIOUS
    <2>7. PlainLeads
      <3>1. CASE ReadPd
        <4>1. /\ pc = "pd" /\ cam = "rsp" /\ h2c = <<>> /\ c2h = <<Plain(PdReq)>>
          BY <2>1, <3>1 DEF ReadPd, PlainFrame, HInv, Turns
        <4>2. c2h' = <<>>  BY <2>2, <4>1
        <4>3. \/ h2c' = Append(h2c, Plain(PdRsp)) /\ pc' = "pdok"
              \/ h2c' = h2c /\ pc' = "failed"
          BY <3>1 DEF ReadPd, Say, Goto, Fail, Plain
        <4> QED  BY <2>6, <4>1, <4>2, <4>3 DEF PlainLeads
      <3>2. CASE ReadPdOk
        <4>1. pc = "pdok"  BY <3>2 DEF ReadPdOk, PlainFrame
        <4>2. /\ h2c = <<>>
              /\ \/ cam = "chal" /\ c2h = <<Plain(PdOk)>>
                 \/ cam = "auth" /\ c2h = <<Plain(AuthReq)>>
                 \/ cam = "auth" /\ c2h = <<Plain(PdOk), Plain(AuthReq)>>
          BY <2>1, <4>1 DEF HInv, Turns
        <4>3. CASE c2h = <<Plain(AuthReq)>>
          <5>1. c2h' = <<>> /\ cam = "auth" /\ Head(c2h).t = AuthReq
            <6>1. Plain(AuthReq) # Plain(PdOk)  BY <2>4 DEF AuthReq, PdOk
            <6> QED  BY <2>2, <2>4, <2>5, <4>2, <4>3, <6>1
          <5>2. \/ h2c' = Append(h2c, Plain(AuthRsp)) /\ pc' = "confirm"
                \/ h2c' = h2c /\ pc' = "failed"
            BY <3>2, <5>1
               DEF ReadPdOk, TakeChallenge, Say, Goto, Fail, Plain, AuthReq, PdOk
          <5> QED  BY <2>6, <4>1, <4>2, <5>1, <5>2 DEF PlainLeads
        <4>4. CASE c2h # <<Plain(AuthReq)>>
          <5>1. Head(c2h).t = PdOk  BY <2>4, <2>5, <4>2, <4>4
          <5>2. h2c' = h2c /\ pc' = "authreq"  BY <3>2, <5>1 DEF ReadPdOk, Goto
          <5>3. \/ cam = "chal" /\ c2h' = <<>>
                \/ cam = "auth" /\ c2h' \in {<<>>, <<Plain(AuthReq)>>}
            BY <2>2, <4>2, <4>4
          <5> QED  BY <4>1, <5>2, <5>3 DEF PlainLeads
        <4> QED  BY <4>3, <4>4
      <3>3. CASE ReadAuthReq
        <4>1. /\ pc = "authreq" /\ cam = "auth" /\ h2c = <<>> /\ c2h = <<Plain(AuthReq)>>
          BY <2>1, <3>3 DEF ReadAuthReq, PlainFrame, HInv, Turns
        <4>2. c2h' = <<>>  BY <2>2, <4>1
        <4>3. \/ h2c' = Append(h2c, Plain(AuthRsp)) /\ pc' = "confirm"
              \/ h2c' = h2c /\ pc' = "failed"
          BY <3>3 DEF ReadAuthReq, TakeChallenge, Say, Goto, Fail, Plain
        <4> QED  BY <2>6, <4>1, <4>2, <4>3 DEF PlainLeads
      <3>4. CASE ReadConfirm
        <4>1. /\ pc = "confirm" /\ cam = "sc" /\ h2c = <<>> /\ c2h = <<Plain(AuthConf)>>
          BY <2>1, <3>4 DEF ReadConfirm, PlainFrame, HInv, Turns
        <4>2. c2h' = <<>>  BY <2>2, <4>1
        <4>3. \/ h2c' = Append(h2c, CapexRequest) /\ pc' = "capexsc"
              \/ h2c' = h2c /\ pc' = "failed"
          BY <3>4 DEF ReadConfirm, Say, Goto, Fail, CapexRequest
        <4> QED  BY <2>6, <4>1, <4>2, <4>3 DEF PlainLeads
      <3> QED  BY <1>2, <3>1, <3>2, <3>3, <3>4
    <2> QED  BY <2>1, <2>2, <2>3, <2>7
  <1> QED  BY <1>1, <1>2 DEF PlainActs

LEMMA StepPlain == HInv /\ PlainActs => HInv' /\ Effect
  <1> SUFFICES ASSUME HInv, PlainActs PROVE HInv' /\ Effect  OBVIOUS
  <1> DEFINE First == {CapexRequest, Plain(PdRsp), Plain(AuthRsp)}
  <1>1. /\ PlainLeads /\ pc \in PlainPcs /\ UNCHANGED <<acceptor, camVars>>
        /\ c2h' \in Seq(Said) /\ Tally(c2h', Question) = Tally(c2h, Question)
    BY PlainActsLead
  <1>2. \/ h2c' = h2c
        \/ h2c = <<>> /\ \E x \in First : h2c' = <<x>>
    BY <1>1 DEF PlainLeads, HInv, Turns
  <1>3. Tally(h2c', AnswerTo) = Tally(h2c, AnswerTo)
    <2>1. \A k \in QueryKinds : AnswerTo[k] \notin First  BY FirstToldAre
    <2>2. <<>> \in Seq(First) /\ \A x \in First : <<x>> \in Seq(First)  OBVIOUS
    <2> HIDE DEF First
    <2> QED  BY <1>2, <2>1, <2>2, TallyNone
  <1>4. Same  BY <1>1, <1>3, NothingMoves DEF camVars
  <1>5. Alive  BY <1>1 DEF Alive, PlainPcs
  <1>6. Effect  BY <1>4, <1>5 DEF Effect
  <1>7. CASE pc' = "failed" /\ h2c' = h2c
    BY <1>1, <1>6, <1>7, HostFails
  <1>8. CASE ~(pc' = "failed" /\ h2c' = h2c)
    <2>1. /\ pc' \in {"pdok", "authreq", "confirm", "capexsc"}
          /\ h2c' \in Seq(Told) /\ cam # "up" /\ cam' = cam /\ owed' = <<>>
          /\ pc' = "capexsc" => c2h' = <<>> /\ h2c' = <<CapexRequest>>
          /\ pc' # "capexsc" => h2c' = <<>> \/ \E x \in First \ {CapexRequest} : h2c' = <<x>>
      <3>1. \A x \in First : x \in Told /\ <<x>> \in Seq(Told)  BY FirstToldAre
      <3>2. Plain(PdRsp) # CapexRequest /\ Plain(AuthRsp) # CapexRequest
        BY MsgIs DEF CapexRequest, Plain, Default
      <3>3. h2c \in Seq(Told) /\ cam # "up"
        BY <1>1 DEF HInv, Typed, Turns, PlainPcs
      <3>4. /\ pc' \in {"pdok", "authreq", "confirm", "capexsc"}
            /\ cam' = cam
            /\ pc' = "capexsc" => c2h' = <<>> /\ h2c' = <<CapexRequest>>
        BY <1>1, <1>8 DEF PlainLeads, camVars
      <3>5. owed' = <<>>  BY <1>1, <3>3 DEF HInv, Typed, camVars
      <3>6. h2c' \in Seq(Told)  BY <1>2, <3>1, <3>3
      <3>7. pc' # "capexsc" => h2c' = <<>> \/ \E x \in First \ {CapexRequest} : h2c' = <<x>>
        BY <1>1, <1>8, <3>2 DEF PlainLeads, HInv, Turns
      <3> QED  BY <3>3, <3>4, <3>5, <3>6, <3>7
    <2>2. Typed'
      BY <1>1, <2>1 DEF HInv, Typed, camVars, Alive, PlainPcs, LatePcs
    <2>3. Shape'
      BY <1>1, <1>8, <2>1 DEF HInv, Shape, Turns, PlainLeads, camVars
    <2>4. Turns'
      BY <1>1, <1>8, <2>1 DEF HInv, Turns, PlainLeads, camVars, LatePcs
    <2>5. OneSc'
      <3>1. ~Has(c2h', ScRsp)
        <4>1. CASE pc' = "capexsc"  BY <2>1, <4>1, NoneInEmpty
        <4>2. CASE pc' # "capexsc"
          <5>1. pc' \in PlainPcs  BY <2>1, <4>2 DEF PlainPcs
          <5>2. \/ c2h' = <<>> \/ c2h' = <<Plain(AuthReq)>>
            BY <1>1, <1>8, <4>2 DEF PlainLeads
          <5>3. <<>> \in Seq(SaidPlain) /\ <<Plain(AuthReq)>> \in Seq(SaidPlain)
            BY DEF SaidPlain
          <5>4. c2h' \in Seq(SaidPlain)  BY <5>2, <5>3
          <5> QED  BY <5>4, PlainQuiet
        <4> QED  BY <4>1, <4>2
      <3>2. ~Has(owed', ScRsp)  BY <2>1, NoneInEmpty
      <3>3. Lone(h2c', ScReq) /\ (pc' # "capexsc" => ~Has(h2c', ScReq))
        <4>1. \A x : DOMAIN <<x>> = {1} /\ <<x>>[1] = x  OBVIOUS
        <4>2. \A x : Lone(<<x>>, ScReq)  BY <4>1 DEF Lone
        <4>3. \A x \in First \ {CapexRequest} : ~Has(<<x>>, ScReq)
          BY <4>1, FirstToldAre DEF Has
        <4>4. ~Has(<<>>, ScReq) /\ Lone(<<>>, ScReq)  BY NoneInEmpty, NoScThere
        <4> HIDE DEF First
        <4> QED  BY <2>1, <4>2, <4>3, <4>4
      <3>4. Lone(owed', ScRsp) /\ Lone(c2h', ScRsp)  BY <3>1, <3>2, NoScThere
      <3> QED  BY <2>1, <3>1, <3>2, <3>3, <3>4 DEF OneSc
    <2> QED  BY <1>6, <2>2, <2>3, <2>4, <2>5 DEF HInv
  <1> QED  BY <1>7, <1>8
-----------------------------------------------------------------------------
(* The host's steps: frames of the sessions.                               *)

\* Where the host is when the camera is up.
LEMMA HostGoesOn ==
  ASSUME HInv, cam = "up", UNCHANGED camVars,
         c2h' \in Seq(SaidUp), h2c' \in Seq(ToldUp),
         pc' \in {"capexsc", "failed"} \cup LatePcs, acceptor' \in Acceptors,
         pc' \in {"serve", "ask"} => csid' \in Sessions
  PROVE  Typed' /\ Shape' /\ Turns'
  <1>1. c2h' \in Seq(Said) /\ h2c' \in Seq(Told)
    <2>1. SaidUp \subseteq Said /\ ToldUp \subseteq Told  BY DEF Said, Told
    <2> QED  BY <2>1, SeqMonotonic
  <1>2. cam' = "up"  BY DEF camVars
  <1>3. Typed'  BY <1>1, <1>2 DEF HInv, Typed, camVars
  <1>4. Shape'  BY <1>2 DEF Shape
  <1>5. Turns'  BY <1>2 DEF Turns, LatePcs
  <1> QED  BY <1>3, <1>4, <1>5

\* The host moves on, and no service connection with it.
LEMMA OneScGoesOn ==
  ASSUME HInv, Alive, UNCHANGED camVars, pc' # "connected",
         pc' = pc \/ {pc, pc'} \cap {"capexsc", "svcsc"} = {},
         Lone(h2c', ScReq), Has(h2c', ScReq) => Has(h2c, ScReq),
         ForService(h2c) => ForService(h2c'),
         Lone(c2h', ScRsp), Has(c2h', ScRsp) => Has(c2h, ScRsp),
         \A g : Tells(c2h, g) => Tells(c2h', g)
  PROVE  OneSc'
  <1>1. owed' = owed /\ granted' = granted  BY DEF camVars
  <1> QED  BY <1>1 DEF HInv, OneSc

SlpPcs == {"capexsc", "serve", "query", "svcsc"}

\* A frame of a session is read: a query is answered.
Reads == /\ c2h # <<>> /\ c2h' = Tail(c2h) /\ UNCHANGED camVars
         /\ h2c' = IF IsQuery(Head(c2h)) THEN Append(h2c, Answer(Head(c2h))) ELSE h2c

LEMMA UpWhenRead ==
  ASSUME HInv, pc \in SlpPcs, c2h # <<>>
  PROVE  /\ cam = "up" /\ Alive /\ c2h \in Seq(SaidUp) /\ c2h \in Seq(Said)
         /\ h2c \in Seq(ToldUp) /\ h2c \in Seq(Told)
         /\ Head(c2h) \in SaidUp /\ Tail(c2h) \in Seq(SaidUp)
  <1>1. cam = "up"  BY DEF HInv, Turns, SlpPcs, LatePcs
  <1>2. Alive /\ pc \notin PlainPcs  BY DEF SlpPcs, PlainPcs, Alive
  <1>3. c2h \in Seq(SaidUp) /\ c2h \in Seq(Said) /\ h2c \in Seq(ToldUp) /\ h2c \in Seq(Told)
    BY <1>1, <1>2 DEF HInv, Typed
  <1> QED  BY <1>1, <1>2, <1>3

LEMMA AnswerGiven ==
  ASSUME HInv, pc \in SlpPcs, Reads
  PROVE  /\ h2c' \in Seq(ToldUp)
         /\ IF IsQuery(Head(c2h)) THEN \E k \in QueryKinds : Gives(k) ELSE Same
         /\ Lone(h2c, ScReq) => Lone(h2c', ScReq)
         /\ Has(h2c', ScReq) => Has(h2c, ScReq)
         /\ ForService(h2c) => ForService(h2c')
  <1> DEFINE m == Head(c2h)
  <1>1. /\ c2h # <<>> /\ c2h' = Tail(c2h) /\ UNCHANGED camVars
        /\ c2h \in Seq(Said) /\ h2c \in Seq(ToldUp) /\ h2c \in Seq(Told) /\ m \in SaidUp
    BY UpWhenRead DEF Reads
  <1>2. UNCHANGED <<asked, answered>>  BY <1>1 DEF camVars
  <1>3. CASE ~IsQuery(m)
    <2>1. h2c' = h2c /\ \A k \in QueryKinds : m # Question[k]
      BY <1>1, <1>3, SaidUpIs DEF Reads
    <2>2. Tally(c2h', Question) = Tally(c2h, Question)  BY <1>1, <2>1, TallyRead, BothApart
    <2>3. Same  BY <1>2, <2>1, <2>2, NothingMoves
    <2> QED  BY <1>1, <1>3, <2>1, <2>3
  <1>4. CASE IsQuery(m)
    <2>1. PICK k \in QueryKinds : m = Question[k]  BY <1>1, <1>4, SaidUpIs
    <2>2. h2c' = Append(h2c, AnswerTo[k]) /\ AnswerTo[k] \in ToldUp /\ AnswerTo[k] \in Told
      BY <1>4, <2>1, QuestionsAre DEF Reads, ToldUp, Told
    <2>3. ~IsSc(AnswerTo[k], ScReq)
      BY QuestionsAre DEF IsSc, ScReq, CapexRsp, LegacyRsp
    <2> HIDE DEF m
    <2>4. /\ h2c' \in Seq(ToldUp) /\ (Lone(h2c, ScReq) => Lone(h2c', ScReq))
          /\ Has(h2c', ScReq) => Has(h2c, ScReq)
          /\ ForService(h2c) => ForService(h2c')
      BY <1>1, <2>2, <2>3, ScSent
    <2>5. /\ Tally(c2h, Question)[k] > 0
          /\ Tally(c2h', Question) = [Tally(c2h, Question) EXCEPT ![k] = @ - 1]
      BY <1>1, <2>1, TallyRead, BothApart DEF m
    <2>6. Tally(h2c', AnswerTo) = [Tally(h2c, AnswerTo) EXCEPT ![k] = @ + 1]
      <3>1. h2c \in Seq(Told) /\ AnswerTo[k] \in Told /\ Apart(AnswerTo)
        BY <1>1, <2>2, BothApart
      <3>2. Tally(Append(h2c, AnswerTo[k]), AnswerTo) = [Tally(h2c, AnswerTo) EXCEPT ![k] = @ + 1]
        BY <3>1, TallySent
      <3> QED  BY <2>2, <3>2
    <2>7. Given' = [Given EXCEPT ![k] = @ + 1]
      <3>1. Typed  BY DEF HInv
      <3> QED  BY <1>2, <2>6, <3>1, OneGiven
    <2>8. Gives(k)  BY <1>2, <2>5, <2>7, Tallied, TalliedNext DEF Gives
    <2> QED  BY <1>4, <2>4, <2>8 DEF m
  <1> QED  BY <1>3, <1>4

LEMMA RestUnderWay ==
  ASSUME HInv, pc \in SlpPcs, c2h # <<>>, c2h' = Tail(c2h)
  PROVE  /\ Lone(h2c, ScReq) /\ Lone(c2h', ScRsp)
         /\ Has(c2h', ScRsp) => Has(c2h, ScRsp)
         /\ \A g : Tells(c2h, g) => Tells(c2h', g)
         /\ IsSc(Head(c2h), ScRsp) =>
              /\ ~Has(c2h', ScRsp) /\ ~Has(h2c, ScReq) /\ ~Has(owed, ScRsp)
              /\ pc = "svcsc" => Says(Head(c2h).b, granted)
  <1>1. Alive /\ c2h \in Seq(Said)  BY UpWhenRead
  <1>2. /\ Lone(h2c, ScReq) /\ Lone(c2h, ScRsp)
        /\ Has(h2c, ScReq) => ~Has(c2h, ScRsp)
        /\ Has(owed, ScRsp) => ~Has(c2h, ScRsp)
        /\ pc = "svcsc" => Tells(c2h, granted)
    BY <1>1 DEF HInv, OneSc
  <1> QED  BY <1>1, <1>2, ScRead

\* One iteration of a loop that waits: a frame read, or none, or the end.
Leads(over) ==
  \/ /\ Reads \/ UNCHANGED <<c2h, h2c, camVars>>
     /\ pc' \in {pc, over} /\ UNCHANGED <<csid, acceptor, cmd>>
  \/ /\ c2h # <<>> /\ c2h' = Tail(c2h) /\ UNCHANGED <<h2c, camVars, acceptor>>
     /\ pc' = "failed"

Overs == {p \in SlpPcs \X {"failed", "ask", "request"} :
            p[2] # "failed" => p \in {<<"serve", "ask">>, <<"query", "request">>}}

LEMMA NoneRead ==
  ASSUME HInv, UNCHANGED <<pc, c2h, h2c, camVars, csid, acceptor, cmd>>
  PROVE  HInv'
  BY DEF HInv, Typed, Shape, Turns, OneSc, camVars, Alive

LEMMA FailedLate ==
  ASSUME HInv, cam = "up", UNCHANGED camVars, pc' = "failed", acceptor' = acceptor,
         c2h' \in Seq(SaidUp), h2c' \in Seq(ToldUp)
  PROVE  HInv'
  <1>1. acceptor' \in Acceptors  BY DEF HInv, Typed
  <1>2. OneSc'  BY DEF OneSc, Alive
  <1> QED  BY <1>1, <1>2, HostGoesOn DEF HInv

LEMMA LoopGoesOn ==
  ASSUME HInv, NEW over, <<pc, over>> \in Overs, Leads(over)
  PROVE  HInv' /\ Effect
  <1>0. /\ pc \in SlpPcs /\ over \in {"failed", "ask", "request"}
        /\ over = "ask" => pc = "serve"
        /\ over = "request" => pc = "query"
    BY DEF Overs
  <1>1. Alive  BY <1>0 DEF Alive, SlpPcs
  <1>2. acceptor \in Acceptors /\ (pc = "serve" => csid \in Sessions)
    BY DEF HInv, Typed
  <1>3. CASE Reads /\ pc' \in {pc, over} /\ UNCHANGED <<csid, acceptor, cmd>>
    <2>1. /\ cam = "up" /\ UNCHANGED camVars /\ c2h' \in Seq(SaidUp) /\ h2c' \in Seq(ToldUp)
          /\ IF IsQuery(Head(c2h)) THEN \E k \in QueryKinds : Gives(k) ELSE Same
          /\ Has(h2c', ScReq) => Has(h2c, ScReq)
          /\ ForService(h2c) => ForService(h2c')
          /\ Lone(h2c', ScReq) /\ Lone(c2h', ScRsp)
          /\ Has(c2h', ScRsp) => Has(c2h, ScRsp)
          /\ \A g : Tells(c2h, g) => Tells(c2h', g)
      BY <1>0, <1>3, AnswerGiven, RestUnderWay, UpWhenRead DEF Reads
    <2>2. Effect  BY <1>1, <2>1 DEF Effect
    <2>3. CASE pc' = "failed"  BY <1>3, <2>1, <2>2, <2>3, FailedLate
    <2>4. CASE pc' # "failed"
      <3>1. /\ pc' \in {"capexsc", "failed"} \cup LatePcs /\ pc' # "connected"
            /\ pc' \in {"serve", "ask"} => pc = "serve"
            /\ pc' = pc \/ {pc, pc'} \cap {"capexsc", "svcsc"} = {}
        BY <1>0, <1>3, <2>4 DEF SlpPcs, LatePcs
      <3>2. acceptor' \in Acceptors /\ (pc' \in {"serve", "ask"} => csid' \in Sessions)
        BY <1>2, <1>3, <3>1
      <3>3. Typed' /\ Shape' /\ Turns'  BY <2>1, <3>1, <3>2, HostGoesOn
      <3>4. OneSc'  BY <1>1, <2>1, <3>1, OneScGoesOn
      <3> QED  BY <2>2, <3>3, <3>4 DEF HInv
    <2> QED  BY <2>3, <2>4
  <1>4. CASE /\ UNCHANGED <<c2h, h2c, camVars>>
             /\ pc' \in {pc, over} /\ UNCHANGED <<csid, acceptor, cmd>>
    <2>1. Effect
      <3>1. Same  BY <1>4, NothingMoves DEF camVars
      <3> QED  BY <1>1, <3>1 DEF Effect
    <2>2. CASE pc' = pc  BY <1>4, <2>1, <2>2, NoneRead
    <2>3. CASE pc' # pc /\ over = "failed"
      <3>1. c2h \in Seq(Said)  BY DEF HInv, Typed
      <3> QED  BY <1>4, <2>1, <2>3, <3>1, HostFails
    <2>4. CASE pc' # pc /\ over # "failed"
      <3>1. /\ pc \in {"serve", "query"} /\ pc' \in {"ask", "request"}
            /\ pc' = "ask" => pc = "serve"
        BY <1>0, <1>4, <2>4
      <3>2. /\ cam = "up" /\ c2h \in Seq(SaidUp) /\ h2c \in Seq(ToldUp)
        BY <1>1, <3>1 DEF HInv, Typed, Turns, LatePcs, PlainPcs
      <3>3. Lone(h2c, ScReq) /\ Lone(c2h, ScRsp)  BY <1>1 DEF HInv, OneSc
      <3>4. Typed' /\ Shape' /\ Turns'
        <4>1. acceptor' \in Acceptors /\ (pc' \in {"serve", "ask"} => csid' \in Sessions)
          BY <1>2, <1>4, <3>1
        <4>2. pc' \in {"capexsc", "failed"} \cup LatePcs  BY <3>1 DEF LatePcs
        <4> QED  BY <1>4, <3>2, <4>1, <4>2, HostGoesOn
      <3>5. OneSc'
        <4>1. pc' # "connected" /\ {pc, pc'} \cap {"capexsc", "svcsc"} = {}  BY <3>1
        <4> QED  BY <1>1, <1>4, <3>3, <4>1, OneScGoesOn
      <3> QED  BY <2>1, <3>4, <3>5 DEF HInv
    <2> QED  BY <2>2, <2>3, <2>4
  <1>5. CASE /\ c2h # <<>> /\ c2h' = Tail(c2h) /\ UNCHANGED <<h2c, camVars, acceptor>>
             /\ pc' = "failed"
    <2>1. /\ cam = "up" /\ c2h' \in Seq(SaidUp) /\ h2c' \in Seq(ToldUp)
          /\ c2h \in Seq(Said) /\ Head(c2h) \in SaidUp
      BY <1>0, <1>5, UpWhenRead
    <2>2. HInv'  BY <1>5, <2>1, FailedLate
    <2>3. Given' = Given  BY <1>5, Tallied, TalliedNext DEF camVars
    <2>4. Same \/ \E k \in QueryKinds : Drops(k)
      <3>1. CASE IsQuery(Head(c2h))
        <4>1. PICK k \in QueryKinds : Head(c2h) = Question[k]  BY <2>1, <3>1, SaidUpIs
        <4>2. /\ Tally(c2h, Question)[k] > 0
              /\ Tally(c2h', Question) = [Tally(c2h, Question) EXCEPT ![k] = @ - 1]
          BY <1>5, <2>1, <4>1, TallyRead, BothApart
        <4> QED  BY <2>3, <4>2, Tallied, TalliedNext DEF Drops
      <3>2. CASE ~IsQuery(Head(c2h))
        <4>1. \A k \in QueryKinds : Head(c2h) # Question[k]  BY <2>1, <3>2, SaidUpIs
        <4>2. Tally(c2h', Question) = Tally(c2h, Question)
          BY <1>5, <2>1, <4>1, TallyRead, BothApart
        <4> QED  BY <1>5, <4>2, NothingMoves DEF camVars
      <3> QED  BY <3>1, <3>2
    <2>5. ~Alive'  BY <1>5 DEF Alive
    <2> QED  BY <1>1, <2>2, <2>4, <2>5 DEF Effect
  <1> QED  BY <1>3, <1>4, <1>5 DEF Leads

LEMMA ScWaitsLeads ==
  ASSUME NEW p \in {"capexsc", "svcsc"}, NEW tries, ScWaits(p, tries)
  PROVE  pc = p /\ Leads("failed") /\ <<pc, "failed">> \in Overs
  <1>1. pc = p /\ UNCHANGED camVars  BY DEF ScWaits, SlpFrame, SlpNone
  <1>2. <<pc, "failed">> \in Overs  BY <1>1 DEF Overs, SlpPcs
  <1>3. CASE SlpNone(p) /\ Iterate(tries, "failed")
    BY <1>1, <1>2, <1>3 DEF SlpNone, Iterate, Leads
  <1>4. CASE /\ SlpFrame(p, Head(c2h))
             /\ HandleCapex(Head(c2h), Iterate(tries, "failed") /\ UNCHANGED handled)
    BY <1>1, <1>2, <1>4 DEF SlpFrame, HandleCapex, Say, Fail, Iterate, Leads, Reads
  <1> QED  BY <1>1, <1>2, <1>3, <1>4 DEF ScWaits

LEMMA ScRefusedLeads ==
  ASSUME NEW p \in {"capexsc", "svcsc"}, ScRefused(p)
  PROVE  Leads("failed") /\ <<pc, "failed">> \in Overs
  BY DEF ScRefused, SlpFrame, Fail, Leads, Overs, SlpPcs

LEMMA StepServe == HInv /\ (Serve \/ ServeNone) => HInv' /\ Effect
  <1> SUFFICES ASSUME HInv, Serve \/ ServeNone PROVE HInv' /\ Effect  OBVIOUS
  <1>1. pc = "serve"  BY DEF Serve, ServeNone, SlpFrame, SlpNone
  <1>2. Leads("ask")
    <2>1. CASE Serve
      BY <2>1 DEF Serve, SlpFrame, HandleCapex, Say, Fail, Iterate, Leads, Reads
    <2>2. CASE ServeNone
      <3>1. /\ UNCHANGED <<c2h, h2c, camVars>>
            /\ pc' \in {pc, "ask"} /\ UNCHANGED <<csid, acceptor, cmd>>
        BY <2>2 DEF ServeNone, SlpNone, Goto, Iterate
      <3> QED  BY <3>1 DEF Leads
    <2> QED  BY <2>1, <2>2
  <1>3. <<pc, "ask">> \in Overs  BY <1>1 DEF Overs, SlpPcs
  <1> QED  BY <1>2, <1>3, LoopGoesOn

\* A frame read that is no query, and the host moves on with it.
LEMMA ReadsPlainly ==
  ASSUME HInv, pc \in SlpPcs, c2h # <<>>, ~IsQuery(Head(c2h)),
         c2h' = Tail(c2h), h2c' = h2c, UNCHANGED camVars
  PROVE  Reads /\ Same /\ Alive
  <1>1. Reads  BY DEF Reads
  <1>2. Same  BY <1>1, AnswerGiven
  <1> QED  BY <1>1, <1>2, UpWhenRead

LEMMA StepCapexSc == HInv /\ CapexSc => HInv' /\ Effect
  <1> SUFFICES ASSUME HInv, CapexSc PROVE HInv' /\ Effect  OBVIOUS
  <1>1. CASE ScRefused("capexsc") \/ ScWaits("capexsc", ScTries)
    BY <1>1, ScRefusedLeads, ScWaitsLeads, LoopGoesOn
  <1>2. CASE /\ ScGranted("capexsc")
             /\ csid' = FirstOr(ScSessions(Head(c2h).b), 1)
             /\ pc' = "serve" /\ n' = 0
             /\ UNCHANGED <<handled, acceptor, cmd>>
    <2> DEFINE m == Head(c2h)
    <2>1. /\ pc = "capexsc" /\ c2h # <<>> /\ c2h' = Tail(c2h) /\ h2c' = h2c /\ UNCHANGED camVars
          /\ IsSc(m, ScRsp) /\ ScStatus(m.b) = "granted"
      BY <1>2 DEF ScGranted, SlpFrame, IsScRsp, IsSc
    <2>2. pc \in SlpPcs  BY <2>1 DEF SlpPcs
    <2>3. /\ cam = "up" /\ Alive /\ m \in SaidUp /\ h2c' \in Seq(ToldUp) /\ c2h' \in Seq(SaidUp)
      BY <2>1, <2>2, UpWhenRead
    <2>4. ~IsQuery(m)  BY <2>1 DEF IsSc, IsQuery, ScRsp, Query, LegacyQuery
    <2>5. Effect
      <3>1. Same  BY <2>1, <2>2, <2>4, ReadsPlainly
      <3> QED  BY <1>2, <2>3, <3>1 DEF Effect, Alive
    <2>6. csid' \in Sessions
      <3>1. m.b \in ScBodies  BY <2>1, <2>3, SaidUpIs
      <3> QED  BY <1>2, <2>1, <3>1, GrantIsRead
    <2>7. Typed' /\ Shape' /\ Turns'
      <3>1. acceptor' \in Acceptors  BY <1>2 DEF HInv, Typed
      <3> QED  BY <1>2, <2>1, <2>3, <2>6, <3>1, HostGoesOn DEF LatePcs
    <2>8. OneSc'
      <3>1. ~Has(c2h', ScRsp) /\ ~Has(h2c, ScReq) /\ ~Has(owed, ScRsp)
        BY <2>1, <2>2, RestUnderWay
      <3>2. owed' = owed  BY <2>1 DEF camVars
      <3>3. ~Has(c2h', ScRsp) /\ ~Has(h2c', ScReq) /\ ~Has(owed', ScRsp)
        BY <2>1, <3>1, <3>2
      <3> QED  BY <1>2, <3>3, NoScThere DEF OneSc
    <2> QED  BY <2>5, <2>7, <2>8 DEF HInv
  <1> QED  BY <1>1, <1>2 DEF CapexSc

LEMMA StepSvcSc == HInv /\ SvcSc => HInv' /\ Effect
  <1> SUFFICES ASSUME HInv, SvcSc PROVE HInv' /\ Effect  OBVIOUS
  <1>1. CASE ScRefused("svcsc") \/ ScWaits("svcsc", SvcTries)
    BY <1>1, ScRefusedLeads, ScWaitsLeads, LoopGoesOn
  <1>2. CASE /\ ScGranted("svcsc")
             /\ cmd' = FirstOr(ScSessions(Head(c2h).b), 10)
             /\ pc' = "connected" /\ n' = 0
             /\ UNCHANGED <<handled, csid, acceptor>>
    <2> DEFINE m == Head(c2h)
    <2>1. /\ pc = "svcsc" /\ c2h # <<>> /\ c2h' = Tail(c2h) /\ h2c' = h2c /\ UNCHANGED camVars
          /\ IsSc(m, ScRsp) /\ ScStatus(m.b) = "granted"
      BY <1>2 DEF ScGranted, SlpFrame, IsScRsp, IsSc
    <2>2. pc \in SlpPcs  BY <2>1 DEF SlpPcs
    <2>3. /\ cam = "up" /\ Alive /\ m \in SaidUp /\ h2c' \in Seq(ToldUp) /\ c2h' \in Seq(SaidUp)
      BY <2>1, <2>2, UpWhenRead
    <2>4. ~IsQuery(m)  BY <2>1 DEF IsSc, IsQuery, ScRsp, Query, LegacyQuery
    <2>5. Effect
      <3>1. Same  BY <2>1, <2>2, <2>4, ReadsPlainly
      <3> QED  BY <1>2, <2>3, <3>1 DEF Effect, Alive
    <2>6. Typed' /\ Shape' /\ Turns'
      <3>1. acceptor' \in Acceptors  BY <1>2 DEF HInv, Typed
      <3> QED  BY <1>2, <2>1, <2>3, <3>1, HostGoesOn DEF LatePcs
    <2>7. OneSc'
      <3>1. /\ ~Has(c2h', ScRsp) /\ ~Has(h2c, ScReq) /\ ~Has(owed, ScRsp)
            /\ Says(m.b, granted)
        BY <2>1, <2>2, RestUnderWay
      <3>2. owed' = owed /\ granted' = granted  BY <2>1 DEF camVars
      <3>3. ~Has(c2h', ScRsp) /\ ~Has(h2c', ScReq) /\ ~Has(owed', ScRsp)
        BY <2>1, <3>1, <3>2
      <3>4. cmd' = granted' /\ cmd' # 0  BY <1>2, <2>1, <3>1, <3>2 DEF Says
      <3> QED  BY <1>2, <3>3, <3>4, NoScThere DEF OneSc
    <2> QED  BY <2>5, <2>6, <2>7 DEF HInv
  <1> QED  BY <1>1, <1>2 DEF SvcSc

\* What the camera lists is learned, from whatever response comes first.
LEMMA StepLearn == HInv /\ LearnComponent => HInv' /\ Effect
  <1> SUFFICES ASSUME HInv, LearnComponent PROVE HInv' /\ Effect  OBVIOUS
  <1> DEFINE m == Head(c2h)
  <1>1. pc = "query" /\ UNCHANGED camVars
    BY DEF LearnComponent, LearnOr, SlpFrame, SlpNone
  <1>2. pc \in SlpPcs /\ <<pc, "request">> \in Overs  BY <1>1 DEF SlpPcs, Overs
  <1>3. CASE SlpNone("query") /\ Iterate(QueryTries, "request")
    <2>1. Leads("request")  BY <1>1, <1>3 DEF SlpNone, Iterate, Leads
    <2> QED  BY <1>2, <2>1, LoopGoesOn
  <1>4. CASE /\ SlpFrame("query", m)
             /\ HandleCapex(m, Iterate(QueryTries, "request") /\ UNCHANGED handled)
    <2>1. Leads("request")
      BY <1>1, <1>4 DEF SlpFrame, HandleCapex, Say, Fail, Iterate, Leads, Reads
    <2> QED  BY <1>2, <2>1, LoopGoesOn
  <1>5. CASE /\ SlpFrame("query", m) /\ m.t \in {CapexRsp, LegacyRsp}
             /\ pc' = "request" /\ n' = 0
             /\ acceptor' = IF m.t = CapexRsp THEN ComponentOf(parse_capex_response(m.b)) ELSE 0
             /\ UNCHANGED <<h2c, handled, csid, cmd>>
    <2>1. c2h # <<>> /\ c2h' = Tail(c2h) /\ h2c' = h2c  BY <1>5 DEF SlpFrame
    <2>2. /\ cam = "up" /\ Alive /\ m \in SaidUp /\ h2c' \in Seq(ToldUp) /\ c2h' \in Seq(SaidUp)
      BY <1>2, <2>1, UpWhenRead
    <2>3. ~IsQuery(m)  BY <1>5 DEF IsQuery, CapexRsp, LegacyRsp, Query, LegacyQuery
    <2>4. acceptor' \in Acceptors
      <3>1. CASE m.t = CapexRsp
        <4>1. m.b \in Listings \cup ScBodies  BY <2>2, <3>1, SaidUpIs
        <4> QED  BY <1>5, <3>1, <4>1 DEF Acceptors
      <3>2. CASE m.t # CapexRsp  BY <1>5, <3>2 DEF Acceptors
      <3> QED  BY <3>1, <3>2
    <2>5. Effect
      <3>1. Same  BY <1>1, <1>2, <2>1, <2>3, ReadsPlainly
      <3> QED  BY <1>5, <2>2, <3>1 DEF Effect, Alive
    <2>6. Typed' /\ Shape' /\ Turns'
      BY <1>1, <1>5, <2>2, <2>4, HostGoesOn DEF LatePcs
    <2>7. OneSc'
      <3>1. /\ Lone(h2c, ScReq) /\ Lone(c2h', ScRsp)
            /\ Has(c2h', ScRsp) => Has(c2h, ScRsp)
            /\ \A g : Tells(c2h, g) => Tells(c2h', g)
        BY <1>2, <2>1, RestUnderWay
      <3>2. pc' # "connected" /\ {pc, pc'} \cap {"capexsc", "svcsc"} = {}  BY <1>1, <1>5
      <3> QED  BY <1>1, <2>1, <2>2, <3>1, <3>2, OneScGoesOn
    <2> QED  BY <2>5, <2>6, <2>7 DEF HInv
  <1> QED  BY <1>3, <1>4, <1>5 DEF LearnComponent, LearnOr

\* The host speaks of itself.
LEMMA HostSpeaks ==
  ASSUME HInv, pc \in {"ask", "request"}, NEW m \in ToldUp, m.t = 1,
         \/ h2c' = Append(h2c, m) /\ pc' \in {"query", "svcsc"}
         \/ h2c' = h2c /\ pc' = "failed",
         UNCHANGED <<c2h, camVars, acceptor>>
  PROVE  /\ Effect /\ Typed' /\ Shape' /\ Turns'
         /\ h2c \in Seq(ToldUp)
  <1>1. cam = "up" /\ Alive  BY DEF HInv, Turns, LatePcs, Alive
  <1>2. c2h \in Seq(SaidUp) /\ h2c \in Seq(ToldUp) /\ h2c \in Seq(Told) /\ acceptor \in Acceptors
    BY <1>1 DEF HInv, Typed, PlainPcs
  <1>3. \A k \in QueryKinds : m # AnswerTo[k]
    <2>1. m.t \notin {CapexRsp, LegacyRsp}  BY DEF CapexRsp, LegacyRsp
    <2> QED  BY <2>1, ToldUpIs
  <1>4. Tally(Append(h2c, m), AnswerTo) = Tally(h2c, AnswerTo)
    BY <1>2, <1>3, TallySent, BothApart
  <1>5. Same
    <2>1. Tally(h2c', AnswerTo) = Tally(h2c, AnswerTo)  BY <1>4
    <2> QED  BY <2>1, NothingMoves DEF camVars
  <1>6. Effect  BY <1>1, <1>5 DEF Effect
  <1>7. h2c' \in Seq(ToldUp)  BY <1>2
  <1>8. pc' \in {"query", "svcsc", "failed"}  OBVIOUS
  <1>9. pc' \in {"capexsc", "failed"} \cup LatePcs  BY <1>8 DEF LatePcs
  <1>10. Typed' /\ Shape' /\ Turns'  BY <1>1, <1>2, <1>7, <1>8, <1>9, HostGoesOn
  <1> QED  BY <1>2, <1>6, <1>10

LEMMA StepAsk == HInv /\ Ask => HInv' /\ Effect
  <1> SUFFICES ASSUME HInv, Ask PROVE HInv' /\ Effect  OBVIOUS
  <1> DEFINE m == Msg(Query, csid, <<>>)
  <1>1. /\ pc = "ask" /\ UNCHANGED <<c2h, camVars, acceptor>>
        /\ \/ h2c' = Append(h2c, m) /\ pc' = "query"
           \/ h2c' = h2c /\ pc' = "failed"
    BY DEF Ask, Say, Goto, Fail
  <1>2. csid \in Sessions  BY <1>1 DEF HInv, Typed
  <1>3. m \in ToldUp /\ m.t = 1 /\ ~IsSc(m, ScReq)
    <2>1. m.s = csid /\ m.t = Query  BY MsgIs
    <2>2. csid # Default  BY <1>2 DEF Sessions, Default
    <2> QED  BY <1>2, <2>1, <2>2 DEF ToldUp, IsSc, Query
  <1> HIDE DEF m
  <1>4. Effect /\ Typed' /\ Shape' /\ Turns' /\ h2c \in Seq(ToldUp)
    BY <1>1, <1>3, HostSpeaks
  <1>5. OneSc'
    <2>1. CASE pc' = "failed"  BY <2>1 DEF OneSc, Alive
    <2>2. CASE pc' = "query"
      <3>1. h2c' = Append(h2c, m) /\ Alive  BY <1>1, <2>2 DEF Alive
      <3>2. Lone(h2c, ScReq) /\ Lone(c2h, ScRsp)  BY <3>1 DEF HInv, OneSc
      <3>3. /\ Lone(h2c', ScReq) /\ (Has(h2c', ScReq) => Has(h2c, ScReq))
            /\ ForService(h2c) => ForService(h2c')
        BY <1>3, <1>4, <3>1, <3>2, ScSent
      <3>4. pc' # "connected" /\ {pc, pc'} \cap {"capexsc", "svcsc"} = {}  BY <1>1, <2>2
      <3> QED  BY <1>1, <3>1, <3>2, <3>3, <3>4, OneScGoesOn
    <2> QED  BY <1>1, <2>1, <2>2
  <1> QED  BY <1>4, <1>5 DEF HInv

LEMMA StepRequest == HInv /\ Request => HInv' /\ Effect
  <1> SUFFICES ASSUME HInv, Request PROVE HInv' /\ Effect  OBVIOUS
  <1> DEFINE m == Msg(ScReq, Default, <<"service", acceptor>>)
  <1>1. /\ pc = "request" /\ UNCHANGED <<c2h, camVars, acceptor>>
        /\ \/ h2c' = Append(h2c, m) /\ pc' = "svcsc"
           \/ h2c' = h2c /\ pc' = "failed"
    BY DEF Request, Say, Goto, Fail
  <1>2. acceptor \in Acceptors  BY DEF HInv, Typed
  <1>3. m \in ToldUp /\ m.t = 1 /\ m.b[1] = "service"
    BY <1>2, MsgIs DEF ToldUp, ScReq
  <1> HIDE DEF m
  <1>4. Effect /\ Typed' /\ Shape' /\ Turns' /\ h2c \in Seq(ToldUp)
    BY <1>1, <1>3, HostSpeaks
  <1>5. OneSc'
    <2>1. CASE pc' = "failed"  BY <2>1 DEF OneSc, Alive
    <2>2. CASE pc' = "svcsc"
      <3>1. h2c' = Append(h2c, m) /\ Alive  BY <1>1, <2>2 DEF Alive
      <3>2. ~Has(h2c, ScReq) /\ ~Has(owed, ScRsp) /\ ~Has(c2h, ScRsp)
        BY <1>1, <3>1 DEF HInv, OneSc
      <3>3. Lone(h2c', ScReq) /\ ForService(h2c')
        BY <1>3, <1>4, <3>1, <3>2, ScSent, NoScThere
      <3>4. owed' = owed /\ c2h' = c2h /\ granted' = granted  BY <1>1 DEF camVars
      <3>5. ~Has(owed', ScRsp) /\ ~Has(c2h', ScRsp)  BY <3>2, <3>4
      <3> QED  BY <2>2, <3>3, <3>5, NoScThere DEF OneSc
    <2> QED  BY <1>1, <2>1, <2>2
  <1> QED  BY <1>4, <1>5 DEF HInv

LEMMA StepClose == HInv /\ Close => HInv' /\ Effect
  <1> SUFFICES ASSUME HInv, Close PROVE HInv' /\ Effect  OBVIOUS
  <1>1. /\ pc = "failed" /\ pc' = "closed"
        /\ UNCHANGED <<n, handled, csid, acceptor, cmd, c2h, h2c, camVars>>
    BY DEF Close
  <1>2. Same  BY <1>1, NothingMoves DEF camVars
  <1>3. Effect  BY <1>1, <1>2 DEF Effect, Alive
  <1>4. HInv'
    BY <1>1 DEF HInv, Typed, Shape, Turns, OneSc, Alive, camVars, PlainPcs, LatePcs
  <1> QED  BY <1>3, <1>4

LEMMA StepStutter == HInv /\ UNCHANGED vars => HInv' /\ Effect
  <1> SUFFICES ASSUME HInv, UNCHANGED vars PROVE HInv' /\ Effect  OBVIOUS
  <1>1. UNCHANGED <<pc, c2h, h2c, camVars, csid, acceptor, cmd>>  BY DEF vars, hostVars
  <1>2. HInv'  BY <1>1, NoneRead
  <1>3. Same  BY <1>1, NothingMoves DEF camVars
  <1> QED  BY <1>1, <1>2, <1>3 DEF Effect, Alive
-----------------------------------------------------------------------------
(* The theorems.                                                           *)

LEMMA HInit == Init => HInv
  <1> SUFFICES ASSUME Init PROVE HInv  OBVIOUS
  <1>1. Typed
    <2>1. 0 \in Acceptors  BY DEF Acceptors
    <2> QED  BY <2>1 DEF Init, Typed, PlainPcs, LatePcs, Alive
  <1>2. Shape /\ Turns  BY DEF Init, Shape, Turns, LatePcs
  <1>3. OneSc  BY NoneInEmpty, NoScThere DEF Init, OneSc
  <1> QED  BY <1>1, <1>2, <1>3 DEF HInv

LEMMA HNext == HInv /\ [Next]_vars => HInv' /\ Effect
  BY StepCamSpeaks, StepCamReadsPlain, StepCamReadsSc, StepCamReadsQuery,
     StepCamReadsAnswer, StepCamReplies, StepCamAsks, StepCamTears, StepLinkDrops, StepPlain,
     StepCapexSc, StepServe, StepAsk, StepLearn, StepRequest, StepSvcSc,
     StepClose, StepStutter
     DEF Next, Host, Camera, Done, PlainActs

\* Messages, the phases and the service connection under way, in every state.
THEOREM HInvariant == Spec => []HInv
  BY HInit, HNext, PTL DEF Spec

\* Phases 1-3 of run_wifi_session: what the camera reads next is what it
\* waits for, whatever either side skipped, timed out on or failed at.
THEOREM InStepHolds == Spec => []InStep
  <1>1. HInv => InStep
    <2> SUFFICES ASSUME HInv, h2c # <<>> PROVE Accepts(Head(h2c))  BY DEF InStep
    <2>1. cam \in {"rsp", "auth", "sc", "up"}  BY DEF HInv, Typed, Shape
    <2>2. \A t : Plain(t).t = t /\ Plain(t).s = 0  BY MsgIs DEF Plain
    <2>3. CASE cam = "rsp"
      <3>1. Head(h2c) = Plain(PdRsp)  BY <2>3 DEF HInv, Shape
      <3> QED  BY <2>2, <2>3, <3>1 DEF Accepts
    <2>4. CASE cam = "auth"
      <3>1. Head(h2c) = Plain(AuthRsp)  BY <2>4 DEF HInv, Shape
      <3> QED  BY <2>2, <2>4, <3>1 DEF Accepts
    <2>5. CASE cam = "sc"
      <3>1. Head(h2c) = CapexRequest  BY <2>5 DEF HInv, Shape
      <3>2. CapexRequest.t = ScReq /\ CapexRequest.s = Default /\ CapexRequest.b[1] = "capex"
        BY MsgIs DEF CapexRequest
      <3> QED  BY <2>5, <3>1, <3>2 DEF Accepts
    <2>6. CASE cam = "up"
      <3>1. h2c \in Seq(ToldUp)  BY <2>6 DEF HInv, Typed
      <3>2. Head(h2c) \in ToldUp  BY <3>1
      <3>3. Head(h2c).s \in 1 .. Default  BY <3>2, ToldUpIs
      <3>4. Head(h2c).s # 0  BY <3>3
      <3> QED  BY <2>6, <3>4 DEF Accepts
    <2> QED  BY <2>1, <2>3, <2>4, <2>5, <2>6
  <1> QED  BY <1>1, HInvariant, PTL

\* Phase 4 starts on the command session the camera granted for the service,
\* for any bytes of a granting response and any cut of a refusing one.
THEOREM ConnectedGranted == Spec => []ConnectedIsGranted
  <1>1. HInv => ConnectedIsGranted  BY DEF HInv, OneSc, Alive, ConnectedIsGranted
  <1> QED  BY <1>1, HInvariant, PTL

LEMMA AskedInit == Init => NoQueryUnanswered /\ Asking!Init
  <1> SUFFICES ASSUME Init PROVE NoQueryUnanswered /\ Asking!Init  OBVIOUS
  <1>1. /\ c2h = <<>> /\ h2c = <<>> /\ pc = "pd"
        /\ asked = [k \in QueryKinds |-> 0] /\ answered = [k \in QueryKinds |-> 0]
    BY DEF Init
  <1>2. Waiting = [k \in QueryKinds |-> 0] /\ Given = [k \in QueryKinds |-> 0]
    BY <1>1, CountEmpty DEF Waiting, Given
  <1>3. NoQueryUnanswered  BY <1>1, <1>2 DEF NoQueryUnanswered
  <1>4. Asking!Init  BY <1>1, <1>2 DEF Asking!Init
  <1> QED  BY <1>3, <1>4

LEMMA AskedNext == Typed /\ NoQueryUnanswered /\ Effect => NoQueryUnanswered'
  <1> SUFFICES ASSUME Typed, NoQueryUnanswered, Effect, Alive', NEW k \in QueryKinds
               PROVE  asked'[k] = Waiting'[k] + Given'[k]
    BY DEF NoQueryUnanswered, Alive
  <1>1. Alive  BY DEF Effect
  <1>2. /\ Waiting \in [QueryKinds -> Nat] /\ Given \in [QueryKinds -> Nat]
        /\ asked \in [QueryKinds -> Nat]
    BY CountsTyped DEF Typed
  <1>3. asked[k] = Waiting[k] + Given[k]  BY <1>1 DEF NoQueryUnanswered, Alive
  <1>4. CASE Same  BY <1>3, <1>4 DEF Same
  <1>5. CASE \E j \in QueryKinds : Puts(j)
    <2>1. PICK j \in QueryKinds : Puts(j)  BY <1>5
    <2> QED  BY <1>2, <1>3, <2>1 DEF Puts
  <1>6. CASE \E j \in QueryKinds : Gives(j)
    <2>1. PICK j \in QueryKinds : Gives(j)  BY <1>6
    <2> QED  BY <1>2, <1>3, <2>1 DEF Gives
  <1> QED  BY <1>4, <1>5, <1>6 DEF Effect

\* "Answer the camera's capability-discovery queries": as long as the session
\* lives, every query is under way, or its answer is, or it was answered.
THEOREM EveryQueryAnswered == Spec => []NoQueryUnanswered
  <1>1. HInv => Typed  BY DEF HInv
  <1> QED  BY <1>1, AskedInit, AskedNext, HInit, HNext, PTL DEF Spec

\* What a step does to the queries is what Answering allows.
LEMMA EffectAnswers == Effect => [Asking!Next]_Asking!ansVars
  <1> SUFFICES ASSUME Effect PROVE [Asking!Next]_Asking!ansVars  OBVIOUS
  <1> USE DEF Alive
  <1>1. CASE Same /\ (Alive' <=> Alive)
    BY <1>1 DEF Same, Asking!ansVars
  <1>2. CASE \E k \in QueryKinds : Puts(k) /\ (Alive' <=> Alive)
    BY <1>2 DEF Puts, Asking!Ask, Asking!Next
  <1>3. CASE Alive /\ Alive' /\ \E k \in QueryKinds : Gives(k)
    BY <1>3 DEF Gives, Asking!Answer, Asking!Answers, Asking!Reads, Asking!Next
  <1>4. CASE Alive /\ ~Alive' /\ Same
    BY <1>4 DEF Same, Asking!End, Asking!Next
  <1>5. CASE Alive /\ ~Alive' /\ \E k \in QueryKinds : Gives(k) \/ Drops(k)
    BY <1>5 DEF Gives, Drops, Asking!End, Asking!Answers, Asking!Reads, Asking!Next
  <1> QED  BY <1>1, <1>2, <1>3, <1>4, <1>5 DEF Effect

\* Phases 1-3 implement Answering: a query is answered in the step that reads
\* it, on its session and in its kind, or the session is over.
THEOREM ImplementsAnswering == Spec => AnswersQueries
  <1>1. Spec => Asking!Spec
    BY AskedInit, EffectAnswers, HInit, HNext, PTL DEF Spec, Asking!Spec
  <1> QED  BY <1>1 DEF AnswersQueries
-----------------------------------------------------------------------------
(* Where the host's variables stay.                                        *)

AllTries == {ScTries, ServeTries, QueryTries, SvcTries}
Counted == \E t \in AllTries : n \in 0 .. t - 1

\* What most of the host's steps do to its variables.
Counts == n' = n \/ n' = 0 \/ \E t \in AllTries : n + 1 < t /\ n' = n + 1
Settles == Counts /\ UNCHANGED <<handled, csid, acceptor, cmd>>

\* The three steps that learn something.
TakesCapex == /\ ScGranted("capexsc") /\ csid' = FirstOr(ScSessions(Head(c2h).b), 1)
              /\ Counts /\ UNCHANGED <<handled, acceptor, cmd>>
TakesService == /\ ScGranted("svcsc") /\ cmd' = FirstOr(ScSessions(Head(c2h).b), 10)
                /\ Counts /\ UNCHANGED <<handled, csid, acceptor>>
Learns == /\ SlpFrame("query", Head(c2h)) /\ Head(c2h).t \in {CapexRsp, LegacyRsp}
          /\ acceptor' = (IF Head(c2h).t = CapexRsp
                          THEN ComponentOf(parse_capex_response(Head(c2h).b)) ELSE 0)
          /\ pc' = "request" /\ Counts /\ UNCHANGED <<h2c, handled, csid, cmd>>
Handles == /\ Counts /\ handled' \in BOOLEAN /\ UNCHANGED <<csid, acceptor, cmd>>

LEMMA TriesTyped == /\ \A t \in AllTries : t \in Nat \ {0}
                    /\ {ScTries, ServeTries, QueryTries, SvcTries} = AllTries
  BY WorldAssumption DEF AllTries

LEMMA CountsCounted ==
  ASSUME Counted, Counts
  PROVE  Counted' /\ n' \in Nat
  <1>1. PICK t \in AllTries : n \in 0 .. t - 1  BY DEF Counted
  <1>2. t \in Nat \ {0}  BY TriesTyped
  <1>3. CASE n' = n  BY <1>1, <1>2, <1>3 DEF Counted, AllTries
  <1>4. CASE n' = 0
    <2>1. n' \in 0 .. t - 1 /\ n' \in Nat  BY <1>2, <1>4
    <2> QED  BY <2>1 DEF Counted, AllTries
  <1>5. CASE \E u \in AllTries : n + 1 < u /\ n' = n + 1
    <2>1. PICK u \in AllTries : n + 1 < u /\ n' = n + 1  BY <1>5
    <2>2. u \in Nat  BY TriesTyped
    <2>3. n' \in 0 .. u - 1 /\ n' \in Nat  BY <1>1, <1>2, <2>1, <2>2
    <2> QED  BY <2>3 DEF Counted, AllTries
  <1> QED  BY <1>3, <1>4, <1>5 DEF Counts

LEMMA IterateCounts ==
  ASSUME NEW t \in AllTries, NEW over, Iterate(t, over)
  PROVE  Counts /\ UNCHANGED <<csid, acceptor, cmd>>
  BY DEF Iterate, Counts

LEMMA FailSettles == Fail => Settles
  BY Zenon DEF Fail, Settles, Counts
LEMMA GotoSettles == \A p : Goto(p) => Settles
  BY Zenon DEF Goto, Settles, Counts

LEMMA LoopSettles ==
  ASSUME NEW t \in AllTries, NEW over, Iterate(t, over) /\ UNCHANGED handled
  PROVE  Settles
  <1>1. Counts /\ UNCHANGED <<csid, acceptor, cmd>>  BY IterateCounts
  <1> QED  BY <1>1 DEF Settles

LEMMA ChallengeSettles == \A m : TakeChallenge(m) => Settles
  BY FailSettles, GotoSettles, Zenon DEF TakeChallenge, Say

LEMMA ScWaitsSettles ==
  ASSUME NEW t \in AllTries, NEW p, ScWaits(p, t)
  PROVE  Settles
  <1> DEFINE loop == Iterate(t, "failed") /\ UNCHANGED handled
  <1>1. loop => Settles  BY LoopSettles
  <1>2. loop \/ Fail  BY Zenon DEF ScWaits, HandleCapex, Say
  <1> HIDE DEF loop
  <1> QED  BY <1>1, <1>2, FailSettles

LEMMA HostSettles ==
  ASSUME Host, handled \in BOOLEAN
  PROVE  Settles \/ TakesCapex \/ TakesService \/ Learns \/ Handles
  <1>1. CASE ReadPd  BY <1>1, FailSettles, GotoSettles, Zenon DEF ReadPd, Say
  <1>2. CASE ReadPdOk
    BY <1>2, FailSettles, GotoSettles, ChallengeSettles, Zenon DEF ReadPdOk
  <1>3. CASE ReadAuthReq  BY <1>3, ChallengeSettles, Zenon DEF ReadAuthReq
  <1>4. CASE ReadConfirm
    <2>1. (\E p : Say(CapexRequest, Goto(p))) \/ Fail  BY <1>4 DEF ReadConfirm, CapexRequest
    <2> QED  BY <2>1, FailSettles, GotoSettles, Zenon DEF Say
  <1>5. CASE PlainNone  BY <1>5, FailSettles, Zenon DEF PlainNone
  <1>6. CASE CapexSc
    <2>1. CASE ScRefused("capexsc")  BY <2>1, FailSettles, Zenon DEF ScRefused
    <2>2. CASE ScWaits("capexsc", ScTries)
      <3>1. ScTries \in AllTries  BY DEF AllTries
      <3> QED  BY <2>2, <3>1, ScWaitsSettles
    <2>3. CASE /\ ScGranted("capexsc")
               /\ csid' = FirstOr(ScSessions(Head(c2h).b), 1)
               /\ pc' = "serve" /\ n' = 0
               /\ UNCHANGED <<handled, acceptor, cmd>>
      <3>1. Counts  BY <2>3 DEF Counts
      <3> QED  BY <2>3, <3>1 DEF TakesCapex
    <2> QED  BY <1>6, <2>1, <2>2, <2>3 DEF CapexSc
  <1>7. CASE Serve
    <2> DEFINE loop == /\ Iterate(ServeTries, "ask")
                       /\ handled' = (handled \/ IsQuery(Head(c2h)))
    <2>1. loop \/ Fail  BY <1>7, Zenon DEF Serve, HandleCapex, Say
    <2>2. ServeTries \in AllTries  BY DEF AllTries
    <2>3. ASSUME loop PROVE Handles
      <3>1. Counts /\ UNCHANGED <<csid, acceptor, cmd>>  BY <2>2, <2>3, IterateCounts
      <3>2. handled' \in BOOLEAN  BY <2>3, Zenon DEF IsQuery
      <3> QED  BY <3>1, <3>2 DEF Handles
    <2> HIDE DEF loop
    <2> QED  BY <2>1, <2>3, FailSettles
  <1>8. CASE ServeNone
    <2>1. ServeTries \in AllTries  BY DEF AllTries
    <2>2. \/ \E p : Goto(p)
          \/ Iterate(ServeTries, "ask") /\ UNCHANGED handled
      BY <1>8, Zenon DEF ServeNone
    <2> QED  BY <2>1, <2>2, GotoSettles, LoopSettles
  <1>9. CASE Ask  BY <1>9, FailSettles, GotoSettles, Zenon DEF Ask, Say
  <1>10. CASE LearnComponent
    <2> DEFINE loop == Iterate(QueryTries, "request") /\ UNCHANGED handled
    <2>1. QueryTries \in AllTries  BY DEF AllTries
    <2>2. CASE /\ SlpFrame("query", Head(c2h)) /\ Head(c2h).t \in {CapexRsp, LegacyRsp}
               /\ pc' = "request" /\ n' = 0
               /\ acceptor' = (IF Head(c2h).t = CapexRsp
                              THEN ComponentOf(parse_capex_response(Head(c2h).b)) ELSE 0)
               /\ UNCHANGED <<h2c, handled, csid, cmd>>
      <3>1. Counts  BY <2>2 DEF Counts
      <3> QED  BY <2>2, <3>1 DEF Learns
    <2>3. CASE loop  BY <2>1, <2>3, LoopSettles
    <2>4. CASE Fail  BY <2>4, FailSettles
    <2> QED  BY <1>10, <2>2, <2>3, <2>4 DEF LearnComponent, LearnOr, HandleCapex, Say
  <1>11. CASE Request  BY <1>11, FailSettles, GotoSettles, Zenon DEF Request, Say
  <1>12. CASE SvcSc
    <2>1. CASE ScRefused("svcsc")  BY <2>1, FailSettles, Zenon DEF ScRefused
    <2>2. CASE ScWaits("svcsc", SvcTries)
      <3>1. SvcTries \in AllTries  BY DEF AllTries
      <3> QED  BY <2>2, <3>1, ScWaitsSettles
    <2>3. CASE /\ ScGranted("svcsc")
               /\ cmd' = FirstOr(ScSessions(Head(c2h).b), 10)
               /\ pc' = "connected" /\ n' = 0
               /\ UNCHANGED <<handled, csid, acceptor>>
      <3>1. Counts  BY <2>3 DEF Counts
      <3> QED  BY <2>3, <3>1 DEF TakesService
    <2> QED  BY <1>12, <2>1, <2>2, <2>3 DEF SvcSc
  <1>13. CASE Close  BY <1>13 DEF Close, Settles, Counts
  <1> QED  BY <1>1, <1>2, <1>3, <1>4, <1>5, <1>6, <1>7, <1>8, <1>9, <1>10, <1>11, <1>12, <1>13
           DEF Host
-----------------------------------------------------------------------------
(* What the camera lists.                                                  *)

\* A capex response says what its world offers, all of it if the world is good,
\* whose camera does not answer in the legacy form either.
IsListing(m) == m.t = CapexRsp /\ m.s # Default
IsOffered(w, b) == \E o \in w.offers : /\ b \in Seq(Nat) /\ Starts(b, CapexResponse(2, o))
                                       /\ w.good => b = CapexResponse(2, o)
Faithful(w, m) == /\ IsListing(m) => IsOffered(w, m.b)
                  /\ w.good => m.t # LegacyRsp
Sayable(w) == {m \in Said : Faithful(w, m)}
Spoken == c2h \in Seq(Sayable(world)) /\ owed \in Seq(Sayable(world))

LEMMA CutsAreOffered ==
  ASSUME world \in Worlds, NEW o \in world.offers, NEW b \in Cut(CapexResponse(2, o))
  PROVE  IsOffered(world, b)
  <1> DEFINE r == CapexResponse(2, o)
  <1>1. /\ Listable(o) /\ \A k \in world.cuts : k \in Nat
        /\ world.good => world.cuts = {}
    BY WorldAssumption DEF Favourable
  <1>2. r \in Seq(Nat)
    <2>1. 2 \in Nat  OBVIOUS
    <2> QED  BY <1>1, <2>1, CapexTyped
  <1>3. CASE b = r
    <2>1. Starts(r, r)
      <3> HIDE DEF r
      <3> QED  BY <1>2, WholeStarts
    <2> QED  BY <1>2, <1>3, <2>1 DEF IsOffered
  <1>4. CASE \E k \in world.cuts : k < Len(r) /\ b = SubSeq(r, 1, k)
    <2>1. PICK k \in world.cuts : k < Len(r) /\ b = SubSeq(r, 1, k)  BY <1>4
    <2>2. ~world.good /\ k \in Nat  BY <1>1, <2>1
    <2>3. b \in Seq(Nat) /\ Starts(b, r)
      <3> HIDE DEF r
      <3>1. Len(r) \in Nat  BY <1>2
      <3>2. k <= Len(r)  BY <2>1, <2>2, <3>1
      <3> QED  BY <1>2, <2>1, <2>2, <3>2, CutStarts
    <2> QED  BY <2>2, <2>3 DEF IsOffered
  <1> QED  BY <1>3, <1>4 DEF Cut

LEMMA SaysMore ==
  ASSUME NEW w, NEW ch \in Seq(Sayable(w)), NEW m, Append(ch, m) \in Seq(Said), Faithful(w, m)
  PROVE  Append(ch, m) \in Seq(Sayable(w))
  <1> DEFINE all == Append(ch, m)
  <1>1. ch \in Seq(Said)
    <2>1. Sayable(w) \subseteq Said  BY DEF Sayable
    <2> HIDE DEF Sayable
    <2> QED  BY <2>1
  <1>2. Len(ch) \in Nat  OBVIOUS
  <1>3. Len(ch) + 1 \in DOMAIN all /\ all[Len(ch) + 1] = m
    <2>1. Len(all) = Len(ch) + 1 /\ all[Len(ch) + 1] = m  BY <1>1, AppendProperties
    <2> QED  BY <1>2, <2>1
  <1>4. m \in Said
    <2> HIDE DEF all
    <2>1. all \in Seq(Said)  BY DEF all
    <2>2. all[Len(ch) + 1] \in Said  BY <1>3, <2>1
    <2> QED  BY <1>3, <2>2
  <1>5. m \in Sayable(w)  BY <1>4 DEF Sayable
  <1> HIDE DEF Sayable
  <1> QED  BY <1>5, AppendProperties

LEMMA SaysLess ==
  ASSUME NEW S, NEW ch \in Seq(S), ch # <<>>
  PROVE  /\ Head(ch) \in S /\ Tail(ch) \in Seq(S)
         /\ \A k \in 1 .. Len(ch) : SubSeq(ch, k + 1, Len(ch)) \in Seq(S)
  OBVIOUS

\* Of the host's steps: they read, and leave the camera's side alone.
LEMMA HostReads ==
  ASSUME Host
  PROVE  /\ UNCHANGED camVars /\ (link' = link \/ (link' = FALSE /\ pc' = "closed"))
         /\ \/ c2h' = c2h
            \/ c2h # <<>> /\ c2h' = Tail(c2h)
            \/ c2h # <<>> /\ \E k \in 1 .. Len(c2h) : c2h' = SubSeq(c2h, k + 1, Len(c2h))
  <1>1. CASE ReadPd \/ ReadPdOk \/ ReadAuthReq \/ ReadConfirm
    <2>1. \E p : PlainFrame(p, Head(c2h))
      <3>1. ReadPd => PlainFrame("pd", Head(c2h))  BY Zenon DEF ReadPd
      <3>2. ReadPdOk => PlainFrame("pdok", Head(c2h))  BY Zenon DEF ReadPdOk
      <3>3. ReadAuthReq => PlainFrame("authreq", Head(c2h))  BY Zenon DEF ReadAuthReq
      <3>4. ReadConfirm => PlainFrame("confirm", Head(c2h))  BY SMT DEF ReadConfirm
      <3> QED  BY <1>1, <3>1, <3>2, <3>3, <3>4, Zenon
    <2> QED  BY <2>1 DEF PlainFrame
  <1>2. CASE CapexSc \/ Serve \/ ServeNone \/ LearnComponent \/ SvcSc
    <2>1. \E p : SlpFrame(p, Head(c2h)) \/ SlpNone(p)
      BY <1>2, Zenon
      DEF CapexSc, SvcSc, Serve, ServeNone, LearnComponent, LearnOr, ScGranted, ScRefused, ScWaits
    <2> QED  BY <2>1 DEF SlpFrame, SlpNone
  <1>3. CASE PlainNone \/ Ask \/ Request \/ Close
    BY <1>3 DEF PlainNone, Ask, Request, Close
  <1> QED  BY <1>1, <1>2, <1>3 DEF Host

LEMMA SpokenHost ==
  ASSUME Spoken, Host
  PROVE  Spoken'
  <1>1. world' = world /\ owed' = owed  BY HostReads DEF camVars
  <1>2. c2h' \in Seq(Sayable(world))
    <2> DEFINE S == Sayable(world)
    <2>1. c2h \in Seq(S)  BY DEF Spoken
    <2> HIDE DEF S
    <2>2. c2h' \in Seq(S)  BY <2>1, HostReads, SaysLess
    <2> QED  BY <2>2 DEF S
  <1> QED  BY <1>1, <1>2 DEF Spoken

LEMMA SpokenCamera ==
  ASSUME HInv, HInv', Spoken, Camera \/ CamAsks \/ CamTears \/ LinkDrops
  PROVE  Spoken' /\ world' = world
  <1>1. c2h' \in Seq(Said) /\ owed' \in Seq(Replies)  BY DEF HInv, Typed
  <1>2. Replies \subseteq Said /\ owed' \in Seq(Said)
    <2>1. Replies \subseteq Said  BY DEF Said, SaidUp
    <2> HIDE DEF Replies, Said
    <2> QED  BY <1>1, <2>1
  <1>3. world \in Worlds  BY DEF HInv, Typed
  <1> HIDE DEF Said, Replies, HInv
  <1>4. CASE CamSpeaks
    <2>1. PICK t \in {PdReq, PdOk, AuthReq, AuthConf} :
            c2h' = Append(c2h, Msg(t, 0, <<>>)) /\ UNCHANGED <<world, owed>>
      BY <1>4 DEF CamSpeaks, CamWrites, hostVars
    <2>2. Faithful(world, Msg(t, 0, <<>>))
      BY MsgIs DEF Faithful, IsListing, PdReq, PdOk, AuthReq, AuthConf, CapexRsp, LegacyRsp
    <2>3. c2h' \in Seq(Sayable(world))  BY <1>1, <2>1, <2>2, SaysMore DEF Spoken
    <2> QED  BY <2>1, <2>3 DEF Spoken
  <1>5. CASE CamReadsPd \/ CamReadsAuth \/ CamReadsAnswer \/ LinkDrops
    <2>1. UNCHANGED <<world, c2h, owed>>
      BY <1>5 DEF CamReadsPd, CamReadsAuth, CamReadsAnswer, LinkDrops, CamReads, hostVars, camVars
    <2> QED  BY <2>1 DEF Spoken
  <1>6. CASE CamReadsSc
    <2>1. UNCHANGED <<world, c2h>>  BY <1>6 DEF CamReadsSc, CamReads, hostVars
    <2>2. PICK b : owed' = Append(owed, Msg(ScRsp, Default, b))
      BY <1>6, Zenon DEF CamReadsSc
    <2>3. Faithful(world, Msg(ScRsp, Default, b))
      BY MsgIs DEF Faithful, IsListing, ScRsp, LegacyRsp
    <2>4. owed' \in Seq(Sayable(world))  BY <1>2, <2>2, <2>3, SaysMore DEF Spoken
    <2> QED  BY <2>1, <2>4 DEF Spoken
  <1>7. CASE CamReadsQuery
    <2>1. UNCHANGED <<world, c2h>>  BY <1>7 DEF CamReadsQuery, CamReads, hostVars
    <2>2. \E m : Faithful(world, m) /\ owed' = Append(owed, m)
      <3>1. CASE world.legacy /\ owed' = Append(owed, Msg(LegacyRsp, Head(h2c).s, <<>>))
        <4>1. ~world.good  BY <1>3, <3>1, WorldAssumption DEF Favourable
        <4>2. Faithful(world, Msg(LegacyRsp, Head(h2c).s, <<>>))
          BY <4>1, MsgIs DEF Faithful, IsListing, CapexRsp, LegacyRsp
        <4> QED  BY <3>1, <4>2
      <3>2. CASE \E o \in world.offers : \E b \in Cut(CapexResponse(2, o)) :
                   owed' = Append(owed, Msg(CapexRsp, Head(h2c).s, b))
        <4>1. PICK o \in world.offers : \E b \in Cut(CapexResponse(2, o)) :
                     owed' = Append(owed, Msg(CapexRsp, Head(h2c).s, b))
          BY <3>2
        <4>2. PICK b \in Cut(CapexResponse(2, o)) :
                     owed' = Append(owed, Msg(CapexRsp, Head(h2c).s, b))
          BY <4>1
        <4>3. IsOffered(world, b)  BY <1>3, CutsAreOffered
        <4>4. Faithful(world, Msg(CapexRsp, Head(h2c).s, b))
          BY <4>3, MsgIs DEF Faithful, IsListing, CapexRsp, LegacyRsp
        <4> QED  BY <4>2, <4>4
      <3> QED  BY <1>7, <3>1, <3>2 DEF CamReadsQuery
    <2>3. owed' \in Seq(Sayable(world))  BY <1>2, <2>2, SaysMore DEF Spoken
    <2> QED  BY <2>1, <2>3 DEF Spoken
  <1>8. CASE CamReplies
    <2>1. /\ owed # <<>> /\ c2h' = Append(c2h, Head(owed)) /\ owed' = Tail(owed)
          /\ world' = world
      BY <1>8 DEF CamReplies, hostVars
    <2> DEFINE S == Sayable(world)
    <2>2. c2h \in Seq(S) /\ owed \in Seq(S)  BY DEF Spoken
    <2> HIDE DEF S
    <2>3. c2h' \in Seq(S) /\ owed' \in Seq(S)  BY <2>1, <2>2, SaysLess, AppendProperties
    <2> QED  BY <2>1, <2>3 DEF Spoken, S
  <1>9. CASE CamAsks
    <2>1. PICK k \in {Query, LegacyQuery} \X QuerySessions(world) :
            c2h' = Append(c2h, Msg(k[1], k[2], <<>>))
      BY <1>9 DEF CamAsks, MayAsk
    <2>2. UNCHANGED <<world, owed>>  BY <1>9 DEF CamAsks, MayAsk, hostVars
    <2>3. Faithful(world, Msg(k[1], k[2], <<>>))
      <3>1. k[1] \in {Query, LegacyQuery}  OBVIOUS
      <3> QED  BY <3>1, MsgIs DEF Faithful, IsListing, Query, LegacyQuery, CapexRsp, LegacyRsp
    <2>4. c2h' \in Seq(Sayable(world))  BY <1>1, <2>1, <2>3, SaysMore DEF Spoken
    <2> QED  BY <2>2, <2>4 DEF Spoken
  <1>10. CASE Camera
    BY <1>4, <1>5, <1>6, <1>7, <1>8, <1>10 DEF Camera
  <1>11. CASE CamTears
    <2>1. UNCHANGED <<world, c2h, owed>>  BY <1>11, TearsLeave
    <2> QED  BY <2>1 DEF Spoken
  <1> QED  BY <1>5, <1>9, <1>10, <1>11
-----------------------------------------------------------------------------
(* What the host learns.                                                   *)

LEMMA GrantsSessions ==
  ASSUME NEW g \in Granting, NEW d \in {1, 10}
  PROVE  FirstOr(g, d) \in Sessions
  <1>1. FirstOr(g, 1) \in Sessions  BY GrantingIs
  <1>2. CASE g = <<>>  BY <1>2 DEF FirstOr, Sessions, Default
  <1>3. CASE g # <<>>  BY <1>1, <1>3 DEF FirstOr
  <1> QED  BY <1>2, <1>3

LEMMA GrantedRead ==
  ASSUME HInv, pc \in SlpPcs, c2h # <<>>, IsScRsp(Head(c2h)),
         ScStatus(Head(c2h).b) = "granted", NEW d \in {1, 10}
  PROVE  FirstOr(ScSessions(Head(c2h).b), d) \in Sessions
  <1> DEFINE b == Head(c2h).b
  <1>1. Head(c2h) \in SaidUp  BY UpWhenRead
  <1>2. IsSc(Head(c2h), ScRsp)  BY DEF IsScRsp, IsSc
  <1>3. b \in ScBodies  BY <1>1, <1>2, SaidUpIs
  <1>4. \A g \in Granting : b \notin Refusals(g)  BY ScAnswers
  <1> HIDE DEF b
  <1>5. PICK g \in Granting : b = ScResponse(0, g)  BY <1>3, <1>4 DEF ScBodies
  <1>6. ScSessions(b) = g  BY <1>5, ScAnswers
  <1>7. FirstOr(ScSessions(b), d) \in Sessions  BY <1>6, GrantsSessions
  <1> QED  BY <1>7 DEF b

\* A frame of type 2 that comes while the component is asked for is a listing.
LEMMA LearnedIsListing ==
  ASSUME HInv, Spoken, pc = "query", c2h # <<>>, Head(c2h).t = CapexRsp
  PROVE  IsOffered(world, Head(c2h).b)
  <1> DEFINE m == Head(c2h)
  <1>1. pc \in SlpPcs  BY DEF SlpPcs
  <1>2. ~Has(c2h, ScRsp)  BY <1>1, UpWhenRead DEF HInv, OneSc
  <1>3. 1 \in DOMAIN c2h /\ m = c2h[1]
    <2>1. c2h \in Seq(Said)  BY DEF HInv, Typed
    <2> HIDE DEF Said
    <2> QED  BY <2>1
  <1>4. ~IsSc(m, ScRsp)  BY <1>2, <1>3 DEF Has
  <1>5. IsListing(m)  BY <1>4 DEF IsSc, IsListing, ScRsp, CapexRsp
  <1>6. m \in Sayable(world)
    <2> DEFINE S == Sayable(world)
    <2>1. c2h \in Seq(S)  BY DEF Spoken
    <2> HIDE DEF S, m
    <2>2. m \in S  BY <2>1, SaysLess DEF m
    <2> QED  BY <2>2 DEF S
  <1> QED  BY <1>5, <1>6 DEF Sayable, Faithful

\* A listing that names one component is taken for that one.
LEMMA NamedIsTaken ==
  ASSUME NEW services \in Seq(Agents), NEW c, Named(services) = {c}
  PROVE  ComponentOf(services) = c
  <1> DEFINE at == {i \in DOMAIN services : Serves(services[i])}
  <1>0. DOMAIN services = 1 .. Len(services)  OBVIOUS
  <1>1. \A i \in 1 .. Len(services) : Serves(services[i]) => services[i].componentId = c
    <2> SUFFICES ASSUME NEW i \in 1 .. Len(services), Serves(services[i])
                 PROVE  services[i].componentId = c
      OBVIOUS
    <2>1. i \in at  BY <1>0
    <2>2. services[i].componentId \in Named(services)  BY <2>1, Zenon DEF Named
    <2> QED  BY <2>2
  <1>2. \E i \in 1 .. Len(services) : Serves(services[i])
    <2>1. PICK i \in at : TRUE
      <3>1. c \in Named(services)  OBVIOUS
      <3> QED  BY <3>1, Zenon DEF Named
    <2> QED  BY <1>0, <2>1
  <1>3. CASE ComponentOf(services) = 0 /\ \A i \in 1 .. Len(services) : ~Serves(services[i])
    BY <1>2, <1>3
  <1>4. CASE \E i \in 1 .. Len(services) : /\ ComponentOf(services) = services[i].componentId
                                           /\ Serves(services[i])
    BY <1>1, <1>4
  <1> QED  BY <1>3, <1>4, ComponentIs

\* What is taken from it is a component that it lists with the profile, or none.
LEMMA OfferedIsListed ==
  ASSUME world \in Worlds, NEW b, IsOffered(world, b)
  PROVE  LET c == ComponentOf(parse_capex_response(b))
         IN c \in Words /\ (c # 0 => Listed(c)) /\ (world.good => c = CompId)
  <1> DEFINE out == parse_capex_response(b)
             c == ComponentOf(out)
  <1>1. PICK o \in world.offers : /\ b \in Seq(Nat) /\ Starts(b, CapexResponse(2, o))
                                  /\ world.good => b = CapexResponse(2, o)
    BY DEF IsOffered
  <1>2. Listable(o) /\ (world.good => ComponentOf(Listing(o)) = CompId)
    <2>1. Listable(o) /\ (world.good => Named(Listing(o)) = {CompId})
      BY WorldAssumption DEF Favourable
    <2>2. Listing(o) \in Seq(Agents)  BY <2>1, ListingTyped
    <2> QED  BY <2>1, <2>2, NamedIsTaken
  <1> DEFINE r == CapexResponse(2, o)
             all == Listing(o)
  <1>3. /\ out \in Seq(Agents) /\ Starts(out, all)
        /\ Len(b) = Len(r) => out = all
    <2>1. 2 \in Nat  OBVIOUS
    <2> QED  BY <1>1, <1>2, <2>1, CapexIsRead
  <1>4. all \in Seq(Agents)  BY <1>2, ListingTyped
  <1>5. world.good => c = CompId
    <2> HIDE DEF all, out, r
    <2>1. ASSUME world.good PROVE c = ComponentOf(all)
      <3>1. b = r  BY <1>1, <2>1 DEF r
      <3> QED  BY <1>3, <3>1
    <2> QED  BY <1>2, <2>1 DEF all
  <1> HIDE DEF out, r
  <1>6. \/ c = 0
        \/ \E i \in 1 .. Len(all) : /\ all[i].componentId = c
                                    /\ Serves(all[i]) /\ all[i] \in Agents
    <2> HIDE DEF all
    <2> QED  BY <1>3, <1>4, ComponentIsListed
  <1>7. CASE c = 0  BY <1>5, <1>7, WordsTyped DEF out, Words
  <1>8. CASE c # 0
    <2>1. PICK i \in 1 .. Len(all) : /\ all[i].componentId = c
                                     /\ Serves(all[i]) /\ all[i] \in Agents
      BY <1>6, <1>8
    <2> DEFINE a == all[i]
    <2>2. c \in Words
      <3> HIDE DEF a, c
      <3>1. a \in Agents /\ a.componentId = c  BY <2>1 DEF a
      <3> QED  BY <3>1 DEF Agents
    <2>3. PICK j \in DOMAIN o : \E k \in DOMAIN o[j].agents : o[j].agents[k] = a
      BY <1>2, ListingHolds
    <2>4. PICK k \in DOMAIN o[j].agents : o[j].agents[k] = a  BY <2>3
    <2>5. o[j].agents[k].componentId = c /\ Serves(o[j].agents[k])  BY <2>1, <2>4
    <2> HIDE DEF a, c, all
    <2>6. Listed(c)  BY <1>1, <2>3, <2>4, <2>5 DEF Listed
    <2> QED  BY <1>5, <2>2, <2>6 DEF c, out
  <1> QED  BY <1>7, <1>8

-----------------------------------------------------------------------------
(* The types, and what the service is requested of.                        *)

LInv == HInv /\ Spoken /\ TypeOK /\ AcceptorListed

LEMMA ZeroIsWord == 0 \in Words
  BY SMT DEF Words

\* What TypeOK adds to the types of HInv.
TypedToo == /\ Counted /\ handled \in BOOLEAN /\ csid \in 0 .. Default
            /\ acceptor \in Words /\ cmd \in 0 .. Default
            /\ link \in BOOLEAN /\ torn \in BOOLEAN /\ granted \in 0 .. Default

LEMMA TypesAre ==
  ASSUME HInv
  PROVE  TypeOK => TypedToo
  <1>1. /\ pc \in {"pd", "pdok", "authreq", "confirm", "capexsc", "serve", "ask",
                   "query", "request", "svcsc", "connected", "failed", "closed"}
        /\ cam \in {"pd", "rsp", "ok", "chal", "auth", "conf", "sc", "up"}
    BY DEF HInv, Typed, PlainPcs, LatePcs
  <1> QED  BY <1>1, Zenon DEF TypeOK, TypedToo, Counted, AllTries

LEMMA TypesNext ==
  ASSUME HInv', TypedToo'
  PROVE  TypeOK'
  <1>1. /\ pc' \in {"pd", "pdok", "authreq", "confirm", "capexsc", "serve", "ask",
                    "query", "request", "svcsc", "connected", "failed", "closed"}
        /\ cam' \in {"pd", "rsp", "ok", "chal", "auth", "conf", "sc", "up"}
    BY DEF HInv, Typed, PlainPcs, LatePcs
  <1> QED  BY <1>1, Zenon DEF TypeOK, TypedToo, Counted, AllTries

LEMMA LHost ==
  ASSUME LInv, Host
  PROVE  TypedToo' /\ AcceptorListed'
  <1>1. HInv /\ Spoken /\ TypedToo /\ AcceptorListed  BY TypesAre DEF LInv
  <1>2. /\ handled \in BOOLEAN /\ csid \in 0 .. Default /\ acceptor \in Words
        /\ cmd \in 0 .. Default /\ granted \in 0 .. Default /\ link \in BOOLEAN /\ Counted
    BY <1>1 DEF TypedToo
  <1>3. Sessions \subseteq 0 .. Default  BY DEF Sessions, Default
  <1>4. UNCHANGED camVars  BY HostReads
  <1>5. world' = world /\ granted' = granted  BY <1>4 DEF camVars
  <1>6. link' = link \/ link' = FALSE  BY HostReads
  <1>7. Settles \/ TakesCapex \/ TakesService \/ Learns \/ Handles  BY <1>2, HostSettles
  <1>8. Counts  BY <1>7 DEF Settles, TakesCapex, TakesService, Learns, Handles
  <1>9. Counted'  BY <1>2, <1>8, CountsCounted
  <1>10. /\ handled' \in BOOLEAN /\ csid' \in 0 .. Default /\ cmd' \in 0 .. Default
         /\ acceptor' \in Words /\ (acceptor' # 0 => Listed(acceptor'))
    <2>0. acceptor # 0 => Listed(acceptor)  BY <1>1 DEF AcceptorListed
    <2>1. CASE Settles  BY <1>2, <2>0, <2>1 DEF Settles
    <2>2. CASE Handles  BY <1>2, <2>0, <2>2 DEF Handles
    <2>3. CASE TakesCapex
      <3>1. /\ pc = "capexsc" /\ c2h # <<>> /\ IsScRsp(Head(c2h))
            /\ ScStatus(Head(c2h).b) = "granted"
            /\ csid' = FirstOr(ScSessions(Head(c2h).b), 1)
            /\ UNCHANGED <<handled, acceptor, cmd>>
        BY <2>3 DEF TakesCapex, ScGranted, SlpFrame
      <3>2. csid' \in Sessions  BY <1>1, <3>1, GrantedRead DEF SlpPcs
      <3> QED  BY <1>2, <1>3, <2>0, <3>1, <3>2
    <2>4. CASE TakesService
      <3>1. /\ pc = "svcsc" /\ c2h # <<>> /\ IsScRsp(Head(c2h))
            /\ ScStatus(Head(c2h).b) = "granted"
            /\ cmd' = FirstOr(ScSessions(Head(c2h).b), 10)
            /\ UNCHANGED <<handled, csid, acceptor>>
        BY <2>4 DEF TakesService, ScGranted, SlpFrame
      <3>2. cmd' \in Sessions  BY <1>1, <3>1, GrantedRead DEF SlpPcs
      <3> QED  BY <1>2, <1>3, <2>0, <3>1, <3>2
    <2>5. CASE Learns
      <3>1. /\ pc = "query" /\ c2h # <<>> /\ UNCHANGED <<handled, csid, cmd>>
            /\ acceptor' = (IF Head(c2h).t = CapexRsp
                            THEN ComponentOf(parse_capex_response(Head(c2h).b)) ELSE 0)
        BY <2>5 DEF Learns, SlpFrame
      <3>2. CASE Head(c2h).t # CapexRsp
        <4>1. acceptor' = 0 /\ 0 \in Words  BY <3>1, <3>2, ZeroIsWord
        <4> QED  BY <1>2, <3>1, <4>1
      <3>3. CASE Head(c2h).t = CapexRsp
        <4>1. IsOffered(world, Head(c2h).b)  BY <1>1, <3>1, <3>3, LearnedIsListing
        <4>2. world \in Worlds  BY <1>1 DEF HInv, Typed
        <4>3. acceptor' \in Words /\ (acceptor' # 0 => Listed(acceptor'))
          BY <3>1, <3>3, <4>1, <4>2, OfferedIsListed
        <4> QED  BY <1>2, <3>1, <4>3
      <3> QED  BY <3>2, <3>3
    <2> QED  BY <1>7, <2>1, <2>2, <2>3, <2>4, <2>5
  <1>11. AcceptorListed'  BY <1>5, <1>10 DEF AcceptorListed, Listed
  <1>12. link' \in BOOLEAN /\ torn' \in BOOLEAN
    <2>1. torn' = torn /\ torn \in BOOLEAN  BY <1>1, <1>4 DEF camVars, TypedToo
    <2> QED  BY <1>2, <1>6, <2>1
  <1> QED  BY <1>2, <1>5, <1>9, <1>10, <1>11, <1>12 DEF TypedToo

LEMMA LCamera ==
  ASSUME LInv, Camera \/ CamAsks \/ CamTears \/ LinkDrops
  PROVE  TypedToo' /\ AcceptorListed'
  <1>1. HInv /\ TypedToo /\ AcceptorListed  BY TypesAre DEF LInv
  <1>2. UNCHANGED hostVars /\ link' \in {link, FALSE}
    BY Zenon DEF Camera, CamAsks, CamTears, LinkDrops, CamSpeaks, CamWrites, CamReadsPd,
       CamReadsAuth, CamReadsSc, CamReadsQuery, CamReadsAnswer, CamReads, CamReplies, camVars,
       hostVars
  <1>7. torn' \in {torn, TRUE, FALSE}
    BY Zenon DEF Camera, CamAsks, CamTears, LinkDrops, CamSpeaks, CamWrites, CamReadsPd,
       CamReadsAuth, CamReadsSc, CamReadsQuery, CamReadsAnswer, CamReads, CamReplies, camVars
  <1>3. granted' \in 0 .. Default
    <2>1. granted \in 0 .. Default  BY <1>1 DEF TypedToo
    <2>2. CASE CamReadsSc
      <3>1. \E g \in world.capex \cup world.svc :
              granted' \in {granted, IF g = <<>> THEN 10 ELSE g[1]}
        BY <2>2, Zenon DEF CamReadsSc
      <3>2. PICK g \in world.capex \cup world.svc :
              granted' \in {granted, IF g = <<>> THEN 10 ELSE g[1]}
        BY <3>1
      <3>3. g \in Granting
        <4>1. world \in Worlds  BY <1>1 DEF HInv, Typed
        <4> QED  BY <4>1, WorldAssumption
      <3>4. (IF g = <<>> THEN 10 ELSE g[1]) \in Sessions
        <4>1. FirstOr(g, 10) \in Sessions  BY <3>3, GrantsSessions
        <4> QED  BY <4>1 DEF FirstOr
      <3>5. Sessions \subseteq 0 .. Default  BY DEF Sessions, Default
      <3> QED  BY <2>1, <3>2, <3>4, <3>5
    <2>3. CASE ~CamReadsSc
      <3>1. granted' = granted
        BY <2>3, Zenon DEF Camera, CamAsks, CamTears, LinkDrops, CamSpeaks, CamWrites, CamReadsPd,
           CamReadsAuth, CamReadsQuery, CamReadsAnswer, CamReplies, camVars
      <3> QED  BY <2>1, <3>1
    <2> QED  BY <2>2, <2>3
  <1>4. UNCHANGED <<world, n, handled, csid, acceptor, cmd>>  BY <1>2 DEF hostVars
  <1>5. link' \in BOOLEAN /\ torn' \in BOOLEAN
    <2>1. torn \in BOOLEAN  BY <1>1 DEF TypedToo
    <2>2. torn' \in BOOLEAN  BY <1>7, <2>1
    <2> QED  BY <1>1, <1>2, <2>2 DEF TypedToo
  <1>6. AcceptorListed'  BY <1>1, <1>4 DEF AcceptorListed, Listed
  <1> QED  BY <1>1, <1>3, <1>4, <1>5, <1>6 DEF TypedToo, Counted

LEMMA LNext == LInv /\ [Next]_vars => LInv'
  <1> SUFFICES ASSUME LInv, [Next]_vars PROVE LInv'  OBVIOUS
  <1>1. HInv /\ Spoken /\ TypedToo /\ AcceptorListed  BY TypesAre DEF LInv
  <1>2. HInv'  BY <1>1, HNext
  <1>3. TypedToo' => TypeOK'  BY <1>2, TypesNext
  <1>4. CASE Host
    BY <1>1, <1>2, <1>3, <1>4, LHost, SpokenHost DEF LInv
  <1>5. CASE Camera \/ CamAsks \/ CamTears \/ LinkDrops
    BY <1>1, <1>2, <1>3, <1>5, LCamera, SpokenCamera DEF LInv
  <1>6. CASE UNCHANGED vars
    <2>1. UNCHANGED <<world, n, handled, csid, acceptor, cmd, c2h, owed, link, granted, torn>>
      BY <1>6 DEF vars, hostVars, camVars
    <2>2. Spoken'  BY <1>1, <2>1 DEF Spoken
    <2>3. AcceptorListed'  BY <1>1, <2>1 DEF AcceptorListed, Listed
    <2>4. TypedToo'  BY <1>1, <2>1 DEF TypedToo, Counted
    <2> QED  BY <1>2, <1>3, <2>2, <2>3, <2>4 DEF LInv
  <1> QED  BY <1>4, <1>5, <1>6 DEF Next, Done

LEMMA LInit == Init => LInv
  <1> SUFFICES ASSUME Init PROVE LInv  OBVIOUS
  <1>1. HInv  BY HInit
  <1>2. Spoken
    <2> DEFINE S == Sayable(world)
    <2>1. c2h = <<>> /\ owed = <<>>  BY DEF Init
    <2> HIDE DEF S
    <2>2. <<>> \in Seq(S)  OBVIOUS
    <2> QED  BY <2>1, <2>2 DEF Spoken, S
  <1>3. /\ n = 0 /\ handled = FALSE /\ csid = 0 /\ acceptor = 0 /\ cmd = 0
        /\ link = TRUE /\ torn = FALSE /\ granted = 0
    BY DEF Init
  <1>4. Counted
    <2>1. ScTries \in AllTries /\ ScTries \in Nat \ {0}  BY TriesTyped DEF AllTries
    <2>2. 0 \in 0 .. ScTries - 1  BY <2>1
    <2> QED  BY <1>3, <2>1, <2>2 DEF Counted
  <1>5. 0 \in 0 .. Default /\ 0 \in Words  BY ZeroIsWord DEF Default
  <1>6. TypedToo  BY <1>3, <1>4, <1>5 DEF TypedToo
  <1>7. AcceptorListed  BY <1>3 DEF AcceptorListed
  <1>8. TypeOK
    <2>1. pc = "pd" /\ cam = "pd"  BY DEF Init
    <2> QED  BY <1>6, <2>1, Zenon DEF TypeOK, TypedToo, Counted, AllTries
  <1> QED  BY <1>1, <1>2, <1>7, <1>8 DEF LInv

LEMMA LInvariant == Spec => []LInv
  BY LInit, LNext, PTL DEF Spec

\* The numbers of the session stay in their ranges: no loop runs over its bound,
\* sessions and components are what two bytes hold, whatever the camera sends.
THEOREM TypeCorrect == Spec => []TypeOK
  <1>1. LInv => TypeOK  BY DEF LInv
  <1> QED  BY <1>1, LInvariant, PTL

\* Whatever the camera lists, and wherever its response is cut, the component the
\* service is requested of is one it listed with the profile, or none: the loops
\* of parse_capex_response never take a number out of the middle of a record.
THEOREM AcceptorIsListed == Spec => []AcceptorListed
  <1>1. LInv => AcceptorListed  BY DEF LInv
  <1> QED  BY <1>1, LInvariant, PTL
-----------------------------------------------------------------------------
(* The component is asked for as long as it takes to hear of it.           *)

\* The camera asks no more than its world lets it.
Within == \A k \in QueryKinds : /\ asked[k] <= MaxQueries
                                /\ asked[k] > 0 => k[2] \in QuerySessions(world)

\* The host's query is under way, or what answers it is.
IsOwn(m) == m.t = Query /\ m.s # Default
Wanted(ch) == \E i \in DOMAIN ch : IsOwn(ch[i])
Learnt(ch) == \E i \in DOMAIN ch : IsListing(ch[i])
UnderWay == Wanted(h2c) \/ Learnt(owed) \/ Learnt(c2h)

\* The questions answered so far, each of which may have cost an iteration.
Spent == {d \in Askable(world) : d[2] <= Given[d[1]]}

Kept == /\ link
        /\ pc = "query" => UnderWay /\ n <= Cardinality(Spent)
        /\ pc \in {"request", "svcsc", "connected"} => acceptor = CompId
GoodOnes == world.good /\ Alive => Kept
RInv == LInv /\ NoQueryUnanswered /\ Within /\ GoodOnes

LEMMA Longer ==
  ASSUME NEW S, NEW ch \in Seq(S), NEW x
  PROVE  /\ Wanted(ch) \/ IsOwn(x) => Wanted(Append(ch, x))
         /\ Learnt(ch) \/ IsListing(x) => Learnt(Append(ch, x))
  <1> DEFINE all == Append(ch, x)
             A == S \cup {x}
  <1>1. ch \in Seq(A) /\ x \in A
    <2>1. S \subseteq A /\ x \in A  OBVIOUS
    <2> HIDE DEF A
    <2> QED  BY <2>1, SeqMonotonic
  <1> HIDE DEF A
  <1>2. /\ Len(ch) \in Nat /\ DOMAIN ch = 1 .. Len(ch) /\ DOMAIN all = 1 .. Len(ch) + 1
        /\ \A i \in 1 .. Len(ch) : all[i] = ch[i]
        /\ all[Len(ch) + 1] = x
    BY <1>1, Ends
  <1> HIDE DEF all
  <1>3. /\ \A i \in DOMAIN ch : i \in DOMAIN all /\ all[i] = ch[i]
        /\ Len(ch) + 1 \in DOMAIN all /\ all[Len(ch) + 1] = x
    BY <1>2
  <1>4. Wanted(ch) \/ IsOwn(x) => Wanted(all)  BY <1>3 DEF Wanted
  <1>5. Learnt(ch) \/ IsListing(x) => Learnt(all)  BY <1>3 DEF Learnt
  <1> QED  BY <1>4, <1>5 DEF all

LEMMA Shorter ==
  ASSUME NEW S, NEW ch \in Seq(S), ch # <<>>
  PROVE  /\ Wanted(ch) /\ ~IsOwn(Head(ch)) => Wanted(Tail(ch))
         /\ Learnt(ch) /\ ~IsListing(Head(ch)) => Learnt(Tail(ch))
  <1> DEFINE T == Tail(ch)
  <1>1. /\ Len(ch) \in Nat \ {0} /\ DOMAIN ch = 1 .. Len(ch)
        /\ DOMAIN T = 1 .. Len(ch) - 1
        /\ \A i \in 1 .. Len(ch) - 1 : T[i] = ch[i + 1]
        /\ Head(ch) = ch[1]
    BY HeadTailProperties
  <1> HIDE DEF T
  <1>2. \A i \in DOMAIN ch : i = 1 \/ (i - 1 \in DOMAIN T /\ T[i - 1] = ch[i])
    <2> SUFFICES ASSUME NEW i \in DOMAIN ch, i # 1
                 PROVE  i - 1 \in DOMAIN T /\ T[i - 1] = ch[i]
      OBVIOUS
    <2>1. i - 1 \in 1 .. Len(ch) - 1 /\ (i - 1) + 1 = i  BY <1>1
    <2> QED  BY <1>1, <2>1
  <1>3. Wanted(ch) /\ ~IsOwn(Head(ch)) => Wanted(T)  BY <1>1, <1>2 DEF Wanted
  <1>4. Learnt(ch) /\ ~IsListing(Head(ch)) => Learnt(T)  BY <1>1, <1>2 DEF Learnt
  <1> QED  BY <1>3, <1>4 DEF T

LEMMA NoneIn == ~Wanted(<<>>) /\ ~Learnt(<<>>)
  BY DEF Wanted, Learnt

LEMMA IsGood ==
  ASSUME HInv, world.good
  PROVE  Favourable(world)
  BY WorldAssumption DEF HInv, Typed

\* What was answered stays answered.
LEMMA GivenGrows ==
  ASSUME Typed, Effect, Alive'
  PROVE  \A k \in QueryKinds : Given[k] <= Given'[k]
  <1> SUFFICES ASSUME NEW k \in QueryKinds PROVE Given[k] <= Given'[k]  OBVIOUS
  <1>1. Given \in [QueryKinds -> Nat]  BY CountsTyped
  <1>2. CASE Given' = Given  BY <1>1, <1>2
  <1>3. CASE \E j \in QueryKinds : Gives(j)
    <2>1. PICK j \in QueryKinds : Given' = [Given EXCEPT ![j] = @ + 1]  BY <1>3 DEF Gives
    <2> QED  BY <1>1, <2>1
  <1> QED  BY <1>2, <1>3 DEF Effect, Same, Puts

LEMMA SpentIs ==
  ASSUME HInv, world.good, Effect, Alive', world' = world
  PROVE  /\ Spent \subseteq Spent' /\ Spent' \subseteq Askable(world)
         /\ IsFiniteSet(Spent') /\ Cardinality(Spent') \in Nat
         /\ Cardinality(Spent) <= Cardinality(Spent') /\ Cardinality(Spent) \in Nat
         /\ Cardinality(Spent') < QueryTries
  <1>1. Typed /\ world \in Worlds  BY DEF HInv, Typed
  <1>2. \A k \in QueryKinds : Given[k] <= Given'[k]  BY <1>1, GivenGrows
  <1>3. Given \in [QueryKinds -> Nat] /\ Given' \in [QueryKinds -> Int]
    <2>1. Given \in [QueryKinds -> Nat]  BY <1>1, CountsTyped
    <2>2. CASE Given' = Given  BY <2>1, <2>2
    <2>3. CASE \E j \in QueryKinds : Gives(j)
      <3>1. PICK j \in QueryKinds : Given' = [Given EXCEPT ![j] = @ + 1]  BY <2>3 DEF Gives
      <3> QED  BY <2>1, <3>1
    <2> QED  BY <2>2, <2>3 DEF Effect, Same, Puts
  <1>4. ASSUME NEW d \in Askable(world)
        PROVE  d[1] \in QueryKinds /\ d[2] \in Nat
    <2>1. d[1] \in {Query, LegacyQuery} \X QuerySessions(world) /\ d[2] \in 1 .. MaxQueries
      BY DEF Askable
    <2>2. MaxQueries \in Nat  BY WorldAssumption
    <2> QED  BY <1>1, <2>1, <2>2 DEF QueryKinds
  <1>5. Spent' = {d \in Askable(world) : d[2] <= Given'[d[1]]}  BY DEF Spent, Askable
  <1>6. Spent \subseteq Spent'
    <2> SUFFICES ASSUME NEW d \in Spent PROVE d \in Spent'  OBVIOUS
    <2>1. d \in Askable(world) /\ d[2] <= Given[d[1]]  BY DEF Spent
    <2>2. d[2] <= Given'[d[1]]
      <3> DEFINE x == d[2]
                 y == Given[d[1]]
                 z == Given'[d[1]]
      <3>1. x \in Nat /\ y \in Nat /\ z \in Int /\ y <= z /\ x <= y
        BY <1>2, <1>3, <1>4, <2>1
      <3> HIDE DEF x, y, z
      <3>2. x <= z  BY <3>1
      <3> QED  BY <3>2 DEF x, z
    <2> QED  BY <1>5, <2>1, <2>2
  <1>7. /\ IsFiniteSet(Askable(world)) /\ Cardinality(Askable(world)) < QueryTries
    BY IsGood DEF Favourable
  <1>8. /\ Spent' \subseteq Askable(world) /\ IsFiniteSet(Spent')
        /\ Cardinality(Spent') <= Cardinality(Askable(world))
    <2>1. Spent' \subseteq Askable(world)  BY <1>5
    <2> QED  BY <1>7, <2>1, FS_Subset
  <1>9. IsFiniteSet(Spent) /\ Cardinality(Spent) <= Cardinality(Spent')
    BY <1>6, <1>8, FS_Subset
  <1>10. /\ Cardinality(Spent) \in Nat /\ Cardinality(Spent') \in Nat
         /\ Cardinality(Askable(world)) \in Nat
    BY <1>7, <1>8, <1>9, FS_CardinalityType
  <1>11. Cardinality(Spent') < QueryTries
    <2>1. QueryTries \in Nat  BY WorldAssumption
    <2> QED  BY <1>7, <1>8, <1>10, <2>1
  <1> QED  BY <1>6, <1>8, <1>9, <1>10, <1>11

\* The camera's steps keep the query, or the answer to it, under way.
LEMMA UnderWayCamera ==
  ASSUME HInv, Spoken, world.good, cam = "up", UnderWay,
         Camera \/ CamAsks \/ CamTears
  PROVE  UnderWay'
  <1>1. c2h \in Seq(Said) /\ h2c \in Seq(Told) /\ owed \in Seq(Replies)
    BY DEF HInv, Typed
  <1> HIDE DEF Said, Told, Replies, HInv
  <1>2. CASE CamSpeaks \/ CamReadsPd \/ CamReadsAuth
    BY <1>2 DEF CamSpeaks, CamReadsPd, CamReadsAuth
  <1>3. CASE CamReadsSc
    <2>1. h2c # <<>> /\ h2c' = Tail(h2c) /\ c2h' = c2h /\ Head(h2c).s = Default
      BY <1>3 DEF CamReadsSc, CamReads
    <2>2. PICK b : owed' = Append(owed, Msg(ScRsp, Default, b))
      BY <1>3, Zenon DEF CamReadsSc
    <2>3. Wanted(h2c) => Wanted(h2c')  BY <1>1, <2>1, Shorter DEF IsOwn
    <2>4. Learnt(owed) => Learnt(owed')  BY <1>1, <2>2, Longer
    <2> QED  BY <2>1, <2>3, <2>4 DEF UnderWay
  <1>4. CASE CamReadsQuery
    <2>1. c2h' = c2h /\ Head(h2c).s # Default
      BY <1>4 DEF CamReadsQuery, CamReads
    <2>2. ~world.legacy  BY IsGood DEF Favourable
    <2>3. PICK b : owed' = Append(owed, Msg(CapexRsp, Head(h2c).s, b))
      BY <1>4, <2>2, Zenon DEF CamReadsQuery
    <2>4. IsListing(Msg(CapexRsp, Head(h2c).s, b))  BY <2>1, MsgIs DEF IsListing
    <2>5. Learnt(owed')  BY <1>1, <2>3, <2>4, Longer
    <2> QED  BY <2>5 DEF UnderWay
  <1>5. CASE CamReadsAnswer
    <2>1. /\ h2c # <<>> /\ h2c' = Tail(h2c) /\ UNCHANGED <<c2h, owed>>
          /\ Head(h2c).t \in {CapexRsp, LegacyRsp}
      BY <1>5 DEF CamReadsAnswer, CamReads
    <2>2. ~IsOwn(Head(h2c))  BY <2>1 DEF IsOwn, Query, CapexRsp, LegacyRsp
    <2>3. Wanted(h2c) => Wanted(h2c')  BY <1>1, <2>1, <2>2, Shorter
    <2> QED  BY <2>1, <2>3 DEF UnderWay
  <1>6. CASE CamReplies
    <2>1. /\ owed # <<>> /\ owed' = Tail(owed) /\ c2h' = Append(c2h, Head(owed))
          /\ h2c' = h2c
      BY <1>6 DEF CamReplies
    <2>2. Learnt(c2h) \/ IsListing(Head(owed)) => Learnt(c2h')  BY <1>1, <2>1, Longer
    <2>3. Learnt(owed) /\ ~IsListing(Head(owed)) => Learnt(owed')  BY <1>1, <2>1, Shorter
    <2> QED  BY <2>1, <2>2, <2>3 DEF UnderWay
  <1>7. CASE CamAsks
    <2>1. PICK k \in {Query, LegacyQuery} \X QuerySessions(world) :
            c2h' = Append(c2h, Msg(k[1], k[2], <<>>))
      BY <1>7 DEF CamAsks, MayAsk
    <2>2. UNCHANGED <<h2c, owed>>  BY <1>7 DEF CamAsks, MayAsk
    <2>3. Learnt(c2h) => Learnt(c2h')  BY <1>1, <2>1, Longer
    <2> QED  BY <2>2, <2>3 DEF UnderWay
  <1>8. CASE CamTears
    <2>1. UNCHANGED <<c2h, h2c, owed>>  BY <1>8, TearsLeave
    <2> QED  BY <2>1 DEF UnderWay
  <1> QED  BY <1>2, <1>3, <1>4, <1>5, <1>6, <1>7, <1>8 DEF Camera

LEMMA Iterations ==
  ASSUME LInv
  PROVE  HInv /\ Spoken /\ Typed /\ world \in Worlds /\ n \in Nat
  <1>1. Counted  BY TypesAre DEF LInv, TypedToo
  <1>2. PICK t \in AllTries : n \in 0 .. t - 1  BY <1>1 DEF Counted
  <1>3. n \in Nat  BY <1>2, TriesTyped
  <1> QED  BY <1>3 DEF LInv, HInv, Typed

LEMMA KeptCamera ==
  ASSUME LInv, Effect, world.good, Alive, Kept, Alive',
         Camera \/ CamAsks \/ CamTears \/ LinkDrops
  PROVE  Kept'
  <1>0. HInv /\ Spoken /\ n \in Nat  BY Iterations
  <1>1. ~LinkDrops  BY <1>0, IsGood DEF LinkDrops, Favourable
  <1>2. UNCHANGED <<world, pc, n, acceptor, link>>
    BY <1>1, Zenon DEF Camera, CamAsks, CamTears, CamSpeaks, CamWrites, CamReadsPd, CamReadsAuth,
       CamReadsSc, CamReadsQuery, CamReadsAnswer, CamReads, CamReplies, hostVars
  <1>3. ASSUME pc = "query" PROVE UnderWay' /\ n' <= Cardinality(Spent')
    <2>1. cam = "up"  BY <1>0, <1>3 DEF HInv, Turns, LatePcs
    <2>2. UnderWay'  BY <1>0, <1>1, <1>3, <2>1, UnderWayCamera DEF Kept
    <2>3. n \in Nat /\ n <= Cardinality(Spent)  BY <1>0, <1>3 DEF Kept
    <2>4. /\ Cardinality(Spent) \in Nat /\ Cardinality(Spent') \in Nat
          /\ Cardinality(Spent) <= Cardinality(Spent')
      BY <1>0, <1>2, SpentIs
    <2> QED  BY <1>2, <2>2, <2>3, <2>4
  <1> QED  BY <1>2, <1>3 DEF Kept

\* Where the host's steps lead that leave it alive.
LEMMA HostLeads ==
  ASSUME Host, Alive, Alive'
  PROVE  \/ pc' \in {"pdok", "authreq", "confirm", "capexsc", "serve", "ask"}
         \/ Ask /\ pc' = "query"
         \/ LearnComponent
         \/ /\ pc \in {"request", "svcsc"} /\ pc' \in {"svcsc", "connected"}
            /\ acceptor' = acceptor
  <1>1. ~Close /\ ~Fail  BY DEF Close, Fail, Alive
  <1>2. CASE ReadPd  BY <1>1, <1>2, Zenon DEF ReadPd, Say, Goto
  <1>3. CASE ReadPdOk \/ ReadAuthReq
    BY <1>1, <1>3, Zenon DEF ReadPdOk, ReadAuthReq, TakeChallenge, Say, Goto
  <1>4. CASE ReadConfirm
    <2>1. Say(CapexRequest, Goto("capexsc")) \/ Fail  BY <1>4 DEF ReadConfirm, CapexRequest
    <2> QED  BY <1>1, <2>1, Zenon DEF Say, Goto
  <1>5. CASE PlainNone  BY <1>1, <1>5, Zenon DEF PlainNone
  <1>6. CASE CapexSc
    <2>1. pc = "capexsc"
      BY <1>6, Zenon DEF CapexSc, ScGranted, ScRefused, ScWaits, SlpFrame, SlpNone
    <2>2. pc' = "serve" \/ pc' \in {pc, "failed"}
      BY <1>1, <1>6, Zenon DEF CapexSc, ScRefused, ScWaits, HandleCapex, Say, Iterate
    <2> QED  BY <2>1, <2>2 DEF Alive
  <1>7. CASE Serve \/ ServeNone
    <2>1. pc = "serve"  BY <1>7, Zenon DEF Serve, ServeNone, SlpFrame, SlpNone
    <2>2. pc' \in {pc, "ask"}
      BY <1>1, <1>7, Zenon DEF Serve, ServeNone, HandleCapex, Say, Iterate, Goto
    <2> QED  BY <2>1, <2>2
  <1>8. CASE Ask  BY <1>1, <1>8, Zenon DEF Ask, Say, Goto
  <1>9. CASE Request  BY <1>1, <1>9, Zenon DEF Request, Say, Goto
  <1>10. CASE SvcSc
    <2>1. pc = "svcsc"
      BY <1>10, Zenon DEF SvcSc, ScGranted, ScRefused, ScWaits, SlpFrame, SlpNone
    <2>2. acceptor' = acceptor /\ (pc' = "connected" \/ pc' \in {pc, "failed"})
      BY <1>1, <1>10, Zenon DEF SvcSc, ScRefused, ScWaits, HandleCapex, Say, Iterate
    <2> QED  BY <2>1, <2>2 DEF Alive
  <1> QED  BY <1>1, <1>2, <1>3, <1>4, <1>5, <1>6, <1>7, <1>8, <1>9, <1>10 DEF Host

\* A question answered is one more spent.
LEMMA OneSpent ==
  ASSUME RInv, world.good, Effect, Alive, Alive', world' = world,
         NEW k \in QueryKinds, Gives(k)
  PROVE  Cardinality(Spent) + 1 <= Cardinality(Spent')
  <1>0. HInv /\ Typed /\ world \in Worlds  BY Iterations DEF RInv
  <1> DEFINE d == <<k, Given[k] + 1>>
  <1>1. Given \in [QueryKinds -> Nat] /\ Waiting \in [QueryKinds -> Nat]
    BY <1>0, CountsTyped
  <1>2. asked[k] = Waiting[k] + Given[k] /\ Waiting[k] > 0
    BY DEF RInv, NoQueryUnanswered, Alive, Gives
  <1>3. asked[k] <= MaxQueries /\ (asked[k] > 0 => k[2] \in QuerySessions(world))
    BY DEF RInv, Within
  <1>4. /\ Given[k] + 1 \in 1 .. MaxQueries /\ k[2] \in QuerySessions(world)
        /\ Given'[k] = Given[k] + 1
    <2>1. MaxQueries \in Nat /\ Given[k] \in Nat /\ Waiting[k] \in Nat  BY <1>1, WorldAssumption
    <2>2. asked[k] > 0 /\ Given[k] + 1 \in 1 .. MaxQueries  BY <1>2, <1>3, <2>1
    <2>3. Given'[k] = Given[k] + 1  BY <1>1 DEF Gives
    <2> QED  BY <1>3, <2>2, <2>3
  <1>5. k \in {Query, LegacyQuery} \X QuerySessions(world)  BY <1>4, KindsTyped
  <1>6. d \in Askable(world) /\ d[1] = k /\ d[2] = Given[k] + 1  BY <1>4, <1>5 DEF Askable
  <1>7. d \notin Spent
    <2>1. Given[k] \in Nat  BY <1>1
    <2>2. ~ (Given[k] + 1 <= Given[k])  BY <2>1
    <2> QED  BY <1>6, <2>2 DEF Spent
  <1>8. d \in Spent'
    <2>1. Given[k] + 1 <= Given'[k]
      <3>1. Given[k] + 1 \in Nat /\ Given'[k] = Given[k] + 1  BY <1>1, <1>4
      <3> QED  BY <3>1
    <2>2. Spent' = {e \in Askable(world) : e[2] <= Given'[e[1]]}  BY DEF Spent, Askable
    <2>3. d[2] <= Given'[d[1]]
      <3> HIDE DEF d
      <3> QED  BY <1>6, <2>1
    <2> QED  BY <1>6, <2>2, <2>3
  <1> HIDE DEF d
  <1>9. /\ Spent \subseteq Spent' /\ Spent' \subseteq Askable(world)
        /\ IsFiniteSet(Spent') /\ Cardinality(Spent') \in Nat
        /\ Cardinality(Spent) \in Nat
    BY <1>0, SpentIs
  <1>10. IsFiniteSet(Spent)  BY <1>9, FS_Subset
  <1>11. IsFiniteSet(Spent \cup {d}) /\ Cardinality(Spent \cup {d}) = Cardinality(Spent) + 1
    BY <1>7, <1>10, FS_AddElement
  <1>12. Spent \cup {d} \subseteq Spent'  BY <1>8, <1>9
  <1>13. Cardinality(Spent \cup {d}) <= Cardinality(Spent')  BY <1>9, <1>12, FS_Subset
  <1> QED  BY <1>11, <1>13

\* What comes first while the component is asked for: a question, or a listing.
LEMMA FirstHeard ==
  ASSUME HInv, Spoken, pc = "query", c2h # <<>>
  PROVE  LET m == Head(c2h)
         IN /\ m.t \in {CapexRsp, LegacyRsp} <=> ~IsQuery(m)
            /\ world.good => m.t # LegacyRsp
  <1> DEFINE m == Head(c2h)
  <1>1. m \in SaidUp
    <2>1. pc \in SlpPcs  BY DEF SlpPcs
    <2> QED  BY <2>1, UpWhenRead
  <1>2. m \in Sayable(world)
    <2> DEFINE S == Sayable(world)
    <2>1. c2h \in Seq(S)  BY DEF Spoken
    <2> HIDE DEF S, m
    <2>2. m \in S  BY <2>1, SaysLess DEF m
    <2> QED  BY <2>2 DEF S
  <1>3. world.good => m.t # LegacyRsp  BY <1>2 DEF Sayable, Faithful
  <1>4. ~IsQuery(m) => m.t \in {CapexRsp, LegacyRsp}  BY <1>1, SaidUpIs, RepliesAre
  <1>5. IsQuery(m) => m.t \notin {CapexRsp, LegacyRsp}
    BY DEF IsQuery, Query, LegacyQuery, CapexRsp, LegacyRsp
  <1> QED  BY <1>3, <1>4, <1>5

\* The loop that asks for the component does not give up before it hears of it.
LEMMA KeptLearn ==
  ASSUME RInv, Effect, world.good, Alive, Kept, Alive', LearnComponent
  PROVE  Kept'
  <1> DEFINE m == Head(c2h)
             loop == Iterate(QueryTries, "request") /\ UNCHANGED handled
  <1>0. HInv /\ Spoken /\ Typed /\ world \in Worlds /\ n \in Nat  BY Iterations DEF RInv
  <1>1. /\ pc = "query" /\ UNCHANGED camVars /\ link' = link /\ world' = world /\ owed' = owed
    BY DEF LearnComponent, LearnOr, SlpFrame, SlpNone, camVars
  <1>2. link /\ UnderWay /\ n <= Cardinality(Spent)  BY <1>1 DEF Kept
  <1>3. ~Fail  BY DEF Fail, Alive
  <1>4. CASE SlpNone("query")
    <2>1. world.prompt  BY <1>0, IsGood DEF Favourable
    <2>2. c2h = <<>> /\ h2c = <<>> /\ owed = <<>>
      BY <1>2, <1>4, <2>1 DEF SlpNone, NothingComes, CamQuiet
    <2> QED  BY <1>2, <2>2, NoneIn DEF UnderWay
  <1>5. CASE /\ SlpFrame("query", m) /\ m.t \in {CapexRsp, LegacyRsp}
             /\ pc' = "request"
             /\ acceptor' = IF m.t = CapexRsp THEN ComponentOf(parse_capex_response(m.b)) ELSE 0
    <2>1. c2h # <<>>  BY <1>5 DEF SlpFrame
    <2>2. m.t = CapexRsp  BY <1>0, <1>1, <1>5, <2>1, FirstHeard
    <2>3. IsOffered(world, m.b)  BY <1>0, <1>1, <2>1, <2>2, LearnedIsListing
    <2>4. acceptor' = CompId  BY <1>0, <1>5, <2>2, <2>3, OfferedIsListed
    <2> QED  BY <1>1, <1>2, <1>5, <2>4 DEF Kept
  <1>6. CASE /\ SlpFrame("query", m) /\ m.t \notin {CapexRsp, LegacyRsp}
             /\ HandleCapex(m, loop)
    <2>1. c2h # <<>> /\ c2h' = Tail(c2h) /\ c2h \in Seq(Said) /\ h2c \in Seq(Told)
      BY <1>0, <1>6 DEF SlpFrame, Typed
    <2>2. IsQuery(m)  BY <1>0, <1>1, <1>6, <2>1, FirstHeard
    <2>3. h2c' = Append(h2c, Answer(m)) /\ loop
      <3> HIDE DEF loop
      <3> QED  BY <1>2, <1>6, <2>2 DEF HandleCapex, Say
    <2>4. Reads  BY <1>1, <2>1, <2>2, <2>3 DEF Reads
    <2>5. PICK k \in QueryKinds : Gives(k)
      <3>1. pc \in SlpPcs  BY <1>1 DEF SlpPcs
      <3> QED  BY <1>0, <2>2, <2>4, <3>1, AnswerGiven
    <2>6. Cardinality(Spent) + 1 <= Cardinality(Spent')  BY <1>1, <2>5, OneSpent
    <2>7. /\ Cardinality(Spent) \in Nat /\ Cardinality(Spent') \in Nat
          /\ Cardinality(Spent') < QueryTries
      BY <1>0, <1>1, SpentIs
    <2>8. QueryTries \in Nat  BY WorldAssumption
    <2>9. n + 1 < QueryTries /\ n + 1 <= Cardinality(Spent')
      BY <1>0, <1>2, <2>6, <2>7, <2>8
    <2>10. n' = n + 1 /\ pc' = pc  BY <2>3, <2>9 DEF Iterate
    <2>11. UnderWay'
      <3>1. ~IsListing(m)  BY <1>6 DEF IsListing
      <3>2. Learnt(c2h) => Learnt(c2h')  BY <2>1, <3>1, Shorter
      <3>3. Wanted(h2c) => Wanted(h2c')
        <4> DEFINE a == Answer(m)
        <4>1. h2c' = Append(h2c, a)  BY <2>3
        <4> HIDE DEF a
        <4> QED  BY <2>1, <4>1, Longer
      <3> QED  BY <1>1, <1>2, <3>2, <3>3 DEF UnderWay
    <2> QED  BY <1>1, <1>2, <2>9, <2>10, <2>11 DEF Kept
  <1> QED  BY <1>4, <1>5, <1>6 DEF LearnComponent, LearnOr

LEMMA KeptHost ==
  ASSUME RInv, Effect, world.good, Alive, Kept, Alive', Host
  PROVE  Kept'
  <1>0. HInv /\ Typed  BY Iterations DEF RInv
  <1>1. UNCHANGED camVars /\ (link' = link \/ (link' = FALSE /\ pc' = "closed"))  BY HostReads
  <1>2. link' /\ world' = world  BY <1>1 DEF Kept, Alive, camVars
  <1>3. CASE pc' \in {"pdok", "authreq", "confirm", "capexsc", "serve", "ask"}
    BY <1>2, <1>3 DEF Kept
  <1>4. CASE Ask /\ pc' = "query"
    <2> DEFINE q == Msg(Query, csid, <<>>)
    <2>1. pc = "ask" /\ h2c' = Append(h2c, q) /\ n' = 0
      BY <1>4 DEF Ask, Kept, Say, Goto
    <2>2. csid \in Sessions /\ h2c \in Seq(Told)  BY <1>0, <2>1 DEF Typed
    <2>3. IsOwn(q)  BY <2>2, MsgIs DEF IsOwn, Sessions, Default
    <2> HIDE DEF q
    <2>4. UnderWay'  BY <2>1, <2>2, <2>3, Longer DEF UnderWay
    <2>5. n' <= Cardinality(Spent')
      <3>1. Cardinality(Spent') \in Nat  BY <1>0, <1>2, SpentIs
      <3> QED  BY <2>1, <3>1
    <2> QED  BY <1>2, <1>4, <2>4, <2>5 DEF Kept
  <1>5. CASE LearnComponent  BY <1>5, KeptLearn
  <1>6. CASE /\ pc \in {"request", "svcsc"} /\ pc' \in {"svcsc", "connected"}
             /\ acceptor' = acceptor
    BY <1>2, <1>6 DEF Kept
  <1> QED  BY <1>3, <1>4, <1>5, <1>6, HostLeads

LEMMA WithinNext ==
  ASSUME HInv, Within, Next \/ UNCHANGED vars
  PROVE  Within' /\ world' = world
  <1>1. asked \in [QueryKinds -> Nat] /\ MaxQueries \in Nat
    BY WorldAssumption DEF HInv, Typed
  <1>2. CASE CamAsks
    <2>1. PICK k \in {Query, LegacyQuery} \X QuerySessions(world) :
            asked[k] < MaxQueries /\ asked' = [asked EXCEPT ![k] = @ + 1]
      BY <1>2 DEF CamAsks, MayAsk
    <2>2. world' = world  BY <1>2 DEF CamAsks, MayAsk, hostVars
    <2>3. ASSUME NEW j \in QueryKinds
          PROVE  asked'[j] <= MaxQueries /\ (asked'[j] > 0 => j[2] \in QuerySessions(world))
      <3>1. CASE j = k
        <4>1. asked'[j] = asked[j] + 1 /\ asked[j] < MaxQueries /\ asked[j] \in Nat
          BY <1>1, <2>1, <3>1
        <4>2. asked'[j] <= MaxQueries  BY <1>1, <4>1
        <4>3. j[2] \in QuerySessions(world)  BY <3>1
        <4> QED  BY <4>2, <4>3
      <3>2. CASE j # k
        <4>1. asked'[j] = asked[j]  BY <1>1, <2>1, <3>2
        <4> QED  BY <4>1 DEF Within
      <3> QED  BY <3>1, <3>2
    <2> QED  BY <2>2, <2>3 DEF Within
  <1>3. CASE ~CamAsks
    <2>1. world' = world /\ asked' = asked
      <3>1. CASE Host  BY <3>1, HostReads DEF camVars
      <3>2. CASE Camera
        BY <3>2, Zenon DEF Camera, CamSpeaks, CamWrites, CamReadsPd, CamReadsAuth,
           CamReadsSc, CamReadsQuery, CamReadsAnswer, CamReads, CamReplies, hostVars
      <3>3. CASE LinkDrops  BY <3>3 DEF LinkDrops, hostVars, camVars
      <3>4. CASE UNCHANGED vars  BY <3>4 DEF vars, camVars
      <3>5. CASE CamTears  BY <3>5, TearsLeave
      <3> QED  BY <1>3, <3>1, <3>2, <3>3, <3>4, <3>5 DEF Next, Done
    <2> QED  BY <2>1 DEF Within
  <1> QED  BY <1>2, <1>3

LEMMA RInit == Init => RInv
  <1> SUFFICES ASSUME Init PROVE RInv  OBVIOUS
  <1>1. pc = "pd" /\ link = TRUE /\ asked = [k \in QueryKinds |-> 0]  BY DEF Init
  <1>2. LInv /\ NoQueryUnanswered  BY LInit, AskedInit
  <1>3. Within
    <2>1. \A k \in QueryKinds : asked[k] = 0  BY <1>1
    <2>2. MaxQueries \in Nat  BY WorldAssumption
    <2>3. 0 <= MaxQueries /\ ~ (0 > 0)  BY <2>2
    <2> QED  BY <2>1, <2>3 DEF Within
  <1>4. GoodOnes  BY <1>1 DEF GoodOnes, Kept
  <1> QED  BY <1>2, <1>3, <1>4 DEF RInv

LEMMA RNext == RInv /\ [Next]_vars => RInv'
  <1> SUFFICES ASSUME RInv, [Next]_vars PROVE RInv'  OBVIOUS
  <1>1. HInv /\ Typed  BY Iterations DEF RInv
  <1>2. LInv' /\ Effect  BY <1>1, LNext, HNext DEF RInv
  <1>3. NoQueryUnanswered'  BY <1>1, <1>2, AskedNext DEF RInv
  <1>4. Within' /\ world' = world  BY <1>1, WithinNext DEF RInv
  <1>5. GoodOnes'
    <2> SUFFICES ASSUME world.good, Alive' PROVE Kept'
      BY <1>4 DEF GoodOnes
    <2>1. Alive  BY <1>2 DEF Effect
    <2>2. Kept  BY <2>1 DEF RInv, GoodOnes
    <2>3. CASE Host  BY <1>2, <2>1, <2>2, <2>3, KeptHost
    <2>4. CASE Camera \/ CamAsks \/ CamTears \/ LinkDrops
      <3>1. LInv  BY DEF RInv
      <3> QED  BY <1>2, <2>1, <2>2, <2>4, <3>1, KeptCamera
    <2>5. CASE UNCHANGED vars
      <3>1. UNCHANGED <<world, pc, n, acceptor, link, c2h, h2c, owed, answered>>
        BY <2>5 DEF vars, hostVars, camVars
      <3>2. UnderWay' = UnderWay  BY <3>1 DEF UnderWay, Wanted, Learnt
      <3>3. Spent' = Spent  BY <3>1 DEF Spent, Askable, Given
      <3> QED  BY <2>2, <3>1, <3>2, <3>3 DEF Kept
    <2> QED  BY <2>3, <2>4, <2>5 DEF Next, Done
  <1> QED  BY <1>2, <1>3, <1>4, <1>5 DEF RInv

\* While the camera has a component to name and is heard, the service is
\* requested of it and not of component 0: each iteration of the loop that asks
\* is paid for by a question of the camera's, and it has too few to use them up.
THEOREM AsksRight == Spec => []AsksRightComponent
  <1>1. RInv => AsksRightComponent
    BY DEF RInv, GoodOnes, Kept, Alive, AsksRightComponent
  <1> QED  BY <1>1, RInit, RNext, PTL DEF Spec
-----------------------------------------------------------------------------
(* The host's steps are counted.                                           *)

OnTime == /\ n \in Nat
          /\ pc = "capexsc" => n < ScTries
          /\ pc = "serve" => n < ServeTries
          /\ pc = "query" => n < QueryTries
          /\ pc = "svcsc" => n < SvcTries

\* How a step goes on: round again, over to the next phase, or down.
Round(p, tries) == pc = p /\ pc' = p /\ n' = n + 1 /\ n + 1 < tries
Over(p, q) == pc = p /\ pc' = q /\ n' = 0
Down(p) == pc = p /\ pc' = "failed" /\ n' = n
Ended == pc = "failed" /\ pc' = "closed" /\ n' = n
Early == \/ Over("pd", "pdok") \/ Over("pdok", "authreq") \/ Over("pdok", "confirm")
         \/ Over("authreq", "confirm") \/ Over("confirm", "capexsc")
         \/ \E p \in PlainPcs : Down(p)
Capex == Over("capexsc", "serve") \/ Round("capexsc", ScTries)
         \/ Over("capexsc", "failed") \/ Down("capexsc")
Serving == Over("serve", "ask") \/ Round("serve", ServeTries) \/ Down("serve")
Asks == Over("ask", "query") \/ Down("ask")
Querying == Over("query", "request") \/ Round("query", QueryTries) \/ Down("query")
Requesting == Over("request", "svcsc") \/ Down("request")
Service == Over("svcsc", "connected") \/ Round("svcsc", SvcTries)
           \/ Over("svcsc", "failed") \/ Down("svcsc")

LEMMA IterateMoves ==
  ASSUME NEW p, pc = p, NEW tries, NEW over, Iterate(tries, over)
  PROVE  Round(p, tries) \/ Over(p, over)
  BY DEF Iterate, Round, Over

LEMMA FailMoves == \A p : pc = p /\ Fail => Down(p)
  BY Zenon DEF Fail, Down
LEMMA GotoMoves == \A p, q : pc = p /\ Goto(q) => Over(p, q)
  BY Zenon DEF Goto, Over

LEMMA ChallengeMoves ==
  ASSUME NEW p, pc = p, NEW m, TakeChallenge(m)
  PROVE  Over(p, "confirm") \/ Down(p)
  <1>1. Goto("confirm") \/ Fail  BY Zenon DEF TakeChallenge, Say
  <1> QED  BY <1>1, FailMoves, GotoMoves, Zenon

LEMMA EarlyMoves ==
  ASSUME PlainActs
  PROVE  Early
  <1>1. CASE ReadPd
    <2>1. pc = "pd" /\ (Goto("pdok") \/ Fail)  BY <1>1, Zenon DEF ReadPd, PlainFrame, Say
    <2>2. Over("pd", "pdok") \/ Down("pd")  BY <2>1, FailMoves, GotoMoves, Zenon
    <2> QED  BY <2>2 DEF Early, PlainPcs
  <1>2. CASE ReadPdOk
    <2>1. pc = "pdok" /\ (Goto("authreq") \/ TakeChallenge(Head(c2h)))
      BY <1>2, Zenon DEF ReadPdOk, PlainFrame
    <2>2. Over("pdok", "authreq") \/ Over("pdok", "confirm") \/ Down("pdok")
      BY <2>1, ChallengeMoves, GotoMoves, Zenon
    <2> QED  BY <2>2 DEF Early, PlainPcs
  <1>3. CASE ReadAuthReq
    <2>1. pc = "authreq" /\ TakeChallenge(Head(c2h))
      BY <1>3, Zenon DEF ReadAuthReq, PlainFrame
    <2>2. Over("authreq", "confirm") \/ Down("authreq")  BY <2>1, ChallengeMoves, Zenon
    <2> QED  BY <2>2 DEF Early, PlainPcs
  <1>4. CASE ReadConfirm
    <2>1. pc = "confirm" /\ (Say(CapexRequest, Goto("capexsc")) \/ Fail)
      BY <1>4 DEF ReadConfirm, PlainFrame, CapexRequest
    <2>2. Goto("capexsc") \/ Fail  BY <2>1, Zenon DEF Say
    <2>3. Over("confirm", "capexsc") \/ Down("confirm")
      BY <2>1, <2>2, FailMoves, GotoMoves, Zenon
    <2> QED  BY <2>3 DEF Early, PlainPcs
  <1>5. CASE PlainNone
    <2>1. pc \in PlainPcs /\ Fail  BY <1>5, Zenon DEF PlainNone, PlainPcs
    <2>2. Down(pc)  BY <2>1, FailMoves, Zenon
    <2> QED  BY <2>1, <2>2 DEF Early
  <1> QED  BY <1>1, <1>2, <1>3, <1>4, <1>5 DEF PlainActs

LEMMA ScMoves ==
  ASSUME NEW p, NEW tries, ScRefused(p) \/ ScWaits(p, tries)
  PROVE  Round(p, tries) \/ Over(p, "failed") \/ Down(p)
  <1>1. pc = p  BY Zenon DEF ScRefused, ScWaits, SlpFrame, SlpNone
  <1>2. Fail \/ Iterate(tries, "failed")
    BY Zenon DEF ScRefused, ScWaits, HandleCapex, Say
  <1> QED  BY <1>1, <1>2, FailMoves, IterateMoves, Zenon

LEMMA HostMoves ==
  ASSUME Host
  PROVE  Early \/ Capex \/ Serving \/ Asks \/ Querying \/ Requesting \/ Service \/ Ended
  <1>1. CASE PlainActs  BY <1>1, EarlyMoves
  <1>2. CASE CapexSc
    <2>1. CASE ScRefused("capexsc") \/ ScWaits("capexsc", ScTries)
      BY <2>1, ScMoves, Zenon DEF Capex
    <2>2. CASE ScGranted("capexsc") /\ pc' = "serve" /\ n' = 0
      BY <2>2, Zenon DEF Capex, Over, ScGranted, SlpFrame
    <2> QED  BY <1>2, <2>1, <2>2 DEF CapexSc
  <1>3. CASE Serve \/ ServeNone
    <2>1. pc = "serve"  BY <1>3, Zenon DEF Serve, ServeNone, SlpFrame, SlpNone
    <2>2. Fail \/ Iterate(ServeTries, "ask") \/ Goto("ask")
      BY <1>3, Zenon DEF Serve, ServeNone, HandleCapex, Say
    <2> QED  BY <2>1, <2>2, FailMoves, GotoMoves, IterateMoves, Zenon DEF Serving
  <1>4. CASE Ask
    <2>1. pc = "ask" /\ (Fail \/ Goto("query"))  BY <1>4, Zenon DEF Ask, Say
    <2> QED  BY <2>1, FailMoves, GotoMoves, Zenon DEF Asks
  <1>5. CASE LearnComponent
    <2>1. pc = "query"  BY <1>5 DEF LearnComponent, LearnOr, SlpFrame, SlpNone
    <2>2. Fail \/ Iterate(QueryTries, "request") \/ (pc' = "request" /\ n' = 0)
      BY <1>5 DEF LearnComponent, LearnOr, HandleCapex, Say
    <2> QED  BY <2>1, <2>2, FailMoves, IterateMoves, Zenon DEF Querying, Over
  <1>6. CASE Request
    <2>1. pc = "request" /\ (Fail \/ Goto("svcsc"))  BY <1>6, Zenon DEF Request, Say
    <2> QED  BY <2>1, FailMoves, GotoMoves, Zenon DEF Requesting
  <1>7. CASE SvcSc
    <2>1. CASE ScRefused("svcsc") \/ ScWaits("svcsc", SvcTries)
      BY <2>1, ScMoves, Zenon DEF Service
    <2>2. CASE ScGranted("svcsc") /\ pc' = "connected" /\ n' = 0
      BY <2>2, Zenon DEF Service, Over, ScGranted, SlpFrame
    <2> QED  BY <1>7, <2>1, <2>2 DEF SvcSc
  <1>8. CASE Close  BY <1>8, Zenon DEF Close, Ended
  <1> QED  BY <1>1, <1>2, <1>3, <1>4, <1>5, <1>6, <1>7, <1>8 DEF Host, PlainActs

LEMMA FromTyped ==
  /\ ScTries \in Nat /\ ServeTries \in Nat /\ QueryTries \in Nat /\ SvcTries \in Nat
  /\ ScTries > 0 /\ ServeTries > 0 /\ QueryTries > 0 /\ SvcTries > 0
  /\ FromRequest \in Nat /\ FromRequest = SvcTries + 2
  /\ FromAsk \in Nat /\ FromAsk = QueryTries + FromRequest + 1
  /\ FromConfirm \in Nat /\ FromConfirm = ScTries + ServeTries + FromAsk + 1
  <1>1. \A t \in {ScTries, ServeTries, QueryTries, SvcTries} : t \in Nat \ {0}
    BY WorldAssumption
  <1>2. /\ ScTries \in Nat /\ ServeTries \in Nat /\ QueryTries \in Nat /\ SvcTries \in Nat
        /\ ScTries > 0 /\ ServeTries > 0 /\ QueryTries > 0 /\ SvcTries > 0
    BY <1>1
  <1>3. FromRequest \in Nat /\ FromRequest = SvcTries + 2  BY <1>2 DEF FromRequest
  <1>4. FromAsk \in Nat /\ FromAsk = QueryTries + FromRequest + 1  BY <1>2, <1>3 DEF FromAsk
  <1>5. FromConfirm \in Nat /\ FromConfirm = ScTries + ServeTries + FromAsk + 1
    BY <1>2, <1>4 DEF FromConfirm
  <1> QED  BY <1>2, <1>3, <1>4, <1>5

LEMMA LeftIs ==
  ASSUME NEW k
  PROVE  /\ Left("pd", k) = FromConfirm + 3 /\ Left("pdok", k) = FromConfirm + 2
         /\ Left("authreq", k) = FromConfirm + 1 /\ Left("confirm", k) = FromConfirm
         /\ Left("capexsc", k) = ScTries - k + ServeTries + FromAsk
         /\ Left("serve", k) = ServeTries - k + FromAsk
         /\ Left("ask", k) = FromAsk
         /\ Left("query", k) = QueryTries - k + FromRequest
         /\ Left("request", k) = FromRequest
         /\ Left("svcsc", k) = SvcTries - k + 1
         /\ Left("failed", k) = 1 /\ Left("closed", k) = 0 /\ Left("connected", k) = 0
  BY DEF Left

Spends == OnTime' /\ Left(pc', n') \in 0 .. Left(pc, n) - 1

LEMMA MoveSpends ==
  ASSUME OnTime,
         Early \/ Capex \/ Serving \/ Asks \/ Querying \/ Requesting \/ Service \/ Ended
  PROVE  Spends
  <1>0. n \in Nat  BY DEF OnTime
  <1> USE FromTyped, LeftIs
  <1>1. CASE Early
    <2>1. CASE \E p \in PlainPcs : Down(p)
      BY <1>0, <2>1 DEF Down, Spends, OnTime, PlainPcs
    <2> QED  BY <1>1, <2>1 DEF Early, Over, Spends, OnTime
  <1>2. CASE Capex
    <2>1. n < ScTries  BY <1>2 DEF Capex, Over, Round, Down, OnTime
    <2> QED  BY <1>0, <1>2, <2>1 DEF Capex, Over, Round, Down, Spends, OnTime
  <1>3. CASE Serving
    <2>1. n < ServeTries  BY <1>3 DEF Serving, Over, Round, Down, OnTime
    <2> QED  BY <1>0, <1>3, <2>1 DEF Serving, Over, Round, Down, Spends, OnTime
  <1>4. CASE Asks  BY <1>0, <1>4 DEF Asks, Over, Down, Spends, OnTime
  <1>5. CASE Querying
    <2>1. n < QueryTries  BY <1>5 DEF Querying, Over, Round, Down, OnTime
    <2> QED  BY <1>0, <1>5, <2>1 DEF Querying, Over, Round, Down, Spends, OnTime
  <1>6. CASE Requesting  BY <1>0, <1>6 DEF Requesting, Over, Down, Spends, OnTime
  <1>7. CASE Service
    <2>1. n < SvcTries  BY <1>7 DEF Service, Over, Round, Down, OnTime
    <2> QED  BY <1>0, <1>7, <2>1 DEF Service, Over, Round, Down, Spends, OnTime
  <1>8. CASE Ended  BY <1>0, <1>8 DEF Ended, Spends, OnTime
  <1> QED  BY <1>1, <1>2, <1>3, <1>4, <1>5, <1>6, <1>7, <1>8

LEMMA OthersSpendNone ==
  ASSUME [Next]_vars, ~Host
  PROVE  UNCHANGED hostVars
  <1>1. CASE Camera \/ CamAsks \/ CamTears \/ LinkDrops
    BY <1>1, Zenon DEF Camera, CamAsks, CamTears, LinkDrops, CamSpeaks, CamWrites, CamReadsPd,
       CamReadsAuth, CamReadsSc, CamReadsQuery, CamReadsAnswer, CamReads, CamReplies
  <1>2. CASE UNCHANGED vars  BY <1>2 DEF vars
  <1> QED  BY <1>1, <1>2 DEF Next, Done

LEMMA OnTimeNext ==
  OnTime /\ [Next]_vars
    => OnTime' /\ IF Host THEN Left(pc', n') \in 0 .. Left(pc, n) - 1 ELSE UNCHANGED hostVars
  <1> SUFFICES ASSUME OnTime, [Next]_vars
               PROVE  /\ OnTime'
                      /\ IF Host THEN Left(pc', n') \in 0 .. Left(pc, n) - 1
                                 ELSE UNCHANGED hostVars
    OBVIOUS
  <1>1. CASE Host
    <2>1. Spends  BY <1>1, HostMoves, MoveSpends
    <2> QED  BY <1>1, <2>1 DEF Spends
  <1>2. CASE ~Host
    <2>1. UNCHANGED hostVars  BY <1>2, OthersSpendNone
    <2>2. OnTime'  BY <2>1 DEF OnTime, hostVars
    <2> QED  BY <1>2, <2>1, <2>2
  <1> QED  BY <1>1, <1>2

\* Each of the host's steps spends one of those it has left, whatever comes or
\* fails to: the camera's questions and its silence use attempts up and never
\* give any back.  (That the step is taken is the fairness of the run.)
THEOREM HostIsBounded == Spec => HostSpends
  <1>1. Init => OnTime
    BY FromTyped DEF Init, OnTime
  <1> QED  BY <1>1, OnTimeNext, PTL DEF Spec, HostSpends
==============================================================================
