------------------------ MODULE DeviceExchange_proofs ------------------------
(***************************************************************************)
(* Proofs about DeviceExchange, for all loop bounds and whatever camera,   *)
(* NetworkManager, networks and servers do.                                *)
(***************************************************************************)
EXTENDS DeviceExchange, Counting_proofs
-----------------------------------------------------------------------------
(* What the readers of tables and documents in Discovery return.           *)

\* Of the entries of a key, a dict keeps the last.
LEMMA LastIsKept ==
  ASSUME NEW entries, NEW I, \E len \in Nat : I \subseteq 1 .. len,
         NEW k \in DOMAIN DictOf(entries, I)
  PROVE  \E i \in I : /\ entries[i].key = k /\ DictOf(entries, I)[k] = entries[i].value
                      /\ \A j \in I : entries[j].key = k => j <= i
  <1> DEFINE at == {i \in I : entries[i].key = k}
             last == CHOOSE i \in at : \A j \in at : j <= i
  <1>1. k \in {entries[i].key : i \in I} /\ DictOf(entries, I)[k] = entries[last].value
    BY DEF DictOf
  <1>2. at # {} /\ \E len \in Nat : at \in SUBSET (1 .. len)  BY <1>1
  <1>3. \E i \in at : \A j \in at : j <= i
    <2> HIDE DEF at
    <2> QED  BY <1>2, LastExists
  <1>4. last \in at /\ \A j \in at : j <= last
    <2> HIDE DEF at
    <2> QED  BY <1>3
  <1> QED  BY <1>1, <1>4

\* A service of a description is at the host the description came from.
LEMMA ServicesAtBase ==
  ASSUME NEW S, NEW services \in Seq(S), NEW base,
         NEW t \in DOMAIN ParseDeviceDescription(services, base)
  PROVE  ParseDeviceDescription(services, base)[t].host = base.host
  <1> DEFINE entries == [i \in DOMAIN services |->
                           [key |-> services[i].type,
                            value |-> Url(base.host, base.path \o services[i].control)]]
             I == {i \in DOMAIN services : services[i].type # ""}
  <1>1. Len(services) \in Nat /\ DOMAIN services = 1 .. Len(services)  OBVIOUS
  <1>2. I \subseteq DOMAIN services /\ \E len \in Nat : I \subseteq 1 .. len  BY <1>1
  <1>3. ParseDeviceDescription(services, base) = DictOf(entries, I)
    BY DEF ParseDeviceDescription
  <1>4. PICK i \in I : DictOf(entries, I)[t] = entries[i].value
    <2>1. t \in DOMAIN DictOf(entries, I)  BY <1>3, Zenon
    <2> HIDE DEF entries, I
    <2> QED  BY <1>2, <2>1, LastIsKept
  <1>5. entries[i].value.host = base.host  BY <1>2 DEF Url
  <1> QED  BY <1>3, <1>4, <1>5

\* The URL that is played is one of the answer, and a good one.
LEMMA StreamIsOffered ==
  ASSUME NEW S, NEW elements \in Seq(S),
         StreamUrl(ParseStreamUrls(elements)) # NoUrl
  PROVE  \E i \in DOMAIN elements :
           /\ elements[i].value = StreamUrl(ParseStreamUrls(elements))
           /\ elements[i].key \in {"QualityHighUrl", "QualityMiddelUrl", "QualityLowUrl"}
  <1> DEFINE urls == ParseStreamUrls(elements)
             I == {i \in DOMAIN elements : elements[i].key \in QualityTags
                                           /\ elements[i].value # NoUrl}
  <1>1. I \subseteq DOMAIN elements /\ \E len \in Nat : I \subseteq 1 .. len
    <2>1. Len(elements) \in Nat /\ DOMAIN elements = 1 .. Len(elements)  OBVIOUS
    <2> QED  BY <2>1
  <1>2. urls = DictOf(elements, I)  BY DEF ParseStreamUrls
  <1>3. ASSUME NEW k \in DOMAIN urls
        PROVE  \E i \in I : elements[i].key = k /\ urls[k] = elements[i].value
    <2>1. k \in DOMAIN DictOf(elements, I)  BY <1>2, Zenon
    <2> HIDE DEF I
    <2>2. \E i \in I : elements[i].key = k /\ DictOf(elements, I)[k] = elements[i].value
      BY <1>1, <2>1, LastIsKept
    <2> HIDE DEF urls
    <2> QED  BY <1>2, <2>2
  <1>4. \E k \in DOMAIN urls : /\ k \in {"QualityHighUrl", "QualityMiddelUrl", "QualityLowUrl"}
                               /\ StreamUrl(urls) = urls[k]
    <2> HIDE DEF urls
    <2> QED  BY DEF urls, StreamUrl, UrlOr
  <1> QED  BY <1>3, <1>4
-----------------------------------------------------------------------------
(* The steps of the host and of the camera.                                *)

Tries == {InfoTries, DrainTries, LiveTries, ScanTries, UrlTries, Probes}
Counted == \E t \in Tries : n \in 0 .. t - 1

Before == {"start", "start2", "info"}            \* no info has been taken
Unasked == Before \cup {"drain", "command"}      \* live view has not been asked for
Ended == {"over", "closed"}
CamMsgs == [k : Kinds \ Queries, s : {Cmd}] \cup [k : Queries, s : {Capex}]
HostMsgs == [k : HostKinds, s : {Cmd, 0}]

-----------------------------------------------------------------------------
(* What a step of the host does with the channels.                         *)

\* Where the host goes when it does not ask for live view.
Onward == /\ pc \in Ended => pc' \in Ended
          /\ pc' \in Before => pc \in Before
          /\ pc' \in Unasked => pc \in Unasked
          /\ pc' \notin Unasked \cup Ended => pc \notin Unasked
          /\ pc' \in Joining => pc \in Joining \/ wifi = "softap"

Silent == UNCHANGED <<c2h, h2c, wifi>> /\ Onward

\* Sending raised.
Breaks == /\ pc \notin Ended /\ pc' = "over" /\ UNCHANGED <<h2c, wifi>>
          /\ c2h' = c2h \/ (c2h # <<>> /\ c2h' = Tail(c2h))

Reads == c2h # <<>> /\ c2h' = Tail(c2h) /\ pc \notin Ended
Asks(m) == m.k \in Requests \cup Queries
Reads1 == Reads /\ wifi' = wifi /\ Onward
Replies == /\ Reads1 /\ Asks(Head(c2h)) /\ pc' \notin Ended
           /\ h2c' = Append(h2c, Msg(AnswerOf(Head(c2h).k),
                                     IF Head(c2h).k \in Queries THEN 0 ELSE Cmd))
Passes == Reads1 /\ ~Asks(Head(c2h)) /\ h2c' = h2c
Acknowledges == /\ Reads /\ IsInfo(Head(c2h)) /\ pc = "info" /\ pc' = "drain"
                /\ h2c' = Append(h2c, Msg("info-ack", Cmd)) /\ wifi' = Head(c2h).k
Says(k) == c2h' = c2h /\ wifi' = wifi /\ h2c' = Append(h2c, Msg(k, Cmd))
Opens == /\ Says("device-info") \/ Says("widget-info-req")
         /\ pc \in Before /\ pc' \in Before
Commands == Says("liveview") /\ pc = "command" /\ pc' = "liveview"

Talks == \/ Silent \/ Breaks \/ Replies \/ Passes \/ Acknowledges
         \/ Opens \/ Commands

LEMMA Sets == /\ Before \subseteq Unasked /\ Using \subseteq Joining
              /\ Unasked \cap Joining = {} /\ Unasked \cap Ended = {}
              /\ Joining \cap Ended = {}
  BY DEF Before, Unasked, Ended, Joining, Using

\* A message is read and handled, and the loop goes on or is over.
LEMMA HandlingTalks ==
  ASSUME NEW ACTION Then, Then => wifi' = wifi /\ Onward /\ pc' \notin Ended,
         Reads, HandleBtMessage(Head(c2h), Then)
  PROVE  Breaks \/ Replies \/ Passes
  <1>1. CASE Asks(Head(c2h)) /\ link
    <2>1. Then /\ h2c' = Append(h2c, Msg(AnswerOf(Head(c2h).k),
                                       IF Head(c2h).k \in Queries THEN 0 ELSE Cmd))
      BY <1>1 DEF HandleBtMessage, Say, Asks
    <2> QED  BY <1>1, <2>1 DEF Replies, Reads1
  <1>2. CASE Asks(Head(c2h)) /\ ~link
    <2>1. UNCHANGED <<h2c, wifi>> /\ Goto("over")
      BY <1>2 DEF HandleBtMessage, Say, Asks
    <2> QED  BY <2>1 DEF Goto, Breaks, Reads
  <1>3. CASE ~Asks(Head(c2h))
    <2>1. Then /\ h2c' = h2c  BY <1>3 DEF HandleBtMessage, Asks
    <2> QED  BY <1>3, <2>1 DEF Passes, Reads1
  <1> QED  BY <1>1, <1>2, <1>3

\* From the join on, the host stays where it uses the network until it ends.
LEMMA PlacesAfter ==
  ASSUME Resolve \/ Search \/ Reply \/ Fetch \/ EnterRvf \/ GetUrls
         \/ StreamEnds \/ Close, pc \in Using
  PROVE  pc' \in Using \cup {"over"}
  <1> USE DEF Using, Goto
  <1>1. CASE Resolve  BY <1>1 DEF Resolve
  <1>2. CASE Search  BY <1>2 DEF Search
  <1>3. CASE Reply
    <2>1. pc' \in {"replies", "ssdp", "over", "fetch"}
      BY <1>3 DEF Reply, ReplyIf, NextProbe
    <2> QED  BY <2>1
  <1>4. CASE Fetch
    <2>1. pc' \in {"rvf", "over"}  BY <1>4 DEF Fetch
    <2> QED  BY <2>1
  <1>5. CASE EnterRvf  BY <1>5 DEF EnterRvf
  <1>6. CASE GetUrls
    <2>1. pc' \in {"live", "body", "over"}  BY <1>6 DEF GetUrls
    <2> QED  BY <2>1
  <1>7. CASE StreamEnds  BY <1>7 DEF StreamEnds
  <1>8. CASE Close  BY <1>8 DEF Close
  <1> QED  BY <1>1, <1>2, <1>3, <1>4, <1>5, <1>6, <1>7, <1>8

LEMMA HostTalks ==
  ASSUME Host \/ StreamEnds
  PROVE  Talks /\ UNCHANGED <<world, sent, infos, heard>>
  <1> USE DEF camera, found, net, Elsewhere
  <1>1. CASE SendDeviceInfo
    <2>1. Opens \/ Breaks
      BY <1>1 DEF SendDeviceInfo, SendAt, Say, Goto, Opens, Says, Breaks, Before, Ended
    <2> QED  BY <1>1, <2>1 DEF SendDeviceInfo, SendAt, Talks
  <1>2. CASE SendWidgetReq
    <2>1. Opens \/ Breaks
      BY <1>2 DEF SendWidgetReq, SendAt, Say, Goto, Opens, Says, Breaks, Before, Ended
    <2> QED  BY <1>2, <2>1 DEF SendWidgetReq, SendAt, Talks
  <1>3. CASE SendLiveview
    <2>1. Commands \/ Breaks
      BY <1>3 DEF SendLiveview, SendAt, Say, Goto, Commands, Says, Breaks, Ended
    <2> QED  BY <1>3, <2>1 DEF SendLiveview, SendAt, Talks
  <1>4. CASE WaitInfo
    <2>1. pc = "info" /\ UNCHANGED <<world, sent, infos, heard>>
      BY <1>4 DEF WaitInfo, InfoThen, Read, ReadNone
    <2>2. CASE ReadNone("info") /\ Iterate(InfoTries, "drain")
      <3>1. Silent
        BY <2>2 DEF ReadNone, Iterate, Goto, Silent, Onward, Before, Unasked, Ended, Joining, Using
      <3> QED  BY <2>1, <3>1 DEF Talks
    <2>3. CASE Read("info") /\ IsInfo(Head(c2h))
                 /\ Say(Msg("info-ack", Cmd), wifi' = Head(c2h).k /\ Goto("drain"))
      <3>1. Acknowledges \/ Breaks
        BY <2>3 DEF Read, Say, Goto, Acknowledges, Reads, Breaks, Ended
      <3> QED  BY <2>1, <3>1 DEF Talks
    <2>4. CASE Read("info")
                 /\ HandleBtMessage(Head(c2h), Iterate(InfoTries, "drain") /\ UNCHANGED wifi)
      <3>1. Reads  BY <2>4 DEF Read, Reads, Ended
      <3>2. Iterate(InfoTries, "drain") /\ UNCHANGED wifi =>
              wifi' = wifi /\ Onward /\ pc' \notin Ended
        BY <2>1 DEF Iterate, Goto, Onward, Before, Unasked, Ended, Joining, Using
      <3> QED  BY <2>1, <2>4, <3>1, <3>2, HandlingTalks DEF Talks
    <2> QED  BY <1>4, <2>2, <2>3, <2>4 DEF WaitInfo, InfoThen
  <1>5. CASE Drain
    <2>1. pc = "drain" /\ UNCHANGED <<world, sent, infos, heard>>
      BY <1>5 DEF Drain, Read, ReadNone
    <2>2. Iterate(DrainTries, "command") => pc' \in {"drain", "command"}
      BY <2>1 DEF Iterate, Goto
    <2>3. pc' \in {"drain", "command"} => Onward /\ pc' \notin Ended
      BY <2>1 DEF Onward, Before, Unasked, Ended, Joining, Using
    <2>4. CASE ReadNone("drain") /\ Iterate(DrainTries, "command")
      BY <2>1, <2>2, <2>3, <2>4 DEF ReadNone, Silent, Talks
    <2>5. CASE Read("drain")
               /\ HandleBtMessage(Head(c2h), Iterate(DrainTries, "command") /\ UNCHANGED wifi)
      <3>1. Reads  BY <2>5 DEF Read, Reads, Ended
      <3> QED  BY <2>1, <2>2, <2>3, <2>5, <3>1, HandlingTalks DEF Talks
    <2> QED  BY <1>5, <2>4, <2>5 DEF Drain
  <1>6. CASE WaitLiveview
    <2> DEFINE Then == /\ IF Head(c2h).k = "cmd-rsp" THEN Goto("decide")
                          ELSE Iterate(LiveTries, "decide")
                       /\ UNCHANGED wifi
    <2>1. pc = "liveview" /\ UNCHANGED <<world, sent, infos, heard>>
      BY <1>6 DEF WaitLiveview, Read, ReadNone
    <2>2. Iterate(LiveTries, "decide") \/ Goto("decide") => pc' \in {"liveview", "decide"}
      BY <2>1 DEF Iterate, Goto
    <2>3. pc' \in {"liveview", "decide"} => Onward /\ pc' \notin Ended
      BY <2>1 DEF Onward, Before, Unasked, Ended, Joining, Using
    <2>4. CASE ReadNone("liveview") /\ Iterate(LiveTries, "decide")
      BY <2>1, <2>2, <2>3, <2>4 DEF ReadNone, Silent, Talks
    <2>5. CASE Read("liveview") /\ HandleBtMessage(Head(c2h), Then)
      <3>1. Reads  BY <2>5 DEF Read, Reads, Ended
      <3>2. Then => wifi' = wifi /\ Onward /\ pc' \notin Ended  BY <2>2, <2>3
      <3> HIDE DEF Then
      <3> QED  BY <2>1, <2>5, <3>1, <3>2, HandlingTalks DEF Talks
    <2> QED  BY <1>6, <2>4, <2>5 DEF WaitLiveview
  <1>7. CASE DiscoverBt
    <2>1. pc = "disc" /\ UNCHANGED <<world, sent, infos, heard>>
      BY <1>7 DEF DiscoverBt, Read, ReadNone
    <2>2. Iterate(UrlTries, "ssdp") => pc' \in {"disc", "ssdp"}
      BY <2>1 DEF Iterate, Goto
    <2>3. /\ pc' \in {"disc", "ssdp"} => Onward /\ pc' \notin Ended
          /\ pc' \in {"fetch", "over"} => Onward
      BY <2>1 DEF Onward, Before, Unasked, Ended, Joining, Using
    <2>4. CASE ReadNone("disc") /\ Iterate(UrlTries, "ssdp")
      BY <2>1, <2>2, <2>3, <2>4 DEF ReadNone, Silent, Talks
    <2>5. CASE Read("disc")
               /\ HandleBtMessage(Head(c2h), Iterate(UrlTries, "ssdp") /\ UNCHANGED wifi)
      <3>1. Reads  BY <2>5 DEF Read, Reads, Ended
      <3> QED  BY <2>1, <2>2, <2>3, <2>5, <3>1, HandlingTalks DEF Talks
    <2>6. CASE /\ Read("disc") /\ Head(c2h).k \in {"url", ""}
               /\ UNCHANGED <<h2c, wifi>> /\ pc' \in {"fetch", "over"}
      <3>1. Reads  BY <2>6 DEF Read, Reads, Ended
      <3>2. ~Asks(Head(c2h))  BY <2>6 DEF Asks, Requests, Queries
      <3> QED  BY <2>1, <2>3, <2>6, <3>1, <3>2 DEF Passes, Reads1, Talks
    <2> QED  BY <1>7, <2>4, <2>5, <2>6 DEF DiscoverBt, Goto
  <1>8. CASE Decide \/ Scan
    <2>1. UNCHANGED <<c2h, h2c, wifi, world, sent, infos, heard>>
      BY <1>8 DEF Decide, Scan, ScanOr
    <2>2. CASE Decide
      <3>1. Onward
        BY <2>2 DEF Decide, Goto, Onward, Before, Unasked, Ended, Joining, Using
      <3> QED  BY <2>1, <3>1 DEF Silent, Talks
    <2>3. CASE Scan
      <3>1. pc = "scan" /\ pc' \in {"scan", "resolve", "over"}
        BY <2>3 DEF Scan, ScanOr, Iterate, Goto
      <3>2. Onward  BY <3>1 DEF Onward, Before, Unasked, Ended, Joining, Using
      <3> QED  BY <2>1, <3>2 DEF Silent, Talks
    <2> QED  BY <1>8, <2>2, <2>3
  <1>9. CASE Resolve \/ Search \/ Reply \/ Fetch \/ EnterRvf \/ GetUrls
             \/ StreamEnds \/ Close
    <2>1. UNCHANGED <<c2h, h2c, wifi, world, sent, infos, heard>>
      BY <1>9 DEF Resolve, Search, Reply, ReplyIf, Fetch, EnterRvf, GetUrls, StreamEnds, Close
    <2>2. pc \in Using \/ (pc = "over" /\ pc' = "closed")
      BY <1>9 DEF Resolve, Search, Reply, ReplyIf, Fetch, EnterRvf, GetUrls, StreamEnds, Close,
                  Using
    <2>3. pc \in Using => pc' \in Using \cup Ended
      BY <1>9, PlacesAfter DEF Ended
    <2>4. Onward
      BY <2>2, <2>3 DEF Onward, Before, Unasked, Ended, Joining, Using
    <2> QED  BY <2>1, <2>4 DEF Silent, Talks
  <1> QED  BY <1>1, <1>2, <1>3, <1>4, <1>5, <1>6, <1>7, <1>8, <1>9 DEF Host
-----------------------------------------------------------------------------
(* Types.                                                                  *)

LEMMA AnswerKinds ==
  /\ \A k \in Requests \cup Queries : AnswerOf(k) \in HostKinds
  /\ \A k, l \in Requests : AnswerOf(k) = AnswerOf(l) => k = l
  /\ \A k \in Requests : AnswerOf(k) \notin {"device-info", "widget-info-req", "info-ack", "liveview"}
  BY DEF Requests, Queries, AnswerOf, HostKinds

LEMMA TalksTypes ==
  ASSUME TypeOK, Talks
  PROVE  /\ c2h' \in Seq(CamMsgs) /\ h2c' \in Seq(HostMsgs)
         /\ wifi' \in {"none", "softap", "direct"}
  <1>1. c2h \in Seq(CamMsgs) /\ h2c \in Seq(HostMsgs)
    BY DEF TypeOK, CamMsgs, HostMsgs
  <1>2. c2h # <<>> => Head(c2h) \in CamMsgs /\ Tail(c2h) \in Seq(CamMsgs)
    BY <1>1, HeadTailProperties
  <1>3. \A m \in HostMsgs : Append(h2c, m) \in Seq(HostMsgs)
    BY <1>1, AppendProperties
  <1>4. \A k \in HostKinds : Msg(k, Cmd) \in HostMsgs /\ Msg(k, 0) \in HostMsgs
    BY DEF Msg, HostMsgs
  <1>5. c2h' \in Seq(CamMsgs)
    BY <1>1, <1>2 DEF Talks, Silent, Breaks, Replies, Passes, Reads1, Acknowledges, Reads,
                      Opens, Commands, Says
  <1>6. h2c' \in Seq(HostMsgs)
    <2>1. CASE Silent \/ Breaks \/ Passes
      BY <1>1, <2>1 DEF Silent, Breaks, Passes
    <2>2. CASE Replies
      <3>1. AnswerOf(Head(c2h).k) \in HostKinds
        BY <2>2, AnswerKinds DEF Replies, Asks
      <3> QED  BY <1>3, <1>4, <2>2, <3>1 DEF Replies
    <2>3. CASE Acknowledges
      BY <1>3, <1>4, <2>3 DEF Acknowledges, HostKinds
    <2>4. CASE Opens \/ Commands
      BY <1>3, <1>4, <2>4 DEF Opens, Commands, Says, HostKinds
    <2> QED  BY <2>1, <2>2, <2>3, <2>4 DEF Talks
  <1>7. wifi' \in {"none", "softap", "direct"}
    BY DEF TypeOK, Talks, Silent, Breaks, Replies, Passes, Reads1, Acknowledges, Opens,
           Commands, Says, IsInfo
  <1> QED  BY <1>5, <1>6, <1>7

LEMMA IterateCounts ==
  ASSUME NEW t \in Tries, NEW p, Counted, Iterate(t, p)
  PROVE  Counted' /\ pc' \in {pc, p}
  <1>1. t \in Nat \ {0} /\ n \in Nat
    BY BoundsAssumption DEF Tries, Counted
  <1>2. CASE n + 1 < t
    <2>1. n' \in 0 .. t - 1 /\ pc' = pc  BY <1>1, <1>2 DEF Iterate
    <2> QED  BY <2>1 DEF Counted, Tries
  <1>3. CASE ~(n + 1 < t)
    <2>1. n' = 0 /\ n' \in 0 .. t - 1 /\ pc' = p  BY <1>1, <1>3 DEF Iterate, Goto
    <2> QED  BY <2>1 DEF Counted, Tries
  <1> QED  BY <1>2, <1>3

LEMMA GotoCounts ==
  ASSUME NEW p, Goto(p)
  PROVE  Counted' /\ pc' = p
  <1>1. n' = 0 /\ 0 \in 0 .. InfoTries - 1 /\ pc' = p  BY BoundsAssumption DEF Goto
  <1> QED  BY <1>1 DEF Counted, Tries

LEMMA NextProbeCounts ==
  ASSUME Counted, NextProbe
  PROVE  Counted' /\ pc' \in {"ssdp", "over"}
  <1>1. Probes \in Nat \ {0} /\ n \in Nat
    BY BoundsAssumption DEF Tries, Counted
  <1>2. CASE n + 1 < Probes
    <2>1. n' \in 0 .. Probes - 1 /\ pc' = "ssdp"  BY <1>1, <1>2 DEF NextProbe
    <2> QED  BY <2>1 DEF Counted, Tries
  <1>3. CASE ~(n + 1 < Probes)
    <2>1. Goto("over")  BY <1>3 DEF NextProbe
    <2> QED  BY <2>1, GotoCounts
  <1> QED  BY <1>2, <1>3

\* How far a step of the host leads, and that its loops are counted.
PlacesOf == Unasked \cup {"liveview", "decide"} \cup Joining \cup Ended
Counts == pc' \in PlacesOf /\ Counted'
LEMMA HostCounts ==
  ASSUME TypeOK, Host \/ StreamEnds
  PROVE  Counts
  <1> USE DEF PlacesOf, Unasked, Before, Joining, Using, Ended, Counts
  <1>0. Counted /\ pc \in PlacesOf  BY DEF TypeOK, Counted, Tries
  <1>1. \A p \in PlacesOf : Goto(p) => Counts
    BY GotoCounts
  <1>2. \A t \in Tries, p \in PlacesOf : Iterate(t, p) => Counts
    BY <1>0, IterateCounts
  <1>3. NextProbe => Counts  BY <1>0, NextProbeCounts
  <1>4. \A m : \A p \in PlacesOf : Say(m, Goto(p) /\ UNCHANGED wifi) => Counts
    BY <1>1 DEF Say
  <1>5. \A m : \A t \in Tries, p \in PlacesOf :
          HandleBtMessage(m, Iterate(t, p) /\ UNCHANGED wifi) => Counts
    BY <1>1, <1>2 DEF HandleBtMessage, Say
  <1> HIDE DEF Counts
  <1>6. CASE SendDeviceInfo \/ SendWidgetReq \/ SendLiveview
    BY <1>4, <1>6 DEF SendDeviceInfo, SendWidgetReq, SendLiveview, SendAt
  <1>7. CASE WaitInfo
    <2>1. CASE Say(Msg("info-ack", Cmd), wifi' = Head(c2h).k /\ Goto("drain"))
      BY <1>1, <2>1 DEF Say
    <2> QED  BY <1>2, <1>5, <1>7, <2>1 DEF WaitInfo, InfoThen, Tries
  <1>8. CASE Drain
    BY <1>2, <1>5, <1>8 DEF Drain, Tries
  <1>9. CASE WaitLiveview
    BY <1>1, <1>2, <1>9 DEF WaitLiveview, HandleBtMessage, Say, Tries
  <1>10. CASE Decide  BY <1>1, <1>10 DEF Decide
  <1>11. CASE Scan
    BY <1>1, <1>2, <1>11 DEF Scan, ScanOr, Tries
  <1>12. CASE DiscoverBt
    BY <1>1, <1>2, <1>5, <1>12 DEF DiscoverBt, Tries
  <1>13. CASE Resolve \/ EnterRvf \/ StreamEnds
    BY <1>1, <1>13 DEF Resolve, EnterRvf, StreamEnds
  <1>14. CASE Fetch  BY <1>1, <1>14 DEF Fetch
  <1>15. CASE GetUrls  BY <1>1, <1>15 DEF GetUrls
  <1>16. CASE Search
    BY <1>0, <1>16 DEF Search, Counted, Counts
  <1>17. CASE Reply
    <2>1. CASE pc' = pc /\ n' = n  BY <1>0, <2>1 DEF Counted, Counts
    <2> QED  BY <1>1, <1>3, <1>17, <2>1 DEF Reply, ReplyIf
  <1>18. CASE Close
    BY <1>0, <1>18 DEF Close, Counted, Counts
  <1> QED  BY <1>6, <1>7, <1>8, <1>9, <1>10, <1>11, <1>12, <1>13, <1>14, <1>15, <1>16,
              <1>17, <1>18 DEF Host

\* The rest of what the host changes.
Rest == /\ coming \subseteq world.replies
        /\ link \in BOOLEAN /\ ap \in BOOLEAN /\ joined \in BOOLEAN /\ torn \in BOOLEAN
        /\ due \subseteq {"info", "cmd-rsp", "device-desc-url"}
LEMMA HostRest ==
  ASSUME Rest, world' = world, Host \/ StreamEnds
  PROVE  Rest'
  <1> USE DEF Rest, camera, net, found, Elsewhere
  <1>1. CASE SendDeviceInfo \/ SendWidgetReq \/ SendLiveview
    BY <1>1 DEF SendDeviceInfo, SendWidgetReq, SendLiveview, SendAt
  <1>2. CASE WaitInfo \/ Drain \/ WaitLiveview \/ DiscoverBt
    <2>1. UNCHANGED <<coming, link, due, torn, ap, joined>>
      BY <1>2 DEF WaitInfo, InfoThen, Drain, WaitLiveview, DiscoverBt, Read, ReadNone
    <2> QED  BY <2>1
  <1>3. CASE Decide \/ Resolve \/ Fetch \/ EnterRvf \/ GetUrls \/ StreamEnds
    BY <1>3 DEF Decide, Resolve, Fetch, EnterRvf, GetUrls, StreamEnds
  <1>4. CASE Scan
    <2>1. UNCHANGED <<coming, link, torn, ap>> /\ joined' \in BOOLEAN
      BY <1>4 DEF Scan, ScanOr
    <2>2. due' \subseteq due \cup {"device-desc-url"}
      BY <1>4 DEF Scan, ScanOr
    <2> QED  BY <2>1, <2>2
  <1>5. CASE Search
    <2>1. UNCHANGED <<link, due, torn, ap, joined>>  BY <1>5 DEF Search
    <2>2. coming' \subseteq world.replies  BY <1>5 DEF Search, Hearing
    <2> QED  BY <2>1, <2>2
  <1>6. CASE Reply
    <2>1. UNCHANGED <<link, due, torn, ap, joined>>  BY <1>6 DEF Reply, ReplyIf
    <2>2. coming' \subseteq coming  BY <1>6 DEF Reply, ReplyIf, NextProbe
    <2> QED  BY <2>1, <2>2
  <1>7. CASE Close  BY <1>7 DEF Close
  <1> QED  BY <1>1, <1>2, <1>3, <1>4, <1>5, <1>6, <1>7 DEF Host

\* A frame begun and a search answered again change nothing else.
LEMMA TearsOnly ==
  ASSUME CamTears
  PROVE  torn' = TRUE /\ UNCHANGED <<host, c2h, h2c, link, world, sent, infos, due, heard, net>>
  BY DEF CamTears

LEMMA ComesAgain ==
  ASSUME AnswerAgain
  PROVE  /\ \E r \in world.replies : coming' = coming \cup {r}
         /\ pc = "replies" /\ UNCHANGED <<pc, n, ip, url, wifi, c2h, h2c, link, camera, net>>
  BY DEF AnswerAgain, Hearing, Elsewhere

\* The camera sends a message of its own.
LEMMA CameraTypes ==
  ASSUME TypeOK, NEW m \in CamMsgs, CamSays(m)
  PROVE  c2h' \in Seq(CamMsgs)
  <1>1. c2h \in Seq(CamMsgs) /\ c2h' = Append(c2h, m)  BY DEF TypeOK, CamMsgs, CamSays
  <1> QED  BY <1>1, AppendProperties

\* What the camera sends is no request, and its own account is kept, unless it
\* chats.
LEMMA CameraTalks ==
  ASSUME TypeOK
  PROVE  /\ CamInforms => \E m \in CamMsgs : CamSays(m) /\ ~Asks(m) /\ sent' = sent
         /\ CamReports => \E m \in CamMsgs : CamSays(m) /\ ~Asks(m) /\ sent' = sent
         /\ CamChats => \E k \in world.chatter :
              /\ sent[k] < MaxEach /\ sent' = [sent EXCEPT ![k] = @ + 1]
              /\ LET m == Msg(k, IF k \in Queries THEN Capex ELSE Cmd)
                 IN m \in CamMsgs /\ CamSays(m)
  <1> USE DEF CamMsgs, Msg, Kinds, Requests, Queries, Asks
  <1>0. /\ world.chatter \subseteq Kinds
        /\ world.infos \subseteq {"softap", "direct"} /\ world.urls \subseteq {"url", ""}
    BY CameraAssumption DEF TypeOK
  <1>1. ASSUME CamInforms
        PROVE  \E m \in CamMsgs : CamSays(m) /\ ~Asks(m) /\ sent' = sent
    <2>1. PICK i \in world.infos : CamSays(Msg(i, Cmd)) /\ sent' = sent
      BY <1>1 DEF CamInforms
    <2>2. Msg(i, Cmd) \in CamMsgs /\ ~Asks(Msg(i, Cmd))  BY <1>0
    <2> QED  BY <2>1, <2>2
  <1>2. ASSUME CamReports
        PROVE  \E m \in CamMsgs : CamSays(m) /\ ~Asks(m) /\ sent' = sent
    <2>1. PICK k \in due \ {"info"} :
            \E u \in IF k = "cmd-rsp" THEN {k} ELSE world.urls : CamSays(Msg(u, Cmd))
      BY <1>2 DEF CamReports
    <2>2. PICK u \in {"cmd-rsp"} \cup world.urls : CamSays(Msg(u, Cmd))  BY <2>1
    <2>3. Msg(u, Cmd) \in CamMsgs /\ ~Asks(Msg(u, Cmd))  BY <1>0
    <2>4. sent' = sent  BY <1>2 DEF CamReports
    <2> QED  BY <2>2, <2>3, <2>4
  <1>3. ASSUME CamChats
        PROVE  \E k \in world.chatter :
              /\ sent[k] < MaxEach /\ sent' = [sent EXCEPT ![k] = @ + 1]
              /\ LET m == Msg(k, IF k \in Queries THEN Capex ELSE Cmd)
                 IN m \in CamMsgs /\ CamSays(m)
    BY <1>0, <1>3 DEF CamChats, MayChat
  <1> QED  BY <1>1, <1>2, <1>3

LEMMA TypesInit == Init => TypeOK
  <1> SUFFICES ASSUME Init PROVE TypeOK  OBVIOUS
  <1>1. 0 \in 0 .. InfoTries - 1 /\ 0 \in 0 .. MaxEach  BY BoundsAssumption
  <1>2. <<>> \in Seq(CamMsgs) /\ <<>> \in Seq([k : HostKinds, s : {Cmd, 0}])
    OBVIOUS
  <1>3. heard \in [HostKinds -> Nat] /\ sent \in [world.chatter -> 0 .. MaxEach]
    BY <1>1 DEF Init
  <1> QED  BY <1>1, <1>2, <1>3 DEF Init, TypeOK, CamMsgs

LEMMA TypesNext == TypeOK /\ [Next]_vars => TypeOK'
  <1> SUFFICES ASSUME TypeOK, [Next]_vars PROVE TypeOK'  OBVIOUS
  <1>1. CASE Host \/ StreamEnds
    <2>1. Talks /\ UNCHANGED <<world, sent, infos, heard>>  BY <1>1, HostTalks
    <2>2. Rest'  BY <1>1, <2>1, HostRest DEF TypeOK, Rest
    <2>3. Counts  BY <1>1, HostCounts
    <2> QED  BY <2>1, <2>2, <2>3, TalksTypes
             DEF TypeOK, Rest, Counts, Counted, Tries, PlacesOf, Unasked, Before, Joining, Using,
                 Ended, CamMsgs, HostMsgs
  <1>2. CASE CamChats
    <2>1. PICK k \in world.chatter :
              /\ sent[k] < MaxEach /\ sent' = [sent EXCEPT ![k] = @ + 1]
              /\ LET m == Msg(k, IF k \in Queries THEN Capex ELSE Cmd)
                 IN m \in CamMsgs /\ CamSays(m)
      BY <1>2, CameraTalks
    <2>2. c2h' \in Seq(CamMsgs)  BY <2>1, CameraTypes
    <2>3. sent' \in [world.chatter -> 0 .. MaxEach]
      <3>1. MaxEach \in Nat /\ sent \in [world.chatter -> 0 .. MaxEach]
        BY BoundsAssumption DEF TypeOK
      <3>2. sent[k] + 1 \in 0 .. MaxEach  BY <2>1, <3>1
      <3> QED  BY <2>1, <3>1, <3>2
    <2>4. UNCHANGED <<host, h2c, link, heard, net, infos, due>> /\ torn' = FALSE
      BY <1>2 DEF CamChats, CamSays
    <2> QED
      <3>1. infos' \in Nat /\ due' = due /\ torn' \in BOOLEAN  BY <2>4 DEF TypeOK
      <3>2. c2h' \in Seq([k : Kinds \ Queries, s : {Cmd}] \cup [k : Queries, s : {Capex}])
        BY <2>2 DEF CamMsgs
      <3>3. UNCHANGED <<world, pc, n, wifi, coming, h2c, heard, link, ap, joined>>
        BY <2>4 DEF host, found, net
      <3> QED  BY <2>3, <3>1, <3>2, <3>3 DEF TypeOK
  <1>3. CASE CamInforms \/ CamReports
    <2>1. PICK m \in CamMsgs : CamSays(m) /\ sent' = sent  BY <1>3, CameraTalks
    <2>2. c2h' \in Seq(CamMsgs)  BY <2>1, CameraTypes
    <2>3. due' \subseteq due /\ infos' \in Nat
      BY <1>3 DEF CamInforms, CamReports, TypeOK
    <2>4. UNCHANGED <<host, h2c, link, heard, net, sent>> /\ torn' = FALSE
      BY <2>1 DEF CamSays
    <2> QED
      <3>1. /\ infos' \in Nat /\ torn' \in BOOLEAN /\ sent' = sent
            /\ due' \subseteq {"info", "cmd-rsp", "device-desc-url"}
        BY <2>1, <2>3, <2>4 DEF TypeOK
      <3>2. c2h' \in Seq([k : Kinds \ Queries, s : {Cmd}] \cup [k : Queries, s : {Capex}])
        BY <2>2 DEF CamMsgs
      <3>3. UNCHANGED <<world, pc, n, wifi, coming, h2c, heard, link, ap, joined>>
        BY <2>4 DEF host, found, net
      <3> QED  BY <3>1, <3>2, <3>3 DEF TypeOK
  <1>4. CASE CamReads
    <2>1. Head(h2c) \in [k : HostKinds, s : {Cmd, 0}]
          /\ Tail(h2c) \in Seq([k : HostKinds, s : {Cmd, 0}])
      BY <1>4, HeadTailProperties DEF CamReads, TypeOK
    <2>2. heard' \in [HostKinds -> Nat]
      BY <1>4, <2>1 DEF CamReads, TypeOK
    <2>3. due' \subseteq {"info", "cmd-rsp", "device-desc-url"} /\ ap' \in BOOLEAN
      <3>1. due' \subseteq due \cup {"info", "cmd-rsp"}  BY <1>4 DEF CamReads
      <3>2. ap' \in BOOLEAN  BY <1>4, Zenon DEF CamReads
      <3> QED  BY <3>1, <3>2 DEF TypeOK
    <2>4. UNCHANGED <<host, c2h, link, sent, infos, torn, joined>> /\ h2c' = Tail(h2c)
      BY <1>4 DEF CamReads
    <2> QED  BY <2>1, <2>2, <2>3, <2>4 DEF TypeOK, host, found
  <1>5. CASE LinkDrops
    BY <1>5 DEF LinkDrops, TypeOK, host, found, camera
  <1>6. CASE UNCHANGED vars
    BY <1>6 DEF vars, host, found, camera, net, TypeOK
  <1>7. CASE CamTears
    BY <1>7, TearsOnly DEF TypeOK, host, found, net
  <1>8. CASE AnswerAgain
    <2>1. coming' \subseteq world'.replies  BY <1>8, ComesAgain DEF TypeOK, camera
    <2> QED  BY <1>8, <2>1, ComesAgain DEF TypeOK, camera, net
  <1> QED  BY <1>1, <1>2, <1>3, <1>4, <1>5, <1>6, <1>7, <1>8 DEF Next, Camera, Done

\* Whatever camera and networks do, the exchange stays in its states: no
\* attempt is counted past the end of the loops of session.py.
THEOREM TypeCorrect == Spec => []TypeOK
  BY TypesInit, TypesNext, PTL DEF Spec
-----------------------------------------------------------------------------
(* The network is held while it is used.                                   *)

\* Why: Bluetooth goes down only by itself or in Close; as long as it is up
\* the access point, once up, stays so; and no step but a scan's leads from
\* elsewhere to a place where the network is used.
Held == ~world.drops /\ pc \in Using => ap /\ joined

\* The host touches the network in the scan and in Close only.
LEMMA HostNet ==
  ASSUME Host \/ StreamEnds
  PROVE  \/ Scan \/ Close
         \/ UNCHANGED <<ap, joined>> /\ (pc' \in Using => pc \in Using)
  <1> USE DEF Using, net, camera, found, Elsewhere, Goto, Say
  <1>1. CASE SendDeviceInfo \/ SendWidgetReq \/ SendLiveview
    BY <1>1 DEF SendDeviceInfo, SendWidgetReq, SendLiveview, SendAt
  <1>2. CASE WaitInfo
    <2>1. UNCHANGED <<ap, joined>>  BY <1>2 DEF WaitInfo, InfoThen, Read, ReadNone
    <2>2. pc' \in {"info", "drain", "over"}
      BY <1>2 DEF WaitInfo, InfoThen, Read, ReadNone, Iterate, HandleBtMessage
    <2> QED  BY <2>1, <2>2
  <1>3. CASE Drain
    <2>1. UNCHANGED <<ap, joined>>  BY <1>3 DEF Drain, Read, ReadNone
    <2>2. pc' \in {"drain", "command", "over"}
      BY <1>3 DEF Drain, Read, ReadNone, Iterate, HandleBtMessage
    <2> QED  BY <2>1, <2>2
  <1>4. CASE WaitLiveview
    <2>1. UNCHANGED <<ap, joined>>  BY <1>4 DEF WaitLiveview, Read, ReadNone
    <2>2. pc' \in {"liveview", "decide", "over"}
      BY <1>4 DEF WaitLiveview, Read, ReadNone, Iterate, HandleBtMessage
    <2> QED  BY <2>1, <2>2
  <1>5. CASE Decide  BY <1>5 DEF Decide
  <1>6. CASE DiscoverBt
    <2>1. UNCHANGED <<ap, joined>> /\ pc = "disc"  BY <1>6 DEF DiscoverBt, Read, ReadNone
    <2> QED  BY <2>1
  <1>7. CASE Resolve \/ Search \/ Reply \/ Fetch \/ EnterRvf \/ GetUrls \/ StreamEnds
    <2>1. UNCHANGED <<ap, joined>> /\ pc \in Using
      BY <1>7 DEF Resolve, Search, Reply, ReplyIf, Fetch, EnterRvf, GetUrls, StreamEnds
    <2> QED  BY <2>1
  <1> QED  BY <1>1, <1>2, <1>3, <1>4, <1>5, <1>6, <1>7 DEF Host

LEMMA HeldNext == Held /\ [Next]_vars => Held'
  <1> SUFFICES ASSUME Held, [Next]_vars PROVE Held'  OBVIOUS
  <1>1. CASE Host \/ StreamEnds
    <2>0. world' = world  BY <1>1, HostTalks
    <2>1. CASE Scan
      <3>1. ap' = ap /\ pc = "scan"  BY <2>1 DEF Scan, ScanOr
      <3>2. pc' \in {pc, "over"} \/ (ap /\ joined')
        BY <2>1 DEF Scan, ScanOr, Iterate, Goto
      <3> QED  BY <2>0, <3>1, <3>2 DEF Held, Using
    <2>2. CASE Close
      <3>1. pc' = "closed"  BY <2>2 DEF Close
      <3> QED  BY <3>1 DEF Held, Using
    <2>3. CASE UNCHANGED <<ap, joined>> /\ (pc' \in Using => pc \in Using)
      BY <2>0, <2>3 DEF Held
    <2> QED  BY <1>1, <2>1, <2>2, <2>3, HostNet
  <1>2. CASE CamReads
    <2>1. pc' = pc /\ world' = world /\ joined' = joined /\ (ap => ap')
      BY <1>2, Zenon DEF CamReads, host
    <2> QED  BY <2>1, Zenon DEF Held
  <1>3. CASE CamInforms \/ CamReports \/ CamChats
    <2>1. UNCHANGED <<world, pc, ap, joined>>
      BY <1>3 DEF CamInforms, CamReports, CamChats, CamSays, host, net
    <2> QED  BY <2>1 DEF Held
  <1>4. CASE LinkDrops
    <2>1. world.drops /\ world' = world  BY <1>4 DEF LinkDrops, host
    <2> QED  BY <2>1 DEF Held
  <1>5. CASE UNCHANGED vars
    BY <1>5 DEF vars, host, camera, net, Held
  <1>6. CASE CamTears \/ AnswerAgain
    <2>1. UNCHANGED <<world, pc, ap, joined>>
      BY <1>6, TearsOnly, ComesAgain DEF host, camera, net
    <2> QED  BY <2>1 DEF Held
  <1> QED  BY <1>1, <1>2, <1>3, <1>4, <1>5, <1>6 DEF Next, Camera, Done

\* "BT must remain connected, the camera shuts down WiFi if BT disconnects"
\* (PROTOCOL.md:232): run_wifi_session keeps the network from the join to
\* the end of the stream, unless the link itself fails.
THEOREM NetworkIsHeld == Spec => []NetworkHolds
  <1>1. Init => Held  BY DEF Init, Held, Using
  <1>2. Held => NetworkHolds  BY DEF Held, NetworkHolds
  <1> QED  BY <1>1, <1>2, HeldNext, PTL DEF Spec
-----------------------------------------------------------------------------
(* The conversation: what was asked, answered and told.                    *)

Waits(k) == CountOf(c2h, Msg(k, Cmd))

LEMMA CountsAreNat ==
  ASSUME TypeOK
  PROVE  /\ \A k : Waits(k) \in Nat
         /\ \A a \in HostKinds : Told(a) \in Nat
  <1>1. \A m : CountOf(c2h, m) \in Nat
    <2>1. c2h \in Seq(CamMsgs)  BY DEF TypeOK, CamMsgs
    <2> QED  BY <2>1, CountIsNat
  <1>2. \A m : CountOf(h2c, m) \in Nat
    <2>1. h2c \in Seq(HostMsgs)  BY DEF TypeOK, HostMsgs
    <2> QED  BY <2>1, CountIsNat
  <1>3. \A a \in HostKinds : heard[a] \in Nat  BY DEF TypeOK
  <1> QED  BY <1>1, <1>2, <1>3 DEF Waits, Told

\* Reading takes one of a kind, sending adds one.
LEMMA ReadWaits ==
  ASSUME TypeOK, c2h # <<>>, c2h' = Tail(c2h), NEW k \in Requests
  PROVE  Waits(k) = Waits(k)' + IF Head(c2h).k = k THEN 1 ELSE 0
  <1>1. c2h \in Seq(CamMsgs)  BY DEF TypeOK, CamMsgs
  <1>2. Head(c2h) \in CamMsgs  BY <1>1, HeadTailProperties
  <1>3. Head(c2h).k = k <=> Head(c2h) = Msg(k, Cmd)
    BY <1>2 DEF CamMsgs, Msg, Requests, Queries
  <1>4. CountOf(c2h, Msg(k, Cmd)) = CountOf(Tail(c2h), Msg(k, Cmd))
          + IF Head(c2h) = Msg(k, Cmd) THEN 1 ELSE 0
    BY <1>1, CountTail
  <1> QED  BY <1>3, <1>4 DEF Waits

LEMMA SentWaits ==
  ASSUME TypeOK, NEW m \in CamMsgs, c2h' = Append(c2h, m), NEW k \in Requests
  PROVE  Waits(k)' = Waits(k) + IF m.k = k THEN 1 ELSE 0
  <1>1. c2h \in Seq(CamMsgs)  BY DEF TypeOK, CamMsgs
  <1>2. m.k = k <=> m = Msg(k, Cmd)
    BY DEF CamMsgs, Msg, Requests, Queries
  <1>3. CountOf(Append(c2h, m), Msg(k, Cmd)) = CountOf(c2h, Msg(k, Cmd))
          + IF m = Msg(k, Cmd) THEN 1 ELSE 0
    BY <1>1, CountAppend
  <1> QED  BY <1>2, <1>3 DEF Waits

LEMMA SaidTold ==
  ASSUME TypeOK, NEW b \in HostKinds, NEW t \in {Cmd, 0}, heard' = heard,
         h2c' = Append(h2c, Msg(b, t)), NEW a \in HostKinds
  PROVE  Told(a)' = Told(a) + IF b = a /\ t = Cmd THEN 1 ELSE 0
  <1>1. h2c \in Seq(HostMsgs)  BY DEF TypeOK, HostMsgs
  <1>2. Msg(b, t) \in HostMsgs  BY DEF HostMsgs, Msg
  <1>3. b = a /\ t = Cmd <=> Msg(b, t) = Msg(a, Cmd)  BY DEF Msg
  <1>4. CountOf(Append(h2c, Msg(b, t)), Msg(a, Cmd)) = CountOf(h2c, Msg(a, Cmd))
          + IF Msg(b, t) = Msg(a, Cmd) THEN 1 ELSE 0
    BY <1>1, <1>2, CountAppend
  <1>5. CountOf(h2c, Msg(a, Cmd)) \in Nat /\ heard[a] \in Nat
    BY <1>1, CountIsNat DEF TypeOK
  <1> QED  BY <1>3, <1>4, <1>5 DEF Told

LEMMA KeptTold ==
  ASSUME UNCHANGED <<heard, h2c>>, NEW a
  PROVE  Told(a)' = Told(a)
  BY DEF Told

\* What the camera reads was told before and is now.
LEMMA ReadTold ==
  ASSUME TypeOK, CamReads, NEW a \in HostKinds
  PROVE  Told(a)' = Told(a)
  <1> DEFINE m == Head(h2c)
  <1>1. h2c \in Seq(HostMsgs) /\ h2c # <<>> /\ h2c' = Tail(h2c)
    BY DEF TypeOK, HostMsgs, CamReads
  <1>2. m \in HostMsgs  BY <1>1, HeadTailProperties
  <1>3. CountOf(h2c, Msg(a, Cmd)) = CountOf(Tail(h2c), Msg(a, Cmd))
          + IF m = Msg(a, Cmd) THEN 1 ELSE 0
    BY <1>1, CountTail
  <1>4. CountOf(Tail(h2c), Msg(a, Cmd)) \in Nat
    BY <1>1, HeadTailProperties, CountIsNat
  <1>5. heard[a] \in Nat /\ heard \in [HostKinds -> Nat]  BY DEF TypeOK
  <1>6. CASE m = Msg(a, Cmd)
    <2>1. m.s # 0 /\ m.k = a  BY <1>6, BoundsAssumption DEF Msg
    <2>2. heard'[a] = heard[a] + 1  BY <1>5, <2>1 DEF CamReads
    <2> QED  BY <1>1, <1>3, <1>4, <1>5, <1>6, <2>2 DEF Told
  <1>7. CASE m # Msg(a, Cmd)
    <2>1. m.s = 0 \/ m.k # a  BY <1>2, <1>7 DEF Msg, HostMsgs
    <2>2. heard'[a] = heard[a]  BY <1>5, <2>1 DEF CamReads
    <2> QED  BY <1>1, <1>3, <1>4, <1>5, <1>7, <2>2 DEF Told
  <1> QED  BY <1>6, <1>7

Answered(k) == Told(AnswerOf(k))
SameCounts == \A k \in Requests : Waits(k)' = Waits(k) /\ Answered(k)' = Answered(k)
Answers1(q) == \A k \in Requests :
  /\ Waits(k) = Waits(k)' + IF k = q THEN 1 ELSE 0
  /\ Answered(k)' = Answered(k) + IF k = q THEN 1 ELSE 0

LEMMA RepliesCount ==
  ASSUME TypeOK, Replies, heard' = heard
  PROVE  /\ SameCounts \/ \E q \in Requests : Answers1(q)
         /\ Told("info-ack")' = Told("info-ack") /\ Told("liveview")' = Told("liveview")
  <1> DEFINE q == Head(c2h).k
             t == IF q \in Queries THEN 0 ELSE Cmd
  <1>1. c2h # <<>> /\ c2h' = Tail(c2h) /\ q \in Requests \cup Queries
    BY DEF Replies, Reads1, Reads, Asks
  <1>2. AnswerOf(q) \in HostKinds /\ t \in {Cmd, 0}  BY <1>1, AnswerKinds
  <1>3. h2c' = Append(h2c, Msg(AnswerOf(q), t))  BY DEF Replies
  <1>4. Requests \cap Queries = {}  BY DEF Requests, Queries
  <1>5. ASSUME NEW a \in HostKinds
        PROVE  Told(a)' = Told(a) + IF AnswerOf(q) = a /\ t = Cmd THEN 1 ELSE 0
    <2> HIDE DEF q, t
    <2> QED  BY <1>2, <1>3, SaidTold
  <1>6. ASSUME NEW k \in Requests
        PROVE  Waits(k) = Waits(k)' + IF q = k THEN 1 ELSE 0
    BY <1>1, ReadWaits
  <1>7. \A k \in Requests : Waits(k) \in Nat /\ Answered(k) \in Nat
    BY CountsAreNat, AnswerKinds DEF Answered
  <1>8. \A k \in Requests : Waits(k)' \in Nat
    <2>1. c2h \in Seq(CamMsgs)  BY DEF TypeOK, CamMsgs
    <2>2. c2h' \in Seq(CamMsgs)  BY <1>1, <2>1, HeadTailProperties
    <2> QED  BY <2>2, CountIsNat DEF Waits
  <1>9. CASE q \in Requests
    <2>1. t = Cmd  BY <1>4, <1>9
    <2>2. ASSUME NEW k \in Requests
          PROVE  Answered(k)' = Answered(k) + IF k = q THEN 1 ELSE 0
      <3>1. AnswerOf(q) = AnswerOf(k) <=> k = q  BY <1>9, AnswerKinds
      <3>2. AnswerOf(k) \in HostKinds  BY AnswerKinds
      <3> QED  BY <1>5, <2>1, <3>1, <3>2 DEF Answered
    <2>3. Answers1(q)  BY <1>6, <2>2 DEF Answers1
    <2>4. AnswerOf(q) \notin {"info-ack", "liveview"}  BY <1>9, AnswerKinds
    <2>5. "info-ack" \in HostKinds /\ "liveview" \in HostKinds  BY DEF HostKinds
    <2>6. Told("info-ack") \in Nat /\ Told("liveview") \in Nat  BY <2>5, CountsAreNat
    <2>7. Told("info-ack")' = Told("info-ack")  BY <1>5, <2>4, <2>5, <2>6
    <2>8. Told("liveview")' = Told("liveview")  BY <1>5, <2>4, <2>5, <2>6
    <2> QED  BY <1>9, <2>3, <2>7, <2>8
  <1>10. CASE q \in Queries
    <2>1. t # Cmd  BY <1>10, BoundsAssumption
    <2>2. \A a \in HostKinds : Told(a) \in Nat  BY CountsAreNat
    <2>3. ASSUME NEW a \in HostKinds PROVE Told(a)' = Told(a)  BY <1>5, <2>1, <2>2
    <2>4. ASSUME NEW k \in Requests PROVE Waits(k)' = Waits(k)
      BY <1>4, <1>6, <1>7, <1>8, <1>10
    <2>5. SameCounts  BY <2>3, <2>4, AnswerKinds DEF SameCounts, Answered
    <2> QED  BY <2>3, <2>5 DEF HostKinds
  <1> QED  BY <1>1, <1>9, <1>10

\* What is read without an answer was no question.
LEMMA PassedWaits ==
  ASSUME TypeOK, c2h # <<>>, c2h' = Tail(c2h), ~Asks(Head(c2h)), NEW k \in Requests
  PROVE  Waits(k)' = Waits(k)
  <1>1. Waits(k) = Waits(k)' + IF Head(c2h).k = k THEN 1 ELSE 0  BY ReadWaits
  <1>2. Head(c2h).k # k  BY DEF Asks
  <1>3. Waits(k) \in Nat /\ Waits(k)' \in Nat
    <2>1. c2h \in Seq(CamMsgs)  BY DEF TypeOK, CamMsgs
    <2>2. c2h' \in Seq(CamMsgs)  BY <2>1, HeadTailProperties
    <2> QED  BY <2>1, <2>2, CountIsNat DEF Waits
  <1> QED  BY <1>1, <1>2, <1>3

\* What the host says on its own account is no answer.
LEMMA SaysCount ==
  ASSUME TypeOK, heard' = heard,
         NEW b \in {"device-info", "widget-info-req", "info-ack", "liveview"},
         h2c' = Append(h2c, Msg(b, Cmd))
  PROVE  /\ \A k \in Requests : Answered(k)' = Answered(k)
         /\ \A a \in HostKinds : Told(a)' = Told(a) + IF a = b THEN 1 ELSE 0
  <1>1. b \in HostKinds  BY DEF HostKinds
  <1>2. ASSUME NEW a \in HostKinds PROVE Told(a)' = Told(a) + IF b = a THEN 1 ELSE 0
    BY <1>1, SaidTold
  <1>3. ASSUME NEW k \in Requests PROVE Answered(k)' = Answered(k)
    <2>1. AnswerOf(k) \in HostKinds /\ AnswerOf(k) # b  BY AnswerKinds
    <2>2. Told(AnswerOf(k)) \in Nat  BY <2>1, CountsAreNat
    <2> QED  BY <1>2, <2>1, <2>2 DEF Answered
  <1> QED  BY <1>2, <1>3

\* What a step of the host that does not break off does to the counts.
GoesOn == /\ SameCounts \/ (pc' \notin Ended /\ \E q \in Requests : Answers1(q))
          /\ Told("info-ack")' = Told("info-ack") /\ Told("liveview")' = Told("liveview")
          /\ wifi' = wifi /\ Onward
Takes == /\ SameCounts /\ Acknowledges
         /\ Told("info-ack")' = Told("info-ack") + 1 /\ Told("liveview")' = Told("liveview")
AsksLive == /\ SameCounts /\ Commands
            /\ Told("info-ack")' = Told("info-ack") /\ Told("liveview")' = Told("liveview") + 1

LEMMA TalksCount ==
  ASSUME TypeOK, Talks, heard' = heard
  PROVE  Breaks \/ GoesOn \/ Takes \/ AsksLive
  <1>0. {"info-ack", "liveview", "device-info", "widget-info-req"} \subseteq HostKinds
    BY DEF HostKinds
  <1>1. Told("info-ack") \in Nat /\ Told("liveview") \in Nat  BY <1>0, CountsAreNat
  <1>2. CASE Silent
    <2>1. SameCounts  BY <1>2 DEF Silent, SameCounts, Answered, Waits, Told
    <2> QED  BY <1>2, <2>1, KeptTold DEF Silent, GoesOn
  <1>3. CASE Replies
    <2>1. wifi' = wifi /\ Onward /\ pc' \notin Ended  BY <1>3 DEF Replies, Reads1
    <2> QED  BY <1>3, <2>1, RepliesCount DEF GoesOn
  <1>4. CASE Passes
    <2>1. Reads1 /\ ~Asks(Head(c2h)) /\ h2c' = h2c  BY <1>4 DEF Passes
    <2>2. \A k \in Requests : Waits(k)' = Waits(k)
      BY <2>1, PassedWaits DEF Reads1, Reads
    <2>3. \A k \in Requests : Answered(k)' = Answered(k)
      BY <2>1 DEF Answered, Told
    <2>4. Told("info-ack")' = Told("info-ack") /\ Told("liveview")' = Told("liveview")
      BY <2>1 DEF Told
    <2> QED  BY <2>1, <2>2, <2>3, <2>4 DEF SameCounts, GoesOn, Reads1
  <1>5. CASE Acknowledges
    <2>1. /\ c2h # <<>> /\ c2h' = Tail(c2h) /\ ~Asks(Head(c2h))
          /\ h2c' = Append(h2c, Msg("info-ack", Cmd))
      BY <1>5 DEF Acknowledges, Reads, IsInfo, Asks, Requests, Queries
    <2>2. \A k \in Requests : Waits(k)' = Waits(k)  BY <2>1, PassedWaits
    <2>3. /\ \A k \in Requests : Answered(k)' = Answered(k)
          /\ \A a \in HostKinds : Told(a)' = Told(a) + IF a = "info-ack" THEN 1 ELSE 0
      BY <2>1, SaysCount
    <2>4. Told("info-ack")' = Told("info-ack") + 1  BY <1>0, <2>3
    <2>5. Told("liveview")' = Told("liveview") + 0  BY <1>0, <2>3
    <2> QED  BY <1>1, <1>5, <2>2, <2>3, <2>4, <2>5 DEF SameCounts, Takes
  <1>6. CASE Opens
    <2>1. PICK b \in {"device-info", "widget-info-req"} : Says(b)  BY <1>6 DEF Opens
    <2>2. c2h' = c2h /\ wifi' = wifi /\ h2c' = Append(h2c, Msg(b, Cmd))
      BY <2>1 DEF Says
    <2>3. /\ \A k \in Requests : Answered(k)' = Answered(k)
          /\ \A a \in HostKinds : Told(a)' = Told(a) + IF a = b THEN 1 ELSE 0
      BY <2>2, SaysCount
    <2>4. Told("info-ack")' = Told("info-ack") + 0  BY <1>0, <2>1, <2>3
    <2>5. Told("liveview")' = Told("liveview") + 0  BY <1>0, <2>1, <2>3
    <2>6. SameCounts  BY <2>2, <2>3 DEF SameCounts, Waits
    <2>7. Onward
      BY <1>6 DEF Opens, Onward, Before, Unasked, Ended, Joining, Using
    <2> QED  BY <1>1, <2>2, <2>4, <2>5, <2>6, <2>7 DEF GoesOn
  <1>7. CASE Commands
    <2>1. c2h' = c2h /\ wifi' = wifi /\ h2c' = Append(h2c, Msg("liveview", Cmd))
      BY <1>7 DEF Commands, Says
    <2>2. /\ \A k \in Requests : Answered(k)' = Answered(k)
          /\ \A a \in HostKinds : Told(a)' = Told(a) + IF a = "liveview" THEN 1 ELSE 0
      BY <2>1, SaysCount
    <2>3. Told("info-ack")' = Told("info-ack") + 0  BY <1>0, <2>2
    <2>4. Told("liveview")' = Told("liveview") + 1  BY <1>0, <2>2
    <2>5. SameCounts  BY <2>1, <2>2 DEF SameCounts, Waits
    <2> QED  BY <1>1, <1>7, <2>3, <2>4, <2>5 DEF AsksLive
  <1> QED  BY <1>2, <1>3, <1>4, <1>5, <1>6, <1>7 DEF Talks
-----------------------------------------------------------------------------
(* The conversation, as long as the session goes on.                       *)

Asked == \A k \in Requests \cap world.chatter : sent[k] = Answered(k) + Waits(k)
InfoKept == Told("info-ack") = IF wifi = "none" THEN 0 ELSE 1
LiveAsked == Told("liveview") = IF pc \in Unasked THEN 0 ELSE 1
WifiFits == /\ pc \in Joining => wifi = "softap"
            /\ pc \in Before => wifi = "none"
Conv == pc \notin Ended => Asked /\ InfoKept /\ LiveAsked /\ WifiFits

LEMMA HostConv ==
  ASSUME TypeOK, Conv, Talks, UNCHANGED <<world, sent, heard>>
  PROVE  Conv'
  <1>1. CASE Breaks  BY <1>1 DEF Breaks, Conv, Ended
  <1>2. \A k \in Requests : Waits(k) \in Nat /\ Answered(k) \in Nat
    BY CountsAreNat, AnswerKinds DEF Answered
  <1>3. \A k \in Requests : Waits(k)' \in Nat
    <2>1. c2h' \in Seq(CamMsgs)  BY TalksTypes
    <2> QED  BY <2>1, CountIsNat DEF Waits
  <1>4. SameCounts \/ (\E q \in Requests : Answers1(q)) => (Asked => Asked')
    <2> SUFFICES ASSUME Asked, SameCounts \/ \E q \in Requests : Answers1(q),
                        NEW k \in Requests \cap world.chatter
                 PROVE  sent[k] = Answered(k)' + Waits(k)'
      BY DEF Asked
    <2>1. sent[k] = Answered(k) + Waits(k)  BY DEF Asked
    <2>2. CASE SameCounts  BY <2>1, <2>2 DEF SameCounts
    <2>3. ASSUME NEW q \in Requests, Answers1(q) PROVE sent[k] = Answered(k)' + Waits(k)'
      <3>1. Waits(k) = Waits(k)' + IF k = q THEN 1 ELSE 0  BY <2>3 DEF Answers1
      <3>2. Answered(k)' = Answered(k) + IF k = q THEN 1 ELSE 0  BY <2>3 DEF Answers1
      <3>3. /\ Waits(k) \in Nat /\ Answered(k) \in Nat /\ Waits(k)' \in Nat
        BY <1>2, <1>3
      <3> QED  BY <2>1, <3>1, <3>2, <3>3
    <2> QED  BY <2>2, <2>3
  <1>5. CASE GoesOn
    <2> SUFFICES ASSUME pc' \notin Ended PROVE Asked' /\ InfoKept' /\ LiveAsked' /\ WifiFits'
      BY DEF Conv
    <2>1. Onward /\ wifi' = wifi  BY <1>5 DEF GoesOn
    <2>2. pc \notin Ended  BY <2>1 DEF Onward
    <2>3. pc' \in Unasked <=> pc \in Unasked  BY <2>1 DEF Onward
    <2>4. WifiFits'  BY <2>1, <2>2 DEF Onward, WifiFits, Conv
    <2>5. InfoKept'  BY <1>5, <2>2 DEF GoesOn, InfoKept, Conv
    <2>6. LiveAsked'  BY <1>5, <2>2, <2>3 DEF GoesOn, LiveAsked, Conv
    <2> QED  BY <1>4, <1>5, <2>2, <2>4, <2>5, <2>6 DEF GoesOn, Conv
  <1>6. CASE Takes
    <2>1. pc = "info" /\ pc' = "drain" /\ wifi' \in {"softap", "direct"}
      BY <1>6 DEF Takes, Acknowledges, IsInfo
    <2>2. Asked /\ InfoKept /\ LiveAsked /\ wifi = "none"
      BY <2>1 DEF Conv, WifiFits, Before, Ended
    <2>3. InfoKept'  BY <1>6, <2>1, <2>2 DEF Takes, InfoKept
    <2>4. LiveAsked'  BY <1>6, <2>1, <2>2 DEF Takes, LiveAsked, Unasked, Before
    <2>5. WifiFits'  BY <2>1 DEF WifiFits, Joining, Using, Before
    <2> QED  BY <1>4, <1>6, <2>2, <2>3, <2>4, <2>5 DEF Takes, Conv
  <1>7. CASE AsksLive
    <2>1. pc = "command" /\ pc' = "liveview" /\ wifi' = wifi
      BY <1>7 DEF AsksLive, Commands, Says
    <2>2. Asked /\ InfoKept /\ LiveAsked  BY <2>1 DEF Conv, Ended
    <2>3. InfoKept'  BY <1>7, <2>1, <2>2 DEF AsksLive, InfoKept
    <2>4. LiveAsked'  BY <1>7, <2>1, <2>2 DEF AsksLive, LiveAsked, Unasked, Before
    <2>5. WifiFits'  BY <2>1 DEF WifiFits, Joining, Using, Before
    <2> QED  BY <1>4, <1>7, <2>2, <2>3, <2>4, <2>5 DEF AsksLive, Conv
  <1> QED  BY <1>1, <1>5, <1>6, <1>7, TalksCount

\* What the camera sends leaves what it was told alone.
LEMMA SaidCounts ==
  ASSUME TypeOK, NEW m \in CamMsgs, CamSays(m)
  PROVE  /\ UNCHANGED <<world, pc, wifi>>
         /\ \A a : Told(a)' = Told(a)
         /\ \A k \in Requests : Waits(k)' = Waits(k) + IF m.k = k THEN 1 ELSE 0
  BY SentWaits, KeptTold DEF CamSays, host

LEMMA ConvNext == TypeOK /\ Conv /\ [Next]_vars => Conv'
  <1> SUFFICES ASSUME TypeOK, Conv, [Next]_vars PROVE Conv'  OBVIOUS
  <1>1. \A k \in Requests : Waits(k) \in Nat /\ Answered(k) \in Nat
    BY CountsAreNat, AnswerKinds DEF Answered
  <1>2. CASE Host \/ StreamEnds
    BY <1>2, HostTalks, HostConv
  <1>3. CASE CamInforms \/ CamReports
    <2>1. PICK m \in CamMsgs : CamSays(m) /\ ~Asks(m) /\ sent' = sent
      BY <1>3, CameraTalks
    <2>2. /\ UNCHANGED <<world, pc, wifi>> /\ \A a : Told(a)' = Told(a)
          /\ \A k \in Requests : Waits(k)' = Waits(k) + IF m.k = k THEN 1 ELSE 0
      BY <2>1, SaidCounts
    <2>3. \A k \in Requests : Waits(k)' = Waits(k) /\ Answered(k)' = Answered(k)
      BY <1>1, <2>1, <2>2 DEF Asks, Answered
    <2> QED
      BY <2>1, <2>2, <2>3 DEF Conv, Asked, InfoKept, LiveAsked, WifiFits
  <1>4. CASE CamChats
    <2>1. PICK q \in world.chatter :
            /\ sent' = [sent EXCEPT ![q] = @ + 1]
            /\ LET m == Msg(q, IF q \in Queries THEN Capex ELSE Cmd)
               IN m \in CamMsgs /\ CamSays(m)
      BY <1>4, CameraTalks
    <2>2. /\ UNCHANGED <<world, pc, wifi>> /\ \A a : Told(a)' = Told(a)
          /\ \A k \in Requests : Waits(k)' = Waits(k) + IF q = k THEN 1 ELSE 0
      <3> DEFINE m == Msg(q, IF q \in Queries THEN Capex ELSE Cmd)
      <3>1. m \in CamMsgs /\ CamSays(m)  BY <2>1
      <3>2. m.k = q  BY DEF Msg
      <3> HIDE DEF m
      <3> QED  BY <3>1, <3>2, SaidCounts
    <2>3. ASSUME NEW k \in Requests \cap world.chatter, Asked
          PROVE  sent'[k] = Answered(k)' + Waits(k)'
      <3>1. sent'[k] = sent[k] + IF q = k THEN 1 ELSE 0
        <4>1. sent \in [world.chatter -> 0 .. MaxEach]  BY DEF TypeOK
        <4>2. sent[k] \in Nat  BY <4>1, BoundsAssumption
        <4> QED  BY <2>1, <4>1, <4>2
      <3>2. Answered(k)' = Answered(k)  BY <2>2 DEF Answered
      <3> QED  BY <1>1, <2>2, <2>3, <3>1, <3>2 DEF Asked
    <2> QED
      BY <2>2, <2>3 DEF Conv, Asked, InfoKept, LiveAsked, WifiFits
  <1>5. CASE CamReads
    <2>1. UNCHANGED <<world, pc, wifi, c2h, sent>>  BY <1>5 DEF CamReads, host
    <2>2. \A a \in HostKinds : Told(a)' = Told(a)  BY <1>5, ReadTold
    <2>3. /\ Told("info-ack")' = Told("info-ack") /\ Told("liveview")' = Told("liveview")
          /\ \A k \in Requests : Answered(k)' = Answered(k) /\ Waits(k)' = Waits(k)
      BY <2>1, <2>2, AnswerKinds DEF HostKinds, Answered, Waits
    <2> QED
      BY <2>1, <2>3 DEF Conv, Asked, InfoKept, LiveAsked, WifiFits
  <1>6. CASE LinkDrops \/ UNCHANGED vars
    <2>1. UNCHANGED <<world, pc, wifi, c2h, h2c, sent, heard>>
      BY <1>6 DEF LinkDrops, vars, host, camera
    <2> QED
      BY <2>1 DEF Conv, Asked, InfoKept, LiveAsked, WifiFits, Answered, Waits, Told
  <1>7. CASE CamTears \/ AnswerAgain
    <2>1. UNCHANGED <<world, pc, wifi, c2h, h2c, sent, heard>>
      BY <1>7, TearsOnly, ComesAgain DEF host, camera
    <2> QED
      BY <2>1 DEF Conv, Asked, InfoKept, LiveAsked, WifiFits, Answered, Waits, Told
  <1> QED  BY <1>2, <1>3, <1>4, <1>5, <1>6, <1>7 DEF Next, Camera, Done

LEMMA ConvInit == Init => Conv
  <1> SUFFICES ASSUME Init PROVE Conv  OBVIOUS
  <1>1. /\ \A m : CountOf(c2h, m) = 0 /\ CountOf(h2c, m) = 0
    BY CountEmpty DEF Init
  <1>2. \A a \in HostKinds : Told(a) = 0  BY <1>1 DEF Told, Init
  <1>3. Asked
    <2> SUFFICES ASSUME NEW k \in Requests \cap world.chatter
                 PROVE  sent[k] = Answered(k) + Waits(k)
      BY DEF Asked
    <2>1. sent[k] = 0  BY DEF Init
    <2>2. Answered(k) = 0  BY <1>2, AnswerKinds DEF Answered
    <2>3. Waits(k) = 0  BY <1>1 DEF Waits
    <2> QED  BY <2>1, <2>2, <2>3
  <1>4. Told("info-ack") = 0 /\ Told("liveview") = 0  BY <1>2 DEF HostKinds
  <1>5. pc = "start" /\ wifi = "none"  BY DEF Init
  <1> QED
    BY <1>3, <1>4, <1>5 DEF Conv, InfoKept, LiveAsked, WifiFits, Unasked, Before, Joining, Using

LEMMA ConvHolds == Spec => [](TypeOK /\ Conv)
  BY TypesInit, TypesNext, ConvInit, ConvNext, PTL DEF Spec

\* "Messages 3-9 may arrive in varying order.  The phone handles all of them"
\* (PROTOCOL.md:207): in every loop of _run_device_info_and_stream, each
\* request of the camera is answered once.
THEOREM RequestsAreAnswered == Spec => []RequestsAnswered
  <1>1. TypeOK /\ Conv => RequestsAnswered
    <2> SUFFICES ASSUME TypeOK, Conv, pc \notin {"over", "closed"},
                        NEW k \in Requests \cap world.chatter
                 PROVE  sent[k] = heard[AnswerOf(k)] + CountOf(h2c, Msg(AnswerOf(k), Cmd))
                                  + CountOf(c2h, Msg(k, Cmd))
      BY DEF RequestsAnswered
    <2> QED  BY DEF Conv, Ended, Asked, Answered, Told, Waits
  <1> QED  BY <1>1, ConvHolds, PTL

\* The host acknowledges the info it keeps, once, and no other; and it goes for
\* the network it kept, having told the camera once to bring it up.
THEOREM JoinsTheOffered == Spec => []JoinsWhatWasOffered
  <1>1. Conv => JoinsWhatWasOffered
    BY DEF Conv, Ended, InfoKept, LiveAsked, WifiFits, JoinsWhatWasOffered, Unasked, Before,
           Joining, Using
  <1> QED  BY <1>1, ConvHolds, PTL
-----------------------------------------------------------------------------
(* Phases 4-7 implement Answering.                                         *)

\* One more for one question, pointwise and as an EXCEPT.
LEMMA OneMore ==
  ASSUME NEW S, NEW f \in [S -> Nat], NEW g, g = [k \in S |-> g[k]], NEW q \in S,
         \A k \in S : g[k] = f[k] + IF k = q THEN 1 ELSE 0
  PROVE  g = [f EXCEPT ![q] = f[q] + 1]
  <1>1. \A k \in S : f[k] \in Nat  OBVIOUS
  <1>2. \A k \in S : g[k] = [f EXCEPT ![q] = f[q] + 1][k]  BY <1>1
  <1> QED  BY <1>2

LEMMA AnsweringStutters ==
  ASSUME SameCounts, pc' \in Ended <=> pc \in Ended
  PROVE  UNCHANGED Asking!ansVars
  <1>1. \A k \in Requests : /\ CountOf(c2h, Msg(k, Cmd))' = CountOf(c2h, Msg(k, Cmd))
                            /\ Told(AnswerOf(k))' = Told(AnswerOf(k))
    BY DEF SameCounts, Waits, Answered
  <1> QED  BY <1>1 DEF Asking!ansVars, Ended, Told

LEMMA AnsweringEnds ==
  ASSUME SameCounts, pc \notin Ended, pc' \in Ended
  PROVE  Asking!End
  <1>1. \A k \in Requests : /\ CountOf(c2h, Msg(k, Cmd))' = CountOf(c2h, Msg(k, Cmd))
                            /\ Told(AnswerOf(k))' = Told(AnswerOf(k))
    BY DEF SameCounts, Waits, Answered
  <1> QED  BY <1>1 DEF Asking!End, Ended, Told

\* One question less, in the two ways that leads to.
LEMMA AnsweringReads ==
  ASSUME TypeOK, c2h' \in Seq(CamMsgs), NEW q \in Requests,
         \A k \in Requests : Waits(k) = Waits(k)' + IF k = q THEN 1 ELSE 0
  PROVE  Asking!Reads(q)
  <1>1. ASSUME NEW k \in Requests
        PROVE  CountOf(c2h, Msg(k, Cmd)) \in Nat /\ CountOf(c2h, Msg(k, Cmd))' \in Nat
    BY CountIsNat DEF TypeOK, CamMsgs
  <1>2. \A k \in Requests : CountOf(c2h, Msg(k, Cmd))
                              = CountOf(c2h, Msg(k, Cmd))' + IF k = q THEN 1 ELSE 0
    BY DEF Waits
  <1> DEFINE W == [k \in Requests |-> CountOf(c2h, Msg(k, Cmd))]
  <1>3. W' = [k \in Requests |-> CountOf(c2h, Msg(k, Cmd))']  OBVIOUS
  <1>4. W \in [Requests -> Nat] /\ W' \in [Requests -> Nat]  BY <1>1, <1>3
  <1>5. \A k \in Requests : W[k] = W'[k] + IF k = q THEN 1 ELSE 0  BY <1>2, <1>3
  <1>6. W[q] > 0 /\ W' = [W EXCEPT ![q] = W[q] - 1]
    <2> HIDE DEF W
    <2>1. \A k \in Requests : W'[k] = W[k] - IF k = q THEN 1 ELSE 0  BY <1>4, <1>5
    <2> QED  BY <1>4, <1>5, <2>1
  <1> QED  BY <1>6 DEF Asking!Reads

LEMMA AnsweringAnswers ==
  ASSUME TypeOK, c2h' \in Seq(CamMsgs), NEW q \in Requests, Answers1(q),
         pc \notin Ended, pc' \notin Ended
  PROVE  Asking!Answer
  <1>1. Asking!Reads(q)  BY AnsweringReads DEF Answers1
  <1>2. \A k \in Requests : Told(AnswerOf(k))' = Told(AnswerOf(k)) + IF k = q THEN 1 ELSE 0
    BY DEF Answers1, Answered
  <1>3. \A k \in Requests : Told(AnswerOf(k)) \in Nat  BY CountsAreNat, AnswerKinds
  <1> DEFINE A == [k \in Requests |-> Told(AnswerOf(k))]
  <1>4. A' = [A EXCEPT ![q] = A[q] + 1]
    <2>1. A \in [Requests -> Nat]  BY <1>3
    <2>2. A' = [k \in Requests |-> A'[k]] /\ \A k \in Requests : A'[k] = A[k] + IF k = q THEN 1 ELSE 0
      BY <1>2
    <2> HIDE DEF A
    <2> QED  BY <2>1, <2>2, OneMore
  <1>5. Asking!Answers(q)  BY <1>4 DEF Asking!Answers, Told
  <1> QED  BY <1>1, <1>5 DEF Asking!Answer, Ended

\* A broken link takes the answer to the question that was read, if any was.
LEMMA AnsweringBreaks ==
  ASSUME TypeOK, Breaks, heard' = heard
  PROVE  Asking!End
  <1>1. pc \notin Ended /\ pc' \in Ended /\ h2c' = h2c  BY DEF Breaks, Ended
  <1>2. \A k \in Requests : Answered(k)' = Answered(k)
    BY <1>1 DEF Answered, Told
  <1>3. CASE c2h' = c2h
    BY <1>1, <1>2, <1>3, AnsweringEnds DEF SameCounts, Waits
  <1>4. CASE c2h # <<>> /\ c2h' = Tail(c2h) /\ Head(c2h).k \in Requests
    <2>1. c2h' \in Seq(CamMsgs)  BY <1>4, HeadTailProperties DEF TypeOK, CamMsgs
    <2>2. \A k \in Requests : Waits(k) = Waits(k)' + IF Head(c2h).k = k THEN 1 ELSE 0
      BY <1>4, ReadWaits
    <2>3. Asking!Reads(Head(c2h).k)  BY <1>4, <2>1, <2>2, AnsweringReads
    <2>4. \A k \in Requests : Told(AnswerOf(k))' = Told(AnswerOf(k))
      BY <1>2 DEF Answered
    <2> QED  BY <1>1, <1>4, <2>3, <2>4 DEF Asking!End, Ended, Told
  <1>5. CASE c2h # <<>> /\ c2h' = Tail(c2h) /\ Head(c2h).k \notin Requests
    <2>1. \A k \in Requests : Waits(k) = Waits(k)' + 0  BY <1>5, ReadWaits
    <2>2. \A k \in Requests : Waits(k)' \in Nat
      <3>1. c2h' \in Seq(CamMsgs)  BY <1>5, HeadTailProperties DEF TypeOK, CamMsgs
      <3> QED  BY <3>1, CountIsNat DEF Waits
    <2>3. SameCounts  BY <1>2, <2>1, <2>2 DEF SameCounts
    <2> QED  BY <1>1, <2>3, AnsweringEnds
  <1> QED  BY <1>3, <1>4, <1>5 DEF Breaks

LEMMA AnsweringHost ==
  ASSUME TypeOK, Talks, heard' = heard
  PROVE  [Asking!Next]_Asking!ansVars
  <1> USE DEF Asking!Next
  <1>1. CASE Breaks  BY <1>1, AnsweringBreaks
  <1>2. CASE GoesOn
    <2>1. pc \in Ended => pc' \in Ended  BY <1>2 DEF GoesOn, Onward
    <2>2. CASE SameCounts
      BY <2>1, <2>2, AnsweringStutters, AnsweringEnds
    <2>3. CASE pc' \notin Ended /\ \E q \in Requests : Answers1(q)
      BY <2>1, <2>3, AnsweringAnswers, TalksTypes
    <2> QED  BY <1>2, <2>2, <2>3 DEF GoesOn
  <1>3. CASE Takes
    BY <1>3, AnsweringStutters DEF Takes, Acknowledges, Ended
  <1>4. CASE AsksLive
    BY <1>4, AnsweringStutters DEF AsksLive, Commands, Ended
  <1> QED  BY <1>1, <1>2, <1>3, <1>4, TalksCount

LEMMA AnsweringInit == Init => Asking!Init
  <1> SUFFICES ASSUME Init PROVE Asking!Init  OBVIOUS
  <1>1. \A m : CountOf(c2h, m) = 0 /\ CountOf(h2c, m) = 0  BY CountEmpty DEF Init
  <1>2. \A k \in Requests : heard[AnswerOf(k)] = 0  BY AnswerKinds DEF Init
  <1>3. \A k \in Requests : heard[AnswerOf(k)] + CountOf(h2c, Msg(AnswerOf(k), Cmd)) = 0
    BY <1>1, <1>2
  <1>4. pc = "start"  BY DEF Init
  <1> QED  BY <1>1, <1>3, <1>4 DEF Asking!Init

LEMMA AnsweringNext == TypeOK /\ [Next]_vars => [Asking!Next]_Asking!ansVars
  <1> SUFFICES ASSUME TypeOK, [Next]_vars PROVE [Asking!Next]_Asking!ansVars  OBVIOUS
  <1>1. \A k \in Requests : Waits(k) \in Nat /\ Answered(k) \in Nat
    BY CountsAreNat, AnswerKinds DEF Answered
  <1>2. CASE Host \/ StreamEnds
    BY <1>2, HostTalks, AnsweringHost
  <1>3. CASE \E m \in CamMsgs : CamSays(m) /\ m.k \notin Requests
    <2>1. PICK m \in CamMsgs : CamSays(m) /\ m.k \notin Requests  BY <1>3
    <2>2. /\ UNCHANGED <<world, pc, wifi>> /\ \A a : Told(a)' = Told(a)
          /\ \A k \in Requests : Waits(k)' = Waits(k) + IF m.k = k THEN 1 ELSE 0
      BY <2>1, SaidCounts
    <2>3. SameCounts  BY <1>1, <2>1, <2>2 DEF SameCounts, Answered
    <2> QED  BY <2>2, <2>3, AnsweringStutters
  <1>4. CASE \E m \in CamMsgs : CamSays(m) /\ m.k \in Requests
    <2>1. PICK m \in CamMsgs : CamSays(m) /\ m.k \in Requests  BY <1>4
    <2>2. /\ UNCHANGED <<world, pc, wifi>> /\ \A a : Told(a)' = Told(a)
          /\ \A k \in Requests : Waits(k)' = Waits(k) + IF m.k = k THEN 1 ELSE 0
      BY <2>1, SaidCounts
    <2>3. \A k \in Requests : CountOf(c2h, Msg(k, Cmd))'
                                = CountOf(c2h, Msg(k, Cmd)) + IF m.k = k THEN 1 ELSE 0
      BY <2>2 DEF Waits
    <2>4. \A k \in Requests : Told(AnswerOf(k))' = Told(AnswerOf(k))  BY <2>2
    <2>5. \A k \in Requests : CountOf(c2h, Msg(k, Cmd)) \in Nat  BY <1>1 DEF Waits
    <2> DEFINE W == [k \in Requests |-> CountOf(c2h, Msg(k, Cmd))]
    <2>6. W' = [W EXCEPT ![m.k] = W[m.k] + 1]
      <3>1. W \in [Requests -> Nat]  BY <2>5
      <3>2. W' = [k \in Requests |-> W'[k]]
            /\ \A k \in Requests : W'[k] = W[k] + IF k = m.k THEN 1 ELSE 0
        BY <2>3
      <3>3. m.k \in Requests  BY <2>1
      <3> HIDE DEF W
      <3> QED  BY <3>1, <3>2, <3>3, OneMore
    <2>7. Asking!Ask
      <3>1. m.k \in Requests  BY <2>1
      <3>2. UNCHANGED <<[k \in Requests |-> heard[AnswerOf(k)] + CountOf(h2c, Msg(AnswerOf(k), Cmd))],
                        pc \notin {"over", "closed"}>>
        BY <2>2, <2>4 DEF Told
      <3> QED  BY <2>6, <3>1, <3>2, Zenon DEF Asking!Ask
    <2> QED  BY <2>7 DEF Asking!Next
  <1>5. CASE CamInforms \/ CamReports \/ CamChats
    <2>1. \E m \in CamMsgs : CamSays(m)  BY <1>5, CameraTalks
    <2> QED  BY <1>3, <1>4, <2>1
  <1>6. CASE CamReads
    <2>1. UNCHANGED <<pc, c2h>>  BY <1>6 DEF CamReads, host
    <2>2. \A a \in HostKinds : Told(a)' = Told(a)  BY <1>6, ReadTold
    <2>3. SameCounts  BY <2>1, <2>2, AnswerKinds DEF SameCounts, Answered, Waits
    <2> QED  BY <2>1, <2>3, AnsweringStutters
  <1>7. CASE LinkDrops \/ UNCHANGED vars
    <2>1. UNCHANGED <<pc, c2h, h2c, heard>>
      BY <1>7 DEF LinkDrops, vars, host, camera
    <2>2. SameCounts  BY <2>1 DEF SameCounts, Answered, Waits, Told
    <2> QED  BY <2>1, <2>2, AnsweringStutters
  <1>8. CASE CamTears \/ AnswerAgain
    <2>1. UNCHANGED <<pc, c2h, h2c, heard>>
      BY <1>8, TearsOnly, ComesAgain DEF host, camera
    <2>2. SameCounts  BY <2>1 DEF SameCounts, Answered, Waits, Told
    <2> QED  BY <2>1, <2>2, AnsweringStutters
  <1> QED  BY <1>2, <1>5, <1>6, <1>7, <1>8 DEF Next, Camera, Done

\* _run_device_info_and_stream and what it calls implement Answering: a
\* question is answered in the step that reads it, or the session is over.
THEOREM ImplementsAnswering == Spec => AnswersRequests
  <1>1. Spec => Asking!Spec
    BY AnsweringInit, AnsweringNext, TypeCorrect, PTL DEF Spec, Asking!Spec
  <1> QED  BY <1>1 DEF AnswersRequests
-----------------------------------------------------------------------------
(* Whose stream it is.                                                     *)

\* A URL in hand is the camera's, or of no host at all.
Fetching == {"fetch", "rvf", "urls"}
Traced == ip = world.at => /\ pc \in Fetching => url.host \in {world.at, ""}
                           /\ pc = "live" => url.host = world.at

\* Nobody is reached at no address.
LEMMA ReachedIsCamera ==
  ASSUME TypeOK, url.host \in {world.at, ""}, Reached(url)
  PROVE  url.host = world.at /\ Server = world.devices[world.at]
  BY CameraAssumption DEF TypeOK, Reached, Server

LEMMA TracedFetch ==
  ASSUME TypeOK, Traced, Fetch
  PROVE  Traced'
  <1>1. pc = "fetch" /\ UNCHANGED <<world, ip>>  BY DEF Fetch, found, Elsewhere, camera
  <1>2. CASE pc' = "over"  BY <1>2 DEF Traced, Fetching
  <1>3. ASSUME pc' # "over", ip = world.at PROVE pc' = "rvf" /\ url'.host \in {world.at, ""}
    <2>1. url.host \in {world.at, ""}  BY <1>1, <1>3 DEF Traced, Fetching
    <2>2. /\ Reached(url) /\ pc' = "rvf"
          /\ \E document \in Server.documents :
               /\ ContentDirectory \in DOMAIN ParseDeviceDescription(document, BaseUrl(url))
               /\ url' = ParseDeviceDescription(document, BaseUrl(url))[ContentDirectory]
      BY <1>3 DEF Fetch, Goto
    <2>3. PICK document \in Server.documents :
               /\ ContentDirectory \in DOMAIN ParseDeviceDescription(document, BaseUrl(url))
               /\ url' = ParseDeviceDescription(document, BaseUrl(url))[ContentDirectory]
      BY <2>2
    <2>4. document \in Seq([type : STRING, control : Seq(STRING)])
      BY <2>1, <2>2, ReachedIsCamera, CameraAssumption DEF TypeOK
    <2>5. url'.host = BaseUrl(url).host  BY <2>3, <2>4, ServicesAtBase
    <2>6. BaseUrl(url).host \in {url.host, ""}  BY DEF BaseUrl, NoUrl, Url
    <2> QED  BY <2>1, <2>2, <2>5, <2>6
  <1> QED  BY <1>1, <1>2, <1>3 DEF Traced

LEMMA TracedGetUrls ==
  ASSUME TypeOK, Traced, GetUrls
  PROVE  Traced'
  <1>1. pc = "urls" /\ UNCHANGED <<world, ip>>  BY DEF GetUrls, found, Elsewhere, camera
  <1>2. CASE pc' \in {"over", "body"}  BY <1>2 DEF Traced, Fetching
  <1>3. ASSUME pc' \notin {"over", "body"}, ip = world.at PROVE pc' = "live" /\ url'.host = world.at
    <2>1. url.host \in {world.at, ""}  BY <1>1, <1>3 DEF Traced, Fetching
    <2>2. CASE url' = Url(ip, <<"livestream">>) /\ Goto("live")
      BY <1>3, <2>2 DEF Url, Goto
    <2>3. CASE /\ Reached(url)
               /\ \E answer \in Server.answers :
                    /\ url' = StreamUrl(ParseStreamUrls(answer))
                    /\ Goto(IF url' = NoUrl THEN "over" ELSE "live")
      <3> DEFINE Offered == [host : {world.at}, path : Seq(STRING)] \cup {NoUrl}
      <3>1. PICK answer \in Server.answers :
              /\ url' = StreamUrl(ParseStreamUrls(answer))
              /\ Goto(IF url' = NoUrl THEN "over" ELSE "live")
        BY <2>3
      <3>2. url' # NoUrl /\ pc' = "live"  BY <1>3, <3>1 DEF Goto
      <3>3. answer \in Seq([key : STRING, value : Offered])
        BY <2>1, <2>3, ReachedIsCamera, CameraAssumption DEF TypeOK
      <3>4. PICK i \in DOMAIN answer : answer[i].value = url'
        BY <3>1, <3>2, <3>3, StreamIsOffered
      <3>5. answer[i] \in [key : STRING, value : Offered]
        <4> DEFINE T == [key : STRING, value : Offered]
        <4>1. answer \in Seq(T)  BY <3>3
        <4> HIDE DEF T
        <4>2. answer[i] \in T  BY <3>4, <4>1
        <4> QED  BY <4>2 DEF T
      <3>6. url' \in Offered  BY <3>4, <3>5
      <3> QED  BY <3>2, <3>6
    <2> QED  BY <1>3, <2>2, <2>3 DEF GetUrls, Goto
  <1> QED  BY <1>1, <1>3, <1>2 DEF Traced, Fetching

LEMMA TracedFound ==
  ASSUME TypeOK, Traced, DiscoverBt \/ Reply
  PROVE  Traced'
  <1>1. /\ UNCHANGED <<world, ip>> /\ pc' \in {"disc", "ssdp", "replies", "fetch", "over"}
    <2>1. CASE DiscoverBt
      BY <2>1 DEF DiscoverBt, Read, ReadNone, HandleBtMessage, Say, Iterate, Goto, found, camera
    <2>2. CASE Reply
      BY <2>2 DEF Reply, ReplyIf, NextProbe, Goto, found, Elsewhere, camera
    <2> QED  BY <2>1, <2>2
  <1>2. world \in Worlds /\ coming \subseteq world.replies  BY DEF TypeOK
  <1>3. ASSUME pc' = "fetch", ip = world.at PROVE url'.host \in {world.at, ""}
    <2>1. CASE DiscoverBt
      <3>1. url' = world.device
        BY <1>3, <2>1 DEF DiscoverBt, Read, ReadNone, HandleBtMessage, Say, Iterate, Goto
      <3> QED  BY <1>2, <3>1, CameraAssumption DEF Its
    <2>2. CASE Reply
      <3>1. PICK r \in coming : IsAnswer(r, ip) /\ url' = Head(r.locations)
        BY <1>3, <2>2 DEF Reply, ReplyIf, NextProbe, Goto
      <3>2. r.locations \in Seq(Its(world)) /\ r.locations # <<>>
        BY <1>2, <1>3, <3>1, CameraAssumption DEF IsAnswer
      <3>3. Head(r.locations) \in Its(world)  BY <3>2, HeadTailProperties
      <3> QED  BY <3>1, <3>3 DEF Its
    <2> QED  BY <2>1, <2>2
  <1> QED  BY <1>1, <1>3 DEF Traced, Fetching

LEMMA TracedNext == TypeOK /\ Traced /\ [Next]_vars => Traced'
  <1> SUFFICES ASSUME TypeOK, Traced, [Next]_vars PROVE Traced'  OBVIOUS
  <1>1. CASE Fetch  BY <1>1, TracedFetch
  <1>2. CASE GetUrls  BY <1>2, TracedGetUrls
  <1>3. CASE DiscoverBt \/ Reply  BY <1>3, TracedFound
  <1>4. CASE EnterRvf
    <2>1. pc = "rvf" /\ pc' \in {"urls", "body", "over"} /\ UNCHANGED <<world, ip, url>>
      BY <1>4 DEF EnterRvf, Goto, found, Elsewhere, camera
    <2> QED  BY <2>1 DEF Traced, Fetching
  <1>5. CASE \/ SendDeviceInfo \/ SendWidgetReq \/ WaitInfo \/ Drain \/ SendLiveview
             \/ WaitLiveview \/ Decide \/ Scan \/ Resolve \/ Search \/ Close \/ StreamEnds
    <2>1. pc' \notin Fetching \cup {"live"}
      <3> USE DEF Fetching, Goto, Say, Iterate, HandleBtMessage
      <3>1. CASE SendDeviceInfo \/ SendWidgetReq \/ SendLiveview
        BY <3>1 DEF SendDeviceInfo, SendWidgetReq, SendLiveview, SendAt
      <3>2. CASE WaitInfo  BY <3>2 DEF WaitInfo, InfoThen, Read, ReadNone
      <3>3. CASE Drain  BY <3>3 DEF Drain, Read, ReadNone
      <3>4. CASE WaitLiveview  BY <3>4 DEF WaitLiveview, Read, ReadNone
      <3>5. CASE Decide \/ Resolve \/ Search \/ Close \/ StreamEnds
        BY <3>5 DEF Decide, Resolve, Search, Close, StreamEnds
      <3>6. CASE Scan  BY <3>6 DEF Scan, ScanOr
      <3> QED  BY <1>5, <3>1, <3>2, <3>3, <3>4, <3>5, <3>6
    <2> QED  BY <2>1 DEF Traced
  <1>6. CASE Camera \/ CamChats \/ LinkDrops \/ UNCHANGED vars
    <2>1. UNCHANGED <<world, pc, ip, url>>
      BY <1>6 DEF Camera, CamInforms, CamReports, CamReads, CamChats, CamSays, LinkDrops, vars,
                  host, found
    <2> QED  BY <2>1 DEF Traced
  <1>7. CASE CamTears \/ AnswerAgain
    <2>1. UNCHANGED <<world, pc, ip, url>>
      BY <1>7, TearsOnly, ComesAgain DEF host, found, camera
    <2> QED  BY <2>1 DEF Traced
  <1> QED  BY <1>1, <1>2, <1>3, <1>4, <1>5, <1>6, <1>7 DEF Next, Host, Done

\* _resolve_camera_ip, _ssdp_probe, _fetch_upnp_services and _start_live_stream
\* together: with the camera's address, what is played is the camera's stream,
\* whatever other devices say and whichever request fails.
THEOREM StreamIsTheCameras == Spec => []StreamsFromCamera
  <1>1. Init => Traced  BY DEF Init, Traced, Fetching
  <1>2. Traced => StreamsFromCamera  BY DEF Traced, StreamsFromCamera
  <1> QED  BY <1>1, <1>2, TracedNext, TypeCorrect, PTL DEF Spec
-----------------------------------------------------------------------------
(* The host's steps are counted.                                           *)

OnTime == /\ n \in Nat
          /\ pc = "info" => n < InfoTries
          /\ pc = "drain" => n < DrainTries
          /\ pc = "liveview" => n < LiveTries
          /\ pc = "scan" => n < ScanTries
          /\ pc = "disc" => n < UrlTries
          /\ pc \in {"ssdp", "replies"} => n < Probes

\* How a step goes on: round again, or over to what follows.
Round(p, tries) == pc = p /\ pc' = p /\ n' = n + 1 /\ n + 1 < tries
Over(p, q) == pc = p /\ pc' = q /\ n' = 0
Exchanging ==
  \/ \E q \in {"start2", "over"} : Over("start", q)
  \/ \E q \in {"info", "over"} : Over("start2", q)
  \/ Round("info", InfoTries) \/ \E q \in {"drain", "over"} : Over("info", q)
  \/ Round("drain", DrainTries) \/ \E q \in {"command", "over"} : Over("drain", q)
  \/ \E q \in {"liveview", "over"} : Over("command", q)
  \/ Round("liveview", LiveTries) \/ \E q \in {"decide", "over"} : Over("liveview", q)
  \/ \E q \in {"scan", "over"} : Over("decide", q)
Finding ==
  \/ Round("scan", ScanTries) \/ \E q \in {"resolve", "over"} : Over("scan", q)
  \/ Over("resolve", "disc")
  \/ Round("disc", UrlTries) \/ \E q \in {"ssdp", "fetch", "over"} : Over("disc", q)
Searching ==
  \/ pc = "ssdp" /\ pc' = "replies" /\ n' = n
  \/ PassesOver
  \/ pc = "replies" /\ pc' = "ssdp" /\ n' = n + 1 /\ n + 1 < Probes
  \/ \E q \in {"fetch", "over"} : Over("replies", q)
Streaming ==
  \/ \E q \in {"rvf", "over"} : Over("fetch", q)
  \/ \E q \in {"urls", "body", "over"} : Over("rvf", q)
  \/ \E q \in {"live", "body", "over"} : Over("urls", q)
  \/ Over("live", "over")
  \/ pc = "over" /\ pc' = "closed" /\ n' = n

LEMMA IterateMoves ==
  ASSUME NEW p, pc = p, NEW tries, NEW over, Iterate(tries, over)
  PROVE  Round(p, tries) \/ Over(p, over)
  BY DEF Iterate, Goto, Round, Over

LEMMA GotoMoves == \A p, q : pc = p /\ Goto(q) => Over(p, q)
  BY Zenon DEF Goto, Over

LEMMA ExchangeMoves ==
  ASSUME SendDeviceInfo \/ SendWidgetReq \/ WaitInfo \/ Drain \/ SendLiveview
         \/ WaitLiveview \/ Decide
  PROVE  Exchanging
  <1>1. CASE SendDeviceInfo
    <2>1. pc = "start" /\ (Goto("start2") \/ Goto("over"))
      BY <1>1, Zenon DEF SendDeviceInfo, SendAt, Say
    <2> QED  BY <2>1, GotoMoves DEF Exchanging
  <1>2. CASE SendWidgetReq
    <2>1. pc = "start2" /\ (Goto("info") \/ Goto("over"))
      BY <1>2, Zenon DEF SendWidgetReq, SendAt, Say
    <2> QED  BY <2>1, GotoMoves DEF Exchanging
  <1>3. CASE SendLiveview
    <2>1. pc = "command" /\ (Goto("liveview") \/ Goto("over"))
      BY <1>3, Zenon DEF SendLiveview, SendAt, Say
    <2> QED  BY <2>1, GotoMoves DEF Exchanging
  <1>4. CASE WaitInfo
    <2>1. pc = "info"  BY <1>4, Zenon DEF WaitInfo, InfoThen, Read, ReadNone
    <2>2. Iterate(InfoTries, "drain") \/ Goto("drain") \/ Goto("over")
      BY <1>4 DEF WaitInfo, InfoThen, HandleBtMessage, Say
    <2>3. Round("info", InfoTries) \/ Over("info", "drain") \/ Over("info", "over")
      BY <2>1, <2>2, GotoMoves, IterateMoves, Zenon
    <2> QED  BY <2>3 DEF Exchanging
  <1>5. CASE Drain
    <2>1. pc = "drain"  BY <1>5, Zenon DEF Drain, Read, ReadNone
    <2>2. Iterate(DrainTries, "command") \/ Goto("over")
      BY <1>5, Zenon DEF Drain, HandleBtMessage, Say
    <2>3. Round("drain", DrainTries) \/ Over("drain", "command") \/ Over("drain", "over")
      BY <2>1, <2>2, GotoMoves, IterateMoves, Zenon
    <2> QED  BY <2>3 DEF Exchanging
  <1>6. CASE WaitLiveview
    <2>1. pc = "liveview"  BY <1>6, Zenon DEF WaitLiveview, Read, ReadNone
    <2>2. Iterate(LiveTries, "decide") \/ Goto("decide") \/ Goto("over")
      BY <1>6, Zenon DEF WaitLiveview, HandleBtMessage, Say
    <2>3. Round("liveview", LiveTries) \/ Over("liveview", "decide") \/ Over("liveview", "over")
      BY <2>1, <2>2, GotoMoves, IterateMoves, Zenon
    <2> QED  BY <2>3 DEF Exchanging
  <1>7. CASE Decide
    <2>1. pc = "decide" /\ (Goto("scan") \/ Goto("over"))  BY <1>7, Zenon DEF Decide
    <2> QED  BY <2>1, GotoMoves DEF Exchanging
  <1> QED  BY <1>1, <1>2, <1>3, <1>4, <1>5, <1>6, <1>7

LEMMA FindingMoves ==
  ASSUME Scan \/ Resolve \/ DiscoverBt
  PROVE  Finding
  <1>1. CASE Scan
    <2>1. pc = "scan"  BY <1>1, Zenon DEF Scan, ScanOr
    <2>2. Iterate(ScanTries, "over") \/ Goto("resolve") \/ Goto("over")
      BY <1>1, Zenon DEF Scan, ScanOr
    <2>3. Round("scan", ScanTries) \/ Over("scan", "resolve") \/ Over("scan", "over")
      BY <2>1, <2>2, GotoMoves, IterateMoves, Zenon
    <2> QED  BY <2>3 DEF Finding
  <1>2. CASE Resolve
    <2>1. Over("resolve", "disc")  BY <1>2, GotoMoves, Zenon DEF Resolve
    <2> QED  BY <2>1 DEF Finding
  <1>3. CASE DiscoverBt
    <2>1. pc = "disc"  BY <1>3, Zenon DEF DiscoverBt, Read, ReadNone
    <2>2. Iterate(UrlTries, "ssdp") \/ Goto("fetch") \/ Goto("over")
      BY <1>3 DEF DiscoverBt, HandleBtMessage, Say
    <2>3. \/ Round("disc", UrlTries)
          \/ Over("disc", "ssdp") \/ Over("disc", "fetch") \/ Over("disc", "over")
      BY <2>1, <2>2, GotoMoves, IterateMoves, Zenon
    <2> QED  BY <2>3 DEF Finding
  <1> QED  BY <1>1, <1>2, <1>3

LEMMA SearchMoves ==
  ASSUME Search \/ Reply
  PROVE  Searching
  <1>1. CASE Search  BY <1>1, Zenon DEF Search, Searching
  <1>2. CASE Reply
    <2>1. pc = "replies"  BY <1>2, Zenon DEF Reply, ReplyIf
    <2>2. CASE NextProbe
      <3>1. CASE n + 1 < Probes  BY <2>1, <2>2, <3>1 DEF NextProbe, Searching
      <3>2. CASE ~ (n + 1 < Probes)
        <4>1. Over("replies", "over")  BY <2>1, <2>2, <3>2, GotoMoves DEF NextProbe
        <4> QED  BY <4>1 DEF Searching
      <3> QED  BY <3>1, <3>2
    <2>3. CASE Goto("fetch")
      <3>1. Over("replies", "fetch")  BY <2>1, <2>3, GotoMoves
      <3> QED  BY <3>1 DEF Searching
    <2>4. CASE \E r \in coming : coming' = coming \ {r} /\ UNCHANGED <<pc, n, url>>
      <3>1. UNCHANGED <<ip, wifi, world>>  BY <1>2 DEF Reply, ReplyIf, Elsewhere, camera
      <3>2. coming' # coming  BY <2>4
      <3> QED  BY <2>1, <2>4, <3>1, <3>2 DEF Searching, PassesOver
    <2> QED  BY <1>2, <2>2, <2>3, <2>4 DEF Reply, ReplyIf
  <1> QED  BY <1>1, <1>2

LEMMA StreamMoves ==
  ASSUME Fetch \/ EnterRvf \/ GetUrls \/ StreamEnds \/ Close
  PROVE  Streaming
  <1>1. CASE Fetch
    <2>1. pc = "fetch" /\ (Goto("rvf") \/ Goto("over"))  BY <1>1 DEF Fetch
    <2> QED  BY <2>1, GotoMoves DEF Streaming
  <1>2. CASE EnterRvf
    <2>1. pc = "rvf" /\ (Goto("urls") \/ Goto("body") \/ Goto("over"))  BY <1>2 DEF EnterRvf
    <2> QED  BY <2>1, GotoMoves DEF Streaming
  <1>3. CASE GetUrls
    <2>1. pc = "urls" /\ (Goto("live") \/ Goto("body") \/ Goto("over"))  BY <1>3 DEF GetUrls
    <2> QED  BY <2>1, GotoMoves DEF Streaming
  <1>4. CASE StreamEnds
    <2>1. Over("live", "over")  BY <1>4, GotoMoves, Zenon DEF StreamEnds
    <2> QED  BY <2>1 DEF Streaming
  <1>5. CASE Close  BY <1>5, Zenon DEF Close, Streaming
  <1> QED  BY <1>1, <1>2, <1>3, <1>4, <1>5

LEMMA HostMoves == Host \/ StreamEnds => Exchanging \/ Finding \/ Searching \/ Streaming
  BY ExchangeMoves, FindingMoves, SearchMoves, StreamMoves DEF Host

LEMMA FromTyped ==
  /\ {InfoTries, DrainTries, LiveTries, ScanTries, UrlTries, Probes} \subseteq Nat \ {0}
  /\ FromSearch \in Nat /\ FromSearch = 2 * Probes + 5
  /\ FromResolve \in Nat /\ FromResolve = UrlTries + FromSearch + 1
  /\ FromDecide \in Nat /\ FromDecide = ScanTries + FromResolve + 1
  /\ FromCommand \in Nat /\ FromCommand = LiveTries + FromDecide + 1
  BY BoundsAssumption DEF FromSearch, FromResolve, FromDecide, FromCommand

LEMMA LeftIs ==
  ASSUME NEW k \in Nat
  PROVE  /\ Left("start", k) = InfoTries + DrainTries + FromCommand + 2
         /\ Left("start2", k) = InfoTries + DrainTries + FromCommand + 1
         /\ Left("info", k) = InfoTries - k + DrainTries + FromCommand
         /\ Left("drain", k) = DrainTries - k + FromCommand
         /\ Left("command", k) = FromCommand
         /\ Left("liveview", k) = LiveTries - k + FromDecide
         /\ Left("decide", k) = FromDecide
         /\ Left("scan", k) = ScanTries - k + FromResolve
         /\ Left("resolve", k) = FromResolve
         /\ Left("disc", k) = UrlTries - k + FromSearch
         /\ Left("ssdp", k) = 2 * (Probes - k) + 5
         /\ Left("replies", k) = 2 * (Probes - k) + 4
         /\ Left("fetch", k) = 5 /\ Left("rvf", k) = 4
         /\ Left("urls", k) = 3 /\ Left("live", k) = 2
         /\ Left("over", k) = 1 /\ Left("closed", k) = 0 /\ Left("body", k) = 0
  BY DEF Left

\* A step of the host spends one, unless it passes over a reply.
Spent == OnTime' /\ (PassesOver \/ Left(pc', n') \in 0 .. Left(pc, n) - 1)

LEMMA MoveSpends ==
  ASSUME OnTime, Exchanging \/ Finding \/ Searching \/ Streaming
  PROVE  Spent
  <1>0. n \in Nat /\ 0 \in Nat /\ n + 1 \in Nat  BY DEF OnTime
  <1>f. /\ InfoTries \in Nat /\ DrainTries \in Nat /\ LiveTries \in Nat
        /\ ScanTries \in Nat /\ UrlTries \in Nat
        /\ InfoTries > 0 /\ DrainTries > 0 /\ LiveTries > 0 /\ ScanTries > 0 /\ UrlTries > 0
        /\ Probes \in Nat /\ Probes > 0
    BY BoundsAssumption
  <1>g. /\ FromSearch \in Nat /\ FromSearch = 2 * Probes + 5
        /\ FromResolve \in Nat /\ FromResolve = UrlTries + FromSearch + 1
        /\ FromDecide \in Nat /\ FromDecide = ScanTries + FromResolve + 1
        /\ FromCommand \in Nat /\ FromCommand = LiveTries + FromDecide + 1
    BY FromTyped
  <1>1. CASE Exchanging
    <2>1. CASE (\E q \in {"start2", "over"} : Over("start", q))
      BY <1>0, <1>f, <1>g, <2>1, LeftIs DEF Over, Spent, OnTime
    <2>2. CASE (\E q \in {"info", "over"} : Over("start2", q))
      BY <1>0, <1>f, <1>g, <2>2, LeftIs DEF Over, Spent, OnTime
    <2>3. CASE Round("info", InfoTries) \/ (\E q \in {"drain", "over"} : Over("info", q))
      BY <1>0, <1>f, <1>g, <2>3, LeftIs DEF Over, Round, Spent, OnTime
    <2>4. CASE Round("drain", DrainTries) \/ (\E q \in {"command", "over"} : Over("drain", q))
      BY <1>0, <1>f, <1>g, <2>4, LeftIs DEF Over, Round, Spent, OnTime
    <2>5. CASE (\E q \in {"liveview", "over"} : Over("command", q))
      BY <1>0, <1>f, <1>g, <2>5, LeftIs DEF Over, Spent, OnTime
    <2>6. CASE Round("liveview", LiveTries) \/ (\E q \in {"decide", "over"} : Over("liveview", q))
      BY <1>0, <1>f, <1>g, <2>6, LeftIs DEF Over, Round, Spent, OnTime
    <2>7. CASE (\E q \in {"scan", "over"} : Over("decide", q))
      BY <1>0, <1>f, <1>g, <2>7, LeftIs DEF Over, Spent, OnTime
    <2> QED  BY <1>1, <2>1, <2>2, <2>3, <2>4, <2>5, <2>6, <2>7 DEF Exchanging
  <1>2. CASE Finding
    <2>1. CASE Round("scan", ScanTries) \/ (\E q \in {"resolve", "over"} : Over("scan", q))
      BY <1>0, <1>f, <1>g, <2>1, LeftIs DEF Over, Round, Spent, OnTime
    <2>2. CASE (\E q \in {"disc"} : Over("resolve", q))
      BY <1>0, <1>f, <1>g, <2>2, LeftIs DEF Over, Spent, OnTime
    <2>3. CASE Round("disc", UrlTries) \/ (\E q \in {"ssdp", "fetch", "over"} : Over("disc", q))
      BY <1>0, <1>f, <1>g, <2>3, LeftIs DEF Over, Round, Spent, OnTime
    <2> QED  BY <1>2, <2>1, <2>2, <2>3 DEF Finding
  <1>3. CASE Searching
    <2>1. pc \in {"ssdp", "replies"} /\ n < Probes
      BY <1>3 DEF Searching, PassesOver, Over, OnTime
    <2>2. CASE PassesOver
      <3>1. pc' = pc /\ n' = n  BY <2>2 DEF PassesOver
      <3> QED  BY <2>2, <3>1 DEF Spent, OnTime
    <2>3. CASE ~PassesOver
      BY <1>0, <1>f, <1>3, <2>1, <2>3, LeftIs DEF Searching, Over, Spent, OnTime
    <2> QED  BY <2>2, <2>3
  <1>4. CASE Streaming
    BY <1>0, <1>4, LeftIs DEF Streaming, Over, Spent, OnTime
  <1> QED  BY <1>1, <1>2, <1>3, <1>4

LEMMA OthersSpendNone ==
  ASSUME [Next]_vars, ~Host, ~StreamEnds
  PROVE  UNCHANGED <<world, pc, n, wifi, ip, url>>
  <1> USE DEF host, found
  <1>1. CASE Camera \/ CamChats
    BY <1>1, Zenon DEF Camera, CamChats, CamInforms, CamReports, CamReads, CamSays
  <1>2. CASE LinkDrops  BY <1>2 DEF LinkDrops
  <1>3. CASE UNCHANGED vars  BY <1>3 DEF vars
  <1>4. CASE CamTears \/ AnswerAgain  BY <1>4, TearsOnly, ComesAgain DEF camera
  <1> QED  BY <1>1, <1>2, <1>3, <1>4 DEF Next, Done

Spending == IF Host \/ StreamEnds
            THEN PassesOver \/ Left(pc', n') \in 0 .. Left(pc, n) - 1
            ELSE UNCHANGED <<world, pc, n, wifi, ip, url>>

LEMMA OnTimeNext == OnTime /\ [Next]_vars => OnTime' /\ Spending
  <1> SUFFICES ASSUME OnTime, [Next]_vars PROVE OnTime' /\ Spending  OBVIOUS
  <1>1. CASE Host \/ StreamEnds
    <2>1. Exchanging \/ Finding \/ Searching \/ Streaming  BY <1>1, HostMoves
    <2>2. Spent  BY <2>1, MoveSpends
    <2> QED  BY <1>1, <2>2 DEF Spent, Spending
  <1>2. CASE ~Host /\ ~StreamEnds
    <2>1. UNCHANGED <<world, pc, n, wifi, ip, url>>  BY <1>2, OthersSpendNone
    <2>2. OnTime'  BY <2>1 DEF OnTime
    <2> QED  BY <1>2, <2>1, <2>2 DEF Spending
  <1> QED  BY <1>1, <1>2

\* Each of the host's steps spends one of those it has left, or passes over a
\* reply that is no answer, whatever the camera, NetworkManager, the networks
\* and the servers do or fail to do: no loop is entered again once left, and no
\* message, reply or failure gives an iteration back.  (That the step is taken
\* is the fairness of the run; that replies cease is nowhere assured.)
THEOREM HostIsBounded == Spec => HostSpends
  <1>1. Init => OnTime  BY DEF Init, OnTime
  <1>2. OnTime /\ [Next]_vars
          => [IF Host \/ StreamEnds
              THEN PassesOver \/ Left(pc', n') \in 0 .. Left(pc, n) - 1
              ELSE UNCHANGED <<world, pc, n, wifi, ip, url>>]_vars
    BY OnTimeNext DEF Spending
  <1> QED  BY <1>1, <1>2, OnTimeNext, PTL DEF Spec, HostSpends
==============================================================================
