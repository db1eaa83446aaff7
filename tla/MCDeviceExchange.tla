--------------------------- MODULE MCDeviceExchange ---------------------------
(***************************************************************************)
(* DeviceExchange for TLC: the cameras and networks that are met.          *)
(***************************************************************************)
EXTENDS DeviceExchange, TLC

At == "192.168.107.1"  \* PROTOCOL.md:42
Media == "10.0.0.7"   \* a media server on another network of the host

Wifi(via) == [wifi |-> TRUE, via |-> via]
Wired == [wifi |-> FALSE, via |-> "10.0.0.1"]
Service(type, control) == [type |-> type, control |-> control]
Offer(tag, u) == [key |-> tag, value |-> u]
From(from, locations) == [from |-> from, locations |-> locations]
Directory == Service(ContentDirectory, <<"control", "cd">>)
Stream(h, name) == Url(h, <<name>>)
Http(h) == [description |-> <<"smp_2_">>, control |-> <<"control", "cd">>,
            documents |-> {<<Service("RenderingControl", <<"control", "rc">>), Directory>>},
            answers |-> {<<Offer("QualityLowUrl", Stream(h, "low")),
                           Offer("QualityHighUrl", Stream(h, "high")),
                           Offer("QualityRecUrl", Stream(h, "rec"))>>}]

\* A prompt camera that offers its own network, and requests that succeed.
Good == [chatter |-> {"date-time-req", "config-info", "cmd-req", "widget-info-rsp"},
         infos |-> {"softap"}, urls |-> {"url"}, device |-> Url(At, <<"smp_2_">>),
         prompt |-> TRUE, drops |-> FALSE, nmcli |-> {"ok"}, at |-> At,
         networks |-> {<<Wired, Wifi(At)>>}, replies |-> {From(At, <<Url(At, <<"smp_2_">>)>>)},
         repeats |-> FALSE,
         devices |-> (At :> Http(At) @@ Media :> Http(Media)),
         http |-> {"ok"}, good |-> TRUE]

\* One that says its URL to searches only, as others do that hear them.
Searched == [Good EXCEPT
  !.chatter = {}, !.urls = {},
  !.replies = @ \cup {From(At, <<>>),
                     From(Media, <<Url(Media, <<"smp_2_">>)>>)}]

\* One that is late, repeats its info or offers no usable network, over a
\* link that may drop, with scans that fail in every way.
Rough == [Good EXCEPT
  !.chatter = {"date-time-req", "cmd-req"}, !.infos = {"softap", "direct"},
  !.urls = {"url", ""}, !.prompt = FALSE, !.drops = TRUE,
  !.nmcli = {"ok", "refused", "unseen", "raises"}, !.good = FALSE]

\* Discovery that fails in every way: addresses that are not resolved,
\* replies that are lost, of no use or never cease, documents that say too
\* little, bodies without end.
Lost == [Searched EXCEPT
  !.prompt = FALSE, !.drops = TRUE,
  !.networks = {<<Wired>>, <<Wifi("none")>>, <<Wifi(At)>>},
  !.replies = @ \cup {From(At, <<NoUrl>>), From(At, <<Url(At, <<>>)>>)},
  !.devices[At].documents = @ \cup {<<>>, <<Service("", <<>>), Directory, Service(Bare, <<>>)>>,
                                   <<Directory, Service(ContentDirectory, <<"x">>)>>},
  !.devices[At].answers = @ \cup {<<>>, <<Offer("QualityLowUrl", NoUrl)>>},
  !.repeats = TRUE, !.http = {"ok", "error", "raises", "endless"}, !.good = FALSE]

\* The good camera, asking for the phone's capabilities and nothing else.
Curious == [Good EXCEPT !.chatter = {"capex-query", "legacy-query"}]

\* One whose network shows no route, and that does not answer GetInfomation.
Unrouted == [Good EXCEPT !.networks = {<<Wifi("none")>>}, !.http = {"ok", "error"}]

MCWorlds == {Good, Searched, Rough, Lost, Curious}
MCCurious == {Curious}
MCUnrouted == {Unrouted}
=============================================================================
