------------------------------ MODULE Discovery ------------------------------
(***************************************************************************)
(* What phases 5-7 work out from the tables, replies and documents they    *)
(* are given (session.py, upnp.py): the camera's address, the URLs of its  *)
(* services, the URL of its stream.                                        *)
(*                                                                         *)
(* An address is a string, a URL [host, path] with the path a sequence of  *)
(* segments; a document is the sequence of the elements that are read out  *)
(* of it, in their order.                                                  *)
(***************************************************************************)
EXTENDS Naturals, Sequences

Url(h, p) == [host |-> h, path |-> p]
NoUrl == Url("", <<>>)

\* Entries [key, value] put into a dict one by one, those at the indices I: the
\* last of a key stays.
DictOf(entries, I) ==
  LET at(k) == {i \in I : entries[i].key = k}
      last(k) == CHOOSE i \in at(k) : \A j \in at(k) : j <= i
  IN [k \in {entries[i].key : i \in I} |-> entries[last(k)].value]

\* The first active connection [wifi, via] over WiFi counts, whatever network
\* it is; via is its default gateway or "none".  An nmcli or ip that is missing
\* or hangs shows no connection.
Fallback == "192.168.43.1"
ResolveCameraIp(connections) ==
  LET wifi == {i \in DOMAIN connections : connections[i].wifi}
      first == connections[CHOOSE i \in wifi : \A j \in wifi : i <= j]
  IN IF wifi = {} \/ first.via = "none" THEN Fallback ELSE first.via

\* A reply [from, locations] to a search is looked at if it comes from the
\* camera's address, and for its first LOCATION header.
IsAnswer(reply, cameraIp) == reply.from = cameraIp /\ reply.locations # <<>>

\* device_url.rsplit("/", 1)[0]: a URL without a path loses its host.
BaseUrl(url) == IF url.path = <<>> THEN NoUrl
                ELSE Url(url.host, SubSeq(url.path, 1, Len(url.path) - 1))

\* {service type: control URL}; a service without a type is left out.
ParseDeviceDescription(services, base) ==
  DictOf([i \in DOMAIN services |->
            [key |-> services[i].type,
             value |-> Url(base.host, base.path \o services[i].control)]],
         {i \in DOMAIN services : services[i].type # ""})

\* Logging a type without a colon in it raises.
ContentDirectory == "ContentDirectory"
Bare == "bare"
Loggable(services) == Bare \notin DOMAIN services

QualityTags == {"QualityHighUrl", "QualityMiddelUrl", "QualityLowUrl",
                "QualityRecUrl", "QualityGearVRUrl"}
\* A blank element counts as none.
ParseStreamUrls(elements) ==
  DictOf(elements, {i \in DOMAIN elements : /\ elements[i].key \in QualityTags
                                           /\ elements[i].value # NoUrl})

\* The best there is; the streams for recording and for Gear VR are not for us.
UrlOr(urls, tag, other) == IF tag \in DOMAIN urls THEN urls[tag] ELSE other
StreamUrl(urls) == UrlOr(urls, "QualityHighUrl",
                     UrlOr(urls, "QualityMiddelUrl", UrlOr(urls, "QualityLowUrl", NoUrl)))
=============================================================================
