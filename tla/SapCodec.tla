------------------------------ MODULE SapCodec ------------------------------
(***************************************************************************)
(* The two messages of type 2 the host reads bytes out of: the capex       *)
(* response (parse_capex_response, sap.py) and the service connection      *)
(* response (_wait_service_connection, session.py), with the layout that   *)
(* make_capex_response and the two parsers give them.                      *)
(*                                                                         *)
(* A message is a sequence of bytes; offsets count from 0, as in the code. *)
(* A name or a profile is a few bytes that stand for its letters.          *)
(***************************************************************************)
EXTENDS Naturals, SequencesExt

FieldSeparator == 59  \* ';'
Di360 == 68           \* the letters DI_360 in a profile id

Be16(v) == <<v \div 256, v % 256>>
U16(msg, offset) == 256 * msg[offset + 1] + msg[offset + 2]

\* msg.find: the first at or after the offset, or none.
Separator(msg, i) == msg[i + 1] = FieldSeparator
Found(msg, offset) == \E i \in offset .. Len(msg) - 1 : Separator(msg, i)
Find(msg, offset) == CHOOSE i \in offset .. Len(msg) - 1 :
                       Separator(msg, i) /\ \A j \in offset .. i - 1 : ~Separator(msg, j)
-----------------------------------------------------------------------------
(* Capex responses.  An ALE record is [name, agents], an agent             *)
(* [componentId, profileId].                                               *)

Agent(a) == Be16(a.componentId) \o a.profileId \o <<FieldSeparator>>
            \o Be16(256) \o <<2>> \o Be16(10)
Ale(r) == Be16(0) \o r.name \o <<FieldSeparator>> \o Be16(Len(r.agents))
          \o FlattenSeq([i \in 1 .. Len(r.agents) |-> Agent(r.agents[i])])

\* What the format can carry: a text ends where a separator comes, and numbers
\* have two bytes; and what a response with those records lists.
Texts == Seq((0 .. 255) \ {FieldSeparator})
Words == 0 .. 65535
Agents == [componentId : Words, profileId : Texts]
Records == [name : Texts, agents : Seq(Agents)]
Listable(records) == /\ records \in Seq(Records) /\ Len(records) \in Words
                     /\ \A i \in DOMAIN records : Len(records[i].agents) \in Words
Listing(records) == FlattenSeq([i \in 1 .. Len(records) |-> records[i].agents])

\* Query types 2 and 3 carry a checksum before the records.
HasChecksum(queryType) == queryType \in {2, 3}
CapexResponse(queryType, records) ==
  <<2, queryType>> \o (IF HasChecksum(queryType) THEN <<0, 0, 0, 0>> ELSE <<>>)
  \o Be16(Len(records)) \o FlattenSeq([i \in 1 .. Len(records) |-> Ale(records[i])])

\* The state of a loop of the parser: the offset, the services so far, and the
\* iterations left.
Parsing == [offset : Nat, left : Nat,
            services : Seq([componentId : Nat, profileId : Seq(Nat)])]

\* A record and an agent start alike: two bytes, then a text that ends with a
\* separator.
Text(s) == s.offset + 2
PastText(msg, s) == Find(msg, Text(s)) + 1
HasText(msg, s) == s.left # 0 /\ Text(s) <= Len(msg) /\ Found(msg, Text(s))

\* The agents of a record.  A break leaves the offset where it got to.
HasAgent(msg, s) == HasText(msg, s) /\ PastText(msg, s) + 5 <= Len(msg)
NextAgent(msg, s) ==
  [offset |-> PastText(msg, s) + 5, left |-> s.left - 1,
   services |-> Append(s.services,
                  [componentId |-> U16(msg, s.offset),
                   profileId |-> SubSeq(msg, Text(s) + 1, PastText(msg, s) - 1)])]
AgentBreak(msg, s) ==
  IF s.left = 0 \/ Text(s) > Len(msg) THEN s
  ELSE [s EXCEPT !.offset = IF HasText(msg, s) THEN PastText(msg, s) ELSE Text(s)]
ParseAgents(msg, start) ==
  LET agents[s \in Parsing] ==
        IF HasAgent(msg, s) THEN agents[NextAgent(msg, s)] ELSE AgentBreak(msg, s)
  IN agents[start]

\* The records.  A break of the inner loop does not end the outer one.
HasRecord(msg, s) == HasText(msg, s) /\ PastText(msg, s) + 2 <= Len(msg)
NextRecord(msg, s) ==
  LET count == PastText(msg, s)
      agents == [offset |-> count + 2, left |-> U16(msg, count), services |-> s.services]
  IN [ParseAgents(msg, agents) EXCEPT !.left = s.left - 1]
ParseRecords(msg, start) ==
  LET records[s \in Parsing] ==
        IF HasRecord(msg, s) THEN records[NextRecord(msg, s)] ELSE s.services
  IN records[start]

parse_capex_response(msg) ==
  LET count == IF HasChecksum(msg[2]) THEN 6 ELSE 2 IN
  IF Len(msg) < 2 \/ msg[1] # 2 \/ count + 2 > Len(msg) THEN <<>>
  ELSE ParseRecords(msg, [offset |-> count + 2, left |-> U16(msg, count), services |-> <<>>])

\* camera_component_id: the last service with the profile counts.
Serves(service) == \E i \in 1 .. Len(service.profileId) : service.profileId[i] = Di360
\* (Mutant: whatever its profile.)
ComponentOfAny(services) ==
  IF services = <<>> THEN 0 ELSE services[Len(services)].componentId
ComponentOf(services) ==
  LET at == {i \in 1 .. Len(services) : Serves(services[i])}
  IN IF at = {} THEN 0 ELSE services[CHOOSE i \in at : \A j \in at : j <= i].componentId
-----------------------------------------------------------------------------
(* Service connection responses: two ids, the profile, the status (0 is    *)
(* accepted) and the sessions.                                             *)

Be16s(values) == [j \in 1 .. 2 * Len(values) |-> Be16(values[(j + 1) \div 2])[2 - (j % 2)]]
ScResponse(status, sessions) ==
  <<2, 0, 0, 0, 0, Di360, FieldSeparator, status>>
  \o Be16(Len(sessions)) \o Be16s(sessions)

\* Without a separator it is passed over; one that ends with it raises an
\* IndexError; sessions that are not there are left out.
ScStatus(msg) ==
  LET status == Find(msg, 5) + 1 IN
  IF ~Found(msg, 5) THEN "none"
  ELSE IF status = Len(msg) THEN "raises"
  ELSE IF msg[status + 1] = 0 THEN "granted" ELSE "refused"
ScSessions(msg) ==
  LET count == Find(msg, 5) + 2
      there == (Len(msg) - count - 2) \div 2
  IN IF count + 2 > Len(msg) THEN <<>>
     ELSE [i \in 1 .. (IF U16(msg, count) < there THEN U16(msg, count) ELSE there)
             |-> U16(msg, count + 2 * i)]
=============================================================================
