--------------------------- MODULE MCSapHandshake ---------------------------
(* SapHandshake for TLC.                                                    *)
EXTENDS SapHandshake

Lists(id, profile) == [componentId |-> id, profileId |-> profile]

\* The service among others, in two records; and a camera without it.
Offer == <<[name |-> <<71>>, agents |-> <<Lists(5, <<80>>), Lists(CompId, <<47, Di360>>)>>],
           [name |-> <<>>, agents |-> <<Lists(7, <<90>>)>>]>>
Other == <<[name |-> <<71>>, agents |-> <<Lists(5, <<80>>)>>]>>

\* What the host answers, its own record, would be read back by its own
\* parser whatever the type of the query; a capex response read as an SC
\* response would grant a session.
ASSUME MCOwnResponse ==
  \A q \in 1 .. 4 : parse_capex_response(CapexResponse(q, Other)) = <<Lists(5, <<80>>)>>
ASSUME MCMisread == ScStatus(CapexResponse(2, Offer)) = "granted"

\* A camera that is prompt and accepts: it grants capex a session other than
\* the one asked for or leaves it as asked, and the service either names its
\* sessions or leaves them as asked (10, 11, 12).
Good == [capex |-> {<<>>, <<4>>}, svc |-> {<<>>, <<20, 21, 22>>},
         offers |-> {Offer}, cuts |-> {}, legacy |-> FALSE, refuses |-> FALSE,
         skips |-> TRUE, paced |-> TRUE, prompt |-> TRUE, drops |-> FALSE,
         auth |-> {TRUE}, good |-> TRUE]

\* One that is late, refuses, answers in the legacy form or names no
\* component, over a link that may drop, with an authenticator that may fail.
Rough == [capex |-> {<<4>>}, svc |-> {<<>>, <<20, 21, 22>>},
          offers |-> {Offer, Other}, cuts |-> {6, 7, 26, 30},
          legacy |-> TRUE, refuses |-> TRUE,
          skips |-> TRUE, paced |-> FALSE, prompt |-> FALSE, drops |-> TRUE,
          auth |-> BOOLEAN, good |-> FALSE]

MCWorlds == {Good, Rough}
=============================================================================
