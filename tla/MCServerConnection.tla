------------------------- MODULE MCServerConnection -------------------------
(* Instance of ServerConnection for TLC: a control message and feeder       *)
(* messages with and without a layer; filters of both kinds.  A header      *)
(* counts to 3, and one batch holds 5 messages.                             *)
EXTENDS ServerConnection

Start == [type |-> "start", layer |-> NoLayer]
Gps   == [type |-> "gps", layer |-> "physical"]
Edge  == [type |-> "edge", layer |-> "hop"]

MCFilters == {[types |-> {"gps"}, layers |-> {"hop"}, opAND |-> FALSE],
              [types |-> {"edge"}, layers |-> {"hop"}, opAND |-> TRUE]}
MCRelays  == {Start}
MCBatches == {<<Gps, Edge>>, <<Edge, Gps, Edge, Gps, Edge>>}
=============================================================================
