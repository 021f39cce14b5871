------------------------- MODULE MC_BroadcastRouter -------------------------
EXTENDS BroadcastRouter, TLC

CONSTANTS r1

MC_OneRouter == {r1}

\* what other parties post on the broadcast channel: a truncated message of
\* a known type (its body never arrives), a message of a wrong protocol
\* version and one of a message type no router handles.
MC_Foreign ==
  { [ch |-> "Broadcast", hdr |-> "ok", type |-> 1, content |-> "None", body |-> "truncated"],
    [ch |-> "Broadcast", hdr |-> "bad", type |-> 2, content |-> "None", body |-> "full"],
    [ch |-> "Broadcast", hdr |-> "ok", type |-> 3, content |-> "None", body |-> "full"] }

\* swap offers as SwapOffersBoard passes them: already framed with type 0
MC_Raw == { [hdr |-> "ok", type |-> 0, body |-> "full"] }

=============================================================================
