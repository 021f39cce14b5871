\* One router receiving its own framed and raw messages and three foreign
\* malformed ones; listeners may be registered and unregistered twice per
\* content type.
CONSTANTS
  r1 = r1
  NoListener = NoListener
  Routers <- MC_OneRouter
  MaxGen = 2
  ForeignMsgs <- MC_Foreign
  RawPayloads <- MC_Raw
SPECIFICATION Spec
INVARIANT NoMisroute
PROPERTY NoStaleDelivery
PROPERTY Delivery
