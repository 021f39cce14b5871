--------------------------- MODULE BroadcastRouter ---------------------------
(***************************************************************************)
(* BroadcastRouter (src/wallet/client/extensions/broadcast_gateway/       *)
(* broadcast_router.cpp): each wallet's router subscribes to the incoming  *)
(* BBS channels, registers at most one listener per content type, sends    *)
(* framed messages on the channel of their content type, and passes every  *)
(* incoming BBS message through a MsgReader that is reset first.           *)
(*                                                                         *)
(* BbsSubscribe (line 88) asks the BBS for every message of a subscribed  *)
(* channel: it hands each one posted on the channel to the subscriber      *)
(* once, in any order; the router receives its own posts too.  Other      *)
(* parties post malformed messages.  A message is abstracted to its        *)
(* channel, header, protocol type, content type and whether its body is    *)
(* complete.                                                               *)
(***************************************************************************)
EXTENDS Naturals, FiniteSets

CONSTANTS
  Routers,      \* wallets, each with one BroadcastRouter
  MaxGen,       \* model bound: listeners registered per router and type
  ForeignMsgs,  \* messages other parties may post on the BBS
  RawPayloads,  \* [hdr, type, body] of the buffers callers of sendRawMessage pass
  NoListener    \* an empty listener slot

VARIABLES
  listeners,    \* listeners[r][ct]: m_listeners
  handlers,     \* handlers[r][mt]: the listener the protocol dispatches mt to
  enabled,      \* enabled[r]: message types the MsgReader accepts
  reader,       \* reader[r]: {} when idle, {mt} while it awaits a body of type mt
  gen,          \* gen[r][ct]: listeners registered so far
  inbox,        \* inbox[r]: messages the BBS has yet to hand to router r
  delivered     \* the <<listener, message>> onMessage calls of the last step

vars == <<listeners, handlers, enabled, reader, gen, inbox, delivered>>

ContentTypes == {"SwapOffers", "SoftwareUpdates", "ExchangeRates"}

\* m_incomingBbsChannels
IncomingChannels == {"BtcSwapOffers", "LtcSwapOffers", "QtumSwapOffers", "Broadcast"}

\* m_outgoingBbsChannelsMap, getBbsChannel
BbsChannelOf(ct) ==
  IF ct = "SwapOffers" THEN "BtcSwapOffers" ELSE "Broadcast"

\* m_messageTypeMap, getMsgType
MsgTypeOf(ct) ==
  CASE ct = "SwapOffers" -> 0 [] ct = "SoftwareUpdates" -> 1 [] ct = "ExchangeRates" -> 2

MsgTypes == 0..3
\* the BBS channels a message may be posted on
Channels == {"BtcSwapOffers", "LtcSwapOffers", "QtumSwapOffers", "Broadcast", "Other"}
Messages == [ch : Channels, hdr : {"ok", "bad"}, type : MsgTypes,
             content : ContentTypes \cup {"None"}, body : {"full", "truncated"}]
Listener(r, ct, g) == <<r, ct, g>>

ASSUME /\ ForeignMsgs \subseteq Messages /\ MaxGen \in Nat
       /\ RawPayloads \subseteq [hdr : {"ok", "bad"}, type : MsgTypes, body : {"full", "truncated"}]

\* the packet sendMessage builds for content type ct
Framed(ct) == [ch |-> BbsChannelOf(ct), hdr |-> "ok", type |-> MsgTypeOf(ct),
               content |-> ct, body |-> "full"]

-----------------------------------------------------------------------------

\* mutant: the reader is not told to accept the listener's message type
RegisterListenerNoEnable(r, ct) ==
  LET l == Listener(r, ct, gen[r][ct] + 1) IN
  /\ listeners[r][ct] = NoListener
  /\ gen[r][ct] < MaxGen
  /\ gen' = [gen EXCEPT ![r][ct] = @ + 1]
  /\ listeners' = [listeners EXCEPT ![r][ct] = l]
  /\ handlers' = [handlers EXCEPT ![r][MsgTypeOf(ct)] = l]
  /\ delivered' = {}
  /\ UNCHANGED <<enabled, reader, inbox>>

\* registerListener: one listener per type; the handler for its message type
\* is (re)installed and the type enabled in the reader.
RegisterListener(r, ct) ==
  LET l == Listener(r, ct, gen[r][ct] + 1) IN
  /\ listeners[r][ct] = NoListener
  /\ gen[r][ct] < MaxGen
  /\ gen' = [gen EXCEPT ![r][ct] = @ + 1]
  /\ listeners' = [listeners EXCEPT ![r][ct] = l]
  /\ handlers' = [handlers EXCEPT ![r][MsgTypeOf(ct)] = l]
  /\ enabled' = [enabled EXCEPT ![r] = @ \cup {MsgTypeOf(ct)}]
  /\ delivered' = {}
  /\ UNCHANGED <<reader, inbox>>

\* mutant: the message type stays enabled
UnregisterListenerKeepEnabled(r, ct) ==
  /\ listeners[r][ct] # NoListener
  /\ listeners' = [listeners EXCEPT ![r][ct] = NoListener]
  /\ delivered' = {}
  /\ UNCHANGED <<handlers, enabled, reader, gen, inbox>>

\* unregisterListener: the listener is erased and its type disabled; the
\* protocol keeps the handler.
UnregisterListener(r, ct) ==
  /\ listeners[r][ct] # NoListener
  /\ listeners' = [listeners EXCEPT ![r][ct] = NoListener]
  /\ enabled' = [enabled EXCEPT ![r] = @ \ {MsgTypeOf(ct)}]
  /\ delivered' = {}
  /\ UNCHANGED <<handlers, reader, gen, inbox>>

\* the BBS queues a message posted on a channel for every router subscribed
\* to it in its constructor (BbsSubscribe over m_incomingBbsChannels)
Post(m) ==
  inbox' = [r \in Routers |-> IF m.ch \in IncomingChannels THEN inbox[r] \cup {m}
                                                         ELSE inbox[r]]

\* sendMessage: MsgHeader with the content type's message type, on the
\* content type's channel.
SendMessage(r, ct) ==
  /\ Post(Framed(ct))
  /\ delivered' = {}
  /\ UNCHANGED <<listeners, handlers, enabled, reader, gen>>

\* sendRawMessage: the caller's buffer, unframed, on the content type's channel
SendRawMessage(r, ct, p) ==
  /\ Post([ch |-> BbsChannelOf(ct), hdr |-> p.hdr, type |-> p.type,
            content |-> "None", body |-> p.body])
  /\ delivered' = {}
  /\ UNCHANGED <<listeners, handlers, enabled, reader, gen>>

\* another party posts a message
PostForeign(m) ==
  /\ Post(m)
  /\ delivered' = {}
  /\ UNCHANGED <<listeners, handlers, enabled, reader, gen>>

\* on_protocol_error: whatever the error, it is logged and nothing else
\* happens: the message is dropped, the reader idle, the stream kept.
OnProtocolError == <<{}, {}>>

\* MsgReader::new_data_from_stream on the bytes of m, from reader state rs:
\* the set of <<deliveries, next reader state>> it may produce.
ReadMessage(r, m, rs) ==
  IF rs # {}
    \* the bytes complete the body the reader was waiting for
    THEN {<<{<<handlers[r][mt], m>>}, {}>> : mt \in rs}
  ELSE IF m.hdr = "bad" \/ m.type \notin enabled[r]
    THEN {OnProtocolError}
  ELSE IF m.body = "truncated"
    THEN {<<{}, {m.type}>>}
  ELSE {<<{<<handlers[r][m.type], m>>}, {}>>}

\* mutant: the reader is not reset before the message
OnMsgNoReset(r, m) ==
  /\ m \in inbox[r]
  /\ inbox' = [inbox EXCEPT ![r] = @ \ {m}]
  /\ \E res \in ReadMessage(r, m, reader[r]) :
       /\ delivered' = res[1]
       /\ reader' = [reader EXCEPT ![r] = res[2]]
  /\ UNCHANGED <<listeners, handlers, enabled, gen>>

\* OnMsg: the BBS hands a message of a subscribed channel to the router,
\* which resets the reader and feeds it the message.
OnMsg(r, m) ==
  /\ m \in inbox[r]
  /\ inbox' = [inbox EXCEPT ![r] = @ \ {m}]
  /\ \E res \in ReadMessage(r, m, {}) :
       /\ delivered' = res[1]
       /\ reader' = [reader EXCEPT ![r] = res[2]]
  /\ UNCHANGED <<listeners, handlers, enabled, gen>>

-----------------------------------------------------------------------------

Init ==
  /\ listeners = [r \in Routers |-> [ct \in ContentTypes |-> NoListener]]
  /\ handlers = [r \in Routers |-> [mt \in MsgTypes |-> NoListener]]
  /\ enabled = [r \in Routers |-> {}]                \* disable_all_msg_types
  /\ reader = [r \in Routers |-> {}]
  /\ gen = [r \in Routers |-> [ct \in ContentTypes |-> 0]]
  /\ inbox = [r \in Routers |-> {}]
  /\ delivered = {}

Next ==
  \/ \E r \in Routers, ct \in ContentTypes :
       RegisterListener(r, ct) \/ UnregisterListener(r, ct) \/ SendMessage(r, ct)
  \/ \E r \in Routers, ct \in ContentTypes, p \in RawPayloads : SendRawMessage(r, ct, p)
  \/ \E m \in ForeignMsgs : PostForeign(m)
  \/ \E r \in Routers : \E m \in inbox[r] : OnMsg(r, m)

\* every message some party can post
Postable ==
  {Framed(ct) : ct \in ContentTypes} \cup ForeignMsgs
    \cup {[ch |-> BbsChannelOf(ct), hdr |-> p.hdr, type |-> p.type, content |-> "None",
          body |-> p.body] : ct \in ContentTypes, p \in RawPayloads}

\* The BBS eventually hands every queued message to its subscriber, once.
Fairness == \A r \in Routers, m \in Postable : WF_vars(OnMsg(r, m))

Spec == Init /\ [][Next]_vars /\ Fairness

-----------------------------------------------------------------------------

\* OnMsg/MsgReader: every message a listener receives is a complete, well
\* framed message whose header type is the one registerListener bound that
\* listener to, and a message framed by sendMessage reaches only the listener
\* of its own content type.  Breaks if the reader carries a partial body from
\* one BBS message into the next, or if two content types share a MsgType.
NoMisroute ==
  \A d \in delivered :
    LET ct == d[1][2]  m == d[2] IN
    /\ m.hdr = "ok" /\ m.body = "full"
    /\ m.type = MsgTypeOf(ct)
    /\ m.content \in {ct, "None"}

\* unregisterListener: once a listener is unregistered (the object may be
\* destroyed), no later OnMsg calls it, although the protocol keeps its handler.
NoStaleDelivery ==
  [][\A d \in delivered' : listeners[d[1][1]][d[1][2]] = d[1]]_vars

\* BbsSubscribe/sendMessage/OnMsg: a message sent with content type ct that
\* the BBS has queued for a router while the router's listener for ct is
\* registered reaches that listener, unless it is unregistered first.  A
\* message handed over while no listener is registered is dropped for good.
Delivery ==
  \A r \in Routers, ct \in ContentTypes, g \in 1..MaxGen :
    LET l == Listener(r, ct, g) IN
    (Framed(ct) \in inbox[r] /\ listeners[r][ct] = l)
      ~> (<<l, Framed(ct)>> \in delivered \/ listeners[r][ct] # l)

=============================================================================
