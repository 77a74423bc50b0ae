-------------------------- MODULE TransportProofs --------------------------
(***************************************************************************)
(* Theorems about Transport, for every value of its constants.             *)
(***************************************************************************)
EXTENDS Transport, SequenceTheorems, TLAPS

---------------------------------------------------------------------------
(* The packet codec keeps its type.                                        *)

\* A sequence number that moved on modulo SeqMod is a sequence number.
LEMMA SeqNumMod == \A n \in Int : n % SeqMod \in SeqNum
  BY SeqModAssumption DEF SeqNum

\* Encoding a run of payloads gives frames.
LEMMA EncodeType ==
  ASSUME NEW c \in Codec, NEW ms \in Seq(Message)
  PROVE  Encode(c, ms) \in Seq(WireFrame)
<1> DEFINE f(i) == [t |-> ms[i].t, body |-> ms[i].body, key |-> c.outKey,
                    seq |-> (c.seqOut + i - 1) % SeqMod, z |-> c.zOut = "on"]
<1>1. c.seqOut \in Int /\ c.outKey \in Key
  BY SeqModAssumption DEF Codec, SeqNum
<1>2. ASSUME NEW i \in 1..Len(ms)  PROVE f(i) \in WireFrame
  <2>1. ms[i] \in Message
    OBVIOUS
  <2>3. (c.seqOut + i - 1) % SeqMod \in SeqNum
    BY <1>1, SeqNumMod
  <2> QED BY <1>1, <2>1, <2>3 DEF WireFrame, Message
<1>3. Encode(c, ms) = [i \in 1..Len(ms) |-> f(i)]
  BY DEF Encode
<1> HIDE DEF f
<1> QED BY <1>2, <1>3

\* Encoding only moves the outbound sequence number.
LEMMA EncodedType ==
  ASSUME NEW c \in Codec, NEW ms \in Seq(Message)
  PROVE  Encoded(c, ms) \in Codec
<1> DEFINE n == (c.seqOut + Len(ms)) % SeqMod
<1>1. n \in SeqNum
  <2>1. c.seqOut + Len(ms) \in Int
    BY SeqModAssumption DEF Codec, SeqNum
  <2> QED BY <2>1, SeqNumMod
<1>2. Encoded(c, ms) = [c EXCEPT !.seqOut = n]
  BY DEF Encoded
<1> HIDE DEF n
<1> QED BY <1>1, <1>2 DEF Codec

\* So does decoding with the inbound one.
LEMMA DecodedType ==
  ASSUME NEW c \in Codec
  PROVE  Decoded(c) \in Codec
BY SeqNumMod, SeqModAssumption DEF Codec, SeqNum, Decoded

\* A frame's payload is a message, deflated or not.
LEMMA PayloadType ==
  ASSUME NEW c \in Codec, NEW f \in WireFrame
  PROVE  Payload(c, f) \in Message
  BY DEF Payload, Garbage, NoKey, WireFrame, Message, Key, MsgTypes

\* Installing keys, with or without the sequence-number reset, keeps the type.
LEMMA InstallType ==
  ASSUME NEW c \in Codec, NEW k \in Runner
  PROVE  MaybeInstall(k, c) \in Codec
<1>1. ASSUME NEW z \in ZState  PROVE InstallCompress(z) \in ZState
  BY <1>1, CompressionAssumption DEF InstallCompress, ZState
<1>2. InstallKeys(c, k.h) \in Codec
  BY <1>1 DEF InstallKeys, Codec, Runner
<1>3. ASSUME NEW x \in Codec  PROVE ResetSequenceNumbers(x) \in Codec
  <2>1. 0 \in SeqNum
    BY SeqModAssumption DEF SeqNum
  <2> QED BY <2>1 DEF ResetSequenceNumbers, Codec
<1>4. ASSUME NEW x \in Codec  PROVE ResetRekeyEpoch(x) \in Codec
  BY DEF ResetRekeyEpoch, Codec
<1> QED BY <1>2, <1>3, <1>4 DEF MaybeInstall

\* Starting the compressors keeps the type.
LEMMA ActivateType ==
  ASSUME NEW c \in Codec
  PROVE  ActivateCompress(c) \in Codec
<1>1. ASSUME NEW z \in ZState  PROVE Activated(z) \in ZState
  BY DEF Activated, ZState
<1> QED BY <1>1 DEF ActivateCompress, Codec

---------------------------------------------------------------------------
(* The key-exchange runner returns a KexAdvance of the right type.         *)

AdvanceType == [k : Runner, c : Codec, out : Seq(Message), err : Errors]

\* A message without a body is a message.
LEMMA MsgType ==
  ASSUME NEW t \in MsgTypes
  PROVE  Msg(t) \in Message
  BY DEF Msg, NoKey, Message, Key

\* A KexAdvance without an error.
LEMMA AdvType ==
  ASSUME NEW k \in Runner, NEW c \in Codec, NEW out \in Seq(Message)
  PROVE  Advance(k, c, out) \in AdvanceType
  BY DEF Advance, AdvanceType, Errors

\* The first KEXINIT.
LEMMA StartKexType ==
  ASSUME NEW k \in Runner, NEW c \in Codec
  PROVE  StartKex(k, c) \in AdvanceType
<1> DEFINE x == [k EXCEPT !.phase = "SentKexInit", !.advert = 1, !.flags = {"outbound_ext_info"}]
<1>1. x \in Runner
  BY DEF Runner, KexPhases, Flags
<1>2. KexInit(1) \in Message
  BY DEF KexInit, Message, Key, MsgTypes
<1>3. <<KexInit(1)>> \in Seq(Message)
  BY <1>2
<1>4. StartKex(k, c) = Advance(x, c, <<KexInit(1)>>)
  BY DEF StartKex
<1> HIDE DEF x
<1> QED BY <1>1, <1>3, <1>4, AdvType

\* A re-key's KEXINIT.
LEMMA RestartType ==
  ASSUME NEW k \in Runner, NEW c \in Codec
  PROVE  Restart(k, c) \in AdvanceType
<1> DEFINE x == [k EXCEPT !.phase = "SentKexInit", !.advert = @ + 1, !.peerAdvert = 0,
                          !.h = NoKey, !.flags = @ \cap {"strict_kex"}]
<1>1. x \in Runner
  <2>1. NoKey \in Key
    BY DEF NoKey, Key
  <2>2. k.advert + 1 \in Nat
    BY DEF Runner
  <2>3. k.flags \cap {"strict_kex"} \in SUBSET Flags
    BY DEF Runner
  <2> QED BY <2>1, <2>2, <2>3 DEF Runner, KexPhases
<1>2. KexInit(k.advert + 1) \in Message
  BY DEF KexInit, Message, Key, MsgTypes, Runner
<1>3. \/ Restart(k, c) = Advance(x, c, <<KexInit(k.advert + 1)>>)
      \/ Restart(k, c) = Refuse(k, c, "restart from non-Completed")
  BY DEF Restart
<1> HIDE DEF x
<1>4. <<KexInit(k.advert + 1)>> \in Seq(Message)
  BY <1>2
<1>5. Advance(x, c, <<KexInit(k.advert + 1)>>) \in AdvanceType
  BY <1>1, <1>4, AdvType
<1>6. Refuse(k, c, "restart from non-Completed") \in AdvanceType
  BY DEF Refuse, AdvanceType, Errors
<1> QED BY <1>3, <1>5, <1>6

\* The end of an exchange.
LEMMA FinishType ==
  ASSUME NEW k \in Runner, NEW c \in Codec, NEW h \in Key, NEW out \in Seq(Message)
  PROVE  FinishExchange(k, c, h, out) \in AdvanceType
<1> DEFINE x == [k EXCEPT !.h = h, !.sid = IF @ = NoKey THEN h ELSE @,
                          !.flags = @ \cup {"sent_newkeys"},
                          !.phase = IF "peer_newkeys" \in k.flags THEN "Completed"
                                    ELSE "AwaitingPeerNewKeys"]
<1>1. x \in Runner
  BY DEF Runner, KexPhases, Flags
<1>2. FinishExchange(k, c, h, out) = Advance(x, MaybeInstall(x, c), out)
  BY DEF FinishExchange
<1> HIDE DEF x
<1> QED BY <1>1, <1>2, InstallType, AdvType

\* The server's answer and the client's check of it.
LEMMA ServerReplyType ==
  ASSUME NEW k \in Runner, NEW c \in Codec, NEW t \in MsgTypes
  PROVE  ServerReply(k, c, t) \in AdvanceType
<1> DEFINE h == <<k.peerAdvert, k.advert>>
<1>1. h \in Key
  BY DEF Runner, Key
<1>3. <<[t |-> t, body |-> h], Msg("NEWKEYS")>> \in Seq(Message)
  BY <1>1, MsgType DEF Message, MsgTypes
<1> QED BY <1>1, <1>3, FinishType DEF ServerReply

\* The client ends its half with a typed driver.
LEMMA ClientFinishType ==
  ASSUME NEW k \in Runner, NEW c \in Codec, NEW m \in Message
  PROVE  ClientFinish(k, c, m) \in AdvanceType
<1> DEFINE h == <<k.advert, k.peerAdvert>>
<1>1. h \in Key
  BY DEF Runner, Key
<1>2. Msg("NEWKEYS") \in Message
  BY MsgType DEF MsgTypes
<1>3. <<Msg("NEWKEYS")>> \in Seq(Message)
  BY <1>2
<1>4. FinishExchange(k, c, h, <<Msg("NEWKEYS")>>) \in AdvanceType
  BY <1>1, <1>3, FinishType
<1>5. Refuse(k, c, "signature") \in AdvanceType
  BY DEF Refuse, AdvanceType, Errors
<1> QED BY <1>4, <1>5 DEF ClientFinish

\* The peer's KEXINIT.
LEMMA PeerKexinitType ==
  ASSUME NEW r \in Role, NEW k \in Runner, NEW c \in Codec, NEW m \in Message
  PROVE  HandlePeerKexinit(r, k, c, m) \in AdvanceType
<1> DEFINE next(phase) == [k EXCEPT !.phase = phase, !.peerAdvert = m.body[1],
                                    !.flags = Negotiate(k, m)]
<1>2. m.body[1] \in Nat
  BY DEF Message, Key
<1>3. ASSUME NEW phase \in KexPhases  PROVE next(phase) \in Runner
  BY <1>2 DEF Runner, Negotiate, Flags
<1>4. next("Negotiated") \in Runner /\ next("GexClientAwaitGroup") \in Runner
  BY <1>3 DEF KexPhases
<1>6. /\ <<Msg("GEX_REQUEST")>> \in Seq(Message)
      /\ <<Msg("KEX_INIT")>> \in Seq(Message)
      /\ <<>> \in Seq(Message)
  BY MsgType DEF MsgTypes
<1>7. \/ HandlePeerKexinit(r, k, c, m) = Refuse(k, c, "KEXINIT was not the first packet")
      \/ HandlePeerKexinit(r, k, c, m) = Advance(next("Negotiated"), c, <<>>)
      \/ HandlePeerKexinit(r, k, c, m)
           = Advance(next("GexClientAwaitGroup"), c, <<Msg("GEX_REQUEST")>>)
      \/ HandlePeerKexinit(r, k, c, m) = Advance(next("Negotiated"), c, <<Msg("KEX_INIT")>>)
  BY DEF HandlePeerKexinit
<1> HIDE DEF next
<1>8. Refuse(k, c, "KEXINIT was not the first packet") \in AdvanceType
  BY DEF Refuse, AdvanceType, Errors
<1>9. /\ Advance(next("Negotiated"), c, <<>>) \in AdvanceType
      /\ Advance(next("GexClientAwaitGroup"), c, <<Msg("GEX_REQUEST")>>) \in AdvanceType
      /\ Advance(next("Negotiated"), c, <<Msg("KEX_INIT")>>) \in AdvanceType
  BY <1>4, <1>6, AdvType
<1> QED BY <1>7, <1>8, <1>9

\* The legs of a group exchange.
LEMMA GexLegType ==
  ASSUME NEW k \in Runner, NEW c \in Codec, NEW phase \in KexPhases, NEW t \in MsgTypes
  PROVE  GexLeg(k, c, phase, t) \in AdvanceType
<1>2. <<Msg(t)>> \in Seq(Message)
  BY MsgType
<1> QED BY <1>2, AdvType DEF GexLeg, Runner

\* The peer's NEWKEYS.
LEMMA PeerNewkeysType ==
  ASSUME NEW k \in Runner, NEW c \in Codec
  PROVE  HandlePeerNewkeys(k, c) \in AdvanceType
<1> DEFINE f == k.flags \cup {"peer_newkeys"}
           g == IF FirstKex(k) /\ "ext_info_enabled" \in f
                THEN f \cup {"accept_ext_info_now"} ELSE f
           x == [k EXCEPT !.phase = "Completed", !.flags = g]
           w == [x EXCEPT !.flags = @ \ {"outbound_ext_info"}]
<1>1. g \in SUBSET Flags
  BY DEF Runner, Flags
<1> HIDE DEF g
<1>2. x \in Runner
  BY <1>1 DEF Runner, KexPhases
<1>3. w \in Runner
  BY <1>2 DEF Runner
<1>4. \/ HandlePeerNewkeys(k, c) = Advance(w, MaybeInstall(x, c), <<Msg("EXT_INFO")>>)
      \/ HandlePeerNewkeys(k, c) = Advance(x, MaybeInstall(x, c), <<>>)
  BY DEF HandlePeerNewkeys, g
<1> HIDE DEF x, w
<1>6. <<Msg("EXT_INFO")>> \in Seq(Message) /\ <<>> \in Seq(Message)
  BY MsgType DEF MsgTypes
<1>7. /\ Advance(w, MaybeInstall(x, c), <<Msg("EXT_INFO")>>) \in AdvanceType
      /\ Advance(x, MaybeInstall(x, c), <<>>) \in AdvanceType
  BY <1>2, <1>3, InstallType, <1>6, AdvType
<1> QED BY <1>4, <1>7

\* The EXT_INFO window.
LEMMA WindowType ==
  ASSUME NEW r \in Role, NEW k \in Runner
  PROVE  CloseExtInfoWindow(k) \in Runner /\ ArmExtInfoPostAuth(r, k) \in Runner
BY DEF CloseExtInfoWindow, Runner, ArmExtInfoPostAuth, Flags

\* Any message in any phase.
LEMMA OnPacketType ==
  ASSUME NEW r \in Role, NEW k \in Runner, NEW c \in Codec, NEW m \in Message
  PROVE  OnPacket(r, k, c, m) \in AdvanceType
<1> DEFINE q == CloseExtInfoWindow(k)
<1>1. q \in Runner
  BY WindowType
<1>2. \/ OnPacket(r, k, c, m) = HandlePeerKexinit(r, q, c, m)
      \/ OnPacket(r, k, c, m) = ServerReply(q, c, "KEX_REPLY")
      \/ OnPacket(r, k, c, m) = ClientFinish(q, c, m)
      \/ OnPacket(r, k, c, m) = GexLeg(q, c, "GexServerAwaitInit", "GEX_GROUP")
      \/ OnPacket(r, k, c, m) = GexLeg(q, c, "GexClientAwaitReply", "GEX_INIT")
      \/ OnPacket(r, k, c, m) = ServerReply(q, c, "GEX_REPLY")
      \/ OnPacket(r, k, c, m) = HandlePeerNewkeys(q, c)
      \/ OnPacket(r, k, c, m) = Refuse(q, c, "unexpected message during KEX")
  BY DEF OnPacket
<1> HIDE DEF q
<1>3. ServerReply(q, c, "KEX_REPLY") \in AdvanceType
      /\ ServerReply(q, c, "GEX_REPLY") \in AdvanceType
  BY <1>1, ServerReplyType DEF MsgTypes
<1>4. GexLeg(q, c, "GexServerAwaitInit", "GEX_GROUP") \in AdvanceType
      /\ GexLeg(q, c, "GexClientAwaitReply", "GEX_INIT") \in AdvanceType
  BY <1>1, GexLegType DEF MsgTypes, KexPhases
<1>6. Refuse(q, c, "unexpected message during KEX") \in AdvanceType
  BY <1>1 DEF Refuse, AdvanceType, Errors
<1> QED BY <1>1, <1>2, <1>3, <1>4, <1>6, PeerKexinitType, ClientFinishType, PeerNewkeysType

---------------------------------------------------------------------------
(* So do the methods of a driver.                                          *)

\* The error path.
LEMMA FailType ==
  ASSUME NEW d \in DriverState, NEW why \in Errors
  PROVE  Fail(d, why) \in DriverState
  BY DEF Fail, DriverState

\* encode_and_queue
LEMMA EncodeAndQueueType ==
  ASSUME NEW d \in DriverState, NEW ms \in Seq(Message)
  PROVE  EncodeAndQueue(d, ms) \in DriverState
<1> DEFINE o == d.outbox \o Encode(d.codec, ms)
           c == Encoded(d.codec, ms)
<1>1. d.codec \in Codec /\ d.outbox \in Seq(WireFrame)
  BY DEF DriverState
<1>2. o \in Seq(WireFrame)
  BY <1>1, EncodeType
<1>3. c \in Codec
  BY <1>1, EncodedType
<1>4. EncodeAndQueue(d, ms) = [d EXCEPT !.outbox = o, !.codec = c]
  BY DEF EncodeAndQueue
<1> HIDE DEF o, c
<1> QED BY <1>2, <1>3, <1>4 DEF DriverState

\* What a KexAdvance does to a driver.
LEMMA ApplyType ==
  ASSUME NEW d \in DriverState, NEW adv \in AdvanceType
  PROVE  Apply(d, adv) \in DriverState
<1>1. adv.k \in Runner /\ adv.c \in Codec /\ adv.out \in Seq(Message) /\ adv.err \in Errors
  BY DEF AdvanceType
<1>2. [d EXCEPT !.runner = adv.k, !.codec = adv.c] \in DriverState
  BY <1>1 DEF DriverState
<1> QED BY <1>1, <1>2, EncodeAndQueueType, FailType DEF Apply

\* enqueue_payload
LEMMA EnqueuePayloadType ==
  ASSUME NEW d \in DriverState, NEW m \in Message
  PROVE  EnqueuePayload(d, m) \in DriverState
<1>1. EncodeAndQueue(d, <<m>>) \in DriverState
  BY EncodeAndQueueType
<1>2. Fail(d, "deferred egress buffer too large") \in DriverState
  BY FailType DEF Errors
<1>3. [d EXCEPT !.deferredOut = Append(@, m)] \in DriverState
  <2>1. Append(d.deferredOut, m) \in Seq(Message)
    BY DEF DriverState
  <2> QED BY <2>1 DEF DriverState
<1> QED BY <1>1, <1>2, <1>3 DEF EnqueuePayload

\* drain_deferred_out and drain_deferred
LEMMA DrainDeferredOutType ==
  ASSUME NEW d \in DriverState
  PROVE  DrainDeferredOut(d) \in DriverState
<1>1. <<>> \in Seq(Message) /\ d.deferredOut \in Seq(Message)
  BY DEF DriverState
<1>2. [d EXCEPT !.deferredOut = <<>>] \in DriverState
  BY <1>1 DEF DriverState
<1> QED BY <1>1, <1>2, EncodeAndQueueType DEF DrainDeferredOut

\* Replaying what was held back keeps the types.
LEMMA DrainDeferredType ==
  ASSUME NEW d \in DriverState
  PROVE  DrainDeferred(d) \in DriverState
<1> DEFINE e == d.events \o d.deferred
           k == CloseExtInfoWindow(d.runner)
<1>1. e \in Seq(Message) /\ <<>> \in Seq(Message)
  BY DEF DriverState
<1>2. k \in Runner
  BY WindowType DEF DriverState, Role
<1>3. DrainDeferred(d) = d
      \/ DrainDeferred(d) = [d EXCEPT !.events = e, !.deferred = <<>>, !.runner = k]
  BY DEF DrainDeferred
<1> HIDE DEF e, k
<1> QED BY <1>1, <1>2, <1>3 DEF DriverState

\* defer_inbound
LEMMA DeferInboundType ==
  ASSUME NEW d \in DriverState, NEW m \in Message
  PROVE  DeferInbound(d, m) \in DriverState
<1>1. Append(d.deferred, m) \in Seq(Message)
  BY DEF DriverState
<1>2. [d EXCEPT !.deferred = Append(@, m)] \in DriverState
  BY <1>1 DEF DriverState
<1> QED BY <1>2, FailType DEF DeferInbound, Errors

\* initiate_rekey
LEMMA InitiateRekeyType ==
  ASSUME NEW d \in DriverState
  PROVE  InitiateRekey(d) \in DriverState
BY RestartType, ApplyType DEF DriverState, InitiateRekey

\* The release at the end of an exchange.
LEMMA ExchangeDoneType ==
  ASSUME NEW d \in DriverState
  PROVE  ExchangeDone(d) \in DriverState
<1> DEFINE e == Append(d.events, Msg("HandshakeComplete"))
           c == IF d.phase # "Kex" THEN d ELSE [d EXCEPT !.phase = "PostKex", !.events = e]
<1>1. e \in Seq(Message)
  BY MsgType DEF MsgTypes, DriverState
<1>2. ExchangeDone(d) = DrainDeferred(DrainDeferredOut(c))
  BY DEF ExchangeDone
<1> HIDE DEF e
<1>3. c \in DriverState
  BY <1>1 DEF DriverState
<1> HIDE DEF c
<1> QED BY <1>2, <1>3, DrainDeferredOutType, DrainDeferredType

\* route_packet, for each kind of message.
LEMMA RouteKexType ==
  ASSUME NEW r \in Role, NEW d \in DriverState, NEW m \in Message
  PROVE  RouteKex(r, d, m) \in DriverState
<1> DEFINE s == IF m.t = "KEXINIT" /\ ~IsKexing(d.runner) THEN InitiateRekey(d) ELSE d
           x == IF s.err # "none" THEN s ELSE Apply(s, OnPacket(r, s.runner, s.codec, m))
<1>1. s \in DriverState
  BY InitiateRekeyType
<1>2. RouteKex(r, d, m) = x \/ RouteKex(r, d, m) = ExchangeDone(x)
  BY DEF RouteKex
<1> HIDE DEF s
<1>4. OnPacket(r, s.runner, s.codec, m) \in AdvanceType
  BY <1>1, OnPacketType DEF DriverState
<1>5. x \in DriverState
  BY <1>1, <1>4, ApplyType
<1> HIDE DEF x
<1> QED BY <1>2, <1>5, ExchangeDoneType

\* route_packet on EXT_INFO keeps the types.
LEMMA RouteExtInfoType ==
  ASSUME NEW r \in Role, NEW d \in DriverState
  PROVE  RouteExtInfo(r, d) \in DriverState
<1> DEFINE k == IF r = "client" /\ ~d.auth /\ d.phase # "Kex"
                THEN ArmExtInfoPostAuth(r, d.runner) ELSE d.runner
<1>1. k \in Runner
  BY WindowType DEF DriverState
<1>2. RouteExtInfo(r, d) = [d EXCEPT !.runner = CloseExtInfoWindow(k)]
      \/ RouteExtInfo(r, d) = Fail(d, "unexpected SSH_MSG_EXT_INFO")
  BY DEF RouteExtInfo
<1> HIDE DEF k
<1>4. [d EXCEPT !.runner = CloseExtInfoWindow(k)] \in DriverState
  BY <1>1, WindowType DEF DriverState
<1> QED BY <1>2, <1>4, FailType DEF Errors

\* route_packet on a payload for the application keeps the types.
LEMMA RouteOtherType ==
  ASSUME NEW d \in DriverState, NEW m \in Message
  PROVE  RouteOther(d, m) \in DriverState
<1> DEFINE e == Append(d.events, m)
           k == CloseExtInfoWindow(d.runner)
<1>1. e \in Seq(Message)
  BY DEF DriverState
<1>2. k \in Runner
  BY WindowType DEF DriverState, Role
<1>3. \/ RouteOther(d, m) = [d EXCEPT !.runner = k, !.events = e]
      \/ RouteOther(d, m) = DeferInbound(d, m)
      \/ RouteOther(d, m) = Fail(d, "non-KEX message before first NEWKEYS")
      \/ RouteOther(d, m) = Fail(d, "non-KEX message during key re-exchange")
  BY DEF RouteOther
<1> HIDE DEF e, k
<1>4. [d EXCEPT !.runner = k, !.events = e] \in DriverState
  BY <1>1, <1>2 DEF DriverState
<1>5. Fail(d, "non-KEX message before first NEWKEYS") \in DriverState
      /\ Fail(d, "non-KEX message during key re-exchange") \in DriverState
  BY FailType DEF Errors
<1> QED BY <1>3, <1>4, <1>5, DeferInboundType

\* route_packet on PING and PONG keeps the types.
LEMMA RoutePingType ==
  ASSUME NEW d \in DriverState, NEW m \in Message
  PROVE  RoutePing(d, m) \in DriverState
BY MsgType, FailType, EnqueuePayloadType DEF MsgTypes, Errors, RoutePing

\* route_packet keeps the types.
LEMMA RoutePacketType ==
  ASSUME NEW r \in Role, NEW d \in DriverState, NEW m \in Message
  PROVE  RoutePacket(r, d, m) \in DriverState
BY FailType, RoutePingType, RouteExtInfoType, RouteKexType, RouteOtherType DEF Errors, RoutePacket

\* handle_input
LEMMA HandleInputItemType ==
  ASSUME NEW r \in Role, NEW d \in DriverState, NEW f \in WireFrame
  PROVE  HandleInputItem(r, d, f) \in DriverState
<1>1. ScanPeerVersion(r, d) \in DriverState
  <2> DEFINE v == [d EXCEPT !.phase = "Kex"]
  <2>1. v \in DriverState
    BY DEF DriverState
  <2>2. ScanPeerVersion(r, d) = v
        \/ ScanPeerVersion(r, d) = Apply(v, StartKex(v.runner, v.codec))
    BY DEF ScanPeerVersion
  <2> HIDE DEF v
  <2> QED BY <2>1, <2>2, StartKexType, ApplyType DEF DriverState
<1>2. RoutePacket(r, [d EXCEPT !.codec = Decoded(@)], Payload(d.codec, f)) \in DriverState
  <2>1. d.codec \in Codec
    BY DEF DriverState
  <2>3. [d EXCEPT !.codec = Decoded(@)] \in DriverState
    BY <2>1, DecodedType DEF DriverState
  <2> QED BY <2>3, <2>1, PayloadType, RoutePacketType
<1> QED BY <1>1, <1>2, FailType DEF HandleInputItem, Errors

\* start
LEMMA StartDriverType ==
  ASSUME NEW r \in Role, NEW d \in DriverState
  PROVE  StartDriver(r, d) \in DriverState
<1> DEFINE o == Append(d.outbox, Version)
           v == [d EXCEPT !.outbox = o]
<1>1. o \in Seq(WireFrame)
  BY SeqModAssumption DEF NoKey, Key, SeqNum, Version, WireFrame, MsgTypes, DriverState
<1>2. StartDriver(r, d) = v \/ StartDriver(r, d) = Apply(v, StartKex(v.runner, v.codec))
  BY DEF StartDriver
<1> HIDE DEF o
<1>3. v \in DriverState
  BY <1>1 DEF DriverState
<1> HIDE DEF v
<1>4. StartKex(v.runner, v.codec) \in AdvanceType
  BY <1>3, StartKexType DEF DriverState
<1> QED BY <1>2, <1>3, <1>4, ApplyType

\* notify_auth_success
LEMMA NotifyAuthSuccessType ==
  ASSUME NEW r \in Role, NEW d \in DriverState
  PROVE  NotifyAuthSuccess(r, d) \in DriverState
<1> DEFINE c == ActivateCompress(d.codec)
           k == ArmExtInfoPostAuth(r, d.runner)
<1>1. c \in Codec
  BY ActivateType DEF DriverState
<1>2. k \in Runner
  BY WindowType DEF DriverState
<1>3. NotifyAuthSuccess(r, d) = [d EXCEPT !.codec = c, !.auth = TRUE, !.runner = k]
  BY DEF NotifyAuthSuccess
<1> HIDE DEF c, k
<1> QED BY <1>1, <1>2, <1>3 DEF DriverState

---------------------------------------------------------------------------
(* Type correctness of the connection.                                     *)

\* What a frontend leaves behind when it acts on its driver.
LEMMA ActType ==
  ASSUME TypeOK, NEW r \in Role, NEW d \in DriverState, Act(r, d)
  PROVE  drv' \in [Role -> DriverState] /\ batch' \in [Role -> BOOLEAN]
  BY DEF Act, TypeOK

\* What it leaves behind when it submits a payload.
LEMMA SubmitType ==
  ASSUME TypeOK, NEW r \in Role, NEW d \in DriverState, NEW m \in Message, Submit(r, d, m)
  PROVE  /\ drv' \in [Role -> DriverState]
         /\ batch' \in [Role -> BOOLEAN]
         /\ sent' \in [Role -> Seq(Message)]
BY EnqueuePayloadType, ActType DEF Submit, TypeOK

\* poll_event takes an event off a driver.
LEMMA PoppedType ==
  ASSUME TypeOK, NEW r \in Role, drv[r].events # <<>>
  PROVE  Popped(r) \in DriverState
<1>1. drv[r] \in DriverState
  BY DEF TypeOK
<1>2. Tail(drv[r].events) \in Seq(Message)
  BY <1>1 DEF DriverState
<1> QED BY <1>1, <1>2 DEF Popped, DriverState

\* A decoded packet.
LEMMA HandleInputTypeOK ==
  ASSUME TypeOK, NEW r \in Role, HandleInput(r)
  PROVE  TypeOK'
<1> DEFINE p == Peer(r)
           y == HandleInputItem(r, drv[r], Head(drv[p].outbox))
           z == Delivered(drv[p])
<1>1. p \in Role /\ p # r
  BY DEF Peer, Role
<1> HIDE DEF p
<1>2. drv[r] \in DriverState /\ drv[p] \in DriverState
  BY <1>1 DEF TypeOK
<1>4. Head(drv[p].outbox) \in WireFrame /\ Tail(drv[p].outbox) \in Seq(WireFrame)
  BY <1>2 DEF HandleInput, DriverState, p
<1>5. y \in DriverState
  BY <1>2, <1>4, HandleInputItemType
<1>6. z \in DriverState
  BY <1>2, <1>4 DEF Delivered, DriverState
<1>7. NewEvents(drv[r], y) \in Seq(Message)
  <2>1. drv[r].events \in Seq(Message) /\ y.events \in Seq(Message)
    BY <1>2, <1>5 DEF DriverState
  <2> HIDE DEF y
  <2> QED BY <2>1 DEF NewEvents
<1>8. /\ drv' = [drv EXCEPT ![r] = y, ![p] = z]
      /\ batch' = [batch EXCEPT ![r] = y.events # <<>>]
      /\ got' = [got EXCEPT ![r] = @ \o NewEvents(drv[r], y)]
      /\ UNCHANGED <<fe, pings, sent>>
  BY DEF HandleInput, p
<1> HIDE DEF y, z
<1>10. batch' \in [Role -> BOOLEAN]
  BY <1>8 DEF TypeOK
<1>11. got' \in [Role -> Seq(Message)]
  BY <1>7, <1>8 DEF TypeOK
<1> QED BY <1>8, <1>1, <1>5, <1>6, <1>10, <1>11 DEF TypeOK

\* The initial state has the type.
LEMMA InitTypeOK == Init => TypeOK
<1> SUFFICES ASSUME Init PROVE TypeOK
  OBVIOUS
<1>1. NoKey \in Key /\ 0 \in SeqNum
  BY SeqModAssumption DEF NoKey, Key, SeqNum
<1>2. NewCodec \in Codec
  BY <1>1 DEF NewCodec, Codec, ZState
<1>3. NewRunner \in Runner
  BY <1>1 DEF NewRunner, Runner, KexPhases
<1>4. <<>> \in Seq(Message) /\ <<>> \in Seq(WireFrame)
  OBVIOUS
<1> QED BY <1>4, <1>2, <1>3 DEF Init, TypeOK, NewDriver, DriverState, Errors

\* Every step keeps the type.
LEMMA NextTypeOK == TypeOK /\ [Next]_vars => TypeOK'
<1> SUFFICES ASSUME TypeOK, [Next]_vars PROVE TypeOK'
  OBVIOUS
<1> DEFINE FE == {"new", "handshake", "auth", "open", "closed"}
<1>0. ASSUME NEW r \in Role  PROVE drv[r] \in DriverState
  BY DEF TypeOK
<1>1. ASSUME NEW r \in Role, Start(r)  PROVE TypeOK'
  BY <1>0, StartDriverType, <1>1 DEF Start, TypeOK
<1>2. ASSUME NEW r \in Role, HandleInput(r)  PROVE TypeOK'
  BY <1>2, HandleInputTypeOK
<1>3. ASSUME NEW r \in Role, PollHandshakeComplete(r)  PROVE TypeOK'
  <2>1. Popped(r) \in DriverState
    BY <1>3, PoppedType DEF PollHandshakeComplete, Polls
  <2>2. fe' \in [Role -> FE] /\ pings' \in Nat /\ got' \in [Role -> Seq(Message)]
    BY <1>3 DEF PollHandshakeComplete, TypeOK
  <2>3. CASE Submit(r, Popped(r), Msg("SERVICE_REQUEST"))
    BY MsgType, <2>1, <2>2, <2>3, SubmitType DEF MsgTypes, TypeOK
  <2>4. CASE Act(r, Popped(r)) /\ UNCHANGED sent
    BY <2>1, <2>2, <2>4, ActType DEF TypeOK
  <2> QED BY <1>3, <2>3, <2>4 DEF PollHandshakeComplete
<1>4. ASSUME NEW r \in Role, PollAuth(r)  PROVE TypeOK'
  BY <1>4, PoppedType, MsgType, SubmitType DEF PollAuth, Polls, TypeOK, MsgTypes
<1>5. ASSUME NEW r \in Role, PollApp(r)  PROVE TypeOK'
  BY <1>5, PoppedType, FailType, ActType DEF PollApp, Errors, TypeOK
<1>6. ASSUME NEW r \in Role, SendApp(r)  PROVE TypeOK'
  <2> DEFINE m == [t |-> "APP", body |-> <<Len(sent[r]), Len(sent[r])>>]
  <2>1. Len(sent[r]) \in Nat
    BY DEF TypeOK
  <2>2. m \in Message
    BY <2>1 DEF Message, Key, MsgTypes
  <2>3. Submit(r, drv[r], m)
    BY <1>6 DEF SendApp
  <2> HIDE DEF m
  <2> QED BY <1>0, <1>6, <2>2, <2>3, SubmitType DEF SendApp, TypeOK
<1>7. ASSUME NEW r \in Role, Tick(r)  PROVE TypeOK'
  BY <1>0, InitiateRekeyType, <1>7, ActType DEF Tick, TypeOK
<1>8. ASSUME ServerAuthenticates  PROVE TypeOK'
  <2> DEFINE m == Msg("USERAUTH_SUCCESS")
             d == NotifyAuthSuccess("server", EnqueuePayload(Popped("server"), m))
  <2>0. "server" \in Role
    BY DEF Role
  <2>2. m \in Message
    BY MsgType DEF MsgTypes
  <2>3. d \in DriverState
    BY <2>0, <1>8, PoppedType, <2>2, EnqueuePayloadType,
       NotifyAuthSuccessType DEF ServerAuthenticates, Polls
  <2>4. Act("server", d) /\ sent' = [sent EXCEPT !["server"] = Append(@, m)]
    BY <1>8 DEF ServerAuthenticates
  <2> HIDE DEF m, d
  <2>6. sent' \in [Role -> Seq(Message)]
    BY <2>4, <2>0, <2>2 DEF TypeOK
  <2> QED BY <1>8, <2>0, <2>3, <2>4, <2>6, ActType DEF ServerAuthenticates, TypeOK
<1>9. ASSUME ClientAuthenticated  PROVE TypeOK'
  BY <1>9, PoppedType, NotifyAuthSuccessType, ActType DEF Role, ClientAuthenticated, Polls, TypeOK
<1>10. ASSUME SendPing  PROVE TypeOK'
  BY MsgType, <1>0, EnqueuePayloadType, <1>10, ActType DEF Role, MsgTypes, SendPing, TypeOK
<1>11. ASSUME RequestRekey  PROVE TypeOK'
  BY <1>0, InitiateRekeyType, <1>11, ActType DEF Role, RequestRekey, TypeOK
<1>12. ASSUME Disconnect  PROVE TypeOK'
  BY MsgType, <1>0, EnqueuePayloadType, <1>12, ActType DEF Role, MsgTypes, Disconnect, TypeOK
<1>13. CASE UNCHANGED vars
  BY <1>13 DEF vars, TypeOK
<1> QED BY <1>1, <1>2, <1>3, <1>4, <1>5, <1>6, <1>7, <1>8, <1>9, <1>10, <1>11, <1>12, <1>13
  DEF Next, Poll

\* The connection is type correct, whatever the bounds, the negotiated
\* algorithms and the re-key policy.
THEOREM TypeCorrect == Spec => []TypeOK
<1>1. Init => TypeOK
  BY InitTypeOK
<1>2. TypeOK /\ [Next]_vars => TypeOK'
  BY NextTypeOK
<1> QED BY <1>1, <1>2, PTL DEF Spec

---------------------------------------------------------------------------
(***************************************************************************)
(* The proof that nothing but the key exchange is on the wire between a    *)
(* KEXINIT and its NEWKEYS, and that nothing is forgotten in the two       *)
(* deferral queues (QuietDuringKex), for every value of the constants.     *)
(*                                                                         *)
(* The inductive invariant adds to the property what a driver that is      *)
(* about to send freely must know: when the runner has sent its NEWKEYS    *)
(* (or has never sent a KEXINIT), every KEXINIT still on the wire is       *)
(* closed by a NEWKEYS; and the payloads waiting to be sent are not KEXINITs. *)
(***************************************************************************)

\* Every KEXINIT of o is followed by a NEWKEYS.
ClosedStream(o) ==
    \A i \in DOMAIN o : o[i].t = "KEXINIT" => \E n \in i..Len(o) : o[n].t = "NEWKEYS"

\* The phases in which our side of the exchange is over.
SentAll == {"Idle", "Completed", "AwaitingPeerNewKeys"}

\* A run of messages without a KEXINIT, and one an exchange allows.
NoKexinit(ms) == \A i \in DOMAIN ms : ms[i].t # "KEXINIT"

AllMaySend(ms) == \A i \in DOMAIN ms : MaySendDuringKex(ms[i].t)

\* The wire and the waiting payloads of a driver.
QuietWire(d) == /\ QuietStream(d.outbox)
                /\ d.runner.phase \in SentAll => ClosedStream(d.outbox)
                /\ NoKexinit(d.deferredOut)

\* ... between two calls of its methods.
QuietDriver(d) == /\ QuietWire(d)
                  /\ d.deferredOut # <<>> \/ d.deferred # <<>> => IsKexing(d.runner)

\* A frontend that has not started has a driver that has not.
Unstarted == \A r \in Role : fe[r] = "new" => drv[r] = NewDriver

QuietInv == TypeOK /\ Unstarted /\ \A r \in Role : QuietDriver(drv[r])

---------------------------------------------------------------------------
(* Streams of frames.                                                      *)

\* A quiet stream stays quiet when one of its kind is appended, if either it
\* is closed or the new frames are all allowed during an exchange.
LEMMA QuietConcat ==
  ASSUME NEW o \in Seq(WireFrame), NEW e \in Seq(WireFrame),
         QuietStream(o), QuietStream(e), ClosedStream(o) \/ AllMaySend(e)
  PROVE  QuietStream(o \o e)
<1> DEFINE s == o \o e
<1>1. /\ s \in Seq(WireFrame)
      /\ Len(s) = Len(o) + Len(e)
      /\ \A i \in 1..Len(o) : s[i] = o[i]
      /\ \A i \in 1..Len(e) : s[Len(o) + i] = e[i]
  OBVIOUS
<1> HIDE DEF s
<1> SUFFICES ASSUME NEW i \in DOMAIN s, NEW j \in DOMAIN s,
                    i < j, s[i].t = "KEXINIT", ~MaySendDuringKex(s[j].t)
             PROVE  \E n \in i..j : s[n].t = "NEWKEYS"
  BY DEF QuietStream, s
<1>2. i \in 1..Len(s) /\ j \in 1..Len(s)
  BY <1>1
<1>3. CASE j <= Len(o)
  <2>2. PICK n \in i..j : o[n].t = "NEWKEYS"
    BY <1>1, <1>2, <1>3 DEF QuietStream
  <2>3. n \in i..j /\ s[n] = o[n]
    BY <1>1, <1>2, <1>3
  <2> QED BY <2>2, <2>3
<1>4. CASE i > Len(o)
  <2> DEFINE a == i - Len(o)
             b == j - Len(o)
  <2>1. /\ a \in 1..Len(e) /\ b \in 1..Len(e) /\ a < b
        /\ s[Len(o) + a] = e[a] /\ s[Len(o) + b] = e[b]
        /\ Len(o) + a = i /\ Len(o) + b = j
    BY <1>1, <1>2, <1>4, SMTT(30)
  <2> HIDE DEF a, b
  <2>3. PICK n \in a..b : e[n].t = "NEWKEYS"
    BY <2>1 DEF QuietStream
  <2>4. n \in 1..Len(e) /\ Len(o) + n \in i..j
    BY <2>1
  <2> QED BY <2>3, <2>4, <1>1
<1>5. CASE i <= Len(o) /\ j > Len(o)
  <2> DEFINE b == j - Len(o)
  <2>1. b \in 1..Len(e) /\ s[Len(o) + b] = e[b] /\ Len(o) + b = j
    BY <1>1, <1>2, <1>5
  <2> HIDE DEF b
  <2>2. ~AllMaySend(e)
    BY <2>1 DEF AllMaySend
  <2>4. PICK n \in i..Len(o) : o[n].t = "NEWKEYS"
    BY <2>2, <1>1, <1>2, <1>5 DEF ClosedStream
  <2> QED BY <2>4, <1>1, <1>2, <1>5
<1> QED BY <1>3, <1>4, <1>5, <1>2

\* Closed streams concatenate ...
LEMMA ClosedConcat ==
  ASSUME NEW o \in Seq(WireFrame), NEW e \in Seq(WireFrame),
         ClosedStream(o), ClosedStream(e)
  PROVE  ClosedStream(o \o e)
<1> DEFINE s == o \o e
<1>1. /\ s \in Seq(WireFrame)
      /\ Len(s) = Len(o) + Len(e)
      /\ \A i \in 1..Len(o) : s[i] = o[i]
      /\ \A i \in 1..Len(e) : s[Len(o) + i] = e[i]
  OBVIOUS
<1> HIDE DEF s
<1> SUFFICES ASSUME NEW i \in DOMAIN s, s[i].t = "KEXINIT"
             PROVE  \E n \in i..Len(s) : s[n].t = "NEWKEYS"
  BY DEF ClosedStream, s
<1>2. i \in 1..Len(s)
  BY <1>1
<1>3. CASE i <= Len(o)
  <2>2. PICK n \in i..Len(o) : o[n].t = "NEWKEYS"
    BY <1>1, <1>2, <1>3 DEF ClosedStream
  <2> QED BY <2>2, <1>1, <1>2, <1>3
<1>4. CASE i > Len(o)
  <2> DEFINE a == i - Len(o)
  <2>1. a \in 1..Len(e) /\ s[Len(o) + a] = e[a] /\ Len(o) + a = i
    BY <1>1, <1>2, <1>4
  <2> HIDE DEF a
  <2>2. PICK n \in a..Len(e) : e[n].t = "NEWKEYS"
    BY <2>1 DEF ClosedStream
  <2>3. Len(o) + n \in i..Len(s) /\ s[Len(o) + n] = e[n]
    BY <1>1, <2>1
  <2> QED BY <2>2, <2>3
<1>5. i <= Len(o) \/ i > Len(o)
  BY <1>2
<1> QED BY <1>3, <1>4, <1>5

\* ... and a NEWKEYS at the end closes any stream.
LEMMA NewkeysCloses ==
  ASSUME NEW o \in Seq(WireFrame), NEW e \in Seq(WireFrame),
         e # <<>>, e[Len(e)].t = "NEWKEYS"
  PROVE  ClosedStream(o \o e)
<1> DEFINE s == o \o e
<1>1. s \in Seq(WireFrame) /\ Len(s) = Len(o) + Len(e) /\ Len(s) >= 1 /\ s[Len(s)] = e[Len(e)]
  OBVIOUS
<1> HIDE DEF s
<1>2. ASSUME NEW i \in DOMAIN s  PROVE Len(s) \in i..Len(s) /\ s[Len(s)].t = "NEWKEYS"
  BY <1>1
<1> QED BY <1>2 DEF ClosedStream, s

\* A stream without a KEXINIT is quiet and closed.
LEMMA NoKexinitStream ==
  ASSUME NEW e \in Seq(WireFrame), NoKexinit(e)
  PROVE  QuietStream(e) /\ ClosedStream(e)
  BY DEF NoKexinit, QuietStream, ClosedStream

\* Delivery of the first frame keeps a stream quiet and closed.
LEMMA TailQuiet ==
  ASSUME NEW o \in Seq(WireFrame), o # <<>>
  PROVE  /\ QuietStream(o) => QuietStream(Tail(o))
         /\ ClosedStream(o) => ClosedStream(Tail(o))
<1> DEFINE s == Tail(o)
<1>1. /\ s \in Seq(WireFrame) /\ Len(s) = Len(o) - 1
      /\ \A i \in 1..Len(s) : s[i] = o[i + 1]
  OBVIOUS
<1> HIDE DEF s
<1>2. ASSUME QuietStream(o)  PROVE QuietStream(s)
  <2> SUFFICES ASSUME NEW i \in DOMAIN s, NEW j \in DOMAIN s,
                      i < j, s[i].t = "KEXINIT", ~MaySendDuringKex(s[j].t)
               PROVE  \E n \in i..j : s[n].t = "NEWKEYS"
    BY DEF QuietStream
  <2>1. /\ i \in 1..Len(s) /\ j \in 1..Len(s)
        /\ i + 1 \in DOMAIN o /\ j + 1 \in DOMAIN o /\ i + 1 < j + 1
        /\ s[i] = o[i + 1] /\ s[j] = o[j + 1]
    BY <1>1
  <2>2. PICK n \in (i + 1)..(j + 1) : o[n].t = "NEWKEYS"
    BY <1>2, <2>1 DEF QuietStream
  <2>3. n - 1 \in i..j /\ s[n - 1] = o[n]
    BY <1>1, <2>1, SMTT(30)
  <2> QED BY <2>2, <2>3
<1>3. ASSUME ClosedStream(o)  PROVE ClosedStream(s)
  <2> SUFFICES ASSUME NEW i \in DOMAIN s, s[i].t = "KEXINIT"
               PROVE  \E n \in i..Len(s) : s[n].t = "NEWKEYS"
    BY DEF ClosedStream
  <2>1. i \in 1..Len(s) /\ i + 1 \in DOMAIN o /\ s[i] = o[i + 1]
    BY <1>1
  <2>2. PICK n \in (i + 1)..Len(o) : o[n].t = "NEWKEYS"
    BY <1>3, <2>1 DEF ClosedStream
  <2>3. n - 1 \in i..Len(s) /\ s[n - 1] = o[n]
    BY <1>1, <2>1
  <2> QED BY <2>2, <2>3
<1> QED BY <1>2, <1>3 DEF s

---------------------------------------------------------------------------
(* Encoding.                                                               *)

\* Encoding keeps the types of the messages.
LEMMA EncodeKinds ==
  ASSUME NEW c \in Codec, NEW ms \in Seq(Message)
  PROVE  /\ Encode(c, ms) \in Seq(WireFrame)
         /\ Len(Encode(c, ms)) = Len(ms)
         /\ \A i \in 1..Len(ms) : Encode(c, ms)[i].t = ms[i].t
BY EncodeType DEF Encode

\* What encode_and_queue leaves: the outbox it had and the encoded run.
LEMMA QueueFields ==
  ASSUME NEW d \in DriverState, NEW ms \in Seq(Message)
  PROVE  LET x == EncodeAndQueue(d, ms)
         IN  /\ x.outbox = d.outbox \o Encode(d.codec, ms)
             /\ x.runner = d.runner
             /\ x.deferred = d.deferred
             /\ x.deferredOut = d.deferredOut
             /\ x.phase = d.phase
             /\ x.err = d.err
  BY DEF EncodeAndQueue, DriverState

\* A run with no KEXINIT may be queued when the exchange allows all of it, or
\* when our side of the exchange is over.
LEMMA QueueQuiet ==
  ASSUME NEW d \in DriverState, NEW ms \in Seq(Message),
         QuietWire(d), NoKexinit(ms), AllMaySend(ms) \/ d.runner.phase \in SentAll
  PROVE  QuietWire(EncodeAndQueue(d, ms))
<1> DEFINE e == Encode(d.codec, ms)
           x == EncodeAndQueue(d, ms)
<1>1. d.codec \in Codec /\ d.outbox \in Seq(WireFrame)
  BY DEF DriverState
<1>2. /\ e \in Seq(WireFrame) /\ Len(e) = Len(ms)
      /\ \A i \in 1..Len(ms) : e[i].t = ms[i].t
  BY <1>1, EncodeKinds
<1>3. /\ x.outbox = d.outbox \o e /\ x.runner = d.runner /\ x.deferredOut = d.deferredOut
  BY QueueFields
<1> HIDE DEF e, x
<1>4. NoKexinit(e) /\ (AllMaySend(ms) => AllMaySend(e))
  BY <1>2 DEF NoKexinit, AllMaySend
<1>5. QuietStream(e) /\ ClosedStream(e)
  BY <1>2, <1>4, NoKexinitStream
<1>6. QuietStream(d.outbox) /\ (d.runner.phase \in SentAll => ClosedStream(d.outbox))
  BY DEF QuietWire
<1>7. QuietStream(x.outbox)
  BY <1>1, <1>2, <1>3, <1>4, <1>5, <1>6, QuietConcat
<1>8. x.runner.phase \in SentAll => ClosedStream(x.outbox)
  BY <1>1, <1>2, <1>3, <1>5, <1>6, ClosedConcat
<1> QED BY <1>3, <1>7, <1>8 DEF QuietWire, x

---------------------------------------------------------------------------
(* The runner's output.                                                    *)

\* Ends in a NEWKEYS.
EndsInNewkeys(ms) == ms # <<>> /\ ms[Len(ms)].t = "NEWKEYS"

\* What on_packet may return to a runner in phase ph: no KEXINIT, nothing the
\* exchange does not allow, and our side of the exchange ends with a NEWKEYS.
ReplyShape(ph, adv) ==
    adv.err = "none" => /\ NoKexinit(adv.out) /\ AllMaySend(adv.out)
                        /\ adv.k.phase \in SentAll => ph \in SentAll \/ EndsInNewkeys(adv.out)

\* A single message that is not a KEXINIT, in a phase where we are not done.
LEMMA OneMessageShape ==
  ASSUME NEW ph, NEW k \in Runner, NEW c \in Codec, NEW t \in KexMsg \ {"KEXINIT"},
         k.phase \notin SentAll
  PROVE  ReplyShape(ph, Advance(k, c, <<Msg(t)>>))
  BY DEF ReplyShape, Advance, Msg, NoKexinit, AllMaySend, MaySendDuringKex

\* An error says nothing.
LEMMA RefuseShape ==
  ASSUME NEW ph, NEW k, NEW c, NEW why \in Errors \ {"none"}
  PROVE  ReplyShape(ph, Refuse(k, c, why))
  BY DEF ReplyShape, Refuse

\* The end of an exchange.
LEMMA FinishShape ==
  ASSUME NEW ph, NEW k \in Runner, NEW c \in Codec, NEW h \in Key, NEW out \in Seq(Message),
         NoKexinit(out), AllMaySend(out), EndsInNewkeys(out)
  PROVE  ReplyShape(ph, FinishExchange(k, c, h, out))
  BY DEF ReplyShape, FinishExchange, Advance

\* What the server answers to a KEX_INIT or GEX_INIT.
LEMMA ServerReplyShape ==
  ASSUME NEW ph, NEW k \in Runner, NEW c \in Codec, NEW t \in {"KEX_REPLY", "GEX_REPLY"}
  PROVE  ReplyShape(ph, ServerReply(k, c, t))
<1> DEFINE h == <<k.peerAdvert, k.advert>>
           out == <<[t |-> t, body |-> h], Msg("NEWKEYS")>>
<1>1. h \in Key
  BY DEF Runner, Key
<1> HIDE DEF h
<1>3. out \in Seq(Message)
  BY <1>1, MsgType DEF Message, MsgTypes
<1>4. /\ Len(out) = 2 /\ DOMAIN out = {1, 2}
      /\ out[1].t = t /\ out[2].t = "NEWKEYS"
  BY DEF Msg
<1>5. ServerReply(k, c, t) = FinishExchange(k, c, h, out)
  BY DEF ServerReply, h
<1> HIDE DEF out
<1>6. NoKexinit(out) /\ AllMaySend(out) /\ EndsInNewkeys(out)
  BY <1>3, <1>4, SMTT(30) DEF NoKexinit, AllMaySend, EndsInNewkeys, MaySendDuringKex, KexMsg
<1> QED BY <1>1, <1>3, <1>5, <1>6, FinishShape

\* What the client answers to the reply.
LEMMA ClientFinishShape ==
  ASSUME NEW ph, NEW k \in Runner, NEW c \in Codec, NEW m \in Message
  PROVE  ReplyShape(ph, ClientFinish(k, c, m))
<1> DEFINE h == <<k.advert, k.peerAdvert>>
           out == <<Msg("NEWKEYS")>>
<1>1. h \in Key
  BY DEF Runner, Key
<1>2. out \in Seq(Message)
  BY MsgType DEF MsgTypes
<1>3. Len(out) = 1 /\ DOMAIN out = {1} /\ out[1].t = "NEWKEYS"
  BY DEF Msg
<1>4. ClientFinish(k, c, m) = FinishExchange(k, c, h, out)
      \/ ClientFinish(k, c, m) = Refuse(k, c, "signature")
  BY DEF ClientFinish
<1> HIDE DEF h, out
<1>5. NoKexinit(out) /\ AllMaySend(out) /\ EndsInNewkeys(out)
  BY <1>2, <1>3 DEF NoKexinit, AllMaySend, EndsInNewkeys, MaySendDuringKex, KexMsg
<1>7. ReplyShape(ph, Refuse(k, c, "signature"))
  BY RefuseShape DEF Errors
<1> QED BY <1>4, <1>1, <1>2, <1>5, FinishShape, <1>7

\* The other messages of an exchange do not end our side of it.
LEMMA PeerKexinitShape ==
  ASSUME NEW ph, NEW r \in Role, NEW k \in Runner, NEW c \in Codec, NEW m \in Message
  PROVE  ReplyShape(ph, HandlePeerKexinit(r, k, c, m))
<1> DEFINE next(phase) == [k EXCEPT !.phase = phase, !.peerAdvert = m.body[1],
                                    !.flags = Negotiate(k, m)]
<1>2. m.body[1] \in Nat
  BY DEF Message, Key
<1>3. ASSUME NEW phase \in KexPhases  PROVE next(phase) \in Runner /\ next(phase).phase = phase
  BY <1>2 DEF Runner, Negotiate, Flags
<1>4. /\ next("Negotiated") \in Runner /\ next("Negotiated").phase = "Negotiated"
      /\ next("GexClientAwaitGroup") \in Runner
      /\ next("GexClientAwaitGroup").phase = "GexClientAwaitGroup"
  BY <1>3 DEF KexPhases
<1>5. \/ HandlePeerKexinit(r, k, c, m) = Refuse(k, c, "KEXINIT was not the first packet")
      \/ HandlePeerKexinit(r, k, c, m) = Advance(next("Negotiated"), c, <<>>)
      \/ HandlePeerKexinit(r, k, c, m)
           = Advance(next("GexClientAwaitGroup"), c, <<Msg("GEX_REQUEST")>>)
      \/ HandlePeerKexinit(r, k, c, m) = Advance(next("Negotiated"), c, <<Msg("KEX_INIT")>>)
  BY DEF HandlePeerKexinit
<1> HIDE DEF next
<1>7. ReplyShape(ph, Advance(next("Negotiated"), c, <<>>))
  BY <1>4 DEF ReplyShape, Advance, NoKexinit, AllMaySend, SentAll
<1>8. /\ ReplyShape(ph, Advance(next("GexClientAwaitGroup"), c, <<Msg("GEX_REQUEST")>>))
      /\ ReplyShape(ph, Advance(next("Negotiated"), c, <<Msg("KEX_INIT")>>))
  BY <1>4, OneMessageShape DEF SentAll, KexMsg
<1> QED BY <1>5, RefuseShape, <1>7, <1>8 DEF Errors

\* What a group-exchange leg is answered with.
LEMMA GexLegShape ==
  ASSUME NEW ph, NEW k \in Runner, NEW c \in Codec, NEW t \in KexMsg \ {"KEXINIT"},
         NEW phase \in KexPhases \ SentAll
  PROVE  ReplyShape(ph, GexLeg(k, c, phase, t))
BY OneMessageShape DEF Runner, GexLeg

\* The peer's NEWKEYS finds our side of the exchange over.
LEMMA PeerNewkeysShape ==
  ASSUME NEW k \in Runner, NEW c \in Codec
  PROVE  ReplyShape("AwaitingPeerNewKeys", HandlePeerNewkeys(k, c))
BY DEF HandlePeerNewkeys, Advance, NoKexinit, AllMaySend, Msg, MaySendDuringKex, ReplyShape, SentAll

\* What on_packet answers, whatever it is given.
LEMMA OnPacketShape ==
  ASSUME NEW r \in Role, NEW k \in Runner, NEW c \in Codec, NEW m \in Message
  PROVE  ReplyShape(k.phase, OnPacket(r, k, c, m))
<1> DEFINE q == CloseExtInfoWindow(k)
<1>1. q \in Runner /\ q.phase = k.phase
  BY WindowType DEF CloseExtInfoWindow, Runner
<1>2. \/ OnPacket(r, k, c, m) = HandlePeerKexinit(r, q, c, m)
      \/ OnPacket(r, k, c, m) = ServerReply(q, c, "KEX_REPLY")
      \/ OnPacket(r, k, c, m) = ClientFinish(q, c, m)
      \/ OnPacket(r, k, c, m) = GexLeg(q, c, "GexServerAwaitInit", "GEX_GROUP")
      \/ OnPacket(r, k, c, m) = GexLeg(q, c, "GexClientAwaitReply", "GEX_INIT")
      \/ OnPacket(r, k, c, m) = ServerReply(q, c, "GEX_REPLY")
      \/ q.phase = "AwaitingPeerNewKeys" /\ OnPacket(r, k, c, m) = HandlePeerNewkeys(q, c)
      \/ OnPacket(r, k, c, m) = Refuse(q, c, "unexpected message during KEX")
  BY DEF OnPacket
<1> HIDE DEF q
<1>4. /\ ReplyShape(k.phase, GexLeg(q, c, "GexServerAwaitInit", "GEX_GROUP"))
      /\ ReplyShape(k.phase, GexLeg(q, c, "GexClientAwaitReply", "GEX_INIT"))
  BY <1>1, GexLegShape DEF KexMsg, KexPhases, SentAll
<1>5. ReplyShape(k.phase, Refuse(q, c, "unexpected message during KEX"))
  BY RefuseShape DEF Errors
<1>6. ReplyShape("AwaitingPeerNewKeys", HandlePeerNewkeys(q, c))
  BY <1>1, PeerNewkeysShape
<1>7. ReplyShape(k.phase, HandlePeerKexinit(r, q, c, m)) /\ ReplyShape(k.phase, ClientFinish(q, c, m))
  BY <1>1, PeerKexinitShape, ClientFinishShape
<1> QED BY <1>1, <1>2, ServerReplyShape, <1>4, <1>5, <1>6, <1>7

---------------------------------------------------------------------------
(* The driver's methods.                                                   *)

\* What a KexAdvance does to a driver, field by field.
LEMMA ApplyFields ==
  ASSUME NEW d \in DriverState, NEW adv \in AdvanceType, adv.err = "none"
  PROVE  LET x == Apply(d, adv)
         IN  /\ x.outbox = d.outbox \o Encode(adv.c, adv.out)
             /\ x.runner = adv.k
             /\ x.deferred = d.deferred
             /\ x.deferredOut = d.deferredOut
             /\ x.phase = d.phase
             /\ x.err = d.err
<1> DEFINE y == [d EXCEPT !.runner = adv.k, !.codec = adv.c]
<1>1. adv.k \in Runner /\ adv.c \in Codec /\ adv.out \in Seq(Message)
  BY DEF AdvanceType
<1>2. y \in DriverState
  BY <1>1 DEF DriverState
<1>3. /\ y.outbox = d.outbox /\ y.runner = adv.k /\ y.codec = adv.c
      /\ y.deferred = d.deferred /\ y.deferredOut = d.deferredOut
      /\ y.phase = d.phase /\ y.err = d.err
  BY DEF DriverState
<1>4. Apply(d, adv) = EncodeAndQueue(y, adv.out)
  BY DEF Apply
<1> HIDE DEF y
<1> QED BY <1>1, <1>2, <1>3, <1>4, QueueFields, ZenonT(60)

\* An answer of on_packet keeps the wire quiet.
LEMMA ApplyReplyQuiet ==
  ASSUME NEW d \in DriverState, NEW adv \in AdvanceType, adv.err = "none",
         QuietWire(d), ReplyShape(d.runner.phase, adv)
  PROVE  QuietWire(Apply(d, adv))
<1> DEFINE e == Encode(adv.c, adv.out)
           x == Apply(d, adv)
<1>1. adv.k \in Runner /\ adv.c \in Codec /\ adv.out \in Seq(Message) /\ d.outbox \in Seq(WireFrame)
  BY DEF AdvanceType, DriverState
<1>2. /\ e \in Seq(WireFrame) /\ Len(e) = Len(adv.out)
      /\ \A i \in 1..Len(adv.out) : e[i].t = adv.out[i].t
  BY <1>1, EncodeKinds
<1>3. x.outbox = d.outbox \o e /\ x.runner = adv.k /\ x.deferredOut = d.deferredOut
  BY ApplyFields
<1> HIDE DEF e, x
<1>4. NoKexinit(e) /\ AllMaySend(e)
  BY <1>1, <1>2 DEF ReplyShape, NoKexinit, AllMaySend
<1>5. QuietStream(e) /\ ClosedStream(e)
  BY <1>2, <1>4, NoKexinitStream
<1>6. QuietStream(x.outbox)
  BY <1>1, <1>2, <1>3, <1>4, <1>5, QuietConcat DEF QuietWire
<1>7. ASSUME adv.k.phase \in SentAll  PROVE ClosedStream(x.outbox)
  <2>1. CASE d.runner.phase \in SentAll
    BY <1>1, <1>2, <1>3, <1>5, <2>1, ClosedConcat DEF QuietWire
  <2>2. CASE EndsInNewkeys(adv.out)
    <3>1. Len(e) # 0 /\ Len(e) \in 1..Len(e) /\ e[Len(e)].t = "NEWKEYS"
      BY <1>1, <1>2, <2>2 DEF EndsInNewkeys
    <3>2. e # <<>>
      BY <3>1
    <3> QED BY <1>1, <1>2, <1>3, <3>1, <3>2, NewkeysCloses
  <2> QED BY <1>7, <2>1, <2>2 DEF ReplyShape
<1> QED BY <1>3, <1>6, <1>7 DEF QuietWire, x

\* So does a KEXINIT of ours, the first or that of a re-key.
LEMMA ApplyKexinitQuiet ==
  ASSUME NEW d \in DriverState, NEW adv \in AdvanceType, NEW n \in Nat, adv.err = "none",
         QuietWire(d), adv.out = <<KexInit(n)>>, adv.k.phase = "SentKexInit"
  PROVE  QuietWire(Apply(d, adv)) /\ IsKexing(Apply(d, adv).runner)
<1> DEFINE e == Encode(adv.c, adv.out)
           x == Apply(d, adv)
<1>1. adv.k \in Runner /\ adv.c \in Codec /\ adv.out \in Seq(Message) /\ d.outbox \in Seq(WireFrame)
  BY DEF AdvanceType, DriverState
<1>2. Len(adv.out) = 1 /\ adv.out[1].t = "KEXINIT"
  BY DEF KexInit
<1>3. e \in Seq(WireFrame) /\ Len(e) = 1 /\ e[1].t = "KEXINIT"
  <2>1. /\ e \in Seq(WireFrame) /\ Len(e) = Len(adv.out)
        /\ \A i \in 1..Len(adv.out) : e[i].t = adv.out[i].t
    BY <1>1, EncodeKinds
  <2> HIDE DEF e
  <2> QED BY <1>2, <2>1
<1>4. x.outbox = d.outbox \o e /\ x.runner = adv.k /\ x.deferredOut = d.deferredOut
  BY ApplyFields
<1> HIDE DEF e, x
<1>5. QuietStream(e) /\ AllMaySend(e)
  BY <1>3 DEF QuietStream, AllMaySend, MaySendDuringKex, KexMsg
<1>6. QuietStream(x.outbox)
  BY <1>1, <1>3, <1>4, <1>5, QuietConcat DEF QuietWire
<1> QED BY <1>4, <1>6 DEF QuietWire, SentAll, IsKexing, x

\* An error leaves the driver as it was.
LEMMA FailQuiet ==
  ASSUME NEW d \in DriverState, NEW why \in Errors, QuietDriver(d)
  PROVE  QuietDriver(Fail(d, why))
BY DEF Fail, DriverState, QuietDriver, QuietWire

\* initiate_rekey
LEMMA InitiateRekeyQuiet ==
  ASSUME NEW d \in DriverState, QuietDriver(d)
  PROVE  QuietDriver(InitiateRekey(d))
<1> DEFINE adv == Restart(d.runner, d.codec)
           n == d.runner.advert + 1
<1>1. adv \in AdvanceType /\ d.runner \in Runner
  BY RestartType DEF DriverState
<1>2. n \in Nat
  BY <1>1 DEF Runner
<1>3. CASE d.runner.phase # "Completed"
  BY <1>3, FailQuiet DEF Restart, Refuse, InitiateRekey, Apply, Errors
<1>4. CASE d.runner.phase = "Completed"
  <2>1. /\ adv.err = "none" /\ adv.out = <<KexInit(n)>> /\ adv.k.phase = "SentKexInit"
    BY <1>1, <1>4 DEF Restart, Advance, Runner
  <2>2. QuietWire(d)
    BY DEF QuietDriver
  <2>3. InitiateRekey(d) = Apply(d, adv)
    BY DEF InitiateRekey
  <2> HIDE DEF adv, n
  <2> QED BY <1>1, <1>2, <2>1, <2>2, <2>3, ApplyKexinitQuiet DEF QuietDriver
<1> QED BY <1>3, <1>4

\* start_kex
LEMMA StartKexQuiet ==
  ASSUME NEW d \in DriverState, QuietWire(d)
  PROVE  QuietDriver(Apply(d, StartKex(d.runner, d.codec)))
<1> DEFINE adv == StartKex(d.runner, d.codec)
<1>1. adv \in AdvanceType /\ d.runner \in Runner
  BY StartKexType DEF DriverState
<1>2. adv.err = "none" /\ adv.out = <<KexInit(1)>> /\ adv.k.phase = "SentKexInit"
  BY <1>1 DEF StartKex, Advance, Runner
<1> HIDE DEF adv
<1> QED BY <1>1, <1>2, ApplyKexinitQuiet DEF QuietDriver, adv

\* enqueue_payload: everything a frontend or a driver submits.
LEMMA EnqueuePayloadQuiet ==
  ASSUME NEW d \in DriverState, NEW m \in Message, QuietDriver(d), m.t # "KEXINIT"
  PROVE  QuietDriver(EnqueuePayload(d, m))
<1>1. CASE ~MaySendDuringKex(m.t) /\ IsKexing(d.runner)
  <2>1. EnqueuePayload(d, m) = Fail(d, "deferred egress buffer too large")
        \/ EnqueuePayload(d, m) = [d EXCEPT !.deferredOut = Append(@, m)]
    BY <1>1 DEF EnqueuePayload
  <2>2. QuietDriver(Fail(d, "deferred egress buffer too large"))
    BY FailQuiet DEF Errors
  <2>3. QuietDriver([d EXCEPT !.deferredOut = Append(@, m)])
    <3> DEFINE q == Append(d.deferredOut, m)
               x == [d EXCEPT !.deferredOut = q]
    <3>2. NoKexinit(q)
      BY DEF NoKexinit, DriverState, QuietDriver, QuietWire
    <3> HIDE DEF q
    <3>3. x.outbox = d.outbox /\ x.runner = d.runner /\ x.deferredOut = q
      BY DEF DriverState
    <3> HIDE DEF x
    <3>4. QuietDriver(x)
      BY <1>1, <3>2, <3>3 DEF QuietDriver, QuietWire
    <3> QED BY <3>4 DEF x, q
  <2> QED BY <2>1, <2>2, <2>3
<1>2. CASE MaySendDuringKex(m.t) \/ ~IsKexing(d.runner)
  <2>2. <<m>> \in Seq(Message) /\ NoKexinit(<<m>>)
    BY DEF NoKexinit
  <2>3. AllMaySend(<<m>>) \/ d.runner.phase \in SentAll
    BY <1>2 DEF AllMaySend, IsKexing, SentAll
  <2>4. QuietWire(d)
    BY DEF QuietDriver
  <2>5. QuietWire(EncodeAndQueue(d, <<m>>))
    BY <2>2, <2>3, <2>4, QueueQuiet
  <2> QED BY <1>2, <2>2, <2>5, QueueFields DEF QuietDriver, EnqueuePayload
<1> QED BY <1>1, <1>2

\* The release at the end of an exchange empties both queues.
LEMMA ExchangeDoneQuiet ==
  ASSUME NEW d \in DriverState, QuietWire(d), d.runner.phase = "Completed"
  PROVE  QuietDriver(ExchangeDone(d))
<1> DEFINE e == Append(d.events, Msg("HandshakeComplete"))
           c == IF d.phase # "Kex" THEN d ELSE [d EXCEPT !.phase = "PostKex", !.events = e]
           a == [c EXCEPT !.deferredOut = <<>>]
           x == EncodeAndQueue(a, c.deferredOut)
<1>1. e \in Seq(Message)
  BY MsgType DEF MsgTypes, DriverState
<1>2. ExchangeDone(d) = DrainDeferred(x)
  BY DEF ExchangeDone, DrainDeferredOut
<1> HIDE DEF e
<1>3. /\ c \in DriverState /\ c.outbox = d.outbox /\ c.runner = d.runner
      /\ c.deferredOut = d.deferredOut
  BY <1>1 DEF DriverState
<1> HIDE DEF c
<1>4. /\ a.outbox = c.outbox /\ a.runner = c.runner /\ a.deferredOut = <<>>
  BY <1>3 DEF DriverState
<1>5. a \in DriverState /\ c.deferredOut \in Seq(Message)
  <2>1. <<>> \in Seq(Message)
    OBVIOUS
  <2> QED BY <1>3, <2>1 DEF DriverState
<1> HIDE DEF a
<1>6. QuietWire(a)
  BY <1>3, <1>4 DEF QuietWire, NoKexinit
<1>8. QuietWire(x) /\ x \in DriverState
  BY <1>5, <1>6, <1>3, <1>4, QueueQuiet, EncodeAndQueueType DEF QuietWire, SentAll
<1>9. x.deferredOut = <<>> /\ x.runner.phase = "Completed"
  BY <1>3, <1>4, <1>5, QueueFields
<1> HIDE DEF x
<1> DEFINE y == DrainDeferred(x)
           k == CloseExtInfoWindow(x.runner)
<1>10. k.phase = x.runner.phase
  BY <1>8 DEF CloseExtInfoWindow, DriverState, Runner
<1> HIDE DEF k
<1>11. /\ y.outbox = x.outbox /\ y.deferredOut = x.deferredOut /\ y.deferred = <<>>
       /\ y.runner = x.runner \/ y.runner = k
  BY <1>8 DEF DrainDeferred, DriverState, k
<1> HIDE DEF y
<1> QED BY <1>2, <1>9, <1>11, <1>8, <1>10 DEF QuietDriver, y, QuietWire

\* No message sends a runner back to Idle.
LEMMA OnPacketNotIdle ==
  ASSUME NEW r \in Role, NEW k \in Runner, NEW c \in Codec, NEW m \in Message,
         OnPacket(r, k, c, m).err = "none"
  PROVE  OnPacket(r, k, c, m).k.phase # "Idle"
<1> DEFINE q == CloseExtInfoWindow(k)
<1>1. q \in Runner
  BY WindowType
<1> HIDE DEF q
<1>3. HandlePeerKexinit(r, q, c, m).err = "none" => HandlePeerKexinit(r, q, c, m).k.phase # "Idle"
  BY <1>1 DEF HandlePeerKexinit, Advance, Refuse, Runner
<1>4. HandlePeerNewkeys(q, c).k.phase # "Idle"
  BY <1>1 DEF HandlePeerNewkeys, Advance, Runner
<1>5. GexLeg(q, c, "GexServerAwaitInit", "GEX_GROUP").k.phase # "Idle"
      /\ GexLeg(q, c, "GexClientAwaitReply", "GEX_INIT").k.phase # "Idle"
  BY <1>1 DEF GexLeg, Advance, Runner
<1>6. ASSUME NEW t \in {"KEX_REPLY", "GEX_REPLY"}  PROVE ServerReply(q, c, t).k.phase # "Idle"
  BY <1>1 DEF ServerReply, FinishExchange, Advance, Runner
<1>7. ClientFinish(q, c, m).err = "none" => ClientFinish(q, c, m).k.phase # "Idle"
  BY <1>1 DEF ClientFinish, FinishExchange, Advance, Refuse, Runner
<1> QED BY <1>3, <1>4, <1>5, <1>6, <1>7 DEF OnPacket, q, Refuse

\* A change of the runner's flags changes nothing on the wire.
LEMMA NewRunnerQuiet ==
  ASSUME NEW d \in DriverState, QuietDriver(d), NEW q, q.phase = d.runner.phase
  PROVE  QuietDriver([d EXCEPT !.runner = q])
<1> DEFINE x == [d EXCEPT !.runner = q]
<1>1. /\ x.outbox = d.outbox /\ x.runner = q /\ x.deferred = d.deferred
      /\ x.deferredOut = d.deferredOut
  BY DEF DriverState
<1> HIDE DEF x
<1>2. QuietDriver(x)
  BY <1>1 DEF QuietDriver, QuietWire, IsKexing
<1> QED BY <1>2 DEF x

\* route_packet, the messages of an exchange.
LEMMA RouteKexQuiet ==
  ASSUME NEW r \in Role, NEW d \in DriverState, NEW m \in Message,
         QuietDriver(d), d.err = "none"
  PROVE  QuietDriver(RouteKex(r, d, m))
<1> DEFINE s == IF m.t = "KEXINIT" /\ ~IsKexing(d.runner) THEN InitiateRekey(d) ELSE d
           adv == OnPacket(r, s.runner, s.codec, m)
           x == IF s.err # "none" THEN s ELSE Apply(s, adv)
<1>1. s \in DriverState /\ QuietDriver(s)
  BY InitiateRekeyType, InitiateRekeyQuiet
<1>2. RouteKex(r, d, m) = IF x.err = "none" /\ x.runner.phase = "Completed"
                          THEN ExchangeDone(x) ELSE x
  BY DEF RouteKex
<1> HIDE DEF s
<1>3. s.runner \in Runner /\ s.codec \in Codec
  BY <1>1 DEF DriverState
<1>4. adv \in AdvanceType /\ ReplyShape(s.runner.phase, adv)
  BY <1>3, OnPacketType, OnPacketShape
<1> HIDE DEF adv
<1>5. CASE s.err # "none"
  BY <1>1, <1>2, <1>5
<1>6. CASE s.err = "none" /\ adv.err # "none"
  <2>1. x = Fail(s, adv.err) /\ adv.err \in Errors
    BY <1>4, <1>6 DEF Apply, AdvanceType
  <2>2. x.err # "none"
    BY <1>1, <1>6, <2>1 DEF Fail, DriverState
  <2> HIDE DEF x
  <2> QED BY <1>1, <1>2, <2>1, <2>2, FailQuiet
<1>7. CASE s.err = "none" /\ adv.err = "none"
  <2>1. x = Apply(s, adv) /\ x \in DriverState
    BY <1>1, <1>4, <1>7, ApplyType
  <2>2. QuietWire(s)
    BY <1>1 DEF QuietDriver
  <2> HIDE DEF x
  <2>3. QuietWire(x)
    BY <1>1, <1>4, <1>7, <2>1, <2>2, ApplyReplyQuiet
  <2>4. /\ x.err = "none" /\ x.runner = adv.k /\ x.deferred = s.deferred
        /\ x.deferredOut = s.deferredOut
    BY <1>1, <1>4, <1>7, <2>1, ApplyFields
  <2>5. CASE x.runner.phase = "Completed"
    BY <1>2, <2>1, <2>3, <2>4, <2>5, ExchangeDoneQuiet
  <2>6. CASE x.runner.phase # "Completed"
    BY <1>3, <1>4, <1>7, <2>4, OnPacketNotIdle, <1>2, <2>3, <2>6 DEF adv, QuietDriver, IsKexing
  <2> QED BY <2>5, <2>6
<1> QED BY <1>5, <1>6, <1>7

\* route_packet on EXT_INFO sends nothing.
LEMMA RouteExtInfoQuiet ==
  ASSUME NEW r \in Role, NEW d \in DriverState, QuietDriver(d)
  PROVE  QuietDriver(RouteExtInfo(r, d))
<1> DEFINE k == IF r = "client" /\ ~d.auth /\ d.phase # "Kex"
                THEN ArmExtInfoPostAuth(r, d.runner) ELSE d.runner
           q == CloseExtInfoWindow(k)
<1>1. d.runner \in Runner
  BY DEF DriverState
<1>2. k \in Runner /\ k.phase = d.runner.phase
  BY <1>1, WindowType DEF ArmExtInfoPostAuth, Runner
<1>3. RouteExtInfo(r, d) = [d EXCEPT !.runner = q]
      \/ RouteExtInfo(r, d) = Fail(d, "unexpected SSH_MSG_EXT_INFO")
  BY DEF RouteExtInfo
<1> HIDE DEF k
<1>4. q.phase = d.runner.phase
  BY <1>2 DEF CloseExtInfoWindow, Runner
<1> HIDE DEF q
<1>6. QuietDriver(Fail(d, "unexpected SSH_MSG_EXT_INFO"))
  BY FailQuiet DEF Errors
<1> QED BY <1>3, <1>4, NewRunnerQuiet, <1>6

\* route_packet on a payload for the application sends nothing.
LEMMA RouteOtherQuiet ==
  ASSUME NEW d \in DriverState, NEW m \in Message, QuietDriver(d)
  PROVE  QuietDriver(RouteOther(d, m))
<1> DEFINE k == CloseExtInfoWindow(d.runner)
           x == [d EXCEPT !.runner = k, !.events = Append(@, m)]
           y == [d EXCEPT !.deferred = Append(@, m)]
<1>1. d.runner \in Runner
  BY DEF DriverState
<1>2. k.phase = d.runner.phase
  BY <1>1 DEF CloseExtInfoWindow, Runner
<1>3. \/ RouteOther(d, m) = x
      \/ AwaitingPeerKexinit(d.runner) /\ RouteOther(d, m) = y
      \/ RouteOther(d, m) = Fail(d, "deferred ingress buffer too large")
      \/ RouteOther(d, m) = Fail(d, "non-KEX message before first NEWKEYS")
      \/ RouteOther(d, m) = Fail(d, "non-KEX message during key re-exchange")
  BY DEF RouteOther, DeferInbound
<1> HIDE DEF k
<1>4. QuietDriver(x)
  <2>1. /\ x.outbox = d.outbox /\ x.runner = k /\ x.deferred = d.deferred
        /\ x.deferredOut = d.deferredOut
    BY DEF DriverState
  <2> HIDE DEF x
  <2> QED BY <1>2, <2>1 DEF QuietDriver, QuietWire, IsKexing
<1>5. ASSUME AwaitingPeerKexinit(d.runner)  PROVE QuietDriver(y)
  <2>1. y.outbox = d.outbox /\ y.runner = d.runner /\ y.deferredOut = d.deferredOut
    BY DEF DriverState
  <2> HIDE DEF y
  <2> QED BY <1>5, <2>1 DEF QuietDriver, QuietWire, IsKexing, AwaitingPeerKexinit
<1> QED BY <1>3, <1>4, <1>5, FailQuiet DEF Errors

\* A PONG waits for the exchange to end.
LEMMA RoutePingQuiet ==
  ASSUME NEW d \in DriverState, NEW m \in Message, QuietDriver(d)
  PROVE  QuietDriver(RoutePing(d, m))
BY MsgType, FailQuiet, EnqueuePayloadQuiet DEF MsgTypes, Msg, Errors, RoutePing

\* route_packet keeps the stream quiet during an exchange.
LEMMA RoutePacketQuiet ==
  ASSUME NEW r \in Role, NEW d \in DriverState, NEW m \in Message,
         QuietDriver(d), d.err = "none"
  PROVE  QuietDriver(RoutePacket(r, d, m))
BY FailQuiet, RoutePingQuiet, RouteExtInfoQuiet, RouteKexQuiet, RouteOtherQuiet DEF Errors,
   RoutePacket

\* handle_input
LEMMA HandleInputItemQuiet ==
  ASSUME NEW r \in Role, NEW d \in DriverState, NEW f \in WireFrame,
         QuietDriver(d), d.err = "none"
  PROVE  QuietDriver(HandleInputItem(r, d, f))
<1>1. QuietDriver(ScanPeerVersion(r, d))
  <2> DEFINE v == [d EXCEPT !.phase = "Kex"]
  <2>1. v \in DriverState
    BY DEF DriverState
  <2>2. /\ v.outbox = d.outbox /\ v.runner = d.runner /\ v.deferred = d.deferred
        /\ v.deferredOut = d.deferredOut
    BY DEF DriverState
  <2>3. ScanPeerVersion(r, d) = v
        \/ ScanPeerVersion(r, d) = Apply(v, StartKex(v.runner, v.codec))
    BY DEF ScanPeerVersion
  <2> HIDE DEF v
  <2> QED BY <2>1, <2>3, <2>2, StartKexQuiet DEF QuietDriver, QuietWire
<1>2. QuietDriver(RoutePacket(r, [d EXCEPT !.codec = Decoded(@)], Payload(d.codec, f)))
  <2> DEFINE v == [d EXCEPT !.codec = Decoded(d.codec)]
  <2>1. d.codec \in Codec
    BY DEF DriverState
  <2>2. Decoded(d.codec) \in Codec /\ Payload(d.codec, f) \in Message
    BY <2>1, DecodedType, PayloadType
  <2>3. v \in DriverState
    BY <2>2 DEF DriverState
  <2>4. /\ v.outbox = d.outbox /\ v.runner = d.runner /\ v.deferred = d.deferred
        /\ v.deferredOut = d.deferredOut /\ v.err = d.err
    BY DEF DriverState
  <2> HIDE DEF v
  <2>5. QuietDriver(v)
    BY <2>4 DEF QuietDriver, QuietWire
  <2> QED BY <2>2, <2>3, <2>4, <2>5, RoutePacketQuiet DEF v
<1> QED BY <1>1, <1>2, FailQuiet DEF HandleInputItem, Errors

\* notify_auth_success
LEMMA NotifyAuthSuccessQuiet ==
  ASSUME NEW r \in Role, NEW d \in DriverState, QuietDriver(d)
  PROVE  QuietDriver(NotifyAuthSuccess(r, d))
<1> DEFINE k == ArmExtInfoPostAuth(r, d.runner)
           x == NotifyAuthSuccess(r, d)
<1>1. k.phase = d.runner.phase
  BY DEF ArmExtInfoPostAuth, DriverState, Runner
<1> HIDE DEF k
<1>2. /\ x.outbox = d.outbox /\ x.runner = k /\ x.deferred = d.deferred
      /\ x.deferredOut = d.deferredOut
  BY DEF NotifyAuthSuccess, DriverState, k
<1> HIDE DEF x
<1>3. QuietDriver(x)
  BY <1>1, <1>2 DEF QuietDriver, QuietWire, IsKexing
<1> QED BY <1>3 DEF x

---------------------------------------------------------------------------
(* The connection.                                                         *)

\* Taking an event off a driver changes nothing on its wire.
LEMMA PoppedQuiet ==
  ASSUME QuietInv, NEW r \in Role, drv[r].events # <<>>
  PROVE  Popped(r) \in DriverState /\ QuietDriver(Popped(r))
BY PoppedType DEF QuietInv, TypeOK, Popped, DriverState, QuietDriver, QuietWire

\* A frontend's step leaves the other driver alone.
LEMMA ActQuiet ==
  ASSUME QuietInv, NEW r \in Role, NEW d \in DriverState, QuietDriver(d), Act(r, d)
  PROVE  \A s \in Role : QuietDriver(drv'[s])
  BY DEF QuietInv, TypeOK, Act

\* So does a payload that a frontend submits.
LEMMA SubmitQuiet ==
  ASSUME QuietInv, NEW r \in Role, NEW d \in DriverState, QuietDriver(d),
         NEW m \in Message, m.t # "KEXINIT", Submit(r, d, m)
  PROVE  \A s \in Role : QuietDriver(drv'[s])
BY EnqueuePayloadType, EnqueuePayloadQuiet, ActQuiet DEF Submit

\* A packet is decoded on one side and leaves the wire of the other.
LEMMA HandleInputQuiet ==
  ASSUME QuietInv, NEW r \in Role, HandleInput(r)
  PROVE  \A s \in Role : QuietDriver(drv'[s])
<1> DEFINE p == Peer(r)
           y == HandleInputItem(r, drv[r], Head(drv[p].outbox))
           z == Delivered(drv[p])
<1>1. p \in Role /\ p # r /\ Role = {r, p}
  BY DEF Peer, Role
<1> HIDE DEF p
<1>2. drv[r] \in DriverState /\ drv[p] \in DriverState
  BY <1>1 DEF QuietInv, TypeOK
<1>3. drv[p].outbox # <<>> /\ drv[p].outbox \in Seq(WireFrame) /\ drv[r].err = "none"
  BY <1>2 DEF HandleInput, Live, DriverState, p
<1>5. QuietDriver(y)
  BY <1>1, <1>2, <1>3, HandleInputItemQuiet DEF QuietInv
<1>6. QuietDriver(z)
  <2>1. /\ z.outbox = Tail(drv[p].outbox) /\ z.runner = drv[p].runner
        /\ z.deferred = drv[p].deferred /\ z.deferredOut = drv[p].deferredOut
    BY <1>2 DEF Delivered, DriverState
  <2> HIDE DEF z
  <2>2. QuietDriver(drv[p])
    BY <1>1 DEF QuietInv
  <2> QED BY <1>3, <2>1, <2>2, TailQuiet DEF QuietDriver, QuietWire
<1>7. drv' = [drv EXCEPT ![r] = y, ![p] = z]
  BY DEF HandleInput, p
<1> HIDE DEF y, z
<1> QED BY <1>1, <1>5, <1>6, <1>7 DEF QuietInv, TypeOK

\* Nothing is on the wire initially.
LEMMA InitQuiet == Init => QuietInv
<1> SUFFICES ASSUME Init PROVE QuietInv
  OBVIOUS
<1>1. TypeOK
  BY InitTypeOK
<1>3. QuietDriver(NewDriver)
  BY DEF QuietDriver, QuietWire, QuietStream, ClosedStream, NoKexinit, NewDriver
<1> QED BY <1>1, <1>3 DEF QuietInv, Unstarted, Init

\* Nothing touches a driver before its frontend starts it.
LEMMA NextUnstarted ==
  ASSUME QuietInv, [Next]_vars
  PROVE  Unstarted'
<1> SUFFICES ASSUME NEW r \in Role, fe'[r] = "new"
             PROVE  drv'[r] = NewDriver
  BY DEF Unstarted
<1>1. /\ NewDriver.outbox = <<>> /\ NewDriver.events = <<>> /\ NewDriver.phase = "AwaitingVersion"
  BY DEF NewDriver
<1>2. fe \in [Role -> {"new", "handshake", "auth", "open", "closed"}] /\ drv \in [Role -> DriverState]
  BY DEF QuietInv, TypeOK
<1>3. fe[r] = "new" => drv[r] = NewDriver
  BY DEF QuietInv, Unstarted
<1>4. CASE \E s \in Role : Start(s)
  BY <1>2, <1>3, <1>4 DEF Start
<1>5. CASE \E s \in Role : HandleInput(s)
  <2>1. PICK s \in Role : HandleInput(s)
    BY <1>5
  <2>3. r # s /\ r # Peer(s)
    BY <1>1, <1>3, <2>1 DEF HandleInput
  <2> QED BY <2>3 DEF Role, Peer
<1>6. CASE \E s \in Role : PollHandshakeComplete(s)
  BY <1>2, <1>3, <1>6 DEF PollHandshakeComplete, Submit, Act
<1>7. CASE \E s \in Role : PollAuth(s)
  BY <1>2, <1>3, <1>7 DEF PollAuth, Submit, Act
<1>8. CASE \E s \in Role : PollApp(s)
  BY <1>2, <1>3, <1>8 DEF PollApp, Act
<1>9. CASE \E s \in Role : SendApp(s)
  BY <1>2, <1>3, <1>9 DEF SendApp, Submit, Act
<1>10. CASE \E s \in Role : Tick(s)
  BY <1>1, <1>2, <1>3, <1>10 DEF Tick, RekeyDue, Act
<1>11. CASE ServerAuthenticates \/ ClientAuthenticated
  BY <1>2, <1>3, <1>11 DEF ServerAuthenticates, ClientAuthenticated, Act
<1>12. CASE SendPing \/ RequestRekey \/ Disconnect
  BY <1>2, <1>3, <1>12 DEF SendPing, RequestRekey, Disconnect, Act
<1>13. CASE UNCHANGED vars
  BY <1>3, <1>13 DEF vars
<1> QED BY <1>4, <1>5, <1>6, <1>7, <1>8, <1>9, <1>10, <1>11, <1>12, <1>13 DEF Next, Poll

\* Every step keeps both wires quiet.
LEMMA NextQuiet == QuietInv /\ [Next]_vars => QuietInv'
<1> SUFFICES ASSUME QuietInv, [Next]_vars PROVE \A s \in Role : QuietDriver(drv'[s])
  BY NextTypeOK, NextUnstarted DEF QuietInv
<1> DEFINE Goal == \A s \in Role : QuietDriver(drv'[s])
<1>0. ASSUME NEW r \in Role  PROVE drv[r] \in DriverState /\ QuietDriver(drv[r])
  BY DEF QuietInv, TypeOK
<1>1. ASSUME NEW r \in Role, Start(r)  PROVE Goal
  <2> DEFINE v == [NewDriver EXCEPT !.outbox = <<Version>>]
             x == StartDriver(r, drv[r])
  <2>1. drv[r] = NewDriver /\ NewDriver \in DriverState /\ QuietDriver(NewDriver)
    BY <1>0, <1>1 DEF Start, QuietInv, Unstarted
  <2>3. <<Version>> \in Seq(WireFrame) /\ NoKexinit(<<Version>>)
    BY SeqModAssumption DEF NoKexinit, NoKey, Key, SeqNum, Version, WireFrame, MsgTypes
  <2>4. QuietStream(<<Version>>) /\ ClosedStream(<<Version>>)
    BY <2>3, NoKexinitStream
  <2>6. x = v \/ x = Apply(v, StartKex(v.runner, v.codec))
    BY <2>1 DEF StartDriver, NewDriver
  <2>7. /\ v \in DriverState /\ v.outbox = <<Version>> /\ v.runner = NewDriver.runner
        /\ v.deferred = NewDriver.deferred /\ v.deferredOut = NewDriver.deferredOut
    BY <2>1, <2>3 DEF DriverState
  <2> HIDE DEF v
  <2>9. QuietDriver(x)
    BY <2>6, <2>7, <2>1, <2>4, StartKexQuiet DEF QuietDriver, QuietWire
  <2>10. drv' = [drv EXCEPT ![r] = x]
    BY <1>1 DEF Start
  <2> HIDE DEF x
  <2> QED BY <1>0, <2>9, <2>10 DEF QuietInv, TypeOK
<1>2. ASSUME NEW r \in Role, HandleInput(r)  PROVE Goal
  BY <1>2, HandleInputQuiet
<1>3. ASSUME NEW r \in Role, PollHandshakeComplete(r)  PROVE Goal
  BY <1>3, PoppedQuiet, MsgType, SubmitQuiet, ActQuiet DEF PollHandshakeComplete, Polls, MsgTypes,
     Msg
<1>4. ASSUME NEW r \in Role, PollAuth(r)  PROVE Goal
  BY <1>4, PoppedQuiet, MsgType, SubmitQuiet DEF PollAuth, Polls, MsgTypes, Msg
<1>5. ASSUME NEW r \in Role, PollApp(r)  PROVE Goal
  BY <1>5, PoppedQuiet, FailType, FailQuiet, ActQuiet DEF PollApp, Errors
<1>6. ASSUME NEW r \in Role, SendApp(r)  PROVE Goal
  <2> DEFINE m == [t |-> "APP", body |-> <<Len(sent[r]), Len(sent[r])>>]
  <2>1. Len(sent[r]) \in Nat
    BY DEF QuietInv, TypeOK
  <2>2. m \in Message /\ m.t # "KEXINIT"
    BY <2>1 DEF Message, Key, MsgTypes
  <2>3. Submit(r, drv[r], m)
    BY <1>6 DEF SendApp
  <2> HIDE DEF m
  <2> QED BY <1>0, <2>2, <2>3, SubmitQuiet
<1>7. ASSUME NEW r \in Role, Tick(r)  PROVE Goal
  BY <1>0, InitiateRekeyType, InitiateRekeyQuiet, <1>7, ActQuiet DEF Tick
<1>8. ASSUME ServerAuthenticates  PROVE Goal
  <2> DEFINE m == Msg("USERAUTH_SUCCESS")
             e == EnqueuePayload(Popped("server"), m)
  <2>0. "server" \in Role
    BY DEF Role
  <2>2. m \in Message /\ m.t # "KEXINIT"
    BY MsgType DEF MsgTypes, Msg
  <2>3. e \in DriverState /\ QuietDriver(e)
    BY <1>8, <2>0, PoppedQuiet, <2>2, EnqueuePayloadType,
       EnqueuePayloadQuiet DEF ServerAuthenticates, Polls
  <2>4. Act("server", NotifyAuthSuccess("server", e))
    BY <1>8 DEF ServerAuthenticates
  <2> HIDE DEF e
  <2> QED BY <2>0, <2>3, <2>4, NotifyAuthSuccessType, NotifyAuthSuccessQuiet, ActQuiet
<1>9. ASSUME ClientAuthenticated  PROVE Goal
  BY <1>9, PoppedQuiet, NotifyAuthSuccessType, NotifyAuthSuccessQuiet, ActQuiet DEF Role,
     ClientAuthenticated, Polls
<1>10. ASSUME SendPing  PROVE Goal
  BY MsgType, <1>0, EnqueuePayloadType, EnqueuePayloadQuiet, <1>10, ActQuiet DEF Role, MsgTypes,
     Msg, SendPing
<1>11. ASSUME RequestRekey  PROVE Goal
  BY <1>0, InitiateRekeyType, InitiateRekeyQuiet, <1>11, ActQuiet DEF Role, RequestRekey
<1>12. ASSUME Disconnect  PROVE Goal
  BY MsgType, <1>0, EnqueuePayloadType, EnqueuePayloadQuiet, <1>12, ActQuiet DEF Role, MsgTypes,
     Msg, Disconnect
<1>13. CASE UNCHANGED vars
  BY <1>0, <1>13 DEF vars
<1> QED BY <1>1, <1>2, <1>3, <1>4, <1>5, <1>6, <1>7, <1>8, <1>9, <1>10, <1>11, <1>12, <1>13
  DEF Next, Poll

\* Between a KEXINIT and the NEWKEYS that ends its exchange nothing but the
\* exchange is sent, and no payload is left in the deferral queues once no
\* exchange runs: enqueue_payload, route_packet and the two drains of both
\* drivers, for every policy, method, traffic and interleaving.
THEOREM Quiet == Spec => []QuietDuringKex
<1>1. Init => QuietInv
  BY InitQuiet
<1>2. QuietInv /\ [Next]_vars => QuietInv'
  BY NextQuiet
<1>3. QuietInv => QuietDuringKex
  BY DEF QuietInv, QuietDriver, QuietWire, QuietDuringKex
<1> QED BY <1>1, <1>2, <1>3, PTL DEF Spec

---------------------------------------------------------------------------
(***************************************************************************)
(* Two puressh endpoints never make each other fail.  Each direction of    *)
(* the stream is read as a path: a receiver stands at a place (the keys it *)
(* has, the legs of the running exchange it has received, the sequence     *)
(* number it expects), every frame fits at one place and leads to another, *)
(* and the frames on the wire lead from the receiver's place to the        *)
(* sender's.  The path says of every frame what its receiver will be doing *)
(* when it arrives, however far apart the two sides are.                   *)
(***************************************************************************)

\* What the two ends are assumed to have settled: no delayed compression, more
\* than one sequence number, and no re-key by age before authentication (a
\* server that started one would no longer accept the client's EXT_INFO).
Agreed == Compression # "delayed" /\ SeqMod > 1 /\ "preauth" \notin TimeLimit

\* The messages of each side in an exchange, the last of them NEWKEYS.
Legs == IF Gex THEN 4 ELSE 3

\* The place of a message among them, 0 for the others.
LegNo(t) == CASE t = "KEXINIT" -> 1
              [] t \in {"KEX_INIT", "KEX_REPLY", "GEX_REQUEST", "GEX_GROUP"} -> 2
              [] t \in {"GEX_INIT", "GEX_REPLY"} -> 3
              [] t = "NEWKEYS" -> Legs
              [] OTHER -> 0

\* The exchange's messages and phases that are r's.
KexOf(r) == {"KEXINIT", "NEWKEYS"} \cup
            (IF r = "client" THEN IF Gex THEN {"GEX_REQUEST", "GEX_INIT"} ELSE {"KEX_INIT"}
                             ELSE IF Gex THEN {"GEX_GROUP", "GEX_REPLY"} ELSE {"KEX_REPLY"})

PhasesOf(r) == {"Idle", "SentKexInit", "AwaitingPeerNewKeys", "Completed"} \cup
               (IF r = "client" THEN IF Gex THEN {"GexClientAwaitGroup", "GexClientAwaitReply"}
                                            ELSE {"Negotiated"}
                ELSE IF Gex THEN {"Negotiated", "GexServerAwaitInit"} ELSE {"Negotiated"})

\* How many legs of the current exchange a side in phase ph has received, and
\* how many it has sent (0 again once its NEWKEYS is out).
LegsIn(ph) == CASE ph \in {"Idle", "SentKexInit", "Completed"} -> 0
                [] ph \in {"Negotiated", "GexClientAwaitGroup"} -> 1
                [] ph \in {"GexClientAwaitReply", "GexServerAwaitInit"} -> 2
                [] OTHER -> Legs - 1

LegsOut(r, ph) == CASE ph = "SentKexInit" -> 1
                    [] ph = "Negotiated" -> IF r = "client" THEN 2 ELSE 1
                    [] ph \in {"GexClientAwaitGroup", "GexServerAwaitInit"} -> 2
                    [] ph = "GexClientAwaitReply" -> 3
                    [] OTHER -> 0

\* Which keys are installed, and the place a driver reads from and writes to.
Epoch(d) == d.codec.outKey[1]

InJ(d) == LegsIn(d.runner.phase)

OutE(d) == IF d.runner.phase = "AwaitingPeerNewKeys" THEN Epoch(d) + 1 ELSE Epoch(d)

OutJ(r, d) == LegsOut(r, d.runner.phase)

OutS(d) == IF d.runner.phase = "AwaitingPeerNewKeys" /\ StrictKex THEN 0 ELSE d.codec.seqOut

\* The messages a frontend submits, and those that pass enqueue_payload with them.
ItemTypes == {"SERVICE_REQUEST", "SERVICE_ACCEPT", "USERAUTH_REQUEST", "USERAUTH_SUCCESS", "APP"}

AppTypes == ItemTypes \cup {"PING", "PONG"}

\* The runner, the codec and the phase of a driver agree.
KeysOK(r, d) ==
    /\ d.runner.phase \in PhasesOf(r)
    /\ d.codec.outKey = <<Epoch(d), Epoch(d)>> /\ d.codec.inKey = d.codec.outKey
    /\ d.runner.phase = "Idle" => Epoch(d) = 0 /\ d.phase = "AwaitingVersion" /\ d.runner = NewRunner
    /\ d.runner.phase = "Completed" => d.runner.advert = Epoch(d) /\ Epoch(d) > 0
    /\ IsKexing(d.runner) => d.runner.advert = Epoch(d) + 1 /\ "peer_newkeys" \notin d.runner.flags
    /\ "strict_kex" \in d.runner.flags => StrictKex
    /\ InJ(d) > 0 => /\ d.runner.peerAdvert = Epoch(d) + 1
                     /\ StrictKex => "strict_kex" \in d.runner.flags
                     /\ Epoch(d) = 0 => "ext_info_enabled" \in d.runner.flags
    /\ d.runner.phase = "AwaitingPeerNewKeys" =>
          d.runner.h = <<Epoch(d) + 1, Epoch(d) + 1>> /\ "sent_newkeys" \in d.runner.flags
    /\ d.runner.sid = IF OutE(d) = 0 THEN NoKey ELSE <<1, 1>>
    /\ d.codec.zOut = IF Compression = "zlib" /\ Epoch(d) > 0 THEN "on" ELSE "none"
    /\ d.codec.zIn = d.codec.zOut
    /\ d.phase = "PostKex" <=> Epoch(d) > 0
    /\ r = "server" /\ d.phase = "AwaitingVersion" => d.runner.phase = "Idle"
    /\ d.deferredOut # <<>> \/ d.deferred # <<>> => IsKexing(d.runner) /\ Epoch(d) > 0
    /\ Epoch(d) = 0 /\ InJ(d) = 0 => d.codec.seqIn = 0
    /\ \A i \in DOMAIN d.deferredOut : d.deferredOut[i].t \in AppTypes /\ ~MaySendDuringKex(d.deferredOut[i].t)

\* A frame of r's, and one that r's driver d has sent.
FrameShape(r, f) ==
    LET n == f.key[1]
    IN  /\ f.key = <<n, n>>
        /\ IF IsKexMsg(f.t) THEN f.t \in KexOf(r)
                            ELSE f.t \in AppTypes \cup {"VERSION", "EXT_INFO", "DISCONNECT"}
        /\ ~IsKexMsg(f.t) /\ f.t # "VERSION" => n > 0
        /\ f.t \in {"KEXINIT", "KEX_REPLY", "GEX_REPLY"} => f.body = <<n + 1, n + 1>>
        /\ f.z = (Compression = "zlib" /\ n > 0)

FrameOK(r, d, f) == /\ FrameShape(r, f) /\ f.key[1] <= Epoch(d)
                    /\ f.t = "NEWKEYS" => f.key[1] < OutE(d)
                    /\ f.t = "KEXINIT" => f.key[1] < d.runner.advert

\* f fits at the place (e, j, s); the place it leads to.
Fits(e, j, s, f) == /\ f.key = <<e, e>> /\ f.seq = s
                    /\ LegNo(f.t) = IF IsKexMsg(f.t) THEN j + 1 ELSE j

AfterE(f) == IF f.t = "NEWKEYS" THEN f.key[1] + 1 ELSE f.key[1]

AfterJ(f) == IF f.t = "NEWKEYS" THEN 0 ELSE LegNo(f.t)

AfterS(f) == IF f.t = "VERSION" \/ (f.t = "NEWKEYS" /\ StrictKex) THEN 0 ELSE (f.seq + 1) % SeqMod

\* Each frame of o leads to the place where the next one fits.
Linked(o) == \A i \in DOMAIN o : i > 1 /\ o[i].t # "DISCONNECT" =>
                Fits(AfterE(o[i - 1]), AfterJ(o[i - 1]), AfterS(o[i - 1]), o[i])

\* The frames o begin at the place (e, j, s), and they end there.
StartsAt(o, e, j, s) == o # <<>> /\ o[1].t # "DISCONNECT" => Fits(e, j, s, o[1])

EndsAt(o, e, j, s) == o # <<>> => /\ AfterE(o[Len(o)]) = e
                                  /\ AfterJ(o[Len(o)]) = j
                                  /\ AfterS(o[Len(o)]) = s

\* The wire from r's driver d, whose frontend is in state s, to the driver x.
InOrder(r, d, x, s) ==
    /\ \A i \in DOMAIN d.outbox : FrameOK(r, d, d.outbox[i])
    /\ \A i \in DOMAIN d.outbox : d.outbox[i].t = "DISCONNECT" => i = Len(d.outbox) /\ s = "closed"
    /\ \A i \in DOMAIN d.outbox : d.outbox[i].t = "VERSION" => i = 1
    /\ x.phase = "AwaitingVersion" <=> (s = "new" \/ (d.outbox # <<>> /\ d.outbox[1].t = "VERSION"))
    /\ Linked(d.outbox)
    /\ x.err = "none" => StartsAt(d.outbox, Epoch(x), InJ(x), x.codec.seqIn)
    /\ s # "closed" => EndsAt(d.outbox, OutE(d), OutJ(r, d), OutS(d))
    /\ d.outbox = <<>> /\ x.err = "none" /\ s # "closed" =>
          Epoch(x) = OutE(d) /\ InJ(x) = OutJ(r, d) /\ x.codec.seqIn = OutS(d)
    /\ Epoch(x) <= OutE(d)
    /\ \A i, j \in DOMAIN d.outbox :
          i < j /\ d.outbox[i].t = "NEWKEYS" /\ d.outbox[j].t # "DISCONNECT"
          => d.outbox[i].key[1] < d.outbox[j].key[1]

---------------------------------------------------------------------------
(* Sequence numbers.                                                       *)

\* Quotient and remainder.
LEMMA DivMod ==
  ASSUME NEW M \in Nat \ {0}, NEW a \in Nat
  PROVE  /\ a % M \in 0..(M - 1) /\ a \div M \in Int
         /\ a = (M * (a \div M)) + (a % M)
  OBVIOUS

\* They are determined by the number.
LEMMA ModUnique ==
  ASSUME NEW M \in Nat \ {0}, NEW q \in Int, NEW b \in 0..(M - 1)
  PROVE  ((M * q) + b) % M = b
  OBVIOUS

\* A number below the modulus is its own remainder.
LEMMA ModSmall ==
  ASSUME NEW M \in Nat \ {0}, NEW a \in Nat, a < M
  PROVE  a % M = a
  OBVIOUS

\* Counting modulo M one at a time.
LEMMA ModStep ==
  ASSUME NEW M \in Nat \ {0}, NEW a \in Nat
  PROVE  ((a % M) + 1) % M = (a + 1) % M
<1> DEFINE b == a % M
           q == a \div M
<1>1. b \in 0..(M - 1) /\ q \in Int /\ a = (M * q) + b
  BY DivMod
<1>2. a + 1 = (M * q) + (b + 1) /\ a % M = b
  BY <1>1
<1> HIDE DEF b, q
<1>3. CASE b + 1 < M
  <2>1. (b + 1) % M = b + 1
    BY <1>1, <1>3, ModSmall
  <2> QED BY <1>2, <2>1, <1>1, <1>3, ModUnique
<1>4. CASE b + 1 = M
  BY <1>1, <1>4, ModUnique, <1>2
<1> QED BY <1>1, <1>3, <1>4

---------------------------------------------------------------------------
(* Paths.                                                                  *)

\* Two linked runs of frames make one when the second begins where the first ends.
LEMMA LinkedConcat ==
  ASSUME NEW o \in Seq(WireFrame), NEW ns \in Seq(WireFrame), NEW e, NEW j, NEW s,
         Linked(o), Linked(ns), EndsAt(o, e, j, s), StartsAt(ns, e, j, s)
  PROVE  Linked(o \o ns)
<1> DEFINE c == o \o ns
<1>1. /\ c \in Seq(WireFrame) /\ Len(c) = Len(o) + Len(ns)
      /\ \A i \in 1..Len(o) : c[i] = o[i]
      /\ \A i \in 1..Len(ns) : c[Len(o) + i] = ns[i]
  OBVIOUS
<1> HIDE DEF c
<1>2. SUFFICES ASSUME NEW i \in DOMAIN c, i > 1, c[i].t # "DISCONNECT"
               PROVE  Fits(AfterE(c[i - 1]), AfterJ(c[i - 1]), AfterS(c[i - 1]), c[i])
  BY DEF Linked, c
<1>3. i \in 1..Len(c) /\ i \in Nat /\ Len(o) \in Nat /\ Len(ns) \in Nat
  BY <1>1, <1>2
<1>4. CASE i <= Len(o)
  <2>1. i \in DOMAIN o /\ c[i] = o[i] /\ c[i - 1] = o[i - 1]
    BY <1>1, <1>2, <1>3, <1>4
  <2> QED BY <1>2, <2>1 DEF Linked
<1>5. CASE i = Len(o) + 1
  BY <1>1, <1>2, <1>3, <1>5, SMTT(30) DEF EndsAt, StartsAt
<1>6. CASE i > Len(o) + 1
  <2> DEFINE n == i - Len(o)
  <2>1. n \in 1..Len(ns) /\ n > 1 /\ c[i] = ns[n]
    BY <1>1, <1>3, <1>6
  <2>2. n \in Nat /\ i = Len(o) + n
    BY <1>3, <1>6
  <2> HIDE DEF n
  <2>3. n - 1 \in 1..Len(ns) /\ i - 1 = Len(o) + (n - 1)
    BY <1>3, <2>1, <2>2
  <2>4. c[i - 1] = ns[n - 1]
    BY <1>1, <2>3
  <2> QED BY <1>2, <2>1, <2>4 DEF Linked
<1> QED BY <1>3, <1>4, <1>5, <1>6

\* What is left of a linked run after its first frame, and where it begins.
LEMMA LinkedTail ==
  ASSUME NEW o \in Seq(WireFrame), o # <<>>, Linked(o)
  PROVE  /\ Linked(Tail(o))
         /\ StartsAt(Tail(o), AfterE(o[1]), AfterJ(o[1]), AfterS(o[1]))
<1>1. /\ Tail(o) \in Seq(WireFrame) /\ Len(Tail(o)) = Len(o) - 1
      /\ \A i \in 1..Len(Tail(o)) : Tail(o)[i] = o[i + 1]
  OBVIOUS
<1>2. ASSUME NEW i \in DOMAIN Tail(o), i > 1, Tail(o)[i].t # "DISCONNECT"
      PROVE  Fits(AfterE(Tail(o)[i - 1]), AfterJ(Tail(o)[i - 1]), AfterS(Tail(o)[i - 1]), Tail(o)[i])
  BY <1>1, <1>2 DEF Linked
<1>3. ASSUME Tail(o) # <<>>, Tail(o)[1].t # "DISCONNECT"
      PROVE  Fits(AfterE(o[1]), AfterJ(o[1]), AfterS(o[1]), Tail(o)[1])
  BY <1>1, <1>3 DEF Linked
<1> QED BY <1>2, <1>3 DEF Linked, StartsAt

\* What a driver d that becomes x adds to the wire: frames that lead from the
\* place where d writes to the place where x does.
Sends(r, d, x, ns) ==
    /\ ns \in Seq(WireFrame) /\ x.outbox = d.outbox \o ns
    /\ Linked(ns)
    /\ StartsAt(ns, OutE(d), OutJ(r, d), OutS(d)) /\ EndsAt(ns, OutE(x), OutJ(r, x), OutS(x))
    /\ ns = <<>> => OutE(d) = OutE(x) /\ OutJ(r, d) = OutJ(r, x) /\ OutS(d) = OutS(x)
    /\ \A i \in DOMAIN ns : FrameOK(r, x, ns[i]) /\ ns[i].t \notin {"VERSION", "DISCONNECT"}
    /\ \A i \in DOMAIN ns : ns[i].key[1] = OutE(d)
    /\ \A i, j \in DOMAIN ns : i < j => ns[i].t # "NEWKEYS"
    /\ \A i \in DOMAIN ns : ns[i].t = "EXT_INFO" => i = 1 /\ Epoch(d) = 0 /\ OutE(d) = 1
    /\ Epoch(d) <= Epoch(x) /\ OutE(d) <= OutE(x) /\ d.runner.advert <= x.runner.advert

\* The numbers of a place.
LEMMA PlaceType ==
  ASSUME NEW d \in DriverState
  PROVE  /\ Epoch(d) \in Nat /\ OutE(d) \in Nat /\ d.runner.advert \in Nat
         /\ d.codec.seqOut \in SeqNum /\ d.codec.seqIn \in SeqNum
<1>1. d.codec.outKey \in Key /\ d.runner.advert \in Nat
      /\ d.codec.seqOut \in SeqNum /\ d.codec.seqIn \in SeqNum
  BY DEF DriverState, Codec, Runner
<1>2. Epoch(d) \in Nat
  BY <1>1 DEF Key, Epoch
<1> QED BY <1>1, <1>2 DEF OutE

\* A frame stays one of a driver that moves on.
LEMMA FrameKept ==
  ASSUME NEW r, NEW d \in DriverState, NEW x \in DriverState, NEW f \in WireFrame,
         FrameOK(r, d, f),
         Epoch(d) <= Epoch(x), OutE(d) <= OutE(x), d.runner.advert <= x.runner.advert
  PROVE  FrameOK(r, x, f)
BY PlaceType DEF WireFrame, Key, FrameOK

\* The wire of a driver that sends, to a receiver that does not move.
LEMMA SendInOrder ==
  ASSUME NEW r, NEW d \in DriverState, NEW x \in DriverState, NEW y \in DriverState,
         NEW s, NEW s2, NEW ns,
         InOrder(r, d, y, s), Sends(r, d, x, ns), s \notin {"new", "closed"}, s2 \notin {"new", "closed"}
  PROVE  InOrder(r, x, y, s2)
<1> DEFINE o == d.outbox
           c == x.outbox
<1>1. /\ o \in Seq(WireFrame) /\ ns \in Seq(WireFrame) /\ c \in Seq(WireFrame) /\ c = o \o ns
      /\ Len(c) = Len(o) + Len(ns) /\ Len(o) \in Nat /\ Len(ns) \in Nat
      /\ \A i \in 1..Len(o) : c[i] = o[i]
      /\ \A i \in 1..Len(ns) : c[Len(o) + i] = ns[i]
  BY SMTT(30) DEF Sends, DriverState
<1>2. /\ Epoch(d) <= Epoch(x) /\ OutE(d) <= OutE(x) /\ d.runner.advert <= x.runner.advert
      /\ Epoch(d) \in Nat /\ Epoch(x) \in Nat /\ OutE(d) \in Nat /\ OutE(x) \in Nat
      /\ Epoch(y) \in Nat
  BY PlaceType DEF Sends
<1>3. ASSUME NEW i \in DOMAIN c
      PROVE  \/ i \in 1..Len(o) /\ c[i] = o[i]
             \/ (i - Len(o)) \in 1..Len(ns) /\ c[i] = ns[i - Len(o)]
  <2>1. i \in 1..(Len(o) + Len(ns))
    BY <1>1, <1>3
  <2>2. CASE i <= Len(o)
    BY <1>1, <2>1, <2>2
  <2>3. CASE i > Len(o)
    BY <1>1, <2>1, <2>3
  <2> QED BY <1>1, <2>1, <2>2, <2>3
<1> HIDE DEF c, o
<1>4. ASSUME NEW i \in DOMAIN c  PROVE FrameOK(r, x, c[i]) /\ c[i].t # "DISCONNECT"
                                       /\ (c[i].t = "VERSION" => i = 1)
  <2>1. CASE i \in 1..Len(o) /\ c[i] = o[i]
    BY <1>1, <2>1, <1>2, FrameKept DEF InOrder, o
  <2>2. CASE (i - Len(o)) \in 1..Len(ns) /\ c[i] = ns[i - Len(o)]
    BY <1>1, <2>2 DEF Sends
  <2> QED BY <1>3, <2>1, <2>2
<1>5. Linked(c)
  BY <1>1, LinkedConcat DEF InOrder, o, Sends
<1>6. CASE ns = <<>>
  BY <1>1, <1>6, <1>2, <1>4, <1>5 DEF Sends, InOrder, c, o
<1>7. CASE ns # <<>>
  <2>1. c # <<>> /\ Len(c) = Len(o) + Len(ns) /\ c[Len(c)] = ns[Len(ns)] /\ Len(ns) > 0
    BY <1>1, <1>7
  <2>2. EndsAt(c, OutE(x), OutJ(r, x), OutS(x))
    BY <1>7, <2>1 DEF Sends, EndsAt
  <2>3. c[1] = IF o = <<>> THEN ns[1] ELSE o[1]
    BY <1>1, <2>1
  <2>5. y.err = "none" => StartsAt(c, Epoch(y), InJ(y), y.codec.seqIn)
    <3>1. CASE o = <<>>
      BY <1>7, <2>3, <3>1 DEF InOrder, Sends, StartsAt, o
    <3>2. CASE o # <<>>
      BY <2>3, <3>2 DEF InOrder, StartsAt, o
    <3> QED BY <3>1, <3>2
  <2>6. y.phase = "AwaitingVersion" <=> c[1].t = "VERSION"
    BY <2>3, <1>1, <1>7 DEF InOrder, o, Sends
  <2>7. ASSUME NEW i \in DOMAIN c, NEW j \in DOMAIN c, i < j, c[i].t = "NEWKEYS"
        PROVE  c[i].key[1] < c[j].key[1]
    <3>1. CASE i \in 1..Len(o) /\ j \in 1..Len(o)
      <4>1. i \in DOMAIN o /\ j \in DOMAIN o /\ c[i] = o[i] /\ c[j] = o[j]
        BY <1>1, <3>1
      <4> QED BY <1>4, <2>7, <4>1 DEF InOrder, o
    <3>2. CASE i \in 1..Len(o) /\ (j - Len(o)) \in 1..Len(ns) /\ c[j] = ns[j - Len(o)]
      <4>2. c[j].key[1] = OutE(d)
        BY <1>1, <3>2 DEF Sends
      <4> QED BY <2>7, <1>1, <3>2, <4>2 DEF FrameOK, InOrder, o
    <3>3. CASE (i - Len(o)) \in 1..Len(ns) /\ c[i] = ns[i - Len(o)]
      <4>1. (j - Len(o)) \in 1..Len(ns) /\ i - Len(o) < j - Len(o)
        BY <1>1, <1>3, <2>7, <3>3
      <4> QED BY <2>7, <3>3, <4>1, <1>1 DEF Sends
    <3> QED BY <1>3, <3>1, <3>2, <3>3
  <2>8. Epoch(y) <= OutE(x)
    BY <1>2 DEF InOrder
  <2> QED BY <1>4, <1>5, <2>1, <2>2, <2>5, <2>6, <2>7, <2>8 DEF InOrder, c
<1> QED BY <1>6, <1>7

\* The wire to a receiver that has taken the first frame.
LEMMA ReceiveInOrder ==
  ASSUME NEW r, NEW d \in DriverState, NEW y \in DriverState, NEW x \in DriverState, NEW s,
         InOrder(r, d, y, s), d.outbox # <<>>, s # "new",
         x.phase # "AwaitingVersion", Epoch(x) <= OutE(d),
         x.err = "none" =>
            /\ y.err = "none" /\ d.outbox[1].t # "DISCONNECT"
            /\ Epoch(x) = AfterE(d.outbox[1])
            /\ InJ(x) = AfterJ(d.outbox[1]) /\ x.codec.seqIn = AfterS(d.outbox[1])
  PROVE  InOrder(r, Delivered(d), x, s)
<1> DEFINE z == Delivered(d)
           o == d.outbox
           c == z.outbox
<1>1. /\ o \in Seq(WireFrame) /\ c = Tail(o) /\ o # <<>>
      /\ z.runner = d.runner /\ z.codec = d.codec
  BY DEF Delivered, DriverState
<1>2. /\ c \in Seq(WireFrame) /\ Len(c) = Len(o) - 1 /\ Len(o) \in Nat /\ Len(o) > 0
      /\ \A i \in 1..Len(c) : c[i] = o[i + 1]
  BY <1>1
<1>3. OutE(z) = OutE(d) /\ OutJ(r, z) = OutJ(r, d) /\ OutS(z) = OutS(d) /\ Epoch(z) = Epoch(d)
  BY <1>1 DEF OutE, OutJ, OutS, Epoch
<1> HIDE DEF z, o, c
<1>4. ASSUME NEW i \in DOMAIN c  PROVE i + 1 \in DOMAIN o /\ c[i] = o[i + 1] /\ i \in Nat
  BY <1>2, <1>4
<1>5. ASSUME NEW i \in DOMAIN c
      PROVE  /\ FrameOK(r, z, c[i])
             /\ c[i].t = "DISCONNECT" => i = Len(c) /\ s = "closed"
             /\ c[i].t # "VERSION"
  BY <1>4, <1>1, <1>3, <1>2 DEF InOrder, o, FrameOK
<1>6. Linked(c) /\ StartsAt(c, AfterE(o[1]), AfterJ(o[1]), AfterS(o[1]))
  BY <1>1, LinkedTail DEF InOrder, o
<1>7. x.err = "none" => StartsAt(c, Epoch(x), InJ(x), x.codec.seqIn)
  BY <1>6 DEF o
<1>8. s # "closed" => EndsAt(c, OutE(z), OutJ(r, z), OutS(z))
  BY <1>2, <1>1, <1>3 DEF InOrder, EndsAt, o
<1>9. c = <<>> /\ x.err = "none" /\ s # "closed" =>
          Epoch(x) = OutE(z) /\ InJ(x) = OutJ(r, z) /\ x.codec.seqIn = OutS(z)
  <2>1. c = <<>> => Len(o) = 1
    BY <1>2
  <2> QED BY <1>1, <1>3, <2>1 DEF InOrder, EndsAt, o
<1>10. ASSUME NEW i \in DOMAIN c, NEW j \in DOMAIN c, i < j, c[i].t = "NEWKEYS", c[j].t # "DISCONNECT"
       PROVE  c[i].key[1] < c[j].key[1]
  BY <1>4, <1>10 DEF InOrder, o
<1>11. c # <<>> => c[1].t # "VERSION"
  BY <1>2, <1>5
<1> QED BY <1>3, <1>5, <1>6, <1>7, <1>8, <1>9, <1>10, <1>11 DEF InOrder, z, c

\* The wire to a receiver that has done something else.
LEMMA StayInOrder ==
  ASSUME NEW r, NEW d, NEW y, NEW x, NEW s, NEW s2, InOrder(r, d, y, s),
         x.phase = "AwaitingVersion" <=> y.phase = "AwaitingVersion",
         Epoch(x) = Epoch(y), x.err = "none" => y.err = "none" /\ InJ(x) = InJ(y) /\ x.codec.seqIn = y.codec.seqIn,
         s2 = "new" <=> s = "new", s2 = "closed" <=> s = "closed"
  PROVE  InOrder(r, d, x, s2)
  BY DEF InOrder

---------------------------------------------------------------------------
(* What is encoded.                                                        *)

\* The elements of a concatenation.
LEMMA ConcatFields ==
  ASSUME NEW S, NEW o \in Seq(S), NEW ns \in Seq(S)
  PROVE  /\ o \o ns \in Seq(S) /\ Len(o \o ns) = Len(o) + Len(ns)
         /\ Len(o) \in Nat /\ Len(ns) \in Nat
         /\ \A i \in 1..Len(o) : (o \o ns)[i] = o[i]
         /\ \A i \in 1..Len(ns) : (o \o ns)[Len(o) + i] = ns[i]
  OBVIOUS

\* What encode makes of each payload of a run.
LEMMA EncodeFields ==
  ASSUME NEW c \in Codec, NEW ms \in Seq(Message)
  PROVE  /\ Encode(c, ms) \in Seq(WireFrame)
         /\ Len(Encode(c, ms)) = Len(ms)
         /\ \A i \in 1..Len(ms) :
               /\ Encode(c, ms)[i].t = ms[i].t /\ Encode(c, ms)[i].body = ms[i].body
               /\ Encode(c, ms)[i].key = c.outKey
               /\ Encode(c, ms)[i].seq = (c.seqOut + i - 1) % SeqMod
               /\ Encode(c, ms)[i].z = (c.zOut = "on")
BY EncodeKinds DEF Encode

\* A run of messages that are no part of an exchange, in a place outside one.
LEMMA EncodePath ==
  ASSUME NEW c \in Codec, NEW ms \in Seq(Message), NEW e \in Nat, c.outKey = <<e, e>>,
         \A i \in 1..Len(ms) : ms[i].t \in AppTypes \cup {"EXT_INFO"}
  PROVE  /\ Linked(Encode(c, ms)) /\ StartsAt(Encode(c, ms), e, 0, c.seqOut)
         /\ EndsAt(Encode(c, ms), e, 0, (c.seqOut + Len(ms)) % SeqMod)
<1> DEFINE ns == Encode(c, ms)
           a == c.seqOut
<1>1. /\ ns \in Seq(WireFrame) /\ Len(ns) = Len(ms) /\ Len(ms) \in Nat
      /\ \A i \in 1..Len(ms) :
            /\ ns[i].t = ms[i].t /\ ns[i].key = c.outKey /\ ns[i].seq = (a + i - 1) % SeqMod
  BY EncodeFields
<1>2. a \in Nat /\ a < SeqMod /\ SeqMod \in Nat \ {0}
  BY SeqModAssumption DEF Codec, SeqNum
<1> HIDE DEF ns, a
<1>3. ASSUME NEW i \in 1..Len(ms)
      PROVE  /\ ~IsKexMsg(ns[i].t) /\ LegNo(ns[i].t) = 0 /\ ns[i].t \notin {"NEWKEYS", "VERSION"}
             /\ AfterE(ns[i]) = e /\ AfterJ(ns[i]) = 0 /\ AfterS(ns[i]) = (a + i) % SeqMod
  <2>1. /\ ~IsKexMsg(ns[i].t) /\ LegNo(ns[i].t) = 0 /\ ns[i].t \notin {"NEWKEYS", "VERSION"}
    BY <1>1 DEF IsKexMsg, KexMsg, LegNo, AppTypes, ItemTypes
  <2>3. AfterS(ns[i]) = (((a + i - 1) % SeqMod) + 1) % SeqMod
    BY <1>1, <2>1 DEF AfterS
  <2>4. a + i - 1 \in Nat /\ (a + i - 1) + 1 = a + i
    BY <1>2
  <2>5. (((a + i - 1) % SeqMod) + 1) % SeqMod = ((a + i - 1) + 1) % SeqMod
    BY <1>2, <2>4, ModStep
  <2> QED BY <2>1, <1>1, <2>3, <2>4, <2>5 DEF AfterE, AfterJ
<1>4. Linked(ns)
  <2>1. SUFFICES ASSUME NEW i \in DOMAIN ns, i > 1
                 PROVE  Fits(AfterE(ns[i - 1]), AfterJ(ns[i - 1]), AfterS(ns[i - 1]), ns[i])
    BY DEF Linked
  <2>2. i \in 1..Len(ms) /\ i - 1 \in 1..Len(ms)
    BY <1>1, <2>1
  <2>4. ns[i].seq = (a + (i - 1)) % SeqMod /\ ns[i].key = <<e, e>>
    BY <1>2, <2>2, <1>1
  <2> QED BY <1>3, <2>2, <2>4 DEF Fits
<1>5. StartsAt(ns, e, 0, a)
  <2>1. SUFFICES ASSUME ns # <<>>  PROVE Fits(e, 0, a, ns[1])
    BY DEF StartsAt
  <2>2. 1 \in 1..Len(ms)
    BY <1>1, <2>1
  <2>3. ns[1].seq = (a + 1 - 1) % SeqMod
    BY <1>1, <2>2
  <2>4. ns[1].seq = a
    BY <1>2, <2>3, ModSmall
  <2> QED BY <1>1, <1>3, <2>2, <2>4 DEF Fits
<1> QED BY <1>4, <1>5, <1>1, <1>3 DEF ns, a, EndsAt

\* No sequence number is used twice under a key, in a step of one driver.
Fresh(d, x) ==
    \/ /\ x.codec.outKey = d.codec.outKey
       /\ \/ x.codec.seqOut = d.codec.seqOut
          \/ \E n \in 1..Len(x.outbox) :
                /\ x.codec.seqOut = (d.codec.seqOut + n) % SeqMod
                /\ x.outbox[Len(x.outbox) - n + 1].seq = d.codec.seqOut
    \/ /\ x.codec.outKey[1] > d.codec.outKey[1]
       /\ x.codec.outKey[2] > d.codec.outKey[2]

\* Encoding uses the sequence numbers that follow, under the key in use.
LEMMA QueueFresh ==
  ASSUME NEW d \in DriverState, NEW x \in DriverState, NEW ms \in Seq(Message),
         x.outbox = d.outbox \o Encode(d.codec, ms), x.codec.outKey = d.codec.outKey,
         x.codec.seqOut = (d.codec.seqOut + Len(ms)) % SeqMod
  PROVE  Fresh(d, x)
<1> DEFINE o == d.outbox
           ns == Encode(d.codec, ms)
           n == Len(ms)
           a == d.codec.seqOut
<1>1. d.codec \in Codec /\ o \in Seq(WireFrame) /\ a \in SeqNum /\ n \in Nat
  BY PlaceType DEF DriverState
<1>2. a \in Nat /\ a < SeqMod /\ SeqMod \in Nat \ {0}
  BY <1>1, SeqModAssumption DEF SeqNum
<1>3. /\ ns \in Seq(WireFrame) /\ Len(ns) = n
      /\ \A i \in 1..n : ns[i].seq = (a + i - 1) % SeqMod
  BY <1>1, EncodeFields
<1>4. x.outbox = o \o ns /\ x.codec.seqOut = (a + n) % SeqMod
  OBVIOUS
<1> HIDE DEF o, ns, n, a
<1>5. CASE n = 0
  BY <1>2, <1>4, <1>5, ModSmall DEF Fresh, a
<1>6. CASE n > 0
  <2>1. ns[1].seq = (a + 1 - 1) % SeqMod
    BY <1>1, <1>3, <1>6
  <2>2. ns[1].seq = a
    BY <1>2, <2>1, ModSmall, SMTT(30)
  <2>3. Len(o \o ns) = Len(o) + n /\ (o \o ns)[Len(o) + 1] = ns[1]
    <3>1. ns \in Seq(WireFrame) /\ Len(ns) = n /\ 1 \in 1..n
      BY <1>1, <1>3, <1>6
    <3>2. o \in Seq(WireFrame)
      BY <1>1
    <3>3. Len(o \o ns) = Len(o) + Len(ns) /\ \A i \in 1..Len(ns) : (o \o ns)[Len(o) + i] = ns[i]
      BY <3>1, <3>2, ConcatFields
    <3> QED BY <3>1, <3>3
  <2>4. Len(o) \in Nat
    BY <1>1
  <2>5. n \in 1..Len(o \o ns) /\ Len(o \o ns) - n + 1 = Len(o) + 1
    BY <1>1, <1>6, <2>3, <2>4
  <2> QED BY <1>4, <2>2, <2>3, <2>5 DEF Fresh, a
<1> QED BY <1>1, <1>5, <1>6

---------------------------------------------------------------------------
(***************************************************************************)
(* The payloads of the two frontends.  They are numbered: the first two    *)
(* authenticate, and the body of each later one is its number.             *)
(***************************************************************************)

\* The nth payload r submits, and the number of a payload.
Item(r, n) == IF n = 1 THEN Msg(IF r = "client" THEN "SERVICE_REQUEST" ELSE "SERVICE_ACCEPT")
              ELSE IF n = 2 THEN Msg(IF r = "client" THEN "USERAUTH_REQUEST" ELSE "USERAUTH_SUCCESS")
              ELSE [t |-> "APP", body |-> <<n - 1, n - 1>>]

IsItem(m) == m.t \in ItemTypes

ItemNo(m) == IF m.t \in {"SERVICE_REQUEST", "SERVICE_ACCEPT"} THEN 1
             ELSE IF m.t \in {"USERAUTH_REQUEST", "USERAUTH_SUCCESS"} THEN 2
             ELSE m.body[1] + 1

\* m is the nth payload, with whatever it was framed in.
IsNth(r, n, m) == m.t = Item(r, n).t /\ m.body = Item(r, n).body

\* The payloads among the messages s are the ones from a + 1 to b, in order.
Carries(r, s, a, b) ==
    /\ a <= b
    /\ \A i \in DOMAIN s : IsItem(s[i]) => ItemNo(s[i]) \in (a + 1)..b /\ IsNth(r, ItemNo(s[i]), s[i])
    /\ \A i, j \in DOMAIN s : i < j /\ IsItem(s[i]) /\ IsItem(s[j]) => ItemNo(s[i]) < ItemNo(s[j])
    /\ \A n \in (a + 1)..b : \E i \in DOMAIN s : IsItem(s[i]) /\ ItemNo(s[i]) = n

\* A payload has its number.
LEMMA ItemNumber ==
  ASSUME NEW r, NEW n \in Nat \ {0}
  PROVE  IsItem(Item(r, n)) /\ ItemNo(Item(r, n)) = n /\ Item(r, n) \in Message
<1>1. CASE n = 1
  BY <1>1 DEF Item, IsItem, ItemTypes, ItemNo, Msg, Message, MsgTypes, NoKey, Key
<1>2. CASE n = 2
  BY <1>2 DEF Item, IsItem, ItemTypes, ItemNo, Msg, Message, MsgTypes, NoKey, Key
<1>3. CASE n > 2
  BY <1>3 DEF Item, IsItem, ItemTypes, ItemNo, Message, MsgTypes, Key
<1> QED BY <1>1, <1>2, <1>3

\* Nothing, and messages that are not payloads, carry nothing.
LEMMA CarriesNone ==
  ASSUME NEW r, NEW s, NEW a \in Nat, \A i \in DOMAIN s : ~IsItem(s[i])
  PROVE  Carries(r, s, a, a)
  BY DEF Carries

\* A payload alone carries itself.
LEMMA CarriesOne ==
  ASSUME NEW r, NEW m, NEW a \in Nat, IsItem(m), ItemNo(m) = a + 1, IsNth(r, a + 1, m)
  PROVE  Carries(r, <<m>>, a, a + 1)
<1>1. DOMAIN <<m>> = {1} /\ <<m>>[1] = m
  OBVIOUS
<1> HIDE DEF IsItem, ItemNo
<1> QED BY <1>1 DEF Carries

\* Two runs of messages together.
LEMMA CarriesConcat ==
  ASSUME NEW r, NEW S, NEW s \in Seq(S), NEW z \in Seq(S), NEW a \in Nat, NEW b \in Nat, NEW c \in Nat,
         Carries(r, s, a, b), Carries(r, z, b, c)
  PROVE  Carries(r, s \o z, a, c)
<1> DEFINE q == s \o z
<1>1. /\ Len(q) = Len(s) + Len(z) /\ DOMAIN q = 1..(Len(s) + Len(z)) /\ Len(s) \in Nat /\ Len(z) \in Nat
      /\ \A i \in 1..Len(s) : q[i] = s[i]
      /\ \A i \in 1..Len(z) : q[Len(s) + i] = z[i]
      /\ DOMAIN s = 1..Len(s) /\ DOMAIN z = 1..Len(z)
  OBVIOUS
<1> HIDE DEF q
<1>2. ASSUME NEW i \in DOMAIN q
      PROVE  \/ i \in DOMAIN s /\ q[i] = s[i]
             \/ (i - Len(s)) \in DOMAIN z /\ q[i] = z[i - Len(s)]
  <2>1. CASE i <= Len(s)
    BY <1>1, <2>1
  <2>2. CASE i > Len(s)
    BY <1>1, <2>2
  <2> QED BY <1>1, <2>1, <2>2
<1>3. a <= b /\ b <= c
  BY DEF Carries
<1>4. ASSUME NEW i \in DOMAIN q, IsItem(q[i])
      PROVE  /\ ItemNo(q[i]) \in (a + 1)..c /\ IsNth(r, ItemNo(q[i]), q[i])
             /\ i \in DOMAIN s => ItemNo(q[i]) \in (a + 1)..b
             /\ i \notin DOMAIN s => ItemNo(q[i]) \in (b + 1)..c
  <2>1. CASE i \in DOMAIN s /\ q[i] = s[i]
    BY <1>3, <1>4, <2>1 DEF Carries
  <2>2. CASE (i - Len(s)) \in DOMAIN z /\ q[i] = z[i - Len(s)]
    <3>1. i \notin DOMAIN s
      BY <1>1, <2>2
    <3> QED BY <1>3, <3>1, <1>4, <2>2 DEF Carries
  <2> QED BY <1>2, <2>1, <2>2
<1>5. ASSUME NEW i \in DOMAIN q, NEW j \in DOMAIN q, i < j, IsItem(q[i]), IsItem(q[j])
      PROVE  ItemNo(q[i]) < ItemNo(q[j])
  <2>1. CASE i \in DOMAIN s /\ j \in DOMAIN s
    BY <1>1, <2>1, <1>5 DEF Carries
  <2>2. CASE i \in DOMAIN s /\ j \notin DOMAIN s
    BY <1>4, <1>5, <2>2
  <2>3. CASE i \notin DOMAIN s
    <3>2. /\ (i - Len(s)) \in DOMAIN z /\ q[i] = z[i - Len(s)]
          /\ (j - Len(s)) \in DOMAIN z /\ q[j] = z[j - Len(s)]
      BY <1>2, <2>3, <1>1, <1>5
    <3> QED BY <1>5, <3>2, <1>1 DEF Carries
  <2> QED BY <2>1, <2>2, <2>3
<1>6. ASSUME NEW n \in (a + 1)..c  PROVE \E i \in DOMAIN q : IsItem(q[i]) /\ ItemNo(q[i]) = n
  <2>1. CASE n <= b
    <3>1. PICK i \in DOMAIN s : IsItem(s[i]) /\ ItemNo(s[i]) = n
      BY <2>1 DEF Carries
    <3> QED BY <3>1, <1>1
  <2>2. CASE n > b
    <3>1. PICK i \in DOMAIN z : IsItem(z[i]) /\ ItemNo(z[i]) = n
      BY <2>2 DEF Carries
    <3> QED BY <3>1, <1>1
  <2> QED BY <2>1, <2>2
<1>7. a <= c
  BY <1>3
<1> QED BY <1>4, <1>5, <1>6, <1>7 DEF Carries, q

\* The first message of a run, and the rest.
LEMMA CarriesTail ==
  ASSUME NEW r, NEW S, NEW s \in Seq(S), NEW a \in Nat, NEW b \in Nat, Carries(r, s, a, b), s # <<>>
  PROVE  /\ IsItem(s[1]) => IsNth(r, a + 1, s[1]) /\ a + 1 <= b /\ Carries(r, Tail(s), a + 1, b)
         /\ ~IsItem(s[1]) => Carries(r, Tail(s), a, b)
<1> DEFINE z == Tail(s)
<1>1. /\ z \in Seq(S) /\ DOMAIN z = 1..(Len(s) - 1) /\ Len(s) \in Nat /\ Len(s) > 0
      /\ \A i \in 1..(Len(s) - 1) : z[i] = s[i + 1]
      /\ DOMAIN s = 1..Len(s)
  OBVIOUS
<1> HIDE DEF z
<1>2. ASSUME NEW i \in DOMAIN z  PROVE i + 1 \in DOMAIN s /\ z[i] = s[i + 1] /\ i \in Nat \ {0}
  BY <1>1, <1>2
<1>3. ASSUME NEW i \in DOMAIN s, i # 1  PROVE i - 1 \in DOMAIN z /\ z[i - 1] = s[i]
  BY <1>1, <1>3
<1>4. 1 \in DOMAIN s
  BY <1>1
<1>5. ASSUME NEW i \in DOMAIN z, NEW j \in DOMAIN z, i < j, IsItem(z[i]), IsItem(z[j])
      PROVE  ItemNo(z[i]) < ItemNo(z[j])
  BY <1>2, <1>5 DEF Carries
<1>6. ASSUME IsItem(s[1])
      PROVE  IsNth(r, a + 1, s[1]) /\ a + 1 <= b /\ Carries(r, z, a + 1, b)
  <2>1. ItemNo(s[1]) \in (a + 1)..b /\ IsNth(r, ItemNo(s[1]), s[1])
    BY <1>4, <1>6 DEF Carries
  <2>2. PICK i \in DOMAIN s : IsItem(s[i]) /\ ItemNo(s[i]) = a + 1
    BY <2>1 DEF Carries
  <2>3. ASSUME NEW n \in DOMAIN s, n # 1, IsItem(s[n])  PROVE ItemNo(s[1]) < ItemNo(s[n])
    <3>1. 1 < n
      BY <1>1, <2>3
    <3> QED BY <1>4, <1>6, <2>3, <3>1 DEF Carries
  <2>4. ItemNo(s[1]) = a + 1
    <3>1. CASE i = 1
      BY <2>2, <3>1
    <3>2. CASE i # 1
      BY <2>2, <2>3, <3>2, <2>1
    <3> QED BY <3>1, <3>2
  <2>5. ASSUME NEW n \in DOMAIN z, IsItem(z[n])
        PROVE  ItemNo(z[n]) \in ((a + 1) + 1)..b /\ IsNth(r, ItemNo(z[n]), z[n])
    BY <1>2, <2>5, <2>3, <2>4, SMTT(30) DEF Carries
  <2>6. ASSUME NEW n \in ((a + 1) + 1)..b
        PROVE  \E h \in DOMAIN z : IsItem(z[h]) /\ ItemNo(z[h]) = n
    <3>2. PICK h \in DOMAIN s : IsItem(s[h]) /\ ItemNo(s[h]) = n
      BY DEF Carries
    <3>3. h # 1
      BY <2>4, <3>2
    <3> QED BY <1>3, <3>2, <3>3
  <2>7. a + 1 <= b
    BY <2>1
  <2> QED BY <1>5, <2>1, <2>4, <2>5, <2>6, <2>7 DEF Carries
<1>7. ASSUME ~IsItem(s[1])  PROVE Carries(r, z, a, b)
  <2>1. ASSUME NEW n \in DOMAIN z, IsItem(z[n])
        PROVE  ItemNo(z[n]) \in (a + 1)..b /\ IsNth(r, ItemNo(z[n]), z[n])
    BY <1>2, <2>1 DEF Carries
  <2>2. ASSUME NEW n \in (a + 1)..b
        PROVE  \E h \in DOMAIN z : IsItem(z[h]) /\ ItemNo(z[h]) = n
    <3>1. PICK h \in DOMAIN s : IsItem(s[h]) /\ ItemNo(s[h]) = n
      BY DEF Carries
    <3>2. h # 1
      BY <1>7, <3>1
    <3> QED BY <1>3, <3>1, <3>2
  <2>3. a <= b
    BY DEF Carries
  <2> QED BY <1>5, <2>1, <2>2, <2>3 DEF Carries
<1> QED BY <1>6, <1>7 DEF z

\* Framing does not change what a run of messages carries.
LEMMA CarriesEncode ==
  ASSUME NEW r, NEW c \in Codec, NEW ms \in Seq(Message), NEW a \in Nat, NEW b \in Nat,
         Carries(r, ms, a, b)
  PROVE  Carries(r, Encode(c, ms), a, b)
<1> DEFINE ns == Encode(c, ms)
<1>1. /\ DOMAIN ns = DOMAIN ms
      /\ \A i \in DOMAIN ms : ns[i].t = ms[i].t /\ ns[i].body = ms[i].body
  BY EncodeFields
<1> HIDE DEF ns
<1>2. \A i \in DOMAIN ms : /\ IsItem(ns[i]) <=> IsItem(ms[i])
                           /\ ItemNo(ns[i]) = ItemNo(ms[i])
                           /\ \A n : IsNth(r, n, ns[i]) <=> IsNth(r, n, ms[i])
  BY <1>1 DEF IsItem, ItemNo, IsNth
<1> QED BY <1>1, <1>2 DEF Carries, ns

---------------------------------------------------------------------------
(* What the methods leave behind, field by field.                          *)

\* encode moves the outbound sequence number on.
LEMMA EncodedFields ==
  ASSUME NEW c \in Codec, NEW ms \in Seq(Message)
  PROVE  /\ Encoded(c, ms) \in Codec
         /\ Encoded(c, ms).outKey = c.outKey /\ Encoded(c, ms).inKey = c.inKey
         /\ Encoded(c, ms).zOut = c.zOut /\ Encoded(c, ms).zIn = c.zIn
         /\ Encoded(c, ms).seqIn = c.seqIn
         /\ Encoded(c, ms).seqOut = (c.seqOut + Len(ms)) % SeqMod
BY EncodedType DEF Encoded, Codec

\* decode moves the inbound sequence number on.
LEMMA DecodedFields ==
  ASSUME NEW c \in Codec
  PROVE  /\ Decoded(c) \in Codec
         /\ Decoded(c).outKey = c.outKey /\ Decoded(c).inKey = c.inKey
         /\ Decoded(c).zOut = c.zOut /\ Decoded(c).zIn = c.zIn
         /\ Decoded(c).seqOut = c.seqOut
         /\ Decoded(c).seqIn = (c.seqIn + 1) % SeqMod
BY DecodedType DEF Decoded, Codec

\* Only the keys, the number and the compressor of a codec matter to what it encodes.
LEMMA EncodeSame ==
  ASSUME NEW c, NEW b, NEW ms, c.outKey = b.outKey, c.seqOut = b.seqOut, c.zOut = b.zOut
  PROVE  Encode(c, ms) = Encode(b, ms)
  BY DEF Encode

\* encode_and_queue.
LEMMA QueueEffect ==
  ASSUME NEW d \in DriverState, NEW ms \in Seq(Message)
  PROVE  LET x == EncodeAndQueue(d, ms)
         IN  /\ x \in DriverState
             /\ x.outbox = d.outbox \o Encode(d.codec, ms) /\ x.codec = Encoded(d.codec, ms)
             /\ x.runner = d.runner /\ x.phase = d.phase
             /\ x.deferred = d.deferred /\ x.deferredOut = d.deferredOut
             /\ x.events = d.events /\ x.auth = d.auth /\ x.err = d.err
BY EncodeAndQueueType DEF EncodeAndQueue, DriverState

\* What a driver does with a KexAdvance.
LEMMA ApplyEffect ==
  ASSUME NEW d \in DriverState, NEW adv \in AdvanceType, adv.err = "none"
  PROVE  LET x == Apply(d, adv)
         IN  /\ x \in DriverState
             /\ x.outbox = d.outbox \o Encode(adv.c, adv.out) /\ x.codec = Encoded(adv.c, adv.out)
             /\ x.runner = adv.k /\ x.phase = d.phase
             /\ x.deferred = d.deferred /\ x.deferredOut = d.deferredOut
             /\ x.events = d.events /\ x.auth = d.auth /\ x.err = d.err
<1> DEFINE y == [d EXCEPT !.runner = adv.k, !.codec = adv.c]
<1>1. adv.k \in Runner /\ adv.c \in Codec /\ adv.out \in Seq(Message)
  BY DEF AdvanceType
<1>2. y \in DriverState
  BY <1>1 DEF DriverState
<1>3. /\ y.outbox = d.outbox /\ y.runner = adv.k /\ y.codec = adv.c
      /\ y.deferred = d.deferred /\ y.deferredOut = d.deferredOut
      /\ y.phase = d.phase /\ y.err = d.err /\ y.events = d.events /\ y.auth = d.auth
  BY DEF DriverState
<1>4. Apply(d, adv) = EncodeAndQueue(y, adv.out)
  BY DEF Apply
<1> HIDE DEF y
<1>5. LET x == EncodeAndQueue(y, adv.out)
      IN  /\ x \in DriverState
          /\ x.outbox = y.outbox \o Encode(y.codec, adv.out) /\ x.codec = Encoded(y.codec, adv.out)
          /\ x.runner = y.runner /\ x.phase = y.phase
          /\ x.deferred = y.deferred /\ x.deferredOut = y.deferredOut
          /\ x.events = y.events /\ x.auth = y.auth /\ x.err = y.err
  BY <1>1, <1>2, QueueEffect, Zenon
<1> QED BY <1>3, <1>4, <1>5, Zenon

\* A driver that fails changes nothing else.
LEMMA FailEffect ==
  ASSUME NEW d \in DriverState, NEW why \in Errors
  PROVE  LET x == Fail(d, why)
         IN  /\ x \in DriverState /\ x.err = why
             /\ x.outbox = d.outbox /\ x.codec = d.codec /\ x.runner = d.runner /\ x.phase = d.phase
             /\ x.deferred = d.deferred /\ x.deferredOut = d.deferredOut
             /\ x.events = d.events /\ x.auth = d.auth
  BY DEF Fail, DriverState

\* The two drains at the end of an exchange.
LEMMA DoneEffect ==
  ASSUME NEW d \in DriverState
  PROVE  LET x == ExchangeDone(d)
         IN  /\ x \in DriverState
             /\ x.outbox = d.outbox \o Encode(d.codec, d.deferredOut)
             /\ x.codec = Encoded(d.codec, d.deferredOut)
             /\ x.runner = IF d.deferred = <<>> THEN d.runner ELSE CloseExtInfoWindow(d.runner)
             /\ x.phase = IF d.phase = "Kex" THEN "PostKex" ELSE d.phase
             /\ x.deferred = <<>> /\ x.deferredOut = <<>>
             /\ x.events = (IF d.phase = "Kex" THEN Append(d.events, Msg("HandshakeComplete"))
                                               ELSE d.events) \o d.deferred
             /\ x.auth = d.auth /\ x.err = d.err
<1> DEFINE c == IF d.phase # "Kex" THEN d
                ELSE [d EXCEPT !.phase = "PostKex", !.events = Append(@, Msg("HandshakeComplete"))]
           b == [c EXCEPT !.deferredOut = <<>>]
           q == EncodeAndQueue(b, c.deferredOut)
<1>1. /\ c \in DriverState /\ c.outbox = d.outbox /\ c.codec = d.codec /\ c.runner = d.runner
      /\ c.phase = (IF d.phase = "Kex" THEN "PostKex" ELSE d.phase)
      /\ c.deferred = d.deferred /\ c.deferredOut = d.deferredOut
      /\ c.events = (IF d.phase = "Kex" THEN Append(d.events, Msg("HandshakeComplete")) ELSE d.events)
      /\ c.auth = d.auth /\ c.err = d.err
  <2>2. d.events \in Seq(Message)
    BY DEF DriverState
  <2>3. Append(d.events, Msg("HandshakeComplete")) \in Seq(Message)
    BY MsgType, <2>2 DEF MsgTypes
  <2> QED BY <2>3 DEF DriverState
<1>2. ExchangeDone(d) = DrainDeferred(q)
  BY DEF ExchangeDone, DrainDeferredOut
<1> HIDE DEF c
<1>3. /\ b \in DriverState /\ b.outbox = d.outbox /\ b.codec = d.codec /\ b.runner = d.runner
      /\ b.phase = c.phase /\ b.deferred = d.deferred /\ b.deferredOut = <<>>
      /\ b.events = c.events /\ b.auth = d.auth /\ b.err = d.err
  <2>1. <<>> \in Seq(Message)
    OBVIOUS
  <2> QED BY <1>1, <2>1 DEF DriverState
<1>4. d.deferredOut \in Seq(Message) /\ d.deferred \in Seq(Message) /\ c.events \in Seq(Message)
  BY <1>1 DEF DriverState
<1> HIDE DEF b
<1>5. /\ q \in DriverState /\ q.outbox = d.outbox \o Encode(d.codec, d.deferredOut)
      /\ q.codec = Encoded(d.codec, d.deferredOut) /\ q.runner = d.runner
      /\ q.phase = c.phase /\ q.deferred = d.deferred /\ q.deferredOut = <<>>
      /\ q.events = c.events /\ q.auth = d.auth /\ q.err = d.err
  <2>1. /\ q \in DriverState /\ q.outbox = b.outbox \o Encode(b.codec, d.deferredOut)
        /\ q.codec = Encoded(b.codec, d.deferredOut) /\ q.runner = b.runner
        /\ q.phase = b.phase /\ q.deferred = b.deferred /\ q.deferredOut = b.deferredOut
        /\ q.events = b.events /\ q.auth = b.auth /\ q.err = b.err
    <3>1. q = EncodeAndQueue(b, d.deferredOut) /\ b \in DriverState /\ d.deferredOut \in Seq(Message)
      BY <1>1, <1>3, <1>4
    <3> HIDE DEF q
    <3> QED BY <3>1, QueueEffect, Zenon
  <2> HIDE DEF q
  <2> QED BY <1>3, <2>1, Zenon
<1> HIDE DEF q
<1>6. CASE d.deferred = <<>>
  <2>2. c.events \o d.deferred = c.events
    BY <1>4, <1>6
  <2> QED BY <1>1, <1>2, <1>5, <1>6, <2>2 DEF DrainDeferred
<1>7. CASE d.deferred # <<>>
  <2> DEFINE z == [q EXCEPT !.events = @ \o q.deferred, !.deferred = <<>>,
                            !.runner = CloseExtInfoWindow(@)]
  <2>1. DrainDeferred(q) = z
    BY <1>5, <1>7 DEF DrainDeferred
  <2>2. z \in DriverState
    BY <1>5, <2>1, DrainDeferredType
  <2>3. /\ z.outbox = q.outbox /\ z.codec = q.codec /\ z.runner = CloseExtInfoWindow(q.runner)
        /\ z.phase = q.phase /\ z.deferred = <<>> /\ z.deferredOut = q.deferredOut
        /\ z.events = q.events \o q.deferred /\ z.auth = q.auth /\ z.err = q.err
    BY <1>5 DEF DriverState
  <2> HIDE DEF z
  <2> QED BY <1>1, <1>2, <1>5, <1>7, <2>1, <2>2, <2>3
<1> QED BY <1>6, <1>7

---------------------------------------------------------------------------
(* What on_packet answers.                                                 *)

\* k without its EXT_INFO window, field by field.
LEMMA WindowFields ==
  ASSUME NEW k \in Runner
  PROVE  LET q == CloseExtInfoWindow(k)
         IN  /\ q \in Runner /\ q.phase = k.phase /\ q.advert = k.advert /\ q.peerAdvert = k.peerAdvert
             /\ q.h = k.h /\ q.sid = k.sid /\ q.flags = k.flags \ {"accept_ext_info_now"}
BY DEF CloseExtInfoWindow, Runner

\* The client's answer to the server's KEXINIT.
KexinitAnswer(r) == IF r = "server" THEN <<>>
                    ELSE <<Msg(IF Gex THEN "GEX_REQUEST" ELSE "KEX_INIT")>>

KexinitPhase(r) == IF r = "client" /\ Gex THEN "GexClientAwaitGroup" ELSE "Negotiated"

\* on_packet of the peer's KEXINIT, when it is due.
LEMMA OnKexinit ==
  ASSUME NEW r \in Role, NEW k \in Runner, NEW c \in Codec, NEW m \in Message,
         k.phase = "SentKexInit", m.t = "KEXINIT",
         ~(StrictKex /\ k.sid = NoKey /\ c.seqIn # 1)
  PROVE  LET a == OnPacket(r, k, c, m)
         IN  /\ a \in AdvanceType /\ a.err = "none" /\ a.c = c /\ a.out = KexinitAnswer(r)
             /\ a.k.phase = KexinitPhase(r) /\ a.k.advert = k.advert /\ a.k.peerAdvert = m.body[1]
             /\ a.k.h = k.h /\ a.k.sid = k.sid
             /\ "strict_kex" \in a.k.flags <=> ("strict_kex" \in k.flags \/ StrictKex)
             /\ k.advert = 1 => "ext_info_enabled" \in a.k.flags
             /\ "peer_newkeys" \in a.k.flags <=> "peer_newkeys" \in k.flags
<1> DEFINE q == CloseExtInfoWindow(k)
           a == OnPacket(r, k, c, m)
<1>1. /\ q \in Runner /\ q.phase = k.phase /\ q.advert = k.advert /\ q.peerAdvert = k.peerAdvert
      /\ q.h = k.h /\ q.sid = k.sid /\ q.flags = k.flags \ {"accept_ext_info_now"}
  BY WindowFields
<1>2. a = HandlePeerKexinit(r, q, c, m)
  BY <1>1 DEF OnPacket
<1>3. a \in AdvanceType
  BY OnPacketType
<1> HIDE DEF q
<1> DEFINE n == [q EXCEPT !.phase = KexinitPhase(r), !.peerAdvert = m.body[1], !.flags = Negotiate(q, m)]
<1>4. a = Advance(n, c, KexinitAnswer(r))
  BY <1>1, <1>2 DEF Role, HandlePeerKexinit, KexinitPhase, KexinitAnswer
<1>5. /\ n.phase = KexinitPhase(r) /\ n.advert = q.advert /\ n.peerAdvert = m.body[1]
      /\ n.h = q.h /\ n.sid = q.sid /\ n.flags = Negotiate(q, m)
  BY <1>1 DEF Runner
<1>6. /\ "strict_kex" \in n.flags <=> ("strict_kex" \in q.flags \/ StrictKex)
      /\ q.advert = 1 => "ext_info_enabled" \in n.flags
      /\ "peer_newkeys" \in n.flags <=> "peer_newkeys" \in q.flags
  BY <1>5 DEF Negotiate, FirstKex
<1> HIDE DEF n, a
<1> QED BY <1>1, <1>3, <1>5, <1>6, <1>4 DEF a, Advance

\* The end of our side of an exchange, while the peer's NEWKEYS is to come.
LEMMA OnFinish ==
  ASSUME NEW k \in Runner, NEW c \in Codec, NEW h \in Key, NEW out, "peer_newkeys" \notin k.flags
  PROVE  LET a == FinishExchange(k, c, h, out)
         IN  /\ a.err = "none" /\ a.c = c /\ a.out = out
             /\ a.k.phase = "AwaitingPeerNewKeys" /\ a.k.advert = k.advert
             /\ a.k.peerAdvert = k.peerAdvert /\ a.k.h = h
             /\ a.k.sid = (IF k.sid = NoKey THEN h ELSE k.sid)
             /\ a.k.flags = k.flags \cup {"sent_newkeys"}
<1> DEFINE x == [k EXCEPT !.h = h, !.sid = IF @ = NoKey THEN h ELSE @,
                          !.flags = @ \cup {"sent_newkeys"},
                          !.phase = IF "peer_newkeys" \in k.flags THEN "Completed"
                                    ELSE "AwaitingPeerNewKeys"]
<1>1. /\ x.phase = "AwaitingPeerNewKeys" /\ x.advert = k.advert /\ x.peerAdvert = k.peerAdvert
      /\ x.h = h /\ x.sid = (IF k.sid = NoKey THEN h ELSE k.sid)
      /\ x.flags = k.flags \cup {"sent_newkeys"}
  BY DEF Runner
<1>2. FinishExchange(k, c, h, out) = Advance(x, MaybeInstall(x, c), out)
  BY DEF FinishExchange
<1> HIDE DEF x
<1> QED BY <1>1, <1>2 DEF Advance, MaybeInstall

\* The messages after which our NEWKEYS goes out: the client's last one before
\* its own, and the server's reply.
FinishLeg(r, k, t) ==
    \/ r = "server" /\ ~Gex /\ k.phase = "Negotiated" /\ t = "KEX_INIT"
    \/ r = "client" /\ ~Gex /\ k.phase = "Negotiated" /\ t = "KEX_REPLY"
    \/ r = "server" /\ Gex /\ k.phase = "GexServerAwaitInit" /\ t = "GEX_INIT"
    \/ r = "client" /\ Gex /\ k.phase = "GexClientAwaitReply" /\ t = "GEX_REPLY"

FinishAnswer(r, k) ==
    IF r = "server" THEN <<[t |-> IF Gex THEN "GEX_REPLY" ELSE "KEX_REPLY",
                            body |-> <<k.peerAdvert, k.advert>>], Msg("NEWKEYS")>>
    ELSE <<Msg("NEWKEYS")>>

\* on_packet of the leg that completes the secrets, when it is due.
LEMMA OnLastLeg ==
  ASSUME NEW r \in Role, NEW k \in Runner, NEW c \in Codec, NEW m \in Message,
         FinishLeg(r, k, m.t), "peer_newkeys" \notin k.flags, k.peerAdvert = k.advert,
         r = "client" => m.body = <<k.advert, k.advert>>
  PROVE  LET a == OnPacket(r, k, c, m)
         IN  /\ a \in AdvanceType /\ a.err = "none" /\ a.c = c /\ a.out = FinishAnswer(r, k)
             /\ a.k.phase = "AwaitingPeerNewKeys" /\ a.k.advert = k.advert
             /\ a.k.peerAdvert = k.peerAdvert /\ a.k.h = <<k.advert, k.advert>>
             /\ a.k.sid = (IF k.sid = NoKey THEN <<k.advert, k.advert>> ELSE k.sid)
             /\ a.k.flags = (k.flags \ {"accept_ext_info_now"}) \cup {"sent_newkeys"}
<1> DEFINE q == CloseExtInfoWindow(k)
           a == OnPacket(r, k, c, m)
           h == <<k.advert, k.advert>>
<1>1. /\ q \in Runner /\ q.phase = k.phase /\ q.advert = k.advert /\ q.peerAdvert = k.peerAdvert
      /\ q.h = k.h /\ q.sid = k.sid /\ q.flags = k.flags \ {"accept_ext_info_now"}
  BY WindowFields
<1>2. a \in AdvanceType
  BY OnPacketType
<1>3. h \in Key
  BY DEF Runner, Key
<1>4. \/ r = "server" /\ a = ServerReply(q, c, IF Gex THEN "GEX_REPLY" ELSE "KEX_REPLY")
      \/ r = "client" /\ a = ClientFinish(q, c, m)
  <2>2. CASE r = "server" /\ ~Gex
    BY <1>1, <2>2 DEF OnPacket, FinishLeg
  <2>3. CASE r = "server" /\ Gex
    BY <1>1, <2>3 DEF OnPacket, FinishLeg
  <2>4. CASE r = "client" /\ ~Gex
    BY <1>1, <2>4 DEF OnPacket, FinishLeg
  <2>5. CASE r = "client" /\ Gex
    BY <1>1, <2>5 DEF OnPacket, FinishLeg
  <2> QED BY <2>2, <2>3, <2>4, <2>5 DEF Role
<1> HIDE DEF q, a
<1>5. a = FinishExchange(q, c, h, FinishAnswer(r, k))
  <2>1. CASE r = "server"
    BY <1>1, <1>4, <2>1 DEF ServerReply, FinishAnswer
  <2>2. CASE r = "client"
    BY <1>1, <1>4, <2>2 DEF ClientFinish, FinishAnswer
  <2> QED BY <2>1, <2>2 DEF Role
<1> HIDE DEF h
<1> QED BY <1>1, <1>2, <1>3, <1>5, OnFinish DEF a, h

\* The longer exchange's middle legs.
LEMMA OnGexLeg ==
  ASSUME NEW r \in Role, NEW k \in Runner, NEW c \in Codec, NEW m \in Message, Gex,
         \/ r = "server" /\ k.phase = "Negotiated" /\ m.t = "GEX_REQUEST"
         \/ r = "client" /\ k.phase = "GexClientAwaitGroup" /\ m.t = "GEX_GROUP"
  PROVE  LET a == OnPacket(r, k, c, m)
         IN  /\ a \in AdvanceType /\ a.err = "none" /\ a.c = c
             /\ a.out = <<Msg(IF r = "server" THEN "GEX_GROUP" ELSE "GEX_INIT")>>
             /\ a.k.phase = (IF r = "server" THEN "GexServerAwaitInit" ELSE "GexClientAwaitReply")
             /\ a.k.advert = k.advert /\ a.k.peerAdvert = k.peerAdvert /\ a.k.h = k.h /\ a.k.sid = k.sid
             /\ a.k.flags = k.flags \ {"accept_ext_info_now"}
<1> DEFINE q == CloseExtInfoWindow(k)
           a == OnPacket(r, k, c, m)
           ph == IF r = "server" THEN "GexServerAwaitInit" ELSE "GexClientAwaitReply"
           t == IF r = "server" THEN "GEX_GROUP" ELSE "GEX_INIT"
<1>1. /\ q \in Runner /\ q.phase = k.phase /\ q.advert = k.advert /\ q.peerAdvert = k.peerAdvert
      /\ q.h = k.h /\ q.sid = k.sid /\ q.flags = k.flags \ {"accept_ext_info_now"}
  BY WindowFields
<1>2. a \in AdvanceType
  BY OnPacketType
<1>3. a = GexLeg(q, c, ph, t)
  <2>1. CASE r = "server"
    BY <1>1, <2>1 DEF OnPacket
  <2>2. CASE r = "client"
    BY <1>1, <2>2 DEF OnPacket
  <2> QED BY <2>1, <2>2 DEF Role
<1> HIDE DEF q, a, ph, t
<1>4. a = Advance([q EXCEPT !.phase = ph], c, <<Msg(t)>>)
  BY <1>3 DEF GexLeg
<1> DEFINE n == [q EXCEPT !.phase = ph]
<1>5. /\ n.phase = ph /\ n.advert = q.advert /\ n.peerAdvert = q.peerAdvert /\ n.h = q.h
      /\ n.sid = q.sid /\ n.flags = q.flags
  BY <1>1 DEF Runner
<1> HIDE DEF n
<1>6. a.err = "none" /\ a.c = c /\ a.out = <<Msg(t)>> /\ a.k = n
  BY <1>4 DEF Advance, n
<1> QED BY <1>1, <1>2, <1>5, <1>6 DEF a, ph, t

\* The peer's NEWKEYS: both directions change keys.
LEMMA OnNewkeys ==
  ASSUME Agreed, NEW r \in Role, NEW k \in Runner, NEW c \in Codec, NEW m \in Message,
         k.phase = "AwaitingPeerNewKeys", m.t = "NEWKEYS", "sent_newkeys" \in k.flags
  PROVE  LET a == OnPacket(r, k, c, m)
             s == "strict_kex" \in k.flags
             z == IF Compression = "zlib" THEN "on" ELSE "none"
         IN  /\ a \in AdvanceType /\ a.err = "none"
             /\ a.c \in Codec /\ a.c.outKey = k.h /\ a.c.inKey = k.h /\ a.c.zOut = z /\ a.c.zIn = z
             /\ a.c.seqOut = (IF s THEN 0 ELSE c.seqOut) /\ a.c.seqIn = (IF s THEN 0 ELSE c.seqIn)
             /\ a.out = <<>> \/ (k.advert = 1 /\ a.out = <<Msg("EXT_INFO")>>)
             /\ a.k.phase = "Completed" /\ a.k.advert = k.advert /\ a.k.sid = k.sid
             /\ "strict_kex" \in a.k.flags <=> s
             /\ k.advert = 1 /\ "ext_info_enabled" \in k.flags => "accept_ext_info_now" \in a.k.flags
<1> DEFINE q == CloseExtInfoWindow(k)
           a == OnPacket(r, k, c, m)
           f == q.flags \cup {"peer_newkeys"}
           x == [q EXCEPT !.phase = "Completed",
                          !.flags = IF FirstKex(q) /\ "ext_info_enabled" \in f
                                    THEN f \cup {"accept_ext_info_now"} ELSE f]
           w == [x EXCEPT !.flags = @ \ {"outbound_ext_info"}]
           y == MaybeInstall(x, c)
<1>1. /\ q \in Runner /\ q.phase = k.phase /\ q.advert = k.advert /\ q.peerAdvert = k.peerAdvert
      /\ q.h = k.h /\ q.sid = k.sid /\ q.flags = k.flags \ {"accept_ext_info_now"}
  BY WindowFields
<1>2. a \in AdvanceType
  BY OnPacketType
<1>3. a = HandlePeerNewkeys(q, c)
  BY <1>1 DEF OnPacket
<1> HIDE DEF q, a
<1>4. a = Advance(x, y, <<>>) \/ (q.advert = 1 /\ a = Advance(w, y, <<Msg("EXT_INFO")>>))
  BY <1>3 DEF HandlePeerNewkeys, FirstKex
<1>5. /\ x.phase = "Completed" /\ x.advert = q.advert /\ x.sid = q.sid /\ x.h = q.h
      /\ {"sent_newkeys", "peer_newkeys"} \subseteq x.flags
      /\ "strict_kex" \in x.flags <=> "strict_kex" \in q.flags
      /\ q.advert = 1 /\ "ext_info_enabled" \in q.flags => "accept_ext_info_now" \in x.flags
  BY <1>1 DEF Runner, FirstKex
<1>6. /\ w.phase = x.phase /\ w.advert = x.advert /\ w.sid = x.sid
      /\ w.flags = x.flags \ {"outbound_ext_info"}
  BY <1>1 DEF Runner
<1> HIDE DEF x, w
<1>7. /\ y.outKey = q.h /\ y.inKey = q.h
      /\ y.zOut = (IF Compression = "zlib" THEN "on" ELSE "none") /\ y.zIn = y.zOut
      /\ y.seqOut = (IF "strict_kex" \in q.flags THEN 0 ELSE c.seqOut)
      /\ y.seqIn = (IF "strict_kex" \in q.flags THEN 0 ELSE c.seqIn)
  <2> DEFINE i == InstallKeys(c, x.h)
             j == IF "strict_kex" \in x.flags THEN ResetSequenceNumbers(i) ELSE i
  <2>3. /\ i.outKey = x.h /\ i.inKey = x.h /\ i.seqOut = c.seqOut /\ i.seqIn = c.seqIn
        /\ i.zOut = (IF Compression = "zlib" THEN "on" ELSE "none") /\ i.zIn = i.zOut
        /\ i = [i EXCEPT !.outKey = i.outKey]
    BY CompressionAssumption DEF InstallKeys, InstallCompress, Codec, Agreed
  <2>4. /\ j.outKey = i.outKey /\ j.inKey = i.inKey /\ j.zOut = i.zOut /\ j.zIn = i.zIn
        /\ j.seqOut = (IF "strict_kex" \in x.flags THEN 0 ELSE c.seqOut)
        /\ j.seqIn = (IF "strict_kex" \in x.flags THEN 0 ELSE c.seqIn)
    BY <2>3 DEF ResetSequenceNumbers, InstallKeys, Codec
  <2>5. /\ y.outKey = j.outKey /\ y.inKey = j.inKey /\ y.zOut = j.zOut /\ y.zIn = j.zIn
        /\ y.seqOut = j.seqOut /\ y.seqIn = j.seqIn
    BY <1>5 DEF ResetRekeyEpoch, ResetSequenceNumbers, InstallKeys, Codec, MaybeInstall
  <2> HIDE DEF i, j, y
  <2> QED BY <1>5, <2>3, <2>4, <2>5
<1> HIDE DEF y
<1>8. a.err = "none" /\ a.c = y /\ (a.k = x \/ a.k = w)
      /\ (a.out = <<>> \/ (q.advert = 1 /\ a.out = <<Msg("EXT_INFO")>>))
  BY <1>4 DEF Advance
<1>9. /\ a.k.phase = "Completed" /\ a.k.advert = q.advert /\ a.k.sid = q.sid
      /\ "strict_kex" \in a.k.flags <=> "strict_kex" \in q.flags
      /\ q.advert = 1 /\ "ext_info_enabled" \in q.flags => "accept_ext_info_now" \in a.k.flags
  BY <1>5, <1>6, <1>8
<1>10. a.c \in Codec
  BY <1>2 DEF AdvanceType
<1>12. "ext_info_enabled" \in q.flags <=> "ext_info_enabled" \in k.flags
  BY <1>1
<1> QED BY <1>1, <1>2, <1>7, <1>8, <1>9, <1>10, <1>12 DEF a

\* Our KEXINIT for a re-key.
LEMMA OnRestart ==
  ASSUME NEW k \in Runner, NEW c \in Codec, k.phase = "Completed"
  PROVE  LET a == Restart(k, c)
         IN  /\ a \in AdvanceType /\ a.err = "none" /\ a.c = c /\ a.out = <<KexInit(k.advert + 1)>>
             /\ a.k.phase = "SentKexInit" /\ a.k.advert = k.advert + 1 /\ a.k.sid = k.sid
             /\ a.k.flags = k.flags \cap {"strict_kex"}
BY RestartType DEF Restart, Advance, Runner

\* Our first KEXINIT.
LEMMA OnStart ==
  ASSUME NEW k \in Runner, NEW c \in Codec
  PROVE  LET a == StartKex(k, c)
         IN  /\ a \in AdvanceType /\ a.err = "none" /\ a.c = c /\ a.out = <<KexInit(1)>>
             /\ a.k.phase = "SentKexInit" /\ a.k.advert = 1 /\ a.k.sid = k.sid
             /\ a.k.flags = {"outbound_ext_info"}
BY StartKexType DEF StartKex, Advance, Runner

---------------------------------------------------------------------------
(* Steps of one driver.                                                    *)

\* m is r's leg number n of the exchange that replaces the keys e.
LegOK(r, e, n, m) == /\ m.t \in KexOf(r) /\ LegNo(m.t) = n
                     /\ m.t \in {"KEXINIT", "KEX_REPLY", "GEX_REPLY"} => m.body = <<e + 1, e + 1>>

\* The place of a driver whose NEWKEYS is not out alone.
LEMMA PlaceOf ==
  ASSUME NEW r, NEW d \in DriverState
  PROVE  /\ d.runner.phase # "AwaitingPeerNewKeys" => OutE(d) = Epoch(d) /\ OutS(d) = d.codec.seqOut
         /\ d.runner.phase = "AwaitingPeerNewKeys" =>
               /\ OutE(d) = Epoch(d) + 1 /\ OutJ(r, d) = 0
               /\ OutS(d) = IF StrictKex THEN 0 ELSE d.codec.seqOut
         /\ d.runner.phase \in {"Idle", "Completed"} => OutJ(r, d) = 0
         /\ d.runner.phase \in {"Idle", "SentKexInit", "Completed"} => InJ(d) = 0
  BY DEF OutE, OutS, OutJ, LegsOut, InJ, LegsIn

\* Legs of an exchange, one after the other.
LEMMA LegsSend ==
  ASSUME NEW r, NEW d \in DriverState, NEW x \in DriverState, NEW out \in Seq(Message), KeysOK(r, d),
         d.runner.phase # "AwaitingPeerNewKeys",
         x.outbox = d.outbox \o Encode(d.codec, out), x.codec.outKey = d.codec.outKey,
         x.codec.seqOut = (d.codec.seqOut + Len(out)) % SeqMod,
         d.runner.advert <= x.runner.advert, OutJ(r, d) \in Nat,
         \A i \in 1..Len(out) :
            /\ LegOK(r, Epoch(d), OutJ(r, d) + i, out[i])
            /\ out[i].t = "KEXINIT" => Epoch(d) < x.runner.advert
            /\ out[i].t = "NEWKEYS" => i = Len(out) /\ x.runner.phase = "AwaitingPeerNewKeys",
         IF x.runner.phase = "AwaitingPeerNewKeys" THEN out # <<>> /\ out[Len(out)].t = "NEWKEYS"
                                                  ELSE OutJ(r, x) = OutJ(r, d) + Len(out)
  PROVE  Sends(r, d, x, Encode(d.codec, out)) /\ Fresh(d, x)
<1> DEFINE ns == Encode(d.codec, out)
           n == Len(out)
           a == d.codec.seqOut
           e == Epoch(d)
           j == OutJ(r, d)
<1>1. /\ d.codec \in Codec /\ a \in SeqNum /\ e \in Nat /\ n \in Nat /\ j \in Nat
      /\ d.runner.advert \in Nat /\ x.runner.advert \in Nat
  <2>1. d.codec \in Codec
    BY DEF DriverState
  <2>3. n \in Nat
    OBVIOUS
  <2> QED BY <2>1, PlaceType, <2>3
<1>2. a \in Nat /\ a < SeqMod /\ SeqMod \in Nat \ {0}
  BY <1>1, SeqModAssumption DEF SeqNum
<1>3. d.codec.outKey = <<e, e>> /\ d.codec.zOut = IF Compression = "zlib" /\ e > 0 THEN "on" ELSE "none"
  BY DEF KeysOK
<1>4. /\ ns \in Seq(WireFrame) /\ Len(ns) = n
      /\ \A i \in 1..n : /\ ns[i].t = out[i].t /\ ns[i].body = out[i].body /\ ns[i].key = <<e, e>>
                         /\ ns[i].seq = (a + i - 1) % SeqMod
                         /\ ns[i].z = (d.codec.zOut = "on")
  BY <1>1, <1>3, EncodeFields
<1>5. OutE(d) = e /\ OutS(d) = a
  BY PlaceOf
<1>6. Epoch(x) = e /\ OutE(x) = (IF x.runner.phase = "AwaitingPeerNewKeys" THEN e + 1 ELSE e)
  BY <1>3 DEF Epoch, OutE
<1>7. x.codec.seqOut = (a + n) % SeqMod
  OBVIOUS
<1>8. Fresh(d, x)
  BY QueueFresh
<1>9. \A i \in 1..n :
         /\ LegOK(r, e, j + i, out[i]) /\ (out[i].t = "KEXINIT" => e < x.runner.advert)
         /\ out[i].t = "NEWKEYS" => i = n /\ x.runner.phase = "AwaitingPeerNewKeys"
  OBVIOUS
<1> HIDE DEF ns, n, a, e, j
<1>10. ASSUME NEW i \in 1..n
       PROVE  /\ IsKexMsg(ns[i].t) /\ ns[i].t \in KexOf(r) /\ LegNo(ns[i].t) = j + i
              /\ ns[i].t \notin {"VERSION", "DISCONNECT", "EXT_INFO"}
              /\ AfterS(ns[i]) = IF ns[i].t = "NEWKEYS" /\ StrictKex THEN 0 ELSE (a + i) % SeqMod
              /\ ns[i].t # "NEWKEYS" => AfterE(ns[i]) = e /\ AfterJ(ns[i]) = j + i
              /\ ns[i].t = "NEWKEYS" => AfterE(ns[i]) = e + 1 /\ AfterJ(ns[i]) = 0
              /\ Fits(e, (j + i) - 1, (a + i - 1) % SeqMod, ns[i])
  <2>1. ns[i].t = out[i].t /\ ns[i].t \in KexOf(r) /\ LegNo(ns[i].t) = j + i
    BY <1>4, <1>9 DEF LegOK
  <2>2. IsKexMsg(ns[i].t) /\ ns[i].t \notin {"VERSION", "DISCONNECT", "EXT_INFO"}
    BY <2>1 DEF KexOf, IsKexMsg, KexMsg
  <2>3. a + i - 1 \in Nat /\ (a + i - 1) + 1 = a + i
    BY <1>2
  <2>4. (((a + i - 1) % SeqMod) + 1) % SeqMod = (a + i) % SeqMod
    BY <1>2, <2>3, ModStep
  <2>6. /\ ns[i].t # "NEWKEYS" => AfterE(ns[i]) = e /\ AfterJ(ns[i]) = j + i
        /\ ns[i].t = "NEWKEYS" => AfterE(ns[i]) = e + 1 /\ AfterJ(ns[i]) = 0
    BY <1>4, <2>1 DEF AfterE, AfterJ
  <2>7. Fits(e, (j + i) - 1, (a + i - 1) % SeqMod, ns[i])
    <3>1. j + i = ((j + i) - 1) + 1
      BY <1>1
    <3> QED BY <1>4, <2>1, <2>2, <3>1 DEF Fits
  <2> QED BY <2>1, <2>2, <1>4, <2>4, <2>6, <2>7 DEF AfterS
<1>11. Linked(ns)
  <2>1. SUFFICES ASSUME NEW i \in DOMAIN ns, i > 1
                 PROVE  Fits(AfterE(ns[i - 1]), AfterJ(ns[i - 1]), AfterS(ns[i - 1]), ns[i])
    BY DEF Linked
  <2>2. i \in 1..n /\ i - 1 \in 1..n /\ i - 1 # n
    BY <1>1, <1>4, <2>1
  <2>4. /\ AfterE(ns[i - 1]) = e /\ AfterJ(ns[i - 1]) = j + (i - 1)
        /\ AfterS(ns[i - 1]) = (a + (i - 1)) % SeqMod
    BY <1>10, <2>2, <1>4, <1>9
  <2>6. Fits(e, (j + i) - 1, (a + i - 1) % SeqMod, ns[i])
    BY <1>10, <2>2
  <2> QED BY <2>4, <1>1, <1>2, <2>2, <2>6
<1>12. StartsAt(ns, e, j, a)
  <2>1. SUFFICES ASSUME ns # <<>>  PROVE Fits(e, j, a, ns[1])
    BY DEF StartsAt
  <2>2. 1 \in 1..n
    BY <1>1, <1>4, <2>1
  <2>4. (j + 1) - 1 = j /\ a + 1 - 1 = a /\ a % SeqMod = a
    BY <1>1, <1>2, ModSmall
  <2> QED BY <1>10, <2>2, <2>4
<1>13. EndsAt(ns, OutE(x), OutJ(r, x), OutS(x))
  <2>1. SUFFICES ASSUME ns # <<>>
                 PROVE  /\ AfterE(ns[n]) = OutE(x) /\ AfterJ(ns[n]) = OutJ(r, x)
                        /\ AfterS(ns[n]) = OutS(x)
    BY <1>4 DEF EndsAt
  <2>2. n \in 1..n
    BY <1>1, <1>4, <2>1
  <2>3. CASE x.runner.phase = "AwaitingPeerNewKeys"
    <3>2. OutJ(r, x) = 0 /\ OutS(x) = IF StrictKex THEN 0 ELSE (a + n) % SeqMod
      BY <1>7, <2>3, PlaceOf
    <3> QED BY <1>6, <1>10, <2>2, <2>3, <1>4, <3>2 DEF n
  <2>4. CASE x.runner.phase # "AwaitingPeerNewKeys"
    <3>2. OutJ(r, x) = j + n /\ OutS(x) = (a + n) % SeqMod
      BY <1>7, <2>4, PlaceOf DEF j, n
    <3> QED BY <1>6, <1>10, <2>2, <2>4, <1>4, <1>9, <3>2
  <2> QED BY <2>3, <2>4
<1>14. ns = <<>> => OutE(d) = OutE(x) /\ OutJ(r, d) = OutJ(r, x) /\ OutS(d) = OutS(x)
  <2>1. SUFFICES ASSUME ns = <<>>  PROVE OutE(d) = OutE(x) /\ OutJ(r, d) = OutJ(r, x) /\ OutS(d) = OutS(x)
    OBVIOUS
  <2>2. n = 0 /\ out = <<>>
    BY <1>1, <1>4, <2>1 DEF n
  <2>3. x.runner.phase # "AwaitingPeerNewKeys" /\ OutJ(r, x) = j + n
    BY <2>2 DEF j, n
  <2>4. OutS(x) = (a + n) % SeqMod
    BY <1>7, <2>3, PlaceOf
  <2>5. OutS(x) = a
    <3>1. a + n = a
      BY <1>2, <2>2
    <3>2. a % SeqMod = a
      BY <1>2, ModSmall
    <3> QED BY <2>4, <3>1, <3>2
  <2> QED BY <1>1, <1>5, <1>6, <2>2, <2>3, <2>5 DEF j
<1>15. ASSUME NEW i \in DOMAIN ns
       PROVE  /\ FrameOK(r, x, ns[i]) /\ ns[i].t \notin {"VERSION", "DISCONNECT", "EXT_INFO"}
              /\ ns[i].key[1] = e
  <2>1. i \in 1..n
    BY <1>1, <1>4
  <2>2. ns[i].key = <<e, e>> /\ ns[i].key[1] = e
    BY <1>4, <2>1
  <2>3. /\ ns[i].t = out[i].t /\ ns[i].body = out[i].body
        /\ ns[i].z = (Compression = "zlib" /\ e > 0)
    <3>1. ns[i].z = (d.codec.zOut = "on")
      BY <1>4, <2>1
    <3>2. (d.codec.zOut = "on") = (Compression = "zlib" /\ e > 0)
      BY <1>3
    <3>3. ns[i].z = (Compression = "zlib" /\ e > 0)
      BY <3>1, <3>2, Zenon
    <3> QED BY <1>4, <2>1, <3>3
  <2>4. FrameShape(r, ns[i])
    BY <1>9, <2>1, <2>3, <1>10, <2>2 DEF LegOK, FrameShape
  <2>5. ns[i].t = "NEWKEYS" => e < OutE(x)
    <3>2. e < e + 1
      BY <1>1
    <3> QED BY <1>6, <1>4, <1>9, <2>1, <3>2
  <2>6. ns[i].t = "KEXINIT" => e < x.runner.advert
    BY <1>9, <2>1, <2>3
  <2>7. FrameOK(r, x, ns[i])
    BY <1>1, <1>6, <2>2, <2>4, <2>5, <2>6 DEF FrameOK
  <2> QED BY <1>10, <2>1, <2>2, <2>7
<1>16. \A i, h \in DOMAIN ns : i < h => ns[i].t # "NEWKEYS"
  <2>1. SUFFICES ASSUME NEW i \in DOMAIN ns, NEW h \in DOMAIN ns, i < h  PROVE ns[i].t # "NEWKEYS"
    OBVIOUS
  <2>2. i \in 1..n /\ h \in 1..n /\ i # n
    BY <1>1, <1>4, <2>1
  <2> QED BY <1>4, <1>9, <2>2
<1>17. e <= Epoch(x) /\ OutE(d) <= OutE(x)
  BY <1>1, <1>5, <1>6
<1> QED BY <1>4, <1>5, <1>8, <1>11, <1>12, <1>13, <1>14, <1>15, <1>16, <1>17 DEF Sends, ns, e, j

\* Other messages, under the keys of the place.
LEMMA AppSend ==
  ASSUME NEW r, NEW d \in DriverState, NEW x \in DriverState, NEW c \in Codec, NEW ms \in Seq(Message),
         OutE(d) > 0, OutJ(r, d) = 0, Epoch(d) <= OutE(d),
         c.outKey = <<OutE(d), OutE(d)>>, c.seqOut = OutS(d),
         c.zOut = IF Compression = "zlib" THEN "on" ELSE "none",
         x.outbox = d.outbox \o Encode(c, ms), x.codec.outKey = c.outKey,
         x.codec.seqOut = (OutS(d) + Len(ms)) % SeqMod,
         x.runner.phase = "Completed", d.runner.advert <= x.runner.advert,
         \A i \in 1..Len(ms) : /\ ms[i].t \in AppTypes \cup {"EXT_INFO"}
                               /\ ms[i].t = "EXT_INFO" => i = 1 /\ Epoch(d) = 0 /\ OutE(d) = 1
  PROVE  Sends(r, d, x, Encode(c, ms))
<1> DEFINE ns == Encode(c, ms)
           n == Len(ms)
           e == OutE(d)
           a == c.seqOut
<1>1. e \in Nat /\ n \in Nat /\ a \in Nat /\ a < SeqMod /\ SeqMod \in Nat \ {0} /\ Epoch(d) \in Nat
  <2>2. a \in SeqNum
    BY DEF Codec
  <2>3. a \in Nat /\ a < SeqMod /\ SeqMod \in Nat \ {0}
    BY <2>2, SeqModAssumption DEF SeqNum
  <2>4. n \in Nat
    OBVIOUS
  <2> QED BY PlaceType, <2>3, <2>4
<1>2. /\ ns \in Seq(WireFrame) /\ Len(ns) = n
      /\ \A i \in 1..n : /\ ns[i].t = ms[i].t /\ ns[i].body = ms[i].body /\ ns[i].key = <<e, e>>
                         /\ ns[i].z = (c.zOut = "on")
  BY EncodeFields
<1>3. Linked(ns) /\ StartsAt(ns, e, 0, a) /\ EndsAt(ns, e, 0, (a + n) % SeqMod)
  BY <1>1, EncodePath
<1>4. Epoch(x) = e /\ OutE(x) = e /\ OutJ(r, x) = 0 /\ OutS(x) = (a + n) % SeqMod
  <2>1. Epoch(x) = e
    BY DEF Epoch
  <2> QED BY <2>1, PlaceOf
<1> HIDE DEF ns
<1>5. ns = <<>> => OutE(d) = OutE(x) /\ OutJ(r, d) = OutJ(r, x) /\ OutS(d) = OutS(x)
  <2>1. SUFFICES ASSUME ns = <<>>  PROVE OutS(d) = OutS(x)
    BY <1>4
  <2>2. n = 0
    BY <1>1, <1>2, <2>1
  <2>3. (a + n) % SeqMod = a
    BY <1>1, <2>2, ModSmall
  <2> QED BY <1>4, <2>3
<1>6. ASSUME NEW i \in DOMAIN ns
      PROVE  /\ FrameOK(r, x, ns[i]) /\ ns[i].t \notin {"VERSION", "DISCONNECT", "NEWKEYS"}
             /\ ns[i].key[1] = e
             /\ ns[i].t = "EXT_INFO" => i = 1 /\ Epoch(d) = 0 /\ OutE(d) = 1
  <2>1. i \in 1..n
    BY <1>1, <1>2
  <2>2. ns[i].t = ms[i].t /\ ns[i].t \in AppTypes \cup {"EXT_INFO"}
    BY <1>2, <2>1
  <2>3. ~IsKexMsg(ns[i].t) /\ ns[i].t \notin {"VERSION", "DISCONNECT", "NEWKEYS", "KEXINIT", "KEX_REPLY", "GEX_REPLY"}
    BY <2>2 DEF IsKexMsg, KexMsg, AppTypes, ItemTypes
  <2>4. ns[i].key = <<e, e>> /\ ns[i].key[1] = e /\ ns[i].z = (Compression = "zlib" /\ e > 0)
    BY <1>2, <2>1
  <2> QED BY <2>1, <2>2, <2>3, <2>4, <1>1, <1>4 DEF FrameOK, FrameShape
<1>7. Epoch(d) <= Epoch(x) /\ OutE(d) <= OutE(x)
  BY <1>1, <1>4
<1> QED BY <1>2, <1>3, <1>4, <1>5, <1>6, <1>7 DEF Sends, ns

---------------------------------------------------------------------------
(* What happens to the payloads in a driver that is not given any.         *)

\* Payloads that were carried before, on the wire and held back, are carried still.
Flow(r, d, x) ==
    \A a, b, c \in Nat : Carries(r, d.outbox, a, b) /\ Carries(r, d.deferredOut, b, c) =>
       \E h \in Nat : h <= c /\ Carries(r, x.outbox, a, h) /\ Carries(r, x.deferredOut, h, c)

\* A driver that sends no payload and holds back what it did carries what it did.
LEMMA FlowSame ==
  ASSUME NEW r, NEW d \in DriverState, NEW x \in DriverState, NEW ns \in Seq(WireFrame),
         x.outbox = d.outbox \o ns, x.deferredOut = d.deferredOut,
         \A i \in DOMAIN ns : ~IsItem(ns[i])
  PROVE  Flow(r, d, x)
<1>1. SUFFICES ASSUME NEW a \in Nat, NEW b \in Nat, NEW c \in Nat,
                      Carries(r, d.outbox, a, b), Carries(r, d.deferredOut, b, c)
               PROVE  b <= c /\ Carries(r, x.outbox, a, b) /\ Carries(r, x.deferredOut, b, c)
  BY DEF Flow
<1>2. Carries(r, ns, b, b)
  BY CarriesNone
<1>4. Carries(r, d.outbox \o ns, a, b)
  BY <1>1, <1>2, CarriesConcat DEF DriverState
<1>5. b <= c
  BY <1>1 DEF Carries
<1> QED BY <1>1, <1>4, <1>5

\* A message that is no payload joins the deferred ones.
LEMMA FlowDefer ==
  ASSUME NEW r, NEW d \in DriverState, NEW x \in DriverState, NEW m \in Message,
         x.outbox = d.outbox, x.deferredOut = Append(d.deferredOut, m), ~IsItem(m)
  PROVE  Flow(r, d, x)
<1>1. SUFFICES ASSUME NEW a \in Nat, NEW b \in Nat, NEW c \in Nat,
                      Carries(r, d.outbox, a, b), Carries(r, d.deferredOut, b, c)
               PROVE  b <= c /\ Carries(r, x.outbox, a, b) /\ Carries(r, x.deferredOut, b, c)
  BY DEF Flow
<1>2. Carries(r, <<m>>, c, c)
  BY CarriesNone
<1>3. d.deferredOut \in Seq(Message) /\ <<m>> \in Seq(Message)
  BY DEF DriverState
<1>4. Append(d.deferredOut, m) = d.deferredOut \o <<m>>
  BY <1>3
<1>5. Carries(r, d.deferredOut \o <<m>>, b, c)
  BY <1>1, <1>2, <1>3, CarriesConcat
<1>6. b <= c
  BY <1>1 DEF Carries
<1> QED BY <1>1, <1>4, <1>5, <1>6

\* Nothing more is carried than is there.
LEMMA CarriesEmpty ==
  ASSUME NEW r, NEW a \in Nat, NEW b \in Nat, Carries(r, <<>>, a, b)
  PROVE  a = b
BY DEF Carries

\* The deferred payloads are sent.
LEMMA FlowDrain ==
  ASSUME NEW r, NEW d \in DriverState, NEW x \in DriverState, NEW cd \in Codec,
         x.outbox = d.outbox \o Encode(cd, d.deferredOut), x.deferredOut = <<>>
  PROVE  Flow(r, d, x)
<1>1. SUFFICES ASSUME NEW a \in Nat, NEW b \in Nat, NEW c \in Nat,
                      Carries(r, d.outbox, a, b), Carries(r, d.deferredOut, b, c)
               PROVE  c <= c /\ Carries(r, x.outbox, a, c) /\ Carries(r, x.deferredOut, c, c)
  BY DEF Flow
<1>2. d.deferredOut \in Seq(Message) /\ d.outbox \in Seq(WireFrame)
  BY DEF DriverState
<1>4. Carries(r, d.outbox \o Encode(cd, d.deferredOut), a, c)
  BY <1>1, <1>2, CarriesEncode, EncodeFields, CarriesConcat
<1>5. Carries(r, <<>>, c, c)
  BY CarriesNone
<1> QED BY <1>4, <1>5

---------------------------------------------------------------------------
(* Steps of one driver that start no exchange.                             *)

\* r's driver d becomes x, in agreement with itself, and sends what follows.
Moves(r, d, x) == /\ x \in DriverState /\ KeysOK(r, x) /\ Fresh(d, x)
                  /\ \E ns : Sends(r, d, x, ns)

\* A queue has no room left.
Full(x) == \/ /\ x.err = "deferred egress buffer too large"
              /\ Len(x.deferredOut) + 1 > MaxDeferredOut
           \/ /\ x.err = "deferred ingress buffer too large"
              /\ Len(x.deferred) + 1 > MaxDeferredIn

\* y is d but for the events it holds.
Alike(d, y) == /\ y.codec = d.codec /\ y.runner = d.runner /\ y.phase = d.phase
               /\ y.outbox = d.outbox /\ y.deferred = d.deferred /\ y.deferredOut = d.deferredOut
               /\ y.auth = d.auth /\ y.err = d.err

\* x stands where d stands on the wire to it.
Stays(d, x) == /\ x.phase = d.phase /\ Epoch(x) = Epoch(d) /\ InJ(x) = InJ(d)
               /\ x.codec.seqIn = d.codec.seqIn /\ x.deferred = d.deferred

\* A driver that sends nothing.
LEMMA SilentSends ==
  ASSUME NEW r, NEW d \in DriverState, NEW x \in DriverState,
         x.outbox = d.outbox, x.codec.outKey = d.codec.outKey, x.codec.seqOut = d.codec.seqOut,
         x.runner.phase = d.runner.phase, x.runner.advert = d.runner.advert
  PROVE  Sends(r, d, x, <<>>) /\ Fresh(d, x)
BY PlaceType DEF DriverState, Epoch, OutE, OutJ, OutS, Linked, StartsAt, EndsAt, Sends, Fresh

\* The agreement of a driver with itself, but for its queues.
LEMMA KeysSame ==
  ASSUME NEW r, NEW d \in DriverState, NEW x \in DriverState, KeysOK(r, d),
         x.codec.outKey = d.codec.outKey, x.codec.inKey = d.codec.inKey,
         x.codec.zOut = d.codec.zOut, x.codec.zIn = d.codec.zIn, x.phase = d.phase,
         x.codec.seqIn = d.codec.seqIn \/ Epoch(d) > 0,
         x.runner = d.runner \/
            /\ Epoch(d) > 0 /\ x.runner.phase = d.runner.phase /\ x.runner.advert = d.runner.advert
            /\ x.runner.peerAdvert = d.runner.peerAdvert /\ x.runner.h = d.runner.h
            /\ x.runner.sid = d.runner.sid
            /\ \A f \in {"strict_kex", "sent_newkeys", "peer_newkeys", "ext_info_enabled"} :
                  f \in x.runner.flags <=> f \in d.runner.flags,
         x.deferredOut # <<>> \/ x.deferred # <<>> => IsKexing(d.runner) /\ Epoch(d) > 0,
         \A i \in DOMAIN x.deferredOut :
            x.deferredOut[i].t \in AppTypes /\ ~MaySendDuringKex(x.deferredOut[i].t)
  PROVE  KeysOK(r, x)
<1>1. Epoch(x) = Epoch(d) /\ x.runner.phase = d.runner.phase
  BY DEF Epoch
<1>2. InJ(x) = InJ(d) /\ OutE(x) = OutE(d) /\ IsKexing(x.runner) = IsKexing(d.runner)
  BY <1>1 DEF InJ, OutE, IsKexing
<1>3. Epoch(d) \in Nat
  BY PlaceType
<1>4. CASE x.runner = d.runner
  BY <1>1, <1>2, <1>3, <1>4 DEF KeysOK
<1>5. CASE x.runner # d.runner
  BY <1>3, <1>5, <1>1, <1>2 DEF KeysOK
<1> QED BY <1>4, <1>5

\* Outside an exchange the queues are empty and the place is that of the keys.
LEMMA RestPlace ==
  ASSUME NEW r, NEW d \in DriverState, KeysOK(r, d), Epoch(d) > 0, ~IsKexing(d.runner)
  PROVE  /\ d.runner.phase = "Completed" /\ d.deferredOut = <<>> /\ d.deferred = <<>>
         /\ OutE(d) = Epoch(d) /\ OutJ(r, d) = 0 /\ OutS(d) = d.codec.seqOut /\ InJ(d) = 0
         /\ d.codec.outKey = <<Epoch(d), Epoch(d)>>
         /\ d.codec.zOut = IF Compression = "zlib" THEN "on" ELSE "none"
BY PlaceType, PlaceOf DEF KeysOK, IsKexing

\* enqueue_payload of what a frontend submits, or of a PONG.
LEMMA EnqueueMoves ==
  ASSUME NEW r, NEW d \in DriverState, NEW y \in DriverState, NEW m \in Message,
         KeysOK(r, d), Alike(d, y), d.err = "none", m.t \in AppTypes, Epoch(d) > 0,
         MaySendDuringKex(m.t) => ~IsKexing(d.runner)
  PROVE  LET x == EnqueuePayload(y, m)
         IN  /\ Moves(r, d, x) /\ Stays(d, x) /\ (x.err = "none" \/ Full(x))
             /\ x.events = y.events /\ x.auth = d.auth /\ x.runner = d.runner
             /\ x.codec.zOut = d.codec.zOut /\ x.codec.zIn = d.codec.zIn
             /\ \/ /\ x.err # "none" /\ x.outbox = d.outbox /\ x.deferredOut = d.deferredOut
                \/ /\ x.err = "none" /\ IsKexing(d.runner)
                   /\ x.outbox = d.outbox /\ x.deferredOut = Append(d.deferredOut, m)
                \/ /\ x.err = "none" /\ d.deferredOut = <<>> /\ x.deferredOut = <<>>
                   /\ x.outbox = d.outbox \o Encode(d.codec, <<m>>)
<1> DEFINE x == EnqueuePayload(y, m)
<1>1. /\ y.codec = d.codec /\ y.runner = d.runner /\ y.phase = d.phase
      /\ y.outbox = d.outbox /\ y.deferred = d.deferred /\ y.deferredOut = d.deferredOut
      /\ y.auth = d.auth /\ y.err = "none"
  BY DEF Alike
<1>2. x \in DriverState
  BY EnqueuePayloadType
<1>3. CASE IsKexing(d.runner)
  <2>1. ~MaySendDuringKex(m.t)
    BY <1>3
  <2>2. CASE Len(d.deferredOut) + 1 > MaxDeferredOut
    <3>1. x = Fail(y, "deferred egress buffer too large")
      BY <1>1, <1>3, <2>1, <2>2 DEF EnqueuePayload
    <3>2. /\ x.err = "deferred egress buffer too large"
          /\ x.outbox = d.outbox /\ x.codec = d.codec /\ x.runner = d.runner /\ x.phase = d.phase
          /\ x.deferred = d.deferred /\ x.deferredOut = d.deferredOut
          /\ x.events = y.events /\ x.auth = d.auth
      <4>1. "deferred egress buffer too large" \in Errors
        BY DEF Errors
      <4> HIDE DEF x
      <4> QED BY <1>1, <3>1, <4>1, FailEffect, Zenon
    <3> HIDE DEF x
    <3>4. KeysOK(r, x)
      <4>1. /\ d.deferredOut # <<>> \/ d.deferred # <<>> => IsKexing(d.runner) /\ Epoch(d) > 0
            /\ \A i \in DOMAIN d.deferredOut :
                  d.deferredOut[i].t \in AppTypes /\ ~MaySendDuringKex(d.deferredOut[i].t)
        BY DEF KeysOK
      <4> QED BY <1>2, <3>2, <4>1, KeysSame
    <3>5. Moves(r, d, x)
      BY <1>2, <3>2, SilentSends, <3>4 DEF Moves
    <3> QED BY <3>2, <3>5, <2>2 DEF x, Stays, Full, Epoch, InJ
  <2>3. CASE ~(Len(d.deferredOut) + 1 > MaxDeferredOut)
    <3>2. /\ x.err = "none"
          /\ x.outbox = d.outbox /\ x.codec = d.codec /\ x.runner = d.runner /\ x.phase = d.phase
          /\ x.deferred = d.deferred /\ x.deferredOut = Append(d.deferredOut, m)
          /\ x.events = y.events /\ x.auth = d.auth
      BY <1>1, <1>3, <2>1, <2>3 DEF DriverState, EnqueuePayload
    <3> HIDE DEF x
    <3>4. \A i \in DOMAIN x.deferredOut :
             x.deferredOut[i].t \in AppTypes /\ ~MaySendDuringKex(x.deferredOut[i].t)
      BY <2>1, <3>2 DEF DriverState, KeysOK
    <3>5. KeysOK(r, x)
      BY <1>2, <1>3, <3>2, <3>4, KeysSame
    <3>6. Moves(r, d, x)
      BY <1>2, <3>2, SilentSends, <3>5 DEF Moves
    <3> QED BY <1>3, <3>2, <3>6 DEF x, Stays, Epoch, InJ
  <2> QED BY <2>2, <2>3
<1>4. CASE ~IsKexing(d.runner)
  <2>1. x = EncodeAndQueue(y, <<m>>)
    BY <1>1, <1>4 DEF EnqueuePayload
  <2>2. <<m>> \in Seq(Message) /\ Len(<<m>>) = 1 /\ \A i \in 1..1 : <<m>>[i] = m
    OBVIOUS
  <2>3. /\ x.outbox = y.outbox \o Encode(y.codec, <<m>>) /\ x.codec = Encoded(y.codec, <<m>>)
        /\ x.runner = y.runner /\ x.phase = y.phase
        /\ x.deferred = y.deferred /\ x.deferredOut = y.deferredOut
        /\ x.events = y.events /\ x.auth = y.auth /\ x.err = y.err
    <3> HIDE DEF x
    <3> QED BY <2>1, <2>2, QueueEffect, Zenon
  <2> HIDE DEF x
  <2>4. /\ d.runner.phase = "Completed" /\ d.deferredOut = <<>> /\ d.deferred = <<>>
        /\ OutE(d) = Epoch(d) /\ OutJ(r, d) = 0 /\ OutS(d) = d.codec.seqOut /\ InJ(d) = 0
        /\ d.codec.outKey = <<Epoch(d), Epoch(d)>>
        /\ d.codec.zOut = IF Compression = "zlib" THEN "on" ELSE "none"
    BY <1>4, RestPlace
  <2>5. d.codec \in Codec /\ Epoch(d) \in Nat /\ d.runner.advert \in Nat
    BY PlaceType DEF DriverState
  <2>6. /\ x.codec.outKey = d.codec.outKey /\ x.codec.inKey = d.codec.inKey
        /\ x.codec.zOut = d.codec.zOut /\ x.codec.zIn = d.codec.zIn /\ x.codec.seqIn = d.codec.seqIn
        /\ x.codec.seqOut = (d.codec.seqOut + 1) % SeqMod
    <3>2. /\ Encoded(d.codec, <<m>>).outKey = d.codec.outKey /\ Encoded(d.codec, <<m>>).inKey = d.codec.inKey
          /\ Encoded(d.codec, <<m>>).zOut = d.codec.zOut /\ Encoded(d.codec, <<m>>).zIn = d.codec.zIn
          /\ Encoded(d.codec, <<m>>).seqIn = d.codec.seqIn
          /\ Encoded(d.codec, <<m>>).seqOut = (d.codec.seqOut + Len(<<m>>)) % SeqMod
      BY <2>2, <2>5, EncodedFields, Zenon
    <3> QED BY <2>2, <1>1, <2>3, <3>2
  <2>7. x.outbox = d.outbox \o Encode(d.codec, <<m>>)
    BY <1>1, <2>3
  <2>8. Fresh(d, x)
    BY <1>2, <2>2, <2>6, <2>7, QueueFresh
  <2>9. Sends(r, d, x, Encode(d.codec, <<m>>))
    <3>1. x.runner.phase = "Completed" /\ d.runner.advert <= x.runner.advert
      BY <1>1, <2>3, <2>4, <2>5
    <3>2. \A i \in 1..Len(<<m>>) : /\ <<m>>[i].t \in AppTypes \cup {"EXT_INFO"}
                                   /\ <<m>>[i].t # "EXT_INFO"
      BY <2>2 DEF AppTypes, ItemTypes
    <3>3. x.codec.seqOut = (OutS(d) + Len(<<m>>)) % SeqMod
      BY <2>2, <2>4, <2>6
    <3>4. OutE(d) > 0 /\ Epoch(d) <= OutE(d) /\ d.codec.outKey = <<OutE(d), OutE(d)>> /\ d.codec.seqOut = OutS(d)
      BY <2>4, <2>5
    <3> QED BY <1>2, <2>2, <2>4, <2>5, <2>6, <2>7, <3>1, <3>2, <3>3, <3>4, AppSend
  <2>10. x.runner = d.runner /\ x.phase = d.phase /\ x.deferredOut = <<>> /\ x.deferred = <<>>
         /\ x.err = "none" /\ x.events = y.events
    BY <1>1, <2>3, <2>4
  <2>11. KeysOK(r, x)
    BY <2>10, <1>2, <2>6, KeysSame
  <2>12. x.auth = d.auth
    BY <1>1, <2>3, Zenon
  <2>13. Stays(d, x)
    BY <2>4, <2>6, <2>10 DEF Stays, Epoch, InJ
  <2>14. Moves(r, d, x)
    BY <1>2, <2>8, <2>9, <2>11 DEF Moves
  <2> QED BY <2>4, <2>6, <2>7, <2>10, <2>12, <2>13, <2>14 DEF x
<1> QED BY <1>3, <1>4

---------------------------------------------------------------------------
(* A frame arrives.                                                        *)

\* The next frame on the wire to r's driver d is f, neither the
\* identification line nor a DISCONNECT.
Arrives(r, d, f) ==
    /\ d \in DriverState /\ f \in WireFrame /\ KeysOK(r, d) /\ d.err = "none"
    /\ d.phase # "AwaitingVersion" /\ f.t \notin {"VERSION", "DISCONNECT"}
    /\ Fits(Epoch(d), InJ(d), d.codec.seqIn, f) /\ FrameShape(Peer(r), f)
    /\ f.t = "EXT_INFO" => d.runner.phase = "Completed" /\ "accept_ext_info_now" \in d.runner.flags

\* d once it has decoded a frame, and what was framed.
AfterDecode(d) == [d EXCEPT !.codec = Decoded(@)]

Content(f) == [t |-> f.t, body |-> f.body]

\* What x surfaces or holds back of it: the payload, or at NEWKEYS the end of
\* the handshake or all that was held back.
Surfaces(d, f, x) ==
    LET m == Content(f)
    IN  \/ /\ (~IsItem(f) \/ x.err # "none") /\ x.events = d.events /\ x.deferred = d.deferred
           /\ Epoch(x) > 0 <=> Epoch(d) > 0
        \/ /\ IsItem(f) /\ x.err = "none" /\ Epoch(x) > 0 /\ Epoch(d) > 0
           /\ \/ d.deferred = <<>> /\ x.deferred = <<>> /\ x.events = Append(d.events, m)
              \/ x.deferred = Append(d.deferred, m) /\ x.events = d.events
        \/ /\ ~IsItem(f) /\ Epoch(d) = 0 /\ Epoch(x) > 0 /\ d.deferred = <<>> /\ x.deferred = <<>>
           /\ x.events = Append(d.events, Msg("HandshakeComplete"))
        \/ /\ ~IsItem(f) /\ Epoch(d) > 0 /\ Epoch(x) > 0 /\ x.deferred = <<>>
           /\ x.events = d.events \o d.deferred

\* The driver x is ready for the peer's one EXT_INFO.
ExtReady(x) == /\ x.deferred = <<>>
               /\ Epoch(x) > 0 => /\ Epoch(x) = 1 /\ x.runner.phase = "Completed"
                                  /\ "accept_ext_info_now" \in x.runner.flags

\* d has taken f and become x.
Takes(r, d, f, x) ==
    /\ Moves(r, d, x) /\ Flow(r, d, x) /\ (x.err = "none" \/ Full(x)) /\ x.auth = d.auth
    /\ x.phase # "AwaitingVersion" /\ x.runner.phase # "Idle" /\ Epoch(x) <= AfterE(f)
    /\ x.err = "none" => Epoch(x) = AfterE(f) /\ InJ(x) = AfterJ(f) /\ x.codec.seqIn = AfterS(f)
    /\ x.runner.advert <= 1 \/ x.runner.advert = d.runner.advert \/ (f.t = "KEXINIT" /\ f.key[1] > 0)
    /\ Epoch(d) = 0 => ExtReady(x)
    /\ Surfaces(d, f, x)

\* Decoding does not authenticate.
LEMMA DecodeAuth ==
  ASSUME NEW d \in DriverState
  PROVE  AfterDecode(d).auth = d.auth
  BY DEF AfterDecode, DriverState

\* What is known of d and of f before f is routed.
LEMMA ArrivalKnown ==
  ASSUME NEW r \in Role, NEW d, NEW f, Arrives(r, d, f)
  PROVE  LET w == AfterDecode(d)
             m == Content(f)
         IN  /\ HandleInputItem(r, d, f) = RoutePacket(r, w, m)
             /\ w \in DriverState /\ m \in Message /\ w.codec = Decoded(d.codec) /\ w.runner = d.runner
             /\ w.phase = d.phase /\ w.outbox = d.outbox /\ w.deferred = d.deferred
             /\ w.deferredOut = d.deferredOut /\ w.events = d.events /\ w.err = d.err
             /\ f.key = <<Epoch(d), Epoch(d)>> /\ f.key[1] = Epoch(d) /\ Epoch(d) \in Nat
             /\ f.seq = d.codec.seqIn
             /\ d.runner.phase # "Idle" /\ d.phase = IF Epoch(d) > 0 THEN "PostKex" ELSE "Kex"
             /\ w.codec.seqIn = (d.codec.seqIn + 1) % SeqMod /\ w.codec.outKey = d.codec.outKey
             /\ w.codec.inKey = d.codec.inKey /\ w.codec.seqOut = d.codec.seqOut
             /\ w.codec.zOut = d.codec.zOut /\ w.codec.zIn = d.codec.zIn
             /\ f.t # "NEWKEYS" => /\ AfterE(f) = Epoch(d) /\ AfterS(f) = w.codec.seqIn
                                   /\ AfterJ(f) = LegNo(f.t)
             /\ LegNo(f.t) = IF IsKexMsg(f.t) THEN InJ(d) + 1 ELSE InJ(d)
             /\ IF IsKexMsg(f.t) THEN f.t \in KexOf(Peer(r))
                ELSE f.t \in AppTypes \cup {"EXT_INFO"} /\ Epoch(d) > 0 /\ InJ(d) = 0
<1> DEFINE w == AfterDecode(d)
           m == Content(f)
<1>1. /\ d \in DriverState /\ f \in WireFrame /\ KeysOK(r, d) /\ d.err = "none"
      /\ d.phase # "AwaitingVersion" /\ f.t \notin {"VERSION", "DISCONNECT"}
      /\ Fits(Epoch(d), InJ(d), d.codec.seqIn, f) /\ FrameShape(Peer(r), f)
  BY DEF Arrives
<1>2. d.codec \in Codec /\ Epoch(d) \in Nat
  BY <1>1, PlaceType DEF DriverState
<1>3. /\ Decoded(d.codec) \in Codec
      /\ Decoded(d.codec).outKey = d.codec.outKey /\ Decoded(d.codec).inKey = d.codec.inKey
      /\ Decoded(d.codec).zOut = d.codec.zOut /\ Decoded(d.codec).zIn = d.codec.zIn
      /\ Decoded(d.codec).seqOut = d.codec.seqOut
      /\ Decoded(d.codec).seqIn = (d.codec.seqIn + 1) % SeqMod
  BY <1>2, DecodedFields
<1>4. /\ w \in DriverState /\ w.codec = Decoded(d.codec) /\ w.runner = d.runner
      /\ w.phase = d.phase /\ w.outbox = d.outbox /\ w.deferred = d.deferred
      /\ w.deferredOut = d.deferredOut /\ w.events = d.events /\ w.err = d.err
  BY <1>1, <1>3 DEF DriverState, AfterDecode
<1>5. m \in Message
  BY <1>1 DEF WireFrame, Message, Content
<1>6. f.key = <<Epoch(d), Epoch(d)>> /\ f.key[1] = Epoch(d) /\ f.seq = d.codec.seqIn
      /\ LegNo(f.t) = IF IsKexMsg(f.t) THEN InJ(d) + 1 ELSE InJ(d)
  BY <1>1 DEF Fits
<1>8. d.codec.inKey = f.key /\ (d.codec.zIn = "on") = (Compression = "zlib" /\ Epoch(d) > 0)
  BY <1>1, <1>6 DEF KeysOK
<1>9. Decodes(d.codec, f) /\ Payload(d.codec, f) = m
  BY <1>6, <1>1, <1>8 DEF Decodes, Payload, Content, FrameShape, WireFrame
<1>10. HandleInputItem(r, d, f) = RoutePacket(r, w, m)
  BY <1>1, <1>9 DEF HandleInputItem, AfterDecode
<1>11. d.runner.phase # "Idle" /\ d.phase = IF Epoch(d) > 0 THEN "PostKex" ELSE "Kex"
  BY <1>1 DEF KeysOK, DriverState
<1>12. f.t # "NEWKEYS" => AfterE(f) = Epoch(d) /\ AfterJ(f) = LegNo(f.t)
                          /\ AfterS(f) = (d.codec.seqIn + 1) % SeqMod
  BY <1>1, <1>6 DEF AfterE, AfterJ, AfterS
<1>13. IF IsKexMsg(f.t) THEN f.t \in KexOf(Peer(r))
       ELSE f.t \in AppTypes \cup {"EXT_INFO"} /\ Epoch(d) > 0 /\ InJ(d) = 0
  <2>1. CASE IsKexMsg(f.t)
    BY <1>1, <2>1 DEF FrameShape
  <2>2. CASE ~IsKexMsg(f.t)
    BY <1>1, <1>6, <2>2 DEF FrameShape, LegNo, AppTypes, ItemTypes
  <2> QED BY <2>1, <2>2
<1> HIDE DEF w, m
<1>14. /\ w.codec.seqIn = (d.codec.seqIn + 1) % SeqMod /\ w.codec.outKey = d.codec.outKey
       /\ w.codec.inKey = d.codec.inKey /\ w.codec.seqOut = d.codec.seqOut
       /\ w.codec.zOut = d.codec.zOut /\ w.codec.zIn = d.codec.zIn
  BY <1>3, <1>4
<1>15. f.t # "NEWKEYS" => AfterE(f) = Epoch(d) /\ AfterS(f) = w.codec.seqIn /\ AfterJ(f) = LegNo(f.t)
  BY <1>12, <1>14
<1> QED BY <1>2, <1>4, <1>5, <1>6, <1>10, <1>11, <1>13, <1>14, <1>15 DEF w, m

\* Steps are the same from a driver that has only decoded a packet.
LEMMA MovesFrom ==
  ASSUME NEW r, NEW d, NEW w, NEW x, Moves(r, w, x),
         w.codec.outKey = d.codec.outKey, w.codec.seqOut = d.codec.seqOut, w.outbox = d.outbox,
         w.runner.phase = d.runner.phase, w.runner.advert = d.runner.advert
  PROVE  Moves(r, d, x)
<1>2. Fresh(d, x)
  BY DEF Moves, Fresh
<1>3. PICK ns : Sends(r, w, x, ns)
  BY DEF Moves
<1>4. Sends(r, d, x, ns)
  BY <1>3 DEF Sends, Epoch, OutE, OutJ, OutS
<1> QED BY <1>2, <1>4 DEF Moves

\* A driver that takes a frame outside any exchange of its own, and answers nothing.
LEMMA SilentMoves ==
  ASSUME NEW r, NEW d \in DriverState, NEW x \in DriverState, KeysOK(r, d), Epoch(d) > 0,
         x.outbox = d.outbox, x.codec.outKey = d.codec.outKey, x.codec.seqOut = d.codec.seqOut,
         x.codec.inKey = d.codec.inKey, x.codec.zOut = d.codec.zOut, x.codec.zIn = d.codec.zIn,
         x.phase = d.phase, x.deferredOut = d.deferredOut,
         x.deferred # <<>> => IsKexing(d.runner),
         x.runner = d.runner \/ x.runner = CloseExtInfoWindow(d.runner)
         \/ \E k \in Runner : /\ x.runner = CloseExtInfoWindow(k) /\ k.phase = d.runner.phase
                              /\ k.advert = d.runner.advert /\ k.peerAdvert = d.runner.peerAdvert
                              /\ k.h = d.runner.h /\ k.sid = d.runner.sid
                              /\ \A g \in Flags \ {"accept_ext_info_now"} :
                                    g \in k.flags <=> g \in d.runner.flags
  PROVE  /\ Moves(r, d, x) /\ Flow(r, d, x) /\ Epoch(x) = Epoch(d) /\ InJ(x) = InJ(d)
         /\ x.runner.phase = d.runner.phase /\ x.runner.advert = d.runner.advert
<1>1. d.runner \in Runner
  BY DEF DriverState
<1>2. /\ x.runner.phase = d.runner.phase /\ x.runner.advert = d.runner.advert
      /\ x.runner.peerAdvert = d.runner.peerAdvert /\ x.runner.h = d.runner.h
      /\ x.runner.sid = d.runner.sid
      /\ \A g \in {"strict_kex", "sent_newkeys", "peer_newkeys", "ext_info_enabled"} :
            g \in x.runner.flags <=> g \in d.runner.flags
  <2>1. CASE x.runner = d.runner
    BY <2>1
  <2>2. CASE x.runner = CloseExtInfoWindow(d.runner)
    BY <1>1, <2>2, WindowFields
  <2>3. ASSUME NEW k \in Runner,
               /\ x.runner = CloseExtInfoWindow(k) /\ k.phase = d.runner.phase
               /\ k.advert = d.runner.advert /\ k.peerAdvert = d.runner.peerAdvert
               /\ k.h = d.runner.h /\ k.sid = d.runner.sid
               /\ \A g \in Flags \ {"accept_ext_info_now"} : g \in k.flags <=> g \in d.runner.flags
        PROVE  /\ x.runner.phase = d.runner.phase /\ x.runner.advert = d.runner.advert
               /\ x.runner.peerAdvert = d.runner.peerAdvert /\ x.runner.h = d.runner.h
               /\ x.runner.sid = d.runner.sid
               /\ \A g \in {"strict_kex", "sent_newkeys", "peer_newkeys", "ext_info_enabled"} :
                     g \in x.runner.flags <=> g \in d.runner.flags
    BY <2>3, WindowFields DEF Flags
  <2> QED BY <2>1, <2>2, <2>3
<1>4. KeysOK(r, x)
  BY <1>2, KeysSame DEF KeysOK
<1>6. Flow(r, d, x)
  <2>1. <<>> \in Seq(WireFrame) /\ d.outbox \o <<>> = d.outbox /\ DOMAIN <<>> = {}
    BY DEF DriverState
  <2> QED BY <2>1, FlowSame
<1> QED BY <1>2, <1>4, SilentSends, <1>6 DEF Moves, Epoch, InJ

---------------------------------------------------------------------------
(* The messages outside an exchange.                                       *)

\* With no leg received, d is outside an exchange or waits for the KEXINIT.
LEMMA NoLegPhase ==
  ASSUME NEW r \in Role, NEW d \in DriverState, KeysOK(r, d), InJ(d) = 0, d.runner.phase # "Idle"
  PROVE  d.runner.phase \in {"SentKexInit", "Completed"}
  BY DEF KeysOK, PhasesOf, InJ, LegsIn, Legs

\* d took f, which is no part of an exchange, in silence.
LEMMA TakeSilent ==
  ASSUME NEW r \in Role, NEW d, NEW f, Arrives(r, d, f), ~IsKexMsg(f.t),
         NEW x \in DriverState,
         x.outbox = d.outbox, x.codec = Decoded(d.codec),
         x.phase = d.phase, x.deferredOut = d.deferredOut, x.auth = d.auth,
         x.deferred # <<>> => IsKexing(d.runner),
         x.runner = d.runner \/ x.runner = CloseExtInfoWindow(d.runner)
         \/ \E k \in Runner : /\ x.runner = CloseExtInfoWindow(k) /\ k.phase = d.runner.phase
                              /\ k.advert = d.runner.advert /\ k.peerAdvert = d.runner.peerAdvert
                              /\ k.h = d.runner.h /\ k.sid = d.runner.sid
                              /\ \A g \in Flags \ {"accept_ext_info_now"} :
                                    g \in k.flags <=> g \in d.runner.flags,
         x.err = "none" \/ Full(x), Surfaces(d, f, x)
  PROVE  Takes(r, d, f, x)
<1> DEFINE w == AfterDecode(d)
<1>1. d \in DriverState /\ KeysOK(r, d) /\ d.phase # "AwaitingVersion"
  BY DEF Arrives
<1>2. /\ w.codec = Decoded(d.codec) /\ Epoch(d) \in Nat /\ d.runner.phase # "Idle"
      /\ w.codec.seqIn = (d.codec.seqIn + 1) % SeqMod /\ w.codec.outKey = d.codec.outKey
      /\ w.codec.inKey = d.codec.inKey /\ w.codec.seqOut = d.codec.seqOut
      /\ w.codec.zOut = d.codec.zOut /\ w.codec.zIn = d.codec.zIn
      /\ f.t # "NEWKEYS" => /\ AfterE(f) = Epoch(d) /\ AfterS(f) = w.codec.seqIn
                            /\ AfterJ(f) = LegNo(f.t)
      /\ LegNo(f.t) = (IF IsKexMsg(f.t) THEN InJ(d) + 1 ELSE InJ(d))
      /\ IF IsKexMsg(f.t) THEN f.t \in KexOf(Peer(r))
         ELSE f.t \in AppTypes \cup {"EXT_INFO"} /\ Epoch(d) > 0 /\ InJ(d) = 0
  BY ArrivalKnown
<1>3. f.t # "NEWKEYS"
  BY DEF IsKexMsg, KexMsg
<1> HIDE DEF w
<1>4. Epoch(d) > 0 /\ Epoch(d) # 0
  BY <1>2
<1>5. /\ x.codec.outKey = d.codec.outKey /\ x.codec.seqOut = d.codec.seqOut
      /\ x.codec.inKey = d.codec.inKey /\ x.codec.zOut = d.codec.zOut /\ x.codec.zIn = d.codec.zIn
      /\ x.codec.seqIn = w.codec.seqIn
  BY <1>2
<1>6. /\ Moves(r, d, x) /\ Flow(r, d, x) /\ Epoch(x) = Epoch(d) /\ InJ(x) = InJ(d)
      /\ x.runner.phase = d.runner.phase /\ x.runner.advert = d.runner.advert
  BY <1>1, <1>4, <1>5, SilentMoves
<1> QED BY <1>1, <1>2, <1>3, <1>4, <1>5, <1>6 DEF Takes

\* A PONG is taken and dropped.
LEMMA TakePong ==
  ASSUME NEW r \in Role, NEW d, NEW f, Arrives(r, d, f), f.t = "PONG"
  PROVE  Takes(r, d, f, HandleInputItem(r, d, f))
<1> DEFINE w == AfterDecode(d)
           m == Content(f)
<1>1. d \in DriverState /\ KeysOK(r, d) /\ d.err = "none"
  BY DEF Arrives
<1>2. /\ HandleInputItem(r, d, f) = RoutePacket(r, w, m)
      /\ w \in DriverState /\ w.codec = Decoded(d.codec) /\ w.runner = d.runner
      /\ w.phase = d.phase /\ w.outbox = d.outbox /\ w.deferred = d.deferred
      /\ w.deferredOut = d.deferredOut /\ w.events = d.events /\ w.err = d.err
      /\ w.codec.outKey = d.codec.outKey
      /\ d.phase = (IF Epoch(d) > 0 THEN "PostKex" ELSE "Kex")
      /\ IF IsKexMsg(f.t) THEN f.t \in KexOf(Peer(r))
         ELSE f.t \in AppTypes \cup {"EXT_INFO"} /\ Epoch(d) > 0 /\ InJ(d) = 0
  BY ArrivalKnown
<1>auth. w.auth = d.auth
  BY <1>1, DecodeAuth
<1>3. ~IsKexMsg(f.t) /\ ~IsItem(f) /\ m.t = "PONG"
  BY DEF Content, IsKexMsg, KexMsg, IsItem, ItemTypes
<1> HIDE DEF w, m
<1>4. HandleInputItem(r, d, f) = w
  BY <1>2, <1>3 DEF RoutePacket, RoutePing
<1>6. Surfaces(d, f, w)
  BY <1>2, <1>3 DEF Surfaces, Epoch
<1> QED BY <1>auth, <1>1, <1>2, <1>3, <1>4, <1>6, TakeSilent DEF KeysOK

\* A PING is answered, after the exchange if one is running.
LEMMA TakePing ==
  ASSUME NEW r \in Role, NEW d, NEW f, Arrives(r, d, f), f.t = "PING"
  PROVE  Takes(r, d, f, HandleInputItem(r, d, f))
<1> DEFINE w == AfterDecode(d)
           m == Content(f)
           p == Msg("PONG")
           x == EnqueuePayload(w, p)
<1>1. d \in DriverState /\ KeysOK(r, d) /\ d.err = "none" /\ d.phase # "AwaitingVersion"
  BY DEF Arrives
<1>2. /\ HandleInputItem(r, d, f) = RoutePacket(r, w, m)
      /\ w \in DriverState /\ w.codec = Decoded(d.codec) /\ w.runner = d.runner
      /\ w.phase = d.phase /\ w.outbox = d.outbox /\ w.deferred = d.deferred
      /\ w.deferredOut = d.deferredOut /\ w.events = d.events /\ w.err = d.err
      /\ d.runner.phase # "Idle"
      /\ w.codec.outKey = d.codec.outKey /\ w.codec.inKey = d.codec.inKey
      /\ w.codec.seqOut = d.codec.seqOut /\ w.codec.zOut = d.codec.zOut /\ w.codec.zIn = d.codec.zIn
      /\ d.phase = (IF Epoch(d) > 0 THEN "PostKex" ELSE "Kex") /\ Epoch(d) \in Nat
      /\ f.t # "NEWKEYS" => /\ AfterE(f) = Epoch(d) /\ AfterS(f) = w.codec.seqIn
                            /\ AfterJ(f) = LegNo(f.t)
      /\ LegNo(f.t) = (IF IsKexMsg(f.t) THEN InJ(d) + 1 ELSE InJ(d))
      /\ IF IsKexMsg(f.t) THEN f.t \in KexOf(Peer(r))
         ELSE f.t \in AppTypes \cup {"EXT_INFO"} /\ Epoch(d) > 0 /\ InJ(d) = 0
  BY ArrivalKnown
<1>auth. w.auth = d.auth
  BY <1>1, DecodeAuth
<1>3. ~IsKexMsg(f.t) /\ ~IsItem(f) /\ m.t = "PING" /\ f.t # "NEWKEYS"
  BY DEF Content, IsKexMsg, KexMsg, IsItem, ItemTypes
<1>4. p \in Message /\ p.t = "PONG" /\ p.t \in AppTypes /\ ~MaySendDuringKex(p.t) /\ ~IsItem(p)
  BY MsgType DEF MsgTypes, Msg, AppTypes, ItemTypes, MaySendDuringKex, KexMsg, IsItem
<1> HIDE DEF w, m, p
<1>5. HandleInputItem(r, d, f) = x
  BY <1>2, <1>3 DEF RoutePacket, RoutePing, p
<1>6. Epoch(d) > 0 /\ Epoch(w) = Epoch(d) /\ InJ(w) = InJ(d)
  BY <1>2, <1>3 DEF Epoch, InJ
<1>7. KeysOK(r, w)
  <2> QED BY <1>1, <1>2, <1>6, KeysSame DEF KeysOK
<1>8. /\ Moves(r, w, x) /\ Stays(w, x) /\ (x.err = "none" \/ Full(x))
      /\ x.events = w.events /\ x.auth = w.auth /\ x.runner = w.runner
      /\ \/ /\ x.err # "none" /\ x.outbox = w.outbox /\ x.deferredOut = w.deferredOut
         \/ /\ x.err = "none" /\ IsKexing(w.runner)
            /\ x.outbox = w.outbox /\ x.deferredOut = Append(w.deferredOut, p)
         \/ /\ x.err = "none" /\ w.deferredOut = <<>> /\ x.deferredOut = <<>>
            /\ x.outbox = w.outbox \o Encode(w.codec, <<p>>)
  <2>1. Alike(w, w) /\ w.err = "none" /\ Epoch(w) > 0
    BY <1>1, <1>2, <1>6 DEF Alike
  <2> HIDE DEF x
  <2> QED BY <1>2, <1>4, <1>7, <2>1, EnqueueMoves DEF x
<1> HIDE DEF x
<1>9. x \in DriverState
  BY <1>8 DEF Moves
<1>10. Flow(r, w, x)
  <2>1. CASE x.outbox = w.outbox /\ x.deferredOut = w.deferredOut
    <3>1. <<>> \in Seq(WireFrame) /\ w.outbox \o <<>> = w.outbox /\ DOMAIN <<>> = {}
      BY <1>2 DEF DriverState
    <3> QED BY <1>2, <1>9, <2>1, <3>1, FlowSame
  <2>2. CASE x.outbox = w.outbox /\ x.deferredOut = Append(w.deferredOut, p)
    BY <1>2, <1>4, <1>9, <2>2, FlowDefer
  <2>3. CASE x.outbox = w.outbox \o Encode(w.codec, <<p>>) /\ x.deferredOut = w.deferredOut
    <3>1. <<p>> \in Seq(Message) /\ Len(<<p>>) = 1 /\ \A i \in 1..1 : <<p>>[i] = p
      BY <1>4
    <3>2. w.codec \in Codec
      BY <1>2 DEF DriverState
    <3>3. /\ Encode(w.codec, <<p>>) \in Seq(WireFrame) /\ Len(Encode(w.codec, <<p>>)) = 1
          /\ \A i \in 1..1 : Encode(w.codec, <<p>>)[i].t = p.t
      BY <3>1, <3>2, EncodeFields
    <3>4. \A i \in DOMAIN Encode(w.codec, <<p>>) : ~IsItem(Encode(w.codec, <<p>>)[i])
      BY <1>4, <3>3 DEF IsItem
    <3> QED BY <1>2, <1>9, <2>3, <3>3, <3>4, FlowSame
  <2> QED BY <1>8, <2>1, <2>2, <2>3
<1>11. Flow(r, d, x) /\ Moves(r, d, x)
  BY <1>2, <1>10, <1>8, MovesFrom DEF Flow
<1>12. /\ x.phase = d.phase /\ Epoch(x) = Epoch(d) /\ InJ(x) = InJ(d)
       /\ x.codec.seqIn = w.codec.seqIn /\ x.deferred = d.deferred /\ x.events = d.events
       /\ x.runner = d.runner
  BY <1>2, <1>6, <1>8 DEF Stays
<1>13. x.auth = d.auth
  BY <1>auth, <1>8, Zenon
<1>14. Surfaces(d, f, x)
  BY <1>3, <1>12 DEF Surfaces
<1>15. Epoch(x) <= AfterE(f) /\ Epoch(d) # 0
  BY <1>2, <1>3, <1>6, <1>12
<1>16. x.err = "none" \/ Full(x)
  BY <1>8
<1> QED BY <1>1, <1>2, <1>3, <1>5, <1>11, <1>12, <1>13, <1>14, <1>15, <1>16 DEF Takes

\* An EXT_INFO is taken while its window is open.
LEMMA TakeExtInfo ==
  ASSUME NEW r \in Role, NEW d, NEW f, Arrives(r, d, f), f.t = "EXT_INFO"
  PROVE  Takes(r, d, f, HandleInputItem(r, d, f))
<1> DEFINE w == AfterDecode(d)
           m == Content(f)
           k == IF r = "client" /\ ~w.auth /\ w.phase # "Kex" THEN ArmExtInfoPostAuth(r, w.runner) ELSE w.runner
           x == [w EXCEPT !.runner = CloseExtInfoWindow(k)]
<1>1. d \in DriverState /\ KeysOK(r, d) /\ d.err = "none" /\ "accept_ext_info_now" \in d.runner.flags
  BY DEF Arrives
<1>2. /\ HandleInputItem(r, d, f) = RoutePacket(r, w, m)
      /\ w \in DriverState /\ w.codec = Decoded(d.codec) /\ w.runner = d.runner
      /\ w.phase = d.phase /\ w.outbox = d.outbox /\ w.deferred = d.deferred
      /\ w.deferredOut = d.deferredOut /\ w.events = d.events /\ w.err = d.err
      /\ w.codec.outKey = d.codec.outKey
  BY ArrivalKnown
<1>auth. w.auth = d.auth
  BY <1>1, DecodeAuth
<1>3. ~IsKexMsg(f.t) /\ ~IsItem(f) /\ m.t = "EXT_INFO"
  BY DEF Content, IsKexMsg, KexMsg, IsItem, ItemTypes
<1> HIDE DEF w, m
<1>5. /\ k \in Runner /\ k.phase = d.runner.phase
      /\ k.advert = d.runner.advert /\ k.peerAdvert = d.runner.peerAdvert
      /\ k.h = d.runner.h /\ k.sid = d.runner.sid
      /\ \A g \in Flags \ {"accept_ext_info_now"} : g \in k.flags <=> g \in d.runner.flags
      /\ "accept_ext_info_now" \in k.flags
  BY <1>1, <1>2 DEF ArmExtInfoPostAuth, Runner, Flags, DriverState
<1>6. HandleInputItem(r, d, f) = x
  BY <1>2, <1>3, <1>5 DEF RoutePacket, RouteExtInfo
<1> HIDE DEF k
<1>8. /\ x \in DriverState /\ x.codec = w.codec /\ x.runner = CloseExtInfoWindow(k)
      /\ x.phase = w.phase /\ x.outbox = w.outbox /\ x.deferred = w.deferred
      /\ x.deferredOut = w.deferredOut /\ x.events = w.events /\ x.auth = w.auth /\ x.err = w.err
  BY <1>2, <1>5, WindowFields DEF DriverState
<1> HIDE DEF x
<1>10. Surfaces(d, f, x)
  BY <1>2, <1>3, <1>8 DEF Surfaces, Epoch
<1>11. x.auth = d.auth
  BY <1>auth, <1>8, Zenon
<1>12. /\ x.codec = Decoded(d.codec) /\ x.phase = d.phase /\ x.outbox = d.outbox /\ x.err = "none"
       /\ x.deferredOut = d.deferredOut /\ (x.deferred # <<>> => IsKexing(d.runner)) /\ x \in DriverState
  BY <1>1, <1>2, <1>8 DEF KeysOK
<1>13. Takes(r, d, f, x)
  BY <1>3, <1>5, <1>8, <1>10, <1>11, <1>12, TakeSilent
<1> QED BY <1>6, <1>13

\* A payload is surfaced, or held back until the exchange ends.
LEMMA TakeItem ==
  ASSUME NEW r \in Role, NEW d, NEW f, Arrives(r, d, f), IsItem(f)
  PROVE  Takes(r, d, f, HandleInputItem(r, d, f))
<1> DEFINE w == AfterDecode(d)
           m == Content(f)
           x == HandleInputItem(r, d, f)
<1>1. d \in DriverState /\ KeysOK(r, d) /\ d.err = "none"
  BY DEF Arrives
<1>2. ~IsKexMsg(f.t) /\ f.t \notin {"DISCONNECT", "PING", "PONG", "EXT_INFO"}
  BY DEF IsKexMsg, KexMsg, IsItem, ItemTypes
<1>3. /\ HandleInputItem(r, d, f) = RoutePacket(r, w, m)
      /\ w \in DriverState /\ m \in Message /\ w.codec = Decoded(d.codec) /\ w.runner = d.runner
      /\ w.phase = d.phase /\ w.outbox = d.outbox /\ w.deferred = d.deferred
      /\ w.deferredOut = d.deferredOut /\ w.events = d.events /\ w.err = d.err
      /\ w.codec.outKey = d.codec.outKey /\ d.runner.phase # "Idle"
      /\ d.phase = (IF Epoch(d) > 0 THEN "PostKex" ELSE "Kex")
      /\ IF IsKexMsg(f.t) THEN f.t \in KexOf(Peer(r))
         ELSE f.t \in AppTypes \cup {"EXT_INFO"} /\ Epoch(d) > 0 /\ InJ(d) = 0
  BY ArrivalKnown
<1>auth. w.auth = d.auth
  BY <1>1, DecodeAuth
<1>4. x = RouteOther(w, m)
  BY <1>2, <1>3 DEF Content, RoutePacket
<1>5. w.phase # "Kex" /\ Epoch(d) > 0 /\ InJ(d) = 0
  BY <1>2, <1>3
<1>6. d.runner \in Runner /\ w.runner \in Runner /\ d.events \in Seq(Message) /\ d.deferred \in Seq(Message)
  BY <1>1, <1>3 DEF DriverState
<1>7. d.deferred # <<>> => IsKexing(d.runner)
  BY <1>1 DEF KeysOK
<1> HIDE DEF w, m
<1>8. CASE ~IsKexing(d.runner)
  <2>2. CloseExtInfoWindow(w.runner) \in Runner /\ Append(w.events, m) \in Seq(Message)
    BY <1>3, <1>6, WindowFields
  <2>3. /\ x \in DriverState /\ x.codec = w.codec /\ x.runner = CloseExtInfoWindow(w.runner)
        /\ x.phase = w.phase /\ x.outbox = w.outbox /\ x.deferred = w.deferred
        /\ x.deferredOut = w.deferredOut /\ x.events = Append(w.events, m)
        /\ x.auth = w.auth /\ x.err = w.err
    BY <1>3, <1>4, <1>5, <1>8, <2>2 DEF DriverState, RouteOther
  <2> HIDE DEF x
  <2>4. x.auth = d.auth
    BY <1>auth, <2>3, Zenon
  <2>5. /\ x.codec = Decoded(d.codec) /\ x.phase = d.phase /\ x.outbox = d.outbox /\ x.err = "none"
        /\ x.deferredOut = d.deferredOut /\ x.deferred = <<>> /\ d.deferred = <<>> /\ x \in DriverState
        /\ x.events = Append(d.events, m) /\ x.runner = CloseExtInfoWindow(d.runner)
    BY <1>1, <1>3, <1>7, <1>8, <2>3
  <2>6. Surfaces(d, f, x)
    BY <1>3, <1>5, <2>3, <2>5 DEF Surfaces, Epoch, m
  <2> QED BY <1>2, <2>4, <2>5, <2>6, TakeSilent DEF x
<1>9. CASE IsKexing(d.runner)
  <2>1. d.runner.phase = "SentKexInit"
    BY <1>1, <1>3, <1>5, <1>9, NoLegPhase DEF IsKexing
  <2>2. x = DeferInbound(w, m)
    BY <1>3, <1>4, <1>5, <1>9, <2>1 DEF RouteOther, AwaitingPeerKexinit
  <2>3. CASE Len(d.deferred) + 1 > MaxDeferredIn
    <3>1. x = Fail(w, "deferred ingress buffer too large")
      BY <1>3, <2>2, <2>3 DEF DeferInbound
    <3>2. /\ x \in DriverState /\ x.err = "deferred ingress buffer too large"
          /\ x.outbox = w.outbox /\ x.codec = w.codec /\ x.runner = w.runner /\ x.phase = w.phase
          /\ x.deferred = w.deferred /\ x.deferredOut = w.deferredOut
          /\ x.events = w.events /\ x.auth = w.auth
      <4>1. "deferred ingress buffer too large" \in Errors
        BY DEF Errors
      <4> HIDE DEF x
      <4> QED BY <1>3, <3>1, <4>1, FailEffect, Zenon
    <3> HIDE DEF x
    <3>3. x.auth = d.auth
      BY <1>auth, <3>2, Zenon
    <3>4. /\ x.codec = Decoded(d.codec) /\ x.phase = d.phase /\ x.outbox = d.outbox /\ Full(x)
          /\ x.deferredOut = d.deferredOut /\ (x.deferred # <<>> => IsKexing(d.runner)) /\ x \in DriverState
          /\ x.events = d.events /\ x.runner = d.runner
      BY <1>3, <1>9, <2>3, <3>2 DEF Full
    <3>5. Surfaces(d, f, x)
      BY <1>3, <3>2 DEF Surfaces, Epoch
    <3> QED BY <1>2, <3>3, <3>4, <3>5, TakeSilent DEF x
  <2>4. CASE ~(Len(d.deferred) + 1 > MaxDeferredIn)
    <3>1. x = [w EXCEPT !.deferred = Append(@, m)]
      BY <1>3, <2>2, <2>4 DEF DeferInbound
    <3>2. Append(d.deferred, m) \in Seq(Message)
      BY <1>3, <1>6
    <3>3. /\ x \in DriverState /\ x.codec = w.codec /\ x.runner = w.runner
          /\ x.phase = w.phase /\ x.outbox = w.outbox /\ x.deferred = Append(w.deferred, m)
          /\ x.deferredOut = w.deferredOut /\ x.events = w.events
          /\ x.auth = w.auth /\ x.err = w.err
      BY <1>3, <3>1, <3>2, ZenonT(60) DEF DriverState
    <3> HIDE DEF x
    <3>4. x.auth = d.auth
      BY <1>auth, <3>3, Zenon
    <3>5. /\ x.codec = Decoded(d.codec) /\ x.phase = d.phase /\ x.outbox = d.outbox /\ x.err = "none"
          /\ x.deferredOut = d.deferredOut /\ (x.deferred # <<>> => IsKexing(d.runner)) /\ x \in DriverState
          /\ x.events = d.events /\ x.runner = d.runner /\ x.deferred = Append(d.deferred, m)
      BY <1>1, <1>3, <1>9, <3>3
    <3>6. Surfaces(d, f, x)
      BY <1>3, <1>5, <3>3, <3>5 DEF Surfaces, Epoch, m
    <3> QED BY <1>2, <3>4, <3>5, <3>6, TakeSilent DEF x
  <2> QED BY <2>3, <2>4
<1> QED BY <1>8, <1>9

---------------------------------------------------------------------------
(* The legs of an exchange before NEWKEYS.                                 *)

\* The runner k of a driver with keys e, inside an exchange that has begun on
\* both sides.
MidExchange(r, k, e) ==
    /\ k.phase \in PhasesOf(r) \ {"Idle", "SentKexInit", "Completed"}
    /\ k.advert = e + 1 /\ k.peerAdvert = e + 1 /\ "peer_newkeys" \notin k.flags
    /\ "strict_kex" \in k.flags <=> StrictKex
    /\ e = 0 => "ext_info_enabled" \in k.flags
    /\ k.phase = "AwaitingPeerNewKeys" =>
          k.h = <<e + 1, e + 1>> /\ "sent_newkeys" \in k.flags /\ k.sid = <<1, 1>>

\* The driver x that has taken a leg f and answered out.
LEMMA LegTaken ==
  ASSUME NEW r \in Role, NEW d, NEW f, Arrives(r, d, f), IsKexMsg(f.t), f.t # "NEWKEYS",
         d.runner.phase # "AwaitingPeerNewKeys",
         d.runner.advert = Epoch(d) + 1 \/ (d.runner.advert = Epoch(d) /\ f.t = "KEXINIT" /\ Epoch(d) > 0),
         NEW x \in DriverState, NEW out \in Seq(Message),
         x.outbox = d.outbox \o Encode(d.codec, out), x.codec.outKey = d.codec.outKey,
         x.codec.inKey = d.codec.inKey, x.codec.zOut = d.codec.zOut, x.codec.zIn = d.codec.zIn,
         x.codec.seqIn = AfterDecode(d).codec.seqIn,
         x.codec.seqOut = (d.codec.seqOut + Len(out)) % SeqMod,
         x.phase = d.phase, x.deferred = d.deferred, x.deferredOut = d.deferredOut,
         x.events = d.events, x.auth = d.auth, x.err = "none",
         MidExchange(r, x.runner, Epoch(d)), InJ(x) = InJ(d) + 1, OutJ(r, d) \in Nat,
         x.runner.phase # "AwaitingPeerNewKeys" => x.runner.sid = d.runner.sid,
         \A i \in 1..Len(out) :
            /\ LegOK(r, Epoch(d), OutJ(r, d) + i, out[i])
            /\ out[i].t = "NEWKEYS" => i = Len(out) /\ x.runner.phase = "AwaitingPeerNewKeys",
         IF x.runner.phase = "AwaitingPeerNewKeys" THEN out # <<>> /\ out[Len(out)].t = "NEWKEYS"
                                                  ELSE OutJ(r, x) = OutJ(r, d) + Len(out)
  PROVE  Takes(r, d, f, x)
<1>1. d \in DriverState /\ KeysOK(r, d) /\ d.phase # "AwaitingVersion"
  BY DEF Arrives
<1>2. /\ Epoch(d) \in Nat /\ d.runner.phase # "Idle" /\ f.key[1] = Epoch(d)
      /\ f.t # "NEWKEYS" => /\ AfterE(f) = Epoch(d) /\ AfterS(f) = AfterDecode(d).codec.seqIn
                            /\ AfterJ(f) = LegNo(f.t)
      /\ LegNo(f.t) = (IF IsKexMsg(f.t) THEN InJ(d) + 1 ELSE InJ(d))
  BY ArrivalKnown
<1>3. Epoch(x) = Epoch(d)
  BY DEF Epoch
<1>4. x.runner.advert = Epoch(d) + 1 /\ d.runner.advert <= x.runner.advert /\ Epoch(d) < x.runner.advert
  BY <1>1, <1>2 DEF MidExchange
<1>6. KeysOK(r, x)
  <2>1. InJ(d) \in Nat
    BY DEF InJ, LegsIn, Legs
  <2>2. InJ(x) > 0 /\ IsKexing(x.runner) /\ x.runner.phase \in PhasesOf(r) /\ x.runner.phase \notin {"Idle", "Completed"}
    BY <2>1 DEF MidExchange, IsKexing
  <2>3. OutE(d) = Epoch(d)
    BY <1>1, PlaceOf
  <2>4. x.runner.sid = IF OutE(x) = 0 THEN NoKey ELSE <<1, 1>>
    <3>1. CASE x.runner.phase = "AwaitingPeerNewKeys"
      BY <1>2, <1>3, <3>1, SMTT(30) DEF MidExchange, OutE
    <3>2. CASE x.runner.phase # "AwaitingPeerNewKeys"
      BY <1>1, <1>3, <2>3, <3>2 DEF KeysOK, OutE
    <3> QED BY <3>1, <3>2
  <2>6. InJ(x) # 0
    BY <2>1
  <2> QED BY <1>1, <1>3, <1>4, <2>2, <2>4, <2>6 DEF KeysOK, MidExchange
<1>7. Moves(r, d, x)
  BY <1>1, <1>4, LegsSend, <1>6 DEF Moves
<1>8. Flow(r, d, x)
  <2>1. d.codec \in Codec
    BY <1>1 DEF DriverState
  <2>2. /\ Encode(d.codec, out) \in Seq(WireFrame) /\ Len(Encode(d.codec, out)) = Len(out)
        /\ \A i \in 1..Len(out) : Encode(d.codec, out)[i].t = out[i].t
    BY <2>1, EncodeFields
  <2>3. \A i \in DOMAIN Encode(d.codec, out) : ~IsItem(Encode(d.codec, out)[i])
    <3>1. \A i \in 1..Len(out) : out[i].t \in KexOf(r)
      BY DEF LegOK
    <3>2. \A t \in KexOf(r) : t \notin ItemTypes
      BY DEF KexOf, ItemTypes
    <3> QED BY <2>2, <3>1, <3>2 DEF IsItem
  <2> QED BY <1>1, <2>2, <2>3, FlowSame
<1>9. x.runner.phase # "Idle"
  BY DEF MidExchange
<1>10. ~IsItem(f)
  BY DEF IsKexMsg, KexMsg, IsItem, ItemTypes
<1>11. Surfaces(d, f, x)
  BY <1>3, <1>10 DEF Surfaces
<1>12. Epoch(d) = 0 => ExtReady(x)
  BY <1>1, <1>3 DEF ExtReady, KeysOK
<1>13. Epoch(x) <= AfterE(f)
  BY <1>2, <1>3
<1>14. x.runner.advert = d.runner.advert \/ (f.t = "KEXINIT" /\ f.key[1] > 0)
  BY <1>2, <1>4
<1> QED BY <1>1, <1>2, <1>3, <1>7, <1>8, <1>9, <1>11, <1>12, <1>13, <1>14 DEF Takes

\* x is d with the frame decoded and the answer a of the runner applied.
Applied(d, a, x) ==
    /\ x \in DriverState /\ a.out \in Seq(Message)
    /\ x.outbox = d.outbox \o Encode(d.codec, a.out) /\ x.runner = a.k
    /\ x.codec.outKey = d.codec.outKey /\ x.codec.inKey = d.codec.inKey
    /\ x.codec.zOut = d.codec.zOut /\ x.codec.zIn = d.codec.zIn
    /\ x.codec.seqIn = AfterDecode(d).codec.seqIn
    /\ x.codec.seqOut = (d.codec.seqOut + Len(a.out)) % SeqMod
    /\ x.phase = d.phase /\ x.deferred = d.deferred /\ x.deferredOut = d.deferredOut
    /\ x.events = d.events /\ x.auth = d.auth /\ x.err = "none"

\* What the runner says to the frame f.
Answer(r, d, f) == OnPacket(r, d.runner, AfterDecode(d).codec, Content(f))

\* An answer is applied inside an exchange that it does not complete.
LEMMA LegApplied ==
  ASSUME NEW r \in Role, NEW d, NEW f, Arrives(r, d, f), IsKexMsg(f.t), IsKexing(d.runner),
         Answer(r, d, f) \in AdvanceType, Answer(r, d, f).err = "none",
         Answer(r, d, f).c = AfterDecode(d).codec, Answer(r, d, f).k.phase # "Completed"
  PROVE  Applied(d, Answer(r, d, f), HandleInputItem(r, d, f))
<1> DEFINE w == AfterDecode(d)
           m == Content(f)
           a == Answer(r, d, f)
           x == HandleInputItem(r, d, f)
<1>1. d \in DriverState /\ d.err = "none" /\ f.t \notin {"DISCONNECT", "EXT_INFO", "PING", "PONG"}
  BY DEF Arrives, IsKexMsg, KexMsg
<1>2. /\ x = RoutePacket(r, w, m) /\ w \in DriverState /\ w.runner = d.runner
      /\ w.phase = d.phase /\ w.outbox = d.outbox /\ w.deferred = d.deferred
      /\ w.deferredOut = d.deferredOut /\ w.events = d.events /\ w.err = d.err
      /\ w.codec.outKey = d.codec.outKey /\ w.codec.inKey = d.codec.inKey
      /\ w.codec.seqOut = d.codec.seqOut /\ w.codec.zOut = d.codec.zOut /\ w.codec.zIn = d.codec.zIn
  BY ArrivalKnown
<1>3. m.t = f.t
  BY DEF Content
<1>4. x = RouteKex(r, w, m)
  BY <1>1, <1>2, <1>3 DEF RoutePacket
<1>5. /\ a.out \in Seq(Message) /\ w.codec \in Codec
  BY <1>2 DEF AdvanceType, DriverState
<1> DEFINE y == Apply(w, a)
<1>a. a \in AdvanceType /\ a.err = "none" /\ a.k.phase # "Completed"
  OBVIOUS
<1> HIDE DEF w, m, a, x
<1>6. /\ y \in DriverState
      /\ y.outbox = w.outbox \o Encode(a.c, a.out) /\ y.codec = Encoded(a.c, a.out)
      /\ y.runner = a.k /\ y.phase = w.phase
      /\ y.deferred = w.deferred /\ y.deferredOut = w.deferredOut
      /\ y.events = w.events /\ y.auth = w.auth /\ y.err = w.err
  <2> HIDE DEF y
  <2> QED BY <1>a, <1>2, ApplyEffect DEF y
<1>7. x = y
  <2>1. OnPacket(r, w.runner, w.codec, m) = a
    BY <1>2 DEF w, m, a, Answer
  <2>2. w.err = "none" /\ ~(m.t = "KEXINIT" /\ ~IsKexing(w.runner))
    BY <1>1, <1>2
  <2>3. y.runner.phase # "Completed"
    BY <1>a, <1>6
  <2> HIDE DEF y
  <2> QED BY <1>4, <2>1, <2>2, <2>3 DEF RouteKex, y
<1> HIDE DEF y
<1>9. a.c = w.codec
  BY DEF w, a
<1>10. Encode(a.c, a.out) = Encode(d.codec, a.out)
  BY <1>2, <1>9, EncodeSame
<1>11. y.auth = d.auth
  <2>1. w.auth = d.auth
    BY <1>1, DecodeAuth DEF w
  <2> QED BY <1>6, <2>1, Zenon
<1>12. /\ y.outbox = d.outbox \o Encode(d.codec, a.out) /\ y.codec = Encoded(w.codec, a.out)
       /\ y.phase = d.phase /\ y.deferred = d.deferred /\ y.deferredOut = d.deferredOut
       /\ y.events = d.events /\ y.err = "none"
  BY <1>1, <1>2, <1>6, <1>9, <1>10
<1>13. /\ y.codec.outKey = d.codec.outKey /\ y.codec.inKey = d.codec.inKey
       /\ y.codec.zOut = d.codec.zOut /\ y.codec.zIn = d.codec.zIn
       /\ y.codec.seqIn = AfterDecode(d).codec.seqIn
       /\ y.codec.seqOut = (d.codec.seqOut + Len(a.out)) % SeqMod
  BY <1>2, <1>5, EncodedFields, <1>12 DEF w
<1>14. y \in DriverState /\ y.runner = a.k
  BY <1>6
<1> QED BY <1>5, <1>7, <1>11, <1>12, <1>13, <1>14 DEF Applied, x, a

\* What is known of the exchange d is in when a leg arrives.
LEMMA LegKnown ==
  ASSUME NEW r \in Role, NEW d, NEW f, Arrives(r, d, f), IsKexMsg(f.t), IsKexing(d.runner)
  PROVE  /\ d \in DriverState /\ d.runner \in Runner /\ Content(f) \in Message
         /\ AfterDecode(d).codec \in Codec /\ Content(f).t = f.t /\ Content(f).body = f.body
         /\ d.runner.advert = Epoch(d) + 1 /\ Epoch(d) \in Nat
         /\ "peer_newkeys" \notin d.runner.flags
         /\ ("strict_kex" \in d.runner.flags => StrictKex)
         /\ InJ(d) > 0 => /\ d.runner.peerAdvert = Epoch(d) + 1
                          /\ "strict_kex" \in d.runner.flags <=> StrictKex
                          /\ Epoch(d) = 0 => "ext_info_enabled" \in d.runner.flags
         /\ f.t \in {"KEXINIT", "KEX_REPLY", "GEX_REPLY"} => f.body = <<Epoch(d) + 1, Epoch(d) + 1>>
         /\ LegNo(f.t) = InJ(d) + 1 /\ f.t \in KexOf(Peer(r))
         /\ d.runner.phase \in PhasesOf(r) \ {"Idle", "Completed"}
         /\ d.runner.sid = (IF OutE(d) = 0 THEN NoKey ELSE <<1, 1>>)
<1>1. d \in DriverState /\ KeysOK(r, d) /\ FrameShape(Peer(r), f)
  BY DEF Arrives
<1>2. /\ Content(f) \in Message /\ AfterDecode(d) \in DriverState /\ f.key[1] = Epoch(d) /\ Epoch(d) \in Nat
      /\ LegNo(f.t) = (IF IsKexMsg(f.t) THEN InJ(d) + 1 ELSE InJ(d))
      /\ IF IsKexMsg(f.t) THEN f.t \in KexOf(Peer(r)) ELSE f.t \in AppTypes \cup {"EXT_INFO"} /\ Epoch(d) > 0 /\ InJ(d) = 0
  BY ArrivalKnown
<1>4. /\ d.runner.advert = Epoch(d) + 1 /\ "peer_newkeys" \notin d.runner.flags
      /\ ("strict_kex" \in d.runner.flags => StrictKex)
      /\ (InJ(d) > 0 => /\ d.runner.peerAdvert = Epoch(d) + 1
                        /\ StrictKex => "strict_kex" \in d.runner.flags
                        /\ Epoch(d) = 0 => "ext_info_enabled" \in d.runner.flags)
      /\ d.runner.phase \in PhasesOf(r) \ {"Idle", "Completed"}
      /\ d.runner.sid = (IF OutE(d) = 0 THEN NoKey ELSE <<1, 1>>)
  BY <1>1 DEF KeysOK, IsKexing
<1>5. f.t \in {"KEXINIT", "KEX_REPLY", "GEX_REPLY"} => f.body = <<Epoch(d) + 1, Epoch(d) + 1>>
  BY <1>1, <1>2 DEF FrameShape
<1> QED BY <1>1, <1>2, <1>4, <1>5 DEF Content, DriverState

\* The peer's KEXINIT, when ours is out.
LEMMA TakeKexinit ==
  ASSUME Agreed, NEW r \in Role, NEW d, NEW f, Arrives(r, d, f), f.t = "KEXINIT", IsKexing(d.runner)
  PROVE  Takes(r, d, f, HandleInputItem(r, d, f))
<1> DEFINE k == d.runner
           c == AfterDecode(d).codec
           m == Content(f)
           a == Answer(r, d, f)
           x == HandleInputItem(r, d, f)
<1>1. IsKexMsg(f.t)
  BY DEF IsKexMsg, KexMsg
<1>2. /\ d \in DriverState /\ k \in Runner /\ m \in Message /\ c \in Codec /\ m.t = "KEXINIT"
      /\ k.advert = Epoch(d) + 1 /\ Epoch(d) \in Nat /\ "peer_newkeys" \notin k.flags
      /\ ("strict_kex" \in k.flags => StrictKex)
      /\ m.body = <<Epoch(d) + 1, Epoch(d) + 1>>
      /\ LegNo(f.t) = InJ(d) + 1 /\ k.phase \in PhasesOf(r) \ {"Idle", "Completed"}
      /\ k.sid = (IF OutE(d) = 0 THEN NoKey ELSE <<1, 1>>)
  BY <1>1, LegKnown
<1>3. InJ(d) = 0 /\ k.phase = "SentKexInit"
  BY <1>2, NoLegPhase DEF InJ, LegsIn, Legs, LegNo, Arrives
<1>4. ~(StrictKex /\ k.sid = NoKey /\ c.seqIn # 1)
  <2>1. SUFFICES ASSUME k.sid = NoKey  PROVE c.seqIn = 1
    OBVIOUS
  <2>3. Epoch(d) = 0
    BY <1>2, <2>1, <1>3, PlaceOf DEF NoKey
  <2>4. d.codec.seqIn = 0
    BY <1>3, <2>3 DEF KeysOK, Arrives
  <2>6. 1 % SeqMod = 1
    BY SeqModAssumption, ModSmall DEF Agreed
  <2> QED BY <2>4, ArrivalKnown, <2>6
<1>5. /\ a \in AdvanceType /\ a.err = "none" /\ a.c = c /\ a.out = KexinitAnswer(r)
      /\ a.k.phase = KexinitPhase(r) /\ a.k.advert = k.advert /\ a.k.peerAdvert = m.body[1]
      /\ a.k.h = k.h /\ a.k.sid = k.sid
      /\ ("strict_kex" \in a.k.flags <=> ("strict_kex" \in k.flags \/ StrictKex))
      /\ (k.advert = 1 => "ext_info_enabled" \in a.k.flags)
      /\ ("peer_newkeys" \in a.k.flags <=> "peer_newkeys" \in k.flags)
  <2>1. a = OnPacket(r, k, c, m)
    BY DEF Answer
  <2> HIDE DEF k, c, m, a
  <2> QED BY <1>2, <1>3, <1>4, <2>1, OnKexinit
<1> HIDE DEF a
<1>6. KexinitPhase(r) \in PhasesOf(r) \ {"Idle", "SentKexInit", "Completed", "AwaitingPeerNewKeys"}
      /\ LegsIn(KexinitPhase(r)) = 1
  BY GexAssumption DEF Role, KexinitPhase, PhasesOf, LegsIn
<1>7. /\ x \in DriverState /\ a.out \in Seq(Message)
      /\ x.outbox = d.outbox \o Encode(d.codec, a.out) /\ x.runner = a.k
      /\ x.codec.outKey = d.codec.outKey /\ x.codec.inKey = d.codec.inKey
      /\ x.codec.zOut = d.codec.zOut /\ x.codec.zIn = d.codec.zIn
      /\ x.codec.seqIn = AfterDecode(d).codec.seqIn
      /\ x.codec.seqOut = (d.codec.seqOut + Len(a.out)) % SeqMod
      /\ x.phase = d.phase /\ x.deferred = d.deferred /\ x.deferredOut = d.deferredOut
      /\ x.events = d.events /\ x.auth = d.auth /\ x.err = "none"
  <2>2. Applied(d, a, x)
    BY <1>1, <1>5, <1>6, LegApplied DEF a
  <2> HIDE DEF x
  <2> QED BY <2>2 DEF Applied
<1> HIDE DEF k, c, m, x
<1>8. MidExchange(r, x.runner, Epoch(d)) /\ InJ(x) = InJ(d) + 1
  BY <1>2, <1>3, <1>5, <1>6, <1>7 DEF MidExchange, InJ
<1>9. OutJ(r, d) = 1
  BY <1>3 DEF OutJ, LegsOut, k
<1>10. /\ \A i \in 1..Len(a.out) : LegOK(r, Epoch(d), OutJ(r, d) + i, a.out[i]) /\ a.out[i].t # "NEWKEYS"
       /\ OutJ(r, x) = OutJ(r, d) + Len(a.out)
  <2>1. CASE r = "server"
    BY <1>5, <1>7, <2>1, <1>9 DEF KexinitAnswer, KexinitPhase, OutJ, LegsOut
  <2>2. CASE r = "client"
    <3>1. /\ a.out = <<Msg(IF Gex THEN "GEX_REQUEST" ELSE "KEX_INIT")>>
          /\ x.runner.phase = IF Gex THEN "GexClientAwaitGroup" ELSE "Negotiated"
      BY <1>5, <1>7, <2>2 DEF KexinitAnswer, KexinitPhase
    <3>2. Len(a.out) = 1 /\ a.out[1].t = IF Gex THEN "GEX_REQUEST" ELSE "KEX_INIT"
      BY <3>1 DEF Msg
    <3>4. OutJ(r, x) = 2
      BY <2>2, <3>1 DEF OutJ, LegsOut
    <3> QED BY <1>9, <3>2, <2>2, <3>4 DEF LegOK, KexOf, LegNo
  <2> QED BY <2>1, <2>2 DEF Role
<1>11. x.runner.phase # "AwaitingPeerNewKeys" /\ x.runner.sid = d.runner.sid
  BY <1>5, <1>6, <1>7 DEF k
<1>12. d.runner.advert = Epoch(d) + 1 /\ d.runner.phase # "AwaitingPeerNewKeys"
  BY <1>2, <1>3 DEF k
<1> QED
  <2>1. f.t # "NEWKEYS" /\ OutJ(r, d) \in Nat
    BY <1>9
  <2> QED BY <1>1, <1>7, <1>8, <1>10, <1>11, <1>12, <2>1, LegTaken DEF x

\* The middle legs of a group exchange.
LEMMA TakeGexLeg ==
  ASSUME NEW r \in Role, NEW d, NEW f, Arrives(r, d, f), IsKexing(d.runner),
         f.t \in {"GEX_REQUEST", "GEX_GROUP"}
  PROVE  Takes(r, d, f, HandleInputItem(r, d, f))
<1> DEFINE k == d.runner
           c == AfterDecode(d).codec
           m == Content(f)
           a == Answer(r, d, f)
           x == HandleInputItem(r, d, f)
<1>1. IsKexMsg(f.t) /\ f.t # "NEWKEYS"
  BY DEF IsKexMsg, KexMsg
<1>2. /\ d \in DriverState /\ k \in Runner /\ m \in Message /\ c \in Codec /\ m.t = f.t
      /\ k.advert = Epoch(d) + 1 /\ Epoch(d) \in Nat /\ "peer_newkeys" \notin k.flags
      /\ LegNo(f.t) = InJ(d) + 1 /\ k.phase \in PhasesOf(r) \ {"Idle", "Completed"}
      /\ f.t \in KexOf(Peer(r))
      /\ (InJ(d) > 0 => /\ k.peerAdvert = Epoch(d) + 1
                        /\ "strict_kex" \in k.flags <=> StrictKex
                        /\ Epoch(d) = 0 => "ext_info_enabled" \in k.flags)
  BY <1>1, LegKnown
<1>3. /\ Gex
      /\ \/ r = "server" /\ f.t = "GEX_REQUEST" /\ k.phase = "Negotiated"
         \/ r = "client" /\ f.t = "GEX_GROUP" /\ k.phase = "GexClientAwaitGroup"
      /\ InJ(d) = 1
  BY <1>2 DEF Role, KexOf, Peer, LegNo, InJ, LegsIn, Legs, PhasesOf
<1>4. /\ a \in AdvanceType /\ a.err = "none" /\ a.c = c
      /\ a.out = <<Msg(IF r = "server" THEN "GEX_GROUP" ELSE "GEX_INIT")>>
      /\ a.k.phase = (IF r = "server" THEN "GexServerAwaitInit" ELSE "GexClientAwaitReply")
      /\ a.k.advert = k.advert /\ a.k.peerAdvert = k.peerAdvert /\ a.k.h = k.h /\ a.k.sid = k.sid
      /\ a.k.flags = k.flags \ {"accept_ext_info_now"}
  <2>1. a = OnPacket(r, k, c, m)
    BY DEF Answer
  <2> HIDE DEF k, c, m, a
  <2> QED BY <1>2, <1>3, <2>1, OnGexLeg
<1> HIDE DEF a
<1>5. /\ x \in DriverState /\ a.out \in Seq(Message)
      /\ x.outbox = d.outbox \o Encode(d.codec, a.out) /\ x.runner = a.k
      /\ x.codec.outKey = d.codec.outKey /\ x.codec.inKey = d.codec.inKey
      /\ x.codec.zOut = d.codec.zOut /\ x.codec.zIn = d.codec.zIn
      /\ x.codec.seqIn = AfterDecode(d).codec.seqIn
      /\ x.codec.seqOut = (d.codec.seqOut + Len(a.out)) % SeqMod
      /\ x.phase = d.phase /\ x.deferred = d.deferred /\ x.deferredOut = d.deferredOut
      /\ x.events = d.events /\ x.auth = d.auth /\ x.err = "none"
  <2>2. Applied(d, a, x)
    BY <1>1, <1>4, LegApplied DEF a
  <2> HIDE DEF x
  <2> QED BY <2>2 DEF Applied
<1> HIDE DEF k, c, m, x
<1>6. MidExchange(r, x.runner, Epoch(d)) /\ InJ(x) = InJ(d) + 1
  BY <1>3, <1>4, <1>5, <1>2 DEF PhasesOf, LegsIn, MidExchange, InJ
<1>7. /\ \A i \in 1..Len(a.out) : LegOK(r, Epoch(d), OutJ(r, d) + i, a.out[i]) /\ a.out[i].t # "NEWKEYS"
      /\ OutJ(r, x) = OutJ(r, d) + Len(a.out) /\ OutJ(r, d) \in Nat
  <2>1. Len(a.out) = 1 /\ a.out[1].t = IF r = "server" THEN "GEX_GROUP" ELSE "GEX_INIT"
    BY <1>4 DEF Msg
  <2>2. /\ OutJ(r, d) = (IF r = "server" THEN 1 ELSE 2)
        /\ OutJ(r, x) = (IF r = "server" THEN 2 ELSE 3)
    BY <1>3, <1>4, <1>5 DEF OutJ, LegsOut, k
  <2> QED BY <2>1, <2>2, <1>3 DEF LegOK, KexOf, LegNo
<1>8. x.runner.phase # "AwaitingPeerNewKeys" /\ x.runner.sid = d.runner.sid
  BY <1>4, <1>5 DEF k
<1>9. d.runner.advert = Epoch(d) + 1 /\ d.runner.phase # "AwaitingPeerNewKeys"
  BY <1>2, <1>3 DEF k
<1> QED BY <1>1, <1>5, <1>6, <1>7, <1>8, <1>9, LegTaken DEF x

\* The leg after which our NEWKEYS goes out.
LEMMA TakeLastLeg ==
  ASSUME NEW r \in Role, NEW d, NEW f, Arrives(r, d, f), IsKexing(d.runner),
         f.t \in {"KEX_INIT", "KEX_REPLY", "GEX_INIT", "GEX_REPLY"}
  PROVE  Takes(r, d, f, HandleInputItem(r, d, f))
<1> DEFINE k == d.runner
           c == AfterDecode(d).codec
           m == Content(f)
           a == Answer(r, d, f)
           x == HandleInputItem(r, d, f)
           e == Epoch(d)
<1>1. IsKexMsg(f.t) /\ f.t # "NEWKEYS"
  BY DEF IsKexMsg, KexMsg
<1>2. /\ d \in DriverState /\ k \in Runner /\ m \in Message /\ c \in Codec /\ m.t = f.t /\ m.body = f.body
      /\ k.advert = e + 1 /\ e \in Nat /\ "peer_newkeys" \notin k.flags
      /\ LegNo(f.t) = InJ(d) + 1 /\ k.phase \in PhasesOf(r) \ {"Idle", "Completed"}
      /\ f.t \in KexOf(Peer(r)) /\ k.sid = (IF OutE(d) = 0 THEN NoKey ELSE <<1, 1>>)
      /\ (f.t \in {"KEXINIT", "KEX_REPLY", "GEX_REPLY"} => f.body = <<e + 1, e + 1>>)
      /\ (InJ(d) > 0 => /\ k.peerAdvert = e + 1
                        /\ "strict_kex" \in k.flags <=> StrictKex
                        /\ e = 0 => "ext_info_enabled" \in k.flags)
  BY <1>1, LegKnown
<1>3. /\ FinishLeg(r, k, f.t) /\ InJ(d) = Legs - 2 /\ InJ(d) > 0
      /\ r = "client" => f.t \in {"KEX_REPLY", "GEX_REPLY"}
  <2>2. InJ(d) = IF f.t \in {"KEX_INIT", "KEX_REPLY"} THEN 1 ELSE 2
    BY <1>2 DEF LegNo, InJ, LegsIn, Legs
  <2>3. CASE r = "client"
    BY <1>2, <2>3, <2>2 DEF KexOf, Peer, PhasesOf, InJ, LegsIn, Legs, FinishLeg
  <2>4. CASE r = "server"
    BY <1>2, <2>4, <2>2 DEF KexOf, Peer, PhasesOf, InJ, LegsIn, Legs, FinishLeg
  <2> QED BY <2>3, <2>4 DEF Role
<1>4. /\ a \in AdvanceType /\ a.err = "none" /\ a.c = c /\ a.out = FinishAnswer(r, k)
      /\ a.k.phase = "AwaitingPeerNewKeys" /\ a.k.advert = k.advert
      /\ a.k.peerAdvert = k.peerAdvert /\ a.k.h = <<k.advert, k.advert>>
      /\ a.k.sid = (IF k.sid = NoKey THEN <<k.advert, k.advert>> ELSE k.sid)
      /\ a.k.flags = (k.flags \ {"accept_ext_info_now"}) \cup {"sent_newkeys"}
  <2>1. k.peerAdvert = k.advert /\ (r = "client" => m.body = <<k.advert, k.advert>>) /\ FinishLeg(r, k, m.t)
    BY <1>2, <1>3
  <2>2. a = OnPacket(r, k, c, m)
    BY DEF Answer
  <2> HIDE DEF k, c, m, a
  <2> QED BY <1>2, <2>1, <2>2, OnLastLeg
<1> HIDE DEF a
<1>5. /\ x \in DriverState /\ a.out \in Seq(Message)
      /\ x.outbox = d.outbox \o Encode(d.codec, a.out) /\ x.runner = a.k
      /\ x.codec.outKey = d.codec.outKey /\ x.codec.inKey = d.codec.inKey
      /\ x.codec.zOut = d.codec.zOut /\ x.codec.zIn = d.codec.zIn
      /\ x.codec.seqIn = AfterDecode(d).codec.seqIn
      /\ x.codec.seqOut = (d.codec.seqOut + Len(a.out)) % SeqMod
      /\ x.phase = d.phase /\ x.deferred = d.deferred /\ x.deferredOut = d.deferredOut
      /\ x.events = d.events /\ x.auth = d.auth /\ x.err = "none"
  <2>2. Applied(d, a, x)
    BY <1>1, <1>4, LegApplied DEF a
  <2> HIDE DEF x
  <2> QED BY <2>2 DEF Applied
<1> HIDE DEF k, c, m, x, e
<1>6. x.runner.sid = <<1, 1>>
  <2>2. OutE(d) = e
    BY <1>2, <1>3, PlaceOf DEF k, e, FinishLeg
  <2> QED BY <1>2, <1>4, <1>5, <2>2 DEF NoKey
<1>7. MidExchange(r, x.runner, e) /\ InJ(x) = InJ(d) + 1
  BY <1>4, <1>5, <1>2, <1>3, <1>6 DEF PhasesOf, LegsIn, Legs, MidExchange, InJ
<1>8. OutJ(r, d) \in Nat /\ OutJ(r, d) = (IF r = "server" THEN Legs - 2 ELSE Legs - 1)
  BY <1>3 DEF FinishLeg, OutJ, LegsOut, Legs, k
<1>9. /\ \A i \in 1..Len(a.out) : LegOK(r, e, OutJ(r, d) + i, a.out[i])
                                  /\ (a.out[i].t = "NEWKEYS" => i = Len(a.out))
      /\ a.out # <<>> /\ a.out[Len(a.out)].t = "NEWKEYS"
  <2>1. Legs \in {3, 4} /\ (Gex <=> Legs = 4)
    BY DEF Legs
  <2>2. CASE r = "server"
    <3> DEFINE t == IF Gex THEN "GEX_REPLY" ELSE "KEX_REPLY"
               q == [t |-> t, body |-> <<e + 1, e + 1>>]
    <3>1. a.out = <<q, Msg("NEWKEYS")>>
      BY <1>2, <1>3, <1>4, <2>2 DEF FinishAnswer
    <3>2. q.t = t /\ q.body = <<e + 1, e + 1>> /\ Msg("NEWKEYS").t = "NEWKEYS"
      BY DEF Msg
    <3>3. LegNo(t) = (Legs - 2) + 1 /\ t \in KexOf(r) /\ LegNo("NEWKEYS") = (Legs - 2) + 2 /\ "NEWKEYS" \in KexOf(r)
      BY <2>1, <2>2 DEF LegNo, KexOf
    <3> HIDE DEF q
    <3>5. Len(a.out) = 2 /\ a.out[1] = q /\ a.out[2] = Msg("NEWKEYS") /\ a.out # <<>>
      BY <3>1
    <3>6. OutJ(r, d) = Legs - 2
      BY <1>8, <2>2
    <3> QED BY <3>2, <3>3, <3>5, <3>6 DEF LegOK
  <2>3. CASE r = "client"
    <3>2. Msg("NEWKEYS").t = "NEWKEYS"
      BY DEF Msg
    <3>4. LegOK(r, e, (Legs - 1) + 1, Msg("NEWKEYS"))
      BY <3>2, <2>1 DEF LegOK, LegNo, KexOf
    <3>5. Len(a.out) = 1 /\ a.out[1] = Msg("NEWKEYS") /\ a.out # <<>>
      BY <1>4, <2>3 DEF FinishAnswer
    <3> QED BY <3>2, <3>4, <3>5, <1>8, <2>3
  <2> QED BY <2>2, <2>3 DEF Role
<1>10. d.runner.advert = e + 1 /\ d.runner.phase # "AwaitingPeerNewKeys"
  BY <1>2, <1>3 DEF k, FinishLeg
<1>11. x.runner.phase = "AwaitingPeerNewKeys"
  BY <1>4, <1>5
<1> QED BY <1>1, <1>5, <1>7, <1>8, <1>9, <1>10, <1>11, LegTaken DEF x, e

---------------------------------------------------------------------------
(* A re-key the peer begins.                                               *)

\* Two messages, one after the other.
LEMMA PairConcat ==
  ASSUME NEW S, NEW a \in S, NEW b \in S
  PROVE  /\ <<a>> \o <<b>> = <<a, b>> /\ <<a, b>> \in Seq(S) /\ Len(<<a, b>>) = 2
         /\ <<a, b>>[1] = a /\ <<a, b>>[2] = b
<1>1. <<a>> \in Seq(S) /\ <<b>> \in Seq(S) /\ <<a, b>> \in Seq(S) /\ Len(<<a>>) = 1 /\ Len(<<b>>) = 1
      /\ Len(<<a, b>>) = 2 /\ <<a, b>>[1] = a /\ <<a, b>>[2] = b /\ <<a>>[1] = a /\ <<b>>[1] = b
  OBVIOUS
<1>2. <<a>> \o <<b>> \in Seq(S) /\ Len(<<a>> \o <<b>>) = 2
      /\ (<<a>> \o <<b>>)[1] = a /\ (<<a>> \o <<b>>)[2] = b
  OBVIOUS
<1> DEFINE p == <<a>> \o <<b>>
           q == <<a, b>>
<1>3. p \in Seq(S) /\ q \in Seq(S) /\ Len(p) = Len(q) /\ \A i \in 1..Len(p) : p[i] = q[i]
  BY <1>1, <1>2
<1> HIDE DEF p, q
<1>4. p = q
  BY <1>3, SeqEqual
<1> QED BY <1>1, <1>4 DEF p, q

\* One message after another, encoded together.
LEMMA EncodeTwo ==
  ASSUME NEW c \in Codec, NEW a \in Message, NEW b \in Message
  PROVE  /\ Encode(c, <<a>>) \o Encode(Encoded(c, <<a>>), <<b>>) = Encode(c, <<a, b>>)
         /\ (((c.seqOut + 1) % SeqMod) + 1) % SeqMod = (c.seqOut + 2) % SeqMod
<1> DEFINE q == Encode(c, <<a>>)
           v == Encoded(c, <<a>>)
           p == Encode(v, <<b>>)
           both == Encode(c, <<a, b>>)
<1>1. c.seqOut \in Nat /\ SeqMod \in Nat \ {0}
  BY SeqModAssumption DEF Codec, SeqNum
<1>2. /\ <<a>> \in Seq(Message) /\ <<b>> \in Seq(Message) /\ <<a, b>> \in Seq(Message)
      /\ Len(<<a>>) = 1 /\ Len(<<b>>) = 1 /\ Len(<<a, b>>) = 2
      /\ <<a>>[1] = a /\ <<b>>[1] = b /\ <<a, b>>[1] = a /\ <<a, b>>[2] = b
  OBVIOUS
<1>3. /\ v \in Codec /\ v.outKey = c.outKey /\ v.zOut = c.zOut /\ v.seqOut = (c.seqOut + 1) % SeqMod
  BY <1>2, EncodedFields
<1>4. /\ q \in Seq(WireFrame) /\ Len(q) = 1 /\ p \in Seq(WireFrame) /\ Len(p) = 1
      /\ both \in Seq(WireFrame) /\ Len(both) = 2
  BY <1>2, <1>3, EncodeFields
<1>5. (((c.seqOut + 1) % SeqMod) + 1) % SeqMod = (c.seqOut + 2) % SeqMod
  <2>1. (c.seqOut + 1) + 1 = c.seqOut + 2 /\ c.seqOut + 1 \in Nat
    BY <1>1
  <2> QED BY <1>1, <2>1, ModStep
<1>6. (((c.seqOut + 1) % SeqMod) + 1 - 1) % SeqMod = (c.seqOut + 2 - 1) % SeqMod
  BY <1>1, ModSmall
<1>7. q[1] = both[1]
  BY <1>2 DEF Encode
<1>8. p[1] = both[2]
  <2>1. p[1] = [t |-> b.t, body |-> b.body, key |-> v.outKey,
                seq |-> (v.seqOut + 1 - 1) % SeqMod, z |-> v.zOut = "on"]
    BY <1>2 DEF Encode
  <2>2. both[2] = [t |-> b.t, body |-> b.body, key |-> c.outKey,
                seq |-> (c.seqOut + 2 - 1) % SeqMod, z |-> c.zOut = "on"]
    BY <1>2 DEF Encode
  <2>3. v.outKey = c.outKey /\ v.zOut = c.zOut /\ (v.seqOut + 1 - 1) % SeqMod = (c.seqOut + 2 - 1) % SeqMod
    BY <1>3, <1>6
  <2> HIDE DEF v, p, both
  <2> QED BY <2>1, <2>2, <2>3, Zenon
<1> HIDE DEF q, p, both, v
<1>9. /\ q \o p \in Seq(WireFrame) /\ Len(q \o p) = 2 /\ (q \o p)[1] = q[1] /\ (q \o p)[2] = p[1]
  <2>2. /\ q \o p \in Seq(WireFrame) /\ Len(q \o p) = Len(q) + Len(p)
        /\ \A n \in 1..Len(q) : (q \o p)[n] = q[n]
        /\ \A n \in 1..Len(p) : (q \o p)[Len(q) + n] = p[n]
    <3>1. q \in Seq(WireFrame) /\ p \in Seq(WireFrame)
      BY <1>4
    <3> QED BY <3>1, ConcatFields
  <2>3. (q \o p)[1] = q[1] /\ (q \o p)[Len(q) + 1] = p[1]
    BY <1>4, <2>2
  <2> QED BY <1>4, <2>2, <2>3
<1>10. q \o p = both
  BY <1>4, <1>7, <1>8, <1>9, SeqEqual
<1> QED BY <1>5, <1>10 DEF q, p, both, v

\* The peer's KEXINIT outside an exchange: ours goes out first.
LEMMA TakeRekey ==
  ASSUME NEW r \in Role, NEW d, NEW f, Arrives(r, d, f), f.t = "KEXINIT", ~IsKexing(d.runner)
  PROVE  Takes(r, d, f, HandleInputItem(r, d, f))
<1> DEFINE k == d.runner
           w == AfterDecode(d)
           m == Content(f)
           b == Restart(k, w.codec)
           s == Apply(w, b)
           a == OnPacket(r, b.k, s.codec, m)
           y == Apply(s, a)
           x == HandleInputItem(r, d, f)
           e == Epoch(d)
           i == KexInit(e + 1)
<1>1. IsKexMsg(f.t) /\ f.t \notin {"NEWKEYS", "DISCONNECT", "PING", "PONG", "EXT_INFO"}
  BY DEF IsKexMsg, KexMsg
<1>2. /\ d \in DriverState /\ KeysOK(r, d) /\ d.err = "none" /\ FrameShape(Peer(r), f)
  BY DEF Arrives
<1>3. /\ x = RoutePacket(r, w, m) /\ w \in DriverState /\ m \in Message /\ w.runner = d.runner
      /\ w.phase = d.phase /\ w.outbox = d.outbox /\ w.deferred = d.deferred
      /\ w.deferredOut = d.deferredOut /\ w.events = d.events /\ w.err = d.err
      /\ w.codec.outKey = d.codec.outKey /\ w.codec.inKey = d.codec.inKey
      /\ w.codec.seqOut = d.codec.seqOut /\ w.codec.zOut = d.codec.zOut /\ w.codec.zIn = d.codec.zIn
      /\ d.runner.phase # "Idle" /\ e \in Nat /\ f.key[1] = e
  BY ArrivalKnown
<1>4. m.t = "KEXINIT" /\ m.body = <<e + 1, e + 1>>
  BY <1>2, <1>3 DEF Content, FrameShape
<1>5. k.phase = "Completed" /\ e > 0 /\ k.advert = e /\ k.sid = <<1, 1>> /\ k \in Runner /\ w.codec \in Codec
      /\ ("strict_kex" \in k.flags => StrictKex)
  <2>1. k.phase = "Completed"
    BY <1>3 DEF IsKexing
  <2>2. OutE(d) = e
    BY <1>2, <2>1, PlaceOf
  <2>3. e > 0 /\ k.advert = e
    BY <1>2, <2>1 DEF KeysOK
  <2>4. e # 0
    BY <1>3, <2>3
  <2> QED BY <1>2, <1>3, <2>1, <2>3, <2>2, <2>4 DEF DriverState, KeysOK
<1>6. /\ b \in AdvanceType /\ b.err = "none" /\ b.c = w.codec /\ b.out = <<i>>
      /\ b.k.phase = "SentKexInit" /\ b.k.advert = e + 1 /\ b.k.sid = k.sid
      /\ b.k.flags = k.flags \cap {"strict_kex"} /\ b.k \in Runner
  <2>1. /\ b \in AdvanceType /\ b.err = "none" /\ b.c = w.codec /\ b.out = <<KexInit(k.advert + 1)>>
        /\ b.k.phase = "SentKexInit" /\ b.k.advert = k.advert + 1 /\ b.k.sid = k.sid
        /\ b.k.flags = k.flags \cap {"strict_kex"}
    <3> HIDE DEF k, w
    <3> QED BY <1>5, OnRestart
  <2>2. b.k \in Runner
    BY <2>1 DEF AdvanceType
  <2> HIDE DEF b
  <2> QED BY <1>5, <2>1, <2>2
<1>auth. w.auth = d.auth
  BY <1>2, DecodeAuth
<1>7. x = RouteKex(r, w, m)
  BY <1>1, <1>3, <1>4 DEF RoutePacket
<1>8. InitiateRekey(w) = s
  BY <1>3 DEF InitiateRekey
<1> HIDE DEF b, w, m, x, i
<1>9. /\ s \in DriverState
      /\ s.outbox = w.outbox \o Encode(b.c, b.out) /\ s.codec = Encoded(b.c, b.out)
      /\ s.runner = b.k /\ s.phase = w.phase
      /\ s.deferred = w.deferred /\ s.deferredOut = w.deferredOut
      /\ s.events = w.events /\ s.auth = w.auth /\ s.err = w.err
  <2> HIDE DEF s
  <2> QED BY <1>3, <1>6, ApplyEffect DEF s
<1> HIDE DEF s
<1>10. s.codec \in Codec /\ i \in Message /\ <<i>> \in Seq(Message) /\ Len(<<i>>) = 1
  BY <1>3, <1>9 DEF i, KexInit, Message, MsgTypes, Key, DriverState
<1>11. /\ a \in AdvanceType /\ a.err = "none" /\ a.c = s.codec /\ a.out = KexinitAnswer(r)
       /\ a.k.phase = KexinitPhase(r) /\ a.k.advert = b.k.advert /\ a.k.peerAdvert = m.body[1]
       /\ a.k.h = b.k.h /\ a.k.sid = b.k.sid
       /\ ("strict_kex" \in a.k.flags <=> ("strict_kex" \in b.k.flags \/ StrictKex))
       /\ (b.k.advert = 1 => "ext_info_enabled" \in a.k.flags)
       /\ ("peer_newkeys" \in a.k.flags <=> "peer_newkeys" \in b.k.flags)
  BY <1>5, <1>6, <1>3, <1>4, <1>10, OnKexinit DEF NoKey
<1> HIDE DEF a
<1>12. KexinitPhase(r) \in PhasesOf(r) \ {"Idle", "SentKexInit", "Completed", "AwaitingPeerNewKeys"}
       /\ LegsIn(KexinitPhase(r)) = 1
  BY GexAssumption DEF Role, KexinitPhase, PhasesOf, LegsIn
<1>13. /\ y \in DriverState
       /\ y.outbox = s.outbox \o Encode(a.c, a.out) /\ y.codec = Encoded(a.c, a.out)
       /\ y.runner = a.k /\ y.phase = s.phase
       /\ y.deferred = s.deferred /\ y.deferredOut = s.deferredOut
       /\ y.events = s.events /\ y.auth = s.auth /\ y.err = s.err
  <2> HIDE DEF y
  <2> QED BY <1>9, <1>11, ApplyEffect DEF y
<1>14. x = y
  <2>1. m.t = "KEXINIT" /\ ~IsKexing(w.runner) /\ s.err = "none"
    BY <1>2, <1>3, <1>4, <1>9
  <2>2. a = OnPacket(r, s.runner, s.codec, m)
    BY <1>9 DEF a
  <2>3. y.runner.phase # "Completed"
    BY <1>11, <1>12, <1>13
  <2> HIDE DEF y
  <2> QED BY <1>7, <1>8, <2>1, <2>2, <2>3 DEF RouteKex, y
<1> HIDE DEF y, k, e
<1>15. y.auth = d.auth
  BY <1>auth, <1>9, <1>13, Zenon
<1>16. /\ y.phase = d.phase /\ y.deferred = d.deferred /\ y.deferredOut = d.deferredOut
       /\ y.events = d.events /\ y.err = "none"
  BY <1>2, <1>3, <1>9, <1>13
<1> DEFINE out == <<i>> \o KexinitAnswer(r)
           v == Encoded(w.codec, <<i>>)
<1>17. /\ v \in Codec /\ s.codec = v /\ v.outKey = w.codec.outKey /\ v.inKey = w.codec.inKey
       /\ v.zOut = w.codec.zOut /\ v.zIn = w.codec.zIn /\ v.seqIn = w.codec.seqIn
       /\ v.seqOut = (w.codec.seqOut + 1) % SeqMod
  BY <1>6, <1>9, <1>5, <1>10, EncodedFields
<1>18. KexinitAnswer(r) \in Seq(Message)
  BY <1>11 DEF AdvanceType
<1>19. /\ Encoded(v, KexinitAnswer(r)).outKey = v.outKey /\ Encoded(v, KexinitAnswer(r)).inKey = v.inKey
       /\ Encoded(v, KexinitAnswer(r)).zOut = v.zOut /\ Encoded(v, KexinitAnswer(r)).zIn = v.zIn
       /\ Encoded(v, KexinitAnswer(r)).seqIn = v.seqIn
       /\ Encoded(v, KexinitAnswer(r)).seqOut = (v.seqOut + Len(KexinitAnswer(r))) % SeqMod
  <2> HIDE DEF v
  <2> QED BY <1>17, <1>18, EncodedFields
<1>20. /\ Encode(w.codec, <<i>>) \o Encode(v, KexinitAnswer(r)) = Encode(w.codec, out)
       /\ (v.seqOut + Len(KexinitAnswer(r))) % SeqMod = (w.codec.seqOut + Len(out)) % SeqMod
       /\ out \in Seq(Message)
  <2>1. w.codec.seqOut \in Nat /\ SeqMod \in Nat \ {0}
    BY <1>5, SeqModAssumption DEF Codec, SeqNum
  <2>2. CASE r = "server"
    <3>1. KexinitAnswer(r) = <<>> /\ Encode(v, <<>>) = <<>>
      BY <2>2 DEF KexinitAnswer, Encode
    <3>2. out = <<i>> /\ Encode(w.codec, <<i>>) \in Seq(WireFrame)
      BY <1>5, <1>10, <3>1, EncodeFields
    <3>4. (w.codec.seqOut + 1) % SeqMod \in Nat /\ (w.codec.seqOut + 1) % SeqMod < SeqMod
      BY <2>1
    <3>5. ((w.codec.seqOut + 1) % SeqMod) % SeqMod = (w.codec.seqOut + 1) % SeqMod
      BY <2>1, <3>4, ModSmall
    <3>6. v.seqOut + Len(KexinitAnswer(r)) = v.seqOut /\ Len(out) = 1
      BY <1>17, <3>1, <3>2, <3>4
    <3> QED BY <1>10, <1>17, <3>1, <3>2, <3>5, <3>6
  <2>3. CASE r = "client"
    <3> DEFINE g == Msg(IF Gex THEN "GEX_REQUEST" ELSE "KEX_INIT")
    <3>1. KexinitAnswer(r) = <<g>> /\ g \in Message
      BY <2>3, MsgType DEF KexinitAnswer, MsgTypes
    <3> HIDE DEF g
    <3>2. out = <<i, g>> /\ Len(out) = 2 /\ Len(<<g>>) = 1 /\ <<i, g>> \in Seq(Message)
      <4>1. out = <<i>> \o <<g>>
        BY <3>1
      <4>2. <<i>> \o <<g>> = <<i, g>> /\ <<i, g>> \in Seq(Message) /\ Len(<<i, g>>) = 2
        BY <1>10, <3>1, PairConcat
      <4> HIDE DEF out
      <4> QED BY <4>1, <4>2
    <3> QED BY <1>17, <3>1, <3>2, <1>5, <1>10, EncodeTwo
  <2> QED BY <2>2, <2>3 DEF Role
<1> HIDE DEF out, v
<1>21. y.outbox = d.outbox \o Encode(d.codec, out)
  <2>1. y.outbox = (d.outbox \o Encode(w.codec, <<i>>)) \o Encode(v, KexinitAnswer(r))
    BY <1>3, <1>6, <1>9, <1>11, <1>13, <1>17
  <2>2. /\ d.outbox \in Seq(WireFrame) /\ Encode(w.codec, <<i>>) \in Seq(WireFrame)
        /\ Encode(v, KexinitAnswer(r)) \in Seq(WireFrame)
    BY <1>2, <1>5, <1>10, EncodeFields, <1>17, <1>18 DEF DriverState
  <2>3. y.outbox = d.outbox \o (Encode(w.codec, <<i>>) \o Encode(v, KexinitAnswer(r)))
    <3> DEFINE p1 == d.outbox
               p2 == Encode(w.codec, <<i>>)
               p3 == Encode(v, KexinitAnswer(r))
    <3>1. p1 \in Seq(WireFrame) /\ p2 \in Seq(WireFrame) /\ p3 \in Seq(WireFrame)
      BY <2>2
    <3> HIDE DEF p1, p2, p3
    <3>2. (p1 \o p2) \o p3 = p1 \o (p2 \o p3)
      BY <3>1, ConcatAssociative
    <3> QED BY <2>1, <3>2 DEF p1, p2, p3
  <2> QED BY <1>20, <2>3, <1>3, EncodeSame
<1>22. /\ y.codec.outKey = d.codec.outKey /\ y.codec.inKey = d.codec.inKey
       /\ y.codec.zOut = d.codec.zOut /\ y.codec.zIn = d.codec.zIn
       /\ y.codec.seqIn = AfterDecode(d).codec.seqIn
       /\ y.codec.seqOut = (d.codec.seqOut + Len(out)) % SeqMod
  BY <1>11, <1>13, <1>17, <1>3, <1>19, <1>20 DEF w
<1>23. InJ(d) = 0 /\ OutJ(r, d) = 0 /\ d.runner.phase # "AwaitingPeerNewKeys"
  BY <1>2, <1>5, PlaceOf DEF k
<1>24. MidExchange(r, y.runner, Epoch(d)) /\ InJ(y) = InJ(d) + 1 /\ y.runner.phase # "AwaitingPeerNewKeys"
       /\ y.runner.sid = d.runner.sid
  BY <1>3, <1>4, <1>5, <1>6, <1>11, <1>12, <1>13, <1>23 DEF MidExchange, InJ, e, k
<1>25. /\ \A h \in 1..Len(out) : LegOK(r, Epoch(d), OutJ(r, d) + h, out[h]) /\ out[h].t # "NEWKEYS"
       /\ OutJ(r, y) = OutJ(r, d) + Len(out)
  <2>1. LegOK(r, e, 1, i) /\ i.t # "NEWKEYS"
    BY DEF LegOK, i, KexInit, KexOf, LegNo
  <2>2. CASE r = "server"
    BY <1>11, <1>13, <2>2, <1>23, <2>1 DEF KexinitAnswer, KexinitPhase, out, OutJ, LegsOut, e
  <2>3. CASE r = "client"
    <3> DEFINE g == Msg(IF Gex THEN "GEX_REQUEST" ELSE "KEX_INIT")
    <3>1. KexinitAnswer(r) = <<g>> /\ y.runner.phase = IF Gex THEN "GexClientAwaitGroup" ELSE "Negotiated"
      BY <1>11, <1>13, <2>3 DEF KexinitAnswer, KexinitPhase
    <3>2. g.t = IF Gex THEN "GEX_REQUEST" ELSE "KEX_INIT"
      BY DEF Msg
    <3> HIDE DEF g
    <3>3. LegOK(r, e, 2, g) /\ g.t # "NEWKEYS"
      BY <2>3, <3>2 DEF LegOK, KexOf, LegNo
    <3>4. Len(out) = 2 /\ out[1] = i /\ out[2] = g
      BY MsgType, <3>1, <1>10, PairConcat DEF g, MsgTypes, out
    <3>5. OutJ(r, y) = 2
      BY <2>3, <3>1, GexAssumption DEF OutJ, LegsOut
    <3> QED BY <1>23, <2>1, <3>3, <3>4, <3>5 DEF e
  <2> QED BY <2>2, <2>3 DEF Role
<1>26. d.runner.advert = Epoch(d) /\ f.t = "KEXINIT" /\ Epoch(d) > 0 /\ f.t # "NEWKEYS" /\ OutJ(r, d) \in Nat
  BY <1>5, <1>23 DEF k, e
<1>27. y \in DriverState /\ out \in Seq(Message)
  BY <1>13, <1>20
<1>28. Takes(r, d, f, y)
  BY <1>1, <1>15, <1>16, <1>21, <1>22, <1>23, <1>24, <1>25, <1>26, <1>27, LegTaken
<1> QED BY <1>14, <1>28 DEF x

---------------------------------------------------------------------------
(* The peer's NEWKEYS.                                                     *)

\* Nothing is encoded to nothing, and leaves the codec's numbers alone.
LEMMA EncodeNothing ==
  ASSUME NEW c \in Codec
  PROVE  /\ Encode(c, <<>>) = <<>> /\ <<>> \in Seq(Message) /\ Len(<<>>) = 0
         /\ Encoded(c, <<>>) \in Codec /\ Encoded(c, <<>>).outKey = c.outKey
         /\ Encoded(c, <<>>).inKey = c.inKey /\ Encoded(c, <<>>).seqOut = c.seqOut
         /\ Encoded(c, <<>>).seqIn = c.seqIn
         /\ Encoded(c, <<>>).zOut = c.zOut /\ Encoded(c, <<>>).zIn = c.zIn
<1>1. <<>> \in Seq(Message) /\ Len(<<>>) = 0
  OBVIOUS
<1>2. Encode(c, <<>>) = <<>>
  BY DEF Encode
<1>4. c.seqOut + 0 = c.seqOut /\ c.seqOut % SeqMod = c.seqOut
  BY SeqModAssumption, ModSmall DEF Codec, SeqNum
<1> QED BY <1>1, <1>2, <1>4, EncodedFields

\* What an exchange's end puts on the wire under the new keys: the EXT_INFO of
\* the first one, or what later ones held back.
Released(d, a) == IF Epoch(d) = 0 THEN a.out ELSE d.deferredOut

\* x is d with NEWKEYS decoded, the runner's answer a applied and the queues drained.
Renewed(d, a, x) ==
    LET k == d.runner
        s == "strict_kex" \in k.flags
    IN  /\ k.phase = "AwaitingPeerNewKeys" /\ Epoch(d) \in Nat
        /\ a \in AdvanceType /\ a.c \in Codec
        /\ a.c.outKey = k.h /\ a.c.seqOut = (IF s THEN 0 ELSE d.codec.seqOut)
        /\ a.c.zOut = (IF Compression = "zlib" THEN "on" ELSE "none")
        /\ a.out = <<>> \/ (k.advert = 1 /\ a.out = <<Msg("EXT_INFO")>>)
        /\ a.k \in Runner /\ a.k.phase = "Completed" /\ a.k.advert = k.advert /\ a.k.sid = k.sid
        /\ ("strict_kex" \in a.k.flags <=> s)
        /\ (k.advert = 1 /\ "ext_info_enabled" \in k.flags => "accept_ext_info_now" \in a.k.flags)
        /\ x \in DriverState
        /\ x.outbox = (d.outbox \o Encode(a.c, a.out)) \o Encode(Encoded(a.c, a.out), d.deferredOut)
        /\ x.codec = Encoded(Encoded(a.c, a.out), d.deferredOut)
        /\ a.c.inKey = k.h /\ a.c.zIn = a.c.zOut
        /\ a.c.seqIn = (IF s THEN 0 ELSE (d.codec.seqIn + 1) % SeqMod)
        /\ x.runner = (IF d.deferred = <<>> THEN a.k ELSE CloseExtInfoWindow(a.k))
        /\ x.phase = "PostKex" /\ x.deferred = <<>> /\ x.deferredOut = <<>>
        /\ x.events = (IF Epoch(d) = 0 THEN Append(d.events, Msg("HandshakeComplete"))
                                       ELSE d.events) \o d.deferred
        /\ x.err = "none"

\* What the peer's NEWKEYS does.
LEMMA NewkeysDone ==
  ASSUME Agreed, NEW r \in Role, NEW d, NEW f, Arrives(r, d, f), f.t = "NEWKEYS"
  PROVE  /\ Renewed(d, Answer(r, d, f), HandleInputItem(r, d, f))
         /\ HandleInputItem(r, d, f).auth = d.auth
<1> DEFINE k == d.runner
           w == AfterDecode(d)
           m == Content(f)
           a == Answer(r, d, f)
           y == Apply(w, a)
           z == ExchangeDone(y)
           x == HandleInputItem(r, d, f)
           s == "strict_kex" \in k.flags
<1>1. IsKexMsg(f.t) /\ f.t \notin {"DISCONNECT", "PING", "PONG", "EXT_INFO", "KEXINIT"}
  BY DEF IsKexMsg, KexMsg
<1>2. /\ d \in DriverState /\ KeysOK(r, d) /\ d.err = "none" /\ d.phase # "AwaitingVersion"
  BY DEF Arrives
<1>3. /\ x = RoutePacket(r, w, m) /\ w \in DriverState /\ m \in Message /\ w.runner = d.runner
      /\ w.phase = d.phase /\ w.outbox = d.outbox /\ w.deferred = d.deferred
      /\ w.deferredOut = d.deferredOut /\ w.events = d.events /\ w.err = d.err
      /\ w.codec.seqOut = d.codec.seqOut /\ w.codec.seqIn = (d.codec.seqIn + 1) % SeqMod
      /\ d.phase = (IF Epoch(d) > 0 THEN "PostKex" ELSE "Kex")
      /\ Epoch(d) \in Nat /\ LegNo(f.t) = InJ(d) + 1
  BY <1>1, ArrivalKnown
<1>4. m.t = "NEWKEYS"
  BY DEF Content
<1>5. k.phase = "AwaitingPeerNewKeys"
  <2>1. InJ(d) + 1 = Legs /\ k.phase \in PhasesOf(r)
    BY <1>2, <1>3 DEF LegNo, KeysOK
  <2>2. InJ(d) = LegsIn(k.phase)
    BY DEF InJ
  <2> HIDE DEF k
  <2>3. CASE Gex
    BY <2>1, <2>2, <2>3 DEF Legs, LegsIn, PhasesOf
  <2>4. CASE ~Gex
    BY <2>1, <2>2, <2>4 DEF Legs, LegsIn, PhasesOf
  <2> QED BY <2>3, <2>4
<1>6. "sent_newkeys" \in k.flags /\ k \in Runner /\ w.codec \in Codec
  BY <1>2, <1>3, <1>5 DEF KeysOK, DriverState
<1>auth. w.auth = d.auth
  BY <1>2, DecodeAuth
<1>7. /\ a \in AdvanceType /\ a.err = "none"
      /\ a.c \in Codec /\ a.c.outKey = k.h /\ a.c.inKey = k.h
      /\ a.c.zOut = (IF Compression = "zlib" THEN "on" ELSE "none") /\ a.c.zIn = a.c.zOut
      /\ a.c.seqOut = (IF s THEN 0 ELSE w.codec.seqOut) /\ a.c.seqIn = (IF s THEN 0 ELSE w.codec.seqIn)
      /\ a.out = <<>> \/ (k.advert = 1 /\ a.out = <<Msg("EXT_INFO")>>)
      /\ a.k.phase = "Completed" /\ a.k.advert = k.advert /\ a.k.sid = k.sid
      /\ ("strict_kex" \in a.k.flags <=> s)
      /\ (k.advert = 1 /\ "ext_info_enabled" \in k.flags => "accept_ext_info_now" \in a.k.flags)
  <2>1. a = OnPacket(r, k, w.codec, m)
    BY DEF Answer
  <2> HIDE DEF a, k, w, m, s
  <2> QED BY <2>1, <1>3, <1>4, <1>5, <1>6, OnNewkeys DEF s
<1>8. a.k \in Runner
  BY <1>7 DEF AdvanceType
<1>9. /\ y \in DriverState
      /\ y.outbox = w.outbox \o Encode(a.c, a.out) /\ y.codec = Encoded(a.c, a.out)
      /\ y.runner = a.k /\ y.phase = w.phase
      /\ y.deferred = w.deferred /\ y.deferredOut = w.deferredOut
      /\ y.events = w.events /\ y.auth = w.auth /\ y.err = w.err
  <2> HIDE DEF a, w
  <2> QED BY <1>3, <1>7, ApplyEffect
<1>10. x = z
  <2>1. x = RouteKex(r, w, m)
    BY <1>1, <1>3, <1>4 DEF RoutePacket
  <2>2. a = OnPacket(r, w.runner, w.codec, m)
    BY <1>3 DEF Answer
  <2>3. w.err = "none" /\ y.err = "none" /\ y.runner.phase = "Completed" /\ m.t # "KEXINIT"
    BY <1>2, <1>3, <1>4, <1>7, <1>9
  <2> HIDE DEF x, w, m, a
  <2> QED BY <2>1, <2>2, <2>3 DEF RouteKex
<1> HIDE DEF y
<1>11. /\ z \in DriverState
       /\ z.outbox = y.outbox \o Encode(y.codec, y.deferredOut)
       /\ z.codec = Encoded(y.codec, y.deferredOut)
       /\ z.runner = (IF y.deferred = <<>> THEN y.runner ELSE CloseExtInfoWindow(y.runner))
       /\ z.phase = (IF y.phase = "Kex" THEN "PostKex" ELSE y.phase)
       /\ z.deferred = <<>> /\ z.deferredOut = <<>>
       /\ z.events = (IF y.phase = "Kex" THEN Append(y.events, Msg("HandshakeComplete"))
                                         ELSE y.events) \o y.deferred
       /\ z.auth = y.auth /\ z.err = y.err
  BY <1>9, DoneEffect
<1> HIDE DEF z, x, w, m, a, s, k
<1>12. x.auth = d.auth
  BY <1>auth, <1>9, <1>10, <1>11, Zenon
<1>13. x.phase = "PostKex" /\ (y.phase = "Kex" <=> Epoch(d) = 0)
  BY <1>3, <1>9, <1>10, <1>11
<1>14. /\ x \in DriverState
       /\ x.outbox = (d.outbox \o Encode(a.c, a.out)) \o Encode(Encoded(a.c, a.out), d.deferredOut)
       /\ x.codec = Encoded(Encoded(a.c, a.out), d.deferredOut)
       /\ x.runner = (IF d.deferred = <<>> THEN a.k ELSE CloseExtInfoWindow(a.k))
       /\ x.deferred = <<>> /\ x.deferredOut = <<>> /\ x.err = "none"
  BY <1>2, <1>3, <1>9, <1>10, <1>11
<1>15. x.events = (IF Epoch(d) = 0 THEN Append(d.events, Msg("HandshakeComplete"))
                                   ELSE d.events) \o d.deferred
  BY <1>3, <1>9, <1>10, <1>11, <1>13
<1>16. /\ a.c.seqOut = (IF s THEN 0 ELSE d.codec.seqOut)
       /\ a.c.seqIn = (IF s THEN 0 ELSE (d.codec.seqIn + 1) % SeqMod)
  BY <1>3, <1>7
<1>17. Renewed(d, a, x)
  BY <1>3, <1>5, <1>7, <1>8, <1>13, <1>14, <1>15, <1>16 DEF Renewed, s, k
<1> QED BY <1>12, <1>17 DEF x, a

\* What goes out at the end of an exchange, in one run.
LEMMA NewkeysWire ==
  ASSUME Agreed, NEW r \in Role, NEW d, NEW f, Arrives(r, d, f), f.t = "NEWKEYS"
  PROVE  LET a == Answer(r, d, f)
             x == HandleInputItem(r, d, f)
             ms == Released(d, a)
         IN  /\ ms \in Seq(Message) /\ x.outbox = d.outbox \o Encode(a.c, ms)
             /\ x.codec.outKey = a.c.outKey /\ x.codec.inKey = a.c.inKey
             /\ x.codec.zOut = a.c.zOut /\ x.codec.zIn = a.c.zIn /\ x.codec.seqIn = a.c.seqIn
             /\ x.codec.seqOut = (a.c.seqOut + Len(ms)) % SeqMod
             /\ \A i \in 1..Len(ms) : /\ ms[i].t \in AppTypes \cup {"EXT_INFO"}
                                      /\ ms[i].t = "EXT_INFO" => i = 1 /\ Epoch(d) = 0
             /\ Flow(r, d, x)
<1> DEFINE a == Answer(r, d, f)
           x == HandleInputItem(r, d, f)
           ms == Released(d, a)
           v == Encoded(a.c, a.out)
           q == d.deferredOut
<1>1. /\ d \in DriverState /\ KeysOK(r, d)
  BY DEF Arrives
<1>r. Renewed(d, a, x)
  BY NewkeysDone
<1> HIDE DEF a, x
<1>2. /\ d.runner.phase = "AwaitingPeerNewKeys" /\ Epoch(d) \in Nat
      /\ a \in AdvanceType /\ a.c \in Codec
      /\ a.out = <<>> \/ (d.runner.advert = 1 /\ a.out = <<Msg("EXT_INFO")>>)
      /\ x \in DriverState /\ x.outbox = (d.outbox \o Encode(a.c, a.out)) \o Encode(v, q)
      /\ x.codec = Encoded(v, q) /\ x.deferredOut = <<>>
  BY <1>r DEF Renewed
<1>3. /\ d.runner.advert = Epoch(d) + 1 /\ (Epoch(d) = 0 => q = <<>>)
      /\ \A i \in DOMAIN q : q[i].t \in AppTypes
  BY <1>2, <1>1 DEF IsKexing, KeysOK
<1>4. a.out \in Seq(Message) /\ q \in Seq(Message) /\ d.outbox \in Seq(WireFrame)
  BY <1>1, <1>2 DEF AdvanceType, DriverState
<1>5. /\ v \in Codec /\ v.outKey = a.c.outKey /\ v.inKey = a.c.inKey
      /\ v.zOut = a.c.zOut /\ v.zIn = a.c.zIn /\ v.seqIn = a.c.seqIn
      /\ v.seqOut = (a.c.seqOut + Len(a.out)) % SeqMod
  BY <1>2, <1>4, EncodedFields
<1>6. a.c.seqOut \in Nat /\ SeqMod \in Nat \ {0} /\ Len(a.out) \in Nat
  BY <1>2, <1>4, SeqModAssumption DEF Codec, SeqNum
<1> HIDE DEF a, x, ms, v, q
<1>7. CASE Epoch(d) = 0
  <2>1. q = <<>> /\ ms = a.out
    BY <1>3, <1>7 DEF ms, Released
  <2>2. Encode(a.c, a.out) \in Seq(WireFrame)
    BY <1>2, <1>4, EncodeFields
  <2>3. d.outbox \o Encode(a.c, a.out) \in Seq(WireFrame)
    <3> DEFINE p1 == d.outbox
               p2 == Encode(a.c, a.out)
    <3>1. p1 \in Seq(WireFrame) /\ p2 \in Seq(WireFrame)
      BY <1>4, <2>2
    <3> HIDE DEF p1, p2
    <3> QED BY <3>1, ConcatFields DEF p1, p2
  <2>4. Encode(v, q) = <<>>
    BY <1>5, <2>1, EncodeNothing
  <2>5. x.outbox = d.outbox \o Encode(a.c, ms)
    <3> DEFINE p == d.outbox \o Encode(a.c, a.out)
    <3>1. p \in Seq(WireFrame)
      BY <2>3
    <3> HIDE DEF p
    <3>2. p \o <<>> = p
      BY <3>1
    <3> QED BY <1>2, <2>1, <2>4, <3>2 DEF p
  <2>6. /\ x.codec.outKey = v.outKey /\ x.codec.inKey = v.inKey /\ x.codec.zOut = v.zOut
        /\ x.codec.zIn = v.zIn /\ x.codec.seqIn = v.seqIn /\ x.codec.seqOut = v.seqOut
    BY <1>2, <1>5, <2>1, EncodeNothing
  <2>7. \A i \in 1..Len(ms) : /\ ms[i].t \in AppTypes \cup {"EXT_INFO"}
                              /\ ms[i].t = "EXT_INFO" => i = 1 /\ Epoch(d) = 0
    <3>1. CASE a.out = <<>>
      BY <2>1, <3>1
    <3>2. CASE a.out = <<Msg("EXT_INFO")>>
      BY <1>7, <2>1, <3>2 DEF Msg
    <3> QED BY <1>2, <3>1, <3>2
  <2>8. Flow(r, d, x)
    <3>1. \A i \in DOMAIN Encode(a.c, ms) : ~IsItem(Encode(a.c, ms)[i])
      <4>1. CASE a.out = <<>>
        BY <1>2, <2>1, <4>1, EncodeNothing
      <4>2. CASE a.out = <<Msg("EXT_INFO")>>
        <5>1. Len(ms) = 1 /\ ms[1].t = "EXT_INFO" /\ ms \in Seq(Message)
          BY <1>4, <2>1, <4>2 DEF Msg
        <5> DEFINE o == Encode(a.c, ms)
        <5>2. o \in Seq(WireFrame) /\ Len(o) = 1 /\ o[1].t = "EXT_INFO"
          BY <1>2, <5>1, EncodeFields
        <5> HIDE DEF o
        <5> QED BY <5>2 DEF IsItem, ItemTypes, o
      <4> QED BY <1>2, <4>1, <4>2
    <3> QED BY <1>1, <1>2, <2>5, <3>1, <2>1, <2>2, FlowSame DEF q
  <2> QED BY <1>4, <1>5, <2>1, <2>5, <2>6, <2>7, <2>8 DEF a, x, ms
<1>8. CASE Epoch(d) # 0
  <2>1. a.out = <<>> /\ ms = q
    BY <1>2, <1>3, <1>8 DEF ms, Released, q
  <2>2. /\ v.seqOut = a.c.seqOut /\ Encode(a.c, a.out) = <<>>
    BY <1>2, <2>1, EncodeNothing DEF v
  <2>3. Encode(v, q) = Encode(a.c, q)
    BY <1>5, <2>2, EncodeSame
  <2>4. d.outbox \o <<>> = d.outbox
    BY <1>4
  <2>5. x.outbox = d.outbox \o Encode(a.c, ms)
    BY <1>2, <2>1, <2>2, <2>3, <2>4
  <2>6. /\ x.codec.outKey = v.outKey /\ x.codec.inKey = v.inKey /\ x.codec.zOut = v.zOut
        /\ x.codec.zIn = v.zIn /\ x.codec.seqIn = v.seqIn
        /\ x.codec.seqOut = (v.seqOut + Len(q)) % SeqMod
    BY <1>2, <1>4, <1>5, EncodedFields
  <2>7. \A i \in 1..Len(ms) : /\ ms[i].t \in AppTypes \cup {"EXT_INFO"}
                              /\ ms[i].t = "EXT_INFO" => i = 1 /\ Epoch(d) = 0
    BY <1>3, <1>4, <2>1 DEF AppTypes, ItemTypes
  <2>8. Flow(r, d, x)
    BY <2>1, <2>5, <1>1, <1>2, FlowDrain DEF q
  <2> QED BY <1>4, <1>5, <2>1, <2>2, <2>5, <2>6, <2>7, <2>8 DEF a, x, ms
<1> QED BY <1>7, <1>8

\* The exchange is over.
LEMMA TakeNewkeys ==
  ASSUME Agreed, NEW r \in Role, NEW d, NEW f, Arrives(r, d, f), f.t = "NEWKEYS"
  PROVE  Takes(r, d, f, HandleInputItem(r, d, f))
<1> DEFINE k == d.runner
           a == Answer(r, d, f)
           x == HandleInputItem(r, d, f)
           e == Epoch(d)
           ms == Released(d, a)
<1>1. /\ d \in DriverState /\ KeysOK(r, d) /\ f.key = <<e, e>> /\ f.seq = d.codec.seqIn
  BY DEF Arrives, Fits
<1>r. Renewed(d, a, x)
  BY NewkeysDone
<1>w. /\ ms \in Seq(Message) /\ x.outbox = d.outbox \o Encode(a.c, ms)
      /\ x.codec.outKey = a.c.outKey /\ x.codec.inKey = a.c.inKey
      /\ x.codec.zOut = a.c.zOut /\ x.codec.zIn = a.c.zIn /\ x.codec.seqIn = a.c.seqIn
      /\ x.codec.seqOut = (a.c.seqOut + Len(ms)) % SeqMod
      /\ \A i \in 1..Len(ms) : /\ ms[i].t \in AppTypes \cup {"EXT_INFO"}
                               /\ ms[i].t = "EXT_INFO" => i = 1 /\ e = 0
      /\ Flow(r, d, x)
  BY NewkeysWire
<1>auth. x.auth = d.auth
  BY NewkeysDone
<1> HIDE DEF a, x, ms
<1>2. /\ k.phase = "AwaitingPeerNewKeys" /\ e \in Nat
      /\ a.c \in Codec /\ a.c.outKey = k.h /\ a.c.inKey = k.h
      /\ a.c.seqOut = (IF "strict_kex" \in k.flags THEN 0 ELSE d.codec.seqOut)
      /\ a.c.zOut = (IF Compression = "zlib" THEN "on" ELSE "none") /\ a.c.zIn = a.c.zOut
      /\ a.c.seqIn = (IF "strict_kex" \in k.flags THEN 0 ELSE (d.codec.seqIn + 1) % SeqMod)
      /\ a.k \in Runner /\ a.k.phase = "Completed" /\ a.k.advert = k.advert /\ a.k.sid = k.sid
      /\ ("strict_kex" \in a.k.flags <=> "strict_kex" \in k.flags)
      /\ (k.advert = 1 /\ "ext_info_enabled" \in k.flags => "accept_ext_info_now" \in a.k.flags)
  BY <1>r DEF Renewed
<1>3. /\ x \in DriverState
      /\ x.runner = (IF d.deferred = <<>> THEN a.k ELSE CloseExtInfoWindow(a.k))
      /\ x.phase = "PostKex" /\ x.deferred = <<>> /\ x.deferredOut = <<>>
      /\ x.events = (IF e = 0 THEN Append(d.events, Msg("HandshakeComplete"))
                              ELSE d.events) \o d.deferred
      /\ x.err = "none"
  BY <1>r DEF Renewed
<1>4. /\ ms \in Seq(Message) /\ x.outbox = d.outbox \o Encode(a.c, ms)
      /\ x.codec.outKey = a.c.outKey /\ x.codec.inKey = a.c.inKey
      /\ x.codec.zOut = a.c.zOut /\ x.codec.zIn = a.c.zIn /\ x.codec.seqIn = a.c.seqIn
      /\ x.codec.seqOut = (a.c.seqOut + Len(ms)) % SeqMod
      /\ \A i \in 1..Len(ms) : /\ ms[i].t \in AppTypes \cup {"EXT_INFO"}
                               /\ ms[i].t = "EXT_INFO" => i = 1 /\ e = 0
      /\ Flow(r, d, x)
  BY <1>w
<1>5. /\ IsKexing(k) /\ InJ(d) > 0 /\ Legs \in {3, 4}
  BY GexAssumption, <1>2 DEF Legs, InJ, LegsIn, IsKexing
<1>6. /\ k.advert = e + 1 /\ k.h = <<e + 1, e + 1>> /\ k.sid = <<1, 1>>
      /\ ("strict_kex" \in k.flags <=> StrictKex) /\ (e = 0 => "ext_info_enabled" \in k.flags)
      /\ d.codec.outKey = <<e, e>> /\ (e = 0 => d.deferred = <<>>)
  <2>1. OutE(d) = e + 1
    BY <1>1, <1>2, PlaceOf
  <2>2. OutE(d) # 0
    BY <1>2, <2>1
  <2> QED BY <1>1, <1>2, <1>5, <2>2 DEF KeysOK
<1>7. /\ x.runner.phase = "Completed" /\ x.runner.advert = e + 1 /\ x.runner.sid = <<1, 1>>
      /\ ("strict_kex" \in x.runner.flags => StrictKex)
      /\ (e = 0 => "accept_ext_info_now" \in x.runner.flags)
  <2>1. CASE d.deferred = <<>>
    BY <1>2, <1>3, <1>6, <2>1
  <2>2. CASE d.deferred # <<>>
    BY <1>3, <1>6, <2>2, <1>2, WindowFields
  <2> QED BY <2>1, <2>2
<1>8. /\ OutE(d) = e + 1 /\ OutJ(r, d) = 0 /\ OutS(d) = (IF StrictKex THEN 0 ELSE d.codec.seqOut)
      /\ Epoch(x) = e + 1 /\ InJ(x) = 0 /\ OutE(x) = e + 1 /\ OutJ(r, x) = 0
  <2>2. Epoch(x) = e + 1
    BY <1>2, <1>4, <1>6 DEF Epoch
  <2>3. InJ(x) = 0 /\ OutJ(r, x) = 0 /\ OutE(x) = Epoch(x)
    BY <1>3, <1>7, PlaceOf
  <2> QED BY <1>1, <1>2, PlaceOf, <2>2, <2>3
<1> HIDE DEF e, k
<1>9. Sends(r, d, x, Encode(a.c, ms))
  <2>1. OutE(d) > 0 /\ OutJ(r, d) = 0 /\ Epoch(d) <= OutE(d) /\ d.runner.advert <= x.runner.advert
    BY <1>2, <1>6, <1>7, <1>8 DEF e, k
  <2>2. a.c.outKey = <<OutE(d), OutE(d)>> /\ a.c.seqOut = OutS(d)
    BY <1>2, <1>6, <1>8
  <2>3. \A i \in 1..Len(ms) : /\ ms[i].t \in AppTypes \cup {"EXT_INFO"}
                              /\ ms[i].t = "EXT_INFO" => i = 1 /\ Epoch(d) = 0 /\ OutE(d) = 1
    BY <1>2, <1>4, <1>8 DEF e
  <2>4. x.codec.seqOut = (OutS(d) + Len(ms)) % SeqMod
    BY <1>4, <2>2
  <2> QED BY <1>1, <1>2, <1>3, <1>4, <1>7, <2>1, <2>2, <2>3, <2>4, AppSend
<1>10. Fresh(d, x)
  <2>2. x.codec.outKey[1] > d.codec.outKey[1] /\ x.codec.outKey[2] > d.codec.outKey[2]
    BY <1>2, <1>6, <1>4
  <2> QED BY <2>2 DEF Fresh
<1>11. KeysOK(r, x)
  BY <1>2, <1>4, <1>6, <1>8, <1>7, <1>3 DEF PhasesOf, IsKexing, KeysOK
<1>12. Moves(r, d, x)
  BY <1>3, <1>9, <1>10, <1>11 DEF Moves
<1>13. AfterE(f) = e + 1 /\ AfterJ(f) = 0 /\ x.codec.seqIn = AfterS(f)
  BY <1>1, <1>2, <1>4, <1>6 DEF AfterE, AfterJ, AfterS
<1>14. Epoch(d) = 0 => ExtReady(x)
  BY <1>3, <1>7, <1>8 DEF ExtReady, e
<1>15. Surfaces(d, f, x)
  <2>1. ~IsItem(f)
    BY DEF IsItem, ItemTypes
  <2>2. d.events \in Seq(Message)
    BY <1>1 DEF DriverState
  <2>3. CASE e = 0
    <3>3. Append(d.events, Msg("HandshakeComplete")) \o <<>> = Append(d.events, Msg("HandshakeComplete"))
      BY <2>2, MsgType DEF MsgTypes
    <3>4. Epoch(d) = 0 /\ Epoch(x) > 0
      BY <1>2, <1>8, <2>3 DEF e
    <3> QED BY <2>1, <1>3, <1>6, <2>3, <3>3, <3>4 DEF Surfaces
  <2>4. CASE e # 0
    <3>1. Epoch(d) > 0 /\ Epoch(x) > 0 /\ x.deferred = <<>> /\ x.events = d.events \o d.deferred
      <4>2. e > 0 /\ e + 1 > 0
        BY <1>2, <2>4
      <4> QED BY <1>8, <1>3, <2>4, <4>2 DEF e
    <3> QED BY <2>1, <3>1 DEF Surfaces
  <2> QED BY <2>3, <2>4
<1>16. /\ x.err = "none" /\ x.phase # "AwaitingVersion" /\ x.runner.phase # "Idle"
       /\ Epoch(x) <= AfterE(f) /\ Epoch(x) = AfterE(f) /\ InJ(x) = AfterJ(f)
       /\ x.runner.advert = d.runner.advert
  BY <1>2, <1>3, <1>6, <1>7, <1>8, <1>13 DEF k
<1>17. Takes(r, d, f, x)
  BY <1>auth, <1>4, <1>12, <1>13, <1>14, <1>15, <1>16 DEF Takes
<1> QED BY <1>17 DEF x

\* Whatever arrives is taken.
LEMMA TakeAny ==
  ASSUME Agreed, NEW r \in Role, NEW d, NEW f, Arrives(r, d, f)
  PROVE  Takes(r, d, f, HandleInputItem(r, d, f))
<1>1. /\ LegNo(f.t) = (IF IsKexMsg(f.t) THEN InJ(d) + 1 ELSE InJ(d))
      /\ IF IsKexMsg(f.t) THEN f.t \in KexOf(Peer(r))
         ELSE f.t \in AppTypes \cup {"EXT_INFO"} /\ Epoch(d) > 0 /\ InJ(d) = 0
      /\ d.runner.phase # "Idle"
  BY ArrivalKnown
<1>2. d \in DriverState /\ KeysOK(r, d)
  BY DEF Arrives
<1>3. CASE ~IsKexMsg(f.t)
  BY <1>1, <1>3, TakePing, TakePong, TakeExtInfo, TakeItem DEF AppTypes, IsItem
<1>4. CASE IsKexMsg(f.t)
  <2>1. CASE f.t = "KEXINIT"
    BY <2>1, TakeKexinit, TakeRekey
  <2>2. CASE f.t = "NEWKEYS"
    BY <2>2, TakeNewkeys
  <2>3. CASE f.t \notin {"KEXINIT", "NEWKEYS"}
    BY <1>4, <2>3, <1>1, <1>2, PlaceOf, TakeGexLeg, TakeLastLeg DEF IsKexMsg, KexMsg, LegNo,
       IsKexing
  <2> QED BY <2>1, <2>2, <2>3
<1> QED BY <1>3, <1>4

---------------------------------------------------------------------------
(* A re-key we begin, and the identification line.                         *)

\* A KEXINIT alone.
LEMMA KexInitAlone ==
  ASSUME NEW r \in Role, NEW n \in Nat
  PROVE  /\ KexInit(n) \in Message /\ <<KexInit(n)>> \in Seq(Message) /\ Len(<<KexInit(n)>>) = 1
         /\ <<KexInit(n)>>[1] = KexInit(n) /\ KexInit(n).t = "KEXINIT"
         /\ \A e \in Nat : n = e + 1 => LegOK(r, e, 1, KexInit(n))
BY DEF KexInit, Message, MsgTypes, Key, LegOK, KexOf, LegNo

\* initiate_rekey, from a timer or the user.
LEMMA RekeyMoves ==
  ASSUME NEW r \in Role, NEW d \in DriverState, KeysOK(r, d), d.err = "none",
         d.runner.phase = "Completed"
  PROVE  LET x == InitiateRekey(d)
         IN  /\ Moves(r, d, x) /\ Stays(d, x) /\ Flow(r, d, x) /\ x.err = "none"
             /\ x.events = d.events /\ x.auth = d.auth /\ x.runner.phase # "Idle"
<1> DEFINE k == d.runner
           b == Restart(k, d.codec)
           x == InitiateRekey(d)
           e == Epoch(d)
           out == <<KexInit(e + 1)>>
<1>1. k \in Runner /\ d.codec \in Codec /\ e \in Nat /\ k.advert = e /\ e > 0
      /\ ("strict_kex" \in k.flags => StrictKex) /\ d.deferredOut = <<>> /\ d.deferred = <<>>
      /\ OutE(d) = e /\ OutJ(r, d) = 0 /\ InJ(d) = 0
  <2>2. k.advert = e /\ e > 0 /\ ("strict_kex" \in k.flags => StrictKex)
    BY DEF KeysOK
  <2>3. ~IsKexing(d.runner)
    BY DEF IsKexing
  <2> QED BY PlaceType, <2>2, <2>3, RestPlace DEF DriverState
<1>2. /\ b \in AdvanceType /\ b.err = "none" /\ b.c = d.codec /\ b.out = out
      /\ b.k.phase = "SentKexInit" /\ b.k.advert = e + 1 /\ b.k.sid = k.sid
      /\ b.k.flags = k.flags \cap {"strict_kex"}
  <2>1. /\ b \in AdvanceType /\ b.err = "none" /\ b.c = d.codec /\ b.out = <<KexInit(k.advert + 1)>>
        /\ b.k.phase = "SentKexInit" /\ b.k.advert = k.advert + 1 /\ b.k.sid = k.sid
        /\ b.k.flags = k.flags \cap {"strict_kex"}
    <3> HIDE DEF k
    <3> QED BY <1>1, OnRestart DEF k
  <2> HIDE DEF b, k
  <2> QED BY <1>1, <2>1
<1> HIDE DEF b
<1>3. /\ x \in DriverState
      /\ x.outbox = d.outbox \o Encode(b.c, b.out) /\ x.codec = Encoded(b.c, b.out)
      /\ x.runner = b.k /\ x.phase = d.phase
      /\ x.deferred = d.deferred /\ x.deferredOut = d.deferredOut
      /\ x.events = d.events /\ x.auth = d.auth /\ x.err = d.err
  <2>1. x = Apply(d, b)
    BY DEF InitiateRekey, b
  <2> HIDE DEF x
  <2> QED BY <1>2, <2>1, ApplyEffect
<1>auth. x.auth = d.auth
  BY <1>3
<1> HIDE DEF x, k, e, out
<1>4. /\ out \in Seq(Message) /\ Len(out) = 1 /\ LegOK(r, e, 1, out[1]) /\ out[1].t = "KEXINIT"
  BY <1>1, KexInitAlone DEF out
<1>5. /\ x.codec.outKey = d.codec.outKey /\ x.codec.inKey = d.codec.inKey
      /\ x.codec.zOut = d.codec.zOut /\ x.codec.zIn = d.codec.zIn /\ x.codec.seqIn = d.codec.seqIn
      /\ x.codec.seqOut = (d.codec.seqOut + Len(out)) % SeqMod
      /\ x.outbox = d.outbox \o Encode(d.codec, out)
  <2>3. /\ Encoded(d.codec, out).outKey = d.codec.outKey /\ Encoded(d.codec, out).inKey = d.codec.inKey
        /\ Encoded(d.codec, out).zOut = d.codec.zOut /\ Encoded(d.codec, out).zIn = d.codec.zIn
        /\ Encoded(d.codec, out).seqIn = d.codec.seqIn
        /\ Encoded(d.codec, out).seqOut = (d.codec.seqOut + Len(out)) % SeqMod
    BY <1>1, <1>4, EncodedFields
  <2> QED BY <1>2, <1>3, <2>3
<1>6. /\ x.runner.phase = "SentKexInit" /\ x.runner.advert = e + 1 /\ x.runner.sid = k.sid
      /\ x.runner.flags = k.flags \cap {"strict_kex"}
  BY <1>2, <1>3
<1>7. Epoch(x) = e /\ OutE(x) = e /\ InJ(x) = 0 /\ OutJ(r, x) = 1
  BY <1>5, <1>3, <1>6, PlaceOf DEF Epoch, e, OutJ, LegsOut
<1>8. Sends(r, d, x, Encode(d.codec, out)) /\ Fresh(d, x)
  <2>1. d.runner.advert <= x.runner.advert /\ OutJ(r, d) \in Nat
        /\ OutJ(r, x) = OutJ(r, d) + Len(out) /\ x.runner.phase # "AwaitingPeerNewKeys"
    BY <1>1, <1>4, <1>6, <1>7 DEF k
  <2>2. \A i \in 1..Len(out) :
            /\ LegOK(r, Epoch(d), OutJ(r, d) + i, out[i])
            /\ out[i].t = "KEXINIT" => Epoch(d) < x.runner.advert
            /\ out[i].t = "NEWKEYS" => i = Len(out) /\ x.runner.phase = "AwaitingPeerNewKeys"
    BY <1>1, <1>4, <1>6 DEF e
  <2> QED BY <1>3, <1>4, <1>5, <2>1, <2>2, LegsSend
<1>9. KeysOK(r, x)
  BY <1>6, <1>1, <1>7, <1>3, <1>5 DEF PhasesOf, IsKexing, e, k, KeysOK
<1>10. Moves(r, d, x)
  BY <1>3, <1>8, <1>9 DEF Moves
<1>11. Flow(r, d, x)
  <2> DEFINE ns == Encode(d.codec, out)
  <2>1. ns \in Seq(WireFrame) /\ Len(ns) = 1 /\ ns[1].t = "KEXINIT"
    BY <1>1, <1>4, EncodeFields
  <2>2. x.outbox = d.outbox \o ns /\ x.deferredOut = d.deferredOut
    BY <1>3, <1>5
  <2> HIDE DEF ns
  <2>4. \A i \in DOMAIN ns : ~IsItem(ns[i])
    BY <2>1 DEF IsItem, ItemTypes
  <2> QED BY <1>3, <2>1, <2>2, <2>4, FlowSame
<1>12. Stays(d, x)
  BY <1>1, <1>3, <1>5, <1>7 DEF Stays, e
<1> QED BY <1>auth, <1>10, <1>11, <1>12, <1>3, <1>6 DEF x

\* scan_peer_version: the server's KEXINIT goes out now.
LEMMA TakeVersion ==
  ASSUME NEW r \in Role, NEW d \in DriverState, NEW f \in WireFrame, KeysOK(r, d), d.err = "none",
         d.phase = "AwaitingVersion", r = "client" => d.runner.phase # "Idle",
         f.t = "VERSION", Fits(Epoch(d), InJ(d), d.codec.seqIn, f)
  PROVE  Takes(r, d, f, HandleInputItem(r, d, f))
<1> DEFINE k == d.runner
           w == [d EXCEPT !.phase = "Kex"]
           x == HandleInputItem(r, d, f)
<1>1. /\ w \in DriverState /\ w.codec = d.codec /\ w.runner = d.runner /\ w.phase = "Kex"
      /\ w.outbox = d.outbox /\ w.deferred = d.deferred /\ w.deferredOut = d.deferredOut
      /\ w.events = d.events /\ w.err = d.err
  BY DEF DriverState
<1>auth. w.auth = d.auth
  BY DEF DriverState
<1>2. Epoch(d) = 0 /\ InJ(d) = 0 /\ d.codec.seqIn = 0 /\ d.codec \in Codec /\ k \in Runner
      /\ d.deferredOut = <<>> /\ d.deferred = <<>>
  BY PlaceType DEF DriverState, KeysOK, Fits, LegNo, IsKexMsg, KexMsg
<1>3. AfterE(f) = 0 /\ AfterJ(f) = 0 /\ AfterS(f) = 0
  BY <1>2 DEF Fits, AfterE, AfterJ, AfterS, LegNo
<1>4. x = IF r = "server" THEN Apply(w, StartKex(w.runner, w.codec)) ELSE w
  BY DEF HandleInputItem, ScanPeerVersion
<1>5. ~IsItem(f)
  BY DEF IsItem, ItemTypes
<1>6. CASE r = "client"
  <2>1. x = w /\ k.phase # "Idle"
    BY <1>4, <1>6
  <2> HIDE DEF x, w
  <2>2. KeysOK(r, x)
    BY <1>1, <2>1, <1>2, <1>6 DEF OutE, Epoch, InJ, KeysOK
  <2>4. Moves(r, d, x)
    BY <1>1, <2>1, <2>2, SilentSends DEF Moves
  <2>5. Flow(r, d, x)
    <3>1. d.outbox \in Seq(WireFrame) /\ <<>> \in Seq(WireFrame)
      BY DEF DriverState
    <3>3. \A i \in DOMAIN <<>> : ~IsItem(<<>>[i])
      OBVIOUS
    <3>4. x.outbox = d.outbox \o <<>> /\ x.deferredOut = d.deferredOut /\ x \in DriverState
      BY <1>1, <2>1, <3>1
    <3> QED BY <3>1, <3>3, <3>4, FlowSame
  <2>6. Epoch(x) = 0 /\ InJ(x) = 0 /\ x.codec.seqIn = 0
    BY <1>1, <1>2, <2>1 DEF Epoch, InJ
  <2>7. x.auth = d.auth
    BY <1>auth, <2>1, Zenon
  <2>8. Surfaces(d, f, x) /\ ExtReady(x)
    BY <1>1, <1>2, <1>5, <2>1, <2>6 DEF Surfaces, ExtReady
  <2>9. x.err = "none" /\ x.phase # "AwaitingVersion" /\ x.runner = d.runner
    BY <1>1, <2>1
  <2>10. x.runner.phase # "Idle" /\ Epoch(x) <= AfterE(f) /\ x.runner.advert = d.runner.advert
    BY <1>3, <2>1, <2>6, <2>9
  <2>11. Takes(r, d, f, x)
    BY <1>3, <2>4, <2>5, <2>6, <2>7, <2>8, <2>9, <2>10 DEF Takes
  <2> QED BY <2>11 DEF x
<1>7. CASE r = "server"
  <2> DEFINE b == StartKex(w.runner, w.codec)
             out == <<KexInit(1)>>
  <2>1. /\ b \in AdvanceType /\ b.err = "none" /\ b.c = w.codec /\ b.out = out
        /\ b.k.phase = "SentKexInit" /\ b.k.advert = 1 /\ b.k.sid = w.runner.sid
        /\ b.k.flags = {"outbound_ext_info"}
    <3>1. w.runner \in Runner /\ w.codec \in Codec
      BY <1>1, <1>2
    <3> HIDE DEF w
    <3> QED BY <3>1, OnStart
  <2> HIDE DEF b
  <2>2. x = Apply(w, b)
    BY <1>4, <1>7 DEF b
  <2> HIDE DEF x, w
  <2>3. /\ x \in DriverState
        /\ x.outbox = w.outbox \o Encode(b.c, b.out) /\ x.codec = Encoded(b.c, b.out)
        /\ x.runner = b.k /\ x.phase = w.phase
        /\ x.deferred = w.deferred /\ x.deferredOut = w.deferredOut
        /\ x.events = w.events /\ x.auth = w.auth /\ x.err = w.err
    BY <1>1, <2>1, <2>2, ApplyEffect
  <2>auth. x.auth = d.auth
    BY <1>auth, <2>3, Zenon
  <2> HIDE DEF out, k
  <2>4. /\ out \in Seq(Message) /\ Len(out) = 1 /\ LegOK(r, 0, 1, out[1]) /\ out[1].t = "KEXINIT"
    BY KexInitAlone DEF out
  <2>5. /\ x.codec.outKey = d.codec.outKey /\ x.codec.inKey = d.codec.inKey
        /\ x.codec.zOut = d.codec.zOut /\ x.codec.zIn = d.codec.zIn /\ x.codec.seqIn = d.codec.seqIn
        /\ x.codec.seqOut = (d.codec.seqOut + Len(out)) % SeqMod
        /\ x.outbox = d.outbox \o Encode(d.codec, out)
    <3>2. x.codec = Encoded(d.codec, out) /\ x.outbox = d.outbox \o Encode(d.codec, out)
      BY <2>3, <1>1, <2>1
    <3>4. /\ Encoded(d.codec, out).outKey = d.codec.outKey /\ Encoded(d.codec, out).inKey = d.codec.inKey
          /\ Encoded(d.codec, out).zOut = d.codec.zOut /\ Encoded(d.codec, out).zIn = d.codec.zIn
          /\ Encoded(d.codec, out).seqIn = d.codec.seqIn
          /\ Encoded(d.codec, out).seqOut = (d.codec.seqOut + Len(out)) % SeqMod
      BY <1>2, <2>4, EncodedFields
    <3> QED BY <3>2, <3>4
  <2>6. /\ x.runner.phase = "SentKexInit" /\ x.runner.advert = 1 /\ x.runner.sid = d.runner.sid
        /\ x.runner.flags = {"outbound_ext_info"}
    BY <1>1, <2>1, <2>3
  <2>7. d.runner.phase = "Idle" /\ d.runner.advert = 0
    BY <1>7 DEF KeysOK, NewRunner
  <2>8. OutE(d) = 0 /\ OutJ(r, d) = 0
    BY <1>2, <2>7, PlaceOf
  <2>9. Epoch(x) = 0 /\ OutE(x) = 0 /\ InJ(x) = 0 /\ OutJ(r, x) = 1
    BY <2>5, <2>3, <2>6, PlaceOf, <1>2 DEF Epoch, OutJ, LegsOut
  <2>10. Sends(r, d, x, Encode(d.codec, out)) /\ Fresh(d, x)
    <3>1. d.runner.advert <= x.runner.advert /\ OutJ(r, d) \in Nat
          /\ OutJ(r, x) = OutJ(r, d) + Len(out) /\ x.runner.phase # "AwaitingPeerNewKeys"
          /\ d.runner.phase # "AwaitingPeerNewKeys"
      BY <2>4, <2>6, <2>7, <2>8, <2>9
    <3>2. \A i \in 1..Len(out) :
              /\ LegOK(r, Epoch(d), OutJ(r, d) + i, out[i])
              /\ out[i].t = "KEXINIT" => Epoch(d) < x.runner.advert
              /\ out[i].t = "NEWKEYS" => i = Len(out) /\ x.runner.phase = "AwaitingPeerNewKeys"
      BY <1>2, <2>4, <2>6, <2>8
    <3> QED BY <2>3, <2>4, <2>5, <3>1, <3>2, LegsSend
  <2>11. x.deferredOut = <<>> /\ x.deferred = <<>> /\ x.phase = "Kex" /\ x.events = d.events
         /\ x.err = "none" /\ x.deferred = d.deferred /\ x.deferredOut = d.deferredOut
    BY <1>1, <1>2, <2>3
  <2>12. KeysOK(r, x)
    BY <2>6, <1>2, <2>5, <2>8, <2>9, <2>11 DEF PhasesOf, IsKexing, KeysOK
  <2>13. Moves(r, d, x)
    BY <2>3, <2>10, <2>12 DEF Moves
  <2>14. Flow(r, d, x)
    <3> DEFINE ns == Encode(d.codec, out)
    <3>1. ns \in Seq(WireFrame) /\ Len(ns) = 1 /\ ns[1].t = "KEXINIT"
      BY <1>2, <2>4, EncodeFields
    <3>2. x.outbox = d.outbox \o ns /\ x.deferredOut = d.deferredOut
      BY <2>5, <2>11
    <3> HIDE DEF ns
    <3>4. \A i \in DOMAIN ns : ~IsItem(ns[i])
      BY <3>1 DEF IsItem, ItemTypes
    <3> QED BY <2>3, <3>1, <3>2, <3>4, FlowSame
  <2>15. Surfaces(d, f, x) /\ ExtReady(x)
    BY <1>2, <1>5, <2>9, <2>11 DEF Surfaces, ExtReady
  <2>16. x.runner.phase # "Idle" /\ Epoch(x) <= AfterE(f) /\ x.runner.advert <= 1 /\ x.codec.seqIn = 0
         /\ x.phase # "AwaitingVersion"
    BY <1>2, <1>3, <2>5, <2>6, <2>9, <2>11
  <2>17. Takes(r, d, f, x)
    BY <1>3, <2>auth, <2>9, <2>11, <2>13, <2>14, <2>15, <2>16 DEF Takes
  <2> QED BY <2>17 DEF x
<1> QED BY <1>6, <1>7 DEF Role

---------------------------------------------------------------------------
(* What the frontends do to their drivers.                                 *)

\* A driver that sends nothing carries what it did.
LEMMA SilentFlow ==
  ASSUME NEW r, NEW d \in DriverState, NEW x \in DriverState,
         x.outbox = d.outbox, x.deferredOut = d.deferredOut
  PROVE  Flow(r, d, x)
<1>1. d.outbox \in Seq(WireFrame) /\ <<>> \in Seq(WireFrame)
  BY DEF DriverState
<1>2. d.outbox = d.outbox \o <<>>
  BY <1>1
<1>3. \A i \in DOMAIN <<>> : ~IsItem(<<>>[i])
  OBVIOUS
<1>4. x.outbox = d.outbox \o <<>>
  BY <1>2
<1> QED BY <1>1, <1>3, <1>4, FlowSame

\* poll_event.
LEMMA AlikeMoves ==
  ASSUME NEW r \in Role, NEW d \in DriverState, NEW x \in DriverState, KeysOK(r, d), Alike(d, x)
  PROVE  /\ Moves(r, d, x) /\ Stays(d, x) /\ Flow(r, d, x) /\ x.runner = d.runner /\ x.auth = d.auth
<1>1. /\ x.outbox = d.outbox /\ x.deferredOut = d.deferredOut /\ x.codec = d.codec
      /\ x.runner = d.runner /\ x.phase = d.phase /\ x.deferred = d.deferred
  BY DEF Alike
<1>auth. x.auth = d.auth
  BY DEF Alike
<1>2. KeysOK(r, x)
  BY <1>1, KeysSame DEF KeysOK
<1>4. Moves(r, d, x)
  BY <1>2, <1>1, SilentSends DEF Moves
<1>5. Stays(d, x)
  BY <1>1 DEF Stays, Epoch, InJ
<1> QED BY <1>auth, <1>1, <1>4, <1>5, SilentFlow

\* What is added to the wire does not depend on the rest of the driver.
LEMMA MovesTo ==
  ASSUME NEW r, NEW d, NEW y, NEW x \in DriverState, Moves(r, d, y), KeysOK(r, x),
         x.outbox = y.outbox, x.codec.outKey = y.codec.outKey, x.codec.seqOut = y.codec.seqOut,
         x.runner.phase = y.runner.phase, x.runner.advert = y.runner.advert
  PROVE  Moves(r, d, x)
<1>1. PICK ns : Sends(r, d, y, ns)
  BY DEF Moves
<1>3. Sends(r, d, x, ns)
  BY <1>1 DEF Sends, FrameOK, Epoch, OutE, OutJ, OutS
<1>4. Fresh(d, x)
  BY DEF Moves, Fresh
<1> QED BY <1>3, <1>4 DEF Moves

\* notify_auth_success, with no delayed compression.
LEMMA NotifyEffect ==
  ASSUME NEW r \in Role, NEW d \in DriverState, KeysOK(r, d), Epoch(d) > 0
  PROVE  LET x == NotifyAuthSuccess(r, d)
         IN  /\ x \in DriverState /\ KeysOK(r, x) /\ Stays(d, x) /\ x.err = d.err
             /\ x.outbox = d.outbox /\ x.deferredOut = d.deferredOut /\ x.events = d.events
             /\ x.codec.outKey = d.codec.outKey /\ x.codec.seqOut = d.codec.seqOut
             /\ x.runner.phase = d.runner.phase /\ x.runner.advert = d.runner.advert
             /\ x.auth = TRUE
<1> DEFINE x == NotifyAuthSuccess(r, d)
           c == ActivateCompress(d.codec)
           q == ArmExtInfoPostAuth(r, d.runner)
<1>1. d.codec \in Codec /\ d.runner \in Runner
  BY DEF DriverState
<1>2. x \in DriverState
  BY NotifyAuthSuccessType
<1>3. /\ c.outKey = d.codec.outKey /\ c.inKey = d.codec.inKey
      /\ c.seqOut = d.codec.seqOut /\ c.seqIn = d.codec.seqIn
      /\ c.zOut = d.codec.zOut /\ c.zIn = d.codec.zIn
  BY <1>1 DEF KeysOK, ActivateCompress, Codec, Activated
<1>4. /\ q.phase = d.runner.phase /\ q.advert = d.runner.advert /\ q.peerAdvert = d.runner.peerAdvert
      /\ q.h = d.runner.h /\ q.sid = d.runner.sid
      /\ \A g \in {"strict_kex", "sent_newkeys", "peer_newkeys", "ext_info_enabled"} :
            g \in q.flags <=> g \in d.runner.flags
  BY <1>1 DEF ArmExtInfoPostAuth, Runner
<1>5. /\ x.codec = c /\ x.runner = q /\ x.phase = d.phase /\ x.outbox = d.outbox
      /\ x.deferred = d.deferred /\ x.deferredOut = d.deferredOut /\ x.events = d.events /\ x.err = d.err
  BY DEF NotifyAuthSuccess, DriverState
<1>6. x.auth = TRUE
  BY DEF NotifyAuthSuccess, DriverState
<1> HIDE DEF x, c, q
<1>7. KeysOK(r, x)
  BY <1>5, <1>2, <1>3, <1>4, KeysSame DEF KeysOK
<1>8. Stays(d, x)
  BY <1>3, <1>4, <1>5 DEF Stays, Epoch, InJ
<1> QED BY <1>2, <1>3, <1>4, <1>5, <1>6, <1>7, <1>8 DEF x

\* A payload is submitted: the next one, behind those that are on their way.
LEMMA SubmitFlow ==
  ASSUME NEW r, NEW d \in DriverState, NEW x \in DriverState, NEW n \in Nat, NEW a \in Nat, NEW b \in Nat,
         Carries(r, d.outbox, a, b), Carries(r, d.deferredOut, b, n),
         \/ /\ x.outbox = d.outbox /\ x.deferredOut = Append(d.deferredOut, Item(r, n + 1))
         \/ /\ d.deferredOut = <<>> /\ x.deferredOut = <<>>
            /\ x.outbox = d.outbox \o Encode(d.codec, <<Item(r, n + 1)>>)
  PROVE  \E h \in Nat : h <= n + 1 /\ Carries(r, x.outbox, a, h) /\ Carries(r, x.deferredOut, h, n + 1)
<1> DEFINE m == Item(r, n + 1)
<1>1. d.outbox \in Seq(WireFrame) /\ d.deferredOut \in Seq(Message) /\ d.codec \in Codec
  BY DEF DriverState
<1>2. n + 1 \in Nat \ {0}
  OBVIOUS
<1>3. IsItem(m) /\ ItemNo(m) = n + 1 /\ m \in Message
  BY <1>2, ItemNumber
<1>4. IsNth(r, n + 1, m)
  BY DEF IsNth
<1> HIDE DEF m
<1>5. Carries(r, <<m>>, n, n + 1)
  BY <1>3, <1>4, CarriesOne
<1>6. <<m>> \in Seq(Message)
  BY <1>3
<1>7. CASE x.outbox = d.outbox /\ x.deferredOut = Append(d.deferredOut, m)
  <2>1. x.deferredOut = d.deferredOut \o <<m>>
    BY <1>1, <1>3, <1>7, AppendIsConcat
  <2>2. Carries(r, d.deferredOut \o <<m>>, b, n + 1)
    BY <1>1, <1>2, <1>5, <1>6, CarriesConcat
  <2>3. b <= n
    BY DEF Carries
  <2> QED BY <1>7, <2>1, <2>2, <2>3
<1>8. CASE d.deferredOut = <<>> /\ x.deferredOut = <<>> /\ x.outbox = d.outbox \o Encode(d.codec, <<m>>)
  <2>1. b = n
    BY <1>8, CarriesEmpty
  <2> DEFINE ns == Encode(d.codec, <<m>>)
  <2>2. Carries(r, ns, n, n + 1) /\ ns \in Seq(WireFrame)
    BY <1>1, <1>2, <1>5, <1>6, CarriesEncode, EncodeFields
  <2> HIDE DEF ns
  <2>4. Carries(r, <<>>, n + 1, n + 1)
    BY <1>2, CarriesNone
  <2> QED BY <1>2, <1>8, <1>1, <2>1, <2>2, CarriesConcat, <2>4 DEF ns
<1> QED BY <1>7, <1>8 DEF m

---------------------------------------------------------------------------
(* The beginning and the end of a connection.                              *)

\* A DISCONNECT, read in its turn or too early, ends the receiver.
LEMMA TakeDisconnect ==
  ASSUME NEW r \in Role, NEW d \in DriverState, NEW f \in WireFrame, KeysOK(r, d), d.err = "none",
         d.phase # "AwaitingVersion", f.t = "DISCONNECT", FrameShape(Peer(r), f)
  PROVE  LET x == HandleInputItem(r, d, f)
         IN  /\ Moves(r, d, x) /\ Flow(r, d, x) /\ x.err \in {"disconnected", "decode"}
             /\ x.phase = d.phase /\ x.runner = d.runner /\ x.auth = d.auth
             /\ Epoch(x) = Epoch(d) /\ x.events = d.events /\ x.deferred = d.deferred
<1> DEFINE w == AfterDecode(d)
           x == HandleInputItem(r, d, f)
<1>1. d.codec \in Codec /\ f.key = <<f.key[1], f.key[1]>> /\ f.key[1] > 0 /\ f.key[1] \in Nat
      /\ f.z = (Compression = "zlib" /\ f.key[1] > 0)
  BY DEF DriverState, FrameShape, IsKexMsg, KexMsg, WireFrame, Key
<1>2. CASE ~Decodes(d.codec, f)
  <2>1. x = Fail(d, "decode")
    BY <1>2 DEF HandleInputItem
  <2>2. "decode" \in Errors
    BY DEF Errors
  <2>3. /\ x \in DriverState /\ x.err = "decode"
        /\ x.outbox = d.outbox /\ x.codec = d.codec /\ x.runner = d.runner /\ x.phase = d.phase
        /\ x.deferred = d.deferred /\ x.deferredOut = d.deferredOut
        /\ x.events = d.events /\ x.auth = d.auth
    <3> HIDE DEF x
    <3> QED BY <2>1, <2>2, FailEffect
  <2>auth. x.auth = d.auth
    BY <2>3
  <2> HIDE DEF x
  <2>4. KeysOK(r, x)
    BY <2>3, KeysSame DEF KeysOK
  <2>6. Moves(r, d, x)
    BY <2>3, <2>4, SilentSends DEF Moves
  <2>7. Flow(r, d, x)
    BY <2>3, SilentFlow
  <2>8. Epoch(x) = Epoch(d)
    BY <2>3 DEF Epoch
  <2> QED BY <2>auth, <2>6, <2>7, <2>8, <2>3 DEF x
<1>3. CASE Decodes(d.codec, f)
  <2>2. Epoch(d) > 0 /\ Epoch(d) = f.key[1]
    BY <1>1, <1>3 DEF Decodes, KeysOK
  <2>4. Payload(d.codec, f) = [t |-> f.t, body |-> f.body]
    BY <1>1, <2>2 DEF Payload, KeysOK
  <2>5. x = RoutePacket(r, w, [t |-> f.t, body |-> f.body])
    BY <1>3, <2>4 DEF HandleInputItem, AfterDecode
  <2>6. x = Fail(w, "disconnected")
    <3> DEFINE p == [t |-> f.t, body |-> f.body]
    <3>1. x = RoutePacket(r, w, p) /\ p.t = "DISCONNECT"
      BY <2>5
    <3> HIDE DEF p, x, w
    <3> QED BY <3>1 DEF RoutePacket, IsKexMsg, KexMsg
  <2>7. /\ w \in DriverState /\ w.outbox = d.outbox /\ w.codec = Decoded(d.codec)
        /\ w.runner = d.runner /\ w.phase = d.phase /\ w.deferred = d.deferred
        /\ w.deferredOut = d.deferredOut /\ w.events = d.events
    BY <1>1, DecodedFields DEF AfterDecode, DriverState
  <2>8. w.auth = d.auth
    BY DecodeAuth
  <2> HIDE DEF w
  <2>9. "disconnected" \in Errors
    BY DEF Errors
  <2>10. /\ x \in DriverState /\ x.err = "disconnected"
         /\ x.outbox = w.outbox /\ x.codec = w.codec /\ x.runner = w.runner /\ x.phase = w.phase
         /\ x.deferred = w.deferred /\ x.deferredOut = w.deferredOut
         /\ x.events = w.events /\ x.auth = w.auth
    <3> HIDE DEF x
    <3> QED BY <2>6, <2>7, <2>9, FailEffect
  <2> HIDE DEF x
  <2>auth. x.auth = d.auth
    BY <2>8, <2>10, Zenon
  <2>11. /\ x.outbox = d.outbox /\ x.codec = Decoded(d.codec) /\ x.runner = d.runner
         /\ x.phase = d.phase /\ x.deferred = d.deferred /\ x.deferredOut = d.deferredOut
         /\ x.events = d.events
    BY <2>7, <2>10
  <2>13. x.deferred # <<>> => IsKexing(d.runner)
    BY <2>11 DEF KeysOK
  <2>14. Moves(r, d, x) /\ Flow(r, d, x) /\ Epoch(x) = Epoch(d)
    BY <2>2, <2>10, <2>11, <1>1, DecodedFields, <2>13, SilentMoves
  <2> QED BY <2>auth, <2>11, <2>14, <2>10 DEF x
<1> QED BY <1>2, <1>3

\* srv_send_disconnect: the last frame on the wire.
LEMMA CloseWire ==
  ASSUME NEW r \in Role, NEW d \in DriverState, NEW y \in DriverState, NEW s,
         KeysOK(r, d), d.err = "none", Epoch(d) > 0,
         InOrder(r, d, y, s), s \notin {"new", "closed"}
  PROVE  LET x == EnqueuePayload(d, Msg("DISCONNECT"))
         IN  /\ x \in DriverState /\ KeysOK(r, x) /\ Fresh(d, x) /\ Stays(d, x) /\ Flow(r, d, x)
             /\ InOrder(r, x, y, "closed")
             /\ x.err = "none" /\ x.events = d.events /\ x.runner = d.runner /\ x.auth = d.auth
             /\ \E ns \in Seq(WireFrame) :
                   x.outbox = d.outbox \o ns /\ \A i \in DOMAIN ns : ns[i].t # "EXT_INFO"
<1> DEFINE m == Msg("DISCONNECT")
           x == EnqueuePayload(d, m)
           ns == Encode(d.codec, <<m>>)
<1>1. x = EncodeAndQueue(d, <<m>>)
  BY DEF EnqueuePayload, MaySendDuringKex, Msg
<1>2. m \in Message /\ <<m>> \in Seq(Message) /\ Len(<<m>>) = 1 /\ m.t = "DISCONNECT"
  BY MsgType DEF MsgTypes, Msg
<1> HIDE DEF m
<1>3. /\ x \in DriverState
      /\ x.outbox = d.outbox \o ns /\ x.codec = Encoded(d.codec, <<m>>)
      /\ x.runner = d.runner /\ x.phase = d.phase
      /\ x.deferred = d.deferred /\ x.deferredOut = d.deferredOut
      /\ x.events = d.events /\ x.auth = d.auth /\ x.err = d.err
  <2> HIDE DEF x
  <2> QED BY <1>1, <1>2, QueueEffect
<1>auth. x.auth = d.auth
  BY <1>3
<1>4. d.codec \in Codec /\ d.outbox \in Seq(WireFrame)
  BY DEF DriverState
<1> HIDE DEF x
<1> DEFINE ms == <<m>>
<1>ms. ms \in Seq(Message) /\ Len(ms) = 1 /\ ms[1].t = "DISCONNECT" /\ x.codec = Encoded(d.codec, ms)
       /\ ns = Encode(d.codec, ms)
  BY <1>2, <1>3
<1> HIDE DEF ms, ns
<1>5. /\ x.codec.outKey = d.codec.outKey /\ x.codec.inKey = d.codec.inKey
      /\ x.codec.zOut = d.codec.zOut /\ x.codec.zIn = d.codec.zIn /\ x.codec.seqIn = d.codec.seqIn
      /\ x.codec.seqOut = (d.codec.seqOut + Len(ms)) % SeqMod
  <2>1. /\ Encoded(d.codec, ms).outKey = d.codec.outKey /\ Encoded(d.codec, ms).inKey = d.codec.inKey
        /\ Encoded(d.codec, ms).zOut = d.codec.zOut /\ Encoded(d.codec, ms).zIn = d.codec.zIn
        /\ Encoded(d.codec, ms).seqIn = d.codec.seqIn
        /\ Encoded(d.codec, ms).seqOut = (d.codec.seqOut + Len(ms)) % SeqMod
    BY <1>ms, <1>4, EncodedFields
  <2> QED BY <1>ms, <2>1
<1>6. /\ ns \in Seq(WireFrame) /\ Len(ns) = 1 /\ ns[1].t = "DISCONNECT"
      /\ ns[1].key = d.codec.outKey
  BY <1>ms, <1>4, EncodeFields
<1>z. ns[1].z = (d.codec.zOut = "on")
  BY <1>ms, <1>4, EncodeFields
<1>7. Fresh(d, x)
  BY <1>ms, <1>3, <1>5, QueueFresh
<1>8. KeysOK(r, x)
  <2>1. x.deferredOut # <<>> \/ x.deferred # <<>> => IsKexing(d.runner) /\ Epoch(d) > 0
    BY <1>3 DEF KeysOK
  <2>2. \A i \in DOMAIN x.deferredOut :
           x.deferredOut[i].t \in AppTypes /\ ~MaySendDuringKex(x.deferredOut[i].t)
    BY <1>3 DEF KeysOK
  <2> QED BY <1>3, <1>5, <2>1, <2>2, KeysSame
<1>9. Stays(d, x) /\ OutE(x) = OutE(d) /\ Epoch(x) = Epoch(d)
  BY <1>3, <1>5 DEF Stays, Epoch, InJ, OutE
<1>10. \A i \in DOMAIN ns : ns[i].t = "DISCONNECT"
  BY <1>6
<1>11. Flow(r, d, x)
  BY <1>10, <1>3, <1>6, FlowSame DEF IsItem, ItemTypes
<1>12. InOrder(r, x, y, "closed")
  <2> DEFINE o == x.outbox
             n == Len(d.outbox)
  <2>1. n \in Nat /\ d.codec.outKey = <<Epoch(d), Epoch(d)>> /\ Epoch(d) \in Nat
    BY <1>4, PlaceType DEF KeysOK
  <2>2. /\ o \in Seq(WireFrame) /\ Len(o) = n + 1
        /\ \A i \in 1..n : o[i] = d.outbox[i]
        /\ o[n + 1] = ns[1]
    <3>1. /\ d.outbox \o ns \in Seq(WireFrame) /\ Len(d.outbox \o ns) = Len(d.outbox) + Len(ns)
          /\ \A i \in 1..Len(d.outbox) : (d.outbox \o ns)[i] = d.outbox[i]
          /\ \A i \in 1..Len(ns) : (d.outbox \o ns)[Len(d.outbox) + i] = ns[i]
      <4> DEFINE old == d.outbox
      <4>1. old \in Seq(WireFrame) /\ ns \in Seq(WireFrame)
        BY <1>4, <1>6
      <4> HIDE DEF old
      <4>2. /\ old \o ns \in Seq(WireFrame) /\ Len(old \o ns) = Len(old) + Len(ns)
            /\ \A i \in 1..Len(old) : (old \o ns)[i] = old[i]
            /\ \A i \in 1..Len(ns) : (old \o ns)[Len(old) + i] = ns[i]
        BY <4>1, ConcatFields
      <4> QED BY <4>2 DEF old
    <3> QED BY <1>3, <3>1, <1>6, <2>1
  <2>3. /\ o[n + 1].t = "DISCONNECT" /\ o[n + 1].key = <<Epoch(d), Epoch(d)>>
    BY <1>6, <2>1, <2>2
  <2>z. o[n + 1].z = (Compression = "zlib" /\ Epoch(d) > 0)
    <3>1. (d.codec.zOut = "on") = (Compression = "zlib" /\ Epoch(d) > 0)
      BY DEF KeysOK
    <3>2. o[n + 1].z = (d.codec.zOut = "on")
      BY <1>z, <2>2
    <3> QED BY <3>1, <3>2, Zenon
  <2> HIDE DEF o, n
  <2>4. DOMAIN o = 1..(n + 1) /\ DOMAIN d.outbox = 1..n
    BY <1>4, <2>2 DEF n
  <2>5. \A i \in DOMAIN o : FrameOK(r, x, o[i])
    <3>1. ASSUME NEW i \in 1..n PROVE FrameOK(r, x, o[i])
      <4>1. FrameOK(r, d, d.outbox[i]) /\ d.outbox[i] \in WireFrame
        <5>1. i \in DOMAIN d.outbox
          BY <2>4
        <5> QED BY <5>1, <1>4 DEF InOrder
      <4>2. Epoch(d) <= Epoch(x) /\ OutE(d) <= OutE(x) /\ d.runner.advert <= x.runner.advert
        BY <1>3, <1>9, PlaceType
      <4> QED BY <1>3, <2>2, <4>1, <4>2, FrameKept
    <3>2. FrameOK(r, x, o[n + 1])
      <4>1. o[n + 1].key[1] = Epoch(d)
        BY <2>3
      <4>2. FrameShape(r, o[n + 1])
        <5>2. o[n + 1].z = (Compression = "zlib" /\ o[n + 1].key[1] > 0)
          BY <2>z, <4>1, Zenon
        <5> QED BY <2>3, <4>1, <5>2 DEF FrameShape, IsKexMsg, KexMsg
      <4> QED BY <1>9, <2>1, <2>3, <4>1, <4>2 DEF FrameOK
    <3> QED BY <2>1, <2>4, <3>1, <3>2
  <2>7. \A i \in DOMAIN o : o[i].t = "DISCONNECT" => i = Len(o)
    BY <2>1, <2>2, <2>4 DEF InOrder
  <2>8. \A i \in DOMAIN o : o[i].t = "VERSION" => i = 1
    BY <2>1, <2>2, <2>3, <2>4 DEF InOrder
  <2>9. y.phase = "AwaitingVersion" <=> (o # <<>> /\ o[1].t = "VERSION")
    <3>1. y.phase = "AwaitingVersion" <=> (d.outbox # <<>> /\ d.outbox[1].t = "VERSION")
      BY DEF InOrder
    <3>2. CASE n = 0
      BY <1>4, <2>3, <3>2, <3>1 DEF n
    <3>3. CASE n > 0
      BY <1>4, <2>1, <2>2, <3>3, <3>1 DEF n
    <3> QED BY <2>1, <3>2, <3>3
  <2>10. Linked(o)
    <3>2. ASSUME NEW i \in DOMAIN o, i > 1, o[i].t # "DISCONNECT"
          PROVE  Fits(AfterE(o[i - 1]), AfterJ(o[i - 1]), AfterS(o[i - 1]), o[i])
      BY <2>1, <2>3, <2>4, <3>2, <2>2 DEF Linked, InOrder
    <3> QED BY <3>2 DEF Linked
  <2>11. y.err = "none" => StartsAt(o, Epoch(y), InJ(y), y.codec.seqIn)
    <3>2. CASE n = 0
      BY <2>3, <3>2 DEF StartsAt
    <3>3. CASE n > 0
      BY <1>4, <2>1, <2>2, <3>3 DEF n, StartsAt, InOrder
    <3> QED BY <2>1, <3>2, <3>3
  <2>12. Epoch(y) <= OutE(x)
    BY <1>9 DEF InOrder
  <2>13. \A i, j \in DOMAIN o : i < j /\ o[i].t = "NEWKEYS" /\ o[j].t # "DISCONNECT"
                                => o[i].key[1] < o[j].key[1]
    <3> SUFFICES ASSUME NEW i \in DOMAIN o, NEW j \in DOMAIN o, i < j, o[i].t = "NEWKEYS", o[j].t # "DISCONNECT"
                 PROVE  o[i].key[1] < o[j].key[1]
      OBVIOUS
    <3>2. i \in 1..n /\ j \in 1..n
      BY <2>1, <2>3, <2>4
    <3> QED BY <2>2, <2>4, <3>2 DEF InOrder
  <2> QED BY <2>5, <2>7, <2>8, <2>9, <2>10, <2>11, <2>12, <2>13 DEF InOrder, o
<1>13. \E nq \in Seq(WireFrame) :
          x.outbox = d.outbox \o nq /\ \A i \in DOMAIN nq : nq[i].t # "EXT_INFO"
  BY <1>10, <1>3, <1>6
<1>14. x.err = "none" /\ x.events = d.events /\ x.runner = d.runner /\ x \in DriverState
  BY <1>3
<1> QED BY <1>auth, <1>7, <1>8, <1>9, <1>11, <1>12, <1>13, <1>14 DEF x, m

\* A new driver, field by field.
LEMMA NewDriverFields ==
  /\ NewDriver \in DriverState /\ NewDriver.codec \in Codec /\ NewDriver.runner = NewRunner
  /\ NewDriver.codec.outKey = <<0, 0>> /\ NewDriver.codec.inKey = <<0, 0>>
  /\ NewDriver.codec.seqOut = 0 /\ NewDriver.codec.seqIn = 0
  /\ NewDriver.codec.zOut = "none" /\ NewDriver.codec.zIn = "none"
  /\ NewDriver.phase = "AwaitingVersion" /\ NewDriver.outbox = <<>> /\ NewDriver.deferred = <<>>
  /\ NewDriver.deferredOut = <<>> /\ NewDriver.events = <<>> /\ NewDriver.err = "none"
  /\ NewRunner \in Runner /\ NewRunner.phase = "Idle" /\ NewRunner.advert = 0 /\ NewRunner.sid = NoKey
  /\ NewRunner.flags = {}
<1>1. 0 \in SeqNum
  BY SeqModAssumption DEF SeqNum
<1>2. NewCodec \in Codec
  BY <1>1 DEF NewCodec, Codec, NoKey, Key, ZState
<1>3. NewRunner \in Runner
  BY DEF NewRunner, Runner, KexPhases, NoKey, Key
<1> QED BY <1>2, <1>3 DEF NewDriver, NewCodec, NewRunner, NoKey, Errors, DriverState

\* A new driver agrees with itself.
LEMMA NewDriverKeys ==
  ASSUME NEW r \in Role
  PROVE  KeysOK(r, NewDriver) /\ Epoch(NewDriver) = 0 /\ InJ(NewDriver) = 0 /\ OutE(NewDriver) = 0
         /\ OutJ(r, NewDriver) = 0 /\ OutS(NewDriver) = 0
<1> DEFINE d == NewDriver
<1>1. /\ d \in DriverState /\ d.runner = NewRunner
      /\ d.codec.outKey = <<0, 0>> /\ d.codec.inKey = <<0, 0>>
      /\ d.codec.seqOut = 0 /\ d.codec.seqIn = 0 /\ d.codec.zOut = "none" /\ d.codec.zIn = "none"
      /\ d.phase = "AwaitingVersion" /\ d.deferred = <<>> /\ d.deferredOut = <<>>
      /\ d.runner.phase = "Idle" /\ d.runner.flags = {} /\ d.runner.sid = NoKey
  BY NewDriverFields
<1> HIDE DEF d
<1>2. Epoch(d) = 0
  BY <1>1 DEF Epoch
<1>3. OutE(d) = 0 /\ InJ(d) = 0 /\ OutJ(r, d) = 0 /\ OutS(d) = 0
  BY <1>1, <1>2, PlaceOf
<1>5. KeysOK(r, d)
  BY <1>1, <1>2, <1>3 DEF KeysOK, PhasesOf, IsKexing
<1> QED BY <1>2, <1>3, <1>5 DEF d

\* start, on a new driver: the identification line, and a client's KEXINIT.
LEMMA StartEffect ==
  ASSUME NEW r \in Role
  PROVE  LET x == StartDriver(r, NewDriver)
         IN  /\ x \in DriverState
             /\ x.codec.outKey = <<0, 0>> /\ x.codec.inKey = <<0, 0>> /\ x.codec.seqIn = 0
             /\ x.codec.zOut = "none" /\ x.codec.zIn = "none" /\ x.phase = "AwaitingVersion"
             /\ x.deferred = <<>> /\ x.deferredOut = <<>> /\ x.events = <<>> /\ x.err = "none"
             /\ x.auth = FALSE
             /\ \/ /\ r = "server" /\ x.outbox = <<Version>> /\ x.codec.seqOut = 0 /\ x.runner = NewRunner
                \/ /\ r = "client"
                   /\ x.outbox = <<Version>> \o Encode(NewDriver.codec, <<KexInit(1)>>)
                   /\ x.codec.seqOut = 1 % SeqMod
                   /\ x.runner.phase = "SentKexInit" /\ x.runner.advert = 1 /\ x.runner.sid = NoKey
                   /\ x.runner.flags = {"outbound_ext_info"}
<1> DEFINE v == [NewDriver EXCEPT !.outbox = Append(@, Version)]
           x == StartDriver(r, NewDriver)
           b == StartKex(v.runner, v.codec)
<1>1. Version \in WireFrame
  BY SeqModAssumption DEF Version, WireFrame, MsgTypes, NoKey, Key, SeqNum
<1>2. /\ v \in DriverState /\ v.codec = NewDriver.codec /\ v.runner = NewRunner
      /\ v.phase = "AwaitingVersion" /\ v.deferred = <<>> /\ v.deferredOut = <<>>
      /\ v.events = <<>> /\ v.err = "none" /\ v.outbox = <<Version>>
  <2>1. Append(<<>>, Version) = <<Version>> /\ <<Version>> \in Seq(WireFrame)
    BY <1>1
  <2>3. v \in DriverState
    BY <2>1, NewDriverFields DEF DriverState
  <2> QED BY <2>1, <2>3 DEF NewDriver
<1>auth. v.auth = FALSE
  BY DEF NewDriver
<1>3. x = IF r = "client" THEN Apply(v, b) ELSE v
  BY DEF StartDriver
<1> HIDE DEF v
<1>4. /\ v.codec.outKey = <<0, 0>> /\ v.codec.inKey = <<0, 0>> /\ v.codec.seqIn = 0
      /\ v.codec.zOut = "none" /\ v.codec.zIn = "none" /\ v.codec.seqOut = 0 /\ v.codec \in Codec
      /\ v.runner \in Runner /\ v.runner.sid = NoKey
  BY <1>2, NewDriverFields
<1>5. CASE r = "server"
  <2>1. x = v
    BY <1>3, <1>5
  <2> HIDE DEF x
  <2>2. x.auth = FALSE
    BY <1>auth, <2>1, Zenon
  <2> QED BY <1>2, <1>4, <1>5, <2>1, <2>2 DEF x
<1>6. CASE r = "client"
  <2>1. x = Apply(v, b)
    BY <1>3, <1>6
  <2>2. /\ b \in AdvanceType /\ b.err = "none" /\ b.c = v.codec /\ b.out = <<KexInit(1)>>
        /\ b.k.phase = "SentKexInit" /\ b.k.advert = 1 /\ b.k.sid = v.runner.sid
        /\ b.k.flags = {"outbound_ext_info"}
    BY <1>4, OnStart
  <2> HIDE DEF x, b
  <2>3. /\ x \in DriverState
        /\ x.outbox = v.outbox \o Encode(b.c, b.out) /\ x.codec = Encoded(b.c, b.out)
        /\ x.runner = b.k /\ x.phase = v.phase
        /\ x.deferred = v.deferred /\ x.deferredOut = v.deferredOut
        /\ x.events = v.events /\ x.auth = v.auth /\ x.err = v.err
    BY <1>2, <2>1, <2>2, ApplyEffect
  <2>4. x.auth = FALSE
    BY <1>auth, <2>3, Zenon
  <2> DEFINE ms == <<KexInit(1)>>
  <2>5. ms \in Seq(Message) /\ Len(ms) = 1
    BY KexInitAlone
  <2> HIDE DEF ms
  <2>6. /\ x.codec = Encoded(v.codec, ms) /\ x.outbox = <<Version>> \o Encode(NewDriver.codec, ms)
    BY <1>2, <2>2, <2>3 DEF ms
  <2>7. /\ Encoded(v.codec, ms).outKey = v.codec.outKey /\ Encoded(v.codec, ms).inKey = v.codec.inKey
        /\ Encoded(v.codec, ms).zOut = v.codec.zOut /\ Encoded(v.codec, ms).zIn = v.codec.zIn
        /\ Encoded(v.codec, ms).seqIn = v.codec.seqIn
        /\ Encoded(v.codec, ms).seqOut = (v.codec.seqOut + Len(ms)) % SeqMod
    BY <1>4, <2>5, EncodedFields
  <2>8. v.codec.seqOut + Len(ms) = 1
    BY <1>4, <2>5
  <2>9. /\ x.codec.outKey = <<0, 0>> /\ x.codec.inKey = <<0, 0>> /\ x.codec.seqIn = 0
        /\ x.codec.zOut = "none" /\ x.codec.zIn = "none" /\ x.codec.seqOut = 1 % SeqMod
    BY <1>4, <2>6, <2>7, <2>8
  <2>10. /\ x \in DriverState /\ x.phase = "AwaitingVersion" /\ x.deferred = <<>>
         /\ x.deferredOut = <<>> /\ x.events = <<>> /\ x.err = "none"
         /\ x.runner.phase = "SentKexInit" /\ x.runner.advert = 1 /\ x.runner.sid = NoKey
         /\ x.runner.flags = {"outbound_ext_info"}
    BY <1>2, <1>4, <2>2, <2>3
  <2> QED BY <1>6, <2>4, <2>6, <2>9, <2>10 DEF x, ms
<1> QED BY <1>5, <1>6 DEF Role

\* The wire of a driver that starts.
LEMMA StartWire ==
  ASSUME NEW r \in Role, NEW y \in DriverState, InOrder(r, NewDriver, y, "new")
  PROVE  LET x == StartDriver(r, NewDriver)
         IN  /\ x \in DriverState /\ KeysOK(r, x) /\ Fresh(NewDriver, x) /\ Stays(NewDriver, x)
             /\ InOrder(r, x, y, "handshake")
             /\ x.events = <<>> /\ x.err = "none" /\ x.deferredOut = <<>> /\ x.auth = FALSE
             /\ x.runner.advert \in {0, 1} /\ Epoch(x) = 0
             /\ (r = "client" => x.runner.phase # "Idle")
             /\ \A i \in DOMAIN x.outbox : x.outbox[i].t \in {"VERSION", "KEXINIT"}
<1> DEFINE x == StartDriver(r, NewDriver)
           o == x.outbox
<1>1. /\ x \in DriverState
      /\ x.codec.outKey = <<0, 0>> /\ x.codec.inKey = <<0, 0>> /\ x.codec.seqIn = 0
      /\ x.codec.zOut = "none" /\ x.codec.zIn = "none" /\ x.phase = "AwaitingVersion"
      /\ x.deferred = <<>> /\ x.deferredOut = <<>> /\ x.events = <<>> /\ x.err = "none"
  BY StartEffect
<1>auth. x.auth = FALSE
  BY StartEffect
<1>2. \/ /\ r = "server" /\ x.outbox = <<Version>> /\ x.codec.seqOut = 0 /\ x.runner = NewRunner
      \/ /\ r = "client"
         /\ x.outbox = <<Version>> \o Encode(NewDriver.codec, <<KexInit(1)>>)
         /\ x.codec.seqOut = 1 % SeqMod
         /\ x.runner.phase = "SentKexInit" /\ x.runner.advert = 1 /\ x.runner.sid = NoKey
         /\ x.runner.flags = {"outbound_ext_info"}
  BY StartEffect
<1> HIDE DEF x
<1>3. /\ Version \in WireFrame /\ Version.t = "VERSION" /\ Version.key = <<0, 0>> /\ Version.seq = 0
      /\ Version.key[1] = 0 /\ SeqMod \in Nat \ {0}
  BY SeqModAssumption DEF Version, WireFrame, MsgTypes, NoKey, Key, SeqNum
<1>vz. Version.z = FALSE
  BY DEF Version
<1>4. FrameShape(r, Version)
  <2>1. Version.z = (Compression = "zlib" /\ Version.key[1] > 0)
    <3>1. ~(Version.key[1] > 0)
      BY <1>3
    <3> QED BY <1>vz, <3>1, Zenon
  <2> QED BY <1>3, <2>1 DEF FrameShape, IsKexMsg, KexMsg
<1>5. Epoch(x) = 0 /\ InJ(x) = 0 /\ OutE(x) = 0
  <2>1. Epoch(x) = 0
    BY <1>1 DEF Epoch
  <2> QED BY <1>1, <2>1, NewDriverFields, <1>2, PlaceOf
<1>6. KeysOK(r, x)
  <2>1. x.runner.phase \in PhasesOf(r) /\ x.runner.sid = NoKey
        /\ (x.runner.phase = "Idle" => x.runner = NewRunner)
        /\ x.runner.phase \in {"Idle", "SentKexInit"}
        /\ (IsKexing(x.runner) => x.runner.advert = 1)
        /\ "peer_newkeys" \notin x.runner.flags /\ "strict_kex" \notin x.runner.flags
        /\ (r = "server" => x.runner.phase = "Idle")
    <3>1. CASE r = "server"
      BY <1>2, <3>1, NewDriverFields DEF PhasesOf, IsKexing
    <3>2. CASE r = "client"
      BY <1>2, <3>2 DEF PhasesOf, IsKexing
    <3> QED BY <3>1, <3>2 DEF Role
  <2> QED BY <1>1, <1>5, <2>1 DEF KeysOK
<1>7. Stays(NewDriver, x)
  BY <1>1, <1>5, NewDriverFields, NewDriverKeys DEF Stays
<1>8. y.phase = "AwaitingVersion" /\ Epoch(y) <= 0
      /\ (y.err = "none" => Epoch(y) = 0 /\ InJ(y) = 0 /\ y.codec.seqIn = 0)
  BY NewDriverFields, NewDriverKeys DEF InOrder
<1>9. CASE r = "server"
  <2>1. o = <<Version>> /\ x.runner = NewRunner /\ x.codec.seqOut = 0
    BY <1>2, <1>9
  <2> HIDE DEF o
  <2>2. Len(o) = 1 /\ o[1] = Version /\ DOMAIN o = {1} /\ o # <<>>
    BY <2>1
  <2>3. OutJ(r, x) = 0 /\ OutS(x) = 0 /\ x.runner.advert = 0
    BY <2>1, NewDriverFields, <1>1, PlaceOf
  <2>4. FrameOK(r, x, Version)
    BY <1>3, <1>4, <1>5 DEF FrameOK
  <2>5. Linked(o)
    BY <2>2 DEF Linked
  <2>6. y.err = "none" => StartsAt(o, Epoch(y), InJ(y), y.codec.seqIn)
    BY <1>3, <1>8, <2>2 DEF StartsAt, Fits, LegNo, IsKexMsg, KexMsg
  <2>7. EndsAt(o, OutE(x), OutJ(r, x), OutS(x))
    BY <1>3, <1>5, <2>2, <2>3 DEF EndsAt, AfterE, AfterJ, AfterS, LegNo
  <2>8. InOrder(r, x, y, "handshake")
    BY <1>3, <2>2, <2>4, <1>5, <1>8, <2>5, <2>6, <2>7 DEF InOrder, o
  <2>9. Fresh(NewDriver, x)
    BY <1>1, <2>1, NewDriverFields DEF Fresh
  <2>10. \A i \in DOMAIN o : o[i].t \in {"VERSION", "KEXINIT"}
    BY <1>3, <2>2
  <2> QED BY <1>auth, <1>1, <1>5, <1>6, <1>7, <1>9, <2>3, <2>8, <2>9, <2>10 DEF x, o
<1>10. CASE r = "client"
  <2> DEFINE ns == Encode(NewDriver.codec, <<KexInit(1)>>)
             g == ns[1]
  <2>1. /\ ns \in Seq(WireFrame) /\ Len(ns) = 1 /\ g.t = "KEXINIT" /\ g.body = <<1, 1>>
        /\ g.key = <<0, 0>> /\ g.seq = (0 + 1 - 1) % SeqMod
    <3> DEFINE ms == <<KexInit(1)>>
    <3>1. ms \in Seq(Message) /\ Len(ms) = 1 /\ ms[1] = KexInit(1)
      BY KexInitAlone
    <3>2. KexInit(1).t = "KEXINIT" /\ KexInit(1).body = <<1, 1>>
      BY DEF KexInit
    <3> HIDE DEF ms
    <3>3. /\ Encode(NewDriver.codec, ms) \in Seq(WireFrame) /\ Len(Encode(NewDriver.codec, ms)) = Len(ms)
          /\ \A i \in 1..Len(ms) :
               /\ Encode(NewDriver.codec, ms)[i].t = ms[i].t /\ Encode(NewDriver.codec, ms)[i].body = ms[i].body
               /\ Encode(NewDriver.codec, ms)[i].key = NewDriver.codec.outKey
               /\ Encode(NewDriver.codec, ms)[i].seq = (NewDriver.codec.seqOut + i - 1) % SeqMod
      BY <3>1, NewDriverFields, EncodeFields
    <3>4. 1 \in 1..Len(ms)
      BY <3>1
    <3> QED BY <3>1, <3>2, <3>3, <3>4, NewDriverFields DEF ms
  <2>gz. g.z = (NewDriver.codec.zOut = "on")
    <3> DEFINE ms == <<KexInit(1)>>
    <3>1. ms \in Seq(Message) /\ 1 \in 1..Len(ms)
      BY KexInitAlone
    <3> HIDE DEF ms
    <3> QED BY <3>1, NewDriverFields, EncodeFields DEF ms
  <2>2. x.outbox = <<Version>> \o ns /\ x.codec.seqOut = 1 % SeqMod
        /\ x.runner.phase = "SentKexInit" /\ x.runner.advert = 1
    BY <1>2, <1>10
  <2> HIDE DEF ns
  <2>3. o \in Seq(WireFrame) /\ Len(o) = 2 /\ o[1] = Version /\ o[2] = g
    <3>1. <<Version>> \in Seq(WireFrame) /\ Len(<<Version>>) = 1 /\ <<Version>>[1] = Version
      BY <1>3
    <3> DEFINE vs == <<Version>>
    <3> HIDE DEF vs, o
    <3>2. vs \in Seq(WireFrame) /\ Len(vs) = 1 /\ vs[1] = Version
      BY <3>1 DEF vs
    <3>3. /\ vs \o ns \in Seq(WireFrame) /\ Len(vs \o ns) = Len(vs) + Len(ns)
          /\ \A i \in 1..Len(vs) : (vs \o ns)[i] = vs[i]
          /\ \A i \in 1..Len(ns) : (vs \o ns)[Len(vs) + i] = ns[i]
      BY <2>1, <3>2, ConcatFields
    <3>4. 1 \in 1..Len(vs) /\ 1 \in 1..Len(ns) /\ Len(vs) + 1 = 2 /\ Len(vs) + Len(ns) = 2
      BY <2>1, <3>2
    <3>5. o = vs \o ns
      BY <2>2 DEF vs, o
    <3> QED BY <3>2, <3>3, <3>4, <3>5
  <2> HIDE DEF o, g
  <2>4. DOMAIN o = {1, 2} /\ o # <<>>
    BY <2>3
  <2>5. g.seq = 0 /\ g.key[1] = 0
    BY <1>3, ModSmall, <2>1
  <2>6. OutJ(r, x) = 1 /\ OutS(x) = 1 % SeqMod
    BY <1>1, <2>2, PlaceOf DEF OutJ, LegsOut
  <2>7. FrameOK(r, x, Version)
    BY <1>3, <1>4, <1>5 DEF FrameOK
  <2>8. FrameOK(r, x, g)
    BY <2>5, NewDriverFields, <2>gz, <2>1, <1>5, <2>2 DEF FrameShape, IsKexMsg, KexMsg, KexOf,
       FrameOK
  <2>9. Linked(o)
    <3>1. Fits(AfterE(Version), AfterJ(Version), AfterS(Version), g)
      BY <1>3, <2>1, <2>5 DEF Fits, AfterE, AfterJ, AfterS, LegNo, IsKexMsg, KexMsg
    <3> QED BY <2>3, <2>4, <3>1 DEF Linked
  <2>10. y.err = "none" => StartsAt(o, Epoch(y), InJ(y), y.codec.seqIn)
    BY <1>3, <1>8, <2>3 DEF StartsAt, Fits, LegNo, IsKexMsg, KexMsg
  <2>11. EndsAt(o, OutE(x), OutJ(r, x), OutS(x))
    BY <2>1, <2>5, <1>5, <2>3, <2>6 DEF AfterE, AfterJ, AfterS, LegNo, EndsAt
  <2>12. InOrder(r, x, y, "handshake")
    <3>1. \A i \in DOMAIN o : FrameOK(r, x, o[i]) /\ o[i].t \notin {"DISCONNECT", "NEWKEYS"}
                              /\ (o[i].t = "VERSION" => i = 1)
      BY <1>3, <2>1, <2>3, <2>4, <2>7, <2>8
    <3>2. o[1].t = "VERSION"
      BY <1>3, <2>3
    <3> QED BY <1>5, <1>8, <2>4, <2>9, <2>10, <2>11, <3>1, <3>2 DEF InOrder, o
  <2>13. Fresh(NewDriver, x)
    BY <1>1, NewDriverFields, <2>2, <2>3, <2>5 DEF o, Fresh
  <2>14. \A i \in DOMAIN o : o[i].t \in {"VERSION", "KEXINIT"}
    BY <1>3, <2>1, <2>3, <2>4
  <2> QED BY <1>auth, <1>1, <1>5, <1>6, <1>7, <1>10, <2>2, <2>12, <2>13, <2>14 DEF x, o
<1> QED BY <1>9, <1>10 DEF Role

---------------------------------------------------------------------------
(* The two ends and the wires between them.                                *)

\* A frontend that has not yet authenticated.
Early == {"new", "handshake", "auth"}

\* What the state s of r's frontend says of its driver d.
FrontKnows(r, d, s) == /\ s = "new" => d = NewDriver
                       /\ r = "client" /\ s # "new" => d.runner.phase # "Idle"
                       /\ d.auth <=> s \in {"open", "closed"}

\* The peer's one EXT_INFO is still to come from d.
ExtPending(d) == Epoch(d) = 0 \/ \E i \in DOMAIN d.outbox : d.outbox[i].t = "EXT_INFO"

\* An EXT_INFO is the first frame under the first keys, and until it is taken
\* the receiver x, its frontend in state t, having surfaced g, is ready for it.
ExtFirst(d) == \A i \in DOMAIN d.outbox : d.outbox[i].t = "EXT_INFO" =>
                  d.outbox[i].key = <<1, 1>> /\ \A j \in 1..(i - 1) : d.outbox[j].key[1] = 0

ExtInfo(d, x, t, g) == /\ ExtFirst(d)
                       /\ ExtPending(d) => t \in Early /\ Len(g) <= 1 /\ ExtReady(x)

\* Of what was surfaced to a frontend: the payloads, those and the ones held
\* back, and the events it has taken.
Out(g) == IF g = <<>> THEN 0 ELSE Len(g) - 1

Arrived(x, g) == Out(g) + Len(x.deferred)

Polled(x, g) == Len(g) - Len(x.events)

\* The ith event surfaced to the receiver of r's payloads.
Event(r, i) == IF i = 1 THEN Msg("HandshakeComplete") ELSE Item(r, i - 1)

\* The payloads u were submitted by r.
SentOK(r, u) == \A n \in DOMAIN u : u[n] = Item(r, n)

\* The receiver x of r's payloads has surfaced g: the handshake's end and the
\* payloads from the first on, and it holds back those that follow.
SurfacedOK(r, x, g) ==
    /\ g = <<>> <=> Epoch(x) = 0
    /\ \A i \in DOMAIN g : g[i] = Event(r, i)
    /\ Len(x.events) <= Len(g)
    /\ \A i \in DOMAIN x.events : x.events[i] = g[Polled(x, g) + i]
    /\ \A i \in DOMAIN x.deferred : x.deferred[i] = Item(r, Out(g) + i)

\* The payloads u of r that have not arrived are on the wire and, after those,
\* held back by r's driver d.
InFlight(r, u, d, x, g) ==
    /\ Arrived(x, g) <= Len(u)
    /\ x.err = "none" => \E b, c \in Nat : /\ Carries(r, d.outbox, Arrived(x, g), b)
                                           /\ Carries(r, d.deferredOut, b, c)
                                           /\ c <= Len(u) /\ (d.err = "none" => c = Len(u))

\* How far r's frontend is, by what it has taken and submitted.
FrontOK(r, s, d, g, u) ==
    /\ s \in {"new", "handshake"} => Polled(d, g) = 0 /\ u = <<>>
    /\ s = "auth" => /\ Polled(d, g) \in {1, 2}
                     /\ Len(u) = IF r = "client" THEN Polled(d, g) ELSE Polled(d, g) - 1
    /\ s \in {"open", "closed"} => Polled(d, g) >= 3 /\ Len(u) >= 2
    /\ r = "client" => s # "closed"

\* Why a driver has stopped: a full queue, or a peer that has left.
ErrOK(d, t) == \/ d.err = "none" \/ Full(d)
               \/ d.err \in {"disconnected", "decode"} /\ t = "closed"

---------------------------------------------------------------------------
(* EXT_INFO.                                                               *)

\* A driver that sends keeps its EXT_INFO first.
LEMMA ExtSender ==
  ASSUME NEW d \in DriverState, NEW x \in DriverState, NEW r, NEW ns \in Seq(WireFrame),
         x.outbox = d.outbox \o ns, Epoch(d) <= Epoch(x),
         \A i \in DOMAIN d.outbox : d.outbox[i].key[1] <= Epoch(d) /\ d.outbox[i].key[1] \in Nat,
         \A i \in DOMAIN ns : ns[i].t = "EXT_INFO" => i = 1 /\ Epoch(d) = 0 /\ ns[i].key = <<1, 1>>,
         ExtFirst(d)
  PROVE  ExtFirst(x) /\ (ExtPending(x) => ExtPending(d))
<1> DEFINE o == d.outbox
           q == x.outbox
<1>1. o \in Seq(WireFrame) /\ Epoch(d) \in Nat /\ Epoch(x) \in Nat
  BY PlaceType DEF DriverState
<1>a. q = o \o ns
  OBVIOUS
<1>b. \A i \in DOMAIN o : o[i].key[1] <= Epoch(d) /\ o[i].key[1] \in Nat
  OBVIOUS
<1>c. \A i \in DOMAIN o : o[i].t = "EXT_INFO" => o[i].key = <<1, 1>> /\ \A j \in 1..(i - 1) : o[j].key[1] = 0
  BY DEF ExtFirst
<1>d. ExtPending(d) <=> Epoch(d) = 0 \/ \E i \in DOMAIN o : o[i].t = "EXT_INFO"
  BY DEF ExtPending
<1>e. ExtPending(x) <=> Epoch(x) = 0 \/ \E i \in DOMAIN q : q[i].t = "EXT_INFO"
  BY DEF ExtPending
<1>f. ExtFirst(x) <=> \A i \in DOMAIN q : q[i].t = "EXT_INFO" =>
                         q[i].key = <<1, 1>> /\ \A j \in 1..(i - 1) : q[j].key[1] = 0
  BY DEF ExtFirst
<1> HIDE DEF o, q
<1>2. /\ q \in Seq(WireFrame) /\ Len(q) = Len(o) + Len(ns) /\ Len(o) \in Nat /\ Len(ns) \in Nat
      /\ \A i \in 1..Len(o) : q[i] = o[i]
      /\ \A i \in 1..Len(ns) : q[Len(o) + i] = ns[i]
  BY <1>1, ConcatFields, <1>a
<1>3. DOMAIN q = 1..Len(q) /\ DOMAIN o = 1..Len(o) /\ DOMAIN ns = 1..Len(ns)
  BY <1>1, <1>2
<1>4. ASSUME NEW i \in DOMAIN q, q[i].t = "EXT_INFO"
      PROVE  /\ q[i].key = <<1, 1>> /\ \A j \in 1..(i - 1) : q[j].key[1] = 0
             /\ ExtPending(d)
  <2>1. CASE i \in 1..Len(o)
    BY <1>2, <1>3, <2>1, <1>4, <1>c, <1>d
  <2>2. CASE i \notin 1..Len(o)
    <3> DEFINE n == i - Len(o)
    <3>1. n \in 1..Len(ns) /\ i = Len(o) + n
      BY <1>2, <1>3, <2>2
    <3> HIDE DEF n
    <3>2. q[i] = ns[n]
      BY <1>2, <3>1
    <3>3. n = 1 /\ Epoch(d) = 0 /\ ns[n].key = <<1, 1>>
      BY <1>3, <1>4, <3>1, <3>2
    <3>4. ASSUME NEW j \in 1..(i - 1) PROVE q[j].key[1] = 0
      BY <1>2, <3>1, <3>3, <1>3, <1>b
    <3> QED BY <1>d, <3>2, <3>3, <3>4
  <2> QED BY <2>1, <2>2
<1>5. ExtFirst(x)
  BY <1>4, <1>f
<1>6. ASSUME ExtPending(x) PROVE ExtPending(d)
  <2>1. CASE Epoch(x) = 0
    BY <1>1, <1>d, <2>1
  <2>2. CASE \E i \in DOMAIN q : q[i].t = "EXT_INFO"
    BY <1>4, <2>2
  <2> QED BY <1>6, <1>e, <2>1, <2>2
<1> QED BY <1>5, <1>6

\* What is left of the wire after its first frame.
LEMMA ExtTail ==
  ASSUME NEW d \in DriverState, d.outbox # <<>>, ExtFirst(d),
         d.outbox[1].key[1] <= Epoch(d), d.outbox[1].key[1] \in Nat
  PROVE  /\ ExtFirst(Delivered(d))
         /\ ExtPending(Delivered(d)) => ExtPending(d) /\ d.outbox[1].key[1] = 0
<1> DEFINE o == d.outbox
           q == Delivered(d).outbox
<1>1. o \in Seq(WireFrame) /\ o # <<>> /\ Epoch(d) \in Nat
  BY PlaceType DEF DriverState
<1>2. q = Tail(o) /\ Epoch(Delivered(d)) = Epoch(d)
  BY DEF Delivered, DriverState, Epoch
<1>3. \A i \in DOMAIN o : o[i].t = "EXT_INFO" => o[i].key = <<1, 1>> /\ \A j \in 1..(i - 1) : o[j].key[1] = 0
  BY DEF ExtFirst
<1>4. ExtPending(d) <=> Epoch(d) = 0 \/ \E i \in DOMAIN o : o[i].t = "EXT_INFO"
  BY DEF ExtPending
<1>5. ExtPending(Delivered(d)) <=> Epoch(d) = 0 \/ \E i \in DOMAIN q : q[i].t = "EXT_INFO"
  BY <1>2 DEF ExtPending
<1>6. ExtFirst(Delivered(d)) <=> \A i \in DOMAIN q : q[i].t = "EXT_INFO" =>
                         q[i].key = <<1, 1>> /\ \A j \in 1..(i - 1) : q[j].key[1] = 0
  BY DEF ExtFirst
<1>7. o[1].key[1] <= Epoch(d) /\ o[1].key[1] \in Nat
  OBVIOUS
<1> HIDE DEF o, q
<1>8. /\ Len(o) \in Nat /\ Len(o) >= 1 /\ DOMAIN o = 1..Len(o) /\ DOMAIN q = 1..(Len(o) - 1)
      /\ \A i \in 1..(Len(o) - 1) : q[i] = o[i + 1]
  BY <1>1, <1>2
<1>9. ASSUME NEW i \in DOMAIN q, q[i].t = "EXT_INFO"
      PROVE  /\ q[i].key = <<1, 1>> /\ \A j \in 1..(i - 1) : q[j].key[1] = 0
             /\ ExtPending(d) /\ o[1].key[1] = 0
  <2>1. i \in 1..(Len(o) - 1) /\ i + 1 \in DOMAIN o /\ q[i] = o[i + 1] /\ 1 \in 1..(i + 1 - 1)
    BY <1>8
  <2>2. o[i + 1].key = <<1, 1>> /\ \A j \in 1..(i + 1 - 1) : o[j].key[1] = 0
    BY <1>3, <1>9, <2>1
  <2>3. ASSUME NEW j \in 1..(i - 1) PROVE q[j].key[1] = 0
    BY <1>8, <2>1, <2>2
  <2> QED BY <1>4, <1>9, <2>1, <2>2, <2>3
<1>10. ASSUME ExtPending(Delivered(d)) PROVE ExtPending(d) /\ o[1].key[1] = 0
  <2>1. CASE Epoch(d) = 0
    BY <1>1, <1>4, <1>7, <2>1
  <2>2. CASE \E i \in DOMAIN q : q[i].t = "EXT_INFO"
    BY <1>9, <2>2
  <2> QED BY <1>5, <1>10, <2>1, <2>2
<1>11. ExtFirst(Delivered(d))
  BY <1>6, <1>9
<1> QED BY <1>10, <1>11 DEF o

---------------------------------------------------------------------------
(* The payloads under way.                                                 *)

\* The numbers of what was surfaced.
LEMMA CountTypes ==
  ASSUME NEW x \in DriverState, NEW g \in Seq(Message)
  PROVE  /\ Out(g) \in Nat /\ Len(g) \in Nat /\ Arrived(x, g) \in Nat /\ Polled(x, g) \in Int
         /\ Len(x.deferred) \in Nat /\ Len(x.events) \in Nat
         /\ Arrived(x, g) = Out(g) + Len(x.deferred) /\ Polled(x, g) = Len(g) - Len(x.events)
         /\ (g # <<>> => Out(g) = Len(g) - 1 /\ Len(g) >= 1)
         /\ (g = <<>> => Out(g) = 0 /\ Len(g) = 0)
BY DEF DriverState, Out, Arrived, Polled

\* A driver that is given no payload keeps those under way.
LEMMA FlowInFlight ==
  ASSUME NEW r, NEW u \in Seq(Message), NEW d, NEW x, NEW y \in DriverState, NEW g \in Seq(Message),
         InFlight(r, u, d, y, g), Flow(r, d, x), x.err = "none" => d.err = "none"
  PROVE  InFlight(r, u, x, y, g)
<1>1. Arrived(y, g) \in Nat /\ Len(u) \in Nat
  BY CountTypes
<1>2. ASSUME y.err = "none"
      PROVE  \E b, c \in Nat : /\ Carries(r, x.outbox, Arrived(y, g), b) /\ Carries(r, x.deferredOut, b, c)
                               /\ c <= Len(u) /\ (x.err = "none" => c = Len(u))
  <2>1. PICK b, c \in Nat : /\ Carries(r, d.outbox, Arrived(y, g), b) /\ Carries(r, d.deferredOut, b, c)
                            /\ c <= Len(u) /\ (d.err = "none" => c = Len(u))
    BY <1>2 DEF InFlight
  <2>2. PICK h \in Nat : h <= c /\ Carries(r, x.outbox, Arrived(y, g), h) /\ Carries(r, x.deferredOut, h, c)
    BY <1>1, <2>1 DEF Flow
  <2> QED BY <2>1, <2>2
<1> QED BY <1>2 DEF InFlight

\* One that is given the next payload has it under way, if it does not fail.
LEMMA SubmitInFlight ==
  ASSUME NEW r, NEW u \in Seq(Message), NEW d \in DriverState, NEW x \in DriverState,
         NEW y \in DriverState, NEW g \in Seq(Message), NEW m,
         InFlight(r, u, d, y, g), d.err = "none", m = Item(r, Len(u) + 1),
         \/ x.err # "none" /\ x.outbox = d.outbox /\ x.deferredOut = d.deferredOut
         \/ /\ x.outbox = d.outbox /\ x.deferredOut = Append(d.deferredOut, m)
         \/ /\ d.deferredOut = <<>> /\ x.deferredOut = <<>>
            /\ x.outbox = d.outbox \o Encode(d.codec, <<m>>)
  PROVE  InFlight(r, Append(u, m), x, y, g)
<1>1. Arrived(y, g) \in Nat /\ Len(u) \in Nat
  BY CountTypes
<1>m. m \in Message
  BY <1>1, ItemNumber
<1>2. Len(Append(u, m)) = Len(u) + 1
  BY <1>m
<1> DEFINE n == Len(u)
           a == Arrived(y, g)
<1>3. a <= n
  BY DEF InFlight
<1>4. ASSUME y.err = "none"
      PROVE  \E b, c \in Nat : /\ Carries(r, x.outbox, a, b) /\ Carries(r, x.deferredOut, b, c)
                               /\ c <= n + 1 /\ (x.err = "none" => c = n + 1)
  <2>1. PICK b \in Nat : Carries(r, d.outbox, a, b) /\ Carries(r, d.deferredOut, b, n)
    BY <1>4 DEF InFlight
  <2>2. CASE x.err # "none" /\ x.outbox = d.outbox /\ x.deferredOut = d.deferredOut
    BY <1>1, <2>1, <2>2
  <2>3. CASE ~(x.err # "none" /\ x.outbox = d.outbox /\ x.deferredOut = d.deferredOut)
    <3>1. \/ /\ x.outbox = d.outbox /\ x.deferredOut = Append(d.deferredOut, Item(r, n + 1))
          \/ /\ d.deferredOut = <<>> /\ x.deferredOut = <<>>
             /\ x.outbox = d.outbox \o Encode(d.codec, <<Item(r, n + 1)>>)
      BY <2>3
    <3>2. a \in Nat /\ n \in Nat
      BY <1>1
    <3> HIDE DEF a, n
    <3>3. \E h \in Nat : h <= n + 1 /\ Carries(r, x.outbox, a, h) /\ Carries(r, x.deferredOut, h, n + 1)
      BY <2>1, <3>1, <3>2, SubmitFlow
    <3> QED BY <3>2, <3>3
  <2> QED BY <2>2, <2>3
<1> QED BY <1>1, <1>2, <1>3, <1>4 DEF InFlight

\* The payloads submitted stay numbered.
LEMMA SentNext ==
  ASSUME NEW r, NEW u \in Seq(Message), SentOK(r, u)
  PROVE  /\ SentOK(r, Append(u, Item(r, Len(u) + 1))) /\ Item(r, Len(u) + 1) \in Message
         /\ Len(Append(u, Item(r, Len(u) + 1))) = Len(u) + 1
         /\ Append(u, Item(r, Len(u) + 1)) \in Seq(Message)
<1>1. Len(u) \in Nat /\ Item(r, Len(u) + 1) \in Message
  BY ItemNumber
<1> DEFINE m == Item(r, Len(u) + 1)
           v == Append(u, m)
<1>2. m \in Message /\ m = Item(r, Len(u) + 1)
  BY <1>1
<1> HIDE DEF m
<1>3. /\ v \in Seq(Message) /\ Len(v) = Len(u) + 1 /\ DOMAIN v = 1..(Len(u) + 1)
      /\ \A n \in 1..Len(u) : v[n] = u[n] /\ n \in DOMAIN u
      /\ v[Len(u) + 1] = m
  BY <1>2
<1> HIDE DEF v
<1>4. ASSUME NEW n \in DOMAIN v PROVE v[n] = Item(r, n)
  <2>1. CASE n \in 1..Len(u)
    BY <1>3, <2>1 DEF SentOK
  <2>2. CASE n \notin 1..Len(u)
    BY <1>1, <1>3, <2>2, <1>2
  <2> QED BY <2>1, <2>2
<1>5. SentOK(r, v)
  BY <1>4 DEF SentOK
<1> QED BY <1>1, <1>3, <1>5 DEF v, m

\* A receiver that takes nothing leaves the payloads under way.
LEMMA StayInFlight ==
  ASSUME NEW r, NEW u, NEW d, NEW y, NEW x, NEW g, InFlight(r, u, d, y, g),
         x.deferred = y.deferred, x.err = "none" => y.err = "none"
  PROVE  InFlight(r, u, d, x, g)
BY DEF Arrived, InFlight

\* poll_event takes the oldest event.
LEMMA PopSurfaced ==
  ASSUME NEW r, NEW y \in DriverState, NEW x \in DriverState, NEW g \in Seq(Message), SurfacedOK(r, y, g),
         y.events # <<>>, x.events = Tail(y.events), x.deferred = y.deferred, Epoch(x) = Epoch(y)
  PROVE  /\ SurfacedOK(r, x, g) /\ Polled(x, g) = Polled(y, g) + 1
         /\ Head(y.events) = Event(r, Polled(y, g) + 1) /\ Polled(y, g) >= 0 /\ Polled(y, g) < Len(g)
<1> DEFINE v == y.events
           w == x.events
           n == Len(g)
           k == Polled(y, g)
<1>1. v \in Seq(Message) /\ v # <<>> /\ w = Tail(v)
  BY DEF DriverState
<1>2. /\ Len(v) <= n /\ k = n - Len(v) /\ n \in Nat /\ Polled(x, g) = n - Len(w)
      /\ \A i \in DOMAIN v : v[i] = g[k + i]
      /\ \A i \in 1..n : g[i] = Event(r, i)
      /\ (g = <<>> <=> Epoch(x) = 0)
  BY DEF SurfacedOK, Polled
<1> HIDE DEF v, w, n, k
<1>3. /\ Len(v) \in Nat /\ Len(v) >= 1 /\ DOMAIN v = 1..Len(v) /\ Len(w) = Len(v) - 1
      /\ DOMAIN w = 1..(Len(v) - 1) /\ Head(v) = v[1]
      /\ \A i \in 1..(Len(v) - 1) : w[i] = v[i + 1]
  BY <1>1
<1>4. Polled(x, g) = k + 1 /\ k >= 0 /\ k < n
  BY <1>2, <1>3
<1>5. ASSUME NEW i \in DOMAIN w PROVE w[i] = g[Polled(x, g) + i]
  <2>1. i \in 1..(Len(v) - 1)
    BY <1>3
  <2>2. w[i] = v[i + 1] /\ i + 1 \in DOMAIN v
    BY <1>3, <2>1
  <2>4. v[i + 1] = g[k + (i + 1)]
    BY <1>2, <2>2
  <2> QED BY <1>4, <2>2, <1>2, <1>3, <2>1, <2>4
<1>6. Head(v) = Event(r, k + 1)
  <2>1. 1 \in DOMAIN v
    BY <1>3
  <2>2. v[1] = g[k + 1]
    BY <1>2, <2>1
  <2> QED BY <1>2, <1>3, <2>2, <1>4
<1>7. SurfacedOK(r, x, g)
  BY <1>2, <1>3, <1>5 DEF n, w, SurfacedOK
<1> QED BY <1>4, <1>6, <1>7 DEF v, k, n

---------------------------------------------------------------------------
(* What a frame surfaces.                                                  *)

\* The nth payload, without its frame.
LEMMA ContentItem ==
  ASSUME NEW r, NEW n \in Nat \ {0}, NEW f \in WireFrame, IsNth(r, n, f)
  PROVE  Content(f) = Item(r, n) /\ Content(f) \in Message
BY ItemNumber DEF IsNth, Message, Content

\* x holds the events of y and, after them, those of z.
LEMMA NewEventsOf ==
  ASSUME NEW y \in DriverState, NEW x \in DriverState, NEW z \in Seq(Message),
         x.events = y.events \o z
  PROVE  NewEvents(y, x) = z
<1> DEFINE v == y.events
           w == x.events
<1>1. v \in Seq(Message) /\ w \in Seq(Message) /\ z \in Seq(Message)
  BY DEF DriverState
<1>2. w = v \o z
  OBVIOUS
<1> HIDE DEF v, w
<1>3. /\ Len(w) = Len(v) + Len(z) /\ Len(v) \in Nat /\ Len(z) \in Nat
      /\ \A i \in 1..Len(z) : w[Len(v) + i] = z[i]
  BY <1>1, ConcatFields, <1>2
<1>4. SubSeq(w, Len(v) + 1, Len(w)) = z
  <2> DEFINE q == SubSeq(w, Len(v) + 1, Len(w))
  <2>1. Len(v) + 1 >= 1 /\ Len(w) \in Nat /\ Len(v) + 1 \in Nat
    BY <1>3
  <2>2. q = [i \in 1..Len(z) |-> w[Len(v) + i]]
    BY <1>3
  <2>3. z = [i \in 1..Len(z) |-> z[i]]
    BY <1>1
  <2> HIDE DEF q
  <2>4. q = z
    BY <1>3, <2>2, <2>3
  <2> QED BY <2>4 DEF q
<1> QED BY <1>4 DEF NewEvents, v, w

\* The driver x has surfaced the events z that follow g, and those y had.
Surfacing(r, y, x, g, z) ==
    /\ x.events = y.events \o z /\ (g \o z = <<>> <=> Epoch(x) = 0)
    /\ \A i \in 1..Len(z) : z[i] = Event(r, Len(g) + i)
    /\ \A i \in DOMAIN x.deferred : x.deferred[i] = Item(r, Out(g \o z) + i)

\* More is surfaced.
LEMMA SurfaceMore ==
  ASSUME NEW r, NEW y \in DriverState, NEW x \in DriverState, NEW g \in Seq(Message), NEW z \in Seq(Message),
         SurfacedOK(r, y, g), Surfacing(r, y, x, g, z)
  PROVE  /\ SurfacedOK(r, x, g \o z) /\ Polled(x, g \o z) = Polled(y, g)
         /\ NewEvents(y, x) = z /\ g \o z \in Seq(Message) /\ Len(g \o z) = Len(g) + Len(z)
<1> DEFINE v == y.events
           w == x.events
           k == Polled(y, g)
           q == g \o z
<1>0. x.events = y.events \o z
  BY DEF Surfacing
<1>1. v \in Seq(Message) /\ w \in Seq(Message) /\ w = v \o z
  BY <1>0 DEF DriverState
<1>2. /\ Len(v) <= Len(g) /\ k = Len(g) - Len(v) /\ Polled(x, q) = Len(q) - Len(w)
      /\ \A i \in DOMAIN v : v[i] = g[k + i]
      /\ \A i \in DOMAIN g : g[i] = Event(r, i)
  BY DEF SurfacedOK, Polled
<1>3. /\ q \in Seq(Message) /\ Len(q) = Len(g) + Len(z) /\ Len(g) \in Nat /\ Len(z) \in Nat
      /\ \A i \in 1..Len(g) : q[i] = g[i]
      /\ \A i \in 1..Len(z) : q[Len(g) + i] = z[i]
  BY ConcatFields
<1>a. \A i \in 1..Len(z) : z[i] = Event(r, Len(g) + i)
  BY DEF Surfacing
<1> HIDE DEF v, w, k, q
<1>4. /\ Len(w) = Len(v) + Len(z) /\ Len(v) \in Nat
      /\ \A i \in 1..Len(v) : w[i] = v[i]
      /\ \A i \in 1..Len(z) : w[Len(v) + i] = z[i]
  BY <1>1, ConcatFields
<1>5. DOMAIN v = 1..Len(v) /\ DOMAIN w = 1..Len(w) /\ DOMAIN q = 1..Len(q) /\ DOMAIN g = 1..Len(g)
  BY <1>1, <1>3
<1>6. Polled(x, q) = k /\ Len(w) <= Len(q) /\ k \in Nat
  BY <1>2, <1>3, <1>4
<1>7. ASSUME NEW i \in DOMAIN w PROVE w[i] = q[k + i]
  <2>1. CASE i \in 1..Len(v)
    BY <1>2, <1>3, <1>4, <2>1, <1>5
  <2>2. CASE i \notin 1..Len(v)
    <3> DEFINE j == i - Len(v)
    <3>a. i \in 1..(Len(v) + Len(z)) /\ Len(v) \in Nat /\ Len(z) \in Nat /\ Len(g) \in Nat
          /\ k \in Nat /\ Len(g) = k + Len(v)
      BY <1>2, <1>3, <1>4, <1>5, <1>6
    <3>c. j \in 1..Len(z) /\ i = Len(v) + j
      BY <3>a, <2>2
    <3>e. j \in Nat
      BY <3>c
    <3> HIDE DEF j
    <3>1. j \in 1..Len(z) /\ i = Len(v) + j /\ k + i = Len(g) + j
      BY <3>c, <3>a, <3>e
    <3> QED BY <1>3, <1>4, <3>1
  <2> QED BY <2>1, <2>2
<1>8. ASSUME NEW i \in DOMAIN q PROVE q[i] = Event(r, i)
  <2>1. CASE i \in 1..Len(g)
    BY <1>2, <1>3, <1>5, <2>1
  <2>2. CASE i \notin 1..Len(g)
    <3> DEFINE j == i - Len(g)
    <3>1. j \in 1..Len(z) /\ i = Len(g) + j
      BY <1>3, <1>5, <2>2
    <3> HIDE DEF j
    <3> QED BY <1>3, <1>a, <3>1
  <2> QED BY <2>1, <2>2
<1>9. NewEvents(y, x) = z
  BY <1>0, NewEventsOf
<1>10. SurfacedOK(r, x, q)
  BY <1>6, <1>7, <1>8 DEF q, Surfacing, w, SurfacedOK
<1> QED BY <1>3, <1>6, <1>9, <1>10 DEF q, k

\* What comes after the first payload on the wire, when it is taken or not.
LEMMA FirstCarried ==
  ASSUME NEW r, NEW u \in Seq(Message), NEW d \in DriverState, NEW y \in DriverState, NEW g \in Seq(Message),
         InFlight(r, u, d, y, g), y.err = "none", d.outbox # <<>>
  PROVE  LET a == Arrived(y, g)
             f == d.outbox[1]
             n == IF IsItem(f) THEN a + 1 ELSE a
         IN  /\ a \in Nat /\ (IsItem(f) => IsNth(r, a + 1, f)) /\ n <= Len(u)
             /\ \E b, c \in Nat : /\ Carries(r, Delivered(d).outbox, n, b)
                                  /\ Carries(r, Delivered(d).deferredOut, b, c)
                                  /\ c <= Len(u) /\ (Delivered(d).err = "none" => c = Len(u))
<1> DEFINE a == Arrived(y, g)
           f == d.outbox[1]
           n == IF IsItem(f) THEN a + 1 ELSE a
<1>1. a \in Nat /\ a <= Len(u) /\ Len(u) \in Nat
  BY CountTypes DEF InFlight
<1>2. PICK b, c \in Nat : /\ Carries(r, d.outbox, a, b) /\ Carries(r, d.deferredOut, b, c)
                          /\ c <= Len(u) /\ (d.err = "none" => c = Len(u))
  BY DEF InFlight
<1>3. Delivered(d).outbox = Tail(d.outbox) /\ Delivered(d).deferredOut = d.deferredOut
      /\ Delivered(d).err = d.err
  BY DEF Delivered, DriverState
<1>4. d.outbox \in Seq(WireFrame) /\ d.outbox # <<>>
  BY DEF DriverState
<1> HIDE DEF a
<1>5. /\ IsItem(f) => IsNth(r, a + 1, f) /\ a + 1 <= b /\ Carries(r, Tail(d.outbox), a + 1, b)
      /\ ~IsItem(f) => Carries(r, Tail(d.outbox), a, b)
  BY <1>1, <1>2, <1>4, CarriesTail
<1>6. b <= c
  BY <1>2 DEF Carries
<1> QED BY <1>1, <1>2, <1>3, <1>5, <1>6 DEF a

\* The receiver y of r's payloads takes the first frame and becomes x.
LEMMA TakeSurfaced ==
  ASSUME NEW r, NEW u \in Seq(Message), NEW d \in DriverState, NEW y \in DriverState,
         NEW x \in DriverState, NEW g \in Seq(Message),
         InFlight(r, u, d, y, g), SurfacedOK(r, y, g), y.err = "none", d.outbox # <<>>,
         Surfaces(y, d.outbox[1], x)
  PROVE  LET q == g \o NewEvents(y, x)
         IN  /\ q \in Seq(Message) /\ InFlight(r, u, Delivered(d), x, q) /\ SurfacedOK(r, x, q)
             /\ Polled(x, q) = Polled(y, g) /\ Len(q) >= Len(g)
             /\ (Epoch(y) = 0 => Len(q) <= 1)
<1> DEFINE a == Arrived(y, g)
           f == d.outbox[1]
           n == IF IsItem(f) THEN a + 1 ELSE a
           v == y.events
           e == y.deferred
           w == Delivered(d)
<1>1. /\ a \in Nat /\ (IsItem(f) => IsNth(r, a + 1, f)) /\ n <= Len(u)
      /\ \E b, c \in Nat : /\ Carries(r, w.outbox, n, b) /\ Carries(r, w.deferredOut, b, c)
                           /\ c <= Len(u) /\ (w.err = "none" => c = Len(u))
  BY FirstCarried
<1>2. v \in Seq(Message) /\ e \in Seq(Message) /\ f \in WireFrame
  BY DEF DriverState
<1>3. /\ Out(g) \in Nat /\ Len(g) \in Nat /\ a = Out(g) + Len(e) /\ Len(e) \in Nat
      /\ (g # <<>> => Out(g) = Len(g) - 1 /\ Len(g) >= 1)
      /\ (g = <<>> => Out(g) = 0 /\ Len(g) = 0)
  BY CountTypes
<1>4. /\ (g = <<>> <=> Epoch(y) = 0)
      /\ \A i \in DOMAIN e : e[i] = Item(r, Out(g) + i)
  BY DEF SurfacedOK
<1>5. Epoch(y) \in Nat /\ Epoch(x) \in Nat /\ Len(u) \in Nat
  BY PlaceType
<1> DEFINE More(z) ==
             /\ Surfacing(r, y, x, g, z) /\ Arrived(x, g \o z) <= Len(u)
             /\ (x.err = "none" => Arrived(x, g \o z) = n) /\ (Epoch(y) = 0 => Len(z) <= 1)
           Goal(q) == /\ q \in Seq(Message) /\ InFlight(r, u, w, x, q) /\ SurfacedOK(r, x, q)
                      /\ Polled(x, q) = Polled(y, g) /\ Len(q) >= Len(g)
                      /\ (Epoch(y) = 0 => Len(q) <= 1)
<1> SUFFICES Goal(g \o NewEvents(y, x))
  OBVIOUS
<1>6. ASSUME NEW z \in Seq(Message), More(z) PROVE Goal(g \o NewEvents(y, x))
  <2>2. InFlight(r, u, w, x, g \o z)
    <3>1. ASSUME x.err = "none"
          PROVE  \E b, c \in Nat : /\ Carries(r, w.outbox, Arrived(x, g \o z), b)
                                   /\ Carries(r, w.deferredOut, b, c)
                                   /\ c <= Len(u) /\ (w.err = "none" => c = Len(u))
      BY <1>1, <1>6, <3>1
    <3> QED BY <1>6, <3>1 DEF InFlight
  <2>3. Len(g) + Len(z) >= Len(g) /\ (Epoch(y) = 0 => Len(g) + Len(z) <= 1)
    BY <1>3, <1>4, <1>6
  <2> QED BY <1>6, SurfaceMore, <2>2, <2>3
<1> HIDE DEF Goal, More
<1>e. <<>> \in Seq(Message) /\ v \o <<>> = v /\ g \o <<>> = g /\ Len(<<>>) = 0
  BY <1>2
<1>7. CASE /\ (~IsItem(f) \/ x.err # "none") /\ x.events = y.events /\ x.deferred = y.deferred
           /\ Epoch(x) > 0 <=> Epoch(y) > 0
  <2>1. Arrived(x, g) = a
    BY <1>7 DEF Arrived
  <2>4. \A i \in DOMAIN x.deferred : x.deferred[i] = Item(r, Out(g \o <<>>) + i)
    BY <1>4, <1>7, <1>e
  <2>5. \A i \in 1..Len(<<>>) : <<>>[i] = Event(r, Len(g) + i)
    BY <1>e
  <2>6. Surfacing(r, y, x, g, <<>>)
    BY <1>4, <1>5, <1>7, <1>e, <2>4, <2>5 DEF Surfacing
  <2>7. More(<<>>)
    BY <1>e, <2>1, <1>1, <1>5, <1>7, <2>6 DEF More
  <2> QED BY <1>6, <1>e, <2>7
<1>8. CASE /\ IsItem(f) /\ x.err = "none" /\ Epoch(x) > 0 /\ Epoch(y) > 0
           /\ y.deferred = <<>> /\ x.deferred = <<>> /\ x.events = Append(y.events, Content(f))
  <2> DEFINE z == <<Content(f)>>
  <2>1. g # <<>> /\ a = Out(g) /\ Len(g) >= 1 /\ Out(g) = Len(g) - 1 /\ n = a + 1
    BY <1>3, <1>4, <1>5, <1>8
  <2>a. a + 1 \in Nat \ {0} /\ IsNth(r, a + 1, f)
    BY <1>1, <1>8
  <2>2. Content(f) = Item(r, a + 1) /\ Content(f) \in Message
    BY <1>2, <2>a, ContentItem
  <2>3. Content(f) = Event(r, Len(g) + 1)
    BY <1>3, <2>1, <2>2 DEF Event
  <2>4. z \in Seq(Message) /\ Len(z) = 1 /\ z[1] = Content(f) /\ v \o z = Append(v, Content(f))
    BY <1>2, <2>2
  <2> HIDE DEF z
  <2>5. g \o z # <<>> /\ Len(g \o z) = Len(g) + 1 /\ g \o z \in Seq(Message)
    BY <2>1, <2>4
  <2>6. Arrived(x, g \o z) = a + 1
    BY <1>8, <2>5, <1>3, <2>1 DEF Out, Arrived
  <2>8. \A i \in DOMAIN x.deferred : x.deferred[i] = Item(r, Out(g \o z) + i)
    BY <1>8
  <2>9. x.events = v \o z /\ (g \o z = <<>> <=> Epoch(x) = 0) /\ (Epoch(y) = 0 => Len(z) <= 1)
    BY <1>5, <1>8, <2>4, <2>5
  <2>10. Surfacing(r, y, x, g, z)
    BY <2>3, <2>4, <2>8, <2>9 DEF Surfacing
  <2>11. More(z)
    BY <1>1, <2>1, <2>6, <2>9, <2>10 DEF More
  <2> QED BY <1>6, <2>4, <2>11
<1>9. CASE /\ IsItem(f) /\ x.err = "none" /\ Epoch(x) > 0 /\ Epoch(y) > 0
           /\ x.deferred = Append(y.deferred, Content(f)) /\ x.events = y.events
  <2>a. a + 1 \in Nat \ {0} /\ IsNth(r, a + 1, f) /\ n = a + 1
    BY <1>1, <1>9
  <2>1. Content(f) = Item(r, a + 1) /\ Content(f) \in Message /\ n = a + 1
    BY <1>2, <2>a, ContentItem
  <2> DEFINE m == Content(f)
             b == x.deferred
  <2>2. b = Append(e, m) /\ m \in Message /\ m = Item(r, a + 1)
    BY <1>9, <2>1
  <2> HIDE DEF m, b
  <2>3. /\ Len(b) = Len(e) + 1 /\ DOMAIN b = 1..(Len(e) + 1) /\ DOMAIN e = 1..Len(e)
        /\ \A i \in 1..Len(e) : b[i] = e[i]
        /\ b[Len(e) + 1] = m
    BY <1>2, <2>2
  <2>4. ASSUME NEW i \in DOMAIN b PROVE b[i] = Item(r, Out(g) + i)
    <3>1. CASE i \in 1..Len(e)
      BY <1>4, <2>3, <3>1
    <3>2. CASE i \notin 1..Len(e)
      <4>2. Out(g) + (Len(e) + 1) = a + 1
        BY <1>3
      <4> QED BY <2>2, <2>3, <1>3, <3>2, <4>2
    <3> QED BY <3>1, <3>2
  <2>5. Arrived(x, g) = a + 1
    BY <1>3, <2>3 DEF Arrived, b
  <2>7. x.events = v \o <<>> /\ (g \o <<>> = <<>> <=> Epoch(x) = 0)
    BY <1>4, <1>5, <1>9, <1>e
  <2>8. \A i \in 1..Len(<<>>) : <<>>[i] = Event(r, Len(g) + i)
    BY <1>e
  <2>9. Surfacing(r, y, x, g, <<>>)
    BY <1>e, <2>4, <2>7, <2>8 DEF Surfacing, b
  <2>10. More(<<>>)
    BY <1>1, <1>5, <1>9, <1>e, <2>1, <2>5, <2>9 DEF More
  <2> QED BY <1>6, <1>e, <2>10
<1>10. CASE /\ ~IsItem(f) /\ Epoch(y) = 0 /\ Epoch(x) > 0 /\ y.deferred = <<>> /\ x.deferred = <<>>
            /\ x.events = Append(y.events, Msg("HandshakeComplete"))
  <2> DEFINE m == Msg("HandshakeComplete")
             z == <<m>>
  <2>1. g = <<>> /\ a = 0 /\ n = 0 /\ Len(g) = 0
    BY <1>3, <1>4, <1>10
  <2>2. m \in Message
    BY MsgType DEF MsgTypes
  <2>3. m = Event(r, 1)
    BY DEF Event
  <2>m. x.events = Append(v, m)
    BY <1>10
  <2> HIDE DEF m
  <2>4. z \in Seq(Message) /\ Len(z) = 1 /\ z[1] = m /\ v \o z = Append(v, m) /\ g \o z = z /\ z # <<>>
    BY <1>2, <2>1, <2>2
  <2> HIDE DEF z
  <2>5. Out(g \o z) = 0 /\ Arrived(x, g \o z) = 0
    BY <1>10, <2>4 DEF Out, Arrived
  <2>7. \A i \in DOMAIN x.deferred : x.deferred[i] = Item(r, Out(g \o z) + i)
    BY <1>10
  <2>8. x.events = v \o z /\ (g \o z = <<>> <=> Epoch(x) = 0) /\ (Epoch(y) = 0 => Len(z) <= 1)
    <3>1. ~(Epoch(x) = 0)
      BY <1>5, <1>10
    <3> QED BY <2>4, <2>m, <3>1
  <2>9. Surfacing(r, y, x, g, z)
    BY <2>1, <2>3, <2>4, <2>7, <2>8 DEF Surfacing
  <2>10. More(z)
    BY <1>1, <1>5, <2>1, <2>5, <2>8, <2>9 DEF More
  <2> QED BY <1>6, <2>4, <2>10
<1>11. CASE /\ ~IsItem(f) /\ Epoch(y) > 0 /\ Epoch(x) > 0 /\ x.deferred = <<>>
            /\ x.events = y.events \o y.deferred
  <2>1. g # <<>> /\ Len(g) >= 1 /\ Out(g) = Len(g) - 1 /\ n = a
    BY <1>3, <1>4, <1>5, <1>11
  <2>2. g \o e # <<>> /\ Len(g \o e) = Len(g) + Len(e)
    BY <1>2, ConcatFields, <1>3, <2>1
  <2>3. Arrived(x, g \o e) = a
    BY <1>11, <2>2, <1>3, <2>1 DEF Out, Arrived
  <2>4. ASSUME NEW i \in 1..Len(e) PROVE e[i] = Event(r, Len(g) + i)
    BY <1>2, <1>3, <2>1, <1>4 DEF Event
  <2>6. x.events = v \o e /\ (g \o e = <<>> <=> Epoch(x) = 0) /\ ~(Epoch(y) = 0)
    BY <1>5, <1>11, <2>2
  <2>7. Surfacing(r, y, x, g, e)
    BY <2>4, <1>11, <2>6 DEF Surfacing
  <2>8. More(e)
    BY <1>1, <2>1, <2>3, <2>6, <2>7 DEF More
  <2> QED BY <1>2, <1>6, <2>8
<1> QED BY <1>7, <1>8, <1>9, <1>10, <1>11 DEF Surfaces

---------------------------------------------------------------------------
(***************************************************************************)
(* The invariant of a connection.  r's driver is d, its frontend in state  *)
(* s, g surfaced to it and u submitted by it; y, t, h and v are the        *)
(* peer's.                                                                 *)
(***************************************************************************)

\* One end.
EndOK(r, d, s, t, g, u) == /\ KeysOK(r, d) /\ FrontKnows(r, d, s) /\ ErrOK(d, t)
                           /\ FrontOK(r, s, d, g, u) /\ SentOK(r, u)

\* The wire from r to its peer.
WireOK(r, d, s, u, y, t, h) == /\ InOrder(r, d, y, s) /\ ExtInfo(d, y, t, h)
                               /\ SurfacedOK(r, y, h) /\ InFlight(r, u, d, y, h)

\* Before either side has authenticated no re-key has begun.
CalmOK(s, t, d, y) == s \in Early /\ t \in Early => d.runner.advert <= 1 /\ y.runner.advert <= 1

Pair(r, d, s, g, u, y, t, h, v) ==
    /\ EndOK(r, d, s, t, g, u) /\ EndOK(Peer(r), y, t, s, h, v)
    /\ WireOK(r, d, s, u, y, t, h) /\ WireOK(Peer(r), y, t, v, d, s, g)
    /\ CalmOK(s, t, d, y)

\* What a step may do to a driver: no sequence number is used twice under a
\* key, and the session id stays.
StepOK(d, x) == Fresh(d, x) /\ (d.runner.sid # NoKey => x.runner.sid = d.runner.sid)

\* The two ends are alike.
LEMMA PairSwap ==
  ASSUME NEW r \in Role, NEW d, NEW s, NEW g, NEW u, NEW y, NEW t, NEW h, NEW v,
         Pair(r, d, s, g, u, y, t, h, v)
  PROVE  Pair(Peer(r), y, t, h, v, d, s, g, u)
BY DEF Peer, Role, Pair, CalmOK

\* The first frame leaves the wire, and nothing else of its sender changes.
LEMMA DeliveredSame ==
  ASSUME NEW y \in DriverState, y.outbox # <<>>
  PROVE  LET w == Delivered(y)
         IN  /\ w \in DriverState /\ w.codec = y.codec /\ w.runner = y.runner /\ w.phase = y.phase
             /\ w.deferred = y.deferred /\ w.deferredOut = y.deferredOut /\ w.events = y.events
             /\ w.err = y.err /\ Epoch(w) = Epoch(y) /\ InJ(w) = InJ(y) /\ OutE(w) = OutE(y)
             /\ (\A r : KeysOK(r, y) => KeysOK(r, w))
<1> DEFINE w == Delivered(y)
<1>1. Tail(y.outbox) \in Seq(WireFrame)
  BY DEF DriverState
<1>2. /\ w \in DriverState /\ w.codec = y.codec /\ w.runner = y.runner /\ w.phase = y.phase
      /\ w.deferred = y.deferred /\ w.deferredOut = y.deferredOut /\ w.events = y.events
      /\ w.err = y.err
  BY <1>1 DEF Delivered, DriverState
<1> HIDE DEF w
<1>3. Epoch(w) = Epoch(y) /\ InJ(w) = InJ(y) /\ OutE(w) = OutE(y)
  BY <1>2 DEF Epoch, InJ, OutE
<1>4. ASSUME NEW r, KeysOK(r, y) PROVE KeysOK(r, w)
  BY <1>2, <1>3, <1>4 DEF KeysOK
<1> QED BY <1>2, <1>3, <1>4 DEF w

\* ... its authentication included.
LEMMA DeliveredAuth ==
  ASSUME NEW y \in DriverState
  PROVE  Delivered(y).auth = y.auth
  BY DEF Delivered, DriverState

\* The session id stays while the place moves on.
LEMMA SidKept ==
  ASSUME NEW r, NEW d \in DriverState, NEW x \in DriverState, KeysOK(r, d), KeysOK(r, x), OutE(d) <= OutE(x)
  PROVE  d.runner.sid # NoKey => x.runner.sid = d.runner.sid
BY PlaceType DEF KeysOK

\* A driver that moves, between a frontend's start and its end.
LEMMA OwnMoves ==
  ASSUME NEW r, NEW d \in DriverState, NEW x, NEW y \in DriverState, NEW s, NEW s2,
         Moves(r, d, x), KeysOK(r, d), InOrder(r, d, y, s), ExtFirst(d),
         s \notin {"new", "closed"}, s2 \notin {"new", "closed"}
  PROVE  /\ x \in DriverState /\ KeysOK(r, x) /\ InOrder(r, x, y, s2) /\ StepOK(d, x)
         /\ ExtFirst(x) /\ (ExtPending(x) => ExtPending(d))
<1>1. x \in DriverState /\ KeysOK(r, x) /\ Fresh(d, x)
  BY DEF Moves
<1>2. PICK ns : Sends(r, d, x, ns)
  BY DEF Moves
<1>3. InOrder(r, x, y, s2)
  BY <1>1, <1>2, SendInOrder
<1>4. /\ ns \in Seq(WireFrame) /\ x.outbox = d.outbox \o ns /\ Epoch(d) <= Epoch(x) /\ OutE(d) <= OutE(x)
      /\ \A i \in DOMAIN ns : ns[i].t = "EXT_INFO" => i = 1 /\ Epoch(d) = 0 /\ OutE(d) = 1
      /\ \A i \in DOMAIN ns : ns[i].key[1] = OutE(d) /\ FrameOK(r, x, ns[i])
  BY <1>2 DEF Sends
<1>5. StepOK(d, x)
  BY <1>1, <1>4, SidKept DEF StepOK
<1>6. ASSUME NEW i \in DOMAIN ns, ns[i].t = "EXT_INFO"
      PROVE  i = 1 /\ Epoch(d) = 0 /\ ns[i].key = <<1, 1>>
  BY <1>4, <1>6 DEF FrameOK, FrameShape
<1>7. ASSUME NEW i \in DOMAIN d.outbox
      PROVE  d.outbox[i].key[1] <= Epoch(d) /\ d.outbox[i].key[1] \in Nat
  <2>1. d.outbox[i] \in WireFrame
    BY DEF DriverState
  <2>2. d.outbox[i].key[1] \in Nat
    BY <2>1 DEF WireFrame, Key
  <2> QED BY <2>2 DEF InOrder, FrameOK
<1> QED BY <1>1, <1>3, <1>5, <1>4, <1>6, <1>7, ExtSender

\* A step of one end.
LEMMA OwnStep ==
  ASSUME NEW r \in Role, NEW d, NEW s, NEW g, NEW u, NEW y, NEW t, NEW h, NEW v, NEW x, NEW s2, NEW u2,
         Pair(r, d, s, g, u, y, t, h, v), d.err = "none", s # "closed",
         EndOK(r, x, s2, t, g, u2), InOrder(r, x, y, s2),
         ExtFirst(x), ExtPending(x) => ExtPending(d), InFlight(r, u2, x, y, h),
         Stays(d, x), SurfacedOK(Peer(r), x, g), ExtPending(y) => s2 \in Early /\ ExtReady(x),
         CalmOK(s2, t, x, y)
  PROVE  Pair(r, x, s2, g, u2, y, t, h, v)
<1> DEFINE p == Peer(r)
<1>2. EndOK(p, y, t, s2, h, v)
  BY DEF Pair, EndOK, ErrOK
<1>4. ExtInfo(y, x, s2, g)
  BY DEF Pair, WireOK, ExtInfo
<1>5. InFlight(p, v, y, x, g)
  BY StayInFlight DEF Pair, WireOK, Stays
<1>6. WireOK(p, y, t, v, x, s2, g)
  BY StayInOrder, <1>4, <1>5 DEF WireOK, Pair, Stays
<1> QED BY <1>2, <1>6 DEF Pair, WireOK, ExtInfo

---------------------------------------------------------------------------
(* A frame arrives, whatever it is.                                        *)

\* r's driver d has taken f from a peer whose frontend is in state t.
Took(r, d, f, t, x) ==
    /\ Moves(r, d, x) /\ Flow(r, d, x) /\ ErrOK(x, t) /\ x.auth = d.auth
    /\ x.phase # "AwaitingVersion" /\ (r = "client" => x.runner.phase # "Idle")
    /\ Epoch(x) <= AfterE(f) \/ Epoch(x) = Epoch(d)
    /\ x.err = "none" => /\ f.t # "DISCONNECT" /\ Epoch(x) = AfterE(f)
                         /\ InJ(x) = AfterJ(f) /\ x.codec.seqIn = AfterS(f)
    /\ x.runner.advert <= 1 \/ x.runner.advert = d.runner.advert \/ (f.t = "KEXINIT" /\ f.key[1] > 0)
    /\ f.key[1] = 0 => Epoch(d) = 0 /\ ExtReady(x)
    /\ Surfaces(d, f, x)

\* A frame that is taken by its rule was taken.
LEMMA TookOfTakes ==
  ASSUME NEW r, NEW d \in DriverState, NEW f \in WireFrame, NEW t, NEW x, Takes(r, d, f, x), f.t # "DISCONNECT",
         Fits(Epoch(d), InJ(d), d.codec.seqIn, f)
  PROVE  Took(r, d, f, t, x)
<1>2. ErrOK(x, t)
  BY DEF Takes, ErrOK
<1>3. f.key[1] = 0 => Epoch(d) = 0 /\ ExtReady(x)
  BY DEF Takes, Fits
<1>4. /\ Moves(r, d, x) /\ Flow(r, d, x) /\ x.phase # "AwaitingVersion" /\ x.runner.phase # "Idle"
      /\ Epoch(x) <= AfterE(f)
      /\ x.err = "none" => Epoch(x) = AfterE(f) /\ InJ(x) = AfterJ(f) /\ x.codec.seqIn = AfterS(f)
      /\ x.runner.advert <= 1 \/ x.runner.advert = d.runner.advert \/ (f.t = "KEXINIT" /\ f.key[1] > 0)
      /\ Surfaces(d, f, x)
  BY DEF Takes
<1>5. x.auth = d.auth
  BY Zenon DEF Takes
<1> QED BY <1>2, <1>3, <1>4, <1>5, Zenon DEF Took

\* The first frame on the wire from the peer.
LEMMA TookAny ==
  ASSUME Agreed, NEW r \in Role, NEW d \in DriverState, NEW y \in DriverState, NEW s, NEW t, NEW g,
         KeysOK(r, d), FrontKnows(r, d, s), d.err = "none", s # "new",
         KeysOK(Peer(r), y), FrontKnows(Peer(r), y, t),
         InOrder(Peer(r), y, d, t), ExtInfo(y, d, s, g), y.outbox # <<>>
  PROVE  Took(r, d, y.outbox[1], t, HandleInputItem(r, d, y.outbox[1]))
<1> DEFINE f == y.outbox[1]
           p == Peer(r)
           x == HandleInputItem(r, d, f)
<1>1. y.outbox \in Seq(WireFrame) /\ 1 \in DOMAIN y.outbox /\ f \in WireFrame
  BY DEF DriverState
<1>2. t # "new"
  BY NewDriverFields DEF FrontKnows
<1>3. FrameOK(p, y, f) /\ FrameShape(p, f)
  BY <1>1 DEF InOrder, FrameOK
<1>4. (d.phase = "AwaitingVersion" <=> f.t = "VERSION") /\ (f.t = "DISCONNECT" => t = "closed")
  BY <1>1, <1>2 DEF InOrder
<1>5. f.t # "DISCONNECT" => Fits(Epoch(d), InJ(d), d.codec.seqIn, f)
  BY DEF InOrder, StartsAt
<1>6. r = "client" => d.runner.phase # "Idle"
  BY DEF FrontKnows
<1> HIDE DEF f, p
<1>7. CASE f.t = "VERSION"
  <2>1. Fits(Epoch(d), InJ(d), d.codec.seqIn, f) /\ f.t # "DISCONNECT" /\ d.phase = "AwaitingVersion"
    BY <1>4, <1>5, <1>7
  <2>2. Takes(r, d, f, x)
    BY <1>1, <1>6, <1>7, <2>1, TakeVersion
  <2> HIDE DEF x
  <2> QED BY <1>1, <2>1, <2>2, TookOfTakes DEF x, f
<1>8. CASE f.t = "DISCONNECT"
  <2>0. d.phase # "AwaitingVersion" /\ FrameShape(Peer(r), f)
    BY <1>3, <1>4, <1>8 DEF p
  <2>1. /\ Moves(r, d, x) /\ Flow(r, d, x) /\ x.err \in {"disconnected", "decode"}
        /\ x.phase = d.phase /\ x.runner = d.runner /\ x.auth = d.auth
        /\ Epoch(x) = Epoch(d) /\ x.events = d.events /\ x.deferred = d.deferred
    BY <1>1, <1>8, <2>0, TakeDisconnect
  <2>2. f.key[1] > 0 /\ f.key[1] \in Nat /\ ~IsItem(f)
    BY <1>1, <1>8, <2>0 DEF WireFrame, Key, IsKexMsg, KexMsg, IsItem, ItemTypes, FrameShape
  <2> HIDE DEF x
  <2>3. ErrOK(x, t)
    BY <1>4, <1>8, <2>1 DEF ErrOK
  <2>4. Surfaces(d, f, x)
    BY <2>1, <2>2 DEF Surfaces
  <2>5. x.err # "none" /\ ~(f.key[1] = 0) /\ x.runner.advert = d.runner.advert
        /\ (r = "client" => x.runner.phase # "Idle") /\ x.phase # "AwaitingVersion"
    BY <1>6, <2>0, <2>1, <2>2
  <2>6. Took(r, d, f, t, x)
    BY <2>1, <2>3, <2>4, <2>5, Zenon DEF Took
  <2> QED BY <2>6 DEF x, f
<1>9. CASE f.t \notin {"VERSION", "DISCONNECT"}
  <2>1. Fits(Epoch(d), InJ(d), d.codec.seqIn, f) /\ f.t # "DISCONNECT" /\ d.phase # "AwaitingVersion"
    BY <1>4, <1>5, <1>9
  <2>2. ASSUME f.t = "EXT_INFO"
        PROVE  d.runner.phase = "Completed" /\ "accept_ext_info_now" \in d.runner.flags
    BY <1>1, <2>2, <2>1 DEF ExtInfo, ExtFirst, ExtPending, f, Fits, ExtReady
  <2>3. Arrives(r, d, f)
    BY <1>1, <1>3, <1>9, <2>1, <2>2 DEF Arrives, p
  <2>4. Takes(r, d, f, x)
    BY <2>3, TakeAny
  <2> HIDE DEF x
  <2> QED BY <1>1, <2>1, <2>4, TookOfTakes DEF x, f
<1> QED BY <1>7, <1>8, <1>9

\* handle_input, for one packet.
LEMMA TakeStep ==
  ASSUME Agreed, NEW r \in Role, NEW d \in DriverState, NEW s, NEW g \in Seq(Message), NEW u \in Seq(Message),
         NEW y \in DriverState, NEW t, NEW h \in Seq(Message), NEW v \in Seq(Message),
         NEW x \in DriverState, Took(r, d, y.outbox[1], t, x),
         Pair(r, d, s, g, u, y, t, h, v), d.err = "none", s \notin {"new", "closed"}, y.outbox # <<>>
  PROVE  LET q == g \o NewEvents(d, x)
         IN  /\ Pair(r, x, s, q, u, Delivered(y), t, h, v) /\ q \in Seq(Message) /\ Len(q) >= Len(g)
             /\ StepOK(d, x) /\ StepOK(y, Delivered(y))
<1> DEFINE f == y.outbox[1]
           p == Peer(r)
           w == Delivered(y)
           q == g \o NewEvents(d, x)
<1>0. /\ KeysOK(r, d) /\ FrontKnows(r, d, s) /\ FrontOK(r, s, d, g, u) /\ SentOK(r, u)
      /\ KeysOK(p, y) /\ FrontKnows(p, y, t) /\ ErrOK(y, s) /\ FrontOK(p, t, y, h, v) /\ SentOK(p, v)
      /\ InOrder(r, d, y, s) /\ ExtInfo(d, y, t, h) /\ SurfacedOK(r, y, h) /\ InFlight(r, u, d, y, h)
      /\ InOrder(p, y, d, t) /\ ExtInfo(y, d, s, g) /\ SurfacedOK(p, d, g) /\ InFlight(p, v, y, d, g)
      /\ CalmOK(s, t, d, y)
  BY DEF Pair, EndOK, WireOK
<1>1. y.outbox \in Seq(WireFrame) /\ 1 \in DOMAIN y.outbox /\ f \in WireFrame
  BY DEF DriverState
<1>2. t # "new"
  BY <1>0, NewDriverFields DEF FrontKnows
<1>3. FrameOK(p, y, f)
  BY <1>0, <1>1 DEF InOrder
<1>4. /\ w \in DriverState /\ w.codec = y.codec /\ w.runner = y.runner /\ w.phase = y.phase
      /\ w.deferred = y.deferred /\ w.deferredOut = y.deferredOut /\ w.events = y.events
      /\ w.err = y.err /\ Epoch(w) = Epoch(y) /\ InJ(w) = InJ(y) /\ OutE(w) = OutE(y)
      /\ KeysOK(p, w)
  BY <1>0, DeliveredSame
<1>a. w.auth = y.auth
  BY DeliveredAuth
<1>5. /\ Moves(r, d, x) /\ Flow(r, d, x) /\ ErrOK(x, t)
      /\ x.phase # "AwaitingVersion" /\ (r = "client" => x.runner.phase # "Idle")
      /\ Epoch(x) <= AfterE(f) \/ Epoch(x) = Epoch(d)
      /\ x.err = "none" => /\ f.t # "DISCONNECT" /\ Epoch(x) = AfterE(f)
                           /\ InJ(x) = AfterJ(f) /\ x.codec.seqIn = AfterS(f)
      /\ x.runner.advert <= 1 \/ x.runner.advert = d.runner.advert \/ (f.t = "KEXINIT" /\ f.key[1] > 0)
      /\ f.key[1] = 0 => Epoch(d) = 0 /\ ExtReady(x)
      /\ Surfaces(d, f, x)
  BY DEF Took
<1>b. x.auth = d.auth
  BY Zenon DEF Took
<1>6. q \in Seq(Message) /\ InFlight(p, v, w, x, q) /\ SurfacedOK(p, x, q)
      /\ Polled(x, q) = Polled(d, g) /\ Len(q) >= Len(g) /\ (Epoch(d) = 0 => Len(q) <= 1)
  <2>1. InFlight(p, v, y, d, g) /\ SurfacedOK(p, d, g) /\ Surfaces(d, y.outbox[1], x)
    BY <1>0, <1>5
  <2> HIDE DEF p
  <2>2. LET qq == g \o NewEvents(d, x)
        IN  /\ qq \in Seq(Message) /\ InFlight(p, v, Delivered(y), x, qq) /\ SurfacedOK(p, x, qq)
            /\ Polled(x, qq) = Polled(d, g) /\ Len(qq) >= Len(g)
            /\ (Epoch(d) = 0 => Len(qq) <= 1)
    BY <2>1, TakeSurfaced
  <2> QED BY <2>2
<1>7. f.key[1] \in Nat /\ f.key[1] <= Epoch(y) /\ Epoch(y) \in Nat /\ OutE(y) \in Nat /\ Epoch(y) <= OutE(y)
      /\ (f.t = "NEWKEYS" => f.key[1] < OutE(y)) /\ (f.t = "KEXINIT" => f.key[1] < y.runner.advert)
      /\ Epoch(x) \in Nat /\ y.runner.advert \in Nat
  <2>1. f.key[1] \in Nat
    BY <1>1 DEF WireFrame, Key
  <2>2. Epoch(y) \in Nat /\ OutE(y) \in Nat /\ Epoch(x) \in Nat /\ y.runner.advert \in Nat
    BY PlaceType
  <2> QED BY <1>3, <2>1, <2>2 DEF FrameOK, OutE
<1>8. Epoch(x) <= OutE(y)
  <2>1. AfterE(f) <= OutE(y)
    BY <1>7, SMTT(30) DEF AfterE
  <2>2. CASE Epoch(x) <= AfterE(f)
    <3>0. f.key[1] \in Nat /\ (AfterE(f) = f.key[1] + 1 \/ AfterE(f) = f.key[1])
      BY <1>7 DEF AfterE
    <3>1. AfterE(f) \in Nat
      BY <3>0
    <3> QED BY <2>1, <2>2, <3>1, <1>7
  <2>3. CASE Epoch(x) = Epoch(d)
    BY <1>0, <2>3 DEF InOrder
  <2> QED BY <1>5, <2>2, <2>3
<1> HIDE DEF w, q, p
<1>9. InOrder(p, w, x, t)
  BY <1>0, <1>2, <1>5, <1>8, ReceiveInOrder DEF w
<1>11. /\ KeysOK(r, x) /\ InOrder(r, x, w, s) /\ StepOK(d, x)
       /\ ExtFirst(x) /\ (ExtPending(x) => ExtPending(d))
  BY <1>0, <1>4, <1>5, StayInOrder, OwnMoves DEF ExtInfo
<1>13. SurfacedOK(r, w, h) /\ Polled(w, h) = Polled(y, h)
  BY <1>0, <1>4 DEF SurfacedOK, Polled
<1>14. InFlight(r, u, x, w, h)
  BY <1>0, <1>4, StayInFlight, <1>5, FlowInFlight
<1>15. ExtInfo(w, x, s, q)
  BY <1>0, <1>7, ExtTail, <1>5, <1>6 DEF ExtInfo, w
<1>16. EndOK(r, x, s, t, q, u)
  <2>1. FrontKnows(r, x, s)
    <3>1. d.auth <=> s \in {"open", "closed"}
      BY <1>0, Zenon DEF FrontKnows
    <3>2. x.auth <=> s \in {"open", "closed"}
      BY <1>b, <3>1, Zenon
    <3> QED BY <1>5, <3>2, Zenon DEF FrontKnows
  <2> QED BY <1>0, <1>5, <1>11, <2>1, <1>6 DEF EndOK, FrontOK
<1>17. EndOK(p, w, t, s, h, v)
  <2>1. FrontKnows(p, w, t)
    <3>1. y.auth <=> t \in {"open", "closed"}
      BY <1>0, Zenon DEF FrontKnows
    <3>2. w.auth <=> t \in {"open", "closed"}
      BY <1>a, <3>1, Zenon
    <3>4. p = "client" => w.runner.phase # "Idle"
      BY <1>4, <1>0, <1>2 DEF FrontKnows
    <3> QED BY <1>2, <3>2, <3>4, Zenon DEF FrontKnows
  <2>3. ErrOK(w, s)
    BY <1>0, <1>4 DEF ErrOK, Full
  <2> QED BY <1>0, <1>4, <2>1, <1>13, <2>3 DEF EndOK, FrontOK
<1>18. CalmOK(s, t, x, w)
  <2>1. ASSUME s \in Early, t \in Early PROVE x.runner.advert <= 1 /\ w.runner.advert <= 1
    BY <1>0, <2>1, <1>7, <1>4, <1>5 DEF CalmOK
  <2> QED BY <2>1 DEF CalmOK
<1>19. StepOK(y, w)
  BY <1>4 DEF StepOK, Fresh
<1>20. WireOK(r, x, s, u, w, t, h)
  BY <1>11, <1>0, <1>4, <1>13, <1>14 DEF WireOK, ExtInfo, ExtReady
<1>21. WireOK(p, w, t, v, x, s, q)
  BY <1>6, <1>9, <1>15 DEF WireOK
<1>22. Pair(r, x, s, q, u, w, t, h, v)
  BY <1>16, <1>17, <1>18, <1>20, <1>21 DEF Pair, p
<1> QED BY <1>6, <1>11, <1>19, <1>22 DEF q, w

---------------------------------------------------------------------------
(* The steps of a frontend.                                                *)

\* A step that hands its driver on, between the start and the end.
LEMMA KeepStep ==
  ASSUME NEW r \in Role, NEW d \in DriverState, NEW s, NEW g \in Seq(Message), NEW u, NEW y \in DriverState,
         NEW t, NEW h, NEW v,
         NEW x, NEW s2, NEW u2, Pair(r, d, s, g, u, y, t, h, v), d.err = "none",
         s \notin {"new", "closed"}, s2 \notin {"new", "closed"},
         Moves(r, d, x), Stays(d, x), x.err = "none" \/ Full(x), x.runner.phase # "Idle",
         x.auth <=> s2 = "open",
         FrontOK(r, s2, x, g, u2), SentOK(r, u2), SurfacedOK(Peer(r), x, g), InFlight(r, u2, x, y, h),
         s2 \in Early => s \in Early /\ x.runner = d.runner,
         s2 \notin Early => s \notin Early \/ Len(g) > 1
  PROVE  Pair(r, x, s2, g, u2, y, t, h, v) /\ StepOK(d, x)
<1> DEFINE p == Peer(r)
<1>0. /\ KeysOK(r, d) /\ InOrder(r, d, y, s) /\ ExtInfo(d, y, t, h) /\ ExtInfo(y, d, s, g) /\ CalmOK(s, t, d, y)
      /\ SurfacedOK(p, d, g)
  BY DEF Pair, EndOK, WireOK
<1>1. /\ x \in DriverState /\ KeysOK(r, x) /\ InOrder(r, x, y, s2) /\ StepOK(d, x)
      /\ ExtFirst(x) /\ (ExtPending(x) => ExtPending(d))
  BY <1>0, OwnMoves DEF ExtInfo
<1>2. FrontKnows(r, x, s2)
  <2>1. x.auth <=> s2 \in {"open", "closed"}
    OBVIOUS
  <2>2. s2 # "new" /\ x.runner.phase # "Idle"
    OBVIOUS
  <2> QED BY <2>1, <2>2, Zenon DEF FrontKnows
<1>4. ExtPending(y) => s2 \in Early /\ ExtReady(x)
  <2>1. ASSUME ExtPending(y) PROVE s2 \in Early /\ ExtReady(x)
    <3>1. s \in Early /\ Len(g) <= 1 /\ ExtReady(d)
      BY <1>0, <2>1 DEF ExtInfo
    <3>2. s2 \in Early /\ x.runner = d.runner
      <4>1. CASE s2 \in Early
        BY <4>1
      <4>2. CASE s2 \notin Early
        BY <3>1, <4>2
      <4> QED BY <4>1, <4>2
    <3> QED BY <3>1, <3>2 DEF ExtReady, Stays
  <2> QED BY <2>1
<1>5. CalmOK(s2, t, x, y)
  BY <1>0 DEF CalmOK
<1>6. s # "closed"
  OBVIOUS
<1>7. Pair(r, x, s2, g, u2, y, t, h, v)
  BY <1>1, <1>2, <1>4, <1>5, <1>6, OwnStep DEF EndOK, ErrOK
<1> QED BY <1>1, <1>7

FrontStates == {"new", "handshake", "auth", "open", "closed"}

\* What kind of event the one after the first k is.
LEMMA EventKind ==
  ASSUME NEW p \in Role, NEW k \in Nat
  PROVE  /\ k = 0 => Event(p, k + 1).t = "HandshakeComplete"
         /\ k = 1 => Event(p, k + 1).t = IF p = "client" THEN "SERVICE_REQUEST" ELSE "SERVICE_ACCEPT"
         /\ k = 2 => Event(p, k + 1).t = IF p = "client" THEN "USERAUTH_REQUEST" ELSE "USERAUTH_SUCCESS"
         /\ k >= 3 => Event(p, k + 1).t = "APP"
BY DEF Event, Msg, Item

\* d without its oldest event.
Pop(d) == [d EXCEPT !.events = Tail(@)]

\* poll_event takes the first event and leaves the rest of the driver alone.
LEMMA PopFields ==
  ASSUME NEW d \in DriverState, d.events # <<>>
  PROVE  Pop(d) \in DriverState /\ Alike(d, Pop(d)) /\ Pop(d).events = Tail(d.events)
<1>1. Tail(d.events) \in Seq(Message)
  BY DEF DriverState
<1>2. Pop(d) \in DriverState /\ Pop(d).events = Tail(d.events)
  BY <1>1 DEF Pop, DriverState
<1>3. Pop(d).auth = d.auth
  BY DEF Pop, DriverState
<1>4. /\ Pop(d).codec = d.codec /\ Pop(d).runner = d.runner /\ Pop(d).phase = d.phase
      /\ Pop(d).outbox = d.outbox /\ Pop(d).deferred = d.deferred /\ Pop(d).deferredOut = d.deferredOut
      /\ Pop(d).err = d.err
  BY DEF Pop, DriverState
<1> QED BY <1>2, <1>3, <1>4, Zenon DEF Alike

\* What a frontend knows of its driver when it takes an event: how many it has
\* taken, and of what kind this one is.
LEMMA PopKnown ==
  ASSUME NEW r \in Role, NEW d \in DriverState, NEW s, NEW g \in Seq(Message), NEW u \in Seq(Message),
         NEW y, NEW t, NEW h, NEW v, Pair(r, d, s, g, u, y, t, h, v), d.events # <<>>
  PROVE  LET k == Polled(d, g)
             z == Pop(d)
         IN  /\ SurfacedOK(Peer(r), z, g) /\ Polled(z, g) = k + 1 /\ k \in Nat /\ k < Len(g) /\ Len(g) \in Nat
             /\ Head(d.events).t = Event(Peer(r), k + 1).t /\ Epoch(d) > 0 /\ s # "new"
             /\ FrontOK(r, s, d, g, u)
<1>1. SurfacedOK(Peer(r), d, g) /\ FrontOK(r, s, d, g, u) /\ FrontKnows(r, d, s)
  BY DEF Pair, EndOK, WireOK
<1>2. Pop(d) \in DriverState /\ Alike(d, Pop(d)) /\ Pop(d).events = Tail(d.events)
  BY PopFields
<1>4. /\ SurfacedOK(Peer(r), Pop(d), g) /\ Polled(Pop(d), g) = Polled(d, g) + 1
      /\ Head(d.events) = Event(Peer(r), Polled(d, g) + 1) /\ Polled(d, g) >= 0 /\ Polled(d, g) < Len(g)
  BY <1>1, <1>2, PopSurfaced DEF Alike, Epoch
<1>5. Polled(d, g) \in Int /\ Len(g) \in Nat
  BY CountTypes
<1>6. Polled(d, g) \in Nat
  BY <1>4, <1>5
<1>8. s # "new"
  BY <1>1, NewDriverFields DEF FrontKnows
<1> QED BY <1>1, <1>4, <1>5, <1>6, PlaceType, <1>8 DEF SurfacedOK

\* The driver is through its first exchange: it is not idle.
LEMMA NotIdle ==
  ASSUME NEW r, NEW d \in DriverState, KeysOK(r, d), Epoch(d) > 0
  PROVE  d.runner.phase # "Idle"
BY DEF KeysOK

\* An event is taken in silence.
LEMMA PopStep ==
  ASSUME NEW r \in Role, NEW d \in DriverState, NEW s \in FrontStates, NEW g \in Seq(Message), NEW u \in Seq(Message),
         NEW y \in DriverState, NEW t, NEW h \in Seq(Message), NEW v, Pair(r, d, s, g, u, y, t, h, v),
         d.err = "none", s # "closed", d.events # <<>>, NEW s2 \in FrontStates,
         s2 \notin {"new", "closed"}, s2 = "open" <=> s = "open",
         FrontOK(r, s2, Pop(d), g, u)
  PROVE  Pair(r, Pop(d), s2, g, u, y, t, h, v) /\ StepOK(d, Pop(d))
<1> DEFINE x == Pop(d)
<1>1. x \in DriverState /\ Alike(d, x) /\ x.events = Tail(d.events)
  BY PopFields
<1>2. SurfacedOK(Peer(r), x, g) /\ Epoch(d) > 0 /\ s # "new"
  BY PopKnown
<1>3. KeysOK(r, d) /\ SentOK(r, u) /\ InFlight(r, u, d, y, h) /\ FrontKnows(r, d, s)
  BY DEF Pair, EndOK, WireOK
<1> HIDE DEF x
<1>4. Moves(r, d, x) /\ Stays(d, x) /\ Flow(r, d, x) /\ x.runner = d.runner
  BY <1>1, <1>3, AlikeMoves
<1>5. x.err = "none" /\ x.runner.phase # "Idle"
  BY <1>1, <1>2, <1>3, <1>4, NotIdle DEF Alike
<1>6. x.auth <=> s2 = "open"
  <2>1. x.auth = d.auth
    BY <1>1, Zenon DEF Alike
  <2>2. d.auth <=> s \in {"open", "closed"}
    BY <1>3, Zenon DEF FrontKnows
  <2>3. s \in {"open", "closed"} <=> s2 = "open"
    OBVIOUS
  <2> QED BY <2>1, <2>2, <2>3, Zenon
<1>7. InFlight(r, u, x, y, h)
  BY <1>3, <1>4, FlowInFlight
<1>8. FrontOK(r, s2, x, g, u)
  BY DEF x
<1>9. /\ s2 \in Early => s \in Early
      /\ s2 \notin Early => s \notin Early
  BY <1>2 DEF FrontStates, Early
<1> QED BY <1>2, <1>3, <1>4, <1>5, <1>6, <1>7, <1>8, <1>9, KeepStep DEF x

\* x is z with the next payload of r handed to it.
Submitted(r, d, z, g, u, y, h, x) ==
    LET n == Append(u, Item(r, Len(u) + 1))
    IN  /\ Moves(r, d, x) /\ Stays(d, x) /\ (x.err = "none" \/ Full(x)) /\ x.runner = d.runner
        /\ SurfacedOK(Peer(r), x, g) /\ Polled(x, g) = Polled(z, g)
        /\ n \in Seq(Message) /\ Len(n) = Len(u) + 1 /\ SentOK(r, n) /\ InFlight(r, n, x, y, h)
        /\ x.runner.phase # "Idle" /\ x \in DriverState /\ Epoch(x) > 0

\* enqueue_payload, of the next payload, perhaps after an event was taken.
LEMMA SubmitDone ==
  ASSUME NEW r \in Role, NEW d \in DriverState, NEW s, NEW g \in Seq(Message), NEW u \in Seq(Message),
         NEW y \in DriverState, NEW t, NEW h \in Seq(Message), NEW v, Pair(r, d, s, g, u, y, t, h, v),
         d.err = "none", Epoch(d) > 0, NEW z \in DriverState, Alike(d, z), SurfacedOK(Peer(r), z, g),
         MaySendDuringKex(Item(r, Len(u) + 1).t) => ~IsKexing(d.runner)
  PROVE  /\ Submitted(r, d, z, g, u, y, h, EnqueuePayload(z, Item(r, Len(u) + 1)))
         /\ EnqueuePayload(z, Item(r, Len(u) + 1)).auth = d.auth
<1> DEFINE m == Item(r, Len(u) + 1)
           x == EnqueuePayload(z, m)
           n == Append(u, m)
<1>1. KeysOK(r, d) /\ SentOK(r, u) /\ InFlight(r, u, d, y, h)
  BY DEF Pair, EndOK, WireOK
<1>2. m \in Message /\ m.t \in AppTypes /\ m = Item(r, Len(u) + 1)
  BY ItemNumber DEF IsItem, AppTypes
<1>3. SentOK(r, n) /\ Len(n) = Len(u) + 1 /\ n \in Seq(Message)
  BY <1>1, SentNext
<1>4. MaySendDuringKex(m.t) => ~IsKexing(d.runner)
  OBVIOUS
<1> HIDE DEF m
<1>5. /\ Moves(r, d, x) /\ Stays(d, x) /\ (x.err = "none" \/ Full(x))
      /\ x.events = z.events /\ x.auth = d.auth /\ x.runner = d.runner
      /\ x.codec.zOut = d.codec.zOut /\ x.codec.zIn = d.codec.zIn
      /\ \/ /\ x.err # "none" /\ x.outbox = d.outbox /\ x.deferredOut = d.deferredOut
         \/ /\ x.err = "none" /\ IsKexing(d.runner)
            /\ x.outbox = d.outbox /\ x.deferredOut = Append(d.deferredOut, m)
         \/ /\ x.err = "none" /\ d.deferredOut = <<>> /\ x.deferredOut = <<>>
            /\ x.outbox = d.outbox \o Encode(d.codec, <<m>>)
  <2>1. KeysOK(r, d) /\ m \in Message /\ m.t \in AppTypes
    BY <1>1, <1>2
  <2> QED BY <1>4, <2>1, EnqueueMoves
<1> HIDE DEF x
<1>6. x \in DriverState
  BY <1>5 DEF Moves
<1>7. InFlight(r, n, x, y, h)
  BY <1>1, <1>2, <1>5, <1>6, SubmitInFlight
<1>8. SurfacedOK(Peer(r), x, g) /\ Polled(x, g) = Polled(z, g)
  BY <1>5 DEF Stays, Alike, Epoch, SurfacedOK, Polled
<1>9. x.runner.phase # "Idle" /\ Epoch(x) > 0
  BY <1>1, <1>5, NotIdle DEF Stays
<1>10. Submitted(r, d, z, g, u, y, h, x)
  BY <1>3, <1>5, <1>6, <1>7, <1>8, <1>9 DEF Submitted, m
<1>11. x.auth = d.auth
  BY <1>5, Zenon
<1> QED BY <1>10, <1>11 DEF x, m

\* ... as a step of the connection.
LEMMA SubmitStep ==
  ASSUME NEW r \in Role, NEW d \in DriverState, NEW s \in FrontStates, NEW g \in Seq(Message),
         NEW u \in Seq(Message), NEW y \in DriverState, NEW t, NEW h \in Seq(Message), NEW v,
         Pair(r, d, s, g, u, y, t, h, v),
         d.err = "none", Epoch(d) > 0, NEW z \in DriverState, Alike(d, z), SurfacedOK(Peer(r), z, g),
         MaySendDuringKex(Item(r, Len(u) + 1).t) => ~IsKexing(d.runner),
         NEW s2 \in FrontStates, s \notin {"new", "closed"}, s2 \notin {"new", "closed"}, s2 = "open" <=> s = "open",
         FrontOK(r, s2, z, g, Append(u, Item(r, Len(u) + 1)))
  PROVE  LET x == EnqueuePayload(z, Item(r, Len(u) + 1))
         IN  /\ Pair(r, x, s2, g, Append(u, Item(r, Len(u) + 1)), y, t, h, v) /\ StepOK(d, x)
<1> DEFINE m == Item(r, Len(u) + 1)
           x == EnqueuePayload(z, m)
           n == Append(u, m)
<1>1. Submitted(r, d, z, g, u, y, h, x) /\ x.auth = d.auth
  BY SubmitDone
<1>2. FrontKnows(r, d, s)
  BY DEF Pair, EndOK
<1>3. FrontOK(r, s2, z, g, n)
  OBVIOUS
<1> HIDE DEF x
<1>4. /\ Moves(r, d, x) /\ Stays(d, x) /\ (x.err = "none" \/ Full(x)) /\ x.runner = d.runner
      /\ SurfacedOK(Peer(r), x, g) /\ Polled(x, g) = Polled(z, g) /\ SentOK(r, n) /\ InFlight(r, n, x, y, h)
      /\ x.runner.phase # "Idle"
  BY <1>1 DEF Submitted
<1>5. FrontOK(r, s2, x, g, n)
  BY <1>3, <1>4 DEF FrontOK
<1>6. x.auth <=> s2 = "open"
  <2>1. x.auth = d.auth
    BY <1>1, Zenon
  <2>2. d.auth <=> s \in {"open", "closed"}
    BY <1>2, Zenon DEF FrontKnows
  <2>3. s \in {"open", "closed"} <=> s2 = "open"
    OBVIOUS
  <2> QED BY <2>1, <2>2, <2>3, Zenon
<1>7. /\ s2 \in Early => s \in Early
      /\ s2 \notin Early => s \notin Early
  BY DEF FrontStates, Early
<1> HIDE DEF n, m
<1>8. Pair(r, x, s2, g, n, y, t, h, v) /\ StepOK(d, x)
  BY <1>4, <1>5, <1>6, <1>7, KeepStep
<1> QED BY <1>8 DEF x, n, m

\* A message that is no payload is on its way.
LEMMA PingFlow ==
  ASSUME NEW r, NEW d \in DriverState, NEW x \in DriverState, NEW m \in Message, ~IsItem(m),
         \/ /\ x.outbox = d.outbox /\ x.deferredOut = d.deferredOut
         \/ /\ x.outbox = d.outbox /\ x.deferredOut = Append(d.deferredOut, m)
         \/ /\ d.deferredOut = <<>> /\ x.deferredOut = <<>>
            /\ x.outbox = d.outbox \o Encode(d.codec, <<m>>)
  PROVE  Flow(r, d, x)
<1>1. CASE x.outbox = d.outbox /\ x.deferredOut = d.deferredOut
  BY <1>1, SilentFlow
<1>2. CASE x.outbox = d.outbox /\ x.deferredOut = Append(d.deferredOut, m)
  BY <1>2, FlowDefer
<1>3. CASE /\ d.deferredOut = <<>> /\ x.deferredOut = <<>>
           /\ x.outbox = d.outbox \o Encode(d.codec, <<m>>)
  <2> DEFINE ms == <<m>>
             ns == Encode(d.codec, ms)
  <2>1. ms \in Seq(Message) /\ Len(ms) = 1 /\ ms[1] = m /\ d.codec \in Codec
    BY DEF DriverState
  <2> HIDE DEF ms
  <2>2. /\ ns \in Seq(WireFrame) /\ Len(ns) = Len(ms)
        /\ \A i \in 1..Len(ms) : ns[i].t = ms[i].t
    BY <2>1, EncodeFields
  <2> HIDE DEF ns
  <2>4. \A i \in DOMAIN ns : ~IsItem(ns[i])
    BY <2>1, <2>2 DEF IsItem
  <2> QED BY <2>2, <2>4, <1>3, FlowSame DEF ns, ms
<1> QED BY <1>1, <1>2, <1>3

\* A step of an open connection that submits nothing and takes nothing.
LEMMA OpenStep ==
  ASSUME NEW r \in Role, NEW d \in DriverState, NEW g \in Seq(Message), NEW u \in Seq(Message),
         NEW y \in DriverState, NEW t, NEW h \in Seq(Message), NEW v, Pair(r, d, "open", g, u, y, t, h, v),
         d.err = "none", NEW x \in DriverState, Moves(r, d, x), Stays(d, x), Flow(r, d, x),
         x.err = "none" \/ Full(x), x.events = d.events, x.auth = d.auth, x.runner.phase # "Idle"
  PROVE  Pair(r, x, "open", g, u, y, t, h, v) /\ StepOK(d, x)
<1>1. /\ KeysOK(r, d) /\ SentOK(r, u) /\ InFlight(r, u, d, y, h) /\ FrontKnows(r, d, "open")
      /\ SurfacedOK(Peer(r), d, g) /\ FrontOK(r, "open", d, g, u)
  BY DEF Pair, EndOK, WireOK
<1>2. SurfacedOK(Peer(r), x, g) /\ Polled(x, g) = Polled(d, g)
  BY <1>1 DEF SurfacedOK, Polled, Stays
<1>3. FrontOK(r, "open", x, g, u)
  BY <1>1, <1>2 DEF FrontOK
<1>4. x.auth <=> "open" = "open"
  <2>1. x.auth = d.auth
    BY Zenon
  <2>2. d.auth <=> "open" \in {"open", "closed"}
    BY <1>1, Zenon DEF FrontKnows
  <2> QED BY <2>1, <2>2, Zenon
<1>5. InFlight(r, u, x, y, h)
  BY <1>1, FlowInFlight
<1> DEFINE s == "open"
<1>6. s \notin Early /\ s \notin {"new", "closed"} /\ (x.auth <=> s = "open") /\ FrontOK(r, s, x, g, u)
      /\ Pair(r, d, s, g, u, y, t, h, v)
  BY <1>3, <1>4 DEF Early
<1> HIDE DEF s
<1> QED BY <1>1, <1>2, <1>5, <1>6, KeepStep DEF s

---------------------------------------------------------------------------
(* The steps, one by one.                                                  *)

\* Until r has sent both its payloads for it, its peer has not authenticated;
\* and until either has, no exchange but the first runs.
LEMMA BeforeAuth ==
  ASSUME NEW r \in Role, NEW d \in DriverState, NEW s, NEW g, NEW u \in Seq(Message),
         NEW y \in DriverState, NEW t \in FrontStates, NEW h \in Seq(Message), NEW v,
         Pair(r, d, s, g, u, y, t, h, v), s \in Early, Len(u) < 2, Epoch(d) > 0
  PROVE  ~IsKexing(d.runner)
<1>1. /\ KeysOK(r, d) /\ CalmOK(s, t, d, y) /\ SurfacedOK(r, y, h) /\ InFlight(r, u, d, y, h)
      /\ FrontOK(Peer(r), t, y, h, v)
  BY DEF Pair, EndOK, WireOK
<1>2. /\ Out(h) \in Nat /\ Len(h) \in Nat /\ Arrived(y, h) \in Nat /\ Polled(y, h) \in Int
      /\ Len(y.deferred) \in Nat /\ Len(y.events) \in Nat
      /\ Arrived(y, h) = Out(h) + Len(y.deferred) /\ Polled(y, h) = Len(h) - Len(y.events)
      /\ (h # <<>> => Out(h) = Len(h) - 1 /\ Len(h) >= 1)
      /\ (h = <<>> => Out(h) = 0 /\ Len(h) = 0)
  BY CountTypes
<1>3. Arrived(y, h) <= Len(u) /\ Len(u) \in Nat
  BY <1>1 DEF InFlight
<1>4. ~(Polled(y, h) >= 3)
  BY <1>2, <1>3
<1>5. t \in Early
  BY <1>1, <1>4 DEF FrontOK, FrontStates, Early
<1>7. IsKexing(d.runner) => d.runner.advert = Epoch(d) + 1
  BY <1>1 DEF KeysOK
<1> QED BY <1>1, <1>5, PlaceType, <1>7 DEF CalmOK

\* Item, for the two that authenticate and the others.
LEMMA ItemIs ==
  ASSUME NEW r \in Role, NEW n \in Nat
  PROVE  /\ n = 0 => Item(r, n + 1) = Msg(IF r = "client" THEN "SERVICE_REQUEST" ELSE "SERVICE_ACCEPT")
         /\ n = 1 => Item(r, n + 1) = Msg(IF r = "client" THEN "USERAUTH_REQUEST" ELSE "USERAUTH_SUCCESS")
         /\ n >= 2 => Item(r, n + 1) = [t |-> "APP", body |-> <<n, n>>]
BY DEF Item

\* PollHandshakeComplete.
LEMMA HandshakeStep ==
  ASSUME NEW r \in Role, NEW d \in DriverState, NEW s \in FrontStates, NEW g \in Seq(Message),
         NEW u \in Seq(Message), NEW y \in DriverState, NEW t \in FrontStates, NEW h \in Seq(Message), NEW v,
         Pair(r, d, s, g, u, y, t, h, v),
         d.err = "none", s # "closed", d.events # <<>>, Head(d.events).t = "HandshakeComplete"
  PROVE  LET m == Msg("SERVICE_REQUEST")
         IN  IF r = "client" THEN /\ Pair(r, EnqueuePayload(Pop(d), m), "auth", g, Append(u, m), y, t, h, v)
                                  /\ StepOK(d, EnqueuePayload(Pop(d), m))
                             ELSE Pair(r, Pop(d), "auth", g, u, y, t, h, v) /\ StepOK(d, Pop(d))
<1> DEFINE k == Polled(d, g)
           z == Pop(d)
           m == Msg("SERVICE_REQUEST")
<1>1. /\ SurfacedOK(Peer(r), z, g) /\ Polled(z, g) = k + 1 /\ k \in Nat /\ k < Len(g) /\ Len(g) \in Nat
      /\ Head(d.events).t = Event(Peer(r), k + 1).t /\ Epoch(d) > 0 /\ s # "new"
      /\ FrontOK(r, s, d, g, u)
  BY PopKnown
<1>2. z \in DriverState /\ Alike(d, z)
  BY PopFields
<1>p. Peer(r) \in Role
  BY DEF Peer, Role
<1> HIDE DEF z
<1>3. k = 0
  <2>1. /\ k = 1 => Event(Peer(r), k + 1).t \in {"SERVICE_REQUEST", "SERVICE_ACCEPT"}
        /\ k = 2 => Event(Peer(r), k + 1).t \in {"USERAUTH_REQUEST", "USERAUTH_SUCCESS"}
        /\ k >= 3 => Event(Peer(r), k + 1).t = "APP"
    <3>1. k \in Nat
      BY <1>1
    <3> HIDE DEF k
    <3> QED BY <1>p, <3>1, EventKind
  <2>2. k = 0 \/ k = 1 \/ k = 2 \/ k >= 3
    BY <1>1
  <2> HIDE DEF k
  <2> QED BY <1>1, <2>1, <2>2
<1>4. s = "handshake" /\ u = <<>>
  BY <1>1, <1>3 DEF FrontOK, FrontStates
<1>5. Polled(z, g) = 1 /\ Len(u) = 0
  BY <1>1, <1>3, <1>4
<1>6. "auth" \in FrontStates /\ s \in Early /\ Len(u) < 2
  BY <1>4, <1>5 DEF FrontStates, Early
<1>7. CASE r = "client"
  <2>1. m = Item(r, Len(u) + 1)
    <3> DEFINE n == Len(u)
    <3>1. n \in Nat /\ n = 0
      BY <1>5
    <3> HIDE DEF n
    <3> QED BY <1>7, <3>1, ItemIs DEF n
  <2>2. ~IsKexing(d.runner)
    BY <1>1, <1>6, BeforeAuth
  <2>m. m \in Message
    BY MsgType DEF MsgTypes
  <2> HIDE DEF m
  <2>4. FrontOK(r, "auth", z, g, Append(u, m))
    BY <1>5, <1>7, <2>m DEF FrontOK
  <2>5. /\ Pair(r, EnqueuePayload(z, Item(r, Len(u) + 1)), "auth", g, Append(u, Item(r, Len(u) + 1)), y, t, h, v)
        /\ StepOK(d, EnqueuePayload(z, Item(r, Len(u) + 1)))
    <3> DEFINE a == "auth"
    <3>1. a \in FrontStates /\ a \notin {"new", "closed"} /\ ~(a = "open") /\ ~(s = "open")
          /\ s \notin {"new", "closed"} /\ FrontOK(r, a, z, g, Append(u, Item(r, Len(u) + 1)))
      BY <1>4, <1>6, <2>1, <2>4
    <3> HIDE DEF a
    <3> QED BY <1>1, <1>2, <2>2, <3>1, SubmitStep DEF a
  <2> QED BY <1>7, <2>1, <2>5 DEF z, m
<1>8. CASE r # "client"
  <2>1. FrontOK(r, "auth", z, g, u)
    BY <1>5, <1>8 DEF FrontOK
  <2>2. Pair(r, Pop(d), "auth", g, u, y, t, h, v) /\ StepOK(d, Pop(d))
    <3> DEFINE a == "auth"
    <3>1. a \in FrontStates /\ a \notin {"new", "closed"} /\ ~(a = "open") /\ ~(s = "open")
          /\ FrontOK(r, a, Pop(d), g, u)
      BY <1>4, <1>6, <2>1 DEF z
    <3> HIDE DEF a
    <3> QED BY <3>1, PopStep DEF a
  <2> QED BY <1>8, <2>2
<1> QED BY <1>7, <1>8

\* How many events were taken before one of the kind e.
LEMMA HeadKind ==
  ASSUME NEW p \in Role, NEW k \in Nat, NEW e, e = Event(p, k + 1).t
  PROVE  /\ e \in {"SERVICE_REQUEST", "SERVICE_ACCEPT"} => k = 1
         /\ e \in {"USERAUTH_REQUEST", "USERAUTH_SUCCESS"} => k = 2
         /\ k >= 3 => e = "APP"
BY EventKind

\* PollAuth.
LEMMA AuthStep ==
  ASSUME NEW r \in Role, NEW d \in DriverState, NEW s \in FrontStates, NEW g \in Seq(Message),
         NEW u \in Seq(Message), NEW y \in DriverState, NEW t \in FrontStates, NEW h \in Seq(Message), NEW v,
         Pair(r, d, s, g, u, y, t, h, v), d.err = "none", s = "auth", d.events # <<>>, NEW m,
         \/ r = "server" /\ Head(d.events).t = "SERVICE_REQUEST" /\ m = Msg("SERVICE_ACCEPT")
         \/ r = "client" /\ Head(d.events).t = "SERVICE_ACCEPT" /\ m = Msg("USERAUTH_REQUEST")
  PROVE  /\ Pair(r, EnqueuePayload(Pop(d), m), s, g, Append(u, m), y, t, h, v)
         /\ StepOK(d, EnqueuePayload(Pop(d), m))
<1> DEFINE k == Polled(d, g)
           z == Pop(d)
           n == Len(u)
<1>1. /\ SurfacedOK(Peer(r), z, g) /\ Polled(z, g) = k + 1 /\ k \in Nat
      /\ Head(d.events).t = Event(Peer(r), k + 1).t /\ Epoch(d) > 0
      /\ FrontOK(r, s, d, g, u)
  BY PopKnown
<1>2. z \in DriverState /\ Alike(d, z)
  BY PopFields
<1>p. Peer(r) \in Role
  BY DEF Peer, Role
<1>3. k = 1
  <2> HIDE DEF k
  <2> QED BY <1>1, <1>p, HeadKind
<1>4. n = IF r = "client" THEN 1 ELSE 0
  BY <1>1, <1>3 DEF FrontOK
<1>5. n \in Nat /\ n < 2 /\ (r = "client" => n = 1) /\ (r = "server" => n = 0)
  BY <1>4
<1>6. m = Item(r, n + 1) /\ m \in Message
  <2> HIDE DEF n
  <2>1. m = Item(r, n + 1)
    BY <1>5, ItemIs
  <2> QED BY <2>1, <1>5, ItemNumber
<1> HIDE DEF z, k
<1>7. Len(Append(u, m)) = n + 1
  BY <1>6
<1>8. FrontOK(r, s, z, g, Append(u, m))
  <2>1. Polled(z, g) = 2
    BY <1>1, <1>3
  <2>2. r \in {"client", "server"}
    BY DEF Role
  <2>3. Len(Append(u, m)) = IF r = "client" THEN 2 ELSE 1
    <3> HIDE DEF n
    <3> QED BY <1>7, <1>5, <2>2
  <2> QED BY <2>1, <2>3 DEF FrontOK
<1>10. /\ Pair(r, EnqueuePayload(z, Item(r, Len(u) + 1)), s, g, Append(u, Item(r, Len(u) + 1)), y, t, h, v)
       /\ StepOK(d, EnqueuePayload(z, Item(r, Len(u) + 1)))
  BY <1>6, <1>8, <1>5, <1>1, BeforeAuth, <1>2, SubmitStep DEF Early
<1> QED BY <1>6, <1>10 DEF z

\* PollApp: what an open connection takes is the peer's payload.
LEMMA AppStep ==
  ASSUME NEW r \in Role, NEW d \in DriverState, NEW s \in FrontStates, NEW g \in Seq(Message),
         NEW u \in Seq(Message), NEW y \in DriverState, NEW t \in FrontStates, NEW h \in Seq(Message), NEW v,
         Pair(r, d, s, g, u, y, t, h, v), d.err = "none", s = "open", d.events # <<>>
  PROVE  /\ Pair(r, Pop(d), s, g, u, y, t, h, v) /\ StepOK(d, Pop(d)) /\ Head(d.events).t = "APP"
<1> DEFINE k == Polled(d, g)
           z == Pop(d)
<1>1. /\ Polled(z, g) = k + 1 /\ k \in Nat
      /\ Head(d.events).t = Event(Peer(r), k + 1).t
      /\ FrontOK(r, s, d, g, u)
  BY PopKnown
<1>p. Peer(r) \in Role
  BY DEF Peer, Role
<1>2. k >= 3 /\ Len(u) >= 2
  BY <1>1 DEF FrontOK
<1>3. Head(d.events).t = "APP"
  <2> HIDE DEF k
  <2> QED BY <1>1, <1>2, <1>p, HeadKind
<1>4. k + 1 >= 3
  BY <1>1, <1>2
<1>5. FrontOK(r, s, z, g, u)
  BY <1>1, <1>2, <1>4 DEF FrontOK
<1> QED BY <1>3, <1>5, PopStep

\* An open connection is through its first exchange.
LEMMA OpenKnown ==
  ASSUME NEW r \in Role, NEW d \in DriverState, NEW s, NEW g \in Seq(Message), NEW u \in Seq(Message),
         NEW y, NEW t, NEW h, NEW v, Pair(r, d, s, g, u, y, t, h, v), s = "open"
  PROVE  /\ Epoch(d) > 0 /\ KeysOK(r, d) /\ SurfacedOK(Peer(r), d, g) /\ FrontOK(r, s, d, g, u)
         /\ Len(u) >= 2 /\ Polled(d, g) >= 3 /\ d.runner.phase # "Idle"
<1>1. KeysOK(r, d) /\ SurfacedOK(Peer(r), d, g) /\ FrontOK(r, s, d, g, u)
  BY DEF Pair, EndOK, WireOK
<1>2. Len(u) >= 2 /\ Polled(d, g) >= 3
  BY <1>1 DEF FrontOK
<1>3. Polled(d, g) = Len(g) - Len(d.events) /\ Len(g) \in Nat /\ Len(d.events) \in Nat
      /\ (g = <<>> => Len(g) = 0)
  BY CountTypes
<1>4. g # <<>>
  BY <1>2, <1>3
<1>6. Epoch(d) > 0
  BY <1>1, <1>4, PlaceType DEF SurfacedOK
<1> QED BY <1>1, <1>2, <1>6, NotIdle

\* SendApp.
LEMMA SendStep ==
  ASSUME NEW r \in Role, NEW d \in DriverState, NEW s \in FrontStates, NEW g \in Seq(Message),
         NEW u \in Seq(Message), NEW y \in DriverState, NEW t \in FrontStates, NEW h \in Seq(Message), NEW v,
         Pair(r, d, s, g, u, y, t, h, v), d.err = "none", s = "open", NEW m,
         m = [t |-> "APP", body |-> <<Len(u), Len(u)>>]
  PROVE  /\ Pair(r, EnqueuePayload(d, m), s, g, Append(u, m), y, t, h, v)
         /\ StepOK(d, EnqueuePayload(d, m))
<1> DEFINE n == Len(u)
<1>1. /\ Epoch(d) > 0 /\ SurfacedOK(Peer(r), d, g) /\ FrontOK(r, s, d, g, u) /\ Len(u) >= 2 /\ Polled(d, g) >= 3
  BY OpenKnown
<1>2. n \in Nat /\ n >= 2 /\ m = [t |-> "APP", body |-> <<n, n>>] /\ n + 1 \in Nat \ {0}
  BY <1>1
<1>3. m = Item(r, n + 1) /\ m \in Message
  <2> HIDE DEF n
  <2>1. m = Item(r, n + 1)
    BY <1>2, ItemIs
  <2> QED BY <2>1, <1>2, ItemNumber
<1>5. FrontOK(r, s, d, g, Append(u, m))
  BY <1>1, <1>2, <1>3 DEF FrontOK
<1>6. ~MaySendDuringKex(m.t)
  BY <1>2 DEF MaySendDuringKex, KexMsg
<1>7. Alike(d, d) /\ s \notin {"new", "closed"}
  BY DEF Alike
<1>8. /\ Pair(r, EnqueuePayload(d, Item(r, Len(u) + 1)), s, g, Append(u, Item(r, Len(u) + 1)), y, t, h, v)
      /\ StepOK(d, EnqueuePayload(d, Item(r, Len(u) + 1)))
  BY <1>3, <1>5, <1>6, <1>1, <1>7, SubmitStep
<1> QED BY <1>3, <1>8

\* notify_auth_success after what a frontend did to its driver.
LEMMA NotifyStep ==
  ASSUME NEW r \in Role, NEW d \in DriverState, NEW s \in FrontStates, NEW g \in Seq(Message),
         NEW u \in Seq(Message), NEW y \in DriverState, NEW t \in FrontStates, NEW h \in Seq(Message), NEW v,
         Pair(r, d, s, g, u, y, t, h, v), d.err = "none", s = "auth", Len(g) > 1, Epoch(d) > 0,
         NEW z \in DriverState, NEW u2 \in Seq(Message), Moves(r, d, z), Stays(d, z), z.err = "none" \/ Full(z),
         z.runner = d.runner, SurfacedOK(Peer(r), z, g), Polled(z, g) >= 3, Len(u2) >= 2, SentOK(r, u2),
         InFlight(r, u2, z, y, h)
  PROVE  /\ Pair(r, NotifyAuthSuccess(r, z), "open", g, u2, y, t, h, v)
         /\ StepOK(d, NotifyAuthSuccess(r, z))
<1> DEFINE x == NotifyAuthSuccess(r, z)
           a == "open"
<1>1. KeysOK(r, z) /\ Epoch(z) > 0
  BY DEF Moves, Stays
<1>2. /\ x \in DriverState /\ KeysOK(r, x) /\ Stays(z, x) /\ x.err = z.err
      /\ x.outbox = z.outbox /\ x.deferredOut = z.deferredOut /\ x.events = z.events
      /\ x.codec.outKey = z.codec.outKey /\ x.codec.seqOut = z.codec.seqOut
      /\ x.runner.phase = z.runner.phase /\ x.runner.advert = z.runner.advert
      /\ x.auth = TRUE
  BY <1>1, NotifyEffect
<1> HIDE DEF x
<1>3. Moves(r, d, x)
  BY <1>2, MovesTo
<1>4. Stays(d, x)
  BY <1>2 DEF Stays
<1>5. x.err = "none" \/ Full(x)
  BY <1>2 DEF Full, Stays
<1>6. SurfacedOK(Peer(r), x, g) /\ Polled(x, g) = Polled(z, g)
  BY <1>2 DEF SurfacedOK, Polled, Stays
<1>7. InFlight(r, u2, x, y, h)
  BY <1>2, SilentFlow, FlowInFlight
<1>8. x.runner.phase # "Idle"
  BY <1>1, NotIdle, <1>2
<1>9. FrontOK(r, a, x, g, u2)
  BY <1>6 DEF FrontOK
<1>10. x.auth <=> a = "open"
  <2>1. x.auth = TRUE
    BY <1>2, Zenon
  <2> QED BY <2>1, Zenon
<1>11. a \notin {"new", "closed"} /\ a \notin Early /\ s \notin {"new", "closed"}
  BY DEF Early
<1> HIDE DEF a
<1>12. Pair(r, x, a, g, u2, y, t, h, v) /\ StepOK(d, x)
  BY <1>3, <1>4, <1>5, <1>6, <1>7, <1>8, <1>9, <1>10, <1>11, KeepStep
<1> QED BY <1>12 DEF x, a

\* ServerAuthenticates.
LEMMA ServerAuthStep ==
  ASSUME NEW r \in Role, NEW d \in DriverState, NEW s \in FrontStates, NEW g \in Seq(Message),
         NEW u \in Seq(Message), NEW y \in DriverState, NEW t \in FrontStates, NEW h \in Seq(Message), NEW v,
         Pair(r, d, s, g, u, y, t, h, v), d.err = "none", s = "auth", d.events # <<>>,
         r = "server", Head(d.events).t = "USERAUTH_REQUEST", NEW m, m = Msg("USERAUTH_SUCCESS")
  PROVE  /\ Pair(r, NotifyAuthSuccess(r, EnqueuePayload(Pop(d), m)), "open", g, Append(u, m), y, t, h, v)
         /\ StepOK(d, NotifyAuthSuccess(r, EnqueuePayload(Pop(d), m)))
<1> DEFINE k == Polled(d, g)
           z == Pop(d)
           n == Len(u)
<1>1. /\ SurfacedOK(Peer(r), z, g) /\ Polled(z, g) = k + 1 /\ k \in Nat /\ k < Len(g) /\ Len(g) \in Nat
      /\ Head(d.events).t = Event(Peer(r), k + 1).t /\ Epoch(d) > 0
      /\ FrontOK(r, s, d, g, u)
  BY PopKnown
<1>2. z \in DriverState /\ Alike(d, z)
  BY PopFields
<1>p. Peer(r) \in Role
  BY DEF Peer, Role
<1>3. k = 2
  <2> HIDE DEF k
  <2> QED BY <1>1, <1>p, HeadKind
<1>4. n = 1 /\ Polled(z, g) >= 3 /\ Len(g) > 1
  BY <1>1, <1>3 DEF FrontOK
<1>5. m = Item(r, n + 1) /\ ~MaySendDuringKex(m.t)
  <2>1. n \in Nat /\ n = 1
    BY <1>4
  <2> HIDE DEF n
  <2>2. m = Item(r, n + 1)
    BY <2>1, ItemIs
  <2> QED BY <2>2 DEF MaySendDuringKex, KexMsg, Msg
<1> HIDE DEF z, k
<1> DEFINE x == EnqueuePayload(z, m)
           u2 == Append(u, m)
<1>6. Submitted(r, d, z, g, u, y, h, x)
  BY <1>5, <1>1, <1>2, SubmitDone
<1> HIDE DEF x
<1>7. /\ Moves(r, d, x) /\ Stays(d, x) /\ (x.err = "none" \/ Full(x)) /\ x.runner = d.runner
      /\ SurfacedOK(Peer(r), x, g) /\ Polled(x, g) = Polled(z, g)
      /\ u2 \in Seq(Message) /\ Len(u2) = n + 1 /\ SentOK(r, u2) /\ InFlight(r, u2, x, y, h)
      /\ x \in DriverState
  BY <1>5, <1>6 DEF Submitted
<1>8. Len(u2) >= 2 /\ Polled(x, g) >= 3
  BY <1>4, <1>7
<1> HIDE DEF u2
<1> QED BY <1>1, <1>4, <1>7, <1>8, NotifyStep DEF x, u2, z

\* ClientAuthenticated.
LEMMA ClientAuthStep ==
  ASSUME NEW r \in Role, NEW d \in DriverState, NEW s \in FrontStates, NEW g \in Seq(Message),
         NEW u \in Seq(Message), NEW y \in DriverState, NEW t \in FrontStates, NEW h \in Seq(Message), NEW v,
         Pair(r, d, s, g, u, y, t, h, v), d.err = "none", s = "auth", d.events # <<>>,
         r = "client", Head(d.events).t = "USERAUTH_SUCCESS"
  PROVE  /\ Pair(r, NotifyAuthSuccess(r, Pop(d)), "open", g, u, y, t, h, v)
         /\ StepOK(d, NotifyAuthSuccess(r, Pop(d)))
<1> DEFINE k == Polled(d, g)
           z == Pop(d)
<1>1. /\ SurfacedOK(Peer(r), z, g) /\ Polled(z, g) = k + 1 /\ k \in Nat /\ k < Len(g) /\ Len(g) \in Nat
      /\ Head(d.events).t = Event(Peer(r), k + 1).t /\ Epoch(d) > 0
      /\ FrontOK(r, s, d, g, u)
  BY PopKnown
<1>2. z \in DriverState /\ Alike(d, z)
  BY PopFields
<1>p. Peer(r) \in Role
  BY DEF Peer, Role
<1>3. k = 2
  <2> HIDE DEF k
  <2> QED BY <1>1, <1>p, HeadKind
<1>4. Len(u) >= 2 /\ Polled(z, g) >= 3 /\ Len(g) > 1
  <2>1. Len(u) = k
    BY <1>1 DEF FrontOK
  <2> QED BY <1>1, <1>3, <2>1
<1>5. KeysOK(r, d) /\ SentOK(r, u) /\ InFlight(r, u, d, y, h)
  BY DEF Pair, EndOK, WireOK
<1> HIDE DEF z, k
<1>6. Moves(r, d, z) /\ Stays(d, z) /\ Flow(r, d, z) /\ z.runner = d.runner
  BY <1>2, <1>5, AlikeMoves
<1>7. z.err = "none"
  BY <1>2 DEF Alike
<1>9. Pair(r, NotifyAuthSuccess(r, z), "open", g, u, y, t, h, v) /\ StepOK(d, NotifyAuthSuccess(r, z))
  BY <1>1, <1>2, <1>4, <1>5, <1>6, <1>7, FlowInFlight, NotifyStep
<1> QED BY <1>9 DEF z

\* enqueue_payload on a driver whose events are left alone.
LEMMA QueueMoves ==
  ASSUME NEW r, NEW d \in DriverState, NEW m \in Message,
         KeysOK(r, d), d.err = "none", m.t \in AppTypes, Epoch(d) > 0,
         MaySendDuringKex(m.t) => ~IsKexing(d.runner)
  PROVE  LET x == EnqueuePayload(d, m)
         IN  /\ Moves(r, d, x) /\ Stays(d, x) /\ (x.err = "none" \/ Full(x))
             /\ x.events = d.events /\ x.auth = d.auth /\ x.runner = d.runner
             /\ x.codec.zOut = d.codec.zOut /\ x.codec.zIn = d.codec.zIn
             /\ \/ /\ x.err # "none" /\ x.outbox = d.outbox /\ x.deferredOut = d.deferredOut
                \/ /\ x.err = "none" /\ IsKexing(d.runner)
                   /\ x.outbox = d.outbox /\ x.deferredOut = Append(d.deferredOut, m)
                \/ /\ x.err = "none" /\ d.deferredOut = <<>> /\ x.deferredOut = <<>>
                   /\ x.outbox = d.outbox \o Encode(d.codec, <<m>>)
BY EnqueueMoves DEF Alike

\* SendPing.
LEMMA PingStep ==
  ASSUME NEW r \in Role, NEW d \in DriverState, NEW s, NEW g \in Seq(Message),
         NEW u \in Seq(Message), NEW y \in DriverState, NEW t, NEW h \in Seq(Message), NEW v,
         Pair(r, d, s, g, u, y, t, h, v), d.err = "none", s = "open", NEW m \in Message, m.t = "PING"
  PROVE  Pair(r, EnqueuePayload(d, m), s, g, u, y, t, h, v) /\ StepOK(d, EnqueuePayload(d, m))
<1> DEFINE x == EnqueuePayload(d, m)
<1>1. Epoch(d) > 0 /\ KeysOK(r, d) /\ d.runner.phase # "Idle"
  BY OpenKnown
<1>2. m \in Message /\ m.t = "PING"
  OBVIOUS
<1>3. m.t \in AppTypes /\ ~MaySendDuringKex(m.t) /\ ~IsItem(m)
  BY <1>2 DEF AppTypes, ItemTypes, IsItem, MaySendDuringKex, KexMsg
<1>5. /\ Moves(r, d, x) /\ Stays(d, x) /\ (x.err = "none" \/ Full(x))
      /\ x.events = d.events /\ x.auth = d.auth /\ x.runner = d.runner
      /\ x.codec.zOut = d.codec.zOut /\ x.codec.zIn = d.codec.zIn
      /\ \/ /\ x.err # "none" /\ x.outbox = d.outbox /\ x.deferredOut = d.deferredOut
         \/ /\ x.err = "none" /\ IsKexing(d.runner)
            /\ x.outbox = d.outbox /\ x.deferredOut = Append(d.deferredOut, m)
         \/ /\ x.err = "none" /\ d.deferredOut = <<>> /\ x.deferredOut = <<>>
            /\ x.outbox = d.outbox \o Encode(d.codec, <<m>>)
  <2>1. m \in Message /\ m.t \in AppTypes /\ (MaySendDuringKex(m.t) => ~IsKexing(d.runner))
    BY <1>2, <1>3
  <2> HIDE DEF x
  <2> QED BY <1>1, <2>1, QueueMoves DEF x
<1> HIDE DEF x
<1>6. x \in DriverState
  BY <1>5 DEF Moves
<1>7. Flow(r, d, x)
  BY <1>5, <1>2, <1>3, <1>6, PingFlow
<1>9. x.auth = d.auth
  BY <1>5, Zenon
<1>10. Pair(r, d, "open", g, u, y, t, h, v) /\ Moves(r, d, x) /\ Stays(d, x) /\ (x.err = "none" \/ Full(x))
  BY <1>5
<1>11. Pair(r, x, "open", g, u, y, t, h, v) /\ StepOK(d, x)
  BY <1>6, <1>7, <1>1, <1>5, <1>9, <1>10, OpenStep
<1> QED BY <1>11 DEF x

\* Tick and RequestRekey.
LEMMA RekeyStep ==
  ASSUME NEW r \in Role, NEW d \in DriverState, NEW s, NEW g \in Seq(Message),
         NEW u \in Seq(Message), NEW y \in DriverState, NEW t, NEW h \in Seq(Message), NEW v,
         Pair(r, d, s, g, u, y, t, h, v), d.err = "none", s = "open", d.runner.phase = "Completed"
  PROVE  Pair(r, InitiateRekey(d), s, g, u, y, t, h, v) /\ StepOK(d, InitiateRekey(d))
<1> DEFINE x == InitiateRekey(d)
<1>1. KeysOK(r, d)
  BY OpenKnown
<1>2. /\ Moves(r, d, x) /\ Stays(d, x) /\ Flow(r, d, x) /\ x.err = "none"
      /\ x.events = d.events /\ x.auth = d.auth /\ x.runner.phase # "Idle"
  BY <1>1, RekeyMoves
<1> HIDE DEF x
<1>3. x \in DriverState
  BY <1>2 DEF Moves
<1>4. x.auth = d.auth
  BY <1>2, Zenon
<1>6. Pair(r, x, "open", g, u, y, t, h, v) /\ StepOK(d, x)
  BY <1>2, <1>3, <1>4, OpenStep
<1> QED BY <1>6 DEF x

\* Disconnect.
LEMMA CloseStep ==
  ASSUME NEW r \in Role, NEW d \in DriverState, NEW s, NEW g \in Seq(Message),
         NEW u \in Seq(Message), NEW y \in DriverState, NEW t, NEW h \in Seq(Message), NEW v,
         Pair(r, d, s, g, u, y, t, h, v), d.err = "none", s = "open", r = "server", NEW m, m = Msg("DISCONNECT")
  PROVE  Pair(r, EnqueuePayload(d, m), "closed", g, u, y, t, h, v) /\ StepOK(d, EnqueuePayload(d, m))
<1> DEFINE x == EnqueuePayload(d, m)
           c == "closed"
<1>1. /\ Epoch(d) > 0 /\ KeysOK(r, d) /\ SurfacedOK(Peer(r), d, g) /\ FrontOK(r, s, d, g, u)
      /\ Len(u) >= 2 /\ Polled(d, g) >= 3 /\ d.runner.phase # "Idle"
  BY OpenKnown
<1>2. /\ InOrder(r, d, y, s) /\ ExtInfo(d, y, t, h) /\ InFlight(r, u, d, y, h) /\ SentOK(r, u)
      /\ FrontKnows(r, d, s) /\ ExtInfo(y, d, s, g)
  BY DEF Pair, EndOK, WireOK
<1>3. /\ x \in DriverState /\ KeysOK(r, x) /\ Fresh(d, x) /\ Stays(d, x) /\ Flow(r, d, x)
      /\ InOrder(r, x, y, c)
      /\ x.err = "none" /\ x.events = d.events /\ x.runner = d.runner /\ x.auth = d.auth
      /\ \E ns \in Seq(WireFrame) :
            x.outbox = d.outbox \o ns /\ \A i \in DOMAIN ns : ns[i].t # "EXT_INFO"
  BY <1>1, <1>2, CloseWire
<1> HIDE DEF x
<1>4. StepOK(d, x)
  BY <1>3 DEF StepOK
<1>5. ExtFirst(x) /\ (ExtPending(x) => ExtPending(d))
  <2>1. PICK ns \in Seq(WireFrame) : x.outbox = d.outbox \o ns /\ \A i \in DOMAIN ns : ns[i].t # "EXT_INFO"
    BY <1>3
  <2>2. Epoch(d) <= Epoch(x)
    BY <1>3, PlaceType DEF Stays
  <2>3. ASSUME NEW i \in DOMAIN d.outbox
        PROVE  d.outbox[i].key[1] <= Epoch(d) /\ d.outbox[i].key[1] \in Nat
    <3>1. d.outbox[i] \in WireFrame
      BY DEF DriverState
    <3>2. d.outbox[i].key[1] \in Nat
      BY <3>1 DEF WireFrame, Key
    <3> QED BY <1>2, <3>2 DEF InOrder, FrameOK
  <2>4. ExtFirst(d)
    BY <1>2 DEF ExtInfo
  <2>5. x \in DriverState
    BY <1>3
  <2>6. ASSUME NEW i \in DOMAIN ns, ns[i].t = "EXT_INFO"
        PROVE  i = 1 /\ Epoch(d) = 0 /\ ns[i].key = <<1, 1>>
    BY <2>1, <2>6
  <2> QED BY <2>2, <2>3, <2>4, <2>5, <2>6, <2>1, ExtSender
<1>6. SurfacedOK(Peer(r), x, g) /\ Polled(x, g) = Polled(d, g)
  BY <1>1, <1>3 DEF SurfacedOK, Polled, Stays
<1>7. FrontOK(r, c, x, g, u)
  BY <1>1, <1>6 DEF FrontOK
<1>8. FrontKnows(r, x, c)
  <2>1. x.auth = d.auth
    BY <1>3, Zenon
  <2>2. d.auth <=> s \in {"open", "closed"}
    BY <1>2, Zenon DEF FrontKnows
  <2>3. x.auth <=> c \in {"open", "closed"}
    BY <2>1, <2>2, Zenon
  <2>4. c # "new" /\ r # "client"
    OBVIOUS
  <2> HIDE DEF c
  <2> QED BY <2>3, <2>4, Zenon DEF FrontKnows
<1>9. EndOK(r, x, c, t, g, u)
  BY <1>2, <1>3, <1>7, <1>8 DEF EndOK, ErrOK
<1>10. InFlight(r, u, x, y, h)
  BY <1>2, <1>3, FlowInFlight
<1>11. ~ExtPending(y)
  BY <1>2 DEF Early, ExtInfo
<1>12. CalmOK(c, t, x, y)
  BY DEF CalmOK, Early
<1>13. s # "closed"
  OBVIOUS
<1> HIDE DEF c
<1>14. Pair(r, x, c, g, u, y, t, h, v)
  BY <1>3, <1>5, <1>6, <1>9, <1>10, <1>11, <1>12, <1>13, OwnStep
<1> QED BY <1>4, <1>14 DEF x, c

\* Start.
LEMMA StartStep ==
  ASSUME NEW r \in Role, NEW d \in DriverState, NEW s, NEW g \in Seq(Message),
         NEW u \in Seq(Message), NEW y \in DriverState, NEW t, NEW h \in Seq(Message), NEW v,
         Pair(r, d, s, g, u, y, t, h, v), s = "new"
  PROVE  Pair(r, StartDriver(r, d), "handshake", g, u, y, t, h, v) /\ StepOK(d, StartDriver(r, d))
<1> DEFINE x == StartDriver(r, d)
           a == "handshake"
<1>1. /\ InOrder(r, d, y, s) /\ ExtInfo(d, y, t, h) /\ InFlight(r, u, d, y, h) /\ SentOK(r, u)
      /\ FrontKnows(r, d, s) /\ FrontOK(r, s, d, g, u) /\ SurfacedOK(Peer(r), d, g) /\ CalmOK(s, t, d, y)
  BY DEF Pair, EndOK, WireOK
<1>2. d = NewDriver /\ u = <<>> /\ Polled(d, g) = 0
  BY <1>1 DEF FrontKnows, FrontOK
<1>3. /\ d.runner = NewRunner /\ NewRunner.sid = NoKey /\ d.events = <<>> /\ d.err = "none" /\ Epoch(d) = 0
      /\ d.deferred = <<>>
  BY <1>2, NewDriverFields, NewDriverKeys
<1>4. /\ x \in DriverState /\ KeysOK(r, x) /\ Fresh(d, x) /\ Stays(d, x)
      /\ InOrder(r, x, y, a)
      /\ x.events = <<>> /\ x.err = "none" /\ x.deferredOut = <<>> /\ x.auth = FALSE
      /\ x.runner.advert \in {0, 1} /\ Epoch(x) = 0
      /\ (r = "client" => x.runner.phase # "Idle")
      /\ \A i \in DOMAIN x.outbox : x.outbox[i].t \in {"VERSION", "KEXINIT"}
  BY <1>1, <1>2, StartWire
<1> HIDE DEF x
<1>5. StepOK(d, x)
  BY <1>3, <1>4 DEF StepOK
<1>6. ExtFirst(x) /\ (ExtPending(x) => ExtPending(d))
  BY <1>3, <1>4 DEF ExtFirst, ExtPending
<1>7. SurfacedOK(Peer(r), x, g) /\ Polled(x, g) = Polled(d, g)
  BY <1>1, <1>3, <1>4 DEF SurfacedOK, Polled, Stays
<1>8. FrontOK(r, a, x, g, u)
  BY <1>2, <1>7 DEF FrontOK
<1>9. FrontKnows(r, x, a)
  <2>1. x.auth = FALSE
    BY <1>4, Zenon
  <2>2. a # "new" /\ a \notin {"open", "closed"}
    OBVIOUS
  <2>3. r = "client" => x.runner.phase # "Idle"
    BY <1>4
  <2> HIDE DEF a
  <2> QED BY <2>1, <2>2, <2>3, Zenon DEF FrontKnows
<1>10. EndOK(r, x, a, t, g, u)
  BY <1>1, <1>4, <1>8, <1>9 DEF EndOK, ErrOK
<1>11. InFlight(r, u, x, y, h)
  <2>1. Arrived(y, h) \in Nat /\ Arrived(y, h) <= Len(u) /\ Len(u) = 0
    BY <1>1, <1>2, CountTypes DEF InFlight
  <2>2. Arrived(y, h) = 0
    BY <2>1
  <2>4. Carries(r, x.deferredOut, 0, 0)
    BY <1>4, CarriesNone
  <2> QED BY <2>1, <2>2, <1>4, CarriesNone, <2>4 DEF InFlight, IsItem, ItemTypes
<1>12. a \in Early /\ ExtReady(x)
  BY <1>3, <1>4 DEF Early, ExtReady, Stays
<1>13. CalmOK(a, t, x, y)
  BY <1>1, <1>4 DEF Early, CalmOK
<1>14. s # "closed"
  OBVIOUS
<1> HIDE DEF a
<1>15. Pair(r, x, a, g, u, y, t, h, v)
  BY <1>3, <1>4, <1>6, <1>7, <1>10, <1>11, <1>12, <1>13, <1>14, OwnStep
<1> QED BY <1>5, <1>15 DEF x, a

---------------------------------------------------------------------------
(* The connection.                                                         *)

At(r) == Pair(r, drv[r], fe[r], got[r], sent[r],
              drv[Peer(r)], fe[Peer(r)], got[Peer(r)], sent[Peer(r)])

\* The invariant: the two ends, and the two wires between them, fit.
PathInv == TypeOK /\ \A r \in Role : At(r)

\* What a step of r's frontend leaves behind.
OwnEffect(r) ==
    /\ got' = got
    /\ \A p \in Role \ {r} : drv'[p] = drv[p] /\ fe'[p] = fe[p] /\ sent'[p] = sent[p]
    /\ Pair(r, drv'[r], fe'[r], got[r], sent'[r],
            drv[Peer(r)], fe[Peer(r)], got[Peer(r)], sent[Peer(r)])
    /\ StepOK(drv[r], drv'[r])

\* What every step keeps.
Kept == \A r \in Role : At(r)' /\ StepOK(drv[r], drv'[r])

\* The two roles.
LEMMA PeerRole ==
  ASSUME NEW r \in Role
  PROVE  Peer(r) \in Role /\ Peer(r) # r /\ Peer(Peer(r)) = r /\ \A q \in Role : q = r \/ q = Peer(r)
  BY DEF Role, Peer

\* The values the invariant is about have their types.
LEMMA EndTypes ==
  ASSUME TypeOK, NEW r \in Role
  PROVE  /\ drv[r] \in DriverState /\ fe[r] \in FrontStates
         /\ got[r] \in Seq(Message) /\ sent[r] \in Seq(Message)
  BY DEF TypeOK, FrontStates

\* A driver that does nothing does nothing wrong.
LEMMA StepSame ==
  ASSUME NEW d
  PROVE  StepOK(d, d)
  BY DEF StepOK, Fresh

\* If the ends fit seen from one side they fit seen from the other.
LEMMA PairKept ==
  ASSUME NEW r \in Role, At(r)'
  PROVE  At(Peer(r))'
BY PeerRole, PairSwap DEF At

\* A frontend's step that leaves its own end fitting leaves both so.
LEMMA AdvanceKept ==
  ASSUME NEW r \in Role, OwnEffect(r)
  PROVE  Kept
<1> DEFINE p == Peer(r)
<1>1. p \in Role /\ p # r /\ \A q \in Role : q = r \/ q = p
  BY PeerRole
<1>2. drv'[p] = drv[p] /\ fe'[p] = fe[p] /\ sent'[p] = sent[p] /\ got' = got
  BY <1>1 DEF OwnEffect
<1>3. At(r)'
  BY <1>2 DEF OwnEffect, At
<1>4. At(p)'
  BY <1>3, PairKept
<1> QED BY <1>1, <1>3, <1>4, <1>2, StepSame DEF Kept, OwnEffect

\* An own step of r that leaves x, s and u.
LEMMA OwnAdvance ==
  ASSUME TypeOK, NEW r \in Role, NEW x, NEW s, NEW u,
         drv' = [drv EXCEPT ![r] = x], fe' = [fe EXCEPT ![r] = s], sent' = [sent EXCEPT ![r] = u], got' = got,
         Pair(r, x, s, got[r], u, drv[Peer(r)], fe[Peer(r)], got[Peer(r)], sent[Peer(r)]),
         StepOK(drv[r], x)
  PROVE  Kept
BY AdvanceKept DEF TypeOK, OwnEffect

\* A variable that is left alone is written back.
LEMMA SameBack ==
  ASSUME TypeOK, NEW r \in Role
  PROVE  fe = [fe EXCEPT ![r] = fe[r]] /\ sent = [sent EXCEPT ![r] = sent[r]]
  BY DEF TypeOK

\* Two new drivers fit.
LEMMA InitPath == Init => \A r \in Role : At(r)
<1> SUFFICES ASSUME Init, NEW r \in Role PROVE At(r)
  OBVIOUS
<1> DEFINE p == Peer(r)
           d == NewDriver
<1>1. p \in Role /\ Peer(p) = r
  BY PeerRole
<1>2. /\ drv[r] = d /\ fe[r] = "new" /\ sent[r] = <<>> /\ got[r] = <<>>
      /\ drv[p] = d /\ fe[p] = "new" /\ sent[p] = <<>> /\ got[p] = <<>>
  BY <1>1 DEF Init
<1>3. /\ d.outbox = <<>> /\ d.deferred = <<>> /\ d.deferredOut = <<>> /\ d.events = <<>> /\ d.err = "none"
      /\ d.phase = "AwaitingVersion" /\ d.codec.seqIn = 0 /\ d.runner.advert = 0 /\ d.runner.phase = "Idle"
      /\ d \in DriverState
  BY NewDriverFields
<1>4. d.auth = FALSE
  BY DEF NewDriver
<1>5. \A q \in Role : KeysOK(q, d) /\ Epoch(d) = 0 /\ InJ(d) = 0 /\ OutE(d) = 0 /\ OutJ(q, d) = 0 /\ OutS(d) = 0
  BY NewDriverKeys
<1> HIDE DEF d
<1>6. ASSUME NEW q \in Role PROVE EndOK(q, d, "new", "new", <<>>, <<>>)
  BY <1>4, <1>3, <1>5 DEF FrontKnows, d, FrontOK, Polled, EndOK, ErrOK, SentOK
<1>7. ASSUME NEW q \in Role PROVE WireOK(q, d, "new", <<>>, d, "new", <<>>)
  <2>1. InOrder(q, d, d, "new")
    BY <1>3, <1>5 DEF InOrder, Linked, StartsAt, EndsAt
  <2>2. ExtInfo(d, d, "new", <<>>)
    BY <1>3, <1>5 DEF ExtInfo, ExtFirst, ExtPending, ExtReady, Early
  <2>4. InFlight(q, <<>>, d, d, <<>>)
    BY <1>3, CarriesNone DEF Arrived, Out, InFlight
  <2> QED BY <2>1, <2>2, <1>3, <1>5, <2>4 DEF WireOK, SurfacedOK
<1>9. Pair(r, d, "new", <<>>, <<>>, d, "new", <<>>, <<>>)
  BY <1>1, <1>6, <1>7, <1>3 DEF Pair, CalmOK
<1> QED BY <1>2, <1>9 DEF At

---------------------------------------------------------------------------
(* One lemma for each action.                                              *)

\* Starting a driver.
LEMMA StartPath ==
  ASSUME PathInv, NEW r \in Role, Start(r)
  PROVE  Kept
<1> DEFINE p == Peer(r)
           x == StartDriver(r, drv[r])
<1>1. TypeOK /\ At(r) /\ p \in Role
  BY PeerRole DEF PathInv
<1>2. /\ fe[r] = "new" /\ drv' = [drv EXCEPT ![r] = x] /\ fe' = [fe EXCEPT ![r] = "handshake"]
      /\ sent' = sent /\ got' = got
  BY <1>1 DEF Start, TypeOK
<1>3. Pair(r, x, "handshake", got[r], sent[r], drv[p], fe[p], got[p], sent[p]) /\ StepOK(drv[r], x)
  BY <1>1, <1>2, EndTypes, StartStep DEF At
<1>4. sent' = [sent EXCEPT ![r] = sent[r]]
  BY <1>1, <1>2, SameBack
<1> HIDE DEF x
<1> QED BY <1>1, <1>2, <1>3, <1>4, OwnAdvance

\* A packet is taken; more may be surfaced, and nothing is submitted.
LEMMA HandleInputPath ==
  ASSUME Agreed, PathInv, NEW r \in Role, HandleInput(r)
  PROVE  /\ Kept /\ sent' = sent
         /\ \E q \in Seq(Message) : got' = [got EXCEPT ![r] = q] /\ Len(q) >= Len(got[r])
<1> DEFINE p == Peer(r)
           x == HandleInputItem(r, drv[r], Head(drv[p].outbox))
           w == Delivered(drv[p])
           q == got[r] \o NewEvents(drv[r], x)
<1>1. TypeOK /\ At(r) /\ p \in Role /\ p # r
  BY PeerRole DEF PathInv
<1>2. /\ drv[r].err = "none" /\ fe[r] \notin {"new", "closed"} /\ drv[p].outbox # <<>>
      /\ drv' = [drv EXCEPT ![r] = x, ![p] = w] /\ got' = [got EXCEPT ![r] = q]
      /\ sent' = sent /\ fe' = fe
  BY DEF HandleInput, Live
<1>3. /\ drv[r] \in DriverState /\ got[r] \in Seq(Message) /\ sent[r] \in Seq(Message)
      /\ drv[p] \in DriverState /\ got[p] \in Seq(Message) /\ sent[p] \in Seq(Message)
  BY <1>1, EndTypes
<1>4. Pair(r, drv[r], fe[r], got[r], sent[r], drv[p], fe[p], got[p], sent[p])
  BY <1>1 DEF At
<1>5. Head(drv[p].outbox) = drv[p].outbox[1]
  BY <1>2, <1>3 DEF DriverState
<1>6. Took(r, drv[r], drv[p].outbox[1], fe[p], x)
  BY <1>4, <1>2, <1>3, <1>5, TookAny DEF Pair, EndOK, WireOK
<1>7. x \in DriverState
  <2>1. Head(drv[p].outbox) \in WireFrame
    BY <1>2, <1>3 DEF DriverState
  <2> QED BY <1>3, <2>1, HandleInputItemType
<1> HIDE DEF x
<1>8. /\ Pair(r, x, fe[r], q, sent[r], w, fe[p], got[p], sent[p]) /\ q \in Seq(Message) /\ Len(q) >= Len(got[r])
      /\ StepOK(drv[r], x) /\ StepOK(drv[p], w)
  BY <1>2, <1>3, <1>4, <1>6, <1>7, TakeStep
<1> HIDE DEF q, w
<1>9. drv'[r] = x /\ drv'[p] = w /\ got'[r] = q /\ got'[p] = got[p]
  BY <1>1, <1>2 DEF TypeOK
<1>10. At(r)'
  BY <1>2, <1>8, <1>9 DEF At
<1>11. At(p)'
  BY <1>10, PairKept
<1>12. Kept
  BY <1>8, <1>9, <1>10, <1>11, PeerRole DEF Kept
<1> QED BY <1>2, <1>8, <1>12

\* The handshake is over.
LEMMA PollHandshakePath ==
  ASSUME PathInv, NEW r \in Role, PollHandshakeComplete(r)
  PROVE  Kept
<1> DEFINE p == Peer(r)
           m == Msg("SERVICE_REQUEST")
<1>1. TypeOK /\ At(r) /\ p \in Role
  BY PeerRole DEF PathInv
<1>2. /\ drv[r].err = "none" /\ fe[r] # "closed" /\ drv[r].events # <<>>
      /\ Head(drv[r].events).t = "HandshakeComplete" /\ fe' = [fe EXCEPT ![r] = "auth"] /\ got' = got
  BY DEF PollHandshakeComplete, Polls, Live
<1>4. Pair(r, drv[r], fe[r], got[r], sent[r], drv[p], fe[p], got[p], sent[p])
  BY <1>1 DEF At
<1>5. IF r = "client"
      THEN /\ Pair(r, EnqueuePayload(Pop(drv[r]), m), "auth", got[r], Append(sent[r], m), drv[p], fe[p], got[p], sent[p])
           /\ StepOK(drv[r], EnqueuePayload(Pop(drv[r]), m))
      ELSE /\ Pair(r, Pop(drv[r]), "auth", got[r], sent[r], drv[p], fe[p], got[p], sent[p])
           /\ StepOK(drv[r], Pop(drv[r]))
  BY <1>2, <1>1, EndTypes, <1>4, HandshakeStep
<1>6. \/ /\ r = "client" /\ drv' = [drv EXCEPT ![r] = EnqueuePayload(Pop(drv[r]), m)]
         /\ sent' = [sent EXCEPT ![r] = Append(sent[r], m)]
      \/ /\ r = "server" /\ drv' = [drv EXCEPT ![r] = Pop(drv[r])] /\ sent' = sent
  BY DEF PollHandshakeComplete, Submit, Act, Popped, Pop
<1> HIDE DEF m
<1>7. CASE r = "client"
  <2> DEFINE x == EnqueuePayload(Pop(drv[r]), m)
             u == Append(sent[r], m)
  <2>1. /\ Pair(r, x, "auth", got[r], u, drv[p], fe[p], got[p], sent[p]) /\ StepOK(drv[r], x)
        /\ drv' = [drv EXCEPT ![r] = x] /\ sent' = [sent EXCEPT ![r] = u]
    BY <1>5, <1>6, <1>7
  <2> HIDE DEF x, u
  <2> QED BY <1>1, <1>2, <2>1, OwnAdvance
<1>8. CASE r # "client"
  <2> DEFINE x == Pop(drv[r])
  <2>1. /\ Pair(r, x, "auth", got[r], sent[r], drv[p], fe[p], got[p], sent[p]) /\ StepOK(drv[r], x)
        /\ drv' = [drv EXCEPT ![r] = x] /\ sent' = sent
    BY <1>5, <1>6, <1>8
  <2>2. sent' = [sent EXCEPT ![r] = sent[r]]
    BY <1>1, <2>1, SameBack
  <2> HIDE DEF x
  <2> QED BY <1>1, <1>2, <2>1, <2>2, OwnAdvance
<1> QED BY <1>7, <1>8

\* The answers before the decision on a user.
LEMMA PollAuthPath ==
  ASSUME PathInv, NEW r \in Role, PollAuth(r)
  PROVE  Kept
<1> DEFINE p == Peer(r)
<1>1. TypeOK /\ At(r) /\ p \in Role
  BY PeerRole DEF PathInv
<1>2. PICK m : /\ \/ r = "server" /\ Head(drv[r].events).t = "SERVICE_REQUEST" /\ m = Msg("SERVICE_ACCEPT")
                  \/ r = "client" /\ Head(drv[r].events).t = "SERVICE_ACCEPT" /\ m = Msg("USERAUTH_REQUEST")
               /\ drv[r].events # <<>> /\ drv[r].err = "none"
               /\ drv' = [drv EXCEPT ![r] = EnqueuePayload(Pop(drv[r]), m)]
               /\ sent' = [sent EXCEPT ![r] = Append(sent[r], m)]
  <2>1. CASE r = "server" /\ Polls(r, "SERVICE_REQUEST") /\ Submit(r, Popped(r), Msg("SERVICE_ACCEPT"))
    BY <2>1 DEF Polls, Live, Submit, Act, Popped, Pop
  <2>2. CASE r = "client" /\ Polls(r, "SERVICE_ACCEPT") /\ Submit(r, Popped(r), Msg("USERAUTH_REQUEST"))
    BY <2>2 DEF Polls, Live, Submit, Act, Popped, Pop
  <2> QED BY <2>1, <2>2 DEF PollAuth
<1>3. fe[r] = "auth" /\ fe' = fe /\ got' = got
  BY DEF PollAuth
<1>4. /\ drv[r] \in DriverState /\ fe[r] \in FrontStates /\ got[r] \in Seq(Message) /\ sent[r] \in Seq(Message)
      /\ drv[p] \in DriverState /\ fe[p] \in FrontStates /\ got[p] \in Seq(Message) /\ sent[p] \in Seq(Message)
  BY <1>1, EndTypes
<1>5. Pair(r, drv[r], fe[r], got[r], sent[r], drv[p], fe[p], got[p], sent[p])
  BY <1>1 DEF At
<1> DEFINE x == EnqueuePayload(Pop(drv[r]), m)
           u == Append(sent[r], m)
<1>6. /\ Pair(r, x, fe[r], got[r], u, drv[p], fe[p], got[p], sent[p]) /\ StepOK(drv[r], x)
  BY <1>2, <1>3, <1>4, <1>5, AuthStep
<1>7. drv' = [drv EXCEPT ![r] = x] /\ sent' = [sent EXCEPT ![r] = u]
  BY <1>2
<1>8. fe' = [fe EXCEPT ![r] = fe[r]]
  BY <1>1, <1>3, SameBack
<1> HIDE DEF x, u
<1> QED BY <1>1, <1>3, <1>6, <1>7, <1>8, OwnAdvance

\* The two ends as the lemmas on their steps take them.
LEMMA PathKnown ==
  ASSUME PathInv, NEW r \in Role
  PROVE  LET p == Peer(r)
         IN  /\ TypeOK /\ drv[r] \in DriverState /\ fe[r] \in FrontStates
             /\ got[r] \in Seq(Message) /\ sent[r] \in Seq(Message)
             /\ drv[p] \in DriverState /\ fe[p] \in FrontStates
             /\ got[p] \in Seq(Message) /\ sent[p] \in Seq(Message)
             /\ Pair(r, drv[r], fe[r], got[r], sent[r], drv[p], fe[p], got[p], sent[p])
BY PeerRole, EndTypes DEF PathInv, At

\* A connection-protocol payload is taken: nothing else is surfaced by then.
LEMMA PollAppPath ==
  ASSUME PathInv, NEW r \in Role, PollApp(r)
  PROVE  Kept
<1> DEFINE p == Peer(r)
           x == Pop(drv[r])
<1>1. /\ TypeOK /\ drv[r] \in DriverState /\ fe[r] \in FrontStates
      /\ got[r] \in Seq(Message) /\ sent[r] \in Seq(Message)
      /\ drv[p] \in DriverState /\ fe[p] \in FrontStates /\ got[p] \in Seq(Message) /\ sent[p] \in Seq(Message)
      /\ Pair(r, drv[r], fe[r], got[r], sent[r], drv[p], fe[p], got[p], sent[p])
  BY PathKnown
<1>2. /\ fe[r] = "open" /\ drv[r].err = "none" /\ drv[r].events # <<>> /\ Live(r)
      /\ fe' = fe /\ sent' = sent /\ got' = got
  BY DEF PollApp, Live
<1>3. Pair(r, x, fe[r], got[r], sent[r], drv[p], fe[p], got[p], sent[p]) /\ StepOK(drv[r], x)
      /\ Head(drv[r].events).t = "APP"
  BY <1>1, <1>2, AppStep
<1>4. drv' = [drv EXCEPT ![r] = x]
  BY <1>2, <1>3 DEF Polls, PollApp, Act, Popped, Pop
<1>5. fe' = [fe EXCEPT ![r] = fe[r]] /\ sent' = [sent EXCEPT ![r] = sent[r]]
  BY <1>1, <1>2, SameBack
<1> HIDE DEF x
<1> QED BY <1>1, <1>2, <1>3, <1>4, <1>5, OwnAdvance

\* A connection-protocol payload is submitted.
LEMMA SendAppPath ==
  ASSUME PathInv, NEW r \in Role, SendApp(r)
  PROVE  Kept
<1> DEFINE p == Peer(r)
           m == [t |-> "APP", body |-> <<Len(sent[r]), Len(sent[r])>>]
           x == EnqueuePayload(drv[r], m)
           u == Append(sent[r], m)
<1>1. /\ TypeOK /\ drv[r] \in DriverState /\ fe[r] \in FrontStates
      /\ got[r] \in Seq(Message) /\ sent[r] \in Seq(Message)
      /\ drv[p] \in DriverState /\ fe[p] \in FrontStates /\ got[p] \in Seq(Message) /\ sent[p] \in Seq(Message)
      /\ Pair(r, drv[r], fe[r], got[r], sent[r], drv[p], fe[p], got[p], sent[p])
  BY PathKnown
<1>2. /\ fe[r] = "open" /\ drv[r].err = "none" /\ fe' = fe /\ got' = got
      /\ drv' = [drv EXCEPT ![r] = x] /\ sent' = [sent EXCEPT ![r] = u]
  BY DEF SendApp, Live, Submit, Act
<1>3. Pair(r, x, fe[r], got[r], u, drv[p], fe[p], got[p], sent[p]) /\ StepOK(drv[r], x)
  <2>1. m = [t |-> "APP", body |-> <<Len(sent[r]), Len(sent[r])>>]
    OBVIOUS
  <2> HIDE DEF m
  <2> QED BY <1>1, <1>2, <2>1, SendStep
<1>4. fe' = [fe EXCEPT ![r] = fe[r]]
  BY <1>1, <1>2, SameBack
<1> HIDE DEF x, u
<1> QED BY <1>1, <1>2, <1>3, <1>4, OwnAdvance

\* A re-key is begun by a driver that is at rest and whose frontend is open.
LEMMA RekeyPath ==
  ASSUME PathInv, NEW r \in Role, fe[r] = "open", drv[r].err = "none", drv[r].runner.phase = "Completed",
         drv' = [drv EXCEPT ![r] = InitiateRekey(drv[r])], fe' = fe, sent' = sent, got' = got
  PROVE  Kept
<1> DEFINE p == Peer(r)
           x == InitiateRekey(drv[r])
<1>1. /\ TypeOK /\ drv[r] \in DriverState /\ fe[r] \in FrontStates
      /\ got[r] \in Seq(Message) /\ sent[r] \in Seq(Message)
      /\ drv[p] \in DriverState /\ fe[p] \in FrontStates /\ got[p] \in Seq(Message) /\ sent[p] \in Seq(Message)
      /\ Pair(r, drv[r], fe[r], got[r], sent[r], drv[p], fe[p], got[p], sent[p])
  BY PathKnown
<1>2. Pair(r, x, fe[r], got[r], sent[r], drv[p], fe[p], got[p], sent[p]) /\ StepOK(drv[r], x)
  BY <1>1, RekeyStep
<1>3. fe' = [fe EXCEPT ![r] = fe[r]] /\ sent' = [sent EXCEPT ![r] = sent[r]]
  BY <1>1, SameBack
<1>4. drv' = [drv EXCEPT ![r] = x]
  OBVIOUS
<1> HIDE DEF x
<1> QED BY <1>1, <1>2, <1>3, <1>4, OwnAdvance

\* A re-key by age or by volume finds its driver at rest and authenticated.
LEMMA TickPath ==
  ASSUME Agreed, PathInv, NEW r \in Role, Tick(r)
  PROVE  Kept
<1> DEFINE p == Peer(r)
<1>1. /\ TypeOK /\ drv[r] \in DriverState /\ fe[r] \in FrontStates
      /\ Pair(r, drv[r], fe[r], got[r], sent[r], drv[p], fe[p], got[p], sent[p])
  BY PathKnown
<1>2. /\ drv[r].err = "none" /\ fe[r] # "closed" /\ RekeyDue(r, drv[r])
      /\ drv' = [drv EXCEPT ![r] = InitiateRekey(drv[r])] /\ fe' = fe /\ sent' = sent /\ got' = got
  BY DEF Tick, Live, Act
<1>3. ~IsKexing(drv[r].runner) /\ drv[r].phase = "PostKex" /\ ShouldRekey(r, drv[r])
  BY <1>2 DEF RekeyDue
<1>4. KeysOK(r, drv[r]) /\ FrontKnows(r, drv[r], fe[r])
  BY <1>1 DEF Pair, EndOK
<1>6. fe[r] = "open"
  <2>1. drv[r].auth
    BY <1>3, Zenon DEF ShouldRekey, Agreed
  <2>2. fe[r] \in {"open", "closed"}
    BY <1>4, <2>1, Zenon DEF FrontKnows
  <2> QED BY <1>2, <2>2
<1> QED BY <1>2, <1>3, <1>4, <1>1, RestPlace, <1>6, RekeyPath DEF KeysOK

\* A re-key that the user asks for.
LEMMA RequestRekeyPath ==
  ASSUME PathInv, RequestRekey
  PROVE  Kept
BY RekeyPath DEF RequestRekey, Live, Act, Role

\* The server lets the user in.
LEMMA ServerAuthPath ==
  ASSUME PathInv, ServerAuthenticates
  PROVE  Kept
<1> DEFINE r == "server"
           p == Peer(r)
           m == Msg("USERAUTH_SUCCESS")
           x == NotifyAuthSuccess(r, EnqueuePayload(Pop(drv[r]), m))
           u == Append(sent[r], m)
<1>1. r \in Role
  BY DEF Role
<1>2. /\ fe[r] = "auth" /\ drv[r].err = "none" /\ drv[r].events # <<>>
      /\ Head(drv[r].events).t = "USERAUTH_REQUEST"
      /\ drv' = [drv EXCEPT ![r] = x] /\ sent' = [sent EXCEPT ![r] = u]
      /\ fe' = [fe EXCEPT ![r] = "open"] /\ got' = got
  BY DEF ServerAuthenticates, Polls, Live, Act, Popped, Pop
<1>3. r = "server" /\ m = Msg("USERAUTH_SUCCESS")
  OBVIOUS
<1> HIDE DEF r, m
<1>4. /\ TypeOK /\ drv[r] \in DriverState /\ fe[r] \in FrontStates
      /\ got[r] \in Seq(Message) /\ sent[r] \in Seq(Message)
      /\ drv[p] \in DriverState /\ fe[p] \in FrontStates /\ got[p] \in Seq(Message) /\ sent[p] \in Seq(Message)
      /\ Pair(r, drv[r], fe[r], got[r], sent[r], drv[p], fe[p], got[p], sent[p])
  BY <1>1, PathKnown
<1>5. Pair(r, x, "open", got[r], u, drv[p], fe[p], got[p], sent[p]) /\ StepOK(drv[r], x)
  BY <1>2, <1>1, <1>3, <1>4, ServerAuthStep
<1> HIDE DEF x, u
<1> QED BY <1>1, <1>2, <1>4, <1>5, OwnAdvance

\* The client learns of it.
LEMMA ClientAuthPath ==
  ASSUME PathInv, ClientAuthenticated
  PROVE  Kept
<1> DEFINE r == "client"
           p == Peer(r)
           x == NotifyAuthSuccess(r, Pop(drv[r]))
<1>1. r \in Role
  BY DEF Role
<1>2. /\ fe[r] = "auth" /\ drv[r].err = "none" /\ drv[r].events # <<>>
      /\ Head(drv[r].events).t = "USERAUTH_SUCCESS"
      /\ drv' = [drv EXCEPT ![r] = x] /\ sent' = sent
      /\ fe' = [fe EXCEPT ![r] = "open"] /\ got' = got
  BY DEF ClientAuthenticated, Polls, Live, Act, Popped, Pop
<1>3. r = "client"
  OBVIOUS
<1> HIDE DEF r
<1>4. /\ TypeOK /\ drv[r] \in DriverState /\ fe[r] \in FrontStates
      /\ got[r] \in Seq(Message) /\ sent[r] \in Seq(Message)
      /\ drv[p] \in DriverState /\ fe[p] \in FrontStates /\ got[p] \in Seq(Message) /\ sent[p] \in Seq(Message)
      /\ Pair(r, drv[r], fe[r], got[r], sent[r], drv[p], fe[p], got[p], sent[p])
  BY <1>1, PathKnown
<1>5. Pair(r, x, "open", got[r], sent[r], drv[p], fe[p], got[p], sent[p]) /\ StepOK(drv[r], x)
  BY <1>1, <1>2, <1>3, <1>4, ClientAuthStep
<1>6. sent' = [sent EXCEPT ![r] = sent[r]]
  BY <1>1, <1>2, <1>4, SameBack
<1> HIDE DEF x
<1> QED BY <1>1, <1>2, <1>4, <1>5, <1>6, OwnAdvance

\* A PING is sent.
LEMMA SendPingPath ==
  ASSUME PathInv, SendPing
  PROVE  Kept
<1> DEFINE r == "client"
           p == Peer(r)
           m == Msg("PING")
           x == EnqueuePayload(drv[r], m)
<1>1. r \in Role /\ m \in Message /\ m.t = "PING"
  BY MsgType DEF Role, MsgTypes, Msg
<1>2. /\ fe[r] = "open" /\ drv[r].err = "none" /\ drv' = [drv EXCEPT ![r] = x]
      /\ sent' = sent /\ fe' = fe /\ got' = got
  BY DEF SendPing, Live, Act
<1> HIDE DEF r, m
<1>3. /\ TypeOK /\ drv[r] \in DriverState /\ fe[r] \in FrontStates
      /\ got[r] \in Seq(Message) /\ sent[r] \in Seq(Message)
      /\ drv[p] \in DriverState /\ fe[p] \in FrontStates /\ got[p] \in Seq(Message) /\ sent[p] \in Seq(Message)
      /\ Pair(r, drv[r], fe[r], got[r], sent[r], drv[p], fe[p], got[p], sent[p])
  BY <1>1, PathKnown
<1>4. Pair(r, x, fe[r], got[r], sent[r], drv[p], fe[p], got[p], sent[p]) /\ StepOK(drv[r], x)
  BY <1>1, <1>2, <1>3, PingStep
<1>5. fe' = [fe EXCEPT ![r] = fe[r]] /\ sent' = [sent EXCEPT ![r] = sent[r]]
  BY <1>1, <1>2, <1>3, SameBack
<1> HIDE DEF x
<1> QED BY <1>1, <1>2, <1>3, <1>4, <1>5, OwnAdvance

\* The server leaves.
LEMMA DisconnectPath ==
  ASSUME PathInv, Disconnect
  PROVE  Kept
<1> DEFINE r == "server"
           p == Peer(r)
           m == Msg("DISCONNECT")
           x == EnqueuePayload(drv[r], m)
<1>1. r \in Role /\ r = "server" /\ m = Msg("DISCONNECT")
  BY DEF Role
<1>2. /\ fe[r] = "open" /\ drv[r].err = "none" /\ drv' = [drv EXCEPT ![r] = x]
      /\ sent' = sent /\ fe' = [fe EXCEPT ![r] = "closed"] /\ got' = got
  BY DEF Disconnect, Live, Act
<1> HIDE DEF r, m
<1>3. /\ TypeOK /\ drv[r] \in DriverState /\ fe[r] \in FrontStates
      /\ got[r] \in Seq(Message) /\ sent[r] \in Seq(Message)
      /\ drv[p] \in DriverState /\ fe[p] \in FrontStates /\ got[p] \in Seq(Message) /\ sent[p] \in Seq(Message)
      /\ Pair(r, drv[r], fe[r], got[r], sent[r], drv[p], fe[p], got[p], sent[p])
  BY <1>1, PathKnown
<1>4. Pair(r, x, "closed", got[r], sent[r], drv[p], fe[p], got[p], sent[p]) /\ StepOK(drv[r], x)
  BY <1>1, <1>2, <1>3, CloseStep
<1>5. sent' = [sent EXCEPT ![r] = sent[r]]
  BY <1>1, <1>2, <1>3, SameBack
<1> HIDE DEF x
<1> QED BY <1>1, <1>2, <1>3, <1>4, <1>5, OwnAdvance

\* Nothing happens.
LEMMA StutterPath ==
  ASSUME PathInv, UNCHANGED vars
  PROVE  Kept
<1>2. ASSUME NEW r \in Role PROVE At(r)' /\ StepOK(drv[r], drv'[r])
  BY StepSame DEF PathInv, At, vars
<1> QED BY <1>2 DEF Kept

\* Every step keeps the two ends fitting, and what keys and session id stand for.
LEMMA NextKept ==
  ASSUME Agreed, PathInv, [Next]_vars
  PROVE  Kept
<1>1. ASSUME NEW r \in Role, Start(r) PROVE Kept
  BY <1>1, StartPath
<1>2. ASSUME NEW r \in Role, HandleInput(r) PROVE Kept
  BY <1>2, HandleInputPath
<1>3. ASSUME NEW r \in Role, Poll(r) PROVE Kept
  BY <1>3, PollHandshakePath, PollAuthPath, PollAppPath DEF Poll
<1>4. ASSUME NEW r \in Role, SendApp(r) PROVE Kept
  BY <1>4, SendAppPath
<1>5. ASSUME NEW r \in Role, Tick(r) PROVE Kept
  BY <1>5, TickPath
<1>6. CASE ServerAuthenticates \/ ClientAuthenticated \/ SendPing \/ RequestRekey \/ Disconnect
  BY <1>6, ServerAuthPath, ClientAuthPath, SendPingPath, RequestRekeyPath, DisconnectPath
<1>7. CASE UNCHANGED vars
  BY <1>7, StutterPath
<1> QED BY <1>1, <1>2, <1>3, <1>4, <1>5, <1>6, <1>7 DEF Next

\* So it is an invariant.
LEMMA PathInvariant ==
  ASSUME Agreed
  PROVE  Spec => []PathInv
<1>1. Init => PathInv
  BY InitPath, InitTypeOK DEF PathInv
<1>2. PathInv /\ [Next]_vars => PathInv'
  <2> SUFFICES ASSUME PathInv, [Next]_vars PROVE PathInv'
    OBVIOUS
  <2>1. Kept
    BY NextKept
  <2>2. TypeOK'
    BY NextTypeOK DEF PathInv
  <2> QED BY <2>1, <2>2 DEF PathInv, Kept
<1> QED BY <1>1, <1>2, PTL DEF Spec

---------------------------------------------------------------------------
(* What the invariant says of the properties.                              *)

\* Ends that fit have not failed, but for a full queue or a peer that left.
LEMMA PathNoError ==
  ASSUME PathInv
  PROVE  NoProtocolError
<1> SUFFICES ASSUME NEW r \in Role, drv[r].err # "none"
             PROVE  \/ /\ drv[r].err = "deferred egress buffer too large"
                       /\ Len(drv[r].deferredOut) + 1 > MaxDeferredOut
                    \/ /\ drv[r].err = "deferred ingress buffer too large"
                       /\ Len(drv[r].deferred) + 1 > MaxDeferredIn
                    \/ drv[r].err \in {"disconnected", "decode"} /\ fe[Peer(r)] = "closed"
  BY DEF NoProtocolError
<1> QED BY DEF ErrOK, Full, PathInv, At, Pair, EndOK

\* Along a path the keys move on at each NEWKEYS.
LEMMA PathNewKeys ==
  ASSUME PathInv
  PROVE  NewKeysAfterNewkeys
<1> SUFFICES ASSUME NEW r \in Role, NEW i \in DOMAIN drv[r].outbox, NEW j \in DOMAIN drv[r].outbox,
                    i < j, drv[r].outbox[i].t = "NEWKEYS", drv[r].outbox[j].t # "DISCONNECT"
             PROVE  drv[r].outbox[j].key # drv[r].outbox[i].key
  BY DEF NewKeysAfterNewkeys
<1> DEFINE o == drv[r].outbox
<1>2. o[i].key[1] < o[j].key[1]
  BY DEF InOrder, PathInv, At, Pair, WireOK
<1>3. o[i].key[1] \in Nat /\ o[j].key[1] \in Nat
  <2>2. o[i] \in WireFrame /\ o[j] \in WireFrame
    BY EndTypes DEF DriverState, PathInv
  <2> QED BY <2>2 DEF WireFrame, Key
<1> HIDE DEF o
<1>4. o[j].key # o[i].key
  BY <1>2, <1>3
<1> QED BY <1>4 DEF o

\* A side that has keys has the session id, and its peer had to derive it to send NEWKEYS.
LEMMA PathSid ==
  ASSUME PathInv, NEW r \in Role, drv[r].phase = "PostKex"
  PROVE  drv[r].runner.sid # NoKey /\ drv[Peer(r)].runner.sid = drv[r].runner.sid
<1> DEFINE p == Peer(r)
<1>1. KeysOK(r, drv[r]) /\ KeysOK(p, drv[p]) /\ InOrder(p, drv[p], drv[r], fe[p])
  BY DEF PathInv, At, Pair, EndOK, WireOK
<1>3. Epoch(drv[r]) \in Nat /\ OutE(drv[r]) \in Nat /\ OutE(drv[p]) \in Nat /\ Epoch(drv[r]) <= OutE(drv[r])
  BY EndTypes, PeerRole, PlaceType DEF PathInv, OutE
<1>4. OutE(drv[r]) # 0 /\ OutE(drv[p]) # 0
  BY <1>1, <1>3 DEF KeysOK, InOrder
<1> QED BY <1>1, <1>4 DEF NoKey, KeysOK

\* What a frontend has been given is what its peer submitted, from the first on.
LEMMA PathSurfaced ==
  ASSUME PathInv, NEW r \in Role
  PROVE  /\ Out(got[r]) \in 0..Len(sent[Peer(r)])
         /\ Surfaced[r] = SubSeq(sent[Peer(r)], 1, Out(got[r]))
         /\ Len(Surfaced[r]) = Out(got[r])
<1> DEFINE p == Peer(r)
           g == got[r]
           u == sent[p]
           n == Out(g)
           a == SubSeq(g, 2, Len(g))
           b == SubSeq(u, 1, n)
<1>1. g \in Seq(Message) /\ u \in Seq(Message) /\ drv[r] \in DriverState
  BY EndTypes, PeerRole DEF PathInv
<1>2. SurfacedOK(p, drv[r], g) /\ InFlight(p, u, drv[p], drv[r], g) /\ SentOK(p, u)
  BY DEF PathInv, At, Pair, EndOK, WireOK
<1>3. Surfaced[r] = a
  BY DEF Surfaced
<1> HIDE DEF g, u
<1>4. Len(g) \in Nat /\ Len(u) \in Nat /\ Len(drv[r].deferred) \in Nat
  BY <1>1 DEF DriverState
<1>5. Out(g) \in Nat /\ Out(g) = (IF Len(g) = 0 THEN 0 ELSE Len(g) - 1)
  BY <1>1, EmptySeq, <1>4 DEF Out
<1>6. Out(g) + Len(drv[r].deferred) <= Len(u)
  BY <1>2 DEF InFlight, Arrived
<1> HIDE DEF n
<1>7. n \in Nat /\ n <= Len(u) /\ n = (IF Len(g) = 0 THEN 0 ELSE Len(g) - 1)
  <2> DEFINE k == Out(g)
             e == Len(drv[r].deferred)
  <2>1. k \in Nat /\ e \in Nat /\ k + e <= Len(u) /\ k = (IF Len(g) = 0 THEN 0 ELSE Len(g) - 1)
    BY <1>4, <1>5, <1>6
  <2> HIDE DEF k, e
  <2>2. k <= Len(u)
    BY <1>4, <2>1
  <2> QED BY <2>1, <2>2 DEF n, k
<1>8. /\ a \in Seq(Message) /\ Len(a) = n /\ \A i \in 1..n : a[i] = g[i + 1]
  <2>2. /\ a \in Seq(Message) /\ Len(a) = (IF 2 <= Len(g) THEN Len(g) - 2 + 1 ELSE 0)
        /\ \A i \in 1..(Len(g) - 2 + 1) : a[i] = g[2 + i - 1]
    BY <1>4, <1>1, SubSeqProperties
  <2> HIDE DEF a
  <2> QED BY <1>4, <1>7, <2>2
<1>9. /\ b \in Seq(Message) /\ Len(b) = n /\ \A i \in 1..n : b[i] = u[i]
  <2>2. /\ b \in Seq(Message) /\ Len(b) = (IF 1 <= n THEN n - 1 + 1 ELSE 0)
        /\ \A i \in 1..(n - 1 + 1) : b[i] = u[1 + i - 1]
    BY <1>7, <1>1, <1>4, SubSeqProperties
  <2> HIDE DEF b
  <2> QED BY <1>7, <2>2
<1>10. ASSUME NEW i \in 1..n PROVE g[i + 1] = u[i]
  BY <1>1, <1>4, <1>7, <1>2 DEF SurfacedOK, SentOK, Event
<1> HIDE DEF a, b
<1>11. a = b
  BY <1>8, <1>9, <1>10, SeqEqual
<1> QED BY <1>3, <1>4, <1>7, <1>8, <1>11 DEF b, n, g, u

---------------------------------------------------------------------------
(* The refinement of ReliableStream.                                       *)

\* How a step changes what was submitted and what was surfaced.
Traffic == \/ got' = got /\ sent' = sent
           \/ /\ got' = got
              /\ \E r \in Role, m \in Payloads : sent' = [sent EXCEPT ![r] = Append(sent[r], m)]
           \/ /\ sent' = sent
              /\ \E r \in Role : \E q \in Seq(Message) :
                    got' = [got EXCEPT ![r] = q] /\ Len(q) >= Len(got[r])

\* Every step is one of these.
LEMMA NextTraffic ==
  ASSUME Agreed, PathInv, [Next]_vars
  PROVE  Traffic
<1>1. ASSUME NEW r \in Role, Start(r) PROVE Traffic
  BY <1>1 DEF Start, Traffic
<1>2. ASSUME NEW r \in Role, HandleInput(r) PROVE Traffic
  BY <1>2, HandleInputPath DEF Traffic
<1>3. ASSUME NEW r \in Role, PollHandshakeComplete(r) PROVE Traffic
  BY <1>3 DEF PollHandshakeComplete, Submit, Traffic, Payloads
<1>4. ASSUME NEW r \in Role, PollAuth(r) PROVE Traffic
  BY <1>4 DEF PollAuth, Submit, Traffic, Payloads
<1>5. ASSUME NEW r \in Role, PollApp(r) PROVE Traffic
  BY <1>5 DEF PollApp, Traffic
<1>6. ASSUME NEW r \in Role, SendApp(r) PROVE Traffic
  <2> DEFINE n == Len(sent[r])
             m == [t |-> "APP", body |-> <<n, n>>]
  <2>1. fe[r] = "open" /\ n < MaxSent /\ sent' = [sent EXCEPT ![r] = Append(sent[r], m)] /\ got' = got
    BY <1>6 DEF SendApp, Submit
  <2>2. n >= 2 /\ n \in Nat
    BY PathKnown, <2>1, OpenKnown
  <2> HIDE DEF n
  <2>3. n \in 1..MaxSent
    BY <2>1, <2>2, BoundsAssumption
  <2>4. m \in Payloads
    BY <2>3 DEF Payloads
  <2> HIDE DEF m
  <2> QED BY <2>1, <2>4 DEF Traffic
<1>7. ASSUME NEW r \in Role, Tick(r) PROVE Traffic
  BY <1>7 DEF Tick, Traffic
<1>8. CASE ServerAuthenticates
  <2> DEFINE m == Msg("USERAUTH_SUCCESS")
  <2>1. sent' = [sent EXCEPT !["server"] = Append(sent["server"], m)] /\ got' = got
    BY <1>8 DEF ServerAuthenticates
  <2>2. "server" \in Role /\ m \in Payloads
    BY DEF Role, Payloads
  <2> HIDE DEF m
  <2> QED BY <2>1, <2>2 DEF Traffic
<1>9. CASE ClientAuthenticated \/ SendPing \/ RequestRekey \/ Disconnect
  BY <1>9 DEF ClientAuthenticated, SendPing, RequestRekey, Disconnect, Traffic
<1>10. CASE UNCHANGED vars
  BY <1>10 DEF vars, Traffic
<1> QED BY <1>1, <1>2, <1>3, <1>4, <1>5, <1>6, <1>7, <1>8, <1>9, <1>10 DEF Next, Poll

\* PathSurfaced, after a step.
LEMMA PathSurfacedNext ==
  ASSUME NEW r \in Role
  PROVE  PathInv' => /\ Out(got'[r]) \in 0..Len(sent'[Peer(r)])
                     /\ Surfaced'[r] = SubSeq(sent'[Peer(r)], 1, Out(got'[r]))
<1> DEFINE Q == /\ Out(got[r]) \in 0..Len(sent[Peer(r)])
                /\ Surfaced[r] = SubSeq(sent[Peer(r)], 1, Out(got[r]))
<1>1. PathInv => Q
  BY PathSurfaced
<1>2. Q' => /\ Out(got'[r]) \in 0..Len(sent'[Peer(r)])
            /\ Surfaced'[r] = SubSeq(sent'[Peer(r)], 1, Out(got'[r]))
  OBVIOUS
<1> HIDE DEF Q
<1>3. PathInv' => Q'
  BY <1>1, PTL
<1> QED BY <1>2, <1>3

\* A step of the connection is one of ReliableStream, or a stutter.
LEMMA StreamStep ==
  ASSUME Agreed, PathInv, PathInv', [Next]_vars
  PROVE  [Stream!Next]_<<sent, Surfaced>>
<1>1. Traffic
  BY NextTraffic
<1>2. CASE got' = got /\ sent' = sent
  BY <1>2 DEF Surfaced
<1>3. ASSUME got' = got, NEW r \in Role, NEW m \in Payloads, sent' = [sent EXCEPT ![r] = Append(sent[r], m)]
      PROVE  Stream!Next
  BY <1>3 DEF Surfaced, Stream!Submit, Stream!Next
<1>4. ASSUME sent' = sent, NEW r \in Role, NEW q \in Seq(Message),
             got' = [got EXCEPT ![r] = q], Len(q) >= Len(got[r])
      PROVE  [Stream!Next]_<<sent, Surfaced>>
  <2> DEFINE p == Peer(r)
             k == Out(got[r])
             l == Out(q)
             n == l - k
  <2>1. /\ k \in 0..Len(sent[p]) /\ Surfaced[r] = SubSeq(sent[p], 1, k) /\ Len(Surfaced[r]) = k
    BY PathSurfaced
  <2>2. got'[r] = q /\ \A z \in Role \ {r} : got'[z] = got[z]
    BY <1>4 DEF PathInv, TypeOK
  <2>3. l \in 0..Len(sent[p]) /\ Surfaced'[r] = SubSeq(sent[p], 1, l)
    BY PathSurfacedNext, <1>4, <2>2
  <2>4. Len(sent[p]) \in Nat /\ Len(got[r]) \in Nat /\ Len(q) \in Nat
    BY EndTypes, PeerRole DEF PathInv
  <2>5. k <= l
    BY <1>4, <2>4, EmptySeq DEF Out
  <2>6. Surfaced' = [Surfaced EXCEPT ![r] = SubSeq(sent[p], 1, l)]
    BY <2>2, <2>3 DEF Surfaced
  <2> HIDE DEF k, l
  <2>7. CASE k = l
    BY <1>4, <2>1, <2>6, <2>7 DEF Surfaced
  <2>8. CASE k # l
    <3>1. n \in 1..(Len(sent[p]) - Len(Surfaced[r])) /\ Len(Surfaced[r]) + n = l
      BY <2>1, <2>3, <2>4, <2>5, <2>8
    <3> HIDE DEF n
    <3> QED BY <1>4, <2>6, <3>1 DEF Stream!Next, Stream!Deliver
  <2> QED BY <2>7, <2>8
<1> QED BY <1>1, <1>2, <1>3, <1>4 DEF Traffic

---------------------------------------------------------------------------
(* The theorems.                                                           *)

\* Two puressh endpoints never make each other fail: no frame is refused by the
\* decode, on_packet or route_packet of its receiver, for any number of re-keys,
\* started by either side or by both at once, with traffic in flight.  A driver
\* stops only at the cap of a deferral queue, or when its peer has disconnected.
THEOREM NeverFail ==
  ASSUME Agreed
  PROVE  Spec => []NoProtocolError
<1>1. PathInv => NoProtocolError
  BY PathNoError
<1> QED BY <1>1, PathInvariant, PTL

\* Whatever a driver encodes after its NEWKEYS (what drain_deferred_out releases
\* included, a DISCONNECT excepted) is under other keys than the NEWKEYS.
THEOREM KeysChange ==
  ASSUME Agreed
  PROVE  Spec => []NewKeysAfterNewkeys
<1>1. PathInv => NewKeysAfterNewkeys
  BY PathNewKeys
<1> QED BY <1>1, PathInvariant, PTL

\* Keys and session id keep their meaning: a driver that has finished an exchange
\* holds the session id its peer holds, no re-key changes it, and no sequence
\* number is used twice under a key.
THEOREM KeysMean ==
  ASSUME Agreed
  PROVE  Spec => KeysKeepMeaning
<1> DEFINE Sid == \A r \in Role : drv[r].runner.sid # NoKey => drv'[r].runner.sid = drv[r].runner.sid
           Same == \A r \in Role : drv[r].phase = "PostKex" => /\ drv[r].runner.sid # NoKey
                                                               /\ drv[Peer(r)].runner.sid = drv[r].runner.sid
           Nonce == \A r \in Role :
                        \/ /\ drv'[r].codec.outKey = drv[r].codec.outKey
                           /\ \/ drv'[r].codec.seqOut = drv[r].codec.seqOut
                              \/ \E n \in 1..Len(drv'[r].outbox) :
                                    /\ drv'[r].codec.seqOut = (drv[r].codec.seqOut + n) % SeqMod
                                    /\ drv'[r].outbox[Len(drv'[r].outbox) - n + 1].seq = drv[r].codec.seqOut
                        \/ /\ drv'[r].codec.outKey[1] > drv[r].codec.outKey[1]
                           /\ drv'[r].codec.outKey[2] > drv[r].codec.outKey[2]
<1>1. PathInv => Same
  BY PathSid
<1>2. PathInv /\ [Next]_vars => Sid /\ Nonce
  <2> SUFFICES ASSUME PathInv, [Next]_vars PROVE Sid /\ Nonce
    OBVIOUS
  <2>1. Kept
    BY NextKept
  <2> QED BY <2>1 DEF Kept, StepOK, Fresh
<1>3. PathInv /\ [Next]_vars => [Sid]_vars
  BY <1>2
<1>4. PathInv /\ [Next]_vars => [Nonce]_vars
  BY <1>2
<1>5. Spec => []Same
  BY <1>1, PathInvariant, PTL
<1>6. Spec => [][Sid]_vars
  BY <1>3, PathInvariant, PTL DEF Spec
<1>7. Spec => [][Nonce]_vars
  BY <1>4, PathInvariant, PTL DEF Spec
<1>8. Spec => SessionIdFixed
  BY <1>5, <1>6, PTL DEF SessionIdFixed
<1>9. Spec => NonceFresh
  BY <1>7, PTL DEF NonceFresh
<1> QED BY <1>8, <1>9 DEF KeysKeepMeaning

\* The connection implements ReliableStream: through deferral, key changes and
\* replay, what one side hands to enqueue_payload comes out of the other's
\* poll_event once, in order, and nothing else does.
THEOREM InOrderDelivery ==
  ASSUME Agreed
  PROVE  Spec => DeliversInOrder
<1>1. Init => Stream!Init
  <2> SUFFICES ASSUME Init PROVE Stream!Init
    OBVIOUS
  <2>2. SubSeq(<<>>, 2, Len(<<>>)) = <<>>
    BY SubSeqEmpty
  <2>3. Surfaced = [r \in Role |-> <<>>]
    BY <2>2 DEF Surfaced, Init
  <2> QED BY <2>3 DEF Init, Stream!Init
<1>2. PathInv /\ PathInv' /\ [Next]_vars => [Stream!Next]_<<sent, Surfaced>>
  BY StreamStep
<1> QED BY <1>1, <1>2, PathInvariant, PTL DEF Spec, DeliversInOrder, Stream!Spec

=============================================================================
