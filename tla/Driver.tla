------------------------------- MODULE Driver -------------------------------
(***************************************************************************)
(* One side of a transport: the SSH packet codec of                        *)
(* hazmat/transport/packet.rs, the re-key scheduler of                     *)
(* hazmat/transport/rekey.rs that reads its counters, the key-exchange     *)
(* state machine of hazmat/transport/runner.rs that changes its keys, and  *)
(* the sans-IO drivers of driver/client.rs and driver/server.rs.           *)
(***************************************************************************)
EXTENDS Integers, Sequences

CONSTANTS
    Compression,   \* the compression both sides negotiate
    SeqMod,        \* the range of the sequence numbers (2^32 in the code)
    MaxSeq,        \* RekeyPolicy.max_seq: packets per key before a re-key
    Gex,           \* the negotiated method is a group exchange
    StrictKex,     \* both sides advertise the strict-kex marker
    MaxDeferredOut,  \* MAX_DEFERRED_OUT_BYTES, counted in payloads
    MaxDeferredIn,   \* MAX_DEFERRED_IN_BYTES, counted in packets
    TimeLimit        \* when the key's age may reach max_duration

ASSUME CompressionAssumption == Compression \in {"none", "zlib", "delayed"}
ASSUME SeqModAssumption == SeqMod \in Nat \ {0}
ASSUME MaxSeqAssumption == MaxSeq \in Nat \ {0}
ASSUME GexAssumption == Gex \in BOOLEAN
ASSUME StrictKexAssumption == StrictKex \in BOOLEAN
ASSUME MaxDeferredAssumption == MaxDeferredOut \in Nat /\ MaxDeferredIn \in Nat
ASSUME TimeLimitAssumption == TimeLimit \subseteq {"preauth", "postauth"}

---------------------------------------------------------------------------
(***************************************************************************)
(* The operators are the methods of PacketCodec, as functions on a codec c *)
(* with                                                                    *)
(*   outKey, inKey    the cipher slots: which exchange's keys are installed *)
(*   seqOut, seqIn    the packet sequence numbers (u32, wrapping)          *)
(*   baseOut, baseIn  the sequence numbers at the last key change          *)
(*   zOut, zIn        the compressor and the decompressor                  *)
(* A key is named by the exchange hash it was derived from, and an exchange *)
(* hash by the pair of KEXINITs it covers.                                 *)
(***************************************************************************)

\* The cleartext slot: no exchange has been completed.
NoKey == <<0, 0>>

NewCodec == [outKey |-> NoKey, inKey |-> NoKey, seqOut |-> 0, seqIn |-> 0,
             baseOut |-> 0, baseIn |-> 0, zOut |-> "none", zIn |-> "none"]

\* encode, for a run of payloads: each is framed under the outbound key with
\* the next sequence number, and deflated when the compressor is running.
Encode(c, ms) ==
    [i \in 1..Len(ms) |-> [t |-> ms[i].t, body |-> ms[i].body, key |-> c.outKey,
                           seq |-> (c.seqOut + i - 1) % SeqMod, z |-> c.zOut = "on"]]

Encoded(c, ms) == [c EXCEPT !.seqOut = (@ + Len(ms)) % SeqMod]

\* decode: a frame under other keys, or with another sequence number, does not
\* authenticate (a cleartext frame has no MAC and so is never checked); an
\* active decompressor rejects what was not deflated.
Decodes(c, f) == /\ f.key = c.inKey
                 /\ f.key = NoKey \/ f.seq = c.seqIn
                 /\ c.zIn = "on" => f.z

\* What an inactive decompressor makes of a deflated payload: bytes that are
\* handed on as if they were the payload.
Garbage == [t |-> "GARBAGE", body |-> NoKey]

Payload(c, f) == IF f.z /\ c.zIn # "on" THEN Garbage ELSE [t |-> f.t, body |-> f.body]

\* Mutant of Decoded: the inbound number does not wrap.
DecodedNoWrap(c) == [c EXCEPT !.seqIn = @ + 1]

Decoded(c) == [c EXCEPT !.seqIn = (@ + 1) % SeqMod]

\* install_outbound_compress / install_inbound_decompress: a fresh stream;
\* "zlib" runs at once, "zlib@openssh.com" (delayed) only when the stream it
\* replaces was already running.
InstallCompress(old) == IF Compression = "none" THEN "none"
                        ELSE IF Compression = "zlib" \/ old = "on" THEN "on"
                        ELSE "delayed"

\* activate_compress: no effect on the "none" and "zlib" streams.
Activated(z) == IF z = "delayed" THEN "on" ELSE z
ActivateCompress(c) == [c EXCEPT !.zOut = Activated(@), !.zIn = Activated(@)]

\* Mutant of InstallKeys: the outbound slot keeps its keys.
InstallKeysInboundOnly(c, k) ==
    [c EXCEPT !.inKey = k, !.zOut = InstallCompress(@), !.zIn = InstallCompress(@)]

\* install_outbound, install_inbound and the compression of both directions.
InstallKeys(c, k) ==
    [c EXCEPT !.outKey = k, !.inKey = k,
              !.zOut = InstallCompress(@), !.zIn = InstallCompress(@)]

\* Mutant of ResetSequenceNumbers: the inbound number is forgotten.
ResetSequenceNumbersOutOnly(c) == [c EXCEPT !.seqOut = 0]

ResetSequenceNumbers(c) == [c EXCEPT !.seqIn = 0, !.seqOut = 0]

ResetRekeyEpoch(c) == [c EXCEPT !.baseIn = c.seqIn, !.baseOut = c.seqOut]

\* RekeyPolicy::seq_exceeded, on wrapping differences.
SeqExceeded(c) == \/ (c.seqIn - c.baseIn) % SeqMod >= MaxSeq
                  \/ (c.seqOut - c.baseOut) % SeqMod >= MaxSeq

\* is_kex_msg: 20, 21 and 30-49.
KexMsg == {"KEXINIT", "NEWKEYS", "KEX_INIT", "KEX_REPLY", "GEX_REQUEST", "GEX_GROUP",
           "GEX_INIT", "GEX_REPLY"}
IsKexMsg(t) == t \in KexMsg

\* may_send_during_kex: messages 1-49, of which the code sends these.
MaySendDuringKex(t) ==
    t \in KexMsg \cup {"DISCONNECT", "SERVICE_REQUEST", "SERVICE_ACCEPT", "EXT_INFO"}

---------------------------------------------------------------------------
(***************************************************************************)
(* The operators are the methods of KexRunner, on a runner k and the codec *)
(* c it is given; like the methods they return a KexAdvance, which here    *)
(* also carries the new runner and codec, and the error if there is one.   *)
(*   phase        Phase                                                    *)
(*   advert       which KEXINIT of ours is current (its cookie): 0 before  *)
(*                start, 1 for the first exchange, 2 for the first re-key  *)
(*   peerAdvert   the peer's KEXINIT, 0 until it arrives                   *)
(*   h, sid       current_h and session_id, NoKey when unset               *)
(*   flags        those that are true of sent_newkeys, peer_newkeys,       *)
(*                strict_kex, ext_info_enabled, ext_info_send,             *)
(*                outbound_ext_info (set), accept_ext_info_now             *)
(* first_kex is advert = 1: restart both clears it and makes a new advert. *)
(* A driver never sets first_kex_packet_follows, so between two drivers no *)
(* guess is ever discarded.                                                *)
(***************************************************************************)

KexPhases == {"Idle", "SentKexInit", "Negotiated", "GexClientAwaitGroup",
              "GexClientAwaitReply", "GexServerAwaitInit",
              "AwaitingPeerNewKeys", "Completed"}
Flags == {"sent_newkeys", "peer_newkeys", "strict_kex", "ext_info_enabled",
          "ext_info_send", "outbound_ext_info", "accept_ext_info_now"}

NewRunner == [phase |-> "Idle", advert |-> 0, peerAdvert |-> 0,
              h |-> NoKey, sid |-> NoKey, flags |-> {}]

Msg(t) == [t |-> t, body |-> NoKey]
KexInit(n) == [t |-> "KEXINIT", body |-> <<n, n>>]

IsKexing(k) == k.phase \notin {"Idle", "Completed"}
AwaitingPeerKexinit(k) == k.phase = "SentKexInit"
FirstKex(k) == k.advert = 1

Advance(k, c, out) == [k |-> k, c |-> c, out |-> out, err |-> "none"]
Refuse(k, c, why) == [k |-> k, c |-> c, out |-> <<>>, err |-> why]

\* start: our first KEXINIT.  The driver gave the runner the ext-info marker
\* and an EXT_INFO to send.
StartKex(k, c) ==
    Advance([k EXCEPT !.phase = "SentKexInit", !.advert = 1, !.flags = {"outbound_ext_info"}],
            c, <<KexInit(1)>>)

\* restart: a re-key begins with a clean slate, but for the session id and
\* strict-kex.
Restart(k, c) ==
    IF k.phase # "Completed"
    THEN Refuse(k, c, "restart from non-Completed")
    ELSE Advance([k EXCEPT !.phase = "SentKexInit", !.advert = @ + 1, !.peerAdvert = 0,
                           !.h = NoKey, !.flags = @ \cap {"strict_kex"}],
                 c, <<KexInit(k.advert + 1)>>)

\* Mutant of MaybeInstall: the epoch's base is taken before the numbers restart.
MaybeInstallEpochFirst(k, c) ==
    IF ~({"sent_newkeys", "peer_newkeys"} \subseteq k.flags)
    THEN c
    ELSE LET i == ResetRekeyEpoch(InstallKeys(c, k.h))
         IN  IF "strict_kex" \in k.flags THEN ResetSequenceNumbers(i) ELSE i

\* maybe_install: both directions change keys when both NEWKEYS are through.
MaybeInstall(k, c) ==
    IF ~({"sent_newkeys", "peer_newkeys"} \subseteq k.flags)
    THEN c
    ELSE LET i == InstallKeys(c, k.h)
         IN  ResetRekeyEpoch(IF "strict_kex" \in k.flags THEN ResetSequenceNumbers(i) ELSE i)

\* Mutant of FinishExchange: every exchange sets the session id.
FinishExchangeNewSessionId(k, c, h, out) ==
    LET x == [k EXCEPT !.h = h, !.sid = h, !.flags = @ \cup {"sent_newkeys"},
                       !.phase = IF "peer_newkeys" \in k.flags THEN "Completed"
                                 ELSE "AwaitingPeerNewKeys"]
    IN  Advance(x, MaybeInstall(x, c), out)

\* The end of handle_kex_init_message, handle_kex_reply_message,
\* handle_gex_init and handle_gex_reply, with advance_after_send_newkeys: the
\* exchange hash is known, the session id is the first one, and out (NEWKEYS
\* last) is sent.
FinishExchange(k, c, h, out) ==
    LET x == [k EXCEPT !.h = h, !.sid = IF @ = NoKey THEN h ELSE @,
                       !.flags = @ \cup {"sent_newkeys"},
                       !.phase = IF "peer_newkeys" \in k.flags THEN "Completed"
                                 ELSE "AwaitingPeerNewKeys"]
    IN  Advance(x, MaybeInstall(x, c), out)

\* handle_kex_init_message and handle_gex_init: the server signs its own view
\* of the exchange hash.
ServerReply(k, c, reply) ==
    LET h == <<k.peerAdvert, k.advert>>
    IN  FinishExchange(k, c, h, <<[t |-> reply, body |-> h], Msg("NEWKEYS")>>)

\* handle_kex_reply_message and handle_gex_reply: the client checks the
\* signature against its own view of the exchange hash.
ClientFinish(k, c, m) ==
    LET h == <<k.advert, k.peerAdvert>>
    IN  IF m.body # h THEN Refuse(k, c, "signature")
        ELSE FinishExchange(k, c, h, <<Msg("NEWKEYS")>>)

\* The flags handle_peer_kexinit derives from the two adverts.  Only the first
\* KEXINIT of a side carries its ext-info marker.
Negotiate(k, m) ==
    (k.flags \ {"ext_info_enabled", "ext_info_send"})
      \cup (IF StrictKex THEN {"strict_kex"} ELSE {})
      \cup (IF FirstKex(k) THEN {"ext_info_enabled"} ELSE {})
      \cup (IF FirstKex(k) /\ m.body[1] = 1 THEN {"ext_info_send"} ELSE {})

\* handle_peer_kexinit: the two adverts meet, and the client speaks next.
HandlePeerKexinit(r, k, c, m) ==
    LET next(phase) == [k EXCEPT !.phase = phase, !.peerAdvert = m.body[1],
                                 !.flags = Negotiate(k, m)]
    IN  IF StrictKex /\ k.sid = NoKey /\ c.seqIn # 1
        THEN Refuse(k, c, "KEXINIT was not the first packet")
        ELSE IF r = "server" THEN Advance(next("Negotiated"), c, <<>>)
        ELSE IF Gex THEN Advance(next("GexClientAwaitGroup"), c, <<Msg("GEX_REQUEST")>>)
        ELSE Advance(next("Negotiated"), c, <<Msg("KEX_INIT")>>)

\* handle_gex_request and handle_gex_group: one leg each of the longer exchange.
GexLeg(k, c, phase, t) == Advance([k EXCEPT !.phase = phase], c, <<Msg(t)>>)

\* handle_peer_newkeys: the keys change, the peer may send one EXT_INFO, and
\* ours goes out under the new keys.
HandlePeerNewkeys(k, c) ==
    LET f == k.flags \cup {"peer_newkeys"}
        x == [k EXCEPT !.phase = "Completed",
                       !.flags = IF FirstKex(k) /\ "ext_info_enabled" \in f
                                 THEN f \cup {"accept_ext_info_now"} ELSE f]
        y == MaybeInstall(x, c)
    IN  IF FirstKex(k) /\ {"ext_info_send", "outbound_ext_info"} \subseteq f
        THEN Advance([x EXCEPT !.flags = @ \ {"outbound_ext_info"}], y, <<Msg("EXT_INFO")>>)
        ELSE Advance(x, y, <<>>)

\* note_inbound_other, and the end of handle_inbound_ext_info.
CloseExtInfoWindow(k) == [k EXCEPT !.flags = @ \ {"accept_ext_info_now"}]

\* arm_ext_info_post_auth
ArmExtInfoPostAuth(r, k) ==
    IF r = "client" /\ "ext_info_enabled" \in k.flags
    THEN [k EXCEPT !.flags = @ \cup {"accept_ext_info_now"}] ELSE k

\* on_packet: what each message does in each phase; any other pair is a
\* protocol error.  Every message closes the EXT_INFO window.
OnPacket(r, k0, c, m) ==
    LET k == CloseExtInfoWindow(k0)
        in(phase, t) == k.phase = phase /\ m.t = t
    IN  CASE in("SentKexInit", "KEXINIT") -> HandlePeerKexinit(r, k, c, m)
          [] in("Negotiated", "KEX_INIT") /\ r = "server" /\ ~Gex ->
               ServerReply(k, c, "KEX_REPLY")
          [] in("Negotiated", "KEX_REPLY") /\ r = "client" /\ ~Gex -> ClientFinish(k, c, m)
          [] in("Negotiated", "GEX_REQUEST") /\ r = "server" /\ Gex ->
               GexLeg(k, c, "GexServerAwaitInit", "GEX_GROUP")
          [] in("GexClientAwaitGroup", "GEX_GROUP") ->
               GexLeg(k, c, "GexClientAwaitReply", "GEX_INIT")
          [] in("GexServerAwaitInit", "GEX_INIT") -> ServerReply(k, c, "GEX_REPLY")
          [] in("GexClientAwaitReply", "GEX_REPLY") -> ClientFinish(k, c, m)
          [] in("AwaitingPeerNewKeys", "NEWKEYS") -> HandlePeerNewkeys(k, c)
          [] OTHER -> Refuse(k, c, "unexpected message during KEX")

---------------------------------------------------------------------------
(***************************************************************************)
(* The drivers of driver/client.rs and driver/server.rs: how the two route *)
(* decoded packets and hold traffic back around key exchanges.             *)
(* The two differ in three places (start, the EXT_INFO window, the re-key  *)
(* gate), where the role r decides.  A driver d has                        *)
(*   codec, runner                                                         *)
(*   phase        Phase (AwaitingVersion, Kex, PostKex)                    *)
(*   outbox       the encoded frames the peer has not decoded yet: the     *)
(*                driver's outbox and the byte stream behind it, which     *)
(*                poll_transmit joins into one FIFO                        *)
(*   deferred     application packets received during a re-key             *)
(*   deferredOut  payloads held back during a key exchange                 *)
(*   events       what poll_event will return                              *)
(*   auth         the client's authenticated flag; on the server, that the *)
(*                frontend has installed the configured re-key policy       *)
(*   err          the error a method returned, after which the frontend    *)
(*                drops the connection ("none" until then)                 *)
(***************************************************************************)

NewDriver ==
    [codec |-> NewCodec, runner |-> NewRunner, phase |-> "AwaitingVersion",
     outbox |-> <<>>, deferred |-> <<>>, deferredOut |-> <<>>, events |-> <<>>,
     auth |-> FALSE, err |-> "none"]

Fail(d, why) == [d EXCEPT !.err = why]

\* encode_and_queue, for a run of payloads.
EncodeAndQueue(d, ms) ==
    [d EXCEPT !.outbox = @ \o Encode(d.codec, ms), !.codec = Encoded(d.codec, ms)]

\* What a driver does with a KexAdvance: the runner's output goes out, all of
\* it messages an exchange lets through enqueue_payload.
Apply(d, adv) ==
    IF adv.err # "none" THEN Fail(d, adv.err)
    ELSE EncodeAndQueue([d EXCEPT !.runner = adv.k, !.codec = adv.c], adv.out)

\* Mutant of EnqueuePayload: held back only until the peer's KEXINIT arrives.
EnqueuePayloadEarly(d, m) ==
    IF ~MaySendDuringKex(m.t) /\ AwaitingPeerKexinit(d.runner)
    THEN [d EXCEPT !.deferredOut = Append(@, m)]
    ELSE EncodeAndQueue(d, <<m>>)

\* enqueue_payload: messages from 50 up wait for the end of a key exchange.
EnqueuePayload(d, m) ==
    IF ~MaySendDuringKex(m.t) /\ IsKexing(d.runner)
    THEN IF Len(d.deferredOut) + 1 > MaxDeferredOut
         THEN Fail(d, "deferred egress buffer too large")
         ELSE [d EXCEPT !.deferredOut = Append(@, m)]
    ELSE EncodeAndQueue(d, <<m>>)

\* drain_deferred_out: under the keys just installed, in order.
DrainDeferredOut(d) == EncodeAndQueue([d EXCEPT !.deferredOut = <<>>], d.deferredOut)

\* Mutant of DrainDeferred: what was held back is dropped.
DrainDeferredDrops(d) == [d EXCEPT !.deferred = <<>>]

\* drain_deferred: replayed in arrival order.
DrainDeferred(d) ==
    IF d.deferred = <<>> THEN d
    ELSE [d EXCEPT !.events = @ \o d.deferred, !.deferred = <<>>,
                   !.runner = CloseExtInfoWindow(@)]

\* defer_inbound: appended, up to the cap.
DeferInbound(d, m) ==
    IF Len(d.deferred) + 1 > MaxDeferredIn
    THEN Fail(d, "deferred ingress buffer too large")
    ELSE [d EXCEPT !.deferred = Append(@, m)]

\* initiate_rekey: our KEXINIT goes out.
InitiateRekey(d) == Apply(d, Restart(d.runner, d.codec))

\* The end of an exchange, in route_packet: the first one completes the
\* handshake; then what was held back is released.
ExchangeDone(d) ==
    LET c == IF d.phase # "Kex" THEN d
             ELSE [d EXCEPT !.phase = "PostKex",
                            !.events = Append(@, Msg("HandshakeComplete"))]
    IN  DrainDeferred(DrainDeferredOut(c))

\* route_packet, KEXINIT, NEWKEYS and 30-49: a KEXINIT out of the blue is
\* answered with our own first.
RouteKex(r, d, m) ==
    LET s == IF m.t = "KEXINIT" /\ ~IsKexing(d.runner) THEN InitiateRekey(d) ELSE d
        x == IF s.err # "none" THEN s ELSE Apply(s, OnPacket(r, s.runner, s.codec, m))
    IN  IF x.err = "none" /\ x.runner.phase = "Completed" THEN ExchangeDone(x) ELSE x

\* route_packet, EXT_INFO: throughout authentication for a client that
\* negotiated it, otherwise only in the one-shot window.
RouteExtInfo(r, d) ==
    LET k == IF r = "client" /\ ~d.auth /\ d.phase # "Kex"
             THEN ArmExtInfoPostAuth(r, d.runner) ELSE d.runner
    IN  IF "accept_ext_info_now" \in k.flags
        THEN [d EXCEPT !.runner = CloseExtInfoWindow(k)]
        ELSE Fail(d, "unexpected SSH_MSG_EXT_INFO")

\* route_packet, anything for the application: refused before the first keys,
\* held back while the peer may not have seen our KEXINIT, refused after.
RouteOther(d, m) ==
    IF d.phase = "Kex" THEN Fail(d, "non-KEX message before first NEWKEYS")
    ELSE IF ~IsKexing(d.runner)
    THEN [d EXCEPT !.runner = CloseExtInfoWindow(@), !.events = Append(@, m)]
    ELSE IF AwaitingPeerKexinit(d.runner) THEN DeferInbound(d, m)
    ELSE Fail(d, "non-KEX message during key re-exchange")

\* route_packet, PING and PONG: during the first exchange they are fatal under
\* strict-kex and dropped otherwise; later a PING is answered.
RoutePing(d, m) ==
    IF d.phase = "Kex"
    THEN IF "strict_kex" \in d.runner.flags
         THEN Fail(d, "unexpected message during initial key exchange") ELSE d
    ELSE IF m.t = "PING" THEN EnqueuePayload(d, Msg("PONG")) ELSE d

RoutePacket(r, d, m) ==
    CASE m.t = "DISCONNECT" -> Fail(d, "disconnected")
      [] m.t \in {"PING", "PONG"} -> RoutePing(d, m)
      [] m.t = "EXT_INFO" -> RouteExtInfo(r, d)
      [] IsKexMsg(m.t) -> RouteKex(r, d, m)
      [] OTHER -> RouteOther(d, m)

\* scan_peer_version: the identification line starts the exchange; a server
\* sends its own KEXINIT only now (start_kex).
ScanPeerVersion(r, d) ==
    LET v == [d EXCEPT !.phase = "Kex"]
    IN  IF r = "server" THEN Apply(v, StartKex(v.runner, v.codec)) ELSE v

\* handle_input, for the next item of the inbound stream.
HandleInputItem(r, d, f) ==
    IF d.phase = "AwaitingVersion" THEN ScanPeerVersion(r, d)
    ELSE IF Decodes(d.codec, f)
    THEN RoutePacket(r, [d EXCEPT !.codec = Decoded(@)], Payload(d.codec, f))
    ELSE Fail(d, "decode")

\* start: the identification line, and for a client its KEXINIT.
Version == [t |-> "VERSION", body |-> NoKey, key |-> NoKey, seq |-> 0, z |-> FALSE]
StartDriver(r, d) ==
    LET v == [d EXCEPT !.outbox = Append(@, Version)]
    IN  IF r = "client" THEN Apply(v, StartKex(v.runner, v.codec)) ELSE v

\* should_rekey, as handle_timeout consults it: volume limits are those of the
\* configured policy, in force once authenticated; before that a server has
\* the default policy, of which only the age limit can be reached.
ShouldRekey(r, d) ==
    IF d.auth THEN SeqExceeded(d.codec) \/ "postauth" \in TimeLimit
              ELSE r = "server" /\ "preauth" \in TimeLimit

\* handle_timeout re-keys outside an exchange and after the first one.
RekeyDue(r, d) == ~IsKexing(d.runner) /\ d.phase = "PostKex" /\ ShouldRekey(r, d)

\* notify_auth_success, and on a server set_rekey_policy after it.
NotifyAuthSuccess(r, d) ==
    [d EXCEPT !.codec = ActivateCompress(@), !.auth = TRUE,
              !.runner = ArmExtInfoPostAuth(r, @)]
=============================================================================
