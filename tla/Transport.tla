----------------------------- MODULE Transport -----------------------------
(***************************************************************************)
(* An SSH connection between a puressh client and a puressh server: two    *)
(* drivers (Driver) over a reliable byte stream, each pumped by a frontend *)
(* (client.rs, server.rs and the async ones) that authenticates and then   *)
(* exchanges connection-protocol payloads.                                 *)
(*                                                                         *)
(* One HandleInput step decodes one packet.  A frontend reads a chunk that *)
(* may hold several packets and polls the events only when all of them are *)
(* decoded, and it reads again only when it has polled every event:        *)
(* batch[r] is true while a chunk is being decoded.                        *)
(***************************************************************************)
EXTENDS Driver

CONSTANTS
    MaxKex,      \* bound: key exchanges a timer or user may bring about
    MaxSent,     \* bound: payloads each side submits (two authenticate)
    MaxPings,    \* bound: PINGs the client sends
    UserRekeys,  \* the user of the client may ask for re-keys
    Disconnects  \* the server may close the session

ASSUME BoundsAssumption == /\ MaxKex \in Nat /\ MaxSent \in Nat /\ MaxPings \in Nat
                           /\ Disconnects \in BOOLEAN /\ UserRekeys \in BOOLEAN

VARIABLES
    drv,    \* the two drivers
    fe,     \* how far each frontend is
    batch,  \* whether each frontend is inside a chunk it has read
    pings,  \* the PINGs sent
    sent,   \* history: the payloads each side handed to enqueue_payload
    got     \* history: the events each side's driver surfaced

vars == <<drv, fe, batch, pings, sent, got>>

Role == {"client", "server"}
Peer(r) == IF r = "client" THEN "server" ELSE "client"

Init == /\ drv = [r \in Role |-> NewDriver]
        /\ fe = [r \in Role |-> "new"]
        /\ batch = [r \in Role |-> FALSE]
        /\ pings = 0
        /\ sent = [r \in Role |-> <<>>]
        /\ got = [r \in Role |-> <<>>]

\* The events x has that d did not.
NewEvents(d, x) == SubSeq(x.events, Len(d.events) + 1, Len(x.events))

Live(r) == drv[r].err = "none" /\ fe[r] # "closed"

---------------------------------------------------------------------------
(* The frontends.                                                          *)

\* Client::handshake / handle_connection: start the driver.
Start(r) ==
    /\ fe[r] = "new"
    /\ drv' = [drv EXCEPT ![r] = StartDriver(r, @)]
    /\ fe' = [fe EXCEPT ![r] = "handshake"]
    /\ UNCHANGED <<batch, pings, sent, got>>

\* The first frame of d's outbox (poll_transmit, then the socket) arrives.
Delivered(d) == [d EXCEPT !.outbox = Tail(@)]

\* read_into_driver / srv_read_into: the next packet of the stream.
HandleInput(r) ==
    /\ Live(r) /\ fe[r] # "new"
    /\ batch[r] \/ drv[r].events = <<>>
    /\ drv[Peer(r)].outbox # <<>>
    /\ \E x \in {HandleInputItem(r, drv[r], Head(drv[Peer(r)].outbox))} :
          /\ drv' = [drv EXCEPT ![r] = x, ![Peer(r)] = Delivered(@)]
          /\ batch' = [batch EXCEPT ![r] = x.events # <<>>]
          /\ got' = [got EXCEPT ![r] = @ \o NewEvents(drv[r], x)]
    /\ UNCHANGED <<fe, pings, sent>>

\* A frontend's own step: it leaves the driver as d, and its chunk is done.
Act(r, d) == /\ drv' = [drv EXCEPT ![r] = d]
             /\ batch' = [batch EXCEPT ![r] = FALSE]

\* ... in which it hands m to the driver.
Submit(r, d, m) == /\ Act(r, EnqueuePayload(d, m))
                   /\ sent' = [sent EXCEPT ![r] = Append(@, m)]

\* poll_event returns an event of type t.
Polls(r, t) == Live(r) /\ drv[r].events # <<>> /\ Head(drv[r].events).t = t
Popped(r) == [drv[r] EXCEPT !.events = Tail(@)]

\* drive_handshake returns; the client goes on to ask for userauth.
PollHandshakeComplete(r) ==
    /\ Polls(r, "HandshakeComplete")
    /\ fe' = [fe EXCEPT ![r] = "auth"]
    /\ \/ r = "client" /\ Submit(r, Popped(r), Msg("SERVICE_REQUEST"))
       \/ r = "server" /\ Act(r, Popped(r)) /\ UNCHANGED sent
    /\ UNCHANGED <<pings, got>>

\* run_auth and do_server_auth: the answers before the decision.
PollAuth(r) ==
    /\ fe[r] = "auth"
    /\ \/ /\ r = "server" /\ Polls(r, "SERVICE_REQUEST")
          /\ Submit(r, Popped(r), Msg("SERVICE_ACCEPT"))
       \/ /\ r = "client" /\ Polls(r, "SERVICE_ACCEPT")
          /\ Submit(r, Popped(r), Msg("USERAUTH_REQUEST"))
    /\ UNCHANGED <<fe, pings, got>>

\* do_server_auth sends USERAUTH_SUCCESS and returns; handle_connection then
\* calls notify_auth_success and set_rekey_policy.
ServerAuthenticates ==
    /\ fe["server"] = "auth" /\ Polls("server", "USERAUTH_REQUEST")
    /\ LET m == Msg("USERAUTH_SUCCESS")
       IN  /\ Act("server", NotifyAuthSuccess("server", EnqueuePayload(Popped("server"), m)))
           /\ sent' = [sent EXCEPT !["server"] = Append(@, m)]
    /\ fe' = [fe EXCEPT !["server"] = "open"]
    /\ UNCHANGED <<pings, got>>

\* run_auth, ClientStep::Success
ClientAuthenticated ==
    /\ fe["client"] = "auth" /\ Polls("client", "USERAUTH_SUCCESS")
    /\ Act("client", NotifyAuthSuccess("client", Popped("client")))
    /\ fe' = [fe EXCEPT !["client"] = "open"]
    /\ UNCHANGED <<pings, sent, got>>

\* A connection-protocol payload, or one that is not a message at all.
PollApp(r) ==
    /\ fe[r] = "open" /\ Live(r) /\ drv[r].events # <<>>
    /\ Act(r, IF Polls(r, "APP") THEN Popped(r) ELSE Fail(Popped(r), "unknown message"))
    /\ UNCHANGED <<fe, pings, sent, got>>

\* write_payload / srv_send of a connection-protocol payload.
SendApp(r) ==
    /\ fe[r] = "open" /\ Live(r) /\ Len(sent[r]) < MaxSent
    /\ Submit(r, drv[r], [t |-> "APP", body |-> <<Len(sent[r]), Len(sent[r])>>])
    /\ UNCHANGED <<fe, pings, got>>

\* The client's PING (an answer is due from the server's driver).
SendPing ==
    /\ fe["client"] = "open" /\ Live("client") /\ pings < MaxPings
    /\ Act("client", EnqueuePayload(drv["client"], Msg("PING")))
    /\ pings' = pings + 1
    /\ UNCHANGED <<fe, sent, got>>

\* handle_timeout, when it re-keys.
Tick(r) ==
    /\ Live(r) /\ RekeyDue(r, drv[r]) /\ drv[r].runner.advert < MaxKex
    /\ Act(r, InitiateRekey(drv[r]))
    /\ UNCHANGED <<fe, pings, sent, got>>

\* request_rekey (the ~R escape).
RequestRekey ==
    /\ UserRekeys /\ fe["client"] = "open" /\ Live("client")
    /\ drv["client"].runner.phase = "Completed" /\ drv["client"].runner.advert < MaxKex
    /\ Act("client", InitiateRekey(drv["client"]))
    /\ UNCHANGED <<fe, pings, sent, got>>

\* The end of handle_connection: srv_send_disconnect, then the socket closes.
Disconnect ==
    /\ Disconnects /\ fe["server"] = "open" /\ Live("server")
    /\ Act("server", EnqueuePayload(drv["server"], Msg("DISCONNECT")))
    /\ fe' = [fe EXCEPT !["server"] = "closed"]
    /\ UNCHANGED <<pings, sent, got>>

Poll(r) == PollHandshakeComplete(r) \/ PollAuth(r) \/ PollApp(r)

Next == \/ \E r \in Role : Start(r) \/ HandleInput(r) \/ Poll(r) \/ SendApp(r) \/ Tick(r)
        \/ ServerAuthenticates \/ ClientAuthenticated
        \/ SendPing \/ RequestRekey \/ Disconnect

Spec == Init /\ [][Next]_vars

---------------------------------------------------------------------------
(* Properties.                                                             *)

MsgTypes == {"DISCONNECT", "SERVICE_REQUEST", "SERVICE_ACCEPT", "EXT_INFO", "KEXINIT",
             "NEWKEYS", "KEX_INIT", "KEX_REPLY", "GEX_REQUEST", "GEX_GROUP", "GEX_INIT",
             "GEX_REPLY", "USERAUTH_REQUEST", "USERAUTH_SUCCESS", "APP", "PING", "PONG",
             "GARBAGE", "HandshakeComplete", "VERSION"}
Key == Nat \X Nat
SeqNum == 0..(SeqMod - 1)
Message == [t : MsgTypes, body : Key]
WireFrame == [t : MsgTypes, body : Key, key : Key, seq : SeqNum, z : BOOLEAN]
ZState == {"none", "delayed", "on"}
Codec == [outKey : Key, inKey : Key, seqOut : SeqNum, seqIn : SeqNum,
          baseOut : SeqNum, baseIn : SeqNum, zOut : ZState, zIn : ZState]
Runner == [phase : KexPhases, advert : Nat, peerAdvert : Nat, h : Key, sid : Key,
           flags : SUBSET Flags]
Errors == {"none", "KEXINIT was not the first packet", "decode",
           "deferred egress buffer too large", "deferred ingress buffer too large",
           "disconnected", "non-KEX message before first NEWKEYS",
           "non-KEX message during key re-exchange", "restart from non-Completed",
           "signature", "unexpected SSH_MSG_EXT_INFO", "unexpected message during KEX",
           "unexpected message during initial key exchange", "unknown message"}
DriverState ==
    [codec : Codec, runner : Runner, phase : {"AwaitingVersion", "Kex", "PostKex"},
     outbox : Seq(WireFrame), deferred : Seq(Message), deferredOut : Seq(Message),
     events : Seq(Message), auth : BOOLEAN, err : Errors]

\* Every part of the state keeps its type.
TypeOK == /\ drv \in [Role -> DriverState]
          /\ fe \in [Role -> {"new", "handshake", "auth", "open", "closed"}]
          /\ batch \in [Role -> BOOLEAN]
          /\ pings \in Nat
          /\ sent \in [Role -> Seq(Message)]
          /\ got \in [Role -> Seq(Message)]

\* Two puressh endpoints never make each other fail: whatever the interleaving
\* of re-keys started by either side, or by both at once, with traffic in
\* flight, every frame decodes under the keys and the sequence number its
\* receiver has reached, and every message arrives in a phase that accepts it
\* (the error paths of decode, on_packet and route_packet are not reached).  What
\* is left is a deferral queue at its cap and, for a client, a server that has
\* disconnected.
NoProtocolError ==
    \A r \in Role :
        \/ drv[r].err = "none"
        \/ /\ drv[r].err = "deferred egress buffer too large"
           /\ Len(drv[r].deferredOut) + 1 > MaxDeferredOut
        \/ /\ drv[r].err = "deferred ingress buffer too large"
           /\ Len(drv[r].deferred) + 1 > MaxDeferredIn
        \/ drv[r].err \in {"disconnected", "decode"} /\ fe[Peer(r)] = "closed"

\* Payloads submitted to enqueue_payload are surfaced by the peer's driver in
\* order, once each, and nothing else is, across the deferral and replay of
\* both directions around key exchanges: the connection implements
\* ReliableStream.  The first event of all, and only that one, is the handshake's.
Payloads == {Msg(t) : t \in {"SERVICE_REQUEST", "SERVICE_ACCEPT", "USERAUTH_REQUEST",
                              "USERAUTH_SUCCESS"}}
            \cup {[t |-> "APP", body |-> <<n, n>>] : n \in 1..MaxSent}
Surfaced == [r \in Role |-> SubSeq(got[r], 2, Len(got[r]))]
Stream == INSTANCE ReliableStream
              WITH got <- Surfaced, Side <- Role, Other <- Peer, Item <- Payloads
DeliversInOrder == Stream!Spec

\* No frame of o that an exchange does not allow comes after a KEXINIT
\* without a NEWKEYS in between.
QuietStream(o) ==
    \A i, j \in DOMAIN o :
        i < j /\ o[i].t = "KEXINIT" /\ ~MaySendDuringKex(o[j].t)
        => \E n \in i..j : o[n].t = "NEWKEYS"

\* RFC 4253 section 7.1, the reason enqueue_payload defers: in each direction,
\* between a KEXINIT and the NEWKEYS that ends its exchange only messages the
\* exchange allows are on the wire, and nothing stays deferred once no
\* exchange is running.
QuietDuringKex ==
    \A r \in Role :
        /\ QuietStream(drv[r].outbox)
        /\ drv[r].deferredOut # <<>> \/ drv[r].deferred # <<>> => IsKexing(drv[r].runner)

\* What follows a NEWKEYS is encoded under other keys than it: "the *new* keys,
\* which is what the peer expects after NEWKEYS" (ClientDriver::deferred_out).
\* A DISCONNECT does not wait for them.
NewKeysAfterNewkeys ==
    \A r \in Role : \A i, j \in DOMAIN drv[r].outbox :
        i < j /\ drv[r].outbox[i].t = "NEWKEYS" /\ drv[r].outbox[j].t # "DISCONNECT"
        => drv[r].outbox[j].key # drv[r].outbox[i].key

\* The session id is the hash of the first exchange: it is set once, both ends
\* hold the same one, and no re-key changes it (session_id in FinishExchange
\* and restart), although the user-authentication signatures computed from it
\* may be in flight at any time.
SessionIdFixed ==
    /\ [][\A r \in Role : drv[r].runner.sid # NoKey => drv'[r].runner.sid = drv[r].runner.sid]_vars
    /\ [](\A r \in Role : drv[r].phase = "PostKex" => /\ drv[r].runner.sid # NoKey
                                                      /\ drv[Peer(r)].runner.sid = drv[r].runner.sid)

\* No sequence number is used twice under a key: while a key is in use the
\* outbound number only moves on by the frames encoded, and a new key is newer
\* on both sides' adverts (reset_sequence_numbers only comes with new keys).
NonceFresh ==
    [][\A r \in Role :
          \/ /\ drv'[r].codec.outKey = drv[r].codec.outKey
             /\ \/ drv'[r].codec.seqOut = drv[r].codec.seqOut
                \/ \E n \in 1..Len(drv'[r].outbox) :
                      /\ drv'[r].codec.seqOut = (drv[r].codec.seqOut + n) % SeqMod
                      /\ drv'[r].outbox[Len(drv'[r].outbox) - n + 1].seq = drv[r].codec.seqOut
          \/ /\ drv'[r].codec.outKey[1] > drv[r].codec.outKey[1]
             /\ drv'[r].codec.outKey[2] > drv[r].codec.outKey[2]]_vars

\* Both: what a key and what the session id stand for never changes under those who hold them.
KeysKeepMeaning == SessionIdFixed /\ NonceFresh

\* A packet that was deflated is inflated: the client's driver is told of the
\* authentication "before the next packet is read" (notify_auth_success), so
\* that zlib@openssh.com starts on both sides between the same two packets.
DelayedCompressionInStep ==
    \A r \in Role : \A i \in DOMAIN got[r] : got[r][i].t # "GARBAGE"
=============================================================================
