------------------------------ MODULE Channels ------------------------------
(***************************************************************************)
(* The connection protocol between a puressh client and a puressh server:  *)
(* two ConnectionStates over the ordered, reliable streams the transport   *)
(* gives them, each driven by a frontend.  "s" is the serve loop of        *)
(* server.rs (do_connection_loop, dispatch_app_packet and the per-tick     *)
(* drains), "c" the blocking client (exec and the stream helpers of        *)
(* client.rs), its serve loop, or SharedClient, whatever their order of    *)
(* calls has in common.                                                    *)
(*                                                                         *)
(* The client opens sessions and starts a program on them, the server      *)
(* opens forwarded connections.  app[p][id] is what p's frontend keeps of  *)
(* the channel id: the bytes it was given and has not consumed, and its    *)
(* stage: "opening", "idle" (no program yet), "asked" (the client waits    *)
(* for the answer to its exec, shell or subsystem request), "denied" (the  *)
(* client has returned that answer as an error and forgotten the channel)  *)
(* or "running".                                                           *)
(***************************************************************************)
EXTENDS Integers, FiniteSets, Sequences

CONSTANTS
    IdMod,       \* local channel ids are taken modulo this (2^32 in the code)
    Window,      \* default_window
    MaxPacket,   \* default_max_packet
    MaxChannels, \* max_channels
    MaxOpens,       \* bound: channels opened
    ClientBytes,    \* bound: bytes and window changes the client has to send
    ServerBytes,    \* bound: bytes the server has to send
    MaxWrite,       \* bound: bytes of one write
    MaxInFlight,    \* bound: messages a side queues before the other reads
    Forwards,       \* the server opens channels, too
    Extended,       \* the programs write to stderr, the tunnels datagrams
    ChannelTimeout  \* the server closes idle channels

ASSUME BoundsAssumption ==
    /\ MaxOpens \in Nat /\ ClientBytes \in Nat /\ ServerBytes \in Nat
    /\ MaxWrite \in Nat /\ MaxInFlight \in Nat
    /\ Forwards \in BOOLEAN /\ Extended \in BOOLEAN /\ ChannelTimeout \in BOOLEAN
ASSUME IdAssumption == IdMod \in Nat \ {0}
ASSUME WindowAssumption == Window \in Nat /\ MaxPacket \in Nat
ASSUME MaxChannelsAssumption == MaxChannels \in Nat

---------------------------------------------------------------------------
(***************************************************************************)
(* ConnectionState, the channel multiplexer of hazmat/channel/state.rs:    *)
(* what its methods do to a ConnectionState c, which has                   *)
(*   channels       the tracked channels, a function of their local ids    *)
(*   next_local_id  where allocate_local_id starts looking                 *)
(* Of a ChannelState only what the methods look at is kept; the two pairs  *)
(* of flags local_eof/remote_eof and local_closed/remote_closed are the    *)
(* sets eof and closed of the sides that have sent EOF and CLOSE.  Bytes   *)
(* are counted, not kept.  A method that returns Err leaves c as it is.    *)
(*                                                                         *)
(* tag is a ghost: it names the open a channel came from, and a message    *)
(* carries the tag of the channel it was sent on.                          *)
(***************************************************************************)

Ids == 0 .. IdMod - 1
Sides == {"local", "remote"}

MsgTypes == {"OPEN", "OPEN_CONFIRMATION", "OPEN_FAILURE", "WINDOW_ADJUST", "DATA",
             "EXTENDED_DATA", "EOF", "CLOSE", "REQUEST", "SUCCESS", "FAILURE"}

\* A connection-protocol message: the recipient's channel ch (in an OPEN, and
\* in a confirmation as from, the sender's), a number of bytes n (in an OPEN
\* and a confirmation the window), and whether a request wants a reply.
Message == [t : MsgTypes, ch : Ids, from : Ids, n : Nat, max : Nat,
            want : BOOLEAN, tag : Nat]

Msg(t, x, n) == [t |-> t, ch |-> x.remote_id, from |-> 0, n |-> n, max |-> 0,
                 want |-> FALSE, tag |-> x.tag]

ChannelState ==
    [remote_id : Ids, local_window : Nat, remote_window : Nat,
     remote_max_packet : Nat, pending_replenish : Nat,
     eof : SUBSET Sides, closed : SUBSET Sides,
     open_confirmed : BOOLEAN, initiated_by_us : BOOLEAN, tag : Nat]

NewConnection == [channels |-> <<>>, next_local_id |-> 0]

Tracked(c) == DOMAIN c.channels

IsConnection(c) ==
    /\ c = [channels |-> c.channels, next_local_id |-> c.next_local_id]
    /\ c.channels \in [Tracked(c) -> ChannelState]
    /\ Tracked(c) \subseteq Ids /\ c.next_local_id \in Ids

IsOpen(x) == x.open_confirmed /\ x.closed = {}
EnsureSendable(x) == x.closed = {}

MinOf(a, b) == IF a <= b THEN a ELSE b
MaxOf(a, b) == IF a >= b THEN a ELSE b

---------------------------------------------------------------------------
Remove(c, id) ==
    [c EXCEPT !.channels = [i \in Tracked(c) \ {id} |-> c.channels[i]]]

\* How far id is from next_local_id, on the way allocate_local_id goes.
Distance(c, id) == (id - c.next_local_id) % IdMod

\* Mutant of FreeId: the first id on the way, tracked or not.
FreeIdUsed(c, id) == Distance(c, id) = 0

\* allocate_local_id returns the first free id from next_local_id on ...
FreeId(c, id) ==
    /\ id \in Ids \ Tracked(c)
    /\ \A i \in Ids \ Tracked(c) : Distance(c, id) <= Distance(c, i)

\* ... and leaves next_local_id behind it; x is inserted there.
Allocate(c, id, x) ==
    [c EXCEPT !.channels = [i \in Tracked(c) \cup {id} |-> IF i = id THEN x ELSE c.channels[i]],
              !.next_local_id = (id + 1) % IdMod]

FreshChannel(remote, window, max, ours, tag) ==
    [remote_id |-> remote, local_window |-> Window, remote_window |-> window,
     remote_max_packet |-> max, pending_replenish |-> 0, eof |-> {}, closed |-> {},
     open_confirmed |-> FALSE, initiated_by_us |-> ours, tag |-> tag]

---------------------------------------------------------------------------
(* Sending.  Each method is its guard and its effects: the new state and   *)
(* the message it returns.                                                 *)

OpenState(c, id, tag) == Allocate(c, id, FreshChannel(0, 0, 0, TRUE, tag))
OpenMsg(id, tag) == [t |-> "OPEN", ch |-> 0, from |-> id, n |-> Window,
                     max |-> MaxPacket, want |-> FALSE, tag |-> tag]

AcceptOpen(c, id) == [c EXCEPT !.channels[id].open_confirmed = TRUE]
AcceptMsg(c, id) ==
    [Msg("OPEN_CONFIRMATION", c.channels[id], c.channels[id].local_window)
        EXCEPT !.from = id, !.max = MaxPacket]

\* data_capacity and extended_data_capacity: what a message of one kind may
\* carry, after the header that counts against the peer's maximum packet.
HeaderLen(kind) == IF kind = "DATA" THEN 9 ELSE 13

\* Mutant of Capacity: the window is not looked at.
CapacityPacketOnly(x, kind) == MaxOf(0, x.remote_max_packet - HeaderLen(kind))

Capacity(x, kind) ==
    IF x.remote_max_packet < HeaderLen(kind) THEN 0
    ELSE MinOf(x.remote_max_packet - HeaderLen(kind), x.remote_window)

CanSendData(c, id) ==
    id \in Tracked(c) /\ EnsureSendable(c.channels[id]) /\ "local" \notin c.channels[id].eof

\* send_data / send_extended_data of n bytes take this many.
Taken(c, id, kind, n) == MinOf(n, Capacity(c.channels[id], kind))

\* Mutant of SendData: the window is not charged.
SendDataFree(c, id, take) == c

SendData(c, id, take) == [c EXCEPT !.channels[id].remote_window = @ - take]

\* send_datagram: all of it or nothing.
CanSendDatagram(c, id, n) == CanSendData(c, id) /\ n <= Capacity(c.channels[id], "DATA")

CanSendEof(c, id) == id \in Tracked(c) /\ "local" \notin c.channels[id].closed

\* Mutant of SendEof: local_eof is not set.
SendEofUnrecorded(c, id) == c

SendEof(c, id) == [c EXCEPT !.channels[id].eof = @ \cup {"local"}]

\* send_close drops the entry when both sides have closed.
SendClose(c, id) ==
    IF "remote" \in c.channels[id].closed THEN Remove(c, id)
    ELSE [c EXCEPT !.channels[id].closed = @ \cup {"local"}]

\* Mutant of Threshold: more than the window can ever let through.
ThresholdLate == Window + 1

\* What replenish_window waits for: three packets or half the window.
Threshold == MaxOf(1, MinOf(Window \div 2, 3 * MaxPacket))

\* Whether replenish_window(id, by) flushes a WINDOW_ADJUST.
Replenishes(c, id, by) ==
    /\ id \in Tracked(c) /\ "local" \notin c.channels[id].closed
    /\ by > 0
    /\ c.channels[id].pending_replenish + by >= Threshold

\* Mutant of ReplenishWindow: the counter is not reset by a flush.
ReplenishWindowKeepsPending(c, id, by) ==
    IF Replenishes(c, id, by)
    THEN [c EXCEPT !.channels[id].local_window = @ + c.channels[id].pending_replenish + by]
    ELSE [c EXCEPT !.channels[id].pending_replenish = @ + by]

ReplenishWindow(c, id, by) ==
    IF "local" \in c.channels[id].closed THEN c
    ELSE IF Replenishes(c, id, by)
    THEN [c EXCEPT !.channels[id].pending_replenish = 0,
                   !.channels[id].local_window = @ + c.channels[id].pending_replenish + by]
    ELSE [c EXCEPT !.channels[id].pending_replenish = @ + by]

---------------------------------------------------------------------------
(* Receiving: the error on_packet returns for m, or "none", and the state  *)
(* it leaves when there is none.                                           *)

Errors == {"none", "BadChannelState", "unknown channel", "double open-confirm",
           "not pending our open", "channel not yet open", "data after EOF/close",
           "peer exceeded advertised window", "peer exceeded max packet"}

\* on_channel_data and on_extended_data.
DataError(x, n) ==
    IF ~x.open_confirmed THEN "channel not yet open"
    ELSE IF "remote" \in x.eof \cup x.closed THEN "data after EOF/close"
    ELSE IF n > x.local_window THEN "peer exceeded advertised window"
    ELSE IF n > MaxPacket THEN "peer exceeded max packet"
    ELSE "none"

\* on_open_confirmation and on_open_failure: the answer to our open.
AnswerError(x, t) ==
    IF x.open_confirmed THEN IF t = "OPEN_FAILURE" THEN "not pending our open"
                             ELSE "double open-confirm"
    ELSE IF ~x.initiated_by_us THEN "not pending our open"
    ELSE "none"

Answers == {"OPEN_CONFIRMATION", "OPEN_FAILURE"}

PacketError(c, m) ==
    IF m.t = "OPEN" THEN "none"
    ELSE IF m.ch \notin Tracked(c)
    THEN IF m.t \in Answers THEN "unknown channel" ELSE "BadChannelState"
    ELSE CASE m.t \in Answers -> AnswerError(c.channels[m.ch], m.t)
           [] m.t \in {"DATA", "EXTENDED_DATA"} -> DataError(c.channels[m.ch], m.n)
           [] m.t \in {"EOF", "CLOSE", "REQUEST"} /\ ~c.channels[m.ch].open_confirmed
                -> "channel not yet open"
           [] OTHER -> "none"

\* on_channel_open refuses (OpenRejected) at the limit.
AtLimit(c) == Cardinality(Tracked(c)) >= MaxChannels

\* ... and else tracks the channel at a fresh id.
OnChannelOpen(c, id, m) == Allocate(c, id, FreshChannel(m.from, m.n, m.max, FALSE, m.tag))

OnOpenConfirmation(c, m) ==
    [c EXCEPT !.channels[m.ch].remote_id = m.from, !.channels[m.ch].remote_window = m.n,
              !.channels[m.ch].remote_max_packet = m.max,
              !.channels[m.ch].open_confirmed = TRUE]

\* on_channel_close drops the entry when both sides have closed.
OnChannelClose(c, m) ==
    IF "local" \in c.channels[m.ch].closed THEN Remove(c, m.ch)
    ELSE [c EXCEPT !.channels[m.ch].closed = @ \cup {"remote"}]

\* The rest of on_packet: every message but an OPEN.
OnPacket(c, m) ==
    CASE m.t = "OPEN_CONFIRMATION" -> OnOpenConfirmation(c, m)
      [] m.t = "OPEN_FAILURE" -> Remove(c, m.ch)
      [] m.t = "WINDOW_ADJUST" -> [c EXCEPT !.channels[m.ch].remote_window = @ + m.n]
      [] m.t \in {"DATA", "EXTENDED_DATA"} -> [c EXCEPT !.channels[m.ch].local_window = @ - m.n]
      [] m.t = "EOF" -> [c EXCEPT !.channels[m.ch].eof = @ \cup {"remote"}]
      [] m.t = "CLOSE" -> OnChannelClose(c, m)
      [] OTHER -> c

---------------------------------------------------------------------------
VARIABLES
    conn,   \* the two ConnectionStates
    app,    \* what the two frontends keep of each channel
    wire,   \* the messages on their way to each side
    opens,  \* the opens so far, whose number is the tag
    left,   \* what each side still has to send
    err     \* what on_packet returned when it failed, which ends the connection

vars == <<conn, app, wire, opens, left, err>>

Peers == {"c", "s"}
Other(p) == IF p = "c" THEN "s" ELSE "c"

Stages == {"opening", "idle", "asked", "denied", "running"}

Init == /\ conn = [p \in Peers |-> NewConnection]
        /\ app = [p \in Peers |-> <<>>]
        /\ wire = [p \in Peers |-> <<>>]
        /\ opens = 0
        /\ left = [p \in Peers |-> IF p = "c" THEN ClientBytes ELSE ServerBytes]
        /\ err = "none"

---------------------------------------------------------------------------
Chan(p, id) == conn[p].channels[id]
Live(p, id) == err = "none" /\ id \in Tracked(conn[p])
Stage(p, id) == app[p][id].stage
Room(p) == Len(wire[Other(p)]) < MaxInFlight

\* The frontend forgets a channel its ConnectionState no longer tracks.
Kept(a, c) == [id \in Tracked(c) |-> a[id]]

\* p goes on with c and a, having sent ms.
Update(p, c, a, ms) ==
    /\ conn' = [conn EXCEPT ![p] = c]
    /\ app' = [app EXCEPT ![p] = a]
    /\ wire' = [wire EXCEPT ![Other(p)] = @ \o ms]

Staged(p, id, stage) == [app[p] EXCEPT ![id].stage = stage]

\* The start of a channel, in the frontend.
WithApp(a, id, stage) ==
    [i \in DOMAIN a \cup {id} |-> IF i = id THEN [unread |-> 0, stage |-> stage] ELSE a[i]]

---------------------------------------------------------------------------
(* What the frontends do of their own accord.                              *)

\* open_session / exec / forward.drain_pending and the like.
Open(p) ==
    /\ err = "none" /\ Room(p) /\ opens < MaxOpens
    /\ p = "c" \/ Forwards
    /\ \E id \in Ids :
          /\ FreeId(conn[p], id)
          /\ Update(p, OpenState(conn[p], id, opens), WithApp(app[p], id, "opening"),
                    <<OpenMsg(id, opens)>>)
    /\ opens' = opens + 1
    /\ UNCHANGED <<left, err>>

\* exec, shell or subsystem with want_reply, which the client waits for.
StartRequest(id) ==
    /\ Live("c", id) /\ Room("c")
    /\ Stage("c", id) = "idle" /\ EnsureSendable(Chan("c", id))
    /\ Update("c", conn["c"], Staged("c", id, "asked"),
              <<[Msg("REQUEST", Chan("c", id), 0) EXCEPT !.want = TRUE]>>)
    /\ UNCHANGED <<opens, left, err>>

\* send_window_change, send_break: no reply wanted.
WindowChange(id) ==
    /\ Live("c", id) /\ Room("c") /\ left["c"] > 0
    /\ Stage("c", id) = "running" /\ EnsureSendable(Chan("c", id))
    /\ Update("c", conn["c"], app["c"], <<Msg("REQUEST", Chan("c", id), 0)>>)
    /\ left' = [left EXCEPT !["c"] = @ - 1]
    /\ UNCHANGED <<opens, err>>

\* A running channel sends take bytes of data of one kind.
Ship(p, id, kind, take) ==
    /\ take > 0
    /\ Update(p, SendData(conn[p], id, take), app[p], <<Msg(kind, Chan(p, id), take)>>)
    /\ left' = [left EXCEPT ![p] = @ - take]
    /\ UNCHANGED <<opens, err>>

\* emit_channel_data, emit_subsystem_data and Write: what the window takes.
WriteData(p, id, n) ==
    /\ Live(p, id) /\ Room(p) /\ Stage(p, id) = "running"
    /\ n <= left[p] /\ CanSendData(conn[p], id)
    /\ Ship(p, id, "DATA", Taken(conn[p], id, "DATA", n))

\* emit_subsystem_stderr.
WriteStderr(id, n) ==
    /\ Extended /\ Live("s", id) /\ Room("s") /\ Stage("s", id) = "running"
    /\ n <= left["s"] /\ CanSendData(conn["s"], id)
    /\ Ship("s", id, "EXTENDED_DATA", Taken(conn["s"], id, "EXTENDED_DATA", n))

\* A tunnel's packet: sent whole, or dropped.
WriteDatagram(p, id, n) ==
    /\ Extended /\ Live(p, id) /\ Room(p) /\ Stage(p, id) = "running"
    /\ n <= left[p] /\ CanSendData(conn[p], id)
    /\ IF CanSendDatagram(conn[p], id, n) THEN Ship(p, id, "DATA", n)
       ELSE left' = [left EXCEPT ![p] = @ - n] /\ UNCHANGED <<conn, app, wire, opens, err>>

\* EOF, unless this side has sent it.
EofMsgs(p, id) == IF "local" \in Chan(p, id).eof THEN <<>> ELSE <<Msg("EOF", Chan(p, id), 0)>>

HalfClose(p, id) ==
    /\ Live(p, id) /\ Room(p) /\ Stage(p, id) = "running"
    /\ CanSendEof(conn[p], id) /\ "local" \notin Chan(p, id).eof
    /\ Update(p, SendEof(conn[p], id), app[p], EofMsgs(p, id))
    /\ UNCHANGED <<opens, left, err>>

\* EOF and CLOSE, with before in front of them.
Finish(p, id, before) ==
    LET c == SendClose(SendEof(conn[p], id), id)
    IN  /\ CanSendEof(conn[p], id)
        /\ Update(p, c, Kept(app[p], c),
                  before \o EofMsgs(p, id) \o <<Msg("CLOSE", Chan(p, id), 0)>>)
        /\ UNCHANGED <<opens, left, err>>

\* The stream is dropped (client.rs, shared.rs), or a runtime's handler is
\* done (serve_drain_runtimes, drain_subsystems).
Close(p, id) ==
    /\ Live(p, id) /\ Room(p) /\ Stage(p, id) = "running"
    /\ Finish(p, id, <<>>)

\* finalize_exited_shells: exit-status, EOF and CLOSE.
FinalizeExited(id) ==
    /\ Live("s", id) /\ Room("s") /\ Stage("s", id) = "running"
    /\ EnsureSendable(Chan("s", id))
    /\ Finish("s", id, <<Msg("REQUEST", Chan("s", id), 0)>>)

\* close_idle_channels: any open channel, with a program or without.
CloseIdle(id) ==
    /\ ChannelTimeout /\ Live("s", id) /\ Room("s")
    /\ IsOpen(Chan("s", id))
    /\ Finish("s", id, <<>>)

\* The frontend consumes k bytes and credits them (replenish_window).
Consume(p, id, k) ==
    /\ Live(p, id) /\ k <= app[p][id].unread
    /\ Update(p, ReplenishWindow(conn[p], id, k), [app[p] EXCEPT ![id].unread = @ - k],
              IF Replenishes(conn[p], id, k)
              THEN <<Msg("WINDOW_ADJUST", Chan(p, id), Chan(p, id).pending_replenish + k)>>
              ELSE <<>>)
    /\ UNCHANGED <<opens, left, err>>

---------------------------------------------------------------------------
(* Inbound packets.                                                        *)

\* p takes m from its stream, goes on with c and a, and answers ms.
Take(p, c, a, ms) ==
    /\ conn' = [conn EXCEPT ![p] = c]
    /\ app' = [app EXCEPT ![p] = a]
    /\ wire' = [wire EXCEPT ![p] = Tail(@), ![Other(p)] = @ \o ms]
    /\ UNCHANGED <<opens, left, err>>

\* Next is m, and on_packet has no objection.
Reads(p, m) == /\ err = "none" /\ wire[p] # <<>>
               /\ m = Head(wire[p]) /\ PacketError(conn[p], m) = "none"

OpenFailure(m) == [t |-> "OPEN_FAILURE", ch |-> m.from, from |-> 0, n |-> 0, max |-> 0,
                   want |-> FALSE, tag |-> m.tag]

\* OpenRejected: the refusal on_channel_open built is sent as it is.
RefuseOpen(p, m) ==
    /\ Reads(p, m) /\ m.t = "OPEN" /\ AtLimit(conn[p])
    /\ Take(p, conn[p], app[p], <<OpenFailure(m)>>)

\* OpenRequest: a handler takes the channel ...
AcceptRequest(p, m) ==
    /\ Reads(p, m) /\ m.t = "OPEN" /\ ~AtLimit(conn[p])
    /\ \E id \in Ids :
          /\ FreeId(conn[p], id)
          /\ LET c == OnChannelOpen(conn[p], id, m)
             IN  Take(p, AcceptOpen(c, id),
                      WithApp(app[p], id, IF p = "s" THEN "idle" ELSE "running"),
                      <<AcceptMsg(c, id)>>)

\* ... or none does (reject_open; unsolicited_reply), which costs an id.
RejectRequest(p, m) ==
    /\ Reads(p, m) /\ m.t = "OPEN" /\ ~AtLimit(conn[p])
    /\ \E id \in Ids :
          /\ FreeId(conn[p], id)
          /\ Take(p, Remove(OnChannelOpen(conn[p], id, m), id), app[p], <<OpenFailure(m)>>)

\* OpenConfirmed and OpenFailed.
OpenAnswered(p, m) ==
    /\ Reads(p, m) /\ m.t \in Answers
    /\ LET c == OnPacket(conn[p], m)
       IN  Take(p, c, IF m.t = "OPEN_FAILURE" THEN Kept(app[p], c)
                      ELSE Staged(p, m.ch, IF p = "c" THEN "idle" ELSE "running"), <<>>)

\* Data and ExtendedData: into the channel's queue.
DataArrives(p, m) ==
    /\ Reads(p, m) /\ m.t \in {"DATA", "EXTENDED_DATA"}
    /\ Take(p, OnPacket(conn[p], m), [app[p] EXCEPT ![m.ch].unread = @ + m.n], <<>>)

\* handle_channel_request refuses to start a second program, or one on a
\* channel it has closed.
AlreadyStarted(id) == Stage("s", id) = "running" \/ "local" \in Chan("s", id).closed

\* Request: the server starts the program or not, and says so at once; the
\* client's requests want_reply = FALSE and the server's change nothing.
RequestArrives(p, m) ==
    /\ Reads(p, m) /\ m.t = "REQUEST"
    /\ \/ ~m.want /\ Take(p, conn[p], app[p], <<>>)
       \/ /\ m.want
          /\ Take(p, conn[p], app[p], <<Msg("FAILURE", Chan(p, m.ch), 0)>>)
       \/ /\ m.want /\ ~AlreadyStarted(m.ch)
          /\ Take(p, conn[p], Staged(p, m.ch, "running"), <<Msg("SUCCESS", Chan(p, m.ch), 0)>>)

\* Success and Failure, for the client that waits.
ReplyArrives(p, m) ==
    /\ Reads(p, m) /\ m.t \in {"SUCCESS", "FAILURE"}
    /\ Take(p, conn[p], Staged(p, m.ch, IF m.t = "SUCCESS" THEN "running" ELSE "denied"), <<>>)

\* Close: the server, and a client in exec or serve, answers it at once; a
\* SharedClient does when the stream is dropped, a client that waits for a
\* reply goes on waiting.
CloseArrives(p, m) ==
    /\ Reads(p, m) /\ m.t = "CLOSE"
    /\ LET c == OnPacket(conn[p], m)
           mine == "local" \in Chan(p, m.ch).closed
           ack == SendClose(c, m.ch)
       IN  \/ mine /\ Take(p, c, Kept(app[p], c), <<>>)
           \/ /\ ~mine
              /\ p = "s" \/ Stage(p, m.ch) = "running"
              /\ Take(p, ack, Kept(app[p], ack), <<Msg("CLOSE", Chan(p, m.ch), 0)>>)
           \/ ~mine /\ p = "c" /\ Take(p, c, app[p], <<>>)

\* WindowAdjust and Eof, where the ConnectionState does all there is to do, and
\* a packet it refuses, which ends the connection.
OtherArrives(p, m) ==
    LET e == PacketError(conn[p], m)
    IN  /\ err = "none" /\ wire[p] # <<>> /\ m = Head(wire[p])
        /\ m.t \in {"WINDOW_ADJUST", "EOF"} \/ e # "none"
        /\ conn' = [conn EXCEPT ![p] = IF e = "none" THEN OnPacket(@, m) ELSE @]
        /\ wire' = [wire EXCEPT ![p] = Tail(@)]
        /\ err' = e
        /\ UNCHANGED <<app, opens, left>>

Receive(p) ==
    \E m \in {wire[p][i] : i \in DOMAIN wire[p]} :
       \/ RefuseOpen(p, m) \/ AcceptRequest(p, m) \/ RejectRequest(p, m)
       \/ OpenAnswered(p, m) \/ DataArrives(p, m) \/ RequestArrives(p, m)
       \/ ReplyArrives(p, m) \/ CloseArrives(p, m) \/ OtherArrives(p, m)

---------------------------------------------------------------------------
Next == \/ \E p \in Peers : Open(p) \/ Receive(p)
        \/ \E id \in Ids : StartRequest(id) \/ WindowChange(id) \/ FinalizeExited(id)
                           \/ CloseIdle(id)
        \/ \E p \in Peers, id \in Ids : HalfClose(p, id) \/ Close(p, id)
        \/ \E p \in Peers, id \in Ids, n \in 1 .. MaxWrite :
              WriteData(p, id, n) \/ WriteDatagram(p, id, n)
        \/ \E id \in Ids, n \in 1 .. MaxWrite : WriteStderr(id, n)
        \/ \E p \in Peers, id \in Ids, k \in 1 .. Window : Consume(p, id, k)

Spec == Init /\ [][Next]_vars

---------------------------------------------------------------------------
(* Properties.                                                             *)

AppState == [unread : Nat, stage : Stages]

\* The types of everything; no window goes below zero, and a frontend keeps
\* state for exactly the channels its ConnectionState tracks.
TypeOK ==
    /\ DOMAIN conn = Peers /\ \A p \in Peers : IsConnection(conn[p])
    /\ DOMAIN app = Peers /\ \A p \in Peers : app[p] \in [Tracked(conn[p]) -> AppState]
    /\ wire \in [Peers -> Seq(Message)]
    /\ opens \in Nat /\ left \in [Peers -> Nat] /\ err \in Errors

\* No packet a puressh peer sends makes the other's on_packet fail, whatever
\* crosses on the wire: opens in both directions, data and credit after a
\* CLOSE, a CLOSE from each side, a reused id (state.rs, every Err of
\* on_packet).
NoPacketError == err = "none"

\* Every message on the wire is addressed to a channel its receiver still
\* tracks, and to the channel it was meant for, not a later one with the same
\* id ("The id may be reused", ChannelState::is_fully_closed).
Addressed ==
    \A p \in Peers : \A i \in DOMAIN wire[p] :
        LET m == wire[p][i]
        IN  m.t # "OPEN" => /\ m.ch \in Tracked(conn[p])
                            /\ Chan(p, m.ch).tag = m.tag

\* The last thing a side sends on a channel is its CLOSE.
NothingAfterClose ==
    \A p \in Peers : \A i, j \in DOMAIN wire[p] :
        i < j /\ wire[p][i].t = "CLOSE" => wire[p][j].tag # wire[p][i].tag

\* The bytes of the messages of one channel on their way to p.
InFlight(ms, tag, kinds) ==
    LET sum[i \in 0 .. Len(ms)] ==
            IF i = 0 THEN 0
            ELSE sum[i - 1] + (IF ms[i].tag = tag /\ ms[i].t \in kinds THEN ms[i].n ELSE 0)
    IN  sum[Len(ms)]

\* Flow control never loses or invents credit: what the receiver will still
\* take is what the sender may still send, plus the data on its way there and
\* the credit on its way back (send_data, on_channel_data, replenish_window,
\* on_window_adjust).
WindowsAgree ==
    \A p \in Peers : \A i \in Tracked(conn[p]), j \in Tracked(conn[Other(p)]) :
        LET x == Chan(p, i)
            y == Chan(Other(p), j)
        IN  x.tag = y.tag /\ x.open_confirmed /\ y.open_confirmed =>
            x.local_window = y.remote_window
                             + InFlight(wire[p], x.tag, {"DATA", "EXTENDED_DATA"})
                             + InFlight(wire[Other(p)], x.tag, {"WINDOW_ADJUST"})

\* Until it closes, a receiver accounts for its whole window: what the peer
\* may send, what waits to be consumed and what is not yet credited.  So
\* memory is bounded by the window, and saturating_add never saturates.
WindowAccounted ==
    \A p \in Peers : \A id \in Tracked(conn[p]) :
        LET held == Chan(p, id).local_window + Chan(p, id).pending_replenish
                    + app[p][id].unread
        IN  IF "local" \in Chan(p, id).closed THEN held <= Window ELSE held = Window

\* Whether p may write on id.
Writable(p, id) == Live(p, id) /\ Stage(p, id) = "running" /\ CanSendData(conn[p], id)

\* The peer's opens never take the map past max_channels.
LimitHolds ==
    \A p \in Peers :
        Cardinality({id \in Tracked(conn[p]) : ~Chan(p, id).initiated_by_us}) <= MaxChannels
=============================================================================
