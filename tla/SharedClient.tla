---------------------------- MODULE SharedClient ----------------------------
(***************************************************************************)
(* shared.rs: threads that share one connection through a mutex.  Whoever  *)
(* needs a packet that is not there yet becomes the pumper, if nobody is:  *)
(* it waits for input with the mutex released, then files one packet under *)
(* it and wakes the thread it is for.  Everybody else sleeps on the        *)
(* condition variable of its channel.                                      *)
(*                                                                         *)
(* A thread has one job, on one channel (Job): "read" and "stderr" read to *)
(* the end (the owner of the stream then drops it), "write" writes, "exit" *)
(* waits for the exit status, "pump" is pump_while, "open" opens a session *)
(* and starts a program, "global" asks a global question, "keepalive" and  *)
(* "close" are the calls of those names.  A channel the server opens has   *)
(* three threads of its own: "handler" is the callback, "relay" takes what *)
(* arrives to it and "ship" sends what it writes.  A critical section that *)
(* does not wait is one action.                                            *)
(***************************************************************************)
EXTENDS Integers, Sequences, FiniteSets, SequencesExt

CONSTANTS
    Threads,  \* the threads
    Job,      \* what each does: [kind |-> ..., ch |-> ...]
    Opened,   \* the channels that have a stream from the start
    Script,   \* per channel, and for 0, how many packets of each kind the peer sends
    MaxInFlight, \* bound: packets the server sends before the client reads
    Incoming, \* the channels the server opens ...
    Wanted,   \* ... and those of them that were asked for and have a callback
    Backlog,  \* INCOMING_INGRESS_BACKLOG, INCOMING_EGRESS_BACKLOG
    Answers   \* bound: bytes a callback writes

VARIABLES
    lock,    \* who holds the mutex across a wait
    inner,   \* Inner, as far as it is modelled
    stash,   \* SplitState::pending
    wire,    \* packets on their way to the client
    out,     \* packets on their way to the server
    pc,      \* where each thread is
    got,     \* what each thread has read, written or been told
    peer,    \* what the server has left to send on each channel
    relays   \* the queues between the threads of a channel the server opened

vars == <<lock, inner, stash, wire, out, pc, got, peer, relays>>

Channels == DOMAIN Script
Kind(t) == Job[t].kind
Ch(t) == Job[t].ch

Packet(t, ch, n) == [t |-> t, ch |-> ch, n |-> n]

\* ChannelQueue, and what ConnectionState knows of a channel.
NewQueue == [data |-> <<>>, stderr |-> <<>>, eof |-> FALSE, close |-> FALSE, exit |-> FALSE]
NewChannel(credit) == [credit |-> credit, closed |-> {}]
\* What the relay holds, what the callback can read, what it has written and
\* the shipper has not taken, what that has taken, whether EOF was sent; the
\* bytes written and shipped so far.
NewRelay == [held |-> <<>>, ingress |-> <<>>, egress |-> <<>>, shipping |-> <<>>, eof |-> FALSE,
             wrote |-> 0, shipped |-> <<>>]

Init == /\ lock = "none"
        /\ inner = [queues |-> [c \in Opened |-> NewQueue],
                    conn |-> [c \in Opened |-> NewChannel(1)],
                    pumping |-> FALSE, wake_all |-> FALSE, pending_keepalives |-> 0,
                    events |-> <<>>, spawned |-> {}]
        /\ stash = <<>> /\ wire = <<>> /\ out = <<>>
        /\ pc = [t \in Threads |-> "lock"]
        /\ got = [t \in Threads |-> <<>>]
        /\ peer = Script /\ relays = [c \in Wanted |-> NewRelay]

---------------------------------------------------------------------------
(* The mailbox of a channel.                                               *)

Registered(s) == DOMAIN s.queues
Tracked(s) == DOMAIN s.conn

\* queues.entry(channel).or_default()
WithQueue(s, c) ==
    IF c \in Registered(s) THEN s
    ELSE [s EXCEPT !.queues = [i \in Registered(s) \cup {c} |->
                                  IF i = c THEN NewQueue ELSE s.queues[i]]]

Forget(f, c) == [i \in DOMAIN f \ {c} |-> f[i]]

\* stash_event: only a registered mailbox takes what arrives.
StashEvent(s, e) ==
    IF e.ch \notin Registered(s) THEN s
    ELSE CASE e.t = "Data" -> [s EXCEPT !.queues[e.ch].data = Append(@, e.n)]
           [] e.t = "Stderr" -> [s EXCEPT !.queues[e.ch].stderr = Append(@, e.n)]
           [] e.t = "Eof" -> [s EXCEPT !.queues[e.ch].eof = TRUE]
           [] e.t = "Close" -> [s EXCEPT !.queues[e.ch].eof = TRUE, !.queues[e.ch].close = TRUE]
           [] e.t = "Exit" -> [s EXCEPT !.queues[e.ch].exit = TRUE]
           [] OTHER -> s

Track(s, c, credit) ==
    [s EXCEPT !.conn = [i \in Tracked(s) \cup {c} |-> IF i = c THEN NewChannel(credit) ELSE s.conn[i]]]

\* ConnectionState::on_packet, for the packets the server sends here.
OnPacket(s, e) ==
    CASE e.t = "Incoming" -> Track(s, e.ch, e.n)
      [] e.t = "Adjust" -> [s EXCEPT !.conn[e.ch].credit = @ + e.n]
      [] e.t = "Confirm" -> [s EXCEPT !.conn[e.ch].credit = e.n]
      [] e.t = "OpenFail" -> [s EXCEPT !.conn = Forget(@, e.ch)]
      [] e.t = "Close" -> IF "local" \in s.conn[e.ch].closed
                          THEN [s EXCEPT !.conn = Forget(@, e.ch)]
                          ELSE [s EXCEPT !.conn[e.ch].closed = @ \cup {"remote"}]
      [] OTHER -> s

\* A packet that concerns one channel wakes that channel's sleepers.
Targeted == {"Data", "Stderr", "Eof", "Close"}

\* accept_incoming, which starts the threads, or reject_open.
Admit(s, c) == IF c \in Wanted THEN [WithQueue(s, c) EXCEPT !.spawned = @ \cup {c}]
               ELSE [s EXCEPT !.conn = Forget(@, c)]

\* dispatch_event.
DispatchEvent(s, e) ==
    IF e.t = "GlobalRequest" THEN s
    ELSE IF e.t = "Incoming" THEN Admit(s, e.ch)
    ELSE [StashEvent(s, e) EXCEPT
            !.pending_keepalives = IF e.t = "Reply" /\ @ > 0 THEN @ - 1 ELSE @,
            !.wake_all = @ \/ e.t \notin Targeted]

\* unsolicited_reply: a request of the server that wants an answer gets one.
Replies(e) == CASE e.t = "GlobalRequest" -> <<Packet("GlobalFailure", 0, e.n)>>
                [] e.t = "Incoming" -> <<Packet(IF e.ch \in Wanted THEN "Accept" ELSE "Refuse", e.ch, 0)>>
                [] OTHER -> <<>>

---------------------------------------------------------------------------
(* Condition variables.                                                    *)

Sleeping(c) == {t \in Threads : pc[t] = "waiting" /\ Ch(t) = c}

\* notify_one on every channel: one sleeper of each, whichever.
OneOfEach == {w \in SUBSET {t \in Threads : pc[t] = "waiting"} :
                \A c \in Channels : Cardinality(w \cap Sleeping(c))
                                    = IF Sleeping(c) = {} THEN 0 ELSE 1}

\* The sleepers ws wake up, and t goes on at where.
Resume(t, where, ws) ==
    pc' = [x \in Threads |-> IF x = t THEN where ELSE IF x \in ws THEN "lock" ELSE pc[x]]

---------------------------------------------------------------------------
(* The pump.                                                               *)

\* next_packet: decoded events first, then (SplitReader::read) the stash, then
\* the wire.
Input(s) == IF s.events # <<>> THEN <<s.events, stash, wire>>
            ELSE IF stash # <<>> THEN <<stash, <<>>, wire>>
            ELSE <<wire, <<>>, <<>>>>

\* read_stashed_packet: the same, without the wire.
Stashed(s) == IF s.events # <<>> THEN <<s.events, stash>> ELSE <<stash, <<>>>>

\* What the pumper waits for (the ready closure of pump_until).
Ready(s, t) ==
    /\ Ch(t) \in Registered(s)
    /\ LET q == s.queues[Ch(t)]
       IN  q.eof \/ (Kind(t) \in {"read", "relay"} /\ q.data # <<>>)
                 \/ (Kind(t) = "stderr" /\ q.stderr # <<>>)

\* Mutant of Released: pump_until returns without handing the pump over.
ReleasedLate(s) == [s EXCEPT !.wake_all = FALSE]

\* The end of a turn at the pump.
Released(s) == [s EXCEPT !.pumping = FALSE]

\* pump_one_step(stashed), and what the pumper does with the mutex then:
\* pump_until goes on until it is ready, the others make one step.
PumpOneStep(t, s0) ==
    LET in == Stashed(s0)
        idle == in[1] = <<>>
        e == Head(in[1])
        s == IF idle THEN s0
             ELSE DispatchEvent(OnPacket([s0 EXCEPT !.events = Tail(in[1])], e), e)
        told == IF ~idle /\ e.t \in Targeted THEN Sleeping(e.ch) ELSE {}
        on == Kind(t) \in {"read", "relay", "stderr"} /\ ~Ready(s, t)
    IN  /\ stash' = in[2]
        /\ out' = IF idle THEN out ELSE out \o Replies(e)
        /\ inner' = IF on THEN [s EXCEPT !.wake_all = FALSE] ELSE Released(s)
        /\ \E ws \in OneOfEach :
              Resume(t, IF on THEN "again" ELSE "lock",
                     told \cup (IF ~on \/ s.wake_all THEN ws ELSE {}))
        /\ UNCHANGED <<lock, wire, got, peer, relays>>

\* A thread whose turn at the pump it is: with a decoded packet at hand it
\* files it at once, else it lets go of the mutex and waits for input.
Pump(t, s) ==
    IF s.events # <<>> THEN PumpOneStep(t, [s EXCEPT !.pumping = TRUE])
    ELSE /\ inner' = [s EXCEPT !.pumping = TRUE]
         /\ Resume(t, "fill", {})
         /\ UNCHANGED <<lock, stash, wire, out, got, peer, relays>>

\* Mutant of PumpOrWait: everybody pumps.
PumpOrWaitAlways(t, s) == Pump(t, s)

\* Become the pumper, or sleep until there is something to see.
PumpOrWait(t, s) ==
    IF ~s.pumping THEN Pump(t, s)
    ELSE /\ inner' = s
         /\ Resume(t, "waiting", {})
         /\ UNCHANGED <<lock, stash, wire, out, got, peer, relays>>

\* SplitReader::fill: what has arrived, unless something is stashed already.
Fill(t) ==
    /\ pc[t] = "fill"
    /\ IF stash = <<>> THEN stash' = wire /\ wire' = <<>> ELSE UNCHANGED <<stash, wire>>
    /\ Resume(t, "back", {})
    /\ UNCHANGED <<lock, inner, out, got, peer, relays>>

\* The pumper is back with the mutex.
Back(t) == pc[t] = "back" /\ lock = "none" /\ PumpOneStep(t, inner)

\* pump_until's next round.
Again(t) == pc[t] = "again" /\ lock = "none" /\ Pump(t, inner)

\* wait_timeout's WAIT_TIMEOUT.
WaitTimeout(t) ==
    /\ pc[t] \in {"waiting", "orphan"}
    /\ Resume(t, "lock", {})
    /\ UNCHANGED <<lock, inner, stash, wire, out, got, peer, relays>>

---------------------------------------------------------------------------
(* Jobs that loop: they look, and pump or wait if there is nothing yet.    *)

End(t, how, s) ==
    /\ inner' = s /\ Resume(t, how, {})
    /\ UNCHANGED <<lock, stash, wire, out, got, peer, relays>>

\* The threads of a channel the server opens start when it is accepted.
Started(t) == Kind(t) \in {"relay", "ship", "handler"} => Ch(t) \in inner.spawned

Enter(t, kinds) == pc[t] = "lock" /\ lock = "none" /\ Kind(t) \in kinds /\ Started(t)

\* read_stream and channel_recv_stderr: drain_into, then replenish_under_lock,
\* which fails for a channel the connection has forgotten.
ReadStream(t) ==
    LET s == WithQueue(inner, Ch(t))
        q == s.queues[Ch(t)]
        avail == IF Kind(t) = "stderr" THEN q.stderr ELSE q.data
        drained == [s EXCEPT !.queues[Ch(t)] =
                       IF Kind(t) = "stderr" THEN [q EXCEPT !.stderr = <<>>]
                                             ELSE [q EXCEPT !.data = <<>>]]
    IN  /\ Enter(t, {"read", "relay", "stderr"})
        /\ \/ avail # <<>> /\ Ch(t) \notin Tracked(s) /\ End(t, "error", drained)
           \/ /\ avail # <<>> /\ Ch(t) \in Tracked(s)
              /\ inner' = drained
              /\ got' = [got EXCEPT ![t] = @ \o avail]
              /\ relays' = IF Kind(t) = "relay" THEN [relays EXCEPT ![Ch(t)].held = avail] ELSE relays
              /\ Resume(t, IF Kind(t) = "relay" THEN "hand" ELSE "lock", {})
              /\ UNCHANGED <<lock, stash, wire, out, peer>>
           \/ avail = <<>> /\ q.eof /\ End(t, "eof", s)
           \/ avail = <<>> /\ ~q.eof /\ PumpOrWait(t, s)

\* Write::write and channel_send_data, two bytes.
WriteData(t) ==
    LET c == Ch(t)
        sendable == c \in Tracked(inner) /\ inner.conn[c].closed = {}
    IN  /\ Enter(t, {"write"})
        /\ \/ ~sendable /\ End(t, "error", inner)
           \/ /\ sendable /\ Len(got[t]) < 2 /\ inner.conn[c].credit > 0
              /\ inner' = [inner EXCEPT !.conn[c].credit = @ - 1]
              /\ out' = Append(out, Packet("Data", c, Len(got[t]) + 1))
              /\ got' = [got EXCEPT ![t] = Append(@, Len(@) + 1)]
              /\ UNCHANGED <<lock, stash, wire, pc, peer, relays>>
           \/ /\ sendable /\ Len(got[t]) < 2 /\ inner.conn[c].credit = 0
              /\ PumpOrWait(t, WithQueue(inner, c))
           \/ sendable /\ Len(got[t]) = 2 /\ End(t, "done", inner)

\* wait_exit_status.
WaitExitStatus(t) ==
    LET s == WithQueue(inner, Ch(t))
        q == s.queues[Ch(t)]
    IN  /\ Enter(t, {"exit"})
        /\ \/ (q.exit \/ q.close) /\ End(t, "done", s)
           \/ ~q.exit /\ ~q.close /\ PumpOrWait(t, s)

\* pump_while: a turn if nobody has it, else it comes back later.
PumpWhile(t) == Enter(t, {"pump"}) /\ ~inner.pumping /\ Pump(t, inner)

---------------------------------------------------------------------------
(* Calls that send something and return.                                   *)

\* send_keepalive.
SendKeepalive(t) ==
    /\ Enter(t, {"keepalive"})
    /\ inner' = [inner EXCEPT !.pending_keepalives = @ + 1]
    /\ out' = Append(out, Packet("Global", 0, 0))
    /\ Resume(t, "done", {})
    /\ UNCHANGED <<lock, stash, wire, got, peer, relays>>

\* close_channel: EOF and CLOSE, if the channel is still there.
CloseChannel(t) ==
    LET s == WithQueue(inner, Ch(t))
        c == Ch(t)
        ok == c \in Tracked(s) /\ "local" \notin s.conn[c].closed
    IN  /\ Enter(t, {"close"})
        /\ IF ~ok THEN inner' = s /\ UNCHANGED out
           ELSE /\ inner' = IF "remote" \in s.conn[c].closed
                            THEN [s EXCEPT !.conn = Forget(@, c)]
                            ELSE [s EXCEPT !.conn[c].closed = @ \cup {"local"}]
                /\ out' = out \o <<Packet("Eof", c, 0), Packet("Close", c, 0)>>
        /\ Resume(t, "done", {})
        /\ UNCHANGED <<lock, stash, wire, got, peer, relays>>

---------------------------------------------------------------------------
(* Calls that wait for an answer with the mutex held.                      *)

\* open_session_under_lock and global_request take the mutex and ask.
Ask(t) ==
    /\ Enter(t, {"open", "global"})
    /\ lock' = t
    /\ inner' = IF Kind(t) = "global" THEN inner
                ELSE Track(inner, Ch(t), 0)
    /\ out' = Append(out, IF Kind(t) = "global" THEN Packet("Global", 0, 1)
                          ELSE Packet("Open", Ch(t), 0))
    /\ Resume(t, "asked", {})
    /\ UNCHANGED <<stash, wire, got, peer, relays>>

\* The packet t, which holds the mutex, gets next.
Reads(t, e, s) ==
    /\ lock = t /\ Input(inner)[1] # <<>>
    /\ e = Head(Input(inner)[1])
    /\ s = OnPacket([inner EXCEPT !.events = Tail(Input(inner)[1])], e)
    /\ stash' = Input(inner)[2] /\ wire' = Input(inner)[3]
    /\ UNCHANGED <<peer, relays>>

Unlock(t, how, ws) == lock' = "none" /\ Resume(t, how, ws)

\* await_global_reply_under_lock skips the answers to earlier keepalives;
\* await_open_under_lock and send_request_and_await look for their channel's.
AnswerFor(t, e, s) ==
    IF Kind(t) = "global" THEN e.t = "Reply" /\ s.pending_keepalives = 0
    ELSE e.ch = Ch(t) /\ e.t \in (IF pc[t] = "asked" THEN {"Confirm", "OpenFail"}
                                  ELSE {"Success", "Failure"})

\* A packet of another's is filed as the pump files it.
AwaitOther(t, e, s) ==
    /\ pc[t] \in {"asked", "requested"} /\ Reads(t, e, s) /\ ~AnswerFor(t, e, s)
    /\ inner' = DispatchEvent(s, e)
    /\ out' = out \o Replies(e)
    /\ Resume(t, pc[t], IF e.t \in Targeted THEN Sleeping(e.ch) ELSE {})
    /\ UNCHANGED <<lock, got>>

\* The channel is open: its mailbox is registered and the program asked for.
AwaitOpened(t, e, s) ==
    /\ pc[t] = "asked" /\ Reads(t, e, s) /\ AnswerFor(t, e, s) /\ e.t = "Confirm"
    /\ inner' = WithQueue(s, Ch(t))
    /\ out' = Append(out, Packet("Request", Ch(t), 0))
    /\ Resume(t, "requested", {})
    /\ UNCHANGED <<lock, got>>

\* The answer that ends the call.  A refused request leaves the channel and
\* its mailbox behind.
AwaitAnswer(t, e, s) ==
    /\ pc[t] \in {"asked", "requested"} /\ Reads(t, e, s) /\ AnswerFor(t, e, s)
    /\ e.t # "Confirm"
    /\ inner' = s
    /\ got' = [got EXCEPT ![t] = Append(@, e.n)]
    /\ Unlock(t, IF e.t \in {"Reply", "Success"} THEN "done" ELSE "denied", {})
    /\ UNCHANGED out

---------------------------------------------------------------------------
(* A channel the server opened.                                            *)

Partner(c, kind) == CHOOSE t \in Threads : Kind(t) = kind /\ Ch(t) = c
Over(t) == pc[t] \in {"done", "error"}

\* What a callback writes: bytes, 1 and up, then as its stream is dropped
\* ChannelEgress::Eof and ChannelEgress::Close.
EgressEof == 0
EgressClose == -1

\* The relay hands over the chunk it has read, or None (no bytes) at the end;
\* it waits while the queue is full and stops when nobody will read it.
Hand(t) ==
    LET c == Ch(t)
        last == pc[t] # "hand"
        gone == Over(Partner(c, "handler"))
    IN  /\ Kind(t) = "relay" /\ pc[t] \in {"hand", "eof", "error"}
        /\ gone \/ Len(relays[c].ingress) < Backlog
        /\ relays' = [relays EXCEPT ![c].held = <<>>,
                         ![c].ingress = IF gone THEN @ ELSE Append(@, relays[c].held)]
        /\ Resume(t, IF last THEN "await" ELSE IF gone THEN "eof" ELSE "lock", {})
        /\ UNCHANGED <<lock, inner, stash, wire, out, got, peer>>

\* The shipper takes the next thing the callback wrote ...
ShipTakes(t) ==
    LET r == relays[Ch(t)]
    IN  /\ Kind(t) = "ship" /\ Started(t) /\ pc[t] = "lock" /\ r.shipping = <<>> /\ r.egress # <<>>
        /\ relays' = [relays EXCEPT ![Ch(t)].shipping = <<Head(r.egress)>>, ![Ch(t)].egress = Tail(@)]
        /\ UNCHANGED <<lock, inner, stash, wire, out, pc, got, peer>>

\* ... and sends it: channel_send_data, or channel_send_eof, once.
ShipData(t) ==
    LET c == Ch(t)
        sendable == c \in Tracked(inner) /\ inner.conn[c].closed = {}
    IN  /\ Enter(t, {"ship"}) /\ relays[c].shipping # <<>> /\ Head(relays[c].shipping) > EgressEof
        /\ \/ ~sendable /\ End(t, "error", inner)
           \/ /\ sendable /\ inner.conn[c].credit > 0
              /\ inner' = [inner EXCEPT !.conn[c].credit = @ - 1]
              /\ out' = Append(out, Packet("Data", c, Head(relays[c].shipping)))
              /\ relays' = [relays EXCEPT ![c].shipping = <<>>, ![c].shipped = @ \o relays[c].shipping]
              /\ UNCHANGED <<lock, stash, wire, pc, got, peer>>
           \/ sendable /\ inner.conn[c].credit = 0 /\ PumpOrWait(t, WithQueue(inner, c))

ShipEof(t) ==
    LET c == Ch(t)
        first == ~relays[c].eof /\ c \in Tracked(inner) /\ "local" \notin inner.conn[c].closed
    IN  /\ Enter(t, {"ship"}) /\ relays[c].shipping # <<>> /\ Head(relays[c].shipping) <= EgressEof
        /\ inner' = WithQueue(inner, c)
        /\ out' = IF first THEN Append(out, Packet("Eof", c, 0)) ELSE out
        /\ relays' = [relays EXCEPT ![c].shipping = <<>>, ![c].eof = TRUE]
        /\ Resume(t, IF Head(relays[c].shipping) = EgressClose THEN "done" ELSE "lock", {})
        /\ UNCHANGED <<lock, stash, wire, got, peer>>

\* ChannelStream::read, in the callback.
HandlerReads(t) ==
    LET c == Ch(t)
    IN  /\ Kind(t) = "handler" /\ Started(t) /\ pc[t] = "lock" /\ relays[c].ingress # <<>>
        /\ got' = [got EXCEPT ![t] = @ \o Head(relays[c].ingress)]
        /\ relays' = [relays EXCEPT ![c].ingress = Tail(@)]
        /\ UNCHANGED <<lock, inner, stash, wire, out, pc, peer>>

\* send_egress: it waits while the queue is full, and fails once the shipper
\* has ended.
SendEgress(c, m) ==
    IF Over(Partner(c, "ship")) THEN UNCHANGED relays
    ELSE /\ Len(relays[c].egress) < Backlog
         /\ relays' = [relays EXCEPT ![c].egress = Append(@, m), ![c].wrote = IF m > EgressEof THEN m ELSE @]

\* ChannelStream::write; a callback whose write fails returns.
HandlerWrites(t) ==
    LET c == Ch(t)
    IN  /\ Kind(t) = "handler" /\ Started(t) /\ pc[t] = "lock" /\ relays[c].wrote < Answers
        /\ SendEgress(c, relays[c].wrote + 1)
        /\ Resume(t, IF Over(Partner(c, "ship")) THEN "returned" ELSE "lock", {})
        /\ UNCHANGED <<lock, inner, stash, wire, out, got, peer>>

\* It returns, and its ChannelStream is dropped.
HandlerReturns(t) ==
    LET c == Ch(t)
    IN  /\ Kind(t) = "handler" /\ Started(t) /\ pc[t] \in {"lock", "returned"}
        /\ SendEgress(c, IF pc[t] = "lock" THEN EgressEof ELSE EgressClose)
        /\ Resume(t, IF pc[t] = "lock" THEN "returned" ELSE "done", {})
        /\ UNCHANGED <<lock, inner, stash, wire, out, got, peer>>

---------------------------------------------------------------------------
\* The owner joins the threads that read stderr or the exit status before it
\* drops the stream (mux/server.rs, bin/ssh.rs); the writer is not joined.
Joined(t) == \A x \in Threads : Kind(x) \in {"stderr", "exit"} /\ Ch(x) = Ch(t)
                                 => pc[x] \in {"eof", "error", "done"}

\* The relay drops the stream once the shipper is done.
MayDrop(t) ==
    \/ Kind(t) = "read" /\ pc[t] \in {"eof", "error"} /\ Joined(t)
    \/ Kind(t) = "relay" /\ pc[t] = "await" /\ Over(Partner(Ch(t), "ship"))

\* Drop: EOF and CLOSE, if the channel is there, then packets are read under
\* the mutex until the server's CLOSE is among them; then the mailbox goes.
DropStream(t) ==
    LET c == Ch(t)
        ok == c \in Tracked(inner) /\ "local" \notin inner.conn[c].closed
    IN  /\ MayDrop(t) /\ lock = "none"
        /\ lock' = t
        /\ inner' = IF ~ok THEN inner
                    ELSE IF "remote" \in inner.conn[c].closed
                    THEN [inner EXCEPT !.conn = Forget(@, c)]
                    ELSE [inner EXCEPT !.conn[c].closed = @ \cup {"local"}]
        /\ out' = IF ok THEN out \o <<Packet("Eof", c, 0), Packet("Close", c, 0)>> ELSE out
        /\ Resume(t, "drop", {})
        /\ UNCHANGED <<stash, wire, got, peer, relays>>

MailboxClosed(t) == Ch(t) \in Registered(inner) /\ inner.queues[Ch(t)].close

DropPumps(t, e, s) ==
    /\ pc[t] = "drop" /\ ~MailboxClosed(t) /\ Reads(t, e, s)
    /\ inner' = DispatchEvent(s, e)
    /\ out' = out \o Replies(e)
    /\ Resume(t, "drop", IF e.t \in Targeted THEN Sleeping(e.ch) ELSE {})
    /\ UNCHANGED <<lock, got>>

\* ... and with it the condition variable, from under whoever sleeps on it: on
\* the CLOSE, or after MAX_DRAIN reads that brought something else or timed out.
DropEnds(t) ==
    /\ pc[t] = "drop"
    /\ lock' = "none"
    /\ inner' = [inner EXCEPT !.queues = Forget(@, Ch(t))]
    /\ pc' = [x \in Threads |-> IF x = t THEN "gone"
                                ELSE IF x \in Sleeping(Ch(t)) THEN "orphan" ELSE pc[x]]
    /\ UNCHANGED <<stash, wire, out, got, peer, relays>>

---------------------------------------------------------------------------
(* The server: any puressh or other server that follows the protocol.      *)

PeerPacket(kind, c) == Packet(kind, c, 1 + Script[c][kind] - peer[c][kind])

\* It sends what it has for a channel, EOF after the data and CLOSE last.
PeerSends(c, kind) ==
    /\ peer[c][kind] > 0
    /\ kind = "Eof" => peer[c]["Data"] + peer[c]["Stderr"] = 0
    /\ kind = "Close" => \A k \in DOMAIN peer[c] \ {"Close"} : peer[c][k] = 0
    /\ c \in Incoming => peer[c]["Open"] = 0
    /\ Len(wire) < MaxInFlight
    /\ peer' = [peer EXCEPT ![c][kind] = @ - 1]
    /\ wire' = Append(wire, IF kind = "Adjust" THEN Packet("Adjust", c, 1) ELSE PeerPacket(kind, c))
    /\ UNCHANGED <<lock, inner, stash, out, pc, got, relays>>

\* Its keepalive.
PeerAsks ==
    /\ peer[0]["GlobalRequest"] > 0 /\ Len(wire) < MaxInFlight
    /\ peer' = [peer EXCEPT ![0]["GlobalRequest"] = @ - 1]
    /\ wire' = Append(wire, Packet("GlobalRequest", 0, 0))
    /\ UNCHANGED <<lock, inner, stash, out, pc, got, relays>>

\* It opens a channel of its own; Open says what is left of that: 2 for the
\* request, 1 for the answer.
PeerOpens(c) ==
    /\ peer[c]["Open"] = 2 /\ Len(wire) < MaxInFlight
    /\ peer' = [peer EXCEPT ![c]["Open"] = 1]
    /\ wire' = Append(wire, Packet("Incoming", c, 1))
    /\ UNCHANGED <<lock, inner, stash, out, pc, got, relays>>

\* It answers what it is asked, in order, and a CLOSE with its own.
PeerAnswers ==
    /\ out # <<>>
    /\ out' = Tail(out)
    /\ LET m == Head(out)
           says(kinds) == \E k \in kinds : wire' = Append(wire, Packet(k, m.ch, 1))
       IN  /\ CASE m.t = "Open" -> says({"Confirm", "OpenFail"})
                [] m.t = "Request" -> says({"Success", "Failure"})
                [] m.t = "Global" -> wire' = Append(wire, Packet("Reply", 0, m.n))
                [] m.t = "Close" /\ m.ch \in Opened \cup Incoming /\ peer[m.ch]["Close"] > 0
                     -> wire' = Append(wire, Packet("Close", m.ch, 1))
                [] OTHER -> UNCHANGED wire
           /\ peer' = IF m.t = "Refuse" \/ (m.t = "Close" /\ m.ch \in Opened \cup Incoming)
                      THEN [peer EXCEPT ![m.ch] = [k \in DOMAIN @ |-> 0]]
                      ELSE IF m.t = "Accept" THEN [peer EXCEPT ![m.ch]["Open"] = 0] ELSE peer
    /\ UNCHANGED <<lock, inner, stash, pc, got, relays>>

PeerKinds == {"Data", "Stderr", "Adjust", "Exit", "Eof", "Close"}

Peer == \/ PeerAsks \/ PeerAnswers \/ \E c \in Incoming : PeerOpens(c)
        \/ \E c \in Opened \cup Incoming, k \in PeerKinds : PeerSends(c, k)

---------------------------------------------------------------------------
\* Reading under the mutex: the packet at hand, whatever it is for.
UnderLock(t) ==
    \E e \in Range(Input(inner)[1]) :
       LET s == OnPacket([inner EXCEPT !.events = Tail(Input(inner)[1])], e)
       IN  AwaitOther(t, e, s) \/ AwaitOpened(t, e, s) \/ AwaitAnswer(t, e, s)
           \/ DropPumps(t, e, s)

Step(t) == \/ Fill(t) \/ Back(t) \/ Again(t) \/ WaitTimeout(t)
           \/ ReadStream(t) \/ WriteData(t) \/ WaitExitStatus(t) \/ PumpWhile(t)
           \/ SendKeepalive(t) \/ CloseChannel(t) \/ Ask(t) \/ UnderLock(t)
           \/ DropStream(t) \/ DropEnds(t)
           \/ Hand(t) \/ ShipTakes(t) \/ ShipData(t) \/ ShipEof(t)
           \/ HandlerReads(t) \/ HandlerWrites(t) \/ HandlerReturns(t)

Next == Peer \/ \E t \in Threads : Step(t)

Spec == Init /\ [][Next]_vars

---------------------------------------------------------------------------
(* Properties.                                                             *)

\* At most one thread waits on the transport, and the flag says whether one
\* does ("pumping" of Inner): a flag left behind would stop the connection.
OnePumper ==
    /\ Cardinality({t \in Threads : pc[t] \in {"fill", "back", "again"}}) <= 1
    /\ inner.pumping <=> \E t \in Threads : pc[t] \in {"fill", "back", "again"}

\* The bytes of one stream of channel c in a sequence of packets.
Bytes(ms, c, kind) ==
    LET mine == SelectSeq(ms, LAMBDA e : e.t = kind /\ e.ch = c)
    IN  [i \in DOMAIN mine |-> mine[i].n]

\* No byte is lost, doubled or overtaken between the wire and the reader,
\* whoever reads the transport: the pumper without the mutex, an open under
\* it, or a stream being dropped ("so bytes always reach the driver in wire
\* order", SplitReader).
NothingLost ==
    \A t \in Threads :
        Kind(t) \in {"read", "relay", "stderr"} /\ Ch(t) \in Registered(inner)
        /\ pc[t] \notin {"error", "await", "drop", "gone"} =>
        LET c == Ch(t)
            kind == IF Kind(t) = "stderr" THEN "Stderr" ELSE "Data"
            held == IF Kind(t) = "stderr" THEN inner.queues[c].stderr ELSE inner.queues[c].data
            all == got[t] \o held \o Bytes(inner.events, c, kind) \o Bytes(stash, c, kind)
                   \o Bytes(wire, c, kind)
        IN  all = [i \in 1 .. Len(all) |-> i]

\* A global request gets its own answer, not that of a keepalive sent before.
ReplyMatched ==
    \A t \in Threads : Kind(t) = "global" /\ pc[t] = "done" => got[t] = <<1>>

\* What arrives on a channel the server opened gets to its callback in order;
\* what that writes is shipped in order, and all of it before the channel is
\* closed, unless sending failed ("the channel is closed ... only once the
\* handler is done", accept_incoming).
RelayedWhole ==
    \A c \in Wanted :
        LET relay == Partner(c, "relay")
            ship == Partner(c, "ship")
            handler == Partner(c, "handler")
            r == relays[c]
            waiting == SelectSeq(r.shipping \o r.egress, LAMBDA m : m > EgressEof)
        IN  /\ ~Over(handler) => got[handler] \o FlattenSeq(r.ingress) \o r.held = got[relay]
            /\ r.shipped \o waiting = [i \in 1 .. r.wrote |-> i]
            /\ pc[relay] \in {"drop", "gone"} => pc[ship] = "error" \/ Len(r.shipped) = r.wrote

\* Threads that share a client do not get into each other's way.
SharedInOrder == OnePumper /\ NothingLost /\ ReplyMatched /\ RelayedWhole

=============================================================================
