--------------------------- MODULE ChannelProofs ---------------------------
(***************************************************************************)
(* The connection protocol, for every window, packet size, limit, number   *)
(* of ids and number of channels.                                          *)
(*                                                                         *)
(* First what one side can be sure of by itself: type correctness and the  *)
(* accounting of the receive window.  Both are one induction: that windows *)
(* are natural numbers rests on the checks of send_data and                *)
(* on_channel_data, that they add up on what replenish_window does with    *)
(* its counter.  PeerOK is the part of the invariant that concerns one     *)
(* side; a step changes one side, by an insertion, a removal or an update  *)
(* of one channel, and each of the three has its lemma.                    *)
(*                                                                         *)
(* Then what the two sides owe each other: no packet is refused, every     *)
(* message is for the channel it was sent on, and the windows of the two   *)
(* sides agree.  That induction is about one open at a time: Own is what a *)
(* side has of it, Stream what is on its way to a side, and Half relates   *)
(* the two sides and the two streams: which messages may be under way in   *)
(* which state, in which order, beside which.  Good says it of every open, *)
(* Order is Good of the state.                                             *)
(*                                                                         *)
(* Last the limit on what a peer may open.                                 *)
(***************************************************************************)
EXTENDS Channels, FiniteSetTheorems, WellFoundedInduction, TLAPS

Accounted(x, y) ==
    LET held == x.local_window + x.pending_replenish + y.unread
    IN  IF "local" \in x.closed THEN held <= Window ELSE held = Window

PeerOK(c, a) ==
    /\ IsConnection(c)
    /\ a \in [Tracked(c) -> AppState]
    /\ \A id \in Tracked(c) : Accounted(c.channels[id], a[id])

\* The rest of the invariant.
RestOK == /\ DOMAIN conn = Peers /\ DOMAIN app = Peers
          /\ wire \in [Peers -> Seq(Message)]
          /\ opens \in Nat /\ left \in [Peers -> Nat] /\ err \in Errors

Inv == RestOK /\ \A p \in Peers : PeerOK(conn[p], app[p])

(* The invariant is the two properties it is made for.                     *)
LEMMA InvIs == Inv <=> TypeOK /\ WindowAccounted
BY DEF Inv, RestOK, PeerOK, Accounted, TypeOK, WindowAccounted, Chan

---------------------------------------------------------------------------
(* Channel maps.                                                           *)

(* One channel is replaced.                                                *)
LEMMA UpdateOne ==
    ASSUME NEW c, NEW a, PeerOK(c, a), NEW id \in Tracked(c),
           NEW x \in ChannelState, NEW y \in AppState, Accounted(x, y)
    PROVE  PeerOK([c EXCEPT !.channels[id] = x], [a EXCEPT ![id] = y])
<1> DEFINE d == [c EXCEPT !.channels[id] = x]
           b == [a EXCEPT ![id] = y]
<1>1. /\ d.channels = [c.channels EXCEPT ![id] = x] /\ d.next_local_id = c.next_local_id
      /\ d = [channels |-> d.channels, next_local_id |-> d.next_local_id]
  BY DEF PeerOK, IsConnection
<1>2. Tracked(d) = Tracked(c)
  BY <1>1 DEF Tracked, PeerOK, IsConnection
<1>3. d.channels \in [Tracked(d) -> ChannelState]
  BY <1>1, <1>2 DEF PeerOK, IsConnection, Tracked
<1>4. b \in [Tracked(d) -> AppState]
  BY <1>2 DEF PeerOK
<1>5. \A i \in Tracked(d) : Accounted(d.channels[i], b[i])
  BY <1>1, <1>2 DEF PeerOK, IsConnection, Tracked
<1> QED
  BY <1>1, <1>2, <1>3, <1>4, <1>5 DEF PeerOK, IsConnection

(* One channel goes.                                                       *)
LEMMA RemoveOne ==
    ASSUME NEW c, NEW a, PeerOK(c, a), NEW id
    PROVE  PeerOK(Remove(c, id), Kept(a, Remove(c, id)))
<1> DEFINE d == Remove(c, id)
           b == Kept(a, d)
<1>1. /\ d.channels = [i \in Tracked(c) \ {id} |-> c.channels[i]]
      /\ d.next_local_id = c.next_local_id
      /\ d = [channels |-> d.channels, next_local_id |-> d.next_local_id]
  BY DEF PeerOK, IsConnection, Remove
<1>2. Tracked(d) = Tracked(c) \ {id}
  BY <1>1 DEF Tracked
<1>3. d.channels \in [Tracked(d) -> ChannelState]
  BY <1>1, <1>2 DEF PeerOK, IsConnection, Tracked
<1>4. b \in [Tracked(d) -> AppState]
  BY <1>2 DEF PeerOK, Kept
<1>5. \A i \in Tracked(d) : Accounted(d.channels[i], b[i])
  BY <1>1, <1>2 DEF PeerOK, Kept
<1> QED
  BY <1>1, <1>2, <1>3, <1>4, <1>5 DEF PeerOK, IsConnection

(* A channel comes at id, where a stage may start.                         *)
LEMMA AllocateOne ==
    ASSUME NEW c, NEW a, PeerOK(c, a), NEW id \in Ids, NEW stage \in Stages,
           NEW x \in ChannelState, x.local_window = Window, x.pending_replenish = 0
    PROVE  PeerOK(Allocate(c, id, x), WithApp(a, id, stage))
<1> DEFINE d == Allocate(c, id, x)
           b == WithApp(a, id, stage)
           y == [unread |-> 0, stage |-> stage]
<1>0. c = [channels |-> c.channels, next_local_id |-> c.next_local_id]
  BY DEF PeerOK, IsConnection
<1>1. /\ d.channels = [i \in Tracked(c) \cup {id} |-> IF i = id THEN x ELSE c.channels[i]]
      /\ d.next_local_id = (id + 1) % IdMod
      /\ d = [channels |-> d.channels, next_local_id |-> d.next_local_id]
  <2> DEFINE f == [i \in Tracked(c) \cup {id} |-> IF i = id THEN x ELSE c.channels[i]]
             n == (id + 1) % IdMod
  <2>1. d = [c EXCEPT !.channels = f, !.next_local_id = n]
    BY DEF Allocate
  <2> HIDE DEF f, n
  <2>2. d.channels = f /\ d.next_local_id = n /\ d = [channels |-> f, next_local_id |-> n]
    BY <1>0, <2>1
  <2> QED
    BY <2>2 DEF f, n
<1>2. Tracked(d) = Tracked(c) \cup {id}
  BY <1>1 DEF Tracked
<1>3. d.channels \in [Tracked(d) -> ChannelState]
  BY <1>1, <1>2 DEF PeerOK, IsConnection, Tracked
<1>4. y \in AppState /\ Accounted(x, y)
  BY WindowAssumption DEF AppState, Accounted, ChannelState
<1>5. DOMAIN a = Tracked(c)
  BY DEF PeerOK
<1>6. b = [i \in Tracked(c) \cup {id} |-> IF i = id THEN y ELSE a[i]]
  BY <1>5 DEF WithApp
<1>7. b \in [Tracked(d) -> AppState]
  BY <1>2, <1>4, <1>6 DEF PeerOK
<1>8. \A i \in Tracked(d) : Accounted(d.channels[i], b[i])
  BY <1>1, <1>2, <1>4, <1>6 DEF PeerOK
<1>9. (id + 1) % IdMod \in Ids
  BY IdAssumption DEF Ids
<1> QED
  BY <1>1, <1>2, <1>3, <1>7, <1>8, <1>9 DEF PeerOK, IsConnection

---------------------------------------------------------------------------
(* The methods of ConnectionState, as updates of one channel.              *)

LEMMA ChannelOK ==
    ASSUME NEW c, NEW a, PeerOK(c, a), NEW id \in Tracked(c)
    PROVE  /\ c.channels[id] \in ChannelState /\ a[id] \in AppState
           /\ Accounted(c.channels[id], a[id]) /\ id \in Ids
BY DEF PeerOK, IsConnection, Tracked

(* The frontend's part stays.                                              *)
LEMMA UpdateChannel ==
    ASSUME NEW c, NEW a, PeerOK(c, a), NEW id \in Tracked(c),
           NEW x \in ChannelState, Accounted(x, a[id])
    PROVE  PeerOK([c EXCEPT !.channels[id] = x], a)
<1>1. a = [a EXCEPT ![id] = a[id]]
  BY DEF PeerOK
<1>2. a[id] \in AppState
  BY ChannelOK
<1>3. PeerOK([c EXCEPT !.channels[id] = x], [a EXCEPT ![id] = a[id]])
  BY <1>2, UpdateOne
<1> QED
  BY <1>1, <1>3

(* The ConnectionState stays.                                              *)
LEMMA UpdateStage ==
    ASSUME NEW c, NEW a, PeerOK(c, a), NEW id \in Tracked(c), NEW stage \in Stages
    PROVE  PeerOK(c, [a EXCEPT ![id].stage = stage])
<1> DEFINE y == [a[id] EXCEPT !.stage = stage]
<1>1. y \in AppState /\ Accounted(c.channels[id], y)
  BY ChannelOK DEF AppState, Accounted
<1>2. a \in [Tracked(c) -> AppState]
  BY DEF PeerOK
<1>3. [a EXCEPT ![id].stage = stage] = [a EXCEPT ![id] = y]
  BY <1>2
<1> HIDE DEF y
<1> QED
  BY <1>1, <1>2, <1>3 DEF PeerOK

(* accept_open, on_channel_eof, send_eof and the like: no window changes.  *)
LEMMA UpdateFlags ==
    ASSUME NEW c, NEW a, PeerOK(c, a), NEW id \in Tracked(c)
    PROVE  /\ PeerOK(AcceptOpen(c, id), a)
           /\ PeerOK(SendEof(c, id), a)
           /\ PeerOK([c EXCEPT !.channels[id].eof = @ \cup {"remote"}], a)
           /\ PeerOK([c EXCEPT !.channels[id].closed = @ \cup {"remote"}], a)
           /\ PeerOK([c EXCEPT !.channels[id].closed = @ \cup {"local"}], a)
<1> DEFINE x == c.channels[id]
           x1 == [x EXCEPT !.open_confirmed = TRUE]
           x2 == [x EXCEPT !.eof = @ \cup {"local"}]
           x3 == [x EXCEPT !.eof = @ \cup {"remote"}]
           x4 == [x EXCEPT !.closed = @ \cup {"remote"}]
           x5 == [x EXCEPT !.closed = @ \cup {"local"}]
<1>0. x \in ChannelState /\ Accounted(x, a[id]) /\ a[id] \in AppState
  BY ChannelOK
<1>1. /\ AcceptOpen(c, id) = [c EXCEPT !.channels[id] = x1]
      /\ SendEof(c, id) = [c EXCEPT !.channels[id] = x2]
      /\ [c EXCEPT !.channels[id].eof = @ \cup {"remote"}] = [c EXCEPT !.channels[id] = x3]
      /\ [c EXCEPT !.channels[id].closed = @ \cup {"remote"}] = [c EXCEPT !.channels[id] = x4]
      /\ [c EXCEPT !.channels[id].closed = @ \cup {"local"}] = [c EXCEPT !.channels[id] = x5]
  BY DEF AcceptOpen, SendEof
<1>2. /\ x1 \in ChannelState /\ x2 \in ChannelState /\ x3 \in ChannelState
      /\ x4 \in ChannelState /\ x5 \in ChannelState
  BY <1>0 DEF ChannelState, Sides
<1>3. /\ Accounted(x1, a[id]) /\ Accounted(x2, a[id]) /\ Accounted(x3, a[id])
      /\ Accounted(x4, a[id]) /\ Accounted(x5, a[id])
  BY <1>0, WindowAssumption DEF ChannelState, Accounted, AppState
<1> HIDE DEF x1, x2, x3, x4, x5
<1> QED
  BY <1>1, <1>2, <1>3, UpdateChannel

LEMMA KeptAll ==
    ASSUME NEW c, NEW a, PeerOK(c, a)
    PROVE  Kept(a, c) = a
BY DEF PeerOK, Kept

LEMMA SendCloseOK ==
    ASSUME NEW c, NEW a, PeerOK(c, a), NEW id \in Tracked(c)
    PROVE  PeerOK(SendClose(c, id), Kept(a, SendClose(c, id)))
<1>1. CASE "remote" \in c.channels[id].closed
  BY <1>1, RemoveOne DEF SendClose
<1>2. CASE "remote" \notin c.channels[id].closed
  <2>1. PeerOK(SendClose(c, id), a)
    BY <1>2, UpdateFlags DEF SendClose
  <2> QED
    BY <2>1, KeptAll
<1> QED
  BY <1>1, <1>2

LEMMA OnChannelCloseOK ==
    ASSUME NEW c, NEW a, PeerOK(c, a), NEW m, m.ch \in Tracked(c)
    PROVE  /\ PeerOK(OnChannelClose(c, m), Kept(a, OnChannelClose(c, m)))
           /\ "local" \notin c.channels[m.ch].closed => PeerOK(OnChannelClose(c, m), a)
<1>1. CASE "local" \in c.channels[m.ch].closed
  BY <1>1, RemoveOne DEF OnChannelClose
<1>2. CASE "local" \notin c.channels[m.ch].closed
  <2>1. PeerOK(OnChannelClose(c, m), a)
    BY <1>2, UpdateFlags DEF OnChannelClose
  <2> QED
    BY <2>1, KeptAll
<1> QED
  BY <1>1, <1>2

(* send_data: what the window holds, at most.                              *)
LEMMA TakenOK ==
    ASSUME NEW c, NEW a, PeerOK(c, a), NEW id \in Tracked(c), NEW n \in Nat, NEW kind
    PROVE  /\ Taken(c, id, kind, n) \in Nat /\ Taken(c, id, kind, n) <= n
           /\ Taken(c, id, kind, n) <= c.channels[id].remote_window
           /\ Capacity(c.channels[id], kind) <= c.channels[id].remote_window
<1>1. c.channels[id].remote_window \in Nat /\ c.channels[id].remote_max_packet \in Nat
  BY ChannelOK DEF ChannelState
<1> QED
  BY <1>1 DEF Taken, Capacity, MinOf, HeaderLen

LEMMA SendDataOK ==
    ASSUME NEW c, NEW a, PeerOK(c, a), NEW id \in Tracked(c), NEW n \in Nat,
           n <= c.channels[id].remote_window
    PROVE  PeerOK(SendData(c, id, n), a)
<1> DEFINE x == [c.channels[id] EXCEPT !.remote_window = @ - n]
<1>0. c.channels[id] \in ChannelState /\ a[id] \in AppState /\ Accounted(c.channels[id], a[id])
  BY ChannelOK
<1>1. c.channels[id].remote_window - n \in Nat
  BY <1>0 DEF ChannelState
<1>2. x \in ChannelState /\ Accounted(x, a[id])
  BY <1>0, <1>1 DEF ChannelState, Accounted
<1>3. SendData(c, id, n) = [c EXCEPT !.channels[id] = x]
  BY DEF SendData
<1> HIDE DEF x
<1> QED
  BY <1>2, <1>3, UpdateChannel

(* on_window_adjust and on_open_confirmation: the peer's windows.          *)
LEMMA AdjustOK ==
    ASSUME NEW c, NEW a, PeerOK(c, a), NEW id \in Tracked(c), NEW n \in Nat
    PROVE  PeerOK([c EXCEPT !.channels[id].remote_window = @ + n], a)
<1> DEFINE x == [c.channels[id] EXCEPT !.remote_window = @ + n]
<1>0. c.channels[id] \in ChannelState /\ a[id] \in AppState /\ Accounted(c.channels[id], a[id])
  BY ChannelOK
<1>1. c.channels[id].remote_window + n \in Nat
  BY <1>0 DEF ChannelState
<1>2. x \in ChannelState /\ Accounted(x, a[id])
  BY <1>0, <1>1 DEF ChannelState, Accounted
<1>3. [c EXCEPT !.channels[id].remote_window = @ + n] = [c EXCEPT !.channels[id] = x]
  OBVIOUS
<1> HIDE DEF x
<1> QED
  BY <1>2, <1>3, UpdateChannel

LEMMA ConfirmOK ==
    ASSUME NEW c, NEW a, PeerOK(c, a), NEW m \in Message, m.ch \in Tracked(c)
    PROVE  PeerOK(OnOpenConfirmation(c, m), a)
<1> DEFINE old == c.channels[m.ch]
           x == [old EXCEPT !.remote_id = m.from, !.remote_window = m.n,
                            !.remote_max_packet = m.max, !.open_confirmed = TRUE]
<1>0. old \in ChannelState /\ a[m.ch] \in AppState /\ Accounted(old, a[m.ch])
  BY ChannelOK
<1>1. m.from \in Ids /\ m.n \in Nat /\ m.max \in Nat
  BY DEF Message
<1>2. x \in ChannelState
  BY <1>0, <1>1 DEF ChannelState
<1>3. Accounted(x, a[m.ch])
  BY <1>0 DEF ChannelState, Accounted
<1>4. c.channels \in [Tracked(c) -> ChannelState]
  BY DEF PeerOK, IsConnection
<1>5. OnOpenConfirmation(c, m) = [c EXCEPT !.channels[m.ch] = x]
  BY <1>4 DEF OnOpenConfirmation
<1> HIDE DEF x
<1> QED
  BY <1>2, <1>3, <1>5, UpdateChannel

(* on_channel_data: the bytes move from the window to the queue.           *)
LEMMA DataOK ==
    ASSUME NEW c, NEW a, PeerOK(c, a), NEW id \in Tracked(c), NEW n \in Nat,
           n <= c.channels[id].local_window
    PROVE  PeerOK([c EXCEPT !.channels[id].local_window = @ - n], [a EXCEPT ![id].unread = @ + n])
<1> DEFINE x == [c.channels[id] EXCEPT !.local_window = @ - n]
           y == [a[id] EXCEPT !.unread = @ + n]
<1>0. c.channels[id] \in ChannelState /\ a[id] \in AppState /\ Accounted(c.channels[id], a[id])
  BY ChannelOK
<1>1. c.channels[id].local_window - n \in Nat /\ a[id].unread + n \in Nat
  BY <1>0 DEF ChannelState, AppState
<1>2. x \in ChannelState /\ y \in AppState
  BY <1>0, <1>1 DEF ChannelState, AppState
<1>3. Accounted(x, y)
  BY <1>0, <1>1, WindowAssumption DEF ChannelState, AppState, Accounted
<1>4. /\ [c EXCEPT !.channels[id].local_window = @ - n] = [c EXCEPT !.channels[id] = x]
      /\ [a EXCEPT ![id].unread = @ + n] = [a EXCEPT ![id] = y]
  OBVIOUS
<1> HIDE DEF x, y
<1> QED
  BY <1>2, <1>3, <1>4, UpdateOne

(* replenish_window: the bytes move from the queue to the counter, and     *)
(* from there to the window.                                               *)
LEMMA ReplenishOK ==
    ASSUME NEW c, NEW a, PeerOK(c, a), NEW id \in Tracked(c), NEW k \in Nat,
           k <= a[id].unread
    PROVE  PeerOK(ReplenishWindow(c, id, k), [a EXCEPT ![id].unread = @ - k])
<1> DEFINE old == c.channels[id]
           y == [a[id] EXCEPT !.unread = @ - k]
           flushed == [old EXCEPT !.pending_replenish = 0,
                                  !.local_window = @ + old.pending_replenish + k]
           counted == [old EXCEPT !.pending_replenish = @ + k]
<1>0. old \in ChannelState /\ a[id] \in AppState /\ Accounted(old, a[id])
  BY ChannelOK
<1>1. /\ a[id].unread - k \in Nat /\ old.pending_replenish + k \in Nat
      /\ old.local_window + old.pending_replenish + k \in Nat
  BY <1>0 DEF ChannelState, AppState
<1>2. y \in AppState /\ flushed \in ChannelState /\ counted \in ChannelState
  BY <1>0, <1>1 DEF ChannelState, AppState
<1>3. [a EXCEPT ![id].unread = @ - k] = [a EXCEPT ![id] = y]
  OBVIOUS
<1>4. c = [c EXCEPT !.channels[id] = old]
  BY DEF PeerOK, IsConnection
<1>5. "local" \in old.closed => Accounted(old, y)
  BY <1>0, <1>1, WindowAssumption DEF ChannelState, AppState, Accounted
<1>6. "local" \notin old.closed => Accounted(flushed, y) /\ Accounted(counted, y)
  BY <1>0, <1>1, WindowAssumption DEF ChannelState, AppState, Accounted
<1>7. ReplenishWindow(c, id, k) =
          IF "local" \in old.closed THEN [c EXCEPT !.channels[id] = old]
          ELSE IF Replenishes(c, id, k) THEN [c EXCEPT !.channels[id] = flushed]
          ELSE [c EXCEPT !.channels[id] = counted]
  <2>1. c.channels \in [Tracked(c) -> ChannelState]
    BY DEF PeerOK, IsConnection
  <2>2. [c EXCEPT !.channels[id].pending_replenish = 0,
                  !.channels[id].local_window = @ + old.pending_replenish + k]
        = [c EXCEPT !.channels[id] = flushed]
    BY <2>1
  <2> QED
    BY <1>4, <2>2 DEF ReplenishWindow
<1> HIDE DEF old, y, flushed, counted
<1>8. "local" \in old.closed => PeerOK([c EXCEPT !.channels[id] = old], [a EXCEPT ![id] = y])
  BY <1>0, <1>2, <1>5, UpdateOne
<1>9. "local" \notin old.closed => /\ PeerOK([c EXCEPT !.channels[id] = flushed], [a EXCEPT ![id] = y])
                                  /\ PeerOK([c EXCEPT !.channels[id] = counted], [a EXCEPT ![id] = y])
  BY <1>2, <1>6, UpdateOne
<1> QED
  BY <1>3, <1>7, <1>8, <1>9

---------------------------------------------------------------------------
(* Messages.                                                               *)

LEMMA MsgOK ==
    ASSUME NEW t \in MsgTypes, NEW x \in ChannelState, NEW n \in Nat
    PROVE  /\ Msg(t, x, n) \in Message
           /\ [Msg(t, x, n) EXCEPT !.want = TRUE] \in Message
           /\ \A i \in Ids : [Msg(t, x, n) EXCEPT !.from = i, !.max = MaxPacket] \in Message
<1>1. 0 \in Ids /\ MaxPacket \in Nat
  BY IdAssumption, WindowAssumption DEF Ids
<1>2. x.remote_id \in Ids /\ x.tag \in Nat
  BY DEF ChannelState
<1>3. Msg(t, x, n) \in Message
  BY <1>1, <1>2 DEF Msg, Message
<1> QED
  BY <1>1, <1>3 DEF Message

---------------------------------------------------------------------------
(* A step changes one side and sends some messages.                        *)

LEMMA PeerFacts ==
    ASSUME Inv, NEW p \in Peers
    PROVE  /\ PeerOK(conn[p], app[p]) /\ Other(p) \in Peers /\ Other(p) # p
           /\ wire[p] \in Seq(Message) /\ wire[Other(p)] \in Seq(Message) /\ left[p] \in Nat
BY DEF Inv, RestOK, Peers, Other

LEMMA UpdateInv ==
    ASSUME Inv, NEW p \in Peers, NEW c, NEW a, NEW ms \in Seq(Message), PeerOK(c, a),
           Update(p, c, a, ms), opens' \in Nat, left' \in [Peers -> Nat], err' \in Errors
    PROVE  Inv'
<1>1. wire' \in [Peers -> Seq(Message)]
  <2>1. wire[Other(p)] \o ms \in Seq(Message)
    BY PeerFacts
  <2> QED
    BY <2>1, PeerFacts DEF Update, Inv, RestOK
<1>2. DOMAIN conn' = Peers /\ DOMAIN app' = Peers
  BY DEF Update, Inv, RestOK
<1>3. \A q \in Peers : PeerOK(conn'[q], app'[q])
  <2> TAKE q \in Peers
  <2>1. CASE q = p
    <3>1. conn'[q] = c /\ app'[q] = a
      BY <2>1 DEF Update, Inv, RestOK
    <3> QED
      BY <3>1
  <2>2. CASE q # p
    <3>1. conn'[q] = conn[q] /\ app'[q] = app[q]
      BY <2>2 DEF Update, Inv, RestOK
    <3> QED
      BY <3>1 DEF Inv
  <2> QED
    BY <2>1, <2>2
<1>4. RestOK'
  BY <1>1, <1>2 DEF RestOK
<1>5. (\A q \in Peers : PeerOK(conn[q], app[q]))'
  BY <1>3 DEF PeerOK, IsConnection, Tracked, Accounted
<1> QED
  BY <1>4, <1>5 DEF Inv

LEMMA TakeInv ==
    ASSUME Inv, NEW p \in Peers, NEW c, NEW a, NEW ms \in Seq(Message), PeerOK(c, a),
           wire[p] # <<>>, Take(p, c, a, ms)
    PROVE  Inv'
<1>1. wire' \in [Peers -> Seq(Message)]
  <2>1. wire[Other(p)] \o ms \in Seq(Message) /\ Tail(wire[p]) \in Seq(Message)
    BY PeerFacts
  <2>2. wire' = [wire EXCEPT ![p] = Tail(wire[p]), ![Other(p)] = wire[Other(p)] \o ms]
    BY PeerFacts DEF Take, Inv, RestOK
  <2> QED
    BY <2>1, <2>2, PeerFacts DEF Inv, RestOK
<1>2. DOMAIN conn' = Peers /\ DOMAIN app' = Peers
  BY DEF Take, Inv, RestOK
<1>3. \A q \in Peers : PeerOK(conn'[q], app'[q])
  <2> TAKE q \in Peers
  <2>1. CASE q = p
    <3>1. conn'[q] = c /\ app'[q] = a
      BY <2>1 DEF Take, Inv, RestOK
    <3> QED
      BY <3>1
  <2>2. CASE q # p
    <3>1. conn'[q] = conn[q] /\ app'[q] = app[q]
      BY <2>2 DEF Take, Inv, RestOK
    <3> QED
      BY <3>1 DEF Inv
  <2> QED
    BY <2>1, <2>2
<1>4. RestOK'
  BY <1>1, <1>2 DEF RestOK, Take, Inv
<1>5. (\A q \in Peers : PeerOK(conn[q], app[q]))'
  BY <1>3 DEF PeerOK, IsConnection, Tracked, Accounted
<1> QED
  BY <1>4, <1>5 DEF Inv

---------------------------------------------------------------------------
(* What the frontends do of their own accord.                              *)

LEMMA OpenInv ==
    ASSUME Inv, NEW p \in Peers, Open(p)
    PROVE  Inv'
<1>1. PICK id \in Ids : Update(p, OpenState(conn[p], id, opens),
                               WithApp(app[p], id, "opening"), <<OpenMsg(id, opens)>>)
  BY DEF Open
<1> DEFINE x == FreshChannel(0, 0, 0, TRUE, opens)
           m == OpenMsg(id, opens)
<1>2. opens \in Nat /\ 0 \in Ids
  BY IdAssumption DEF Inv, RestOK, Ids
<1>3. x \in ChannelState /\ x.local_window = Window /\ x.pending_replenish = 0
  BY <1>2, WindowAssumption DEF FreshChannel, ChannelState
<1>4. m \in Message
  BY <1>2, WindowAssumption DEF OpenMsg, Message, MsgTypes
<1>5. <<m>> \in Seq(Message)
  <2> HIDE DEF m
  <2> QED
    BY <1>4
<1>6. PeerOK(OpenState(conn[p], id, opens), WithApp(app[p], id, "opening"))
  <2> HIDE DEF x
  <2>1. PeerOK(Allocate(conn[p], id, x), WithApp(app[p], id, "opening"))
    BY <1>3, PeerFacts, AllocateOne DEF Stages
  <2> QED
    BY <2>1 DEF OpenState, x
<1>7. opens' \in Nat /\ left' \in [Peers -> Nat] /\ err' \in Errors
  BY <1>2 DEF Open, Inv, RestOK
<1> QED
  BY <1>1, <1>5, <1>6, <1>7, UpdateInv

LEMMA LiveFacts ==
    ASSUME Inv, NEW p \in Peers, NEW id, Live(p, id)
    PROVE  /\ id \in Tracked(conn[p]) /\ PeerOK(conn[p], app[p])
           /\ Chan(p, id) \in ChannelState /\ app[p][id] \in AppState
BY PeerFacts, ChannelOK DEF Live, Chan

LEMMA StartRequestInv ==
    ASSUME Inv, NEW id \in Ids, StartRequest(id)
    PROVE  Inv'
<1> DEFINE m == [Msg("REQUEST", Chan("c", id), 0) EXCEPT !.want = TRUE]
<1>0. Live("c", id) /\ "c" \in Peers
  BY DEF StartRequest, Peers
<1>1. m \in Message
  BY <1>0, LiveFacts, MsgOK DEF MsgTypes
<1>2. <<m>> \in Seq(Message)
  <2> HIDE DEF m
  <2> QED
    BY <1>1
<1>3. PeerOK(conn["c"], Staged("c", id, "asked"))
  BY <1>0, LiveFacts, UpdateStage DEF Staged, Stages
<1>4. opens' \in Nat /\ left' \in [Peers -> Nat] /\ err' \in Errors
  BY DEF StartRequest, Inv, RestOK
<1>5. Update("c", conn["c"], Staged("c", id, "asked"), <<m>>)
  BY DEF StartRequest
<1> HIDE DEF m
<1> QED
  BY <1>0, <1>2, <1>3, <1>4, <1>5, UpdateInv

LEMMA WindowChangeInv ==
    ASSUME Inv, NEW id \in Ids, WindowChange(id)
    PROVE  Inv'
<1> DEFINE m == Msg("REQUEST", Chan("c", id), 0)
<1>0. Live("c", id) /\ "c" \in Peers
  BY DEF WindowChange, Peers
<1>1. m \in Message
  BY <1>0, LiveFacts, MsgOK DEF MsgTypes
<1>2. <<m>> \in Seq(Message)
  <2> HIDE DEF m
  <2> QED
    BY <1>1
<1>3. opens' \in Nat /\ left' \in [Peers -> Nat] /\ err' \in Errors
  BY <1>0 DEF WindowChange, Inv, RestOK
<1>4. Update("c", conn["c"], app["c"], <<m>>)
  BY DEF WindowChange
<1> HIDE DEF m
<1> QED
  BY <1>0, <1>2, <1>3, <1>4, LiveFacts, UpdateInv

(* Data of one kind goes out: no more than the window and what is left.    *)
LEMMA ShipInv ==
    ASSUME Inv, NEW p \in Peers, NEW id, Live(p, id), NEW kind \in {"DATA", "EXTENDED_DATA"},
           NEW take \in Nat, take <= left[p], take <= Chan(p, id).remote_window,
           Ship(p, id, kind, take)
    PROVE  Inv'
<1> DEFINE m == Msg(kind, Chan(p, id), take)
<1>1. m \in Message
  BY LiveFacts, MsgOK DEF MsgTypes
<1>2. <<m>> \in Seq(Message)
  <2> HIDE DEF m
  <2> QED
    BY <1>1
<1>3. PeerOK(SendData(conn[p], id, take), app[p])
  BY LiveFacts, SendDataOK DEF Chan
<1>4. left[p] - take \in Nat
  BY PeerFacts
<1>5. opens' \in Nat /\ left' \in [Peers -> Nat] /\ err' \in Errors
  BY <1>4 DEF Ship, Inv, RestOK
<1>6. Update(p, SendData(conn[p], id, take), app[p], <<m>>)
  BY DEF Ship
<1> HIDE DEF m
<1> QED
  BY <1>2, <1>3, <1>5, <1>6, UpdateInv

LEMMA WriteDataInv ==
    ASSUME Inv, NEW p \in Peers, NEW id \in Ids, NEW n \in 1 .. MaxWrite, WriteData(p, id, n)
    PROVE  Inv'
<1> DEFINE take == Taken(conn[p], id, "DATA", n)
<1>1. Live(p, id) /\ n <= left[p] /\ Ship(p, id, "DATA", take)
  BY DEF WriteData
<1>2. n \in Nat /\ left[p] \in Nat
  BY PeerFacts, BoundsAssumption
<1>3. take \in Nat /\ take <= n /\ take <= Chan(p, id).remote_window
  BY <1>1, <1>2, LiveFacts, TakenOK DEF Chan
<1> HIDE DEF take
<1>4. take <= left[p]
  BY <1>1, <1>2, <1>3
<1> QED
  BY <1>1, <1>3, <1>4, ShipInv

LEMMA WriteStderrInv ==
    ASSUME Inv, NEW id \in Ids, NEW n \in 1 .. MaxWrite, WriteStderr(id, n)
    PROVE  Inv'
<1> DEFINE take == Taken(conn["s"], id, "EXTENDED_DATA", n)
<1>1. /\ Live("s", id) /\ n <= left["s"] /\ Ship("s", id, "EXTENDED_DATA", take)
      /\ "s" \in Peers
  BY DEF WriteStderr, Peers
<1>2. n \in Nat /\ left["s"] \in Nat
  BY <1>1, PeerFacts, BoundsAssumption
<1>3. take \in Nat /\ take <= n /\ take <= Chan("s", id).remote_window
  BY <1>1, <1>2, LiveFacts, TakenOK DEF Chan
<1> HIDE DEF take
<1>4. take <= left["s"]
  BY <1>1, <1>2, <1>3
<1> QED
  BY <1>1, <1>3, <1>4, ShipInv

LEMMA WriteDatagramInv ==
    ASSUME Inv, NEW p \in Peers, NEW id \in Ids, NEW n \in 1 .. MaxWrite,
           WriteDatagram(p, id, n)
    PROVE  Inv'
<1>1. Live(p, id) /\ n <= left[p]
  BY DEF WriteDatagram
<1>2. n \in Nat /\ left[p] \in Nat
  BY PeerFacts, BoundsAssumption
<1>3. CASE CanSendDatagram(conn[p], id, n)
  <2>1. n <= Capacity(Chan(p, id), "DATA") /\ Ship(p, id, "DATA", n)
    BY <1>3 DEF CanSendDatagram, WriteDatagram, Chan
  <2>2. Capacity(Chan(p, id), "DATA") <= Chan(p, id).remote_window
    BY <1>1, <1>2, LiveFacts, TakenOK DEF Chan
  <2>3. Capacity(Chan(p, id), "DATA") \in Nat /\ Chan(p, id).remote_window \in Nat
    BY <1>1, LiveFacts DEF ChannelState, Capacity, MinOf, HeaderLen
  <2>4. n <= Chan(p, id).remote_window
    BY <1>2, <2>1, <2>2, <2>3
  <2> QED
    BY <1>1, <1>2, <2>1, <2>4, ShipInv
<1>4. CASE ~CanSendDatagram(conn[p], id, n)
  <2>1. left' = [left EXCEPT ![p] = @ - n] /\ UNCHANGED <<conn, app, wire, opens, err>>
    BY <1>4 DEF WriteDatagram
  <2>2. left[p] - n \in Nat
    BY <1>1, <1>2
  <2>3. RestOK'
    BY <2>1, <2>2 DEF Inv, RestOK
  <2> QED
    BY <2>1, <2>3 DEF Inv, PeerOK, IsConnection, Tracked, Accounted
<1> QED
  BY <1>3, <1>4

LEMMA EofMsgsOK ==
    ASSUME Inv, NEW p \in Peers, NEW id, Live(p, id)
    PROVE  EofMsgs(p, id) \in Seq(Message)
<1> DEFINE m == Msg("EOF", Chan(p, id), 0)
<1>1. m \in Message
  BY LiveFacts, MsgOK DEF MsgTypes
<1> HIDE DEF m
<1>2. <<m>> \in Seq(Message) /\ <<>> \in Seq(Message)
  BY <1>1
<1> QED
  BY <1>2 DEF EofMsgs, m

LEMMA HalfCloseInv ==
    ASSUME Inv, NEW p \in Peers, NEW id \in Ids, HalfClose(p, id)
    PROVE  Inv'
<1>0. Live(p, id) /\ Update(p, SendEof(conn[p], id), app[p], EofMsgs(p, id))
  BY DEF HalfClose
<1>1. EofMsgs(p, id) \in Seq(Message)
  BY <1>0, EofMsgsOK
<1>2. PeerOK(SendEof(conn[p], id), app[p])
  BY <1>0, LiveFacts, UpdateFlags
<1>3. opens' \in Nat /\ left' \in [Peers -> Nat] /\ err' \in Errors
  BY DEF HalfClose, Inv, RestOK
<1> QED
  BY <1>0, <1>1, <1>2, <1>3, UpdateInv

LEMMA FinishInv ==
    ASSUME Inv, NEW p \in Peers, NEW id, Live(p, id), NEW before \in Seq(Message),
           Finish(p, id, before)
    PROVE  Inv'
<1> DEFINE eofed == SendEof(conn[p], id)
           c == SendClose(eofed, id)
           m == Msg("CLOSE", Chan(p, id), 0)
           ms == before \o EofMsgs(p, id) \o <<m>>
<1>1. m \in Message
  BY LiveFacts, MsgOK DEF MsgTypes
<1>2. ms \in Seq(Message)
  <2> HIDE DEF m
  <2>1. <<m>> \in Seq(Message) /\ EofMsgs(p, id) \in Seq(Message)
    BY <1>1, EofMsgsOK
  <2> QED
    BY <2>1
<1>3. PeerOK(c, Kept(app[p], c))
  <2>1. PeerOK(eofed, app[p])
    BY LiveFacts, UpdateFlags
  <2>2. id \in Tracked(eofed)
    BY <2>1, LiveFacts DEF PeerOK
  <2> HIDE DEF eofed
  <2> QED
    BY <2>1, <2>2, SendCloseOK
<1>4. opens' \in Nat /\ left' \in [Peers -> Nat] /\ err' \in Errors
  BY DEF Finish, Inv, RestOK
<1>5. Update(p, c, Kept(app[p], c), ms)
  BY DEF Finish
<1> HIDE DEF c, ms
<1> QED
  BY <1>2, <1>3, <1>4, <1>5, UpdateInv

LEMMA CloseInv ==
    ASSUME Inv, NEW p \in Peers, NEW id \in Ids, Close(p, id)
    PROVE  Inv'
<1>1. Live(p, id) /\ Finish(p, id, <<>>)
  BY DEF Close
<1>2. <<>> \in Seq(Message)
  OBVIOUS
<1> QED
  BY <1>1, <1>2, FinishInv

LEMMA FinalizeExitedInv ==
    ASSUME Inv, NEW id \in Ids, FinalizeExited(id)
    PROVE  Inv'
<1> DEFINE m == Msg("REQUEST", Chan("s", id), 0)
<1>1. Live("s", id) /\ Finish("s", id, <<m>>) /\ "s" \in Peers
  BY DEF FinalizeExited, Peers
<1>2. m \in Message
  BY <1>1, LiveFacts, MsgOK DEF MsgTypes
<1> HIDE DEF m
<1>3. <<m>> \in Seq(Message)
  BY <1>2
<1> QED
  BY <1>1, <1>3, FinishInv

LEMMA CloseIdleInv ==
    ASSUME Inv, NEW id \in Ids, CloseIdle(id)
    PROVE  Inv'
<1>1. Live("s", id) /\ Finish("s", id, <<>>) /\ "s" \in Peers
  BY DEF CloseIdle, Peers
<1>2. <<>> \in Seq(Message)
  OBVIOUS
<1> QED
  BY <1>1, <1>2, FinishInv

LEMMA ConsumeInv ==
    ASSUME Inv, NEW p \in Peers, NEW id \in Ids, NEW k \in 1 .. Window, Consume(p, id, k)
    PROVE  Inv'
<1> DEFINE credit == Chan(p, id).pending_replenish + k
           m == Msg("WINDOW_ADJUST", Chan(p, id), credit)
           ms == IF Replenishes(conn[p], id, k) THEN <<m>> ELSE <<>>
           a == [app[p] EXCEPT ![id].unread = @ - k]
<1>1. /\ Live(p, id) /\ k <= app[p][id].unread
      /\ Update(p, ReplenishWindow(conn[p], id, k), a, ms)
  BY DEF Consume
<1>2. k \in Nat /\ credit \in Nat
  BY <1>1, LiveFacts, WindowAssumption DEF ChannelState
<1>3. m \in Message
  <2> HIDE DEF credit
  <2> QED
    BY <1>1, <1>2, LiveFacts, MsgOK DEF MsgTypes
<1>4. ms \in Seq(Message)
  <2> HIDE DEF m
  <2>1. <<m>> \in Seq(Message) /\ <<>> \in Seq(Message)
    BY <1>3
  <2> QED
    BY <2>1
<1>5. PeerOK(ReplenishWindow(conn[p], id, k), a)
  BY <1>1, <1>2, LiveFacts, ReplenishOK
<1>6. opens' \in Nat /\ left' \in [Peers -> Nat] /\ err' \in Errors
  BY DEF Consume, Inv, RestOK
<1> HIDE DEF ms, a
<1> QED
  BY <1>1, <1>4, <1>5, <1>6, UpdateInv

---------------------------------------------------------------------------
(* Inbound packets.                                                        *)

LEMMA HeadOK ==
    ASSUME Inv, NEW p \in Peers, NEW m, wire[p] # <<>>, m = Head(wire[p])
    PROVE  /\ m \in Message /\ m.ch \in Ids /\ m.from \in Ids
           /\ m.n \in Nat /\ m.max \in Nat /\ m.tag \in Nat /\ m.t \in MsgTypes
<1>1. m \in Message
  BY PeerFacts
<1> QED
  BY <1>1 DEF Message

(* on_packet fails for an unknown channel, and for data past the window.   *)
LEMMA ErrorOK ==
    ASSUME Inv, NEW p \in Peers, NEW m, wire[p] # <<>>, m = Head(wire[p])
    PROVE  /\ PacketError(conn[p], m) \in Errors
           /\ PacketError(conn[p], m) = "none" /\ m.t # "OPEN" => m.ch \in Tracked(conn[p])
           /\ PacketError(conn[p], m) = "none" /\ m.t \in {"DATA", "EXTENDED_DATA"}
                 => m.n <= Chan(p, m.ch).local_window
<1> DEFINE e == PacketError(conn[p], m)
           x == conn[p].channels[m.ch]
<1>1. m.t # "OPEN" /\ m.ch \notin Tracked(conn[p]) => e \in {"unknown channel", "BadChannelState"}
  BY DEF PacketError
<1>2. CASE m.t = "OPEN"
  BY <1>2 DEF PacketError, Errors
<1>3. CASE m.t # "OPEN" /\ m.ch \notin Tracked(conn[p])
  BY <1>1, <1>3 DEF Errors
<1>4. CASE m.t # "OPEN" /\ m.ch \in Tracked(conn[p])
  <2>1. CASE m.t \in Answers
    <3>1. e = AnswerError(x, m.t)
      BY <1>4, <2>1 DEF PacketError, Answers
    <3> QED
      BY <1>4, <2>1, <3>1 DEF AnswerError, Errors, Answers
  <2>2. CASE m.t \in {"DATA", "EXTENDED_DATA"}
    <3>1. e = DataError(x, m.n)
      BY <1>4, <2>2 DEF PacketError, Answers
    <3>2. x.local_window \in Nat /\ m.n \in Nat
      BY <1>4, HeadOK, PeerFacts, ChannelOK DEF ChannelState
    <3>3. DataError(x, m.n) = "none" => m.n <= x.local_window
      BY <3>2 DEF DataError
    <3>4. DataError(x, m.n) \in Errors
      BY DEF DataError, Errors
    <3> QED
      BY <1>4, <3>1, <3>3, <3>4 DEF Chan
  <2>3. CASE m.t \notin Answers \cup {"DATA", "EXTENDED_DATA"}
    <3>1. e \in {"none", "channel not yet open"}
      BY <1>4, <2>3 DEF PacketError
    <3> QED
      BY <1>4, <2>3, <3>1 DEF Errors
  <2> QED
    BY <2>1, <2>2, <2>3
<1> QED
  BY <1>2, <1>3, <1>4

LEMMA ReadFacts ==
    ASSUME Inv, NEW p \in Peers, NEW m, Reads(p, m)
    PROVE  /\ wire[p] # <<>> /\ m = Head(wire[p]) /\ m \in Message
           /\ PeerOK(conn[p], app[p])
           /\ m.t # "OPEN" => m.ch \in Tracked(conn[p]) /\ Chan(p, m.ch) \in ChannelState
BY HeadOK, ErrorOK, PeerFacts, ChannelOK DEF Reads, Chan

LEMMA OpenFailureOK ==
    ASSUME NEW m \in Message
    PROVE  <<OpenFailure(m)>> \in Seq(Message)
<1>1. 0 \in Ids
  BY IdAssumption DEF Ids
<1>2. OpenFailure(m) \in Message
  BY <1>1 DEF OpenFailure, Message, MsgTypes
<1> QED
  BY <1>2

LEMMA RefuseOpenInv ==
    ASSUME Inv, NEW p \in Peers, NEW m, RefuseOpen(p, m)
    PROVE  Inv'
<1>1. Reads(p, m) /\ Take(p, conn[p], app[p], <<OpenFailure(m)>>)
  BY DEF RefuseOpen
<1>2. /\ wire[p] # <<>> /\ PeerOK(conn[p], app[p]) /\ <<OpenFailure(m)>> \in Seq(Message)
  BY <1>1, ReadFacts, OpenFailureOK
<1> QED
  BY <1>1, <1>2, TakeInv

(* on_channel_open tracks the channel the message asks for.                *)
LEMMA OnChannelOpenOK ==
    ASSUME NEW c, NEW a, PeerOK(c, a), NEW m \in Message, NEW id \in Ids,
           NEW stage \in Stages
    PROVE  PeerOK(OnChannelOpen(c, id, m), WithApp(a, id, stage))
<1> DEFINE x == FreshChannel(m.from, m.n, m.max, FALSE, m.tag)
<1>1. m.from \in Ids /\ m.n \in Nat /\ m.max \in Nat /\ m.tag \in Nat
  BY DEF Message
<1>3. x \in ChannelState /\ x.local_window = Window /\ x.pending_replenish = 0
  BY <1>1, WindowAssumption DEF FreshChannel, ChannelState
<1> HIDE DEF x
<1>4. PeerOK(Allocate(c, id, x), WithApp(a, id, stage))
  BY <1>3, AllocateOne
<1> QED
  BY <1>4 DEF OnChannelOpen, x

LEMMA AllocateTracked ==
    ASSUME NEW c, NEW a, PeerOK(c, a), NEW id, NEW m
    PROVE  Tracked(OnChannelOpen(c, id, m)) = Tracked(c) \cup {id}
<1> DEFINE x == FreshChannel(m.from, m.n, m.max, FALSE, m.tag)
           f == [i \in Tracked(c) \cup {id} |-> IF i = id THEN x ELSE c.channels[i]]
           n == (id + 1) % IdMod
<1>1. OnChannelOpen(c, id, m) = [c EXCEPT !.channels = f, !.next_local_id = n]
  BY DEF OnChannelOpen, Allocate
<1>2. c = [channels |-> c.channels, next_local_id |-> c.next_local_id]
  BY DEF PeerOK, IsConnection
<1>3. DOMAIN f = Tracked(c) \cup {id}
  OBVIOUS
<1> HIDE DEF f, n
<1> QED
  BY <1>1, <1>2, <1>3 DEF Tracked

LEMMA AcceptRequestInv ==
    ASSUME Inv, NEW p \in Peers, NEW m, AcceptRequest(p, m)
    PROVE  Inv'
<1> DEFINE stage == IF p = "s" THEN "idle" ELSE "running"
<1>1. Reads(p, m)
  BY DEF AcceptRequest
<1>2. PICK id \in Ids :
          Take(p, AcceptOpen(OnChannelOpen(conn[p], id, m), id), WithApp(app[p], id, stage),
               <<AcceptMsg(OnChannelOpen(conn[p], id, m), id)>>)
  BY DEF AcceptRequest
<1> DEFINE c == OnChannelOpen(conn[p], id, m)
           a == WithApp(app[p], id, stage)
<1>3. PeerOK(c, a)
  BY <1>1, ReadFacts, OnChannelOpenOK DEF Stages
<1>4. id \in Tracked(c)
  BY <1>1, ReadFacts, AllocateTracked
<1>5. Take(p, AcceptOpen(c, id), a, <<AcceptMsg(c, id)>>)
  BY <1>2
<1> HIDE DEF c, a
<1>6. PeerOK(AcceptOpen(c, id), a)
  BY <1>3, <1>4, UpdateFlags
<1>7. c.channels[id] \in ChannelState /\ c.channels[id].local_window \in Nat
  BY <1>3, <1>4, ChannelOK DEF ChannelState
<1>8. AcceptMsg(c, id) \in Message
  BY <1>7, MsgOK DEF AcceptMsg, MsgTypes
<1>9. <<AcceptMsg(c, id)>> \in Seq(Message)
  BY <1>8
<1> QED
  BY <1>1, <1>5, <1>6, <1>9, ReadFacts, TakeInv

LEMMA RejectRequestInv ==
    ASSUME Inv, NEW p \in Peers, NEW m, RejectRequest(p, m)
    PROVE  Inv'
<1>1. Reads(p, m)
  BY DEF RejectRequest
<1>2. PICK id \in Ids :
          /\ FreeId(conn[p], id)
          /\ Take(p, Remove(OnChannelOpen(conn[p], id, m), id), app[p], <<OpenFailure(m)>>)
  BY DEF RejectRequest
<1> DEFINE c == OnChannelOpen(conn[p], id, m)
           a == WithApp(app[p], id, "idle")
           d == Remove(c, id)
<1>3. PeerOK(c, a)
  BY <1>1, ReadFacts, OnChannelOpenOK DEF Stages
<1>4. Tracked(c) = Tracked(conn[p]) \cup {id}
  BY <1>1, ReadFacts, AllocateTracked
<1>5. PeerOK(d, Kept(a, d))
  <2> HIDE DEF c, a
  <2> QED
    BY <1>3, RemoveOne
<1>6. Tracked(d) = Tracked(conn[p])
  <2>1. id \notin Tracked(conn[p])
    BY <1>2 DEF FreeId
  <2>2. c = [channels |-> c.channels, next_local_id |-> c.next_local_id]
    BY <1>3 DEF PeerOK, IsConnection
  <2> HIDE DEF c
  <2>3. d.channels = [i \in Tracked(c) \ {id} |-> c.channels[i]]
    BY <2>2 DEF Remove
  <2>4. Tracked(d) = Tracked(c) \ {id}
    BY <2>3 DEF Tracked
  <2> HIDE DEF d
  <2> QED
    BY <1>4, <2>1, <2>4
<1>7. Kept(a, d) = app[p]
  <2>1. app[p] \in [Tracked(conn[p]) -> AppState] /\ id \notin Tracked(conn[p])
    BY <1>1, <1>2, ReadFacts DEF PeerOK, FreeId
  <2> HIDE DEF d
  <2>2. \A i \in Tracked(conn[p]) : a[i] = app[p][i]
    BY <2>1 DEF WithApp
  <2> QED
    BY <1>6, <2>1, <2>2 DEF Kept
<1>8. Take(p, d, app[p], <<OpenFailure(m)>>)
  BY <1>2
<1> HIDE DEF d, a
<1> QED
  BY <1>1, <1>5, <1>7, <1>8, ReadFacts, OpenFailureOK, TakeInv

LEMMA OpenAnsweredInv ==
    ASSUME Inv, NEW p \in Peers, NEW m, OpenAnswered(p, m)
    PROVE  Inv'
<1>1. Reads(p, m) /\ m.t # "OPEN" /\ m.t \in Answers
  BY DEF OpenAnswered, Answers
<1>2. <<>> \in Seq(Message)
  OBVIOUS
<1>3. CASE m.t = "OPEN_FAILURE"
  <2> DEFINE c == Remove(conn[p], m.ch)
             a == Kept(app[p], c)
  <2>1. OnPacket(conn[p], m) = c
    BY <1>3 DEF OnPacket
  <2>2. Take(p, c, a, <<>>)
    BY <1>3, <2>1 DEF OpenAnswered
  <2>3. PeerOK(c, a)
    BY <1>1, ReadFacts, RemoveOne
  <2> HIDE DEF c, a
  <2> QED
    BY <1>1, <1>2, <2>2, <2>3, ReadFacts, TakeInv
<1>4. CASE m.t = "OPEN_CONFIRMATION"
  <2> DEFINE c == OnOpenConfirmation(conn[p], m)
             a == Staged(p, m.ch, IF p = "c" THEN "idle" ELSE "running")
  <2>1. OnPacket(conn[p], m) = c
    BY <1>4 DEF OnPacket
  <2>2. Take(p, c, a, <<>>)
    BY <1>4, <2>1 DEF OpenAnswered
  <2>3. PeerOK(c, app[p]) /\ m.ch \in Tracked(conn[p])
    BY <1>1, ReadFacts, ConfirmOK
  <2>4. m.ch \in Tracked(c)
    BY <1>1, <2>3, ReadFacts DEF PeerOK
  <2> HIDE DEF c
  <2>5. PeerOK(c, a)
    BY <2>3, <2>4, UpdateStage DEF Staged, Stages
  <2> HIDE DEF a
  <2> QED
    BY <1>1, <1>2, <2>2, <2>5, ReadFacts, TakeInv
<1> QED
  BY <1>1, <1>3, <1>4 DEF Answers

LEMMA DataArrivesInv ==
    ASSUME Inv, NEW p \in Peers, NEW m, DataArrives(p, m)
    PROVE  Inv'
<1> DEFINE c == [conn[p] EXCEPT !.channels[m.ch].local_window = @ - m.n]
           a == [app[p] EXCEPT ![m.ch].unread = @ + m.n]
<1>1. Reads(p, m) /\ m.t # "OPEN" /\ m.t \in {"DATA", "EXTENDED_DATA"}
  BY DEF DataArrives
<1>2. OnPacket(conn[p], m) = c
  BY <1>1 DEF OnPacket
<1>3. Take(p, c, a, <<>>)
  BY <1>2 DEF DataArrives
<1>4. m.n \in Nat /\ m.n <= conn[p].channels[m.ch].local_window
  BY <1>1, ErrorOK, HeadOK DEF Reads, Chan
<1>5. PeerOK(c, a)
  BY <1>1, <1>4, ReadFacts, DataOK
<1>6. <<>> \in Seq(Message)
  OBVIOUS
<1> HIDE DEF c, a
<1> QED
  BY <1>1, <1>3, <1>5, <1>6, ReadFacts, TakeInv

LEMMA RequestArrivesInv ==
    ASSUME Inv, NEW p \in Peers, NEW m, RequestArrives(p, m)
    PROVE  Inv'
<1> DEFINE no == Msg("FAILURE", Chan(p, m.ch), 0)
           yes == Msg("SUCCESS", Chan(p, m.ch), 0)
           a == Staged(p, m.ch, "running")
<1>1. Reads(p, m) /\ m.t # "OPEN"
  BY DEF RequestArrives
<1>2. no \in Message /\ yes \in Message
  BY <1>1, ReadFacts, MsgOK DEF MsgTypes
<1>3. PeerOK(conn[p], a)
  BY <1>1, ReadFacts, UpdateStage DEF Staged, Stages
<1>4. \/ Take(p, conn[p], app[p], <<>>)
      \/ Take(p, conn[p], app[p], <<no>>)
      \/ Take(p, conn[p], a, <<yes>>)
  BY DEF RequestArrives
<1> HIDE DEF no, yes, a
<1>5. <<>> \in Seq(Message) /\ <<no>> \in Seq(Message) /\ <<yes>> \in Seq(Message)
  BY <1>2
<1> QED
  BY <1>1, <1>3, <1>4, <1>5, ReadFacts, TakeInv

LEMMA ReplyArrivesInv ==
    ASSUME Inv, NEW p \in Peers, NEW m, ReplyArrives(p, m)
    PROVE  Inv'
<1> DEFINE a == Staged(p, m.ch, IF m.t = "SUCCESS" THEN "running" ELSE "denied")
<1>1. Reads(p, m) /\ m.t # "OPEN" /\ Take(p, conn[p], a, <<>>)
  BY DEF ReplyArrives
<1>2. PeerOK(conn[p], a)
  BY <1>1, ReadFacts, UpdateStage DEF Staged, Stages
<1>3. <<>> \in Seq(Message)
  OBVIOUS
<1> HIDE DEF a
<1> QED
  BY <1>1, <1>2, <1>3, ReadFacts, TakeInv

LEMMA CloseArrivesInv ==
    ASSUME Inv, NEW p \in Peers, NEW m, CloseArrives(p, m)
    PROVE  Inv'
<1> DEFINE c == OnChannelClose(conn[p], m)
           mine == "local" \in Chan(p, m.ch).closed
           ack == SendClose(c, m.ch)
           close == Msg("CLOSE", Chan(p, m.ch), 0)
<1>1. Reads(p, m) /\ m.t # "OPEN" /\ m.t = "CLOSE"
  BY DEF CloseArrives
<1>2. OnPacket(conn[p], m) = c
  BY <1>1 DEF OnPacket
<1>3. \/ mine /\ Take(p, c, Kept(app[p], c), <<>>)
      \/ ~mine /\ Take(p, ack, Kept(app[p], ack), <<close>>)
      \/ ~mine /\ Take(p, c, app[p], <<>>)
  BY <1>2 DEF CloseArrives
<1>4. PeerOK(c, Kept(app[p], c)) /\ (~mine => PeerOK(c, app[p]))
  BY <1>1, ReadFacts, OnChannelCloseOK DEF Chan
<1>5. ~mine => PeerOK(ack, Kept(app[p], ack))
  <2> SUFFICES ASSUME ~mine PROVE PeerOK(ack, Kept(app[p], ack))
    OBVIOUS
  <2>1. m.ch \in Tracked(c)
    BY <1>1, <1>4, ReadFacts DEF PeerOK
  <2> HIDE DEF c
  <2> QED
    BY <1>4, <2>1, SendCloseOK
<1>6. close \in Message
  BY <1>1, ReadFacts, MsgOK DEF MsgTypes
<1> HIDE DEF c, ack, mine, close
<1>7. <<>> \in Seq(Message) /\ <<close>> \in Seq(Message)
  BY <1>6
<1>8. wire[p] # <<>>
  BY <1>1, ReadFacts
<1>a. CASE mine /\ Take(p, c, Kept(app[p], c), <<>>)
  BY <1>4, <1>7, <1>8, <1>a, TakeInv
<1>b. CASE ~mine /\ Take(p, ack, Kept(app[p], ack), <<close>>)
  BY <1>5, <1>7, <1>8, <1>b, TakeInv
<1>c. CASE ~mine /\ Take(p, c, app[p], <<>>)
  BY <1>4, <1>7, <1>8, <1>c, TakeInv
<1> QED
  BY <1>3, <1>a, <1>b, <1>c

LEMMA OtherArrivesInv ==
    ASSUME Inv, NEW p \in Peers, NEW m, OtherArrives(p, m)
    PROVE  Inv'
<1> DEFINE e == PacketError(conn[p], m)
           c == IF e = "none" THEN OnPacket(conn[p], m) ELSE conn[p]
<1>1. /\ err = "none" /\ wire[p] # <<>> /\ m = Head(wire[p]) /\ err' = e
      /\ m.t \in {"WINDOW_ADJUST", "EOF"} \/ e # "none"
      /\ wire' = [wire EXCEPT ![p] = Tail(@)] /\ UNCHANGED <<app, opens, left>>
  BY DEF OtherArrives
<1>2. conn' = [conn EXCEPT ![p] = c]
  BY DEF OtherArrives, Inv, RestOK
<1>3. PeerOK(c, app[p])
  <2>1. CASE e # "none"
    BY <2>1, PeerFacts
  <2>2. CASE e = "none"
    <3>1. Reads(p, m) /\ m.t # "OPEN" /\ m.t \in {"WINDOW_ADJUST", "EOF"} /\ m.n \in Nat
      BY <1>1, <2>2, HeadOK DEF Reads
    <3>2. CASE m.t = "EOF"
      <4>1. c = [conn[p] EXCEPT !.channels[m.ch].eof = @ \cup {"remote"}]
        BY <2>2, <3>2 DEF OnPacket
      <4>2. PeerOK(conn[p], app[p]) /\ m.ch \in Tracked(conn[p])
        BY <3>1, ReadFacts
      <4>3. PeerOK([conn[p] EXCEPT !.channels[m.ch].eof = @ \cup {"remote"}], app[p])
        BY <4>2, UpdateFlags
      <4> QED
        BY <4>1, <4>3
    <3>3. CASE m.t = "WINDOW_ADJUST"
      <4>1. c = [conn[p] EXCEPT !.channels[m.ch].remote_window = @ + m.n]
        BY <2>2, <3>3 DEF OnPacket
      <4> QED
        BY <3>1, <4>1, ReadFacts, AdjustOK
    <3> QED
      BY <3>1, <3>2, <3>3
  <2> QED
    BY <2>1, <2>2
<1>4. Tail(wire[p]) \in Seq(Message)
  BY <1>1, PeerFacts
<1>5. e \in Errors
  BY <1>1, ErrorOK
<1> HIDE DEF c, e
<1>6. RestOK'
  BY <1>1, <1>2, <1>4, <1>5 DEF Inv, RestOK
<1>7. \A q \in Peers : PeerOK(conn'[q], app'[q])
  <2> TAKE q \in Peers
  <2>1. CASE q = p
    <3>1. conn'[q] = c /\ app'[q] = app[p]
      BY <1>1, <1>2, <2>1 DEF Inv, RestOK
    <3> QED
      BY <1>3, <3>1
  <2>2. CASE q # p
    <3>1. conn'[q] = conn[q] /\ app'[q] = app[q]
      BY <1>1, <1>2, <2>2 DEF Inv, RestOK
    <3> QED
      BY <3>1 DEF Inv
  <2> QED
    BY <2>1, <2>2
<1>8. (\A q \in Peers : PeerOK(conn[q], app[q]))'
  BY <1>7 DEF PeerOK, IsConnection, Tracked, Accounted
<1> QED
  BY <1>6, <1>8 DEF Inv

---------------------------------------------------------------------------
LEMMA InitInv == Init => Inv
<1> SUFFICES ASSUME Init PROVE Inv
  OBVIOUS
<1>1. RestOK
  <2>1. <<>> \in Seq(Message)
    OBVIOUS
  <2> QED
    BY <2>1, BoundsAssumption DEF Init, RestOK, Peers, Errors
<1>2. ASSUME NEW p \in Peers PROVE PeerOK(conn[p], app[p])
  <2>1. conn[p] = [channels |-> <<>>, next_local_id |-> 0] /\ app[p] = <<>>
    BY DEF Init, NewConnection
  <2>2. DOMAIN <<>> = {} /\ 0 \in Ids
    BY IdAssumption DEF Ids
  <2>3. Tracked(conn[p]) = {}
    BY <2>1, <2>2 DEF Tracked
  <2> QED
    BY <2>1, <2>2, <2>3 DEF PeerOK, IsConnection
<1> QED
  BY <1>1, <1>2 DEF Inv

LEMMA ReceiveInv ==
    ASSUME Inv, NEW p \in Peers, Receive(p)
    PROVE  Inv'
<1>1. PICK m : \/ RefuseOpen(p, m) \/ AcceptRequest(p, m) \/ RejectRequest(p, m)
               \/ OpenAnswered(p, m) \/ DataArrives(p, m) \/ RequestArrives(p, m)
               \/ ReplyArrives(p, m) \/ CloseArrives(p, m) \/ OtherArrives(p, m)
  BY DEF Receive
<1> QED
  BY <1>1, RefuseOpenInv, AcceptRequestInv, RejectRequestInv, OpenAnsweredInv, DataArrivesInv,
     RequestArrivesInv, ReplyArrivesInv, CloseArrivesInv, OtherArrivesInv

LEMMA NextInv == Inv /\ [Next]_vars => Inv'
<1> SUFFICES ASSUME Inv, [Next]_vars PROVE Inv'
  OBVIOUS
<1>1. CASE UNCHANGED vars
  BY <1>1 DEF vars, Inv, RestOK, PeerOK, IsConnection, Tracked, Accounted
<1>2. ASSUME NEW p \in Peers, Open(p) \/ Receive(p) PROVE Inv'
  BY <1>2, OpenInv, ReceiveInv
<1>3. ASSUME NEW id \in Ids,
             StartRequest(id) \/ WindowChange(id) \/ FinalizeExited(id) \/ CloseIdle(id)
      PROVE  Inv'
  BY <1>3, StartRequestInv, WindowChangeInv, FinalizeExitedInv, CloseIdleInv
<1>4. ASSUME NEW p \in Peers, NEW id \in Ids, HalfClose(p, id) \/ Close(p, id) PROVE Inv'
  BY <1>4, HalfCloseInv, CloseInv
<1>5. ASSUME NEW p \in Peers, NEW id \in Ids, NEW n \in 1 .. MaxWrite,
             WriteData(p, id, n) \/ WriteDatagram(p, id, n)
      PROVE  Inv'
  BY <1>5, WriteDataInv, WriteDatagramInv
<1>6. ASSUME NEW id \in Ids, NEW n \in 1 .. MaxWrite, WriteStderr(id, n) PROVE Inv'
  BY <1>6, WriteStderrInv
<1>7. ASSUME NEW p \in Peers, NEW id \in Ids, NEW k \in 1 .. Window, Consume(p, id, k) PROVE Inv'
  BY <1>7, ConsumeInv
<1> QED
  BY <1>1, <1>2, <1>3, <1>4, <1>5, <1>6, <1>7 DEF Next

(* No window, counter or queue length goes below zero, a frontend keeps    *)
(* state for exactly the tracked channels, and every message is well       *)
(* formed, however the two sides' calls interleave (state.rs: take in      *)
(* send_data, the window check of on_channel_data).                        *)
THEOREM ChannelTypes == Spec => []TypeOK
<1>1. Inv => TypeOK
  BY InvIs
<1> QED
  BY <1>1, InitInv, NextInv, PTL DEF Spec

(* Until it closes a channel, a receiver accounts for its whole window:    *)
(* credit is neither lost nor given twice, and what is buffered is bounded *)
(* by the window (replenish_window, on_channel_data).                      *)
THEOREM Accounting == Spec => []WindowAccounted
<1>1. Inv => WindowAccounted
  BY InvIs
<1> QED
  BY <1>1, InitInv, NextInv, PTL DEF Spec

---------------------------------------------------------------------------
(* The bytes on their way: InFlight is a sum over a sequence, and a message *)
(* sent or read changes it by its own bytes.  Where the sum goes wrong      *)
(* there is a first place.                                                  *)

Amount(m, tag, kinds) == IF m.tag = tag /\ m.t \in kinds THEN m.n ELSE 0

\* f holds the sums of the first messages of ms.
Sums(ms, tag, kinds, f) ==
    f = [i \in 0 .. Len(ms) |-> IF i = 0 THEN 0 ELSE f[i - 1] + Amount(ms[i], tag, kinds)]

(* A set of numbers that is not empty has a first one.                      *)
LEMMA FirstOf ==
    ASSUME NEW T, T \subseteq Nat, T # {}
    PROVE  \E n \in T : \A m \in T : n <= m
<1>1. PICK n \in T : \A m \in T : ~(<<m, n>> \in OpToRel(<, Nat))
  BY WFMin, NatLessThanWellFounded
<1>2. ASSUME NEW m \in T PROVE n <= m
  <2>1. m \in Nat /\ n \in Nat
    OBVIOUS
  <2>2. ~(m < n)
    BY <1>1, <2>1 DEF OpToRel
  <2> QED
    BY <2>1, <2>2
<1> QED
  BY <1>2

LEMMA AmountNat ==
    ASSUME NEW m \in Message, NEW tag, NEW kinds
    PROVE  Amount(m, tag, kinds) \in Nat
BY DEF Amount, Message

LEMMA SumsNat ==
    ASSUME NEW ms \in Seq(Message), NEW tag, NEW kinds, NEW f, Sums(ms, tag, kinds, f)
    PROVE  /\ f[0] = 0
           /\ \A i \in 1 .. Len(ms) : f[i] = f[i - 1] + Amount(ms[i], tag, kinds)
           /\ \A i \in 0 .. Len(ms) : f[i] \in Nat
<1>1. f[0] = 0 /\ \A i \in 1 .. Len(ms) : f[i] = f[i - 1] + Amount(ms[i], tag, kinds)
  BY DEF Sums
<1> DEFINE T == {i \in 0 .. Len(ms) : f[i] \notin Nat}
<1>2. SUFFICES ASSUME T # {} PROVE FALSE
  BY <1>1
<1>3. PICK n \in T : \A m \in T : n <= m
  <2>1. T \subseteq Nat
    OBVIOUS
  <2> HIDE DEF T
  <2> QED
    BY <1>2, <2>1, FirstOf
<1>4. n # 0
  BY <1>1, <1>3
<1>5. n - 1 \in 0 .. Len(ms) /\ f[n - 1] \in Nat /\ n \in 1 .. Len(ms)
  BY <1>3, <1>4
<1>6. Amount(ms[n], tag, kinds) \in Nat
  BY <1>5, AmountNat
<1> QED
  BY <1>1, <1>3, <1>5, <1>6

(* There are such sums.                                                     *)
LEMMA SumsExist ==
    ASSUME NEW ms \in Seq(Message), NEW tag, NEW kinds
    PROVE  \E f : Sums(ms, tag, kinds, f)
<1> DEFINE Up(n, f) == f = [i \in 0 .. n |-> IF i = 0 THEN 0
                                             ELSE f[i - 1] + Amount(ms[i], tag, kinds)]
           T == {n \in 0 .. Len(ms) : ~\E f : Up(n, f)}
<1>1. SUFFICES ASSUME T # {} PROVE FALSE
  BY DEF Sums
<1>2. PICK n \in T : \A m \in T : n <= m
  <2>1. T \subseteq Nat
    OBVIOUS
  <2> HIDE DEF T
  <2> QED
    BY <1>1, <2>1, FirstOf
<1>3. CASE n = 0
  <2>1. Up(0, [i \in 0 .. 0 |-> 0])
    OBVIOUS
  <2> QED
    BY <1>2, <1>3, <2>1
<1>4. CASE n # 0
  <2>0. n \in 0 .. Len(ms) /\ n \in 1 .. Len(ms)
    BY <1>2, <1>4
  <2>1. n - 1 \in 0 .. Len(ms) /\ n - 1 \notin T /\ n \in Nat /\ n \in 1 .. Len(ms)
    <3>1. n - 1 \in 0 .. Len(ms) /\ n \in Nat /\ ~(n <= n - 1)
      BY <2>0
    <3> HIDE DEF T
    <3> QED
      BY <1>2, <2>0, <3>1
  <2>2. PICK f : Up(n - 1, f)
    BY <2>1
  <2> DEFINE g == [i \in 0 .. n |-> IF i = n THEN f[n - 1] + Amount(ms[n], tag, kinds) ELSE f[i]]
  <2>3. Up(n, g)
    <3>1. ASSUME NEW i \in 0 .. n
          PROVE  g[i] = IF i = 0 THEN 0 ELSE g[i - 1] + Amount(ms[i], tag, kinds)
      <4>1. CASE i = n
        BY <2>1, <4>1, <1>4
      <4>2. CASE i # n
        <5>1. i \in 0 .. n - 1 /\ (i # 0 => i - 1 \in 0 .. n - 1 /\ i - 1 # n)
          BY <2>1, <4>2
        <5>2. f[i] = IF i = 0 THEN 0 ELSE f[i - 1] + Amount(ms[i], tag, kinds)
          BY <2>2, <5>1
        <5> QED
          BY <5>1, <5>2, <4>2, <2>1
      <4> QED
        BY <4>1, <4>2
    <3> HIDE DEF g
    <3>2. DOMAIN g = 0 .. n /\ g = [i \in 0 .. n |-> g[i]]
      BY DEF g
    <3> QED
      BY <3>1, <3>2
  <2> QED
    BY <1>2, <2>3
<1> QED
  BY <1>3, <1>4

LEMMA InFlightSums ==
    ASSUME NEW ms \in Seq(Message), NEW tag, NEW kinds
    PROVE  \E f : Sums(ms, tag, kinds, f) /\ InFlight(ms, tag, kinds) = f[Len(ms)]
<1> DEFINE f == CHOOSE s : Sums(ms, tag, kinds, s)
<1>1. Sums(ms, tag, kinds, f)
  BY SumsExist
<1>2. InFlight(ms, tag, kinds) = f[Len(ms)]
  BY DEF InFlight, Sums, Amount
<1> QED
  BY <1>1, <1>2

LEMMA InFlightNat ==
    ASSUME NEW ms \in Seq(Message), NEW tag, NEW kinds
    PROVE  InFlight(ms, tag, kinds) \in Nat
<1>1. PICK f : Sums(ms, tag, kinds, f) /\ InFlight(ms, tag, kinds) = f[Len(ms)]
  BY InFlightSums
<1>2. Len(ms) \in 0 .. Len(ms)
  OBVIOUS
<1> QED
  BY <1>1, <1>2, SumsNat

(* Two sequences one of which starts k messages into the other.             *)
Overlap(ms, ns, tag, kinds, f, g, k, len) ==
    /\ ms \in Seq(Message) /\ ns \in Seq(Message)
    /\ Sums(ms, tag, kinds, f) /\ Sums(ns, tag, kinds, g)
    /\ k \in Nat /\ len \in Nat /\ len <= Len(ns) /\ len + k <= Len(ms)
    /\ \A i \in 1 .. len : ns[i] = ms[i + k]

LEMMA SumsAgree ==
    ASSUME NEW ms, NEW ns, NEW tag, NEW kinds, NEW f, NEW g, NEW k, NEW len,
           Overlap(ms, ns, tag, kinds, f, g, k, len)
    PROVE  \A i \in 0 .. len : f[i + k] = f[k] + g[i]
<1> USE DEF Overlap
<1> DEFINE T == {i \in 0 .. len : f[i + k] # f[k] + g[i]}
<1>0. /\ \A i \in 1 .. Len(ms) : f[i] = f[i - 1] + Amount(ms[i], tag, kinds)
      /\ \A i \in 0 .. Len(ms) : f[i] \in Nat
      /\ \A i \in 1 .. Len(ns) : g[i] = g[i - 1] + Amount(ns[i], tag, kinds)
      /\ \A i \in 0 .. Len(ns) : g[i] \in Nat
      /\ g[0] = 0
  BY SumsNat
<1>1. SUFFICES ASSUME T # {} PROVE FALSE
  OBVIOUS
<1>2. PICK n \in T : \A m \in T : n <= m
  <2>1. T \subseteq Nat
    OBVIOUS
  <2> HIDE DEF T
  <2> QED
    BY <1>1, <2>1, FirstOf
<1>3. n # 0
  <2>1. f[0 + k] = f[k] /\ f[k] \in Nat
    BY <1>0
  <2>2. f[0 + k] = f[k] + g[0]
    BY <1>0, <2>1
  <2> QED
    BY <1>2, <2>2
<1>4. n - 1 \in 0 .. len /\ n - 1 \notin T
  BY <1>2, <1>3
<1>5. f[(n - 1) + k] = f[k] + g[n - 1]
  BY <1>4
<1>6. /\ n \in 1 .. Len(ns) /\ n + k \in 1 .. Len(ms) /\ n + k - 1 = (n - 1) + k
      /\ ns[n] = ms[n + k]
  BY <1>2, <1>3
<1>7. /\ f[n + k] = f[n + k - 1] + Amount(ms[n + k], tag, kinds)
      /\ g[n] = g[n - 1] + Amount(ns[n], tag, kinds)
      /\ f[k] \in Nat /\ g[n - 1] \in Nat /\ f[n + k - 1] \in Nat
  BY <1>0, <1>6
<1>8. Amount(ns[n], tag, kinds) \in Nat
  BY <1>6, AmountNat
<1>9. f[n + k] = f[k] + g[n]
  <2>1. f[n + k] = (f[k] + g[n - 1]) + Amount(ns[n], tag, kinds)
    BY <1>5, <1>6, <1>7
  <2>2. g[n] = g[n - 1] + Amount(ns[n], tag, kinds)
    BY <1>7
  <2>3. \A x, y, z \in Nat : (x + y) + z = x + (y + z)
    OBVIOUS
  <2>4. (f[k] + g[n - 1]) + Amount(ns[n], tag, kinds) = f[k] + (g[n - 1] + Amount(ns[n], tag, kinds))
    BY <1>7, <1>8, <2>3, Zenon
  <2> QED
    BY <2>1, <2>2, <2>4, Zenon
<1> QED
  BY <1>2, <1>9

LEMMA InFlightSend ==
    ASSUME NEW ms \in Seq(Message), NEW m \in Message, NEW tag, NEW kinds
    PROVE  InFlight(Append(ms, m), tag, kinds) = InFlight(ms, tag, kinds) + Amount(m, tag, kinds)
<1> DEFINE ns == Append(ms, m)
<1>0. /\ ns \in Seq(Message) /\ Len(ns) = Len(ms) + 1 /\ Len(ms) \in Nat
      /\ \A i \in 1 .. Len(ms) : ms[i] = ns[i]
      /\ ns[Len(ms) + 1] = m
  OBVIOUS
<1> HIDE DEF ns
<1>1. PICK f : Sums(ms, tag, kinds, f) /\ InFlight(ms, tag, kinds) = f[Len(ms)]
  BY InFlightSums
<1>2. PICK g : Sums(ns, tag, kinds, g) /\ InFlight(ns, tag, kinds) = g[Len(ns)]
  BY <1>0, InFlightSums
<1>3. \A i \in 1 .. Len(ms) : ms[i] = ns[i + 0]
  BY <1>0
<1>4. \A i \in 0 .. Len(ms) : g[i + 0] = g[0] + f[i]
  <2>1. Overlap(ns, ms, tag, kinds, g, f, 0, Len(ms))
    BY <1>0, <1>1, <1>2, <1>3 DEF Overlap
  <2> QED
    BY <2>1, SumsAgree
<1>5. g[0] = 0 /\ g[Len(ms) + 1] = g[Len(ms) + 1 - 1] + Amount(ns[Len(ms) + 1], tag, kinds)
  BY <1>0, <1>2, SumsNat
<1>6. f[Len(ms)] \in Nat /\ g[Len(ms) + 0] = g[0] + f[Len(ms)]
  BY <1>0, <1>1, <1>4, SumsNat
<1>7. g[Len(ms) + 1] = f[Len(ms)] + Amount(m, tag, kinds)
  BY <1>0, <1>5, <1>6
<1> QED
  BY <1>0, <1>1, <1>2, <1>7 DEF ns

LEMMA InFlightRead ==
    ASSUME NEW ms \in Seq(Message), ms # <<>>, NEW tag, NEW kinds
    PROVE  InFlight(ms, tag, kinds) = InFlight(Tail(ms), tag, kinds) + Amount(Head(ms), tag, kinds)
<1> DEFINE ns == Tail(ms)
<1>0. /\ ns \in Seq(Message) /\ Len(ms) = Len(ns) + 1 /\ Len(ns) \in Nat
      /\ \A i \in 1 .. Len(ns) : ns[i] = ms[i + 1]
      /\ ms[1] = Head(ms) /\ Head(ms) \in Message
  OBVIOUS
<1> HIDE DEF ns
<1>1. PICK f : Sums(ms, tag, kinds, f) /\ InFlight(ms, tag, kinds) = f[Len(ms)]
  BY InFlightSums
<1>2. PICK g : Sums(ns, tag, kinds, g) /\ InFlight(ns, tag, kinds) = g[Len(ns)]
  BY <1>0, InFlightSums
<1>4. \A i \in 0 .. Len(ns) : f[i + 1] = f[1] + g[i]
  <2>1. Overlap(ms, ns, tag, kinds, f, g, 1, Len(ns))
    BY <1>0, <1>1, <1>2 DEF Overlap
  <2> QED
    BY <2>1, SumsAgree
<1>5. f[0] = 0 /\ f[1] = f[1 - 1] + Amount(ms[1], tag, kinds)
  BY <1>0, <1>1, SumsNat
<1>6. g[Len(ns)] \in Nat /\ f[Len(ns) + 1] = f[1] + g[Len(ns)]
  BY <1>0, <1>2, <1>4, SumsNat
<1>7. Amount(Head(ms), tag, kinds) \in Nat
  BY <1>0, AmountNat
<1>8. f[1] = Amount(Head(ms), tag, kinds)
  BY <1>0, <1>5, <1>7
<1> QED
  BY <1>0, <1>1, <1>2, <1>6, <1>7, <1>8 DEF ns

---------------------------------------------------------------------------
(* One open at a time.  Nothing a side does to the channel of one open      *)
(* touches that of another, so the argument is about the channel of one tag: *)
(* Own is what a side has of it, Stream what is on its way there.           *)

Data == {"DATA", "EXTENDED_DATA"}
Credit == {"WINDOW_ADJUST"}

At(c, t) == {i \in Tracked(c) : c.channels[i].tag = t}
One(ids) == CHOOSE i : i \in ids
Nothing == [on |-> FALSE, id |-> 0, x |-> 0, y |-> 0]
Own(c, a, t) ==
    IF At(c, t) = {} THEN Nothing
    ELSE [on |-> TRUE, id |-> One(At(c, t)), x |-> c.channels[One(At(c, t))],
          y |-> a[One(At(c, t))]]

\* A side has at most one channel of a tag.
Distinct(c) == \A i, j \in Tracked(c) : c.channels[i].tag = c.channels[j].tag => i = j

\* The messages of the tag, which of them is before which, and their bytes.
Stream(ms, t) ==
    [S |-> {m \in Message : m.tag = t /\ \E i \in 1 .. Len(ms) : ms[i] = m},
     B |-> {z \in Message \X Message :
               /\ z[1].tag = t /\ z[2].tag = t
               /\ \E i, j \in 1 .. Len(ms) : i < j /\ ms[i] = z[1] /\ ms[j] = z[2]},
     D |-> InFlight(ms, t, Data),
     J |-> InFlight(ms, t, Credit)]

\* v is w with m at its end, and w is v with m in front.
Longer(w, m, v) ==
    /\ \A z : z \in v.S <=> z \in w.S \/ z = m
    /\ \A y, z : <<y, z>> \in v.B <=> <<y, z>> \in w.B \/ (y \in w.S /\ z = m)
    /\ v.D = w.D + (IF m.t \in Data THEN m.n ELSE 0)
    /\ v.J = w.J + (IF m.t \in Credit THEN m.n ELSE 0)
Shorter(w, m, v) ==
    /\ \A z : z \in w.S <=> z \in v.S \/ z = m
    /\ \A y, z : <<y, z>> \in w.B <=> <<y, z>> \in v.B \/ (y = m /\ z \in v.S)
    /\ w.D = v.D + (IF m.t \in Data THEN m.n ELSE 0)
    /\ w.J = v.J + (IF m.t \in Credit THEN m.n ELSE 0)

LEMMA StreamIs ==
    ASSUME NEW ms \in Seq(Message), NEW t
    PROVE  /\ \A m : m \in Stream(ms, t).S <=> m.tag = t /\ \E i \in 1 .. Len(ms) : ms[i] = m
           /\ \A y, z : <<y, z>> \in Stream(ms, t).B <=>
                 /\ y.tag = t /\ z.tag = t
                 /\ \E i, j \in 1 .. Len(ms) : i < j /\ ms[i] = y /\ ms[j] = z
           /\ Stream(ms, t).D = InFlight(ms, t, Data) /\ Stream(ms, t).D \in Nat
           /\ Stream(ms, t).J = InFlight(ms, t, Credit) /\ Stream(ms, t).J \in Nat
           /\ Stream(ms, t).S \subseteq Message
           /\ Stream(ms, t).B \subseteq Message \X Message
<1>1. \A i \in 1 .. Len(ms) : ms[i] \in Message
  OBVIOUS
<1>2. \A m : m \in Stream(ms, t).S <=> m.tag = t /\ \E i \in 1 .. Len(ms) : ms[i] = m
  BY <1>1 DEF Stream
<1>3. \A y, z : <<y, z>> \in Stream(ms, t).B <=>
          /\ y.tag = t /\ z.tag = t
          /\ \E i, j \in 1 .. Len(ms) : i < j /\ ms[i] = y /\ ms[j] = z
  BY <1>1 DEF Stream
<1>4. Stream(ms, t).D = InFlight(ms, t, Data) /\ Stream(ms, t).J = InFlight(ms, t, Credit)
  BY DEF Stream
<1>5. Stream(ms, t).S \subseteq Message /\ Stream(ms, t).B \subseteq Message \X Message
  BY DEF Stream
<1> QED
  BY <1>2, <1>3, <1>4, <1>5, InFlightNat

LEMMA StreamOrder ==
    ASSUME NEW ms \in Seq(Message), NEW t, NEW y, NEW z
    PROVE  <<y, z>> \in Stream(ms, t).B <=>
              /\ y.tag = t /\ z.tag = t
              /\ \E i, j \in 1 .. Len(ms) : i < j /\ ms[i] = y /\ ms[j] = z
BY StreamIs

(* Two streams are the same if they have the same messages in the same      *)
(* order and the same bytes.                                                *)
LEMMA StreamSame ==
    ASSUME NEW ms \in Seq(Message), NEW ns \in Seq(Message), NEW t,
           \A m : m \in Stream(ms, t).S <=> m \in Stream(ns, t).S,
           \A y, z : <<y, z>> \in Stream(ms, t).B <=> <<y, z>> \in Stream(ns, t).B,
           Stream(ms, t).D = Stream(ns, t).D, Stream(ms, t).J = Stream(ns, t).J
    PROVE  Stream(ms, t) = Stream(ns, t)
<1> DEFINE v == Stream(ms, t)
           w == Stream(ns, t)
<1>1. v.S = w.S
  OBVIOUS
<1>2. v.B = w.B
  <2>1. v.B \subseteq Message \X Message /\ w.B \subseteq Message \X Message
    BY StreamIs
  <2>2. ASSUME NEW z \in Message \X Message PROVE z \in v.B <=> z \in w.B
    <3>1. z = <<z[1], z[2]>>
      OBVIOUS
    <3> HIDE DEF v, w
    <3>2. <<z[1], z[2]>> \in v.B <=> <<z[1], z[2]>> \in w.B
      BY DEF v, w
    <3> QED
      BY <3>1, <3>2
  <2> HIDE DEF v, w
  <2> QED
    BY <2>1, <2>2
<1>3. /\ v = [S |-> v.S, B |-> v.B, D |-> v.D, J |-> v.J]
      /\ w = [S |-> w.S, B |-> w.B, D |-> w.D, J |-> w.J]
  BY DEF Stream
<1> HIDE DEF v, w
<1>4. v.D = w.D /\ v.J = w.J
  BY DEF v, w
<1>5. v = w
  BY <1>1, <1>2, <1>3, <1>4
<1> QED
  BY <1>5 DEF v, w

LEMMA StreamSend ==
    ASSUME NEW ms \in Seq(Message), NEW m \in Message, NEW t
    PROVE  IF m.tag = t THEN Longer(Stream(ms, t), m, Stream(Append(ms, m), t))
           ELSE Stream(Append(ms, m), t) = Stream(ms, t)
<1> DEFINE ns == Append(ms, m)
           v == Stream(ns, t)
           w == Stream(ms, t)
           len == Len(ms)
<1>0. /\ ns \in Seq(Message) /\ Len(ns) = len + 1 /\ len \in Nat
      /\ \A i \in 1 .. len : ns[i] = ms[i]
      /\ ns[len + 1] = m
  OBVIOUS
<1>1. /\ v.D = w.D + Amount(m, t, Data) /\ v.J = w.J + Amount(m, t, Credit)
      /\ w.D \in Nat /\ w.J \in Nat
  <2>1. v.D = InFlight(ns, t, Data) /\ v.J = InFlight(ns, t, Credit)
    BY DEF Stream
  <2>2. w.D = InFlight(ms, t, Data) /\ w.J = InFlight(ms, t, Credit)
    BY DEF Stream
  <2>3. /\ InFlight(ns, t, Data) = InFlight(ms, t, Data) + Amount(m, t, Data)
        /\ InFlight(ns, t, Credit) = InFlight(ms, t, Credit) + Amount(m, t, Credit)
    BY InFlightSend
  <2>4. InFlight(ms, t, Data) \in Nat /\ InFlight(ms, t, Credit) \in Nat
    BY InFlightNat
  <2> QED
    BY <2>1, <2>2, <2>3, <2>4
<1> HIDE DEF ns
<1>2. \A z : z \in v.S <=> z.tag = t /\ (z \in w.S \/ z = m)
  <2> SUFFICES ASSUME NEW z PROVE z \in v.S <=> z.tag = t /\ (z \in w.S \/ z = m)
    OBVIOUS
  <2>1. z \in v.S <=> z.tag = t /\ \E i \in 1 .. Len(ns) : ns[i] = z
    <3>1. ns \in Seq(Message)
      BY <1>0
    <3> HIDE DEF ns
    <3> QED
      BY <3>1, StreamIs
  <2>2. z \in w.S <=> z.tag = t /\ \E i \in 1 .. Len(ms) : ms[i] = z
    BY StreamIs
  <2>3. (\E i \in 1 .. Len(ns) : ns[i] = z) <=> (\E i \in 1 .. Len(ms) : ms[i] = z) \/ z = m
    <3>1. \A i : i \in 1 .. Len(ns) <=> i \in 1 .. Len(ms) \/ i = len + 1
      BY <1>0
    <3> QED
      BY <1>0, <3>1
  <2> QED
    BY <2>1, <2>2, <2>3
<1>3. \A y, z : <<y, z>> \in v.B <=>
          y.tag = t /\ z.tag = t /\ (<<y, z>> \in w.B \/ (y \in w.S /\ z = m))
  <2> SUFFICES ASSUME NEW y, NEW z
               PROVE  <<y, z>> \in v.B <=>
                      y.tag = t /\ z.tag = t /\ (<<y, z>> \in w.B \/ (y \in w.S /\ z = m))
    OBVIOUS
  <2>1. <<y, z>> \in v.B <=> /\ y.tag = t /\ z.tag = t
                             /\ \E i, j \in 1 .. Len(ns) : i < j /\ ns[i] = y /\ ns[j] = z
    <3>1. ns \in Seq(Message)
      BY <1>0
    <3> HIDE DEF ns
    <3> QED
      BY <3>1, StreamOrder
  <2>2. <<y, z>> \in w.B <=> /\ y.tag = t /\ z.tag = t
                             /\ \E i, j \in 1 .. Len(ms) : i < j /\ ms[i] = y /\ ms[j] = z
    BY StreamOrder
  <2>3. y \in w.S <=> y.tag = t /\ \E i \in 1 .. Len(ms) : ms[i] = y
    BY StreamIs
  <2>4. (\E i, j \in 1 .. Len(ns) : i < j /\ ns[i] = y /\ ns[j] = z) <=>
           \/ \E i, j \in 1 .. Len(ms) : i < j /\ ms[i] = y /\ ms[j] = z
           \/ (\E i \in 1 .. Len(ms) : ms[i] = y) /\ z = m
    <3>1. \A i : i \in 1 .. Len(ns) <=> i \in 1 .. Len(ms) \/ i = len + 1
      BY <1>0
    <3>2. \A i \in 1 .. len : i < len + 1 /\ ~(len + 1 < i)
      BY <1>0
    <3>3. ~(len + 1 < len + 1)
      BY <1>0
    <3>4. ASSUME NEW i \in 1 .. Len(ns), NEW j \in 1 .. Len(ns), i < j, ns[i] = y, ns[j] = z
          PROVE  \/ \E k, l \in 1 .. Len(ms) : k < l /\ ms[k] = y /\ ms[l] = z
                 \/ (\E k \in 1 .. Len(ms) : ms[k] = y) /\ z = m
      <4>1. i \in 1 .. Len(ms)
        BY <1>0, <3>1, <3>2, <3>3, <3>4
      <4>2. CASE j = len + 1
        BY <1>0, <3>4, <4>1, <4>2
      <4>3. CASE j \in 1 .. Len(ms)
        BY <1>0, <3>4, <4>1, <4>3
      <4> QED
        BY <3>1, <4>2, <4>3
    <3>5. ASSUME NEW i \in 1 .. Len(ms), NEW j \in 1 .. Len(ms), i < j, ms[i] = y, ms[j] = z
          PROVE  \E k, l \in 1 .. Len(ns) : k < l /\ ns[k] = y /\ ns[l] = z
      BY <1>0, <3>1, <3>5
    <3>6. ASSUME NEW i \in 1 .. Len(ms), ms[i] = y, z = m
          PROVE  \E k, l \in 1 .. Len(ns) : k < l /\ ns[k] = y /\ ns[l] = z
      BY <1>0, <3>1, <3>2, <3>6
    <3> QED
      BY <3>4, <3>5, <3>6
  <2> QED
    BY <2>1, <2>2, <2>3, <2>4
<1>4. (\A z \in w.S : z.tag = t) /\ (\A y, z : <<y, z>> \in w.B => y.tag = t /\ z.tag = t)
  BY StreamIs
<1> HIDE DEF v, w
<1>5. CASE m.tag = t
  <2>1. Amount(m, t, Data) = (IF m.t \in Data THEN m.n ELSE 0)
    BY <1>5 DEF Amount
  <2>2. Amount(m, t, Credit) = (IF m.t \in Credit THEN m.n ELSE 0)
    BY <1>5 DEF Amount
  <2>3. Longer(w, m, v)
    BY <1>1, <1>2, <1>3, <1>4, <1>5, <2>1, <2>2 DEF Longer
  <2> QED
    BY <1>5, <2>3 DEF v, w, ns
<1>6. CASE m.tag # t
  <2>1. v.D = w.D /\ v.J = w.J
    BY <1>1, <1>6 DEF Amount
  <2>2. \A z : z \in v.S <=> z \in w.S
    BY <1>2, <1>4, <1>6
  <2>3. \A y, z : <<y, z>> \in v.B <=> <<y, z>> \in w.B
    BY <1>3, <1>4, <1>6
  <2>4. v = w
    BY <1>0, <2>1, <2>2, <2>3, StreamSame DEF v, w
  <2> QED
    BY <1>6, <2>4 DEF v, w, ns
<1> QED
  BY <1>5, <1>6

LEMMA StreamRead ==
    ASSUME NEW ms \in Seq(Message), ms # <<>>, NEW t
    PROVE  IF Head(ms).tag = t THEN Shorter(Stream(ms, t), Head(ms), Stream(Tail(ms), t))
           ELSE Stream(Tail(ms), t) = Stream(ms, t)
<1> DEFINE ns == Tail(ms)
           m == Head(ms)
           v == Stream(ns, t)
           w == Stream(ms, t)
           len == Len(ns)
<1>0. /\ ns \in Seq(Message) /\ Len(ms) = len + 1 /\ len \in Nat
      /\ \A i \in 1 .. len : ns[i] = ms[i + 1]
      /\ ms[1] = m /\ m \in Message
  OBVIOUS
<1>1. /\ w.D = v.D + Amount(m, t, Data) /\ w.J = v.J + Amount(m, t, Credit)
      /\ v.D \in Nat /\ v.J \in Nat
  <2>1. v.D = InFlight(ns, t, Data) /\ v.J = InFlight(ns, t, Credit)
    BY DEF Stream
  <2>2. w.D = InFlight(ms, t, Data) /\ w.J = InFlight(ms, t, Credit)
    BY DEF Stream
  <2>3. /\ InFlight(ms, t, Data) = InFlight(ns, t, Data) + Amount(m, t, Data)
        /\ InFlight(ms, t, Credit) = InFlight(ns, t, Credit) + Amount(m, t, Credit)
    BY InFlightRead
  <2>4. InFlight(ns, t, Data) \in Nat /\ InFlight(ns, t, Credit) \in Nat
    BY <1>0, InFlightNat
  <2> QED
    BY <2>1, <2>2, <2>3, <2>4
<1> HIDE DEF ns, m
<1>7. /\ \A i : i \in 1 .. Len(ms) <=> i = 1 \/ (i - 1 \in 1 .. len /\ i \in Int)
      /\ \A i \in 1 .. len : i + 1 \in 1 .. Len(ms) /\ 1 < i + 1
      /\ \A i, j \in 1 .. Len(ms) : i < j => j # 1 /\ j - 1 \in 1 .. len /\ (i # 1 => i - 1 < j - 1)
      /\ \A i, j \in 1 .. len : i < j => i + 1 < j + 1
  BY <1>0
<1>8. \A i \in 1 .. Len(ms) : i # 1 => i - 1 \in 1 .. len /\ ms[i] = ns[i - 1]
  BY <1>0
<1>2. \A z : z \in w.S <=> z.tag = t /\ (z \in v.S \/ z = m)
  <2> SUFFICES ASSUME NEW z PROVE z \in w.S <=> z.tag = t /\ (z \in v.S \/ z = m)
    OBVIOUS
  <2>1. z \in v.S <=> z.tag = t /\ \E i \in 1 .. Len(ns) : ns[i] = z
    <3>1. ns \in Seq(Message)
      BY <1>0
    <3> HIDE DEF ns
    <3> QED
      BY <3>1, StreamIs
  <2>2. z \in w.S <=> z.tag = t /\ \E i \in 1 .. Len(ms) : ms[i] = z
    BY StreamIs
  <2>3. (\E i \in 1 .. Len(ms) : ms[i] = z) <=> (\E i \in 1 .. Len(ns) : ns[i] = z) \/ z = m
    BY <1>0, <1>7, <1>8
  <2> QED
    BY <2>1, <2>2, <2>3
<1>3. \A y, z : <<y, z>> \in w.B <=>
          y.tag = t /\ z.tag = t /\ (<<y, z>> \in v.B \/ (y = m /\ z \in v.S))
  <2> SUFFICES ASSUME NEW y, NEW z
               PROVE  <<y, z>> \in w.B <=>
                      y.tag = t /\ z.tag = t /\ (<<y, z>> \in v.B \/ (y = m /\ z \in v.S))
    OBVIOUS
  <2>1. <<y, z>> \in v.B <=> /\ y.tag = t /\ z.tag = t
                             /\ \E i, j \in 1 .. Len(ns) : i < j /\ ns[i] = y /\ ns[j] = z
    <3>1. ns \in Seq(Message)
      BY <1>0
    <3> HIDE DEF ns
    <3> QED
      BY <3>1, StreamOrder
  <2>2. <<y, z>> \in w.B <=> /\ y.tag = t /\ z.tag = t
                             /\ \E i, j \in 1 .. Len(ms) : i < j /\ ms[i] = y /\ ms[j] = z
    BY StreamOrder
  <2>3. z \in v.S <=> z.tag = t /\ \E i \in 1 .. Len(ns) : ns[i] = z
    <3>1. ns \in Seq(Message)
      BY <1>0
    <3> HIDE DEF ns
    <3> QED
      BY <3>1, StreamIs
  <2>4. (\E i, j \in 1 .. Len(ms) : i < j /\ ms[i] = y /\ ms[j] = z) <=>
           \/ \E i, j \in 1 .. Len(ns) : i < j /\ ns[i] = y /\ ns[j] = z
           \/ (\E i \in 1 .. Len(ns) : ns[i] = z) /\ y = m
    <3>4. ASSUME NEW i \in 1 .. Len(ms), NEW j \in 1 .. Len(ms), i < j, ms[i] = y, ms[j] = z
          PROVE  \/ \E k, l \in 1 .. Len(ns) : k < l /\ ns[k] = y /\ ns[l] = z
                 \/ (\E k \in 1 .. Len(ns) : ns[k] = z) /\ y = m
      <4>1. j - 1 \in 1 .. Len(ns) /\ ns[j - 1] = z
        BY <1>7, <1>8, <3>4
      <4>2. CASE i = 1
        BY <1>0, <3>4, <4>1, <4>2
      <4>3. CASE i # 1
        BY <1>7, <1>8, <3>4, <4>1, <4>3
      <4> QED
        BY <4>2, <4>3
    <3>5. ASSUME NEW i \in 1 .. Len(ns), NEW j \in 1 .. Len(ns), i < j, ns[i] = y, ns[j] = z
          PROVE  \E k, l \in 1 .. Len(ms) : k < l /\ ms[k] = y /\ ms[l] = z
      BY <1>0, <1>7, <3>5
    <3>6. ASSUME NEW i \in 1 .. Len(ns), ns[i] = z, y = m
          PROVE  \E k, l \in 1 .. Len(ms) : k < l /\ ms[k] = y /\ ms[l] = z
      BY <1>0, <1>7, <3>6
    <3> QED
      BY <3>4, <3>5, <3>6
  <2> QED
    BY <2>1, <2>2, <2>3, <2>4
<1>4. (\A z \in v.S : z.tag = t) /\ (\A y, z : <<y, z>> \in v.B => y.tag = t /\ z.tag = t)
  BY <1>0, StreamIs
<1> HIDE DEF v, w
<1>5. CASE m.tag = t
  <2>1. Amount(m, t, Data) = (IF m.t \in Data THEN m.n ELSE 0)
    BY <1>5 DEF Amount
  <2>2. Amount(m, t, Credit) = (IF m.t \in Credit THEN m.n ELSE 0)
    BY <1>5 DEF Amount
  <2>3. Shorter(w, m, v)
    BY <1>1, <1>2, <1>3, <1>4, <1>5, <2>1, <2>2 DEF Shorter
  <2> QED
    BY <1>5, <2>3 DEF v, w, ns, m
<1>6. CASE m.tag # t
  <2>1. v.D = w.D /\ v.J = w.J
    BY <1>1, <1>6 DEF Amount
  <2>2. \A z : z \in v.S <=> z \in w.S
    BY <1>2, <1>4, <1>6
  <2>3. \A y, z : <<y, z>> \in v.B <=> <<y, z>> \in w.B
    BY <1>3, <1>4, <1>6
  <2>4. v = w
    BY <1>0, <2>1, <2>2, <2>3, StreamSame DEF v, w
  <2> QED
    BY <1>6, <2>4 DEF v, w, ns, m
<1> QED
  BY <1>5, <1>6

\* The channel i of a side becomes x, with y kept beside it; it goes; it comes.
Changed(c, a, i, x, y, d, b) ==
    /\ i \in Tracked(c) /\ Tracked(d) = Tracked(c) /\ d.channels[i] = x /\ b[i] = y
    /\ x.tag = c.channels[i].tag
    /\ \A j \in Tracked(c) : j # i => d.channels[j] = c.channels[j] /\ b[j] = a[j]
Removed(c, a, i, d, b) ==
    /\ i \in Tracked(c) /\ Tracked(d) = Tracked(c) \ {i}
    /\ \A j \in Tracked(d) : d.channels[j] = c.channels[j] /\ b[j] = a[j]
Added(c, a, i, x, y, d, b) ==
    /\ i \notin Tracked(c) /\ Tracked(d) = Tracked(c) \cup {i} /\ d.channels[i] = x /\ b[i] = y
    /\ \A j \in Tracked(c) : d.channels[j] = c.channels[j] /\ b[j] = a[j]

\* The side has x and y at i.
Has(h, i, x, y) == h.on = TRUE /\ h.id = i /\ h.x = x /\ h.y = y

LEMMA OneOf == ASSUME NEW i PROVE One({i}) = i
BY DEF One

LEMMA OwnHas ==
    ASSUME NEW c, NEW a, Distinct(c), NEW i \in Tracked(c)
    PROVE  Has(Own(c, a, c.channels[i].tag), i, c.channels[i], a[i])
<1>1. At(c, c.channels[i].tag) = {i}
  BY DEF At, Distinct
<1>2. One(At(c, c.channels[i].tag)) = i
  BY <1>1, OneOf
<1> QED
  BY <1>1, <1>2 DEF Own, Has

LEMMA OwnIs ==
    ASSUME NEW c, NEW a, NEW t
    PROVE  /\ Own(c, a, t).on \in BOOLEAN
           /\ Own(c, a, t).on => \E i \in Tracked(c) : /\ c.channels[i].tag = t
                                                       /\ Has(Own(c, a, t), i, c.channels[i], a[i])
           /\ ~Own(c, a, t).on => \A i \in Tracked(c) : c.channels[i].tag # t
<1>1. CASE At(c, t) = {}
  BY <1>1 DEF Own, Nothing, At
<1>2. CASE At(c, t) # {}
  <2> DEFINE i == One(At(c, t))
  <2>1. i \in At(c, t)
    BY <1>2 DEF One
  <2>2. Own(c, a, t) = [on |-> TRUE, id |-> i, x |-> c.channels[i], y |-> a[i]]
    BY <1>2 DEF Own
  <2> HIDE DEF i
  <2>3. Has(Own(c, a, t), i, c.channels[i], a[i])
    BY <2>2 DEF Has
  <2> QED
    BY <2>1, <2>3 DEF At, Has
<1> QED
  BY <1>1, <1>2

(* What is not of the tag stays as it is.                                   *)
LEMMA OwnSame ==
    ASSUME NEW c, NEW a, NEW d, NEW b, NEW u,
           At(d, u) = At(c, u),
           \A j \in At(c, u) : d.channels[j] = c.channels[j] /\ b[j] = a[j]
    PROVE  Own(d, b, u) = Own(c, a, u)
<1>1. CASE At(c, u) = {}
  BY <1>1 DEF Own
<1>2. CASE At(c, u) # {}
  <2>1. One(At(c, u)) \in At(c, u)
    BY <1>2 DEF One
  <2>2. One(At(d, u)) = One(At(c, u))
    OBVIOUS
  <2> QED
    BY <1>2, <2>1, <2>2 DEF Own
<1> QED
  BY <1>1, <1>2

LEMMA OwnChanged ==
    ASSUME NEW c, NEW a, NEW i, NEW x, NEW y, NEW d, NEW b, Distinct(c),
           Changed(c, a, i, x, y, d, b)
    PROVE  /\ Distinct(d)
           /\ Has(Own(d, b, x.tag), i, x, y)
           /\ \A u : u # x.tag => Own(d, b, u) = Own(c, a, u)
<1>1. \A j \in Tracked(d) : d.channels[j].tag = c.channels[j].tag
  BY DEF Changed
<1>2. Distinct(d)
  BY <1>1 DEF Changed, Distinct
<1>3. i \in Tracked(d) /\ d.channels[i] = x /\ b[i] = y
  BY DEF Changed
<1>4. Has(Own(d, b, x.tag), i, x, y)
  BY <1>2, <1>3, OwnHas
<1>5. ASSUME NEW u, u # x.tag PROVE Own(d, b, u) = Own(c, a, u)
  <2>1. At(d, u) = At(c, u)
    BY <1>1 DEF At, Changed
  <2>2. \A j \in At(c, u) : d.channels[j] = c.channels[j] /\ b[j] = a[j]
    BY <1>5 DEF At, Changed
  <2> QED
    BY <2>1, <2>2, OwnSame
<1> QED
  BY <1>2, <1>4, <1>5

LEMMA OwnRemoved ==
    ASSUME NEW c, NEW a, NEW i, NEW d, NEW b, NEW t, Distinct(c), Removed(c, a, i, d, b),
           t = c.channels[i].tag
    PROVE  /\ Distinct(d) /\ Own(d, b, t) = Nothing
           /\ \A u : u # t => Own(d, b, u) = Own(c, a, u)
<1>2. Distinct(d)
  BY DEF Removed, Distinct
<1>3. At(d, t) = {}
  BY DEF At, Removed, Distinct
<1>5. ASSUME NEW u, u # t PROVE Own(d, b, u) = Own(c, a, u)
  <2>1. At(d, u) = At(c, u)
    BY <1>5 DEF At, Removed
  <2>2. \A j \in At(c, u) : d.channels[j] = c.channels[j] /\ b[j] = a[j]
    BY <1>5 DEF At, Removed
  <2> QED
    BY <2>1, <2>2, OwnSame
<1> QED
  BY <1>2, <1>3, <1>5 DEF Own

LEMMA OwnAdded ==
    ASSUME NEW c, NEW a, NEW i, NEW x, NEW y, NEW d, NEW b, Distinct(c),
           Added(c, a, i, x, y, d, b), ~Own(c, a, x.tag).on
    PROVE  /\ Distinct(d)
           /\ Has(Own(d, b, x.tag), i, x, y)
           /\ \A u : u # x.tag => Own(d, b, u) = Own(c, a, u)
<1>1. \A j \in Tracked(c) : c.channels[j].tag # x.tag
  BY OwnIs
<1>2. Distinct(d)
  BY <1>1 DEF Added, Distinct
<1>3. i \in Tracked(d) /\ d.channels[i] = x /\ b[i] = y
  BY DEF Added
<1>4. Has(Own(d, b, x.tag), i, x, y)
  BY <1>2, <1>3, OwnHas
<1>5. ASSUME NEW u, u # x.tag PROVE Own(d, b, u) = Own(c, a, u)
  <2>1. At(d, u) = At(c, u)
    BY <1>5 DEF At, Added
  <2>2. \A j \in At(c, u) : d.channels[j] = c.channels[j] /\ b[j] = a[j]
    BY <1>5 DEF At, Added
  <2> QED
    BY <2>1, <2>2, OwnSame
<1> QED
  BY <1>2, <1>4, <1>5

---------------------------------------------------------------------------
(* The protocol of one channel.  h is what p has of it and w what is on its *)
(* way to p; g and v are the same of the other side.                        *)

Reply == {"SUCCESS", "FAILURE"}
Opening == Answers \cup {"OPEN"}

\* An open: p has nothing yet, and nothing else is under way.
OpenOK(h, g, w, v, m) ==
    /\ ~h.on /\ g.on /\ m.from = g.id /\ ~g.x.open_confirmed
    /\ m.n = Window /\ m.max = MaxPacket /\ ~m.want
    /\ w.D = 0 /\ w.J = 0 /\ v.D = 0 /\ v.J = 0

\* The answer to p's open.
AnswerOK(h, g, m) ==
    /\ ~h.x.open_confirmed /\ ~m.want
    /\ m.t = "OPEN_FAILURE" => ~g.on
    /\ m.t = "OPEN_CONFIRMATION" => /\ g.on /\ g.x.open_confirmed /\ m.from = g.id
                                    /\ m.n = Window /\ m.max = MaxPacket

\* Anything else comes after the answer to p's open, if there is one, and
\* before the CLOSE and, if it is data, the EOF, except a reply, which may come
\* after the CLOSE.
FlowOK(h, g, w, m) ==
    /\ h.x.open_confirmed \/ \E z \in w.S : z.t = "OPEN_CONFIRMATION" /\ <<z, m>> \in w.B
    /\ m.t \notin Reply => "remote" \notin h.x.closed
    /\ m.t \in Data => "remote" \notin h.x.eof /\ m.n <= MaxPacket
    /\ m.t = "EOF" /\ g.on => "local" \in g.x.eof
    /\ m.t = "CLOSE" /\ g.on => "local" \in g.x.closed

\* The question of a client that waits, and the answer.
AskedOK(p, h, g, m) ==
    /\ m.want => m.t = "REQUEST" /\ p = "s" /\ g.on /\ g.y.stage = "asked"
    /\ m.t \in Reply => p = "c" /\ h.y.stage = "asked"

MessageOK(p, h, g, w, v, m) ==
    IF m.t = "OPEN" THEN OpenOK(h, g, w, v, m)
    ELSE /\ h.on /\ m.ch = h.id
         /\ IF m.t \in Answers THEN AnswerOK(h, g, m) ELSE FlowOK(h, g, w, m) /\ AskedOK(p, h, g, m)

\* What b may be if it is behind a in its stream, and if it goes the other way.
Follows(a, b) ==
    /\ b.t \notin Opening /\ a.t \notin {"OPEN", "OPEN_FAILURE"}
    /\ a.t = "CLOSE" => b.t \in Reply
    /\ a.t = "EOF" => b.t \notin Data
    /\ ~(a.t \in Reply /\ b.t \in Reply) /\ ~(a.want /\ b.want)
Beside(a, b) == a.t \notin Opening /\ ~(a.t \in Reply /\ b.want)

Messages(p, h, g, w, v) == \A m \in w.S : MessageOK(p, h, g, w, v, m)
Ordered(w) == \A a, b : <<a, b>> \in w.B => Follows(a, b)
Crossed(w, v) == \A a \in w.S, b \in v.S : Beside(a, b)

\* What p knows by itself; it is alone only with a channel it has closed or not
\* yet opened.
Alone(p, h, g) ==
    h.on =>
        /\ (h.y.stage = "opening") <=> ~h.x.open_confirmed
        /\ ~h.x.open_confirmed =>
             /\ h.x.eof = {} /\ h.x.closed = {} /\ h.x.initiated_by_us
             /\ h.y.unread = 0 /\ h.x.local_window = Window
        /\ h.x.open_confirmed /\ ~g.on => "local" \in h.x.closed
        /\ p = "c" /\ "local" \in h.x.closed => h.y.stage = "running"

\* What p knows of the other side, and that what the other side may send it is
\* what p will take.
Ends(h, g, w, v) ==
    h.on /\ g.on =>
        /\ h.x.open_confirmed \/ g.x.open_confirmed
        /\ h.x.open_confirmed => h.x.remote_id = g.id /\ h.x.remote_max_packet = MaxPacket
        /\ g.x.open_confirmed /\ ~h.x.open_confirmed =>
             \E m \in w.S : m.t = "OPEN_CONFIRMATION"
        /\ "remote" \in h.x.eof => "local" \in g.x.eof
        /\ "remote" \in h.x.closed => "local" \in g.x.closed
        /\ g.x.open_confirmed => h.x.local_window = g.x.remote_window + w.D + v.J

\* Before its open is answered, p has sent nothing else.
Fresh(h, g, w, v) ==
    h.on /\ ~h.x.open_confirmed =>
        v.D = 0 /\ w.J = 0 /\ (g.on => g.y.unread = 0 /\ g.x.local_window = Window)

\* p takes what is on its way.
Fits(h, w) == h.on => w.D <= h.x.local_window

Half(p, h, g, w, v) ==
    /\ Messages(p, h, g, w, v) /\ Ordered(w) /\ Crossed(w, v)
    /\ Alone(p, h, g) /\ Ends(h, g, w, v) /\ Fresh(h, g, w, v) /\ Fits(h, w)
Typed(h, w) == /\ h.on \in BOOLEAN /\ (h.on => h.x \in ChannelState /\ h.y \in AppState)
               /\ w.S \subseteq Message /\ w.D \in Nat /\ w.J \in Nat
               /\ \A a, b : <<a, b>> \in w.B => a \in w.S /\ b \in w.S

Pair(p, h, g, w, v) == /\ Half(p, h, g, w, v) /\ Half(Other(p), g, h, v, w)
                       /\ Typed(h, w) /\ Typed(g, v)

\* What sending m, which is neither part of an open nor a reply, makes of p's
\* channel x, where y is what the frontend keeps.
Sends(p, x, y, m, xn, yn) ==
    /\ x.open_confirmed /\ "local" \notin x.closed /\ m.ch = x.remote_id
    /\ m.t \notin Opening \cup Reply
    /\ xn.open_confirmed /\ xn.remote_id = x.remote_id
    /\ xn.remote_max_packet = x.remote_max_packet
    /\ xn.eof = IF m.t = "EOF" THEN x.eof \cup {"local"} ELSE x.eof
    /\ xn.closed = IF m.t = "CLOSE" THEN x.closed \cup {"local"} ELSE x.closed
    /\ xn.local_window = x.local_window + (IF m.t \in Credit THEN m.n ELSE 0)
    /\ x.remote_window = xn.remote_window + (IF m.t \in Data THEN m.n ELSE 0)
    /\ m.t \in Data => "local" \notin x.eof /\ m.n <= MaxPacket
    /\ yn.unread <= y.unread /\ (m.t \in Credit => y.unread # 0)
    /\ IF m.want THEN m.t = "REQUEST" /\ p = "c" /\ y.stage = "idle" /\ yn.stage = "asked"
       ELSE yn.stage = y.stage
    /\ p = "c" /\ m.t = "CLOSE" => y.stage = "running"

LEMMA OtherOther ==
    ASSUME NEW p \in Peers
    PROVE  Other(p) \in Peers /\ Other(Other(p)) = p /\ Other(p) # p
BY DEF Other, Peers

LEMMA SendFlow ==
    ASSUME NEW p \in Peers, NEW h, NEW g, NEW w, NEW v, NEW k, NEW m \in Message, NEW u,
           Pair(p, h, g, w, v), h.on, k.on, k.id = h.id, Sends(p, h.x, h.y, m, k.x, k.y),
           Longer(v, m, u), Typed(k, w), Typed(g, u)
    PROVE  Pair(p, k, g, w, u)
<1>1. /\ Messages(p, h, g, w, v) /\ Ordered(w) /\ Crossed(w, v)
      /\ Alone(p, h, g) /\ Ends(h, g, w, v) /\ Fresh(h, g, w, v) /\ Fits(h, w)
      /\ Messages(Other(p), g, h, v, w) /\ Ordered(v) /\ Crossed(v, w)
      /\ Alone(Other(p), g, h) /\ Ends(g, h, v, w) /\ Fresh(g, h, v, w) /\ Fits(g, v)
      /\ Typed(h, w) /\ Typed(g, v)
  BY DEF Pair, Half
<1>2. /\ g.on /\ h.on /\ m.ch = g.id /\ "remote" \notin g.x.closed
      /\ h.x.open_confirmed /\ k.x.open_confirmed
      /\ m.t \in Data => "remote" \notin g.x.eof
      /\ ~g.x.open_confirmed => \E z \in v.S : z.t = "OPEN_CONFIRMATION"
  BY <1>1 DEF Sends, Alone, Ends, Typed
<1>3. /\ \A a \in w.S : a.t \notin Opening /\ ~(a.t \in Reply /\ m.want)
      /\ \A b \in v.S : b.t \notin {"OPEN", "OPEN_FAILURE"} /\ b.t # "CLOSE" /\ ~(b.want /\ m.want)
                        /\ (b.t = "EOF" => m.t \notin Data)
  <2>1. ASSUME NEW a \in w.S PROVE a.t \notin Opening /\ ~(a.t \in Reply /\ m.want)
    <3>1. MessageOK(p, h, g, w, v, a)
      BY <1>1 DEF Messages
    <3> QED
      BY <1>2, <3>1 DEF MessageOK, OpenOK, AnswerOK, Opening, AskedOK, Sends, Reply, Answers
  <2>2. ASSUME NEW b \in v.S
        PROVE  /\ b.t \notin {"OPEN", "OPEN_FAILURE"} /\ b.t # "CLOSE" /\ ~(b.want /\ m.want)
               /\ (b.t = "EOF" => m.t \notin Data)
    <3>1. MessageOK(Other(p), g, h, v, w, b)
      BY <1>1 DEF Messages
    <3> QED
      BY <1>2, <3>1 DEF MessageOK, OpenOK, AnswerOK, AskedOK, FlowOK, Sends, Answers
  <2> QED
    BY <2>1, <2>2
<1>4. Messages(p, k, g, w, u)
  <2> SUFFICES ASSUME NEW a \in w.S PROVE MessageOK(p, k, g, w, u, a)
    BY DEF Messages
  <2>1. MessageOK(p, h, g, w, v, a) /\ a.t \notin Opening /\ ~(a.t \in Reply /\ m.want)
    BY <1>1, <1>3 DEF Messages
  <2> QED
    BY <1>2, <2>1 DEF MessageOK, FlowOK, AskedOK, Sends, Opening, Reply, Sides
<1>5. Messages(Other(p), g, k, u, w)
  <2> SUFFICES ASSUME NEW b \in u.S PROVE MessageOK(Other(p), g, k, u, w, b)
    BY DEF Messages
  <2>1. CASE b = m
    <3>1. g.x.open_confirmed \/ \E z \in u.S : z.t = "OPEN_CONFIRMATION" /\ <<z, m>> \in u.B
      BY <1>2 DEF Longer
    <3> QED
      BY <1>2, <2>1, <3>1 DEF MessageOK, FlowOK, AskedOK, Sends, Opening, Other
  <2>2. CASE b \in v.S
    <3>1. MessageOK(Other(p), g, h, v, w, b) /\ b.t \notin {"OPEN", "OPEN_FAILURE"} /\ b.t # "CLOSE"
          /\ ~(b.want /\ m.want)
      BY <1>1, <1>3, <2>2 DEF Messages
    <3>2. \A z : z \in v.S => z \in u.S
      BY DEF Longer
    <3>3. \A y, z : <<y, z>> \in v.B => <<y, z>> \in u.B
      BY DEF Longer
    <3>4. CASE b.t \in Answers
      BY <1>2, <3>1, <3>4 DEF MessageOK, AnswerOK, Sends, Answers
    <3>5. CASE b.t \notin Answers
      BY <1>2, <3>1, <3>2, <3>3, <3>5 DEF MessageOK, FlowOK, AskedOK, Sends
    <3> QED
      BY <3>4, <3>5
  <2> QED
    BY <2>1, <2>2 DEF Longer
<1>6. Ordered(u) /\ Crossed(w, u) /\ Crossed(u, w)
  <2>1. Ordered(u)
    BY <1>1, <1>3 DEF Ordered, Longer, Follows, Sends, Opening, Reply
  <2>2. Crossed(w, u)
    BY <1>1, <1>3 DEF Crossed, Longer, Beside
  <2>3. Crossed(u, w)
    BY <1>1, <1>3 DEF Crossed, Longer, Beside, Sends
  <2> QED
    BY <2>1, <2>2, <2>3
<1>7. Alone(p, k, g) /\ Alone(Other(p), g, k)
  BY <1>1, <1>2 DEF Alone, Sends
<1>8. Ends(k, g, w, u) /\ Ends(g, k, u, w)
  <2>1. Ends(k, g, w, u)
    BY <1>1, <1>2 DEF Ends, Sends, Longer, Typed, ChannelState, Data, Credit, Message
  <2>2. Ends(g, k, u, w)
    BY <1>1, <1>2 DEF Ends, Sends, Longer, Typed, ChannelState, Data, Credit, Message
  <2> QED
    BY <2>1, <2>2
<1>9. Fresh(k, g, w, u) /\ Fresh(g, k, u, w)
  BY <1>1, <1>2 DEF Fresh, Sends, Longer, Typed, ChannelState, AppState, Data, Credit, Message
<1>10. Fits(k, w) /\ Fits(g, u)
  BY <1>1, <1>2 DEF Fits, Ends, Sends, Longer, Typed, ChannelState, AppState, Data, Credit, Message
<1> QED
  BY <1>1, <1>4, <1>5, <1>6, <1>7, <1>8, <1>9, <1>10 DEF Pair, Half

(* The first message, unless it is part of an open, is for a channel that p *)
(* has and has opened, that has not been closed and has room for it.        *)
LEMMA FirstMessage ==
    ASSUME NEW p \in Peers, NEW h, NEW g, NEW w, NEW v, NEW m \in Message, NEW u,
           Pair(p, h, g, w, v), Shorter(w, m, u), Typed(h, u), m.t \notin Opening
    PROVE  /\ h.on /\ m.ch = h.id /\ h.x.open_confirmed
           /\ m.t \in Data => /\ "remote" \notin h.x.eof \cup h.x.closed
                              /\ m.n <= h.x.local_window /\ m.n <= MaxPacket
<1>1. Messages(p, h, g, w, v) /\ Ordered(w) /\ Fits(h, w) /\ Typed(h, w)
  BY DEF Pair, Half
<1>2. m \in w.S /\ \A z \in u.S : z \in w.S /\ <<m, z>> \in w.B
  BY DEF Shorter
<1>3. MessageOK(p, h, g, w, v, m)
  BY <1>1, <1>2 DEF Messages
<1>4. h.on /\ m.ch = h.id /\ FlowOK(h, g, w, m)
  BY <1>3 DEF MessageOK, Opening
<1>5. h.x.open_confirmed
  <2> SUFFICES ASSUME NEW z \in w.S, z.t = "OPEN_CONFIRMATION", <<z, m>> \in w.B PROVE FALSE
    BY <1>4 DEF FlowOK
  <2>1. z # m
    BY DEF Opening, Answers
  <2>2. z \in u.S
    BY <2>1 DEF Shorter
  <2> QED
    BY <1>1, <1>2, <2>2 DEF Ordered, Follows, Opening, Answers
<1>6. m.t \in Data => m.n <= h.x.local_window
  BY <1>1, <1>4 DEF Fits, Shorter, Typed, ChannelState, Message
<1> QED
  BY <1>4, <1>5, <1>6 DEF FlowOK, Data, Reply

\* What reading m, which is not part of an open, makes of p's channel, if it
\* stays.
Takes(x, y, m, xn, yn) ==
    /\ m.t \notin Opening
    /\ xn.open_confirmed /\ xn.remote_id = x.remote_id
    /\ xn.remote_max_packet = x.remote_max_packet
    /\ xn.eof = IF m.t = "EOF" THEN x.eof \cup {"remote"} ELSE x.eof
    /\ xn.closed = IF m.t = "CLOSE" THEN x.closed \cup {"remote"} ELSE x.closed
    /\ x.local_window = xn.local_window + (IF m.t \in Data THEN m.n ELSE 0)
    /\ xn.remote_window = x.remote_window + (IF m.t \in Credit THEN m.n ELSE 0)
    /\ yn.unread = y.unread + (IF m.t \in Data THEN m.n ELSE 0)
    /\ IF m.t \in Reply THEN yn.stage \in {"running", "denied"} ELSE yn.stage = y.stage

LEMMA TakeFlow ==
    ASSUME NEW p \in Peers, NEW h, NEW g, NEW w, NEW v, NEW k, NEW m \in Message, NEW u,
           Pair(p, h, g, w, v), k.on, k.id = h.id, Takes(h.x, h.y, m, k.x, k.y),
           Shorter(w, m, u), Typed(k, u), Typed(h, u)
    PROVE  Pair(p, k, g, u, v)
<1>1. /\ Messages(p, h, g, w, v) /\ Ordered(w) /\ Crossed(w, v)
      /\ Alone(p, h, g) /\ Ends(h, g, w, v) /\ Fresh(h, g, w, v) /\ Fits(h, w)
      /\ Messages(Other(p), g, h, v, w) /\ Ordered(v) /\ Crossed(v, w)
      /\ Alone(Other(p), g, h) /\ Ends(g, h, v, w) /\ Fresh(g, h, v, w) /\ Fits(g, v)
      /\ Typed(h, w) /\ Typed(g, v)
  BY DEF Pair, Half
<1>2. m.t \notin Opening /\ h.on /\ m.ch = h.id /\ h.x.open_confirmed
  BY FirstMessage DEF Takes
<1>3. m \in w.S /\ \A z \in u.S : z \in w.S /\ <<m, z>> \in w.B
  BY DEF Shorter
<1>4. \A y, z : <<y, z>> \in u.B => <<y, z>> \in w.B
  BY DEF Shorter
<1>5. FlowOK(h, g, w, m) /\ AskedOK(p, h, g, m)
  BY <1>1, <1>2, <1>3 DEF Messages, MessageOK, Opening
<1>6. \A a \in u.S : Follows(m, a)
  BY <1>1, <1>3 DEF Ordered
<1>7. \A b \in v.S : b.t \notin Opening /\ ~(m.t \in Reply /\ b.want)
  BY <1>1, <1>3 DEF Crossed, Beside
<1>8. Messages(p, k, g, u, v)
  <2> SUFFICES ASSUME NEW a \in u.S PROVE MessageOK(p, k, g, u, v, a)
    BY DEF Messages
  <2>1. MessageOK(p, h, g, w, v, a) /\ Follows(m, a)
    BY <1>1, <1>3, <1>6 DEF Messages
  <2>2. a.t \notin Opening /\ h.on /\ a.ch = h.id /\ FlowOK(h, g, w, a) /\ AskedOK(p, h, g, a)
    BY <2>1 DEF Follows, MessageOK, Opening
  <2>3. FlowOK(k, g, u, a)
    BY <2>1, <2>2 DEF FlowOK, Takes, Follows, Sides
  <2>4. AskedOK(p, k, g, a)
    BY <2>1, <2>2 DEF AskedOK, Takes, Follows
  <2> QED
    BY <2>2, <2>3, <2>4 DEF MessageOK, Opening, Takes
<1>9. Messages(Other(p), g, k, v, u)
  <2> SUFFICES ASSUME NEW b \in v.S PROVE MessageOK(Other(p), g, k, v, u, b)
    BY DEF Messages
  <2>1. MessageOK(Other(p), g, h, v, w, b) /\ b.t \notin Opening /\ ~(m.t \in Reply /\ b.want)
    BY <1>1, <1>7 DEF Messages
  <2> QED
    BY <1>2, <2>1 DEF MessageOK, FlowOK, AskedOK, Takes, Opening
<1>10. Ordered(u) /\ Crossed(u, v) /\ Crossed(v, u)
  <2>1. Ordered(u)
    BY <1>1, <1>4 DEF Ordered
  <2>2. Crossed(u, v) /\ Crossed(v, u)
    BY <1>1, <1>3 DEF Crossed
  <2> QED
    BY <2>1, <2>2
<1>11. Alone(p, k, g) /\ Alone(Other(p), g, k)
  BY <1>1, <1>2, <1>5 DEF Alone, Takes, AskedOK
<1>12. Ends(k, g, u, v) /\ Ends(g, k, v, u)
  <2>0. /\ h.x.local_window \in Nat /\ k.x.local_window \in Nat /\ h.x.remote_window \in Nat
        /\ k.x.remote_window \in Nat /\ m.n \in Nat /\ u.D \in Nat /\ u.J \in Nat
        /\ v.D \in Nat /\ v.J \in Nat
        /\ g.on => g.x.local_window \in Nat /\ g.x.remote_window \in Nat
    BY <1>1, <1>2 DEF Typed, ChannelState, Message, Takes
  <2> DEFINE data == IF m.t \in Data THEN m.n ELSE 0
             credit == IF m.t \in Credit THEN m.n ELSE 0
  <2>5. /\ h.x.local_window = k.x.local_window + data /\ w.D = u.D + data
        /\ k.x.remote_window = h.x.remote_window + credit /\ w.J = u.J + credit
    BY DEF Takes, Shorter
  <2>6. data \in Nat /\ credit \in Nat
    BY <2>0
  <2> HIDE DEF data, credit
  <2>1. g.on /\ g.x.open_confirmed => k.x.local_window = g.x.remote_window + u.D + v.J
    <3>1. g.on /\ g.x.open_confirmed => h.x.local_window = g.x.remote_window + w.D + v.J
      BY <1>1, <1>2 DEF Ends
    <3> QED
      BY <2>0, <2>5, <2>6, <3>1
  <2>2. g.on => g.x.local_window = k.x.remote_window + v.D + u.J
    <3>1. g.on => g.x.local_window = h.x.remote_window + v.D + w.J
      BY <1>1, <1>2 DEF Ends
    <3> QED
      BY <2>0, <2>5, <2>6, <3>1
  <2>3. Ends(k, g, u, v)
    BY <1>1, <1>2, <1>5, <2>1 DEF Ends, Takes, FlowOK
  <2>4. Ends(g, k, v, u)
    BY <1>1, <1>2, <1>5, <2>2 DEF Ends, Takes, FlowOK
  <2> QED
    BY <2>3, <2>4
<1>13. Fresh(k, g, u, v) /\ Fresh(g, k, v, u)
  BY <1>1, <1>2 DEF Fresh, Takes, Shorter, Typed, ChannelState, AppState, Data, Credit, Message
<1>14. Fits(k, u) /\ Fits(g, v)
  BY <1>1, <1>2 DEF Fits, Takes, Shorter, Typed, ChannelState, AppState, Data, Credit, Message
<1> QED
  BY <1>1, <1>8, <1>9, <1>10, <1>11, <1>12, <1>13, <1>14 DEF Pair, Half

(* p reads its last message and forgets the channel: its open was refused,  *)
(* or both sides have closed it.                                            *)
LEMMA TakeLast ==
    ASSUME NEW p \in Peers, NEW h, NEW g, NEW w, NEW v, NEW k, NEW m \in Message, NEW u,
           Pair(p, h, g, w, v), ~k.on, Shorter(w, m, u), Typed(k, u), Typed(h, u),
           m.t = "OPEN_FAILURE" \/ (m.t = "CLOSE" /\ "local" \in h.x.closed)
    PROVE  Pair(p, k, g, u, v)
<1>1. /\ Messages(p, h, g, w, v) /\ Ordered(w) /\ Crossed(w, v)
      /\ Alone(p, h, g) /\ Ends(h, g, w, v) /\ Fresh(h, g, w, v) /\ Fits(h, w)
      /\ Messages(Other(p), g, h, v, w) /\ Ordered(v) /\ Crossed(v, w)
      /\ Alone(Other(p), g, h) /\ Ends(g, h, v, w) /\ Fresh(g, h, v, w) /\ Fits(g, v)
      /\ Typed(h, w) /\ Typed(g, v)
  BY DEF Pair, Half
<1>2. m \in w.S /\ \A z \in u.S : z \in w.S /\ <<m, z>> \in w.B
  BY DEF Shorter
<1>3. MessageOK(p, h, g, w, v, m)
  BY <1>1, <1>2 DEF Messages
<1>4. h.on
  BY <1>3 DEF MessageOK
<1>5. g.on => "local" \in g.x.closed
  BY <1>3 DEF MessageOK, AnswerOK, FlowOK, Answers
<1>6. u.S = {}
  <2> SUFFICES ASSUME NEW a \in u.S PROVE FALSE
    OBVIOUS
  <2>1. Follows(m, a) /\ MessageOK(p, h, g, w, v, a)
    BY <1>1, <1>2 DEF Ordered, Messages
  <2>2. m.t = "CLOSE" /\ "local" \in h.x.closed /\ a.t \in Reply
    BY <2>1 DEF Follows
  <2>3. p = "c" /\ h.y.stage = "asked"
    BY <2>1, <2>2 DEF MessageOK, AskedOK, Reply, Answers
  <2> QED
    BY <1>1, <1>4, <2>2, <2>3 DEF Alone
<1>7. Messages(Other(p), g, k, v, u)
  <2> SUFFICES ASSUME NEW b \in v.S PROVE MessageOK(Other(p), g, k, v, u, b)
    BY DEF Messages
  <2>1. MessageOK(Other(p), g, h, v, w, b) /\ Beside(m, b) /\ Beside(b, m)
    BY <1>1, <1>2 DEF Messages, Crossed
  <2>2. b.t \notin Opening /\ m.t = "CLOSE" /\ "local" \in h.x.closed
    BY <2>1 DEF Beside, Opening, Answers
  <2>3. ~b.want
    BY <1>1, <1>4, <2>1, <2>2 DEF MessageOK, AskedOK, Opening, Alone, Other, Peers
  <2> QED
    BY <2>1, <2>2, <2>3 DEF MessageOK, FlowOK, AskedOK, Opening
<1>8. Messages(p, k, g, u, v)
  BY <1>6 DEF Messages
<1>9. Ordered(u) /\ Crossed(u, v) /\ Crossed(v, u)
  BY <1>1, <1>6 DEF Ordered, Crossed, Shorter
<1>10. Alone(p, k, g) /\ Alone(Other(p), g, k)
  BY <1>1, <1>5 DEF Alone
<1>11. /\ Ends(k, g, u, v) /\ Ends(g, k, v, u) /\ Fits(k, u) /\ Fits(g, v) /\ Fresh(k, g, u, v)
  BY <1>1 DEF Ends, Fits, Fresh
<1>12. Fresh(g, k, v, u)
  BY <1>1, <1>5 DEF Fresh, Alone
<1> QED
  BY <1>1, <1>7, <1>8, <1>9, <1>10, <1>11, <1>12 DEF Pair, Half

(* p answers the other side's CLOSE and forgets the channel.                *)
LEMMA SendLast ==
    ASSUME NEW p \in Peers, NEW h, NEW g, NEW w, NEW v, NEW k, NEW m \in Message, NEW u,
           Pair(p, h, g, w, v), ~k.on, Longer(v, m, u), Typed(k, w), Typed(g, u),
           h.on, "local" \notin h.x.closed, "remote" \in h.x.closed,
           m.t = "CLOSE", ~m.want, m.ch = h.x.remote_id, p = "c" => h.y.stage = "running"
    PROVE  Pair(p, k, g, w, u)
<1>1. /\ Messages(p, h, g, w, v) /\ Ordered(w) /\ Crossed(w, v)
      /\ Alone(p, h, g) /\ Ends(h, g, w, v) /\ Fresh(h, g, w, v) /\ Fits(h, w)
      /\ Messages(Other(p), g, h, v, w) /\ Ordered(v) /\ Crossed(v, w)
      /\ Alone(Other(p), g, h) /\ Ends(g, h, v, w) /\ Fresh(g, h, v, w) /\ Fits(g, v)
      /\ Typed(h, w) /\ Typed(g, v)
  BY DEF Pair, Half
<1>2. /\ h.x.open_confirmed /\ g.on /\ m.ch = g.id /\ "local" \in g.x.closed
      /\ "remote" \notin g.x.closed /\ g.x.open_confirmed
  BY <1>1 DEF Alone, Ends, Typed
<1>3. w.S = {}
  <2> SUFFICES ASSUME NEW a \in w.S PROVE FALSE
    OBVIOUS
  <2>1. MessageOK(p, h, g, w, v, a)
    BY <1>1 DEF Messages
  <2> QED
    BY <1>2, <2>1 DEF MessageOK, OpenOK, AnswerOK, FlowOK, AskedOK, Reply, Answers
<1>4. \A b \in v.S : /\ MessageOK(Other(p), g, h, v, w, b)
                     /\ b.t \notin {"OPEN", "OPEN_FAILURE", "CLOSE", "OPEN_CONFIRMATION"} /\ ~b.want
  <2> SUFFICES ASSUME NEW b \in v.S
               PROVE  /\ MessageOK(Other(p), g, h, v, w, b)
                      /\ b.t \notin {"OPEN", "OPEN_FAILURE", "CLOSE", "OPEN_CONFIRMATION"} /\ ~b.want
    OBVIOUS
  <2>1. MessageOK(Other(p), g, h, v, w, b)
    BY <1>1 DEF Messages
  <2> QED
    BY <1>2, <2>1 DEF MessageOK, OpenOK, AnswerOK, FlowOK, AskedOK, Answers, Other, Peers
<1>5. Messages(Other(p), g, k, u, w)
  <2> SUFFICES ASSUME NEW b \in u.S PROVE MessageOK(Other(p), g, k, u, w, b)
    BY DEF Messages
  <2>1. CASE b = m
    BY <1>2, <2>1 DEF MessageOK, FlowOK, AskedOK, Answers, Reply, Data
  <2>2. CASE b \in v.S
    <3>1. MessageOK(Other(p), g, h, v, w, b) /\ b.t \notin Opening /\ ~b.want
      BY <1>4, <2>2 DEF Opening, Answers
    <3> QED
      BY <1>2, <3>1 DEF MessageOK, FlowOK, AskedOK, Opening
  <2> QED
    BY <2>1, <2>2 DEF Longer
<1>6. Messages(p, k, g, w, u)
  BY <1>3 DEF Messages
<1>7. Ordered(u)
  BY <1>1, <1>4 DEF Ordered, Longer, Follows, Opening, Answers, Reply, Data
<1>8. Crossed(w, u) /\ Crossed(u, w)
  BY <1>3 DEF Crossed
<1>9. Alone(p, k, g) /\ Alone(Other(p), g, k)
  BY <1>1, <1>2 DEF Alone
<1>10. /\ Ends(k, g, w, u) /\ Ends(g, k, u, w) /\ Fits(k, w) /\ Fresh(k, g, w, u)
       /\ Fresh(g, k, u, w)
  BY <1>2 DEF Ends, Fits, Fresh
<1>11. Fits(g, u)
  BY <1>1 DEF Fits, Longer, Data, Typed
<1> QED
  BY <1>1, <1>5, <1>6, <1>7, <1>8, <1>9, <1>10, <1>11 DEF Pair, Half

(* p, the server, answers the question it has just read.                    *)
LEMMA SendReply ==
    ASSUME NEW p \in Peers, NEW h, NEW g, NEW w, NEW v, NEW k, NEW m \in Message, NEW u,
           Pair(p, h, g, w, v), Longer(v, m, u), Typed(k, w), Typed(g, u),
           p = "s", h.on, h.x.open_confirmed, g.on, g.y.stage = "asked",
           \A a \in w.S : ~a.want, \A b \in v.S : b.t \notin Reply,
           m.t \in Reply, ~m.want, m.ch = h.x.remote_id,
           k.on, k.id = h.id, k.x = h.x, k.y.unread = h.y.unread, k.y.stage # "opening"
    PROVE  Pair(p, k, g, w, u)
<1>1. /\ Messages(p, h, g, w, v) /\ Ordered(w) /\ Crossed(w, v)
      /\ Alone(p, h, g) /\ Ends(h, g, w, v) /\ Fresh(h, g, w, v) /\ Fits(h, w)
      /\ Messages(Other(p), g, h, v, w) /\ Ordered(v) /\ Crossed(v, w)
      /\ Alone(Other(p), g, h) /\ Ends(g, h, v, w) /\ Fresh(g, h, v, w) /\ Fits(g, v)
      /\ Typed(h, w) /\ Typed(g, v)
  BY DEF Pair, Half
<1>2. /\ m.ch = g.id /\ (g.x.open_confirmed \/ \E z \in v.S : z.t = "OPEN_CONFIRMATION")
      /\ m.t \notin Opening /\ m.t \notin Data /\ m.t \notin Credit /\ m.t \notin Answers
      /\ m.t \notin {"OPEN", "EOF", "CLOSE"} /\ Other(p) = "c"
  BY <1>1 DEF Ends, Opening, Reply, Answers, Data, Credit, Other
<1>3. /\ \A a \in w.S : MessageOK(p, h, g, w, v, a) /\ a.t \notin Opening
      /\ \A b \in v.S : /\ MessageOK(Other(p), g, h, v, w, b)
                        /\ b.t \notin {"OPEN", "OPEN_FAILURE"} /\ ~b.want
  <2>1. ASSUME NEW a \in w.S PROVE MessageOK(p, h, g, w, v, a) /\ a.t \notin Opening
    <3>1. MessageOK(p, h, g, w, v, a)
      BY <1>1 DEF Messages
    <3> QED
      BY <3>1 DEF MessageOK, OpenOK, AnswerOK, Opening, Answers
  <2>2. ASSUME NEW b \in v.S
        PROVE  /\ MessageOK(Other(p), g, h, v, w, b)
               /\ b.t \notin {"OPEN", "OPEN_FAILURE"} /\ ~b.want
    <3>1. MessageOK(Other(p), g, h, v, w, b)
      BY <1>1 DEF Messages
    <3> QED
      BY <1>2, <3>1 DEF MessageOK, OpenOK, AnswerOK, AskedOK, Answers
  <2> QED
    BY <2>1, <2>2
<1>4. Messages(p, k, g, w, u)
  <2> SUFFICES ASSUME NEW a \in w.S PROVE MessageOK(p, k, g, w, u, a)
    BY DEF Messages
  <2>1. MessageOK(p, h, g, w, v, a) /\ a.t \notin Opening /\ ~a.want
    BY <1>3
  <2> QED
    BY <2>1 DEF MessageOK, FlowOK, AskedOK, Opening
<1>5. Messages(Other(p), g, k, u, w)
  <2> SUFFICES ASSUME NEW b \in u.S PROVE MessageOK(Other(p), g, k, u, w, b)
    BY DEF Messages
  <2>1. CASE b = m
    <3>1. g.x.open_confirmed \/ \E z \in u.S : z.t = "OPEN_CONFIRMATION" /\ <<z, m>> \in u.B
      BY <1>2 DEF Longer
    <3> QED
      BY <1>2, <2>1, <3>1 DEF MessageOK, FlowOK, AskedOK
  <2>2. CASE b \in v.S
    <3>1. MessageOK(Other(p), g, h, v, w, b) /\ b.t \notin {"OPEN", "OPEN_FAILURE"}
      BY <1>3, <2>2
    <3>2. \A z : z \in v.S => z \in u.S
      BY DEF Longer
    <3>3. \A y, z : <<y, z>> \in v.B => <<y, z>> \in u.B
      BY DEF Longer
    <3>4. CASE b.t \in Answers
      BY <3>1, <3>4 DEF MessageOK, AnswerOK, Answers
    <3>5. CASE b.t \notin Answers
      BY <1>2, <3>1, <3>2, <3>3, <3>5 DEF MessageOK, FlowOK, AskedOK
    <3> QED
      BY <3>4, <3>5
  <2> QED
    BY <2>1, <2>2 DEF Longer
<1>6. Ordered(u)
  BY <1>1, <1>2, <1>3 DEF Ordered, Longer, Follows
<1>7. Crossed(w, u) /\ Crossed(u, w)
  BY <1>1, <1>2, <1>3 DEF Crossed, Longer, Beside
<1>8. Alone(p, k, g) /\ Alone(Other(p), g, k)
  BY <1>1 DEF Alone
<1>9. Ends(k, g, w, u) /\ Ends(g, k, u, w)
  BY <1>1, <1>2 DEF Ends, Longer, Typed, ChannelState
<1>10. /\ Fresh(k, g, w, u) /\ Fresh(g, k, u, w) /\ Fits(k, w) /\ Fits(g, u)
  BY <1>1, <1>2 DEF Fresh, Fits, Longer, Typed
<1> QED
  BY <1>1, <1>4, <1>5, <1>6, <1>7, <1>8, <1>9, <1>10 DEF Pair, Half

(* p consumes what it has read, and keeps the credit for later.             *)
\* All but pending_replenish stays.
Quiet(x, y, xn, yn) ==
    /\ xn.open_confirmed = x.open_confirmed /\ xn.initiated_by_us = x.initiated_by_us
    /\ xn.remote_id = x.remote_id /\ xn.remote_max_packet = x.remote_max_packet
    /\ xn.eof = x.eof /\ xn.closed = x.closed
    /\ xn.local_window = x.local_window /\ xn.remote_window = x.remote_window
    /\ y.unread # 0 /\ yn.stage = y.stage

LEMMA ConsumeQuietly ==
    ASSUME NEW p \in Peers, NEW h, NEW g, NEW w, NEW v, NEW k,
           Pair(p, h, g, w, v), Typed(k, w), h.on, k.on, k.id = h.id, Quiet(h.x, h.y, k.x, k.y)
    PROVE  Pair(p, k, g, w, v)
<1>1. /\ Messages(p, h, g, w, v) /\ Ordered(w) /\ Crossed(w, v)
      /\ Alone(p, h, g) /\ Ends(h, g, w, v) /\ Fresh(h, g, w, v) /\ Fits(h, w)
      /\ Messages(Other(p), g, h, v, w) /\ Ordered(v) /\ Crossed(v, w)
      /\ Alone(Other(p), g, h) /\ Ends(g, h, v, w) /\ Fresh(g, h, v, w) /\ Fits(g, v)
      /\ Typed(h, w) /\ Typed(g, v)
  BY DEF Pair, Half
<1>2. Messages(p, k, g, w, v)
  <2> SUFFICES ASSUME NEW a \in w.S PROVE MessageOK(p, k, g, w, v, a)
    BY DEF Messages
  <2>1. MessageOK(p, h, g, w, v, a)
    BY <1>1 DEF Messages
  <2> QED
    BY <2>1 DEF MessageOK, OpenOK, AnswerOK, FlowOK, AskedOK, Quiet
<1>3. Messages(Other(p), g, k, v, w)
  <2> SUFFICES ASSUME NEW b \in v.S PROVE MessageOK(Other(p), g, k, v, w, b)
    BY DEF Messages
  <2>1. MessageOK(Other(p), g, h, v, w, b)
    BY <1>1 DEF Messages
  <2> QED
    BY <2>1 DEF MessageOK, OpenOK, AnswerOK, FlowOK, AskedOK, Quiet
<1>4. Alone(p, k, g) /\ Alone(Other(p), g, k) /\ Fits(k, w)
  BY <1>1 DEF Alone, Fits, Quiet
<1>5. Ends(k, g, w, v) /\ Ends(g, k, v, w)
  BY <1>1 DEF Ends, Quiet
<1>6. Fresh(k, g, w, v) /\ Fresh(g, k, v, w)
  BY <1>1 DEF Fresh, Quiet
<1> QED
  BY <1>1, <1>2, <1>3, <1>4, <1>5, <1>6 DEF Pair, Half

\* Nothing is known of the tag.
Blank(h, w) == ~h.on /\ w.S = {} /\ w.B = {} /\ w.D = 0 /\ w.J = 0

LEMMA BlankPair ==
    ASSUME NEW p \in Peers, NEW h, NEW g, NEW w, NEW v, Blank(h, w), Blank(g, v),
           Typed(h, w), Typed(g, v)
    PROVE  Pair(p, h, g, w, v)
<1>1. Messages(p, h, g, w, v) /\ Messages(Other(p), g, h, v, w)
  BY DEF Blank, Messages
<1>2. Ordered(w) /\ Ordered(v) /\ Crossed(w, v) /\ Crossed(v, w)
  BY DEF Blank, Ordered, Crossed
<1>3. Alone(p, h, g) /\ Alone(Other(p), g, h) /\ Fits(h, w) /\ Fits(g, v)
  BY DEF Blank, Alone, Fits
<1>4. Ends(h, g, w, v) /\ Ends(g, h, v, w) /\ Fresh(h, g, w, v) /\ Fresh(g, h, v, w)
  BY DEF Blank, Ends, Fresh
<1> QED
  BY <1>1, <1>2, <1>3, <1>4 DEF Pair, Half

\* A channel as it is inserted: of our open, or of the peer's, accepted.
IsFresh(x, y, remote, window, max, ours) ==
    /\ x.remote_id = remote /\ x.local_window = Window
    /\ x.remote_window = window /\ x.remote_max_packet = max
    /\ x.eof = {} /\ x.closed = {} /\ y.unread = 0
    /\ x.open_confirmed = ~ours /\ x.initiated_by_us = ours
    /\ (y.stage = "opening") <=> ours

(* p opens a channel.                                                       *)
LEMMA SendOpen ==
    ASSUME NEW p \in Peers, NEW h, NEW g, NEW w, NEW v, NEW k, NEW m \in Message, NEW u,
           Blank(h, w), Blank(g, v), Longer(v, m, u), Typed(k, w), Typed(g, u),
           k.on, IsFresh(k.x, k.y, 0, 0, 0, TRUE),
           m.t = "OPEN", m.from = k.id, m.n = Window, m.max = MaxPacket, ~m.want
    PROVE  Pair(p, k, g, w, u)
<1>1. /\ \A z : z \in u.S <=> z = m
      /\ \A y, z : <<y, z>> \notin u.B
      /\ u.D = 0 /\ u.J = 0 /\ w.D = 0 /\ w.J = 0 /\ w.S = {} /\ w.B = {} /\ ~g.on
  BY DEF Blank, Longer, Data, Credit
<1>2. Messages(p, k, g, w, u) /\ Messages(Other(p), g, k, u, w)
  BY <1>1 DEF Messages, MessageOK, OpenOK, IsFresh
<1>3. Ordered(w) /\ Ordered(u) /\ Crossed(w, u) /\ Crossed(u, w)
  BY <1>1 DEF Ordered, Crossed
<1>4. Alone(p, k, g) /\ Alone(Other(p), g, k)
  BY <1>1 DEF Alone, IsFresh
<1>5. Fits(k, w) /\ Fits(g, u)
  BY <1>1, WindowAssumption DEF Fits, IsFresh
<1>6. Ends(k, g, w, u) /\ Ends(g, k, u, w) /\ Fresh(k, g, w, u) /\ Fresh(g, k, u, w)
  BY <1>1 DEF Ends, Fresh
<1> QED
  BY <1>2, <1>3, <1>4, <1>5, <1>6 DEF Pair, Half

(* An OPEN is alone.                                                        *)
LEMMA OpenAlone ==
    ASSUME NEW p \in Peers, NEW h, NEW g, NEW w, NEW v, NEW m \in Message, NEW u,
           Pair(p, h, g, w, v), Shorter(w, m, u), Typed(h, u), m.t = "OPEN"
    PROVE  /\ u.S = {} /\ v.S = {} /\ u.D = 0 /\ u.J = 0 /\ v.D = 0 /\ v.J = 0
           /\ (\A y, z : <<y, z>> \notin u.B)
           /\ OpenOK(h, g, w, v, m) /\ Alone(Other(p), g, h) /\ Ordered(v)
           /\ g.x.closed = {} /\ g.x.local_window = Window /\ g.y.unread = 0
<1>1. /\ Messages(p, h, g, w, v) /\ Ordered(w) /\ Crossed(w, v) /\ Ordered(v)
      /\ Alone(Other(p), g, h) /\ Typed(h, w) /\ Typed(g, v)
  BY DEF Pair, Half
<1>2. m \in w.S /\ \A z \in u.S : z \in w.S /\ <<m, z>> \in w.B
  BY DEF Shorter
<1>3. OpenOK(h, g, w, v, m)
  BY <1>1, <1>2 DEF Messages, MessageOK
<1>4. u.S = {} /\ v.S = {}
  BY <1>1, <1>2 DEF Ordered, Follows, Crossed, Beside, Opening
<1>5. \A y, z : <<y, z>> \notin u.B
  BY <1>4 DEF Typed
<1>6. u.D = 0 /\ u.J = 0 /\ v.D = 0 /\ v.J = 0
  BY <1>3 DEF OpenOK, Shorter, Data, Credit, Typed
<1> QED
  BY <1>1, <1>3, <1>4, <1>5, <1>6 DEF Alone, OpenOK

(* p accepts the open it reads.                                             *)
LEMMA AcceptPair ==
    ASSUME NEW p \in Peers, NEW h, NEW g, NEW w, NEW v, NEW m \in Message, NEW u, NEW k,
           NEW n \in Message, NEW r,
           Pair(p, h, g, w, v), Shorter(w, m, u), Typed(h, u), m.t = "OPEN",
           k.on, IsFresh(k.x, k.y, m.from, m.n, m.max, FALSE), Typed(k, u), Typed(g, r), Longer(v, n, r),
           n.t = "OPEN_CONFIRMATION", n.ch = m.from, n.from = k.id, n.n = Window,
           n.max = MaxPacket, ~n.want
    PROVE  Pair(p, k, g, u, r)
<1>1. /\ u.S = {} /\ v.S = {} /\ u.D = 0 /\ u.J = 0 /\ v.D = 0 /\ v.J = 0
      /\ (\A y, z : <<y, z>> \notin u.B)
      /\ OpenOK(h, g, w, v, m) /\ Alone(Other(p), g, h) /\ Ordered(v)
      /\ g.x.closed = {} /\ g.x.local_window = Window /\ g.y.unread = 0
  BY OpenAlone
<1>2. g.on /\ m.from = g.id /\ ~g.x.open_confirmed /\ m.n = Window /\ m.max = MaxPacket
  BY <1>1 DEF OpenOK
<1>3. /\ \A z : z \in r.S <=> z = n
      /\ \A y, z : <<y, z>> \in r.B <=> <<y, z>> \in v.B
      /\ r.D = 0 /\ r.J = 0
  BY <1>1 DEF Longer, Data, Credit
<1>4. Messages(p, k, g, u, r) /\ Messages(Other(p), g, k, r, u)
  <2>1. Messages(p, k, g, u, r)
    BY <1>1 DEF Messages
  <2>2. AnswerOK(g, k, n)
    BY <1>2 DEF AnswerOK, IsFresh
  <2>3. MessageOK(Other(p), g, k, r, u, n)
    BY <1>2, <2>2 DEF MessageOK, Answers
  <2>4. Messages(Other(p), g, k, r, u)
    BY <1>3, <2>3 DEF Messages
  <2> QED
    BY <2>1, <2>4
<1>5. Ordered(u) /\ Ordered(r) /\ Crossed(u, r) /\ Crossed(r, u)
  BY <1>1, <1>3 DEF Ordered, Crossed
<1>6. Alone(p, k, g) /\ Alone(Other(p), g, k)
  BY <1>1, <1>2 DEF Alone, IsFresh
<1>7. Fits(k, u) /\ Fits(g, r)
  BY <1>1, <1>3, WindowAssumption DEF Fits, IsFresh
<1>8. Ends(k, g, u, r) /\ Ends(g, k, r, u)
  <2>1. /\ k.on /\ k.x.open_confirmed /\ k.x.remote_id = g.id /\ k.x.remote_max_packet = MaxPacket
        /\ k.x.eof = {} /\ k.x.closed = {} /\ k.x.remote_window = Window
    BY <1>2 DEF IsFresh
  <2>2. g.x.eof = {} /\ g.x.closed = {} /\ n \in r.S
    BY <1>1, <1>2, <1>3 DEF Alone
  <2>3. g.x.local_window = k.x.remote_window + r.D + u.J
    BY <1>1, <1>3, <2>1, WindowAssumption
  <2>4. Ends(k, g, u, r)
    BY <1>2, <2>1, <2>2 DEF Ends
  <2>5. Ends(g, k, r, u)
    BY <1>2, <2>1, <2>2, <2>3 DEF Ends
  <2> QED
    BY <2>4, <2>5
<1>9. Fresh(k, g, u, r) /\ Fresh(g, k, r, u)
  BY <1>1, <1>2, <1>3 DEF Fresh, IsFresh
<1>10. Typed(g, r) /\ Typed(k, u)
  OBVIOUS
<1> QED
  BY <1>4, <1>5, <1>6, <1>7, <1>8, <1>9, <1>10 DEF Pair, Half

(* p refuses the open it reads.                                             *)
LEMMA RefusePair ==
    ASSUME NEW p \in Peers, NEW h, NEW g, NEW w, NEW v, NEW m \in Message, NEW u,
           NEW n \in Message, NEW r,
           Pair(p, h, g, w, v), Shorter(w, m, u), Typed(h, u), m.t = "OPEN",
           Typed(g, r), Longer(v, n, r), n.t = "OPEN_FAILURE", n.ch = m.from, ~n.want
    PROVE  Pair(p, h, g, u, r)
<1>1. /\ u.S = {} /\ v.S = {} /\ u.D = 0 /\ u.J = 0 /\ v.D = 0 /\ v.J = 0
      /\ (\A y, z : <<y, z>> \notin u.B)
      /\ OpenOK(h, g, w, v, m) /\ Alone(Other(p), g, h) /\ Ordered(v)
      /\ g.x.closed = {} /\ g.x.local_window = Window /\ g.y.unread = 0
  BY OpenAlone
<1>2. g.on /\ m.from = g.id /\ ~g.x.open_confirmed /\ ~h.on
  BY <1>1 DEF OpenOK
<1>3. /\ \A z : z \in r.S <=> z = n
      /\ \A y, z : <<y, z>> \in r.B <=> <<y, z>> \in v.B
      /\ r.D = 0 /\ r.J = 0
  BY <1>1 DEF Longer, Data, Credit
<1>4. Messages(p, h, g, u, r) /\ Messages(Other(p), g, h, r, u)
  BY <1>1, <1>2, <1>3 DEF Messages, MessageOK, AnswerOK, Answers
<1>5. Ordered(u) /\ Ordered(r) /\ Crossed(u, r) /\ Crossed(r, u)
  BY <1>1, <1>3 DEF Ordered, Crossed
<1>6. Alone(p, h, g) /\ Alone(Other(p), g, h)
  BY <1>1, <1>2 DEF Alone
<1>7. Fits(h, u) /\ Fits(g, r)
  BY <1>1, <1>2, <1>3, WindowAssumption DEF Fits
<1>8. Ends(h, g, u, r) /\ Ends(g, h, r, u) /\ Fresh(h, g, u, r) /\ Fresh(g, h, r, u)
  BY <1>1, <1>2, <1>3 DEF Ends, Fresh
<1> QED
  BY <1>4, <1>5, <1>6, <1>7, <1>8 DEF Pair, Half

(* The confirmation of p's open.                                            *)
LEMMA TakeConfirmation ==
    ASSUME NEW p \in Peers, NEW h, NEW g, NEW w, NEW v, NEW k, NEW m \in Message, NEW u,
           Pair(p, h, g, w, v), Shorter(w, m, u), Typed(k, u), Typed(h, u),
           m.t = "OPEN_CONFIRMATION", k.on, k.id = h.id, k.x.open_confirmed,
           k.x.remote_id = m.from, k.x.remote_window = m.n, k.x.remote_max_packet = m.max,
           k.x.eof = h.x.eof, k.x.closed = h.x.closed, k.x.local_window = h.x.local_window,
           k.y.unread = h.y.unread, k.y.stage \in {"idle", "running"}
    PROVE  Pair(p, k, g, u, v)
<1>1. /\ Messages(p, h, g, w, v) /\ Ordered(w) /\ Crossed(w, v)
      /\ Alone(p, h, g) /\ Ends(h, g, w, v) /\ Fresh(h, g, w, v) /\ Fits(h, w)
      /\ Messages(Other(p), g, h, v, w) /\ Ordered(v) /\ Crossed(v, w)
      /\ Alone(Other(p), g, h) /\ Ends(g, h, v, w) /\ Fresh(g, h, v, w) /\ Fits(g, v)
      /\ Typed(h, w) /\ Typed(g, v)
  BY DEF Pair, Half
<1>2. m \in w.S /\ \A z \in u.S : z \in w.S /\ <<m, z>> \in w.B
  BY DEF Shorter
<1>3. h.on /\ m.ch = h.id /\ AnswerOK(h, g, m)
  BY <1>1, <1>2 DEF Messages, MessageOK, Answers
<1>4. /\ ~h.x.open_confirmed /\ g.on /\ g.x.open_confirmed /\ m.from = g.id
      /\ m.n = Window /\ m.max = MaxPacket
      /\ h.x.eof = {} /\ h.x.closed = {} /\ h.x.local_window = Window
      /\ v.D = 0 /\ w.J = 0 /\ g.x.local_window = Window
  BY <1>1, <1>3 DEF AnswerOK, Alone, Fresh
<1>5. v.S = {} /\ u.J = 0 /\ u.D = w.D
  BY <1>1, <1>2, <1>4 DEF Crossed, Beside, Opening, Answers, Shorter, Data, Credit, Typed
<1>6. Messages(p, k, g, u, v)
  <2> SUFFICES ASSUME NEW a \in u.S PROVE MessageOK(p, k, g, u, v, a)
    BY DEF Messages
  <2>1. MessageOK(p, h, g, w, v, a) /\ Follows(m, a)
    BY <1>1, <1>2 DEF Messages, Ordered
  <2>2. h.y.stage = "opening" /\ a.t \notin Opening
    BY <1>1, <1>3, <1>4, <2>1 DEF Alone, Follows
  <2>3. a.t \notin Reply
    BY <2>1, <2>2 DEF MessageOK, AskedOK, Opening
  <2> QED
    BY <2>1, <2>2, <2>3 DEF MessageOK, FlowOK, AskedOK, Opening
<1>7. Messages(Other(p), g, k, v, u) /\ Crossed(u, v) /\ Crossed(v, u)
  BY <1>5 DEF Messages, Crossed
<1>8. Ordered(u)
  BY <1>1 DEF Ordered, Shorter
<1>9. Alone(p, k, g) /\ Alone(Other(p), g, k)
  BY <1>1, <1>4 DEF Alone
<1>10. Ends(k, g, u, v)
  BY <1>1, <1>3, <1>4, <1>5 DEF Ends
<1>11. Ends(g, k, v, u)
  <2>1. g.x.local_window = k.x.remote_window + v.D + u.J
    BY <1>4, <1>5, WindowAssumption
  <2> QED
    BY <1>1, <1>3, <1>4, <1>5, <2>1 DEF Ends
<1>12. Fresh(k, g, u, v) /\ Fresh(g, k, v, u) /\ Fits(k, u) /\ Fits(g, v)
  BY <1>1, <1>3, <1>4, <1>5 DEF Fresh, Fits
<1> QED
  BY <1>1, <1>6, <1>7, <1>8, <1>9, <1>10, <1>11, <1>12 DEF Pair, Half

---------------------------------------------------------------------------
(* The whole connection, seen from p: its ConnectionState c, its frontend a *)
(* and the messages ms on their way to it, and d, b and ns of the other     *)
(* side; n is the number of opens.                                          *)

Good(p, c, a, ms, d, b, ns, n) ==
    /\ PeerOK(c, a) /\ PeerOK(d, b) /\ ms \in Seq(Message) /\ ns \in Seq(Message) /\ n \in Nat
    /\ Distinct(c) /\ Distinct(d)
    /\ \A t \in Nat : Pair(p, Own(c, a, t), Own(d, b, t), Stream(ms, t), Stream(ns, t))
    /\ \A t \in Nat : t >= n => /\ Blank(Own(c, a, t), Stream(ms, t))
                                /\ Blank(Own(d, b, t), Stream(ns, t))

LEMMA TypedIs ==
    ASSUME NEW c, NEW a, PeerOK(c, a), NEW ms \in Seq(Message), NEW t
    PROVE  Typed(Own(c, a, t), Stream(ms, t))
<1>1. /\ Own(c, a, t).on \in BOOLEAN
      /\ Own(c, a, t).on => Own(c, a, t).x \in ChannelState /\ Own(c, a, t).y \in AppState
  <2>1. Own(c, a, t).on \in BOOLEAN
    BY OwnIs
  <2>2. ASSUME Own(c, a, t).on
        PROVE  Own(c, a, t).x \in ChannelState /\ Own(c, a, t).y \in AppState
    <3>1. PICK i \in Tracked(c) : Has(Own(c, a, t), i, c.channels[i], a[i])
      BY <2>2, OwnIs
    <3>2. c.channels[i] \in ChannelState /\ a[i] \in AppState
      BY ChannelOK
    <3> QED
      BY <3>1, <3>2 DEF Has
  <2> QED
    BY <2>1, <2>2
<1>2. /\ Stream(ms, t).S \subseteq Message /\ Stream(ms, t).D \in Nat /\ Stream(ms, t).J \in Nat
  BY StreamIs
<1>3. \A y, z : <<y, z>> \in Stream(ms, t).B => y \in Stream(ms, t).S /\ z \in Stream(ms, t).S
  BY StreamIs
<1> QED
  BY <1>1, <1>2, <1>3 DEF Typed

LEMMA GoodOther ==
    ASSUME NEW p \in Peers, NEW c, NEW a, NEW ms, NEW d, NEW b, NEW ns, NEW n,
           Good(p, c, a, ms, d, b, ns, n)
    PROVE  Good(Other(p), d, b, ns, c, a, ms, n)
<1>1. Other(Other(p)) = p
  BY OtherOther
<1>2. ASSUME NEW t \in Nat
      PROVE  Pair(Other(p), Own(d, b, t), Own(c, a, t), Stream(ns, t), Stream(ms, t))
  BY <1>1 DEF Good, Pair
<1> QED
  BY <1>2 DEF Good

\* A step of p on the channel of one open t, which leaves the others alone.
Moves(p, c, a, ms, d, b, ns, n, cn, an, msn, nsn, t) ==
    /\ Good(p, c, a, ms, d, b, ns, n) /\ t \in Nat /\ t < n
    /\ msn \in Seq(Message) /\ nsn \in Seq(Message)
    /\ PeerOK(cn, an) /\ Distinct(cn) /\ \A u : u # t => Own(cn, an, u) = Own(c, a, u)
    /\ \A u : u # t => Stream(msn, u) = Stream(ms, u)
    /\ \A u : u # t => Stream(nsn, u) = Stream(ns, u)
    /\ Pair(p, Own(cn, an, t), Own(d, b, t), Stream(msn, t), Stream(nsn, t))

LEMMA GoodStep ==
    ASSUME NEW p \in Peers, NEW c, NEW a, NEW ms, NEW d, NEW b, NEW ns, NEW n, NEW cn, NEW an,
           NEW msn, NEW nsn, NEW t, Moves(p, c, a, ms, d, b, ns, n, cn, an, msn, nsn, t)
    PROVE  Good(p, cn, an, msn, d, b, nsn, n)
<1> USE DEF Moves
<1>1. ASSUME NEW u \in Nat
      PROVE  Pair(p, Own(cn, an, u), Own(d, b, u), Stream(msn, u), Stream(nsn, u))
  <2>1. CASE u = t
    BY <2>1
  <2>2. CASE u # t
    BY <2>2 DEF Good
  <2> QED
    BY <2>1, <2>2
<1>2. ASSUME NEW u \in Nat, u >= n
      PROVE  Blank(Own(cn, an, u), Stream(msn, u)) /\ Blank(Own(d, b, u), Stream(nsn, u))
  <2>1. u # t
    BY <1>2 DEF Good
  <2> QED
    BY <1>2, <2>1 DEF Good
<1> QED
  BY <1>1, <1>2 DEF Good

(* The channel i of p and its tag.                                          *)
LEMMA GoodHas ==
    ASSUME NEW p \in Peers, NEW c, NEW a, NEW ms, NEW d, NEW b, NEW ns, NEW n,
           Good(p, c, a, ms, d, b, ns, n), NEW i \in Tracked(c)
    PROVE  LET t == c.channels[i].tag
           IN  /\ t \in Nat /\ t < n /\ Has(Own(c, a, t), i, c.channels[i], a[i])
               /\ Pair(p, Own(c, a, t), Own(d, b, t), Stream(ms, t), Stream(ns, t))
               /\ Typed(Own(d, b, t), Stream(ns, t))
<1> DEFINE t == c.channels[i].tag
<1>1. c.channels[i] \in ChannelState
  BY ChannelOK DEF Good
<1>2. t \in Nat
  BY <1>1 DEF ChannelState
<1>3. Has(Own(c, a, t), i, c.channels[i], a[i])
  BY OwnHas DEF Good
<1>4. t < n
  <2> SUFFICES ASSUME t >= n PROVE FALSE
    BY <1>2 DEF Good
  <2>1. ~Own(c, a, t).on
    BY <1>2 DEF Good, Blank
  <2> QED
    BY <1>3, <2>1 DEF Has
<1> HIDE DEF t
<1>5. Pair(p, Own(c, a, t), Own(d, b, t), Stream(ms, t), Stream(ns, t))
  BY <1>2 DEF Good
<1> QED
  BY <1>2, <1>3, <1>4, <1>5 DEF t, Pair

LEMMA GoodSend ==
    ASSUME NEW p \in Peers, NEW c, NEW a, NEW ms, NEW d, NEW b, NEW ns, NEW n,
           Good(p, c, a, ms, d, b, ns, n),
           NEW i, NEW x, NEW y, NEW cn, NEW an, PeerOK(cn, an), Changed(c, a, i, x, y, cn, an),
           NEW m \in Message, m.tag = x.tag, Sends(p, c.channels[i], a[i], m, x, y)
    PROVE  Good(p, cn, an, ms, d, b, Append(ns, m), n)
<1> DEFINE t == x.tag
<1>0. /\ i \in Tracked(c) /\ t = c.channels[i].tag /\ Distinct(c) /\ ms \in Seq(Message)
      /\ ns \in Seq(Message) /\ PeerOK(d, b) /\ Append(ns, m) \in Seq(Message)
  BY DEF Changed, Good
<1>1. /\ t \in Nat /\ t < n /\ Has(Own(c, a, t), i, c.channels[i], a[i])
      /\ Pair(p, Own(c, a, t), Own(d, b, t), Stream(ms, t), Stream(ns, t))
  BY <1>0, GoodHas
<1>2. /\ Distinct(cn) /\ Has(Own(cn, an, t), i, x, y)
      /\ \A u : u # t => Own(cn, an, u) = Own(c, a, u)
  BY <1>0, OwnChanged
<1>3. Longer(Stream(ns, t), m, Stream(Append(ns, m), t))
  BY <1>0, StreamSend
<1>4. \A u : u # t => Stream(Append(ns, m), u) = Stream(ns, u)
  BY <1>0, StreamSend
<1>5. Typed(Own(cn, an, t), Stream(ms, t)) /\ Typed(Own(d, b, t), Stream(Append(ns, m), t))
  BY <1>0, TypedIs
<1> HIDE DEF t
<1>6. Pair(p, Own(cn, an, t), Own(d, b, t), Stream(ms, t), Stream(Append(ns, m), t))
  BY <1>1, <1>2, <1>3, <1>5, SendFlow DEF Has
<1>7. Moves(p, c, a, ms, d, b, ns, n, cn, an, ms, Append(ns, m), t)
  BY <1>0, <1>1, <1>2, <1>4, <1>6 DEF Moves
<1> QED
  BY <1>7, GoodStep

LEMMA GoodSendLast ==
    ASSUME NEW p \in Peers, NEW c, NEW a, NEW ms, NEW d, NEW b, NEW ns, NEW n,
           Good(p, c, a, ms, d, b, ns, n),
           NEW i, NEW cn, NEW an, PeerOK(cn, an), Removed(c, a, i, cn, an),
           NEW m \in Message, m.tag = c.channels[i].tag,
           "local" \notin c.channels[i].closed, "remote" \in c.channels[i].closed,
           m.t = "CLOSE", ~m.want, m.ch = c.channels[i].remote_id,
           p = "c" => a[i].stage = "running"
    PROVE  Good(p, cn, an, ms, d, b, Append(ns, m), n)
<1> DEFINE t == c.channels[i].tag
<1>0. /\ i \in Tracked(c) /\ Distinct(c) /\ ms \in Seq(Message)
      /\ ns \in Seq(Message) /\ PeerOK(d, b) /\ Append(ns, m) \in Seq(Message)
  BY DEF Removed, Good
<1>1. /\ t \in Nat /\ t < n /\ Has(Own(c, a, t), i, c.channels[i], a[i])
      /\ Pair(p, Own(c, a, t), Own(d, b, t), Stream(ms, t), Stream(ns, t))
  BY <1>0, GoodHas
<1>2. /\ Distinct(cn) /\ ~Own(cn, an, t).on
      /\ \A u : u # t => Own(cn, an, u) = Own(c, a, u)
  BY <1>0, OwnRemoved DEF Nothing
<1>3. Longer(Stream(ns, t), m, Stream(Append(ns, m), t))
  BY <1>0, StreamSend
<1>4. \A u : u # t => Stream(Append(ns, m), u) = Stream(ns, u)
  BY <1>0, StreamSend
<1>5. Typed(Own(cn, an, t), Stream(ms, t)) /\ Typed(Own(d, b, t), Stream(Append(ns, m), t))
  BY <1>0, TypedIs
<1> HIDE DEF t
<1>6. Pair(p, Own(cn, an, t), Own(d, b, t), Stream(ms, t), Stream(Append(ns, m), t))
  BY <1>1, <1>2, <1>3, <1>5, SendLast DEF Has
<1>7. Moves(p, c, a, ms, d, b, ns, n, cn, an, ms, Append(ns, m), t)
  BY <1>0, <1>1, <1>2, <1>4, <1>6 DEF Moves
<1> QED
  BY <1>7, GoodStep

LEMMA GoodQuiet ==
    ASSUME NEW p \in Peers, NEW c, NEW a, NEW ms, NEW d, NEW b, NEW ns, NEW n,
           Good(p, c, a, ms, d, b, ns, n),
           NEW i, NEW x, NEW y, NEW cn, NEW an, PeerOK(cn, an), Changed(c, a, i, x, y, cn, an),
           Quiet(c.channels[i], a[i], x, y)
    PROVE  Good(p, cn, an, ms, d, b, ns, n)
<1> DEFINE t == x.tag
<1>0. /\ i \in Tracked(c) /\ t = c.channels[i].tag /\ Distinct(c) /\ ms \in Seq(Message)
      /\ ns \in Seq(Message) /\ PeerOK(d, b)
  BY DEF Changed, Good
<1>1. /\ t \in Nat /\ t < n /\ Has(Own(c, a, t), i, c.channels[i], a[i])
      /\ Pair(p, Own(c, a, t), Own(d, b, t), Stream(ms, t), Stream(ns, t))
  BY <1>0, GoodHas
<1>2. /\ Distinct(cn) /\ Has(Own(cn, an, t), i, x, y)
      /\ \A u : u # t => Own(cn, an, u) = Own(c, a, u)
  BY <1>0, OwnChanged
<1>5. Typed(Own(cn, an, t), Stream(ms, t))
  BY <1>0, TypedIs
<1> HIDE DEF t
<1>6. Pair(p, Own(cn, an, t), Own(d, b, t), Stream(ms, t), Stream(ns, t))
  BY <1>1, <1>2, <1>5, ConsumeQuietly DEF Has
<1>7. Moves(p, c, a, ms, d, b, ns, n, cn, an, ms, ns, t)
  BY <1>0, <1>1, <1>2, <1>6 DEF Moves
<1> QED
  BY <1>7, GoodStep

LEMMA GoodOpen ==
    ASSUME NEW p \in Peers, NEW c, NEW a, NEW ms, NEW d, NEW b, NEW ns, NEW n,
           Good(p, c, a, ms, d, b, ns, n),
           NEW i, NEW x, NEW y, NEW cn, NEW an, PeerOK(cn, an), Added(c, a, i, x, y, cn, an),
           NEW m \in Message, m.tag = n, x.tag = n, IsFresh(x, y, 0, 0, 0, TRUE),
           m.t = "OPEN", m.from = i, m.n = Window, m.max = MaxPacket, ~m.want
    PROVE  Good(p, cn, an, ms, d, b, Append(ns, m), n + 1)
<1>0. /\ Distinct(c) /\ Distinct(d) /\ ms \in Seq(Message) /\ n \in Nat
      /\ ns \in Seq(Message) /\ PeerOK(d, b) /\ Append(ns, m) \in Seq(Message)
  BY DEF Good
<1>1. Blank(Own(c, a, n), Stream(ms, n)) /\ Blank(Own(d, b, n), Stream(ns, n))
  BY <1>0 DEF Good
<1>2. /\ Distinct(cn) /\ Has(Own(cn, an, n), i, x, y)
      /\ \A u : u # n => Own(cn, an, u) = Own(c, a, u)
  BY <1>0, <1>1, OwnAdded DEF Blank
<1>3. Longer(Stream(ns, n), m, Stream(Append(ns, m), n))
  BY <1>0, StreamSend
<1>4. \A u : u # n => Stream(Append(ns, m), u) = Stream(ns, u)
  BY <1>0, StreamSend
<1>5. Typed(Own(cn, an, n), Stream(ms, n)) /\ Typed(Own(d, b, n), Stream(Append(ns, m), n))
  BY <1>0, TypedIs
<1>6. Pair(p, Own(cn, an, n), Own(d, b, n), Stream(ms, n), Stream(Append(ns, m), n))
  BY <1>1, <1>2, <1>3, <1>5, SendOpen DEF Has
<1>7. ASSUME NEW u \in Nat
      PROVE  Pair(p, Own(cn, an, u), Own(d, b, u), Stream(ms, u), Stream(Append(ns, m), u))
  <2>1. CASE u = n
    BY <1>6, <2>1
  <2>2. CASE u # n
    BY <1>2, <1>4, <2>2 DEF Good
  <2> QED
    BY <2>1, <2>2
<1>8. ASSUME NEW u \in Nat, u >= n + 1
      PROVE  Blank(Own(cn, an, u), Stream(ms, u)) /\ Blank(Own(d, b, u), Stream(Append(ns, m), u))
  <2>1. u # n /\ u >= n
    BY <1>0, <1>8
  <2> QED
    BY <1>2, <1>4, <2>1 DEF Good
<1>9. n + 1 \in Nat
  BY <1>0
<1> QED
  BY <1>0, <1>2, <1>7, <1>8, <1>9 DEF Good

\* p reads the first of its messages.
ReadsFirst(p, c, a, ms, d, b, ns, n, m) ==
    Good(p, c, a, ms, d, b, ns, n) /\ ms # <<>> /\ m = Head(ms)

LEMMA GoodHead ==
    ASSUME NEW p \in Peers, NEW c, NEW a, NEW ms, NEW d, NEW b, NEW ns, NEW n, NEW m,
           ReadsFirst(p, c, a, ms, d, b, ns, n, m)
    PROVE  /\ m \in Message /\ m.tag \in Nat /\ m.tag < n
           /\ Tail(ms) \in Seq(Message) /\ ns \in Seq(Message) /\ Distinct(c) /\ PeerOK(c, a)
           /\ PeerOK(d, b)
           /\ Pair(p, Own(c, a, m.tag), Own(d, b, m.tag), Stream(ms, m.tag), Stream(ns, m.tag))
           /\ Shorter(Stream(ms, m.tag), m, Stream(Tail(ms), m.tag))
           /\ \A u : u # m.tag => Stream(Tail(ms), u) = Stream(ms, u)
           /\ Typed(Own(c, a, m.tag), Stream(Tail(ms), m.tag))
           /\ m \in Stream(ms, m.tag).S
<1>1. /\ ms \in Seq(Message) /\ ms # <<>> /\ m = Head(ms) /\ PeerOK(c, a) /\ n \in Nat
      /\ ns \in Seq(Message) /\ Distinct(c) /\ PeerOK(d, b)
  BY DEF ReadsFirst, Good
<1>2. m \in Message /\ Tail(ms) \in Seq(Message)
  BY <1>1
<1>3. m.tag \in Nat
  BY <1>2 DEF Message
<1>4. Shorter(Stream(ms, m.tag), m, Stream(Tail(ms), m.tag))
  BY <1>1, StreamRead
<1>5. \A u : u # m.tag => Stream(Tail(ms), u) = Stream(ms, u)
  BY <1>1, StreamRead
<1>6. m \in Stream(ms, m.tag).S
  BY <1>4 DEF Shorter
<1>7. m.tag < n
  <2> SUFFICES ASSUME m.tag >= n PROVE FALSE
    BY <1>1, <1>3
  <2>1. Stream(ms, m.tag).S = {}
    BY <1>3 DEF ReadsFirst, Good, Blank
  <2> QED
    BY <1>6, <2>1
<1>8. Pair(p, Own(c, a, m.tag), Own(d, b, m.tag), Stream(ms, m.tag), Stream(ns, m.tag))
  BY <1>3 DEF ReadsFirst, Good
<1>9. Typed(Own(c, a, m.tag), Stream(Tail(ms), m.tag))
  BY <1>1, <1>2, TypedIs
<1> QED
  BY <1>1, <1>2, <1>3, <1>4, <1>5, <1>6, <1>7, <1>8, <1>9

(* Unless it is an OPEN, it is for the channel of its own tag.              *)
LEMMA GoodFor ==
    ASSUME NEW p \in Peers, NEW c, NEW a, NEW ms, NEW d, NEW b, NEW ns, NEW n, NEW m,
           Good(p, c, a, ms, d, b, ns, n), NEW t \in Nat, m \in Stream(ms, t).S, m.t # "OPEN"
    PROVE  /\ m.ch \in Tracked(c) /\ c.channels[m.ch].tag = t
           /\ Has(Own(c, a, t), m.ch, c.channels[m.ch], a[m.ch])
<1>1. MessageOK(p, Own(c, a, t), Own(d, b, t), Stream(ms, t), Stream(ns, t), m)
  BY DEF Good, Pair, Half, Messages
<1>2. Own(c, a, t).on /\ m.ch = Own(c, a, t).id
  BY <1>1 DEF MessageOK
<1>3. PICK i \in Tracked(c) : c.channels[i].tag = t /\ Has(Own(c, a, t), i, c.channels[i], a[i])
  BY <1>2, OwnIs
<1> QED
  BY <1>2, <1>3 DEF Has

(* on_packet takes it.                                                      *)
LEMMA GoodPacket ==
    ASSUME NEW p \in Peers, NEW c, NEW a, NEW ms, NEW d, NEW b, NEW ns, NEW n, NEW m,
           ReadsFirst(p, c, a, ms, d, b, ns, n, m)
    PROVE  PacketError(c, m) = "none"
<1> DEFINE h == Own(c, a, m.tag)
           g == Own(d, b, m.tag)
           w == Stream(ms, m.tag)
           v == Stream(ns, m.tag)
           u == Stream(Tail(ms), m.tag)
<1>1. /\ m \in Message /\ m.tag \in Nat /\ Pair(p, h, g, w, v) /\ Shorter(w, m, u) /\ Typed(h, u)
      /\ m \in w.S
  BY GoodHead
<1>2. m.t # "OPEN" => m.ch \in Tracked(c) /\ Has(h, m.ch, c.channels[m.ch], a[m.ch])
  BY <1>1, GoodFor DEF ReadsFirst
<1> HIDE DEF h, g, w, v, u
<1>3. CASE m.t = "OPEN"
  BY <1>3 DEF PacketError
<1>4. CASE m.t \in Answers
  <2>1. Messages(p, h, g, w, v) /\ Alone(p, h, g)
    BY <1>1 DEF Pair, Half
  <2>2. ~h.x.open_confirmed /\ h.on
    BY <1>1, <1>4, <2>1 DEF Messages, MessageOK, AnswerOK, Answers
  <2>3. h.x.initiated_by_us
    BY <2>1, <2>2 DEF Alone
  <2> QED
    BY <1>2, <1>4, <2>2, <2>3 DEF PacketError, AnswerError, Has, Answers
<1>5. CASE m.t \notin Opening
  <2>1. /\ h.x.open_confirmed
        /\ m.t \in Data => /\ "remote" \notin h.x.eof \cup h.x.closed
                           /\ m.n <= h.x.local_window /\ m.n <= MaxPacket
    BY <1>1, <1>5, FirstMessage
  <2>2. c.channels[m.ch].local_window \in Nat /\ m.n \in Nat /\ h.x = c.channels[m.ch]
    BY <1>1, <1>2, <1>5, ChannelOK DEF Opening, Has, ReadsFirst, Good, ChannelState, Message
  <2>3. CASE m.t \in Data
    <3>1. DataError(c.channels[m.ch], m.n) = "none"
      BY <2>1, <2>2, <2>3, WindowAssumption DEF DataError
    <3> QED
      BY <1>2, <1>5, <2>3, <3>1 DEF PacketError, Opening, Data
  <2>4. CASE m.t \notin Data
    BY <1>2, <1>5, <2>1, <2>2, <2>4 DEF PacketError, Opening, Data
  <2> QED
    BY <2>3, <2>4
<1> QED
  BY <1>3, <1>4, <1>5 DEF Opening

LEMMA GoodTake ==
    ASSUME NEW p \in Peers, NEW c, NEW a, NEW ms, NEW d, NEW b, NEW ns, NEW n, NEW m,
           ReadsFirst(p, c, a, ms, d, b, ns, n, m),
           NEW x, NEW y, NEW cn, NEW an, PeerOK(cn, an), Changed(c, a, m.ch, x, y, cn, an),
           Takes(c.channels[m.ch], a[m.ch], m, x, y)
    PROVE  Good(p, cn, an, Tail(ms), d, b, ns, n)
<1> DEFINE t == m.tag
           h == Own(c, a, t)
           g == Own(d, b, t)
           k == Own(cn, an, t)
           w == Stream(ms, t)
           v == Stream(ns, t)
           u == Stream(Tail(ms), t)
<1>1. /\ m \in Message /\ t \in Nat /\ t < n /\ Pair(p, h, g, w, v) /\ Shorter(w, m, u)
      /\ Typed(h, u) /\ m \in w.S /\ Tail(ms) \in Seq(Message) /\ ns \in Seq(Message)
      /\ Distinct(c) /\ \A r : r # t => Stream(Tail(ms), r) = Stream(ms, r)
  BY GoodHead
<1>2. m.ch \in Tracked(c) /\ c.channels[m.ch].tag = t /\ Has(h, m.ch, c.channels[m.ch], a[m.ch])
  <2>1. Good(p, c, a, ms, d, b, ns, n) /\ m.t # "OPEN" /\ m \in Stream(ms, m.tag).S
    BY <1>1 DEF ReadsFirst, Takes, Opening
  <2> QED
    BY <1>1, <2>1, GoodFor
<1>3. x.tag = t
  BY <1>2 DEF Changed
<1>4. Distinct(cn) /\ Has(k, m.ch, x, y) /\ \A r : r # t => Own(cn, an, r) = Own(c, a, r)
  BY <1>1, <1>3, OwnChanged
<1>5. Typed(k, u)
  BY <1>1, TypedIs
<1>6. Pair(p, k, g, u, v)
  <2> HIDE DEF h, g, k, w, v, u, t
  <2> QED
    BY <1>1, <1>2, <1>4, <1>5, TakeFlow DEF Has
<1>7. Moves(p, c, a, ms, d, b, ns, n, cn, an, Tail(ms), ns, t)
  BY <1>1, <1>4, <1>6 DEF Moves, ReadsFirst
<1> QED
  BY <1>7, GoodStep

LEMMA GoodTakeLast ==
    ASSUME NEW p \in Peers, NEW c, NEW a, NEW ms, NEW d, NEW b, NEW ns, NEW n, NEW m,
           ReadsFirst(p, c, a, ms, d, b, ns, n, m),
           NEW cn, NEW an, PeerOK(cn, an), Removed(c, a, m.ch, cn, an),
           m.t = "OPEN_FAILURE" \/ (m.t = "CLOSE" /\ "local" \in c.channels[m.ch].closed)
    PROVE  Good(p, cn, an, Tail(ms), d, b, ns, n)
<1> DEFINE t == m.tag
           h == Own(c, a, t)
           g == Own(d, b, t)
           k == Own(cn, an, t)
           w == Stream(ms, t)
           v == Stream(ns, t)
           u == Stream(Tail(ms), t)
<1>1. /\ m \in Message /\ t \in Nat /\ t < n /\ Pair(p, h, g, w, v) /\ Shorter(w, m, u)
      /\ Typed(h, u) /\ m \in w.S /\ Tail(ms) \in Seq(Message) /\ ns \in Seq(Message)
      /\ Distinct(c) /\ \A r : r # t => Stream(Tail(ms), r) = Stream(ms, r)
  BY GoodHead
<1>2. m.ch \in Tracked(c) /\ c.channels[m.ch].tag = t /\ Has(h, m.ch, c.channels[m.ch], a[m.ch])
  <2>1. Good(p, c, a, ms, d, b, ns, n) /\ m.t # "OPEN" /\ m \in Stream(ms, m.tag).S
    BY <1>1 DEF ReadsFirst
  <2> QED
    BY <1>1, <2>1, GoodFor
<1>4. Distinct(cn) /\ ~k.on /\ \A r : r # t => Own(cn, an, r) = Own(c, a, r)
  BY <1>1, <1>2, OwnRemoved DEF Nothing
<1>5. Typed(k, u)
  BY <1>1, TypedIs
<1>6. Pair(p, k, g, u, v)
  <2> HIDE DEF h, g, k, w, v, u, t
  <2> QED
    BY <1>1, <1>2, <1>4, <1>5, TakeLast DEF Has
<1>7. Moves(p, c, a, ms, d, b, ns, n, cn, an, Tail(ms), ns, t)
  BY <1>1, <1>4, <1>6 DEF Moves, ReadsFirst
<1> QED
  BY <1>7, GoodStep

LEMMA GoodConfirm ==
    ASSUME NEW p \in Peers, NEW c, NEW a, NEW ms, NEW d, NEW b, NEW ns, NEW n, NEW m,
           ReadsFirst(p, c, a, ms, d, b, ns, n, m),
           NEW x, NEW y, NEW cn, NEW an, PeerOK(cn, an), Changed(c, a, m.ch, x, y, cn, an),
           m.t = "OPEN_CONFIRMATION", x.open_confirmed,
           x.remote_id = m.from, x.remote_window = m.n, x.remote_max_packet = m.max,
           x.eof = c.channels[m.ch].eof, x.closed = c.channels[m.ch].closed,
           x.local_window = c.channels[m.ch].local_window,
           y.unread = a[m.ch].unread, y.stage \in {"idle", "running"}
    PROVE  Good(p, cn, an, Tail(ms), d, b, ns, n)
<1> DEFINE t == m.tag
           h == Own(c, a, t)
           g == Own(d, b, t)
           k == Own(cn, an, t)
           w == Stream(ms, t)
           v == Stream(ns, t)
           u == Stream(Tail(ms), t)
<1>1. /\ m \in Message /\ t \in Nat /\ t < n /\ Pair(p, h, g, w, v) /\ Shorter(w, m, u)
      /\ Typed(h, u) /\ m \in w.S /\ Tail(ms) \in Seq(Message) /\ ns \in Seq(Message)
      /\ Distinct(c) /\ \A r : r # t => Stream(Tail(ms), r) = Stream(ms, r)
  BY GoodHead
<1>2. m.ch \in Tracked(c) /\ c.channels[m.ch].tag = t /\ Has(h, m.ch, c.channels[m.ch], a[m.ch])
  <2>1. Good(p, c, a, ms, d, b, ns, n) /\ m.t # "OPEN" /\ m \in Stream(ms, m.tag).S
    BY <1>1 DEF ReadsFirst
  <2> QED
    BY <1>1, <2>1, GoodFor
<1>3. x.tag = t
  BY <1>2 DEF Changed
<1>4. Distinct(cn) /\ Has(k, m.ch, x, y) /\ \A r : r # t => Own(cn, an, r) = Own(c, a, r)
  BY <1>1, <1>3, OwnChanged
<1>5. Typed(k, u)
  BY <1>1, TypedIs
<1>6. Pair(p, k, g, u, v)
  <2> HIDE DEF h, g, k, w, v, u, t
  <2> QED
    BY <1>1, <1>2, <1>4, <1>5, TakeConfirmation DEF Has
<1>7. Moves(p, c, a, ms, d, b, ns, n, cn, an, Tail(ms), ns, t)
  BY <1>1, <1>4, <1>6 DEF Moves, ReadsFirst
<1> QED
  BY <1>7, GoodStep

LEMMA GoodAccept ==
    ASSUME NEW p \in Peers, NEW c, NEW a, NEW ms, NEW d, NEW b, NEW ns, NEW n, NEW m,
           ReadsFirst(p, c, a, ms, d, b, ns, n, m), m.t = "OPEN",
           NEW i, NEW x, NEW y, NEW cn, NEW an, PeerOK(cn, an), Added(c, a, i, x, y, cn, an),
           x.tag = m.tag, IsFresh(x, y, m.from, m.n, m.max, FALSE),
           NEW z \in Message, z.tag = m.tag, z.t = "OPEN_CONFIRMATION", z.ch = m.from,
           z.from = i, z.n = Window, z.max = MaxPacket, ~z.want
    PROVE  Good(p, cn, an, Tail(ms), d, b, Append(ns, z), n)
<1> DEFINE t == m.tag
           h == Own(c, a, t)
           g == Own(d, b, t)
           k == Own(cn, an, t)
           w == Stream(ms, t)
           v == Stream(ns, t)
           u == Stream(Tail(ms), t)
           r == Stream(Append(ns, z), t)
<1>1. /\ m \in Message /\ t \in Nat /\ t < n /\ Pair(p, h, g, w, v) /\ Shorter(w, m, u)
      /\ Typed(h, u) /\ m \in w.S /\ Tail(ms) \in Seq(Message) /\ ns \in Seq(Message)
      /\ Distinct(c) /\ PeerOK(d, b) /\ \A q : q # t => Stream(Tail(ms), q) = Stream(ms, q)
  BY GoodHead
<1>2. Append(ns, z) \in Seq(Message)
  BY <1>1
<1>3. Longer(v, z, r) /\ \A q : q # t => Stream(Append(ns, z), q) = Stream(ns, q)
  BY <1>1, StreamSend
<1>4. ~h.on
  <2> HIDE DEF h, g, k, w, v, u, t, r
  <2> QED
    BY <1>1, OpenAlone DEF OpenOK
<1>5. Distinct(cn) /\ Has(k, i, x, y) /\ \A q : q # t => Own(cn, an, q) = Own(c, a, q)
  BY <1>1, <1>4, OwnAdded
<1>6. Typed(k, u) /\ Typed(g, r)
  BY <1>1, <1>2, TypedIs
<1>7. Pair(p, k, g, u, r)
  <2> HIDE DEF h, g, k, w, v, u, t, r
  <2> QED
    BY <1>1, <1>3, <1>5, <1>6, AcceptPair DEF Has
<1>8. Moves(p, c, a, ms, d, b, ns, n, cn, an, Tail(ms), Append(ns, z), t)
  BY <1>1, <1>2, <1>3, <1>5, <1>7 DEF Moves, ReadsFirst
<1> QED
  BY <1>8, GoodStep

(* The ConnectionState may have moved on to the next id.                    *)
LEMMA GoodRefuse ==
    ASSUME NEW p \in Peers, NEW c, NEW a, NEW ms, NEW d, NEW b, NEW ns, NEW n, NEW m,
           ReadsFirst(p, c, a, ms, d, b, ns, n, m), m.t = "OPEN",
           NEW cn, PeerOK(cn, a), cn.channels = c.channels,
           NEW z \in Message, z.tag = m.tag, z.t = "OPEN_FAILURE", z.ch = m.from, ~z.want
    PROVE  Good(p, cn, a, Tail(ms), d, b, Append(ns, z), n)
<1> DEFINE t == m.tag
           h == Own(c, a, t)
           g == Own(d, b, t)
           w == Stream(ms, t)
           v == Stream(ns, t)
           u == Stream(Tail(ms), t)
           r == Stream(Append(ns, z), t)
<1>1. /\ m \in Message /\ t \in Nat /\ t < n /\ Pair(p, h, g, w, v) /\ Shorter(w, m, u)
      /\ Typed(h, u) /\ m \in w.S /\ Tail(ms) \in Seq(Message) /\ ns \in Seq(Message)
      /\ Distinct(c) /\ PeerOK(d, b) /\ \A q : q # t => Stream(Tail(ms), q) = Stream(ms, q)
  BY GoodHead
<1>2. Append(ns, z) \in Seq(Message)
  BY <1>1
<1>3. Longer(v, z, r) /\ \A q : q # t => Stream(Append(ns, z), q) = Stream(ns, q)
  BY <1>1, StreamSend
<1>4. Distinct(cn) /\ \A q : Own(cn, a, q) = Own(c, a, q)
  BY <1>1 DEF Own, At, Tracked, Distinct
<1>5. Typed(g, r)
  BY <1>1, <1>2, TypedIs
<1>6. Pair(p, h, g, u, r)
  <2> HIDE DEF h, g, w, v, u, t, r
  <2> QED
    BY <1>1, <1>3, <1>5, RefusePair
<1>7. Moves(p, c, a, ms, d, b, ns, n, cn, a, Tail(ms), Append(ns, z), t)
  BY <1>1, <1>2, <1>3, <1>4, <1>6 DEF Moves, ReadsFirst
<1> QED
  BY <1>7, GoodStep

(* p answers the question it reads, and may start the program.              *)
LEMMA GoodAnswer ==
    ASSUME NEW p \in Peers, NEW c, NEW a, NEW ms, NEW d, NEW b, NEW ns, NEW n, NEW m,
           ReadsFirst(p, c, a, ms, d, b, ns, n, m), m.t = "REQUEST", m.want,
           NEW x, NEW y, NEW an, PeerOK(c, an), Changed(c, a, m.ch, x, y, c, an),
           x = c.channels[m.ch], y.unread = a[m.ch].unread,
           y.stage = a[m.ch].stage \/ y.stage = "running",
           NEW z \in Message, z.tag = m.tag, z.t \in Reply, z.ch = x.remote_id, ~z.want
    PROVE  Good(p, c, an, Tail(ms), d, b, Append(ns, z), n)
<1> DEFINE t == m.tag
           h == Own(c, a, t)
           g == Own(d, b, t)
           k == Own(c, an, t)
           w == Stream(ms, t)
           v == Stream(ns, t)
           u == Stream(Tail(ms), t)
           r == Stream(Append(ns, z), t)
<1>1. /\ m \in Message /\ t \in Nat /\ t < n /\ Pair(p, h, g, w, v) /\ Shorter(w, m, u)
      /\ Typed(h, u) /\ m \in w.S /\ Tail(ms) \in Seq(Message) /\ ns \in Seq(Message)
      /\ Distinct(c) /\ PeerOK(d, b) /\ \A q : q # t => Stream(Tail(ms), q) = Stream(ms, q)
  BY GoodHead
<1>2. m.ch \in Tracked(c) /\ c.channels[m.ch].tag = t /\ Has(h, m.ch, c.channels[m.ch], a[m.ch])
  <2>1. Good(p, c, a, ms, d, b, ns, n) /\ m.t # "OPEN" /\ m \in Stream(ms, m.tag).S
    BY <1>1 DEF ReadsFirst
  <2> QED
    BY <1>1, <2>1, GoodFor
<1>3. Append(ns, z) \in Seq(Message)
  BY <1>1
<1>4. Longer(v, z, r) /\ \A q : q # t => Stream(Append(ns, z), q) = Stream(ns, q)
  BY <1>1, StreamSend
<1>5. Distinct(c) /\ Has(k, m.ch, x, y) /\ \A q : q # t => Own(c, an, q) = Own(c, a, q)
  BY <1>1, <1>2, OwnChanged
<1>6. Typed(k, u) /\ Typed(g, r)
  BY <1>1, <1>3, TypedIs
<1> HIDE DEF h, g, k, w, v, u, t, r
<1>7. /\ Messages(p, h, g, w, v) /\ Ordered(w) /\ Crossed(v, w) /\ Alone(p, h, g)
      /\ Typed(h, w) /\ Typed(g, v)
  BY <1>1 DEF Pair, Half
<1>8. p = "s" /\ g.on /\ g.y.stage = "asked"
  BY <1>1, <1>7 DEF Messages, MessageOK, AskedOK, Answers
<1>9. (\A e \in u.S : ~e.want) /\ (\A e \in v.S : e.t \notin Reply)
  BY <1>1, <1>7 DEF Shorter, Ordered, Follows, Crossed, Beside
<1>10. h.on /\ h.x.open_confirmed /\ m.t \notin Opening
  BY <1>1, FirstMessage DEF Opening, Answers
<1>11. Takes(h.x, h.y, m, h.x, h.y)
  <2>1. /\ h.x.local_window \in Nat /\ h.x.remote_window \in Nat /\ h.y.unread \in Nat
    BY <1>7, <1>10 DEF Typed, ChannelState, AppState
  <2> QED
    BY <1>10, <2>1 DEF Takes, Data, Credit, Reply
<1>12. Pair(p, h, g, u, v)
  BY <1>1, <1>10, <1>11, TakeFlow
<1>13. k.y.stage # "opening"
  BY <1>2, <1>5, <1>7, <1>10 DEF Alone, Has
<1>14. Pair(p, k, g, u, r)
  BY <1>2, <1>4, <1>5, <1>6, <1>8, <1>9, <1>10, <1>12, <1>13, SendReply DEF Has
<1>15. Moves(p, c, a, ms, d, b, ns, n, c, an, Tail(ms), Append(ns, z), t)
  BY <1>1, <1>3, <1>4, <1>5, <1>14 DEF Moves, ReadsFirst, k, g, u, r, t
<1> QED
  BY <1>15, GoodStep

---------------------------------------------------------------------------
(* The actions.                                                             *)

Order ==
    /\ Inv /\ err = "none"
    /\ Good("c", conn["c"], app["c"], wire["c"], conn["s"], app["s"], wire["s"], opens)

LEMMA OrderFor ==
    ASSUME Order, NEW p \in Peers
    PROVE  /\ Inv /\ err = "none" /\ Other(p) \in Peers /\ Other(p) # p
           /\ Good(p, conn[p], app[p], wire[p], conn[Other(p)], app[Other(p)], wire[Other(p)], opens)
<1>1. Inv /\ err = "none" /\ Other(p) \in Peers /\ Other(p) # p
  BY OtherOther DEF Order
<1>2. CASE p = "c"
  BY <1>1, <1>2 DEF Order, Other
<1>3. CASE p = "s"
  <2>1. "c" \in Peers /\ Other("c") = "s" /\ Other("s") = "c"
    BY DEF Peers, Other
  <2>2. Good(Other("c"), conn["s"], app["s"], wire["s"], conn["c"], app["c"], wire["c"], opens)
    BY <2>1, GoodOther DEF Order
  <2> QED
    BY <1>1, <1>3, <2>1, <2>2
<1> QED
  BY <1>2, <1>3 DEF Peers

LEMMA OrderNext ==
    ASSUME NEW p \in Peers, NEW c, NEW a, NEW ms, NEW d, NEW b, NEW ns, NEW n, Inv', err' = "none",
           Good(p, c, a, ms, d, b, ns, n), opens' = n,
           conn'[p] = c, app'[p] = a, wire'[p] = ms,
           conn'[Other(p)] = d, app'[Other(p)] = b, wire'[Other(p)] = ns
    PROVE  Order'
<1>1. CASE p = "c"
  BY <1>1 DEF Order, Other
<1>2. CASE p = "s"
  <2>1. Good(Other(p), d, b, ns, c, a, ms, n)
    BY GoodOther
  <2> QED
    BY <1>2, <2>1 DEF Order, Other
<1> QED
  BY <1>1, <1>2 DEF Peers

LEMMA OrderUpdate ==
    ASSUME Order, Inv', err' = "none", NEW p \in Peers, NEW c, NEW a, NEW ms, Update(p, c, a, ms),
           Good(p, c, a, wire[p], conn[Other(p)], app[Other(p)], wire[Other(p)] \o ms, opens')
    PROVE  Order'
<1>1. Other(p) \in Peers /\ Other(p) # p
  BY OtherOther
<1>2. DOMAIN conn = Peers /\ DOMAIN app = Peers /\ DOMAIN wire = Peers
  BY DEF Order, Inv, RestOK
<1>3. /\ conn'[p] = c /\ app'[p] = a /\ wire'[p] = wire[p]
      /\ conn'[Other(p)] = conn[Other(p)] /\ app'[Other(p)] = app[Other(p)]
      /\ wire'[Other(p)] = wire[Other(p)] \o ms
  BY <1>1, <1>2 DEF Update
<1> QED
  BY <1>3, OrderNext

LEMMA OrderTake ==
    ASSUME Order, Inv', NEW p \in Peers, NEW c, NEW a, NEW ms, Take(p, c, a, ms),
           Good(p, c, a, Tail(wire[p]), conn[Other(p)], app[Other(p)], wire[Other(p)] \o ms, opens)
    PROVE  Order'
<1>1. Other(p) \in Peers /\ Other(p) # p
  BY OtherOther
<1>2. DOMAIN conn = Peers /\ DOMAIN app = Peers /\ DOMAIN wire = Peers /\ err = "none"
  BY DEF Order, Inv, RestOK
<1>3. /\ conn'[p] = c /\ app'[p] = a /\ wire'[p] = Tail(wire[p])
      /\ conn'[Other(p)] = conn[Other(p)] /\ app'[Other(p)] = app[Other(p)]
      /\ wire'[Other(p)] = wire[Other(p)] \o ms /\ opens' = opens /\ err' = "none"
  BY <1>1, <1>2 DEF Take
<1> QED
  BY <1>3, OrderNext

LEMMA OneMore ==
    ASSUME NEW ms \in Seq(Message), NEW m \in Message
    PROVE  ms \o <<m>> = Append(ms, m) /\ ms \o <<>> = ms
OBVIOUS

(* What a side knows of its own channel.                                    *)
LEMMA GoodAlone ==
    ASSUME NEW p \in Peers, NEW c, NEW a, NEW ms, NEW d, NEW b, NEW ns, NEW n,
           Good(p, c, a, ms, d, b, ns, n), NEW i \in Tracked(c)
    PROVE  /\ (a[i].stage = "opening") <=> ~c.channels[i].open_confirmed
           /\ ~c.channels[i].open_confirmed => c.channels[i].closed = {} /\ a[i].unread = 0
           /\ p = "c" /\ "local" \in c.channels[i].closed => a[i].stage = "running"
           /\ c.channels[i].open_confirmed /\ "local" \notin c.channels[i].closed =>
                c.channels[i].remote_max_packet = MaxPacket
<1> DEFINE t == c.channels[i].tag
           h == Own(c, a, t)
           g == Own(d, b, t)
           w == Stream(ms, t)
           v == Stream(ns, t)
<1>1. Has(h, i, c.channels[i], a[i]) /\ Pair(p, h, g, w, v)
  BY GoodHas
<1> HIDE DEF h, g, w, v
<1>2. Alone(p, h, g) /\ Ends(h, g, w, v) /\ Typed(g, v)
  BY <1>1 DEF Pair, Half
<1> QED
  BY <1>1, <1>2 DEF Alone, Ends, Has, Typed

LEMMA ChangedOf ==
    ASSUME NEW c, NEW a, PeerOK(c, a), NEW i \in Tracked(c), NEW x \in ChannelState, NEW y,
           x.tag = c.channels[i].tag
    PROVE  Changed(c, a, i, x, y, [c EXCEPT !.channels[i] = x], [a EXCEPT ![i] = y])
<1> DEFINE d == [c EXCEPT !.channels[i] = x]
           b == [a EXCEPT ![i] = y]
<1>1. d.channels = [c.channels EXCEPT ![i] = x]
  BY DEF PeerOK, IsConnection
<1>2. DOMAIN d.channels = DOMAIN c.channels /\ d.channels[i] = x
      /\ \A j \in DOMAIN c.channels : j # i => d.channels[j] = c.channels[j]
  BY <1>1 DEF Tracked
<1>3. b[i] = y /\ \A j \in Tracked(c) : j # i => b[j] = a[j]
  BY DEF PeerOK
<1> QED
  BY <1>2, <1>3 DEF Changed, Tracked

(* The frontend's part stays, or the ConnectionState's.                     *)
LEMMA ChangedChannel ==
    ASSUME NEW c, NEW a, PeerOK(c, a), NEW i \in Tracked(c), NEW x \in ChannelState,
           x.tag = c.channels[i].tag
    PROVE  Changed(c, a, i, x, a[i], [c EXCEPT !.channels[i] = x], a)
<1>1. a = [a EXCEPT ![i] = a[i]]
  BY DEF PeerOK
<1>2. Changed(c, a, i, x, a[i], [c EXCEPT !.channels[i] = x], [a EXCEPT ![i] = a[i]])
  BY ChangedOf
<1> QED
  BY <1>1, <1>2

LEMMA ChangedStage ==
    ASSUME NEW c, NEW a, PeerOK(c, a), NEW i \in Tracked(c), NEW y
    PROVE  Changed(c, a, i, c.channels[i], y, c, [a EXCEPT ![i] = y])
<1>1. [a EXCEPT ![i] = y][i] = y /\ \A j \in Tracked(c) : j # i => [a EXCEPT ![i] = y][j] = a[j]
  BY DEF PeerOK
<1> QED
  BY <1>1 DEF Changed

LEMMA RemovedOf ==
    ASSUME NEW c, NEW a, PeerOK(c, a), NEW i \in Tracked(c)
    PROVE  Removed(c, a, i, Remove(c, i), Kept(a, Remove(c, i)))
<1> DEFINE d == Remove(c, i)
<1>1. d.channels = [j \in Tracked(c) \ {i} |-> c.channels[j]]
  BY DEF PeerOK, IsConnection, Remove
<1>2. Tracked(d) = Tracked(c) \ {i} /\ \A j \in Tracked(d) : d.channels[j] = c.channels[j]
  BY <1>1 DEF Tracked
<1> HIDE DEF d
<1>3. \A j \in Tracked(d) : Kept(a, d)[j] = a[j]
  BY DEF Kept
<1>4. Removed(c, a, i, d, Kept(a, d))
  BY <1>2, <1>3 DEF Removed
<1> QED
  BY <1>4 DEF d

LEMMA AllocatedIs ==
    ASSUME NEW c, NEW a, PeerOK(c, a), NEW i, NEW x
    PROVE  /\ Allocate(c, i, x).channels =
                 [j \in Tracked(c) \cup {i} |-> IF j = i THEN x ELSE c.channels[j]]
           /\ Allocate(c, i, x) = [channels |-> Allocate(c, i, x).channels,
                                   next_local_id |-> (i + 1) % IdMod]
<1> DEFINE f == [j \in Tracked(c) \cup {i} |-> IF j = i THEN x ELSE c.channels[j]]
           n == (i + 1) % IdMod
           d == Allocate(c, i, x)
<1>1. c = [channels |-> c.channels, next_local_id |-> c.next_local_id]
  BY DEF PeerOK, IsConnection
<1>2. d = [c EXCEPT !.channels = f, !.next_local_id = n]
  BY DEF Allocate
<1> HIDE DEF f, n, d
<1>3. d.channels = f /\ d = [channels |-> d.channels, next_local_id |-> n]
  BY <1>1, <1>2
<1> QED
  BY <1>3 DEF f, n, d

LEMMA AddedOf ==
    ASSUME NEW c, NEW a, PeerOK(c, a), NEW i, i \notin Tracked(c), NEW x, NEW stage
    PROVE  Added(c, a, i, x, [unread |-> 0, stage |-> stage], Allocate(c, i, x),
                 WithApp(a, i, stage))
<1> DEFINE d == Allocate(c, i, x)
           e == WithApp(a, i, stage)
           y == [unread |-> 0, stage |-> stage]
<1>0. DOMAIN a = Tracked(c)
  BY DEF PeerOK
<1>1. /\ d.channels = [j \in Tracked(c) \cup {i} |-> IF j = i THEN x ELSE c.channels[j]]
      /\ d = [channels |-> d.channels, next_local_id |-> (i + 1) % IdMod]
  BY AllocatedIs
<1>2. Tracked(d) = Tracked(c) \cup {i} /\ d.channels[i] = x
      /\ \A j \in Tracked(c) : d.channels[j] = c.channels[j]
  BY <1>1 DEF Tracked
<1>3. e = [j \in Tracked(c) \cup {i} |-> IF j = i THEN y ELSE a[j]]
  BY <1>0 DEF WithApp
<1>4. e[i] = y /\ \A j \in Tracked(c) : e[j] = a[j]
  BY <1>3
<1> HIDE DEF d, e, y
<1>5. Added(c, a, i, x, y, d, e)
  BY <1>2, <1>4 DEF Added
<1> QED
  BY <1>5 DEF d, e, y

LEMMA MsgIs ==
    ASSUME NEW t \in MsgTypes, NEW x \in ChannelState, NEW n \in Nat
    PROVE  /\ Msg(t, x, n) \in Message /\ Msg(t, x, n).t = t /\ Msg(t, x, n).ch = x.remote_id
           /\ Msg(t, x, n).n = n /\ ~Msg(t, x, n).want /\ Msg(t, x, n).tag = x.tag
BY MsgOK DEF Msg

LEMMA StateIs ==
    ASSUME NEW x \in ChannelState
    PROVE  /\ x.local_window \in Nat /\ x.remote_window \in Nat /\ x.pending_replenish \in Nat
           /\ x.eof \subseteq Sides /\ x.closed \subseteq Sides /\ x.tag \in Nat
           /\ x.remote_max_packet \in Nat /\ x.open_confirmed \in BOOLEAN
BY DEF ChannelState

LEMMA OrderOpen ==
    ASSUME Order, NEW p \in Peers, Open(p)
    PROVE  Order'
<1>1. PICK id \in Ids : /\ FreeId(conn[p], id)
                        /\ Update(p, OpenState(conn[p], id, opens),
                                  WithApp(app[p], id, "opening"), <<OpenMsg(id, opens)>>)
  BY DEF Open
<1> DEFINE x == FreshChannel(0, 0, 0, TRUE, opens)
           y == [unread |-> 0, stage |-> "opening"]
           m == OpenMsg(id, opens)
           q == Other(p)
           cn == OpenState(conn[p], id, opens)
           an == WithApp(app[p], id, "opening")
<1>2. /\ Inv /\ Good(p, conn[p], app[p], wire[p], conn[q], app[q], wire[q], opens) /\ Inv'
      /\ opens' = opens + 1 /\ err' = "none" /\ opens \in Nat /\ wire[q] \in Seq(Message)
  BY OrderFor, OpenInv, PeerFacts DEF Open, Inv, RestOK
<1>3. m \in Message /\ m.tag = opens /\ m.t = "OPEN" /\ m.from = id /\ m.n = Window
      /\ m.max = MaxPacket /\ ~m.want
  BY <1>2, IdAssumption, WindowAssumption DEF OpenMsg, Message, Ids, MsgTypes
<1>4. IsFresh(x, y, 0, 0, 0, TRUE) /\ x.tag = opens
  BY DEF IsFresh, FreshChannel
<1>5. Added(conn[p], app[p], id, x, y, cn, an)
  BY <1>1, <1>2, AddedOf, PeerFacts DEF OpenState, FreeId
<1>6. PeerOK(cn, an)
  <2>1. conn'[p] = cn /\ app'[p] = an
    BY <1>1, <1>2 DEF Update, Inv, RestOK
  <2> QED
    BY <1>2, <2>1 DEF Inv
<1> HIDE DEF x, y, m, cn, an
<1>7. Good(p, cn, an, wire[p], conn[q], app[q], Append(wire[q], m), opens + 1)
  BY <1>2, <1>3, <1>4, <1>5, <1>6, GoodOpen
<1>8. wire[q] \o <<m>> = Append(wire[q], m)
  BY <1>2, <1>3, OneMore
<1>9. Update(p, cn, an, <<m>>)
  BY <1>1 DEF cn, an, m
<1> QED
  BY <1>2, <1>7, <1>8, <1>9, OrderUpdate

(* One message of p on its channel id.                                      *)
LEMMA OrderSend ==
    ASSUME Order, Inv', err' = "none", opens' = opens, NEW p \in Peers, NEW id, NEW x, NEW y, NEW c,
           NEW a, NEW m \in Message, Changed(conn[p], app[p], id, x, y, c, a),
           m.tag = x.tag, Sends(p, Chan(p, id), app[p][id], m, x, y), Update(p, c, a, <<m>>)
    PROVE  Order'
<1> DEFINE q == Other(p)
<1>1. /\ Inv /\ Good(p, conn[p], app[p], wire[p], conn[q], app[q], wire[q], opens)
      /\ wire[q] \in Seq(Message)
  BY OrderFor, PeerFacts
<1>2. PeerOK(c, a)
  <2>1. conn'[p] = c /\ app'[p] = a
    BY <1>1 DEF Update, Inv, RestOK
  <2> QED
    BY <2>1 DEF Inv
<1>3. Good(p, c, a, wire[p], conn[q], app[q], Append(wire[q], m), opens)
  BY <1>1, <1>2, GoodSend DEF Chan
<1>4. wire[q] \o <<m>> = Append(wire[q], m)
  BY <1>1, OneMore
<1> QED
  BY <1>1, <1>3, <1>4, OrderUpdate

LEMMA OrderStartRequest ==
    ASSUME Order, NEW id \in Ids, StartRequest(id)
    PROVE  Order'
<1> DEFINE x == Chan("c", id)
           y == [app["c"][id] EXCEPT !.stage = "asked"]
           m == [Msg("REQUEST", x, 0) EXCEPT !.want = TRUE]
           a == Staged("c", id, "asked")
<1>0. "c" \in Peers /\ Live("c", id) /\ Inv /\ Inv' /\ err' = "none" /\ opens' = opens
  BY StartRequestInv DEF StartRequest, Peers, Order
<1>1. /\ id \in Tracked(conn["c"]) /\ PeerOK(conn["c"], app["c"]) /\ x \in ChannelState
      /\ app["c"][id] \in AppState
  BY <1>0, LiveFacts
<1>2. /\ m \in Message /\ m.t = "REQUEST" /\ m.ch = x.remote_id /\ m.n = 0 /\ m.want /\ m.tag = x.tag
  <2>1. m.t = "REQUEST" /\ m.ch = x.remote_id /\ m.n = 0 /\ m.want /\ m.tag = x.tag
    BY DEF Msg
  <2>2. "REQUEST" \in MsgTypes /\ 0 \in Nat
    BY DEF MsgTypes
  <2>3. m \in Message
    BY <1>1, <2>2, MsgOK
  <2> QED
    BY <2>1, <2>3
<1>3. a = [app["c"] EXCEPT ![id] = y]
  BY <1>1 DEF Staged, PeerOK
<1>4. Changed(conn["c"], app["c"], id, x, y, conn["c"], a)
  <2> HIDE DEF y, a
  <2> QED
    BY <1>1, <1>3, ChangedStage DEF Chan
<1>5. y.unread = app["c"][id].unread /\ y.stage = "asked" /\ y.unread \in Nat
  BY <1>1 DEF AppState
<1>6. app["c"][id].stage = "idle" /\ x.closed = {}
  BY DEF StartRequest, Stage, EnsureSendable
<1>7. x.open_confirmed
  BY <1>0, <1>1, <1>6, OrderFor, GoodAlone DEF Chan
<1>8. Sends("c", x, app["c"][id], m, x, y)
  <2> HIDE DEF x, y, m
  <2> QED
    BY <1>1, <1>2, <1>5, <1>6, <1>7, StateIs
    DEF Sends, Opening, Answers, Reply, Data, Credit
<1>9. Update("c", conn["c"], a, <<m>>)
  BY DEF StartRequest
<1> HIDE DEF x, y, m, a
<1> QED
  BY <1>0, <1>2, <1>4, <1>8, <1>9, OrderSend DEF x

LEMMA OrderWindowChange ==
    ASSUME Order, NEW id \in Ids, WindowChange(id)
    PROVE  Order'
<1> DEFINE x == Chan("c", id)
           y == app["c"][id]
           m == Msg("REQUEST", x, 0)
<1>0. "c" \in Peers /\ Live("c", id) /\ Inv /\ Inv' /\ err' = "none" /\ opens' = opens
  BY WindowChangeInv DEF WindowChange, Peers, Order
<1>1. /\ id \in Tracked(conn["c"]) /\ PeerOK(conn["c"], app["c"]) /\ x \in ChannelState
      /\ y \in AppState
  BY <1>0, LiveFacts
<1>2. /\ m \in Message /\ m.t = "REQUEST" /\ m.ch = x.remote_id /\ m.n = 0 /\ ~m.want /\ m.tag = x.tag
  BY <1>1, MsgIs DEF MsgTypes
<1>4. Changed(conn["c"], app["c"], id, x, y, conn["c"], app["c"])
  BY <1>1 DEF Changed, Chan
<1>6. y.stage = "running" /\ x.closed = {} /\ y.unread \in Nat
  BY <1>1 DEF WindowChange, Stage, EnsureSendable, AppState
<1>7. x.open_confirmed
  BY <1>0, <1>1, <1>6, OrderFor, GoodAlone DEF Chan
<1>8. Sends("c", x, y, m, x, y)
  <2> HIDE DEF x, y, m
  <2> QED
    BY <1>1, <1>2, <1>6, <1>7, StateIs DEF Sends, Opening, Answers, Reply, Data, Credit
<1>9. Update("c", conn["c"], app["c"], <<m>>)
  BY DEF WindowChange
<1> HIDE DEF m
<1> QED
  BY <1>0, <1>2, <1>4, <1>8, <1>9, OrderSend

LEMMA OrderShip ==
    ASSUME Order, Inv', NEW p \in Peers, NEW id, Live(p, id), NEW kind \in Data, NEW take \in Nat,
           Ship(p, id, kind, take), Stage(p, id) = "running", CanSendData(conn[p], id),
           take <= Capacity(Chan(p, id), kind)
    PROVE  Order'
<1> DEFINE x == Chan(p, id)
           y == app[p][id]
           xn == [x EXCEPT !.remote_window = @ - take]
           c == SendData(conn[p], id, take)
           m == Msg(kind, x, take)
<1>0. Inv /\ err' = "none" /\ opens' = opens /\ Update(p, c, app[p], <<m>>)
  BY DEF Ship, Order
<1>1. /\ id \in Tracked(conn[p]) /\ PeerOK(conn[p], app[p]) /\ x \in ChannelState /\ y \in AppState
  BY <1>0, LiveFacts
<1>2. /\ m \in Message /\ m.t = kind /\ m.ch = x.remote_id /\ m.n = take /\ ~m.want /\ m.tag = x.tag
  BY <1>1, MsgIs DEF MsgTypes, Data
<1>3. y.stage = "running" /\ x.closed = {} /\ "local" \notin x.eof /\ y.unread \in Nat
  BY <1>1 DEF Stage, CanSendData, EnsureSendable, AppState, Chan
<1>4. x.open_confirmed /\ x.remote_max_packet = MaxPacket
  BY <1>1, <1>3, OrderFor, GoodAlone DEF Chan
<1>5. take <= x.remote_window /\ take <= MaxPacket /\ x.remote_window - take \in Nat
  BY <1>1, <1>4, StateIs, WindowAssumption DEF Capacity, MinOf, HeaderLen
<1>6. xn \in ChannelState /\ xn.tag = x.tag
  BY <1>1, <1>5 DEF ChannelState
<1>7. c = [conn[p] EXCEPT !.channels[id] = xn]
  BY DEF SendData, Chan
<1>8. Changed(conn[p], app[p], id, xn, y, c, app[p])
  <2> HIDE DEF xn
  <2> QED
    BY <1>1, <1>6, <1>7, ChangedChannel DEF Chan
<1>9. Sends(p, x, y, m, xn, y)
  <2>1. /\ xn.open_confirmed = x.open_confirmed /\ xn.remote_id = x.remote_id
        /\ xn.remote_max_packet = x.remote_max_packet /\ xn.eof = x.eof /\ xn.closed = x.closed
        /\ xn.local_window = x.local_window /\ x.remote_window = xn.remote_window + take
    BY <1>1, <1>5 DEF ChannelState
  <2> HIDE DEF x, y, m, xn
  <2> QED
    BY <1>1, <1>2, <1>3, <1>4, <1>5, <2>1, StateIs
    DEF Sends, Opening, Answers, Reply, Data, Credit
<1>10. m.tag = xn.tag
  BY <1>2, <1>6
<1> HIDE DEF x, y, m, xn, c
<1> QED
  BY <1>0, <1>2, <1>8, <1>9, <1>10, OrderSend DEF x, y

LEMMA TakenCapacity ==
    ASSUME NEW c, NEW a, PeerOK(c, a), NEW id \in Tracked(c), NEW n \in Nat, NEW kind
    PROVE  Taken(c, id, kind, n) <= Capacity(c.channels[id], kind)
<1>1. c.channels[id].remote_window \in Nat /\ c.channels[id].remote_max_packet \in Nat
  BY ChannelOK DEF ChannelState
<1> QED
  BY <1>1 DEF Taken, Capacity, MinOf, HeaderLen

LEMMA OrderSame ==
    ASSUME Order, Inv', UNCHANGED <<conn, app, wire, opens, err>>
    PROVE  Order'
BY DEF Order

LEMMA OrderWriteData ==
    ASSUME Order, NEW p \in Peers, NEW id \in Ids, NEW n \in 1 .. MaxWrite, WriteData(p, id, n)
    PROVE  Order'
<1>0. n \in Nat
  BY BoundsAssumption
<1>1. Inv /\ Inv' /\ Live(p, id) /\ id \in Tracked(conn[p]) /\ PeerOK(conn[p], app[p])
  BY WriteDataInv, LiveFacts DEF Order, WriteData
<1>2. Taken(conn[p], id, "DATA", n) \in Nat
  BY <1>0, <1>1, TakenOK
<1>3. Taken(conn[p], id, "DATA", n) <= Capacity(Chan(p, id), "DATA")
  BY <1>0, <1>1, TakenCapacity DEF Chan
<1> QED
  BY <1>1, <1>2, <1>3, OrderShip DEF WriteData, Data

LEMMA OrderWriteStderr ==
    ASSUME Order, NEW id \in Ids, NEW n \in 1 .. MaxWrite, WriteStderr(id, n)
    PROVE  Order'
<1>0. "s" \in Peers /\ n \in Nat
  BY BoundsAssumption DEF Peers
<1>1. Inv /\ Inv' /\ Live("s", id) /\ id \in Tracked(conn["s"]) /\ PeerOK(conn["s"], app["s"])
  BY <1>0, WriteStderrInv, LiveFacts DEF Order, WriteStderr
<1>2. Taken(conn["s"], id, "EXTENDED_DATA", n) \in Nat
  BY <1>0, <1>1, TakenOK
<1>3. Taken(conn["s"], id, "EXTENDED_DATA", n) <= Capacity(Chan("s", id), "EXTENDED_DATA")
  BY <1>0, <1>1, TakenCapacity DEF Chan
<1> QED
  BY <1>0, <1>1, <1>2, <1>3, OrderShip DEF WriteStderr, Data

LEMMA OrderWriteDatagram ==
    ASSUME Order, NEW p \in Peers, NEW id \in Ids, NEW n \in 1 .. MaxWrite,
           WriteDatagram(p, id, n)
    PROVE  Order'
<1>0. n \in Nat
  BY BoundsAssumption
<1>1. Inv /\ Inv' /\ Live(p, id)
  BY WriteDatagramInv DEF Order, WriteDatagram
<1>2. CASE CanSendDatagram(conn[p], id, n)
  <2>1. Ship(p, id, "DATA", n) /\ Stage(p, id) = "running" /\ CanSendData(conn[p], id)
    BY <1>2 DEF WriteDatagram
  <2>2. n <= Capacity(Chan(p, id), "DATA")
    BY <1>2 DEF CanSendDatagram, Chan
  <2> QED
    BY <1>0, <1>1, <2>1, <2>2, OrderShip DEF Data
<1>3. CASE ~CanSendDatagram(conn[p], id, n)
  BY <1>1, <1>3, OrderSame DEF WriteDatagram
<1> QED
  BY <1>2, <1>3

---------------------------------------------------------------------------
(* A channel ends: EOF unless it was sent, then CLOSE.                      *)

LEMMA GoodRequest ==
    ASSUME NEW p \in Peers, NEW c, NEW a, NEW ms, NEW d, NEW b, NEW ns, NEW n,
           Good(p, c, a, ms, d, b, ns, n), NEW i \in Tracked(c),
           c.channels[i].open_confirmed, "local" \notin c.channels[i].closed
    PROVE  Good(p, c, a, ms, d, b, Append(ns, Msg("REQUEST", c.channels[i], 0)), n)
<1> DEFINE x == c.channels[i]
           m == Msg("REQUEST", x, 0)
<1>1. PeerOK(c, a) /\ x \in ChannelState /\ a[i] \in AppState
  BY ChannelOK DEF Good
<1>2. m \in Message /\ m.t = "REQUEST" /\ m.ch = x.remote_id /\ m.n = 0 /\ ~m.want /\ m.tag = x.tag
  BY <1>1, MsgIs DEF MsgTypes
<1>3. Changed(c, a, i, x, a[i], c, a)
  BY DEF Changed
<1>4. a[i].unread \in Nat /\ x.open_confirmed /\ "local" \notin x.closed
  BY <1>1 DEF AppState
<1>5. Sends(p, x, a[i], m, x, a[i])
  <2> HIDE DEF x, m
  <2> QED
    BY <1>1, <1>2, <1>4, StateIs DEF Sends, Opening, Answers, Reply, Data, Credit
<1> HIDE DEF m
<1>6. Good(p, c, a, ms, d, b, Append(ns, m), n)
  BY <1>1, <1>2, <1>3, <1>5, GoodSend
<1> QED
  BY <1>6 DEF m

LEMMA GoodEof ==
    ASSUME NEW p \in Peers, NEW c, NEW a, NEW ms, NEW d, NEW b, NEW ns, NEW n,
           Good(p, c, a, ms, d, b, ns, n), NEW i \in Tracked(c),
           c.channels[i].open_confirmed, "local" \notin c.channels[i].closed
    PROVE  /\ Good(p, SendEof(c, i), a, ms, d, b,
                   IF "local" \in c.channels[i].eof THEN ns
                   ELSE Append(ns, Msg("EOF", c.channels[i], 0)), n)
           /\ i \in Tracked(SendEof(c, i))
           /\ SendEof(c, i).channels[i].open_confirmed
           /\ SendEof(c, i).channels[i].closed = c.channels[i].closed
           /\ SendEof(c, i).channels[i].remote_id = c.channels[i].remote_id
           /\ SendEof(c, i).channels[i].tag = c.channels[i].tag
<1> DEFINE x == c.channels[i]
           xn == [x EXCEPT !.eof = @ \cup {"local"}]
           e == SendEof(c, i)
           m == Msg("EOF", x, 0)
<1>1. PeerOK(c, a) /\ x \in ChannelState /\ a[i] \in AppState
  BY ChannelOK DEF Good
<1>2. m \in Message /\ m.t = "EOF" /\ m.ch = x.remote_id /\ m.n = 0 /\ ~m.want /\ m.tag = x.tag
  BY <1>1, MsgIs DEF MsgTypes
<1>3. e = [c EXCEPT !.channels[i] = xn]
  BY DEF SendEof
<1>4. /\ xn \in ChannelState /\ xn.tag = x.tag /\ xn.open_confirmed = x.open_confirmed
      /\ xn.remote_id = x.remote_id /\ xn.remote_max_packet = x.remote_max_packet
      /\ xn.eof = x.eof \cup {"local"} /\ xn.closed = x.closed
      /\ xn.local_window = x.local_window /\ xn.remote_window = x.remote_window
  BY <1>1 DEF ChannelState, Sides
<1>5. Changed(c, a, i, xn, a[i], e, a) /\ PeerOK(e, a)
  <2>1. Changed(c, a, i, xn, a[i], e, a)
    <3> HIDE DEF xn, e
    <3> QED
      BY <1>1, <1>3, <1>4, ChangedChannel
  <2>2. PeerOK(e, a)
    BY <1>1, UpdateFlags
  <2> QED
    BY <2>1, <2>2
<1>6. /\ i \in Tracked(e) /\ e.channels[i].open_confirmed /\ e.channels[i].closed = x.closed
      /\ e.channels[i].remote_id = x.remote_id /\ e.channels[i].tag = x.tag
  <2> HIDE DEF xn, e
  <2> QED
    BY <1>4, <1>5 DEF Changed
<1>7. CASE "local" \in x.eof
  <2>1. c.channels \in [Tracked(c) -> ChannelState] /\ c = [channels |-> c.channels, next_local_id |-> c.next_local_id]
    BY <1>1 DEF PeerOK, IsConnection
  <2>2. xn = x
    BY <1>1, <1>7 DEF ChannelState
  <2>3. e = c
    BY <1>3, <2>1, <2>2
  <2> QED
    BY <1>6, <1>7, <2>3
<1>8. CASE "local" \notin x.eof
  <2>1. a[i].unread \in Nat /\ x.open_confirmed /\ "local" \notin x.closed
    BY <1>1 DEF AppState
  <2>2. Sends(p, x, a[i], m, xn, a[i])
    <3> HIDE DEF x, m, xn
    <3> QED
      BY <1>1, <1>2, <1>4, <2>1, StateIs DEF Sends, Opening, Answers, Reply, Data, Credit
  <2>3. m.tag = xn.tag
    BY <1>2, <1>4
  <2> HIDE DEF m, xn, e
  <2>4. Good(p, e, a, ms, d, b, Append(ns, m), n)
    BY <1>1, <1>2, <1>5, <2>2, <2>3, GoodSend
  <2> QED
    BY <1>6, <1>8, <2>4 DEF m, e
<1> QED
  BY <1>7, <1>8

LEMMA GoodClose ==
    ASSUME NEW p \in Peers, NEW c, NEW a, NEW ms, NEW d, NEW b, NEW ns, NEW n,
           Good(p, c, a, ms, d, b, ns, n), NEW i \in Tracked(c),
           c.channels[i].open_confirmed, "local" \notin c.channels[i].closed,
           p = "c" => a[i].stage = "running"
    PROVE  Good(p, SendClose(c, i), Kept(a, SendClose(c, i)), ms, d, b,
                Append(ns, Msg("CLOSE", c.channels[i], 0)), n)
<1> DEFINE x == c.channels[i]
           xn == [x EXCEPT !.closed = @ \cup {"local"}]
           e == SendClose(c, i)
           m == Msg("CLOSE", x, 0)
<1>1. PeerOK(c, a) /\ x \in ChannelState /\ a[i] \in AppState
  BY ChannelOK DEF Good
<1>2. m \in Message /\ m.t = "CLOSE" /\ m.ch = x.remote_id /\ m.n = 0 /\ ~m.want /\ m.tag = x.tag
  BY <1>1, MsgIs DEF MsgTypes
<1>3. PeerOK(e, Kept(a, e))
  BY <1>1, SendCloseOK
<1>4. CASE "remote" \in x.closed
  <2>1. e = Remove(c, i)
    BY <1>4 DEF SendClose
  <2>2. Removed(c, a, i, e, Kept(a, e))
    BY <1>1, <2>1, RemovedOf
  <2> HIDE DEF m, e
  <2>3. Good(p, e, Kept(a, e), ms, d, b, Append(ns, m), n)
    BY <1>2, <1>3, <1>4, <2>2, GoodSendLast
  <2> QED
    BY <2>3 DEF m, e
<1>5. CASE "remote" \notin x.closed
  <2>1. e = [c EXCEPT !.channels[i] = xn]
    BY <1>5 DEF SendClose
  <2>2. /\ xn \in ChannelState /\ xn.tag = x.tag /\ xn.open_confirmed = x.open_confirmed
        /\ xn.remote_id = x.remote_id /\ xn.remote_max_packet = x.remote_max_packet
        /\ xn.closed = x.closed \cup {"local"} /\ xn.eof = x.eof
        /\ xn.local_window = x.local_window /\ xn.remote_window = x.remote_window
    BY <1>1 DEF ChannelState, Sides
  <2>3. Changed(c, a, i, xn, a[i], e, a)
    <3> HIDE DEF xn, e
    <3> QED
      BY <1>1, <2>1, <2>2, ChangedChannel
  <2>4. Kept(a, e) = a /\ PeerOK(e, a)
    <3>1. PeerOK(e, a)
      BY <1>1, <1>5, UpdateFlags DEF SendClose
    <3> QED
      BY <3>1, KeptAll
  <2>5. a[i].unread \in Nat /\ x.open_confirmed /\ "local" \notin x.closed
    BY <1>1 DEF AppState
  <2>6. Sends(p, x, a[i], m, xn, a[i])
    <3> HIDE DEF x, m, xn
    <3> QED
      BY <1>1, <1>2, <2>2, <2>5, StateIs DEF Sends, Opening, Answers, Reply, Data, Credit
  <2>7. m.tag = xn.tag
    BY <1>2, <2>2
  <2> HIDE DEF m, xn, e
  <2>8. Good(p, e, a, ms, d, b, Append(ns, m), n)
    BY <1>1, <1>2, <2>3, <2>4, <2>6, <2>7, GoodSend
  <2> QED
    BY <2>4, <2>8 DEF m, e
<1> QED
  BY <1>4, <1>5

LEMMA OrderHalfClose ==
    ASSUME Order, NEW p \in Peers, NEW id \in Ids, HalfClose(p, id)
    PROVE  Order'
<1> DEFINE q == Other(p)
           c == SendEof(conn[p], id)
           m == Msg("EOF", Chan(p, id), 0)
<1>1. /\ Inv /\ Inv' /\ Live(p, id) /\ id \in Tracked(conn[p]) /\ PeerOK(conn[p], app[p])
      /\ Chan(p, id) \in ChannelState
  BY HalfCloseInv, LiveFacts DEF Order, HalfClose
<1>2. /\ Good(p, conn[p], app[p], wire[p], conn[q], app[q], wire[q], opens)
      /\ wire[q] \in Seq(Message)
  BY <1>1, OrderFor, PeerFacts
<1>3. Chan(p, id).open_confirmed
  BY <1>1, <1>2, GoodAlone DEF HalfClose, Stage, Chan
<1>4. Good(p, c, app[p], wire[p], conn[q], app[q], Append(wire[q], m), opens)
  BY <1>1, <1>2, <1>3, GoodEof DEF HalfClose, CanSendEof, Chan
<1>5. m \in Message
  BY <1>1, MsgIs DEF MsgTypes
<1> HIDE DEF m
<1>6. wire[q] \o <<m>> = Append(wire[q], m)
  BY <1>2, <1>5, OneMore
<1>7. Update(p, c, app[p], <<m>>) /\ opens' = opens /\ err' = "none"
  BY DEF HalfClose, EofMsgs, m, Order
<1> HIDE DEF c, q
<1> QED
  BY <1>1, <1>4, <1>6, <1>7, OrderUpdate DEF q

LEMMA Joined ==
    ASSUME NEW s \in Seq(Message), NEW t \in Seq(Message), NEW u \in Seq(Message), NEW m \in Message
    PROVE  s \o (t \o u \o <<m>>) = Append((s \o t) \o u, m)
OBVIOUS

LEMMA OrderFinish ==
    ASSUME Order, Inv', NEW p \in Peers, NEW id, Live(p, id), NEW before \in Seq(Message),
           Finish(p, id, before), Chan(p, id).open_confirmed,
           p = "c" => Stage(p, id) = "running",
           Good(p, conn[p], app[p], wire[p], conn[Other(p)], app[Other(p)],
                wire[Other(p)] \o before, opens)
    PROVE  Order'
<1> DEFINE q == Other(p)
           x == Chan(p, id)
           e == SendEof(conn[p], id)
           c == SendClose(e, id)
           eof == EofMsgs(p, id)
           z == Msg("CLOSE", x, 0)
           ns == wire[q] \o before
           ms == before \o eof \o <<z>>
<1>1. /\ Inv /\ id \in Tracked(conn[p]) /\ PeerOK(conn[p], app[p]) /\ x \in ChannelState
      /\ wire[q] \in Seq(Message) /\ "local" \notin x.closed
  BY OrderFor, LiveFacts, PeerFacts DEF Finish, CanSendEof, Chan
<1>2. Msg("EOF", x, 0) \in Message /\ z \in Message
  BY <1>1, MsgIs DEF MsgTypes
<1>3. ns \in Seq(Message) /\ eof \in Seq(Message)
  BY <1>1, EofMsgsOK
<1>4. ns \o eof = IF "local" \in x.eof THEN ns ELSE Append(ns, Msg("EOF", x, 0))
  <2> DEFINE m == Msg("EOF", x, 0)
  <2>1. eof = IF "local" \in x.eof THEN <<>> ELSE <<m>>
    BY DEF EofMsgs
  <2>2. m \in Message
    BY <1>2
  <2> HIDE DEF m, ns, eof
  <2>3. ns \o <<m>> = Append(ns, m) /\ ns \o <<>> = ns
    BY <1>3, <2>2, OneMore
  <2> QED
    BY <2>1, <2>3 DEF m
<1>5. /\ Good(p, e, app[p], wire[p], conn[q], app[q],
              IF "local" \in x.eof THEN ns ELSE Append(ns, Msg("EOF", x, 0)), opens)
      /\ id \in Tracked(e) /\ e.channels[id].open_confirmed
      /\ e.channels[id].closed = x.closed /\ e.channels[id].remote_id = x.remote_id
      /\ e.channels[id].tag = x.tag
  <2> HIDE DEF ns
  <2>1. Good(p, conn[p], app[p], wire[p], conn[q], app[q], ns, opens)
    BY DEF ns
  <2> QED
    BY <1>1, <2>1, GoodEof DEF Chan
<1>6. Msg("CLOSE", e.channels[id], 0) = z
  BY <1>5 DEF Msg
<1>7. Good(p, c, Kept(app[p], c), wire[p], conn[q], app[q], Append(ns \o eof, z), opens)
  <2> DEFINE nt == ns \o eof
  <2>1. Good(p, e, app[p], wire[p], conn[q], app[q], nt, opens)
    BY <1>4, <1>5
  <2> HIDE DEF nt, e, z
  <2>2. Good(p, SendClose(e, id), Kept(app[p], SendClose(e, id)), wire[p], conn[q], app[q],
             Append(nt, Msg("CLOSE", e.channels[id], 0)), opens)
    BY <1>1, <1>5, <2>1, GoodClose DEF Stage
  <2> QED
    BY <1>6, <2>2 DEF nt
<1>8. wire[q] \o ms = Append(ns \o eof, z)
  <2>1. eof \in Seq(Message) /\ z \in Message /\ wire[q] \in Seq(Message)
    BY <1>1, <1>2, <1>3
  <2> HIDE DEF eof, z, q
  <2> QED
    BY <2>1, Joined
<1>9. Update(p, c, Kept(app[p], c), ms) /\ opens' = opens /\ err' = "none"
  BY DEF Finish, Order
<1> HIDE DEF c, ms, q, eof, z, ns
<1>10. Good(p, c, Kept(app[p], c), wire[p], conn[Other(p)], app[Other(p)], wire[Other(p)] \o ms, opens')
  BY <1>7, <1>8, <1>9 DEF q
<1> QED
  BY <1>9, <1>10, OrderUpdate

LEMMA FinishFirst ==
    ASSUME Order, NEW p \in Peers, NEW id, Live(p, id), Finish(p, id, <<>>), Inv',
           Chan(p, id).open_confirmed, p = "c" => Stage(p, id) = "running"
    PROVE  Order'
<1> DEFINE q == Other(p)
<1>1. /\ Good(p, conn[p], app[p], wire[p], conn[q], app[q], wire[q], opens)
      /\ wire[q] \in Seq(Message)
  BY OrderFor, PeerFacts
<1>2. wire[q] \o <<>> = wire[q] /\ <<>> \in Seq(Message)
  BY <1>1
<1>3. Good(p, conn[p], app[p], wire[p], conn[q], app[q], wire[q] \o <<>>, opens)
  BY <1>1, <1>2
<1> QED
  BY <1>2, <1>3, OrderFinish

LEMMA OrderClose ==
    ASSUME Order, NEW p \in Peers, NEW id \in Ids, Close(p, id)
    PROVE  Order'
<1>1. Inv' /\ Live(p, id) /\ Finish(p, id, <<>>) /\ Stage(p, id) = "running"
  BY CloseInv DEF Order, Close
<1>2. Chan(p, id).open_confirmed
  BY <1>1, OrderFor, GoodAlone DEF Stage, Chan, Live
<1> QED
  BY <1>1, <1>2, FinishFirst

LEMMA OrderCloseIdle ==
    ASSUME Order, NEW id \in Ids, CloseIdle(id)
    PROVE  Order'
<1>1. /\ "s" \in Peers /\ Inv' /\ Live("s", id) /\ Finish("s", id, <<>>)
      /\ Chan("s", id).open_confirmed
  BY CloseIdleInv DEF Order, CloseIdle, IsOpen, Peers
<1> QED
  BY <1>1, FinishFirst

LEMMA OrderFinalizeExited ==
    ASSUME Order, NEW id \in Ids, FinalizeExited(id)
    PROVE  Order'
<1> DEFINE m == Msg("REQUEST", Chan("s", id), 0)
           q == Other("s")
<1>1. /\ "s" \in Peers /\ Inv /\ Inv' /\ Live("s", id) /\ Finish("s", id, <<m>>)
      /\ Stage("s", id) = "running" /\ "local" \notin Chan("s", id).closed
  BY FinalizeExitedInv DEF Order, FinalizeExited, Peers, EnsureSendable
<1>2. /\ Good("s", conn["s"], app["s"], wire["s"], conn[q], app[q], wire[q], opens)
      /\ wire[q] \in Seq(Message) /\ id \in Tracked(conn["s"]) /\ Chan("s", id) \in ChannelState
  BY <1>1, OrderFor, PeerFacts, LiveFacts
<1>3. Chan("s", id).open_confirmed
  BY <1>1, <1>2, GoodAlone DEF Stage, Chan
<1>4. m \in Message
  BY <1>2, MsgIs DEF MsgTypes
<1>5. Good("s", conn["s"], app["s"], wire["s"], conn[q], app[q], Append(wire[q], m), opens)
  BY <1>1, <1>2, <1>3, GoodRequest DEF Chan
<1> HIDE DEF m
<1>6. wire[q] \o <<m>> = Append(wire[q], m) /\ <<m>> \in Seq(Message)
  BY <1>2, <1>4, OneMore
<1>7. Good("s", conn["s"], app["s"], wire["s"], conn[q], app[q], wire[q] \o <<m>>, opens)
  BY <1>5, <1>6
<1> QED
  BY <1>1, <1>3, <1>6, <1>7, OrderFinish

(* replenish_window: credit, or none yet.                                   *)
LEMMA OrderConsume ==
    ASSUME Order, NEW p \in Peers, NEW id \in Ids, NEW k \in 1 .. Window, Consume(p, id, k)
    PROVE  Order'
<1> DEFINE q == Other(p)
           x == Chan(p, id)
           y == app[p][id]
           yn == [y EXCEPT !.unread = @ - k]
           a == [app[p] EXCEPT ![id].unread = @ - k]
           c == ReplenishWindow(conn[p], id, k)
           credit == x.pending_replenish + k
           m == Msg("WINDOW_ADJUST", x, credit)
           flushed == [x EXCEPT !.pending_replenish = 0, !.local_window = @ + x.pending_replenish + k]
           counted == [x EXCEPT !.pending_replenish = @ + k]
<1>1. /\ Inv /\ Inv' /\ Live(p, id) /\ id \in Tracked(conn[p]) /\ PeerOK(conn[p], app[p])
      /\ x \in ChannelState /\ y \in AppState /\ k <= y.unread /\ k \in Nat /\ k # 0
      /\ opens' = opens /\ err' = "none"
  <2>1. Inv /\ Live(p, id) /\ k <= y.unread /\ opens' = opens /\ err' = "none"
    BY DEF Order, Consume
  <2>2. Inv'
    BY <2>1, ConsumeInv
  <2>3. k \in Nat /\ k # 0
    BY WindowAssumption
  <2> QED
    BY <2>1, <2>2, <2>3, LiveFacts
<1>2. /\ Good(p, conn[p], app[p], wire[p], conn[q], app[q], wire[q], opens)
      /\ wire[q] \in Seq(Message)
  BY <1>1, OrderFor, PeerFacts
<1>3. yn.unread = y.unread - k /\ yn.stage = y.stage /\ y.unread \in Nat /\ y.unread # 0
  BY <1>1 DEF AppState
<1>4. a = [app[p] EXCEPT ![id] = yn]
  BY <1>1 DEF PeerOK
<1>5. x.open_confirmed
  BY <1>1, <1>2, <1>3, GoodAlone, StateIs DEF Chan
<1>6. PeerOK(c, a)
  BY <1>1, ReplenishOK
<1>7. CASE Replenishes(conn[p], id, k)
  <2>1. c = [conn[p] EXCEPT !.channels[id] = flushed] /\ "local" \notin x.closed
    <3>1. "local" \notin x.closed
      BY <1>7 DEF Replenishes, Chan
    <3>2. c = [conn[p] EXCEPT !.channels[id].pending_replenish = 0,
                              !.channels[id].local_window = @ + x.pending_replenish + k]
      BY <1>7, <3>1 DEF ReplenishWindow, Chan
    <3>3. conn[p].channels \in [Tracked(conn[p]) -> ChannelState]
      BY <1>1 DEF PeerOK, IsConnection
    <3> QED
      BY <1>1, <3>1, <3>2, <3>3 DEF Chan
  <2>2. credit \in Nat
    BY <1>1, StateIs
  <2>3. m \in Message /\ m.t = "WINDOW_ADJUST" /\ m.ch = x.remote_id /\ m.n = credit /\ ~m.want /\ m.tag = x.tag
    <3> HIDE DEF credit
    <3> QED
      BY <1>1, <2>2, MsgIs DEF MsgTypes
  <2>4. /\ flushed \in ChannelState /\ flushed.tag = x.tag /\ flushed.open_confirmed = x.open_confirmed
        /\ flushed.remote_id = x.remote_id /\ flushed.remote_max_packet = x.remote_max_packet
        /\ flushed.closed = x.closed /\ flushed.eof = x.eof
        /\ flushed.local_window = x.local_window + credit /\ flushed.remote_window = x.remote_window
    <3> DEFINE sum == x.local_window + x.pending_replenish + k
    <3>1. sum \in Nat /\ sum = x.local_window + credit
      BY <1>1, StateIs
    <3>2. flushed = [x EXCEPT !.pending_replenish = 0, !.local_window = sum]
      OBVIOUS
    <3> HIDE DEF sum, flushed
    <3> QED
      BY <1>1, <3>1, <3>2 DEF ChannelState
  <2>5. Changed(conn[p], app[p], id, flushed, yn, c, a)
    <3> HIDE DEF flushed, yn, c, a
    <3> QED
      BY <1>1, <1>4, <2>1, <2>4, ChangedOf DEF Chan
  <2>6. yn.unread <= y.unread
    BY <1>1, <1>3
  <2>7. Sends(p, x, y, m, flushed, yn)
    <3> HIDE DEF x, y, m, yn, flushed, credit
    <3> QED
      BY <1>1, <1>3, <1>5, <2>1, <2>2, <2>3, <2>4, <2>6, StateIs
      DEF Sends, Opening, Answers, Reply, Data, Credit
  <2>8. Update(p, c, a, <<m>>)
    BY <1>7 DEF Consume
  <2>9. m.tag = flushed.tag
    BY <2>3, <2>4
  <2> HIDE DEF x, y, m, yn, flushed, c, a
  <2> QED
    BY <1>1, <2>3, <2>5, <2>7, <2>8, <2>9, OrderSend DEF x, y
<1>8. CASE ~Replenishes(conn[p], id, k)
  <2>1. PICK xn \in ChannelState : /\ Changed(conn[p], app[p], id, xn, yn, c, a)
                                   /\ xn = x \/ xn = counted
    <3>1. CASE "local" \in x.closed
      <4>1. c = conn[p]
        BY <3>1 DEF ReplenishWindow, Chan
      <4>2. Changed(conn[p], app[p], id, x, yn, c, a)
        <5> HIDE DEF yn, c, a
        <5> QED
          BY <1>1, <1>4, <4>1, ChangedStage DEF Chan
      <4> QED
        BY <1>1, <4>2
    <3>2. CASE "local" \notin x.closed
      <4>1. c = [conn[p] EXCEPT !.channels[id] = counted]
        BY <1>8, <3>2 DEF ReplenishWindow, Chan
      <4>2. counted \in ChannelState /\ counted.tag = x.tag
        BY <1>1 DEF ChannelState
      <4>3. Changed(conn[p], app[p], id, counted, yn, c, a)
        <5> HIDE DEF yn, c, a, counted
        <5> QED
          BY <1>1, <1>4, <4>1, <4>2, ChangedOf DEF Chan
      <4> QED
        BY <4>2, <4>3
    <3> QED
      BY <3>1, <3>2
  <2>2. Quiet(x, y, xn, yn)
    <3>1. /\ xn.open_confirmed = x.open_confirmed /\ xn.initiated_by_us = x.initiated_by_us
          /\ xn.remote_id = x.remote_id /\ xn.remote_max_packet = x.remote_max_packet
          /\ xn.eof = x.eof /\ xn.closed = x.closed
          /\ xn.local_window = x.local_window /\ xn.remote_window = x.remote_window
      BY <1>1, <2>1 DEF ChannelState
    <3> QED
      BY <1>3, <3>1 DEF Quiet
  <2>3. Update(p, c, a, <<>>)
    BY <1>8 DEF Consume
  <2> HIDE DEF x, y, yn, c, a
  <2>4. Good(p, c, a, wire[p], conn[q], app[q], wire[q], opens)
    BY <1>2, <1>6, <2>1, <2>2, GoodQuiet DEF x, y, Chan
  <2>5. wire[q] \o <<>> = wire[q]
    BY <1>2
  <2>6. Good(p, c, a, wire[p], conn[q], app[q], wire[q] \o <<>>, opens')
    BY <1>1, <2>4, <2>5
  <2> QED
    BY <1>1, <2>3, <2>6, OrderUpdate
<1> QED
  BY <1>7, <1>8

---------------------------------------------------------------------------
(* Inbound packets.                                                         *)

LEMMA OrderReads ==
    ASSUME Order, NEW p \in Peers, NEW m, Reads(p, m)
    PROVE  /\ ReadsFirst(p, conn[p], app[p], wire[p], conn[Other(p)], app[Other(p)],
                         wire[Other(p)], opens, m)
           /\ Inv /\ PeerOK(conn[p], app[p]) /\ m \in Message /\ wire[Other(p)] \in Seq(Message)
           /\ m.t # "OPEN" => /\ m.ch \in Tracked(conn[p]) /\ Chan(p, m.ch) \in ChannelState
                              /\ app[p][m.ch] \in AppState /\ Chan(p, m.ch).tag = m.tag
<1>1. /\ Inv /\ Other(p) \in Peers
      /\ Good(p, conn[p], app[p], wire[p], conn[Other(p)], app[Other(p)], wire[Other(p)], opens)
  BY OrderFor
<1>2. wire[p] # <<>> /\ m = Head(wire[p])
  BY DEF Reads
<1>3. /\ ReadsFirst(p, conn[p], app[p], wire[p], conn[Other(p)], app[Other(p)],
                    wire[Other(p)], opens, m)
  BY <1>1, <1>2 DEF ReadsFirst
<1>4. /\ m \in Message /\ m.tag \in Nat /\ PeerOK(conn[p], app[p]) /\ wire[Other(p)] \in Seq(Message)
      /\ m \in Stream(wire[p], m.tag).S
  BY <1>3, GoodHead
<1>5. ASSUME m.t # "OPEN"
      PROVE  m.ch \in Tracked(conn[p]) /\ conn[p].channels[m.ch].tag = m.tag
  <2>1. /\ m.ch \in Tracked(conn[p]) /\ conn[p].channels[m.ch].tag = m.tag
        /\ Has(Own(conn[p], app[p], m.tag), m.ch, conn[p].channels[m.ch], app[p][m.ch])
    BY <1>1, <1>4, <1>5, GoodFor
  <2> QED
    BY <2>1
<1>6. m.t # "OPEN" => Chan(p, m.ch) \in ChannelState /\ app[p][m.ch] \in AppState
  BY <1>4, <1>5, ChannelOK DEF Chan
<1> QED
  BY <1>1, <1>3, <1>4, <1>5, <1>6 DEF Chan

LEMMA OrderFirst ==
    ASSUME Order, NEW p \in Peers, NEW m, Reads(p, m), m.t \notin Opening
    PROVE  /\ Chan(p, m.ch).open_confirmed
           /\ m.t \in Data => m.n <= Chan(p, m.ch).local_window
<1> DEFINE q == Other(p)
           h == Own(conn[p], app[p], m.tag)
           g == Own(conn[q], app[q], m.tag)
           w == Stream(wire[p], m.tag)
           v == Stream(wire[q], m.tag)
           u == Stream(Tail(wire[p]), m.tag)
<1>1. /\ ReadsFirst(p, conn[p], app[p], wire[p], conn[q], app[q], wire[q], opens, m)
      /\ Good(p, conn[p], app[p], wire[p], conn[q], app[q], wire[q], opens)
  BY OrderReads DEF ReadsFirst
<1>2. /\ m \in Message /\ Pair(p, h, g, w, v) /\ Shorter(w, m, u) /\ Typed(h, u) /\ m.tag \in Nat
      /\ m \in w.S
  BY <1>1, GoodHead
<1>3. Has(h, m.ch, conn[p].channels[m.ch], app[p][m.ch])
  BY <1>1, <1>2, GoodFor DEF Opening
<1> HIDE DEF h, g, w, v, u
<1>4. h.x.open_confirmed /\ (m.t \in Data => m.n <= h.x.local_window)
  BY <1>2, FirstMessage
<1> QED
  BY <1>3, <1>4 DEF Has, Chan

LEMMA TakePeer ==
    ASSUME Inv, Inv', NEW p \in Peers, NEW c, NEW a, NEW ms, Take(p, c, a, ms)
    PROVE  PeerOK(c, a)
<1>1. conn'[p] = c /\ app'[p] = a
  BY DEF Take, Inv, RestOK
<1> QED
  BY <1>1 DEF Inv

(* p takes m and says nothing.                                              *)
LEMMA OrderTakes ==
    ASSUME Order, Inv', NEW p \in Peers, NEW m, Reads(p, m), NEW c, NEW a, Take(p, c, a, <<>>),
           NEW x, NEW y, Changed(conn[p], app[p], m.ch, x, y, c, a),
           Takes(Chan(p, m.ch), app[p][m.ch], m, x, y)
    PROVE  Order'
<1> DEFINE q == Other(p)
<1>1. /\ ReadsFirst(p, conn[p], app[p], wire[p], conn[q], app[q], wire[q], opens, m) /\ Inv
      /\ wire[q] \in Seq(Message)
  BY OrderReads
<1>2. PeerOK(c, a)
  BY <1>1, TakePeer
<1>3. Good(p, c, a, Tail(wire[p]), conn[q], app[q], wire[q], opens)
  BY <1>1, <1>2, GoodTake DEF Chan
<1>4. wire[q] \o <<>> = wire[q]
  BY <1>1
<1>5. Good(p, c, a, Tail(wire[p]), conn[q], app[q], wire[q] \o <<>>, opens)
  BY <1>3, <1>4
<1> QED
  BY <1>5, OrderTake

LEMMA OpenFailureIs ==
    ASSUME NEW m \in Message
    PROVE  /\ OpenFailure(m) \in Message /\ OpenFailure(m).tag = m.tag
           /\ OpenFailure(m).t = "OPEN_FAILURE" /\ OpenFailure(m).ch = m.from /\ ~OpenFailure(m).want
<1>1. 0 \in Ids
  BY IdAssumption DEF Ids
<1> QED
  BY <1>1 DEF OpenFailure, Message, MsgTypes

LEMMA OrderRefuse ==
    ASSUME Order, Inv', NEW p \in Peers, NEW m, Reads(p, m), m.t = "OPEN", NEW c,
           Take(p, c, app[p], <<OpenFailure(m)>>), c.channels = conn[p].channels
    PROVE  Order'
<1> DEFINE q == Other(p)
           z == OpenFailure(m)
<1>1. /\ ReadsFirst(p, conn[p], app[p], wire[p], conn[q], app[q], wire[q], opens, m) /\ Inv
      /\ wire[q] \in Seq(Message) /\ m \in Message
  BY OrderReads
<1>2. z \in Message /\ z.tag = m.tag /\ z.t = "OPEN_FAILURE" /\ z.ch = m.from /\ ~z.want
  BY <1>1, OpenFailureIs
<1>3. PeerOK(c, app[p])
  BY <1>1, TakePeer
<1>4. Take(p, c, app[p], <<z>>)
  OBVIOUS
<1> HIDE DEF z
<1>5. Good(p, c, app[p], Tail(wire[p]), conn[q], app[q], Append(wire[q], z), opens)
  BY <1>1, <1>2, <1>3, GoodRefuse
<1>6. wire[q] \o <<z>> = Append(wire[q], z)
  BY <1>1, <1>2, OneMore
<1>7. Good(p, c, app[p], Tail(wire[p]), conn[q], app[q], wire[q] \o <<z>>, opens)
  BY <1>5, <1>6
<1> QED
  BY <1>4, <1>7, OrderTake

LEMMA OrderRefuseOpen ==
    ASSUME Order, NEW p \in Peers, NEW m, RefuseOpen(p, m)
    PROVE  Order'
<1>1. Inv'
  BY RefuseOpenInv DEF Order
<1>2. Reads(p, m) /\ m.t = "OPEN" /\ Take(p, conn[p], app[p], <<OpenFailure(m)>>)
  BY DEF RefuseOpen
<1> QED
  BY <1>1, <1>2, OrderRefuse

LEMMA OrderRejectRequest ==
    ASSUME Order, NEW p \in Peers, NEW m, RejectRequest(p, m)
    PROVE  Order'
<1>1. Inv' /\ Reads(p, m) /\ m.t = "OPEN"
  BY RejectRequestInv DEF Order, RejectRequest
<1>2. PICK id \in Ids :
          /\ FreeId(conn[p], id)
          /\ Take(p, Remove(OnChannelOpen(conn[p], id, m), id), app[p], <<OpenFailure(m)>>)
  BY DEF RejectRequest
<1> DEFINE x == FreshChannel(m.from, m.n, m.max, FALSE, m.tag)
           c == Allocate(conn[p], id, x)
           d == Remove(c, id)
<1>3. PeerOK(conn[p], app[p]) /\ id \notin Tracked(conn[p])
  BY <1>1, <1>2, OrderReads DEF FreeId
<1>4. OnChannelOpen(conn[p], id, m) = c
  BY DEF OnChannelOpen
<1>5. /\ c.channels = [j \in Tracked(conn[p]) \cup {id} |-> IF j = id THEN x ELSE conn[p].channels[j]]
      /\ c = [channels |-> c.channels, next_local_id |-> (id + 1) % IdMod]
  <2> HIDE DEF x
  <2> QED
    BY <1>3, AllocatedIs
<1> HIDE DEF x, c
<1>6. d.channels = [j \in Tracked(c) \ {id} |-> c.channels[j]]
  BY <1>5 DEF Remove
<1>7. Tracked(c) \ {id} = Tracked(conn[p])
  BY <1>3, <1>5 DEF Tracked
<1>8. \A j \in Tracked(conn[p]) : c.channels[j] = conn[p].channels[j]
  BY <1>3, <1>5
<1>9. d.channels = conn[p].channels
  BY <1>3, <1>6, <1>7, <1>8 DEF PeerOK, IsConnection
<1> HIDE DEF d
<1>10. Take(p, d, app[p], <<OpenFailure(m)>>)
  BY <1>2, <1>4 DEF d
<1> QED
  BY <1>1, <1>9, <1>10, OrderRefuse

LEMMA OrderAcceptRequest ==
    ASSUME Order, NEW p \in Peers, NEW m, AcceptRequest(p, m)
    PROVE  Order'
<1> DEFINE q == Other(p)
           stage == IF p = "s" THEN "idle" ELSE "running"
<1>1. Inv' /\ Reads(p, m) /\ m.t = "OPEN"
  BY AcceptRequestInv DEF Order, AcceptRequest
<1>2. PICK id \in Ids :
          /\ FreeId(conn[p], id)
          /\ Take(p, AcceptOpen(OnChannelOpen(conn[p], id, m), id), WithApp(app[p], id, stage),
                  <<AcceptMsg(OnChannelOpen(conn[p], id, m), id)>>)
  BY DEF AcceptRequest
<1> DEFINE x == FreshChannel(m.from, m.n, m.max, FALSE, m.tag)
           xn == [x EXCEPT !.open_confirmed = TRUE]
           y == [unread |-> 0, stage |-> stage]
           c == Allocate(conn[p], id, x)
           e == AcceptOpen(c, id)
           a == WithApp(app[p], id, stage)
           z == AcceptMsg(c, id)
<1>3. /\ ReadsFirst(p, conn[p], app[p], wire[p], conn[q], app[q], wire[q], opens, m) /\ Inv
      /\ wire[q] \in Seq(Message) /\ m \in Message /\ PeerOK(conn[p], app[p])
      /\ id \notin Tracked(conn[p])
  BY <1>1, <1>2, OrderReads DEF FreeId
<1>4. Take(p, e, a, <<z>>)
  BY <1>2 DEF OnChannelOpen
<1>5. PeerOK(e, a)
  <2> HIDE DEF e, a, z
  <2> QED
    BY <1>1, <1>3, <1>4, TakePeer
<1>6. /\ Added(conn[p], app[p], id, x, y, c, a)
      /\ c.channels = [j \in Tracked(conn[p]) \cup {id} |-> IF j = id THEN x ELSE conn[p].channels[j]]
      /\ c = [channels |-> c.channels, next_local_id |-> (id + 1) % IdMod]
  <2> HIDE DEF x, stage
  <2>1. Added(conn[p], app[p], id, x, y, c, a)
    BY <1>3, AddedOf
  <2>2. /\ c.channels = [j \in Tracked(conn[p]) \cup {id} |-> IF j = id THEN x ELSE conn[p].channels[j]]
        /\ c = [channels |-> c.channels, next_local_id |-> (id + 1) % IdMod]
    BY <1>3, AllocatedIs
  <2> QED
    BY <2>1, <2>2
<1>7. e = [c EXCEPT !.channels[id].open_confirmed = TRUE] /\ c.channels[id] = x
  BY <1>6 DEF AcceptOpen
<1>8. /\ xn.remote_id = m.from /\ xn.local_window = Window
      /\ xn.remote_window = m.n /\ xn.remote_max_packet = m.max
      /\ xn.eof = {} /\ xn.closed = {} /\ xn.open_confirmed = TRUE /\ xn.initiated_by_us = FALSE
      /\ xn.tag = m.tag
  BY DEF FreshChannel
<1>9. /\ x.remote_id = m.from /\ x.local_window = Window /\ x.tag = m.tag
  BY DEF FreshChannel
<1>10. y.unread = 0 /\ y.stage # "opening"
  OBVIOUS
<1>11. Added(conn[p], app[p], id, xn, y, e, a)
  <2> HIDE DEF x, xn, y, c, a
  <2>1. e.channels = [c.channels EXCEPT ![id] = [c.channels[id] EXCEPT !.open_confirmed = TRUE]]
    BY <1>6, <1>7
  <2>2. /\ Tracked(e) = Tracked(c) /\ e.channels[id] = [x EXCEPT !.open_confirmed = TRUE]
        /\ \A j \in Tracked(c) : j # id => e.channels[j] = c.channels[j]
    BY <1>6, <1>7, <2>1 DEF Tracked
  <2>3. e.channels[id] = xn
    BY <2>2 DEF xn
  <2> HIDE DEF e
  <2> QED
    BY <1>6, <2>2, <2>3 DEF Added
<1>12. IsFresh(xn, y, m.from, m.n, m.max, FALSE)
  <2> HIDE DEF xn, y
  <2> QED
    BY <1>8, <1>10 DEF IsFresh
<1>13. /\ z \in Message /\ z.tag = m.tag /\ z.t = "OPEN_CONFIRMATION" /\ z.ch = m.from
       /\ z.from = id /\ z.n = Window /\ z.max = MaxPacket /\ ~z.want
  <2> HIDE DEF x, c
  <2>1. z = [Msg("OPEN_CONFIRMATION", x, Window) EXCEPT !.from = id, !.max = MaxPacket]
    BY <1>7, <1>9 DEF AcceptMsg
  <2>2. z = [t |-> "OPEN_CONFIRMATION", ch |-> m.from, from |-> id, n |-> Window,
             max |-> MaxPacket, want |-> FALSE, tag |-> m.tag]
    BY <1>9, <2>1 DEF Msg
  <2>3. m.from \in Ids /\ m.tag \in Nat
    BY <1>3 DEF Message
  <2> HIDE DEF z
  <2> QED
    BY <2>2, <2>3, WindowAssumption DEF Message, MsgTypes
<1> HIDE DEF x, xn, y, c, e, a, z, stage
<1>14. Good(p, e, a, Tail(wire[p]), conn[q], app[q], Append(wire[q], z), opens)
  BY <1>1, <1>3, <1>5, <1>8, <1>11, <1>12, <1>13, GoodAccept
<1>15. wire[q] \o <<z>> = Append(wire[q], z)
  BY <1>3, <1>13, OneMore
<1>16. Good(p, e, a, Tail(wire[p]), conn[q], app[q], wire[q] \o <<z>>, opens)
  BY <1>14, <1>15
<1> QED
  BY <1>1, <1>4, <1>16, OrderTake

LEMMA OrderOpenAnswered ==
    ASSUME Order, NEW p \in Peers, NEW m, OpenAnswered(p, m)
    PROVE  Order'
<1> DEFINE q == Other(p)
<1>1. Inv' /\ Reads(p, m) /\ m.t \in Answers /\ m.t # "OPEN"
  BY OpenAnsweredInv DEF Order, OpenAnswered, Answers
<1>2. /\ ReadsFirst(p, conn[p], app[p], wire[p], conn[q], app[q], wire[q], opens, m) /\ Inv
      /\ wire[q] \in Seq(Message) /\ m \in Message /\ PeerOK(conn[p], app[p])
      /\ m.ch \in Tracked(conn[p]) /\ Chan(p, m.ch) \in ChannelState /\ app[p][m.ch] \in AppState
  BY <1>1, OrderReads
<1>3. wire[q] \o <<>> = wire[q]
  BY <1>2
<1>4. CASE m.t = "OPEN_FAILURE"
  <2> DEFINE c == Remove(conn[p], m.ch)
             a == Kept(app[p], c)
  <2>1. OnPacket(conn[p], m) = c
    BY <1>4 DEF OnPacket
  <2>2. Take(p, c, a, <<>>)
    BY <1>4, <2>1 DEF OpenAnswered
  <2>3. Removed(conn[p], app[p], m.ch, c, a)
    BY <1>2, RemovedOf
  <2> HIDE DEF c, a
  <2>4. PeerOK(c, a)
    BY <1>1, <1>2, <2>2, TakePeer
  <2>5. Good(p, c, a, Tail(wire[p]), conn[q], app[q], wire[q], opens)
    BY <1>2, <1>4, <2>3, <2>4, GoodTakeLast
  <2>6. Good(p, c, a, Tail(wire[p]), conn[q], app[q], wire[q] \o <<>>, opens)
    BY <1>3, <2>5
  <2> QED
    BY <1>1, <2>2, <2>6, OrderTake
<1>5. CASE m.t = "OPEN_CONFIRMATION"
  <2> DEFINE c == OnOpenConfirmation(conn[p], m)
             stage == IF p = "c" THEN "idle" ELSE "running"
             a == Staged(p, m.ch, stage)
             x == Chan(p, m.ch)
             y == [app[p][m.ch] EXCEPT !.stage = stage]
             xn == [x EXCEPT !.remote_id = m.from, !.remote_window = m.n,
                             !.remote_max_packet = m.max, !.open_confirmed = TRUE]
  <2>1. OnPacket(conn[p], m) = c
    BY <1>5 DEF OnPacket
  <2>2. Take(p, c, a, <<>>)
    BY <1>5, <2>1 DEF OpenAnswered
  <2>3. m.from \in Ids /\ m.n \in Nat /\ m.max \in Nat
    BY <1>2 DEF Message
  <2>4. /\ xn \in ChannelState /\ xn.tag = x.tag /\ xn.open_confirmed
        /\ xn.remote_id = m.from /\ xn.remote_window = m.n /\ xn.remote_max_packet = m.max
        /\ xn.eof = x.eof /\ xn.closed = x.closed /\ xn.local_window = x.local_window
    BY <1>2, <2>3 DEF ChannelState
  <2>5. y.unread = app[p][m.ch].unread /\ y.stage \in {"idle", "running"}
    BY <1>2 DEF AppState
  <2>6. c = [conn[p] EXCEPT !.channels[m.ch] = xn]
    <3>1. conn[p].channels \in [Tracked(conn[p]) -> ChannelState]
      BY <1>2 DEF PeerOK, IsConnection
    <3> QED
      BY <1>2, <3>1 DEF OnOpenConfirmation, Chan
  <2>7. a = [app[p] EXCEPT ![m.ch] = y]
    BY <1>2 DEF Staged, PeerOK
  <2> HIDE DEF c, a, xn, y, stage
  <2>8. Changed(conn[p], app[p], m.ch, xn, y, c, a)
    BY <1>2, <2>4, <2>6, <2>7, ChangedOf DEF Chan
  <2>9. PeerOK(c, a)
    BY <1>1, <1>2, <2>2, TakePeer
  <2>10. Good(p, c, a, Tail(wire[p]), conn[q], app[q], wire[q], opens)
    BY <1>2, <1>5, <2>4, <2>5, <2>8, <2>9, GoodConfirm DEF Chan
  <2>11. Good(p, c, a, Tail(wire[p]), conn[q], app[q], wire[q] \o <<>>, opens)
    BY <1>3, <2>10
  <2> QED
    BY <1>1, <2>2, <2>11, OrderTake
<1> QED
  BY <1>1, <1>4, <1>5 DEF Answers

LEMMA OrderDataArrives ==
    ASSUME Order, NEW p \in Peers, NEW m, DataArrives(p, m)
    PROVE  Order'
<1> DEFINE x == Chan(p, m.ch)
           y == app[p][m.ch]
           xn == [x EXCEPT !.local_window = @ - m.n]
           yn == [y EXCEPT !.unread = @ + m.n]
           c == [conn[p] EXCEPT !.channels[m.ch].local_window = @ - m.n]
           a == [app[p] EXCEPT ![m.ch].unread = @ + m.n]
<1>1. Inv' /\ Reads(p, m) /\ m.t \in Data /\ m.t \notin Opening /\ m.t # "OPEN"
  BY DataArrivesInv DEF Order, DataArrives, Data, Opening, Answers
<1>2. /\ m \in Message /\ PeerOK(conn[p], app[p]) /\ m.ch \in Tracked(conn[p])
      /\ x \in ChannelState /\ y \in AppState
  BY <1>1, OrderReads
<1>3. x.open_confirmed /\ m.n <= x.local_window
  BY <1>1, OrderFirst
<1>4. m.n \in Nat /\ x.local_window - m.n \in Nat /\ y.unread + m.n \in Nat
  BY <1>2, <1>3 DEF Message, ChannelState, AppState
<1>5. OnPacket(conn[p], m) = c
  BY <1>1 DEF OnPacket, Data
<1>6. Take(p, c, a, <<>>)
  BY <1>5 DEF DataArrives
<1>7. /\ xn \in ChannelState /\ xn.tag = x.tag /\ xn.open_confirmed = x.open_confirmed
      /\ xn.remote_id = x.remote_id /\ xn.remote_max_packet = x.remote_max_packet
      /\ xn.closed = x.closed /\ xn.eof = x.eof /\ x.local_window = xn.local_window + m.n
      /\ xn.remote_window = x.remote_window
  BY <1>2, <1>4 DEF ChannelState
<1>8. yn.unread = y.unread + m.n /\ yn.stage = y.stage
  BY <1>2 DEF AppState
<1>9. c = [conn[p] EXCEPT !.channels[m.ch] = xn] /\ a = [app[p] EXCEPT ![m.ch] = yn]
  BY DEF Chan
<1> HIDE DEF xn, yn, c, a
<1>10. Changed(conn[p], app[p], m.ch, xn, yn, c, a)
  BY <1>2, <1>7, <1>9, ChangedOf DEF Chan
<1>11. Takes(x, y, m, xn, yn)
  <2>1. x.remote_window \in Nat /\ m.t \notin Credit /\ m.t \notin Reply /\ m.t # "EOF" /\ m.t # "CLOSE"
    BY <1>1, <1>2, StateIs DEF Data, Credit, Reply
  <2> HIDE DEF x, y
  <2> QED
    BY <1>1, <1>3, <1>7, <1>8, <2>1 DEF Takes
<1> QED
  BY <1>1, <1>6, <1>10, <1>11, OrderTakes

(* A message that tells p's ConnectionState nothing.                        *)
LEMMA TakesNothing ==
    ASSUME NEW x \in ChannelState, NEW y \in AppState, NEW m, x.open_confirmed,
           m.t \in {"REQUEST", "SUCCESS", "FAILURE"}, NEW yn, yn.unread = y.unread,
           IF m.t \in Reply THEN yn.stage \in {"running", "denied"} ELSE yn.stage = y.stage
    PROVE  Takes(x, y, m, x, yn)
<1>1. x.local_window \in Nat /\ x.remote_window \in Nat /\ y.unread \in Nat
  BY DEF ChannelState, AppState
<1>2. m.t \notin Opening /\ m.t \notin Data /\ m.t \notin Credit /\ m.t # "EOF" /\ m.t # "CLOSE"
  BY DEF Opening, Answers, Data, Credit
<1> QED
  BY <1>1, <1>2 DEF Takes

LEMMA OrderRequestArrives ==
    ASSUME Order, NEW p \in Peers, NEW m, RequestArrives(p, m)
    PROVE  Order'
<1> DEFINE q == Other(p)
           x == Chan(p, m.ch)
           y == app[p][m.ch]
           yn == [y EXCEPT !.stage = "running"]
           no == Msg("FAILURE", x, 0)
           yes == Msg("SUCCESS", x, 0)
           a == Staged(p, m.ch, "running")
<1>1. Inv' /\ Reads(p, m) /\ m.t = "REQUEST" /\ m.t \notin Opening /\ m.t # "OPEN"
  BY RequestArrivesInv DEF Order, RequestArrives, Opening, Answers
<1>2. /\ ReadsFirst(p, conn[p], app[p], wire[p], conn[q], app[q], wire[q], opens, m) /\ Inv
      /\ wire[q] \in Seq(Message) /\ m \in Message /\ PeerOK(conn[p], app[p])
      /\ m.ch \in Tracked(conn[p]) /\ x \in ChannelState /\ y \in AppState /\ x.tag = m.tag
  BY <1>1, OrderReads
<1>3. x.open_confirmed
  BY <1>1, OrderFirst
<1>4. /\ no \in Message /\ no.tag = m.tag /\ no.t \in Reply /\ no.ch = x.remote_id /\ ~no.want
      /\ yes \in Message /\ yes.tag = m.tag /\ yes.t \in Reply /\ yes.ch = x.remote_id /\ ~yes.want
  BY <1>2, MsgIs DEF MsgTypes, Reply
<1>5. Changed(conn[p], app[p], m.ch, x, y, conn[p], app[p])
  BY <1>2 DEF Changed, Chan
<1>6. Changed(conn[p], app[p], m.ch, x, yn, conn[p], a)
  <2>1. a = [app[p] EXCEPT ![m.ch] = yn]
    BY <1>2 DEF Staged, PeerOK
  <2> HIDE DEF a, yn
  <2> QED
    BY <1>2, <2>1, ChangedStage DEF Chan
<1>7. yn.unread = y.unread /\ yn.stage = "running"
  BY <1>2 DEF AppState
<1>8. \/ ~m.want /\ Take(p, conn[p], app[p], <<>>)
      \/ m.want /\ Take(p, conn[p], app[p], <<no>>)
      \/ m.want /\ Take(p, conn[p], a, <<yes>>)
  BY DEF RequestArrives
<1> HIDE DEF no, yes, a, yn
<1>9. CASE ~m.want /\ Take(p, conn[p], app[p], <<>>)
  <2>1. Takes(x, y, m, x, y)
    <3> HIDE DEF x, y
    <3> QED
      BY <1>1, <1>2, <1>3, TakesNothing DEF Reply
  <2> QED
    BY <1>1, <1>5, <1>9, <2>1, OrderTakes
<1>10. CASE m.want /\ Take(p, conn[p], app[p], <<no>>)
  <2>1. Good(p, conn[p], app[p], Tail(wire[p]), conn[q], app[q], Append(wire[q], no), opens)
    BY <1>1, <1>2, <1>4, <1>5, <1>10, GoodAnswer DEF Chan
  <2>2. wire[q] \o <<no>> = Append(wire[q], no)
    BY <1>2, <1>4, OneMore
  <2>3. Good(p, conn[p], app[p], Tail(wire[p]), conn[q], app[q], wire[q] \o <<no>>, opens)
    BY <2>1, <2>2
  <2> QED
    BY <1>1, <1>10, <2>3, OrderTake
<1>11. CASE m.want /\ Take(p, conn[p], a, <<yes>>)
  <2>0. PeerOK(conn[p], a)
    BY <1>1, <1>2, <1>11, TakePeer
  <2>1. Good(p, conn[p], a, Tail(wire[p]), conn[q], app[q], Append(wire[q], yes), opens)
    BY <1>1, <1>2, <1>4, <1>6, <1>7, <1>11, <2>0, GoodAnswer DEF Chan
  <2>2. wire[q] \o <<yes>> = Append(wire[q], yes)
    BY <1>2, <1>4, OneMore
  <2>3. Good(p, conn[p], a, Tail(wire[p]), conn[q], app[q], wire[q] \o <<yes>>, opens)
    BY <2>1, <2>2
  <2> QED
    BY <1>1, <1>11, <2>3, OrderTake
<1> QED
  BY <1>8, <1>9, <1>10, <1>11

LEMMA OrderReplyArrives ==
    ASSUME Order, NEW p \in Peers, NEW m, ReplyArrives(p, m)
    PROVE  Order'
<1> DEFINE x == Chan(p, m.ch)
           y == app[p][m.ch]
           stage == IF m.t = "SUCCESS" THEN "running" ELSE "denied"
           yn == [y EXCEPT !.stage = stage]
           a == Staged(p, m.ch, stage)
<1>1. /\ Inv' /\ Reads(p, m) /\ m.t \in Reply /\ m.t \notin Opening /\ m.t # "OPEN"
      /\ Take(p, conn[p], a, <<>>)
  BY ReplyArrivesInv DEF Order, ReplyArrives, Opening, Answers, Reply
<1>2. /\ m \in Message /\ PeerOK(conn[p], app[p])
      /\ m.ch \in Tracked(conn[p]) /\ x \in ChannelState /\ y \in AppState
  BY <1>1, OrderReads
<1>3. x.open_confirmed
  BY <1>1, OrderFirst
<1>4. Changed(conn[p], app[p], m.ch, x, yn, conn[p], a)
  <2>1. a = [app[p] EXCEPT ![m.ch] = yn]
    BY <1>2 DEF Staged, PeerOK
  <2> HIDE DEF a, yn
  <2> QED
    BY <1>2, <2>1, ChangedStage DEF Chan
<1>5. yn.unread = y.unread /\ yn.stage \in {"running", "denied"}
  BY <1>2 DEF AppState
<1>6. Takes(x, y, m, x, yn)
  <2> HIDE DEF x, y, yn
  <2> QED
    BY <1>1, <1>2, <1>3, <1>5, TakesNothing DEF Reply
<1> HIDE DEF a, yn
<1> QED
  BY <1>1, <1>4, <1>6, OrderTakes

LEMMA OrderCloseArrives ==
    ASSUME Order, NEW p \in Peers, NEW m, CloseArrives(p, m)
    PROVE  Order'
<1> DEFINE q == Other(p)
           x == Chan(p, m.ch)
           y == app[p][m.ch]
           c == OnChannelClose(conn[p], m)
           ack == SendClose(c, m.ch)
           z == Msg("CLOSE", x, 0)
           xn == [x EXCEPT !.closed = @ \cup {"remote"}]
<1>1. Inv' /\ Reads(p, m) /\ m.t = "CLOSE" /\ m.t \notin Opening /\ m.t # "OPEN"
  BY CloseArrivesInv DEF Order, CloseArrives, Opening, Answers
<1>2. /\ ReadsFirst(p, conn[p], app[p], wire[p], conn[q], app[q], wire[q], opens, m) /\ Inv
      /\ wire[q] \in Seq(Message) /\ m \in Message /\ PeerOK(conn[p], app[p])
      /\ m.ch \in Tracked(conn[p]) /\ x \in ChannelState /\ y \in AppState /\ x.tag = m.tag
  BY <1>1, OrderReads
<1>3. x.open_confirmed
  BY <1>1, OrderFirst
<1>4. OnPacket(conn[p], m) = c
  BY <1>1 DEF OnPacket
<1>5. \/ "local" \in x.closed /\ Take(p, c, Kept(app[p], c), <<>>)
      \/ /\ "local" \notin x.closed /\ (p = "c" => Stage(p, m.ch) = "running")
         /\ Take(p, ack, Kept(app[p], ack), <<z>>)
      \/ "local" \notin x.closed /\ Take(p, c, app[p], <<>>)
  <2>1. p = "s" \/ Stage(p, m.ch) = "running" => (p = "c" => Stage(p, m.ch) = "running")
    OBVIOUS
  <2> QED
    BY <1>4, <2>1 DEF CloseArrives
<1>6. CASE "local" \in x.closed /\ Take(p, c, Kept(app[p], c), <<>>)
  <2>1. c = Remove(conn[p], m.ch)
    BY <1>6 DEF OnChannelClose, Chan
  <2>2. Removed(conn[p], app[p], m.ch, c, Kept(app[p], c))
    BY <1>2, <2>1, RemovedOf
  <2> HIDE DEF c
  <2>3. PeerOK(c, Kept(app[p], c))
    BY <1>1, <1>2, <1>6, TakePeer
  <2>4. Good(p, c, Kept(app[p], c), Tail(wire[p]), conn[q], app[q], wire[q], opens)
    BY <1>1, <1>2, <1>6, <2>2, <2>3, GoodTakeLast DEF Chan
  <2>5. wire[q] \o <<>> = wire[q]
    BY <1>2
  <2>6. Good(p, c, Kept(app[p], c), Tail(wire[p]), conn[q], app[q], wire[q] \o <<>>, opens)
    BY <2>4, <2>5
  <2> QED
    BY <1>1, <1>6, <2>6, OrderTake
<1>7. ASSUME "local" \notin x.closed
      PROVE  /\ Good(p, c, app[p], Tail(wire[p]), conn[q], app[q], wire[q], opens)
             /\ m.ch \in Tracked(c) /\ c.channels[m.ch] = xn
  <2>1. c = [conn[p] EXCEPT !.channels[m.ch] = xn]
    BY <1>7 DEF OnChannelClose, Chan
  <2>2. /\ xn \in ChannelState /\ xn.tag = x.tag /\ xn.open_confirmed = x.open_confirmed
        /\ xn.remote_id = x.remote_id /\ xn.remote_max_packet = x.remote_max_packet
        /\ xn.closed = x.closed \cup {"remote"} /\ xn.eof = x.eof
        /\ xn.local_window = x.local_window /\ xn.remote_window = x.remote_window
    BY <1>2 DEF ChannelState, Sides
  <2>3. PeerOK(c, app[p])
    BY <1>2, <1>7, OnChannelCloseOK DEF Chan
  <2>4. Changed(conn[p], app[p], m.ch, xn, y, c, app[p])
    <3> HIDE DEF xn, c
    <3> QED
      BY <1>2, <2>1, <2>2, ChangedChannel DEF Chan
  <2>5. Takes(x, y, m, xn, y)
    <3>1. x.local_window \in Nat /\ x.remote_window \in Nat /\ y.unread \in Nat
      BY <1>2 DEF ChannelState, AppState
    <3> HIDE DEF x, y, xn
    <3> QED
      BY <1>1, <1>3, <2>2, <3>1 DEF Takes, Data, Credit, Reply
  <2> HIDE DEF xn, c
  <2>6. Good(p, c, app[p], Tail(wire[p]), conn[q], app[q], wire[q], opens)
    BY <1>2, <2>3, <2>4, <2>5, GoodTake DEF Chan
  <2> QED
    BY <2>4, <2>6 DEF Changed
<1>8. CASE /\ "local" \notin x.closed /\ (p = "c" => Stage(p, m.ch) = "running")
           /\ Take(p, ack, Kept(app[p], ack), <<z>>)
  <2>1. /\ c.channels[m.ch].open_confirmed /\ c.channels[m.ch].remote_id = x.remote_id
        /\ c.channels[m.ch].tag = x.tag /\ "local" \notin c.channels[m.ch].closed
    <3> HIDE DEF c
    <3> QED
      BY <1>2, <1>3, <1>7, <1>8 DEF ChannelState
  <2>2. Msg("CLOSE", c.channels[m.ch], 0) = z
    BY <2>1 DEF Msg
  <2>3. z \in Message
    BY <1>2, MsgIs DEF MsgTypes
  <2>4. Good(p, ack, Kept(app[p], ack), Tail(wire[p]), conn[q], app[q], Append(wire[q], z), opens)
    <3> HIDE DEF c, z
    <3>1. Good(p, SendClose(c, m.ch), Kept(app[p], SendClose(c, m.ch)), Tail(wire[p]), conn[q],
               app[q], Append(wire[q], Msg("CLOSE", c.channels[m.ch], 0)), opens)
      BY <1>7, <1>8, <2>1, GoodClose DEF Stage
    <3> QED
      BY <2>2, <3>1
  <2> HIDE DEF ack, z
  <2>5. wire[q] \o <<z>> = Append(wire[q], z)
    BY <1>2, <2>3, OneMore
  <2>6. Good(p, ack, Kept(app[p], ack), Tail(wire[p]), conn[q], app[q], wire[q] \o <<z>>, opens)
    BY <2>4, <2>5
  <2> QED
    BY <1>1, <1>8, <2>6, OrderTake
<1>9. CASE "local" \notin x.closed /\ Take(p, c, app[p], <<>>)
  <2> HIDE DEF c
  <2>1. wire[q] \o <<>> = wire[q]
    BY <1>2
  <2>2. Good(p, c, app[p], Tail(wire[p]), conn[q], app[q], wire[q] \o <<>>, opens)
    BY <1>7, <1>9, <2>1
  <2> QED
    BY <1>1, <1>9, <2>2, OrderTake
<1> QED
  BY <1>5, <1>6, <1>8, <1>9

LEMMA OrderOtherArrives ==
    ASSUME Order, NEW p \in Peers, NEW m, OtherArrives(p, m)
    PROVE  Order'
<1> DEFINE q == Other(p)
           x == Chan(p, m.ch)
           y == app[p][m.ch]
           c == OnPacket(conn[p], m)
<1>1. Inv' /\ Inv /\ wire[p] # <<>> /\ m = Head(wire[p]) /\ err = "none"
  BY OtherArrivesInv DEF Order, OtherArrives
<1>2. /\ Good(p, conn[p], app[p], wire[p], conn[q], app[q], wire[q], opens)
      /\ ReadsFirst(p, conn[p], app[p], wire[p], conn[q], app[q], wire[q], opens, m)
  BY <1>1, OrderFor DEF ReadsFirst
<1>3. PacketError(conn[p], m) = "none"
  BY <1>2, GoodPacket
<1>4. Reads(p, m) /\ m.t \in {"WINDOW_ADJUST", "EOF"} /\ m.t \notin Opening /\ m.t # "OPEN"
  BY <1>1, <1>3 DEF Reads, OtherArrives, Opening, Answers
<1>5. /\ conn'[p] = c /\ app'[p] = app[p] /\ wire'[p] = Tail(wire[p])
      /\ conn'[q] = conn[q] /\ app'[q] = app[q] /\ wire'[q] = wire[q]
      /\ opens' = opens /\ err' = "none"
  <2>1. DOMAIN conn = Peers /\ DOMAIN wire = Peers /\ q \in Peers /\ q # p
    BY <1>1, OtherOther DEF Inv, RestOK
  <2> QED
    BY <1>1, <1>3, <2>1 DEF OtherArrives
<1>6. /\ m \in Message /\ PeerOK(conn[p], app[p]) /\ m.ch \in Tracked(conn[p])
      /\ x \in ChannelState /\ y \in AppState
  BY <1>4, OrderReads
<1>7. x.open_confirmed
  BY <1>4, OrderFirst
<1>8. x.local_window \in Nat /\ x.remote_window \in Nat /\ y.unread \in Nat /\ m.n \in Nat
  BY <1>6 DEF ChannelState, AppState, Message
<1>9. SUFFICES \E xn : Changed(conn[p], app[p], m.ch, xn, y, c, app[p]) /\ Takes(x, y, m, xn, y)
  <2> SUFFICES ASSUME NEW xn, Changed(conn[p], app[p], m.ch, xn, y, c, app[p]),
                      Takes(x, y, m, xn, y)
               PROVE  Order'
    OBVIOUS
  <2> HIDE DEF c
  <2>1. PeerOK(c, app[p])
    BY <1>1, <1>5 DEF Inv
  <2>2. Good(p, c, app[p], Tail(wire[p]), conn[q], app[q], wire[q], opens)
    BY <1>2, <2>1, GoodTake DEF Chan
  <2> QED
    BY <1>1, <1>5, <2>2, OrderNext
<1>11. CASE m.t = "EOF"
  <2> DEFINE xn == [x EXCEPT !.eof = @ \cup {"remote"}]
  <2>1. c = [conn[p] EXCEPT !.channels[m.ch] = xn]
    BY <1>11 DEF OnPacket, Chan
  <2>2. /\ xn \in ChannelState /\ xn.tag = x.tag /\ xn.open_confirmed = x.open_confirmed
        /\ xn.remote_id = x.remote_id /\ xn.remote_max_packet = x.remote_max_packet
        /\ xn.eof = x.eof \cup {"remote"} /\ xn.closed = x.closed
        /\ xn.local_window = x.local_window /\ xn.remote_window = x.remote_window
    BY <1>6 DEF ChannelState, Sides
  <2> HIDE DEF xn, c
  <2>3. Changed(conn[p], app[p], m.ch, xn, y, c, app[p])
    BY <1>6, <2>1, <2>2, ChangedChannel DEF Chan
  <2>4. Takes(x, y, m, xn, y)
    <3> HIDE DEF x, y
    <3> QED
      BY <1>4, <1>7, <1>8, <1>11, <2>2 DEF Takes, Data, Credit, Reply
  <2> QED
    BY <2>3, <2>4
<1>10. CASE m.t = "WINDOW_ADJUST"
  <2> DEFINE xn == [x EXCEPT !.remote_window = @ + m.n]
  <2>1. c = [conn[p] EXCEPT !.channels[m.ch] = xn]
    BY <1>10 DEF OnPacket, Chan
  <2>2. /\ xn \in ChannelState /\ xn.tag = x.tag /\ xn.open_confirmed = x.open_confirmed
        /\ xn.remote_id = x.remote_id /\ xn.remote_max_packet = x.remote_max_packet
        /\ xn.eof = x.eof /\ xn.closed = x.closed
        /\ xn.local_window = x.local_window /\ xn.remote_window = x.remote_window + m.n
    BY <1>6, <1>8 DEF ChannelState, Sides
  <2> HIDE DEF xn, c
  <2>3. Changed(conn[p], app[p], m.ch, xn, y, c, app[p])
    BY <1>6, <2>1, <2>2, ChangedChannel DEF Chan
  <2>4. Takes(x, y, m, xn, y)
    <3> HIDE DEF x, y
    <3> QED
      BY <1>4, <1>7, <1>8, <1>10, <2>2 DEF Takes, Data, Credit, Reply
  <2> QED
    BY <2>3, <2>4
<1> QED
  BY <1>4, <1>10, <1>11

LEMMA OrderReceive ==
    ASSUME Order, NEW p \in Peers, Receive(p)
    PROVE  Order'
<1>1. PICK m : \/ RefuseOpen(p, m) \/ AcceptRequest(p, m) \/ RejectRequest(p, m)
               \/ OpenAnswered(p, m) \/ DataArrives(p, m) \/ RequestArrives(p, m)
               \/ ReplyArrives(p, m) \/ CloseArrives(p, m) \/ OtherArrives(p, m)
  BY DEF Receive
<1> QED
  BY <1>1, OrderRefuseOpen, OrderAcceptRequest, OrderRejectRequest, OrderOpenAnswered,
     OrderDataArrives, OrderRequestArrives, OrderReplyArrives, OrderCloseArrives,
     OrderOtherArrives

---------------------------------------------------------------------------
LEMMA StartsBlank ==
    ASSUME NEW t
    PROVE  /\ Own(NewConnection, <<>>, t) = Nothing /\ Distinct(NewConnection)
           /\ Blank(Own(NewConnection, <<>>, t), Stream(<<>>, t))
<1>1. Tracked(NewConnection) = {}
  BY DEF Tracked, NewConnection
<1>2. Own(NewConnection, <<>>, t) = Nothing /\ Distinct(NewConnection)
  BY <1>1 DEF Own, At, Distinct
<1>3. <<>> \in Seq(Message) /\ Len(<<>>) = 0
  OBVIOUS
<1>4. Stream(<<>>, t).S = {} /\ Stream(<<>>, t).B = {}
  BY <1>3 DEF Stream
<1>5. ASSUME NEW kinds PROVE InFlight(<<>>, t, kinds) = 0
  <2>1. PICK f : Sums(<<>>, t, kinds, f) /\ InFlight(<<>>, t, kinds) = f[Len(<<>>)]
    BY <1>3, InFlightSums
  <2>2. f[0] = 0
    BY <1>3, <2>1, SumsNat
  <2> QED
    BY <1>3, <2>1, <2>2
<1>6. Stream(<<>>, t).D = 0 /\ Stream(<<>>, t).J = 0
  BY <1>5 DEF Stream
<1> QED
  BY <1>2, <1>4, <1>6 DEF Blank, Nothing

LEMMA InitOrder == Init => Order
<1> SUFFICES ASSUME Init PROVE Order
  OBVIOUS
<1>1. Inv /\ err = "none" /\ opens = 0 /\ "c" \in Peers /\ "s" \in Peers
  BY InitInv DEF Init, Peers
<1>2. /\ conn["c"] = NewConnection /\ app["c"] = <<>> /\ wire["c"] = <<>>
      /\ conn["s"] = NewConnection /\ app["s"] = <<>> /\ wire["s"] = <<>>
  BY <1>1 DEF Init
<1>3. PeerOK(NewConnection, <<>>)
  BY <1>1, <1>2 DEF Inv
<1>4. <<>> \in Seq(Message) /\ 0 \in Nat
  OBVIOUS
<1>5. ASSUME NEW t
      PROVE  /\ Blank(Own(NewConnection, <<>>, t), Stream(<<>>, t))
             /\ Pair("c", Own(NewConnection, <<>>, t), Own(NewConnection, <<>>, t),
                     Stream(<<>>, t), Stream(<<>>, t))
  <2>1. Typed(Own(NewConnection, <<>>, t), Stream(<<>>, t))
    BY <1>3, <1>4, TypedIs
  <2>2. Blank(Own(NewConnection, <<>>, t), Stream(<<>>, t))
    BY StartsBlank
  <2> QED
    BY <1>1, <2>1, <2>2, BlankPair
<1>6. Distinct(NewConnection)
  BY StartsBlank
<1>7. Good("c", NewConnection, <<>>, <<>>, NewConnection, <<>>, <<>>, 0)
  BY <1>3, <1>4, <1>5, <1>6 DEF Good
<1> QED
  BY <1>1, <1>2, <1>7 DEF Order

LEMMA NextOrder == Order /\ [Next]_vars => Order'
<1> SUFFICES ASSUME Order, [Next]_vars PROVE Order'
  OBVIOUS
<1>1. CASE UNCHANGED vars
  <2>1. Inv'
    BY NextInv DEF Order
  <2> QED
    BY <1>1, <2>1, OrderSame DEF vars
<1>2. ASSUME NEW p \in Peers, Open(p) \/ Receive(p) PROVE Order'
  BY <1>2, OrderOpen, OrderReceive
<1>3. ASSUME NEW id \in Ids,
             StartRequest(id) \/ WindowChange(id) \/ FinalizeExited(id) \/ CloseIdle(id)
      PROVE  Order'
  BY <1>3, OrderStartRequest, OrderWindowChange, OrderFinalizeExited, OrderCloseIdle
<1>4. ASSUME NEW p \in Peers, NEW id \in Ids, HalfClose(p, id) \/ Close(p, id) PROVE Order'
  BY <1>4, OrderHalfClose, OrderClose
<1>5. ASSUME NEW p \in Peers, NEW id \in Ids, NEW n \in 1 .. MaxWrite,
             WriteData(p, id, n) \/ WriteDatagram(p, id, n)
      PROVE  Order'
  BY <1>5, OrderWriteData, OrderWriteDatagram
<1>6. ASSUME NEW id \in Ids, NEW n \in 1 .. MaxWrite, WriteStderr(id, n) PROVE Order'
  BY <1>6, OrderWriteStderr
<1>7. ASSUME NEW p \in Peers, NEW id \in Ids, NEW k \in 1 .. Window, Consume(p, id, k) PROVE Order'
  BY <1>7, OrderConsume
<1> QED
  BY <1>1, <1>2, <1>3, <1>4, <1>5, <1>6, <1>7 DEF Next

(* No message either side sends makes the other's on_packet return an      *)
(* error, whatever crosses on the wire: no window is exceeded, nothing      *)
(* comes for a channel that is gone, or before its open is answered, and no *)
(* data after its EOF or CLOSE (state.rs, every Err of on_packet).          *)
THEOREM NoError == Spec => []NoPacketError
<1>1. Order => NoPacketError
  BY DEF Order, NoPacketError
<1> QED
  BY <1>1, InitOrder, NextOrder, PTL DEF Spec

(* What is on its way to a channel is for the open it was sent on: an id is *)
(* not reused while a message for the old channel is under way (send_close  *)
(* and on_channel_close drop an entry when both sides have closed,          *)
(* allocate_local_id takes the id again).                                   *)
THEOREM WellAddressed == Spec => []Addressed
<1>1. Order => Addressed
  <2> SUFFICES ASSUME Order, NEW p \in Peers, NEW i \in DOMAIN wire[p], wire[p][i].t # "OPEN"
               PROVE  /\ wire[p][i].ch \in Tracked(conn[p])
                      /\ Chan(p, wire[p][i].ch).tag = wire[p][i].tag
    BY DEF Addressed
  <2> DEFINE m == wire[p][i]
             q == Other(p)
  <2>1. /\ Good(p, conn[p], app[p], wire[p], conn[q], app[q], wire[q], opens) /\ Inv
        /\ wire[p] \in Seq(Message)
    BY OrderFor, PeerFacts
  <2>2. m \in Message /\ i \in 1 .. Len(wire[p])
    BY <2>1
  <2>3. m.tag \in Nat /\ m.t # "OPEN"
    BY <2>2 DEF Message
  <2>4. m \in Stream(wire[p], m.tag).S
    BY <2>1, <2>2, StreamIs
  <2> HIDE DEF m
  <2>5. /\ m.ch \in Tracked(conn[p]) /\ conn[p].channels[m.ch].tag = m.tag
        /\ Has(Own(conn[p], app[p], m.tag), m.ch, conn[p].channels[m.ch], app[p][m.ch])
    BY <2>1, <2>3, <2>4, GoodFor
  <2> QED
    BY <2>5 DEF m, Chan
<1> QED
  BY <1>1, InitOrder, NextOrder, PTL DEF Spec

(* Flow control loses no credit and invents none: what a receiver will      *)
(* still take is what the sender may still send, the data on its way and    *)
(* the credit on its way back (send_data, on_channel_data,                  *)
(* replenish_window, on_window_adjust).                                     *)
THEOREM FlowControl == Spec => []WindowsAgree
<1>1. Order => WindowsAgree
  <2> SUFFICES ASSUME Order, NEW p \in Peers, NEW i \in Tracked(conn[p]),
                      NEW j \in Tracked(conn[Other(p)]), Chan(p, i).tag = Chan(Other(p), j).tag,
                      Chan(p, i).open_confirmed, Chan(Other(p), j).open_confirmed
               PROVE  Chan(p, i).local_window
                      = Chan(Other(p), j).remote_window
                        + InFlight(wire[p], Chan(p, i).tag, {"DATA", "EXTENDED_DATA"})
                        + InFlight(wire[Other(p)], Chan(p, i).tag, {"WINDOW_ADJUST"})
    BY DEF WindowsAgree
  <2> DEFINE q == Other(p)
             t == Chan(p, i).tag
             h == Own(conn[p], app[p], t)
             g == Own(conn[q], app[q], t)
             w == Stream(wire[p], t)
             v == Stream(wire[q], t)
  <2>1. /\ Good(p, conn[p], app[p], wire[p], conn[q], app[q], wire[q], opens) /\ Inv
        /\ wire[p] \in Seq(Message) /\ q \in Peers /\ wire[q] \in Seq(Message)
    BY OrderFor, PeerFacts
  <2>2. Has(h, i, Chan(p, i), app[p][i]) /\ Pair(p, h, g, w, v)
    BY <2>1, GoodHas DEF Chan
  <2>3. Has(g, j, Chan(q, j), app[q][j])
    <3>1. Distinct(conn[q])
      BY <2>1 DEF Good
    <3>2. Has(Own(conn[q], app[q], conn[q].channels[j].tag), j, conn[q].channels[j], app[q][j])
      BY <3>1, OwnHas
    <3> QED
      BY <3>2 DEF Chan
  <2>4. /\ w.D = InFlight(wire[p], t, {"DATA", "EXTENDED_DATA"})
        /\ v.J = InFlight(wire[q], t, {"WINDOW_ADJUST"})
    BY DEF Stream, Data, Credit
  <2> HIDE DEF h, g, w, v, t
  <2>5. Ends(h, g, w, v)
    BY <2>2 DEF Pair, Half
  <2>6. h.x.local_window = g.x.remote_window + w.D + v.J
    BY <2>2, <2>3, <2>5 DEF Ends, Has
  <2> QED
    BY <2>2, <2>3, <2>4, <2>6 DEF Has, t
<1> QED
  BY <1>1, InitOrder, NextOrder, PTL DEF Spec

---------------------------------------------------------------------------
(* The limit on what the peer may open.  Every step but the acceptance of  *)
(* an open leaves the peer's channels as they are or takes one away.       *)

Theirs(c) == {i \in Tracked(c) : ~c.channels[i].initiated_by_us}

Limit == Inv /\ LimitHolds

LEMMA TheirsStay ==
    ASSUME NEW c, NEW a, PeerOK(c, a), NEW id \in Tracked(c), NEW x,
           x.initiated_by_us = c.channels[id].initiated_by_us
    PROVE  Theirs([c EXCEPT !.channels[id] = x]) \subseteq Theirs(c)
<1> DEFINE d == [c EXCEPT !.channels[id] = x]
<1>1. d.channels = [c.channels EXCEPT ![id] = x]
  BY DEF PeerOK, IsConnection
<1>2. Tracked(d) = Tracked(c) /\ d.channels[id] = x
      /\ \A j \in Tracked(c) : j # id => d.channels[j] = c.channels[j]
  BY <1>1 DEF Tracked
<1> HIDE DEF d
<1>3. Theirs(d) \subseteq Theirs(c)
  BY <1>2 DEF Theirs
<1> QED
  BY <1>3 DEF d

LEMMA TheirsGo ==
    ASSUME NEW c, NEW a, PeerOK(c, a), NEW id
    PROVE  Theirs(Remove(c, id)) \subseteq Theirs(c)
<1> DEFINE d == Remove(c, id)
<1>1. d.channels = [j \in Tracked(c) \ {id} |-> c.channels[j]]
  BY DEF PeerOK, IsConnection, Remove
<1>2. Tracked(d) \subseteq Tracked(c) /\ \A j \in Tracked(d) : d.channels[j] = c.channels[j]
  BY <1>1 DEF Tracked
<1> HIDE DEF d
<1>3. Theirs(d) \subseteq Theirs(c)
  BY <1>2 DEF Theirs
<1> QED
  BY <1>3 DEF d

LEMMA TheirsSend ==
    ASSUME NEW c, NEW a, PeerOK(c, a), NEW id \in Tracked(c), NEW n
    PROVE  /\ Theirs(SendData(c, id, n)) \subseteq Theirs(c)
           /\ Theirs(SendEof(c, id)) \subseteq Theirs(c)
           /\ Theirs(SendClose(c, id)) \subseteq Theirs(c)
           /\ Theirs(ReplenishWindow(c, id, n)) \subseteq Theirs(c)
<1> DEFINE x == c.channels[id]
           sent == [x EXCEPT !.remote_window = @ - n]
           eof == [x EXCEPT !.eof = @ \cup {"local"}]
           closed == [x EXCEPT !.closed = @ \cup {"local"}]
           flushed == [x EXCEPT !.pending_replenish = 0, !.local_window = @ + x.pending_replenish + n]
           counted == [x EXCEPT !.pending_replenish = @ + n]
<1>1. x \in ChannelState /\ c.channels \in [Tracked(c) -> ChannelState]
  BY ChannelOK DEF PeerOK, IsConnection
<1>2. /\ sent.initiated_by_us = x.initiated_by_us /\ eof.initiated_by_us = x.initiated_by_us
      /\ closed.initiated_by_us = x.initiated_by_us
      /\ flushed.initiated_by_us = x.initiated_by_us
      /\ counted.initiated_by_us = x.initiated_by_us
  BY <1>1 DEF ChannelState
<1>3. /\ SendData(c, id, n) = [c EXCEPT !.channels[id] = sent]
      /\ SendEof(c, id) = [c EXCEPT !.channels[id] = eof]
      /\ SendClose(c, id) \in {Remove(c, id), [c EXCEPT !.channels[id] = closed]}
  BY DEF SendData, SendEof, SendClose
<1>4. ReplenishWindow(c, id, n) \in {c, [c EXCEPT !.channels[id] = flushed],
                                     [c EXCEPT !.channels[id] = counted]}
  <2>1. [c EXCEPT !.channels[id].pending_replenish = 0,
                  !.channels[id].local_window = @ + c.channels[id].pending_replenish + n]
        = [c EXCEPT !.channels[id] = flushed]
    BY <1>1
  <2>2. [c EXCEPT !.channels[id].pending_replenish = @ + n] = [c EXCEPT !.channels[id] = counted]
    OBVIOUS
  <2> HIDE DEF flushed, counted
  <2> QED
    BY <2>1, <2>2 DEF ReplenishWindow
<1> HIDE DEF sent, eof, closed, flushed, counted
<1>5. Theirs(SendData(c, id, n)) \subseteq Theirs(c)
  BY <1>2, <1>3, TheirsStay
<1>6. Theirs(SendEof(c, id)) \subseteq Theirs(c)
  BY <1>2, <1>3, TheirsStay
<1>7. Theirs(SendClose(c, id)) \subseteq Theirs(c)
  BY <1>2, <1>3, TheirsStay, TheirsGo
<1>8. Theirs(ReplenishWindow(c, id, n)) \subseteq Theirs(c)
  BY <1>2, <1>4, TheirsStay
<1> QED
  BY <1>5, <1>6, <1>7, <1>8

LEMMA TheirsRead ==
    ASSUME NEW c, NEW a, PeerOK(c, a), NEW m, m.ch \in Tracked(c)
    PROVE  Theirs(OnPacket(c, m)) \subseteq Theirs(c)
<1> DEFINE id == m.ch
           x == c.channels[id]
           confirmed == [x EXCEPT !.remote_id = m.from, !.remote_window = m.n,
                                  !.remote_max_packet = m.max, !.open_confirmed = TRUE]
           grown == [x EXCEPT !.remote_window = @ + m.n]
           taken == [x EXCEPT !.local_window = @ - m.n]
           eof == [x EXCEPT !.eof = @ \cup {"remote"}]
           closed == [x EXCEPT !.closed = @ \cup {"remote"}]
<1>1. x \in ChannelState /\ c.channels \in [Tracked(c) -> ChannelState] /\ id \in Tracked(c)
  BY ChannelOK DEF PeerOK, IsConnection
<1>2. /\ confirmed.initiated_by_us = x.initiated_by_us /\ grown.initiated_by_us = x.initiated_by_us
      /\ taken.initiated_by_us = x.initiated_by_us /\ eof.initiated_by_us = x.initiated_by_us
      /\ closed.initiated_by_us = x.initiated_by_us
  BY <1>1 DEF ChannelState
<1>3. OnOpenConfirmation(c, m) = [c EXCEPT !.channels[id] = confirmed]
  BY <1>1 DEF OnOpenConfirmation
<1>4. /\ [c EXCEPT !.channels[m.ch].remote_window = @ + m.n] = [c EXCEPT !.channels[id] = grown]
      /\ [c EXCEPT !.channels[m.ch].local_window = @ - m.n] = [c EXCEPT !.channels[id] = taken]
      /\ [c EXCEPT !.channels[m.ch].eof = @ \cup {"remote"}] = [c EXCEPT !.channels[id] = eof]
  OBVIOUS
<1>5. OnChannelClose(c, m) \in {Remove(c, id), [c EXCEPT !.channels[id] = closed]}
  BY DEF OnChannelClose
<1> HIDE DEF confirmed, grown, taken, eof, closed
<1>6. OnPacket(c, m) \in {c, Remove(c, id), [c EXCEPT !.channels[id] = confirmed],
                          [c EXCEPT !.channels[id] = grown], [c EXCEPT !.channels[id] = taken],
                          [c EXCEPT !.channels[id] = eof], [c EXCEPT !.channels[id] = closed]}
  BY <1>3, <1>4, <1>5 DEF OnPacket
<1>7. /\ Theirs([c EXCEPT !.channels[id] = confirmed]) \subseteq Theirs(c)
      /\ Theirs([c EXCEPT !.channels[id] = grown]) \subseteq Theirs(c)
      /\ Theirs([c EXCEPT !.channels[id] = taken]) \subseteq Theirs(c)
      /\ Theirs([c EXCEPT !.channels[id] = eof]) \subseteq Theirs(c)
      /\ Theirs([c EXCEPT !.channels[id] = closed]) \subseteq Theirs(c)
  BY <1>1, <1>2, TheirsStay
<1>8. Theirs(Remove(c, id)) \subseteq Theirs(c)
  BY TheirsGo
<1> QED
  BY <1>6, <1>7, <1>8

LEMMA TheirsFinite ==
    ASSUME NEW c, NEW a, PeerOK(c, a)
    PROVE  /\ IsFiniteSet(Tracked(c)) /\ IsFiniteSet(Theirs(c))
           /\ Cardinality(Tracked(c)) \in Nat /\ Cardinality(Theirs(c)) \in Nat
<1>1. 0 \in Int /\ IdMod - 1 \in Int
  BY IdAssumption
<1>2. IsFiniteSet(Ids)
  BY <1>1, FS_Interval DEF Ids
<1>3. Tracked(c) \subseteq Ids /\ Theirs(c) \subseteq Tracked(c)
  BY DEF PeerOK, IsConnection, Theirs
<1>4. IsFiniteSet(Tracked(c))
  BY <1>2, <1>3, FS_Subset
<1>5. IsFiniteSet(Theirs(c))
  BY <1>3, <1>4, FS_Subset
<1> QED
  BY <1>4, <1>5, FS_CardinalityType

LEMMA LimitIs == LimitHolds <=> \A p \in Peers : Cardinality(Theirs(conn[p])) <= MaxChannels
BY DEF LimitHolds, Theirs, Chan

(* A step of p after which it has no more than c, or no more channels of    *)
(* the peer than before.                                                    *)
LEMMA LimitStep ==
    ASSUME Limit, Inv', NEW p \in Peers, NEW c, conn' = [conn EXCEPT ![p] = c],
           Cardinality(Theirs(c)) <= MaxChannels
    PROVE  Limit'
<1>1. ASSUME NEW q \in Peers PROVE Cardinality(Theirs(conn'[q])) <= MaxChannels
  <2>1. CASE q = p
    BY <2>1 DEF Limit, Inv, RestOK
  <2>2. CASE q # p
    BY <2>2, LimitIs DEF Limit, Inv, RestOK
  <2> QED
    BY <2>1, <2>2
<1>2. LimitHolds'
  BY <1>1, LimitIs DEF LimitHolds, Theirs, Chan, Tracked
<1> QED
  BY <1>2 DEF Limit

LEMMA LimitFewer ==
    ASSUME Limit, Inv', NEW p \in Peers, NEW c, conn' = [conn EXCEPT ![p] = c],
           Theirs(c) \subseteq Theirs(conn[p])
    PROVE  Limit'
<1>1. /\ IsFiniteSet(Theirs(conn[p])) /\ Cardinality(Theirs(conn[p])) \in Nat
      /\ Cardinality(Theirs(conn[p])) <= MaxChannels
  BY PeerFacts, TheirsFinite, LimitIs DEF Limit
<1>2. IsFiniteSet(Theirs(c)) /\ Cardinality(Theirs(c)) <= Cardinality(Theirs(conn[p]))
  BY <1>1, FS_Subset
<1>3. Cardinality(Theirs(c)) \in Nat
  BY <1>2, FS_CardinalityType
<1>4. Cardinality(Theirs(c)) <= MaxChannels
  BY <1>1, <1>2, <1>3, MaxChannelsAssumption
<1> QED
  BY <1>4, LimitStep

LEMMA LimitSame ==
    ASSUME Limit, Inv', conn' = conn
    PROVE  Limit'
BY DEF Limit, LimitHolds, Chan

(* What an insertion does to the peer's channels: ours add none, one the    *)
(* peer asked for adds itself, and one that is dropped again nothing.       *)
LEMMA TheirsAdd ==
    ASSUME NEW c, NEW a, PeerOK(c, a), NEW id, NEW x
    PROVE  /\ x.initiated_by_us = TRUE => Theirs(Allocate(c, id, x)) \subseteq Theirs(c)
           /\ Theirs(AcceptOpen(Allocate(c, id, x), id)) \subseteq Tracked(c) \cup {id}
           /\ Theirs(Remove(Allocate(c, id, x), id)) \subseteq Theirs(c)
<1> DEFINE d == Allocate(c, id, x)
<1>1. /\ d.channels = [j \in Tracked(c) \cup {id} |-> IF j = id THEN x ELSE c.channels[j]]
      /\ d = [channels |-> d.channels, next_local_id |-> (id + 1) % IdMod]
  BY AllocatedIs
<1> HIDE DEF d
<1>2. /\ Tracked(d) = Tracked(c) \cup {id}
      /\ \A j \in Tracked(d) : d.channels[j] = IF j = id THEN x ELSE c.channels[j]
  BY <1>1 DEF Tracked
<1>3. x.initiated_by_us = TRUE => Theirs(d) \subseteq Theirs(c)
  BY <1>2 DEF Theirs
<1>4. Tracked(AcceptOpen(d, id)) = Tracked(d)
  BY <1>1 DEF AcceptOpen, Tracked
<1>5. Theirs(AcceptOpen(d, id)) \subseteq Tracked(c) \cup {id}
  BY <1>2, <1>4 DEF Theirs
<1>6. Remove(d, id).channels = [j \in Tracked(d) \ {id} |-> d.channels[j]]
  BY <1>1 DEF Remove
<1>7. /\ Tracked(Remove(d, id)) \subseteq Tracked(c)
      /\ \A j \in Tracked(Remove(d, id)) : Remove(d, id).channels[j] = c.channels[j]
  BY <1>2, <1>6 DEF Tracked
<1>8. Theirs(Remove(d, id)) \subseteq Theirs(c)
  BY <1>7 DEF Theirs
<1> QED
  BY <1>3, <1>5, <1>8 DEF d

LEMMA LimitOpen ==
    ASSUME Limit, Inv', NEW p \in Peers, Open(p)
    PROVE  Limit'
<1>1. PICK id \in Ids : Update(p, OpenState(conn[p], id, opens),
                               WithApp(app[p], id, "opening"), <<OpenMsg(id, opens)>>)
  BY DEF Open
<1> DEFINE x == FreshChannel(0, 0, 0, TRUE, opens)
           d == Allocate(conn[p], id, x)
<1>2. PeerOK(conn[p], app[p]) /\ x.initiated_by_us = TRUE
  BY PeerFacts DEF Limit, FreshChannel
<1>3. conn' = [conn EXCEPT ![p] = d]
  BY <1>1 DEF Update, OpenState
<1> HIDE DEF x
<1>4. Theirs(d) \subseteq Theirs(conn[p])
  BY <1>2, TheirsAdd
<1> HIDE DEF d
<1> QED
  BY <1>3, <1>4, LimitFewer

LEMMA LimitAcceptRequest ==
    ASSUME Limit, Inv', NEW p \in Peers, NEW m, AcceptRequest(p, m)
    PROVE  Limit'
<1>1. PICK id \in Ids :
          Take(p, AcceptOpen(OnChannelOpen(conn[p], id, m), id),
               WithApp(app[p], id, IF p = "s" THEN "idle" ELSE "running"),
               <<AcceptMsg(OnChannelOpen(conn[p], id, m), id)>>)
  BY DEF AcceptRequest
<1> DEFINE x == FreshChannel(m.from, m.n, m.max, FALSE, m.tag)
           d == Allocate(conn[p], id, x)
           e == AcceptOpen(d, id)
           T == Tracked(conn[p])
<1>2. PeerOK(conn[p], app[p])
  BY PeerFacts DEF Limit
<1>3. conn' = [conn EXCEPT ![p] = e]
  BY <1>1 DEF Take, OnChannelOpen
<1> HIDE DEF x
<1>4. Theirs(e) \subseteq T \cup {id}
  BY <1>2, TheirsAdd
<1> HIDE DEF d, e
<1>5. IsFiniteSet(T) /\ Cardinality(T) \in Nat /\ ~(Cardinality(T) >= MaxChannels)
  BY <1>2, TheirsFinite DEF AcceptRequest, AtLimit
<1> HIDE DEF T
<1>6. /\ IsFiniteSet(T \cup {id}) /\ Cardinality(T \cup {id}) \in Nat
      /\ Cardinality(T \cup {id}) \in {Cardinality(T), Cardinality(T) + 1}
  BY <1>5, FS_AddElement, FS_CardinalityType
<1>7. IsFiniteSet(Theirs(e)) /\ Cardinality(Theirs(e)) <= Cardinality(T \cup {id})
  BY <1>4, <1>6, FS_Subset
<1>8. Cardinality(Theirs(e)) \in Nat
  BY <1>7, FS_CardinalityType
<1>9. Cardinality(Theirs(e)) <= MaxChannels
  BY <1>5, <1>6, <1>7, <1>8, MaxChannelsAssumption
<1> QED
  BY <1>3, <1>9, LimitStep

LEMMA LimitRejectRequest ==
    ASSUME Limit, Inv', NEW p \in Peers, NEW m, RejectRequest(p, m)
    PROVE  Limit'
<1>1. PICK id \in Ids :
          Take(p, Remove(OnChannelOpen(conn[p], id, m), id), app[p], <<OpenFailure(m)>>)
  BY DEF RejectRequest
<1> DEFINE x == FreshChannel(m.from, m.n, m.max, FALSE, m.tag)
           d == Allocate(conn[p], id, x)
           e == Remove(d, id)
<1>2. PeerOK(conn[p], app[p])
  BY PeerFacts DEF Limit
<1>3. conn' = [conn EXCEPT ![p] = e]
  BY <1>1 DEF Take, OnChannelOpen
<1> HIDE DEF x
<1>4. Theirs(e) \subseteq Theirs(conn[p])
  BY <1>2, TheirsAdd
<1> HIDE DEF d, e
<1> QED
  BY <1>3, <1>4, LimitFewer

LEMMA LimitShip ==
    ASSUME Limit, Inv', NEW p \in Peers, NEW id, Live(p, id), NEW kind, NEW take,
           Ship(p, id, kind, take)
    PROVE  Limit'
<1>1. PeerOK(conn[p], app[p]) /\ id \in Tracked(conn[p])
  BY PeerFacts DEF Limit, Live
<1>2. Theirs(SendData(conn[p], id, take)) \subseteq Theirs(conn[p])
  BY <1>1, TheirsSend
<1>3. conn' = [conn EXCEPT ![p] = SendData(conn[p], id, take)]
  BY DEF Ship, Update
<1> QED
  BY <1>2, <1>3, LimitFewer

LEMMA LimitFinish ==
    ASSUME Limit, Inv', NEW p \in Peers, NEW id, Live(p, id), NEW before, Finish(p, id, before)
    PROVE  Limit'
<1> DEFINE c == SendEof(conn[p], id)
           d == SendClose(c, id)
<1>1. PeerOK(conn[p], app[p]) /\ id \in Tracked(conn[p])
  BY PeerFacts DEF Limit, Live
<1>2. PeerOK(c, app[p]) /\ Theirs(c) \subseteq Theirs(conn[p])
  BY <1>1, UpdateFlags, TheirsSend
<1>3. Tracked(c) = Tracked(conn[p])
  BY <1>1, <1>2 DEF PeerOK
<1>4. conn' = [conn EXCEPT ![p] = d]
  BY DEF Finish, Update
<1> HIDE DEF c
<1>5. Theirs(d) \subseteq Theirs(c)
  BY <1>1, <1>2, <1>3, TheirsSend
<1> HIDE DEF d
<1>6. Theirs(d) \subseteq Theirs(conn[p])
  BY <1>2, <1>5
<1> QED
  BY <1>4, <1>6, LimitFewer

LEMMA LimitHalfClose ==
    ASSUME Limit, Inv', NEW p \in Peers, NEW id, HalfClose(p, id)
    PROVE  Limit'
<1>1. PeerOK(conn[p], app[p]) /\ id \in Tracked(conn[p])
  BY PeerFacts DEF Limit, HalfClose, Live
<1>2. Theirs(SendEof(conn[p], id)) \subseteq Theirs(conn[p])
  BY <1>1, TheirsSend
<1>3. conn' = [conn EXCEPT ![p] = SendEof(conn[p], id)]
  BY DEF HalfClose, Update
<1> QED
  BY <1>2, <1>3, LimitFewer

LEMMA LimitConsume ==
    ASSUME Limit, Inv', NEW p \in Peers, NEW id, NEW k, Consume(p, id, k)
    PROVE  Limit'
<1>1. PeerOK(conn[p], app[p]) /\ id \in Tracked(conn[p])
  BY PeerFacts DEF Limit, Consume, Live
<1>2. Theirs(ReplenishWindow(conn[p], id, k)) \subseteq Theirs(conn[p])
  BY <1>1, TheirsSend
<1>3. conn' = [conn EXCEPT ![p] = ReplenishWindow(conn[p], id, k)]
  BY DEF Consume, Update
<1> QED
  BY <1>2, <1>3, LimitFewer

(* A side that keeps its ConnectionState.                                   *)
LEMMA LimitIdle ==
    ASSUME Limit, Inv', NEW p \in Peers, conn' = [conn EXCEPT ![p] = conn[p]]
    PROVE  Limit'
BY LimitFewer

(* A packet on_packet has no objection to is for a tracked channel.         *)
LEMMA LimitReads ==
    ASSUME Limit, NEW p \in Peers, NEW m, PacketError(conn[p], m) = "none", m.t # "OPEN"
    PROVE  /\ m.ch \in Tracked(conn[p]) /\ PeerOK(conn[p], app[p])
           /\ Theirs(OnPacket(conn[p], m)) \subseteq Theirs(conn[p])
<1>1. m.ch \in Tracked(conn[p]) /\ PeerOK(conn[p], app[p])
  BY PeerFacts DEF Limit, PacketError
<1> QED
  BY <1>1, TheirsRead

LEMMA LimitCloseArrives ==
    ASSUME Limit, Inv', NEW p \in Peers, NEW m, CloseArrives(p, m)
    PROVE  Limit'
<1> DEFINE id == m.ch
           c == OnPacket(conn[p], m)
           d == [conn[p] EXCEPT !.channels[id].closed = @ \cup {"remote"}]
<1>1. /\ id \in Tracked(conn[p]) /\ PeerOK(conn[p], app[p])
      /\ Theirs(c) \subseteq Theirs(conn[p])
  BY LimitReads DEF CloseArrives, Reads
<1>2. CASE conn' = [conn EXCEPT ![p] = c]
  <2> HIDE DEF c
  <2> QED
    BY <1>1, <1>2, LimitFewer
<1>3. CASE /\ "local" \notin Chan(p, id).closed
           /\ conn' = [conn EXCEPT ![p] = SendClose(c, id)]
  <2>1. c = d
    BY <1>3 DEF CloseArrives, OnPacket, OnChannelClose, Chan
  <2>2. PeerOK(d, app[p])
    BY <1>1, UpdateFlags
  <2>3. PeerOK(c, app[p])
    BY <2>1, <2>2
  <2> HIDE DEF c, d
  <2>4. id \in Tracked(c)
    BY <1>1, <2>3 DEF PeerOK
  <2>5. Theirs(SendClose(c, id)) \subseteq Theirs(c)
    BY <2>3, <2>4, TheirsSend
  <2>6. Theirs(SendClose(c, id)) \subseteq Theirs(conn[p])
    BY <1>1, <2>5
  <2> QED
    BY <1>3, <2>6, LimitFewer
<1>4. \/ conn' = [conn EXCEPT ![p] = c]
      \/ "local" \notin Chan(p, id).closed /\ conn' = [conn EXCEPT ![p] = SendClose(c, id)]
  <2> HIDE DEF c
  <2> QED
    BY DEF CloseArrives, Take, c
<1> QED
  BY <1>2, <1>3, <1>4

LEMMA LimitReceive ==
    ASSUME Limit, Inv', NEW p \in Peers, Receive(p)
    PROVE  Limit'
<1>1. ASSUME NEW m, RefuseOpen(p, m) \/ RequestArrives(p, m) \/ ReplyArrives(p, m) PROVE Limit'
  <2>1. conn' = [conn EXCEPT ![p] = conn[p]]
    BY <1>1 DEF RefuseOpen, RequestArrives, ReplyArrives, Take
  <2> QED
    BY <2>1, LimitIdle
<1>2. ASSUME NEW m, OpenAnswered(p, m) \/ DataArrives(p, m) PROVE Limit'
  <2>1. PacketError(conn[p], m) = "none" /\ m.t # "OPEN"
    BY <1>2 DEF OpenAnswered, DataArrives, Reads, Answers
  <2>2. conn' = [conn EXCEPT ![p] = OnPacket(conn[p], m)]
    BY <1>2 DEF OpenAnswered, DataArrives, Take
  <2> QED
    BY <2>1, <2>2, LimitReads, LimitFewer
<1>3. ASSUME NEW m, OtherArrives(p, m) PROVE Limit'
  <2>1. CASE PacketError(conn[p], m) = "none"
    <3>1. m.t # "OPEN" /\ conn' = [conn EXCEPT ![p] = OnPacket(conn[p], m)]
      BY <1>3, <2>1 DEF OtherArrives
    <3> QED
      BY <2>1, <3>1, LimitReads, LimitFewer
  <2>2. CASE PacketError(conn[p], m) # "none"
    <3>1. conn' = [conn EXCEPT ![p] = conn[p]]
      BY <1>3, <2>2 DEF OtherArrives
    <3> QED
      BY <3>1, LimitIdle
  <2> QED
    BY <2>1, <2>2
<1> QED
  BY <1>1, <1>2, <1>3, LimitAcceptRequest, LimitRejectRequest, LimitCloseArrives DEF Receive

LEMMA InitLimit == Init => Limit
<1> SUFFICES ASSUME Init PROVE Limit
  OBVIOUS
<1>1. ASSUME NEW p \in Peers PROVE Cardinality(Theirs(conn[p])) <= MaxChannels
  <2>1. Tracked(conn[p]) = {}
    BY DEF Init, NewConnection, Tracked
  <2>2. Theirs(conn[p]) = {}
    BY <2>1 DEF Theirs
  <2>3. Cardinality({}) = 0
    BY FS_EmptySet
  <2> QED
    BY <2>2, <2>3, MaxChannelsAssumption
<1> QED
  BY <1>1, LimitIs, InitInv DEF Limit

LEMMA NextLimit == Limit /\ [Next]_vars => Limit'
<1> SUFFICES ASSUME Limit, [Next]_vars PROVE Limit'
  OBVIOUS
<1>0. Inv'
  BY NextInv DEF Limit
<1>1. CASE UNCHANGED vars
  BY <1>0, <1>1, LimitSame DEF vars
<1>2. ASSUME NEW p \in Peers, Open(p) \/ Receive(p) PROVE Limit'
  BY <1>0, <1>2, LimitOpen, LimitReceive
<1>3. ASSUME NEW id \in Ids, StartRequest(id) \/ WindowChange(id) PROVE Limit'
  <2>1. "c" \in Peers /\ conn' = [conn EXCEPT !["c"] = conn["c"]]
    BY <1>3 DEF StartRequest, WindowChange, Update, Peers
  <2> QED
    BY <1>0, <2>1, LimitIdle
<1>4. ASSUME NEW id \in Ids, FinalizeExited(id) \/ CloseIdle(id) PROVE Limit'
  <2>1. "s" \in Peers /\ Live("s", id)
    BY <1>4 DEF FinalizeExited, CloseIdle, Peers
  <2>2. PICK before : Finish("s", id, before)
    BY <1>4 DEF FinalizeExited, CloseIdle
  <2> QED
    BY <1>0, <2>1, <2>2, LimitFinish
<1>5. ASSUME NEW p \in Peers, NEW id \in Ids, HalfClose(p, id) \/ Close(p, id) PROVE Limit'
  BY <1>0, <1>5, LimitHalfClose, LimitFinish DEF Close
<1>6. ASSUME NEW p \in Peers, NEW id \in Ids, NEW n \in 1 .. MaxWrite, WriteData(p, id, n)
      PROVE  Limit'
  BY <1>0, <1>6, LimitShip DEF WriteData
<1>7. ASSUME NEW p \in Peers, NEW id \in Ids, NEW n \in 1 .. MaxWrite, WriteDatagram(p, id, n)
      PROVE  Limit'
  <2>1. CASE CanSendDatagram(conn[p], id, n)
    BY <1>0, <1>7, <2>1, LimitShip DEF WriteDatagram
  <2>2. CASE ~CanSendDatagram(conn[p], id, n)
    <3>1. conn' = conn
      BY <1>7, <2>2 DEF WriteDatagram
    <3> QED
      BY <1>0, <3>1, LimitSame
  <2> QED
    BY <2>1, <2>2
<1>8. ASSUME NEW id \in Ids, NEW n \in 1 .. MaxWrite, WriteStderr(id, n) PROVE Limit'
  <2>1. "s" \in Peers
    BY DEF Peers
  <2> QED
    BY <1>0, <1>8, <2>1, LimitShip DEF WriteStderr
<1>9. ASSUME NEW p \in Peers, NEW id \in Ids, NEW k \in 1 .. Window, Consume(p, id, k)
      PROVE  Limit'
  BY <1>0, <1>9, LimitConsume
<1> QED
  BY <1>1, <1>2, <1>3, <1>4, <1>5, <1>6, <1>7, <1>8, <1>9 DEF Next

(* The peer's opens never take the map past max_channels, whatever this     *)
(* side opens of its own accord in between (on_channel_open refuses at the  *)
(* limit of all channels, and an accepted one is dropped with its CLOSE).   *)
THEOREM PeerLimited == Spec => []LimitHolds
<1>1. Limit => LimitHolds
  BY DEF Limit
<1> QED
  BY <1>1, InitLimit, NextLimit, PTL DEF Spec
=============================================================================
