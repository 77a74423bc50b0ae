------------------------------ MODULE Listeners -----------------------------
(***************************************************************************)
(* The listeners a client has a server open: remote TCP and Unix socket    *)
(* forwards, the agent socket and the X11 display of a session (server.rs, *)
(* forwarding/reverse.rs, streamlocal.rs, agent.rs, x11.rs).               *)
(*                                                                         *)
(* Each listener has a thread that polls for connections.  For each one it *)
(* asks the connection loop to open a channel and blocks until the loop    *)
(* has the client's answer.  The loop stops a listener by setting its flag *)
(* and joining the thread.  The handlers of TCP and Unix socket forwards   *)
(* are shared by the connections of the server.                            *)
(***************************************************************************)
EXTENDS Integers, Sequences, FiniteSets, SequencesExt, FiniteSetTheorems, TLAPS

CONSTANTS
    Conns,          \* connections, all of one user
    Sessions,       \* session channels of a connection
    Kinds,          \* kinds of listeners that are asked for
    Addrs,          \* addresses asked for: "any", "loop", "lan"
    Ports,          \* TCP ports
    Paths,          \* Unix socket paths
    Gateway,        \* GatewayPorts: "no", "yes", "clientspecified"
    LocalOnly,      \* the handler is permit_localhost_only
    Unlink,         \* StreamLocalBindUnlink
    Single,         \* single_connection of an x11-req
    Cap,            \* max_forward_bindings
    MaxListeners,   \* bound on listeners opened
    MayCancel,      \* clients cancel forwards, close sessions and ask twice
    MayLeave,       \* clients disconnect
    None

VARIABLES
    lis,            \* the listeners opened so far
    at,             \* connection -> "loop", the teardown step, or "gone"
    joining,        \* connection -> listeners it still has to join
    file            \* path -> the listener whose socket is there, 0 if none

vars == <<lis, at, joining, file>>

Ids == DOMAIN lis
AllKinds == <<"tcpip", "agent", "x11", "streamlocal">>
Forwards == {"tcpip", "streamlocal"}

Init ==
    /\ lis = <<>>
    /\ at = [c \in Conns |-> "loop"]
    /\ joining = [c \in Conns |-> <<>>]
    /\ file = [p \in Paths |-> 0]

Live(l) == lis[l].thread # "ended"

\* In the handler's map of bindings, or in the map of active handles.
Registered(c, K) == {l \in Ids : lis[l].conn = c /\ lis[l].reg /\ lis[l].kind \in K}

Running(c) == at[c] = "loop" /\ joining[c] = <<>>
Fresh(c, kind, key, addr, over) ==
    [conn |-> c, kind |-> kind, key |-> key, addr |-> addr, sess |-> None, reg |-> TRUE,
     stop |-> FALSE, thread |-> "poll", ask |-> "none", served |-> 0,
     same |-> FALSE, over |-> over]

-----------------------------------------------------------------------------
(* Opening.  A request that is refused changes nothing here.               *)

forward_bindings_below_cap(c) == Cardinality(Registered(c, Forwards)) < Cap

\* The address a forward asked for at `a` is bound at.
apply_gateway_ports(a) ==
    CASE Gateway = "clientspecified" -> a
      [] Gateway = "no" -> "loop"
      [] Gateway = "yes" -> IF a = "loop" THEN "any" ELSE a

\* What the handler opens for it; None when its own policy refuses.
coerce_to_loopback(a) == IF a = "lan" THEN None ELSE "loop"
resolve_bind(a) == IF LocalOnly THEN coerce_to_loopback(a) ELSE a

\* The kernel gives a port once, the wildcard address overlapping the others.
PortFree(a, p) ==
    \A l \in Ids : Live(l) /\ lis[l].kind = "tcpip" /\ lis[l].key[2] = p =>
                       a # "any" /\ lis[l].addr \notin {"any", a}

TcpipForward(c, a, p) ==
    LET bind == apply_gateway_ports(a) IN
    /\ "tcpip" \in Kinds
    /\ Running(c) /\ Len(lis) < MaxListeners
    /\ forward_bindings_below_cap(c)
    /\ resolve_bind(bind) # None /\ PortFree(resolve_bind(bind), p)
    /\ ~\E l \in Ids : lis[l].reg /\ lis[l].key = <<bind, p>>
    /\ lis' = Append(lis, Fresh(c, "tcpip", <<bind, p>>, resolve_bind(bind), {}))
    /\ UNCHANGED <<at, joining, file>>

\* The socket at the path is one of ours nobody listens on any more.
is_stale_own_socket(p) == file[p] # 0 /\ ~Live(file[p])

\* The bindings of p whose drop has closed their listener and not come to its
\* end.  What bind does at the path, under the lock of the map, is one step: a
\* drop that removes a socket between bind's unlink and its bind removes nothing.
Dropping(p) ==
    {k \in Ids : lis[k].key = <<"path", p>> /\ ~Live(k) /\ \E d \in Conns : k \in ToSet(joining[d])}

StreamlocalForward(c, p) ==
    /\ "streamlocal" \in Kinds
    /\ Running(c) /\ Len(lis) < MaxListeners
    /\ forward_bindings_below_cap(c)
    /\ ~\E l \in Ids : lis[l].reg /\ lis[l].key = <<"path", p>>
    /\ Unlink \/ file[p] = 0 \/ is_stale_own_socket(p)
    /\ lis' = Append(lis, Fresh(c, "streamlocal", <<"path", p>>, None, Dropping(p)))
    /\ file' = [file EXCEPT ![p] = Len(lis) + 1]
    /\ UNCHANGED <<at, joining>>

\* Stop these listeners and join them, in this order; they leave the maps now.
Stops(c, ls, hs) ==
    /\ joining' = [joining EXCEPT ![c] = @ \o ls]
    /\ lis' = [l \in DOMAIN hs |-> IF l \in ToSet(ls)
                                   THEN [hs[l] EXCEPT !.reg = FALSE] ELSE hs[l]]

\* A new socket or display for the session; the handle it replaces is dropped.
SetUp(c, s, kind) ==
    LET old == SetToSeq({l \in Registered(c, {kind}) : lis[l].sess = s}) IN
    /\ kind \in Kinds \cap {"agent", "x11"}
    /\ old # <<>> => MayCancel
    /\ Running(c) /\ Len(lis) < MaxListeners
    /\ Stops(c, old, Append(lis, [Fresh(c, kind, <<kind, Len(lis) + 1>>, None, {})
                                      EXCEPT !.sess = s]))
    /\ UNCHANGED <<at, file>>

AuthAgentReq(c, s) == SetUp(c, s, "agent")
X11Req(c, s) == SetUp(c, s, "x11")

-----------------------------------------------------------------------------
(* The thread of a listener.                                               *)

Thread(l, from, to) ==
    /\ lis[l].thread = from
    /\ lis' = [lis EXCEPT ![l].thread = to]
    /\ UNCHANGED <<at, joining, file>>

\* A connection is accepted: an X11 client has to show the cookie first, the
\* others have a channel opened at once.
Accepts(l) ==
    /\ lis[l].thread = "poll" /\ ~lis[l].stop
    /\ lis' = IF lis[l].kind = "x11" THEN [lis EXCEPT ![l].thread = "cookie"]
              ELSE [lis EXCEPT ![l].thread = "asking", ![l].ask = "queued"]
    /\ UNCHANGED <<at, joining, file>>

\* The cookie is right, or it is wrong or late and the connection is dropped.
read_and_check_cookie(l, ok) ==
    /\ lis[l].thread = "cookie"
    /\ lis' = IF ok THEN [lis EXCEPT ![l].thread = "asking", ![l].ask = "queued"]
              ELSE [lis EXCEPT ![l].thread = "poll"]
    /\ UNCHANGED <<at, joining, file>>

\* The answer arrived: the connection is spliced, or shut down.
Resumes(l) ==
    /\ lis[l].thread = "answered"
    /\ lis' = [lis EXCEPT
           ![l].thread = IF lis[l].kind = "x11" /\ Single THEN "ended" ELSE "poll",
           ![l].served = IF lis[l].kind = "x11" /\ @ < 2 THEN @ + 1 ELSE @]
    /\ UNCHANGED <<at, joining, file>>

\* Seen between two polls.
Ends(l) == lis[l].stop /\ Thread(l, "poll", "ended")

-----------------------------------------------------------------------------
(* The connection loop.                                                    *)

want_polling(c) == Registered(c, ToSet(AllKinds)) # {}

\* What the threads have asked for and the loop has not read yet.
Queued(c) == {l \in Ids : lis[l].conn = c /\ lis[l].ask = "queued"}

\* A tick: the opens that were asked for are sent.
drain_pending(c) ==
    /\ Running(c) /\ want_polling(c)
    /\ Queued(c) # {}
    /\ lis' = [l \in Ids |-> IF l \in Queued(c) THEN [lis[l] EXCEPT !.ask = "pending"]
                             ELSE lis[l]]
    /\ UNCHANGED <<at, joining, file>>

Reply(hs, L) ==
    [l \in DOMAIN hs |-> IF l \in L THEN [hs[l] EXCEPT !.ask = "none", !.thread = "answered"]
                         ELSE hs[l]]

\* OPEN_CONFIRMATION or OPEN_FAILURE from the client.
Answered(c, l) ==
    /\ Running(c) /\ lis[l].conn = c /\ lis[l].ask = "pending"
    /\ lis' = Reply(lis, {l})
    /\ UNCHANGED <<at, joining, file>>

\* A forward of this connection's own; the check that it was bound for the
\* same user then holds.
CancelForward(c, l) ==
    /\ MayCancel /\ Running(c)
    /\ l \in Registered(c, Forwards)
    /\ Stops(c, <<l>>, lis) /\ UNCHANGED <<at, file>>

\* CHANNEL_CLOSE of a session: its agent socket, then its display.
CloseSession(c, s) ==
    LET of(k) == SetToSeq({l \in Registered(c, {k}) : lis[l].sess = s}) IN
    /\ MayCancel /\ Running(c)
    /\ of("agent") \o of("x11") # <<>>
    /\ Stops(c, of("agent") \o of("x11"), lis)
    /\ UNCHANGED <<at, file>>

\* The drop of a listener sets its flag, waits for the thread to end,
StopFlag(c) ==
    /\ joining[c] # <<>> /\ ~lis[Head(joining[c])].stop
    /\ lis' = [lis EXCEPT ![Head(joining[c])].stop = TRUE]
    /\ UNCHANGED <<at, joining, file>>

\* Mutant of SameId: the file is not looked at.
SameIdUnseen(l, same) == same = TRUE

\* looks whether the file at its path is the socket it bound, by device and
\* inode number, and if so removes what is at the path then.  The number of a
\* socket that was unlinked after its listener was closed may be that of the
\* socket bound next.
Path(l) == lis[l].key[2]
SameId(l, same) ==
    LET f == file[Path(l)] IN
    \/ f = l /\ same = TRUE
    \/ f # l /\ same = FALSE
    \/ f # l /\ f # 0 /\ l \in lis[f].over /\ same = TRUE

\* ... symlink_metadata: what is not a Unix socket's binding, or is no longer
\* its own socket, is done with.
Joined(c) ==
    LET h == Head(joining[c]) IN
    /\ joining[c] # <<>>
    /\ lis[h].stop /\ ~Live(h) /\ ~lis[h].same
    /\ \/ /\ lis[h].kind = "streamlocal" /\ SameId(h, TRUE)
          /\ lis' = [lis EXCEPT ![h].same = TRUE]
          /\ UNCHANGED joining
       \/ /\ lis[h].kind = "streamlocal" => SameId(h, FALSE)
          /\ joining' = [joining EXCEPT ![c] = Tail(@)]
          /\ UNCHANGED lis
    /\ UNCHANGED <<at, file>>

\* ... remove_file.
Removes(c) ==
    LET h == Head(joining[c]) IN
    /\ joining[c] # <<>> /\ lis[h].same
    /\ lis' = [lis EXCEPT ![h].same = FALSE]
    /\ joining' = [joining EXCEPT ![c] = Tail(@)]
    /\ file' = [file EXCEPT ![Path(h)] = 0]
    /\ UNCHANGED at

\* The connection ends: kind by kind its listeners are stopped and joined,
\* and then the opens still pending are answered with an error.
Leaves(c) ==
    /\ MayLeave /\ Running(c)
    /\ at' = [at EXCEPT ![c] = AllKinds[1]]
    /\ Stops(c, SetToSeq(Registered(c, {AllKinds[1]})), lis)
    /\ UNCHANGED file

Following(k) == LET i == CHOOSE i \in 1..4 : AllKinds[i] = k
                IN  IF i = 4 THEN "gone" ELSE AllKinds[i + 1]

\* When all is done the queues are dropped, and what was asked for but never
\* sent is answered by that.
Teardown(c) ==
    /\ at[c] \in ToSet(AllKinds) /\ joining[c] = <<>>
    /\ LET pending == {l \in Ids : lis[l].conn = c /\ lis[l].kind = at[c]
                                       /\ lis[l].ask = "pending"}
           next == Following(at[c])
       IN  /\ at' = [at EXCEPT ![c] = next]
           /\ Stops(c, SetToSeq(Registered(c, {next})),
                    Reply(lis, IF next = "gone" THEN pending \cup Queued(c) ELSE pending))
    /\ UNCHANGED file

-----------------------------------------------------------------------------
Opens(c) ==
    \/ \E a \in Addrs, p \in Ports : TcpipForward(c, a, p)
    \/ \E p \in Paths : StreamlocalForward(c, p)
    \/ \E s \in Sessions : AuthAgentReq(c, s) \/ X11Req(c, s)

Loop(c) ==
    \/ drain_pending(c) \/ StopFlag(c) \/ Joined(c) \/ Removes(c) \/ Teardown(c)
    \/ \E l \in Ids : Answered(c, l)

Works(l) ==
    Resumes(l) \/ Ends(l) \/ \E ok \in BOOLEAN : read_and_check_cookie(l, ok)

Next ==
    \/ \E c \in Conns : \/ Opens(c) \/ Loop(c) \/ Leaves(c)
                        \/ \E l \in Ids : CancelForward(c, l)
                        \/ \E s \in Sessions : CloseSession(c, s)
    \/ \E l \in Ids : Accepts(l) \/ Works(l)

Spec == Init /\ [][Next]_vars

-----------------------------------------------------------------------------
(* Properties.                                                             *)

\* A connection that is gone has left no listener and no socket behind.
NothingLeft ==
    \A c \in Conns : at[c] = "gone" =>
        \A l \in Ids : lis[l].conn = c =>
            ~Live(l) /\ ~lis[l].reg /\ \A p \in Paths : file[p] # l

\* A listener's socket stays in place as long as it listens: the drop of an
\* earlier binding of the same path does not take it away, unless the socket was
\* bound between the end of that binding's thread and the end of its drop.
SocketStays ==
    \A l \in Ids : lis[l].kind = "streamlocal" /\ lis[l].reg /\ lis[l].over = {} => file[Path(l)] = l

\* "the drop only unlinks *our* socket, never one somebody else has since put at
\* the same path" (Binding::socket_id, streamlocal.rs): a socket that is listened
\* on is in place.
OnlyOurSocket ==
    \A l \in Ids : lis[l].kind = "streamlocal" /\ lis[l].reg => file[Path(l)] = l

\* No connection has more forwards than max_forward_bindings, of both kinds
\* together and counting those still being stopped.
Capped ==
    \A c \in Conns : Cardinality({l \in Ids : lis[l].conn = c /\ Live(l)
                                      /\ lis[l].kind \in Forwards}) <= Cap

\* Without GatewayPorts nobody outside reaches a forwarded port, whatever
\* address the client names.
OnLoopback ==
    Gateway = "no" => \A l \in Ids : lis[l].kind = "tcpip" => lis[l].addr = "loop"

\* A display asked for with single_connection serves one connection, however
\* many others came with a wrong cookie before.
SingleOnce == Single => \A l \in Ids : lis[l].kind = "x11" => lis[l].served <= 1

\* What the server keeps for a connection: its sockets while it lasts, within
\* its limits, and nothing once it is gone.
ListenersKept == NothingLeft /\ SocketStays /\ Capped /\ OnLoopback /\ SingleOnce

\* Joining a listener takes a poll interval: the loop does not wait for a
\* thread that waits for the loop.
JoinEnds ==
    \A c \in Conns : joining[c] # <<>> /\ lis[Head(joining[c])].stop =>
        lis[Head(joining[c])].thread # "asking"

-----------------------------------------------------------------------------
(* The proof of ListenersKept.  It rests on where a listener that has left *)
(* the maps can be: it is one of those its connection still has to join,   *)
(* as long as its thread runs or its socket is there, and a connection     *)
(* opens nothing and does not go while it has any of those.                *)

KindSet == {"tcpip", "agent", "x11", "streamlocal"}
Tags == {"any", "loop", "lan", "path", "agent", "x11"}
Listener ==
    [conn : Conns, kind : KindSet, key : Tags \X (Ports \cup Paths \cup Nat),
     addr : Tags \cup {None}, sess : Sessions \cup {None}, reg : BOOLEAN, stop : BOOLEAN,
     thread : {"poll", "cookie", "asking", "answered", "ended"},
     ask : {"none", "queued", "pending"}, served : Nat, same : BOOLEAN, over : SUBSET Nat]

TypeOK ==
    /\ lis \in Seq(Listener)
    /\ at \in [Conns -> KindSet \cup {"loop", "gone"}]
    /\ joining \in [Conns -> Seq(Nat)]
    /\ file \in [Paths -> Nat]

\* Only a thread that waits has asked for a channel.
Waits(x) == x.ask # "none" => x.thread = "asking"

\* A display for one connection ends with it.
OneOnly(x) == Single /\ x.kind = "x11" /\ x.served # 0 => x.thread = "ended" /\ x.served = 1

Loopback(x) == Gateway = "no" /\ x.kind = "tcpip" => x.addr = "loop"
Placed(x) == x.kind = "streamlocal" => x.key[1] = "path" /\ x.key[2] \in Paths
Compared(x) == x.same => x.thread = "ended" /\ ~x.reg /\ x.kind = "streamlocal"
Sound(x) == Waits(x) /\ OneOnly(x) /\ Loopback(x) /\ Placed(x) /\ Compared(x)
AllSound == \A l \in 1 .. Len(lis) : Sound(lis[l])

\* What has left the maps is being joined, or is no more.
Accounted ==
    \A l \in 1 .. Len(lis) :
        ~lis[l].reg /\ (lis[l].thread # "ended" \/ lis[l].same \/ \E p \in Paths : file[p] = l) =>
            l \in ToSet(joining[lis[l].conn])

\* What is being joined has left the maps.
Unmapped ==
    \A c \in Conns : \A l \in ToSet(joining[c]) : l \in 1 .. Len(lis) /\ ~lis[l].reg /\ lis[l].conn = c

\* A socket is where its listener was told to bind it.
InPlace ==
    \A p \in Paths : file[p] # 0 =>
        file[p] \in 1 .. Len(lis) /\ lis[file[p]].kind = "streamlocal" /\ lis[file[p]].key = <<"path", p>>

\* What a drop is about to remove is its own socket or one bound during the drop.
OursOrNewer ==
    \A l \in 1 .. Len(lis) : \A p \in Paths :
        lis[l].same /\ lis[l].key = <<"path", p>> =>
            file[p] = 0 \/ file[p] = l \/ l \in lis[file[p]].over

\* The kinds that the teardown has stopped when it has come to k.
Done(k) ==
    CASE k = "loop" -> {}
      [] k = "tcpip" -> {"tcpip"}
      [] k = "agent" -> {"tcpip", "agent"}
      [] k = "x11" -> {"tcpip", "agent", "x11"}
      [] k = "streamlocal" -> KindSet
      [] k = "gone" -> KindSet

TornDown ==
    /\ \A l \in 1 .. Len(lis) : lis[l].kind \in Done(at[lis[l].conn]) => ~lis[l].reg
    /\ \A c \in Conns : at[c] = "gone" => joining[c] = <<>>

Inv == /\ TypeOK /\ AllSound /\ Accounted /\ Unmapped /\ TornDown /\ InPlace /\ OursOrNewer
       /\ SocketStays /\ Capped

\* The constants are what the configuration can hold.
ConstantsOK ==
    /\ Gateway \in {"no", "yes", "clientspecified"} /\ Addrs \subseteq {"any", "loop", "lan"}
    /\ Cap \in Nat

\* The listeners of a finite set, in some order, are those of the set.
LEMMA SetToSeqElements ==
    ASSUME NEW S \in SUBSET Nat, IsFiniteSet(S)
    PROVE  SetToSeq(S) \in Seq(Nat) /\ ToSet(SetToSeq(S)) = S
  <1> DEFINE n == Cardinality(S)
             f == SetToSeq(S)
  <1>1. n \in Nat /\ ExistsBijection(1 .. n, S)
    BY FS_CardinalityType
  <1>2. \E g \in [1 .. n -> S] : IsInjective(g)
    BY <1>1 DEF ExistsBijection, Bijection, Injection
  <1>3. f \in [1 .. n -> S] /\ IsInjective(f)
    BY <1>2 DEF SetToSeq
  <1>4. f \in Injection(1 .. n, S)
    BY <1>3 DEF Injection
  <1>5. Cardinality(1 .. n) = n
    BY <1>1, FS_Interval
  <1>6. f \in Surjection(1 .. n, S)
    BY <1>4, <1>5, FS_Injection
  <1>7. \A x \in S : \E i \in 1 .. n : f[i] = x
    BY <1>6 DEF Surjection
  <1> HIDE DEF f
  <1>8. f \in [1 .. n -> Nat] /\ DOMAIN f = 1 .. n
    BY <1>3
  <1>9. f \in Seq(Nat)
    BY <1>1, <1>8
  <1>10. ToSet(f) = S
    BY <1>3, <1>7, <1>8 DEF ToSet
  <1> QED BY <1>9, <1>10 DEF f

LEMMA ToSetConcat ==
    ASSUME NEW s \in Seq(Nat), NEW t \in Seq(Nat)
    PROVE  s \o t \in Seq(Nat) /\ ToSet(s \o t) = ToSet(s) \cup ToSet(t)
  <1>1. s \o t \in Seq(Nat) /\ DOMAIN (s \o t) = 1 .. Len(s) + Len(t)
    OBVIOUS
  <1>2. ToSet(s \o t) \subseteq ToSet(s) \cup ToSet(t)
    <2> SUFFICES ASSUME NEW i \in 1 .. Len(s) + Len(t)
                 PROVE  (s \o t)[i] \in ToSet(s) \cup ToSet(t)
      BY <1>1 DEF ToSet
    <2>1. CASE i <= Len(s)
      BY <2>1 DEF ToSet
    <2>2. CASE i > Len(s)
      <3>1. (s \o t)[i] = t[i - Len(s)] /\ i - Len(s) \in DOMAIN t
        BY <2>2
      <3> QED BY <3>1 DEF ToSet
    <2> QED BY <2>1, <2>2
  <1>3. ToSet(s) \subseteq ToSet(s \o t)
    <2> SUFFICES ASSUME NEW i \in DOMAIN s
                 PROVE  s[i] \in ToSet(s \o t)
      BY DEF ToSet
    <2>1. (s \o t)[i] = s[i] /\ i \in DOMAIN (s \o t)
      BY <1>1
    <2> QED BY <2>1 DEF ToSet
  <1>4. ToSet(t) \subseteq ToSet(s \o t)
    <2> SUFFICES ASSUME NEW i \in DOMAIN t
                 PROVE  t[i] \in ToSet(s \o t)
      BY DEF ToSet
    <2>1. (s \o t)[i + Len(s)] = t[i] /\ i + Len(s) \in DOMAIN (s \o t)
      BY <1>1
    <2> QED BY <2>1 DEF ToSet
  <1> QED BY <1>1, <1>2, <1>3, <1>4

LEMMA ToSetTail ==
    ASSUME NEW s \in Seq(Nat), s # <<>>
    PROVE  Head(s) \in ToSet(s) /\ Tail(s) \in Seq(Nat) /\ ToSet(s) = {Head(s)} \cup ToSet(Tail(s))
  <1>1. Head(s) = s[1] /\ 1 \in DOMAIN s /\ Tail(s) \in Seq(Nat)
    OBVIOUS
  <1>2. \A i \in DOMAIN Tail(s) : i + 1 \in DOMAIN s /\ Tail(s)[i] = s[i + 1]
    OBVIOUS
  <1>3. \A i \in DOMAIN s : i = 1 \/ (i - 1 \in DOMAIN Tail(s) /\ Tail(s)[i - 1] = s[i])
    OBVIOUS
  <1>4. ToSet(Tail(s)) \subseteq ToSet(s)
    BY <1>2 DEF ToSet
  <1>5. ToSet(s) \subseteq {s[1]} \cup ToSet(Tail(s))
    <2> SUFFICES ASSUME NEW i \in DOMAIN s PROVE s[i] \in {s[1]} \cup ToSet(Tail(s))
      BY DEF ToSet
    <2> QED BY <1>3 DEF ToSet
  <1>6. Head(s) \in ToSet(s)
    BY <1>1 DEF ToSet
  <1> QED BY <1>1, <1>4, <1>5, <1>6

\* A function on 1..n is a sequence.
LEMMA FunIsSeq ==
    ASSUME NEW n \in Nat, NEW S, NEW f \in [1 .. n -> S]
    PROVE  f \in Seq(S) /\ Len(f) = n
  OBVIOUS

\* What the thread of a listener, or the loop for it, may change.
Evolves(x, y) ==
    /\ y \in Listener /\ Sound(y)
    /\ y.conn = x.conn /\ y.kind = x.kind /\ y.key = x.key /\ y.addr = x.addr /\ y.reg = x.reg
    /\ y.same = x.same /\ y.over = x.over
    /\ y.thread # "ended" => x.thread # "ended"

\* The cap holds on when no listener comes to life.
LEMMA CappedKept ==
    ASSUME TypeOK, Capped, ConstantsOK, lis' \in Seq(Listener), Len(lis') = Len(lis),
           \A l \in 1 .. Len(lis) : /\ lis'[l].conn = lis[l].conn /\ lis'[l].kind = lis[l].kind
                                    /\ lis'[l].thread # "ended" => lis[l].thread # "ended"
    PROVE  Capped'
  <1> SUFFICES ASSUME NEW c \in Conns
               PROVE  Cardinality({l \in Ids : lis[l].conn = c /\ Live(l) /\ lis[l].kind \in Forwards})' <= Cap
    BY DEF Capped
  <1> DEFINE S == {l \in Ids : lis[l].conn = c /\ Live(l) /\ lis[l].kind \in Forwards}
  <1>1. Ids = 1 .. Len(lis) /\ Ids' = 1 .. Len(lis) /\ Len(lis) \in Nat
    BY DEF TypeOK, Ids
  <1>2. S' \in SUBSET S
    BY <1>1 DEF Live
  <1>3. IsFiniteSet(S)
    <2>1. IsFiniteSet(1 .. Len(lis)) /\ S \in SUBSET (1 .. Len(lis))
      BY <1>1, FS_Interval
    <2> QED BY <2>1, FS_Subset
  <1>4. IsFiniteSet(S') /\ Cardinality(S') <= Cardinality(S)
    BY <1>2, <1>3, FS_Subset
  <1>5. Cardinality(S) <= Cap
    BY DEF Capped
  <1>6. Cardinality(S) \in Nat /\ Cardinality(S') \in Nat
    BY <1>3, <1>4, FS_CardinalityType
  <1> QED BY <1>4, <1>5, <1>6 DEF ConstantsOK

\* Steps of the threads, and of the loop for them.
LEMMA EvolveStep ==
    ASSUME Inv, ConstantsOK, lis' \in Seq(Listener), Len(lis') = Len(lis),
           \A l \in 1 .. Len(lis) : Evolves(lis[l], lis'[l]),
           UNCHANGED <<at, joining, file>>
    PROVE  Inv'
  <1>1. Len(lis) \in Nat /\ Ids = 1 .. Len(lis) /\ Ids' = 1 .. Len(lis)
    BY DEF Inv, TypeOK, Ids
  <1>2. TypeOK' /\ AllSound'
    BY DEF Inv, TypeOK, AllSound, Evolves
  <1>3. Accounted'
    BY DEF Inv, Accounted, Evolves
  <1>4. Unmapped'
    BY DEF Inv, Unmapped, Evolves
  <1>5. TornDown'
    BY DEF Inv, TornDown, Evolves
  <1>6. SocketStays'
    BY <1>1 DEF Inv, SocketStays, Path, Evolves
  <1>7. Capped'
    BY CappedKept DEF Inv, Evolves
  <1>8. InPlace'
    BY DEF Inv, InPlace, Evolves
  <1>9. OursOrNewer'
    <2> SUFFICES ASSUME NEW l \in 1 .. Len(lis), NEW p \in Paths, lis'[l].same, lis'[l].key = <<"path", p>>
                 PROVE  file[p] = 0 \/ file[p] = l \/ l \in lis'[file[p]].over
      BY DEF OursOrNewer
    <2>1. lis[l].same /\ lis[l].key = <<"path", p>>
      BY DEF Evolves
    <2>2. file[p] # 0 => file[p] \in 1 .. Len(lis)
      BY DEF Inv, InPlace
    <2>3. file[p] # 0 => lis'[file[p]].over = lis[file[p]].over
      BY <2>2 DEF Evolves
    <2> QED BY <2>1, <2>3 DEF Inv, OursOrNewer
  <1> QED BY <1>2, <1>3, <1>4, <1>5, <1>6, <1>7, <1>8, <1>9 DEF Inv

\* The same for a step that concerns one listener.
LEMMA EvolveOne ==
    ASSUME Inv, ConstantsOK, NEW l \in Ids, NEW x, lis' = [lis EXCEPT ![l] = x], Evolves(lis[l], x),
           UNCHANGED <<at, joining, file>>
    PROVE  Inv'
  <1>1. Len(lis) \in Nat /\ Ids = 1 .. Len(lis) /\ x \in Listener /\ lis \in [1 .. Len(lis) -> Listener]
    BY DEF Inv, TypeOK, Ids, Evolves
  <1>2. lis' \in [1 .. Len(lis) -> Listener]
    BY <1>1
  <1>3. lis' \in Seq(Listener) /\ Len(lis') = Len(lis)
    BY <1>1, <1>2, FunIsSeq
  <1>4. \A k \in 1 .. Len(lis) : Evolves(lis[k], lis'[k])
    <2> SUFFICES ASSUME NEW k \in 1 .. Len(lis) PROVE Evolves(lis[k], lis'[k])
      OBVIOUS
    <2>1. CASE k = l
      BY <1>1, <2>1
    <2>2. CASE k # l
      BY <1>1, <2>2 DEF Evolves, Inv, AllSound
    <2> QED BY <2>1, <2>2
  <1> QED BY <1>3, <1>4, EvolveStep

LEMMA WorkStep ==
    ASSUME Inv, ConstantsOK, NEW l \in Ids, Accepts(l) \/ Works(l)
    PROVE  Inv'
  <1> USE DEF Sound, Waits, OneOnly, Loopback, Placed, Compared
  <1>1. lis[l] \in Listener /\ Sound(lis[l]) /\ lis \in [Ids -> Listener] /\ UNCHANGED <<at, joining, file>>
    BY DEF Inv, TypeOK, AllSound, Ids, Accepts, Works, Resumes, Ends, Thread, read_and_check_cookie
  <1>2. ASSUME NEW to \in {"poll", "cookie", "ended"}, lis[l].thread \in {"poll", "cookie"},
               lis' = [lis EXCEPT ![l].thread = to]
        PROVE  Inv'
    <2> DEFINE x == [lis[l] EXCEPT !.thread = to]
    <2>1. lis' = [lis EXCEPT ![l] = x]
      BY <1>1, <1>2
    <2>2. Evolves(lis[l], x)
      BY <1>1, <1>2 DEF Evolves, Listener
    <2> QED BY <1>1, <2>1, <2>2, EvolveOne
  <1>3. ASSUME lis[l].thread \in {"poll", "cookie"},
               lis' = [lis EXCEPT ![l].thread = "asking", ![l].ask = "queued"]
        PROVE  Inv'
    <2> DEFINE x == [lis[l] EXCEPT !.thread = "asking", !.ask = "queued"]
    <2>1. lis' = [lis EXCEPT ![l] = x]
      BY <1>1, <1>3
    <2>2. Evolves(lis[l], x)
      BY <1>1, <1>3 DEF Evolves, Listener
    <2> QED BY <1>1, <2>1, <2>2, EvolveOne
  <1>4. CASE Accepts(l)
    BY <1>2, <1>3, <1>4 DEF Accepts
  <1>5. CASE \E ok \in BOOLEAN : read_and_check_cookie(l, ok)
    BY <1>2, <1>3, <1>5 DEF read_and_check_cookie
  <1>6. CASE Ends(l)
    BY <1>2, <1>6 DEF Ends, Thread
  <1>7. CASE Resumes(l)
    <2>0. PICK th \in {"ended", "poll"}, sv \in Nat :
             /\ th = (IF lis[l].kind = "x11" /\ Single THEN "ended" ELSE "poll")
             /\ sv = (IF lis[l].kind = "x11" /\ lis[l].served < 2 THEN lis[l].served + 1 ELSE lis[l].served)
      BY <1>1 DEF Listener
    <2> DEFINE x == [lis[l] EXCEPT !.thread = th, !.served = sv]
    <2>1. lis' = [lis EXCEPT ![l] = x] /\ lis[l].thread = "answered"
      BY <1>1, <1>7, <2>0 DEF Resumes
    <2>2. Evolves(lis[l], x)
      <3>1. x \in Listener
        BY <1>1 DEF Listener
      <3>2. /\ x.conn = lis[l].conn /\ x.kind = lis[l].kind /\ x.key = lis[l].key /\ x.addr = lis[l].addr
            /\ x.reg = lis[l].reg /\ x.ask = lis[l].ask /\ x.thread = th /\ x.served = sv
            /\ x.same = lis[l].same /\ x.over = lis[l].over
        BY <1>1 DEF Listener
      <3> HIDE DEF x
      <3> QED BY <1>1, <2>0, <2>1, <3>1, <3>2 DEF Evolves, Listener
    <2> QED BY <1>1, <2>1, <2>2, EvolveOne
  <1> QED BY <1>4, <1>5, <1>6, <1>7 DEF Works

\* The loop answers, asks the client, or sets the flag of a listener.
LEMMA ReplyEvolves ==
    ASSUME NEW x \in Listener, Sound(x), x.ask # "none"
    PROVE  Evolves(x, [x EXCEPT !.ask = "none", !.thread = "answered"])
  BY DEF Evolves, Listener, Sound, Waits, OneOnly, Loopback, Placed, Compared

LEMMA LoopStep ==
    ASSUME Inv, ConstantsOK, NEW c \in Conns,
           drain_pending(c) \/ StopFlag(c) \/ \E l \in Ids : Answered(c, l)
    PROVE  Inv'
  <1> USE DEF Sound, Waits, OneOnly, Loopback, Placed, Compared
  <1>1. /\ Len(lis) \in Nat /\ Ids = 1 .. Len(lis) /\ lis \in [Ids -> Listener]
        /\ \A l \in Ids : lis[l] \in Listener /\ Sound(lis[l])
        /\ UNCHANGED <<at, joining, file>>
    <2>1. UNCHANGED <<at, joining, file>>
      BY DEF drain_pending, StopFlag, Answered
    <2>2. Len(lis) \in Nat /\ Ids = 1 .. Len(lis) /\ lis \in [Ids -> Listener]
      BY DEF Inv, TypeOK, Ids
    <2> QED BY <2>1, <2>2 DEF Inv, AllSound
  <1>2. \A l \in Ids : Evolves(lis[l], lis[l])
    BY <1>1 DEF Evolves
  <1>3. CASE drain_pending(c)
    <2>1. \A l \in Queued(c) : Evolves(lis[l], [lis[l] EXCEPT !.ask = "pending"])
      BY <1>1 DEF Evolves, Listener, Queued
    <2>2. lis' = [l \in Ids |-> IF l \in Queued(c) THEN [lis[l] EXCEPT !.ask = "pending"] ELSE lis[l]]
      BY <1>3 DEF drain_pending
    <2>3. \A l \in Ids : Evolves(lis[l], lis'[l])
      BY <1>2, <2>1, <2>2
    <2>4. lis' \in [1 .. Len(lis) -> Listener]
      BY <1>1, <2>2, <2>3 DEF Evolves
    <2>5. lis' \in Seq(Listener) /\ Len(lis') = Len(lis)
      BY <1>1, <2>4, FunIsSeq
    <2> QED BY <1>1, <2>3, <2>5, EvolveStep
  <1>4. CASE StopFlag(c)
    <2>1. PICK l : l = Head(joining[c])
      OBVIOUS
    <2>2. l \in Ids
      <3>1. joining[c] \in Seq(Nat) /\ joining[c] # <<>>
        BY <1>4 DEF Inv, TypeOK, StopFlag
      <3>2. l \in ToSet(joining[c])
        BY <2>1, <3>1, ToSetTail
      <3> QED BY <1>1, <3>2 DEF Inv, Unmapped
    <2> DEFINE x == [lis[l] EXCEPT !.stop = TRUE]
    <2>3. lis' = [lis EXCEPT ![l] = x]
      BY <1>1, <1>4, <2>1, <2>2 DEF StopFlag
    <2>4. Evolves(lis[l], x)
      <3>1. x \in Listener
        <4>1. lis[l] \in Listener /\ TRUE \in BOOLEAN
          BY <1>1, <2>2
        <4> QED BY ONLY <4>1 DEF Listener
      <3>2. x.conn = lis[l].conn /\ x.kind = lis[l].kind /\ x.key = lis[l].key /\ x.addr = lis[l].addr
            /\ x.reg = lis[l].reg /\ x.thread = lis[l].thread /\ x.ask = lis[l].ask /\ x.served = lis[l].served
            /\ x.same = lis[l].same /\ x.over = lis[l].over
        BY <1>1, <2>2 DEF Listener
      <3> HIDE DEF x
      <3> QED BY <1>1, <2>2, <3>1, <3>2 DEF Evolves
    <2> QED BY <1>1, <2>2, <2>3, <2>4, EvolveOne
  <1>5. ASSUME NEW l \in Ids, Answered(c, l)
        PROVE  Inv'
    <2> DEFINE x == [lis[l] EXCEPT !.ask = "none", !.thread = "answered"]
    <2>1. lis' = [lis EXCEPT ![l] = x]
      BY <1>1, <1>5 DEF Answered, Reply
    <2>2. Evolves(lis[l], x)
      BY <1>1, <1>5, ReplyEvolves DEF Answered
    <2> QED BY <1>1, <2>1, <2>2, EvolveOne
  <1> QED BY <1>3, <1>4, <1>5

\* What Stops makes of the listeners hs.
LEMMA StopsEffect ==
    ASSUME TypeOK, NEW c \in Conns, NEW hs \in Seq(Listener), NEW ls \in Seq(Nat), Stops(c, ls, hs)
    PROVE  /\ lis' \in Seq(Listener) /\ Len(lis') = Len(hs)
           /\ \A l \in 1 .. Len(hs) :
                 /\ lis'[l].conn = hs[l].conn /\ lis'[l].kind = hs[l].kind /\ lis'[l].key = hs[l].key
                 /\ lis'[l].addr = hs[l].addr /\ lis'[l].thread = hs[l].thread /\ lis'[l].ask = hs[l].ask
                 /\ lis'[l].served = hs[l].served /\ lis'[l].same = hs[l].same /\ lis'[l].over = hs[l].over
                 /\ lis'[l].reg <=> hs[l].reg /\ l \notin ToSet(ls)
           /\ joining' \in [Conns -> Seq(Nat)]
           /\ ToSet(joining'[c]) = ToSet(joining[c]) \cup ToSet(ls)
           /\ joining[c] = <<>> /\ ls = <<>> => joining'[c] = <<>>
           /\ \A d \in Conns : d # c => joining'[d] = joining[d]
  <1> DEFINE off(l) == [hs[l] EXCEPT !.reg = FALSE]
  <1>1. Len(hs) \in Nat /\ DOMAIN hs = 1 .. Len(hs) /\ \A l \in 1 .. Len(hs) : hs[l] \in Listener
    OBVIOUS
  <1>2. ASSUME NEW l \in 1 .. Len(hs)
        PROVE  /\ off(l) \in Listener
               /\ off(l).conn = hs[l].conn /\ off(l).kind = hs[l].kind /\ off(l).key = hs[l].key
               /\ off(l).addr = hs[l].addr /\ off(l).thread = hs[l].thread /\ off(l).ask = hs[l].ask
               /\ off(l).served = hs[l].served /\ off(l).reg = FALSE
               /\ off(l).same = hs[l].same /\ off(l).over = hs[l].over
    <2>1. hs[l] \in Listener /\ FALSE \in BOOLEAN
      BY <1>1
    <2> QED BY ONLY <2>1 DEF Listener
  <1>3. lis' = [l \in 1 .. Len(hs) |-> IF l \in ToSet(ls) THEN off(l) ELSE hs[l]]
    BY <1>1 DEF Stops
  <1> HIDE DEF off
  <1>4. lis' \in [1 .. Len(hs) -> Listener]
    BY <1>1, <1>2, <1>3
  <1>5. lis' \in Seq(Listener) /\ Len(lis') = Len(hs)
    BY <1>1, <1>4, FunIsSeq
  <1>6. joining[c] \in Seq(Nat) /\ joining' = [joining EXCEPT ![c] = joining[c] \o ls]
    BY DEF TypeOK, Stops
  <1>7. joining[c] \o ls \in Seq(Nat) /\ ToSet(joining[c] \o ls) = ToSet(joining[c]) \cup ToSet(ls)
    BY <1>6, ToSetConcat
  <1>8. joining'[c] = joining[c] \o ls /\ joining' \in [Conns -> Seq(Nat)]
        /\ \A d \in Conns : d # c => joining'[d] = joining[d]
    BY <1>6, <1>7 DEF TypeOK
  <1>9. joining[c] = <<>> /\ ls = <<>> => joining[c] \o ls = <<>>
    OBVIOUS
  <1> QED BY <1>2, <1>3, <1>5, <1>7, <1>8, <1>9

\* A newcomer whose socket, if it is one, is in place.
Arrives(x) == x \in Listener /\ Sound(x) /\ x.reg /\ x.kind \in {"agent", "x11"}

\* Listeners of connection c, all of the registered ones of some kinds or
\* sessions, are stopped, while the others go on and a socket or display may
\* be added.
LEMMA StopStep ==
    ASSUME Inv, ConstantsOK, NEW c \in Conns, NEW hs \in Seq(Listener), NEW ls \in Seq(Nat), Stops(c, ls, hs),
           Len(hs) >= Len(lis), file' = file,
           \A l \in 1 .. Len(lis) : Evolves(lis[l], hs[l]),
           \A l \in 1 .. Len(hs) : l > Len(lis) => Arrives(hs[l]) /\ hs[l].conn = c,
           Len(hs) > Len(lis) => at'[c] = "loop",
           \A l \in ToSet(ls) : l \in 1 .. Len(lis) /\ lis[l].conn = c,
           at' \in [Conns -> KindSet \cup {"loop", "gone"}],
           \A d \in Conns : d # c => at'[d] = at[d],
           \A l \in 1 .. Len(lis) : lis[l].conn = c /\ lis[l].kind \in Done(at'[c]) /\ lis[l].reg => l \in ToSet(ls),
           at'[c] = "gone" => joining[c] = <<>> /\ ls = <<>>
    PROVE  Inv'
  <1> DEFINE n == Len(lis)
             m == Len(hs)
  <1>1. /\ n \in Nat /\ m \in Nat /\ m >= n /\ Ids = 1 .. n /\ \A l \in 1 .. n : l \in 1 .. m
        /\ \A l \in 1 .. m : l \in 1 .. n \/ l > n
    BY DEF Inv, TypeOK, Ids
  <1>2. /\ lis' \in Seq(Listener) /\ Len(lis') = m
        /\ \A l \in 1 .. m :
              /\ lis'[l].conn = hs[l].conn /\ lis'[l].kind = hs[l].kind /\ lis'[l].key = hs[l].key
              /\ lis'[l].addr = hs[l].addr /\ lis'[l].thread = hs[l].thread /\ lis'[l].ask = hs[l].ask
              /\ lis'[l].served = hs[l].served /\ lis'[l].same = hs[l].same /\ lis'[l].over = hs[l].over
              /\ lis'[l].reg <=> hs[l].reg /\ l \notin ToSet(ls)
    BY StopsEffect DEF Inv
  <1>2j. /\ joining' \in [Conns -> Seq(Nat)]
         /\ ToSet(joining'[c]) = ToSet(joining[c]) \cup ToSet(ls)
         /\ joining[c] = <<>> /\ ls = <<>> => joining'[c] = <<>>
         /\ \A d \in Conns : d # c => joining'[d] = joining[d]
    BY StopsEffect DEF Inv
  <1>3. Ids' = 1 .. m
    BY <1>1, <1>2 DEF Ids
  <1> HIDE DEF n, m
  <1>4. \A l \in 1 .. n : l \in 1 .. m /\ Evolves(lis[l], hs[l])
    BY <1>1 DEF n
  <1>5. \A l \in 1 .. m : l \notin 1 .. n => Arrives(hs[l]) /\ hs[l].conn = c /\ at'[c] = "loop"
    BY <1>1 DEF n, m
  <1>5a. \A l \in 1 .. n :
            /\ lis[l].conn \in Conns /\ l \in 1 .. m
            /\ lis'[l].conn = lis[l].conn /\ lis'[l].kind = lis[l].kind /\ lis'[l].key = lis[l].key
            /\ lis'[l].reg <=> lis[l].reg /\ l \notin ToSet(ls)
            /\ lis'[l].same = lis[l].same /\ lis'[l].over = lis[l].over
            /\ lis'[l].thread # "ended" => lis[l].thread # "ended"
    <2> SUFFICES ASSUME NEW l \in 1 .. n
                 PROVE  /\ lis[l].conn \in Conns /\ l \in 1 .. m
                        /\ lis'[l].conn = lis[l].conn /\ lis'[l].kind = lis[l].kind /\ lis'[l].key = lis[l].key
                        /\ lis'[l].reg <=> lis[l].reg /\ l \notin ToSet(ls)
                        /\ lis'[l].same = lis[l].same /\ lis'[l].over = lis[l].over
                        /\ lis'[l].thread # "ended" => lis[l].thread # "ended"
      OBVIOUS
    <2>1. l \in 1 .. m /\ Evolves(lis[l], hs[l])
      BY <1>4
    <2>2. lis[l] \in Listener
      BY DEF Inv, TypeOK, n
    <2>3. lis[l].conn \in Conns
      BY <2>2 DEF Listener
    <2> QED BY <1>2, <2>1, <2>3 DEF Evolves
  <1>6. TypeOK'
    BY <1>2, <1>2j DEF Inv, TypeOK
  <1>7. AllSound'
    <2> SUFFICES ASSUME NEW l \in 1 .. m PROVE Sound(lis'[l])
      BY <1>2 DEF AllSound
    <2>1. Sound(hs[l])
      BY <1>4, <1>5 DEF Evolves, Arrives
    <2> QED BY <1>2, <2>1 DEF Sound, Waits, OneOnly, Loopback, Placed, Compared
  <1>8. Accounted'
    <2> SUFFICES ASSUME NEW l \in 1 .. m, ~lis'[l].reg,
                        lis'[l].thread # "ended" \/ lis'[l].same \/ \E p \in Paths : file[p] = l
                 PROVE  l \in ToSet(joining'[lis'[l].conn])
      BY <1>2 DEF Accounted
    <2>1. CASE l \in ToSet(ls)
      <3>1. l \in 1 .. n /\ lis[l].conn = c /\ lis'[l].conn = c
        BY <1>5a, <2>1 DEF n
      <3> QED BY <1>2j, <2>1, <3>1
    <2>2. CASE l \notin ToSet(ls)
      <3>1. ~hs[l].reg /\ lis'[l].conn = hs[l].conn /\ lis'[l].thread = hs[l].thread
        BY <1>2, <2>2
      <3>2. l \in 1 .. n
        BY <1>5, <3>1 DEF Arrives
      <3>3. /\ lis'[l].conn = lis[l].conn /\ lis[l].conn \in Conns /\ ~lis[l].reg
            /\ lis'[l].same = lis[l].same
            /\ lis'[l].thread # "ended" => lis[l].thread # "ended"
        BY <1>5a, <2>2, <3>2
      <3>4. l \in ToSet(joining[lis[l].conn])
        BY <3>2, <3>3 DEF Inv, Accounted, n
      <3>5. \A d \in Conns : l \in ToSet(joining[d]) => l \in ToSet(joining'[d])
        BY <1>2j
      <3> QED BY <3>3, <3>4, <3>5
    <2> QED BY <2>1, <2>2
  <1>9. Unmapped'
    <2> SUFFICES ASSUME NEW d \in Conns, NEW l \in ToSet(joining'[d])
                 PROVE  l \in 1 .. m /\ ~lis'[l].reg /\ lis'[l].conn = d
      BY <1>2 DEF Unmapped
    <2>1. CASE l \in ToSet(joining[d])
      <3>1. l \in 1 .. n /\ ~lis[l].reg /\ lis[l].conn = d
        BY <2>1 DEF Inv, Unmapped, n
      <3> QED BY <1>5a, <3>1
    <2>2. CASE l \in ToSet(ls) /\ d = c
      BY <1>5a, <2>2 DEF n
    <2> QED BY <1>2j, <2>1, <2>2
  <1>10. TornDown'
    <2>1. ASSUME NEW l \in 1 .. m, lis'[l].kind \in Done(at'[lis'[l].conn])
          PROVE  ~lis'[l].reg
      <3>1. CASE l \in 1 .. n
        <4>1. /\ lis'[l].kind = lis[l].kind /\ lis'[l].conn = lis[l].conn /\ lis[l].conn \in Conns
              /\ lis'[l].reg => lis[l].reg /\ l \notin ToSet(ls)
          BY <1>5a, <3>1
        <4>2. CASE lis[l].conn = c
          BY <2>1, <3>1, <4>1, <4>2 DEF n
        <4>3. CASE lis[l].conn # c
          BY <2>1, <3>1, <4>1, <4>3 DEF Inv, TornDown, n
        <4> QED BY <4>2, <4>3
      <3>2. CASE l \notin 1 .. n
        <4>1. lis'[l].conn = c /\ at'[c] = "loop"
          BY <1>2, <1>5, <2>1, <3>2
        <4> QED BY <2>1, <4>1 DEF Done
      <3> QED BY <3>1, <3>2
    <2>2. ASSUME NEW d \in Conns, at'[d] = "gone"
          PROVE  joining'[d] = <<>>
      <3>1. CASE d = c
        BY <1>2j, <2>2, <3>1
      <3>2. CASE d # c
        <4>1. at[d] = "gone" /\ joining'[d] = joining[d]
          BY <1>2j, <2>2, <3>2
        <4> QED BY <4>1 DEF Inv, TornDown
      <3> QED BY <3>1, <3>2
    <2> QED BY <1>2, <2>1, <2>2 DEF TornDown
  <1>11. SocketStays'
    <2> SUFFICES ASSUME NEW l \in 1 .. m, lis'[l].kind = "streamlocal", lis'[l].reg, lis'[l].over = {}
                 PROVE  file[lis'[l].key[2]] = l
      BY <1>3 DEF SocketStays, Path
    <2>1. l \in 1 .. n
      BY <1>2, <1>5 DEF Arrives
    <2>2. lis[l].kind = "streamlocal" /\ lis[l].reg /\ lis'[l].key = lis[l].key /\ lis[l].over = {}
      BY <1>5a, <2>1
    <2> QED BY <1>1, <2>1, <2>2 DEF Inv, SocketStays, Path
  <1>12. Capped'
    <2> SUFFICES ASSUME NEW d \in Conns
                 PROVE  Cardinality({l \in Ids : lis[l].conn = d /\ Live(l) /\ lis[l].kind \in Forwards})' <= Cap
      BY DEF Capped
    <2> DEFINE S == {l \in Ids : lis[l].conn = d /\ Live(l) /\ lis[l].kind \in Forwards}
    <2>1. S' \in SUBSET S
      <3> SUFFICES ASSUME NEW l \in 1 .. m, lis'[l].conn = d, lis'[l].thread # "ended", lis'[l].kind \in Forwards
                   PROVE  l \in S
        BY <1>3 DEF Live
      <3>1. l \in 1 .. n
        BY <1>2, <1>5 DEF Arrives, Forwards
      <3> QED BY <1>1, <1>5a, <3>1 DEF Live
    <2>2. IsFiniteSet(S)
      <3>1. IsFiniteSet(1 .. n) /\ S \in SUBSET (1 .. n)
        BY <1>1, FS_Interval
      <3> QED BY <3>1, FS_Subset
    <2>3. IsFiniteSet(S') /\ Cardinality(S') <= Cardinality(S)
      BY <2>1, <2>2, FS_Subset
    <2>4. Cardinality(S) <= Cap
      BY DEF Inv, Capped
    <2>5. Cardinality(S) \in Nat /\ Cardinality(S') \in Nat
      BY <2>2, <2>3, FS_CardinalityType
    <2> QED BY <2>3, <2>4, <2>5 DEF ConstantsOK
  <1>13. InPlace'
    <2> SUFFICES ASSUME NEW p \in Paths, file[p] # 0
                 PROVE  /\ file[p] \in 1 .. m
                        /\ lis'[file[p]].kind = "streamlocal" /\ lis'[file[p]].key = <<"path", p>>
      BY <1>2 DEF InPlace
    <2>1. /\ file[p] \in 1 .. n
          /\ lis[file[p]].kind = "streamlocal" /\ lis[file[p]].key = <<"path", p>>
      BY DEF Inv, InPlace, n
    <2> QED BY <1>5a, <2>1
  <1>14. OursOrNewer'
    <2> SUFFICES ASSUME NEW l \in 1 .. m, NEW p \in Paths, lis'[l].same, lis'[l].key = <<"path", p>>
                 PROVE  file[p] = 0 \/ file[p] = l \/ l \in lis'[file[p]].over
      BY <1>2 DEF OursOrNewer
    <2>1. l \in 1 .. n
      BY <1>2, <1>5 DEF Arrives, Sound, Compared
    <2>2. lis[l].same /\ lis[l].key = <<"path", p>>
      BY <1>5a, <2>1
    <2>3. file[p] # 0 => file[p] \in 1 .. n
      BY DEF Inv, InPlace, n
    <2>4. file[p] # 0 => lis'[file[p]].over = lis[file[p]].over
      BY <1>5a, <2>3
    <2> QED BY <2>1, <2>2, <2>4 DEF Inv, OursOrNewer, n
  <1> QED BY <1>6, <1>7, <1>8, <1>9, <1>10, <1>11, <1>12, <1>13, <1>14 DEF Inv

\* The registered listeners of a connection, in some order.
LEMMA RegisteredSeq ==
    ASSUME TypeOK, NEW R, NEW c, NEW K, R \subseteq Registered(c, K)
    PROVE  /\ SetToSeq(R) \in Seq(Nat) /\ ToSet(SetToSeq(R)) = R
           /\ \A l \in R : l \in 1 .. Len(lis) /\ lis[l].conn = c
           /\ R = {} => SetToSeq(R) = <<>>
  <1>1. Len(lis) \in Nat /\ Ids = 1 .. Len(lis)
    BY DEF TypeOK, Ids
  <1>2. R \subseteq 1 .. Len(lis) /\ \A l \in R : lis[l].conn = c
    BY <1>1 DEF Registered
  <1>3. R \in SUBSET Nat /\ R \in SUBSET (1 .. Len(lis))
    BY <1>1, <1>2
  <1>4. IsFiniteSet(1 .. Len(lis))
    BY <1>1, FS_Interval
  <1>5. IsFiniteSet(R)
    BY <1>3, <1>4, FS_Subset
  <1>6. SetToSeq(R) \in Seq(Nat) /\ ToSet(SetToSeq(R)) = R
    BY <1>3, <1>5, SetToSeqElements
  <1>7. R = {} => SetToSeq(R) = <<>>
    <2> SUFFICES ASSUME R = {} PROVE SetToSeq(R) = <<>>
      OBVIOUS
    <2>1. DOMAIN SetToSeq(R) = {}
      BY <1>6 DEF ToSet
    <2> QED BY <1>6, <2>1
  <1> QED BY <1>2, <1>6, <1>7

LEMMA EvolvesSelf ==
    ASSUME Inv
    PROVE  \A l \in 1 .. Len(lis) : Evolves(lis[l], lis[l])
  BY DEF Inv, TypeOK, AllSound, Evolves

LEMMA SetUpStep ==
    ASSUME Inv, ConstantsOK, NEW c \in Conns, NEW s \in Sessions, NEW kind \in {"agent", "x11"}, SetUp(c, s, kind)
    PROVE  Inv'
  <1> DEFINE R == {l \in Registered(c, {kind}) : lis[l].sess = s}
             x == [Fresh(c, kind, <<kind, Len(lis) + 1>>, None, {}) EXCEPT !.sess = s]
             hs == Append(lis, x)
  <1>1. Len(lis) \in Nat /\ lis \in Seq(Listener)
    BY DEF Inv, TypeOK
  <1>2. x \in Listener /\ x.reg /\ x.kind = kind /\ x.conn = c /\ x.ask = "none" /\ x.served = 0
        /\ ~x.same
    <2> DEFINE key == <<kind, Len(lis) + 1>>
               y == Fresh(c, kind, key, None, {})
    <2>1. key \in Tags \X (Ports \cup Paths \cup Nat)
      <3>1. kind \in Tags /\ Len(lis) + 1 \in Ports \cup Paths \cup Nat
        BY <1>1 DEF Tags
      <3> QED BY ONLY <3>1
    <2> HIDE DEF key
    <2>2. y = [conn |-> c, kind |-> kind, key |-> key, addr |-> None, sess |-> None, reg |-> TRUE,
               stop |-> FALSE, thread |-> "poll", ask |-> "none", served |-> 0, same |-> FALSE, over |-> {}]
      BY DEF Fresh
    <2>3. y \in Listener /\ y.reg = TRUE /\ y.kind = kind /\ y.conn = c /\ y.ask = "none" /\ y.served = 0
          /\ y.same = FALSE
      <3>1. kind \in KindSet /\ {} \in SUBSET Nat
        BY DEF KindSet
      <3> HIDE DEF y
      <3> QED BY <2>1, <2>2, <3>1 DEF Listener
    <2>4. x = [y EXCEPT !.sess = s]
      BY DEF key
    <2> HIDE DEF x, y
    <2>5. x \in Listener
      BY <2>3, <2>4 DEF Listener
    <2> QED BY <2>3, <2>4, <2>5 DEF Listener
  <1>3. SetToSeq(R) \in Seq(Nat) /\ ToSet(SetToSeq(R)) = R /\ \A l \in R : l \in 1 .. Len(lis) /\ lis[l].conn = c
    BY RegisteredSeq DEF Inv
  <1>4. Stops(c, SetToSeq(R), hs) /\ UNCHANGED <<at, file>> /\ at[c] = "loop"
    BY DEF SetUp, Running
  <1> HIDE DEF x
  <1>5. /\ hs \in Seq(Listener) /\ Len(hs) = Len(lis) + 1 /\ hs[Len(lis) + 1] = x
        /\ \A l \in 1 .. Len(lis) : hs[l] = lis[l]
    BY <1>1, <1>2
  <1>6. Arrives(x)
    BY <1>2 DEF Arrives, Sound, Waits, OneOnly, Loopback, Placed, Compared
  <1> HIDE DEF R, hs
  <1>7. \A l \in 1 .. Len(lis) : Evolves(lis[l], hs[l])
    BY <1>5, EvolvesSelf
  <1>8. \A l \in 1 .. Len(hs) : l > Len(lis) => Arrives(hs[l]) /\ hs[l].conn = c
    BY <1>1, <1>2, <1>5, <1>6
  <1>9. Done(at'[c]) = {} /\ at' \in [Conns -> KindSet \cup {"loop", "gone"}]
    BY <1>4 DEF Done, Inv, TypeOK
  <1>10. PICK ls \in Seq(Nat), hs2 \in Seq(Listener) : ls = SetToSeq(R) /\ hs2 = hs
    BY <1>3, <1>5
  <1> QED BY <1>1, <1>3, <1>4, <1>5, <1>7, <1>8, <1>9, <1>10, StopStep

\* Some registered listeners of a connection are stopped, nothing else.
LEMMA StopSome ==
    ASSUME Inv, ConstantsOK, NEW c \in Conns, NEW ls \in Seq(Nat), Stops(c, ls, lis), UNCHANGED <<at, file>>,
           at[c] = "loop", \A l \in ToSet(ls) : l \in 1 .. Len(lis) /\ lis[l].conn = c
    PROVE  Inv'
  <1>1. Len(lis) \in Nat /\ lis \in Seq(Listener)
    BY DEF Inv, TypeOK
  <1>2. PICK hs \in Seq(Listener) : hs = lis
    BY <1>1
  <1>3. Done(at'[c]) = {} /\ at' \in [Conns -> KindSet \cup {"loop", "gone"}] /\ at'[c] = "loop"
    BY DEF Done, Inv, TypeOK
  <1>4. Len(hs) = Len(lis) /\ \A l \in 1 .. Len(lis) : Evolves(lis[l], hs[l])
    BY <1>2, EvolvesSelf
  <1>5. ~(Len(hs) > Len(lis)) /\ Len(hs) >= Len(lis) /\ \A l \in 1 .. Len(hs) : ~(l > Len(lis))
    BY <1>1, <1>4
  <1> QED BY <1>1, <1>2, <1>3, <1>4, <1>5, StopStep

LEMMA CancelStep ==
    ASSUME Inv, ConstantsOK, NEW c \in Conns, NEW l \in Ids, CancelForward(c, l)
    PROVE  Inv'
  <1>1. l \in 1 .. Len(lis) /\ l \in Nat /\ lis[l].conn = c
    BY DEF Inv, TypeOK, Ids, CancelForward, Registered
  <1>2. <<l>> \in Seq(Nat) /\ ToSet(<<l>>) = {l}
    BY <1>1 DEF ToSet
  <1> QED BY <1>1, <1>2, StopSome DEF CancelForward, Running

LEMMA CloseSessionStep ==
    ASSUME Inv, ConstantsOK, NEW c \in Conns, NEW s \in Sessions, CloseSession(c, s)
    PROVE  Inv'
  <1> DEFINE R(k) == {l \in Registered(c, {k}) : lis[l].sess = s}
             a == SetToSeq(R("agent"))
             x == SetToSeq(R("x11"))
  <1>1. \A k : /\ SetToSeq(R(k)) \in Seq(Nat) /\ ToSet(SetToSeq(R(k))) = R(k)
               /\ \A l \in R(k) : l \in 1 .. Len(lis) /\ lis[l].conn = c
    BY RegisteredSeq DEF Inv
  <1>2. Stops(c, a \o x, lis) /\ UNCHANGED <<at, file>> /\ at[c] = "loop"
    BY DEF CloseSession, Running
  <1> HIDE DEF R
  <1>3. a \in Seq(Nat) /\ x \in Seq(Nat) /\ ToSet(a) = R("agent") /\ ToSet(x) = R("x11")
    BY <1>1
  <1>4. \A l \in ToSet(a) \cup ToSet(x) : l \in 1 .. Len(lis) /\ lis[l].conn = c
    BY <1>1, <1>3
  <1> HIDE DEF a, x
  <1>5. a \o x \in Seq(Nat) /\ ToSet(a \o x) = ToSet(a) \cup ToSet(x)
    BY <1>3, ToSetConcat
  <1> QED BY <1>2, <1>4, <1>5, StopSome

LEMMA FollowingIs ==
    /\ Following("tcpip") = "agent" /\ Following("agent") = "x11"
    /\ Following("x11") = "streamlocal" /\ Following("streamlocal") = "gone"
  <1> DEFINE at4(k) == CHOOSE i \in 1..4 : AllKinds[i] = k
  <1>1. at4("tcpip") = 1 /\ at4("agent") = 2 /\ at4("x11") = 3 /\ at4("streamlocal") = 4
    BY DEF AllKinds
  <1>2. \A k : Following(k) = IF at4(k) = 4 THEN "gone" ELSE AllKinds[at4(k) + 1]
    BY DEF Following
  <1> HIDE DEF at4
  <1> QED BY <1>1, <1>2 DEF AllKinds

\* The teardown stops the listeners of the next kind; k is the step it comes to.
LEMMA NextKindStep ==
    ASSUME Inv, ConstantsOK, NEW c \in Conns, NEW k \in KindSet \cup {"gone"}, NEW hs \in Seq(Listener),
           at' = [at EXCEPT ![c] = k], file' = file, joining[c] = <<>>,
           Stops(c, SetToSeq(Registered(c, {k})), hs), Len(hs) = Len(lis),
           \A l \in 1 .. Len(lis) : Evolves(lis[l], hs[l]),
           Done(k) \subseteq Done(at[c]) \cup {k}
    PROVE  Inv'
  <1> DEFINE R == Registered(c, {k})
  <1>1. /\ SetToSeq(R) \in Seq(Nat) /\ ToSet(SetToSeq(R)) = R
        /\ \A l \in R : l \in 1 .. Len(lis) /\ lis[l].conn = c
        /\ R = {} => SetToSeq(R) = <<>>
    BY RegisteredSeq DEF Inv
  <1>2. at'[c] = k /\ at' \in [Conns -> KindSet \cup {"loop", "gone"}] /\ \A d \in Conns : d # c => at'[d] = at[d]
    BY DEF Inv, TypeOK
  <1>3. Len(lis) \in Nat /\ Ids = 1 .. Len(lis) /\ \A l \in 1 .. Len(lis) : lis[l].kind \in KindSet
    <2>1. \A l \in 1 .. Len(lis) : lis[l] \in Listener
      BY DEF Inv, TypeOK
    <2> QED BY <2>1 DEF Inv, TypeOK, Ids, Listener
  <1>4. k = "gone" => R = {}
    BY <1>3 DEF Registered, KindSet
  <1>5. \A l \in 1 .. Len(lis) : lis[l].conn = c /\ lis[l].kind \in Done(k) /\ lis[l].reg => l \in R
    <2> SUFFICES ASSUME NEW l \in 1 .. Len(lis), lis[l].conn = c, lis[l].kind \in Done(k), lis[l].reg
                 PROVE  l \in R
      OBVIOUS
    <2>1. lis[l].kind = k
      BY DEF Inv, TornDown
    <2> QED BY <1>3, <2>1 DEF Registered
  <1>6. PICK ls \in Seq(Nat) : ls = SetToSeq(R)
    BY <1>1
  <1> HIDE DEF R
  <1>7. Stops(c, ls, hs)
    BY <1>6 DEF R
  <1>8. ToSet(ls) = R /\ (k = "gone" => ls = <<>>)
    BY <1>1, <1>4, <1>6
  <1>9. ~(Len(hs) > Len(lis)) /\ Len(hs) >= Len(lis) /\ \A l \in 1 .. Len(hs) : ~(l > Len(lis))
    BY <1>3
  <1> QED BY <1>1, <1>2, <1>5, <1>7, <1>8, <1>9, StopStep

LEMMA LeavesStep ==
    ASSUME Inv, ConstantsOK, NEW c \in Conns, Leaves(c)
    PROVE  Inv'
  <1>1. lis \in Seq(Listener) /\ \A l \in 1 .. Len(lis) : Evolves(lis[l], lis[l])
    BY EvolvesSelf DEF Inv, TypeOK
  <1>2. AllKinds[1] = "tcpip"
    BY DEF AllKinds
  <1>3. /\ at' = [at EXCEPT ![c] = "tcpip"] /\ joining[c] = <<>> /\ file' = file
        /\ Stops(c, SetToSeq(Registered(c, {"tcpip"})), lis)
    BY <1>2 DEF Leaves, Running
  <1>4. PICK hs \in Seq(Listener) : hs = lis
    BY <1>1
  <1>5. "tcpip" \in KindSet \cup {"gone"} /\ Done("tcpip") \subseteq Done(at[c]) \cup {"tcpip"}
    BY DEF KindSet, Done
  <1> QED BY <1>1, <1>3, <1>4, <1>5, NextKindStep

LEMMA TeardownStep ==
    ASSUME Inv, ConstantsOK, NEW c \in Conns, Teardown(c)
    PROVE  Inv'
  <1> DEFINE pending == {l \in Ids : lis[l].conn = c /\ lis[l].kind = at[c] /\ lis[l].ask = "pending"}
             k == Following(at[c])
             L == IF k = "gone" THEN pending \cup Queued(c) ELSE pending
             hs == Reply(lis, L)
  <1>1. /\ Len(lis) \in Nat /\ Ids = 1 .. Len(lis)
        /\ \A l \in 1 .. Len(lis) : lis[l] \in Listener /\ Sound(lis[l]) /\ Evolves(lis[l], lis[l])
    BY EvolvesSelf DEF Inv, TypeOK, Ids, AllSound
  <1>2. \A l \in L : lis[l].ask # "none"
    BY DEF Queued
  <1>3. hs = [l \in 1 .. Len(lis) |-> IF l \in L THEN [lis[l] EXCEPT !.ask = "none", !.thread = "answered"] ELSE lis[l]]
    BY <1>1 DEF Reply, Ids
  <1>4. at[c] \in KindSet /\ joining[c] = <<>> /\ file' = file /\ at' = [at EXCEPT ![c] = k]
        /\ Stops(c, SetToSeq(Registered(c, {k})), hs)
    <2>1. ToSet(AllKinds) = KindSet
      BY DEF ToSet, AllKinds, KindSet
    <2> QED BY <2>1 DEF Teardown
  <1>5. k \in KindSet \cup {"gone"} /\ Done(k) \subseteq Done(at[c]) \cup {k}
    <2> HIDE DEF k
    <2>1. k = Following(at[c])
      BY DEF k
    <2>2. CASE at[c] = "tcpip"
      BY <2>1, <2>2, FollowingIs DEF Done, KindSet
    <2>3. CASE at[c] = "agent"
      BY <2>1, <2>3, FollowingIs DEF Done, KindSet
    <2>4. CASE at[c] = "x11"
      BY <2>1, <2>4, FollowingIs DEF Done, KindSet
    <2>5. CASE at[c] = "streamlocal"
      BY <2>1, <2>5, FollowingIs DEF Done, KindSet
    <2> QED BY <1>4, <2>2, <2>3, <2>4, <2>5 DEF KindSet
  <1> HIDE DEF pending, k, L, hs
  <1>6. \A l \in 1 .. Len(lis) : Evolves(lis[l], hs[l])
    <2> SUFFICES ASSUME NEW l \in 1 .. Len(lis) PROVE Evolves(lis[l], hs[l])
      OBVIOUS
    <2>1. CASE l \in L
      BY <1>1, <1>2, <1>3, <2>1, ReplyEvolves
    <2>2. CASE l \notin L
      BY <1>1, <1>3, <2>2
    <2> QED BY <2>1, <2>2
  <1>7. hs \in [1 .. Len(lis) -> Listener]
    BY <1>3, <1>6 DEF Evolves
  <1>8. hs \in Seq(Listener) /\ Len(hs) = Len(lis)
    BY <1>1, <1>7, FunIsSeq
  <1>9. PICK h2 \in Seq(Listener), k2 \in KindSet \cup {"gone"} : h2 = hs /\ k2 = k
    BY <1>5, <1>8
  <1> QED BY <1>4, <1>5, <1>6, <1>8, <1>9, NextKindStep

\* What both ends of a drop do: the listener h is taken from the list of its
\* connection, with nothing of it left to remove.
LEMMA PopStep ==
    ASSUME Inv, ConstantsOK, NEW c \in Conns, NEW h, joining[c] # <<>>, h = Head(joining[c]),
           joining' = [joining EXCEPT ![c] = Tail(joining[c])], UNCHANGED at,
           lis[h].thread = "ended", lis' \in Seq(Listener), Len(lis') = Len(lis), AllSound', ~lis'[h].same,
           \A l \in 1 .. Len(lis) :
              /\ lis'[l].conn = lis[l].conn /\ lis'[l].kind = lis[l].kind /\ lis'[l].key = lis[l].key
              /\ lis'[l].reg = lis[l].reg /\ lis'[l].thread = lis[l].thread /\ lis'[l].over = lis[l].over
              /\ lis'[l].same => lis[l].same,
           file' \in [Paths -> Nat], \A p \in Paths : file'[p] # h /\ (file'[p] = file[p] \/ file'[p] = 0),
           \A l \in Ids : lis[l].kind = "streamlocal" /\ lis[l].reg /\ lis[l].over = {} => file'[Path(l)] = l
    PROVE  Inv'
  <1>2. joining[c] \in Seq(Nat)
    BY DEF Inv, TypeOK
  <1>3. h \in ToSet(joining[c]) /\ Tail(joining[c]) \in Seq(Nat)
        /\ ToSet(joining[c]) = {h} \cup ToSet(Tail(joining[c]))
    BY <1>2, ToSetTail
  <1>4. /\ joining' \in [Conns -> Seq(Nat)] /\ joining'[c] = Tail(joining[c])
        /\ \A d \in Conns : d # c => joining'[d] = joining[d]
    BY <1>2, <1>3 DEF Inv, TypeOK
  <1>5. Ids = 1 .. Len(lis) /\ Ids' = 1 .. Len(lis) /\ h \in 1 .. Len(lis)
    BY <1>3 DEF Inv, TypeOK, Ids, Unmapped
  <1>6. TypeOK'
    BY <1>4 DEF Inv, TypeOK
  <1>7. Accounted'
    <2> SUFFICES ASSUME NEW l \in 1 .. Len(lis), ~lis'[l].reg,
                        lis'[l].thread # "ended" \/ lis'[l].same \/ \E p \in Paths : file'[p] = l
                 PROVE  l \in ToSet(joining'[lis'[l].conn])
      BY DEF Accounted
    <2>1. l # 0 /\ l # h /\ ~lis[l].reg
      BY <1>5
    <2>2. lis[l].thread # "ended" \/ lis[l].same \/ \E p \in Paths : file[p] = l
      BY <2>1
    <2>3. l \in ToSet(joining[lis[l].conn])
      BY <2>1, <2>2 DEF Inv, Accounted
    <2>4. lis[l] \in Listener
      BY DEF Inv, TypeOK
    <2>5. lis[l].conn \in Conns
      BY <2>4 DEF Listener
    <2> QED BY <1>3, <1>4, <2>1, <2>3, <2>5
  <1>8. Unmapped'
    <2> SUFFICES ASSUME NEW d \in Conns, NEW l \in ToSet(joining'[d])
                 PROVE  l \in 1 .. Len(lis) /\ ~lis'[l].reg /\ lis'[l].conn = d
      BY DEF Unmapped
    <2>1. l \in ToSet(joining[d])
      BY <1>3, <1>4
    <2> QED BY <2>1 DEF Inv, Unmapped
  <1>9. TornDown'
    <2>1. at[c] # "gone"
      BY DEF Inv, TornDown
    <2> QED BY <1>4, <2>1 DEF Inv, TornDown
  <1>10. InPlace'
    <2> SUFFICES ASSUME NEW p \in Paths, file'[p] # 0
                 PROVE  /\ file'[p] \in 1 .. Len(lis)
                        /\ lis'[file'[p]].kind = "streamlocal" /\ lis'[file'[p]].key = <<"path", p>>
      BY DEF InPlace
    <2>1. file'[p] = file[p]
      OBVIOUS
    <2>2. /\ file[p] \in 1 .. Len(lis)
          /\ lis[file[p]].kind = "streamlocal" /\ lis[file[p]].key = <<"path", p>>
      BY <2>1 DEF Inv, InPlace
    <2> QED BY <2>1, <2>2
  <1>11. OursOrNewer'
    <2> SUFFICES ASSUME NEW l \in 1 .. Len(lis), NEW p \in Paths, lis'[l].same, lis'[l].key = <<"path", p>>,
                        file'[p] # 0
                 PROVE  file'[p] = l \/ l \in lis'[file'[p]].over
      BY DEF OursOrNewer
    <2>1. file'[p] = file[p] /\ lis[l].same /\ lis[l].key = <<"path", p>>
      OBVIOUS
    <2>2. file[p] \in 1 .. Len(lis)
      BY <2>1 DEF Inv, InPlace
    <2> QED BY <2>1, <2>2 DEF Inv, OursOrNewer
  <1>12. SocketStays'
    BY <1>5 DEF SocketStays, Path
  <1>13. Capped'
    BY CappedKept DEF Inv
  <1> QED BY <1>6, <1>7, <1>8, <1>9, <1>10, <1>11, <1>12, <1>13 DEF Inv

\* The listener a connection is dropping, as the invariant knows it.
LEMMA HeadIs ==
    ASSUME Inv, NEW c \in Conns, joining[c] # <<>>, NEW h, h = Head(joining[c])
    PROVE  /\ h \in 1 .. Len(lis) /\ h \in Ids /\ lis[h] \in Listener /\ Sound(lis[h]) /\ ~lis[h].reg
           /\ h \in ToSet(joining[c]) /\ lis[h].conn = c
           /\ lis[h].kind = "streamlocal" => lis[h].key[2] \in Paths /\ lis[h].key = <<"path", lis[h].key[2]>>
  <1>1. joining[c] \in Seq(Nat)
    BY DEF Inv, TypeOK
  <1>2. h \in ToSet(joining[c])
    BY <1>1, ToSetTail
  <1>3. h \in 1 .. Len(lis) /\ h \in Ids /\ ~lis[h].reg /\ lis[h].conn = c
    BY <1>2 DEF Inv, TypeOK, Ids, Unmapped
  <1>4. lis[h] \in Listener /\ Sound(lis[h])
    BY <1>3 DEF Inv, TypeOK, AllSound
  <1>5. lis[h].key \in Tags \X (Ports \cup Paths \cup Nat)
    BY <1>4 DEF Listener
  <1> QED BY <1>2, <1>3, <1>4, <1>5 DEF Sound, Placed

\* A drop has joined its thread and looked at the file.
LEMMA JoinedStep ==
    ASSUME Inv, ConstantsOK, NEW c \in Conns, Joined(c)
    PROVE  Inv'
  <1>1. PICK h : h = Head(joining[c])
    OBVIOUS
  <1>2. /\ joining[c] # <<>> /\ lis[h].thread = "ended" /\ ~lis[h].same /\ UNCHANGED <<at, file>>
        /\ \/ /\ lis[h].kind = "streamlocal" /\ SameId(h, TRUE)
              /\ lis' = [lis EXCEPT ![h].same = TRUE] /\ joining' = joining
           \/ /\ lis[h].kind = "streamlocal" => SameId(h, FALSE)
              /\ joining' = [joining EXCEPT ![c] = Tail(joining[c])] /\ lis' = lis
    BY <1>1 DEF Joined, Live
  <1>3. /\ h \in 1 .. Len(lis) /\ h \in Ids /\ lis[h] \in Listener /\ Sound(lis[h]) /\ ~lis[h].reg
        /\ h \in ToSet(joining[c]) /\ lis[h].conn = c
        /\ lis[h].kind = "streamlocal" => lis[h].key[2] \in Paths /\ lis[h].key = <<"path", lis[h].key[2]>>
    BY <1>1, <1>2, HeadIs
  <1>4. CASE lis' = lis /\ joining' = [joining EXCEPT ![c] = Tail(joining[c])]
             /\ (lis[h].kind = "streamlocal" => SameId(h, FALSE))
    <2>1. \A p \in Paths : file[p] # h
      <3> SUFFICES ASSUME NEW p \in Paths, file[p] = h PROVE FALSE
        OBVIOUS
      <3>1. h # 0
        BY <1>3
      <3>2. lis[h].kind = "streamlocal" /\ lis[h].key = <<"path", p>>
        BY <3>1 DEF Inv, InPlace
      <3>3. lis[h].key[2] = p
        BY <3>2
      <3> QED BY <1>4, <3>2, <3>3 DEF SameId, Path
    <2>2. /\ lis' \in Seq(Listener) /\ AllSound' /\ file' \in [Paths -> Nat]
          /\ \A l \in Ids : lis[l].kind = "streamlocal" /\ lis[l].reg /\ lis[l].over = {} => file'[Path(l)] = l
      BY <1>2, <1>4 DEF Inv, TypeOK, AllSound, SocketStays
    <2> QED BY <1>1, <1>2, <1>4, <2>1, <2>2, PopStep
  <1>5. CASE lis[h].kind = "streamlocal" /\ SameId(h, TRUE) /\ lis' = [lis EXCEPT ![h].same = TRUE]
             /\ joining' = joining
    <2> DEFINE x == [lis[h] EXCEPT !.same = TRUE]
    <2>1. x \in Listener
      <3>1. lis[h] \in Listener /\ TRUE \in BOOLEAN
        BY <1>3
      <3> QED BY ONLY <3>1 DEF Listener
    <2>2. /\ x.conn = lis[h].conn /\ x.kind = lis[h].kind /\ x.key = lis[h].key /\ x.addr = lis[h].addr
          /\ x.reg = lis[h].reg /\ x.thread = lis[h].thread /\ x.ask = lis[h].ask
          /\ x.served = lis[h].served /\ x.over = lis[h].over /\ x.same = TRUE
      BY <1>3 DEF Listener
    <2>3. lis' = [lis EXCEPT ![h] = x] /\ lis \in [1 .. Len(lis) -> Listener]
      BY <1>3, <1>5 DEF Inv, TypeOK
    <2> HIDE DEF x
    <2>4. lis' \in [1 .. Len(lis) -> Listener] /\ lis'[h] = x /\ \A l \in 1 .. Len(lis) : l # h => lis'[l] = lis[l]
      BY <1>3, <2>1, <2>3
    <2>5. lis' \in Seq(Listener) /\ Len(lis') = Len(lis)
      <3>1. Len(lis) \in Nat
        BY DEF Inv, TypeOK
      <3> QED BY ONLY <2>4, <3>1, FunIsSeq
    <2>6. \A l \in 1 .. Len(lis) :
             /\ lis'[l].conn = lis[l].conn /\ lis'[l].kind = lis[l].kind /\ lis'[l].key = lis[l].key
             /\ lis'[l].reg = lis[l].reg /\ lis'[l].thread = lis[l].thread /\ lis'[l].over = lis[l].over
             /\ lis'[l].same => lis[l].same \/ l = h
      BY <2>2, <2>4
    <2>7. Ids = 1 .. Len(lis) /\ Ids' = 1 .. Len(lis)
      BY <2>5 DEF Inv, TypeOK, Ids
    <2>8. TypeOK' /\ TornDown' /\ Unmapped'
      BY <1>2, <1>5, <2>5, <2>6 DEF Inv, TypeOK, TornDown, Unmapped
    <2>9. AllSound'
      <3> SUFFICES ASSUME NEW l \in 1 .. Len(lis) PROVE Sound(lis'[l])
        BY <2>5 DEF AllSound
      <3>1. CASE l = h
        BY <1>2, <1>3, <1>5, <2>2, <2>4, <3>1 DEF Sound, Waits, OneOnly, Loopback, Placed, Compared
      <3>2. CASE l # h
        BY <2>4, <3>2 DEF Inv, AllSound
      <3> QED BY <3>1, <3>2
    <2>10. Accounted'
      <3> SUFFICES ASSUME NEW l \in 1 .. Len(lis), ~lis'[l].reg,
                          lis'[l].thread # "ended" \/ lis'[l].same \/ \E p \in Paths : file[p] = l
                   PROVE  l \in ToSet(joining[lis'[l].conn])
        BY <1>2, <1>5, <2>5 DEF Accounted
      <3>1. CASE l = h
        BY <1>3, <2>6, <3>1
      <3>2. CASE l # h
        BY <2>4, <3>2 DEF Inv, Accounted
      <3> QED BY <3>1, <3>2
    <2>11. InPlace'
      BY <1>2, <2>5, <2>6 DEF Inv, InPlace
    <2>12. OursOrNewer'
      <3> SUFFICES ASSUME NEW l \in 1 .. Len(lis), NEW p \in Paths, lis'[l].same, lis'[l].key = <<"path", p>>,
                          file[p] # 0
                   PROVE  file[p] = l \/ l \in lis'[file[p]].over
        BY <1>2, <2>5 DEF OursOrNewer
      <3>1. file[p] \in 1 .. Len(lis)
        BY DEF Inv, InPlace
      <3>2. lis'[file[p]].over = lis[file[p]].over /\ lis[l].key = <<"path", p>>
        BY <2>6, <3>1
      <3>3. CASE l = h
        <4>1. lis[h].key[2] = p
          BY <3>2, <3>3
        <4> QED BY <1>5, <3>2, <3>3, <4>1 DEF SameId, Path
      <3>4. CASE l # h
        BY <2>6, <3>2, <3>4 DEF Inv, OursOrNewer
      <3> QED BY <3>3, <3>4
    <2>13. SocketStays'
      BY <1>2, <2>6, <2>7 DEF Inv, SocketStays, Path
    <2>14. Capped'
      BY <2>5, <2>6, CappedKept DEF Inv
    <2> QED BY <2>8, <2>9, <2>10, <2>11, <2>12, <2>13, <2>14 DEF Inv
  <1> QED BY <1>2, <1>4, <1>5

\* ... and removes what is there.
LEMMA RemovesStep ==
    ASSUME Inv, ConstantsOK, NEW c \in Conns, Removes(c)
    PROVE  Inv'
  <1>1. PICK h : h = Head(joining[c])
    OBVIOUS
  <1>2. /\ joining[c] # <<>> /\ lis[h].same /\ lis' = [lis EXCEPT ![h].same = FALSE]
        /\ joining' = [joining EXCEPT ![c] = Tail(joining[c])]
        /\ file' = [file EXCEPT ![lis[h].key[2]] = 0] /\ UNCHANGED at
    BY <1>1 DEF Removes, Path
  <1>3. /\ h \in 1 .. Len(lis) /\ h \in Ids /\ lis[h] \in Listener /\ Sound(lis[h]) /\ ~lis[h].reg
        /\ h \in ToSet(joining[c]) /\ lis[h].conn = c
        /\ lis[h].kind = "streamlocal" => lis[h].key[2] \in Paths /\ lis[h].key = <<"path", lis[h].key[2]>>
    BY <1>1, <1>2, HeadIs
  <1>4. /\ lis[h].thread = "ended" /\ lis[h].kind = "streamlocal"
        /\ lis[h].key[2] \in Paths /\ lis[h].key = <<"path", lis[h].key[2]>>
    BY <1>2, <1>3 DEF Sound, Compared
  <1> DEFINE x == [lis[h] EXCEPT !.same = FALSE]
  <1>5. x \in Listener
    <2>1. lis[h] \in Listener /\ FALSE \in BOOLEAN
      BY <1>3
    <2> QED BY ONLY <2>1 DEF Listener
  <1>6. /\ x.conn = lis[h].conn /\ x.kind = lis[h].kind /\ x.key = lis[h].key /\ x.addr = lis[h].addr
        /\ x.reg = lis[h].reg /\ x.thread = lis[h].thread /\ x.ask = lis[h].ask
        /\ x.served = lis[h].served /\ x.over = lis[h].over /\ x.same = FALSE
    BY <1>3 DEF Listener
  <1>7. lis' = [lis EXCEPT ![h] = x] /\ lis \in [1 .. Len(lis) -> Listener]
    BY <1>2, <1>3 DEF Inv, TypeOK
  <1> HIDE DEF x
  <1>8. lis' \in [1 .. Len(lis) -> Listener] /\ lis'[h] = x /\ \A l \in 1 .. Len(lis) : l # h => lis'[l] = lis[l]
    BY <1>3, <1>5, <1>7
  <1>9. lis' \in Seq(Listener) /\ Len(lis') = Len(lis)
    <2>1. Len(lis) \in Nat
      BY DEF Inv, TypeOK
    <2> QED BY ONLY <1>8, <2>1, FunIsSeq
  <1>10. AllSound'
    <2> SUFFICES ASSUME NEW l \in 1 .. Len(lis) PROVE Sound(lis'[l])
      BY <1>9 DEF AllSound
    <2>1. CASE l = h
      BY <1>3, <1>6, <1>8, <2>1 DEF Sound, Waits, OneOnly, Loopback, Placed, Compared
    <2>2. CASE l # h
      BY <1>8, <2>2 DEF Inv, AllSound
    <2> QED BY <2>1, <2>2
  <1>11. \A l \in 1 .. Len(lis) :
            /\ lis'[l].conn = lis[l].conn /\ lis'[l].kind = lis[l].kind /\ lis'[l].key = lis[l].key
            /\ lis'[l].reg = lis[l].reg /\ lis'[l].thread = lis[l].thread /\ lis'[l].over = lis[l].over
            /\ lis'[l].same => lis[l].same
    BY <1>6, <1>8
  <1>12. ~lis'[h].same
    BY <1>6, <1>8
  <1>13. file' \in [Paths -> Nat] /\ \A p \in Paths : file'[p] = IF p = lis[h].key[2] THEN 0 ELSE file[p]
    BY <1>2 DEF Inv, TypeOK
  <1>14. \A p \in Paths : file'[p] # h
    <2> SUFFICES ASSUME NEW p \in Paths, file'[p] = h PROVE FALSE
      OBVIOUS
    <2>1. h # 0 /\ p # lis[h].key[2] /\ file[p] = h
      BY <1>3, <1>13
    <2>2. lis[h].key = <<"path", p>>
      BY <2>1 DEF Inv, InPlace
    <2> QED BY <2>1, <2>2
  <1>15. \A l \in Ids : lis[l].kind = "streamlocal" /\ lis[l].reg /\ lis[l].over = {} => file'[Path(l)] = l
    <2> SUFFICES ASSUME NEW l \in Ids, lis[l].kind = "streamlocal", lis[l].reg, lis[l].over = {}
                 PROVE  file'[Path(l)] = l
      OBVIOUS
    <2>0. l \in 1 .. Len(lis) /\ l # 0
      BY DEF Inv, TypeOK, Ids
    <2>1. file[Path(l)] = l /\ l \in 1 .. Len(lis) /\ l # h /\ l # 0
      BY <1>3, <2>0 DEF Inv, SocketStays
    <2>2. Path(l) \in Paths
      BY <2>1 DEF Inv, AllSound, Sound, Placed, Path
    <2>3. Path(l) # lis[h].key[2]
      <3> SUFFICES ASSUME Path(l) = lis[h].key[2] PROVE FALSE
        OBVIOUS
      <3>1. file[lis[h].key[2]] = l
        BY <2>1
      <3>2. l \in {0, h} \/ h \in lis[l].over
        BY <1>2, <1>3, <1>4, <3>1 DEF Inv, OursOrNewer
      <3> QED BY <2>1, <3>2
    <2> QED BY <1>13, <2>1, <2>2, <2>3
  <1> QED BY <1>1, <1>2, <1>4, <1>9, <1>10, <1>11, <1>12, <1>13, <1>14, <1>15, PopStep

\* A forward is opened: x is new, and with a Unix socket its path is taken.
LEMMA OpenStep ==
    ASSUME Inv, ConstantsOK, NEW c \in Conns, NEW x \in Listener, Sound(x), x.conn = c, x.reg, ~x.same,
           x.kind \in Forwards, Running(c), forward_bindings_below_cap(c), lis' = Append(lis, x),
           UNCHANGED <<at, joining>>,
           \/ x.kind = "tcpip" /\ file' = file
           \/ \E p \in Paths : /\ x.kind = "streamlocal" /\ x.key = <<"path", p>> /\ x.over = Dropping(p)
                               /\ ~\E l \in Ids : lis[l].reg /\ lis[l].key = <<"path", p>>
                               /\ file' = [file EXCEPT ![p] = Len(lis) + 1]
    PROVE  Inv'
  <1> DEFINE n == Len(lis)
  <1>1. n \in Nat /\ Ids = 1 .. n /\ lis \in Seq(Listener) /\ joining[c] = <<>> /\ at[c] = "loop"
    BY DEF Inv, TypeOK, Ids, Running
  <1>2. /\ lis' \in Seq(Listener) /\ Len(lis') = n + 1 /\ lis'[n + 1] = x
        /\ \A l \in 1 .. n : lis'[l] = lis[l]
    BY <1>1
  <1>3. \A l \in 1 .. n + 1 : l \in 1 .. n \/ l = n + 1
    BY <1>1
  <1>4. file' \in [Paths -> Nat] /\ \A l \in 1 .. n : \A q \in Paths : file'[q] = l => file[q] = l
    <2>1. CASE file' = file
      BY <2>1 DEF Inv, TypeOK
    <2>2. ASSUME NEW p \in Paths, file' = [file EXCEPT ![p] = n + 1]
          PROVE  file' \in [Paths -> Nat] /\ \A l \in 1 .. n : \A q \in Paths : file'[q] = l => file[q] = l
      BY <1>1, <2>2 DEF Inv, TypeOK
    <2> QED BY <2>1, <2>2
  <1> HIDE DEF n
  <1>5. n = Len(lis)
    BY DEF n
  <1>6. TypeOK'
    BY <1>2, <1>4 DEF Inv, TypeOK
  <1>7. AllSound'
    BY <1>2, <1>3, <1>5 DEF Inv, AllSound
  <1>8. Accounted'
    <2> SUFFICES ASSUME NEW l \in 1 .. n + 1, ~lis'[l].reg,
                        lis'[l].thread # "ended" \/ lis'[l].same \/ \E p \in Paths : file'[p] = l
                 PROVE  l \in ToSet(joining[lis'[l].conn])
      BY <1>2 DEF Accounted
    <2>1. l \in 1 .. n /\ lis'[l] = lis[l]
      BY <1>2, <1>3
    <2> QED BY <1>4, <1>5, <2>1 DEF Inv, Accounted
  <1>9. Unmapped'
    <2> SUFFICES ASSUME NEW d \in Conns, NEW l \in ToSet(joining[d])
                 PROVE  l \in 1 .. n + 1 /\ ~lis'[l].reg /\ lis'[l].conn = d
      BY <1>2 DEF Unmapped
    <2>1. l \in 1 .. n /\ ~lis[l].reg /\ lis[l].conn = d
      BY <1>5 DEF Inv, Unmapped
    <2> QED BY <1>1, <1>2, <2>1
  <1>10. TornDown'
    <2>1. Done("loop") = {}
      BY DEF Done
    <2> QED BY <1>1, <1>2, <1>3, <1>5, <2>1 DEF Inv, TornDown
  <1>11. SocketStays'
    <2> SUFFICES ASSUME NEW l \in 1 .. n + 1, lis'[l].kind = "streamlocal", lis'[l].reg, lis'[l].over = {}
                 PROVE  file'[lis'[l].key[2]] = l
      BY <1>1, <1>2 DEF SocketStays, Ids, Path
    <2>1. CASE l \in 1 .. n
      <3>1. lis'[l] = lis[l] /\ file[lis[l].key[2]] = l
        BY <1>1, <1>2, <2>1 DEF Inv, SocketStays, Path
      <3>2. CASE file' = file
        BY <3>1, <3>2
      <3>3. ASSUME NEW p \in Paths, ~\E k \in Ids : lis[k].reg /\ lis[k].key = <<"path", p>>,
                   file' = [file EXCEPT ![p] = Len(lis) + 1]
            PROVE  file'[lis'[l].key[2]] = l
        <4>1. lis[l] \in Listener /\ Sound(lis[l])
          BY <1>5, <2>1 DEF Inv, TypeOK, AllSound
        <4>2. lis[l].key \in Tags \X (Ports \cup Paths \cup Nat)
          BY <4>1 DEF Listener
        <4>3. lis[l].key[1] = "path" /\ lis[l].key[2] \in Paths
          BY <3>1, <4>1 DEF Sound, Placed
        <4>4. lis[l].key = <<"path", lis[l].key[2]>>
          BY <4>2, <4>3
        <4>5. lis[l].key[2] # p
          BY <1>1, <2>1, <3>1, <3>3, <4>4
        <4> QED BY <3>1, <3>3, <4>3, <4>5 DEF Inv, TypeOK
      <3> QED BY <3>2, <3>3
    <2>2. CASE l = n + 1
      <3>1. lis'[l] = x
        BY <1>2, <2>2
      <3>2. PICK p \in Paths : x.key = <<"path", p>> /\ file' = [file EXCEPT ![p] = Len(lis) + 1]
        BY <3>1
      <3> QED BY <1>5, <2>2, <3>1, <3>2 DEF Inv, TypeOK
    <2> QED BY <1>3, <2>1, <2>2
  <1>12. Capped'
    <2> SUFFICES ASSUME NEW d \in Conns
                 PROVE  Cardinality({l \in Ids : lis[l].conn = d /\ Live(l) /\ lis[l].kind \in Forwards})' <= Cap
      BY DEF Capped
    <2> DEFINE S == {l \in Ids : lis[l].conn = d /\ Live(l) /\ lis[l].kind \in Forwards}
               R == Registered(c, Forwards)
    <2>1. Ids' = 1 .. n + 1
      BY <1>2 DEF Ids
    <2>2. IsFiniteSet(1 .. n) /\ S \in SUBSET (1 .. n) /\ R \in SUBSET (1 .. n)
      <3>1. IsFiniteSet(1 .. n)
        BY <1>1, FS_Interval
      <3> QED BY <1>1, <3>1 DEF Registered
    <2>3. IsFiniteSet(S) /\ IsFiniteSet(R) /\ Cardinality(S) \in Nat /\ Cardinality(R) \in Nat
      BY <2>2, FS_Subset, FS_CardinalityType
    <2>4. Cardinality(S) <= Cap
      BY DEF Inv, Capped
    <2>5. CASE d # c
      <3>1. S' = S
        BY <1>1, <1>2, <1>3, <2>1, <2>5 DEF Live
      <3> QED BY <2>4, <3>1
    <2>6. CASE d = c
      <3>1. S \in SUBSET R
        <4> SUFFICES ASSUME NEW l \in S PROVE lis[l].reg
          BY <2>6 DEF Registered
        <4>1. l \in 1 .. n /\ lis[l].conn = c /\ lis[l].thread # "ended"
          BY <1>1, <2>6 DEF Live
        <4>2. ToSet(joining[c]) = {}
          BY <1>1 DEF ToSet
        <4> QED BY <1>5, <4>1, <4>2 DEF Inv, Accounted
      <3>2. Cardinality(S) <= Cardinality(R) /\ Cardinality(R) < Cap
        BY <2>3, <3>1, FS_Subset DEF forward_bindings_below_cap
      <3>3. S' \in SUBSET (S \cup {n + 1})
        BY <1>1, <1>2, <1>3, <2>1, <2>6 DEF Live
      <3> HIDE DEF S, R
      <3> DEFINE T == S \cup {n + 1}
      <3>4. IsFiniteSet(T) /\ Cardinality(T) = IF n + 1 \in S THEN Cardinality(S) ELSE Cardinality(S) + 1
        BY <2>3, FS_AddElement
      <3>5. IsFiniteSet(S') /\ Cardinality(S') <= Cardinality(T)
        BY <3>3, <3>4, FS_Subset
      <3>6. Cardinality(T) \in Nat /\ Cardinality(S') \in Nat
        BY <3>4, <3>5, FS_CardinalityType
      <3>7. Cardinality(S') <= Cap
        BY <2>3, <3>2, <3>4, <3>5, <3>6 DEF ConstantsOK
      <3> QED BY <3>7 DEF S
    <2> QED BY <2>5, <2>6
  <1>13. InPlace'
    <2> SUFFICES ASSUME NEW q \in Paths, file'[q] # 0
                 PROVE  /\ file'[q] \in 1 .. n + 1
                        /\ lis'[file'[q]].kind = "streamlocal" /\ lis'[file'[q]].key = <<"path", q>>
      BY <1>2 DEF InPlace
    <2>1. CASE file'[q] = file[q]
      <3>1. file[q] \in 1 .. n /\ lis[file[q]].kind = "streamlocal" /\ lis[file[q]].key = <<"path", q>>
        BY <1>5, <2>1 DEF Inv, InPlace
      <3> QED BY <1>1, <1>2, <2>1, <3>1
    <2>2. CASE file'[q] # file[q]
      <3>1. x.kind = "streamlocal" /\ x.key = <<"path", q>> /\ file'[q] = n + 1
        BY <1>5, <2>2 DEF Inv, TypeOK
      <3> QED BY <1>1, <1>2, <3>1
    <2> QED BY <2>1, <2>2
  <1>14. OursOrNewer'
    <2> SUFFICES ASSUME NEW l \in 1 .. n + 1, NEW q \in Paths, lis'[l].same, lis'[l].key = <<"path", q>>
                 PROVE  file'[q] = 0 \/ file'[q] = l \/ l \in lis'[file'[q]].over
      BY <1>2 DEF OursOrNewer
    <2>1. l \in 1 .. n /\ lis'[l] = lis[l] /\ lis[l].same /\ lis[l].key = <<"path", q>>
      BY <1>2, <1>3
    <2>2. CASE file'[q] = file[q]
      <3>1. file[q] # 0 => file[q] \in 1 .. n /\ lis'[file[q]] = lis[file[q]]
        BY <1>2, <1>5 DEF Inv, InPlace
      <3> QED BY <1>5, <2>1, <2>2, <3>1 DEF Inv, OursOrNewer
    <2>3. CASE file'[q] # file[q]
      <3>1. x.over = Dropping(q) /\ file'[q] = n + 1
        BY <1>5, <2>3 DEF Inv, TypeOK
      <3>2. lis[l] \in Listener /\ Sound(lis[l])
        BY <1>5, <2>1 DEF Inv, TypeOK, AllSound
      <3>3. lis[l].thread = "ended" /\ ~lis[l].reg /\ lis[l].conn \in Conns
        BY <2>1, <3>2 DEF Sound, Compared, Listener
      <3>4. l \in ToSet(joining[lis[l].conn])
        BY <1>5, <2>1, <3>3 DEF Inv, Accounted
      <3>5. l \in Dropping(q)
        BY <1>1, <2>1, <3>3, <3>4 DEF Dropping, Live
      <3> QED BY <1>2, <3>1, <3>5
    <2> QED BY <2>2, <2>3
  <1> QED BY <1>6, <1>7, <1>8, <1>9, <1>10, <1>11, <1>12, <1>13, <1>14 DEF Inv

LEMMA FreshListener ==
    ASSUME NEW c \in Conns, NEW kind \in Forwards, NEW addr \in Tags \cup {None},
           NEW key \in Tags \X (Ports \cup Paths \cup Nat), Loopback([kind |-> kind, addr |-> addr]),
           Placed([kind |-> kind, key |-> key]), NEW over \in SUBSET Nat
    PROVE  LET x == Fresh(c, kind, key, addr, over)
           IN  /\ x \in Listener /\ Sound(x) /\ x.conn = c /\ x.reg /\ x.kind = kind /\ x.key = key
               /\ ~x.same /\ x.over = over
  <1> DEFINE x == Fresh(c, kind, key, addr, over)
  <1>1. x = [conn |-> c, kind |-> kind, key |-> key, addr |-> addr, sess |-> None, reg |-> TRUE,
             stop |-> FALSE, thread |-> "poll", ask |-> "none", served |-> 0, same |-> FALSE, over |-> over]
    BY DEF Fresh
  <1> HIDE DEF x
  <1>2. kind \in KindSet
    BY DEF Forwards, KindSet
  <1>3. x \in Listener
    BY <1>1, <1>2 DEF Listener
  <1>4. Sound(x)
    BY <1>1 DEF Sound, Waits, OneOnly, Loopback, Placed, Compared
  <1> QED BY <1>1, <1>3, <1>4 DEF x

LEMMA TcpipStep ==
    ASSUME Inv, ConstantsOK, NEW c \in Conns, NEW a \in Addrs, NEW p \in Ports, TcpipForward(c, a, p)
    PROVE  Inv'
  <1> DEFINE bind == apply_gateway_ports(a)
             addr == resolve_bind(bind)
             x == Fresh(c, "tcpip", <<bind, p>>, addr, {})
  <1>1. /\ bind \in {"any", "loop", "lan"} /\ addr \in {"any", "loop", "lan", None}
        /\ Gateway = "no" => addr = "loop"
    BY DEF ConstantsOK, apply_gateway_ports, resolve_bind, coerce_to_loopback
  <1>2. /\ lis' = Append(lis, x) /\ UNCHANGED <<at, joining, file>> /\ Running(c)
        /\ forward_bindings_below_cap(c)
    BY DEF TcpipForward
  <1> HIDE DEF bind, addr
  <1>3. <<bind, p>> \in Tags \X (Ports \cup Paths \cup Nat) /\ addr \in Tags \cup {None} /\ "tcpip" \in Forwards
    BY <1>1 DEF Tags, Forwards
  <1>4. Loopback([kind |-> "tcpip", addr |-> addr]) /\ Placed([kind |-> "tcpip", key |-> <<bind, p>>])
    BY <1>1 DEF Loopback, Placed
  <1>5. x \in Listener /\ Sound(x) /\ x.conn = c /\ x.reg /\ x.kind = "tcpip" /\ ~x.same
    BY <1>3, <1>4, FreshListener
  <1> HIDE DEF x
  <1>6. PICK y \in Listener : y = x
    BY <1>5
  <1> QED BY <1>2, <1>5, <1>6, <1>3, OpenStep

LEMMA StreamlocalStep ==
    ASSUME Inv, ConstantsOK, NEW c \in Conns, NEW p \in Paths, StreamlocalForward(c, p)
    PROVE  Inv'
  <1> DEFINE x == Fresh(c, "streamlocal", <<"path", p>>, None, Dropping(p))
  <1>1. /\ lis' = Append(lis, x) /\ UNCHANGED <<at, joining>> /\ Running(c)
        /\ forward_bindings_below_cap(c) /\ file' = [file EXCEPT ![p] = Len(lis) + 1]
        /\ ~\E l \in Ids : lis[l].reg /\ lis[l].key = <<"path", p>>
    BY DEF StreamlocalForward
  <1>2. <<"path", p>> \in Tags \X (Ports \cup Paths \cup Nat) /\ "streamlocal" \in Forwards
    BY DEF Tags, Forwards
  <1>3. Loopback([kind |-> "streamlocal", addr |-> None]) /\ Placed([kind |-> "streamlocal", key |-> <<"path", p>>])
    BY DEF Loopback, Placed
  <1>4. Dropping(p) \in SUBSET Nat
    BY DEF Inv, TypeOK, Ids, Dropping
  <1>5. /\ x \in Listener /\ Sound(x) /\ x.conn = c /\ x.reg /\ x.kind = "streamlocal" /\ x.key = <<"path", p>>
        /\ ~x.same /\ x.over = Dropping(p)
    BY <1>2, <1>3, <1>4, FreshListener
  <1> HIDE DEF x
  <1> QED BY <1>1, <1>2, <1>5, OpenStep

LEMMA InitInv ==
    ASSUME ConstantsOK, Init
    PROVE  Inv
  <1>1. lis = <<>> /\ Len(lis) = 0 /\ 1 .. 0 = {} /\ Ids = {}
    BY DEF Init, Ids
  <1>2. \A c \in Conns : joining[c] = <<>> /\ ToSet(joining[c]) = {} /\ at[c] = "loop"
    BY DEF Init, ToSet
  <1>3. TypeOK
    BY DEF Init, TypeOK
  <1>4. AllSound /\ Accounted /\ Unmapped /\ TornDown /\ SocketStays /\ OursOrNewer
    BY <1>1, <1>2 DEF AllSound, Accounted, Unmapped, TornDown, SocketStays, OursOrNewer
  <1>6. InPlace
    BY DEF Init, InPlace
  <1>5. Capped
    <2> SUFFICES ASSUME NEW c \in Conns
                 PROVE  Cardinality({l \in Ids : lis[l].conn = c /\ Live(l) /\ lis[l].kind \in Forwards}) <= Cap
      BY DEF Capped
    <2>1. {l \in Ids : lis[l].conn = c /\ Live(l) /\ lis[l].kind \in Forwards} = {}
      BY <1>1
    <2> QED BY <2>1, FS_EmptySet DEF ConstantsOK
  <1> QED BY <1>3, <1>4, <1>5, <1>6 DEF Inv

LEMMA StepInv ==
    ASSUME ConstantsOK, Inv, [Next]_vars
    PROVE  Inv'
  <1>1. CASE UNCHANGED vars
    <2>1. UNCHANGED <<lis, at, joining, file>>
      BY <1>1 DEF vars
    <2> QED BY <2>1 DEF Inv, TypeOK, AllSound, Accounted, Unmapped, TornDown, InPlace, OursOrNewer,
                 SocketStays, Capped, Sound, Waits, OneOnly, Loopback, Placed, Compared, Live, Ids, Path
  <1>2. ASSUME NEW c \in Conns, Opens(c) PROVE Inv'
    BY <1>2, TcpipStep, StreamlocalStep, SetUpStep DEF Opens, AuthAgentReq, X11Req
  <1>3. ASSUME NEW c \in Conns, Loop(c) PROVE Inv'
    BY <1>3, LoopStep, JoinedStep, RemovesStep, TeardownStep DEF Loop
  <1>4. CASE Next
    BY <1>2, <1>3, <1>4, LeavesStep, CancelStep, CloseSessionStep, WorkStep DEF Next
  <1> QED BY <1>1, <1>4

LEMMA InvImplies ==
    ASSUME ConstantsOK, Inv
    PROVE  ListenersKept
  <1>1. Ids = 1 .. Len(lis) /\ \A l \in Ids : lis[l] \in Listener /\ Sound(lis[l])
    BY DEF Inv, TypeOK, Ids, AllSound
  <1>2. NothingLeft
    <2> SUFFICES ASSUME NEW c \in Conns, at[c] = "gone", NEW l \in Ids, lis[l].conn = c
                 PROVE  ~Live(l) /\ ~lis[l].reg /\ \A p \in Paths : file[p] # l
      BY DEF NothingLeft
    <2>1. lis[l].kind \in KindSet /\ Done("gone") = KindSet
      BY <1>1 DEF Listener, Done
    <2>2. ~lis[l].reg /\ joining[c] = <<>>
      BY <1>1, <2>1 DEF Inv, TornDown
    <2>3. ToSet(joining[c]) = {}
      BY <2>2 DEF ToSet
    <2> QED BY <1>1, <2>2, <2>3 DEF Inv, Accounted, Live
  <1>3. OnLoopback /\ SingleOnce
    <2>1. \A l \in Ids : lis[l].served \in Nat
      BY <1>1 DEF Listener
    <2> QED BY <1>1, <2>1 DEF OnLoopback, SingleOnce, Sound, Loopback, OneOnly
  <1> QED BY <1>2, <1>3 DEF Inv, ListenersKept

\* For any number of connections and listeners and in any interleaving of the
\* threads of the listeners, the loops and the clients: a connection that is
\* gone has left no listener and no socket behind; a socket that was not bound
\* while an earlier binding of its path was being dropped stays as long as it is
\* listened on, whatever is dropped later; forwards stay within
\* max_forward_bindings and, without GatewayPorts, on the loopback address; and a
\* display for one connection serves one.
THEOREM Kept ==
    ASSUME ConstantsOK
    PROVE  Spec => []ListenersKept
  <1>1. Init => Inv
    BY InitInv
  <1>2. Inv /\ [Next]_vars => Inv'
    BY StepInv
  <1>3. Inv => ListenersKept
    BY InvImplies
  <1> QED BY <1>1, <1>2, <1>3, PTL DEF Spec
=============================================================================
