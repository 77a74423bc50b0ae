--------------------------- MODULE ClientForwards ---------------------------
(* The forwards that are added to and taken from a running ssh, by its       *)
(* control connections and its escape command line (bin/ssh.rs, MuxForwards, *)
(* RemoteRoutes, the local listeners): threads that share a table of         *)
(* listeners, a table of routes and one connection to the server.            *)
EXTENDS Integers, Sequences, SequencesExt, FiniteSets

CONSTANTS
  Actors,      \* the threads that add and cancel
  Specs,       \* -L and -D specifications: the keys of the table of listeners
  AddrOf,      \* AddrOf[spec]: the address it binds
  Binds,       \* addresses a -R asks the server for
  Ports,       \* ports
  Dests,       \* local destinations of a -R
  Normalises,  \* the server may name a listener by an address of its own
  MaxOps       \* operations in all

VARIABLES
  listeners,   \* spec -> the listener in the table, 0 if none
  lis,         \* the listener threads: [spec, stop, live, backlog]
  served,      \* the connections that were accepted: [id, stop]
  routes,      \* <<bind, port>> -> the destination, "none" if there is none
  bound,       \* the server's listeners: <<bind, port>> -> destination asked for, or "none"
  wire,        \* from the server, in order: answers and channels
  routed,      \* the last channel that was dispatched: [calm, meant, got]
  raced,       \* history: the ports on which two operations overlapped
  pc,          \* each actor's step: <<"idle">>, <<step, ...>>
  ops
vars == <<listeners, lis, served, routes, bound, wire, routed, raced, pc, ops>>
local == <<listeners, lis, served>>
remote == <<routes, bound, wire, routed, raced>>

Listens == Binds \X Ports
Init ==
  /\ listeners = [s \in Specs |-> 0] /\ lis = <<>> /\ served = {}
  /\ routes = [l \in Listens |-> "none"] /\ bound = [l \in Listens |-> "none"] /\ wire = <<>>
  /\ routed = [calm |-> FALSE, meant |-> "none", got |-> {}] /\ raced = {}
  /\ pc = [a \in Actors |-> <<"idle">>] /\ ops = 0

Begin(a) == pc[a] = <<"idle">> /\ ops < MaxOps /\ ops' = ops + 1
Goes(a, step) == pc' = [pc EXCEPT ![a] = step]

----------------------------------------------------------------------------
(* Local listeners.                                                          *)

\* handle, -L or -D: the address is bound and a thread accepts there, before the table knows.
InUse(addr) == \E i \in DOMAIN lis : lis[i].live /\ AddrOf[lis[i].spec] = addr
AddLocal(a, s) ==
  /\ Begin(a)
  /\ IF InUse(AddrOf[s]) THEN UNCHANGED <<lis, pc>>
     ELSE /\ lis' = Append(lis, [spec |-> s, stop |-> FALSE, live |-> TRUE, backlog |-> <<>>])
          /\ Goes(a, <<"insert", s, Len(lis) + 1>>)
  /\ UNCHANGED <<listeners, served, remote>>
InsertLocal(a) ==
  /\ pc[a][1] = "insert"
  /\ listeners' = [listeners EXCEPT ![pc[a][2]] = pc[a][3]] /\ Goes(a, <<"idle">>)
  /\ UNCHANGED <<lis, served, remote, ops>>

\* handle and cancel_listen, cancelling: out of the table, the flag, and a connection to wake it.
CancelLocal(a, s) ==
  /\ Begin(a)
  /\ IF listeners[s] = 0 THEN UNCHANGED <<listeners, lis, pc>>
     ELSE /\ listeners' = [listeners EXCEPT ![s] = 0]
          /\ lis' = [lis EXCEPT ![listeners[s]].stop = TRUE]
          /\ Goes(a, <<"wake", listeners[s]>>)
  /\ UNCHANGED <<served, remote>>

Wake(a) ==
  /\ pc[a][1] = "wake" /\ Goes(a, <<"idle">>)
  /\ lis' = [lis EXCEPT ![pc[a][2]].backlog = IF lis[pc[a][2]].live THEN Append(@, "wake") ELSE @]
  /\ UNCHANGED <<listeners, served, remote, ops>>

\* Somebody connects to a listener.
Connects(i) ==
  /\ lis[i].live /\ ~Contains(lis[i].backlog, "user")
  /\ lis' = [lis EXCEPT ![i].backlog = Append(@, "user")]
  /\ UNCHANGED <<listeners, served, remote, pc, ops>>

\* spawn_local_forward_listener and its like: the flag is looked at with each connection.
Accept(i) ==
  /\ lis[i].live /\ lis[i].backlog # <<>>
  /\ IF lis[i].stop THEN lis' = [lis EXCEPT ![i].live = FALSE, ![i].backlog = <<>>] /\ UNCHANGED served
     ELSE /\ lis' = [lis EXCEPT ![i].backlog = Tail(@)]
          /\ served' = served \cup {[id |-> i, stop |-> lis[i].stop]}
  /\ UNCHANGED <<listeners, remote, pc, ops>>

----------------------------------------------------------------------------
(* Remote listeners.                                                         *)

\* handle, -R: the server is asked to listen for dest, or no longer ("none"), and the thread waits
\* for its answer.  (The server, external, binds what is free and answers.)
Busy(port) == \E a \in Actors : pc[a][1] \in {"asked", "answered"} /\ pc[a][2][2] = port
AskRemote(a, l, dest) ==
  /\ Begin(a)
  /\ Goes(a, <<"asked", l, dest>>)
  /\ LET ok == (bound[l] = "none") = (dest # "none") IN
     /\ wire' = Append(wire, [type |-> "answer", actor |-> a, ok |-> ok, l |-> l, exact |-> TRUE, meant |-> dest])
     /\ bound' = IF ok THEN [bound EXCEPT ![l] = dest] ELSE bound
  /\ raced' = IF Busy(l[2]) THEN raced \cup {l[2]} ELSE raced
  /\ UNCHANGED <<local, routes, routed>>

\* The server (external) has a connection on one of its listeners.
ServerOpens(l) ==
  /\ bound[l] # "none" /\ Len(SelectSeq(wire, LAMBDA m : m.type = "open")) = 0
  /\ \E exact \in {TRUE, ~Normalises} :
       wire' = Append(wire, [type |-> "open", actor |-> "", ok |-> TRUE, l |-> l, exact |-> exact, meant |-> bound[l]])
  /\ UNCHANGED <<local, routes, bound, routed, raced, pc, ops>>

\* The pump gives the answer to the thread that waits ...
Answered ==
  /\ wire # <<>> /\ Head(wire).type = "answer"
  /\ LET m == Head(wire)
         step == pc[m.actor]
     IN Goes(m.actor, IF m.ok THEN <<"answered", step[2], step[3]>> ELSE <<"idle">>)
  /\ wire' = Tail(wire) /\ UNCHANGED <<local, routes, bound, routed, raced, ops>>

\* ... which then changes the routes.
Update(a) ==
  /\ pc[a][1] = "answered" /\ Goes(a, <<"idle">>)
  /\ routes' = [routes EXCEPT ![pc[a][2]] = pc[a][3]]
  /\ UNCHANGED <<local, bound, wire, routed, raced, ops>>

\* RemoteRoutes::handlers: the listener as the server names it, else the only one at that port.
ByPort(port) == {r \in Listens : routes[r] # "none" /\ r[2] = port}

\* Mutant of lookup: the first one at that port.
lookupAny(l, exact) ==
  IF ByPort(l[2]) = {} THEN {} ELSE {routes[CHOOSE r \in ByPort(l[2]) : TRUE]}
lookup(l, exact) ==
  IF exact /\ routes[l] # "none" THEN {routes[l]}
  ELSE IF Cardinality(ByPort(l[2])) = 1 THEN {routes[r] : r \in ByPort(l[2])}
  ELSE {}

\* The pump dispatches a channel; one for an unknown listener is dropped.
Opened ==
  /\ wire # <<>> /\ Head(wire).type = "open"
  /\ LET m == Head(wire)
         port == m.l[2]
         calm == port \notin raced /\ ~(\E a \in Actors : pc[a][1] = "answered" /\ pc[a][2][2] = port)
     IN routed' = [calm |-> calm /\ (m.exact \/ Cardinality(ByPort(port)) < 2), meant |-> m.meant, got |-> lookup(m.l, m.exact)]
  /\ wire' = Tail(wire) /\ UNCHANGED <<local, routes, bound, raced, pc, ops>>

Next ==
  \/ \E a \in Actors : \/ \E s \in Specs : AddLocal(a, s) \/ CancelLocal(a, s)
                       \/ InsertLocal(a) \/ Wake(a) \/ Update(a)
                       \/ \E l \in Listens, dest \in Dests \cup {"none"} : AskRemote(a, l, dest)
  \/ \E i \in DOMAIN lis : Connects(i) \/ Accept(i)
  \/ \E l \in Listens : ServerOpens(l)
  \/ Answered \/ Opened
Spec == Init /\ [][Next]_vars

----------------------------------------------------------------------------
\* A listener that accepts is one that can be cancelled, or is on its way into the table; and
\* one that was cancelled is woken to see it.
ListenersAgree ==
  \A i \in DOMAIN lis : lis[i].live =>
    IF lis[i].stop THEN lis[i].backlog # <<>> \/ \E a \in Actors : pc[a] = <<"wake", i>>
    ELSE listeners[lis[i].spec] = i \/ \E a \in Actors : pc[a] = <<"insert", lis[i].spec, i>>

\* A forwarded connection goes to the destination that its listener was asked for, also when the
\* server listened there for another before.  Not so if a thread has yet to write down a forward of
\* the same port that the server has already answered, if two of them changed forwards of that port
\* at once, or if the server names the listener in its own way and the port has two.
RightDestination == routed.calm => routed.got = {routed.meant}
============================================================================
