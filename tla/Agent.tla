-------------------------------- MODULE Agent -------------------------------
(***************************************************************************)
(* The ssh-agent: the keys it holds, the sessions its connections are      *)
(* bound to, the lock, lifetimes and the questions it asks its user        *)
(* (agent/server.rs, bin/ssh-agent.rs).  A thread serves each connection;  *)
(* requests are handled one at a time behind the mutex of AgentState,      *)
(* which is also held while the user is asked.                             *)
(*                                                                         *)
(* Time is counted in steps of UNLOCK_DELAY_STEP.  The host of a session   *)
(* signs for that session's id only, so a bind with another host's key     *)
(* does not verify.                                                        *)
(***************************************************************************)
EXTENDS Integers, Sequences, FiniteSets, SequencesExt

CONSTANTS
    Conns,          \* connections to the socket
    Keys,           \* keys that can be added
    Offers,         \* constraints a key is added with: [life, confirm, dest]
    Sessions,       \* session id -> key its host presents
    Certs,          \* host key that is a certificate -> [ca, names]
    Users,          \* user names in signed requests
    Providers,      \* PKCS#11 modules: [name, keys]
    MaxBinds,       \* MAX_SESSION_IDS
    MaxDelay,       \* UNLOCK_MAX_DELAY
    Passes,         \* passphrases tried
    Remote,         \* remote_add_provider
    DefaultLife,    \* default_lifetime
    MaxClock,       \* bound on time
    Forever, NoOne, None

VARIABLES
    held,           \* the keys held, oldest first
    lock,           \* the passphrase while locked
    failures,       \* unlock_failures
    wait,           \* how long unlocks are still refused unchecked
    conn,           \* connection -> [binds, attempted]
    asking,         \* the request waiting for the user's answer
    dropped,        \* SIGUSR1 arrived and is not yet acted on
    tried,          \* history: connections that a session bind was sent on
    told,           \* history: the last answer that gave something away
    guesses,        \* history: wrong passphrases checked since the lock
    clock           \* history: time since the first of them

vars == <<held, lock, failures, wait, conn, asking, dropped, tried, told, guesses, clock>>

Sids == DOMAIN Sessions
HostKeys == {Sessions[s] : s \in Sids}
Silent == [what |-> "nothing", key |-> None, dest |-> {}, data |-> None,
           conn |-> NoOne, life |-> Forever]
Fresh == [binds |-> <<>>, attempted |-> FALSE]

\* What a client may want signed: an authentication request for a session,
\* with or without the host key in it, or something else.
Requests ==
    [sid : Sids, user : Users, host : HostKeys \cup {NoOne}] \cup {None}

Init ==
    /\ held = <<>> /\ lock = None /\ failures = 0 /\ wait = 0
    /\ conn = [c \in Conns |-> Fresh]
    /\ asking = None /\ dropped = FALSE /\ tried = {}
    /\ told = Silent /\ guesses = 0 /\ clock = 0

-----------------------------------------------------------------------------
(* Destination constraints.                                                *)

\* A certificate matches by its authority and the host's name.
match_key_hop(k, hop) ==
    IF k \in DOMAIN Certs
    THEN /\ <<Certs[k].ca, TRUE>> \in hop.keys
         /\ Certs[k].names = {} \/ hop.host \in Certs[k].names
    ELSE <<k, FALSE>> \in hop.keys

\* `from` and `to` are host keys; NoOne is the origin, and any destination.
permitted_by_dest_constraints(from, to, dest, user) ==
    \E d \in dest :
        /\ IF from = NoOne THEN d.from.host = NoOne /\ d.from.keys = {}
           ELSE match_key_hop(from, d.from)
        /\ to = NoOne \/ match_key_hop(to, d.to)
        /\ d.user = NoOne \/ user = NoOne \/ d.user = user

identity_permitted(h, cs, user) ==
    IF h.dest = {} THEN TRUE
    ELSE IF cs.binds = <<>> THEN ~cs.attempted
    ELSE LET n == Len(cs.binds)
             b == cs.binds
             from(i) == IF i = 1 THEN NoOne ELSE b[i - 1].host
         IN  /\ \A i \in 1..(n - 1) : b[i].fwd
             /\ ~(b[n].fwd /\ user # NoOne)
             /\ \A i \in 1..n : permitted_by_dest_constraints(
                                    from(i), b[i].host, h.dest, IF i = n THEN user ELSE NoOne)
             /\ b[n].fwd /\ user = NoOne =>
                    permitted_by_dest_constraints(b[n].host, NoOne, h.dest, NoOne)

-----------------------------------------------------------------------------
(* Every request: the mutex, the signal, lifetimes.                        *)

expire(hs) == SelectSeq(hs, LAMBDA h : h.life # 0)

\* What is held when a request is handled.
drop_keys_if_signalled(hs) == IF dropped THEN <<>> ELSE hs
Now == expire(drop_keys_if_signalled(held))

\* A request is handled: what it does to the keys, and the flag is cleared.
Handle(hs) ==
    /\ asking = None
    /\ held' = hs
    /\ dropped' = FALSE

Quiet == told' = Silent
Holds(hs, k) == \E i \in DOMAIN hs : hs[i].key = k
At(hs, k) == hs[CHOOSE i \in DOMAIN hs : hs[i].key = k]
Without(hs, k) == SelectSeq(hs, LAMBDA h : h.key # k)
LockUnchanged == UNCHANGED <<lock, failures, wait, guesses, clock>>

\* SSH_AGENTC_REQUEST_IDENTITIES.
List(c) ==
    /\ Handle(Now)
    /\ IF lock # None THEN Quiet
       ELSE \/ \E i \in DOMAIN Now :
                   /\ identity_permitted(Now[i], conn[c], NoOne)
                   /\ told' = [Silent EXCEPT !.what = "listed", !.key = Now[i].key,
                                   !.dest = Now[i].dest, !.conn = c, !.life = Now[i].life]
            \/ (\A i \in DOMAIN Now : ~identity_permitted(Now[i], conn[c], NoOne)) /\ Quiet
    /\ LockUnchanged /\ UNCHANGED <<conn, tried, asking>>

\* A restricted key signs only an authentication request for the session the
\* connection was bound to last, naming its host if there is more than one.
\* Mutant of MaySign: the session is not compared.
MaySignAnySession(h, cs, d) ==
    \/ h.dest = {}
    \/ /\ cs.binds # <<>>
       /\ d # None
       /\ identity_permitted(h, cs, d.user)
       /\ d.host = NoOne => Len(cs.binds) = 1
       /\ d.host # NoOne => d.host = Last(cs.binds).host

MaySign(h, cs, d) ==
    \/ h.dest = {}
    \/ /\ cs.binds # <<>>
       /\ d # None
       /\ identity_permitted(h, cs, d.user)
       /\ d.sid = Last(cs.binds).sid
       /\ d.host = NoOne => Len(cs.binds) = 1
       /\ d.host # NoOne => d.host = Last(cs.binds).host

Signature(c, h, d) ==
    [what |-> "signed", key |-> h.key, dest |-> h.dest, data |-> d, conn |-> c, life |-> h.life]

\* SSH_AGENTC_SIGN_REQUEST: refused, answered, or the user is asked first.
sign(c, k, d) ==
    /\ Handle(Now)
    /\ LET ok == lock = None /\ Holds(Now, k) /\ MaySign(At(Now, k), conn[c], d) IN
       \/ ~ok /\ Quiet /\ UNCHANGED asking
       \/ /\ ok /\ ~At(Now, k).confirm
          /\ told' = Signature(c, At(Now, k), d)
          /\ UNCHANGED asking
       \/ /\ ok /\ At(Now, k).confirm
          /\ asking' = Signature(c, At(Now, k), d) /\ Quiet
    /\ LockUnchanged /\ UNCHANGED <<conn, tried>>

\* The user answers ssh-askpass.
Answers(yes) ==
    /\ asking # None /\ asking' = None
    /\ told' = IF yes THEN asking ELSE Silent
    /\ UNCHANGED <<held, dropped>> /\ UNCHANGED <<conn, tried>> /\ LockUnchanged

-----------------------------------------------------------------------------
(* Adding and removing.                                                    *)

insert(hs, cs, h) ==
    IF Holds(hs, h.key) /\ ~identity_permitted(At(hs, h.key), cs, NoOne) THEN hs
    ELSE Append(Without(hs, h.key), h)

Lifetime(l) == IF l = Forever THEN DefaultLife ELSE l

\* Mutant of add: the lock is not asked.
addLocked(c, k, o) ==
    /\ Handle(insert(Now, conn[c], [key |-> k, life |-> Lifetime(o.life),
                                    confirm |-> o.confirm, dest |-> o.dest,
                                    provider |-> None]))
    /\ Quiet /\ LockUnchanged /\ UNCHANGED <<conn, tried, asking>>

\* SSH_AGENTC_ADD_IDENTITY and ADD_ID_CONSTRAINED.
add(c, k, o) ==
    /\ Handle(IF lock # None THEN Now
              ELSE insert(Now, conn[c], [key |-> k, life |-> Lifetime(o.life),
                                         confirm |-> o.confirm, dest |-> o.dest,
                                         provider |-> None]))
    /\ Quiet /\ LockUnchanged /\ UNCHANGED <<conn, tried, asking>>

\* A connection that ever tried to bind a session is a forwarded one.
allowed_provider(cs) == (~cs.attempted /\ cs.binds = <<>>) \/ Remote

\* SSH_AGENTC_ADD_SMARTCARD_KEY: the module's keys that are not held yet.
add_smartcard(c, p, o) ==
    /\ LET allowed == lock = None /\ allowed_provider(conn[c])
           one(hs, k) == IF Holds(hs, k) THEN hs
                         ELSE insert(hs, conn[c], [key |-> k, life |-> Lifetime(o.life),
                                                   confirm |-> o.confirm, dest |-> o.dest,
                                                   provider |-> p.name])
       IN  /\ Handle(IF allowed THEN FoldLeft(one, Now, p.keys) ELSE Now)
           /\ told' = IF allowed THEN [Silent EXCEPT !.what = "loaded", !.conn = c] ELSE Silent
    /\ LockUnchanged /\ UNCHANGED <<conn, tried, asking>>

\* SSH_AGENTC_REMOVE_IDENTITY, of a key that may be seen.
RemoveOne(c, k) ==
    /\ Handle(IF lock = None /\ Holds(Now, k) /\ identity_permitted(At(Now, k), conn[c], NoOne)
              THEN Without(Now, k) ELSE Now)
    /\ Quiet /\ LockUnchanged /\ UNCHANGED <<conn, tried, asking>>

RemoveAll(c) ==
    /\ Handle(IF lock = None THEN <<>> ELSE Now)
    /\ Quiet /\ LockUnchanged /\ UNCHANGED <<conn, tried, asking>>

remove_smartcard(c, p) ==
    /\ Handle(IF lock = None THEN SelectSeq(Now, LAMBDA h : h.provider # p.name) ELSE Now)
    /\ Quiet /\ LockUnchanged /\ UNCHANGED <<conn, tried, asking>>

-----------------------------------------------------------------------------
(* Session binds.                                                          *)

\* Whether the bind is added to the connection's path: the host signed this
\* session, and the connection has not authenticated or met it before.
session_bind(cs, sid, host) ==
    LET known == {i \in DOMAIN cs.binds : cs.binds[i].sid = sid}
        plain == \E i \in DOMAIN cs.binds : ~cs.binds[i].fwd
    IN  Sessions[sid] = host /\ ~plain /\ known = {} /\ Len(cs.binds) < MaxBinds

\* A locked agent refuses the bind and remembers the attempt.
LockedBind(cs) == [cs EXCEPT !.attempted = TRUE]

Bind(c, sid, host, fwd) ==
    /\ Handle(Now)
    /\ conn' = [conn EXCEPT ![c] =
           IF lock # None THEN LockedBind(@)
           ELSE IF session_bind(@, sid, host)
                THEN [binds |-> Append(@.binds, [sid |-> sid, host |-> host, fwd |-> fwd]),
                      attempted |-> TRUE]
                ELSE [@ EXCEPT !.attempted = TRUE]]
    /\ tried' = tried \cup {c}
    /\ Quiet /\ LockUnchanged /\ UNCHANGED asking

\* The client closes the connection and another one takes its place.
Reconnect(c) ==
    /\ asking # None => asking.conn # c
    /\ conn[c] # Fresh \/ c \in tried
    /\ conn' = [conn EXCEPT ![c] = Fresh]
    /\ tried' = tried \ {c}
    /\ Quiet /\ LockUnchanged /\ UNCHANGED <<held, asking, dropped>>

-----------------------------------------------------------------------------
(* The lock.                                                               *)

Lock(c, p) ==
    /\ Handle(Now)
    /\ lock' = IF lock = None THEN p ELSE lock
    /\ Quiet /\ UNCHANGED <<failures, wait, conn, tried, asking, guesses, clock>>

Smaller(a, b) == IF a < b THEN a ELSE b

Delay(n) == Smaller(n, MaxDelay)

\* Until the delay is over nothing is compared.
Unlock(c, p) ==
    /\ Handle(Now)
    /\ CASE lock = None \/ wait > 0 -> LockUnchanged
         [] lock # None /\ wait = 0 /\ p = lock ->
                /\ lock' = None /\ failures' = 0 /\ wait' = 0
                /\ guesses' = 0 /\ clock' = 0
         [] lock # None /\ wait = 0 /\ p # lock ->
                /\ failures' = failures + 1
                /\ wait' = Delay(failures + 1)
                /\ guesses' = guesses + 1
                /\ UNCHANGED <<lock, clock>>
    /\ Quiet /\ UNCHANGED <<conn, tried, asking>>

-----------------------------------------------------------------------------
(* Time and signals.                                                       *)

Tick ==
    /\ guesses > 0 \/ \E i \in DOMAIN held : held[i].life \notin {Forever, 0}
    /\ clock < MaxClock
    /\ clock' = IF guesses > 0 THEN clock + 1 ELSE clock
    /\ wait' = IF wait > 0 THEN wait - 1 ELSE 0
    /\ held' = [i \in DOMAIN held |->
                   [held[i] EXCEPT !.life = IF @ = Forever \/ @ = 0 THEN @ ELSE @ - 1]]
    /\ told' = Silent
    /\ UNCHANGED <<lock, failures, conn, tried, asking, dropped, guesses>>

\* SIGUSR1 sets a flag; the accept loop or the next request acts on it.
on_keydrop ==
    /\ ~dropped /\ dropped' = TRUE
    /\ told' = Silent
    /\ UNCHANGED <<held, asking>> /\ UNCHANGED <<conn, tried>> /\ LockUnchanged

AcceptLoop ==
    /\ asking = None /\ dropped
    /\ held' = <<>> /\ dropped' = FALSE /\ Quiet
    /\ LockUnchanged /\ UNCHANGED <<conn, tried, asking>>

Signs == \E c \in Conns, k \in Keys, d \in Requests : sign(c, k, d)
Adds == \E c \in Conns, k \in Keys, o \in Offers : add(c, k, o)
Loads == \E c \in Conns, p \in Providers, o \in Offers : add_smartcard(c, p, o)
Removes == \E c \in Conns : \/ \E k \in Keys : RemoveOne(c, k)
                            \/ RemoveAll(c)
                            \/ \E p \in Providers : remove_smartcard(c, p)
Binds == \E c \in Conns, s \in Sids, h \in HostKeys, f \in BOOLEAN : Bind(c, s, h, f)
Locks == \E c \in Conns, p \in Passes : Lock(c, p) \/ Unlock(c, p)

Next ==
    \/ \E c \in Conns : List(c) \/ Reconnect(c)
    \/ Signs \/ \E y \in BOOLEAN : Answers(y)
    \/ Adds \/ Loads \/ Removes \/ Binds \/ Locks
    \/ Tick \/ on_keydrop \/ AcceptLoop

Spec == Init /\ [][Next]_vars

-----------------------------------------------------------------------------
(* Properties.                                                             *)

\* The hosts a key's constraints lead to from here, hop by hop.
Reached(dest) ==
    LET step(S) == S \cup {h \in HostKeys : \E f \in S \cup {NoOne} :
                               permitted_by_dest_constraints(f, h, dest, NoOne)}
        after[n \in 0..Cardinality(HostKeys)] ==
            IF n = 0 THEN {} ELSE step(after[n - 1])
    IN  after[Cardinality(HostKeys)]

\* A key with destination constraints signs nothing but authentication to a
\* host the constraints lead to from here, as a user they name: whatever the
\* hosts on the way ask for, in whatever order the connection was bound.
SignedForListedHost ==
    told.what = "signed" /\ told.dest # {} =>
        /\ told.data # None
        /\ Sessions[told.data.sid] \in Reached(told.dest)
        /\ \E d \in told.dest : /\ match_key_hop(Sessions[told.data.sid], d.to)
                                /\ d.user \in {NoOne, told.data.user}

\* What is signed with such a key for another host's benefit names that
\* host: never a request without a host key on a forwarded connection, and
\* never one with another host's.
SignatureNamesHost ==
    told.what = "signed" /\ told.dest # {} =>
        /\ told.data.host \in {NoOne, Sessions[told.data.sid]}
        /\ Len(conn[told.conn].binds) > 1 => told.data.host # NoOne

\* A connection on which a session bind was tried, even by a locked agent or
\* with a bad signature, is never again taken for a local one: it loads no
\* provider and sees no restricted key but along its own path.
AttemptSticks ==
    /\ told.what = "loaded" => told.conn \notin tried \/ Remote
    /\ told.what = "listed" /\ told.dest # {} /\ told.conn \in tried =>
           conn[told.conn].binds # <<>>

\* The constraints of a key can be replaced only from where it may be used.
ConstraintsKept ==
    \A i \in DOMAIN held : \A j \in DOMAIN held' :
           /\ held[i].key = held'[j].key /\ held[i].life # 0 /\ ~dropped
           /\ held[i].dest # held'[j].dest
           => \E c \in Conns : identity_permitted(held[i], conn[c], NoOne)

\* A key is not listed or used when its lifetime is over; a use the user is
\* being asked about was asked for in time.
UsedInTime == told.what \in {"listed", "signed"} => told.life # 0

\* Behind the lock nothing changes but by time and signals, and nothing is
\* given away but the answer to a question asked before.
LockedSilent ==
    lock # None /\ lock' # None =>
           /\ \A j \in DOMAIN held' : \E i \in DOMAIN held : held[i].key = held'[j].key
           /\ told'.what # "nothing" => told' = asking

\* Wrong passphrases are paced: checking n of them takes as long as the
\* delays in between.
Pace(n) == FoldLeft(LAMBDA a, i : a + Smaller(i, MaxDelay), 0, [i \in 1..(n - 1) |-> i])
GuessesPaced == guesses > 0 => clock >= Pace(guesses)
=============================================================================
