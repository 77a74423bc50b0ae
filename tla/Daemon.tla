------------------------------- MODULE Daemon -------------------------------
(***************************************************************************)
(* sshd's listening process (bin/sshd.rs): it accepts, admits under        *)
(* MaxStartups, per-source limits and penalties, forks one process per     *)
(* connection, hears from it over a pipe and reaps it, while signals ask   *)
(* it to reload or to stop.                                                *)
(***************************************************************************)
EXTENDS Integers, Sequences, FiniteSets, FiniteSetsExt, FiniteSetTheorems, WellFoundedInduction, TLAPS

CONSTANTS
  Conns, IpOf,                   \* connections and where they come from
  MaxStartups, EarlyStart, EarlyRate,
  PerSourceMax,
  Penalty,                       \* ticks added for each way to end unauthenticated
  PenaltyMin, PenaltyMax, MaxSources, OverflowDenyAll,
  PipeFails,                     \* pipe() may fail at accept time
  Reloads, MaxTime, MaxLogins

VARIABLES
  pc, sigchld, reloads, reloadAsked, shutdown, now, incoming,   \* the listening process
  children, penalties,                                          \* ChildTable, Penalties
  state, authed, pipe, status, logins,                          \* the connection processes
  utmp, punished                                                \* login records and who wrote them; history
proc == <<state, authed, pipe, status, logins>>
vars == <<pc, sigchld, reloads, reloadAsked, shutdown, now, incoming, children, penalties, proc, utmp, punished>>

Ips == {IpOf[c] : c \in Conns}
Without(f, ks) == [x \in DOMAIN f \ ks |-> f[x]]
With(f, k, v) == [x \in DOMAIN f \cup {k} |-> IF x = k THEN v ELSE f[x]]

Init ==
  /\ pc = "top" /\ sigchld = FALSE /\ reloads = 0 /\ reloadAsked = FALSE /\ shutdown = FALSE
  /\ now = 0 /\ incoming = <<>> /\ children = <<>> /\ penalties = <<>>
  /\ state = [c \in Conns |-> "new"] /\ authed = [c \in Conns |-> FALSE]
  /\ pipe = [c \in Conns |-> <<>>] /\ status = [c \in Conns |-> "none"]
  /\ logins = [c \in Conns |-> 0]
  /\ utmp = {} /\ punished = {}

-----------------------------------------------------------------------------
(* The connection process: tell_parent writes lines to the pipe, which is  *)
(* not there if pipe() failed, and broken once a reload has closed the     *)
(* other end.                                                              *)
HasPipe(c) == c \in DOMAIN children /\ children[c].rx
Tell(c, line) == pipe' = IF HasPipe(c) THEN [pipe EXCEPT ![c] = Append(@, line)] ELSE pipe

Authenticate(c) ==
  /\ state[c] = "live" /\ ~authed[c]
  /\ authed' = [authed EXCEPT ![c] = TRUE] /\ Tell(c, "A")
  /\ UNCHANGED <<pc, sigchld, reloads, reloadAsked, shutdown, now, incoming, children, penalties, state, status, logins, utmp, punished>>

(* A login goes to the parent, or with no parent to tell is written here   *)
(* (LoginRecord::Local), which only root can.                              *)
RecordLogin(c) ==
  /\ state[c] = "live" /\ authed[c] /\ logins[c] < MaxLogins
  /\ logins' = [logins EXCEPT ![c] = @ + 1] /\ Tell(c, "L")
  /\ \/ UNCHANGED utmp
     \/ ~HasPipe(c) /\ utmp' = utmp \cup {<<c, "itself">>}
  /\ UNCHANGED <<pc, sigchld, reloads, reloadAsked, shutdown, now, incoming, children, penalties, state, authed, status, punished>>

RecordLogout(c) ==
  /\ state[c] = "live" /\ logins[c] \in 1..MaxLogins
  /\ logins' = [logins EXCEPT ![c] = MaxLogins + 1] /\ Tell(c, "O")
  /\ utmp' = utmp \ {<<c, "itself">>}
  /\ UNCHANGED <<pc, sigchld, reloads, reloadAsked, shutdown, now, incoming, children, penalties, state, authed, status, punished>>

(* preauth_exit_code, or 0 / 1 once authenticated; a process may crash.    *)
ExitCodes(c) == IF authed[c] THEN {"ok", "error", "crash"} ELSE DOMAIN Penalty \cup {"ok"}
Exit(c) ==
  /\ state[c] = "live"
  /\ \E s \in ExitCodes(c) : status' = [status EXCEPT ![c] = s]
  /\ state' = [state EXCEPT ![c] = "exited"] /\ sigchld' = TRUE
  /\ UNCHANGED <<pc, reloads, reloadAsked, shutdown, now, incoming, children, penalties, authed, pipe, logins, utmp, punished>>

-----------------------------------------------------------------------------
(* ChildRecord::message for every line in the pipe: the login is recorded  *)
(* for an authenticated child, a logout closes it.                         *)
Heard(rec, lines) ==
  LET a == rec.authenticated \/ \E i \in DOMAIN lines : lines[i] = "A"
      ins == {i \in DOMAIN lines : lines[i] = "L" /\ (rec.authenticated \/ \E j \in 1..i : lines[j] = "A")}
      outs == {i \in DOMAIN lines : lines[i] = "O"}
      open == rec.logins + Cardinality(ins)
  IN  [rec EXCEPT !.authenticated = a, !.logins = IF open > Cardinality(outs) THEN open - Cardinality(outs) ELSE 0]

(* poll_auth: read every pipe.                                             *)
Polled == {c \in DOMAIN children : children[c].rx}
PolledChildren == [c \in DOMAIN children |-> IF c \in Polled THEN Heard(children[c], pipe[c]) ELSE children[c]]
PollAuth ==
  /\ children' = PolledChildren
  /\ pipe' = [c \in Conns |-> IF c \in Polled THEN <<>> ELSE pipe[c]]
  /\ utmp' = (utmp \ (Polled \X {"parent"})) \cup {c \in Polled : PolledChildren[c].logins > 0} \X {"parent"}

(* The top of the loop: stop, re-execute, reap.                            *)
Top ==
  /\ pc = "top"
  /\ pc' = CASE shutdown -> "stopped"
             [] ~shutdown /\ reloadAsked -> "reload"
             [] ~shutdown /\ ~reloadAsked /\ (sigchld \/ children # <<>>) -> "reap"
             [] OTHER -> "poll"
  /\ reloadAsked' = IF shutdown THEN reloadAsked ELSE FALSE
  /\ sigchld' = IF shutdown \/ reloadAsked THEN sigchld ELSE FALSE
  /\ UNCHANGED <<reloads, shutdown, now, incoming, children, penalties, proc, utmp, punished>>

(* reload: a configuration that does not parse keeps the old one; else the *)
(* process image is replaced: tables and pipes are gone, children and what *)
(* was recorded of them are not.                                           *)
Reload ==
  /\ pc = "reload"
  /\ \/ /\ pc' = IF sigchld \/ children # <<>> THEN "reap" ELSE "poll"
        /\ sigchld' = FALSE /\ UNCHANGED <<children, penalties, utmp>>
     \/ /\ pc' = "top" /\ children' = <<>> /\ penalties' = <<>> /\ sigchld' = FALSE
        /\ utmp' = {<<r[1], IF r[2] = "parent" THEN "before" ELSE r[2]>> : r \in utmp}
  /\ UNCHANGED <<reloads, reloadAsked, shutdown, now, incoming, proc, punished>>

ReapPoll ==
  /\ pc = "reap" /\ PollAuth /\ pc' = "wait"
  /\ UNCHANGED <<sigchld, reloads, reloadAsked, shutdown, now, incoming, penalties, state, authed, status, logins, punished>>

(* Penalties: one entry per masked source, what is over is dropped first.  *)
Expired(t) == {ip \in DOMAIN t : t[ip].expiry <= now}
Live(t) == Without(t, Expired(t))

(* penalise: times add up to the cap; a source counts once its time is     *)
(* past the minimum; a full table refuses or gives up its first to expire. *)
Penalise(t0, ip, add) ==
  LET t == Live(t0)
      cap == now + PenaltyMax
      until == Min({cap, (IF ip \in DOMAIN t THEN t[ip].expiry ELSE now) + add})
      first == CHOOSE x \in DOMAIN t : \A y \in DOMAIN t : t[x].expiry <= t[y].expiry
  IN  IF add = 0 THEN t0
      ELSE IF ip \in DOMAIN t
           THEN [t EXCEPT ![ip] = [expiry |-> until, active |-> @.active \/ until - now > PenaltyMin]]
      ELSE IF Cardinality(DOMAIN t) >= MaxSources
           THEN IF OverflowDenyAll THEN t
                ELSE With(Without(t, {first}), ip, [expiry |-> until, active |-> add > PenaltyMin])
      ELSE With(t, ip, [expiry |-> until, active |-> add > PenaltyMin])

(* penalty_for: nothing once the parent has heard that it authenticated.   *)
PenaltyFor(s, authenticated) == IF authenticated \/ s = "ok" THEN 0 ELSE IF s \in DOMAIN Penalty THEN Penalty[s] ELSE Penalty["noauth"]

(* waitpid gave a child: its record goes, its logins are closed, how it    *)
(* ended is held against its source.                                       *)
ReapOne(c) ==
  LET add == IF c \in DOMAIN children THEN PenaltyFor(status[c], children[c].authenticated) ELSE 0 IN
  /\ children' = Without(children, {c})
  /\ utmp' = IF c \in DOMAIN children THEN utmp \ {<<c, "parent">>} ELSE utmp
  /\ penalties' = Penalise(penalties, IpOf[c], add)
  /\ punished' = IF add > 0 THEN punished \cup {c} ELSE punished

WaitPid ==
  /\ pc = "wait"
  /\ \/ \E c \in Conns : /\ state[c] = "exited"
                         /\ state' = [state EXCEPT ![c] = "reaped"] /\ ReapOne(c) /\ pc' = pc
     \/ /\ \A c \in Conns : state[c] # "exited"
        /\ pc' = "poll" /\ UNCHANGED <<state, children, penalties, utmp, punished>>
  /\ UNCHANGED <<sigchld, reloads, reloadAsked, shutdown, now, incoming, authed, pipe, status, logins>>

(* poll_auth again, then poll(): interrupted by a signal, or some of the   *)
(* connections that wait are accepted.                                     *)
Poll ==
  /\ pc = "poll" /\ PollAuth
  /\ \/ (sigchld \/ shutdown \/ reloadAsked) /\ pc' = "top" /\ UNCHANGED <<incoming, state>>
     \/ \E new \in SUBSET {c \in Conns : state[c] = "new"} :
          /\ Cardinality(new) <= 2
          /\ incoming' \in {s \in [1..Cardinality(new) -> new] : \A i, j \in DOMAIN s : i # j => s[i] # s[j]}
          /\ state' = [c \in Conns |-> IF c \in new THEN "accepted" ELSE state[c]]
          /\ pc' = "admit"
  /\ UNCHANGED <<sigchld, reloads, reloadAsked, shutdown, now, penalties, authed, status, logins, punished>>

-----------------------------------------------------------------------------
(* refuses: a full table may refuse everyone, an active penalty refuses    *)
(* its source.                                                             *)
Refuses(ip) ==
  LET t == Live(penalties) IN
  \/ Cardinality(DOMAIN t) >= MaxSources /\ OverflowDenyAll
  \/ ip \in DOMAIN t /\ t[ip].active

Unauthenticated == Cardinality({c \in DOMAIN children : ~children[c].authenticated})
CountFromIp(ip) == Cardinality({c \in DOMAIN children : children[c].ip = ip})
DropPercent ==
  IF Unauthenticated < EarlyStart THEN 0
  ELSE IF MaxStartups > EarlyStart
       THEN ((100 - EarlyRate) * (Unauthenticated - EarlyStart)) \div (MaxStartups - EarlyStart) + EarlyRate
       ELSE 100

\* Mutant of MayAdmit: the limit per source is off by one.
MayAdmitOneMore(ip) ==
  ~(MaxStartups > 0 /\ Unauthenticated >= MaxStartups) /\ DropPercent < 100 /\ CountFromIp(ip) <= PerSourceMax

(* admit: MaxStartups, the early drop (a matter of chance between 0 and    *)
(* 100 percent), the limit per source.                                     *)
MayAdmit(ip) ==
  /\ ~(MaxStartups > 0 /\ Unauthenticated >= MaxStartups)
  /\ DropPercent < 100
  /\ ~(PerSourceMax > 0 /\ CountFromIp(ip) >= PerSourceMax)

Admit ==
  /\ pc = "admit"
  /\ LET c == Head(incoming) IN
     \/ incoming = <<>> /\ pc' = "top" /\ UNCHANGED <<incoming, state, children, penalties>>
     \/ /\ incoming # <<>>
        /\ incoming' = Tail(incoming) /\ penalties' = Live(penalties) /\ pc' = pc
        /\ \/ /\ Refuses(IpOf[c]) \/ ~MayAdmit(IpOf[c]) \/ DropPercent > 0
              /\ state' = [state EXCEPT ![c] = "refused"] /\ UNCHANGED children
           \/ /\ ~Refuses(IpOf[c]) /\ MayAdmit(IpOf[c])
              /\ \/ \E rx \in {TRUE, ~PipeFails} :
                      /\ state' = [state EXCEPT ![c] = "live"]
                      /\ children' = With(children, c, [ip |-> IpOf[c], authenticated |-> FALSE, rx |-> rx, logins |-> 0])
                 \/ state' = [state EXCEPT ![c] = "refused"] /\ UNCHANGED children   \* fork() failed
  /\ UNCHANGED <<sigchld, reloads, reloadAsked, shutdown, now, authed, pipe, status, logins, utmp, punished>>

Signal ==
  /\ \/ reloads < Reloads /\ reloads' = reloads + 1 /\ reloadAsked' = TRUE /\ UNCHANGED shutdown
     \/ ~shutdown /\ shutdown' = TRUE /\ UNCHANGED <<reloads, reloadAsked>>
  /\ UNCHANGED <<pc, sigchld, now, incoming, children, penalties, proc, utmp, punished>>

Tick ==
  /\ now < MaxTime /\ now' = now + 1
  /\ UNCHANGED <<pc, sigchld, reloads, reloadAsked, shutdown, incoming, children, penalties, proc, utmp, punished>>

Parent == Top \/ Reload \/ ReapPoll \/ WaitPid \/ Poll \/ Admit
Next ==
  \/ Parent \/ Signal \/ Tick
  \/ \E c \in Conns : Authenticate(c) \/ RecordLogin(c) \/ RecordLogout(c) \/ Exit(c)

Spec == Init /\ [][Next]_vars

-----------------------------------------------------------------------------
Running(c) == state[c] \in {"live", "exited"}

(* At no time do more than MaxStartups processes run unauthenticated, and  *)
(* no source has more than its share, although the listening process knows *)
(* its children only by what it has read and reaped (ChildTable).          *)
StartupsBounded ==
  /\ Cardinality({c \in Conns : Running(c) /\ ~authed[c]}) <= MaxStartups
  /\ \A ip \in Ips : Cardinality({c \in Conns : Running(c) /\ IpOf[c] = ip}) <= PerSourceMax

(* No source is shut out for longer than the cap, however its connections  *)
(* end, and the table stays within its size (Penalties).                   *)
PenaltiesBounded ==
  /\ Cardinality(DOMAIN penalties) <= MaxSources
  /\ \A ip \in DOMAIN penalties : penalties[ip].expiry <= now + PenaltyMax

(* Of a connection that has been reaped no login is left open by the       *)
(* process image that recorded it (close_logins), and none that it wrote   *)
(* itself and ended (record_logout).  A login that was open when the       *)
(* daemon reloaded ("before") is closed by nobody: its record went with    *)
(* the image, although ChildRecord says of a child's logins that they are  *)
(* closed when it says so or when it is reaped.                            *)
LoginsClosed ==
  \A r \in utmp : state[r[1]] = "reaped" =>
     r[2] = "before" \/ (r[2] = "itself" /\ logins[r[1]] \in 1..MaxLogins)

-----------------------------------------------------------------------------
(* The limits for every number of connections and every limit.  A limit of *)
(* 0 means that there is none, and a reload that succeeds forgets the      *)
(* children of before it (Reload), so that the bounds are those of one     *)
(* process image.                                                          *)
ConstantsOK ==
  /\ IsFiniteSet(Conns)
  /\ MaxStartups \in Nat \ {0} /\ PerSourceMax \in Nat \ {0}
  /\ PipeFails \in BOOLEAN

States == {"new", "accepted", "refused", "live", "exited", "reaped"}
Child == [ip : Ips, authenticated : BOOLEAN, rx : BOOLEAN, logins : Nat]

TypeOK ==
  /\ state \in [Conns -> States] /\ authed \in [Conns -> BOOLEAN]
  /\ pipe \in [Conns -> Seq({"A", "L", "O"})]
  /\ DOMAIN children \subseteq Conns /\ \A c \in DOMAIN children : children[c] \in Child

\* The processes that run are the children in the table ...
Roster == \A c \in Conns : Running(c) <=> c \in DOMAIN children

\* ... under their own address, and only one that has authenticated is taken
\* for authenticated; what is in a pipe is true.
Believed ==
  /\ \A c \in DOMAIN children :
        children[c].ip = IpOf[c] /\ (children[c].authenticated => authed[c])
  /\ \A c \in Conns : (\E i \in DOMAIN pipe[c] : pipe[c][i] = "A") => authed[c]

\* The connections that wait for admission are accepted ones, each once.
Queued ==
  /\ incoming \in Seq(Conns)
  /\ \A i, j \in DOMAIN incoming : state[incoming[i]] = "accepted" /\ (i # j => incoming[i] # incoming[j])

\* The table itself is within the limits.
Within == Unauthenticated <= MaxStartups /\ \A ip \in Ips : CountFromIp(ip) <= PerSourceMax

NotReloaded == reloads = 0 /\ reloadAsked = FALSE /\ pc # "reload"

Inv == TypeOK /\ Roster /\ Believed /\ Queued /\ Within /\ NotReloaded

-----------------------------------------------------------------------------
(* How the table may change.                                               *)

\* Fewer children, or more of them taken for authenticated, keep the limits.
LEMMA FewerWithin ==
  ASSUME ConstantsOK, TypeOK, TypeOK', Within,
         DOMAIN children' \subseteq DOMAIN children,
         \A c \in DOMAIN children' : /\ children'[c].ip = children[c].ip
                                     /\ children[c].authenticated => children'[c].authenticated
  PROVE  Within'
<1>1. IsFiniteSet(DOMAIN children)
  BY FS_Subset DEF ConstantsOK, TypeOK
<1>2. Unauthenticated' <= MaxStartups
  <2> DEFINE before == {c \in DOMAIN children : ~children[c].authenticated}
             after == {c \in DOMAIN children' : ~children'[c].authenticated}
  <2>1. IsFiniteSet(before) /\ after \subseteq before
    BY <1>1, FS_Subset
  <2>2. Cardinality(after) <= Cardinality(before) /\ Cardinality(after) \in Nat /\ Cardinality(before) \in Nat
    BY <2>1, FS_Subset, FS_CardinalityType
  <2>3. Cardinality(before) <= MaxStartups
    BY DEF Within, Unauthenticated
  <2> HIDE DEF before
  <2>4. Cardinality(after) <= MaxStartups
    BY <2>2, <2>3 DEF ConstantsOK
  <2> QED
    BY <2>4 DEF Unauthenticated
<1>3. ASSUME NEW ip \in Ips PROVE CountFromIp(ip)' <= PerSourceMax
  <2> DEFINE before == {c \in DOMAIN children : children[c].ip = ip}
             after == {c \in DOMAIN children' : children'[c].ip = ip}
  <2>1. IsFiniteSet(before) /\ after \subseteq before
    BY <1>1, FS_Subset
  <2>2. Cardinality(after) <= Cardinality(before) /\ Cardinality(after) \in Nat /\ Cardinality(before) \in Nat
    BY <2>1, FS_Subset, FS_CardinalityType
  <2>3. Cardinality(before) <= PerSourceMax
    BY DEF Within, CountFromIp
  <2> HIDE DEF before
  <2>4. Cardinality(after) <= PerSourceMax
    BY <2>2, <2>3 DEF ConstantsOK
  <2> QED
    BY <2>4 DEF CountFromIp
<1> QED
  BY <1>2, <1>3 DEF Within, Ips

\* A child that admit let through keeps them, too.
LEMMA OneMoreWithin ==
  ASSUME ConstantsOK, TypeOK, Within, NEW c \in Conns, c \notin DOMAIN children, MayAdmit(IpOf[c]),
         NEW rec, rec.ip = IpOf[c], rec.authenticated = FALSE,
         children' = With(children, c, rec)
  PROVE  Within'
<1>1. IsFiniteSet(DOMAIN children)
  BY FS_Subset DEF ConstantsOK, TypeOK
<1>2. /\ DOMAIN children' = DOMAIN children \cup {c}
      /\ children'[c] = rec
      /\ \A d \in DOMAIN children : children'[d] = children[d]
  BY DEF With
<1>3. Unauthenticated' <= MaxStartups
  <2> DEFINE before == {d \in DOMAIN children : ~children[d].authenticated}
             after == {d \in DOMAIN children' : ~children'[d].authenticated}
  <2>1. IsFiniteSet(before) /\ after = before \cup {c} /\ c \notin before
    BY <1>1, <1>2, FS_Subset
  <2>2. Cardinality(after) = Cardinality(before) + 1 /\ Cardinality(before) \in Nat
    BY <2>1, FS_AddElement, FS_CardinalityType
  <2>3. ~(Cardinality(before) >= MaxStartups)
    BY DEF MayAdmit, Unauthenticated, ConstantsOK
  <2> HIDE DEF before
  <2>4. Cardinality(after) <= MaxStartups
    BY <2>2, <2>3 DEF ConstantsOK
  <2> QED
    BY <2>4 DEF Unauthenticated
<1>4. ASSUME NEW ip \in Ips PROVE CountFromIp(ip)' <= PerSourceMax
  <2> DEFINE before == {d \in DOMAIN children : children[d].ip = ip}
             after == {d \in DOMAIN children' : children'[d].ip = ip}
  <2>1. IsFiniteSet(before) /\ Cardinality(before) \in Nat /\ c \notin before
    BY <1>1, FS_Subset, FS_CardinalityType
  <2>2. Cardinality(before) <= PerSourceMax
    BY DEF Within, CountFromIp
  <2>3. CASE ip # IpOf[c]
    <3>1. after = before
      BY <2>3, <1>2
    <3> QED
      BY <3>1, <2>2 DEF CountFromIp
  <2>4. CASE ip = IpOf[c]
    <3>1. after = before \cup {c}
      BY <2>4, <1>2
    <3>2. Cardinality(after) = Cardinality(before) + 1
      BY <3>1, <2>1, FS_AddElement
    <3>3. ~(Cardinality(before) >= PerSourceMax)
      BY <2>4 DEF MayAdmit, CountFromIp, ConstantsOK
    <3> HIDE DEF before
    <3>4. Cardinality(after) <= PerSourceMax
      BY <3>2, <3>3, <2>1 DEF ConstantsOK
    <3> QED
      BY <3>4 DEF CountFromIp
  <2> QED
    BY <2>3, <2>4
<1> QED
  BY <1>3, <1>4 DEF Within, Ips

\* ChildRecord::message only ever marks a child as authenticated, and only
\* for a line that says so.
LEMMA HeardRecord ==
  ASSUME NEW rec \in Child, NEW lines \in Seq({"A", "L", "O"})
  PROVE  /\ Heard(rec, lines) \in Child
         /\ Heard(rec, lines).ip = rec.ip
         /\ Heard(rec, lines).authenticated <=> (rec.authenticated \/ \E i \in DOMAIN lines : lines[i] = "A")
<1> DEFINE a == rec.authenticated \/ \E i \in DOMAIN lines : lines[i] = "A"
           ins == {i \in DOMAIN lines : lines[i] = "L" /\ (rec.authenticated \/ \E j \in 1..i : lines[j] = "A")}
           outs == {i \in DOMAIN lines : lines[i] = "O"}
           open == rec.logins + Cardinality(ins)
           n == IF open > Cardinality(outs) THEN open - Cardinality(outs) ELSE 0
<1>1. IsFiniteSet(DOMAIN lines)
  <2>1. DOMAIN lines = 1..Len(lines) /\ Len(lines) \in Nat
    OBVIOUS
  <2> QED
    BY <2>1, FS_Interval
<1>2. IsFiniteSet(ins) /\ IsFiniteSet(outs)
  BY <1>1, FS_Subset
<1>3. Cardinality(ins) \in Nat /\ Cardinality(outs) \in Nat
  BY <1>2, FS_CardinalityType
<1>4. rec.logins \in Nat
  BY DEF Child
<1>5. n \in Nat
  <2> HIDE DEF ins, outs
  <2> QED
    BY <1>3, <1>4
<1>6. a \in BOOLEAN
  BY Zenon DEF Child
<1>7. Heard(rec, lines) = [rec EXCEPT !.authenticated = a, !.logins = n]
  BY DEF Heard
<1> HIDE DEF a, n
<1>8. /\ Heard(rec, lines) \in Child /\ Heard(rec, lines).ip = rec.ip
      /\ Heard(rec, lines).authenticated = a
  BY <1>5, <1>6, <1>7 DEF Child
<1> QED
  BY <1>8 DEF a

\* poll_auth: what the pipes say is believed.
LEMMA PollStep ==
  ASSUME Inv, PollAuth, UNCHANGED authed
  PROVE  /\ DOMAIN children' = DOMAIN children
         /\ \A c \in DOMAIN children :
               /\ children'[c] \in Child /\ children'[c].ip = children[c].ip
               /\ children[c].authenticated => children'[c].authenticated
               /\ children'[c].authenticated => authed[c]
         /\ pipe' \in [Conns -> Seq({"A", "L", "O"})]
         /\ \A c \in Conns : (\E i \in DOMAIN pipe'[c] : pipe'[c][i] = "A") => authed'[c]
<1>1. children' = PolledChildren /\ DOMAIN children' = DOMAIN children
  BY DEF PollAuth, PolledChildren
<1>2. ASSUME NEW c \in DOMAIN children
      PROVE  /\ children'[c] \in Child /\ children'[c].ip = children[c].ip
             /\ children[c].authenticated => children'[c].authenticated
             /\ children'[c].authenticated => authed[c]
  <2>1. c \in Conns /\ children[c] \in Child /\ pipe[c] \in Seq({"A", "L", "O"})
    BY DEF Inv, TypeOK
  <2>2. CASE c \in Polled
    <3>1. children'[c] = Heard(children[c], pipe[c])
      BY <1>1, <2>2 DEF PolledChildren
    <3> QED
      BY <3>1, <2>1, HeardRecord DEF Inv, Believed
  <2>3. CASE c \notin Polled
    BY <1>1, <2>1, <2>3 DEF PolledChildren, Inv, Believed
  <2> QED
    BY <2>2, <2>3
<1>3. pipe' = [c \in Conns |-> IF c \in Polled THEN <<>> ELSE pipe[c]]
  BY DEF PollAuth
<1>4. pipe' \in [Conns -> Seq({"A", "L", "O"})]
  BY <1>3 DEF Inv, TypeOK
<1>5. ASSUME NEW c \in Conns, NEW i \in DOMAIN pipe'[c], pipe'[c][i] = "A" PROVE authed'[c]
  BY <1>3, <1>5 DEF Inv, Believed
<1> QED
  BY <1>1, <1>2, <1>4, <1>5

\* The steps that leave the table, the pipes and the processes alone.
LEMMA SameStep ==
  ASSUME Inv, UNCHANGED <<children, pipe, state, authed, incoming>>, NotReloaded'
  PROVE  Inv'
BY DEF Inv, TypeOK, Roster, Running, Believed, Queued, Within, Unauthenticated, CountFromIp

\* A step of a connection process.
LEMMA ProcessStep ==
  ASSUME Inv, NEW c \in Conns, Authenticate(c) \/ RecordLogin(c) \/ RecordLogout(c) \/ Exit(c)
  PROVE  Inv'
<1>0. TypeOK
  BY DEF Inv
<1>1. UNCHANGED <<children, incoming, pc, reloads, reloadAsked>>
  BY DEF Authenticate, RecordLogin, RecordLogout, Exit
<1>2. Within' /\ NotReloaded'
  BY <1>1 DEF Inv, Within, Unauthenticated, CountFromIp, NotReloaded
<1>3. CASE Exit(c)
  <2>1. /\ state[c] = "live" /\ state' = [state EXCEPT ![c] = "exited"]
        /\ UNCHANGED <<authed, pipe>>
    BY <1>3 DEF Exit
  <2>2. TypeOK'
    BY <1>0, <1>1, <2>1 DEF TypeOK, States
  <2>3. Roster'
    BY <1>0, <1>1, <2>1 DEF Inv, Roster, Running, TypeOK
  <2>4. Believed'
    BY <1>1, <2>1 DEF Inv, Believed
  <2>5. Queued'
    BY <1>0, <1>1, <2>1 DEF Inv, Queued, TypeOK
  <2> QED
    BY <1>2, <2>2, <2>3, <2>4, <2>5 DEF Inv
<1>4. CASE Authenticate(c) \/ RecordLogin(c) \/ RecordLogout(c)
  <2>1. UNCHANGED state
    BY <1>4 DEF Authenticate, RecordLogin, RecordLogout
  <2>2. PICK line \in {"A", "L", "O"} : /\ Tell(c, line)
                                        /\ line = "A" => authed'[c] = TRUE
    BY <1>0, <1>4 DEF Authenticate, RecordLogin, RecordLogout, TypeOK
  <2>3. authed' \in [Conns -> BOOLEAN] /\ \A d \in Conns : authed[d] => authed'[d]
    BY <1>0, <1>4 DEF Authenticate, RecordLogin, RecordLogout, TypeOK
  <2>4. /\ pipe[c] \in Seq({"A", "L", "O"}) /\ pipe'[c] \in {pipe[c], Append(pipe[c], line)}
        /\ \A d \in Conns \ {c} : pipe'[d] = pipe[d]
    BY <1>0, <2>2 DEF Tell, TypeOK
  <2>5. TypeOK'
    <3>1. Append(pipe[c], line) \in Seq({"A", "L", "O"})
      BY <2>4
    <3>2. pipe' \in [Conns -> Seq({"A", "L", "O"})]
      BY <1>0, <2>2, <3>1 DEF Tell, TypeOK
    <3> QED
      BY <1>0, <1>1, <2>1, <2>3, <3>2 DEF TypeOK
  <2>6. Roster' /\ Queued'
    BY <1>1, <2>1 DEF Inv, Roster, Running, Queued
  <2>7. ASSUME NEW d \in Conns, NEW i \in DOMAIN pipe'[d], pipe'[d][i] = "A" PROVE authed'[d]
    <3>1. CASE d # c
      BY <2>3, <2>4, <2>7, <3>1 DEF Inv, Believed
    <3>2. CASE d = c /\ line = "A"
      BY <2>2, <3>2
    <3>3. CASE d = c /\ line # "A"
      <4>1. i \in DOMAIN pipe[c] /\ pipe[c][i] = "A"
        BY <2>4, <2>7, <3>3
      <4> QED
        BY <4>1, <2>3, <3>3 DEF Inv, Believed
    <3> QED
      BY <3>1, <3>2, <3>3
  <2>8. Believed'
    BY <1>0, <1>1, <2>3, <2>7 DEF Inv, Believed, TypeOK
  <2> QED
    BY <1>2, <2>5, <2>6, <2>8 DEF Inv
<1> QED
  BY <1>3, <1>4

LEMMA ReapPollStep == ASSUME ConstantsOK, Inv, ReapPoll PROVE Inv'
<1>1. PollAuth /\ UNCHANGED <<authed, state, incoming, reloads, reloadAsked>> /\ pc' = "wait"
  BY DEF ReapPoll
<1>2. TypeOK'
  BY <1>1, PollStep DEF Inv, TypeOK
<1>3. Roster' /\ Queued' /\ NotReloaded'
  BY <1>1, PollStep DEF Inv, Roster, Running, Queued, NotReloaded
<1>4. Believed'
  BY <1>1, PollStep DEF Inv, Believed
<1>5. Within'
  BY <1>1, <1>2, PollStep, FewerWithin DEF Inv
<1> QED
  BY <1>2, <1>3, <1>4, <1>5 DEF Inv

LEMMA WaitStep == ASSUME ConstantsOK, Inv, WaitPid PROVE Inv'
<1>1. CASE UNCHANGED <<state, children>>
  BY <1>1, SameStep DEF WaitPid, Inv, NotReloaded
<1>2. CASE \E c \in Conns : state[c] = "exited" /\ state' = [state EXCEPT ![c] = "reaped"] /\ ReapOne(c) /\ pc' = pc
  <2>1. PICK c \in Conns : /\ state[c] = "exited" /\ state' = [state EXCEPT ![c] = "reaped"]
                           /\ children' = Without(children, {c}) /\ pc' = pc
    BY <1>2 DEF ReapOne
  <2>2. UNCHANGED <<incoming, authed, pipe, reloads, reloadAsked>>
    BY DEF WaitPid
  <2>3. DOMAIN children' = DOMAIN children \ {c} /\ \A d \in DOMAIN children' : children'[d] = children[d]
    BY <2>1 DEF Without
  <2>4. TypeOK'
    BY <2>1, <2>2, <2>3 DEF Inv, TypeOK, States
  <2>5. Roster'
    BY <2>1, <2>3 DEF Inv, TypeOK, Roster, Running
  <2>6. Believed'
    BY <2>2, <2>3 DEF Inv, Believed
  <2>7. Queued'
    BY <2>1, <2>2 DEF Inv, TypeOK, Queued
  <2>8. Within'
    BY <2>3, <2>4, FewerWithin DEF Inv
  <2> QED
    BY <2>1, <2>2, <2>4, <2>5, <2>6, <2>7, <2>8 DEF Inv, NotReloaded
<1> QED
  BY <1>1, <1>2 DEF WaitPid

LEMMA PollsStep == ASSUME ConstantsOK, Inv, Poll PROVE Inv'
<1>1. PollAuth /\ UNCHANGED <<authed, reloads, reloadAsked>> /\ pc' \in {"top", "admit"}
  BY DEF Poll
<1>2. NotReloaded'
  BY <1>1 DEF Inv, NotReloaded
<1>3. Believed'
  BY <1>1, PollStep DEF Inv, Believed
<1>4. state' \in [Conns -> States] /\ (\A c \in Conns : Running(c)' <=> Running(c)) /\ Queued'
  <2>1. CASE UNCHANGED <<incoming, state>>
    BY <2>1 DEF Inv, TypeOK, Running, Queued
  <2>2. ASSUME NEW new \in SUBSET {c \in Conns : state[c] = "new"},
               incoming' \in {s \in [1..Cardinality(new) -> new] : \A i, j \in DOMAIN s : i # j => s[i] # s[j]},
               state' = [c \in Conns |-> IF c \in new THEN "accepted" ELSE state[c]],
               Cardinality(new) \in Nat
        PROVE  state' \in [Conns -> States] /\ (\A c \in Conns : Running(c)' <=> Running(c)) /\ Queued'
    <3>1. state' \in [Conns -> States]
      BY <2>2 DEF Inv, TypeOK, States
    <3>2. \A c \in Conns : Running(c)' <=> Running(c)
      BY <2>2 DEF Inv, TypeOK, Running
    <3>3. incoming' \in [1..Cardinality(new) -> Conns] /\ \A i \in DOMAIN incoming' : incoming'[i] \in new
      BY <2>2
    <3>4. incoming' \in Seq(Conns)
      BY <3>3, <2>2
    <3>5. \A i, j \in DOMAIN incoming' : state'[incoming'[i]] = "accepted" /\ (i # j => incoming'[i] # incoming'[j])
      BY <2>2, <3>3
    <3> QED
      BY <3>1, <3>2, <3>4, <3>5 DEF Queued
  <2>3. ASSUME NEW new \in SUBSET {c \in Conns : state[c] = "new"} PROVE Cardinality(new) \in Nat
    BY FS_Subset, FS_CardinalityType DEF ConstantsOK
  <2> QED
    BY <2>1, <2>2, <2>3 DEF Poll
<1>5. TypeOK'
  BY <1>1, <1>4, PollStep DEF Inv, TypeOK
<1>6. Roster'
  BY <1>1, <1>4, PollStep DEF Inv, Roster
<1>7. Within'
  BY <1>1, <1>5, PollStep, FewerWithin DEF Inv
<1> QED
  BY <1>2, <1>3, <1>4, <1>5, <1>6, <1>7 DEF Inv

LEMMA AdmitStep == ASSUME ConstantsOK, Inv, Admit PROVE Inv'
<1>0. TypeOK /\ Queued
  BY DEF Inv
<1>1. UNCHANGED <<authed, pipe, reloads, reloadAsked>> /\ NotReloaded'
  BY DEF Admit, Inv, NotReloaded
<1>2. CASE incoming = <<>>
  BY <1>1, <1>2, SameStep DEF Admit
<1>3. CASE incoming # <<>>
  <2>1. PICK c : c = Head(incoming)
    OBVIOUS
  <2>2. /\ c \in Conns /\ state[c] = "accepted"
        /\ incoming' = Tail(incoming) /\ incoming' \in Seq(Conns)
        /\ \A i \in DOMAIN incoming' : /\ incoming'[i] # c /\ state[incoming'[i]] = "accepted"
                                       /\ \A j \in DOMAIN incoming' : i # j => incoming'[i] # incoming'[j]
    <3>1. incoming \in Seq(Conns) /\ incoming' = Tail(incoming) /\ c = incoming[1] /\ Len(incoming) >= 1
      BY <1>0, <1>3, <2>1 DEF Admit, Queued
    <3>2. incoming' \in Seq(Conns) /\ DOMAIN incoming' = 1..(Len(incoming) - 1) /\ DOMAIN incoming = 1..Len(incoming)
          /\ \A i \in DOMAIN incoming' : incoming'[i] = incoming[i + 1]
      BY <3>1
    <3>3. 1 \in DOMAIN incoming /\ \A i \in DOMAIN incoming' : i + 1 \in DOMAIN incoming /\ i + 1 # 1
      BY <3>1, <3>2
    <3>4. c \in Conns /\ state[c] = "accepted"
      BY <1>0, <3>1, <3>3 DEF Queued
    <3>5. ASSUME NEW i \in DOMAIN incoming'
          PROVE  /\ incoming'[i] # c /\ state[incoming'[i]] = "accepted"
                 /\ \A j \in DOMAIN incoming' : i # j => incoming'[i] # incoming'[j]
      <4>1. incoming'[i] # c /\ state[incoming'[i]] = "accepted"
        BY <1>0, <3>1, <3>2, <3>3 DEF Queued
      <4>2. ASSUME NEW j \in DOMAIN incoming', i # j PROVE incoming'[i] # incoming'[j]
        <5>1. i \in Int /\ j \in Int /\ i + 1 # j + 1
          BY <3>2, <4>2
        <5> QED
          BY <1>0, <3>2, <3>3, <5>1 DEF Queued
      <4> QED
        BY <4>1, <4>2
    <3> QED
      BY <3>1, <3>2, <3>4, <3>5
  <2>3. c \notin DOMAIN children
    BY <2>2 DEF Inv, Roster, Running
  <2>4. CASE state' = [state EXCEPT ![c] = "refused"] /\ UNCHANGED children
    <3>1. TypeOK'
      BY <1>0, <1>1, <2>2, <2>4 DEF TypeOK, States
    <3>2. Roster'
      BY <1>0, <2>2, <2>3, <2>4 DEF Inv, TypeOK, Roster, Running
    <3>3. Believed' /\ Within'
      BY <1>1, <2>4 DEF Inv, Believed, Within, Unauthenticated, CountFromIp
    <3>4. Queued'
      BY <1>0, <2>2, <2>4 DEF TypeOK, Queued
    <3> QED
      BY <1>1, <3>1, <3>2, <3>3, <3>4 DEF Inv
  <2>5. CASE /\ MayAdmit(IpOf[c]) /\ state' = [state EXCEPT ![c] = "live"]
             /\ \E rx \in BOOLEAN :
                   children' = With(children, c, [ip |-> IpOf[c], authenticated |-> FALSE, rx |-> rx, logins |-> 0])
    <3>1. PICK rx \in BOOLEAN :
             children' = With(children, c, [ip |-> IpOf[c], authenticated |-> FALSE, rx |-> rx, logins |-> 0])
      BY <2>5
    <3>2. PICK rec : rec = [ip |-> IpOf[c], authenticated |-> FALSE, rx |-> rx, logins |-> 0]
      OBVIOUS
    <3>3. rec \in Child /\ rec.ip = IpOf[c] /\ rec.authenticated = FALSE /\ children' = With(children, c, rec)
      BY <2>2, <3>1, <3>2 DEF Child, Ips
    <3>4. /\ DOMAIN children' = DOMAIN children \cup {c} /\ children'[c] = rec
          /\ \A d \in DOMAIN children : children'[d] = children[d]
      BY <2>3, <3>3 DEF With
    <3>5. TypeOK'
      <4>1. state' \in [Conns -> States]
        BY <1>0, <2>2, <2>5 DEF TypeOK, States
      <4>2. DOMAIN children' \subseteq Conns /\ \A d \in DOMAIN children' : children'[d] \in Child
        BY <1>0, <2>2, <3>3, <3>4 DEF TypeOK
      <4> QED
        BY <1>0, <1>1, <4>1, <4>2 DEF TypeOK
    <3>6. Roster'
      BY <1>0, <2>2, <2>5, <3>4 DEF Inv, TypeOK, Roster, Running
    <3>7. Believed'
      BY <1>1, <3>3, <3>4 DEF Inv, Believed
    <3>8. Queued'
      BY <1>0, <2>2, <2>5 DEF TypeOK, Queued
    <3>9. Within'
      BY <1>0, <2>2, <2>3, <2>5, <3>3, OneMoreWithin DEF Inv
    <3> QED
      BY <1>1, <3>5, <3>6, <3>7, <3>8, <3>9 DEF Inv
  <2> QED
    BY <1>3, <2>1, <2>4, <2>5 DEF Admit, ConstantsOK
<1> QED
  BY <1>2, <1>3

(* Inv follows from Init and is kept by every step of a daemon that is not *)
(* told to reload.                                                         *)
LEMMA InvKept == ASSUME ConstantsOK, Reloads = 0, Inv, [Next]_vars PROVE Inv'
<1>1. CASE Top
  <2>1. UNCHANGED <<children, pipe, state, authed, incoming, reloads>> /\ reloadAsked' = FALSE
    BY <1>1 DEF Top, proc, Inv, NotReloaded
  <2>2. pc' # "reload"
    BY <1>1 DEF Top, Inv, NotReloaded
  <2> QED
    BY <2>1, <2>2, SameStep DEF Inv, NotReloaded
<1>2. CASE Reload
  BY <1>2 DEF Reload, Inv, NotReloaded
<1>3. CASE ReapPoll
  BY <1>3, ReapPollStep
<1>4. CASE WaitPid
  BY <1>4, WaitStep
<1>5. CASE Poll
  BY <1>5, PollsStep
<1>6. CASE Admit
  BY <1>6, AdmitStep
<1>7. CASE Signal
  <2>1. reloads = 0 /\ ~(reloads < Reloads)
    BY DEF Inv, NotReloaded
  <2>2. UNCHANGED <<children, pipe, state, authed, incoming, pc, reloads, reloadAsked>>
    BY <1>7, <2>1 DEF Signal, proc
  <2> QED
    BY <2>2, SameStep DEF Inv, NotReloaded
<1>8. CASE Tick
  BY <1>8, SameStep DEF Tick, proc, Inv, NotReloaded
<1>9. CASE \E c \in Conns : Authenticate(c) \/ RecordLogin(c) \/ RecordLogout(c) \/ Exit(c)
  BY <1>9, ProcessStep
<1>10. CASE UNCHANGED vars
  BY <1>10, SameStep DEF vars, proc, Inv, NotReloaded
<1> QED
  BY <1>1, <1>2, <1>3, <1>4, <1>5, <1>6, <1>7, <1>8, <1>9, <1>10 DEF Next, Parent

LEMMA InitInv == ASSUME ConstantsOK, Init PROVE Inv
<1>1. DOMAIN children = {}
  BY DEF Init
<1>2. TypeOK
  BY <1>1 DEF Init, TypeOK, States
<1>3. Roster /\ Queued /\ NotReloaded
  BY <1>1 DEF Init, Roster, Running, Queued, NotReloaded
<1>4. Believed
  BY <1>1 DEF Init, Believed
<1>5. Within
  <2>1. {c \in DOMAIN children : ~children[c].authenticated} = {}
    BY <1>1
  <2>2. \A ip \in Ips : {c \in DOMAIN children : children[c].ip = ip} = {}
    BY <1>1
  <2> QED
    BY <2>1, <2>2, FS_EmptySet DEF Within, Unauthenticated, CountFromIp, ConstantsOK
<1> QED
  BY <1>2, <1>3, <1>4, <1>5 DEF Inv

(* What the table bounds bounds what runs.                                 *)
LEMMA InvBounds == ASSUME ConstantsOK, Inv PROVE StartupsBounded
<1>1. IsFiniteSet(DOMAIN children)
  BY FS_Subset DEF ConstantsOK, Inv, TypeOK
<1>2. Cardinality({c \in Conns : Running(c) /\ ~authed[c]}) <= MaxStartups
  <2> DEFINE run == {c \in Conns : Running(c) /\ ~authed[c]}
             table == {c \in DOMAIN children : ~children[c].authenticated}
  <2>1. IsFiniteSet(table) /\ run \subseteq table
    BY <1>1, FS_Subset DEF Inv, Roster, Believed
  <2>2. Cardinality(run) <= Cardinality(table) /\ Cardinality(run) \in Nat /\ Cardinality(table) \in Nat
    BY <2>1, FS_Subset, FS_CardinalityType
  <2>3. Cardinality(table) <= MaxStartups
    BY DEF Inv, Within, Unauthenticated
  <2> HIDE DEF run, table
  <2> QED
    BY <2>2, <2>3 DEF ConstantsOK, run
<1>3. ASSUME NEW ip \in Ips PROVE Cardinality({c \in Conns : Running(c) /\ IpOf[c] = ip}) <= PerSourceMax
  <2> DEFINE run == {c \in Conns : Running(c) /\ IpOf[c] = ip}
             table == {c \in DOMAIN children : children[c].ip = ip}
  <2>1. IsFiniteSet(table) /\ run \subseteq table
    BY <1>1, FS_Subset DEF Inv, Roster, Believed
  <2>2. Cardinality(run) <= Cardinality(table) /\ Cardinality(run) \in Nat /\ Cardinality(table) \in Nat
    BY <2>1, FS_Subset, FS_CardinalityType
  <2>3. Cardinality(table) <= PerSourceMax
    BY DEF Inv, Within, CountFromIp
  <2> HIDE DEF run, table
  <2> QED
    BY <2>2, <2>3 DEF ConstantsOK, run
<1> QED
  BY <1>2, <1>3 DEF StartupsBounded

(* For any connections, from any addresses: never more than MaxStartups    *)
(* processes that have not authenticated, nor more than PerSourceMax of    *)
(* one source, run at a time, although the table lags behind what they do  *)
(* (ChildTable::admit, poll_auth, reap), until a reload.                   *)
THEOREM Startups == ASSUME ConstantsOK, Reloads = 0 PROVE Spec => []StartupsBounded
<1>1. Init => Inv
  BY InitInv
<1>2. Inv /\ [Next]_vars => Inv'
  BY InvKept
<1>3. Inv => StartupsBounded
  BY InvBounds
<1> QED
  BY <1>1, <1>2, <1>3, PTL DEF Spec

-----------------------------------------------------------------------------
(* The penalties, which hold through reloads, too.                         *)
PenaltiesOK ==
  /\ IsFiniteSet(Conns)
  /\ MaxSources \in Nat \ {0} /\ PenaltyMax \in Nat
  /\ Penalty \in [DOMAIN Penalty -> Nat] /\ "noauth" \in DOMAIN Penalty

\* A table of penalties at time t.
Held(p, t) ==
  /\ IsFiniteSet(DOMAIN p) /\ Cardinality(DOMAIN p) <= MaxSources
  /\ \A ip \in DOMAIN p : p[ip].expiry \in Nat /\ p[ip].expiry <= t + PenaltyMax

PenaltyInv == now \in Nat /\ Held(penalties, now)

LEMMA MinOfTwo ==
  ASSUME NEW a \in Nat, NEW b \in Nat
  PROVE  Min({a, b}) \in Nat /\ Min({a, b}) <= a
<1>1. \E x \in {a, b} : \A y \in {a, b} : x <= y
  <2>1. CASE a <= b
    BY <2>1
  <2>2. CASE b <= a
    BY <2>2
  <2> QED
    BY <2>1, <2>2
<1>2. Min({a, b}) \in {a, b} /\ \A y \in {a, b} : Min({a, b}) <= y
  BY <1>1 DEF Min
<1> QED
  BY <1>2

\* A table that is not empty has an entry that expires first.
LEMMA FirstToExpire ==
  ASSUME NEW p, DOMAIN p # {}, \A ip \in DOMAIN p : p[ip].expiry \in Nat
  PROVE  \E x \in DOMAIN p : \A y \in DOMAIN p : p[x].expiry <= p[y].expiry
<1> DEFINE times == {p[ip].expiry : ip \in DOMAIN p}
<1>1. times \subseteq Nat /\ times # {}
  OBVIOUS
<1>2. PICK n \in times : \A m \in times : ~(<<m, n>> \in OpToRel(<, Nat))
  BY <1>1, WFMin, NatLessThanWellFounded
<1>3. \A m \in times : ~(m < n)
  BY <1>1, <1>2 DEF OpToRel
<1>4. PICK x \in DOMAIN p : p[x].expiry = n
  OBVIOUS
<1>5. ASSUME NEW y \in DOMAIN p PROVE p[x].expiry <= p[y].expiry
  <2>1. p[y].expiry \in times /\ p[y].expiry \in Nat /\ n \in Nat
    BY <1>1
  <2> QED
    BY <2>1, <1>3, <1>4
<1> QED
  BY <1>5

LEMMA LiveHeld ==
  ASSUME PenaltiesOK, NEW p, Held(p, now)
  PROVE  Held(Live(p), now) /\ DOMAIN Live(p) \subseteq DOMAIN p
<1>1. DOMAIN Live(p) \subseteq DOMAIN p /\ \A ip \in DOMAIN Live(p) : Live(p)[ip] = p[ip]
  BY DEF Live, Without
<1>2. IsFiniteSet(DOMAIN Live(p)) /\ Cardinality(DOMAIN Live(p)) <= Cardinality(DOMAIN p)
  BY <1>1, FS_Subset DEF Held
<1>3. Cardinality(DOMAIN Live(p)) \in Nat /\ Cardinality(DOMAIN p) \in Nat
  BY <1>2, FS_CardinalityType DEF Held
<1>4. Cardinality(DOMAIN Live(p)) <= MaxSources
  BY <1>2, <1>3 DEF Held, PenaltiesOK
<1> QED
  BY <1>1, <1>2, <1>4 DEF Held

\* penalise keeps the table within its size and every time within the cap.
LEMMA PenaliseHeld ==
  ASSUME PenaltiesOK, now \in Nat, NEW p, Held(p, now), NEW ip, NEW add \in Nat
  PROVE  Held(Penalise(p, ip, add), now)
<1> DEFINE t == Live(p)
           until == Min({now + PenaltyMax, (IF ip \in DOMAIN t THEN t[ip].expiry ELSE now) + add})
           first == CHOOSE x \in DOMAIN t : \A y \in DOMAIN t : t[x].expiry <= t[y].expiry
           new == [expiry |-> until, active |-> add > PenaltyMin]
           more == [expiry |-> until, active |-> t[ip].active \/ until - now > PenaltyMin]
<1>1. Held(t, now)
  BY LiveHeld
<1>2. IsFiniteSet(DOMAIN t) /\ Cardinality(DOMAIN t) \in Nat /\ Cardinality(DOMAIN t) <= MaxSources
  BY <1>1, FS_CardinalityType DEF Held
<1>3. until \in Nat /\ until <= now + PenaltyMax
  <2>1. now + PenaltyMax \in Nat /\ (IF ip \in DOMAIN t THEN t[ip].expiry ELSE now) + add \in Nat
    BY <1>1 DEF Held, PenaltiesOK
  <2> QED
    BY <2>1, MinOfTwo
<1>4. Penalise(p, ip, add) =
        IF add = 0 THEN p
        ELSE IF ip \in DOMAIN t THEN [t EXCEPT ![ip] = more]
        ELSE IF Cardinality(DOMAIN t) >= MaxSources
             THEN IF OverflowDenyAll THEN t ELSE With(Without(t, {first}), ip, new)
        ELSE With(t, ip, new)
  BY DEF Penalise
<1>5. new.expiry = until /\ more.expiry = until
  OBVIOUS
<1>6. MaxSources \in Nat /\ MaxSources > 0
  BY DEF PenaltiesOK
<1> HIDE DEF t, until, first, new, more
<1>7. CASE ip \in DOMAIN t
  <2>1. Held([t EXCEPT ![ip] = more], now)
    BY <1>1, <1>3, <1>5, <1>7 DEF Held
  <2> QED
    BY <1>4, <1>7, <2>1
<1>8. CASE ip \notin DOMAIN t /\ Cardinality(DOMAIN t) >= MaxSources
  <2>1. DOMAIN t # {}
    BY <1>2, <1>6, <1>8, FS_EmptySet
  <2>2. first \in DOMAIN t
    BY <2>1, <1>1, FirstToExpire DEF first, Held
  <2> DEFINE w == Without(t, {first})
             u == With(w, ip, new)
  <2>3. DOMAIN w = DOMAIN t \ {first} /\ \A x \in DOMAIN w : w[x] = t[x]
    BY DEF Without
  <2>4. IsFiniteSet(DOMAIN w) /\ Cardinality(DOMAIN w) = Cardinality(DOMAIN t) - 1
    BY <1>2, <2>2, <2>3, FS_RemoveElement
  <2>5. DOMAIN u = DOMAIN w \cup {ip} /\ u[ip] = new /\ \A x \in DOMAIN w : x # ip => u[x] = w[x]
    BY DEF With
  <2> HIDE DEF w, u
  <2>6. IsFiniteSet(DOMAIN u) /\ Cardinality(DOMAIN u) = Cardinality(DOMAIN w) + 1
    BY <1>8, <2>3, <2>4, <2>5, FS_AddElement
  <2>7. Cardinality(DOMAIN u) <= MaxSources
    BY <1>2, <1>6, <2>4, <2>6
  <2>8. \A x \in DOMAIN u : u[x].expiry \in Nat /\ u[x].expiry <= now + PenaltyMax
    BY <1>1, <1>3, <1>5, <2>3, <2>5 DEF Held
  <2>9. Held(u, now)
    BY <2>6, <2>7, <2>8 DEF Held
  <2> QED
    BY <1>1, <1>4, <1>8, <2>9 DEF w, u
<1>9. CASE ip \notin DOMAIN t /\ ~(Cardinality(DOMAIN t) >= MaxSources)
  <2> DEFINE u == With(t, ip, new)
  <2>1. DOMAIN u = DOMAIN t \cup {ip} /\ u[ip] = new /\ \A x \in DOMAIN t : x # ip => u[x] = t[x]
    BY DEF With
  <2> HIDE DEF u
  <2>2. IsFiniteSet(DOMAIN u) /\ Cardinality(DOMAIN u) = Cardinality(DOMAIN t) + 1
    BY <1>2, <1>9, <2>1, FS_AddElement
  <2>3. Cardinality(DOMAIN u) <= MaxSources
    BY <1>2, <1>6, <1>9, <2>2
  <2>4. \A x \in DOMAIN u : u[x].expiry \in Nat /\ u[x].expiry <= now + PenaltyMax
    BY <1>1, <1>3, <1>5, <2>1 DEF Held
  <2>5. Held(u, now)
    BY <2>2, <2>3, <2>4 DEF Held
  <2> QED
    BY <1>4, <1>9, <2>5 DEF u
<1> QED
  BY <1>7, <1>8, <1>9

LEMMA PenaltyStep == ASSUME PenaltiesOK, PenaltyInv, [Next]_vars PROVE PenaltyInv'
<1>0. now \in Nat /\ PenaltyMax \in Nat
  BY DEF PenaltyInv, PenaltiesOK
<1>1. CASE UNCHANGED <<now, penalties>>
  BY <1>1 DEF PenaltyInv, Held
<1>2. CASE Tick
  <2>1. now' = now + 1 /\ penalties' = penalties
    BY <1>2 DEF Tick
  <2> QED
    BY <1>0, <2>1 DEF PenaltyInv, Held
<1>3. CASE Reload
  <2>1. UNCHANGED now /\ (penalties' = penalties \/ penalties' = <<>>)
    BY <1>3 DEF Reload
  <2>2. Held(<<>>, now)
    <3>1. DOMAIN <<>> = {}
      OBVIOUS
    <3> QED
      BY <3>1, FS_EmptySet DEF Held, PenaltiesOK
  <2> QED
    BY <2>1, <2>2 DEF PenaltyInv
<1>4. CASE Admit
  <2>1. UNCHANGED now /\ (penalties' = penalties \/ penalties' = Live(penalties))
    BY <1>4 DEF Admit
  <2> QED
    BY <2>1, LiveHeld DEF PenaltyInv
<1>5. CASE WaitPid
  <2>1. UNCHANGED now
    BY <1>5 DEF WaitPid
  <2>2. ASSUME NEW c \in Conns, ReapOne(c) PROVE PenaltyInv'
    <3>1. PICK add : /\ add = IF c \in DOMAIN children THEN PenaltyFor(status[c], children[c].authenticated) ELSE 0
                     /\ penalties' = Penalise(penalties, IpOf[c], add)
      BY <2>2 DEF ReapOne
    <3>2. add \in Nat
      BY <3>1 DEF PenaltyFor, PenaltiesOK
    <3> QED
      BY <2>1, <3>1, <3>2, PenaliseHeld DEF PenaltyInv
  <2> QED
    BY <1>1, <1>5, <2>1, <2>2 DEF WaitPid
<1>6. CASE Top \/ ReapPoll \/ Poll
  BY <1>1, <1>6 DEF Top, ReapPoll, Poll
<1>7. CASE Signal
  BY <1>1, <1>7 DEF Signal
<1>8. CASE \E c \in Conns : Authenticate(c) \/ RecordLogin(c) \/ RecordLogout(c) \/ Exit(c)
  BY <1>1, <1>8 DEF Authenticate, RecordLogin, RecordLogout, Exit
<1>9. CASE UNCHANGED vars
  BY <1>1, <1>9 DEF vars
<1> QED
  BY <1>2, <1>3, <1>4, <1>5, <1>6, <1>7, <1>8, <1>9 DEF Next, Parent

(* However connections end, and across reloads: no source is shut out for  *)
(* longer than the cap, and the table never outgrows its size (penalise,   *)
(* which makes room by dropping the first to expire).                      *)
THEOREM PenaltiesCapped == ASSUME PenaltiesOK PROVE Spec => []PenaltiesBounded
<1>1. Init => PenaltyInv
  <2> SUFFICES ASSUME Init PROVE PenaltyInv
    OBVIOUS
  <2>1. DOMAIN penalties = {} /\ now = 0
    BY DEF Init
  <2> QED
    BY <2>1, FS_EmptySet DEF PenaltyInv, Held, PenaltiesOK
<1>2. PenaltyInv /\ [Next]_vars => PenaltyInv'
  BY PenaltyStep
<1>3. PenaltyInv => PenaltiesBounded
  BY DEF PenaltyInv, Held, PenaltiesBounded
<1> QED
  BY <1>1, <1>2, <1>3, PTL DEF Spec
=============================================================================
