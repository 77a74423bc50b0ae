-------------------------------- MODULE Mux --------------------------------
(* ControlMaster auto with ControlPersist: ssh processes that share one      *)
(* control path attach to the master that answers there, or fork a daemon    *)
(* that becomes it.  A process p and the daemon it forks share the name p.    *)
EXTENDS Integers, FiniteSets

CONSTANTS
  Procs,      \* ssh invocations
  Env,        \* Env[p]: the environment p forwards, "" for none
  Linger,     \* ControlPersist, in ticks
  Faults      \* of {"stale", "crash", "lost", "exit"}

VARIABLES
  file,     \* the socket at the control path: the master that bound it, "none" or "stale"
  st,       \* st[p]: where the ssh process p is
  at,       \* at[p]: the master p is attached to
  ms,       \* ms[m]: where the daemon m is
  removed,  \* removed[m]: which of m's threads have removed the socket on the way out
  live,     \* live_clients
  idle,     \* how long ago last_idle is, -1 for None (ages stop at Linger)
  reaper,   \* what the reaper read of live_clients, -1 between rounds
  rounds,   \* rounds[m]: the reaper went round since the clock ticked
  env,      \* env[m]: the session environment of the shared client
  sent,     \* sent[p]: the environment p's session was opened with
  gone,     \* gone[p]: the client process of p is gone
  left      \* left[m]: how long ago a session of m was last over
vars == <<file, st, at, ms, removed, live, idle, reaper, rounds, env, sent, gone, left>>
files == <<file, ms, removed>>
master == <<live, idle, reaper, rounds, left>>
session == <<env, sent, gone>>

Init ==
  /\ file \in {"none"} \cup ({"stale"} \cap Faults)
  /\ st = [p \in Procs |-> "start"] /\ at = [p \in Procs |-> "none"]
  /\ ms = [p \in Procs |-> "none"] /\ removed = [p \in Procs |-> {}]
  /\ live = [p \in Procs |-> 0] /\ idle = [p \in Procs |-> -1] /\ reaper = [p \in Procs |-> -1]
  /\ rounds = [p \in Procs |-> TRUE] /\ left = [p \in Procs |-> 0]
  /\ env = [p \in Procs |-> ""] /\ sent = [p \in Procs |-> "unsent"] /\ gone = [p \in Procs |-> FALSE]

\* probe_master: a master that still accepts answers HELLO.
Live == file \in Procs /\ ms[file] = "serving"

----------------------------------------------------------------------------
(* The ssh process.                                                          *)

\* run: attach to a live master, or connect, authenticate and fork the daemon.
Start(p) ==
  /\ st[p] = "start"
  /\ IF Live THEN st' = [st EXCEPT ![p] = "attach"] /\ UNCHANGED ms
     ELSE st' = [st EXCEPT ![p] = "waiting"] /\ ms' = [ms EXCEPT ![p] = "probing"]
  /\ UNCHANGED <<file, removed, at, master, session>>

\* daemonize_master, the launcher: it polls until a master answers, its own or another's, or gives up.
Wait(p) ==
  /\ st[p] = "waiting"
  /\ \/ Live /\ st' = [st EXCEPT ![p] = "attach"]
     \/ ~Live /\ ms[p] \notin {"probing", "binding", "unlinking"} /\ st' = [st EXCEPT ![p] = "failed"]
  /\ UNCHANGED <<files, at, master, session>>

\* run_client: connect and exchange HELLO.
Attach(p) ==
  /\ st[p] = "attach"
  /\ IF Live THEN st' = [st EXCEPT ![p] = "hello"] /\ at' = [at EXCEPT ![p] = file]
     ELSE st' = [st EXCEPT ![p] = "failed"] /\ UNCHANGED at
  /\ UNCHANGED <<files, master, session>>

\* The client process ends or is killed before its session is over.
Gone(p) ==
  /\ st[p] = "splicing" /\ ~gone[p]
  /\ gone' = [gone EXCEPT ![p] = TRUE]
  /\ UNCHANGED <<file, st, at, ms, removed, master, env, sent>>

\* The master is gone: read_frame fails.
Dropped(p) ==
  /\ st[p] \in {"hello", "envset", "opened", "counted", "splicing", "leaving", "left", "idling"} /\ ms[at[p]] = "dead"
  /\ st' = [st EXCEPT ![p] = "failed"]
  /\ UNCHANGED <<files, at, master, session>>

----------------------------------------------------------------------------
(* The daemon's start: bind_socket.                                          *)

BindProbe(m) ==
  /\ ms[m] = "probing"
  /\ ms' = [ms EXCEPT ![m] = CASE Live -> "dead" [] file = "none" -> "binding" [] OTHER -> "unlinking"]
  /\ UNCHANGED <<file, removed, st, at, master, session>>
BindUnlink(m) ==
  /\ ms[m] = "unlinking"
  /\ file' = "none" /\ ms' = [ms EXCEPT ![m] = "binding"]
  /\ UNCHANGED <<removed, st, at, master, session>>

\* bind_private: a hard link, which fails where the path is taken.
BindLink(m) ==
  /\ ms[m] = "binding"
  /\ IF file = "none" THEN /\ file' = m /\ ms' = [ms EXCEPT ![m] = "serving"]
                           /\ idle' = [idle EXCEPT ![m] = 0] /\ left' = [left EXCEPT ![m] = 0]
     ELSE ms' = [ms EXCEPT ![m] = "dead"] /\ UNCHANGED <<file, idle, left>>
  /\ UNCHANGED <<removed, st, at, live, reaper, rounds, session>>

----------------------------------------------------------------------------
(* handle_client: one thread of the master per client.                       *)
Serving(p, s) == st[p] = s /\ ms[at[p]] \in {"serving", "shutdown"}

SetEnv(p) ==
  /\ Serving(p, "hello")
  /\ env' = IF Env[p] = "" THEN env ELSE [env EXCEPT ![at[p]] = Env[p]]
  /\ st' = [st EXCEPT ![p] = "envset"]
  /\ UNCHANGED <<files, at, master, sent, gone>>

\* session_stream: the environment of the shared client goes with the new channel.
OpenSession(p) ==
  /\ Serving(p, "envset")
  /\ sent' = [sent EXCEPT ![p] = env[at[p]]]
  /\ st' = [st EXCEPT ![p] = "opened"]
  /\ UNCHANGED <<files, at, master, env, gone>>
OpenFails(p) ==
  /\ Serving(p, "envset")
  /\ st' = [st EXCEPT ![p] = "failed"]
  /\ UNCHANGED <<files, at, master, session>>

Count(p) ==
  /\ Serving(p, "opened")
  /\ live' = [live EXCEPT ![at[p]] = @ + 1]
  /\ st' = [st EXCEPT ![p] = "counted"]
  /\ UNCHANGED <<files, at, idle, reaper, rounds, left, session>>
ClearIdle(p) ==
  /\ Serving(p, "counted")
  /\ idle' = [idle EXCEPT ![at[p]] = -1]
  /\ st' = [st EXCEPT ![p] = "splicing"]
  /\ UNCHANGED <<files, at, live, reaper, rounds, left, session>>

\* splice returns when the server's channel ends, and only then.
RemoteEnds(p) ==
  /\ Serving(p, "splicing")
  /\ st' = [st EXCEPT ![p] = "leaving"]
  /\ left' = [left EXCEPT ![at[p]] = 0]
  /\ UNCHANGED <<files, at, live, idle, reaper, rounds, session>>

Uncount(p) ==
  /\ Serving(p, "leaving")
  /\ live' = [live EXCEPT ![at[p]] = @ - 1]
  /\ st' = [st EXCEPT ![p] = "left"]
  /\ UNCHANGED <<files, at, idle, reaper, rounds, left, session>>
Last(p) ==
  /\ Serving(p, "left")
  /\ st' = [st EXCEPT ![p] = IF live[at[p]] = 0 THEN "idling" ELSE "done"]
  /\ UNCHANGED <<files, at, master, session>>
MarkIdle(p) ==
  /\ Serving(p, "idling")
  /\ idle' = [idle EXCEPT ![at[p]] = 0]
  /\ st' = [st EXCEPT ![p] = "done"]
  /\ UNCHANGED <<files, at, live, reaper, rounds, left, session>>

----------------------------------------------------------------------------
(* The reaper, and the ways a master ends.                                   *)

ReaperRead(m) ==
  /\ ms[m] = "serving" /\ reaper[m] = -1 /\ ~rounds[m]
  /\ reaper' = [reaper EXCEPT ![m] = live[m]]
  /\ UNCHANGED <<files, st, at, live, idle, rounds, left, session>>

\* The linger timer: it starts at the first idle round, or where the last client set it.
ReaperDecide(m) ==
  /\ ms[m] = "serving" /\ reaper[m] >= 0
  /\ IF reaper[m] > 0 THEN idle' = [idle EXCEPT ![m] = -1] /\ UNCHANGED ms
     ELSE LET since == IF idle[m] = -1 THEN 0 ELSE idle[m]
          IN /\ idle' = [idle EXCEPT ![m] = since]
             /\ ms' = IF since >= Linger THEN [ms EXCEPT ![m] = "shutdown"] ELSE ms
  /\ reaper' = [reaper EXCEPT ![m] = -1] /\ rounds' = [rounds EXCEPT ![m] = TRUE]
  /\ UNCHANGED <<file, removed, st, at, live, left, session>>

\* shutdown is seen by the reaper and by run_master_daemon's loop; both remove the path,
\* and the process ends when both have.
Remove(m, who) ==
  /\ ms[m] = "shutdown" /\ who \notin removed[m]
  /\ file' = "none"
  /\ removed' = [removed EXCEPT ![m] = @ \cup {who}]
  /\ ms' = IF removed'[m] = {"reaper", "main"} THEN [ms EXCEPT ![m] = "dead"] ELSE ms
  /\ UNCHANGED <<st, at, master, session>>

\* -O exit: the handler sets shutdown, and its hook removes the path and ends the process.
ExitRequest(m) ==
  /\ "exit" \in Faults /\ ms[m] = "serving" /\ file = m
  /\ ms' = [ms EXCEPT ![m] = "shutdown"]
  /\ UNCHANGED <<file, removed, st, at, master, session>>
OnExit(m) ==
  /\ "exit" \in Faults /\ ms[m] = "shutdown"
  /\ file' = "none" /\ ms' = [ms EXCEPT ![m] = "dead"]
  /\ UNCHANGED <<removed, st, at, master, session>>

\* The server ends the connection: the pump thread sets shutdown.
ConnectionLost(m) ==
  /\ "lost" \in Faults /\ ms[m] = "serving"
  /\ ms' = [ms EXCEPT ![m] = "shutdown"]
  /\ UNCHANGED <<file, removed, st, at, master, session>>
Crash(m) ==
  /\ "crash" \in Faults /\ ms[m] \in {"serving", "shutdown"}
  /\ ms' = [ms EXCEPT ![m] = "dead"]
  /\ UNCHANGED <<file, removed, st, at, master, session>>

\* A tick is longer than the reaper's 200 ms and than a handler's bookkeeping: the reaper goes round
\* at least once in each, and no thread sits between two lines of it over one.
Older(age) == [m \in Procs |-> IF age[m] >= 0 /\ age[m] < Linger THEN age[m] + 1 ELSE age[m]]
Tick ==
  /\ \E m \in Procs : ms[m] = "serving"
  /\ \A m \in Procs : ms[m] = "serving" => rounds[m]
  /\ \A p \in Procs : st[p] \notin {"opened", "counted", "leaving", "left", "idling"} /\ ms[p] # "shutdown"
  /\ idle' = Older(idle) /\ left' = Older(left) /\ rounds' = [m \in Procs |-> FALSE]
  /\ UNCHANGED <<files, st, at, live, reaper, session>>

ProcStep(p) == Start(p) \/ Wait(p) \/ Attach(p) \/ Dropped(p)
HandlerStep(p) == SetEnv(p) \/ OpenSession(p) \/ Count(p) \/ ClearIdle(p) \/ Uncount(p) \/ Last(p) \/ MarkIdle(p)
DaemonStep(m) == BindProbe(m) \/ BindUnlink(m) \/ BindLink(m) \/ ReaperRead(m) \/ ReaperDecide(m)
                   \/ Remove(m, "reaper") \/ Remove(m, "main")
Quiet == (\A p \in Procs : st[p] \in {"done", "failed"} /\ ms[p] \in {"none", "dead"}) /\ UNCHANGED vars
Next ==
  \/ \E p \in Procs :
       \/ ProcStep(p) \/ HandlerStep(p) \/ DaemonStep(p) \/ OpenFails(p) \/ Gone(p) \/ RemoteEnds(p)
       \/ ExitRequest(p) \/ OnExit(p) \/ ConnectionLost(p) \/ Crash(p)
  \/ Tick \/ Quiet
Spec == Init /\ [][Next]_vars

----------------------------------------------------------------------------
Open(m) == {p \in Procs : at[p] = m /\ st[p] \in {"opened", "counted", "splicing"}}

\* A master that ends by itself has lingered: no session of it ended less than Linger ago,
\* however the last clients' bookkeeping and the reaper's two reads interleave.
Lingers == \A m \in Procs : ms[m] = "serving" /\ ReaperDecide(m) /\ ms'[m] = "shutdown" /\ Open(m) = {}
                => left[m] >= Linger

=============================================================================
