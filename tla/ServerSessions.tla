---------------------------- MODULE ServerSessions --------------------------
(***************************************************************************)
(* What a server runs on the channels of a connection: session opens and   *)
(* MaxSessions, pty-req, env, exec, shell and subsystem requests, forced   *)
(* commands and the capabilities of a certificate (server.rs).  A program  *)
(* runs on a terminal, on a thread of its own, or, when no handler claims  *)
(* the command, to its end inside the request, its output then sent while  *)
(* the loop waits (drain_send).  Data and windows are in Channels, agent   *)
(* and X11 requests in Listeners.                                          *)
(***************************************************************************)
EXTENDS Integers, Sequences, FiniteSets, FiniteSetTheorems, TLAPS

CONSTANTS
    Chans,          \* channels the client opens, in order: 1..n
    ForceCommand,   \* "none", "forced" or "sftp"
    CertForce,      \* force-command of the certificate
    ConfigTty,      \* PermitTTY
    CertTty,        \* permit-pty of the certificate
    Local,          \* local forwarding is allowed
    MaxSessions,
    Streams,        \* programs the stream handler claims
    PtyCommands,    \* the shell handler runs commands on a terminal
    Subsystem,      \* the subsystem asked for: "sftp", "command", "served" or "unknown"
    MaxEnv,         \* MAX_ENV_PER_CHANNEL
    MaxInbox        \* bound on packets under way

VARIABLES
    ch,             \* channel -> [st, kind, pty, run, prog, env]
    sessions,       \* session_channels
    inbox,          \* packets from the client
    draining,       \* the channel whose output is being sent, 0 if none
    nomore,         \* no-more-sessions was received
    dead,           \* the connection has ended with an error
    view            \* channel -> what the client knows: "free", "asked", "open", "closed"

vars == <<ch, sessions, inbox, draining, nomore, dead, view>>

Init ==
    /\ ch = [c \in Chans |-> [st |-> "free", kind |-> "none", pty |-> FALSE, run |-> "none",
                              prog |-> <<>>, env |-> 0]]
    /\ sessions = {} /\ inbox = <<>> /\ draining = 0 /\ nomore = FALSE /\ dead = FALSE
    /\ view = [c \in Chans |-> "free"]

-----------------------------------------------------------------------------
(* The policy.                                                             *)

\* The administrator's command wins over the certificate's.
fold_cert_caps == IF ForceCommand # "none" THEN ForceCommand ELSE CertForce

pty_allowed == ConfigTty /\ CertTty
local_forwarding_allowed == Local

-----------------------------------------------------------------------------
(* Requests.                                                               *)

Alone == UNCHANGED <<sessions, nomore, dead>>

Refused == UNCHANGED <<ch, draining>>

\* The program is started on a thread or on the terminal.
Runs(c, p, how) ==
    /\ ch' = [ch EXCEPT ![c].run = how, ![c].prog = Append(@, p),
                        ![c].pty = IF how = "shell" THEN FALSE ELSE @]
    /\ UNCHANGED draining

\* An attempt to start it on the terminal failed.
NotSpawned(c) == ch' = [ch EXCEPT ![c].pty = FALSE] /\ UNCHANGED draining

route_internal_sftp(c) == Runs(c, "sftp", "stream")

\* Claimed, or run here; what the window does not take waits for the client.
run_exec_command(c, p) ==
    \/ p \in Streams /\ Runs(c, p, "stream")
    \/ /\ p \notin Streams
       /\ \/ /\ ch' = [ch EXCEPT ![c].prog = Append(@, p), ![c].st = "sentclose"]
             /\ UNCHANGED draining
          \/ /\ ch' = [ch EXCEPT ![c].prog = Append(@, p)]
             /\ draining' = c

spawn_command_on_pty(c, p) == Runs(c, p, "shell") \/ NotSpawned(c)

OnPtyOrPlain(c, p) ==
    IF ch[c].pty /\ PtyCommands THEN spawn_command_on_pty(c, p) ELSE run_exec_command(c, p)

Exec(c) ==
    CASE fold_cert_caps = "sftp" -> route_internal_sftp(c)
      [] fold_cert_caps = "forced" -> OnPtyOrPlain(c, "forced")
      [] OTHER -> OnPtyOrPlain(c, "asked")

Shell(c) ==
    CASE fold_cert_caps = "sftp" -> route_internal_sftp(c)
      [] fold_cert_caps = "forced" -> OnPtyOrPlain(c, "forced")
      [] OTHER -> IF ~ch[c].pty /\ "login" \in Streams
                  THEN Runs(c, "login", "stream")
                  ELSE Runs(c, "login", "shell") \/ NotSpawned(c)

\* The forced command of a subsystem request does not get the terminal.
SubsystemRequest(c) ==
    CASE fold_cert_caps = "sftp" -> route_internal_sftp(c)
      [] fold_cert_caps = "forced" -> run_exec_command(c, "forced")
      [] OTHER ->
           CASE Subsystem = "sftp" -> route_internal_sftp(c)
             [] Subsystem = "command" -> OnPtyOrPlain(c, "subsystem")
             [] Subsystem = "served" -> Runs(c, "subsystem", "stream")
             [] Subsystem = "unknown" -> Refused

PtyReq(c) ==
    IF pty_allowed THEN ch' = [ch EXCEPT ![c].pty = TRUE] /\ UNCHANGED draining ELSE Refused

\* A new name; the limit is on the names stored.
Env(c) ==
    IF ch[c].env + 1 > MaxEnv THEN Refused
    ELSE ch' = [ch EXCEPT ![c].env = @ + 1] /\ UNCHANGED draining

Programs == {"exec", "shell", "subsystem"}

\* Mutant of already_started: only a running shell counts.
already_startedShell(c) == ch[c].run = "shell"

already_started(c) == ch[c].run \in {"shell", "stream"} \/ ch[c].st # "open"

session_only(c) == c \in sessions

handle_channel_request(c, t) ==
    /\ Alone
    /\ IF ~session_only(c) \/ (t \in Programs /\ already_started(c)) THEN Refused
       ELSE CASE t = "exec" -> Exec(c)
              [] t = "shell" -> Shell(c)
              [] t = "subsystem" -> SubsystemRequest(c)
              [] t = "pty" -> PtyReq(c)
              [] t = "env" -> Env(c)
    /\ UNCHANGED view

-----------------------------------------------------------------------------
(* The other packets.                                                      *)

Told(c, what) == view' = [view EXCEPT ![c] = what]

Opened(c, kind, run) ==
    /\ ch' = [ch EXCEPT ![c].st = "open", ![c].kind = kind, ![c].run = run]
    /\ Told(c, "open")

Rejected(c) == ch' = [ch EXCEPT ![c].st = "gone"] /\ Told(c, "closed")

OpenSession(c) ==
    /\ IF Cardinality(sessions) >= MaxSessions
       THEN Rejected(c) /\ UNCHANGED sessions
       ELSE Opened(c, "session", "none") /\ sessions' = sessions \cup {c}
    /\ UNCHANGED dead

OpenRequest(c, kind) ==
    /\ CASE kind = "session" /\ nomore -> dead' = TRUE /\ UNCHANGED <<ch, sessions, view>>
         [] kind = "session" /\ ~nomore -> OpenSession(c)
         [] kind = "tcpip" -> /\ IF local_forwarding_allowed THEN Opened(c, "tcpip", "stream")
                                 ELSE Rejected(c)
                              /\ UNCHANGED <<sessions, dead>>
    /\ UNCHANGED <<draining, nomore>>

CloseArrives(c) ==
    /\ ch' = [ch EXCEPT ![c].st = "gone", ![c].run = "none"]
    /\ sessions' = sessions \ {c}
    /\ UNCHANGED <<draining, nomore, dead, view>>

NoMoreSessions == nomore' = TRUE /\ UNCHANGED <<ch, sessions, draining, dead, view>>

dispatch_app_packet ==
    /\ ~dead /\ draining = 0 /\ inbox # <<>>
    /\ inbox' = Tail(inbox)
    /\ LET m == Head(inbox) IN
       CASE m.t \in {"session", "tcpip"} -> OpenRequest(m.c, m.t)
         [] m.t = "close" -> CloseArrives(m.c)
         [] m.t = "nomore" -> NoMoreSessions
         [] m.t = "adjust" -> UNCHANGED <<ch, sessions, draining, nomore, dead, view>>
         [] OTHER -> handle_channel_request(m.c, m.t)

\* The window was used up: packets are read until it opens.  The state of
\* the channels is kept, the events are not looked at.
drain_send ==
    /\ ~dead /\ draining # 0 /\ inbox # <<>>
    /\ inbox' = Tail(inbox)
    /\ LET m == Head(inbox) IN
       /\ ch' = CASE m.t = "adjust" /\ m.c = draining ->
                         [ch EXCEPT ![draining].st = "sentclose"]
                  [] m.t = "close" /\ m.c # draining ->
                         [ch EXCEPT ![m.c].st = IF @ = "sentclose" THEN "gone" ELSE "peerclosed"]
                  [] m.t \in {"session", "tcpip"} -> [ch EXCEPT ![m.c].st = "limbo"]
                  [] OTHER -> ch
       /\ draining' = IF m.t = "adjust" /\ m.c = draining THEN 0 ELSE draining
       /\ dead' = (m.t = "close" /\ m.c = draining)
    /\ UNCHANGED <<sessions, nomore, view>>

\* A program ends and the loop closes its channel.
Exits(c) ==
    /\ ~dead /\ draining = 0
    /\ ch[c].run \in {"shell", "stream"} /\ ch[c].st \in {"open", "peerclosed"}
    /\ ch' = [ch EXCEPT ![c].st = IF @ = "open" THEN "sentclose" ELSE "gone",
                        ![c].run = IF @ = "shell" THEN "none" ELSE @]
    /\ UNCHANGED <<sessions, inbox, draining, nomore, dead, view>>

-----------------------------------------------------------------------------
(* The client.                                                             *)

Sends(t, c) ==
    /\ ~dead /\ Len(inbox) < MaxInbox
    /\ inbox' = Append(inbox, [t |-> t, c |-> c])
    /\ UNCHANGED <<ch, sessions, draining, nomore, dead>>

ClientOpens(c, kind) ==
    /\ view[c] = "free" /\ \A d \in Chans : d < c => view[d] # "free"
    /\ Sends(kind, c) /\ Told(c, "asked")

ClientAsks(c, t) == view[c] = "open" /\ Sends(t, c) /\ UNCHANGED view
ClientCloses(c) == view[c] = "open" /\ Sends("close", c) /\ Told(c, "closed")
ClientAdjusts(c) == draining = c /\ view[c] = "open" /\ Sends("adjust", c) /\ UNCHANGED view
ClientIsDone == ~nomore /\ Sends("nomore", 0) /\ UNCHANGED view

Next ==
    \/ dispatch_app_packet \/ drain_send
    \/ ClientIsDone
    \/ \E c \in Chans :
           \/ Exits(c) \/ ClientCloses(c) \/ ClientAdjusts(c)
           \/ \E k \in {"session", "tcpip"} : ClientOpens(c, k)
           \/ \E t \in Programs \cup {"pty", "env"} : ClientAsks(c, t)

Spec == Init /\ [][Next]_vars

-----------------------------------------------------------------------------
(* Properties.                                                             *)

\* Whatever is asked for and however, only the forced command runs, the
\* administrator's before the certificate's.
ForcedOnly ==
    \A c \in Chans : \A i \in DOMAIN ch[c].prog :
        /\ ForceCommand # "none" => ch[c].prog[i] = ForceCommand
        /\ ForceCommand = "none" /\ CertForce # "none" => ch[c].prog[i] = CertForce

\* A channel runs at most one program in its life.
OneProgram == \A c \in Chans : Len(ch[c].prog) <= 1

\* Programs run on session channels, on no more at a time than MaxSessions.
SessionsBounded ==
    Cardinality({c \in Chans : ch[c].prog # <<>> /\ ch[c].st # "gone"}) <= MaxSessions

\* session_channels holds the session channels that are currently open: one
\* the client has closed no longer counts against MaxSessions.
Counted == sessions = {c \in Chans : ch[c].kind = "session" /\ ch[c].st \in {"open", "sentclose"}}

\* No command is run inside its request: what drain_send reads past is not
\* taken off the count.
AllStreamed == {"asked", "forced", "subsystem"} \subseteq Streams

\* What the server runs on session channels: one program on each, the forced
\* one where there is one, on no more channels than MaxSessions; the count is
\* exact where every command has a thread.
SessionsKept == OneProgram /\ ForcedOnly /\ SessionsBounded /\ (AllStreamed => Counted)

-----------------------------------------------------------------------------
(* The proof.  SessionsKept is not inductive: that a channel gets one      *)
(* program rests on a request being refused once one has started, that     *)
(* the bound holds on channels being taken off the count only with their   *)
(* close, and both on the client opening and closing a channel once.       *)

Opens == {"session", "tcpip"}
Program == {"sftp", "forced", "asked", "login", "subsystem"}
Channel == [st : {"free", "open", "sentclose", "peerclosed", "gone", "limbo"},
            kind : {"none", "session", "tcpip"}, pty : BOOLEAN,
            run : {"none", "shell", "stream"}, prog : Seq(Program), env : Nat]
Packet == [t : Opens \cup {"close", "adjust", "pty", "env"} \cup Programs, c : Chans]
            \cup [t : {"nomore"}, c : {0}]

TypeOK ==
    /\ ch \in [Chans -> Channel]
    /\ sessions \subseteq Chans /\ IsFiniteSet(sessions)
    /\ inbox \in Seq(Packet)
    /\ draining \in Chans \cup {0}
    /\ nomore \in BOOLEAN /\ dead \in BOOLEAN
    /\ view \in [Chans -> {"free", "asked", "open", "closed"}]

\* Nothing has happened on channel c.
Untouched(c) ==
    ch[c].st = "free" /\ ch[c].kind = "none" /\ ch[c].prog = <<>> /\ c \notin sessions

\* The client has not closed channel c as far as the server knows.
Alive(c) == ch[c].st \in {"open", "sentclose"}

Views ==
    \A c \in Chans : /\ view[c] = "free" => Untouched(c)
                     /\ view[c] = "open" => Alive(c)

\* What the client may have sent: one open for a channel, one close.
InboxKept ==
    \A i \in 1 .. Len(inbox) :
        /\ inbox[i].t \in Opens => view[inbox[i].c] = "asked" /\ Untouched(inbox[i].c)
        /\ inbox[i].t = "close" => view[inbox[i].c] = "closed" /\ Alive(inbox[i].c)

SentOnce ==
    \A i, j \in 1 .. Len(inbox) :
        i # j /\ inbox[i].c = inbox[j].c =>
            ~(inbox[i].t \in Opens /\ inbox[j].t \in Opens) /\ ~(inbox[i].t = "close" /\ inbox[j].t = "close")

\* A program is on a channel that is counted, and closes the door behind it.
Started ==
    \A c \in Chans :
        ch[c].prog # <<>> =>
            /\ ch[c].st # "gone" => c \in sessions
            /\ already_started(c) \/ draining = c

Draining == draining # 0 => draining \in sessions /\ ch[draining].prog # <<>>

Limited == Cardinality(sessions) <= MaxSessions

Permitted(p) ==
    /\ ForceCommand # "none" => p = ForceCommand
    /\ ForceCommand = "none" /\ CertForce # "none" => p = CertForce

Programmed ==
    \A c \in Chans : ch[c].prog = <<>> \/ \E p \in Program : ch[c].prog = <<p>> /\ Permitted(p)

CountKept == AllStreamed => draining = 0 /\ Counted

Inv == TypeOK /\ Views /\ InboxKept /\ SentOnce /\ Started /\ Draining /\ Limited /\ Programmed /\ CountKept

\* The constants are what the configuration can hold.
ConstantsOK ==
    /\ Chans \subseteq Nat \ {0} /\ MaxSessions \in Nat
    /\ ForceCommand \in {"none", "forced", "sftp"} /\ CertForce \in {"none", "forced", "sftp"}
    /\ Subsystem \in {"sftp", "command", "served", "unknown"}

\* What a request may do to its channel: start a program ...
Starts(c) ==
    \E p \in Program, x \in Channel :
        /\ Permitted(p) /\ ch' = [ch EXCEPT ![c] = x]
        /\ x.prog = Append(ch[c].prog, p) /\ x.kind = ch[c].kind
        /\ \/ x.st = ch[c].st /\ x.run \in {"shell", "stream"} /\ draining' = draining
           \/ ~AllStreamed /\ x.st = "sentclose" /\ draining' = draining
           \/ ~AllStreamed /\ x.st = ch[c].st /\ draining' = c

\* ... or leave all that matters as it is.
Keeps(c) ==
    /\ draining' = draining
    /\ \E x \in Channel :
          /\ ch' = [ch EXCEPT ![c] = x] /\ x.prog = ch[c].prog /\ x.kind = ch[c].kind
          /\ x.st = ch[c].st /\ x.run = ch[c].run

LEMMA AppendProgram ==
    ASSUME NEW s \in Seq(Program), NEW p \in Program
    PROVE  Append(s, p) \in Seq(Program) /\ (s = <<>> => Append(s, p) = <<p>>)
  <1>1. Append(s, p) \in Seq(Program)
    OBVIOUS
  <1>2. Append(<<>>, p) = <<p>>
    OBVIOUS
  <1> QED BY <1>1, <1>2

\* A started program has the form of Starts.
LEMMA RunsStarts ==
    ASSUME TypeOK, NEW c \in Chans, NEW p \in Program, Permitted(p),
           NEW how \in {"shell", "stream"}, Runs(c, p, how)
    PROVE  Starts(c)
  <1> DEFINE x == [ch[c] EXCEPT !.run = how, !.prog = Append(@, p),
                                !.pty = IF how = "shell" THEN FALSE ELSE @]
  <1>1. ch[c] \in Channel
    BY DEF TypeOK
  <1>2. Append(ch[c].prog, p) \in Seq(Program)
    BY <1>1, AppendProgram DEF Channel
  <1>3. x \in Channel
    BY <1>1, <1>2 DEF Channel
  <1>4. ch' = [ch EXCEPT ![c] = x] /\ draining' = draining
    BY DEF Runs, TypeOK
  <1>5. x.prog = Append(ch[c].prog, p) /\ x.kind = ch[c].kind /\ x.st = ch[c].st /\ x.run = how
    BY <1>1 DEF Channel
  <1> HIDE DEF x
  <1> QED BY <1>3, <1>4, <1>5 DEF Starts

LEMMA BufferedStarts ==
    ASSUME TypeOK, NEW c \in Chans, NEW p \in {"forced", "asked", "subsystem"}, Permitted(p),
           run_exec_command(c, p)
    PROVE  Starts(c)
  <1>1. ch[c] \in Channel /\ p \in Program
    BY DEF TypeOK, Program
  <1>2. Append(ch[c].prog, p) \in Seq(Program)
    BY <1>1, AppendProgram DEF Channel
  <1>3. CASE Runs(c, p, "stream")
    BY <1>1, <1>3, RunsStarts
  <1>4. CASE p \notin Streams /\ ch' = [ch EXCEPT ![c].prog = Append(@, p), ![c].st = "sentclose"]
             /\ UNCHANGED draining
    <2> DEFINE x == [ch[c] EXCEPT !.prog = Append(@, p), !.st = "sentclose"]
    <2>1. x \in Channel
      BY <1>1, <1>2 DEF Channel
    <2>2. ch' = [ch EXCEPT ![c] = x]
      BY <1>4 DEF TypeOK
    <2>3. x.prog = Append(ch[c].prog, p) /\ x.kind = ch[c].kind /\ x.st = "sentclose"
      BY <1>1 DEF Channel
    <2>4. ~AllStreamed
      BY <1>4 DEF AllStreamed
    <2> HIDE DEF x
    <2> QED BY <1>1, <1>4, <2>1, <2>2, <2>3, <2>4 DEF Starts
  <1>5. CASE p \notin Streams /\ ch' = [ch EXCEPT ![c].prog = Append(@, p)] /\ draining' = c
    <2> DEFINE x == [ch[c] EXCEPT !.prog = Append(@, p)]
    <2>1. x \in Channel
      BY <1>1, <1>2 DEF Channel
    <2>2. ch' = [ch EXCEPT ![c] = x]
      BY <1>5 DEF TypeOK
    <2>3. x.prog = Append(ch[c].prog, p) /\ x.kind = ch[c].kind /\ x.st = ch[c].st
      BY <1>1 DEF Channel
    <2>4. ~AllStreamed
      BY <1>5 DEF AllStreamed
    <2> HIDE DEF x
    <2> QED BY <1>1, <1>5, <2>1, <2>2, <2>3, <2>4 DEF Starts
  <1> QED BY <1>3, <1>4, <1>5 DEF run_exec_command

LEMMA NotSpawnedKeeps ==
    ASSUME TypeOK, NEW c \in Chans, NotSpawned(c)
    PROVE  Keeps(c)
  <1> DEFINE x == [ch[c] EXCEPT !.pty = FALSE]
  <1>1. ch[c] \in Channel
    BY DEF TypeOK
  <1>2. x \in Channel /\ x.prog = ch[c].prog /\ x.kind = ch[c].kind /\ x.st = ch[c].st /\ x.run = ch[c].run
    BY <1>1 DEF Channel
  <1>3. ch' = [ch EXCEPT ![c] = x] /\ draining' = draining
    BY DEF NotSpawned, TypeOK
  <1> HIDE DEF x
  <1> QED BY <1>2, <1>3 DEF Keeps

LEMMA RefusedKeeps ==
    ASSUME TypeOK, NEW c \in Chans, Refused
    PROVE  Keeps(c)
  <1>1. ch[c] \in Channel /\ ch = [ch EXCEPT ![c] = ch[c]]
    BY DEF TypeOK
  <1> QED BY <1>1 DEF Refused, Keeps

LEMMA OnPtyStarts ==
    ASSUME TypeOK, NEW c \in Chans, NEW p \in {"forced", "asked", "subsystem"}, Permitted(p),
           OnPtyOrPlain(c, p)
    PROVE  Starts(c) \/ Keeps(c)
  <1>1. p \in Program
    BY DEF Program
  <1> QED BY <1>1, RunsStarts, BufferedStarts, NotSpawnedKeeps DEF OnPtyOrPlain, spawn_command_on_pty

\* What the policy lets run.
LEMMA Policy ==
    ASSUME ConstantsOK
    PROVE  /\ fold_cert_caps = "sftp" => Permitted("sftp")
           /\ fold_cert_caps = "forced" => Permitted("forced")
           /\ fold_cert_caps \notin {"sftp", "forced"} => \A p \in Program : Permitted(p)
  BY DEF ConstantsOK, fold_cert_caps, Permitted

LEMMA SftpStarts ==
    ASSUME TypeOK, NEW c \in Chans, Permitted("sftp"), route_internal_sftp(c)
    PROVE  Starts(c)
  BY RunsStarts DEF route_internal_sftp, Program

LEMMA ExecEffect ==
    ASSUME ConstantsOK, TypeOK, NEW c \in Chans, Exec(c)
    PROVE  Starts(c) \/ Keeps(c)
  <1>1. CASE fold_cert_caps = "sftp"
    BY <1>1, Policy, SftpStarts DEF Exec
  <1>2. CASE fold_cert_caps = "forced"
    BY <1>2, Policy, OnPtyStarts DEF Exec
  <1>3. CASE fold_cert_caps \notin {"sftp", "forced"}
    <2>1. Permitted("asked")
      BY <1>3, Policy DEF Program
    <2> QED BY <1>3, <2>1, OnPtyStarts DEF Exec
  <1> QED BY <1>1, <1>2, <1>3

LEMMA ShellEffect ==
    ASSUME ConstantsOK, TypeOK, NEW c \in Chans, Shell(c)
    PROVE  Starts(c) \/ Keeps(c)
  <1>1. CASE fold_cert_caps = "sftp"
    BY <1>1, Policy, SftpStarts DEF Shell
  <1>2. CASE fold_cert_caps = "forced"
    BY <1>2, Policy, OnPtyStarts DEF Shell
  <1>3. CASE fold_cert_caps \notin {"sftp", "forced"}
    <2>1. Permitted("login") /\ "login" \in Program
      BY <1>3, Policy DEF Program
    <2> QED BY <1>3, <2>1, RunsStarts, NotSpawnedKeeps DEF Shell
  <1> QED BY <1>1, <1>2, <1>3

LEMMA SubsystemEffect ==
    ASSUME ConstantsOK, TypeOK, NEW c \in Chans, SubsystemRequest(c)
    PROVE  Starts(c) \/ Keeps(c)
  <1>1. CASE fold_cert_caps = "sftp"
    BY <1>1, Policy, SftpStarts DEF SubsystemRequest
  <1>2. CASE fold_cert_caps = "forced"
    BY <1>2, Policy, BufferedStarts DEF SubsystemRequest
  <1>3. CASE fold_cert_caps \notin {"sftp", "forced"}
    <2>1. Permitted("subsystem") /\ "subsystem" \in Program /\ Permitted("sftp")
      BY <1>3, Policy DEF Program
    <2>2. Subsystem \in {"sftp", "command", "served", "unknown"}
      BY DEF ConstantsOK
    <2>3. CASE Subsystem = "sftp"
      BY <1>3, <2>1, <2>3, SftpStarts DEF SubsystemRequest
    <2>4. CASE Subsystem = "command"
      BY <1>3, <2>1, <2>4, OnPtyStarts DEF SubsystemRequest
    <2>5. CASE Subsystem = "served"
      BY <1>3, <2>1, <2>5, RunsStarts DEF SubsystemRequest
    <2>6. CASE Subsystem = "unknown"
      BY <1>3, <2>6, RefusedKeeps DEF SubsystemRequest
    <2> QED BY <2>2, <2>3, <2>4, <2>5, <2>6
  <1> QED BY <1>1, <1>2, <1>3

LEMMA PtyEnvEffect ==
    ASSUME TypeOK, NEW c \in Chans, PtyReq(c) \/ Env(c)
    PROVE  Keeps(c)
  <1>1. ch[c] \in Channel
    BY DEF TypeOK
  <1>2. CASE ch' = [ch EXCEPT ![c].pty = TRUE] /\ UNCHANGED draining
    <2> DEFINE x == [ch[c] EXCEPT !.pty = TRUE]
    <2>1. x \in Channel /\ x.prog = ch[c].prog /\ x.kind = ch[c].kind /\ x.st = ch[c].st /\ x.run = ch[c].run
      BY <1>1 DEF Channel
    <2>2. ch' = [ch EXCEPT ![c] = x]
      BY <1>2 DEF TypeOK
    <2> HIDE DEF x
    <2> QED BY <1>2, <2>1, <2>2 DEF Keeps
  <1>3. CASE ch' = [ch EXCEPT ![c].env = @ + 1] /\ UNCHANGED draining
    <2> DEFINE x == [ch[c] EXCEPT !.env = @ + 1]
    <2>1. x \in Channel /\ x.prog = ch[c].prog /\ x.kind = ch[c].kind /\ x.st = ch[c].st /\ x.run = ch[c].run
      BY <1>1 DEF Channel
    <2>2. ch' = [ch EXCEPT ![c] = x]
      BY <1>3 DEF TypeOK
    <2> HIDE DEF x
    <2> QED BY <1>3, <2>1, <2>2 DEF Keeps
  <1> QED BY <1>2, <1>3, RefusedKeeps DEF PtyReq, Env

\* A request starts a program only on a counted channel that has none.
LEMMA RequestEffect ==
    ASSUME ConstantsOK, TypeOK, NEW c \in Chans, NEW t \in Programs \cup {"pty", "env"},
           handle_channel_request(c, t)
    PROVE  /\ Keeps(c) \/ (c \in sessions /\ ~already_started(c) /\ Starts(c))
           /\ UNCHANGED <<sessions, nomore, dead, view>>
  <1>1. UNCHANGED <<sessions, nomore, dead, view>>
    BY DEF handle_channel_request, Alone
  <1>2. CASE ~session_only(c) \/ (t \in Programs /\ already_started(c))
    BY <1>1, <1>2, RefusedKeeps DEF handle_channel_request
  <1>3. CASE session_only(c) /\ ~(t \in Programs /\ already_started(c))
    <2>1. CASE t = "exec"
      BY <1>1, <1>3, <2>1, ExecEffect DEF handle_channel_request, session_only, Programs
    <2>2. CASE t = "shell"
      BY <1>1, <1>3, <2>2, ShellEffect DEF handle_channel_request, session_only, Programs
    <2>3. CASE t = "subsystem"
      BY <1>1, <1>3, <2>3, SubsystemEffect DEF handle_channel_request, session_only, Programs
    <2>4. CASE t = "pty"
      BY <1>1, <1>3, <2>4, PtyEnvEffect DEF handle_channel_request, Programs
    <2>5. CASE t = "env"
      BY <1>1, <1>3, <2>5, PtyEnvEffect DEF handle_channel_request, Programs
    <2> QED BY <1>1, <2>1, <2>2, <2>3, <2>4, <2>5 DEF Programs
  <1> QED BY <1>1, <1>2, <1>3

\* What reading a packet leaves in the inbox.
LEMMA Popped ==
    ASSUME TypeOK, inbox # <<>>, inbox' = Tail(inbox)
    PROVE  /\ inbox' \in Seq(Packet) /\ Head(inbox) = inbox[1] /\ inbox[1] \in Packet
           /\ Len(inbox) \in Nat \ {0}
           /\ \A i \in 1 .. Len(inbox') : i + 1 \in 2 .. Len(inbox) /\ inbox'[i] = inbox[i + 1]
                                          /\ inbox'[i] \in Packet
  BY DEF TypeOK

LEMMA PoppedOnce ==
    ASSUME TypeOK, SentOnce, inbox # <<>>, inbox' = Tail(inbox)
    PROVE  SentOnce'
  BY Popped DEF SentOnce

\* The packets behind the first one that the changes to channel c do not concern.
LEMMA RestKept ==
    ASSUME TypeOK, InboxKept, SentOnce, inbox # <<>>, inbox' = Tail(inbox), NEW c,
           \A d \in Chans : d # c => ch'[d] = ch[d] /\ view'[d] = view[d] /\ (d \in sessions' <=> d \in sessions),
           \A i \in 2 .. Len(inbox) : inbox[i].c = c /\ inbox[i].t \in Opens =>
                view'[c] = "asked" /\ Untouched(c)',
           \A i \in 2 .. Len(inbox) : inbox[i].c = c /\ inbox[i].t = "close" =>
                view'[c] = "closed" /\ Alive(c)'
    PROVE  InboxKept'
  <1> SUFFICES ASSUME NEW i \in 1 .. Len(inbox')
               PROVE  (/\ inbox[i].t \in Opens => view[inbox[i].c] = "asked" /\ Untouched(inbox[i].c)
                       /\ inbox[i].t = "close" => view[inbox[i].c] = "closed" /\ Alive(inbox[i].c))'
    BY DEF InboxKept
  <1> DEFINE k == i + 1
  <1>1. k \in 2 .. Len(inbox) /\ inbox'[i] = inbox[k] /\ inbox[k] \in Packet
    BY Popped
  <1>2. k \in 1 .. Len(inbox)
    BY <1>1, Popped
  <1> HIDE DEF k
  <1>3. inbox[k].t \in Opens \cup {"close"} => inbox[k].c \in Chans
    BY <1>1 DEF Packet, Opens
  <1>4. CASE inbox[k].c = c
    BY <1>1, <1>4 DEF Untouched, Alive
  <1>5. CASE inbox[k].c # c
    BY <1>1, <1>2, <1>3, <1>5 DEF InboxKept, Untouched, Alive
  <1> QED BY <1>4, <1>5

\* A request that starts nothing.
LEMMA KeepsStep ==
    ASSUME Inv, NEW c \in Chans, Keeps(c), inbox # <<>>, inbox' = Tail(inbox),
           UNCHANGED <<sessions, nomore, dead, view>>
    PROVE  Inv'
  <1>1. PICK x \in Channel : /\ ch' = [ch EXCEPT ![c] = x] /\ x.prog = ch[c].prog /\ x.kind = ch[c].kind
                             /\ x.st = ch[c].st /\ x.run = ch[c].run
    BY DEF Keeps
  <1>2. ch' \in [Chans -> Channel] /\ \A d \in Chans :
            /\ ch'[d].prog = ch[d].prog /\ ch'[d].kind = ch[d].kind
            /\ ch'[d].st = ch[d].st /\ ch'[d].run = ch[d].run
            /\ d # c => ch'[d] = ch[d]
    BY <1>1 DEF Inv, TypeOK
  <1>3. TypeOK'
    BY <1>2, Popped DEF Inv, TypeOK, Keeps
  <1>4. Views'
    BY <1>2 DEF Inv, Views, Untouched, Alive
  <1>5. InboxKept'
    <2>1. \A i \in 2 .. Len(inbox) : i \in 1 .. Len(inbox)
      BY Popped DEF Inv
    <2>2. Untouched(c) => Untouched(c)'
      BY <1>2 DEF Untouched
    <2>3. Alive(c) => Alive(c)'
      BY <1>2 DEF Alive
    <2>4. \A i \in 2 .. Len(inbox) :
             /\ inbox[i].c = c /\ inbox[i].t \in Opens => view[c] = "asked" /\ Untouched(c)
             /\ inbox[i].c = c /\ inbox[i].t = "close" => view[c] = "closed" /\ Alive(c)
      BY <2>1 DEF Inv, InboxKept
    <2> QED BY <1>2, <2>2, <2>3, <2>4, RestKept DEF Inv
  <1>6. SentOnce'
    BY PoppedOnce DEF Inv
  <1>7. Started' /\ Draining' /\ Limited' /\ Programmed' /\ CountKept'
    BY <1>2 DEF Inv, TypeOK, Started, Draining, Limited, Programmed, CountKept, Counted, Keeps, already_started
  <1> QED BY <1>3, <1>4, <1>5, <1>6, <1>7 DEF Inv

\* A request that starts a program.
LEMMA StartsStep ==
    ASSUME Inv, ConstantsOK, draining = 0, NEW c \in Chans, Starts(c), c \in sessions, ~already_started(c),
           inbox # <<>>, inbox' = Tail(inbox), UNCHANGED <<sessions, nomore, dead, view>>
    PROVE  Inv'
  <1>1. PICK p \in Program, x \in Channel :
            /\ Permitted(p) /\ ch' = [ch EXCEPT ![c] = x]
            /\ x.prog = Append(ch[c].prog, p) /\ x.kind = ch[c].kind
            /\ \/ x.st = ch[c].st /\ x.run \in {"shell", "stream"} /\ draining' = draining
               \/ ~AllStreamed /\ x.st = "sentclose" /\ draining' = draining
               \/ ~AllStreamed /\ x.st = ch[c].st /\ draining' = c
    BY DEF Starts
  <1>2. ch' \in [Chans -> Channel] /\ ch'[c] = x /\ \A d \in Chans : d # c => ch'[d] = ch[d]
    BY <1>1 DEF Inv, TypeOK
  <1>3. ch[c].st = "open" /\ c # 0
    BY DEF already_started, ConstantsOK
  <1>4. ch[c].prog = <<>> /\ ch[c].prog \in Seq(Program)
    BY <1>3 DEF Inv, Started, TypeOK, Channel
  <1>5. x.prog = <<p>> /\ x.prog # <<>>
    <2>1. x.prog = <<p>>
      BY <1>1, <1>4, AppendProgram
    <2>2. <<p>> # <<>>
      OBVIOUS
    <2> QED BY <2>1, <2>2
  <1>6. x.st \in {"open", "sentclose"} /\ draining' \in {0, c}
    BY <1>1, <1>3
  <1>7. TypeOK'
    BY <1>2, <1>6, Popped DEF Inv, TypeOK
  <1>8. Views'
    BY <1>2, <1>6 DEF Inv, Views, Untouched, Alive
  <1>9. InboxKept'
    <2>1. \A i \in 2 .. Len(inbox) : i \in 1 .. Len(inbox)
      BY Popped DEF Inv
    <2>2. ~Untouched(c)
      BY DEF Untouched
    <2>3. Alive(c)'
      BY <1>2, <1>6 DEF Alive
    <2> QED BY <1>2, <2>1, <2>2, <2>3, RestKept DEF Inv, InboxKept
  <1>10. SentOnce'
    BY PoppedOnce DEF Inv
  <1>11. Started'
    <2> SUFFICES ASSUME NEW d \in Chans, ch'[d].prog # <<>>
                 PROVE  (ch'[d].st # "gone" => d \in sessions') /\ (already_started(d)' \/ draining' = d)
      BY DEF Started
    <2>1. CASE d = c
      BY <1>1, <1>2, <2>1 DEF already_started
    <2>2. CASE d # c
      <3>1. ch'[d] = ch[d]
        BY <1>2, <2>2
      <3>2. d # 0
        BY DEF ConstantsOK
      <3> QED BY <3>1, <3>2 DEF Inv, Started, already_started
    <2> QED BY <2>1, <2>2
  <1>12. Draining'
    BY <1>2, <1>5, <1>6 DEF Draining
  <1>13. Programmed'
    BY <1>1, <1>2, <1>5 DEF Inv, Programmed, Permitted
  <1>14. CountKept'
    BY <1>1, <1>2, <1>3 DEF Inv, CountKept, Counted, AllStreamed
  <1>15. Limited'
    BY DEF Inv, Limited
  <1> QED BY <1>7, <1>8, <1>9, <1>10, <1>11, <1>12, <1>13, <1>14, <1>15 DEF Inv

\* The packet read and the ones behind it are about different openings and
\* different closes.
LEMMA HeadOnce ==
    ASSUME TypeOK, InboxKept, SentOnce, inbox # <<>>, inbox' = Tail(inbox), NEW c, c = inbox[1].c
    PROVE  \A i \in 2 .. Len(inbox) : inbox[i].c = c =>
               /\ inbox[i].t \in Opens => inbox[1].t \notin Opens /\ view[c] = "asked" /\ Untouched(c)
               /\ inbox[i].t = "close" => inbox[1].t # "close" /\ view[c] = "closed" /\ Alive(c)
  <1>1. \A i \in 2 .. Len(inbox) : i \in 1 .. Len(inbox) /\ 1 \in 1 .. Len(inbox) /\ i # 1
    BY Popped
  <1> QED BY <1>1 DEF SentOnce, InboxKept

\* A channel is opened or refused.
LEMMA OpenStep ==
    ASSUME Inv, ConstantsOK, draining = 0, inbox # <<>>, inbox' = Tail(inbox),
           inbox[1].t \in Opens, OpenRequest(inbox[1].c, inbox[1].t)
    PROVE  Inv'
  <1>0. PICK c, kind : c = inbox[1].c /\ kind = inbox[1].t
    OBVIOUS
  <1>1. c \in Chans /\ c # 0 /\ Untouched(c) /\ view[c] = "asked"
    BY <1>0, Popped DEF Inv, InboxKept, Packet, Opens, ConstantsOK
  <1>2. \A i \in 2 .. Len(inbox) : inbox[i].c = c => inbox[i].t \notin Opens \cup {"close"}
    BY <1>0, <1>1, HeadOnce DEF Inv, Opens
  <1>3. OpenRequest(c, kind) /\ UNCHANGED <<draining, nomore>> /\ kind \in Opens
    BY <1>0 DEF OpenRequest
  <1>4. SentOnce'
    BY PoppedOnce DEF Inv
  <1>5. CASE dead' = TRUE /\ UNCHANGED <<ch, sessions, view>>
    <2>1. InboxKept'
      <3>1. \A i \in 1 .. Len(inbox') : i + 1 \in 1 .. Len(inbox) /\ inbox'[i] = inbox[i + 1]
        BY Popped DEF Inv
      <3> QED BY <1>5, <3>1 DEF Inv, InboxKept, Untouched, Alive
    <2>2. TypeOK'
      BY <1>3, <1>5, Popped DEF Inv, TypeOK
    <2> QED BY <1>3, <1>4, <1>5, <2>1, <2>2 DEF Inv, Views, Started, Draining, Limited, Programmed,
                 CountKept, Counted, Untouched, Alive, already_started
  <1>6. CASE ch' = [ch EXCEPT ![c].st = "gone"] /\ view' = [view EXCEPT ![c] = "closed"] /\ UNCHANGED <<sessions, dead>>
    <2>1. /\ ch' \in [Chans -> Channel] /\ ch'[c].st = "gone" /\ ch'[c].kind = "none" /\ ch'[c].prog = <<>>
          /\ \A d \in Chans : d # c => ch'[d] = ch[d]
      <3> DEFINE x == [ch[c] EXCEPT !.st = "gone"]
      <3>1. ch[c] \in Channel /\ ch' = [ch EXCEPT ![c] = x]
        BY <1>1, <1>6 DEF Inv, TypeOK
      <3>2. x \in Channel /\ x.st = "gone" /\ x.kind = "none" /\ x.prog = <<>>
        BY <1>1, <3>1 DEF Channel, Untouched
      <3> HIDE DEF x
      <3> QED BY <1>1, <3>1, <3>2 DEF Inv, TypeOK
    <2>2. /\ view' \in [Chans -> {"free", "asked", "open", "closed"}] /\ view'[c] = "closed"
          /\ \A d \in Chans : d # c => view'[d] = view[d]
      BY <1>1, <1>6 DEF Inv, TypeOK
    <2>3. TypeOK'
      BY <1>3, <1>6, <2>1, <2>2, Popped DEF Inv, TypeOK
    <2>4. InboxKept'
      BY <1>2, <1>6, <2>1, <2>2, RestKept DEF Inv
    <2>5. Views'
      BY <1>6, <2>1, <2>2 DEF Inv, Views, Untouched, Alive
    <2>6. Started' /\ Draining' /\ Limited'
      BY <1>3, <1>6, <2>1 DEF Inv, Started, Draining, Limited, already_started
    <2>7. Programmed'
      BY <2>1 DEF Inv, Programmed
    <2>8. CountKept'
      <3> SUFFICES ASSUME AllStreamed PROVE draining' = 0 /\ Counted'
        BY DEF CountKept, AllStreamed
      <3> QED BY <1>1, <1>3, <1>6, <2>1 DEF Inv, CountKept, Counted, Untouched
    <2> QED BY <1>4, <2>3, <2>4, <2>5, <2>6, <2>7, <2>8 DEF Inv
  <1>7. ASSUME NEW run \in {"none", "stream"}, Opened(c, kind, run), UNCHANGED dead,
               \/ kind = "session" /\ sessions' = sessions \cup {c} /\ ~(Cardinality(sessions) >= MaxSessions)
               \/ kind = "tcpip" /\ sessions' = sessions
        PROVE  Inv'
    <2>1. /\ ch' \in [Chans -> Channel] /\ ch'[c].st = "open" /\ ch'[c].kind = kind /\ ch'[c].prog = <<>>
          /\ \A d \in Chans : d # c => ch'[d] = ch[d]
      <3> DEFINE x == [ch[c] EXCEPT !.st = "open", !.kind = kind, !.run = run]
      <3>1. ch[c] \in Channel /\ ch' = [ch EXCEPT ![c] = x]
        BY <1>1, <1>7 DEF Inv, TypeOK, Opened
      <3>2. x \in Channel /\ x.st = "open" /\ x.kind = kind /\ x.prog = <<>>
        BY <1>1, <1>3, <3>1 DEF Channel, Untouched, Opens
      <3> HIDE DEF x
      <3> QED BY <1>1, <3>1, <3>2 DEF Inv, TypeOK
    <2>2. /\ view' \in [Chans -> {"free", "asked", "open", "closed"}] /\ view'[c] = "open"
          /\ \A d \in Chans : d # c => view'[d] = view[d]
      BY <1>1, <1>7 DEF Inv, TypeOK, Opened, Told
    <2>3. /\ sessions' \subseteq Chans /\ IsFiniteSet(sessions') /\ Limited'
          /\ \A d \in Chans : d # c => (d \in sessions' <=> d \in sessions)
      <3>1. CASE kind = "session"
        <4>1. IsFiniteSet(sessions) /\ c \notin sessions /\ sessions' = sessions \cup {c}
          BY <1>1, <1>7, <3>1 DEF Inv, TypeOK, Untouched
        <4>2. Cardinality(sessions) \in Nat /\ IsFiniteSet(sessions')
              /\ Cardinality(sessions') = Cardinality(sessions) + 1
          BY <4>1, FS_AddElement, FS_CardinalityType
        <4>3. Cardinality(sessions) < MaxSessions /\ MaxSessions \in Nat
          BY <1>7, <3>1, <4>2 DEF ConstantsOK
        <4> QED BY <1>1, <4>1, <4>2, <4>3 DEF Inv, TypeOK, Limited
      <3>2. CASE kind = "tcpip"
        BY <1>7, <3>2 DEF Inv, TypeOK, Limited
      <3> QED BY <1>7, <3>1, <3>2
    <2>4. TypeOK'
      BY <1>3, <1>7, <2>1, <2>2, <2>3, Popped DEF Inv, TypeOK
    <2>5. InboxKept'
      BY <1>2, <2>1, <2>2, <2>3, RestKept DEF Inv
    <2>6. Views'
      BY <2>1, <2>2, <2>3 DEF Inv, Views, Untouched, Alive
    <2>7. Started' /\ Draining' /\ Programmed'
      BY <1>3, <2>1, <2>3 DEF Inv, Started, Draining, Programmed, already_started
    <2>8. CountKept'
      <3> SUFFICES ASSUME AllStreamed PROVE draining' = 0 /\ Counted'
        BY DEF CountKept, AllStreamed
      <3>1. sessions = {d \in Chans : ch[d].kind = "session" /\ ch[d].st \in {"open", "sentclose"}} /\ draining = 0
        BY DEF Inv, CountKept, Counted
      <3>2. \A d \in Chans : d \in sessions' <=> ch'[d].kind = "session" /\ ch'[d].st \in {"open", "sentclose"}
        BY <1>1, <1>7, <2>1, <3>1 DEF Untouched
      <3> QED BY <1>3, <2>3, <3>1, <3>2 DEF Counted
    <2> QED BY <1>4, <2>3, <2>4, <2>5, <2>6, <2>7, <2>8 DEF Inv
  <1>8. CASE kind = "session"
    BY <1>3, <1>5, <1>6, <1>7, <1>8 DEF OpenRequest, OpenSession, Rejected, Told
  <1>9. CASE kind = "tcpip"
    BY <1>3, <1>6, <1>7, <1>9 DEF OpenRequest, Rejected, Told
  <1> QED BY <1>3, <1>8, <1>9 DEF Opens

LEMMA CloseStep ==
    ASSUME Inv, ConstantsOK, draining = 0, inbox # <<>>, inbox' = Tail(inbox),
           inbox[1].t = "close", CloseArrives(inbox[1].c)
    PROVE  Inv'
  <1>0. PICK c : c = inbox[1].c
    OBVIOUS
  <1>1. c \in Chans /\ Alive(c) /\ view[c] = "closed"
    BY <1>0, Popped DEF Inv, InboxKept, Packet, Programs, Opens
  <1>2. \A i \in 2 .. Len(inbox) : inbox[i].c = c => inbox[i].t \notin Opens \cup {"close"}
    BY <1>0, <1>1, HeadOnce DEF Inv, Opens, Alive, Untouched
  <1>3. CloseArrives(c) /\ UNCHANGED <<draining, nomore, dead, view>> /\ sessions' = sessions \ {c}
    BY <1>0 DEF CloseArrives
  <1>4. /\ ch' \in [Chans -> Channel] /\ ch'[c].st = "gone" /\ ch'[c].prog = ch[c].prog
        /\ \A d \in Chans : d # c => ch'[d] = ch[d]
    <2> DEFINE x == [ch[c] EXCEPT !.st = "gone", !.run = "none"]
    <2>1. ch[c] \in Channel /\ ch' = [ch EXCEPT ![c] = x]
      BY <1>1, <1>3 DEF Inv, TypeOK, CloseArrives
    <2>2. x \in Channel /\ x.st = "gone" /\ x.prog = ch[c].prog
      BY <2>1 DEF Channel
    <2> HIDE DEF x
    <2> QED BY <1>1, <2>1, <2>2 DEF Inv, TypeOK
  <1>5. IsFiniteSet(sessions') /\ Limited'
    <2>1. IsFiniteSet(sessions') /\ Cardinality(sessions') <= Cardinality(sessions)
          /\ Cardinality(sessions) \in Nat /\ Cardinality(sessions') \in Nat
      BY <1>3, FS_Subset, FS_CardinalityType DEF Inv, TypeOK
    <2> QED BY <2>1 DEF Inv, Limited, ConstantsOK
  <1>6. TypeOK'
    BY <1>3, <1>4, <1>5, Popped DEF Inv, TypeOK
  <1>7. InboxKept'
    BY <1>2, <1>3, <1>4, RestKept DEF Inv
  <1>8. SentOnce'
    BY PoppedOnce DEF Inv
  <1>9. Views'
    BY <1>1, <1>3, <1>4 DEF Inv, Views, Untouched, Alive
  <1>10. Started' /\ Draining' /\ Programmed'
    BY <1>3, <1>4 DEF Inv, Started, Draining, Programmed, already_started
  <1>11. CountKept'
    <2> SUFFICES ASSUME AllStreamed PROVE draining' = 0 /\ Counted'
      BY DEF CountKept, AllStreamed
    <2> QED BY <1>3, <1>4 DEF Inv, CountKept, Counted
  <1> QED BY <1>5, <1>6, <1>7, <1>8, <1>9, <1>10, <1>11 DEF Inv

\* A packet that changes nothing but nomore.
LEMMA IdleStep ==
    ASSUME Inv, inbox # <<>>, inbox' = Tail(inbox), UNCHANGED <<ch, sessions, draining, dead, view>>,
           nomore' \in BOOLEAN
    PROVE  Inv'
  <1>1. TypeOK' /\ SentOnce'
    BY Popped, PoppedOnce DEF Inv, TypeOK
  <1>2. InboxKept'
    <2>1. \A i \in 1 .. Len(inbox') : i + 1 \in 1 .. Len(inbox) /\ inbox'[i] = inbox[i + 1]
      BY Popped DEF Inv
    <2> QED BY <2>1 DEF Inv, InboxKept, Untouched, Alive
  <1> QED BY <1>1, <1>2 DEF Inv, Views, Started, Draining, Limited, Programmed, CountKept, Counted,
               Untouched, Alive, already_started

LEMMA DispatchStep ==
    ASSUME Inv, ConstantsOK, dispatch_app_packet
    PROVE  Inv'
  <1> DEFINE m == inbox[1]
  <1>1. draining = 0 /\ inbox # <<>> /\ inbox' = Tail(inbox) /\ Head(inbox) = m /\ m \in Packet
    BY Popped DEF Inv, dispatch_app_packet
  <1>2. CASE m.t \in Opens
    BY <1>1, <1>2, OpenStep DEF dispatch_app_packet, Opens
  <1>3. CASE m.t = "close"
    BY <1>1, <1>3, CloseStep DEF dispatch_app_packet
  <1>4. CASE m.t = "nomore"
    BY <1>1, <1>4, IdleStep DEF dispatch_app_packet, NoMoreSessions
  <1>5. CASE m.t = "adjust"
    BY <1>1, <1>5, IdleStep DEF dispatch_app_packet, Inv, TypeOK
  <1>6. CASE m.t \in Programs \cup {"pty", "env"}
    <2>1. m.c \in Chans /\ handle_channel_request(m.c, m.t)
      BY <1>1, <1>6 DEF dispatch_app_packet, Packet, Programs
    <2>2. /\ Keeps(m.c) \/ (m.c \in sessions /\ ~already_started(m.c) /\ Starts(m.c))
          /\ UNCHANGED <<sessions, nomore, dead, view>>
      BY <1>6, <2>1, RequestEffect DEF Inv
    <2> QED BY <1>1, <2>1, <2>2, KeepsStep, StartsStep
  <1> QED BY <1>1, <1>2, <1>3, <1>4, <1>5, <1>6 DEF Packet

\* Packets read while output is being sent.
LEMMA DrainStep ==
    ASSUME Inv, ConstantsOK, drain_send
    PROVE  Inv'
  <1>0. PICK m, d0 : m = inbox[1] /\ d0 = draining
    OBVIOUS
  <1>1. /\ d0 # 0 /\ inbox # <<>> /\ inbox' = Tail(inbox) /\ Head(inbox) = m /\ m \in Packet
        /\ UNCHANGED <<sessions, nomore, view>>
    BY <1>0, Popped DEF Inv, drain_send
  <1>2. /\ d0 \in sessions /\ d0 \in Chans /\ ch[d0] \in Channel /\ ch[d0].prog # <<>>
        /\ 1 \in 1 .. Len(inbox) /\ ~AllStreamed
    BY <1>0, <1>1, Popped DEF Inv, Draining, TypeOK, CountKept
  <1>3. SentOnce'
    BY <1>1, PoppedOnce DEF Inv
  <1>4. dead' \in BOOLEAN
    BY DEF drain_send
  <1>5. CASE m.t = "adjust" /\ m.c = d0
    <2> DEFINE x == [ch[d0] EXCEPT !.st = "sentclose"]
    <2>1. ch' = [ch EXCEPT ![d0] = x] /\ draining' = 0
      BY <1>0, <1>1, <1>2, <1>5 DEF drain_send, Inv, TypeOK
    <2>2. x \in Channel /\ x.st = "sentclose" /\ x.prog = ch[d0].prog
      BY <1>2 DEF Channel
    <2> HIDE DEF x
    <2>3. /\ ch' \in [Chans -> Channel] /\ ch'[d0].st = "sentclose" /\ ch'[d0].prog = ch[d0].prog
          /\ \A d \in Chans : d # d0 => ch'[d] = ch[d]
      BY <1>2, <2>1, <2>2 DEF Inv, TypeOK
    <2>4. TypeOK'
      BY <1>1, <1>4, <2>1, <2>3, Popped DEF Inv, TypeOK
    <2>5. InboxKept'
      <3>1. \A i \in 2 .. Len(inbox) : i \in 1 .. Len(inbox)
        BY <1>1, Popped DEF Inv
      <3>2. ~Untouched(d0)
        BY <1>2 DEF Untouched
      <3>3. Alive(d0)'
        BY <2>3 DEF Alive
      <3>4. \A i \in 2 .. Len(inbox) : inbox[i].c = d0 =>
               inbox[i].t \notin Opens /\ (inbox[i].t = "close" => view[d0] = "closed")
        BY <3>1, <3>2 DEF Inv, InboxKept
      <3> QED BY <1>1, <2>3, <3>3, <3>4, RestKept DEF Inv
    <2>6. Views'
      BY <1>1, <1>2, <2>3 DEF Inv, Views, Untouched, Alive
    <2>7. Started' /\ Draining' /\ Limited'
      BY <1>0, <1>1, <1>2, <2>1, <2>3 DEF Inv, Started, Draining, Limited, already_started
    <2>8. Programmed' /\ CountKept'
      BY <1>2, <2>3 DEF Inv, Programmed, CountKept, AllStreamed
    <2> QED BY <1>3, <2>4, <2>5, <2>6, <2>7, <2>8 DEF Inv
  <1>6. CASE m.t = "close" /\ m.c # d0
    <2> DEFINE c == m.c
               x == [ch[c] EXCEPT !.st = IF @ = "sentclose" THEN "gone" ELSE "peerclosed"]
    <2>1. c \in Chans /\ Alive(c) /\ view[c] = "closed" /\ c # d0 /\ ch[c] \in Channel
      BY <1>0, <1>1, <1>2, <1>6 DEF Inv, InboxKept, Packet, Programs, Opens, TypeOK
    <2>2. ch' = [ch EXCEPT ![c] = x] /\ draining' = d0
      BY <1>0, <1>1, <1>6, <2>1 DEF drain_send, Inv, TypeOK, Opens
    <2>3. x \in Channel /\ x.st \in {"gone", "peerclosed"} /\ x.prog = ch[c].prog /\ x.kind = ch[c].kind
      BY <2>1 DEF Channel
    <2>4. \A i \in 2 .. Len(inbox) : inbox[i].c = c => inbox[i].t \notin Opens \cup {"close"}
      BY <1>0, <1>1, <1>6, <2>1, HeadOnce DEF Inv, Opens, Alive, Untouched
    <2> HIDE DEF x, c
    <2>5. /\ ch' \in [Chans -> Channel] /\ ch'[c].st \in {"gone", "peerclosed"} /\ ch'[c].prog = ch[c].prog
          /\ \A d \in Chans : d # c => ch'[d] = ch[d]
      BY <2>1, <2>2, <2>3 DEF Inv, TypeOK
    <2>6. TypeOK'
      BY <1>0, <1>1, <1>4, <2>2, <2>5, Popped DEF Inv, TypeOK
    <2>7. InboxKept'
      BY <1>1, <2>4, <2>5, RestKept DEF Inv
    <2>8. Views'
      BY <1>1, <2>1, <2>5 DEF Inv, Views, Untouched, Alive
    <2>9. Started'
      BY <1>0, <1>1, <2>1, <2>2, <2>5 DEF Inv, Started, already_started, Alive
    <2>10. Draining' /\ Limited'
      BY <1>0, <1>1, <1>2, <2>1, <2>2, <2>5 DEF Inv, Draining, Limited
    <2>11. Programmed' /\ CountKept'
      BY <1>2, <2>5 DEF Inv, Programmed, CountKept, AllStreamed
    <2> QED BY <1>3, <2>6, <2>7, <2>8, <2>9, <2>10, <2>11 DEF Inv
  <1>7. CASE m.t \in Opens
    <2> DEFINE c == m.c
               x == [ch[c] EXCEPT !.st = "limbo"]
    <2>1. c \in Chans /\ Untouched(c) /\ view[c] = "asked" /\ ch[c] \in Channel
      BY <1>0, <1>1, <1>2, <1>7 DEF Inv, InboxKept, Packet, Opens, TypeOK
    <2>2. ch' = [ch EXCEPT ![c] = x] /\ draining' = d0
      BY <1>0, <1>1, <1>7, <2>1 DEF drain_send, Inv, TypeOK, Opens
    <2>3. x \in Channel /\ x.st = "limbo" /\ x.prog = <<>>
      BY <2>1 DEF Channel, Untouched
    <2>4. \A i \in 2 .. Len(inbox) : inbox[i].c = c => inbox[i].t \notin Opens \cup {"close"}
      BY <1>0, <1>1, <1>7, <2>1, HeadOnce DEF Inv, Opens, Alive, Untouched
    <2> HIDE DEF x, c
    <2>5. /\ ch' \in [Chans -> Channel] /\ ch'[c].st = "limbo" /\ ch'[c].prog = <<>>
          /\ \A d \in Chans : d # c => ch'[d] = ch[d]
      BY <2>1, <2>2, <2>3 DEF Inv, TypeOK
    <2>6. TypeOK'
      BY <1>0, <1>1, <1>4, <2>2, <2>5, Popped DEF Inv, TypeOK
    <2>7. InboxKept'
      BY <1>1, <2>4, <2>5, RestKept DEF Inv
    <2>8. Views'
      BY <1>1, <2>1, <2>5 DEF Inv, Views, Untouched, Alive
    <2>9. Started' /\ Draining' /\ Limited'
      BY <1>0, <1>1, <1>2, <2>1, <2>2, <2>5 DEF Inv, Started, Draining, Limited, already_started, Untouched
    <2>10. Programmed' /\ CountKept'
      BY <1>2, <2>5 DEF Inv, Programmed, CountKept, AllStreamed
    <2> QED BY <1>3, <2>6, <2>7, <2>8, <2>9, <2>10 DEF Inv
  <1>8. CASE m.t \notin Opens /\ ~(m.t = "adjust" /\ m.c = d0) /\ ~(m.t = "close" /\ m.c # d0)
    <2>1. ch' = ch /\ draining' = draining
      BY <1>0, <1>1, <1>8 DEF drain_send, Opens
    <2>2. TypeOK'
      BY <1>1, <1>4, <2>1, Popped DEF Inv, TypeOK
    <2>3. InboxKept'
      <3>1. \A i \in 1 .. Len(inbox') : i + 1 \in 1 .. Len(inbox) /\ inbox'[i] = inbox[i + 1]
        BY <1>1, Popped DEF Inv
      <3> QED BY <1>1, <2>1, <3>1 DEF Inv, InboxKept, Untouched, Alive
    <2> QED BY <1>1, <1>2, <1>3, <2>1, <2>2, <2>3 DEF Inv, Views, Started, Draining, Limited, Programmed,
                 CountKept, AllStreamed, Untouched, Alive, already_started
  <1> QED BY <1>5, <1>6, <1>7, <1>8

LEMMA ExitStep ==
    ASSUME Inv, ConstantsOK, NEW c \in Chans, Exits(c)
    PROVE  Inv'
  <1> DEFINE x == [ch[c] EXCEPT !.st = IF @ = "open" THEN "sentclose" ELSE "gone",
                                !.run = IF @ = "shell" THEN "none" ELSE @]
  <1>1. ch[c] \in Channel /\ ch' = [ch EXCEPT ![c] = x] /\ ch[c].st \in {"open", "peerclosed"}
        /\ UNCHANGED <<sessions, inbox, draining, nomore, dead, view>> /\ draining = 0
    BY DEF Inv, TypeOK, Exits
  <1>2. /\ x \in Channel /\ x.st = (IF ch[c].st = "open" THEN "sentclose" ELSE "gone")
        /\ x.prog = ch[c].prog /\ x.kind = ch[c].kind
    BY <1>1 DEF Channel
  <1> HIDE DEF x
  <1>3. /\ ch' \in [Chans -> Channel] /\ ch'[c].st = (IF ch[c].st = "open" THEN "sentclose" ELSE "gone")
        /\ ch'[c].prog = ch[c].prog /\ ch'[c].kind = ch[c].kind
        /\ \A d \in Chans : d # c => ch'[d] = ch[d]
    BY <1>1, <1>2 DEF Inv, TypeOK
  <1>4. TypeOK' /\ SentOnce'
    BY <1>1, <1>3 DEF Inv, TypeOK, SentOnce
  <1>5. InboxKept'
    <2>1. \A i \in 1 .. Len(inbox) : inbox[i].t \in Opens \cup {"close"} => inbox[i].c \in Chans
      BY DEF Inv, TypeOK, Packet, Opens
    <2> QED BY <1>1, <1>3, <2>1 DEF Inv, InboxKept, Untouched, Alive
  <1>6. Views'
    BY <1>1, <1>3 DEF Inv, Views, Untouched, Alive
  <1>7. Started' /\ Draining' /\ Limited' /\ Programmed'
    BY <1>1, <1>3 DEF Inv, Started, Draining, Limited, Programmed, already_started
  <1>8. CountKept'
    <2> SUFFICES ASSUME AllStreamed PROVE draining' = 0 /\ Counted'
      BY DEF CountKept, AllStreamed
    <2> QED BY <1>1, <1>3 DEF Inv, CountKept, Counted
  <1> QED BY <1>4, <1>5, <1>6, <1>7, <1>8 DEF Inv

\* What the client adds to the inbox.
LEMMA SendsStep ==
    ASSUME Inv, NEW t, NEW c, Sends(t, c), [t |-> t, c |-> c] \in Packet, TypeOK', Views',
           \A d \in Chans : d # c => view'[d] = view[d],
           t \in Opens \cup {"close"} => \A i \in 1 .. Len(inbox) : inbox[i].c = c => inbox[i].t # t
                                            /\ ~(t \in Opens /\ inbox[i].t \in Opens),
           t \in Opens => view'[c] = "asked" /\ Untouched(c),
           t = "close" => view'[c] = "closed" /\ Alive(c),
           t \in Opens \cup {"close"} \/ view' = view,
           t = "close" => \A i \in 1 .. Len(inbox) : inbox[i].c = c => inbox[i].t \notin Opens
    PROVE  Inv'
  <1> DEFINE m == [t |-> t, c |-> c]
             n == Len(inbox)
  <1>1. UNCHANGED <<ch, sessions, draining, nomore, dead>> /\ inbox' = Append(inbox, m)
    BY DEF Sends
  <1>2. /\ n \in Nat /\ Len(inbox') = n + 1 /\ inbox'[n + 1] = m /\ \A i \in 1 .. n : inbox'[i] = inbox[i]
        /\ m.t = t /\ m.c = c
    BY <1>1 DEF Inv, TypeOK
  <1> HIDE DEF m, n
  <1>3. \A i \in 1 .. n + 1 : i \in 1 .. n \/ i = n + 1
    BY <1>2
  <1>4. n = Len(inbox)
    BY DEF n
  <1>5. \A i \in 1 .. n : inbox[i].t \in Opens \cup {"close"} => inbox[i].c \in Chans
    BY <1>4 DEF Inv, TypeOK, Packet, Opens
  <1>6. InboxKept'
    BY <1>1, <1>2, <1>3, <1>4, <1>5 DEF Inv, InboxKept, Untouched, Alive, Opens
  <1>7. SentOnce'
    BY <1>1, <1>2, <1>3, <1>4 DEF Inv, SentOnce, Opens
  <1>8. Started' /\ Draining' /\ Limited' /\ Programmed' /\ CountKept'
    BY <1>1 DEF Inv, Started, Draining, Limited, Programmed, CountKept, Counted, already_started, AllStreamed
  <1> QED BY <1>6, <1>7, <1>8 DEF Inv

LEMMA ClientStep ==
    ASSUME Inv, ConstantsOK,
           \/ ClientIsDone
           \/ \E c \in Chans :
                 \/ ClientCloses(c) \/ ClientAdjusts(c)
                 \/ \E k \in {"session", "tcpip"} : ClientOpens(c, k)
                 \/ \E t \in Programs \cup {"pty", "env"} : ClientAsks(c, t)
    PROVE  Inv'
  <1>1. ASSUME NEW t, NEW c, Sends(t, c), [t |-> t, c |-> c] \in Packet
        PROVE  inbox' \in Seq(Packet) /\ UNCHANGED <<ch, sessions, draining, nomore, dead>>
    BY <1>1 DEF Sends, Inv, TypeOK
  <1>2. ASSUME NEW t \in {"nomore", "adjust", "pty", "env"} \cup Programs, NEW c, Sends(t, c), UNCHANGED view,
               [t |-> t, c |-> c] \in Packet
        PROVE  Inv'
    <2>1. t \notin Opens \cup {"close"}
      BY <1>2 DEF Opens, Programs
    <2>2. TypeOK' /\ Views'
      BY <1>1, <1>2 DEF Inv, TypeOK, Views, Untouched, Alive
    <2> QED BY <1>2, <2>1, <2>2, SendsStep
  <1>3. CASE ClientIsDone
    BY <1>2, <1>3 DEF ClientIsDone, Packet
  <1>4. ASSUME NEW c \in Chans, ClientAdjusts(c)
        PROVE  Inv'
    BY <1>2, <1>4 DEF ClientAdjusts, Packet
  <1>5. ASSUME NEW c \in Chans, NEW t \in Programs \cup {"pty", "env"}, ClientAsks(c, t)
        PROVE  Inv'
    BY <1>2, <1>5 DEF ClientAsks, Packet
  <1>6. ASSUME NEW c \in Chans, ClientCloses(c)
        PROVE  Inv'
    <2>1. Sends("close", c) /\ view[c] = "open" /\ view' = [view EXCEPT ![c] = "closed"] /\ Alive(c)
      BY <1>6 DEF ClientCloses, Told, Inv, Views
    <2>2. [t |-> "close", c |-> c] \in Packet
      BY DEF Packet
    <2>3. TypeOK' /\ Views'
      BY <1>1, <2>1, <2>2 DEF Inv, TypeOK, Views, Untouched, Alive
    <2>4. \A i \in 1 .. Len(inbox) : inbox[i].c = c => inbox[i].t \notin Opens \cup {"close"}
      BY <2>1 DEF Inv, InboxKept, Opens
    <2>5. view'[c] = "closed" /\ \A d \in Chans : d # c => view'[d] = view[d]
      BY <2>1 DEF Inv, TypeOK
    <2> QED BY <2>1, <2>2, <2>3, <2>4, <2>5, SendsStep DEF Opens
  <1>7. ASSUME NEW c \in Chans, NEW k \in {"session", "tcpip"}, ClientOpens(c, k)
        PROVE  Inv'
    <2>1. Sends(k, c) /\ view[c] = "free" /\ view' = [view EXCEPT ![c] = "asked"] /\ Untouched(c) /\ k \in Opens
      BY <1>7 DEF ClientOpens, Told, Inv, Views, Opens
    <2>2. [t |-> k, c |-> c] \in Packet
      BY DEF Packet, Opens
    <2>3. TypeOK' /\ Views'
      BY <1>1, <2>1, <2>2 DEF Inv, TypeOK, Views, Untouched, Alive
    <2>4. \A i \in 1 .. Len(inbox) : inbox[i].c = c => inbox[i].t \notin Opens \cup {"close"}
      BY <2>1 DEF Inv, InboxKept, Opens
    <2>5. view'[c] = "asked" /\ \A d \in Chans : d # c => view'[d] = view[d]
      BY <2>1 DEF Inv, TypeOK
    <2> QED BY <2>1, <2>2, <2>3, <2>4, <2>5, SendsStep DEF Opens
  <1> QED BY <1>3, <1>4, <1>5, <1>6, <1>7

LEMMA InitInv ==
    ASSUME ConstantsOK, Init
    PROVE  Inv
  <1>1. Cardinality({}) = 0 /\ IsFiniteSet({})
    BY FS_EmptySet
  <1>2. [st |-> "free", kind |-> "none", pty |-> FALSE, run |-> "none", prog |-> <<>>, env |-> 0] \in Channel
    BY DEF Channel
  <1>3. TypeOK
    <2>1. ch \in [Chans -> Channel]
      BY <1>2 DEF Init
    <2>2. inbox \in Seq(Packet) /\ view \in [Chans -> {"free", "asked", "open", "closed"}]
      BY DEF Init
    <2>3. sessions \subseteq Chans /\ IsFiniteSet(sessions) /\ draining \in Chans \cup {0}
      BY <1>1 DEF Init
    <2>4. nomore \in BOOLEAN /\ dead \in BOOLEAN
      BY DEF Init
    <2> QED BY <2>1, <2>2, <2>3, <2>4 DEF TypeOK
  <1>4. InboxKept /\ SentOnce
    BY DEF Init, InboxKept, SentOnce
  <1>5. Views /\ Started /\ Draining /\ Programmed /\ CountKept
    BY DEF Init, Views, Started, Draining, Programmed, CountKept, Counted, Untouched
  <1>6. Limited
    BY <1>1 DEF Init, Limited, ConstantsOK
  <1> QED BY <1>3, <1>4, <1>5, <1>6 DEF Inv

LEMMA StepInv ==
    ASSUME ConstantsOK, Inv, [Next]_vars
    PROVE  Inv'
  <1>1. CASE UNCHANGED vars
    BY <1>1 DEF vars, Inv, TypeOK, Views, InboxKept, SentOnce, Started, Draining, Limited, Programmed,
         CountKept, Counted, Untouched, Alive, already_started
  <1>2. CASE Next
    BY <1>2, DispatchStep, DrainStep, ExitStep, ClientStep DEF Next
  <1> QED BY <1>1, <1>2

LEMMA InvImplies ==
    ASSUME ConstantsOK, Inv
    PROVE  SessionsKept
  <1>1. OneProgram
    <2> SUFFICES ASSUME NEW c \in Chans PROVE Len(ch[c].prog) <= 1
      BY DEF OneProgram
    <2>1. CASE ch[c].prog = <<>>
      BY <2>1
    <2>2. ASSUME NEW p \in Program, ch[c].prog = <<p>>
          PROVE  Len(ch[c].prog) <= 1
      BY <2>2
    <2> QED BY <2>1, <2>2 DEF Inv, Programmed
  <1>2. ForcedOnly
    <2> SUFFICES ASSUME NEW c \in Chans, NEW i \in DOMAIN ch[c].prog
                 PROVE  Permitted(ch[c].prog[i])
      BY DEF ForcedOnly, Permitted
    <2>1. PICK p \in Program : ch[c].prog = <<p>> /\ Permitted(p)
      BY DEF Inv, Programmed
    <2>2. ch[c].prog[i] = p
      BY <2>1
    <2> QED BY <2>1, <2>2
  <1>3. SessionsBounded
    <2> DEFINE S == {c \in Chans : ch[c].prog # <<>> /\ ch[c].st # "gone"}
    <2>1. S \in SUBSET sessions
      BY DEF Inv, Started
    <2>2. IsFiniteSet(S) /\ Cardinality(S) <= Cardinality(sessions)
          /\ Cardinality(S) \in Nat /\ Cardinality(sessions) \in Nat
      BY <2>1, FS_Subset, FS_CardinalityType DEF Inv, TypeOK
    <2> QED BY <2>2 DEF SessionsBounded, Inv, Limited, ConstantsOK
  <1>4. AllStreamed => Counted
    BY DEF Inv, CountKept
  <1> QED BY <1>1, <1>2, <1>3, <1>4 DEF SessionsKept

\* For any number of channels, any MaxSessions and any policy: whatever the
\* client asks for and in whatever order, a channel of the server runs at most
\* one program, the forced one where there is one, programs run on at most
\* MaxSessions channels at a time, and where every command has a thread
\* session_channels holds exactly the open session channels.
THEOREM Sessions ==
    ASSUME ConstantsOK
    PROVE  Spec => []SessionsKept
  <1>1. Init => Inv
    BY InitInv
  <1>2. Inv /\ [Next]_vars => Inv'
    BY StepInv
  <1>3. Inv => SessionsKept
    BY InvImplies
  <1> QED BY <1>1, <1>2, <1>3, PTL DEF Spec
=============================================================================
