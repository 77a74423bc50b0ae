----------------------------- MODULE SshdSession -----------------------------
(***************************************************************************)
(* The connection process of sshd after authentication (bin/sshd.rs): it   *)
(* becomes the user, inside the ChrootDirectory, and starts what the       *)
(* client asks for.  A program without a terminal is served by threads     *)
(* that carry its output to the connection loop; one with a terminal is    *)
(* polled by that loop (drain_shells in server.rs).                        *)
(***************************************************************************)
EXTENDS Integers, Sequences, FiniteSets, SequencesExt

CONSTANTS
    User,           \* the account: [uid, gid, groups]
    Worlds,         \* what this login may meet, see world
    Kinds,          \* what the client may ask for
    Output,         \* chunks a program writes on each of its streams
    TxCap,          \* room in the queue to the connection loop
    Sizes, Cap      \* chunks of a program whose output is collected; the limit

VARIABLES
    world,          \* [began, jail, inJail, rootMay, fault, rc, listed, client, file, admin]
    step,           \* authenticated, open, running, over
    creds, root, pam, account, told,
    kind,           \* what runs
    started,        \* every program that was started, in order
    env,            \* where the program's variables come from
    left, pipe,     \* chunks the program has yet to write; those not yet read
    life,           \* running, exited, killed
    pumps,          \* which output threads are still reading
    tx, sent,       \* the queue to the connection loop; what the loop sent on
    tail,           \* what run_streaming has still to say
    loop, exited,   \* where drain_shells is; it knows that the shell exited
    result          \* of a command whose output is collected

identity == <<creds, root, pam, account, told>>
io == <<left, pipe, life, pumps, tx, sent, tail, loop, exited>>
vars == <<world, step, identity, kind, started, env, io, result>>

Streams == {"out", "err"}
Nobody == [uid |-> -1, gid |-> -1, groups |-> {}]

Init ==
    /\ world \in Worlds /\ step = "authenticated"
    /\ creds = world.began /\ root = "/" /\ pam = FALSE /\ account = Nobody /\ told = FALSE
    /\ kind = "" /\ started = <<>> /\ env = <<>>
    /\ left = [s \in Streams |-> 0] /\ pipe = [s \in Streams |-> 0] /\ life = "none"
    /\ pumps = {} /\ tx = <<>> /\ sent = <<>> /\ tail = <<>> /\ loop = "" /\ exited = FALSE
    /\ result = <<>>

-----------------------------------------------------------------------------
(* Becoming the user.                                                      *)

already_matches(c, who) == c.uid = who.uid /\ c.gid = who.gid

verify_post_setuid(c, who) == c.uid = who.uid /\ c.gid = who.gid

\* What a step does to the process, and when the system allows it.
Stepped(c, who, s) ==
    CASE s = "clear" -> [c EXCEPT !.groups = {}]
      [] s = "gid" -> [c EXCEPT !.gid = who.gid]
      [] s = "groups" -> [c EXCEPT !.groups = who.groups]
      [] s = "uid" -> [c EXCEPT !.uid = who.uid]
      [] OTHER -> c
Allowed(c, who, s) ==
    IF s = "verify" THEN verify_post_setuid(c, who)
    ELSE c.uid = 0 \/ (s = "gid" /\ c.gid = who.gid) \/ (s = "uid" /\ c.uid = who.uid)

\* Mutant of DropSteps: the groups of the daemon are kept.
DropStepsKeepGroups == <<"gid", "uid", "verify">>

\* The user last, since nothing is allowed after it.
DropSteps == <<"clear", "gid", "groups", "uid", "verify">>

drop_to_user(c, who) ==
    LET Take(r, s) == IF r.ok /\ s # world.fault /\ Allowed(r.creds, who, s)
                      THEN [r EXCEPT !.creds = Stepped(@, who, s)] ELSE [r EXCEPT !.ok = FALSE]
    IN  IF already_matches(c, who) THEN [creds |-> c, ok |-> TRUE]
        ELSE FoldLeft(Take, [creds |-> c, ok |-> TRUE], DropSteps)

\* The account remembered before chroot; the file of the jail may say
\* something else, or nothing.
lookup_user == IF account # Nobody THEN account ELSE IF root = "/" THEN User ELSE world.inJail

\* Expansion, the owners and modes of every directory above, chroot, chdir.
apply_chroot == IF world.jail = "" THEN root ELSE world.jail
validate_chroot_dir == world.jail = "" \/ (world.fault # "chroot" /\ creds.uid = 0)

\* The parent is told first; then, in this order, the account, PermitRootLogin,
\* PAM, chroot and the rights.  The first that fails ends the connection.
OnSessionOpen ==
    LET who == lookup_user
        known == world.fault # "lookup" /\ (who.uid = 0 => world.rootMay)
        opened == known /\ world.fault # "pam"
        inside == opened /\ validate_chroot_dir
        dropped == drop_to_user(creds, who)
    IN  /\ step = "authenticated"
        /\ told' = TRUE
        /\ account' = IF known THEN who ELSE account
        /\ pam' = opened
        /\ root' = IF inside THEN apply_chroot ELSE root
        /\ creds' = IF inside THEN dropped.creds ELSE creds
        /\ step' = IF inside /\ dropped.ok THEN "open" ELSE "over"
        /\ UNCHANGED <<world, kind, started, env, io, result>>

-----------------------------------------------------------------------------
(* The environment of a program, layer over layer.                         *)

Blocked == {"LD_PRELOAD"}
Names == {"HOME", "LANG", "SSH_TTY"} \cup Blocked
Over(base, names, from) == [n \in Names |-> IF n \in names THEN from ELSE base[n]]

apply_login_envs == [n \in Names |-> IF n = "HOME" THEN "login" ELSE IF n = "LANG" THEN "pam" ELSE ""]
safe_session_env == world.client \ Blocked

\* The client's variables, ~/.ssh/environment, and SetEnv above both.
session_vars(base) ==
    Over(Over(Over(base, safe_session_env, "client"), world.file \ Blocked, "file"), world.admin, "admin")

\* On a terminal the blocked names of SetEnv are left out as well.
safe_owned_env(base) ==
    [n \in Names |-> IF n \in Blocked THEN apply_login_envs[n] ELSE base[n]]

connection_env(base) == Over(base, IF kind' = "pty" THEN {"SSH_TTY"} ELSE {}, "connection")

EnvOf(k) ==
    connection_env(IF k = "pty" THEN safe_owned_env(session_vars(apply_login_envs)) ELSE session_vars(apply_login_envs))

-----------------------------------------------------------------------------
(* Starting it.                                                            *)

Prog(what, c) == [what |-> what, creds |-> c, root |-> root, pam |-> pam]

\* ~/.ssh/rc, else sshrc, else xauth; after the rights are gone.
startup_rc == IF world.rc = "" THEN <<>> ELSE <<world.rc>>

\* An scp command that the daemon can serve: known options, one direction, one
\* path, and nothing that a shell would expand.
claims(k) == k = "scp"

\* SFTP and scp run inside the process when the shell is an ordinary one; else
\* scp is a command and SFTP is refused.
InProcess(k) == (k = "sftp" \/ claims(k)) /\ world.listed
Dispatch(k) == IF k \in {"scp", "scpodd"} /\ ~InProcess(k) THEN "exec" ELSE k

\* The child drops the rights it still has; a step that fails ends it.
Child == drop_to_user(creds, lookup_user)
Runs(k) == [i \in DOMAIN startup_rc |-> Prog(startup_rc[i], Child.creds)] \o <<Prog(k, Child.creds)>>

Refused(k) == k = "sftp" \/ lookup_user = Nobody \/ ~Child.ok

Start ==
    /\ step = "open" /\ kind = ""
    /\ \E k \in Kinds \ {"collected"} :
        /\ kind' = Dispatch(k)
        /\ \/ /\ InProcess(k)
              /\ started' = started \o <<Prog(k, creds)>> /\ step' = "over"
              /\ UNCHANGED <<env, io>>
           \/ /\ ~InProcess(k) /\ Refused(k)
              /\ step' = "over" /\ sent' = <<"status255">>
              /\ UNCHANGED <<started, env, left, pipe, life, pumps, tx, tail, loop, exited>>
           \/ /\ ~InProcess(k) /\ ~Refused(k)
              /\ started' = started \o Runs(k)
              /\ env' = EnvOf(kind') /\ step' = "running" /\ life' = "running"
              /\ left' = [s \in Streams |-> IF kind' = "pty" /\ s = "err" THEN 0 ELSE Output]
              /\ pumps' = IF kind' = "pty" THEN {} ELSE Streams
              /\ loop' = IF kind' = "pty" THEN "read" ELSE ""
              /\ UNCHANGED <<pipe, tx, sent, tail, exited>>
    /\ UNCHANGED <<world, identity, result>>

-----------------------------------------------------------------------------
(* A program without a terminal: run_streaming.                            *)

Streaming == step = "running" /\ kind # "pty"

\* The program writes, or after its end a process it left behind.
Write(s) ==
    /\ step = "running" /\ left[s] > 0 /\ (kind = "pty" => life = "running")
    /\ left' = [left EXCEPT ![s] = @ - 1] /\ pipe' = [pipe EXCEPT ![s] = @ + 1]
    /\ UNCHANGED <<world, step, identity, kind, started, env, life, pumps, tx, sent, tail, loop, exited, result>>

\* It ends, or is killed with all it left behind.
Exit(how) ==
    /\ step = "running" /\ life = "running"
    /\ life' = how
    /\ left' = IF how = "killed" \/ kind = "pty" THEN [s \in Streams |-> 0] ELSE left
    /\ UNCHANGED <<world, step, identity, kind, started, env, pipe, pumps, tx, sent, tail, loop, exited, result>>

Room == Len(tx) < TxCap

\* A pump: a chunk, or the end of the pipe when nobody can write any more.
Pump(s) ==
    /\ Streaming /\ s \in pumps
    /\ \/ pipe[s] > 0 /\ Room /\ tx' = Append(tx, s) /\ pipe' = [pipe EXCEPT ![s] = @ - 1] /\ UNCHANGED pumps
       \/ pipe[s] = 0 /\ left[s] = 0 /\ life # "running" /\ pumps' = pumps \ {s} /\ UNCHANGED <<tx, pipe>>
    /\ UNCHANGED <<world, step, identity, kind, started, env, left, life, sent, tail, loop, exited, result>>

\* Mutant of Joined: only the first thread is waited for.
JoinedOut == "out" \notin pumps

\* Both threads are joined before the program is waited for.
Joined == pumps = {}

\* Then the exit status, unless it was a signal, the end of file and the close.
Wait ==
    /\ Streaming /\ Joined /\ life \in {"exited", "killed"}
    /\ tail' = (IF life = "exited" THEN <<"status">> ELSE <<>>) \o <<"eof", "close">>
    /\ life' = "reaped"
    /\ UNCHANGED <<world, step, identity, kind, started, env, left, pipe, pumps, tx, sent, loop, exited, result>>

Tell ==
    /\ Streaming /\ life = "reaped" /\ Room
    /\ tx' = IF tail = <<>> THEN tx ELSE Append(tx, Head(tail))
    /\ tail' = IF tail = <<>> THEN tail ELSE Tail(tail)
    /\ step' = IF tail = <<>> /\ tx = <<>> THEN "over" ELSE step
    /\ UNCHANGED <<world, identity, kind, started, env, left, pipe, life, pumps, sent, loop, exited, result>>

\* drain_subsystems sends them on in their order.
Take ==
    /\ Streaming /\ tx # <<>>
    /\ sent' = Append(sent, Head(tx)) /\ tx' = Tail(tx)
    /\ UNCHANGED <<world, step, identity, kind, started, env, left, pipe, life, pumps, tail, loop, exited, result>>

-----------------------------------------------------------------------------
(* A program on a terminal: the connection loop reads the master, polls    *)
(* the child, and says that it exited.                                     *)

\* Until a read returns nothing, which stands for "not now" as for "never".
DrainShellsRead ==
    /\ step = "running" /\ loop = "read"
    /\ sent' = sent \o [i \in 1..pipe["out"] |-> "out"] /\ pipe' = [pipe EXCEPT !["out"] = 0]
    /\ loop' = "poll"
    /\ UNCHANGED <<world, step, identity, kind, started, env, left, life, pumps, tx, tail, exited, result>>

\* try_exit: waitpid that does not wait, and the logout record.
DrainShellsPoll ==
    /\ step = "running" /\ loop = "poll"
    /\ exited' = (life # "running")
    /\ loop' = "finalize"
    /\ UNCHANGED <<world, step, identity, kind, started, env, left, pipe, life, pumps, tx, sent, tail, result>>

\* Status or signal, end of file and close, and the session is dropped.
FinalizeExitedShells ==
    /\ step = "running" /\ loop = "finalize"
    /\ IF exited THEN /\ sent' = sent \o <<IF life = "exited" THEN "status" ELSE "signal", "eof", "close">>
                      /\ step' = "over" /\ UNCHANGED loop
       ELSE loop' = "read" /\ UNCHANGED <<sent, step>>
    /\ UNCHANGED <<world, identity, kind, started, env, left, pipe, life, pumps, tx, tail, exited, result>>

-----------------------------------------------------------------------------
(* A command whose output is collected first: handle.                      *)

\* What fits is kept and the rest read and thrown away.
drain_capped(chunks) ==
    FoldLeft(LAMBDA b, n : IF b.len + n <= Cap THEN [b EXCEPT !.len = @ + n]
                           ELSE [len |-> Cap, overflow |-> TRUE],
             [len |-> 0, overflow |-> FALSE], chunks)

\* Success is not reported for output that was cut.
Handle ==
    /\ step = "open" /\ kind = "" /\ "collected" \in Kinds
    /\ \E out, err \in UNION {[1..n -> Sizes] : n \in 0..2}, code \in {0, 1} :
        LET o == drain_capped(out) e == drain_capped(err)
            cut == o.overflow \/ e.overflow
        IN  result' = <<[code |-> IF cut /\ code = 0 THEN 255 ELSE code,
                         out |-> IF cut /\ code = 0 THEN 0 ELSE o.len, err |-> e.len,
                         wrote |-> <<FoldLeft(+, 0, out), FoldLeft(+, 0, err)>>]>>
    /\ kind' = "collected" /\ step' = "over"
    /\ started' = started \o <<Prog("collected", Child.creds)>>
    /\ UNCHANGED <<world, identity, env, io>>

Next ==
    \/ OnSessionOpen \/ Start \/ Handle
    \/ \E s \in Streams : Write(s) \/ Pump(s)
    \/ Exit("exited") \/ Exit("killed") \/ Wait \/ Tell \/ Take
    \/ DrainShellsRead \/ DrainShellsPoll \/ FinalizeExitedShells

Spec == Init /\ [][Next]_vars

-----------------------------------------------------------------------------
(* Properties.                                                             *)

\* "drop privileges to the authenticated user before any shell / exec /
\* subsystem runs": whichever step failed, nothing runs but with exactly the
\* user's rights, inside the ChrootDirectory, after PAM has opened the session.
RunsAsUser ==
    \A i \in DOMAIN started :
        /\ started[i].creds = User /\ started[i].pam
        /\ started[i].root = IF world.jail = "" THEN "/" ELSE world.jail

\* A name that is blocked comes neither from the client nor from the user's
\* file, and what the administrator sets is overridden by nobody but the
\* connection (except blocked names, which a terminal does not get).
EnvironmentRanks ==
    env # <<>> => /\ \A n \in Blocked : env[n] \notin {"client", "file"}
                  /\ \A n \in world.admin : env[n] \in {"admin", "connection"} \/ (kind = "pty" /\ n \in Blocked)

\* The exit status follows all output of a program without a terminal, also
\* that of processes it left behind (run_streaming).
StatusLast ==
    kind # "pty" /\ (\E i \in DOMAIN sent : sent[i] \in {"status", "eof", "close"}) =>
        left = [s \in Streams |-> 0] /\ pipe = [s \in Streams |-> 0] /\ ~\E i \in DOMAIN tx : tx[i] \in Streams

\* "whose stdout has been flushed": what a program wrote to its terminal before
\* it exited is sent before the close.
TerminalFlushed == kind = "pty" /\ step = "over" => pipe["out"] = 0

\* Output that was cut is never reported with success (handle).
CutNotSuccess ==
    result # <<>> /\ result[1].code = 0 => result[1].out = result[1].wrote[1] /\ result[1].err = result[1].wrote[2]
=============================================================================
