----------------------------- MODULE MCPrograms -----------------------------
(***************************************************************************)
(* Small instances of the programs that outlive a connection, of which     *)
(* `part' says the one that runs: the knock server and its clients, the    *)
(* daemon and its connection processes, the processes of a multiplexed     *)
(* connection, and the agent.                                              *)
(***************************************************************************)
EXTENDS Integers, Sequences, TLC

CONSTANTS Unused

VARIABLES
    part, now, listing, cache, entries, verify, lookups, prefixLookups, floor,
    rendezvous, restarts, client, nonce, started, sends, accept, knocks,
    accepts, dialled, opened, earlier, sessions, pc, sigchld, reloads, reloadAsked,
    shutdown, incoming, children, penalties, state, authed, pipe, status,
    logins, utmp, punished, phase, cli, disk, conf, keys, bound, pid, pidfile,
    out, code, edits, file, st, at, ms, removed, live, idle, reaper, rounds,
    env, sent, gone, left, held, lock, failures, wait, conn, asking, dropped,
    tried, told, guesses, clock, line, opts, master, stage, route, hop, creds,
    todo, up, becomes, socket, parent, shown, typed, config, mode, read,
    filter, work, stdin, obf, term, guard, main, why, heard, wake, unanswered,
    since, answers, listeners, lis, served, routes, wire, routed, raced, ops

\* Clients that share a key and an address; the third is far away.
Each(v) == [c \in {"a", "b", "c"} |-> v]

\* Three connections from two sources.
MCIpOf == [c \in {"x", "y", "z"} |-> IF c = "z" THEN "far" ELSE "near"]
MCPenalty == [authfail |-> 1, noauth |-> 1, crash |-> 2]

\* From here to A, and from A on to B, whose key is a certificate; C is listed
\* nowhere.
Forever == 99
NoOne == "noone"
HopA == [host |-> "a", keys |-> {<<"A", FALSE>>}]
HopB == [host |-> "b", keys |-> {<<"CA", TRUE>>}]
ToA == [from |-> [host |-> NoOne, keys |-> {}], to |-> HopA, user |-> NoOne]
AToB == [from |-> HopA, to |-> HopB, user |-> "u1"]
Free == [life |-> Forever, confirm |-> FALSE, dest |-> {}]
Direct == [Free EXCEPT !.dest = {ToA}]
Chained == [Free EXCEPT !.dest = {ToA, AToB}]
Asked == [Free EXCEPT !.confirm = TRUE]
Timed == [Free EXCEPT !.life = 2]
World == ("sA" :> "A") @@ ("sB" :> "certB") @@ ("sC" :> "C")

\* Configurations of the daemon and command lines to start it with.
NoSet == [o \in {"logingracetime", "x11forwarding", "strictmodes", "permitrootlogin", "sftp",
                 "allowagentforwarding", "addressfamily", "maxstartups", "persourcemaxstartups"} |-> ""]
Plain == [ok |-> TRUE, set |-> NoSet, ports |-> <<>>, listen |-> <<>>, keys |-> <<>>, certs |-> <<>>,
          files |-> {}, oneUser |-> TRUE, knock |-> TRUE, pidfile |-> TRUE, level |-> 3]
MCConfigs ==
    {Plain, [Plain EXCEPT !.ok = FALSE], [Plain EXCEPT !.files = {"krl"}],
     [Plain EXCEPT !.certs = <<"other">>, !.oneUser = FALSE, !.knock = FALSE, !.pidfile = FALSE],
     [Plain EXCEPT !.set["strictmodes"] = "no", !.keys = <<"ed", "gone">>, !.certs = <<"edcert">>, !.ports = <<1, 3>>,
                   !.listen = <<[host |-> "h", family |-> "inet", port |-> 0], [host |-> "l", family |-> "inet6", port |-> 2]>>]}
Arg(o, v) == [opt |-> o, val |-> v]
MCLines ==
    {<<>>, <<Arg("-D", "")>>, <<Arg("-T", "")>>, <<Arg("-t", "")>>, <<Arg("-G", ""), Arg("-C", "u")>>,
     <<Arg("-A", "f"), Arg("-i", "")>>, <<Arg("-x", "")>>,
     <<Arg("strictmodes", "yes"), Arg("-T", ""), Arg("-d", ""), Arg("-d", ""), Arg("-q", ""), Arg("maxstartups", "5")>>,
     <<Arg("-o", Arg("strictmodes", "yes")), Arg("-o", Arg("strictmodes", "no")), Arg("-G", "")>>,
     <<Arg("-o", Arg("addressfamily", "inet6")), Arg("-p", 1)>>,
     <<Arg("-h", "gone"), Arg("-c", "edcert"), Arg("-h", "ed")>>}

\* What the ssh program is started with, and what it finds.
SshKeywords == {"identitiesonly", "compression", "requesttty", "user", "proxyjump", "proxycommand", "controlpath",
                "controlmaster", "controlpersist", "tunnel", "tunneldevice", "forwardagent", "forwardx11",
                "forwardx11trusted", "hostname", "port", "identityfile", "certificatefile", "pkcs11provider",
                "canonicalizehostname", "canonicalizefallbacklocal", "exitonforwardfailure", "clearallforwardings",
                "localforward", "remoteforward", "dynamicforward", "sessiontype", "remotecommand",
                "forkafterauthentication", "stdinnull", "refuseconnection", "pubkeyauthentication"}
Conf(f) == [k \in SshKeywords |-> IF k \in DOMAIN f THEN f[k] ELSE <<>>]
Opt(o, v) == [o |-> o, v |-> <<v>>]
To(user) == [o |-> "host", v |-> <<"h", user, <<>>>>]
Set(k, v) == [o |-> "o", v |-> <<k, v>>]
Flag(o) == [o |-> o, v |-> <<>>]
SshLines ==
    {<<To(<<>>)>>, <<Flag("V")>>, <<Opt("Q", "mac")>>, <<Opt("p", "bad"), To(<<>>)>>, <<Opt("l", "-bad"), To(<<>>)>>,
     <<Flag("G"), Opt("i", "id"), Flag("C"), To(<<"u">>)>>, <<Flag("Z"), To(<<>>)>>,
     <<Flag("f"), Flag("N"), Opt("R", "r1"), Opt("L", "l1"), Set("exitonforwardfailure", "yes"), To(<<>>)>>,
     <<Flag("f"), Set("user", "v"), Opt("W", "dest"), Opt("L", "l1"), To(<<"u">>)>>,
     <<Opt("J", "j1"), Opt("D", "d1"), Flag("t"), Flag("t"), Opt("i", "work"), Set("identitiesonly", "yes"), To(<<>>)>>,
     <<Opt("O", "forward"), Opt("R", "r1"), To(<<>>)>>, <<Opt("O", "proxy"), To(<<>>)>>,
     <<Flag("M"), Opt("S", "/s"), Flag("f"), Opt("w", "any"), Flag("T"), To(<<>>), Opt("command", "c")>>,
     <<Flag("s"), Flag("n"), Flag("X"), Set("proxycommand", "p"), Opt("J", "j1"), To(<<>>)>>, <<Flag("A"), Flag("a"), Flag("Y"), Flag("x"), Flag("N"), To(<<>>)>>}
SshFiles ==
    {Conf(<<>>), Conf([refuseconnection |-> <<"why">>]),
     Conf([proxyjump |-> <<"j2">>, identityfile |-> <<"id", "rsa">>, forwardx11 |-> <<"yes">>, certificatefile |-> <<"cert">>]),
     Conf([proxycommand |-> <<"p">>, localforward |-> <<"l2">>, remoteforward |-> <<"r2">>, pkcs11provider |-> <<"k5">>,
           canonicalizehostname |-> <<"yes">>, sessiontype |-> <<"none">>]),
     Conf([controlpath |-> <<"/s">>, controlmaster |-> <<"auto">>, controlpersist |-> <<"yes">>, identitiesonly |-> <<"yes">>,
           canonicalizehostname |-> <<"always">>, canonicalizefallbacklocal |-> <<"no">>, remotecommand |-> <<"rc">>]),
     Conf([clearallforwardings |-> <<"yes">>, dynamicforward |-> <<"d2">>, pubkeyauthentication |-> <<"no">>,
           controlpath |-> <<"/s">>, forwardagent |-> <<"yes">>])}
OnDisk(key, pub, cert) == [key |-> key, pub |-> pub, cert |-> cert]
SshDisk == [id |-> OnDisk("k1", "k1", "k1"), work |-> OnDisk("none", "k2", "none"), rsa |-> OnDisk("weak", "weak", "none"),
            def |-> OnDisk("k3", "k3", "none"), cert |-> OnDisk("none", "none", "k4")]

-----------------------------------------------------------------------------
Knocks == INSTANCE Knock WITH Clients <- {"a", "b"}, KeyOf <- Each("k"),
    SourceOf <- [Each("near") EXCEPT !["c"] = "far"], Signed <- Each("good"),
    Behind <- [Each(0) EXCEPT !["b"] = -1], HasHostKey <- Each(TRUE), Keys <- {"k"}, Ports <- {1},
    Listings <- <<{"k"}>>, Skew <- 1, Window <- 1, TokenTimeout <- 1,
    MaxPending <- 1, CacheTtl <- 1, Burst <- 1, VerifyBurst <- 2,
    MaxSlots <- 1, Retransmit <- <<1>>, GiveUp <- 2, Start <- 1, MaxTime <- 3,
    MaxRestarts <- 1
Revoked == INSTANCE Knock WITH Clients <- {"a", "c"}, KeyOf <- Each("k"),
    SourceOf <- [Each("near") EXCEPT !["c"] = "far"],
    Signed <- [Each("good") EXCEPT !["c"] = "bad2"], Behind <- Each(0),
    HasHostKey <- Each(TRUE), Keys <- {"k"}, Ports <- {1},
    Listings <- <<{"k"}, {}>>, Skew <- 2, Window <- 1, TokenTimeout <- 1,
    MaxPending <- 1, CacheTtl <- 2, Burst <- 2, VerifyBurst <- 3,
    MaxSlots <- 1, Retransmit <- <<1>>, GiveUp <- 2, Start <- 2, MaxTime <- 3,
    MaxRestarts <- 0
Startups == INSTANCE Daemon WITH Conns <- {"x", "y", "z"}, IpOf <- MCIpOf,
    MaxStartups <- 2, EarlyStart <- 1, EarlyRate <- 50, PerSourceMax <- 1,
    Penalty <- MCPenalty, PenaltyMin <- 1, PenaltyMax <- 2, MaxSources <- 1,
    OverflowDenyAll <- FALSE, PipeFails <- TRUE, Reloads <- 0, MaxTime <- 0,
    MaxLogins <- 0
Punished == INSTANCE Daemon WITH Conns <- {"x", "z"}, IpOf <- MCIpOf,
    MaxStartups <- 2, EarlyStart <- 1, EarlyRate <- 50, PerSourceMax <- 2,
    Penalty <- MCPenalty, PenaltyMin <- 1, PenaltyMax <- 2, MaxSources <- 1,
    OverflowDenyAll <- FALSE, PipeFails <- FALSE, Reloads <- 1, MaxTime <- 2,
    MaxLogins <- 0
Logins == INSTANCE Daemon WITH Conns <- {"x"}, IpOf <- MCIpOf,
    MaxStartups <- 2, EarlyStart <- 1, EarlyRate <- 50, PerSourceMax <- 2,
    Penalty <- MCPenalty, PenaltyMin <- 1, PenaltyMax <- 2, MaxSources <- 1,
    OverflowDenyAll <- TRUE, PipeFails <- TRUE, Reloads <- 1, MaxTime <- 0,
    MaxLogins <- 1
Starting == INSTANCE Sshd WITH CommandLines <- MCLines, Configs <- MCConfigs,
    Loadable <- {"ed", "rsa", "edcert"},
    CertOf <- [ed |-> "edcert", rsa |-> "", gone |-> ""],
    Present <- <<"ed", "rsa">>,
    Busy <- {<<[host |-> "::", family |-> "inet6"], 1>>}, MaxEdits <- 2
Masters == INSTANCE Mux WITH Procs <- {"a", "b"},
    Env <- [a |-> "LANG", b |-> ""], Linger <- 2, Faults <- {}
Path == INSTANCE Agent WITH Conns <- {"c1"}, Keys <- {"k1"},
    Offers <- {Free, Direct, Chained}, Sessions <- World,
    Certs <- "certB" :> [ca |-> "CA", names |-> {"b"}], Users <- {"u1", "u2"},
    Providers <- {}, MaxBinds <- 3, MaxDelay <- 3, Passes <- {},
    Remote <- FALSE, DefaultLife <- Forever, MaxClock <- 0, None <- Unused
Locked == INSTANCE Agent WITH Conns <- {"c1", "c2"}, Keys <- {"k1"},
    Offers <- {Free, Asked}, Sessions <- "sA" :> "A", Certs <- <<>>,
    Users <- {"u1"}, Providers <- {[name |-> "p", keys |-> <<"k1", "k2">>]},
    MaxBinds <- 1, MaxDelay <- 3, Passes <- {"p1", "p2"}, Remote <- FALSE,
    DefaultLife <- Forever, MaxClock <- 5, None <- Unused
TimeLimited == INSTANCE Agent WITH Conns <- {"c1"}, Keys <- {"k1", "k2"},
    Offers <- {Asked, Timed, [Timed EXCEPT !.confirm = TRUE]},
    Sessions <- "sA" :> "A", Certs <- <<>>, Users <- {"u1"}, Providers <- {},
    MaxBinds <- 1, MaxDelay <- 3, Passes <- {}, Remote <- FALSE,
    DefaultLife <- Forever, MaxClock <- 6, None <- Unused
Client == INSTANCE Ssh WITH Keywords <- SshKeywords, Lines <- SshLines,
    Files <- SshFiles, FinalFile <- Conf([identityfile |-> <<"work">>]),
    Disk <- SshDisk, AgentKeys <- <<"k2", "k4">>,
    Defaults <- <<"def", "rsa">>, Short <- {"weak"},
    AtPath <- {"none", "live", "unsafe"}, HopsOf <- [j1 |-> 1, j2 |-> 2],
    Failures <- {"resolve", "master", "connect", "auth", "forward", "bind", "tunnel", "channel", "socket"}
Typing == INSTANCE SshSession WITH Keys <- {"x", "nl", "~", "B", "dot"},
    MaxTyped <- 3, MaxRead <- 2, Ptys <- BOOLEAN, Escapes <- BOOLEAN,
    Obscures <- {TRUE}, MaxChunk <- 1, ChaffTail <- 1, Interval <- 0,
    CountMax <- 0, Late <- 0,
    Faults <- {"denied", "refused", "broken", "signal", "idle"}, MaxTime <- 0
StillThere == INSTANCE SshSession WITH Keys <- {}, MaxTyped <- 0,
    MaxRead <- 1, Ptys <- {TRUE}, Escapes <- {TRUE}, Obscures <- {TRUE},
    MaxChunk <- 1, ChaffTail <- 1, Interval <- 2, CountMax <- 2, Late <- 0,
    Faults <- {"silent"}, MaxTime <- 12
AddedLater == INSTANCE ClientForwards WITH Actors <- {"a", "b"},
    Specs <- {"l1", "d1"}, AddrOf <- [l1 |-> "p1", d1 |-> "p1"],
    Binds <- {"lo", "eth"}, Ports <- {1}, Dests <- {"d1", "d2"},
    Normalises <- TRUE, MaxOps <- 4

\* The variables that a model does not have, which hold Unused while it runs.
notKnock == <<pc, sigchld, reloads, reloadAsked, shutdown, incoming, children,
    penalties, state, authed, pipe, status, logins, utmp, punished, phase,
    cli, disk, conf, keys, bound, pid, pidfile, out, code, edits, file, st,
    at, ms, removed, live, idle, reaper, rounds, env, sent, gone, left, held,
    lock, failures, wait, conn, asking, dropped, tried, told, guesses, clock,
    line, opts, master, stage, route, hop, creds, todo, up, becomes, socket,
    parent, shown, typed, config, mode, read, filter, work, stdin, obf, term,
    guard, main, why, heard, wake, unanswered, since, answers, listeners, lis,
    served, routes, wire, routed, raced, ops>>
OnlyKnock ==
    /\ pc = Unused /\ sigchld = Unused /\ reloads = Unused
    /\ reloadAsked = Unused /\ shutdown = Unused /\ incoming = Unused
    /\ children = Unused /\ penalties = Unused /\ state = Unused
    /\ authed = Unused /\ pipe = Unused /\ status = Unused /\ logins = Unused
    /\ utmp = Unused /\ punished = Unused /\ phase = Unused /\ cli = Unused
    /\ disk = Unused /\ conf = Unused /\ keys = Unused /\ bound = Unused
    /\ pid = Unused /\ pidfile = Unused /\ out = Unused /\ code = Unused
    /\ edits = Unused /\ file = Unused /\ st = Unused /\ at = Unused
    /\ ms = Unused /\ removed = Unused /\ live = Unused /\ idle = Unused
    /\ reaper = Unused /\ rounds = Unused /\ env = Unused /\ sent = Unused
    /\ gone = Unused /\ left = Unused /\ held = Unused /\ lock = Unused
    /\ failures = Unused /\ wait = Unused /\ conn = Unused /\ asking = Unused
    /\ dropped = Unused /\ tried = Unused /\ told = Unused
    /\ guesses = Unused /\ clock = Unused /\ line = Unused /\ opts = Unused
    /\ master = Unused /\ stage = Unused /\ route = Unused /\ hop = Unused
    /\ creds = Unused /\ todo = Unused /\ up = Unused /\ becomes = Unused
    /\ socket = Unused /\ parent = Unused /\ shown = Unused /\ typed = Unused
    /\ config = Unused /\ mode = Unused /\ read = Unused /\ filter = Unused
    /\ work = Unused /\ stdin = Unused /\ obf = Unused /\ term = Unused
    /\ guard = Unused /\ main = Unused /\ why = Unused /\ heard = Unused
    /\ wake = Unused /\ unanswered = Unused /\ since = Unused
    /\ answers = Unused /\ listeners = Unused /\ lis = Unused
    /\ served = Unused /\ routes = Unused /\ wire = Unused /\ routed = Unused /\ raced = Unused
    /\ ops = Unused
notDaemon == <<listing, cache, entries, verify, lookups, prefixLookups, floor,
    rendezvous, restarts, client, nonce, started, sends, accept, knocks,
    accepts, dialled, opened, earlier, sessions, phase, cli, disk, conf, keys, bound,
    pid, pidfile, out, code, edits, file, st, at, ms, removed, live, idle,
    reaper, rounds, env, sent, gone, left, held, lock, failures, wait, conn,
    asking, dropped, tried, told, guesses, clock, line, opts, master, stage,
    route, hop, creds, todo, up, becomes, socket, parent, shown, typed,
    config, mode, read, filter, work, stdin, obf, term, guard, main, why,
    heard, wake, unanswered, since, answers, listeners, lis, served, routes,
    wire, routed, raced, ops>>
OnlyDaemon ==
    /\ listing = Unused /\ cache = Unused /\ entries = Unused
    /\ verify = Unused /\ lookups = Unused /\ prefixLookups = Unused
    /\ floor = Unused /\ rendezvous = Unused /\ restarts = Unused
    /\ client = Unused /\ nonce = Unused /\ started = Unused
    /\ sends = Unused /\ accept = Unused /\ knocks = Unused
    /\ accepts = Unused /\ dialled = Unused /\ opened = Unused /\ earlier = Unused
    /\ sessions = Unused /\ phase = Unused /\ cli = Unused /\ disk = Unused
    /\ conf = Unused /\ keys = Unused /\ bound = Unused /\ pid = Unused
    /\ pidfile = Unused /\ out = Unused /\ code = Unused /\ edits = Unused
    /\ file = Unused /\ st = Unused /\ at = Unused /\ ms = Unused
    /\ removed = Unused /\ live = Unused /\ idle = Unused /\ reaper = Unused
    /\ rounds = Unused /\ env = Unused /\ sent = Unused /\ gone = Unused
    /\ left = Unused /\ held = Unused /\ lock = Unused /\ failures = Unused
    /\ wait = Unused /\ conn = Unused /\ asking = Unused /\ dropped = Unused
    /\ tried = Unused /\ told = Unused /\ guesses = Unused /\ clock = Unused
    /\ line = Unused /\ opts = Unused /\ master = Unused /\ stage = Unused
    /\ route = Unused /\ hop = Unused /\ creds = Unused /\ todo = Unused
    /\ up = Unused /\ becomes = Unused /\ socket = Unused /\ parent = Unused
    /\ shown = Unused /\ typed = Unused /\ config = Unused /\ mode = Unused
    /\ read = Unused /\ filter = Unused /\ work = Unused /\ stdin = Unused
    /\ obf = Unused /\ term = Unused /\ guard = Unused /\ main = Unused
    /\ why = Unused /\ heard = Unused /\ wake = Unused /\ unanswered = Unused
    /\ since = Unused /\ answers = Unused /\ listeners = Unused
    /\ lis = Unused /\ served = Unused /\ routes = Unused /\ wire = Unused
    /\ routed = Unused /\ raced = Unused /\ ops = Unused
notSshd == <<now, listing, cache, entries, verify, lookups, prefixLookups,
    floor, rendezvous, restarts, client, nonce, started, sends, accept,
    knocks, accepts, dialled, opened, earlier, sessions, pc, sigchld, reloads,
    reloadAsked, shutdown, incoming, children, penalties, state, authed, pipe,
    status, logins, utmp, punished, file, st, at, ms, removed, live, idle,
    reaper, rounds, env, sent, gone, left, held, lock, failures, wait, conn,
    asking, dropped, tried, told, guesses, clock, line, opts, master, stage,
    route, hop, creds, todo, up, becomes, socket, parent, shown, typed,
    config, mode, read, filter, work, stdin, obf, term, guard, main, why,
    heard, wake, unanswered, since, answers, listeners, lis, served, routes,
    wire, routed, raced, ops>>
OnlySshd ==
    /\ now = Unused /\ listing = Unused /\ cache = Unused /\ entries = Unused
    /\ verify = Unused /\ lookups = Unused /\ prefixLookups = Unused
    /\ floor = Unused /\ rendezvous = Unused /\ restarts = Unused
    /\ client = Unused /\ nonce = Unused /\ started = Unused
    /\ sends = Unused /\ accept = Unused /\ knocks = Unused
    /\ accepts = Unused /\ dialled = Unused /\ opened = Unused /\ earlier = Unused
    /\ sessions = Unused /\ pc = Unused /\ sigchld = Unused
    /\ reloads = Unused /\ reloadAsked = Unused /\ shutdown = Unused
    /\ incoming = Unused /\ children = Unused /\ penalties = Unused
    /\ state = Unused /\ authed = Unused /\ pipe = Unused /\ status = Unused
    /\ logins = Unused /\ utmp = Unused /\ punished = Unused /\ file = Unused
    /\ st = Unused /\ at = Unused /\ ms = Unused /\ removed = Unused
    /\ live = Unused /\ idle = Unused /\ reaper = Unused /\ rounds = Unused
    /\ env = Unused /\ sent = Unused /\ gone = Unused /\ left = Unused
    /\ held = Unused /\ lock = Unused /\ failures = Unused /\ wait = Unused
    /\ conn = Unused /\ asking = Unused /\ dropped = Unused /\ tried = Unused
    /\ told = Unused /\ guesses = Unused /\ clock = Unused /\ line = Unused
    /\ opts = Unused /\ master = Unused /\ stage = Unused /\ route = Unused
    /\ hop = Unused /\ creds = Unused /\ todo = Unused /\ up = Unused
    /\ becomes = Unused /\ socket = Unused /\ parent = Unused
    /\ shown = Unused /\ typed = Unused /\ config = Unused /\ mode = Unused
    /\ read = Unused /\ filter = Unused /\ work = Unused /\ stdin = Unused
    /\ obf = Unused /\ term = Unused /\ guard = Unused /\ main = Unused
    /\ why = Unused /\ heard = Unused /\ wake = Unused /\ unanswered = Unused
    /\ since = Unused /\ answers = Unused /\ listeners = Unused
    /\ lis = Unused /\ served = Unused /\ routes = Unused /\ wire = Unused
    /\ routed = Unused /\ raced = Unused /\ ops = Unused
notMux == <<now, listing, cache, entries, verify, lookups, prefixLookups,
    floor, rendezvous, restarts, client, nonce, started, sends, accept,
    knocks, accepts, dialled, opened, earlier, sessions, pc, sigchld, reloads,
    reloadAsked, shutdown, incoming, children, penalties, state, authed, pipe,
    status, logins, utmp, punished, phase, cli, disk, conf, keys, bound, pid,
    pidfile, out, code, edits, held, lock, failures, wait, conn, asking,
    dropped, tried, told, guesses, clock, line, opts, master, stage, route,
    hop, creds, todo, up, becomes, socket, parent, shown, typed, config, mode,
    read, filter, work, stdin, obf, term, guard, main, why, heard, wake,
    unanswered, since, answers, listeners, lis, served, routes, wire, routed, raced,
    ops>>
OnlyMux ==
    /\ now = Unused /\ listing = Unused /\ cache = Unused /\ entries = Unused
    /\ verify = Unused /\ lookups = Unused /\ prefixLookups = Unused
    /\ floor = Unused /\ rendezvous = Unused /\ restarts = Unused
    /\ client = Unused /\ nonce = Unused /\ started = Unused
    /\ sends = Unused /\ accept = Unused /\ knocks = Unused
    /\ accepts = Unused /\ dialled = Unused /\ opened = Unused /\ earlier = Unused
    /\ sessions = Unused /\ pc = Unused /\ sigchld = Unused
    /\ reloads = Unused /\ reloadAsked = Unused /\ shutdown = Unused
    /\ incoming = Unused /\ children = Unused /\ penalties = Unused
    /\ state = Unused /\ authed = Unused /\ pipe = Unused /\ status = Unused
    /\ logins = Unused /\ utmp = Unused /\ punished = Unused
    /\ phase = Unused /\ cli = Unused /\ disk = Unused /\ conf = Unused
    /\ keys = Unused /\ bound = Unused /\ pid = Unused /\ pidfile = Unused
    /\ out = Unused /\ code = Unused /\ edits = Unused /\ held = Unused
    /\ lock = Unused /\ failures = Unused /\ wait = Unused /\ conn = Unused
    /\ asking = Unused /\ dropped = Unused /\ tried = Unused /\ told = Unused
    /\ guesses = Unused /\ clock = Unused /\ line = Unused /\ opts = Unused
    /\ master = Unused /\ stage = Unused /\ route = Unused /\ hop = Unused
    /\ creds = Unused /\ todo = Unused /\ up = Unused /\ becomes = Unused
    /\ socket = Unused /\ parent = Unused /\ shown = Unused /\ typed = Unused
    /\ config = Unused /\ mode = Unused /\ read = Unused /\ filter = Unused
    /\ work = Unused /\ stdin = Unused /\ obf = Unused /\ term = Unused
    /\ guard = Unused /\ main = Unused /\ why = Unused /\ heard = Unused
    /\ wake = Unused /\ unanswered = Unused /\ since = Unused
    /\ answers = Unused /\ listeners = Unused /\ lis = Unused
    /\ served = Unused /\ routes = Unused /\ wire = Unused /\ routed = Unused /\ raced = Unused
    /\ ops = Unused
notAgent == <<now, listing, cache, entries, verify, lookups, prefixLookups,
    floor, rendezvous, restarts, client, nonce, started, sends, accept,
    knocks, accepts, dialled, opened, earlier, sessions, pc, sigchld, reloads,
    reloadAsked, shutdown, incoming, children, penalties, state, authed, pipe,
    status, logins, utmp, punished, phase, cli, disk, conf, keys, bound, pid,
    pidfile, out, code, edits, file, st, at, ms, removed, live, idle, reaper,
    rounds, env, sent, gone, left, line, opts, master, stage, route, hop,
    creds, todo, up, becomes, socket, parent, shown, typed, config, mode,
    read, filter, work, stdin, obf, term, guard, main, why, heard, wake,
    unanswered, since, answers, listeners, lis, served, routes, wire, routed, raced,
    ops>>
OnlyAgent ==
    /\ now = Unused /\ listing = Unused /\ cache = Unused /\ entries = Unused
    /\ verify = Unused /\ lookups = Unused /\ prefixLookups = Unused
    /\ floor = Unused /\ rendezvous = Unused /\ restarts = Unused
    /\ client = Unused /\ nonce = Unused /\ started = Unused
    /\ sends = Unused /\ accept = Unused /\ knocks = Unused
    /\ accepts = Unused /\ dialled = Unused /\ opened = Unused /\ earlier = Unused
    /\ sessions = Unused /\ pc = Unused /\ sigchld = Unused
    /\ reloads = Unused /\ reloadAsked = Unused /\ shutdown = Unused
    /\ incoming = Unused /\ children = Unused /\ penalties = Unused
    /\ state = Unused /\ authed = Unused /\ pipe = Unused /\ status = Unused
    /\ logins = Unused /\ utmp = Unused /\ punished = Unused
    /\ phase = Unused /\ cli = Unused /\ disk = Unused /\ conf = Unused
    /\ keys = Unused /\ bound = Unused /\ pid = Unused /\ pidfile = Unused
    /\ out = Unused /\ code = Unused /\ edits = Unused /\ file = Unused
    /\ st = Unused /\ at = Unused /\ ms = Unused /\ removed = Unused
    /\ live = Unused /\ idle = Unused /\ reaper = Unused /\ rounds = Unused
    /\ env = Unused /\ sent = Unused /\ gone = Unused /\ left = Unused
    /\ line = Unused /\ opts = Unused /\ master = Unused /\ stage = Unused
    /\ route = Unused /\ hop = Unused /\ creds = Unused /\ todo = Unused
    /\ up = Unused /\ becomes = Unused /\ socket = Unused /\ parent = Unused
    /\ shown = Unused /\ typed = Unused /\ config = Unused /\ mode = Unused
    /\ read = Unused /\ filter = Unused /\ work = Unused /\ stdin = Unused
    /\ obf = Unused /\ term = Unused /\ guard = Unused /\ main = Unused
    /\ why = Unused /\ heard = Unused /\ wake = Unused /\ unanswered = Unused
    /\ since = Unused /\ answers = Unused /\ listeners = Unused
    /\ lis = Unused /\ served = Unused /\ routes = Unused /\ wire = Unused
    /\ routed = Unused /\ raced = Unused /\ ops = Unused
notSsh == <<now, listing, cache, entries, verify, lookups, prefixLookups,
    floor, rendezvous, restarts, client, nonce, started, sends, accept,
    knocks, accepts, dialled, opened, earlier, sessions, pc, sigchld, reloads,
    reloadAsked, shutdown, incoming, children, penalties, state, authed,
    status, logins, utmp, punished, phase, disk, conf, keys, bound, pid,
    pidfile, code, edits, st, at, ms, removed, live, idle, reaper, rounds,
    env, sent, gone, left, held, lock, failures, wait, conn, asking, dropped,
    tried, told, guesses, clock, typed, config, mode, read, filter, work,
    stdin, obf, term, guard, main, why, heard, wake, unanswered, since,
    answers, listeners, lis, served, routes, wire, routed, raced, ops>>
OnlySsh ==
    /\ now = Unused /\ listing = Unused /\ cache = Unused /\ entries = Unused
    /\ verify = Unused /\ lookups = Unused /\ prefixLookups = Unused
    /\ floor = Unused /\ rendezvous = Unused /\ restarts = Unused
    /\ client = Unused /\ nonce = Unused /\ started = Unused
    /\ sends = Unused /\ accept = Unused /\ knocks = Unused
    /\ accepts = Unused /\ dialled = Unused /\ opened = Unused /\ earlier = Unused
    /\ sessions = Unused /\ pc = Unused /\ sigchld = Unused
    /\ reloads = Unused /\ reloadAsked = Unused /\ shutdown = Unused
    /\ incoming = Unused /\ children = Unused /\ penalties = Unused
    /\ state = Unused /\ authed = Unused /\ status = Unused
    /\ logins = Unused /\ utmp = Unused /\ punished = Unused
    /\ phase = Unused /\ disk = Unused /\ conf = Unused /\ keys = Unused
    /\ bound = Unused /\ pid = Unused /\ pidfile = Unused /\ code = Unused
    /\ edits = Unused /\ st = Unused /\ at = Unused /\ ms = Unused
    /\ removed = Unused /\ live = Unused /\ idle = Unused /\ reaper = Unused
    /\ rounds = Unused /\ env = Unused /\ sent = Unused /\ gone = Unused
    /\ left = Unused /\ held = Unused /\ lock = Unused /\ failures = Unused
    /\ wait = Unused /\ conn = Unused /\ asking = Unused /\ dropped = Unused
    /\ tried = Unused /\ told = Unused /\ guesses = Unused /\ clock = Unused
    /\ typed = Unused /\ config = Unused /\ mode = Unused /\ read = Unused
    /\ filter = Unused /\ work = Unused /\ stdin = Unused /\ obf = Unused
    /\ term = Unused /\ guard = Unused /\ main = Unused /\ why = Unused
    /\ heard = Unused /\ wake = Unused /\ unanswered = Unused
    /\ since = Unused /\ answers = Unused /\ listeners = Unused
    /\ lis = Unused /\ served = Unused /\ routes = Unused /\ wire = Unused
    /\ routed = Unused /\ raced = Unused /\ ops = Unused
notSshSession == <<now, listing, cache, entries, verify, lookups,
    prefixLookups, floor, rendezvous, restarts, client, nonce, started, sends,
    accept, knocks, accepts, dialled, opened, earlier, sessions, pc, sigchld, reloads,
    reloadAsked, shutdown, incoming, children, penalties, state, authed, pipe,
    logins, utmp, punished, phase, cli, disk, conf, keys, bound, pid, pidfile,
    out, code, edits, file, st, at, ms, removed, live, idle, reaper, rounds,
    env, gone, left, held, lock, failures, wait, conn, asking, dropped, tried,
    told, guesses, line, opts, master, stage, route, hop, creds, todo, up,
    becomes, socket, parent, shown, listeners, lis, served, routes, wire,
    routed, raced, ops>>
OnlySshSession ==
    /\ now = Unused /\ listing = Unused /\ cache = Unused /\ entries = Unused
    /\ verify = Unused /\ lookups = Unused /\ prefixLookups = Unused
    /\ floor = Unused /\ rendezvous = Unused /\ restarts = Unused
    /\ client = Unused /\ nonce = Unused /\ started = Unused
    /\ sends = Unused /\ accept = Unused /\ knocks = Unused
    /\ accepts = Unused /\ dialled = Unused /\ opened = Unused /\ earlier = Unused
    /\ sessions = Unused /\ pc = Unused /\ sigchld = Unused
    /\ reloads = Unused /\ reloadAsked = Unused /\ shutdown = Unused
    /\ incoming = Unused /\ children = Unused /\ penalties = Unused
    /\ state = Unused /\ authed = Unused /\ pipe = Unused /\ logins = Unused
    /\ utmp = Unused /\ punished = Unused /\ phase = Unused /\ cli = Unused
    /\ disk = Unused /\ conf = Unused /\ keys = Unused /\ bound = Unused
    /\ pid = Unused /\ pidfile = Unused /\ out = Unused /\ code = Unused
    /\ edits = Unused /\ file = Unused /\ st = Unused /\ at = Unused
    /\ ms = Unused /\ removed = Unused /\ live = Unused /\ idle = Unused
    /\ reaper = Unused /\ rounds = Unused /\ env = Unused /\ gone = Unused
    /\ left = Unused /\ held = Unused /\ lock = Unused /\ failures = Unused
    /\ wait = Unused /\ conn = Unused /\ asking = Unused /\ dropped = Unused
    /\ tried = Unused /\ told = Unused /\ guesses = Unused /\ line = Unused
    /\ opts = Unused /\ master = Unused /\ stage = Unused /\ route = Unused
    /\ hop = Unused /\ creds = Unused /\ todo = Unused /\ up = Unused
    /\ becomes = Unused /\ socket = Unused /\ parent = Unused
    /\ shown = Unused /\ listeners = Unused /\ lis = Unused
    /\ served = Unused /\ routes = Unused /\ wire = Unused /\ routed = Unused /\ raced = Unused
    /\ ops = Unused
notClientForwards == <<now, listing, cache, entries, verify, lookups,
    prefixLookups, floor, rendezvous, restarts, client, nonce, started, sends,
    accept, knocks, accepts, dialled, opened, earlier, sessions, sigchld, reloads,
    reloadAsked, shutdown, incoming, children, penalties, state, authed, pipe,
    status, logins, utmp, punished, phase, cli, disk, conf, keys, pid,
    pidfile, out, code, edits, file, st, at, ms, removed, live, idle, reaper,
    rounds, env, sent, gone, left, held, lock, failures, wait, conn, asking,
    dropped, tried, told, guesses, clock, line, opts, master, stage, route,
    hop, creds, todo, up, becomes, socket, parent, shown, typed, config, mode,
    read, filter, work, stdin, obf, term, guard, main, why, heard, wake,
    unanswered, since, answers>>
OnlyClientForwards ==
    /\ now = Unused /\ listing = Unused /\ cache = Unused /\ entries = Unused
    /\ verify = Unused /\ lookups = Unused /\ prefixLookups = Unused
    /\ floor = Unused /\ rendezvous = Unused /\ restarts = Unused
    /\ client = Unused /\ nonce = Unused /\ started = Unused
    /\ sends = Unused /\ accept = Unused /\ knocks = Unused
    /\ accepts = Unused /\ dialled = Unused /\ opened = Unused /\ earlier = Unused
    /\ sessions = Unused /\ sigchld = Unused /\ reloads = Unused
    /\ reloadAsked = Unused /\ shutdown = Unused /\ incoming = Unused
    /\ children = Unused /\ penalties = Unused /\ state = Unused
    /\ authed = Unused /\ pipe = Unused /\ status = Unused /\ logins = Unused
    /\ utmp = Unused /\ punished = Unused /\ phase = Unused /\ cli = Unused
    /\ disk = Unused /\ conf = Unused /\ keys = Unused /\ pid = Unused
    /\ pidfile = Unused /\ out = Unused /\ code = Unused /\ edits = Unused
    /\ file = Unused /\ st = Unused /\ at = Unused /\ ms = Unused
    /\ removed = Unused /\ live = Unused /\ idle = Unused /\ reaper = Unused
    /\ rounds = Unused /\ env = Unused /\ sent = Unused /\ gone = Unused
    /\ left = Unused /\ held = Unused /\ lock = Unused /\ failures = Unused
    /\ wait = Unused /\ conn = Unused /\ asking = Unused /\ dropped = Unused
    /\ tried = Unused /\ told = Unused /\ guesses = Unused /\ clock = Unused
    /\ line = Unused /\ opts = Unused /\ master = Unused /\ stage = Unused
    /\ route = Unused /\ hop = Unused /\ creds = Unused /\ todo = Unused
    /\ up = Unused /\ becomes = Unused /\ socket = Unused /\ parent = Unused
    /\ shown = Unused /\ typed = Unused /\ config = Unused /\ mode = Unused
    /\ read = Unused /\ filter = Unused /\ work = Unused /\ stdin = Unused
    /\ obf = Unused /\ term = Unused /\ guard = Unused /\ main = Unused
    /\ why = Unused /\ heard = Unused /\ wake = Unused /\ unanswered = Unused
    /\ since = Unused /\ answers = Unused

Init ==
    \/ part = "knocks" /\ Knocks!Init /\ OnlyKnock
    \/ part = "revoked" /\ Revoked!Init /\ OnlyKnock
    \/ part = "startups" /\ Startups!Init /\ OnlyDaemon
    \/ part = "penalties" /\ Punished!Init /\ OnlyDaemon
    \/ part = "logins" /\ Logins!Init /\ OnlyDaemon
    \/ part = "starting" /\ Starting!Init /\ OnlySshd
    \/ part = "masters" /\ Masters!Init /\ OnlyMux
    \/ part = "path" /\ Path!Init /\ OnlyAgent
    \/ part = "locked" /\ Locked!Init /\ OnlyAgent
    \/ part = "timed" /\ TimeLimited!Init /\ OnlyAgent
    \/ part = "ssh" /\ Client!Init /\ OnlySsh
    \/ part = "typing" /\ Typing!Init /\ OnlySshSession
    \/ part = "alive" /\ StillThere!Init /\ OnlySshSession
    \/ part = "forwards" /\ AddedLater!Init /\ OnlyClientForwards

Next ==
    \/ part = "knocks" /\ Knocks!Next /\ UNCHANGED <<part, notKnock>>
    \/ part = "revoked" /\ Revoked!Next /\ UNCHANGED <<part, notKnock>>
    \/ part = "startups" /\ Startups!Next /\ UNCHANGED <<part, notDaemon>>
    \/ part = "penalties" /\ Punished!Next /\ UNCHANGED <<part, notDaemon>>
    \/ part = "logins" /\ Logins!Next /\ UNCHANGED <<part, notDaemon>>
    \/ part = "starting" /\ Starting!Next /\ UNCHANGED <<part, notSshd>>
    \/ part = "masters" /\ Masters!Next /\ UNCHANGED <<part, notMux>>
    \/ part = "path" /\ Path!Next /\ UNCHANGED <<part, notAgent>>
    \/ part = "locked" /\ Locked!Next /\ UNCHANGED <<part, notAgent>>
    \/ part = "timed" /\ TimeLimited!Next /\ UNCHANGED <<part, notAgent>>
    \/ part = "ssh" /\ Client!Next /\ UNCHANGED <<part, notSsh>>
    \/ part = "typing" /\ Typing!Next /\ UNCHANGED <<part, notSshSession>>
    \/ part = "alive" /\ StillThere!Next /\ UNCHANGED <<part, notSshSession>>
    \/ part = "forwards" /\ AddedLater!Next /\ UNCHANGED <<part, notClientForwards>>

vars == <<part, now, listing, cache, entries, verify, lookups, prefixLookups,
    floor, rendezvous, restarts, client, nonce, started, sends, accept,
    knocks, accepts, dialled, opened, earlier, sessions, pc, sigchld, reloads,
    reloadAsked, shutdown, incoming, children, penalties, state, authed, pipe,
    status, logins, utmp, punished, phase, cli, disk, conf, keys, bound, pid,
    pidfile, out, code, edits, file, st, at, ms, removed, live, idle, reaper,
    rounds, env, sent, gone, left, held, lock, failures, wait, conn, asking,
    dropped, tried, told, guesses, clock, line, opts, master, stage, route,
    hop, creds, todo, up, becomes, socket, parent, shown, typed, config, mode,
    read, filter, work, stdin, obf, term, guard, main, why, heard, wake,
    unanswered, since, answers, listeners, lis, served, routes, wire, routed, raced,
    ops>>
Spec == Init /\ [][Next]_vars

-----------------------------------------------------------------------------
\* The session, and the success of -f, come after authentication, the forwards
\* and the control socket; -G prints the route, the forwards and the identities
\* that are used, and IdentitiesOnly offers the configured keys alone.
UpBeforeUse == part = "ssh" => Client!UpBeforeUse /\ Client!ShownIsUsed /\ Client!OfferedAsConfigured

\* The session gets what was typed, escapes act where they were typed and the
\* end of the file comes last; the terminal is raw exactly while keys go to the
\* session, and a server is given up only when it has been silent.
TypedAsMeant ==
    /\ part = "typing" => Typing!TypedAsMeant /\ Typing!RawWhileReading
    /\ part = "alive" => StillThere!GivesUpOnSilence

\* A forward's listener that accepts can be cancelled, one that was cancelled
\* ends; a connection of a remote one goes to that forward's own destination,
\* unless forwards of its port are being changed as it comes.
ListenersAgree == part = "forwards" => AddedLater!ListenersAgree /\ AddedLater!RightDestination

\* A knock opens one port of a server once, however often its datagram arrives,
\* and one of a server started since only if its client's clock was ahead; it
\* gives one session, of its own client; the pending count of a key is the
\* number of its open rendezvous, within KnockMaxPending also when the key is
\* taken off.
OncePerKnock ==
    /\ part = "knocks" => Knocks!OncePerKnock /\ Knocks!PendingCounts /\ Knocks!OneSessionEach
    /\ part = "revoked" => Revoked!OpenWithinLimit

\* No more connections are unauthenticated than MaxStartups, none of a source
\* more than its own limit; penalties are kept for a bounded number of sources
\* and bounded in time.
StartupsBounded ==
    /\ part = "startups" => Startups!StartupsBounded
    /\ part = "penalties" => Punished!PenaltiesBounded

\* The PID file names the daemon that serves, nothing listens before all that
\* the configuration names has been read, -T and -G print what the daemon goes
\* by, and no login record outlives its connection process unless a reload came
\* in between or the process wrote it itself and never got to end it.
PidNamesDaemon ==
    /\ part = "starting" => /\ Starting!PidNamesDaemon /\ Starting!ReadBeforeServing
                            /\ Starting!DumpTellsTruth
    /\ part = "logins" => Logins!LoginsClosed

\* A constrained key signs only authentication to a host its constraints lead
\* to, as a user they name, and what it signs names that host; a connection on
\* which a bind was tried is never taken for a local one; keys are used within
\* their lifetime and guesses at the passphrase of a locked agent take time.
SignedForListedHost ==
    /\ part = "path" => /\ Path!SignedForListedHost /\ Path!SignatureNamesHost
                        /\ Path!AttemptSticks
    /\ part = "locked" => Locked!AttemptSticks /\ Locked!GuessesPaced
    /\ part = "timed" => TimeLimited!UsedInTime

\* A locked agent takes no key and gives nothing away; the constraints of a key
\* can be replaced only from where it may be used; a master that ends by itself
\* has lingered.
LockedSilent ==
    [][/\ part = "locked" => Locked!LockedSilent
       /\ part = "path" => Path!ConstraintsKept
       /\ part = "masters" => Masters!Lingers]_vars
=============================================================================
