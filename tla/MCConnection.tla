---------------------------- MODULE MCConnection ----------------------------
(***************************************************************************)
(* Small instances of what a connection is made of, of which `part' says   *)
(* the one that runs: who is let in at a server and by which credentials of*)
(* a client, what the connection process may do after that, the sessions of*)
(* the server, the listeners that connections open at it, threads that     *)
(* share a client, the configuration that decides all this, and the        *)
(* messages of the protocols.                                              *)
(***************************************************************************)
EXTENDS Integers, Sequences, TLC

CONSTANTS Unused

VARIABLES
    part, lock, inner, relays, stash, wire, out, pc, got, peer, ch, sessions, inbox,
    draining, nomore, dead, view, lis, at, joining, file, world, step, creds,
    root, pam, account, told, kind, started, env, left, pipe, life, pumps, tx,
    sent, tail, loop, exited, result, sv, la, reply, answered, refusals, cl,
    toServer, toClient, sigAlgs, offered, policy, disk, mode, command, now,
    keyCache, commandCache, accepted, last, attempts, lines, ctx, pos, blocks,
    guards, atInclude, ignore, stage, global, current, msg, body, fate

\* Who the threads of the shared client are, and what the server has to send
\* on channel 1 (channel 2 is the one an open asks for, the server opens 3 and 4).
Work(job_, ch_) == [kind |-> job_, ch |-> ch_]
SessionJobs == [r |-> Work("read", 1), e |-> Work("stderr", 1), w |-> Work("write", 1),
                c |-> Work("close", 1)]
OpenJobs == [r |-> Work("read", 1), x |-> Work("exit", 1), o |-> Work("open", 2)]
GlobalJobs == [r |-> Work("read", 1), k |-> Work("keepalive", 0), g |-> Work("global", 0),
               p |-> Work("pump", 0)]
OfferJobs == [i |-> Work("relay", 3), s |-> Work("ship", 3), h |-> Work("handler", 3), p |-> Work("pump", 0)]
Sends(data, stderr, adjust, exit, asks) ==
    (0 :> [GlobalRequest |-> asks]) @@
    (1 :> [Data |-> data, Stderr |-> stderr, Adjust |-> adjust, Exit |-> exit, Eof |-> 1,
           Close |-> 1]) @@
    (2 :> [Close |-> 1])
Offer(data, adjust) ==
    [Open |-> 2, Data |-> data, Stderr |-> 0, Adjust |-> adjust, Exit |-> 0, Eof |-> data, Close |-> data]
Offers == (0 :> [GlobalRequest |-> 0]) @@ (3 :> Offer(1, 1)) @@ (4 :> Offer(0, 0))

\* A login as user 7, and what it may meet.
LoginUser == [uid |-> 7, gid |-> 7, groups |-> {7, 8}]
RootUser == [uid |-> 0, gid |-> 0, groups |-> {0}]
Unlisted == [uid |-> -1, gid |-> -1, groups |-> {}]
Meets == [began |-> RootUser, jail |-> "", inJail |-> Unlisted, rootMay |-> FALSE, fault |-> "", rc |-> "",
          listed |-> TRUE, client |-> {}, file |-> {}, admin |-> {}]
LoginNames == SUBSET {"HOME", "LANG", "LD_PRELOAD"}
LoginWorlds ==
    {[Meets EXCEPT !.fault = f, !.jail = j, !.inJail = u, !.rc = r, !.listed = l] :
        f \in {"", "lookup", "pam", "chroot", "clear", "gid", "groups", "uid", "verify"}, j \in {"", "jail"},
        u \in {Unlisted, RootUser}, r \in {"", "rc"}, l \in BOOLEAN}
    \cup {[Meets EXCEPT !.began = LoginUser], [Meets EXCEPT !.began = [LoginUser EXCEPT !.uid = 9]]}
    \cup {[Meets EXCEPT !.client = c, !.file = f, !.admin = a] : c \in LoginNames, f \in LoginNames, a \in LoginNames}

\* Two users and two keys at the server, one key also as a certificate, and the
\* chains an administrator would write.
Blobs2 == {"k1", "k1cert", "k2"}
Caps(force, pty) == [force |-> force, pty |-> pty]
Anything == Caps("none", TRUE)
AliceOr(a, b) == [u \in {"alice", "bob"} |-> IF u = "alice" THEN a ELSE b]
AllMethods == {"publickey", "password", "keyboard-interactive"}

\* What one user may hold at the client, in every order.
Key(b, s) == [m |-> "publickey", blob |-> b, secret |-> s, alg |-> "rsa256",
              algs |-> {"rsa256", "rsa512"}, wrong |-> 0]
Plain(m, s, w) == [m |-> m, blob |-> "none", secret |-> s, alg |-> "none", algs |-> {}, wrong |-> w]
Declined == 99
Creds == {Key("k1", "good"), Key("k2", "good"), Key("k2", "refuses"), Key("k3", "good"),
          Plain("password", "good", 0), Plain("prompt", "good", 1), Plain("prompt", "good", Declined),
          Plain("keyboard-interactive", "good", 0), Plain("keyboard-interactive", "bad", 0)}
MCWallets == UNION {[1..n -> Creds] : n \in 0..3}
             \cup {<<Plain("none", "none", 0)>> \o w : w \in [1..2 -> Creds]}

\* Two keys, two authorities and a user "u".
P0 == [refused |-> FALSE, denyUsers |-> <<>>, allowUsers |-> <<>>, inDenyGroups |-> FALSE,
       allowGroups |-> FALSE, inAllowGroups |-> FALSE, rootDenied |-> FALSE, principals |-> <<>>,
       trustedCAs |-> {}, revokedKeys |-> {}, revokedCerts |-> {}]
Pat(n, h) == [neg |-> n, hit |-> h]
Lists == {<<>>, <<Pat(FALSE, TRUE)>>, <<Pat(FALSE, FALSE)>>, <<Pat(TRUE, TRUE), Pat(FALSE, TRUE)>>}
Cert(ca, key, principals, sourceOk) ==
    [ca |-> ca, key |-> key, principals |-> principals, sourceOk |-> sourceOk]
MCInfo == [c1 |-> Cert("ca1", "k1", {"u"}, TRUE), c2 |-> Cert("ca2", "k2", {"ops"}, TRUE),
           c3 |-> Cert("ca1", "k2", {}, TRUE), c4 |-> Cert("ca1", "k1", {"u"}, FALSE)]
Line(k, b, f, e, p, o) == [kind |-> k, blob |-> b, from |-> f, expiry |-> e, principals |-> p, opts |-> o]
L1 == Line("key", "k1", TRUE, 1, {}, "backup")
L2 == Line("key", "k1", FALSE, 0, {}, "report")
L3 == Line("key", "k2", TRUE, 0, {}, "plain")
L4 == Line("key", "k1", TRUE, 0, {}, "plain")
L5 == Line("ca", "ca1", TRUE, 0, {}, "backup")
L6 == Line("ca", "ca2", TRUE, 0, {"ops"}, "report")
Granted == <<Line("principal", "ops", FALSE, 0, {}, "plain"), Line("principal", "u", TRUE, 1, {}, "report"),
             Line("principal", "ops", TRUE, 0, {}, "backup")>>
Safe == [regular |-> TRUE, writable |-> FALSE, owner |-> "u", dirs |-> <<[owner |-> "root", writable |-> FALSE]>>]
Shared == [Safe EXCEPT !.dirs = <<[owner |-> "root", writable |-> TRUE]>>]
KeyPolicies == {P0, [P0 EXCEPT !.trustedCAs = {"ca1", "ca2"}],
                [P0 EXCEPT !.trustedCAs = {"ca1", "ca2"}, !.principals = <<Granted>>],
                [P0 EXCEPT !.revokedKeys = {"k1"}],
                [P0 EXCEPT !.revokedKeys = {"ca1"}, !.trustedCAs = {"ca1"}],
                [P0 EXCEPT !.revokedCerts = {"c1"}, !.trustedCAs = {"ca1"}]}
ListPolicies == {[P0 EXCEPT !.denyUsers = d, !.allowUsers = a, !.inDenyGroups = dg,
                            !.allowGroups = ag[1], !.inAllowGroups = ag[2], !.rootDenied = r, !.refused = f] :
                   d \in Lists, a \in Lists, dg \in BOOLEAN,
                   ag \in {<<FALSE, FALSE>>, <<TRUE, FALSE>>, <<TRUE, TRUE>>}, r \in BOOLEAN, f \in BOOLEAN}

\* Small configuration files, for one host and for one connection.
P(neg, names) == [neg |-> neg, names |-> names]
C(type, neg, pats) == <<[type |-> type, neg |-> neg, pats |-> pats]>>
Hosts == {C("host", FALSE, <<P(FALSE, {"here", "near"}), P(TRUE, {"near"})>>),
          C("host", FALSE, <<P(FALSE, {"away"})>>)}
Tagged == C("tagged", FALSE, <<P(FALSE, {"v"})>>)
UserIs(u) == C("user", FALSE, <<P(FALSE, {u})>>)
Here(exec) == [host |-> "here", user |-> "u", tagged |-> "", exec |-> exec]

-----------------------------------------------------------------------------
Session == INSTANCE SharedClient WITH Threads <- DOMAIN SessionJobs,
    Job <- SessionJobs, Opened <- {1}, Script <- Sends(1, 1, 1, 0, 0),
    MaxInFlight <- 2, Incoming <- {}, Wanted <- {}, Backlog <- 1, Answers <- 0
Opening == INSTANCE SharedClient WITH Threads <- DOMAIN OpenJobs,
    Job <- OpenJobs, Opened <- {1}, Script <- Sends(2, 0, 0, 1, 0),
    MaxInFlight <- 2, Incoming <- {}, Wanted <- {}, Backlog <- 1, Answers <- 0
Global == INSTANCE SharedClient WITH Threads <- DOMAIN GlobalJobs,
    Job <- GlobalJobs, Opened <- {1}, Script <- Sends(1, 0, 0, 0, 1),
    MaxInFlight <- 2, Incoming <- {}, Wanted <- {}, Backlog <- 1, Answers <- 0
Offered == INSTANCE SharedClient WITH Threads <- DOMAIN OfferJobs,
    Job <- OfferJobs, Opened <- {}, Script <- Offers, MaxInFlight <- 2,
    Incoming <- {3, 4}, Wanted <- {3}, Backlog <- 1, Answers <- 2
Streamed == INSTANCE ServerSessions WITH Chans <- 1..3,
    ForceCommand <- "none", CertForce <- "none", ConfigTty <- TRUE,
    CertTty <- TRUE, Local <- TRUE, MaxSessions <- 1,
    Streams <- {"asked", "forced", "login", "subsystem"}, PtyCommands <- TRUE,
    Subsystem <- "command", MaxEnv <- 0, MaxInbox <- 1
Forced == INSTANCE ServerSessions WITH Chans <- {1, 2},
    ForceCommand <- "forced", CertForce <- "sftp", ConfigTty <- TRUE,
    CertTty <- TRUE, Local <- FALSE, MaxSessions <- 2, Streams <- {},
    PtyCommands <- TRUE, Subsystem <- "sftp", MaxEnv <- 1, MaxInbox <- 2
Certified == INSTANCE ServerSessions WITH Chans <- {1, 2},
    ForceCommand <- "none", CertForce <- "sftp", ConfigTty <- TRUE,
    CertTty <- FALSE, Local <- TRUE, MaxSessions <- 2, Streams <- {},
    PtyCommands <- TRUE, Subsystem <- "served", MaxEnv <- 1, MaxInbox <- 2
Listening == INSTANCE Listeners WITH Conns <- {"c1", "c2"},
    Sessions <- {"s1"}, Kinds <- {"tcpip", "streamlocal"},
    Addrs <- {"any", "loop", "lan"}, Ports <- {1}, Paths <- {"p1"},
    Gateway <- "no", LocalOnly <- FALSE, Unlink <- TRUE, Single <- TRUE,
    Cap <- 1, MaxListeners <- 3, MayCancel <- TRUE, MayLeave <- TRUE,
    None <- Unused
Displays == INSTANCE Listeners WITH Conns <- {"c1"}, Sessions <- {"s1"},
    Kinds <- {"agent", "x11", "tcpip"}, Addrs <- {"any", "loop", "lan"},
    Ports <- {1, 2}, Paths <- {"p1"}, Gateway <- "yes", LocalOnly <- TRUE,
    Unlink <- FALSE, Single <- TRUE, Cap <- 2, MaxListeners <- 3,
    MayCancel <- TRUE, MayLeave <- TRUE, None <- Unused
Login == INSTANCE SshdSession WITH User <- LoginUser, Worlds <- LoginWorlds,
    Kinds <- {"exec", "pty", "sftp", "scp", "scpodd", "collected"},
    Output <- 1, TxCap <- 2, Sizes <- {1, 2}, Cap <- 2
Server == INSTANCE ServerAuth WITH Users <- {"alice", "bob"}, Blobs <- Blobs2,
    KeyOf <- [b \in Blobs2 |-> IF b = "k2" THEN "K2" ELSE "K1"],
    CertCaps <- [b \in Blobs2 |-> IF b = "k1cert" THEN Caps("none", FALSE) ELSE Anything],
    LineCaps <- [b \in Blobs2 |-> IF b = "k2" THEN Caps("backup", TRUE) ELSE Anything],
    Authorized <- AliceOr(Blobs2, {"k1"}), AllowedUsers <- {"alice", "bob"},
    Methods <- AliceOr(AllMethods, {"publickey"}),
    Chains <- AliceOr({<<"publickey", m>> : m \in AllMethods}, {}),
    MaxAuthTries <- 2, MaxPkOk <- 2, MaxAuthSteps <- 9, PamPrompts <- 2
Wallet == INSTANCE UserAuth WITH Users <- {"alice"},
    Blobs <- {"k1", "k2", "k3"}, KeyOf <- [b \in {"k1", "k2", "k3"} |-> b],
    CertCaps <- [b \in {"k1", "k2", "k3"} |-> Anything],
    LineCaps <- [b \in {"k1", "k2", "k3"} |-> Anything],
    Authorized <- [alice |-> {"k1", "k2"}], AllowedUsers <- {"alice"},
    Methods <- [alice |-> AllMethods],
    Chains <- [alice |-> {<<"publickey", "password">>, <<"publickey", "keyboard-interactive">>}],
    MaxAuthTries <- 3, MaxPkOk <- 2, MaxAuthSteps <- 12, PamPrompts <- 2,
    User <- "alice", Wallets <- MCWallets, PubkeyAccepted <- {},
    ServerSigAlgs <- {"rsa512"}, Mismatched <- FALSE
Changed == INSTANCE UserAuth WITH Users <- {"alice"},
    Blobs <- {"k1", "k2", "k3"}, KeyOf <- [b \in {"k1", "k2", "k3"} |-> b],
    CertCaps <- [b \in {"k1", "k2", "k3"} |-> Anything],
    LineCaps <- [b \in {"k1", "k2", "k3"} |-> Anything],
    Authorized <- [alice |-> {"k1", "k2"}], AllowedUsers <- {"alice"},
    Methods <- [alice |-> AllMethods],
    Chains <- [alice |-> {<<"publickey", "password">>, <<"publickey", "keyboard-interactive">>}],
    MaxAuthTries <- 3, MaxPkOk <- 2, MaxAuthSteps <- 12, PamPrompts <- 2,
    User <- "alice", Wallets <- MCWallets, PubkeyAccepted <- {},
    ServerSigAlgs <- {"rsa512"}, Mismatched <- TRUE
Lookup == INSTANCE KeyAccess WITH Policies <- KeyPolicies,
    Contents <- {<<>>, <<L2, L1, L4>>, <<L3, L5>>, <<L6, L2>>},
    CommandSays <- {<<>>, <<L4>>}, FileStates <- {Safe, Shared},
    Keys <- {"k1", "k2"}, Certs <- DOMAIN MCInfo, Info <- MCInfo, User <- "u",
    Root <- "root", MaxTime <- 1, MaxAttempts <- 2
Listed == INSTANCE KeyAccess WITH Policies <- ListPolicies,
    Contents <- {<<L1, L4>>}, CommandSays <- {<<>>}, FileStates <- {Safe},
    Keys <- {"k1", "k2"}, Certs <- {}, Info <- MCInfo, User <- "u",
    Root <- "root", MaxTime <- 1, MaxAttempts <- 2
Includes == INSTANCE ClientConfig WITH Keywords <- {"host", "match", "begin", "end", "checkhostip"},
    Values <- {"v", "w"}, Conditions <- Hosts, Contexts <- {Here(FALSE)},
    MaxLines <- 5
Tags == INSTANCE ClientConfig WITH Keywords <- {"match", "begin", "end", "tag", "identityfile"},
    Values <- {"v"}, Conditions <- {Tagged, C("exec", FALSE, <<>>) \o Tagged},
    Contexts <- {Here(e) : e \in BOOLEAN}, MaxLines <- 5
ConfFiles == INSTANCE ClientConfig WITH Keywords <- {"host", "file", "begin", "end", "ignoreunknown", "unknown", "proxyjump", "proxycommand"},
    Values <- {"v"}, Conditions <- Hosts, Contexts <- {Here(FALSE)},
    MaxLines <- 5
Overrides == INSTANCE ClientConfig WITH Keywords <- {"host", "begin", "end", "port", "forwardagent"},
    Values <- {"v", "path"}, Conditions <- Hosts, Contexts <- {Here(FALSE)},
    MaxLines <- 4
SshdConf == INSTANCE ServerConfig WITH Keywords <- {"match", "begin", "end", "maxauthtries", "port"},
    Values <- {"v", "w"}, Conditions <- {UserIs("u"), UserIs("other")},
    Contexts <- {Here(FALSE)}, MaxLines <- 5
SshdLists == INSTANCE ServerConfig WITH Keywords <- {"match", "allowusers", "subsystem", "fingerprinthash"},
    Values <- {"v", "w", "x"}, Conditions <- {UserIs("u"), UserIs("other")},
    Contexts <- {Here(FALSE)}, MaxLines <- 4
Auth == INSTANCE AuthMessages WITH Strs <- {<<>>, <<7>>, <<1, 7>>},
    MaxString <- 12, MaxList <- 3
Frame == INSTANCE Frames WITH Formats <- {"mux", "request", "global", "extinfo", "ping", "agent"},
    Strs <- {<<>>, <<7>>, <<1, 2>>}, Ints <- {<<0>>, <<1>>}, MaxList <- 3,
    MaxPacket <- 40
Packets == INSTANCE Frames WITH Formats <- {"sftp"}, Ints <- {<<0>>, <<9>>},
    Strs <- {<<>>, <<7>>, <<1, 2>>}, MaxList <- 4, MaxPacket <- 40

\* The variables that a model does not have, which hold Unused while it runs.
notSharedClient == <<ch, sessions, inbox, draining, nomore, dead, view, lis,
    at, joining, file, world, step, creds, root, pam, account, told, kind,
    started, env, left, pipe, life, pumps, tx, sent, tail, loop, exited,
    result, sv, la, reply, answered, refusals, cl, toServer, toClient,
    sigAlgs, offered, policy, disk, mode, command, now, keyCache,
    commandCache, accepted, last, attempts, lines, ctx, pos, blocks, guards,
    atInclude, ignore, stage, global, current, msg, body, fate>>
OnlySharedClient ==
    /\ ch = Unused /\ sessions = Unused /\ inbox = Unused
    /\ draining = Unused /\ nomore = Unused /\ dead = Unused /\ view = Unused
    /\ lis = Unused /\ at = Unused /\ joining = Unused /\ file = Unused
    /\ world = Unused /\ step = Unused /\ creds = Unused /\ root = Unused
    /\ pam = Unused /\ account = Unused /\ told = Unused /\ kind = Unused
    /\ started = Unused /\ env = Unused /\ left = Unused /\ pipe = Unused
    /\ life = Unused /\ pumps = Unused /\ tx = Unused /\ sent = Unused
    /\ tail = Unused /\ loop = Unused /\ exited = Unused /\ result = Unused
    /\ sv = Unused /\ la = Unused /\ reply = Unused /\ answered = Unused
    /\ refusals = Unused /\ cl = Unused /\ toServer = Unused
    /\ toClient = Unused /\ sigAlgs = Unused /\ offered = Unused
    /\ policy = Unused /\ disk = Unused /\ mode = Unused /\ command = Unused
    /\ now = Unused /\ keyCache = Unused /\ commandCache = Unused
    /\ accepted = Unused /\ last = Unused /\ attempts = Unused
    /\ lines = Unused /\ ctx = Unused /\ pos = Unused /\ blocks = Unused
    /\ guards = Unused /\ atInclude = Unused /\ ignore = Unused
    /\ stage = Unused /\ global = Unused /\ current = Unused /\ msg = Unused
    /\ body = Unused /\ fate = Unused
notServerSessions == <<lock, inner, relays, stash, wire, out, pc, got, peer, lis, at,
    joining, file, world, step, creds, root, pam, account, told, kind,
    started, env, left, pipe, life, pumps, tx, sent, tail, loop, exited,
    result, sv, la, reply, answered, refusals, cl, toServer, toClient,
    sigAlgs, offered, policy, disk, mode, command, now, keyCache,
    commandCache, accepted, last, attempts, lines, ctx, pos, blocks, guards,
    atInclude, ignore, stage, global, current, msg, body, fate>>
OnlyServerSessions ==
    /\ lock = Unused /\ inner = Unused /\ relays = Unused /\ stash = Unused /\ wire = Unused
    /\ out = Unused /\ pc = Unused /\ got = Unused /\ peer = Unused
    /\ lis = Unused /\ at = Unused /\ joining = Unused /\ file = Unused
    /\ world = Unused /\ step = Unused /\ creds = Unused /\ root = Unused
    /\ pam = Unused /\ account = Unused /\ told = Unused /\ kind = Unused
    /\ started = Unused /\ env = Unused /\ left = Unused /\ pipe = Unused
    /\ life = Unused /\ pumps = Unused /\ tx = Unused /\ sent = Unused
    /\ tail = Unused /\ loop = Unused /\ exited = Unused /\ result = Unused
    /\ sv = Unused /\ la = Unused /\ reply = Unused /\ answered = Unused
    /\ refusals = Unused /\ cl = Unused /\ toServer = Unused
    /\ toClient = Unused /\ sigAlgs = Unused /\ offered = Unused
    /\ policy = Unused /\ disk = Unused /\ mode = Unused /\ command = Unused
    /\ now = Unused /\ keyCache = Unused /\ commandCache = Unused
    /\ accepted = Unused /\ last = Unused /\ attempts = Unused
    /\ lines = Unused /\ ctx = Unused /\ pos = Unused /\ blocks = Unused
    /\ guards = Unused /\ atInclude = Unused /\ ignore = Unused
    /\ stage = Unused /\ global = Unused /\ current = Unused /\ msg = Unused
    /\ body = Unused /\ fate = Unused
notListeners == <<lock, inner, relays, stash, wire, out, pc, got, peer, ch, sessions,
    inbox, draining, nomore, dead, view, world, step, creds, root, pam,
    account, told, kind, started, env, left, pipe, life, pumps, tx, sent,
    tail, loop, exited, result, sv, la, reply, answered, refusals, cl,
    toServer, toClient, sigAlgs, offered, policy, disk, mode, command, now,
    keyCache, commandCache, accepted, last, attempts, lines, ctx, pos, blocks,
    guards, atInclude, ignore, stage, global, current, msg, body, fate>>
OnlyListeners ==
    /\ lock = Unused /\ inner = Unused /\ relays = Unused /\ stash = Unused /\ wire = Unused
    /\ out = Unused /\ pc = Unused /\ got = Unused /\ peer = Unused
    /\ ch = Unused /\ sessions = Unused /\ inbox = Unused
    /\ draining = Unused /\ nomore = Unused /\ dead = Unused /\ view = Unused
    /\ world = Unused /\ step = Unused /\ creds = Unused /\ root = Unused
    /\ pam = Unused /\ account = Unused /\ told = Unused /\ kind = Unused
    /\ started = Unused /\ env = Unused /\ left = Unused /\ pipe = Unused
    /\ life = Unused /\ pumps = Unused /\ tx = Unused /\ sent = Unused
    /\ tail = Unused /\ loop = Unused /\ exited = Unused /\ result = Unused
    /\ sv = Unused /\ la = Unused /\ reply = Unused /\ answered = Unused
    /\ refusals = Unused /\ cl = Unused /\ toServer = Unused
    /\ toClient = Unused /\ sigAlgs = Unused /\ offered = Unused
    /\ policy = Unused /\ disk = Unused /\ mode = Unused /\ command = Unused
    /\ now = Unused /\ keyCache = Unused /\ commandCache = Unused
    /\ accepted = Unused /\ last = Unused /\ attempts = Unused
    /\ lines = Unused /\ ctx = Unused /\ pos = Unused /\ blocks = Unused
    /\ guards = Unused /\ atInclude = Unused /\ ignore = Unused
    /\ stage = Unused /\ global = Unused /\ current = Unused /\ msg = Unused
    /\ body = Unused /\ fate = Unused
notSshdSession == <<lock, inner, relays, stash, wire, out, pc, got, peer, ch,
    sessions, inbox, draining, nomore, dead, view, lis, at, joining, file, sv,
    la, reply, answered, refusals, cl, toServer, toClient, sigAlgs, offered,
    policy, disk, mode, command, now, keyCache, commandCache, accepted, last,
    attempts, lines, ctx, pos, blocks, guards, atInclude, ignore, stage,
    global, current, msg, body, fate>>
OnlySshdSession ==
    /\ lock = Unused /\ inner = Unused /\ relays = Unused /\ stash = Unused /\ wire = Unused
    /\ out = Unused /\ pc = Unused /\ got = Unused /\ peer = Unused
    /\ ch = Unused /\ sessions = Unused /\ inbox = Unused
    /\ draining = Unused /\ nomore = Unused /\ dead = Unused /\ view = Unused
    /\ lis = Unused /\ at = Unused /\ joining = Unused /\ file = Unused
    /\ sv = Unused /\ la = Unused /\ reply = Unused /\ answered = Unused
    /\ refusals = Unused /\ cl = Unused /\ toServer = Unused
    /\ toClient = Unused /\ sigAlgs = Unused /\ offered = Unused
    /\ policy = Unused /\ disk = Unused /\ mode = Unused /\ command = Unused
    /\ now = Unused /\ keyCache = Unused /\ commandCache = Unused
    /\ accepted = Unused /\ last = Unused /\ attempts = Unused
    /\ lines = Unused /\ ctx = Unused /\ pos = Unused /\ blocks = Unused
    /\ guards = Unused /\ atInclude = Unused /\ ignore = Unused
    /\ stage = Unused /\ global = Unused /\ current = Unused /\ msg = Unused
    /\ body = Unused /\ fate = Unused
notServerAuth == <<lock, inner, relays, stash, wire, out, pc, got, peer, ch, sessions,
    inbox, draining, nomore, dead, view, lis, at, joining, file, world, step,
    creds, root, pam, account, told, kind, started, env, left, pipe, life,
    pumps, tx, sent, tail, loop, exited, result, cl, toServer, toClient,
    sigAlgs, offered, policy, disk, mode, command, now, keyCache,
    commandCache, accepted, last, attempts, lines, ctx, pos, blocks, guards,
    atInclude, ignore, stage, global, current, msg, body, fate>>
OnlyServerAuth ==
    /\ lock = Unused /\ inner = Unused /\ relays = Unused /\ stash = Unused /\ wire = Unused
    /\ out = Unused /\ pc = Unused /\ got = Unused /\ peer = Unused
    /\ ch = Unused /\ sessions = Unused /\ inbox = Unused
    /\ draining = Unused /\ nomore = Unused /\ dead = Unused /\ view = Unused
    /\ lis = Unused /\ at = Unused /\ joining = Unused /\ file = Unused
    /\ world = Unused /\ step = Unused /\ creds = Unused /\ root = Unused
    /\ pam = Unused /\ account = Unused /\ told = Unused /\ kind = Unused
    /\ started = Unused /\ env = Unused /\ left = Unused /\ pipe = Unused
    /\ life = Unused /\ pumps = Unused /\ tx = Unused /\ sent = Unused
    /\ tail = Unused /\ loop = Unused /\ exited = Unused /\ result = Unused
    /\ cl = Unused /\ toServer = Unused /\ toClient = Unused
    /\ sigAlgs = Unused /\ offered = Unused /\ policy = Unused
    /\ disk = Unused /\ mode = Unused /\ command = Unused /\ now = Unused
    /\ keyCache = Unused /\ commandCache = Unused /\ accepted = Unused
    /\ last = Unused /\ attempts = Unused /\ lines = Unused /\ ctx = Unused
    /\ pos = Unused /\ blocks = Unused /\ guards = Unused
    /\ atInclude = Unused /\ ignore = Unused /\ stage = Unused
    /\ global = Unused /\ current = Unused /\ msg = Unused /\ body = Unused
    /\ fate = Unused
notUserAuth == <<lock, inner, relays, stash, wire, out, pc, got, peer, ch, sessions,
    inbox, draining, nomore, dead, view, lis, at, joining, file, world, step,
    creds, root, pam, account, told, kind, started, env, left, pipe, life,
    pumps, tx, sent, tail, loop, exited, result, policy, disk, mode, command,
    now, keyCache, commandCache, accepted, last, attempts, lines, ctx, pos,
    blocks, guards, atInclude, ignore, stage, global, current, msg, body,
    fate>>
OnlyUserAuth ==
    /\ lock = Unused /\ inner = Unused /\ relays = Unused /\ stash = Unused /\ wire = Unused
    /\ out = Unused /\ pc = Unused /\ got = Unused /\ peer = Unused
    /\ ch = Unused /\ sessions = Unused /\ inbox = Unused
    /\ draining = Unused /\ nomore = Unused /\ dead = Unused /\ view = Unused
    /\ lis = Unused /\ at = Unused /\ joining = Unused /\ file = Unused
    /\ world = Unused /\ step = Unused /\ creds = Unused /\ root = Unused
    /\ pam = Unused /\ account = Unused /\ told = Unused /\ kind = Unused
    /\ started = Unused /\ env = Unused /\ left = Unused /\ pipe = Unused
    /\ life = Unused /\ pumps = Unused /\ tx = Unused /\ sent = Unused
    /\ tail = Unused /\ loop = Unused /\ exited = Unused /\ result = Unused
    /\ policy = Unused /\ disk = Unused /\ mode = Unused /\ command = Unused
    /\ now = Unused /\ keyCache = Unused /\ commandCache = Unused
    /\ accepted = Unused /\ last = Unused /\ attempts = Unused
    /\ lines = Unused /\ ctx = Unused /\ pos = Unused /\ blocks = Unused
    /\ guards = Unused /\ atInclude = Unused /\ ignore = Unused
    /\ stage = Unused /\ global = Unused /\ current = Unused /\ msg = Unused
    /\ body = Unused /\ fate = Unused
notKeyAccess == <<lock, inner, relays, stash, wire, out, pc, got, peer, ch, sessions,
    inbox, draining, nomore, dead, view, lis, at, joining, file, world, step,
    creds, root, pam, account, told, kind, started, env, left, pipe, life,
    pumps, tx, sent, tail, loop, exited, result, sv, la, reply, answered,
    refusals, cl, toServer, toClient, sigAlgs, offered, lines, ctx, pos,
    blocks, guards, atInclude, ignore, stage, global, current, msg, body,
    fate>>
OnlyKeyAccess ==
    /\ lock = Unused /\ inner = Unused /\ relays = Unused /\ stash = Unused /\ wire = Unused
    /\ out = Unused /\ pc = Unused /\ got = Unused /\ peer = Unused
    /\ ch = Unused /\ sessions = Unused /\ inbox = Unused
    /\ draining = Unused /\ nomore = Unused /\ dead = Unused /\ view = Unused
    /\ lis = Unused /\ at = Unused /\ joining = Unused /\ file = Unused
    /\ world = Unused /\ step = Unused /\ creds = Unused /\ root = Unused
    /\ pam = Unused /\ account = Unused /\ told = Unused /\ kind = Unused
    /\ started = Unused /\ env = Unused /\ left = Unused /\ pipe = Unused
    /\ life = Unused /\ pumps = Unused /\ tx = Unused /\ sent = Unused
    /\ tail = Unused /\ loop = Unused /\ exited = Unused /\ result = Unused
    /\ sv = Unused /\ la = Unused /\ reply = Unused /\ answered = Unused
    /\ refusals = Unused /\ cl = Unused /\ toServer = Unused
    /\ toClient = Unused /\ sigAlgs = Unused /\ offered = Unused
    /\ lines = Unused /\ ctx = Unused /\ pos = Unused /\ blocks = Unused
    /\ guards = Unused /\ atInclude = Unused /\ ignore = Unused
    /\ stage = Unused /\ global = Unused /\ current = Unused /\ msg = Unused
    /\ body = Unused /\ fate = Unused
notClientConfig == <<lock, inner, relays, stash, wire, pc, got, peer, ch, sessions,
    inbox, draining, nomore, dead, view, lis, at, joining, file, world, step,
    creds, root, pam, account, told, kind, started, env, left, pipe, life,
    pumps, tx, sent, tail, loop, exited, result, sv, la, reply, answered,
    refusals, cl, toServer, toClient, sigAlgs, offered, policy, disk, mode,
    command, now, keyCache, commandCache, accepted, last, attempts, global,
    current, msg, body, fate>>
OnlyClientConfig ==
    /\ lock = Unused /\ inner = Unused /\ relays = Unused /\ stash = Unused /\ wire = Unused
    /\ pc = Unused /\ got = Unused /\ peer = Unused /\ ch = Unused
    /\ sessions = Unused /\ inbox = Unused /\ draining = Unused
    /\ nomore = Unused /\ dead = Unused /\ view = Unused /\ lis = Unused
    /\ at = Unused /\ joining = Unused /\ file = Unused /\ world = Unused
    /\ step = Unused /\ creds = Unused /\ root = Unused /\ pam = Unused
    /\ account = Unused /\ told = Unused /\ kind = Unused /\ started = Unused
    /\ env = Unused /\ left = Unused /\ pipe = Unused /\ life = Unused
    /\ pumps = Unused /\ tx = Unused /\ sent = Unused /\ tail = Unused
    /\ loop = Unused /\ exited = Unused /\ result = Unused /\ sv = Unused
    /\ la = Unused /\ reply = Unused /\ answered = Unused
    /\ refusals = Unused /\ cl = Unused /\ toServer = Unused
    /\ toClient = Unused /\ sigAlgs = Unused /\ offered = Unused
    /\ policy = Unused /\ disk = Unused /\ mode = Unused /\ command = Unused
    /\ now = Unused /\ keyCache = Unused /\ commandCache = Unused
    /\ accepted = Unused /\ last = Unused /\ attempts = Unused
    /\ global = Unused /\ current = Unused /\ msg = Unused /\ body = Unused
    /\ fate = Unused
notServerConfig == <<lock, inner, relays, stash, wire, pc, got, peer, ch, sessions,
    inbox, draining, nomore, dead, view, lis, at, joining, file, world, step,
    creds, root, pam, account, told, kind, started, env, left, pipe, life,
    pumps, tx, sent, tail, loop, exited, result, sv, la, reply, answered,
    refusals, cl, toServer, toClient, sigAlgs, offered, policy, disk, mode,
    command, now, keyCache, commandCache, accepted, last, attempts, ignore,
    msg, body, fate>>
OnlyServerConfig ==
    /\ lock = Unused /\ inner = Unused /\ relays = Unused /\ stash = Unused /\ wire = Unused
    /\ pc = Unused /\ got = Unused /\ peer = Unused /\ ch = Unused
    /\ sessions = Unused /\ inbox = Unused /\ draining = Unused
    /\ nomore = Unused /\ dead = Unused /\ view = Unused /\ lis = Unused
    /\ at = Unused /\ joining = Unused /\ file = Unused /\ world = Unused
    /\ step = Unused /\ creds = Unused /\ root = Unused /\ pam = Unused
    /\ account = Unused /\ told = Unused /\ kind = Unused /\ started = Unused
    /\ env = Unused /\ left = Unused /\ pipe = Unused /\ life = Unused
    /\ pumps = Unused /\ tx = Unused /\ sent = Unused /\ tail = Unused
    /\ loop = Unused /\ exited = Unused /\ result = Unused /\ sv = Unused
    /\ la = Unused /\ reply = Unused /\ answered = Unused
    /\ refusals = Unused /\ cl = Unused /\ toServer = Unused
    /\ toClient = Unused /\ sigAlgs = Unused /\ offered = Unused
    /\ policy = Unused /\ disk = Unused /\ mode = Unused /\ command = Unused
    /\ now = Unused /\ keyCache = Unused /\ commandCache = Unused
    /\ accepted = Unused /\ last = Unused /\ attempts = Unused
    /\ ignore = Unused /\ msg = Unused /\ body = Unused /\ fate = Unused
notAuthMessages == <<lock, inner, relays, stash, wire, out, pc, peer, ch, sessions,
    inbox, draining, nomore, dead, view, lis, at, joining, file, world, step,
    creds, root, pam, account, told, kind, started, env, left, pipe, life,
    pumps, tx, sent, tail, loop, exited, result, sv, la, reply, answered,
    refusals, cl, toServer, toClient, sigAlgs, offered, policy, disk, mode,
    command, now, keyCache, commandCache, accepted, last, attempts, lines,
    ctx, pos, blocks, guards, atInclude, ignore, stage, global, current>>
OnlyAuthMessages ==
    /\ lock = Unused /\ inner = Unused /\ relays = Unused /\ stash = Unused /\ wire = Unused
    /\ out = Unused /\ pc = Unused /\ peer = Unused /\ ch = Unused
    /\ sessions = Unused /\ inbox = Unused /\ draining = Unused
    /\ nomore = Unused /\ dead = Unused /\ view = Unused /\ lis = Unused
    /\ at = Unused /\ joining = Unused /\ file = Unused /\ world = Unused
    /\ step = Unused /\ creds = Unused /\ root = Unused /\ pam = Unused
    /\ account = Unused /\ told = Unused /\ kind = Unused /\ started = Unused
    /\ env = Unused /\ left = Unused /\ pipe = Unused /\ life = Unused
    /\ pumps = Unused /\ tx = Unused /\ sent = Unused /\ tail = Unused
    /\ loop = Unused /\ exited = Unused /\ result = Unused /\ sv = Unused
    /\ la = Unused /\ reply = Unused /\ answered = Unused
    /\ refusals = Unused /\ cl = Unused /\ toServer = Unused
    /\ toClient = Unused /\ sigAlgs = Unused /\ offered = Unused
    /\ policy = Unused /\ disk = Unused /\ mode = Unused /\ command = Unused
    /\ now = Unused /\ keyCache = Unused /\ commandCache = Unused
    /\ accepted = Unused /\ last = Unused /\ attempts = Unused
    /\ lines = Unused /\ ctx = Unused /\ pos = Unused /\ blocks = Unused
    /\ guards = Unused /\ atInclude = Unused /\ ignore = Unused
    /\ stage = Unused /\ global = Unused /\ current = Unused
notFrames == <<lock, inner, relays, stash, wire, out, pc, peer, ch, sessions, inbox,
    draining, nomore, dead, view, lis, at, joining, file, world, step, creds,
    root, pam, account, told, kind, started, env, left, pipe, life, pumps, tx,
    sent, tail, loop, exited, result, sv, la, reply, answered, refusals, cl,
    toServer, toClient, sigAlgs, offered, policy, disk, mode, command, now,
    keyCache, commandCache, accepted, last, attempts, lines, ctx, pos, blocks,
    guards, atInclude, ignore, stage, global, current>>
OnlyFrames ==
    /\ lock = Unused /\ inner = Unused /\ relays = Unused /\ stash = Unused /\ wire = Unused
    /\ out = Unused /\ pc = Unused /\ peer = Unused /\ ch = Unused
    /\ sessions = Unused /\ inbox = Unused /\ draining = Unused
    /\ nomore = Unused /\ dead = Unused /\ view = Unused /\ lis = Unused
    /\ at = Unused /\ joining = Unused /\ file = Unused /\ world = Unused
    /\ step = Unused /\ creds = Unused /\ root = Unused /\ pam = Unused
    /\ account = Unused /\ told = Unused /\ kind = Unused /\ started = Unused
    /\ env = Unused /\ left = Unused /\ pipe = Unused /\ life = Unused
    /\ pumps = Unused /\ tx = Unused /\ sent = Unused /\ tail = Unused
    /\ loop = Unused /\ exited = Unused /\ result = Unused /\ sv = Unused
    /\ la = Unused /\ reply = Unused /\ answered = Unused
    /\ refusals = Unused /\ cl = Unused /\ toServer = Unused
    /\ toClient = Unused /\ sigAlgs = Unused /\ offered = Unused
    /\ policy = Unused /\ disk = Unused /\ mode = Unused /\ command = Unused
    /\ now = Unused /\ keyCache = Unused /\ commandCache = Unused
    /\ accepted = Unused /\ last = Unused /\ attempts = Unused
    /\ lines = Unused /\ ctx = Unused /\ pos = Unused /\ blocks = Unused
    /\ guards = Unused /\ atInclude = Unused /\ ignore = Unused
    /\ stage = Unused /\ global = Unused /\ current = Unused

Init ==
    \/ part = "session" /\ Session!Init /\ OnlySharedClient
    \/ part = "open" /\ Opening!Init /\ OnlySharedClient
    \/ part = "global" /\ Global!Init /\ OnlySharedClient
    \/ part = "incoming" /\ Offered!Init /\ OnlySharedClient
    \/ part = "streams" /\ Streamed!Init /\ OnlyServerSessions
    \/ part = "forced" /\ Forced!Init /\ OnlyServerSessions
    \/ part = "cert" /\ Certified!Init /\ OnlyServerSessions
    \/ part = "listeners" /\ Listening!Init /\ OnlyListeners
    \/ part = "displays" /\ Displays!Init /\ OnlyListeners
    \/ part = "login" /\ Login!Init /\ OnlySshdSession
    \/ part = "server" /\ Server!ServerInit /\ OnlyServerAuth
    \/ part = "wallet" /\ Wallet!Init /\ OnlyUserAuth
    \/ part = "mismatch" /\ Changed!Init /\ OnlyUserAuth
    \/ part = "keys" /\ Lookup!Init /\ OnlyKeyAccess
    \/ part = "lists" /\ Listed!Init /\ OnlyKeyAccess
    \/ part = "includes" /\ Includes!Init /\ OnlyClientConfig
    \/ part = "tags" /\ Tags!Init /\ OnlyClientConfig
    \/ part = "conffiles" /\ ConfFiles!Init /\ OnlyClientConfig
    \/ part = "overrides" /\ Overrides!Init /\ OnlyClientConfig
    \/ part = "sshdconf" /\ SshdConf!Init /\ OnlyServerConfig
    \/ part = "sshdlists" /\ SshdLists!Init /\ OnlyServerConfig
    \/ part = "auth" /\ Auth!Init /\ OnlyAuthMessages
    \/ part = "frames" /\ Frame!Init /\ OnlyFrames
    \/ part = "packets" /\ Packets!Init /\ OnlyFrames

Next ==
    \/ part = "session" /\ Session!Next /\ UNCHANGED <<part, notSharedClient>>
    \/ part = "open" /\ Opening!Next /\ UNCHANGED <<part, notSharedClient>>
    \/ part = "global" /\ Global!Next /\ UNCHANGED <<part, notSharedClient>>
    \/ part = "incoming" /\ Offered!Next /\ UNCHANGED <<part, notSharedClient>>
    \/ part = "streams" /\ Streamed!Next /\ UNCHANGED <<part, notServerSessions>>
    \/ part = "forced" /\ Forced!Next /\ UNCHANGED <<part, notServerSessions>>
    \/ part = "cert" /\ Certified!Next /\ UNCHANGED <<part, notServerSessions>>
    \/ part = "listeners" /\ Listening!Next /\ UNCHANGED <<part, notListeners>>
    \/ part = "displays" /\ Displays!Next /\ UNCHANGED <<part, notListeners>>
    \/ part = "login" /\ Login!Next /\ UNCHANGED <<part, notSshdSession>>
    \/ part = "server" /\ Server!AnyClient /\ UNCHANGED <<part, notServerAuth>>
    \/ part = "wallet" /\ Wallet!Next /\ UNCHANGED <<part, notUserAuth>>
    \/ part = "mismatch" /\ Changed!Next /\ UNCHANGED <<part, notUserAuth>>
    \/ part = "keys" /\ Lookup!Next /\ UNCHANGED <<part, notKeyAccess>>
    \/ part = "lists" /\ Listed!Next /\ UNCHANGED <<part, notKeyAccess>>
    \/ part = "includes" /\ Includes!Next /\ UNCHANGED <<part, notClientConfig>>
    \/ part = "tags" /\ Tags!Next /\ UNCHANGED <<part, notClientConfig>>
    \/ part = "conffiles" /\ ConfFiles!Next /\ UNCHANGED <<part, notClientConfig>>
    \/ part = "overrides" /\ Overrides!Next /\ UNCHANGED <<part, notClientConfig>>
    \/ part = "sshdconf" /\ SshdConf!Next /\ UNCHANGED <<part, notServerConfig>>
    \/ part = "sshdlists" /\ SshdLists!Next /\ UNCHANGED <<part, notServerConfig>>
    \/ part = "auth" /\ Auth!Next /\ UNCHANGED <<part, notAuthMessages>>
    \/ part = "frames" /\ Frame!Next /\ UNCHANGED <<part, notFrames>>
    \/ part = "packets" /\ Packets!Next /\ UNCHANGED <<part, notFrames>>

vars == <<part, lock, inner, relays, stash, wire, out, pc, got, peer, ch, sessions,
    inbox, draining, nomore, dead, view, lis, at, joining, file, world, step,
    creds, root, pam, account, told, kind, started, env, left, pipe, life,
    pumps, tx, sent, tail, loop, exited, result, sv, la, reply, answered,
    refusals, cl, toServer, toClient, sigAlgs, offered, policy, disk, mode,
    command, now, keyCache, commandCache, accepted, last, attempts, lines,
    ctx, pos, blocks, guards, atInclude, ignore, stage, global, current, msg,
    body, fate>>
Spec == Init /\ [][Next]_vars

-----------------------------------------------------------------------------
\* Threads that share a client: one of them waits on the transport, no byte is
\* lost or overtaken on its way to a reader, and a request gets its own answer.
SharedInOrder ==
    /\ part = "session" => Session!SharedInOrder
    /\ part = "open" => Opening!SharedInOrder
    /\ part = "global" => Global!SharedInOrder
    /\ part = "incoming" => Offered!SharedInOrder

\* A session channel runs one program in its life, the forced one where one is
\* forced; programs run on no more channels than MaxSessions, which counts
\* exactly the channels that are open.
SessionsKept ==
    /\ part = "streams" => Streamed!SessionsKept
    /\ part = "forced" => Forced!SessionsKept
    /\ part = "cert" => Certified!SessionsKept

\* A connection that is gone has left no listener behind; while it lasts, its
\* sockets stay in place, but for one that was bound while an earlier binding of
\* its path was being dropped, are no more than its limit and no wider than
\* allowed.
ListenersKept ==
    /\ part = "listeners" => Listening!ListenersKept
    /\ part = "displays" => Displays!ListenersKept

\* Nothing runs but with exactly the rights of the user, in the jail, and no
\* layer of the environment overrides one that ranks above it.
RunsAsUser == part = "login" => Login!RunsAsUser /\ Login!EnvironmentRanks

\* The exit status follows all output of a program without a terminal, and
\* output that was cut is never reported with success.
StatusLast == part = "login" => Login!StatusLast /\ Login!CutNotSuccess

\* The logins by themselves.
LoginSpec == Init /\ part = "login" /\ [][Next]_vars

\* What a program wrote to its terminal before it exited is sent.
TerminalFlushed == part = "login" => Login!TerminalFlushed

\* Nobody is let in but by a complete chain of the policy of the one name the
\* connection used, each factor answered as a success, with the restrictions of
\* every key that earned it, and failures are bounded; a client that holds the
\* factors of a chain is let in, and types nothing to a host whose key changed.
LetInByChain ==
    /\ part = "server" => /\ Server!LetInByChain /\ Server!KeysDistinct
                          /\ Server!CapsOfEveryKey /\ Server!RefusalsBounded
    /\ part = "wallet" => Wallet!EnoughIsEnough
    /\ part = "mismatch" => Changed!NothingTypedAfterMismatch

\* A key is accepted on a line, and with the options of the line, that lists
\* it, if nothing of it is revoked; the account lists decide whatever the key.
AcceptedOnItsLine ==
    /\ part = "keys" => Lookup!AcceptedOnItsLine /\ Lookup!NothingRevoked
    /\ part = "lists" => Listed!ListsDecide


\* What was written is what is read; a message that lost its end or has
\* something behind it is refused, or read as if nothing were behind it; none
\* is taken for another, and no signature serves two requests.
RoundTrip ==
    /\ part = "auth" => /\ Auth!RoundTrip /\ Auth!AllOrNothing
                        /\ Auth!Unmistakable /\ Auth!SignatureBinds
    /\ part = "frames" => Frame!RoundTrip /\ Frame!AllOrNothing
    /\ part = "packets" => Packets!RoundTrip /\ Packets!AllOrNothing
=============================================================================
