------------------------------- MODULE MCLive -------------------------------
(***************************************************************************)
(* Small instances of a connection and of the programs for the properties  *)
(* about what must happen, of which `part' says the one that runs: the     *)
(* transport, its channels, the threads that share a client, masters and   *)
(* their splices, the dialling of a knocking client, transfers, copies by  *)
(* scp, forwarded sockets, and the listening daemon.                       *)
(***************************************************************************)
EXTENDS Integers, Sequences, TLC

CONSTANTS Unused

VARIABLES
    part, drv, fe, batch, pings, sent, got, conn, app, wire, opens, left, err,
    lock, inner, relays, stash, out, pc, peer, file, st, at, ms, removed, live, idle,
    reaper, rounds, env, gone, input, stdin, up, taken, eofSent, tin, outq,
    errq, nout, nerr, remote, main, terr, down, code, client, mode, tcp,
    knock, result, usable, len, stored, req, rep, received, sink, next,
    written, eof, nextId, faults, least, lis, joining, sigchld, reloads,
    reloadAsked, shutdown, now, incoming, children, penalties, state, authed,
    pipe, status, logins, utmp, punished, from, src, dst, mid, stage, todo,
    work, bad, spc, cur, fwd, back, rpc, stack, times, one, rres, cut, budget

Work(kind, ch) == [kind |-> kind, ch |-> ch]
SessionJobs == [r |-> Work("read", 1), e |-> Work("stderr", 1), c |-> Work("close", 1)]
OfferJobs == [i |-> Work("relay", 3), s |-> Work("ship", 3), h |-> Work("handler", 3), p |-> Work("pump", 0)]
Sends == (0 :> [GlobalRequest |-> 0]) @@
         (1 :> [Data |-> 1, Stderr |-> 1, Adjust |-> 0, Exit |-> 0, Eof |-> 1, Close |-> 1]) @@
         (2 :> [Close |-> 1])
Offers == (0 :> [GlobalRequest |-> 0]) @@
          (3 :> [Open |-> 2, Data |-> 1, Stderr |-> 0, Adjust |-> 0, Exit |-> 0, Eof |-> 1, Close |-> 1])
Roles == {"client", "server"}
Sides == {"c", "s"}
NoPenalty == [k \in {"authfail", "noauth", "crash"} |-> 0]

\* What scp is asked to copy: a tree d with a directory in it, and a file b.
CopyOrder == [x \in {"-x", "a", "b", "d", "f", "g"} |->
                 CASE x = "-x" -> 0 [] x = "a" -> 1 [] x = "b" -> 2 [] x = "d" -> 3 [] x = "f" -> 4 [] x = "g" -> 5]
ScpDir(w) == [t |-> "dir", w |-> w, data |-> <<>>, time |-> 1]
ScpFile(d) == [t |-> "file", w |-> TRUE, data |-> d, time |-> 1]
ScpOther(t) == [t |-> t, w |-> TRUE, data |-> <<>>, time |-> 1]
ScpTree(files) == (<<>> :> ScpDir(TRUE)) @@ files
TreeD(w) == (<<"d">> :> ScpDir(TRUE)) @@ (<<"d", "f">> :> [ScpFile(<<1, 2, 3>>) EXCEPT !.time = 2])
            @@ (<<"d", "g">> :> ScpDir(w)) @@ (<<"d", "g", "f">> :> ScpFile(<<3>>))
FileB == <<"b">> :> ScpFile(<<4>>)
WithPipe == (<<"d">> :> ScpDir(TRUE)) @@ (<<"d", "f">> :> ScpOther("pipe")) @@ (<<"d", "g">> :> ScpFile(<<3>>))
TargetDir == ScpTree(<<"t">> :> ScpDir(TRUE))
Copy == [way |-> "up", proto |-> "legacy", recursive |-> TRUE, preserve |-> FALSE, many |-> FALSE,
         sources |-> <<<<"d">>>>, target |-> <<"t">>, isFile |-> FALSE, src |-> ScpTree(TreeD(TRUE) @@ FileB),
         dst |-> TargetDir, badNames |-> {"-x"}, unreadable |-> {}, asked |-> {}, expected |-> "", cap |-> 9,
         order |-> CopyOrder, faults |-> [disk |-> 0, cut |-> 0, source |-> 0]]
CopyTwo == [Copy EXCEPT !.sources = <<<<"b">>, <<"d">>>>, !.many = TRUE]
BothProtocols == {"legacy", "sftp"}
CopySetups ==
    {[Copy EXCEPT !.way = w, !.proto = p, !.faults.cut = 1] : w \in {"up", "down", "cross"}, p \in BothProtocols}
    \cup {[Copy EXCEPT !.proto = p, !.way = w, !.faults.source = 1] : w \in {"up", "down", "cross"}, p \in BothProtocols}
    \cup {[CopyTwo EXCEPT !.proto = p, !.preserve = v, !.faults = [disk |-> 1, cut |-> 1, source |-> 0],
                          !.src = ScpTree(s @@ FileB), !.dst = t] :
             p \in BothProtocols, v \in BOOLEAN, s \in {TreeD(FALSE), WithPipe},
             t \in {TargetDir, ScpTree(<<"t">> :> ScpFile(<<7>>))}}
    \cup {[Copy EXCEPT !.recursive = FALSE, !.sources = <<<<"b">>>>, !.way = w, !.expected = "b", !.faults.source = 1,
                       !.dst = ScpTree((<<"t">> :> ScpDir(TRUE)) @@ (<<"t", "b">> :> n))] :
             w \in {"up", "down"}, n \in {ScpFile(<<7, 7>>), ScpOther("link"), ScpDir(TRUE)}}
    \cup {[Copy EXCEPT !.dst = ScpTree(<<"a">> :> ScpDir(TRUE)), !.target = t, !.isFile = TRUE, !.proto = p,
                       !.recursive = v, !.asked = {n}] :
             p \in BothProtocols, v \in BOOLEAN, t \in {<<"t">>, <<"g", "t">>}, n \in {"d", "a"}}
    \cup {[Copy EXCEPT !.src = ScpTree(WithPipe @@ (<<"d", "-x">> :> ScpFile(<<1>>))), !.proto = p, !.unreadable = u,
                       !.faults.disk = 1] : p \in BothProtocols, u \in {{}, {<<"d", "g">>}, {<<"d">>}}}
    \cup {[Copy EXCEPT !.sources = <<<<"b">>>>, !.cap = 0]}

-----------------------------------------------------------------------------
Wire == INSTANCE Transport WITH Compression <- "zlib", SeqMod <- 16,
    MaxSeq <- 4, Gex <- FALSE, StrictKex <- TRUE, MaxDeferredOut <- 8,
    MaxDeferredIn <- 8, TimeLimit <- {"postauth"}, MaxKex <- 2, MaxSent <- 3,
    MaxPings <- 0, Disconnects <- FALSE, UserRekeys <- TRUE
Flow == INSTANCE Channels WITH IdMod <- 1, Window <- 4, MaxPacket <- 14,
    MaxChannels <- 1, MaxOpens <- 1, ClientBytes <- 1, ServerBytes <- 5,
    MaxWrite <- 2, MaxInFlight <- 1, Forwards <- FALSE, Extended <- FALSE,
    ChannelTimeout <- FALSE
Readers == INSTANCE SharedClient WITH Threads <- DOMAIN SessionJobs,
    Job <- SessionJobs, Opened <- {1}, Script <- Sends, MaxInFlight <- 2,
    Incoming <- {}, Wanted <- {}, Backlog <- 1, Answers <- 0
Relayed == INSTANCE SharedClient WITH Threads <- DOMAIN OfferJobs,
    Job <- OfferJobs, Opened <- {}, Script <- Offers, MaxInFlight <- 1,
    Incoming <- {3}, Wanted <- {3}, Backlog <- 1, Answers <- 1
Masters == INSTANCE Mux WITH Procs <- {"a"}, Env <- [p \in {"a"} |-> "LANG"],
    Linger <- 2, Faults <- {"stale", "lost", "exit", "crash"}
Session == INSTANCE MuxSplice WITH Kind <- "session", MaxOut <- 1,
    MaxErr <- 1, MaxIn <- 1, LocalWaits <- FALSE
Forward == INSTANCE MuxSplice WITH Kind <- "forward", MaxOut <- 2,
    MaxErr <- 1, MaxIn <- 2, LocalWaits <- FALSE
Waiting == INSTANCE MuxSplice WITH Kind <- "forward", MaxOut <- 1,
    MaxErr <- 0, MaxIn <- 1, LocalWaits <- TRUE
Dial == INSTANCE KnockDial WITH Addresses <- 2,
    Modes <- {"never", "auto", "always"}
Reads == INSTANCE SftpTransfer WITH Op <- "read", Offset <- 1, Chunk <- 2,
    Depth <- 2, FileLen <- 7, MaxLen <- 7, MaxFaults <- 1, Changes <- {}
Writes == INSTANCE SftpTransfer WITH Op <- "write", Offset <- 1, Chunk <- 2,
    Depth <- 2, FileLen <- 5, MaxLen <- 5, MaxFaults <- 1, Changes <- {}
Served == INSTANCE Listeners WITH Conns <- {"c1"}, Sessions <- {"s1"},
    Kinds <- {"agent", "x11", "streamlocal"}, Addrs <- {"any"}, Ports <- {1},
    Paths <- {"p1"}, Gateway <- "clientspecified", LocalOnly <- FALSE,
    Unlink <- FALSE, Single <- TRUE, Cap <- 2, MaxListeners <- 2,
    MayCancel <- TRUE, MayLeave <- TRUE, None <- Unused
Listening == INSTANCE Daemon WITH Conns <- {"x", "y"},
    IpOf <- [c \in {"x", "y"} |-> "near"], MaxStartups <- 1, EarlyStart <- 1,
    EarlyRate <- 50, PerSourceMax <- 2, Penalty <- NoPenalty,
    PenaltyMin <- 1, PenaltyMax <- 2, MaxSources <- 1,
    OverflowDenyAll <- TRUE, PipeFails <- TRUE, Reloads <- 0, MaxTime <- 0,
    MaxLogins <- 0
Copying == INSTANCE Scp WITH Setups <- CopySetups, Pipe <- 2

\* The variables that a model does not have, which hold Unused while it runs.
notTransport == <<conn, app, wire, opens, left, err, lock, inner, relays, stash, out,
    pc, peer, file, st, at, ms, removed, live, idle, reaper, rounds, env,
    gone, input, stdin, up, taken, eofSent, tin, outq, errq, nout, nerr,
    remote, main, terr, down, code, client, mode, tcp, knock, result, usable,
    len, stored, req, rep, received, sink, next, written, eof, nextId, faults,
    least, lis, joining, sigchld, reloads, reloadAsked, shutdown, now,
    incoming, children, penalties, state, authed, pipe, status, logins, utmp,
    punished, from, src, dst, mid, stage, todo, work, bad, spc, cur, fwd,
    back, rpc, stack, times, one, rres, cut, budget>>
OnlyTransport ==
    /\ conn = Unused /\ app = Unused /\ wire = Unused /\ opens = Unused
    /\ left = Unused /\ err = Unused /\ lock = Unused /\ inner = Unused /\ relays = Unused
    /\ stash = Unused /\ out = Unused /\ pc = Unused /\ peer = Unused
    /\ file = Unused /\ st = Unused /\ at = Unused /\ ms = Unused
    /\ removed = Unused /\ live = Unused /\ idle = Unused /\ reaper = Unused
    /\ rounds = Unused /\ env = Unused /\ gone = Unused /\ input = Unused
    /\ stdin = Unused /\ up = Unused /\ taken = Unused /\ eofSent = Unused
    /\ tin = Unused /\ outq = Unused /\ errq = Unused /\ nout = Unused
    /\ nerr = Unused /\ remote = Unused /\ main = Unused /\ terr = Unused
    /\ down = Unused /\ code = Unused /\ client = Unused /\ mode = Unused
    /\ tcp = Unused /\ knock = Unused /\ result = Unused /\ usable = Unused
    /\ len = Unused /\ stored = Unused /\ req = Unused /\ rep = Unused
    /\ received = Unused /\ sink = Unused /\ next = Unused
    /\ written = Unused /\ eof = Unused /\ nextId = Unused /\ faults = Unused
    /\ least = Unused /\ lis = Unused /\ joining = Unused /\ sigchld = Unused
    /\ reloads = Unused /\ reloadAsked = Unused /\ shutdown = Unused
    /\ now = Unused /\ incoming = Unused /\ children = Unused
    /\ penalties = Unused /\ state = Unused /\ authed = Unused
    /\ pipe = Unused /\ status = Unused /\ logins = Unused /\ utmp = Unused
    /\ punished = Unused /\ from = Unused /\ src = Unused /\ dst = Unused
    /\ mid = Unused /\ stage = Unused /\ todo = Unused /\ work = Unused
    /\ bad = Unused /\ spc = Unused /\ cur = Unused /\ fwd = Unused
    /\ back = Unused /\ rpc = Unused /\ stack = Unused /\ times = Unused
    /\ one = Unused /\ rres = Unused /\ cut = Unused /\ budget = Unused
notChannels == <<drv, fe, batch, pings, sent, got, lock, inner, relays, stash, out,
    pc, peer, file, st, at, ms, removed, live, idle, reaper, rounds, env,
    gone, input, stdin, up, taken, eofSent, tin, outq, errq, nout, nerr,
    remote, main, terr, down, code, client, mode, tcp, knock, result, usable,
    len, stored, req, rep, received, sink, next, written, eof, nextId, faults,
    least, lis, joining, sigchld, reloads, reloadAsked, shutdown, now,
    incoming, children, penalties, state, authed, pipe, status, logins, utmp,
    punished, from, src, dst, mid, stage, todo, work, bad, spc, cur, fwd,
    back, rpc, stack, times, one, rres, cut, budget>>
OnlyChannels ==
    /\ drv = Unused /\ fe = Unused /\ batch = Unused /\ pings = Unused
    /\ sent = Unused /\ got = Unused /\ lock = Unused /\ inner = Unused /\ relays = Unused
    /\ stash = Unused /\ out = Unused /\ pc = Unused /\ peer = Unused
    /\ file = Unused /\ st = Unused /\ at = Unused /\ ms = Unused
    /\ removed = Unused /\ live = Unused /\ idle = Unused /\ reaper = Unused
    /\ rounds = Unused /\ env = Unused /\ gone = Unused /\ input = Unused
    /\ stdin = Unused /\ up = Unused /\ taken = Unused /\ eofSent = Unused
    /\ tin = Unused /\ outq = Unused /\ errq = Unused /\ nout = Unused
    /\ nerr = Unused /\ remote = Unused /\ main = Unused /\ terr = Unused
    /\ down = Unused /\ code = Unused /\ client = Unused /\ mode = Unused
    /\ tcp = Unused /\ knock = Unused /\ result = Unused /\ usable = Unused
    /\ len = Unused /\ stored = Unused /\ req = Unused /\ rep = Unused
    /\ received = Unused /\ sink = Unused /\ next = Unused
    /\ written = Unused /\ eof = Unused /\ nextId = Unused /\ faults = Unused
    /\ least = Unused /\ lis = Unused /\ joining = Unused /\ sigchld = Unused
    /\ reloads = Unused /\ reloadAsked = Unused /\ shutdown = Unused
    /\ now = Unused /\ incoming = Unused /\ children = Unused
    /\ penalties = Unused /\ state = Unused /\ authed = Unused
    /\ pipe = Unused /\ status = Unused /\ logins = Unused /\ utmp = Unused
    /\ punished = Unused /\ from = Unused /\ src = Unused /\ dst = Unused
    /\ mid = Unused /\ stage = Unused /\ todo = Unused /\ work = Unused
    /\ bad = Unused /\ spc = Unused /\ cur = Unused /\ fwd = Unused
    /\ back = Unused /\ rpc = Unused /\ stack = Unused /\ times = Unused
    /\ one = Unused /\ rres = Unused /\ cut = Unused /\ budget = Unused
notSharedClient == <<drv, fe, batch, pings, sent, conn, app, opens, left, err,
    file, st, at, ms, removed, live, idle, reaper, rounds, env, gone, input,
    stdin, up, taken, eofSent, tin, outq, errq, nout, nerr, remote, main,
    terr, down, code, client, mode, tcp, knock, result, usable, len, stored,
    req, rep, received, sink, next, written, eof, nextId, faults, least, lis,
    joining, sigchld, reloads, reloadAsked, shutdown, now, incoming, children,
    penalties, state, authed, pipe, status, logins, utmp, punished, from, src,
    dst, mid, stage, todo, work, bad, spc, cur, fwd, back, rpc, stack, times,
    one, rres, cut, budget>>
OnlySharedClient ==
    /\ drv = Unused /\ fe = Unused /\ batch = Unused /\ pings = Unused
    /\ sent = Unused /\ conn = Unused /\ app = Unused /\ opens = Unused
    /\ left = Unused /\ err = Unused /\ file = Unused /\ st = Unused
    /\ at = Unused /\ ms = Unused /\ removed = Unused /\ live = Unused
    /\ idle = Unused /\ reaper = Unused /\ rounds = Unused /\ env = Unused
    /\ gone = Unused /\ input = Unused /\ stdin = Unused /\ up = Unused
    /\ taken = Unused /\ eofSent = Unused /\ tin = Unused /\ outq = Unused
    /\ errq = Unused /\ nout = Unused /\ nerr = Unused /\ remote = Unused
    /\ main = Unused /\ terr = Unused /\ down = Unused /\ code = Unused
    /\ client = Unused /\ mode = Unused /\ tcp = Unused /\ knock = Unused
    /\ result = Unused /\ usable = Unused /\ len = Unused /\ stored = Unused
    /\ req = Unused /\ rep = Unused /\ received = Unused /\ sink = Unused
    /\ next = Unused /\ written = Unused /\ eof = Unused /\ nextId = Unused
    /\ faults = Unused /\ least = Unused /\ lis = Unused /\ joining = Unused
    /\ sigchld = Unused /\ reloads = Unused /\ reloadAsked = Unused
    /\ shutdown = Unused /\ now = Unused /\ incoming = Unused
    /\ children = Unused /\ penalties = Unused /\ state = Unused
    /\ authed = Unused /\ pipe = Unused /\ status = Unused /\ logins = Unused
    /\ utmp = Unused /\ punished = Unused /\ from = Unused /\ src = Unused
    /\ dst = Unused /\ mid = Unused /\ stage = Unused /\ todo = Unused
    /\ work = Unused /\ bad = Unused /\ spc = Unused /\ cur = Unused
    /\ fwd = Unused /\ back = Unused /\ rpc = Unused /\ stack = Unused
    /\ times = Unused /\ one = Unused /\ rres = Unused /\ cut = Unused
    /\ budget = Unused
notMux == <<drv, fe, batch, pings, got, conn, app, wire, opens, err, lock,
    inner, relays, stash, out, pc, peer, input, stdin, up, taken, eofSent, tin, outq,
    errq, nout, nerr, remote, main, terr, down, code, client, mode, tcp,
    knock, result, usable, len, stored, req, rep, received, sink, next,
    written, eof, nextId, faults, least, lis, joining, sigchld, reloads,
    reloadAsked, shutdown, now, incoming, children, penalties, state, authed,
    pipe, status, logins, utmp, punished, from, src, dst, mid, stage, todo,
    work, bad, spc, cur, fwd, back, rpc, stack, times, one, rres, cut,
    budget>>
OnlyMux ==
    /\ drv = Unused /\ fe = Unused /\ batch = Unused /\ pings = Unused
    /\ got = Unused /\ conn = Unused /\ app = Unused /\ wire = Unused
    /\ opens = Unused /\ err = Unused /\ lock = Unused /\ inner = Unused /\ relays = Unused
    /\ stash = Unused /\ out = Unused /\ pc = Unused /\ peer = Unused
    /\ input = Unused /\ stdin = Unused /\ up = Unused /\ taken = Unused
    /\ eofSent = Unused /\ tin = Unused /\ outq = Unused /\ errq = Unused
    /\ nout = Unused /\ nerr = Unused /\ remote = Unused /\ main = Unused
    /\ terr = Unused /\ down = Unused /\ code = Unused /\ client = Unused
    /\ mode = Unused /\ tcp = Unused /\ knock = Unused /\ result = Unused
    /\ usable = Unused /\ len = Unused /\ stored = Unused /\ req = Unused
    /\ rep = Unused /\ received = Unused /\ sink = Unused /\ next = Unused
    /\ written = Unused /\ eof = Unused /\ nextId = Unused /\ faults = Unused
    /\ least = Unused /\ lis = Unused /\ joining = Unused /\ sigchld = Unused
    /\ reloads = Unused /\ reloadAsked = Unused /\ shutdown = Unused
    /\ now = Unused /\ incoming = Unused /\ children = Unused
    /\ penalties = Unused /\ state = Unused /\ authed = Unused
    /\ pipe = Unused /\ status = Unused /\ logins = Unused /\ utmp = Unused
    /\ punished = Unused /\ from = Unused /\ src = Unused /\ dst = Unused
    /\ mid = Unused /\ stage = Unused /\ todo = Unused /\ work = Unused
    /\ bad = Unused /\ spc = Unused /\ cur = Unused /\ fwd = Unused
    /\ back = Unused /\ rpc = Unused /\ stack = Unused /\ times = Unused
    /\ one = Unused /\ rres = Unused /\ cut = Unused /\ budget = Unused
notMuxSplice == <<drv, fe, batch, pings, sent, conn, app, wire, opens, left,
    err, lock, inner, relays, stash, out, pc, peer, file, st, at, ms, removed, live,
    idle, reaper, rounds, env, gone, mode, tcp, knock, result, usable, len,
    stored, req, rep, received, sink, next, written, eof, nextId, faults,
    least, lis, joining, sigchld, reloads, reloadAsked, shutdown, now,
    incoming, children, penalties, state, authed, pipe, status, logins, utmp,
    punished, from, src, dst, mid, stage, todo, work, bad, spc, cur, fwd,
    back, rpc, stack, times, one, rres, cut, budget>>
OnlyMuxSplice ==
    /\ drv = Unused /\ fe = Unused /\ batch = Unused /\ pings = Unused
    /\ sent = Unused /\ conn = Unused /\ app = Unused /\ wire = Unused
    /\ opens = Unused /\ left = Unused /\ err = Unused /\ lock = Unused
    /\ inner = Unused /\ relays = Unused /\ stash = Unused /\ out = Unused /\ pc = Unused
    /\ peer = Unused /\ file = Unused /\ st = Unused /\ at = Unused
    /\ ms = Unused /\ removed = Unused /\ live = Unused /\ idle = Unused
    /\ reaper = Unused /\ rounds = Unused /\ env = Unused /\ gone = Unused
    /\ mode = Unused /\ tcp = Unused /\ knock = Unused /\ result = Unused
    /\ usable = Unused /\ len = Unused /\ stored = Unused /\ req = Unused
    /\ rep = Unused /\ received = Unused /\ sink = Unused /\ next = Unused
    /\ written = Unused /\ eof = Unused /\ nextId = Unused /\ faults = Unused
    /\ least = Unused /\ lis = Unused /\ joining = Unused /\ sigchld = Unused
    /\ reloads = Unused /\ reloadAsked = Unused /\ shutdown = Unused
    /\ now = Unused /\ incoming = Unused /\ children = Unused
    /\ penalties = Unused /\ state = Unused /\ authed = Unused
    /\ pipe = Unused /\ status = Unused /\ logins = Unused /\ utmp = Unused
    /\ punished = Unused /\ from = Unused /\ src = Unused /\ dst = Unused
    /\ mid = Unused /\ stage = Unused /\ todo = Unused /\ work = Unused
    /\ bad = Unused /\ spc = Unused /\ cur = Unused /\ fwd = Unused
    /\ back = Unused /\ rpc = Unused /\ stack = Unused /\ times = Unused
    /\ one = Unused /\ rres = Unused /\ cut = Unused /\ budget = Unused
notKnockDial == <<drv, fe, batch, pings, sent, got, conn, app, wire, opens,
    left, err, lock, inner, relays, stash, out, peer, file, st, ms, removed, live,
    idle, reaper, rounds, env, gone, input, stdin, up, eofSent, tin, outq,
    errq, nout, nerr, remote, main, terr, down, code, client, len, stored,
    req, rep, received, sink, next, written, eof, nextId, faults, least, lis,
    joining, sigchld, reloads, reloadAsked, shutdown, now, incoming, children,
    penalties, state, authed, pipe, status, logins, utmp, punished, from, src,
    dst, mid, stage, todo, work, bad, spc, cur, fwd, back, rpc, stack, times,
    one, rres, cut, budget>>
OnlyKnockDial ==
    /\ drv = Unused /\ fe = Unused /\ batch = Unused /\ pings = Unused
    /\ sent = Unused /\ got = Unused /\ conn = Unused /\ app = Unused
    /\ wire = Unused /\ opens = Unused /\ left = Unused /\ err = Unused
    /\ lock = Unused /\ inner = Unused /\ relays = Unused /\ stash = Unused /\ out = Unused
    /\ peer = Unused /\ file = Unused /\ st = Unused /\ ms = Unused
    /\ removed = Unused /\ live = Unused /\ idle = Unused /\ reaper = Unused
    /\ rounds = Unused /\ env = Unused /\ gone = Unused /\ input = Unused
    /\ stdin = Unused /\ up = Unused /\ eofSent = Unused /\ tin = Unused
    /\ outq = Unused /\ errq = Unused /\ nout = Unused /\ nerr = Unused
    /\ remote = Unused /\ main = Unused /\ terr = Unused /\ down = Unused
    /\ code = Unused /\ client = Unused /\ len = Unused /\ stored = Unused
    /\ req = Unused /\ rep = Unused /\ received = Unused /\ sink = Unused
    /\ next = Unused /\ written = Unused /\ eof = Unused /\ nextId = Unused
    /\ faults = Unused /\ least = Unused /\ lis = Unused /\ joining = Unused
    /\ sigchld = Unused /\ reloads = Unused /\ reloadAsked = Unused
    /\ shutdown = Unused /\ now = Unused /\ incoming = Unused
    /\ children = Unused /\ penalties = Unused /\ state = Unused
    /\ authed = Unused /\ pipe = Unused /\ status = Unused /\ logins = Unused
    /\ utmp = Unused /\ punished = Unused /\ from = Unused /\ src = Unused
    /\ dst = Unused /\ mid = Unused /\ stage = Unused /\ todo = Unused
    /\ work = Unused /\ bad = Unused /\ spc = Unused /\ cur = Unused
    /\ fwd = Unused /\ back = Unused /\ rpc = Unused /\ stack = Unused
    /\ times = Unused /\ one = Unused /\ rres = Unused /\ cut = Unused
    /\ budget = Unused
notSftpTransfer == <<drv, fe, batch, pings, sent, got, conn, app, wire, opens,
    err, lock, inner, relays, stash, peer, file, st, at, ms, removed, live, idle,
    reaper, rounds, env, gone, input, stdin, up, taken, eofSent, tin, outq,
    errq, nout, nerr, remote, main, terr, down, code, client, mode, tcp,
    knock, result, usable, lis, joining, sigchld, reloads, reloadAsked,
    shutdown, now, incoming, children, penalties, state, authed, pipe, status,
    logins, utmp, punished, from, src, dst, mid, stage, todo, work, bad, spc,
    cur, fwd, back, rpc, stack, times, one, rres, cut, budget>>
OnlySftpTransfer ==
    /\ drv = Unused /\ fe = Unused /\ batch = Unused /\ pings = Unused
    /\ sent = Unused /\ got = Unused /\ conn = Unused /\ app = Unused
    /\ wire = Unused /\ opens = Unused /\ err = Unused /\ lock = Unused
    /\ inner = Unused /\ relays = Unused /\ stash = Unused /\ peer = Unused /\ file = Unused
    /\ st = Unused /\ at = Unused /\ ms = Unused /\ removed = Unused
    /\ live = Unused /\ idle = Unused /\ reaper = Unused /\ rounds = Unused
    /\ env = Unused /\ gone = Unused /\ input = Unused /\ stdin = Unused
    /\ up = Unused /\ taken = Unused /\ eofSent = Unused /\ tin = Unused
    /\ outq = Unused /\ errq = Unused /\ nout = Unused /\ nerr = Unused
    /\ remote = Unused /\ main = Unused /\ terr = Unused /\ down = Unused
    /\ code = Unused /\ client = Unused /\ mode = Unused /\ tcp = Unused
    /\ knock = Unused /\ result = Unused /\ usable = Unused /\ lis = Unused
    /\ joining = Unused /\ sigchld = Unused /\ reloads = Unused
    /\ reloadAsked = Unused /\ shutdown = Unused /\ now = Unused
    /\ incoming = Unused /\ children = Unused /\ penalties = Unused
    /\ state = Unused /\ authed = Unused /\ pipe = Unused /\ status = Unused
    /\ logins = Unused /\ utmp = Unused /\ punished = Unused /\ from = Unused
    /\ src = Unused /\ dst = Unused /\ mid = Unused /\ stage = Unused
    /\ todo = Unused /\ work = Unused /\ bad = Unused /\ spc = Unused
    /\ cur = Unused /\ fwd = Unused /\ back = Unused /\ rpc = Unused
    /\ stack = Unused /\ times = Unused /\ one = Unused /\ rres = Unused
    /\ cut = Unused /\ budget = Unused
notListeners == <<drv, fe, batch, pings, sent, got, conn, app, wire, opens,
    left, err, lock, inner, relays, stash, out, pc, peer, st, ms, removed, live, idle,
    reaper, rounds, env, gone, input, stdin, up, taken, eofSent, tin, outq,
    errq, nout, nerr, remote, main, terr, down, code, client, mode, tcp,
    knock, result, usable, len, stored, req, rep, received, sink, next,
    written, eof, nextId, faults, least, sigchld, reloads, reloadAsked,
    shutdown, now, incoming, children, penalties, state, authed, pipe, status,
    logins, utmp, punished, from, src, dst, mid, stage, todo, work, bad, spc,
    cur, fwd, back, rpc, stack, times, one, rres, cut, budget>>
OnlyListeners ==
    /\ drv = Unused /\ fe = Unused /\ batch = Unused /\ pings = Unused
    /\ sent = Unused /\ got = Unused /\ conn = Unused /\ app = Unused
    /\ wire = Unused /\ opens = Unused /\ left = Unused /\ err = Unused
    /\ lock = Unused /\ inner = Unused /\ relays = Unused /\ stash = Unused /\ out = Unused
    /\ pc = Unused /\ peer = Unused /\ st = Unused /\ ms = Unused
    /\ removed = Unused /\ live = Unused /\ idle = Unused /\ reaper = Unused
    /\ rounds = Unused /\ env = Unused /\ gone = Unused /\ input = Unused
    /\ stdin = Unused /\ up = Unused /\ taken = Unused /\ eofSent = Unused
    /\ tin = Unused /\ outq = Unused /\ errq = Unused /\ nout = Unused
    /\ nerr = Unused /\ remote = Unused /\ main = Unused /\ terr = Unused
    /\ down = Unused /\ code = Unused /\ client = Unused /\ mode = Unused
    /\ tcp = Unused /\ knock = Unused /\ result = Unused /\ usable = Unused
    /\ len = Unused /\ stored = Unused /\ req = Unused /\ rep = Unused
    /\ received = Unused /\ sink = Unused /\ next = Unused
    /\ written = Unused /\ eof = Unused /\ nextId = Unused /\ faults = Unused
    /\ least = Unused /\ sigchld = Unused /\ reloads = Unused
    /\ reloadAsked = Unused /\ shutdown = Unused /\ now = Unused
    /\ incoming = Unused /\ children = Unused /\ penalties = Unused
    /\ state = Unused /\ authed = Unused /\ pipe = Unused /\ status = Unused
    /\ logins = Unused /\ utmp = Unused /\ punished = Unused /\ from = Unused
    /\ src = Unused /\ dst = Unused /\ mid = Unused /\ stage = Unused
    /\ todo = Unused /\ work = Unused /\ bad = Unused /\ spc = Unused
    /\ cur = Unused /\ fwd = Unused /\ back = Unused /\ rpc = Unused
    /\ stack = Unused /\ times = Unused /\ one = Unused /\ rres = Unused
    /\ cut = Unused /\ budget = Unused
notDaemon == <<drv, fe, batch, pings, sent, got, conn, app, wire, opens, left,
    err, lock, inner, relays, stash, out, peer, file, st, at, ms, removed, live, idle,
    reaper, rounds, env, gone, input, stdin, up, taken, eofSent, tin, outq,
    errq, nout, nerr, remote, main, terr, down, code, client, mode, tcp,
    knock, result, usable, len, stored, req, rep, received, sink, next,
    written, eof, nextId, faults, least, lis, joining, from, src, dst, mid,
    stage, todo, work, bad, spc, cur, fwd, back, rpc, stack, times, one, rres,
    cut, budget>>
OnlyDaemon ==
    /\ drv = Unused /\ fe = Unused /\ batch = Unused /\ pings = Unused
    /\ sent = Unused /\ got = Unused /\ conn = Unused /\ app = Unused
    /\ wire = Unused /\ opens = Unused /\ left = Unused /\ err = Unused
    /\ lock = Unused /\ inner = Unused /\ relays = Unused /\ stash = Unused /\ out = Unused
    /\ peer = Unused /\ file = Unused /\ st = Unused /\ at = Unused
    /\ ms = Unused /\ removed = Unused /\ live = Unused /\ idle = Unused
    /\ reaper = Unused /\ rounds = Unused /\ env = Unused /\ gone = Unused
    /\ input = Unused /\ stdin = Unused /\ up = Unused /\ taken = Unused
    /\ eofSent = Unused /\ tin = Unused /\ outq = Unused /\ errq = Unused
    /\ nout = Unused /\ nerr = Unused /\ remote = Unused /\ main = Unused
    /\ terr = Unused /\ down = Unused /\ code = Unused /\ client = Unused
    /\ mode = Unused /\ tcp = Unused /\ knock = Unused /\ result = Unused
    /\ usable = Unused /\ len = Unused /\ stored = Unused /\ req = Unused
    /\ rep = Unused /\ received = Unused /\ sink = Unused /\ next = Unused
    /\ written = Unused /\ eof = Unused /\ nextId = Unused /\ faults = Unused
    /\ least = Unused /\ lis = Unused /\ joining = Unused /\ from = Unused
    /\ src = Unused /\ dst = Unused /\ mid = Unused /\ stage = Unused
    /\ todo = Unused /\ work = Unused /\ bad = Unused /\ spc = Unused
    /\ cur = Unused /\ fwd = Unused /\ back = Unused /\ rpc = Unused
    /\ stack = Unused /\ times = Unused /\ one = Unused /\ rres = Unused
    /\ cut = Unused /\ budget = Unused
notScp == <<drv, fe, batch, pings, got, conn, app, wire, opens, left, err,
    lock, inner, relays, stash, out, pc, peer, file, st, at, ms, removed, live, idle,
    reaper, rounds, env, gone, input, stdin, up, eofSent, tin, outq, errq,
    nout, nerr, remote, main, terr, down, code, client, mode, tcp, knock,
    result, usable, len, stored, req, rep, received, sink, next, written, eof,
    nextId, faults, least, lis, joining, sigchld, reloads, reloadAsked,
    shutdown, now, incoming, children, penalties, state, authed, pipe, status,
    logins, utmp, punished>>
OnlyScp ==
    /\ drv = Unused /\ fe = Unused /\ batch = Unused /\ pings = Unused
    /\ got = Unused /\ conn = Unused /\ app = Unused /\ wire = Unused
    /\ opens = Unused /\ left = Unused /\ err = Unused /\ lock = Unused
    /\ inner = Unused /\ relays = Unused /\ stash = Unused /\ out = Unused /\ pc = Unused
    /\ peer = Unused /\ file = Unused /\ st = Unused /\ at = Unused
    /\ ms = Unused /\ removed = Unused /\ live = Unused /\ idle = Unused
    /\ reaper = Unused /\ rounds = Unused /\ env = Unused /\ gone = Unused
    /\ input = Unused /\ stdin = Unused /\ up = Unused /\ eofSent = Unused
    /\ tin = Unused /\ outq = Unused /\ errq = Unused /\ nout = Unused
    /\ nerr = Unused /\ remote = Unused /\ main = Unused /\ terr = Unused
    /\ down = Unused /\ code = Unused /\ client = Unused /\ mode = Unused
    /\ tcp = Unused /\ knock = Unused /\ result = Unused /\ usable = Unused
    /\ len = Unused /\ stored = Unused /\ req = Unused /\ rep = Unused
    /\ received = Unused /\ sink = Unused /\ next = Unused
    /\ written = Unused /\ eof = Unused /\ nextId = Unused /\ faults = Unused
    /\ least = Unused /\ lis = Unused /\ joining = Unused /\ sigchld = Unused
    /\ reloads = Unused /\ reloadAsked = Unused /\ shutdown = Unused
    /\ now = Unused /\ incoming = Unused /\ children = Unused
    /\ penalties = Unused /\ state = Unused /\ authed = Unused
    /\ pipe = Unused /\ status = Unused /\ logins = Unused /\ utmp = Unused
    /\ punished = Unused

Init ==
    \/ part = "transport" /\ Wire!Init /\ OnlyTransport
    \/ part = "channels" /\ Flow!Init /\ OnlyChannels
    \/ part = "threads" /\ Readers!Init /\ OnlySharedClient
    \/ part = "relayed" /\ Relayed!Init /\ OnlySharedClient
    \/ part = "masters" /\ Masters!Init /\ OnlyMux
    \/ part = "session" /\ Session!Init /\ OnlyMuxSplice
    \/ part = "forward" /\ Forward!Init /\ OnlyMuxSplice
    \/ part = "waits" /\ Waiting!Init /\ OnlyMuxSplice
    \/ part = "dial" /\ Dial!Init /\ OnlyKnockDial
    \/ part = "read" /\ Reads!Init /\ OnlySftpTransfer
    \/ part = "write" /\ Writes!Init /\ OnlySftpTransfer
    \/ part = "served" /\ Served!Init /\ OnlyListeners
    \/ part = "daemon" /\ Listening!Init /\ OnlyDaemon
    \/ part = "scp" /\ Copying!Init /\ OnlyScp

Next ==
    \/ part = "transport" /\ Wire!Next /\ UNCHANGED <<part, notTransport>>
    \/ part = "channels" /\ Flow!Next /\ UNCHANGED <<part, notChannels>>
    \/ part = "threads" /\ Readers!Next /\ UNCHANGED <<part, notSharedClient>>
    \/ part = "relayed" /\ Relayed!Next /\ UNCHANGED <<part, notSharedClient>>
    \/ part = "masters" /\ Masters!Next /\ UNCHANGED <<part, notMux>>
    \/ part = "session" /\ Session!Next /\ UNCHANGED <<part, notMuxSplice>>
    \/ part = "forward" /\ Forward!Next /\ UNCHANGED <<part, notMuxSplice>>
    \/ part = "waits" /\ Waiting!Next /\ UNCHANGED <<part, notMuxSplice>>
    \/ part = "dial" /\ Dial!Next /\ UNCHANGED <<part, notKnockDial>>
    \/ part = "read" /\ Reads!Next /\ UNCHANGED <<part, notSftpTransfer>>
    \/ part = "write" /\ Writes!Next /\ UNCHANGED <<part, notSftpTransfer>>
    \/ part = "served" /\ Served!Next /\ UNCHANGED <<part, notListeners>>
    \/ part = "daemon" /\ Listening!Next /\ UNCHANGED <<part, notDaemon>>
    \/ part = "scp" /\ Copying!Next /\ UNCHANGED <<part, notScp>>

vars == <<part, drv, fe, batch, pings, sent, got, conn, app, wire, opens,
    left, err, lock, inner, relays, stash, out, pc, peer, file, st, at, ms, removed,
    live, idle, reaper, rounds, env, gone, input, stdin, up, taken, eofSent,
    tin, outq, errq, nout, nerr, remote, main, terr, down, code, client, mode,
    tcp, knock, result, usable, len, stored, req, rep, received, sink, next,
    written, eof, nextId, faults, least, lis, joining, sigchld, reloads,
    reloadAsked, shutdown, now, incoming, children, penalties, state, authed,
    pipe, status, logins, utmp, punished, from, src, dst, mid, stage, todo,
    work, bad, spc, cur, fwd, back, rpc, stack, times, one, rres, cut,
    budget>>

wireVars == Wire!vars
flowVars == Flow!vars
readersVars == Readers!vars
masters == Masters!vars
splice == Session!vars
dial == Dial!vars
transfer == Reads!vars
listeners == Served!vars
daemon == Listening!vars
copying == Copying!vars

\* Data arrives when the transport polls; nothing else hurries anybody: the programs read what is
\* there, write what they have, and answer a CLOSE.  A thread that asks for the mutex again and
\* again gets it (SF).  Threads run and clocks advance; callbacks return; sessions end at the server;
\* the local side of a forward closes its connection by itself, or, in part "waits", once it has seen
\* the end of the output; the operating system ends every connection attempt, and a knock has a time
\* limit; a server answers.
Fairness ==
    /\ \A r \in Roles : /\ WF_wireVars(part = "transport" /\ Wire!Start(r)) /\ WF_wireVars(part = "transport" /\ Wire!HandleInput(r))
                        /\ WF_wireVars(part = "transport" /\ Wire!Poll(r))
    /\ WF_wireVars(part = "transport" /\ Wire!ServerAuthenticates) /\ WF_wireVars(part = "transport" /\ Wire!ClientAuthenticated)
    /\ \A p \in Sides : /\ WF_flowVars(part = "channels" /\ Flow!Receive(p))
                        /\ WF_flowVars(part = "channels" /\ \E id \in Flow!Ids, n \in 1..2 : Flow!WriteData(p, id, n))
                        /\ WF_flowVars(part = "channels" /\ \E id \in Flow!Ids, k \in 1..4 : Flow!Consume(p, id, k))
                        /\ WF_flowVars(part = "channels" /\ \E id \in Flow!Ids : Flow!Close(p, id) /\ "remote" \in Flow!Chan(p, id).closed)
    /\ WF_readersVars(part = "threads" /\ Readers!Peer)
    /\ \A t \in DOMAIN SessionJobs : SF_readersVars(part = "threads" /\ Readers!Step(t))
    /\ WF_readersVars(part = "relayed" /\ Relayed!Peer) /\ WF_readersVars(part = "relayed" /\ Relayed!HandlerReturns("h"))
    /\ \A t \in {"i", "s", "p"} : SF_readersVars(part = "relayed" /\ Relayed!Step(t))
    /\ WF_masters(part = "masters" /\ Masters!Tick) /\ WF_masters(part = "masters" /\ Masters!ProcStep("a"))
    /\ WF_masters(part = "masters" /\ Masters!HandlerStep("a")) /\ WF_masters(part = "masters" /\ Masters!DaemonStep("a"))
    /\ WF_masters(part = "masters" /\ Masters!RemoteEnds("a"))
    /\ WF_splice(\/ part = "session" /\ Session!StdinThread
                 \/ part = "forward" /\ Forward!StdinThread
                 \/ part = "waits" /\ Waiting!StdinThread)
    /\ WF_splice(\/ part = "session" /\ Session!ControlThread
                 \/ part = "forward" /\ Forward!ControlThread
                 \/ part = "waits" /\ Waiting!ControlThread)
    /\ WF_splice(\/ part = "session" /\ Session!SpliceLoop
                 \/ part = "forward" /\ Forward!SpliceLoop
                 \/ part = "waits" /\ Waiting!SpliceLoop)
    /\ WF_splice(\/ part = "session" /\ Session!CopyErr
                 \/ part = "forward" /\ Forward!CopyErr
                 \/ part = "waits" /\ Waiting!CopyErr)
    /\ WF_splice(\/ part = "session" /\ Session!ClientFrame
                 \/ part = "forward" /\ Forward!ClientFrame
                 \/ part = "waits" /\ Waiting!ClientFrame)
    /\ WF_splice(\/ part = "session" /\ Session!ServerClose
                 \/ part = "forward" /\ Forward!ServerClose
                 \/ part = "waits" /\ Waiting!ServerClose)
    /\ WF_splice(\/ part = "forward" /\ Forward!LocalCloses
                 \/ part = "waits" /\ Waiting!LocalCloses)
    /\ \A a \in 1..2 : WF_dial(part = "dial" /\ Dial!TcpEnds(a))
    /\ WF_dial(part = "dial" /\ (Dial!Begin \/ Dial!DialEnds \/ Dial!Fallback \/ Dial!Connect
                                   \/ Dial!Join \/ Dial!AddressFailed))
    /\ WF_dial(part = "dial" /\ \E k \in {"accepted", "silent", "error"} : Dial!KnockEnds(k))
    /\ WF_transfer(\/ part = "read" /\ Reads!Client
                   \/ part = "write" /\ Writes!Client)
    /\ WF_transfer(\/ part = "read" /\ Reads!ServerAnswers
                   \/ part = "write" /\ Writes!ServerAnswers)
    /\ WF_listeners(part = "served" /\ Served!drain_pending("c1"))
    /\ WF_listeners(part = "served" /\ (Served!StopFlag("c1") \/ Served!Joined("c1") \/ Served!Removes("c1")
                                        \/ Served!Teardown("c1")))
    /\ \A l \in 1..2 : /\ WF_listeners(part = "served" /\ l \in DOMAIN lis /\ Served!Answered("c1", l))
                       /\ WF_listeners(part = "served" /\ l \in DOMAIN lis /\ Served!Works(l))
    /\ WF_daemon(part = "daemon" /\ Listening!Parent)
    /\ WF_copying(part = "scp" /\ Copying!SenderNext) /\ WF_copying(part = "scp" /\ Copying!ReceiverNext)

Spec == Init /\ [][Next]_vars /\ Fairness

-----------------------------------------------------------------------------
\* Whatever is handed to the transport reaches the other side, also when it was held back during an
\* exchange (the deferral queues of SessionCore), and the exchanges that begin end (KexRunner), with
\* both sides and the server's timers starting them when they like: again and again everything has
\* arrived and nobody exchanges keys.  A writer of a channel that can write finishes, the window
\* being opened again and again (record_consume), and a channel that one side has closed is
\* forgotten by both (close, handle_close).
AllDelivered ==
    []<>/\ part = "transport" => \A r \in Roles : /\ Len(Wire!Surfaced[Wire!Peer(r)]) = Len(sent[r])
                                                  /\ ~Wire!IsKexing(drv[r].runner)
        /\ part = "channels" => \A p \in Sides, id \in {0} :
               /\ left[p] = 0 \/ ~Flow!Writable(p, id)
               /\ Flow!Live(p, id) => Flow!Chan(p, id).closed = {}

\* Nobody is left waiting: every thread of a shared client gets to its end, with no reader asleep
\* while bytes, an end or an error wait for it; a channel the server opened is closed, and its
\* threads end, whether its callback reads what came or not (accept_incoming); a forwarded socket's
\* thread that asks for a channel is answered, also when forwards are cancelled, sessions close or the connection ends meanwhile
\* (drain_pending, Teardown), unless the connection's loop has come to join a thread that asks, where
\* both wait for good (the listeners_teardown run); every child of the daemon that ends is reaped
\* while the daemon runs.
NobodyStuck ==
    /\ []<>/\ part = "threads" => \A t \in {"r", "e"} : pc[t] \in {"eof", "error", "gone", "done", "denied"}
           /\ part = "relayed" => pc["i"] = "gone" /\ pc["s"] \in {"done", "error"}
           /\ part = "daemon" => pc = "stopped" \/ \A c \in {"x", "y"} : state[c] # "exited"
    /\ \A l \in 1..2 : []<>(part = "served" /\ l \in DOMAIN lis => lis[l].thread # "asking" \/ ~Served!JoinEnds)

\* The client of a master has all the output before it exits, and input reaches the channel in order
\* with its end after it; the end of the channel reaches the client, of a session also while its
\* input stays open, of a forward whose local side closes by itself.  A local side that waits for the
\* end of the output before it closes gets all of the output; its end only if the server closes the
\* channel first (mux/server.rs waits for the close, which waits for the local end).  With every
\* session ending, each master that serves ends, whichever of its threads comes last.
ClientEnds ==
    /\ [](part = "session" => Session!AllBeforeExit /\ Session!InputInOrder)
    /\ [](part = "forward" => Forward!AllBeforeExit /\ Forward!InputInOrder)
    /\ [](part = "waits" => Waiting!AllBeforeExit /\ Waiting!InputInOrder)
    /\ []<>/\ part \in {"session", "forward"} => (remote.eof => client = "over")
           /\ part = "waits" => got.out = Waiting!Upto(nout) /\ (remote.close => client = "over")
           /\ part = "masters" => ms["a"] # "serving"

\* Every transfer ends, the lowest range being always asked for; a copy by scp ends at both ends,
\* whatever fails; and dialling returns, whatever its threads and the knock do, an address being
\* given up only once its connection or its knock has failed.
TransferEnds ==
    /\ <>/\ part \in {"read", "write"} => pc \in {"ok", "gap", "error"}
         /\ part = "scp" => spc = "done" /\ rpc = "done"
         /\ part = "dial" => pc = "done"
    /\ [][part = "dial" => Dial!GaveUpForCause]_vars
=============================================================================
