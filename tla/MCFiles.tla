------------------------------ MODULE MCFiles -------------------------------
(***************************************************************************)
(* Small instances of what the programs do with files, of which `part' says*)
(* the one that runs: the transfers of the SFTP client, the paths of a     *)
(* jailed session, the files and handles of the server, the sftp and scp   *)
(* programs, the C interface, known_hosts, key files, revocation lists and *)
(* signatures.                                                             *)
(***************************************************************************)
EXTENDS Integers, Sequences, TLC

CONSTANTS Unused

VARIABLES
    part, len, stored, req, rep, out, received, sink, next, written, eof,
    nextId, left, pc, faults, least, tree, acted, shown, name, node, handles,
    last, setup, first, disk, old, store, given, ipFound, mismatched,
    forced, updater, vouched, steps, from, lines, mode,
    interrupted, pwd, lpwd, remote, local, cmd, work, xfer, failed, exit,
    budget, seen, src, dst, mid, stage, todo, bad, spc, cur, sent, fwd, back,
    rpc, stack, times, taken, one, rres, cut, does, client, cell, poisoned,
    obj, server, content, got, agent, call, ret, ran, calls, key, pub, proc,
    fresh, runs, typed, asked, shared, file, certs, sigs, now, said, intact,
    signed, good

\* Paths of one and two names, and some that go up and down again.
Relative(cs) == {[abs |-> FALSE, comps |-> c] : c \in cs}
FewPaths == Relative(UNION {[1..n -> {"a", "b"}] : n \in 1..2} \cup {<<"a", "..", "b">>, <<"..", "b">>})
\* Everything of up to four components, from the root and from the jail.
ManyPaths == {[abs |-> x, comps |-> c] :
                 x \in BOOLEAN, c \in UNION {[1..n -> {"j", "a", ".", ".."}] : n \in 0..4}}
LinkTargets == Relative({<<"a">>, <<"b">>, <<"..">>, <<"a", "..", "..">>})
               \cup {[abs |-> TRUE, comps |-> <<"j", "a">>]}

NoFlags == [read |-> FALSE, write |-> FALSE, append |-> FALSE, creat |-> FALSE,
            trunc |-> FALSE, excl |-> FALSE]
UsualFlags == {[NoFlags EXCEPT !.read = TRUE],
               [NoFlags EXCEPT !.write = TRUE, !.creat = TRUE],
               [NoFlags EXCEPT !.append = TRUE]}
ReadOrWrite == {f \in UsualFlags : ~f.append}
AllFlags == [read : BOOLEAN, write : BOOLEAN, append : BOOLEAN, creat : BOOLEAN,
             trunc : BOOLEAN, excl : BOOLEAN]

\* Programs that use known_hosts, what its files hold, and who answers.
HostKey(t, i) == [type |-> t, id |-> i]
KeyOne == HostKey("ed", "1")
KeyTwo == HostKey("ed", "2")
KeyRsa == HostKey("rsa", "1")
KeyCa == HostKey("ed", "ca")
NoKey == HostKey("", "")
At(h) == [host |-> h, port |-> 22]
Shows(k) == [key |-> k, ca |-> NoKey, good |-> FALSE]
Match(h) == [neg |-> FALSE, host |-> h, port |-> 22]
HostLine(m, ns, k) == [marker |-> m, hashed |-> FALSE, names |-> ns, key |-> k]
SshProgram == [tool |-> "ssh", policy |-> "known", pin |-> KeyOne, name |-> At("h"), ip |-> At(""), strict |-> "ask",
               hash |-> FALSE, local |-> FALSE, dns |-> [mode |-> "no", records |-> {}, validated |-> FALSE],
               servers |-> {Shows(KeyOne), Shows(KeyRsa)}, mayUpdate |-> TRUE, saves |-> TRUE]
SignedDns == [mode |-> "yes", records |-> {[alg |-> "ed", ok |-> TRUE], [alg |-> "rsa", ok |-> FALSE]}, validated |-> TRUE]
Certified == {[key |-> KeyOne, ca |-> KeyCa, good |-> TRUE], [key |-> KeyTwo, ca |-> KeyCa, good |-> FALSE]}
AloneWith ==
    {[SshProgram EXCEPT !.strict = s, !.ip = i, !.hash = x] :
        s \in {"ask", "yes", "no", "accept-new"}, i \in {At(""), At("a")}, x \in BOOLEAN}
    \cup {[SshProgram EXCEPT !.servers = Certified], [SshProgram EXCEPT !.name.port = 2222],
          [SshProgram EXCEPT !.local = TRUE], [SshProgram EXCEPT !.policy = "pinned"],
          [SshProgram EXCEPT !.saves = FALSE], [SshProgram EXCEPT !.dns = SignedDns]}
Beside ==
    {[SshProgram EXCEPT !.strict = "no", !.servers = {Shows(KeyTwo)}], [SshProgram EXCEPT !.tool = "remove"],
     [SshProgram EXCEPT !.name = At("g"), !.strict = "accept-new", !.servers = {Shows(KeyTwo)}],
     [SshProgram EXCEPT !.tool = "hash"], [SshProgram EXCEPT !.tool = "app", !.policy = "any"],
     [SshProgram EXCEPT !.tool = "app", !.servers = {Shows(KeyOne)}]}
HostSetups ==
    {[a |-> x, b |-> [SshProgram EXCEPT !.tool = "none"]] : x \in AloneWith}
    \cup {[a |-> [SshProgram EXCEPT !.strict = "no", !.ip = At("a")], b |-> y] : y \in Beside}
    \cup {[a |-> [SshProgram EXCEPT !.tool = "crate", !.strict = s, !.hash = s = "no"], b |-> y] :
             s \in {"ask", "no"}, y \in {[SshProgram EXCEPT !.strict = "no", !.servers = {Shows(KeyTwo)}],
                                       [SshProgram EXCEPT !.tool = "remove"], [SshProgram EXCEPT !.tool = "hash"]}}
HostFiles ==
    {<<>>, <<HostLine("", <<Match("h")>>, KeyOne), HostLine("", <<Match("a")>>, KeyTwo)>>,
     <<HostLine("", <<Match("h"), Match("a")>>, KeyRsa), HostLine("revoked", <<Match("*")>>, KeyOne)>>,
     <<HostLine("", <<Match("h")>>, KeyTwo), HostLine("junk", <<>>, NoKey)>>,
     <<HostLine("ca", <<Match("*")>>, KeyCa), HostLine("rawrevoked", <<Match("h")>>, KeyTwo)>>,
     <<HostLine("", <<Match("*"), [Match("h") EXCEPT !.neg = TRUE]>>, KeyTwo)>>,
     <<HostLine("", <<Match("h"), Match("c")>>, HostKey("ed", "3")), HostLine("", <<Match("h")>>, HostKey("ed", "4")),
       HostLine("revoked", <<Match("c")>>, KeyTwo)>>}
GlobalLines == <<HostLine("", <<Match("g")>>, KeyRsa), HostLine("revoked", <<Match("h")>>, HostKey("ed", "9"))>>

\* Sessions of the sftp program, with files a and b and one whose name is a star.
NameA == <<"a">>
NameB == <<"b">>
Star == <<"*">>
Quoted(n) == <<"\"">> \o n \o <<"\"">>
Folder(w) == [t |-> "dir", w |-> w, data |-> <<>>, to |-> <<>>]
Holding(d) == [t |-> "file", w |-> TRUE, data |-> d, to |-> <<>>]
LinkTo(p) == [t |-> "link", w |-> TRUE, data |-> <<>>, to |-> p]
Types(op, flags, text, meant) == [op |-> op, flags |-> flags, ignore |-> FALSE, text |-> text, meant |-> meant]
WithTop(files) == (<<>> :> Folder(TRUE)) @@ files
Shell(input, script, rem, loc) ==
    [input |-> input, lines |-> script, first |-> <<>>, meant |-> {}, home |-> <<>>, flags |-> {},
     remote |-> WithTop(rem), local |-> WithTop(loc), denied |-> {}, unlisted |-> {}]
DeepTree == (<<NameA>> :> Folder(FALSE)) @@ (<<NameA, NameA>> :> Holding(<<1, 2>>)) @@ (<<NameA, NameB>> :> Folder(TRUE))
            @@ (<<NameA, NameB, NameA>> :> Holding(<<3>>)) @@ (<<NameA, NameB, NameB>> :> LinkTo(<<NameA>>))
FlatTree == (<<NameA>> :> Holding(<<1, 2>>)) @@ (<<NameB>> :> Holding(<<3>>)) @@ (<<Star>> :> Holding(<<4>>))
NoTree == [q \in {} |-> 0]
Everything == {NameA, NameB, Star}
ShellInputs == {"batch", "terminal", "piped"}
Spaced(x, y) == x \o <<" ">> \o y
ShellSetups ==
    {Shell(i, <<Types(op, {"r"}, NameA, {NameA}), Types("show", {}, <<>>, {})>>,
           IF op = "get" THEN DeepTree ELSE NoTree, IF op = "put" THEN DeepTree ELSE NoTree) :
        i \in ShellInputs, op \in {"get", "put"}}
    \cup {[Shell(i, <<Types("get", {"r"}, Star, Everything), Types("rm", {}, Star, Everything)>>, FlatTree, NoTree)
              EXCEPT !.denied = d] : i \in ShellInputs, d \in {{}, {<<NameA>>}}}
    \cup {Shell("batch", <<Types(op, {}, Quoted(Star), {Star}), Types("put", {}, <<"\\">> \o Star, {Star}),
                           Types(op, {}, Star, Everything)>>, FlatTree, FlatTree) : op \in {"rm", "chmod", "get"}}
    \cup {Shell("batch", <<Types("mkdir", {"p"}, Quoted(Star) \o <<"/">> \o NameA, {}), Types("cd", {}, Quoted(Star), {}),
                           Types("symlink", {}, Spaced(<<"/">> \o NameB, NameA \o <<"2">>), {}),
                           Types("copy", {}, Spaced(<<"/">> \o NameB, NameB), {}), Types("rm", {}, NameB, {NameB}),
                           Types("rmdir", {}, NameA, {})>>,
                (<<NameB>> :> Holding(<<3>>)) @@ (<<NameA>> :> Folder(TRUE)) @@ (<<NameA, NameB>> :> Holding(<<4>>)), NoTree)}
    \cup {Shell("batch", <<Types(op, {"a"}, NameA, {NameA})>>,
                (<<NameA>> :> Holding(<<1, 2>>)) @@ (<<NameB>> :> Holding(<<3>>)), (<<NameA>> :> Holding(d))) :
             op \in {"get", "put"}, d \in {<<1>>, <<1, 2, 3>>, <<>>}}
    \cup {[Shell("batch", <<Types("lmkdir", {}, NameB, {}), Types("lcd", {}, NameB, {}), Types("get", {}, NameA, {NameA}),
                            Types("rename", {}, Spaced(NameA, NameB), {}), Types("ls", {}, NameA, {}),
                            Types("quit", {}, NameA, {})>>, FlatTree, NoTree)
              EXCEPT !.first = f, !.meant = {f}] : f \in {<<>>, NameB}}

\* What scp is asked to copy: a tree d with a directory in it, and a file b.
CopyOrder == [x \in {"-x", "a", "b", "d", "f", "g"} |->
                 CASE x = "-x" -> 0 [] x = "a" -> 1 [] x = "b" -> 2 [] x = "d" -> 3 [] x = "f" -> 4 [] x = "g" -> 5]
ScpDir(w) == [t |-> "dir", w |-> w, data |-> <<>>, time |-> 1]
ScpFile(d) == [t |-> "file", w |-> TRUE, data |-> d, time |-> 1]
ScpOther(t) == [t |-> t, w |-> TRUE, data |-> <<>>, time |-> 1]
ScpTree(files) == (<<>> :> ScpDir(TRUE)) @@ files
TreeD(w) == (<<"d">> :> ScpDir(TRUE)) @@ (<<"d", "f">> :> [ScpFile(<<1, 2, 3>>) EXCEPT !.time = 2])
            @@ (<<"d", "g">> :> ScpDir(w)) @@ (<<"d", "g", "f">> :> ScpFile(<<3>>))
FileB == <<"b">> :> ScpFile(<<4>>)
WithPipe == (<<"d">> :> ScpDir(TRUE)) @@ (<<"d", "f">> :> ScpOther("pipe")) @@ (<<"d", "g">> :> ScpFile(<<3>>))
TargetDir == ScpTree(<<"t">> :> ScpDir(TRUE))
Copy == [way |-> "up", proto |-> "legacy", recursive |-> TRUE, preserve |-> FALSE, many |-> FALSE,
         sources |-> <<<<"d">>>>, target |-> <<"t">>, isFile |-> FALSE, src |-> ScpTree(TreeD(TRUE) @@ FileB),
         dst |-> TargetDir, badNames |-> {"-x"}, unreadable |-> {}, asked |-> {}, expected |-> "", cap |-> 9,
         order |-> CopyOrder, faults |-> [disk |-> 0, cut |-> 0, source |-> 0]]
CopyTwo == [Copy EXCEPT !.sources = <<<<"b">>, <<"d">>>>, !.many = TRUE]
BothProtocols == {"legacy", "sftp"}
CopySetups ==
    {[Copy EXCEPT !.way = w, !.proto = p, !.faults.cut = 1] : w \in {"up", "down", "cross"}, p \in BothProtocols}
    \cup {[Copy EXCEPT !.proto = p, !.way = w, !.faults.source = 2] : w \in {"up", "down", "cross"}, p \in BothProtocols}
    \cup {[CopyTwo EXCEPT !.proto = p, !.preserve = v, !.faults = [disk |-> 1, cut |-> 1, source |-> 0],
                          !.src = ScpTree(s @@ FileB), !.dst = t] :
             p \in BothProtocols, v \in BOOLEAN, s \in {TreeD(FALSE), WithPipe},
             t \in {TargetDir, ScpTree(<<"t">> :> ScpFile(<<7>>))}}
    \cup {[Copy EXCEPT !.recursive = FALSE, !.sources = <<<<"b">>>>, !.way = w, !.expected = "b", !.faults.source = 1,
                       !.dst = ScpTree((<<"t">> :> ScpDir(TRUE)) @@ (<<"t", "b">> :> n))] :
             w \in {"up", "down"}, n \in {ScpFile(<<7, 7>>), ScpOther("link"), ScpDir(TRUE)}}
    \cup {[Copy EXCEPT !.dst = ScpTree(<<"a">> :> ScpDir(TRUE)), !.target = t, !.isFile = TRUE, !.proto = p,
                       !.recursive = v, !.asked = {n}] :
             p \in BothProtocols, v \in BOOLEAN, t \in {<<"t">>, <<"g", "t">>}, n \in {"d", "a"}}
    \cup {[Copy EXCEPT !.src = ScpTree(WithPipe @@ (<<"d", "-x">> :> ScpFile(<<1>>))), !.proto = p, !.unreadable = u,
                       !.faults.disk = 1] : p \in BothProtocols, u \in {{}, {<<"d", "g">>}, {<<"d">>}}}
    \cup {[Copy EXCEPT !.sources = <<<<"b">>>>, !.cap = 0]}
\* Several sources, of which the first cannot be read to its end.
CopyOnSetups ==
    {[Copy EXCEPT !.sources = <<<<"d">>, <<"b">>>>, !.many = TRUE,
                  !.src = ScpTree(TreeD(TRUE) @@ FileB @@ (<<"d", "-x">> :> ScpFile(<<1>>)))]}

\* What a C program does: connecting, agent keys, paths, and open objects.
DirEntry(n) == [id |-> n, name |-> 1, long |-> n]
CListings == {<< <<>>, <<DirEntry(0), DirEntry(1)>>, <<DirEntry(2)>> >>, << <<>>, <<>> >>}
CResolved == {<<"refused", "ok">>, <<"io", "rejected", "ok">>, <<"nomatch">>, <<>>}
CBuffer(cap, null) == [cap |-> cap, null |-> null]
CBuffers == {CBuffer(0, TRUE), CBuffer(1, FALSE), CBuffer(2, TRUE), CBuffer(2, FALSE)}

\* Command lines of ssh-keygen, and the key files they find.
KeyJob(op, path) == [op |-> op, path |-> path, type |-> "ed25519", comment |-> 2, old |-> 0, new |-> 0,
                     newSet |-> FALSE, form |-> "new", terminal |-> TRUE]
KeyJobs ==
    {KeyJob(o, "f") : o \in {"generate", "passphrase", "comment", "extract", "export", "fingerprint"}}
    \cup {KeyJob("hosts", "h"), KeyJob("fingerprint", "h"), [KeyJob("generate", "f") EXCEPT !.newSet = TRUE, !.new = 2],
          [KeyJob("generate", "f") EXCEPT !.type = "unknown"],
          [KeyJob("generate", "f") EXCEPT !.form = "pem", !.terminal = FALSE],
          [KeyJob("passphrase", "f") EXCEPT !.old = 1, !.newSet = TRUE, !.new = 2],
          [KeyJob("passphrase", "f") EXCEPT !.form = "pem", !.terminal = FALSE],
          [KeyJob("comment", "f") EXCEPT !.form = "pem", !.old = 1],
          [KeyJob("comment", "f") EXCEPT !.terminal = FALSE, !.new = 1]}
NoKeyFile == [there |-> FALSE, whole |-> FALSE, id |-> 0, type |-> "", comment |-> 0, pass |-> 0, form |-> ""]
KeyFile(n, t, c, p, form) ==
    [there |-> TRUE, whole |-> TRUE, id |-> n, type |-> t, comment |-> c, pass |-> p, form |-> form]
NoFiles == [n \in {"f", "h", "i"} |-> NoKeyFile]
KeyDisks ==
    {[key |-> NoFiles, pub |-> NoFiles],
     [key |-> [NoFiles EXCEPT !["f"] = KeyFile(1, "ed25519", 1, 1, "new")],
      pub |-> [NoFiles EXCEPT !["f"] = KeyFile(1, "ed25519", 1, 0, "line")]],
     [key |-> [NoFiles EXCEPT !["f"] = KeyFile(1, "rsa", 2, 1, "pem"), !["h"] = KeyFile(2, "rsa", 0, 0, "new")],
      pub |-> [NoFiles EXCEPT !["h"] = KeyFile(2, "rsa", 0, 0, "line")]]}

\* What ssh-keygen is told to revoke, to certify and to sign.
Ident(k, n) == [key |-> k, cert |-> n]
KrlLine(kw) == [kw |-> kw, lo |-> 0, hi |-> 0, id |-> "", what |-> Ident("", 0)]
KrlInput(ca, ls) == [ca |-> ca, lines |-> ls]
KrlKey(kw, what) == KrlInput("", <<[KrlLine(kw) EXCEPT !.what = what]>>)
Between(a, b) == [KrlLine("serial") EXCEPT !.lo = a, !.hi = b]
KrlSpecs ==
    {KrlInput("ca", <<Between(1, 2)>>), KrlInput("any", <<Between(3, 3), [KrlLine("id") EXCEPT !.id = "x"]>>),
     KrlKey("sha1", Ident("k1", 0)), KrlKey("hash", Ident("ca", 0)), KrlKey("key", Ident("k2", 2)),
     KrlKey("key", Ident("k1", 1)), KrlKey("key", Ident("k2", 0)), KrlInput("ca", <<Between(2, 1)>>),
     KrlInput("", <<[KrlLine("key") EXCEPT !.what = Ident("k2", 0)], KrlLine("id")>>)}
CertOrder == [keys |-> <<"k1", "k2">>, ca |-> "ca", serial |-> 0, plus |-> TRUE, id |-> "x", type |-> "user",
              principals |-> {"p"}, from |-> 0, to |-> 2]
CertOrders == {CertOrder, [CertOrder EXCEPT !.serial = 1], [CertOrder EXCEPT !.serial = 3],
               [CertOrder EXCEPT !.ca = "cb", !.plus = FALSE, !.id = ""], [CertOrder EXCEPT !.to = 0]}
Bitmaps == [kind |-> "certificates", ca |-> "ca",
            subs |-> {[kind |-> "bitmap", set |-> {[offset |-> 1, bits |-> {0, 2}]}], [kind |-> "extension", set |-> {}]}]
EmptyList == [sections |-> {}, says |-> {}]
ForeignLists ==
    {EmptyList, [sections |-> {[kind |-> "critical"]}, says |-> {}],
     [sections |-> {Bitmaps, [kind |-> "signature"]},
      says |-> {[line |-> Between(1, 1), ca |-> "ca"], [line |-> Between(3, 3), ca |-> "ca"]}]}
Signer == [principals |-> {"p"}, ca |-> FALSE, namespaces |-> {}, after |-> 0, before |-> 1, key |-> "k1", bad |-> FALSE]
SignerLists ==
    {<<[Signer EXCEPT !.bad = TRUE, !.principals = {"q"}], Signer>>,
     <<[Signer EXCEPT !.ca = TRUE, !.key = "ca", !.principals = {"p", "q"}, !.before = 9, !.namespaces = {"file"}]>>}

-----------------------------------------------------------------------------
Reads == INSTANCE SftpTransfer WITH Op <- "read", Offset <- 1, Chunk <- 2,
    Depth <- 2, FileLen <- 9, MaxLen <- 9, MaxFaults <- 1, Changes <- {}
Changing == INSTANCE SftpTransfer WITH Op <- "read", Offset <- 0, Chunk <- 2,
    Depth <- 2, FileLen <- 3, MaxLen <- 5, MaxFaults <- 0,
    Changes <- {"grow", "shrink"}
Writes == INSTANCE SftpTransfer WITH Op <- "write", Offset <- 1, Chunk <- 2,
    Depth <- 3, FileLen <- 7, MaxLen <- 5, MaxFaults <- 1, Changes <- {}
Links == INSTANCE SftpJail WITH Names <- {"a", "b"}, Root <- <<"j">>,
    Hide <- FALSE, MaxDepth <- 2, RawPaths <- FewPaths, AskedPaths <- {},
    Planted <- {}, Targets <- LinkTargets \ Relative({<<"b">>})
Shown == INSTANCE SftpJail WITH Names <- {"a", "b"}, Root <- <<"j">>,
    Hide <- TRUE, MaxDepth <- 2, RawPaths <- Relative({<<"a">>}),
    AskedPaths <- {}, Planted <- LinkTargets, Targets <- {}
Asked == INSTANCE SftpJail WITH Names <- {"a", "b"}, Root <- <<"j">>,
    Hide <- FALSE, MaxDepth <- 1, RawPaths <- {}, AskedPaths <- ManyPaths,
    Planted <- {}, Targets <- {}
Hidden == INSTANCE SftpJail WITH Names <- {"a", "b"}, Root <- <<"j">>,
    Hide <- TRUE, MaxDepth <- 1, RawPaths <- {}, AskedPaths <- ManyPaths,
    Planted <- {}, Targets <- {}
Protected == INSTANCE SftpServer WITH Names <- {"a", "b"}, Inodes <- {1, 2},
    Jailed <- FALSE, ReadOnly <- TRUE, AllowSpecial <- FALSE, MaxHandles <- 2, IdSpace <- 3,
    MaxSetLen <- 1, MaxData <- 1, Batch <- 1,
    Ops <- {"open", "write", "attrs", "dir", "names", "mkdir", "copy"},
    OpenFlags <- AllFlags, OthersMay <- {"link", "remove"}
Copies == INSTANCE SftpServer WITH Names <- {"a", "b"}, Inodes <- {1, 2},
    Jailed <- TRUE, ReadOnly <- FALSE, AllowSpecial <- FALSE, MaxHandles <- 2, IdSpace <- 3,
    MaxSetLen <- 1, MaxData <- 1, Batch <- 1,
    Ops <- {"open", "write", "names", "copy"}, OpenFlags <- ReadOrWrite,
    OthersMay <- {}
Listed == INSTANCE SftpServer WITH Names <- {"a", "b"}, Inodes <- {1, 2},
    Jailed <- TRUE, ReadOnly <- FALSE, AllowSpecial <- TRUE, MaxHandles <- 1, IdSpace <- 3,
    MaxSetLen <- 1, MaxData <- 1, Batch <- 1,
    Ops <- {"open", "attrs", "mkdir", "dir"}, OpenFlags <- AllFlags,
    OthersMay <- {}
KnownHosts == INSTANCE HostKeys WITH Procs <- {"a", "b"},
    Setups <- HostSetups, Files <- HostFiles, Globals <- GlobalLines,
    RevokedKeys <- {HostKey("ed", "8")},
    Offers <- {{KeyOne}, {KeyTwo, KeyRsa}}, MaxSteps <- 2
Typed == INSTANCE SftpCli WITH Setups <- ShellSetups, MaxDepth <- 2,
    MaxArgs <- 4, Rewritten <- {<<7>>},
    Faults <- [break |-> 1, others |-> 1, fail |-> 1, lost |-> 1]
Copying == INSTANCE Scp WITH Setups <- CopySetups, Pipe <- 2
GoingOn == INSTANCE Scp WITH Setups <- CopyOnSetups, Pipe <- 2
Embedded == INSTANCE Ffi WITH Threads <- {1, 2},
    Programs <- {{"connects"}, {"agent"}, {"paths"}, {"objects"}},
    Cells <- {"s"}, Objects <- {"x"}, Listings <- CListings, Size <- 3,
    MaxIo <- 1, MaxEmpty <- 1, Buffers <- CBuffers, Resolved <- CResolved,
    KeyLists <- {<<"k">>, <<"k", "l">>}, MaxCalls <- 7, MaxFaults <- 1
Stored == INSTANCE KeyFiles WITH Procs <- {"a", "b"},
    Paths <- {"f", "h", "i"}, Hosts <- <<"h", "i">>, Jobs <- KeyJobs,
    Disks <- KeyDisks, Passes <- {0, 1, 2}, MaxRuns <- 2, MaxFaults <- 1
Revoking == INSTANCE Signatures WITH Keys <- {"k1", "k2"},
    CAs <- {"ca", "cb"}, SerialMod <- 4, Specs <- KrlSpecs,
    Foreign <- ForeignLists, Orders <- CertOrders, SignerFiles <- {},
    Namespaces <- {}, Messages <- {}, Principals <- {}, Agent <- {},
    MaxTime <- 0, MaxSteps <- 4, MaxFaults <- 1
Signing == INSTANCE Signatures WITH Keys <- {"k1", "k2"}, CAs <- {"ca", "cb"},
    SerialMod <- 4, Specs <- {KrlKey("key", Ident("k1", 0))},
    Foreign <- {EmptyList},
    Orders <- {[CertOrder EXCEPT !.keys = <<"k1">>], [CertOrder EXCEPT !.keys = <<"k2">>, !.type = "host"]},
    SignerFiles <- SignerLists, Namespaces <- {"file", "mail"},
    Messages <- {"m", "n"}, Principals <- {"p", "q"},
    Agent <- {Ident("k2", 0)}, MaxTime <- 2, MaxSteps <- 4, MaxFaults <- 1

\* The variables that a model does not have, which hold Unused while it runs.
notSftpTransfer == <<tree, acted, shown, name, node, handles, last, setup,
    first, disk, old, store, given, ipFound, mismatched, forced, 
    updater, vouched, steps, from, lines, mode, interrupted, pwd, lpwd,
    remote, local, cmd, work, xfer, failed, exit, budget, seen, src, dst, mid,
    stage, todo, bad, spc, cur, sent, fwd, back, rpc, stack, times, taken,
    one, rres, cut, does, client, cell, poisoned, obj, server, content, got,
    agent, call, ret, ran, calls, key, pub, proc, fresh, runs, typed, asked,
    shared, file, certs, sigs, now, said, intact, signed, good>>
OnlySftpTransfer ==
    /\ tree = Unused /\ acted = Unused /\ shown = Unused /\ name = Unused
    /\ node = Unused /\ handles = Unused /\ last = Unused /\ setup = Unused
    /\ first = Unused /\ disk = Unused /\ old = Unused /\ store = Unused
    /\ given = Unused /\ ipFound = Unused
    /\ mismatched = Unused /\ forced = Unused
    /\ updater = Unused /\ vouched = Unused
    /\ steps = Unused /\ from = Unused /\ lines = Unused /\ mode = Unused
    /\ interrupted = Unused /\ pwd = Unused /\ lpwd = Unused
    /\ remote = Unused /\ local = Unused /\ cmd = Unused /\ work = Unused
    /\ xfer = Unused /\ failed = Unused /\ exit = Unused /\ budget = Unused
    /\ seen = Unused /\ src = Unused /\ dst = Unused /\ mid = Unused
    /\ stage = Unused /\ todo = Unused /\ bad = Unused /\ spc = Unused
    /\ cur = Unused /\ sent = Unused /\ fwd = Unused /\ back = Unused
    /\ rpc = Unused /\ stack = Unused /\ times = Unused /\ taken = Unused
    /\ one = Unused /\ rres = Unused /\ cut = Unused /\ does = Unused
    /\ client = Unused /\ cell = Unused /\ poisoned = Unused /\ obj = Unused
    /\ server = Unused /\ content = Unused /\ got = Unused /\ agent = Unused
    /\ call = Unused /\ ret = Unused /\ ran = Unused /\ calls = Unused
    /\ key = Unused /\ pub = Unused /\ proc = Unused /\ fresh = Unused
    /\ runs = Unused /\ typed = Unused /\ asked = Unused /\ shared = Unused
    /\ file = Unused /\ certs = Unused /\ sigs = Unused /\ now = Unused
    /\ said = Unused /\ intact = Unused /\ signed = Unused /\ good = Unused
notSftpJail == <<len, stored, req, rep, out, received, sink, next, written,
    eof, nextId, left, pc, faults, least, name, node, handles, last, setup,
    first, disk, old, store, given, ipFound, mismatched, forced, 
    updater, vouched, steps, from, lines, mode, interrupted, pwd, lpwd,
    remote, local, cmd, work, xfer, failed, exit, budget, seen, src, dst, mid,
    stage, todo, bad, spc, cur, sent, fwd, back, rpc, stack, times, taken,
    one, rres, cut, does, client, cell, poisoned, obj, server, content, got,
    agent, call, ret, ran, calls, key, pub, proc, fresh, runs, typed, asked,
    shared, file, certs, sigs, now, said, intact, signed, good>>
OnlySftpJail ==
    /\ len = Unused /\ stored = Unused /\ req = Unused /\ rep = Unused
    /\ out = Unused /\ received = Unused /\ sink = Unused /\ next = Unused
    /\ written = Unused /\ eof = Unused /\ nextId = Unused /\ left = Unused
    /\ pc = Unused /\ faults = Unused /\ least = Unused /\ name = Unused
    /\ node = Unused /\ handles = Unused /\ last = Unused /\ setup = Unused
    /\ first = Unused /\ disk = Unused /\ old = Unused /\ store = Unused
    /\ given = Unused /\ ipFound = Unused
    /\ mismatched = Unused /\ forced = Unused
    /\ updater = Unused /\ vouched = Unused
    /\ steps = Unused /\ from = Unused /\ lines = Unused /\ mode = Unused
    /\ interrupted = Unused /\ pwd = Unused /\ lpwd = Unused
    /\ remote = Unused /\ local = Unused /\ cmd = Unused /\ work = Unused
    /\ xfer = Unused /\ failed = Unused /\ exit = Unused /\ budget = Unused
    /\ seen = Unused /\ src = Unused /\ dst = Unused /\ mid = Unused
    /\ stage = Unused /\ todo = Unused /\ bad = Unused /\ spc = Unused
    /\ cur = Unused /\ sent = Unused /\ fwd = Unused /\ back = Unused
    /\ rpc = Unused /\ stack = Unused /\ times = Unused /\ taken = Unused
    /\ one = Unused /\ rres = Unused /\ cut = Unused /\ does = Unused
    /\ client = Unused /\ cell = Unused /\ poisoned = Unused /\ obj = Unused
    /\ server = Unused /\ content = Unused /\ got = Unused /\ agent = Unused
    /\ call = Unused /\ ret = Unused /\ ran = Unused /\ calls = Unused
    /\ key = Unused /\ pub = Unused /\ proc = Unused /\ fresh = Unused
    /\ runs = Unused /\ typed = Unused /\ asked = Unused /\ shared = Unused
    /\ file = Unused /\ certs = Unused /\ sigs = Unused /\ now = Unused
    /\ said = Unused /\ intact = Unused /\ signed = Unused /\ good = Unused
notSftpServer == <<len, stored, req, rep, out, received, sink, written, eof,
    nextId, left, pc, faults, least, tree, acted, shown, setup, first, disk,
    old, store, given, ipFound, mismatched, forced, updater,
    vouched, steps, from, lines, mode, interrupted, pwd, lpwd, remote,
    local, cmd, work, xfer, failed, exit, budget, seen, src, dst, mid, stage,
    todo, bad, spc, cur, sent, fwd, back, rpc, stack, times, taken, one, rres,
    cut, does, client, cell, poisoned, obj, server, content, got, agent, call,
    ret, ran, calls, key, pub, proc, fresh, runs, typed, asked, shared, file,
    certs, sigs, now, said, intact, signed, good>>
OnlySftpServer ==
    /\ len = Unused /\ stored = Unused /\ req = Unused /\ rep = Unused
    /\ out = Unused /\ received = Unused /\ sink = Unused /\ written = Unused
    /\ eof = Unused /\ nextId = Unused /\ left = Unused /\ pc = Unused
    /\ faults = Unused /\ least = Unused /\ tree = Unused /\ acted = Unused
    /\ shown = Unused /\ setup = Unused /\ first = Unused /\ disk = Unused
    /\ old = Unused /\ store = Unused /\ given = Unused
    /\ ipFound = Unused /\ mismatched = Unused /\ forced = Unused
    /\ updater = Unused /\ vouched = Unused
    /\ steps = Unused /\ from = Unused /\ lines = Unused
    /\ mode = Unused /\ interrupted = Unused /\ pwd = Unused /\ lpwd = Unused
    /\ remote = Unused /\ local = Unused /\ cmd = Unused /\ work = Unused
    /\ xfer = Unused /\ failed = Unused /\ exit = Unused /\ budget = Unused
    /\ seen = Unused /\ src = Unused /\ dst = Unused /\ mid = Unused
    /\ stage = Unused /\ todo = Unused /\ bad = Unused /\ spc = Unused
    /\ cur = Unused /\ sent = Unused /\ fwd = Unused /\ back = Unused
    /\ rpc = Unused /\ stack = Unused /\ times = Unused /\ taken = Unused
    /\ one = Unused /\ rres = Unused /\ cut = Unused /\ does = Unused
    /\ client = Unused /\ cell = Unused /\ poisoned = Unused /\ obj = Unused
    /\ server = Unused /\ content = Unused /\ got = Unused /\ agent = Unused
    /\ call = Unused /\ ret = Unused /\ ran = Unused /\ calls = Unused
    /\ key = Unused /\ pub = Unused /\ proc = Unused /\ fresh = Unused
    /\ runs = Unused /\ typed = Unused /\ asked = Unused /\ shared = Unused
    /\ file = Unused /\ certs = Unused /\ sigs = Unused /\ now = Unused
    /\ said = Unused /\ intact = Unused /\ signed = Unused /\ good = Unused
notHostKeys == <<len, stored, req, rep, out, received, sink, next, written,
    eof, nextId, left, faults, least, tree, acted, shown, name, node, handles,
    last, from, lines, mode, interrupted, pwd, lpwd, remote, local, cmd, work,
    xfer, failed, exit, budget, seen, src, dst, mid, stage, todo, bad, spc,
    cur, sent, fwd, back, rpc, stack, times, taken, one, rres, cut, does,
    client, cell, poisoned, obj, server, content, got, agent, call, ret, ran,
    calls, key, pub, proc, fresh, runs, typed, asked, shared, file, certs,
    sigs, now, said, intact, signed, good>>
OnlyHostKeys ==
    /\ len = Unused /\ stored = Unused /\ req = Unused /\ rep = Unused
    /\ out = Unused /\ received = Unused /\ sink = Unused /\ next = Unused
    /\ written = Unused /\ eof = Unused /\ nextId = Unused /\ left = Unused
    /\ faults = Unused /\ least = Unused /\ tree = Unused /\ acted = Unused
    /\ shown = Unused /\ name = Unused /\ node = Unused /\ handles = Unused
    /\ last = Unused /\ from = Unused /\ lines = Unused /\ mode = Unused
    /\ interrupted = Unused /\ pwd = Unused /\ lpwd = Unused
    /\ remote = Unused /\ local = Unused /\ cmd = Unused /\ work = Unused
    /\ xfer = Unused /\ failed = Unused /\ exit = Unused /\ budget = Unused
    /\ seen = Unused /\ src = Unused /\ dst = Unused /\ mid = Unused
    /\ stage = Unused /\ todo = Unused /\ bad = Unused /\ spc = Unused
    /\ cur = Unused /\ sent = Unused /\ fwd = Unused /\ back = Unused
    /\ rpc = Unused /\ stack = Unused /\ times = Unused /\ taken = Unused
    /\ one = Unused /\ rres = Unused /\ cut = Unused /\ does = Unused
    /\ client = Unused /\ cell = Unused /\ poisoned = Unused /\ obj = Unused
    /\ server = Unused /\ content = Unused /\ got = Unused /\ agent = Unused
    /\ call = Unused /\ ret = Unused /\ ran = Unused /\ calls = Unused
    /\ key = Unused /\ pub = Unused /\ proc = Unused /\ fresh = Unused
    /\ runs = Unused /\ typed = Unused /\ asked = Unused /\ shared = Unused
    /\ file = Unused /\ certs = Unused /\ sigs = Unused /\ now = Unused
    /\ said = Unused /\ intact = Unused /\ signed = Unused /\ good = Unused
notSftpCli == <<len, stored, req, rep, out, received, sink, next, written,
    eof, nextId, left, pc, faults, least, tree, acted, shown, name, node,
    handles, last, setup, first, disk, old, store, given, ipFound,
    mismatched, forced, updater, vouched, steps, src, dst, mid,
    stage, todo, bad, spc, cur, sent, fwd, back, rpc, stack, times, taken,
    one, rres, cut, does, client, cell, poisoned, obj, server, content, got,
    agent, call, ret, ran, calls, key, pub, proc, fresh, runs, typed, asked,
    shared, file, certs, sigs, now, said, intact, signed, good>>
OnlySftpCli ==
    /\ len = Unused /\ stored = Unused /\ req = Unused /\ rep = Unused
    /\ out = Unused /\ received = Unused /\ sink = Unused /\ next = Unused
    /\ written = Unused /\ eof = Unused /\ nextId = Unused /\ left = Unused
    /\ pc = Unused /\ faults = Unused /\ least = Unused /\ tree = Unused
    /\ acted = Unused /\ shown = Unused /\ name = Unused /\ node = Unused
    /\ handles = Unused /\ last = Unused /\ setup = Unused /\ first = Unused
    /\ disk = Unused /\ old = Unused /\ store = Unused /\ given = Unused
    /\ ipFound = Unused /\ mismatched = Unused
    /\ forced = Unused /\ updater = Unused
    /\ vouched = Unused /\ steps = Unused /\ src = Unused
    /\ dst = Unused /\ mid = Unused /\ stage = Unused /\ todo = Unused
    /\ bad = Unused /\ spc = Unused /\ cur = Unused /\ sent = Unused
    /\ fwd = Unused /\ back = Unused /\ rpc = Unused /\ stack = Unused
    /\ times = Unused /\ taken = Unused /\ one = Unused /\ rres = Unused
    /\ cut = Unused /\ does = Unused /\ client = Unused /\ cell = Unused
    /\ poisoned = Unused /\ obj = Unused /\ server = Unused
    /\ content = Unused /\ got = Unused /\ agent = Unused /\ call = Unused
    /\ ret = Unused /\ ran = Unused /\ calls = Unused /\ key = Unused
    /\ pub = Unused /\ proc = Unused /\ fresh = Unused /\ runs = Unused
    /\ typed = Unused /\ asked = Unused /\ shared = Unused /\ file = Unused
    /\ certs = Unused /\ sigs = Unused /\ now = Unused /\ said = Unused
    /\ intact = Unused /\ signed = Unused /\ good = Unused
notScp == <<len, stored, req, rep, out, received, sink, next, written, eof,
    nextId, left, pc, faults, least, tree, acted, shown, name, node, handles,
    last, setup, first, disk, old, store, given, ipFound, mismatched,
    forced, updater, vouched, steps, lines, mode, interrupted,
    pwd, lpwd, remote, local, cmd, xfer, failed, exit, seen, does, client,
    cell, poisoned, obj, server, content, got, agent, call, ret, ran, calls,
    key, pub, proc, fresh, runs, typed, asked, shared, file, certs, sigs, now,
    said, intact, signed, good>>
OnlyScp ==
    /\ len = Unused /\ stored = Unused /\ req = Unused /\ rep = Unused
    /\ out = Unused /\ received = Unused /\ sink = Unused /\ next = Unused
    /\ written = Unused /\ eof = Unused /\ nextId = Unused /\ left = Unused
    /\ pc = Unused /\ faults = Unused /\ least = Unused /\ tree = Unused
    /\ acted = Unused /\ shown = Unused /\ name = Unused /\ node = Unused
    /\ handles = Unused /\ last = Unused /\ setup = Unused /\ first = Unused
    /\ disk = Unused /\ old = Unused /\ store = Unused /\ given = Unused
    /\ ipFound = Unused /\ mismatched = Unused
    /\ forced = Unused /\ updater = Unused
    /\ vouched = Unused /\ steps = Unused /\ lines = Unused
    /\ mode = Unused /\ interrupted = Unused /\ pwd = Unused /\ lpwd = Unused
    /\ remote = Unused /\ local = Unused /\ cmd = Unused /\ xfer = Unused
    /\ failed = Unused /\ exit = Unused /\ seen = Unused /\ does = Unused
    /\ client = Unused /\ cell = Unused /\ poisoned = Unused /\ obj = Unused
    /\ server = Unused /\ content = Unused /\ got = Unused /\ agent = Unused
    /\ call = Unused /\ ret = Unused /\ ran = Unused /\ calls = Unused
    /\ key = Unused /\ pub = Unused /\ proc = Unused /\ fresh = Unused
    /\ runs = Unused /\ typed = Unused /\ asked = Unused /\ shared = Unused
    /\ file = Unused /\ certs = Unused /\ sigs = Unused /\ now = Unused
    /\ said = Unused /\ intact = Unused /\ signed = Unused /\ good = Unused
notFfi == <<len, stored, req, rep, out, received, sink, next, written, eof,
    nextId, left, pc, least, tree, acted, shown, name, node, handles, last,
    setup, first, disk, old, store, given, ipFound, mismatched, forced,
    updater, vouched, steps, from, lines, mode, interrupted,
    pwd, lpwd, remote, local, cmd, work, xfer, failed, exit, budget, seen,
    src, dst, mid, stage, todo, bad, spc, cur, sent, fwd, back, rpc, stack,
    times, taken, one, rres, cut, key, pub, proc, fresh, runs, typed, asked,
    shared, file, certs, sigs, now, said, intact, signed, good>>
OnlyFfi ==
    /\ len = Unused /\ stored = Unused /\ req = Unused /\ rep = Unused
    /\ out = Unused /\ received = Unused /\ sink = Unused /\ next = Unused
    /\ written = Unused /\ eof = Unused /\ nextId = Unused /\ left = Unused
    /\ pc = Unused /\ least = Unused /\ tree = Unused /\ acted = Unused
    /\ shown = Unused /\ name = Unused /\ node = Unused /\ handles = Unused
    /\ last = Unused /\ setup = Unused /\ first = Unused /\ disk = Unused
    /\ old = Unused /\ store = Unused /\ given = Unused
    /\ ipFound = Unused /\ mismatched = Unused /\ forced = Unused
    /\ updater = Unused /\ vouched = Unused
    /\ steps = Unused /\ from = Unused /\ lines = Unused
    /\ mode = Unused /\ interrupted = Unused /\ pwd = Unused /\ lpwd = Unused
    /\ remote = Unused /\ local = Unused /\ cmd = Unused /\ work = Unused
    /\ xfer = Unused /\ failed = Unused /\ exit = Unused /\ budget = Unused
    /\ seen = Unused /\ src = Unused /\ dst = Unused /\ mid = Unused
    /\ stage = Unused /\ todo = Unused /\ bad = Unused /\ spc = Unused
    /\ cur = Unused /\ sent = Unused /\ fwd = Unused /\ back = Unused
    /\ rpc = Unused /\ stack = Unused /\ times = Unused /\ taken = Unused
    /\ one = Unused /\ rres = Unused /\ cut = Unused /\ key = Unused
    /\ pub = Unused /\ proc = Unused /\ fresh = Unused /\ runs = Unused
    /\ typed = Unused /\ asked = Unused /\ shared = Unused /\ file = Unused
    /\ certs = Unused /\ sigs = Unused /\ now = Unused /\ said = Unused
    /\ intact = Unused /\ signed = Unused /\ good = Unused
notKeyFiles == <<len, stored, req, rep, out, received, sink, next, written,
    eof, nextId, left, pc, least, tree, acted, shown, name, node, handles,
    last, setup, first, disk, old, store, given, ipFound, mismatched,
    forced, updater, vouched, steps, from, lines, mode,
    interrupted, pwd, lpwd, remote, local, cmd, work, xfer, failed, exit,
    budget, seen, src, dst, mid, stage, todo, bad, spc, cur, sent, fwd, back,
    rpc, stack, times, taken, one, rres, cut, does, client, cell, poisoned,
    obj, server, content, got, agent, call, ret, ran, calls, file, certs,
    sigs, now, said, intact, signed, good>>
OnlyKeyFiles ==
    /\ len = Unused /\ stored = Unused /\ req = Unused /\ rep = Unused
    /\ out = Unused /\ received = Unused /\ sink = Unused /\ next = Unused
    /\ written = Unused /\ eof = Unused /\ nextId = Unused /\ left = Unused
    /\ pc = Unused /\ least = Unused /\ tree = Unused /\ acted = Unused
    /\ shown = Unused /\ name = Unused /\ node = Unused /\ handles = Unused
    /\ last = Unused /\ setup = Unused /\ first = Unused /\ disk = Unused
    /\ old = Unused /\ store = Unused /\ given = Unused
    /\ ipFound = Unused /\ mismatched = Unused /\ forced = Unused
    /\ updater = Unused /\ vouched = Unused
    /\ steps = Unused /\ from = Unused /\ lines = Unused
    /\ mode = Unused /\ interrupted = Unused /\ pwd = Unused /\ lpwd = Unused
    /\ remote = Unused /\ local = Unused /\ cmd = Unused /\ work = Unused
    /\ xfer = Unused /\ failed = Unused /\ exit = Unused /\ budget = Unused
    /\ seen = Unused /\ src = Unused /\ dst = Unused /\ mid = Unused
    /\ stage = Unused /\ todo = Unused /\ bad = Unused /\ spc = Unused
    /\ cur = Unused /\ sent = Unused /\ fwd = Unused /\ back = Unused
    /\ rpc = Unused /\ stack = Unused /\ times = Unused /\ taken = Unused
    /\ one = Unused /\ rres = Unused /\ cut = Unused /\ does = Unused
    /\ client = Unused /\ cell = Unused /\ poisoned = Unused /\ obj = Unused
    /\ server = Unused /\ content = Unused /\ got = Unused /\ agent = Unused
    /\ call = Unused /\ ret = Unused /\ ran = Unused /\ calls = Unused
    /\ file = Unused /\ certs = Unused /\ sigs = Unused /\ now = Unused
    /\ said = Unused /\ intact = Unused /\ signed = Unused /\ good = Unused
notSignatures == <<len, stored, req, rep, out, received, sink, next, written,
    eof, nextId, left, pc, least, tree, acted, shown, name, node, handles,
    last, setup, first, disk, old, store, given, ipFound, mismatched,
    forced, updater, vouched, from, lines, mode, interrupted,
    pwd, lpwd, remote, local, cmd, work, xfer, failed, exit, budget, seen,
    src, dst, mid, stage, todo, bad, spc, cur, sent, fwd, back, rpc, stack,
    times, taken, one, rres, cut, does, client, cell, poisoned, obj, server,
    content, got, agent, call, ret, ran, calls, key, pub, proc, fresh, runs,
    typed, asked, shared>>
OnlySignatures ==
    /\ len = Unused /\ stored = Unused /\ req = Unused /\ rep = Unused
    /\ out = Unused /\ received = Unused /\ sink = Unused /\ next = Unused
    /\ written = Unused /\ eof = Unused /\ nextId = Unused /\ left = Unused
    /\ pc = Unused /\ least = Unused /\ tree = Unused /\ acted = Unused
    /\ shown = Unused /\ name = Unused /\ node = Unused /\ handles = Unused
    /\ last = Unused /\ setup = Unused /\ first = Unused /\ disk = Unused
    /\ old = Unused /\ store = Unused /\ given = Unused
    /\ ipFound = Unused /\ mismatched = Unused /\ forced = Unused
    /\ updater = Unused /\ vouched = Unused
    /\ from = Unused /\ lines = Unused /\ mode = Unused
    /\ interrupted = Unused /\ pwd = Unused /\ lpwd = Unused
    /\ remote = Unused /\ local = Unused /\ cmd = Unused /\ work = Unused
    /\ xfer = Unused /\ failed = Unused /\ exit = Unused /\ budget = Unused
    /\ seen = Unused /\ src = Unused /\ dst = Unused /\ mid = Unused
    /\ stage = Unused /\ todo = Unused /\ bad = Unused /\ spc = Unused
    /\ cur = Unused /\ sent = Unused /\ fwd = Unused /\ back = Unused
    /\ rpc = Unused /\ stack = Unused /\ times = Unused /\ taken = Unused
    /\ one = Unused /\ rres = Unused /\ cut = Unused /\ does = Unused
    /\ client = Unused /\ cell = Unused /\ poisoned = Unused /\ obj = Unused
    /\ server = Unused /\ content = Unused /\ got = Unused /\ agent = Unused
    /\ call = Unused /\ ret = Unused /\ ran = Unused /\ calls = Unused
    /\ key = Unused /\ pub = Unused /\ proc = Unused /\ fresh = Unused
    /\ runs = Unused /\ typed = Unused /\ asked = Unused /\ shared = Unused

Init ==
    \/ part = "read" /\ Reads!Init /\ OnlySftpTransfer
    \/ part = "changing" /\ Changing!Init /\ OnlySftpTransfer
    \/ part = "write" /\ Writes!Init /\ OnlySftpTransfer
    \/ part = "links" /\ Links!Init /\ OnlySftpJail
    \/ part = "readlink" /\ Shown!Init /\ OnlySftpJail
    \/ part = "realpath" /\ Asked!Init /\ OnlySftpJail
    \/ part = "hidden" /\ Hidden!Init /\ OnlySftpJail
    \/ part = "readonly" /\ Protected!Init /\ OnlySftpServer
    \/ part = "copies" /\ Copies!Init /\ OnlySftpServer
    \/ part = "listed" /\ Listed!Init /\ OnlySftpServer
    \/ part = "hosts" /\ KnownHosts!Init /\ OnlyHostKeys
    \/ part = "shell" /\ Typed!Init /\ OnlySftpCli
    \/ part = "scp" /\ Copying!Init /\ OnlyScp
    \/ part = "scpon" /\ GoingOn!Init /\ OnlyScp
    \/ part = "ffi" /\ Embedded!Init /\ OnlyFfi
    \/ part = "keys" /\ Stored!Init /\ OnlyKeyFiles
    \/ part = "krl" /\ Revoking!Init /\ OnlySignatures
    \/ part = "sigs" /\ Signing!Init /\ OnlySignatures

Next ==
    \/ part = "read" /\ Reads!Next /\ UNCHANGED <<part, notSftpTransfer>>
    \/ part = "changing" /\ Changing!Next /\ UNCHANGED <<part, notSftpTransfer>>
    \/ part = "write" /\ Writes!Next /\ UNCHANGED <<part, notSftpTransfer>>
    \/ part = "links" /\ Links!Next /\ UNCHANGED <<part, notSftpJail>>
    \/ part = "readlink" /\ Shown!Next /\ UNCHANGED <<part, notSftpJail>>
    \/ part = "realpath" /\ Asked!Next /\ UNCHANGED <<part, notSftpJail>>
    \/ part = "hidden" /\ Hidden!Next /\ UNCHANGED <<part, notSftpJail>>
    \/ part = "readonly" /\ Protected!Next /\ UNCHANGED <<part, notSftpServer>>
    \/ part = "copies" /\ Copies!Next /\ UNCHANGED <<part, notSftpServer>>
    \/ part = "listed" /\ Listed!Next /\ UNCHANGED <<part, notSftpServer>>
    \/ part = "hosts" /\ KnownHosts!Next /\ UNCHANGED <<part, notHostKeys>>
    \/ part = "shell" /\ Typed!Next /\ UNCHANGED <<part, notSftpCli>>
    \/ part = "scp" /\ Copying!Next /\ UNCHANGED <<part, notScp>>
    \/ part = "scpon" /\ GoingOn!Next /\ UNCHANGED <<part, notScp>>
    \/ part = "ffi" /\ Embedded!Next /\ UNCHANGED <<part, notFfi>>
    \/ part = "keys" /\ Stored!Next /\ UNCHANGED <<part, notKeyFiles>>
    \/ part = "krl" /\ Revoking!Next /\ UNCHANGED <<part, notSignatures>>
    \/ part = "sigs" /\ Signing!Next /\ UNCHANGED <<part, notSignatures>>

vars == <<part, len, stored, req, rep, out, received, sink, next, written,
    eof, nextId, left, pc, faults, least, tree, acted, shown, name, node,
    handles, last, setup, first, disk, old, store, given, ipFound,
    mismatched, forced, updater, vouched, steps, from, lines,
    mode, interrupted, pwd, lpwd, remote, local, cmd, work, xfer, failed,
    exit, budget, seen, src, dst, mid, stage, todo, bad, spc, cur, sent, fwd,
    back, rpc, stack, times, taken, one, rres, cut, does, client, cell,
    poisoned, obj, server, content, got, agent, call, ret, ran, calls, key,
    pub, proc, fresh, runs, typed, asked, shared, file, certs, sigs, now,
    said, intact, signed, good>>
Spec == Init /\ [][Next]_vars

-----------------------------------------------------------------------------
\* A transfer that reports success has copied everything, a download's bytes in
\* order; answers kept for later fit the window, and none is left on its way.  A
\* command of the sftp program that reports success has done all its words stood
\* for, and one that was interrupted begins at most one more file; what scp sent
\* without an error is under the target, in its place and whole; a listing that
\* ended had every entry.
SuccessIsWhole ==
    /\ part = "read" => /\ Reads!SuccessIsWhole /\ Reads!SinkInOrder
                        /\ Reads!KeptWithinWindow /\ Reads!SessionInSync
    /\ part = "changing" => Changing!SuccessIsWhole /\ Changing!SinkInOrder
    /\ part = "write" => Writes!SuccessIsWhole /\ Writes!SessionInSync
    /\ part = "shell" => Typed!DoneAsMeant /\ Typed!AtMostOneMore
    /\ part = "scp" => Copying!SentIsThere
    /\ part = "listed" => Listed!ListedWhole

\* The kernel does every operation of a jailed session inside the jail, also
\* with the last link followed; READLINK shows what is inside, as it is, and
\* nothing else; what REALPATH shows names what was asked for when it is sent
\* back, as it is, or, if the jail's own place is hidden, without its first slash.
ActsInside ==
    /\ part = "links" => Links!ActsInside /\ Links!LinksLeadInside
    /\ part = "readlink" => Shown!ReadlinkShowsInside
    /\ part = "realpath" => Asked!RealpathRoundTrip
    /\ part = "hidden" => Hidden!RealpathRoundTrip

\* A handle stays with the file it was opened on until it is closed; copy-data
\* leaves its source as it is, a read-only session everything, and a command of
\* the sftp program all that its words did not stand for.
HandleKept ==
    [][/\ part = "copies" => Copies!HandleKept /\ Copies!SourceUnchanged
       /\ part = "readonly" => Protected!ReadOnlyUntouched
       /\ part = "shell" => Typed!OnlyMeant]_vars

\* A key known_hosts trusts for a name was trusted there at first or vouched
\* for under that name, and one that was revoked at first is never accepted.  A
\* host that no program deals with keeps what known_hosts said of it at first,
\* whatever keys are accepted, replaced, updated or hashed, also on lines that
\* it shares with the hosts that are dealt with.
KeysVouched ==
    part = "hosts" => /\ KnownHosts!KeysVouched /\ KnownHosts!RevokedStaysOut
                      /\ KnownHosts!BystandersKept

\* The copies that go on, by themselves.
GoingOnSpec == Init /\ part = "scpon" /\ [][Next]_vars

\* A copy that goes on after a source failed has the others in their places.
SentIsThere == part = "scpon" => GoingOn!SentIsThere

\* A C program gets every entry, byte and attribute once and in place, and what
\* it freed is freed.
HandedOver ==
    part = "ffi" => /\ Embedded!EntriesOnce /\ Embedded!BytesInPlace
                    /\ Embedded!AttrsKept /\ Embedded!NothingKept

\* A key file never holds anything but a whole key, whatever is interrupted,
\* unless it was to be made anew, and a command that reports success leaves the
\* pair it promised.
KeySurvives == part = "keys" => Stored!KeySurvives /\ Stored!SuccessIsPair

\* A list that was written whole revokes what it was told and nothing else, and
\* a signature reported good was made by a key some line vouches for.
RevokedStays ==
    /\ part = "krl" => Revoking!RevokedStays
    /\ part = "sigs" => Signing!RevokedStays /\ Signing!GoodIsVouched
=============================================================================
