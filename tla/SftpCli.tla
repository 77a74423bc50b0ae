------------------------------ MODULE SftpCli ------------------------------
(* The sftp program: it reads command lines, from a terminal or a batch     *)
(* file, and carries them out on two trees of files, while ^C may come at   *)
(* any moment, others write to the remote files and the connection may      *)
(* break.  A tree maps paths, sequences of names, to nodes; a name is a     *)
(* sequence of characters because quoting and globbing work on characters.  *)
EXTENDS Integers, Sequences, SequencesExt, FiniteSets, TLC

CONSTANTS
  Setups,      \* what a run starts from: input, lines, first operand, trees, refusals
  MaxDepth,    \* MAX_DIR_DEPTH
  MaxArgs,     \* MAXARGS
  Rewritten,   \* what others may write into a remote file
  Faults       \* how many times each of ^C, others and a failure may happen

VARIABLES
  from,         \* [input, denied, unlisted]: how the program was started, what is refused
  lines,        \* the lines still to be read
  mode,         \* what ^C does: "exit", "prompt" or "command"
  interrupted,  \* INTERRUPTED
  pwd, lpwd,    \* the remote and the local working directory
  remote, local,
  cmd,          \* the command that runs
  work,         \* what it still has to do, innermost directory first
  xfer,         \* the file being copied
  failed,       \* what the loops of the command have gathered
  exit,         \* "" or the status
  budget,       \* how often each fault may still happen
  seen          \* history: the trees when the command began, and what the ^C let through

vars == <<from, lines, mode, interrupted, pwd, lpwd, remote, local, cmd, work, xfer, failed, exit,
          budget, seen>>

----------------------------------------------------------------------------
(* Words of a line.                                                         *)

GlobChars == {"?", "[", "*"}

\* split_line, one character: `st' is the kind of argument, `esc' says that the last character
\* was a backslash.  A glob character inside quotes is escaped, so that it stands for itself.
Quote(st) == IF st = "squote" THEN "'" ELSE "\""
Put(s, chars) == [s EXCEPT !.cur = @ \o chars, !.esc = FALSE, !.st = IF @ = "start" THEN "unquoted" ELSE @]
SplitChar(s, c) ==
  LET quoted == s.st \in {"squote", "dquote"} IN
  CASE s.err \/ s.end -> s
    [] Len(s.out) > MaxArgs -> [s EXCEPT !.err = TRUE]
    [] s.esc /\ quoted ->
         Put(s, IF c = Quote(s.st) THEN <<c>> ELSE IF c \in GlobChars THEN <<"\\", "\\", "\\", c>> ELSE <<"\\", c>>)
    [] s.esc /\ ~quoted -> Put(s, IF c \in GlobChars \cup {"\\"} THEN <<"\\", c>> ELSE <<c>>)
    [] ~s.esc /\ c = " " -> IF s.st = "unquoted" THEN [s EXCEPT !.out = Append(@, s.cur), !.cur = <<>>, !.st = "start"]
                            ELSE IF quoted THEN Put(s, <<c>>) ELSE s
    [] ~s.esc /\ c \in {"\"", "'"} ->
         IF quoted THEN IF c = Quote(s.st) THEN [s EXCEPT !.st = "unquoted"] ELSE Put(s, <<c>>)
         ELSE [s EXCEPT !.st = IF c = "'" THEN "squote" ELSE "dquote"]
    [] ~s.esc /\ c = "\\" -> [s EXCEPT !.esc = TRUE, !.st = IF quoted THEN @ ELSE "unquoted"]
    [] ~s.esc /\ c = "#" /\ ~quoted -> [s EXCEPT !.end = TRUE]
    [] OTHER -> Put(s, IF quoted /\ c \in GlobChars THEN <<"\\", c>> ELSE <<c>>)

split_line(text) ==
  LET s == FoldLeft(LAMBDA acc, c : SplitChar(acc, c),
                    [st |-> "start", esc |-> FALSE, cur |-> <<>>, out |-> <<>>, err |-> FALSE, end |-> FALSE], text)
  IN [err |-> s.err \/ s.esc \/ s.st \in {"squote", "dquote"} \/ Len(s.out) > MaxArgs,
      out |-> IF s.st = "unquoted" THEN Append(s.out, s.cur) ELSE s.out]

\* undo_glob_escape and unescape: the name a pattern without globs stands for.  The first keeps
\* a backslash that escapes no glob character.
Unescaped(w, keeps) ==
  LET Step(s, c) == IF s.esc THEN [esc |-> FALSE, out |-> s.out \o (IF keeps /\ c \notin GlobChars \cup {"\\"}
                                                                    THEN <<"\\", c>> ELSE <<c>>)]
                    ELSE IF c = "\\" THEN [s EXCEPT !.esc = TRUE] ELSE [s EXCEPT !.out = Append(@, c)]
      s == FoldLeft(Step, [esc |-> FALSE, out |-> <<>>], w)
  IN IF s.esc THEN Append(s.out, "\\") ELSE s.out
undo_glob_escape(w) == Unescaped(w, TRUE)
unescape(w) == Unescaped(w, FALSE)

escape_glob(name) == FlattenSeq([i \in DOMAIN name |->
                       IF name[i] \in GlobChars \cup {"]", "\\"} THEN <<"\\", name[i]>> ELSE <<name[i]>>])

\* The characters of a word that are not behind a backslash.
Plain(w) == {i \in DOMAIN w : Cardinality({j \in 1 .. i - 1 : \A k \in j .. i - 1 : w[k] = "\\"}) % 2 = 0}
has_glob(w) == \E i \in Plain(w) : w[i] \in GlobChars

\* glob_match: the pattern as a sequence of single characters and stars; a leading dot is only
\* matched by a dot.  Bracket expressions are left out.
glob_match(w, name) ==
  LET pat == SelectSeq([i \in DOMAIN w |-> [c |-> w[i], plain |-> i \in Plain(w),
                                            quoting |-> w[i] = "\\" /\ i \in Plain(w) /\ i < Len(w)]], LAMBDA x : ~x.quoting)
      One(x, c) == x.c = c \/ (x.plain /\ x.c \in {"?", "*"})
      star == {i \in DOMAIN pat : pat[i].plain /\ pat[i].c = "*"}
  IN /\ name # <<>> /\ name[1] = "." => w # <<>> /\ w[1] = "."
     /\ \E f \in [DOMAIN name -> DOMAIN pat] :
          /\ \A i \in DOMAIN name : One(pat[f[i]], name[i])
          /\ \A i \in 1 .. Len(name) - 1 : f[i] < f[i + 1] \/ (f[i] = f[i + 1] /\ f[i] \in star)
          /\ \A k \in DOMAIN pat : k \in star \/ \E i \in DOMAIN name : f[i] = k

\* The components of a path, and whether it starts at the root.
Components(w) ==
  LET Step(s, c) == IF c = "/" THEN Append(s, <<>>) ELSE Append(Front(s), Append(Last(s), c))
  IN SelectSeq(FoldLeft(Step, <<<<>>>>, w), LAMBDA n : n # <<>>)
Absolute(w) == w # <<>> /\ w[1] = "/"
Joined(p) == FlattenSeq([i \in DOMAIN p |-> <<"/">> \o p[i]])

----------------------------------------------------------------------------
(* Trees.                                                                   *)

Dots == <<".", ".">>
Dir(w) == [t |-> "dir", w |-> w, data |-> <<>>, to |-> <<>>]
File(data) == [t |-> "file", w |-> TRUE, data |-> data, to |-> <<>>]
Link(to) == [t |-> "link", w |-> TRUE, data |-> <<>>, to |-> to]

\* A server's realpath: `..' taken away and links followed.
Canon(tree, p) ==
  FoldLeft(LAMBDA at, n : IF n = Dots THEN (IF at = <<>> THEN at ELSE Front(at))
                          ELSE IF n = <<".">> THEN at
                          ELSE IF Append(at, n) \in DOMAIN tree /\ tree[Append(at, n)].t = "link"
                               THEN tree[Append(at, n)].to ELSE Append(at, n), <<>>, p)
\* stat and lstat: the node at a path, as a set with at most one element.
Stat(tree, p) == {tree[q] : q \in {Canon(tree, p)} \cap DOMAIN tree}
Where(tree, p) == IF p = <<>> THEN p ELSE Append(Canon(tree, Front(p)), Last(p))
LStat(tree, p) == {tree[q] : q \in {Where(tree, p)} \cap DOMAIN tree}
IsDir(tree, p) == \E n \in Stat(tree, p) : n.t = "dir"
Size(tree, p) == IF Stat(tree, p) = {} THEN 0 ELSE Len((CHOOSE n \in Stat(tree, p) : TRUE).data)
Names(tree, p) == {q[Len(q)] : q \in {r \in DOMAIN tree : r # <<>> /\ Front(r) = Canon(tree, p)}}

\* Where an entry may be made, and the trees after the calls that change one.
MayAdd(tree, p) ==
  p # <<>> /\ \E n \in Stat(tree, Front(p)) : n.t = "dir" /\ n.w
With(tree, p, node) == (p :> node) @@ tree
Without(tree, p) == [q \in DOMAIN tree \ {p} |-> tree[q]]
CanMkdir(tree, p) == LStat(tree, p) = {} /\ MayAdd(tree, p)
Mkdir(tree, p, w) == With(tree, Where(tree, p), Dir(w))
\* Opening for writing makes the file, or empties it unless the copy resumes.
CanOpen(tree, p) == \/ \E n \in Stat(tree, p) : n.t = "file"
                    \/ Stat(tree, p) = {} /\ MayAdd(tree, p)
Opened(tree, p, keep) ==
  IF Stat(tree, p) = {} THEN With(tree, Canon(tree, p), File(<<>>))
  ELSE IF keep THEN tree ELSE [tree EXCEPT ![Canon(tree, p)].data = <<>>]
WrittenAt(data, i, v) == [j \in 1 .. (IF i > Len(data) THEN i ELSE Len(data)) |->
                            IF j = i THEN v ELSE IF j \in DOMAIN data THEN data[j] ELSE 0]
CanRemove(tree, p) == LStat(tree, p) # {} /\ (CHOOSE n \in LStat(tree, p) : TRUE).t # "dir" /\ MayAdd(tree, p)
CanRmdir(tree, p) == p # <<>> /\ (\E n \in LStat(tree, p) : n.t = "dir") /\ Names(tree, p) = {} /\ MayAdd(tree, p)

----------------------------------------------------------------------------
(* A command.                                                               *)

NoXfer == [on |-> FALSE, to |-> <<>>, from |-> <<>>, pos |-> 0]
NoCmd == [op |-> "none", flags |-> {}, ignore |-> FALSE, once |-> FALSE, args |-> <<>>, meant |-> {}]
Batch == from.input = "batch"
Puts == cmd.op = "put"
Has(f) == f \in cmd.flags
Src == IF Puts THEN local ELSE remote
Dst == IF Puts THEN remote ELSE local
\* The remote tree is behind a server, and some of it is refused to us.
Refused(p, ours) == ~ours /\ Canon(remote, p) \in from.denied

\* make_absolute of a word that is no pattern, and abs_glob: the working directory is escaped
\* so that only what was typed is a pattern.
abs(w) == IF Absolute(w) THEN Components(w) ELSE pwd \o Components(w)
AbsGlob(w) == IF Absolute(w) THEN Components(w)
              ELSE [i \in DOMAIN pwd |-> escape_glob(pwd[i])] \o Components(w)
labs(w) == IF Absolute(w) THEN Components(w) ELSE lpwd \o Components(w)

\* remote_glob and local_glob: one component after the other; a component without a glob
\* is taken for granted, and what is not there is dropped at the end.
Glob(tree, hidden, base, pattern) ==
  LET Listed(d) == IF Canon(tree, d) \in hidden THEN {} ELSE Names(tree, d)
      Step(at, comp) ==
        UNION {IF has_glob(comp) THEN {Append(d, n) : n \in {m \in Listed(d) : glob_match(comp, m)}}
               ELSE {Append(d, unescape(comp))} : d \in at}
  IN {p \in FoldLeft(Step, {base}, pattern) : LStat(tree, p) # {}}
Literal(pattern) == [i \in DOMAIN pattern |-> unescape(pattern[i])]

Item(op, f, t, depth) ==
  [op |-> op, from |-> f, to |-> t, depth |-> depth, w |-> TRUE, made |-> FALSE, size |-> -1]
Items(op, paths) == [i \in DOMAIN paths |-> Item(op, paths[i], <<>>, 0)]

\* The trees when the command began, and what ^C has let through since it came.
Began == [remote |-> remote, local |-> local, cut |-> FALSE, after |-> 0, changed |-> FALSE]

\* dispatch, at the end: an error ends a batch unless the line began with `-'.
Returns(c, bad) ==
  /\ cmd' = NoCmd /\ work' = <<>> /\ xfer' = NoXfer /\ failed' = FALSE
  /\ IF c.once THEN exit' = IF bad THEN "1" ELSE "0"
     ELSE exit' = IF bad /\ Batch /\ ~c.ignore THEN "1" ELSE exit
  /\ mode' = IF from.input = "terminal" THEN "prompt" ELSE "exit"
  /\ interrupted' = FALSE
  /\ seen' = [seen EXCEPT !.done = [c |-> c, ok |-> ~bad, cut |-> seen.cut, changed |-> seen.changed,
                                   remote |-> seen.remote, local |-> seen.local, pwd |-> pwd, lpwd |-> lpwd]]

\* The command goes on with a list of things to do.
Starts(c, items) ==
  /\ cmd' = c /\ work' = items /\ xfer' = NoXfer /\ failed' = FALSE
  /\ seen' = Began @@ [done |-> seen.done]
  /\ mode' = IF c.once THEN mode ELSE "command"
  /\ interrupted' = FALSE
  /\ UNCHANGED <<exit, remote, local, pwd, lpwd>>

\* basename: the root and `..' are copied into the place itself.
FileName(p) == IF p = <<>> \/ Last(p) = Dots THEN <<".">> ELSE Last(p)

\* process_get and process_put: what the words match, and where it goes.
process_get(c) ==
  LET g == SetToSeq(Glob(remote, from.unlisted, <<>>, AbsGlob(c.args[1])))
      dst == IF Len(c.args) > 1 THEN labs(undo_glob_escape(c.args[2])) ELSE lpwd
  IN IF g = <<>> \/ (Len(g) > 1 /\ Len(c.args) > 1 /\ ~IsDir(local, dst))
     THEN Returns(c, TRUE) /\ UNCHANGED <<remote, local, pwd, lpwd>>
     ELSE Starts(c, [i \in DOMAIN g |-> Item("path", g[i],
                       IF Len(c.args) > 1 /\ Len(g) = 1 /\ ~IsDir(local, dst) THEN dst
                       ELSE Append(dst, FileName(g[i])), 0)])
process_put(c) ==
  LET pattern == Components(c.args[1])
      found == SetToSeq(Glob(local, {}, IF Absolute(c.args[1]) THEN <<>> ELSE lpwd, pattern))
      g == IF found = <<>> THEN <<labs(unescape(c.args[1]))>> ELSE found
      dst == IF Len(c.args) > 1 THEN abs(undo_glob_escape(c.args[2])) ELSE pwd
  IN IF Len(found) > 1 /\ ~IsDir(remote, dst)
     THEN Returns(c, TRUE) /\ UNCHANGED <<remote, local, pwd, lpwd>>
     ELSE Starts(c, [i \in DOMAIN g |-> Item("path", g[i],
                       IF Len(c.args) > 1 /\ Len(found) = 1 /\ ~IsDir(remote, dst) THEN dst
                       ELSE Append(dst, FileName(g[i])), 0)])

\* rm and chmod: a word that matches nothing stands for itself.
Globbed(c, word) ==
  LET g == SetToSeq(Glob(remote, from.unlisted, <<>>, AbsGlob(word)))
  IN Starts(c, Items(c.op, IF g = <<>> THEN <<Literal(AbsGlob(word))>> ELSE g))

----------------------------------------------------------------------------
(* Commands that are done at once.                                          *)

Same == [ok |-> TRUE, remote |-> remote, local |-> local, pwd |-> pwd, lpwd |-> lpwd]
Bad == [Same EXCEPT !.ok = FALSE]
If(can, what) == IF can THEN what ELSE Bad

\* cd: the path must be a directory; without one, back to where the session began.
cd(c) == LET t == IF c.args = <<>> THEN from.home ELSE abs(undo_glob_escape(c.args[1]))
         IN If(IsDir(remote, t), [Same EXCEPT !.pwd = Canon(remote, t)])

\* mkdir, mkpath and local_mkdir_path: with -p every prefix that is no directory is made, until
\* one cannot be.
Made(tree, path, parents) ==
  IF ~parents THEN [ok |-> CanMkdir(tree, path), tree |-> IF CanMkdir(tree, path) THEN Mkdir(tree, path, TRUE) ELSE tree]
  ELSE FoldLeft(LAMBDA s, i : LET p == SubSeq(path, 1, i) IN
                  IF ~s.ok \/ IsDir(s.tree, p) THEN s
                  ELSE [ok |-> CanMkdir(s.tree, p), tree |-> IF CanMkdir(s.tree, p) THEN Mkdir(s.tree, p, TRUE) ELSE s.tree],
                [ok |-> TRUE, tree |-> tree], [i \in 1 .. Len(path) |-> i])
mkdir(c) == LET m == Made(remote, abs(undo_glob_escape(c.args[1])), "p" \in c.flags)
            IN [Same EXCEPT !.ok = m.ok, !.remote = m.tree]
lmkdir(c) == LET m == Made(local, labs(undo_glob_escape(c.args[1])), "p" \in c.flags)
             IN [Same EXCEPT !.ok = m.ok, !.local = m.tree]

rmdir(c) == LET p == abs(undo_glob_escape(c.args[1]))
            IN If(CanRmdir(remote, p), [Same EXCEPT !.remote = Without(@, Where(remote, p))])
lcd(c) == LET t == IF c.args = <<>> THEN <<>> ELSE labs(undo_glob_escape(c.args[1]))
          IN If(IsDir(local, t), [Same EXCEPT !.lpwd = Canon(local, t)])

\* rename: the extension replaces what is at the new name, the request of the protocol (-l) does not.
Moved(tree, a, b) ==
  LET sub == {q \in DOMAIN tree : IsPrefix(a, q)}
      new == {b \o SubSeq(q, Len(a) + 1, Len(q)) : q \in sub}
  IN [q \in (DOMAIN tree \ sub) \cup new |-> IF q \in new THEN tree[a \o SubSeq(q, Len(b) + 1, Len(q))] ELSE tree[q]]
rename(c) ==
  LET a == Where(remote, abs(undo_glob_escape(c.args[1])))
      b == Where(remote, abs(undo_glob_escape(c.args[2])))
  IN If(/\ a \in DOMAIN remote /\ MayAdd(remote, a) /\ MayAdd(remote, b) /\ ~IsPrefix(a, b)
        /\ b \in DOMAIN remote => "l" \notin c.flags /\ remote[b].t # "dir" /\ remote[a].t # "dir",
        [Same EXCEPT !.remote = Moved(@, a, b)])

\* ln -s and symlink: the target is sent as it was typed.
symlink(c) ==
  LET b == Where(remote, abs(undo_glob_escape(c.args[2])))
      to == undo_glob_escape(c.args[1])
  IN If(CanMkdir(remote, b),
        [Same EXCEPT !.remote = With(@, b, Link(IF Absolute(to) THEN Components(to) ELSE Front(b) \o Components(to)))])

\* copy: the server copies between two files it has open.
copy(c) ==
  LET a == abs(undo_glob_escape(c.args[1]))
      b == abs(undo_glob_escape(c.args[2]))
  IN If(/\ \E n \in Stat(remote, a) : n.t = "file"
        /\ ~Refused(a, FALSE) /\ ~Refused(b, FALSE) /\ CanOpen(remote, b),
        [Same EXCEPT !.remote = LET opened == Opened(remote, b, FALSE)
                                IN [opened EXCEPT ![Canon(opened, b)].data = opened[Canon(opened, a)].data]])

\* ls: without a path an error is shown and forgotten; with one, a word that matches nothing is an error.
ls(c) ==
  LET g == Glob(remote, from.unlisted, <<>>, AbsGlob(c.args[1]))
  IN If(c.args = <<>> \/ (g # {} /\ ~(\E p \in g : g = {p} /\ IsDir(remote, p) /\ Canon(remote, p) \in from.unlisted)), Same)

\* pwd, lpwd, help, version, progress, lumask, lls and !: whatever they show, they succeed.
show(c) == Same

AtOnce == {"cd", "mkdir", "lmkdir", "rmdir", "lcd", "rename", "symlink", "copy", "ls", "show"}
run(c) ==
  CASE c.op = "cd" -> cd(c) [] c.op = "mkdir" -> mkdir(c) [] c.op = "lmkdir" -> lmkdir(c)
    [] c.op = "rmdir" -> rmdir(c) [] c.op = "lcd" -> lcd(c) [] c.op = "rename" -> rename(c)
    [] c.op = "symlink" -> symlink(c) [] c.op = "copy" -> copy(c) [] c.op = "ls" -> ls(c) [] c.op = "show" -> show(c)

\* parse_command: the number of words a command needs.
Needs(op) == IF op \in {"rename", "symlink", "copy"} THEN 2
             ELSE IF op \in {"get", "put", "rm", "chmod", "mkdir", "lmkdir", "rmdir"} THEN 1 ELSE 0

----------------------------------------------------------------------------
(* The command loop.                                                        *)

\* run of the program: the connection is up; a path in the destination is entered or fetched.
Init ==
  \E s \in Setups :
    /\ from = [input |-> s.input, denied |-> s.denied, unlisted |-> s.unlisted, home |-> s.home, flags |-> s.flags]
    /\ lines = IF s.first = <<>> THEN s.lines ELSE <<[op |-> "first", text |-> s.first, flags |-> {}, ignore |-> FALSE,
                                                    meant |-> s.meant]>> \o s.lines
    /\ remote = s.remote /\ local = s.local
    /\ pwd = s.home /\ lpwd = <<>>
    /\ mode = (IF s.input = "terminal" THEN "prompt" ELSE "exit") /\ interrupted = FALSE
    /\ cmd = NoCmd /\ work = <<>> /\ xfer = NoXfer /\ failed = FALSE /\ exit = ""
    /\ budget = [f \in {"break", "others", "fail", "lost"} |-> Faults[f]]
    /\ seen = [remote |-> s.remote, local |-> s.local, cut |-> FALSE, after |-> 0, changed |-> FALSE,
               done |-> [c |-> NoCmd, ok |-> TRUE, cut |-> FALSE, changed |-> FALSE, remote |-> s.remote,
                         local |-> s.local, pwd |-> s.home, lpwd |-> <<>>]]

Idle == cmd = NoCmd /\ exit = ""
Same_fs == UNCHANGED <<remote, local, pwd, lpwd>>

\* A line as a command: a path in the destination is entered, or fetched by a command that ends the session.
Words(l) == IF l.op = "first" THEN [err |-> FALSE, out |-> <<Joined(abs(l.text))>>] ELSE split_line(l.text)
parse_command(l, words, dir) ==
  [op |-> IF l.op # "first" THEN l.op ELSE IF dir THEN "cd" ELSE "get", flags |-> l.flags \cup from.flags,
   ignore |-> l.ignore, once |-> l.op = "first" /\ ~dir, args |-> words, meant |-> l.meant]

\* command_loop and dispatch: one line is read, split and begun.
command_loop ==
  /\ Idle /\ lines # <<>> /\ lines' = Tail(lines) /\ UNCHANGED <<from, budget>>
  /\ \E l \in {Head(lines)} : \E w \in {Words(l)} :
     \E c \in {parse_command(l, w.out, IsDir(remote, abs(l.text)))} :
       \/ /\ l.op = "quit" /\ exit' = "0"
          /\ UNCHANGED <<mode, interrupted, cmd, work, xfer, failed, seen>> /\ Same_fs
       \/ l.op # "quit" /\ (w.err \/ Len(w.out) < Needs(c.op)) /\ Returns(c, TRUE) /\ Same_fs
       \/ /\ l.op # "quit" /\ ~w.err /\ Len(w.out) >= Needs(c.op)
          /\ \/ /\ c.op \in AtOnce
                /\ \E r \in {run(c)} :
                     /\ remote' = r.remote /\ local' = r.local /\ pwd' = r.pwd /\ lpwd' = r.lpwd
                     /\ IF l.op = "first" /\ ~r.ok
                        THEN exit' = "1" /\ UNCHANGED <<mode, interrupted, cmd, work, xfer, failed, seen>>
                        ELSE Returns(c, ~r.ok)
             \/ c.op = "get" /\ process_get(c)
             \/ c.op = "put" /\ process_put(c)
             \/ c.op \in {"rm", "chmod"} /\ Globbed(c, c.args[1])

EndOfInput ==
  /\ Idle /\ lines = <<>> /\ exit' = "0"
  /\ UNCHANGED <<from, lines, mode, interrupted, cmd, work, xfer, failed, budget, seen>> /\ Same_fs

\* A command of several steps has done them all, or has broken off.
Done ==
  /\ cmd # NoCmd /\ exit = "" /\ work = <<>> /\ ~xfer.on
  /\ Returns(cmd, failed) /\ Same_fs /\ UNCHANGED <<from, lines, budget>>

----------------------------------------------------------------------------
(* The steps of get, put, rm and chmod.                                     *)

Running == cmd # NoCmd /\ exit = ""
Turn(op) == Running /\ ~xfer.on /\ work # <<>> /\ Head(work).op = op
Replace(items) == work' = items \o Tail(work)
Keeps == UNCHANGED <<from, lines, mode, interrupted, pwd, lpwd, cmd, exit, budget>>
\* What changes after ^C.
Noted == seen' = [seen EXCEPT !.after = @ + IF interrupted THEN 1 ELSE 0]

Unpicked == {"path", "entrydir", "entryfile", "entrylink", "rm", "chmod"}

\* The loops ask for ^C before each thing they begin.  Of a directory's entries links are left
\* out, and what was asked for by name is a directory or not at this moment.
Pick ==
  /\ Running /\ ~xfer.on /\ work # <<>> /\ Head(work).op \in Unpicked
  /\ LET i == Head(work)
         dir == IsDir(Src, i.from) /\ Has("r")
         next == CASE i.op = "path" -> IF dir THEN "dir" ELSE "file"
                   [] i.op = "entrydir" -> "dir" [] i.op = "entryfile" -> "file"
                   [] i.op = "rm" -> "remove" [] i.op = "chmod" -> "setstat" [] OTHER -> "none"
         missing == i.op = "path" /\ Puts /\ Stat(Src, i.from) = {}
     IN IF interrupted \/ i.op = "entrylink" \/ missing
        THEN /\ Replace(<<>>) /\ failed' = (failed \/ (missing /\ ~interrupted))
             /\ seen' = [seen EXCEPT !.cut = @ \/ (interrupted /\ i.op # "entrylink")]
        ELSE /\ Replace(<<[i EXCEPT !.op = next,
                           !.from = IF next = "dir" /\ i.op = "path" /\ ~Puts THEN Canon(remote, @) ELSE @,
                           !.to = IF next = "dir" /\ i.op = "path" /\ Puts THEN Canon(remote, @) ELSE @]>>)
             /\ UNCHANGED <<failed, seen>>
  /\ Keeps /\ UNCHANGED <<xfer, remote, local>>

Fails == failed' = TRUE /\ UNCHANGED xfer

\* download_dir_at and upload_dir_at, on the way in: the directory is made writable for us, whatever
\* its mode, and its entries are put before what is left to do.  A local name that exists passes for
\* the directory; a remote one must be one.
EnterDir ==
  /\ Turn("dir")
  /\ LET i == Head(work)
         bad == i.depth >= MaxDepth \/ ~IsDir(Src, i.from)
         mode0 == (CHOOSE n \in Stat(Src, i.from) : TRUE).w
         makes == CanMkdir(Dst, i.to)
         there == IF Puts THEN IsDir(remote, i.to) ELSE LStat(local, i.to) # {}
         tree == IF makes THEN Mkdir(Dst, i.to, TRUE) ELSE Dst
         unread == ~Puts /\ Canon(remote, i.from) \in from.unlisted
         entries == IF interrupted /\ ~Puts THEN {} ELSE Names(Src, i.from)
         Entry(n) == LET q == Append(Canon(Src, i.from), n) IN
           [Item("entry" \o Src[q].t, q, Append(i.to, n), i.depth + 1) EXCEPT !.size = Len(Src[q].data)]
     IN IF bad \/ ~(makes \/ there)
        THEN Fails /\ Replace(<<>>) /\ UNCHANGED <<remote, local, seen>>
        ELSE /\ IF Puts THEN remote' = tree /\ UNCHANGED local ELSE local' = tree /\ UNCHANGED remote
             /\ IF unread THEN Fails /\ Replace(<<>>) /\ UNCHANGED seen
                ELSE /\ Replace(SetToSeq({Entry(n) : n \in entries})
                                \o <<[Item("leave", <<>>, i.to, 0) EXCEPT !.w = mode0, !.made = makes]>>)
                     /\ seen' = [seen EXCEPT !.cut = @ \/ (interrupted /\ entries # Names(Src, i.from))]
                     /\ UNCHANGED <<failed, xfer>>
  /\ Keeps

\* ... and on the way out, whatever became of the entries: the mode is set to the source's.
Leave ==
  /\ Turn("leave")
  /\ LET i == Head(work)
         sets == IF Puts THEN i.made \/ Has("p") ELSE ~i.w
         tree == IF sets /\ IsDir(Dst, i.to) THEN [Dst EXCEPT ![Canon(Dst, i.to)].w = i.w] ELSE Dst
     IN IF Puts THEN remote' = tree /\ UNCHANGED local ELSE local' = tree /\ UNCHANGED remote
  /\ Replace(<<>>) /\ Keeps /\ UNCHANGED <<xfer, failed, seen>>

\* download and download_at, upload and upload_at, until both files are open.  A resumed copy is refused
\* when there is already more (for put, as much) at the other end.
ResumeRefused(i) ==
  /\ Has("a")
  /\ IF Puts THEN Stat(remote, i.to) = {} \/ Size(remote, i.to) >= Size(local, i.from)
     ELSE Size(local, i.to) > (IF i.size >= 0 THEN i.size ELSE Size(remote, i.from))
          \/ Size(local, i.to) > Size(remote, i.from)
OpenFile ==
  /\ Turn("file")
  /\ LET i == Head(work)
         can == /\ \E n \in Stat(Src, i.from) : n.t = "file"
                /\ ~ResumeRefused(i)
                /\ ~Refused(IF Puts THEN i.to ELSE i.from, FALSE)
                /\ CanOpen(Dst, i.to)
         tree == Opened(Dst, i.to, Has("a"))
     IN IF can
        THEN /\ IF Puts THEN remote' = tree /\ UNCHANGED local ELSE local' = tree /\ UNCHANGED remote
             /\ xfer' = [on |-> TRUE, from |-> Canon(Src, i.from), to |-> Canon(tree, i.to),
                         pos |-> IF Has("a") THEN Size(Dst, i.to) ELSE 0]
             /\ Noted /\ UNCHANGED failed
        ELSE Fails /\ UNCHANGED <<remote, local, seen>>
  /\ Replace(<<>>) /\ Keeps

\* One piece: ^C is asked for before it is written (get) or read (put).
Broken == failed' = TRUE /\ xfer' = NoXfer /\ UNCHANGED <<remote, local>>
          /\ seen' = [seen EXCEPT !.cut = @ \/ interrupted]
Chunk ==
  /\ Running /\ xfer.on /\ xfer.pos < Len(Src[xfer.from].data)
  /\ IF interrupted THEN Broken
     ELSE LET at == xfer.pos + 1
              tree == [Dst EXCEPT ![xfer.to].data = WrittenAt(@, at, Src[xfer.from].data[at])]
          IN /\ IF Puts THEN remote' = tree /\ UNCHANGED local ELSE local' = tree /\ UNCHANGED remote
             /\ xfer' = [xfer EXCEPT !.pos = at] /\ UNCHANGED <<failed, seen>>
  /\ Keeps /\ UNCHANGED work

\* The end of the source; put reads once more to find it.
CloseFile ==
  /\ Running /\ xfer.on /\ xfer.pos >= Len(Src[xfer.from].data)
  /\ IF Puts /\ interrupted THEN Broken
     ELSE xfer' = NoXfer /\ UNCHANGED <<remote, local, failed, seen>>
  /\ Keeps /\ UNCHANGED work

\* rm and chmod: the error of the last one counts, and a batch stops at the first.
Acts(ok, tree) ==
  /\ remote' = IF ok THEN tree ELSE remote
  /\ failed' = ~ok
  /\ work' = IF ~ok /\ Batch /\ ~cmd.ignore THEN <<>> ELSE Tail(work)
  /\ Noted /\ Keeps /\ UNCHANGED <<xfer, local>>
RemoveOne == Turn("remove") /\ LET p == Head(work).from IN Acts(CanRemove(remote, p), Without(remote, Where(remote, p)))
SetStat ==
  /\ Turn("setstat")
  /\ LET p == Head(work).from
     IN Acts(Stat(remote, p) # {}, [remote EXCEPT ![Canon(remote, p)].w = FALSE])

----------------------------------------------------------------------------
(* What happens to the program.                                             *)

Spend(f) == budget[f] > 0 /\ budget' = [budget EXCEPT ![f] = @ - 1]

\* SIGINT: what it does depends on what the program is doing.
Interrupt ==
  /\ exit = "" /\ Spend("break")
  /\ IF mode = "exit" THEN exit' = "1" /\ UNCHANGED interrupted
     ELSE interrupted' = TRUE /\ UNCHANGED exit
  /\ UNCHANGED <<from, lines, mode, pwd, lpwd, remote, local, cmd, work, xfer, failed, seen>>

\* Another client writes a file while a command runs.
Others ==
  /\ Running /\ Spend("others")
  /\ \E p \in DOMAIN remote, d \in Rewritten :
       /\ remote[p].t = "file" /\ remote' = [remote EXCEPT ![p].data = d]
  /\ seen' = [seen EXCEPT !.changed = TRUE]
  /\ UNCHANGED <<from, lines, mode, interrupted, pwd, lpwd, local, cmd, work, xfer, failed, exit>>

\* A read or a write of the copy fails.
CopyFails ==
  /\ Running /\ xfer.on /\ Spend("fail")
  /\ failed' = TRUE /\ xfer' = NoXfer
  /\ UNCHANGED <<from, lines, mode, interrupted, pwd, lpwd, remote, local, cmd, work, exit, seen>>

\* connection_lost: any request may find that the connection is gone.
Lost ==
  /\ Running /\ Spend("lost") /\ exit' = "255"
  /\ UNCHANGED <<from, lines, mode, interrupted, pwd, lpwd, remote, local, cmd, work, xfer, failed, seen>>

Ended == exit # "" /\ UNCHANGED vars

Next == \/ command_loop \/ EndOfInput \/ Done \/ Pick \/ EnterDir \/ Leave \/ OpenFile \/ Chunk \/ CloseFile
        \/ RemoveOne \/ SetStat \/ Interrupt \/ Others \/ CopyFails \/ Lost \/ Ended

Spec == Init /\ [][Next]_vars

----------------------------------------------------------------------------
\* Everything below a path of a tree that a copy reaches: links are left out.
Below(tree, p) == {q \in DOMAIN tree : IsPrefix(p, q) /\ \A k \in Len(p) + 1 .. Len(q) : tree[SubSeq(q, 1, k)].t # "link"}
\* What was copied is as the source was when the command began; a file that was resumed only if what
\* was there was its beginning; a directory's mode only if the command made it.
Arrived(src, before, after, p, to) ==
  \A q \in Below(src, p) :
    LET r == to \o SubSeq(q, Len(p) + 1, Len(q)) IN
      \/ src[q].t = "file" /\ LStat(before, r) # {} /\ ~IsPrefix(before[r].data, src[q].data)
      \/ /\ r \in DOMAIN after /\ after[r].t = src[q].t /\ after[r].data = src[q].data
         /\ src[q].t = "dir" /\ r \notin DOMAIN before => after[r].w = src[q].w

\* A command that reports success has done all that its words stood for: every file is there,
\* whole, with the directories' modes put back, or removed.  This is about dispatch and the results
\* that download_dir_at, upload_dir_at and the loops of run hand up, with a failure at any depth; a
\* command that ^C cut short, or whose sources others changed, is not meant.
DoneAsMeant ==
  LET d == seen.done
      src == IF d.c.op = "put" THEN d.local ELSE d.remote
      base == IF d.c.op = "put" THEN d.lpwd ELSE d.pwd
      before == IF d.c.op = "put" THEN d.remote ELSE d.local
      after == IF d.c.op = "put" THEN remote ELSE local
      To(n) == (IF d.c.op = "put" THEN d.pwd ELSE d.lpwd) \o <<n>>
  IN cmd = NoCmd /\ exit \in {"", "0"} /\ d.ok /\ ~d.cut /\ ~d.changed =>
       /\ d.c.op \in {"get", "put"} /\ Len(d.c.args) = 1 =>
            \A n \in d.c.meant : base \o <<n>> \in DOMAIN src /\ src[base \o <<n>>].t # "link"
                                 => Arrived(src, before, after, base \o <<n>>, To(n))
       /\ d.c.op = "rm" /\ Batch /\ ~d.c.ignore => \A n \in d.c.meant : d.pwd \o <<n>> \notin DOMAIN remote

\* A command touches nothing but what its words stood for: a quoted `*' is a name, a bare one all of
\* them, also in a directory whose own name has a `*'.  This is about split_line, abs_glob and the
\* unescaping of each command.
OnlyMeant ==
  LET Tops(base) == {base \o <<n>> : n \in cmd.meant}
      Changed(t, u) == {p \in DOMAIN t \cup DOMAIN u : p \notin DOMAIN t \/ p \notin DOMAIN u \/ t[p] # u[p]}
  IN /\ cmd.op \in {"rm", "chmod"} /\ ~seen'.changed => Changed(remote, remote') \subseteq Tops(pwd)
     /\ cmd.op = "get" /\ Len(cmd.args) = 1 =>
          \A p \in Changed(local, local') : \E t \in Tops(lpwd) : IsPrefix(t, p)

\* After ^C a command begins at most one more file, the one it was about to open; this is about the
\* checks between the entries of a directory, between the paths of a command and in each piece copied.
AtMostOneMore == seen.after <= 1
=============================================================================
