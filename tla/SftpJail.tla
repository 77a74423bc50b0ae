------------------------------ MODULE SftpJail ------------------------------
(***************************************************************************)
(* Paths and the jail of an SFTP server session: sftp/path.rs and the      *)
(* operations of sftp/server.rs that change the tree or show paths.        *)
(*                                                                         *)
(* A path is a sequence of names.  resolve works on names only; the kernel *)
(* walks the tree and follows the symbolic links it meets on the way.      *)
(***************************************************************************)
EXTENDS Integers, Sequences, FiniteSets, SequencesExt, TLC

CONSTANTS
    Names,      \* names of files
    Root,       \* the jail: a clean path, and the session's directory
    Hide,       \* hide_jail_in_realpath
    MaxDepth,   \* depth of the tree below the jail
    RawPaths,   \* what a client sends: [abs, comps] with "." and ".." among comps
    AskedPaths, \* the same, for REALPATH
    Targets,    \* what a client sends as the target of a link
    Planted     \* targets of links that others put into the jail

VARIABLES
    tree,       \* path below the jail |-> [k, t]: "none", "dir", "file", or "link" to t
    acted,      \* where the kernel did the last operation
    shown       \* what the last REALPATH was asked and answered

vars == <<tree, acted, shown>>

Up == ".."
Dot == "."
NoLink == [abs |-> FALSE, comps |-> <<>>]
Absent == [k |-> "none", t |-> NoLink]
Dir == [k |-> "dir", t |-> NoLink]
File == [k |-> "file", t |-> NoLink]
Link(t) == [k |-> "link", t |-> t]

Below == UNION {[1..n -> Names] : n \in 1..MaxDepth}
Slots == {Root \o p : p \in Below}

\* What REALPATH answers for a resolved path.
Display(p) == IF Hide THEN SubSeq(p, Len(Root) + 1, Len(p)) ELSE p

Init ==
    /\ tree = [p \in Slots |-> Absent]
    /\ acted = Root
    /\ shown = [asked |-> Root, path |-> Root, answer |-> Display(Root)]

-----------------------------------------------------------------------------
(* sftp/path.rs                                                            *)

\* Collapse "." and "..", never above the root.
lexically_clean(p) ==
    FoldLeft(LAMBDA out, c : CASE c = Dot -> out
                               [] c = Up -> IF out = <<>> THEN out ELSE Front(out)
                               [] OTHER -> Append(out, c),
             <<>>, p)

is_inside(child, parent) == IsPrefix(parent, child)

\* Mutant of resolve: the path is joined to the directory and not cleaned.
resolveRaw(raw) ==
    LET joined == IF raw.abs THEN raw.comps ELSE Root \o raw.comps IN
    [ok |-> is_inside(joined, Root), path |-> joined]

resolve(raw) ==
    LET joined == IF raw.abs THEN raw.comps ELSE Root \o raw.comps
        clean == lexically_clean(joined)
    IN  [ok |-> is_inside(clean, Root), path |-> clean]

-----------------------------------------------------------------------------
(* The kernel (external).                                                  *)

Node(p) == IF p \in Slots THEN tree[p] ELSE IF p = Root THEN Dir ELSE Absent

\* Follow path todo from directory cur; every link on the way costs fuel.
\* Outside the jail there is something at every name.
Step(w) ==
    LET c == Head(w.todo)
        rest == Tail(w.todo)
        at == Append(w.cur, c)
    IN  CASE c = Dot -> [w EXCEPT !.todo = rest]
          [] c = Up -> [w EXCEPT !.todo = rest,
                                 !.cur = IF w.cur = <<>> THEN <<>> ELSE Front(w.cur)]
          [] Node(at).k = "link" /\ (rest # <<>> \/ w.follow) ->
                [w EXCEPT !.todo = Node(at).t.comps \o rest,
                          !.cur = IF Node(at).t.abs THEN <<>> ELSE w.cur]
          [] OTHER -> [w EXCEPT !.todo = rest, !.cur = at]

MaxSteps == 8

Walk(p, follow) ==
    LET f[n \in 0..MaxSteps] ==
            IF n = 0 THEN [cur |-> <<>>, todo |-> p, follow |-> follow]
            ELSE LET w == f[n - 1] IN IF w.todo = <<>> THEN w ELSE Step(w)
        w == f[MaxSteps]
    IN  [ok |-> w.todo = <<>>, path |-> w.cur]

\* The directory that holds p exists.
HasParent(p) == p # <<>> /\ (Front(p) = Root \/ Node(Front(p)).k = "dir")

Children(p) == {q \in Slots : p # q /\ IsPrefix(p, q) /\ tree[q].k # "none"}

-----------------------------------------------------------------------------
(* Operations of the session.                                              *)

\* In a jail a link may only point downwards from where it is.
LinkAllowed(link, t) == ~t.abs /\ \A i \in 1..Len(t.comps) : t.comps[i] # Up

op_symlink(raw, t) ==
    LET r == resolve(raw) IN
    /\ r.ok /\ LinkAllowed(r.path, t)
    /\ LET w == Walk(r.path, FALSE) IN
       /\ w.ok /\ acted' = w.path
       /\ IF HasParent(w.path) /\ w.path \in Slots /\ Node(w.path).k = "none"
          THEN tree' = [tree EXCEPT ![w.path] = Link(t)]
          ELSE UNCHANGED tree
    /\ UNCHANGED shown

op_mkdir(raw) ==
    LET r == resolve(raw)
        w == Walk(r.path, FALSE)
    IN  /\ r.ok /\ w.ok /\ acted' = w.path
        /\ IF HasParent(w.path) /\ w.path \in Slots /\ Node(w.path).k = "none"
           THEN tree' = [tree EXCEPT ![w.path] = Dir]
           ELSE UNCHANGED tree
        /\ UNCHANGED shown

\* The last component must not be a link.
reject_symlink_when_jailed(w) == Node(w.path).k # "link"

\* Removes a file or an empty directory.
op_remove(raw) ==
    LET r == resolve(raw)
        w == Walk(r.path, FALSE)
    IN  /\ r.ok /\ w.ok /\ acted' = w.path
        /\ IF /\ reject_symlink_when_jailed(w)
              /\ w.path \in Slots /\ Children(w.path) = {}
           THEN tree' = [tree EXCEPT ![w.path] = Absent]
           ELSE UNCHANGED tree
        /\ UNCHANGED shown

\* Moves a file or a whole directory to a free name.
op_rename(raw1, raw2) ==
    LET r1 == resolve(raw1)
        r2 == resolve(raw2)
        from == Walk(r1.path, FALSE)
        to == Walk(r2.path, FALSE)
        moved(q) == to.path \o SubSeq(q, Len(from.path) + 1, Len(q))
        source == {from.path} \cup Children(from.path)
    IN  /\ r1.ok /\ r2.ok /\ from.ok /\ to.ok /\ acted' = to.path
        /\ IF /\ reject_symlink_when_jailed(from) /\ reject_symlink_when_jailed(to)
              /\ from.path \in Slots /\ Node(from.path).k # "none"
              /\ HasParent(to.path) /\ to.path \in Slots /\ Node(to.path).k = "none"
              /\ ~IsPrefix(from.path, to.path)
              /\ \A q \in source : moved(q) \in Slots
           THEN tree' = [q \in Slots |->
                           IF \E s \in source : q = moved(s)
                           THEN tree[CHOOSE s \in source : q = moved(s)]
                           ELSE IF q \in source THEN Absent ELSE tree[q]]
           ELSE UNCHANGED tree
        /\ UNCHANGED shown

\* OPEN for writing, with O_NOFOLLOW in a jail.
op_open(raw) ==
    LET r == resolve(raw)
        w == Walk(r.path, FALSE)
    IN  /\ r.ok /\ w.ok /\ acted' = w.path
        /\ IF HasParent(w.path) /\ w.path \in Slots /\ Node(w.path).k = "none"
           THEN tree' = [tree EXCEPT ![w.path] = File]
           ELSE UNCHANGED tree
        /\ UNCHANGED shown

op_realpath(raw) ==
    LET r == resolve(raw) IN
    /\ r.ok
    /\ shown' = [asked |-> raw.comps, path |-> r.path, answer |-> Display(r.path)]
    /\ UNCHANGED <<tree, acted>>

\* What READLINK answers for a link: nothing when the target leaves the jail.
op_readlink(p) ==
    LET t == Node(p).t
        cleaned == lexically_clean(IF t.abs THEN t.comps ELSE Front(p) \o t.comps)
    IN  IF ~is_inside(cleaned, Root) THEN NoLink
        ELSE IF t.abs THEN [abs |-> TRUE, comps |-> Display(cleaned)] ELSE t

\* Others put a link into the jail behind the session's back.
PlantLink(p, t) ==
    /\ HasParent(p) /\ tree[p].k = "none"
    /\ tree' = [tree EXCEPT ![p] = Link(t)]
    /\ UNCHANGED <<acted, shown>>

Next ==
    \/ \E raw \in RawPaths : op_mkdir(raw) \/ op_remove(raw) \/ op_open(raw)
    \/ \E raw \in AskedPaths : op_realpath(raw)
    \/ \E raw \in RawPaths, t \in Targets : op_symlink(raw, t)
    \/ \E r1, r2 \in RawPaths : op_rename(r1, r2)
    \/ \E p \in Slots, t \in Planted : PlantLink(p, t)

Spec == Init /\ [][Next]_vars

-----------------------------------------------------------------------------
\* "Downward-only links cannot escape whatever they are chained with or
\* wherever they are moved": the kernel does every operation of the session
\* inside the jail, through whatever links the session made before.
ActsInside == is_inside(acted, Root)

\* The same for any path the session lets pass, its last link followed.
LinksLeadInside ==
    \A p \in Slots : tree[p].k # "none" =>
        LET w == Walk(p, TRUE) IN w.ok => is_inside(w.path, Root)

\* What an answer of the server stands for: with the jail hidden, an absolute
\* path starts there.
Stands(dir, a) ==
    lexically_clean(IF ~a.abs THEN dir \o a.comps ELSE IF Hide THEN Root \o a.comps ELSE a.comps)

\* READLINK shows no target outside the jail, and one inside as what it is,
\* wherever the link and whoever put it there.
ReadlinkShowsInside ==
    \A p \in Slots : tree[p].k = "link" =>
        LET t == tree[p].t
            to == lexically_clean(IF t.abs THEN t.comps ELSE Front(p) \o t.comps)
            a == op_readlink(p)
        IN  IF is_inside(to, Root) THEN Stands(Front(p), a) = to ELSE a = NoLink

\* The path REALPATH answers, sent back, names what was asked for: what a client
\* that keeps the answer as its directory relies on.  With the jail hidden, the
\* default, that is so of the path read from the jail; sent back as it was
\* answered, with its slash, it is a path of the host, which resolve refuses.
RealpathRoundTrip ==
    LET r == resolve([abs |-> ~Hide, comps |-> shown.answer])
    IN  r.ok /\ r.path = shown.path
=============================================================================
