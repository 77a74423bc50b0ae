----------------------------- MODULE SftpServer -----------------------------
(***************************************************************************)
(* The requests of one SFTP server session on the files of one directory:  *)
(* the handle table of sftp/server.rs, and what each request does to the   *)
(* directory and to the files behind its names.                            *)
(*                                                                         *)
(* A file is an inode; a name leads to one, two names may lead to the same *)
(* (hard links), and a handle keeps one.  Contents are sequences of marks, *)
(* modes are "plain" or "special" (with a setuid, setgid or sticky bit).   *)
(***************************************************************************)
EXTENDS Integers, Sequences, FiniteSets, SequencesExt, FiniteSetsExt, Functions, TLC

CONSTANTS
    Names, Inodes,  \* names in the directory; inodes (a bound)
    Jailed,         \* a jail root is set
    ReadOnly,       \* read_only
    AllowSpecial,   \* allow_special_bits
    MaxHandles,     \* max_handles
    IdSpace,        \* number of handle ids before they wrap (2^64 in the code)
    MaxSetLen,      \* max_set_len
    MaxData,        \* bound on the length of a file
    Batch,          \* entries of one READDIR answer (128 in the code)
    Ops,            \* the requests the client sends
    OpenFlags,      \* the flags it opens files with
    OthersMay       \* what others do to the directory: a subset of {"link", "remove"}

VARIABLES
    name,       \* name |-> inode, or NoFile
    node,       \* inode |-> [k, data, mode, to]
    handles,    \* id |-> [k, ino, name, append, write, todo, eof, since]
    next,       \* the next handle id
    last        \* the last request: [op, ino, missed]

vars == <<name, node, handles, next, last>>

NoFile == 0
Nobody == [op |-> "request", ino |-> NoFile, missed |-> {}]
Blank == [k |-> "file", data |-> <<>>, mode |-> "plain", to |-> "none"]
Empty == [x \in {} |-> 0]

Init ==
    /\ name = [n \in Names |-> NoFile]
    /\ node = [i \in Inodes |-> Blank]
    /\ handles = Empty /\ next = 1
    /\ last = Nobody

Present(n) == name[n] # NoFile
Kind(n) == IF Present(n) THEN node[name[n]].k ELSE "none"
Free == {i \in Inodes : /\ \A n \in Names : name[n] # i
                        /\ \A h \in DOMAIN handles : handles[h].ino # i}
\* A file that no name and no handle leads to any more is gone.
Reclaim(names, hs) ==
    [i \in Inodes |-> IF \/ \E n \in Names : names[n] = i
                         \/ \E h \in DOMAIN hs : hs[h].ino = i
                      THEN node[i] ELSE Blank]

\* The requests the properties look back at.
Watched == {"copy"}
Done(op, ok, i) ==
    last' = IF ok /\ op \in Watched THEN [op |-> op, ino |-> i, missed |-> {}] ELSE Nobody
Refuse(op) == Done(op, FALSE, NoFile) /\ UNCHANGED <<name, node, handles, next>>

\* A link leads to another name; a chain of two is one too many here.
Follow(n) == IF Kind(n) = "link" THEN node[name[n]].to ELSE n
FollowedKind(n) == IF Kind(Follow(n)) = "link" THEN "none" ELSE Kind(Follow(n))

-----------------------------------------------------------------------------
(* Handles.                                                                *)

\* Mutant of FreshId: the counter is trusted.
FreshIdUnchecked == next

\* The first id from next on that is not in use.
FreshId ==
    LET f[k \in 0..IdSpace] ==
            LET id == ((next - 1 + k) % IdSpace) + 1
            IN  IF id \notin DOMAIN handles \/ k = IdSpace THEN id ELSE f[k + 1]
    IN  f[0]

alloc_handle(op, i, rec) ==
    IF Cardinality(DOMAIN handles) >= MaxHandles
    THEN Done(op, FALSE, i) /\ UNCHANGED <<handles, next>>
    ELSE /\ handles' = (FreshId :> rec) @@ handles
         /\ next' = (FreshId % IdSpace) + 1
         /\ Done(op, TRUE, i)

Handle(k, i, n, app, w, todo) ==
    [k |-> k, ino |-> i, name |-> n, append |-> app, write |-> w,
     todo |-> todo, eof |-> FALSE, since |-> IF k = "dir" THEN {x \in Names : Present(x)} ELSE {}]

mask_mode(m) == IF AllowSpecial THEN m ELSE "plain"

require_writable == ~ReadOnly

OpenWants(f) == f.write \/ f.append

\* What OpenOptions::open refuses: no access at all, creating or truncating
\* without writing, truncating while appending.
OptionsValid(f) ==
    /\ f.read \/ OpenWants(f)
    /\ f.creat \/ f.trunc \/ f.excl => OpenWants(f)
    /\ f.append /\ f.trunc => f.excl

\* The file is opened, created or truncated before a handle is looked for.
op_open(n, f, mode) ==
    LET at == IF Jailed \/ f.excl THEN n ELSE Follow(n)
        rec(i) == Handle("file", i, n, f.append, OpenWants(f), <<>>)
    IN
    IF (OpenWants(f) /\ ~require_writable) \/ ~OptionsValid(f) THEN Refuse("open")
    ELSE IF Kind(at) = "none" /\ (f.creat \/ f.excl)
    THEN \E i \in Free :
            /\ name' = [name EXCEPT ![at] = i]
            /\ node' = [node EXCEPT ![i] = [Blank EXCEPT !.mode = mask_mode(mode)]]
            /\ alloc_handle("open", i, rec(i))
    ELSE IF Kind(at) \in {"none", "link"} \/ f.excl \/ (Kind(at) = "dir" /\ OpenWants(f))
    THEN Refuse("open")
    ELSE /\ node' = [node EXCEPT ![name[at]].data = IF f.trunc THEN <<>> ELSE @]
         /\ UNCHANGED name
         /\ alloc_handle("open", name[at], rec(name[at]))

op_close(h) ==
    IF h \notin DOMAIN handles THEN Refuse("close")
    ELSE /\ handles' = Restrict(handles, DOMAIN handles \ {h})
         /\ node' = Reclaim(name, handles')
         /\ Done("close", TRUE, NoFile)
         /\ UNCHANGED <<name, next>>

\* READ, FSTAT, FSYNC and the file system's numbers change nothing.
op_read(h) ==
    /\ Done("read", h \in DOMAIN handles /\ handles[h].k = "file", NoFile)
    /\ UNCHANGED <<name, node, handles, next>>

\* Write mark m over or behind what is there.
Put(data, off, m) ==
    IF off < Len(data) THEN [data EXCEPT ![off + 1] = m]
    ELSE data \o [i \in 1..(off - Len(data)) |-> 0] \o <<m>>

WriteAt(h, off) ==
    LET r == handles[h] IN
    [node EXCEPT ![r.ino].data = Put(@, IF r.append THEN Len(@) ELSE off, 1)]

op_write(h, off) ==
    IF ~require_writable \/ h \notin DOMAIN handles THEN Refuse("write")
    ELSE IF handles[h].k # "file" \/ ~handles[h].write THEN Refuse("write")
    ELSE /\ node' = WriteAt(h, off)
         /\ Len(node'[handles[h].ino].data) <= MaxData
         /\ Done("write", TRUE, handles[h].ino)
         /\ UNCHANGED <<name, handles, next>>

-----------------------------------------------------------------------------
(* Attributes: a size, a mode, or both, the size first.                    *)

Attrs == [size : {-1} \cup 0..(MaxSetLen + 1), mode : {"none", "plain", "special"}]

SetLen(data, len) ==
    IF len <= Len(data) THEN SubSeq(data, 1, len)
    ELSE data \o [i \in 1..(len - Len(data)) |-> 0]

\* The file the attributes of name n are set on.
AttrsAt(n, nofollow) == IF nofollow THEN n ELSE Follow(n)

apply_attrs(op, n, a, nofollow) ==
    LET at == AttrsAt(n, nofollow)
        i == name[at]
    IN
    IF a.size > MaxSetLen \/ Kind(at) \in {"none", "link"} \/ (a.size >= 0 /\ Kind(at) = "dir")
    THEN Refuse(op)
    ELSE /\ node' = [node EXCEPT
                       ![i].data = IF a.size >= 0 THEN SetLen(@, a.size) ELSE @,
                       ![i].mode = IF a.mode = "none" THEN @ ELSE mask_mode(a.mode)]
         /\ Done(op, TRUE, i)
         /\ UNCHANGED <<name, handles, next>>

op_setstat(n, a) ==
    IF ~require_writable THEN Refuse("setstat") ELSE apply_attrs("setstat", n, a, Jailed)

\* lsetstat: never follows; neither size nor mode of a link can be set.
op_ext_lsetstat(n, a) ==
    IF ~require_writable THEN Refuse("lsetstat") ELSE apply_attrs("lsetstat", n, a, TRUE)

\* FSETSTAT goes by the name the handle was opened with; a directory handle is
\* one of the directory itself, whose own mode is not kept here.
op_fsetstat(h, a) ==
    IF ~require_writable \/ h \notin DOMAIN handles THEN Refuse("fsetstat")
    ELSE IF handles[h].k = "dir"
    THEN Done("fsetstat", a.size < 0, NoFile) /\ UNCHANGED <<name, node, handles, next>>
    ELSE apply_attrs("fsetstat", handles[h].name, a, Jailed)

-----------------------------------------------------------------------------
(* Names.                                                                  *)

\* Directory entries come in some order.
op_opendir ==
    /\ alloc_handle("opendir", NoFile,
           Handle("dir", NoFile, "none", FALSE, FALSE,
                  SetToSeq({n \in Names : Present(n)})))
    /\ UNCHANGED <<name, node>>

\* Entries that have gone in the meantime are passed over; an answer without
\* entries is the end.
op_readdir(h) ==
    IF h \notin DOMAIN handles THEN Refuse("readdir")
    ELSE IF handles[h].k # "dir" \/ handles[h].eof THEN Refuse("readdir")
    ELSE LET r == handles[h]
             taken == SubSeq(r.todo, 1, Min({Batch, Len(r.todo)}))
             rest == SubSeq(r.todo, Min({Batch, Len(r.todo)}) + 1, Len(r.todo))
             entries == SelectSeq(taken, Present)
             end == Len(r.todo) < Batch \/ entries = <<>>
         IN  /\ handles' = [handles EXCEPT ![h].todo = rest, ![h].eof = end,
                              ![h].since = {n \in @ : Present(n) /\ \A k \in DOMAIN entries : entries[k] # n}]
             /\ last' = [Nobody EXCEPT
                         !.missed = IF end THEN handles'[h].since ELSE {}]
             /\ UNCHANGED <<name, node, next>>

\* A name vanishes from the directory: nobody waits to see it listed.
Unlisted(n) == [h \in DOMAIN handles |-> [handles[h] EXCEPT !.since = @ \ {n}]]

\* REMOVE and RMDIR; in a jail not of a link.
op_remove(n) ==
    IF ~require_writable \/ ~Present(n) \/ (Jailed /\ Kind(n) = "link") THEN Refuse("remove")
    ELSE /\ name' = [name EXCEPT ![n] = NoFile]
         /\ handles' = Unlisted(n)
         /\ node' = Reclaim(name', handles')
         /\ Done("remove", TRUE, name[n])
         /\ UNCHANGED next

op_mkdir(n, mode) ==
    IF ~require_writable \/ Present(n) THEN Refuse("mkdir")
    ELSE \E i \in Free :
            /\ name' = [name EXCEPT ![n] = i]
            /\ node' = [node EXCEPT ![i] = [Blank EXCEPT !.k = "dir", !.mode = mask_mode(mode)]]
            /\ Done("mkdir", TRUE, i)
            /\ UNCHANGED <<handles, next>>

op_symlink(n, t) ==
    IF ~require_writable \/ Present(n) THEN Refuse("symlink")
    ELSE \E i \in Free :
            /\ name' = [name EXCEPT ![n] = i]
            /\ node' = [node EXCEPT ![i] = [Blank EXCEPT !.k = "link", !.to = t]]
            /\ Done("symlink", TRUE, i)
            /\ UNCHANGED <<handles, next>>

\* Path::exists follows a link, so one that leads nowhere does not exist.
Exists(n) == FollowedKind(n) # "none"

Move(op, n, m) ==
    /\ name' = IF name[n] = name[m] THEN name
               ELSE [name EXCEPT ![m] = name[n], ![n] = NoFile]
    /\ handles' = IF name[n] = name[m] THEN handles ELSE Unlisted(n)
    /\ node' = Reclaim(name', handles')
    /\ Done(op, TRUE, IF name[n] = name[m] THEN NoFile ELSE name[m])
    /\ UNCHANGED next

RenameAllowed(n, m) ==
    /\ require_writable /\ Present(n)
    /\ Jailed => Kind(n) # "link" /\ Kind(m) # "link"

op_rename(n, m) ==
    IF ~RenameAllowed(n, m) \/ Exists(m) THEN Refuse("rename") ELSE Move("rename", n, m)

\* posix-rename replaces what is there, a directory by a directory only.
op_ext_posix_rename(n, m) ==
    IF ~RenameAllowed(n, m) \/ (Present(m) /\ (Kind(n) = "dir") # (Kind(m) = "dir"))
    THEN Refuse("posix-rename") ELSE Move("posix-rename", n, m)

op_ext_hardlink(n, m) ==
    IF \/ ~require_writable \/ Present(m) \/ Kind(n) \in {"none", "dir"}
       \/ (Jailed /\ Kind(n) = "link")
    THEN Refuse("hardlink")
    ELSE /\ name' = [name EXCEPT ![m] = name[n]]
         /\ Done("hardlink", TRUE, name[n])
         /\ UNCHANGED <<node, handles, next>>

SameFile(r, w) == r = w \/ handles[r].ino = handles[w].ino

\* copy-data, from the start to the end of the source as it is now.
op_ext_copy_data(r, w, off) ==
    IF \/ ~require_writable \/ {r, w} \cap DOMAIN handles # {r, w}
    THEN Refuse("copy")
    ELSE IF \/ handles[r].k # "file" \/ handles[w].k # "file" \/ SameFile(r, w)
            \/ node[handles[r].ino].k # "file" \/ ~handles[w].write
    THEN Refuse("copy")
    ELSE LET i == handles[w].ino
             src == node[handles[r].ino].data
             at == IF handles[w].append THEN Len(node[i].data) ELSE off
             new == FoldLeft(LAMBDA d, k : Put(d, at + k - 1, 2), node[i].data,
                             [k \in 1..Len(src) |-> k])
         IN  /\ Len(new) <= MaxData
             /\ node' = [node EXCEPT ![i].data = new]
             /\ Done("copy", TRUE, handles[r].ino)
             /\ UNCHANGED <<name, handles, next>>

\* Other processes remove names or put links.
Others ==
    /\ \/ /\ "remove" \in OthersMay
          /\ \E n \in Names : /\ Present(n)
                              /\ name' = [name EXCEPT ![n] = NoFile]
                              /\ handles' = Unlisted(n)
          /\ node' = Reclaim(name', handles')
       \/ /\ "link" \in OthersMay
          /\ \E n \in Names, t \in Names, i \in Free :
                /\ ~Present(n) /\ n # t
                /\ name' = [name EXCEPT ![n] = i]
                /\ node' = [node EXCEPT ![i] = [Blank EXCEPT !.k = "link", !.to = t]]
          /\ UNCHANGED handles
    /\ last' = [Nobody EXCEPT !.op = "others"]
    /\ UNCHANGED next

Ids == 1..IdSpace
Modes == {"plain", "special"}

Next ==
    \/ "open" \in Ops /\ \E n \in Names, f \in OpenFlags, m \in Modes : op_open(n, f, m)
    \/ \E h \in Ids : op_close(h) \/ op_read(h)
    \/ "write" \in Ops /\ \E h \in Ids, off \in 0..(MaxData - 1) : op_write(h, off)
    \/ "attrs" \in Ops /\ \E n \in Names, a \in Attrs : op_setstat(n, a) \/ op_ext_lsetstat(n, a)
    \/ "attrs" \in Ops /\ \E h \in Ids, a \in Attrs : op_fsetstat(h, a)
    \/ "dir" \in Ops /\ (op_opendir \/ \E h \in Ids : op_readdir(h))
    \/ "names" \in Ops /\ \E n \in Names : op_remove(n)
    \/ "mkdir" \in Ops /\ \E n \in Names, m \in Modes : op_mkdir(n, m)
    \/ "names" \in Ops /\ \E n \in Names, t \in Names :
          \/ n # t /\ op_symlink(n, t)
          \/ op_rename(n, t) \/ op_ext_posix_rename(n, t) \/ op_ext_hardlink(n, t)
    \/ "copy" \in Ops /\ \E r \in Ids, w \in Ids, off \in 0..1 : op_ext_copy_data(r, w, off)
    \/ Others

Spec == Init /\ [][Next]_vars

-----------------------------------------------------------------------------
\* read_only: "refuse every mutating operation".  No request of a read-only
\* session changes a name or a file.
ReadOnlyUntouched ==
    ReadOnly /\ last'.op # "others" => UNCHANGED <<name, node>>

\* A listing that came to its end, in answers of any size, had every entry that
\* was there from its start to its end (op_readdir), if no entry vanished on the
\* way: an answer all of whose entries have gone is taken for the end.
ListedWhole == last.missed = {}

\* A handle stays with the file it was opened on until it is closed, also
\* when the ids wrap around while it is open.
HandleKept ==
    \A h \in DOMAIN handles :
          h \in DOMAIN handles' => handles'[h].ino = handles[h].ino
                                   /\ handles'[h].k = handles[h].k

\* copy-data leaves its source as it is, also when the two handles were
\* opened under different names of one file.
SourceUnchanged ==
    last'.op = "copy" => node'[last'.ino] = node[last'.ino]

=============================================================================
