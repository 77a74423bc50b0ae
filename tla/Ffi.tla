-------------------------------- MODULE Ffi --------------------------------
(***************************************************************************)
(* The C interface (ffi/): a connection and its SFTP sessions, the file    *)
(* and directory objects of a session, and an agent, used by the threads   *)
(* of a C program.  Objects are freed in any order; a session's cell is    *)
(* emptied when the session is freed, and what outlives it finds nothing   *)
(* there.  A call that makes several requests takes the lock of the cell   *)
(* for each of them, so other threads run in between.  The program keeps   *)
(* to the contract: a file or directory is used by one thread at a time,   *)
(* and nothing is used after it was freed.                                 *)
(***************************************************************************)
EXTENDS Integers, Sequences, FiniteSets, SequencesExt, FiniteSetsExt

CONSTANTS
    Threads,
    Programs,       \* what the program does: sets of "connects", "agent", "paths", "objects"
    Cells,          \* SFTP sessions the program may open
    Objects,        \* file and directory objects it may open
    Listings,       \* what a directory may hold: sequences of chunks of entries
    Size,           \* bytes in the file the program reads and writes
    MaxIo,          \* PCSSH_SFTP_MAX_IO: of one request
    MaxEmpty,       \* MAX_EMPTY_READDIR_CHUNKS
    Buffers,        \* the buffers the program passes: [cap, null]
    Resolved,       \* what a name may resolve to: sequences of outcomes
    KeyLists,       \* what the agent may hold
    MaxCalls,       \* bound on the calls of the program
    MaxFaults       \* bound on requests that fail

VARIABLES
    does,           \* the program
    client,         \* [handle, open, authed]: PcSshClient and the connection behind it
    cell,           \* of every session: "never", "live" or "empty"
    poisoned,       \* cells whose lock a panic has poisoned
    obj,            \* of every object: [kind, cell, handle, offset, closed, cache, eof]
    server,         \* handles it holds open: [cell, obj, rest]
    content,        \* the remote file: <<position, byte>>
    got,            \* of every object: what the program was given; of a file, since the
                    \* cursor was last moved by other than a read
    agent,          \* [handle, keys, identities, fresh]: PcSshAgent, and the agent's keys
    call,           \* of every thread: the call it is in
    ret,            \* what the last call returned
    ran,            \* commands: [times, meant, short]: executed, wanted, and whether the
                    \* buffers were too small for the last
    calls, faults

vars == <<does, client, cell, poisoned, obj, server, content, got, agent, call, ret, ran, calls, faults>>

NoObject == [kind |-> "none", cell |-> "", offset |-> 0, closed |-> TRUE, cache |-> <<>>, eof |-> FALSE]
Freed == [NoObject EXCEPT !.kind = "freed"]
Idle == [op |-> "idle", obj |-> "", left |-> 0, caps |-> <<>>, empty |-> 0]
NotListed == <<"none">>

Init ==
    /\ does \in Programs
    /\ client = IF "connects" \in does THEN [handle |-> "none", open |-> FALSE, authed |-> FALSE]
                ELSE [handle |-> "live", open |-> TRUE, authed |-> TRUE]
    /\ cell = [c \in Cells |-> "never"] /\ poisoned = {}
    /\ obj = [o \in Objects |-> NoObject] /\ server = {} /\ content = {}
    /\ got = [o \in Objects |-> <<>>]
    /\ \E k \in KeyLists : agent = [handle |-> FALSE, keys |-> k, identities |-> NotListed]
    /\ call = [t \in Threads |-> Idle] /\ ret = "OK" /\ ran = [times |-> 0, meant |-> 0, short |-> FALSE]
    /\ calls = 0 /\ faults = 0

perClient == <<client, ran>>
perSession == <<cell, poisoned, obj, server, content, got>>

-----------------------------------------------------------------------------
(* Return codes.                                                           *)

map_error(e) ==
    CASE e = "io" -> "IO" [] e = "format" -> "PARSE" [] e \in {"nomatch", "crypto"} -> "KEX"
      [] e \in {"protocol", "disconnected", "channel"} -> "PROTOCOL" [] e \in {"rejected", "cert"} -> "HOSTKEY_REJECTED"
      [] e \in {"auth", "token"} -> "AUTH_FAILED" [] e = "config" -> "CONFIG" [] OTHER -> "GENERIC"

map_sftp_err(o) ==
    CASE o = "ok" -> "OK" [] o = "io" -> "IO" [] o = "format" -> "PARSE" [] o = "protocol" -> "PROTOCOL"
      [] o = "status" -> "GENERIC"

\* A panic is caught at the boundary.
catch(o) == IF o = "panic" THEN "PANIC" ELSE map_sftp_err(o)

\* A text argument: NULL and what is not UTF-8 do not get further.  Raw bytes may
\* be anything but NULL.
Arguments == {"text", "bytes", "null"}
with_cstr(a) == a = "text"
with_two_cstr(a, b) == with_cstr(a) /\ with_cstr(b)
bytes_from_raw(a) == a # "null"

copy_to_caller_buf(need, b) ==
    IF need > b.cap THEN "BUFFER_TOO_SMALL" ELSE IF need > 0 /\ b.null THEN "INVALID_ARGUMENT" ELSE "OK"

Attributes == {"size", "uidgid", "permissions", "times"}
Flag(f) == CASE f = "size" -> 1 [] f = "uidgid" -> 2 [] f = "permissions" -> 4 [] f = "times" -> 8
attrs_to_c(a) == [flags |-> SumSet({Flag(f) : f \in a})]
attrs_from_c(c) == {f \in Attributes : (c.flags \div Flag(f)) % 2 = 1}

-----------------------------------------------------------------------------
(* One request under the lock of a cell.                                   *)

Failures == {"status", "io", "protocol", "panic"}
Outcomes(c) ==
    IF c \in poisoned THEN {"poisoned"} ELSE IF cell[c] # "live" THEN {"freed"}
    ELSE IF ~client.open THEN {"io"} ELSE {"ok"} \cup (IF faults < MaxFaults THEN Failures ELSE {})

\* The request itself: its outcome, and what is left of the connection and of
\* the lock.
Asked(c, o) ==
    /\ o \in Outcomes(c)
    /\ faults' = faults + (IF o \in Failures /\ client.open THEN 1 ELSE 0)
    /\ client' = [client EXCEPT !.open = @ /\ o # "io"]
    /\ poisoned' = IF o = "panic" THEN poisoned \cup {c} ELSE poisoned

with_parent(o) == CASE o = "poisoned" -> "GENERIC" [] o = "freed" -> "INVALID_HANDLE" [] OTHER -> catch(o)

\* A thread enters a call.
Enter(t) == call[t] = Idle /\ calls < MaxCalls /\ calls' = calls + 1 /\ UNCHANGED does
Busy(o) == \E t \in Threads : call[t].obj = o
Usable(o, kind) == obj[o].kind = kind /\ ~Busy(o)
Session(c) == cell[c] = "live"

\* The server forgets the handle of an object.
Without(o) == {h \in server : h.obj # o}

\* A call that makes no request.
Returns(code) == ret' = code /\ UNCHANGED <<client, poisoned, faults>>
Elsewhere == UNCHANGED <<cell, obj, server, content, got, agent, ran, call>>

-----------------------------------------------------------------------------
(* The connection.                                                         *)

\* Every address in turn; what is no I/O failure is final.
connect_bounded(rs) ==
    LET final == {i \in DOMAIN rs : rs[i] \notin {"refused", "io"}}
    IN  IF final = {} THEN "CONNECT" ELSE IF rs[Min(final)] = "ok" THEN "OK" ELSE map_error(rs[Min(final)])

Policies == {"any", "fingerprint", "badfingerprint", "known_hosts", "odd"}
pcssh_client_connect_ex(t, policy, host, rs) ==
    /\ Enter(t) /\ client.handle = "none"
    /\ LET refusal == IF ~with_cstr(host) \/ policy = "odd" THEN "INVALID_ARGUMENT" ELSE "CONFIG"
       IN  IF ~with_cstr(host) \/ policy \notin {"any", "fingerprint"}
           THEN ret' = refusal /\ UNCHANGED client
           ELSE /\ ret' = connect_bounded(rs)
                /\ client' = IF connect_bounded(rs) = "OK"
                             THEN [handle |-> "live", open |-> TRUE, authed |-> FALSE] ELSE client
    /\ UNCHANGED <<perSession, agent, ran, call, faults>>

pcssh_client_connect(t, host, rs) == pcssh_client_connect_ex(t, "any", host, rs)

\* Either method, and what it comes to: in, refused, or cut off.
Authenticate(t) ==
    /\ Enter(t) /\ client.handle = "live"
    /\ \/ client.open /\ ret' = "OK" /\ client' = [client EXCEPT !.authed = TRUE] /\ UNCHANGED faults
       \/ /\ faults < MaxFaults /\ client.open /\ faults' = faults + 1
          /\ \/ ret' = map_error("auth") /\ UNCHANGED client
             \/ ret' = map_error("io") /\ client' = [client EXCEPT !.open = FALSE]
       \/ ~client.open /\ ret' = map_error("io") /\ UNCHANGED <<client, faults>>
    /\ UNCHANGED <<perSession, agent, ran, call>>

pcssh_client_auth_password(t, user, password) ==
    IF with_two_cstr(user, password) THEN Authenticate(t)
    ELSE Enter(t) /\ client.handle = "live" /\ Returns("INVALID_ARGUMENT") /\ Elsewhere

\* The key is parsed before anything is sent.
pcssh_client_auth_publickey(t, user, key) ==
    IF with_cstr(user) /\ key = "key" THEN Authenticate(t)
    ELSE /\ Enter(t) /\ client.handle = "live" /\ Elsewhere
         /\ Returns(IF with_cstr(user) /\ key = "garbled" THEN map_error("format") ELSE "INVALID_ARGUMENT")

\* The command runs to its end before the room in the buffers is looked at.  The
\* program may call again with larger buffers.
pcssh_client_exec(t, command, again, out, err, b1, b2) ==
    /\ Enter(t) /\ client.handle = "live" /\ (again => ran.short)
    /\ IF (b1.null /\ b1.cap # 0) \/ (b2.null /\ b2.cap # 0) \/ ~with_cstr(command)
       THEN ret' = "INVALID_ARGUMENT" /\ UNCHANGED ran
       ELSE IF ~client.open \/ ~client.authed
       THEN ret' = (IF client.open THEN map_error("protocol") ELSE map_error("io")) /\ UNCHANGED ran
       ELSE LET short == out > b1.cap \/ err > b2.cap
            IN  /\ ran' = [times |-> ran.times + 1, meant |-> ran.meant + (IF again THEN 0 ELSE 1), short |-> short]
                /\ ret' = IF short THEN "BUFFER_TOO_SMALL" ELSE "OK"
    /\ UNCHANGED <<client, perSession, agent, call, faults>>

\* The connection stays open as long as a session refers to it.
pcssh_client_free(t) ==
    /\ Enter(t) /\ client.handle = "live"
    /\ client' = [client EXCEPT !.handle = "freed", !.open = @ /\ \E c \in Cells : Session(c)]
    /\ ret' = "OK" /\ UNCHANGED <<perSession, agent, ran, call, faults>>

-----------------------------------------------------------------------------
(* Sessions.                                                               *)

pcssh_sftp_open(t, c) ==
    /\ Enter(t) /\ client.handle = "live" /\ cell[c] = "never"
    /\ IF client.open /\ client.authed
       THEN \/ cell' = [cell EXCEPT ![c] = "live"] /\ ret' = "OK" /\ UNCHANGED faults
            \/ faults < MaxFaults /\ faults' = faults + 1 /\ ret' = map_error("protocol") /\ UNCHANGED cell
       ELSE ret' = map_error(IF client.open THEN "protocol" ELSE "io") /\ UNCHANGED <<cell, faults>>
    /\ UNCHANGED <<perClient, poisoned, obj, server, content, got, agent, call>>

\* The cell is emptied whatever still refers to it, poisoned or not: the channel
\* is closed, the server drops its handles, and a connection that nothing else
\* refers to ends.
pcssh_sftp_free(t, c) ==
    /\ Enter(t) /\ Session(c)
    /\ cell' = [cell EXCEPT ![c] = "empty"] /\ server' = {h \in server : h.cell # c}
    /\ client' = [client EXCEPT !.open = @ /\ (client.handle = "live" \/ \E d \in Cells \ {c} : Session(d))]
    /\ ret' = "OK" /\ UNCHANGED <<ran, poisoned, obj, content, got, agent, call, faults>>

\* A request about a path, which only has a result.
PathRequest(t, c, good) ==
    /\ Enter(t) /\ Session(c) /\ UNCHANGED <<cell, obj, server, content, got, agent, ran, call>>
    /\ IF ~good THEN Returns("INVALID_ARGUMENT")
       ELSE \E o \in Outcomes(c) : Asked(c, o) /\ ret' = with_parent(o)

pcssh_sftp_stat(t, c, p) == PathRequest(t, c, with_cstr(p))
pcssh_sftp_lstat(t, c, p) == PathRequest(t, c, with_cstr(p))
pcssh_sftp_setstat(t, c, p) == PathRequest(t, c, with_cstr(p))
pcssh_sftp_mkdir(t, c, p) == PathRequest(t, c, with_cstr(p))
pcssh_sftp_rmdir(t, c, p) == PathRequest(t, c, with_cstr(p))
pcssh_sftp_remove(t, c, p) == PathRequest(t, c, with_cstr(p))
pcssh_sftp_rename(t, c, p, q) == PathRequest(t, c, with_two_cstr(p, q))
pcssh_sftp_symlink(t, c, p, q) == PathRequest(t, c, with_two_cstr(p, q))
pcssh_sftp_stat_bytes(t, c, p) == PathRequest(t, c, bytes_from_raw(p))
pcssh_sftp_lstat_bytes(t, c, p) == PathRequest(t, c, bytes_from_raw(p))
pcssh_sftp_setstat_bytes(t, c, p) == PathRequest(t, c, bytes_from_raw(p))
pcssh_sftp_mkdir_bytes(t, c, p) == PathRequest(t, c, bytes_from_raw(p))
pcssh_sftp_rmdir_bytes(t, c, p) == PathRequest(t, c, bytes_from_raw(p))
pcssh_sftp_remove_bytes(t, c, p) == PathRequest(t, c, bytes_from_raw(p))
pcssh_sftp_rename_bytes(t, c, p, q) == PathRequest(t, c, bytes_from_raw(p) /\ bytes_from_raw(q))
pcssh_sftp_symlink_bytes(t, c, p, q) == PathRequest(t, c, bytes_from_raw(p) /\ bytes_from_raw(q))

\* The answer is a path, which must fit; one that did not is asked for again.
PathAnswer(t, c, good, b) ==
    /\ Enter(t) /\ Session(c) /\ UNCHANGED <<cell, obj, server, content, got, agent, ran, call>>
    /\ IF ~good THEN Returns("INVALID_ARGUMENT")
       ELSE \E o \in Outcomes(c), need \in {0, 1} :
                Asked(c, o) /\ ret' = IF o = "ok" THEN copy_to_caller_buf(need, b) ELSE with_parent(o)

pcssh_sftp_readlink(t, c, p, b) == PathAnswer(t, c, with_cstr(p), b)
pcssh_sftp_realpath(t, c, p, b) == PathAnswer(t, c, with_cstr(p), b)
pcssh_sftp_readlink_bytes(t, c, p, b) == PathAnswer(t, c, bytes_from_raw(p), b)
pcssh_sftp_realpath_bytes(t, c, p, b) == PathAnswer(t, c, bytes_from_raw(p), b)

-----------------------------------------------------------------------------
(* Files.                                                                  *)

Opened(kind, c) == [NoObject EXCEPT !.kind = kind, !.cell = c, !.closed = FALSE]

\* The object is made once the server has given a handle.
OpenObject(t, c, o, kind, good) ==
    /\ Enter(t) /\ Session(c) /\ obj[o].kind = "none" /\ UNCHANGED <<cell, content, agent, ran, call>>
    /\ \/ ~good /\ Returns("INVALID_ARGUMENT") /\ UNCHANGED <<obj, server, got>>
       \/ good /\ \E r \in Outcomes(c) :
            /\ Asked(c, r) /\ ret' = with_parent(r)
            /\ IF r # "ok" THEN UNCHANGED <<obj, server, got>>
               ELSE /\ obj' = [obj EXCEPT ![o] = Opened(kind, c)] /\ got' = [got EXCEPT ![o] = <<>>]
                    /\ \E l \in Listings : server' = server \cup {[cell |-> c, obj |-> o, rest |-> l, all |-> l]}

pcssh_sftp_open_file(t, c, o, p) == OpenObject(t, c, o, "file", with_cstr(p))
pcssh_sftp_open_file_bytes(t, c, o, p) == OpenObject(t, c, o, "file", bytes_from_raw(p))
pcssh_sftp_opendir(t, c, o, p) == OpenObject(t, c, o, "dir", with_cstr(p))
pcssh_sftp_opendir_bytes(t, c, o, p) == OpenObject(t, c, o, "dir", bytes_from_raw(p))

\* What a server may answer to a READ: bytes from the offset on, none at the end,
\* and more than it was asked for if it is careless.
Answered(at, want) == {n \in 0..want + 1 : at + n <= Size /\ (n = 0 => at >= Size)}

\* One request; the cursor moves by what was handed over.
pcssh_sftp_read(t, o, b) ==
    /\ Enter(t) /\ Usable(o, "file") /\ UNCHANGED <<cell, server, content, agent, ran, call>>
    /\ IF (b.null /\ b.cap # 0) \/ obj[o].closed THEN Returns("INVALID_ARGUMENT") /\ UNCHANGED <<obj, got>>
       ELSE IF b.cap = 0 THEN Returns("OK") /\ UNCHANGED <<obj, got>>
       ELSE \E r \in Outcomes(obj[o].cell) :
                /\ Asked(obj[o].cell, r) /\ ret' = with_parent(r)
                /\ IF r # "ok" THEN UNCHANGED <<obj, got>>
                   ELSE \E n \in Answered(obj[o].offset, Min({b.cap, MaxIo})) :
                            LET given == Min({n, b.cap})
                            IN  /\ obj' = [obj EXCEPT ![o].offset = @ + given]
                                /\ got' = [got EXCEPT ![o] = @ \o [i \in 1..given |-> obj[o].offset + i]]

\* The program writes what belongs at the cursor: byte i at position i.
pcssh_sftp_write(t, o, len) ==
    /\ Enter(t) /\ Usable(o, "file") /\ obj[o].offset + len <= Size
    /\ IF obj[o].closed THEN ret' = "INVALID_ARGUMENT" /\ UNCHANGED call
       ELSE IF len = 0 THEN ret' = "OK" /\ UNCHANGED call
       ELSE call' = [call EXCEPT ![t] = [Idle EXCEPT !.op = "write", !.obj = o, !.left = len, !.caps = <<obj[o].offset>>]]
            /\ UNCHANGED ret
    /\ UNCHANGED <<perClient, perSession, agent, faults>>

\* A chunk of the buffer for each request; a failure leaves the cursor behind
\* the chunks that were acknowledged.
WriteChunk(t) ==
    /\ call[t].op = "write" /\ UNCHANGED <<does, cell, server, agent, ran, calls>>
    /\ LET o == call[t].obj  n == Min({call[t].left, MaxIo})  done == call[t].caps[1]
       IN  \E r \in Outcomes(obj[o].cell) :
            /\ Asked(obj[o].cell, r)
            /\ IF r # "ok" THEN ret' = with_parent(r) /\ call' = [call EXCEPT ![t] = Idle] /\ UNCHANGED <<obj, content, got>>
               ELSE /\ content' = {w \in content : w[1] \notin obj[o].offset + 1..obj[o].offset + n}
                                    \cup {<<obj[o].offset + i, done + i>> : i \in 1..n}
                    /\ obj' = [obj EXCEPT ![o].offset = @ + n] /\ got' = [got EXCEPT ![o] = <<>>]
                    /\ IF n = call[t].left THEN ret' = "OK" /\ call' = [call EXCEPT ![t] = Idle]
                       ELSE call' = [call EXCEPT ![t].left = @ - n, ![t].caps = <<done + n>>] /\ UNCHANGED ret

pcssh_sftp_seek(t, o, to) ==
    /\ Enter(t) /\ Usable(o, "file") /\ obj' = [obj EXCEPT ![o].offset = to]
    /\ got' = [got EXCEPT ![o] = <<>>] /\ ret' = "OK"
    /\ UNCHANGED <<perClient, cell, poisoned, server, content, agent, call, faults>>

pcssh_sftp_tell(t, o) == Enter(t) /\ Usable(o, "file") /\ Returns("OK") /\ Elsewhere

HandleRequest(t, o) ==
    /\ Enter(t) /\ Usable(o, "file") /\ UNCHANGED <<cell, obj, server, content, got, agent, ran, call>>
    /\ IF obj[o].closed THEN Returns("INVALID_ARGUMENT")
       ELSE \E r \in Outcomes(obj[o].cell) : Asked(obj[o].cell, r) /\ ret' = with_parent(r)
pcssh_sftp_fstat(t, o) == HandleRequest(t, o)
pcssh_sftp_fsetstat(t, o) == HandleRequest(t, o)

\* Closing: once, and closed for good whatever the server says.  A panic leaves
\* the object as it was.
CloseObject(t, o, kind) ==
    /\ Enter(t) /\ Usable(o, kind) /\ UNCHANGED <<cell, content, got, agent, ran, call>>
    /\ IF obj[o].closed THEN Returns("OK") /\ UNCHANGED <<obj, server>>
       ELSE \E r \in Outcomes(obj[o].cell) :
                /\ Asked(obj[o].cell, r) /\ ret' = with_parent(r)
                /\ obj' = IF r = "panic" THEN obj ELSE [obj EXCEPT ![o].closed = TRUE]
                /\ server' = IF r = "ok" THEN Without(o) ELSE server
pcssh_sftp_close_file(t, o) == CloseObject(t, o, "file")
pcssh_sftp_closedir(t, o) == CloseObject(t, o, "dir")

\* Freeing closes what is still open.
FreeObject(t, o, kind) ==
    /\ Enter(t) /\ Usable(o, kind) /\ ret' = "OK"
    /\ obj' = [obj EXCEPT ![o] = Freed] /\ UNCHANGED <<cell, content, got, agent, ran, call>>
    /\ IF obj[o].closed THEN UNCHANGED <<client, poisoned, faults, server>>
       ELSE \E r \in Outcomes(obj[o].cell) :
                Asked(obj[o].cell, r) /\ server' = IF r = "ok" THEN Without(o) ELSE server
pcssh_sftp_file_free(t, o) == FreeObject(t, o, "file")
pcssh_sftp_dir_free(t, o) == FreeObject(t, o, "dir")

-----------------------------------------------------------------------------
(* Directories: the entries of a chunk are handed out one by one.          *)

pcssh_sftp_readdir(t, o, b1, b2) ==
    /\ Enter(t) /\ Usable(o, "dir")
    /\ IF obj[o].closed THEN ret' = "INVALID_ARGUMENT" /\ UNCHANGED call
       ELSE call' = [call EXCEPT ![t] = [Idle EXCEPT !.op = "readdir", !.obj = o, !.caps = <<b1, b2>>]] /\ UNCHANGED ret
    /\ UNCHANGED <<perClient, perSession, agent, faults>>

\* While there is nothing to hand out and the end was not seen: another chunk.
ReaddirFetch(t) ==
    LET o == call[t].obj IN
    /\ call[t].op = "readdir" /\ obj[o].cache = <<>> /\ ~obj[o].eof
    /\ UNCHANGED <<does, cell, content, got, agent, ran, calls>>
    /\ IF call[t].empty >= MaxEmpty
       THEN Returns("PROTOCOL") /\ call' = [call EXCEPT ![t] = Idle] /\ UNCHANGED <<obj, server>>
       ELSE \E r \in Outcomes(obj[o].cell) :
            /\ Asked(obj[o].cell, r)
            /\ IF r # "ok" THEN ret' = with_parent(r) /\ call' = [call EXCEPT ![t] = Idle] /\ UNCHANGED <<obj, server>>
               ELSE \E h \in {x \in server : x.obj = o} :
                    /\ call' = [call EXCEPT ![t].empty = @ + 1] /\ UNCHANGED ret
                    /\ obj' = IF h.rest = <<>> THEN [obj EXCEPT ![o].eof = TRUE] ELSE [obj EXCEPT ![o].cache = @ \o Head(h.rest)]
                    /\ server' = IF h.rest = <<>> THEN server ELSE (server \ {h}) \cup {[h EXCEPT !.rest = Tail(h.rest)]}

\* Mutant of ReaddirHand: the entry is gone once its name was copied.
ReaddirHandEarly(t) ==
    LET o == call[t].obj IN
    /\ call[t].op = "readdir" /\ (obj[o].cache # <<>> \/ obj[o].eof) /\ call' = [call EXCEPT ![t] = Idle]
    /\ IF obj[o].cache = <<>> THEN ret' = "OK" /\ UNCHANGED <<obj, got>>
       ELSE LET e == Head(obj[o].cache)
                name == copy_to_caller_buf(e.name, call[t].caps[1])
                long == copy_to_caller_buf(e.long, call[t].caps[2])
            IN  /\ ret' = IF name # "OK" THEN name ELSE long
                /\ obj' = IF name = "OK" THEN [obj EXCEPT ![o].cache = Tail(@)] ELSE obj
                /\ got' = IF name = "OK" /\ long = "OK" THEN [got EXCEPT ![o] = Append(@, e)] ELSE got
    /\ UNCHANGED <<does, client, poisoned, faults, cell, server, content, agent, ran, calls>>

\* The first entry, which stays until both of its names fit.
ReaddirHand(t) ==
    LET o == call[t].obj IN
    /\ call[t].op = "readdir" /\ (obj[o].cache # <<>> \/ obj[o].eof) /\ call' = [call EXCEPT ![t] = Idle]
    /\ IF obj[o].cache = <<>> THEN ret' = "OK" /\ UNCHANGED <<obj, got>>
       ELSE LET e == Head(obj[o].cache)
                name == copy_to_caller_buf(e.name, call[t].caps[1])
                long == copy_to_caller_buf(e.long, call[t].caps[2])
            IN  /\ ret' = IF name # "OK" THEN name ELSE long
                /\ obj' = IF name = "OK" /\ long = "OK" THEN [obj EXCEPT ![o].cache = Tail(@)] ELSE obj
                /\ got' = IF name = "OK" /\ long = "OK" THEN [got EXCEPT ![o] = Append(@, e)] ELSE got
    /\ UNCHANGED <<does, client, poisoned, faults, cell, server, content, agent, ran, calls>>

-----------------------------------------------------------------------------
(* The agent: a connection and the identities it listed.                   *)

AgentOnly == UNCHANGED <<perClient, perSession, call, faults>>

pcssh_agent_connect(t, path) ==
    /\ Enter(t) /\ ~agent.handle /\ AgentOnly
    /\ \/ with_cstr(path) /\ agent' = [agent EXCEPT !.handle = TRUE, !.identities = NotListed] /\ ret' = "OK"
       \/ ret' = (IF with_cstr(path) THEN map_error("io") ELSE "INVALID_ARGUMENT") /\ UNCHANGED agent

\* Without SSH_AUTH_SOCK the call succeeds and gives no handle.
pcssh_agent_connect_env(t) ==
    /\ Enter(t) /\ ~agent.handle /\ AgentOnly
    /\ \/ agent' = [agent EXCEPT !.handle = TRUE, !.identities = NotListed] /\ ret' = "OK"
       \/ ret' \in {"OK", map_error("io")} /\ UNCHANGED agent

\* Listed once and kept.
pcssh_agent_identity_count(t) ==
    /\ Enter(t) /\ agent.handle /\ AgentOnly
    /\ agent' = [agent EXCEPT !.identities = IF @ = NotListed THEN agent.keys ELSE @] /\ ret' = "OK"

pcssh_agent_refresh_identities(t) ==
    Enter(t) /\ agent.handle /\ AgentOnly /\ agent' = [agent EXCEPT !.identities = NotListed] /\ ret' = "OK"

pcssh_agent_identity(t, i, b) ==
    /\ Enter(t) /\ agent.handle /\ AgentOnly /\ UNCHANGED agent
    /\ ret' = IF b.null /\ b.cap # 0 THEN "INVALID_ARGUMENT" ELSE IF agent.identities = NotListed THEN "GENERIC"
              ELSE IF i \notin DOMAIN agent.identities THEN "INVALID_ARGUMENT"
              ELSE IF b.cap = 0 THEN "BUFFER_TOO_SMALL" ELSE "OK"

\* The agent signs with what it holds now, whatever was listed.
pcssh_agent_sign(t, k, b) ==
    /\ Enter(t) /\ agent.handle /\ AgentOnly /\ UNCHANGED agent
    /\ ret' = IF b.null /\ b.cap # 0 THEN "INVALID_ARGUMENT" ELSE IF ~Contains(agent.keys, k) THEN map_error("auth")
              ELSE IF b.cap = 0 THEN "BUFFER_TOO_SMALL" ELSE "OK"

pcssh_agent_free(t) ==
    Enter(t) /\ agent.handle /\ AgentOnly /\ agent' = [agent EXCEPT !.handle = FALSE] /\ ret' = "OK"

-----------------------------------------------------------------------------
ClientCalls(t) ==
    \/ \E p \in Policies, a \in Arguments, rs \in Resolved : pcssh_client_connect_ex(t, p, a, rs)
    \/ \E a \in Arguments, rs \in Resolved : pcssh_client_connect(t, a, rs)
    \/ \E a, b \in Arguments : pcssh_client_auth_password(t, a, b)
    \/ \E a \in Arguments, k \in {"key", "garbled", "null"} : pcssh_client_auth_publickey(t, a, k)
    \/ \E a \in Arguments, again \in BOOLEAN, out, err \in {0, 1}, b1, b2 \in Buffers :
            pcssh_client_exec(t, a, again, out, err, b1, b2)

PathCalls(t, c) ==
    \E p \in Arguments :
        \/ pcssh_sftp_stat(t, c, p) \/ pcssh_sftp_lstat(t, c, p) \/ pcssh_sftp_setstat(t, c, p)
        \/ pcssh_sftp_mkdir(t, c, p) \/ pcssh_sftp_rmdir(t, c, p) \/ pcssh_sftp_remove(t, c, p)
        \/ pcssh_sftp_stat_bytes(t, c, p) \/ pcssh_sftp_lstat_bytes(t, c, p) \/ pcssh_sftp_setstat_bytes(t, c, p)
        \/ pcssh_sftp_mkdir_bytes(t, c, p) \/ pcssh_sftp_rmdir_bytes(t, c, p) \/ pcssh_sftp_remove_bytes(t, c, p)
        \/ \E q \in Arguments : \/ pcssh_sftp_rename(t, c, p, q) \/ pcssh_sftp_symlink(t, c, p, q)
                                \/ pcssh_sftp_rename_bytes(t, c, p, q) \/ pcssh_sftp_symlink_bytes(t, c, p, q)
        \/ \E b \in Buffers : \/ pcssh_sftp_readlink(t, c, p, b) \/ pcssh_sftp_realpath(t, c, p, b)
                              \/ pcssh_sftp_readlink_bytes(t, c, p, b) \/ pcssh_sftp_realpath_bytes(t, c, p, b)

ObjectCalls(t, o) ==
    \/ \E c \in Cells, p \in Arguments : \/ pcssh_sftp_open_file(t, c, o, p) \/ pcssh_sftp_opendir(t, c, o, p)
                                        \/ pcssh_sftp_open_file_bytes(t, c, o, p) \/ pcssh_sftp_opendir_bytes(t, c, o, p)
    \/ \E b \in Buffers : pcssh_sftp_read(t, o, b)
    \/ \E n \in 0..Size : pcssh_sftp_write(t, o, n) \/ pcssh_sftp_seek(t, o, n)
    \/ pcssh_sftp_tell(t, o) \/ pcssh_sftp_fstat(t, o) \/ pcssh_sftp_fsetstat(t, o)
    \/ pcssh_sftp_close_file(t, o) \/ pcssh_sftp_file_free(t, o)
    \/ \E b1, b2 \in Buffers : pcssh_sftp_readdir(t, o, b1, b2)
    \/ pcssh_sftp_closedir(t, o) \/ pcssh_sftp_dir_free(t, o)

AgentCalls(t) ==
    \/ \E p \in Arguments : pcssh_agent_connect(t, p)
    \/ pcssh_agent_connect_env(t) \/ pcssh_agent_identity_count(t)
    \/ pcssh_agent_refresh_identities(t) \/ pcssh_agent_free(t)
    \/ \E i \in 1..2, b \in Buffers : pcssh_agent_identity(t, i, b)
    \/ \E k \in UNION {ToSet(l) : l \in KeyLists}, b \in Buffers : pcssh_agent_sign(t, k, b)

\* Another program changes what the agent holds.
AgentChanges ==
    /\ calls < MaxCalls /\ calls' = calls + 1
    /\ \E l \in KeyLists : agent' = [agent EXCEPT !.keys = l]
    /\ ret' = "OK" /\ AgentOnly /\ UNCHANGED does

Next ==
    \/ \E t \in Threads :
        \/ "connects" \in does /\ ClientCalls(t)
        \/ pcssh_client_free(t)
        \/ "agent" \in does /\ AgentCalls(t)
        \/ \E c \in Cells : pcssh_sftp_open(t, c) \/ pcssh_sftp_free(t, c)
        \/ "paths" \in does /\ \E c \in Cells : PathCalls(t, c)
        \/ "objects" \in does /\ \E o \in Objects : ObjectCalls(t, o)
        \/ WriteChunk(t) \/ ReaddirFetch(t) \/ ReaddirHand(t)
    \/ "agent" \in does /\ AgentChanges

Spec == Init /\ [][Next]_vars

-----------------------------------------------------------------------------
(* Properties.                                                             *)

Cut(o, n) == FlattenSeq(SubSeq(o.all, 1, n))

\* Every entry the server sent is given to the program once and in order, in
\* spite of buffers that were too small, of failed requests and of empty chunks
\* ("No entries are dropped", pcssh_sftp_readdir).
EntriesOnce ==
    \A o \in Objects : \A h \in server :
        obj[o].kind = "dir" /\ h.obj = o /\ ~obj[o].closed =>
            got[o] \o obj[o].cache = Cut(h, Len(h.all) - Len(h.rest))

\* What is read in a row is what lies there, without a gap, however
\* little or much the server sends; what is written is at its place, and all of
\* it up to the cursor after any failed chunk.
BytesInPlace ==
    /\ \A w \in content : w[1] = w[2]
    /\ \A o \in Objects : obj[o].kind = "file" =>
        \A i \in DOMAIN got[o] : i > 1 => got[o][i] = got[o][i - 1] + 1

\* What the program holds is what there is: the server keeps no handle of a
\* session that no object could still close, unless a request failed; and once
\* the client and every session are freed the connection is closed, though
\* files and directories of theirs are still around.
NothingKept ==
    /\ faults = 0 => \A h \in server : obj[h.obj].kind \in {"file", "dir"} /\ obj[h.obj].cell = h.cell /\ ~obj[h.obj].closed
    /\ client.open => client.handle = "live" \/ \E c \in Cells : Session(c)

\* Attributes survive the C form.
AttrsKept == \A a \in SUBSET Attributes : attrs_from_c(attrs_to_c(a)) = a

=============================================================================
