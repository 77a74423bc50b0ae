---------------------------- MODULE SftpTransfer ----------------------------
(***************************************************************************)
(* The pipelined transfers of sftp/client.rs: read_to keeps several READ   *)
(* requests in flight and puts the answers in order, write_from keeps      *)
(* several WRITE requests in flight.  The server answers in any order and  *)
(* in pieces; the file may grow or shrink while it is read.                *)
(*                                                                         *)
(* The byte at position p of the file is represented by p itself, so data  *)
(* is a pair of a position and a length and order can be seen in the sink. *)
(***************************************************************************)
EXTENDS Integers, Sequences, FiniteSets, SequencesExt, FiniteSetsExt, Functions

CONSTANTS
    Op,         \* "read" or "write"
    Offset,     \* where the transfer starts
    Chunk,      \* bytes of a request
    Depth,      \* requests in flight
    FileLen,    \* length of the file read, or of the source written
    MaxLen,     \* bound on the length the file grows to
    MaxFaults,  \* bound on failed requests
    Changes     \* what others do to the file read: a subset of {"grow", "shrink"}

VARIABLES
    len,        \* the length of the file at the server (read)
    stored,     \* positions the server has written (write)
    req,        \* requests the server has not answered: [id, off, n]
    rep,        \* answers on their way, in the order sent: [id, kind, n]
    out,        \* outstanding: id |-> [off, n]
    received,   \* answers that wait for an earlier one: off |-> n
    sink,       \* what reached the sink
    next, written, eof, nextId,
    left,       \* answers still to be drained after an error
    pc,         \* "run", "drain", or how the transfer ended: "ok", "gap", "error"
    faults,
    least       \* the smallest length the file had (history)

vars == <<len, stored, req, rep, out, received, sink, next, written, eof,
          nextId, left, pc, faults, least>>

NoEof == -1
Window == Depth * Chunk
Empty == [x \in {} |-> 0]

Init ==
    /\ len = FileLen /\ least = FileLen /\ stored = {}
    /\ req = {} /\ rep = <<>> /\ out = Empty /\ received = Empty
    /\ sink = <<>> /\ next = Offset /\ written = Offset /\ eof = NoEof
    /\ nextId = 1 /\ left = 0 /\ pc = "run" /\ faults = 0

Outstanding == Cardinality(DOMAIN out)

\* Send one request and remember it.
Ask(off, n) ==
    /\ req' = req \cup {[id |-> nextId, off |-> off, n |-> n]}
    /\ nextId' = nextId + 1

-----------------------------------------------------------------------------
(* The server and the other users of the file.                             *)

Reply(q, kind, n) ==
    /\ req' = req \ {q}
    /\ rep' = Append(rep, [id |-> q.id, kind |-> kind, n |-> n])

\* A READ gives at least one byte, at most what was asked and what there is,
\* EOF at or behind the end; a WRITE stores its bytes.
Answer(q) ==
    \/ /\ Op = "read" /\ q.off < len
       /\ \E n \in 1..Min({q.n, len - q.off}) : Reply(q, "data", n)
       /\ UNCHANGED stored
    \/ /\ Op = "read" /\ q.off >= len
       /\ Reply(q, "eof", 0) /\ UNCHANGED stored
    \/ /\ Op = "write"
       /\ stored' = stored \cup (q.off .. q.off + q.n - 1)
       /\ Reply(q, "ok", 0)

ServerAnswers ==
    \E q \in req :
        /\ Answer(q)
        /\ UNCHANGED <<len, out, received, sink, next, written, eof, nextId, left,
                       pc, faults, least>>

ServerFails ==
    \E q \in req :
        /\ faults < MaxFaults /\ faults' = faults + 1
        /\ Reply(q, "fail", 0)
        /\ UNCHANGED <<len, stored, out, received, sink, next, written, eof,
                       nextId, left, pc, least>>

OthersChange ==
    /\ Op = "read"
    /\ \/ "grow" \in Changes /\ len < MaxLen /\ len' = len + 1
       \/ "shrink" \in Changes /\ len > 0 /\ len' = len - 1
    /\ least' = Min({least, len'})
    /\ UNCHANGED <<stored, req, rep, out, received, sink, next, written, eof,
                   nextId, left, pc, faults>>

-----------------------------------------------------------------------------
(* The client.                                                             *)

CanRead ==
    Outstanding < Depth /\ next - written < Window /\ (eof = NoEof \/ next < eof)

ReadSend ==
    /\ Op = "read" /\ pc = "run" /\ CanRead
    /\ Ask(next, Chunk)
    /\ out' = (nextId :> [off |-> next, n |-> Chunk]) @@ out
    /\ next' = next + Chunk
    /\ UNCHANGED <<len, stored, rep, received, sink, written, eof, left, pc, faults, least>>

\* Where the bytes that follow each other from w on end.
RunEnd(rec) ==
    LET f[w \in 0..(MaxLen + Window)] ==
            IF w \in DOMAIN rec THEN f[w + rec[w]] ELSE w
    IN  f[written]

ReadDone ==
    /\ Op = "read" /\ pc = "run" /\ ~CanRead /\ out = Empty
    /\ pc' = IF received # Empty THEN "gap" ELSE "ok"
    /\ UNCHANGED <<len, stored, req, rep, out, received, sink, next, written, eof,
                   nextId, left, faults, least>>

\* Mutant of Fail: one answer more is waited for than is outstanding.
FailOneMore(o) ==
    /\ pc' = "drain"
    /\ left' = Cardinality(DOMAIN o) + 1
    /\ UNCHANGED <<req, received, sink, written, eof, nextId>>

\* An error: the answers still outstanding are read and thrown away.
Fail(o) ==
    /\ pc' = IF o = Empty THEN "error" ELSE "drain"
    /\ left' = Cardinality(DOMAIN o)
    /\ UNCHANGED <<req, received, sink, written, eof, nextId>>

\* Hand everything that follows what the sink has to it; the sink may fail.
Flush(rec, o) ==
    LET e == RunEnd(rec) IN
    \/ /\ sink' = sink \o [i \in 1..(e - written) |-> written + i - 1]
       /\ received' = Restrict(rec, {p \in DOMAIN rec : p > e})
       /\ written' = e
       /\ UNCHANGED <<left, pc, faults>>
    \/ /\ e > written /\ faults < MaxFaults /\ faults' = faults + 1
       /\ pc' = IF o = Empty THEN "error" ELSE "drain"
       /\ left' = Cardinality(DOMAIN o)
       /\ UNCHANGED <<sink, received, written>>

\* A short answer: its rest must be asked for again.
Short(off, n, got) == got < n /\ (eof = NoEof \/ off + got < eof)

ReadData(off, n, got, o) ==
    /\ IF Short(off, n, got)
       THEN /\ Ask(off + got, n - got)
            /\ out' = (nextId :> [off |-> off + got, n |-> n - got]) @@ o
       ELSE out' = o /\ UNCHANGED <<req, nextId>>
    /\ Flush((off :> got) @@ received, out')
    /\ UNCHANGED eof

ReadEof(off, o) ==
    /\ eof' = IF eof = NoEof THEN off ELSE Min({eof, off})
    /\ out' = o
    /\ UNCHANGED <<req, nextId, received, sink, written, left, pc, faults>>

ReadRecv ==
    /\ Op = "read" /\ pc = "run" /\ ~CanRead /\ out # Empty /\ rep # <<>>
    /\ LET a == Head(rep)
           q == out[a.id]
           o == Restrict(out, DOMAIN out \ {a.id})
       IN  \/ a.kind = "data" /\ ReadData(q.off, q.n, a.n, o)
           \/ a.kind = "eof" /\ ReadEof(q.off, o)
           \/ a.kind = "fail" /\ Fail(o) /\ out' = o /\ UNCHANGED faults
    /\ rep' = Tail(rep)
    /\ UNCHANGED <<len, stored, next, least>>

Drain ==
    /\ pc = "drain" /\ rep # <<>>
    /\ rep' = Tail(rep) /\ left' = left - 1
    /\ pc' = IF left = 1 THEN "error" ELSE "drain"
    /\ UNCHANGED <<len, stored, req, out, received, sink, next, written, eof,
                   nextId, faults, least>>

\* write_from: eof is where the source was found to end.  A chunk is filled
\* unless the source ends; a short one is the last.
CanWrite == eof = NoEof /\ Outstanding < Depth

\* Mutant of WriteSend: one read of the source is taken for a whole chunk.
WriteSendUnfilled ==
    /\ Op = "write" /\ pc = "run" /\ CanWrite
    /\ \E n \in 0..Min({Chunk, FileLen - (next - Offset)}) :
       /\ n = 0 => next = Offset + FileLen
       /\ IF n = 0
          THEN UNCHANGED <<req, nextId, out>>
          ELSE Ask(next, n) /\ out' = (nextId :> [off |-> next, n |-> n]) @@ out
       /\ next' = next + n
       /\ eof' = IF n < Chunk THEN next + n ELSE NoEof
    /\ UNCHANGED <<len, stored, rep, received, sink, written, left, pc, faults, least>>

WriteSend ==
    /\ Op = "write" /\ pc = "run" /\ CanWrite
    /\ LET n == Min({Chunk, FileLen - (next - Offset)}) IN
       /\ IF n = 0
          THEN UNCHANGED <<req, nextId, out>>
          ELSE Ask(next, n) /\ out' = (nextId :> [off |-> next, n |-> n]) @@ out
       /\ next' = next + n
       /\ eof' = IF n < Chunk THEN next + n ELSE NoEof
    /\ UNCHANGED <<len, stored, rep, received, sink, written, left, pc, faults, least>>

\* The source fails: what is in flight is drained.
SourceFails ==
    /\ Op = "write" /\ pc = "run" /\ CanWrite
    /\ faults < MaxFaults /\ faults' = faults + 1
    /\ Fail(out)
    /\ UNCHANGED <<len, stored, rep, out, next, least>>

WriteOk(id, o) == out' = o

\* written counts the bytes acknowledged.
WriteRecv ==
    /\ Op = "write" /\ pc = "run" /\ ~CanWrite /\ out # Empty /\ rep # <<>>
    /\ LET a == Head(rep)
           o == Restrict(out, DOMAIN out \ {a.id})
       IN  \/ /\ a.kind = "ok" /\ WriteOk(a.id, o)
              /\ written' = written + out[a.id].n
              /\ UNCHANGED <<req, received, sink, eof, nextId, left, pc>>
           \/ a.kind = "fail" /\ Fail(o) /\ out' = o
    /\ rep' = Tail(rep)
    /\ UNCHANGED <<len, stored, next, faults, least>>

WriteDone ==
    /\ Op = "write" /\ pc = "run" /\ ~CanWrite /\ out = Empty
    /\ pc' = "ok"
    /\ UNCHANGED <<len, stored, req, rep, out, received, sink, next, written, eof,
                   nextId, left, faults, least>>

Client == ReadSend \/ ReadRecv \/ ReadDone \/ Drain
          \/ WriteSend \/ WriteRecv \/ WriteDone

Next == Client \/ ServerAnswers \/ ServerFails \/ OthersChange \/ SourceFails

\* The client never waits for anything but an answer, and the server answers.
Spec == Init /\ [][Next]_vars /\ WF_vars(Client) /\ WF_vars(ServerAnswers)

-----------------------------------------------------------------------------
\* "Data reaches sink in order": the sink holds consecutive bytes of the file
\* from the offset on, whatever order and pieces the answers came in.
SinkInOrder == sink = [i \in 1..(written - Offset) |-> Offset + i - 1] \/ Op = "write"

\* A transfer that reports success has copied at least the file as it was at
\* its shortest, and has stored every byte of the source and acknowledged it.
SuccessIsWhole ==
    pc = "ok" =>
        IF Op = "read"
        THEN written >= least
        ELSE /\ stored = Offset .. (Offset + FileLen - 1)
             /\ written = Offset + FileLen

\* The answers kept for later never exceed the window, however slowly the
\* server answers the lowest range.
KeptWithinWindow ==
    MapThenFoldSet(+, 0, LAMBDA p : received[p], LAMBDA S : CHOOSE p \in S : TRUE,
                   DOMAIN received) <= Window

\* When the call returns, with a result or an error, no answer to one of its
\* requests is on its way: the next request of the session reads its own.
SessionInSync == pc \in {"ok", "gap", "error"} => req = {} /\ rep = <<>>

\* Every transfer ends, the lowest range being always asked for.
TransferEnds == <>(pc \in {"ok", "gap", "error"})
=============================================================================
