-------------------------------- MODULE Scp --------------------------------
(* The scp program.  With the legacy protocol a sender walks its files and  *)
(* a receiver makes them, over two streams, with an answer to every header  *)
(* and every file; one of them is the program, the other runs on the remote *)
(* side, or both do.  Over SFTP one process copies entry by entry.  A tree  *)
(* maps paths to nodes; a file is a sequence of pieces.                     *)
EXTENDS Integers, Sequences, SequencesExt, FiniteSets, TLC

CONSTANTS
  Setups,   \* what is asked for: way, protocol, flags, sources, target, trees, faults
  Pipe      \* how many pieces the streams hold before a writer waits

VARIABLES
  from,     \* the setup
  src, dst, \* the trees at both ends
  mid,      \* the temporary directory of a copy between two remote hosts
  stage,    \* and whether that is filled (1) or sent on (2)
  todo,     \* the sources still to be sent
  work,     \* what is left of the one being sent, innermost first
  bad,      \* an entry of it could not be copied
  spc, cur, \* where the sender is, and its entry
  sent,     \* results: for each source TRUE or FALSE
  fwd, back,\* the streams
  rpc,      \* where the receiver is
  stack,    \* the directories it has entered
  times,    \* pending_times
  taken,    \* the file it fills: target, size and pieces
  one,      \* received_one
  rres,     \* its result
  cut,      \* the connection is gone
  budget

vars == <<from, src, dst, mid, stage, todo, work, bad, spc, cur, sent, fwd, back, rpc, stack, times,
          taken, one, rres, cut, budget>>
sender == <<src, mid, stage, todo, work, bad, spc, cur, sent>>
receiver == <<dst, rpc, stack, times, taken, one, rres>>

----------------------------------------------------------------------------
Dir(w) == [t |-> "dir", w |-> w, data |-> <<>>, time |-> 1]
File(data) == [t |-> "file", w |-> TRUE, data |-> data, time |-> 1]
\* What the receiver makes has the time it was made.
Now == 9
IsDir(tree, p) == p \in DOMAIN tree /\ tree[p].t = "dir"
Names(tree, p) == {q[Len(q)] : q \in {r \in DOMAIN tree : r # <<>> /\ Front(r) = p}}
MayAdd(tree, p) == p # <<>> /\ IsDir(tree, Front(p)) /\ tree[Front(p)].w
With(tree, p, node) == (p :> node) @@ tree
\* Names in the order of a sorted listing.
Sorted(names) == SetToSortSeq(names, LAMBDA a, b : from.order[a] < from.order[b])

\* validate_name: what neither side lets pass.
validate_name(name) == name \notin from.badNames

NoFile == [to |-> <<>>, size |-> 0, data |-> <<>>, had |-> <<>>]
NoEntry == [path |-> <<>>, node |-> Dir(TRUE), pos |-> 0]
Legacy == from.proto = "legacy"
Over(f) == budget[f] > 0 /\ budget' = [budget EXCEPT ![f] = @ - 1]

Init ==
  /\ from \in Setups
  /\ src = from.src /\ dst = from.dst /\ mid = (<<>> :> Dir(TRUE)) /\ stage = 1 /\ bad = FALSE
  /\ todo = from.sources /\ work = <<>> /\ cur = NoEntry /\ sent = <<>>
  /\ spc = (IF Legacy THEN "hello" ELSE "walk")
  /\ fwd = <<>> /\ back = <<>> /\ rpc = (IF Legacy THEN "start" ELSE "done")
  /\ stack = <<>> /\ times = 0 /\ taken = NoFile /\ one = FALSE /\ rres = (IF Legacy THEN "" ELSE "ok")
  /\ cut = FALSE /\ budget = from.faults

----------------------------------------------------------------------------
(* The sender: Sender, and the loops of upload_legacy and remote_end.       *)

Quiet == UNCHANGED <<fwd, back>>
SenderRest == UNCHANGED <<receiver, from, src, mid, stage, bad, cut, budget>>
Item(op, p, to) == [op |-> op, path |-> p, to |-> to]
\* What is written goes to the receiver; a stream that holds as much as it can makes its writer
\* wait.  When a receiver on the remote side has ended what is written is lost; one that is the
\* program itself keeps its end of the pipe open until the other side has ended (SshPipe::drop).
Unread == cut \/ (rpc = "done" /\ from.way # "down")
Writes(token) == (Unread \/ Len(fwd) < Pipe) /\ fwd' = IF Unread THEN fwd ELSE Append(fwd, token)

\* The result of a source; after an error the loop goes on with the next one.
Result(ok) == /\ sent' = Append(sent, ok) /\ todo' = Tail(todo) /\ work' = <<>>
              /\ spc' = "walk" /\ cur' = NoEntry
Goes(pc, entry, rest) == spc' = pc /\ cur' = entry /\ work' = rest /\ UNCHANGED <<sent, todo>>

\* read_ack.
GotOk == back # <<>> /\ Head(back) = "ok"
NoAnswer == back = <<>> /\ (rpc = "done" \/ cut)
ReadsAck(pc, then) ==
  /\ spc = pc /\ (back # <<>> \/ NoAnswer)
  /\ IF GotOk THEN back' = Tail(back) /\ then
     ELSE back' = (IF NoAnswer THEN back ELSE Tail(back)) /\ Result(FALSE) /\ UNCHANGED fwd
  /\ SenderRest

\* Sender::new: the receiver says first that it is ready; otherwise nothing is sent at all.
Hello ==
  /\ spc = "hello" /\ (back # <<>> \/ NoAnswer)
  /\ back' = (IF NoAnswer THEN back ELSE Tail(back))
  /\ IF GotOk THEN spc' = "walk" /\ UNCHANGED <<sent, todo>>
     ELSE spc' = "done" /\ sent' = [i \in DOMAIN todo |-> FALSE] /\ todo' = <<>>
  /\ SenderRest /\ UNCHANGED <<work, cur, fwd>>

\* The C or D line of an entry; a name that must not be sent ends the source.
Header(entry, rest) ==
  LET name == Last(entry.path) IN
  IF ~validate_name(name) THEN Result(FALSE) /\ Quiet
  ELSE /\ Writes(IF entry.node.t = "dir" THEN <<"D", name, entry.node.w>>
                   ELSE <<"C", name, Len(entry.node.data), entry.node.w>>)
       /\ Goes(IF entry.node.t = "dir" THEN "ackD" ELSE "ackC", entry, rest) /\ UNCHANGED back

\* send_path and the loop of send_dir: the next entry is looked at; what is neither a file nor a
\* directory is an error at the top and passed over below.
Walk ==
  /\ Legacy /\ spc = "walk"
  /\ LET top == work = <<>>
         p == IF top THEN Head(todo) ELSE Head(work).path
         rest == IF top THEN <<>> ELSE Tail(work)
         node == src[p]
     IN IF top /\ todo = <<>> THEN spc' = "done" /\ UNCHANGED <<cur, work, sent, todo>> /\ Quiet
        ELSE IF ~top /\ Head(work).op = "leave"
        THEN Writes(<<"E">>) /\ Goes("ackE", cur, rest) /\ UNCHANGED back
        ELSE IF p \notin DOMAIN src \/ (top /\ (node.t = "pipe" \/ (node.t = "dir" /\ ~from.recursive)))
        THEN Result(FALSE) /\ Quiet
        ELSE IF node.t = "pipe" THEN Goes("walk", NoEntry, rest) /\ Quiet
        ELSE LET entry == [path |-> p, node |-> node, pos |-> 0] IN
             IF from.preserve
             THEN Writes(<<"T", node.time>>) /\ Goes("ackT", entry, rest) /\ UNCHANGED back
             ELSE Header(entry, rest)
  /\ SenderRest

AckTimes == ReadsAck("ackT", UNCHANGED fwd /\ Goes("header", cur, work))
SendHeader ==
  /\ spc = "header" /\ Header(cur, work)
  /\ SenderRest

\* A directory is open: its entries, in order, then the line that leaves it.
AckDir ==
  LET names == Sorted(Names(src, cur.path))
  IN ReadsAck("ackD", /\ UNCHANGED fwd
                      /\ IF cur.path \in DOMAIN src \ from.unreadable
                         THEN Goes("walk", NoEntry, [i \in DOMAIN names |-> Item("copy", Append(cur.path, names[i]), <<>>)]
                                                    \o <<Item("leave", cur.path, <<>>)>> \o work)
                         ELSE Result(FALSE))
AckEnd == ReadsAck("ackE", /\ UNCHANGED fwd
                           /\ IF work = <<>> THEN Result(TRUE) ELSE Goes("walk", NoEntry, work))

\* The C line is answered: the file is opened now.
AckFile ==
  ReadsAck("ackC", /\ UNCHANGED fwd
                   /\ IF cur.path \in DOMAIN src /\ cur.path \notin from.unreadable
                      THEN Goes("payload", cur, work) ELSE Result(FALSE))

\* write_payload_term: as many pieces as the header said, then a zero.
Payload ==
  /\ spc = "payload"
  /\ LET data == IF cur.path \in DOMAIN src THEN src[cur.path].data ELSE cur.node.data IN
     IF cur.pos = Len(cur.node.data)
     THEN Writes(<<"0">>) /\ Goes("ackEnd", cur, work) /\ UNCHANGED back
     ELSE IF cur.pos >= Len(data) THEN Result(FALSE) /\ Quiet
     ELSE Writes(<<"b", data[cur.pos + 1]>>) /\ Goes("payload", [cur EXCEPT !.pos = @ + 1], work) /\ UNCHANGED back
  /\ SenderRest
AckPayload == ReadsAck("ackEnd", /\ UNCHANGED fwd
                                 /\ IF work = <<>> THEN Result(TRUE) ELSE Goes("walk", NoEntry, work))

----------------------------------------------------------------------------
(* The receiver: Receiver, run by download_legacy or remote_end.            *)

Eof == fwd = <<>> /\ (spc = "done" \/ cut)
Answers(a) == back' = IF cut \/ spc = "done" THEN back ELSE Append(back, a)
Ends(r) == rpc' = "done" /\ rres' = r /\ UNCHANGED <<stack, times, taken, one>>
Fatal == Answers("fatal") /\ Ends("err") /\ UNCHANGED dst
Waits(pc) == rpc' = pc /\ UNCHANGED rres
Reads == fwd # <<>> /\ fwd' = Tail(fwd)
Receives == UNCHANGED <<from, sender, cut, budget>>

\* remote_end: several sources need a directory (-d).
SinkRefuses == from.many /\ from.way # "down" /\ ~IsDir(dst, from.target)
\* Receiver::new: the target or the place it will be in must exist.
Start ==
  /\ rpc = "start"
  /\ IF SinkRefuses THEN Fatal
     ELSE IF from.target \notin DOMAIN dst /\ ~IsDir(dst, Front(from.target))
          THEN Ends("err") /\ UNCHANGED <<dst, back>>
          ELSE Answers("ok") /\ Waits("header") /\ UNCHANGED <<dst, stack, times, taken, one>>
  /\ Receives /\ UNCHANGED fwd

\* resolve_file_target and the same in recv_dir, with target_is_file.
CurrentDir == IF stack = <<>> THEN from.target ELSE Last(stack)
Place(name) == IF stack = <<>> /\ from.isFile THEN from.target ELSE Append(CurrentDir, name)
\* download_legacy: what was asked for, unless that cannot be known.
Requested(name) == from.asked = {} \/ name \in from.asked
check_top_level_name(name) == stack = <<>> => Requested(name)

RecvTimes == /\ rpc = "header" /\ Reads /\ Head(fwd)[1] = "T"
             /\ times' = Head(fwd)[2] /\ Answers("ok") /\ Receives
             /\ UNCHANGED <<dst, rpc, stack, taken, one, rres>>

\* recv_dir: what is there must be a directory; it gets its mode before it is
\* filled, and never its times: set_times opens for writing, which a directory
\* does not allow, and the error is dropped.
recv_dir ==
  /\ rpc = "header" /\ Reads /\ Head(fwd)[1] = "D"
  /\ LET name == Head(fwd)[2]
         to == Place(name)
         ok == /\ from.recursive /\ check_top_level_name(name)
               /\ IsDir(dst, to) \/ (to \notin DOMAIN dst /\ MayAdd(dst, to))
     IN IF ok
        THEN /\ dst' = With(dst, to, [Dir(Head(fwd)[3]) EXCEPT !.time = Now])
             /\ stack' = Append(stack, to) /\ times' = 0 /\ Answers("ok")
             /\ UNCHANGED <<rpc, taken, one, rres>>
        ELSE Fatal
  /\ Receives

RecvEnd ==
  /\ rpc = "header" /\ Reads /\ Head(fwd)[1] = "E"
  /\ IF stack = <<>> THEN Fatal
     ELSE stack' = Front(stack) /\ times' = 0 /\ Answers("ok") /\ UNCHANGED <<dst, rpc, taken, one, rres>>
  /\ Receives

\* recv_file, until the file is open: refused before the line is answered, or after it.
RecvFile ==
  /\ rpc = "header" /\ Reads /\ Head(fwd)[1] = "C"
  /\ LET name == Head(fwd)[2]
         to == Place(name)
         there == to \in DOMAIN dst
         refused == \/ ~check_top_level_name(name)
                    \/ from.expected # "" /\ (one \/ name # from.expected)
                    \/ Head(fwd)[3] > from.cap
                    \/ there /\ dst[to].t = "link"
         opens == IF there THEN dst[to].t = "file" ELSE MayAdd(dst, to)
     IN IF refused THEN Fatal
        ELSE IF ~opens
        THEN back' = (IF cut \/ spc = "done" THEN back ELSE back \o <<"ok", "fatal">>) /\ Ends("err") /\ UNCHANGED dst
        ELSE /\ dst' = IF there THEN dst ELSE With(dst, to, [File(<<>>) EXCEPT !.time = Now])
             /\ taken' = [to |-> to, size |-> Head(fwd)[3], data |-> <<>>, w |-> Head(fwd)[4]]
             /\ Answers("ok") /\ Waits("payload") /\ UNCHANGED <<stack, times, one>>
  /\ Receives

\* read_payload_term: whatever comes is the payload; then it must be a zero.
RecvPayload ==
  /\ rpc = "payload" /\ Reads
  /\ IF Len(taken.data) < taken.size
     THEN LET data == Append(taken.data, IF Head(fwd)[1] = "b" THEN Head(fwd)[2] ELSE 0) IN
          /\ taken' = [taken EXCEPT !.data = data]
          /\ dst' = [dst EXCEPT ![taken.to].data = data \o SubSeq(@, Len(data) + 1, Len(@)), ![taken.to].time = Now]
          /\ UNCHANGED <<back, rpc, stack, times, one, rres>>
     ELSE IF Head(fwd)[1] # "0" THEN Fatal
     ELSE /\ dst' = [dst EXCEPT ![taken.to] = [@ EXCEPT !.data = SubSeq(@, 1, taken.size), !.w = taken.w,
                                  !.time = IF times # 0 /\ from.preserve THEN times ELSE @]]
          /\ times' = 0 /\ one' = TRUE /\ taken' = NoFile /\ Answers("ok") /\ Waits("header")
          /\ UNCHANGED stack
  /\ Receives

\* The disk is full, or the write fails for another reason.
DiskFull == rpc = "payload" /\ Over("disk") /\ Fatal /\ UNCHANGED <<from, sender, cut, fwd>>

\* The sender hung up: fine between two entries, wherever that is, and an error in a file.
HungUp ==
  /\ rpc \in {"header", "payload"} /\ Eof
  /\ IF rpc = "header" THEN Ends("ok") /\ UNCHANGED <<dst, back>> ELSE Fatal
  /\ Receives /\ UNCHANGED fwd

----------------------------------------------------------------------------
(* Over SFTP: one process, entry by entry; a failure is counted and the     *)
(* entries beside it go on.                                                 *)

\* Between two remote hosts everything goes through a local directory.
Staging == from.way = "cross" /\ stage = 1
TreeFrom == IF stage = 2 THEN mid ELSE src
TreeTo == IF Staging THEN mid ELSE dst
Puts(tree) == IF Staging THEN mid' = tree /\ UNCHANGED dst ELSE dst' = tree /\ UNCHANGED mid
SftpRest == UNCHANGED <<from, src, fwd, back, rpc, stack, times, taken, one, rres, cut>>
Many == IF stage = 2 THEN Cardinality(Names(mid, <<>>)) > 1 ELSE from.many \/ Staging

\* remote_target and local_target: where a source goes, if the target can take it.
remote_target(p) ==
  LET target == IF Staging THEN <<>> ELSE from.target
  IN IF IsDir(TreeTo, target) THEN {Append(target, Last(p))} ELSE IF Many THEN {} ELSE {target}
NextSource ==
  /\ ~Legacy /\ spc = "walk" /\ work = <<>> /\ todo # <<>>
  /\ LET p == Head(todo) IN
     IF cut \/ remote_target(p) = {} \/ (IsDir(TreeFrom, p) /\ ~from.recursive)
     THEN sent' = Append(sent, FALSE) /\ todo' = Tail(todo) /\ UNCHANGED work
     ELSE /\ \E to \in remote_target(p) : work' = <<Item("copy", p, to), Item("end", p, to)>>
          /\ UNCHANGED <<todo, sent>>
  /\ SftpRest /\ UNCHANGED <<dst, mid, stage, bad, spc, cur, budget>>

\* upload_at and download_at: one entry.
Turn(op) == ~Legacy /\ spc = "walk" /\ work # <<>> /\ Head(work).op = op
Copied(node) == [node EXCEPT !.time = IF from.preserve THEN @ ELSE Now]
Replaces(node, p) == IF p \in DOMAIN TreeTo /\ ~from.preserve THEN [node EXCEPT !.w = TreeTo[p].w] ELSE node
CopyEntry ==
  /\ Turn("copy")
  /\ LET p == Head(work).path
         to == Head(work).to
         there == p \in DOMAIN TreeFrom /\ ~cut
         node == TreeFrom[p]
         names == Sorted(Names(TreeFrom, p))
         makes == to \notin DOMAIN TreeTo /\ MayAdd(TreeTo, to)
         rest == Tail(work)
     IN IF ~there \/ node.t = "pipe" \/ ~(makes \/ (to \in DOMAIN TreeTo /\ TreeTo[to].t = node.t))
        THEN bad' = TRUE /\ work' = rest /\ UNCHANGED <<dst, mid>>
        ELSE IF node.t = "dir"
        THEN /\ Puts(IF makes THEN With(TreeTo, to, [Dir(TRUE) EXCEPT !.time = Now]) ELSE TreeTo)
             /\ IF stage = 1 /\ p \in from.unreadable THEN bad' = TRUE /\ work' = rest
                ELSE /\ UNCHANGED bad
                     /\ work' = [i \in DOMAIN names |-> Item("copy", Append(p, names[i]), Append(to, names[i]))]
                                \o <<Item("leave", p, to)>> \o rest
        ELSE IF stage = 1 /\ p \in from.unreadable THEN bad' = TRUE /\ work' = rest /\ UNCHANGED <<dst, mid>>
        ELSE Puts(With(TreeTo, to, Replaces(Copied(node), to))) /\ work' = rest /\ UNCHANGED bad
  /\ SftpRest /\ UNCHANGED <<stage, todo, sent, spc, cur, budget>>

\* ... that breaks off: what was copied of the file stays.
CopyBreaks ==
  /\ Turn("copy") /\ Over("disk")
  /\ LET p == Head(work).path
         to == Head(work).to
     IN /\ p \in DOMAIN TreeFrom /\ TreeFrom[p].t = "file" /\ p \notin from.unreadable
        /\ to \notin DOMAIN TreeTo /\ MayAdd(TreeTo, to)
        /\ Puts(With(TreeTo, to, [File(SubSeq(TreeFrom[p].data, 1, 1)) EXCEPT !.time = Now]))
  /\ bad' = TRUE /\ work' = Tail(work)
  /\ SftpRest /\ UNCHANGED <<stage, todo, sent, spc, cur>>

\* With -p a directory gets its mode and times when it is full.
LeaveDir ==
  /\ Turn("leave")
  /\ LET i == Head(work) IN
     IF from.preserve /\ i.path \in DOMAIN TreeFrom /\ ~cut
     THEN Puts([TreeTo EXCEPT ![i.to] = [@ EXCEPT !.w = TreeFrom[i.path].w, !.time = TreeFrom[i.path].time]])
     ELSE UNCHANGED <<dst, mid>>
  /\ work' = Tail(work)
  /\ SftpRest /\ UNCHANGED <<stage, todo, sent, bad, spc, cur, budget>>

EndSource ==
  /\ Turn("end") /\ sent' = Append(sent, ~bad) /\ bad' = FALSE /\ todo' = Tail(todo) /\ work' = <<>>
  /\ SftpRest /\ UNCHANGED <<dst, mid, stage, spc, cur, budget>>

\* The end; crossload_sftp sends on what it has fetched, if that is all.
EndRun ==
  /\ ~Legacy /\ spc = "walk" /\ work = <<>> /\ todo = <<>>
  /\ LET names == Sorted(Names(mid, <<>>)) IN
     IF Staging /\ \A i \in DOMAIN sent : sent[i]
     THEN /\ stage' = 2 /\ todo' = [i \in DOMAIN names |-> <<names[i]>>] /\ sent' = <<>>
          /\ UNCHANGED <<spc, mid>>
     ELSE spc' = "done" /\ mid' = (<<>> :> Dir(TRUE)) /\ UNCHANGED <<stage, todo, sent>>
  /\ SftpRest /\ UNCHANGED <<dst, work, bad, cur, budget>>

----------------------------------------------------------------------------
(* What happens around them.                                                *)

Cut ==
  /\ ~cut /\ Over("cut") /\ cut' = TRUE
  /\ \E n \in 0 .. Len(fwd) : fwd' = SubSeq(fwd, 1, n)
  /\ \E n \in 0 .. Len(back) : back' = SubSeq(back, 1, n)
  /\ UNCHANGED <<from, sender, receiver>>

\* Somebody removes a source file, or makes it shorter.
Changes ==
  /\ Over("source")
  /\ \E p \in {q \in DOMAIN src : src[q].t = "file"} :
       src' \in {[q \in DOMAIN src \ {p} |-> src[q]],
                 [src EXCEPT ![p].data = SubSeq(@, 1, Len(@) - 1)]}
  /\ UNCHANGED <<from, mid, stage, todo, work, bad, spc, cur, sent, fwd, back, receiver, cut>>

SenderNext == \/ Hello \/ Walk \/ AckTimes \/ SendHeader \/ AckDir \/ AckEnd \/ AckFile \/ Payload \/ AckPayload
              \/ NextSource \/ CopyEntry \/ LeaveDir \/ EndSource \/ EndRun
ReceiverNext == Start \/ RecvTimes \/ recv_dir \/ RecvEnd \/ RecvFile \/ RecvPayload \/ HungUp
Ended == spc = "done" /\ rpc = "done" /\ UNCHANGED vars
Next == SenderNext \/ ReceiverNext \/ DiskFull \/ CopyBreaks \/ Cut \/ Changes \/ Ended

Spec == Init /\ [][Next]_vars /\ WF_vars(SenderNext) /\ WF_vars(ReceiverNext)

----------------------------------------------------------------------------
\* Everything of a source that is still there is at its place, as long as it was at some moment
\* of the copy, and with -p at its time.
Arrived(p) ==
  LET base == IF IsDir(from.dst, from.target) THEN Append(from.target, Last(p)) ELSE from.target IN
  \A q \in {r \in DOMAIN src \cap DOMAIN from.src : IsPrefix(p, r) /\ src[r].t # "pipe"} :
    LET to == base \o SubSeq(q, Len(p) + 1, Len(q)) IN
    /\ to \in DOMAIN dst /\ dst[to].t = src[q].t
    /\ IsPrefix(src[q].data, dst[to].data) /\ IsPrefix(dst[to].data, from.src[q].data)
    /\ from.preserve /\ src[q].t = "file" => dst[to].time = src[q].time

\* A source that was sent without an error is under the target, in its own place and whole, and
\* after a copy over SFTP that succeeds all of them are.  This is about the answers that keep
\* sender and receiver at the same entry, the receiver's stack, and the errors the recursive copies
\* hand up, with a full disk, a source that changes and a lost connection at any point.
SentIsThere ==
  IF from.way = "cross" /\ ~Legacy
  THEN spc = "done" /\ (\A i \in DOMAIN sent : sent[i]) => \A i \in DOMAIN from.sources : Arrived(from.sources[i])
  ELSE \A i \in DOMAIN sent : sent[i] => Arrived(from.sources[i])

=============================================================================
