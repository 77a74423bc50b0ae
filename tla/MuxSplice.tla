----------------------------- MODULE MuxSplice -----------------------------
(* One multiplexed channel: the client process relays its standard streams   *)
(* (run_client) or a local TCP connection (splice_forward) as frames over     *)
(* the control socket, and the master's splice relays frames to the channel.  *)
EXTENDS Integers, Sequences, SequencesExt

CONSTANTS
  Kind,       \* "session" or "forward"
  MaxOut, MaxErr, MaxIn,   \* chunks of each stream
  LocalWaits  \* the local side keeps its input open until it sees the end of the output

VARIABLES
  input,      \* chunks the local side has still to write; -1 once it has closed
  stdin,      \* the client's stdin thread: "run" or "over"
  up,         \* frames to the master
  taken,      \* chunks written to the channel
  eofSent,    \* CHANNEL_EOF sent to the server
  tin,        \* the master's control-to-channel thread
  outq, errq, \* the channel's mailboxes
  nout, nerr, \* chunks the server has sent
  remote,     \* [eof, status, close]: what else the server has sent; status -1 for none
  main,       \* splice: "copy", "wait", "join", "over"
  terr,       \* the stderr thread: "run" or "over"
  down,       \* frames to the client
  got,        \* [out, err]: what the client wrote
  code,       \* the client's exit code
  client      \* its main loop: "run" or "over"
vars == <<input, stdin, up, taken, eofSent, tin, outq, errq, nout, nerr, remote, main, terr, down, got, code, client>>
inward == <<input, stdin, up, taken, eofSent, tin>>
server == <<nout, nerr, remote>>
outward == <<outq, errq, main, terr, down>>
local == <<got, code, client>>

Init ==
  /\ input = MaxIn /\ stdin = "run" /\ up = <<>> /\ taken = <<>> /\ eofSent = FALSE /\ tin = "run"
  /\ outq = <<>> /\ errq = <<>> /\ nout = 0 /\ nerr = 0
  /\ remote = [eof |-> FALSE, status |-> -1, close |-> FALSE]
  /\ main = "copy" /\ terr = "run" /\ down = <<>>
  /\ got = [out |-> <<>>, err |-> <<>>] /\ code = 255 /\ client = "run"

----------------------------------------------------------------------------
(* The server's side of the channel.                                         *)
ServerOut ==
  /\ nout < MaxOut /\ ~remote.eof
  /\ nout' = nout + 1 /\ outq' = Append(outq, nout + 1)
  /\ UNCHANGED <<inward, nerr, remote, errq, main, terr, down, local>>
ServerErr ==
  /\ Kind = "session" /\ nerr < MaxErr /\ ~remote.eof
  /\ nerr' = nerr + 1 /\ errq' = Append(errq, nerr + 1)
  /\ UNCHANGED <<inward, nout, remote, outq, main, terr, down, local>>
ServerEof ==
  /\ ~remote.eof /\ remote' = [remote EXCEPT !.eof = TRUE]
  /\ UNCHANGED <<inward, nout, nerr, outward, local>>
ServerStatus ==
  /\ Kind = "session" /\ remote.status = -1 /\ ~remote.close
  /\ remote' = [remote EXCEPT !.status = 7]
  /\ UNCHANGED <<inward, nout, nerr, outward, local>>
\* A forwarded connection is closed when both of its directions are; a session at any time.
ServerClose ==
  /\ remote.eof /\ ~remote.close /\ (Kind = "session" \/ eofSent)
  /\ remote' = [remote EXCEPT !.close = TRUE]
  /\ UNCHANGED <<inward, nout, nerr, outward, local>>
\* ... or when what arrives for it can no longer be written.
ServerWriteFails ==
  /\ Kind = "forward" /\ remote.eof /\ ~remote.close /\ taken # <<>>
  /\ remote' = [remote EXCEPT !.close = TRUE]
  /\ UNCHANGED <<inward, nout, nerr, outward, local>>

----------------------------------------------------------------------------
(* Inward: the local side, the client's stdin thread, the master's reader.   *)
\* The local side of a forward sees the end of the output when splice_forward has returned and
\* dropped the connection, which it does once the stdin thread has ended.
SeesEnd == client = "over" /\ (Kind = "forward" => stdin = "over")
LocalCloses ==
  /\ input >= 0 /\ (LocalWaits => SeesEnd)
  /\ input' = -1
  /\ UNCHANGED <<stdin, up, taken, eofSent, tin, server, outward, local>>
StdinThread ==
  /\ stdin = "run" /\ input # 0
  /\ IF input = -1 \/ client = "over"   \* write_frame fails once the socket is shut down
     THEN stdin' = "over" /\ up' = Append(up, 0) /\ UNCHANGED input
     ELSE input' = input - 1 /\ up' = Append(up, MaxIn - input + 1) /\ UNCHANGED stdin
  /\ UNCHANGED <<taken, eofSent, tin, server, outward, local>>

ControlIn ==
  /\ tin = "run" /\ up # <<>>
  /\ up' = Tail(up)
  /\ IF Head(up) = 0 THEN eofSent' = TRUE /\ UNCHANGED taken
     ELSE taken' = Append(taken, Head(up)) /\ UNCHANGED eofSent
  /\ UNCHANGED <<input, stdin, tin, server, outward, local>>
\* The control socket is shut down: read_frame returns None and the thread ends.
ControlInEnds ==
  /\ tin = "run" /\ up = <<>> /\ (main = "over" \/ client = "over")
  /\ tin' = "over"
  /\ UNCHANGED <<input, stdin, up, taken, eofSent, server, outward, local>>

----------------------------------------------------------------------------
(* Outward: splice's loop and its stderr thread.                             *)
CopyOut ==
  /\ main = "copy"
  /\ IF outq # <<>> THEN outq' = Tail(outq) /\ down' = Append(down, <<"out", Head(outq)>>) /\ UNCHANGED main
     ELSE remote.eof /\ main' = "wait" /\ UNCHANGED <<outq, down>>
  /\ UNCHANGED <<inward, server, errq, terr, local>>
CopyErr ==
  /\ terr = "run"
  /\ IF errq # <<>> THEN errq' = Tail(errq) /\ down' = Append(down, <<"err", Head(errq)>>) /\ UNCHANGED terr
     ELSE remote.eof /\ terr' = "over" /\ UNCHANGED <<errq, down>>
  /\ UNCHANGED <<inward, server, outq, main, local>>

\* Mutant of WaitExit: the status is waited for, the close is not.
WaitExitStatusOnly ==
  /\ main = "wait" /\ remote.status # -1
  /\ main' = "join"
  /\ UNCHANGED <<inward, server, outq, errq, terr, down, local>>

\* wait_exit_status(None): until the server says how the command ended, or closes.
WaitExit ==
  /\ main = "wait" /\ (remote.status # -1 \/ remote.close)
  /\ main' = "join"
  /\ UNCHANGED <<inward, server, outq, errq, terr, down, local>>

\* The stderr thread is joined, then the status and the end are written.
Finish ==
  /\ main = "join" /\ terr = "over"
  /\ down' = down \o << <<"exit", IF remote.status = -1 THEN 255 ELSE remote.status>>, <<"eof", 0>> >>
  /\ main' = "over"
  /\ UNCHANGED <<inward, server, outq, errq, terr, local>>

----------------------------------------------------------------------------
(* The client's main loop.                                                   *)
ClientFrame ==
  /\ client = "run" /\ down # <<>>
  /\ LET f == Head(down)
     IN CASE f[1] \in {"out", "err"} -> got' = [got EXCEPT ![f[1]] = Append(@, f[2])] /\ UNCHANGED <<code, client>>
          [] f[1] = "exit" -> code' = f[2] /\ UNCHANGED <<got, client>>
          [] f[1] = "eof" -> client' = "over" /\ UNCHANGED <<got, code>>
  /\ down' = Tail(down)
  /\ UNCHANGED <<inward, server, outq, errq, main, terr>>

(* The threads of the two programs.                                          *)
ControlThread == ControlIn \/ ControlInEnds
SpliceLoop == CopyOut \/ WaitExit \/ Finish
Relay == StdinThread \/ ControlThread \/ SpliceLoop \/ CopyErr \/ ClientFrame
Finished == client = "over" /\ UNCHANGED vars
Next == ServerOut \/ ServerErr \/ ServerEof \/ ServerStatus \/ ServerClose \/ ServerWriteFails \/ LocalCloses \/ Relay \/ Finished
Spec == Init /\ [][Next]_vars

----------------------------------------------------------------------------
Upto(n) == [i \in 1..n |-> i]

\* When the client ends it has written everything the server sent, in order, on both streams,
\* and its exit code is the remote command's, also where the status comes after the end of the output.
AllBeforeExit ==
  client = "over" =>
    /\ got = [out |-> Upto(nout), err |-> Upto(nerr)]
    /\ code = IF remote.status = -1 THEN 255 ELSE remote.status

\* What the server is given is the local input, in order, and CHANNEL_EOF only after the last of it.
InputInOrder ==
  /\ IsPrefix(taken, Upto(MaxIn))
  /\ eofSent => \A i \in DOMAIN up : up[i] = 0
=============================================================================
