----------------------------- MODULE SshSession -----------------------------
(* A session of the ssh program at a terminal (bin/ssh.rs, run_session): the *)
(* thread that reads the keyboard, with escapes or with obscured timing, the *)
(* raw mode of the terminal and the handlers that undo it, the end of the    *)
(* session, and the thread that asks whether the server is still there.      *)
EXTENDS Integers, Sequences, SequencesExt, FiniteSets

CONSTANTS
  Keys,        \* keys: "x", "nl", "~", the letters of escapes
  MaxTyped,    \* the most that is typed
  MaxRead,     \* the most that one read returns
  Ptys,        \* whether the session asks for a terminal
  Escapes,     \* whether there is an escape character
  Obscures,    \* whether ObscureKeystrokeTiming is on
  MaxChunk,    \* max_chunk of the obfuscator
  ChaffTail,   \* its chaff tail, in ticks of the cadence
  Interval,    \* ServerAliveInterval in ticks of the clock, 0 for none
  CountMax,    \* ServerAliveCountMax
  Late,        \* how late a sleep may end
  Faults,      \* "denied", "refused", "signal", "idle", "silent", "broken"
  MaxTime

VARIABLES
  typed,       \* the input: what the user types before the end of the file
  config,      \* [pty, escape, obscure]
  mode,        \* how stdin is read: "none" yet, "plain", "escape", "obscured"
  read,        \* how many keys were read
  filter,      \* EscapeFilter: [at_line_start, pending]
  work,        \* what the last read made, still to be sent or run
  sent,        \* what went out: keys, actions, at last "eof"
  stdin,       \* the thread: "read", "line" or "stopped" in an escape, "done"
  obf,         \* KeystrokeObfuscator: [queue, open, until, now], and whether stdin ended
  term,        \* the terminal: "cooked", "raw"
  guard,       \* TermiosRawGuard: "none", "held", "disarmed", "dropped"
  main,        \* "start", "opening", "running", "ending", "exit"
  why,         \* what ended the process
  status,      \* the exit status of the remote command, -1 before
  clock, heard, \* the clock, and when the last packet came
  wake, unanswered, \* the keepalive thread
  since,       \* when the first request was sent that it counts as unanswered
  answers      \* the server answers
vars == <<typed, config, mode, read, filter, work, sent, stdin, obf, term, guard, main, why, status,
          clock, heard, wake, unanswered, since, answers>>

keyboard == <<mode, read, filter, work, stdin, obf>>
alive == <<clock, heard, wake, unanswered, since, answers>>
given == <<typed, config>>

ActionOf == [B |-> "break", R |-> "rekey", C |-> "line", z |-> "suspend", dot |-> "disconnect", q |-> "print"]

Init ==
  /\ typed \in UNION {[1..n -> Keys] : n \in 0..MaxTyped}
  /\ config \in [pty : Ptys, escape : Escapes, obscure : Obscures]
  /\ mode = "none" /\ read = 0 /\ filter = [at_line_start |-> TRUE, pending |-> FALSE]
  /\ work = <<>> /\ sent = <<>> /\ stdin = "read"
  /\ obf = [queue |-> <<>>, open |-> FALSE, until |-> 0, now |-> 0, eof |-> FALSE]
  /\ term = "cooked" /\ guard = "none" /\ main = "start" /\ why = "none" /\ status = -1
  /\ clock = 0 /\ heard = 0 /\ wake = Interval /\ unanswered = 0 /\ since = 0 /\ answers = TRUE

Alive == main # "exit"
Serving == main = "running"
ProcessExit(w) == main' = "exit" /\ why' = w

----------------------------------------------------------------------------
(* The terminal and the main thread.                                         *)

\* TermiosRawGuard::install: raw mode, and handlers for four signals that undo it.
install == term' = "raw" /\ guard' = "held"

\* run_session, up to the request: the terminal is raw while the server is asked.
Start ==
  /\ main = "start" /\ main' = "opening"
  /\ IF config.pty THEN install ELSE UNCHANGED <<term, guard>>
  /\ UNCHANGED <<given, keyboard, sent, why, status, alive>>

\* run_session: the answer.  Without its terminal the session has no escapes, and the keyboard
\* is obscured only where there are none.
Opened ==
  /\ main = "opening"
  /\ \E denied \in {FALSE} \cup (IF "denied" \in Faults /\ config.pty THEN {TRUE} ELSE {}),
        ok \in {TRUE} \cup (IF "refused" \in Faults THEN {FALSE} ELSE {}) :
       LET escape == config.escape /\ config.pty /\ ~denied
       IN /\ main' = IF ok THEN "running" ELSE "ending"
          /\ IF ok THEN mode' = IF escape THEN "escape" ELSE IF config.pty /\ config.obscure THEN "obscured" ELSE "plain"
             ELSE UNCHANGED mode
          /\ IF ok /\ denied THEN guard' = "dropped" /\ term' = "cooked" ELSE UNCHANGED <<guard, term>>
  /\ UNCHANGED <<given, read, filter, work, stdin, obf, sent, why, status, alive>>

\* The server ends the session; t_out, t_err and the main thread follow.  A connection that
\* breaks has no status.
RemoteEnds ==
  /\ Serving /\ main' = "ending"
  /\ \E s \in {0, 1} \cup (IF "broken" \in Faults THEN {-1} ELSE {}) : status' = s
  /\ UNCHANGED <<given, keyboard, sent, term, guard, why, alive>>

\* TermiosRawGuard::drop: the handlers go first, then the terminal is set back.
Disarm ==
  /\ main = "ending" /\ guard = "held" /\ guard' = "disarmed"
  /\ UNCHANGED <<given, keyboard, sent, term, main, why, status, alive>>
Restore ==
  /\ main = "ending" /\ guard = "disarmed" /\ guard' = "dropped" /\ term' = "cooked"
  /\ UNCHANGED <<given, keyboard, sent, main, why, status, alive>>

\* main returns: the other threads end with the process.
Leave ==
  /\ main = "ending" /\ guard \in {"none", "dropped"}
  /\ ProcessExit("end")
  /\ UNCHANGED <<given, keyboard, sent, term, guard, status, alive>>

\* A signal: the handler sets the terminal back and raises it again, no handler and it kills.
Signal ==
  /\ Alive /\ main # "start" /\ "signal" \in Faults
  /\ ProcessExit("signal") /\ term' = IF guard = "held" THEN "cooked" ELSE term
  /\ UNCHANGED <<given, keyboard, sent, guard, status, alive>>

\* spawn_channel_timeouts: the session itself was idle for too long.
ChannelTimeout ==
  /\ Serving /\ "idle" \in Faults
  /\ ProcessExit("idle") /\ term' = IF config.pty THEN "cooked" ELSE term
  /\ UNCHANGED <<given, keyboard, sent, guard, status, alive>>

----------------------------------------------------------------------------
(* The keyboard.                                                             *)

\* Mutant of feed: a read starts at the beginning of a line, with nothing pending.
feedAfresh(f, keys) ==
  LET step(s, b) ==
        CASE s.f.pending /\ b \in DOMAIN ActionOf ->
               [f |-> [at_line_start |-> TRUE, pending |-> FALSE], out |-> Append(s.out, ActionOf[b])]
          [] s.f.pending /\ b = "~" ->
               [f |-> [at_line_start |-> FALSE, pending |-> FALSE], out |-> Append(s.out, b)]
          [] s.f.pending -> [f |-> [at_line_start |-> b = "nl", pending |-> FALSE], out |-> s.out \o <<"~", b>>]
          [] ~s.f.pending /\ s.f.at_line_start /\ b = "~" -> [s EXCEPT !.f.pending = TRUE]
          [] OTHER -> [f |-> [at_line_start |-> b = "nl", pending |-> FALSE], out |-> Append(s.out, b)]
  IN FoldLeft(step, [f |-> [at_line_start |-> TRUE, pending |-> FALSE], out |-> <<>>], keys)

\* EscapeFilter::feed: an escape character at the beginning of a line waits for the next key.
feed(f, keys) ==
  LET step(s, b) ==
        CASE s.f.pending /\ b \in DOMAIN ActionOf ->
               [f |-> [at_line_start |-> TRUE, pending |-> FALSE], out |-> Append(s.out, ActionOf[b])]
          [] s.f.pending /\ b = "~" ->
               [f |-> [at_line_start |-> FALSE, pending |-> FALSE], out |-> Append(s.out, b)]
          [] s.f.pending -> [f |-> [at_line_start |-> b = "nl", pending |-> FALSE], out |-> s.out \o <<"~", b>>]
          [] ~s.f.pending /\ s.f.at_line_start /\ b = "~" -> [s EXCEPT !.f.pending = TRUE]
          [] OTHER -> [f |-> [at_line_start |-> b = "nl", pending |-> FALSE], out |-> Append(s.out, b)]
  IN FoldLeft(step, [f |-> f, out |-> <<>>], keys)

\* The threads of the keyboard run beside the main thread until the process ends.
Reading == main \in {"running", "ending"} /\ stdin = "read" /\ work = <<>>
More == 1..(IF Len(typed) - read < MaxRead THEN Len(typed) - read ELSE MaxRead)

\* The stdin thread: one read.
Read ==
  /\ Reading /\ mode \in {"plain", "escape"}
  /\ \E n \in More :
       LET keys == SubSeq(typed, read + 1, read + n)
       IN /\ read' = read + n
          /\ IF mode = "plain" THEN work' = keys /\ UNCHANGED filter
             ELSE LET r == feed(filter, keys) IN work' = r.out /\ filter' = r.f
  /\ UNCHANGED <<given, mode, sent, stdin, obf, term, guard, main, why, status, alive>>

\* send_all: bytes are sent while the channel is open; else the thread ends.
IsKey(x) == x \in Keys
SendKey ==
  /\ main \in {"running", "ending"} /\ stdin = "read" /\ work # <<>> /\ IsKey(Head(work))
  /\ IF Serving THEN sent' = Append(sent, Head(work)) /\ work' = Tail(work) /\ UNCHANGED stdin
     ELSE stdin' = "done" /\ UNCHANGED <<sent, work>>
  /\ UNCHANGED <<given, mode, read, filter, obf, term, guard, main, why, status, alive>>

\* run_escape: the bytes before it are sent.
Acting(a) == main \in {"running", "ending"} /\ stdin = "read" /\ work # <<>> /\ Head(work) = a
RunEscape ==
  /\ \E a \in {"break", "rekey", "print"} : Acting(a)
  /\ sent' = Append(sent, Head(work)) /\ work' = Tail(work)
  /\ UNCHANGED <<given, mode, read, filter, stdin, obf, term, guard, main, why, status, alive>>
Disconnect ==
  /\ Acting("disconnect")
  /\ term' = "cooked" /\ ProcessExit("disconnect") /\ sent' = Append(sent, "disconnect") /\ work' = Tail(work)
  /\ UNCHANGED <<given, mode, read, filter, stdin, obf, guard, status, alive>>

\* Suspend, and escape_command_line: the terminal is set back, and made raw when the user comes back.
Aside ==
  /\ \E a \in {"line", "suspend"} : Acting(a) /\ stdin' = a
  /\ term' = "cooked" /\ sent' = Append(sent, Head(work)) /\ work' = Tail(work)
  /\ UNCHANGED <<given, mode, read, filter, obf, guard, main, why, status, alive>>

Back ==
  /\ Alive /\ stdin \in {"line", "suspend"} /\ stdin' = "read"
  /\ term' = "raw"
  /\ UNCHANGED <<given, mode, read, filter, work, obf, sent, guard, main, why, status, alive>>

\* The end of stdin.
StdinEnds ==
  /\ Reading /\ mode \in {"plain", "escape"} /\ read = Len(typed)
  /\ stdin' = "done" /\ sent' = IF Serving THEN Append(sent, "eof") ELSE sent
  /\ UNCHANGED <<given, mode, read, filter, work, obf, term, guard, main, why, status, alive>>

\* spawn_obfuscated_stdin, the reader: enqueue opens or extends the chaff window.
Enqueue ==
  /\ Reading /\ mode = "obscured" /\ ~obf.eof
  /\ IF read = Len(typed) THEN obf' = [obf EXCEPT !.eof = TRUE] /\ UNCHANGED read
     ELSE \E n \in More :
            /\ read' = read + n
            /\ obf' = [obf EXCEPT !.queue = @ \o SubSeq(typed, read + 1, read + n), !.open = TRUE, !.until = obf.now + ChaffTail]
  /\ UNCHANGED <<given, mode, filter, work, stdin, sent, term, guard, main, why, status, alive>>

\* KeystrokeObfuscator::tick: a chunk of what is queued, chaff until the window closes.
tick(o) ==
  LET n == IF Len(o.queue) < MaxChunk THEN Len(o.queue) ELSE MaxChunk
  IN IF o.queue # <<>>
     THEN [chunk |-> SubSeq(o.queue, 1, n),
           o |-> [o EXCEPT !.queue = SubSeq(@, n + 1, Len(@)), !.open = TRUE, !.until = o.now + ChaffTail]]
     ELSE [chunk |-> <<>>, o |-> IF o.open /\ o.now >= o.until THEN [o EXCEPT !.open = FALSE] ELSE o]

\* spawn_obfuscated_stdin, the cadence: one interval.  The end of the file waits for the window to close.
Cadence ==
  /\ main \in {"running", "ending"} /\ stdin = "read" /\ mode = "obscured"
  /\ LET now == IF obf.open THEN obf.now + 1 ELSE obf.now
         r == tick([obf EXCEPT !.now = now])
         drained == r.o.eof /\ ~r.o.open
     IN IF ~Serving THEN stdin' = "done" /\ UNCHANGED <<obf, sent>>
        ELSE /\ obf' = r.o
             /\ stdin' = IF drained THEN "done" ELSE stdin
             /\ sent' = (sent \o r.chunk) \o (IF drained THEN <<"eof">> ELSE <<>>)
  /\ UNCHANGED <<given, mode, read, filter, work, term, guard, main, why, status, alive>>

----------------------------------------------------------------------------
(* The server is asked whether it is there.                                  *)

Tick ==
  /\ Serving /\ Interval > 0 /\ clock < MaxTime /\ clock < wake + Late
  /\ clock' = clock + 1
  /\ UNCHANGED <<given, keyboard, sent, term, guard, main, why, status, heard, wake, unanswered, since, answers>>

\* Something arrives, between two ticks: heard counts half ticks.
Packet ==
  /\ Serving /\ Interval > 0 /\ answers /\ heard < 2 * clock + 1
  /\ heard' = 2 * clock + 1
  /\ UNCHANGED <<given, keyboard, sent, term, guard, main, why, status, clock, wake, unanswered, since, answers>>
Silence ==
  /\ Serving /\ Interval > 0 /\ answers /\ "silent" \in Faults
  /\ answers' = FALSE
  /\ UNCHANGED <<given, keyboard, sent, term, guard, main, why, status, clock, heard, wake, unanswered, since>>

\* spawn_keepalive: one turn, when its sleep is over.
spawn_keepalive ==
  /\ Serving /\ Interval > 0 /\ clock >= wake
  /\ LET idle == 2 * clock - heard
     IN CASE idle < 2 * Interval -> wake' = clock + Interval /\ unanswered' = 0 /\ UNCHANGED <<main, why, since>>
          [] idle >= 2 * Interval /\ unanswered >= CountMax ->
               ProcessExit("silence") /\ UNCHANGED <<wake, unanswered, since>>
          [] OTHER -> /\ wake' = clock + Interval /\ unanswered' = unanswered + 1
                      /\ since' = IF unanswered = 0 THEN clock ELSE since
                      /\ UNCHANGED <<main, why>>
  /\ UNCHANGED <<given, keyboard, sent, term, guard, status, clock, heard, answers>>

Next ==
  \/ Start \/ Opened \/ RemoteEnds \/ Disarm \/ Restore \/ Leave \/ Signal \/ ChannelTimeout
  \/ Read \/ SendKey \/ RunEscape \/ Disconnect \/ Aside \/ Back \/ StdinEnds \/ Enqueue \/ Cadence
  \/ Tick \/ Packet \/ Silence \/ spawn_keepalive
Spec == Init /\ [][Next]_vars

----------------------------------------------------------------------------
\* What typing means where there are escapes: after a line's end, the escape character and
\* the letter of an action are that action, the character twice is the character once, and
\* before anything else it is itself; alone at the end it is nothing.
Meaning(s) ==
  LET n == Len(s)
      from[p \in (1..n + 1) \X BOOLEAN] ==
        LET i == p[1]
            escape == i <= n /\ p[2] /\ s[i] = "~"
        IN CASE i > n -> <<>>
             [] escape /\ i = n -> <<>>
             [] escape /\ i < n /\ s[i + 1] \in DOMAIN ActionOf -> <<ActionOf[s[i + 1]]>> \o from[<<i + 2, TRUE>>]
             [] escape /\ i < n /\ s[i + 1] = "~" -> <<"~">> \o from[<<i + 2, FALSE>>]
             [] OTHER -> <<s[i]>> \o from[<<i + 1, s[i] = "nl">>]
  IN from[<<1, TRUE>>]

\* Whatever reads the keyboard returns, the session gets what was typed, each key once and in
\* order, an escape acts where it was typed, and the end of the file comes after all of it.
TypedAsMeant ==
  LET all == IF mode = "escape" THEN Meaning(typed) ELSE typed
      ended == sent # <<>> /\ Last(sent) = "eof"
  IN IF ended THEN sent = Append(all, "eof") ELSE IsPrefix(sent, all)

\* While keys go to the session and the guard is held the terminal is raw, and while ssh itself
\* talks to the user, or is stopped, it is not.
RawWhileReading ==
  /\ main = "running" /\ guard = "held" /\ stdin = "read" => term = "raw"
  /\ main = "running" /\ stdin \in {"line", "suspend"} => term = "cooked"

\* The server is given up only when nothing came from it since the first of the CountMax
\* requests that are counted as unanswered.
GivesUpOnSilence == why = "silence" => heard <= 2 * since
=============================================================================
