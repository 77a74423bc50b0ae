-------------------------------- MODULE Codec -------------------------------
(***************************************************************************)
(* The Reader and Writer of hazmat/format, on which every codec rests, and *)
(* a message that is written, and arrives as it is, cut short, or with     *)
(* something behind it.                                                    *)
(*                                                                         *)
(* A message is a sequence of bytes; an integer field takes one byte here  *)
(* whatever its width in the code, so a string is a length byte and its    *)
(* contents.  Field values are sequences too: an integer n is <<n>>.       *)
(*                                                                         *)
(* A reader is a record: what is left of the buffer, the values read so    *)
(* far, and whether every read so far succeeded.                           *)
(***************************************************************************)
EXTENDS Integers, Sequences, SequencesExt, FiniteSets, TLC

VARIABLES msg,      \* the message sent
          body,     \* its bytes, as they were sent or as they arrive
          got,      \* what the receiver makes of them: [ok, msg]
          fate      \* "sent", then "whole", "cut" or "padded"
vars == <<msg, body, got, fate>>

Start(buf) == [ok |-> TRUE, buf |-> buf, vals |-> <<>>]
Bad == [ok |-> FALSE, buf |-> <<>>, vals |-> <<>>]

\* A value read, and what is left behind it.
Got(r, v, rest) == [ok |-> TRUE, buf |-> rest, vals |-> Append(r.vals, v)]

From(buf, n) == SubSeq(buf, n, Len(buf))

is_empty(r) == r.buf = <<>>

take(r, n) ==
    IF ~r.ok \/ n > Len(r.buf) THEN Bad
    ELSE Got(r, SubSeq(r.buf, 1, n), From(r.buf, n + 1))

read_int(r) == take(r, 1)

\* Any byte but zero is true.
read_bool(r) ==
    IF ~r.ok \/ is_empty(r) THEN Bad
    ELSE Got(r, IF r.buf[1] # 0 THEN <<1>> ELSE <<0>>, Tail(r.buf))

read_string(r) ==
    IF ~r.ok \/ is_empty(r) THEN Bad
    ELSE IF r.buf[1] > Len(r.buf) - 1 THEN Bad
    ELSE Got(r, SubSeq(r.buf, 2, r.buf[1] + 1), From(r.buf, r.buf[1] + 2))

\* Everything that is left.
read_rest(r) == IF ~r.ok THEN Bad ELSE Got(r, r.buf, <<>>)

ensure_empty(r) == IF r.ok /\ is_empty(r) THEN r ELSE Bad

write_string(s) == <<Len(s)>> \o s

Flatten(ss) == FoldLeft(LAMBDA a, b : a \o b, <<>>, ss)

\* Write the values vs by the kinds ks of their fields, and read them again.
WriteAll(W(_, _), ks, vs) == Flatten([i \in 1..Len(ks) |-> W(ks[i], vs[i])])
ReadAll(R(_, _), ks, r) == FoldLeft(LAMBDA a, k : R(k, a), r, ks)

\* n times what R reads, as one list value.
Times(R(_), n, r) ==
    LET end == FoldLeft(LAMBDA a, k : R(a), [r EXCEPT !.vals = <<>>], [k \in 1..n |-> k])
    IN  IF r.ok /\ end.ok THEN Got(r, end.vals, end.buf) ELSE Bad

\* A count and so many values.
Counted(R(_), max, r) ==
    LET c == read_int(r) IN
    IF ~c.ok THEN Bad
    ELSE LET n == Last(c.vals)[1] IN
         IF n > max THEN Bad ELSE Times(R, n, [c EXCEPT !.vals = r.vals])

-----------------------------------------------------------------------------
Malformed == [ok |-> FALSE]
Unread == [ok |-> FALSE, msg |-> msg]

Sent(m, bytes) == msg = m /\ body = bytes /\ fate = "sent" /\ got = [ok |-> FALSE, msg |-> m]

\* What may become of a message on its way; `extra' are bytes that come after.
Fates(extra) ==
    {[fate |-> "whole", body |-> body]}
    \cup {[fate |-> "cut", body |-> SubSeq(body, 1, n)] : n \in 0..(Len(body) - 1)}
    \cup {[fate |-> "padded", body |-> Append(body, x)] : x \in extra}

Receive(Decode(_, _), extra) ==
    /\ fate = "sent"
    /\ \E a \in Fates(extra) : /\ fate' = a.fate /\ body' = a.body
                             /\ \E d \in {Decode(msg, a.body)} : got' = IF d.ok THEN d ELSE Unread
    /\ UNCHANGED msg
=============================================================================
