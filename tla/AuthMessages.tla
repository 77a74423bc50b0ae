---------------------------- MODULE AuthMessages ----------------------------
(***************************************************************************)
(* The messages of user authentication and what a public key signature     *)
(* covers (auth/message.rs).  A message is its kind and its field values;  *)
(* an optional field is a sequence of none or one.  Names are valid UTF-8. *)
(***************************************************************************)
EXTENDS Codec

CONSTANTS
    Strs,       \* string field values, of different lengths
    MaxString,  \* MAX_USERAUTH_STRING
    MaxList     \* prompts and responses in one message (1024)

Flag(b) == IF b THEN <<1>> ELSE <<0>>

-----------------------------------------------------------------------------
(* Method names on the wire, one byte each.                                *)
None == <<1>>
Password == <<2>>
PublicKey == <<3>>
HostBound == <<4>>
KbdInt == <<5>>
Comma == 44

KindOf(method) ==
    CASE method = None -> "none"
      [] method = Password -> "password"
      [] method = PublicKey -> "publickey"
      [] method = HostBound -> "hostbound"
      [] method = KbdInt -> "kbdint"
      [] OTHER -> "other"
Requests == {"none", "password", "publickey", "hostbound", "kbdint", "other"}
Kinds == Requests \cup {"service_request", "service_accept", "failure", "success",
                        "banner", "pk_ok", "info_request", "info_response"}

method_name(k, other) ==
    CASE k = "none" -> None
      [] k = "password" -> Password
      [] k = "publickey" -> PublicKey
      [] k = "hostbound" -> HostBound
      [] k = "kbdint" -> KbdInt
      [] OTHER -> other

Tag(k) ==
    CASE k = "service_request" -> 5
      [] k = "service_accept" -> 6
      [] k \in Requests -> 50
      [] k = "failure" -> 51
      [] k = "success" -> 52
      [] k = "banner" -> 53
      [] k \in {"pk_ok", "info_request"} -> 60
      [] k = "info_response" -> 61

-----------------------------------------------------------------------------
(* Writing.                                                                *)

WriteKey(v) ==
    Flag(v[4] # <<>>) \o write_string(v[1]) \o write_string(v[2])
    \o Flatten([i \in 1..Len(v[3]) |-> write_string(v[3][i])])
    \o Flatten([i \in 1..Len(v[4]) |-> write_string(v[4][i])])

\* The old password, and the new one if it is to be changed.
WritePassword(v) ==
    Flag(Len(v) = 2) \o Flatten([i \in 1..Len(v) |-> write_string(v[i])])

write_tail(k, v) ==
    CASE k = "none" -> <<>>
      [] k = "password" -> WritePassword(v[1])
      [] k \in {"publickey", "hostbound"} -> WriteKey(v[1])
      [] k = "kbdint" -> write_string(v[1]) \o write_string(v[2])
      [] k = "other" -> v[2]

EncodeRequest(m) ==
    write_string(m.vals[1]) \o write_string(m.vals[2])
    \o write_string(method_name(m.kind, IF m.kind = "other" THEN m.vals[3] ELSE <<>>))
    \o write_tail(m.kind, SubSeq(m.vals, 3, Len(m.vals)))

\* The methods that can continue, joined by commas.
EncodeFailure(names, partial) ==
    LET joined == Flatten([i \in 1..Len(names) |->
                      IF i > 1 THEN <<Comma>> \o names[i] ELSE names[i]])
    IN  write_string(joined) \o partial

EncodeInfoRequest(v) ==
    write_string(v[1]) \o write_string(v[2]) \o write_string(v[3]) \o <<Len(v[4])>>
    \o Flatten([i \in 1..Len(v[4]) |-> write_string(v[4][i][1]) \o v[4][i][2]])

encode(m) == <<Tag(m.kind)>> \o
    (CASE m.kind \in Requests -> EncodeRequest(m)
       [] m.kind \in {"service_request", "service_accept"} -> write_string(m.vals[1])
       [] m.kind = "failure" -> EncodeFailure(m.vals[1], m.vals[2])
       [] m.kind = "success" -> <<>>
       [] m.kind \in {"banner", "pk_ok"} -> write_string(m.vals[1]) \o write_string(m.vals[2])
       [] m.kind = "info_request" -> EncodeInfoRequest(m.vals)
       [] m.kind = "info_response" -> <<Len(m.vals[1])>>
              \o Flatten([i \in 1..Len(m.vals[1]) |-> write_string(m.vals[1][i])]))

-----------------------------------------------------------------------------
(* Reading.                                                                *)

\* Longer strings are refused before they are taken.
read_bytes_capped(r) ==
    IF ~r.ok \/ is_empty(r) THEN Bad
    ELSE IF r.buf[1] > MaxString THEN Bad ELSE read_string(r)

\* A string if it is there, as an optional value.
ReadIf(present, r) ==
    IF ~r.ok THEN Bad
    ELSE IF ~present THEN Got(r, <<>>, r.buf)
    ELSE LET s == read_bytes_capped(r) IN
         IF s.ok THEN Got(r, <<Last(s.vals)>>, s.buf) ELSE Bad

DecodeKey(hostbound, r) ==
    LET f == read_bool(r) IN
    IF ~f.ok THEN Bad
    ELSE LET signed == Last(f.vals) = <<1>>
             k == ReadIf(signed, ReadIf(hostbound,
                      read_bytes_capped(read_bytes_capped(Start(f.buf)))))
         IN  IF k.ok THEN Got(r, k.vals, k.buf) ELSE Bad

DecodePassword(r) ==
    LET f == read_bool(r) IN
    IF ~f.ok THEN Bad
    ELSE LET change == Last(f.vals) = <<1>>
             one == read_bytes_capped(Start(f.buf))
             k == IF change THEN read_bytes_capped(one) ELSE one
         IN  IF k.ok THEN Got(r, k.vals, k.buf) ELSE Bad

DecodeRequest(r) ==
    LET h == read_bytes_capped(read_bytes_capped(read_bytes_capped(r))) IN
    IF ~h.ok THEN Malformed
    ELSE LET k == KindOf(h.vals[3])
             start == [h EXCEPT !.vals = SubSeq(@, 1, 2)]
             e == CASE k = "none" -> ensure_empty(start)
                    [] k = "password" -> ensure_empty(DecodePassword(start))
                    [] k = "publickey" -> ensure_empty(DecodeKey(FALSE, start))
                    [] k = "hostbound" -> ensure_empty(DecodeKey(TRUE, start))
                    [] k = "kbdint" -> ensure_empty(read_bytes_capped(read_bytes_capped(start)))
                    [] k = "other" -> read_rest(h)
         IN  IF e.ok THEN [ok |-> TRUE, msg |-> [kind |-> k, vals |-> e.vals]] ELSE Malformed

\* The parts between commas that are not empty.
SplitNames(raw) ==
    LET cuts == {0, Len(raw) + 1} \cup {i \in 1..Len(raw) : raw[i] = Comma}
        ends(i) == CHOOSE j \in cuts : j > i /\ \A k \in cuts : k > i => j <= k
        starts == {i \in cuts : i <= Len(raw) /\ ends(i) > i + 1}
    IN  [n \in 1..Cardinality(starts) |->
            LET i == CHOOSE x \in starts : Cardinality({y \in starts : y <= x}) = n
            IN  SubSeq(raw, i + 1, ends(i) - 1)]

DecodeFailure(r) ==
    LET e == ensure_empty(read_bool(read_bytes_capped(r)))
    IN  IF e.ok THEN [ok |-> TRUE, msg |-> [kind |-> "failure",
                                            vals |-> <<SplitNames(e.vals[1]), e.vals[2]>>]]
        ELSE Malformed

ReadPrompt(r) ==
    LET p == read_bool(read_bytes_capped([r EXCEPT !.vals = <<>>]))
    IN  IF r.ok /\ p.ok THEN Got(r, p.vals, p.buf) ELSE Bad

\* The reader of each kind of message, chosen by what the receiver expects.
decode(expected, b) ==
    IF b = <<>> THEN Malformed
    ELSE IF b[1] # Tag(expected) THEN Malformed
    ELSE LET r == Start(Tail(b))
             e == CASE expected \in {"service_request", "service_accept"} ->
                           ensure_empty(read_bytes_capped(r))
                    [] expected = "success" -> ensure_empty(r)
                    [] expected \in {"banner", "pk_ok"} ->
                           ensure_empty(read_bytes_capped(read_bytes_capped(r)))
                    [] expected = "info_request" ->
                           LET h == read_bytes_capped(read_bytes_capped(read_bytes_capped(r)))
                           IN  IF h.ok THEN ensure_empty(Counted(ReadPrompt, MaxList, h)) ELSE Bad
                    [] expected = "info_response" ->
                           ensure_empty(Counted(read_bytes_capped, MaxList, r))
                    [] OTHER -> Bad
         IN  CASE expected \in Requests -> DecodeRequest(r)
               [] expected = "failure" -> DecodeFailure(r)
               [] OTHER -> IF e.ok THEN [ok |-> TRUE, msg |-> [kind |-> expected, vals |-> e.vals]]
                           ELSE Malformed

-----------------------------------------------------------------------------
(* What a public key signature covers.                                     *)

publickey_signed_data_bound(v) ==
    write_string(v[1]) \o <<50>> \o write_string(v[2]) \o write_string(v[3])
    \o write_string(IF v[6] = <<>> THEN PublicKey ELSE HostBound) \o <<1>>
    \o write_string(v[4]) \o write_string(v[5])
    \o Flatten([i \in 1..Len(v[6]) |-> write_string(v[6][i])])

Short == {s \in Strs : Len(s) <= 1}
Signed == {<<<<8>>, u, v, a, b, h>> : u \in Strs, v \in Strs, a \in Short, b \in Strs,
                                      h \in {<<>>, <<<<>>>>, <<<<4>>>>}}
SignedBy(m) == <<<<8>>, m.vals[1], m.vals[2], m.vals[3][1], m.vals[3][2], m.vals[3][3]>>

-----------------------------------------------------------------------------
(* The messages of each kind.                                              *)
Lists == {<<>>} \cup {<<s>> : s \in Strs} \cup {<<s, t>> : s \in Strs, t \in Strs}
Names == {<<6>>, <<5, 6>>}
NameLists == {<<>>} \cup {<<s>> : s \in Names} \cup {<<s, t>> : s \in Names, t \in Names}
Opt(S) == {<<>>} \cup {<<s>> : s \in S}
Prompts == {<<>>} \cup {<<<<s, f>>>> : s \in Strs, f \in {<<0>>, <<1>>}}
           \cup {<<<<s, <<1>>>>, <<t, <<0>>>>>> : s \in Strs, t \in Strs}

Values(k) ==
    CASE k \in {"service_request", "service_accept"} -> {<<s>> : s \in Strs}
      [] k = "none" -> {<<u, v>> : u \in Strs, v \in Strs}
      [] k = "password" -> {<<u, <<7>>, p>> : u \in Strs, p \in Lists \ {<<>>}}
      [] k = "publickey" -> {<<u, v, <<a, b, <<>>, s>>>> :
                                 u \in Strs, v \in Strs, a \in Short, b \in Strs, s \in Opt(Strs)}
      [] k = "hostbound" -> {<<u, v, <<a, b, <<h>>, s>>>> :
                                 u \in Strs, v \in Strs, a \in Short, b \in Strs,
                                 h \in {<<>>, <<4>>}, s \in Opt(Strs)}
      [] k = "kbdint" -> {<<u, v, a, b>> : u \in Short, v \in Short, a \in Strs, b \in Strs}
      [] k = "other" -> {<<u, <<7>>, n, t>> : u \in Strs, n \in {<<>>, <<9>>}, t \in Strs}
      [] k = "failure" -> {<<n, f>> : n \in NameLists, f \in {<<0>>, <<1>>}}
      [] k = "success" -> {<<>>}
      [] k \in {"banner", "pk_ok"} -> {<<s, t>> : s \in Strs, t \in Strs}
      [] k = "info_request" -> {<<s, t, <<>>, p>> : s \in Strs, t \in Strs, p \in Prompts}
      [] k = "info_response" -> {<<l>> : l \in Lists}
Messages(k) == {[kind |-> k, vals |-> v] : v \in Values(k)}

OpenEnded(m) == m.kind = "other"
Decode(m, b) == decode(m.kind, b)

Init == \E k \in Kinds : \E m \in Messages(k) : Sent(m, encode(m))
Next == Receive(Decode, {0, 1, Comma})
Spec == Init /\ [][Next]_vars

-----------------------------------------------------------------------------
\* A message that arrives is the message sent.
RoundTrip == fate = "whole" => got.ok /\ got.msg = msg

\* Neither a message cut short nor one with a byte too many is accepted,
\* other than a request of an unknown method, whose rest is kept as it is.
AllOrNothing == fate \in {"cut", "padded"} /\ ~OpenEnded(msg) => ~got.ok

\* Two messages share number 60 and the receiver tells them apart by what it
\* asked for: neither can be read as the other.
Unmistakable ==
    /\ msg.kind = "pk_ok" => ~decode("info_request", encode(msg)).ok
    /\ msg.kind = "info_request" => ~decode("pk_ok", encode(msg)).ok

\* A signature is good for one request only: no other user, service,
\* algorithm, key or host key gives the same signed data.
SignatureBinds ==
    msg.kind \in {"publickey", "hostbound"} /\ fate = "sent" =>
        LET d == publickey_signed_data_bound(SignedBy(msg)) IN
        \A s \in Signed : publickey_signed_data_bound(s) = d => s = SignedBy(msg)
=============================================================================
