------------------------------- MODULE Frames -------------------------------
(***************************************************************************)
(* Formats that are plain lists of fields: the frames between multiplexed  *)
(* clients and their master (mux/codec.rs), channel and global requests    *)
(* (hazmat/channel), EXT_INFO and PING (hazmat/transport), the agent's     *)
(* answers (agent/protocol.rs) and the packets of SFTP (sftp/packet.rs).   *)
(* Each format has a table of the fields its writer writes and one of the  *)
(* fields its reader reads.                                                *)
(*                                                                         *)
(* A message is its format, its tag (a number, or the name in the packet   *)
(* around it) and its values.                                              *)
(***************************************************************************)
EXTENDS Codec

CONSTANTS
    Formats,    \* the formats sent
    Strs,       \* string values, of different lengths
    Ints,       \* integer values, as one byte sequences
    MaxList,    \* the limit on lists (1024 and 2^20 in the code)
    MaxPacket   \* MAX_PACKET_SIZE

Other == 99

-----------------------------------------------------------------------------
ReadPair(r) == read_string(read_string(r))

(* Attributes: <<size, uid_gid, permissions, atime_mtime, extended>>, each *)
(* empty when it is absent.                                                *)

Bit(flags, k) == (flags \div (2 ^ k)) % 2 = 1

encode_attrs(a) ==
    LET has == [k \in 1..5 |-> IF a[k] # <<>> THEN 1 ELSE 0]
        flags == has[1] + 2 * has[2] + 4 * has[3] + 8 * has[4] + 16 * has[5]
    IN  <<flags>> \o a[1] \o a[2] \o a[3] \o a[4]
        \o (IF a[5] = <<>> THEN <<>> ELSE <<Len(a[5]) \div 2>> \o Flatten([i \in 1..Len(a[5]) |-> write_string(a[5][i])]))

\* The field is n bytes if its flag is set.
Optional(flags, k, n, r) ==
    IF ~r.ok THEN Bad ELSE IF Bit(flags, k) THEN take(r, n) ELSE Got(r, <<>>, r.buf)

Extended(flags, r) ==
    IF ~r.ok THEN Bad ELSE IF Bit(flags, 4) THEN Counted(ReadPair, MaxList, r) ELSE Got(r, <<>>, r.buf)

\* The values just read as one value behind those of r.
AsOne(r, all) == IF r.ok /\ all.ok THEN Got(r, all.vals, all.buf) ELSE Bad

decode_fields(flags, r) ==
    Extended(flags, FoldLeft(LAMBDA a, k : Optional(flags, k, <<1, 2, 1, 2>>[k + 1], a), r, <<0, 1, 2, 3>>))

decode_attrs(r) ==
    IF ~r.ok \/ is_empty(r) THEN Bad ELSE AsOne(r, decode_fields(r.buf[1], Start(Tail(r.buf))))

\* Unknown codes are failures.
from_code(n) == IF n \in 0..8 THEN n ELSE 4

\* Strings two by two until the packet ends.
decode_extensions(r) ==
    AsOne(r, ensure_empty(FoldLeft(LAMBDA a, n : IF ~a.ok \/ is_empty(a) THEN a ELSE ReadPair(a),
                                   [r EXCEPT !.vals = <<>>], [n \in 1..MaxList |-> n])))

ReadName(r) ==
    AsOne(r, decode_attrs(ReadPair([r EXCEPT !.vals = <<>>])))

-----------------------------------------------------------------------------
(* Fields.                                                                 *)

WriteList(v) == Flatten([i \in 1..Len(v) |-> write_string(v[i])])

\* An optional string behind a flag, and a list of pairs behind its count.
WriteField(k, v) ==
    CASE k \in {"int", "code", "byte", "flag", "bit", "rest"} -> v
      [] k \in {"str", "text"} -> write_string(v)
      [] k = "optstr" -> <<Len(v)>> \o WriteList(v)
      [] k = "pairs" -> <<Len(v) \div 2>> \o WriteList(v)
      [] k = "extensions" -> WriteList(v)
      [] k = "attrs" -> encode_attrs(v)
      [] k = "names" -> <<Len(v)>> \o Flatten([i \in 1..Len(v) |->
                            write_string(v[i][1]) \o write_string(v[i][2]) \o encode_attrs(v[i][3])])

\* A flag that is neither 0 nor 1 is refused; a bit is any byte.
ReadFlag(r) ==
    LET f == read_int(r) IN IF f.ok /\ Last(f.vals)[1] \in {0, 1} THEN f ELSE Bad

ReadOpt(r) ==
    LET f == ReadFlag(r) IN
    IF ~f.ok THEN Bad
    ELSE IF Last(f.vals) = <<0>> THEN Got(r, <<>>, f.buf)
    ELSE LET s == read_string(f) IN
         IF s.ok THEN Got(r, <<Last(s.vals)>>, s.buf) ELSE Bad

ReadField(k, r) ==
    CASE k \in {"int", "byte"} -> read_int(r)
      [] k = "bit" -> read_bool(r)
      [] k = "flag" -> ReadFlag(r)
      [] k \in {"str", "text"} -> read_string(r)
      [] k = "optstr" -> ReadOpt(r)
      [] k = "pairs" -> IF r.ok THEN Counted(ReadPair, MaxList, r) ELSE Bad
      [] k = "optint" -> IF r.ok /\ is_empty(r) THEN Got(r, <<0>>, <<>>) ELSE read_int(r)
      [] k = "rest" -> read_rest(r)
      [] k = "code" -> LET c == read_int(r) IN
                       IF c.ok THEN Got(r, <<from_code(Last(c.vals)[1])>>, c.buf) ELSE Bad
      [] k = "laststr" -> IF r.ok /\ is_empty(r) THEN Got(r, <<>>, r.buf) ELSE read_string(r)
      [] k = "extensions" -> decode_extensions(r)
      [] k = "attrs" -> IF r.ok THEN decode_attrs(r) ELSE Bad
      [] k = "names" -> IF r.ok THEN Counted(ReadName, MaxList, r) ELSE Bad

-----------------------------------------------------------------------------
(* The tables.                                                             *)

\* Mutant of MuxEncode: the command after the subsystem flag.
MuxEncodeSwapped(t) ==
    CASE t = 2 -> <<"bit", "str", "int", "int", "pairs", "flag", "optstr">>
      [] t \in {1, 8, 17} -> <<"int">>
      [] t \in {3, 4, 5} -> <<"rest">>
      [] t \in {6, 10, 11, 12, 14, 18, 20} -> <<>>
      [] t = 7 -> <<"int", "int">>
      [] t \in {9, 15, 19, 21} -> <<"str">>
      [] t = 13 -> <<"str", "int", "str", "int">>
      [] t = 16 -> <<"byte", "str", "flag">>

MuxEncode(t) ==
    CASE t \in {1, 8, 17} -> <<"int">>          \* HELLO, EXIT_STATUS, FORWARD_OK
      [] t = 2 -> <<"bit", "str", "int", "int", "pairs", "optstr", "flag">>
      [] t \in {3, 4, 5} -> <<"rest">>          \* data
      [] t \in {6, 10, 11, 12, 14, 18, 20} -> <<>>
      [] t = 7 -> <<"int", "int">>              \* WINDOW_CHANGE
      [] t \in {9, 15, 19, 21} -> <<"str">>     \* EXIT_SIGNAL, OPEN_FAIL, the infos
      [] t = 13 -> <<"str", "int", "str", "int">>
      [] t = 16 -> <<"byte", "str", "flag">>    \* FORWARD

MuxDecode(t) ==
    [fields |-> CASE t \in {1, 8, 17} -> <<"int">>
                  [] t = 2 -> <<"bit", "str", "int", "int", "pairs", "optstr", "flag">>
                  [] t \in {3, 4, 5} -> <<"rest">>
                  [] t \in {6, 10, 11, 12, 14, 18, 20} -> <<>>
                  [] t = 7 -> <<"int", "int">>
                  [] t \in {9, 15, 19, 21} -> <<"str">>
                  [] t = 13 -> <<"str", "int", "str", "int">>
                  [] t = 16 -> <<"byte", "str", "flag">>,
     whole |-> t \notin {3, 4, 5}]

\* Channel requests, numbered in the order of ChannelRequest.  The readers of
\* requests never look at what follows the last field.
RequestEncode(t) ==
    CASE t = 1 -> <<"str", "int", "int", "int", "int", "str">>   \* pty-req
      [] t \in {2, 10} -> <<>>                                   \* shell, agent
      [] t \in {3, 4, 7} -> <<"str">>                            \* exec, subsystem, signal
      [] t = 5 -> <<"str", "str">>                               \* env
      [] t = 6 -> <<"int", "int", "int", "int">>                 \* window-change
      [] t = 8 -> <<"int">>                                      \* exit-status
      [] t = 9 -> <<"text", "bit", "text", "str">>               \* exit-signal
      [] t = 11 -> <<"bit", "text", "str", "int">>               \* x11-req
      [] t = Other -> <<"rest">>

RequestDecode(t) ==
    [fields |-> CASE t = 1 -> <<"str", "int", "int", "int", "int", "str">>
                  [] t \in {2, 10} -> <<>>
                  [] t \in {3, 4, 7} -> <<"str">>
                  [] t = 5 -> <<"str", "str">>
                  [] t = 6 -> <<"int", "int", "int", "int">>
                  [] t = 8 -> <<"int">>
                  [] t = 9 -> <<"text", "bit", "text", "str">>
                  [] t = 11 -> <<"bit", "text", "str", "int">>
                  [] t = Other -> <<"rest">>,
     whole |-> FALSE]

\* tcpip-forward and its cancel, streamlocal-forward and its cancel,
\* keepalive, no-more-sessions.
GlobalEncode(t) ==
    CASE t \in {1, 2} -> <<"str", "int">>
      [] t \in {3, 4} -> <<"str">>
      [] t \in {5, 6} -> <<>>
      [] t = Other -> <<"rest">>
GlobalDecode(t) ==
    [fields |-> CASE t \in {1, 2} -> <<"str", "int">>
                  [] t \in {3, 4} -> <<"str">>
                  [] t \in {5, 6} -> <<>>
                  [] t = Other -> <<"rest">>,
     whole |-> FALSE]

ExtInfoEncode(t) == <<"pairs">>
ExtInfoDecode(t) == [fields |-> <<"pairs">>, whole |-> TRUE]

\* PING and PONG carry the same string.
encode_ping(t) == <<"str">>
pong_for_ping(t) == [fields |-> <<"str">>, whole |-> FALSE]

\* SIGN_REQUEST, whose flags the agent may miss, IDENTITIES_ANSWER and
\* SIGN_RESPONSE.
AgentEncode(t) ==
    CASE t = 13 -> <<"str", "text", "int">>
      [] t = 12 -> <<"pairs">>
      [] t = 14 -> <<"str">>
AgentDecode(t) ==
    [fields |-> CASE t = 13 -> <<"str", "text", "optint">>
                  [] t = 12 -> <<"pairs">>
                  [] t = 14 -> <<"str">>,
     whole |-> FALSE]

\* The fields encode_body writes, by packet type.
SftpEncode(t) ==
    CASE t \in {1, 2} -> <<"int", "extensions">>                     \* INIT, VERSION
      [] t = 3 -> <<"int", "str", "int", "attrs">>              \* OPEN
      [] t \in {4, 7, 8, 11, 12, 13, 15, 16, 17, 19} -> <<"int", "str">>
      [] t = 5 -> <<"int", "str", "int", "int">>                \* READ
      [] t = 6 -> <<"int", "str", "int", "str">>                \* WRITE
      [] t \in {9, 10, 14} -> <<"int", "str", "attrs">>         \* SETSTAT, FSETSTAT, MKDIR
      [] t \in {18, 20} -> <<"int", "str", "str">>              \* RENAME, SYMLINK
      [] t = 200 -> <<"int", "str", "rest">>                    \* EXTENDED
      [] t = 101 -> <<"int", "code", "str", "str">>             \* STATUS
      [] t \in {102, 103} -> <<"int", "str">>                   \* HANDLE, DATA
      [] t = 104 -> <<"int", "names">>                          \* NAME
      [] t = 105 -> <<"int", "attrs">>                          \* ATTRS
      [] t = 201 -> <<"int", "rest">>                           \* EXTENDED_REPLY

\* The fields decode reads; what STATUS says may be left out by old servers.
SftpDecode(t) ==
    [fields |-> CASE t \in {1, 2} -> <<"int", "extensions">>
                  [] t = 3 -> <<"int", "str", "int", "attrs">>
                  [] t \in {4, 7, 8, 11, 12, 13, 15, 16, 17, 19} -> <<"int", "str">>
                  [] t = 5 -> <<"int", "str", "int", "int">>
                  [] t = 6 -> <<"int", "str", "int", "str">>
                  [] t \in {9, 10, 14} -> <<"int", "str", "attrs">>
                  [] t \in {18, 20} -> <<"int", "str", "str">>
                  [] t = 200 -> <<"int", "str", "rest">>
                  [] t = 101 -> <<"int", "code", "laststr", "laststr">>
                  [] t \in {102, 103} -> <<"int", "str">>
                  [] t = 104 -> <<"int", "names">>
                  [] t = 105 -> <<"int", "attrs">>
                  [] t = 201 -> <<"int", "rest">>,
     whole |-> FALSE]

Tags(f) ==
    CASE f = "mux" -> 1..21
      [] f = "request" -> 1..11 \cup {Other}
      [] f = "global" -> 1..6 \cup {Other}
      [] f = "extinfo" -> {7}
      [] f = "ping" -> {192}
      [] f = "agent" -> {12, 13, 14}
      [] f = "sftp" -> 1..20 \cup {101, 102, 103, 104, 105, 200, 201}
EncodeTable(f, t) ==
    CASE f = "mux" -> MuxEncode(t)
      [] f = "request" -> RequestEncode(t)
      [] f = "global" -> GlobalEncode(t)
      [] f = "extinfo" -> ExtInfoEncode(t)
      [] f = "ping" -> encode_ping(t)
      [] f = "agent" -> AgentEncode(t)
      [] f = "sftp" -> SftpEncode(t)
DecodeTable(f, t) ==
    CASE f = "mux" -> MuxDecode(t)
      [] f = "request" -> RequestDecode(t)
      [] f = "global" -> GlobalDecode(t)
      [] f = "extinfo" -> ExtInfoDecode(t)
      [] f = "ping" -> pong_for_ping(t)
      [] f = "agent" -> AgentDecode(t)
      [] f = "sftp" -> SftpDecode(t)

-----------------------------------------------------------------------------
encode(m) == <<m.tag>> \o WriteAll(WriteField, EncodeTable(m.format, m.tag), m.vals)

\* The length before an SFTP packet is not zero and not above the limit.
read_packet(b) == b # <<>> /\ Len(b) <= MaxPacket

decode(f, b) ==
    IF b = <<>> \/ (f = "sftp" /\ ~read_packet(b)) THEN Malformed
    ELSE IF b[1] \notin Tags(f) THEN Malformed
    ELSE LET t == DecodeTable(f, b[1])
             r == ReadAll(ReadField, t.fields, Start(Tail(b)))
             e == IF t.whole THEN ensure_empty(r) ELSE r
         IN  IF e.ok THEN [ok |-> TRUE, msg |-> [format |-> f, tag |-> b[1], vals |-> e.vals]]
             ELSE Malformed

-----------------------------------------------------------------------------
(* The messages sent.                                                      *)
AttrValues ==
    {<<s, u, p, t, e>> : s \in {<<>>, <<5>>}, u \in {<<>>, <<1, 2>>}, p \in {<<>>, <<7>>},
                         t \in {<<>>, <<3, 4>>}, e \in {<<>>, <<<<1>>, <<>>>>}}
FieldValues(k) ==
    CASE k = "int" -> Ints
      [] k \in {"byte", "flag", "bit"} -> {<<0>>, <<1>>}
      [] k = "code" -> {<<n>> : n \in 0..8}
      [] k \in {"str", "rest"} -> Strs
      [] k = "text" -> {<<>>, <<1>>}
      [] k = "optstr" -> {<<>>} \cup {<<s>> : s \in Strs}
      [] k \in {"pairs", "extensions"} -> {<<>>, <<<<1>>, <<>>>>, <<<<>>, <<2>>, <<1>>, <<1, 2>>>>}
      [] k = "attrs" -> AttrValues
      [] k = "names" -> {<<>>} \cup {<<<<<<1>>, <<2>>, a>>>> : a \in AttrValues}
                        \cup {<<<<<<1>>, <<>>, a>>, <<<<2>>, <<3>>, a>>>> : a \in AttrValues}

\* All ways to fill the first n fields.
RowsOf(ks) ==
    LET rows[n \in 0..Len(ks)] ==
            IF n = 0 THEN {<<>>}
            ELSE {Append(p, v) : p \in rows[n - 1], v \in FieldValues(ks[n])}
    IN  rows[Len(ks)]

Kinds == UNION {{<<f, t>> : t \in Tags(f)} : f \in Formats}
Messages(k) == {[format |-> k[1], tag |-> k[2], vals |-> v] : v \in RowsOf(EncodeTable(k[1], k[2]))}

OpenEnded(m) ==
    \/ m.format = "mux" /\ m.tag \in {3, 4, 5}
    \/ m.format = "agent" /\ m.tag = 13
    \/ m.format = "sftp" /\ m.tag \in {1, 2, 101, 200, 201}
    \/ m.tag = Other
\* Readers that do not ask whether anything is left.
LooksNoFurther(m) == m.format \in {"request", "global", "ping", "agent", "sftp"}

Decode(m, b) == decode(m.format, b)

Init == \E k \in Kinds : \E m \in Messages(k) : Sent(m, encode(m))
Next == Receive(Decode, {0, 1})
Spec == Init /\ [][Next]_vars

-----------------------------------------------------------------------------
\* A message that arrives is the message sent: reader and writer agree on
\* every field, flag, count and length, in every format.
RoundTrip == fate = "whole" => got.ok /\ got.msg = msg

\* A message with a part missing is refused, never completed with defaults;
\* where the reader asks for the end of the message nothing can follow it, and
\* where it does not, what follows changes nothing of what was read.
AllOrNothing ==
    ~OpenEnded(msg) =>
       /\ fate = "cut" => ~got.ok
       /\ fate = "padded" => IF LooksNoFurther(msg) THEN got.ok /\ got.msg = msg ELSE ~got.ok
=============================================================================
