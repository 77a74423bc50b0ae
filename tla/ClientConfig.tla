---------------------------- MODULE ClientConfig ----------------------------
(* ssh_config: the expanded lines of the user's and the system's file become *)
(* blocks (parse_blocks), and the blocks that match a host are merged into    *)
(* its options (lookup_with_exec).  An option is a sequence of values: empty  *)
(* for None, one value for Some, all of them for a list.                      *)
EXTENDS ConfigMatch

CONSTANTS
  Keywords,    \* the keywords that occur, and "host", "match", "begin", "end", "file", ...
  Values,      \* the arguments of a keyword
  Conditions,  \* the criteria of a Host or Match line, as lists
  Contexts,    \* what Match may be asked about
  MaxLines

Settings == ClientSettings
Options == (Keywords \cap DOMAIN Settings) \cup {"agentsocket"}
Unset == [k \in Options |-> <<>>]
Twin(k) == IF k = "proxycommand" THEN "proxyjump" ELSE "proxycommand"
OfTwin(o, k) == IF Twin(k) \in Options THEN o[Twin(k)] ELSE <<>>

VARIABLES
  lines,      \* the input: [kw, val, conds], includes expanded
  ctx,        \* the input: the context of the lookup
  pos,        \* the next line
  blocks,     \* Vec<Block>: [type, conds, opts]
  guards,     \* the criteria of the blocks around each open include
  atInclude,  \* the number of blocks at each open include
  ignore,     \* an IgnoreUnknown line was read
  out,        \* the options of the lookup
  stage       \* "parse", "lookup", "done", "error"
vars == <<lines, ctx, pos, blocks, guards, atInclude, ignore, out, stage>>

Block(type, conds) == [type |-> type, conds |-> conds, opts |-> Unset]
AnyHost == <<[type |-> "all", neg |-> FALSE, pats |-> <<>>]>>

Lines == [kw : Keywords \cap DOMAIN Settings, val : Values, conds : {<<>>}]
           \cup [kw : Keywords \cap {"begin", "end", "file", "ignoreunknown", "unknown"}, val : {"-"}, conds : {<<>>}]
           \cup [kw : Keywords \cap {"host"}, val : {"-"}, conds : {c \in Conditions : Len(c) = 1 /\ c[1].type = "host"}]
           \cup [kw : Keywords \cap {"match"}, val : {"-"}, conds : Conditions]

Init ==
  /\ lines \in UNION {[1..n -> Lines] : n \in 0..MaxLines}
  /\ Bracketed(lines)
  /\ \A i \in DOMAIN lines : lines[i].kw = "file" => Opener(lines, i) = 0   \* the system's file
  /\ ctx \in Contexts
  /\ pos = 1 /\ blocks = <<Block("host", AnyHost)>> /\ guards = <<>> /\ atInclude = <<>>
  /\ ignore = FALSE /\ out = Unset /\ stage = "parse"

----------------------------------------------------------------------------
Line == lines[pos]
Reading(kw) == stage = "parse" /\ pos <= Len(lines) /\ Line.kw = kw
Guard == FlattenSeq(guards)
Consume == pos' = pos + 1 /\ UNCHANGED <<lines, ctx, out, stage>>

\* apply_keyword: one value into the options of one block.
ApplyKeyword(o, k, v) ==
  CASE Settings[k] = "set"   -> [o EXCEPT ![k] = <<v>>]
    [] Settings[k] = "first" -> IF o[k] = <<>> THEN [o EXCEPT ![k] = <<v>>] ELSE o
    [] Settings[k] = "list"  -> [o EXCEPT ![k] = Append(@, v)]
    [] Settings[k] = "clear" -> [o EXCEPT ![k] = IF v = "none" THEN <<>> ELSE <<v>>]
    [] Settings[k] = "pair"  -> IF o[k] = <<>> /\ OfTwin(o, k) = <<>> THEN [o EXCEPT ![k] = <<v>>] ELSE o
    [] Settings[k] = "agent" -> IF v = "path" THEN [o EXCEPT ![k] = <<"yes">>, !.agentsocket = <<v>>]
                                ELSE [o EXCEPT ![k] = <<v>>]

Keyword ==
  /\ stage = "parse" /\ pos <= Len(lines) /\ Line.kw \in DOMAIN Settings
  /\ blocks' = [blocks EXCEPT ![Len(blocks)].opts = ApplyKeyword(@, Line.kw, Line.val)]
  /\ Consume /\ UNCHANGED <<guards, atInclude, ignore>>

Host ==
  /\ Reading("host")
  /\ blocks' = Append(blocks, IF Guard = <<>> THEN Block("host", Line.conds) ELSE Block("match", Guard \o Line.conds))
  /\ Consume /\ UNCHANGED <<guards, atInclude, ignore>>

Match ==
  /\ Reading("match")
  /\ blocks' = Append(blocks, Block("match", Guard \o Line.conds))
  /\ Consume /\ UNCHANGED <<guards, atInclude, ignore>>

\* INCLUDE_BEGIN: the criteria of the block the Include is in guard the blocks of its file;
\* a Match block carries the outer guards already.
IncludeBegin ==
  /\ Reading("begin")
  /\ atInclude' = Append(atInclude, Len(blocks))
  /\ guards' = Append(guards, CASE Last(blocks).type = "match" -> SubSeq(Last(blocks).conds, Len(Guard) + 1, Len(Last(blocks).conds))
                                [] Last(blocks).conds # AnyHost -> Last(blocks).conds
                                [] OTHER -> <<>>)
  /\ Consume /\ UNCHANGED <<blocks, ignore>>

\* INCLUDE_END: the block that was open before is opened again, after the new ones.
IncludeEnd ==
  /\ Reading("end")
  /\ guards' = Front(guards) /\ atInclude' = Front(atInclude)
  /\ blocks' = IF Last(atInclude) = Len(blocks) THEN blocks
               ELSE Append(blocks, [blocks[Last(atInclude)] EXCEPT !.opts = Unset])
  /\ Consume /\ UNCHANGED ignore

\* append: the system's file was parsed by itself and its blocks come after the user's.
NextFile ==
  /\ Reading("file")
  /\ blocks' = Append(blocks, Block("host", AnyHost)) /\ ignore' = FALSE
  /\ Consume /\ UNCHANGED <<guards, atInclude>>

IgnoreUnknown ==
  /\ Reading("ignoreunknown")
  /\ ignore' = TRUE
  /\ Consume /\ UNCHANGED <<blocks, guards, atInclude>>

\* A keyword nobody knows is an error unless IgnoreUnknown covers it.
Unknown ==
  /\ Reading("unknown")
  /\ IF ignore THEN Consume ELSE /\ stage' = "error"
                                 /\ UNCHANGED <<lines, ctx, pos, out>>
  /\ UNCHANGED <<blocks, guards, atInclude, ignore>>

Parsed ==
  /\ stage = "parse" /\ pos > Len(lines)
  /\ stage' = "lookup" /\ pos' = 1
  /\ UNCHANGED <<lines, ctx, blocks, guards, atInclude, ignore, out>>

\* merge_into: a scalar is taken from the first block that has it, the proxy twins as
\* one, and lists are joined.
MergeInto(dst, src) ==
  [k \in Options |->
     CASE k \in DOMAIN Settings /\ Settings[k] = "list" -> dst[k] \o src[k]
       [] k \in DOMAIN Settings /\ Settings[k] = "pair" ->
            IF dst[k] = <<>> /\ OfTwin(dst, k) = <<>> THEN src[k] ELSE dst[k]
       [] OTHER -> IF dst[k] = <<>> THEN src[k] ELSE dst[k]]

\* eval_with_options: Match tagged looks at the tag of the options so far.
Tag(o) == IF "tag" \in Options /\ o.tag # <<>> THEN o.tag[1] ELSE ""
BlockMatches(b, o) == AllMatch(b.conds, [ctx EXCEPT !.tagged = Tag(o)])

\* lookup_with_exec, one block.
LookupBlock ==
  /\ stage = "lookup" /\ pos <= Len(blocks)
  /\ out' = IF BlockMatches(blocks[pos], out) THEN MergeInto(out, blocks[pos].opts) ELSE out
  /\ pos' = pos + 1
  /\ UNCHANGED <<lines, ctx, blocks, guards, atInclude, ignore, stage>>
Found ==
  /\ stage = "lookup" /\ pos > Len(blocks)
  /\ stage' = "done"
  /\ UNCHANGED <<lines, ctx, pos, blocks, guards, atInclude, ignore, out>>
Finished == stage \in {"done", "error"} /\ UNCHANGED vars

Next == Keyword \/ Host \/ Match \/ IncludeBegin \/ IncludeEnd \/ NextFile \/ IgnoreUnknown \/ Unknown
          \/ Parsed \/ LookupBlock \/ Found \/ Finished
Spec == Init /\ [][Next]_vars

----------------------------------------------------------------------------
(* The meaning of the files: a line applies where the header above it in its *)
(* own file holds, and where the Include that brought it in applies.  A      *)
(* header is decided once, where it stands.                                  *)
HeaderOf(i) ==
  LET hs == {j \in 1..(i - 1) : /\ lines[j].kw \in {"host", "match", "file"}
                                /\ Opener(lines, j) = Opener(lines, i)}
  IN IF hs = {} THEN 0 ELSE CHOOSE j \in hs : \A h \in hs : h <= j
TagAt(j, applies) ==
  LET ts == {i \in 1..(j - 1) : lines[i].kw = "tag" /\ applies[i]}
  IN IF ts = {} THEN "" ELSE lines[CHOOSE i \in ts : \A t \in ts : i <= t].val
Applies ==
  LET A[i \in 0..Len(lines)] ==
        IF i = 0 THEN TRUE
        ELSE LET h == HeaderOf(i)
             IN /\ A[Opener(lines, i)]
                /\ h = 0 \/ lines[h].kw = "file"
                     \/ AllMatch(lines[h].conds, [ctx EXCEPT !.tagged = TagAt(h, A)])
  IN A
Setting(ks, applies) == SelectSeq([i \in DOMAIN lines |-> i], LAMBDA i : lines[i].kw \in ks /\ applies[i])
Value(k, i) == IF Settings[k] = "agent" /\ lines[i].val = "path" THEN "yes" ELSE lines[i].val

\* Of the applying lines at that set k: the first value of a scalar, the first of the proxy twins
\* (all sets both), every value of a list.
Obtained(k, at, all) ==
  CASE Settings[k] = "list" -> [n \in DOMAIN at |-> Value(k, at[n])]
    [] Settings[k] = "pair" -> IF all # <<>> /\ lines[all[1]].kw = k THEN <<Value(k, all[1])>> ELSE <<>>
    [] OTHER -> IF at = <<>> THEN <<>> ELSE <<Value(k, at[1])>>

\* The last value in the block that gives the first: no header stands between the two lines.
Overridden(k, at) ==
  LET block == {i \in Range(at) : \A h \in at[1]..i : lines[h].kw \notin {"host", "match", "file"}}
  IN IF at = <<>> THEN <<>> ELSE <<Value(k, CHOOSE i \in block : \A j \in block : j <= i)>>


\* A file with an unknown keyword is refused exactly when no IgnoreUnknown line of the
\* same file stands before it, whatever block either is in.
UnknownRefused ==
  stage \in {"lookup", "done"} =>
    \A i \in DOMAIN lines : lines[i].kw = "unknown" =>
      \E j \in 1..(i - 1) : lines[j].kw = "ignoreunknown" /\ ~\E f \in j..i : lines[f].kw = "file"

=============================================================================
