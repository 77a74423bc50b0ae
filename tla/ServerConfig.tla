---------------------------- MODULE ServerConfig ----------------------------
(* sshd_config: the expanded lines go into the global section or into Match  *)
(* blocks (from_lines, apply_line), and resolve merges the blocks that match *)
(* a connection, then the global section.  An option is a sequence of values *)
(* as in ClientConfig; MaxStartups keeps its early-drop pair in a second one. *)
EXTENDS ConfigMatch

CONSTANTS Keywords, Values, Conditions, Contexts, MaxLines

\* reject_invalid_in_match.
InvalidInMatch ==
  {"port", "listenaddress", "hostkey", "hostcertificate", "hostkeyagent", "addressfamily", "pidfile", "loglevel",
   "compression", "rekeylimit", "logingracetime", "maxstartups", "strictmodes", "acceptenv", "knocklisten",
   "knockusers", "knockports", "knockwindow", "knockclockskew", "knockmaxpending", "tcpkeepalive", "usedns",
   "versionaddendum", "modulifile", "fingerprinthash", "warnweakcrypto", "sshdsessionpath", "sshdauthpath"}

Settings == ServerSettings
Options == (Keywords \cap DOMAIN Settings) \cup {"early"}
Unset == [k \in Options |-> <<>>]
NameOf(v) == IF v = "w" THEN "v" ELSE v    \* two of the values define a subsystem of one name

VARIABLES
  lines, ctx,  \* the input
  pos,         \* the next line, then the next block
  global,      \* the global section
  blocks,      \* match_blocks: [conds, opts]
  current,     \* the open Match block, 0 for the global section
  guards,      \* the criteria around each open include
  atInclude,   \* the open block at each open include
  out,         \* the resolved options
  stage        \* "parse", "resolve", "done", "error"
vars == <<lines, ctx, pos, global, blocks, current, guards, atInclude, out, stage>>

Lines == [kw : Keywords \cap DOMAIN Settings, val : Values, conds : {<<>>}]
           \cup [kw : Keywords \cap {"begin", "end"}, val : {"-"}, conds : {<<>>}]
           \cup [kw : Keywords \cap {"match"}, val : {"-"}, conds : Conditions]
Init ==
  /\ lines \in {l \in UNION {[1..n -> Lines] : n \in 0..MaxLines} : Bracketed(l)}
  /\ ctx \in Contexts
  /\ pos = 1 /\ global = Unset /\ blocks = <<>> /\ current = 0 /\ guards = <<>> /\ atInclude = <<>>
  /\ out = Unset /\ stage = "parse"

----------------------------------------------------------------------------
Line == lines[pos]
Reading(kw) == stage = "parse" /\ pos <= Len(lines) /\ Line.kw = kw
Consume == pos' = pos + 1 /\ UNCHANGED <<lines, ctx, out, stage>>
Kind(k) == IF k = "early" THEN "first" ELSE Settings[k]

\* apply_keyword on fresh options: what one line says.
ApplyKeyword(k, v) ==
  CASE Settings[k] = "clear" /\ v = "none" -> Unset
    [] Settings[k] = "startups" /\ v = "triple" -> [Unset EXCEPT ![k] = <<v>>, !.early = <<v>>]
    [] OTHER -> [Unset EXCEPT ![k] = <<v>>]

\* merge_server_options.
MergeServerOptions(dst, src) ==
  [k \in Options |->
     CASE Kind(k) \in {"list", "allow"} -> dst[k] \o src[k]
       [] Kind(k) = "named" -> dst[k] \o SelectSeq(src[k], LAMBDA v : \A i \in DOMAIN dst[k] : NameOf(dst[k][i]) # NameOf(v))
       [] OTHER -> IF dst[k] = <<>> THEN src[k] ELSE dst[k]]

\* apply_line, a keyword: applied to fresh options, which are merged into the open
\* section; the last FingerprintHash displaces the one before.
Keyword ==
  /\ stage = "parse" /\ pos <= Len(lines) /\ Line.kw \in DOMAIN Settings
  /\ LET k == Line.kw
         one == ApplyKeyword(k, Line.val)
         target == IF current = 0 THEN global ELSE blocks[current].opts
         merged == MergeServerOptions(IF Settings[k] = "last" THEN [target EXCEPT ![k] = <<>>] ELSE target, one)
     IN IF current # 0 /\ k \in InvalidInMatch
        THEN /\ stage' = "error"
             /\ UNCHANGED <<lines, ctx, pos, global, blocks, out>>
        ELSE /\ IF current = 0 THEN global' = merged /\ UNCHANGED blocks
                ELSE blocks' = [blocks EXCEPT ![current].opts = merged] /\ UNCHANGED global
             /\ Consume
  /\ UNCHANGED <<current, guards, atInclude>>

\* A Match line opens a block with the criteria of the blocks around its file's Includes.
Match ==
  /\ Reading("match")
  /\ blocks' = Append(blocks, [conds |-> FlattenSeq(guards) \o Line.conds, opts |-> Unset])
  /\ current' = Len(blocks) + 1
  /\ Consume /\ UNCHANGED <<global, guards, atInclude>>

IncludeBegin ==
  /\ Reading("begin")
  /\ atInclude' = Append(atInclude, current)
  /\ guards' = Append(guards, IF current = 0 THEN <<>> ELSE blocks[current].conds)
  /\ Consume /\ UNCHANGED <<global, blocks, current>>

IncludeEnd ==
  /\ Reading("end")
  /\ LET saved == Last(atInclude)
     IN CASE saved = current -> UNCHANGED <<blocks, current>>
          [] saved = 0 /\ current # 0 -> current' = 0 /\ UNCHANGED blocks
          [] OTHER -> /\ blocks' = Append(blocks, [conds |-> blocks[saved].conds, opts |-> Unset])
                      /\ current' = Len(blocks) + 1
  /\ guards' = Front(guards) /\ atInclude' = Front(atInclude)
  /\ Consume /\ UNCHANGED global

Parsed ==
  /\ stage = "parse" /\ pos > Len(lines)
  /\ stage' = "resolve" /\ pos' = 1
  /\ UNCHANGED <<lines, ctx, global, blocks, current, guards, atInclude, out>>

\* resolve: the blocks that match, in order; then the global section, whose AllowUsers
\* and AllowGroups are cut off again where a block set some.
ResolveBlock ==
  /\ stage = "resolve" /\ pos <= Len(blocks)
  /\ out' = IF AllMatch(blocks[pos].conds, ctx) THEN MergeServerOptions(out, blocks[pos].opts) ELSE out
  /\ pos' = pos + 1
  /\ UNCHANGED <<lines, ctx, global, blocks, current, guards, atInclude, stage>>

ResolveGlobal ==
  /\ stage = "resolve" /\ pos > Len(blocks)
  /\ LET merged == MergeServerOptions(out, global)
     IN out' = [k \in Options |-> IF Kind(k) = "allow" /\ out[k] # <<>> THEN out[k] ELSE merged[k]]
  /\ stage' = "done"
  /\ UNCHANGED <<lines, ctx, pos, global, blocks, current, guards, atInclude>>
Finished == stage \in {"done", "error"} /\ UNCHANGED vars

Next == Keyword \/ Match \/ IncludeBegin \/ IncludeEnd \/ Parsed \/ ResolveBlock \/ ResolveGlobal \/ Finished
Spec == Init /\ [][Next]_vars

----------------------------------------------------------------------------
(* The meaning of the file: the Match line above a line in its own file      *)
(* governs it, within what governs the Include that brought it in.           *)
HeaderOf(i) ==
  LET hs == {j \in 1..(i - 1) : lines[j].kw = "match" /\ Opener(lines, j) = Opener(lines, i)}
  IN IF hs = {} THEN 0 ELSE CHOOSE j \in hs : \A h \in hs : h <= j
Holds(h) == h = 0 \/ AllMatch(lines[h].conds, ctx)
Governed == LET G[i \in 0..Len(lines)] == i # 0 /\ (HeaderOf(i) # 0 \/ G[Opener(lines, i)]) IN G
Applies == LET A[i \in 0..Len(lines)] == i = 0 \/ (Holds(HeaderOf(i)) /\ A[Opener(lines, i)]) IN A
Said(k, governed) ==
  LET at == SelectSeq([i \in DOMAIN lines |-> i], LAMBDA i : lines[i].kw = k /\ Applies[i] /\ Governed[i] = governed)
  IN [n \in DOMAIN at |-> lines[at[n]].val]
Obtained(k) ==
  LET all == Said(k, TRUE) \o Said(k, FALSE)
      v(x) == IF Kind(k) = "clear" /\ x = "none" THEN <<>> ELSE <<x>>
  IN CASE Kind(k) = "list" -> all
       [] Kind(k) = "allow" -> IF Said(k, TRUE) # <<>> THEN Said(k, TRUE) ELSE all
       [] Kind(k) = "named" ->
            LET new == SelectSeq([i \in DOMAIN all |-> i], LAMBDA i : \A j \in 1..(i - 1) : NameOf(all[j]) # NameOf(all[i]))
            IN [n \in DOMAIN new |-> all[new[n]]]
       [] Kind(k) = "last" -> IF all = <<>> THEN <<>> ELSE <<Last(all)>>
       [] OTHER -> IF all = <<>> THEN <<>> ELSE v(all[1])


\* The file is refused exactly when a keyword of the whole daemon stands under a Match,
\* its own or that of an Include around it.
RefusedInMatch ==
  stage \in {"done", "error"} =>
    (stage = "error" <=> \E i \in DOMAIN lines : lines[i].kw \in InvalidInMatch /\ Governed[i])

=============================================================================
