-------------------------------- MODULE Ssh --------------------------------
(* One invocation of the ssh program: its arguments, the configuration of    *)
(* the host, what -G shows of it, a live control master, the connection, the *)
(* credentials, -f, the forwards, and the session at the end.  An Option is  *)
(* a sequence of at most one value.                                          *)
EXTENDS ConfigMatch

CONSTANTS
  Keywords,   \* the keywords that occur
  Lines,      \* command lines: sequences of [o, v], v a tuple; a host is <<name, user, port>>
  Files,      \* what the configuration says of the host: Keywords -> Seq
  FinalFile,  \* what its Match final blocks add
  Disk,       \* Disk[path]: [key, pub, cert], each a key or "none"
  AgentKeys,  \* the keys of the agent, in order
  Defaults,   \* default_identity_paths
  Short,      \* the RSA keys below RequiredRSASize
  AtPath,    \* what may be at the control path
  HopsOf,     \* HopsOf[spec]: how many hosts a ProxyJump goes through
  Failures    \* the steps that may fail

VARIABLES
  line, file, cli, opts, master,
  stage,     \* how far run() has come, "exit" at its end
  route,     \* how the server was reached: "none", "jump", "command", "direct", "mux"
  hop,       \* the jump hosts authenticated so far
  creds,     \* the credentials, in the order they are offered
  todo,      \* the forwards still to be set up
  up,        \* the forwards that work
  becomes,   \* it is to be a master itself
  socket,    \* this connection's master listens at the control path
  parent,    \* the process that -f leaves behind: "none", "waits" or what it exited with
  pipe,      \* what that process may read: "open", "ready" or "closed"
  shown,     \* what -G prints, or would print
  out        \* the exit status, -1 before
vars == <<line, file, cli, opts, master, stage, route, hop, creds, todo, up, becomes, socket, parent, pipe, shown, out>>

----------------------------------------------------------------------------
(* The command line.                                                         *)

Some(v) == <<v>>
GetOrInsert(o, v) == IF o = <<>> THEN Some(v) ELSE o
Or(a, b) == IF a = <<>> THEN b ELSE a

NoCli == [user |-> <<>>, userFromO |-> FALSE, userInHost |-> <<>>, port |-> <<>>, host |-> <<>>, ids |-> <<>>,
          locals |-> <<>>, remotes |-> <<>>, dynamics |-> <<>>, specs |-> <<>>, extra |-> <<>>, jump |-> <<>>,
          command |-> <<>>, noCommand |-> FALSE, subsystem |-> FALSE, stdio |-> <<>>, agent |-> FALSE, x11 |-> "no",
          tty |-> <<>>, ts |-> 0, only |-> <<>>, compression |-> <<>>, control |-> <<>>, proxy |-> FALSE,
          fork |-> FALSE, null |-> FALSE, print |-> FALSE, dump |-> FALSE, query |-> <<>>, version |-> FALSE,
          err |-> FALSE]

\* apply_dash_o: the keywords that Cli keeps for itself keep their first value, the rest become a line of configuration.
apply_dash_o(c, k, v) ==
  CASE k = "identitiesonly" -> [c EXCEPT !.only = GetOrInsert(@, v)]
    [] k = "compression" -> [c EXCEPT !.compression = GetOrInsert(@, v)]
    [] k = "requesttty" -> [c EXCEPT !.tty = GetOrInsert(@, v)]
    [] k = "user" -> [c EXCEPT !.user = GetOrInsert(@, v), !.userFromO = @ \/ c.user = <<>>, !.extra = Append(@, <<k, v>>)]
    [] OTHER -> [c EXCEPT !.extra = Append(@, <<k, v>>)]

\* parse_args, an option with a value.
value_option(c, o, v) ==
  CASE o = "l" -> [c EXCEPT !.user = GetOrInsert(@, v)]
    [] o = "p" -> IF v = "bad" THEN [c EXCEPT !.err = TRUE] ELSE [c EXCEPT !.port = Some(v)]
    [] o = "i" -> [c EXCEPT !.ids = Append(@, v)]
    [] o = "L" -> [c EXCEPT !.locals = Append(@, v), !.specs = Append(@, <<"L", v>>)]
    [] o = "R" -> [c EXCEPT !.remotes = Append(@, v), !.specs = Append(@, <<"R", v>>)]
    [] o = "D" -> [c EXCEPT !.dynamics = Append(@, v), !.specs = Append(@, <<"D", v>>)]
    [] o = "J" -> [c EXCEPT !.jump = Some(v), !.extra = Append(@, <<"proxyjump", v>>)]
    [] o = "O" -> IF v = "proxy" THEN [c EXCEPT !.proxy = TRUE] ELSE [c EXCEPT !.control = Some(v)]
    [] o = "S" -> [c EXCEPT !.extra = Append(@, <<"controlpath", v>>)]
    [] o = "w" -> [c EXCEPT !.extra = @ \o <<<<"tunnel", "yes">>, <<"tunneldevice", v>>>>]
    [] o = "W" -> [c EXCEPT !.stdio = Some(v)]
    [] o = "Q" -> [c EXCEPT !.query = Some(v)]

\* parse_args, a flag.
flag_option(c, o) ==
  CASE o = "A" -> [c EXCEPT !.agent = TRUE]
    [] o = "a" -> [c EXCEPT !.agent = FALSE, !.extra = Append(@, <<"forwardagent", "no">>)]
    [] o = "X" -> [c EXCEPT !.x11 = "untrusted"]
    [] o = "Y" -> [c EXCEPT !.x11 = "trusted"]
    [] o = "x" -> [c EXCEPT !.x11 = "no", !.extra = Append(@, <<"forwardx11", "no">>)]
    [] o = "C" -> [c EXCEPT !.compression = Some("yes")]
    [] o = "M" -> [c EXCEPT !.extra = Append(@, <<"controlmaster", "yes">>)]
    [] o = "f" -> [c EXCEPT !.fork = TRUE, !.null = TRUE]
    [] o = "n" -> [c EXCEPT !.null = TRUE]
    [] o = "N" -> [c EXCEPT !.noCommand = TRUE]
    [] o = "s" -> [c EXCEPT !.subsystem = TRUE]
    [] o = "t" -> [c EXCEPT !.ts = @ + 1]
    [] o = "T" -> [c EXCEPT !.tty = Some("no")]
    [] o = "G" -> [c EXCEPT !.print = TRUE]
    [] o = "Z" -> [c EXCEPT !.dump = TRUE]
    [] o = "V" -> [c EXCEPT !.version = TRUE]
    [] o = "1" -> [c EXCEPT !.err = TRUE]

\* parse_args, the destination and what follows it; user@host counts where it stands, against -l and -o User.
target(c, t) ==
  [c EXCEPT !.host = Some(t[1]), !.userInHost = t[2],
            !.user = IF t[2] = <<>> THEN @ ELSE GetOrInsert(@, t[2][1]),
            !.port = Or(@, t[3])]

\* parse_args: left to right, up to the command.
parse_args(args) ==
  LET step(c, a) == CASE c.err \/ c.command # <<>> -> c
                      [] a.o = "host" -> target(c, a.v)
                      [] a.o = "command" -> [c EXCEPT !.command = Some(a.v[1])]
                      [] a.o = "o" -> apply_dash_o(c, a.v[1], a.v[2])
                      [] a.o \in {"l", "p", "i", "L", "R", "D", "J", "O", "S", "w", "W", "Q"} -> value_option(c, a.o, a.v[1])
                      [] OTHER -> flag_option(c, a.o)
      c == FoldLeft(step, NoCli, args)
      tty == CASE c.ts = 0 -> c.tty [] c.ts = 1 -> Some("yes") [] OTHER -> Some("force")
  IN [c EXCEPT !.tty = tty, !.err = @ \/ (c.host = <<>> /\ ~c.version /\ c.query = <<>>)]

----------------------------------------------------------------------------
(* The configuration of the host.                                            *)

Unset == [k \in Keywords |-> <<>>]
IsList(k) == ClientSettings[k] = "list"
Is(o, k, v) == k \in Keywords /\ o[k] = Some(v)
On(o, k) == Is(o, k, "yes")
Opt(o, k) == IF k \in Keywords THEN o[k] ELSE <<>>
Twins == {"proxyjump", "proxycommand"}

\* merge_lower: a list is continued, a value only fills what is not set, and the two
\* proxy keywords are one.
merge_lower(o, lower) ==
  [k \in Keywords |->
     CASE IsList(k) -> o[k] \o lower[k]
       [] k \in Twins /\ (\E t \in Twins \cap Keywords : o[t] # <<>>) -> o[k]
       [] OTHER -> Or(o[k], lower[k])]

\* apply_extra_o: the -o lines are one block, above the files.
apply_extra_o(o, extra) ==
  LET set(b, kv) ==
        LET k == kv[1]  v == kv[2]
        IN [b EXCEPT ![k] = CASE IsList(k) -> Append(@, v)
                              [] ClientSettings[k] = "first" -> GetOrInsert(@, v)
                              [] ClientSettings[k] = "clear" /\ v = "none" -> <<>>
                              [] k \in Twins /\ (\E t \in Twins \cap Keywords : b[t] # <<>>) -> @
                              [] OTHER -> Some(v)]
  IN merge_lower(FoldLeft(set, Unset, extra), o)

\* parse_jump_hops, connect_jump_chain's list: none turns a jump off.
hops(c, o) == LET j == Or(c.jump, Opt(o, "proxyjump")) IN IF j = Some("none") THEN <<>> ELSE j
command_route(o) == LET p == Opt(o, "proxycommand") IN IF p = Some("none") THEN <<>> ELSE p

\* final_config_pass: a name that is not reached through a proxy may be canonicalised (res
\* says whether it resolves in a canonical domain), and the blocks that hold at the end are
\* merged below, the lists without repetition.
Canonicalises(c, o) ==
  LET mode == Opt(o, "canonicalizehostname")
      direct == command_route(o) = <<>> /\ Opt(o, "proxyjump") \in {<<>>, Some("none")} /\ c.jump = <<>>
  IN mode = Some("always") \/ (mode = Some("yes") /\ direct)
final_config_pass(c, o, res) ==
  LET named == IF Canonicalises(c, o) /\ res THEN [o EXCEPT !.hostname = Some("canonical")] ELSE o
      final == merge_lower(named, FinalFile)
      once(s) == FoldLeft(LAMBDA acc, x : IF Contains(acc, x) THEN acc ELSE Append(acc, x), <<>>, s)
  IN IF Opt(o, "canonicalizehostname") \in {<<>>, Some("no")} /\ FinalFile = Unset THEN o
     ELSE [k \in Keywords |-> IF IsList(k) THEN once(final[k]) ELSE final[k]]
Unresolved(c, o, res) == Canonicalises(c, o) /\ ~res /\ Is(o, "canonicalizefallbacklocal", "no")

\* run: what the command line and the options settle between them, before anything is printed or dialled.
settle_options(c, o) ==
  LET w == c.stdio # <<>>
      o1 == [k \in Keywords |-> IF w /\ k \in {"exitonforwardfailure", "clearallforwardings"} THEN Or(o[k], Some("yes")) ELSE o[k]]
  IN IF On(o1, "clearallforwardings")
     THEN [k \in Keywords |-> IF k \in {"localforward", "remoteforward", "dynamicforward"} THEN <<>> ELSE o1[k]]
     ELSE o1
settle_cli(c, o) ==
  LET s == settle_options(c, o)
      clear == On(s, "clearallforwardings")
      none == c.noCommand \/ (Is(o, "sessiontype", "none") /\ c.command = <<>>)
      x11 == CASE c.x11 = "untrusted" /\ On(o, "forwardx11trusted") -> "trusted"
               [] c.x11 = "no" /\ On(o, "forwardx11") -> IF On(o, "forwardx11trusted") THEN "trusted" ELSE "untrusted"
               [] OTHER -> c.x11
      fork == c.fork \/ On(o, "forkafterauthentication")
  IN [c EXCEPT !.noCommand = none,
               !.subsystem = @ \/ Is(o, "sessiontype", "subsystem"),
               !.command = IF @ = <<>> /\ ~none /\ Opt(o, "remotecommand") # Some("none") THEN Opt(o, "remotecommand") ELSE @,
               !.fork = fork, !.null = @ \/ fork \/ On(o, "stdinnull"),
               !.locals = IF clear THEN <<>> ELSE @ \o Opt(o, "localforward"),
               !.remotes = IF clear THEN <<>> ELSE @ \o Opt(o, "remoteforward"),
               !.dynamics = IF clear THEN <<>> ELSE @ \o Opt(o, "dynamicforward"),
               !.agent = @ \/ On(o, "forwardagent"), !.x11 = x11]

EffectivePort(c, o) == Or(c.port, Or(Opt(o, "port"), Some("22")))
EffectiveUser(c, o) == Or(c.user, Or(c.userInHost, Or(Opt(o, "user"), Some("local"))))
\* valid_ruser looks at a name of the command line; that of -o User only where its tokens changed it.
BadUser(c) == (IF c.userFromO THEN c.userInHost ELSE Or(c.user, c.userInHost)) = Some("-bad")
EffectiveHost(c, o) == Or(Opt(o, "hostname"), c.host)
Identities(c, o) == c.ids \o Opt(o, "identityfile")

\* print_config: the values that every connection has ...
print_settings(c, o) ==
  [host |-> EffectiveHost(c, o), user |-> EffectiveUser(c, o), port |-> EffectivePort(c, o),
   identitiesonly |-> Or(c.only, Opt(o, "identitiesonly")) = Some("yes"),
   compression |-> Or(c.compression, Opt(o, "compression")) = Some("yes"),
   exitonforwardfailure |-> On(o, "exitonforwardfailure"),
   requesttty |-> Or(c.tty, Opt(o, "requesttty"))]
\* ... those that are shown where they are set, none being unset for a command ...
print_set(o) ==
  [controlpath |-> Opt(o, "controlpath"), pkcs11provider |-> Opt(o, "pkcs11provider"),
   remotecommand |-> IF Opt(o, "remotecommand") = Some("none") THEN <<>> ELSE Opt(o, "remotecommand")]
\* ... the forwards of the command line and of the file ...
print_forwards(c) == [forwards |-> <<c.dynamics, c.locals, c.remotes>>]
\* ... the identities as they are written, or the default ones ...
print_identities(c, o) ==
  [identityfile |-> IF Identities(c, o) = <<>> THEN Defaults ELSE Identities(c, o),
   certificatefile |-> Opt(o, "certificatefile")]
\* ... and one way to the server.
print_proxy(c, o) ==
  [proxy |-> IF hops(c, o) # <<>> THEN <<"jump", hops(c, o)>>
             ELSE IF command_route(o) # <<>> THEN <<"command", command_route(o)>> ELSE <<"direct">>]
print_config(c, o) ==
  print_settings(c, o) @@ print_set(o) @@ print_forwards(c) @@ print_identities(c, o) @@ print_proxy(c, o)

----------------------------------------------------------------------------
(* The credentials.                                                          *)

Cred(key, by, cert) == [key |-> key, by |-> by, cert |-> cert]

\* collect_credentials: the agent's keys come first, unless only the identities are wanted.
AgentOffers(c, o) ==
  IF Or(c.only, Opt(o, "identitiesonly")) = Some("yes") THEN <<>>
  ELSE [i \in DOMAIN AgentKeys |-> Cred(AgentKeys[i], "agent", FALSE)]

\* ... then the keys of a PKCS#11 token, each after the certificate files that name it ...
TokenOffers(c, o) ==
  LET key == Opt(o, "pkcs11provider")
      certs == SelectSeq(Opt(o, "certificatefile"), LAMBDA p : Disk[p].cert = key[1])
  IN IF key \in {<<>>, Some("none")} THEN <<>>
     ELSE [i \in DOMAIN certs |-> Cred(key[1], "token", TRUE)] \o <<Cred(key[1], "token", FALSE)>>

\* ... then the certificates: a named one with the first identity that has its key, one
\* found beside a key with that key, and either with the agent if there is none.
CertOffers(c, o) ==
  LET ids == Identities(c, o)
      implicit == IF ids = <<>> THEN Defaults ELSE ids
      named == [i \in DOMAIN Opt(o, "certificatefile") |-> [path |-> o.certificatefile[i], own |-> ids]]
      beside == [i \in DOMAIN implicit |-> [path |-> implicit[i], own |-> <<implicit[i]>>]]
      all == named \o SelectSeq(beside, LAMBDA b : Disk[b.path].cert # "none" /\ ~\E n \in Range(named) : n.path = b.path)
      offer(x) == LET k == Disk[x.path].cert
                  IN CASE k = "none" -> <<>>
                       [] \E p \in Range(x.own) : Disk[p].key = k -> <<Cred(k, "file", TRUE)>>
                       [] Contains(AgentKeys, k) -> <<Cred(k, "agent", TRUE)>>
                       [] OTHER -> <<>>
  IN FlattenSeq([i \in DOMAIN all |-> offer(all[i])])

\* agent_identity_for: an identity without its private key is the agent's, where it was not offered yet.
agent_identity_for(p, have) ==
  LET k == Disk[p].pub
  IN IF k = "none" \/ ~Contains(AgentKeys, k) \/ (\E x \in Range(have) : x.key = k /\ ~x.cert) THEN <<>>
     ELSE <<Cred(k, "agent", FALSE)>>

\* collect_credentials: all of them, and last the identities, named or default, without the keys that are too short.
collect_credentials(c, o) ==
  LET before == AgentOffers(c, o) \o TokenOffers(c, o) \o CertOffers(c, o)
      ids == Identities(c, o)
      add(have, p) == IF Disk[p].key # "none" THEN Append(have, Cred(Disk[p].key, "file", FALSE))
                      ELSE have \o (IF ids = <<>> THEN <<>> ELSE agent_identity_for(p, have))
      all == FoldLeft(add, before, IF ids = <<>> THEN Defaults ELSE ids)
  IN IF Is(o, "pubkeyauthentication", "no") THEN <<>> ELSE SelectSeq(all, LAMBDA x : x.key \notin Short)

\* dump_pubkeys, what -Z prints: the certificate files, the agent's keys, those that an
\* identity names first, and the identities the agent does not hold.
dump_pubkeys(c, o) ==
  LET ids == Identities(c, o)
      only == Or(c.only, Opt(o, "identitiesonly")) = Some("yes")
      certs == SelectSeq([i \in DOMAIN Opt(o, "certificatefile") |-> Disk[o.certificatefile[i]].cert], LAMBDA k : k # "none")
      files == [i \in DOMAIN (IF ids = <<>> THEN Defaults ELSE ids) |-> Disk[(IF ids = <<>> THEN Defaults ELSE ids)[i]].pub]
      named == SelectSeq(AgentKeys, LAMBDA k : Contains(files, k))
      others == IF only THEN <<>> ELSE SelectSeq(AgentKeys, LAMBDA k : ~Contains(files, k))
  IN certs \o named \o others \o SelectSeq(files, LAMBDA k : k # "none" /\ ~Contains(AgentKeys, k))

----------------------------------------------------------------------------
(* run().                                                                    *)

Init ==
  /\ line \in Lines /\ file \in Files /\ master \in AtPath
  /\ cli = NoCli /\ opts = Unset /\ stage = "args" /\ route = "none" /\ hop = 0 /\ creds = <<>>
  /\ todo = <<>> /\ up = {} /\ becomes = FALSE /\ socket = FALSE /\ parent = "none" /\ pipe = "open" /\ shown = <<>> /\ out = -1

inputs == <<line, file, master>>
settled == <<cli, opts>>
work == <<route, hop, creds, todo, up, socket>>
result == <<out, pipe>>

May(f) == {TRUE} \cup (IF f \in Failures THEN {FALSE} ELSE {})

\* The process ends: its end of the pipe is closed.
Exit(code) == stage' = "exit" /\ out' = code /\ pipe' = IF pipe = "open" THEN "closed" ELSE pipe
Go(s) == stage' = s /\ UNCHANGED result

\* run, up to the configuration: usage, -V and -Q end here.
ReadArgs ==
  /\ stage = "args"
  /\ LET c == parse_args(line)
     IN /\ cli' = c
        /\ CASE c.err -> Exit(255)
             [] c.version -> Exit(0)
             [] c.query # <<>> -> Exit(IF c.query = Some("bad") THEN 255 ELSE 0)
             [] OTHER -> Go("config")
  /\ UNCHANGED <<inputs, opts, work, parent, shown, becomes>>

\* run: the configuration is read, the command line laid over it, the name canonicalised, and both settled.
Configure ==
  /\ stage = "config"
  /\ \E res \in May("resolve") :
       LET o == apply_extra_o(file, cli.extra)
           o2 == final_config_pass(cli, o, res)
       IN IF BadUser(cli) \/ Unresolved(cli, o, res) \/ Opt(o2, "refuseconnection") # <<>>
          THEN Exit(255) /\ UNCHANGED <<settled, shown>>
          ELSE /\ opts' = settle_options(cli, o2) /\ cli' = settle_cli(cli, o2)
               /\ shown' = <<print_config(settle_cli(cli, o2), settle_options(cli, o2))>>
               /\ IF cli.print \/ cli.dump THEN Exit(0) ELSE Go("mux")
  /\ UNCHANGED <<inputs, work, parent, becomes>>

\* resolve_mux: there is multiplexing only with a control path.
Path == Opt(opts, "controlpath")
resolve_mux == Path # <<>> /\ (Is(opts, "controlmaster", "yes") \/ Is(opts, "controlmaster", "auto"))

\* run_control_command: -O needs a master that answers, and forward and cancel its consent;
\* a refused cancel is still a success.
run_control_command(cmd, agrees) ==
  IF Path = <<>> \/ master # "live" \/ (cmd = "forward" /\ ~agrees) THEN 255 ELSE 0
Control ==
  /\ stage = "mux" /\ cli.control # <<>>
  /\ \E agrees \in May("master") : Exit(run_control_command(cli.control[1], agrees))
  /\ UNCHANGED <<inputs, settled, work, parent, shown, becomes>>

\* -O proxy: the session of a master that must be there.
Proxy ==
  /\ stage = "mux" /\ cli.control = <<>> /\ cli.proxy
  /\ IF Path # <<>> /\ master = "live" THEN route' = "mux" /\ Go("session") ELSE Exit(255) /\ UNCHANGED route
  /\ UNCHANGED <<inputs, settled, hop, creds, todo, up, socket, parent, shown, becomes>>

\* run: without a control path, or to become the master whatever is there, it connects by itself.
OwnConnection == cli.agent \/ cli.x11 # "no"
Asks == Path # <<>> /\ ~Is(opts, "controlmaster", "yes")
ConnectAlone ==
  /\ stage = "mux" /\ cli.control = <<>> /\ ~cli.proxy
  /\ IF Asks /\ master = "unsafe" THEN Exit(255)
     ELSE ~(Asks /\ master = "live" /\ ~OwnConnection) /\ Go("connect")
  /\ becomes' = (resolve_mux /\ ~(Asks /\ master = "live"))
  /\ UNCHANGED <<inputs, settled, route, hop, creds, todo, up, socket, parent, shown>>

\* A live master: it is asked for the -R of the command line.
Attach ==
  /\ stage = "mux" /\ cli.control = <<>> /\ ~cli.proxy /\ Asks /\ master = "live" /\ ~OwnConnection
  /\ route' = "mux" /\ Go("asking")
  /\ todo' = SelectSeq(cli.specs, LAMBDA s : s[1] = "R" /\ cli.remotes # <<>>)
  /\ UNCHANGED <<inputs, settled, hop, creds, up, socket, parent, shown, becomes>>
AskMaster ==
  /\ stage = "asking" /\ todo # <<>>
  /\ \E ok \in May("master") : IF ok THEN Go("asking") /\ up' = up \cup {Head(todo)} /\ todo' = Tail(todo)
                               ELSE Exit(255) /\ UNCHANGED <<todo, up>>
  /\ UNCHANGED <<inputs, settled, route, hop, creds, socket, parent, shown, becomes>>

\* run_mux_forwarding serves -L and -D for good; -N alone has nothing to do; run_mux_client is the session.
MuxForwards == [i \in DOMAIN cli.locals |-> <<"L", cli.locals[i]>>] \o [i \in DOMAIN cli.dynamics |-> <<"D", cli.dynamics[i]>>]
run_mux_forwarding ==
  /\ stage = "asking" /\ todo = <<>>
  /\ IF MuxForwards # <<>>
     THEN \E ok \in May("bind") : IF ok THEN Go("session") /\ up' = up \cup Range(MuxForwards) ELSE Exit(255) /\ UNCHANGED up
     ELSE /\ UNCHANGED up
          /\ IF cli.noCommand THEN Exit(IF cli.remotes # <<>> THEN 0 ELSE 255) ELSE Go("session")
  /\ UNCHANGED <<inputs, settled, route, hop, creds, todo, socket, parent, shown, becomes>>

----------------------------------------------------------------------------
(* The connection.                                                           *)

\* connect_jump_chain: each host is reached through the one before, checked and authenticated
\* to with its own configuration; then the destination through the last.
Jump ==
  /\ stage = "connect" /\ hops(cli, opts) # <<>>
  /\ \E ok \in May("connect") :
       CASE ~ok -> Exit(255) /\ UNCHANGED <<route, hop>>
         [] ok /\ hop < HopsOf[hops(cli, opts)[1]] -> Go("connect") /\ hop' = hop + 1 /\ UNCHANGED route
         [] OTHER -> Go("auth") /\ route' = "jump" /\ UNCHANGED hop
  /\ UNCHANGED <<inputs, settled, creds, todo, up, socket, parent, shown, becomes>>

\* run: a ProxyCommand, or the network (dial_tcp, knocking first where that is on).
Dial ==
  /\ stage = "connect" /\ hops(cli, opts) = <<>>
  /\ \E ok \in May("connect") :
       IF ok THEN Go("auth") /\ route' = IF command_route(opts) # <<>> THEN "command" ELSE "direct"
       ELSE Exit(255) /\ UNCHANGED route
  /\ UNCHANGED <<inputs, settled, hop, creds, todo, up, socket, parent, shown, becomes>>

\* authenticate_client: the keys, then a password or keyboard-interactive where somebody can be asked.
authenticate_client ==
  /\ stage = "auth"
  /\ creds' = collect_credentials(cli, opts)
  /\ \E ok \in May("auth") : IF ok THEN Go("fork") ELSE Exit(255)
  /\ UNCHANGED <<inputs, settled, route, hop, todo, up, socket, parent, shown, becomes>>

Remotes == [i \in DOMAIN cli.remotes |-> <<"R", cli.remotes[i]>>]
Locals == MuxForwards
Tunnels == IF Opt(opts, "tunnel") \in {Some("yes"), Some("ethernet")} THEN <<<<"w", "tun">>>> ELSE <<>>

\* Mutant of fork_to_background: the first process does not wait.
fork_to_backgroundAtOnce ==
  /\ stage = "fork"
  /\ parent' = IF cli.fork THEN "zero" ELSE parent
  /\ todo' = IF cli.stdio # <<>> THEN <<>> ELSE Remotes
  /\ IF cli.stdio # <<>> THEN stage' = "stdio" /\ pipe' = "ready" /\ UNCHANGED out ELSE Go("remote")
  /\ UNCHANGED <<inputs, settled, route, hop, creds, up, socket, shown, becomes>>

\* fork_to_background, and -W, which tells the first process at once: it has no forwards to wait for.
fork_to_background ==
  /\ stage = "fork"
  /\ parent' = IF cli.fork THEN "waits" ELSE parent
  /\ todo' = IF cli.stdio # <<>> THEN <<>> ELSE Remotes
  /\ IF cli.stdio # <<>> THEN stage' = "stdio" /\ pipe' = "ready" /\ UNCHANGED out ELSE Go("remote")
  /\ UNCHANGED <<inputs, settled, route, hop, creds, up, socket, shown, becomes>>

\* run_stdio_forward.
run_stdio_forward ==
  /\ stage = "stdio"
  /\ \E ok \in May("channel") : IF ok THEN Go("session") ELSE Exit(255)
  /\ UNCHANGED <<inputs, settled, work, parent, shown, becomes>>

ExitOnFailure == On(opts, "exitonforwardfailure")
\* One forward of the list: it works, or it is a warning, or it is the end.
SetUp(s, ok) ==
  CASE ok -> Go(s) /\ up' = up \cup {Head(todo)} /\ todo' = Tail(todo)
    [] ~ok /\ ExitOnFailure -> Exit(255) /\ UNCHANGED <<up, todo>>
    [] OTHER -> Go(s) /\ todo' = Tail(todo) /\ UNCHANGED up

\* request_remote_forwards: the server is asked for one after the other.
request_remote_forwards ==
  /\ stage = "remote" /\ todo # <<>>
  /\ \E ok \in May("forward") : SetUp("remote", ok)
  /\ UNCHANGED <<inputs, settled, route, hop, creds, socket, parent, shown, becomes>>

\* run: agent and X11 are prepared, and -s needs a name.
Prepare ==
  /\ stage = "remote" /\ todo = <<>>
  /\ IF cli.subsystem /\ cli.command = <<>> THEN Exit(255) /\ UNCHANGED todo ELSE Go("local") /\ todo' = Locals
  /\ UNCHANGED <<inputs, settled, route, hop, creds, up, socket, parent, shown, becomes>>

\* bind_local_forwards: the listeners are bound before anything is served.
bind_local_forwards ==
  /\ stage = "local" /\ todo # <<>>
  /\ \E ok \in May("bind") : SetUp("local", ok)
  /\ UNCHANGED <<inputs, settled, route, hop, creds, socket, parent, shown, becomes>>
Bound ==
  /\ stage = "local" /\ todo = <<>>
  /\ Go("tunnel") /\ todo' = Tunnels
  /\ UNCHANGED <<inputs, settled, route, hop, creds, up, socket, parent, shown, becomes>>

\* open_tunnel: the device and the channel; then LocalCommand runs.
open_tunnel ==
  /\ stage = "tunnel" /\ todo # <<>>
  /\ \E ok \in May("tunnel") : SetUp("tunnel", ok)
  /\ UNCHANGED <<inputs, settled, route, hop, creds, socket, parent, shown, becomes>>

\* run: the session starts, and the first process may go; a master binds its socket before.
\* With ControlPersist the daemon drops its end of the pipe and the launcher keeps one.
become_master ==
  /\ stage = "tunnel" /\ todo = <<>>
  /\ IF becomes THEN Go("binding") ELSE stage' = "session" /\ pipe' = "ready" /\ UNCHANGED out
  /\ UNCHANGED <<inputs, settled, work, parent, shown, becomes>>
Persists == Opt(opts, "controlpersist") \notin {<<>>, Some("no")}
run_master ==
  /\ stage = "binding" /\ ~Persists
  /\ \E ok \in May("socket") :
       IF ok THEN socket' = TRUE /\ stage' = "session" /\ pipe' = "ready" /\ UNCHANGED out
       ELSE Exit(255) /\ UNCHANGED socket
  /\ UNCHANGED <<inputs, settled, route, hop, creds, todo, up, parent, shown, becomes>>

\* daemonize_master: the launcher waits until the daemon answers, or ten seconds; without a command that is all.
daemonize_master ==
  /\ stage = "binding" /\ Persists
  /\ \E ok \in May("socket") :
       IF ok THEN socket' = TRUE /\ (IF cli.noCommand THEN Exit(0) ELSE Go("session"))
       ELSE Exit(255) /\ UNCHANGED socket
  /\ UNCHANGED <<inputs, settled, route, hop, creds, todo, up, parent, shown, becomes>>

\* The session is over.
SessionOver ==
  /\ stage = "session"
  /\ \E code \in {0, 255} : Exit(code)
  /\ UNCHANGED <<inputs, settled, work, parent, shown, becomes>>

\* The first process of -f: a byte, or the end of the file and the status of the other.
ParentTold ==
  /\ parent = "waits" /\ pipe = "ready"
  /\ parent' = "zero" /\ UNCHANGED <<inputs, settled, stage, work, shown, becomes, result>>
ParentReaps ==
  /\ parent = "waits" /\ pipe = "closed" /\ stage = "exit"
  /\ parent' = IF out = 0 THEN "zero" ELSE "failed"
  /\ UNCHANGED <<inputs, settled, stage, work, shown, becomes, result>>

Done == stage = "exit" /\ parent # "waits" /\ UNCHANGED vars

Next ==
  \/ ReadArgs \/ Configure \/ Control \/ Proxy \/ ConnectAlone \/ Attach \/ AskMaster \/ run_mux_forwarding
  \/ Jump \/ Dial \/ authenticate_client \/ fork_to_background \/ run_stdio_forward
  \/ request_remote_forwards \/ Prepare \/ bind_local_forwards \/ Bound \/ open_tunnel
  \/ become_master \/ run_master \/ daemonize_master \/ SessionOver \/ ParentTold \/ ParentReaps \/ Done
Spec == Init /\ [][Next]_vars

----------------------------------------------------------------------------
Wanted == Range(Remotes) \cup Range(Locals) \cup Range(Tunnels)

\* Neither the session starts nor -f gives the terminal back with success before the program is
\* authenticated, every forward has been tried, all of them work where ExitOnForwardFailure
\* says so, and a master listens at its control path.
UpBeforeUse ==
  route # "mux" /\ (stage = "session" \/ parent = "zero") =>
    /\ route # "none" /\ todo = <<>>
    /\ (ExitOnFailure /\ cli.stdio = <<>> => Wanted \subseteq up)
    /\ (becomes /\ cli.stdio = <<>> => socket)

\* What -G prints is what a connection does: the way it takes to the server, the forwards it
\* asks for, and the files its keys come from.
ShownIsUsed ==
  shown # <<>> =>
    LET s == shown[1]
    IN /\ route \in {"jump", "command", "direct"} => s.proxy[1] = route
       /\ route # "mux" => up \subseteq {<<"D", f>> : f \in Range(s.forwards[1])} \cup {<<"L", f>> : f \in Range(s.forwards[2])}
                                           \cup {<<"R", f>> : f \in Range(s.forwards[3])} \cup Range(Tunnels)
       /\ (stage = "session" /\ route # "mux" /\ s.exitonforwardfailure /\ cli.stdio = <<>>)
             => Cardinality(up) = Cardinality(UNION {Range(s.forwards[i]) : i \in 1..3}) + Len(Tunnels)
       /\ \A x \in Range(creds) : x.by = "file" =>
            \E p \in Range(s.identityfile) : Disk[p].key = x.key

\* With IdentitiesOnly every key that is offered is one that an identity, a certificate file
\* or the token of the configuration names, though an agent may do the signing; and every
\* key that is offered by itself, other than a token's, is one that -Z lists.
OfferedAsConfigured ==
  shown # <<>> =>
    \A x \in Range(creds) :
      /\ \/ ~shown[1].identitiesonly \/ x.by = "token"
         \/ \E p \in Range(shown[1].identityfile) \cup Range(shown[1].certificatefile) :
              x.key \in {Disk[p].key, Disk[p].pub, Disk[p].cert}
      /\ x.cert \/ x.by = "token" \/ Contains(dump_pubkeys(cli, opts), x.key)
=============================================================================
