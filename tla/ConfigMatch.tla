---------------------------- MODULE ConfigMatch ----------------------------
(* What the client's and the server's configuration files share: patterns,   *)
(* the criteria of a Match line, and Include; and the tables of their        *)
(* keywords.  A pattern is the set of names its glob accepts and whether it  *)
(* is negated.                                                               *)
EXTENDS Integers, Sequences, SequencesExt, FiniteSets, TLC

\* host_matches, address_matches: a negated hit refuses at once, and without
\* a positive hit nothing matches.
HostMatches(pats, name) ==
  /\ \A i \in DOMAIN pats : pats[i].neg => name \notin pats[i].names
  /\ \E i \in DOMAIN pats : ~pats[i].neg /\ name \in pats[i].names

\* evaluate: one criterion against what is known of the connection.  A criterion about
\* a fact that is not known (no user yet) fails; Not inverts that too.
Evaluate(c, ctx) ==
  LET hit == \/ c.type = "all"
             \/ c.type = "exec" /\ ctx.exec
             \/ c.type \in {"host", "user", "tagged"} /\ HostMatches(c.pats, ctx[c.type])
  IN IF c.neg THEN ~hit ELSE hit

\* all_match: the empty list of criteria matches nothing.
AllMatch(conds, ctx) == conds # <<>> /\ \A i \in DOMAIN conds : Evaluate(conds[i], ctx)

----------------------------------------------------------------------------
(* The keywords.                                                             *)

\* How the client's apply_keyword stores a value: "set" overwrites what the block has, "first" keeps
\* it, "list" appends, "clear" stores None for `none', "pair" excludes its twin, "agent"
\* sets a second field when the value is a path.
ClientHostSettings ==
  [hostname |-> "set", port |-> "set", user |-> "set", identityfile |-> "list", certificatefile |-> "list",
   identitiesonly |-> "set", pkcs11provider |-> "set", securitykeyprovider |-> "set",
   stricthostkeychecking |-> "set", userknownhostsfile |-> "set", hashknownhosts |-> "set",
   localforward |-> "list", remoteforward |-> "list", forwardagent |-> "agent", forwardx11 |-> "set",
   forwardx11trusted |-> "set", requesttty |-> "set", permitremoteopen |-> "set", rekeylimit |-> "set",
   canonicalizehostname |-> "set", canonicaldomains |-> "set", canonicalizemaxdots |-> "set",
   canonicalizefallbacklocal |-> "set", loglevel |-> "set"]
ClientTransportSettings ==
  [ciphers |-> "set", macs |-> "set", kexalgorithms |-> "set", hostkeyalgorithms |-> "set",
   pubkeyacceptedalgorithms |-> "set", proxycommand |-> "pair", proxyjump |-> "pair", compression |-> "set",
   setenv |-> "list", sendenv |-> "list", connecttimeout |-> "set", serveraliveinterval |-> "set",
   serveralivecountmax |-> "set", tcpkeepalive |-> "set"]
ClientAuthSettings ==
  [addkeystoagent |-> "set", preferredauthentications |-> "set", pubkeyauthentication |-> "set",
   numberofpasswordprompts |-> "set", batchmode |-> "set", exitonforwardfailure |-> "set",
   clearallforwardings |-> "set", dynamicforward |-> "list", gatewayports |-> "set", addressfamily |-> "set",
   bindaddress |-> "set", knockmode |-> "set", knockfallbackdelay |-> "set", knockport |-> "set",
   identityagent |-> "set", controlmaster |-> "set"]
ClientSessionSettings ==
  [controlpath |-> "clear", controlpersist |-> "set", obscurekeystroketiming |-> "set",
   casignaturealgorithms |-> "set", escapechar |-> "set", knownhostscommand |-> "first",
   updatehostkeys |-> "first", tag |-> "first", localcommand |-> "first", permitlocalcommand |-> "set",
   remotecommand |-> "first", sessiontype |-> "set", stdinnull |-> "set", forkafterauthentication |-> "set",
   passwordauthentication |-> "set", kbdinteractiveauthentication |-> "set", hostkeyalias |-> "set",
   revokedhostkeys |-> "set", globalknownhostsfile |-> "set", connectionattempts |-> "set",
   checkhostip |-> "first", verifyhostkeydns |-> "first", visualhostkey |-> "first",
   nohostauthenticationforlocalhost |-> "first"]
ClientChannelsSettings ==
  [fingerprinthash |-> "first", bindinterface |-> "first", ipqos |-> "first", forwardx11timeout |-> "first",
   xauthlocation |-> "first", canonicalizepermittedcnames |-> "first", channeltimeout |-> "first",
   logverbose |-> "first", syslogfacility |-> "first", streamlocalbindmask |-> "first",
   streamlocalbindunlink |-> "first"]
ClientOtherSettings ==
  [requiredrsasize |-> "first", proxyusefdpass |-> "first", kbdinteractivedevices |-> "first",
   warnweakcrypto |-> "first", versionaddendum |-> "first", refuseconnection |-> "first",
   tunnel |-> "first", tunneldevice |-> "first", enableescapecommandline |-> "first"]
ClientSettings == ClientHostSettings @@ ClientTransportSettings @@ ClientAuthSettings @@ ClientSessionSettings
              @@ ClientChannelsSettings @@ ClientOtherSettings

\* How the server's apply_keyword and merge_server_options treat a keyword: "first" value wins, "list"
\* appends, "allow" is a list a Match block replaces, "clear" stores None for `none',
\* "last" value wins, "named" keeps the first value of each name, "startups" fills two
\* options from one value.
ServerListeningSettings ==
  [port |-> "first", listenaddress |-> "list", hostkey |-> "list", hostcertificate |-> "list",
   persourcepenalties |-> "first", persourcepenaltyexemptlist |-> "first",
   persourcenetblocksize |-> "first", channeltimeout |-> "first", exposeauthinfo |-> "first",
   pamservicename |-> "first", hostkeyagent |-> "clear", knocklisten |-> "list", knockusers |-> "list"]
ServerKeysSettings ==
  [knockports |-> "first", knockwindow |-> "first", knockclockskew |-> "first", knockmaxpending |-> "first",
   trustedusercakeys |-> "first", revokedkeys |-> "first", syslogfacility |-> "first",
   authorizedprincipalsfile |-> "first", authorizedkeyscommand |-> "first",
   authorizedprincipalscommand |-> "first", authorizedkeyscommanduser |-> "first",
   authorizedprincipalscommanduser |-> "first", authorizedkeysfile |-> "first", allowusers |-> "allow",
   logingracetime |-> "first", maxstartups |-> "startups"]
ServerSessionsSettings ==
  [allowagentforwarding |-> "first", x11forwarding |-> "first", tcpkeepalive |-> "first",
   permituserrc |-> "first", xauthlocation |-> "first", acceptenv |-> "list", setenv |-> "list",
   permituserenvironment |-> "first", strictmodes |-> "first", loglevel |-> "first", sftpenabled |-> "first",
   sftpreadonly |-> "first", sftproot |-> "first", scpenabled |-> "first", permitrootlogin |-> "first",
   ciphers |-> "first", macs |-> "first", kexalgorithms |-> "first", hostkeyalgorithms |-> "first",
   casignaturealgorithms |-> "first", pubkeyauthentication |-> "first"]
ServerAuthSettings ==
  [pubkeyauthoptions |-> "first", passwordauthentication |-> "first", kbdinteractiveauthentication |-> "first",
   authenticationmethods |-> "first", maxauthtries |-> "first", denyusers |-> "list", allowgroups |-> "allow",
   denygroups |-> "list", permitemptypasswords |-> "first", banner |-> "clear", maxsessions |-> "first"]
ServerForwardingSettings ==
  [allowtcpforwarding |-> "first", permitopen |-> "first", permitlisten |-> "first", gatewayports |-> "first",
   forcecommand |-> "first", chrootdirectory |-> "clear", clientaliveinterval |-> "first",
   unusedconnectiontimeout |-> "first", clientalivecountmax |-> "first", printlastlog |-> "first",
   printmotd |-> "first", compression |-> "first", rekeylimit |-> "first", addressfamily |-> "first",
   pidfile |-> "first", subsystem |-> "named", permittunnel |-> "first", usepam |-> "first",
   permittty |-> "first", disableforwarding |-> "first", allowstreamlocalforwarding |-> "first"]
ServerOtherSettings ==
  [pubkeyacceptedalgorithms |-> "first", requiredrsasize |-> "first", persourcemaxstartups |-> "first",
   x11displayoffset |-> "first", x11uselocalhost |-> "first", streamlocalbindmask |-> "first",
   streamlocalbindunlink |-> "first", ipqos |-> "first", versionaddendum |-> "first", usedns |-> "first",
   modulifile |-> "first", logverbose |-> "first", fingerprinthash |-> "last", agentsocketpath |-> "first",
   warnweakcrypto |-> "first", refuseconnection |-> "first", sshdsessionpath |-> "first",
   sshdauthpath |-> "first"]
ServerSettings == ServerListeningSettings @@ ServerKeysSettings @@ ServerSessionsSettings @@ ServerAuthSettings
              @@ ServerForwardingSettings @@ ServerOtherSettings

----------------------------------------------------------------------------
(* What a line's position means, stated on the expanded lines.  "begin" and  *)
(* "end" enclose the lines of an included file.                              *)

\* The "begin" whose file line i is in, 0 for the file read first.
Opener(lines, i) ==
  LET open == {b \in 1..(i - 1) : /\ lines[b].kw = "begin"
                                  /\ \A e \in (b + 1)..(i - 1) :
                                       Cardinality({x \in b..e : lines[x].kw = "begin"})
                                         > Cardinality({x \in b..e : lines[x].kw = "end"})}
  IN IF open = {} THEN 0 ELSE CHOOSE b \in open : \A o \in open : o <= b

\* Every include is closed and no "end" comes without its "begin".
Bracketed(lines) ==
  /\ \A n \in 1..Len(lines) : Cardinality({x \in 1..n : lines[x].kw = "end"})
                                <= Cardinality({x \in 1..n : lines[x].kw = "begin"})
  /\ Cardinality({x \in DOMAIN lines : lines[x].kw = "end"})
       = Cardinality({x \in DOMAIN lines : lines[x].kw = "begin"})
=============================================================================
