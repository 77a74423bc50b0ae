-------------------------------- MODULE Sshd --------------------------------
(***************************************************************************)
(* The server program up to the loop that Daemon models (bin/sshd.rs): the *)
(* command line, the configuration, -t, -T and -G, host keys and their     *)
(* certificates, the addresses, detaching, the PID file, and SIGHUP, which *)
(* replaces the process image by a new start.                              *)
(***************************************************************************)
EXTENDS Integers, Sequences, FiniteSets, SequencesExt, TLC

CONSTANTS
    CommandLines,   \* what the administrator may type: sequences of [opt, val]
    Configs,        \* what sshd_config may say
    Loadable,       \* host keys, certificates, CA and revocation files that load
    CertOf,         \* host key -> its certificate file, "" for none
    Present,        \* the default host keys that exist
    Busy,           \* addresses somebody else listens on
    MaxEdits        \* bound on new configurations

VARIABLES
    phase,          \* where run() is
    cli,            \* the parsed command line
    disk,           \* sshd_config as it is now
    conf,           \* the configuration in force
    keys,           \* the host keys offered, with certificates
    bound,          \* addresses listened on
    pid, pidfile,   \* this process; the process the PID file names, 0 for none
    out,            \* what -T or -G printed
    code,           \* exit status, -1 while running
    edits

world == <<disk, edits>>
vars == <<phase, cli, disk, conf, keys, bound, pid, pidfile, out, code, edits>>

-----------------------------------------------------------------------------
(* The command line.                                                       *)

\* Options that the command line has too.
Overridable == {"logingracetime", "x11forwarding", "strictmodes", "permitrootlogin",
                "allowagentforwarding", "addressfamily"}
\* The same, but printed as the file has them.
FromFile == {"maxstartups", "persourcemaxstartups", "sftp"}
Flags == {"-t", "-T", "-G", "-i", "-D", "-C", "-A"}

NoCli == [set |-> [o \in Overridable \cup FromFile |-> ""], flags |-> {}, ports |-> <<>>,
          keys |-> <<>>, certs |-> <<>>, given |-> <<>>, level |-> 0, quiet |-> FALSE, bad |-> FALSE]

\* One argument: -d and -q undo each other, the last value of an option
\* counts, and ports, keys, certificates and -o lines are collected.
ParseArg(c, a) ==
    CASE a.opt \in Flags -> [c EXCEPT !.flags = @ \cup {a.opt}]
      [] a.opt \in Overridable \cup FromFile -> [c EXCEPT !.set[a.opt] = a.val]
      [] a.opt = "-p" -> [c EXCEPT !.ports = Append(@, a.val)]
      [] a.opt = "-h" -> [c EXCEPT !.keys = Append(@, a.val)]
      [] a.opt = "-c" -> [c EXCEPT !.certs = Append(@, a.val)]
      [] a.opt = "-o" -> [c EXCEPT !.given = Append(@, a.val)]
      [] a.opt = "-q" -> [c EXCEPT !.quiet = TRUE, !.level = 0]
      [] a.opt = "-d" -> [c EXCEPT !.quiet = FALSE, !.level = IF @ = 3 THEN 3 ELSE @ + 1]
      [] OTHER -> [c EXCEPT !.bad = TRUE]

Parsed(line) == FoldLeft(ParseArg, NoCli, line)

Init ==
    /\ \E line \in CommandLines : cli = Parsed(line)
    /\ phase = "args" /\ disk \in Configs /\ conf = disk /\ keys = <<>> /\ bound = {}
    /\ pid = 1 /\ pidfile = 0 /\ out = <<>> /\ code = -1 /\ edits = 0

Asks(f) == f \in cli.flags

\* run returns.
Ends(status) == phase' = "over" /\ code' = status /\ bound' = {}
Goes(p) == phase' = p /\ UNCHANGED <<code, bound>>

ParseArgs ==
    /\ phase = "args"
    /\ IF cli.bad THEN Ends(1) ELSE Goes("config")
    /\ UNCHANGED <<cli, world, conf, keys, pid, pidfile, out>>

-----------------------------------------------------------------------------
(* The configuration.                                                      *)

\* The -o lines come first, so that they win; the file must parse, and so
\* must what is given with -o.
Effective(c, d) ==
    [d EXCEPT !.set = [o \in DOMAIN @ |->
        LET here == SelectSeq(c.given, LAMBDA g : g.opt = o) IN
        IF here # <<>> THEN Head(here).val ELSE @[o]],
              !.ok = @ /\ \A i \in DOMAIN c.given : c.given[i].opt \in DOMAIN d.set]

\* -C is refused without -T, also when -G is given.
LoadConfig ==
    /\ phase = "config"
    /\ conf' = Effective(cli, disk)
    /\ IF ~conf'.ok \/ (Asks("-C") /\ ~Asks("-T")) THEN Ends(1)
       ELSE IF Asks("-G") THEN Goes("dump") ELSE Goes("keys")
    /\ UNCHANGED <<cli, world, keys, pid, pidfile, out>>

\* What an option that nobody set stands for, where it is used.
Default ==
    [logingracetime |-> "120", x11forwarding |-> "no", strictmodes |-> "yes",
     permitrootlogin |-> "prohibit-password", allowagentforwarding |-> "yes", addressfamily |-> "any",
     maxstartups |-> "10:30:100", persourcemaxstartups |-> "none", sftp |-> "internal-sftp",
     x11displayoffset |-> "10", x11uselocalhost |-> "yes", clientaliveinterval |-> "0",
     clientalivecountmax |-> "3", streamlocalbindmask |-> "0177", unusedconnectiontimeout |-> "none",
     pubkeyauthentication |-> "yes", printmotd |-> "yes", printlastlog |-> "yes", permittty |-> "yes",
     permituserrc |-> "yes", permitemptypasswords |-> "no", compression |-> "yes", gatewayports |-> "no",
     usedns |-> "no", allowtcpforwarding |-> "yes", disableforwarding |-> "no",
     allowstreamlocalforwarding |-> "yes", streamlocalbindunlink |-> "no", exposeauthinfo |-> "no",
     warnweakcrypto |-> "yes", refuseconnection |-> "no", xauthlocation |-> "/usr/bin/xauth",
     pamservicename |-> "sshd", permittunnel |-> "no", permituserenvironment |-> "no",
     channeltimeout |-> "none", authenticationmethods |-> "any", permitopen |-> "any", permitlisten |-> "any"]

\* Of the command line, the file and the default, the first that says.
pick(o) == IF cli.set[o] # "" THEN cli.set[o] ELSE IF conf.set[o] # "" THEN conf.set[o] ELSE Default[o]

Ports == IF cli.ports # <<>> THEN cli.ports ELSE IF conf.ports # <<>> THEN conf.ports ELSE <<22>>

LogLevel == IF cli.quiet THEN 0 ELSE IF cli.level > 0 THEN 4 + cli.level ELSE conf.level

\* What the daemon goes by.
Used == [o \in DOMAIN Default |-> IF o \in Overridable \cup FromFile THEN pick(o) ELSE Default[o]]

\* dump_config has its own list of them.  The limits of a connection,
DumpLimits ==
    [addressfamily |-> "any", pamservicename |-> "sshd", logingracetime |-> "120",
     x11displayoffset |-> "10", clientaliveinterval |-> "0", clientalivecountmax |-> "3",
     streamlocalbindmask |-> "0177", unusedconnectiontimeout |-> "none",
     permitrootlogin |-> "prohibit-password"]
\* what is allowed or not,
DumpSwitches ==
    [pubkeyauthentication |-> "yes", printmotd |-> "yes", printlastlog |-> "yes", x11forwarding |-> "no",
     x11uselocalhost |-> "yes", permittty |-> "yes", permituserrc |-> "yes", strictmodes |-> "yes",
     permitemptypasswords |-> "no", compression |-> "yes", gatewayports |-> "no", usedns |-> "no",
     allowtcpforwarding |-> "yes", allowagentforwarding |-> "yes", disableforwarding |-> "no",
     allowstreamlocalforwarding |-> "yes", streamlocalbindunlink |-> "no", exposeauthinfo |-> "no",
     warnweakcrypto |-> "yes", refuseconnection |-> "no"]
\* files, commands and algorithms (those that have no default of one word are
\* left out),
DumpFiles == [xauthlocation |-> "/usr/bin/xauth"]
\* lists,
DumpLists ==
    [authenticationmethods |-> "any", channeltimeout |-> "none", sftp |-> "internal-sftp",
     maxstartups |-> "10:30:100", persourcemaxstartups |-> "none", permittunnel |-> "no"]
\* and what is printed with an own form for every kind of value.
DumpForms == [permitopen |-> "any", permitlisten |-> "any", permituserenvironment |-> "no"]

DumpDefault == DumpLimits @@ DumpSwitches @@ DumpFiles @@ DumpLists @@ DumpForms

\* What is printed for an option.  Those of FromFile are printed as the file
\* has them, whatever the command line says.
Dumped ==
    [o \in DOMAIN DumpDefault |->
        IF o \in Overridable /\ cli.set[o] # "" THEN cli.set[o]
        ELSE IF o \in Overridable \cup FromFile /\ conf.set[o] # "" THEN conf.set[o]
        ELSE DumpDefault[o]]

-----------------------------------------------------------------------------
(* Addresses.                                                              *)

Family(a) == a.family = pick("addressfamily") \/ pick("addressfamily") = "any"

\* Each ListenAddress on its own port or on all of them; without any, both
\* wildcard addresses; those of the wrong family are left out.
ListenSpecs ==
    IF conf.listen = <<>>
    THEN {[host |-> "::", family |-> "inet6"], [host |-> "0.0.0.0", family |-> "inet"]} \X ToSet(Ports)
    ELSE UNION {{[host |-> l.host, family |-> l.family]} \X (IF l.port > 0 THEN {l.port} ELSE ToSet(Ports)) :
                  l \in ToSet(conf.listen)}
listen_addrs == {a \in ListenSpecs : Family(a[1])}

\* The dump lists the addresses too, and fails without one.
Dump ==
    /\ phase = "dump"
    /\ IF listen_addrs = {} THEN Ends(1) /\ UNCHANGED out ELSE Ends(0) /\ out' = <<Dumped, Ports, LogLevel>>
    /\ UNCHANGED <<cli, world, conf, keys, pid, pidfile>>

-----------------------------------------------------------------------------
(* Host keys, and the files a login is decided with.                       *)

KeyFiles ==
    LET asked == cli.keys \o conf.keys
    IN  IF asked # <<>> THEN asked ELSE Present

\* A key that does not load is left out with a warning.
LoadedKeys == SelectSeq(KeyFiles, LAMBDA k : k \in Loadable)
CertFiles == ToSet(cli.certs \o conf.certs)

\* A key with a certificate is offered with it first and then by itself.
Offered ==
    FlattenSeq([i \in DOMAIN LoadedKeys |->
        LET k == LoadedKeys[i] IN
        IF CertOf[k] \in CertFiles THEN <<<<k, CertOf[k]>>, <<k, "">>>> ELSE <<<<k, "">>>>])

\* A certificate that does not load, or has no key here, is an error.
CertsFit == \A c \in CertFiles : c \in Loadable /\ \E i \in DOMAIN LoadedKeys : CertOf[LoadedKeys[i]] = c

LoadHostKeys ==
    /\ phase = "keys"
    /\ IF ~CertsFit \/ LoadedKeys = <<>> THEN Ends(1) /\ UNCHANGED keys
       ELSE keys' = Offered /\ Goes(IF Asks("-T") THEN "dump" ELSE "files")
    /\ UNCHANGED <<cli, world, conf, pid, pidfile, out>>

\* -A is for one literal user only; every authority and revocation file that
\* any block names must load; an address must be left.  That is all that -t
\* asks.
LoadFiles ==
    /\ phase = "files"
    /\ IF \/ Asks("-A") /\ ~conf.oneUser
          \/ ~(conf.files \subseteq Loadable)
          \/ listen_addrs = {}
       THEN Ends(1)
       ELSE Goes(IF Asks("-t") THEN "tested" ELSE IF Asks("-i") THEN "inetd" ELSE "bind")
    /\ UNCHANGED <<cli, world, conf, keys, pid, pidfile, out>>

Tested ==
    /\ phase = "tested" /\ Ends(0)
    /\ UNCHANGED <<cli, world, conf, keys, pid, pidfile, out>>

\* One connection, on the standard input: a socket, or bytes that two threads
\* carry to and from one.
ServeInetd ==
    /\ phase = "inetd" /\ (Ends(0) \/ Ends(255))
    /\ UNCHANGED <<cli, world, conf, keys, pid, pidfile, out>>

-----------------------------------------------------------------------------
(* Becoming the daemon.                                                    *)

\* Addresses that cannot be bound are passed over while one can; then the
\* knock sockets, all of which must be bound.
Bind ==
    /\ phase = "bind"
    /\ LET got == {a \in listen_addrs : a \notin Busy}
       IN  IF got = {} \/ ~conf.knock THEN Ends(1)
           ELSE bound' = got /\ phase' = "detach" /\ UNCHANGED code
    /\ UNCHANGED <<cli, world, conf, keys, pid, pidfile, out>>

\* The process that goes on is a child, unless -D or -d was given.
Stays == Asks("-D") \/ cli.level > 0
Detach ==
    /\ phase = "detach"
    /\ pid' = IF Stays THEN pid ELSE pid + 1
    /\ Goes("pidfile")
    /\ UNCHANGED <<cli, world, conf, keys, pidfile, out>>

\* Mutant of WritePid: the PID before the fork.
WritePidEarly ==
    /\ phase = "pidfile"
    /\ pidfile' = IF conf.pidfile THEN 1 ELSE pidfile
    /\ Goes("serve")
    /\ UNCHANGED <<cli, world, conf, keys, pid, out>>

\* The PID file, and READY for the service manager.
WritePid ==
    /\ phase = "pidfile"
    /\ pidfile' = IF conf.pidfile THEN pid ELSE pidfile
    /\ Goes("serve")
    /\ UNCHANGED <<cli, world, conf, keys, pid, out>>

\* SIGTERM: the loop ends and the file is removed.
Shutdown ==
    /\ phase = "serve" /\ Ends(0)
    /\ pidfile' = IF conf.pidfile THEN 0 ELSE pidfile
    /\ UNCHANGED <<cli, world, conf, keys, pid, out>>

\* SIGHUP: if the file parses, the program starts again in this process with
\* -D; its sockets close on the way.
Reload ==
    /\ phase = "serve" /\ Effective(cli, disk).ok
    /\ phase' = "config" /\ bound' = {} /\ UNCHANGED code
    /\ cli' = [cli EXCEPT !.flags = @ \cup {"-D"}]
    /\ UNCHANGED <<world, conf, keys, pid, pidfile, out>>

Edit ==
    /\ edits < MaxEdits /\ code = -1
    /\ \E d \in Configs : disk' = d
    /\ edits' = edits + 1
    /\ UNCHANGED <<phase, cli, conf, keys, bound, pid, pidfile, out, code>>

Next ==
    \/ ParseArgs \/ LoadConfig \/ Dump \/ LoadHostKeys \/ LoadFiles \/ Tested \/ ServeInetd
    \/ Bind \/ Detach \/ WritePid \/ Shutdown \/ Reload \/ Edit

Spec == Init /\ [][Next]_vars

-----------------------------------------------------------------------------
(* Properties.                                                             *)

Serving == phase = "serve"

\* -T and -G print "the effective configuration": for every option that both
\* lists have, set or not, what a daemon with this command line would go by,
\* but for the options of FromFile when the command line has them.
DumpTellsTruth ==
    out # <<>> => \A o \in DOMAIN Default : out[1][o] = Used[o] \/ (o \in FromFile /\ cli.set[o] # "")

\* Nothing listens, and -t does not say yes, before everything the
\* configuration names has been read (load_krls, load_ca_keys_file).
ReadBeforeServing ==
    bound # {} \/ (code = 0 /\ Asks("-t") /\ out = <<>>) =>
        \/ conf.files \subseteq Loadable /\ CertsFit /\ LoadedKeys # <<>>
        \/ Asks("-G")

\* While the daemon serves its PID file names it, also after it detached and
\* after SIGHUP replaced its image.
PidNamesDaemon == Serving /\ conf.pidfile => pidfile = pid
=============================================================================
