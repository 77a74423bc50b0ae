------------------------------ MODULE HostKeys ------------------------------
(***************************************************************************)
(* Which host keys a client trusts: the verifier of a key exchange         *)
(* (build_verifier in client.rs), the known_hosts file it reads and        *)
(* rewrites (known_hosts/), the questions of ssh (bin/common.rs),          *)
(* UpdateHostKeys (HostKeysUpdater in bin/ssh.rs), ssh-keygen -R and -H,   *)
(* programs that use the store through the C interface ("app") and ones    *)
(* that use the crate and may replace a changed key ("crate").  Several of *)
(* these run at the same time over one file.                               *)
(***************************************************************************)
EXTENDS Integers, Sequences, FiniteSets, SequencesExt, Functions

CONSTANTS
    Procs,          \* the programs
    Setups,         \* what each may be, functions of Procs
    Files,          \* what the known_hosts file may hold at first
    Globals,        \* the lines of the global files and of KnownHostsCommand
    RevokedKeys,    \* of RevokedHostKeys
    Offers,         \* what a server may list in hostkeys-00, a set of sets of keys
    MaxSteps        \* bound on what an application does to its store

VARIABLES
    setup,          \* [tool, policy, pin, name, ip, strict, hash, local, dns, servers, mayUpdate, saves]
    first,          \* the file as it was at first
    disk, old,      \* known_hosts and known_hosts.old
    pc, store, given, ipFound,   \* of every program: where it is, its copy of the
                    \* file, the key the server showed, what the lookups said
    mismatched,     \* the key was let through although another is recorded
    forced,         \* what accepted it before the files were asked: "", "loopback" or "dns"
    updater,        \* HostKeysUpdater: [at, offered, attached, untrusted, plan, kh]
    vouched,        \* <<name, key>> that a user, a policy or a proof has vouched for
    steps

perProc == <<pc, store, given, ipFound, mismatched, forced, updater>>
vars == <<setup, first, disk, old, perProc, vouched, steps>>

S(p) == setup[p]
NoKey == [type |-> "", id |-> ""]
NoUpdate == [at |-> "off", offered |-> {}, attached |-> FALSE, untrusted |-> FALSE,
             plan |-> [new |-> {}, gone |-> {}, blocked |-> FALSE], kh |-> <<>>]

Init ==
    /\ setup \in Setups /\ first \in Files /\ disk = first /\ old = <<>>
    /\ pc = [p \in Procs |-> "start"] /\ store = [p \in Procs |-> <<>>]
    /\ given = [p \in Procs |-> [key |-> NoKey, ca |-> NoKey, good |-> FALSE]]
    /\ ipFound = [p \in Procs |-> ""]
    /\ mismatched = [p \in Procs |-> FALSE] /\ forced = [p \in Procs |-> ""]
    /\ updater = [p \in Procs |-> NoUpdate]
    /\ vouched = {} /\ steps = 0

-----------------------------------------------------------------------------
(* The file: lines [marker, hashed, names, key].  A name is a host and a   *)
(* port; a pattern of a line may be negated and its host may be "*".       *)

Pat(n) == [neg |-> FALSE, host |-> n.host, port |-> n.port]
Wild(l) == \E i \in DOMAIN l.names : l.names[i].neg \/ l.names[i].host = "*"

\* A line that is not understood is kept; one that is not text counts when it
\* revokes, and only then.
parse_line(l) == l.marker # "junk" /\ l.marker # "rawrevoked"

pattern_match_inner(q, n) == q.port = n.port /\ q.host \in {"*", n.host}
patterns_match(l, n) ==
    /\ \E i \in DOMAIN l.names : ~l.names[i].neg /\ pattern_match_inner(l.names[i], n)
    /\ ~\E i \in DOMAIN l.names : l.names[i].neg /\ pattern_match_inner(l.names[i], n)

\* The token of a hashed name says nothing of "*" or "!".
check_hashed(l, n) == l.names = <<Pat(n)>>
host_field_matches(l, n) == IF l.hashed THEN check_hashed(l, n) ELSE patterns_match(l, n)

revoked_entries(f) == {l \in Range(f) : l.marker \in {"revoked", "rawrevoked"}}
find(f, n) == {l \in Range(f) : parse_line(l) /\ host_field_matches(l, n)}
PlainAt(n) == [n EXCEPT !.port = 22]
plain_host_has_key(f, n, k) == \E l \in find(f, PlainAt(n)) : l.marker = "" /\ l.key = k

lookup(f, n, k) ==
    LET ours == {l \in find(f, n) : l.marker = ""}
    IN  IF \E l \in revoked_entries(f) : l.key = k /\ host_field_matches(l, n) THEN "revoked"
        ELSE IF \E l \in ours : l.key = k THEN "match"
        ELSE IF ours # {} THEN "mismatch"
        ELSE IF n.port # 22 /\ plain_host_has_key(f, n, k) THEN "match" ELSE "unknown"

combine_lookups(a, b) ==
    CHOOSE r \in {a, b} : \A s \in {"revoked", "match", "mismatch"} :
        s \in {a, b} => r = s \/ (s = "match" /\ r = "revoked") \/ (s = "mismatch" /\ r # "unknown")

has_ca_for(f, n, ca) ==
    \E l \in find(f, n) \cup (IF n.port # 22 THEN find(f, PlainAt(n)) ELSE {}) : l.marker = "ca" /\ l.key = ca
revokes_cert(f, n, g) == \E l \in revoked_entries(f) : host_field_matches(l, n) /\ l.key \in {g.key, g.ca}

\* Kind, dates, critical options, and the signature and principal of an
\* authority that is listed for the host.
verify_host_cert(f, n, g) == ~revokes_cert(f, n, g) /\ g.good /\ has_ca_for(f, n, g.ca)

Line(names, k, hash) == [marker |-> "", hashed |-> hash, names |-> names, key |-> k]
try_add(f, n, k, hash) == Append(f, Line(<<Pat(n)>>, k, hash))
try_add_names(f, ns, k) == Append(f, Line([i \in DOMAIN ns |-> Pat(ns[i])], k, FALSE))
\* Mutant of remove_exact: every line of the host that has no marker.
remove_exactShared(f, n) == SelectSeq(f, LAMBDA l : ~(parse_line(l) /\ l.marker = "" /\ host_field_matches(l, n)))

\* Only the lines that name this host and nothing else.
remove_exact(f, n) ==
    SelectSeq(f, LAMBDA l : ~(parse_line(l) /\ l.marker = "" /\ IF l.hashed THEN check_hashed(l, n) ELSE l.names = <<Pat(n)>>))
remove(f, n) == SelectSeq(f, LAMBDA l : ~(parse_line(l) /\ host_field_matches(l, n)))

\* One line for each name.
Split(l) == [i \in DOMAIN l.names |-> [l EXCEPT !.hashed = TRUE, !.names = <<l.names[i]>>]]
hash_in_place(f) == FlattenSeq([i \in DOMAIN f |-> IF parse_line(f[i]) /\ ~f[i].hashed THEN Split(f[i]) ELSE <<f[i]>>])

\* What UpdateHostKeys would change, unless a line is not simple or a key is
\* known by another name.
host_keys_update(f, n, offered) ==
    LET ours == find(f, n)
        simple == {l \in ours : l.marker = "" /\ (l.hashed \/ (Len(l.names) = 1 /\ ~Wild(l)))}
    IN  [new |-> offered \ {l.key : l \in simple}, gone |-> {l.key : l \in simple} \ offered,
         blocked |-> ours # simple \/ \E l \in Range(f) : /\ parse_line(l) /\ l.marker = ""
                                                          /\ l \notin ours /\ l.key \in offered]

update_host_keys(f, n, gone, add, hash) ==
    SelectSeq(f, LAMBDA l : ~(parse_line(l) /\ l.marker = "" /\ l.key \in gone /\ host_field_matches(l, n)))
        \o [i \in 1..Cardinality(add) |-> Line(<<Pat(n)>>, SetToSeq(add)[i], hash)]

\* A whole new file in the place of the old one.  A failure only warns.
save(p, f) == disk' = IF S(p).saves THEN f ELSE disk

-----------------------------------------------------------------------------
(* Before the connection.                                                  *)

IsClient(p) == S(p).tool \in {"ssh", "app", "crate"}

\* The store is read once: by ssh when it starts, by an application when it
\* likes.
build_host_key_policy(p) ==
    /\ IsClient(p) /\ pc[p] = "start"
    /\ pc' = [pc EXCEPT ![p] = "loaded"] /\ store' = [store EXCEPT ![p] = disk]
    /\ UNCHANGED <<setup, first, disk, old, given, ipFound, mismatched, forced, updater, vouched, steps>>

\* Algorithms of the keys that are recorded for the host come first; the server
\* shows its key of the first that it has.
Known(p) == {l.key.type : l \in {m \in find(store[p], S(p).name) \cup find(Globals, S(p).name) : m.marker = ""}}
prioritize_known_host_key_algorithms(p) ==
    LET known == {g \in S(p).servers : g.key.type \in Known(p)}
    IN  IF known = {} THEN S(p).servers ELSE known

-----------------------------------------------------------------------------
(* The verifier.                                                           *)

\* RevokedHostKeys knows the key, the authority, or the certificate.
is_revoked(g) == g.key \in RevokedKeys \/ g.ca \in RevokedKeys

\* SSHFP records: [alg, ok]; one that differs spoils those that match.
check_sshfp(p, k) ==
    LET mine == {r \in S(p).dns.records : r.alg = k.type}
    IN  [found |-> S(p).dns.records # {}, matched |-> mine # {} /\ \A r \in mine : r.ok,
         secure |-> S(p).dns.validated]

\* The loopback, and DNS when it is signed and the user said so.
pre_check(p, k) ==
    LET v == check_sshfp(p, k)
    IN  CASE S(p).local -> "loopback"
          [] ~S(p).local /\ v.found /\ v.matched /\ v.secure /\ S(p).dns.mode = "yes" -> "dns"
          [] OTHER -> ""

\* A certificate counts when an authority is listed for the host; if none is,
\* the key in it is looked up like any other.
AllFiles(p) == <<store[p], Globals>>
HasCa(p, g) == g.ca # NoKey /\ \E i \in 1..2 : has_ca_for(AllFiles(p)[i], S(p).name, g.ca)
CertVerdict(p, g) ==
    IF \E i \in 1..2 : revokes_cert(AllFiles(p)[i], S(p).name, g) THEN "rejected"
    ELSE IF ~HasCa(p, g) THEN "plain"
    ELSE IF \E i \in 1..2 : verify_host_cert(AllFiles(p)[i], S(p).name, g) THEN "connected" ELSE "rejected"

Looked(p, n, k) == combine_lookups(lookup(store[p], n, k), lookup(Globals, n, k))

\* CheckHostIP, not for a certificate.
IpLooked(p, g) == IF S(p).ip.host = "" \/ g.ca # NoKey THEN "" ELSE Looked(p, S(p).ip, g.key)

\* What an application chose: reject, accept or its own question.
pcssh_client_connect_known_hosts(p) ==
    CASE S(p).strict = "ask" -> "ask" [] S(p).strict = "no" -> "accept" [] OTHER -> "rejected"

\* What ssh says of an unknown key, of a changed one and of a changed address,
\* by StrictHostKeyChecking.
OnUnknown(p) ==
    CASE S(p).tool \in {"app", "crate"} -> pcssh_client_connect_known_hosts(p)
      [] S(p).strict = "ask" -> "ask" [] S(p).strict = "yes" -> "rejected" [] OTHER -> "accept"
on_mismatch(p) ==
    CASE S(p).tool = "ssh" /\ S(p).strict = "no" -> "warn"
      [] S(p).tool = "crate" /\ S(p).strict = "no" -> "accept"
      [] S(p).tool = "crate" /\ S(p).strict = "ask" -> "askchanged"
      [] OTHER -> "rejected"
openssh_address_change_action(p) ==
    CASE S(p).strict = "ask" -> "ask" [] S(p).strict = "no" -> "accept" [] OTHER -> "rejected"

\* After the host's own key: an address that is recorded with another one.
AfterHost(p, ip) == IF ip # "mismatch" THEN "connected"
                    ELSE CASE openssh_address_change_action(p) = "ask" -> "askip"
                           [] openssh_address_change_action(p) = "accept" -> "connected"
                           [] OTHER -> "rejected"

Names(p, ip) == IF ip = "unknown" THEN <<S(p).name, S(p).ip>> ELSE <<S(p).name>>
Record(p, f, k, ip) ==
    IF ip = "unknown" /\ S(p).hash THEN try_add(try_add(f, S(p).name, k, TRUE), S(p).ip, k, TRUE)
    ELSE IF ip = "unknown" THEN try_add_names(f, Names(p, ip), k)
    ELSE try_add(f, S(p).name, k, S(p).hash)

\* A key is accepted: it goes to the store and the store to the file.
Accept(p, f, names, k) ==
    /\ store' = [store EXCEPT ![p] = f] /\ save(p, f)
    /\ vouched' = vouched \cup {<<n, k>> : n \in names}

Quiet == UNCHANGED <<store, disk, vouched>>

\* Passwords are off from here on.
warned(p) == mismatched' = [mismatched EXCEPT ![p] = TRUE]

\* A changed key that the policy or its question accepted takes the place of
\* the host's own lines.
Rotate(p, k) ==
    Accept(p, try_add(remove_exact(store[p], S(p).name), S(p).name, k, S(p).hash), {S(p).name}, k)

\* The first exchange, up to the question, if there is one.
Verify(p, g) ==
    LET n == S(p).name
        cert == CertVerdict(p, g)
        l == Looked(p, n, g.key)
        ip == IpLooked(p, g)
        Goes(to) == pc' = [pc EXCEPT ![p] = to]
    IN  /\ IsClient(p) /\ pc[p] = "loaded" /\ g \in prioritize_known_host_key_algorithms(p)
        /\ given' = [given EXCEPT ![p] = g] /\ ipFound' = [ipFound EXCEPT ![p] = ip]
        /\ forced' = [forced EXCEPT ![p] = IF is_revoked(g) THEN "" ELSE pre_check(p, g.key)]
        /\ \/ S(p).policy = "any" /\ Goes("connected") /\ Quiet /\ UNCHANGED mismatched
           \/ /\ S(p).policy = "pinned" /\ Goes(IF g.key = S(p).pin THEN "connected" ELSE "rejected")
              /\ Quiet /\ UNCHANGED mismatched
           \/ /\ S(p).policy = "known"
              /\ \/ /\ is_revoked(g) /\ Goes("rejected") /\ Quiet /\ UNCHANGED mismatched
                 \/ /\ ~is_revoked(g) /\ pre_check(p, g.key) # "" /\ Goes("connected") /\ Quiet /\ UNCHANGED mismatched
                 \/ /\ ~is_revoked(g) /\ pre_check(p, g.key) = ""
                    /\ \/ g.ca # NoKey /\ cert # "plain" /\ Goes(cert) /\ Quiet /\ UNCHANGED mismatched
                       \/ /\ g.ca = NoKey \/ cert = "plain"
                          /\ CASE l = "revoked" -> Goes("rejected") /\ Quiet /\ UNCHANGED mismatched
                               [] l = "match" ->
                                    /\ Goes(AfterHost(p, ip)) /\ UNCHANGED mismatched
                                    /\ IF ip = "unknown" THEN Accept(p, try_add(store[p], S(p).ip, g.key, S(p).hash), {S(p).ip}, g.key)
                                       ELSE Quiet
                               [] l = "mismatch" ->
                                    CASE on_mismatch(p) = "warn" -> Goes("connected") /\ warned(p) /\ Quiet
                                      [] on_mismatch(p) = "accept" ->
                                            Goes("connected") /\ Rotate(p, g.key) /\ UNCHANGED mismatched
                                      [] OTHER -> Goes(on_mismatch(p)) /\ Quiet /\ UNCHANGED mismatched
                               [] l = "unknown" ->
                                    /\ UNCHANGED mismatched
                                    /\ CASE OnUnknown(p) = "ask" -> Goes("ask") /\ Quiet
                                         [] OnUnknown(p) = "accept" ->
                                              /\ Goes(AfterHost(p, ip))
                                              /\ Accept(p, Record(p, store[p], g.key, ip), Range(Names(p, ip)), g.key)
                                         [] OTHER -> Goes("rejected") /\ Quiet
        /\ UNCHANGED <<setup, first, old, updater, steps>>

\* The answer: yes or the fingerprint, no or a closed terminal.  The store was
\* not locked meanwhile.
ask_unknown_host(p, yes) ==
    LET k == given[p].key IN
    /\ pc[p] = "ask"
    /\ IF yes THEN /\ pc' = [pc EXCEPT ![p] = AfterHost(p, ipFound[p])]
                   /\ Accept(p, Record(p, store[p], k, ipFound[p]), Range(Names(p, ipFound[p])), k)
       ELSE pc' = [pc EXCEPT ![p] = "rejected"] /\ Quiet
    /\ UNCHANGED <<setup, first, old, given, ipFound, mismatched, forced, updater, steps>>

\* The same for a changed key; its address is not looked at.
ask_changed_host(p, yes) ==
    /\ pc[p] = "askchanged"
    /\ IF yes THEN pc' = [pc EXCEPT ![p] = "connected"] /\ Rotate(p, given[p].key)
       ELSE pc' = [pc EXCEPT ![p] = "rejected"] /\ Quiet
    /\ UNCHANGED <<setup, first, old, given, ipFound, mismatched, forced, updater, steps>>

confirm_on_tty(p, yes) ==
    /\ pc[p] = "askip" /\ pc' = [pc EXCEPT ![p] = IF yes THEN "connected" ELSE "rejected"]
    /\ UNCHANGED <<setup, first, disk, old, store, given, ipFound, mismatched, forced, updater, vouched, steps>>

\* A later exchange shows the key of the first one, or fails.
Rekey(p, g) ==
    /\ pc[p] = "connected" /\ g \in S(p).servers
    /\ pc' = [pc EXCEPT ![p] = IF g = given[p] THEN "connected" ELSE "rejected"]
    /\ UNCHANGED <<setup, first, disk, old, store, given, ipFound, mismatched, forced, updater, vouched, steps>>

-----------------------------------------------------------------------------
(* UpdateHostKeys.                                                         *)

\* Not over a key that was not trusted, and not over the loopback's.
for_connection(p) == S(p).tool = "ssh" /\ S(p).mayUpdate /\ ~mismatched[p] /\ forced[p] # "loopback"

MaybeStart(u) == IF u.offered # {} /\ u.attached /\ u.at = "off" /\ ~u.untrusted THEN [u EXCEPT !.at = "started"] ELSE u

\* The server's list, before or after the session shares the connection.
received(p) ==
    /\ pc[p] = "connected" /\ for_connection(p) /\ updater[p].offered = {}
    /\ \E ks \in Offers : updater' = [updater EXCEPT ![p] = MaybeStart([@ EXCEPT !.offered = ks])]
    /\ UNCHANGED <<setup, first, disk, old, pc, store, given, ipFound, mismatched, forced, vouched, steps>>
attach(p) ==
    /\ pc[p] = "connected" /\ for_connection(p) /\ ~updater[p].attached
    /\ updater' = [updater EXCEPT ![p] = MaybeStart([@ EXCEPT !.attached = TRUE, !.untrusted = mismatched[p]])]
    /\ UNCHANGED <<setup, first, disk, old, pc, store, given, ipFound, mismatched, forced, vouched, steps>>

\* The file is read and the server asked to prove what is new.
update(p) ==
    LET plan == host_keys_update(disk, S(p).name, updater[p].offered)
        nothing == plan.blocked \/ (plan.new = {} /\ plan.gone = {})
    IN  /\ updater[p].at = "started"
        /\ updater' = [updater EXCEPT ![p].at = IF nothing THEN "done" ELSE "proving", ![p].plan = plan, ![p].kh = disk]
        /\ UNCHANGED <<setup, first, disk, old, pc, store, given, ipFound, mismatched, forced, vouched, steps>>

\* An RSA signature of another kind is passed over.
Learned(p, says) == {k \in updater[p].plan.new : says[k] = "good"}

\* Its signatures; one that is wrong, or a refusal, ends it.  The file as it was
\* when it was read, changed, replaces what is there now.
proved(p) ==
    /\ updater[p].at = "proving"
    /\ \E says \in [updater[p].plan.new -> {"good", "bad", "odd"}] :
        LET add == Learned(p, says)
            all == ~\E k \in updater[p].plan.new : says[k] = "bad"
        IN  /\ updater' = [updater EXCEPT ![p].at = "done"]
            /\ IF all /\ ~updater[p].untrusted
               THEN /\ save(p, update_host_keys(updater[p].kh, S(p).name, updater[p].plan.gone, add, S(p).hash))
                    /\ vouched' = vouched \cup {<<S(p).name, k>> : k \in {j \in add : says[j] = "good"}}
               ELSE UNCHANGED <<disk, vouched>>
    /\ UNCHANGED <<setup, first, old, pc, store, given, ipFound, mismatched, forced, steps>>

-----------------------------------------------------------------------------
(* ssh-keygen -R and -H.                                                   *)

kh_match(l, n) ==
    IF l.hashed THEN check_hashed(l, n)
    ELSE /\ \E i \in DOMAIN l.names : ~l.names[i].neg /\ (l.names[i].host = "*" \/ l.names[i] = Pat(n))
         /\ ~\E i \in DOMAIN l.names : l.names[i].neg /\ (l.names[i].host = "*" \/ [l.names[i] EXCEPT !.neg = FALSE] = Pat(n))

\* Lines with a marker stay.
Dropped(l, n) == l.marker = "" /\ kh_match(l, n)

kh_hash_line(l) == IF l.hashed \/ Wild(l) \/ l.marker # "" THEN <<l>> ELSE Split(l)

Rewritten(p, f) ==
    IF S(p).tool = "remove" THEN SelectSeq(f, LAMBDA l : ~Dropped(l, S(p).name))
    ELSE FlattenSeq([i \in DOMAIN f |-> kh_hash_line(f[i])])

\* A line that cannot be read stops it; -R of a host that is not there changes
\* nothing.
KeygenRead(p) ==
    LET junk == \E i \in DOMAIN disk : ~parse_line(disk[i])
        new == Rewritten(p, disk)
    IN  /\ S(p).tool \in {"remove", "hash"} /\ pc[p] = "start"
        /\ store' = [store EXCEPT ![p] = new]
        /\ pc' = [pc EXCEPT ![p] = IF junk \/ (S(p).tool = "remove" /\ new = disk) THEN "over" ELSE "unlink"]
        /\ UNCHANGED <<setup, first, disk, old, given, ipFound, mismatched, forced, updater, vouched, steps>>

\* kh_replace: known_hosts.old goes, becomes a second name of the file, and the
\* new file takes its place.
kh_replace(p) ==
    /\ S(p).tool \in {"remove", "hash"} /\ pc[p] \in {"unlink", "link", "rename"}
    /\ pc' = [pc EXCEPT ![p] = CASE @ = "unlink" -> "link" [] @ = "link" -> "rename" [] OTHER -> "over"]
    /\ old' = CASE pc[p] = "unlink" -> <<>> [] pc[p] = "link" -> disk [] OTHER -> old
    /\ disk' = IF pc[p] = "rename" THEN store[p] ELSE disk
    /\ UNCHANGED <<setup, first, store, given, ipFound, mismatched, forced, updater, vouched, steps>>

-----------------------------------------------------------------------------
(* An application and its handle on a store.                               *)

AppChange(p, f) ==
    /\ S(p).tool = "app" /\ pc[p] \in {"loaded", "connected"} /\ steps < MaxSteps
    /\ steps' = steps + 1 /\ store' = [store EXCEPT ![p] = f]
    /\ UNCHANGED <<setup, first, old, pc, given, ipFound, mismatched, forced, updater>>

pcssh_known_hosts_add(p) ==
    \E g \in S(p).servers :
        /\ AppChange(p, try_add(store[p], S(p).name, g.key, S(p).hash))
        /\ vouched' = vouched \cup {<<S(p).name, g.key>>} /\ UNCHANGED disk
pcssh_known_hosts_remove(p) == AppChange(p, remove(store[p], S(p).name)) /\ UNCHANGED <<disk, vouched>>
pcssh_known_hosts_hash_in_place(p) == AppChange(p, hash_in_place(store[p])) /\ UNCHANGED <<disk, vouched>>
pcssh_known_hosts_save(p) ==
    AppChange(p, store[p]) /\ save(p, store[p]) /\ UNCHANGED vouched

Next ==
    \E p \in Procs :
        \/ build_host_key_policy(p)
        \/ \E g \in S(p).servers : Verify(p, g) \/ Rekey(p, g)
        \/ \E yes \in BOOLEAN : ask_unknown_host(p, yes) \/ ask_changed_host(p, yes) \/ confirm_on_tty(p, yes)
        \/ received(p) \/ attach(p) \/ update(p) \/ proved(p)
        \/ KeygenRead(p) \/ kh_replace(p)
        \/ pcssh_known_hosts_add(p) \/ pcssh_known_hosts_remove(p)
        \/ pcssh_known_hosts_hash_in_place(p) \/ pcssh_known_hosts_save(p)

Spec == Init /\ [][Next]_vars

-----------------------------------------------------------------------------
(* Properties.                                                             *)

AllNames == {S(p).name : p \in Procs} \cup {S(p).ip : p \in Procs}
AllKeys == UNION ({{g.key : g \in S(p).servers} : p \in Procs} \cup Offers)

\* Whoever rewrites the file, and from whatever copy: a key that it trusts for
\* a name was trusted there at first, or a user, the policy or a proof of the
\* server (hostkeys-prove) vouched for it under that name.
KeysVouched ==
    \A n \in AllNames, k \in AllKeys :
        lookup(disk, n, k) = "match" =>
            lookup(first, n, k) = "match" \/ <<n, k>> \in vouched \/ <<PlainAt(n), k>> \in vouched

\* A key that the files revoke at first is never accepted, whatever was
\* removed, hashed, added or updated meanwhile by ssh and ssh-keygen, except
\* over the loopback or by signed DNS records (pre_check).
RevokedStaysOut ==
    steps = 0 => \A p \in Procs :
        pc[p] \in {"connected", "askip"} /\ S(p).policy = "known" /\ forced[p] = "" =>
            /\ lookup(first, S(p).name, given[p].key) # "revoked"
            /\ lookup(Globals, S(p).name, given[p].key) # "revoked" /\ ~is_revoked(given[p])

\* A host that no program deals with keeps what the file said of it, trusted or
\* revoked, also on lines it shares with the hosts that are dealt with: a key
\* accepted, replaced (remove_exact) or updated, and ssh-keygen -H, over stale
\* copies too.  -R and the C interface's remove and hash_in_place do take
\* such lines.
Bystanders ==
    LET named == UNION {{[host |-> q.host, port |-> q.port] : q \in Range(l.names)} : l \in Range(first)}
    IN  {n \in named : n.host # "*" /\ n \notin AllNames /\ PlainAt(n) \notin AllNames}
BystandersKept ==
    (steps = 0 /\ \A p \in Procs : S(p).tool # "remove") =>
        \A n \in Bystanders, k \in {l.key : l \in Range(first)} :
            lookup(first, n, k) \in {"match", "revoked"} => lookup(disk, n, k) = lookup(first, n, k)

=============================================================================
