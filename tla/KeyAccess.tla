----------------------------- MODULE KeyAccess ------------------------------
(***************************************************************************)
(* What sshd's authenticator decides about one user's keys (bin/sshd.rs):  *)
(* the account lists, the authorized_keys files under StrictModes, the     *)
(* AuthorizedKeysCommand, certificates with their principals, revocation,  *)
(* and the restrictions the authorising line puts on the session.  The     *)
(* files and the command's output change while the connection lasts; the   *)
(* authenticator caches what it has read.                                  *)
(***************************************************************************)
EXTENDS Naturals, Sequences, SequencesExt, FiniteSets

CONSTANTS
  Policies,      \* the account lists and the trust the configuration gives
  Contents,      \* what the authorized_keys file may hold (sequences of lines)
  CommandSays,   \* what AuthorizedKeysCommand may print (sequences of lines)
  FileStates,    \* owner and modes of the file and of the directories above it
  Keys,          \* plain keys
  Certs, Info,   \* certificates and what each says
  User, Root,
  MaxTime, MaxAttempts

VARIABLES policy, disk, mode, command, now,     \* the world
          keyCache, commandCache, accepted,     \* LocalAuthenticator
          last,                                 \* history: the last verdict and its ground
          attempts
vars == <<policy, disk, mode, command, now, keyCache, commandCache, accepted, last, attempts>>

Unread == <<"unread">>
NoOptions == "none"

-----------------------------------------------------------------------------
(* user_host_list_matches: patterns in order, a negated hit ends it.       *)
ListMatches(list) ==
  LET negated == {i \in DOMAIN list : list[i].neg /\ list[i].hit}
  IN  negated = {} /\ \E i \in DOMAIN list : ~list[i].neg /\ list[i].hit

(* access_allowed: the account, then DenyUsers, AllowUsers, DenyGroups and *)
(* AllowGroups, each only if it is set.                                    *)
AccessAllowed(p) ==
  /\ ~p.refused
  /\ ~(p.denyUsers # <<>> /\ ListMatches(p.denyUsers))
  /\ p.allowUsers # <<>> => ListMatches(p.allowUsers)
  /\ ~p.inDenyGroups
  /\ p.allowGroups => p.inAllowGroups

(* check_md_strict: a regular file and every directory above it owned by   *)
(* root or the user and writable by no one else.                           *)
StrictOk(f) ==
  /\ f.regular /\ ~f.writable /\ f.owner \in {Root, User}
  /\ \A i \in DOMAIN f.dirs : f.dirs[i].owner \in {Root, User} /\ ~f.dirs[i].writable

(* load_user_authorized_keys: an unreadable or insecure file adds nothing. *)
LoadAuthorizedKeys == IF StrictOk(mode) THEN disk ELSE <<>>

(* resolved_authorized_keys: read once for the connection.                 *)
Resolved == IF keyCache = Unread THEN LoadAuthorizedKeys ELSE keyCache

(* command_keys through run_cached: one run per command line, which names  *)
(* the key.                                                                *)
CommandKeys(b) == IF b \in DOMAIN commandCache THEN commandCache[b] ELSE command
Cached(b) == [x \in DOMAIN commandCache \cup {b} |-> IF x = b THEN CommandKeys(b) ELSE commandCache[x]]

(* key_line_applies: from="" admits the peer and expiry-time is ahead.     *)
LineApplies(line) == line.from /\ (line.expiry = 0 \/ now < line.expiry)

(* The first line that matches and applies, 0 if there is none.            *)
FirstLine(lines, match(_)) ==
  LET hits == {i \in DOMAIN lines : match(lines[i]) /\ LineApplies(lines[i])}
  IN  IF hits = {} THEN 0 ELSE CHOOSE i \in hits : \A j \in hits : i <= j

KeyLine(lines, k) == FirstLine(lines, LAMBDA l : l.kind = "key" /\ l.blob = k)

(* key_authorized: the files first, then the command.                      *)
KeyAuthorized(k) ==
  LET own == KeyLine(Resolved, k)
      more == KeyLine(CommandKeys(k), k)
  IN  CASE own # 0 -> [ok |-> TRUE, opts |-> Resolved[own].opts, asked |-> FALSE]
        [] own = 0 /\ more # 0 -> [ok |-> TRUE, opts |-> CommandKeys(k)[more].opts, asked |-> TRUE]
        [] OTHER -> [ok |-> FALSE, opts |-> NoOptions, asked |-> TRUE]

(* principals_match_option: principals="" on the line, or the login name.  *)
PrincipalOnLine(line, cert) ==
  IF line.principals = {} THEN User \in Info[cert].principals ELSE line.principals \cap Info[cert].principals # {}

\* Mutant of PrincipalLine: the options of the line are not looked at.
PrincipalLineBare(cert) ==
  [ok |-> \/ policy.principals = <<>> /\ User \in Info[cert].principals
          \/ policy.principals # <<>> /\ \E l \in Range(policy.principals[1]) : l.blob \in Info[cert].principals,
   opts |-> NoOptions]

(* cert_principal_line: the first line of the principals file and of what  *)
(* the principals command prints (both read once, and not changing here)   *)
(* that names a principal of the certificate and applies, with its options;*)
(* the login name where neither is configured.                             *)
PrincipalLine(cert) ==
  IF policy.principals = <<>>
  THEN [ok |-> User \in Info[cert].principals, opts |-> NoOptions]
  ELSE LET lines == policy.principals[1]
           i == FirstLine(lines, LAMBDA l : l.blob \in Info[cert].principals)
       IN  [ok |-> i # 0, opts |-> IF i = 0 THEN NoOptions ELSE lines[i].opts]

(* cert_trusted's look at the revocation list: the certificate, by serial  *)
(* or key id, and the authority's key.                                     *)
CertRevoked(cert) == cert \in policy.revokedCerts \/ Info[cert].ca \in policy.revokedKeys

(* cert_trusted                                                            *)
CertTrusted(cert) ==
  LET lines == Resolved \o CommandKeys(cert)
      i == FirstLine(lines, LAMBDA l : l.kind = "ca" /\ l.blob = Info[cert].ca /\ PrincipalOnLine(l, cert))
      principal == PrincipalLine(cert)
      global == Info[cert].ca \in policy.trustedCAs /\ principal.ok
  IN  IF CertRevoked(cert) THEN [ok |-> FALSE, opts |-> accepted, asked |-> FALSE]
      ELSE IF i = 0 /\ ~global THEN [ok |-> FALSE, opts |-> accepted, asked |-> TRUE]
      ELSE [ok |-> Info[cert].sourceOk,
            opts |-> IF i # 0 THEN lines[i].opts ELSE principal.opts, asked |-> TRUE]

-----------------------------------------------------------------------------
Init ==
  /\ policy \in Policies
  /\ disk \in Contents /\ mode \in FileStates /\ command \in CommandSays
  /\ now = 0 /\ attempts = 0
  /\ keyCache = Unread /\ commandCache = <<>> /\ accepted = NoOptions
  /\ last = [verdict |-> "none"]

(* evaluate, publickey: everything is looked at before the verdict, and    *)
(* the caches stay warm whatever it is.  A revoked blob is not looked up.  *)
Evaluate(blob, cert) ==
  /\ attempts < MaxAttempts /\ attempts' = attempts + 1
  /\ LET key == IF cert THEN Info[blob].key ELSE blob
         revoked == key \in policy.revokedKeys
         e == IF cert THEN CertTrusted(blob) ELSE KeyAuthorized(blob)
         allow == AccessAllowed(policy) /\ ~revoked /\ e.ok /\ ~policy.rootDenied
     IN  /\ keyCache' = IF revoked \/ (cert /\ CertRevoked(blob)) THEN keyCache ELSE Resolved
         /\ commandCache' = IF ~revoked /\ e.asked THEN Cached(blob) ELSE commandCache
         /\ accepted' = IF revoked THEN accepted ELSE e.opts
         /\ last' = [verdict |-> IF allow THEN "accept" ELSE "reject", blob |-> blob,
                     cert |-> cert, opts |-> accepted', at |-> now]
  /\ UNCHANGED <<policy, disk, mode, command, now>>

(* key_restrictions: the options of the accepted attempt, taken.           *)
KeyRestrictions ==
  /\ last.verdict = "accept" /\ accepted # NoOptions
  /\ accepted' = NoOptions
  /\ UNCHANGED <<policy, disk, mode, command, now, keyCache, commandCache, last, attempts>>

(* The world moves: the file is edited, its modes change, the command's    *)
(* answer changes, time passes.                                            *)
Edit ==
  /\ \E d \in Contents, m \in FileStates, c \in CommandSays : disk' = d /\ mode' = m /\ command' = c
  /\ UNCHANGED <<policy, now, keyCache, commandCache, accepted, last, attempts>>
Tick ==
  /\ now < MaxTime /\ now' = now + 1
  /\ UNCHANGED <<policy, disk, mode, command, keyCache, commandCache, accepted, last, attempts>>

Next ==
  \/ \E k \in Keys : Evaluate(k, FALSE)
  \/ \E c \in Certs : Evaluate(c, TRUE)
  \/ KeyRestrictions \/ Edit \/ Tick
Spec == Init /\ [][Next]_vars
-----------------------------------------------------------------------------
Accepted == last.verdict = "accept"
Seen == (IF keyCache = Unread THEN <<>> ELSE keyCache)
        \o (IF last.blob \in DOMAIN commandCache THEN commandCache[last.blob] ELSE <<>>)
Live(l) == l.from /\ (l.expiry = 0 \/ last.at < l.expiry)
Grounds == {l \in Range(Seen) : Live(l) /\ IF last.cert
              THEN l.kind = "ca" /\ l.blob = Info[last.blob].ca /\ PrincipalOnLine(l, last.blob)
              ELSE l.kind = "key" /\ l.blob = last.blob}

Principals == Info[last.blob].principals

(* A key is accepted only on a live line of what this connection read, or  *)
(* through a trusted authority and a principal: one that a live line of    *)
(* the principals file or command lists, or the login name without either. *)
(* The session gets the restrictions of that line and not those of an      *)
(* earlier attempt.                                                        *)
AcceptedOnItsLine ==
  Accepted =>
    \/ \E l \in Grounds : last.opts = l.opts
    \/ /\ last.cert /\ Grounds = {} /\ Info[last.blob].ca \in policy.trustedCAs
       /\ \/ policy.principals = <<>> /\ User \in Principals /\ last.opts = NoOptions
          \/ /\ policy.principals # <<>>
             /\ \E l \in Range(policy.principals[1]) : Live(l) /\ l.blob \in Principals /\ last.opts = l.opts

(* Nothing revoked is accepted by any road: not the key, not the key inside*)
(* a certificate, not a certificate of a revoked authority.                *)
NothingRevoked ==
  Accepted => /\ last.cert => last.blob \notin policy.revokedCerts
              /\ ({IF last.cert THEN Info[last.blob].key ELSE last.blob}
                  \cup (IF last.cert THEN {Info[last.blob].ca} ELSE {})) \cap policy.revokedKeys = {}

(* The account lists: nobody on a deny list or off a set allow list, and   *)
(* nobody else, is refused for them (a good key of a listed user works).   *)
ListsDecide ==
  last.verdict # "none" =>
    LET p == policy
        listed(l) == (\E i \in DOMAIN l : l[i].hit /\ ~l[i].neg) /\ ~\E i \in DOMAIN l : l[i].hit /\ l[i].neg
        barred == \/ p.refused \/ p.inDenyGroups \/ p.rootDenied
                  \/ listed(p.denyUsers)
                  \/ p.allowUsers # <<>> /\ ~listed(p.allowUsers)
                  \/ p.allowGroups /\ ~p.inAllowGroups
    IN  /\ Accepted => ~barred
        /\ (~barred /\ ~last.cert /\ Grounds # {} /\ last.blob \notin p.revokedKeys) => Accepted
=============================================================================
