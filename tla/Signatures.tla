----------------------------- MODULE Signatures -----------------------------
(***************************************************************************)
(* ssh-keygen as an authority (bin/ssh-keygen.rs, cert/, krl/, sshsig.rs): *)
(* certificates (-s), key revocation lists (-k, -k -u, -Q) and signatures  *)
(* of files (-Y), as a sequence of commands on the same files while time   *)
(* passes and writes fail.                                                 *)
(*                                                                         *)
(* A key blob is a name; a certificate is a record with the blob it        *)
(* certifies and the blob of its authority.  An identity is a key, or the  *)
(* number of a certificate issued for it.  A signature is what it was      *)
(* made of: who signed, and the namespace, the hash and the digest that    *)
(* signed_data puts together.  Serial numbers count modulo SerialMod, as   *)
(* u64 does modulo 2^64.                                                   *)
(***************************************************************************)
EXTENDS Naturals, Sequences, FiniteSets

CONSTANTS Keys,       \* blobs of keys that are no authority
          CAs,        \* blobs of authorities
          SerialMod,
          Specs,      \* revocation inputs: [ca, lines], ca the -s argument
          Foreign,    \* KRL files to begin with: [sections, says]
          Orders,     \* what -s is asked for
          SignerFiles,\* allowed_signers files, each a sequence of lines
          Namespaces, Messages, Principals,
          Agent,      \* the identities the agent holds
          MaxTime, MaxSteps, MaxFaults

VARIABLES file,       \* the KRL on disk: [torn, sections]
          certs,      \* certificates issued, in order
          sigs,       \* signature files made
          now, steps, faults,
          said,       \* what the KRL was told to revoke
          intact,     \* whether it was written in full ever since it was begun
          signed,     \* <<who, namespace, message>> of every signing
          good        \* the last verification: [by, ns, message, who, ok]

vars == <<file, certs, sigs, now, steps, faults, said, intact, signed, good>>

AnyCa == "any"     \* the empty CA blob of "-s none"
Plain(blob) == [key |-> blob, cert |-> 0]
Idents == {Plain(k) : k \in Keys} \cup {[key |-> certs[n].key, cert |-> n] : n \in DOMAIN certs}

-----------------------------------------------------------------------------
(* krl/mod.rs.  A list in memory: the vectors never hold an entry twice,   *)
(* so they are sets; one CaRevocation for each authority.                  *)

NoCerts == [serials |-> {}, ranges |-> {}, bitmaps |-> {}, ids |-> {}]
NewKrl == [keys |-> {}, sha1 |-> {}, sha256 |-> {}, certs |-> [a \in CAs \cup {AnyCa} |-> NoCerts]]

revoke_cert_serials(krl, ca, lo, hi) ==
    IF lo = hi THEN [krl EXCEPT !.certs[ca].serials = @ \cup {lo}]
    ELSE [krl EXCEPT !.certs[ca].ranges = @ \cup {<<lo, hi>>}]
revoke_cert_key_id(krl, ca, id) == [krl EXCEPT !.certs[ca].ids = @ \cup {id}]

\* Serial numbers by list, range and bitmap, or the key id.
covers(rev, serial, id) ==
    \/ serial \in rev.serials
    \/ \E r \in rev.ranges : r[1] <= serial /\ serial <= r[2]
    \/ \E b \in rev.bitmaps : serial >= b.offset /\ (serial - b.offset) \in b.bits
    \/ id # "" /\ id \in rev.ids

is_revoked_cert(krl, ca, serial, id) ==
    \E a \in {ca, AnyCa} : covers(krl.certs[a], serial, id)
is_revoked_key(krl, blob) == blob \in krl.keys \cup krl.sha1 \cup krl.sha256

\* The sections of the file: for each authority its subsections, then the keys
\* and the two kinds of fingerprints; empty ones are left out.
Some(kind, set) == IF set = {} THEN {} ELSE {[kind |-> kind, set |-> set]}
CertSection(ca, rev) ==
    [kind |-> "certificates", ca |-> ca,
     subs |-> Some("serials", rev.serials)
              \cup {[kind |-> "range", set |-> {r}] : r \in rev.ranges}
              \cup {[kind |-> "bitmap", set |-> {b}] : b \in rev.bitmaps}
              \cup Some("ids", rev.ids)]
to_bytes(krl) ==
    {CertSection(a, krl.certs[a]) : a \in {x \in DOMAIN krl.certs : krl.certs[x] # NoCerts}}
    \cup Some("keys", krl.keys) \cup Some("sha1", krl.sha1) \cup Some("sha256", krl.sha256)

\* Everything of one kind, from all sections that have it: parse appends.
Of(sections, kind) == UNION {s.set : s \in {x \in sections : x.kind = kind}}
parse_certificates(sections, ca) ==
    LET subs == UNION {s.subs : s \in {x \in sections : x.kind = "certificates" /\ x.ca = ca}}
    IN  [serials |-> Of(subs, "serials"), ranges |-> Of(subs, "range"),
         bitmaps |-> Of(subs, "bitmap"), ids |-> Of(subs, "ids")]
\* A section or subsection of another kind, and a critical extension, spoil the
\* list; a signature section and other extensions are passed over.
Parses(f) ==
    /\ ~f.torn
    /\ \A s \in f.sections :
          /\ s.kind \in {"certificates", "keys", "sha1", "sha256", "signature", "extension"}
          /\ s.kind = "certificates" =>
                \A u \in s.subs : u.kind \in {"serials", "range", "bitmap", "ids", "extension"}
parse(f) == [keys |-> Of({s \in f.sections : s.kind = "keys"}, "keys"),
             sha1 |-> Of({s \in f.sections : s.kind = "sha1"}, "sha1"),
             sha256 |-> Of({s \in f.sections : s.kind = "sha256"}, "sha256"),
             certs |-> [a \in CAs \cup {AnyCa} |-> parse_certificates(f.sections, a)]]

-----------------------------------------------------------------------------
(* ssh-keygen -k: the input lines.                                         *)

\* Mutant of revoke_line_key: a certificate is revoked by its key id alone.
revoke_line_keyById(krl, what) ==
    IF what.cert = 0 THEN [krl EXCEPT !.keys = @ \cup {what.key}]
    ELSE revoke_cert_key_id(krl, certs[what.cert].ca, certs[what.cert].id)

\* A line may hold a certificate, which is revoked by its serial number, or by
\* its key id when it has none.
revoke_line_key(krl, what) ==
    IF what.cert = 0 THEN [krl EXCEPT !.keys = @ \cup {what.key}]
    ELSE LET c == certs[what.cert] IN
         IF c.serial # 0 \/ c.id = "" THEN revoke_cert_serials(krl, c.ca, c.serial, c.serial)
         ELSE revoke_cert_key_id(krl, c.ca, c.id)

\* Whether a line is understood: serial numbers and ids need an authority.
Understood(ca, l) ==
    CASE l.kw = "serial" -> ca # "" /\ l.lo <= l.hi
      [] l.kw = "id" -> ca # ""
      [] l.kw = "key" -> l.what.cert \in {0} \cup DOMAIN certs
      [] l.kw \in {"sha1", "sha256", "hash"} -> l.what.cert = 0
      [] OTHER -> FALSE
Apply(krl, ca, l) ==
    CASE l.kw = "serial" -> revoke_cert_serials(krl, ca, l.lo, l.hi)
      [] l.kw = "id" -> revoke_cert_key_id(krl, ca, l.id)
      [] l.kw = "key" -> revoke_line_key(krl, l.what)
      [] l.kw = "sha1" -> [krl EXCEPT !.sha1 = @ \cup {l.what.key}]
      [] l.kw \in {"sha256", "hash"} -> [krl EXCEPT !.sha256 = @ \cup {l.what.key}]
update_from(krl, spec) ==
    LET f[i \in 0..Len(spec.lines)] ==
            IF i = 0 THEN krl ELSE Apply(f[i - 1], spec.ca, spec.lines[i])
    IN  f[Len(spec.lines)]

\* The order of the sections in the file, which a write that is cut keeps.
Rank(s) == CASE s.kind = "certificates" -> 1 [] s.kind = "keys" -> 2 [] s.kind = "sha1" -> 3 [] OTHER -> 4
Cuts(sections) ==
    {[torn |-> t, sections |-> c] :
        t \in BOOLEAN, c \in {x \in SUBSET sections : \A u \in x, v \in sections : Rank(v) < Rank(u) => v \in x}}

\* -k writes a new list, -k -u adds to the one that is there; a line that is
\* not understood leaves the file alone.  The file is written in place, so a
\* write that fails leaves what came before, ending anywhere.
build(update, spec) ==
    /\ steps < MaxSteps /\ steps' = steps + 1
    /\ IF (update /\ ~Parses(file)) \/ \E i \in DOMAIN spec.lines : ~Understood(spec.ca, spec.lines[i])
       THEN UNCHANGED <<file, said, intact, faults>>
       ELSE LET bytes == to_bytes(update_from(IF update THEN parse(file) ELSE NewKrl, spec)) IN
            \/ /\ file' = [torn |-> FALSE, sections |-> bytes]
               /\ said' = (IF update THEN said ELSE {})
                          \cup {[line |-> spec.lines[i], ca |-> spec.ca] : i \in DOMAIN spec.lines}
               /\ intact' = (intact \/ ~update)
               /\ faults' = faults
            \/ /\ faults < MaxFaults /\ faults' = faults + 1
               /\ file' \in Cuts(bytes) /\ intact' = FALSE
               /\ UNCHANGED said
    /\ UNCHANGED <<certs, sigs, now, signed, good>>

\* -Q: a certificate is revoked by itself, by its key and by its authority.
QueryCert(krl, c) == \/ is_revoked_cert(krl, c.ca, c.serial, c.id)
                     \/ is_revoked_key(krl, c.key) \/ is_revoked_key(krl, c.ca)
query(what) ==
    LET krl == parse(file) IN
    IF what.cert = 0 THEN is_revoked_key(krl, what.key) ELSE QueryCert(krl, certs[what.cert])

-----------------------------------------------------------------------------
(* ssh-keygen -s: certificates.                                            *)

\* The builder refuses an empty time of validity.
CertBuilder(o, i, serial) ==
    [key |-> o.keys[i], ca |-> o.ca, serial |-> serial, id |-> o.id, type |-> o.type,
     principals |-> o.principals, from |-> o.from, to |-> o.to]
\* Certificates for the keys in order, with consecutive serial numbers if the
\* -z argument has a "+"; a key that cannot be read ends the command there.
CertSign(o) ==
    /\ steps < MaxSteps /\ steps' = steps + 1
    /\ IF o.from >= o.to THEN UNCHANGED <<certs, faults>>
       ELSE \E n \in 0..Len(o.keys) :
              /\ certs' = certs \o [i \in 1..n |->
                    CertBuilder(o, i, IF o.plus THEN (o.serial + i - 1) % SerialMod ELSE o.serial)]
              /\ IF n = Len(o.keys) THEN faults' = faults
                 ELSE faults < MaxFaults /\ faults' = faults + 1
    /\ UNCHANGED <<file, sigs, now, said, intact, signed, good>>

\* cert/mod.rs: valid from the first second up to, not including, the last.
check_validity(c, t) == c.from <= t /\ t < c.to

-----------------------------------------------------------------------------
(* ssh-keygen -Y: signatures of files.                                     *)

\* The key named on the command line is a key or a certificate; the agent signs
\* if it holds exactly that, else the private key beside it, which must match.
load_sign_key(ident, private) ==
    IF ident \in Agent THEN ident.key
    ELSE IF private = ident.key THEN private ELSE ""
signed_data(ns, message) == [ns |-> ns, digest |-> message]
Sign(ident, private, ns, message) ==
    LET by == load_sign_key(ident, private) IN
    /\ steps < MaxSteps /\ steps' = steps + 1 /\ by # ""
    /\ sigs' = sigs \cup {[public |-> ident, ns |-> ns,
                           signature |-> [by |-> by, over |-> signed_data(ns, message)]]}
    /\ signed' = signed \cup {<<by, ns, message>>}
    /\ UNCHANGED <<file, certs, now, faults, said, intact, good>>

\* Signature::verify: the namespace is compared and signed.
SigVerifies(s, ns, message) ==
    /\ ns = s.ns
    /\ s.signature.by = s.public.key
    /\ s.signature.over = signed_data(ns, message)

\* One line of allowed_signers; a line that does not parse is passed over.
matches_principal(l, name) == name \in l.principals
allows_namespace(l, ns) == l.namespaces = {} \/ ns \in l.namespaces
valid_at(l, t) == l.after <= t /\ t <= l.before
is_key(l, public, t) == ~l.ca /\ public = Plain(l.key) /\ valid_at(l, t)
certified_principals(l, public, t) ==
    IF l.ca /\ valid_at(l, t) /\ public.cert # 0 /\ certs[public.cert].ca = l.key
         /\ certs[public.cert].type = "user" /\ check_validity(certs[public.cert], t)
    THEN {p \in certs[public.cert].principals : matches_principal(l, p)} ELSE {}

accepts(l, public, name, t) ==
    /\ matches_principal(l, name)
    /\ is_key(l, public, t) \/ name \in certified_principals(l, public, t)

\* The -r argument is taken for a list of keys when it is no KRL: a KRL that
\* was cut has no line that lists a key.
revoked(public) ==
    Parses(file) /\ query(public)

\* find-principals: whom some line lets sign with it, in any namespace.
find_principals(public, lines) ==
    UNION {IF is_key(lines[i], public, now) THEN lines[i].principals
           ELSE certified_principals(lines[i], public, now)
             : i \in {j \in DOMAIN lines : ~lines[j].bad}}

\* The signature, then the revocation, then the signers.
Verify(s, ns, message, name, lines) ==
    /\ steps < MaxSteps /\ steps' = steps + 1
    /\ good' = [by |-> s.public, ns |-> ns, message |-> message, who |-> name, at |-> now, lines |-> lines,
                found |-> find_principals(s.public, lines), revoked |-> revoked(s.public),
                ok |-> /\ SigVerifies(s, ns, message) /\ ~revoked(s.public)
                       /\ \E i \in DOMAIN lines : ~lines[i].bad /\ accepts(lines[i], s.public, name, now)
                                                  /\ allows_namespace(lines[i], ns)]
    /\ UNCHANGED <<file, certs, sigs, now, faults, said, intact, signed>>

Tick == /\ now < MaxTime /\ now' = now + 1
        /\ UNCHANGED <<file, certs, sigs, steps, faults, said, intact, signed, good>>

-----------------------------------------------------------------------------
Unasked == [by |-> Plain(""), ns |-> "", message |-> "", who |-> "", at |-> 0, lines |-> <<>>,
            found |-> {}, revoked |-> FALSE, ok |-> FALSE]

Init == /\ \E f \in Foreign : file = [torn |-> FALSE, sections |-> f.sections] /\ said = f.says
        /\ certs = <<>> /\ sigs = {} /\ now = 0 /\ steps = 0 /\ faults = 0
        /\ intact = TRUE /\ signed = {} /\ good = Unasked

Next ==
    \/ \E update \in BOOLEAN, spec \in Specs : build(update, spec)
    \/ \E o \in Orders : CertSign(o)
    \/ \E ident \in Idents, private \in Keys, ns \in Namespaces, m \in Messages :
          Sign(ident, private, ns, m)
    \/ \E s \in sigs, ns \in Namespaces, m \in Messages, p \in Principals, l \in SignerFiles :
          Verify(s, ns, m, p, l)
    \/ Tick

Spec == Init /\ [][Next]_vars

-----------------------------------------------------------------------------
\* What the commands have said, without any list.
SaidKey(blob) == \E x \in said : x.line.kw \in {"key", "sha1", "sha256", "hash"} /\ x.line.what = Plain(blob)
SaidCert(c) ==
    \E x \in said :
       \/ /\ x.line.kw = "serial" /\ x.ca \in {c.ca, AnyCa}
          /\ x.line.lo <= c.serial /\ c.serial <= x.line.hi
       \/ x.line.kw = "id" /\ x.ca \in {c.ca, AnyCa} /\ c.id = x.line.id /\ c.id # ""
       \/ /\ x.line.kw = "key" /\ x.line.what.cert # 0
          /\ LET d == certs[x.line.what.cert] IN
             d.ca = c.ca /\ (IF d.serial # 0 \/ d.id = "" THEN d.serial = c.serial ELSE d.id = c.id)

(* ssh-keygen -Q answers by everything the list was told since it was last *)
(* begun, in whatever form (keys, fingerprints, single serial numbers,     *)
(* ranges, bitmaps, ids, certificates), and by nothing else, however often *)
(* it was read and written again, as long as every write was completed.    *)
RevokedStays ==
    (intact /\ Parses(file)) =>
       \A i \in Idents \cup {Plain(a) : a \in CAs} :
          query(i) <=> \/ SaidKey(i.key)
                       \/ i.cert # 0 /\ (SaidCert(certs[i.cert]) \/ SaidKey(certs[i.cert].ca))

(* A signature reported good was made by that key over that file in that   *)
(* namespace, at that time some line speaks for the key and the name (for  *)
(* a certificate: the line of its authority, and the certificate names the *)
(* signer and is valid), and find-principals would have named the signer.  *)
GoodIsVouched ==
    good.ok =>
       /\ <<good.by.key, good.ns, good.message>> \in signed /\ ~good.revoked
       /\ good.who \in good.found
       /\ \E i \in DOMAIN good.lines :
             LET l == good.lines[i] IN
             /\ good.who \in l.principals /\ l.after <= good.at /\ good.at <= l.before
             /\ IF good.by.cert = 0 THEN l.key = good.by.key /\ ~l.ca
                ELSE LET c == certs[good.by.cert] IN
                     /\ l.ca /\ l.key = c.ca /\ good.who \in c.principals
                     /\ c.from <= good.at /\ good.at < c.to
=============================================================================
