----------------------------- MODULE ServerAuth -----------------------------
(***************************************************************************)
(* The server's side of user authentication: the ServerAuth state machine  *)
(* (auth/server.rs), the loop that feeds it and resolves the user's policy *)
(* (do_server_auth, server.rs) and the authenticator of sshd, which counts *)
(* the factors of AuthenticationMethods (LocalAuthenticator, bin/sshd.rs). *)
(* Keys, users and passwords are model values; what a key may do is a pair *)
(* of a forced command and the right to a terminal.                        *)
(***************************************************************************)
EXTENDS Integers, Sequences, SequencesExt, FiniteSets, TLAPS

CONSTANTS
  Users, Blobs,
  KeyOf,         \* [Blobs -> key]: a certificate and its plain key are two blobs of one key
  CertCaps,      \* [Blobs -> caps]: what a certificate allows, Free for a plain key
  LineCaps,      \* [Blobs -> caps]: the options of the authorized_keys line
  Authorized,    \* [Users -> SUBSET Blobs]
  AllowedUsers,  \* the users the account and list checks let through
  Methods,       \* [Users -> SUBSET methods]: what a Match block leaves enabled
  Chains,        \* [Users -> SUBSET Seq(methods)]: AuthenticationMethods
  MaxAuthTries, MaxPkOk, MaxAuthSteps,
  PamPrompts     \* questions PAM asks in a keyboard-interactive conversation

VARIABLES
  sv, la,         \* ServerAuth and LocalAuthenticator
  reply,          \* the last packet sent
  answered,       \* history: the factors answered as successes
  refusals        \* history: the plain failures sent
serverVars == <<sv, la, reply, answered, refusals>>

None == "none"
Free == [force |-> None, pty |-> TRUE]
Conflict == [force |-> "conflict", pty |-> FALSE]
NoKbd == [left |-> 0, ok |-> FALSE]

(* AuthCertCaps::intersect and merge_caps: two forced commands conflict.   *)
Intersect(a, b) ==
  IF a = Conflict \/ b = Conflict \/ (a.force # None /\ b.force # None /\ a.force # b.force)
  THEN Conflict
  ELSE [force |-> IF a.force = None THEN b.force ELSE a.force, pty |-> a.pty /\ b.pty]

-----------------------------------------------------------------------------
(* The authenticator.                                                      *)
Alive(chain, done) == IsPrefix(done, chain)

\* Mutant of Standing: a chain is complete when every method it names was used.
StandingAsSet(chains, done) ==
  IF \E c \in chains : Range(c) \subseteq Range(done)
  THEN [d |-> "accept"]
  ELSE [d |-> "partial", next |-> UNION {Range(c) : c \in chains}]

(* partial_or_reject_for_current                                           *)
Standing(chains, done) ==
  IF \E c \in chains : c = done
  THEN [d |-> "accept"]
  ELSE [d |-> "partial",
        next |-> {c[Len(done) + 1] : c \in {x \in chains : Alive(x, done) /\ Len(x) > Len(done)}}]

(* record_and_decide: the factor must be the next one of a live chain.     *)
InOrder(chains, done, method) == \E c \in chains : IsPrefix(Append(done, method), c)

RecordAndDecide(a, method) ==
  CASE a.chains = {} -> <<a, [d |-> "accept"]>>
    [] a.chains # {} /\ ~InOrder(a.chains, a.satisfied, method) -> <<a, [d |-> "reject"]>>
    [] OTHER -> LET b == [a EXCEPT !.satisfied = Append(@, method)]
                IN  <<b, Standing(b.chains, b.satisfied)>>

Reject(a) == <<a, [d |-> "reject"]>>

(* verify_password: bound user, account and list checks, PAM.              *)
EvaluatePassword(a, r) ==
  IF a.bound = r.user /\ r.user \in AllowedUsers /\ r.secret = "good"
  THEN RecordAndDecide(a, "password") ELSE Reject(a)

(* evaluate, publickey: a probe only asks whether the key would do.        *)
KeyAllowed(a, r) == a.bound = r.user /\ r.user \in AllowedUsers /\ r.blob \in Authorized[r.user]
EvaluateKey(a, r) ==
  CASE ~KeyAllowed(a, r) -> Reject(a)
    [] KeyAllowed(a, r) /\ r.secret = "probe" -> <<a, [d |-> "accept"]>>
    [] OTHER -> RecordAndDecide(a, "publickey")

(* kbd_pump: the next question of the PAM conversation, or its verdict.    *)
KbdPump(a, user) ==
  CASE a.kbd.left > 0 -> <<a, [d |-> "interactive"]>>
    [] a.kbd.left = 0 /\ a.kbd.ok /\ user \in AllowedUsers ->
         RecordAndDecide([a EXCEPT !.kbd = NoKbd], "keyboard-interactive")
    [] OTHER -> Reject([a EXCEPT !.kbd = NoKbd])

EvaluateInteractiveRequest(a, r) ==
  IF a.bound # r.user THEN Reject(a)
  ELSE KbdPump([a EXCEPT !.kbd = [left |-> PamPrompts, ok |-> TRUE]], r.user)

(* evaluate_interactive: hand the answer to PAM, which may ask again.      *)
EvaluateInteractive(a, user, secret) ==
  IF a.bound # user \/ a.kbd = NoKbd THEN Reject([a EXCEPT !.kbd = NoKbd])
  ELSE KbdPump([a EXCEPT !.kbd = [left |-> a.kbd.left - 1,
                                  ok |-> a.kbd.ok /\ secret = "good"]], user)

(* on_user_resolved: bind the name and load the user's chains.             *)
OnUserResolved(a, user) ==
  [a EXCEPT !.bound = IF a.bound = None THEN user ELSE @, !.chains = Chains[user]]

(* continuable_methods: what USERAUTH_FAILURE names.                       *)
Continuable(a, offered) ==
  IF a.chains = {} THEN offered
  ELSE IF Standing(a.chains, a.satisfied).d = "partial"
       THEN Standing(a.chains, a.satisfied).next \cap offered ELSE {}

-----------------------------------------------------------------------------
(* ServerAuth.                                                             *)
ServerInit ==
  /\ sv = [state |-> "AwaitingServiceRequest", first |-> None, methods |-> {}, failed |-> 0,
           probes |-> 0, used |-> {}, caps |-> Free, pending |-> None, steps |-> 0]
  /\ la = [bound |-> None, chains |-> {}, satisfied |-> <<>>, kbd |-> NoKbd]
  /\ reply = [t |-> None]
  /\ answered = <<>>
  /\ refusals = 0

Disconnected(s) == <<[s EXCEPT !.state = "Done"], [t |-> "disconnect"]>>

(* emit_failure: count it, and hang up past MaxAuthTries.                  *)
EmitFailure(s, a) ==
  IF s.failed + 1 > MaxAuthTries
  THEN Disconnected([s EXCEPT !.failed = @ + 1])
  ELSE <<[s EXCEPT !.failed = @ + 1],
         [t |-> "failure", partial |-> FALSE, methods |-> Continuable(a, s.methods)]>>

(* emit_probe_failure: the first MaxPkOk refused probes cost nothing.      *)
EmitProbeFailure(s, a) ==
  IF s.probes + 1 > MaxPkOk THEN EmitFailure([s EXCEPT !.probes = @ + 1], a)
  ELSE <<[s EXCEPT !.probes = @ + 1],
         [t |-> "failure", partial |-> FALSE, methods |-> Continuable(a, s.methods)]>>

(* apply_decision                                                          *)
ApplyDecision(s, a, decision, user) ==
  CASE decision.d = "accept" ->
         <<[s EXCEPT !.state = "Done"], [t |-> "success", user |-> user, caps |-> s.caps]>>
    [] decision.d = "partial" ->
         <<s, [t |-> "failure", partial |-> TRUE, methods |-> decision.next]>>
    [] decision.d = "interactive" ->
         <<[s EXCEPT !.state = "AwaitingInfoResponse", !.pending = user], [t |-> "info"]>>
    [] OTHER -> EmitFailure(s, a)

(* What the caller does with an outcome: <<next sv, reply>>, the new       *)
(* authenticator, and, in the history, the factor that was answered for.   *)
Settle(out, a, factor) ==
  /\ sv' = [out[1] EXCEPT !.steps = @ + 1]
  /\ la' = a
  /\ reply' = out[2]
  /\ answered' = IF out[2].t = "success" \/ (out[2].t = "failure" /\ out[2].partial)
                 THEN Append(answered, factor) ELSE answered
  /\ refusals' = IF out[2].t = "failure" /\ ~out[2].partial THEN refusals + 1 ELSE refusals

(* on_packet's errors end the connection.                                  *)
ProtocolError == Settle(<<[sv EXCEPT !.state = "Done"], [t |-> "error"]>>, la, None)

(* Which key a chain already counted: the embedded one, of a certificate.  *)
UsedId(blob) == KeyOf[blob]

MergedCaps(s, blob) == Intersect(s.caps, Intersect(CertCaps[blob], LineCaps[blob]))

(* handle_publickey, the signed request: the key's own restrictions join   *)
(* those of earlier factors, and a conflict turns the acceptance down.     *)
SignedKey(s, a, r) ==
  LET ev == EvaluateKey(a, r)
      m == MergedCaps(s, r.blob)
      d == IF ev[2].d \in {"accept", "partial"} /\ m = Conflict THEN [d |-> "reject"] ELSE ev[2]
      t == IF d.d \in {"accept", "partial"} THEN [s EXCEPT !.caps = m] ELSE s
      u == IF d.d = "partial" THEN [t EXCEPT !.used = @ \cup {UsedId(r.blob)}] ELSE t
  IN  Settle(ApplyDecision(u, ev[1], d, r.user), ev[1],
             [method |-> "publickey", blob |-> r.blob])

HandlePublickey(s, a, r) ==
  \/ /\ UsedId(r.blob) \in s.used \/ r.secret = "bad"
     /\ ~(r.secret = "probe" /\ UsedId(r.blob) \notin s.used)
     /\ Settle(EmitFailure(s, a), a, None)
  \/ /\ UsedId(r.blob) \notin s.used /\ r.secret = "probe"
     /\ Settle(IF EvaluateKey(a, r)[2].d = "accept"
               THEN <<s, [t |-> "pk_ok", blob |-> r.blob]>> ELSE EmitProbeFailure(s, a),
               a, None)
  \/ /\ UsedId(r.blob) \notin s.used /\ r.secret = "good"
     /\ SignedKey(s, a, r)

(* handle_request                                                          *)
HandleRequest(s, a, r) ==
  \/ r.method = "none" /\ Settle(EmitFailure(s, a), a, None)
  \/ /\ r.method = "password"
     /\ LET ev == EvaluatePassword(a, r)
        IN  Settle(ApplyDecision(s, ev[1], ev[2], r.user), ev[1],
                   [method |-> "password", blob |-> None])
  \/ r.method = "publickey" /\ HandlePublickey(s, a, r)
  \/ /\ r.method = "keyboard-interactive"
     /\ LET ev == EvaluateInteractiveRequest(a, r)
        IN  Settle(ApplyDecision(s, ev[1], ev[2], r.user), ev[1],
                   [method |-> "keyboard-interactive", blob |-> None])

Listening == sv.state # "Done" /\ sv.steps < MaxAuthSteps

(* SERVICE_REQUEST                                                         *)
RecvService ==
  /\ Listening
  /\ IF sv.state = "AwaitingServiceRequest"
     THEN Settle(<<[sv EXCEPT !.state = "AwaitingRequest"], [t |-> "service_accept"]>>, la, None)
     ELSE ProtocolError

(* pin_user                                                                *)
Pin(s, user) == IF s.first = None THEN [s EXCEPT !.first = user] ELSE s
Pinned(s, user) == s.first \in {None, user}

(* reresolve_user_policy, on the first name seen.                          *)
Resolve(s, a, user) ==
  IF a.bound = None THEN <<[s EXCEPT !.methods = Methods[user]], OnUserResolved(a, user)>>
  ELSE <<s, a>>

(* do_server_auth on a USERAUTH_REQUEST: resolve the user's policy, refuse *)
(* a method the policy dropped without a look at it, else on_packet.       *)
RecvRequest(r) ==
  /\ Listening
  /\ LET s == Resolve(sv, la, r.user)[1]
         a == Resolve(sv, la, r.user)[2]
         dropped == r.method # "none" /\ r.method \notin s.methods
     IN  \/ /\ ~dropped /\ s.state # "AwaitingRequest"
            /\ ProtocolError
         \/ /\ dropped \/ s.state = "AwaitingRequest"
            /\ ~Pinned(s, r.user)
            /\ Settle(Disconnected(s), a, None)
         \/ /\ dropped /\ Pinned(s, r.user)
            /\ Settle(EmitFailure(Pin(s, r.user), a), a, None)
         \/ /\ ~dropped /\ s.state = "AwaitingRequest" /\ Pinned(s, r.user)
            /\ HandleRequest(Pin(s, r.user), a, r)

(* INFO_RESPONSE                                                           *)
RecvInfoResponse(secret) ==
  /\ Listening
  /\ IF sv.state # "AwaitingInfoResponse" THEN ProtocolError
     ELSE LET s == [sv EXCEPT !.state = "AwaitingRequest", !.pending = None]
              ev == EvaluateInteractive(la, sv.pending, secret)
          IN  IF secret = "short"  \* not as many answers as there were questions
              THEN Settle(EmitFailure(s, la), la, None)
              ELSE Settle(ApplyDecision(s, ev[1], ev[2], sv.pending), ev[1],
                          [method |-> "keyboard-interactive", blob |-> None])

(* The loop gives up after MaxAuthSteps packets.                           *)
TooManySteps ==
  /\ sv.state # "Done" /\ sv.steps = MaxAuthSteps
  /\ ProtocolError

Requests ==
  [user : Users, method : {"none", "password"}, blob : {None}, secret : {"good", "bad"}]
    \cup [user : Users, method : {"keyboard-interactive"}, blob : {None}, secret : {None}]
    \cup [user : Users, method : {"publickey"}, blob : Blobs, secret : {"probe", "good", "bad"}]

(* Against any client.                                                     *)
AnyClient ==
  \/ RecvService
  \/ \E r \in Requests : RecvRequest(r)
  \/ \E secret \in {"good", "bad", "short"} : RecvInfoResponse(secret)
  \/ TooManySteps
  \/ sv.state = "Done" /\ UNCHANGED serverVars

ServerSpec == ServerInit /\ [][AnyClient]_serverVars
-----------------------------------------------------------------------------
(* Nobody is let in but by a complete chain of the policy of the one name  *)
(* the connection used, in order, each factor answered as a success, each  *)
(* key authorised (record_and_decide, pin_user, do_server_auth's           *)
(* re-resolution before the first attempt).                                *)
LetInByChain ==
  reply.t = "success" =>
    LET done == [i \in DOMAIN answered |-> answered[i].method]
        u == reply.user
    IN  /\ u \in AllowedUsers
        /\ la.bound = u
        /\ IF Chains[u] = {} THEN Len(done) = 1 ELSE done \in Chains[u]
        /\ \A i \in DOMAIN answered : answered[i].method \in Methods[u]
        /\ \A i \in DOMAIN answered : answered[i].blob # None => answered[i].blob \in Authorized[u]

(* Two publickey factors of a chain are two keys: a certificate does not   *)
(* stand beside the plain key it embeds (used_keys holds embedded keys).   *)
KeysDistinct ==
  \A i, j \in DOMAIN answered :
    i # j /\ answered[i].blob # None /\ answered[j].blob # None
      => KeyOf[answered[i].blob] # KeyOf[answered[j].blob]

(* A login carries the restrictions of every key that earned it, whatever  *)
(* was refused between them (pending_cert_caps changes on acceptance only).*)
CapsOfEveryKey ==
  reply.t = "success" =>
    \A i \in DOMAIN answered :
      answered[i].blob # None =>
        LET k == Intersect(CertCaps[answered[i].blob], LineCaps[answered[i].blob])
        IN  (k.force # None => reply.caps.force = k.force) /\ (~k.pty => ~reply.caps.pty)

(* Failures are bounded whatever mix of methods and probes they come from: *)
(* the refusals a client hears are at most MaxAuthTries and, on top, the   *)
(* MaxPkOk free probes, well before the step limit.                        *)
RefusalsBounded == refusals <= MaxAuthTries + MaxPkOk

(* The factors the authenticator counts are the ones the client was told   *)
(* succeeded: handle_publickey says "conflicting forced commands refuse    *)
(* the attempt", and a refused attempt is no factor.                       *)
-----------------------------------------------------------------------------
(* The proofs.  Between two packets of a connection that has not ended,    *)
(* Held relates the two state machines: the user ServerAuth has pinned is  *)
(* the one the authenticator is bound to and whose policy both hold, every *)
(* factor answered so far is one this policy has, the keys among them are  *)
(* used up and their restrictions are carried, and each refusal was paid   *)
(* for.  A connection that ended keeps what its last answer rested on.     *)
AllMethods == {"password", "publickey", "keyboard-interactive"}
Commands == {None, "conflict"} \cup {CertCaps[b].force : b \in Blobs} \cup {LineCaps[b].force : b \in Blobs}
CapSet == [force : Commands, pty : BOOLEAN]
KeyCaps(b) == Intersect(CertCaps[b], LineCaps[b])

ConstantsOK ==
  /\ None \notin Users /\ None \notin Blobs
  /\ KeyOf \in [Blobs -> {KeyOf[b] : b \in Blobs}]
  /\ CertCaps \in [Blobs -> CapSet] /\ LineCaps \in [Blobs -> CapSet]
  /\ Methods \in [Users -> SUBSET AllMethods]
  /\ Chains \in [Users -> SUBSET Seq(AllMethods)]
  /\ MaxAuthTries \in Nat /\ MaxPkOk \in Nat /\ MaxAuthSteps \in Nat /\ PamPrompts \in Nat

(* All the keys that force a command force the same one, so that no two    *)
(* restrictions conflict.  Where they do, record_and_decide has counted a  *)
(* factor that handle_publickey then refuses.                              *)
ForcedBy(f) == \A b \in Blobs : CertCaps[b].force \in {None, f} /\ LineCaps[b].force \in {None, f}
NoConflict == \E f \in Commands \ {"conflict"} : ForcedBy(f)
TheCommand == CHOOSE f \in Commands \ {"conflict"} : ForcedBy(f)

States == {"AwaitingServiceRequest", "AwaitingRequest", "AwaitingInfoResponse", "Done"}
Serving == [state : States, first : Users \cup {None}, methods : SUBSET AllMethods,
            failed : Nat, probes : Nat, used : SUBSET {KeyOf[b] : b \in Blobs}, caps : CapSet,
            pending : Users \cup {None}, steps : Nat]
Local == [bound : Users \cup {None}, chains : SUBSET Seq(AllMethods), satisfied : Seq(AllMethods),
          kbd : [left : Int, ok : BOOLEAN]]
Factor == [method : AllMethods, blob : Blobs \cup {None}]

\* One user, whose policy it is.
Bound(s, a, fs) ==
  IF a.bound = None
  THEN /\ a.chains = {} /\ a.satisfied = <<>> /\ fs = <<>> /\ s.first = None
       /\ s.state # "AwaitingInfoResponse"
  ELSE /\ a.chains = Chains[a.bound] /\ s.methods = Methods[a.bound] /\ s.first = a.bound
       /\ s.state = "AwaitingInfoResponse" => "keyboard-interactive" \in s.methods
       /\ a.chains = {} => fs = <<>>

\* Every factor is one of the user's.
Earned(u, fs) ==
  \A i \in DOMAIN fs :
    /\ u \in AllowedUsers /\ fs[i].method \in Methods[u]
    /\ fs[i].blob # None => fs[i].blob \in Authorized[u]

\* The authenticator has counted the factors that were answered.
Matched(a, fs) ==
  /\ Len(a.satisfied) = Len(fs)
  /\ \A i \in DOMAIN fs : a.satisfied[i] = fs[i].method

Carries(caps, b) ==
  (KeyCaps(b).force # None => caps.force = KeyCaps(b).force) /\ (~KeyCaps(b).pty => ~caps.pty)
Carried(caps, fs) == \A i \in DOMAIN fs : fs[i].blob # None => Carries(caps, fs[i].blob)
UsedUp(used, fs) == \A i \in DOMAIN fs : fs[i].blob # None => KeyOf[fs[i].blob] \in used
Paid(s, n) ==
  /\ s.failed <= MaxAuthTries
  /\ s.probes <= MaxPkOk => n <= s.failed + s.probes
  /\ s.probes > MaxPkOk => n <= s.failed + MaxPkOk

Held(s, a, fs, n) ==
  /\ s \in Serving /\ a \in Local /\ fs \in Seq(Factor) /\ n \in Nat
  /\ Bound(s, a, fs) /\ Earned(a.bound, fs)
  /\ NoConflict => s.caps.force \in {None, TheCommand} /\ (a.chains # {} => Matched(a, fs))
  /\ Carried(s.caps, fs) /\ UsedUp(s.used, fs) /\ Paid(s, n)

Upheld == (NoConflict => LetInByChain) /\ KeysDistinct /\ CapsOfEveryKey /\ RefusalsBounded
Inv == Upheld /\ (sv.state # "Done" => reply.t # "success" /\ Held(sv, la, answered, refusals))

LEMMA IntersectFacts ==
  ASSUME NEW a \in CapSet, NEW b \in CapSet
  PROVE  /\ Intersect(a, b) \in CapSet
         /\ Intersect(a, b) # Conflict =>
              /\ a # Conflict /\ b # Conflict
              /\ a.force # None => Intersect(a, b).force = a.force
              /\ b.force # None => Intersect(a, b).force = b.force
              /\ ~a.pty => ~Intersect(a, b).pty
              /\ ~b.pty => ~Intersect(a, b).pty
         /\ \A f : f # "conflict" /\ a.force \in {None, f} /\ b.force \in {None, f}
              => Intersect(a, b).force \in {None, f}
<1>1. Conflict \in CapSet /\ Conflict.force = "conflict" /\ None \in Commands
  BY DEF Conflict, CapSet, Commands
<1>2. a.force \in Commands /\ b.force \in Commands /\ a.pty \in BOOLEAN /\ b.pty \in BOOLEAN
  BY DEF CapSet
<1>3. CASE Intersect(a, b) = Conflict
  <2>1. ASSUME NEW f, f # "conflict", a.force \in {None, f}, b.force \in {None, f}
        PROVE  a # Conflict /\ b # Conflict /\ ~(a.force # None /\ b.force # None /\ a.force # b.force)
    BY <2>1, <1>1 DEF None
  <2>2. ASSUME NEW f, f # "conflict", a.force \in {None, f}, b.force \in {None, f}
        PROVE  Intersect(a, b).force \in {None, f}
    BY <2>1, <2>2 DEF Intersect
  <2> QED BY <2>2, <1>3, <1>1
<1>4. CASE Intersect(a, b) # Conflict
  <2>1. ~(a = Conflict \/ b = Conflict \/ (a.force # None /\ b.force # None /\ a.force # b.force))
    BY <1>4 DEF Intersect
  <2>2. Intersect(a, b) = [force |-> IF a.force = None THEN b.force ELSE a.force, pty |-> a.pty /\ b.pty]
    BY <2>1 DEF Intersect
  <2> HIDE DEF Intersect
  <2>3. Intersect(a, b) \in CapSet
    BY <2>2, <1>2 DEF CapSet
  <2>4. Intersect(a, b).force = (IF a.force = None THEN b.force ELSE a.force)
        /\ Intersect(a, b).pty = (a.pty /\ b.pty)
    BY <2>2
  <2> QED BY <2>1, <2>3, <2>4, <1>2
<1> QED BY <1>3, <1>4

LEMMA FreeOK == Free \in CapSet /\ Free.force = None /\ None # "conflict"
BY DEF Free, CapSet, Commands, None

LEMMA KeyCapsOK ==
  ASSUME ConstantsOK, NEW b \in Blobs
  PROVE  KeyCaps(b) \in CapSet /\ (NoConflict => KeyCaps(b).force \in {None, TheCommand})
<1>1. CertCaps[b] \in CapSet /\ LineCaps[b] \in CapSet
  BY DEF ConstantsOK
<1>2. NoConflict => TheCommand # "conflict" /\ ForcedBy(TheCommand)
  BY DEF NoConflict, TheCommand
<1>3. NoConflict => CertCaps[b].force \in {None, TheCommand} /\ LineCaps[b].force \in {None, TheCommand}
  BY <1>2 DEF ForcedBy
<1> QED BY <1>1, <1>2, <1>3, IntersectFacts DEF KeyCaps

\* What a key adds to the restrictions of the earlier ones, and keeps of them.
LEMMA Merged ==
  ASSUME ConstantsOK, NEW s, s.caps \in CapSet, NEW b \in Blobs
  PROVE  /\ MergedCaps(s, b) \in CapSet
         /\ MergedCaps(s, b) # Conflict =>
              /\ Carries(MergedCaps(s, b), b)
              /\ \A k \in Blobs : Carries(s.caps, k) => Carries(MergedCaps(s, b), k)
         /\ NoConflict /\ s.caps.force \in {None, TheCommand} =>
              MergedCaps(s, b) # Conflict /\ MergedCaps(s, b).force \in {None, TheCommand}
<1>1. KeyCaps(b) \in CapSet /\ (NoConflict => KeyCaps(b).force \in {None, TheCommand})
  BY KeyCapsOK
<1>2. MergedCaps(s, b) = Intersect(s.caps, KeyCaps(b))
  BY DEF MergedCaps, KeyCaps
<1>3. NoConflict => TheCommand # "conflict"
  BY DEF NoConflict, TheCommand
<1> DEFINE m == Intersect(s.caps, KeyCaps(b))
<1>4. /\ m \in CapSet
      /\ m # Conflict =>
              /\ s.caps.force # None => m.force = s.caps.force
              /\ KeyCaps(b).force # None => m.force = KeyCaps(b).force
              /\ ~s.caps.pty => ~m.pty
              /\ ~KeyCaps(b).pty => ~m.pty
      /\ \A f : f # "conflict" /\ s.caps.force \in {None, f} /\ KeyCaps(b).force \in {None, f}
              => m.force \in {None, f}
  BY <1>1, IntersectFacts
<1>5. Conflict.force = "conflict" /\ None # "conflict"
  BY DEF Conflict, None
<1>6. ASSUME NoConflict, s.caps.force \in {None, TheCommand}
      PROVE  m # Conflict /\ m.force \in {None, TheCommand}
  <2>1. m.force \in {None, TheCommand}
    BY <1>1, <1>3, <1>4, <1>6
  <2> QED BY <2>1, <1>3, <1>5, <1>6
<1>7. ASSUME m # Conflict
      PROVE  Carries(m, b) /\ \A k \in Blobs : Carries(s.caps, k) => Carries(m, k)
  BY <1>4, <1>7 DEF Carries
<1> QED BY <1>2, <1>4, <1>6, <1>7

-----------------------------------------------------------------------------
(* What the authenticator decides, whatever it was asked.                  *)
Judged(a, user, method, ev) ==
  /\ ev[1] \in Local /\ ev[1].bound = a.bound /\ ev[1].chains = a.chains
  /\ \/ /\ ev[2].d = "reject" \/ (ev[2].d = "interactive" /\ method = "keyboard-interactive")
        /\ ev[1].satisfied = a.satisfied
     \/ /\ a.bound = user /\ user \in AllowedUsers /\ ev[2].d \in {"accept", "partial"}
        /\ IF a.chains = {} THEN ev[2].d = "accept" /\ ev[1].satisfied = a.satisfied
           ELSE /\ ev[1].satisfied = Append(a.satisfied, method)
                /\ ev[2].d = "accept" => ev[1].satisfied \in a.chains

LEMMA StandingFacts ==
  ASSUME NEW chains, NEW done
  PROVE  Standing(chains, done).d \in {"accept", "partial"}
         /\ (Standing(chains, done).d = "accept" => done \in chains)
BY DEF Standing

LEMMA RecordJudged ==
  ASSUME NEW a \in Local, NEW user, a.bound = user, user \in AllowedUsers, NEW method \in AllMethods
  PROVE  Judged(a, user, method, RecordAndDecide(a, method))
<1> DEFINE b == [a EXCEPT !.satisfied = Append(@, method)]
<1>0. Append(a.satisfied, method) \in Seq(AllMethods)
  BY DEF Local
<1>1. b \in Local /\ b.bound = a.bound /\ b.chains = a.chains /\ b.satisfied = Append(a.satisfied, method)
  BY <1>0 DEF Local
<1>2. CASE a.chains = {}
  BY <1>2 DEF Judged, RecordAndDecide
<1>3. CASE a.chains # {} /\ ~InOrder(a.chains, a.satisfied, method)
  BY <1>3 DEF Judged, RecordAndDecide
<1>4. CASE a.chains # {} /\ InOrder(a.chains, a.satisfied, method)
  <2>1. RecordAndDecide(a, method) = <<b, Standing(b.chains, b.satisfied)>>
    BY <1>4 DEF RecordAndDecide
  <2> HIDE DEF b
  <2>2. Standing(b.chains, b.satisfied).d \in {"accept", "partial"}
        /\ (Standing(b.chains, b.satisfied).d = "accept" => b.satisfied \in b.chains)
    BY StandingFacts
  <2>3. RecordAndDecide(a, method)[1] = b /\ RecordAndDecide(a, method)[2] = Standing(b.chains, b.satisfied)
    BY <2>1
  <2> QED BY <2>2, <2>3, <1>1, <1>4 DEF Judged
<1> QED BY <1>2, <1>3, <1>4

LEMMA RejectJudged ==
  ASSUME NEW a \in Local, NEW user, NEW method
  PROVE  Judged(a, user, method, Reject(a))
BY DEF Judged, Reject

LEMMA PasswordJudged ==
  ASSUME NEW a \in Local, NEW r
  PROVE  Judged(a, r.user, "password", EvaluatePassword(a, r))
<1>1. CASE a.bound = r.user /\ r.user \in AllowedUsers /\ r.secret = "good"
  BY <1>1, RecordJudged DEF EvaluatePassword, AllMethods
<1>2. CASE ~(a.bound = r.user /\ r.user \in AllowedUsers /\ r.secret = "good")
  BY <1>2, RejectJudged DEF EvaluatePassword
<1> QED BY <1>1, <1>2

LEMMA KeyJudged ==
  ASSUME NEW a \in Local, NEW r, r.secret = "good"
  PROVE  /\ Judged(a, r.user, "publickey", EvaluateKey(a, r))
         /\ EvaluateKey(a, r)[2].d \in {"accept", "partial"} => r.blob \in Authorized[r.user]
<1>1. CASE KeyAllowed(a, r)
  <2>1. EvaluateKey(a, r) = RecordAndDecide(a, "publickey")
    BY <1>1 DEF EvaluateKey
  <2>2. a.bound = r.user /\ r.user \in AllowedUsers /\ r.blob \in Authorized[r.user]
    BY <1>1 DEF KeyAllowed
  <2> QED BY <2>1, <2>2, RecordJudged DEF AllMethods
<1>2. CASE ~KeyAllowed(a, r)
  BY <1>2, RejectJudged DEF EvaluateKey, Reject
<1> QED BY <1>1, <1>2

LEMMA PumpJudged ==
  ASSUME NEW a \in Local, NEW user, a.bound = user
  PROVE  Judged(a, user, "keyboard-interactive", KbdPump(a, user))
<1> DEFINE b == [a EXCEPT !.kbd = NoKbd]
<1>0. NoKbd \in [left : Int, ok : BOOLEAN]
  BY DEF NoKbd
<1>1. b \in Local /\ b.bound = a.bound /\ b.chains = a.chains /\ b.satisfied = a.satisfied
  BY <1>0 DEF Local
<1>2. a.kbd.left \in Int
  BY DEF Local
<1>3. CASE a.kbd.left > 0
  <2>1. KbdPump(a, user) = <<a, [d |-> "interactive"]>>
    BY <1>2, <1>3 DEF KbdPump
  <2> QED BY <2>1 DEF Judged
<1>4. CASE a.kbd.left = 0 /\ a.kbd.ok /\ user \in AllowedUsers
  <2>1. KbdPump(a, user) = RecordAndDecide(b, "keyboard-interactive")
    BY <1>2, <1>4 DEF KbdPump
  <2> HIDE DEF b
  <2>2. Judged(b, user, "keyboard-interactive", RecordAndDecide(b, "keyboard-interactive"))
    BY <1>1, <1>4, RecordJudged DEF AllMethods
  <2> QED BY <2>1, <2>2, <1>1 DEF Judged
<1>5. CASE ~(a.kbd.left > 0) /\ ~(a.kbd.left = 0 /\ a.kbd.ok /\ user \in AllowedUsers)
  <2>1. KbdPump(a, user) = Reject(b)
    BY <1>2, <1>5 DEF KbdPump
  <2> HIDE DEF b
  <2>2. Judged(b, user, "keyboard-interactive", Reject(b))
    BY <1>1, RejectJudged
  <2> QED BY <2>1, <2>2, <1>1 DEF Judged
<1> QED BY <1>3, <1>4, <1>5

LEMMA JudgedAs ==
  ASSUME NEW a, NEW b, b.bound = a.bound, b.chains = a.chains, b.satisfied = a.satisfied,
         NEW user, NEW method, NEW ev, Judged(b, user, method, ev)
  PROVE  Judged(a, user, method, ev)
BY DEF Judged

LEMMA InteractiveRequestJudged ==
  ASSUME ConstantsOK, NEW a \in Local, NEW r
  PROVE  Judged(a, r.user, "keyboard-interactive", EvaluateInteractiveRequest(a, r))
<1> DEFINE b == [a EXCEPT !.kbd = [left |-> PamPrompts, ok |-> TRUE]]
<1>0. [left |-> PamPrompts, ok |-> TRUE] \in [left : Int, ok : BOOLEAN]
  BY DEF ConstantsOK
<1>1. b \in Local /\ b.bound = a.bound /\ b.chains = a.chains /\ b.satisfied = a.satisfied
  BY <1>0 DEF Local
<1>2. CASE a.bound # r.user
  BY <1>2, RejectJudged DEF EvaluateInteractiveRequest
<1>3. CASE a.bound = r.user
  <2>1. EvaluateInteractiveRequest(a, r) = KbdPump(b, r.user)
    BY <1>3 DEF EvaluateInteractiveRequest
  <2> HIDE DEF b
  <2> QED BY <2>1, <1>1, <1>3, PumpJudged, JudgedAs
<1> QED BY <1>2, <1>3

LEMMA InteractiveJudged ==
  ASSUME NEW a \in Local, NEW user, NEW secret
  PROVE  Judged(a, user, "keyboard-interactive", EvaluateInteractive(a, user, secret))
<1> DEFINE b == [a EXCEPT !.kbd = NoKbd]
           c == [a EXCEPT !.kbd = [left |-> a.kbd.left - 1, ok |-> a.kbd.ok /\ secret = "good"]]
<1>0. NoKbd \in [left : Int, ok : BOOLEAN]
  BY DEF NoKbd
<1>1. b \in Local /\ b.bound = a.bound /\ b.chains = a.chains /\ b.satisfied = a.satisfied
  BY <1>0 DEF Local
<1>2. a.kbd.left - 1 \in Int /\ (a.kbd.ok /\ secret = "good") \in BOOLEAN
  BY DEF Local
<1>3. c \in Local /\ c.bound = a.bound /\ c.chains = a.chains /\ c.satisfied = a.satisfied
  BY <1>2 DEF Local
<1>4. CASE a.bound # user \/ a.kbd = NoKbd
  <2>1. EvaluateInteractive(a, user, secret) = Reject(b)
    BY <1>4 DEF EvaluateInteractive
  <2> HIDE DEF b
  <2> QED BY <2>1, <1>1, RejectJudged, JudgedAs
<1>5. CASE ~(a.bound # user \/ a.kbd = NoKbd)
  <2>1. EvaluateInteractive(a, user, secret) = KbdPump(c, user)
    BY <1>5 DEF EvaluateInteractive
  <2> HIDE DEF c
  <2> QED BY <2>1, <1>3, <1>5, PumpJudged, JudgedAs
<1> QED BY <1>4, <1>5

-----------------------------------------------------------------------------
(* The ends of a step: what was not a success changes little.              *)
LEMMA HeldAs ==
  ASSUME NEW s, NEW a, NEW fs, NEW n, Held(s, a, fs, n), NEW t \in Serving, NEW k \in Nat,
         t.first = s.first, t.methods = s.methods, t.caps = s.caps, t.used = s.used, Paid(t, k),
         t.state = "AwaitingInfoResponse" => a.bound # None /\ "keyboard-interactive" \in t.methods
  PROVE  Held(t, a, fs, k)
<1>1. Bound(t, a, fs)
  BY DEF Held, Bound
<1> QED BY <1>1 DEF Held

LEMMA HeldWith ==
  ASSUME NEW s, NEW a, NEW fs, NEW n, Held(s, a, fs, n), NEW b \in Local,
         b.bound = a.bound, b.chains = a.chains, ~NoConflict \/ b.satisfied = a.satisfied, a.bound # None
  PROVE  Held(s, b, fs, n)
<1>1. Bound(s, b, fs)
  BY DEF Held, Bound
<1>2. NoConflict => s.caps.force \in {None, TheCommand} /\ (b.chains # {} => Matched(b, fs))
  BY DEF Held, Matched
<1> QED BY <1>1, <1>2 DEF Held

LEMMA HeldFacts ==
  ASSUME NEW s, NEW a, NEW fs, NEW n, Held(s, a, fs, n)
  PROVE  /\ s \in Serving /\ s.first \in Users \cup {None} /\ s.methods \in SUBSET AllMethods
         /\ s.failed \in Nat /\ s.probes \in Nat /\ s.steps \in Nat /\ s.caps \in CapSet
         /\ s.used \in SUBSET {KeyOf[b] : b \in Blobs}
         /\ a \in Local /\ a.bound \in Users \cup {None} /\ a.satisfied \in Seq(AllMethods)
         /\ fs \in Seq(Factor) /\ n \in Nat /\ Paid(s, n)
BY DEF Held, Serving, Local

\* Every packet is counted.
LEMMA StepTaken ==
  ASSUME NEW s \in Serving, NEW t, t = [s EXCEPT !.steps = @ + 1]
  PROVE  /\ t \in Serving /\ t.first = s.first /\ t.methods = s.methods /\ t.caps = s.caps
         /\ t.used = s.used /\ t.failed = s.failed /\ t.probes = s.probes /\ t.state = s.state
<1>1. s.steps + 1 \in Nat
  BY DEF Serving
<1> QED BY <1>1 DEF Serving

LEMMA QuietUpheld ==
  ASSUME Upheld, answered' = answered, reply'.t # "success", refusals' <= MaxAuthTries + MaxPkOk
  PROVE  Upheld'
<1>1. LetInByChain' /\ CapsOfEveryKey' /\ RefusalsBounded'
  BY DEF LetInByChain, CapsOfEveryKey, RefusalsBounded
<1>2. KeysDistinct'
  BY DEF Upheld, KeysDistinct
<1> QED BY <1>1, <1>2 DEF Upheld

\* The connection ends without a login.
LEMMA EndedInv ==
  ASSUME Inv, NEW s \in Serving, NEW a, NEW f, NEW t, t \in {"disconnect", "error"},
         Settle(<<[s EXCEPT !.state = "Done"], [t |-> t]>>, a, f)
  PROVE  Inv'
<1> DEFINE out == <<[s EXCEPT !.state = "Done"], [t |-> t]>>
<1>1. out[1] \in Serving /\ out[1].state = "Done" /\ out[2].t = t /\ t # "success" /\ t # "failure"
  BY DEF Serving, States
<1>2. Settle(out, a, f)
  OBVIOUS
<1> HIDE DEF out
<1>3. sv'.state = "Done" /\ reply'.t # "success" /\ answered' = answered /\ refusals' = refusals
  BY <1>1, <1>2 DEF Settle, Serving
<1>4. Upheld'
  BY <1>3, QuietUpheld DEF Inv, Upheld, RefusalsBounded
<1> QED BY <1>3, <1>4 DEF Inv

\* The connection goes on without a success: a plain failure, a question, an
\* acceptance of a probe.
LEMMA GoesOnInv ==
  ASSUME Inv, ConstantsOK, NEW s, NEW a, NEW n \in Nat, NEW f, NEW re, Held(s, a, answered, n),
         Settle(<<s, re>>, a, f), re.t # "success", re.t = "failure" => ~re.partial,
         n = (IF re.t = "failure" THEN refusals + 1 ELSE refusals)
  PROVE  Inv'
<1> DEFINE out == <<s, re>>
<1>1. out[1] = s /\ out[2] = re
  OBVIOUS
<1>2. Settle(out, a, f)
  OBVIOUS
<1> HIDE DEF out
<1>3. /\ sv' = [s EXCEPT !.steps = @ + 1] /\ la' = a /\ reply' = re /\ answered' = answered
      /\ refusals' = n
  BY <1>1, <1>2 DEF Settle
<1>4. s \in Serving /\ s.steps \in Nat /\ s.failed \in Nat /\ s.probes \in Nat
  BY HeldFacts
<1>5. /\ sv' \in Serving /\ sv'.first = s.first /\ sv'.methods = s.methods /\ sv'.caps = s.caps
      /\ sv'.used = s.used /\ sv'.failed = s.failed /\ sv'.probes = s.probes /\ sv'.state = s.state
  BY <1>3, <1>4, StepTaken
<1>6. Paid(s, n) /\ n \in Nat
  BY HeldFacts
<1>7. Paid(sv', n)
  BY <1>5, <1>6 DEF Paid
<1>8. s.state = "AwaitingInfoResponse" => a.bound # None /\ "keyboard-interactive" \in s.methods
  BY DEF Held, Bound
<1>9. Held(sv', la', answered', refusals')
  BY <1>3, <1>5, <1>7, <1>8, HeldAs
<1>10. refusals' <= MaxAuthTries + MaxPkOk
  BY <1>3, <1>4, <1>6 DEF Paid, ConstantsOK
<1>11. Upheld'
  BY <1>3, <1>10, QuietUpheld DEF Inv
<1> QED BY <1>3, <1>9, <1>11 DEF Inv

LEMMA RefusedInv ==
  ASSUME Inv, ConstantsOK, NEW s, NEW a, NEW f, Held(s, a, answered, refusals),
         Settle(EmitFailure(s, a), a, f)
  PROVE  Inv'
<1> DEFINE t == [s EXCEPT !.failed = @ + 1]
<1>1. s \in Serving /\ s.failed \in Nat /\ s.probes \in Nat /\ refusals \in Nat /\ Paid(s, refusals)
  BY HeldFacts
<1>2. /\ t \in Serving /\ t.failed = s.failed + 1 /\ t.probes = s.probes /\ t.first = s.first
      /\ t.methods = s.methods /\ t.caps = s.caps /\ t.used = s.used /\ t.state = s.state
  BY <1>1 DEF Serving
<1>3. CASE s.failed + 1 > MaxAuthTries
  <2>1. EmitFailure(s, a) = <<[t EXCEPT !.state = "Done"], [t |-> "disconnect"]>>
    BY <1>3 DEF EmitFailure, Disconnected
  <2> HIDE DEF t
  <2> QED BY <2>1, <1>2, EndedInv
<1>4. CASE ~(s.failed + 1 > MaxAuthTries)
  <2> DEFINE re == [t |-> "failure", partial |-> FALSE, methods |-> Continuable(a, s.methods)]
  <2>1. EmitFailure(s, a) = <<t, re>>
    BY <1>4 DEF EmitFailure
  <2>2. re.t = "failure" /\ ~re.partial
    OBVIOUS
  <2> HIDE DEF t, re
  <2>3. Paid(t, refusals + 1)
    BY <1>1, <1>2, <1>4 DEF Paid, ConstantsOK
  <2>4. t.state = "AwaitingInfoResponse" => a.bound # None /\ "keyboard-interactive" \in t.methods
    BY <1>2 DEF Held, Bound
  <2>5. Held(t, a, answered, refusals + 1)
    BY <2>3, <2>4, <1>1, <1>2, HeldAs
  <2> QED BY <2>1, <2>2, <2>5, <1>1, GoesOnInv
<1> QED BY <1>3, <1>4

LEMMA ProbeRefusedInv ==
  ASSUME Inv, ConstantsOK, NEW s, NEW a, NEW f, Held(s, a, answered, refusals),
         Settle(EmitProbeFailure(s, a), a, f)
  PROVE  Inv'
<1> DEFINE t == [s EXCEPT !.probes = @ + 1]
<1>1. s \in Serving /\ s.failed \in Nat /\ s.probes \in Nat /\ refusals \in Nat /\ Paid(s, refusals)
  BY HeldFacts
<1>2. /\ t \in Serving /\ t.probes = s.probes + 1 /\ t.failed = s.failed /\ t.first = s.first
      /\ t.methods = s.methods /\ t.caps = s.caps /\ t.used = s.used /\ t.state = s.state
  BY <1>1 DEF Serving
<1>3. t.state = "AwaitingInfoResponse" => a.bound # None /\ "keyboard-interactive" \in t.methods
  BY <1>2 DEF Held, Bound
<1>4. CASE s.probes + 1 > MaxPkOk
  <2>1. EmitProbeFailure(s, a) = EmitFailure(t, a)
    BY <1>4 DEF EmitProbeFailure
  <2> HIDE DEF t
  <2>2. Paid(t, refusals)
    BY <1>1, <1>2, <1>4 DEF Paid, ConstantsOK
  <2>3. Held(t, a, answered, refusals)
    BY <2>2, <1>1, <1>2, <1>3, HeldAs
  <2> QED BY <2>1, <2>3, RefusedInv
<1>5. CASE ~(s.probes + 1 > MaxPkOk)
  <2> DEFINE re == [t |-> "failure", partial |-> FALSE, methods |-> Continuable(a, s.methods)]
  <2>1. EmitProbeFailure(s, a) = <<t, re>>
    BY <1>5 DEF EmitProbeFailure
  <2>2. re.t = "failure" /\ ~re.partial
    OBVIOUS
  <2> HIDE DEF t, re
  <2>3. Paid(t, refusals + 1)
    BY <1>1, <1>2, <1>5 DEF Paid, ConstantsOK
  <2>5. Held(t, a, answered, refusals + 1)
    BY <2>3, <1>1, <1>2, <1>3, HeldAs
  <2> QED BY <2>1, <2>2, <2>5, <1>1, GoesOnInv
<1> QED BY <1>4, <1>5

\* One more factor, told to the client as a success.
LEMMA OneMore ==
  ASSUME NEW fs \in Seq(Factor), NEW f \in Factor, NEW gs, gs = Append(fs, f)
  PROVE  /\ gs \in Seq(Factor) /\ DOMAIN gs = 1..(Len(fs) + 1) /\ Len(gs) = Len(fs) + 1
         /\ DOMAIN fs = 1..Len(fs) /\ gs[Len(fs) + 1] = f /\ Len(fs) \in Nat
         /\ \A i \in DOMAIN gs : (i \in DOMAIN fs /\ gs[i] = fs[i]) \/ (i = Len(fs) + 1 /\ gs[i] = f)
<1>1. gs \in Seq(Factor) /\ Len(gs) = Len(fs) + 1 /\ Len(fs) \in Nat
  OBVIOUS
<1>2. DOMAIN gs = 1..(Len(fs) + 1) /\ DOMAIN fs = 1..Len(fs)
  BY <1>1
<1>3. gs[Len(fs) + 1] = f /\ \A i \in 1..Len(fs) : gs[i] = fs[i]
  OBVIOUS
<1>4. ASSUME NEW i \in DOMAIN gs
      PROVE  (i \in DOMAIN fs /\ gs[i] = fs[i]) \/ (i = Len(fs) + 1 /\ gs[i] = f)
  <2>1. CASE i = Len(fs) + 1
    BY <2>1, <1>3
  <2>2. CASE i \in 1..Len(fs)
    <3>1. gs[i] = fs[i] /\ i \in DOMAIN fs
      BY <2>2, <1>2, <1>3
    <3> QED BY <3>1
  <2> QED BY <2>1, <2>2, <1>1, <1>2
<1> QED BY <1>1, <1>2, <1>3, <1>4

\* What a factor needs to count: it is one of the user's, with a key that was
\* not used before and whose restrictions are carried.
Counts(t, user, f, d) ==
  /\ f \in Factor /\ f.method \in Methods[user] /\ user \in AllowedUsers
  /\ f.blob # None =>
       /\ f.blob \in Authorized[user] /\ Carries(t.caps, f.blob)
       /\ \A i \in DOMAIN answered : answered[i].blob # None => KeyOf[answered[i].blob] # KeyOf[f.blob]
       /\ d = "partial" => KeyOf[f.blob] \in t.used

AllDistinct(fs) ==
  \A i, j \in DOMAIN fs : i # j /\ fs[i].blob # None /\ fs[j].blob # None
    => KeyOf[fs[i].blob] # KeyOf[fs[j].blob]

LEMMA FactorsGrow ==
  ASSUME Inv, ConstantsOK, NEW t, NEW a, NEW user \in Users, NEW f, NEW d, NEW gs,
         Held(t, a, answered, refusals), a.bound = user, Counts(t, user, f, d),
         gs = Append(answered, f)
  PROVE  /\ gs \in Seq(Factor) /\ Earned(user, gs) /\ Carried(t.caps, gs)
         /\ d = "partial" => UsedUp(t.used, gs)
         /\ AllDistinct(gs)
<1>1. answered \in Seq(Factor) /\ f \in Factor
  BY HeldFacts DEF Counts
<1>2. /\ gs \in Seq(Factor) /\ DOMAIN gs = 1..(Len(answered) + 1)
      /\ DOMAIN answered = 1..Len(answered) /\ gs[Len(answered) + 1] = f
      /\ \A i \in DOMAIN gs :
            (i \in DOMAIN answered /\ gs[i] = answered[i]) \/ (i = Len(answered) + 1 /\ gs[i] = f)
  BY <1>1, OneMore
<1>3. Earned(user, gs)
  BY <1>2 DEF Held, Earned, Counts
<1>4. Carried(t.caps, gs)
  BY <1>2 DEF Held, Carried, Counts
<1>5. d = "partial" => UsedUp(t.used, gs)
  BY <1>2 DEF Held, UsedUp, Counts
<1>6. KeysDistinct
  BY DEF Inv, Upheld
<1>7. AllDistinct(gs)
  BY <1>2, <1>6 DEF KeysDistinct, Counts, AllDistinct
<1> QED BY <1>2, <1>3, <1>4, <1>5, <1>7

\* A partial success: the chain goes on.
LEMMA PartialInv ==
  ASSUME Inv, ConstantsOK, NEW t, NEW a, NEW b, NEW user \in Users, NEW f, NEW re,
         Held(t, a, answered, refusals), a.bound = user, Counts(t, user, f, "partial"),
         b \in Local, b.bound = a.bound, b.chains = a.chains, a.chains # {},
         b.satisfied = Append(a.satisfied, f.method),
         re.t = "failure", re.partial, Settle(<<t, re>>, b, f)
  PROVE  Inv'
<1> DEFINE out == <<t, re>>
<1>1. out[1] = t /\ out[2] = re /\ Settle(out, b, f)
  OBVIOUS
<1> HIDE DEF out
<1>2. /\ sv' = [t EXCEPT !.steps = @ + 1] /\ la' = b /\ reply' = re
      /\ answered' = Append(answered, f) /\ refusals' = refusals
  BY <1>1 DEF Settle
<1>3. /\ t \in Serving /\ t.steps \in Nat /\ t.failed \in Nat /\ t.probes \in Nat
      /\ answered \in Seq(Factor) /\ refusals \in Nat
      /\ a.satisfied \in Seq(AllMethods) /\ Paid(t, refusals)
  BY HeldFacts
<1>4. /\ sv' \in Serving /\ sv'.first = t.first /\ sv'.methods = t.methods /\ sv'.caps = t.caps
      /\ sv'.used = t.used /\ sv'.failed = t.failed /\ sv'.probes = t.probes /\ sv'.state = t.state
  <2>1. t \in Serving /\ t.steps \in Nat /\ sv' = [t EXCEPT !.steps = @ + 1]
    BY <1>2, <1>3
  <2> QED BY <2>1, StepTaken
<1>g. PICK gs : gs = Append(answered, f)
  OBVIOUS
<1>5. /\ gs \in Seq(Factor) /\ Earned(user, gs) /\ Carried(t.caps, gs) /\ UsedUp(t.used, gs)
      /\ AllDistinct(gs)
  BY <1>g, FactorsGrow
<1>6. answered' = gs /\ reply'.t = "failure"
  BY <1>g, <1>2
<1>7. Upheld'
  <2>1. LetInByChain' /\ CapsOfEveryKey'
    BY <1>6 DEF LetInByChain, CapsOfEveryKey
  <2>2. RefusalsBounded'
    BY <1>2 DEF Inv, Upheld, RefusalsBounded
  <2>3. KeysDistinct'
    BY <1>5, <1>6 DEF KeysDistinct, AllDistinct
  <2> QED BY <2>1, <2>2, <2>3 DEF Upheld
<1>8. Bound(sv', b, gs)
  <2>1. a.bound # None
    BY DEF ConstantsOK
  <2> QED BY <2>1, <1>4 DEF Held, Bound
<1>9. NoConflict => sv'.caps.force \in {None, TheCommand} /\ (b.chains # {} => Matched(b, gs))
  <2>1. f \in Factor /\ f.method \in AllMethods
    BY DEF Counts, Factor
  <2>2. ASSUME Matched(a, answered) PROVE Matched(b, gs)
    BY <2>1, <2>2, <1>g, <1>3 DEF Matched
  <2> QED BY <2>2, <1>4 DEF Held
<1>10. Paid(sv', refusals)
  BY <1>3, <1>4 DEF Paid
<1>11. Held(sv', la', answered', refusals')
  BY <1>g, <1>2, <1>3, <1>4, <1>5, <1>8, <1>9, <1>10 DEF Held
<1> QED BY <1>6, <1>7, <1>11 DEF Inv

\* The login.
LEMMA SuccessInv ==
  ASSUME Inv, ConstantsOK, NEW t, NEW a, NEW b, NEW user \in Users, NEW f,
         Held(t, a, answered, refusals), a.bound = user, Counts(t, user, f, "accept"),
         b \in Local, b.bound = a.bound, b.chains = a.chains,
         a.chains # {} => b.satisfied = Append(a.satisfied, f.method) /\ b.satisfied \in a.chains,
         Settle(<<[t EXCEPT !.state = "Done"], [t |-> "success", user |-> user, caps |-> t.caps]>>, b, f)
  PROVE  Inv'
<1> DEFINE u == [t EXCEPT !.state = "Done"]
           re == [t |-> "success", user |-> user, caps |-> t.caps]
           out == <<u, re>>
<1>1. out[1] = u /\ out[2] = re /\ Settle(out, b, f) /\ re.t = "success" /\ re.user = user /\ re.caps = t.caps
  OBVIOUS
<1>2. /\ t \in Serving /\ t.steps \in Nat /\ answered \in Seq(Factor) /\ refusals \in Nat
      /\ a.satisfied \in Seq(AllMethods)
  BY HeldFacts
<1>3. u \in Serving /\ u.state = "Done"
  BY <1>2 DEF Serving, States
<1> HIDE DEF out, re, u
<1>4. /\ sv' = [u EXCEPT !.steps = @ + 1] /\ la' = b /\ reply' = re
      /\ answered' = Append(answered, f) /\ refusals' = refusals
  BY <1>1 DEF Settle
<1>5. sv'.state = "Done"
  BY <1>3, <1>4 DEF Serving
<1>g. PICK gs : gs = Append(answered, f)
  OBVIOUS
<1>6. /\ gs \in Seq(Factor) /\ Earned(user, gs) /\ Carried(t.caps, gs)
      /\ AllDistinct(gs)
  BY <1>g, FactorsGrow
<1>7. f \in Factor /\ f.method \in AllMethods /\ user \in AllowedUsers
  BY DEF Counts, Factor
<1>8. /\ DOMAIN gs = 1..(Len(answered) + 1) /\ Len(gs) = Len(answered) + 1
      /\ DOMAIN answered = 1..Len(answered) /\ gs[Len(answered) + 1] = f /\ Len(answered) \in Nat
      /\ \A i \in DOMAIN gs :
            (i \in DOMAIN answered /\ gs[i] = answered[i]) \/ (i = Len(answered) + 1 /\ gs[i] = f)
  BY <1>g, <1>2, <1>7, OneMore
<1> DEFINE done == [i \in DOMAIN gs |-> gs[i].method]
<1>9. a.chains = Chains[user] /\ (a.chains = {} => answered = <<>>)
  BY DEF Held, Bound, ConstantsOK
<1>10. NoConflict => IF Chains[user] = {} THEN Len(done) = 1 ELSE done \in Chains[user]
  <2>1. CASE Chains[user] = {}
    <3>1. DOMAIN done = 1..1
      BY <2>1, <1>8, <1>9
    <3>2. Len(done) = 1
      BY <3>1
    <3> QED BY <3>2, <2>1
  <2>2. CASE Chains[user] # {} /\ NoConflict
    <3>1. Matched(a, answered)
      BY <2>2, <1>9 DEF Held
    <3>2. /\ b.satisfied = Append(a.satisfied, f.method) /\ b.satisfied \in Chains[user]
          /\ Len(a.satisfied) = Len(answered)
          /\ \A i \in DOMAIN answered : a.satisfied[i] = answered[i].method
      BY <3>1, <2>2, <1>9 DEF Matched
    <3>3. DOMAIN b.satisfied = DOMAIN gs
      BY <3>2, <1>2, <1>7, <1>8
    <3>4. \A i \in DOMAIN gs : b.satisfied[i] = gs[i].method
      BY <3>2, <1>2, <1>7, <1>8
    <3>5. b.satisfied = done
      BY <3>2, <3>3, <3>4, <1>2, <1>7
    <3> QED BY <3>2, <3>5, <2>2
  <2> QED BY <2>1, <2>2
<1>11. NoConflict => LetInByChain'
  BY <1>g, <1>1, <1>4, <1>6, <1>7, <1>10 DEF LetInByChain, Earned
<1>12. CapsOfEveryKey'
  BY <1>g, <1>1, <1>4, <1>6 DEF CapsOfEveryKey, Carried, Carries, KeyCaps
<1>13. KeysDistinct'
  BY <1>g, <1>4, <1>6 DEF KeysDistinct, AllDistinct
<1>14. RefusalsBounded'
  BY <1>4 DEF Inv, Upheld, RefusalsBounded
<1> QED BY <1>5, <1>11, <1>12, <1>13, <1>14 DEF Inv, Upheld

LEMMA AnswerInv ==
  ASSUME Inv, ConstantsOK, NEW t, NEW a, NEW ev, NEW user \in Users, NEW f \in Factor,
         Held(t, a, answered, refusals), a.bound = user, t.state = "AwaitingRequest",
         f.method \in t.methods, Judged(a, user, f.method, ev),
         ev[2].d \in {"accept", "partial"} => Counts(t, user, f, ev[2].d),
         Settle(ApplyDecision(t, ev[1], ev[2], user), ev[1], f)
  PROVE  Inv'
<1> DEFINE b == ev[1]  d == ev[2]
<1>1. b \in Local /\ b.bound = a.bound /\ b.chains = a.chains /\ a.bound # None
  BY DEF Judged, ConstantsOK
<1>2. d.d \in {"accept", "partial", "interactive", "reject"}
  BY DEF Judged
<1>3. CASE d.d = "accept"
  <2>1. a.chains # {} => b.satisfied = Append(a.satisfied, f.method) /\ b.satisfied \in a.chains
    BY <1>3 DEF Judged
  <2>2. ApplyDecision(t, b, d, user)
        = <<[t EXCEPT !.state = "Done"], [t |-> "success", user |-> user, caps |-> t.caps]>>
    BY <1>3 DEF ApplyDecision
  <2>3. Counts(t, user, f, "accept")
    BY <1>3
  <2>4. Settle(<<[t EXCEPT !.state = "Done"], [t |-> "success", user |-> user, caps |-> t.caps]>>, b, f)
    BY <2>2
  <2> HIDE DEF b
  <2> QED BY <2>1, <2>3, <2>4, <1>1, SuccessInv
<1>4. CASE d.d = "partial"
  <2> DEFINE re == [t |-> "failure", partial |-> TRUE, methods |-> d.next]
  <2>1. a.chains # {} /\ b.satisfied = Append(a.satisfied, f.method)
    BY <1>4 DEF Judged
  <2>2. ApplyDecision(t, b, d, user) = <<t, re>>
    BY <1>4 DEF ApplyDecision
  <2>3. Counts(t, user, f, "partial")
    BY <1>4
  <2>4. re.t = "failure" /\ re.partial /\ Settle(<<t, re>>, b, f)
    BY <2>2
  <2> HIDE DEF b, re
  <2> QED BY <2>1, <2>3, <2>4, <1>1, PartialInv
<1>5. CASE d.d = "interactive"
  <2> DEFINE u == [t EXCEPT !.state = "AwaitingInfoResponse", !.pending = user]
             re == [t |-> "info"]
  <2>1. f.method = "keyboard-interactive" /\ b.satisfied = a.satisfied
    BY <1>5 DEF Judged
  <2>2. ApplyDecision(t, b, d, user) = <<u, re>>
    BY <1>5 DEF ApplyDecision
  <2>3. re.t = "info" /\ Settle(<<u, re>>, b, f)
    BY <2>2
  <2>4. t \in Serving /\ refusals \in Nat /\ Paid(t, refusals) /\ t.failed \in Nat /\ t.probes \in Nat
    BY HeldFacts
  <2>5. /\ u \in Serving /\ u.first = t.first /\ u.methods = t.methods /\ u.caps = t.caps
        /\ u.used = t.used /\ u.failed = t.failed /\ u.probes = t.probes
    BY <2>4 DEF Serving, States
  <2> HIDE DEF b, u, re
  <2>6. Held(t, b, answered, refusals)
    BY <2>1, <1>1, HeldWith
  <2>7. Paid(u, refusals)
    BY <2>4, <2>5 DEF Paid
  <2>8. Held(u, b, answered, refusals)
    BY <2>1, <2>4, <2>5, <2>6, <2>7, <1>1, HeldAs
  <2> QED BY <2>3, <2>4, <2>8, GoesOnInv
<1>6. CASE d.d = "reject"
  <2>1. b.satisfied = a.satisfied
    BY <1>6 DEF Judged
  <2>2. ApplyDecision(t, b, d, user) = EmitFailure(t, b)
    BY <1>6 DEF ApplyDecision
  <2>3. Settle(EmitFailure(t, b), b, f)
    BY <2>2
  <2> HIDE DEF b
  <2>4. Held(t, b, answered, refusals)
    BY <2>1, <1>1, HeldWith
  <2> QED BY <2>3, <2>4, RefusedInv
<1> QED BY <1>2, <1>3, <1>4, <1>5, <1>6

-----------------------------------------------------------------------------
(* The packets.                                                            *)
LEMMA Resolved ==
  ASSUME ConstantsOK, Held(sv, la, answered, refusals), NEW user \in Users, NEW s, NEW a,
         s = Resolve(sv, la, user)[1], a = Resolve(sv, la, user)[2]
  PROVE  /\ s \in Serving /\ s.state = sv.state
         /\ Pinned(s, user) =>
              /\ Held(Pin(s, user), a, answered, refusals) /\ a.bound = user
              /\ Pin(s, user).state = sv.state /\ Pin(s, user).methods = s.methods
              /\ s.methods = Methods[user]
<1>1. /\ sv \in Serving /\ la \in Local /\ refusals \in Nat /\ la.bound \in Users \cup {None}
      /\ Paid(sv, refusals) /\ Bound(sv, la, answered) /\ None # user
      /\ Methods[user] \in SUBSET AllMethods /\ Chains[user] \in SUBSET Seq(AllMethods)
      /\ sv.failed \in Nat /\ sv.probes \in Nat
  BY HeldFacts DEF Held, ConstantsOK
<1>2. CASE la.bound = None
  <2>1. s = [sv EXCEPT !.methods = Methods[user]] /\ a = OnUserResolved(la, user)
    BY <1>2 DEF Resolve
  <2>2. a = [la EXCEPT !.bound = user, !.chains = Chains[user]]
    BY <2>1, <1>2 DEF OnUserResolved
  <2>3. /\ a \in Local /\ a.bound = user /\ a.chains = Chains[user] /\ a.satisfied = la.satisfied
    BY <2>2, <1>1 DEF Local
  <2>4. /\ s \in Serving /\ s.state = sv.state /\ s.methods = Methods[user] /\ s.first = sv.first
        /\ s.caps = sv.caps /\ s.used = sv.used /\ s.failed = sv.failed /\ s.probes = sv.probes
    BY <2>1, <1>1 DEF Serving
  <2>5. /\ la.satisfied = <<>> /\ answered = <<>> /\ sv.first = None /\ sv.state # "AwaitingInfoResponse"
    BY <1>1, <1>2 DEF Bound
  <2>6. Pin(s, user) = [s EXCEPT !.first = user]
    BY <2>4, <2>5 DEF Pin
  <2> DEFINE t == [s EXCEPT !.first = user]
  <2>7. /\ t \in Serving /\ t.state = sv.state /\ t.methods = Methods[user] /\ t.first = user
        /\ t.caps = sv.caps /\ t.used = sv.used /\ t.failed = sv.failed /\ t.probes = sv.probes
    BY <2>4 DEF Serving
  <2> HIDE DEF t
  <2>8. Bound(t, a, answered)
    BY <2>3, <2>5, <2>7, <1>1 DEF Bound
  <2>9. Earned(a.bound, answered) /\ Carried(t.caps, answered) /\ UsedUp(t.used, answered)
        /\ answered \in Seq(Factor) /\ Matched(a, answered)
    BY <2>3, <2>5 DEF Earned, Carried, UsedUp, Matched
  <2>10. Paid(t, refusals)
    BY <2>7, <1>1 DEF Paid
  <2>11. NoConflict => t.caps.force \in {None, TheCommand}
    BY <2>7 DEF Held
  <2>12. Held(t, a, answered, refusals)
    BY <2>3, <2>7, <2>8, <2>9, <2>10, <2>11, <1>1 DEF Held
  <2> QED BY <2>3, <2>4, <2>6, <2>7, <2>12 DEF t
<1>3. CASE la.bound # None
  <2>1. s = sv /\ a = la
    BY <1>3 DEF Resolve
  <2>2. /\ sv.first = la.bound /\ sv.methods = Methods[la.bound]
    BY <1>1, <1>3 DEF Bound
  <2>3. ASSUME Pinned(s, user) PROVE la.bound = user /\ Pin(s, user) = s
    BY <2>1, <2>2, <2>3, <1>1, <1>3 DEF Pinned, Pin
  <2> QED BY <2>1, <2>2, <2>3, <1>1
<1> QED BY <1>2, <1>3

LEMMA SignedKeyInv ==
  ASSUME Inv, ConstantsOK, NEW s, NEW a, NEW r, Held(s, a, answered, refusals), r.user \in Users,
         a.bound = r.user, r.blob \in Blobs, r.secret = "good", s.state = "AwaitingRequest",
         "publickey" \in s.methods, s.methods = Methods[r.user], UsedId(r.blob) \notin s.used,
         SignedKey(s, a, r)
  PROVE  Inv'
<1> PICK ev : ev = EvaluateKey(a, r)
  OBVIOUS
<1> PICK m : m = MergedCaps(s, r.blob)
  OBVIOUS
<1>1. /\ s \in Serving /\ s.caps \in CapSet /\ s.used \in SUBSET {KeyOf[b] : b \in Blobs} /\ a \in Local
      /\ refusals \in Nat /\ s.failed \in Nat /\ s.probes \in Nat /\ answered \in Seq(Factor)
      /\ Paid(s, refusals)
  BY HeldFacts
<1>2. /\ Judged(a, r.user, "publickey", ev)
      /\ ev[2].d \in {"accept", "partial"} => r.blob \in Authorized[r.user]
  BY <1>1, KeyJudged
<1>3. /\ m \in CapSet
      /\ m # Conflict =>
           /\ Carries(m, r.blob)
           /\ \A k \in Blobs : Carries(s.caps, k) => Carries(m, k)
      /\ NoConflict /\ s.caps.force \in {None, TheCommand} =>
           m # Conflict /\ m.force \in {None, TheCommand}
  BY <1>1, Merged
<1> DEFINE f == [method |-> "publickey", blob |-> r.blob]
           d == IF ev[2].d \in {"accept", "partial"} /\ m = Conflict THEN [d |-> "reject"] ELSE ev[2]
           t == IF d.d \in {"accept", "partial"} THEN [s EXCEPT !.caps = m] ELSE s
           u == IF d.d = "partial" THEN [t EXCEPT !.used = @ \cup {UsedId(r.blob)}] ELSE t
<1>4. Settle(ApplyDecision(u, ev[1], d, r.user), ev[1], f)
  BY DEF SignedKey
<1>5. f \in Factor /\ f.method = "publickey" /\ f.blob = r.blob
  BY DEF Factor, AllMethods
<1>6. CASE ev[2].d \in {"accept", "partial"} /\ m = Conflict
  <2>1. d = [d |-> "reject"] /\ u = s
    BY <1>6
  <2>2. ApplyDecision(u, ev[1], d, r.user) = EmitFailure(s, ev[1])
    BY <2>1 DEF ApplyDecision
  <2>3. ~NoConflict
    BY <1>3, <1>6 DEF Held
  <2>4. ev[1] \in Local /\ ev[1].bound = a.bound /\ ev[1].chains = a.chains /\ a.bound # None
    BY <1>2 DEF Judged, ConstantsOK
  <2> HIDE DEF f, d, u, t
  <2>5. Held(s, ev[1], answered, refusals)
    BY <2>3, <2>4, HeldWith
  <2>6. Settle(EmitFailure(s, ev[1]), ev[1], f)
    BY <2>2, <1>4
  <2> QED BY <2>5, <2>6, RefusedInv
<1>7. CASE ~(ev[2].d \in {"accept", "partial"} /\ m = Conflict)
  <2>1. d = ev[2]
    BY <1>7
  <2>2. CASE ev[2].d \in {"accept", "partial"}
    <3>1. m # Conflict /\ t = [s EXCEPT !.caps = m]
      BY <2>1, <2>2, <1>7
    <3>2. /\ t \in Serving /\ t.caps = m /\ t.used = s.used /\ t.state = s.state /\ t.first = s.first
          /\ t.methods = s.methods /\ t.failed = s.failed /\ t.probes = s.probes
      BY <3>1, <1>1, <1>3 DEF Serving
    <3>3. KeyOf[r.blob] \in {KeyOf[b] : b \in Blobs}
      OBVIOUS
    <3>4. /\ u \in Serving /\ u.caps = m /\ u.state = s.state /\ u.first = s.first
          /\ u.methods = s.methods /\ u.failed = s.failed /\ u.probes = s.probes
          /\ s.used \subseteq u.used /\ (ev[2].d = "partial" => KeyOf[r.blob] \in u.used)
      <4>1. CASE ev[2].d = "partial"
        <5> HIDE DEF t
        <5>1. u = [t EXCEPT !.used = @ \cup {KeyOf[r.blob]}]
          BY <4>1, <2>1 DEF UsedId
        <5>2. t.used \cup {KeyOf[r.blob]} \in SUBSET {KeyOf[b] : b \in Blobs}
          BY <3>2, <3>3, <1>1
        <5> HIDE DEF u
        <5>3. /\ u \in Serving /\ u.caps = t.caps /\ u.state = t.state /\ u.first = t.first
              /\ u.methods = t.methods /\ u.failed = t.failed /\ u.probes = t.probes
              /\ u.used = t.used \cup {KeyOf[r.blob]}
          BY <5>1, <5>2, <3>2 DEF Serving
        <5> QED BY <5>3, <3>2
      <4>2. CASE ev[2].d # "partial"
        <5>1. u = t
          BY <4>2, <2>1
        <5> QED BY <5>1, <3>2, <4>2
      <4> QED BY <4>1, <4>2
    <3> HIDE DEF u, t, d, f
    <3>5. Bound(u, a, answered)
      BY <3>4 DEF Held, Bound
    <3>6. Carried(u.caps, answered)
      <4> SUFFICES ASSUME NEW i \in DOMAIN answered, answered[i].blob # None
                   PROVE  Carries(u.caps, answered[i].blob)
        BY DEF Carried
      <4>1. answered[i].blob \in Blobs
        <5>1. answered[i] \in Factor
          BY <1>1
        <5> QED BY <5>1 DEF Factor
      <4>2. Carries(s.caps, answered[i].blob)
        BY DEF Held, Carried
      <4> QED BY <4>1, <4>2, <3>1, <3>4, <1>3
    <3>7. UsedUp(u.used, answered)
      BY <3>4 DEF Held, UsedUp
    <3>8. Paid(u, refusals)
      BY <3>4, <1>1 DEF Paid
    <3>9. NoConflict => u.caps.force \in {None, TheCommand} /\ (a.chains # {} => Matched(a, answered))
      BY <3>4, <1>3 DEF Held
    <3>10. Held(u, a, answered, refusals)
      BY <3>4, <3>5, <3>6, <3>7, <3>8, <3>9 DEF Held
    <3>11. r.user \in AllowedUsers
      BY <2>2, <1>2 DEF Judged
    <3>12. \A i \in DOMAIN answered : answered[i].blob # None => KeyOf[answered[i].blob] # KeyOf[f.blob]
      BY <1>5 DEF Held, UsedUp, UsedId
    <3>13. Counts(u, r.user, f, ev[2].d)
      BY <3>1, <3>4, <3>11, <3>12, <2>2, <1>2, <1>3, <1>5 DEF Counts
    <3> QED BY <3>4, <3>10, <3>13, <2>1, <1>2, <1>4, <1>5, AnswerInv
  <2>3. CASE ev[2].d \notin {"accept", "partial"}
    <3>1. u = s
      BY <2>1, <2>3
    <3> HIDE DEF u, t, d, f
    <3> QED BY <3>1, <2>1, <2>3, <1>2, <1>4, <1>5, AnswerInv
  <2> QED BY <2>2, <2>3
<1> QED BY <1>6, <1>7

LEMMA HandlePublickeyInv ==
  ASSUME Inv, ConstantsOK, NEW s, NEW a, NEW r, Held(s, a, answered, refusals), r.user \in Users,
         a.bound = r.user, r.blob \in Blobs, s.state = "AwaitingRequest",
         "publickey" \in s.methods, s.methods = Methods[r.user], HandlePublickey(s, a, r)
  PROVE  Inv'
<1>1. CASE Settle(EmitFailure(s, a), a, None)
  BY <1>1, RefusedInv
<1>2. CASE /\ UsedId(r.blob) \notin s.used /\ r.secret = "probe"
           /\ Settle(IF EvaluateKey(a, r)[2].d = "accept"
                     THEN <<s, [t |-> "pk_ok", blob |-> r.blob]>> ELSE EmitProbeFailure(s, a), a, None)
  <2>1. CASE EvaluateKey(a, r)[2].d = "accept"
    <3> DEFINE re == [t |-> "pk_ok", blob |-> r.blob]
    <3>1. re.t = "pk_ok" /\ Settle(<<s, re>>, a, None)
      BY <2>1, <1>2
    <3>2. refusals \in Nat
      BY HeldFacts
    <3> HIDE DEF re
    <3> QED BY <3>1, <3>2, GoesOnInv
  <2>2. CASE EvaluateKey(a, r)[2].d # "accept"
    BY <2>2, <1>2, ProbeRefusedInv
  <2> QED BY <2>1, <2>2
<1>3. CASE UsedId(r.blob) \notin s.used /\ r.secret = "good" /\ SignedKey(s, a, r)
  BY <1>3, SignedKeyInv
<1> QED BY <1>1, <1>2, <1>3 DEF HandlePublickey

LEMMA HandleRequestInv ==
  ASSUME Inv, ConstantsOK, NEW s, NEW a, NEW r \in Requests, Held(s, a, answered, refusals),
         a.bound = r.user, s.state = "AwaitingRequest", r.method = "none" \/ r.method \in s.methods,
         s.methods = Methods[r.user], HandleRequest(s, a, r)
  PROVE  Inv'
<1>1. r.user \in Users /\ (r.method = "publickey" => r.blob \in Blobs)
  BY DEF Requests
<1>2. a \in Local
  BY HeldFacts
<1>3. CASE r.method = "none" /\ Settle(EmitFailure(s, a), a, None)
  BY <1>3, RefusedInv
<1>4. CASE r.method = "publickey" /\ HandlePublickey(s, a, r)
  BY <1>1, <1>4, HandlePublickeyInv
<1>5. ASSUME r.method = "password", NEW ev, ev = EvaluatePassword(a, r), NEW f,
             f = [method |-> "password", blob |-> None],
             Settle(ApplyDecision(s, ev[1], ev[2], r.user), ev[1], f)
      PROVE  Inv'
  <2>1. Judged(a, r.user, "password", ev)
    BY <1>2, <1>5, PasswordJudged
  <2>2. f \in Factor /\ f.method = "password" /\ f.blob = None /\ f.method \in Methods[r.user]
    BY <1>5 DEF Factor, AllMethods
  <2>3. ev[2].d \in {"accept", "partial"} => Counts(s, r.user, f, ev[2].d)
    BY <2>1, <2>2 DEF Judged, Counts
  <2> QED BY <2>1, <2>2, <2>3, <1>1, <1>5, AnswerInv
<1>6. ASSUME r.method = "keyboard-interactive", NEW ev, ev = EvaluateInteractiveRequest(a, r), NEW f,
             f = [method |-> "keyboard-interactive", blob |-> None],
             Settle(ApplyDecision(s, ev[1], ev[2], r.user), ev[1], f)
      PROVE  Inv'
  <2>1. Judged(a, r.user, "keyboard-interactive", ev)
    BY <1>2, <1>6, InteractiveRequestJudged
  <2>2. f \in Factor /\ f.method = "keyboard-interactive" /\ f.blob = None /\ f.method \in Methods[r.user]
    BY <1>6 DEF Factor, AllMethods
  <2>3. ev[2].d \in {"accept", "partial"} => Counts(s, r.user, f, ev[2].d)
    BY <2>1, <2>2 DEF Judged, Counts
  <2> QED BY <2>1, <2>2, <2>3, <1>1, <1>6, AnswerInv
<1> QED BY <1>3, <1>4, <1>5, <1>6 DEF HandleRequest

LEMMA ProtocolErrorInv ==
  ASSUME Inv, sv.state # "Done", ProtocolError
  PROVE  Inv'
<1>1. sv \in Serving
  BY DEF Inv, Held
<1> QED BY <1>1, EndedInv DEF ProtocolError

LEMMA RecvServiceInv ==
  ASSUME Inv, ConstantsOK, RecvService
  PROVE  Inv'
<1>1. sv.state # "Done" /\ Held(sv, la, answered, refusals)
  BY DEF RecvService, Listening, Inv
<1>2. CASE sv.state = "AwaitingServiceRequest"
  <2> DEFINE t == [sv EXCEPT !.state = "AwaitingRequest"]
             re == [t |-> "service_accept"]
  <2>1. re.t = "service_accept" /\ Settle(<<t, re>>, la, None)
    BY <1>2 DEF RecvService
  <2>2. /\ sv \in Serving /\ refusals \in Nat /\ Paid(sv, refusals) /\ sv.failed \in Nat
        /\ sv.probes \in Nat
    BY <1>1, HeldFacts
  <2>3. /\ t \in Serving /\ t.first = sv.first /\ t.methods = sv.methods /\ t.caps = sv.caps
        /\ t.used = sv.used /\ t.failed = sv.failed /\ t.probes = sv.probes
        /\ t.state = "AwaitingRequest"
    BY <2>2 DEF Serving, States
  <2> HIDE DEF t, re
  <2>4. Paid(t, refusals)
    BY <2>2, <2>3 DEF Paid
  <2>5. Held(t, la, answered, refusals)
    BY <2>2, <2>3, <2>4, <1>1, HeldAs
  <2> QED BY <2>1, <2>2, <2>5, GoesOnInv
<1>3. CASE sv.state # "AwaitingServiceRequest"
  BY <1>1, <1>3, ProtocolErrorInv DEF RecvService
<1> QED BY <1>2, <1>3

LEMMA RecvRequestInv ==
  ASSUME Inv, ConstantsOK, NEW r \in Requests, RecvRequest(r)
  PROVE  Inv'
<1>1. sv.state # "Done" /\ Held(sv, la, answered, refusals) /\ r.user \in Users
  BY DEF RecvRequest, Listening, Inv, Requests
<1>2. PICK s, a : s = Resolve(sv, la, r.user)[1] /\ a = Resolve(sv, la, r.user)[2]
  OBVIOUS
<1>3. /\ s \in Serving /\ s.state = sv.state
      /\ Pinned(s, r.user) =>
           /\ Held(Pin(s, r.user), a, answered, refusals) /\ a.bound = r.user
           /\ Pin(s, r.user).state = sv.state /\ Pin(s, r.user).methods = s.methods
           /\ s.methods = Methods[r.user]
  BY <1>1, <1>2, Resolved
<1> DEFINE dropped == r.method # "none" /\ r.method \notin s.methods
<1>4. CASE ProtocolError
  BY <1>1, <1>4, ProtocolErrorInv
<1>5. CASE Settle(Disconnected(s), a, None)
  BY <1>3, <1>5, EndedInv DEF Disconnected
<1>6. CASE Pinned(s, r.user) /\ Settle(EmitFailure(Pin(s, r.user), a), a, None)
  BY <1>3, <1>6, RefusedInv
<1>7. CASE ~dropped /\ s.state = "AwaitingRequest" /\ Pinned(s, r.user) /\ HandleRequest(Pin(s, r.user), a, r)
  BY <1>3, <1>7, HandleRequestInv
<1> QED BY <1>2, <1>4, <1>5, <1>6, <1>7 DEF RecvRequest

LEMMA RecvInfoResponseInv ==
  ASSUME Inv, ConstantsOK, NEW secret, RecvInfoResponse(secret)
  PROVE  Inv'
<1>1. sv.state # "Done" /\ Held(sv, la, answered, refusals)
  BY DEF RecvInfoResponse, Listening, Inv
<1>2. CASE sv.state # "AwaitingInfoResponse"
  BY <1>1, <1>2, ProtocolErrorInv DEF RecvInfoResponse
<1>3. CASE sv.state = "AwaitingInfoResponse"
  <2> DEFINE s == [sv EXCEPT !.state = "AwaitingRequest", !.pending = None]
  <2>1. /\ sv \in Serving /\ refusals \in Nat /\ Paid(sv, refusals) /\ sv.failed \in Nat
        /\ sv.probes \in Nat /\ la \in Local /\ la.bound \in Users \cup {None}
    BY <1>1, HeldFacts
  <2>2. /\ s \in Serving /\ s.first = sv.first /\ s.methods = sv.methods /\ s.caps = sv.caps
        /\ s.used = sv.used /\ s.failed = sv.failed /\ s.probes = sv.probes
        /\ s.state = "AwaitingRequest"
    BY <2>1 DEF Serving, States
  <2>3. /\ la.bound \in Users /\ "keyboard-interactive" \in sv.methods
        /\ sv.methods = Methods[la.bound]
    BY <2>1, <1>1, <1>3 DEF Held, Bound
  <2>4. \/ Settle(EmitFailure(s, la), la, None)
        \/ \E ev, f : /\ ev = EvaluateInteractive(la, sv.pending, secret)
                      /\ f = [method |-> "keyboard-interactive", blob |-> None]
                      /\ Settle(ApplyDecision(s, ev[1], ev[2], sv.pending), ev[1], f)
    BY <1>3 DEF RecvInfoResponse
  <2> HIDE DEF s
  <2>5. Paid(s, refusals)
    BY <2>1, <2>2 DEF Paid
  <2>6. Held(s, la, answered, refusals)
    BY <2>1, <2>2, <2>5, <1>1, HeldAs
  <2>7. CASE Settle(EmitFailure(s, la), la, None)
    BY <2>6, <2>7, RefusedInv
  <2>8. ASSUME NEW ev, NEW f, ev = EvaluateInteractive(la, sv.pending, secret),
               f = [method |-> "keyboard-interactive", blob |-> None],
               Settle(ApplyDecision(s, ev[1], ev[2], sv.pending), ev[1], f)
        PROVE  Inv'
    <3>1. f \in Factor /\ f.method = "keyboard-interactive" /\ f.blob = None
      BY <2>8 DEF Factor, AllMethods
    <3>2. Judged(la, sv.pending, "keyboard-interactive", ev)
      BY <2>1, <2>8, InteractiveJudged
    <3>3. CASE la.bound = sv.pending
      <4>1. ev[2].d \in {"accept", "partial"} => Counts(s, sv.pending, f, ev[2].d)
        BY <3>1, <3>2, <3>3, <2>3 DEF Judged, Counts
      <4> QED BY <4>1, <3>1, <3>2, <3>3, <2>2, <2>3, <2>6, <2>8, AnswerInv
    <3>4. CASE la.bound # sv.pending
      <4>1. ev = Reject([la EXCEPT !.kbd = NoKbd])
        BY <3>4, <2>8 DEF EvaluateInteractive
      <4>2. ev[2].d = "reject"
        BY <4>1 DEF Reject
      <4>3. ApplyDecision(s, ev[1], ev[2], sv.pending) = EmitFailure(s, ev[1])
        BY <4>2 DEF ApplyDecision
      <4>4. ev[1] \in Local /\ ev[1].bound = la.bound /\ ev[1].chains = la.chains
            /\ ev[1].satisfied = la.satisfied /\ la.bound # None
        BY <4>2, <3>2, <2>3 DEF Judged, ConstantsOK
      <4>5. Held(s, ev[1], answered, refusals)
        BY <4>4, <2>6, HeldWith
      <4> QED BY <4>3, <4>5, <2>8, RefusedInv
    <3> QED BY <3>3, <3>4
  <2> QED BY <2>4, <2>7, <2>8
<1> QED BY <1>2, <1>3

LEMMA InitInv == ASSUME ConstantsOK PROVE ServerInit => Inv
<1> SUFFICES ASSUME ServerInit PROVE Inv
  OBVIOUS
<1>1. /\ reply.t = None /\ answered = <<>> /\ refusals = 0 /\ None # "success" /\ None # "conflict"
  BY DEF ServerInit, None
<1>2. Upheld
  BY <1>1 DEF Upheld, LetInByChain, KeysDistinct, CapsOfEveryKey, RefusalsBounded, ConstantsOK
<1>3. /\ sv.state = "AwaitingServiceRequest" /\ sv.first = None /\ sv.methods = {} /\ sv.failed = 0
      /\ sv.probes = 0 /\ sv.used = {} /\ sv.caps = Free
  BY DEF ServerInit
<1>4. sv \in Serving
  BY FreeOK DEF ServerInit, Serving, States
<1>5. /\ la.bound = None /\ la.chains = {} /\ la.satisfied = <<>>
  BY DEF ServerInit
<1>6. la \in Local
  BY DEF ServerInit, Local, NoKbd
<1>7. Bound(sv, la, answered) /\ Earned(la.bound, answered) /\ Carried(sv.caps, answered)
      /\ UsedUp(sv.used, answered) /\ answered \in Seq(Factor)
  BY <1>1, <1>3, <1>5 DEF Bound, Earned, Carried, UsedUp
<1>8. Paid(sv, refusals)
  BY <1>1, <1>3 DEF Paid, ConstantsOK
<1>9. Held(sv, la, answered, refusals)
  BY <1>1, <1>3, <1>4, <1>5, <1>6, <1>7, <1>8, FreeOK DEF Held
<1> QED BY <1>1, <1>2, <1>9 DEF Inv

LEMMA NextInv == ASSUME ConstantsOK PROVE Inv /\ [AnyClient]_serverVars => Inv'
<1> SUFFICES ASSUME Inv, [AnyClient]_serverVars PROVE Inv'
  OBVIOUS
<1>1. CASE RecvService
  BY <1>1, RecvServiceInv
<1>2. ASSUME NEW r \in Requests, RecvRequest(r) PROVE Inv'
  BY <1>2, RecvRequestInv
<1>3. ASSUME NEW secret \in {"good", "bad", "short"}, RecvInfoResponse(secret) PROVE Inv'
  BY <1>3, RecvInfoResponseInv
<1>4. CASE TooManySteps
  BY <1>4, ProtocolErrorInv DEF TooManySteps
<1>5. CASE UNCHANGED serverVars
  <2>1. sv' = sv /\ la' = la /\ reply' = reply /\ answered' = answered /\ refusals' = refusals
    BY <1>5 DEF serverVars
  <2> QED BY <2>1 DEF Inv, Upheld, LetInByChain, KeysDistinct, CapsOfEveryKey, RefusalsBounded
<1> QED BY <1>1, <1>2, <1>3, <1>4, <1>5 DEF AnyClient

(* Where no two keys' forced commands conflict: nobody is let in but by a  *)
(* complete chain of the policy of the one name the connection used, in    *)
(* order, each factor answered as a success, each method enabled for that  *)
(* user and each key authorised - for any client, any number of packets    *)
(* and any policy (LocalAuthenticator, ServerAuth, do_server_auth).        *)
THEOREM LetIn == ASSUME ConstantsOK, NoConflict PROVE ServerSpec => []LetInByChain
<1>1. ServerInit => Inv
  BY InitInv
<1>2. Inv /\ [AnyClient]_serverVars => Inv'
  BY NextInv
<1>3. Inv => LetInByChain
  BY DEF Inv, Upheld
<1> QED BY <1>1, <1>2, <1>3, PTL DEF ServerSpec

(* Conflicting commands or not: no key, as itself and in a certificate, is *)
(* two factors of one login, a login carries the restrictions of every key *)
(* that earned it, and a client hears at most MaxAuthTries refusals and    *)
(* MaxPkOk free ones (used_keys, pending_cert_caps, emit_probe_failure).   *)
THEOREM Restricted ==
  ASSUME ConstantsOK PROVE ServerSpec => [](KeysDistinct /\ CapsOfEveryKey /\ RefusalsBounded)
<1>1. ServerInit => Inv
  BY InitInv
<1>2. Inv /\ [AnyClient]_serverVars => Inv'
  BY NextInv
<1>3. Inv => KeysDistinct /\ CapsOfEveryKey /\ RefusalsBounded
  BY DEF Inv, Upheld
<1> QED BY <1>1, <1>2, <1>3, PTL DEF ServerSpec
=============================================================================
