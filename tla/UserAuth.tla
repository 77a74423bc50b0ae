------------------------------ MODULE UserAuth ------------------------------
(***************************************************************************)
(* A client authenticating to the server of ServerAuth: the ClientAuth     *)
(* state machine (auth/client.rs) that walks a queue of credentials, and   *)
(* the loop that drives it (run_auth, client.rs).  Userauth is lock-step,  *)
(* so each direction holds one packet; the server's EXT_INFO may come at   *)
(* any moment of it.                                                       *)
(***************************************************************************)
EXTENDS ServerAuth

CONSTANTS
  User,            \* the login name
  Wallets,         \* the lists of credentials considered
  PubkeyAccepted,  \* the client's PubkeyAcceptedAlgorithms
  ServerSigAlgs,   \* what the server's EXT_INFO will say
  Mismatched       \* the host key differed from the known one

VARIABLES cl, toServer, toClient, sigAlgs, offered
clientVars == <<cl, toServer, toClient, sigAlgs, offered>>
authVars == <<serverVars, clientVars>>

Nothing == [t |-> "nothing"]
Unset == {}
Declined == 99  \* the user gives no answer at the prompt

(* ClientCredential: method, blob, what the far side will think of it, the *)
(* signature algorithm and those the same key could use, and how often a   *)
(* prompt is answered wrongly before it is answered right.                 *)
MethodName(c) == IF c.m = "prompt" THEN "password" ELSE c.m

(* HostKey::upgraded_for: the preferred SHA-2 variant the list names.      *)
UpgradedFor(c, algs) ==
  IF c.algs \cap algs = {} THEN None
  ELSE LET best == IF "rsa512" \in c.algs \cap algs THEN "rsa512"
                   ELSE CHOOSE a \in c.algs \cap algs : TRUE
       IN  IF best = c.alg THEN None ELSE best

(* One credential through the filters of advance_to_next_credential: the   *)
(* local PubkeyAcceptedAlgorithms, then server-sig-algs once it is known.  *)
Fits(c, algs) == algs = Unset \/ c.alg \in algs
Filter(c, algs) ==
  IF Fits(c, algs) THEN c.alg ELSE UpgradedFor(c, algs)
OfferedAs(c) ==
  LET local == Filter(c, PubkeyAccepted)
  IN  IF local = None THEN None ELSE Filter([c EXCEPT !.alg = local], sigAlgs)

(* Whether a credential is passed over without a packet.                   *)
Skipped(c, cont) ==
  \/ cont # {} /\ MethodName(c) \notin cont
  \/ c.m = "publickey" /\ OfferedAs(c) = None
  \/ c.m = "prompt" /\ c.wrong = Declined

(* filter_credentials_after_mismatch                                       *)
Kept(wallet) == IF Mismatched THEN SelectSeq(wallet, LAMBDA c : c.m \in {"publickey", "none"})
                ELSE wallet

Init ==
  /\ ServerInit
  /\ \E w \in Wallets :
       cl = [state |-> "AwaitingServiceAccept", creds |-> Kept(w), cur |-> None, cont |-> {},
             wallet |-> w, steps |-> 0]
  /\ toServer = [t |-> "service"]
  /\ toClient = Nothing
  /\ sigAlgs = Unset
  /\ offered = {}

-----------------------------------------------------------------------------
(* emit_current_request: the packet a credential opens with.               *)
Opening(c) ==
  [t |-> "request",
   r |-> [user |-> User, method |-> MethodName(c), blob |-> c.blob,
          secret |-> CASE c.m = "publickey" -> "probe"
                       [] c.m = "prompt" -> IF c.wrong > 0 THEN "bad" ELSE "good"
                       [] OTHER -> c.secret]]
Waiting(c) ==
  CASE c.m = "publickey" -> "AwaitingPkOk"
    [] c.m = "keyboard-interactive" -> "AwaitingKbdintResult"
    [] c.m = "none" -> "AwaitingNoneResult"
    [] OTHER -> "AwaitingPasswordResult"

(* advance_to_next_credential: drop what is passed over, offer the first   *)
(* that is not, or give up.                                                *)
Advance(creds, cont) ==
  LET left == {i \in DOMAIN creds : ~Skipped(creds[i], cont)}
      i == CHOOSE x \in left : \A y \in left : x <= y
  IN  IF left = {}
      THEN /\ cl' = [cl EXCEPT !.state = "Failed", !.creds = <<>>, !.cur = None, !.cont = cont,
                               !.steps = @ + 1]
           /\ toServer' = Nothing
           /\ UNCHANGED offered
      ELSE /\ cl' = [cl EXCEPT !.state = Waiting(creds[i]), !.cont = cont, !.cur = creds[i],
                               !.creds = SubSeq(creds, i + 1, Len(creds)), !.steps = @ + 1]
           /\ toServer' = Opening(creds[i])
           /\ offered' = IF creds[i].m = "publickey"
                         THEN offered \cup {OfferedAs(creds[i])} ELSE offered

(* on_auth_result, on a failure: a wrong password at a prompt is asked for *)
(* again as long as the server would still take one.                       *)
AskAgain(p) == cl.cur.m = "prompt" /\ ~p.partial /\ "password" \in p.methods
OnFailure(p) ==
  Advance(IF AskAgain(p) THEN <<[cl.cur EXCEPT !.wrong = IF @ > 0 THEN @ - 1 ELSE 0]>> \o cl.creds
          ELSE cl.creds, p.methods)

(* send_pk_signed: sign, or go on to the next credential when the key      *)
(* cannot (an agent or token that refuses).                                *)
SendPkSigned(p) ==
  \/ /\ p.blob = cl.cur.blob /\ cl.cur.secret = "refuses"
     /\ Advance(cl.creds, cl.cont)
  \/ /\ p.blob = cl.cur.blob /\ cl.cur.secret # "refuses"
     /\ cl' = [cl EXCEPT !.state = "AwaitingPkResult", !.steps = @ + 1]
     /\ toServer' = [t |-> "request",
                     r |-> [user |-> User, method |-> "publickey", blob |-> p.blob,
                            secret |-> cl.cur.secret]]
     /\ UNCHANGED offered

(* on_packet                                                               *)
ClientRecv ==
  /\ cl.state \notin {"Success", "Failed", "Error"}
  /\ toClient # Nothing
  /\ toClient' = Nothing
  /\ LET p == toClient
     IN  \/ /\ cl.state = "AwaitingServiceAccept" /\ p.t = "service_accept"
            /\ Advance(cl.creds, cl.cont)
         \/ p.t = "failure" /\ OnFailure(p)
         \/ cl.state = "AwaitingPkOk" /\ p.t = "pk_ok" /\ SendPkSigned(p)
         \/ /\ cl.state = "AwaitingKbdintResult" /\ p.t = "info"
            /\ cl' = [cl EXCEPT !.steps = @ + 1]
            /\ toServer' = [t |-> "info_response", secret |-> cl.cur.secret]
            /\ UNCHANGED offered
         \/ /\ p.t = "success"
            /\ cl' = [cl EXCEPT !.state = "Success", !.cur = None, !.steps = @ + 1]
            /\ toServer' = Nothing
            /\ UNCHANGED offered
         \/ /\ p.t \in {"disconnect", "error"}
            /\ cl' = [cl EXCEPT !.state = "Error", !.cur = None]
            /\ toServer' = Nothing
            /\ UNCHANGED offered
  /\ UNCHANGED <<serverVars, sigAlgs>>

(* The server's handler of the packet in flight; its reply goes out.       *)
ServerRecv ==
  /\ toServer # Nothing
  /\ \/ toServer.t = "service" /\ RecvService
     \/ toServer.t = "request" /\ RecvRequest(toServer.r)
     \/ toServer.t = "info_response" /\ RecvInfoResponse(toServer.secret)
     \/ TooManySteps
  /\ toServer' = Nothing
  /\ toClient' = reply'
  /\ UNCHANGED <<cl, sigAlgs, offered>>

(* set_server_sig_algs: run_auth picks up an EXT_INFO that came late.      *)
ExtInfo ==
  /\ sigAlgs = Unset /\ ServerSigAlgs # Unset
  /\ sigAlgs' = ServerSigAlgs
  /\ UNCHANGED <<serverVars, cl, toServer, toClient, offered>>

Over == cl.state \in {"Success", "Failed", "Error"} /\ toServer = Nothing /\ UNCHANGED authVars
Next == ClientRecv \/ ServerRecv \/ ExtInfo \/ Over
Spec == Init /\ [][Next]_authVars
-----------------------------------------------------------------------------
(* What a wallet is worth: some chain of the user's is a subsequence of    *)
(* its good credentials, and its bad ones do not use up the tries.         *)
Good(c) ==
  /\ User \in AllowedUsers /\ MethodName(c) \in Methods[User]
  /\ \/ c.m = "publickey" /\ c.secret = "good" /\ c.blob \in Authorized[User]
     \/ c.m # "publickey" /\ c.m # "none" /\ c.secret = "good"
Covers(w, chain) ==
  \E f \in [DOMAIN chain -> DOMAIN w] :
    \A i \in DOMAIN chain :
      /\ Good(w[f[i]]) /\ MethodName(w[f[i]]) = chain[i]
      /\ w[f[i]].m = "prompt" => w[f[i]].wrong # Declined
      /\ i > 1 => f[i - 1] < f[i] /\ (w[f[i]].blob # None => w[f[i]].blob # w[f[i - 1]].blob)

(* A client that holds the factors of a chain, in that order, is let in:   *)
(* until it is, one of the two sides has a step to take, and it ends in no *)
(* other way, whatever useless credentials stand between the factors: the  *)
(* continuations of a failure steer it past those without spending a try   *)
(* on them.  Chains that part before their last factor are left out: the   *)
(* server commits to the factor it sees first.                             *)
EnoughIsEnough ==
  (\E chain \in Chains[User] : Covers(cl.wallet, chain)) =>
    cl.state = "Success" \/ (cl.state \notin {"Failed", "Error"} /\ ENABLED (ClientRecv \/ ServerRecv))

(* No secret the user could type is sent to a host whose key changed, by   *)
(* any path through the credentials (filter_credentials_after_mismatch).   *)
NothingTypedAfterMismatch ==
  Mismatched /\ toServer.t = "request" => toServer.r.method \in {"publickey", "none"}

(* The client's own algorithm policy holds for every key it offers: the    *)
(* comment on set_pubkey_accepted calls it "the stricter gate".            *)
=============================================================================
