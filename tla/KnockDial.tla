----------------------------- MODULE KnockDial ------------------------------
(***************************************************************************)
(* How a client that may knock gets its connection                         *)
(* (knock/client.rs, connect_or_knock_addrs): the addresses in turn, and   *)
(* for each a TCP attempt in a thread of its own, raced by a knock once    *)
(* the attempt has failed or the fallback delay is over.                   *)
(***************************************************************************)
EXTENDS Naturals, Sequences, FiniteSets

CONSTANTS Addresses,   \* how many addresses the name resolves to
          Modes        \* the KnockModes to try

VARIABLES mode, at,        \* the mode; the address being tried
          pc,              \* where the caller is
          tcp,             \* each address' TCP attempt: "none", "pending", "ok", "error"
          taken,           \* the result the caller took out of the slot, or "none"
          knock,           \* the knock's end: "none", "accepted", "silent", "error"
          result,          \* what connect_or_knock returned
          usable           \* history: connections made before the caller returned
vars == <<mode, at, pc, tcp, taken, knock, result, usable>>

Init ==
  /\ mode \in Modes /\ at = 1 /\ pc = "next"
  /\ tcp = [a \in 1..Addresses |-> "none"]
  /\ taken = "none" /\ knock = "none" /\ result = "none" /\ usable = {}

Return(r) == result' = r /\ pc' = "done"

(* The loop of connect_or_knock_addrs: an error goes to the next address,  *)
(* the last error is returned.                                             *)
NextAddress ==
  /\ taken' = "none" /\ knock' = "none"
  /\ IF at < Addresses THEN at' = at + 1 /\ pc' = "next" /\ UNCHANGED result
     ELSE Return("error") /\ UNCHANGED at

Begin ==
  /\ pc = "next"
  /\ IF mode = "always" THEN pc' = "knocking" /\ UNCHANGED tcp
     ELSE /\ tcp' = [tcp EXCEPT ![at] = "pending"]
          /\ pc' = IF mode = "never" THEN "dial" ELSE "fallback"
  /\ UNCHANGED <<mode, at, taken, knock, result, usable>>

(* The dialling thread, also of an address the caller has left.            *)
TcpEnds(a) ==
  /\ tcp[a] = "pending"
  /\ \/ tcp' = [tcp EXCEPT ![a] = "ok"] /\ usable' = IF pc = "done" THEN usable ELSE usable \cup {<<"direct", a>>}
     \/ tcp' = [tcp EXCEPT ![a] = "error"] /\ UNCHANGED usable
  /\ UNCHANGED <<mode, at, pc, taken, knock, result>>

DialEnds ==
  /\ pc = "dial" /\ tcp[at] # "pending"
  /\ IF tcp[at] = "ok" THEN Return("direct") /\ UNCHANGED <<at, taken, knock>> ELSE NextAddress
  /\ UNCHANGED <<mode, tcp, usable>>

(* recv_timeout, then the slot: a stream is returned, an error is kept for *)
(* later, an empty slot means the delay is over.                           *)
Fallback ==
  /\ pc = "fallback"
  /\ IF tcp[at] = "ok" THEN Return("direct") /\ UNCHANGED taken
     ELSE /\ pc' = "knocking" /\ UNCHANGED result
          /\ taken' = IF tcp[at] = "error" THEN "error" ELSE "none"
  /\ UNCHANGED <<mode, at, tcp, knock, usable>>

(* knock ends: with an ACCEPT, with none (at once if the TCP attempt has   *)
(* connected), or with an error.                                           *)
Racing == mode = "auto" /\ taken = "none"
KnockEnds(k) ==
  /\ pc = "knocking" /\ knock = "none"
  /\ knock' = k
  /\ pc' = CASE k = "accepted" -> "connecting"
             [] k # "accepted" /\ Racing -> "join"
             [] OTHER -> "failed"
  /\ UNCHANGED <<mode, at, tcp, taken, result, usable>>

(* knocked: connect to the rendezvous; its failure is the address' failure. *)
Connect ==
  /\ pc = "connecting"
  /\ \/ Return("knocked") /\ usable' = usable \cup {<<"knocked", at>>}
     \/ pc' = "failed" /\ UNCHANGED <<result, usable>>
  /\ UNCHANGED <<mode, at, tcp, taken, knock>>

(* No answer to the knock: the TCP attempt decides.                        *)
Join ==
  /\ pc = "join" /\ tcp[at] # "pending"
  /\ IF tcp[at] = "ok" THEN Return("direct") /\ UNCHANGED <<at, taken, knock>> ELSE NextAddress
  /\ UNCHANGED <<mode, tcp, usable>>

AddressFailed ==
  /\ pc = "failed" /\ NextAddress /\ UNCHANGED <<mode, tcp, usable>>

Done == pc = "done" /\ UNCHANGED vars

Next ==
  \/ Begin \/ DialEnds \/ Fallback \/ Connect \/ Join \/ AddressFailed \/ Done
  \/ \E a \in 1..Addresses : TcpEnds(a)
  \/ \E k \in {"accepted", "silent", "error"} : KnockEnds(k)

(* The operating system ends every connection attempt and the knock has a  *)
(* time limit; the caller's thread runs.                                   *)
Spec ==
  /\ Init /\ [][Next]_vars
  /\ \A a \in 1..Addresses : WF_vars(TcpEnds(a))
  /\ WF_vars(Begin \/ DialEnds \/ Fallback \/ Connect \/ Join \/ AddressFailed)
  /\ WF_vars(\E k \in {"accepted", "silent", "error"} : KnockEnds(k))

-----------------------------------------------------------------------------
(* An address is given up only once its TCP attempt has failed, or its     *)
(* knock was answered and the rendezvous did not connect (auto_one).       *)
GivenUp(a) == tcp[a] # "none" /\ (a < at \/ result = "error")
GaveUpForCause ==
  \A a \in 1..Addresses : (GivenUp(a)' /\ ~GivenUp(a)) => (tcp[a] = "error" \/ knock = "accepted")

=============================================================================
