------------------------------- MODULE Knock --------------------------------
(***************************************************************************)
(* Port knocking (knock/): clients send one signed datagram, again on a    *)
(* schedule, over a network that loses, repeats and delays; the server     *)
(* checks it against the keys of one user, opens a rendezvous listener and *)
(* hands over the first connection that presents the token.  The key list  *)
(* is edited and the server restarts meanwhile.  A datagram that was sent  *)
(* may arrive any number of times, at any time, or never.                  *)
(***************************************************************************)
EXTENDS Integers, Sequences, SequencesExt, FiniteSets, FiniteSetsExt, TLAPS

CONSTANTS
  Clients,             \* one knock each
  KeyOf, SourceOf,     \* the key it signs with, the address it sends from
  Signed,              \* "good", "bad1" (sig1 does not verify), "bad2" (sig2)
  Behind,              \* how far its clock is behind the server's (ahead if negative)
  HasHostKey,          \* a host key it accepts fits into its datagram
  Keys, Ports,
  Listings,            \* key lists the source goes through, in order
  Skew, Window, TokenTimeout, MaxPending, CacheTtl,
  Burst, VerifyBurst,  \* tokens of a per-source bucket, of the global buckets
  MaxSlots,            \* prefixes (and first signatures) remembered per key
  Retransmit, GiveUp,  \* the client's schedule
  Start, MaxTime, MaxRestarts

VARIABLES
  now, listing,                          \* the clock; how far the key list has got
  cache, entries, verify, lookups, prefixLookups, floor,   \* KnockState
  rendezvous, restarts,                  \* KnockServer
  client, nonce, started, sends, accept, \* the clients
  knocks, accepts, dialled,              \* the network
  opened, earlier, sessions              \* history: rendezvous opened, of them before the
                                         \* server's last start; connections handed over
server == <<cache, entries, verify, lookups, prefixLookups, floor, rendezvous>>
clients == <<client, nonce, started, sends, accept>>
vars == <<now, listing, server, restarts, clients, knocks, accepts, dialled, opened, earlier, sessions>>

MAX_STRIKES == 3
MAX_CONNS == 4
NoCache == [loaded |-> 0, keys |-> {}]
NoKnock == "none"
NoAccept == [port |-> 0, n |-> 0, expiry |-> 0]

-----------------------------------------------------------------------------
(* Bucket: one token a tick, up to the burst.                              *)
NewBucket(tokens) == [tokens |-> tokens, at |-> now]
Refilled(b, burst) == LET t == Min({burst, b.tokens + (now - b.at)}) IN [tokens |-> t, at |-> now]
CanTake(b, burst) == Refilled(b, burst).tokens > 0
Take(b, burst) == [Refilled(b, burst) EXCEPT !.tokens = IF @ = 0 THEN 0 ELSE @ - 1]

With(f, k, v) == [x \in DOMAIN f \cup {k} |-> IF x = k THEN v ELSE f[x]]
Without(f, ks) == [x \in DOMAIN f \ ks |-> f[x]]

NewEntry == [sig1 |-> <<>>, newsig1 |-> NewBucket(Burst), newprefix |-> NewBucket(Burst),
             nonce |-> 0, hash |-> NoKnock, accept |-> NoAccept, slots |-> <<>>, pending |-> 0]

(* A table of buckets by source prefix: a new prefix displaces the least   *)
(* recently used of the worst when the table is full and starts low.       *)
Slotted(slots, p, low) ==
  IF p \in DOMAIN slots THEN slots
  ELSE IF Cardinality(DOMAIN slots) < MaxSlots THEN With(slots, p, [b |-> NewBucket(Burst), good |-> FALSE])
  ELSE LET bad == {q \in DOMAIN slots : ~slots[q].good}
           lru == CHOOSE q \in (IF bad = {} THEN DOMAIN slots ELSE bad) :
                    \A r \in (IF bad = {} THEN DOMAIN slots ELSE bad) : slots[q].b.at <= slots[r].b.at
       IN  With(Without(slots, {lru}), p, [b |-> NewBucket(Min({low, Burst})), good |-> FALSE])
Drawn(slots, p) == [slots EXCEPT ![p].b = Take(@, Burst)]

-----------------------------------------------------------------------------
(* load_user_keys: a fresh cache answers; a user who may not knock loses   *)
(* cache and entries; a lookup the buckets refuse is answered from the old *)
(* cache; a lookup drops the entries of keys no longer listed.             *)
Fresh == cache # NoCache /\ now - cache.loaded < CacheTtl
MayKnock == Listings[listing] # {}
LookupTable(c) == Slotted(prefixLookups, SourceOf[c], 1)
PrefixGives(c) == CanTake(LookupTable(c)[SourceOf[c]].b, Burst)
LookupGiven(c) == PrefixGives(c) /\ CanTake(lookups, VerifyBurst)

Loaded(c) ==
  CASE Fresh -> [ok |-> TRUE, cache |-> cache, entries |-> entries, looked |-> FALSE]
    [] ~Fresh /\ ~MayKnock ->
         [ok |-> TRUE, cache |-> NoCache, looked |-> FALSE,
          entries |-> IF cache # NoCache THEN Without(entries, DOMAIN entries) ELSE entries]
    [] ~Fresh /\ MayKnock /\ ~LookupGiven(c) ->
         [ok |-> cache # NoCache, cache |-> cache, entries |-> entries, looked |-> TRUE]
    [] OTHER -> [ok |-> TRUE, cache |-> [loaded |-> now, keys |-> Listings[listing]], looked |-> TRUE,
                 entries |-> Without(entries, DOMAIN entries \ Listings[listing])]

(* The first signature: found among the last accepted ones, or verified at *)
(* the price of two tokens.                                                *)
Sig1Cached(e, c) == c \in Range(e.sig1)
Sig1Front(e, c) == SubSeq(<<c>> \o SelectSeq(e.sig1, LAMBDA s : s # c), 1,
                          Min({MaxSlots, Len(e.sig1) + (IF Sig1Cached(e, c) THEN 0 ELSE 1)}))

\* Mutant of Stale: the floor set at start-up is not looked at.
StaleWithoutFloor(e, c) == nonce[c] <= e.nonce

(* A nonce at or below the last one, or from before the server started.    *)
Stale(e, c) == nonce[c] <= e.nonce \/ nonce[c] < floor

(* handle, after the key was found: the verdict, the entry and the verify  *)
(* bucket afterwards.                                                      *)
Verdict(e0, c) ==
  LET paid1 == ~Sig1Cached(e0, c)
      canPay1 == CanTake(e0.newsig1, Burst) /\ CanTake(verify, VerifyBurst)
      e1 == IF paid1 THEN [e0 EXCEPT !.newsig1 = Take(@, Burst)] ELSE e0
      v1 == IF paid1 /\ CanTake(e0.newsig1, Burst) THEN Take(verify, VerifyBurst) ELSE verify
      e2 == [e1 EXCEPT !.sig1 = Sig1Front(e1, c)]
      slots == Slotted(e2.slots, SourceOf[c], 2)
      src == slots[SourceOf[c]]
      e3 == [e2 EXCEPT !.slots = Drawn(slots, SourceOf[c])]
      same == nonce[c] = e2.nonce /\ e2.hash = c
      e4 == IF CanTake(src.b, Burst) /\ ~src.good THEN [e3 EXCEPT !.newprefix = Take(@, Burst)] ELSE e3
      passed == CanTake(src.b, Burst) /\ (src.good \/ CanTake(e3.newprefix, Burst))
      v2 == IF passed THEN Take(v1, VerifyBurst) ELSE v1
      e5 == [e4 EXCEPT !.slots[SourceOf[c]].good = TRUE, !.nonce = nonce[c], !.hash = c, !.accept = NoAccept]
      drop(e, v) == [what |-> "drop", entry |-> e, verify |-> v]
  IN  IF paid1 /\ (~canPay1 \/ Signed[c] = "bad1") THEN drop(e1, v1)
      ELSE IF same /\ e2.accept # NoAccept /\ now < e2.accept.expiry
           THEN [what |-> IF CanTake(src.b, Burst) THEN "resend" ELSE "drop", entry |-> e3, verify |-> v1]
      ELSE IF Stale(e2, c) THEN drop(e2, v1)
      ELSE IF ~passed \/ ~CanTake(v1, VerifyBurst) \/ Signed[c] = "bad2" THEN drop(e4, v2)
      ELSE IF e5.pending >= MaxPending \/ ~HasHostKey[c] THEN drop(e5, v2)
      ELSE [what |-> "accept", entry |-> [e5 EXCEPT !.pending = @ + 1], verify |-> v2]

(* release_pending: the entry may be gone by now.                          *)
Release(es, k) == IF k \in DOMAIN es /\ es[k].pending > 0 THEN [es EXCEPT ![k].pending = @ - 1] ELSE es

FreePorts == Ports \ {r.port : r \in rendezvous}

(* A rendezvous that cannot be opened gives its place back.                *)
Failed(es, c) == Release(es, KeyOf[c])

(* handle_datagram with complete: bind a listener, derive the token, keep  *)
(* the answer for retransmissions, open the rendezvous, answer.            *)
Open(es, c, p) ==
  /\ rendezvous' = rendezvous \cup
       {[knock |-> c, n |-> opened[c] + 1, port |-> p, allowed |-> SourceOf[c], key |-> KeyOf[c],
         deadline |-> now + Window, strikes |-> 0, conns |-> {}]}
  /\ entries' = IF es[KeyOf[c]].hash = c
                THEN [es EXCEPT ![KeyOf[c]].accept = [port |-> p, n |-> opened[c] + 1, expiry |-> now + Window]]
                ELSE es
  /\ accepts' = accepts \cup {[knock |-> c, port |-> p, n |-> opened[c] + 1]}
  /\ opened' = [opened EXCEPT ![c] = @ + 1]

(* One datagram off the UDP socket.                                        *)
HandleDatagram(c) ==
  /\ c \in knocks
  /\ UNCHANGED <<now, listing, floor, restarts, clients, knocks, dialled, earlier, sessions>>
  /\ LET l == Loaded(c) IN
     IF (IF nonce[c] < now THEN now - nonce[c] ELSE nonce[c] - now) > Skew
     THEN UNCHANGED <<cache, entries, verify, lookups, prefixLookups, rendezvous, accepts, opened>>
     ELSE /\ cache' = l.cache
          /\ prefixLookups' = IF l.looked THEN Drawn(LookupTable(c), SourceOf[c]) ELSE prefixLookups
          /\ lookups' = IF l.looked /\ PrefixGives(c) THEN Take(lookups, VerifyBurst) ELSE lookups
          /\ IF ~l.ok \/ KeyOf[c] \notin l.cache.keys
             THEN entries' = l.entries /\ UNCHANGED <<verify, rendezvous, accepts, opened>>
             ELSE LET e == IF KeyOf[c] \in DOMAIN l.entries THEN l.entries[KeyOf[c]] ELSE NewEntry
                      v == Verdict(e, c)
                      es == With(l.entries, KeyOf[c], v.entry)
                  IN  /\ verify' = v.verify
                      /\ \/ /\ v.what = "drop"
                            /\ entries' = es /\ UNCHANGED <<rendezvous, accepts, opened>>
                         \/ /\ v.what = "resend"
                            /\ accepts' = accepts \cup {[knock |-> c, port |-> v.entry.accept.port, n |-> v.entry.accept.n]}
                            /\ entries' = es /\ UNCHANGED <<rendezvous, opened>>
                         \/ /\ v.what = "accept"
                            /\ \/ \E p \in FreePorts : Open(es, c, p)
                               \/ entries' = Failed(es, c) /\ UNCHANGED <<rendezvous, accepts, opened>>

-----------------------------------------------------------------------------
(* service and process, for one rendezvous: take what is waiting on the    *)
(* listener, read the tokens that have come (`arrived`), hand over the     *)
(* first right one; too many failures or the deadline close it.            *)
Dialling(r) == {d \in dialled : d.port = r.port}
Admitted(r, new) ==
  r.conns \cup {[from |-> d.from, n |-> d.n, deadline |-> now + TokenTimeout] : d \in new}

TokenFits(r, x) == x.from = r.knock /\ x.n = r.n

(* The listener goes and its place is given back.                          *)
Closed(r) == rendezvous' = rendezvous \ {r} /\ entries' = Release(entries, r.key)

Service(r, arrived, fails) ==
  LET allowed == {d \in Dialling(r) : SourceOf[d.from] = r.allowed}
      new == IF Cardinality(r.conns) + Cardinality(allowed) <= MAX_CONNS THEN allowed ELSE {}
      conns == Admitted(r, new)
      read == {x \in conns : x.from \in arrived /\ now < x.deadline}
      right == {x \in read : TokenFits(r, x)}
      lost == (read \ right) \cup {x \in conns : now >= x.deadline}
      over == [r EXCEPT !.conns = conns \ (lost \cup right), !.strikes = @ + Cardinality(lost)]
      gone == {x.from : x \in lost} \cup {d.from : d \in Dialling(r) \ new}
  IN  /\ arrived \subseteq {x.from : x \in conns}
      /\ dialled' = dialled \ Dialling(r)
      /\ IF right # {} /\ ~fails
         THEN /\ Closed(r)
              /\ sessions' = sessions \cup {[knock |-> r.knock, n |-> r.n, by |-> x.from] : x \in right}
              /\ client' = [c \in Clients |-> IF \E x \in right : x.from = c THEN "connected"
                                              ELSE IF c \in gone \cup {x.from : x \in conns} THEN "failed" ELSE client[c]]
         ELSE /\ client' = [c \in Clients |-> IF c \in gone \cup {x.from : x \in right} THEN "failed" ELSE client[c]]
              /\ IF now >= r.deadline \/ over.strikes >= MAX_STRIKES
                 THEN Closed(r)
                 ELSE rendezvous' = (rendezvous \ {r}) \cup {over} /\ UNCHANGED entries
              /\ UNCHANGED sessions
      /\ UNCHANGED <<now, listing, cache, verify, lookups, prefixLookups, floor, restarts, nonce, started, sends,
                     accept, knocks, accepts, opened, earlier>>

(* The process ends and starts again: KnockState::new, nothing is kept but *)
(* the clock, which has moved on.                                          *)
Restart ==
  /\ restarts < MaxRestarts /\ now < MaxTime
  /\ restarts' = restarts + 1 /\ now' = now + 1 /\ floor' = now + 1
  /\ cache' = NoCache /\ entries' = <<>> /\ rendezvous' = {} /\ prefixLookups' = <<>>
  /\ verify' = [tokens |-> VerifyBurst, at |-> now + 1] /\ lookups' = verify'
  /\ dialled' = {} /\ earlier' = opened
  /\ client' = [c \in Clients |-> IF \E d \in dialled \cup UNION {r.conns : r \in rendezvous} : d.from = c
                                  THEN "failed" ELSE client[c]]
  /\ UNCHANGED <<listing, nonce, started, sends, accept, knocks, accepts, opened, sessions>>

(* invalidate_keys, set_key_source, or the eviction another user's lookup  *)
(* causes: the cached keys go, the entries stay.                           *)
InvalidateKeys ==
  /\ cache # NoCache /\ cache' = NoCache
  /\ UNCHANGED <<now, listing, entries, verify, lookups, prefixLookups, floor, rendezvous, restarts, clients,
                 knocks, accepts, dialled, opened, earlier, sessions>>

Edit ==
  /\ listing < Len(Listings) /\ listing' = listing + 1
  /\ UNCHANGED <<now, server, restarts, clients, knocks, accepts, dialled, opened, earlier, sessions>>

Tick ==
  /\ now < MaxTime /\ now' = now + 1
  /\ UNCHANGED <<listing, server, restarts, clients, knocks, accepts, dialled, opened, earlier, sessions>>

-----------------------------------------------------------------------------
(* knock: sign, send, and send the same bytes again on the schedule.       *)
Elapsed(c) == now - started[c]
SendKnock(c) ==
  /\ client[c] = "idle"
  /\ client' = [client EXCEPT ![c] = "waiting"]
  /\ nonce' = [nonce EXCEPT ![c] = now - Behind[c]]
  /\ started' = [started EXCEPT ![c] = now]
  /\ knocks' = knocks \cup {c} /\ sends' = [sends EXCEPT ![c] = 1]
  /\ UNCHANGED <<now, listing, server, restarts, accept, accepts, dialled, opened, earlier, sessions>>

Resend(c) ==
  /\ client[c] = "waiting" /\ Elapsed(c) < GiveUp
  /\ sends[c] <= Len(Retransmit) /\ Elapsed(c) >= Retransmit[sends[c]]
  /\ sends' = [sends EXCEPT ![c] = @ + 1] /\ knocks' = knocks \cup {c}
  /\ UNCHANGED <<now, listing, server, restarts, client, nonce, started, accept, accepts, dialled, opened, earlier, sessions>>

NoAnswer(c) ==
  /\ client[c] = "waiting" /\ Elapsed(c) >= GiveUp
  /\ client' = [client EXCEPT ![c] = "failed"]
  /\ UNCHANGED <<now, listing, server, restarts, nonce, started, sends, accept, knocks, accepts, dialled, opened, earlier, sessions>>

(* check_accept: the answer names the hash of the knock.                   *)
CheckAccept(c, a) ==
  /\ client[c] = "waiting" /\ Elapsed(c) < GiveUp /\ a \in accepts /\ a.knock = c
  /\ client' = [client EXCEPT ![c] = "accepted"]
  /\ accept' = [accept EXCEPT ![c] = [port |-> a.port, n |-> a.n, expiry |-> 0]]
  /\ UNCHANGED <<now, listing, server, restarts, nonce, started, sends, knocks, accepts, dialled, opened, earlier, sessions>>

(* KnockAccepted::connect: whoever listens on the port now gets the token. *)
Connect(c) ==
  /\ client[c] = "accepted"
  /\ IF \E r \in rendezvous : r.port = accept[c].port
     THEN /\ client' = [client EXCEPT ![c] = "dialling"]
          /\ dialled' = dialled \cup {[from |-> c, port |-> accept[c].port, n |-> accept[c].n]}
     ELSE client' = [client EXCEPT ![c] = "failed"] /\ UNCHANGED dialled
  /\ UNCHANGED <<now, listing, server, restarts, nonce, started, sends, accept, knocks, accepts, opened, earlier, sessions>>

Init ==
  /\ now = Start /\ listing = 1
  /\ cache = NoCache /\ entries = <<>> /\ floor = Start
  /\ verify = [tokens |-> VerifyBurst, at |-> Start] /\ lookups = verify /\ prefixLookups = <<>>
  /\ rendezvous = {} /\ restarts = 0
  /\ client = [c \in Clients |-> "idle"] /\ nonce = [c \in Clients |-> 0]
  /\ started = [c \in Clients |-> 0] /\ sends = [c \in Clients |-> 0]
  /\ accept = [c \in Clients |-> NoAccept]
  /\ knocks = {} /\ accepts = {} /\ dialled = {}
  /\ opened = [c \in Clients |-> 0] /\ earlier = opened /\ sessions = {}

ServerNext ==
  \/ \E c \in Clients : HandleDatagram(c)
  \/ \E r \in rendezvous, arrived \in SUBSET Clients, fails \in BOOLEAN : Service(r, arrived, fails)
  \/ InvalidateKeys
ClientNext(c) ==
  \/ SendKnock(c) \/ Resend(c) \/ NoAnswer(c) \/ Connect(c)
  \/ \E a \in accepts : CheckAccept(c, a)
Next ==
  \/ ServerNext \/ \E c \in Clients : ClientNext(c)
  \/ Restart \/ Edit \/ Tick

Spec == Init /\ [][Next]_vars

-----------------------------------------------------------------------------
(* However often its datagram comes, a knock opens one rendezvous at most  *)
(* of a running server; a server that started since opens another only if  *)
(* the knock bears a later time than that start (handle, the nonce floor), *)
(* so never for a client whose clock is not ahead.                         *)
OncePerKnock == \A c \in Clients :
  /\ opened[c] <= earlier[c] + 1
  /\ earlier[c] > 0 /\ opened[c] > earlier[c] => started[c] < floor /\ floor <= nonce[c]
  /\ Behind[c] >= 0 => opened[c] <= 1

(* `pending` is the number of listeners open for the key, through failed   *)
(* binds, expiry, strikes and hand-over (release_pending's callers).       *)
OpenFor(k) == {r \in rendezvous : r.key = k}
PendingCounts ==
  \A k \in DOMAIN entries : entries[k].pending = Cardinality(OpenFor(k))

(* No key has more than MaxPending rendezvous listeners open               *)
(* (KnockServerConfig::max_pending).                                       *)
OpenWithinLimit == \A k \in Keys : Cardinality(OpenFor(k)) <= MaxPending

(* Whoever gets the session is the one who knocked, and a knock gives one  *)
(* session, also when it opened twice (service, check_accept).             *)
OneSessionEach ==
  \A s, t \in sessions : s.by = s.knock /\ (s.knock = t.knock => s = t)

-----------------------------------------------------------------------------
(* Replay, for any clients, keys, clocks and limits.  A key that was taken *)
(* off the list is not put back: its entry, and with it the last nonce, is *)
(* dropped.                                                                *)
ConstantsOK ==
  /\ Listings \in Seq(SUBSET Keys) /\ Listings # <<>>
  /\ \A i, j, m \in DOMAIN Listings : i < j /\ j < m => Listings[i] \cap Listings[m] \subseteq Listings[j]
  /\ Behind \in [Clients -> Int] /\ Start \in Nat

EntryFields == {"sig1", "newsig1", "newprefix", "nonce", "hash", "accept", "slots", "pending"}

TypeOK ==
  /\ now \in Nat /\ floor \in Nat /\ listing \in DOMAIN Listings
  /\ nonce \in [Clients -> Int] /\ started \in [Clients -> Nat] /\ knocks \subseteq Clients
  /\ opened \in [Clients -> Nat] /\ earlier \in [Clients -> Nat]
  /\ DOMAIN client = Clients /\ DOMAIN accept = Clients
  /\ \A k \in DOMAIN entries : DOMAIN entries[k] = EntryFields /\ entries[k].nonce \in Int
  /\ \A r \in rendezvous : r.knock \in Clients /\ r.n \in Nat
  /\ sessions \subseteq [knock : Clients, n : Nat, by : Clients]

\* A knock was made in the past and bears its client's time then; one that was
\* not made has opened nothing, one that opened something before the server
\* started was made before that.
Made == \A c \in Clients :
  /\ started[c] <= now /\ earlier[c] <= opened[c] /\ (earlier[c] > 0 => started[c] < floor)
  /\ client[c] = "idle" => opened[c] = 0 /\ c \notin knocks
  /\ client[c] = "waiting" => c \in knocks
  /\ c \in knocks => nonce[c] = started[c] - Behind[c]

\* The keys in the cache, and the keys of what was opened, have been listed.
Seen(k) == \E i \in 1..listing : k \in Listings[i]
Listed == (\A k \in cache.keys : Seen(k)) /\ \A c \in Clients : opened[c] > 0 => Seen(KeyOf[c])

\* A key that was taken off for good.
Gone(k) == k \notin cache.keys /\ \A j \in listing..Len(Listings) : k \notin Listings[j]

\* A knock that opened a rendezvous of this server can open no other: its key
\* has seen its nonce, or is gone.
Spent == \A c \in Clients : opened[c] > earlier[c] =>
  \/ KeyOf[c] \in DOMAIN entries /\ nonce[c] <= entries[KeyOf[c]].nonce
  \/ Gone(KeyOf[c])

\* Whatever a client presents is the token of the one answer it took.
Token(c, n) == c \in Clients /\ client[c] \notin {"idle", "waiting"} /\ n = accept[c].n
Held ==
  /\ \A d \in dialled : Token(d.from, d.n)
  /\ \A r \in rendezvous : \A x \in r.conns : Token(x.from, x.n)
  /\ \A s \in sessions : s.by = s.knock /\ Token(s.by, s.n)

Inv == TypeOK /\ Made /\ Listed /\ Spent /\ Held /\ OncePerKnock

-----------------------------------------------------------------------------
(* What becomes of the entries.                                            *)
Table(es) == \A k \in DOMAIN es : DOMAIN es[k] = EntryFields /\ es[k].nonce \in Int

\* No key forgets a nonce.
Advances(es, fs) ==
  /\ Table(fs) /\ DOMAIN es \subseteq DOMAIN fs
  /\ \A k \in DOMAIN es : es[k].nonce <= fs[k].nonce

\* handle never takes a nonce back, and accepts only one past the last.
LEMMA VerdictEntry ==
  ASSUME NEW e, DOMAIN e = EntryFields, e.nonce \in Int, NEW c \in Clients, nonce[c] \in Int, floor \in Nat
  PROVE  /\ DOMAIN Verdict(e, c).entry = EntryFields
         /\ Verdict(e, c).entry.nonce \in Int /\ e.nonce <= Verdict(e, c).entry.nonce
         /\ Verdict(e, c).what = "accept" =>
               e.nonce < nonce[c] /\ floor <= nonce[c] /\ Verdict(e, c).entry.nonce = nonce[c]
<1> DEFINE paid1 == ~Sig1Cached(e, c)
           canPay1 == CanTake(e.newsig1, Burst) /\ CanTake(verify, VerifyBurst)
           e1 == IF paid1 THEN [e EXCEPT !.newsig1 = Take(@, Burst)] ELSE e
           v1 == IF paid1 /\ CanTake(e.newsig1, Burst) THEN Take(verify, VerifyBurst) ELSE verify
           e2 == [e1 EXCEPT !.sig1 = Sig1Front(e1, c)]
           slots == Slotted(e2.slots, SourceOf[c], 2)
           src == slots[SourceOf[c]]
           e3 == [e2 EXCEPT !.slots = Drawn(slots, SourceOf[c])]
           same == nonce[c] = e2.nonce /\ e2.hash = c
           e4 == IF CanTake(src.b, Burst) /\ ~src.good THEN [e3 EXCEPT !.newprefix = Take(@, Burst)] ELSE e3
           passed == CanTake(src.b, Burst) /\ (src.good \/ CanTake(e3.newprefix, Burst))
           v2 == IF passed THEN Take(v1, VerifyBurst) ELSE v1
           e5 == [e4 EXCEPT !.slots[SourceOf[c]].good = TRUE, !.nonce = nonce[c], !.hash = c, !.accept = NoAccept]
           e6 == [e5 EXCEPT !.pending = @ + 1]
           drop(x, v) == [what |-> "drop", entry |-> x, verify |-> v]
           unpaid == paid1 /\ (~canPay1 \/ Signed[c] = "bad1")
           again == same /\ e2.accept # NoAccept /\ now < e2.accept.expiry
           resend == [what |-> IF CanTake(src.b, Burst) THEN "resend" ELSE "drop", entry |-> e3, verify |-> v1]
           bad == ~passed \/ ~CanTake(v1, VerifyBurst) \/ Signed[c] = "bad2"
           full == e5.pending >= MaxPending \/ ~HasHostKey[c]
<1>1. Verdict(e, c) = IF unpaid THEN drop(e1, v1) ELSE IF again THEN resend ELSE IF Stale(e2, c) THEN drop(e2, v1)
                      ELSE IF bad THEN drop(e4, v2) ELSE IF full THEN drop(e5, v2)
                      ELSE [what |-> "accept", entry |-> e6, verify |-> v2]
  BY DEF Verdict
<1>2. resend.what # "accept" /\ resend.entry = e3
  OBVIOUS
<1> HIDE DEF v1, v2, resend, slots, src, unpaid, again, bad, full
<1>3. DOMAIN e1 = EntryFields /\ e1.nonce = e.nonce
  BY DEF EntryFields
<1> HIDE DEF e1
<1>4. DOMAIN e2 = EntryFields /\ e2.nonce = e.nonce
  BY <1>3 DEF EntryFields
<1> HIDE DEF e2
<1>5. DOMAIN e3 = EntryFields /\ e3.nonce = e.nonce
  BY <1>4 DEF EntryFields
<1> HIDE DEF e3
<1>6. DOMAIN e4 = EntryFields /\ e4.nonce = e.nonce
  BY <1>5 DEF EntryFields
<1> HIDE DEF e4
<1>7. DOMAIN e5 = EntryFields /\ e5.nonce = nonce[c]
  BY <1>6 DEF EntryFields
<1> HIDE DEF e5
<1>8. DOMAIN e6 = EntryFields /\ e6.nonce = nonce[c]
  BY <1>7 DEF EntryFields
<1> HIDE DEF e6
<1>9. ~Stale(e2, c) => e.nonce < nonce[c] /\ floor <= nonce[c]
  BY <1>4 DEF Stale
<1>10. CASE unpaid
  BY <1>1, <1>3, <1>10
<1>11. CASE ~unpaid /\ again
  BY <1>1, <1>2, <1>5, <1>11
<1>12. CASE ~unpaid /\ ~again /\ Stale(e2, c)
  BY <1>1, <1>4, <1>12
<1>13. CASE ~unpaid /\ ~again /\ ~Stale(e2, c) /\ bad
  BY <1>1, <1>6, <1>13
<1>14. CASE ~unpaid /\ ~again /\ ~Stale(e2, c) /\ ~bad /\ full
  BY <1>1, <1>7, <1>9, <1>14
<1>15. CASE ~unpaid /\ ~again /\ ~Stale(e2, c) /\ ~bad /\ ~full
  BY <1>1, <1>8, <1>9, <1>15
<1> QED
  BY <1>10, <1>11, <1>12, <1>13, <1>14, <1>15

\* release_pending leaves the nonces alone.
LEMMA ReleaseAdvances == ASSUME NEW es, Table(es), NEW k PROVE Advances(es, Release(es, k))
<1>1. CASE k \in DOMAIN es /\ es[k].pending > 0
  <2> DEFINE e == [es[k] EXCEPT !.pending = @ - 1]
  <2>1. Release(es, k) = [es EXCEPT ![k] = e]
    BY <1>1 DEF Release
  <2>2. DOMAIN e = EntryFields /\ e.nonce = es[k].nonce
    BY <1>1 DEF Table, EntryFields
  <2> HIDE DEF e
  <2>3. DOMAIN Release(es, k) = DOMAIN es /\ \A x \in DOMAIN es :
           DOMAIN Release(es, k)[x] = EntryFields /\ Release(es, k)[x].nonce = es[x].nonce
    BY <2>1, <2>2 DEF Table
  <2> QED
    BY <2>3 DEF Advances, Table
<1>2. CASE ~(k \in DOMAIN es /\ es[k].pending > 0)
  BY <1>2 DEF Release, Advances, Table
<1> QED
  BY <1>1, <1>2

LEMMA AdvancesTrans ==
  ASSUME NEW es, NEW fs, NEW gs, Table(es), Advances(es, fs), Advances(fs, gs) PROVE Advances(es, gs)
<1>1. ASSUME NEW k \in DOMAIN es PROVE es[k].nonce <= gs[k].nonce
  <2>1. k \in DOMAIN fs /\ k \in DOMAIN gs
    BY DEF Advances
  <2>2. es[k].nonce \in Int /\ fs[k].nonce \in Int /\ gs[k].nonce \in Int
    BY <2>1 DEF Advances, Table
  <2> QED
    BY <2>1, <2>2 DEF Advances
<1> QED
  BY <1>1 DEF Advances

\* A key that was listed and is not listed now is gone for good.
LEMMA NotBack ==
  ASSUME ConstantsOK, TypeOK, NEW k, Seen(k), k \notin Listings[listing]
  PROVE  \A j \in listing..Len(Listings) : k \notin Listings[j]
<1>1. Len(Listings) \in Nat /\ DOMAIN Listings = 1..Len(Listings) /\ listing \in 1..Len(Listings)
  BY DEF ConstantsOK, TypeOK
<1>2. PICK i \in 1..listing : k \in Listings[i]
  BY DEF Seen
<1>3. i \in DOMAIN Listings /\ i < listing
  BY <1>1, <1>2
<1> SUFFICES ASSUME NEW j \in listing..Len(Listings), k \in Listings[j] PROVE FALSE
  OBVIOUS
<1>4. j \in DOMAIN Listings /\ listing < j
  BY <1>1
<1> QED
  BY <1>1, <1>2, <1>3, <1>4 DEF ConstantsOK

\* load_user_keys keeps what a knock spent spent, although it drops entries.
LEMMA LoadedSpent ==
  ASSUME ConstantsOK, Inv, NEW d \in Clients
  PROVE  /\ Table(Loaded(d).entries)
         /\ \A k \in Loaded(d).cache.keys : Seen(k)
         /\ \A c \in Clients : opened[c] > earlier[c] =>
               \/ /\ KeyOf[c] \in DOMAIN Loaded(d).entries
                  /\ nonce[c] <= Loaded(d).entries[KeyOf[c]].nonce
               \/ /\ KeyOf[c] \notin Loaded(d).cache.keys
                  /\ \A j \in listing..Len(Listings) : KeyOf[c] \notin Listings[j]
<1>0. TypeOK /\ Table(entries) /\ listing \in Nat /\ listing >= 1
  <2>1. TypeOK /\ Table(entries) /\ listing \in DOMAIN Listings
    BY DEF Inv, TypeOK, Table
  <2> QED
    BY <2>1 DEF ConstantsOK
<1>1. CASE Fresh \/ (~Fresh /\ MayKnock /\ ~LookupGiven(d))
  <2>1. Loaded(d).cache = cache /\ Loaded(d).entries = entries
    BY <1>1 DEF Loaded
  <2> QED
    BY <1>0, <2>1 DEF Inv, Listed, Spent, Gone
<1>2. CASE ~Fresh /\ ~MayKnock
  <2>1. /\ Loaded(d).cache = NoCache
        /\ Loaded(d).entries = IF cache # NoCache THEN Without(entries, DOMAIN entries) ELSE entries
    BY <1>2 DEF Loaded
  <2>2. Table(Loaded(d).entries)
    BY <1>0, <2>1 DEF Without, Table
  <2>3. Loaded(d).cache.keys = {}
    BY <2>1 DEF NoCache
  <2>4. \A k : Seen(k) => \A j \in listing..Len(Listings) : k \notin Listings[j]
    BY <1>0, <1>2, NotBack DEF MayKnock
  <2>5. \A c \in Clients : opened[c] > earlier[c] => opened[c] > 0
    BY <1>0 DEF TypeOK
  <2> QED
    BY <2>2, <2>3, <2>4, <2>5 DEF Inv, Listed
<1>3. CASE ~Fresh /\ MayKnock /\ LookupGiven(d)
  <2>1. /\ Loaded(d).cache = [loaded |-> now, keys |-> Listings[listing]]
        /\ Loaded(d).entries = Without(entries, DOMAIN entries \ Listings[listing])
    BY <1>3 DEF Loaded
  <2>2. Loaded(d).cache.keys = Listings[listing]
    BY <2>1
  <2>3. /\ DOMAIN Loaded(d).entries = DOMAIN entries \cap Listings[listing]
        /\ \A k \in DOMAIN Loaded(d).entries : Loaded(d).entries[k] = entries[k]
    BY <2>1 DEF Without
  <2>4. Table(Loaded(d).entries)
    BY <1>0, <2>3 DEF Table
  <2>5. \A k \in Loaded(d).cache.keys : Seen(k)
    BY <1>0, <2>2 DEF Seen
  <2>6. ASSUME NEW c \in Clients, opened[c] > earlier[c]
        PROVE  \/ /\ KeyOf[c] \in DOMAIN Loaded(d).entries
                  /\ nonce[c] <= Loaded(d).entries[KeyOf[c]].nonce
               \/ /\ KeyOf[c] \notin Loaded(d).cache.keys
                  /\ \A j \in listing..Len(Listings) : KeyOf[c] \notin Listings[j]
    <3>1. CASE KeyOf[c] \notin Listings[listing]
      <4>1. opened[c] > 0
        BY <1>0, <2>6 DEF TypeOK
      <4> QED
        BY <1>0, <2>2, <3>1, <4>1, NotBack DEF Inv, Listed
    <3>2. CASE KeyOf[c] \in Listings[listing]
      <4>1. ~Gone(KeyOf[c])
        <5>1. listing \in listing..Len(Listings)
          BY <1>0 DEF TypeOK, ConstantsOK
        <5> QED
          BY <3>2, <5>1 DEF Gone
      <4> QED
        BY <2>3, <2>6, <3>2, <4>1 DEF Inv, Spent
    <3> QED
      BY <3>1, <3>2
  <2> QED
    BY <2>4, <2>5, <2>6
<1> QED
  BY <1>1, <1>2, <1>3

LEMMA WithEntry ==
  ASSUME NEW es, Table(es), NEW k, NEW e, DOMAIN e = EntryFields, e.nonce \in Int,
         k \in DOMAIN es => es[k].nonce <= e.nonce
  PROVE  Advances(es, With(es, k, e)) /\ k \in DOMAIN With(es, k, e) /\ With(es, k, e)[k] = e
<1>1. /\ DOMAIN With(es, k, e) = DOMAIN es \cup {k} /\ With(es, k, e)[k] = e
      /\ \A x \in DOMAIN es : x # k => With(es, k, e)[x] = es[x]
  BY DEF With
<1> QED
  BY <1>1 DEF Advances, Table

\* complete: keeping the answer leaves the nonces alone.
LEMMA AcceptAdvances ==
  ASSUME NEW es, Table(es), NEW k \in DOMAIN es, NEW a
  PROVE  Advances(es, [es EXCEPT ![k].accept = a])
<1> DEFINE e == [es[k] EXCEPT !.accept = a]
           fs == [es EXCEPT ![k] = e]
<1>1. DOMAIN e = EntryFields /\ e.nonce = es[k].nonce
  BY DEF Table, EntryFields
<1> HIDE DEF e
<1>2. Advances(es, fs)
  BY <1>1 DEF Advances, Table
<1> QED
  BY <1>2 DEF e

\* What is spent stays spent when the entries advance.
LEMMA StaysSpent ==
  ASSUME TypeOK, NEW c \in Clients, NEW es, NEW fs, Table(es), Advances(es, fs),
         KeyOf[c] \in DOMAIN es, nonce[c] <= es[KeyOf[c]].nonce
  PROVE  KeyOf[c] \in DOMAIN fs /\ nonce[c] <= fs[KeyOf[c]].nonce
<1>1. KeyOf[c] \in DOMAIN fs /\ es[KeyOf[c]].nonce <= fs[KeyOf[c]].nonce
  BY DEF Advances
<1>2. nonce[c] \in Int /\ es[KeyOf[c]].nonce \in Int /\ fs[KeyOf[c]].nonce \in Int
  BY <1>1 DEF TypeOK, Table, Advances
<1> QED
  BY <1>1, <1>2

-----------------------------------------------------------------------------
(* The steps.                                                              *)
Quiet(d) == UNCHANGED <<rendezvous, opened>> /\ Advances(Loaded(d).entries, entries')
Opens(d) ==
  /\ Advances(Loaded(d).entries, entries') /\ KeyOf[d] \in Loaded(d).cache.keys
  /\ KeyOf[d] \in DOMAIN Loaded(d).entries => Loaded(d).entries[KeyOf[d]].nonce < nonce[d]
  /\ floor <= nonce[d]
  /\ KeyOf[d] \in DOMAIN entries' /\ nonce[d] <= entries'[KeyOf[d]].nonce
  /\ opened' = [opened EXCEPT ![d] = @ + 1]
  /\ \E r : r.knock = d /\ r.n = opened[d] + 1 /\ r.conns = {} /\ rendezvous' = rendezvous \cup {r}

\* A datagram is too old or too new, or opens nothing, or opens what its key
\* and the floor let through.
LEMMA DatagramEffect ==
  ASSUME ConstantsOK, Inv, NEW d \in Clients, HandleDatagram(d)
  PROVE  \/ UNCHANGED <<cache, entries, rendezvous, opened>>
         \/ cache' = Loaded(d).cache /\ (Quiet(d) \/ Opens(d))
<1>0. TypeOK /\ nonce[d] \in Int /\ floor \in Nat /\ opened[d] \in Nat
  BY DEF Inv, TypeOK
<1>1. PICK l : l = Loaded(d) /\ Table(l.entries)
  BY LoadedSpent
<1>2. ASSUME NEW es PROVE Table(es) => Advances(es, es)
  BY DEF Advances, Table
<1>3. CASE /\ cache' = l.cache /\ entries' = l.entries /\ UNCHANGED <<rendezvous, opened>>
  BY <1>1, <1>2, <1>3 DEF Quiet
<1> DEFINE k == KeyOf[d]
           e == IF k \in DOMAIN l.entries THEN l.entries[k] ELSE NewEntry
           v == Verdict(e, d)
           es == With(l.entries, k, v.entry)
<1>4. DOMAIN e = EntryFields /\ e.nonce \in Int /\ (k \in DOMAIN l.entries => l.entries[k].nonce = e.nonce)
  <2>1. CASE k \in DOMAIN l.entries
    BY <1>1, <2>1 DEF Table
  <2>2. CASE k \notin DOMAIN l.entries
    BY <2>2 DEF NewEntry, EntryFields
  <2> QED
    BY <2>1, <2>2
<1> HIDE DEF e
<1>5. /\ DOMAIN v.entry = EntryFields /\ v.entry.nonce \in Int /\ e.nonce <= v.entry.nonce
      /\ v.what = "accept" => e.nonce < nonce[d] /\ floor <= nonce[d] /\ v.entry.nonce = nonce[d]
  BY <1>0, <1>4, VerdictEntry
<1> HIDE DEF v
<1>6. Advances(l.entries, es) /\ k \in DOMAIN es /\ es[k] = v.entry /\ Table(es)
  <2>1. k \in DOMAIN l.entries => l.entries[k].nonce <= v.entry.nonce
    BY <1>4, <1>5
  <2>2. Advances(l.entries, es) /\ k \in DOMAIN es /\ es[k] = v.entry
    BY <1>1, <1>5, <2>1, WithEntry
  <2> QED
    BY <2>2 DEF Advances
<1> HIDE DEF es
<1>7. CASE cache' = l.cache /\ entries' = es /\ UNCHANGED <<rendezvous, opened>>
  BY <1>1, <1>6, <1>7 DEF Quiet
<1>8. CASE cache' = l.cache /\ entries' = Failed(es, d) /\ UNCHANGED <<rendezvous, opened>>
  BY <1>1, <1>6, <1>8, ReleaseAdvances, AdvancesTrans DEF Quiet, Failed
<1>9. ASSUME NEW p, cache' = l.cache, v.what = "accept", k \in l.cache.keys, Open(es, d, p) PROVE Opens(d)
  <2>1. Advances(es, entries')
    <3>1. CASE es[KeyOf[d]].hash = d
      BY <1>6, <1>9, <3>1, AcceptAdvances DEF Open
    <3>2. CASE es[KeyOf[d]].hash # d
      BY <1>2, <1>6, <1>9, <3>2 DEF Open
    <3> QED
      BY <3>1, <3>2
  <2>2. Advances(l.entries, entries')
    BY <1>1, <1>6, <2>1, AdvancesTrans
  <2>3. k \in DOMAIN entries' /\ nonce[d] <= entries'[k].nonce
    BY <1>5, <1>6, <1>9, <2>1 DEF Advances
  <2>4. k \in DOMAIN l.entries => l.entries[k].nonce < nonce[d]
    BY <1>4, <1>5, <1>9
  <2>5. opened' = [opened EXCEPT ![d] = @ + 1] /\ \E r : r.knock = d /\ r.n = opened[d] + 1 /\ r.conns = {} /\ rendezvous' = rendezvous \cup {r}
    <3> DEFINE r == [knock |-> d, n |-> opened[d] + 1, port |-> p, allowed |-> SourceOf[d], key |-> KeyOf[d],
                     deadline |-> now + Window, strikes |-> 0, conns |-> {}]
    <3>1. r.knock = d /\ r.n = opened[d] + 1 /\ r.conns = {}
      OBVIOUS
    <3>2. rendezvous' = rendezvous \cup {r} /\ opened' = [opened EXCEPT ![d] = @ + 1]
      BY <1>9 DEF Open
    <3> QED
      BY <3>1, <3>2
  <2> QED
    BY <1>1, <1>5, <1>9, <2>2, <2>3, <2>4, <2>5 DEF Opens
<1>10. CASE UNCHANGED <<cache, entries, rendezvous, opened>>
  BY <1>10
<1> QED
  BY <1>1, <1>3, <1>7, <1>8, <1>9, <1>10 DEF HandleDatagram, e, v, es

LEMMA DatagramStep == ASSUME ConstantsOK, Inv, NEW d \in Clients, HandleDatagram(d) PROVE Inv'
<1>0. TypeOK /\ opened \in [Clients -> Nat] /\ nonce \in [Clients -> Int] /\ d \in knocks
  BY DEF Inv, TypeOK, HandleDatagram
<1>1. UNCHANGED <<now, listing, floor, client, nonce, started, accept, knocks, dialled, earlier, sessions>>
  BY DEF HandleDatagram, clients
<1>2. CASE UNCHANGED <<cache, entries, rendezvous, opened>>
  BY <1>1, <1>2 DEF Inv, TypeOK, Made, Listed, Seen, Spent, Gone, Held, Token, OncePerKnock
<1>3. CASE cache' = Loaded(d).cache /\ (Quiet(d) \/ Opens(d))
  <2>1. Advances(Loaded(d).entries, entries') /\ Table(Loaded(d).entries)
    BY <1>3, LoadedSpent DEF Quiet, Opens
  <2>2. Table(entries')
    BY <2>1 DEF Advances
  <2>3. ASSUME NEW c \in Clients, opened[c] > earlier[c]
        PROVE  \/ KeyOf[c] \in DOMAIN entries' /\ nonce[c] <= entries'[KeyOf[c]].nonce
               \/ /\ KeyOf[c] \notin cache'.keys
                  /\ \A j \in listing..Len(Listings) : KeyOf[c] \notin Listings[j]
    <3>1. \/ /\ KeyOf[c] \in DOMAIN Loaded(d).entries
             /\ nonce[c] <= Loaded(d).entries[KeyOf[c]].nonce
          \/ /\ KeyOf[c] \notin Loaded(d).cache.keys
             /\ \A j \in listing..Len(Listings) : KeyOf[c] \notin Listings[j]
      BY <2>3, LoadedSpent
    <3> QED
      BY <1>0, <1>3, <2>1, <3>1, StaysSpent
  <2>4. (\A k \in cache'.keys : Seen(k)') /\ \A k : Seen(k)' <=> Seen(k)
    BY <1>1, <1>3, LoadedSpent DEF Seen
  <2>5. CASE Quiet(d)
    <3>1. UNCHANGED <<rendezvous, opened>>
      BY <2>5 DEF Quiet
    <3>2. TypeOK'
      BY <1>0, <1>1, <2>2, <3>1 DEF TypeOK, Table
    <3>3. Made' /\ Held' /\ OncePerKnock'
      BY <1>1, <3>1 DEF Inv, Made, Held, Token, OncePerKnock
    <3>4. Listed'
      BY <2>4, <3>1 DEF Inv, Listed
    <3>5. Spent'
      BY <1>1, <2>3, <3>1 DEF Spent, Gone
    <3> QED
      BY <3>2, <3>3, <3>4, <3>5 DEF Inv
  <2>6. CASE Opens(d)
    <3>1. /\ opened' = [opened EXCEPT ![d] = @ + 1] /\ KeyOf[d] \in Loaded(d).cache.keys
          /\ KeyOf[d] \in DOMAIN entries' /\ nonce[d] <= entries'[KeyOf[d]].nonce
      BY <2>6 DEF Opens
    <3>2. PICK r : r.knock = d /\ r.n = opened[d] + 1 /\ r.conns = {} /\ rendezvous' = rendezvous \cup {r}
      BY <2>6 DEF Opens
    <3>3. opened[d] = earlier[d]
      <4>1. opened[d] \in Nat /\ earlier[d] \in Nat /\ nonce[d] \in Int /\ earlier[d] <= opened[d]
        BY <1>0 DEF Inv, Made, TypeOK
      <4> SUFFICES ASSUME opened[d] > earlier[d] PROVE FALSE
        BY <4>1
      <4>2. KeyOf[d] \in DOMAIN Loaded(d).entries => Loaded(d).entries[KeyOf[d]].nonce \in Int
        BY <2>1 DEF Table
      <4>3. KeyOf[d] \in DOMAIN Loaded(d).entries => Loaded(d).entries[KeyOf[d]].nonce < nonce[d]
        BY <2>6 DEF Opens
      <4>4. \/ /\ KeyOf[d] \in DOMAIN Loaded(d).entries
               /\ nonce[d] <= Loaded(d).entries[KeyOf[d]].nonce
            \/ KeyOf[d] \notin Loaded(d).cache.keys
        BY LoadedSpent
      <4> QED
        BY <3>1, <4>1, <4>2, <4>3, <4>4
    <3>4. /\ opened' \in [Clients -> Nat] /\ opened'[d] = earlier[d] + 1
          /\ \A c \in Clients \ {d} : opened'[c] = opened[c]
      BY <1>0, <3>1, <3>3
    <3>5. TypeOK'
      <4>1. \A x \in rendezvous' : x.knock \in Clients /\ x.n \in Nat
        BY <1>0, <3>2, <3>3 DEF TypeOK
      <4> QED
        BY <1>0, <1>1, <2>2, <3>4, <4>1 DEF TypeOK, Table
    <3>6. client[d] # "idle" /\ nonce[d] = started[d] - Behind[d]
      BY <1>0 DEF Inv, Made
    <3>7. Made' /\ OncePerKnock'
      <4>1. earlier[d] \in Nat /\ started[d] \in Nat /\ floor \in Nat /\ Behind[d] \in Int /\ floor <= nonce[d]
        BY <1>0, <2>6 DEF TypeOK, ConstantsOK, Opens
      <4>2. earlier[d] > 0 => started[d] < floor
        BY DEF Inv, Made
      <4>3. Behind[d] >= 0 => earlier[d] = 0
        BY <3>6, <4>1, <4>2
      <4>4. Made'
        BY <1>0, <1>1, <3>4, <3>6, <4>1 DEF Inv, Made
      <4> QED
        BY <1>1, <3>4, <4>1, <4>2, <4>3, <4>4 DEF Inv, OncePerKnock
    <3>8. Held'
      BY <1>1, <3>2 DEF Inv, Held, Token
    <3>9. Listed'
      <4>1. Seen(KeyOf[d])'
        BY <2>4, <3>1, <1>3
      <4> QED
        BY <2>4, <3>4, <4>1 DEF Inv, Listed
    <3>10. Spent'
      <4>1. ASSUME NEW c \in Clients, opened'[c] > earlier'[c]
            PROVE  \/ KeyOf[c] \in DOMAIN entries' /\ nonce'[c] <= entries'[KeyOf[c]].nonce
                   \/ Gone(KeyOf[c])'
        <5>1. CASE c = d
          BY <1>1, <3>1, <5>1
        <5>2. CASE c # d
          BY <1>1, <2>3, <3>4, <4>1, <5>2 DEF Gone
        <5> QED
          BY <5>1, <5>2
      <4> QED
        BY <4>1 DEF Spent
    <3> QED
      BY <3>5, <3>7, <3>8, <3>9, <3>10 DEF Inv
  <2> QED
    BY <1>3, <2>5, <2>6
<1> QED
  BY <1>2, <1>3, DatagramEffect

\* A rendezvous is served: whoever presents its token is the one who knocked,
\* and has taken the answer the token comes from.
LEMMA ServiceStep ==
  ASSUME Inv, NEW r \in rendezvous, NEW arrived \in SUBSET Clients, NEW fails \in BOOLEAN, Service(r, arrived, fails)
  PROVE  Inv'
<1>0. TypeOK /\ Table(entries) /\ r.knock \in Clients /\ r.n \in Nat
  BY DEF Inv, TypeOK, Table
<1>1. UNCHANGED <<now, listing, cache, floor, nonce, started, accept, knocks, opened, earlier>>
  BY DEF Service
<1>2. /\ DOMAIN client' = Clients
      /\ \A c \in Clients : client'[c] = client[c] \/ client'[c] \in {"connected", "failed"}
  BY DEF Service
<1>3. Advances(entries, entries')
  <2>1. Advances(entries, entries) /\ Advances(entries, Release(entries, r.key))
    BY <1>0, ReleaseAdvances DEF Advances, Table
  <2>2. entries' = entries \/ entries' = Release(entries, r.key)
    BY DEF Service, Closed
  <2> QED
    BY <2>1, <2>2
<1> DEFINE new == Admitted(r, Dialling(r))
           taken == LET allowed == {d \in Dialling(r) : SourceOf[d.from] = r.allowed}
                    IN  IF Cardinality(r.conns) + Cardinality(allowed) <= MAX_CONNS THEN allowed ELSE {}
           conns == Admitted(r, taken)
           read == {x \in conns : x.from \in arrived /\ now < x.deadline}
           right == {x \in read : TokenFits(r, x)}
           lost == (read \ right) \cup {x \in conns : now >= x.deadline}
           over == [r EXCEPT !.conns = conns \ (lost \cup right), !.strikes = @ + Cardinality(lost)]
<1>a. /\ rendezvous' = rendezvous \ {r} \/ rendezvous' = (rendezvous \ {r}) \cup {over}
      /\ \/ sessions' = sessions
         \/ sessions' = sessions \cup {[knock |-> r.knock, n |-> r.n, by |-> x.from] : x \in right}
  BY DEF Service, Closed
<1>b. conns \subseteq new
  BY DEF Admitted
<1> HIDE DEF taken, conns
<1>4. \A x \in rendezvous' : x \in rendezvous \/ (x.knock = r.knock /\ x.n = r.n /\ x.conns \subseteq new)
  <2>1. CASE rendezvous' = rendezvous \ {r}
    BY <2>1
  <2>2. CASE rendezvous' = (rendezvous \ {r}) \cup {over}
    <3>1. over.knock = r.knock /\ over.n = r.n /\ (over.conns = r.conns \/ over.conns = conns \ (lost \cup right))
      OBVIOUS
    <3>2. r.conns \subseteq new
      BY DEF Admitted
    <3>3. over.conns \subseteq new
      BY <1>b, <3>1, <3>2
    <3> HIDE DEF over
    <3> QED
      BY <2>2, <3>1, <3>3
  <2> QED
    BY <1>a, <2>1, <2>2
<1>5. \A s \in sessions' \ sessions :
         /\ s = [knock |-> r.knock, n |-> r.n, by |-> r.knock]
         /\ \E x \in new : x.from = r.knock /\ x.n = r.n
  <2> SUFFICES ASSUME NEW s \in sessions', s \notin sessions
               PROVE  /\ s = [knock |-> r.knock, n |-> r.n, by |-> r.knock]
                      /\ \E x \in new : x.from = r.knock /\ x.n = r.n
    OBVIOUS
  <2>1. \A x \in right : x \in conns /\ x.from = r.knock /\ x.n = r.n
    BY DEF TokenFits
  <2> HIDE DEF read, right, lost, over, new
  <2>2. PICK x \in right : s = [knock |-> r.knock, n |-> r.n, by |-> x.from]
    BY <1>a
  <2> QED
    BY <1>b, <2>1, <2>2
<1>6. TypeOK'
  <2>1. \A x \in rendezvous' : x.knock \in Clients /\ x.n \in Nat
    BY <1>0, <1>4 DEF TypeOK
  <2>2. sessions' \subseteq [knock : Clients, n : Nat, by : Clients]
    BY <1>0, <1>5 DEF TypeOK
  <2> QED
    BY <1>0, <1>1, <1>2, <1>3, <2>1, <2>2 DEF TypeOK, Advances, Table
<1>7. Made'
  BY <1>1, <1>2 DEF Inv, Made
<1>8. Listed' /\ OncePerKnock'
  BY <1>1 DEF Inv, Listed, Seen, OncePerKnock
<1>9. Spent'
  BY <1>0, <1>1, <1>3, StaysSpent DEF Inv, Spent, Gone
<1>10. Held'
  <2>1. \A c, n : Token(c, n) => Token(c, n)'
    BY <1>1, <1>2 DEF Token
  <2>2. \A x \in new : Token(x.from, x.n)
    BY DEF Inv, Held, Admitted, Dialling
  <2>3. \A d \in dialled' : Token(d.from, d.n)'
    BY <2>1 DEF Inv, Held, Service
  <2>4. \A q \in rendezvous' : \A x \in q.conns : Token(x.from, x.n)'
    BY <1>4, <2>1, <2>2 DEF Inv, Held
  <2>5. \A s \in sessions' : s.by = s.knock /\ Token(s.by, s.n)'
    BY <1>5, <2>1, <2>2 DEF Inv, Held
  <2> QED
    BY <2>3, <2>4, <2>5 DEF Held
<1> QED
  BY <1>6, <1>7, <1>8, <1>9, <1>10 DEF Inv

LEMMA RestartStep == ASSUME Inv, Restart PROVE Inv'
<1>0. TypeOK /\ now \in Nat
  BY DEF Inv, TypeOK
<1>1. /\ now' = now + 1 /\ floor' = now + 1 /\ cache' = NoCache /\ rendezvous' = {} /\ DOMAIN entries' = {}
      /\ dialled' = {} /\ earlier' = opened /\ UNCHANGED <<listing, nonce, started, accept, knocks, opened, sessions>>
  BY DEF Restart
<1>2. /\ DOMAIN client' = Clients
      /\ \A c \in Clients : client'[c] = client[c] \/ client'[c] = "failed"
  BY DEF Restart
<1>4. TypeOK'
  BY <1>0, <1>1, <1>2 DEF TypeOK
<1>5. Made'
  BY <1>0, <1>1, <1>2 DEF Inv, TypeOK, Made
<1>6. Listed' /\ OncePerKnock'
  BY <1>0, <1>1 DEF Inv, TypeOK, Listed, Seen, OncePerKnock, NoCache
<1>7. Spent'
  BY <1>0, <1>1 DEF TypeOK, Spent
<1>8. Held'
  BY <1>1, <1>2 DEF Inv, Held, Token
<1> QED
  BY <1>4, <1>5, <1>6, <1>7, <1>8 DEF Inv

LEMMA EditStep == ASSUME ConstantsOK, Inv, Edit PROVE Inv'
<1>0. TypeOK /\ listing \in Nat /\ DOMAIN Listings = 1..Len(Listings) /\ Len(Listings) \in Nat
  BY DEF Inv, TypeOK, ConstantsOK
<1>1. /\ listing < Len(Listings) /\ listing' = listing + 1
      /\ UNCHANGED <<now, cache, entries, floor, rendezvous, client, nonce, started, accept, knocks, dialled, opened, earlier, sessions>>
  BY DEF Edit, server, clients
<1>2. TypeOK'
  BY <1>0, <1>1 DEF TypeOK
<1>3. Made' /\ OncePerKnock' /\ Held'
  BY <1>1 DEF Inv, Made, OncePerKnock, Held, Token
<1>4. \A k : Seen(k) => Seen(k)'
  BY <1>0, <1>1 DEF Seen
<1>5. Listed'
  BY <1>1, <1>4 DEF Inv, Listed
<1>6. \A k : Gone(k) => Gone(k)'
  BY <1>0, <1>1 DEF Gone
<1>7. Spent'
  BY <1>1, <1>6 DEF Inv, Spent
<1> QED
  BY <1>2, <1>3, <1>5, <1>7 DEF Inv

LEMMA InvalidateStep == ASSUME Inv, InvalidateKeys PROVE Inv'
<1>1. /\ cache' = NoCache
      /\ UNCHANGED <<now, listing, entries, floor, rendezvous, client, nonce, started, accept, knocks, dialled, opened, earlier, sessions>>
  BY DEF InvalidateKeys, clients
<1>2. TypeOK' /\ Made' /\ OncePerKnock' /\ Held'
  BY <1>1 DEF Inv, TypeOK, Made, OncePerKnock, Held, Token
<1>3. Listed'
  BY <1>1 DEF Inv, Listed, Seen, NoCache
<1>4. \A k : Gone(k) => Gone(k)'
  BY <1>1 DEF Gone, NoCache
<1>5. Spent'
  BY <1>1, <1>4 DEF Inv, Spent
<1> QED
  BY <1>2, <1>3, <1>5 DEF Inv

\* The clock, and what the clients do.
LEMMA ClientStep ==
  ASSUME ConstantsOK, Inv, Tick \/ \E c \in Clients : ClientNext(c)
  PROVE  Inv'
<1>0. TypeOK /\ now \in Nat
  BY DEF Inv, TypeOK
<1>1. UNCHANGED <<listing, cache, entries, floor, rendezvous, opened, earlier, sessions>>
  BY DEF Tick, ClientNext, SendKnock, Resend, NoAnswer, CheckAccept, Connect, server
<1>2. Listed'
  BY <1>1 DEF Inv, Listed, Seen
<1>3. CASE Tick
  <2>1. now' = now + 1 /\ UNCHANGED <<client, nonce, started, accept, knocks, dialled>>
    BY <1>3 DEF Tick, clients
  <2>2. TypeOK' /\ Spent' /\ OncePerKnock' /\ Held'
    BY <1>0, <1>1, <2>1 DEF Inv, TypeOK, Spent, Gone, OncePerKnock, Held, Token
  <2>3. Made'
    BY <1>0, <1>1, <2>1 DEF Inv, TypeOK, Made
  <2> QED
    BY <1>2, <2>2, <2>3 DEF Inv
<1>4. ASSUME NEW c \in Clients, SendKnock(c) PROVE Inv'
  <2>1. /\ client[c] = "idle" /\ client' = [client EXCEPT ![c] = "waiting"] /\ knocks' = knocks \cup {c}
        /\ nonce' = [nonce EXCEPT ![c] = now - Behind[c]] /\ started' = [started EXCEPT ![c] = now]
        /\ UNCHANGED <<now, accept, dialled>>
    BY <1>4 DEF SendKnock
  <2>2. now - Behind[c] \in Int
    BY <1>0 DEF ConstantsOK
  <2>3. TypeOK'
    BY <1>0, <1>1, <2>1, <2>2 DEF TypeOK
  <2>4. opened[c] = 0 /\ earlier[c] = 0
    BY <1>0, <2>1 DEF Inv, Made, TypeOK
  <2>5. Made'
    BY <1>0, <1>1, <2>1, <2>2, <2>4 DEF Inv, TypeOK, Made
  <2>6. Spent' /\ OncePerKnock'
    BY <1>0, <1>1, <2>1, <2>4 DEF Inv, TypeOK, Spent, Gone, OncePerKnock
  <2>7. Held'
    <3>1. \A d, n : Token(d, n) => Token(d, n)'
      BY <1>0, <2>1 DEF Token, TypeOK
    <3> QED
      BY <1>1, <2>1, <3>1 DEF Inv, Held
  <2> QED
    BY <1>2, <2>3, <2>5, <2>6, <2>7 DEF Inv
<1>5. ASSUME NEW c \in Clients, Resend(c) \/ NoAnswer(c) \/ Connect(c) \/ \E a \in accepts : CheckAccept(c, a)
      PROVE  Inv'
  <2>1. UNCHANGED <<now, nonce, started>> /\ client[c] # "idle"
    BY <1>5 DEF Resend, NoAnswer, Connect, CheckAccept
  <2>2. knocks' = knocks /\ DOMAIN client' = Clients /\ DOMAIN accept' = Clients
    BY <1>0, <1>5 DEF Inv, Made, Resend, NoAnswer, Connect, CheckAccept, TypeOK
  <2>3. client'[c] # "idle" /\ (client'[c] = "waiting" => client[c] = "waiting") /\ \A d \in Clients \ {c} : client'[d] = client[d]
    BY <1>0, <1>5 DEF Resend, NoAnswer, Connect, CheckAccept, TypeOK
  <2>4. TypeOK'
    BY <1>0, <1>1, <2>1, <2>2 DEF TypeOK
  <2>5. Made'
    BY <1>0, <1>1, <2>1, <2>2, <2>3 DEF Inv, Made
  <2>6. Spent' /\ OncePerKnock'
    BY <1>1, <2>1 DEF Inv, Spent, Gone, OncePerKnock
  <2>7. \A d, n : Token(d, n) => Token(d, n)'
    <3>1. CASE \E a \in accepts : CheckAccept(c, a)
      BY <1>0, <3>1 DEF CheckAccept, Token, TypeOK
    <3>2. CASE Resend(c) \/ NoAnswer(c) \/ Connect(c)
      BY <1>0, <3>2 DEF Resend, NoAnswer, Connect, Token, TypeOK
    <3> QED
      BY <1>5, <3>1, <3>2
  <2>8. \A d \in dialled' : Token(d.from, d.n)'
    <3>1. CASE dialled' = dialled
      BY <2>7, <3>1 DEF Inv, Held
    <3>2. CASE dialled' # dialled
      <4>1. /\ client' = [client EXCEPT ![c] = "dialling"] /\ UNCHANGED accept
            /\ dialled' = dialled \cup {[from |-> c, port |-> accept[c].port, n |-> accept[c].n]}
        BY <1>5, <3>2 DEF Resend, NoAnswer, Connect, CheckAccept
      <4>2. Token(c, accept[c].n)'
        BY <1>0, <4>1 DEF Token, TypeOK
      <4> QED
        BY <2>7, <4>1, <4>2 DEF Inv, Held
    <3> QED
      BY <3>1, <3>2
  <2>9. Held'
    BY <1>1, <2>7, <2>8 DEF Inv, Held
  <2> QED
    BY <1>2, <2>4, <2>5, <2>6, <2>9 DEF Inv
<1> QED
  BY <1>3, <1>4, <1>5 DEF ClientNext

LEMMA InvKept == ASSUME ConstantsOK, Inv, [Next]_vars PROVE Inv'
<1>1. CASE UNCHANGED vars
  BY <1>1 DEF vars, server, clients, Inv, TypeOK, Made, Listed, Seen, Spent, Gone, Held, Token, OncePerKnock
<1>2. CASE ServerNext
  BY <1>2, DatagramStep, ServiceStep, InvalidateStep DEF ServerNext
<1> QED
  BY <1>1, <1>2, ClientStep, RestartStep, EditStep DEF Next

LEMMA InitInv == ASSUME ConstantsOK, Init PROVE Inv
<1>1. /\ now = Start /\ listing = 1 /\ cache.keys = {} /\ DOMAIN entries = {} /\ floor = Start
      /\ rendezvous = {} /\ sessions = {} /\ knocks = {} /\ dialled = {} /\ client = [c \in Clients |-> "idle"]
      /\ opened = [c \in Clients |-> 0] /\ earlier = opened /\ nonce = [c \in Clients |-> 0]
      /\ started = [c \in Clients |-> 0] /\ DOMAIN accept = Clients
  BY DEF Init, NoCache
<1>2. 1 \in DOMAIN Listings
  BY DEF ConstantsOK
<1>3. TypeOK
  BY <1>1, <1>2 DEF TypeOK, ConstantsOK
<1>4. Made /\ Listed /\ Spent /\ Held /\ OncePerKnock
  BY <1>1 DEF Made, Listed, Spent, Held, OncePerKnock, ConstantsOK
<1> QED
  BY <1>3, <1>4 DEF Inv

(* However often its datagram comes, from wherever, whatever else knocks   *)
(* with the same key, whatever its client's clock and however often the    *)
(* server restarts: a knock opens at most one rendezvous of a server, a    *)
(* second one only of a server started before the time it bears, and never *)
(* a second one if its client's clock is not ahead (handle, load_user_keys *)
(* and the nonce floor) ...                                                *)
THEOREM Once == ASSUME ConstantsOK PROVE Spec => []OncePerKnock
<1>1. Init => Inv
  BY InitInv
<1>2. Inv /\ [Next]_vars => Inv'
  BY InvKept
<1>3. Inv => OncePerKnock
  BY DEF Inv
<1> QED
  BY <1>1, <1>2, <1>3, PTL DEF Spec

(* ... and gives at most one session, to the client that knocked (service, *)
(* process).                                                               *)
THEOREM OneSession == ASSUME ConstantsOK PROVE Spec => []OneSessionEach
<1>1. Spec => []Inv
  <2>1. Init => Inv
    BY InitInv
  <2>2. Inv /\ [Next]_vars => Inv'
    BY InvKept
  <2> QED
    BY <2>1, <2>2, PTL DEF Spec
<1>2. Inv => OneSessionEach
  <2> SUFFICES ASSUME Inv, NEW s \in sessions, NEW t \in sessions
               PROVE  s.by = s.knock /\ (s.knock = t.knock => s = t)
    BY DEF OneSessionEach
  <2>1. s \in [knock : Clients, n : Nat, by : Clients] /\ t \in [knock : Clients, n : Nat, by : Clients]
    BY DEF Inv, TypeOK
  <2>2. s.by = s.knock /\ t.by = t.knock /\ s.n = accept[s.by].n /\ t.n = accept[t.by].n
    BY DEF Inv, Held, Token
  <2> QED
    BY <2>1, <2>2
<1> QED
  BY <1>1, <1>2, PTL
=============================================================================
