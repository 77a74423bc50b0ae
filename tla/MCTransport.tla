---------------------------- MODULE MCTransport -----------------------------
(***************************************************************************)
(* Three connections for TLC, of which `part' says the one that runs: a    *)
(* client that asks for re-keys (the constants of the configuration), the  *)
(* same with group exchange and without strict key exchange, and a client  *)
(* that never asks, so that only the volume of the traffic brings re-keys, *)
(* until the server disconnects.  In the last one `under' counts the       *)
(* packets of each pair of keys, apart from the drivers' own counters.     *)
(***************************************************************************)
EXTENDS Transport, FiniteSets

VARIABLES
    part,
    under  \* history: the packets each side has decoded under its present keys
suiteVars == <<part, under, vars>>

Group == INSTANCE Transport WITH Gex <- TRUE, StrictKex <- FALSE
Volume == INSTANCE Transport WITH TimeLimit <- {}, MaxKex <- 6, MaxSent <- 5, Disconnects <- TRUE,
                                  UserRekeys <- FALSE

SuiteInit ==
    /\ under = [r \in Role |-> 0]
    /\ \/ part = "rekey" /\ Init
       \/ part = "group" /\ Group!Init
       \/ part = "volume" /\ Volume!Init

Counted ==
    under' = [r \in Role |-> IF drv'[r].codec.inKey # drv[r].codec.inKey THEN 0
                             ELSE IF drv'[r].codec.seqIn # drv[r].codec.seqIn THEN under[r] + 1
                             ELSE under[r]]

SuiteNext ==
    /\ UNCHANGED part
    /\ \/ part = "rekey" /\ Next /\ UNCHANGED under
       \/ part = "group" /\ Group!Next /\ UNCHANGED under
       \/ part = "volume" /\ Volume!Next /\ Counted

SuiteSpec == SuiteInit /\ [][SuiteNext]_suiteVars

\* The packets r has encoded under its outbound keys: those its peer has
\* decoded and those on their way.
EncodedUnder(r) ==
    LET k == drv[r].codec.outKey
        o == drv[r].outbox
    IN  Cardinality({i \in DOMAIN o : o[i].key = k /\ o[i].t # "VERSION"})
        + (IF drv[Peer(r)].codec.inKey = k THEN under[Peer(r)] ELSE 0)

\* Re-keys are paid for by traffic: with only the packet limit in force, a side
\* starts an exchange (handle_timeout) only when MaxSeq packets have gone one
\* way or the other under the keys the exchange replaces, counted from the
\* packets and not from the codec's counters, whose bases reset_rekey_epoch must
\* take at each change of keys ("rekey storm").
PaidFor ==
    [][part = "volume" => \A r \in Role :
          drv[r].runner.phase = "Completed" /\ drv'[r].runner.phase = "SentKexInit"
          => under[r] >= MaxSeq \/ EncodedUnder(r) >= MaxSeq]_suiteVars
=============================================================================
