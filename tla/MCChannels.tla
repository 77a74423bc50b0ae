----------------------------- MODULE MCChannels -----------------------------
(***************************************************************************)
(* Two connections for TLC, of which `part' says the one that runs: one on *)
(* which a program writes more than a window (the constants of the         *)
(* configuration), and one on which channels come and go, their ids are    *)
(* used again and the server closes the idle ones.                         *)
(***************************************************************************)
EXTENDS Channels

VARIABLE part
suiteVars == <<part, vars>>

Churn == INSTANCE Channels WITH MaxOpens <- 3, ServerBytes <- 1, MaxWrite <- 1, Extended <- FALSE,
                              ChannelTimeout <- TRUE

SuiteInit ==
    \/ part = "flow" /\ Init
    \/ part = "ids" /\ Churn!Init

SuiteNext ==
    /\ UNCHANGED part
    /\ \/ part = "flow" /\ Next
       \/ part = "ids" /\ Churn!Next

SuiteSpec == SuiteInit /\ [][SuiteNext]_suiteVars

\* What is on the wire is for the channel it was meant for, the peer opens no more channels than it
\* may, and nothing follows a CLOSE on its channel, unless the server closes idle channels, which it
\* does whatever the state of the channel.
ChannelsApart == Addressed /\ LimitHolds /\ (part = "flow" => NothingAfterClose)
=============================================================================
