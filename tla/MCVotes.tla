------------------------------ MODULE MCVotes ------------------------------
(* What one node keeps of the votes of a height: three specifications of   *)
(* which a behaviour runs one (part), while the others stay as they begin: *)
(*  "vote set"   three validators of power 1, 1 and 2: the quorum of 3     *)
(*               needs the heavy one and another; two peers that claim;    *)
(*  "log"        two blocks to vote for, two votes per height, one height  *)
(*               and the next, a log of three records and two crashes, so  *)
(*               that a restart finds what the one before it left;         *)
(*  "evidence"   four items, two of one height, a cache of two, two items  *)
(*               per block, six blocks and a maximum age of three, so that *)
(*               all expires and older items come after younger ones.      *)
EXTENDS VoteSet, WriteAheadLog, EvidencePool, TLC

CONSTANTS v1, v2, v3

MCVotingPower == (v1 :> 1) @@ (v2 :> 1) @@ (v3 :> 2)
MCHeightOf == [e \in 0 .. 3 |-> (e + 1) \div 2]

VARIABLE part

MCInit ==
    /\ part \in {"vote set", "log", "evidence"}
    /\ Init /\ LogInit /\ PoolInit

MCNext ==
    \/ part = "vote set" /\ Next /\ UNCHANGED <<part, logVars, poolVars>>
    \/ part = "log" /\ LogNext /\ UNCHANGED <<part, vars, poolVars>>
    \/ part = "evidence" /\ PoolNext /\ UNCHANGED <<part, vars, logVars>>

MCSpec == MCInit /\ [][MCNext]_<<part, vars, logVars, poolVars>>
=============================================================================
