-------------------------- MODULE MCStateMachine --------------------------
(* One node, one peer connection, two blocks and two rounds.               *)
(* MCStateMachine.cfg: a quorum needs the node and the other validator,    *)
(* which may equivocate at will; the node proposes in the second round;    *)
(* one of the blocks is invalid.                                           *)
(* MCStateMachineLight.cfg: the other one is a quorum by itself and always *)
(* the proposer, so the node sees polkas it took no part in and has to     *)
(* give up its locks.  MCStateMachineStuck.cfg: a statement of the code's  *)
(* comments that fails, with one block.                                    *)
EXTENDS StateMachine, TLC

CONSTANTS self, a, b1, b2, p1

MCValidators == {self, a}
EqualPower == (self :> 1) @@ (a :> 1)
LightPower == (self :> 1) @@ (a :> 3)
MCBlocks == {b1, b2}
OneBlock == {b1}
MCValid == {b1}
MCPeers == {p1}
MCProposer == (0 :> a) @@ (1 :> self)
LightProposer == [r \in 0 .. 1 |-> a]
MCOwnBlock == [r \in 0 .. 1 |-> b1]

(* Bound: a validator that is a quorum is not faulty (it votes once, and a *)
(* block it precommits is the one it prevotes in that round and in every   *)
(* later one), no block is synced, and the node's own messages, which do   *)
(* not make a quorum, are handled before the next message of the peer.     *)
(* The other validator's messages come in any order.                       *)
HashesOf(t, r) == {h \in Hashes : a \in GetVoteSet(n.votes, r, t).votesByBlock[h].votes}
QuorumIsHonest ==
    /\ \A t \in VoteTypes, r \in RoundNumbers : Cardinality(HashesOf(t, r)) <= 1
    /\ \A r \in RoundNumbers : \A h \in HashesOf("precommits", r) \ {Nil} :
          \A s \in r .. MaxRound : HashesOf("prevotes", s) \subseteq {h}
LightNext ==
    /\ IF msgQueue # <<>> THEN HandleOwn ELSE Next
    /\ synced' = None
    /\ QuorumIsHonest'
LightSpec == Init /\ [][LightNext]_vars

(* No step with a clock is waited in for ever: neither a timeout that ends *)
(* a step nor the wait after precommits is lost (StateMachine).            *)
WaitsEnd == TimedStepEnds /\ PrecommitWaitEnds
=============================================================================
