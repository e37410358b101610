----------------------------- MODULE Consensus -----------------------------
(***************************************************************************)
(* What the consensus state machine of state.ts promises to the network at *)
(* one height, and what the network gets from it.                          *)
(*                                                                         *)
(* The state is the votes that validators have made public.  An honest     *)
(* validator is one that runs state.ts: the guards below are the promises  *)
(* its vote handling keeps (StateMachine.tla is the detailed behaviour and *)
(* implements this specification).  A faulty one signs what it likes.      *)
(* Messages need no variable of their own: a validator that has received   *)
(* some of the public votes may act on them, or not.                       *)
(***************************************************************************)
EXTENDS VotingPower

CONSTANTS
    Faulty,     \* the validators that do not run this code
    Blocks,     \* hashes of proposal blocks
    Nil,        \* EMPTY_HASH
    MaxRound    \* the last round of the height

ASSUME FaultyAssumption == Faulty \subseteq Validators
ASSUME NilAssumption == Nil \notin Blocks
ASSUME RoundAssumption == MaxRound \in Nat

Honest == Validators \ Faulty
Hashes == Blocks \cup {Nil}
Rounds == 0 .. MaxRound
Votes == [validator : Validators, round : Rounds, hash : Hashes]

VARIABLES prevotes, precommits      \* the public votes

vars == <<prevotes, precommits>>

Vote(v, r, h) == [validator |-> v, round |-> r, hash |-> h]

Prevoters(r, h) == {v \in Validators : Vote(v, r, h) \in prevotes}
Precommitters(r, h) == {v \in Validators : Vote(v, r, h) \in precommits}

(* +2/3 of the prevotes of round r are for h (prevotes.maj23).             *)
Polka(r, h) == IsQuorum(Prevoters(r, h))

(* Validator v has a vote in the set for round r or a later one.           *)
VotedSince(S, v, r) == \E q \in S : q.validator = v /\ q.round >= r

LockAllows_Anything(v, r, h) == TRUE
LockAllows_OldPolka(v, r, h) ==
    \A q \in precommits :
        (q.validator = v /\ q.hash \notin {Nil, h} /\ q.round < r) =>
            \E s \in Rounds, g \in Hashes : s <= r /\ g # q.hash /\ Polka(s, g)

(* A validator that precommitted a block prevotes another hash only after  *)
(* it has seen, in a later round, +2/3 of the prevotes for another hash.   *)
LockAllows(v, r, h) ==
    \A q \in precommits :
        (q.validator = v /\ q.hash \notin {Nil, h} /\ q.round < r) =>
            \E s \in Rounds, g \in Hashes :
                q.round < s /\ s <= r /\ g # q.hash /\ Polka(s, g)

-----------------------------------------------------------------------------
Init == prevotes = {} /\ precommits = {}

(* enterPrevote: one prevote per round, in ascending rounds, none after    *)
(* the precommit of its round, and the lock is respected.                  *)
Prevote(v, r, h) ==
    /\ ~ VotedSince(prevotes, v, r)
    /\ ~ VotedSince(precommits, v, r)
    /\ LockAllows(v, r, h)
    /\ prevotes' = prevotes \cup {Vote(v, r, h)}
    /\ UNCHANGED precommits

(* enterPrecommit: one precommit per round, in ascending rounds, none once *)
(* a later round was prevoted, and for a block only with its +2/3 prevotes. *)
Precommit(v, r, h) ==
    /\ ~ VotedSince(precommits, v, r)
    /\ ~ VotedSince(prevotes, v, r + 1)
    /\ h # Nil => Polka(r, h)
    /\ precommits' = precommits \cup {Vote(v, r, h)}
    /\ UNCHANGED prevotes

(* A faulty validator signs any prevote or precommit, as often as it likes. *)
FaultyVote(v, r, h) ==
    \/ prevotes' = prevotes \cup {Vote(v, r, h)} /\ UNCHANGED precommits
    \/ precommits' = precommits \cup {Vote(v, r, h)} /\ UNCHANGED prevotes

Next ==
    \E r \in Rounds, h \in Hashes :
        \/ \E v \in Honest : Prevote(v, r, h) \/ Precommit(v, r, h)
        \/ \E v \in Faulty : FaultyVote(v, r, h)

Spec == Init /\ [][Next]_vars

-----------------------------------------------------------------------------
(* What a network gets from these promises if those who do not keep them   *)
(* have less than a third of the voting power.  (The state machine keeps   *)
(* the promises in any network, so this is no assumption of the module.)   *)
FaultyAreMinority == 3 * PowerOf(Faulty) < TotalVotingPower

(* Votes are votes.                                                        *)
TypeOK == prevotes \subseteq Votes /\ precommits \subseteq Votes

(* +2/3 of the precommits of some round are for block b: what enterCommit  *)
(* acts on, and what makes the block final.                                *)
Decided(b) == \E r \in Rounds : IsQuorum(Precommitters(r, b))

(* No two blocks of one height are ever both final, in whatever rounds.    *)
Agreement == \A a, b \in Blocks : Decided(a) /\ Decided(b) => a = b

(* Once a block is decided in a round, neither that round nor a later one  *)
(* has +2/3 prevotes for anything else: honest validators precommit what   *)
(* they prevoted with +2/3 and stay locked on it.                          *)
DecisionLocksLaterRounds ==
    \A b \in Blocks : \A r \in Rounds : IsQuorum(Precommitters(r, b)) =>
        \A s \in Rounds, h \in Hashes : (s >= r /\ Polka(s, h)) => h = b

(* An honest validator makes one vote of each type public per round.       *)
OneVotePerRound ==
    \A S \in {prevotes, precommits} : \A p, q \in S :
        (p.validator = q.validator /\ p.validator \in Honest /\ p.round = q.round)
            => p = q
=============================================================================
