-------------------------- MODULE ConsensusProofs --------------------------
(***************************************************************************)
(* Agreement of the consensus protocol, for every validator set, every     *)
(* distribution of voting power with less than a third faulty, and every   *)
(* number of rounds.                                                       *)
(*                                                                         *)
(* The argument is about blocks that can no longer be decided in a round:  *)
(* a polka for another hash in a later round rules an earlier decision out *)
(* (PolkaExcludes), and that stays so (NotChoosable is stable).            *)
(***************************************************************************)
EXTENDS Consensus, VotingPowerProofs

(* Honest v did not precommit b in round r, and never will: it has voted   *)
(* past that point.                                                        *)
CannotPrecommit(v, r, b) ==
    /\ Vote(v, r, b) \notin precommits
    /\ VotedSince(prevotes, v, r + 1) \/ VotedSince(precommits, v, r)

(* Every quorum has an honest member that blocks the decision of b in r.   *)
NotChoosable(r, b) ==
    \A Q \in SUBSET Validators :
        IsQuorum(Q) => \E v \in Q : v \in Honest /\ CannotPrecommit(v, r, b)

(* An honest validator precommits a block only with its polka.             *)
PrecommitBacked ==
    \A q \in precommits :
        (q.validator \in Honest /\ q.hash # Nil) => Polka(q.round, q.hash)

(* An honest validator that prevoted against its own earlier precommit had *)
(* proof that the block could not be decided by that precommit's round.    *)
UnlockJustified ==
    \A q \in precommits, p \in prevotes :
        (/\ q.validator = p.validator /\ q.validator \in Honest
         /\ q.hash # Nil /\ q.round < p.round /\ p.hash # q.hash)
            => NotChoosable(q.round, q.hash)

(* The inductive invariant.                                                *)
IInv ==
    /\ TypeOK
    /\ OneVotePerRound
    /\ PrecommitBacked
    /\ UnlockJustified

(* A polka in a later round for another hash excludes a decision.          *)
PolkaExcludes ==
    \A r, s \in Rounds, b \in Blocks, h \in Hashes :
        (r < s /\ h # b /\ Polka(s, h)) => NotChoosable(r, b)

(* Two quorums share an honest validator.                                  *)
LEMMA HonestInBoth ==
  ASSUME FaultyAreMinority,
         NEW Q \in SUBSET Validators, NEW R \in SUBSET Validators,
         IsQuorum(Q), IsQuorum(R)
  PROVE  \E v \in Q \cap R : v \in Honest
<1>1. PICK v \in Q \cap R : v \notin Faulty
  BY QuorumIntersection, FaultyAssumption DEF FaultyAreMinority
<1> QED
  BY <1>1 DEF Honest

(* A polka for h in round s: some honest member of any quorum prevoted h   *)
(* there, and it either missed the precommit for b or was entitled to      *)
(* leave it.                                                               *)
LEMMA PolkaExclusion ==
  ASSUME FaultyAreMinority, TypeOK, UnlockJustified
  PROVE  PolkaExcludes
<1> SUFFICES ASSUME TypeOK, UnlockJustified,
                    NEW r \in Rounds, NEW s \in Rounds,
                    NEW b \in Blocks, NEW h \in Hashes,
                    r < s, h # b, Polka(s, h),
                    NEW Q \in SUBSET Validators, IsQuorum(Q)
             PROVE  \E v \in Q : v \in Honest /\ CannotPrecommit(v, r, b)
  BY DEF PolkaExcludes, NotChoosable
<1>1. PICK v \in Q \cap Prevoters(s, h) : v \in Honest
  BY HonestInBoth DEF Polka, Prevoters
<1>2. /\ Vote(v, s, h) \in prevotes
      /\ Vote(v, s, h).validator = v
      /\ Vote(v, s, h).round = s
      /\ Vote(v, s, h).hash = h
  BY <1>1 DEF Prevoters, Vote
<1>3. CASE Vote(v, r, b) \notin precommits
  <2>1. s >= r + 1
    BY RoundAssumption DEF Rounds
  <2>2. VotedSince(prevotes, v, r + 1)
    BY <1>2, <2>1 DEF VotedSince
  <2> QED
    BY <1>1, <1>3, <2>2 DEF CannotPrecommit
<1>4. CASE Vote(v, r, b) \in precommits
  <2>1. /\ Vote(v, r, b).validator = v
        /\ Vote(v, r, b).round = r
        /\ Vote(v, r, b).hash = b
    BY DEF Vote
  <2>2. b # Nil
    BY NilAssumption
  <2>3. NotChoosable(r, b)
    BY <1>1, <1>2, <1>4, <2>1, <2>2 DEF UnlockJustified
  <2> QED
    BY <2>3 DEF NotChoosable
<1> QED
  BY <1>3, <1>4

-----------------------------------------------------------------------------
(* Public votes are never taken back.                                      *)
LEMMA VotesGrow ==
  ASSUME [Next]_vars
  PROVE  prevotes \subseteq prevotes' /\ precommits \subseteq precommits'
  BY DEF Next, vars, Prevote, Precommit, FaultyVote

(* Polkas persist.                                                         *)
LEMMA PolkaStable ==
  ASSUME [Next]_vars, NEW r, NEW h, Polka(r, h)
  PROVE  Polka(r, h)'
<1>1. Prevoters(r, h) \subseteq Prevoters(r, h)'
  BY VotesGrow DEF Prevoters
<1>2. /\ Prevoters(r, h) \in SUBSET Validators
      /\ Prevoters(r, h)' \in SUBSET Validators
  BY DEF Prevoters
<1> QED
  BY <1>1, <1>2, QuorumMonotone DEF Polka

(* A validator that cannot precommit b in r any more never does.           *)
LEMMA CannotPrecommitStable ==
  ASSUME TypeOK, [Next]_vars, NEW v \in Honest, NEW r \in Rounds, NEW b \in Blocks,
         CannotPrecommit(v, r, b)
  PROVE  CannotPrecommit(v, r, b)'
<1>1. VotedSince(prevotes, v, r + 1)' \/ VotedSince(precommits, v, r)'
  BY VotesGrow DEF CannotPrecommit, VotedSince
<1>2. Vote(v, r, b) \notin precommits'
  <2> SUFFICES ASSUME Vote(v, r, b) \in precommits' PROVE FALSE
    OBVIOUS
  <2>1. Vote(v, r, b) \notin precommits
    BY DEF CannotPrecommit
  <2>2. PICK w \in Validators, s \in Rounds, h \in Hashes :
             /\ (w \in Honest /\ Precommit(w, s, h)) \/ (w \in Faulty /\ FaultyVote(w, s, h))
             /\ precommits' = precommits \cup {Vote(w, s, h)}
    BY <2>1, FaultyAssumption DEF Next, vars, Prevote, Precommit, FaultyVote, Honest
  <2>3. v = w /\ r = s
    BY <2>1, <2>2 DEF Vote
  <2>4. Precommit(v, r, h)
    BY <2>2, <2>3 DEF Honest
  <2> QED
    BY <2>4 DEF Precommit, CannotPrecommit
<1> QED
  BY <1>1, <1>2 DEF CannotPrecommit

LEMMA NotChoosableStable ==
  ASSUME TypeOK, [Next]_vars, NEW r \in Rounds, NEW b \in Blocks, NotChoosable(r, b)
  PROVE  NotChoosable(r, b)'
<1> SUFFICES ASSUME NEW Q \in SUBSET Validators, IsQuorum(Q)
             PROVE  \E v \in Q : v \in Honest /\ CannotPrecommit(v, r, b)'
  BY DEF NotChoosable
<1>1. PICK v \in Q : v \in Honest /\ CannotPrecommit(v, r, b)
  BY DEF NotChoosable
<1> QED
  BY <1>1, CannotPrecommitStable

-----------------------------------------------------------------------------
LEMMA InitIInv == Init => IInv
  BY DEF Init, IInv, TypeOK, OneVotePerRound, PrecommitBacked, UnlockJustified

(* A new honest prevote.  Its lock rule provides the polka that excludes   *)
(* the block it leaves.                                                    *)
LEMMA PrevoteIInv ==
  ASSUME FaultyAreMinority, IInv,
         NEW v \in Honest, NEW r \in Rounds, NEW h \in Hashes, Prevote(v, r, h)
  PROVE  IInv'
<1> DEFINE n == Vote(v, r, h)
<1>0. [Next]_vars
  BY DEF Next
<1>1. /\ prevotes' = prevotes \cup {n} /\ precommits' = precommits
      /\ n.validator = v /\ n.round = r /\ n.hash = h /\ n \in Votes
      /\ v \in Validators
  BY DEF Prevote, Vote, Votes, Honest
<1>2. TypeOK'
  BY <1>1 DEF IInv, TypeOK
<1>3. OneVotePerRound'
  <2>1. \A q \in prevotes : ~ (q.validator = v /\ q.round = r)
    <3>1. \A q \in prevotes : q.round \in Int
      BY DEF IInv, TypeOK, Votes, Rounds
    <3> QED
      BY <3>1 DEF Prevote, VotedSince, Rounds
  <2> HIDE DEF n
  <2> QED
    BY <1>1, <2>1 DEF IInv, OneVotePerRound
<1>4. PrecommitBacked'
  BY <1>0, <1>1, PolkaStable DEF IInv, PrecommitBacked
<1>5. UnlockJustified'
  <2> SUFFICES ASSUME NEW q \in precommits', NEW p \in prevotes',
                      q.validator = p.validator, q.validator \in Honest,
                      q.hash # Nil, q.round < p.round, p.hash # q.hash
               PROVE  NotChoosable(q.round, q.hash)'
    BY DEF UnlockJustified
  <2>1. q \in precommits /\ q.round \in Rounds /\ q.hash \in Blocks
    BY <1>1 DEF IInv, TypeOK, Votes, Hashes
  <2>2. CASE p \in prevotes
    BY <1>0, <2>1, <2>2, NotChoosableStable DEF IInv, UnlockJustified
  <2>3. CASE p = n
    <3>1. PICK s \in Rounds, g \in Hashes :
               q.round < s /\ s <= r /\ g # q.hash /\ Polka(s, g)
      BY <1>1, <2>1, <2>3 DEF Prevote, LockAllows
    <3>2. NotChoosable(q.round, q.hash)
      BY <2>1, <3>1, PolkaExclusion DEF IInv, PolkaExcludes
    <3> QED
      BY <1>0, <2>1, <3>2, NotChoosableStable DEF IInv
  <2> QED
    BY <1>1, <2>2, <2>3
<1> QED
  BY <1>2, <1>3, <1>4, <1>5 DEF IInv

(* A new honest precommit.  It is the validator's latest vote, so it meets *)
(* no prevote that contradicts it.                                         *)
LEMMA PrecommitIInv ==
  ASSUME IInv, NEW v \in Honest, NEW r \in Rounds, NEW h \in Hashes, Precommit(v, r, h)
  PROVE  IInv'
<1> DEFINE n == Vote(v, r, h)
<1>0. [Next]_vars
  BY DEF Next
<1>1. /\ precommits' = precommits \cup {n} /\ prevotes' = prevotes
      /\ n.validator = v /\ n.round = r /\ n.hash = h /\ n \in Votes
  BY DEF Precommit, Vote, Votes, Honest
<1>2. TypeOK'
  BY <1>1 DEF IInv, TypeOK
<1>3. OneVotePerRound'
  <2>1. \A q \in precommits : ~ (q.validator = v /\ q.round = r)
    <3>1. \A q \in precommits : q.round \in Int
      BY DEF IInv, TypeOK, Votes, Rounds
    <3> QED
      BY <3>1 DEF Precommit, VotedSince, Rounds
  <2> HIDE DEF n
  <2> QED
    BY <1>1, <2>1 DEF IInv, OneVotePerRound
<1>4. PrecommitBacked'
  <2>1. h # Nil => Polka(r, h)
    BY DEF Precommit
  <2> HIDE DEF n
  <2> QED
    BY <1>0, <1>1, <2>1, PolkaStable DEF IInv, PrecommitBacked
<1>5. UnlockJustified'
  <2> SUFFICES ASSUME NEW q \in precommits', NEW p \in prevotes',
                      q.validator = p.validator, q.validator \in Honest,
                      q.hash # Nil, q.round < p.round, p.hash # q.hash
               PROVE  NotChoosable(q.round, q.hash)'
    BY DEF UnlockJustified
  <2>1. /\ p \in prevotes /\ p.round \in Rounds
        /\ q.round \in Rounds /\ q.hash \in Hashes
    BY <1>1, <1>2 DEF IInv, TypeOK, Votes
  <2>2. CASE q \in precommits
    BY <1>0, <2>1, <2>2, NotChoosableStable DEF IInv, UnlockJustified, Hashes
  <2>3. CASE q = n
    <3>1. p.validator = v /\ p.round >= r + 1
      BY <1>1, <2>1, <2>3 DEF Rounds
    <3> QED
      BY <2>1, <3>1 DEF Precommit, VotedSince
  <2> QED
    BY <1>1, <2>2, <2>3
<1> QED
  BY <1>2, <1>3, <1>4, <1>5 DEF IInv

(* A faulty vote adds nothing to what honest validators are bound by.      *)
LEMMA FaultyVoteIInv ==
  ASSUME IInv, NEW v \in Faulty, NEW r \in Rounds, NEW h \in Hashes, FaultyVote(v, r, h)
  PROVE  IInv'
<1> DEFINE n == Vote(v, r, h)
<1>0. [Next]_vars
  BY DEF Next
<1>1. /\ n.validator = v /\ n \in Votes /\ v \notin Honest
      /\ \/ prevotes' = prevotes \cup {n} /\ precommits' = precommits
         \/ precommits' = precommits \cup {n} /\ prevotes' = prevotes
  BY FaultyAssumption DEF FaultyVote, Vote, Votes, Honest
<1> HIDE DEF n
<1>2. TypeOK'
  BY <1>1 DEF IInv, TypeOK
<1>3. OneVotePerRound'
  BY <1>1 DEF IInv, OneVotePerRound
<1>4. PrecommitBacked'
  BY <1>0, <1>1, PolkaStable DEF IInv, PrecommitBacked
<1>5. UnlockJustified'
  <2> SUFFICES ASSUME NEW q \in precommits', NEW p \in prevotes',
                      q.validator = p.validator, q.validator \in Honest,
                      q.hash # Nil, q.round < p.round, p.hash # q.hash
               PROVE  NotChoosable(q.round, q.hash)'
    BY DEF UnlockJustified
  <2>1. /\ q \in precommits /\ p \in prevotes
        /\ q.round \in Rounds /\ q.hash \in Blocks
    BY <1>1, <1>2 DEF IInv, TypeOK, Votes, Hashes
  <2> QED
    BY <1>0, <2>1, NotChoosableStable DEF IInv, UnlockJustified
<1> QED
  BY <1>2, <1>3, <1>4, <1>5 DEF IInv

LEMMA NextIInv == FaultyAreMinority /\ IInv /\ [Next]_vars => IInv'
<1> SUFFICES ASSUME FaultyAreMinority, IInv, [Next]_vars PROVE IInv'
  OBVIOUS
<1>1. ASSUME NEW r \in Rounds, NEW h \in Hashes, NEW v \in Honest,
             Prevote(v, r, h) \/ Precommit(v, r, h)
      PROVE  IInv'
  BY <1>1, PrevoteIInv, PrecommitIInv
<1>2. ASSUME NEW r \in Rounds, NEW h \in Hashes, NEW v \in Faulty, FaultyVote(v, r, h)
      PROVE  IInv'
  BY <1>2, FaultyVoteIInv
<1>3. CASE UNCHANGED vars
  BY <1>3 DEF vars, IInv, TypeOK, OneVotePerRound, PrecommitBacked, Polka, Prevoters,
              UnlockJustified, NotChoosable, CannotPrecommit, VotedSince
<1> QED
  BY <1>1, <1>2, <1>3 DEF Next

LEMMA Invariance ==
  ASSUME FaultyAreMinority
  PROVE  Spec => []IInv
<1>1. Init => IInv
  BY InitIInv
<1>2. IInv /\ [Next]_vars => IInv'
  BY NextIInv
<1> QED
  BY <1>1, <1>2, PTL DEF Spec

THEOREM TypeCorrect ==
  ASSUME FaultyAreMinority
  PROVE  Spec => []TypeOK
<1>1. IInv => TypeOK
  BY DEF IInv
<1> QED
  BY <1>1, Invariance, PTL

(* No honest validator contradicts itself within a round, so none can ever *)
(* be the subject of a DuplicateVoteEvidence.                              *)
THEOREM HonestNeverEquivocate ==
  ASSUME FaultyAreMinority
  PROVE  Spec => []OneVotePerRound
<1>1. IInv => OneVotePerRound
  BY DEF IInv
<1> QED
  BY <1>1, Invariance, PTL

(* A decision in round r excludes polkas for anything else from r on: in r *)
(* itself because the honest validators that made it had a polka for it.   *)
LEMMA DecisionLocks == FaultyAreMinority /\ IInv => DecisionLocksLaterRounds
<1> SUFFICES ASSUME FaultyAreMinority, IInv, NEW b \in Blocks, NEW r \in Rounds,
                    IsQuorum(Precommitters(r, b)),
                    NEW s \in Rounds, NEW h \in Hashes, s >= r, Polka(s, h), h # b
             PROVE  FALSE
  BY DEF DecisionLocksLaterRounds
<1>1. CASE s = r
  <2>1. PICK v \in Precommitters(r, b) : v \in Honest
    BY HonestInBoth DEF Precommitters
  <2>2. Polka(r, b)
    BY <2>1, NilAssumption DEF IInv, PrecommitBacked, Precommitters, Vote
  <2>3. PICK w \in Prevoters(r, b) \cap Prevoters(r, h) : w \in Honest
    BY <1>1, <2>2, HonestInBoth DEF Polka, Prevoters
  <2>4. Vote(w, r, b) = Vote(w, r, h)
    BY <2>3 DEF IInv, OneVotePerRound, Prevoters, Vote
  <2> QED
    BY <2>4 DEF Vote
<1>2. CASE s # r
  <2>1. NotChoosable(r, b)
    BY <1>2, PolkaExclusion DEF IInv, PolkaExcludes, Rounds
  <2>2. PICK v \in Precommitters(r, b) : CannotPrecommit(v, r, b)
    BY <2>1 DEF NotChoosable, Precommitters
  <2> QED
    BY <2>2 DEF CannotPrecommit, Precommitters
<1> QED
  BY <1>1, <1>2

THEOREM DecisionIsLocked ==
  ASSUME FaultyAreMinority
  PROVE  Spec => []DecisionLocksLaterRounds
  BY Invariance, DecisionLocks, PTL

(* Two decisions in rounds r <= s are for the same block.                  *)
LEMMA DecisionsAgree ==
  ASSUME FaultyAreMinority, IInv, NEW a \in Blocks, NEW b \in Blocks,
         NEW r \in Rounds, NEW s \in Rounds,
         IsQuorum(Precommitters(r, a)), IsQuorum(Precommitters(s, b)), r <= s
  PROVE  a = b
<1>1. CASE r = s
  <2>1. PICK v \in Precommitters(r, a) \cap Precommitters(s, b) : v \in Honest
    BY HonestInBoth DEF Precommitters
  <2>2. Vote(v, r, a) \in precommits /\ Vote(v, r, b) \in precommits
    BY <1>1, <2>1 DEF Precommitters
  <2>3. Vote(v, r, a) = Vote(v, r, b)
    BY <2>1, <2>2 DEF IInv, OneVotePerRound, Vote
  <2> QED
    BY <2>3 DEF Vote
<1>2. CASE r # s
  <2>1. PICK v \in Precommitters(s, b) : v \in Honest
    BY HonestInBoth DEF Precommitters
  <2>2. Vote(v, s, b) \in precommits
    BY <2>1 DEF Precommitters
  <2>3. Polka(s, b)
    BY <2>1, <2>2, NilAssumption DEF IInv, PrecommitBacked, Vote
  <2>4. r < s
    BY <1>2 DEF Rounds
  <2> QED
    BY <2>3, <2>4, DecisionLocks DEF DecisionLocksLaterRounds, Hashes, Rounds
<1> QED
  BY <1>1, <1>2

(* The height never forks: for every validator set in which less than a    *)
(* third of the voting power is faulty, at most one block is ever final.   *)
THEOREM AgreementHolds ==
  ASSUME FaultyAreMinority
  PROVE  Spec => []Agreement
<1>1. IInv => Agreement
  <2> SUFFICES ASSUME IInv, NEW a \in Blocks, NEW b \in Blocks,
                      NEW r \in Rounds, IsQuorum(Precommitters(r, a)),
                      NEW s \in Rounds, IsQuorum(Precommitters(s, b))
               PROVE  a = b
    BY DEF Agreement, Decided
  <2>1. r <= s \/ s <= r
    BY DEF Rounds
  <2> QED
    BY <2>1, DecisionsAgree
<1> QED
  BY <1>1, Invariance, PTL
=============================================================================
