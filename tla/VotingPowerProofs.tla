------------------------- MODULE VotingPowerProofs -------------------------
(***************************************************************************)
(* Facts about voting power that every proof about votes rests on: power   *)
(* is additive and monotone, and two quorums share more than a third of    *)
(* the total power.                                                        *)
(***************************************************************************)
EXTENDS VotingPower, FiniteSetTheorems, FunctionTheorems, TLAPS

(* The shares of a set of validators, whose number is its power.           *)
SharesOf(S) == UNION {Shares(v) : v \in S}

(* A set of validators owns a finite number of shares, so its power is a   *)
(* natural number: the BN sums of vote.ts never go below zero.             *)
LEMMA PowerType ==
  ASSUME NEW S \in SUBSET Validators
  PROVE  IsFiniteSet(SharesOf(S)) /\ PowerOf(S) \in Nat
<1>1. IsFiniteSet(S)
  BY ValidatorsAssumption, FS_Subset
<1>2. \A v \in S : IsFiniteSet(Shares(v))
  <2> SUFFICES ASSUME NEW v \in S PROVE IsFiniteSet(Shares(v))
    OBVIOUS
  <2>1. VotingPower[v] \in Int
    BY VotingPowerAssumption
  <2>2. IsFiniteSet(1 .. VotingPower[v])
    BY <2>1, FS_Interval
  <2>3. IsFiniteSet({v})
    BY FS_Singleton
  <2> QED
    BY <2>2, <2>3, FS_Product DEF Shares
<1> DEFINE F == {Shares(v) : v \in S}
           f == [v \in S |-> Shares(v)]
<1>3. IsFiniteSet(F)
  <2>1. f \in Surjection(S, F)
    BY DEF Surjection
  <2> QED
    BY <1>1, <2>1, FS_Surjection
<1>4. IsFiniteSet(UNION F)
  <2>1. \A T \in F : IsFiniteSet(T)
    BY <1>2
  <2> HIDE DEF F
  <2> QED
    BY <1>3, <2>1, FS_UNION
<1> QED
  BY <1>4, FS_CardinalityType DEF PowerOf, SharesOf

(* Sets that share no validator share no power.                            *)
LEMMA PowerAdditive ==
  ASSUME NEW S \in SUBSET Validators, NEW T \in SUBSET Validators,
         S \cap T = {}
  PROVE  PowerOf(S \cup T) = PowerOf(S) + PowerOf(T)
<1>1. SharesOf(S \cup T) = SharesOf(S) \cup SharesOf(T)
  BY DEF SharesOf
<1>2. SharesOf(S) \cap SharesOf(T) = {}
  BY DEF SharesOf, Shares
<1>3. /\ IsFiniteSet(SharesOf(S))
      /\ IsFiniteSet(SharesOf(T))
      /\ PowerOf(S) \in Nat
      /\ PowerOf(T) \in Nat
  BY PowerType
<1>4. Cardinality(SharesOf(S) \cap SharesOf(T)) = 0
  BY <1>2, FS_EmptySet
<1>5. Cardinality(SharesOf(S) \cup SharesOf(T))
        = Cardinality(SharesOf(S)) + Cardinality(SharesOf(T))
            - Cardinality(SharesOf(S) \cap SharesOf(T))
  BY <1>3, FS_Union
<1>6. /\ PowerOf(S) = Cardinality(SharesOf(S))
      /\ PowerOf(T) = Cardinality(SharesOf(T))
      /\ PowerOf(S \cup T) = Cardinality(SharesOf(S \cup T))
  BY DEF PowerOf, SharesOf
<1>7. PowerOf(S \cup T) = PowerOf(S) + PowerOf(T) - 0
  BY <1>1, <1>4, <1>5, <1>6, Zenon
<1> QED
  BY <1>3, <1>7

(* A larger set of validators has at least the power of a smaller one.     *)
LEMMA PowerMonotone ==
  ASSUME NEW T \in SUBSET Validators, NEW S \in SUBSET T
  PROVE  PowerOf(S) <= PowerOf(T)
<1>1. /\ S \in SUBSET Validators
      /\ T \ S \in SUBSET Validators
      /\ S \cap (T \ S) = {}
      /\ S \cup (T \ S) = T
  OBVIOUS
<1>2. PowerOf(T) = PowerOf(S) + PowerOf(T \ S)
  BY <1>1, PowerAdditive
<1> QED
  BY <1>1, <1>2, PowerType

(* One more voter adds exactly its own power: the `iadd` of addVerifiedVote *)
LEMMA PowerOfNewVoter ==
  ASSUME NEW S \in SUBSET Validators, NEW v \in Validators, v \notin S
  PROVE  PowerOf(S \cup {v}) = PowerOf(S) + VotingPower[v]
<1>1. PowerOf(S \cup {v}) = PowerOf(S) + PowerOf({v})
  BY PowerAdditive
<1>2. UNION {Shares(w) : w \in {v}} = {v} \X (1 .. VotingPower[v])
  BY DEF Shares
<1>3. VotingPower[v] \in Nat /\ VotingPower[v] > 0
  BY VotingPowerAssumption
<1>4. /\ IsFiniteSet(1 .. VotingPower[v])
      /\ Cardinality(1 .. VotingPower[v]) = VotingPower[v]
  <2>1. 1 \in Int /\ VotingPower[v] \in Int /\ ~ (1 > VotingPower[v])
    BY <1>3
  <2>2. /\ IsFiniteSet(1 .. VotingPower[v])
        /\ Cardinality(1 .. VotingPower[v]) = VotingPower[v] - 1 + 1
    BY <2>1, FS_Interval, Zenon
  <2>3. VotingPower[v] - 1 + 1 = VotingPower[v]
    BY <1>3
  <2> QED
    BY <2>2, <2>3, Zenon
<1>5. Cardinality({v} \X (1 .. VotingPower[v])) = 1 * VotingPower[v]
  <2>1. IsFiniteSet({v}) /\ Cardinality({v}) = 1
    BY FS_Singleton
  <2> QED
    BY <1>4, <2>1, FS_Product
<1>6. PowerOf({v}) = 1 * VotingPower[v]
  BY <1>2, <1>5, Zenon DEF PowerOf
<1> QED
  BY <1>1, <1>3, <1>6

(* What the floored division of the code means: a quorum is strictly more  *)
(* than two thirds of the total power.                                     *)
LEMMA QuorumIsTwoThirds ==
  ASSUME NEW S \in SUBSET Validators
  PROVE  /\ TotalVotingPower \in Nat
         /\ TwoThirds \in Nat
         /\ IsQuorum(S) <=> 3 * PowerOf(S) > 2 * TotalVotingPower
<1>1. PowerOf(S) \in Nat /\ TotalVotingPower \in Nat
  BY PowerType DEF TotalVotingPower
<1>2. \A t, p \in Nat : /\ (2 * t) \div 3 \in Nat
                        /\ p >= (2 * t) \div 3 + 1 <=> 3 * p > 2 * t
  OBVIOUS
<1> QED
  BY <1>1, <1>2 DEF IsQuorum, Quorum, TwoThirds

(* Two quorums have a member in common that is outside any set holding     *)
(* less than a third of the power: the fact that makes +2/3 votes binding. *)
THEOREM QuorumIntersection ==
  ASSUME NEW Q \in SUBSET Validators, NEW R \in SUBSET Validators,
         NEW F \in SUBSET Validators,
         IsQuorum(Q), IsQuorum(R), 3 * PowerOf(F) < TotalVotingPower
  PROVE  \E v \in Q \cap R : v \notin F
<1> SUFFICES ASSUME Q \cap R \subseteq F PROVE FALSE
  OBVIOUS
<1> DEFINE I == Q \cap R
<1>1. /\ PowerOf(Q) \in Nat /\ PowerOf(R) \in Nat /\ PowerOf(F) \in Nat
      /\ PowerOf(I) \in Nat /\ TotalVotingPower \in Nat
      /\ PowerOf(Q \ I) \in Nat /\ PowerOf(Q \cup R) \in Nat
  BY PowerType DEF TotalVotingPower
<1>2. PowerOf(Q) = PowerOf(Q \ I) + PowerOf(I)
  <2>1. (Q \ I) \cup I = Q /\ (Q \ I) \cap I = {}
    OBVIOUS
  <2> QED
    BY <2>1, PowerAdditive
<1>3. PowerOf(Q \cup R) = PowerOf(Q \ I) + PowerOf(R)
  <2>1. (Q \ I) \cup R = Q \cup R /\ (Q \ I) \cap R = {}
    OBVIOUS
  <2> QED
    BY <2>1, PowerAdditive
<1>4. PowerOf(Q \cup R) <= TotalVotingPower
  BY PowerMonotone DEF TotalVotingPower
<1>5. PowerOf(I) <= PowerOf(F)
  BY PowerMonotone
<1>6. /\ 3 * PowerOf(Q) > 2 * TotalVotingPower
      /\ 3 * PowerOf(R) > 2 * TotalVotingPower
  BY QuorumIsTwoThirds
<1> HIDE DEF I
<1> QED
  BY <1>1, <1>2, <1>3, <1>4, <1>5, <1>6

(* Adding voters to a quorum keeps it one.                                 *)
LEMMA QuorumMonotone ==
  ASSUME NEW Q \in SUBSET Validators, NEW R \in SUBSET Validators,
         Q \subseteq R, IsQuorum(Q)
  PROVE  IsQuorum(R)
<1>1. PowerOf(Q) <= PowerOf(R) /\ PowerOf(Q) \in Nat /\ PowerOf(R) \in Nat
  BY PowerMonotone, PowerType
<1>2. TwoThirds \in Nat
  BY QuorumIsTwoThirds
<1> QED
  BY <1>1, <1>2 DEF IsQuorum, Quorum
=============================================================================
