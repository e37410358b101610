------------------------ MODULE ActiveValidatorSet ------------------------
(***************************************************************************)
(* The active validator set of reimint/validatorSet and the rotation of    *)
(* the proposer: priorities that are rescaled, centred and moved by        *)
(* integer divisions, the choice of the active validators among the        *)
(* indexed ones, and what each block does with the set of its parent.      *)
(* An address is a number, because addresses are compared to break ties.   *)
(***************************************************************************)
EXTENDS Integers, FiniteSets, FiniteSetsExt

CONSTANTS
    Address,          \* the validators' addresses, numbers
    PowerChoices,     \* bound: the voting powers of the model
    MaxRound,         \* bound on the round a block is decided in
    MaxValidatorsCount

VARIABLES
    set,        \* the ActiveValidatorSet of the last block's state
    waited      \* history: blocks and rounds since a validator last proposed

vars == <<set, waited>>

(* BN.div and BN.divn drop the fraction: they round towards zero.          *)
Div(a, b) == IF a >= 0 THEN a \div b ELSE -((-a) \div b)

Active(s) == DOMAIN s.active
Priority(s, v) == s.active[v].priority
TotalPower(active) == MapThenSumSet(LAMBDA v : active[v].votingPower, DOMAIN active)
Total(s) == TotalPower(s.active)

(* calcProposer: the highest priority, the lower address among equals.     *)
CalcProposer(active) ==
    CHOOSE v \in DOMAIN active : \A w \in DOMAIN active \ {v} :
        \/ active[v].priority > active[w].priority
        \/ active[v].priority = active[w].priority /\ v < w

WithPriorities(active, priority) ==
    [v \in DOMAIN active |-> [active[v] EXCEPT !.priority = priority[v]]]

PriorityDiff(active) ==
    LET p == {active[v].priority : v \in DOMAIN active} IN Max(p) - Min(p)

(* rescalePriorities: a spread beyond the window is divided back into it.  *)
Rescale(active, diffMax) ==
    LET diff == PriorityDiff(active)
        ratio == Div(diff + diffMax - 1, diffMax)
    IN  IF diff > diffMax
        THEN WithPriorities(active, [v \in DOMAIN active |-> Div(active[v].priority, ratio)])
        ELSE active

(* shiftByAvgProposerPriority.                                             *)
ShiftByAvg(active) ==
    LET sum == MapThenSumSet(LAMBDA v : active[v].priority, DOMAIN active)
        avg == Div(sum, Cardinality(DOMAIN active))
    IN  WithPriorities(active, [v \in DOMAIN active |-> active[v].priority - avg])

(* _incrementProposerPriority: everyone gains its power, the chosen one    *)
(* pays the total.                                                         *)
IncrementOnce(s) ==
    LET raised == WithPriorities(s.active,
                      [v \in Active(s) |-> Priority(s, v) + s.active[v].votingPower])
        p == CalcProposer(raised)
    IN  [active |-> [raised EXCEPT ![p].priority = @ - Total(s)], proposer |-> p]

Iterate(s, times) ==
    LET f[i \in 0 .. times] == IF i = 0 THEN s ELSE IncrementOnce(f[i - 1]) IN f[times]

PriorityWindowSizeFactor == 2

(* incrementProposerPriority.                                              *)
IncrementProposerPriority(s, times) ==
    LET window == PriorityWindowSizeFactor * Total(s)
    IN  Iterate([s EXCEPT !.active = ShiftByAvg(Rescale(s.active, window))], times)

(* IndexedValidatorSet.sort: the most powerful, at most maxCount of them.  *)
Sort(powers, maxCount) ==
    LET Before(v, w) == powers[v] > powers[w] \/ (powers[v] = powers[w] /\ v < w)
        top == {v \in DOMAIN powers :
                  Cardinality({w \in DOMAIN powers : Before(w, v)}) < maxCount}
    IN  [v \in top |-> powers[v]]

RemovedPower(active, parent) ==
    MapThenSumSet(LAMBDA v : parent[v].votingPower, DOMAIN parent \ DOMAIN active)

(* merge and computeNewPriorities: known validators keep their priority,   *)
(* new ones start 1.25 totals behind.                                      *)
ComputeNewPriorities(powers, parent) ==
    LET zero == [v \in DOMAIN powers |-> [votingPower |-> powers[v], priority |-> 0]]
        tvp == TotalPower(zero) + RemovedPower(zero, parent.active)
        newPriority == -Div(tvp * 10, 8)
        active == WithPriorities(zero, [v \in DOMAIN powers |->
                      IF v \in Active(parent) THEN Priority(parent, v) ELSE newPriority])
    IN  [active |-> active, proposer |-> CalcProposer(active)]

(* ActiveValidatorSet.genesis: power and priority are one.                 *)
Genesis(validators) ==
    LET active == [v \in validators |-> [votingPower |-> 1, priority |-> 1]]
    IN  [active |-> active, proposer |-> CalcProposer(active)]

MissMiners_AfterMove(s, round) ==
    LET f[i \in 0 .. round] == IF i = 0 THEN s ELSE IncrementProposerPriority(f[i - 1], 1)
    IN  [i \in 0 .. round - 1 |-> f[i + 1].proposer]
(* The proposers of the rounds before the decided one: StateMachine and    *)
(* ExtraData move the set once by all rounds, afterApply one by one to     *)
(* charge each with a missed round.                                        *)
MissMiners(s, round) ==
    LET f[i \in 0 .. round] == IF i = 0 THEN s ELSE IncrementProposerPriority(f[i - 1], 1)
    IN  [i \in 0 .. round - 1 |-> f[i].proposer]

(* finalize and afterApply: the parent's set moves by the round, takes the *)
(* new voting powers and moves once more for the next height.              *)
NextSet(s, round, powers) ==
    IncrementProposerPriority(
        ComputeNewPriorities(Sort(powers, MaxValidatorsCount),
                             IncrementProposerPriority(s, round)), 1)

-----------------------------------------------------------------------------
Waiting(s, w) ==
    [v \in Active(s) |-> IF v = s.proposer THEN 0
                         ELSE IF v \in DOMAIN w THEN w[v] + 1 ELSE 0]

Init ==
    /\ \E g \in SUBSET Address \ {{}} : set = Genesis(g)
    /\ waited = Waiting(set, <<>>)

(* A block is decided in round 0 and the powers stay: one proposer more.   *)
SameValidators ==
    LET powers == [v \in Active(set) |-> set.active[v].votingPower]
    IN  /\ set' = NextSet(set, 0, powers)
        /\ waited' = Waiting(set', waited)

(* A block decided in a later round, which may change every power.         *)
ChangeValidators(round, powers) ==
    /\ set' = NextSet(set, round, powers)
    /\ waited' = Waiting(set', <<>>)

Powers == UNION {[V -> PowerChoices] : V \in SUBSET Address \ {{}}}

Next ==
    \/ SameValidators
    \/ \E round \in 0 .. MaxRound, powers \in Powers : ChangeValidators(round, powers)

Spec == Init /\ [][Next]_vars

-----------------------------------------------------------------------------
NumActive == Cardinality(Active(set))

(* Whatever blocks, rounds and changes of powers came before, priorities   *)
(* stay centred and within the window, one step of the proposer apart: the *)
(* divisions of rescaling and centring never let one run away.             *)
PrioritiesBounded ==
    LET sum == MapThenSumSet(LAMBDA v : Priority(set, v), Active(set))
    IN  /\ sum \in -NumActive .. NumActive
        /\ PriorityDiff(set.active) <= 3 * Total(set)

(* A validator proposes about in proportion to its power however unlucky   *)
(* its priority was when the powers last changed.                          *)
NobodyStarves ==
    \A v \in Active(set) : waited[v] * set.active[v].votingPower <= 3 * Total(set)

(* Moving by all failed rounds at once (ExtraData, StateMachine) and round *)
(* by round (enterNewRound of a slower node, afterApply) name the same     *)
(* proposers, so no validator is charged with another's missed round.      *)
RoundsCompose ==
    \A round \in 1 .. MaxRound :
        MissMiners(set, round)
          = [i \in 0 .. round - 1 |->
               IF i = 0 THEN set.proposer ELSE IncrementProposerPriority(set, i).proposer]
=============================================================================
