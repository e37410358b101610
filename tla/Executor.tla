------------------------------ MODULE Executor ------------------------------
(***************************************************************************)
(* ReimintExecutor with the staking contracts: transactions of a block     *)
(* call them, then afterApply rewards the miner, freezes whom evidence     *)
(* names, jails who missed rounds, distributes fees and moves the node's   *)
(* own validator set by the events of the block alone.  The set is what    *)
(* consensus uses; a node that restarts loads it from the contracts.       *)
(* Priorities are in ActiveValidatorSet: here any active one may propose.  *)
(*                                                                         *)
(* First the contracts: StakeManager with the CommissionShare of each      *)
(* validator, ValidatorRewardPool, UnstakePool, Prison, FeePool and        *)
(* ValidatorBLS.  A call is an operator on the contracts' storage c; what  *)
(* its events tell the node (ValidatorChanges) is collected in c.changes   *)
(* in the order of the logs.  A require that fails is a guard of the call. *)
(* Who owns the shares of a validator is left out, only their supply is.   *)
(***************************************************************************)
EXTENDS Integers, Sequences, FiniteSets, FiniteSetsExt, SequencesExt, Functions

CONSTANTS
    Validator, GenesisValidators,
    MinIndexVotingPower, JailThreshold, RecordsAmountPeriod,
    UnstakeDelay, FeePoolInterval,
    Amounts, Rates, Factors, \* bounds: what transactions stake, claim, set, slash
    MinerReward, MinerRewardFactor,
    Usages, MissCounts,     \* bounds: what fees and balances a block used, missed rounds
    MinTotalLockedAmount, MinValidatorsCount, MaxValidatorsCount,
    MaxTx, MaxNumber        \* bounds on transactions and blocks

Unset == -1

-----------------------------------------------------------------------------
(* ValidatorChanges: what the events of one block say.                     *)
NoChanges == [update |-> [v \in Validator |-> 0],
              votingPower |-> [v \in Validator |-> Unset],
              unindexed |-> {}, bls |-> {}]

Index(ch, v, power) ==
    IF v \in GenesisValidators THEN ch
    ELSE [ch EXCEPT !.unindexed = @ \ {v}, !.votingPower[v] = power, !.update[v] = 0]

Unindex(ch, v) ==
    IF v \in GenesisValidators THEN ch
    ELSE [ch EXCEPT !.unindexed = @ \cup {v}, !.votingPower[v] = Unset, !.update[v] = 0]

Update(ch, v, n) == IF v \in GenesisValidators THEN ch ELSE [ch EXCEPT !.update[v] = @ + n]

-----------------------------------------------------------------------------
GetVotingPower(c, v) == c.commission[v].balance + c.reward[v]

(* totalLockedAmount follows a validator that is neither jailed nor frozen. *)
AddLocked(c, v, n) == IF v \in c.jailed \cup c.frozen THEN c ELSE [c EXCEPT !.locked = @ + n]

(* Enough voting power: the validator is indexed.  The event gives the     *)
(* power without what the event after it adds.                             *)
IndexIfStrong(c, v, added) ==
    IF /\ v \notin c.jailed \cup c.frozen \cup c.indexed
       /\ GetVotingPower(c, v) >= MinIndexVotingPower
    THEN [c EXCEPT !.indexed = @ \cup {v},
                   !.changes = Index(@, v, GetVotingPower(c, v) - added)]
    ELSE c

Deindex(c, v) ==
    IF v \in c.indexed
    THEN [c EXCEPT !.indexed = @ \ {v}, !.changes = Unindex(@, v)]
    ELSE c

(* CommissionShare.mint and stake.                                         *)
MintedShares(c, v, n) ==
    LET s == c.commission[v]
    IN  IF s.supply = 0 THEN s.balance + n
        ELSE IF s.balance = 0 THEN 0 ELSE (n * s.supply) \div s.balance

CanStake(c, v, n) == v \notin c.frozen /\ MintedShares(c, v, n) > 0

Stake(c, v, n) ==
    LET shares == MintedShares(c, v, n)
        c1 == [c EXCEPT !.created = @ \cup {v},
                        !.commission[v] = [balance |-> @.balance + n, supply |-> @.supply + shares]]
        c2 == AddLocked(IndexIfStrong(c1, v, n), v, n)
    IN  [c2 EXCEPT !.changes = Update(@, v, n)]

(* CommissionShare.burn.                                                   *)
BurnedAmount(c, v, shares) ==
    (shares * c.commission[v].balance) \div c.commission[v].supply

(* UnstakePool.deposit: zero when the pool refuses.                        *)
DepositedShares(c, v, n) ==
    LET p == c.unstaking[v]
    IN  IF p.supply = 0 THEN p.balance + n
        ELSE IF p.balance = 0 THEN 0 ELSE (n * p.supply) \div p.balance

(* _startUnstake, after the amount has left the validator.                 *)
StartUnstakeAmount(c, v, n) ==
    LET shares == DepositedShares(c, v, n)
        c1 == IF GetVotingPower(c, v) < MinIndexVotingPower THEN Deindex(c, v) ELSE c
    IN  [AddLocked(c1, v, -n) EXCEPT
            !.unstaking[v] = [balance |-> @.balance + n, supply |-> @.supply + shares],
            !.queue = Append(@, [validator |-> v, shares |-> shares,
                                 timestamp |-> c.number + UnstakeDelay]),
            !.changes = Update(@, v, -n)]

CanStartUnstake(c, v, shares) ==
    /\ v \notin c.frozen /\ shares \in 1 .. c.commission[v].supply
    /\ LET n == BurnedAmount(c, v, shares) IN n = 0 \/ DepositedShares(c, v, n) > 0

StartUnstake(c, v, shares) ==
    LET n == BurnedAmount(c, v, shares)
        burnt == [c EXCEPT !.commission[v] =
                    [balance |-> @.balance - n, supply |-> @.supply - shares]]
    IN  IF n > 0 THEN StartUnstakeAmount(burnt, v, n) ELSE burnt

CanStartClaim(c, v, n) ==
    v \notin c.frozen /\ n \in 1 .. c.reward[v] /\ DepositedShares(c, v, n) > 0

StartClaim(c, v, n) == StartUnstakeAmount([c EXCEPT !.reward[v] = @ - n], v, n)

CanUnstake(c, id) ==
    LET u == c.queue[id]
    IN  u.shares > 0 /\ u.validator \notin c.frozen /\ u.timestamp <= c.number

(* unstake and UnstakePool.withdraw; the entry of the queue is deleted.    *)
Unstake(c, id) ==
    LET u == c.queue[id]
        p == c.unstaking[u.validator]
    IN  [c EXCEPT !.unstaking[u.validator] =
            [balance |-> p.balance - ((u.shares * p.balance) \div p.supply),
             supply |-> p.supply - u.shares],
            !.queue[id].shares = 0]

SetCommissionRate(c, v, rate) == [c EXCEPT !.rate[v] = rate]

(* reward: called for the miner and by FeePool.                            *)
Reward(c, v, n) ==
    LET commission == (n * c.rate[v]) \div 100
        paid == [c EXCEPT !.commission[v].balance = @ + commission,
                          !.reward[v] = @ + n - commission]
        c1 == AddLocked(IndexIfStrong(paid, v, n), v, n)
    IN  [c1 EXCEPT !.changes = Update(@, v, n)]

Freeze(c, v, hash) ==
    [AddLocked(Deindex(c, v), v, -GetVotingPower(c, v)) EXCEPT
        !.used = @ \cup {hash}, !.frozen = @ \cup {v}]

CanUnfreeze(c, v, fixed) == v \in c.frozen /\ fixed <= c.reward[v]

(* unfreeze: a factor slashes every pool, a fixed amount only the rewards. *)
Unfreeze(c, v, factor, fixed) ==
    LET Left(n) == n - ((n * factor) \div 100)
        c1 == [c EXCEPT !.commission[v].balance = Left(@),
                        !.reward[v] = Left(@) - fixed,
                        !.unstaking[v].balance = Left(@),
                        !.frozen = @ \ {v}]
    IN  AddLocked(IndexIfStrong(c1, v, 0), v, GetVotingPower(c1, v))

-----------------------------------------------------------------------------
(* Prison.unjail and StakeManager.unjail.                                  *)
Unjail(c, v) ==
    LET c1 == [c EXCEPT !.jailed = @ \ {v}, !.lastUnjailed[v] = c.number]
    IN  AddLocked(IndexIfStrong(c1, v, 0), v, GetVotingPower(c1, v))

RecordsOf(c, v, blocks) ==
    MapThenSumSet(LAMBDA i : IF v \in DOMAIN c.records[i] /\ c.lastUnjailed[v] <= i
                             THEN c.records[i][v] ELSE 0, blocks)

Expired(c) == {i \in DOMAIN c.records : i <= c.number - 1 - RecordsAmountPeriod}

(* Records older than the period are taken back from a miner that is not   *)
(* jailed and has not been unjailed since.                                 *)
ForgetRecords(c) ==
    [c EXCEPT !.missed = [v \in Validator |-> @[v] -
        (IF v \in c.jailed THEN 0 ELSE RecordsOf(c, v, Expired(c)))],
              !.records = RestrictDomain(@, LAMBDA i : i \notin Expired(c))]

(* Prison.addMissRecord: who reaches the threshold is jailed.              *)
PrisonAddMissRecord(c, record) ==
    LET c1 == ForgetRecords(c)
        missed == [v \in Validator |->
                     IF v \in DOMAIN record \ c1.jailed THEN c1.missed[v] + record[v]
                     ELSE c1.missed[v]]
        jailedMiner == {v \in DOMAIN record \ c1.jailed : missed[v] >= JailThreshold}
    IN  [c1 EXCEPT !.records = [i \in DOMAIN @ \cup {c.number - 1} |->
                                  IF i = c.number - 1 THEN record ELSE @[i]],
                   !.missed = [v \in Validator |-> IF v \in jailedMiner THEN 0 ELSE missed[v]],
                   !.jailed = @ \cup jailedMiner]

(* StakeManager.addMissRecord: jailed validators leave the index.          *)
AddMissRecord(c, record) ==
    LET c1 == PrisonAddMissRecord(c, record)
        leaving == (c1.jailed \ c.jailed) \cap c.indexed
        c2 == FoldSet(LAMBDA v, d : Deindex(d, v), c1, leaving)
    IN  [c2 EXCEPT !.locked = @ - MapThenSumSet(LAMBDA v : GetVotingPower(c, v), leaving \ c.frozen)]

-----------------------------------------------------------------------------
FeeShares(c) == MapThenSumSet(LAMBDA v : c.fee.sharesOf[v], Validator)

(* FeePool.distribute: the miner's share, and once the interval is over    *)
(* every share is paid, the first of the list takes what rounding leaves.  *)
PayShares(c) ==
    LET validators == c.fee.validators
        Share(i) == (c.fee.sharesOf[validators[i]] * c.fee.balance) \div c.fee.totalShares
        later == MapThenSumSet(Share, 2 .. Len(validators))
        Value(i) == IF i = 1 THEN c.fee.balance - later ELSE Share(i)
        Pay(i, d) == IF Value(i) > 0 THEN Reward(d, validators[i], Value(i)) ELSE d
        paid == FoldSeq(Pay, c, [i \in 1 .. Len(validators) |-> i])
    IN  [paid EXCEPT !.fee = [@ EXCEPT !.validators = <<>>, !.totalShares = 0, !.balance = 0,
                                       !.sharesOf = [v \in Validator |-> 0]]]

AddShare(c, miner, amount, value) ==
    [c EXCEPT !.fee = [@ EXCEPT
        !.validators = IF amount > 0 /\ c.fee.sharesOf[miner] = 0 THEN Append(@, miner) ELSE @,
        !.sharesOf[miner] = @ + amount,
        !.totalShares = @ + amount,
        !.balance = @ + value]]

Distribute(c, miner, amount, value) ==
    LET c1 == AddShare(c, miner, amount, value)
    IN  IF c.fee.globalTimestamp + FeePoolInterval >= c.number THEN c1
        ELSE LET due == c1.fee.validators # <<>> /\ c1.fee.totalShares # 0 /\ c1.fee.balance # 0
             IN  [(IF due THEN PayShares(c1) ELSE c1) EXCEPT !.fee.globalTimestamp = c.number]

-----------------------------------------------------------------------------
SetBLSPublicKey(c, v) == [c EXCEPT !.bls = @ \cup {v}, !.changes.bls = @ \cup {v}]

(* The contracts of the genesis block.                                     *)
Deployed ==
    [created |-> GenesisValidators, indexed |-> {}, locked |-> 0,
     commission |-> [v \in Validator |-> [balance |-> 0, supply |-> 0]],
     reward |-> [v \in Validator |-> 0], rate |-> [v \in Validator |-> 0],
     unstaking |-> [v \in Validator |-> [balance |-> 0, supply |-> 0]], queue |-> <<>>,
     used |-> {}, frozen |-> {}, jailed |-> {}, missed |-> [v \in Validator |-> 0],
     lastUnjailed |-> [v \in Validator |-> 0], records |-> <<>>,
     fee |-> [sharesOf |-> [v \in Validator |-> 0], validators |-> <<>>,
              totalShares |-> 0, balance |-> 0, globalTimestamp |-> 0],
     bls |-> GenesisValidators, number |-> 1, changes |-> NoChanges]

-----------------------------------------------------------------------------
VARIABLES
    c,          \* the contracts, in the state of the pending block
    txs,        \* transactions so far (bounded by MaxTx)
    indexed,    \* the node's IndexedValidatorSet: power and key of each
    active,     \* who is active after the last block
    before      \* who was active after the block before it

vars == <<c, txs, indexed, active, before>>

(* IndexedValidatorSet.fromStakeManager.                                   *)
FromStakeManager(d) ==
    [v \in {w \in d.indexed \ GenesisValidators : GetVotingPower(d, w) > 0} |->
        [votingPower |-> GetVotingPower(d, v), bls |-> v \in d.bls]]

Merge_UpdatesAny(set, ch, bls) ==
    LET kept == DOMAIN set \cup {v \in Validator : ch.votingPower[v] # Unset}
        Base(v) == IF ch.votingPower[v] # Unset THEN ch.votingPower[v] ELSE set[v].votingPower
    IN  [v \in kept |-> [votingPower |-> Base(v) + ch.update[v], bls |-> v \in bls]]
(* IndexedValidatorSet.merge: events of one block change the set; the key  *)
(* comes from an event of the block, or from the contract for a new one.   *)
Merge(set, ch, bls) ==
    LET new == {v \in Validator : ch.votingPower[v] # Unset}
        members == (DOMAIN set \ ch.unindexed) \cup new
        Power(v) == (IF v \in new THEN ch.votingPower[v] ELSE set[v].votingPower) + ch.update[v]
        zero == {v \in members : ch.update[v] # 0 /\ Power(v) = 0}
    IN  [v \in members \ zero |->
            [votingPower |-> Power(v),
             bls |-> \/ v \in ch.bls
                     \/ v \in new /\ v \in bls
                     \/ v \in DOMAIN set \ ch.unindexed /\ set[v].bls]]

(* IndexedValidatorSet.sort over those that have a key; of two with equal  *)
(* power the lower address is first.                                       *)
Strongest(set) ==
    LET withKey == {v \in DOMAIN set : set[v].bls}
        Before(v, w) == \/ set[v].votingPower > set[w].votingPower
                        \/ set[v].votingPower = set[w].votingPower /\ v < w
    IN  {v \in withKey : Cardinality({w \in withKey : Before(w, v)}) < MaxValidatorsCount}

(* Too little is staked or too few validate: the genesis validators do.    *)
EnableGenesisValidators(set) ==
    LET withKey == {v \in DOMAIN set : set[v].bls}
    IN  \/ MapThenSumSet(LAMBDA v : set[v].votingPower, withKey) < MinTotalLockedAmount
        \/ Cardinality(withKey) < MinValidatorsCount

NextActive(set) ==
    IF EnableGenesisValidators(set) THEN GenesisValidators ELSE Strongest(set)

(* afterApply, steps 1 to 6: the system caller's calls, in their order.    *)
SystemCalls(miner, evidence, missRecords, feeUsage, balUsage) ==
    LET minerReward == (MinerReward * MinerRewardFactor) \div 100
        feePoolReward == MinerReward - minerReward
        c1 == Reward(c, miner, minerReward)
        c2 == FoldSeq(LAMBDA ev, d : Freeze(d, ev[1], ev), c1, evidence)
        c3 == AddMissRecord(c2, missRecords)
    IN  Distribute(c3, miner, balUsage + feeUsage, feePoolReward + balUsage)

-----------------------------------------------------------------------------
(* The contracts after a first block in which every other validator staked *)
(* and set its key.                                                        *)
Staked(n) ==
    FoldSet(LAMBDA v, d : SetBLSPublicKey(Stake(d, v, n), v), Deployed,
            Validator \ GenesisValidators)

Init ==
    /\ c \in {Deployed} \cup {[Staked(n) EXCEPT !.changes = NoChanges] : n \in Amounts}
    /\ txs = 0
    /\ indexed = FromStakeManager(c)
    /\ active = NextActive(indexed)
    /\ before = active

Transact(d) ==
    /\ txs < MaxTx
    /\ txs' = txs + 1
    /\ c' = d
    /\ UNCHANGED <<indexed, active, before>>

DoStake(v, n) == CanStake(c, v, n) /\ Transact(Stake(c, v, n))
DoStartUnstake(v, n) == CanStartUnstake(c, v, n) /\ Transact(StartUnstake(c, v, n))
DoStartClaim(v, n) == CanStartClaim(c, v, n) /\ Transact(StartClaim(c, v, n))
DoUnstake(id) == CanUnstake(c, id) /\ Transact(Unstake(c, id))
DoUnjail(v) == v \in c.jailed /\ Transact(Unjail(c, v))
DoUnfreeze(v, factor, fixed) ==
    CanUnfreeze(c, v, fixed) /\ Transact(Unfreeze(c, v, factor, fixed))
DoSetBLSPublicKey(v) == Transact(SetBLSPublicKey(c, v))
DoSetCommissionRate(v, rate) ==
    v \in c.created /\ rate # c.rate[v] /\ Transact(SetCommissionRate(c, v, rate))

(* afterApply: the system's calls, then the set moves by the events.       *)
Moved(d) ==
    /\ c' = [d EXCEPT !.changes = NoChanges, !.number = @ + 1]
    /\ indexed' = Merge(indexed, d.changes, d.bls)
    /\ active' = NextActive(indexed')
AfterApply(miner, evidence, missRecords, feeUsage, balUsage) ==
    /\ c.number < MaxNumber
    /\ Moved(SystemCalls(miner, evidence, missRecords, feeUsage, balUsage))
    /\ before' = active /\ UNCHANGED txs

(* Bound: two pieces of evidence of one validator, in one block or two.    *)
EvidenceLists ==
    LET unused == {<<v, k>> : v \in c.created \ GenesisValidators, k \in 1 .. 2} \ c.used
    IN  {s \in {<<>>} \cup {<<e>> : e \in unused} \cup (unused \X unused) :
            \A i \in DOMAIN s : s[i][2] = i + Cardinality({u \in c.used : u[1] = s[i][1]})}
MissRecords == UNION {[V -> MissCounts] : V \in SUBSET (before \ GenesisValidators)}

(* Bound: commission rates are set in the first block.                     *)
Next ==
    \/ \E v \in Validator, n \in Amounts :
          \/ DoStake(v, n) \/ DoStartUnstake(v, n) \/ DoStartClaim(v, n)
    \/ \E id \in DOMAIN c.queue : DoUnstake(id)
    \/ \E v \in Validator : DoUnjail(v) \/ DoSetBLSPublicKey(v)
    \/ \E v \in Validator, factor \in Factors : DoUnfreeze(v, factor, 0)
    \/ \E v \in Validator, fixed \in Amounts : DoUnfreeze(v, 0, fixed)
    \/ c.number = 1 /\ \E v \in Validator, rate \in Rates : DoSetCommissionRate(v, rate)
    \/ \E miner \in active, evidence \in EvidenceLists, missRecords \in MissRecords,
          usage \in Usages :
          AfterApply(miner, evidence, missRecords, usage[1], usage[2])

Spec == Init /\ [][Next]_vars

-----------------------------------------------------------------------------
(* Between two blocks the set a node moved by events is the set it would   *)
(* load from the contracts after a restart: otherwise a restarted node     *)
(* expects other proposers and other weights than its peers.               *)
IndexedSetMatchesContract ==
    c.changes = NoChanges => indexed = FromStakeManager(c)

(* Who is active can be read back: indexedValidatorsById reverts for the   *)
(* others; and it has a key to sign with.                                  *)
ActiveCanBeLoaded ==
    c.changes = NoChanges =>
        \A v \in active : v \in GenesisValidators \/ (v \in c.indexed /\ v \in c.bls)

(* The total the contract subtracts from never gets below the powers it    *)
(* stands for: neither a user's nor the system caller's call can revert by *)
(* an underflow and stop the chain.                                        *)
LockedCoversPowers ==
    c.locked >= MapThenSumSet(LAMBDA v : GetVotingPower(c, v),
                              Validator \ (c.jailed \cup c.frozen))

(* The missed rounds of a miner never get below its records of the period  *)
(* that are still to be subtracted, whatever jailing and unjailing passed. *)
MissedCoversRecords ==
    \A v \in Validator \ c.jailed : c.missed[v] >= RecordsOf(c, v, DOMAIN c.records)

(* Every pool's shares are those somebody can still redeem.                *)
SharesAreOwned ==
    /\ \A v \in Validator :
         c.unstaking[v].supply
           = MapThenSumSet(LAMBDA id : IF c.queue[id].validator = v THEN c.queue[id].shares ELSE 0,
                           DOMAIN c.queue)
    /\ c.fee.totalShares = FeeShares(c)
    /\ Cardinality(ToSet(c.fee.validators)) = Len(c.fee.validators)
    /\ \A v \in Validator : v \in ToSet(c.fee.validators) <=> c.fee.sharesOf[v] > 0
=============================================================================
