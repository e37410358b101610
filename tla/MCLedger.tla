----------------------------- MODULE MCLedger ------------------------------
(* What decides about the blocks to come and their transactions: the height  *)
(* vote set and four instances, of which a behaviour runs one (part) while *)
(* the others stay as they begin:                                          *)
(*  "rounds"     one validator with all the power, so that the search goes *)
(*               into rounds, a peer and a claim of its;                   *)
(*  "rotation"   three validators of power 1 or 2 that come, go and change *)
(*               their power, blocks decided in one of three rounds;       *)
(*  "staking"    the contracts and the node's validator set: a validator   *)
(*               of the genesis and another, four blocks, three            *)
(*               transactions of theirs, a jail after two missed rounds;   *)
(*  "fetcher"    two peers, two hashes, two connections, one hash to a     *)
(*               request, one announcement and one answer waiting;         *)
(*  "proposing"  two users with deposits, a transfer and a withdrawal,     *)
(*               blocks with the gas of four, three blocks.                *)
EXTENDS HeightVoteSet, Sequences, TLC

CONSTANTS
    Absent, Undefined,
    \* rounds
    v1,
    \* rotation
    PowerChoices, RotationMaxRound, Address, RotationMaxCount,
    \* staking
    Validator, GenesisValidators, MinIndexVotingPower, JailThreshold, RecordsAmountPeriod,
    UnstakeDelay, FeePoolInterval, Amounts, Rates, Factors, MinerReward, MinerRewardFactor,
    Usages, MissCounts, MinTotalLockedAmount, MinValidatorsCount, MaxValidatorsCount, MaxTx,
    StakingMaxNumber,
    \* fetcher
    Peer, Hash, MaxTxAnnounces, MaxTxRetrievals, MaxAnnouncements, MaxAnswers, MaxJoins,
    \* proposing
    User, RecoverInterval, DailyFee, WithdrawDelay, MaxRefundQuotient, BlockGasLimit,
    Txs, Balance, MaxNumber, MaxAppends

VARIABLES part,
    set, waited,
    c, txs, indexed, active, before,
    s, queue, answers, calls, online, joins, pooled, panics,
    head, block, ok

rotationVars == <<set, waited>>
stakingVars == <<c, txs, indexed, active, before>>
fetcherVars == <<s, queue, answers, calls, online, joins, pooled, panics>>
proposingVars == <<head, block, ok>>

Rotation == INSTANCE ActiveValidatorSet WITH
    MaxRound <- RotationMaxRound, MaxValidatorsCount <- RotationMaxCount
Staking == INSTANCE Executor WITH MaxNumber <- StakingMaxNumber
Fetcher == INSTANCE TxFetcher WITH MaxQueue <- MaxAnnouncements
Proposing == INSTANCE PendingBlock

MCVotingPower == v1 :> 1
MCClaims == {1} \X {"prevotes"} \X Blocks
MCUsages == {<<1, 1>>}
BlockTx(from, to, nonce, price, value, amount, kind) ==
    [from |-> from, to |-> to, nonce |-> nonce, price |-> price, value |-> value,
     amount |-> amount, kind |-> kind, gasLimit |-> 2, baseFee |-> 1, gas |-> 1, refund |-> 0]
MCTxs ==
    {BlockTx("u", "v", 0, 1, 2, 0, "deposit"), BlockTx("v", "u", 0, 2, 1, 0, "transfer"),
     BlockTx("u", "v", 1, 1, 0, 2, "withdraw"), BlockTx("v", "v", 1, 1, 1, 0, "deposit")}
\* MCLedgerRefund.cfg: a transaction that gets half of its gas back, and one more.
MCRefundTxs ==
    {[BlockTx("u", "v", 0, 1, 1, 0, "transfer") EXCEPT !.gasLimit = 3, !.gas = 3, !.refund = 1],
     BlockTx("v", "u", 0, 1, 1, 0, "transfer")}

-----------------------------------------------------------------------------
MCInit ==
    /\ part \in {"rounds", "rotation", "staking", "fetcher", "proposing"}
    /\ Init
    /\ Rotation!Init /\ (part # "rotation" => set = Rotation!Genesis({1}))
    /\ Staking!Init /\ (part # "staking" => c = Staking!Deployed)
    /\ Fetcher!Init /\ Proposing!Init

MCNext ==
    \/ /\ part = "rounds" /\ Next
       /\ UNCHANGED <<part, rotationVars, stakingVars, fetcherVars, proposingVars>>
    \/ /\ part = "rotation" /\ Rotation!Next
       /\ UNCHANGED <<part, vars, stakingVars, fetcherVars, proposingVars>>
    \/ /\ part = "staking" /\ Staking!Next
       /\ UNCHANGED <<part, vars, rotationVars, fetcherVars, proposingVars>>
    \/ /\ part = "fetcher" /\ Fetcher!Next
       /\ UNCHANGED <<part, vars, rotationVars, stakingVars, proposingVars>>
    \/ /\ part = "proposing" /\ Proposing!Next
       /\ UNCHANGED <<part, vars, rotationVars, stakingVars, fetcherVars>>

mcVars == <<part, vars, rotationVars, stakingVars, fetcherVars, proposingVars>>

MCSpec == MCInit /\ [][MCNext]_mcVars

-----------------------------------------------------------------------------
(* The proposer's priorities stay in their window, nobody starves, and     *)
(* moving by several rounds at once names the proposers of each            *)
(* (ActiveValidatorSet).                                                   *)
RotationIsFair ==
    part = "rotation" =>
        Rotation!PrioritiesBounded /\ Rotation!NobodyStarves /\ Rotation!RoundsCompose

(* The node's index of validators is what the contracts say, those who     *)
(* are active can be loaded from it, and the sums the contracts keep cover *)
(* what they are the sums of: the locked amount, the missed rounds and the *)
(* shares (Executor, StakeManager.sol, Prison.sol).                        *)
StakesAreSound ==
    part = "staking" =>
        /\ Staking!IndexedSetMatchesContract /\ Staking!ActiveCanBeLoaded
        /\ Staking!LockedCoversPowers /\ Staking!MissedCoversRecords /\ Staking!SharesAreOwned

(* A transaction that was announced is being fetched from somebody, or is  *)
(* forgotten, whatever peers leave or let time out (TxFetcher).            *)
FetchedBySomeone == part = "fetcher" => Fetcher!FetchedBySomeone

(* What a proposer puts into the header is what the importers compute, the *)
(* stakes are the deposits, and no coin is made (PendingBlock, runTx).     *)
ProposedIsAccepted ==
    part = "proposing" =>
        Proposing!ProposedIsAccepted /\ Proposing!StakesMatchDeposits /\ Proposing!SupplyIsKept
=============================================================================
