---------------------------- MODULE PendingBlock ----------------------------
(***************************************************************************)
(* Making a block: the worker (worker.ts), the pending block it fills with *)
(* transactions (pendingBlock.ts) and the map that hands them out by price *)
(* (pendingMap.ts).  Appending runs under the block's lock, a transaction  *)
(* at a time; finalizing waits for it, a stop is seen after the next       *)
(* transaction, and a block made by another node replaces the head.        *)
(*                                                                         *)
(* First what a transaction does to the state (vm/src/runTx.ts with the    *)
(* callbacks of makeRunTxCallback.ts), what the fee contract and the stake *)
(* of an account (stakeInfo.ts) allow it, and how a block is executed      *)
(* again by who receives it (vm/src/runBlock.ts).  A state is a record of  *)
(* balances, nonces, stakes and the fee contract's deposits; the message   *)
(* of a transaction is a transfer, a deposit for an account, a withdrawal, *)
(* or a call that fails, with the gas it uses and gives back.              *)
(***************************************************************************)
EXTENDS Integers, FiniteSetsExt, SequencesExt

CONSTANTS User,
          RecoverInterval, DailyFee, WithdrawDelay, MaxRefundQuotient, BlockGasLimit,
          None,         \* a model value: no result
          Txs,          \* the transactions that reach the node
          Balance,      \* of every user at first
          MaxNumber,    \* bound of the model: blocks
          MaxAppends    \* bound of the model: appendTxs calls on one block

FeeContract == "fee"
SystemCaller == "system caller"

\* StakeInfo.
NoStake == [total |-> 0, usage |-> 0, time |-> 0]
EstimateUsage(i, now) ==
  IF now <= i.time THEN i.usage
  ELSE IF now - i.time < RecoverInterval
       THEN (i.usage * (RecoverInterval - (now - i.time))) \div RecoverInterval ELSE 0
EstimateTotalFee(i, totalAmount) == IF totalAmount = 0 THEN 0 ELSE (i.total * DailyFee) \div totalAmount
EstimateFee(i, now, totalAmount) == Max({0, EstimateTotalFee(i, totalAmount) - EstimateUsage(i, now)})
Consume(i, amount, now) == [i EXCEPT !.usage = EstimateUsage(i, now) + amount, !.time = now]

TotalAmount(st) == st.balance[FeeContract]

\* The state an account can be in before any block.
NewState(b) ==
  [balance |-> [a \in User \cup {FeeContract, SystemCaller} |-> IF a \in User THEN b ELSE 0],
   nonce |-> [u \in User |-> 0], stake |-> [u \in User |-> NoStake],
   deposits |-> [u \in User |-> [by \in User |-> [amount |-> 0, time |-> 0]]]]

Move(st, from, to, v) ==
  [st EXCEPT !.balance = [a \in DOMAIN @ |-> @[a] - (IF a = from THEN v ELSE 0) + (IF a = to THEN v ELSE 0)]]

-----------------------------------------------------------------------------
\* The message: its effect and logs, or nothing when it fails.

Deposit(st, t, now) ==
  [Move(st, t.from, FeeContract, t.value) EXCEPT
     !.deposits[t.to][t.from] = [amount |-> @.amount + t.value, time |-> now]]
\* The amount of a withdrawal is in the call, its value is zero.
Withdraw(st, t) ==
  [Move(st, FeeContract, t.from, t.amount) EXCEPT !.deposits[t.to][t.from].amount = @ - t.amount]

Execute(st, t, now) ==
  LET failed == [ok |-> FALSE, st |-> st, logs |-> <<>>]
      d == st.deposits[t.to][t.from]
  IN  CASE st.balance[t.from] < t.value -> failed
        [] t.kind = "transfer" -> [ok |-> TRUE, st |-> Move(st, t.from, t.to, t.value), logs |-> <<>>]
        [] t.kind = "deposit" /\ t.value > 0 ->
             [ok |-> TRUE, st |-> Deposit(st, t, now), logs |-> <<[user |-> t.to, change |-> t.value]>>]
        [] t.kind = "withdraw" /\ d.time + WithdrawDelay < now /\ d.amount >= t.amount ->
             [ok |-> TRUE, st |-> Withdraw(st, t), logs |-> <<[user |-> t.to, change |-> -t.amount]>>]
        [] OTHER -> failed

-----------------------------------------------------------------------------
\* validateTx and beforeTx: nothing is deducted before the message is executed.
MayRun(st, t, now, totalAmount) ==
  /\ t.gasLimit <= BlockGasLimit /\ t.baseFee <= t.gasLimit
  /\ st.nonce[t.from] = t.nonce
  /\ st.balance[t.from] >= t.value
  /\ st.balance[t.from] + EstimateFee(st.stake[t.from], now, totalAmount) >= t.gasLimit * t.price + t.value

GasUsed(t, ok) ==
  LET used == Min({t.gasLimit, t.baseFee + t.gas})
  IN  used - (IF ok THEN Min({t.refund, used \div MaxRefundQuotient}) ELSE 0)

\* runTx: the whole transaction, or None when it throws and the checkpoint is reverted.
\* afterTx takes what the free fee does not cover from the balance.
RunTx(st, t, now, totalAmount) ==
  LET fee == EstimateFee(st.stake[t.from], now, totalAmount)
      balanceLeft == st.balance[t.from] - t.value
      r == Execute([st EXCEPT !.nonce[t.from] = @ + 1], t, now)
      gas == GasUsed(t, r.ok)
      feeUsage == Min({fee, gas * t.price})
      balanceUsage == gas * t.price - feeUsage
      paid == Move(r.st, t.from, SystemCaller, balanceUsage)
  IN  IF ~MayRun(st, t, now, totalAmount) \/ balanceUsage > balanceLeft
           \/ balanceUsage > r.st.balance[t.from] THEN None
      ELSE [st |-> IF feeUsage = 0 THEN paid
                   ELSE [paid EXCEPT !.stake[t.from] = Consume(@, feeUsage, now)],
            gas |-> gas, ok |-> r.ok,
            receipt |-> [logs |-> r.logs, feeUsage |-> feeUsage, balanceUsage |-> balanceUsage]]

\* Fee.filterReceipts and what afterApply does with it: the stake of each account
\* changes by what was deposited for it and withdrawn in the block.
ChangeOf(receipts, u) ==
  LET logs == FlattenSeq([i \in 1 .. Len(receipts) |-> receipts[i].logs])
  IN  FoldLeft(LAMBDA n, l : IF l.user = u THEN n + l.change ELSE n, 0, logs)
Finalize(st, receipts) ==
  [st EXCEPT !.stake = [u \in User |-> [@[u] EXCEPT !.total = @ + ChangeOf(receipts, u)]]]

\* runBlock on the state of the parent: the gas limits have to fit as well as the gas.
ApplyTx(r, t, now, totalAmount) ==
  IF r = None THEN None
  ELSE LET x == RunTx(r.st, t, now, totalAmount)
       IN  IF r.gas + t.gasLimit > BlockGasLimit \/ x = None THEN None
           ELSE [st |-> x.st, gas |-> r.gas + x.gas, receipts |-> Append(r.receipts, x.receipt)]
RunBlock(st, txs, now) ==
  LET r == FoldLeft(LAMBDA q, t : ApplyTx(q, t, now, TotalAmount(st)),
                    [st |-> st, gas |-> 0, receipts |-> <<>>], txs)
  IN  IF r = None THEN None ELSE [st |-> Finalize(r.st, r.receipts), gas |-> r.gas]

-----------------------------------------------------------------------------
VARIABLES head,     \* the state, the time and the number of the newest block
          block,    \* the pending block
          ok        \* every finalized block could be executed again, with its result

vars == <<head, block, ok>>

\* PendingTxMap: of each sender's list the first is in the heap, the rest follows.
Lists == [User -> {<<>>}] \cup
  {[u \in User |-> SetToSortSeq({t \in S : t.from = u}, LAMBDA s, t : s.nonce < t.nonce)] : S \in SUBSET Txs}
Peeks(m) == {u \in User : m[u] # <<>> /\ \A v \in User : m[v] # <<>> => Head(m[u]).price >= Head(m[v]).price}
Shift(m, u) == [m EXCEPT ![u] = Tail(@)]
Pop(m, u) == [m EXCEPT ![u] = <<>>]

NewBlock(h) ==
  [st |-> h.st, txs |-> <<>>, receipts |-> <<>>, gas |-> 0, time |-> h.time + 1, stopped |-> FALSE,
   final |-> None, running |-> None, waiting |-> <<>>, appends |-> 0]

Init ==
  /\ head = [st |-> NewState(Balance), time |-> 0, number |-> 0]
  /\ block = NewBlock(head)
  /\ ok = TRUE

\* Worker.addTxs, and the transactions of the pool when the block is created.
AppendTxs(m) ==
  /\ block.appends < MaxAppends /\ block.final = None /\ ~block.stopped
  /\ block' = [block EXCEPT !.appends = @ + 1,
                            !.running = IF @ = None THEN m ELSE @,
                            !.waiting = IF block.running = None THEN @ ELSE Append(@, m)]
  /\ UNCHANGED <<head, ok>>

\* The lock is released: the next call finds the block finalized or stopped, or runs.
Released(b) ==
  IF b.waiting = <<>> \/ b.final # None \/ b.stopped THEN [b EXCEPT !.running = None, !.waiting = <<>>]
  ELSE [b EXCEPT !.running = Head(b.waiting), !.waiting = Tail(b.waiting)]

\* The mutant of Taken: the free fee is computed from the amount staked by now.
Taken_ByPendingAmount(b, u) ==
  LET t == Head(b.running[u])
      r == RunTx(b.st, t, b.time, TotalAmount(b.st))
      next == [b EXCEPT !.st = r.st, !.txs = Append(@, t), !.receipts = Append(@, r.receipt),
                        !.gas = @ + r.gas, !.final = None, !.running = Shift(@, u)]
  IN  IF r = None THEN [b EXCEPT !.running = Pop(@, u)]
      ELSE IF b.gas + r.gas > BlockGasLimit THEN Released(b)
      ELSE IF b.stopped THEN Released(next) ELSE next

\* One transaction: it fails and its sender's others are left, it does not fit and
\* nothing more is tried, or it is taken.
Taken(b, u) ==
  LET t == Head(b.running[u])
      r == RunTx(b.st, t, b.time, TotalAmount(head.st))
      next == [b EXCEPT !.st = r.st, !.txs = Append(@, t), !.receipts = Append(@, r.receipt),
                        !.gas = @ + r.gas, !.final = None, !.running = Shift(@, u)]
  IN  IF r = None THEN [b EXCEPT !.running = Pop(@, u)]
      ELSE IF b.gas + r.gas > BlockGasLimit THEN Released(b)
      ELSE IF b.stopped THEN Released(next) ELSE next
AppendOne ==
  /\ block.running # None
  /\ \/ \E u \in Peeks(block.running) : block' = Taken(block, u)
     \/ Peeks(block.running) = {} /\ block' = Released(block)
  /\ UNCHANGED <<head, ok>>

Stop ==
  /\ ~block.stopped
  /\ block' = [block EXCEPT !.stopped = TRUE]
  /\ UNCHANGED <<head, ok>>

\* finalize, under the lock: the proposal is made from what it returns.
FinalizeBlock ==
  /\ block.running = None
  /\ LET st == Finalize(block.st, block.receipts)
         again == RunBlock(head.st, block.txs, block.time)
     IN  /\ block' = [block EXCEPT !.final = [st |-> st, txs |-> block.txs]]
         /\ ok' = (ok /\ again = [st |-> st, gas |-> block.gas])
  /\ UNCHANGED head

\* The finalized block is committed, or another block is and the worker starts again.
CommitBlock ==
  /\ head.number < MaxNumber /\ block.final # None
  /\ head' = [st |-> block.final.st, time |-> block.time, number |-> head.number + 1]
  /\ block' = NewBlock(head')
  /\ UNCHANGED ok
OtherBlock(t) ==
  LET r == RunBlock(head.st, <<t>>, head.time + 2)
  IN  /\ head.number < MaxNumber /\ r # None
      /\ head' = [st |-> r.st, time |-> head.time + 2, number |-> head.number + 1]
      /\ block' = NewBlock(head')
      /\ UNCHANGED ok

Next ==
  \/ \E m \in Lists : AppendTxs(m)
  \/ AppendOne \/ Stop \/ FinalizeBlock \/ CommitBlock
  \/ \E t \in Txs : OtherBlock(t)

Spec == Init /\ [][Next]_vars

-----------------------------------------------------------------------------
\* The root and the gas the proposer puts into the header are what whoever executes the block gets.
ProposedIsAccepted == ok

\* The stakes the free fee is computed from are the deposits of the contract, which
\* holds their sum: the shares of the daily fee never add up to more than the fee.
StakesMatchDeposits ==
  LET st == head.st
      Deposited(u) == MapThenSumSet(LAMBDA by : st.deposits[u][by].amount, User)
  IN  /\ \A u \in User : st.stake[u].total = Deposited(u)
      /\ st.balance[FeeContract] = MapThenSumSet(LAMBDA u : st.stake[u].total, User)

\* No coin is made or lost by running transactions, and nobody owes one.
SupplyIsKept ==
  LET b == block.st.balance
  IN  /\ MapThenSumSet(LAMBDA a : b[a], DOMAIN b) = Balance * Cardinality(User)
      /\ \A a \in DOMAIN b : b[a] >= 0
=============================================================================
