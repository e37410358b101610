-------------------------------- MODULE Evm --------------------------------
(***************************************************************************)
(* The messages of a block's transactions (vm/src/evm: evm.ts, eei.ts,     *)
(* interpreter.ts, the opcodes that change state, and _runTx): calls of    *)
(* every kind and creations nest, each under a checkpoint of its own, and  *)
(* end by returning or failing.                                            *)
(*                                                                         *)
(* Code is abstracted to what it may do: a contract with code executes any *)
(* opcode that changes state or control, in any order.  Running out of gas *)
(* is a failure like another; precompiled contracts, gas amounts and fees  *)
(* are left out (TxExecution has the fees).                                *)
(***************************************************************************)
EXTENDS StateManager

CONSTANTS Sender,       \* of every transaction
          Value,        \* the amounts sent
          Word,         \* the values stored
          MaxDepth,     \* stackLimit
          MaxSteps,     \* bound of the model: opcodes in a block
          MaxBlocks, MaxTx, \* bounds of the model: blocks, and transactions in a block
          Accounts      \* what the genesis has

VARIABLES m,        \* the state manager
          frames,   \* the messages being executed, the innermost last
          refund,   \* EVM._refund
          result,   \* what the last message to end returned
          blocks, txs, steps

vars == <<m, frames, refund, result, blocks, txs, steps>>

\* The refunds of EIP-2200 and of SELFDESTRUCT, in an order of size like theirs.
ClearRefund == 2
ResetRefund == 1
SelfDestructRefund == 2
NoResult == [error |-> None, logs |-> 0, selfdestruct |-> {}]

Init ==
  /\ m = NewState(Accounts) /\ frames = <<>> /\ refund = 0 /\ result = NoResult
  /\ blocks = 0 /\ txs = 0 /\ steps = 0

Top == Last(frames)
Running == frames # <<>>

\* A message to execute: to = codeAddress but for callcode and delegatecall.
Message(kind, caller, to, code, value, static, depth, destructed) ==
  [kind |-> kind, caller |-> caller, to |-> to, codeAddress |-> code, value |-> value,
   static |-> static, depth |-> depth, selfdestruct |-> destructed]

ReduceSenderBalance(s, msg) ==
  PutAccount(s, msg.caller, [GetAccount(s, msg.caller) EXCEPT !.balance = @ - msg.value])
AddToBalance(s, msg, x) == PutAccount(s, msg.to, [x EXCEPT !.balance = @ + msg.value])

Transferred(s, msg) ==
  LET reduced == ReduceSenderBalance(s, msg) IN AddToBalance(reduced, msg, GetAccount(reduced, msg.to))

\* runInterpreter: the frame knows its own account as it is now; `before' and
\* `beforeSnap' are what a failure has to restore.
Frame(s, now, msg) ==
  [msg |-> msg, contract |-> GetAccount(now, msg.to), logs |-> 0, selfdestruct |-> msg.selfdestruct,
   oldRefund |-> refund, before |-> View(s), beforeSnap |-> s.snap]

-----------------------------------------------------------------------------
\* What the caller does with the result of a message; s is the state after it was
\* committed or reverted, fs the frames without the one that ended.

Refreshed(s, f) == [f EXCEPT !.contract = GetAccount(s, f.msg.to)]

Return(s, fs, r) ==
  /\ m' = s
  /\ IF fs = <<>> THEN frames' = fs /\ result' = r
     ELSE LET f == [Last(fs) EXCEPT !.logs = @ + r.logs]
          IN  /\ frames' = Front(fs) \o
                   <<IF r.error # None THEN f
                     ELSE Refreshed(s, [f EXCEPT !.selfdestruct = @ \cup r.selfdestruct])>>
              /\ result' = [NoResult EXCEPT !.error = r.error]

\* executeMessage, after the message ran: a failure reverts and has no logs.
EndMessage(s, fs, r) ==
  IF r.error # None THEN Return(Revert(s), fs, [r EXCEPT !.logs = 0]) ELSE Return(Commit(s), fs, r)

\* executeMessage, up to the code.
StartCall(s, fs, msg) ==
  LET c == Checkpoint(s)
      moved == IF msg.kind = "delegate" THEN c ELSE Transferred(c, msg)
  IN  IF GetAccount(moved, msg.codeAddress).code = None
      THEN EndMessage(moved, fs, [NoResult EXCEPT !.selfdestruct = msg.selfdestruct]) /\ UNCHANGED refund
      ELSE /\ m' = Load(moved, msg.to)
           /\ frames' = Append(fs, Frame(s, moved, msg))
           /\ UNCHANGED <<refund, result>>

StartCreate(s, fs, msg) ==
  LET c == ReduceSenderBalance(Checkpoint(s), msg)
      toAccount == GetAccount(c, msg.to)
      cleared == ClearContractStorage(c, msg.to)
      moved == AddToBalance(cleared, msg, [GetAccount(cleared, msg.to) EXCEPT !.nonce = @ + 1])
  IN  IF toAccount.nonce > 0 \/ toAccount.code # None
      THEN EndMessage(c, fs, [NoResult EXCEPT !.error = "collision"]) /\ UNCHANGED refund
      ELSE /\ m' = moved
           /\ frames' = Append(fs, Frame(s, moved, msg))
           /\ UNCHANGED <<refund, result>>

-----------------------------------------------------------------------------
\* A block and its transactions.

BeginBlock ==
  /\ ~Running /\ m.stack = <<>> /\ blocks < MaxBlocks
  /\ m' = Checkpoint(SetStateRoot(m))
  /\ blocks' = blocks + 1 /\ txs' = 0 /\ steps' = 0
  /\ UNCHANGED <<frames, refund, result>>

\* runBlock: committed, or reverted when a check of the result fails.
EndBlock ==
  /\ ~Running /\ Len(m.stack) = 1
  /\ m' \in {Commit(m), Revert(m)}
  /\ UNCHANGED <<frames, refund, result, blocks, txs, steps>>

\* runTx and _runTx up to the message, with the nonce of beforeTx.
BeginTx(kind, to, v) ==
  LET c == Warm(Warm(Checkpoint(ClearWarmed(m)), Sender, None), to, None)
      x == GetAccount(c, Sender)
      msg == Message(kind, Sender, to, to, v, FALSE, 0, {})
  IN  /\ ~Running /\ Len(m.stack) = 1 /\ txs < MaxTx /\ x.balance >= v
      /\ txs' = txs + 1
      /\ refund = 0
      /\ LET s == PutAccount(c, Sender, [x EXCEPT !.nonce = @ + 1])
         IN  IF kind = "create" THEN StartCreate(s, <<>>, msg) ELSE StartCall(s, <<>>, msg)
      /\ UNCHANGED <<blocks, steps>>

\* _runTx after the message, or what runTx does when afterTx throws.
EndTx ==
  LET deleted == FoldSet(LAMBDA a, s : DeleteAccount(s, a), m, result.selfdestruct)
  IN  /\ ~Running /\ Len(m.stack) = 2
      /\ m' = ClearWarmed(Commit(ClearOriginal(CleanupTouchedAccounts(deleted))))
      /\ refund' = 0 /\ result' = NoResult
      /\ UNCHANGED <<frames, blocks, txs, steps>>
ThrowTx ==
  /\ ~Running /\ Len(m.stack) = 2
  /\ m' = ClearWarmed(Revert(m))
  /\ refund' = 0 /\ result' = NoResult
  /\ UNCHANGED <<frames, blocks, txs, steps>>

-----------------------------------------------------------------------------
\* The opcodes.

Step == Running /\ steps < MaxSteps /\ steps' = steps + 1 /\ UNCHANGED <<blocks, txs>>
Self == Top.msg.to

\* The end of the innermost message; an exception of the interpreter clears its result
\* and takes the refunds back.
Fail(error) ==
  /\ refund' = Top.oldRefund
  /\ EndMessage(m, Front(frames), [error |-> error, logs |-> 0, selfdestruct |-> {}])

Writable == ~Top.msg.static
Refuse == Top.msg.static /\ Fail("static state change")

\* EIP-2200: what storing v adds to the refund of a slot that held `original' before the
\* transaction and holds `current' now.
RefundGain(original, current, v) ==
  LET cleared == IF original # 0 /\ v = 0 THEN ClearRefund
                 ELSE IF original # 0 /\ current = 0 THEN -ClearRefund ELSE 0
  IN  IF current = v THEN 0
      ELSE IF original = current THEN cleared
      ELSE cleared + (IF original = v THEN ResetRefund ELSE 0)

SStore(k, v) ==
  LET gain == RefundGain(OriginalStorage(m, Self, k), StorageOf(m, Self)[k], v)
      s == PutContractStorage(Warm(SeeOriginal(m, Self, k), Self, k), Self, k, v)
  IN  /\ Step
      /\ \/ Refuse
         \/ /\ Writable /\ refund + gain < 0 /\ Fail("refund exhausted")
         \/ /\ Writable /\ refund + gain >= 0
            /\ refund' = refund + gain
            /\ m' = s /\ frames' = Front(frames) \o <<Refreshed(s, Top)>>
            /\ UNCHANGED result

Log ==
  /\ Step
  /\ \/ Refuse
     \/ Writable /\ frames' = Front(frames) \o <<[Top EXCEPT !.logs = @ + 1]>> /\ UNCHANGED <<m, refund, result>>

\* _baseCall and create refuse without a message when the depth or the balance is short.
Refused(v) == Top.msg.depth >= MaxDepth \/ Top.contract.balance < v

IsStatic(kind) == Top.msg.static \/ kind = "static"

Call(kind, to, v) ==
  LET s == Warm(m, to, None)
      msg == Message(kind,
                     IF kind = "delegate" THEN Top.msg.caller ELSE Self,
                     IF kind \in {"delegate", "callcode"} THEN Self ELSE to, to,
                     IF kind = "delegate" THEN Top.msg.value ELSE v,
                     IsStatic(kind), Top.msg.depth + 1, Top.selfdestruct)
  IN  /\ Step
      /\ kind \in {"delegate", "static"} => v = 0
      /\ \/ kind = "call" /\ v > 0 /\ Refuse
         \/ /\ (kind = "call" /\ v > 0) => Writable
            /\ IF (IF kind = "delegate" THEN Top.msg.depth >= MaxDepth ELSE Refused(v))
               THEN m' = s /\ UNCHANGED <<frames, refund, result>>
               ELSE StartCall(s, frames, msg)

Create(to, v) ==
  LET known == [Top.contract EXCEPT !.nonce = @ + 1]
      msg == Message("create", Self, to, to, v, FALSE, Top.msg.depth + 1, Top.selfdestruct)
  IN  /\ Step
      /\ \/ Refuse
         \/ Writable /\ Refused(v) /\ UNCHANGED <<m, frames, refund, result>>
         \/ /\ Writable /\ ~Refused(v)
            /\ StartCreate(PutAccount(Warm(m, to, None), Self, known),
                           Front(frames) \o <<[Top EXCEPT !.contract = known]>>, msg)

\* SELFDESTRUCT ends the message without an error.
SelfDestruct(to) ==
  LET warm == Warm(m, to, None)
      added == PutAccount(warm, to, [GetAccount(m, to) EXCEPT !.balance = @ + Top.contract.balance])
      emptied == PutAccount(added, Self, [GetAccount(added, Self) EXCEPT !.balance = 0])
      r == [error |-> None, logs |-> Top.logs, selfdestruct |-> Top.selfdestruct \cup {Self}]
  IN  /\ Step
      /\ \/ Refuse
         \/ /\ Writable
            /\ refund' = refund + (IF Self \in Top.selfdestruct THEN 0 ELSE SelfDestructRefund)
            /\ EndMessage(emptied, Front(frames), r)

\* RETURN and STOP; of a creation, the code is kept unless it is too large.
Finish(code) ==
  LET r == [error |-> None, logs |-> Top.logs, selfdestruct |-> Top.selfdestruct]
  IN  /\ Running /\ UNCHANGED <<refund, blocks, txs, steps>>
      /\ IF Top.msg.kind # "create" THEN code = None /\ EndMessage(m, Front(frames), r)
         ELSE IF code = "too large" THEN EndMessage(m, Front(frames), [r EXCEPT !.error = "out of gas"])
         ELSE EndMessage(PutContractCode(m, Top.msg.to, code), Front(frames), r)

\* REVERT, an invalid opcode or jump, no gas left.
Abort == Running /\ Fail("revert") /\ UNCHANGED <<blocks, txs, steps>>

Next ==
  \/ BeginBlock \/ EndBlock \/ EndTx \/ ThrowTx \/ Abort
  \/ \E to \in Address, v \in Value : BeginTx("call", to, v) \/ BeginTx("create", to, v)
  \/ \E k \in Slot, w \in Word : SStore(k, w)
  \/ Log
  \/ \E to \in Address, v \in Value :
       \/ \E kind \in {"call", "callcode", "delegate", "static"} : Call(kind, to, v)
       \/ Create(to, v)
  \/ \E to \in Address : SelfDestruct(to)
  \/ \E code \in {None, "code", "too large"} : Finish(code)

Spec == Init /\ [][Next]_vars

-----------------------------------------------------------------------------
\* What the running code knows of its own account is what the state has: every way a
\* nested message can change it and return refreshes it.
EnvIsFresh == Running => Top.contract = View(m)[Self]

\* A message that fails leaves the accounts, their storage and what the snapshot tree
\* will be told as they were, whatever it called, created and destroyed meanwhile.
StepRestores ==
  Len(frames') < Len(frames) /\ result'.error # None
    => View(m') = Top.before /\ m'.snap = Top.beforeSnap
FailureRestores == [][StepRestores]_vars

\* A transaction whose message failed deletes no account.
FailureDestroysNothing == ~Running /\ result.error # None => result.selfdestruct = {}

\* While a static call runs, with all that it calls, nothing changes.
StaticWritesNothing == \A i \in DOMAIN frames : frames[i].msg.static => View(m) = frames[i].before

\* The snapshot of a block has the accounts and the storage its trie has; an account
\* that is empty and was removed may be left in it.
SnapshotMatchesTrie ==
  m.stack = <<>> => \A a \in Address :
    LET s == m.layer[a] t == m.trie[a]
    IN  IF t = None THEN s.account = None \/ IsEmpty(s.account)
        ELSE s.account = t /\ s.storage = t.root
SnapshotIsTrie ==
  m.stack = <<>> => \A a \in Address : m.layer[a].account = m.trie[a]

\* Messages move coins and never make any.
Supply(v) == FoldSet(LAMBDA a, n : n + v[a].balance, 0, Address)
SupplyNeverGrows == Supply(View(m)) <= Supply([a \in Address |-> IF Accounts[a] = None THEN NewAccount ELSE Accounts[a]])
=============================================================================
