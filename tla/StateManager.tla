---------------------------- MODULE StateManager ----------------------------
(***************************************************************************)
(* The state manager a block is executed on (core/src/stateManager): the   *)
(* account trie, the cache in front of it, the storage tries opened so     *)
(* far, what was touched and warmed, and the changes the snapshot tree is  *)
(* told of when the outermost checkpoint is committed.                     *)
(*                                                                         *)
(* A trie is what it maps keys to, so that a root is the content and two   *)
(* tries with one root are equal.  The checkpoints of the trie, the cache, *)
(* the touched addresses and the snapshot's changes are pushed and popped  *)
(* together and are one sequence here.                                     *)
(***************************************************************************)
EXTENDS Integers, FiniteSetsExt, SequencesExt

CONSTANTS Address, Slot,
          None      \* a model value: no account, no code, no entry

EmptyRoot == [k \in Slot |-> 0]
NewAccount == [nonce |-> 0, balance |-> 0, root |-> EmptyRoot, code |-> None]
IsEmpty(x) == x.nonce = 0 /\ x.balance = 0 /\ x.code = None

\* What the snapshot tree is told: accounts set, accounts destructed, slots set.
NoChanges == [accounts |-> [a \in Address |-> None], destructs |-> {},
              storage |-> [a \in Address |-> [k \in Slot |-> None]]]

\* A new instance on the accounts t, whose snapshot has all of them.
NewState(t) ==
  [trie |-> t, cache |-> [a \in Address |-> None], tries |-> [a \in Address |-> None],
   touched |-> {}, warm |-> <<{}>>, original |-> [a \in Address |-> EmptyRoot], seen |-> {},
   snap |-> NoChanges, stack |-> <<>>,
   layer |-> [a \in Address |-> [account |-> t[a], storage |-> IF t[a] = None THEN EmptyRoot ELSE t[a].root]]]

-----------------------------------------------------------------------------
\* Cache.

Looked(m, a) == IF m.trie[a] = None THEN NewAccount ELSE m.trie[a]
GetAccount(m, a) == IF m.cache[a] = None THEN Looked(m, a) ELSE m.cache[a].val
Load(m, a) ==
  IF m.cache[a] # None THEN m
  ELSE [m EXCEPT !.cache[a] = [val |-> Looked(m, a), modified |-> FALSE, deleted |-> FALSE]]
Flush(m) ==
  [m EXCEPT !.trie = [a \in Address |-> IF m.cache[a] = None \/ ~m.cache[a].modified THEN @[a]
                                        ELSE IF m.cache[a].deleted THEN None ELSE m.cache[a].val],
            !.cache = [a \in Address |-> IF @[a] = None THEN None ELSE [@[a] EXCEPT !.modified = FALSE]]]
Del(m, a) == [m EXCEPT !.cache[a] = [val |-> NewAccount, modified |-> TRUE, deleted |-> TRUE]]

-----------------------------------------------------------------------------
\* Accounts, code and storage.

PutAccount(m, a, x) ==
  [m EXCEPT !.cache[a] = [val |-> x, modified |-> TRUE, deleted |-> FALSE],
            !.touched = @ \cup {a}, !.snap.accounts[a] = x]

DeleteAccount(m, a) ==
  [Del(m, a) EXCEPT !.touched = @ \cup {a},
                    !.snap = [accounts |-> [@.accounts EXCEPT ![a] = None],
                              destructs |-> @.destructs \cup {a},
                              storage |-> [@.storage EXCEPT ![a] = NoChanges.storage[a]]]]

PutContractCode(m, a, code) ==
  IF code = None THEN m ELSE PutAccount(m, a, [GetAccount(m, a) EXCEPT !.code = code])

StorageOf(m, a) == IF m.tries[a] = None THEN GetAccount(m, a).root ELSE m.tries[a]

\* _modifyContractStorage: the account is taken from the cache, where opening the
\* storage trie has put it.
ModifyStorage(m, a, root) ==
  LET loaded == IF m.tries[a] = None THEN Load(m, a) ELSE m
      contract == IF loaded.cache[a] = None THEN NewAccount ELSE loaded.cache[a].val
  IN  PutAccount([loaded EXCEPT !.tries[a] = root], a, [contract EXCEPT !.root = root])

PutContractStorage(m, a, k, v) ==
  [ModifyStorage(m, a, [StorageOf(m, a) EXCEPT ![k] = v]) EXCEPT !.snap.storage[a][k] = v]
ClearContractStorage(m, a) ==
  [ModifyStorage(m, a, EmptyRoot) EXCEPT !.snap.storage[a] = NoChanges.storage[a]]

\* getOriginalContractStorage: the value a slot had when the transaction first asked.
OriginalStorage(m, a, k) == IF <<a, k>> \in m.seen THEN m.original[a][k] ELSE StorageOf(m, a)[k]
SeeOriginal(m, a, k) == [m EXCEPT !.original[a][k] = OriginalStorage(m, a, k), !.seen = @ \cup {<<a, k>>}]
ClearOriginal(m) == [m EXCEPT !.seen = {}, !.original = [a \in Address |-> EmptyRoot]]

\* EIP-2929: a slot is warm with its address; None stands for the address alone.
Warmed(m, a, k) == \E i \in DOMAIN m.warm : <<a, k>> \in m.warm[i]
Warm(m, a, k) == [m EXCEPT !.warm[Len(m.warm)] = @ \cup {<<a, k>>, <<a, None>>}]
ClearWarmed(m) == [m EXCEPT !.warm = <<{}>>]

-----------------------------------------------------------------------------
\* Checkpoints.

Checkpoint(m) ==
  [m EXCEPT !.stack = Append(@, [trie |-> m.trie, cache |-> m.cache, touched |-> m.touched, snap |-> m.snap]),
            !.warm = Append(@, {})]

\* snapTree.update: what the layer of the new root answers.
UpdateLayer(layer, snap) ==
  [a \in Address |->
     LET base == IF a \in snap.destructs THEN [account |-> None, storage |-> EmptyRoot] ELSE layer[a]
     IN  [account |-> IF snap.accounts[a] = None THEN base.account ELSE snap.accounts[a],
          storage |-> [k \in Slot |-> IF snap.storage[a][k] = None THEN base.storage[k] ELSE snap.storage[a][k]]]]

\* The outermost commit writes the accounts and tells the snapshot tree.
Outermost(m) ==
  LET f == ClearOriginal(Flush(m))
  IN  [f EXCEPT !.layer = IF f.trie = m.trie THEN @ ELSE UpdateLayer(@, f.snap), !.snap = NoChanges]

MergeWarm(warm) == [Front(warm) EXCEPT ![Len(warm) - 1] = @ \cup Last(warm)]
Commit(m) ==
  LET n == [m EXCEPT !.stack = Front(@), !.warm = MergeWarm(@)]
  IN  IF n.stack = <<>> THEN Outermost(n) ELSE n

\* The mutant of Revert: the storage tries opened since stay open.
Revert_KeepsTries(m) ==
  LET c == Last(m.stack)
  IN  [m EXCEPT !.stack = Front(@), !.warm = Front(@), !.trie = c.trie, !.cache = c.cache,
                !.touched = c.touched, !.snap = c.snap]

Revert(m) ==
  LET c == Last(m.stack)
      n == [m EXCEPT !.stack = Front(@), !.warm = Front(@), !.trie = c.trie, !.cache = c.cache,
                     !.tries = [a \in Address |-> None], !.touched = c.touched, !.snap = c.snap]
  IN  IF n.stack = <<>> THEN ClearOriginal(Flush(n)) ELSE n

\* setStateRoot to the root the instance has: the cache and the storage tries are dropped.
SetStateRoot(m) ==
  [Flush(m) EXCEPT !.cache = [a \in Address |-> None], !.tries = [a \in Address |-> None], !.snap = NoChanges]

CleanupTouchedAccounts(m) ==
  LET dead == {a \in m.touched : IsEmpty(GetAccount(m, a))}
  IN  [m EXCEPT !.touched = {}, !.cache = [a \in Address |-> IF a \in dead THEN Del(m, a).cache[a] ELSE @[a]]]

\* What an execution sees of the state.  The storage of an account that neither has code
\* nor is being created is read by nobody: after DeleteAccount its trie is still open.
View(m) == [a \in Address |-> LET x == GetAccount(m, a)
                              IN  [x EXCEPT !.root = IF x.nonce = 0 /\ x.code = None THEN @ ELSE StorageOf(m, a)]]
=============================================================================
