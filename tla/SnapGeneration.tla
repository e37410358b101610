--------------------------- MODULE SnapGeneration ---------------------------
(***************************************************************************)
(* The generator of a disk layer (core/src/snap/diskLayer.ts): it walks    *)
(* the hashes in ranges, keeps the records of a range that the trie        *)
(* confirms and rewrites the others, account by account and slot by slot,  *)
(* through a batch.  It can be aborted at any of its awaits, has a diff    *)
(* layer merged below its marker and go on with the new root; and the      *)
(* process can stop, which loses the batch and, since the marker is not    *)
(* read again, starts over on whatever records there are.                  *)
(*                                                                         *)
(* The batch is the records as they will be once it is written.            *)
(***************************************************************************)
EXTENDS SnapState

CONSTANTS AccountRange, SlotRange,  \* accountCheckRange, storageCheckRange
          Old,                      \* the state whose records an earlier run has left
          Roots,                    \* the states the roots of this run are taken from
          MaxMerges, MaxRestarts,   \* bounds of the model, the second one of CrashSpec
          EarlyAborts               \* whether an abort may come before the first flush

VARIABLES
  root,      \* the state whose root the layer has
  records,   \* the records in the database
  batch,     \* the records once the batch is written
  marker,    \* genMarker
  pc,        \* "range", "accounts", "slots", "stopped" or "done"
  aborted,   \* aborter.isAborted
  accounts,  \* the range of accounts: [origin, max, items, last, exhausted]
  slots,     \* the same of the slots of the account under way
  first,     \* accMarker
  merges, restarts

vars == <<root, records, batch, marker, pc, aborted, accounts, slots, first, merges, restarts>>

NoRange == [origin |-> 1, max |-> 1, items |-> <<>>, last |-> 0, exhausted |-> FALSE]
Ascending(S) == SetToSortSeq(S, <)

-----------------------------------------------------------------------------
\* proveRange: at most max of the records from origin on, and whether the trie confirms
\* them.  When they are all there are, they are compared with the whole trie; a proof
\* says as well whether the trie has more.
Proved(trie, disk, origin, max) ==
  LET found == {k \in DOMAIN disk : k >= origin /\ Cardinality({j \in DOMAIN disk : origin <= j /\ j < k}) < max}
      last == IF found = {} THEN 0 ELSE Max(found)
      diskMore == found # {} /\ \E k \in DOMAIN disk : k > last
      asked == IF origin = 1 /\ ~diskMore THEN DOMAIN trie
               ELSE {k \in DOMAIN trie : k >= origin /\ (last = 0 \/ k <= last)}
  IN  [found |-> found, last |-> last, diskMore |-> diskMore,
       trieMore |-> last # 0 /\ \E k \in DOMAIN trie : k > last,
       proofed |-> Restrict(trie, asked) = Restrict(disk, found)]

\* generateRange: a range that is right hands the first of its keys over, as many times as
\* it has keys; otherwise the trie is walked from its beginning, whatever the origin, and
\* each key is written unless its record is right, and the keys the trie does not have are
\* deleted.
RangeOf(trie, disk, origin, max) ==
  LET p == Proved(trie, disk, origin, max)
      walked == {k \in DOMAIN trie : p.last = 0 \/ k <= p.last}
      keys == Ascending(walked \cup p.found)
      right(k) == k \in p.found /\ disk[k] = trie[k]
  IN  [origin |-> origin, max |-> max, last |-> p.last, exhausted |-> ~p.diskMore /\ ~p.trieMore,
       items |-> IF p.proofed
                 THEN [i \in 1..Cardinality(p.found) |-> [key |-> Min(p.found), write |-> FALSE, delete |-> FALSE]]
                 ELSE [i \in DOMAIN keys |->
                        [key |-> keys[i], delete |-> keys[i] \notin walked,
                         write |-> keys[i] \in walked /\ ~right(keys[i])]]]

Present(m, absent) == Restrict(m, {k \in DOMAIN m : m[k] # absent})
AccountsFrom(origin, max) == RangeOf(Present(root, None), Present(records.accounts, None), origin, max)
SlotsFrom(a, origin) == RangeOf(Present(root[a].slots, 0), Present(records.storage[a], 0), origin, SlotRange)

\* checkAndFlush: the batch b is written, and the marker is where the generator is, when
\* it is aborted, or when the batch is large.
Flushed(b, location) ==
  /\ batch' = b
  /\ \/ records' = b /\ marker' = location
     \/ ~aborted /\ UNCHANGED <<records, marker>>

WithoutSlots(b, a) ==
  [b EXCEPT !.storage[a] = [k \in Slot |-> IF records.storage[a][k] # 0 THEN 0 ELSE @[k]]]

-----------------------------------------------------------------------------
Init ==
  /\ root \in Roots
  /\ records \in {NoRecords} \cup {Records(s) : s \in Old}
  /\ batch = records /\ marker = None /\ pc = "range" /\ aborted = FALSE
  /\ accounts = [NoRange EXCEPT !.max = AccountRange] /\ slots = NoRange /\ first = None
  /\ merges = 0 /\ restarts = 0

Bounds == UNCHANGED <<merges, restarts>>

StartRange ==
  /\ pc = "range"
  /\ accounts' = AccountsFrom(accounts.origin, accounts.max)
  /\ pc' = "accounts"
  /\ UNCHANGED <<root, records, batch, marker, aborted, slots, first>> /\ Bounds

Item == Head(accounts.items)
Forward == accounts' = [accounts EXCEPT !.items = Tail(@)]
\* No more of this range, as the generator was aborted.
Broken == accounts' = [accounts EXCEPT !.items = <<>>, !.exhausted = FALSE, !.last = 0]

\* onAccount with isDelete.  Only for the records after the last key of the trie is the
\* answer looked at.
DeleteAccount ==
  /\ pc = "accounts" /\ accounts.items # <<>> /\ Item.delete
  /\ batch' = [WithoutSlots(batch, Item.key) EXCEPT !.accounts[Item.key] = None]
  /\ IF aborted /\ \A i \in DOMAIN accounts.items : accounts.items[i].delete THEN Broken ELSE Forward
  /\ UNCHANGED <<root, records, marker, pc, aborted, slots, first>> /\ Bounds

\* onAccount: the account, the flush, and its slots or the first range of them.
OneAccount ==
  /\ pc = "accounts" /\ accounts.items # <<>> /\ ~Item.delete
  /\ LET a == Item.key
         written == IF first = a \/ ~Item.write THEN batch ELSE [batch EXCEPT !.accounts[a] = root[a]]
         resumed == first = a /\ marker # None /\ marker[2] # 0
     IN /\ Flushed(written, IF resumed THEN marker ELSE <<a, 0>>)
        /\ IF aborted THEN Broken /\ pc' = pc /\ UNCHANGED <<slots, first>>
           ELSE /\ pc' = "slots"
                /\ slots' = IF root[a].slots = Empty THEN [NoRange EXCEPT !.exhausted = TRUE]
                            ELSE LET from == IF resumed THEN marker[2] ELSE 1
                                 IN SlotsFrom(a, from)
                /\ UNCHANGED <<accounts, first>>
  /\ UNCHANGED <<root, aborted>> /\ Bounds

OneSlot ==
  /\ pc = "slots" /\ slots.items # <<>>
  /\ LET a == Item.key
         it == Head(slots.items)
         rest == IF aborted THEN [slots EXCEPT !.items = <<>>, !.last = 0] ELSE [slots EXCEPT !.items = Tail(@)]
     IN \/ /\ it.delete
           /\ batch' = [batch EXCEPT !.storage[a][it.key] = 0]
           /\ slots' = IF aborted /\ \A i \in DOMAIN slots.items : slots.items[i].delete THEN rest
                       ELSE [slots EXCEPT !.items = Tail(@)]
           /\ UNCHANGED <<records, marker>>
        \/ /\ ~it.delete
           /\ Flushed(IF it.write THEN [batch EXCEPT !.storage[a][it.key] = root[a].slots[it.key]] ELSE batch, <<a, it.key>>)
           /\ slots' = rest
  /\ UNCHANGED <<root, pc, aborted, accounts, first>> /\ Bounds

\* The slots of the account are through, or the next range of them begins.
EndSlots ==
  /\ pc = "slots" /\ slots.items = <<>>
  /\ LET a == Item.key
         more == ~slots.exhausted /\ slots.last # 0 /\ slots.last # Max(Slot)
     IN /\ batch' = IF root[a].slots = Empty THEN WithoutSlots(batch, a) ELSE batch
        /\ IF aborted THEN Broken /\ pc' = "accounts" /\ UNCHANGED <<slots, first>>
           ELSE IF more THEN slots' = SlotsFrom(a, slots.last + 1) /\ UNCHANGED <<accounts, pc, first>>
           ELSE Forward /\ first' = None /\ pc' = "accounts" /\ UNCHANGED slots
  /\ UNCHANGED <<root, records, marker, aborted>> /\ Bounds

\* The end of a range of accounts.  An abort that nobody has flushed for writes the batch
\* and leaves the marker where it is.
EndRange ==
  /\ pc = "accounts" /\ accounts.items = <<>>
  /\ \/ /\ aborted
        /\ records' = batch /\ pc' = "stopped" /\ UNCHANGED <<batch, marker, accounts>>
     \/ /\ ~aborted /\ (accounts.exhausted \/ accounts.last \in {0, Max(Account)})
        /\ records' = batch /\ marker' = None /\ pc' = "done" /\ UNCHANGED <<batch, accounts>>
     \/ /\ ~aborted /\ ~accounts.exhausted /\ accounts.last \notin {0, Max(Account)}
        /\ accounts' = [NoRange EXCEPT !.origin = accounts.last + 1, !.max = AccountRange]
        /\ pc' = "range" /\ UNCHANGED <<records, batch, marker>>
  /\ UNCHANGED <<root, aborted, slots, first>> /\ Bounds

-----------------------------------------------------------------------------
\* SimpleAborter.abort.
Abort ==
  /\ pc \in {"range", "accounts", "slots"} /\ ~aborted
  /\ EarlyAborts \/ marker # None
  /\ merges < MaxMerges
  /\ aborted' = TRUE
  /\ UNCHANGED <<root, records, batch, marker, pc, accounts, slots, first>> /\ Bounds

\* diffToDisk of the layer above, with the generator stopped or done: a new disk layer
\* that goes on at the marker, if there is one.
Merge ==
  /\ pc \in {"stopped", "done"} /\ merges < MaxMerges
  /\ merges' = merges + 1
  /\ \E next \in Roots \ {root} : \E gone \in Destructed(root, next) :
       /\ root' = next
       /\ records' = DiffToDisk(records, DiffOf(root, next, gone), marker)
  /\ batch' = records' /\ aborted' = FALSE /\ slots' = NoRange
  /\ pc' = IF marker = None THEN "done" ELSE "range"
  /\ first' = IF marker = None THEN None ELSE marker[1]
  /\ accounts' = IF marker = None THEN NoRange ELSE [NoRange EXCEPT !.origin = marker[1]]
  /\ UNCHANGED <<marker, restarts>>

\* The process stops; the next one finds that the records are not those of its head and
\* starts from the beginning.
Restart ==
  /\ pc # "done" /\ restarts < MaxRestarts
  /\ restarts' = restarts + 1
  /\ root' \in Roots
  /\ batch' = records /\ marker' = None /\ pc' = "range" /\ aborted' = FALSE
  /\ accounts' = [NoRange EXCEPT !.max = AccountRange] /\ slots' = NoRange /\ first' = None
  /\ UNCHANGED <<records, merges>>

Next == StartRange \/ DeleteAccount \/ OneAccount \/ OneSlot \/ EndSlots \/ EndRange \/ Abort \/ Merge
Spec == Init /\ [][Next]_vars
CrashSpec == Init /\ [][Next \/ Restart]_vars

-----------------------------------------------------------------------------
(* When no generation is under way the records are those of the layer's    *)
(* root, whatever ranges were confirmed, rewritten, aborted, merged into   *)
(* and resumed (rebuild, diffToDisk).                                      *)
GeneratedIsRoot == pc = "done" => AreOf(records, root)

(* Below the marker, where reads are answered while the generator runs,    *)
(* the records are right (getSerializedAccount, getStorage of a disk       *)
(* layer).                                                                 *)
RightUpToMarker ==
  marker # None =>
    \A a \in Account :
      /\ a <= marker[1] => records.accounts[a] = root[a]
      /\ root[a] # None => \A k \in Slot : SlotWithin(marker, a, k) => records.storage[a][k] = root[a].slots[k]
=============================================================================
