----------------------------- MODULE SnapState ------------------------------
(***************************************************************************)
(* What the snapshot of the state is made of (core/src/snap): the states   *)
(* it is a copy of, the changes a block makes to one, and the snapshot's   *)
(* records on disk.                                                        *)
(*                                                                         *)
(* A state maps the hash of an account to the account or None, an account  *)
(* has a code and maps slots to words, 0 for a slot that is empty.  A root *)
(* hash is the state it is the root of.  Hashes are ordered as integers.   *)
(***************************************************************************)
EXTENDS Integers, SequencesExt

CONSTANTS Account, Slot,    \* sets of positive integers: the hashes
          Code, Word,       \* what an account holds; 0 is a word
          None              \* a model value

Nothing == <<>>             \* the map with no keys
Empty == [k \in Slot |-> 0]
State == [Account -> {None} \cup [code : Code, slots : [Slot -> Word]]]
NoState == [a \in Account |-> None]

\* The changes a diff layer holds: accounts destructed, accounts set, slots set by account.
NoDiff == [destructs |-> {}, accounts |-> Nothing, storage |-> Nothing]

\* The changes that lead from s to t when the accounts in `destructed` were destructed
\* on the way, as the state manager collects them.
DiffOf(s, t, destructed) ==
  LET old(a) == IF a \in destructed \/ s[a] = None THEN Empty ELSE s[a].slots
      set == {a \in Account : t[a] # None /\ (t[a] # s[a] \/ a \in destructed)}
  IN  [destructs |-> destructed,
       accounts |-> [a \in set |-> t[a]],
       storage |-> [a \in {b \in set : t[b].slots # old(b)} |->
                      [k \in {j \in Slot : t[a].slots[j] # old(a)[j]} |-> t[a].slots[k]]]]

\* What may have been destructed between s and t: whatever is gone, and any account
\* that was created again.
Destructed(s, t) ==
  LET gone == {a \in Account : s[a] # None /\ t[a] = None}
  IN  {gone \cup again : again \in SUBSET {a \in Account : s[a] # None /\ t[a] # None /\ s[a] # t[a]}}

-----------------------------------------------------------------------------
\* The records on disk: by account the serialized account, which holds the root of its
\* slots, and by account and slot the word; 0 for no record.
NoRecords == [accounts |-> NoState, storage |-> [a \in Account |-> Empty]]
Records(s) == [accounts |-> s, storage |-> [a \in Account |-> IF s[a] = None THEN Empty ELSE s[a].slots]]

\* Whether the records are those of the state s.
AreOf(records, s) ==
  /\ records.accounts = s
  /\ \A a \in Account : s[a] # None => records.storage[a] = s[a].slots

\* A generator's marker is how far it has come, <<account, slot>>, slot 0 for the account
\* itself; None when it is done or has not said yet.
Within(marker, a) == marker = None \/ a <= marker[1]
SlotWithin(marker, a, k) == marker = None \/ a < marker[1] \/ (a = marker[1] /\ k <= marker[2])

\* diffToDisk: the changes reach the records the generator has come to.  A marker that
\* stops at the account is compared as a prefix, which leaves out all of its slots.
DiffToDisk(records, diff, marker) ==
  [accounts |-> [a \in Account |->
     IF ~Within(marker, a) THEN records.accounts[a]
     ELSE IF a \in DOMAIN diff.accounts THEN diff.accounts[a]
     ELSE IF a \in diff.destructs THEN None ELSE records.accounts[a]],
   storage |-> [a \in Account |-> [k \in Slot |->
     IF a \in DOMAIN diff.storage /\ k \in DOMAIN diff.storage[a] /\ SlotWithin(marker, a, k)
       THEN diff.storage[a][k]
     ELSE IF a \in diff.destructs /\ Within(marker, a) THEN 0 ELSE records.storage[a][k]]]]
=============================================================================
