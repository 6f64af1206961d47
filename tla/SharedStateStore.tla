-------------------------- MODULE SharedStateStore --------------------------
(***************************************************************************)
(* Shared operational state (runtime/state.py): versioned entries that are *)
(* changed by batches of compare-and-set updates.  Both adapters behave    *)
(* alike: the in-memory store stages a copy under its lock, the SQLite one *)
(* runs a transaction; either way a batch is one step and a batch with a   *)
(* refused update changes nothing.                                         *)
(*                                                                         *)
(* A deleted entry stays as a tombstone that keeps its version, so that a  *)
(* key created again does not reuse a version a reader may still hold.     *)
(***************************************************************************)
EXTENDS Integers, Sequences, FiniteSets

CONSTANTS
    Key,          \* the keys, each in one namespace
    Namespace,    \* scopes of a run: the run itself, its deployments
    NamespaceOf,  \* Key -> Namespace
    Limit,        \* entry limit of each namespace
    Client,       \* callers of the store
    Batch,        \* the batches a caller may try, without expected versions
    MaxVersion    \* bound on versions, for model checking

(* One update: set or delete a key.                                        *)
Update == [operation : {"set", "delete"}, key : Key]

ASSUME StoreAssumption ==
    /\ NamespaceOf \in [Key -> Namespace]
    /\ Limit \in [Namespace -> Nat]
    /\ IsFiniteSet(Key)
    /\ MaxVersion \in Nat
    /\ \A b \in Batch : /\ b \in Seq(Update)
                        /\ \A m, n \in DOMAIN b : m # n => b[m].key # b[n].key

(* version 0 is a key nobody ever wrote; value names the write that made   *)
(* the entry: the value itself is never looked at by the store.            *)
VARIABLES
    entries,    \* Key -> the stored row
    snapshots,  \* what each client saw when it last took a snapshot
    writes      \* number of updates applied so far, the next value

storeVars == <<entries, snapshots, writes>>

Entry == [version : Nat, deleted : BOOLEAN, value : Nat]

Absent == [version |-> 0, deleted |-> TRUE, value |-> 0]

(* A deleted entry is not in a snapshot, where absence reads as version 0. *)
VisibleVersion(entry) == IF entry.deleted THEN 0 ELSE entry.version

StoreInit ==
    /\ entries = [k \in Key |-> Absent]
    /\ snapshots = [c \in Client |-> [k \in Key |-> Absent]]
    /\ writes = 0

-----------------------------------------------------------------------------
VisibleKeys(ns) == {k \in Key : NamespaceOf[k] = ns /\ ~entries[k].deleted}

Creates(update) == update.operation = "set" /\ entries[update.key].deleted

(* Visible entries of a namespace when update n of a batch has its turn:   *)
(* the updates before it, on other keys, have been staged.                 *)
VisibleBefore(batch, n, ns) ==
    LET earlier == {m \in 1 .. n - 1 : NamespaceOf[batch[m].key] = ns}
    IN  Cardinality(VisibleKeys(ns))
        + Cardinality({m \in earlier : Creates(batch[m])})
        - Cardinality({m \in earlier : batch[m].operation = "delete"})

(* Fault: no version is compared for a tombstone.                        *)
BlindCreation(expected, key) ==
    entries[key].deleted \/ expected = VisibleVersion(entries[key])

(* _check_expected.  An update without an expected version behaves as one  *)
(* that expects 0, and 0 means that the key must be absent.                *)
Expected(expected, key) == expected = VisibleVersion(entries[key])

(* Update n of a batch by a caller that expects the versions of  expected. *)
Accepted(batch, expected, n) ==
    LET u == batch[n]
    IN  /\ Expected(expected[u.key], u.key)
        /\ u.operation = "delete" => ~entries[u.key].deleted
        /\ Creates(u) => VisibleBefore(batch, n, NamespaceOf[u.key]) < Limit[NamespaceOf[u.key]]

BatchAccepted(batch, expected) == \A n \in DOMAIN batch : Accepted(batch, expected, n)

(* Fault: a key created again starts from version one.                   *)
VersionsRestart(batch) ==
    [k \in Key |->
        IF \E n \in DOMAIN batch : batch[n].key = k
        THEN LET n == CHOOSE n \in DOMAIN batch : batch[n].key = k
             IN  [version |-> IF entries[k].deleted THEN 1 ELSE entries[k].version + 1,
                  deleted |-> batch[n].operation = "delete",
                  value   |-> writes + n]
        ELSE entries[k]]

(* The rows after the batch; update n is write number  writes + n.         *)
Updated(batch) ==
    [k \in Key |->
        IF \E n \in DOMAIN batch : batch[n].key = k
        THEN LET n == CHOOSE n \in DOMAIN batch : batch[n].key = k
             IN  [version |-> entries[k].version + 1,
                  deleted |-> batch[n].operation = "delete",
                  value   |-> writes + n]
        ELSE entries[k]]

VisibleEntry(entry) == IF entry.deleted THEN Absent ELSE entry

-----------------------------------------------------------------------------
(* A client reads all it may see; later batches are bound to what it saw.  *)
Snapshot(c) ==
    /\ snapshots' = [snapshots EXCEPT ![c] = [k \in Key |-> VisibleEntry(entries[k])]]
    /\ UNCHANGED <<entries, writes>>

(* apply(): all updates or, when one is refused, none.                     *)
Apply(c, batch) ==
    /\ BatchAccepted(batch, [k \in Key |-> snapshots[c][k].version])
    /\ \A n \in DOMAIN batch : entries[batch[n].key].version < MaxVersion
    /\ entries' = Updated(batch)
    /\ writes' = writes + Len(batch)
    /\ UNCHANGED snapshots

StoreNext ==
    \/ \E c \in Client : Snapshot(c)
    \/ \E c \in Client, b \in Batch : Apply(c, b)

StoreSpec == StoreInit /\ [][StoreNext]_storeVars

-----------------------------------------------------------------------------
StoreTypeOK ==
    /\ entries \in [Key -> Entry]
    /\ snapshots \in [Client -> [Key -> Entry]]
    /\ writes \in Nat

(* A version that a client saw and that is current names one write: no     *)
(* sequence of deletes and re-creations brings an old version back.  This  *)
(* is what makes the version check of a stale decision reliable.           *)
VersionIdentifiesWrite ==
    \A c \in Client, k \in Key :
        /\ snapshots[c][k].version <= entries[k].version
        /\ ~snapshots[c][k].deleted /\ snapshots[c][k].version = entries[k].version
           => snapshots[c][k] = entries[k]

(* No lost update: a batch goes through only when every key it changes     *)
(* still holds the very write its author saw, absence included.            *)
NoLostUpdate ==
    [][\A c \in Client, b \in Batch :
          Apply(c, b) => \A n \in DOMAIN b :
             VisibleEntry(entries[b[n].key]) = snapshots[c][b[n].key]]_storeVars

-----------------------------------------------------------------------------
(* What the proofs need besides: a row that is not a tombstone was written,*)
(* and a client saw either such a row or nothing.                          *)
RowsWritten ==
    /\ \A k \in Key : entries[k].deleted \/ entries[k].version > 0
    /\ \A c \in Client, k \in Key :
          \/ snapshots[c][k] = Absent
          \/ ~snapshots[c][k].deleted /\ snapshots[c][k].version > 0

StoreInv == StoreTypeOK /\ RowsWritten /\ VersionIdentifiesWrite
=============================================================================
