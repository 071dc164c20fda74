-------------------------------- MODULE Mvcc --------------------------------
(***************************************************************************)
(* MVCCStore and MVCCTransaction (mvcc.py): snapshot reads from chains of  *)
(* row versions, validation of everything read or written at commit, and   *)
(* scans, which are generators: other calls run between two of their rows. *)
(***************************************************************************)
EXTENDS Naturals, Sequences

CONSTANTS
  Clients,     \* owners of one transaction object each
  Keys, Values,
  Prefixes,    \* a prefix is the set of the keys whose text it starts
  Missing,     \* _MISSING
  NoEntry,     \* the key is in none of the transaction's dictionaries
  MaxVersion   \* bound: nothing is written from this version on

ASSUME MarkersAssumption ==
  Missing \notin Values /\ NoEntry \notin Values /\ Missing # NoEntry
ASSUME PrefixesAssumption == Prefixes \subseteq SUBSET Keys
ASSUME MaxVersionAssumption == MaxVersion \in Nat

VARIABLES
  version,    \* MVCCStore._version
  versions,   \* MVCCStore._versions: the chain of each key, << >> when it has none
  known,      \* the keys present in that dictionary, some with an empty chain
  tx,         \* the transaction of each client
  cursor,     \* the keys its running scan has still to visit
  seen        \* history: what the store told it about each key

vars == <<version, versions, known, tx, cursor, seen>>

Nothing == [k \in Keys |-> NoEntry]
NoTx ==
  [open |-> FALSE, start |-> 0, pending |-> Nothing, readKeys |-> {}, readPrefixes |-> {}]

Init ==
  /\ version = 0
  /\ versions = [k \in Keys |-> << >>]
  /\ known = {}
  /\ tx = [c \in Clients |-> NoTx]
  /\ cursor = [c \in Clients |-> {}]
  /\ seen = [c \in Clients |-> Nothing]

-----------------------------------------------------------------------------
(* The chains.  "deleted" is 0 for None: versions start at 1.              *)

Holds(item, v) == item.created <= v /\ (item.deleted = 0 \/ v < item.deleted)

VisibleIn(chain, v) ==
  LET hits == {i \in DOMAIN chain : Holds(chain[i], v)}
  IN  IF hits = {} THEN Missing
      ELSE chain[CHOOSE i \in hits : \A j \in hits : j <= i].value

Visible(k, v) == VisibleIn(versions[k], v)

ChangedAfter(k, v) ==
  \E i \in DOMAIN versions[k] :
    versions[k][i].created > v \/ versions[k][i].deleted > v

\* Mutant of EndLife: the version that a newer one replaces stays alive.
KeepAlive(chain, v) == chain

EndLife(chain, v) ==
  IF /\ VisibleIn(chain, v) # Missing
     /\ chain # << >> /\ chain[Len(chain)].deleted = 0
    THEN [chain EXCEPT ![Len(chain)].deleted = v]
    ELSE chain

\* Mutant of Install: a deletion is stored as a value.
InstallAlways(chain, v, value) ==
  Append(EndLife(chain, v), [created |-> v, value |-> value, deleted |-> 0])

Install(chain, v, value) ==
  IF value = Missing
    THEN EndLife(chain, v)
    ELSE Append(EndLife(chain, v), [created |-> v, value |-> value, deleted |-> 0])

-----------------------------------------------------------------------------
(* A transaction.                                                          *)

Pending(c) == {k \in Keys : tx[c].pending[k] # NoEntry}

\* Mutant of StoreValue: the newest value instead of the snapshot's.
NewestValue(c, k) == Visible(k, version)

\* What _read takes from the store for a key the transaction has not written.
StoreValue(c, k) == Visible(k, tx[c].start)

Begin(c) ==
  /\ ~tx[c].open
  /\ tx' = [tx EXCEPT ![c] = [NoTx EXCEPT !.open = TRUE, !.start = version]]
  /\ UNCHANGED <<version, versions, known, cursor, seen>>

Read(c, k) ==
  /\ tx' = [tx EXCEPT ![c].readKeys = @ \union {k}]
  /\ seen' = IF k \in Pending(c) THEN seen
             ELSE [seen EXCEPT ![c][k] = StoreValue(c, k)]

Get(c, k) ==
  /\ tx[c].open /\ Read(c, k)
  /\ UNCHANGED <<version, versions, known, cursor>>

\* put, or delete when the value is Missing.
Put(c, k, value) ==
  /\ tx[c].open /\ version < MaxVersion
  /\ tx' = [tx EXCEPT ![c].pending[k] = value]
  /\ UNCHANGED <<version, versions, known, cursor, seen>>

\* A scan fixes the keys it will visit; of the others it reports no row.
ScanStart(c, prefix) ==
  /\ tx[c].open
  /\ tx' = [tx EXCEPT ![c].readPrefixes = @ \union {prefix}]
  /\ cursor' = [cursor EXCEPT ![c] = prefix \intersect (known \union Pending(c))]
  /\ seen' = [seen EXCEPT ![c] =
               [k \in Keys |-> IF k \in prefix \ (known \union Pending(c))
                                 THEN Missing ELSE seen[c][k]]]
  /\ UNCHANGED <<version, versions, known>>

ScanNext(c, k) ==
  /\ tx[c].open /\ k \in cursor[c] /\ Read(c, k)
  /\ cursor' = [cursor EXCEPT ![c] = @ \ {k}]
  /\ UNCHANGED <<version, versions, known>>

\* Mutant of Watched: what the transaction wrote itself is not validated.
WatchedUnlessWritten(c) ==
  (tx[c].readKeys \union UNION tx[c].readPrefixes) \ Pending(c)

\* Of a prefix only keys with a chain can have changed, so all its keys stand
\* for those of the dictionary.
Watched(c) == tx[c].readKeys \union Pending(c) \union UNION tx[c].readPrefixes

Conflict(c) == \E k \in Watched(c) : ChangedAfter(k, tx[c].start)

Close(c) ==
  /\ tx' = [tx EXCEPT ![c] = NoTx]
  /\ cursor' = [cursor EXCEPT ![c] = {}]
  /\ seen' = [seen EXCEPT ![c] = Nothing]

\* A commit that conflicts raises and leaves the transaction open: no step.
Commit(c) ==
  /\ tx[c].open /\ ~Conflict(c)
  /\ IF Pending(c) = {} THEN UNCHANGED <<version, versions, known>>
     ELSE /\ version' = version + 1
          /\ versions' =
               [k \in Keys |-> IF k \in Pending(c)
                                 THEN Install(versions[k], version + 1, tx[c].pending[k])
                                 ELSE versions[k]]
          /\ known' = known \union Pending(c)
  /\ Close(c)

Rollback(c) ==
  /\ tx[c].open /\ Close(c)
  /\ UNCHANGED <<version, versions, known>>

Next ==
  \E c \in Clients :
    \/ Begin(c) \/ Commit(c) \/ Rollback(c)
    \/ \E k \in Keys : \/ Get(c, k) \/ ScanNext(c, k)
                       \/ \E value \in Values \union {Missing} : Put(c, k, value)
    \/ \E prefix \in Prefixes : ScanStart(c, prefix)

Spec == Init /\ [][Next]_vars

-----------------------------------------------------------------------------
(* Properties.                                                             *)

Items == [created : Nat \ {0}, value : Values, deleted : Nat]
Entries == [Keys -> Values \union {Missing, NoEntry}]
Txs ==
  [open : BOOLEAN, start : Nat, pending : Entries,
   readKeys : SUBSET Keys, readPrefixes : SUBSET Prefixes]

\* Every variable has its type; in particular a chain holds values only.
TypeOK ==
  /\ version \in Nat
  /\ versions \in [Keys -> Seq(Items)]
  /\ known \in SUBSET Keys
  /\ tx \in [Clients -> Txs]
  /\ cursor \in [Clients -> SUBSET Keys]
  /\ seen \in [Clients -> Entries]

\* The lives of a key's versions do not overlap and all lie in the past: this is
\* why the newest-first search of _visible (mvcc.py:86) has at most one answer.
ChainInv ==
  \A k \in Keys : \A i \in DOMAIN versions[k] :
    /\ versions[k][i].created <= version
    /\ versions[k][i].deleted # 0 =>
         versions[k][i].created < versions[k][i].deleted /\ versions[k][i].deleted <= version
    /\ \A j \in 1 .. i - 1 :
         versions[k][j].deleted # 0 /\ versions[k][j].deleted <= versions[k][i].created

\* Snapshot reads (mvcc.py:98): all a running transaction was told still holds
\* at its start version, whatever was committed, overwritten or deleted since, and
\* including the rows that a scan did not return.
SnapshotReads ==
  \A c \in Clients, k \in Keys :
    seen[c][k] # NoEntry => tx[c].open /\ seen[c][k] = Visible(k, tx[c].start)

\* What the other invariants rest on: a key with a chain is in the dictionary that
\* scans look at, no transaction starts in the future, a closed one has forgotten
\* all, and whatever a transaction was told is among what its commit validates.
BookInv ==
  /\ \A k \in Keys : versions[k] # << >> => k \in known
  /\ \A c \in Clients :
       /\ tx[c].start <= version
       /\ ~tx[c].open => tx[c] = NoTx
       /\ \A k \in Keys : seen[c][k] # NoEntry =>
            k \in tx[c].readKeys \union UNION tx[c].readPrefixes

\* The conjunction is inductive.
StoreInv == TypeOK /\ ChainInv /\ BookInv /\ SnapshotReads

\* A transaction that commit has refused is refused for ever (mvcc.py:108): no
\* later call of anyone makes the same transaction valid again.
DoomedStaysDoomed ==
  [][\A c \in Clients :
       tx[c].open /\ tx'[c].open /\ Conflict(c) => Conflict(c)']_vars

\* The store is strictly serializable: with the newest visible values as the
\* database, each commit happens at one instant at which all its transaction was
\* told, keys absent from a scan included, is the truth (mvcc.py:103-120).
Serial == INSTANCE SerialStore WITH
  db <- [k \in Keys |-> Visible(k, version)],
  writes <- [c \in Clients |-> tx[c].pending]

Serializable == Serial!Spec

=============================================================================
