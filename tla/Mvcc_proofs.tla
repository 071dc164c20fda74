----------------------------- MODULE Mvcc_proofs -----------------------------
(***************************************************************************)
(* Proofs about Mvcc: the version chains, snapshot reads, the fate of a    *)
(* transaction that lost, and strict serializability as a refinement of    *)
(* SerialStore, for any sets of clients, keys, values and prefixes.        *)
(***************************************************************************)
EXTENDS Mvcc, SequenceTheorems, TLAPS

(***************************************************************************)
(* One chain.  The lives of its versions are ordered and disjoint, so at   *)
(* most one holds at any version.                                          *)
(***************************************************************************)
Chain(chain, v) ==
  \A i \in DOMAIN chain :
    /\ chain[i].created <= v
    /\ chain[i].deleted # 0 => chain[i].created < chain[i].deleted /\ chain[i].deleted <= v
    /\ \A j \in 1 .. i - 1 :
         chain[j].deleted # 0 /\ chain[j].deleted <= chain[i].created

LEMMA ItemTypes ==
  ASSUME NEW chain \in Seq(Items), NEW i \in DOMAIN chain
  PROVE  /\ i \in Nat /\ i >= 1 /\ i <= Len(chain)
         /\ chain[i].created \in Nat /\ chain[i].created > 0
         /\ chain[i].value \in Values /\ chain[i].value # Missing
         /\ chain[i].deleted \in Nat
<1>1. chain[i] \in Items
  OBVIOUS
<1> QED
  BY <1>1, MarkersAssumption DEF Items

LEMMA OneHolds ==
  ASSUME NEW chain \in Seq(Items), NEW v \in Nat, Chain(chain, v), NEW w \in Nat,
         NEW i \in DOMAIN chain, NEW j \in DOMAIN chain,
         Holds(chain[i], w), Holds(chain[j], w)
  PROVE  i = j
<1>1. ASSUME NEW a \in DOMAIN chain, NEW b \in DOMAIN chain, a < b,
             Holds(chain[a], w), Holds(chain[b], w)
      PROVE  FALSE
  <2>1. /\ a \in 1 .. b - 1
        /\ chain[a].deleted \in Nat /\ chain[b].created \in Nat
    BY <1>1, ItemTypes
  <2>2. chain[a].deleted # 0 /\ chain[a].deleted <= chain[b].created
    BY <2>1 DEF Chain
  <2> QED
    BY <1>1, <2>1, <2>2 DEF Holds
<1>2. i \in Nat /\ j \in Nat
  BY ItemTypes
<1> QED
  BY <1>1, <1>2

\* What a search of the chain finds: the value of the version that holds, if any.
LEMMA VisibleFacts ==
  ASSUME NEW chain \in Seq(Items), NEW v \in Nat, Chain(chain, v), NEW w \in Nat
  PROVE  /\ \A i \in DOMAIN chain : Holds(chain[i], w) => VisibleIn(chain, w) = chain[i].value
         /\ (\A i \in DOMAIN chain : ~Holds(chain[i], w)) => VisibleIn(chain, w) = Missing
         /\ VisibleIn(chain, w) \in Values \union {Missing}
<1> DEFINE hits == {i \in DOMAIN chain : Holds(chain[i], w)}
<1>1. ASSUME NEW i \in DOMAIN chain, Holds(chain[i], w)
      PROVE  VisibleIn(chain, w) = chain[i].value
  <2>1. hits = {i}
    BY <1>1, OneHolds
  <2>2. i \in Nat
    BY ItemTypes
  <2>3. (CHOOSE k \in hits : \A j \in hits : j <= k) = i
    BY <2>1, <2>2
  <2> QED
    BY <2>1, <2>3 DEF VisibleIn
<1>2. ASSUME \A i \in DOMAIN chain : ~Holds(chain[i], w)
      PROVE  VisibleIn(chain, w) = Missing
  <2>1. hits = {}
    BY <1>2
  <2> QED
    BY <2>1 DEF VisibleIn
<1>3. VisibleIn(chain, w) \in Values \union {Missing}
  BY <1>1, <1>2, ItemTypes
<1> QED
  BY <1>1, <1>2, <1>3

\* Two chains with the same holders and values answer alike.
LEMMA VisibleNow ==
  ASSUME NEW chain \in Seq(Items), NEW v \in Nat, Chain(chain, v),
         NEW w \in Nat, v <= w
  PROVE  VisibleIn(chain, w) = VisibleIn(chain, v)
<1>1. \A i \in DOMAIN chain : Holds(chain[i], w) <=> Holds(chain[i], v)
  BY ItemTypes DEF Chain, Holds
<1> QED
  BY <1>1, VisibleFacts

\* Not changed since w: the snapshot of w is the newest state.
LEMMA VisibleUnchanged ==
  ASSUME NEW chain \in Seq(Items), NEW v \in Nat, Chain(chain, v),
         NEW w \in Nat, w <= v,
         \A i \in DOMAIN chain : ~(chain[i].created > w \/ chain[i].deleted > w)
  PROVE  VisibleIn(chain, w) = VisibleIn(chain, v)
<1>1. \A i \in DOMAIN chain : Holds(chain[i], w) <=> Holds(chain[i], v)
  BY ItemTypes DEF Chain, Holds
<1> QED
  BY <1>1, VisibleFacts

-----------------------------------------------------------------------------
(* What a commit does to a chain.                                          *)

LEMMA EndLifeFacts ==
  ASSUME NEW chain \in Seq(Items), NEW v \in Nat, Chain(chain, v),
         NEW r, r = EndLife(chain, v + 1)
  PROVE  /\ r \in Seq(Items) /\ Len(r) = Len(chain)
         /\ \A i \in DOMAIN chain :
              /\ r[i].created = chain[i].created /\ r[i].value = chain[i].value
              /\ r[i].deleted = IF chain[i].deleted = 0 THEN v + 1 ELSE chain[i].deleted
<1>0. v + 1 \in Nat
  OBVIOUS
<1>1. ASSUME NEW i \in DOMAIN chain, i # Len(chain)
      PROVE  chain[i].deleted # 0
  <2>1. Len(chain) \in DOMAIN chain /\ i \in 1 .. Len(chain) - 1
    BY <1>1
  <2> QED
    BY <2>1 DEF Chain
<1>2. CASE chain # << >> /\ chain[Len(chain)].deleted = 0
  <2> DEFINE n == Len(chain)
  <2>1. n \in DOMAIN chain
    BY <1>2
  <2>2. VisibleIn(chain, v + 1) = chain[n].value
    <3>1. Holds(chain[n], v + 1)
      BY <1>2, <2>1, ItemTypes DEF Chain, Holds
    <3> QED
      BY <1>0, <2>1, <3>1, VisibleFacts
  <2>3. VisibleIn(chain, v + 1) # Missing
    BY <2>1, <2>2, ItemTypes
  <2>4. r = [chain EXCEPT ![n].deleted = v + 1]
    BY <1>2, <2>3 DEF EndLife
  <2>5. [chain[n] EXCEPT !.deleted = v + 1] \in Items
    <3>1. chain[n] \in Items
      BY <2>1
    <3>2. v + 1 \in Nat
      BY <1>0
    <3> HIDE DEF n
    <3> QED
      BY <3>1, <3>2 DEF Items
  <2>6. r \in Seq(Items) /\ Len(r) = Len(chain)
    BY <2>1, <2>4, <2>5
  <2>7. /\ \A i \in DOMAIN chain \ {n} : r[i] = chain[i]
        /\ r[n] = [chain[n] EXCEPT !.deleted = v + 1]
    BY <2>1, <2>4
  <2>8. /\ r[n].created = chain[n].created /\ r[n].value = chain[n].value
        /\ r[n].deleted = v + 1
    <3>1. chain[n] \in Items
      BY <2>1
    <3> QED
      BY <2>7, <3>1 DEF Items
  <2> QED
    BY <1>1, <1>2, <2>6, <2>7, <2>8
<1>3. CASE ~(chain # << >> /\ chain[Len(chain)].deleted = 0)
  <2>1. r = chain
    BY <1>3 DEF EndLife
  <2>2. \A i \in DOMAIN chain : chain[i].deleted # 0
    BY <1>1, <1>3
  <2> QED
    BY <2>1, <2>2
<1> QED
  BY <1>2, <1>3

\* A version that is ended or added by the commit of v + 1 leaves every older
\* snapshot alone, and the new value is what v + 1 sees.
LEMMA InstallFacts ==
  ASSUME NEW chain \in Seq(Items), NEW v \in Nat, Chain(chain, v),
         NEW value \in Values \union {Missing},
         NEW r, r = Install(chain, v + 1, value)
  PROVE  /\ r \in Seq(Items)
         /\ Len(chain) <= Len(r)
         /\ \A i \in DOMAIN chain :
              /\ r[i].created = chain[i].created
              /\ r[i].deleted = IF chain[i].deleted = 0 THEN v + 1 ELSE chain[i].deleted
         /\ Chain(r, v + 1)
         /\ VisibleIn(r, v + 1) = value
         /\ \A w \in 0 .. v : VisibleIn(r, w) = VisibleIn(chain, w)
<1> DEFINE e == EndLife(chain, v + 1)
           item == [created |-> v + 1, value |-> value, deleted |-> 0]
<1>1. /\ e \in Seq(Items) /\ Len(e) = Len(chain) /\ DOMAIN e = DOMAIN chain
      /\ \A i \in DOMAIN chain :
           /\ e[i].created = chain[i].created /\ e[i].value = chain[i].value
           /\ e[i].deleted = IF chain[i].deleted = 0 THEN v + 1 ELSE chain[i].deleted
  <2> HIDE DEF e
  <2>1. e = EndLife(chain, v + 1)
    BY DEF e
  <2> QED
    BY <2>1, EndLifeFacts
<1>2. Chain(e, v + 1) /\ \A i \in DOMAIN e : e[i].deleted # 0
  <2>1. \A i \in DOMAIN chain : 
          /\ chain[i].created \in Nat /\ chain[i].deleted \in Nat /\ i \in Nat
          /\ \A j \in 1 .. i - 1 : j \in DOMAIN chain
    BY ItemTypes
  <2> HIDE DEF e
  <2>2. ASSUME NEW i \in DOMAIN chain
        PROVE  /\ e[i].created <= v
               /\ e[i].created < e[i].deleted /\ e[i].deleted <= v + 1
               /\ e[i].deleted # 0
    BY <1>1, <2>1 DEF Chain
  <2>3. ASSUME NEW i \in DOMAIN chain, NEW j \in 1 .. i - 1
        PROVE  e[j].deleted <= e[i].created
    BY <1>1, <2>1 DEF Chain
  <2>4. \A i \in DOMAIN chain : e[i].created \in Nat /\ e[i].created <= v + 1
    BY <1>1, <2>1, <2>2
  <2>5. \A i \in DOMAIN chain : \A j \in 1 .. i - 1 : j \in DOMAIN chain
    BY <2>1
  <2> QED
    BY <1>1, <2>2, <2>3, <2>4, <2>5 DEF Chain
<1>3. ASSUME NEW w \in 0 .. v PROVE VisibleIn(e, w) = VisibleIn(chain, w)
  <2>1. \A i \in DOMAIN chain : Holds(e[i], w) <=> Holds(chain[i], w)
    <3> HIDE DEF e
    <3> QED
      BY <1>1, ItemTypes DEF Holds
  <2>2. v + 1 \in Nat /\ w \in Nat
    OBVIOUS
  <2> HIDE DEF e
  <2>3. CASE \E i \in DOMAIN chain : Holds(chain[i], w)
    <3>1. PICK i \in DOMAIN chain : Holds(chain[i], w)
      BY <2>3
    <3>2. VisibleIn(chain, w) = chain[i].value
      BY <3>1, <2>2, VisibleFacts
    <3>3. VisibleIn(e, w) = e[i].value
      BY <3>1, <1>1, <1>2, <2>1, <2>2, VisibleFacts
    <3> QED
      BY <1>1, <3>2, <3>3
  <2>4. CASE \A i \in DOMAIN chain : ~Holds(chain[i], w)
    <3>1. VisibleIn(chain, w) = Missing
      BY <2>2, <2>4, VisibleFacts
    <3>2. \A i \in DOMAIN e : ~Holds(e[i], w)
      BY <1>1, <2>1, <2>4
    <3>3. VisibleIn(e, w) = Missing
      BY <1>1, <1>2, <2>2, <3>2, VisibleFacts
    <3> QED
      BY <3>1, <3>3
  <2> QED
    BY <2>3, <2>4
<1>4. \A i \in DOMAIN e : ~Holds(e[i], v + 1)
  <2> HIDE DEF e
  <2> QED
    BY <1>1, <1>2, ItemTypes DEF Chain, Holds
<1>5. CASE value = Missing
  <2>1. r = e
    BY <1>5 DEF Install
  <2>2. VisibleIn(e, v + 1) = Missing
    <3> HIDE DEF e
    <3> QED
      BY <1>1, <1>2, <1>4, VisibleFacts
  <2> HIDE DEF e
  <2> QED
    BY <1>1, <1>2, <1>3, <1>5, <2>1, <2>2
<1>6. CASE value # Missing
  <2>1. r = Append(e, item) /\ item \in Items
    BY <1>6 DEF Install, Items
  <2>2. /\ item.created = v + 1 /\ item.deleted = 0 /\ item.value = value
        /\ Len(e) \in Nat /\ DOMAIN e = 1 .. Len(e)
    BY <1>1
  <2> HIDE DEF e, item
  <2>3. /\ r \in Seq(Items) /\ Len(r) = Len(e) + 1 /\ DOMAIN r = 1 .. Len(e) + 1
        /\ \A i \in DOMAIN e : r[i] = e[i]
        /\ r[Len(e) + 1] = item
    BY <1>1, <2>1
  <2>4. \A i \in DOMAIN r : i \in DOMAIN e \/ i = Len(e) + 1
    BY <2>2, <2>3
  <2>5. Chain(r, v + 1)
    <3>1. ASSUME NEW i \in DOMAIN e
          PROVE  /\ r[i].created <= v + 1
                 /\ r[i].deleted # 0 => r[i].created < r[i].deleted /\ r[i].deleted <= v + 1
                 /\ \A j \in 1 .. i - 1 :
                      r[j].deleted # 0 /\ r[j].deleted <= r[i].created
      <4>1. \A j \in 1 .. i - 1 : j \in DOMAIN e
        BY <2>2
      <4> QED
        BY <1>2, <2>3, <4>1 DEF Chain
    <3>2. ASSUME NEW j \in DOMAIN e
          PROVE  r[j].deleted # 0 /\ r[j].deleted <= v + 1
      BY <1>2, <2>3 DEF Chain
    <3>3. r[Len(e) + 1].created = v + 1 /\ r[Len(e) + 1].deleted = 0
      BY <2>2, <2>3
    <3>4. \A j \in 1 .. (Len(e) + 1) - 1 : j \in DOMAIN e
      BY <2>2
    <3> QED
      BY <2>4, <3>1, <3>2, <3>3, <3>4 DEF Chain
  <2>6. VisibleIn(r, v + 1) = value
    <3>1. Len(e) + 1 \in DOMAIN r /\ v + 1 \in Nat
      BY <2>2, <2>3
    <3>2. Holds(r[Len(e) + 1], v + 1)
      BY <2>2, <2>3 DEF Holds
    <3> QED
      BY <2>2, <2>3, <2>5, <3>1, <3>2, VisibleFacts
  <2>7. ASSUME NEW w \in 0 .. v PROVE VisibleIn(r, w) = VisibleIn(e, w)
    <3>1. ~Holds(r[Len(e) + 1], w) /\ w \in Nat /\ v + 1 \in Nat
      BY <2>2, <2>3 DEF Holds
    <3>2. \A i \in DOMAIN e : i \in DOMAIN r /\ r[i] = e[i]
      BY <2>2, <2>3
    <3>3. CASE \E i \in DOMAIN e : Holds(e[i], w)
      <4>1. PICK i \in DOMAIN e : Holds(e[i], w)
        BY <3>3
      <4>2. VisibleIn(e, w) = e[i].value
        BY <4>1, <3>1, <1>1, <1>2, VisibleFacts
      <4>3. VisibleIn(r, w) = r[i].value
        BY <4>1, <3>1, <3>2, <2>3, <2>5, VisibleFacts
      <4> QED
        BY <4>2, <4>3, <3>2
    <3>4. CASE \A i \in DOMAIN e : ~Holds(e[i], w)
      <4>1. \A i \in DOMAIN r : ~Holds(r[i], w)
        BY <3>1, <3>2, <3>4, <2>4
      <4>2. VisibleIn(r, w) = Missing
        BY <4>1, <3>1, <2>3, <2>5, VisibleFacts
      <4>3. VisibleIn(e, w) = Missing
        BY <3>1, <3>4, <1>1, <1>2, VisibleFacts
      <4> QED
        BY <4>2, <4>3
    <3> QED
      BY <3>3, <3>4
  <2>8. Len(chain) <= Len(r) /\ \A i \in DOMAIN chain : r[i] = e[i]
    BY <1>1, <2>2, <2>3
  <2> QED
    BY <1>1, <1>3, <2>3, <2>5, <2>6, <2>7, <2>8
<1> QED
  BY <1>5, <1>6

-----------------------------------------------------------------------------
(* The store between the commits.                                          *)

LEMMA ChainOf ==
  ASSUME TypeOK, ChainInv, NEW k \in Keys
  PROVE  versions[k] \in Seq(Items) /\ Chain(versions[k], version) /\ version \in Nat
BY DEF TypeOK, ChainInv, Chain

LEMMA VisibleType ==
  ASSUME TypeOK, ChainInv, NEW k \in Keys, NEW v \in Nat
  PROVE  Visible(k, v) \in Values \union {Missing} /\ Visible(k, v) # NoEntry
<1>1. Visible(k, v) \in Values \union {Missing}
  BY ChainOf, VisibleFacts DEF Visible
<1> QED
  BY <1>1, MarkersAssumption

LEMMA NoTxType == NoTx \in Txs /\ Nothing \in Entries
BY DEF NoTx, Nothing, Txs, Entries

\* The steps that leave the store alone, by what they do to the transaction of c.
LEMMA QuietStep ==
  ASSUME StoreInv, NEW c \in Clients,
         UNCHANGED <<version, versions, known>>,
         tx' \in [Clients -> Txs], cursor' \in [Clients -> SUBSET Keys],
         seen' \in [Clients -> Entries],
         \A d \in Clients \ {c} : tx'[d] = tx[d] /\ seen'[d] = seen[d],
         tx'[c].start <= version,
         ~tx'[c].open => tx'[c] = NoTx,
         \A k \in Keys : seen'[c][k] # NoEntry =>
           /\ tx'[c].open
           /\ seen'[c][k] = Visible(k, tx'[c].start)
           /\ k \in tx'[c].readKeys \union UNION tx'[c].readPrefixes
  PROVE  StoreInv'
<1>1. TypeOK'
  BY DEF StoreInv, TypeOK
<1>2. ChainInv'
  BY DEF StoreInv, ChainInv
<1>3. BookInv'
  <2>1. \A k \in Keys : versions'[k] # << >> => k \in known'
    BY DEF StoreInv, BookInv
  <2>2. ASSUME NEW d \in Clients
        PROVE  /\ tx'[d].start <= version'
               /\ ~tx'[d].open => tx'[d] = NoTx
               /\ \A k \in Keys : seen'[d][k] # NoEntry =>
                    k \in tx'[d].readKeys \union UNION tx'[d].readPrefixes
    <3>1. CASE d = c
      BY <3>1
    <3>2. CASE d # c
      BY <3>2 DEF StoreInv, BookInv
    <3> QED
      BY <3>1, <3>2
  <2> QED
    BY <2>1, <2>2 DEF BookInv
<1>4. SnapshotReads'
  <2>1. ASSUME NEW d \in Clients, NEW k \in Keys, seen'[d][k] # NoEntry
        PROVE  tx'[d].open /\ seen'[d][k] = VisibleIn(versions'[k], tx'[d].start)
    <3>1. CASE d = c
      BY <2>1, <3>1 DEF Visible
    <3>2. CASE d # c
      BY <2>1, <3>2 DEF StoreInv, SnapshotReads, Visible
    <3> QED
      BY <3>1, <3>2
  <2> QED
    BY <2>1 DEF SnapshotReads, Visible
<1> QED
  BY <1>1, <1>2, <1>3, <1>4 DEF StoreInv

\* What holds of the transaction of c before any step.
LEMMA TxFacts ==
  ASSUME StoreInv, NEW c \in Clients
  PROVE  /\ tx[c] \in Txs /\ tx[c].start \in Nat /\ tx[c].start <= version
         /\ tx[c].pending \in Entries /\ seen[c] \in Entries
         /\ \A k \in Keys : seen[c][k] # NoEntry =>
              /\ tx[c].open
              /\ seen[c][k] = Visible(k, tx[c].start)
              /\ k \in tx[c].readKeys \union UNION tx[c].readPrefixes
         /\ \A k \in Keys : StoreValue(c, k) = Visible(k, tx[c].start)
BY DEF StoreInv, TypeOK, Txs, BookInv, SnapshotReads, StoreValue

LEMMA BeginStep ==
  ASSUME StoreInv, NEW c \in Clients, Begin(c)
  PROVE  StoreInv'
<1>1. tx[c] = NoTx /\ \A k \in Keys : seen[c][k] = NoEntry
  BY TxFacts DEF Begin, StoreInv, BookInv
<1>2. version \in Nat
  BY DEF StoreInv, TypeOK
<1>3. [NoTx EXCEPT !.open = TRUE, !.start = version] \in Txs
  BY <1>2, NoTxType DEF Txs
<1>4. /\ tx'[c] = [NoTx EXCEPT !.open = TRUE, !.start = version]
      /\ \A d \in Clients \ {c} : tx'[d] = tx[d]
      /\ tx' \in [Clients -> Txs]
  BY <1>3 DEF Begin, StoreInv, TypeOK
<1>5. tx'[c].start = version /\ tx'[c].open
  BY <1>4 DEF NoTx
<1> QED
  BY <1>1, <1>2, <1>4, <1>5, QuietStep DEF Begin, StoreInv, TypeOK

\* A read of one key, by get or by a scan.
LEMMA ReadStep ==
  ASSUME StoreInv, NEW c \in Clients, NEW k \in Keys, tx[c].open, Read(c, k),
         UNCHANGED <<version, versions, known>>, cursor' \in [Clients -> SUBSET Keys]
  PROVE  /\ StoreInv'
         /\ \A j \in Keys : seen[c][j] # NoEntry => seen'[c][j] = seen[c][j]
         /\ \A d \in Clients : tx'[d].pending = tx[d].pending
         /\ \A d \in Clients \ {c} : seen'[d] = seen[d]
<1>1. /\ tx[c] \in Txs /\ tx \in [Clients -> Txs] /\ seen \in [Clients -> Entries]
      /\ tx' = [tx EXCEPT ![c].readKeys = @ \union {k}]
  BY DEF StoreInv, TypeOK, Read
<1>2. [tx[c] EXCEPT !.readKeys = @ \union {k}] \in Txs
  BY <1>1 DEF Txs
<1>3. /\ tx' \in [Clients -> Txs]
      /\ \A d \in Clients \ {c} : tx'[d] = tx[d]
      /\ tx'[c] = [tx[c] EXCEPT !.readKeys = @ \union {k}]
  BY <1>1, <1>2
<1>4. /\ tx'[c].open = tx[c].open /\ tx'[c].start = tx[c].start
      /\ tx'[c].pending = tx[c].pending
      /\ tx'[c].readKeys = tx[c].readKeys \union {k}
      /\ tx'[c].readPrefixes = tx[c].readPrefixes
  BY <1>1, <1>3 DEF Txs
<1>5. StoreValue(c, k) = Visible(k, tx[c].start) /\ StoreValue(c, k) \in Values \union {Missing}
  BY TxFacts, VisibleType DEF StoreInv
<1>6. /\ seen' \in [Clients -> Entries]
      /\ \A d \in Clients \ {c} : seen'[d] = seen[d]
      /\ \A j \in Keys : seen'[c][j] = seen[c][j] \/ (j = k /\ seen'[c][j] = StoreValue(c, k))
  <2>1. CASE k \in Pending(c)
    <3>1. seen' = seen
      BY <2>1 DEF Read
    <3> QED
      BY <1>1, <3>1
  <2>2. CASE k \notin Pending(c)
    <3>1. seen' = [seen EXCEPT ![c][k] = StoreValue(c, k)]
      BY <2>2 DEF Read
    <3>2. [seen[c] EXCEPT ![k] = StoreValue(c, k)] \in Entries
      BY <1>1, <1>5 DEF Entries
    <3>3. seen' = [seen EXCEPT ![c] = [seen[c] EXCEPT ![k] = StoreValue(c, k)]]
      BY <3>1
    <3>4. /\ seen' \in [Clients -> Entries]
          /\ \A d \in Clients \ {c} : seen'[d] = seen[d]
          /\ seen'[c] = [seen[c] EXCEPT ![k] = StoreValue(c, k)]
      BY <1>1, <3>2, <3>3
    <3>5. seen[c] \in Entries
      BY <1>1
    <3>6. /\ seen'[c][k] = StoreValue(c, k)
          /\ \A j \in Keys \ {k} : seen'[c][j] = seen[c][j]
      BY <3>4, <3>5 DEF Entries
    <3> QED
      BY <3>4, <3>6
  <2> QED
    BY <2>1, <2>2
<1>7. \A j \in Keys : seen'[c][j] # NoEntry =>
        /\ tx'[c].open
        /\ seen'[c][j] = Visible(j, tx'[c].start)
        /\ j \in tx'[c].readKeys \union UNION tx'[c].readPrefixes
  BY <1>4, <1>5, <1>6, TxFacts
<1>8. StoreInv'
  <2>1. tx'[c].start <= version /\ (~tx'[c].open => tx'[c] = NoTx)
    BY <1>4, TxFacts
  <2> QED
    BY <2>1, <1>3, <1>6, <1>7, QuietStep
<1>9. ASSUME NEW j \in Keys, seen[c][j] # NoEntry PROVE seen'[c][j] = seen[c][j]
  BY <1>5, <1>6, <1>9, TxFacts
<1> QED
  BY <1>3, <1>4, <1>6, <1>8, <1>9

LEMMA PutStep ==
  ASSUME StoreInv, NEW c \in Clients, NEW k \in Keys, NEW value \in Values \union {Missing},
         Put(c, k, value)
  PROVE  /\ StoreInv'
         /\ \A d \in Clients \ {c} : tx'[d] = tx[d]
         /\ tx'[c].pending = [tx[c].pending EXCEPT ![k] = value]
         /\ tx'[c].start = tx[c].start /\ tx'[c].readKeys = tx[c].readKeys
         /\ tx'[c].readPrefixes = tx[c].readPrefixes
<1>1. /\ tx[c] \in Txs /\ tx \in [Clients -> Txs] /\ tx[c].open
      /\ tx' = [tx EXCEPT ![c].pending[k] = value]
  BY DEF StoreInv, TypeOK, Put
<1>2. [tx[c].pending EXCEPT ![k] = value] \in Entries
  BY <1>1 DEF Txs, Entries
<1>3. [tx[c] EXCEPT !.pending = [tx[c].pending EXCEPT ![k] = value]] \in Txs
  BY <1>1, <1>2 DEF Txs
<1>4. tx' = [tx EXCEPT ![c] = [tx[c] EXCEPT !.pending = [tx[c].pending EXCEPT ![k] = value]]]
  BY <1>1
<1>5. /\ tx' \in [Clients -> Txs]
      /\ \A d \in Clients \ {c} : tx'[d] = tx[d]
      /\ tx'[c] = [tx[c] EXCEPT !.pending = [tx[c].pending EXCEPT ![k] = value]]
  BY <1>1, <1>3, <1>4
<1>6. /\ tx'[c].open = tx[c].open /\ tx'[c].start = tx[c].start
      /\ tx'[c].pending = [tx[c].pending EXCEPT ![k] = value]
      /\ tx'[c].readKeys = tx[c].readKeys
      /\ tx'[c].readPrefixes = tx[c].readPrefixes
  BY <1>1, <1>5 DEF Txs
<1>7. StoreInv'
  <2>1. UNCHANGED <<version, versions, known, cursor, seen>>
    BY DEF Put
  <2>2. cursor' \in [Clients -> SUBSET Keys] /\ seen' \in [Clients -> Entries]
    BY <2>1 DEF StoreInv, TypeOK
  <2>3. tx'[c].start <= version /\ tx'[c].open
    BY <1>1, <1>6, TxFacts
  <2>4. \A j \in Keys : seen'[c][j] # NoEntry =>
          /\ tx'[c].open
          /\ seen'[c][j] = Visible(j, tx'[c].start)
          /\ j \in tx'[c].readKeys \union UNION tx'[c].readPrefixes
    BY <1>6, <2>1, TxFacts
  <2> QED
    BY <1>5, <2>1, <2>2, <2>3, <2>4, QuietStep
<1> QED
  BY <1>5, <1>6, <1>7

LEMMA ScanStartStep ==
  ASSUME StoreInv, NEW c \in Clients, NEW prefix \in Prefixes, ScanStart(c, prefix)
  PROVE  /\ StoreInv'
         /\ \A j \in Keys : seen[c][j] # NoEntry => seen'[c][j] = seen[c][j]
         /\ \A d \in Clients : tx'[d].pending = tx[d].pending
         /\ \A d \in Clients \ {c} : seen'[d] = seen[d]
<1>1. /\ tx[c] \in Txs /\ tx \in [Clients -> Txs] /\ seen \in [Clients -> Entries]
      /\ tx[c].open /\ prefix \subseteq Keys /\ known \subseteq Keys
      /\ tx' = [tx EXCEPT ![c].readPrefixes = @ \union {prefix}]
      /\ UNCHANGED <<version, versions, known>>
  BY PrefixesAssumption DEF StoreInv, TypeOK, ScanStart
<1>2. [tx[c] EXCEPT !.readPrefixes = @ \union {prefix}] \in Txs
  BY <1>1 DEF Txs
<1>3. /\ tx' \in [Clients -> Txs]
      /\ \A d \in Clients \ {c} : tx'[d] = tx[d]
      /\ tx'[c] = [tx[c] EXCEPT !.readPrefixes = @ \union {prefix}]
  BY <1>1, <1>2
<1>4. /\ tx'[c].open = tx[c].open /\ tx'[c].start = tx[c].start
      /\ tx'[c].pending = tx[c].pending
      /\ tx'[c].readKeys = tx[c].readKeys
      /\ tx'[c].readPrefixes = tx[c].readPrefixes \union {prefix}
  BY <1>1, <1>3 DEF Txs
<1> DEFINE quiet == prefix \ (known \union Pending(c))
           told == [k \in Keys |-> IF k \in quiet THEN Missing ELSE seen[c][k]]
<1>5. told \in Entries
  BY <1>1 DEF Entries
<1>6. /\ seen' \in [Clients -> Entries]
      /\ \A d \in Clients \ {c} : seen'[d] = seen[d]
      /\ \A k \in Keys : seen'[c][k] = IF k \in quiet THEN Missing ELSE seen[c][k]
  <2>1. seen' = [seen EXCEPT ![c] = told]
    BY DEF ScanStart
  <2> QED
    BY <1>1, <1>5, <2>1
<1>7. cursor' \in [Clients -> SUBSET Keys]
  <2>1. prefix \intersect (known \union Pending(c)) \in SUBSET Keys
    BY <1>1
  <2> QED
    BY <2>1 DEF ScanStart, StoreInv, TypeOK
<1> HIDE DEF told
<1>8. ASSUME NEW k \in Keys, k \in quiet PROVE Visible(k, tx[c].start) = Missing
  <2>1. versions[k] = << >>
    BY <1>8 DEF StoreInv, BookInv
  <2> QED
    BY <2>1 DEF Visible, VisibleIn
<1>9. \A k \in Keys : seen'[c][k] # NoEntry =>
        /\ tx'[c].open
        /\ seen'[c][k] = Visible(k, tx'[c].start)
        /\ k \in tx'[c].readKeys \union UNION tx'[c].readPrefixes
  <2>1. ASSUME NEW k \in Keys, seen'[c][k] # NoEntry, k \in quiet
        PROVE  seen'[c][k] = Visible(k, tx'[c].start) /\ k \in UNION tx'[c].readPrefixes
    BY <1>4, <1>6, <1>8, <2>1
  <2>2. ASSUME NEW k \in Keys, seen'[c][k] # NoEntry, k \notin quiet
        PROVE  /\ seen'[c][k] = Visible(k, tx'[c].start)
               /\ k \in tx'[c].readKeys \union UNION tx'[c].readPrefixes
    BY <1>4, <1>6, <2>2, TxFacts
  <2> QED
    BY <1>1, <1>4, <2>1, <2>2
<1>10. StoreInv'
  <2>1. tx'[c].start <= version /\ tx'[c].open
    BY <1>1, <1>4, TxFacts
  <2> QED
    BY <2>1, <1>1, <1>3, <1>6, <1>7, <1>9, QuietStep
<1>11. ASSUME NEW k \in Keys, seen[c][k] # NoEntry PROVE seen'[c][k] = seen[c][k]
  BY <1>6, <1>8, <1>11, TxFacts
<1> QED
  BY <1>3, <1>4, <1>6, <1>10, <1>11

\* Rollback, and the end of a commit that wrote nothing.
LEMMA CloseStep ==
  ASSUME StoreInv, NEW c \in Clients, Close(c)
  PROVE  /\ tx' \in [Clients -> Txs] /\ tx'[c] = NoTx
         /\ \A d \in Clients \ {c} : tx'[d] = tx[d] /\ seen'[d] = seen[d]
         /\ seen' \in [Clients -> Entries] /\ seen'[c] = Nothing
         /\ cursor' \in [Clients -> SUBSET Keys]
         /\ UNCHANGED <<version, versions, known>> => StoreInv'
<1>1. /\ tx' \in [Clients -> Txs] /\ tx'[c] = NoTx
      /\ \A d \in Clients \ {c} : tx'[d] = tx[d] /\ seen'[d] = seen[d]
      /\ seen' \in [Clients -> Entries] /\ seen'[c] = Nothing
      /\ cursor' \in [Clients -> SUBSET Keys]
  BY NoTxType DEF Close, StoreInv, TypeOK
<1>2. ASSUME UNCHANGED <<version, versions, known>> PROVE StoreInv'
  <2>1. tx'[c].start <= version
    BY <1>1 DEF NoTx, StoreInv, TypeOK
  <2>2. \A k \in Keys : seen'[c][k] = NoEntry
    BY <1>1 DEF Nothing
  <2> QED
    BY <1>1, <1>2, <2>1, <2>2, QuietStep
<1> QED
  BY <1>1, <1>2

-----------------------------------------------------------------------------
(* A commit that writes.                                                   *)

LEMMA CommitWrites ==
  ASSUME StoreInv, NEW c \in Clients, Commit(c), Pending(c) # {}, NEW k \in Keys
  PROVE  /\ version' = version + 1
         /\ versions'[k] \in Seq(Items)
         /\ Len(versions[k]) <= Len(versions'[k])
         /\ \A i \in DOMAIN versions[k] :
              /\ versions'[k][i].created = versions[k][i].created
              /\ versions'[k][i].deleted = versions[k][i].deleted
                   \/ versions'[k][i].deleted = version + 1
         /\ Chain(versions'[k], version + 1)
         /\ VisibleIn(versions'[k], version + 1) =
              IF tx[c].pending[k] = NoEntry THEN VisibleIn(versions[k], version)
                                            ELSE tx[c].pending[k]
         /\ \A w \in 0 .. version : VisibleIn(versions'[k], w) = VisibleIn(versions[k], w)
<1>1. /\ version' = version + 1
      /\ versions'[k] = IF k \in Pending(c)
                          THEN Install(versions[k], version + 1, tx[c].pending[k])
                          ELSE versions[k]
      /\ k \in Pending(c) <=> tx[c].pending[k] # NoEntry
  BY DEF Commit, Pending
<1>2. /\ versions[k] \in Seq(Items) /\ Chain(versions[k], version) /\ version \in Nat
      /\ Len(versions[k]) \in Nat
  BY ChainOf DEF StoreInv
<1>3. CASE k \in Pending(c)
  <2>1. tx[c].pending[k] \in Values \union {Missing}
    BY <1>1, <1>3, TxFacts DEF Entries
  <2>2. /\ versions'[k] \in Seq(Items)
        /\ Len(versions[k]) <= Len(versions'[k])
        /\ \A i \in DOMAIN versions[k] :
             /\ versions'[k][i].created = versions[k][i].created
             /\ versions'[k][i].deleted = IF versions[k][i].deleted = 0 THEN version + 1
                                          ELSE versions[k][i].deleted
        /\ Chain(versions'[k], version + 1)
        /\ VisibleIn(versions'[k], version + 1) = tx[c].pending[k]
        /\ \A w \in 0 .. version : VisibleIn(versions'[k], w) = VisibleIn(versions[k], w)
    <3> DEFINE value == tx[c].pending[k]
               r == versions'[k]
    <3>1. r = Install(versions[k], version + 1, value) /\ value \in Values \union {Missing}
      BY <1>1, <1>3, <2>1
    <3> HIDE DEF value, r
    <3>2. /\ r \in Seq(Items)
          /\ Len(versions[k]) <= Len(r)
          /\ \A i \in DOMAIN versions[k] :
               /\ r[i].created = versions[k][i].created
               /\ r[i].deleted = IF versions[k][i].deleted = 0 THEN version + 1
                                 ELSE versions[k][i].deleted
          /\ Chain(r, version + 1)
          /\ VisibleIn(r, version + 1) = value
          /\ \A w \in 0 .. version : VisibleIn(r, w) = VisibleIn(versions[k], w)
      BY <1>2, <3>1, InstallFacts
    <3> QED
      BY <3>2 DEF value, r
  <2> QED
    BY <1>1, <1>3, <2>2
<1>4. CASE k \notin Pending(c)
  <2>1. Chain(versions[k], version + 1)
    BY <1>2, ItemTypes DEF Chain
  <2>2. VisibleIn(versions[k], version + 1) = VisibleIn(versions[k], version)
    <3>1. version + 1 \in Nat /\ version <= version + 1
      BY <1>2
    <3> QED
      BY <1>2, <3>1, VisibleNow
  <2> QED
    BY <1>1, <1>2, <1>4, <2>1, <2>2
<1> QED
  BY <1>3, <1>4

LEMMA CommitStep ==
  ASSUME StoreInv, NEW c \in Clients, Commit(c)
  PROVE  StoreInv'
<1>1. Close(c)
  BY DEF Commit
<1>2. CASE Pending(c) = {}
  BY <1>1, <1>2, CloseStep DEF Commit
<1>3. CASE Pending(c) # {}
  <2>1. /\ version' = version + 1 /\ known' = known \union Pending(c)
        /\ versions' = [k \in Keys |-> IF k \in Pending(c)
                          THEN Install(versions[k], version + 1, tx[c].pending[k])
                          ELSE versions[k]]
        /\ version \in Nat /\ Pending(c) \subseteq Keys
    BY <1>3 DEF Commit, Pending, StoreInv, TypeOK
  <2>2. TypeOK'
    <3>1. versions' \in [Keys -> Seq(Items)]
      <4>1. \A k \in Keys : versions'[k] \in Seq(Items)
        BY <1>3, CommitWrites
      <4>2. versions' = [k \in Keys |-> versions'[k]]
        BY <2>1
      <4> QED
        BY <4>1, <4>2
    <3>2. version' \in Nat /\ known' \in SUBSET Keys
      BY <2>1 DEF StoreInv, TypeOK
    <3> QED
      BY <1>1, <3>1, <3>2, CloseStep DEF TypeOK
  <2>3. ChainInv'
    <3>1. \A k \in Keys : Chain(versions'[k], version')
      BY <1>3, <2>1, CommitWrites
    <3> QED
      BY <3>1 DEF ChainInv, Chain
  <2>4. BookInv'
    <3>1. ASSUME NEW k \in Keys, versions'[k] # << >> PROVE k \in known'
      BY <2>1, <3>1 DEF StoreInv, BookInv
    <3>2. ASSUME NEW d \in Clients
          PROVE  /\ tx'[d].start <= version'
                 /\ ~tx'[d].open => tx'[d] = NoTx
                 /\ \A k \in Keys : seen'[d][k] # NoEntry =>
                      k \in tx'[d].readKeys \union UNION tx'[d].readPrefixes
      <4>1. CASE d = c
        <5>1. tx'[d] = NoTx /\ seen'[d] = Nothing
          BY <1>1, <4>1, CloseStep
        <5> QED
          BY <2>1, <5>1 DEF NoTx, Nothing
      <4>2. CASE d # c
        <5>1. tx'[d] = tx[d] /\ seen'[d] = seen[d]
          BY <1>1, <4>2, CloseStep
        <5>2. tx[d].start \in Nat /\ tx[d].start <= version
          BY TxFacts
        <5> QED
          BY <2>1, <5>1, <5>2 DEF StoreInv, BookInv
      <4> QED
        BY <4>1, <4>2
    <3> QED
      BY <3>1, <3>2 DEF BookInv
  <2>5. SnapshotReads'
    <3>1. ASSUME NEW d \in Clients, NEW k \in Keys, seen'[d][k] # NoEntry
          PROVE  tx'[d].open /\ seen'[d][k] = VisibleIn(versions'[k], tx'[d].start)
      <4>1. d # c
        BY <1>1, <3>1, CloseStep DEF Nothing
      <4>2. tx'[d] = tx[d] /\ seen'[d] = seen[d]
        BY <1>1, <4>1, CloseStep
      <4>3. /\ tx[d].start \in 0 .. version /\ tx[d].open
            /\ seen[d][k] = VisibleIn(versions[k], tx[d].start)
        BY <2>1, <3>1, <4>2, TxFacts DEF Visible
      <4>4. VisibleIn(versions'[k], tx[d].start) = VisibleIn(versions[k], tx[d].start)
        BY <1>3, <4>3, CommitWrites
      <4> QED
        BY <4>2, <4>3, <4>4
    <3> QED
      BY <3>1 DEF SnapshotReads, Visible
  <2> QED
    BY <2>2, <2>3, <2>4, <2>5 DEF StoreInv
<1> QED
  BY <1>2, <1>3

-----------------------------------------------------------------------------
(* The invariant of the store.                                             *)

LEMMA GetStep ==
  ASSUME StoreInv, NEW c \in Clients, NEW k \in Keys, Get(c, k) \/ ScanNext(c, k)
  PROVE  /\ tx[c].open /\ Read(c, k) /\ UNCHANGED <<version, versions, known>>
         /\ cursor' \in [Clients -> SUBSET Keys]
<1>1. CASE Get(c, k)
  BY <1>1 DEF Get, StoreInv, TypeOK
<1>2. CASE ScanNext(c, k)
  BY <1>2 DEF ScanNext, StoreInv, TypeOK
<1> QED
  BY <1>1, <1>2

LEMMA StoreInit == Init => StoreInv
<1> SUFFICES ASSUME Init PROVE StoreInv
  OBVIOUS
<1>1. TypeOK
  BY NoTxType DEF Init, TypeOK
<1>2. ChainInv
  BY DEF Init, ChainInv
<1>3. BookInv
  BY DEF Init, BookInv, NoTx, Nothing
<1>4. SnapshotReads
  BY DEF Init, SnapshotReads, Nothing
<1> QED
  BY <1>1, <1>2, <1>3, <1>4 DEF StoreInv

LEMMA StoreStep == StoreInv /\ [Next]_vars => StoreInv'
<1> SUFFICES ASSUME StoreInv, [Next]_vars PROVE StoreInv'
  OBVIOUS
<1>1. CASE UNCHANGED vars
  BY <1>1 DEF vars, StoreInv, TypeOK, ChainInv, BookInv, SnapshotReads, Visible
<1>2. ASSUME NEW c \in Clients, Begin(c) PROVE StoreInv'
  BY <1>2, BeginStep
<1>3. ASSUME NEW c \in Clients, Commit(c) PROVE StoreInv'
  BY <1>3, CommitStep
<1>4. ASSUME NEW c \in Clients, Rollback(c) PROVE StoreInv'
  BY <1>4, CloseStep DEF Rollback
<1>5. ASSUME NEW c \in Clients, NEW k \in Keys, Get(c, k) \/ ScanNext(c, k) PROVE StoreInv'
  BY <1>5, GetStep, ReadStep
<1>6. ASSUME NEW c \in Clients, NEW k \in Keys, NEW value \in Values \union {Missing},
             Put(c, k, value)
      PROVE  StoreInv'
  BY <1>6, PutStep
<1>7. ASSUME NEW c \in Clients, NEW prefix \in Prefixes, ScanStart(c, prefix) PROVE StoreInv'
  BY <1>7, ScanStartStep
<1> QED
  BY <1>1, <1>2, <1>3, <1>4, <1>5, <1>6, <1>7 DEF Next

\* In every reachable state of a store of any size the types, the order of the
\* chains, the bookkeeping of the transactions and their snapshots hold (mvcc.py).
THEOREM StoreInvariant == Spec => []StoreInv
  BY StoreInit, StoreStep, PTL DEF Spec

\* Every variable has its type, and a chain holds values only.
THEOREM TypeCorrect == Spec => []TypeOK
<1>1. StoreInv => TypeOK
  BY DEF StoreInv
<1> QED
  BY <1>1, StoreInvariant, PTL

\* The lives of a key's versions are ordered, disjoint and in the past (mvcc.py:86).
THEOREM ChainsOrdered == Spec => []ChainInv
<1>1. StoreInv => ChainInv
  BY DEF StoreInv
<1> QED
  BY <1>1, StoreInvariant, PTL

\* All that a running transaction was told, and every row a scan did not report, is
\* still so at its start version (mvcc.py:98).
THEOREM SnapshotReadsHold == Spec => []SnapshotReads
<1>1. StoreInv => SnapshotReads
  BY DEF StoreInv
<1> QED
  BY <1>1, StoreInvariant, PTL

-----------------------------------------------------------------------------
(* A transaction that lost stays lost.                                     *)

\* No step gives a key back the state it had: chains grow, and ends are later.
LEMMA ChangedStays ==
  ASSUME StoreInv, [Next]_vars, NEW k \in Keys, NEW v \in Nat, v <= version,
         ChangedAfter(k, v)
  PROVE  ChangedAfter(k, v)'
<1>1. CASE versions' = versions
  BY <1>1 DEF ChangedAfter
<1>2. ASSUME NEW c \in Clients, Commit(c), Pending(c) # {} PROVE ChangedAfter(k, v)'
  <2>1. PICK i \in DOMAIN versions[k] :
          versions[k][i].created > v \/ versions[k][i].deleted > v
    BY DEF ChangedAfter
  <2>2. /\ Len(versions[k]) <= Len(versions'[k]) /\ versions'[k] \in Seq(Items)
        /\ versions'[k][i].created = versions[k][i].created
        /\ versions'[k][i].deleted = versions[k][i].deleted
             \/ versions'[k][i].deleted = version + 1
    BY <1>2, CommitWrites
  <2>3. i \in DOMAIN versions'[k] /\ version \in Nat
    BY <2>2, ChainOf DEF StoreInv
  <2>4. versions'[k][i].created > v \/ versions'[k][i].deleted > v
    BY <2>1, <2>2, <2>3
  <2> QED
    BY <2>3, <2>4 DEF ChangedAfter
<1> QED
  BY <1>1, <1>2 DEF Next, vars, Begin, Commit, Rollback, Get, Put, ScanStart, ScanNext

\* While a transaction runs it keeps its start and watches ever more keys.
LEMMA WatchedGrows ==
  ASSUME StoreInv, [Next]_vars, NEW c \in Clients, tx[c].open, tx'[c].open
  PROVE  tx'[c].start = tx[c].start /\ Watched(c) \subseteq Watched(c)'
<1>1. CASE tx'[c] = tx[c]
  BY <1>1 DEF Watched, Pending
<1>2. ASSUME NEW d \in Clients, Begin(d) \/ Rollback(d) \/ Commit(d) PROVE tx'[c] = tx[c]
  <2>1. d # c
    <3>1. CASE d = c /\ Begin(d)
      BY <3>1 DEF Begin
    <3>2. CASE d = c /\ (Rollback(d) \/ Commit(d))
      <4>1. tx'[c] = NoTx
        BY <3>2, CloseStep DEF Rollback, Commit
      <4> QED
        BY <4>1 DEF NoTx
    <3> QED
      BY <1>2, <3>1, <3>2
  <2> QED
    BY <1>2, <2>1 DEF Begin, Rollback, Commit, Close, StoreInv, TypeOK
<1>3. ASSUME NEW d \in Clients, NEW k \in Keys, Get(d, k) \/ ScanNext(d, k)
      PROVE  tx'[c].start = tx[c].start /\ Watched(c) \subseteq Watched(c)'
  <2>1. tx' = [tx EXCEPT ![d].readKeys = @ \union {k}]
    BY <1>3, GetStep DEF Read
  <2>2. /\ tx'[c].start = tx[c].start /\ tx'[c].pending = tx[c].pending
        /\ tx[c].readKeys \subseteq tx'[c].readKeys
        /\ tx'[c].readPrefixes = tx[c].readPrefixes
    BY <2>1 DEF StoreInv, TypeOK, Txs
  <2> QED
    BY <2>2 DEF Watched, Pending
<1>4. ASSUME NEW d \in Clients, NEW k \in Keys, NEW value \in Values \union {Missing},
             Put(d, k, value)
      PROVE  tx'[c].start = tx[c].start /\ Watched(c) \subseteq Watched(c)'
  <2>1. CASE d # c
    BY <1>1, <1>4, <2>1, PutStep
  <2>2. CASE d = c
    <3>1. /\ tx'[c].pending = [tx[c].pending EXCEPT ![k] = value]
          /\ tx'[c].start = tx[c].start /\ tx'[c].readKeys = tx[c].readKeys
          /\ tx'[c].readPrefixes = tx[c].readPrefixes
      BY <1>4, <2>2, PutStep
    <3>2. value # NoEntry /\ tx[c].pending \in Entries
      BY MarkersAssumption, TxFacts
    <3>3. Pending(c) \subseteq Pending(c)'
      BY <3>1, <3>2 DEF Pending, Entries
    <3> QED
      BY <3>1, <3>3 DEF Watched
  <2> QED
    BY <2>1, <2>2
<1>5. ASSUME NEW d \in Clients, NEW prefix \in Prefixes, ScanStart(d, prefix)
      PROVE  tx'[c].start = tx[c].start /\ Watched(c) \subseteq Watched(c)'
  <2>1. tx' = [tx EXCEPT ![d].readPrefixes = @ \union {prefix}]
    BY <1>5 DEF ScanStart
  <2>2. /\ tx'[c].start = tx[c].start /\ tx'[c].pending = tx[c].pending
        /\ tx'[c].readKeys = tx[c].readKeys
        /\ tx[c].readPrefixes \subseteq tx'[c].readPrefixes
    BY <2>1 DEF StoreInv, TypeOK, Txs
  <2>3. UNION tx[c].readPrefixes \subseteq UNION tx'[c].readPrefixes
    BY <2>2
  <2> QED
    BY <2>2, <2>3 DEF Watched, Pending
<1> QED
  BY <1>1, <1>2, <1>3, <1>4, <1>5 DEF Next, vars

LEMMA DoomedStep ==
  ASSUME StoreInv, [Next]_vars, NEW c \in Clients, tx[c].open, tx'[c].open, Conflict(c)
  PROVE  Conflict(c)'
<1>1. PICK k \in Watched(c) : ChangedAfter(k, tx[c].start)
  BY DEF Conflict
<1>2. k \in Keys
  <2>1. tx[c].readKeys \subseteq Keys /\ tx[c].readPrefixes \subseteq Prefixes
    BY TxFacts DEF Txs
  <2> QED
    BY <1>1, <2>1, PrefixesAssumption DEF Watched, Pending
<1>3. ChangedAfter(k, tx[c].start)'
  <2>1. ChangedAfter(k, tx[c].start) /\ tx[c].start \in Nat /\ tx[c].start <= version
    BY <1>1, TxFacts
  <2> DEFINE v == tx[c].start
  <2>2. \E i \in DOMAIN versions'[k] :
          versions'[k][i].created > v \/ versions'[k][i].deleted > v
    <3> HIDE DEF v
    <3>1. ChangedAfter(k, v) /\ v \in Nat /\ v <= version
      BY <2>1 DEF v
    <3> QED
      BY <1>2, <3>1, ChangedStays DEF ChangedAfter
  <2>3. tx'[c].start = v
    BY WatchedGrows
  <2> QED
    BY <2>2, <2>3 DEF ChangedAfter
<1>4. k \in Watched(c)'
  BY <1>1, WatchedGrows
<1> QED
  BY <1>3, <1>4 DEF Conflict

\* A transaction that commit refuses is refused for ever (mvcc.py:108).
THEOREM DoomedHolds == Spec => DoomedStaysDoomed
<1>1. StoreInv /\ [Next]_vars =>
        [\A c \in Clients : tx[c].open /\ tx'[c].open /\ Conflict(c) => Conflict(c)']_vars
  BY DoomedStep
<1> QED
  BY <1>1, StoreInvariant, PTL DEF Spec, DoomedStaysDoomed

-----------------------------------------------------------------------------
(* The refinement of SerialStore.                                          *)

\* What SerialStore's variables stand for.
Db == [k \in Keys |-> Visible(k, version)]
Writes == [c \in Clients |-> tx[c].pending]

LEMMA SerialInit == Init => Serial!Init
<1> SUFFICES ASSUME Init PROVE Serial!Init
  OBVIOUS
<1>1. \A k \in Keys : Visible(k, version) = Missing
  BY DEF Init, Visible, VisibleIn
<1> QED
  BY <1>1 DEF Init, Serial!Init, Serial!Nothing, Nothing, NoTx

\* A step of c that leaves the store and the writes alone and takes nothing back.
LEMMA SerialObserve ==
  ASSUME StoreInv, NEW c \in Clients, UNCHANGED <<version, versions>>,
         \A j \in Keys : seen[c][j] # NoEntry => seen'[c][j] = seen[c][j],
         \A d \in Clients : tx'[d].pending = tx[d].pending,
         \A d \in Clients \ {c} : seen'[d] = seen[d]
  PROVE  Serial!Observe(c)
<1>1. Db' = Db /\ Writes' = Writes
  BY DEF Db, Writes, Visible
<1> QED
  BY <1>1 DEF Serial!Observe, Db, Writes

LEMMA SerialFinish ==
  ASSUME StoreInv, NEW c \in Clients, Close(c)
  PROVE  Serial!Finish(c)
<1>1. /\ tx'[c] = NoTx /\ \A d \in Clients \ {c} : tx'[d] = tx[d]
      /\ seen' = [seen EXCEPT ![c] = Nothing]
  BY CloseStep DEF Close
<1>2. Writes' = [Writes EXCEPT ![c] = Nothing]
  <2>1. NoTx.pending = Nothing
    BY DEF NoTx
  <2>2. \A d \in Clients : tx'[d].pending = IF d = c THEN Nothing ELSE tx[d].pending
    BY <1>1, <2>1
  <2> QED
    BY <2>2 DEF Writes
<1> QED
  BY <1>1, <1>2 DEF Serial!Finish, Serial!Nothing, Nothing, Writes

\* All that the transaction was told is the truth at the instant of its commit.
LEMMA SerialCommit ==
  ASSUME StoreInv, NEW c \in Clients, Commit(c)
  PROVE  Serial!Commit(c)
<1>1. Serial!Finish(c)
  BY SerialFinish DEF Commit
<1>2. ASSUME NEW k \in Keys, seen[c][k] # NoEntry PROVE seen[c][k] = Visible(k, version)
  <2>1. seen[c][k] = Visible(k, tx[c].start) /\ k \in Watched(c)
    BY <1>2, TxFacts DEF Watched
  <2>2. \A i \in DOMAIN versions[k] :
          ~(versions[k][i].created > tx[c].start \/ versions[k][i].deleted > tx[c].start)
    BY <2>1 DEF Commit, Conflict, ChangedAfter
  <2>3. /\ versions[k] \in Seq(Items) /\ Chain(versions[k], version) /\ version \in Nat
        /\ tx[c].start \in Nat /\ tx[c].start <= version
    BY ChainOf, TxFacts DEF StoreInv
  <2>4. VisibleIn(versions[k], tx[c].start) = VisibleIn(versions[k], version)
    BY <2>2, <2>3, VisibleUnchanged
  <2> QED
    BY <2>1, <2>4 DEF Visible
<1>3. \A k \in Keys : seen[c][k] \in {NoEntry, Db[k]}
  BY <1>2 DEF Db
<1>4. Db' = [k \in Keys |-> IF Writes[c][k] = NoEntry THEN Db[k] ELSE Writes[c][k]]
  <2>1. CASE Pending(c) = {}
    <3>1. UNCHANGED <<version, versions>>
      BY <2>1 DEF Commit
    <3>2. Db' = Db
      BY <3>1 DEF Db, Visible
    <3>3. \A k \in Keys : Writes[c][k] = NoEntry
      BY <2>1 DEF Pending, Writes
    <3> QED
      BY <3>2, <3>3 DEF Db
  <2>2. CASE Pending(c) # {}
    <3>1. ASSUME NEW k \in Keys
          PROVE  VisibleIn(versions'[k], version') =
                   IF Writes[c][k] = NoEntry THEN Db[k] ELSE Writes[c][k]
      BY <2>2, CommitWrites DEF Writes, Db, Visible
    <3> QED
      BY <3>1 DEF Db, Visible
  <2> QED
    BY <2>1, <2>2
<1> QED
  BY <1>1, <1>3, <1>4 DEF Serial!Commit, Db, Writes

LEMMA SerialStep ==
  ASSUME StoreInv, [Next]_vars
  PROVE  [Serial!Next]_(Serial!vars)
<1>1. CASE UNCHANGED vars
  BY <1>1 DEF vars, Serial!vars, Visible
<1>2. ASSUME NEW c \in Clients, Begin(c) PROVE Serial!Next
  <2>1. tx[c] = NoTx
    BY <1>2 DEF Begin, StoreInv, BookInv
  <2>2. /\ UNCHANGED <<version, versions, seen>>
        /\ \A d \in Clients : tx'[d].pending = tx[d].pending
    BY <1>2, <2>1 DEF Begin, NoTx, StoreInv, TypeOK
  <2> QED
    BY <2>2, SerialObserve DEF Serial!Next
<1>3. ASSUME NEW c \in Clients, Commit(c) PROVE Serial!Next
  BY <1>3, SerialCommit DEF Serial!Next
<1>4. ASSUME NEW c \in Clients, Rollback(c) PROVE Serial!Next
  <2>1. Serial!Finish(c)
    BY <1>4, SerialFinish DEF Rollback
  <2>2. Db' = Db
    BY <1>4 DEF Rollback, Db, Visible
  <2> QED
    BY <2>1, <2>2 DEF Serial!Next, Serial!Abort, Db
<1>5. ASSUME NEW c \in Clients, NEW k \in Keys, Get(c, k) \/ ScanNext(c, k) PROVE Serial!Next
  <2>1. Serial!Observe(c)
    BY <1>5, GetStep, ReadStep, SerialObserve
  <2> QED
    BY <2>1 DEF Serial!Next
<1>6. ASSUME NEW c \in Clients, NEW k \in Keys, NEW value \in Values \union {Missing},
             Put(c, k, value)
      PROVE  Serial!Next
  <2>1. UNCHANGED <<version, versions, seen>> /\ \A d \in Clients \ {c} : tx'[d] = tx[d]
    BY <1>6, PutStep DEF Put
  <2>2. Db' = Db /\ \A d \in Clients \ {c} : Writes'[d] = Writes[d]
    BY <2>1 DEF Db, Writes, Visible
  <2> QED
    BY <2>1, <2>2 DEF Serial!Next, Serial!Write, Db, Writes
<1>7. ASSUME NEW c \in Clients, NEW prefix \in Prefixes, ScanStart(c, prefix)
      PROVE  Serial!Next
  <2>1. UNCHANGED <<version, versions>>
    BY <1>7 DEF ScanStart
  <2>2. Serial!Observe(c)
    BY <1>7, <2>1, ScanStartStep, SerialObserve
  <2> QED
    BY <2>2 DEF Serial!Next
<1> QED
  BY <1>1, <1>2, <1>3, <1>4, <1>5, <1>6, <1>7 DEF Next

\* Strict serializability (mvcc.py:103-120) for any number of clients and keys:
\* every behaviour of the store is one of SerialStore, in which a commit happens at
\* one instant at which all its transaction was told, scans included, is true.
THEOREM SerializableHolds == Spec => Serializable
<1>1. Init => Serial!Init
  BY SerialInit
<1>2. StoreInv /\ [Next]_vars => [Serial!Next]_(Serial!vars)
  BY SerialStep
<1> QED
  BY <1>1, <1>2, StoreInvariant, PTL DEF Spec, Serializable, Serial!Spec

=============================================================================
