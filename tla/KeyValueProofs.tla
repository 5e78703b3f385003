--------------------------- MODULE KeyValueProofs ---------------------------
(***************************************************************************)
(* Proofs about the key-value store, for any keys, hashes, values, budget  *)
(* and length of a run: every bucket is a red-black tree between calls,    *)
(* nothing leaks, what is counted and charged is what is stored, and the   *)
(* store implements the map of KvMap.                                      *)
(*                                                                         *)
(* Inv is inductive.  It says of each step what tree a bucket is           *)
(* (TreesInv, by the predicates of RbTreeProofs), where the call is in it  *)
(* (CallInv), which buckets are still whole (DestroyInv), and what is      *)
(* handed out and charged (BlocksInv, AccountInv).                         *)
(*                                                                         *)
(* used_memory is a sum over the stored nodes, by a fold, and a fold is    *)
(* recursive.  Units turns it into the size of a set, a unit of memory an  *)
(* element (SumIsUnits), and a stored or freed value into elements of that *)
(* set.  The literal of MEDIUM_MAX_SIZE is hidden behind three lemmas: it is *)
(* more than the arithmetic of the provers takes.                          *)
(***************************************************************************)
EXTENDS KeyValue, RbTreeProofs

-----------------------------------------------------------------------------
(* Sums *)

\* One for each unit of the weights: their sum, as the size of a set.
Units(S, w, b) == {u \in S \X (1 .. b) : u[2] <= w[u[1]]}

\* No element has no unit, finitely many have finitely many.
LEMMA UnitsEmpty ==
    ASSUME NEW w, NEW b
    PROVE  Cardinality(Units({}, w, b)) = 0
  <1>1. Units({}, w, b) = {}
    BY DEF Units
  <1> QED BY <1>1, FS_EmptySet

\* There are finitely many of them.
LEMMA UnitsFinite ==
    ASSUME NEW S, IsFiniteSet(S), NEW w, NEW b \in Nat
    PROVE  IsFiniteSet(Units(S, w, b)) /\ Cardinality(Units(S, w, b)) \in Nat
  <1>1. IsFiniteSet(1 .. b)
    BY FS_Interval
  <1>2. IsFiniteSet(S \X (1 .. b))
    BY <1>1, FS_Product
  <1>3. Units(S, w, b) \in SUBSET (S \X (1 .. b))
    BY DEF Units
  <1>4. IsFiniteSet(Units(S, w, b))
    BY <1>2, <1>3, FS_Subset
  <1> QED BY <1>4, FS_CardinalityType

\* One element more has its weight more units.
LEMMA UnitsAdd ==
    ASSUME NEW S, IsFiniteSet(S), NEW x, x \notin S, NEW w, NEW b \in Nat, w[x] \in 0 .. b
    PROVE  Cardinality(Units(S \cup {x}, w, b)) = Cardinality(Units(S, w, b)) + w[x]
  <1> DEFINE A == Units(S, w, b)
             B == {x} \X (1 .. w[x])
  <1>1. IsFiniteSet(1 .. w[x]) /\ Cardinality(1 .. w[x]) = w[x] /\ w[x] \in Nat
    <2>1. w[x] \in Int /\ w[x] \in Nat
      OBVIOUS
    <2>2. PICK k \in Nat : k = w[x]
      BY <2>1
    <2>3. IsFiniteSet(1 .. k) /\ Cardinality(1 .. k) = IF 1 > k THEN 0 ELSE k - 1 + 1
      <3>1. 1 \in Int /\ k \in Int
        OBVIOUS
      <3>2. IsFiniteSet(1 .. k)
        BY <3>1, FS_Interval
      <3>3. Cardinality(1 .. k) = IF 1 > k THEN 0 ELSE k - 1 + 1
        BY <3>1, FS_Interval
      <3> QED BY <3>2, <3>3
    <2>4. (IF 1 > k THEN 0 ELSE k - 1 + 1) = k
      OBVIOUS
    <2>5. Cardinality(1 .. k) = k
      BY <2>3, <2>4
    <2> QED BY <2>2, <2>3, <2>5
  <1>2. IsFiniteSet({x}) /\ Cardinality({x}) = 1
    BY FS_Singleton
  <1>3. IsFiniteSet(B) /\ Cardinality(B) = w[x]
    <2>1. IsFiniteSet(B) /\ Cardinality(B) = Cardinality({x}) * Cardinality(1 .. w[x])
      BY <1>1, <1>2, FS_Product
    <2>2. 1 * w[x] = w[x]
      BY <1>1
    <2> QED BY <1>1, <1>2, <2>1, <2>2
  <1>4. IsFiniteSet(A) /\ Cardinality(A) \in Nat
    BY UnitsFinite
  <1>5. Units(S \cup {x}, w, b) = A \cup B
    BY DEF Units
  <1>6. A \cap B = {}
    BY DEF Units
  <1>7. Cardinality(A \cup B) = Cardinality(A) + Cardinality(B) - Cardinality(A \cap B)
    BY <1>3, <1>4, FS_Union
  <1>8. Cardinality(A \cap B) = 0
    BY <1>6, FS_EmptySet
  <1>9. Cardinality(A \cup B) = Cardinality(A) + w[x] - 0
    BY <1>3, <1>7, <1>8
  <1>10. Cardinality(A) + w[x] - 0 = Cardinality(A) + w[x]
    BY <1>1, <1>4
  <1> QED BY <1>5, <1>9, <1>10

\* The sum over a finite set, whatever order it is taken in.
BytesOf(d, S) == MapThenSumSet(LAMBDA n : BlockSize(d[n]), S)

\* A sum over a finite set is the number of its units.
LEMMA SumIsUnits ==
    ASSUME NEW S, IsFiniteSet(S), NEW b \in Nat, NEW w \in [S -> 0 .. b], NEW d,
           \A n \in S : BlockSize(d[n]) = w[n]
    PROVE  BytesOf(d, S) = Cardinality(Units(S, w, b))
  <1> DEFINE c(s) == CHOOSE x \in s : TRUE
             Eq(h) == h = [s \in SUBSET S |-> IF s = {} THEN 0 ELSE BlockSize(d[c(s)]) + h[s \ {c(s)}]]
             f == CHOOSE h : Eq(h)
             f0 == [s \in SUBSET S |-> Cardinality(Units(s, w, b))]
  <1>1. BytesOf(d, S) = f[S]
    BY DEF BytesOf, MapThenSumSet, MapThenFoldSet
  <1>2. ASSUME NEW s \in SUBSET S, s # {}
        PROVE  /\ c(s) \in s /\ s \ {c(s)} \in SUBSET S
               /\ BlockSize(d[c(s)]) = w[c(s)]
               /\ Cardinality(Units(s, w, b)) = w[c(s)] + Cardinality(Units(s \ {c(s)}, w, b))
    <2>1. c(s) \in s
      BY <1>2
    <2> HIDE DEF c
    <2>2. w[c(s)] \in 0 .. b /\ c(s) \in S /\ BlockSize(d[c(s)]) = w[c(s)]
      BY <2>1
    <2>3. IsFiniteSet(s \ {c(s)})
      BY FS_Subset
    <2>4. s = (s \ {c(s)}) \cup {c(s)}
      BY <2>1
    <2>5. Cardinality(Units(s \ {c(s)}, w, b)) \in Nat
      BY <2>3, UnitsFinite
    <2>6. Cardinality(Units((s \ {c(s)}) \cup {c(s)}, w, b)) = Cardinality(Units(s \ {c(s)}, w, b)) + w[c(s)]
      BY <2>2, <2>3, UnitsAdd
    <2>7. Cardinality(Units(s, w, b)) = Cardinality(Units(s \ {c(s)}, w, b)) + w[c(s)]
      BY <2>4, <2>6
    <2>8. Cardinality(Units(s \ {c(s)}, w, b)) + w[c(s)] = w[c(s)] + Cardinality(Units(s \ {c(s)}, w, b))
      BY <2>2, <2>5
    <2> QED BY <2>1, <2>2, <2>7, <2>8
  <1>3. Eq(f0)
    <2>1. ASSUME NEW s \in SUBSET S
          PROVE  f0[s] = IF s = {} THEN 0 ELSE BlockSize(d[c(s)]) + f0[s \ {c(s)}]
      <3>1. CASE s = {}
        BY <3>1, UnitsEmpty
      <3>2. CASE s # {}
        <4> HIDE DEF c
        <4> QED BY <1>2, <3>2
      <3> QED BY <3>1, <3>2
    <2>2. f0 = [s \in SUBSET S |-> f0[s]]
      OBVIOUS
    <2> HIDE DEF f0, c
    <2> QED BY <2>1, <2>2, Zenon
  <1>4. Eq(f)
    <2> HIDE DEF f0, c
    <2> QED BY <1>3
  <1>5. ASSUME NEW s \in SUBSET S
        PROVE  f[s] = IF s = {} THEN 0 ELSE BlockSize(d[c(s)]) + f[s \ {c(s)}]
    <2> HIDE DEF f, c
    <2> QED BY <1>4
  <1> HIDE DEF f, c
  <1>6. {s \in SUBSET S : f[s] # Cardinality(Units(s, w, b))} = {}
    <2> DEFINE Bad == {s \in SUBSET S : f[s] # Cardinality(Units(s, w, b))}
    <2> SUFFICES ASSUME Bad # {} PROVE FALSE
      OBVIOUS
    <2>1. Bad \subseteq FiniteSubsetsOf(S)
      <3>1. \A s \in SUBSET S : IsFiniteSet(s)
        BY FS_Subset
      <3> QED BY <3>1 DEF FiniteSubsetsOf
    <2>2. PICK s \in Bad : \A t \in Bad : ~(<<t, s>> \in StrictSubsetOrdering(S))
      <3> HIDE DEF Bad
      <3> QED BY <2>1, FS_StrictSubsetOrderingWellFounded, WFMin
    <2>3. CASE s = {}
      BY <1>5, <2>3, UnitsEmpty
    <2>4. CASE s # {}
      <3> DEFINE t == s \ {c(s)}
      <3>1. c(s) \in s /\ t \in SUBSET S /\ t # s
        BY <1>2, <2>4
      <3>2. <<t, s>> \in StrictSubsetOrdering(S)
        BY <3>1 DEF StrictSubsetOrdering
      <3>3. f[t] = Cardinality(Units(t, w, b))
        BY <2>2, <3>1, <3>2
      <3> QED BY <1>2, <1>5, <2>4, <3>3
    <2> QED BY <2>3, <2>4
  <1> QED BY <1>1, <1>6

\* Weights that agree on a set have the same units there.
LEMMA UnitsAgree ==
    ASSUME NEW S, NEW w, NEW w2, NEW b, \A n \in S : w[n] = w2[n]
    PROVE  Units(S, w, b) = Units(S, w2, b)
  BY DEF Units

-----------------------------------------------------------------------------
(* What is stored, as functions of data *)

\* No block is larger.
MaxBlock       == MEDIUM_MAX_SIZE + MaxLen
StoredOf(d)    == {n \in Nodes : d[n] # NULL}
\* The nodes stored in a bucket.
StoredAt(d, p) == {n \in Nodes : d[n] # NULL /\ Pos(n) = p}
Holding(d, v)  == {n \in StoredOf(d) : d[n] = v}
Total(d)       == Cardinality(Units(StoredOf(d), [n \in Nodes |-> BlockSize(d[n])], MaxBlock))

\* What data may be.
Contents == [Nodes -> Vals \cup {NULL}]

\* What is used of the bounds on lengths.
LEMMA MaxSize == MaxLen \in Nat /\ MEDIUM_MAX_SIZE \in Nat /\ MaxBlock \in Nat
  BY KeyValueAssumption DEF MEDIUM_MAX_SIZE, MaxBlock

\* The largest size is far away.
LEMMA MaxSteps == \A q \in 1 .. 64 : 16 * q <= MEDIUM_MAX_SIZE /\ 1024 * q <= MEDIUM_MAX_SIZE
  BY SMTT(30) DEF MEDIUM_MAX_SIZE

\* Lengths fit in 64 units.
LEMMA LengthSteps == \A l \in 1 .. MEDIUM_MAX_SIZE : 1 <= l /\ l <= 64 * 1024
  BY SMTT(30) DEF MEDIUM_MAX_SIZE

\* The data once h holds v.
With(d, h, v) == [d EXCEPT ![h] = v]

\* The class of a length that has one: it holds it, and is larger by less than a step.
LEMMA ClassFacts ==
    ASSUME NEW l \in 1 .. MEDIUM_MAX_SIZE
    PROVE  /\ ChunkSize(mem_pool_get_set_by_size(l)) \in 1 .. MEDIUM_MAX_SIZE
           /\ l <= ChunkSize(mem_pool_get_set_by_size(l))
           /\ ChunkSize(mem_pool_get_set_by_size(l)) - l <= MEDIUM_STEP
  <1>1. CASE l <= TINY_MAX_SIZE
    <2>1. PICK q \in Int : q = (l + 15) \div 16
      OBVIOUS
    <2>2. 16 * q <= l + 15 /\ l + 15 < 16 * q + 16 /\ l \in 1 .. 1024
      BY <1>1, <2>1, LengthSteps DEF TINY_MAX_SIZE
    <2>3. (q * 16) \div 16 = q /\ q \in 1 .. 64
      BY <2>2
    <2>4. mem_pool_get_set_by_size(l) = q - 1
      BY <1>1, <2>1, <2>3 DEF mem_pool_get_set_by_size, mem_align_size, TINY_MIN_SIZE
    <2>5. ChunkSize(q - 1) = 16 * q
      BY <2>3 DEF ChunkSize, TINY_MIN_SIZE, TINY_STEP, SET_BOUNDARY
    <2>6. 1 <= 16 * q /\ l <= 16 * q /\ 16 * q - l <= 1024
      BY <2>2, <2>3
    <2>7. 16 * q <= MEDIUM_MAX_SIZE
      BY <2>3, MaxSteps
    <2>8. 16 * q \in 1 .. MEDIUM_MAX_SIZE
      BY <2>6, <2>7, MaxSize
    <2>9. 16 * q - l <= MEDIUM_STEP
      BY <2>6 DEF MEDIUM_STEP
    <2> QED BY <2>4, <2>5, <2>6, <2>8, <2>9
  <1>2. CASE ~(l <= TINY_MAX_SIZE)
    <2>1. PICK q \in Int : q = (l + 1023) \div 1024
      OBVIOUS
    <2>2. 1024 * q <= l + 1023 /\ l + 1023 < 1024 * q + 1024 /\ 1025 <= l /\ l <= 64 * 1024
      BY <1>2, <2>1, LengthSteps DEF TINY_MAX_SIZE
    <2>3. (q * 1024) \div 1024 = q /\ q \in 2 .. 64
      BY <2>2
    <2>4. mem_pool_get_set_by_size(l) = q + 62
      BY <1>2, <2>1, <2>3 DEF mem_pool_get_set_by_size, mem_align_size, TINY_MAX_SIZE
    <2>5. ChunkSize(q + 62) = 1024 * q
      BY <2>3 DEF ChunkSize, MEDIUM_MIN_SIZE, MEDIUM_STEP, SET_BOUNDARY
    <2>6. 1 <= 1024 * q /\ l <= 1024 * q /\ 1024 * q - l <= 1024
      BY <2>2, <2>3
    <2>7. 1024 * q <= MEDIUM_MAX_SIZE
      BY <2>3, MaxSteps
    <2>8. 1024 * q \in 1 .. MEDIUM_MAX_SIZE
      BY <2>6, <2>7, MaxSize
    <2>9. 1024 * q - l <= MEDIUM_STEP
      BY <2>6 DEF MEDIUM_STEP
    <2> QED BY <2>4, <2>5, <2>6, <2>8, <2>9
  <1> QED BY <1>1, <1>2

\* The block of a value holds it, and is larger by less than a step.
LEMMA BlockSizeFacts ==
    ASSUME NEW v \in Vals
    PROVE  /\ BlockSize(v) \in 1 .. MaxBlock
           /\ ValLen[v] \in Nat /\ ValLen[v] <= BlockSize(v)
           /\ BlockSize(v) - ValLen[v] <= MEDIUM_STEP
  <1>1. PICK l \in 1 .. MaxLen : l = ValLen[v]
    BY KeyValueAssumption
  <1>2. CASE l <= MEDIUM_MAX_SIZE
    <2>1. l \in 1 .. MEDIUM_MAX_SIZE /\ BlockSize(v) = ChunkSize(mem_pool_get_set_by_size(l))
      BY <1>1, <1>2, MaxSize DEF BlockSize, Pooled
    <2> QED BY <1>1, <2>1, ClassFacts, MaxSize DEF MaxBlock
  <1>3. CASE ~(l <= MEDIUM_MAX_SIZE)
    <2>1. BlockSize(v) = l
      BY <1>1, <1>3 DEF BlockSize, Pooled
    <2>2. l - l <= MEDIUM_STEP
      BY DEF MEDIUM_STEP
    <2> QED BY <1>1, <2>1, <2>2, MaxSize DEF MaxBlock
  <1> QED BY <1>2, <1>3

\* A node is stored.
LEMMA StoreNew ==
    ASSUME NEW d \in Contents, IsFiniteSet(StoredOf(d)),
           NEW h \in Nodes, d[h] = NULL, NEW v \in Vals
    PROVE  LET e == With(d, h, v) IN
           /\ e \in Contents /\ StoredOf(e) = StoredOf(d) \cup {h} /\ IsFiniteSet(StoredOf(e))
           /\ Cardinality(StoredOf(e)) = Cardinality(StoredOf(d)) + 1
           /\ Total(e) = Total(d) + BlockSize(v)
           /\ \A u \in Vals : Cardinality(Holding(e, u)) = Cardinality(Holding(d, u)) + (IF u = v THEN 1 ELSE 0)
           /\ \A p : StoredAt(e, p) = IF p = Pos(h) THEN StoredAt(d, p) \cup {h} ELSE StoredAt(d, p)
  <1> DEFINE e == With(d, h, v)
             w == [n \in Nodes |-> BlockSize(d[n])]
             x == [n \in Nodes |-> BlockSize(e[n])]
             S == StoredOf(d)
  <1>1. /\ e \in Contents /\ e[h] = v /\ \A n \in Nodes : n # h => e[n] = d[n]
        /\ NULL \notin Vals
    BY KeyValueAssumption DEF Contents, With
  <1> HIDE DEF e
  <1>2. StoredOf(e) = S \cup {h} /\ h \notin S /\ S \subseteq Nodes
    BY <1>1 DEF StoredOf
  <1>3. /\ IsFiniteSet(StoredOf(e)) /\ Cardinality(StoredOf(e)) = Cardinality(S) + 1
    BY <1>2, FS_AddElement
  <1>4. Total(e) = Total(d) + BlockSize(v)
    <2>1. x[h] = BlockSize(v) /\ x[h] \in 0 .. MaxBlock /\ MaxBlock \in Nat
      <3>1. BlockSize(v) \in 1 .. MaxBlock
        BY BlockSizeFacts
      <3> QED BY <1>1, <3>1, MaxSize
    <2>2. \A n \in S : w[n] = x[n]
      BY <1>1, <1>2
    <2> HIDE DEF w, x, S
    <2>3. Cardinality(Units(S \cup {h}, x, MaxBlock)) = Cardinality(Units(S, x, MaxBlock)) + x[h]
      BY <1>2, <2>1, UnitsAdd DEF S
    <2>4. Units(S, w, MaxBlock) = Units(S, x, MaxBlock)
      BY <2>2, UnitsAgree
    <2> QED BY <1>2, <2>1, <2>3, <2>4 DEF Total, w, x, S
  <1>5. ASSUME NEW u \in Vals
        PROVE  Cardinality(Holding(e, u)) = Cardinality(Holding(d, u)) + (IF u = v THEN 1 ELSE 0)
    <2>1. IsFiniteSet(Holding(d, u))
      <3>1. Holding(d, u) \in SUBSET S
        BY DEF Holding
      <3> QED BY <3>1, FS_Subset
    <2>2. Cardinality(Holding(d, u)) \in Nat
      BY <2>1, FS_CardinalityType
    <2>3. Holding(e, u) = IF u = v THEN Holding(d, u) \cup {h} ELSE Holding(d, u)
      BY <1>1, <1>2 DEF Holding
    <2>4. h \notin Holding(d, u)
      BY <1>2 DEF Holding
    <2>5. CASE u = v
      <3>1. Cardinality(Holding(d, u) \cup {h}) = Cardinality(Holding(d, u)) + 1
        BY <2>1, <2>4, FS_AddElement
      <3> QED BY <2>3, <2>5, <3>1
    <2>6. CASE u # v
      BY <2>2, <2>3, <2>6
    <2> QED BY <2>5, <2>6
  <1>6. ASSUME NEW p
        PROVE  StoredAt(e, p) = IF p = Pos(h) THEN StoredAt(d, p) \cup {h} ELSE StoredAt(d, p)
    BY <1>1 DEF StoredAt
  <1> QED BY <1>1, <1>2, <1>3, <1>4, <1>5, <1>6 DEF e

\* A stored node is freed.
LEMMA StoreGone ==
    ASSUME NEW d \in Contents, IsFiniteSet(StoredOf(d)),
           NEW h \in StoredOf(d)
    PROVE  LET e == With(d, h, NULL) IN
           /\ e \in Contents /\ StoredOf(e) = StoredOf(d) \ {h} /\ IsFiniteSet(StoredOf(e))
           /\ d[h] \in Vals /\ e[h] = NULL
           /\ Cardinality(StoredOf(e)) = Cardinality(StoredOf(d)) - 1
           /\ Total(e) = Total(d) - BlockSize(d[h])
           /\ \A u \in Vals : Cardinality(Holding(e, u)) = Cardinality(Holding(d, u)) - (IF u = d[h] THEN 1 ELSE 0)
           /\ \A p : StoredAt(e, p) = IF p = Pos(h) THEN StoredAt(d, p) \ {h} ELSE StoredAt(d, p)
  <1> DEFINE e == With(d, h, NULL)
  <1>1. /\ e \in Contents /\ e[h] = NULL /\ h \in Nodes /\ d[h] \in Vals
        /\ d = With(e, h, d[h]) /\ \A n \in Nodes : n # h => e[n] = d[n]
    BY DEF Contents, StoredOf, With
  <1> HIDE DEF e
  <1>2. StoredOf(e) = StoredOf(d) \ {h}
    BY <1>1 DEF Contents, StoredOf
  <1>3. IsFiniteSet(StoredOf(e))
    BY <1>2, FS_RemoveElement
  <1>4. /\ Cardinality(StoredOf(d)) = Cardinality(StoredOf(e)) + 1
        /\ Total(d) = Total(e) + BlockSize(d[h])
        /\ \A u \in Vals : Cardinality(Holding(d, u)) = Cardinality(Holding(e, u)) + (IF u = d[h] THEN 1 ELSE 0)
    <2>1. PICK v \in Vals : v = d[h]
      BY <1>1
    <2>2. d = With(e, h, v)
      BY <1>1, <2>1
    <2>3. /\ Cardinality(StoredOf(d)) = Cardinality(StoredOf(e)) + 1
          /\ Total(d) = Total(e) + BlockSize(v)
      BY <1>1, <1>3, <2>2, StoreNew
    <2>4. \A u \in Vals : Cardinality(Holding(d, u)) = Cardinality(Holding(e, u)) + (IF u = v THEN 1 ELSE 0)
      BY <1>1, <1>3, <2>2, StoreNew
    <2> QED BY <2>1, <2>3, <2>4
  <1>5. Cardinality(StoredOf(e)) \in Nat
    BY <1>3, FS_CardinalityType
  <1>6. Total(e) \in Nat /\ BlockSize(d[h]) \in Nat
    <2>1. BlockSize(d[h]) \in 1 .. MaxBlock /\ MaxBlock \in Nat
      BY <1>1, BlockSizeFacts, MaxSize
    <2> QED BY <1>3, <2>1, UnitsFinite DEF Total
  <1>7. ASSUME NEW u \in Vals PROVE Cardinality(Holding(e, u)) \in Nat
    <2>1. Holding(e, u) \in SUBSET StoredOf(e)
      BY DEF Holding
    <2> QED BY <1>3, <2>1, FS_Subset, FS_CardinalityType
  <1>8. ASSUME NEW p
        PROVE  StoredAt(e, p) = IF p = Pos(h) THEN StoredAt(d, p) \ {h} ELSE StoredAt(d, p)
    BY <1>1 DEF StoredAt, Contents
  <1>9. Cardinality(StoredOf(e)) = Cardinality(StoredOf(d)) - 1
    BY <1>4, <1>5
  <1>10. Total(e) = Total(d) - BlockSize(d[h])
    BY <1>4, <1>6
  <1>11. ASSUME NEW u \in Vals
         PROVE  Cardinality(Holding(e, u)) = Cardinality(Holding(d, u)) - (IF u = d[h] THEN 1 ELSE 0)
    <2>1. PICK a \in Nat : a = Cardinality(Holding(e, u))
      BY <1>7
    <2>2. Cardinality(Holding(d, u)) = a + (IF u = d[h] THEN 1 ELSE 0)
      BY <1>4, <2>1
    <2> QED BY <2>1, <2>2
  <1> QED BY <1>1, <1>2, <1>3, <1>8, <1>9, <1>10, <1>11 DEF e

\* A stored node takes another value.
LEMMA StoreOver ==
    ASSUME NEW d \in Contents, IsFiniteSet(StoredOf(d)),
           NEW h \in StoredOf(d), NEW v \in Vals
    PROVE  LET e == With(d, h, v) IN
           /\ e \in Contents /\ StoredOf(e) = StoredOf(d) /\ d[h] \in Vals
           /\ Total(e) + BlockSize(d[h]) = Total(d) + BlockSize(v)
           /\ \A u \in Vals : Cardinality(Holding(e, u)) + (IF u = d[h] THEN 1 ELSE 0)
                                 = Cardinality(Holding(d, u)) + (IF u = v THEN 1 ELSE 0)
           /\ \A p : StoredAt(e, p) = StoredAt(d, p)
  <1> DEFINE m == With(d, h, NULL)
             e == With(d, h, v)
  <1>1. /\ h \in Nodes /\ d[h] \in Vals /\ e \in Contents
        /\ \A n \in Nodes : n # h => e[n] = d[n] /\ e[h] = v /\ v # NULL
    BY KeyValueAssumption DEF Contents, StoredOf, With
  <1>2. e = With(m, h, v) /\ m \in Contents /\ m[h] = NULL
    BY DEF Contents, StoredOf, With
  <1> HIDE DEF m, e
  <1>3. /\ StoredOf(m) = StoredOf(d) \ {h} /\ IsFiniteSet(StoredOf(m))
        /\ Total(m) = Total(d) - BlockSize(d[h])
        /\ \A u \in Vals : Cardinality(Holding(m, u)) = Cardinality(Holding(d, u)) - (IF u = d[h] THEN 1 ELSE 0)
    BY StoreGone DEF m
  <1>4. /\ Total(e) = Total(m) + BlockSize(v)
        /\ \A u \in Vals : Cardinality(Holding(e, u)) = Cardinality(Holding(m, u)) + (IF u = v THEN 1 ELSE 0)
    BY <1>1, <1>2, <1>3, StoreNew
  <1>5. StoredOf(e) = StoredOf(d) /\ \A p : StoredAt(e, p) = StoredAt(d, p)
    BY <1>1, KeyValueAssumption DEF StoredOf, StoredAt, With, e, Contents
  <1>6. Total(d) \in Nat /\ BlockSize(d[h]) \in Nat /\ BlockSize(v) \in Nat
    BY <1>1, MaxSize, BlockSizeFacts, UnitsFinite DEF Total
  <1>7. ASSUME NEW u \in Vals PROVE Cardinality(Holding(d, u)) \in Nat
    <2>1. Holding(d, u) \in SUBSET StoredOf(d)
      BY DEF Holding
    <2> QED BY <2>1, FS_Subset, FS_CardinalityType
  <1>8. Total(e) + BlockSize(d[h]) = Total(d) + BlockSize(v)
    BY <1>3, <1>4, <1>6
  <1>9. ASSUME NEW u \in Vals
        PROVE  Cardinality(Holding(e, u)) + (IF u = d[h] THEN 1 ELSE 0)
                  = Cardinality(Holding(d, u)) + (IF u = v THEN 1 ELSE 0)
    <2>1. PICK a \in Nat : a = Cardinality(Holding(d, u))
      BY <1>7
    <2>2. Cardinality(Holding(m, u)) = a - (IF u = d[h] THEN 1 ELSE 0)
      BY <1>3, <2>1
    <2>3. Cardinality(Holding(e, u)) = (a - (IF u = d[h] THEN 1 ELSE 0)) + (IF u = v THEN 1 ELSE 0)
      BY <1>4, <2>2
    <2> QED BY <2>1, <2>3
  <1> QED BY <1>1, <1>5, <1>8, <1>9 DEF e

-----------------------------------------------------------------------------
(* Positions, and the budget's slack *)

\* Every hash has a bucket.
LEMMA PosFacts ==
    /\ \A n \in Nodes : n \in Nat /\ Pos(n) \in Positions
    /\ \A k \in Keys : Hash[k] \in Nodes /\ Pos(Hash[k]) \in Positions
    /\ 0 \in Positions
  <1>1. \A n \in Nodes : n \in Nat /\ Pos(n) \in Positions
    BY KeyValueAssumption DEF Pos, Positions
  <1>2. \A k \in Keys : Hash[k] \in Nodes
    BY KeyValueAssumption
  <1>3. 0 \in Positions
    BY KeyValueAssumption DEF Positions
  <1> QED BY <1>1, <1>2, <1>3

\* A set of integers that has a bound has a greatest member, which is its Max.
LEMMA MaxIsGreatest ==
    ASSUME NEW S \in SUBSET Int, S # {}, NEW b \in Int, \A x \in S : x <= b
    PROVE  Max(S) \in S /\ \A x \in S : x <= Max(S)
  <1> DEFINE D == {n \in Nat : \E x \in S : n = b - x}
  <1>0. \A x \in S : b - x \in D
    OBVIOUS
  <1>1. D \in SUBSET Nat /\ D # {}
    BY <1>0
  <1>2. PICK d \in D : \A e \in D : d <= e
    BY <1>1, LeastNatural
  <1>3. PICK m \in S : d = b - m
    OBVIOUS
  <1>4. \A x \in S : m >= x
    <2> TAKE x \in S
    <2>1. b - x \in D
      BY <1>0
    <2>2. b - m <= b - x
      BY <2>1, <1>2, <1>3
    <2> QED BY <2>2
  <1>5. \A y \in S : Max(S) >= y /\ Max(S) \in S
    BY <1>4 DEF Max
  <1> QED BY <1>4, <1>5 DEF Max

\* By how much the size of a block may exceed what the budget was checked with.
Slack == Max({BlockSize(v) - ValLen[v] : v \in Vals} \cup {0})

\* It bounds what a block has to spare.
LEMMA SlackFacts ==
    Slack \in Nat /\ \A v \in Vals : BlockSize(v) <= ValLen[v] + Slack
  <1> DEFINE S == {BlockSize(v) - ValLen[v] : v \in Vals} \cup {0}
  <1>1. ASSUME NEW v \in Vals
        PROVE  /\ BlockSize(v) \in Int /\ ValLen[v] \in Int
               /\ BlockSize(v) - ValLen[v] \in Int /\ BlockSize(v) - ValLen[v] <= 1024
    BY BlockSizeFacts, MaxSize DEF MEDIUM_STEP
  <1>2. S \in SUBSET Int /\ S # {} /\ 0 \in S /\ \A x \in S : x <= 1024
    BY <1>1
  <1>3. ASSUME NEW v \in Vals PROVE BlockSize(v) - ValLen[v] \in S
    OBVIOUS
  <1>4. Slack = Max(S)
    BY DEF Slack
  <1> HIDE DEF S
  <1>5. Max(S) \in S /\ \A x \in S : x <= Max(S)
    <2>1. PICK b \in Int : b = 1024
      OBVIOUS
    <2>2. \A x \in S : x <= b
      BY <1>2, <2>1
    <2>3. S \in SUBSET Int /\ S # {}
      BY <1>2, SMTT(30)
    <2> QED BY <2>2, <2>3, MaxIsGreatest
  <1>6. Slack \in Nat
    <2>1. Slack \in Int /\ 0 <= Slack
      BY <1>2, <1>4, <1>5
    <2> QED BY <2>1
  <1> QED BY <1>1, <1>3, <1>4, <1>5, <1>6

-----------------------------------------------------------------------------
(* The inductive invariant *)

\* The bucket of the call, and whether there is a call.
Here == Pos(Hash[key])
Calling == pc \in {"data", "insert", "descend", "balance", "account"}

\* The node a round of the rebalancing is at may be red under a red one.
Odd(p) == IF pc = "balance" /\ p = Here THEN cur ELSE NULL

\* Until it is destroyed, every bucket is a tree of the nodes stored in it.
TreesInv ==
    ~Destroyed => \A p \in Positions :
        /\ HasShape(table[p], StoredAt(data, p))
        /\ HasColors(table[p], StoredAt(data, p), Odd(p))

\* The arguments of a call, its budget, and where it is in the tree.
CallInv ==
    /\ Calling => key \in Keys /\ val \in Vals /\ used_memory + ValLen[val] <= MaxMemory
    /\ ~Calling => key = NULL /\ val = NULL
    /\ pc # "account" => old = NULL
    /\ pc = "descend" => /\ cur \in StoredAt(data, Here)
                         /\ HasPath(table[Here], StoredAt(data, Here), Hash[key], cur)
    /\ pc = "balance" => cur \in StoredAt(data, Here) /\ IsRed(table[Here], cur)

\* Buckets before pos are empty and those after it whole.
DestroyInv ==
    /\ pc = "destroy" =>
          /\ \A p \in Positions : /\ p > pos => HasShape(table[p], StoredAt(data, p))
                                  /\ p < pos => StoredAt(data, p) = {}
          /\ \/ cur \in StoredAt(data, pos) /\ HasShape(table[pos], StoredAt(data, pos))
             \/ cur \notin Nodes /\ StoredAt(data, pos) = {}
    /\ pc = "destroyed" => StoredOf(data) = {}

\* What the pool has given out: one node and one block for each that is stored, and
\* those the call holds.
BlocksInv ==
    /\ IsFiniteSet(StoredOf(data))
    /\ nodes_out = Cardinality(StoredOf(data))
                     + (IF pc \in {"data", "insert", "descend"} THEN 1 ELSE 0)
                     + (IF old # NULL THEN 1 ELSE 0)
    /\ \A v \in Vals :
          data_out[v] = Cardinality(Holding(data, v))
                          + (IF pc \in {"insert", "descend"} /\ val = v THEN 1 ELSE 0)
                          + (IF old = v THEN 1 ELSE 0)

\* What is counted and charged: what is stored, but for the change a call has made
\* and not accounted for yet.
AccountInv ==
    /\ ~Destroyed =>
          /\ count + (IF pc = "balance" \/ (pc = "account" /\ old = NULL) THEN 1 ELSE 0)
                = Cardinality(StoredOf(data))
          /\ used_memory + (IF pc \in {"balance", "account"} THEN BlockSize(val) ELSE 0)
                = Total(data) + (IF old # NULL THEN BlockSize(old) ELSE 0)
    /\ used_memory <= MaxMemory + Slack

\* The inductive invariant.
Inv == TypeOK /\ TreesInv /\ CallInv /\ DestroyInv /\ BlocksInv /\ AccountInv

\* An empty store satisfies it.
LEMMA InitInv == Init => Inv
  <1> SUFFICES ASSUME Init PROVE Inv
    OBVIOUS
  <1> USE DEF Init
  <1>1. HasShape(Empty, {}) /\ HasColors(Empty, {}, NULL) /\ Empty \in Trees
    BY EmptyTree, ShapeFacts
  <1>2. StoredOf(data) = {} /\ \A p : StoredAt(data, p) = {}
    BY DEF StoredOf, StoredAt
  <1>3. \A v : Holding(data, v) = {}
    BY <1>2 DEF Holding
  <1>4. Total(data) = 0
    BY <1>2, UnitsEmpty DEF Total
  <1>5. TypeOK
    BY <1>1, KeyValueAssumption DEF TypeOK, Positions
  <1>6. TreesInv
    BY <1>1, <1>2 DEF TreesInv, Odd
  <1>7. CallInv /\ DestroyInv
    BY DEF CallInv, DestroyInv, Calling
  <1>8. BlocksInv
    <2>1. \A v \in Vals : data_out[v] = 0 /\ Cardinality(Holding(data, v)) = 0 /\ old # v
      BY <1>3, FS_EmptySet, KeyValueAssumption
    <2>2. IsFiniteSet(StoredOf(data)) /\ Cardinality(StoredOf(data)) = 0
      BY <1>2, FS_EmptySet
    <2> QED BY <2>1, <2>2 DEF BlocksInv
  <1>9. AccountInv
    <2>1. Cardinality(StoredOf(data)) = 0
      BY <1>2, FS_EmptySet
    <2>2. 0 <= MaxMemory + Slack
      BY SlackFacts, KeyValueAssumption
    <2> QED BY <1>4, <2>1, <2>2 DEF AccountInv
  <1> QED BY <1>5, <1>6, <1>7, <1>8, <1>9 DEF Inv

\* What is on the shelves does not change with the other variables.
LEMMA StutterInv == Inv /\ UNCHANGED vars => Inv'
  <1> SUFFICES ASSUME Inv, UNCHANGED vars PROVE Inv'
    OBVIOUS
  <1> USE DEF vars, storeVars, callVars
  <1>1. TypeOK'
    BY DEF Inv, TypeOK
  <1>2. TreesInv'
    BY DEF Inv, TreesInv, Odd, Here, Destroyed
  <1>3. CallInv'
    BY DEF Inv, CallInv, Calling, Here
  <1>4. DestroyInv'
    BY DEF Inv, DestroyInv
  <1>5. BlocksInv'
    BY DEF Inv, BlocksInv
  <1>6. AccountInv'
    BY DEF Inv, AccountInv, Destroyed
  <1> QED BY <1>1, <1>2, <1>3, <1>4, <1>5, <1>6 DEF Inv

-----------------------------------------------------------------------------
(* Its steps *)

\* The counts are natural numbers.
LEMMA CountsAreNatural ==
    ASSUME IsFiniteSet(StoredOf(data))
    PROVE  /\ Cardinality(StoredOf(data)) \in Nat /\ Total(data) \in Nat
           /\ \A v : Cardinality(Holding(data, v)) \in Nat
  <1>1. Cardinality(StoredOf(data)) \in Nat
    BY FS_CardinalityType
  <1>2. Total(data) \in Nat
    BY MaxSize, UnitsFinite DEF Total
  <1>3. ASSUME NEW v PROVE Cardinality(Holding(data, v)) \in Nat
    <2>1. Holding(data, v) \in SUBSET StoredOf(data)
      BY DEF Holding
    <2> QED BY <2>1, FS_Subset, FS_CardinalityType
  <1> QED BY <1>1, <1>2, <1>3

\* A call that fits the budget begins.
LEMMA SetInv ==
    ASSUME Inv, NEW k \in Keys, NEW v \in ValsOf[k], Set(k, v)
    PROVE  Inv'
  <1> USE DEF Set, storeVars, Goto
  <1>1. v \in Vals
    BY KeyValueAssumption
  <1>2. TypeOK'
    BY <1>1 DEF Inv, TypeOK
  <1>3. TreesInv'
    BY DEF Inv, TreesInv, Odd, Destroyed
  <1>4. CallInv'
    <2>1. used_memory + ValLen[v] <= MaxMemory
      <3>1. used_memory \in Nat /\ ValLen[v] \in Nat /\ MaxMemory \in Nat
        BY <1>1, BlockSizeFacts, KeyValueAssumption DEF Inv, TypeOK
      <3> QED BY <3>1 DEF OverBudget
    <2> QED BY <1>1, <2>1 DEF Inv, CallInv, Calling
  <1>5. DestroyInv'
    BY DEF DestroyInv
  <1>6. BlocksInv'
    <2>1. old = NULL
      BY DEF Inv, CallInv
    <2>2. Cardinality(StoredOf(data)) \in Nat
      BY CountsAreNatural DEF Inv, BlocksInv
    <2> QED BY <2>1, <2>2 DEF Inv, BlocksInv
  <1>7. AccountInv'
    BY DEF Inv, AccountInv, Destroyed
  <1> QED BY <1>2, <1>3, <1>4, <1>5, <1>6, <1>7 DEF Inv

\* It fails and gives its node back.
LEMMA NoDataInv ==
    ASSUME Inv, NoData
    PROVE  Inv'
  <1> USE DEF NoData, storeVars, Goto
  <1>1. old = NULL
    BY DEF Inv, CallInv
  <1>2. Cardinality(StoredOf(data)) \in Nat
    BY CountsAreNatural DEF Inv, BlocksInv
  <1>3. nodes_out' = Cardinality(StoredOf(data))
    BY <1>1, <1>2 DEF Inv, BlocksInv
  <1>4. TypeOK'
    BY <1>2, <1>3 DEF Inv, TypeOK
  <1>5. TreesInv'
    BY DEF Inv, TreesInv, Odd, Destroyed
  <1>6. CallInv'
    BY <1>1 DEF CallInv, Calling
  <1>7. DestroyInv'
    BY DEF DestroyInv
  <1>8. BlocksInv'
    BY <1>1, <1>2, <1>3 DEF Inv, BlocksInv
  <1>9. AccountInv'
    BY DEF Inv, AccountInv, Destroyed
  <1> QED BY <1>4, <1>5, <1>6, <1>7, <1>8, <1>9 DEF Inv

\* Its node and its block are out.
LEMMA GetDataInv ==
    ASSUME Inv, GetData
    PROVE  Inv'
  <1> USE DEF GetData, storeVars, callVars, Goto
  <1>1. val \in Vals /\ key \in Keys /\ used_memory + ValLen[val] <= MaxMemory /\ old = NULL
    BY DEF Inv, CallInv, Calling
  <1>2. data_out \in [Vals -> Nat]
    BY DEF Inv, TypeOK
  <1>3. TypeOK'
    BY <1>1 DEF Inv, TypeOK
  <1>4. TreesInv'
    BY DEF Inv, TreesInv, Odd, Destroyed
  <1>5. CallInv'
    BY <1>1 DEF CallInv, Calling
  <1>6. DestroyInv'
    BY DEF DestroyInv
  <1>7. BlocksInv'
    <2>1. ASSUME NEW v \in Vals
          PROVE  data_out'[v] = Cardinality(Holding(data, v)) + (IF val = v THEN 1 ELSE 0) + 0
      <3>1. Cardinality(Holding(data, v)) \in Nat /\ data_out[v] = Cardinality(Holding(data, v))
        BY <1>1, CountsAreNatural, KeyValueAssumption DEF Inv, BlocksInv
      <3>2. data_out'[v] = data_out[v] + (IF val = v THEN 1 ELSE 0)
        BY <1>1, <1>2
      <3> QED BY <3>1, <3>2
    <2>2. \A v \in Vals : old # v
      BY <1>1, KeyValueAssumption
    <2> QED BY <2>1, <2>2 DEF Inv, BlocksInv
  <1>8. AccountInv'
    BY DEF Inv, AccountInv, Destroyed
  <1> QED BY <1>3, <1>4, <1>5, <1>6, <1>7, <1>8 DEF Inv

\* The walk begins at the root, and goes down.
LEMMA InsertBelowInv ==
    ASSUME Inv, InsertBelow
    PROVE  Inv'
  <1> USE DEF InsertBelow, storeVars, callVars, Goto
  <1>1. key \in Keys /\ Here \in Positions
    BY PosFacts DEF Inv, CallInv, Calling, Here
  <1>2. HasShape(table[Here], StoredAt(data, Here)) /\ table[Here].root # SENTINEL
    BY <1>1 DEF Inv, TreesInv, Destroyed, Tree, Here
  <1>3. /\ cur' \in StoredAt(data, Here) /\ HasPath(table[Here], StoredAt(data, Here), Hash[key], cur')
    BY <1>2, WalkStarts DEF Tree, Here
  <1>4. TypeOK'
    BY <1>3 DEF Inv, TypeOK, StoredAt
  <1>5. TreesInv'
    BY DEF Inv, TreesInv, Odd, Destroyed
  <1>6. CallInv'
    BY <1>3 DEF Inv, CallInv, Calling, Here
  <1>7. DestroyInv'
    BY DEF DestroyInv
  <1>8. BlocksInv'
    BY DEF Inv, BlocksInv
  <1>9. AccountInv'
    BY DEF Inv, AccountInv, Destroyed
  <1> QED BY <1>4, <1>5, <1>6, <1>7, <1>8, <1>9 DEF Inv

\* One step of the walk down to a leaf.
LEMMA DescendInv ==
    ASSUME Inv, Descend
    PROVE  Inv'
  <1> USE DEF Descend, storeVars, callVars
  <1>1. key \in Keys /\ Hash[key] \in Nodes /\ Here \in Positions
    BY PosFacts DEF Inv, CallInv, Calling, Here
  <1>2. /\ cur \in StoredAt(data, Here) /\ cur # Hash[key]
        /\ HasPath(table[Here], StoredAt(data, Here), Hash[key], cur)
        /\ cur' = table[Here].child[Toward(Hash[key], cur)][cur] /\ cur' # SENTINEL
    BY DEF Inv, CallInv, NextNode, Tree, Here
  <1>3. /\ cur' \in StoredAt(data, Here) /\ HasPath(table[Here], StoredAt(data, Here), Hash[key], cur')
    BY <1>1, <1>2, WalkGoesOn
  <1>4. TypeOK'
    BY <1>3 DEF Inv, TypeOK, StoredAt
  <1>5. TreesInv'
    BY DEF Inv, TreesInv, Odd, Destroyed
  <1>6. CallInv'
    BY <1>3 DEF Inv, CallInv, Calling, Here
  <1>7. DestroyInv'
    BY DEF DestroyInv
  <1>8. BlocksInv'
    BY DEF Inv, BlocksInv
  <1>9. AccountInv'
    BY DEF Inv, AccountInv, Destroyed
  <1> QED BY <1>4, <1>5, <1>6, <1>7, <1>8, <1>9 DEF Inv

\* A new node: from the node and the block in hand to the node in the tree.
LEMMA NewNodeCounts ==
    ASSUME Inv, pc \in {"insert", "descend"}, NEW h \in Nodes, data[h] = NULL,
           data' = With(data, h, val), pc' \in {"account", "balance"},
           UNCHANGED <<count, used_memory, nodes_out, data_out, key, val, old>>
    PROVE  BlocksInv' /\ AccountInv' /\ data' \in Contents
  <1>1. val \in Vals /\ old = NULL /\ ~Destroyed
    BY DEF Inv, CallInv, Calling, Destroyed
  <1>2. data \in Contents /\ IsFiniteSet(StoredOf(data))
    BY DEF Inv, TypeOK, Contents, BlocksInv
  <1>3. /\ data' \in Contents /\ IsFiniteSet(StoredOf(data'))
        /\ Cardinality(StoredOf(data')) = Cardinality(StoredOf(data)) + 1
        /\ Total(data') = Total(data) + BlockSize(val)
        /\ \A u \in Vals : Cardinality(Holding(data', u)) = Cardinality(Holding(data, u)) + (IF u = val THEN 1 ELSE 0)
    BY <1>1, <1>2, StoreNew
  <1>4. /\ Cardinality(StoredOf(data)) \in Nat /\ Total(data) \in Nat
        /\ \A v : Cardinality(Holding(data, v)) \in Nat
    BY <1>2, CountsAreNatural
  <1>5. BlocksInv'
    <2>1. nodes_out' = Cardinality(StoredOf(data')) + 0 + 0
      BY <1>1, <1>3, <1>4 DEF Inv, BlocksInv
    <2>2. ASSUME NEW v \in Vals
          PROVE  data_out'[v] = Cardinality(Holding(data', v)) + 0 + 0
      <3>1. data_out[v] = Cardinality(Holding(data, v)) + (IF val = v THEN 1 ELSE 0) + 0
        BY <1>1, KeyValueAssumption DEF Inv, BlocksInv
      <3>2. Cardinality(Holding(data', v)) = Cardinality(Holding(data, v)) + (IF v = val THEN 1 ELSE 0)
        BY <1>3
      <3>3. Cardinality(Holding(data, v)) \in Nat
        BY <1>4
      <3> QED BY <3>1, <3>2, <3>3
    <2>3. \A v \in Vals : old' # v
      BY <1>1, KeyValueAssumption
    <2> QED BY <1>1, <1>3, <2>1, <2>2, <2>3 DEF BlocksInv
  <1>6. AccountInv'
    <2>1. count = Cardinality(StoredOf(data)) /\ used_memory = Total(data) /\ used_memory <= MaxMemory + Slack
      <3>1. /\ count + 0 = Cardinality(StoredOf(data)) /\ used_memory + 0 = Total(data) + 0
            /\ used_memory <= MaxMemory + Slack
        BY <1>1 DEF Inv, AccountInv
      <3> QED BY <1>4, <3>1 DEF Inv, TypeOK
    <2>2. count' + 1 = Cardinality(StoredOf(data'))
      BY <1>3, <2>1
    <2>3. used_memory' + BlockSize(val') = Total(data') + 0
      BY <1>1, <1>3, <1>4, <2>1, BlockSizeFacts, MaxSize
    <2> QED BY <1>1, <2>1, <2>2, <2>3 DEF AccountInv
  <1> QED BY <1>3, <1>5, <1>6

\* One bucket is assigned.
LEMMA TableSet ==
    ASSUME TypeOK, NEW T \in Trees, Here \in Positions, table' = [table EXCEPT ![Here] = T]
    PROVE  /\ table' \in [Positions -> Trees]
           /\ table'[Here] = T /\ \A p \in Positions : p # Here => table'[p] = table[p]
  BY DEF TypeOK

\* The node is put in, as the root or as a leaf, and its value is stored.
LEMMA InsertRootInv ==
    ASSUME Inv, InsertRoot
    PROVE  Inv'
  <1> USE DEF InsertRoot, callVars, Goto
  <1> DEFINE h == Hash[key]
             S == StoredAt(data, Here)
             T == PlantRoot(table[Here], h)
  <1>1. key \in Keys /\ val \in Vals /\ h \in Nodes /\ Here \in Positions /\ Pos(h) = Here
        /\ used_memory + ValLen[val] <= MaxMemory /\ old = NULL
    BY PosFacts DEF Inv, CallInv, Calling, Here
  <1>2. HasShape(table[Here], S) /\ HasColors(table[Here], S, NULL) /\ table[Here].root = SENTINEL
    BY <1>1 DEF Inv, TreesInv, Destroyed, Tree, Here, Odd
  <1>3. S = {} /\ HasShape(T, {h}) /\ HasColors(T, {h}, NULL) /\ T \in Trees
    <2> HIDE DEF S
    <2> QED BY <1>1, <1>2, PlantTree, ShapeFacts
  <1>4. data[h] = NULL
    BY <1>1, <1>3 DEF StoredAt
  <1>5. data' = With(data, h, val) /\ table' = [table EXCEPT ![Here] = T]
    BY DEF With, SetTree, Tree, Here
  <1>6. /\ table' \in [Positions -> Trees]
        /\ table'[Here] = T /\ \A p \in Positions : p # Here => table'[p] = table[p]
    <2> HIDE DEF T
    <2> QED BY <1>1, <1>3, <1>5, TableSet DEF Inv
  <1>7. \A p : StoredAt(data', p) = IF p = Here THEN S \cup {h} ELSE StoredAt(data, p)
    <2> HIDE DEF h, S, T
    <2>1. data \in Contents /\ IsFiniteSet(StoredOf(data))
      BY DEF Inv, TypeOK, BlocksInv, Contents
    <2>2. \A p : StoredAt(With(data, h, val), p)
                 = IF p = Pos(h) THEN StoredAt(data, p) \cup {h} ELSE StoredAt(data, p)
      BY <1>1, <1>4, <2>1, StoreNew
    <2> QED BY <1>1, <1>5, <2>2 DEF S
  <1>8. BlocksInv' /\ AccountInv' /\ data' \in Contents
    <2> HIDE DEF h
    <2> QED BY <1>1, <1>4, <1>5, NewNodeCounts
  <1> HIDE DEF h, S, T
  <1>9. TypeOK'
    BY <1>1, <1>6, <1>8 DEF Inv, TypeOK, Contents
  <1>10. TreesInv'
    <2>1. ASSUME NEW p \in Positions
          PROVE  HasShape(table'[p], StoredAt(data', p)) /\ HasColors(table'[p], StoredAt(data', p), NULL)
      <3>1. CASE p = Here
        BY <1>3, <1>6, <1>7, <3>1
      <3>2. CASE p # Here
        BY <1>6, <1>7, <3>2 DEF Inv, TreesInv, Destroyed, Odd
      <3> QED BY <3>1, <3>2
    <2> QED BY <2>1 DEF TreesInv, Odd
  <1>11. CallInv'
    BY <1>1 DEF CallInv, Calling
  <1>12. DestroyInv'
    BY DEF DestroyInv
  <1> QED BY <1>8, <1>9, <1>10, <1>11, <1>12 DEF Inv

\* The new leaf is attached.
LEMMA AttachLeafInv ==
    ASSUME Inv, AttachLeaf
    PROVE  Inv'
  <1> USE DEF AttachLeaf, callVars, Goto
  <1> DEFINE h == Hash[key]
             S == StoredAt(data, Here)
             T == Attach(table[Here], h, cur)
  <1>1. key \in Keys /\ val \in Vals /\ h \in Nodes /\ Here \in Positions /\ Pos(h) = Here
        /\ used_memory + ValLen[val] <= MaxMemory /\ old = NULL
    BY PosFacts DEF Inv, CallInv, Calling, Here
  <1>2. /\ HasPath(table[Here], S, h, cur) /\ HasColors(table[Here], S, NULL) /\ cur \in S /\ cur # h
        /\ table[Here].child[Toward(h, cur)][cur] = SENTINEL
    BY <1>1 DEF Inv, TreesInv, CallInv, Destroyed, NextNode, Tree, Here, Odd
  <1>3. /\ h \notin S /\ HasShape(T, S \cup {h}) /\ HasColors(T, S \cup {h}, h) /\ IsRed(T, h)
        /\ T \in Trees
    <2> HIDE DEF S, h
    <2>1. h \notin S /\ HasShape(T, S \cup {h}) /\ HasColors(T, S \cup {h}, h) /\ IsRed(T, h)
      BY <1>1, <1>2, AttachTree
    <2> HIDE DEF T
    <2> QED BY <2>1, ShapeFacts
  <1>4. data[h] = NULL
    BY <1>1, <1>3 DEF StoredAt
  <1>5. data' = With(data, h, val) /\ table' = [table EXCEPT ![Here] = T] /\ cur' = h
    BY DEF With, SetTree, Tree, Here
  <1>6. /\ table' \in [Positions -> Trees]
        /\ table'[Here] = T /\ \A p \in Positions : p # Here => table'[p] = table[p]
    <2> HIDE DEF T
    <2> QED BY <1>1, <1>3, <1>5, TableSet DEF Inv
  <1>7. \A p : StoredAt(data', p) = IF p = Here THEN S \cup {h} ELSE StoredAt(data, p)
    <2> HIDE DEF h, S, T
    <2>1. data \in Contents /\ IsFiniteSet(StoredOf(data))
      BY DEF Inv, TypeOK, BlocksInv, Contents
    <2>2. \A p : StoredAt(With(data, h, val), p)
                 = IF p = Pos(h) THEN StoredAt(data, p) \cup {h} ELSE StoredAt(data, p)
      BY <1>1, <1>4, <2>1, StoreNew
    <2> QED BY <1>1, <1>5, <2>2 DEF S
  <1>8. BlocksInv' /\ AccountInv' /\ data' \in Contents
    <2> HIDE DEF h
    <2> QED BY <1>1, <1>4, <1>5, NewNodeCounts
  <1>9. Here' = Here
    BY DEF Here
  <1> HIDE DEF h, S, T
  <1>10. TypeOK'
    BY <1>1, <1>5, <1>6, <1>8 DEF Inv, TypeOK, Contents
  <1>11. TreesInv'
    <2>1. ASSUME NEW p \in Positions
          PROVE  /\ HasShape(table'[p], StoredAt(data', p))
                 /\ HasColors(table'[p], StoredAt(data', p), IF p = Here THEN h ELSE NULL)
      <3>1. CASE p = Here
        BY <1>3, <1>6, <1>7, <3>1
      <3>2. CASE p # Here
        BY <1>6, <1>7, <3>2 DEF Inv, TreesInv, Destroyed, Odd
      <3> QED BY <3>1, <3>2
    <2> QED BY <1>5, <1>9, <2>1 DEF TreesInv, Odd
  <1>12. CallInv'
    BY <1>1, <1>3, <1>5, <1>6, <1>7, <1>9 DEF CallInv, Calling
  <1>13. DestroyInv'
    BY DEF DestroyInv
  <1> QED BY <1>8, <1>10, <1>11, <1>12, <1>13 DEF Inv

\* The node that is found takes over the value, and the call has the old one.
LEMMA OverwriteInv ==
    ASSUME Inv, Overwrite
    PROVE  Inv'
  <1> USE DEF Overwrite, Goto
  <1>1. key \in Keys /\ val \in Vals /\ Here \in Positions
        /\ used_memory + ValLen[val] <= MaxMemory /\ old = NULL /\ ~Destroyed
        /\ cur \in StoredAt(data, Here)
    BY PosFacts DEF Inv, CallInv, Calling, Here, Destroyed
  <1>2. cur \in StoredOf(data) /\ data \in Contents /\ IsFiniteSet(StoredOf(data)) /\ data' = With(data, cur, val)
    BY <1>1 DEF StoredAt, StoredOf, With, Inv, TypeOK, BlocksInv, Contents
  <1>3. /\ data' \in Contents /\ StoredOf(data') = StoredOf(data) /\ data[cur] \in Vals
        /\ Total(data') + BlockSize(data[cur]) = Total(data) + BlockSize(val)
        /\ \A u \in Vals : Cardinality(Holding(data', u)) + (IF u = data[cur] THEN 1 ELSE 0)
                              = Cardinality(Holding(data, u)) + (IF u = val THEN 1 ELSE 0)
        /\ \A p : StoredAt(data', p) = StoredAt(data, p)
    <2> DEFINE e == With(data, cur, val)
    <2>1. e \in Contents /\ StoredOf(e) = StoredOf(data) /\ data[cur] \in Vals
      BY <1>1, <1>2, StoreOver
    <2>2. Total(e) + BlockSize(data[cur]) = Total(data) + BlockSize(val)
      BY <1>1, <1>2, StoreOver
    <2>3. \A u \in Vals : Cardinality(Holding(e, u)) + (IF u = data[cur] THEN 1 ELSE 0)
                           = Cardinality(Holding(data, u)) + (IF u = val THEN 1 ELSE 0)
      BY <1>1, <1>2, StoreOver
    <2>4. \A p : StoredAt(e, p) = StoredAt(data, p)
      BY <1>1, <1>2, StoreOver
    <2>5. e = data'
      BY <1>2
    <2> HIDE DEF e
    <2> QED BY <2>1, <2>2, <2>3, <2>4, <2>5
  <1>4. old' \in Vals /\ old' = data[cur] /\ old' # NULL
    BY <1>3, KeyValueAssumption
  <1>5. /\ Cardinality(StoredOf(data)) \in Nat /\ Total(data) \in Nat
        /\ \A v : Cardinality(Holding(data, v)) \in Nat
    BY <1>2, CountsAreNatural
  <1>6. TypeOK'
    BY <1>3, <1>4 DEF Inv, TypeOK, Contents
  <1>7. TreesInv'
    BY <1>3 DEF Inv, TreesInv, Destroyed, Odd
  <1>8. CallInv'
    BY <1>1 DEF CallInv, Calling
  <1>9. DestroyInv'
    BY DEF DestroyInv
  <1>10. BlocksInv'
    <2>1. nodes_out' = Cardinality(StoredOf(data')) + 0 + 1
      BY <1>1, <1>3, <1>5 DEF Inv, BlocksInv
    <2>2. ASSUME NEW v \in Vals
          PROVE  data_out'[v] = Cardinality(Holding(data', v)) + 0 + (IF old' = v THEN 1 ELSE 0)
      <3>1. data_out[v] = Cardinality(Holding(data, v)) + (IF val = v THEN 1 ELSE 0) + 0
        BY <1>1, KeyValueAssumption DEF Inv, BlocksInv
      <3>2. Cardinality(Holding(data', v)) + (IF v = data[cur] THEN 1 ELSE 0)
              = Cardinality(Holding(data, v)) + (IF v = val THEN 1 ELSE 0)
        BY <1>3
      <3>3. Cardinality(Holding(data, v)) \in Nat /\ Cardinality(Holding(data', v)) \in Nat
        BY <1>2, <1>3, <1>5, FS_Subset, FS_CardinalityType DEF Holding
      <3> QED BY <1>4, <3>1, <3>2, <3>3
    <2> QED BY <1>2, <1>3, <1>4, <2>1, <2>2 DEF BlocksInv
  <1>11. AccountInv'
    <2>1. count = Cardinality(StoredOf(data)) /\ used_memory = Total(data) /\ used_memory <= MaxMemory + Slack
      <3>1. /\ count + 0 = Cardinality(StoredOf(data)) /\ used_memory + 0 = Total(data) + 0
            /\ used_memory <= MaxMemory + Slack
        BY <1>1 DEF Inv, AccountInv
      <3> QED BY <1>5, <3>1 DEF Inv, TypeOK
    <2>2. count' + 0 = Cardinality(StoredOf(data'))
      BY <1>3, <1>5, <2>1
    <2>3. used_memory' + BlockSize(val') = Total(data') + BlockSize(old')
      BY <1>3, <1>4, <2>1
    <2> QED BY <1>4, <2>1, <2>2, <2>3 DEF AccountInv
  <1> QED BY <1>6, <1>7, <1>8, <1>9, <1>10, <1>11 DEF Inv

\* A round of the rebalancing changes the tree of one bucket, and what is stored in none.
LEMMA RoundInv ==
    ASSUME Inv, pc = "balance", NEW T, table' = [table EXCEPT ![Here] = T],
           HasShape(T, StoredAt(data, Here)), HasColors(T, StoredAt(data, Here), cur'),
           \/ pc' = "account" /\ cur' = NULL
           \/ pc' = "balance" /\ cur' \in StoredAt(data, Here) /\ IsRed(T, cur'),
           UNCHANGED <<links, data, count, used_memory, nodes_out, data_out, callVars, pos>>
    PROVE  Inv'
  <1> USE DEF callVars
  <1> DEFINE S == StoredAt(data, Here)
  <1>1. key \in Keys /\ val \in Vals /\ Here \in Positions /\ Here' = Here
        /\ used_memory + ValLen[val] <= MaxMemory /\ old = NULL /\ ~Destroyed
    BY PosFacts DEF Inv, CallInv, Calling, Here, Destroyed
  <1>2. T \in Trees
    BY ShapeFacts
  <1>3. /\ table' \in [Positions -> Trees]
        /\ table'[Here] = T /\ \A p \in Positions : p # Here => table'[p] = table[p]
    BY <1>1, <1>2, TableSet DEF Inv
  <1>4. TypeOK'
    BY <1>3 DEF Inv, TypeOK, StoredAt
  <1>5. TreesInv'
    <2>1. ASSUME NEW p \in Positions
          PROVE  /\ HasShape(table'[p], StoredAt(data, p))
                 /\ HasColors(table'[p], StoredAt(data, p), IF p = Here THEN cur' ELSE NULL)
      <3>1. CASE p = Here
        BY <1>3, <3>1
      <3>2. CASE p # Here
        BY <1>1, <1>3, <3>2 DEF Inv, TreesInv, Odd
      <3> QED BY <3>1, <3>2
    <2>2. \A p : Odd(p)' = IF p = Here THEN cur' ELSE NULL
      BY <1>1 DEF Odd
    <2> QED BY <2>1, <2>2 DEF TreesInv
  <1>6. CallInv'
    BY <1>1, <1>3 DEF CallInv, Calling
  <1>7. DestroyInv'
    BY DEF DestroyInv
  <1>8. BlocksInv'
    BY DEF Inv, BlocksInv
  <1>9. AccountInv'
    BY <1>1 DEF Inv, AccountInv, Destroyed
  <1> QED BY <1>4, <1>5, <1>6, <1>7, <1>8, <1>9 DEF Inv

\* What a round starts from.
LEMMA RoundFacts ==
    ASSUME Inv, pc = "balance"
    PROVE  /\ cur \in StoredAt(data, Here) /\ IsRed(Tree, cur) /\ Tree = table[Here]
           /\ HasShape(Tree, StoredAt(data, Here)) /\ HasColors(Tree, StoredAt(data, Here), cur)
  <1>1. key \in Keys /\ Here \in Positions /\ ~Destroyed
    BY PosFacts DEF Inv, CallInv, Calling, Here, Destroyed
  <1> QED BY <1>1 DEF Inv, TreesInv, CallInv, Odd, Tree, Here

\* A round of the rebalancing changes one tree, of the same nodes.
LEMMA BalanceRecolorInv ==
    ASSUME Inv, BalanceRecolor
    PROVE  Inv'
  <1> USE DEF BalanceRecolor
  <1> DEFINE S == StoredAt(data, Here)
             T == Recolor(Tree, cur)
  <1>1. /\ cur \in S /\ IsRed(Tree, cur) /\ HasShape(Tree, S) /\ HasColors(Tree, S, cur)
        /\ Unbalanced(Tree, cur) /\ IsRed(Tree, Uncle(Tree, cur))
    BY RoundFacts DEF IsRed
  <1>2. /\ HasShape(T, S) /\ HasColors(T, S, Grandparent(Tree, cur))
        /\ Grandparent(Tree, cur) \in S /\ IsRed(T, Grandparent(Tree, cur))
    BY <1>1, RecolorTree
  <1>3. table' = [table EXCEPT ![Here] = T] /\ cur' = Grandparent(Tree, cur) /\ pc' = "balance"
    BY DEF SetTree, Here
  <1> HIDE DEF T
  <1> QED BY <1>2, <1>3, RoundInv

\* A round that ends with a rotation.
LEMMA BalanceRotateInv ==
    ASSUME Inv, BalanceRotate
    PROVE  Inv'
  <1> USE DEF BalanceRotate, Goto
  <1> DEFINE S == StoredAt(data, Here)
             T == BlackenRoot(Straighten(Tree, cur))
  <1>1. /\ cur \in S /\ IsRed(Tree, cur) /\ HasShape(Tree, S) /\ HasColors(Tree, S, cur)
        /\ Unbalanced(Tree, cur) /\ ~IsRed(Tree, Uncle(Tree, cur))
    BY RoundFacts DEF IsRed
  <1>2. HasShape(T, S) /\ HasColors(T, S, NULL)
    BY <1>1, StraightenTree
  <1>3. table' = [table EXCEPT ![Here] = T] /\ cur' = NULL /\ pc' = "account"
    BY DEF SetTree, Here
  <1> HIDE DEF T
  <1> QED BY <1>2, <1>3, RoundInv

\* The loop ends.
LEMMA BalancedInv ==
    ASSUME Inv, Balanced
    PROVE  Inv'
  <1> USE DEF Balanced, Goto
  <1> DEFINE S == StoredAt(data, Here)
             T == BlackenRoot(Tree)
  <1>1. HasShape(Tree, S) /\ HasColors(Tree, S, cur) /\ ~Unbalanced(Tree, cur)
    BY RoundFacts
  <1>2. HasShape(T, S) /\ HasColors(T, S, NULL)
    BY <1>1, BlackenTree
  <1>3. table' = [table EXCEPT ![Here] = T] /\ cur' = NULL /\ pc' = "account"
    BY DEF SetTree, Here
  <1> HIDE DEF T
  <1> QED BY <1>2, <1>3, RoundInv

\* The change is accounted for.
LEMMA AccountStepInv ==
    ASSUME Inv, Account
    PROVE  Inv'
  <1> USE DEF Account, Goto
  <1>1. val \in Vals /\ used_memory + ValLen[val] <= MaxMemory /\ ~Destroyed /\ (old # NULL => old \in Vals)
    BY DEF Inv, CallInv, Calling, Destroyed, TypeOK
  <1>2. IsFiniteSet(StoredOf(data)) /\ count \in Nat /\ used_memory \in Nat /\ data_out \in [Vals -> Nat]
    BY DEF Inv, BlocksInv, TypeOK
  <1>3. /\ Cardinality(StoredOf(data)) \in Nat /\ Total(data) \in Nat
        /\ \A v : Cardinality(Holding(data, v)) \in Nat
    BY <1>2, CountsAreNatural
  <1>4. BlockSize(val) \in Nat /\ ValLen[val] \in Nat /\ (old # NULL => BlockSize(old) \in Nat)
        /\ MaxMemory \in Nat /\ Slack \in Nat /\ BlockSize(val) <= ValLen[val] + Slack
    BY <1>1, BlockSizeFacts, SlackFacts, MaxSize, KeyValueAssumption
  <1>5. nodes_out' = Cardinality(StoredOf(data))
    <2>1. nodes_out = Cardinality(StoredOf(data)) + 0 + (IF old # NULL THEN 1 ELSE 0)
      BY DEF Inv, BlocksInv
    <2> QED BY <1>3, <2>1
  <1>6. ASSUME NEW v \in Vals
        PROVE  data_out'[v] = Cardinality(Holding(data, v))
    <2>1. data_out[v] = Cardinality(Holding(data, v)) + 0 + (IF old = v THEN 1 ELSE 0)
      BY DEF Inv, BlocksInv
    <2>2. data_out'[v] = data_out[v] - (IF old = v THEN 1 ELSE 0)
      BY <1>1, <1>2, KeyValueAssumption
    <2>3. Cardinality(Holding(data, v)) \in Nat
      BY <1>3
    <2> QED BY <2>1, <2>2, <2>3
  <1>7. count' = Cardinality(StoredOf(data))
    <2>1. count + (IF old = NULL THEN 1 ELSE 0) = Cardinality(StoredOf(data))
      BY <1>1 DEF Inv, AccountInv
    <2> QED BY <1>2, <2>1
  <1>8. used_memory' = Total(data)
    <2>1. used_memory + BlockSize(val) = Total(data) + (IF old # NULL THEN BlockSize(old) ELSE 0)
      BY <1>1 DEF Inv, AccountInv
    <2> QED BY <1>2, <1>3, <1>4, <2>1
  <1>9. used_memory' <= MaxMemory + Slack
    <2>1. used_memory' <= used_memory + BlockSize(val)
      BY <1>2, <1>4
    <2> QED BY <1>1, <1>2, <1>3, <1>4, <1>8, <2>1
  <1>10. TypeOK'
    <2>1. data_out' \in [Vals -> Nat]
      <3>1. \A v \in Vals : data_out'[v] \in Nat
        BY <1>3, <1>6
      <3>2. data_out' = [v \in Vals |-> data_out'[v]]
        BY <1>2
      <3> QED BY <3>1, <3>2
    <2> QED BY <1>3, <1>5, <1>7, <1>8, <2>1 DEF Inv, TypeOK
  <1>11. TreesInv'
    BY DEF Inv, TreesInv, Odd, Destroyed
  <1>12. CallInv'
    BY DEF CallInv, Calling
  <1>13. DestroyInv'
    BY DEF DestroyInv
  <1>14. BlocksInv'
    <2>1. \A v \in Vals : old' # v
      BY KeyValueAssumption
    <2> QED BY <1>2, <1>3, <1>5, <1>6, <2>1 DEF BlocksInv
  <1>15. AccountInv'
    BY <1>3, <1>7, <1>8, <1>9 DEF AccountInv
  <1> QED BY <1>10, <1>11, <1>12, <1>13, <1>14, <1>15 DEF Inv

\* While the store is destroyed: what is below a stored node is stored.
LEMMA ChildIsStored ==
    ASSUME NEW T, NEW S, HasShape(T, S), NEW n \in S, NEW d \in Side
    PROVE  T.child[d][n] \in S \cup {SENTINEL}
  BY DEF HasShape, IsTree

\* What is stored has a node.
LEMMA StoredIsNode == \A p : StoredAt(data, p) \subseteq Nodes
  BY DEF StoredAt

\* rbtree_destroy starts at the root of each bucket and goes down to a leaf.
LEMMA DestroyStartInv ==
    ASSUME Inv, Destroy
    PROVE  Inv'
  <1> USE DEF Destroy, storeVars, callVars, Goto
  <1>1. 0 \in Positions /\ ~Destroyed /\ old = NULL /\ key = NULL /\ val = NULL
    BY PosFacts DEF Destroyed, Inv, CallInv, Calling
  <1>2. \A p \in Positions : HasShape(table[p], StoredAt(data, p))
    BY <1>1 DEF Inv, TreesInv
  <1>3. /\ cur' \in StoredAt(data, 0) \cup {SENTINEL}
        /\ cur' = SENTINEL => StoredAt(data, 0) = {}
    BY <1>1, <1>2, ShapeFacts
  <1>4. TypeOK'
    BY <1>1, <1>3, StoredIsNode DEF Inv, TypeOK
  <1>5. TreesInv'
    BY DEF TreesInv, Destroyed
  <1>6. CallInv'
    BY <1>1 DEF CallInv, Calling
  <1>7. DestroyInv'
    <2>1. \A p \in Positions : ~(p < 0)
      BY DEF Positions
    <2> QED BY <1>1, <1>2, <1>3, <2>1, RbTreeAssumption DEF DestroyInv
  <1>8. BlocksInv'
    BY <1>1 DEF Inv, BlocksInv
  <1>9. AccountInv'
    BY DEF Inv, AccountInv, Destroyed
  <1> QED BY <1>4, <1>5, <1>6, <1>7, <1>8, <1>9 DEF Inv

\* One step of that walk.
LEMMA DestroyDownInv ==
    ASSUME Inv, DestroyDown
    PROVE  Inv'
  <1> USE DEF DestroyDown, storeVars, callVars
  <1> DEFINE S == StoredAt(data, pos)
  <1>1. \/ cur \in S /\ HasShape(table[pos], S)
        \/ cur \notin Nodes /\ S = {}
    BY DEF Inv, DestroyInv
  <1>2. PICK d \in Side : cur' = Child(d, cur) /\ cur' # SENTINEL
    BY DEF Side
  <1>3. \/ cur' \in S /\ HasShape(table[pos], S)
        \/ cur' \in {NULL, GARBAGE} /\ S = {}
    <2>1. CASE cur \in S /\ HasShape(table[pos], S)
      <3>1. cur # SENTINEL
        BY <2>1, StoredIsNode, RbTreeAssumption
      <3>2. cur' = table[pos].child[d][cur]
        BY <1>2, <3>1 DEF Child
      <3> HIDE DEF S
      <3> QED BY <1>2, <2>1, <3>2, ChildIsStored
    <2>2. CASE cur \notin Nodes /\ S = {}
      <3>1. cur' = links
        BY <1>2, <2>2 DEF Child
      <3> QED BY <2>2, <3>1, KeyValueAssumption DEF Inv, TypeOK
    <2> QED BY <1>1, <2>1, <2>2
  <1>4. TypeOK'
    BY <1>3, StoredIsNode DEF Inv, TypeOK
  <1>5. TreesInv'
    BY DEF TreesInv, Destroyed
  <1>6. CallInv'
    BY DEF Inv, CallInv, Calling
  <1>7. DestroyInv'
    BY <1>3, RbTreeAssumption, KeyValueAssumption DEF Inv, DestroyInv
  <1>8. BlocksInv'
    BY DEF Inv, BlocksInv
  <1>9. AccountInv'
    BY DEF Inv, AccountInv, Destroyed
  <1> QED BY <1>4, <1>5, <1>6, <1>7, <1>8, <1>9 DEF Inv

\* A leaf is cut off and freed with its value: one node and one block fewer are out.
LEMMA DestroyLeafInv ==
    ASSUME Inv, DestroyLeaf
    PROVE  Inv'
  <1> USE DEF DestroyLeaf, callVars
  <1> DEFINE S == StoredAt(data, pos)
             T == table[pos]
             p == T.parent[cur]
             R == CutOff(T, cur)
  <1>1. cur \in S /\ HasShape(T, S) /\ cur \in Nodes /\ pos \in Positions /\ Pos(cur) = pos
    BY DEF Inv, DestroyInv, TypeOK, StoredAt
  <1>2. \A d \in Side : T.child[d][cur] = SENTINEL
    BY <1>1, RbTreeAssumption DEF Child
  <1>3. /\ p = NULL => S = {cur}
        /\ p # NULL => p \in S \ {cur} /\ HasShape(R, S \ {cur})
    <2> HIDE DEF T, S
    <2> QED BY <1>1, <1>2, CutLeaf
  <1>4. cur \in StoredOf(data) /\ data \in Contents /\ IsFiniteSet(StoredOf(data)) /\ data' = With(data, cur, NULL)
    BY <1>1 DEF StoredAt, StoredOf, With, Inv, TypeOK, BlocksInv, Contents
  <1>5. /\ data' \in Contents /\ IsFiniteSet(StoredOf(data')) /\ data[cur] \in Vals
        /\ Cardinality(StoredOf(data')) = Cardinality(StoredOf(data)) - 1
        /\ \A u \in Vals : Cardinality(Holding(data', u)) = Cardinality(Holding(data, u)) - (IF u = data[cur] THEN 1 ELSE 0)
        /\ \A q : StoredAt(data', q) = IF q = pos THEN S \ {cur} ELSE StoredAt(data, q)
    <2> DEFINE e == With(data, cur, NULL)
    <2>1. e \in Contents /\ IsFiniteSet(StoredOf(e)) /\ data[cur] \in Vals
      BY <1>4, StoreGone
    <2>2. Cardinality(StoredOf(e)) = Cardinality(StoredOf(data)) - 1
      BY <1>4, StoreGone
    <2>3. \A u \in Vals : Cardinality(Holding(e, u)) = Cardinality(Holding(data, u)) - (IF u = data[cur] THEN 1 ELSE 0)
      BY <1>4, StoreGone
    <2>4. \A q : StoredAt(e, q) = IF q = Pos(cur) THEN StoredAt(data, q) \ {cur} ELSE StoredAt(data, q)
      BY <1>4, StoreGone
    <2>5. e = data'
      BY <1>4
    <2> HIDE DEF e
    <2> QED BY <1>1, <2>1, <2>2, <2>3, <2>4, <2>5
  <1>6. /\ \A v : Cardinality(Holding(data, v)) \in Nat
        /\ Cardinality(StoredOf(data)) \in Nat /\ Cardinality(StoredOf(data')) \in Nat
    BY <1>4, <1>5, CountsAreNatural, FS_CardinalityType
  <1>7. /\ table' \in [Positions -> Trees] /\ \A q \in Positions : q # pos => table'[q] = table[q]
        /\ p # NULL => table'[pos] = R
    <2>1. CASE p = NULL
      BY <2>1 DEF Inv, TypeOK
    <2>2. CASE p # NULL
      <3>1. table' = [table EXCEPT ![pos] = R]
        BY <2>2 DEF CutOff
      <3>2. R \in Trees
        <4> HIDE DEF R, S
        <4> QED BY <1>3, <2>2, ShapeFacts
      <3> HIDE DEF R
      <3> QED BY <2>2, <3>1, <3>2 DEF Inv, TypeOK
    <2> QED BY <2>1, <2>2
  <1>8. cur' = p /\ (p # NULL => p \in Nodes)
    BY <1>3, StoredIsNode
  <1>9. /\ key = NULL /\ val = NULL /\ old = NULL /\ \A v \in Vals : old # v
        /\ data_out \in [Vals -> Nat] /\ nodes_out \in Nat
    BY KeyValueAssumption DEF Inv, CallInv, Calling, TypeOK
  <1> HIDE DEF R, T, S, p
  <1>10. nodes_out' = Cardinality(StoredOf(data'))
    <2>1. nodes_out = Cardinality(StoredOf(data)) + 0 + 0
      BY <1>9 DEF Inv, BlocksInv
    <2> QED BY <1>5, <1>6, <2>1
  <1>11. ASSUME NEW v \in Vals
         PROVE  data_out'[v] = Cardinality(Holding(data', v)) /\ data_out'[v] \in Nat
    <2>1. data_out[v] = Cardinality(Holding(data, v)) + 0 + 0
      BY <1>9 DEF Inv, BlocksInv
    <2>2. data_out'[v] = data_out[v] - (IF v = data[cur] THEN 1 ELSE 0)
      BY <1>5, <1>9
    <2>3. Cardinality(Holding(data, v)) \in Nat
      BY <1>6
    <2>4. Cardinality(Holding(data', v)) \in Nat
      <3>1. Holding(data', v) \in SUBSET StoredOf(data')
        BY DEF Holding
      <3> QED BY <1>5, <3>1, FS_Subset, FS_CardinalityType
    <2>5. Cardinality(Holding(data', v)) = Cardinality(Holding(data, v)) - (IF v = data[cur] THEN 1 ELSE 0)
      BY <1>5
    <2> HIDE DEF DestroyLeaf
    <2> QED BY <2>1, <2>2, <2>3, <2>4, <2>5
  <1>12. TypeOK'
    <2>1. data_out' \in [Vals -> Nat]
      <3>1. data_out' = [v \in Vals |-> data_out'[v]]
        BY <1>9
      <3> QED BY <1>11, <3>1
    <2> QED BY <1>5, <1>6, <1>7, <1>8, <1>10, <2>1 DEF Inv, TypeOK, Contents
  <1>13. TreesInv'
    BY DEF TreesInv, Destroyed
  <1>14. CallInv'
    BY <1>9 DEF CallInv, Calling
  <1>15. DestroyInv'
    <2>1. \A q \in Positions : /\ q > pos => HasShape(table'[q], StoredAt(data', q))
                               /\ q < pos => StoredAt(data', q) = {}
      <3> SUFFICES ASSUME NEW q \in Positions
                   PROVE  /\ q > pos => HasShape(table'[q], StoredAt(data', q))
                          /\ q < pos => StoredAt(data', q) = {}
        OBVIOUS
      <3>1. CASE q = pos
        BY <1>1, <3>1 DEF Positions
      <3>2. CASE q # pos
        <4>1. table'[q] = table[q] /\ StoredAt(data', q) = StoredAt(data, q)
          BY <1>5, <1>7, <3>2
        <4>2. /\ q > pos => HasShape(table[q], StoredAt(data, q))
              /\ q < pos => StoredAt(data, q) = {}
          BY DEF Inv, DestroyInv
        <4> QED BY <4>1, <4>2
      <3> QED BY <3>1, <3>2
    <2>2. \/ cur' \in StoredAt(data', pos) /\ HasShape(table'[pos], StoredAt(data', pos))
          \/ cur' \notin Nodes /\ StoredAt(data', pos) = {}
      BY <1>3, <1>5, <1>7, <1>8, RbTreeAssumption
    <2> QED BY <2>1, <2>2 DEF DestroyInv
  <1>16. BlocksInv'
    <2>1. pc' = "destroy" /\ old' = NULL /\ val' = NULL /\ \A v \in Vals : old' # v
      BY <1>9
    <2>2. nodes_out' = Cardinality(StoredOf(data')) + 0 + 0
      BY <1>6, <1>10
    <2>3. ASSUME NEW v \in Vals PROVE data_out'[v] = Cardinality(Holding(data', v)) + 0 + 0
      <3>1. data_out'[v] = Cardinality(Holding(data', v)) /\ data_out'[v] \in Nat
        BY <1>11
      <3> HIDE DEF DestroyLeaf
      <3> QED BY <3>1
    <2> HIDE DEF DestroyLeaf
    <2> QED BY <1>5, <2>1, <2>2, <2>3 DEF BlocksInv
  <1>17. AccountInv'
    BY DEF Inv, AccountInv, Destroyed
  <1> QED BY <1>12, <1>13, <1>14, <1>15, <1>16, <1>17 DEF Inv

\* Above the root nothing is left in the bucket.
LEMMA DestroyNextInv ==
    ASSUME Inv, DestroyNext
    PROVE  Inv'
  <1> USE DEF DestroyNext, storeVars, callVars, Goto
  <1>1. StoredAt(data, pos) = {} /\ pos \in Positions
    BY StoredIsNode, RbTreeAssumption DEF Inv, DestroyInv, TypeOK
  <1>2. /\ \A p \in Positions : /\ p > pos => HasShape(table[p], StoredAt(data, p))
                                /\ p < pos => StoredAt(data, p) = {}
    BY DEF Inv, DestroyInv
  <1>3. key = NULL /\ val = NULL /\ old = NULL
    BY DEF Inv, CallInv, Calling
  <1>4. TreesInv' /\ CallInv'
    BY <1>3 DEF TreesInv, Destroyed, CallInv, Calling
  <1>5. BlocksInv'
    BY <1>3 DEF Inv, BlocksInv
  <1>6. AccountInv'
    BY DEF Inv, AccountInv, Destroyed
  <1>7. TypeOK' /\ DestroyInv'
    <2>1. CASE pos = KEY_VALUE_SIZE - 1
      <3>1. ASSUME NEW n \in Nodes, data[n] # NULL PROVE FALSE
        <4>1. PICK p \in Positions : p = Pos(n)
          BY PosFacts
        <4>2. n \in StoredAt(data, p)
          BY <3>1, <4>1 DEF StoredAt
        <4>3. p < pos \/ p = pos
          BY <2>1, KeyValueAssumption DEF Positions
        <4> QED BY <1>1, <1>2, <4>2, <4>3
      <3>2. StoredOf(data) = {}
        BY <3>1 DEF StoredOf
      <3> QED BY <2>1, <3>2 DEF Inv, TypeOK, DestroyInv
    <2>2. CASE pos # KEY_VALUE_SIZE - 1
      <3> DEFINE q == pos + 1
      <3>1. q \in Positions /\ q > pos /\ \A p \in Positions : (p > q => p > pos) /\ (p < q => p < pos \/ p = pos)
        BY <1>1, <2>2, KeyValueAssumption DEF Positions
      <3>2. HasShape(table[q], StoredAt(data, q))
        BY <1>2, <3>1
      <3>3. cur' = table[q].root /\ pos' = q
        BY <2>2
      <3> HIDE DEF q
      <3>4. /\ cur' \in StoredAt(data, q) \cup {SENTINEL}
            /\ cur' = SENTINEL => StoredAt(data, q) = {}
        BY <3>2, <3>3, ShapeFacts
      <3>5. TypeOK'
        BY <2>2, <3>1, <3>3, <3>4, StoredIsNode DEF Inv, TypeOK
      <3>6. DestroyInv'
        BY <1>1, <1>2, <2>2, <3>1, <3>2, <3>3, <3>4, RbTreeAssumption DEF DestroyInv
      <3> QED BY <3>5, <3>6
    <2> QED BY <2>1, <2>2
  <1> QED BY <1>4, <1>5, <1>6, <1>7 DEF Inv

\* Every step keeps the invariant.
LEMMA NextInv == Inv /\ [Next]_vars => Inv'
  <1> SUFFICES ASSUME Inv, [Next]_vars PROVE Inv'
    OBVIOUS
  <1>1. ASSUME NEW k \in Keys, NEW v \in ValsOf[k], Set(k, v) PROVE Inv'
    BY <1>1, SetInv
  <1>2. CASE SetStep
    BY <1>2, NoDataInv, GetDataInv, InsertRootInv, InsertBelowInv, DescendInv, AttachLeafInv,
       OverwriteInv, BalanceRecolorInv, BalanceRotateInv, BalancedInv, AccountStepInv DEF SetStep
  <1>3. CASE Destroy
    BY <1>3, DestroyStartInv
  <1>4. CASE DestroyStep
    BY <1>4, DestroyDownInv, DestroyLeafInv, DestroyNextInv DEF DestroyStep
  <1>5. CASE UNCHANGED vars
    BY <1>5, StutterInv
  <1> QED BY <1>1, <1>2, <1>3, <1>4, <1>5 DEF Next

\* The invariant holds.
LEMMA Invariance == Spec => []Inv
  BY InitInv, NextInv, PTL DEF Spec

-----------------------------------------------------------------------------
(* What a walk finds *)

\* A walk for a hash finds its node when it is stored, and else the sentinel: the place
\* where it would stop otherwise is the lowest of those where it went astray.
LEMMA FindIs ==
    ASSUME NEW h \in Nodes, NEW S, HasShape(table[Pos(h)], S)
    PROVE  Find(h) = IF h \in S THEN h ELSE SENTINEL
  <1>0. PICK T : T = table[Pos(h)]
    OBVIOUS
  <1>1. PICK sub : IsTree(T, S, sub)
    BY <1>0 DEF HasShape
  <1> DEFINE Eq(g) == g = [n \in Places \cup {NULL} |->
                             IF n \in Nodes \ {h} THEN g[T.child[Toward(h, n)][n]] ELSE n]
             f == CHOOSE g : Eq(g)
             f0 == [n \in Places \cup {NULL} |->
                      IF n \notin Nodes THEN n
                      ELSE IF n = h \/ (n \in S /\ h \in sub[n]) THEN h
                      ELSE IF n \in S THEN SENTINEL ELSE T.child[Toward(h, n)][n]]
  <1>2. Find(h) = f[T.root]
    BY <1>0 DEF Find
  <1>3. /\ S \subseteq Nodes /\ SENTINEL \notin Nodes /\ T.root \in S \cup {SENTINEL}
        /\ sub[T.root] = S /\ NULL \notin Nodes
        /\ \A n \in Nodes \ S, d \in Side : T.child[d][n] \in {SENTINEL, NULL}
        /\ \A n \in S, d \in Side : T.child[d][n] \in S \cup {SENTINEL}
        /\ \A n \in Nodes : Toward(h, n) \in Side
    BY <1>1, RbTreeAssumption DEF IsTree, NoChildren, Side, Toward
  <1>4. ASSUME NEW n \in S, n # h
        PROVE  LET c == T.child[Toward(h, n)][n]
               IN  h \in sub[n] <=> (c = h \/ (c \in S /\ h \in sub[c]))
    <2>1. PICK d \in Side : d = Toward(h, n)
      BY <1>3
    <2>2. sub[n] = {n} \cup sub[T.child["left"][n]] \cup sub[T.child["right"][n]] /\ sub[SENTINEL] = {}
      BY <1>1 DEF IsTree
    <2>3. \A e \in Side : h \in sub[T.child[e][n]] => e = d
      BY <1>1, <2>1 DEF IsTree
    <2>4. h \in sub[n] <=> h \in sub[T.child[d][n]]
      BY <1>4, <2>2, <2>3 DEF Side
    <2>5. T.child[d][n] \in S \cup {SENTINEL} /\ (T.child[d][n] \in S => T.child[d][n] \in sub[T.child[d][n]])
      BY <1>1, <1>3 DEF IsTree
    <2> QED BY <1>3, <2>1, <2>2, <2>4, <2>5
  <1>5. Eq(f0)
    <2>1. ASSUME NEW n \in Places \cup {NULL}
          PROVE  f0[n] = IF n \in Nodes \ {h} THEN f0[T.child[Toward(h, n)][n]] ELSE n
      <3>1. CASE n \notin Nodes \ {h}
        BY <1>3, <3>1
      <3>2. CASE n \in S /\ n # h
        <4>1. PICK c : c = T.child[Toward(h, n)][n]
          OBVIOUS
        <4>2. c \in S \cup {SENTINEL} /\ n \in Nodes /\ n # SENTINEL
          BY <1>3, <3>2, <4>1
        <4>3. f0[n] = IF h \in sub[n] THEN h ELSE SENTINEL
          BY <3>2, <4>2
        <4>4. f0[c] = IF c = h \/ (c \in S /\ h \in sub[c]) THEN h ELSE SENTINEL
          BY <1>3, <4>2 DEF Places
        <4>5. h \in sub[n] <=> (c = h \/ (c \in S /\ h \in sub[c]))
          BY <1>4, <3>2, <4>1
        <4> HIDE DEF f0
        <4> QED BY <3>2, <4>1, <4>2, <4>3, <4>4, <4>5
      <3>3. CASE n \in Nodes \ S /\ n # h
        <4>1. T.child[Toward(h, n)][n] \in {SENTINEL, NULL}
          BY <1>3, <3>3
        <4>2. f0[SENTINEL] = SENTINEL /\ f0[NULL] = NULL /\ f0[n] = T.child[Toward(h, n)][n]
          BY <1>3, <3>3 DEF Places
        <4> HIDE DEF f0
        <4> QED BY <3>3, <4>1, <4>2
      <3> QED BY <3>1, <3>2, <3>3
    <2>2. f0 = [n \in Places \cup {NULL} |-> f0[n]]
      OBVIOUS
    <2> HIDE DEF f0
    <2> QED BY <2>1, <2>2, Zenon
  <1>6. Eq(f)
    <2> HIDE DEF f0
    <2> QED BY <1>5
  <1>7. ASSUME NEW n \in Nodes \cup {SENTINEL}
        PROVE  f[n] = IF n \in Nodes \ {h} THEN f[T.child[Toward(h, n)][n]] ELSE n
    <2> HIDE DEF f
    <2> QED BY <1>6 DEF Places
  <1>8. ASSUME NEW n \in Nodes \cup {SENTINEL}
        PROVE  f0[n] = IF n \in Nodes \ {h} THEN f0[T.child[Toward(h, n)][n]] ELSE n
    <2> HIDE DEF f0
    <2> QED BY <1>5 DEF Places
  <1>9. f0[T.root] = IF h \in S THEN h ELSE SENTINEL
    <2>1. T.root \in Nodes \cup {SENTINEL}
      BY <1>3
    <2>2. f0[T.root] = IF T.root = h \/ (T.root \in S /\ h \in sub[T.root]) THEN h ELSE SENTINEL
      BY <1>3, <2>1 DEF Places
    <2>3. h \in S => T.root \in S
      BY <1>1 DEF IsTree
    <2> HIDE DEF f0
    <2> QED BY <1>3, <2>2, <2>3
  <1> HIDE DEF f, f0
  <1>10. {n \in S : f[n] # f0[n]} = {}
    <2> DEFINE Bad == {n \in S : f[n] # f0[n]}
    <2> SUFFICES ASSUME Bad # {} PROVE FALSE
      OBVIOUS
    <2>1. Bad \in SUBSET S
      OBVIOUS
    <2>2. PICK m \in Bad : \A d \in Side : sub[T.child[d][m]] \cap Bad = {}
      <3> HIDE DEF Bad
      <3> QED BY <1>1, <2>1, LowestNode
    <2>3. PICK c : c = T.child[Toward(h, m)][m]
      OBVIOUS
    <2>4. m \in S /\ m \in Nodes /\ f[m] # f0[m] /\ Toward(h, m) \in Side /\ c \in S \cup {SENTINEL}
      BY <1>3, <2>3
    <2>5. c \in S => c \in sub[c]
      BY <1>1 DEF IsTree
    <2>6. c \notin Bad
      BY <1>3, <2>2, <2>3, <2>4, <2>5
    <2>7. f[c] = f0[c]
      <3>1. c \in S => f[c] = f0[c]
        BY <2>6
      <3>2. f[SENTINEL] = f0[SENTINEL]
        BY <1>3, <1>7, <1>8
      <3> QED BY <2>4, <3>1, <3>2
    <2> QED BY <1>7, <1>8, <2>3, <2>4, <2>7
  <1>11. f[T.root] = f0[T.root]
    BY <1>3, <1>7, <1>8, <1>10
  <1> QED BY <1>2, <1>9, <1>11

\* key_value_get returns what is stored.
LEMMA GetIs ==
    ASSUME Inv, ~Destroyed, NEW k \in Keys
    PROVE  key_value_get(k) = data[Hash[k]]
  <1> DEFINE h == Hash[k]
             S == StoredAt(data, Pos(h))
  <1>1. h \in Nodes /\ Pos(h) \in Positions
    BY PosFacts
  <1>2. HasShape(table[Pos(h)], S)
    BY <1>1 DEF Inv, TreesInv
  <1>3. h \in S <=> data[h] # NULL
    BY <1>1 DEF StoredAt
  <1>4. Find(h) = IF h \in S THEN h ELSE SENTINEL
    <2> HIDE DEF S, h
    <2> QED BY <1>1, <1>2, FindIs
  <1>5. h # SENTINEL
    BY <1>1, RbTreeAssumption
  <1> QED BY <1>3, <1>4, <1>5 DEF key_value_get

-----------------------------------------------------------------------------
(* Theorems *)

\* Type correctness of the store, its trees and its counters.
THEOREM TypeCorrect == Spec => []TypeOK
  <1>1. Inv => TypeOK
    BY DEF Inv
  <1> QED BY <1>1, Invariance, PTL

\* Between calls of key_value_set every bucket is a search tree whose parent pointers
\* are right and whose colours keep its height logarithmic, whatever was inserted.
THEOREM RedBlack == Spec => []BucketsRedBlack
  <1>1. Inv => BucketsRedBlack
    <2> SUFFICES ASSUME Inv, pc = "idle", NEW p \in Positions
                 PROVE  /\ IsSearchTree(table[p]) /\ IsRedBlack(table[p])
                        /\ RootHasNoParent(table[p])
                        /\ \A n \in Members(table[p]) : Pos(n) = p
      BY DEF BucketsRedBlack
    <2>1. HasShape(table[p], StoredAt(data, p)) /\ HasColors(table[p], StoredAt(data, p), NULL)
      BY DEF Inv, TreesInv, Destroyed, Odd
    <2>2. /\ Members(table[p]) = StoredAt(data, p)
          /\ IsSearchTree(table[p]) /\ RootHasNoParent(table[p])
      BY <2>1, ShapeFacts
    <2>3. IsRedBlack(table[p])
      BY <2>1, ColoredIsRedBlack DEF HasShape, HasColors
    <2> QED BY <2>2, <2>3 DEF StoredAt
  <1> QED BY <1>1, Invariance, PTL

\* rbtree_delete takes any node out of any tree the store comes to, and another out of
\* what is left, and leaves each time a red-black search tree of exactly the other keys.
THEOREM DeletionSound == Spec => []DeleteKeepsTree
  <1>1. ASSUME Inv, pc = "idle", NEW p \in Positions, NEW n \in Members(table[p])
        PROVE  LET D == rbtree_delete(table[p], n)
               IN  /\ Members(D) = Members(table[p]) \ {n} /\ IsSearchTree(D) /\ IsRedBlack(D)
                   /\ \A m \in Members(D) :
                         LET E == rbtree_delete(D, m)
                         IN  /\ Members(E) = Members(D) \ {m} /\ IsSearchTree(E) /\ IsRedBlack(E)
    <2>1. PICK S : S = StoredAt(data, p)
      OBVIOUS
    <2>2. PICK D : D = rbtree_delete(table[p], n)
      OBVIOUS
    <2>3. HasShape(table[p], S) /\ HasColors(table[p], S, NULL)
      BY <1>1, <2>1 DEF Inv, TreesInv, Destroyed, Odd
    <2>4. IsBalanced(table[p], S)
      BY <2>3 DEF HasShape, HasColors, IsBalanced
    <2>5. Members(table[p]) = S
      BY <2>4, BalancedIs
    <2>6. IsBalanced(D, S \ {n})
      BY <1>1, <2>2, <2>4, <2>5, DeleteKeeps
    <2>7. Members(D) = S \ {n} /\ IsSearchTree(D) /\ IsRedBlack(D)
      BY <2>6, BalancedIs
    <2>8. ASSUME NEW m \in Members(D), NEW E, E = rbtree_delete(D, m)
          PROVE  Members(E) = Members(D) \ {m} /\ IsSearchTree(E) /\ IsRedBlack(E)
      <3>1. IsBalanced(E, (S \ {n}) \ {m})
        BY <2>6, <2>7, <2>8, DeleteKeeps
      <3> QED BY <2>7, <3>1, BalancedIs
    <2> QED BY <2>2, <2>5, <2>7, <2>8
  <1>2. Inv => DeleteKeepsTree
    BY <1>1 DEF DeleteKeepsTree
  <1> QED BY <1>2, Invariance, PTL

\* The nodes of the trees are those that are stored.
LEMMA StoredIsMembers ==
    ASSUME Inv, pc = "idle"
    PROVE  UNION {Members(table[p]) : p \in Positions} = StoredOf(data)
  <1>1. \A p \in Positions : Members(table[p]) = StoredAt(data, p)
    BY ShapeFacts DEF Inv, TreesInv, Destroyed
  <1>2. \A n \in StoredOf(data) : Pos(n) \in Positions /\ n \in StoredAt(data, Pos(n))
    BY PosFacts DEF StoredOf, StoredAt
  <1>3. \A p : StoredAt(data, p) \subseteq StoredOf(data)
    BY DEF StoredOf, StoredAt
  <1> QED BY <1>1, <1>2, <1>3

\* After every call of key_value_set, one that fails or overwrites a value too, the pool
\* has given out one node and one block for each stored value, and after
\* key_value_destroy nothing.
THEOREM LeakFree == Spec => []NothingLeaks
  <1>1. ASSUME Inv, pc \in {"idle", "destroyed"} PROVE NothingLeaks
    <2> DEFINE stored == IF pc = "destroyed" THEN {}
                         ELSE UNION {Members(table[p]) : p \in Positions}
    <2>1. stored = StoredOf(data)
      BY <1>1, StoredIsMembers DEF Inv, DestroyInv
    <2>2. old = NULL
      BY <1>1 DEF Inv, CallInv
    <2> HIDE DEF stored
    <2>3. nodes_out = Cardinality(stored)
      <3>1. nodes_out = Cardinality(StoredOf(data)) + 0 + 0
        BY <1>1, <2>2 DEF Inv, BlocksInv
      <3>2. Cardinality(StoredOf(data)) \in Nat
        BY <1>1, CountsAreNatural DEF Inv, BlocksInv
      <3> QED BY <2>1, <3>1, <3>2
    <2>4. ASSUME NEW v \in Vals
          PROVE  data_out[v] = Cardinality({n \in stored : data[n] = v})
      <3>1. data_out[v] = Cardinality(Holding(data, v)) + 0 + 0
        BY <1>1, <2>2, KeyValueAssumption DEF Inv, BlocksInv
      <3>2. Cardinality(Holding(data, v)) \in Nat
        BY <1>1, CountsAreNatural DEF Inv, BlocksInv
      <3>3. Holding(data, v) = {n \in stored : data[n] = v}
        BY <2>1 DEF Holding
      <3> QED BY <3>1, <3>2, <3>3
    <2> QED BY <2>3, <2>4 DEF NothingLeaks, stored
  <1>2. Inv => NothingLeaks
    BY <1>1 DEF NothingLeaks
  <1> QED BY <1>2, Invariance, PTL

\* count and used_memory of the store are those of what is stored, and used_memory
\* exceeds max_memory by less than what a block may be larger than its value.
THEOREM Accounted == Spec => []AccountExact
  <1>1. ASSUME Inv, pc = "idle"
        PROVE  LET stored == UNION {Members(table[p]) : p \in Positions}
               IN  /\ count = Cardinality(stored)
                   /\ used_memory = MapThenSumSet(LAMBDA n : BlockSize(data[n]), stored)
    <2> DEFINE stored == UNION {Members(table[p]) : p \in Positions}
    <2>1. stored = StoredOf(data)
      BY <1>1, StoredIsMembers
    <2>2. IsFiniteSet(StoredOf(data)) /\ old = NULL /\ ~Destroyed
      BY <1>1 DEF Inv, BlocksInv, CallInv, Destroyed
    <2>3. count = Cardinality(StoredOf(data)) /\ used_memory = Total(data)
      <3>1. count + 0 = Cardinality(StoredOf(data)) /\ used_memory + 0 = Total(data) + 0
        BY <1>1, <2>2 DEF Inv, AccountInv
      <3>2. count \in Nat /\ used_memory \in Nat /\ Total(data) \in Nat
        BY <1>1, <2>2, CountsAreNatural DEF Inv, TypeOK
      <3> QED BY <3>1, <3>2
    <2> HIDE DEF stored
    <2>4. MapThenSumSet(LAMBDA n : BlockSize(data[n]), stored) = Total(data)
      <3> DEFINE w == [n \in stored |-> BlockSize(data[n])]
                 x == [n \in Nodes |-> BlockSize(data[n])]
      <3>1. \A n \in stored : data[n] \in Vals /\ n \in Nodes
        BY <1>1, <2>1 DEF StoredOf, Inv, TypeOK
      <3>2. \A n \in stored : BlockSize(data[n]) \in 0 .. MaxBlock
        <4> TAKE n \in stored
        <4>1. BlockSize(data[n]) \in 1 .. MaxBlock
          BY <3>1, BlockSizeFacts
        <4> QED BY <4>1, MaxSize
      <3>3. w \in [stored -> 0 .. MaxBlock] /\ \A n \in stored : BlockSize(data[n]) = w[n]
        BY <3>2
      <3>4. IsFiniteSet(stored) /\ MaxBlock \in Nat
        BY <2>1, <2>2, MaxSize
      <3>5. Units(stored, w, MaxBlock) = Units(stored, x, MaxBlock)
        <4>1. \A n \in stored : w[n] = x[n]
          BY <3>1
        <4> HIDE DEF w, x
        <4> QED BY <4>1, UnitsAgree
      <3>6. Total(data) = Cardinality(Units(stored, x, MaxBlock))
        BY <2>1 DEF Total
      <3> HIDE DEF w, x
      <3>7. BytesOf(data, stored) = Cardinality(Units(stored, w, MaxBlock))
        BY <3>3, <3>4, SumIsUnits
      <3>8. MapThenSumSet(LAMBDA n : BlockSize(data[n]), stored) = BytesOf(data, stored)
        BY DEF BytesOf, MapThenSumSet, MapThenFoldSet
      <3> QED BY <3>5, <3>6, <3>7, <3>8
    <2> QED BY <2>1, <2>3, <2>4 DEF stored
  <1>2. ASSUME Inv
        PROVE  used_memory < MaxMemory + Max({BlockSize(v) - ValLen[v] : v \in Vals} \cup {0}) + 1
    <2>1. used_memory <= MaxMemory + Slack /\ used_memory \in Nat /\ MaxMemory \in Nat /\ Slack \in Nat
      BY <1>2, SlackFacts, KeyValueAssumption DEF Inv, AccountInv, TypeOK
    <2>2. used_memory < MaxMemory + Slack + 1
      BY <2>1
    <2> QED BY <2>2 DEF Slack
  <1>3. Inv => AccountExact
    BY <1>1, <1>2 DEF AccountExact
  <1> QED BY <1>3, Invariance, PTL

-----------------------------------------------------------------------------
(* The refinement of KvMap *)

\* What key_value_get answers to each key, and whether the call has taken effect.
Answers == [k \in Keys |-> IF Destroyed THEN NULL ELSE key_value_get(k)]
Applied == pc \in {"balance", "account"}

\* What the store answers is what is stored.
LEMMA AnswersAre == Inv => Answers = [k \in Keys |-> IF Destroyed THEN NULL ELSE data[Hash[k]]]
  BY GetIs DEF Answers

\* The same of the next state.
LEMMA AnswersWillBe == Inv' => (Answers = [k \in Keys |-> IF Destroyed THEN NULL ELSE data[Hash[k]]])'
  BY AnswersAre, PTL

\* An empty store answers NULL to every key.
LEMMA MapInit == Init => Map!Init
  <1> SUFFICES ASSUME Init PROVE Map!Init
    OBVIOUS
  <1>1. Answers = [k \in Keys |-> IF Destroyed THEN NULL ELSE data[Hash[k]]]
    BY InitInv, AnswersAre
  <1>2. ~Destroyed /\ ~Applied /\ key = NULL /\ val = NULL /\ \A k \in Keys : data[Hash[k]] = NULL
    BY PosFacts DEF Init, Destroyed, Applied
  <1>3. Answers = [k \in Keys |-> NULL]
    BY <1>1, <1>2
  <1> QED BY <1>2, <1>3 DEF Map!Init, Map!Unset, Answers, Applied

\* Steps that leave the abstract variables alone.
LEMMA MapStutter ==
    ASSUME Inv, Inv', UNCHANGED <<data, key, val>>, Destroyed' <=> Destroyed, Applied' <=> Applied
    PROVE  UNCHANGED Map!vars
  <1>1. Answers = [k \in Keys |-> IF Destroyed THEN NULL ELSE data[Hash[k]]]
    BY AnswersAre
  <1>2. Answers' = [k \in Keys |-> IF Destroyed' THEN NULL ELSE data'[Hash[k]]]
    BY AnswersWillBe
  <1>3. Answers' = Answers
    BY <1>1, <1>2
  <1> QED BY <1>3 DEF Map!vars, Answers, Applied

\* The step at which a set takes effect.
LEMMA MapApply ==
    ASSUME Inv, Inv', pc \in {"insert", "descend"}, pc' \in {"balance", "account"},
           data' = With(data, Hash[key], val), UNCHANGED <<key, val>>
    PROVE  Map!Apply
  <1>1. key \in Keys /\ key # NULL /\ val \in Vals /\ Hash[key] \in Nodes /\ data \in Contents
    BY PosFacts, KeyValueAssumption DEF Inv, CallInv, Calling, TypeOK, Contents
  <1>2. ~Destroyed /\ ~Destroyed' /\ ~Applied /\ Applied'
    BY DEF Destroyed, Applied
  <1>3. Answers = [k \in Keys |-> data[Hash[k]]]
    BY <1>2, AnswersAre
  <1>4. Answers' = [k \in Keys |-> data'[Hash[k]]]
    BY <1>2, AnswersWillBe
  <1>5. \A k \in Keys : data'[Hash[k]] = IF Hash[k] = Hash[key] THEN val ELSE data[Hash[k]]
    BY <1>1, PosFacts DEF With, Contents
  <1>6. Answers' = [k \in Keys |-> IF Hash[k] = Hash[key] THEN val ELSE Answers[k]]
    BY <1>3, <1>4, <1>5
  <1> QED BY <1>1, <1>2, <1>6 DEF Map!Apply, Answers, Applied

\* A step that stores or overwrites a value changes one answer, the steps of the
\* rebalancing and those that fail change none.
LEMMA MapNext == Inv /\ Inv' /\ [Next]_vars => [Map!Next]_(Map!vars)
  <1> SUFFICES ASSUME Inv, Inv', [Next]_vars PROVE Map!Next \/ UNCHANGED Map!vars
    OBVIOUS
  <1> USE DEF storeVars, callVars, Goto
  <1>1. ASSUME NEW k \in Keys, NEW v \in ValsOf[k], Set(k, v)
        PROVE  Map!Next
    <2>1. ~Destroyed /\ ~Destroyed' /\ ~Applied /\ ~Applied' /\ key = NULL /\ v \in Vals
      BY <1>1, KeyValueAssumption DEF Destroyed, Applied, Set, Inv, CallInv, Calling
    <2>2. Answers = [n \in Keys |-> data[Hash[n]]]
      BY <2>1, AnswersAre
    <2>3. Answers' = [n \in Keys |-> data'[Hash[n]]]
      BY <2>1, AnswersWillBe
    <2>4. Answers' = Answers /\ key' = k /\ val' = v
      BY <1>1, <2>2, <2>3 DEF Set
    <2>5. Map!Call(k, v)
      BY <2>1, <2>4 DEF Map!Call, Answers, Applied
    <2> QED BY <2>1, <2>5 DEF Map!Next
  <1>2. CASE NoData
    <2>1. ~Destroyed /\ ~Destroyed' /\ ~Applied /\ ~Applied' /\ key # NULL /\ key' = NULL /\ val' = NULL
      BY <1>2, KeyValueAssumption DEF Destroyed, Applied, NoData, Inv, CallInv, Calling
    <2>2. Answers' = Answers
      <3>1. Answers = [n \in Keys |-> data[Hash[n]]]
        BY <2>1, AnswersAre
      <3>2. Answers' = [n \in Keys |-> data'[Hash[n]]]
        BY <2>1, AnswersWillBe
      <3> QED BY <1>2, <3>1, <3>2 DEF NoData
    <2>3. Map!Fail
      BY <2>1, <2>2 DEF Map!Fail, Answers, Applied
    <2> QED BY <2>3 DEF Map!Next
  <1>3. CASE GetData
    BY <1>3, MapStutter DEF GetData, Destroyed, Applied
  <1>4. CASE InsertRoot
    <2>1. data' = With(data, Hash[key], val) /\ pc = "insert" /\ pc' = "account" /\ UNCHANGED <<key, val>>
      BY <1>4 DEF InsertRoot, With
    <2> QED BY <2>1, MapApply DEF Map!Next
  <1>5. CASE InsertBelow
    BY <1>5, MapStutter DEF InsertBelow, Destroyed, Applied
  <1>6. CASE Descend
    BY <1>6, MapStutter DEF Descend, Destroyed, Applied
  <1>7. CASE AttachLeaf
    <2>1. data' = With(data, Hash[key], val) /\ pc = "descend" /\ pc' = "balance" /\ UNCHANGED <<key, val>>
      BY <1>7 DEF AttachLeaf, With
    <2> QED BY <2>1, MapApply DEF Map!Next
  <1>8. CASE Overwrite
    <2>1. data' = With(data, Hash[key], val) /\ pc = "descend" /\ pc' = "account" /\ UNCHANGED <<key, val>>
      BY <1>8 DEF Overwrite, With
    <2> QED BY <2>1, MapApply DEF Map!Next
  <1>9. CASE BalanceRecolor
    BY <1>9, MapStutter DEF BalanceRecolor, Destroyed, Applied
  <1>10. CASE BalanceRotate
    BY <1>10, MapStutter DEF BalanceRotate, Destroyed, Applied
  <1>11. CASE Balanced
    BY <1>11, MapStutter DEF Balanced, Destroyed, Applied
  <1>12. CASE Account
    <2>1. ~Destroyed /\ ~Destroyed' /\ Applied /\ ~Applied' /\ key' = NULL /\ val' = NULL
      BY <1>12 DEF Destroyed, Applied, Account
    <2>2. Answers' = Answers
      <3>1. Answers = [n \in Keys |-> data[Hash[n]]]
        BY <2>1, AnswersAre
      <3>2. Answers' = [n \in Keys |-> data'[Hash[n]]]
        BY <2>1, AnswersWillBe
      <3> QED BY <1>12, <3>1, <3>2 DEF Account
    <2>3. Map!Succeed
      BY <2>1, <2>2 DEF Map!Succeed, Answers, Applied
    <2> QED BY <2>3 DEF Map!Next
  <1>13. CASE Destroy
    <2>1. ~Destroyed /\ Destroyed' /\ ~Applied /\ ~Applied' /\ key = NULL /\ UNCHANGED <<key, val>>
      BY <1>13 DEF Destroyed, Applied, Destroy, Inv, CallInv, Calling
    <2>2. Answers' = [k \in Keys |-> NULL]
      BY <2>1, AnswersWillBe
    <2>3. Map!Destroy
      BY <2>1, <2>2 DEF Map!Destroy, Map!Unset, Answers, Applied
    <2> QED BY <2>3 DEF Map!Next
  <1>14. CASE DestroyStep
    <2>1. Destroyed /\ Destroyed' /\ ~Applied /\ ~Applied' /\ UNCHANGED <<key, val>>
      BY <1>14 DEF Destroyed, Applied, DestroyStep, DestroyDown, DestroyLeaf, DestroyNext
    <2>2. Answers = [k \in Keys |-> NULL]
      BY <2>1, AnswersAre
    <2>3. Answers' = [k \in Keys |-> NULL]
      BY <2>1, AnswersWillBe
    <2> QED BY <2>1, <2>2, <2>3 DEF Map!vars, Answers, Applied
  <1>15. CASE UNCHANGED vars
    BY <1>15, MapStutter DEF vars, Destroyed, Applied
  <1> QED BY <1>1, <1>2, <1>3, <1>4, <1>5, <1>6, <1>7, <1>8, <1>9, <1>10, <1>11, <1>12,
             <1>13, <1>14, <1>15 DEF Next, SetStep

\* Every behaviour of the store is one of a map: key_value_set takes effect in one step,
\* or not at all, and key_value_get answers with the value last set.
THEOREM Refinement == Spec => ImplementsMap
  BY MapInit, MapNext, Invariance, PTL DEF Spec, ImplementsMap, Map!Spec
=============================================================================
