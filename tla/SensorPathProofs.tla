-------------------------- MODULE SensorPathProofs --------------------------
(***************************************************************************)
(* Proofs that the way of a frame from a node to the backend loses none    *)
(* but those the node counts as lost, for any number of frames, slots,     *)
(* spooled rows, attempts, messages and faults.                            *)
(***************************************************************************)
EXTENDS SensorPath, FiniteSetTheorems, SequenceTheorems, WellFoundedInduction, TLAPS

-----------------------------------------------------------------------------
(* Sequences: a row removed, and the order of age of the slots. *)

LEMMA IsSeqOf ==
    ASSUME NEW S, NEW n \in Nat, NEW t \in [1..n -> S]
    PROVE  t \in Seq(S) /\ Len(t) = n
<1>1. t \in Seq(S)
  OBVIOUS
<1> QED BY <1>1

LEMMA RemoveAtIs ==
    ASSUME NEW S, NEW s \in Seq(S), NEW p \in 1..Len(s)
    PROVE  /\ RemoveAt(s, p) \in Seq(S)
           /\ Len(RemoveAt(s, p)) = Len(s) - 1
           /\ \A j \in 1..(Len(s) - 1) : RemoveAt(s, p)[j] = IF j < p THEN s[j] ELSE s[j + 1]
<1> DEFINE front == SubSeq(s, 1, p - 1)
           back == SubSeq(s, p + 1, Len(s))
<1>0. Len(s) \in Nat /\ p \in Int /\ 1 <= p /\ p <= Len(s)
  OBVIOUS
<1>1. front \in Seq(S) /\ Len(front) = p - 1 /\ \A j \in 1..(p - 1) : front[j] = s[j]
  <2>1. \A j \in 1..(p - 1) : s[j] \in S
    BY <1>0, ElementOfSeq
  <2>2. front \in Seq(S) /\ Len(front) = IF 1 <= p - 1 THEN p - 1 ELSE 0
    BY <1>0, <2>1, SubSeqProperties
  <2>3. \A j \in 1..(p - 1) : front[j] = s[j]
    <3>1. \A j \in 1..((p - 1) - 1 + 1) : front[j] = s[1 + j - 1]
      <4>1. 1 \in Int /\ p - 1 \in Int
        BY <1>0
      <4> HIDE DEF front
      <4> QED BY <4>1, <2>1, SubSeqProperties DEF front
    <3> QED BY <1>0, <3>1
  <2> QED BY <1>0, <2>2, <2>3
<1>2. back \in Seq(S) /\ Len(back) = Len(s) - p /\ \A j \in 1..(Len(s) - p) : back[j] = s[p + j]
  <2>1. \A j \in (p + 1)..Len(s) : s[j] \in S
    BY <1>0, ElementOfSeq
  <2>2. p + 1 \in Int /\ Len(s) \in Int
    BY <1>0
  <2>3. /\ back \in Seq(S) /\ Len(back) = IF p + 1 <= Len(s) THEN Len(s) - (p + 1) + 1 ELSE 0
        /\ \A j \in 1..(Len(s) - (p + 1) + 1) : back[j] = s[p + 1 + j - 1]
    BY <2>1, <2>2, SubSeqProperties
  <2> QED BY <1>0, <2>3
<1> HIDE DEF front, back
<1>3. /\ front \o back \in Seq(S) /\ Len(front \o back) = Len(front) + Len(back)
      /\ \A j \in 1..(Len(front) + Len(back)) :
            (front \o back)[j] = IF j <= Len(front) THEN front[j] ELSE back[j - Len(front)]
  BY <1>1, <1>2, ConcatProperties
<1>4. RemoveAt(s, p) = front \o back
  BY DEF RemoveAt, front, back
<1>5. ASSUME NEW j \in 1..(Len(s) - 1)
      PROVE  (front \o back)[j] = IF j < p THEN s[j] ELSE s[j + 1]
  <2>1. CASE j < p
    BY <1>0, <1>1, <1>2, <1>3, <2>1
  <2>2. CASE ~(j < p)
    <3>1. (front \o back)[j] = back[j - (p - 1)]
      BY <1>0, <1>1, <1>2, <1>3, <2>2
    <3>2. back[j - (p - 1)] = s[p + (j - (p - 1))] /\ p + (j - (p - 1)) = j + 1
      BY <1>0, <1>2, <2>2
    <3> QED BY <2>2, <3>1, <3>2
  <2> QED BY <2>1, <2>2
<1>6. Len(front \o back) = Len(s) - 1
  BY <1>0, <1>1, <1>2, <1>3
<1> QED BY <1>3, <1>4, <1>5, <1>6, Zenon

\* What stays when row p is removed.
LEMMA OthersStay ==
    ASSUME NEW S, NEW s \in Seq(S), NEW p \in 1..Len(s)
    PROVE  /\ \A i \in 1..Len(s) : i # p => \E j \in 1..Len(RemoveAt(s, p)) : RemoveAt(s, p)[j] = s[i]
           /\ \A j \in 1..Len(RemoveAt(s, p)) : \E i \in 1..Len(s) : i # p /\ RemoveAt(s, p)[j] = s[i]
<1>0. Len(s) \in Nat /\ p \in Int /\ 1 <= p /\ p <= Len(s)
  OBVIOUS
<1>1. /\ Len(RemoveAt(s, p)) = Len(s) - 1
      /\ \A j \in 1..(Len(s) - 1) : RemoveAt(s, p)[j] = IF j < p THEN s[j] ELSE s[j + 1]
  BY RemoveAtIs
<1>2. ASSUME NEW i \in 1..Len(s), i # p
      PROVE  \E j \in 1..Len(RemoveAt(s, p)) : RemoveAt(s, p)[j] = s[i]
  <2>1. CASE i < p
    BY <1>0, <1>1, <2>1
  <2>2. CASE ~(i < p)
    <3>1. i - 1 \in 1..(Len(s) - 1) /\ ~(i - 1 < p) /\ (i - 1) + 1 = i
      BY <1>0, <1>2, <2>2
    <3> QED BY <1>1, <3>1
  <2> QED BY <2>1, <2>2
<1>3. ASSUME NEW j \in 1..Len(RemoveAt(s, p))
      PROVE  \E i \in 1..Len(s) : i # p /\ RemoveAt(s, p)[j] = s[i]
  <2>1. CASE j < p
    BY <1>0, <1>1, <2>1
  <2>2. CASE ~(j < p)
    <3>1. j + 1 \in 1..Len(s) /\ j + 1 # p
      BY <1>0, <1>1, <2>2
    <3> QED BY <1>1, <2>2, <3>1
  <2> QED BY <2>1, <2>2
<1> QED BY <1>2, <1>3

LEMMA OrdersIs ==
    ASSUME NEW o, NEW used
    PROVE  Orders(o, used) <=> /\ o \in Seq(1..Slots)
                               /\ \A p \in 1..Len(o) : o[p] \in used
                               /\ \A x \in used : \E p \in 1..Len(o) : o[p] = x
                               /\ \A p, q \in 1..Len(o) : o[p] = o[q] => p = q
<1>1. o \in Seq(1..Slots) => DOMAIN o = 1..Len(o)
  OBVIOUS
<1> QED BY <1>1 DEF Orders, Range, IsInjective

\* A slot that leaves the order.
LEMMA LeavesOrder ==
    ASSUME NEW o, NEW used, Orders(o, used), NEW p \in 1..Len(o)
    PROVE  Orders(RemoveAt(o, p), used \ {o[p]})
<1>1. /\ o \in Seq(1..Slots)
      /\ \A q \in 1..Len(o) : o[q] \in used
      /\ \A x \in used : \E q \in 1..Len(o) : o[q] = x
      /\ \A q, r \in 1..Len(o) : o[q] = o[r] => q = r
  BY OrdersIs
<1>0. Len(o) \in Nat /\ p \in Int /\ 1 <= p /\ p <= Len(o)
  BY <1>1
<1> DEFINE n == RemoveAt(o, p)
<1>2. /\ n \in Seq(1..Slots) /\ Len(n) = Len(o) - 1
      /\ \A j \in 1..(Len(o) - 1) : n[j] = IF j < p THEN o[j] ELSE o[j + 1]
  BY <1>1, RemoveAtIs
<1>3. /\ \A i \in 1..Len(o) : i # p => \E j \in 1..Len(n) : n[j] = o[i]
      /\ \A j \in 1..Len(n) : \E i \in 1..Len(o) : i # p /\ n[j] = o[i]
  BY <1>1, OthersStay
<1> HIDE DEF n
<1>4. \A j \in 1..Len(n) : n[j] \in used \ {o[p]}
  BY <1>1, <1>3
<1>5. \A x \in used \ {o[p]} : \E j \in 1..Len(n) : n[j] = x
  BY <1>1, <1>3
<1>6. ASSUME NEW j \in 1..Len(n), NEW k \in 1..Len(n), n[j] = n[k]
      PROVE  j = k
  <2> DEFINE at(x) == IF x < p THEN x ELSE x + 1
  <2>1. /\ at(j) \in 1..Len(o) /\ n[j] = o[at(j)]
        /\ at(k) \in 1..Len(o) /\ n[k] = o[at(k)]
    BY <1>0, <1>2
  <2>2. at(j) = at(k)
    <3> HIDE DEF at
    <3> QED BY <1>1, <1>6, <2>1
  <2> QED BY <1>0, <1>2, <2>2
<1>7. Orders(n, used \ {o[p]})
  BY <1>2, <1>4, <1>5, <1>6, OrdersIs
<1> QED BY <1>7 DEF n

\* A slot that joins it as the youngest.
LEMMA JoinsOrder ==
    ASSUME NEW o, NEW used, Orders(o, used), NEW i \in 1..Slots, i \notin used
    PROVE  Orders(Append(o, i), used \cup {i})
<1>1. /\ o \in Seq(1..Slots)
      /\ \A q \in 1..Len(o) : o[q] \in used
      /\ \A x \in used : \E q \in 1..Len(o) : o[q] = x
      /\ \A q, r \in 1..Len(o) : o[q] = o[r] => q = r
  BY OrdersIs
<1>0. Len(o) \in Nat
  BY <1>1
<1> DEFINE n == Append(o, i)
<1>2. /\ n \in Seq(1..Slots) /\ Len(n) = Len(o) + 1
      /\ \A q \in 1..Len(o) : n[q] = o[q]
      /\ n[Len(o) + 1] = i
  BY <1>1, AppendProperties
<1> HIDE DEF n
<1>3. \A q \in 1..Len(n) : q \in 1..Len(o) \/ q = Len(o) + 1
  BY <1>0, <1>2
<1>4. \A q \in 1..Len(n) : n[q] \in used \cup {i}
  BY <1>1, <1>2, <1>3
<1>5. ASSUME NEW x \in used \cup {i} PROVE \E q \in 1..Len(n) : n[q] = x
  <2>1. CASE x \in used
    BY <1>0, <1>1, <1>2, <2>1
  <2>2. CASE x = i
    BY <1>0, <1>2, <2>2
  <2> QED BY <2>1, <2>2
<1>6. ASSUME NEW q \in 1..Len(n), NEW r \in 1..Len(n), n[q] = n[r]
      PROVE  q = r
  BY <1>1, <1>2, <1>3, <1>6
<1>7. Orders(n, used \cup {i})
  BY <1>2, <1>4, <1>5, <1>6, OrdersIs
<1> QED BY <1>7 DEF n

\* The eldest slot is the first, and leaves as any other.
LEMMA EldestLeaves ==
    ASSUME NEW o, NEW used, Orders(o, used), used # {}
    PROVE  Head(o) \in used /\ Orders(Tail(o), used \ {Head(o)})
<1>1. o \in Seq(1..Slots) /\ \A q \in 1..Len(o) : o[q] \in used
  BY OrdersIs
<1>2. o # << >> /\ 1 \in 1..Len(o)
  <2>1. \E q \in 1..Len(o) : TRUE
    BY OrdersIs
  <2> QED BY <1>1, <2>1
<1>3. Head(o) = o[1]
  OBVIOUS
<1>4. Tail(o) = RemoveAt(o, 1)
  <2>1. Tail(o) \in Seq(1..Slots) /\ Len(Tail(o)) = Len(o) - 1
        /\ \A j \in 1..Len(Tail(o)) : Tail(o)[j] = o[j + 1]
    BY <1>1, <1>2, HeadTailProperties
  <2>2. RemoveAt(o, 1) \in Seq(1..Slots) /\ Len(RemoveAt(o, 1)) = Len(o) - 1
        /\ \A j \in 1..(Len(o) - 1) : RemoveAt(o, 1)[j] = IF j < 1 THEN o[j] ELSE o[j + 1]
    BY <1>1, <1>2, RemoveAtIs
  <2>3. \A j \in 1..Len(Tail(o)) : Tail(o)[j] = RemoveAt(o, 1)[j]
    BY <2>1, <2>2
  <2> HIDE DEF RemoveAt
  <2> QED BY <2>1, <2>2, <2>3, SeqEqual
<1>5. Orders(RemoveAt(o, 1), used \ {o[1]})
  BY <1>2, LeavesOrder
<1> QED BY <1>1, <1>2, <1>3, <1>4, <1>5

-----------------------------------------------------------------------------
(* The node's buffer. *)

LEMMA FreeIsNotUsed ==
    ASSUME TypeOK
    PROVE  /\ Free = (1..Slots) \ InUse(slots)
           /\ InUse(slots) \subseteq 1..Slots
           /\ Orders(aged, InUse(slots))
BY DEF TypeOK, Free, InUse

\* The first free slot, when there is one.
LEMMA FirstFreeIsFree ==
    ASSUME Free # {}
    PROVE  FirstFree \in Free
<1>1. Free \in SUBSET Nat
  BY PathConstants DEF Free
<1>2. PICK x \in Free : \A y \in Free : ~(<<y, x>> \in OpToRel(<, Nat))
  <2> HIDE DEF OpToRel
  <2> QED BY <1>1, NatLessThanWellFounded, WFMin
<1>3. \A y \in Free : x <= y
  <2>1. \A y \in Free : ~(y < x)
    BY <1>1, <1>2, Zenon DEF OpToRel
  <2> QED BY <1>1, <2>1
<1> QED BY <1>3 DEF FirstFree

\* A frame kept in a free slot.
LEMMA TrackDoes ==
    ASSUME TypeOK, NEW i \in Free, NEW s \in Seqs, Track(i, s)
    PROVE  /\ slots' \in [1..Slots -> Seqs \cup {0}]
           /\ Orders(aged', InUse(slots'))
           /\ Held' = Held \cup {s}
<1>1. i \in 1..Slots /\ i \notin InUse(slots) /\ slots[i] = 0
  BY DEF Free, InUse
<1>2. slots \in [1..Slots -> Seqs \cup {0}] /\ s # 0
  BY PathConstants DEF TypeOK, Seqs
<1>3. slots' = [slots EXCEPT ![i] = s] /\ aged' = Append(aged, i)
  BY DEF Track
<1>4. InUse(slots') = InUse(slots) \cup {i}
  BY <1>1, <1>2, <1>3 DEF InUse
<1>5. Orders(Append(aged, i), InUse(slots) \cup {i})
  BY <1>1, FreeIsNotUsed, JoinsOrder
<1>6. Held' = Held \cup {s}
  <2>1. \A x \in Held' : x \in Held \cup {s}
    BY <1>1, <1>2, <1>3 DEF Held
  <2>2. s \in Held'
    BY <1>1, <1>2, <1>3 DEF Held
  <2>3. ASSUME NEW x \in Held PROVE x \in Held'
    <3>1. PICK j \in 1..Slots : slots[j] = x /\ x # 0
      BY DEF Held
    <3>2. slots'[j] = x
      BY <1>1, <1>2, <1>3, <3>1
    <3> QED BY <3>1, <3>2 DEF Held
  <2> QED BY <2>1, <2>2, <2>3
<1> QED BY <1>2, <1>3, <1>4, <1>5, <1>6

\* The place of a slot in use, and the order without it.
LEMMA WithoutDoes ==
    ASSUME TypeOK, NEW i \in InUse(slots)
    PROVE  Orders(Without(i), InUse(slots) \ {i})
<1>1. Orders(aged, InUse(slots))
  BY DEF TypeOK
<1>2. aged \in Seq(1..Slots) /\ \A x \in InUse(slots) : \E p \in 1..Len(aged) : aged[p] = x
  BY <1>1, OrdersIs
<1>3. DOMAIN aged = 1..Len(aged)
  BY <1>2
<1>4. PICK p : p = CHOOSE q \in DOMAIN aged : aged[q] = i
  OBVIOUS
<1>5. p \in 1..Len(aged) /\ aged[p] = i
  BY <1>2, <1>3, <1>4
<1>6. Orders(RemoveAt(aged, p), InUse(slots) \ {aged[p]})
  BY <1>1, <1>5, LeavesOrder
<1> QED BY <1>4, <1>5, <1>6 DEF Without

\* A frame no longer kept: nothing else leaves the buffer with it.
LEMMA ReleaseDoes ==
    ASSUME TypeOK, NEW i \in InUse(slots), Release(i)
    PROVE  /\ slots' \in [1..Slots -> Seqs \cup {0}]
           /\ Orders(aged', InUse(slots'))
           /\ Held \subseteq Held' \cup {slots[i]}
<1>1. i \in 1..Slots /\ slots \in [1..Slots -> Seqs \cup {0}]
  BY DEF TypeOK, InUse
<1>2. slots' = [slots EXCEPT ![i] = 0] /\ aged' = Without(i)
  BY DEF Release
<1>3. InUse(slots') = InUse(slots) \ {i}
  BY <1>1, <1>2 DEF InUse
<1>4. \A j \in 1..Slots : j # i => slots'[j] = slots[j]
  BY <1>1, <1>2
<1>5. ASSUME NEW x \in Held, x # slots[i] PROVE x \in Held'
  <2>1. PICK j \in 1..Slots : slots[j] = x /\ x # 0
    BY DEF Held
  <2>2. slots'[j] = x
    BY <1>4, <1>5, <2>1
  <2> QED BY <2>1, <2>2 DEF Held
<1>6. slots' \in [1..Slots -> Seqs \cup {0}]
  BY <1>1, <1>2
<1>7. Orders(aged', InUse(slots'))
  BY <1>2, <1>3, WithoutDoes
<1> QED BY <1>5, <1>6, <1>7

\* A frame sent again becomes the youngest.
LEMMA RefreshDoes ==
    ASSUME TypeOK, NEW i \in InUse(slots), slots' = slots, aged' = Append(Without(i), i)
    PROVE  Orders(aged', InUse(slots'))
<1>1. i \in 1..Slots
  BY DEF InUse
<1>2. Orders(Without(i), InUse(slots) \ {i})
  BY WithoutDoes
<1>3. Orders(Append(Without(i), i), (InUse(slots) \ {i}) \cup {i})
  BY <1>1, <1>2, JoinsOrder
<1>4. (InUse(slots) \ {i}) \cup {i} = InUse(slots)
  OBVIOUS
<1> QED BY <1>3, <1>4

\* mqtt_up goes through the slots in use from the first to the last.
LEMMA BySlotOrders ==
    ASSUME NEW f \in [1..Slots -> Seqs \cup {0}], NEW o \in BySlot(f)
    PROVE  Orders(o, InUse(f))
<1> DEFINE n == Cardinality(InUse(f))
<1>1. InUse(f) \in SUBSET Int /\ IsFiniteSet(InUse(f)) /\ n \in Nat
  <2>1. InUse(f) \subseteq 1..Slots
    BY DEF InUse
  <2>2. IsFiniteSet(1..Slots)
    BY PathConstants, FS_Interval
  <2>3. IsFiniteSet(InUse(f))
    BY <2>1, <2>2, FS_Subset
  <2> QED BY <2>1, <2>3, FS_CardinalityType
<1>2. /\ o \in [1..n -> InUse(f)] /\ \A a, b \in 1..n : a < b => o[a] < o[b]
      /\ \A x \in InUse(f) : \E p \in 1..n : o[p] = x
  BY DEF BySlot
<1>4. \A a, b \in 1..n : o[a] = o[b] => a = b
  <2>1. \A a \in 1..n : o[a] \in Int
    BY <1>1, <1>2
  <2> QED BY <1>1, <1>2, <2>1
<1> HIDE DEF n
<1>5. o \in Seq(1..Slots) /\ Len(o) = n
  <2>1. InUse(f) \subseteq 1..Slots
    BY DEF InUse
  <2>2. o \in [1..n -> 1..Slots]
    BY <1>2, <2>1
  <2> QED BY <1>1, <2>2, IsSeqOf
<1> QED BY <1>2, <1>4, <1>5, OrdersIs

\* The frame that takes the place of the eldest one.
LEMMA EvictDoes ==
    ASSUME TypeOK, Free = {}, NEW s \in Seqs,
           slots' = [slots EXCEPT ![Head(aged)] = s], aged' = Append(Tail(aged), Head(aged))
    PROVE  /\ slots' \in [1..Slots -> Seqs \cup {0}]
           /\ Orders(aged', InUse(slots'))
           /\ slots[Head(aged)] \in Seqs
           /\ s \in Held' /\ Held \subseteq Held' \cup {slots[Head(aged)]}
<1>1. InUse(slots) = 1..Slots /\ Orders(aged, InUse(slots)) /\ slots \in [1..Slots -> Seqs \cup {0}]
  BY DEF TypeOK, Free, InUse
<1>2. 1 \in 1..Slots /\ s # 0
  BY PathConstants DEF Seqs
<1>3. Head(aged) \in 1..Slots /\ Orders(Tail(aged), (1..Slots) \ {Head(aged)})
  BY <1>1, <1>2, EldestLeaves
<1>4. PICK h \in 1..Slots : h = Head(aged)
  BY <1>3
<1>5. slots' = [slots EXCEPT ![h] = s] /\ aged' = Append(Tail(aged), h)
  BY <1>4
<1>6. \A j \in 1..Slots : slots'[j] = IF j = h THEN s ELSE slots[j]
  BY <1>1, <1>5
<1>7. slots' \in [1..Slots -> Seqs \cup {0}]
  BY <1>1, <1>5
<1>8. InUse(slots') = 1..Slots
  BY <1>1, <1>2, <1>6 DEF InUse
<1>9. Orders(aged', InUse(slots'))
  <2>1. Orders(Append(Tail(aged), h), ((1..Slots) \ {h}) \cup {h})
    BY <1>3, <1>4, JoinsOrder
  <2>2. ((1..Slots) \ {h}) \cup {h} = 1..Slots
    OBVIOUS
  <2> QED BY <1>5, <1>8, <2>1, <2>2
<1>10. slots[h] \in Seqs
  BY <1>1 DEF InUse
<1>11. s \in Held'
  BY <1>2, <1>6 DEF Held
<1>12. ASSUME NEW x \in Held, x # slots[h] PROVE x \in Held'
  <2>1. PICK j \in 1..Slots : slots[j] = x /\ x # 0
    BY DEF Held
  <2>2. slots'[j] = x
    BY <1>6, <1>12, <2>1
  <2> QED BY <2>1, <2>2 DEF Held
<1> QED BY <1>4, <1>7, <1>9, <1>10, <1>11, <1>12

-----------------------------------------------------------------------------
(* The backend and the broker. *)

\* What is accepted stays accepted, and what was refused stays refused.
Grows ==
    /\ accepted \subseteq accepted' /\ accepted' \subseteq Seqs
    /\ \A x : Behind(x) => Behind(x)'
    /\ \A x : Arrived(x) => Arrived(x)'

LEMMA ReceiveGrows ==
    ASSUME accepted \subseteq Seqs, NEW m \in Seqs \cup {Status},
           UNCHANGED accepted \/ Receive(m)
    PROVE  Grows
<1>1. accepted' = accepted \/ (~Behind(m) /\ m # Status /\ accepted' = accepted \cup {m})
  BY DEF Receive
<1>2. accepted \subseteq accepted' /\ accepted' \subseteq Seqs
  BY <1>1
<1>3. ASSUME NEW x, Behind(x) PROVE Behind(x)'
  <2>1. x # Status /\ x \notin accepted /\ \E t \in accepted : t > x
    BY <1>3 DEF Behind
  <2>2. x \notin accepted'
    BY <1>1, <1>3, <2>1
  <2> QED BY <1>2, <2>1, <2>2 DEF Behind
<1>4. \A x : Arrived(x) => Arrived(x)'
  BY <1>2 DEF Arrived
<1> QED BY <1>2, <1>3, <1>4 DEF Grows

LEMMA UnchangedGrows ==
    ASSUME accepted \subseteq Seqs, UNCHANGED accepted
    PROVE  Grows
BY DEF Grows, Behind, Arrived

\* What an answer says of the frame.
LEMMA AnswerTells ==
    ASSUME NEW m, Receive(m)
    PROVE  /\ Answer(m) = "2xx" => Arrived(m)'
           /\ Answer(m) = "terminal" => Behind(m)
           /\ Answer(m) \in {"2xx", "terminal"}
BY DEF Answer, Receive, Arrived

LEMMA PublishDoes ==
    ASSUME TypeOK, NEW ms \in Seq(Messages), Publish(ms)
    PROVE  broker' \in Seq(Messages) /\ Len(broker') <= BrokerCap
<1> DEFINE all == broker \o ms
           n == IF Len(all) < BrokerCap THEN Len(all) ELSE BrokerCap
<1>1. all \in Seq(Messages)
  BY DEF TypeOK
<1> HIDE DEF all
<1>2. Len(all) \in Nat /\ BrokerCap \in Nat
  BY <1>1, PathConstants
<1>3. n \in Nat /\ n <= Len(all) /\ n <= BrokerCap
  BY <1>2
<1> HIDE DEF n
<1>4. \A i \in 1..n : all[i] \in Messages
  <2>1. \A i \in 1..n : i \in 1..Len(all)
    BY <1>2, <1>3
  <2> QED BY <1>1, <2>1, ElementOfSeq
<1>5. SubSeq(all, 1, n) \in Seq(Messages) /\ Len(SubSeq(all, 1, n)) = IF 1 <= n THEN n - 1 + 1 ELSE 0
  BY <1>3, <1>4, SubSeqProperties
<1>6. broker' = SubSeq(all, 1, n)
  BY DEF Publish, all, n
<1> QED BY <1>3, <1>5, <1>6

LEMMA BrokerTail ==
    ASSUME TypeOK, broker # << >>, broker' = Tail(broker)
    PROVE  broker' \in Seq(Messages) /\ Len(broker') <= BrokerCap /\ Head(broker) \in Messages
<1>1. broker \in Seq(Messages) /\ Len(broker) <= BrokerCap /\ Len(broker) \in Nat
  BY DEF TypeOK
<1>2. Tail(broker) \in Seq(Messages) /\ Len(Tail(broker)) = Len(broker) - 1 /\ Head(broker) \in Messages
  BY <1>1, HeadTailProperties
<1> QED BY <1>1, <1>2, PathConstants

-----------------------------------------------------------------------------
(* What a step of the node, of the broker and of the backend does. *)

NodeTyped ==
    /\ slots \in [1..Slots -> Seqs \cup {0}] /\ Orders(aged, InUse(slots))
    /\ sequence \in 0..MaxSeq /\ linked \in BOOLEAN /\ lost \subseteq Seqs

BrokerTyped == broker \in Seq(Messages) /\ Len(broker) <= BrokerCap

BridgeTyped ==
    /\ spool \in Seq(Rows) /\ Len(spool) <= SpoolCap
    /\ dead \subseteq [frame : Seqs, reason : Reasons]
    /\ worker \in [at : {"poll", "post", "settle", "bury", "ack", "dead"}, row : 0..SpoolCap,
                   answer : Answers, ack : Seqs \cup {Status}]
    /\ taken \subseteq Seqs

LEMMA TypeParts ==
    TypeOK <=> /\ NodeTyped /\ BrokerTyped /\ BridgeTyped
               /\ acks \subseteq Seqs /\ accepted \subseteq Seqs /\ faults \in 0..MaxFaults
BY DEF TypeOK, NodeTyped, BrokerTyped, BridgeTyped

\* The numbers that are accounted for never become fewer, and a new one is
\* accounted for in the step that gives it.
Accounted == Held \cup accepted \cup lost

LEMMA NumberGiven ==
    ASSUME TypeOK, ReleasedIsAccepted, NextNumber,
           Accounted \subseteq Accounted', sequence + 1 \in Accounted'
    PROVE  ReleasedIsAccepted' /\ sequence' \in 0..MaxSeq
<1>1. sequence \in 0..MaxSeq /\ MaxSeq \in Nat /\ sequence < MaxSeq /\ sequence' = sequence + 1
  BY PathConstants DEF TypeOK, NextNumber
<1>2. 1..sequence \subseteq Accounted'
  BY DEF ReleasedIsAccepted, Accounted
<1>3. \A s \in 1..sequence' : s \in 1..sequence \/ s = sequence + 1
  BY <1>1
<1>4. 1..sequence' \subseteq Accounted'
  BY <1>2, <1>3
<1> QED BY <1>1, <1>4 DEF ReleasedIsAccepted, Accounted

LEMMA NextIsNumber ==
    ASSUME TypeOK, NextNumber
    PROVE  sequence + 1 \in Seqs /\ sequence + 1 # Status
BY PathConstants DEF TypeOK, NextNumber, Seqs, Status

LEMMA NumberKept ==
    ASSUME ReleasedIsAccepted, UNCHANGED sequence, Accounted \subseteq Accounted'
    PROVE  ReleasedIsAccepted'
BY DEF ReleasedIsAccepted, Accounted

NodeMoves ==
    /\ NodeTyped' /\ BrokerTyped' /\ faults' \in 0..MaxFaults
    /\ acks' \subseteq accepted'
    /\ Grows /\ ReleasedIsAccepted'

LEMMA EmitMqttMoves ==
    ASSUME PathInv, EmitMqtt
    PROVE  NodeMoves
<1>1. TypeOK /\ ReleasedIsAccepted /\ acks \subseteq accepted
  BY DEF PathInv
<1>2. /\ NextNumber /\ Track(FirstFree, sequence + 1) /\ Publish(<<sequence + 1>>) /\ Free # {}
      /\ UNCHANGED <<linked, lost, acks, accepted, faults>>
  BY DEF EmitMqtt
<1>3. sequence + 1 \in Seqs
  BY <1>1, <1>2, NextIsNumber
<1>4. PICK i \in Free : i = FirstFree
  BY <1>2, FirstFreeIsFree
<1>5. PICK s \in Seqs : s = sequence + 1
  BY <1>3
<1>6. /\ slots' \in [1..Slots -> Seqs \cup {0}] /\ Orders(aged', InUse(slots'))
      /\ Held' = Held \cup {s}
  BY <1>1, <1>2, <1>4, <1>5, TrackDoes
<1>7. BrokerTyped'
  <2>1. <<s>> \in Seq(Messages)
    BY DEF Messages
  <2> QED BY <1>1, <1>2, <1>5, <2>1, PublishDoes DEF BrokerTyped
<1>8. Grows
  BY <1>1, <1>2, UnchangedGrows DEF TypeOK
<1>9. Accounted \subseteq Accounted' /\ sequence + 1 \in Accounted'
  BY <1>2, <1>5, <1>6 DEF Accounted
<1>10. ReleasedIsAccepted' /\ sequence' \in 0..MaxSeq
  BY <1>1, <1>2, <1>9, NumberGiven
<1>11. NodeTyped'
  BY <1>1, <1>2, <1>6, <1>10 DEF NodeTyped, TypeOK
<1>12. faults' \in 0..MaxFaults /\ acks' \subseteq accepted'
  BY <1>1, <1>2 DEF TypeOK
<1> QED BY <1>7, <1>8, <1>10, <1>11, <1>12 DEF NodeMoves

LEMMA EmitReconnectingMoves ==
    ASSUME PathInv, EmitReconnecting
    PROVE  NodeMoves
<1>1. TypeOK /\ ReleasedIsAccepted /\ acks \subseteq accepted
  BY DEF PathInv
<1>2. /\ NextNumber /\ linked' = TRUE /\ Free # {}
      /\ slots' = [slots EXCEPT ![FirstFree] = sequence + 1]
      /\ aged' \in BySlot(slots')
      /\ Publish(<<Status>> \o [n \in DOMAIN aged' |-> slots'[aged'[n]]] \o <<sequence + 1>>)
      /\ UNCHANGED <<lost, acks, accepted, faults>>
  BY DEF EmitReconnecting
<1>4. PICK i \in Free : i = FirstFree
  BY <1>2, FirstFreeIsFree
<1>5. PICK s \in Seqs : s = sequence + 1 /\ s # 0
  BY <1>1, <1>2, NextIsNumber DEF Status
<1>6. i \in 1..Slots /\ slots[i] = 0 /\ slots \in [1..Slots -> Seqs \cup {0}]
  BY <1>1 DEF Free, TypeOK
<1>7. slots' = [slots EXCEPT ![i] = s]
  BY <1>2, <1>4, <1>5
<1>8. slots' \in [1..Slots -> Seqs \cup {0}]
  BY <1>6, <1>7
<1>9. Held \subseteq Held' /\ s \in Held'
  <2>1. \A j \in 1..Slots : slots'[j] = IF j = i THEN s ELSE slots[j]
    BY <1>6, <1>7
  <2>2. s \in Held'
    BY <1>5, <1>6, <2>1 DEF Held
  <2>3. ASSUME NEW x \in Held PROVE x \in Held'
    <3>1. PICK j \in 1..Slots : slots[j] = x /\ x # 0
      BY DEF Held
    <3>2. slots'[j] = x
      BY <1>6, <2>1, <3>1
    <3> QED BY <3>1, <3>2 DEF Held
  <2> QED BY <2>2, <2>3
<1>10. Orders(aged', InUse(slots'))
  BY <1>2, <1>8, BySlotOrders
<1>11. BrokerTyped'
  <2> DEFINE again == [n \in DOMAIN aged' |-> slots'[aged'[n]]]
  <2>1. aged' \in Seq(1..Slots)
    BY <1>10, OrdersIs
  <2>2. Len(aged') \in Nat /\ DOMAIN aged' = 1..Len(aged') /\ \A n \in DOMAIN aged' : aged'[n] \in 1..Slots
    BY <2>1, LenProperties, ElementOfSeq
  <2>3. again \in [1..Len(aged') -> Messages]
    <3>1. \A j \in 1..Slots : slots'[j] \in Messages
      BY <1>8 DEF Messages, Status
    <3> QED BY <2>2, <3>1
  <2>4. again \in Seq(Messages)
    BY <2>2, <2>3, IsSeqOf
  <2>5. <<Status>> \in Seq(Messages) /\ <<s>> \in Seq(Messages)
    BY DEF Messages
  <2>6. Publish(<<Status>> \o again \o <<s>>)
    BY <1>2, <1>5
  <2> HIDE DEF again
  <2>7. <<Status>> \o again \o <<s>> \in Seq(Messages)
    BY <2>4, <2>5, ConcatProperties
  <2> QED BY <1>1, <2>6, <2>7, PublishDoes DEF BrokerTyped
<1>12. Grows
  BY <1>1, <1>2, UnchangedGrows DEF TypeOK
<1>13. Accounted \subseteq Accounted' /\ sequence + 1 \in Accounted'
  BY <1>2, <1>5, <1>9 DEF Accounted
<1>14. ReleasedIsAccepted' /\ sequence' \in 0..MaxSeq
  BY <1>1, <1>2, <1>13, NumberGiven
<1>15. NodeTyped'
  BY <1>1, <1>2, <1>8, <1>10, <1>14 DEF NodeTyped, TypeOK
<1>16. faults' \in 0..MaxFaults /\ acks' \subseteq accepted'
  BY <1>1, <1>2 DEF TypeOK
<1> QED BY <1>11, <1>12, <1>14, <1>15, <1>16 DEF NodeMoves

LEMMA EmitPendingMoves ==
    ASSUME PathInv, EmitPending
    PROVE  NodeMoves
<1>1. TypeOK /\ ReleasedIsAccepted /\ acks \subseteq accepted
  BY DEF PathInv
<1>2. /\ NextNumber /\ Track(FirstFree, sequence + 1) /\ Free # {} /\ linked' = FALSE
      /\ UNCHANGED accepted \/ Receive(sequence + 1)
      /\ UNCHANGED <<broker, lost, acks, faults>>
  BY DEF EmitPending
<1>3. PICK i \in Free : i = FirstFree
  BY <1>2, FirstFreeIsFree
<1>4. PICK s \in Seqs : s = sequence + 1
  BY <1>1, <1>2, NextIsNumber
<1>5. /\ slots' \in [1..Slots -> Seqs \cup {0}] /\ Orders(aged', InUse(slots'))
      /\ Held' = Held \cup {s}
  BY <1>1, <1>2, <1>3, <1>4, TrackDoes
<1>6. Grows
  <2>1. UNCHANGED accepted \/ Receive(s)
    BY <1>2, <1>4
  <2> QED BY <1>1, <2>1, ReceiveGrows DEF TypeOK
<1>7. Accounted \subseteq Accounted' /\ sequence + 1 \in Accounted'
  BY <1>2, <1>4, <1>5, <1>6 DEF Accounted, Grows
<1>8. ReleasedIsAccepted' /\ sequence' \in 0..MaxSeq
  BY <1>1, <1>2, <1>7, NumberGiven
<1>9. NodeTyped'
  BY <1>1, <1>2, <1>5, <1>8 DEF NodeTyped, TypeOK
<1>10. BrokerTyped' /\ faults' \in 0..MaxFaults
  BY <1>1, <1>2 DEF TypeOK, BrokerTyped
<1>11. acks' \subseteq accepted'
  BY <1>1, <1>2, <1>6 DEF Grows
<1> QED BY <1>6, <1>8, <1>9, <1>10, <1>11 DEF NodeMoves

LEMMA EmitHttpMoves ==
    ASSUME PathInv, EmitHttp
    PROVE  NodeMoves
<1>1. TypeOK /\ ReleasedIsAccepted /\ acks \subseteq accepted
  BY DEF PathInv
<1>2. /\ NextNumber /\ linked' = (linked /\ Free = {})
      /\ Answer(sequence + 1) = "2xx" /\ Receive(sequence + 1)
      /\ UNCHANGED <<slots, aged, broker, lost, acks, faults>>
  BY DEF EmitHttp
<1>3. PICK s \in Seqs : s = sequence + 1 /\ s # Status
  BY <1>1, <1>2, NextIsNumber
<1>4. Answer(s) = "2xx" /\ Receive(s)
  BY <1>2, <1>3
<1>5. Grows
  BY <1>1, <1>4, ReceiveGrows DEF TypeOK
<1>6. s \in accepted'
  BY <1>3, <1>4, AnswerTells DEF Arrived
<1>7. Accounted \subseteq Accounted' /\ sequence + 1 \in Accounted'
  BY <1>2, <1>3, <1>5, <1>6 DEF Accounted, Grows, Held
<1>8. ReleasedIsAccepted' /\ sequence' \in 0..MaxSeq
  BY <1>1, <1>2, <1>7, NumberGiven
<1>9. linked' \in BOOLEAN
  BY <1>2
<1>10. NodeTyped'
  <2>1. InUse(slots') = InUse(slots)
    BY <1>2
  <2> QED BY <1>1, <1>2, <1>8, <1>9, <2>1 DEF NodeTyped, TypeOK
<1>11. BrokerTyped' /\ faults' \in 0..MaxFaults
  BY <1>1, <1>2 DEF TypeOK, BrokerTyped
<1>12. acks' \subseteq accepted'
  BY <1>1, <1>2, <1>5 DEF Grows
<1> QED BY <1>5, <1>8, <1>10, <1>11, <1>12 DEF NodeMoves

LEMMA EmitEvictingMoves ==
    ASSUME PathInv, EmitEvicting
    PROVE  NodeMoves
<1>1. TypeOK /\ ReleasedIsAccepted /\ acks \subseteq accepted
  BY DEF PathInv
<1>2. /\ NextNumber /\ Free = {}
      /\ slots' = [slots EXCEPT ![Head(aged)] = sequence + 1]
      /\ aged' = Append(Tail(aged), Head(aged))
      /\ lost' = lost \cup {slots[Head(aged)]}
      /\ UNCHANGED accepted \/ Receive(sequence + 1)
      /\ UNCHANGED <<linked, broker, acks, faults>>
  BY DEF EmitEvicting
<1>3. PICK s \in Seqs : s = sequence + 1
  BY <1>1, <1>2, NextIsNumber
<1>4. slots' = [slots EXCEPT ![Head(aged)] = s]
  BY <1>2, <1>3
<1>5. /\ slots' \in [1..Slots -> Seqs \cup {0}] /\ Orders(aged', InUse(slots'))
      /\ slots[Head(aged)] \in Seqs
      /\ s \in Held' /\ Held \subseteq Held' \cup {slots[Head(aged)]}
  BY <1>1, <1>2, <1>4, EvictDoes
<1>6. Grows
  <2>1. UNCHANGED accepted \/ Receive(s)
    BY <1>2, <1>3
  <2> QED BY <1>1, <2>1, ReceiveGrows DEF TypeOK
<1>7. Accounted \subseteq Accounted' /\ sequence + 1 \in Accounted'
  BY <1>2, <1>3, <1>5, <1>6 DEF Accounted, Grows
<1>8. ReleasedIsAccepted' /\ sequence' \in 0..MaxSeq
  BY <1>1, <1>2, <1>7, NumberGiven
<1>9. lost' \subseteq Seqs
  BY <1>1, <1>2, <1>5 DEF TypeOK
<1>10. NodeTyped'
  BY <1>1, <1>2, <1>5, <1>8, <1>9 DEF NodeTyped, TypeOK
<1>11. BrokerTyped' /\ faults' \in 0..MaxFaults
  BY <1>1, <1>2 DEF TypeOK, BrokerTyped
<1>12. acks' \subseteq accepted'
  BY <1>1, <1>2, <1>6 DEF Grows
<1> QED BY <1>6, <1>8, <1>10, <1>11, <1>12 DEF NodeMoves

\* A slot is freed by an answer that says the backend has its frame.
LEMMA RetryAnsweredMoves ==
    ASSUME PathInv, NEW i \in 1..Slots, RetryAnswered(i)
    PROVE  NodeMoves
<1>1. TypeOK /\ ReleasedIsAccepted /\ acks \subseteq accepted
  BY DEF PathInv
<1>2. /\ slots[i] # 0 /\ Receive(slots[i])
      /\ UNCHANGED <<sequence, linked, lost, broker, acks, faults>>
  BY DEF RetryAnswered
<1>3. i \in InUse(slots) /\ slots[i] \in Seqs /\ slots[i] # Status
  BY <1>1, <1>2 DEF InUse, TypeOK, Status
<1>4. Grows
  BY <1>1, <1>2, <1>3, ReceiveGrows DEF TypeOK
<1>5. /\ slots' \in [1..Slots -> Seqs \cup {0}] /\ Orders(aged', InUse(slots'))
      /\ Held \subseteq Held' \cup accepted'
  <2>1. CASE Answer(slots[i]) = "2xx"
    <3>1. Release(i)
      BY <2>1 DEF RetryAnswered
    <3>2. slots[i] \in accepted'
      BY <1>2, <1>3, <2>1, AnswerTells DEF Arrived
    <3> QED BY <1>1, <1>3, <3>1, <3>2, ReleaseDoes
  <2>2. CASE Answer(slots[i]) # "2xx"
    <3>1. aged' = Append(Without(i), i) /\ slots' = slots
      BY <2>2 DEF RetryAnswered
    <3>2. Orders(aged', InUse(slots'))
      BY <1>1, <1>3, <3>1, RefreshDoes
    <3> QED BY <1>1, <3>1, <3>2 DEF TypeOK, Held
  <2> QED BY <2>1, <2>2
<1>6. Accounted \subseteq Accounted'
  BY <1>2, <1>4, <1>5 DEF Accounted, Grows
<1>7. ReleasedIsAccepted'
  BY <1>1, <1>2, <1>6, NumberKept
<1>8. NodeTyped'
  BY <1>1, <1>2, <1>5 DEF NodeTyped, TypeOK
<1>9. BrokerTyped' /\ faults' \in 0..MaxFaults
  BY <1>1, <1>2 DEF TypeOK, BrokerTyped
<1>10. acks' \subseteq accepted'
  BY <1>1, <1>2, <1>4 DEF Grows
<1> QED BY <1>4, <1>7, <1>8, <1>9, <1>10 DEF NodeMoves

LEMMA RetryUnansweredMoves ==
    ASSUME PathInv, NEW i \in 1..Slots, RetryUnanswered(i)
    PROVE  NodeMoves
<1>1. TypeOK /\ ReleasedIsAccepted /\ acks \subseteq accepted
  BY DEF PathInv
<1>2. /\ slots[i] # 0
      /\ UNCHANGED accepted \/ Receive(slots[i])
      /\ aged' = Append(Without(i), i) /\ slots' = slots
      /\ UNCHANGED <<sequence, linked, lost, broker, acks, faults>>
  BY DEF RetryUnanswered
<1>3. i \in InUse(slots) /\ slots[i] \in Seqs
  BY <1>1, <1>2 DEF InUse, TypeOK
<1>4. Grows
  BY <1>1, <1>2, <1>3, ReceiveGrows DEF TypeOK
<1>5. Orders(aged', InUse(slots'))
  BY <1>1, <1>2, <1>3, RefreshDoes
<1>6. Accounted \subseteq Accounted'
  BY <1>2, <1>4 DEF Accounted, Grows, Held
<1>7. ReleasedIsAccepted'
  BY <1>1, <1>2, <1>6, NumberKept
<1>8. NodeTyped'
  BY <1>1, <1>2, <1>5 DEF NodeTyped, TypeOK
<1>9. BrokerTyped' /\ faults' \in 0..MaxFaults
  BY <1>1, <1>2 DEF TypeOK, BrokerTyped
<1>10. acks' \subseteq accepted'
  BY <1>1, <1>2, <1>4 DEF Grows
<1> QED BY <1>4, <1>7, <1>8, <1>9, <1>10 DEF NodeMoves

LEMMA DisconnectMoves ==
    ASSUME PathInv, Disconnect
    PROVE  NodeMoves
<1>1. TypeOK /\ ReleasedIsAccepted
  BY DEF PathInv
<1>2. /\ linked' = FALSE /\ acks' = {} /\ Publish(<<Status>>)
      /\ UNCHANGED <<slots, aged, sequence, lost, accepted, faults>>
  BY DEF Disconnect
<1>3. Grows
  BY <1>1, <1>2, UnchangedGrows DEF TypeOK
<1>4. BrokerTyped'
  <2>1. <<Status>> \in Seq(Messages)
    BY DEF Messages
  <2> QED BY <1>1, <1>2, <2>1, PublishDoes DEF BrokerTyped
<1>5. NodeTyped'
  <2>1. InUse(slots') = InUse(slots)
    BY <1>2
  <2> QED BY <1>1, <1>2, <2>1 DEF NodeTyped, TypeOK
<1>6. Accounted \subseteq Accounted'
  BY <1>2 DEF Accounted, Held
<1>7. ReleasedIsAccepted'
  BY <1>1, <1>2, <1>6, NumberKept
<1>8. faults' \in 0..MaxFaults /\ acks' \subseteq accepted'
  BY <1>1, <1>2 DEF TypeOK
<1> QED BY <1>3, <1>4, <1>5, <1>7, <1>8 DEF NodeMoves

\* A slot is freed by an acknowledgement, and that comes after the receipt.
LEMMA ReceiveAckMoves ==
    ASSUME PathInv, NEW s \in Seqs, ReceiveAck(s)
    PROVE  NodeMoves
<1>1. TypeOK /\ ReleasedIsAccepted /\ acks \subseteq accepted
  BY DEF PathInv
<1>2. /\ s \in acks /\ acks' \in {acks, acks \ {s}}
      /\ UNCHANGED <<sequence, linked, lost, broker, accepted, faults>>
  BY DEF ReceiveAck
<1>3. Grows
  BY <1>1, <1>2, UnchangedGrows DEF TypeOK
<1>4. /\ slots' \in [1..Slots -> Seqs \cup {0}] /\ Orders(aged', InUse(slots'))
      /\ Held \subseteq Held' \cup accepted'
  <2>1. CASE \E i \in 1..Slots : slots[i] = s
    <3>1. PICK i : i = CHOOSE j \in 1..Slots : slots[j] = s
      OBVIOUS
    <3>2. i \in 1..Slots /\ slots[i] = s
      BY <2>1, <3>1
    <3>3. i \in InUse(slots)
      BY <3>2, PathConstants DEF InUse, Seqs
    <3>4. Release(i)
      BY <2>1, <3>1 DEF ReceiveAck
    <3> QED BY <1>1, <1>2, <3>2, <3>3, <3>4, ReleaseDoes
  <2>2. CASE ~\E i \in 1..Slots : slots[i] = s
    <3>1. UNCHANGED <<slots, aged>>
      BY <2>2 DEF ReceiveAck
    <3>2. InUse(slots') = InUse(slots)
      BY <3>1
    <3> QED BY <1>1, <3>1, <3>2 DEF TypeOK, Held
  <2> QED BY <2>1, <2>2
<1>5. Accounted \subseteq Accounted'
  BY <1>2, <1>4 DEF Accounted
<1>6. ReleasedIsAccepted'
  BY <1>1, <1>2, <1>5, NumberKept
<1>7. NodeTyped'
  BY <1>1, <1>2, <1>4 DEF NodeTyped, TypeOK
<1>8. BrokerTyped' /\ faults' \in 0..MaxFaults
  BY <1>1, <1>2 DEF TypeOK, BrokerTyped
<1>9. acks' \subseteq accepted'
  BY <1>1, <1>2
<1> QED BY <1>3, <1>6, <1>7, <1>8, <1>9 DEF NodeMoves

LEMMA PowerCutMoves ==
    ASSUME PathInv, PowerCut
    PROVE  NodeMoves
<1>1. TypeOK /\ ReleasedIsAccepted
  BY DEF PathInv
<1>2. /\ faults < MaxFaults /\ faults' = faults + 1
      /\ lost' = lost \cup Held
      /\ slots' = [i \in 1..Slots |-> 0] /\ aged' = << >> /\ linked' = FALSE /\ acks' = {}
      /\ UNCHANGED <<sequence, broker, accepted>>
  BY DEF PowerCut
<1>3. Grows
  BY <1>1, <1>2, UnchangedGrows DEF TypeOK
<1>4. slots' \in [1..Slots -> Seqs \cup {0}] /\ InUse(slots') = {}
  BY <1>2 DEF InUse
<1>5. Orders(aged', InUse(slots'))
  <2>1. << >> \in Seq(1..Slots) /\ DOMAIN << >> = {}
    BY EmptySeq
  <2>2. Orders(<< >>, {})
    BY <2>1 DEF Orders, Range, IsInjective
  <2> QED BY <1>2, <1>4, <2>2
<1>6. Held \subseteq Seqs
  BY <1>1 DEF TypeOK, Held
<1>7. NodeTyped'
  BY <1>1, <1>2, <1>4, <1>5, <1>6 DEF NodeTyped, TypeOK
<1>8. Accounted \subseteq Accounted'
  BY <1>2 DEF Accounted
<1>9. ReleasedIsAccepted'
  BY <1>1, <1>2, <1>8, NumberKept
<1>10. BrokerTyped' /\ acks' \subseteq accepted'
  BY <1>1, <1>2 DEF TypeOK, BrokerTyped
<1>11. faults' \in 0..MaxFaults
  BY <1>1, <1>2, PathConstants DEF TypeOK
<1> QED BY <1>3, <1>7, <1>9, <1>10, <1>11 DEF NodeMoves

LEMMA NodeStep ==
    ASSUME PathInv, Node
    PROVE  NodeMoves /\ UNCHANGED bridge
<1>1. CASE EmitMqtt
  BY <1>1, EmitMqttMoves DEF EmitMqtt
<1>2. CASE EmitReconnecting
  BY <1>2, EmitReconnectingMoves DEF EmitReconnecting
<1>3. CASE EmitPending
  BY <1>3, EmitPendingMoves DEF EmitPending
<1>4. CASE EmitHttp
  BY <1>4, EmitHttpMoves DEF EmitHttp
<1>5. CASE EmitEvicting
  BY <1>5, EmitEvictingMoves DEF EmitEvicting
<1>6. ASSUME NEW i \in 1..Slots, RetryAnswered(i)
      PROVE  NodeMoves /\ UNCHANGED bridge
  BY <1>6, RetryAnsweredMoves DEF RetryAnswered
<1>7. ASSUME NEW i \in 1..Slots, RetryUnanswered(i)
      PROVE  NodeMoves /\ UNCHANGED bridge
  BY <1>7, RetryUnansweredMoves DEF RetryUnanswered
<1>8. CASE Disconnect
  BY <1>8, DisconnectMoves DEF Disconnect
<1>9. CASE PowerCut
  BY <1>9, PowerCutMoves DEF PowerCut
<1>10. ASSUME NEW s \in Seqs, ReceiveAck(s)
       PROVE  NodeMoves /\ UNCHANGED bridge
  BY <1>10, ReceiveAckMoves DEF ReceiveAck
<1> QED BY <1>1, <1>2, <1>3, <1>4, <1>5, <1>6, <1>7, <1>8, <1>9, <1>10 DEF Node

\* A step of the bridge leaves the node as it is.
LEMMA NodeRests ==
    ASSUME PathInv, UNCHANGED node, Grows, acks' \subseteq accepted',
           BrokerTyped', faults' \in 0..MaxFaults
    PROVE  NodeMoves
<1>1. TypeOK /\ ReleasedIsAccepted
  BY DEF PathInv
<1>2. UNCHANGED <<slots, aged, sequence, linked, lost>>
  BY DEF node
<1>3. NodeTyped'
  <2>1. InUse(slots') = InUse(slots)
    BY <1>2
  <2> QED BY <1>1, <1>2, <2>1 DEF NodeTyped, TypeOK
<1>4. Accounted \subseteq Accounted'
  BY <1>2 DEF Accounted, Held, Grows
<1>5. ReleasedIsAccepted'
  BY <1>1, <1>2, <1>4, NumberKept
<1> QED BY <1>3, <1>5 DEF NodeMoves

-----------------------------------------------------------------------------
(* What a step of the bridge does. *)

BridgeMoves ==
    /\ BridgeTyped'
    /\ WorkerCarries'
    /\ \A d \in dead' : d.reason = "terminal" => Behind(d.frame)'
    /\ SpooledIsKept'

\* A row of the spool.
LEMMA RowIs ==
    ASSUME TypeOK, NEW r \in DOMAIN spool
    PROVE  /\ r \in 1..Len(spool) /\ r \in 1..SpoolCap /\ spool[r] \in Rows
           /\ spool[r].frame \in Seqs \cup {Status}
           /\ spool[r].attempts \in 0..(MaxAttempts - 1)
<1>1. spool \in Seq(Rows) /\ Len(spool) <= SpoolCap
  BY DEF TypeOK
<1>2. r \in 1..Len(spool) /\ Len(spool) \in Nat
  BY <1>1
<1>3. spool[r] \in Rows
  BY <1>1, <1>2, ElementOfSeq
<1> QED BY <1>1, <1>2, <1>3, PathConstants DEF Rows

\* What the worker carries stays good while its row stays.
LEMMA CarriesOn ==
    ASSUME WorkerCarries, UNCHANGED worker, Grows, dead \subseteq dead',
           \A i \in DOMAIN spool : i \in DOMAIN spool' /\ spool'[i].frame = spool[i].frame
    PROVE  WorkerCarries'
<1>1. PICK r, m : r = worker.row /\ m = spool[r].frame
  OBVIOUS
<1>2. worker.at \in {"post", "settle", "bury"} => r \in DOMAIN spool' /\ spool'[r].frame = m
  BY <1>1 DEF WorkerCarries
<1>3. worker'.at = worker.at /\ worker'.row = r /\ worker'.answer = worker.answer /\ worker'.ack = worker.ack
  BY <1>1
<1>4. worker.at = "settle" /\ worker.answer = "2xx" => Arrived(m)'
  BY <1>1 DEF WorkerCarries, Grows
<1>5. worker.at = "settle" /\ worker.answer = "terminal" => Behind(m)'
  BY <1>1 DEF WorkerCarries, Grows
<1>6. worker.at = "bury" => m \in Buried' \cup {Status}
  BY <1>1 DEF WorkerCarries, Buried
<1>7. worker.at = "ack" => \A k : k = worker.ack => Arrived(k)'
  BY DEF WorkerCarries, Grows
<1>8. worker'.at \in {"post", "settle", "bury"} => worker'.row \in DOMAIN spool'
  BY <1>2, <1>3
<1>9. worker'.at = "settle" /\ worker'.answer = "2xx" => Arrived(spool[worker.row].frame)'
  BY <1>2, <1>3, <1>4 DEF Arrived
<1>10. worker'.at = "settle" /\ worker'.answer = "terminal" => Behind(spool[worker.row].frame)'
  BY <1>2, <1>3, <1>5 DEF Behind
<1>11. worker'.at = "bury" => spool'[worker'.row].frame \in Buried' \cup {Status}
  BY <1>2, <1>3, <1>6
<1>12. worker'.at = "ack" => Arrived(worker.ack)'
  BY <1>3, <1>7 DEF Arrived
<1> QED BY <1>8, <1>9, <1>10, <1>11, <1>12 DEF WorkerCarries

LEMMA RefusalsStand ==
    ASSUME PathInv, Grows,
           \A d \in dead' : d \in dead \/ (d.reason = "terminal" => Behind(d.frame))
    PROVE  \A d \in dead' : d.reason = "terminal" => Behind(d.frame)'
<1>1. ASSUME NEW d \in dead', d.reason = "terminal"
      PROVE  Behind(d.frame)'
  <2>1. Behind(d.frame)
    BY <1>1 DEF PathInv
  <2> QED BY <2>1 DEF Grows
<1> QED BY <1>1

\* Where a frame that was spooled may be.
Kept == {spool[i].frame : i \in DOMAIN spool} \cup Buried \cup accepted

LEMMA KeptStays ==
    ASSUME PathInv, UNCHANGED taken, \A m \in Seqs : m \in Kept => m \in Kept'
    PROVE  SpooledIsKept'
<1>1. taken \subseteq Seqs /\ taken \subseteq Kept
  BY DEF PathInv, TypeOK, SpooledIsKept, Kept, Buried
<1>2. taken' \subseteq Kept'
  BY <1>1
<1> QED BY <1>2 DEF SpooledIsKept, Kept, Buried

LEMMA KeptWhile ==
    ASSUME Grows, dead \subseteq dead',
           \A i \in DOMAIN spool : spool[i].frame \in Kept' \cup {Status}
    PROVE  \A m \in Seqs : m \in Kept => m \in Kept'
<1>1. Buried \subseteq Buried' /\ accepted \subseteq accepted'
  BY DEF Buried, Grows
<1>2. ASSUME NEW m \in Seqs, m \in Kept PROVE m \in Kept'
  <2>1. CASE m \in Buried \/ m \in accepted
    BY <1>1, <2>1 DEF Kept
  <2>2. CASE \E i \in DOMAIN spool : spool[i].frame = m
    <3>1. m # Status
      BY PathConstants DEF Seqs, Status
    <3> QED BY <2>2, <3>1
  <2> QED BY <1>2, <2>1, <2>2 DEF Kept
<1> QED BY <1>2

\* A frame whose row is still there is kept.
LEMMA KeptInSpool ==
    ASSUME NEW j \in DOMAIN spool'
    PROVE  spool'[j].frame \in Kept'
BY DEF Kept

LEMMA BridgeRests ==
    ASSUME PathInv, UNCHANGED bridge, Grows
    PROVE  BridgeMoves
<1>1. UNCHANGED <<spool, dead, worker, taken>>
  BY DEF bridge
<1>2. BridgeTyped'
  BY <1>1 DEF PathInv, TypeOK, BridgeTyped
<1>3. WorkerCarries'
  BY <1>1, CarriesOn DEF PathInv
<1>4. \A d \in dead' : d.reason = "terminal" => Behind(d.frame)'
  BY <1>1, RefusalsStand
<1>5. SpooledIsKept'
  <2>1. \A i \in DOMAIN spool : spool[i].frame \in Kept'
    BY <1>1 DEF Kept
  <2> QED BY <1>1, <2>1, KeptWhile, KeptStays
<1> QED BY <1>2, <1>3, <1>4, <1>5 DEF BridgeMoves

\* A frame is spooled behind the others, or dropped when there is no room.
LEMMA OnMessageMoves ==
    ASSUME PathInv, OnMessage
    PROVE  NodeMoves /\ BridgeMoves
<1>1. TypeOK /\ acks \subseteq accepted /\ WorkerCarries
  BY DEF PathInv
<1>2. /\ broker # << >> /\ broker' = Tail(broker)
      /\ taken' = taken \cup (IF spool' # spool THEN {Head(broker)} \ {Status} ELSE {})
      /\ UNCHANGED <<node, acks, dead, worker, accepted, faults>>
      /\ IF Head(broker) = Stray THEN UNCHANGED spool ELSE Enqueue(Head(broker))
  BY DEF OnMessage
<1>3. Grows
  BY <1>1, <1>2, UnchangedGrows DEF TypeOK
<1>4. BrokerTyped' /\ Head(broker) \in Messages
  BY <1>1, <1>2, BrokerTail DEF BrokerTyped
<1>5. NodeMoves
  <2>1. faults' \in 0..MaxFaults /\ acks' \subseteq accepted'
    BY <1>1, <1>2 DEF TypeOK
  <2> QED BY <1>2, <1>3, <1>4, <2>1, NodeRests
<1>6. CASE spool' = spool
  <2>1. taken' = taken
    BY <1>2, <1>6
  <2>2. UNCHANGED bridge
    BY <1>2, <1>6, <2>1 DEF bridge
  <2> QED BY <1>3, <1>5, <2>2, BridgeRests
<1>7. CASE spool' # spool
  <2>1. PICK m \in Seqs \cup {Status} : m = Head(broker)
    BY <1>2, <1>4, <1>7 DEF Messages
  <2>2. Len(spool) < SpoolCap /\ spool' = Append(spool, [frame |-> m, attempts |-> 0])
    BY <1>2, <1>7, <2>1 DEF Enqueue
  <2>3. PICK row : row = [frame |-> m, attempts |-> 0]
    OBVIOUS
  <2>4. row \in Rows /\ row.frame = m
    BY <2>3, PathConstants DEF Rows
  <2>5. spool \in Seq(Rows) /\ Len(spool) \in Nat
    BY <1>1 DEF TypeOK
  <2>6. /\ spool' \in Seq(Rows) /\ Len(spool') = Len(spool) + 1
        /\ \A i \in 1..Len(spool) : spool'[i] = spool[i]
        /\ spool'[Len(spool) + 1] = row
    BY <2>2, <2>3, <2>4, <2>5, AppendProperties
  <2>7. \A i \in DOMAIN spool : i \in DOMAIN spool' /\ spool'[i].frame = spool[i].frame
    BY <2>5, <2>6
  <2>8. taken' = taken \cup ({m} \ {Status})
    BY <1>2, <1>7, <2>1
  <2>9. BridgeTyped'
    <3>1. Len(spool') <= SpoolCap
      BY <2>2, <2>5, <2>6, PathConstants
    <3>2. taken' \subseteq Seqs
      BY <1>1, <2>8 DEF TypeOK
    <3> QED BY <1>1, <1>2, <2>6, <3>1, <3>2 DEF BridgeTyped, TypeOK
  <2>10. WorkerCarries'
    BY <1>1, <1>2, <1>3, <2>7, CarriesOn
  <2>11. \A d \in dead' : d.reason = "terminal" => Behind(d.frame)'
    BY <1>2, <1>3, RefusalsStand
  <2>12. SpooledIsKept'
    <3>1. \A i \in DOMAIN spool : spool[i].frame \in Kept'
      BY <2>7, KeptInSpool
    <3>2. \A k \in Seqs : k \in Kept => k \in Kept'
      BY <1>2, <1>3, <3>1, KeptWhile
    <3>3. m \in Kept'
      <4>1. Len(spool) + 1 \in DOMAIN spool'
        BY <2>5, <2>6
      <4> QED BY <2>4, <2>6, <4>1, KeptInSpool
    <3>4. taken \subseteq Seqs /\ taken \subseteq Kept
      BY DEF PathInv, TypeOK, SpooledIsKept, Kept, Buried
    <3>5. taken' \subseteq Kept'
      BY <2>8, <3>2, <3>3, <3>4
    <3> QED BY <3>5 DEF SpooledIsKept, Kept, Buried
  <2> QED BY <1>5, <2>9, <2>10, <2>11, <2>12 DEF BridgeMoves
<1> QED BY <1>6, <1>7, <1>5

\* The steps of the worker before it settles what became of the row: the
\* spool and the dead letters stay as they are.
LEMMA PostingMoves ==
    ASSUME PathInv, Grows, WorkerFrame, UNCHANGED <<acks, spool, dead>>, WorkerCarries',
           worker' \in [at : {"poll", "post", "settle", "bury", "ack", "dead"}, row : 0..SpoolCap,
                        answer : Answers, ack : Seqs \cup {Status}]
    PROVE  NodeMoves /\ BridgeMoves
<1>1. TypeOK /\ acks \subseteq accepted
  BY DEF PathInv
<1>2. UNCHANGED <<node, broker, taken, faults>>
  BY DEF WorkerFrame
<1>3. NodeMoves
  <2>1. BrokerTyped' /\ faults' \in 0..MaxFaults /\ acks' \subseteq accepted'
    BY <1>1, <1>2 DEF TypeOK, BrokerTyped, Grows
  <2> QED BY <1>2, <2>1, NodeRests
<1>4. BridgeTyped'
  BY <1>1, <1>2 DEF TypeOK, BridgeTyped
<1>5. \A d \in dead' : d.reason = "terminal" => Behind(d.frame)'
  BY RefusalsStand
<1>6. SpooledIsKept'
  <2>1. \A i \in DOMAIN spool : spool[i].frame \in Kept'
    BY DEF Kept
  <2> QED BY <1>2, <2>1, KeptWhile, KeptStays
<1> QED BY <1>3, <1>4, <1>5, <1>6 DEF BridgeMoves

LEMMA PollingIs ==
    /\ Polling.at = "poll" /\ Polling.row = 0 /\ Polling.answer = "none" /\ Polling.ack = Status
    /\ \A at \in {"poll", "post", "settle", "bury", "ack", "dead"} :
          [Polling EXCEPT !.at = at] \in [at : {"poll", "post", "settle", "bury", "ack", "dead"},
                   row : 0..SpoolCap, answer : Answers, ack : Seqs \cup {Status}]
BY PathConstants DEF Polling, Answers

LEMMA TakeRowMoves ==
    ASSUME PathInv, NEW i \in 1..SpoolCap, TakeRow(i)
    PROVE  NodeMoves /\ BridgeMoves
<1>1. TypeOK /\ WorkerCarries
  BY DEF PathInv
<1>2. /\ i \in DOMAIN spool /\ worker' = [Polling EXCEPT !.at = "post", !.row = i]
      /\ WorkerFrame /\ UNCHANGED <<acks, spool, dead, accepted>>
  BY DEF TakeRow, Ready
<1>3. Grows
  BY <1>1, <1>2, UnchangedGrows DEF TypeOK
<1>4. worker' = [at |-> "post", row |-> i, answer |-> "none", ack |-> Status]
  BY <1>2 DEF Polling
<1>5. WorkerCarries'
  BY <1>2, <1>4 DEF WorkerCarries
<1>6. worker' \in [at : {"poll", "post", "settle", "bury", "ack", "dead"}, row : 0..SpoolCap,
                   answer : Answers, ack : Seqs \cup {Status}]
  BY <1>4, PathConstants DEF Answers
<1> QED BY <1>2, <1>3, <1>5, <1>6, PostingMoves

LEMMA AnsweredIs ==
    ASSUME PathInv, worker.at = "post", NEW a \in Answers, Answered(a)
    PROVE  /\ worker' = [at |-> "settle", row |-> worker.row, answer |-> a, ack |-> worker.ack]
           /\ worker.row \in DOMAIN spool
           /\ worker' \in [at : {"poll", "post", "settle", "bury", "ack", "dead"}, row : 0..SpoolCap,
                           answer : Answers, ack : Seqs \cup {Status}]
<1>1. TypeOK /\ worker.row \in DOMAIN spool
  BY DEF PathInv, WorkerCarries
<1>2. worker' = [worker EXCEPT !.at = "settle", !.answer = a]
  BY DEF Answered
<1>3. worker' = [at |-> "settle", row |-> worker.row, answer |-> a, ack |-> worker.ack]
  BY <1>1, <1>2 DEF TypeOK
<1> QED BY <1>1, <1>3 DEF TypeOK

LEMMA PostAnsweredMoves ==
    ASSUME PathInv, PostAnswered
    PROVE  NodeMoves /\ BridgeMoves
<1>1. TypeOK /\ WorkerCarries
  BY DEF PathInv
<1>2. PICK m : m = spool[worker.row].frame
  OBVIOUS
<1>3. /\ worker.at = "post" /\ Answered(Answer(m)) /\ Receive(m)
      /\ WorkerFrame /\ UNCHANGED <<acks, spool, dead>>
  BY <1>2 DEF PostAnswered
<1>4. worker.row \in DOMAIN spool /\ m \in Seqs \cup {Status}
  BY <1>1, <1>2, <1>3, RowIs DEF WorkerCarries
<1>5. Grows
  BY <1>1, <1>3, <1>4, ReceiveGrows DEF TypeOK
<1>6. PICK a : a = Answer(m)
  OBVIOUS
<1>7. /\ a \in {"2xx", "terminal"} /\ a \in Answers
      /\ a = "2xx" => Arrived(m)'
      /\ a = "terminal" => Behind(m)'
  BY <1>3, <1>5, <1>6, AnswerTells DEF Grows, Answers
<1>8. /\ worker' = [at |-> "settle", row |-> worker.row, answer |-> a, ack |-> worker.ack]
      /\ worker' \in [at : {"poll", "post", "settle", "bury", "ack", "dead"}, row : 0..SpoolCap,
                      answer : Answers, ack : Seqs \cup {Status}]
  BY <1>3, <1>6, <1>7, AnsweredIs
<1>9. worker'.at = "settle" /\ worker'.answer = a /\ spool'[worker'.row].frame = m
  BY <1>2, <1>3, <1>8
<1>10. worker'.row \in DOMAIN spool'
  BY <1>3, <1>4, <1>8
<1>11. worker'.answer = "2xx" => Arrived(spool[worker.row].frame)'
  BY <1>7, <1>9 DEF Arrived
<1>12. worker'.answer = "terminal" => Behind(spool[worker.row].frame)'
  BY <1>7, <1>9 DEF Behind
<1>13. WorkerCarries'
  BY <1>9, <1>10, <1>11, <1>12 DEF WorkerCarries
<1> QED BY <1>3, <1>5, <1>8, <1>13, PostingMoves

LEMMA PostFailedMoves ==
    ASSUME PathInv, PostFailed
    PROVE  NodeMoves /\ BridgeMoves
<1>1. TypeOK
  BY DEF PathInv
<1>2. /\ worker.at = "post" /\ Answered("transient")
      /\ WorkerFrame /\ UNCHANGED <<acks, spool, dead, accepted>>
  BY DEF PostFailed
<1>3. Grows
  BY <1>1, <1>2, UnchangedGrows DEF TypeOK
<1>4. /\ worker' = [at |-> "settle", row |-> worker.row, answer |-> "transient", ack |-> worker.ack]
      /\ worker.row \in DOMAIN spool
      /\ worker' \in [at : {"poll", "post", "settle", "bury", "ack", "dead"}, row : 0..SpoolCap,
                      answer : Answers, ack : Seqs \cup {Status}]
  <2>1. "transient" \in Answers
    BY DEF Answers
  <2> QED BY <1>2, <2>1, AnsweredIs
<1>5. WorkerCarries'
  BY <1>2, <1>4 DEF WorkerCarries
<1> QED BY <1>2, <1>3, <1>4, <1>5, PostingMoves

\* The thread ends; its row stays for the thread that is started next.
LEMMA PostBreaksOffMoves ==
    ASSUME PathInv, PostBreaksOff
    PROVE  NodeMoves /\ BridgeMoves
<1>1. TypeOK /\ WorkerCarries
  BY DEF PathInv
<1>2. PICK m : m = spool[worker.row].frame
  OBVIOUS
<1>3. /\ worker.at = "post" /\ worker' = [Polling EXCEPT !.at = "dead"]
      /\ UNCHANGED accepted \/ Receive(m)
      /\ WorkerFrame
      /\ UNCHANGED <<acks, spool, dead>>
  BY <1>2 DEF PostBreaksOff
<1>4. m \in Seqs \cup {Status}
  BY <1>1, <1>2, <1>3, RowIs DEF WorkerCarries
<1>5. Grows
  BY <1>1, <1>3, <1>4, ReceiveGrows DEF TypeOK
<1>6. worker'.at = "dead"
  BY <1>3 DEF Polling
<1>7. WorkerCarries'
  BY <1>6 DEF WorkerCarries
<1> QED BY <1>3, <1>5, <1>7, PollingIs, PostingMoves

\* The number is acknowledged after the backend has it.
LEMMA PublishAckMoves ==
    ASSUME PathInv, PublishAck
    PROVE  NodeMoves /\ BridgeMoves
<1>1. TypeOK /\ WorkerCarries /\ acks \subseteq accepted
  BY DEF PathInv
<1>2. /\ worker.at = "ack" /\ worker' = Polling
      /\ acks' \in {acks, acks \cup ({worker.ack} \ {Status})}
      /\ UNCHANGED <<node, broker, taken, faults>> /\ UNCHANGED <<spool, dead, accepted>>
  BY DEF PublishAck, WorkerFrame
<1>3. Grows
  BY <1>1, <1>2, UnchangedGrows DEF TypeOK
<1>4. acks' \subseteq accepted'
  BY <1>1, <1>2 DEF WorkerCarries, Arrived
<1>5. NodeMoves
  <2>1. BrokerTyped' /\ faults' \in 0..MaxFaults
    BY <1>1, <1>2 DEF TypeOK, BrokerTyped
  <2> QED BY <1>2, <1>3, <1>4, <2>1, NodeRests
<1>6. BridgeTyped'
  <2>1. worker' \in [at : {"poll", "post", "settle", "bury", "ack", "dead"}, row : 0..SpoolCap,
                     answer : Answers, ack : Seqs \cup {Status}]
    BY <1>2, PathConstants DEF Polling, Answers
  <2> QED BY <1>1, <1>2, <2>1 DEF TypeOK, BridgeTyped
<1>7. WorkerCarries'
  BY <1>2, PollingIs DEF WorkerCarries
<1>8. \A d \in dead' : d.reason = "terminal" => Behind(d.frame)'
  BY <1>2, <1>3, RefusalsStand
<1>9. SpooledIsKept'
  <2>1. \A i \in DOMAIN spool : spool[i].frame \in Kept'
    BY <1>2 DEF Kept
  <2> QED BY <1>2, <1>3, <2>1, KeptWhile, KeptStays
<1> QED BY <1>5, <1>6, <1>7, <1>8, <1>9 DEF BridgeMoves

\* The steps in which the worker settles what became of its row.
LEMMA SettlingMoves ==
    ASSUME PathInv, WorkerFrame, UNCHANGED <<acks, accepted>>
    PROVE  NodeMoves /\ Grows /\ UNCHANGED taken
<1>1. TypeOK /\ acks \subseteq accepted
  BY DEF PathInv
<1>2. UNCHANGED <<node, broker, taken, faults>>
  BY DEF WorkerFrame
<1>3. Grows
  BY <1>1, UnchangedGrows DEF TypeOK
<1>4. BrokerTyped' /\ faults' \in 0..MaxFaults /\ acks' \subseteq accepted'
  BY <1>1, <1>2 DEF TypeOK, BrokerTyped
<1> QED BY <1>2, <1>3, <1>4, NodeRests

\* A row that is deleted takes its frame out of the spool only.
LEMMA RowDeleted ==
    ASSUME PathInv, NEW r \in DOMAIN spool, spool' = RemoveAt(spool, r), Grows,
           dead \subseteq dead', UNCHANGED taken, spool[r].frame \in Kept' \cup {Status}
    PROVE  spool' \in Seq(Rows) /\ Len(spool') <= SpoolCap /\ SpooledIsKept'
<1>1. TypeOK
  BY DEF PathInv
<1>2. spool \in Seq(Rows) /\ Len(spool) <= SpoolCap /\ r \in 1..Len(spool) /\ Len(spool) \in Nat
  BY <1>1, RowIs DEF TypeOK
<1>3. spool' \in Seq(Rows) /\ Len(spool') = Len(spool) - 1
  BY <1>2, RemoveAtIs
<1>4. \A i \in 1..Len(spool) : i # r => \E j \in 1..Len(spool') : spool'[j] = spool[i]
  BY <1>2, OthersStay
<1>5. DOMAIN spool = 1..Len(spool) /\ DOMAIN spool' = 1..Len(spool')
  BY <1>2, <1>3, LenProperties
<1>6. ASSUME NEW i \in DOMAIN spool PROVE spool[i].frame \in Kept' \cup {Status}
  <2>1. CASE i = r
    BY <2>1
  <2>2. CASE i # r
    <3>1. PICK j \in DOMAIN spool' : spool'[j] = spool[i]
      BY <1>4, <1>5, <2>2
    <3>2. spool'[j].frame \in Kept'
      BY KeptInSpool
    <3> QED BY <3>1, <3>2
  <2> QED BY <2>1, <2>2
<1>7. SpooledIsKept'
  BY <1>6, KeptWhile, KeptStays
<1>8. Len(spool') <= SpoolCap
  BY <1>2, <1>3, PathConstants
<1> QED BY <1>3, <1>7, <1>8

LEMMA DeliveredMoves ==
    ASSUME PathInv, Delivered
    PROVE  NodeMoves /\ BridgeMoves
<1>1. TypeOK /\ WorkerCarries
  BY DEF PathInv
<1>2. PICK r, m : r = worker.row /\ m = spool[r].frame
  OBVIOUS
<1>3. /\ worker.at = "settle" /\ worker.answer = "2xx"
      /\ spool' = RemoveAt(spool, r) /\ worker' = [Polling EXCEPT !.at = "ack", !.ack = m]
      /\ WorkerFrame /\ UNCHANGED <<acks, dead, accepted>>
  BY <1>2 DEF Delivered
<1>4. r \in DOMAIN spool /\ Arrived(m)
  BY <1>1, <1>2, <1>3 DEF WorkerCarries
<1>5. m \in Seqs \cup {Status}
  BY <1>1, <1>2, <1>4, RowIs
<1>6. NodeMoves /\ Grows /\ UNCHANGED taken
  BY <1>3, SettlingMoves
<1>7. spool' \in Seq(Rows) /\ Len(spool') <= SpoolCap /\ SpooledIsKept'
  <2>1. m \in Kept' \cup {Status}
    BY <1>3, <1>4 DEF Kept, Arrived
  <2> QED BY <1>2, <1>3, <1>4, <1>6, <2>1, RowDeleted
<1>8. worker' = [at |-> "ack", row |-> 0, answer |-> "none", ack |-> m]
  BY <1>3 DEF Polling
<1>9. WorkerCarries'
  <2>1. Arrived(worker.ack)'
    BY <1>3, <1>4, <1>8 DEF Arrived
  <2> QED BY <1>8, <2>1 DEF WorkerCarries
<1>10. BridgeTyped'
  <2>1. worker' \in [at : {"poll", "post", "settle", "bury", "ack", "dead"}, row : 0..SpoolCap,
                     answer : Answers, ack : Seqs \cup {Status}]
    BY <1>5, <1>8, PathConstants DEF Answers
  <2> QED BY <1>1, <1>3, <1>6, <1>7, <2>1 DEF TypeOK, BridgeTyped
<1>11. \A d \in dead' : d.reason = "terminal" => Behind(d.frame)'
  BY <1>3, <1>6, RefusalsStand
<1> QED BY <1>6, <1>7, <1>9, <1>10, <1>11 DEF BridgeMoves

\* A row deferred keeps its frame, and its attempts stay below the bound.
LEMMA DeferMoves ==
    ASSUME PathInv, Defer
    PROVE  NodeMoves /\ BridgeMoves
<1>1. TypeOK /\ WorkerCarries
  BY DEF PathInv
<1>2. PICK r : r = worker.row
  OBVIOUS
<1>3. /\ worker.at = "settle" /\ ~(spool[r].attempts + 1 >= MaxAttempts)
      /\ spool' = [spool EXCEPT ![r].attempts = @ + 1] /\ worker' = Polling
      /\ WorkerFrame /\ UNCHANGED <<acks, dead, accepted>>
  BY <1>2 DEF Defer, GivesUp
<1>4. r \in DOMAIN spool
  BY <1>1, <1>2, <1>3 DEF WorkerCarries
<1>5. spool \in Seq(Rows) /\ Len(spool) <= SpoolCap /\ r \in 1..Len(spool)
      /\ spool[r] \in Rows /\ spool[r].attempts \in 0..(MaxAttempts - 1)
  BY <1>1, <1>4, RowIs DEF TypeOK
<1>6. NodeMoves /\ Grows /\ UNCHANGED taken
  BY <1>3, SettlingMoves
<1>7. PICK row : row = [spool[r] EXCEPT !.attempts = @ + 1]
  OBVIOUS
<1>8. row \in Rows /\ row.frame = spool[r].frame
  <2>1. row = [frame |-> spool[r].frame, attempts |-> spool[r].attempts + 1]
    BY <1>5, <1>7 DEF Rows
  <2>2. spool[r].attempts + 1 \in 0..(MaxAttempts - 1)
    BY <1>3, <1>5, PathConstants
  <2>3. spool[r].frame \in Seqs \cup {Status}
    BY <1>5 DEF Rows
  <2> QED BY <2>1, <2>2, <2>3 DEF Rows
<1>9. spool' = [spool EXCEPT ![r] = row]
  BY <1>3, <1>7
<1>10. /\ spool' \in Seq(Rows) /\ Len(spool') = Len(spool)
       /\ \A j \in 1..Len(spool) : spool'[j] = IF j = r THEN row ELSE spool[j]
  BY <1>5, <1>8, <1>9, ExceptSeq
<1>11. \A i \in DOMAIN spool : i \in DOMAIN spool' /\ spool'[i].frame = spool[i].frame
  BY <1>5, <1>8, <1>10
<1>12. SpooledIsKept'
  <2>1. \A i \in DOMAIN spool : spool[i].frame \in Kept'
    BY <1>11, KeptInSpool
  <2> QED BY <1>3, <1>6, <2>1, KeptWhile, KeptStays
<1>13. WorkerCarries'
  BY <1>3, PollingIs DEF WorkerCarries
<1>14. BridgeTyped'
  <2>1. worker' \in [at : {"poll", "post", "settle", "bury", "ack", "dead"}, row : 0..SpoolCap,
                     answer : Answers, ack : Seqs \cup {Status}]
    BY <1>3, PathConstants DEF Polling, Answers
  <2> QED BY <1>1, <1>3, <1>5, <1>6, <1>10, <2>1 DEF TypeOK, BridgeTyped
<1>15. \A d \in dead' : d.reason = "terminal" => Behind(d.frame)'
  BY <1>3, <1>6, RefusalsStand
<1> QED BY <1>6, <1>12, <1>13, <1>14, <1>15 DEF BridgeMoves

\* A row is buried before it is deleted, as refused only when it was.
LEMMA InsertDeadLetterMoves ==
    ASSUME PathInv, InsertDeadLetter
    PROVE  NodeMoves /\ BridgeMoves
<1>1. TypeOK /\ WorkerCarries
  BY DEF PathInv
<1>2. PICK r, m : r = worker.row /\ m = spool[r].frame
  OBVIOUS
<1>3. /\ worker.at = "settle"
      /\ dead' = dead \cup {[frame |-> k, reason |-> Reason] : k \in {m} \ {Status}}
      /\ worker' = [worker EXCEPT !.at = "bury"]
      /\ WorkerFrame /\ UNCHANGED <<acks, spool, accepted>>
  BY <1>2 DEF InsertDeadLetter
<1>4. r \in DOMAIN spool /\ (worker.answer = "terminal" => Behind(m))
  BY <1>1, <1>2, <1>3 DEF WorkerCarries
<1>5. m \in Seqs \cup {Status}
  BY <1>1, <1>2, <1>4, RowIs
<1>6. NodeMoves /\ Grows /\ UNCHANGED taken
  BY <1>3, SettlingMoves
<1>7. Reason \in Reasons /\ (Reason = "terminal" => worker.answer = "terminal")
  BY DEF Reason, Reasons
<1>8. worker' = [at |-> "bury", row |-> r, answer |-> worker.answer, ack |-> worker.ack]
  BY <1>1, <1>2, <1>3 DEF TypeOK
<1>9. BridgeTyped'
  <2>1. dead' \subseteq [frame : Seqs, reason : Reasons]
    BY <1>1, <1>3, <1>5, <1>7 DEF TypeOK
  <2>2. worker' \in [at : {"poll", "post", "settle", "bury", "ack", "dead"}, row : 0..SpoolCap,
                     answer : Answers, ack : Seqs \cup {Status}]
    BY <1>1, <1>2, <1>8 DEF TypeOK
  <2> QED BY <1>1, <1>3, <1>6, <2>1, <2>2 DEF TypeOK, BridgeTyped
<1>10. WorkerCarries'
  <2>1. m # Status => [frame |-> m, reason |-> Reason] \in dead'
    BY <1>3
  <2>2. m # Status => \E d \in dead' : d.frame = m
    BY <2>1
  <2>3. m \in Buried' \cup {Status}
    BY <2>2 DEF Buried
  <2>4. worker'.at = "bury" /\ worker'.row = r /\ spool'[r].frame = m /\ r \in DOMAIN spool'
    BY <1>2, <1>3, <1>4, <1>8
  <2> QED BY <2>3, <2>4 DEF WorkerCarries
<1>11. \A d \in dead' : d.reason = "terminal" => Behind(d.frame)'
  <2>1. \A d \in dead' : d \in dead \/ (d.reason = "terminal" => Behind(d.frame))
    BY <1>3, <1>4, <1>7
  <2> QED BY <1>6, <2>1, RefusalsStand
<1>12. SpooledIsKept'
  <2>1. \A i \in DOMAIN spool : spool[i].frame \in Kept'
    BY <1>3 DEF Kept
  <2> QED BY <1>3, <1>6, <2>1, KeptWhile, KeptStays
<1> QED BY <1>6, <1>9, <1>10, <1>11, <1>12 DEF BridgeMoves

LEMMA DeleteBuriedMoves ==
    ASSUME PathInv, DeleteBuried
    PROVE  NodeMoves /\ BridgeMoves
<1>1. TypeOK /\ WorkerCarries
  BY DEF PathInv
<1>2. PICK r : r = worker.row
  OBVIOUS
<1>3. /\ worker.at = "bury" /\ spool' = RemoveAt(spool, r) /\ worker' = Polling
      /\ WorkerFrame /\ UNCHANGED <<acks, dead, accepted>>
  BY <1>2 DEF DeleteBuried
<1>4. r \in DOMAIN spool /\ spool[r].frame \in Buried \cup {Status}
  BY <1>1, <1>2, <1>3 DEF WorkerCarries
<1>5. NodeMoves /\ Grows /\ UNCHANGED taken
  BY <1>3, SettlingMoves
<1>6. spool' \in Seq(Rows) /\ Len(spool') <= SpoolCap /\ SpooledIsKept'
  <2>1. spool[r].frame \in Kept' \cup {Status}
    BY <1>3, <1>4 DEF Kept, Buried
  <2> QED BY <1>3, <1>4, <1>5, <2>1, RowDeleted
<1>7. WorkerCarries'
  BY <1>3, PollingIs DEF WorkerCarries
<1>8. BridgeTyped'
  <2>1. worker' \in [at : {"poll", "post", "settle", "bury", "ack", "dead"}, row : 0..SpoolCap,
                     answer : Answers, ack : Seqs \cup {Status}]
    BY <1>3, PathConstants DEF Polling, Answers
  <2> QED BY <1>1, <1>3, <1>5, <1>6, <2>1 DEF TypeOK, BridgeTyped
<1>9. \A d \in dead' : d.reason = "terminal" => Behind(d.frame)'
  BY <1>3, <1>5, RefusalsStand
<1> QED BY <1>5, <1>6, <1>7, <1>8, <1>9 DEF BridgeMoves

LEMMA RestartBridgeMoves ==
    ASSUME PathInv, RestartBridge
    PROVE  NodeMoves /\ BridgeMoves
<1>1. TypeOK /\ acks \subseteq accepted
  BY DEF PathInv
<1>2. /\ faults < MaxFaults /\ faults' = faults + 1 /\ worker' = Polling
      /\ UNCHANGED <<node, broker, acks, spool, dead, taken, accepted>>
  BY DEF RestartBridge
<1>3. Grows
  BY <1>1, <1>2, UnchangedGrows DEF TypeOK
<1>4. NodeMoves
  <2>1. faults' \in 0..MaxFaults
    BY <1>1, <1>2, PathConstants DEF TypeOK
  <2>2. BrokerTyped' /\ acks' \subseteq accepted'
    BY <1>1, <1>2 DEF TypeOK, BrokerTyped
  <2> QED BY <1>2, <1>3, <2>1, <2>2, NodeRests
<1>5. BridgeTyped'
  <2>1. worker' \in [at : {"poll", "post", "settle", "bury", "ack", "dead"}, row : 0..SpoolCap,
                     answer : Answers, ack : Seqs \cup {Status}]
    BY <1>2, PathConstants DEF Polling, Answers
  <2> QED BY <1>1, <1>2, <2>1 DEF TypeOK, BridgeTyped
<1>6. WorkerCarries'
  BY <1>2, PollingIs DEF WorkerCarries
<1>7. \A d \in dead' : d.reason = "terminal" => Behind(d.frame)'
  BY <1>2, <1>3, RefusalsStand
<1>8. SpooledIsKept'
  <2>1. \A i \in DOMAIN spool : spool[i].frame \in Kept'
    BY <1>2 DEF Kept
  <2> QED BY <1>2, <1>3, <2>1, KeptWhile, KeptStays
<1> QED BY <1>4, <1>5, <1>6, <1>7, <1>8 DEF BridgeMoves

-----------------------------------------------------------------------------
(* The invariant. *)

LEMMA MovesKeepPath ==
    ASSUME PathInv, NodeMoves, BridgeMoves
    PROVE  PathInv'
<1>1. TypeOK'
  <2>1. acks' \subseteq Seqs /\ accepted' \subseteq Seqs
    BY DEF NodeMoves, Grows
  <2>2. NodeTyped' /\ BrokerTyped' /\ BridgeTyped' /\ faults' \in 0..MaxFaults
    BY DEF NodeMoves, BridgeMoves
  <2> QED BY <2>1, <2>2 DEF TypeOK, NodeTyped, BrokerTyped, BridgeTyped
<1>2. \A d \in dead' : d.reason = "terminal" => Behind(d.frame)'
  BY DEF BridgeMoves
<1> QED BY <1>1, <1>2 DEF PathInv, NodeMoves, BridgeMoves

LEMMA PathStarts ==
    ASSUME Init
    PROVE  PathInv
<1>1. InUse(slots) = {}
  BY DEF Init, InUse
<1>2. Orders(aged, InUse(slots))
  <2>1. << >> \in Seq(1..Slots) /\ DOMAIN << >> = {}
    BY EmptySeq
  <2> QED BY <1>1, <2>1 DEF Init, Orders, Range, IsInjective
<1>3. NodeTyped
  <2>1. slots \in [1..Slots -> Seqs \cup {0}]
    BY DEF Init
  <2>2. sequence \in 0..MaxSeq
    BY PathConstants DEF Init
  <2>3. linked \in BOOLEAN /\ lost \subseteq Seqs
    BY DEF Init
  <2> QED BY <1>2, <2>1, <2>2, <2>3 DEF NodeTyped
<1>4. BrokerTyped
  BY PathConstants DEF Init, BrokerTyped
<1>5. BridgeTyped
  BY PathConstants, PollingIs DEF Init, BridgeTyped, Polling, Answers
<1>6. TypeOK
  BY <1>3, <1>4, <1>5, TypeParts, PathConstants DEF Init
<1>7. WorkerCarries
  BY PollingIs DEF Init, WorkerCarries
<1>8. ReleasedIsAccepted
  BY DEF Init, ReleasedIsAccepted
<1>9. SpooledIsKept
  BY DEF Init, SpooledIsKept
<1> QED BY <1>6, <1>7, <1>8, <1>9 DEF Init, PathInv

LEMMA PathStep ==
    ASSUME PathInv, [Next]_vars
    PROVE  PathInv'
<1>1. CASE Node
  <2>1. NodeMoves /\ UNCHANGED bridge
    BY <1>1, NodeStep
  <2>2. BridgeMoves
    BY <2>1, BridgeRests DEF NodeMoves
  <2> QED BY <2>1, <2>2, MovesKeepPath
<1>2. ASSUME BrokerTyped', UNCHANGED <<node, acks, bridge, accepted, faults>>
      PROVE  PathInv'
  <2>1. TypeOK /\ acks \subseteq accepted
    BY DEF PathInv
  <2>2. Grows
    BY <1>2, <2>1, UnchangedGrows DEF TypeOK
  <2>3. NodeMoves
    <3>1. faults' \in 0..MaxFaults /\ acks' \subseteq accepted'
      BY <1>2, <2>1 DEF TypeOK
    <3> QED BY <1>2, <2>2, <3>1, NodeRests
  <2>4. BridgeMoves
    BY <1>2, <2>2, BridgeRests
  <2> QED BY <2>3, <2>4, MovesKeepPath
<1>3. CASE Lose
  <2>1. BrokerTyped'
    BY <1>3, BrokerTail DEF PathInv, Lose, BrokerTyped
  <2> QED BY <1>2, <1>3, <2>1 DEF Lose
<1>4. CASE PublishStray
  <2>1. <<Stray>> \in Seq(Messages)
    BY DEF Messages
  <2>2. BrokerTyped'
    BY <1>4, <2>1, PublishDoes DEF PathInv, PublishStray, BrokerTyped
  <2> QED BY <1>2, <1>4, <2>2 DEF PublishStray
<1>5. CASE OnMessage
  BY <1>5, OnMessageMoves, MovesKeepPath
<1>6. CASE ProcessOnce
  <2>1. NodeMoves /\ BridgeMoves
    BY <1>6, TakeRowMoves, PostAnsweredMoves, PostFailedMoves, PostBreaksOffMoves, DeliveredMoves,
       PublishAckMoves, DeferMoves, InsertDeadLetterMoves, DeleteBuriedMoves DEF ProcessOnce
  <2> QED BY <2>1, MovesKeepPath
<1>7. CASE RestartBridge
  BY <1>7, RestartBridgeMoves, MovesKeepPath
<1>8. CASE UNCHANGED vars
  <2>1. BrokerTyped'
    BY <1>8 DEF PathInv, TypeOK, BrokerTyped, vars
  <2> QED BY <1>2, <1>8, <2>1 DEF vars
<1> QED BY <1>1, <1>3, <1>4, <1>5, <1>6, <1>7, <1>8 DEF Next

-----------------------------------------------------------------------------
\* Always: nothing is acknowledged before the backend has it, the worker acts
\* on what it was answered, and no frame is lost but by the node.
THEOREM PathInvariant == Spec => []PathInv
<1>1. Init => PathInv
  BY PathStarts
<1>2. PathInv /\ [Next]_vars => PathInv'
  BY PathStep
<1> QED BY <1>1, <1>2, PTL DEF Spec

\* The buffer, the broker, the spool and the worker are always well formed;
\* the order of age names every slot in use once.
THEOREM TypeCorrect == Spec => []TypeOK
<1>1. PathInv => TypeOK
  BY DEF PathInv
<1> QED BY <1>1, PathInvariant, PTL

\* No acknowledgement and no answer frees the slot of a frame that the backend
\* does not have.
THEOREM ReleasedWasAccepted == Spec => []ReleasedIsAccepted
<1>1. PathInv => ReleasedIsAccepted
  BY DEF PathInv
<1> QED BY <1>1, PathInvariant, PTL

\* The bridge loses no frame that it spooled, whenever it is stopped.
THEOREM SpooledStaysKept == Spec => []SpooledIsKept
<1>1. PathInv => SpooledIsKept
  BY DEF PathInv
<1> QED BY <1>1, PathInvariant, PTL

\* A frame in the dead letters as refused never reaches the backend by another
\* path.
THEOREM RefusedForGood == Spec => []RefusedStaysRefused
<1>1. PathInv => RefusedStaysRefused
  BY DEF PathInv, RefusedStaysRefused, Behind
<1> QED BY <1>1, PathInvariant, PTL
=============================================================================
