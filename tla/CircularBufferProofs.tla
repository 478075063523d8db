------------------------ MODULE CircularBufferProofs ------------------------
(***************************************************************************)
(* CircularBuffer implements BoundedQueue, for every size of the array and *)
(* every set of elements.                                                  *)
(***************************************************************************)
EXTENDS CircularBuffer, TLAPS

\* The remainder of an index that is at most one round too large.
LEMMA ModOnce ==
  ASSUME NEW n \in Nat \ {0}, NEW y \in 0..2 * n - 1
  PROVE  y % n = IF y < n THEN y ELSE y - n
  <1>1. CASE y < n
    BY <1>1
  <1>2. CASE y >= n
    <2>1. y - n \in 0..n - 1
      BY <1>2
    <2>2. (y - n) % n = y - n
      BY <2>1
    <2>3. y % n = (y - n) % n
      BY <1>2
    <2> QED BY <1>2, <2>2, <2>3
  <1> QED BY <1>1, <1>2

\* How an index moves to the next place of the array.
LEMMA NextIndex ==
  ASSUME NEW i \in -1..S - 1
  PROVE  (i + 1) % S = IF i = S - 1 THEN 0 ELSE i + 1
  <1>1. S \in Nat \ {0}
    BY BufferAssumption
  <1>2. i + 1 \in 0..2 * S - 1
    BY <1>1
  <1>3. (i + 1) % S = IF i + 1 < S THEN i + 1 ELSE i + 1 - S
    BY <1>1, <1>2, ModOnce
  <1> QED BY <1>1, <1>3

\* The indices of a buffer are in order.
Indices(f, b) == f \in -1..S - 1 /\ b \in -1..S - 1 /\ (f = -1 <=> b = -1)

\* The place of the i-th element.
Place(f, i) == IF f + i - 1 < S THEN f + i - 1 ELSE f + i - 1 - S

\* How many elements there are and where they lie.
LEMMA Places ==
  ASSUME NEW f, NEW b, NEW d \in [0..S - 1 -> Elem], Indices(f, b)
  PROVE  /\ Count(f, b) \in 0..S
         /\ Count(f, b) = 0 <=> f = -1
         /\ ContentsOf(d, f, b) \in Seq(Elem)
         /\ Len(ContentsOf(d, f, b)) = Count(f, b)
         /\ \A i \in 1..Count(f, b) :
              /\ Place(f, i) \in 0..S - 1
              /\ ContentsOf(d, f, b)[i] = d[Place(f, i)]
  <1>1. S \in Nat \ {0} /\ f \in -1..S - 1 /\ b \in -1..S - 1 /\ (f = -1 <=> b = -1)
    BY BufferAssumption DEF Indices
  <1>2. Count(f, b) \in 0..S /\ (Count(f, b) = 0 <=> f = -1)
    BY <1>1 DEF Count
  <1>3. ASSUME NEW i \in 1..Count(f, b)
        PROVE  (f + i - 1) % S = Place(f, i) /\ Place(f, i) \in 0..S - 1
    <2> DEFINE k == f + i - 1
    <2>1. k \in 0..2 * S - 1
      BY <1>1, <1>2
    <2>2. k % S = (IF k < S THEN k ELSE k - S)
      <3> HIDE DEF k
      <3> QED BY <1>1, <2>1, ModOnce
    <2>3. Place(f, i) \in 0..S - 1
      BY <1>1, <2>1 DEF Place
    <2>4. Place(f, i) = (IF k < S THEN k ELSE k - S)
      BY <1>1, <1>2 DEF Place
    <2> HIDE DEF k
    <2>5. k % S = Place(f, i)
      BY <2>2, <2>4
    <2> QED BY <2>3, <2>5 DEF k
  <1>4. \A i \in 1..Count(f, b) : ContentsOf(d, f, b)[i] = d[Place(f, i)]
    BY <1>3 DEF ContentsOf
  <1>5. ContentsOf(d, f, b) \in Seq(Elem) /\ Len(ContentsOf(d, f, b)) = Count(f, b)
    BY <1>2, <1>3 DEF ContentsOf
  <1> QED BY <1>2, <1>3, <1>4, <1>5

\* full() and empty() are exact: the buffer holds S elements, or none
\* (CircularBuffer.hpp).
THEOREM FullAndEmptyExact ==
  ASSUME BufTypeOK
  PROVE  /\ full <=> Len(Contents) = S
         /\ empty <=> Contents = <<>>
  <1>1. S \in Nat \ {0} /\ Indices(front, back) /\ data \in [0..S - 1 -> Elem]
    BY BufferAssumption DEF BufTypeOK, Indices
  <1>2. /\ Count(front, back) = 0 <=> front = -1
        /\ Contents \in Seq(Elem) /\ Len(Contents) = Count(front, back)
    BY <1>1, Places DEF Contents
  <1>3. full <=> Count(front, back) = S
    BY <1>1 DEF full, Count, Indices
  <1>4. empty <=> Contents = <<>>
    BY <1>2 DEF empty
  <1> QED BY <1>2, <1>3, <1>4

\* The indices and the array keep their types (push_back, pop_back).
LEMMA TypeStep == BufTypeOK /\ [BufNext]_bufVars => BufTypeOK'
  <1> SUFFICES ASSUME BufTypeOK, [BufNext]_bufVars PROVE BufTypeOK'
    OBVIOUS
  <1>1. S \in Nat \ {0} /\ front \in -1..S - 1 /\ back \in -1..S - 1
        /\ (front = -1 <=> back = -1) /\ data \in [0..S - 1 -> Elem]
    BY BufferAssumption DEF BufTypeOK
  <1>2. ASSUME NEW what \in Elem, push_back(what) PROVE BufTypeOK'
    <2>1. back' = IF back = S - 1 THEN 0 ELSE back + 1
      BY <1>1, <1>2, NextIndex DEF push_back
    <2>2. back' \in 0..S - 1
      BY <1>1, <2>1
    <2>3. front' \in 0..S - 1
      BY <1>1, <1>2 DEF push_back
    <2>4. data' \in [0..S - 1 -> Elem]
      BY <1>1, <1>2, <2>2 DEF push_back
    <2> QED BY <1>1, <2>2, <2>3, <2>4 DEF BufTypeOK
  <1>3. CASE pop_back
    <2>1. (front + 1) % S = IF front = S - 1 THEN 0 ELSE front + 1
      BY <1>1, NextIndex
    <2> QED BY <1>1, <1>3, <2>1 DEF pop_back, empty, BufTypeOK
  <1>4. CASE UNCHANGED bufVars
    BY <1>4 DEF bufVars, BufTypeOK
  <1> QED BY <1>2, <1>3, <1>4 DEF BufNext

\* The invariant of the buffer (CircularBuffer.hpp).
THEOREM BufType == BufSpec => []BufTypeOK
  <1>1. BufInit => BufTypeOK
    BY BufferAssumption DEF BufInit, BufTypeOK
  <1> QED BY <1>1, TypeStep, PTL DEF BufSpec

\* push_back appends to the queue, which has room (push_back).
LEMMA PushAppends ==
  ASSUME BufTypeOK, NEW what \in Elem, push_back(what)
  PROVE  Len(Contents) < S /\ Contents' = Append(Contents, what)
  <1> DEFINE n == Count(front, back)
  <1>1. S \in Nat \ {0} /\ Indices(front, back) /\ data \in [0..S - 1 -> Elem]
    BY BufferAssumption DEF BufTypeOK, Indices
  <1>2. Indices(front', back') /\ data' \in [0..S - 1 -> Elem]
    BY TypeStep DEF BufNext, BufTypeOK, Indices
  <1>3. /\ n \in 0..S /\ (n = 0 <=> front = -1)
        /\ Contents \in Seq(Elem) /\ Len(Contents) = n
        /\ \A i \in 1..n : Place(front, i) \in 0..S - 1 /\ Contents[i] = data[Place(front, i)]
    BY <1>1, Places DEF Contents
  <1>4. n < S
    BY <1>1, <1>3, FullAndEmptyExact DEF push_back
  <1>5. back' = (IF back = S - 1 THEN 0 ELSE back + 1)
        /\ front' = (IF front = -1 THEN 0 ELSE front)
        /\ data' = [data EXCEPT ![back'] = what]
    BY <1>1, NextIndex DEF push_back, Indices
  <1>6. Count(front', back') = n + 1
    BY <1>1, <1>4, <1>5 DEF Count, Indices
  <1>7. /\ Contents' \in Seq(Elem) /\ Len(Contents') = n + 1
        /\ \A i \in 1..n + 1 : Contents'[i] = data'[Place(front', i)]
    BY <1>2, <1>6, Places DEF Contents
  <1>8. Contents'[n + 1] = what
    <2>1. Place(front', n + 1) = back' /\ back' \in 0..S - 1
      BY <1>1, <1>3, <1>4, <1>5 DEF Count, Place, Indices
    <2>2. n + 1 \in 1..n + 1
      BY <1>1, <1>3
    <2> QED BY <1>1, <1>5, <1>7, <2>1, <2>2
  <1>9. ASSUME NEW i \in 1..n PROVE Contents'[i] = Contents[i]
    <2>1. front # -1 /\ front' = front /\ i \in 1..n + 1
      BY <1>1, <1>3, <1>5 DEF Indices
    <2>2. Place(front, i) # back'
      BY <1>1, <1>3, <1>4, <1>5, <2>1 DEF Count, Place, Indices
    <2> QED BY <1>1, <1>3, <1>5, <1>7, <2>1, <2>2
  <1> QED BY <1>1, <1>3, <1>4, <1>7, <1>8, <1>9

\* pop_back removes the head of the queue, which is what it returns (pop_back).
LEMMA PopTakesHead ==
  ASSUME BufTypeOK, pop_back
  PROVE  Contents # <<>> /\ Contents' = Tail(Contents) /\ popped = Head(Contents)
  <1> DEFINE n == Count(front, back)
  <1>1. S \in Nat \ {0} /\ Indices(front, back) /\ data \in [0..S - 1 -> Elem]
    BY BufferAssumption DEF BufTypeOK, Indices
  <1>2. Indices(front', back') /\ data' \in [0..S - 1 -> Elem]
    BY TypeStep DEF BufNext, BufTypeOK, Indices
  <1>3. /\ n \in 1..S /\ front # -1
        /\ Contents \in Seq(Elem) /\ Len(Contents) = n
        /\ \A i \in 1..n : Place(front, i) \in 0..S - 1 /\ Contents[i] = data[Place(front, i)]
    <2>1. front # -1
      BY DEF pop_back, empty
    <2>2. /\ n \in 0..S /\ (n = 0 <=> front = -1)
          /\ Contents \in Seq(Elem) /\ Len(Contents) = n
          /\ \A i \in 1..n : Place(front, i) \in 0..S - 1 /\ Contents[i] = data[Place(front, i)]
      BY <1>1, Places DEF Contents
    <2> QED BY <1>1, <2>1, <2>2
  <1>4. front' = (IF front = back THEN -1 ELSE IF front = S - 1 THEN 0 ELSE front + 1)
        /\ back' = (IF front = back THEN -1 ELSE back) /\ data' = data
    BY <1>1, NextIndex DEF pop_back, Indices
  <1>5. Count(front', back') = n - 1
    BY <1>1, <1>3, <1>4 DEF Count, Indices
  <1>6. /\ Contents' \in Seq(Elem) /\ Len(Contents') = n - 1
        /\ \A i \in 1..n - 1 : Contents'[i] = data'[Place(front', i)]
    BY <1>2, <1>5, Places DEF Contents
  <1>7. ASSUME NEW i \in 1..n - 1 PROVE Contents'[i] = Contents[i + 1]
    <2>1. front # back /\ i + 1 \in 1..n
      BY <1>1, <1>3 DEF Count, Indices
    <2>2. Place(front', i) = Place(front, i + 1)
      BY <1>1, <1>3, <1>4, <2>1 DEF Place, Indices
    <2> QED BY <1>3, <1>4, <1>6, <2>1, <2>2
  <1>8. Contents # <<>> /\ Contents' = Tail(Contents)
    BY <1>1, <1>3, <1>6, <1>7
  <1>9. popped = Head(Contents)
    <2>1. 1 \in 1..n /\ Place(front, 1) = front
      BY <1>1, <1>3 DEF Place, Indices
    <2> QED BY <1>3, <2>1 DEF popped
  <1> QED BY <1>8, <1>9

\* The ring of an array and two indices is a first-in first-out queue of at
\* most S elements (CircularBuffer.hpp).
THEOREM BufferIsQueue == BufSpec => FifoSpec
  <1>1. BufInit => Queue!Init
    BY DEF BufInit, Queue!Init, Contents, ContentsOf, Count
  <1>2. BufTypeOK /\ [BufNext]_bufVars => [Queue!Next]_Contents
    <2> SUFFICES ASSUME BufTypeOK, [BufNext]_bufVars PROVE [Queue!Next]_Contents
      OBVIOUS
    <2>1. ASSUME NEW what \in Elem, push_back(what) PROVE Queue!Next
      BY <2>1, PushAppends DEF Queue!Next, Queue!Put
    <2>2. CASE pop_back
      BY <2>2, PopTakesHead DEF Queue!Next, Queue!Get
    <2>3. CASE UNCHANGED bufVars
      BY <2>3 DEF bufVars, Contents
    <2> QED BY <2>1, <2>2, <2>3 DEF BufNext
  <1> QED BY <1>1, <1>2, BufType, PTL DEF BufSpec, FifoSpec, Queue!Spec
=============================================================================
