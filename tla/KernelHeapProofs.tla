-------------------------- MODULE KernelHeapProofs --------------------------
(***************************************************************************)
(* Proofs about KernelHeap, for any heap, any requests and any alignments. *)
(***************************************************************************)
EXTENDS KernelHeap, TLAPS

LEMMA AlignUpBounds ==
  ASSUME NEW n \in Nat, NEW align \in Nat \ {0}
  PROVE  /\ align_up(n, align) \in Nat
         /\ n <= align_up(n, align) /\ align_up(n, align) <= n + (align - 1)
<1>1. PICK x \in Nat : x = n + align - 1
  OBVIOUS
<1>2. PICK q \in Int : q = x \div align
  OBVIOUS
<1>3. q >= 0 /\ q * align <= x /\ x < q * align + align
  BY <1>1, <1>2, SMT
<1>4. q * align \in Int
  OBVIOUS
<1>5. align_up(n, align) = q * align
  BY <1>1, <1>2 DEF align_up
<1> QED
  BY <1>1, <1>3, <1>4, <1>5

LEMMA HeapConstants ==
  /\ startAddress \in Nat /\ startAddress > 0 /\ endAddress \in Nat
  /\ HeaderSize = 20 /\ MINIMAL_SPLIT_SIZE = 4
  BY HeapAssumption DEF HeaderSize, MINIMAL_SPLIT_SIZE

(* Where blocks lie. *)
LEMMA Layout ==
  ASSUME TypeOK, ListSound, NEW b \in Blocks
  PROVE  /\ b \in Nat /\ b > 0 /\ header[b] \in MemoryHeader
         /\ Limit(b) \in Nat /\ Limit(b) <= endAddress
         /\ b + HeaderSize + header[b].size <= Limit(b)
         /\ header[b].next # Null => /\ header[b].next \in Blocks
                                     /\ header[b].next > b
                                     /\ header[b].next = Limit(b)
         /\ b >= startAddress
<1>1. b \in startAddress..(endAddress - HeaderSize) /\ header[b] \in MemoryHeader
  BY DEF TypeOK
<1>2. b \in Nat /\ b > 0 /\ b >= startAddress
  BY <1>1, HeapConstants
<1>3. header[b].next \in Nat /\ header[b].size \in Nat
  BY <1>1 DEF MemoryHeader
<1>4. b + HeaderSize + header[b].size <= Limit(b)
  BY DEF ListSound
<1>5. CASE header[b].next = Null
  BY <1>1, <1>2, <1>4, <1>5, HeapAssumption DEF Limit
<1>6. CASE header[b].next # Null
  <2>1. header[b].next \in Blocks /\ Limit(b) = header[b].next
    BY <1>6 DEF ListSound, Limit
  <2>2. header[b].next <= endAddress
    <3>1. header[b].next \in startAddress..(endAddress - HeaderSize)
      BY <2>1, Zenon DEF TypeOK
    <3>2. PICK x \in Nat : x = header[b].next
      BY <1>3
    <3>3. x \in startAddress..(endAddress - 20)
      BY <3>1, <3>2, HeapConstants
    <3>4. x <= endAddress
      BY <3>3, HeapConstants
    <3> QED
      BY <3>2, <3>4
  <2> QED
    BY <1>1, <1>2, <1>3, <1>4, <2>1, <2>2 DEF HeaderSize
<1> QED
  BY <1>5, <1>6

(***************************************************************************)
(* TakeBlock: a free block that is large enough becomes allocated; the     *)
(* other blocks keep their size and whether they are allocated.            *)
(***************************************************************************)
LEMMA TakeBlockSplit ==
  ASSUME TypeOK, ListSound, Coalesced, NEW b \in Blocks, ~header[b].allocated,
         NEW size \in Nat, TakeBlock(b, size),
         header[b].size >= size + HeaderSize + MINIMAL_SPLIT_SIZE
  PROVE  /\ Blocks' \subseteq startAddress..(endAddress - HeaderSize)
         /\ header' \in [Blocks' -> MemoryHeader]
         /\ ListSound' /\ Coalesced'
         /\ Blocks \subseteq Blocks'
         /\ header'[b].allocated /\ header'[b].size = size
         /\ \A a \in Blocks \ {b} : /\ header'[a].allocated = header[a].allocated
                                    /\ header'[a].size = header[a].size
         /\ \A a \in Blocks' \ Blocks : ~header'[a].allocated
<1>1. PICK h \in MemoryHeader : h = header[b]
  BY DEF TypeOK
<1>2. PICK n : n = b + size + HeaderSize
  OBVIOUS
<1>3. /\ b \in Nat /\ b > 0 /\ Limit(b) \in Nat /\ Limit(b) <= endAddress
      /\ b + HeaderSize + h.size <= Limit(b) /\ h.size \in Nat /\ b >= startAddress
  BY <1>1, Layout DEF MemoryHeader
<1>4. /\ n \in Nat /\ b < n /\ n + HeaderSize <= Limit(b)
      /\ n \in startAddress..(endAddress - HeaderSize)
      /\ h.size - size - HeaderSize \in Nat
  <2>1. h.size >= size + 20 + 4
    BY <1>1, HeapConstants
  <2>2. n = b + size + 20 /\ b + 20 + h.size <= Limit(b)
    BY <1>2, <1>3, HeapConstants
  <2>3. n \in Nat /\ b < n /\ n + 20 <= Limit(b) /\ h.size - size - 20 \in Nat
    BY <1>3, <2>1, <2>2
  <2>4. n \in startAddress..(endAddress - 20)
    BY <1>3, <2>3, HeapConstants
  <2> QED
    BY <2>3, <2>4, HeapConstants
<1>5. n \notin Blocks /\ n # b /\ n # Null
  <2>1. \A c \in Blocks : c <= b \/ c >= Limit(b)
    BY DEF ListSound
  <2>2. ~(n <= b) /\ ~(n >= Limit(b)) /\ n # 0
    BY <1>3, <1>4, HeapConstants
  <2> QED
    BY <2>1, <2>2 DEF Null
<1>6. PICK rest \in MemoryHeader :
         rest = [next |-> h.next, prev |-> b, allocated |-> FALSE,
                 size |-> h.size - size - HeaderSize]
  BY <1>3, <1>4, Zenon DEF MemoryHeader
<1>7. PICK taken \in MemoryHeader :
         taken = [h EXCEPT !.next = n, !.allocated = TRUE, !.size = size]
  BY <1>4, Zenon DEF MemoryHeader
<1>8. header' = [a \in Blocks \cup {n} |->
                   IF a = b THEN taken
                   ELSE IF a = n THEN rest
                   ELSE IF a = h.next THEN [header[a] EXCEPT !.prev = n]
                   ELSE header[a]]
  BY <1>1, <1>2, <1>6, <1>7 DEF TakeBlock
<1>9. Blocks' = Blocks \cup {n}
  BY <1>8 DEF Blocks
<1>10. /\ header'[b].next = n /\ header'[b].prev = h.prev
       /\ header'[b].allocated = TRUE /\ header'[b].size = size
       /\ header'[n].next = h.next /\ header'[n].prev = b
       /\ header'[n].allocated = FALSE
       /\ header'[n].size = h.size - size - HeaderSize
  BY <1>5, <1>6, <1>7, <1>8, Zenon DEF MemoryHeader
<1>11. \A a \in Blocks \ {b} :
          /\ header'[a] \in MemoryHeader
          /\ header'[a].next = header[a].next /\ header'[a].size = header[a].size
          /\ header'[a].allocated = header[a].allocated
          /\ a = h.next => header'[a].prev = n
          /\ a # h.next => header'[a].prev = header[a].prev
  <2> SUFFICES ASSUME NEW a \in Blocks \ {b}
               PROVE  /\ header'[a] \in MemoryHeader
                      /\ header'[a].next = header[a].next
                      /\ header'[a].size = header[a].size
                      /\ header'[a].allocated = header[a].allocated
                      /\ a = h.next => header'[a].prev = n
                      /\ a # h.next => header'[a].prev = header[a].prev
    OBVIOUS
  <2>1. header[a] \in MemoryHeader /\ a # n
    BY <1>5 DEF TypeOK
  <2>2. CASE a = h.next
    BY <1>4, <1>8, <2>1, <2>2 DEF MemoryHeader
  <2>3. CASE a # h.next
    BY <1>8, <2>1, <2>3
  <2> QED
    BY <2>2, <2>3
<1>12. header' \in [Blocks' -> MemoryHeader]
  BY <1>5, <1>6, <1>7, <1>8, <1>9, <1>11, Zenon
<1>13. /\ Limit(b)' = n /\ Limit(n)' = Limit(b)
       /\ \A a \in Blocks \ {b} : Limit(a)' = Limit(a)
  BY <1>1, <1>5, <1>10, <1>11 DEF Limit
<1>14. Coalesced'
  <2> SUFFICES ASSUME NEW a \in Blocks', header'[a].next # Null, ~header'[a].allocated
               PROVE  header'[header'[a].next].allocated
    BY DEF Coalesced
  <2>1. a # b
    BY <1>10
  <2>2. CASE a = n
    <3>1. h.next # Null /\ h.next \in Blocks /\ header[h.next].allocated
      BY <1>1, <1>10, <2>2 DEF Coalesced, ListSound
    <3>2. h.next # b
      BY <1>1, <3>1
    <3> QED
      BY <1>10, <1>11, <2>2, <3>1, <3>2
  <2>3. CASE a # n
    <3>1. a \in Blocks \ {b} /\ header[a].next = header'[a].next
      BY <1>9, <1>11, <2>1, <2>3
    <3>2. header[a].next \in Blocks /\ header[header[a].next].allocated
      BY <1>11, <3>1 DEF Coalesced, ListSound
    <3> QED
      BY <1>10, <1>11, <3>1, <3>2
  <2> QED
    BY <2>2, <2>3
<1>15. ListSound'
  <2>1. startAddress \in Blocks'
    BY <1>9 DEF ListSound
  <2>2. ASSUME NEW a \in Blocks'
        PROVE  a + HeaderSize + header'[a].size <= Limit(a)'
    <3>1. CASE a = b
      BY <1>2, <1>3, <1>10, <1>13, <3>1 DEF HeaderSize
    <3>2. CASE a = n
      BY <1>2, <1>3, <1>10, <1>13, <3>2 DEF HeaderSize
    <3>3. CASE a \in Blocks \ {b}
      BY <1>11, <1>13, <3>3 DEF ListSound
    <3> QED
      BY <1>9, <3>1, <3>2, <3>3
  <2>3. ASSUME NEW a \in Blocks', NEW c \in Blocks'
        PROVE  c <= a \/ c >= Limit(a)'
    <3>1. \A x \in Blocks : x \in Nat /\ Limit(x) \in Nat
      BY Layout
    <3>2. \A x, y \in Blocks : y <= x \/ y >= Limit(x)
      BY DEF ListSound
    <3>3. CASE a = b
      BY <1>3, <1>4, <1>9, <1>13, <3>1, <3>2, <3>3 DEF HeaderSize
    <3>4. CASE a = n
      BY <1>3, <1>4, <1>9, <1>13, <3>1, <3>2, <3>4
    <3>5. CASE a \in Blocks \ {b} /\ c \in Blocks
      BY <1>13, <3>2, <3>5
    <3>6. CASE a \in Blocks \ {b} /\ c = n
      <4>1. a <= b \/ a >= Limit(b)
        BY <3>2, <3>6
      <4>2. b <= a \/ b >= Limit(a)
        BY <3>2, <3>6
      <4> QED
        BY <1>3, <1>4, <1>13, <3>1, <3>6, <4>1, <4>2 DEF HeaderSize
    <3> QED
      BY <1>9, <3>3, <3>4, <3>5, <3>6
  <2>4. ASSUME NEW a \in Blocks', header'[a].next # Null
        PROVE  header'[a].next \in Blocks' /\ header'[header'[a].next].prev = a
    <3>1. CASE a = b
      BY <1>9, <1>10, <3>1
    <3>2. CASE a = n
      <4>1. h.next \in Blocks /\ h.next # b
        BY <1>1, <1>10, <2>4, <3>2, Layout DEF ListSound
      <4> QED
        BY <1>9, <1>10, <1>11, <3>2, <4>1
    <3>3. CASE a \in Blocks \ {b}
      <4>1. PICK x : x = header[a].next /\ x = header'[a].next
        BY <1>11, <3>3
      <4>2. x \in Blocks /\ header[x].prev = a
        BY <2>4, <3>3, <4>1, Zenon DEF ListSound
      <4>3. x # h.next
        <5>1. CASE h.next = Null
          BY <2>4, <4>1, <5>1
        <5>2. CASE h.next # Null
          BY <1>1, <3>3, <4>2, <5>2 DEF ListSound
        <5> QED
          BY <5>1, <5>2
      <4>4. header'[x].prev = header[x].prev
        BY <1>1, <1>10, <1>11, <4>2, <4>3
      <4> QED
        BY <1>9, <4>1, <4>2, <4>4
    <3> QED
      BY <1>9, <3>1, <3>2, <3>3
  <2>5. ASSUME NEW a \in Blocks', a = startAddress
        PROVE  header'[a].prev = Null
    <3>1. a \in Blocks /\ header[a].prev = Null
      BY <2>5 DEF ListSound
    <3>2. a # h.next
      <4>1. SUFFICES ASSUME a = h.next
                     PROVE  FALSE
        OBVIOUS
      <4>2. a # Null /\ b # Null
        BY <1>3, <2>5, HeapConstants DEF Null
      <4>3. header[a].prev = b
        BY <1>1, <4>1, <4>2 DEF ListSound
      <4> QED
        BY <3>1, <4>2, <4>3
    <3> QED
      BY <1>1, <1>10, <1>11, <3>1, <3>2
  <2>6. ASSUME NEW a \in Blocks', a # startAddress
        PROVE  header'[a].prev \in Blocks' /\ header'[header'[a].prev].next = a
    <3>1. CASE a = n
      BY <1>9, <1>10, <3>1
    <3>2. CASE a \in Blocks /\ a = h.next
      <4>1. a # b
        BY <1>1, <3>2, <1>3, Layout DEF Null
      <4> QED
        BY <1>9, <1>10, <1>11, <3>2, <4>1
    <3>3. CASE a \in Blocks /\ a # h.next
      <4>1. PICK x : x = header[a].prev /\ x = header'[a].prev
        BY <1>1, <1>10, <1>11, <3>3
      <4>2. x \in Blocks /\ header[x].next = a
        BY <2>6, <3>3, <4>1, Zenon DEF ListSound
      <4>3. x # b
        BY <1>1, <3>3, <4>2
      <4> QED
        BY <1>9, <1>11, <4>1, <4>2, <4>3
    <3> QED
      BY <1>9, <3>1, <3>2, <3>3
  <2> QED
    BY <2>1, <2>2, <2>3, <2>4, <2>5, <2>6 DEF ListSound
<1> QED
  BY <1>4, <1>9, <1>10, <1>11, <1>12, <1>14, <1>15 DEF TypeOK

LEMMA TakeBlockWhole ==
  ASSUME TypeOK, ListSound, Coalesced, NEW b \in Blocks, ~header[b].allocated,
         NEW size \in Nat, header[b].size >= size, TakeBlock(b, size),
         ~(header[b].size >= size + HeaderSize + MINIMAL_SPLIT_SIZE)
  PROVE  /\ Blocks' = Blocks
         /\ header' \in [Blocks' -> MemoryHeader]
         /\ ListSound' /\ Coalesced'
         /\ header'[b].allocated /\ header'[b].size = size
         /\ \A a \in Blocks \ {b} : header'[a] = header[a]
<1>1. PICK h \in MemoryHeader : h = header[b]
  BY DEF TypeOK
<1>2. PICK taken \in MemoryHeader : taken = [h EXCEPT !.allocated = TRUE, !.size = size]
  BY Zenon DEF MemoryHeader
<1>3. header' = [a \in Blocks |-> IF a = b THEN taken ELSE header[a]]
  <2>1. header' = [a \in Blocks \cup {} |-> IF a = b THEN [h EXCEPT !.next = h.next,
                       !.allocated = TRUE, !.size = size] ELSE header[a]]
    BY <1>1 DEF TakeBlock
  <2>2. [h EXCEPT !.next = h.next, !.allocated = TRUE, !.size = size] = taken
    BY <1>2, Zenon DEF MemoryHeader
  <2> QED
    BY <2>1, <2>2
<1>4. /\ Blocks' = Blocks
      /\ taken.next = h.next /\ taken.prev = h.prev
      /\ taken.allocated = TRUE /\ taken.size = size
  BY <1>2, <1>3 DEF Blocks, MemoryHeader
<1>5. /\ header'[b] = taken
      /\ \A a \in Blocks \ {b} : header'[a] = header[a]
      /\ \A a \in Blocks : header'[a].next = header[a].next /\ header'[a].prev = header[a].prev
  BY <1>1, <1>3, <1>4
<1>6. header' \in [Blocks' -> MemoryHeader]
  BY <1>3, <1>4 DEF TypeOK
<1>7. \A a \in Blocks : Limit(a)' = Limit(a)
  BY <1>5 DEF Limit
<1>8. ASSUME NEW a \in Blocks
      PROVE  a + HeaderSize + header'[a].size <= Limit(a)
  <2>1. CASE a = b
    <3>1. /\ b \in Nat /\ Limit(b) \in Nat /\ h.size \in Nat
          /\ b + 20 + h.size <= Limit(b) /\ h.size >= size
      BY <1>1, Layout, HeapConstants DEF MemoryHeader
    <3>2. b + 20 + size <= Limit(b)
      BY <3>1
    <3> QED
      BY <1>4, <1>5, <2>1, <3>2, HeapConstants
  <2>2. CASE a # b
    BY <1>5, <2>2 DEF ListSound
  <2> QED
    BY <2>1, <2>2
<1>9. ListSound'
  BY <1>4, <1>5, <1>7, <1>8 DEF ListSound
<1>10. Coalesced'
  <2> SUFFICES ASSUME NEW a \in Blocks, header'[a].next # Null, ~header'[a].allocated
               PROVE  header'[header'[a].next].allocated
    BY <1>4 DEF Coalesced
  <2>1. a # b /\ header[a].next # Null /\ ~header[a].allocated
    BY <1>4, <1>5
  <2>2. header[a].next \in Blocks /\ header[header[a].next].allocated
    BY <2>1 DEF Coalesced, ListSound
  <2> QED
    BY <1>4, <1>5, <2>1, <2>2
<1> QED
  BY <1>4, <1>5, <1>6, <1>9, <1>10

LEMMA TakeBlockSound ==
  ASSUME TypeOK, ListSound, Coalesced, NEW b \in Blocks,
         NEW size \in Nat, Fits(b, size), TakeBlock(b, size)
  PROVE  /\ Blocks' \subseteq startAddress..(endAddress - HeaderSize)
         /\ header' \in [Blocks' -> MemoryHeader]
         /\ ListSound' /\ Coalesced'
         /\ Blocks \subseteq Blocks'
         /\ header'[b].allocated /\ header'[b].size = size
         /\ \A a \in Blocks \ {b} : /\ header'[a].allocated = header[a].allocated
                                    /\ header'[a].size = header[a].size
         /\ \A a \in Blocks' \ Blocks : ~header'[a].allocated
<1>1. ~header[b].allocated /\ header[b].size >= size
  BY DEF Fits
<1>2. CASE header[b].size >= size + HeaderSize + MINIMAL_SPLIT_SIZE
  BY <1>1, <1>2, TakeBlockSplit
<1>3. CASE ~(header[b].size >= size + HeaderSize + MINIMAL_SPLIT_SIZE)
  BY <1>1, <1>3, TakeBlockWhole, Zenon DEF TypeOK
<1> QED
  BY <1>2, <1>3
-----------------------------------------------------------------------------
(***************************************************************************)
(* Taking the headers of R out of the list, which lie between m and the    *)
(* block nn behind the merged one (Null if there is none).                 *)
(***************************************************************************)
Contraction(m, R, nn, sz, lim, b) ==
    /\ m \in Blocks /\ R \in SUBSET Blocks /\ m \notin R /\ startAddress \notin R
    /\ nn \in Nat /\ sz \in Nat /\ lim \in Nat
    /\ lim = IF nn = Null THEN endAddress ELSE nn
    /\ nn # Null => /\ nn \in Blocks \ R /\ nn # m /\ header[nn].allocated
                    /\ header[nn].prev \in R \cup {m}
    /\ m + HeaderSize + sz <= lim
    /\ \A r \in R : m < r /\ r < lim
    /\ \A c \in Blocks \ R : c <= m \/ c >= lim
    /\ \A r \in R : header[r].prev \in R \cup {m}
    /\ \A r \in R : header[r].next \in R \cup {nn}
    /\ header[m].next \in R \cup {nn}
    /\ header[m].prev # Null => header[header[m].prev].allocated
    /\ b \in R \cup {m}
    /\ \A r \in R \cup {m} : r = b \/ ~header[r].allocated
    /\ header' = [a \in Blocks \ R |->
                    IF a = m THEN [header[m] EXCEPT !.next = nn, !.allocated = FALSE,
                                                    !.size = sz]
                    ELSE IF a = nn THEN [header[a] EXCEPT !.prev = m]
                    ELSE header[a]]

(* What free does to the list, as its callers see it. *)
Released(b) ==
    /\ Blocks' \subseteq Blocks
    /\ header' \in [Blocks' -> MemoryHeader]
    /\ ListSound' /\ Coalesced'
    /\ \A a \in Blocks \ {b} : header[a].allocated =>
          a \in Blocks' /\ header'[a].allocated /\ header'[a].size = header[a].size
    /\ \A a \in Blocks' : header'[a].allocated => header[a].allocated /\ a # b

LEMMA Contract ==
  ASSUME TypeOK, ListSound, Coalesced, NEW m, NEW R, NEW nn, NEW sz, NEW lim, NEW b,
         Contraction(m, R, nn, sz, lim, b)
  PROVE  Released(b)
<1> USE DEF Contraction
<1>1. Blocks' = Blocks \ R
  BY DEF Blocks
<1>2. header[m] \in MemoryHeader /\ m \in Nat /\ m > 0
  BY Layout DEF TypeOK
<1>3. /\ header'[m] \in MemoryHeader
      /\ header'[m].next = nn /\ header'[m].prev = header[m].prev
      /\ header'[m].allocated = FALSE /\ header'[m].size = sz
  BY <1>2, Zenon DEF MemoryHeader
<1>4. \A a \in Blocks \ (R \cup {m}) :
         /\ header'[a] \in MemoryHeader
         /\ header'[a].next = header[a].next /\ header'[a].size = header[a].size
         /\ header'[a].allocated = header[a].allocated
         /\ a = nn => header'[a].prev = m
         /\ a # nn => header'[a].prev = header[a].prev
  <2> SUFFICES ASSUME NEW a \in Blocks \ (R \cup {m})
               PROVE  /\ header'[a] \in MemoryHeader
                      /\ header'[a].next = header[a].next
                      /\ header'[a].size = header[a].size
                      /\ header'[a].allocated = header[a].allocated
                      /\ a = nn => header'[a].prev = m
                      /\ a # nn => header'[a].prev = header[a].prev
    BY Zenon
  <2>1. header[a] \in MemoryHeader
    BY DEF TypeOK
  <2>2. CASE a = nn
    <3>1. header'[a] = [header[a] EXCEPT !.prev = m]
      BY <2>2
    <3> QED
      BY <1>2, <2>1, <2>2, <3>1, Zenon DEF MemoryHeader
  <2>3. CASE a # nn
    <3>1. header'[a] = header[a]
      BY <2>3
    <3> QED
      BY <2>1, <2>3, <3>1, Zenon
  <2> QED
    BY <2>2, <2>3, Zenon
<1>5. header' \in [Blocks' -> MemoryHeader]
  BY <1>1, <1>3, <1>4, Zenon
<1>6. Limit(m)' = lim /\ \A a \in Blocks \ (R \cup {m}) : Limit(a)' = Limit(a)
  BY <1>3, <1>4 DEF Limit
(* Nobody else leads into R or to nn. *)
<1>7. \A a \in Blocks \ (R \cup {m}) :
         header[a].next # Null => header[a].next \in Blocks \ R /\ header[a].next # nn
  BY DEF ListSound
<1>8. ListSound'
  <2>1. startAddress \in Blocks'
    BY <1>1 DEF ListSound
  <2>2. ASSUME NEW a \in Blocks'
        PROVE  a + HeaderSize + header'[a].size <= Limit(a)'
    BY <1>1, <1>3, <1>4, <1>6 DEF ListSound
  <2>3. ASSUME NEW a \in Blocks', NEW c \in Blocks'
        PROVE  c <= a \/ c >= Limit(a)'
    BY <1>1, <1>6 DEF ListSound
  <2>4. ASSUME NEW a \in Blocks', header'[a].next # Null
        PROVE  header'[a].next \in Blocks' /\ header'[header'[a].next].prev = a
    <3>1. CASE a = m
      BY <1>1, <1>3, <1>4, <2>4, <3>1
    <3>2. CASE a # m
      <4>1. PICK x : x = header[a].next /\ x = header'[a].next
        BY <1>1, <1>4, <3>2
      <4>2. x \in Blocks \ R /\ x # nn /\ header[x].prev = a
        BY <1>1, <1>7, <2>4, <3>2, <4>1 DEF ListSound
      <4>3. header'[x].prev = header[x].prev
        BY <1>3, <1>4, <4>2
      <4> QED
        BY <1>1, <4>1, <4>2, <4>3
    <3> QED
      BY <3>1, <3>2, Zenon
  <2>5. ASSUME NEW a \in Blocks', a = startAddress
        PROVE  header'[a].prev = Null
    <3>1. a \in Blocks /\ header[a].prev = Null
      BY <2>5 DEF ListSound
    <3>2. a # nn
      <4>1. Null \notin Blocks
        BY Layout DEF Null
      <4> QED
        BY <2>5, <3>1, <4>1, HeapConstants DEF Null
    <3> QED
      BY <1>1, <1>3, <1>4, <3>1, <3>2
  <2>6. ASSUME NEW a \in Blocks', a # startAddress
        PROVE  header'[a].prev \in Blocks' /\ header'[header'[a].prev].next = a
    <3>1. CASE a = nn
      <4>1. a \in Blocks /\ a # Null
        BY <1>1, Layout DEF Null
      <4>2. a \in Blocks \ (R \cup {m})
        BY <1>1, <3>1, <4>1
      <4>3. header'[a].prev = m /\ header'[m].next = a
        BY <1>3, <1>4, <3>1, <4>2
      <4>4. m \in Blocks'
        BY <1>1
      <4> QED
        BY <4>3, <4>4, Zenon
    <3>2. CASE a # nn
      <4>1. PICK x : x = header[a].prev /\ x = header'[a].prev
        BY <1>1, <1>3, <1>4, <3>2
      <4>2. x \in Blocks /\ header[x].next = a /\ a \in Blocks \ R
        BY <1>1, <2>6, <4>1, ZenonT(30) DEF ListSound
      <4>3. x \notin R /\ x # m
        BY <3>2, <4>2
      <4> QED
        BY <1>1, <1>4, <4>1, <4>2, <4>3
    <3> QED
      BY <3>1, <3>2, Zenon
  <2> QED
    BY <2>1, <2>2, <2>3, <2>4, <2>5, <2>6, Zenon DEF ListSound
<1>9. Coalesced'
  <2> SUFFICES ASSUME NEW a \in Blocks', header'[a].next # Null, ~header'[a].allocated
               PROVE  header'[header'[a].next].allocated
    BY Zenon DEF Coalesced
  <2>1. CASE a = m
    <3>1. nn # Null /\ nn \in Blocks \ (R \cup {m}) /\ header[nn].allocated
      BY <1>3, <2>1
    <3> QED
      BY <1>3, <1>4, <2>1, <3>1
  <2>2. CASE a # m
    <3>1. PICK x : x = header[a].next /\ x = header'[a].next
      BY <1>1, <1>4, <2>2
    <3>2. x \in Blocks \ R /\ header[x].prev = a /\ header[x].allocated
      BY <1>1, <1>4, <1>7, <2>2, <3>1 DEF ListSound, Coalesced
    <3>3. x # m
      <4>1. SUFFICES ASSUME x = m
                     PROVE  FALSE
        OBVIOUS
      <4>2. header[m].prev = a /\ a # Null
        BY <1>1, <3>2, <4>1, Layout DEF Null
      <4> QED
        BY <1>1, <1>4, <2>2, <4>2
    <3> QED
      BY <1>4, <3>1, <3>2, <3>3
  <2> QED
    BY <2>1, <2>2, Zenon
<1> QED
  BY <1>1, <1>3, <1>4, <1>5, <1>8, <1>9 DEF Released

(***************************************************************************)
(* free: the four ways in which the block merges with its neighbours.      *)
(***************************************************************************)
LEMMA ReleaseSound ==
  ASSUME TypeOK, ListSound, Coalesced, NEW b \in Blocks, header[b].allocated, Release(b)
  PROVE  Released(b)
<1>1. PICK p \in Nat, x \in Nat, z \in Nat :
         p = header[b].prev /\ x = header[b].next /\ z = header[b].size
  BY DEF TypeOK, MemoryHeader
<1>2. /\ b \in Nat /\ b > 0 /\ b + 20 + z <= Limit(b) /\ Limit(b) \in Nat
      /\ \A c \in Blocks : c <= b \/ c >= Limit(b)
      /\ startAddress \in Nat /\ HeaderSize = 20 /\ b >= startAddress
      /\ Blocks \subseteq Nat
  BY <1>1, Layout, HeapConstants, Zenon DEF ListSound
<1>3. x # Null => /\ x \in Blocks /\ x > b /\ x = Limit(b) /\ header[x].prev = b
                  /\ x # startAddress
  BY <1>1, <1>2, Layout DEF ListSound
<1>4. x = Null => Limit(b) = endAddress
  BY <1>1 DEF Limit
<1>5. p # Null => /\ p \in Blocks /\ p < b /\ header[p].next = b /\ Limit(p) = b
                  /\ b # startAddress
                  /\ \A c \in Blocks : c <= p \/ c >= b
                  /\ p + 20 + header[p].size <= b
  <2> HAVE p # Null
  <2>1. p \in Blocks /\ header[p].next = b /\ b # startAddress
    BY <1>1 DEF ListSound
  <2>2. Limit(p) = b /\ b # Null
    BY <1>2, <2>1 DEF Limit, Null
  <2>3. p < b /\ p + 20 + header[p].size <= b
    BY <1>2, <2>1, <2>2, Layout
  <2> QED
    BY <2>1, <2>2, <2>3, Zenon DEF ListSound
(* Behind a free x. *)
<1>6. PICK xn \in Nat, xs \in Nat, xl \in Nat :
         x # Null => /\ xn = header[x].next /\ xs = header[x].size /\ xl = Limit(x)
                     /\ x + 20 + xs <= xl
                     /\ xl = IF xn = Null THEN endAddress ELSE xn
                     /\ \A c \in Blocks : c <= x \/ c >= xl
                     /\ xn # Null => xn \in Blocks /\ header[xn].prev = x /\ xn > x
                     /\ (xn # Null /\ ~header[x].allocated) => header[xn].allocated
  <2>1. CASE x = Null
    BY <2>1
  <2>2. CASE x # Null
    <3>1. PICK xn \in Nat, xs \in Nat, xl \in Nat :
             xn = header[x].next /\ xs = header[x].size /\ xl = Limit(x)
      BY <1>3, <2>2, Layout DEF MemoryHeader
    <3>2. /\ x + 20 + xs <= xl
          /\ xl = IF xn = Null THEN endAddress ELSE xn
          /\ xn # Null => xn > x
      BY <1>2, <1>3, <2>2, <3>1, Layout DEF Limit
    <3>3. /\ \A c \in Blocks : c <= x \/ c >= xl
          /\ xn # Null => xn \in Blocks /\ header[xn].prev = x
      BY <1>3, <2>2, <3>1 DEF ListSound
    <3>4. (xn # Null /\ ~header[x].allocated) => header[xn].allocated
      BY <1>3, <2>2, <3>1 DEF Coalesced
    <3> QED
      BY <3>1, <3>2, <3>3, <3>4
  <2> QED
    BY <2>1, <2>2
(* In front of a free p. *)
<1>7. PICK ps \in Nat : p # Null => ps = header[p].size /\ p + 20 + ps <= b
  <2>1. p # Null => header[p].size \in Nat
    BY <1>5, Layout DEF MemoryHeader
  <2> QED
    BY <1>5, <2>1
<1>8. ASSUME p # Null, ~header[p].allocated, header[p].prev # Null
      PROVE  header[header[p].prev].allocated
  <2>1. PICK q : q = header[p].prev
    OBVIOUS
  <2>2. q \in Blocks /\ header[q].next = p
    BY <1>5, <1>8, <2>1 DEF ListSound
  <2> QED
    BY <1>8, <2>1, <2>2 DEF Coalesced
<1>9. CASE ~(p # Null /\ ~header[p].allocated) /\ ~(x # Null /\ ~header[x].allocated)
  <2>1. header' = [a \in Blocks \ {} |->
                     IF a = b THEN [header[b] EXCEPT !.next = x, !.allocated = FALSE,
                                                     !.size = z]
                     ELSE IF a = x THEN [header[a] EXCEPT !.prev = b]
                     ELSE header[a]]
    <3>1. PICK f : f = [header[b] EXCEPT !.next = x, !.allocated = FALSE, !.size = z]
      OBVIOUS
    <3>2. f.next = x
      BY <3>1 DEF TypeOK, MemoryHeader
    <3>3. header' = [a \in Blocks \ ({} \cup {}) |->
                       IF a = b THEN f
                       ELSE IF a = f.next THEN [header[a] EXCEPT !.prev = b]
                       ELSE header[a]]
      BY <1>1, <1>9, <3>1, Zenon DEF Release
    <3> QED
      BY <3>1, <3>2, <3>3
  <2>2. x # Null => x \in Blocks \ {} /\ x # b /\ header[x].prev \in {} \cup {b}
                    /\ header[x].allocated
    BY <1>2, <1>3, <1>9
  <2>3. Limit(b) = IF x = Null THEN endAddress ELSE x
    BY <1>3, <1>4
  <2>4. header[b].prev # Null => header[header[b].prev].allocated
    BY <1>1, <1>9
  <2>9. Contraction(b, {}, x, z, Limit(b), b)
    BY <1>1, <1>2, <2>1, <2>2, <2>3, <2>4 DEF Contraction
  <2> QED
    BY <2>9, Contract
<1>10. CASE ~(p # Null /\ ~header[p].allocated) /\ x # Null /\ ~header[x].allocated
  <2>1. header' = [a \in Blocks \ {x} |->
                     IF a = b THEN [header[b] EXCEPT !.next = xn, !.allocated = FALSE,
                                                     !.size = (z + xs + 20)]
                     ELSE IF a = xn THEN [header[a] EXCEPT !.prev = b]
                     ELSE header[a]]
    <3>1. PICK f : f = [header[b] EXCEPT !.next = xn, !.allocated = FALSE, !.size = (z + xs + 20)]
      OBVIOUS
    <3>2. f.next = xn
      BY <1>5, <1>10, <3>1 DEF TypeOK, MemoryHeader
    <3>3. header' = [a \in Blocks \ ({} \cup {x}) |->
                       IF a = b THEN f
                       ELSE IF a = f.next THEN [header[a] EXCEPT !.prev = b]
                       ELSE header[a]]
      BY <1>1, <1>2, <1>6, <1>7, <1>10, <3>1, ZenonT(30) DEF Release
    <3>4. ({} \cup {x}) = {x}
      OBVIOUS
    <3> QED
      BY <3>1, <3>2, <3>3, <3>4
  <2>2. xn # Null => xn \in Blocks \ {x} /\ xn # b /\ header[xn].prev \in {x} \cup {b}
                    /\ header[xn].allocated
    BY <1>2, <1>3, <1>6, <1>10
  <2>3. xl = IF xn = Null THEN endAddress ELSE xn
    BY <1>6, <1>10
  <2>4. header[b].prev # Null => header[header[b].prev].allocated
    BY <1>1, <1>10
  <2>5. /\ b \notin {x} /\ startAddress \notin {x} /\ {x} \in SUBSET Blocks
        /\ z + xs + 20 \in Nat /\ xl \in Nat /\ b \in Blocks
    BY <1>2, <1>3, <1>10
  <2>6. b + HeaderSize + (z + xs + 20) <= xl /\ \A r \in {x} : b < r /\ r < xl
    BY <1>2, <1>3, <1>6, <1>10
  <2>7. \A c \in Blocks \ {x} : c <= b \/ c >= xl
    BY <1>2, <1>3, <1>6, <1>10
  <2>8. /\ \A r \in {x} : header[r].prev \in {x} \cup {b} /\ header[r].next \in {x} \cup {xn}
        /\ header[b].next \in {x} \cup {xn} /\ b \in {x} \cup {b}
        /\ \A r \in {x} \cup {b} : r = b \/ ~header[r].allocated
    BY <1>1, <1>3, <1>6, <1>10
  <2>9. Contraction(b, {x}, xn, z + xs + 20, xl, b)
    BY <1>1, <1>2, <2>1, <2>2, <2>3, <2>4, <2>5, <2>6, <2>7, <2>8 DEF Contraction
  <2> QED
    BY <2>9, Contract
<1>11. CASE p # Null /\ ~header[p].allocated /\ ~(x # Null /\ ~header[x].allocated)
  <2>1. header' = [a \in Blocks \ {b} |->
                     IF a = p THEN [header[p] EXCEPT !.next = x, !.allocated = FALSE,
                                                     !.size = (ps + z + 20)]
                     ELSE IF a = x THEN [header[a] EXCEPT !.prev = p]
                     ELSE header[a]]
    <3>1. PICK f : f = [header[p] EXCEPT !.next = x, !.allocated = FALSE, !.size = (ps + z + 20)]
      OBVIOUS
    <3>2. f.next = x
      BY <1>5, <1>11, <3>1 DEF TypeOK, MemoryHeader
    <3>3. header' = [a \in Blocks \ ({b} \cup {}) |->
                       IF a = p THEN f
                       ELSE IF a = f.next THEN [header[a] EXCEPT !.prev = p]
                       ELSE header[a]]
      BY <1>1, <1>2, <1>6, <1>7, <1>11, <3>1, ZenonT(30) DEF Release
    <3>4. ({b} \cup {}) = {b}
      OBVIOUS
    <3> QED
      BY <3>1, <3>2, <3>3, <3>4
  <2>2. x # Null => x \in Blocks \ {b} /\ x # p /\ header[x].prev \in {b} \cup {p}
                    /\ header[x].allocated
    BY <1>2, <1>3, <1>5, <1>11
  <2>3. Limit(b) = IF x = Null THEN endAddress ELSE x
    BY <1>3, <1>4
  <2>4. header[p].prev # Null => header[header[p].prev].allocated
    BY <1>8, <1>11
  <2>5. /\ p \notin {b} /\ startAddress \notin {b} /\ {b} \in SUBSET Blocks
        /\ ps + z + 20 \in Nat /\ Limit(b) \in Nat /\ p \in Blocks
    BY <1>2, <1>5, <1>11
  <2>6. p + HeaderSize + (ps + z + 20) <= Limit(b) /\ \A r \in {b} : p < r /\ r < Limit(b)
    BY <1>2, <1>5, <1>7, <1>11
  <2>7. ASSUME NEW c \in Blocks \ {b}
        PROVE  c <= p \/ c >= Limit(b)
    <3>1. c \in Nat /\ (c <= b \/ c >= Limit(b)) /\ (c <= p \/ c >= b)
      BY <1>2, <1>5, <1>11
    <3> QED
      BY <1>2, <3>1
  <2>8. /\ \A r \in {b} : header[r].prev \in {b} \cup {p} /\ header[r].next \in {b} \cup {x}
        /\ header[p].next \in {b} \cup {x} /\ b \in {b} \cup {p}
        /\ \A r \in {b} \cup {p} : r = b \/ ~header[r].allocated
    BY <1>1, <1>5, <1>11
  <2>9. Contraction(p, {b}, x, ps + z + 20, Limit(b), b)
    BY <1>1, <1>2, <2>1, <2>2, <2>3, <2>4, <2>5, <2>6, <2>7, <2>8, Zenon DEF Contraction
  <2> QED
    BY <2>9, Contract
<1>12. CASE p # Null /\ ~header[p].allocated /\ x # Null /\ ~header[x].allocated
  <2>1. header' = [a \in Blocks \ {b, x} |->
                     IF a = p THEN [header[p] EXCEPT !.next = xn, !.allocated = FALSE,
                                                     !.size = (ps + z + 20 + xs + 20)]
                     ELSE IF a = xn THEN [header[a] EXCEPT !.prev = p]
                     ELSE header[a]]
    <3>1. PICK f : f = [header[p] EXCEPT !.next = xn, !.allocated = FALSE, !.size = (ps + z + 20 + xs + 20)]
      OBVIOUS
    <3>2. f.next = xn
      BY <1>5, <1>12, <3>1 DEF TypeOK, MemoryHeader
    <3>3. header' = [a \in Blocks \ ({b} \cup {x}) |->
                       IF a = p THEN f
                       ELSE IF a = f.next THEN [header[a] EXCEPT !.prev = p]
                       ELSE header[a]]
      BY <1>1, <1>2, <1>6, <1>7, <1>12, <3>1, ZenonT(30) DEF Release
    <3>4. ({b} \cup {x}) = {b, x}
      OBVIOUS
    <3> QED
      BY <3>1, <3>2, <3>3, <3>4
  <2>2. xn # Null => xn \in Blocks \ {b, x} /\ xn # p /\ header[xn].prev \in {b, x} \cup {p}
                    /\ header[xn].allocated
    BY <1>2, <1>3, <1>5, <1>6, <1>12
  <2>3. xl = IF xn = Null THEN endAddress ELSE xn
    BY <1>6, <1>12
  <2>4. header[p].prev # Null => header[header[p].prev].allocated
    BY <1>8, <1>12
  <2>5. /\ p \notin {b, x} /\ startAddress \notin {b, x} /\ {b, x} \in SUBSET Blocks
        /\ ps + z + 20 + xs + 20 \in Nat /\ xl \in Nat /\ p \in Blocks
    BY <1>2, <1>3, <1>5, <1>12
  <2>6. /\ p + HeaderSize + (ps + z + 20 + xs + 20) <= xl
        /\ \A r \in {b, x} : p < r /\ r < xl
    BY <1>2, <1>3, <1>5, <1>6, <1>7, <1>12
  <2>7. ASSUME NEW c \in Blocks \ {b, x}
        PROVE  c <= p \/ c >= xl
    <3>1. /\ c \in Nat /\ (c <= b \/ c >= x) /\ (c <= p \/ c >= b)
          /\ c <= x \/ c >= xl
      BY <1>2, <1>3, <1>5, <1>6, <1>12
    <3> QED
      BY <1>2, <3>1
  <2>8. /\ \A r \in {b, x} : /\ header[r].prev \in {b, x} \cup {p}
                             /\ header[r].next \in {b, x} \cup {xn}
        /\ header[p].next \in {b, x} \cup {xn} /\ b \in {b, x} \cup {p}
        /\ \A r \in {b, x} \cup {p} : r = b \/ ~header[r].allocated
    BY <1>1, <1>3, <1>5, <1>6, <1>12, Zenon
  <2>9. Contraction(p, {b, x}, xn, ps + z + 20 + xs + 20, xl, b)
    BY <1>1, <1>2, <2>1, <2>2, <2>3, <2>4, <2>5, <2>6, <2>7, <2>8, Zenon DEF Contraction
  <2> QED
    BY <2>9, Contract
<1> QED
  BY <1>9, <1>10, <1>11, <1>12
-----------------------------------------------------------------------------
(* The invariant is inductive as it stands. *)
IInv == TypeOK /\ ListSound /\ Coalesced /\ ClientsIntact

LEMMA InitIInv == Init => IInv
<1> SUFFICES ASSUME Init
             PROVE  IInv
  OBVIOUS
<1>1. PICK h : h = [next |-> Null, prev |-> Null, allocated |-> FALSE,
                    size |-> endAddress - startAddress - HeaderSize]
  BY Zenon
<1>2. header = [a \in {startAddress} |-> h] /\ live = {} /\ panicked = FALSE
  BY <1>1 DEF Init
<1>3. Blocks = {startAddress} /\ header[startAddress] = h
  BY <1>2 DEF Blocks
<1>4. /\ startAddress \in Nat /\ endAddress \in Nat /\ startAddress + 20 <= endAddress
      /\ HeaderSize = 20 /\ startAddress > 0
  BY HeapAssumption, HeapConstants
<1>5. /\ h \in MemoryHeader /\ h.next = 0 /\ h.prev = 0 /\ h.allocated = FALSE
      /\ h.size = endAddress - startAddress - 20
  BY <1>1, <1>4 DEF MemoryHeader, Null
<1>6. TypeOK
  <2>1. startAddress \in startAddress..(endAddress - 20)
    BY <1>4
  <2> QED
    BY <1>2, <1>3, <1>4, <1>5, <2>1, Zenon DEF TypeOK
<1>7. ListSound
  <2>1. Limit(startAddress) = endAddress
    BY <1>3, <1>5 DEF Limit, Null
  <2>2. startAddress + HeaderSize + h.size <= Limit(startAddress)
    BY <1>4, <1>5, <2>1
  <2> QED
    BY <1>3, <1>4, <1>5, <2>2 DEF ListSound, Null
<1>8. Coalesced
  BY <1>3, <1>5 DEF Coalesced, Null
<1>9. ClientsIntact
  BY <1>2, <1>3, <1>5 DEF ClientsIntact
<1> QED
  BY <1>6, <1>7, <1>8, <1>9 DEF IInv

(* A free block is handed out as x. *)
LEMMA Granted ==
  ASSUME IInv, NEW b \in Blocks, NEW size \in Nat, Fits(b, size), TakeBlock(b, size),
         NEW x \in Allocation, BlockOf(x) = b,
         IF x.offset = 0 THEN x.ptr = b + HeaderSize ELSE x.ptr - 2 >= b + HeaderSize,
         x.ptr + x.size <= b + HeaderSize + size,
         live' = live \cup {x}, panicked' = panicked
  PROVE  IInv'
<1> USE DEF IInv
<1>1. /\ Blocks' \subseteq startAddress..(endAddress - HeaderSize)
      /\ header' \in [Blocks' -> MemoryHeader]
      /\ ListSound' /\ Coalesced'
      /\ Blocks \subseteq Blocks'
      /\ header'[b].allocated /\ header'[b].size = size
      /\ \A a \in Blocks \ {b} : /\ header'[a].allocated = header[a].allocated
                                 /\ header'[a].size = header[a].size
      /\ \A a \in Blocks' \ Blocks : ~header'[a].allocated
  BY TakeBlockSound
<1>2. TypeOK'
  BY <1>1 DEF TypeOK
<1>3. \A y \in live : BlockOf(y) # b
  BY DEF ClientsIntact, Fits
<1>4. ASSUME NEW y \in live'
      PROVE  /\ BlockOf(y) \in Blocks' /\ header'[BlockOf(y)].allocated
             /\ IF y.offset = 0 THEN y.ptr = BlockOf(y) + HeaderSize
                                ELSE y.ptr - 2 >= BlockOf(y) + HeaderSize
             /\ y.ptr + y.size <= BlockOf(y) + HeaderSize + header'[BlockOf(y)].size
  <2>1. CASE y = x
    BY <1>1, <2>1
  <2>2. CASE y # x
    <3>1. y \in live
      BY <2>2
    <3>2. /\ BlockOf(y) \in Blocks \ {b} /\ header[BlockOf(y)].allocated
          /\ IF y.offset = 0 THEN y.ptr = BlockOf(y) + HeaderSize
                             ELSE y.ptr - 2 >= BlockOf(y) + HeaderSize
          /\ y.ptr + y.size <= BlockOf(y) + HeaderSize + header[BlockOf(y)].size
      BY <1>3, <3>1 DEF ClientsIntact
    <3> QED
      BY <1>1, <3>2, Zenon
  <2> QED
    BY <2>1, <2>2
<1>5. ASSUME NEW a \in Blocks', header'[a].allocated
      PROVE  \E y \in live' : BlockOf(y) = a /\ \A w \in live' : BlockOf(w) = a => w = y
  <2>1. CASE a = b
    BY <1>3, <2>1
  <2>2. CASE a # b
    <3>1. a \in Blocks /\ header[a].allocated
      BY <1>1, <1>5, <2>2
    <3>2. PICK y \in live : BlockOf(y) = a /\ \A w \in live : BlockOf(w) = a => w = y
      BY <3>1 DEF ClientsIntact
    <3> QED
      BY <2>2, <3>2
  <2> QED
    BY <2>1, <2>2
<1>6. ClientsIntact'
  BY <1>4, <1>5 DEF ClientsIntact, BlockOf
<1> QED
  BY <1>1, <1>2, <1>6

LEMMA MallocStep ==
  ASSUME IInv, NEW b \in Blocks, NEW size \in Request, malloc(b, size)
  PROVE  IInv'
<1>1. PICK n : n = align_up(size, 4)
  OBVIOUS
<1>2. size \in Nat /\ n \in Nat /\ size <= n
  <2>1. size \in Nat /\ 4 \in Nat \ {0}
    BY HeapAssumption
  <2>2. align_up(size, 4) \in Nat /\ size <= align_up(size, 4)
    BY <2>1, AlignUpBounds
  <2> QED
    BY <1>1, <2>1, <2>2, Zenon
<1>3. Fits(b, n) /\ TakeBlock(b, n) /\ panicked' = panicked
  BY <1>1 DEF malloc, InternalAllocate, FirstFree
<1>4. b \in Nat /\ HeaderSize = 20
  BY Layout, HeapConstants DEF IInv
<1>5. PICK x : x = [ptr |-> b + HeaderSize, size |-> size, offset |-> 0]
  BY Zenon
<1>6. x \in Allocation /\ x.ptr = b + HeaderSize /\ x.size = size /\ x.offset = 0
  BY <1>2, <1>4, <1>5 DEF Allocation
<1>7. BlockOf(x) = b /\ x.ptr + x.size <= b + HeaderSize + n
  BY <1>2, <1>4, <1>6 DEF BlockOf
<1>8. live' = live \cup {x}
  BY <1>5 DEF malloc
<1> QED
  BY <1>2, <1>3, <1>6, <1>7, <1>8, Granted

LEMMA AlignedMallocStep ==
  ASSUME IInv, NEW b \in Blocks, NEW size \in Request, NEW align \in Alignment,
         alignedMalloc(b, size, align)
  PROVE  IInv'
<1>1. PICK n : n = align_up(size + 2 + (align - 1), 4)
  OBVIOUS
<1>2. size \in Nat /\ align \in Nat \ {0} /\ align <= 4096
  BY HeapAssumption
<1>3. size + 2 + (align - 1) \in Nat /\ 4 \in Nat \ {0}
  BY <1>2
<1>4. n \in Nat /\ size + 2 + (align - 1) <= n
  <2>1. /\ align_up(size + 2 + (align - 1), 4) \in Nat
        /\ size + 2 + (align - 1) <= align_up(size + 2 + (align - 1), 4)
    BY <1>3, AlignUpBounds
  <2> QED
    BY <1>1, <2>1, Zenon
<1>5. Fits(b, n) /\ TakeBlock(b, n) /\ panicked' = panicked
  BY <1>1 DEF alignedMalloc, InternalAllocate, FirstFree
<1>6. b \in Nat /\ HeaderSize = 20
  BY Layout, HeapConstants DEF IInv
<1>7. PICK mem : mem = align_up(b + HeaderSize + 2, align)
  OBVIOUS
<1>8. b + HeaderSize + 2 \in Nat
  BY <1>6
<1>9. mem \in Nat /\ b + 22 <= mem /\ mem <= b + 22 + (align - 1)
  <2>1. /\ mem \in Nat /\ b + HeaderSize + 2 <= mem
        /\ mem <= b + HeaderSize + 2 + (align - 1)
    BY <1>2, <1>7, <1>8, AlignUpBounds
  <2> QED
    BY <1>6, <2>1
<1> DEFINE Offset == 2..4097
<1>10. mem - (b + HeaderSize) \in Offset
  BY <1>2, <1>6, <1>9
<1> HIDE DEF Offset
<1>11. PICK d \in Offset : d = mem - (b + HeaderSize)
  BY <1>10, Zenon
<1>12. PICK x \in Allocation : x = [ptr |-> mem, size |-> size, offset |-> d]
  <2>1. d \in Nat /\ mem \in Nat /\ size \in Nat
    BY <1>2, <1>9 DEF Offset
  <2>2. [ptr |-> mem, size |-> size, offset |-> d] \in Allocation
    BY <2>1 DEF Allocation
  <2> QED
    BY <2>2
<1>13. x \in Allocation /\ x.ptr = mem /\ x.size = size /\ x.offset = d
  BY <1>12
<1>14. BlockOf(x) = b /\ x.ptr + x.size <= b + HeaderSize + n
  BY <1>2, <1>4, <1>6, <1>9, <1>11, <1>13 DEF BlockOf, Offset
<1>15. IF x.offset = 0 THEN x.ptr = b + HeaderSize ELSE x.ptr - 2 >= b + HeaderSize
  BY <1>6, <1>9, <1>11, <1>13 DEF Offset
<1>16. live' = live \cup {x}
  <2>1. live' = live \cup {[ptr |-> align_up(b + HeaderSize + 2, align), size |-> size,
           offset |-> (align_up(b + HeaderSize + 2, align) - (b + HeaderSize)) % UINT16]}
    BY SMT DEF alignedMalloc
  <2>2. d % UINT16 = d
    BY SMT DEF UINT16, Offset
  <2>3. (align_up(b + HeaderSize + 2, align) - (b + HeaderSize)) % UINT16 = d
    BY <1>7, <1>11, <2>2, Zenon
  <2> QED
    BY <1>7, <1>12, <2>1, <2>3, Zenon
<1> QED
  BY <1>4, <1>5, <1>13, <1>14, <1>15, <1>16, Granted

LEMMA OutOfHeapSpaceStep ==
  ASSUME IInv, NEW size, OutOfHeapSpace(size)
  PROVE  IInv'
<1>1. header' = header /\ live' = live /\ panicked' = TRUE
  BY DEF OutOfHeapSpace
<1>2. TypeOK'
  BY <1>1 DEF IInv, TypeOK, Blocks
<1>3. ListSound' /\ Coalesced'
  BY <1>1 DEF IInv, ListSound, Coalesced, Blocks, Limit
<1>4. ClientsIntact'
  BY <1>1 DEF IInv, ClientsIntact, Blocks, BlockOf
<1> QED
  BY <1>2, <1>3, <1>4 DEF IInv

LEMMA FreeStep ==
  ASSUME IInv, NEW x \in live, free(x)
  PROVE  IInv'
<1> USE DEF IInv
<1>1. PICK b : b = BlockOf(x)
  OBVIOUS
<1>2. /\ b \in Blocks /\ header[b].allocated
      /\ \A y \in live : BlockOf(y) = b => y = x
  BY <1>1 DEF ClientsIntact
<1>3. Release(b) /\ panicked' = panicked /\ live' = live \ {x}
  BY <1>1, <1>2 DEF free
<1>4. Released(b)
  BY <1>2, <1>3, ReleaseSound
<1>5. TypeOK'
  BY <1>3, <1>4 DEF TypeOK, Released
<1>6. ASSUME NEW y \in live'
      PROVE  /\ BlockOf(y) \in Blocks' /\ header'[BlockOf(y)].allocated
             /\ IF y.offset = 0 THEN y.ptr = BlockOf(y) + HeaderSize
                                ELSE y.ptr - 2 >= BlockOf(y) + HeaderSize
             /\ y.ptr + y.size <= BlockOf(y) + HeaderSize + header'[BlockOf(y)].size
  <2>1. y \in live /\ BlockOf(y) # b
    BY <1>2, <1>3
  <2>2. /\ BlockOf(y) \in Blocks /\ header[BlockOf(y)].allocated
        /\ IF y.offset = 0 THEN y.ptr = BlockOf(y) + HeaderSize
                           ELSE y.ptr - 2 >= BlockOf(y) + HeaderSize
        /\ y.ptr + y.size <= BlockOf(y) + HeaderSize + header[BlockOf(y)].size
    BY <2>1 DEF ClientsIntact
  <2> QED
    BY <1>4, <2>1, <2>2 DEF Released
<1>7. ASSUME NEW a \in Blocks', header'[a].allocated
      PROVE  \E y \in live' : BlockOf(y) = a /\ \A w \in live' : BlockOf(w) = a => w = y
  <2>1. a \in Blocks /\ header[a].allocated /\ a # b
    BY <1>4, <1>7 DEF Released
  <2>2. PICK y \in live : BlockOf(y) = a /\ \A w \in live : BlockOf(w) = a => w = y
    BY <2>1 DEF ClientsIntact
  <2> QED
    BY <1>1, <1>3, <2>1, <2>2
<1>8. ClientsIntact'
  BY <1>6, <1>7 DEF ClientsIntact, BlockOf
<1> QED
  BY <1>4, <1>5, <1>8 DEF Released

LEMMA NextIInv == IInv /\ [Next]_vars => IInv'
<1> SUFFICES ASSUME IInv, [Next]_vars
             PROVE  IInv'
  OBVIOUS
<1>1. CASE UNCHANGED vars
  <2>1. TypeOK'
    BY <1>1 DEF IInv, vars, TypeOK, Blocks
  <2>2. ListSound' /\ Coalesced'
    BY <1>1 DEF IInv, vars, ListSound, Coalesced, Blocks, Limit
  <2>3. ClientsIntact'
    BY <1>1 DEF IInv, vars, ClientsIntact, Blocks, BlockOf
  <2> QED
    BY <2>1, <2>2, <2>3 DEF IInv
<1>2. CASE Next
  BY <1>2, MallocStep, AlignedMallocStep, OutOfHeapSpaceStep, FreeStep DEF Next
<1> QED
  BY <1>1, <1>2

(* The heap invariant holds in every heap, whatever its callers ask for. *)
THEOREM Invariance == Spec => []IInv
  BY InitIInv, NextIInv, PTL DEF Spec

(* The free list stays a list in address order whose blocks do not overlap *)
(* (TakeBlock and Release, heap.cpp:69-91 and 113-145).                    *)
THEOREM FreeListSound == Spec => []ListSound
<1>1. IInv => ListSound
  BY DEF IInv
<1> QED
  BY <1>1, Invariance, PTL

(* free never leaves two free neighbours (heap.cpp:113-145). *)
THEOREM AlwaysCoalesced == Spec => []Coalesced
<1>1. IInv => Coalesced
  BY DEF IInv
<1> QED
  BY <1>1, Invariance, PTL

(* No two callers of malloc and alignedMalloc share memory, none holds a   *)
(* header, and free always finds the block it is given.                    *)
THEOREM AllocationsDisjoint == Spec => []ClientsIntact
<1>1. IInv => ClientsIntact
  BY DEF IInv
<1> QED
  BY <1>1, Invariance, PTL

(* Every header lies in the heap and has its type. *)
THEOREM TypeCorrect == Spec => []TypeOK
<1>1. IInv => TypeOK
  BY DEF IInv
<1> QED
  BY <1>1, Invariance, PTL
=============================================================================
