--------------------------- MODULE MicroRosHeapProofs ---------------------------
(***************************************************************************)
(* The private heap of micro-ROS is sound for every layout, every set of   *)
(* sizes and every order of requests, returns and growing reallocations:   *)
(* the properties of MicroRosHeap and, step by step, its contract.         *)
(*                                                                         *)
(* A heap h with the free blocks F is Sound when its blocks lie side by    *)
(* side and its list leads through F by address.  Each piece of an         *)
(* operation keeps that: a link, a join, an unlink, a split, a mark; the   *)
(* walk that finds where to insert or what to grant ends where it should.  *)
(***************************************************************************)
EXTENDS MicroRosHeap, FiniteSetTheorems, TLAPS

(* Aligned numbers.                                                          *)

Aligned(a) == a % Align = 0

\* What the constants are.
LEMMA Layout ==
  /\ Align \in Int /\ Align > 0
  /\ xHeapStructSize \in Int /\ xHeapStructSize > 0 /\ Aligned(xHeapStructSize)
  /\ pxEnd \in Int /\ pxEnd > 0 /\ Aligned(pxEnd) /\ Aligned(0)
BY LayoutAssumption DEF Aligned

\* An aligned number is a multiple of the alignment.
LEMMA AlignedIsMultiple ==
  ASSUME NEW a \in Int
  PROVE  Aligned(a) <=> \E k \in Int : a = Align * k
<1>0. Align \in Int /\ Align > 0
  BY Layout
<1>1. a \div Align \in Int /\ a = (Align * (a \div Align)) + (a % Align)
  BY <1>0
<1>2. \A k \in Int : (Align * k) % Align = 0
  BY <1>0
<1>3. ASSUME a % Align = 0
      PROVE  a = Align * (a \div Align)
  <2>1. Align * (a \div Align) \in Int
    BY <1>0, <1>1
  <2> QED  BY <1>1, <1>3, <2>1
<1> QED  BY <1>1, <1>2, <1>3 DEF Aligned

\* Sums and differences of aligned numbers are aligned, and between two that differ
\* lies room for one alignment.
LEMMA AlignedSum ==
  ASSUME NEW a \in Int, NEW b \in Int, Aligned(a), Aligned(b)
  PROVE  /\ Aligned(a + b) /\ Aligned(a - b)
         /\ a < b => a + Align <= b
<1>0. Align \in Int /\ Align > 0
  BY Layout
<1>1. PICK j \in Int, k \in Int : a = Align * j /\ b = Align * k
  BY AlignedIsMultiple
<1>2. a + b = Align * (j + k) /\ a - b = Align * (j - k)
  BY <1>0, <1>1
<1>3. a < b => j < k
  BY <1>0, <1>1
<1>4. j < k => Align * (j + 1) <= Align * k
  BY <1>0
<1>5. Align * (j + 1) = a + Align
  BY <1>0, <1>1
<1>6. a + b \in Int /\ a - b \in Int /\ j + k \in Int /\ j - k \in Int
  OBVIOUS
<1> QED  BY <1>1, <1>2, <1>3, <1>4, <1>5, <1>6, AlignedIsMultiple

\* The size of a block for a request has room for the header and the bytes.
LEMMA WantedFits ==
  ASSUME NEW bytes \in Sizes, bytes # 0
  PROVE  /\ Wanted(bytes) \in Nat /\ Aligned(Wanted(bytes))
         /\ Wanted(bytes) >= bytes + xHeapStructSize
<1>0. Align \in Int /\ Align > 0 /\ xHeapStructSize \in Int /\ xHeapStructSize > 0
  BY Layout
<1> DEFINE n == bytes + xHeapStructSize + Align - 1
<1>1. n \in Nat /\ bytes \in Nat
  BY <1>0, SizesAssumption
<1>2. /\ n \div Align \in Nat /\ n = (Align * (n \div Align)) + (n % Align)
      /\ n % Align \in 0..Align-1
  BY <1>0, <1>1
<1>3. Wanted(bytes) = Align * (n \div Align)
  BY <1>0, <1>1, <1>2 DEF Wanted
<1>4. Align * (n \div Align) \in Nat
  BY <1>0, <1>2
<1> HIDE DEF n
<1>5. Aligned(Wanted(bytes))
  BY <1>2, <1>3, <1>4, AlignedIsMultiple
<1>6. Wanted(bytes) >= n - Align + 1
  BY <1>0, <1>1, <1>2, <1>3, <1>4
<1>7. Wanted(bytes) >= bytes + xHeapStructSize
  BY <1>0, <1>1, <1>3, <1>4, <1>6 DEF n
<1> QED  BY <1>3, <1>4, <1>5, <1>7
-------------------------------------------------------------------------------
(* The structure of the heap: headers h, and the addresses F of the blocks on the    *)
(* free list.  Within an operation a block may be on no list and held by nobody.     *)

BlockSizes == Cells \cup {pxEnd}

HeaderTypes(h) ==
  /\ h \in [Headers -> [size : BlockSizes, next : Headers \cup {NULL}, mine : BOOLEAN]]
  /\ h[xStart].size = 0

BlocksIn(h) == {a \in Cells : h[a].size > 0}

\* The blocks lie side by side.
Tiling(h) ==
  /\ 0 \in BlocksIn(h)
  /\ \A a \in BlocksIn(h) : /\ a + h[a].size \in BlocksIn(h) \cup {pxEnd}
                            /\ \A b \in BlocksIn(h) : a < b => a + h[a].size <= b

\* The list has the blocks of F, by address.
Listing(h, F) ==
  /\ F \subseteq BlocksIn(h)
  /\ \A a \in F \cup {xStart} : /\ h[a].next \in F \cup {pxEnd} /\ h[a].next > a
                              /\ \A b \in F : a < b => h[a].next <= b

Joined(h, F) == \A a \in F : a + h[a].size \notin F

Sound(h, F) == HeaderTypes(h) /\ Tiling(h) /\ Listing(h, F)

BytesOf(h, F) == {z \in 0..pxEnd-1 : \E a \in F : a <= z /\ z < a + h[a].size}

\* Addresses of headers are integers, those of blocks are aligned and in the heap.
LEMMA Addresses ==
  /\ Cells \subseteq Int /\ Headers \subseteq Int
  /\ \A a \in Cells : a >= 0 /\ a < pxEnd /\ Aligned(a) /\ a \in Headers
  /\ \A a \in Int : 0 <= a /\ a < pxEnd /\ Aligned(a) => a \in Cells
  /\ \A a \in Int : 0 <= a /\ a <= pxEnd /\ Aligned(a) => a \in BlockSizes
  /\ \A a \in BlockSizes : a \in Int /\ 0 <= a /\ a <= pxEnd /\ Aligned(a)
  /\ xStart \in Headers /\ xStart = 0 - 1 /\ xStart \notin Cells
  /\ pxEnd \in Headers /\ pxEnd \notin Cells
  /\ NULL = 0 - 2 /\ NULL \notin Headers
BY Layout DEF Cells, Headers, xStart, NULL, Aligned, BlockSizes

\* Within a sound heap every block ends in the heap.
LEMMA BlockFacts ==
  ASSUME NEW h, HeaderTypes(h), Tiling(h), NEW a \in BlocksIn(h)
  PROVE  /\ a \in Cells /\ a \in Int /\ a >= 0 /\ Aligned(a) /\ a \in Headers
         /\ h[a].size \in Int /\ h[a].size > 0 /\ Aligned(h[a].size)
         /\ a + h[a].size <= pxEnd
<1>1. a \in Cells /\ h[a].size > 0
  BY DEF BlocksIn
<1>2. h[a].size \in BlockSizes
  BY <1>1, Addresses DEF HeaderTypes
<1>3. a + h[a].size \in Cells \cup {pxEnd}
  BY DEF Tiling, BlocksIn
<1> QED  BY <1>1, <1>2, <1>3, Addresses, Layout

\* The free block behind x of the list.
LEMMA NextFacts ==
  ASSUME NEW h, NEW F, Sound(h, F), NEW a \in F \cup {xStart}
  PROVE  /\ h[a].next \in F \cup {pxEnd} /\ h[a].next > a /\ h[a].next \in Headers
         /\ h[a].next \in Int /\ a \in Int /\ a < pxEnd /\ a \in Headers
         /\ h[a].next # pxEnd => h[a].next \in F
<1>1. F \subseteq Cells
  BY DEF Sound, Listing, BlocksIn
<1>2. h[a].next \in F \cup {pxEnd} /\ h[a].next > a
  BY DEF Sound, Listing
<1>3. \A b \in F : b \in Int /\ b \in Headers /\ b < pxEnd
  BY <1>1, Addresses
<1>4. a \in Int /\ a < pxEnd /\ a \in Headers
  BY <1>3, Addresses, Layout
<1>5. h[a].next \in Int /\ h[a].next \in Headers
  BY <1>2, <1>3, Addresses, Layout
<1> QED  BY <1>2, <1>4, <1>5

\* Two neighbours on the list that touch become one block: the heap has the same bytes.
Join(h, x, y) ==
  [a \in Headers |-> IF a = x THEN Header(h[x].size + h[y].size, h[y].next, FALSE)
                     ELSE IF a = y THEN Blank ELSE h[a]]

LEMMA JoinKeeps ==
  ASSUME NEW h, NEW F, Sound(h, F), NEW x \in F, NEW y \in F, x + h[x].size = y
  PROVE  /\ Sound(Join(h, x, y), F \ {y})
         /\ BlocksIn(Join(h, x, y)) = BlocksIn(h) \ {y}
         /\ BytesOf(Join(h, x, y), F \ {y}) = BytesOf(h, F)
<1> DEFINE g == Join(h, x, y)
<1>1. /\ x \in BlocksIn(h) /\ y \in BlocksIn(h) /\ F \subseteq BlocksIn(h)
      /\ HeaderTypes(h) /\ Tiling(h) /\ Listing(h, F)
  BY DEF Sound, Listing
<1>2. /\ x \in Cells /\ x \in Int /\ x >= 0 /\ x \in Headers /\ x # xStart
      /\ h[x].size \in Int /\ h[x].size > 0 /\ Aligned(h[x].size)
      /\ y \in Cells /\ y \in Int /\ y >= 0 /\ y \in Headers /\ y # xStart
      /\ h[y].size \in Int /\ h[y].size > 0 /\ Aligned(h[y].size)
      /\ y + h[y].size <= pxEnd /\ x < y
  BY <1>1, BlockFacts, Addresses
<1>3. h[x].size + h[y].size \in BlockSizes
  <2>1. Aligned(h[x].size + h[y].size)
    BY <1>2, AlignedSum
  <2>2. /\ h[x].size + h[y].size \in Int
        /\ 0 <= h[x].size + h[y].size /\ h[x].size + h[y].size <= pxEnd
    BY <1>2, Layout
  <2> QED  BY <2>1, <2>2, Addresses
<1>4. /\ h[x].next = y /\ h[y].next \in F \cup {pxEnd} /\ h[y].next > y
      /\ h[y].next \in Headers /\ h[y].next \in Int
      /\ \A b \in F : y < b => h[y].next <= b
  <2>1. h[x].next <= y /\ h[x].next > x /\ h[x].next \in F \cup {pxEnd}
    BY <1>1, <1>2 DEF Listing
  <2>2. h[x].next \in BlocksIn(h)
    <3>1. y < pxEnd /\ h[x].next \in Int
      BY <1>2, Layout, NextFacts
    <3>2. h[x].next # pxEnd
      BY <1>2, <2>1, <3>1, Layout
    <3> QED  BY <1>1, <2>1, <3>2
  <2>3. x + h[x].size <= h[x].next /\ h[x].next \in Int
    BY <1>1, <2>1, <2>2, BlockFacts DEF Tiling
  <2> QED  BY <1>1, <2>1, <2>3, <1>2, NextFacts DEF Listing
<1>5. /\ g[x] = Header(h[x].size + h[y].size, h[y].next, FALSE)
      /\ g[y] = Blank
      /\ \A a \in Headers \ {x, y} : g[a] = h[a]
  <2>1. x # y
    BY <1>2
  <2>2. \A a \in Headers : g[a] = IF a = x THEN Header(h[x].size + h[y].size, h[y].next, FALSE)
                                 ELSE IF a = y THEN Blank ELSE h[a]
    BY DEF Join
  <2> HIDE DEF g
  <2> QED  BY <1>2, <2>1, <2>2
<1>6. HeaderTypes(g)
  <2>1. g[x] \in [size : BlockSizes, next : Headers \cup {NULL}, mine : BOOLEAN]
    BY <1>3, <1>4, <1>5 DEF Header
  <2>2. g[y] \in [size : BlockSizes, next : Headers \cup {NULL}, mine : BOOLEAN]
    BY <1>5, Addresses, Layout DEF Header, Blank
  <2>3. \A a \in Headers : g[a] \in [size : BlockSizes, next : Headers \cup {NULL}, mine : BOOLEAN]
    BY <1>1, <1>5, <2>1, <2>2 DEF HeaderTypes
  <2>4. g[xStart].size = 0
    BY <1>1, <1>2, <1>5, Addresses DEF HeaderTypes
  <2> QED  BY <2>3, <2>4 DEF HeaderTypes, Join
<1>7. BlocksIn(g) = BlocksIn(h) \ {y}
  <2>1. g[x].size > 0 /\ g[y].size = 0
    BY <1>2, <1>5 DEF Header, Blank
  <2>2. \A a \in Cells : a \in Headers
    BY Addresses
  <2> HIDE DEF g
  <2>3. \A a \in Cells : g[a].size > 0 <=> (h[a].size > 0 /\ a # y)
    <3> TAKE a \in Cells
    <3>1. CASE a = x
      BY <1>2, <2>1, <3>1
    <3>2. CASE a = y
      BY <2>1, <3>2
    <3>3. CASE a \notin {x, y}
      BY <1>5, <2>2, <3>3
    <3> QED  BY <3>1, <3>2, <3>3
  <2>4. \A a : a \in BlocksIn(g) <=> a \in BlocksIn(h) /\ a # y
    BY <2>3 DEF BlocksIn
  <2> QED  BY <2>4
<1>8. \A a \in BlocksIn(g) : a # x => g[a] = h[a] /\ a \in BlocksIn(h)
  BY <1>5, <1>7, Addresses DEF BlocksIn
<1>9. x + g[x].size = y + h[y].size
  BY <1>2, <1>5 DEF Header
<1> HIDE DEF g
<1>10. Tiling(g)
  <2>1. 0 \in BlocksIn(g)
    BY <1>1, <1>2, <1>7 DEF Tiling
  <2>2. y + h[y].size # y /\ \A a \in BlocksIn(h) : a # x => a + h[a].size # y
    <3> SUFFICES ASSUME NEW a \in BlocksIn(h), a # x, a + h[a].size = y PROVE FALSE
      BY <1>2
    <3>1. a \in Int /\ h[a].size \in Int /\ h[a].size > 0
      BY <1>1, BlockFacts
    <3>2. CASE a < x
      BY <1>1, <1>2, <3>1, <3>2 DEF Tiling
    <3>3. CASE x < a
      BY <1>1, <1>2, <3>1, <3>3 DEF Tiling
    <3> QED  BY <3>1, <3>2, <3>3, <1>2
  <2>3. \A a \in BlocksIn(g) : a + g[a].size \in BlocksIn(g) \cup {pxEnd}
    BY <1>1, <1>7, <1>8, <1>9, <2>2 DEF Tiling
  <2>4. \A a \in BlocksIn(g), b \in BlocksIn(g) : a < b => a + g[a].size <= b
    <3> SUFFICES ASSUME NEW a \in BlocksIn(g), NEW b \in BlocksIn(g), a < b
                 PROVE  a + g[a].size <= b
      OBVIOUS
    <3>1. b \in BlocksIn(h) /\ b # y /\ b \in Int /\ a \in BlocksIn(h)
      BY <1>1, <1>7, BlockFacts
    <3>2. CASE a # x
      BY <1>1, <1>8, <3>1, <3>2 DEF Tiling
    <3>3. CASE a = x
      <4>1. y <= b
        BY <1>1, <3>1, <3>3 DEF Tiling
      <4>2. y + h[y].size <= b
        BY <1>1, <1>2, <3>1, <4>1 DEF Tiling
      <4> QED  BY <1>9, <3>3, <4>2
    <3> QED  BY <3>2, <3>3
  <2> QED  BY <2>1, <2>3, <2>4 DEF Tiling
<1>11. Listing(g, F \ {y})
  <2>1. F \ {y} \subseteq BlocksIn(g)
    BY <1>1, <1>7
  <2>2. ASSUME NEW a \in (F \ {y}) \cup {xStart}
        PROVE  /\ g[a].next \in (F \ {y}) \cup {pxEnd} /\ g[a].next > a
               /\ \A b \in F \ {y} : a < b => g[a].next <= b
    <3>1. CASE a = x
      <4>1. g[a].next = h[y].next
        BY <1>5, <3>1 DEF Header
      <4>0. g[a].next # y /\ x < h[y].next /\ h[y].next \in (F \ {y}) \cup {pxEnd}
        BY <1>2, <1>4, <4>1
      <4>2. \A b \in F \ {y} : a < b => y < b
        <5> SUFFICES ASSUME NEW b \in F \ {y}, a < b PROVE y < b
          OBVIOUS
        <5>1. b \in Int /\ b \in BlocksIn(h)
          BY <1>1, BlockFacts
        <5> QED  BY <1>1, <1>2, <3>1, <5>1 DEF Tiling
      <4>3. \A b \in F \ {y} : a < b => g[a].next <= b
        BY <1>4, <4>1, <4>2
      <4> QED  BY <3>1, <4>0, <4>1, <4>3
    <3>2. CASE a # x
      <4>1. a \in F \cup {xStart} /\ a \in Headers \ {x, y} /\ a \in Int
        BY <1>2, <3>2, NextFacts
      <4>2. g[a] = h[a]
        BY <1>5, <4>1
      <4>3. h[a].next # y
        <5> SUFFICES ASSUME h[a].next = y PROVE FALSE
          OBVIOUS
        <5>1. y > a /\ (a < x => h[a].next <= x)
          BY <1>1, <4>1 DEF Listing
        <5>2. x < a
          BY <1>2, <3>2, <4>1, <5>1
        <5>3. a # xStart
          BY <1>2, <5>2, Addresses
        <5>4. a \in BlocksIn(h)
          BY <1>1, <4>1, <5>3
        <5> QED  BY <1>1, <1>2, <4>1, <5>1, <5>2, <5>4 DEF Tiling
      <4>4. /\ h[a].next \in F \cup {pxEnd} /\ h[a].next > a
            /\ \A b \in F : a < b => h[a].next <= b
        BY <1>1, <4>1 DEF Listing
      <4> QED  BY <4>2, <4>3, <4>4
    <3> QED  BY <3>1, <3>2
  <2> QED  BY <2>1, <2>2 DEF Listing
<1>12. BytesOf(g, F \ {y}) = BytesOf(h, F)
  <2>1. \A z \in 0..pxEnd-1 :
          (\E a \in F \ {y} : a <= z /\ z < a + g[a].size)
            <=> (\E a \in F : a <= z /\ z < a + h[a].size)
    <3> TAKE z \in 0..pxEnd-1
    <3>1. z \in Int
      BY Layout
    <3>2. ASSUME NEW a \in F \ {y}, a <= z, z < a + g[a].size
          PROVE  \E c \in F : c <= z /\ z < c + h[c].size
      <4>1. CASE a # x
        BY <1>1, <1>7, <1>8, <3>2, <4>1
      <4>2. CASE a = x
        <5>1. z < y + h[y].size
          BY <1>9, <3>2, <4>2
        <5> QED  BY <1>2, <3>1, <3>2, <4>2, <5>1
      <4> QED  BY <4>1, <4>2
    <3>3. ASSUME NEW a \in F, a <= z, z < a + h[a].size
          PROVE  \E c \in F \ {y} : c <= z /\ z < c + g[c].size
      <4>1. CASE a \notin {x, y}
        BY <1>1, <1>7, <1>8, <3>3, <4>1
      <4>2. CASE a \in {x, y}
        <5>1. x <= z /\ z < y + h[y].size
          BY <1>2, <3>1, <3>3, <4>2
        <5> QED  BY <1>2, <1>9, <5>1
      <4> QED  BY <4>1, <4>2
    <3> QED  BY <3>2, <3>3
  <2> QED  BY <2>1 DEF BytesOf
<1> QED  BY <1>6, <1>7, <1>10, <1>11, <1>12 DEF Sound, g

\* A block that is on no list is linked behind the free block x, or first.
LinkIn(h, x, b) ==
  [a \in Headers |-> IF a = x THEN [h[x] EXCEPT !.next = b]
                     ELSE IF a = b THEN Header(h[b].size, h[x].next, FALSE) ELSE h[a]]

LEMMA LinkKeeps ==
  ASSUME NEW h, NEW F, Sound(h, F), NEW b \in BlocksIn(h), b \notin F,
         NEW x \in F \cup {xStart}, x < b, b <= h[x].next
  PROVE  /\ Sound(LinkIn(h, x, b), F \cup {b})
         /\ BlocksIn(LinkIn(h, x, b)) = BlocksIn(h)
         /\ BytesOf(LinkIn(h, x, b), F \cup {b}) = BytesOf(h, F) \cup (b..b + h[b].size - 1)
<1> DEFINE g == LinkIn(h, x, b)
<1>1. /\ F \subseteq BlocksIn(h) /\ HeaderTypes(h) /\ Tiling(h) /\ Listing(h, F)
  BY DEF Sound, Listing
<1>2. /\ b \in Cells /\ b \in Int /\ b >= 0 /\ b \in Headers /\ b # xStart /\ b < pxEnd
      /\ h[b].size \in Int /\ h[b].size > 0 /\ b + h[b].size <= pxEnd
  BY <1>1, BlockFacts, Addresses
<1>3. /\ x \in Headers /\ x \in Int /\ x # b
      /\ h[x].next \in F \cup {pxEnd} /\ h[x].next \in Int /\ h[x].next \in Headers
      /\ h[x].next > b /\ \A c \in F : x < c => h[x].next <= c
  <2>1. /\ x \in Headers /\ x \in Int /\ h[x].next \in F \cup {pxEnd} /\ h[x].next \in Int
        /\ h[x].next \in Headers
    BY NextFacts
  <2>2. h[x].next # b
    BY <1>2, <2>1, Layout
  <2>3. \A c \in F : x < c => h[x].next <= c
    BY <1>1 DEF Listing
  <2> QED  BY <1>2, <2>1, <2>2, <2>3
<1>4. /\ g[x] = [h[x] EXCEPT !.next = b]
      /\ g[b] = Header(h[b].size, h[x].next, FALSE)
      /\ \A a \in Headers \ {x, b} : g[a] = h[a]
  <2>1. \A a \in Headers : g[a] = IF a = x THEN [h[x] EXCEPT !.next = b]
                     ELSE IF a = b THEN Header(h[b].size, h[x].next, FALSE) ELSE h[a]
    BY DEF LinkIn
  <2> HIDE DEF g
  <2> QED  BY <1>2, <1>3, <2>1
<1>5. \A a \in Headers : h[a] \in [size : BlockSizes, next : Headers \cup {NULL}, mine : BOOLEAN]
  BY <1>1 DEF HeaderTypes
<1>6. /\ g[x].next = b /\ g[b].next = h[x].next
      /\ \A a \in Headers : g[a].size = h[a].size
      /\ \A a \in Headers : a \notin {x, b} => g[a].next = h[a].next
  BY <1>2, <1>3, <1>4, <1>5 DEF Header
<1>7. HeaderTypes(g)
  <2>1. g[x] \in [size : BlockSizes, next : Headers \cup {NULL}, mine : BOOLEAN]
    BY <1>2, <1>3, <1>4, <1>5
  <2>2. g[b] \in [size : BlockSizes, next : Headers \cup {NULL}, mine : BOOLEAN]
    BY <1>2, <1>3, <1>4, <1>5 DEF Header
  <2>3. \A a \in Headers : g[a] \in [size : BlockSizes, next : Headers \cup {NULL}, mine : BOOLEAN]
    BY <1>4, <1>5, <2>1, <2>2
  <2>4. g[xStart].size = 0
    BY <1>1, <1>6, Addresses DEF HeaderTypes
  <2> QED  BY <2>3, <2>4 DEF HeaderTypes, LinkIn
<1> HIDE DEF g
<1>8. BlocksIn(g) = BlocksIn(h)
  BY <1>6, Addresses DEF BlocksIn
<1>9. \A a \in BlocksIn(h) : g[a].size = h[a].size
  BY <1>6, Addresses DEF BlocksIn
<1>10. Tiling(g)
  BY <1>1, <1>8, <1>9 DEF Tiling
<1>11. Listing(g, F \cup {b})
  <2>1. F \cup {b} \subseteq BlocksIn(g)
    BY <1>1, <1>8
  <2>2. ASSUME NEW a \in F \cup {b} \cup {xStart}
        PROVE  /\ g[a].next \in (F \cup {b}) \cup {pxEnd} /\ g[a].next > a
               /\ \A c \in F \cup {b} : a < c => g[a].next <= c
    <3>1. CASE a = x
      <4>1. \A c \in F : a < c => b <= c
        <5> SUFFICES ASSUME NEW c \in F, a < c PROVE b <= c
          OBVIOUS
        <5>1. c \in Int /\ h[x].next <= c
          BY <1>1, <1>3, <3>1, BlockFacts
        <5> QED  BY <1>2, <1>3, <5>1
      <4> QED  BY <1>2, <1>6, <3>1, <4>1
    <3>2. CASE a = b
      <4>1. \A c \in F : a < c => h[x].next <= c
        <5> SUFFICES ASSUME NEW c \in F, a < c PROVE h[x].next <= c
          OBVIOUS
        <5>1. c \in Int
          BY <1>1, BlockFacts
        <5> QED  BY <1>2, <1>3, <3>2, <5>1
      <4> QED  BY <1>2, <1>3, <1>6, <3>2, <4>1
    <3>3. CASE a \notin {x, b}
      <4>1. a \in F \cup {xStart} /\ a \in Headers /\ a \in Int /\ h[a].next \in Int
        BY <3>3, NextFacts
      <4>2. /\ h[a].next \in F \cup {pxEnd} /\ h[a].next > a
            /\ \A c \in F : a < c => h[a].next <= c
        BY <1>1, <4>1 DEF Listing
      <4>3. a < b => h[a].next <= b
        <5>1. CASE a < x
          <6>1. x \in F
            BY <4>1, <5>1, <1>3, Addresses, <1>1, BlockFacts
          <6>2. h[a].next <= x
            BY <4>2, <5>1, <6>1
          <6> QED  BY <1>2, <1>3, <4>1, <6>2
        <5>2. CASE x < a
          <6>1. a \in F
            BY <4>1, <5>2, <1>3, Addresses, <1>1, BlockFacts
          <6>2. h[x].next <= a
            BY <1>3, <5>2, <6>1
          <6> QED  BY <1>2, <1>3, <4>1, <6>2
        <5> QED  BY <3>3, <4>1, <1>3, <5>1, <5>2
      <4>4. g[a].next = h[a].next
        BY <1>6, <3>3, <4>1
      <4> QED  BY <4>2, <4>3, <4>4
    <3> QED  BY <3>1, <3>2, <3>3
  <2> QED  BY <2>1, <2>2 DEF Listing
<1>12. BytesOf(g, F \cup {b}) = BytesOf(h, F) \cup (b..b + h[b].size - 1)
  <2>1. \A z : z \in BytesOf(g, F \cup {b}) <=>
          /\ z \in 0..pxEnd-1
          /\ (\E a \in F : a <= z /\ z < a + h[a].size) \/ (b <= z /\ z < b + h[b].size)
    BY <1>1, <1>9 DEF BytesOf
  <2>2. \A z : z \in b..b + h[b].size - 1 <=> z \in 0..pxEnd-1 /\ b <= z /\ z < b + h[b].size
    BY <1>2, Layout
  <2> QED  BY <2>1, <2>2 DEF BytesOf
<1> QED  BY <1>7, <1>8, <1>10, <1>11, <1>12 DEF Sound, g
-------------------------------------------------------------------------------
(* The walk along the list.                                                          *)

\* A set of numbers with 0 and the successor of each of its members has all numbers.
LEMMA SetInduction ==
  ASSUME NEW S \in SUBSET Nat, 0 \in S, \A n \in S : n + 1 \in S
  PROVE  S = Nat
<1> SUFFICES ASSUME Nat \ S # {} PROVE FALSE
  OBVIOUS
<1>1. PICK m \in Nat \ S : \A k \in Nat \ S : ~(<<k, m>> \in OpToRel(<, Nat))
  BY NatLessThanWellFounded, WFMin
<1>2. \A k \in Nat \ S : ~(k < m)
  BY <1>1 DEF OpToRel
<1>3. m \in Nat /\ m # 0
  OBVIOUS
<1>4. m - 1 \in Nat /\ m - 1 < m
  BY <1>3
<1>5. m - 1 \in S
  BY <1>2, <1>4
<1>6. m - 1 + 1 = m
  BY <1>3
<1> QED  BY <1>5, <1>6

\* A non-empty set of numbers has a least one.
LEMMA LeastNumber ==
  ASSUME NEW S \in SUBSET Nat, S # {}
  PROVE  \E m \in S : \A k \in 0..m-1 : k \notin S
<1>1. PICK m \in S : \A k \in S : ~(<<k, m>> \in OpToRel(<, Nat))
  BY NatLessThanWellFounded, WFMin
<1>2. \A k \in S : ~(k < m)
  BY <1>1 DEF OpToRel
<1>3. m \in Nat /\ \A k \in 0..m-1 : k \in Nat /\ k < m
  OBVIOUS
<1>4. \A k \in 0..m-1 : k \notin S
  BY <1>2, <1>3
<1> QED  BY <1>4

\* A walk of n steps from the head.
IsWalk(h, g, n) == g = [i \in 0..n |-> IF i = 0 THEN xStart ELSE h[g[i - 1]].next]

IsVisited(h, c) == c = [n \in Nat |-> IF n = 0 THEN xStart ELSE h[c[n - 1]].next]

\* The steps of a walk follow the links.
LEMMA WalkStep ==
  ASSUME NEW h, NEW n, NEW g, IsWalk(h, g, n), NEW i \in 0..n
  PROVE  g[i] = IF i = 0 THEN xStart ELSE h[g[i - 1]].next
BY DEF IsWalk

\* There is a walk of every length, and one only.
LEMMA WalkExists ==
  ASSUME NEW h, NEW n \in Nat
  PROVE  \E g : IsWalk(h, g, n)
<1> DEFINE S == {k \in Nat : \E g : IsWalk(h, g, k)}
<1>1. 0 \in S
  <2>1. IsWalk(h, [i \in 0..0 |-> xStart], 0)
    BY DEF IsWalk
  <2> QED  BY <2>1
<1>2. ASSUME NEW k \in S
      PROVE  k + 1 \in S
  <2>1. PICK g : IsWalk(h, g, k)
    OBVIOUS
  <2> DEFINE f == [i \in 0..k + 1 |-> IF i <= k THEN g[i] ELSE h[g[k]].next]
  <2>2. \A i \in 0..k : g[i] = IF i = 0 THEN xStart ELSE h[g[i - 1]].next
    BY <2>1 DEF IsWalk
  <2>3. \A i \in 0..k + 1 : f[i] = IF i = 0 THEN xStart ELSE h[f[i - 1]].next
    <3> TAKE i \in 0..k + 1
    <3>0. k \in Nat
      OBVIOUS
    <3>1. CASE i <= k
      <4>1. i # 0 => i - 1 \in 0..k + 1 /\ i - 1 <= k
        BY <3>0, <3>1
      <4>2. f[i] = g[i] /\ (i # 0 => f[i - 1] = g[i - 1])
        BY <3>1, <4>1
      <4>3. i \in 0..k
        BY <3>0, <3>1
      <4> QED  BY <2>2, <4>2, <4>3
    <3>2. CASE ~(i <= k)
      <4>1. i = k + 1 /\ i # 0 /\ k \in 0..k + 1 /\ i - 1 = k
        BY <3>0, <3>2
      <4>2. f[i] = h[g[k]].next /\ f[k] = g[k]
        BY <3>0, <3>2, <4>1
      <4> QED  BY <4>1, <4>2
    <3> QED  BY <3>1, <3>2
  <2>4. IsWalk(h, f, k + 1)
    BY <2>3 DEF IsWalk
  <2> QED  BY <2>4
<1> HIDE DEF S
<1>3. S = Nat
  BY <1>1, <1>2, SetInduction DEF S
<1> QED  BY <1>3 DEF S

LEMMA WalkUnique ==
  ASSUME NEW h, NEW n \in Nat, NEW m \in Nat, n <= m, NEW g, IsWalk(h, g, n),
         NEW f, IsWalk(h, f, m), NEW i \in 0..n
  PROVE  g[i] = f[i]
<1> DEFINE S == {k \in Nat : k <= n => g[k] = f[k]}
<1>1. \A k \in 0..n : g[k] = IF k = 0 THEN xStart ELSE h[g[k - 1]].next
  BY DEF IsWalk
<1>2. \A k \in 0..m : f[k] = IF k = 0 THEN xStart ELSE h[f[k - 1]].next
  BY DEF IsWalk
<1>3. 0 \in S
  BY <1>1, <1>2
<1>4. ASSUME NEW k \in S
      PROVE  k + 1 \in S
  <2>1. CASE k + 1 <= n
    <3>1. k \in Nat /\ k + 1 \in 0..n /\ k + 1 \in 0..m /\ k + 1 # 0 /\ k + 1 - 1 = k /\ k <= n
      BY <2>1
    <3>2. g[k + 1] = h[g[k]].next /\ f[k + 1] = h[f[k]].next /\ g[k] = f[k]
      BY <1>1, <1>2, <3>1
    <3> QED  BY <3>1, <3>2
  <2>2. CASE ~(k + 1 <= n)
    BY <2>2
  <2> QED  BY <2>1, <2>2
<1> HIDE DEF S
<1>5. S = Nat
  BY <1>3, <1>4, SetInduction DEF S
<1> QED  BY <1>5 DEF S

\* Visited is what its recursion says.
LEMMA VisitedIs ==
  ASSUME NEW h
  PROVE  /\ Visited(h)[0] = xStart
         /\ \A n \in Nat : Visited(h)[n + 1] = h[Visited(h)[n]].next
<1> DEFINE W(n) == CHOOSE g : IsWalk(h, g, n)
           c == [n \in Nat |-> W(n)[n]]
<1>1. \A n \in Nat : IsWalk(h, W(n), n)
  BY WalkExists
<1>2. \A n \in Nat : c[n] = IF n = 0 THEN xStart ELSE h[c[n - 1]].next
  <2> TAKE n \in Nat
  <2>1. c[n] = IF n = 0 THEN xStart ELSE h[W(n)[n - 1]].next
    <3>1. n \in 0..n
      OBVIOUS
    <3>2. W(n)[n] = IF n = 0 THEN xStart ELSE h[W(n)[n - 1]].next
      <4>1. IsWalk(h, W(n), n)
        BY <1>1
      <4> HIDE DEF W
      <4> QED  BY <3>1, <4>1, WalkStep
    <3> QED  BY <3>2
  <2>2. CASE n # 0
    <3>1. n - 1 \in Nat /\ n - 1 <= n /\ n - 1 \in 0..n - 1
      BY <2>2
    <3>2. W(n - 1)[n - 1] = W(n)[n - 1]
      <4>1. IsWalk(h, W(n - 1), n - 1) /\ IsWalk(h, W(n), n)
        BY <1>1, <3>1
      <4> HIDE DEF W
      <4> QED  BY <3>1, <4>1, WalkUnique
    <3> QED  BY <2>1, <2>2, <3>1, <3>2
  <2> QED  BY <2>1, <2>2
<1>3. IsVisited(h, c)
  <2>1. c = [n \in Nat |-> c[n]]
    OBVIOUS
  <2> HIDE DEF c
  <2> QED  BY <1>2, <2>1 DEF IsVisited
<1>4. IsVisited(h, Visited(h))
  <2>1. Visited(h) = CHOOSE d : IsVisited(h, d)
    BY DEF Visited, IsVisited
  <2> HIDE DEF c
  <2> QED  BY <1>3, <2>1
<1>5. \A n \in Nat : Visited(h)[n] = IF n = 0 THEN xStart ELSE h[Visited(h)[n - 1]].next
  BY <1>4 DEF IsVisited
<1> DEFINE v == Visited(h)
<1> HIDE DEF v
<1>6. \A n \in Nat : v[n] = IF n = 0 THEN xStart ELSE h[v[n - 1]].next
  BY <1>5 DEF v
<1>7. v[0] = xStart
  BY <1>6
<1>8. \A n \in Nat : v[n + 1] = h[v[n]].next
  <2> TAKE n \in Nat
  <2>1. n + 1 \in Nat /\ n + 1 # 0 /\ n + 1 - 1 = n
    OBVIOUS
  <2> QED  BY <1>6, <2>1
<1> QED  BY <1>7, <1>8 DEF v

\* Until it has met the end marker the walk is on the list, and comes forward.
LEMMA WalkOnList ==
  ASSUME NEW h, NEW F, Sound(h, F), NEW n \in Nat, \A k \in 0..n : Visited(h)[k] # pxEnd
  PROVE  /\ Visited(h)[n] \in F \cup {xStart}
         /\ n > 0 => Visited(h)[n] \in F /\ Visited(h)[n] >= Align * (n - 1)
<1> DEFINE c == Visited(h)
           On(k) == /\ c[k] \in F \cup {xStart}
                    /\ k > 0 => c[k] \in F /\ c[k] >= Align * (k - 1)
           S == {k \in Nat : k <= n => On(k)}
<1>0. c[0] = xStart /\ \A k \in Nat : c[k + 1] = h[c[k]].next
  BY VisitedIs
<1> HIDE DEF c
<1>1. 0 \in S
  BY <1>0
<1>2. ASSUME NEW k \in S
      PROVE  k + 1 \in S
  <2>0. k \in Nat /\ k + 1 \in Nat /\ k + 1 > 0 /\ k + 1 - 1 = k
    OBVIOUS
  <2>1. CASE k + 1 <= n
    <3>1. k <= n /\ k + 1 \in 0..n
      BY <2>0, <2>1
    <3>2. On(k)
      <4> HIDE DEF On
      <4> QED  BY <3>1
    <3>3. c[k + 1] # pxEnd
      BY <3>1 DEF c
    <3>4. c[k + 1] = h[c[k]].next
      BY <1>0, <2>0
    <3>5. c[k + 1] \in F /\ c[k + 1] > c[k] /\ c[k] \in Int /\ c[k + 1] \in Int
      BY <3>2, <3>3, <3>4, NextFacts
    <3>6. /\ c[k + 1] >= 0 /\ Aligned(c[k + 1])
          /\ c[k] \in F => Aligned(c[k])
      BY <3>5, BlockFacts DEF Sound, Listing
    <3>7. c[k + 1] >= Align * k
      <4>1. CASE k = 0
        BY <3>5, <3>6, <4>1, Layout
      <4>2. CASE k > 0
        <5>1. c[k] + Align <= c[k + 1]
          BY <3>2, <3>5, <3>6, <4>2, AlignedSum
        <5>2. Align * (k - 1) + Align = Align * k /\ Align * (k - 1) \in Int /\ Align * k \in Int
          BY <2>0, Layout
        <5> QED  BY <3>2, <3>5, <4>2, <5>1, <5>2, Layout
      <4> QED  BY <2>0, <4>1, <4>2
    <3>8. On(k + 1)
      BY <2>0, <3>5, <3>7
    <3> HIDE DEF On
    <3> QED  BY <2>0, <3>8
  <2>2. CASE ~(k + 1 <= n)
    BY <2>0, <2>2
  <2> QED  BY <2>1, <2>2
<1> HIDE DEF S, On
<1>3. S = Nat
  BY <1>1, <1>2, SetInduction DEF S
<1>4. On(n)
  BY <1>3 DEF S
<1> QED  BY <1>4 DEF On, c

\* Every address but the first is reached: the walk is before it, and then not.
LEMMA WalkReaches ==
  ASSUME NEW h, NEW F, Sound(h, F), NEW b \in Int, b > xStart, b <= pxEnd
  PROVE  \E n \in Steps : /\ Visited(h)[n + 1] >= b
                         /\ \A k \in 0..n-1 : Visited(h)[k + 1] < b
<1> DEFINE c == Visited(h)
           S == {n \in Nat : c[n + 1] >= b}
<1>0. c[0] = xStart /\ \A k \in Nat : c[k + 1] = h[c[k]].next
  BY VisitedIs
<1>1. ASSUME NEW n \in Nat, \A k \in 0..n-1 : k \notin S
      PROVE  /\ c[n] \in F \cup {xStart} /\ c[n] \in Int /\ c[n + 1] \in Int
             /\ c[n] < b /\ (n > 0 => c[n] >= Align * (n - 1) /\ Aligned(c[n]))
  <2>1. \A k \in 0..n : c[k] # pxEnd
    <3> SUFFICES ASSUME NEW k \in 0..n, c[k] = pxEnd PROVE FALSE
      OBVIOUS
    <3>1. k # 0
      BY <1>0, Addresses, Layout
    <3>2. k - 1 \in Nat /\ k - 1 \in 0..n-1 /\ k - 1 + 1 = k
      BY <3>1
    <3> HIDE DEF c
    <3>3. k - 1 \in S
      BY <3>2, Layout
    <3> QED  BY <1>1, <3>2, <3>3
  <2>2. c[n] \in F \cup {xStart} /\ (n > 0 => c[n] \in F /\ c[n] >= Align * (n - 1))
    BY <2>1, WalkOnList
  <2>3. c[n] \in Int /\ c[n + 1] \in Int
    BY <1>0, <2>2, NextFacts
  <2> HIDE DEF c
  <2>4. CASE n = 0
    BY <1>0, <2>2, <2>3, <2>4
  <2>5. CASE n > 0
    <3>1. n - 1 \in Nat /\ n - 1 \in 0..n-1 /\ n - 1 + 1 = n
      BY <2>5
    <3>2. n - 1 \notin S
      BY <1>1, <3>1
    <3>3. c[n] < b
      BY <2>3, <3>1, <3>2
    <3>5. c[n] \in F
      BY <2>2, <2>5
    <3>6. Aligned(c[n])
      BY <3>5, BlockFacts DEF Sound, Listing
    <3> QED  BY <2>2, <2>3, <3>3, <3>6
  <2> QED  BY <2>4, <2>5
<1>2. S # {}
  <2> SUFFICES ASSUME S = {} PROVE FALSE
    OBVIOUS
  <2> DEFINE n == pxEnd + 1
  <2>1. n \in Nat /\ n > 0 /\ n - 1 = pxEnd
    BY Layout
  <2>2. Align * pxEnd >= pxEnd /\ Align * pxEnd \in Int
    BY Layout
  <2> HIDE DEF n, c
  <2>3. c[n] < b /\ c[n] >= Align * pxEnd /\ c[n] \in Int
    BY <1>1, <2>1
  <2> QED  BY <2>2, <2>3, Layout
<1>3. PICK n \in S : \A k \in 0..n-1 : k \notin S
  BY <1>2, LeastNumber
<1>4. n \in Nat /\ c[n + 1] >= b
  OBVIOUS
<1> HIDE DEF c
<1>5. n <= pxEnd \div Align
  <2>1. pxEnd \div Align \in Nat /\ pxEnd = Align * (pxEnd \div Align)
    BY LayoutAssumption
  <2>2. CASE n = 0
    BY <2>1, <2>2
  <2>3. CASE n > 0
    <3>1. c[n] < pxEnd /\ c[n] \in Int /\ Aligned(c[n]) /\ c[n] >= Align * (n - 1)
      BY <1>1, <1>3, <1>4, <2>3, Layout
    <3>2. c[n] + Align <= pxEnd
      BY <3>1, AlignedSum, Layout
    <3>3. Align * (n - 1) + Align <= pxEnd
      BY <1>4, <3>1, <3>2, Layout
    <3>4. Align * (n - 1) + Align = Align * n
      BY <1>4, Layout
    <3>5. Align * n <= Align * (pxEnd \div Align)
      BY <2>1, <3>3, <3>4
    <3> QED  BY <1>4, <2>1, <3>5, Layout
  <2> QED  BY <1>4, <2>2, <2>3
<1>6. n \in Steps
  BY <1>4, <1>5 DEF Steps
<1>7. \A k \in 0..n-1 : c[k + 1] < b
  <2> TAKE k \in 0..n-1
  <2>1. k \in Nat /\ k + 1 \in Nat /\ \A i \in 0..k : i \notin S
    BY <1>3, <1>4
  <2>2. \A i \in 0..k + 1 - 1 : i \notin S
    BY <2>1
  <2>3. c[k + 1] < b
    BY <1>1, <2>1, <2>2
  <2> QED  BY <2>3
<1> QED  BY <1>4, <1>6, <1>7 DEF c

\* As long as it has stayed below the end of the heap the walk is on the list.
LEMMA WalkBelow ==
  ASSUME NEW h, NEW F, Sound(h, F), NEW n \in Nat,
         \A k \in 0..n-1 : Visited(h)[k + 1] # pxEnd
  PROVE  /\ Visited(h)[n] \in F \cup {xStart}
         /\ n > 0 => Visited(h)[n] \in F
         /\ Visited(h)[n] \in Int
         /\ Visited(h)[n + 1] = h[Visited(h)[n]].next
<1> DEFINE c == Visited(h)
<1>0. c[0] = xStart /\ \A k \in Nat : c[k + 1] = h[c[k]].next
  BY VisitedIs
<1>1. \A k \in 0..n : c[k] # pxEnd
  <2> TAKE k \in 0..n
  <2>1. CASE k = 0
    BY <1>0, <2>1, Addresses, Layout
  <2>2. CASE k # 0
    <3>1. k - 1 \in 0..n-1 /\ k - 1 + 1 = k
      BY <2>2
    <3> QED  BY <3>1
  <2> QED  BY <2>1, <2>2
<1>2. c[n] \in F \cup {xStart} /\ (n > 0 => c[n] \in F)
  BY <1>1, WalkOnList
<1> QED  BY <1>0, <1>2, NextFacts

\* A block is inserted behind the last free block before it.
LEMMA IteratorFacts ==
  ASSUME NEW h, NEW F, Sound(h, F), NEW b \in Cells
  PROVE  /\ Iterator(b, h) \in F \cup {xStart}
         /\ Iterator(b, h) < b /\ b <= h[Iterator(b, h)].next
<1> DEFINE c == Visited(h)
           Found(n) == h[c[n]].next >= b /\ \A k \in 0..n-1 : h[c[k]].next < b
           n0 == CHOOSE n \in Steps : Found(n)
<1>0. c[0] = xStart /\ \A k \in Nat : c[k + 1] = h[c[k]].next
  BY VisitedIs
<1>1. b \in Int /\ b > xStart /\ b < pxEnd
  BY Addresses, Layout
<1>2. PICK n \in Steps : c[n + 1] >= b /\ \A k \in 0..n-1 : c[k + 1] < b
  BY <1>1, WalkReaches, Layout
<1>3. Steps \subseteq Nat
  BY DEF Steps
<1> HIDE DEF c
<1>4. Found(n)
  <2>1. \A k \in 0..n-1 : k \in Nat
    BY <1>3
  <2> QED  BY <1>0, <1>2, <1>3, <2>1
<1>5. n0 \in Steps /\ Found(n0)
  <2> HIDE DEF Found
  <2> QED  BY <1>4
<1>6. Iterator(b, h) = c[n0]
  BY DEF Iterator, c
<1> HIDE DEF n0
<1>7. n0 \in Nat /\ \A k \in 0..n0-1 : k \in Nat /\ c[k + 1] < b
  <2>1. \A k \in 0..n0-1 : k \in Nat
    BY <1>3, <1>5
  <2> QED  BY <1>0, <1>3, <1>5, <2>1
<1>8. \A k \in 0..n0-1 : c[k + 1] # pxEnd
  BY <1>1, <1>7, Layout
<1>9. c[n0] \in F \cup {xStart} /\ c[n0] \in Int
  BY <1>7, <1>8, WalkBelow DEF c
<1>10. c[n0] < b
  <2>1. CASE n0 = 0
    BY <1>0, <1>1, <2>1
  <2>2. CASE n0 # 0
    <3>1. n0 - 1 \in 0..n0-1 /\ n0 - 1 + 1 = n0
      BY <1>7, <2>2
    <3> QED  BY <1>7, <3>1
  <2> QED  BY <2>1, <2>2
<1> QED  BY <1>5, <1>6, <1>9, <1>10

\* FirstFit finds a free block that is large enough, or there is none.
LEMMA FirstFitFacts ==
  ASSUME NEW F, Sound(hdr, F), NEW w \in Nat
  PROVE  /\ FirstFit(w) \in F \cup {xStart}
         /\ hdr[FirstFit(w)].next # pxEnd => hdr[hdr[FirstFit(w)].next].size >= w
         /\ hdr[FirstFit(w)].next = pxEnd => \A a \in F : hdr[a].size < w
<1> DEFINE c == Visited(hdr)
           Stop(n) == hdr[c[n + 1]].size >= w \/ c[n + 1] = pxEnd
           Found(n) == Stop(n) /\ \A k \in 0..n-1 : ~Stop(k)
           n0 == CHOOSE n \in Steps : Found(n)
<1>0. c[0] = xStart /\ \A k \in Nat : c[k + 1] = hdr[c[k]].next
  BY VisitedIs
<1>1. Steps \subseteq Nat /\ \A n \in Steps : \A k \in 0..n : k \in Steps
  <2>1. pxEnd \div Align \in Nat
    BY Layout
  <2> QED  BY <2>1 DEF Steps
<1>2. PICK n \in Steps : c[n + 1] >= pxEnd /\ \A k \in 0..n-1 : c[k + 1] < pxEnd
  BY WalkReaches, Addresses, Layout
<1>3. n \in Nat
  BY <1>1
<1>4. c[n + 1] = pxEnd
  <2>1. \A k \in 0..n-1 : c[k + 1] # pxEnd
    BY <1>2, Layout
  <2>2. c[n] \in F \cup {xStart} /\ c[n + 1] = hdr[c[n]].next
    BY <1>3, <2>1, WalkBelow
  <2> HIDE DEF c
  <2>3. c[n + 1] \in F \cup {pxEnd} /\ c[n + 1] \in Int
    BY <2>2, NextFacts
  <2>4. \A a \in F : a < pxEnd /\ a \in Int
    BY NextFacts
  <2> QED  BY <1>2, <2>3, <2>4, Layout
<1> HIDE DEF c
<1>5. \E m \in Steps : Found(m)
  <2> DEFINE S == {k \in Nat : Stop(k)}
  <2>1. n \in S
    BY <1>3, <1>4
  <2> HIDE DEF Stop
  <2>2. PICK m \in S : \A k \in 0..m-1 : k \notin S
    BY <2>1, LeastNumber
  <2>3. m \in Nat /\ Stop(m) /\ \A k \in 0..m-1 : ~Stop(k)
    BY <2>2
  <2>4. m <= n
    BY <1>3, <2>1, <2>2, <2>3
  <2>5. m \in Steps
    BY <1>1, <1>3, <2>3, <2>4
  <2> QED  BY <2>3, <2>5
<1>6. n0 \in Steps /\ Found(n0)
  <2> HIDE DEF Found
  <2> QED  BY <1>5
<1>7. FirstFit(w) = c[n0]
  BY DEF FirstFit, c
<1> HIDE DEF n0
<1>8. n0 \in Nat /\ \A k \in 0..n0-1 : c[k + 1] # pxEnd /\ k \in Nat
  BY <1>1, <1>6
<1>9. c[n0] \in F \cup {xStart} /\ c[n0 + 1] = hdr[c[n0]].next
  BY <1>8, WalkBelow DEF c
<1>10. ASSUME c[n0 + 1] = pxEnd, NEW a \in F
       PROVE  hdr[a].size < w
  <2>1. a \in Int /\ a > xStart /\ a < pxEnd /\ hdr[a].size \in Int
    BY BlockFacts, NextFacts, Addresses DEF Sound, Listing
  <2>2. PICK j \in Steps : c[j + 1] >= a /\ \A k \in 0..j-1 : c[k + 1] < a
    BY <2>1, WalkReaches, Layout DEF c
  <2>3. j \in Nat /\ \A k \in 0..j-1 : c[k + 1] # pxEnd /\ k \in Nat
    BY <1>1, <2>1, <2>2, Layout
  <2>4. c[j] \in F \cup {xStart} /\ c[j] \in Int /\ c[j + 1] = hdr[c[j]].next
    BY <2>3, WalkBelow DEF c
  <2>5. c[j] < a
    <3>1. CASE j = 0
      BY <1>0, <2>1, <3>1
    <3>2. CASE j # 0
      <4>1. j - 1 \in 0..j-1 /\ j - 1 + 1 = j
        BY <2>3, <3>2
      <4> QED  BY <2>2, <4>1
    <3> QED  BY <3>1, <3>2
  <2>6. c[j + 1] <= a /\ c[j + 1] \in Int
    <3>1. \A e \in F : c[j] < e => hdr[c[j]].next <= e
      BY <2>4 DEF Sound, Listing
    <3> QED  BY <2>4, <2>5, <3>1, NextFacts
  <2>7. c[j + 1] = a
    BY <2>1, <2>2, <2>6
  <2>8. j < n0
    <3>1. j # n0
      BY <1>10, <2>1, <2>7, Layout
    <3>2. ~(n0 < j)
      <4> SUFFICES ASSUME n0 < j PROVE FALSE
        OBVIOUS
      <4>1. n0 \in 0..j-1
        BY <1>8, <2>3
      <4> QED  BY <1>10, <2>1, <2>2, <4>1, Layout
    <3> QED  BY <1>8, <2>3, <3>1, <3>2
  <2>9. j \in 0..n0-1
    BY <1>8, <2>3, <2>8
  <2>10. ~(hdr[c[j + 1]].size >= w)
    BY <1>6, <2>9
  <2> QED  BY <2>1, <2>7, <2>10
<1>11. c[n0 + 1] # pxEnd => hdr[c[n0 + 1]].size >= w
  BY <1>6
<1> QED  BY <1>7, <1>9, <1>10, <1>11
-------------------------------------------------------------------------------
(* The insertion is a link, and a join on each side where free blocks touch.         *)

LEMMA InsertIsLinkAndJoin ==
  ASSUME NEW h, NEW F, Sound(h, F), NEW b \in BlocksIn(h), b \notin F,
         NEW x, x = Iterator(b, h), NEW y, y = h[x].next,
         NEW g, g = LinkIn(h, x, b),
         NEW f, f = IF x + h[x].size = b THEN Join(g, x, b) ELSE g,
         NEW e, e = IF x + h[x].size = b THEN x ELSE b
  PROVE  prvInsertBlockIntoFreeList(b, h) =
           IF e + f[e].size = y /\ y # pxEnd THEN Join(f, e, y) ELSE f
<1>1. /\ HeaderTypes(h) /\ Tiling(h) /\ Listing(h, F) /\ F \subseteq BlocksIn(h)
  BY DEF Sound, Listing
<1>2. /\ b \in Cells /\ b \in Headers /\ b \in Int /\ b < pxEnd
      /\ h[b].size \in Int /\ h[b].size > 0 /\ b + h[b].size <= pxEnd
  BY <1>1, BlockFacts, Addresses
<1>3. x \in F \cup {xStart} /\ x < b /\ b <= y
  BY <1>2, IteratorFacts
<1>4. x \in Headers /\ x \in Int /\ x # b /\ y \in Headers /\ y \in Int /\ y \in F \cup {pxEnd}
  BY <1>2, <1>3, NextFacts
<1>5. y > b /\ y # x /\ h[x].size \in Int /\ h[y].size \in Int
  <2>1. y # b
    BY <1>2, <1>4, Layout
  <2>2. \A a \in Headers : h[a].size \in Int
    BY <1>1, Addresses DEF HeaderTypes
  <2> QED  BY <1>2, <1>3, <1>4, <2>1, <2>2
<1>6. /\ g[x] = [h[x] EXCEPT !.next = b]
      /\ g[b] = Header(h[b].size, y, FALSE)
      /\ \A a \in Headers : a \notin {x, b} => g[a] = h[a]
  BY <1>2, <1>4 DEF LinkIn
<1>7. g[x].size = h[x].size /\ g[b].size = h[b].size /\ g[b].next = y
  <2>1. h[x] \in [size : BlockSizes, next : Headers \cup {NULL}, mine : BOOLEAN]
    BY <1>1, <1>4 DEF HeaderTypes
  <2> QED  BY <1>6, <2>1 DEF Header
<1> DEFINE front == x + h[x].size = b
           size == IF front THEN h[x].size + h[b].size ELSE h[b].size
           back == e + size = y /\ y # pxEnd
<1>8. /\ f[e] = Header(size, y, FALSE)
      /\ front => f[b] = Blank
      /\ ~front => f[x] = [h[x] EXCEPT !.next = b]
      /\ \A a \in Headers : a \notin {x, b} => f[a] = h[a]
  <2>1. CASE front
    <3>1. f = Join(g, x, b) /\ e = x
      BY <2>1
    <3>2. \A a \in Headers : f[a] = IF a = x THEN Header(g[x].size + g[b].size, g[b].next, FALSE)
                                   ELSE IF a = b THEN Blank ELSE g[a]
      BY <3>1 DEF Join
    <3> QED  BY <1>2, <1>4, <1>6, <1>7, <2>1, <3>1, <3>2
  <2>2. CASE ~front
    BY <1>6, <2>2
  <2> QED  BY <2>1, <2>2
<1>9. f[e].size = size /\ f[e].next = y
  BY <1>8 DEF Header
<1>10. f[y] = h[y] /\ e \in Headers /\ e # y
  BY <1>2, <1>4, <1>5, <1>8
<1> DEFINE r == prvInsertBlockIntoFreeList(b, h)
<1>11. r = [a \in Headers |->
         CASE a = e -> IF back THEN Header(size + h[y].size, h[y].next, FALSE)
                               ELSE Header(size, y, FALSE)
           [] a = x /\ ~front -> [h[x] EXCEPT !.next = b]
           [] (a = b /\ front) \/ (a = y /\ back) -> Blank
           [] OTHER -> h[a]]
  BY DEF prvInsertBlockIntoFreeList
<1>12. f = [a \in Headers |-> f[a]]
  <2>1. g = [a \in Headers |-> g[a]]
    BY DEF LinkIn
  <2>2. Join(g, x, b) = [a \in Headers |-> Join(g, x, b)[a]]
    BY DEF Join
  <2> QED  BY <2>1, <2>2
<1> DEFINE q == IF e + f[e].size = y /\ y # pxEnd THEN Join(f, e, y) ELSE f
<1>13. q = [a \in Headers |-> q[a]]
  <2>1. Join(f, e, y) = [a \in Headers |-> Join(f, e, y)[a]]
    BY DEF Join
  <2> QED  BY <1>12, <2>1
<1>14. \A a \in Headers : q[a] =
         IF back THEN IF a = e THEN Header(size + h[y].size, h[y].next, FALSE)
                      ELSE IF a = y THEN Blank ELSE f[a]
         ELSE f[a]
  <2>1. CASE back
    <3>1. q = Join(f, e, y)
      BY <1>9, <2>1
    <3>2. \A a \in Headers : q[a] = IF a = e THEN Header(f[e].size + f[y].size, f[y].next, FALSE)
                                   ELSE IF a = y THEN Blank ELSE f[a]
      BY <3>1 DEF Join
    <3> HIDE DEF q
    <3> QED  BY <1>9, <1>10, <2>1, <3>2
  <2>2. CASE ~back
    BY <1>9, <2>2
  <2> QED  BY <2>1, <2>2
<1> HIDE DEF q, r
<1>15. ASSUME NEW a \in Headers
       PROVE  r[a] = q[a]
  <2>0. r[a] = CASE a = e -> IF back THEN Header(size + h[y].size, h[y].next, FALSE)
                               ELSE Header(size, y, FALSE)
           [] a = x /\ ~front -> [h[x] EXCEPT !.next = b]
           [] (a = b /\ front) \/ (a = y /\ back) -> Blank
           [] OTHER -> h[a]
    BY <1>11
  <2>1. CASE a = e
    <3>1. ~(a = x /\ ~front) /\ ~((a = b /\ front) \/ (a = y /\ back))
      BY <2>1, <1>4, <1>10
    <3> QED  BY <2>0, <2>1, <3>1, <1>8, <1>14
  <2>2. CASE a # e /\ a = x
    <3>1. ~front /\ a # y
      BY <2>2, <1>5
    <3> QED  BY <2>0, <2>2, <3>1, <1>8, <1>14
  <2>3. CASE a # e /\ a # x /\ a = b
    <3>1. front /\ a # y
      BY <2>3, <1>2, <1>4, <1>5
    <3> QED  BY <2>0, <2>3, <3>1, <1>8, <1>14
  <2>4. CASE a # e /\ a # x /\ a # b
    <3>1. f[a] = h[a]
      BY <2>4, <1>8
    <3> QED  BY <2>0, <2>4, <3>1, <1>14
  <2> QED  BY <2>1, <2>2, <2>3, <2>4
<1>16. r = [a \in Headers |-> r[a]]
  BY <1>11
<1>17. r = q
  BY <1>13, <1>15, <1>16
<1> QED  BY <1>17 DEF q, r

\* Inserting a block gives a sound list with it, joined on both sides, and leaves alone
\* what the client holds.
\* What prvInsertBlockIntoFreeList makes of a heap h with the list F and the block b: a
\* sound heap with a joined list, in which the bytes of b are free and all else is as it was.
Inserted(r, h, F, b) ==
  \E G : /\ Sound(r, G) /\ Joined(r, G)
         /\ G \subseteq F \cup {b} /\ \A a \in G : ~r[a].mine
         /\ BlocksIn(r) \ G = BlocksIn(h) \ (F \cup {b})
         /\ BytesOf(r, G) = BytesOf(h, F) \cup (b..b + h[b].size - 1)
         /\ \A a \in BlocksIn(h) \ (F \cup {b}) : r[a] = h[a]

LEMMA InsertKeeps ==
  ASSUME NEW h, NEW F, Sound(h, F), Joined(h, F), NEW b \in BlocksIn(h), b \notin F,
         \A a \in F : ~h[a].mine
  PROVE  Inserted(prvInsertBlockIntoFreeList(b, h), h, F, b)
<1> DEFINE r == prvInsertBlockIntoFreeList(b, h)
<1> DEFINE x == Iterator(b, h)
           y == h[x].next
           g == LinkIn(h, x, b)
           front == x + h[x].size = b
           f == IF front THEN Join(g, x, b) ELSE g
           e == IF front THEN x ELSE b
           back == e + f[e].size = y /\ y # pxEnd
           F1 == F \cup {b}
           F2 == IF front THEN F1 \ {b} ELSE F1
           F3 == IF back THEN F2 \ {y} ELSE F2
<1>1. /\ HeaderTypes(h) /\ Tiling(h) /\ Listing(h, F) /\ F \subseteq BlocksIn(h)
  BY DEF Sound, Listing
<1>2. /\ b \in Cells /\ b \in Headers /\ b \in Int /\ b < pxEnd /\ b >= 0
      /\ h[b].size \in Int /\ h[b].size > 0 /\ b + h[b].size <= pxEnd
  BY <1>1, BlockFacts, Addresses
<1>3. /\ x \in F \cup {xStart} /\ x < b /\ b <= y
      /\ \A c \in F : x < c => y <= c
  BY <1>1, <1>2, IteratorFacts DEF Listing
<1>4. /\ x \in Headers /\ x \in Int /\ x # b /\ y \in Headers /\ y \in Int
      /\ y \in F \cup {pxEnd} /\ y # b
  <2>1. /\ x \in Headers /\ x \in Int /\ y \in Headers /\ y \in Int /\ y \in F \cup {pxEnd}
    BY <1>3, NextFacts
  <2> QED  BY <2>1, <1>2, <1>3, Layout
<1>5. r = IF back THEN Join(f, e, y) ELSE f
  BY <1>1, InsertIsLinkAndJoin
<1> HIDE DEF x, r
<1>6. /\ g[x] = [h[x] EXCEPT !.next = b]
      /\ g[b] = Header(h[b].size, y, FALSE)
      /\ \A a \in Headers : a \notin {x, b} => g[a] = h[a]
  BY <1>2, <1>4 DEF LinkIn
<1>7. g[x].size = h[x].size /\ g[b].size = h[b].size /\ g[b].next = y /\ g[b].mine = FALSE
      /\ g[x].mine = h[x].mine
  <2>1. h[x] \in [size : BlockSizes, next : Headers \cup {NULL}, mine : BOOLEAN]
    BY <1>1, <1>4 DEF HeaderTypes
  <2> QED  BY <1>6, <2>1 DEF Header
<1>8. /\ Sound(g, F1) /\ BlocksIn(g) = BlocksIn(h)
      /\ BytesOf(g, F1) = BytesOf(h, F) \cup (b..b + h[b].size - 1)
  BY <1>3, LinkKeeps
<1> HIDE DEF y, g
<1>9. front => x \in F /\ x # xStart
  <2>1. xStart + h[xStart].size # b
    BY <1>1, <1>2, Addresses DEF HeaderTypes
  <2> QED  BY <2>1, <1>3
<1>10. /\ Sound(f, F2) /\ BlocksIn(f) \ F2 = BlocksIn(h) \ F1
       /\ BytesOf(f, F2) = BytesOf(h, F) \cup (b..b + h[b].size - 1)
       /\ \A a \in Headers \ {x, b} : f[a] = h[a]
  <2>1. CASE front
    <3>1. f = Join(g, x, b) /\ F2 = F1 \ {b}
      BY <2>1
    <3>2. x \in F1 /\ b \in F1 /\ x + g[x].size = b
      BY <2>1, <1>7, <1>9
    <3>3. /\ Sound(f, F2) /\ BlocksIn(f) = BlocksIn(h) \ {b}
          /\ BytesOf(f, F2) = BytesOf(h, F) \cup (b..b + h[b].size - 1)
      <4> HIDE DEF F1, F2, f, front
      <4>0. Sound(g, F1) /\ x \in F1 /\ b \in F1 /\ x + g[x].size = b
        BY <3>2, <1>8
      <4>1. /\ Sound(Join(g, x, b), F1 \ {b}) /\ BlocksIn(Join(g, x, b)) = BlocksIn(g) \ {b}
            /\ BytesOf(Join(g, x, b), F1 \ {b}) = BytesOf(g, F1)
        BY <4>0, JoinKeeps
      <4> QED  BY <4>1, <3>1, <1>8
    <3>4. \A a \in Headers \ {x, b} : f[a] = h[a]
      BY <3>1, <1>6 DEF Join
    <3> QED  BY <3>1, <3>3, <3>4
  <2>2. CASE ~front
    BY <2>2, <1>6, <1>8
  <2> QED  BY <2>1, <2>2
<1>11. /\ e \in F2 /\ f[e].next = y /\ ~f[e].mine /\ e \in Int /\ e <= b
       /\ e + f[e].size = b + h[b].size
       /\ e \in {x, b} /\ (b \in F2 => e = b) /\ F2 \subseteq F1
  <2>1. CASE front
    <3>1. f = Join(g, x, b) /\ e = x /\ F2 = F1 \ {b}
      BY <2>1
    <3>2. f[x] = Header(g[x].size + g[b].size, g[b].next, FALSE)
      BY <3>1, <1>4 DEF Join
    <3>3. f[x].size = h[x].size + h[b].size /\ f[x].next = y /\ ~f[x].mine
      BY <3>2, <1>7 DEF Header
    <3>4. h[x].size \in Int
      BY <2>1, <1>1, <1>9, BlockFacts
    <3>5. x + (h[x].size + h[b].size) = b + h[b].size
      BY <2>1, <3>4, <1>2, <1>4
    <3>6. e + f[e].size = b + h[b].size
      BY <3>1, <3>3, <3>5
    <3>7. e \in F2 /\ F2 \subseteq F1 /\ b \notin F2
      BY <3>1, <1>4, <1>9, <2>1
    <3>8. e <= b
      BY <3>1, <1>2, <1>3, <1>4
    <3> HIDE DEF f, F2, e, front, F1
    <3> QED  BY <3>1, <3>3, <3>6, <3>7, <3>8, <1>4
  <2>2. CASE ~front
    BY <2>2, <1>2, <1>7
  <2> QED  BY <2>1, <2>2
<1>12. /\ y # pxEnd => y \in F /\ y \in F2 /\ f[y] = h[y]
  <2>1. y # x
    BY <1>2, <1>3, <1>4
  <2> QED  BY <2>1, <1>4, <1>10
<1> HIDE DEF f, F2, e, front
<1>13. /\ Sound(r, F3) /\ BlocksIn(r) \ F3 = BlocksIn(h) \ F1
       /\ BytesOf(r, F3) = BytesOf(h, F) \cup (b..b + h[b].size - 1)
       /\ \A a \in Headers \ {x, b, y} : r[a] = h[a]
       /\ r[e].next = (IF back THEN h[y].next ELSE y)
       /\ ~r[e].mine
       /\ e + r[e].size = IF back THEN y + h[y].size ELSE b + h[b].size
       /\ \A a \in Headers : a \notin {e, y} => r[a] = f[a]
       /\ ~back => r = f
  <2>1. CASE back
    <3>1. r = Join(f, e, y) /\ F3 = F2 \ {y} /\ y \in F2 /\ e \in F2 /\ e + f[e].size = y /\ y \in F
      BY <2>1, <1>5, <1>11, <1>12
    <3>2. /\ Sound(r, F3) /\ BlocksIn(r) = BlocksIn(f) \ {y} /\ BytesOf(r, F3) = BytesOf(f, F2)
      <4> HIDE DEF F3, back
      <4>0. Sound(f, F2) /\ e \in F2 /\ y \in F2 /\ e + f[e].size = y
        BY <3>1, <1>10
      <4>1. /\ Sound(Join(f, e, y), F2 \ {y}) /\ BlocksIn(Join(f, e, y)) = BlocksIn(f) \ {y}
            /\ BytesOf(Join(f, e, y), F2 \ {y}) = BytesOf(f, F2)
        BY <4>0, JoinKeeps
      <4> QED  BY <4>1, <3>1
    <3>3. \A a \in Headers : a \notin {e, y} => r[a] = f[a]
      BY <3>1 DEF Join
    <3>4. \A a \in Headers \ {x, b, y} : r[a] = h[a]
      BY <3>3, <1>10, <1>11
    <3>5. e \in Headers
      BY <1>2, <1>4, <1>11
    <3>6. r[e] = Header(f[e].size + f[y].size, f[y].next, FALSE)
      BY <3>1, <3>5 DEF Join
    <3>7. r[e].size = f[e].size + h[y].size /\ r[e].next = h[y].next /\ ~r[e].mine
      BY <2>1, <3>6, <1>12 DEF Header
    <3>8. f[e].size \in Int /\ h[y].size \in Int
      BY <3>1, <1>1, <1>10, BlockFacts DEF Sound, Listing
    <3>9. e + (f[e].size + h[y].size) = y + h[y].size
      BY <3>1, <3>8, <1>4, <1>11
    <3>10. BlocksIn(r) \ F3 = BlocksIn(h) \ F1
      BY <3>1, <3>2, <1>10
    <3> HIDE DEF F3, back
    <3> QED  BY <2>1, <3>2, <3>3, <3>4, <3>7, <3>9, <3>10, <1>10
  <2>2. CASE ~back
    <3>1. r = f /\ F3 = F2
      BY <2>2, <1>5
    <3> HIDE DEF F3, back
    <3> QED  BY <2>2, <3>1, <1>10, <1>11
  <2> QED  BY <2>1, <2>2
<1>14. /\ F3 \subseteq F1 /\ e \in F3 /\ (y \in F3 => ~back) /\ (b \in F3 => e = b)
  <2>1. e # y
    BY <1>2, <1>3, <1>4, <1>11
  <2> QED  BY <2>1, <1>11
<1> HIDE DEF F3
<1>15. F3 \subseteq BlocksIn(r) /\ HeaderTypes(r) /\ Tiling(r)
  BY <1>13 DEF Sound, Listing
<1>16. \A a \in F : a \in Int /\ a >= 0 /\ h[a].size \in Int /\ a + h[a].size \in Int
                   /\ a \in Headers /\ h[a].size > 0
  BY <1>1, BlockFacts
<1>17. ASSUME NEW a \in F3
       PROVE  ~r[a].mine /\ a + r[a].size \notin F3
  <2>1. CASE a = e
    <3>1. ~r[a].mine
      BY <2>1, <1>13
    <3>2. CASE back
      <4>1. y \in F /\ y + h[y].size \notin F /\ y < y + h[y].size
        BY <3>2, <1>12, <1>16 DEF Joined
      <4>2. y + h[y].size # b
        BY <4>1, <1>2, <1>3, <1>4, <1>16
      <4> QED  BY <2>1, <3>1, <3>2, <4>1, <4>2, <1>13, <1>14
    <3>3. CASE ~back
      <4> SUFFICES ASSUME b + h[b].size \in F3 PROVE FALSE
        BY <2>1, <3>1, <3>3, <1>13
      <4> DEFINE z == b + h[b].size
      <4>1. z > b /\ z \in Int
        BY <1>2
      <4>2. z \in F
        BY <4>1, <1>2, <1>14
      <4>3. y <= z
        BY <4>1, <4>2, <1>2, <1>3, <1>4
      <4>4. y \in F
        <5>1. z < pxEnd
          BY <4>2, NextFacts
        <5> QED  BY <5>1, <4>1, <4>3, <1>4, Layout
      <4>5. z <= y
        BY <4>4, <1>1, <1>2, <1>3, <1>4 DEF Tiling
      <4>6. y = z /\ y # pxEnd
        BY <4>1, <4>3, <4>5, <1>4, <4>4, NextFacts, Layout
      <4> QED  BY <4>6, <3>3, <1>11
    <3> QED  BY <3>2, <3>3
  <2>2. CASE a # e
    <3>1. a \in F /\ a # b /\ a \in Headers
      BY <2>2, <1>14, <1>16
    <3>2. r[a].size = h[a].size /\ ~r[a].mine
      <4>1. CASE a = y
        <5>1. ~back
          BY <4>1, <1>14
        <5>2. r = f /\ y \in F /\ f[y] = h[y]
          BY <5>1, <4>1, <3>1, <1>12, <1>13, NextFacts, Layout
        <5> QED  BY <4>1, <5>2
      <4>2. CASE a # y /\ a # x
        <5>1. r[a] = h[a]
          BY <3>1, <4>2, <1>13
        <5> QED  BY <3>1, <5>1
      <4>3. CASE a # y /\ a = x
        <5>1. ~front
          BY <2>2, <4>3 DEF e
        <5>2. f = g
          BY <5>1 DEF f
        <5>3. r[a] = g[x]
          BY <2>2, <3>1, <4>3, <5>2, <1>13
        <5> QED  BY <3>1, <4>3, <5>3, <1>7
      <4> QED  BY <4>1, <4>2, <4>3
    <3>3. a + h[a].size \notin F
      BY <3>1 DEF Joined
    <3>4. a + h[a].size = b => FALSE
      <4> SUFFICES ASSUME a + h[a].size = b PROVE FALSE
        OBVIOUS
      <4>0. a \in Int /\ a >= 0 /\ h[a].size \in Int /\ h[a].size > 0
        BY <3>1, <1>16
      <4>1. a < b /\ a \in Int /\ a >= 0
        BY <4>0, <1>2
      <4>2. ~(x < a)
        BY <3>1, <4>1, <1>3, <1>2, <1>4
      <4>3. a # x
        BY <2>2 DEF e, front
      <4>4. a < x /\ x \in F
        BY <4>1, <4>2, <4>3, <1>3, <1>4, Addresses
      <4>5. a + h[a].size <= x
        BY <3>1, <4>4, <1>1 DEF Tiling
      <4> QED  BY <4>5, <1>2, <1>3, <1>4
    <3> QED  BY <3>2, <3>3, <3>4, <1>14
  <2> QED  BY <2>1, <2>2
<1>18. ASSUME NEW a \in BlocksIn(h) \ F1
       PROVE  r[a] = h[a]
  <2>1. a \in Headers /\ a \in Int /\ a >= 0 /\ a < pxEnd
    BY <1>1, BlockFacts, Addresses DEF BlocksIn
  <2>2. a \notin {x, b, y}
    BY <2>1, <1>3, <1>4, Addresses, Layout
  <2> QED  BY <2>1, <2>2, <1>13
<1>19. Joined(r, F3)
  BY <1>17 DEF Joined
<1>20. /\ Sound(r, F3) /\ Joined(r, F3)
       /\ F3 \subseteq F \cup {b} /\ \A a \in F3 : ~r[a].mine
       /\ BlocksIn(r) \ F3 = BlocksIn(h) \ (F \cup {b})
       /\ BytesOf(r, F3) = BytesOf(h, F) \cup (b..b + h[b].size - 1)
       /\ \A a \in BlocksIn(h) \ (F \cup {b}) : r[a] = h[a]
  BY <1>13, <1>14, <1>17, <1>18, <1>19
<1> HIDE DEF F1
<1>21. Inserted(r, h, F, b)
  BY <1>20 DEF Inserted
<1> QED  BY <1>21 DEF r
-------------------------------------------------------------------------------
(* The other steps of a request and of a return.                                     *)

\* Marking a block that is on no list leaves the heap as it is.
LEMMA MarkKeeps ==
  ASSUME NEW h, NEW F, Sound(h, F), NEW k, HeaderTypes(k),
         \A a \in Headers : k[a].size = h[a].size,
         \A a \in F \cup {xStart} : k[a].next = h[a].next
  PROVE  /\ Sound(k, F) /\ BlocksIn(k) = BlocksIn(h) /\ BytesOf(k, F) = BytesOf(h, F)
         /\ Joined(h, F) => Joined(k, F)
<1>1. HeaderTypes(h) /\ Tiling(h) /\ Listing(h, F) /\ F \subseteq BlocksIn(h)
  BY DEF Sound, Listing
<1>2. \A a \in Cells : k[a].size = h[a].size
  BY Addresses
<1>3. BlocksIn(k) = BlocksIn(h)
  BY <1>2 DEF BlocksIn
<1>4. \A a \in BlocksIn(h) : k[a].size = h[a].size
  BY <1>2 DEF BlocksIn
<1>5. Tiling(k)
  BY <1>1, <1>3, <1>4 DEF Tiling
<1>6. Listing(k, F)
  BY <1>1, <1>3 DEF Listing
<1>7. BytesOf(k, F) = BytesOf(h, F)
  BY <1>1, <1>4 DEF BytesOf
<1>8. Joined(h, F) => Joined(k, F)
  BY <1>1, <1>4 DEF Joined
<1> QED  BY <1>3, <1>5, <1>6, <1>7, <1>8 DEF Sound

\* The bytes of a block that is not listed are not among those of the list.
LEMMA BytesApart ==
  ASSUME NEW h, NEW F, Sound(h, F), NEW b \in BlocksIn(h), b \notin F
  PROVE  /\ IsFiniteSet(BytesOf(h, F)) /\ Cardinality(BytesOf(h, F)) \in Nat
         /\ Cardinality(BytesOf(h, F) \cup (b..b + h[b].size - 1))
              = Cardinality(BytesOf(h, F)) + h[b].size
<1> DEFINE P == BytesOf(h, F)
           Q == b..b + h[b].size - 1
<1>1. HeaderTypes(h) /\ Tiling(h) /\ Listing(h, F) /\ F \subseteq BlocksIn(h)
  BY DEF Sound, Listing
<1>2. b \in Int /\ h[b].size \in Int /\ h[b].size > 0
  BY <1>1, BlockFacts
<1>3. IsFiniteSet(P)
  <2>1. IsFiniteSet(0..pxEnd-1)
    BY FS_Interval, Layout
  <2>2. P \in SUBSET (0..pxEnd-1)
    BY DEF BytesOf
  <2> QED  BY <2>1, <2>2, FS_Subset
<1>4. IsFiniteSet(Q) /\ Cardinality(Q) = h[b].size
  <2> DEFINE t == b + h[b].size - 1
  <2>1. t \in Int /\ t - b + 1 = h[b].size /\ ~(b > t)
    BY <1>2
  <2> HIDE DEF t
  <2>2. IsFiniteSet(b..t) /\ Cardinality(b..t) = IF b > t THEN 0 ELSE t - b + 1
    BY <1>2, <2>1, FS_Interval
  <2> QED  BY <2>1, <2>2 DEF t
<1>5. P \cap Q = {}
  <2> SUFFICES ASSUME NEW z \in P, z \in Q PROVE FALSE
    OBVIOUS
  <2>1. z \in Int /\ b <= z /\ z < b + h[b].size
    BY <1>2
  <2>2. PICK a \in F : a <= z /\ z < a + h[a].size
    BY DEF BytesOf
  <2>3. a \in Int /\ h[a].size \in Int /\ a \in BlocksIn(h) /\ a # b
    BY <1>1, BlockFacts
  <2>4. CASE a < b
    BY <1>1, <1>2, <2>1, <2>2, <2>3, <2>4 DEF Tiling
  <2>5. CASE b < a
    BY <1>1, <1>2, <2>1, <2>2, <2>3, <2>5 DEF Tiling
  <2> QED  BY <1>2, <2>3, <2>4, <2>5
<1>6. Cardinality(P) \in Nat
  BY <1>3, FS_CardinalityType
<1> HIDE DEF P, Q
<1>7. Cardinality(P \cup Q) = Cardinality(P) + Cardinality(Q) - Cardinality(P \cap Q)
  BY <1>3, <1>4, FS_Union
<1>8. Cardinality(P \cap Q) = 0
  BY <1>5, FS_EmptySet
<1> QED  BY <1>2, <1>3, <1>4, <1>6, <1>7, <1>8 DEF P, Q

\* The block q behind x is taken out of the list.
Unlink(h, x) == [h EXCEPT ![x].next = h[h[x].next].next]

Unlinked(u, h, F, x, q) ==
  /\ Sound(u, F \ {q}) /\ Joined(u, F \ {q}) /\ BlocksIn(u) = BlocksIn(h)
  /\ \A a \in Headers : u[a].size = h[a].size /\ u[a].mine = h[a].mine
  /\ \A a \in Headers : a # x => u[a] = h[a]
  /\ BytesOf(u, F \ {q}) \cup (q..q + h[q].size - 1) = BytesOf(h, F)

LEMMA UnlinkKeeps ==
  ASSUME NEW h, NEW F, Sound(h, F), Joined(h, F), NEW x \in F \cup {xStart}, h[x].next \in F
  PROVE  Unlinked(Unlink(h, x), h, F, x, h[x].next)
<1> DEFINE q == h[x].next
           u == Unlink(h, x)
<1>0. q \in F /\ q = h[x].next
  OBVIOUS
<1>1. HeaderTypes(h) /\ Tiling(h) /\ Listing(h, F) /\ F \subseteq BlocksIn(h)
  BY DEF Sound, Listing
<1>2. /\ x \in Headers /\ q \in Headers /\ x \in Int /\ q \in Int /\ x < q
      /\ h[q].next \in F \cup {pxEnd} /\ h[q].next > q /\ h[q].next \in Headers /\ h[q].next \in Int
      /\ q >= 0 /\ h[q].size \in Int /\ h[q].size > 0 /\ q + h[q].size <= pxEnd
  BY <1>0, <1>1, NextFacts, BlockFacts
<1>3. h \in [Headers -> [size : BlockSizes, next : Headers \cup {NULL}, mine : BOOLEAN]]
  BY <1>1 DEF HeaderTypes
<1>4. /\ \A a \in Headers : u[a].size = h[a].size /\ u[a].mine = h[a].mine
      /\ \A a \in Headers : a # x => u[a] = h[a]
      /\ u[x].next = h[q].next
      /\ u \in [Headers -> [size : BlockSizes, next : Headers \cup {NULL}, mine : BOOLEAN]]
  BY <1>0, <1>2, <1>3 DEF Unlink
<1> HIDE DEF q, u
<1>5. HeaderTypes(u)
  BY <1>1, <1>4, Addresses DEF HeaderTypes
<1>6. BlocksIn(u) = BlocksIn(h) /\ \A a \in BlocksIn(h) : u[a].size = h[a].size
  BY <1>4, Addresses DEF BlocksIn
<1>7. Tiling(u)
  BY <1>1, <1>6 DEF Tiling
<1>8. Listing(u, F \ {q})
  <2>1. ASSUME NEW a \in (F \ {q}) \cup {xStart}
        PROVE  /\ u[a].next \in (F \ {q}) \cup {pxEnd} /\ u[a].next > a
               /\ \A b \in F \ {q} : a < b => u[a].next <= b
    <3>1. a \in F \cup {xStart} /\ a \in Headers /\ a \in Int /\ h[a].next \in Int
      BY NextFacts
    <3>2. /\ h[a].next \in F \cup {pxEnd} /\ h[a].next > a
          /\ \A b \in F : a < b => h[a].next <= b
      BY <1>1, <3>1 DEF Listing
    <3>3. CASE a = x
      <4>1. \A b \in F \ {q} : a < b => h[q].next <= b
        <5> SUFFICES ASSUME NEW b \in F \ {q}, a < b PROVE h[q].next <= b
          OBVIOUS
        <5>1. q <= b /\ b \in Int
          BY <1>0, <3>2, <3>3, <1>1, BlockFacts
        <5>2. q < b
          BY <5>1, <1>2
        <5> QED  BY <1>0, <5>2, <1>1 DEF Listing
      <4> QED  BY <1>2, <1>4, <3>3, <4>1
    <3>4. CASE a # x
      <4>1. u[a] = h[a]
        BY <1>4, <3>1, <3>4
      <4>2. h[a].next # q
        <5> SUFFICES ASSUME h[a].next = q PROVE FALSE
          OBVIOUS
        <5>1. CASE a < x
          <6>1. x \in F
            BY <5>1, <3>1, <1>1, Addresses, BlockFacts, <1>2
          <6>2. q <= x
            BY <3>2, <5>1, <6>1
          <6> QED  BY <6>2, <1>2
        <5>2. CASE x < a
          <6>1. a \in F
            BY <5>2, <3>1, <1>1, Addresses, BlockFacts, <1>2
          <6>2. q <= a
            BY <1>0, <5>2, <6>1, <1>1 DEF Listing
          <6> QED  BY <6>2, <3>1, <3>2, <1>2
        <5> QED  BY <5>1, <5>2, <3>1, <3>4, <1>2
      <4> QED  BY <4>1, <4>2, <3>2
    <3> QED  BY <3>3, <3>4
  <2> QED  BY <2>1, <1>1, <1>6 DEF Listing
<1>9. Joined(u, F \ {q})
  BY <1>1, <1>6 DEF Joined
<1>10. BytesOf(u, F \ {q}) \cup (q..q + h[q].size - 1) = BytesOf(h, F)
  <2>1. \A z : z \in BytesOf(u, F \ {q}) <=>
          z \in 0..pxEnd-1 /\ \E a \in F \ {q} : a <= z /\ z < a + h[a].size
    BY <1>1, <1>6 DEF BytesOf
  <2>2. \A z : z \in q..q + h[q].size - 1 <=> z \in 0..pxEnd-1 /\ q <= z /\ z < q + h[q].size
    BY <1>2, Layout
  <2> QED  BY <1>0, <2>1, <2>2 DEF BytesOf
<1>11. Unlinked(u, h, F, x, q)
  BY <1>4, <1>5, <1>6, <1>7, <1>8, <1>9, <1>10 DEF Sound, Unlinked
<1> QED  BY <1>11 DEF u, q

\* A block that is on no list is split in two.
Split(u, q, w) == [u EXCEPT ![q].size = w, ![q + w] = Header(u[q].size - w, NULL, FALSE)]

LEMMA SplitKeeps ==
  ASSUME NEW u, NEW F, Sound(u, F), Joined(u, F), NEW q \in BlocksIn(u), q \notin F,
         NEW w \in Int, 0 < w, w < u[q].size, Aligned(w),
         NEW s, s = Split(u, q, w)
  PROVE  /\ Sound(s, F) /\ Joined(s, F) /\ BytesOf(s, F) = BytesOf(u, F)
         /\ q + w \notin BlocksIn(u) /\ BlocksIn(s) = BlocksIn(u) \cup {q + w} /\ q + w \in Headers
         /\ s[q].size = w /\ s[q].mine = u[q].mine /\ s[q + w].size = u[q].size - w
         /\ \A a \in Headers : a \notin {q, q + w} => s[a] = u[a]
<1> DEFINE p == q + w
           rest == u[q].size - w
<1>1. HeaderTypes(u) /\ Tiling(u) /\ Listing(u, F) /\ F \subseteq BlocksIn(u)
  BY DEF Sound, Listing
<1>2. /\ q \in Headers /\ q \in Int /\ q >= 0 /\ Aligned(q) /\ u[q].size \in Int
      /\ Aligned(u[q].size) /\ q + u[q].size <= pxEnd /\ q \in Cells
  BY <1>1, BlockFacts
<1>3. /\ p \in Int /\ p > q /\ p < pxEnd /\ Aligned(p) /\ p \in Cells /\ p \in Headers
      /\ rest \in Int /\ rest > 0 /\ rest \in BlockSizes /\ w \in BlockSizes
      /\ p + rest = q + u[q].size
  <2>1. /\ p \in Int /\ p > q /\ p < pxEnd /\ p >= 0
        /\ rest \in Int /\ rest > 0 /\ rest < pxEnd /\ w < pxEnd
        /\ p + rest = q + u[q].size
    BY <1>2, Layout
  <2>2. Aligned(p) /\ Aligned(rest)
    BY <1>2, AlignedSum
  <2> HIDE DEF p, rest
  <2>3. p \in Cells /\ p \in Headers
    BY <2>1, <2>2, Addresses
  <2>4. rest \in BlockSizes
    BY <2>1, <2>2, Addresses
  <2>5. w \in BlockSizes
    BY <2>1, Addresses
  <2> QED  BY <2>1, <2>2, <2>3, <2>4, <2>5
<1>4. u \in [Headers -> [size : BlockSizes, next : Headers \cup {NULL}, mine : BOOLEAN]]
  BY <1>1 DEF HeaderTypes
<1> HIDE DEF p, rest
<1>5. s = [u EXCEPT ![q].size = w, ![p] = Header(rest, NULL, FALSE)]
  BY DEF p, rest, Split
<1>6. /\ s[q].size = w /\ s[q].mine = u[q].mine /\ s[p].size = rest
      /\ \A a \in Headers : a \notin {q, p} => s[a] = u[a]
      /\ s \in [Headers -> [size : BlockSizes, next : Headers \cup {NULL}, mine : BOOLEAN]]
  <2>1. p # q
    BY <1>2, <1>3
  <2>2. s[q] = [u[q] EXCEPT !.size = w] /\ s[p] = Header(rest, NULL, FALSE)
    BY <2>1, <1>2, <1>3, <1>4, <1>5
  <2>3. \A a \in Headers : a \notin {q, p} => s[a] = u[a]
    BY <1>4, <1>5
  <2>4. u[q] \in [size : BlockSizes, next : Headers \cup {NULL}, mine : BOOLEAN]
    BY <1>2, <1>4
  <2>5. /\ s[q].size = w /\ s[q].mine = u[q].mine
        /\ s[q] \in [size : BlockSizes, next : Headers \cup {NULL}, mine : BOOLEAN]
    BY <2>2, <2>4, <1>3
  <2>6. s[p].size = rest /\ s[p] \in [size : BlockSizes, next : Headers \cup {NULL}, mine : BOOLEAN]
    <3>1. s[p] = [size |-> rest, next |-> NULL, mine |-> FALSE]
      BY <2>2 DEF Header
    <3> HIDE DEF BlockSizes
    <3>2. s[p].size = rest
      BY <3>1
    <3>3. rest \in BlockSizes /\ NULL \in Headers \cup {NULL} /\ FALSE \in BOOLEAN
      BY <1>3
    <3> QED  BY <3>1, <3>2, <3>3
  <2>7. \A a \in Headers : s[a] \in [size : BlockSizes, next : Headers \cup {NULL}, mine : BOOLEAN]
    BY <2>3, <2>5, <2>6, <1>4
  <2>8. s = [a \in Headers |-> s[a]]
    BY <1>4, <1>5
  <2> QED  BY <2>3, <2>5, <2>6, <2>7, <2>8
<1>7. xStart \notin {q, p}
  BY <1>2, <1>3, Addresses
<1>8. HeaderTypes(s)
  BY <1>1, <1>6, <1>7, Addresses DEF HeaderTypes
<1>9. p \notin BlocksIn(u)
  BY <1>1, <1>2, <1>3 DEF Tiling
<1>10. BlocksIn(s) = BlocksIn(u) \cup {p}
  <2>1. \A a \in Cells : s[a].size > 0 <=> u[a].size > 0 \/ a = p
    <3> TAKE a \in Cells
    <3>0. a \in Headers
      BY Addresses
    <3>1. CASE a \notin {q, p}
      BY <3>0, <3>1, <1>6
    <3>2. CASE a = q
      BY <3>2, <1>6, <1>2 DEF BlocksIn
    <3>3. CASE a = p
      BY <3>3, <1>6, <1>3
    <3> QED  BY <3>1, <3>2, <3>3
  <2>2. \A a : a \in BlocksIn(s) <=> a \in BlocksIn(u) \/ a = p
    BY <2>1, <1>3 DEF BlocksIn
  <2> QED  BY <2>2
<1>11. \A a \in BlocksIn(u) : a # q => s[a] = u[a] /\ a # p
  BY <1>6, <1>9, Addresses DEF BlocksIn
<1>12. F \subseteq BlocksIn(s) /\ \A a \in F : s[a] = u[a]
  BY <1>1, <1>10, <1>11
<1>13. Tiling(s)
  <2>1. 0 \in BlocksIn(s)
    BY <1>1, <1>10 DEF Tiling
  <2>2. ASSUME NEW a \in BlocksIn(s)
        PROVE  a + s[a].size \in BlocksIn(s) \cup {pxEnd}
    <3>1. CASE a = q
      BY <3>1, <1>6, <1>10 DEF p
    <3>2. CASE a = p
      BY <3>2, <1>1, <1>3, <1>6, <1>10 DEF Tiling
    <3>3. CASE a # q /\ a # p
      BY <3>3, <1>1, <1>10, <1>11 DEF Tiling
    <3> QED  BY <3>1, <3>2, <3>3
  <2>3. ASSUME NEW a \in BlocksIn(s), NEW b \in BlocksIn(s), a < b
        PROVE  a + s[a].size <= b
    <3>0. a \in Int /\ b \in Int /\ (a # p => a \in BlocksIn(u) /\ u[a].size \in Int)
          /\ (b # p => b \in BlocksIn(u))
      BY <1>1, <1>3, <1>10, BlockFacts
    <3>1. CASE a = q
      <4>1. b # p => q + u[q].size <= b
        BY <3>0, <3>1, <2>3, <1>1 DEF Tiling
      <4>2. q + w = p
        BY DEF p
      <4>3. CASE b = p
        BY <4>2, <4>3, <1>3, <3>1, <1>6
      <4>4. CASE b # p
        <5>1. q + w <= b
          BY <4>1, <4>4, <3>0, <1>2
        <5> QED  BY <5>1, <3>1, <1>6
      <4> QED  BY <4>3, <4>4
    <3>2. CASE a = p
      <4>1. b \in BlocksIn(u) /\ q < b
        BY <3>0, <3>2, <2>3, <1>2, <1>3
      <4>2. q + u[q].size <= b
        BY <4>1, <1>1 DEF Tiling
      <4> QED  BY <3>2, <4>2, <1>3, <1>6
    <3>3. CASE a # q /\ a # p
      <4>1. s[a].size = u[a].size /\ a \in BlocksIn(u) /\ u[a].size \in Int
        BY <3>0, <3>3, <1>11
      <4>2. CASE b # p
        BY <4>1, <4>2, <3>0, <2>3, <1>1 DEF Tiling
      <4>3. CASE b = p
        <5>1. ~(q < a)
          <6> SUFFICES ASSUME q < a PROVE FALSE
            OBVIOUS
          <6>1. q + u[q].size <= a
            BY <4>1, <1>1 DEF Tiling
          <6> QED  BY <6>1, <4>3, <3>0, <2>3, <1>2, <1>3
        <5>2. a + u[a].size <= q
          <6>1. a < q
            BY <5>1, <3>0, <3>3, <1>2
          <6> QED  BY <6>1, <4>1, <1>1 DEF Tiling
        <5>3. a + u[a].size \in Int /\ a + u[a].size <= b
          BY <5>2, <4>1, <4>3, <3>0, <1>2, <1>3
        <5> QED  BY <5>3, <4>1
      <4> QED  BY <4>2, <4>3
    <3> QED  BY <3>1, <3>2, <3>3
  <2> QED  BY <2>1, <2>2, <2>3 DEF Tiling
<1>14. Listing(s, F)
  <2>1. \A a \in F \cup {xStart} : s[a] = u[a]
    BY <1>6, <1>7, <1>12, Addresses
  <2> QED  BY <2>1, <1>1, <1>12 DEF Listing
<1>15. Joined(s, F)
  BY <1>12 DEF Joined
<1>16. BytesOf(s, F) = BytesOf(u, F)
  BY <1>12 DEF BytesOf
<1> QED  BY <1>3, <1>6, <1>8, <1>9, <1>10, <1>13, <1>14, <1>15, <1>16 DEF Sound, p, rest
-------------------------------------------------------------------------------
(* A heap with what the client holds of it and the count of what is free.            *)

FreeOf(h) == {a \in BlocksIn(h) : ~h[a].mine}

\* The client holds a block that is marked, linked nowhere and large enough.
Holds(h, l) ==
  /\ l \in [at : Cells, bytes : Sizes] /\ l.bytes # 0
  /\ HeaderOf(l) \in BlocksIn(h)
  /\ h[HeaderOf(l)].mine /\ h[HeaderOf(l)].next = NULL
  /\ h[HeaderOf(l)].size >= l.bytes + xHeapStructSize

HeapInv(h, held, n) ==
  /\ Sound(h, FreeOf(h)) /\ Joined(h, FreeOf(h))
  /\ \A l \in held : Holds(h, l)
  /\ \A l, m \in held : l.at = m.at => l = m
  /\ \A a \in BlocksIn(h) : h[a].mine => \E l \in held : HeaderOf(l) = a
  /\ n = Cardinality(BytesOf(h, FreeOf(h)))

\* Giving back a block keeps all of it.
LEMMA GiveBackKeeps ==
  ASSUME NEW h, NEW held, NEW n, HeapInv(h, held, n), NEW l \in held,
         NEW r, r = prvInsertBlockIntoFreeList(HeaderOf(l), [h EXCEPT ![HeaderOf(l)].mine = FALSE])
  PROVE  HeapInv(r, held \ {l}, n + h[HeaderOf(l)].size)
<1> DEFINE b == HeaderOf(l)
           k == [h EXCEPT ![b].mine = FALSE]
           F == FreeOf(h)
<1>1. /\ Sound(h, F) /\ Joined(h, F) /\ HeaderTypes(h) /\ Tiling(h) /\ F \subseteq BlocksIn(h)
      /\ n = Cardinality(BytesOf(h, F))
  BY DEF HeapInv, Sound, Listing
<1>2. \A m \in held : Holds(h, m)
  BY DEF HeapInv
<1>3. /\ b \in BlocksIn(h) /\ b \notin F /\ b \in Headers /\ b \in Int /\ b >= 0 /\ b # xStart
      /\ h[b].size \in Int /\ h[b].next = NULL
  <2>1. b \in BlocksIn(h) /\ h[b].mine /\ h[b].next = NULL
    BY <1>2 DEF Holds
  <2> HIDE DEF b
  <2>2. b \notin F
    BY <2>1 DEF FreeOf
  <2> HIDE DEF F
  <2> QED  BY <2>1, <2>2, <1>1, BlockFacts, Addresses
<1> HIDE DEF b, F
<1>4. /\ HeaderTypes(k) /\ ~k[b].mine
      /\ \A a \in Headers : k[a].size = h[a].size /\ k[a].next = h[a].next
      /\ \A a \in Headers : a # b => k[a] = h[a]
  <2>1. h \in [Headers -> [size : BlockSizes, next : Headers \cup {NULL}, mine : BOOLEAN]]
    BY <1>1 DEF HeaderTypes
  <2>2. k \in [Headers -> [size : BlockSizes, next : Headers \cup {NULL}, mine : BOOLEAN]]
    BY <2>1, <1>3
  <2>3. \A a \in Headers : k[a].size = h[a].size /\ k[a].next = h[a].next
    BY <2>1, <1>3
  <2>4. ~k[b].mine /\ \A a \in Headers : a # b => k[a] = h[a]
    BY <2>1, <1>3
  <2>5. h[xStart].size = 0
    BY <1>1 DEF HeaderTypes
  <2> QED  BY <2>2, <2>3, <2>4, <2>5, Addresses DEF HeaderTypes
<1>5. r = prvInsertBlockIntoFreeList(b, k)
  BY DEF b
<1> HIDE DEF k
<1>6. /\ \A a \in F : ~k[a].mine
      /\ \A a \in F \cup {xStart} : k[a].next = h[a].next
  <2>1. \A a \in F : a \in Headers /\ ~h[a].mine /\ a # b
    BY <1>1, <1>3, BlockFacts DEF F, FreeOf
  <2> QED  BY <2>1, <1>4, Addresses
<1>7. Sound(k, F) /\ BlocksIn(k) = BlocksIn(h) /\ BytesOf(k, F) = BytesOf(h, F) /\ Joined(k, F)
  BY <1>1, <1>4, <1>6, MarkKeeps
<1>8. PICK G : /\ Sound(r, G) /\ Joined(r, G)
               /\ G \subseteq F \cup {b} /\ \A a \in G : ~r[a].mine
               /\ BlocksIn(r) \ G = BlocksIn(k) \ (F \cup {b})
               /\ BytesOf(r, G) = BytesOf(k, F) \cup (b..b + k[b].size - 1)
               /\ \A a \in BlocksIn(k) \ (F \cup {b}) : r[a] = k[a]
  <2>1. Inserted(r, k, F, b)
    BY <1>3, <1>5, <1>6, <1>7, InsertKeeps
  <2> QED  BY <2>1 DEF Inserted
<1>9. \A a \in BlocksIn(h) \ (F \cup {b}) : r[a] = h[a] /\ h[a].mine /\ a \in BlocksIn(r) \ G
  <2> TAKE a \in BlocksIn(h) \ (F \cup {b})
  <2>1. r[a] = k[a] /\ a \in BlocksIn(r) \ G
    BY <1>7, <1>8
  <2>2. a \in Headers
    BY <1>1, BlockFacts
  <2>3. k[a] = h[a]
    BY <2>2, <1>4
  <2> QED  BY <2>1, <2>3 DEF F, FreeOf
<1>10. G = FreeOf(r)
  <2>1. G \subseteq FreeOf(r)
    BY <1>8 DEF FreeOf, Sound, Listing
  <2>2. ASSUME NEW a \in FreeOf(r)
        PROVE  a \in G
    <3>1. a \in BlocksIn(r) /\ ~r[a].mine
      BY DEF FreeOf
    <3>2. a \notin G => a \in BlocksIn(h) \ (F \cup {b})
      BY <3>1, <1>7, <1>8
    <3> QED  BY <3>1, <3>2, <1>9
  <2> QED  BY <2>1, <2>2
<1>11. ASSUME NEW m \in held \ {l}
       PROVE  Holds(r, m)
  <2>1. Holds(h, m) /\ Holds(h, l)
    BY <1>2
  <2>2. HeaderOf(m) # b
    <3>1. m.at # l.at
      BY DEF HeapInv
    <3>2. m.at \in Int /\ l.at \in Int
      BY <2>1, Addresses DEF Holds
    <3> QED  BY <3>1, <3>2, Layout DEF HeaderOf, b
  <2>3. HeaderOf(m) \in BlocksIn(h) \ (F \cup {b})
    BY <2>1, <2>2 DEF Holds, F, FreeOf
  <2> QED  BY <2>1, <2>3, <1>9 DEF Holds
<1>12. ASSUME NEW a \in BlocksIn(r), r[a].mine
       PROVE  \E m \in held \ {l} : HeaderOf(m) = a
  <2>1. a \in BlocksIn(h) \ (F \cup {b})
    BY <1>7, <1>8, <1>12
  <2>2. PICK m \in held : HeaderOf(m) = a
    BY <2>1, <1>9 DEF HeapInv
  <2>3. m # l
    BY <2>1, <2>2 DEF b
  <2> QED  BY <2>2, <2>3
<1>13. n + h[b].size = Cardinality(BytesOf(r, G))
  <2>1. BytesOf(r, G) = BytesOf(h, F) \cup (b..b + h[b].size - 1)
    <3>1. k[b].size = h[b].size
      BY <1>3, <1>4
    <3> QED  BY <3>1, <1>7, <1>8
  <2>2. Cardinality(BytesOf(h, F) \cup (b..b + h[b].size - 1))
          = Cardinality(BytesOf(h, F)) + h[b].size
    <3>1. Sound(h, F) /\ b \in BlocksIn(h) /\ b \notin F
      BY <1>1, <1>3
    <3> HIDE DEF F, b
    <3> QED  BY <3>1, BytesApart
  <2> QED  BY <2>1, <2>2, <1>1
<1>14. \A m, o \in held \ {l} : m.at = o.at => m = o
  BY DEF HeapInv
<1> QED  BY <1>8, <1>10, <1>11, <1>12, <1>13, <1>14 DEF HeapInv, b

\* The grant of a request, and what it makes of the heap.
New(bytes) == [at |-> Granted(bytes), bytes |-> bytes]

Met(r, l, held, n, bytes) ==
  /\ HeapInv(r, held \cup {l}, n - r[HeaderOf(l)].size)
  /\ r[HeaderOf(l)].size >= Wanted(bytes)
  /\ \A m \in held : r[HeaderOf(m)] = hdr[HeaderOf(m)] /\ HeaderOf(m) # HeaderOf(l)

\* Granting a request keeps all of it, and leaves alone what was held before.
LEMMA GrantKeeps ==
  ASSUME NEW held, NEW n, HeapInv(hdr, held, n), NEW bytes \in Sizes, bytes # 0,
         hdr[FirstFit(Wanted(bytes))].next # pxEnd
  PROVE  Met(Malloced(bytes), New(bytes), held, n, bytes)
<1> DEFINE r == Malloced(bytes)
           l == New(bytes)
           F == FreeOf(hdr)
           w == Wanted(bytes)
           x == FirstFit(w)
           q == hdr[x].next
           rest == hdr[q].size - w
           F1 == F \ {q}
           u == Unlink(hdr, x)
           s == Split(u, q, w)
           t == IF rest > 2 * xHeapStructSize THEN prvInsertBlockIntoFreeList(q + w, s) ELSE u
<1>0. /\ Sound(hdr, F) /\ Joined(hdr, F) /\ HeaderTypes(hdr) /\ Tiling(hdr)
      /\ F \subseteq BlocksIn(hdr)
      /\ n = Cardinality(BytesOf(hdr, F)) /\ \A a \in F : ~hdr[a].mine
  BY DEF HeapInv, Sound, Listing, FreeOf
<1>1. /\ w \in Int /\ w \in Nat /\ Aligned(w) /\ w >= bytes + xHeapStructSize /\ w > 0
      /\ bytes \in Nat /\ bytes > 0
  BY WantedFits, SizesAssumption, Layout
<1>2. x \in F \cup {xStart} /\ q \in F /\ hdr[q].size >= w
  <2>1. x \in F \cup {xStart} /\ q # pxEnd /\ hdr[q].size >= w
    BY <1>0, <1>1, FirstFitFacts
  <2> HIDE DEF x
  <2> QED  BY <2>1, <1>0, NextFacts
<1>3. /\ Sound(u, F1) /\ Joined(u, F1) /\ BlocksIn(u) = BlocksIn(hdr)
      /\ \A a \in Headers : u[a].size = hdr[a].size /\ u[a].mine = hdr[a].mine
      /\ \A a \in Headers : a # x => u[a] = hdr[a]
      /\ BytesOf(u, F1) \cup (q..q + hdr[q].size - 1) = BytesOf(hdr, F)
  <2>1. q = hdr[x].next
    OBVIOUS
  <2> HIDE DEF x, F, q, u
  <2>2. u = Unlink(hdr, x)
    BY DEF u
  <2> HIDE DEF F1
  <2>3. /\ Sound(u, F \ {q}) /\ Joined(u, F \ {q}) /\ BlocksIn(u) = BlocksIn(hdr)
        /\ \A a \in Headers : u[a].size = hdr[a].size /\ u[a].mine = hdr[a].mine
        /\ \A a \in Headers : a # x => u[a] = hdr[a]
        /\ BytesOf(u, F \ {q}) \cup (q..q + hdr[q].size - 1) = BytesOf(hdr, F)
    <3>1. Sound(hdr, F) /\ Joined(hdr, F) /\ x \in F \cup {xStart} /\ hdr[x].next \in F
      BY <2>1, <1>0, <1>2
    <3>2. Unlinked(Unlink(hdr, x), hdr, F, x, hdr[x].next)
      BY <3>1, UnlinkKeeps
    <3>3. Unlinked(u, hdr, F, x, q)
      BY <2>1, <2>2, <3>2
    <3> QED  BY <3>3 DEF Unlinked
  <2> QED  BY <2>3 DEF F1
<1>4. /\ q \in Cells /\ q \in Headers /\ q \in Int /\ q >= 0 /\ Aligned(q) /\ q # xStart
      /\ hdr[q].size \in Int /\ q + hdr[q].size <= pxEnd /\ u[q].size = hdr[q].size
  <2> HIDE DEF q, u, F
  <2>1. q \in BlocksIn(hdr)
    BY <1>0, <1>2
  <2> QED  BY <2>1, <1>0, <1>3, BlockFacts, Addresses
<1>5. /\ r = [t EXCEPT ![q] = Header(t[q].size, NULL, TRUE)]
      /\ l.at = q + xHeapStructSize /\ l.bytes = bytes
  <2>1. r = Take(x, w, hdr)
    BY DEF Malloced
  <2>2. l.at = q + xHeapStructSize /\ l.bytes = bytes
    BY DEF Granted, New
  <2>3. s = [u EXCEPT ![q].size = w, ![q + w] = Header(rest, NULL, FALSE)]
    <3> HIDE DEF x, w, q, u
    <3> QED  BY <1>4 DEF Split
  <2>4. u = [hdr EXCEPT ![x].next = hdr[hdr[x].next].next]
    BY DEF Unlink
  <2>5. Take(x, w, hdr) = [t EXCEPT ![q] = Header(t[q].size, NULL, TRUE)]
    <3> HIDE DEF x, w, u, s
    <3> QED  BY <2>3, <2>4 DEF Take
  <2> QED  BY <2>1, <2>2, <2>5
<1> HIDE DEF F, w, x, q, u, s, r, l
<1>6. /\ q \in BlocksIn(u) /\ q \notin F1 /\ F1 \subseteq BlocksIn(u) /\ \A a \in F1 : ~u[a].mine
      /\ BlocksIn(u) \ F1 = (BlocksIn(hdr) \ F) \cup {q}
      /\ \A a \in BlocksIn(hdr) : a \in Headers /\ a # xStart /\ a \in Int
  <2>1. \A a \in BlocksIn(hdr) : a \in Headers /\ a # xStart /\ a \in Int
    BY Addresses DEF BlocksIn
  <2> QED  BY <2>1, <1>0, <1>2, <1>3
<1>7. \A a \in BlocksIn(hdr) \ F : u[a] = hdr[a]
  <2> TAKE a \in BlocksIn(hdr) \ F
  <2>1. x \in F \cup {xStart} /\ a \notin F /\ a # xStart /\ a \in Headers
    BY <1>2, <1>6
  <2> QED  BY <2>1, <1>3
<1>8. \E G : /\ Sound(t, G) /\ Joined(t, G) /\ \A a \in G : ~t[a].mine
             /\ q \in BlocksIn(t) /\ q \notin G /\ t[q].size >= w
             /\ BlocksIn(t) \ G = (BlocksIn(hdr) \ F) \cup {q}
             /\ BytesOf(t, G) \cup (q..q + t[q].size - 1) = BytesOf(hdr, F)
             /\ \A a \in BlocksIn(hdr) \ F : t[a] = hdr[a]
  <2>1. CASE rest > 2 * xHeapStructSize
    <3> DEFINE p == q + w
    <3>1. t = prvInsertBlockIntoFreeList(p, s)
      BY <2>1
    <3>2. w < u[q].size /\ p # q /\ p \in Int
      BY <2>1, <1>1, <1>4, Layout
    <3> HIDE DEF t, rest, F1
    <3>3. /\ Sound(s, F1) /\ Joined(s, F1) /\ BytesOf(s, F1) = BytesOf(u, F1)
          /\ p \notin BlocksIn(u) /\ BlocksIn(s) = BlocksIn(u) \cup {p} /\ p \in Headers
          /\ s[q].size = w /\ s[p].size = u[q].size - w
          /\ \A a \in Headers : a \notin {q, p} => s[a] = u[a]
      BY <1>1, <1>3, <1>6, <3>2, SplitKeeps DEF s
    <3> HIDE DEF p
    <3>4. p \in BlocksIn(s) /\ p \notin F1 /\ \A a \in F1 : ~s[a].mine
      <4>1. \A a \in F1 : a \notin {q, p} /\ a \in Headers
        BY <1>3, <1>6, <3>3
      <4> QED  BY <4>1, <1>6, <3>3
    <3>5. PICK G : /\ Sound(t, G) /\ Joined(t, G)
                   /\ G \subseteq F1 \cup {p} /\ \A a \in G : ~t[a].mine
                   /\ BlocksIn(t) \ G = BlocksIn(s) \ (F1 \cup {p})
                   /\ BytesOf(t, G) = BytesOf(s, F1) \cup (p..p + s[p].size - 1)
                   /\ \A a \in BlocksIn(s) \ (F1 \cup {p}) : t[a] = s[a]
      <4>1. Inserted(t, s, F1, p)
        BY <3>1, <3>3, <3>4, InsertKeeps
      <4> QED  BY <4>1 DEF Inserted
    <3>6. BlocksIn(t) \ G = (BlocksIn(hdr) \ F) \cup {q}
      BY <1>6, <3>3, <3>5
    <3>7. q \in BlocksIn(t) /\ q \notin G /\ t[q].size = w
      BY <1>6, <3>2, <3>3, <3>5
    <3>8. \A a \in BlocksIn(hdr) \ F : t[a] = hdr[a]
      <4> TAKE a \in BlocksIn(hdr) \ F
      <4>1. a # q /\ a # p /\ a \in Headers /\ a \in BlocksIn(s) \ (F1 \cup {p})
        BY <1>2, <1>3, <1>6, <3>3
      <4> QED  BY <4>1, <1>7, <3>3, <3>5
    <3>9. BytesOf(t, G) \cup (q..q + w - 1) = BytesOf(hdr, F)
      <4>1. (p..p + s[p].size - 1) \cup (q..q + w - 1) = q..q + hdr[q].size - 1
        BY <1>1, <1>4, <3>2, <3>3 DEF p
      <4> QED  BY <4>1, <1>3, <3>3, <3>5
    <3> QED  BY <1>1, <3>5, <3>6, <3>7, <3>8, <3>9
  <2>2. CASE ~(rest > 2 * xHeapStructSize)
    <3>1. t = u
      BY <2>2
    <3> HIDE DEF t, rest, F1
    <3> QED  BY <3>1, <1>2, <1>3, <1>4, <1>6, <1>7
  <2> QED  BY <2>1, <2>2
<1>9. PICK G : /\ Sound(t, G) /\ Joined(t, G) /\ \A a \in G : ~t[a].mine
               /\ q \in BlocksIn(t) /\ q \notin G /\ t[q].size >= w
               /\ BlocksIn(t) \ G = (BlocksIn(hdr) \ F) \cup {q}
               /\ BytesOf(t, G) \cup (q..q + t[q].size - 1) = BytesOf(hdr, F)
               /\ \A a \in BlocksIn(hdr) \ F : t[a] = hdr[a]
  BY <1>8
<1> HIDE DEF t, rest, F1
<1>10. HeaderTypes(t) /\ Tiling(t) /\ G \subseteq BlocksIn(t) /\ t[q].size \in Int /\ t[q].size > 0
       /\ q + t[q].size <= pxEnd
  BY <1>9, BlockFacts DEF Sound, Listing
<1>11. /\ HeaderTypes(r) /\ r[q].mine /\ r[q].next = NULL
       /\ \A a \in Headers : r[a].size = t[a].size
       /\ \A a \in Headers : a # q => r[a] = t[a]
  <2>1. t \in [Headers -> [size : BlockSizes, next : Headers \cup {NULL}, mine : BOOLEAN]]
    BY <1>10 DEF HeaderTypes
  <2>2. t[q].size \in BlockSizes
    BY <2>1, <1>4
  <2>3. r[q] = [size |-> t[q].size, next |-> NULL, mine |-> TRUE]
    BY <2>1, <1>4, <1>5 DEF Header
  <2>4. \A a \in Headers : a # q => r[a] = t[a]
    BY <2>1, <1>4, <1>5
  <2>5. r = [a \in Headers |-> r[a]]
    BY <2>1, <1>5
  <2>6. r[q].mine /\ r[q].next = NULL /\ r[q].size = t[q].size
    BY <2>3
  <2>7. r[q] \in [size : BlockSizes, next : Headers \cup {NULL}, mine : BOOLEAN]
    <3> HIDE DEF BlockSizes
    <3> QED  BY <2>2, <2>3
  <2>8. \A a \in Headers : r[a] \in [size : BlockSizes, next : Headers \cup {NULL}, mine : BOOLEAN]
    BY <2>1, <2>4, <2>7
  <2>9. r[xStart].size = 0
    BY <2>4, <1>4, <1>10, Addresses DEF HeaderTypes
  <2> QED  BY <2>4, <2>5, <2>6, <2>8, <2>9 DEF HeaderTypes
<1>12. \A a \in G \cup {xStart} : a \in Headers /\ a # q
  BY <1>4, <1>9, <1>10, BlockFacts, Addresses
<1>13. Sound(r, G) /\ BlocksIn(r) = BlocksIn(t) /\ BytesOf(r, G) = BytesOf(t, G) /\ Joined(r, G)
  BY <1>9, <1>11, <1>12, MarkKeeps
<1>14. \A a \in BlocksIn(hdr) \ F : r[a] = hdr[a] /\ a \in BlocksIn(r) /\ a # q
  BY <1>2, <1>6, <1>9, <1>11, <1>13
<1>15. G = FreeOf(r)
  <2>1. \A a \in G : a \in BlocksIn(r) /\ ~r[a].mine
    BY <1>9, <1>10, <1>11, <1>12, <1>13
  <2>2. ASSUME NEW a \in BlocksIn(r), ~r[a].mine
        PROVE  a \in G
    <3>1. a \notin G => a \in (BlocksIn(hdr) \ F) \cup {q}
      BY <1>9, <1>13
    <3>2. \A e \in BlocksIn(hdr) \ F : hdr[e].mine
      BY DEF F, FreeOf
    <3> QED  BY <2>2, <3>1, <3>2, <1>11, <1>14
  <2> QED  BY <2>1, <2>2 DEF FreeOf
<1>16. ASSUME NEW m \in held
       PROVE  /\ HeaderOf(m) \in BlocksIn(hdr) \ F /\ HeaderOf(m) # q
              /\ r[HeaderOf(m)] = hdr[HeaderOf(m)] /\ Holds(r, m)
  <2>1. Holds(hdr, m)
    BY DEF HeapInv
  <2>2. HeaderOf(m) \in BlocksIn(hdr) \ F
    BY <2>1 DEF Holds, F, FreeOf
  <2> QED  BY <2>1, <2>2, <1>14 DEF Holds
<1>17. HeaderOf(l) = q
  BY <1>4, <1>5, Layout DEF HeaderOf
<1>18. Holds(r, l)
  <2>1. r[q].size = t[q].size /\ t[q].size >= bytes + xHeapStructSize
    BY <1>1, <1>4, <1>9, <1>10, <1>11, Layout
  <2>2. q + xHeapStructSize \in Cells
    <3>1. q + xHeapStructSize \in Int /\ 0 <= q + xHeapStructSize /\ q + xHeapStructSize < pxEnd
      BY <2>1, <1>1, <1>4, <1>10, Layout
    <3>2. Aligned(q + xHeapStructSize)
      BY <1>4, AlignedSum, Layout
    <3> QED  BY <3>1, <3>2, Addresses
  <2>3. l \in [at : Cells, bytes : Sizes]
    BY <2>2, <1>5 DEF l, New
  <2> QED  BY <2>1, <2>3, <1>5, <1>9, <1>11, <1>13, <1>17 DEF Holds
<1>19. n - r[q].size = Cardinality(BytesOf(r, G))
  <2>1. q \in BlocksIn(r) /\ q \notin G /\ r[q].size = t[q].size
    BY <1>4, <1>9, <1>11, <1>13
  <2>2. n = Cardinality(BytesOf(r, G) \cup (q..q + r[q].size - 1))
    BY <2>1, <1>0, <1>9, <1>13
  <2>3. /\ n = Cardinality(BytesOf(r, G)) + r[q].size
        /\ Cardinality(BytesOf(r, G)) \in Nat
    BY <2>1, <2>2, <1>13, BytesApart
  <2> QED  BY <2>1, <2>3, <1>10
<1>20. \A m, o \in held \cup {l} : m.at = o.at => m = o
  <2>1. \A m \in held : m.at # l.at
    BY <1>16, <1>17 DEF HeaderOf
  <2> QED  BY <2>1 DEF HeapInv
<1>21. ASSUME NEW a \in BlocksIn(r), r[a].mine
       PROVE  \E m \in held \cup {l} : HeaderOf(m) = a
  <2>1. a \in (BlocksIn(hdr) \ F) \cup {q}
    BY <1>9, <1>13, <1>15, <1>21 DEF FreeOf
  <2>2. CASE a = q
    BY <2>2, <1>17
  <2>3. CASE a # q
    <3>1. a \in BlocksIn(hdr) /\ hdr[a].mine
      BY <2>1, <2>3, <1>14, <1>21
    <3> QED  BY <3>1 DEF HeapInv
  <2> QED  BY <2>2, <2>3
<1>22. HeapInv(r, held \cup {l}, n - r[HeaderOf(l)].size)
  <2>1. \A m \in held \cup {l} : Holds(r, m)
    BY <1>16, <1>18
  <2> QED  BY <2>1, <1>13, <1>15, <1>17, <1>19, <1>20, <1>21 DEF HeapInv
<1>23. r[HeaderOf(l)].size >= Wanted(bytes)
  BY <1>4, <1>9, <1>11, <1>17 DEF w
<1>24. Met(r, l, held, n, bytes)
  BY <1>16, <1>17, <1>22, <1>23 DEF Met
<1> QED  BY <1>24 DEF r, l
-------------------------------------------------------------------------------
(* The inductive invariant.                                                          *)

IInv ==
  /\ HeapInv(hdr, live, xFreeBytesRemaining)
  /\ xMinimumEverFreeBytesRemaining \in 0..pxEnd
  /\ status \in {"running", "hung", "frozen"} /\ asked \in Sizes \cup {0}
  /\ FailsWhenFull

\* The properties speak of the same blocks.
LEMMA BlocksAre == Blocks = BlocksIn(hdr) /\ FreeBlocks = FreeOf(hdr)
BY DEF Blocks, FreeBlocks, BlocksIn, FreeOf

\* There are never more free bytes than the heap has, and a free block is among them.
LEMMA CountBounds ==
  ASSUME NEW h, NEW held, NEW n, HeapInv(h, held, n)
  PROVE  n \in 0..pxEnd /\ \A a \in FreeOf(h) : h[a].size <= n
<1> DEFINE F == FreeOf(h)
           P == BytesOf(h, F)
<1>1. HeaderTypes(h) /\ Tiling(h) /\ n = Cardinality(P)
  BY DEF HeapInv, Sound
<1>2. pxEnd \in Int /\ pxEnd > 0 /\ pxEnd - 1 \in Int
  BY Layout
<1>3. IsFiniteSet(0..pxEnd-1) /\ Cardinality(0..pxEnd-1) = pxEnd
  <2> DEFINE t == pxEnd - 1
  <2>1. t \in Int /\ ~(0 > t) /\ t - 0 + 1 = pxEnd
    BY <1>2
  <2> HIDE DEF t
  <2>2. IsFiniteSet(0..t) /\ Cardinality(0..t) = IF 0 > t THEN 0 ELSE t - 0 + 1
    BY <2>1, FS_Interval
  <2> QED  BY <2>1, <2>2 DEF t
<1>4. P \in SUBSET (0..pxEnd-1)
  BY DEF BytesOf
<1> HIDE DEF P
<1>5. IsFiniteSet(P) /\ Cardinality(P) <= pxEnd /\ Cardinality(P) \in Nat
  BY <1>3, <1>4, FS_Subset, FS_CardinalityType
<1>6. ASSUME NEW a \in F
      PROVE  h[a].size <= n
  <2> DEFINE Q == a..a + h[a].size - 1
  <2>1. a \in BlocksIn(h)
    BY DEF FreeOf
  <2>2. a \in Int /\ a >= 0 /\ h[a].size \in Int /\ h[a].size > 0 /\ a + h[a].size <= pxEnd
    BY <2>1, <1>1, BlockFacts
  <2>3. Q \in SUBSET P
    BY <2>2, <1>2 DEF P, BytesOf
  <2>4. Cardinality(Q) = h[a].size
    <3> DEFINE t == a + h[a].size - 1
    <3>1. t \in Int /\ t - a + 1 = h[a].size /\ ~(a > t)
      BY <2>2
    <3> HIDE DEF t
    <3>2. IsFiniteSet(a..t) /\ Cardinality(a..t) = IF a > t THEN 0 ELSE t - a + 1
      BY <2>2, <3>1, FS_Interval
    <3> QED  BY <3>1, <3>2 DEF t
  <2> HIDE DEF Q
  <2>5. Cardinality(Q) <= Cardinality(P)
    BY <1>5, <2>3, FS_Subset
  <2> QED  BY <2>4, <2>5, <1>1
<1> QED  BY <1>1, <1>2, <1>5, <1>6

\* What the client holds lies in the heap, aligned, and two grants have no byte in common.
LEMMA HeldApart ==
  ASSUME NEW h, NEW held, NEW n, HeapInv(h, held, n), NEW l \in held
  PROVE  /\ l.at \in 0..pxEnd-1 /\ l.bytes \in Sizes /\ l = [at |-> l.at, bytes |-> l.bytes]
         /\ Contract!Grantable(l, held \ {l})
<1> DEFINE b == HeaderOf(l)
<1>1. HeaderTypes(h) /\ Tiling(h)
  BY DEF HeapInv, Sound
<1>2. ASSUME NEW m \in held
      PROVE  /\ HeaderOf(m) \in BlocksIn(h) /\ HeaderOf(m) \in Int /\ HeaderOf(m) >= 0
             /\ m.at \in Int /\ m.bytes \in Int /\ m.bytes > 0
             /\ m.at = HeaderOf(m) + xHeapStructSize
             /\ h[HeaderOf(m)].size \in Int
             /\ HeaderOf(m) + h[HeaderOf(m)].size >= m.at + m.bytes
             /\ HeaderOf(m) + h[HeaderOf(m)].size <= pxEnd
             /\ m \in [at : Cells, bytes : Sizes]
  <2>1. Holds(h, m)
    BY DEF HeapInv
  <2>2. m \in [at : Cells, bytes : Sizes] /\ m.at \in Int /\ m.bytes \in Nat /\ m.bytes # 0
    BY <2>1, Addresses, SizesAssumption DEF Holds
  <2>3. HeaderOf(m) \in BlocksIn(h) /\ h[HeaderOf(m)].size >= m.bytes + xHeapStructSize
    BY <2>1 DEF Holds
  <2>4. HeaderOf(m) \in Int /\ HeaderOf(m) >= 0 /\ h[HeaderOf(m)].size \in Int
        /\ HeaderOf(m) + h[HeaderOf(m)].size <= pxEnd
    BY <2>3, <1>1, BlockFacts
  <2>5. m.at = HeaderOf(m) + xHeapStructSize
    BY <2>2, Layout DEF HeaderOf
  <2> QED  BY <2>2, <2>3, <2>4, <2>5, Layout
<1>3. l.at \in Cells /\ l.at % Align = 0 /\ l.at \in 0..pxEnd-1
  BY <1>2 DEF Cells
<1>4. l.bytes \in Sizes /\ l = [at |-> l.at, bytes |-> l.bytes]
  <2>1. l \in [at : Cells, bytes : Sizes]
    BY <1>2
  <2> QED  BY <2>1
<1>5. Contract!Bytes(l) \subseteq 0..pxEnd-1
  <2>1. /\ b \in Int /\ b >= 0 /\ l.at \in Int /\ l.bytes \in Int /\ l.at = b + xHeapStructSize
        /\ h[b].size \in Int /\ b + h[b].size >= l.at + l.bytes /\ b + h[b].size <= pxEnd
    BY <1>2
  <2> HIDE DEF b
  <2> QED  BY <2>1, Layout DEF Contract!Bytes
<1>6. ASSUME NEW m \in held \ {l}
      PROVE  Contract!Bytes(l) \cap Contract!Bytes(m) = {}
  <2> DEFINE e == HeaderOf(m)
             x == h[b].size
             y == h[e].size
  <2>1. l.at # m.at
    BY DEF HeapInv
  <2>2. /\ b \in Int /\ l.at \in Int /\ l.bytes \in Int /\ l.at = b + xHeapStructSize
        /\ x \in Int /\ b + x >= l.at + l.bytes /\ b \in BlocksIn(h)
    BY <1>2
  <2>3. /\ e \in Int /\ m.at \in Int /\ m.bytes \in Int /\ m.at = e + xHeapStructSize
        /\ y \in Int /\ e + y >= m.at + m.bytes /\ e \in BlocksIn(h)
    BY <1>2
  <2> HIDE DEF b, e
  <2>4. b < e => b + x <= e
    BY <2>2, <2>3, <1>1 DEF Tiling
  <2>5. e < b => e + y <= b
    BY <2>2, <2>3, <1>1 DEF Tiling
  <2> HIDE DEF x, y
  <2> SUFFICES ASSUME NEW z \in Contract!Bytes(l), z \in Contract!Bytes(m) PROVE FALSE
    OBVIOUS
  <2>6. z \in Int /\ l.at <= z /\ z < l.at + l.bytes /\ m.at <= z /\ z < m.at + m.bytes
    BY <2>2, <2>3 DEF Contract!Bytes
  <2> QED  BY <2>1, <2>2, <2>3, <2>4, <2>5, <2>6, Layout
<1>7. Contract!Grantable(l, held \ {l})
  BY <1>3, <1>4, <1>5, <1>6 DEF Contract!Grantable
<1> QED  BY <1>3, <1>4, <1>7

\* A request that fails could not have been met.
LEMMA FailsOnlyWhenFull ==
  ASSUME HeapInv(hdr, live, xFreeBytesRemaining), NEW bytes \in Sizes, Fails(bytes)
  PROVE  bytes = 0 \/ \A a \in FreeBlocks : hdr[a].size < Wanted(bytes)
<1>1. SUFFICES ASSUME bytes # 0 PROVE \A a \in FreeOf(hdr) : hdr[a].size < Wanted(bytes)
  BY BlocksAre
<1>2. Wanted(bytes) \in Nat /\ Sound(hdr, FreeOf(hdr))
  BY <1>1, WantedFits DEF HeapInv
<1>3. ASSUME NEW a \in FreeOf(hdr)
      PROVE  hdr[a].size \in Int /\ hdr[a].size <= xFreeBytesRemaining /\ xFreeBytesRemaining \in Int
  <2>1. a \in BlocksIn(hdr) /\ HeaderTypes(hdr) /\ Tiling(hdr)
    BY <1>2 DEF FreeOf, Sound
  <2>2. hdr[a].size \in Int
    BY <2>1, BlockFacts
  <2> QED  BY <2>2, CountBounds
<1>4. CASE Wanted(bytes) > xFreeBytesRemaining
  BY <1>2, <1>3, <1>4
<1>5. CASE hdr[FirstFit(Wanted(bytes))].next = pxEnd
  <2> DEFINE w == Wanted(bytes)
  <2>1. w \in Nat /\ hdr[FirstFit(w)].next = pxEnd
    BY <1>2, <1>5
  <2> HIDE DEF w
  <2>2. \A a \in FreeOf(hdr) : hdr[a].size < w
    BY <2>1, <1>2, FirstFitFacts
  <2> QED  BY <2>2 DEF w
<1> QED  BY <1>1, <1>4, <1>5 DEF Fails
-------------------------------------------------------------------------------
(* The steps.                                                                        *)

\* A request that is met.
LEMMA MallocKeeps ==
  ASSUME IInv, NEW bytes \in Sizes, ~Fails(bytes)
  PROVE  /\ HeapInv(Malloced(bytes), live \cup {New(bytes)}, Remaining(bytes))
         /\ Lowest(bytes) \in 0..pxEnd
         /\ New(bytes) \notin live
         /\ Malloced(bytes)[HeaderOf(New(bytes))].size >= Wanted(bytes)
         /\ \A m \in live : /\ Malloced(bytes)[HeaderOf(m)] = hdr[HeaderOf(m)]
                            /\ HeaderOf(m) # HeaderOf(New(bytes))
<1> DEFINE l == New(bytes)
           r == Malloced(bytes)
           n == xFreeBytesRemaining
<1>1. HeapInv(hdr, live, n) /\ xMinimumEverFreeBytesRemaining \in 0..pxEnd
  BY DEF IInv
<1>2. bytes # 0 /\ hdr[FirstFit(Wanted(bytes))].next # pxEnd
  BY DEF Fails
<1>3. l = [at |-> Granted(bytes), bytes |-> bytes] /\ r = Malloced(bytes)
  BY DEF New
<1>4. Remaining(bytes) = n - r[HeaderOf(l)].size
  BY DEF Remaining, HeaderOf, New
<1> HIDE DEF l, r, n
<1>5. /\ HeapInv(r, live \cup {l}, n - r[HeaderOf(l)].size)
      /\ r[HeaderOf(l)].size >= Wanted(bytes)
      /\ \A m \in live : r[HeaderOf(m)] = hdr[HeaderOf(m)] /\ HeaderOf(m) # HeaderOf(l)
  <2>1. Met(Malloced(bytes), New(bytes), live, n, bytes)
    BY <1>1, <1>2, GrantKeeps
  <2> QED  BY <2>1 DEF Met, l, r
<1>6. Remaining(bytes) \in 0..pxEnd
  BY <1>4, <1>5, CountBounds
<1>7. Lowest(bytes) \in 0..pxEnd
  BY <1>1, <1>6 DEF Lowest
<1>8. l \notin live
  BY <1>5
<1> QED  BY <1>4, <1>5, <1>7, <1>8 DEF l, r

\* A reallocation that grows: the copy overwrites no header, and the old block is
\* given back behind the grant of the new one.
LEMMA ReallocKeeps ==
  ASSUME IInv, NEW bytes \in Sizes, ~Fails(bytes), NEW l \in live, Grows(l, bytes)
  PROVE  /\ Overwritten(l, bytes) = {}
         /\ HeapInv(prvInsertBlockIntoFreeList(HeaderOf(l),
                       [Malloced(bytes) EXCEPT ![HeaderOf(l)].mine = FALSE]),
                    (live \ {l}) \cup {New(bytes)}, Remaining(bytes) + hdr[HeaderOf(l)].size)
<1> DEFINE k == New(bytes)
           r == Malloced(bytes)
           n == Remaining(bytes)
           held == live \cup {k}
           g == prvInsertBlockIntoFreeList(HeaderOf(l), [r EXCEPT ![HeaderOf(l)].mine = FALSE])
<1>1. /\ HeapInv(r, held, n) /\ k \notin live
      /\ r[HeaderOf(k)].size >= Wanted(bytes)
      /\ r[HeaderOf(l)] = hdr[HeaderOf(l)]
  BY MallocKeeps
<1>2. Overwritten(l, bytes) = {}
  <2> DEFINE x == hdr[HeaderOf(l)].size
             y == r[HeaderOf(k)].size
             b == HeaderOf(k)
  <2>1. HeaderOf(k) = Granted(bytes) - xHeapStructSize
    BY DEF HeaderOf, New
  <2>2. Holds(hdr, l) /\ Sound(hdr, FreeOf(hdr)) /\ Holds(r, k) /\ Sound(r, FreeOf(r))
    BY <1>1 DEF IInv, HeapInv
  <2>3. x \in Int
    BY <2>2, BlockFacts DEF Holds, Sound
  <2>4. y \in Int /\ b \in Int
    BY <2>2, BlockFacts DEF Holds, Sound
  <2>5. Wanted(bytes) \in Int /\ Wanted(bytes) >= x + xHeapStructSize
    BY WantedFits DEF Grows, Fails
  <2>6. k.at = Granted(bytes) /\ k.at \in Int
    BY <2>2, Addresses DEF New, Holds
  <2>7. b + y >= Granted(bytes) + x
    <3> HIDE DEF x, y, b, k
    <3> QED  BY <1>1, <2>1, <2>3, <2>4, <2>5, <2>6, Layout DEF b, y
  <2>8. \A a \in Headers : ~(a >= b + y /\ a < Granted(bytes) + x)
    <3> HIDE DEF x, y, b, k
    <3> QED  BY <2>3, <2>4, <2>6, <2>7, Addresses
  <2> QED  BY <2>1, <2>8 DEF Overwritten
<1> HIDE DEF k, r, n
<1>3. HeapInv(g, held \ {l}, n + r[HeaderOf(l)].size)
  <2>1. l \in held
    OBVIOUS
  <2> HIDE DEF held, g
  <2>2. g = prvInsertBlockIntoFreeList(HeaderOf(l), [r EXCEPT ![HeaderOf(l)].mine = FALSE])
    BY DEF g
  <2> QED  BY <1>1, <2>1, <2>2, GiveBackKeeps
<1>4. held \ {l} = (live \ {l}) \cup {k}
  BY <1>1
<1> QED  BY <1>1, <1>2, <1>3, <1>4 DEF k, r, n
-------------------------------------------------------------------------------
(* The theorems.                                                                     *)

\* prvHeapInit makes one free block of the heap.
LEMMA InitKeeps == Init => IInv
<1> SUFFICES ASSUME Init PROVE IInv
  OBVIOUS
<1>1. /\ hdr[xStart] = Header(0, 0, FALSE) /\ hdr[0] = Header(pxEnd, pxEnd, FALSE)
      /\ \A a \in Headers : a # xStart /\ a # 0 => hdr[a] = Blank
      /\ hdr = [a \in Headers |-> hdr[a]] /\ 0 \in Headers /\ 0 \in Cells
  <2>1. /\ 0 \in Headers /\ 0 \in Cells /\ xStart \in Headers /\ xStart # 0
    BY Addresses, Layout DEF Cells, Aligned
  <2>2. hdr = [a \in Headers |-> CASE a = xStart -> Header(0, 0, FALSE)
                                   [] a = 0 -> Header(pxEnd, pxEnd, FALSE)
                                   [] OTHER -> Blank]
    BY DEF Init
  <2>3. \A a \in Headers : hdr[a] = IF a = xStart THEN Header(0, 0, FALSE)
                                    ELSE IF a = 0 THEN Header(pxEnd, pxEnd, FALSE) ELSE Blank
    BY <2>1, <2>2
  <2>4. hdr = [a \in Headers |-> hdr[a]]
    BY <2>2
  <2> QED  BY <2>1, <2>3, <2>4
<1>2. /\ \A a \in Headers : hdr[a].size = IF a = 0 THEN pxEnd ELSE 0
      /\ \A a \in Headers : ~hdr[a].mine
      /\ hdr[xStart].next = 0 /\ hdr[0].next = pxEnd
  <2>1. xStart # 0
    BY Addresses
  <2> QED  BY <2>1, <1>1, Addresses DEF Header, Blank
<1>3. HeaderTypes(hdr)
  <2>1. 0 \in BlockSizes /\ pxEnd \in BlockSizes
    BY Addresses, Layout DEF Aligned
  <2>2. \A a \in Headers : hdr[a] \in [size : BlockSizes, next : Headers \cup {NULL}, mine : BOOLEAN]
    <3> HIDE DEF BlockSizes
    <3> TAKE a \in Headers
    <3>1. CASE a = xStart
      BY <3>1, <2>1, <1>1 DEF Header
    <3>2. CASE a = 0
      BY <3>2, <2>1, <1>1, Addresses DEF Header
    <3>3. CASE a # xStart /\ a # 0
      <4>1. hdr[a] = [size |-> 0, next |-> NULL, mine |-> FALSE]
        BY <3>3, <1>1 DEF Header, Blank
      <4> QED  BY <4>1, <2>1
    <3> QED  BY <3>1, <3>2, <3>3
  <2>3. hdr[xStart].size = 0
    BY <1>2, Addresses
  <2> QED  BY <2>2, <2>3, <1>1 DEF HeaderTypes
<1>4. BlocksIn(hdr) = {0} /\ FreeOf(hdr) = {0}
  <2>1. \A a \in Cells : a \in Headers
    BY Addresses
  <2>2. \A a \in Cells : hdr[a].size > 0 <=> a = 0
    BY <2>1, <1>2, Layout
  <2>3. BlocksIn(hdr) = {0}
    BY <2>2, <1>1 DEF BlocksIn
  <2> QED  BY <2>3, <1>1, <1>2 DEF FreeOf
<1>5. hdr[0].size = pxEnd /\ pxEnd \in Int /\ pxEnd > 0
  BY <1>1, <1>2, Layout
<1>6. Tiling(hdr)
  BY <1>4, <1>5 DEF Tiling
<1>7. Listing(hdr, {0})
  BY <1>2, <1>4, <1>5, Addresses DEF Listing
<1>8. Joined(hdr, {0})
  BY <1>5 DEF Joined
<1>9. Cardinality(BytesOf(hdr, {0})) = pxEnd
  <2> DEFINE t == pxEnd - 1
  <2>1. BytesOf(hdr, {0}) = 0..t
    BY <1>5 DEF BytesOf
  <2>2. t \in Int /\ ~(0 > t) /\ t - 0 + 1 = pxEnd
    BY <1>5
  <2> HIDE DEF t
  <2>3. Cardinality(0..t) = IF 0 > t THEN 0 ELSE t - 0 + 1
    BY <2>2, FS_Interval
  <2> QED  BY <2>1, <2>2, <2>3
<1>10. HeapInv(hdr, live, xFreeBytesRemaining)
  <2>1. live = {} /\ xFreeBytesRemaining = pxEnd
    BY DEF Init
  <2>2. \A a \in BlocksIn(hdr) : ~hdr[a].mine
    BY <1>1, <1>2, <1>4
  <2> QED  BY <2>1, <2>2, <1>3, <1>4, <1>6, <1>7, <1>8, <1>9 DEF HeapInv, Sound
<1> QED  BY <1>5, <1>10 DEF Init, IInv, FailsWhenFull

\* Every action of a client whose reallocations grow keeps the heap sound.
LEMMA NextKeeps == IInv /\ [GrowingNext]_vars => IInv'
<1> SUFFICES ASSUME IInv, [GrowingNext]_vars PROVE IInv'
  OBVIOUS
<1>1. ASSUME UNCHANGED vars PROVE IInv'
  <2>1. hdr' = hdr /\ xFreeBytesRemaining' = xFreeBytesRemaining /\ live' = live
        /\ xMinimumEverFreeBytesRemaining' = xMinimumEverFreeBytesRemaining
        /\ status' = status /\ asked' = asked
    BY <1>1 DEF vars, freeVars
  <2> QED  BY <2>1 DEF IInv, FailsWhenFull, FreeBlocks, Blocks
<1>2. ASSUME NEW bytes \in Sizes, Fails(bytes), NEW how \in {"hung", "frozen"}, Hang(how, bytes)
      PROVE  IInv'
  <2>1. /\ hdr' = hdr /\ xFreeBytesRemaining' = xFreeBytesRemaining /\ live' = live
        /\ xMinimumEverFreeBytesRemaining' = xMinimumEverFreeBytesRemaining
        /\ status' = how /\ asked' = bytes
    BY <1>2 DEF Hang, freeVars
  <2>2. bytes = 0 \/ \A a \in FreeBlocks : hdr[a].size < Wanted(bytes)
    BY <1>2, FailsOnlyWhenFull DEF IInv
  <2>3. FailsWhenFull'
    BY <2>1, <2>2 DEF FailsWhenFull, FreeBlocks, Blocks
  <2> QED  BY <2>1, <2>3 DEF IInv
<1>3. ASSUME status = "running", UNCHANGED <<status, asked>>,
             HeapInv(hdr', live', xFreeBytesRemaining'),
             xMinimumEverFreeBytesRemaining' \in 0..pxEnd
      PROVE  IInv'
  <2>1. FailsWhenFull'
    BY <1>3 DEF FailsWhenFull
  <2> QED  BY <1>3, <2>1 DEF IInv
<1>4. ASSUME NEW bytes \in Sizes, NEW suspended \in BOOLEAN, Malloc(bytes, suspended)
      PROVE  IInv'
  <2>1. CASE Fails(bytes)
    <3>1. Hang(IF suspended THEN "frozen" ELSE "hung", bytes)
      BY <1>4, <2>1 DEF Malloc
    <3> QED  BY <3>1, <2>1, <1>2
  <2>2. CASE ~Fails(bytes)
    <3>1. /\ status = "running" /\ UNCHANGED <<status, asked>>
          /\ hdr' = Malloced(bytes) /\ xFreeBytesRemaining' = Remaining(bytes)
          /\ xMinimumEverFreeBytesRemaining' = Lowest(bytes)
          /\ live' = live \cup {New(bytes)}
      BY <1>4, <2>2 DEF Malloc, New
    <3> QED  BY <3>1, <2>2, <1>3, MallocKeeps
  <2> QED  BY <2>1, <2>2
<1>5. ASSUME NEW l \in live, microros_deallocate(l)
      PROVE  IInv'
  <2>1. /\ status = "running" /\ UNCHANGED <<status, asked>> /\ live' = live \ {l}
        /\ hdr' = prvInsertBlockIntoFreeList(HeaderOf(l),
                     [hdr EXCEPT ![HeaderOf(l)].mine = FALSE])
        /\ xFreeBytesRemaining' = xFreeBytesRemaining + hdr[HeaderOf(l)].size
        /\ xMinimumEverFreeBytesRemaining' = xMinimumEverFreeBytesRemaining
    BY <1>5 DEF microros_deallocate
  <2>2. HeapInv(hdr', live', xFreeBytesRemaining')
    BY <2>1, GiveBackKeeps DEF IInv
  <2>3. xMinimumEverFreeBytesRemaining' \in 0..pxEnd
    BY <2>1 DEF IInv
  <2> QED  BY <2>1, <2>2, <2>3, <1>3
<1>6. ASSUME NEW l \in live, NEW bytes \in Sizes, Grows(l, bytes), microros_reallocate(l, bytes)
      PROVE  IInv'
  <2>1. CASE Fails(bytes)
    <3>1. Hang("frozen", bytes)
      BY <1>6, <2>1 DEF microros_reallocate
    <3> QED  BY <3>1, <2>1, <1>2
  <2>2. CASE ~Fails(bytes)
    <3>1. Overwritten(l, bytes) = {}
      BY <1>6, <2>2, ReallocKeeps
    <3> DEFINE copied == [a \in Headers |-> IF a \in Overwritten(l, bytes) THEN Blank
                                            ELSE Malloced(bytes)[a]]
    <3>2. copied = Malloced(bytes)
      <4>1. Malloced(bytes) = [a \in Headers |-> Malloced(bytes)[a]]
        BY <2>2, MallocKeeps DEF HeapInv, Sound, HeaderTypes
      <4> QED  BY <3>1, <4>1
    <3>3. /\ status = "running" /\ UNCHANGED <<status, asked>>
          /\ hdr' = prvInsertBlockIntoFreeList(HeaderOf(l),
                       [copied EXCEPT ![HeaderOf(l)].mine = FALSE])
          /\ xFreeBytesRemaining' = Remaining(bytes) + hdr[HeaderOf(l)].size
          /\ xMinimumEverFreeBytesRemaining' = Lowest(bytes)
          /\ live' = (live \ {l}) \cup {New(bytes)}
      BY <1>6, <2>2, <3>1 DEF microros_reallocate, New
    <3> HIDE DEF copied
    <3>4. HeapInv(hdr', live', xFreeBytesRemaining')
      BY <1>6, <2>2, <3>2, <3>3, ReallocKeeps
    <3>5. xMinimumEverFreeBytesRemaining' \in 0..pxEnd
      BY <2>2, <3>3, MallocKeeps
    <3> QED  BY <3>3, <3>4, <3>5, <1>3
  <2> QED  BY <2>1, <2>2
<1> QED  BY <1>1, <1>4, <1>5, <1>6 DEF GrowingNext, microros_allocate, microros_zero_allocate

\* The heap stays sound: blocks that tile it, a sorted list of all that are free, a
\* client that holds the others, a count of the free bytes.
THEOREM HeapStaysSound == GrowingSpec => []IInv
BY InitKeeps, NextKeeps, PTL DEF GrowingSpec

\* Every header has the types of its fields, the counts lie within the heap, and no
\* reallocation that grows overwrites a header.
THEOREM TypeCorrect == GrowingSpec => [](TypeOK /\ status # "overwritten")
<1>1. IInv => TypeOK /\ status # "overwritten"
  <2> SUFFICES ASSUME IInv PROVE TypeOK /\ status # "overwritten"
    OBVIOUS
  <2>1. hdr \in [Headers -> [size : Cells \cup {pxEnd}, next : Headers \cup {NULL}, mine : BOOLEAN]]
    BY DEF IInv, HeapInv, Sound, HeaderTypes, BlockSizes
  <2>2. live \subseteq [at : Cells, bytes : Sizes]
    BY DEF IInv, HeapInv, Holds
  <2>3. xFreeBytesRemaining \in 0..pxEnd
    BY CountBounds DEF IInv
  <2> QED  BY <2>1, <2>2, <2>3 DEF IInv, TypeOK
<1> QED  BY <1>1, HeapStaysSound, PTL

\* Tiled, for every layout of the heap and all sizes of requests: whatever is split and
\* joined by vPortFree and pvPortMalloc, no byte is lost and none has two blocks.
THEOREM NoByteIsLost == GrowingSpec => []Tiled
<1>1. IInv => Tiled
  <2> SUFFICES ASSUME IInv PROVE Tiled
    OBVIOUS
  <2>1. Tiling(hdr) /\ HeaderTypes(hdr)
    BY DEF IInv, HeapInv, Sound
  <2>2. ASSUME NEW a \in Blocks
        PROVE  EndOf(a) \in Blocks \cup {pxEnd} /\ Blocks \cap (a+1..EndOf(a)-1) = {}
    <3>1. a + hdr[a].size \in Blocks \cup {pxEnd} /\ \A b \in Blocks : a < b => a + hdr[a].size <= b
      BY <2>1, BlocksAre DEF Tiling
    <3>2. \A b \in Blocks : b \in Int /\ hdr[b].size \in Int
      BY <2>1, BlocksAre, BlockFacts
    <3> QED  BY <3>1, <3>2 DEF EndOf
  <2> QED  BY <2>1, <2>2, BlocksAre DEF Tiling, Tiled
<1> QED  BY <1>1, HeapStaysSound, PTL

\* ListIsJoined: prvInsertBlockIntoFreeList keeps the list sorted, complete and joined,
\* whatever the order of the requests and returns.
THEOREM FreeListIsJoined == GrowingSpec => []ListIsJoined
<1>1. IInv => ListIsJoined
  <2> SUFFICES ASSUME IInv PROVE ListIsJoined
    OBVIOUS
  <2>1. /\ Sound(hdr, FreeOf(hdr)) /\ Joined(hdr, FreeOf(hdr))
        /\ \A l \in live : Holds(hdr, l)
        /\ \A a \in BlocksIn(hdr) : hdr[a].mine => \E l \in live : HeaderOf(l) = a
    BY DEF IInv, HeapInv
  <2>2. ASSUME NEW a \in FreeBlocks \cup {xStart}
        PROVE  /\ hdr[a].next \in FreeBlocks \cup {pxEnd} /\ hdr[a].next > a
               /\ FreeBlocks \cap (a+1..hdr[a].next-1) = {}
    <3>1. /\ hdr[a].next \in FreeBlocks \cup {pxEnd} /\ hdr[a].next > a
          /\ \A b \in FreeBlocks : a < b => hdr[a].next <= b
      BY <2>1, BlocksAre DEF Sound, Listing
    <3>2. a \in Int /\ hdr[a].next \in Int
      BY <2>1, BlocksAre, NextFacts
    <3>3. \A b \in FreeBlocks : b \in Int
      BY Addresses DEF FreeBlocks, Blocks
    <3> QED  BY <3>1, <3>2, <3>3
  <2>3. \A a \in FreeBlocks : EndOf(a) \notin FreeBlocks
    BY <2>1, BlocksAre DEF Joined, EndOf
  <2>4. \A a \in Blocks : hdr[a].mine <=> Held(a)
    BY <2>1, BlocksAre DEF Held, Holds
  <2> QED  BY <2>2, <2>3, <2>4 DEF ListIsJoined
<1> QED  BY <1>1, HeapStaysSound, PTL

\* Counted: through every split, join and reallocation the count that requests are
\* refused by is the number of the free bytes.
THEOREM FreeBytesAreCounted == GrowingSpec => []Counted
<1>1. IInv => Counted
  <2> SUFFICES ASSUME IInv PROVE Counted
    OBVIOUS
  <2>1. /\ HeaderTypes(hdr) /\ Tiling(hdr)
        /\ xFreeBytesRemaining = Cardinality(BytesOf(hdr, FreeBlocks))
    BY BlocksAre DEF IInv, HeapInv, Sound
  <2>2. \A a \in FreeBlocks : a \in Int /\ hdr[a].size \in Int
    BY <2>1, BlocksAre, BlockFacts DEF FreeOf
  <2>3. \A z \in 0..pxEnd-1 : \A a \in FreeBlocks :
          z \in a..EndOf(a)-1 <=> a <= z /\ z < a + hdr[a].size
    BY <2>2, Layout DEF EndOf
  <2>4. FreeBytes = BytesOf(hdr, FreeBlocks)
    BY <2>3 DEF FreeBytes, BytesOf
  <2> QED  BY <2>1, <2>4 DEF Counted
<1> QED  BY <1>1, HeapStaysSound, PTL

\* FailsWhenFull: the endless loop of a failed request is only entered when no free
\* block could hold the request.
THEOREM RefusedOnlyWhenFull == GrowingSpec => []FailsWhenFull
<1>1. IInv => FailsWhenFull
  BY DEF IInv
<1> QED  BY <1>1, HeapStaysSound, PTL

\* FreeChecks: under a client whose reallocations grow, the assertions of
\* vPortFreeMicroROS hold of every block it may give back.
THEOREM AssertionsHold == GrowingSpec => []FreeChecks
<1>1. IInv => FreeChecks
  BY DEF IInv, HeapInv, Holds, FreeChecks
<1> QED  BY <1>1, HeapStaysSound, PTL

\* ImplementsHeap: every step of the allocator is one of its contract's, a grant of memory
\* that is aligned and nobody else's, a return or both; or leaves the grants alone.
THEOREM HeapKeepsItsContract == GrowingSpec => ImplementsHeap
<1>1. Init => live = {}
  BY DEF Init
<1>2. ASSUME IInv, NEW bytes \in Sizes, ~Fails(bytes)
      PROVE  LET k == New(bytes)
             IN  k.at \in 0..pxEnd-1 /\ Contract!Grantable(k, live)
  <2>1. /\ HeapInv(Malloced(bytes), live \cup {New(bytes)}, Remaining(bytes))
        /\ New(bytes) \notin live
    BY <1>2, MallocKeeps
  <2>2. New(bytes).at \in 0..pxEnd-1
        /\ Contract!Grantable(New(bytes), (live \cup {New(bytes)}) \ {New(bytes)})
    BY <2>1, HeldApart
  <2>3. (live \cup {New(bytes)}) \ {New(bytes)} = live
    BY <2>1
  <2> QED  BY <2>2, <2>3
<1>3. ASSUME IInv, GrowingNext
      PROVE  Contract!Grant \/ Contract!GiveBack \/ Contract!Regrant \/ UNCHANGED live
  <2>1. ASSUME NEW bytes \in Sizes, NEW suspended \in BOOLEAN,
               Malloc(bytes, suspended), ~Fails(bytes)
        PROVE  Contract!Grant
    <3>1. live' = live \cup {New(bytes)}
      BY <2>1 DEF Malloc, New
    <3>2. New(bytes).at \in 0..pxEnd-1 /\ Contract!Grantable(New(bytes), live)
      BY <1>2, <1>3, <2>1
    <3>3. New(bytes) = [at |-> New(bytes).at, bytes |-> bytes]
      BY DEF New
    <3> QED  BY <3>1, <3>2, <3>3 DEF Contract!Grant
  <2>2. ASSUME NEW l \in live, microros_deallocate(l)
        PROVE  Contract!GiveBack
    BY <2>2 DEF microros_deallocate, Contract!GiveBack
  <2>3. ASSUME NEW l \in live, NEW bytes \in Sizes, microros_reallocate(l, bytes), ~Fails(bytes)
        PROVE  Contract!Regrant
    <3>1. live' = (live \ {l}) \cup {New(bytes)}
      BY <2>3 DEF microros_reallocate, New
    <3>2. New(bytes).at \in 0..pxEnd-1 /\ Contract!Grantable(New(bytes), live)
      BY <1>2, <1>3, <2>3
    <3>3. New(bytes) = [at |-> New(bytes).at, bytes |-> bytes]
      BY DEF New
    <3> QED  BY <3>1, <3>2, <3>3 DEF Contract!Regrant
  <2>4. ASSUME NEW bytes \in Sizes, Fails(bytes),
               \/ \E suspended \in BOOLEAN : Malloc(bytes, suspended)
               \/ \E l \in live : microros_reallocate(l, bytes)
        PROVE  UNCHANGED live
    BY <2>4 DEF Malloc, microros_reallocate, Hang
  <2> QED
    BY <1>3, <2>1, <2>2, <2>3, <2>4 DEF GrowingNext, microros_allocate, microros_zero_allocate
<1>4. UNCHANGED vars => UNCHANGED live
  BY DEF vars
<1> QED  BY <1>1, <1>3, <1>4, HeapStaysSound, PTL DEF GrowingSpec, ImplementsHeap, Contract!Heap
===============================================================================
