------------------------- MODULE MemoryPoolsProofs -------------------------
(***************************************************************************)
(* Proofs about MemoryPools, for any table of sizes and ratios, any size   *)
(* of chunk and header, and any threads and pointers: how PushChunk cuts   *)
(* the chunk, that every block is in one place, that its owner has room,   *)
(* and by how much the counters can be off.                                *)
(***************************************************************************)
EXTENDS MemoryPools, FiniteSetTheorems, SequenceTheorems, WellFoundedInduction, TLAPS

-----------------------------------------------------------------------------
(* The inductive invariant *)

BlocksIn(i) == ToSet(BlocksOf(i))
Stacked(i, b) == \E n \in DOMAIN pool[i] : pool[i][n] = b
Behind(b) == \E r \in Refs : memory[r].block = b
Returned(b) == \E t \in Threads : thread[t].block = b

\* A stack has blocks of its size only, each once.
StackInv ==
  \A i \in Classes :
    /\ \A n \in DOMAIN pool[i] : pool[i][n] \in BlocksIn(i)
    /\ \A m, n \in DOMAIN pool[i] : pool[i][m] = pool[i][n] => m = n

\* A block is on the stack of its size, behind a pointer or with a thread; it
\* is there alone.
PlaceInv ==
  \A i \in Classes : \A b \in BlocksIn(i) :
    /\ Stacked(i, b) \/ Behind(b) \/ Returned(b)
    /\ ~ (Stacked(i, b) /\ Behind(b))
    /\ ~ (Stacked(i, b) /\ Returned(b))
    /\ ~ (Behind(b) /\ Returned(b))
    /\ \A q, r \in Refs : memory[q].block = b /\ memory[r].block = b => q = r
    /\ \A t, u \in Threads : thread[t].block = b /\ thread[u].block = b => t = u

\* A pointer that a thread allocates for leads to nothing, and nobody else
\* allocates for it.
PointerInv ==
  \A t \in Threads :
    thread[t].ref # None =>
      /\ memory[thread[t].ref] = Null
      /\ \A u \in Threads : thread[u].ref = thread[t].ref => u = t

\* A thread is at the pool whose blocks are large enough for what was asked,
\* or at that of the block it returns.
ClassInv ==
  /\ \A t \in Threads :
       /\ thread[t] \in Allocating => thread[t].asked <= BlockSize[thread[t].class]
       /\ thread[t] \in Returning => thread[t].block \in BlocksIn(thread[t].class)
  /\ \A r \in Refs :
       memory[r].type = "pool" => memory[r].asked <= AllocSize(memory[r].block)

\* What the counters of a size should be but for the pops that came too late.
Used(i) == Cardinality(Lent(i)) + Cardinality(Popping(i, {"remain", "take", "unuse"}))
Remaining(i) == Len(pool[i]) - Cardinality(Popping(i, {"take"})) + Cardinality(Popping(i, {"back"}))

Mod(n) == n % CountMod
UseIs(i) == useCount[i] = Mod(Used(i) + missed[i])
RemainIs(i) == remainCount[i] = Mod(Remaining(i) - missed[i])

CountInv == \A i \in Classes : UseIs(i) /\ RemainIs(i)

IInv == TypeOK /\ StackInv /\ PlaceInv /\ PointerInv /\ ClassInv /\ CountInv

-----------------------------------------------------------------------------
(* Induction, by the least counterexample, and recursion over 0 .. n *)

LEMMA Least ==
  ASSUME NEW T, T \subseteq Nat, T # {}
  PROVE  \E n \in T : \A m \in T : n <= m
<1> DEFINE R == {ss \in Nat \X Nat : ss[1] < ss[2]}
<1>1. IsWellFoundedOn(R, Nat)
  BY NatLessThanWellFounded DEF OpToRel
<1>2. \A m, n \in Nat : m < n => <<m, n>> \in R
  OBVIOUS
<1>. HIDE DEF R
<1>3. PICK n \in T : \A m \in T : <<m, n>> \notin R
  BY <1>1, WFMin
<1> SUFFICES ASSUME NEW m \in T PROVE n <= m
  OBVIOUS
<1>4. m \in Nat /\ n \in Nat
  OBVIOUS
<1>5. ~ (m < n)
  BY <1>2, <1>3, <1>4
<1>. QED
  BY <1>4, <1>5

LEMMA Recursion ==
  ASSUME NEW n \in Nat, NEW c \in Int, NEW step \in [1 .. n -> [Int -> Int]]
  PROVE  \E g \in [0 .. n -> Int] :
            g = [i \in 0 .. n |-> IF i = 0 THEN c ELSE step[i][g[i - 1]]]
<1> DEFINE Upto(m, g) == /\ g \in [0 .. m -> Int]
                         /\ g[0] = c
                         /\ \A i \in 1 .. m : g[i] = step[i][g[i - 1]]
           Bad == {m \in 0 .. n : ~ \E g : Upto(m, g)}
<1>1. \A m \in 0 .. n : \E g : Upto(m, g)
  <2> SUFFICES ASSUME Bad # {} PROVE FALSE
    <3>. HIDE DEF Upto
    <3>. QED
      OBVIOUS
  <2>1. PICK m \in Bad : \A k \in Bad : m <= k
    <3>1. Bad \subseteq Nat
      OBVIOUS
    <3>. HIDE DEF Bad
    <3>. QED
      BY <3>1, Least
  <2>2. m # 0
    <3>1. Upto(0, [i \in 0 .. 0 |-> c])
      OBVIOUS
    <3>. HIDE DEF Upto
    <3>. QED
      BY <3>1
  <2>3. \E g : Upto(m - 1, g)
    <3>1. m - 1 \in 0 .. n /\ ~ (m <= m - 1)
      BY <2>1, <2>2
    <3>2. m - 1 \notin Bad
      <4>. HIDE DEF Bad
      <4>. QED
        BY <2>1, <3>1
    <3>. HIDE DEF Upto
    <3>. QED
      BY <3>1, <3>2
  <2>4. PICK g : Upto(m - 1, g)
    BY <2>3
  <2> DEFINE h == [i \in 0 .. m |-> IF i = m THEN step[m][g[m - 1]] ELSE g[i]]
  <2>5. m \in 1 .. n
    BY <2>1, <2>2
  <2>6. Upto(m, h)
    <3>1. h \in [0 .. m -> Int]
      BY <2>4, <2>5
    <3>2. h[0] = c
      BY <2>4, <2>5
    <3>3. ASSUME NEW i \in 1 .. m PROVE h[i] = step[i][h[i - 1]]
      <4>1. h[i - 1] = g[i - 1]
        BY <2>5
      <4>2. CASE i = m
        BY <4>1, <4>2, <2>5
      <4>3. CASE i # m
        BY <4>1, <4>3, <2>4, <2>5
      <4>. QED
        BY <4>2, <4>3
    <3>. QED
      BY <3>1, <3>2, <3>3
  <2>. HIDE DEF Upto
  <2>. QED
    BY <2>1, <2>6
<1>2. PICK g : Upto(n, g)
  <2>. HIDE DEF Upto
  <2>. QED
    BY <1>1
<1>3. g = [i \in 0 .. n |-> IF i = 0 THEN c ELSE step[i][g[i - 1]]]
  BY <1>2
<1>. QED
  BY <1>2, <1>3

-----------------------------------------------------------------------------
(* The cutting of the chunk *)

LEMMA Sizes ==
  /\ Len(BlockSize) \in Nat \ {0} /\ Classes = 1 .. Len(BlockSize)
  /\ \A i \in Classes : /\ BlockSize[i] \in Nat \ {0} /\ Ratio[i] \in Nat \ {0}
                        /\ GetRealSize(BlockSize[i]) \in Nat \ {0}
  BY SizeAssumption DEF Classes, GetRealSize

LEMMA WeightOfIs ==
  \A i \in 0 .. Len(BlockSize) :
    WeightOf[i] = IF i = 0 THEN 0 ELSE WeightOf[i - 1] + Ratio[i]
<1> DEFINE n == Len(BlockSize)
           step == [i \in 1 .. n |-> [v \in Int |-> v + Ratio[i]]]
<1>1. step \in [1 .. n -> [Int -> Int]] /\ n \in Nat /\ 0 \in Int
  BY Sizes
<1>2. PICK g \in [0 .. n -> Int] :
        g = [i \in 0 .. n |-> IF i = 0 THEN 0 ELSE step[i][g[i - 1]]]
  <2>. HIDE DEF step, n
  <2>. QED
    BY <1>1, Recursion
<1>3. g = [i \in 0 .. n |-> IF i = 0 THEN 0 ELSE g[i - 1] + Ratio[i]]
  <2>1. \A i \in 1 .. n : step[i][g[i - 1]] = g[i - 1] + Ratio[i]
    <3>1. \A i \in 1 .. n : i - 1 \in 0 .. n
      BY <1>1
    <3>2. \A i \in 1 .. n : g[i - 1] \in Int
      BY <1>2, <3>1
    <3>. QED
      BY <3>2
  <2>. HIDE DEF step
  <2>. QED
    BY <1>2, <2>1
<1>4. WeightOf = [i \in 0 .. n |-> IF i = 0 THEN 0 ELSE WeightOf[i - 1] + Ratio[i]]
  BY <1>3 DEF WeightOf
<1>. QED
  BY <1>4

LEMMA WeightIsPositive == Weight \in Nat \ {0}
<1> DEFINE n == Len(BlockSize)
           Good(i) == WeightOf[i] \in Nat /\ (i > 0 => WeightOf[i] > 0)
           Bad == {i \in 0 .. n : ~ Good(i)}
<1>1. Bad = {}
  <2> SUFFICES ASSUME Bad # {} PROVE FALSE
    OBVIOUS
  <2>1. PICK i \in Bad : \A j \in Bad : i <= j
    <3>1. Bad \subseteq Nat
      BY Sizes
    <3>. HIDE DEF Bad
    <3>. QED
      BY <3>1, Least
  <2>2. i # 0
    BY <2>1, WeightOfIs, Sizes
  <2>3. i - 1 \in 0 .. n /\ i \in Classes /\ Good(i - 1)
    <3>1. i - 1 \in 0 .. n /\ i \in Classes /\ ~ (i <= i - 1)
      BY <2>1, <2>2, Sizes
    <3>2. i - 1 \notin Bad
      <4>. HIDE DEF Bad
      <4>. QED
        BY <2>1, <3>1
    <3>. QED
      BY <3>1, <3>2
  <2>4. WeightOf[i] = WeightOf[i - 1] + Ratio[i]
    BY <2>2, <2>3, WeightOfIs, Sizes
  <2>5. Good(i)
    BY <2>3, <2>4, Sizes
  <2>. QED
    BY <2>1, <2>5
<1>. QED
  BY <1>1, Sizes DEF Weight

LEMMA BlockCountIs == \A i \in Classes : BlockCount(i) \in Nat
<1> SUFFICES ASSUME NEW i \in Classes PROVE BlockCount(i) \in Nat
  OBVIOUS
<1>1. ChunkSize * Ratio[i] \in Nat
  BY SizeAssumption, Sizes
<1>2. \A a \in Nat : \A b \in Nat \ {0} : a \div b \in Nat
  OBVIOUS
<1>. QED
  BY <1>1, <1>2, Sizes, WeightIsPositive DEF BlockCount

\* The bytes that the blocks of a size take.
Bytes(i) == BlockCount(i) * GetRealSize(BlockSize[i])

LEMMA BytesAre == \A i \in Classes : Bytes(i) \in Nat
  BY BlockCountIs, Sizes DEF Bytes

LEMMA LeftIs ==
  \A i \in 0 .. Len(BlockSize) :
    Left[i] = IF i = 0 THEN ChunkSize
              ELSE IF Bytes(i) > Left[i - 1] THEN Stopped ELSE Left[i - 1] - Bytes(i)
<1> DEFINE n == Len(BlockSize)
           step == [i \in 1 .. n |-> [v \in Int |-> IF Bytes(i) > v THEN Stopped ELSE v - Bytes(i)]]
<1>1. step \in [1 .. n -> [Int -> Int]] /\ n \in Nat /\ ChunkSize \in Int
  BY Sizes, BytesAre, SizeAssumption DEF Stopped
<1>2. PICK g \in [0 .. n -> Int] :
        g = [i \in 0 .. n |-> IF i = 0 THEN ChunkSize ELSE step[i][g[i - 1]]]
  <2>. HIDE DEF step, n
  <2>. QED
    BY <1>1, Recursion
<1>3. g = [i \in 0 .. n |-> IF i = 0 THEN ChunkSize
                            ELSE IF Bytes(i) > g[i - 1] THEN Stopped ELSE g[i - 1] - Bytes(i)]
  <2>1. \A i \in 1 .. n :
          step[i][g[i - 1]] = IF Bytes(i) > g[i - 1] THEN Stopped ELSE g[i - 1] - Bytes(i)
    <3>1. \A i \in 1 .. n : i - 1 \in 0 .. n
      BY <1>1
    <3>2. \A i \in 1 .. n : g[i - 1] \in Int
      BY <1>2, <3>1
    <3>. QED
      BY <3>2
  <2>. HIDE DEF step
  <2>. QED
    BY <1>2, <2>1
<1>4. Left = [i \in 0 .. n |-> IF i = 0 THEN ChunkSize
                               ELSE IF Bytes(i) > Left[i - 1] THEN Stopped ELSE Left[i - 1] - Bytes(i)]
  BY <1>3 DEF Left, Bytes
<1>. QED
  BY <1>4

\* What is left shrinks, and once it has run out nothing more is cut.
LEMMA LeftStep ==
  ASSUME NEW i \in Classes
  PROVE  /\ i - 1 \in 0 .. Len(BlockSize) /\ i \in 0 .. Len(BlockSize)
         /\ Left[i] # Stopped =>
              /\ Left[i] = Left[i - 1] - Bytes(i)
              /\ ~ (Bytes(i) > Left[i - 1])
  BY LeftIs, Sizes DEF Stopped

LEMMA LeftType ==
  \A i \in 0 .. Len(BlockSize) :
    Left[i] \in Int /\ (Left[i] # Stopped => Left[i] \in 0 .. ChunkSize)
<1> DEFINE Good(i) == Left[i] \in Int /\ (Left[i] # Stopped => Left[i] \in 0 .. ChunkSize)
           Bad == {i \in 0 .. Len(BlockSize) : ~ Good(i)}
<1> SUFFICES ASSUME Bad # {} PROVE FALSE
  OBVIOUS
<1>1. PICK i \in Bad : \A j \in Bad : i <= j
  <2>1. Bad \subseteq Nat
    BY Sizes
  <2>. HIDE DEF Bad
  <2>. QED
    BY <2>1, Least
<1>2. i # 0
  BY <1>1, LeftIs, Sizes, SizeAssumption
<1>3. Good(i - 1) /\ i \in Classes
  <2>1. i - 1 \in 0 .. Len(BlockSize) /\ i \in Classes /\ ~ (i <= i - 1)
    BY <1>1, <1>2, Sizes
  <2>2. i - 1 \notin Bad
    <3>. HIDE DEF Bad
    <3>. QED
      BY <1>1, <2>1
  <2>. QED
    BY <2>1, <2>2
<1>4. Left[i] = IF Bytes(i) > Left[i - 1] THEN Stopped ELSE Left[i - 1] - Bytes(i)
  BY <1>2, <1>3, LeftIs, LeftStep
<1>5. Good(i)
  BY <1>3, <1>4, BytesAre, SizeAssumption DEF Stopped
<1>. QED
  BY <1>1, <1>5

LEMMA LeftBefore ==
  ASSUME NEW i \in Classes, Left[i] # Stopped
  PROVE  Left[i - 1] # Stopped
<1>1. Left[i - 1] \in Int /\ Bytes(i) \in Nat
  BY LeftStep, LeftType, BytesAre
<1>2. ~ (Bytes(i) > Left[i - 1])
  BY LeftStep
<1>. QED
  BY <1>1, <1>2 DEF Stopped

LEMMA LeftShrinks ==
  \A i, j \in 0 .. Len(BlockSize) :
    i <= j /\ Left[j] # Stopped => Left[i] # Stopped /\ Left[j] <= Left[i]
<1> SUFFICES ASSUME NEW i \in 0 .. Len(BlockSize)
             PROVE  \A j \in 0 .. Len(BlockSize) :
                      i <= j /\ Left[j] # Stopped => Left[i] # Stopped /\ Left[j] <= Left[i]
  OBVIOUS
<1> DEFINE Good(j) == i <= j /\ Left[j] # Stopped => Left[i] # Stopped /\ Left[j] <= Left[i]
           Bad == {j \in 0 .. Len(BlockSize) : ~ Good(j)}
<1> SUFFICES ASSUME Bad # {} PROVE FALSE
  OBVIOUS
<1>1. PICK j \in Bad : \A k \in Bad : j <= k
  <2>1. Bad \subseteq Nat
    BY Sizes
  <2>. HIDE DEF Bad
  <2>. QED
    BY <2>1, Least
<1>2. i < j /\ Left[j] # Stopped
  BY <1>1, LeftType
<1>3. Good(j - 1) /\ j \in Classes
  <2>1. j - 1 \in 0 .. Len(BlockSize) /\ j \in Classes /\ ~ (j <= j - 1)
    BY <1>1, <1>2, Sizes
  <2>2. j - 1 \notin Bad
    <3>. HIDE DEF Bad
    <3>. QED
      BY <1>1, <2>1
  <2>. QED
    BY <2>1, <2>2
<1>4. Left[j - 1] # Stopped
  BY <1>2, <1>3, LeftBefore
<1>5. Left[i] # Stopped /\ Left[j - 1] <= Left[i]
  BY <1>2, <1>3, <1>4, Sizes
<1>6. Left[j] = Left[j - 1] - Bytes(j) /\ Bytes(j) \in Nat
  BY <1>2, <1>3, LeftStep, BytesAre
<1>7. Left[i] \in Int /\ Left[j] \in Int /\ Left[j - 1] \in Int
  BY <1>3, LeftType, LeftStep
<1>8. Good(j)
  BY <1>5, <1>6, <1>7
<1>. QED
  BY <1>1, <1>8

LEMMA Times ==
  ASSUME NEW m \in Nat, NEW n \in Nat, NEW k \in Nat, m <= n
  PROVE  m * k <= n * k
<1>1. (n - m) \in Nat
  OBVIOUS
<1>2. (n - m) * k \in Nat
  BY <1>1
<1>3. (n - m) * k = n * k - m * k
  OBVIOUS
<1>. QED
  BY <1>2, <1>3

\* The n-th block of a size, counted from one.
Address(i, n) == ChunkSize - Left[i - 1] + (n - 1) * GetRealSize(BlockSize[i])

LEMMA BlocksAre ==
  ASSUME NEW i \in Classes
  PROVE  /\ BlocksOf(i) \in Seq(Nat)
         /\ \A n \in DOMAIN BlocksOf(i) : BlocksOf(i)[n] = Address(i, n)
         /\ DOMAIN BlocksOf(i) # {} => Left[i] # Stopped /\ DOMAIN BlocksOf(i) = 1 .. BlockCount(i)
<1>1. CASE Left[i] = Stopped
  BY <1>1 DEF BlocksOf
<1>2. CASE Left[i] # Stopped
  <2>1. Left[i - 1] \in 0 .. ChunkSize
    BY <1>2, LeftBefore, LeftType, LeftStep
  <2>2. \A n \in 1 .. BlockCount(i) : Address(i, n) \in Nat
    <3> SUFFICES ASSUME NEW n \in 1 .. BlockCount(i) PROVE Address(i, n) \in Nat
      OBVIOUS
    <3>1. n - 1 \in Nat /\ GetRealSize(BlockSize[i]) \in Nat
      BY BlockCountIs, Sizes
    <3>2. (n - 1) * GetRealSize(BlockSize[i]) \in Nat
      BY <3>1
    <3>. QED
      BY <2>1, <3>2, SizeAssumption DEF Address
  <2>3. BlocksOf(i) = [n \in 1 .. BlockCount(i) |-> Address(i, n)]
    BY <1>2 DEF BlocksOf, Address
  <2>. HIDE DEF Address
  <2>. QED
    BY <1>2, <2>2, <2>3, BlockCountIs
<1>. QED
  BY <1>1, <1>2

LEMMA BlocksInAre ==
  ASSUME NEW i \in Classes, NEW b \in BlocksIn(i)
  PROVE  /\ b \in Nat /\ b \in Blocks /\ Left[i] # Stopped
         /\ \E n \in 1 .. BlockCount(i) : b = Address(i, n)
<1>1. PICK n \in DOMAIN BlocksOf(i) : b = BlocksOf(i)[n]
  BY DEF BlocksIn, ToSet
<1>2. b \in Blocks
  BY DEF BlocksIn, Blocks
<1>3. b = Address(i, n) /\ Left[i] # Stopped /\ n \in 1 .. BlockCount(i)
  BY <1>1, BlocksAre
<1>4. b \in Nat
  BY <1>1, BlocksAre
<1>. QED
  BY <1>2, <1>3, <1>4

\* A block lies, with its header, behind what was cut before its size and in
\* front of what remains after it.
LEMMA InItsPart ==
  ASSUME NEW i \in Classes, NEW b \in BlocksIn(i)
  PROVE  /\ ChunkSize - Left[i - 1] <= b
         /\ b + GetRealSize(BlockSize[i]) <= ChunkSize - Left[i]
<1> DEFINE real == GetRealSize(BlockSize[i])
<1>1. PICK n \in 1 .. BlockCount(i) : b = Address(i, n)
  BY BlocksInAre
<1>2. /\ real \in Nat /\ BlockCount(i) \in Nat /\ n - 1 \in Nat /\ n \in Nat
      /\ Left[i - 1] \in Int /\ Left[i] \in Int /\ Left[i] = Left[i - 1] - Bytes(i)
  BY <1>1, Sizes, BlockCountIs, BlocksInAre, LeftStep, LeftType
<1>3. b = ChunkSize - Left[i - 1] + (n - 1) * real
  BY <1>1 DEF Address
<1>4. (n - 1) * real \in Nat /\ (n - 1) * real + real = n * real
  <2>. HIDE DEF real
  <2>. QED
    BY <1>2
<1>5. n * real <= Bytes(i)
  <2>1. n * real <= BlockCount(i) * real
    <3>. HIDE DEF real
    <3>. QED
      BY <1>1, <1>2, Times
  <2>. QED
    BY <2>1 DEF Bytes
<1>6. Bytes(i) \in Nat /\ ChunkSize \in Nat
  BY BytesAre, SizeAssumption
<1>. HIDE DEF real
<1>7. ChunkSize - Left[i - 1] <= b /\ b + real <= ChunkSize - Left[i]
  BY <1>2, <1>3, <1>4, <1>5, <1>6
<1>. QED
  BY <1>7 DEF real

LEMMA RealSizeIs == \A i \in Classes : GetRealSize(BlockSize[i]) \in Nat \ {0}
  BY Sizes

\* The parts do not overlap, so a block belongs to one size.
LEMMA PartsApart ==
  ASSUME NEW i \in Classes, NEW j \in Classes, i < j, NEW b \in BlocksIn(i), NEW c \in BlocksIn(j)
  PROVE  b + GetRealSize(BlockSize[i]) <= c
<1>1. b + GetRealSize(BlockSize[i]) <= ChunkSize - Left[i]
  BY InItsPart
<1>2. ChunkSize - Left[j - 1] <= c /\ Left[j] # Stopped
  BY InItsPart, BlocksInAre
<1>3. Left[j - 1] <= Left[i]
  <2>1. Left[j - 1] # Stopped
    BY <1>2, LeftBefore
  <2>2. i <= j - 1 /\ i \in 0 .. Len(BlockSize) /\ j - 1 \in 0 .. Len(BlockSize)
    BY Sizes
  <2>. QED
    BY <2>1, <2>2, LeftShrinks
<1>4. /\ Left[j - 1] \in Int /\ Left[i] \in Int /\ ChunkSize \in Int
      /\ b \in Int /\ c \in Int /\ GetRealSize(BlockSize[i]) \in Int
  <2>1. Left[j - 1] \in Int /\ Left[i] \in Int
    BY LeftType, LeftStep
  <2>2. b \in Nat /\ c \in Nat /\ GetRealSize(BlockSize[i]) \in Nat \ {0}
    BY BlocksInAre, RealSizeIs
  <2>. QED
    BY <2>1, <2>2, SizeAssumption
<1>. QED
  BY <1>1, <1>2, <1>3, <1>4

LEMMA OneSize ==
  ASSUME NEW i \in Classes, NEW j \in Classes, NEW b \in BlocksIn(i), b \in BlocksIn(j)
  PROVE  i = j
<1>1. b \in Nat /\ GetRealSize(BlockSize[i]) \in Nat \ {0} /\ GetRealSize(BlockSize[j]) \in Nat \ {0}
  BY BlocksInAre, RealSizeIs
<1>2. ~ (i < j)
  BY <1>1, PartsApart
<1>3. ~ (j < i)
  BY <1>1, PartsApart
<1>. QED
  BY <1>2, <1>3, Sizes

\* Blocks of one size do not overlap either.
LEMMA SameSizeApart ==
  ASSUME NEW i \in Classes, NEW b \in BlocksIn(i), NEW c \in BlocksIn(i), b < c
  PROVE  b + GetRealSize(BlockSize[i]) <= c
<1> DEFINE real == GetRealSize(BlockSize[i])
<1>1. PICK m \in 1 .. BlockCount(i) : b = Address(i, m)
  BY BlocksInAre
<1>2. PICK n \in 1 .. BlockCount(i) : c = Address(i, n)
  BY BlocksInAre
<1>3. /\ real \in Nat /\ m - 1 \in Nat /\ n - 1 \in Nat /\ m \in Nat /\ n \in Nat
      /\ Left[i - 1] \in Int /\ ChunkSize \in Int
  BY <1>1, <1>2, Sizes, BlockCountIs, LeftStep, LeftType, SizeAssumption
<1>4. /\ b = ChunkSize - Left[i - 1] + (m - 1) * real
      /\ c = ChunkSize - Left[i - 1] + (n - 1) * real
  BY <1>1, <1>2 DEF Address
<1>. HIDE DEF real
<1>5. (m - 1) * real \in Int /\ (n - 1) * real \in Int /\ m * real \in Int /\ (m - 1) * real + real = m * real
  BY <1>3
<1>6. m <= n - 1
  <2> SUFFICES ASSUME n - 1 <= m - 1 PROVE FALSE
    BY <1>3
  <2>1. (n - 1) * real <= (m - 1) * real
    BY <1>3, Times
  <2>. QED
    BY <1>3, <1>4, <1>5, <2>1
<1>7. m * real <= (n - 1) * real
  BY <1>3, <1>6, Times
<1>8. b + real <= c
  BY <1>3, <1>4, <1>5, <1>7
<1>. QED
  BY <1>8 DEF real

LEMMA EachOnce ==
  ASSUME NEW i \in Classes, NEW m \in DOMAIN BlocksOf(i), NEW n \in DOMAIN BlocksOf(i),
         BlocksOf(i)[m] = BlocksOf(i)[n]
  PROVE  m = n
<1> DEFINE real == GetRealSize(BlockSize[i])
<1>1. /\ Address(i, m) = Address(i, n) /\ Left[i] # Stopped
      /\ m \in 1 .. BlockCount(i) /\ n \in 1 .. BlockCount(i)
  BY BlocksAre
<1>2. /\ real \in Nat \ {0} /\ m - 1 \in Nat /\ n - 1 \in Nat /\ m \in Nat /\ n \in Nat
      /\ Left[i - 1] \in Int /\ ChunkSize \in Int
  <2>1. Left[i - 1] \in Int /\ ChunkSize \in Int
    BY LeftStep, LeftType, SizeAssumption
  <2>2. m - 1 \in Nat /\ n - 1 \in Nat /\ m \in Nat /\ n \in Nat
    BY <1>1, BlockCountIs
  <2>3. real \in Nat \ {0}
    BY Sizes
  <2>. QED
    BY <2>1, <2>2, <2>3
<1>3. ChunkSize - Left[i - 1] + (m - 1) * real = ChunkSize - Left[i - 1] + (n - 1) * real
  BY <1>1 DEF Address
<1>. HIDE DEF real
<1>4. /\ (m - 1) * real \in Int /\ (n - 1) * real \in Int /\ m * real \in Int /\ n * real \in Int
      /\ (m - 1) * real + real = m * real /\ (n - 1) * real + real = n * real
  BY <1>2
<1>5. (m - 1) * real = (n - 1) * real
  BY <1>2, <1>3, <1>4
<1>6. ~ (m <= n - 1)
  <2> SUFFICES ASSUME m <= n - 1 PROVE FALSE
    OBVIOUS
  <2>1. m * real <= (n - 1) * real
    BY <1>2, Times
  <2>. QED
    BY <1>2, <1>4, <1>5, <2>1
<1>7. ~ (n <= m - 1)
  <2> SUFFICES ASSUME n <= m - 1 PROVE FALSE
    OBVIOUS
  <2>1. n * real <= (m - 1) * real
    BY <1>2, Times
  <2>. QED
    BY <1>2, <1>4, <1>5, <2>1
<1>. QED
  BY <1>2, <1>6, <1>7

\* A block with its header ends before the next one begins, and in the chunk.
LEMMA BlocksApart ==
  ASSUME NEW i \in Classes, NEW b \in BlocksIn(i)
  PROVE  /\ b + GetRealSize(BlockSize[i]) <= ChunkSize
         /\ \A c \in Blocks : c > b => b + GetRealSize(BlockSize[i]) <= c
<1>1. b + GetRealSize(BlockSize[i]) <= ChunkSize
  <2>1. b + GetRealSize(BlockSize[i]) <= ChunkSize - Left[i]
    BY InItsPart
  <2>2. Left[i] \in 0 .. ChunkSize
    BY BlocksInAre, LeftType, LeftStep
  <2>. QED
    BY <2>1, <2>2, BlocksInAre, RealSizeIs, SizeAssumption
<1>2. ASSUME NEW c \in Blocks, c > b PROVE b + GetRealSize(BlockSize[i]) <= c
  <2>1. PICK j \in Classes : c \in BlocksIn(j)
    BY DEF Blocks, BlocksIn
  <2>2. /\ b \in Nat /\ c \in Nat /\ i \in Int /\ j \in Int
        /\ GetRealSize(BlockSize[i]) \in Nat \ {0} /\ GetRealSize(BlockSize[j]) \in Nat \ {0}
    BY <2>1, BlocksInAre, RealSizeIs, Sizes
  <2>3. CASE i = j
    BY <1>2, <2>1, <2>2, <2>3, SameSizeApart
  <2>4. CASE i < j
    BY <2>1, <2>4, PartsApart
  <2>5. CASE j < i
    <3>1. c + GetRealSize(BlockSize[j]) <= b
      BY <2>1, <2>5, PartsApart
    <3>. QED
      BY <1>2, <2>2, <3>1
  <2>. QED
    BY <2>2, <2>3, <2>4, <2>5
<1>. QED
  BY <1>1, <1>2

LEMMA AllocSizeIs ==
  ASSUME NEW i \in Classes, NEW b \in BlocksIn(i)
  PROVE  AllocSize(b) = BlockSize[i]
<1> DEFINE k == CHOOSE k \in Classes : b \in BlocksIn(k)
<1>1. k \in Classes /\ b \in BlocksIn(k)
  OBVIOUS
<1>2. AllocSize(b) = BlockSize[k]
  BY DEF AllocSize, BlocksIn
<1>. HIDE DEF k
<1>3. k = i
  BY <1>1, OneSize
<1>. QED
  BY <1>2, <1>3

\* SizeToIndex finds the least size that is enough.
LEMMA IndexIs ==
  ASSUME NEW size \in Nat, size <= MaxBlockSize
  PROVE  SizeToIndex(size) \in Classes /\ size <= BlockSize[SizeToIndex(size)]
<1> DEFINE Enough == {i \in Classes : size <= BlockSize[i]}
<1>1. Len(BlockSize) \in Enough
  BY Sizes DEF MaxBlockSize
<1>2. PICK i \in Enough : \A j \in Enough : i <= j
  <2>1. Enough \subseteq Nat
    BY Sizes
  <2>. HIDE DEF Enough
  <2>. QED
    BY <1>1, <2>1, Least
<1>3. \A j \in 1 .. i - 1 : size > BlockSize[j]
  BY <1>2, Sizes
<1>. QED
  BY <1>2, <1>3 DEF SizeToIndex

LEMMA IndexOfSize ==
  ASSUME NEW i \in Classes
  PROVE  SizeToIndex(BlockSize[i]) = i
<1>1. \A j \in 1 .. i - 1 : BlockSize[i] > BlockSize[j]
  BY SizeAssumption, Sizes
<1>2. ASSUME NEW k \in Classes, BlockSize[i] <= BlockSize[k],
             \A j \in 1 .. k - 1 : BlockSize[i] > BlockSize[j]
      PROVE  k = i
  <2>1. ~ (k < i)
    BY <1>2, SizeAssumption, Sizes
  <2>2. ~ (i < k)
    BY <1>2, Sizes
  <2>. QED
    BY <2>1, <2>2, Sizes
<1>3. BlockSize[i] <= BlockSize[i]
  BY Sizes
<1>. QED
  BY <1>1, <1>2, <1>3 DEF SizeToIndex

-----------------------------------------------------------------------------
(* Types *)

LEMMA BlocksAreAddresses == Blocks \subseteq Nat /\ None \notin Blocks
<1>1. Blocks \subseteq Nat
  BY BlocksInAre DEF Blocks, BlocksIn
<1>. QED
  BY <1>1, NoneAssumption

LEMMA ThreadIs ==
  ASSUME TypeOK, NEW t \in Threads
  PROVE  /\ thread[t].at = "idle" => thread[t] = Idle
         /\ thread[t].at \in {"test", "use", "remain", "take"} => thread[t] \in Allocating
         /\ thread[t].at \in {"unuse", "unremain", "back"} => thread[t] \in Returning
         /\ thread[t].at \in {"idle", "test", "use", "remain", "take", "unuse", "unremain", "back"}
         /\ thread[t].ref \in Refs \cup {None} /\ thread[t].block \in Blocks \cup {None}
  BY DEF TypeOK, Allocating, Returning, Idle

LEMMA MemoryIs ==
  ASSUME TypeOK, NEW r \in Refs
  PROVE  /\ memory[r].type \in {"none", "pool", "malloc", "virtual"}
         /\ memory[r].type = "pool" => memory[r].block \in Blocks
         /\ memory[r].type # "pool" => memory[r].block = None
         /\ memory[r].asked \in Nat
  BY DEF TypeOK, Memories, Null

LEMMA AllocatingAt ==
  ASSUME NEW x \in Allocating, NEW at \in {"test", "use", "remain", "take"}
  PROVE  [x EXCEPT !.at = at] \in Allocating
  BY DEF Allocating

LEMMA ReturningAt ==
  ASSUME NEW x \in Returning, NEW at \in {"unuse", "unremain", "back"}
  PROVE  [x EXCEPT !.at = at] \in Returning
  BY DEF Returning

\* A thread that only goes on keeps what it has.
LEMMA GotoKeeps ==
  ASSUME TypeOK, NEW t \in Threads, NEW at, Goto(t, at),
         \/ thread[t] \in Allocating /\ at \in {"test", "use", "remain", "take"}
         \/ thread[t] \in Returning /\ at \in {"unuse", "unremain", "back"}
  PROVE  /\ thread' \in [Threads -> {Idle} \cup Allocating \cup Returning]
         /\ thread'[t].at = at
         /\ \A u \in Threads : u # t => thread'[u] = thread[u]
         /\ \A u \in Threads : /\ thread'[u].class = thread[u].class
                               /\ thread'[u].ref = thread[u].ref
                               /\ thread'[u].asked = thread[u].asked
                               /\ thread'[u].block = thread[u].block
<1>1. thread' = [thread EXCEPT ![t] = [@ EXCEPT !.at = at]]
  BY DEF Goto
<1>2. [thread[t] EXCEPT !.at = at] \in Allocating \cup Returning
  BY AllocatingAt, ReturningAt
<1>3. thread[t] \in Allocating \cup Returning
  OBVIOUS
<1>4. /\ [thread[t] EXCEPT !.at = at].at = at
      /\ [thread[t] EXCEPT !.at = at].class = thread[t].class
      /\ [thread[t] EXCEPT !.at = at].ref = thread[t].ref
      /\ [thread[t] EXCEPT !.at = at].asked = thread[t].asked
      /\ [thread[t] EXCEPT !.at = at].block = thread[t].block
  BY <1>3 DEF Allocating, Returning
<1>. QED
  BY <1>1, <1>2, <1>4 DEF TypeOK

LEMMA AddType ==
  ASSUME NEW count \in [Classes -> 0 .. CountMod - 1], NEW i \in Classes, NEW n \in Nat
  PROVE  /\ Add(count, i, n) \in [Classes -> 0 .. CountMod - 1]
         /\ Add(count, i, n)[i] = Mod(count[i] + n)
         /\ \A j \in Classes : j # i => Add(count, i, n)[j] = count[j]
<1>1. (count[i] + n) % CountMod \in 0 .. CountMod - 1
  BY CountAssumption
<1>. QED
  BY <1>1 DEF Add, Mod

\* Pop and Push.
LEMMA LastFront ==
  ASSUME NEW S, NEW s \in Seq(S), s # <<>>
  PROVE  /\ Last(s) \in S /\ Front(s) \in Seq(S)
         /\ Len(s) \in Nat \ {0} /\ Last(s) = s[Len(s)]
         /\ DOMAIN s = 1 .. Len(s)
         /\ Len(Front(s)) = Len(s) - 1 /\ DOMAIN Front(s) = 1 .. Len(s) - 1
         /\ \A n \in 1 .. Len(s) - 1 : Front(s)[n] = s[n]
<1>1. Len(s) \in Nat \ {0} /\ DOMAIN s = 1 .. Len(s)
  BY EmptySeq
<1>. QED
  BY <1>1 DEF Last, Front

-----------------------------------------------------------------------------
(* How many *)

LEMMA ModType == \A n \in Int : Mod(n) \in Int /\ Mod(n) \in 0 .. CountMod - 1
  BY CountAssumption DEF Mod

LEMMA ModShift ==
  ASSUME NEW a \in Int, NEW q \in Int
  PROVE  Mod(a + CountMod * q) = Mod(a)
<1> DEFINE k == a \div CountMod
           r == a % CountMod
<1>1. k \in Int /\ r \in 0 .. CountMod - 1 /\ a = CountMod * k + r
  BY CountAssumption
<1>2. ASSUME NEW b \in Int, NEW p \in Int, NEW s \in 0 .. CountMod - 1, b = CountMod * p + s
      PROVE  b % CountMod = s
  BY <1>2, CountAssumption
<1>. HIDE DEF k, r
<1>3. a + CountMod * q = CountMod * (k + q) + r /\ k + q \in Int /\ a + CountMod * q \in Int
  BY <1>1, CountAssumption
<1>4. (a + CountMod * q) % CountMod = r
  BY <1>1, <1>2, <1>3
<1>. QED
  BY <1>4 DEF r, Mod

LEMMA ModWraps ==
  ASSUME NEW a \in Int
  PROVE  Mod(a + CountMod) = Mod(a)
<1>1. CountMod * 1 = CountMod
  BY CountAssumption
<1>. QED
  BY <1>1, ModShift

LEMMA ModQuotient == ASSUME NEW b \in Int PROVE \E k \in Int : Mod(b) = b + CountMod * k
<1> DEFINE q == b \div CountMod
           r == b % CountMod
<1>1. q \in Int /\ r \in 0 .. CountMod - 1 /\ b = CountMod * q + r
  BY CountAssumption
<1>. HIDE DEF q, r
<1>2. r = b + CountMod * (- q) /\ - q \in Int
  BY <1>1, CountAssumption
<1>3. Mod(b) = r
  BY DEF Mod, r
<1>. QED
  BY <1>2, <1>3

LEMMA ModPlus ==
  ASSUME NEW a \in Int, NEW b \in Int
  PROVE  Mod(a + Mod(b)) = Mod(a + b)
<1>1. PICK k \in Int : Mod(b) = b + CountMod * k
  BY ModQuotient
<1>2. a + Mod(b) = (a + b) + CountMod * k
  BY <1>1, CountAssumption
<1>. QED
  BY <1>2, ModShift

LEMMA ModMinus ==
  ASSUME NEW a \in Int, NEW b \in Int
  PROVE  Mod(a - Mod(b)) = Mod(a - b)
<1>1. PICK k \in Int : Mod(b) = b + CountMod * k
  BY ModQuotient
<1>2. a - Mod(b) = (a - b) + CountMod * (- k) /\ - k \in Int
  BY <1>1, CountAssumption
<1>. QED
  BY <1>2, ModShift

\* Counting what has been counted: one more, one less.
LEMMA ModNext ==
  ASSUME NEW a \in Int
  PROVE  /\ Mod(Mod(a) + 1) = Mod(a + 1)
         /\ Mod(Mod(a) + (CountMod - 1)) = Mod(a - 1)
<1>1. ASSUME NEW b \in Int PROVE Mod(Mod(a) + b) = Mod(a + b)
  <2>1. Mod(a) + b = b + Mod(a) /\ a + b = b + a
    BY ModType
  <2>. QED
    BY <2>1, ModPlus
<1>2. CountMod - 1 \in Int /\ a + (CountMod - 1) = (a - 1) + CountMod /\ a - 1 \in Int
  BY CountAssumption
<1>. QED
  BY <1>1, <1>2, ModWraps

LEMMA PoppingType ==
  ASSUME NEW i, NEW places
  PROVE  IsFiniteSet(Popping(i, places)) /\ Cardinality(Popping(i, places)) \in Nat
  BY FiniteAssumption, FS_Subset, FS_CardinalityType DEF Popping

LEMMA LentType ==
  ASSUME NEW i
  PROVE  IsFiniteSet(Lent(i)) /\ Cardinality(Lent(i)) \in Nat
  BY FiniteAssumption, FS_Subset, FS_CardinalityType DEF Lent

One(b) == IF b THEN 1 ELSE 0

\* One thread goes on.
In(x, i, places) == x.class = i /\ x.at \in places

LEMMA PoppingStep ==
  ASSUME NEW t \in Threads, \A u \in Threads : u # t => thread'[u] = thread[u],
         NEW i, NEW places
  PROVE  Cardinality(Popping(i, places)') = Cardinality(Popping(i, places))
           + One(In(thread'[t], i, places)) - One(In(thread[t], i, places))
<1> DEFINE is == In(thread[t], i, places)
           will == In(thread'[t], i, places)
<1> USE DEF One
<1>1. CASE is = will
  <2>1. Popping(i, places)' = Popping(i, places)
    BY <1>1 DEF Popping, In
  <2>. QED
    BY <1>1, <2>1, PoppingType
<1>2. CASE is /\ ~ will
  <2>1. Popping(i, places)' = Popping(i, places) \ {t} /\ t \in Popping(i, places)
    BY <1>2 DEF Popping, In
  <2>2. Cardinality(Popping(i, places) \ {t}) = Cardinality(Popping(i, places)) - 1
    BY <2>1, PoppingType, FS_RemoveElement
  <2>. QED
    BY <1>2, <2>1, <2>2, PoppingType
<1>3. CASE ~ is /\ will
  <2>1. Popping(i, places)' = Popping(i, places) \cup {t} /\ t \notin Popping(i, places)
    BY <1>3 DEF Popping, In
  <2>2. Cardinality(Popping(i, places) \cup {t}) = Cardinality(Popping(i, places)) + 1
    BY <2>1, PoppingType, FS_AddElement
  <2>. QED
    BY <1>3, <2>1, <2>2, PoppingType
<1>4. is \in BOOLEAN /\ will \in BOOLEAN
  BY DEF In
<1>. HIDE DEF is, will
<1>. QED
  BY <1>1, <1>2, <1>3, <1>4

\* One pointer changes.
LentIn(m, i) == m.type = "pool" /\ m.block \in BlocksIn(i)

LEMMA LentStep ==
  ASSUME NEW r \in Refs, \A q \in Refs : q # r => memory'[q] = memory[q], NEW i
  PROVE  Cardinality(Lent(i)') = Cardinality(Lent(i))
           + (One(LentIn(memory'[r], i)) - One(LentIn(memory[r], i)))
<1> DEFINE is == LentIn(memory[r], i)
           will == LentIn(memory'[r], i)
<1> USE DEF One
<1>1. CASE is = will
  <2>1. Lent(i)' = Lent(i)
    BY <1>1 DEF Lent, LentIn, BlocksIn
  <2>. QED
    BY <1>1, <2>1, LentType
<1>2. CASE is /\ ~ will
  <2>1. Lent(i)' = Lent(i) \ {r} /\ r \in Lent(i)
    BY <1>2 DEF Lent, LentIn, BlocksIn
  <2>2. Cardinality(Lent(i) \ {r}) = Cardinality(Lent(i)) - 1
    BY <2>1, LentType, FS_RemoveElement
  <2>. QED
    BY <1>2, <2>1, <2>2, LentType
<1>3. CASE ~ is /\ will
  <2>1. Lent(i)' = Lent(i) \cup {r} /\ r \notin Lent(i)
    BY <1>3 DEF Lent, LentIn, BlocksIn
  <2>2. Cardinality(Lent(i) \cup {r}) = Cardinality(Lent(i)) + 1
    BY <2>1, LentType, FS_AddElement
  <2>. QED
    BY <1>3, <2>1, <2>2, LentType
<1>4. is \in BOOLEAN /\ will \in BOOLEAN
  BY DEF LentIn
<1>. HIDE DEF is, will
<1>. QED
  BY <1>1, <1>2, <1>3, <1>4

LEMMA CountTypes ==
  ASSUME TypeOK, NEW i \in Classes
  PROVE  Used(i) \in Nat /\ Remaining(i) \in Int /\ Len(pool[i]) \in Nat
         /\ missed[i] \in Nat /\ useCount[i] \in Nat /\ remainCount[i] \in Nat
<1>1. pool[i] \in Seq(Blocks)
  BY DEF TypeOK
<1>2. Len(pool[i]) \in Nat
  BY <1>1
<1>3. missed[i] \in Nat /\ useCount[i] \in Nat /\ remainCount[i] \in Nat
  BY CountAssumption DEF TypeOK
<1>. QED
  <2>1. Used(i) \in Nat
    BY PoppingType, LentType DEF Used
  <2>2. Remaining(i) \in Int
    BY <1>2, PoppingType DEF Remaining
  <2>. QED
    BY <1>2, <1>3, <2>1, <2>2

LEMMA CountersAre ==
  ASSUME TypeOK
  PROVE  CountersAgree <=> CountInv
<1> SUFFICES ASSUME NEW i \in Classes
             PROVE  /\ useCount[i] = (Cardinality(Lent(i)) + missed[i]
                         + Cardinality(Popping(i, {"remain", "take", "unuse"}))) % CountMod <=> UseIs(i)
                    /\ remainCount[i] = (Len(pool[i]) - missed[i] - Cardinality(Popping(i, {"take"}))
                         + Cardinality(Popping(i, {"back"}))) % CountMod <=> RemainIs(i)
  BY DEF CountersAgree, CountInv
<1>1. Cardinality(Lent(i)) + missed[i] + Cardinality(Popping(i, {"remain", "take", "unuse"}))
        = Used(i) + missed[i]
  BY CountTypes, PoppingType, LentType DEF Used
<1>2. Len(pool[i]) - missed[i] - Cardinality(Popping(i, {"take"})) + Cardinality(Popping(i, {"back"}))
        = Remaining(i) - missed[i]
  BY CountTypes, PoppingType DEF Remaining
<1>. QED
  BY <1>1, <1>2 DEF UseIs, RemainIs, Mod

\* A step that counts what it does keeps the agreement.
LEMMA CountsKept ==
  ASSUME TypeOK, TypeOK', NEW i \in Classes, UseIs(i), RemainIs(i), missed'[i] = missed[i],
         \/ useCount'[i] = useCount[i] /\ Used(i)' = Used(i)
         \/ useCount'[i] = Mod(useCount[i] + 1) /\ Used(i)' = Used(i) + 1
         \/ useCount'[i] = Mod(useCount[i] + (CountMod - 1)) /\ Used(i)' = Used(i) - 1,
         \/ remainCount'[i] = remainCount[i] /\ Remaining(i)' = Remaining(i)
         \/ remainCount'[i] = Mod(remainCount[i] + 1) /\ Remaining(i)' = Remaining(i) + 1
         \/ /\ remainCount'[i] = Mod(remainCount[i] + (CountMod - 1))
            /\ Remaining(i)' = Remaining(i) - 1
  PROVE  UseIs(i)' /\ RemainIs(i)'
<1> DEFINE u == Used(i) + missed[i]
           k == Remaining(i) - missed[i]
<1>1. /\ Used(i) \in Int /\ Remaining(i) \in Int /\ missed[i] \in Int
      /\ u \in Int /\ k \in Int
  BY CountTypes
<1>2. /\ Used(i)' = Used(i) => Used(i)' + missed'[i] = u
      /\ Used(i)' = Used(i) + 1 => Used(i)' + missed'[i] = u + 1
      /\ Used(i)' = Used(i) - 1 => Used(i)' + missed'[i] = u - 1
      /\ Remaining(i)' = Remaining(i) => Remaining(i)' - missed'[i] = k
      /\ Remaining(i)' = Remaining(i) + 1 => Remaining(i)' - missed'[i] = k + 1
      /\ Remaining(i)' = Remaining(i) - 1 => Remaining(i)' - missed'[i] = k - 1
  BY <1>1
<1>3. useCount[i] = Mod(u) /\ remainCount[i] = Mod(k)
  BY DEF UseIs, RemainIs
<1>. HIDE DEF u, k
<1>4. useCount'[i] = Mod(Used(i)' + missed'[i])
  BY <1>1, <1>2, <1>3, ModNext
<1>5. remainCount'[i] = Mod(Remaining(i)' - missed'[i])
  BY <1>1, <1>2, <1>3, ModNext
<1>. QED
  BY <1>4, <1>5 DEF UseIs, RemainIs

\* A pop that came too late is noted instead.
LEMMA CountsMissed ==
  ASSUME TypeOK, TypeOK', NEW i \in Classes, UseIs(i), RemainIs(i),
         missed'[i] = Mod(missed[i] + 1),
         useCount'[i] = useCount[i], remainCount'[i] = remainCount[i],
         Used(i)' = Used(i) - 1, Remaining(i)' = Remaining(i) + 1
  PROVE  UseIs(i)' /\ RemainIs(i)'
<1> DEFINE m == missed[i] + 1
<1>1. /\ Used(i)' \in Int /\ Remaining(i)' \in Int /\ m \in Int
      /\ Used(i)' + m = Used(i) + missed[i] /\ Remaining(i)' - m = Remaining(i) - missed[i]
  <2>1. Used(i) \in Int /\ Remaining(i) \in Int /\ missed[i] \in Int
    BY CountTypes
  <2>. QED
    BY <2>1
<1>2. /\ useCount'[i] = Mod(Used(i)' + m) /\ remainCount'[i] = Mod(Remaining(i)' - m)
      /\ missed'[i] = Mod(m)
  BY <1>1 DEF UseIs, RemainIs
<1>. HIDE DEF m
<1>3. useCount'[i] = Mod(Used(i)' + missed'[i]) /\ remainCount'[i] = Mod(Remaining(i)' - missed'[i])
  <2>1. Mod(Used(i)' + Mod(m)) = Mod(Used(i)' + m)
    BY <1>1, ModPlus
  <2>2. Mod(Remaining(i)' - Mod(m)) = Mod(Remaining(i)' - m)
    BY <1>1, ModMinus
  <2>. QED
    BY <1>2, <2>1, <2>2
<1>. QED
  BY <1>3 DEF UseIs, RemainIs

\* How the step of one thread changes what is counted.
LEMMA Changes ==
  ASSUME TypeOK, TypeOK', NEW t \in Threads, \A u \in Threads : u # t => thread'[u] = thread[u],
         NEW i \in Classes, NEW l \in Int, Cardinality(Lent(i)') = Cardinality(Lent(i)) + l
  PROVE  /\ Used(i)' = Used(i) + l + One(In(thread'[t], i, {"remain", "take", "unuse"}))
                                   - One(In(thread[t], i, {"remain", "take", "unuse"}))
         /\ Remaining(i)' = Remaining(i) + (Len(pool'[i]) - Len(pool[i]))
              + One(In(thread[t], i, {"take"})) - One(In(thread'[t], i, {"take"}))
              + One(In(thread'[t], i, {"back"})) - One(In(thread[t], i, {"back"}))
<1>1. pool[i] \in Seq(Blocks) /\ pool'[i] \in Seq(Blocks)
  BY DEF TypeOK
<1>2. Len(pool[i]) \in Int /\ Len(pool'[i]) \in Int
  BY <1>1
<1>3. \A b \in BOOLEAN : One(b) \in Int
  BY DEF One
<1>4. \A x, places : In(x, i, places) \in BOOLEAN
  BY DEF In
<1>5. Used(i)' = Used(i) + l + One(In(thread'[t], i, {"remain", "take", "unuse"}))
                                   - One(In(thread[t], i, {"remain", "take", "unuse"}))
  <2>1. Cardinality(Popping(i, {"remain", "take", "unuse"})')
          = Cardinality(Popping(i, {"remain", "take", "unuse"}))
            + One(In(thread'[t], i, {"remain", "take", "unuse"}))
            - One(In(thread[t], i, {"remain", "take", "unuse"}))
    BY PoppingStep
  <2>. QED
    BY <1>3, <1>4, <2>1, PoppingType, LentType DEF Used
<1>6. Remaining(i)' = Remaining(i) + (Len(pool'[i]) - Len(pool[i]))
              + One(In(thread[t], i, {"take"})) - One(In(thread'[t], i, {"take"}))
              + One(In(thread'[t], i, {"back"})) - One(In(thread[t], i, {"back"}))
  <2>1. /\ Cardinality(Popping(i, {"take"})') = Cardinality(Popping(i, {"take"}))
            + One(In(thread'[t], i, {"take"})) - One(In(thread[t], i, {"take"}))
        /\ Cardinality(Popping(i, {"back"})') = Cardinality(Popping(i, {"back"}))
            + One(In(thread'[t], i, {"back"})) - One(In(thread[t], i, {"back"}))
    BY PoppingStep
  <2> DEFINE p == Cardinality(Popping(i, {"take"}))
             q == Cardinality(Popping(i, {"back"}))
             w == One(In(thread'[t], i, {"take"}))
             x == One(In(thread[t], i, {"take"}))
             y == One(In(thread'[t], i, {"back"}))
             z == One(In(thread[t], i, {"back"}))
             m == Len(pool[i])
             n == Len(pool'[i])
  <2>2. /\ p \in Int /\ q \in Int /\ w \in Int /\ x \in Int /\ y \in Int /\ z \in Int
        /\ m \in Int /\ n \in Int
    BY <1>2, <1>3, <1>4, PoppingType
  <2>3. Remaining(i) = m - p + q /\ Remaining(i)' = n - (p + w - x) + (q + y - z)
    BY <2>1 DEF Remaining
  <2>. HIDE DEF p, q, w, x, y, z, m, n
  <2>4. n - (p + w - x) + (q + y - z) = (m - p + q) + (n - m) + x - w + y - z
    BY <2>2
  <2>5. Remaining(i)' = Remaining(i) + (n - m) + x - w + y - z
    BY <2>3, <2>4
  <2>. QED
    BY <2>5 DEF m, n, w, x, y, z
<1>. QED
  BY <1>5, <1>6

-----------------------------------------------------------------------------
(* The steps *)

LEMMA Kinds ==
  /\ \A x \in Allocating : /\ x \notin Returning /\ x # Idle
                           /\ x.at \in {"test", "use", "remain", "take"}
                           /\ x.class \in Classes /\ x.ref \in Refs /\ x.asked \in Nat /\ x.block = None
  /\ \A x \in Returning : /\ x # Idle /\ x.at \in {"unuse", "unremain", "back"}
                          /\ x.class \in Classes /\ x.ref = None /\ x.block \in Blocks
  /\ Idle.at = "idle" /\ Idle.class = 0 /\ Idle.ref = None /\ Idle.asked = 0 /\ Idle.block = None
  /\ 0 \notin Classes
  BY Sizes DEF Allocating, Returning, Idle

\* As long as no block moves, each is where it was.
LEMMA PlacesKept ==
  ASSUME StackInv, PlaceInv, pool' = pool,
         \A r \in Refs : memory'[r].block = memory[r].block,
         \A t \in Threads : thread'[t].block = thread[t].block
  PROVE  StackInv' /\ PlaceInv'
<1>1. \A i, b : Stacked(i, b)' = Stacked(i, b)
  BY DEF Stacked
<1>2. \A b : Behind(b)' = Behind(b) /\ Returned(b)' = Returned(b)
  BY DEF Behind, Returned
<1>3. StackInv'
  BY DEF StackInv
<1>4. PlaceInv'
  BY <1>1, <1>2 DEF PlaceInv
<1>. QED
  BY <1>3, <1>4

\* Attach: what is behind r now, and its thread is free.
LEMMA AttachIs ==
  ASSUME TypeOK, NEW t \in Threads, NEW r \in Refs, NEW type, NEW asked, NEW b,
         Attach(t, r, type, asked, b),
         [type |-> type, asked |-> asked, block |-> b] \in Memories
  PROVE  /\ memory' \in [Refs -> Memories]
         /\ memory'[r] = [type |-> type, asked |-> asked, block |-> b]
         /\ \A q \in Refs : q # r => memory'[q] = memory[q]
         /\ thread' \in [Threads -> {Idle} \cup Allocating \cup Returning]
         /\ thread'[t] = Idle
         /\ \A u \in Threads : u # t => thread'[u] = thread[u]
  BY DEF Attach, TypeOK

\* If no counter, list or block changes, and no thread counts.
LEMMA CountInvKept ==
  ASSUME TypeOK, TypeOK', CountInv, NEW t \in Threads, \A u \in Threads : u # t => thread'[u] = thread[u],
         \A i \in Classes : Cardinality(Lent(i)') = Cardinality(Lent(i)),
         UNCHANGED <<pool, useCount, remainCount, missed>>,
         thread[t].at \in {"idle", "test", "use"}, thread'[t].at \in {"idle", "test", "use"}
  PROVE  CountInv'
<1> SUFFICES ASSUME NEW i \in Classes PROVE UseIs(i)' /\ RemainIs(i)'
  BY DEF CountInv
<1>1. /\ ~ In(thread'[t], i, {"remain", "take", "unuse"}) /\ ~ In(thread[t], i, {"remain", "take", "unuse"})
      /\ ~ In(thread'[t], i, {"take"}) /\ ~ In(thread[t], i, {"take"})
      /\ ~ In(thread'[t], i, {"back"}) /\ ~ In(thread[t], i, {"back"})
  BY DEF In
<1>2. Cardinality(Lent(i)') = Cardinality(Lent(i)) + 0
  BY LentType
<1>3. Used(i)' = Used(i) + 0 + 0 - 0 /\ Remaining(i)' = Remaining(i) + (Len(pool'[i]) - Len(pool[i])) + 0 - 0 + 0 - 0
  BY <1>1, <1>2, Changes DEF One
<1>4. Used(i)' = Used(i) /\ Remaining(i)' = Remaining(i)
  BY <1>3, CountTypes
<1>. QED
  BY <1>4, CountsKept DEF CountInv

LEMMA AllocateStep ==
  ASSUME IInv, NEW t \in Threads, NEW r \in Refs, NEW size \in Requests, Allocate(t, r, size)
  PROVE  IInv'
<1> USE DEF IInv
<1>1. thread[t] = Idle /\ memory[r] = Null /\ UNCHANGED <<pool, useCount, remainCount, missed>>
      /\ size \in Nat
  BY SizeAssumption DEF Allocate
<1>2. CASE size > MaxBlockSize /\ Attach(t, r, "virtual", size, None)
  <2>1. [type |-> "virtual", asked |-> size, block |-> None] \in Memories
    BY <1>1 DEF Memories
  <2>2. /\ memory' \in [Refs -> Memories]
        /\ memory'[r] = [type |-> "virtual", asked |-> size, block |-> None]
        /\ \A q \in Refs : q # r => memory'[q] = memory[q]
        /\ thread' \in [Threads -> {Idle} \cup Allocating \cup Returning]
        /\ thread'[t] = Idle
        /\ \A u \in Threads : u # t => thread'[u] = thread[u]
    BY <1>2, <2>1, AttachIs
  <2>3. \A u \in Threads : thread'[u] = thread[u]
    BY <1>1, <2>2
  <2>4. TypeOK'
    BY <1>1, <2>2 DEF TypeOK
  <2>5. StackInv' /\ PlaceInv'
    BY <1>1, <2>2, <2>3, PlacesKept DEF Null
  <2>6. PointerInv'
    BY <1>2, <2>2, <2>3 DEF PointerInv, Allocate, Attach
  <2>7. ClassInv'
    BY <2>2, <2>3 DEF ClassInv
  <2>8. \A i \in Classes : Lent(i)' = Lent(i)
    BY <1>1, <2>2 DEF Lent, Null
  <2>9. CountInv'
    BY <1>1, <2>2, <2>4, <2>8, CountInvKept, Kinds
  <2>. QED
    BY <2>4, <2>5, <2>6, <2>7, <2>9
<1>3. CASE /\ size <= MaxBlockSize
           /\ thread' = [thread EXCEPT ![t] =
                [at |-> "test", class |-> SizeToIndex(size), ref |-> r, asked |-> size, block |-> None]]
           /\ UNCHANGED memory
  <2> DEFINE x == [at |-> "test", class |-> SizeToIndex(size), ref |-> r, asked |-> size, block |-> None]
  <2>1. SizeToIndex(size) \in Classes /\ size <= BlockSize[SizeToIndex(size)]
    BY <1>1, <1>3, IndexIs
  <2>2. /\ x \in Allocating /\ x.at = "test" /\ x.ref = r /\ x.block = None
        /\ x.asked <= BlockSize[x.class]
    BY <1>1, <2>1 DEF Allocating
  <2>3. thread' = [thread EXCEPT ![t] = x]
    BY <1>3
  <2>. HIDE DEF x
  <2>4. thread'[t] = x /\ \A u \in Threads : u # t => thread'[u] = thread[u]
    BY <2>3 DEF TypeOK
  <2>5. TypeOK'
    BY <1>1, <1>3, <2>2, <2>3 DEF TypeOK
  <2>6. StackInv' /\ PlaceInv'
    <3>1. \A u \in Threads : thread'[u].block = thread[u].block
      BY <1>1, <2>2, <2>4, Kinds
    <3>. QED
      BY <1>1, <1>3, <3>1, PlacesKept
  <2>7. PointerInv'
    <3>1. \A u \in Threads : thread[u].ref # r
      BY DEF Allocate
    <3>. QED
      BY <1>1, <1>3, <2>2, <2>4, <3>1 DEF PointerInv
  <2>8. ClassInv'
    BY <1>3, <2>2, <2>4, Kinds DEF ClassInv
  <2>9. \A i \in Classes : Lent(i)' = Lent(i)
    BY <1>3 DEF Lent
  <2>10. CountInv'
    BY <1>1, <2>2, <2>4, <2>5, <2>9, CountInvKept, Kinds
  <2>. QED
    BY <2>5, <2>6, <2>7, <2>8, <2>10
<1>. QED
  BY <1>2, <1>3 DEF Allocate

\* malloc helps out: no block moves.
LEMMA MallocKeeps ==
  ASSUME IInv, NEW t \in Threads, thread[t] \in Allocating, Malloc(t), pool' = pool
  PROVE  /\ memory' \in [Refs -> Memories]
         /\ thread' \in [Threads -> {Idle} \cup Allocating \cup Returning]
         /\ thread'[t] = Idle /\ \A u \in Threads : u # t => thread'[u] = thread[u]
         /\ StackInv' /\ PlaceInv' /\ PointerInv' /\ ClassInv'
         /\ \A i \in Classes : Lent(i)' = Lent(i)
<1> USE DEF IInv
<1> DEFINE r == thread[t].ref
           m == [type |-> "malloc", asked |-> thread[t].asked, block |-> None]
<1>1. r \in Refs /\ r # None /\ m \in Memories
  BY Kinds, NoneAssumption DEF Memories
<1>2. memory[r] = Null
  BY <1>1 DEF PointerInv
<1>3. Attach(t, r, "malloc", thread[t].asked, None)
  BY DEF Malloc
<1>4. /\ memory' \in [Refs -> Memories]
      /\ memory'[r] = m
      /\ \A q \in Refs : q # r => memory'[q] = memory[q]
      /\ thread' \in [Threads -> {Idle} \cup Allocating \cup Returning]
      /\ thread'[t] = Idle
      /\ \A u \in Threads : u # t => thread'[u] = thread[u]
  BY <1>1, <1>3, AttachIs
<1>5. m.type = "malloc" /\ m.block = None
  OBVIOUS
<1>. HIDE DEF m
<1>6. \A q \in Refs : memory'[q].block = memory[q].block
  BY <1>2, <1>4, <1>5 DEF Null
<1>7. \A u \in Threads : thread'[u].block = thread[u].block
  BY <1>4, Kinds
<1>8. StackInv' /\ PlaceInv'
  BY <1>6, <1>7, PlacesKept
<1>9. PointerInv'
  <2> SUFFICES ASSUME NEW u \in Threads, thread'[u].ref # None
               PROVE  /\ memory'[thread'[u].ref] = Null
                      /\ \A w \in Threads : thread'[w].ref = thread'[u].ref => w = u
    BY DEF PointerInv
  <2>1. u # t /\ thread'[u] = thread[u]
    BY <1>4, Kinds
  <2>2. thread[u].ref \in Refs /\ thread[u].ref # r
    BY <1>1, <2>1, ThreadIs DEF PointerInv
  <2>. QED
    BY <1>4, <2>1, <2>2, Kinds DEF PointerInv
<1>10. ClassInv'
  BY <1>4, <1>5, Kinds DEF ClassInv
<1>11. \A i \in Classes : Lent(i)' = Lent(i)
  BY <1>2, <1>4, <1>5 DEF Lent, Null
<1>. QED
  BY <1>4, <1>8, <1>9, <1>10, <1>11

\* A thread goes on, with what it has: no block moves.
LEMMA GotoInv ==
  ASSUME IInv, NEW t \in Threads, NEW at, Goto(t, at), UNCHANGED <<pool, memory>>,
         \/ thread[t] \in Allocating /\ at \in {"test", "use", "remain", "take"}
         \/ thread[t] \in Returning /\ at \in {"unuse", "unremain", "back"}
  PROVE  /\ thread' \in [Threads -> {Idle} \cup Allocating \cup Returning]
         /\ thread'[t].at = at /\ thread'[t].class = thread[t].class
         /\ \A u \in Threads : u # t => thread'[u] = thread[u]
         /\ StackInv' /\ PlaceInv' /\ PointerInv' /\ ClassInv'
         /\ \A i \in Classes : Cardinality(Lent(i)') = Cardinality(Lent(i)) + 0
<1> USE DEF IInv
<1>1. /\ thread' \in [Threads -> {Idle} \cup Allocating \cup Returning]
      /\ thread'[t].at = at
      /\ \A u \in Threads : u # t => thread'[u] = thread[u]
      /\ \A u \in Threads : /\ thread'[u].class = thread[u].class
                            /\ thread'[u].ref = thread[u].ref
                            /\ thread'[u].asked = thread[u].asked
                            /\ thread'[u].block = thread[u].block
  BY GotoKeeps
<1>2. StackInv' /\ PlaceInv'
  BY <1>1, PlacesKept
<1>3. PointerInv'
  BY <1>1 DEF PointerInv
<1>4. ClassInv'
  <2>1. \A u \in Threads : /\ thread'[u] \in Allocating => thread[u] \in Allocating
                           /\ thread'[u] \in Returning => thread[u] \in Returning
    BY <1>1, Kinds
  <2>. QED
    BY <1>1, <2>1 DEF ClassInv
<1>5. \A i \in Classes : Cardinality(Lent(i)') = Cardinality(Lent(i)) + 0
  <2>1. \A i \in Classes : Lent(i)' = Lent(i)
    BY DEF Lent
  <2>. QED
    BY <2>1, LentType
<1>. QED
  BY <1>1, <1>2, <1>3, <1>4, <1>5

LEMMA PopTestStep ==
  ASSUME IInv, NEW t \in Threads, PopTest(t)
  PROVE  IInv'
<1> USE DEF IInv
<1>1. /\ thread[t].at = "test" /\ thread[t] \in Allocating
      /\ UNCHANGED <<pool, useCount, remainCount, missed>>
  BY ThreadIs DEF PopTest
<1>2. CASE Malloc(t)
  <2>1. TypeOK'
    BY <1>1, <1>2, MallocKeeps DEF TypeOK
  <2>2. CountInv'
    <3>1. thread'[t].at = "idle" /\ \A u \in Threads : u # t => thread'[u] = thread[u]
      BY <1>1, <1>2, MallocKeeps, Kinds
    <3>2. \A i \in Classes : Cardinality(Lent(i)') = Cardinality(Lent(i))
      BY <1>1, <1>2, MallocKeeps
    <3>. QED
      BY <1>1, <2>1, <3>1, <3>2, CountInvKept
  <2>. QED
    BY <1>1, <1>2, <2>1, <2>2, MallocKeeps
<1>3. CASE Goto(t, "use") /\ UNCHANGED memory
  <2>1. TypeOK'
    BY <1>1, <1>3, GotoInv DEF TypeOK
  <2>2. CountInv'
    <3>1. thread'[t].at = "use" /\ \A u \in Threads : u # t => thread'[u] = thread[u]
      BY <1>1, <1>3, GotoInv
    <3>2. \A i \in Classes : Cardinality(Lent(i)') = Cardinality(Lent(i))
      BY <1>3 DEF Lent
    <3>. QED
      BY <1>1, <2>1, <3>1, <3>2, CountInvKept
  <2>. QED
    BY <1>1, <1>3, <2>1, <2>2, GotoInv
<1>. QED
  BY <1>2, <1>3 DEF PopTest

LEMMA PopUseStep ==
  ASSUME IInv, NEW t \in Threads, PopUse(t)
  PROVE  IInv'
<1> USE DEF IInv
<1> DEFINE c == thread[t].class
<1>1. /\ thread[t].at = "use" /\ thread[t] \in Allocating /\ c \in Classes
      /\ useCount' = Add(useCount, c, 1) /\ Goto(t, "remain")
      /\ UNCHANGED <<pool, remainCount, memory, missed>>
  BY ThreadIs, Kinds DEF PopUse
<1>2. /\ thread' \in [Threads -> {Idle} \cup Allocating \cup Returning]
      /\ thread'[t].at = "remain" /\ thread'[t].class = c
      /\ \A u \in Threads : u # t => thread'[u] = thread[u]
      /\ StackInv' /\ PlaceInv' /\ PointerInv' /\ ClassInv'
      /\ \A i \in Classes : Cardinality(Lent(i)') = Cardinality(Lent(i)) + 0
  BY <1>1, GotoInv
<1>3. /\ useCount' \in [Classes -> 0 .. CountMod - 1]
      /\ useCount'[c] = Mod(useCount[c] + 1)
      /\ \A i \in Classes : i # c => useCount'[i] = useCount[i]
  <2>1. 1 \in Nat /\ useCount \in [Classes -> 0 .. CountMod - 1]
    BY DEF TypeOK
  <2>. QED
    BY <1>1, <2>1, AddType
<1>4. TypeOK'
  BY <1>1, <1>2, <1>3 DEF TypeOK
<1>5. CountInv'
  <2> SUFFICES ASSUME NEW i \in Classes PROVE UseIs(i)' /\ RemainIs(i)'
    BY DEF CountInv
  <2>1. /\ In(thread'[t], i, {"remain", "take", "unuse"}) <=> i = c
        /\ ~ In(thread[t], i, {"remain", "take", "unuse"})
        /\ ~ In(thread'[t], i, {"take"}) /\ ~ In(thread[t], i, {"take"})
        /\ ~ In(thread'[t], i, {"back"}) /\ ~ In(thread[t], i, {"back"})
    BY <1>1, <1>2 DEF In
  <2>2. Used(i)' = Used(i) + (IF i = c THEN 1 ELSE 0) /\ Remaining(i)' = Remaining(i)
    BY <1>1, <1>2, <1>4, <2>1, Changes, CountTypes DEF One
  <2>. QED
    BY <1>1, <1>3, <1>4, <2>2, CountsKept, CountTypes DEF CountInv
<1>. QED
  BY <1>2, <1>4, <1>5

LEMMA PopRemainStep ==
  ASSUME IInv, NEW t \in Threads, PopRemain(t)
  PROVE  IInv'
<1> USE DEF IInv
<1> DEFINE c == thread[t].class
<1>1. /\ thread[t].at = "remain" /\ thread[t] \in Allocating /\ c \in Classes
      /\ remainCount' = Add(remainCount, c, CountMod - 1) /\ Goto(t, "take")
      /\ UNCHANGED <<pool, useCount, memory, missed>>
  BY ThreadIs, Kinds DEF PopRemain
<1>2. /\ thread' \in [Threads -> {Idle} \cup Allocating \cup Returning]
      /\ thread'[t].at = "take" /\ thread'[t].class = c
      /\ \A u \in Threads : u # t => thread'[u] = thread[u]
      /\ StackInv' /\ PlaceInv' /\ PointerInv' /\ ClassInv'
      /\ \A i \in Classes : Cardinality(Lent(i)') = Cardinality(Lent(i)) + 0
  BY <1>1, GotoInv
<1>3. /\ remainCount' \in [Classes -> 0 .. CountMod - 1]
      /\ remainCount'[c] = Mod(remainCount[c] + (CountMod - 1))
      /\ \A i \in Classes : i # c => remainCount'[i] = remainCount[i]
  <2>1. CountMod - 1 \in Nat /\ remainCount \in [Classes -> 0 .. CountMod - 1]
    BY CountAssumption DEF TypeOK
  <2>2. c \in Classes /\ remainCount' = Add(remainCount, c, CountMod - 1)
    BY <1>1
  <2>. HIDE DEF c
  <2>. QED
    BY <2>1, <2>2, AddType
<1>4. TypeOK'
  BY <1>1, <1>2, <1>3 DEF TypeOK
<1>5. CountInv'
  <2> SUFFICES ASSUME NEW i \in Classes PROVE UseIs(i)' /\ RemainIs(i)'
    BY DEF CountInv
  <2>1. /\ In(thread'[t], i, {"remain", "take", "unuse"}) <=> i = c
        /\ In(thread[t], i, {"remain", "take", "unuse"}) <=> i = c
        /\ In(thread'[t], i, {"take"}) <=> i = c
        /\ ~ In(thread[t], i, {"take"})
        /\ ~ In(thread'[t], i, {"back"}) /\ ~ In(thread[t], i, {"back"})
    BY <1>1, <1>2 DEF In
  <2>2. Used(i)' = Used(i) /\ Remaining(i)' = Remaining(i) - (IF i = c THEN 1 ELSE 0)
    BY <1>1, <1>2, <1>4, <2>1, Changes, CountTypes DEF One
  <2>. QED
    BY <1>1, <1>3, <1>4, <2>2, CountsKept, CountTypes DEF CountInv
<1>. QED
  BY <1>2, <1>4, <1>5

\* Between the two looks at the list another thread may have been faster.
LEMMA PopTakeStep ==
  ASSUME IInv, NEW t \in Threads, PopTake(t)
  PROVE  IInv'
<1> USE DEF IInv
<1>. PICK c : c = thread[t].class
  OBVIOUS
<1>. PICK r : r = thread[t].ref
  OBVIOUS
<1>1. /\ thread[t].at = "take" /\ thread[t] \in Allocating /\ c \in Classes /\ r \in Refs /\ r # None
      /\ UNCHANGED <<useCount, remainCount>>
  BY ThreadIs, Kinds, NoneAssumption DEF PopTake
<1>2. memory[r] = Null
  BY <1>1 DEF PointerInv
<1>3. CASE pool[c] = <<>> /\ Malloc(t) /\ missed' = Add(missed, c, 1) /\ UNCHANGED pool
  <2>1. /\ memory' \in [Refs -> Memories]
        /\ thread' \in [Threads -> {Idle} \cup Allocating \cup Returning]
        /\ thread'[t] = Idle /\ \A u \in Threads : u # t => thread'[u] = thread[u]
        /\ StackInv' /\ PlaceInv' /\ PointerInv' /\ ClassInv'
        /\ \A i \in Classes : Lent(i)' = Lent(i)
    BY <1>1, <1>3, MallocKeeps
  <2>2. /\ missed' \in [Classes -> 0 .. CountMod - 1]
        /\ missed'[c] = Mod(missed[c] + 1)
        /\ \A i \in Classes : i # c => missed'[i] = missed[i]
    <3>1. 1 \in Nat /\ missed \in [Classes -> 0 .. CountMod - 1]
      BY DEF TypeOK
    <3>2. /\ Add(missed, c, 1) \in [Classes -> 0 .. CountMod - 1]
          /\ Add(missed, c, 1)[c] = Mod(missed[c] + 1)
          /\ \A i \in Classes : i # c => Add(missed, c, 1)[i] = missed[i]
      BY <1>1, <3>1, AddType
    <3>. QED
      BY <1>3, <3>2
  <2>3. TypeOK'
    BY <1>1, <1>3, <2>1, <2>2 DEF TypeOK
  <2>4. CountInv'
    <3> SUFFICES ASSUME NEW i \in Classes PROVE UseIs(i)' /\ RemainIs(i)'
      BY DEF CountInv
    <3>1. /\ ~ In(thread'[t], i, {"remain", "take", "unuse"})
          /\ In(thread[t], i, {"remain", "take", "unuse"}) <=> i = c
          /\ ~ In(thread'[t], i, {"take"})
          /\ In(thread[t], i, {"take"}) <=> i = c
          /\ ~ In(thread'[t], i, {"back"}) /\ ~ In(thread[t], i, {"back"})
      BY <1>1, <2>1, Kinds DEF In
    <3>2. Cardinality(Lent(i)') = Cardinality(Lent(i)) + 0
      BY <2>1, LentType
    <3>3. /\ Used(i)' = Used(i) - (IF i = c THEN 1 ELSE 0)
          /\ Remaining(i)' = Remaining(i) + (IF i = c THEN 1 ELSE 0)
      <4> DEFINE l == IF i = c THEN 1 ELSE 0
      <4>1. l \in Int /\ Len(pool'[i]) - Len(pool[i]) = 0
        BY <1>3, CountTypes
      <4>2. /\ Used(i)' = Used(i) + 0 + 0 - l
            /\ Remaining(i)' = Remaining(i) + 0 + l - 0 + 0 - 0
        <5>1. /\ One(In(thread[t], i, {"remain", "take", "unuse"})) = l
              /\ One(In(thread'[t], i, {"remain", "take", "unuse"})) = 0
              /\ One(In(thread[t], i, {"take"})) = l /\ One(In(thread'[t], i, {"take"})) = 0
              /\ One(In(thread[t], i, {"back"})) = 0 /\ One(In(thread'[t], i, {"back"})) = 0
          BY <3>1 DEF One
        <5>2. 0 \in Int
          OBVIOUS
        <5>. HIDE DEF l
        <5>. QED
          BY <2>1, <2>3, <3>2, <4>1, <5>1, <5>2, Changes
      <4>3. Used(i)' = Used(i) - l /\ Remaining(i)' = Remaining(i) + l
        <5>. HIDE DEF l
        <5>. QED
          BY <4>1, <4>2, CountTypes
      <4>. QED
        BY <4>3
    <3>4. CASE i = c
      BY <1>1, <2>2, <2>3, <3>3, <3>4, CountsMissed DEF CountInv
    <3>5. CASE i # c
      BY <1>1, <2>2, <2>3, <3>3, <3>5, CountsKept, CountTypes DEF CountInv
    <3>. QED
      BY <3>4, <3>5
  <2>. QED
    BY <2>1, <2>3, <2>4
<1>4. CASE /\ pool[c] # <<>> /\ Pop(c) /\ UNCHANGED missed
           /\ Attach(t, r, "pool", thread[t].asked, Last(pool[c]))
  <2>. PICK b : b = Last(pool[c])
    OBVIOUS
  <2> DEFINE n == Len(pool[c])
             m == [type |-> "pool", asked |-> thread[t].asked, block |-> b]
  <2>1. /\ n \in Nat \ {0} /\ DOMAIN pool[c] = 1 .. n
        /\ b = pool[c][n] /\ b \in Blocks /\ b # None /\ b \in BlocksIn(c)
        /\ pool' = [pool EXCEPT ![c] = Front(pool[c])]
        /\ Front(pool[c]) \in Seq(Blocks) /\ Len(Front(pool[c])) = n - 1
        /\ DOMAIN Front(pool[c]) = 1 .. n - 1
        /\ \A k \in 1 .. n - 1 : Front(pool[c])[k] = pool[c][k]
    <3>1. pool[c] \in Seq(Blocks)
      BY <1>1 DEF TypeOK
    <3>2. /\ n \in Nat \ {0} /\ DOMAIN pool[c] = 1 .. n
          /\ b = pool[c][n] /\ b \in Blocks
          /\ Front(pool[c]) \in Seq(Blocks) /\ Len(Front(pool[c])) = n - 1
          /\ DOMAIN Front(pool[c]) = 1 .. n - 1
          /\ \A k \in 1 .. n - 1 : Front(pool[c])[k] = pool[c][k]
      BY <1>4, <3>1, LastFront
    <3>3. b \in BlocksIn(c)
      BY <1>1, <3>2 DEF StackInv
    <3>. QED
      BY <1>4, <3>2, <3>3, BlocksAreAddresses DEF Pop
  <2>2. m \in Memories /\ m.type = "pool" /\ m.block = b /\ m.asked = thread[t].asked
    BY <1>1, <2>1, Kinds DEF Memories
  <2>3. /\ memory' \in [Refs -> Memories]
        /\ memory'[r] = m
        /\ \A q \in Refs : q # r => memory'[q] = memory[q]
        /\ thread' \in [Threads -> {Idle} \cup Allocating \cup Returning]
        /\ thread'[t] = Idle
        /\ \A u \in Threads : u # t => thread'[u] = thread[u]
    BY <1>1, <1>4, <2>2, AttachIs
  <2>. HIDE DEF n, m
  <2>4. /\ pool' \in [Classes -> Seq(Blocks)]
        /\ pool'[c] = Front(pool[c])
        /\ \A i \in Classes : i # c => pool'[i] = pool[i]
    BY <1>1, <2>1 DEF TypeOK
  <2>5. TypeOK'
    BY <1>1, <1>4, <2>3, <2>4 DEF TypeOK
  <2>6. StackInv'
    <3>1. ASSUME NEW i \in Classes, i # c
          PROVE  /\ \A k \in DOMAIN pool'[i] : pool'[i][k] \in BlocksIn(i)
                 /\ \A k, l \in DOMAIN pool'[i] : pool'[i][k] = pool'[i][l] => k = l
      BY <2>4, <3>1 DEF StackInv
    <3>2. /\ \A k \in DOMAIN pool'[c] : pool'[c][k] \in BlocksIn(c)
          /\ \A k, l \in DOMAIN pool'[c] : pool'[c][k] = pool'[c][l] => k = l
      <4>1. /\ \A k \in 1 .. n : pool[c][k] \in BlocksIn(c)
            /\ \A k, l \in 1 .. n : pool[c][k] = pool[c][l] => k = l
        BY <1>1, <2>1 DEF StackInv
      <4>2. \A k \in 1 .. n - 1 : k \in 1 .. n /\ pool'[c][k] = pool[c][k]
        BY <2>1, <2>4
      <4>3. DOMAIN pool'[c] = 1 .. n - 1
        BY <2>1, <2>4
      <4>. QED
        BY <4>1, <4>2, <4>3
    <3>. QED
      BY <3>1, <3>2 DEF StackInv
  <2>7. PlaceInv'
    <3>1. \A d : Returned(d)' = Returned(d)
      <4>1. \A u \in Threads : thread'[u].block = thread[u].block
        BY <1>1, <2>3, Kinds
      <4>. QED
        BY <4>1 DEF Returned
    <3>2. Stacked(c, b) /\ ~ Behind(b) /\ ~ Returned(b)
      <4>1. Stacked(c, b)
        BY <2>1 DEF Stacked
      <4>. QED
        BY <1>1, <2>1, <4>1 DEF PlaceInv
    <3>3. ~ Stacked(c, b)'
      <4>1. \A k \in 1 .. n - 1 : pool[c][k] # b
        <5>1. \A k \in DOMAIN pool[c] : pool[c][k] = pool[c][n] => k = n
          BY <1>1, <2>1 DEF StackInv
        <5>. QED
          BY <2>1, <5>1
      <4>2. \A k \in 1 .. n - 1 : pool'[c][k] # b
        BY <2>1, <2>4, <4>1
      <4>. QED
        BY <2>1, <2>4, <4>2 DEF Stacked
    <3>4. ASSUME NEW i \in Classes, NEW d, i # c \/ d # b
          PROVE  Stacked(i, d)' <=> Stacked(i, d)
      <4>1. CASE i # c
        BY <2>4, <4>1 DEF Stacked
      <4>2. CASE i = c /\ d # b
        <5>1. \A k \in 1 .. n : pool[c][k] = d => k \in 1 .. n - 1
          BY <2>1, <4>2
        <5>2. \A k \in 1 .. n - 1 : pool'[c][k] = pool[c][k] /\ k \in 1 .. n
          BY <2>1, <2>4
        <5>3. DOMAIN pool'[c] = 1 .. n - 1 /\ DOMAIN pool[c] = 1 .. n
          BY <2>1, <2>4
        <5>. QED
          BY <4>2, <5>1, <5>2, <5>3 DEF Stacked
      <4>. QED
        BY <3>4, <4>1, <4>2
    <3>5. memory[r].block = None
      BY <1>2 DEF Null
    <3>6. \A d : d # b /\ d # None => Behind(d)' = Behind(d)
      BY <2>2, <2>3, <3>5 DEF Behind
    <3>7. Behind(b)' /\ \A q \in Refs : memory'[q].block = b => q = r
      <4>1. memory'[r].block = b
        BY <2>2, <2>3
      <4>2. \A q \in Refs : q # r => memory'[q].block # b
        BY <2>3, <3>2 DEF Behind
      <4>. QED
        BY <1>1, <4>1, <4>2 DEF Behind
    <3> SUFFICES ASSUME NEW i \in Classes, NEW d \in BlocksIn(i)
                 PROVE  /\ Stacked(i, d)' \/ Behind(d)' \/ Returned(d)'
                        /\ ~ (Stacked(i, d)' /\ Behind(d)')
                        /\ ~ (Stacked(i, d)' /\ Returned(d)')
                        /\ ~ (Behind(d)' /\ Returned(d)')
                        /\ \A p, q \in Refs : memory'[p].block = d /\ memory'[q].block = d => p = q
                        /\ \A u, w \in Threads : thread'[u].block = d /\ thread'[w].block = d => u = w
      BY DEF PlaceInv
    <3>8. d # None
      BY BlocksInAre, NoneAssumption
    <3>9. \A u, w \in Threads : thread'[u].block = d /\ thread'[w].block = d => u = w
      BY <1>1, <2>3, <3>8, Kinds DEF PlaceInv
    <3>10. CASE d = b
      <4>1. i = c
        BY <1>1, <2>1, <3>10, OneSize
      <4>. QED
        <5>1. ~ Stacked(i, d)' /\ Behind(d)' /\ ~ Returned(d)'
          BY <3>1, <3>2, <3>3, <3>7, <3>10, <4>1
        <5>. QED
          BY <3>7, <3>9, <3>10, <5>1
    <3>11. CASE d # b
      <4>1. (Stacked(i, d)' <=> Stacked(i, d)) /\ Behind(d)' = Behind(d) /\ Returned(d)' = Returned(d)
        BY <3>1, <3>4, <3>6, <3>8, <3>11
      <4>2. \A p, q \in Refs : memory'[p].block = d /\ memory'[q].block = d => p = q
        BY <2>2, <2>3, <3>11 DEF PlaceInv
      <4>. QED
        BY <3>9, <4>1, <4>2 DEF PlaceInv
    <3>. QED
      BY <3>10, <3>11
  <2>8. PointerInv'
    <3> SUFFICES ASSUME NEW u \in Threads, thread'[u].ref # None
                 PROVE  /\ memory'[thread'[u].ref] = Null
                        /\ \A w \in Threads : thread'[w].ref = thread'[u].ref => w = u
      BY DEF PointerInv
    <3>1. u # t /\ thread'[u] = thread[u]
      BY <2>3, Kinds
    <3>2. thread[u].ref \in Refs /\ thread[u].ref # r
      BY <1>1, <3>1, ThreadIs DEF PointerInv
    <3>. QED
      BY <2>3, <3>1, <3>2, Kinds DEF PointerInv
  <2>9. ClassInv'
    <3>1. m.asked <= AllocSize(m.block)
      BY <1>1, <2>1, <2>2, AllocSizeIs DEF ClassInv
    <3>. QED
      BY <2>3, <3>1, Kinds DEF ClassInv
  <2>10. CountInv'
    <3> SUFFICES ASSUME NEW i \in Classes PROVE UseIs(i)' /\ RemainIs(i)'
      BY DEF CountInv
    <3>1. /\ ~ In(thread'[t], i, {"remain", "take", "unuse"})
          /\ In(thread[t], i, {"remain", "take", "unuse"}) <=> i = c
          /\ ~ In(thread'[t], i, {"take"})
          /\ In(thread[t], i, {"take"}) <=> i = c
          /\ ~ In(thread'[t], i, {"back"}) /\ ~ In(thread[t], i, {"back"})
      BY <1>1, <2>3, Kinds DEF In
    <3>2. Cardinality(Lent(i)') = Cardinality(Lent(i)) + (IF i = c THEN 1 ELSE 0)
      <4>1. ~ LentIn(memory[r], i) /\ (LentIn(memory'[r], i) <=> i = c)
        BY <1>1, <1>2, <2>1, <2>2, <2>3, OneSize DEF LentIn, Null
      <4>. QED
        BY <1>1, <2>3, <4>1, LentStep, LentType DEF One
    <3>3. Len(pool'[i]) - Len(pool[i]) = - (IF i = c THEN 1 ELSE 0)
      <4>1. CASE i = c
        BY <2>1, <2>4, <4>1 DEF n
      <4>2. CASE i # c
        BY <2>4, <4>2, CountTypes
      <4>. QED
        BY <4>1, <4>2
    <3>4. Used(i)' = Used(i) /\ Remaining(i)' = Remaining(i)
      <4> DEFINE l == IF i = c THEN 1 ELSE 0
      <4>1. l \in Int
        OBVIOUS
      <4>2. /\ Used(i)' = Used(i) + l + 0 - l
            /\ Remaining(i)' = Remaining(i) + (- l) + l - 0 + 0 - 0
        BY <2>3, <2>5, <3>1, <3>2, <3>3, <4>1, Changes DEF One
      <4>. HIDE DEF l
      <4>. QED
        BY <4>1, <4>2, CountTypes
    <3>. QED
      BY <1>1, <1>4, <2>5, <3>4, CountsKept DEF CountInv
  <2>. QED
    BY <2>5, <2>6, <2>7, <2>8, <2>9, <2>10
<1>. QED
  BY <1>3, <1>4 DEF PopTake

\* Memory that is not of the pools is given up.
LEMMA ReleaseOther ==
  ASSUME IInv, NEW t \in Threads, NEW r \in Refs, thread[t] = Idle,
         memory[r].type \in {"malloc", "virtual"}, memory' = [memory EXCEPT ![r] = Null],
         UNCHANGED <<pool, useCount, remainCount, thread, missed>>
  PROVE  IInv'
<1> USE DEF IInv
<1>1. memory[r].block = None /\ memory[r] # Null
  BY MemoryIs DEF Null
<1>2. /\ memory' \in [Refs -> Memories]
      /\ memory'[r] = Null /\ \A q \in Refs : q # r => memory'[q] = memory[q]
  BY DEF TypeOK, Memories
<1>3. TypeOK'
  BY <1>2 DEF TypeOK
<1>4. StackInv' /\ PlaceInv'
  <2>1. \A q \in Refs : memory'[q].block = memory[q].block
    BY <1>1, <1>2 DEF Null
  <2>. QED
    BY <2>1, PlacesKept
<1>5. PointerInv'
  <2>1. \A u \in Threads : thread[u].ref # None => memory'[thread[u].ref] = Null
    BY <1>2, ThreadIs DEF PointerInv
  <2>. QED
    BY <2>1 DEF PointerInv
<1>6. ClassInv'
  BY <1>2 DEF ClassInv, Null
<1>7. CountInv'
  <2>1. \A i \in Classes : Lent(i)' = Lent(i)
    BY <1>2 DEF Lent, Null
  <2>. QED
    BY <1>3, <2>1, CountInvKept, Kinds
<1>. QED
  BY <1>3, <1>4, <1>5, <1>6, <1>7

\* The size in the header leads back to the pool that the block is from.
LEMMA ReleasePoolStep ==
  ASSUME IInv, NEW t \in Threads, NEW r \in Refs, ReleasePool(t, r)
  PROVE  IInv'
<1> USE DEF IInv
<1>. PICK b : b = memory[r].block
  OBVIOUS
<1>1. /\ thread[t] = Idle /\ memory[r].type = "pool" /\ b \in Blocks /\ b # None
      /\ memory' = [memory EXCEPT ![r] = Null]
      /\ UNCHANGED <<pool, useCount, remainCount, missed>>
  BY MemoryIs, BlocksAreAddresses DEF ReleasePool
<1>2. PICK c \in Classes : b \in BlocksIn(c)
  BY <1>1 DEF Blocks, BlocksIn
<1>3. SizeToIndex(AllocSize(b)) = c
  BY <1>2, AllocSizeIs, IndexOfSize
<1>. PICK x : x = [Idle EXCEPT !.at = "unuse", !.class = c, !.block = b]
  OBVIOUS
<1>4. x \in Returning /\ x.at = "unuse" /\ x.class = c /\ x.block = b /\ x.ref = None
  BY <1>1, <1>2 DEF Idle, Returning
<1>5. thread' = [thread EXCEPT ![t] = x]
  BY <1>3 DEF ReleasePool
<1>6. /\ thread' \in [Threads -> {Idle} \cup Allocating \cup Returning]
      /\ thread'[t] = x /\ \A u \in Threads : u # t => thread'[u] = thread[u]
  BY <1>4, <1>5 DEF TypeOK
<1>7. /\ memory' \in [Refs -> Memories]
      /\ memory'[r] = Null /\ \A q \in Refs : q # r => memory'[q] = memory[q]
  BY <1>1 DEF TypeOK, Memories
<1>8. TypeOK'
  BY <1>1, <1>6, <1>7 DEF TypeOK
<1>9. StackInv'
  BY <1>1 DEF StackInv
<1>10. PlaceInv'
  <2>1. \A i, d : Stacked(i, d)' <=> Stacked(i, d)
    BY <1>1 DEF Stacked
  <2>2. Behind(b)
    BY DEF Behind
  <2>3. ~ Stacked(c, b) /\ ~ Returned(b) /\ \A q \in Refs : memory[q].block = b => q = r
    BY <1>2, <2>2 DEF PlaceInv
  <2>4. memory'[r].block = None /\ thread[t].block = None
    BY <1>1, <1>7, Kinds DEF Null
  <2>5. ~ Behind(b)'
    BY <1>1, <1>7, <2>3, <2>4 DEF Behind
  <2>6. Returned(b)' /\ \A u \in Threads : thread'[u].block = b => u = t
    BY <1>4, <1>6, <2>3 DEF Returned
  <2> SUFFICES ASSUME NEW i \in Classes, NEW d \in BlocksIn(i)
               PROVE  /\ Stacked(i, d)' \/ Behind(d)' \/ Returned(d)'
                      /\ ~ (Stacked(i, d)' /\ Behind(d)')
                      /\ ~ (Stacked(i, d)' /\ Returned(d)')
                      /\ ~ (Behind(d)' /\ Returned(d)')
                      /\ \A p, q \in Refs : memory'[p].block = d /\ memory'[q].block = d => p = q
                      /\ \A u, w \in Threads : thread'[u].block = d /\ thread'[w].block = d => u = w
    BY DEF PlaceInv
  <2>7. d # None
    BY BlocksInAre, NoneAssumption
  <2>8. CASE d = b
    <3>1. i = c
      BY <1>2, <2>8, OneSize
    <3>2. ~ Stacked(i, d)' /\ ~ Behind(d)' /\ Returned(d)'
      BY <2>1, <2>3, <2>5, <2>6, <2>8, <3>1
    <3>3. \A p \in Refs : memory'[p].block # d
      BY <2>5, <2>8 DEF Behind
    <3>. QED
      BY <2>6, <2>8, <3>2, <3>3
  <2>9. CASE d # b
    <3>1. Behind(d)' <=> Behind(d)
      BY <1>7, <2>4, <2>7, <2>9 DEF Behind
    <3>2. Returned(d)' <=> Returned(d)
      BY <1>4, <1>6, <2>4, <2>7, <2>9 DEF Returned
    <3>3. \A p, q \in Refs : memory'[p].block = d /\ memory'[q].block = d => p = q
      BY <1>7, <2>4, <2>7 DEF PlaceInv
    <3>4. \A u, w \in Threads : thread'[u].block = d /\ thread'[w].block = d => u = w
      <4>1. \A u \in Threads : thread'[u].block = d => thread[u].block = d
        BY <1>4, <1>6, <2>9
      <4>2. \A u, w \in Threads : thread[u].block = d /\ thread[w].block = d => u = w
        BY DEF PlaceInv
      <4>. QED
        BY <4>1, <4>2
    <3>. QED
      BY <2>1, <3>1, <3>2, <3>3, <3>4 DEF PlaceInv
  <2>. QED
    BY <2>8, <2>9
<1>11. PointerInv'
  <2> SUFFICES ASSUME NEW u \in Threads, thread'[u].ref # None
               PROVE  /\ memory'[thread'[u].ref] = Null
                      /\ \A w \in Threads : thread'[w].ref = thread'[u].ref => w = u
    BY DEF PointerInv
  <2>1. u # t /\ thread'[u] = thread[u]
    BY <1>4, <1>6
  <2>2. thread[u].ref \in Refs
    BY <2>1, ThreadIs
  <2>3. memory[thread[u].ref] = Null /\ \A w \in Threads : thread[w].ref = thread[u].ref => w = u
    BY <2>1 DEF PointerInv
  <2>4. \A w \in Threads : thread'[w].ref = thread[u].ref => thread[w].ref = thread[u].ref
    BY <1>4, <1>6, <2>1
  <2>. QED
    BY <1>7, <2>1, <2>2, <2>3, <2>4
<1>12. ClassInv'
  <2>1. \A u \in Threads : /\ thread'[u] \in Allocating => thread'[u].asked <= BlockSize[thread'[u].class]
                           /\ thread'[u] \in Returning => thread'[u].block \in BlocksIn(thread'[u].class)
    BY <1>2, <1>4, <1>6, Kinds DEF ClassInv
  <2>2. \A q \in Refs : memory'[q].type = "pool" => memory'[q].asked <= AllocSize(memory'[q].block)
    BY <1>7 DEF ClassInv, Null
  <2>. QED
    BY <2>1, <2>2 DEF ClassInv
<1>13. CountInv'
  <2> SUFFICES ASSUME NEW i \in Classes PROVE UseIs(i)' /\ RemainIs(i)'
    BY DEF CountInv
  <2> DEFINE l == IF i = c THEN 1 ELSE 0
  <2>1. /\ One(In(thread[t], i, {"remain", "take", "unuse"})) = 0
        /\ One(In(thread'[t], i, {"remain", "take", "unuse"})) = l
        /\ One(In(thread[t], i, {"take"})) = 0 /\ One(In(thread'[t], i, {"take"})) = 0
        /\ One(In(thread[t], i, {"back"})) = 0 /\ One(In(thread'[t], i, {"back"})) = 0
    BY <1>1, <1>4, <1>6, Kinds DEF One, In
  <2>2. Cardinality(Lent(i)') = Cardinality(Lent(i)) + (- l)
    <3>1. /\ LentIn(memory[r], i) <=> i = c
          /\ ~ LentIn(memory'[r], i)
      BY <1>1, <1>2, <1>7, OneSize DEF LentIn, Null
    <3>2. One(LentIn(memory'[r], i)) - One(LentIn(memory[r], i)) = - l
      BY <3>1 DEF One
    <3>. QED
      BY <1>7, <3>2, LentStep
  <2>3. l \in Int /\ - l \in Int /\ Len(pool'[i]) - Len(pool[i]) = 0
    BY <1>1, CountTypes
  <2>. HIDE DEF l
  <2>4. /\ Used(i)' = Used(i) + (- l) + l - 0
        /\ Remaining(i)' = Remaining(i) + 0 + 0 - 0 + 0 - 0
    <3>1. PICK k \in Int : k = - l
      BY <2>3
    <3>2. Cardinality(Lent(i)') = Cardinality(Lent(i)) + k
      BY <2>2, <3>1
    <3>3. /\ Used(i)' = Used(i) + k + l - 0
          /\ Remaining(i)' = Remaining(i) + 0 + 0 - 0 + 0 - 0
      <4>1. /\ Used(i)' = Used(i) + k + One(In(thread'[t], i, {"remain", "take", "unuse"}))
                                   - One(In(thread[t], i, {"remain", "take", "unuse"}))
            /\ Remaining(i)' = Remaining(i) + (Len(pool'[i]) - Len(pool[i]))
              + One(In(thread[t], i, {"take"})) - One(In(thread'[t], i, {"take"}))
              + One(In(thread'[t], i, {"back"})) - One(In(thread[t], i, {"back"}))
        BY <1>6, <1>8, <3>2, Changes
      <4>. QED
        BY <2>1, <2>3, <4>1
    <3>. QED
      BY <3>1, <3>3
  <2>5. Used(i)' = Used(i) /\ Remaining(i)' = Remaining(i)
    BY <2>3, <2>4, CountTypes
  <2>. QED
    BY <1>1, <1>8, <2>5, CountsKept DEF CountInv
<1>. QED
  BY <1>8, <1>9, <1>10, <1>11, <1>12, <1>13

LEMMA PushUseStep ==
  ASSUME IInv, NEW t \in Threads, PushUse(t)
  PROVE  IInv'
<1> USE DEF IInv
<1> DEFINE c == thread[t].class
<1>1. /\ thread[t].at = "unuse" /\ thread[t] \in Returning /\ c \in Classes
      /\ useCount' = Add(useCount, c, CountMod - 1) /\ Goto(t, "unremain")
      /\ UNCHANGED <<pool, remainCount, memory, missed>>
  BY ThreadIs, Kinds DEF PushUse
<1>2. /\ thread' \in [Threads -> {Idle} \cup Allocating \cup Returning]
      /\ thread'[t].at = "unremain" /\ thread'[t].class = c
      /\ \A u \in Threads : u # t => thread'[u] = thread[u]
      /\ StackInv' /\ PlaceInv' /\ PointerInv' /\ ClassInv'
      /\ \A i \in Classes : Cardinality(Lent(i)') = Cardinality(Lent(i)) + 0
  BY <1>1, GotoInv
<1>3. /\ useCount' \in [Classes -> 0 .. CountMod - 1]
      /\ useCount'[c] = Mod(useCount[c] + (CountMod - 1))
      /\ \A i \in Classes : i # c => useCount'[i] = useCount[i]
  <2>1. CountMod - 1 \in Nat /\ useCount \in [Classes -> 0 .. CountMod - 1]
    BY CountAssumption DEF TypeOK
  <2>. QED
    BY <1>1, <2>1, AddType
<1>4. TypeOK'
  BY <1>1, <1>2, <1>3 DEF TypeOK
<1>5. CountInv'
  <2> SUFFICES ASSUME NEW i \in Classes PROVE UseIs(i)' /\ RemainIs(i)'
    BY DEF CountInv
  <2>1. /\ ~ In(thread'[t], i, {"remain", "take", "unuse"})
        /\ In(thread[t], i, {"remain", "take", "unuse"}) <=> i = c
        /\ ~ In(thread'[t], i, {"take"}) /\ ~ In(thread[t], i, {"take"})
        /\ ~ In(thread'[t], i, {"back"}) /\ ~ In(thread[t], i, {"back"})
    BY <1>1, <1>2 DEF In
  <2>2. Used(i)' = Used(i) - (IF i = c THEN 1 ELSE 0) /\ Remaining(i)' = Remaining(i)
    BY <1>1, <1>2, <1>4, <2>1, Changes, CountTypes DEF One
  <2>. QED
    BY <1>1, <1>3, <1>4, <2>2, CountsKept, CountTypes DEF CountInv
<1>. QED
  BY <1>2, <1>4, <1>5

LEMMA PushRemainStep ==
  ASSUME IInv, NEW t \in Threads, PushRemain(t)
  PROVE  IInv'
<1> USE DEF IInv
<1> DEFINE c == thread[t].class
<1>1. /\ thread[t].at = "unremain" /\ thread[t] \in Returning /\ c \in Classes
      /\ remainCount' = Add(remainCount, c, 1) /\ Goto(t, "back")
      /\ UNCHANGED <<pool, useCount, memory, missed>>
  BY ThreadIs, Kinds DEF PushRemain
<1>2. /\ thread' \in [Threads -> {Idle} \cup Allocating \cup Returning]
      /\ thread'[t].at = "back" /\ thread'[t].class = c
      /\ \A u \in Threads : u # t => thread'[u] = thread[u]
      /\ StackInv' /\ PlaceInv' /\ PointerInv' /\ ClassInv'
      /\ \A i \in Classes : Cardinality(Lent(i)') = Cardinality(Lent(i)) + 0
  BY <1>1, GotoInv
<1>3. /\ remainCount' \in [Classes -> 0 .. CountMod - 1]
      /\ remainCount'[c] = Mod(remainCount[c] + 1)
      /\ \A i \in Classes : i # c => remainCount'[i] = remainCount[i]
  <2>1. 1 \in Nat /\ remainCount \in [Classes -> 0 .. CountMod - 1]
    BY DEF TypeOK
  <2>. QED
    BY <1>1, <2>1, AddType
<1>4. TypeOK'
  BY <1>1, <1>2, <1>3 DEF TypeOK
<1>5. CountInv'
  <2> SUFFICES ASSUME NEW i \in Classes PROVE UseIs(i)' /\ RemainIs(i)'
    BY DEF CountInv
  <2>1. /\ ~ In(thread'[t], i, {"remain", "take", "unuse"})
        /\ ~ In(thread[t], i, {"remain", "take", "unuse"})
        /\ ~ In(thread'[t], i, {"take"}) /\ ~ In(thread[t], i, {"take"})
        /\ In(thread'[t], i, {"back"}) <=> i = c
        /\ ~ In(thread[t], i, {"back"})
    BY <1>1, <1>2 DEF In
  <2>2. Used(i)' = Used(i) /\ Remaining(i)' = Remaining(i) + (IF i = c THEN 1 ELSE 0)
    <3> DEFINE l == IF i = c THEN 1 ELSE 0
    <3>1. /\ One(In(thread[t], i, {"remain", "take", "unuse"})) = 0
          /\ One(In(thread'[t], i, {"remain", "take", "unuse"})) = 0
          /\ One(In(thread[t], i, {"take"})) = 0 /\ One(In(thread'[t], i, {"take"})) = 0
          /\ One(In(thread[t], i, {"back"})) = 0 /\ One(In(thread'[t], i, {"back"})) = l
      BY <2>1 DEF One
    <3>2. l \in Int /\ 0 \in Int /\ Len(pool'[i]) - Len(pool[i]) = 0
      BY <1>1, CountTypes
    <3>. HIDE DEF l
    <3>3. /\ Used(i)' = Used(i) + 0 + 0 - 0
          /\ Remaining(i)' = Remaining(i) + 0 + 0 - 0 + l - 0
      BY <1>2, <1>4, <3>1, <3>2, Changes
    <3>4. Used(i)' = Used(i) /\ Remaining(i)' = Remaining(i) + l
      BY <3>2, <3>3, CountTypes
    <3>. QED
      BY <3>4 DEF l
  <2>. QED
    BY <1>1, <1>3, <1>4, <2>2, CountsKept, CountTypes DEF CountInv
<1>. QED
  BY <1>2, <1>4, <1>5

LEMMA PushBackStep ==
  ASSUME IInv, NEW t \in Threads, PushBack(t)
  PROVE  IInv'
<1> USE DEF IInv
<1>. PICK c : c = thread[t].class
  OBVIOUS
<1>. PICK b : b = thread[t].block
  OBVIOUS
<1>. PICK n : n = Len(pool[c])
  OBVIOUS
<1>1. /\ thread[t].at = "back" /\ thread[t] \in Returning /\ c \in Classes
      /\ b \in BlocksIn(c) /\ b \in Blocks /\ b # None
      /\ pool' = [pool EXCEPT ![c] = Append(pool[c], b)]
      /\ thread' = [thread EXCEPT ![t] = Idle]
      /\ UNCHANGED <<useCount, remainCount, memory, missed>>
  BY ThreadIs, Kinds, BlocksAreAddresses DEF PushBack, ClassInv
<1>2. /\ n \in Nat /\ DOMAIN pool[c] = 1 .. n
      /\ Append(pool[c], b) \in Seq(Blocks) /\ Len(Append(pool[c], b)) = n + 1
      /\ \A k \in 1 .. n : Append(pool[c], b)[k] = pool[c][k]
      /\ Append(pool[c], b)[n + 1] = b
      /\ DOMAIN Append(pool[c], b) = 1 .. n + 1
  <2>1. pool[c] \in Seq(Blocks)
    BY <1>1 DEF TypeOK
  <2>. QED
    BY <1>1, <2>1, AppendProperties
<1>3. /\ pool' \in [Classes -> Seq(Blocks)]
      /\ pool'[c] = Append(pool[c], b)
      /\ \A i \in Classes : i # c => pool'[i] = pool[i]
  BY <1>1, <1>2 DEF TypeOK
<1>4. /\ thread' \in [Threads -> {Idle} \cup Allocating \cup Returning]
      /\ thread'[t] = Idle /\ \A u \in Threads : u # t => thread'[u] = thread[u]
  BY <1>1 DEF TypeOK
<1>5. TypeOK'
  BY <1>1, <1>3, <1>4 DEF TypeOK
<1>6. ~ Stacked(c, b) /\ ~ Behind(b) /\ \A u \in Threads : thread[u].block = b => u = t
  <2>1. Returned(b)
    BY DEF Returned
  <2>. QED
    BY <1>1, <2>1 DEF PlaceInv
<1>7. /\ DOMAIN pool'[c] = 1 .. n + 1 /\ pool'[c][n + 1] = b
      /\ \A k \in 1 .. n : pool'[c][k] = pool[c][k]
      /\ \A k \in 1 .. n + 1 : k \in 1 .. n \/ k = n + 1
  BY <1>2, <1>3
<1>8. StackInv'
  <2>1. ASSUME NEW i \in Classes, i # c
        PROVE  /\ \A k \in DOMAIN pool'[i] : pool'[i][k] \in BlocksIn(i)
               /\ \A k, l \in DOMAIN pool'[i] : pool'[i][k] = pool'[i][l] => k = l
    BY <1>3, <2>1 DEF StackInv
  <2>2. /\ \A k \in 1 .. n : pool[c][k] \in BlocksIn(c) /\ pool[c][k] # b
        /\ \A k, l \in 1 .. n : pool[c][k] = pool[c][l] => k = l
    <3>1. /\ \A k \in 1 .. n : pool[c][k] \in BlocksIn(c)
          /\ \A k, l \in 1 .. n : pool[c][k] = pool[c][l] => k = l
      <4>1. \A k, l \in DOMAIN pool[c] : pool[c][k] = pool[c][l] => k = l
        BY <1>1 DEF StackInv
      <4>2. \A k \in DOMAIN pool[c] : pool[c][k] \in BlocksIn(c)
        BY <1>1 DEF StackInv
      <4>. QED
        BY <1>2, <4>1, <4>2
    <3>2. \A k \in 1 .. n : pool[c][k] # b
      BY <1>2, <1>6 DEF Stacked
    <3>. QED
      BY <3>1, <3>2
  <2>3. \A k \in 1 .. n + 1 : pool'[c][k] \in BlocksIn(c)
    BY <1>1, <1>7, <2>2
  <2>4. \A k, l \in 1 .. n + 1 : pool'[c][k] = pool'[c][l] => k = l
    <3> SUFFICES ASSUME NEW k \in 1 .. n + 1, NEW l \in 1 .. n + 1, pool'[c][k] = pool'[c][l]
                 PROVE  k = l
      OBVIOUS
    <3>1. (k \in 1 .. n \/ k = n + 1) /\ (l \in 1 .. n \/ l = n + 1)
      BY <1>7
    <3>2. CASE k = n + 1
      BY <1>7, <2>2, <3>1, <3>2
    <3>3. CASE l = n + 1
      BY <1>7, <2>2, <3>1, <3>3
    <3>4. CASE k \in 1 .. n /\ l \in 1 .. n
      BY <1>7, <2>2, <3>4
    <3>. QED
      BY <3>1, <3>2, <3>3, <3>4
  <2>5. /\ \A k \in DOMAIN pool'[c] : pool'[c][k] \in BlocksIn(c)
        /\ \A k, l \in DOMAIN pool'[c] : pool'[c][k] = pool'[c][l] => k = l
    BY <1>7, <2>3, <2>4
  <2>. QED
    BY <2>1, <2>5 DEF StackInv
<1>9. PlaceInv'
  <2>1. \A d : Behind(d)' <=> Behind(d)
    BY <1>1 DEF Behind
  <2>2. ASSUME NEW i \in Classes, NEW d, i # c \/ d # b
        PROVE  Stacked(i, d)' <=> Stacked(i, d)
    <3>1. CASE i # c
      BY <1>3, <3>1 DEF Stacked
    <3>2. CASE i = c /\ d # b
      <4>1. \A k \in 1 .. n + 1 : pool'[c][k] = d => k \in 1 .. n /\ pool[c][k] = d
        BY <1>7, <3>2
      <4>2. \A k \in 1 .. n : k \in 1 .. n + 1 /\ pool'[c][k] = pool[c][k]
        BY <1>2, <1>7
      <4>. QED
        BY <1>2, <1>7, <3>2, <4>1, <4>2 DEF Stacked
    <3>. QED
      BY <2>2, <3>1, <3>2
  <2>3. Stacked(c, b)'
    <3>1. n + 1 \in DOMAIN pool'[c]
      BY <1>2, <1>7
    <3>. QED
      BY <1>7, <3>1 DEF Stacked
  <2>4. \A u \in Threads : thread'[u].block # b
    BY <1>1, <1>4, <1>6, Kinds
  <2>5. ASSUME NEW d, d # None, d # b, NEW u \in Threads
        PROVE  thread'[u].block = d <=> thread[u].block = d
    BY <1>4, <2>5, Kinds
  <2> SUFFICES ASSUME NEW i \in Classes, NEW d \in BlocksIn(i)
               PROVE  /\ Stacked(i, d)' \/ Behind(d)' \/ Returned(d)'
                      /\ ~ (Stacked(i, d)' /\ Behind(d)')
                      /\ ~ (Stacked(i, d)' /\ Returned(d)')
                      /\ ~ (Behind(d)' /\ Returned(d)')
                      /\ \A p, q \in Refs : memory'[p].block = d /\ memory'[q].block = d => p = q
                      /\ \A u, w \in Threads : thread'[u].block = d /\ thread'[w].block = d => u = w
    BY DEF PlaceInv
  <2>6. d # None
    BY BlocksInAre, NoneAssumption
  <2>7. \A p, q \in Refs : memory'[p].block = d /\ memory'[q].block = d => p = q
    BY <1>1 DEF PlaceInv
  <2>8. CASE d = b
    <3>1. i = c
      BY <1>1, <2>8, OneSize
    <3>2. Stacked(i, d)' /\ ~ Behind(d)' /\ ~ Returned(d)'
      <4>1. ~ Returned(b)'
        BY <2>4 DEF Returned
      <4>. QED
        BY <1>6, <2>1, <2>3, <2>8, <3>1, <4>1
    <3>. QED
      BY <2>4, <2>7, <2>8, <3>2
  <2>9. CASE d # b
    <3>1. Returned(d)' <=> Returned(d)
      BY <2>5, <2>6, <2>9 DEF Returned
    <3>2. \A u, w \in Threads : thread'[u].block = d /\ thread'[w].block = d => u = w
      <4>1. \A u, w \in Threads : thread[u].block = d /\ thread[w].block = d => u = w
        BY DEF PlaceInv
      <4>. QED
        BY <2>5, <2>6, <2>9, <4>1
    <3>3. Stacked(i, d)' <=> Stacked(i, d)
      BY <2>2, <2>9
    <3>. QED
      BY <2>1, <2>7, <3>1, <3>2, <3>3 DEF PlaceInv
  <2>. QED
    BY <2>8, <2>9
<1>10. PointerInv'
  <2>1. \A u \in Threads : thread'[u].ref # None => u # t /\ thread'[u] = thread[u]
    BY <1>4, Kinds
  <2>. QED
    BY <1>1, <2>1 DEF PointerInv
<1>11. ClassInv'
  <2>1. \A u \in Threads : /\ thread'[u] \in Allocating => thread'[u].asked <= BlockSize[thread'[u].class]
                           /\ thread'[u] \in Returning => thread'[u].block \in BlocksIn(thread'[u].class)
    BY <1>4, Kinds DEF ClassInv
  <2>. QED
    BY <1>1, <2>1 DEF ClassInv
<1>12. CountInv'
  <2> SUFFICES ASSUME NEW i \in Classes PROVE UseIs(i)' /\ RemainIs(i)'
    BY DEF CountInv
  <2> DEFINE l == IF i = c THEN 1 ELSE 0
  <2>1. /\ One(In(thread[t], i, {"remain", "take", "unuse"})) = 0
        /\ One(In(thread'[t], i, {"remain", "take", "unuse"})) = 0
        /\ One(In(thread[t], i, {"take"})) = 0 /\ One(In(thread'[t], i, {"take"})) = 0
        /\ One(In(thread[t], i, {"back"})) = l /\ One(In(thread'[t], i, {"back"})) = 0
    BY <1>1, <1>4, Kinds DEF One, In
  <2>2. Cardinality(Lent(i)') = Cardinality(Lent(i)) + 0
    <3>1. Lent(i)' = Lent(i)
      BY <1>1 DEF Lent
    <3>. QED
      BY <3>1, LentType
  <2>3. l \in Int /\ 0 \in Int /\ Len(pool'[i]) - Len(pool[i]) = l
    <3>1. CASE i = c
      <4>1. Len(pool'[c]) = n + 1 /\ Len(pool[c]) = n /\ n \in Nat /\ l = 1
        BY <1>2, <1>3, <3>1
      <4>. QED
        BY <3>1, <4>1
    <3>2. CASE i # c
      BY <1>3, <3>2, CountTypes
    <3>. QED
      BY <3>1, <3>2
  <2>. HIDE DEF l
  <2>4. /\ Used(i)' = Used(i) + 0 + 0 - 0
        /\ Remaining(i)' = Remaining(i) + l + 0 - 0 + 0 - l
    BY <1>4, <1>5, <2>1, <2>2, <2>3, Changes
  <2>5. Used(i)' = Used(i) /\ Remaining(i)' = Remaining(i)
    BY <2>3, <2>4, CountTypes
  <2>. QED
    BY <1>1, <1>5, <2>5, CountsKept DEF CountInv
<1>. QED
  BY <1>5, <1>8, <1>9, <1>10, <1>11, <1>12

-----------------------------------------------------------------------------
(* The theorems *)

LEMMA InitInv == Init => IInv
<1> SUFFICES ASSUME Init PROVE IInv
  OBVIOUS
<1>1. /\ pool = [i \in Classes |-> BlocksOf(i)]
      /\ \A r \in Refs : memory[r] = Null
      /\ \A t \in Threads : thread[t] = Idle
  BY DEF Init
<1>2. ASSUME NEW i \in Classes
      PROVE  /\ BlocksOf(i) \in Seq(Blocks) /\ Len(BlocksOf(i)) \in Nat
             /\ DOMAIN BlocksOf(i) = 1 .. Len(BlocksOf(i))
             /\ \A n \in DOMAIN BlocksOf(i) : BlocksOf(i)[n] \in BlocksIn(i)
  <2>1. \A n \in DOMAIN BlocksOf(i) : BlocksOf(i)[n] \in BlocksIn(i) /\ BlocksOf(i)[n] \in Blocks
    BY DEF BlocksIn, Blocks, ToSet
  <2>2. BlocksOf(i) \in Seq(Nat)
    BY BlocksAre
  <2>3. Len(BlocksOf(i)) \in Nat /\ BlocksOf(i) = [n \in 1 .. Len(BlocksOf(i)) |-> BlocksOf(i)[n]]
    BY <2>2
  <2>. QED
    BY <2>1, <2>3
<1>3. TypeOK
  <2>1. pool \in [Classes -> Seq(Blocks)]
    BY <1>1, <1>2
  <2>2. \A i \in Classes : Len(BlocksOf(i)) % CountMod \in 0 .. CountMod - 1
    BY <1>2, CountAssumption
  <2>3. 0 \in 0 .. CountMod - 1
    BY CountAssumption
  <2>. QED
    BY <2>1, <2>2, <2>3 DEF Init, TypeOK, Memories
<1>4. StackInv
  BY <1>1, <1>2, EachOnce DEF StackInv
<1>5. PlaceInv
  <2> SUFFICES ASSUME NEW i \in Classes, NEW b \in BlocksIn(i)
               PROVE  Stacked(i, b) /\ ~ Behind(b) /\ ~ Returned(b)
    BY DEF PlaceInv, Behind, Returned
  <2>1. b # None
    BY BlocksInAre, NoneAssumption
  <2>2. Stacked(i, b)
    BY <1>1 DEF Stacked, BlocksIn, ToSet
  <2>. QED
    BY <1>1, <2>1, <2>2 DEF Behind, Returned, Null, Idle
<1>6. PointerInv
  BY <1>1 DEF PointerInv, Idle
<1>7. ClassInv
  BY <1>1, Kinds DEF ClassInv, Null
<1>8. CountInv
  <2> SUFFICES ASSUME NEW i \in Classes PROVE UseIs(i) /\ RemainIs(i)
    BY DEF CountInv
  <2>1. Lent(i) = {}
    BY <1>1 DEF Lent, Null
  <2>2. Popping(i, {"remain", "take", "unuse"}) = {} /\ Popping(i, {"take"}) = {} /\ Popping(i, {"back"}) = {}
    BY <1>1 DEF Popping, Idle
  <2>3. Used(i) = 0 /\ Remaining(i) = Len(BlocksOf(i))
    <3>1. Len(pool[i]) = Len(BlocksOf(i)) /\ Len(BlocksOf(i)) \in Nat
      BY <1>1, <1>2
    <3>2. Used(i) = 0 + 0 /\ Remaining(i) = Len(BlocksOf(i)) - 0 + 0
      BY <2>1, <2>2, <3>1, FS_EmptySet DEF Used, Remaining
    <3>. QED
      BY <3>1, <3>2
  <2>4. missed[i] = 0 /\ useCount[i] = 0 /\ remainCount[i] = Mod(Len(BlocksOf(i)))
    BY DEF Init, Mod
  <2>5. Used(i) + missed[i] = 0 /\ Remaining(i) - missed[i] = Len(BlocksOf(i))
    BY <1>2, <2>3, <2>4
  <2>6. Mod(0) = 0
    BY CountAssumption DEF Mod
  <2>. QED
    BY <2>4, <2>5, <2>6 DEF UseIs, RemainIs
<1>. QED
  BY <1>3, <1>4, <1>5, <1>6, <1>7, <1>8 DEF IInv

LEMMA NextInv == IInv /\ [Next]_vars => IInv'
<1> SUFFICES ASSUME IInv, [Next]_vars PROVE IInv'
  OBVIOUS
<1>1. CASE UNCHANGED vars
  <2> USE <1>1 DEF IInv, vars
  <2>1. TypeOK'
    BY DEF TypeOK
  <2>2. StackInv' /\ PlaceInv'
    BY PlacesKept
  <2>3. PointerInv' /\ ClassInv'
    BY DEF PointerInv, ClassInv
  <2>4. CountInv'
    BY DEF CountInv, UseIs, RemainIs, Used, Remaining, Lent, Popping
  <2>. QED
    BY <2>1, <2>2, <2>3, <2>4
<1>2. ASSUME NEW t \in Threads, NEW r \in Refs, NEW size \in Requests, Allocate(t, r, size) PROVE IInv'
  BY <1>2, AllocateStep
<1>3. ASSUME NEW t \in Threads, NEW r \in Refs, ReleaseLarge(t, r) PROVE IInv'
  BY <1>3, ReleaseOther DEF ReleaseLarge
<1>4. ASSUME NEW t \in Threads, NEW r \in Refs, ReleaseMalloc(t, r) PROVE IInv'
  BY <1>4, ReleaseOther DEF ReleaseMalloc
<1>5. ASSUME NEW t \in Threads, NEW r \in Refs, ReleasePool(t, r) PROVE IInv'
  BY <1>5, ReleasePoolStep
<1>6. ASSUME NEW t \in Threads, PopTest(t) \/ PopUse(t) \/ PopRemain(t) \/ PopTake(t) PROVE IInv'
  BY <1>6, PopTestStep, PopUseStep, PopRemainStep, PopTakeStep
<1>7. ASSUME NEW t \in Threads, PushUse(t) \/ PushRemain(t) \/ PushBack(t) PROVE IInv'
  BY <1>7, PushUseStep, PushRemainStep, PushBackStep
<1>. QED
  BY <1>1, <1>2, <1>3, <1>4, <1>5, <1>6, <1>7 DEF Next

LEMMA Invariant == Spec => []IInv
  BY InitInv, NextInv, PTL DEF Spec

\* Every block is in one place, whatever the order in which threads allocate
\* and release: two threads that saw the last block of a pool do not both get it.
THEOREM InOnePlace == Spec => []OnePlace
<1>1. IInv => OnePlace
  <2> SUFFICES ASSUME IInv, NEW i \in Classes, NEW b \in BlocksIn(i)
               PROVE  LET onStack == {n \in DOMAIN pool[i] : pool[i][n] = b}
                          behind == {r \in Refs : memory[r].block = b}
                          returned == {t \in Threads : thread[t].block = b}
                      IN  /\ \A j \in Classes \ {i} : b \notin ToSet(pool[j])
                          /\ Cardinality(onStack) + Cardinality(behind) + Cardinality(returned) = 1
    BY DEF OnePlace, IInv, BlocksIn
  <2> USE DEF IInv
  <2> DEFINE onStack == {n \in DOMAIN pool[i] : pool[i][n] = b}
             behind == {r \in Refs : memory[r].block = b}
             returned == {t \in Threads : thread[t].block = b}
  <2>1. \A j \in Classes \ {i} : b \notin ToSet(pool[j])
    BY OneSize DEF StackInv, ToSet
  <2>2. /\ Stacked(i, b) \/ Behind(b) \/ Returned(b)
        /\ ~ (Stacked(i, b) /\ Behind(b))
        /\ ~ (Stacked(i, b) /\ Returned(b))
        /\ ~ (Behind(b) /\ Returned(b))
    BY DEF PlaceInv
  <2>3. /\ ~ Stacked(i, b) => onStack = {}
        /\ ~ Behind(b) => behind = {}
        /\ ~ Returned(b) => returned = {}
    BY DEF Stacked, Behind, Returned
  <2>4. Stacked(i, b) => \E n : onStack = {n}
    <3> SUFFICES ASSUME Stacked(i, b) PROVE \E n : onStack = {n}
      OBVIOUS
    <3>1. PICK n \in DOMAIN pool[i] : pool[i][n] = b
      BY DEF Stacked
    <3>2. \A m \in DOMAIN pool[i] : pool[i][m] = b => m = n
      BY <3>1 DEF StackInv
    <3>3. onStack = {n}
      BY <3>1, <3>2
    <3>. QED
      BY <3>3
  <2>5. Behind(b) => \E r : behind = {r}
    BY DEF Behind, PlaceInv
  <2>6. Returned(b) => \E t : returned = {t}
    BY DEF Returned, PlaceInv
  <2>. HIDE DEF onStack, behind, returned
  <2>7. Cardinality({}) = 0 /\ \A x : Cardinality({x}) = 1
    BY FS_EmptySet, FS_Singleton
  <2>8. Cardinality(onStack) + Cardinality(behind) + Cardinality(returned) = 1
    <3>1. CASE Stacked(i, b)
      <4>1. Cardinality(onStack) = 1
        BY <2>2, <2>3, <2>4, <2>7, <3>1
      <4>2. Cardinality(behind) = 0
        BY <2>2, <2>3, <2>5, <2>7, <3>1
      <4>3. Cardinality(returned) = 0
        BY <2>2, <2>3, <2>6, <2>7, <3>1
      <4>. QED
        BY <4>1, <4>2, <4>3
    <3>2. CASE Behind(b)
      <4>1. Cardinality(onStack) = 0
        BY <2>2, <2>3, <2>4, <2>7, <3>2
      <4>2. Cardinality(behind) = 1
        BY <2>2, <2>3, <2>5, <2>7, <3>2
      <4>3. Cardinality(returned) = 0
        BY <2>2, <2>3, <2>6, <2>7, <3>2
      <4>. QED
        BY <4>1, <4>2, <4>3
    <3>3. CASE Returned(b)
      <4>1. Cardinality(onStack) = 0
        BY <2>2, <2>3, <2>4, <2>7, <3>3
      <4>2. Cardinality(behind) = 0
        BY <2>2, <2>3, <2>5, <2>7, <3>3
      <4>3. Cardinality(returned) = 1
        BY <2>2, <2>3, <2>6, <2>7, <3>3
      <4>. QED
        BY <4>1, <4>2, <4>3
    <3>. QED
      BY <2>2, <3>1, <3>2, <3>3
  <2>. QED
    BY <2>1, <2>8 DEF onStack, behind, returned
<1>. QED
  BY <1>1, Invariant, PTL

\* The owner of a pointer has the bytes it asked for to itself, wherever the
\* blocks were cut.
THEOREM Room == Spec => []RoomEnough
<1>1. IInv => RoomEnough
  <2> SUFFICES ASSUME IInv, NEW r \in Refs
               PROVE  /\ memory[r].type = "pool" =>
                           /\ memory[r].block + (HeaderSize + memory[r].asked) <= ChunkSize
                           /\ \A b \in Blocks : b > memory[r].block =>
                                memory[r].block + (HeaderSize + memory[r].asked) <= b
                      /\ memory[r].type # "pool" /\ memory[r].type # "none" =>
                           HeaderSize + memory[r].asked <= GetRealSize(memory[r].asked)
    BY DEF RoomEnough
  <2> USE DEF IInv
  <2>1. memory[r].asked \in Nat /\ HeaderSize \in Nat /\ ChunkSize \in Nat
    BY MemoryIs, SizeAssumption
  <2>2. HeaderSize + memory[r].asked <= GetRealSize(memory[r].asked)
    BY <2>1 DEF GetRealSize
  <2>3. ASSUME memory[r].type = "pool"
        PROVE  /\ memory[r].block + (HeaderSize + memory[r].asked) <= ChunkSize
               /\ \A b \in Blocks : b > memory[r].block =>
                    memory[r].block + (HeaderSize + memory[r].asked) <= b
    <3>1. PICK a : a = memory[r].block
      OBVIOUS
    <3>2. PICK i \in Classes : a \in BlocksIn(i)
      BY <2>3, <3>1, MemoryIs DEF Blocks, BlocksIn
    <3>3. memory[r].asked <= BlockSize[i]
      BY <2>3, <3>1, <3>2, AllocSizeIs DEF ClassInv
    <3>4. /\ a \in Nat /\ BlockSize[i] \in Nat
          /\ GetRealSize(BlockSize[i]) = HeaderSize + BlockSize[i]
      BY <3>2, BlocksInAre, Sizes DEF GetRealSize
    <3>5. a + GetRealSize(BlockSize[i]) <= ChunkSize
      BY <3>2, BlocksApart
    <3>6. \A b \in Blocks : b > a => a + GetRealSize(BlockSize[i]) <= b
      BY <3>2, BlocksApart
    <3>7. \A b \in Blocks : b \in Nat
      BY BlocksAreAddresses
    <3>. QED
      BY <2>1, <3>1, <3>3, <3>4, <3>5, <3>6, <3>7
  <2>. QED
    BY <2>2, <2>3
<1>. QED
  BY <1>1, Invariant, PTL

\* By how much the counters of a pool may differ from its list, for any number
\* of threads between the two.
THEOREM Counted == Spec => []CountersAgree
<1>1. IInv => CountersAgree
  BY CountersAre DEF IInv
<1>. QED
  BY <1>1, Invariant, PTL

=============================================================================
