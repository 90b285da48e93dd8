---------------------------- MODULE MemoryPools ----------------------------
(***************************************************************************)
(* MemoryManager and its MemoryPools (src/ServerCore/Memory): memory for   *)
(* every object of the server.                                             *)
(*                                                                         *)
(* At start-up one chunk is cut into blocks of a few sizes, each behind a  *)
(* header with its size.  Allocate takes a block of the least size that is *)
(* enough, or asks the heap when the pool has none or the request is       *)
(* large; Release looks at the header and gives the memory back where it   *)
(* came from.  A pool counts what it lent and what remains in atomics that *)
(* are not changed together with its list.                                 *)
(*                                                                         *)
(* Refs are the pointers the rest of the server keeps; each is released    *)
(* once, by any thread.  Contents and guard patterns are left out.         *)
(***************************************************************************)
EXTENDS Integers, FiniteSets, SequencesExt

CONSTANTS Threads,
          Refs,       \* the pointers that may be kept at one time
          Requests,   \* the sizes asked for
          BlockSize,  \* _blockArray
          Ratio,      \* _ratioArray
          ChunkSize,  \* CHUNK_SIZE
          HeaderSize, \* the header, with the guards of a debug build
          CountMod,   \* the counters are unsigned and wrap at this
          None        \* no pointer, no block

Classes == DOMAIN BlockSize
MaxBlockSize == BlockSize[Len(BlockSize)] \* MAX_BLOCK_SIZE

ASSUME SizeAssumption ==
  /\ BlockSize \in Seq(Nat \ {0}) /\ Len(BlockSize) > 0
  /\ \A i, j \in Classes : i < j => BlockSize[i] < BlockSize[j]
  /\ Ratio \in [Classes -> Nat \ {0}]
  /\ ChunkSize \in Nat /\ HeaderSize \in Nat \ {0}
  /\ Requests \subseteq Nat
ASSUME FiniteAssumption == IsFiniteSet(Threads) /\ IsFiniteSet(Refs)
ASSUME CountAssumption == CountMod \in Nat \ {0}
ASSUME NoneAssumption == None \notin Refs /\ None \notin Nat

-----------------------------------------------------------------------------
(* PushChunk: a block is named by its address, the place of its header in  *)
(* the chunk.                                                              *)

\* Mutant: the header is forgotten.
SizeOfData(size) == size

GetRealSize(size) == HeaderSize + size

\* The total of the first i ratios, and of all.
WeightOf[i \in 0 .. Len(BlockSize)] == IF i = 0 THEN 0 ELSE WeightOf[i - 1] + Ratio[i]
Weight == WeightOf[Len(BlockSize)]

BlockCount(i) == ((ChunkSize * Ratio[i]) \div Weight) \div GetRealSize(BlockSize[i])

\* What is left of the chunk after the first i sizes; cutting stops for good
\* when that does not suffice.
Stopped == -1
Left[i \in 0 .. Len(BlockSize)] ==
  IF i = 0 THEN ChunkSize
  ELSE LET bytes == BlockCount(i) * GetRealSize(BlockSize[i])
       IN  IF bytes > Left[i - 1] THEN Stopped ELSE Left[i - 1] - bytes

BlocksOf(i) ==
  IF Left[i] = Stopped THEN <<>>
  ELSE [n \in 1 .. BlockCount(i) |->
          ChunkSize - Left[i - 1] + (n - 1) * GetRealSize(BlockSize[i])]

Blocks == UNION {ToSet(BlocksOf(i)) : i \in Classes}

\* The size in the header of a block, written once by AttachHeader.
AllocSize(b) == BlockSize[CHOOSE i \in Classes : b \in ToSet(BlocksOf(i))]

-----------------------------------------------------------------------------

VARIABLES pool,        \* size class -> _poolList, a stack
          useCount,    \* size class -> _useCount
          remainCount, \* size class -> _remainCount
          memory,      \* pointer -> the memory behind it
          thread,      \* thread -> where it is in Allocate or Release
          missed       \* history: size class -> pops that came too late

vars == <<pool, useCount, remainCount, memory, thread, missed>>

Null == [type |-> "none", asked |-> 0, block |-> None]
Idle == [at |-> "idle", class |-> 0, ref |-> None, asked |-> 0, block |-> None]

Init == /\ pool = [i \in Classes |-> BlocksOf(i)]
        /\ useCount = [i \in Classes |-> 0]
        /\ remainCount = [i \in Classes |-> Len(BlocksOf(i)) % CountMod]
        /\ memory = [r \in Refs |-> Null]
        /\ thread = [t \in Threads |-> Idle]
        /\ missed = [i \in Classes |-> 0]

\* The least class whose blocks are large enough.
SizeToIndex(size) == CHOOSE i \in Classes : /\ size <= BlockSize[i]
                                            /\ \A j \in 1 .. i - 1 : size > BlockSize[j]

Add(count, i, n) == [count EXCEPT ![i] = (@ + n) % CountMod]
Goto(t, at) == thread' = [thread EXCEPT ![t].at = at]

-----------------------------------------------------------------------------
(* Allocate *)

\* The thread returns with memory behind its pointer.
Attach(t, r, type, asked, b) ==
  /\ memory' = [memory EXCEPT ![r] = [type |-> type, asked |-> asked, block |-> b]]
  /\ thread' = [thread EXCEPT ![t] = Idle]

\* A large request goes to VirtualAlloc, others to the pool of their class.
Allocate(t, r, size) ==
  /\ thread[t] = Idle
  /\ memory[r] = Null /\ \A u \in Threads : thread[u].ref # r
  /\ \/ /\ size > MaxBlockSize
        /\ Attach(t, r, "virtual", size, None)
     \/ /\ size <= MaxBlockSize
        /\ thread' = [thread EXCEPT ![t] =
             [at |-> "test", class |-> SizeToIndex(size), ref |-> r, asked |-> size, block |-> None]]
        /\ UNCHANGED memory
  /\ UNCHANGED <<pool, useCount, remainCount, missed>>

\* The pool gave nothing: malloc.
Malloc(t) == Attach(t, thread[t].ref, "malloc", thread[t].asked, None)

\* MemoryPool::Pop: Empty looks under the list's lock ...
PopTest(t) ==
  /\ thread[t].at = "test"
  /\ \/ pool[thread[t].class] = <<>> /\ Malloc(t)
     \/ pool[thread[t].class] # <<>> /\ Goto(t, "use") /\ UNCHANGED memory
  /\ UNCHANGED <<pool, useCount, remainCount, missed>>

\* ... the counters follow ...
PopUse(t) ==
  /\ thread[t].at = "use"
  /\ useCount' = Add(useCount, thread[t].class, 1)
  /\ Goto(t, "remain")
  /\ UNCHANGED <<pool, remainCount, memory, missed>>

PopRemain(t) ==
  /\ thread[t].at = "remain"
  /\ remainCount' = Add(remainCount, thread[t].class, CountMod - 1)
  /\ Goto(t, "take")
  /\ UNCHANGED <<pool, useCount, memory, missed>>

\* Mutant: the block is looked at and left on the stack.
Top(i) == pool' = pool
\* ... and the list's lock is taken again; another thread may have been faster.
Pop(i) == pool' = [pool EXCEPT ![i] = Front(@)]

PopTake(t) ==
  /\ thread[t].at = "take"
  /\ LET i == thread[t].class IN
       \/ /\ pool[i] # <<>>
          /\ Pop(i)
          /\ Attach(t, thread[t].ref, "pool", thread[t].asked, Last(pool[i]))
          /\ UNCHANGED missed
       \/ /\ pool[i] = <<>>
          /\ Malloc(t)
          /\ missed' = Add(missed, i, 1)
          /\ UNCHANGED pool
  /\ UNCHANGED <<useCount, remainCount>>

-----------------------------------------------------------------------------
(* Release *)

\* Large memory is passed to VirtualFree by the address of its data, which is
\* not where the region begins: VirtualFree refuses it, and the region is never
\* freed.
ReleaseLarge(t, r) ==
  /\ thread[t] = Idle
  /\ memory[r].type = "virtual"
  /\ memory' = [memory EXCEPT ![r] = Null]
  /\ UNCHANGED <<pool, useCount, remainCount, thread, missed>>

ReleaseMalloc(t, r) ==
  /\ thread[t] = Idle
  /\ memory[r].type = "malloc"
  /\ memory' = [memory EXCEPT ![r] = Null]
  /\ UNCHANGED <<pool, useCount, remainCount, thread, missed>>

\* A block goes back to the pool of the size in its header.
ReleasePool(t, r) ==
  /\ thread[t] = Idle
  /\ memory[r].type = "pool"
  /\ LET b == memory[r].block IN
       thread' = [thread EXCEPT ![t] = [Idle EXCEPT !.at = "unuse",
                                                    !.class = SizeToIndex(AllocSize(b)),
                                                    !.block = b]]
  /\ memory' = [memory EXCEPT ![r] = Null]
  /\ UNCHANGED <<pool, useCount, remainCount, missed>>

\* Mutant: a block is pushed as by PushChunk, without counting.
PushUncounted(t) ==
  /\ thread[t].at = "unuse"
  /\ Goto(t, "unremain")
  /\ UNCHANGED <<pool, useCount, remainCount, memory, missed>>

\* MemoryPool::Push: the counters first, then the list.
PushUse(t) ==
  /\ thread[t].at = "unuse"
  /\ useCount' = Add(useCount, thread[t].class, CountMod - 1)
  /\ Goto(t, "unremain")
  /\ UNCHANGED <<pool, remainCount, memory, missed>>

PushRemain(t) ==
  /\ thread[t].at = "unremain"
  /\ remainCount' = Add(remainCount, thread[t].class, 1)
  /\ Goto(t, "back")
  /\ UNCHANGED <<pool, useCount, memory, missed>>

PushBack(t) ==
  /\ thread[t].at = "back"
  /\ pool' = [pool EXCEPT ![thread[t].class] = Append(@, thread[t].block)]
  /\ thread' = [thread EXCEPT ![t] = Idle]
  /\ UNCHANGED <<useCount, remainCount, memory, missed>>

-----------------------------------------------------------------------------

Next == \E t \in Threads :
          \/ \E r \in Refs : \/ \E size \in Requests : Allocate(t, r, size)
                             \/ ReleaseLarge(t, r)
                             \/ ReleaseMalloc(t, r)
                             \/ ReleasePool(t, r)
          \/ PopTest(t) \/ PopUse(t) \/ PopRemain(t) \/ PopTake(t)
          \/ PushUse(t) \/ PushRemain(t) \/ PushBack(t)

Spec == Init /\ [][Next]_vars

-----------------------------------------------------------------------------
(* Properties *)

Popping(i, places) == {t \in Threads : thread[t].class = i /\ thread[t].at \in places}
Lent(i) == {r \in Refs : memory[r].type = "pool" /\ memory[r].block \in ToSet(BlocksOf(i))}

\* What a pointer may lead to: only the memory of the pools is a block.
Memories == {Null} \cup [type : {"pool"}, asked : Nat, block : Blocks]
                   \cup [type : {"malloc", "virtual"}, asked : Nat, block : {None}]

\* A thread has a pointer while it allocates and a block while it returns one.
Allocating == [at : {"test", "use", "remain", "take"}, class : Classes, ref : Refs,
               asked : Nat, block : {None}]
Returning == [at : {"unuse", "unremain", "back"}, class : Classes, ref : {None},
              asked : {0}, block : Blocks]

\* Types.
TypeOK ==
  /\ pool \in [Classes -> Seq(Blocks)]
  /\ useCount \in [Classes -> 0 .. CountMod - 1]
  /\ remainCount \in [Classes -> 0 .. CountMod - 1]
  /\ missed \in [Classes -> 0 .. CountMod - 1]
  /\ memory \in [Refs -> Memories]
  /\ thread \in [Threads -> {Idle} \cup Allocating \cup Returning]

\* Every block of the chunk is in exactly one place: on the stack of its size
\* and there once, behind one pointer, or with the thread that returns it.  Two
\* threads that saw the same last block do not both get it.
OnePlace ==
  /\ TypeOK
  /\ \A i \in Classes : \A b \in ToSet(BlocksOf(i)) :
       LET onStack == {n \in DOMAIN pool[i] : pool[i][n] = b}
           behind == {r \in Refs : memory[r].block = b}
           returned == {t \in Threads : thread[t].block = b}
       IN  /\ \A j \in Classes \ {i} : b \notin ToSet(pool[j])
           /\ Cardinality(onStack) + Cardinality(behind) + Cardinality(returned) = 1

\* The bytes promised to the owner of a pointer are its own: with their header
\* they end before the next block begins, and within the chunk; what malloc and
\* VirtualAlloc were asked for has room for both.
RoomEnough ==
  \A r \in Refs :
    LET needed == HeaderSize + memory[r].asked
        end == memory[r].block + needed
    IN  IF memory[r].type = "pool"
        THEN end <= ChunkSize /\ \A b \in Blocks : b > memory[r].block => end <= b
        ELSE memory[r].type # "none" => needed <= GetRealSize(memory[r].asked)

\* The counters agree with the lists as far as they can: they differ by the
\* steps of the threads inside Pop and Push, and for ever by one for each pop
\* that found its pool emptied after it had counted.
CountersAgree ==
  \A i \in Classes :
    /\ useCount[i] = (Cardinality(Lent(i)) + missed[i]
                      + Cardinality(Popping(i, {"remain", "take", "unuse"}))) % CountMod
    /\ remainCount[i] = (Len(pool[i]) - missed[i] - Cardinality(Popping(i, {"take"}))
                         + Cardinality(Popping(i, {"back"}))) % CountMod

=============================================================================
