---------------------------- MODULE BootUf2_proofs ----------------------------
(***************************************************************************)
(* Proofs about BootUf2: if nothing goes wrong on the wire and in the flash,  *)
(* a reset means that a file is installed, for any files, sectors and cache.  *)
(***************************************************************************)
EXTENDS BootUf2, Integers, TLAPS

\* The first slot that is not in the flash yet.
Flushed == written - bytes

\* Outside the boot loader its RAM is that after a start.
RamIsFresh ==
    power # "boot" => total = 0 /\ written = 0 /\ bytes = 0 /\ erased = {} /\ task = "poll"

\* Blocks were counted without gaps, and those of two files never as one.
Counting ==
    /\ mask = 0..(written - 1)
    /\ \A f \in Files : sent[f] <= written
    /\ total \in {0, Never} \/ \E f \in Files : total = Count[f]
    /\ total # Never => written <= total
    /\ task # "poll" => total = Never \/ (total > 0 /\ written >= total)

\* The cache holds the blocks that were counted last.  Until the boot loader
\* is about to reset the chip, it begins at a chunk, what is behind it in an
\* erased sector is erased, and all before it is in erased sectors.
Caching ==
    /\ bytes > 0 => address + bytes = written
    /\ task # "end" =>
         /\ IF bytes > 0 THEN Aligned(address) ELSE written = 0
         /\ \A s \in Slots : s >= Flushed /\ SectorOf[s] \in erased => flash[s] = "erased"
         /\ \A s \in Slots : s < Flushed => SectorOf[s] \in erased

\* Block i of file f is where it belongs.
Holds(f, i) == IF i < Flushed THEN flash[i] = f ELSE cache[i - address] = f

\* While the boot loader waits, all blocks counted are of one file and held.
Copying ==
    task = "poll" => \A f \in Files : total = Count[f] => \A i \in 0..(written - 1) : Holds(f, i)

\* Where Task is with the last flush of file f.
LastFlush(f) ==
    /\ task = "call" => call.address = address /\ call.size = bytes
    /\ task = "program" =>
         /\ SectorOf[call.address] \in erased
         /\ IF unlocked THEN /\ call.address = address /\ call.size > 0 /\ call.size <= bytes
                             /\ Count[f] <= address + call.size
                        ELSE Count[f] <= Flushed
    /\ task = "end" => Count[f] <= Flushed /\ \A i \in 0..(Count[f] - 1) : SectorOf[i] \in erased

Complete(f) ==
    /\ Count[f] <= written
    /\ \A i \in 0..(Count[f] - 1) : Holds(f, i)
    /\ total \in {Count[f], Never}
    /\ LastFlush(f)

Finishing == task # "poll" => \E f \in Files : Complete(f)

\* The inductive invariant.
Inv ==
    /\ TypeOK /\ RamIsFresh /\ Counting /\ Caching /\ Copying /\ Finishing
    /\ ResetMeansInstalled

(***************************************************************************)
(* Chunks and sectors                                                      *)
(***************************************************************************)

LEMMA CountType ==
    \A f \in Files : Count[f] \in Nat /\ Count[f] >= 1 /\ Count[f] <= Last + 1 /\ Count[f] # Never
  <1> TAKE f \in Files
  <1>1. Count[f] \in 1..(Last + 1)
    BY FilesAssumption
  <1> QED
    BY <1>1, FilesAssumption DEF Never

LEMMA AlignedFirst == Aligned(0)
  BY LayoutAssumption DEF Aligned

LEMMA AlignedNext ==
    ASSUME NEW a \in Nat, Aligned(a)
    PROVE  Aligned(a + Chunk)
  <1>1. PICK k \in 0..a : a = k * Chunk
    BY DEF Aligned
  <1>2. a + Chunk = (k + 1) * Chunk
    BY <1>1, LayoutAssumption
  <1>3. k + 1 \in 0..(a + Chunk)
    BY LayoutAssumption
  <1> QED
    BY <1>2, <1>3 DEF Aligned

\* The slots of the cache are in one sector.
LEMMA ChunkInSector ==
    ASSUME TypeOK, Aligned(address), NEW s \in Slots, s >= address, s < address + Chunk
    PROVE  SectorOf[s] = SectorOf[address]
  <1>1. address \in Slots /\ s - address \in 0..(Chunk - 1) /\ address + (s - address) = s
    BY FilesAssumption, LayoutAssumption DEF TypeOK, Slots
  <1> QED
    BY <1>1, LayoutAssumption

\* A flush does not touch what was flushed before, if its sector was erased.
LEMMA FlushKeeps ==
    ASSUME TypeOK, bytes > 0, address + bytes = written, Flush,
           NEW s \in Slots, s < Flushed, SectorOf[s] \in erased
    PROVE  flash'[s] = flash[s]
  <1>1. s < address
    BY FilesAssumption, LayoutAssumption DEF TypeOK, Slots, Flushed
  <1> QED
    BY <1>1, FilesAssumption DEF Flush, Program, Erased, TypeOK, Slots

\* What a flush of an aligned cache does to the rest of the flash.
LEMMA FlushAligned ==
    ASSUME TypeOK, Caching, task # "end", bytes > 0, Flush
    PROVE  /\ \A s \in Slots : s < Flushed => flash'[s] = flash[s]
           /\ \A s \in Slots : s >= Flushed /\ s < written => flash'[s] = cache[s - address]
           /\ \A s \in Slots : s >= written /\ SectorOf[s] \in erased' => flash'[s] = "erased"
           /\ \A s \in Slots : s < written => SectorOf[s] \in erased'
  <1> USE FilesAssumption, LayoutAssumption
  <1>1. Aligned(address) /\ address + bytes = written /\ Flushed = address /\ bytes <= Chunk
    BY DEF Caching, TypeOK, Slots, Flushed
  <1>2. address \in Nat /\ bytes \in Nat /\ written \in Nat
    BY DEF TypeOK, Slots
  <1>3. \A s \in Slots : s >= address /\ s < written => SectorOf[s] = SectorOf[address]
    BY <1>1, <1>2, ChunkInSector DEF Slots
  <1>4. erased' = erased \cup {SectorOf[address]}
    BY DEF Flush
  <1>5. ASSUME NEW s \in Slots, s < Flushed PROVE flash'[s] = flash[s]
    BY <1>1, <1>5, FlushKeeps DEF Caching
  <1> DEFINE after == Erased(flash, erased, SectorOf[address])
  <1>6. flash' = Program(after, address, bytes)
    BY DEF Flush
  <1>7. ASSUME NEW s \in Slots
        PROVE  flash'[s] = IF s >= address /\ s < address + bytes THEN Programmed(after[s], cache[s - address]) ELSE after[s]
    BY <1>6 DEF Program
  <1>8. ASSUME NEW s \in Slots
        PROVE  after[s] = IF SectorOf[s] = SectorOf[address] /\ SectorOf[address] \notin erased THEN "erased" ELSE flash[s]
    BY DEF Erased
  <1> HIDE DEF after
  <1>9. ASSUME NEW s \in Slots, s >= Flushed, SectorOf[s] \in erased' PROVE after[s] = "erased"
    <2>1. CASE SectorOf[s] \in erased
      BY <1>8, <1>9, <2>1 DEF Caching
    <2>2. CASE SectorOf[s] = SectorOf[address] /\ SectorOf[address] \notin erased
      BY <1>8, <2>2
    <2> QED BY <1>4, <1>9, <2>1, <2>2
  <1>10. ASSUME NEW s \in Slots, s >= Flushed, s < written PROVE flash'[s] = cache[s - address]
    <2>1. after[s] = "erased"
      BY <1>1, <1>3, <1>4, <1>9, <1>10
    <2> QED
      BY <1>1, <1>7, <1>10, <2>1 DEF Programmed
  <1>11. ASSUME NEW s \in Slots, s >= written, SectorOf[s] \in erased' PROVE flash'[s] = "erased"
    <2>1. s >= Flushed /\ ~(s < address + bytes)
      BY <1>1, <1>2, <1>11 DEF Slots
    <2> QED
      BY <1>7, <1>9, <1>11, <2>1
  <1>12. ASSUME NEW s \in Slots, s < written PROVE SectorOf[s] \in erased'
    <2>1. CASE s < Flushed
      BY <1>4, <2>1 DEF Caching
    <2>2. CASE s >= address
      BY <1>3, <1>4, <1>12, <2>2
    <2> QED BY <1>1, <1>2, <2>1, <2>2 DEF Slots
  <1> QED
    BY <1>5, <1>10, <1>11, <1>12

(***************************************************************************)
(* A block of the host                                                     *)
(***************************************************************************)

\* A block that is taken is the next one, and is put behind those in the cache
\* or, if that is full, into an empty one.
Taken(f) ==
    /\ power = "boot" /\ written < Count[f] /\ sent[f] <= written
    /\ written' = written + 1 /\ mask' = mask \cup {written}
    /\ total' = TotalAfter(Count[f])
    /\ sent' = [sent EXCEPT ![f] = written + 1]
    /\ UNCHANGED <<power, task, call, only>>
    /\ \/ /\ bytes = Chunk /\ Flush
          /\ address' = written /\ bytes' = 1 /\ cache' = [cache EXCEPT ![0] = f]
       \/ /\ bytes < Chunk /\ UNCHANGED <<flash, erased, unlocked>>
          /\ address' = Flushed /\ bytes' = bytes + 1 /\ cache' = [cache EXCEPT ![bytes] = f]

LEMMA BlockIsNext ==
    ASSUME Inv, Faults = {}, NEW f \in Files, NEW i \in 0..(Count[f] - 1), WriteSector(f, i), Writable(i)
    PROVE  Taken(f)
  <1> USE FilesAssumption, LayoutAssumption
  <1>1. sent[f] <= written /\ i <= sent[f] /\ i \notin mask /\ mask = 0..(written - 1)
    BY DEF WriteSector, InOrder, Writable, Inv, Counting
  <1>2. written \in Nat /\ bytes \in Nat /\ bytes <= Chunk /\ address \in Nat /\ sent[f] \in Nat
    BY DEF Inv, TypeOK, Slots
  <1>3. i = written /\ sent[f] = written
    BY <1>1, <1>2, CountType
  <1>4. FlushFirst(i) <=> bytes = Chunk
    BY <1>2, <1>3 DEF FlushFirst, Inv, Caching
  <1>5. Account(f, i) /\ Store(f, i)
    BY DEF WriteSector, StoreFails
  <1>6. written < Count[f]
    BY <1>2, <1>3, CountType
  <1>7. sent' = [sent EXCEPT ![f] = written + 1]
    <2>1. sent' = [sent EXCEPT ![f] = IF i < sent[f] THEN sent[f] ELSE i + 1]
      BY DEF WriteSector
    <2>2. (IF i < sent[f] THEN sent[f] ELSE i + 1) = written + 1
      BY <1>2, <1>3
    <2> QED
      BY <2>1, <2>2, Zenon
  <1>8. power = "boot" /\ UNCHANGED <<power, task, call, only>>
    BY DEF WriteSector
  <1>9. CASE bytes = Chunk
    <2>1. Flush /\ Insert(f, i, 0)
      BY <1>4, <1>5, <1>9 DEF Store
    <2> QED
      BY <1>2, <1>3, <1>5, <1>6, <1>7, <1>8, <1>9, <2>1 DEF Taken, Insert, Account
  <1>10. CASE bytes # Chunk
    <2>1. Insert(f, i, bytes) /\ UNCHANGED <<flash, erased, unlocked>>
      BY <1>4, <1>5, <1>10 DEF Store
    <2>2. bytes < Chunk
      BY <1>2, <1>10
    <2> QED
      BY <1>2, <1>3, <1>5, <1>6, <1>7, <1>8, <2>1, <2>2 DEF Taken, Insert, Account, Flushed
  <1> QED
    BY <1>9, <1>10

LEMMA TakenTypes ==
    ASSUME Inv, NEW f \in Files, Taken(f)
    PROVE  TypeOK'
  <1> USE FilesAssumption, LayoutAssumption
  <1>1. written \in Nat /\ bytes \in Nat /\ bytes <= Chunk /\ address \in Nat
    BY DEF Inv, TypeOK, Slots
  <1>2. written' \in 0..(Last + 1) /\ written \in Slots
    BY <1>1, CountType DEF Taken, Slots
  <1>3. total' \in 0..Never
    BY CountType DEF Taken, TotalAfter, Never
  <1>4. mask' \subseteq Slots
    BY <1>2 DEF Inv, TypeOK, Taken
  <1>5. sent' \in [Files -> 0..(Last + 1)]
    BY <1>2 DEF Inv, TypeOK, Taken
  <1>6. cache' \in [0..(Chunk - 1) -> Contents]
    BY DEF Inv, TypeOK, Taken, Contents
  <1>7. address' \in Slots /\ bytes' \in 0..Chunk
    BY <1>1, <1>2 DEF Inv, Caching, Taken, Flushed, Slots
  <1>8. erased' \subseteq Sectors /\ flash' \in [Slots -> Contents]
    <2>1. CASE Flush
      <3>1. SectorOf[address] \in Sectors
        BY DEF Inv, TypeOK, Sectors
      <3>2. \A s \in Slots : s >= address /\ s < address + bytes => s - address \in 0..(Chunk - 1)
        BY <1>1 DEF Slots
      <3>3. Erased(flash, erased, SectorOf[address]) \in [Slots -> Contents]
        BY DEF Erased, Inv, TypeOK, Contents
      <3>4. flash' \in [Slots -> Contents]
        BY <2>1, <3>2, <3>3 DEF Flush, Program, Programmed, Inv, TypeOK, Contents
      <3> QED
        BY <2>1, <3>1, <3>4 DEF Flush, Inv, TypeOK
    <2>2. CASE UNCHANGED <<flash, erased, unlocked>>
      BY <2>2 DEF Inv, TypeOK
    <2> QED
      BY <2>1, <2>2 DEF Taken
  <1>9. unlocked' \in BOOLEAN
    <2>1. unlocked' = FALSE \/ unlocked' = unlocked
      BY DEF Taken, Flush
    <2>2. unlocked \in BOOLEAN
      BY DEF Inv, TypeOK
    <2> QED
      BY <2>1, <2>2
  <1>10. /\ power' \in {"off", "boot", "reset", "main", "hang"}
         /\ task' \in {"poll", "flush", "call", "program", "end"}
         /\ call' \in [address : Slots, size : 0..Chunk]
         /\ only' \in Files \cup {"any"}
    BY DEF Taken, Inv, TypeOK
  <1> QED
    BY <1>2, <1>3, <1>4, <1>5, <1>6, <1>7, <1>8, <1>9, <1>10 DEF TypeOK

\* What was held is still held.
LEMMA TakenHolds ==
    ASSUME Inv, NEW f \in Files, Taken(f), NEW g \in Files, NEW j \in 0..(written - 1), Holds(g, j),
           task = "end" => j < Flushed /\ SectorOf[j] \in erased
    PROVE  Holds(g, j)'
  <1> USE FilesAssumption, LayoutAssumption
  <1>1. /\ written \in Nat /\ bytes \in Nat /\ bytes <= Chunk /\ address \in Nat
        /\ written <= Last + 1 /\ j \in Slots /\ j < written
    BY DEF Inv, TypeOK, Slots
  <1>2. CASE bytes = Chunk /\ Flush
    <2>1. Flushed' = written
      BY <1>1, <1>2 DEF Taken, Flushed
    <2>2. bytes > 0 /\ address + bytes = written
      BY <1>1, <1>2 DEF Inv, Caching
    <2>3. flash'[j] = g
      <3>1. CASE task = "end"
        BY <1>1, <1>2, <2>2, <3>1, FlushKeeps DEF Holds, Inv
      <3>2. CASE task # "end" /\ j < Flushed
        BY <1>1, <1>2, <2>2, <3>2, FlushAligned DEF Holds, Inv
      <3>3. CASE task # "end" /\ ~(j < Flushed)
        <4>1. j >= Flushed
          BY <1>1, <3>3 DEF Flushed
        <4> QED
          BY <1>1, <1>2, <2>2, <3>3, <4>1, FlushAligned DEF Holds, Inv
      <3> QED
        BY <3>1, <3>2, <3>3
    <2> QED
      BY <1>1, <2>1, <2>3 DEF Holds
  <1>3. CASE bytes < Chunk /\ UNCHANGED <<flash, erased, unlocked>>
    <2>1. /\ Flushed' = Flushed /\ address' = Flushed
          /\ cache' = [cache EXCEPT ![bytes] = f]
      BY <1>1, <1>3 DEF Taken, Flushed
    <2>2. CASE j < Flushed
      BY <1>3, <2>1, <2>2 DEF Holds
    <2>3. CASE ~(j < Flushed)
      <3>1. bytes > 0 /\ address = Flushed
        BY <1>1, <2>3 DEF Inv, Caching, Flushed
      <3>2. j - address \in 0..(Chunk - 1) /\ j - address # bytes
        BY <1>1, <2>3, <3>1 DEF Flushed
      <3>3. cache'[j - address] = cache[j - address]
        BY <2>1, <3>2 DEF Inv, TypeOK
      <3> QED
        BY <2>1, <2>3, <3>1, <3>3 DEF Holds
    <2> QED
      BY <2>2, <2>3
  <1> QED
    BY <1>2, <1>3 DEF Taken

LEMMA TakenCounting ==
    ASSUME Inv, NEW f \in Files, Taken(f)
    PROVE  Counting'
  <1> USE FilesAssumption, CountType
  <1>1. written \in Nat /\ total \in Nat
    BY DEF Inv, TypeOK, Never
  <1>2. mask' = 0..(written' - 1)
    <2>1. mask = 0..(written - 1) /\ mask' = mask \cup {written} /\ written' = written + 1
      BY DEF Inv, Counting, Taken
    <2>2. 0..(written - 1) \cup {written} = 0..written /\ written' - 1 = written
      BY <1>1, <2>1
    <2> QED
      BY <2>1, <2>2
  <1>3. \A g \in Files : sent'[g] <= written'
    <2> TAKE g \in Files
    <2>1. sent[g] <= written /\ sent[g] \in Nat
      BY DEF Inv, Counting, TypeOK
    <2>2. sent'[g] = IF g = f THEN written + 1 ELSE sent[g]
      BY DEF Taken, Inv, TypeOK
    <2> QED
      BY <1>1, <2>1, <2>2 DEF Taken
  <1>4. total' \in {Count[f], Never} /\ (total \notin {0, Count[f]} => total' = Never)
    BY <1>1 DEF Taken, TotalAfter
  <1>5. total' # Never => written' <= total'
    BY <1>1, <1>4 DEF Taken
  <1>6. task' # "poll" => total' = Never \/ (total' > 0 /\ written' >= total')
    <2>1. Never # 0 /\ Count[f] # Never
      BY DEF Never
    <2>2. written < Count[f] /\ task' = task
      BY DEF Taken
    <2>3. task # "poll" => total = Never \/ (total > 0 /\ written >= total)
      BY DEF Inv, Counting
    <2>4. Count[f] \in Nat
      OBVIOUS
    <2>5. task # "poll" => total \notin {0, Count[f]}
      BY <1>1, <2>1, <2>2, <2>3, <2>4
    <2> QED
      BY <1>4, <2>2, <2>5
  <1> QED
    BY <1>2, <1>3, <1>4, <1>5, <1>6 DEF Counting

LEMMA TakenCaching ==
    ASSUME Inv, NEW f \in Files, Taken(f)
    PROVE  Caching'
  <1> USE FilesAssumption, LayoutAssumption
  <1>1. written \in Nat /\ bytes \in Nat /\ bytes <= Chunk /\ address \in Nat /\ Caching
    BY DEF Inv, TypeOK, Slots
  <1>2. CASE bytes = Chunk /\ Flush
    <2>1. bytes > 0 /\ address + bytes = written
      BY <1>1, <1>2 DEF Caching
    <2>2. Flushed' = written /\ bytes' = 1 /\ address' = written /\ written' = written + 1 /\ task' = task
      BY <1>1, <1>2 DEF Taken, Flushed
    <2>3. task # "end" => Aligned(written)
      BY <1>1, <1>2, <2>1, AlignedNext DEF Caching
    <2>4. task # "end" => /\ \A s \in Slots : s >= written /\ SectorOf[s] \in erased' => flash'[s] = "erased"
                          /\ \A s \in Slots : s < written => SectorOf[s] \in erased'
      BY <1>2, <2>1, FlushAligned DEF Inv
    <2>5. Aligned(address)' <=> Aligned(written)
      BY <2>2 DEF Aligned
    <2> QED
      BY <1>1, <2>2, <2>3, <2>4, <2>5 DEF Caching
  <1>3. CASE bytes < Chunk /\ UNCHANGED <<flash, erased, unlocked>>
    <2>1. /\ Flushed' = Flushed /\ address' = Flushed /\ bytes' = bytes + 1
          /\ written' = written + 1 /\ task' = task
      BY <1>1, <1>3 DEF Taken, Flushed
    <2>2. address' + bytes' = written' /\ bytes' > 0
      BY <1>1, <2>1 DEF Flushed
    <2>3. task # "end" => Aligned(address)'
      <3>1. CASE bytes > 0
        <4>1. address' = address
          BY <1>1, <2>1, <3>1 DEF Caching, Flushed
        <4> QED
          BY <1>1, <3>1, <4>1 DEF Caching, Aligned
      <3>2. CASE bytes = 0 /\ task # "end"
        <4>1. address' = 0
          BY <1>1, <2>1, <3>2 DEF Caching, Flushed
        <4> QED
          BY <4>1, AlignedFirst DEF Aligned
      <3> QED
        BY <1>1, <3>1, <3>2
    <2> QED
      BY <1>1, <1>3, <2>1, <2>2, <2>3 DEF Caching
  <1> QED
    BY <1>2, <1>3 DEF Taken

LEMMA TakenCopying ==
    ASSUME Inv, NEW f \in Files, Taken(f)
    PROVE  Copying'
  <1> USE FilesAssumption, LayoutAssumption
  <1>1. /\ written \in Nat /\ bytes \in Nat /\ bytes <= Chunk /\ address \in Nat
        /\ written' = written + 1 /\ task' = task
    BY DEF Inv, TypeOK, Slots, Taken
  <1> SUFFICES ASSUME task = "poll", NEW g \in Files, total' = Count[g], NEW j \in 0..written
               PROVE  Holds(g, j)'
    BY <1>1 DEF Copying
  <1>2. g = f /\ (total = Count[f] \/ written = 0)
    <2>1. Count[g] # Never /\ Count[f] # Never
      BY CountType
    <2>2. total' = Count[f] /\ (total = Count[f] \/ total = 0)
      BY <2>1 DEF Taken, TotalAfter
    <2>3. total = 0 => written = 0
      BY <1>1 DEF Inv, Counting, Never
    <2> QED
      BY <2>2, <2>3
  <1>3. CASE j < written
    <2>1. Holds(f, j)
      BY <1>1, <1>2, <1>3 DEF Inv, Copying
    <2> QED
      BY <1>1, <1>2, <1>3, <2>1, TakenHolds
  <1>4. CASE j = written
    <2>1. CASE bytes = Chunk /\ Flush
      <3>1. Flushed' = written /\ address' = written /\ cache' = [cache EXCEPT ![0] = f]
        BY <1>1, <2>1 DEF Taken, Flushed
      <3>2. cache'[0] = f /\ j - address' = 0 /\ ~(j < Flushed')
        BY <1>1, <1>4, <3>1 DEF Inv, TypeOK
      <3> QED
        BY <1>2, <3>2 DEF Holds
    <2>2. CASE bytes < Chunk /\ UNCHANGED <<flash, erased, unlocked>>
      <3>1. Flushed' = Flushed /\ address' = Flushed /\ cache' = [cache EXCEPT ![bytes] = f]
        BY <1>1, <2>2 DEF Taken, Flushed
      <3>2. cache'[bytes] = f
        BY <1>1, <2>2, <3>1 DEF Inv, TypeOK
      <3>3. j - address' = bytes /\ ~(j < Flushed')
        BY <1>1, <1>4, <3>1 DEF Flushed
      <3> QED
        BY <1>2, <3>2, <3>3 DEF Holds
    <2> QED
      BY <2>1, <2>2 DEF Taken
  <1> QED
    BY <1>1, <1>3, <1>4

LEMMA TakenFinishing ==
    ASSUME Inv, NEW f \in Files, Taken(f), task = "call" => total = Count[f]
    PROVE  Finishing'
  <1> USE FilesAssumption, LayoutAssumption
  <1>1. /\ written \in Nat /\ bytes \in Nat /\ bytes <= Chunk /\ address \in Nat
        /\ written' = written + 1 /\ task' = task /\ call' = call
    BY DEF Inv, TypeOK, Slots, Taken
  <1> SUFFICES ASSUME task # "poll"
               PROVE  \E g \in Files : Complete(g)'
    BY <1>1 DEF Finishing
  <1>2. PICK g \in Files : Complete(g)
    BY DEF Inv, Finishing
  <1>3. Count[g] \in Nat /\ Count[g] >= 1 /\ Count[g] <= written /\ written < Count[f]
    BY <1>2, CountType DEF Complete, Taken
  <1>4. total' = Never
    BY <1>1, <1>2, <1>3, CountType DEF Taken, TotalAfter, Complete, Never
  <1>5. task # "call"
    <2>1. Count[f] # Never /\ Count[f] \in Nat
      BY CountType
    <2>2. total \in {Count[g], Never}
      BY <1>2 DEF Complete
    <2>3. Count[f] # Count[g]
      BY <1>1, <1>3, <2>1
    <2> QED
      BY <2>1, <2>2, <2>3
  <1>6. ASSUME NEW j \in 0..(Count[g] - 1) PROVE Holds(g, j)'
    <2>1. j \in 0..(written - 1) /\ Holds(g, j)
      BY <1>1, <1>2, <1>3 DEF Complete
    <2>2. task = "end" => j < Flushed /\ SectorOf[j] \in erased
      BY <1>1, <1>2, <1>3 DEF Complete, LastFlush, Flushed
    <2> QED
      BY <2>1, <2>2, TakenHolds
  <1>7. Flushed' >= Flushed /\ Flushed \in Int /\ Flushed' \in Int /\ erased \subseteq erased'
    BY <1>1 DEF Taken, Flushed, Flush
  <1>8. task = "program" => LastFlush(g)'
    <2>1. CASE Flush /\ bytes = Chunk /\ task = "program"
      <3>1. unlocked' = FALSE /\ Flushed' = written
        BY <1>1, <2>1 DEF Flush, Taken, Flushed
      <3>2. SectorOf[call.address] \in erased
        BY <1>2, <2>1 DEF Complete, LastFlush
      <3> QED
        BY <1>1, <1>3, <1>7, <2>1, <3>1, <3>2 DEF LastFlush
    <2>2. CASE bytes < Chunk /\ UNCHANGED <<flash, erased, unlocked>> /\ task = "program"
      <3>1. bytes' = bytes + 1 /\ address' = Flushed
        BY <1>1, <2>2 DEF Taken
      <3>2. CASE unlocked
        <4>1. /\ call.address = address /\ call.size > 0 /\ call.size <= bytes
              /\ Count[g] <= address + call.size /\ SectorOf[call.address] \in erased
          BY <1>2, <2>2, <3>2 DEF Complete, LastFlush
        <4>2. call.size \in Nat
          BY DEF Inv, TypeOK
        <4>3. address' = address /\ call.size <= bytes'
          BY <1>1, <3>1, <4>1, <4>2 DEF Inv, Caching, Flushed
        <4> QED
          BY <1>1, <2>2, <3>2, <4>1, <4>3 DEF LastFlush
      <3>3. CASE ~unlocked
        <4>1. Count[g] <= Flushed /\ SectorOf[call.address] \in erased
          BY <1>2, <2>2, <3>3 DEF Complete, LastFlush
        <4> QED
          BY <1>1, <1>3, <1>7, <2>2, <3>3, <4>1 DEF LastFlush
      <3> QED
        BY <3>2, <3>3
    <2> QED
      BY <2>1, <2>2 DEF Taken
  <1>9. task = "end" => LastFlush(g)'
    BY <1>1, <1>2, <1>3, <1>7 DEF Complete, LastFlush
  <1>10. task \notin {"program", "end"} => LastFlush(g)'
    BY <1>1, <1>5 DEF LastFlush
  <1>11. Count[g] <= written'
    BY <1>1, <1>3
  <1> QED
    BY <1>4, <1>6, <1>8, <1>9, <1>10, <1>11 DEF Complete

LEMMA BlockStep ==
    ASSUME Inv, Faults = {}, NEW f \in Files, NEW i \in 0..(Count[f] - 1), WriteSector(f, i)
    PROVE  Inv'
  <1>1. CASE Writable(i)
    <2>1. Taken(f)
      BY <1>1, BlockIsNext
    <2>2. task = "call" => total = Count[f]
      BY DEF WriteSector, Disturbs
    <2>3. RamIsFresh' /\ ResetMeansInstalled'
      BY <2>1 DEF Taken, RamIsFresh, ResetMeansInstalled
    <2> QED
      BY <2>1, <2>2, <2>3, TakenTypes, TakenCounting, TakenCaching, TakenCopying, TakenFinishing DEF Inv
  <1>2. CASE ~Writable(i)
    <2>1. /\ sent' = [sent EXCEPT ![f] = IF i < sent[f] THEN sent[f] ELSE i + 1]
          /\ UNCHANGED <<power, total, mask, written, address, bytes, cache, erased, unlocked, task, call, flash, only>>
      BY <1>2 DEF WriteSector
    <2>2. written \in Nat /\ sent[f] \in 0..(Last + 1) /\ sent[f] <= written /\ mask = 0..(written - 1) /\ Last \in Nat
      BY FilesAssumption DEF Inv, TypeOK, Counting
    <2>3. i \in 0..(written - 1) /\ i + 1 \in 0..(Last + 1)
      BY <1>2, <2>2, CountType DEF Writable
    <2>4. sent' \in [Files -> 0..(Last + 1)] /\ \A g \in Files : sent'[g] <= written
      <3> DEFINE n == IF i < sent[f] THEN sent[f] ELSE i + 1
      <3>1. n \in 0..(Last + 1) /\ n <= written
        BY <2>2, <2>3
      <3>2. sent' = [sent EXCEPT ![f] = n]
        BY <2>1
      <3> HIDE DEF n
      <3> QED
        BY <3>1, <3>2 DEF Inv, TypeOK, Counting
    <2>5. TypeOK'
      BY <2>1, <2>4 DEF Inv, TypeOK
    <2>6. Counting'
      BY <2>1, <2>4 DEF Inv, Counting
    <2>7. RamIsFresh' /\ ResetMeansInstalled' /\ Copying'
      BY <2>1 DEF Inv, RamIsFresh, ResetMeansInstalled, Installed, Copying, Holds, Flushed
    <2>8. Caching'
      BY <2>1 DEF Inv, Caching, Flushed, Aligned
    <2>9. Finishing'
      BY <2>1 DEF Inv, Finishing, Complete, Holds, LastFlush, Flushed
    <2> QED
      BY <2>5, <2>6, <2>7, <2>8, <2>9 DEF Inv
  <1> QED
    BY <1>1, <1>2

(***************************************************************************)
(* The steps of Task                                                       *)
(***************************************************************************)

LEMMA PollStep ==
    ASSUME Inv, TaskPoll
    PROVE  Inv'
  <1>1. /\ power = "boot" /\ task = "poll" /\ task' = "flush"
        /\ total \notin {0, Never} /\ written >= total
        /\ UNCHANGED <<power, total, mask, written, address, bytes, cache, erased, unlocked, call, sent, flash, only>>
    BY DEF TaskPoll, Done
  <1>2. PICK f \in Files : total = Count[f]
    BY <1>1 DEF Inv, Counting
  <1>3. TypeOK' /\ RamIsFresh' /\ Copying' /\ ResetMeansInstalled'
    BY <1>1 DEF Inv, TypeOK, RamIsFresh, Copying, ResetMeansInstalled, Installed
  <1>4. Counting'
    BY <1>1, <1>2, CountType DEF Inv, Counting
  <1>5. Caching'
    BY <1>1 DEF Inv, Caching, Flushed, Aligned
  <1>6. ASSUME NEW i \in 0..(Count[f] - 1) PROVE Holds(f, i)'
    <2>1. i \in 0..(written - 1)
      BY <1>1, <1>2, CountType DEF Inv, TypeOK
    <2>2. Holds(f, i)
      BY <1>1, <1>2, <2>1 DEF Inv, Copying
    <2> QED
      BY <1>1, <2>2 DEF Holds, Flushed
  <1>7. Complete(f)'
    BY <1>1, <1>2, <1>6 DEF Complete, LastFlush
  <1> QED
    BY <1>3, <1>4, <1>5, <1>7 DEF Inv, Finishing

LEMMA FlushStep ==
    ASSUME Inv, TaskFlush
    PROVE  Inv'
  <1>1. /\ power = "boot" /\ task = "flush" /\ task' = AfterFlushTest
        /\ call' = [address |-> address, size |-> bytes]
        /\ UNCHANGED <<power, total, mask, written, address, bytes, cache, erased, unlocked, sent, flash, only>>
    BY DEF TaskFlush
  <1>2. PICK f \in Files : Complete(f)
    BY <1>1 DEF Inv, Finishing
  <1>3. bytes # 0
    <2>1. written > 0
      BY <1>2, CountType DEF Complete, Inv, TypeOK
    <2> QED
      BY <1>1, <2>1 DEF Inv, Caching
  <1>4. task' = "call"
    BY <1>1, <1>3 DEF AfterFlushTest
  <1>5. TypeOK' /\ RamIsFresh' /\ Copying' /\ ResetMeansInstalled' /\ Counting'
    BY <1>1, <1>4 DEF Inv, TypeOK, RamIsFresh, Copying, ResetMeansInstalled, Installed, Counting
  <1>6. Caching'
    BY <1>1, <1>4 DEF Inv, Caching, Flushed, Aligned
  <1>7. Complete(f)'
    BY <1>1, <1>2, <1>4 DEF Complete, LastFlush, Holds, Flushed
  <1> QED
    BY <1>5, <1>6, <1>7 DEF Inv, Finishing

LEMMA EraseStep ==
    ASSUME Inv, TaskErase
    PROVE  Inv'
  <1> USE FilesAssumption, LayoutAssumption
  <1> DEFINE sector == SectorOf[address]
  <1>1. PICK f \in Files : Complete(f)
    BY DEF TaskErase, Inv, Finishing
  <1>2. call.address = address /\ call.size = bytes
    BY <1>1 DEF Complete, LastFlush, TaskErase
  <1>3. /\ power = "boot" /\ task = "call" /\ task' = "program" /\ unlocked' = TRUE
        /\ flash' = Erased(flash, erased, sector) /\ erased' = erased \cup {sector}
        /\ UNCHANGED <<power, total, mask, written, address, bytes, cache, call, sent, only>>
    BY <1>2 DEF TaskErase
  <1>4. /\ written \in Nat /\ bytes \in Nat /\ bytes <= Chunk /\ address \in Nat
        /\ written <= Last + 1 /\ sector \in Sectors
    BY DEF Inv, TypeOK, Slots, Sectors
  <1> HIDE DEF sector
  <1>5. bytes > 0 /\ Flushed = address
    <2>1. written > 0
      BY <1>1, <1>4, CountType DEF Complete
    <2>2. bytes > 0
      BY <1>3, <1>4, <2>1 DEF Inv, Caching
    <2> QED
      BY <1>4, <2>2 DEF Inv, Caching, Flushed
  <1>6. ASSUME NEW s \in Slots
        PROVE  flash'[s] = IF SectorOf[s] = sector /\ sector \notin erased THEN "erased" ELSE flash[s]
    BY <1>3 DEF Erased
  <1>7. \A s \in Slots : s < Flushed => flash'[s] = flash[s]
    BY <1>3, <1>6 DEF Inv, Caching
  <1>8. TypeOK'
    <2>1. flash' \in [Slots -> Contents]
      BY <1>3 DEF Erased, Inv, TypeOK, Contents
    <2>2. erased' \subseteq Sectors
      BY <1>3, <1>4 DEF Inv, TypeOK
    <2>3. unlocked' \in BOOLEAN
      BY <1>3
    <2> QED
      BY <1>3, <2>1, <2>2, <2>3 DEF Inv, TypeOK
  <1>9. RamIsFresh' /\ Copying' /\ ResetMeansInstalled' /\ Counting'
    BY <1>3 DEF Inv, RamIsFresh, Copying, ResetMeansInstalled, Counting
  <1>10. Caching'
    <2>1. Flushed' = Flushed /\ (Aligned(address)' <=> Aligned(address))
      BY <1>3 DEF Flushed, Aligned
    <2>2. \A s \in Slots : s >= Flushed /\ SectorOf[s] \in erased' => flash'[s] = "erased"
      BY <1>3, <1>6 DEF Inv, Caching
    <2>3. \A s \in Slots : s < Flushed => SectorOf[s] \in erased'
      BY <1>3 DEF Inv, Caching
    <2> QED
      BY <1>3, <2>1, <2>2, <2>3 DEF Inv, Caching
  <1>11. Complete(f)'
    <2>1. Count[f] \in Nat /\ Count[f] <= written
      BY <1>1, CountType DEF Complete
    <2>2. ASSUME NEW i \in 0..(Count[f] - 1) PROVE Holds(f, i)'
      <3>1. i \in Slots /\ Holds(f, i)
        BY <1>1, <1>4, <2>1 DEF Complete, Slots
      <3> QED
        BY <1>3, <1>7, <3>1 DEF Holds, Flushed
    <2>3. SectorOf[call.address] \in erased'
      BY <1>2, <1>3 DEF sector
    <2>4. Count[f] <= address + bytes
      BY <1>4, <1>5, <2>1 DEF Inv, Caching
    <2>5. LastFlush(f)'
      BY <1>2, <1>3, <1>4, <1>5, <2>3, <2>4 DEF LastFlush
    <2> QED
      BY <1>1, <1>3, <2>2, <2>5 DEF Complete
  <1> QED
    BY <1>8, <1>9, <1>10, <1>11 DEF Inv, Finishing

LEMMA ProgramStep ==
    ASSUME Inv, Faults = {}, TaskProgram
    PROVE  Inv'
  <1> USE FilesAssumption, LayoutAssumption
  <1>1. PICK f \in Files : Complete(f)
    BY DEF TaskProgram, Inv, Finishing
  <1>2. /\ power = "boot" /\ task = "program" /\ task' = "end" /\ unlocked' = FALSE
        /\ UNCHANGED <<power, total, mask, written, address, cache, erased, call, sent, only>>
    BY DEF TaskProgram
  <1>3. /\ written \in Nat /\ bytes \in Nat /\ bytes <= Chunk /\ address \in Nat
        /\ written <= Last + 1 /\ Count[f] \in Nat /\ Count[f] <= written /\ Count[f] >= 1
    BY <1>1, CountType DEF Inv, TypeOK, Slots, Complete
  <1>4. bytes > 0 => address + bytes = written
    BY DEF Inv, Caching
  <1>5. RamIsFresh' /\ Copying' /\ ResetMeansInstalled' /\ Counting'
    BY <1>2 DEF Inv, RamIsFresh, Copying, ResetMeansInstalled, Counting
  <1>6. /\ unlocked' \in BOOLEAN /\ task' \in {"poll", "flush", "call", "program", "end"}
    BY <1>2
  <1>7. CASE unlocked
    <2>1. flash' = Program(flash, call.address, call.size) /\ bytes' = 0
      BY <1>7 DEF TaskProgram
    <2>2. /\ call.address = address /\ call.size \in Nat /\ call.size > 0 /\ call.size <= bytes
          /\ Count[f] <= address + call.size /\ SectorOf[address] \in erased
      BY <1>1, <1>2, <1>7 DEF Complete, LastFlush, Inv, TypeOK
    <2>3. Flushed = address /\ Flushed' = written /\ Aligned(address)
      BY <1>2, <1>3, <1>4, <2>1, <2>2 DEF Flushed, Inv, Caching
    <2>4. TypeOK'
      <3>1. \A s \in Slots : s >= address /\ s < address + call.size => s - address \in 0..(Chunk - 1)
        BY <1>3, <2>2 DEF Slots
      <3>2. flash' \in [Slots -> Contents]
        BY <2>1, <2>2, <3>1 DEF Program, Programmed, Inv, TypeOK, Contents
      <3>3. bytes' \in 0..Chunk
        BY <2>1
      <3> QED
        BY <1>2, <1>6, <3>2, <3>3 DEF Inv, TypeOK
    <2>5. Caching'
      BY <1>2, <2>1 DEF Caching
    <2>6. ASSUME NEW i \in 0..(Count[f] - 1)
          PROVE  SectorOf[i] \in erased /\ flash'[i] = f
      <3>1. i \in Slots /\ i < written /\ i < address + call.size
        BY <1>3, <2>2 DEF Slots
      <3>2. Holds(f, i)
        BY <1>1 DEF Complete
      <3>3. flash'[i] = IF i >= address THEN Programmed(flash[i], cache[i - address]) ELSE flash[i]
        BY <2>1, <2>2, <3>1 DEF Program
      <3>4. CASE i < address
        <4>1. ~(i >= address)
          BY <1>3, <3>4
        <4> QED
          BY <1>2, <2>3, <3>1, <3>2, <3>3, <3>4, <4>1 DEF Inv, Caching, Holds
      <3>5. CASE i >= address
        <4>1. i < address + Chunk /\ ~(i < Flushed) /\ i >= Flushed
          BY <1>3, <2>2, <2>3, <3>1, <3>5
        <4>2. SectorOf[i] = SectorOf[address]
          BY <2>3, <3>1, <3>5, <4>1, ChunkInSector DEF Inv
        <4>3. flash[i] = "erased"
          BY <1>2, <2>2, <3>1, <4>1, <4>2 DEF Inv, Caching
        <4>4. cache[i - address] = f
          BY <3>2, <4>1 DEF Holds
        <4> QED
          BY <2>2, <3>3, <3>5, <4>2, <4>3, <4>4 DEF Programmed
      <3> QED
        BY <1>3, <3>4, <3>5
    <2>7. ASSUME NEW i \in 0..(Count[f] - 1) PROVE Holds(f, i)'
      <3>1. i < written
        BY <1>3
      <3> QED
        BY <2>3, <2>6, <3>1 DEF Holds
    <2>8. Complete(f)'
      BY <1>1, <1>2, <1>3, <2>3, <2>6, <2>7 DEF Complete, LastFlush
    <2> QED
      BY <1>5, <2>4, <2>5, <2>8 DEF Inv, Finishing
  <1>8. CASE ~unlocked
    <2>1. UNCHANGED <<flash, bytes>>
      BY <1>8 DEF TaskProgram
    <2>2. Count[f] <= Flushed /\ Flushed' = Flushed
      BY <1>1, <1>2, <1>8, <2>1 DEF Complete, LastFlush, Flushed
    <2>3. TypeOK'
      BY <1>2, <1>6, <2>1 DEF Inv, TypeOK
    <2>4. Caching'
      BY <1>2, <1>4, <2>1 DEF Caching
    <2>5. \A i \in 0..(Count[f] - 1) : SectorOf[i] \in erased
      BY <1>2, <1>3, <2>2 DEF Inv, Caching, Slots, Flushed
    <2>6. Complete(f)'
      BY <1>1, <1>2, <2>1, <2>2, <2>5 DEF Complete, LastFlush, Holds
    <2> QED
      BY <1>5, <2>3, <2>4, <2>6 DEF Inv, Finishing
  <1> QED
    BY <1>7, <1>8

(***************************************************************************)
(* Starts                                                                  *)
(***************************************************************************)

LEMMA CountingAtStart ==
    ASSUME total = 0, mask = {}, written = 0, task = "poll", sent = [f \in Files |-> 0]
    PROVE  Counting
  <1>1. mask = 0..(written - 1)
    OBVIOUS
  <1>2. ASSUME NEW f \in Files PROVE sent[f] <= written
    <2>1. sent[f] = 0
      OBVIOUS
    <2> QED
      BY <2>1
  <1>3. total # Never => written <= total
    OBVIOUS
  <1> QED
    BY <1>1, <1>2, <1>3 DEF Counting

LEMMA InvInit == Init => Inv
  <1> SUFFICES ASSUME Init PROVE Inv
    OBVIOUS
  <1> USE FilesAssumption, LayoutAssumption
  <1>1. /\ total = 0 /\ mask = {} /\ written = 0 /\ address = 0 /\ bytes = 0 /\ erased = {}
        /\ cache = [k \in 0..(Chunk - 1) |-> "junk"] /\ unlocked = FALSE /\ task = "poll"
        /\ call = [address |-> 0, size |-> 0] /\ sent = [f \in Files |-> 0]
        /\ power = "off" /\ only = "any" /\ flash = [s \in Slots |-> "junk"]
    BY DEF Init, FreshRam
  <1>2. 0 \in Slots /\ 0 \in 0..Chunk /\ 0 \in 0..Never /\ 0 \in 0..(Last + 1)
    BY DEF Slots, Never
  <1>3. unlocked \in BOOLEAN
    BY <1>1
  <1>4. cache \in [0..(Chunk - 1) -> Contents] /\ flash \in [Slots -> Contents]
    BY <1>1 DEF Contents
  <1>5. call \in [address : Slots, size : 0..Chunk] /\ sent \in [Files -> 0..(Last + 1)]
    BY <1>1, <1>2
  <1>6. TypeOK
    BY <1>1, <1>2, <1>3, <1>4, <1>5 DEF TypeOK
  <1>7. Counting
    BY <1>1, CountingAtStart
  <1>8. RamIsFresh /\ Caching /\ Copying /\ Finishing /\ ResetMeansInstalled
    BY <1>1 DEF RamIsFresh, Caching, Flushed, Slots, Copying, Finishing, ResetMeansInstalled
  <1> QED
    BY <1>6, <1>7, <1>8 DEF Inv

\* The RAM is lost in a reset and in a power cut.
LEMMA LoseStep ==
    ASSUME TypeOK, LoseRam, power' \in {"off", "reset"}, only' = only, flash' \in [Slots -> Contents],
           ResetMeansInstalled'
    PROVE  Inv'
  <1> USE FilesAssumption, LayoutAssumption
  <1>1. /\ total' = 0 /\ mask' = {} /\ written' = 0 /\ address' = 0 /\ bytes' = 0 /\ erased' = {}
        /\ cache' = [k \in 0..(Chunk - 1) |-> "junk"] /\ unlocked' = FALSE /\ task' = "poll"
        /\ call' = [address |-> 0, size |-> 0] /\ sent' = [f \in Files |-> 0]
    BY DEF LoseRam
  <1>2. 0 \in Slots /\ 0 \in 0..Chunk /\ 0 \in 0..Never /\ 0 \in 0..(Last + 1)
    BY DEF Slots, Never
  <1>3. unlocked' \in BOOLEAN
    BY <1>1
  <1>4. cache' \in [0..(Chunk - 1) -> Contents]
    BY <1>1 DEF Contents
  <1>5. call' \in [address : Slots, size : 0..Chunk] /\ sent' \in [Files -> 0..(Last + 1)]
    BY <1>1, <1>2
  <1>6. TypeOK'
    BY <1>1, <1>2, <1>3, <1>4, <1>5 DEF TypeOK
  <1>7. Counting'
    <2>1. mask' = 0..(written' - 1)
      BY <1>1
    <2>2. \A f \in Files : sent'[f] <= written'
      BY <1>1
    <2>3. total' # Never => written' <= total'
      BY <1>1
    <2> QED
      BY <1>1, <2>1, <2>2, <2>3 DEF Counting
  <1>8. RamIsFresh' /\ Caching' /\ Copying' /\ Finishing'
    BY <1>1 DEF RamIsFresh, Caching, Flushed, Slots, Copying, Finishing
  <1> QED
    BY <1>6, <1>7, <1>8 DEF Inv

\* Every step keeps the invariant, if there are no faults.
LEMMA InvStep ==
    ASSUME Inv, Faults = {}, [Next]_vars
    PROVE  Inv'
  <1>1. CASE MscThread
    BY <1>1, BlockStep DEF MscThread
  <1>2. CASE TaskPoll
    BY <1>2, PollStep
  <1>3. CASE TaskFlush
    BY <1>3, FlushStep
  <1>4. CASE TaskErase
    BY <1>4, EraseStep
  <1>5. CASE TaskProgram
    BY <1>5, ProgramStep
  <1>6. CASE TaskReset
    <2>1. PICK f \in Files : Complete(f)
      BY <1>6 DEF TaskReset, Inv, Finishing
    <2>2. ASSUME NEW i \in 0..(Count[f] - 1) PROVE flash[i] = f
      <3>1. Count[f] \in Nat /\ Count[f] <= Flushed /\ Holds(f, i) /\ Flushed \in Int
        BY <1>6, <2>1, CountType DEF TaskReset, Complete, LastFlush, Flushed, Inv, TypeOK
      <3> QED
        BY <3>1 DEF Holds
    <2>3. ResetMeansInstalled'
      BY <1>6, <2>2 DEF TaskReset, ResetMeansInstalled, Installed
    <2> QED
      BY <1>6, <2>3, LoseStep DEF TaskReset, Inv, TypeOK
  <1>7. CASE Configured
    <2>1. /\ bytes = 0 /\ task = "poll" /\ bytes' = 0 /\ address' = 0 /\ written = 0
          /\ UNCHANGED <<power, total, mask, written, cache, erased, unlocked, task, call, sent, flash, only>>
      BY <1>7 DEF Configured, Inv, Caching
    <2>2. TypeOK'
      <3>1. address' \in Slots
        BY <2>1, FilesAssumption DEF Slots
      <3> QED
        BY <2>1, <3>1 DEF Inv, TypeOK
    <2>3. RamIsFresh' /\ Counting' /\ ResetMeansInstalled'
      BY <2>1 DEF Inv, RamIsFresh, Counting, ResetMeansInstalled, Installed
    <2>4. Caching' /\ Copying' /\ Finishing'
      BY <2>1 DEF Inv, Caching, Copying, Finishing, Flushed
    <2> QED
      BY <2>2, <2>3, <2>4 DEF Inv
  <1>8. CASE Enter
    <2>1. power # "boot" /\ power' = "boot" /\ UNCHANGED <<ram, flash>> /\ only' \in Files \cup {"any"}
      BY <1>8 DEF Enter, Inv, TypeOK
    <2>2. TypeOK'
      BY <2>1 DEF Inv, TypeOK, ram
    <2>3. RamIsFresh' /\ Counting' /\ ResetMeansInstalled'
      BY <2>1 DEF Inv, RamIsFresh, Counting, ResetMeansInstalled, ram
    <2>4. Caching' /\ Copying'
      BY <2>1 DEF Inv, Caching, Copying, Flushed, Aligned, Holds, ram
    <2>5. Finishing'
      BY <2>1 DEF Inv, RamIsFresh, Finishing, ram
    <2> QED
      BY <2>2, <2>3, <2>4, <2>5 DEF Inv
  <1>9. CASE JumpToMain
    <2>1. power # "boot" /\ power' \in {"main", "hang"} /\ UNCHANGED <<ram, flash, only>>
      BY <1>9 DEF JumpToMain
    <2>2. TypeOK'
      BY <2>1 DEF Inv, TypeOK, ram
    <2>3. RamIsFresh' /\ Counting' /\ ResetMeansInstalled'
      BY <2>1 DEF Inv, RamIsFresh, Counting, ResetMeansInstalled, ram
    <2>4. Caching' /\ Copying'
      BY <2>1 DEF Inv, Caching, Copying, Flushed, Aligned, Holds, ram
    <2>5. Finishing'
      BY <2>1 DEF Inv, RamIsFresh, Finishing, ram
    <2> QED
      BY <2>2, <2>3, <2>4, <2>5 DEF Inv
  <1>10. CASE PowerCut
    <2>1. LoseRam /\ power' = "off" /\ only' = only /\ TypeOK
      BY <1>10 DEF PowerCut, Inv
    <2>2. flash' \in [Slots -> Contents]
      BY <1>10 DEF PowerCut, Inv, TypeOK, Contents
    <2>3. ResetMeansInstalled'
      BY <2>1 DEF ResetMeansInstalled
    <2> QED
      BY <2>1, <2>2, <2>3, LoseStep
  <1>11. CASE UNCHANGED vars
    <2>1. TypeOK' /\ RamIsFresh' /\ Counting' /\ ResetMeansInstalled'
      BY <1>11 DEF vars, ram, Inv, TypeOK, RamIsFresh, Counting, ResetMeansInstalled, Installed
    <2>2. Caching' /\ Copying' /\ Finishing'
      BY <1>11 DEF vars, ram, Inv, Caching, Copying, Finishing, Complete, LastFlush, Flushed, Aligned, Holds
    <2> QED
      BY <2>1, <2>2 DEF Inv
  <1> QED
    BY <1>1, <1>2, <1>3, <1>4, <1>5, <1>6, <1>7, <1>8, <1>9, <1>10, <1>11 DEF Next, Task

(***************************************************************************)
(* Theorems                                                                *)
(***************************************************************************)

LEMMA InvAlways ==
    ASSUME Faults = {}
    PROVE  Spec => []Inv
  <1>1. Inv /\ [Next]_vars => Inv'
    BY InvStep
  <1> QED
    BY <1>1, InvInit, PTL DEF Spec

\* The state of the boot loader keeps its types: no counter or cache index
\* overflows, for any layout of the flash (bootuf2.c).
THEOREM TypeCorrect ==
    ASSUME Faults = {}
    PROVE  Spec => []TypeOK
  <1>1. Inv => TypeOK
    BY DEF Inv
  <1> QED
    BY <1>1, InvAlways, PTL

\* For any files, erase sectors and size of the cache: when Task resets the chip,
\* a whole file is in the flash.
THEOREM ResetInstalls ==
    ASSUME Faults = {}
    PROVE  Spec => []ResetMeansInstalled
  <1>1. Inv => ResetMeansInstalled
    BY DEF Inv
  <1> QED
    BY <1>1, InvAlways, PTL

\* A block of the only file so far is where it belongs, and in an erased sector
\* once it is in the flash.
LEMMA CountedHolds ==
    ASSUME Inv, NEW f \in Files, total = Count[f], NEW i \in mask
    PROVE  /\ Holds(f, i) /\ i \in Slots /\ (i < Flushed => SectorOf[i] \in erased)
           /\ ~(i < Flushed) => InCache(f, i)
  <1>1. /\ i \in 0..(written - 1) /\ written \in Nat /\ bytes \in Nat /\ address \in Nat
        /\ total # Never /\ written <= Count[f] /\ Count[f] \in Nat /\ i \in Slots
    BY CountType DEF Inv, Counting, TypeOK, Slots
  <1>2. task # "poll" => Complete(f)
    <2> SUFFICES ASSUME task # "poll" PROVE Complete(f)
      OBVIOUS
    <2>1. PICK g \in Files : Complete(g)
      BY DEF Inv, Finishing
    <2>2. g = f
      BY <1>1, <2>1, FilesAssumption DEF Complete
    <2> QED
      BY <2>1, <2>2
  <1>3. i \in 0..(Count[f] - 1)
    BY <1>1
  <1>4. Holds(f, i)
    BY <1>1, <1>2, <1>3 DEF Inv, Copying, Complete
  <1>5. i < Flushed => SectorOf[i] \in erased
    BY <1>1, <1>2, <1>3 DEF Inv, Caching, Complete, LastFlush
  <1>6. ASSUME ~(i < Flushed) PROVE InCache(f, i)
    <2>1. address + bytes = written /\ i >= address /\ i < address + bytes
      BY <1>1, <1>6 DEF Flushed, Inv, Caching
    <2> QED
      BY <1>4, <1>6, <2>1 DEF Holds, InCache
  <1> QED
    BY <1>1, <1>4, <1>5, <1>6

\* No block that was counted is lost between the host, the cache and the flash.
THEOREM CountedKept ==
    ASSUME Faults = {}
    PROVE  Spec => []CountedIsKept
  <1>1. Inv => CountedIsKept
    BY CountedHolds DEF CountedIsKept, Holds
  <1> QED
    BY <1>1, InvAlways, PTL

LEMMA FlashKept ==
    ASSUME Inv, Faults = {}, Next, NEW f \in Files, total = Count[f], total' = total,
           NEW i \in mask, i < Flushed
    PROVE  flash'[i] = flash[i]
  <1> USE FilesAssumption, LayoutAssumption
  <1>1. i \in Slots /\ SectorOf[i] \in erased
    BY CountedHolds
  <1>2. CASE MscThread
    <2>1. PICK g \in Files : \E j \in 0..(Count[g] - 1) : WriteSector(g, j)
      BY <1>2 DEF MscThread
    <2>2. PICK j \in 0..(Count[g] - 1) : WriteSector(g, j)
      BY <2>1
    <2>3. CASE Writable(j)
      <3>1. Taken(g)
        BY <2>2, <2>3, BlockIsNext
      <3>2. CASE Flush /\ bytes = Chunk
        BY <1>1, <3>2, FlushKeeps DEF Inv, Caching
      <3> QED
        BY <3>1, <3>2 DEF Taken
    <2> QED
      BY <2>2, <2>3 DEF WriteSector
  <1>3. CASE TaskErase
    BY <1>1, <1>3 DEF TaskErase, Erased
  <1>4. CASE TaskProgram
    <2>1. CASE unlocked
      <3>1. PICK g \in Files : Complete(g)
        BY <1>4 DEF TaskProgram, Inv, Finishing
      <3>2. call.address = address /\ call.size > 0 /\ call.size <= bytes /\ call.size \in Nat
        BY <1>4, <2>1, <3>1 DEF TaskProgram, Complete, LastFlush, Inv, TypeOK
      <3>3. ~(i >= address)
        BY <1>1, <3>2 DEF Inv, Caching, TypeOK, Slots, Flushed
      <3>4. flash' = Program(flash, address, call.size)
        BY <1>4, <2>1, <3>2 DEF TaskProgram
      <3> QED
        BY <1>1, <3>3, <3>4 DEF Program
    <2> QED
      BY <1>4, <2>1 DEF TaskProgram
  <1>5. CASE PowerCut
    <2>1. total' = 0
      BY <1>5 DEF PowerCut, LoseRam
    <2>2. Count[f] >= 1
      BY CountType
    <2> QED
      BY <2>1, <2>2
  <1>6. CASE Enter \/ Configured \/ TaskPoll \/ TaskFlush \/ TaskReset \/ JumpToMain
    BY <1>6 DEF Enter, Configured, TaskPoll, TaskFlush, TaskReset, JumpToMain
  <1> QED
    BY <1>2, <1>3, <1>4, <1>5, <1>6 DEF Next, Task

\* No step takes a block of the only file so far out of the flash again.
THEOREM NotDamaged ==
    ASSUME Faults = {}
    PROVE  Spec => FileIsNotDamaged
  <1> DEFINE Kept == \A f \in Files : total = Count[f] /\ total' = total =>
                        \A i \in mask : flash[i] = f /\ ~InCache(f, i) => flash'[i] = f
  <1>1. Inv /\ [Next]_vars => [Kept]_vars
    <2> SUFFICES ASSUME Inv, Next PROVE Kept
      BY DEF vars
    <2> QED
      BY CountedHolds, FlashKept
  <1> QED
    BY <1>1, InvAlways, PTL DEF Spec, FileIsNotDamaged
=============================================================================
