---------------------------- MODULE StorageProofs ----------------------------
(***************************************************************************)
(* Storage, for every set of buses and controllers, every geometry of      *)
(* blocks, pages and rings, and every read.                                *)
(***************************************************************************)
EXTENDS Storage, NvmeQueue, NatLemmas, FiniteSetTheorems

Stages == {"pci", "list", "up", "hung", "panic", "astray"}

Drive == [bus : Nat, ns : Nat, sent : 0 .. Size, first : BOOLEAN]

Contents == {Junk} \cup Nat \X Nat \X Nat

(* The machines in which the controller has written to no page of another.  *)
Machines ==
  [held : SUBSET (1 .. NPages),
   data : [0 .. NPages -> [0 .. PageBlocks - 1 -> Contents]],
   stage : Stages, admin_sent : 0 .. Size, drives : Seq(Drive), strayed : {FALSE}]

(* Reading changes of a drive no more than the commands sent.               *)
SameDrives(ds, es) ==
  /\ Len(es) = Len(ds)
  /\ \A j \in 1 .. Len(ds) :
       es[j].bus = ds[j].bus /\ es[j].ns = ds[j].ns /\ es[j].first = ds[j].first

(* What any number of transfers leaves as it was, unless one of them hangs. *)
Kept(m, r) ==
  /\ r.held = m.held /\ r.admin_sent = m.admin_sent
  /\ SameDrives(m.drives, r.drives) /\ r.stage \in {m.stage, "hung"}

(* A page holds blocks of disks, or what nobody wrote.                      *)
LEMMA DataFacts ==
  \A m \in Machines, q \in 0 .. NPages, s \in 0 .. PageBlocks - 1 :
    m.data[q][s] \in Contents
BY DEF Machines

-----------------------------------------------------------------------------
(* The arithmetic of blocks, pages and transfers.                           *)

(* The constants are positive numbers, and a transfer is two pages.         *)
LEMMA Sizes ==
  /\ NPages \in Nat \ {0} /\ Size \in Nat \ {0} /\ Capacity \in Nat \ {0}
  /\ BlockBytes \in Nat \ {0} /\ PageBlocks \in Nat \ {0}
  /\ TableBlocks \in Nat \ {0} /\ DiskBlocks \in Nat \ {0}
  /\ MaxBlocks \in Nat \ {0} /\ MaxBlocks = 2 * PageBlocks
  /\ MaxBlocks \div PageBlocks = 2
<1>1. /\ NPages \in Nat \ {0} /\ Size \in Nat \ {0} /\ Capacity \in Nat \ {0}
      /\ BlockBytes \in Nat \ {0} /\ PageBlocks \in Nat \ {0}
      /\ TableBlocks \in Nat \ {0} /\ DiskBlocks \in Nat \ {0}
      /\ MaxBlocks = 2 * PageBlocks
  BY SizeAssumption
<1>2. MaxBlocks \in Nat \ {0} /\ MaxBlocks = PageBlocks * 2 + 0 /\ 0 \in 0 .. PageBlocks - 1
  BY <1>1
<1> QED
  BY <1>1, <1>2, DivUnique

(* Rounding up.                                                             *)
LEMMA CeilIs ==
  ASSUME NEW n \in Nat \ {0}, NEW u \in Nat \ {0}
  PROVE  Ceil(n, u) = (n - 1) \div u + 1 /\ (n - 1) \div u \in Nat
<1> DEFINE q == (n - 1) \div u  r == (n - 1) % u
<1>1. n - 1 \in Nat
  OBVIOUS
<1>2. q \in Nat /\ r \in 0 .. u - 1 /\ n - 1 = u * q + r
  BY <1>1, DivDef
<1> HIDE DEF q, r
<1>3. n + u - 1 = u * (q + 1) + r
  <2>1. u * (q + 1) = u * q + u
    BY <1>2
  <2> QED BY <1>2, <2>1
<1>4. n + u - 1 \in Nat /\ q + 1 \in Nat
  BY <1>2
<1>5. (n + u - 1) \div u = q + 1
  BY <1>2, <1>3, <1>4, DivUnique
<1> QED
  BY <1>2, <1>5 DEF Ceil, q

(* The pages of a number of blocks.                                         *)
LEMMA PagesOfBlocks ==
  ASSUME NEW c \in Nat \ {0}
  PROVE  /\ Ceil(c * BlockBytes, PageBytes) = (c - 1) \div PageBlocks + 1
         /\ (c - 1) \div PageBlocks \in Nat
<1> DEFINE x == c * BlockBytes - 1
<1>1. c - 1 \in Nat /\ BlockBytes - 1 \in 0 .. BlockBytes - 1
  BY Sizes
<1>2. x = BlockBytes * (c - 1) + (BlockBytes - 1) /\ x \in Nat /\ c * BlockBytes \in Nat \ {0}
  <2>1. c * BlockBytes = BlockBytes * (c - 1) + BlockBytes /\ BlockBytes * (c - 1) \in Nat
    BY <1>1, Sizes
  <2> QED BY <2>1, Sizes
<1> HIDE DEF x
<1>3. x \div BlockBytes = c - 1
  BY <1>1, <1>2, Sizes, DivUnique
<1>4. PageBytes \in Nat \ {0} /\ x \div PageBytes = (c - 1) \div PageBlocks
  <2>1. PageBytes = PageBlocks * BlockBytes
    BY DEF PageBytes
  <2>2. PageBytes \in Nat \ {0} /\ x \div PageBytes = (x \div BlockBytes) \div PageBlocks
    <3>1. x \in Nat /\ PageBlocks \in Nat \ {0} /\ BlockBytes \in Nat \ {0}
      BY <1>2, Sizes
    <3>2. Nested(x, PageBlocks, BlockBytes)
      BY <3>1, DivNest
    <3> QED BY <2>1, <3>2 DEF Nested
  <2> QED BY <1>3, <2>2
<1>5. Ceil(c * BlockBytes, PageBytes) = x \div PageBytes + 1
  BY <1>2, <1>4, CeilIs DEF x
<1> QED
  BY <1>1, <1>4, <1>5, Sizes, DivDef

(* A read of some bytes is of some blocks, the last one that of its last    *)
(* byte.                                                                    *)
LEMMA BlockCountIs ==
  ASSUME NEW len \in Nat \ {0}, NEW offset \in Nat
  PROVE  /\ BlockCount(len, offset) \in Nat \ {0}
         /\ offset \div BlockBytes \in Nat
         /\ \A k \in 0 .. len - 1 :
              (offset + k) \div BlockBytes - offset \div BlockBytes
                \in 0 .. BlockCount(len, offset) - 1
<1>1. offset + len - 1 \in Nat
  OBVIOUS
<1>2. \A k \in 0 .. len - 1 :
        /\ offset + k \in Nat /\ offset <= offset + k /\ offset + k <= offset + len - 1
  OBVIOUS
<1>3. \A k \in 0 .. len - 1 :
        /\ offset \div BlockBytes <= (offset + k) \div BlockBytes
        /\ (offset + k) \div BlockBytes <= (offset + len - 1) \div BlockBytes
        /\ (offset + k) \div BlockBytes \in Nat
  BY <1>1, <1>2, Sizes, DivMonotone, DivDef
<1>4. offset \div BlockBytes \in Nat /\ (offset + len - 1) \div BlockBytes \in Nat
  BY <1>1, Sizes, DivDef
<1>5. offset \div BlockBytes <= (offset + len - 1) \div BlockBytes
  BY <1>1, Sizes, DivMonotone
<1> QED
  <2> DEFINE s == offset \div BlockBytes  e == (offset + len - 1) \div BlockBytes
  <2>1. BlockCount(len, offset) = e - s + 1
    BY DEF BlockCount
  <2>2. s \in Nat /\ e \in Nat /\ s <= e
    BY <1>4, <1>5
  <2>3. ASSUME NEW k \in 0 .. len - 1
        PROVE  (offset + k) \div BlockBytes - s \in 0 .. BlockCount(len, offset) - 1
    <3> DEFINE f == (offset + k) \div BlockBytes
    <3>1. f \in Nat /\ s <= f /\ f <= e
      BY <1>3
    <3> HIDE DEF s, e, f
    <3>2. f - s \in 0 .. e - s
      BY <2>2, <3>1
    <3>3. BlockCount(len, offset) - 1 = e - s
      BY <2>1, <2>2
    <3> QED BY <3>2, <3>3 DEF f
  <2>4. BlockCount(len, offset) \in Nat \ {0}
    <3> HIDE DEF s, e
    <3> QED BY <2>1, <2>2
  <2> QED BY <2>2, <2>3, <2>4

(* The first page of every transfer lies in the buffer.                     *)
LEMMA TransferFits ==
  ASSUME NEW count \in Nat \ {0}
  PROVE  /\ TransferCount(count) = (count - 1) \div MaxBlocks + 1
         /\ TransferCount(count) \in Nat
         /\ \A ct \in 0 .. TransferCount(count) - 1 :
              2 * ct \in 0 .. (count - 1) \div PageBlocks
<1>1. count - 1 \in Nat
  OBVIOUS
<1>2. TransferCount(count) = (count - 1) \div MaxBlocks + 1 /\ (count - 1) \div MaxBlocks \in Nat
  BY Sizes, CeilIs DEF TransferCount
<1>3. (count - 1) \div MaxBlocks = ((count - 1) \div PageBlocks) \div 2
  <2>1. MaxBlocks = 2 * PageBlocks /\ PageBlocks \in Nat \ {0} /\ 2 \in Nat \ {0}
    BY Sizes
  <2>2. Nested(count - 1, 2, PageBlocks)
    BY <1>1, <2>1, DivNest
  <2> QED BY <2>1, <2>2 DEF Nested
<1> DEFINE y == (count - 1) \div PageBlocks
<1>4. y \in Nat
  BY <1>1, Sizes, DivDef
<1> HIDE DEF y
<1>5. y \div 2 \in Nat /\ 2 * (y \div 2) <= y
  BY <1>4
<1>6. (count - 1) \div MaxBlocks = y \div 2
  BY <1>3 DEF y
<1>7. \A ct \in 0 .. TransferCount(count) - 1 : 2 * ct \in 0 .. y
  BY <1>2, <1>4, <1>5, <1>6
<1> QED
  BY <1>2, <1>7 DEF y

-----------------------------------------------------------------------------
(* Transfers.                                                               *)

(* What is kept by two transfers one after the other is kept by both.       *)
LEMMA KeptTransitive ==
  ASSUME NEW m \in Machines, NEW r \in Machines, NEW s \in Machines, Kept(m, r), Kept(r, s)
  PROVE  Kept(m, s)
<1>1. Len(r.drives) = Len(m.drives) /\ Len(s.drives) = Len(m.drives)
  BY DEF Kept, SameDrives
<1>2. SameDrives(m.drives, s.drives)
  BY <1>1 DEF Kept, SameDrives
<1> QED
  BY <1>2 DEF Kept

(* A transfer: what it leaves in the page, if it reads from the disk.       *)
Transferred(m, r, i, p, lba, count) ==
  /\ r \in Machines /\ Kept(m, r)
  /\ Running(r) =>
       \A q \in 1 .. NPages : q # p =>
         \A s \in 0 .. PageBlocks - 1 : r.data[q][s] = m.data[q][s]
  /\ Running(r) /\ lba + count <= DiskBlocks =>
       \A s \in 0 .. PageBlocks - 1 :
         s < count => r.data[p][s] = Block(m.drives[i], lba + s)

(* So it is into a page that is held.                                       *)
LEMMA ReadBlocksNvmeFacts ==
  ASSUME NEW m \in Machines, NEW i \in 1 .. Len(m.drives), NEW p \in m.held,
         NEW lba \in Nat, NEW count \in Nat \ {0}
  PROVE  Transferred(m, ReadBlocksNvme(m, i, p, lba, count), i, p, lba, count)
<1> DEFINE r == ReadBlocksNvme(m, i, p, lba, count)
           d == m.drives[i]
           es == [m.drives EXCEPT ![i].sent = @ + 1]
           into(q, s) == IF q = p THEN s ELSE s + PageBlocks
           written == [q \in 0 .. NPages |-> [s \in 0 .. PageBlocks - 1 |->
                         IF q \in {0, p} /\ into(q, s) < count
                           THEN Block(d, lba + into(q, s)) ELSE m.data[q][s]]]
<1> SUFFICES Transferred(m, r, i, p, lba, count)
  OBVIOUS
<1>1. p \in 1 .. NPages /\ d \in Drive /\ i \in Nat
  BY DEF Machines
<1>2. CASE ~ Running(m) \/ ~ d.first \/ d.sent = Size
  <2>1. r = [m EXCEPT !.stage = IF Running(m) THEN "hung" ELSE @]
    BY <1>2 DEF ReadBlocksNvme
  <2>2. r \in Machines /\ ~ Running(r) /\ r.stage \in {m.stage, "hung"}
    <3> HIDE DEF r
    <3> QED BY <2>1 DEF Machines, Running, Stages
  <2>3. r.held = m.held /\ r.admin_sent = m.admin_sent /\ r.drives = m.drives
    <3> HIDE DEF r
    <3> QED BY <2>1 DEF Machines
  <2>4. Kept(m, r)
    BY <2>2, <2>3 DEF Kept, SameDrives
  <2> HIDE DEF r
  <2> QED BY <2>2, <2>4 DEF Transferred
<1>3. CASE ~ (~ Running(m) \/ ~ d.first \/ d.sent = Size)
  <2>1. es \in Seq(Drive) /\ SameDrives(m.drives, es)
    <3>1. [d EXCEPT !.sent = @ + 1] \in Drive
      <4>1. d.sent \in 0 .. Size - 1
        <5> HIDE DEF d
        <5> QED BY <1>1, <1>3, Sizes DEF Drive
      <4>2. d.sent + 1 \in 0 .. Size
        <5> DEFINE n == d.sent
        <5>1. n \in 0 .. Size - 1 /\ Size \in Nat
          BY <4>1, Sizes
        <5> HIDE DEF n
        <5>2. n + 1 \in 0 .. Size
          BY <5>1
        <5> QED BY <5>2 DEF n
      <4> HIDE DEF d
      <4> QED BY <1>1, <4>2 DEF Drive
    <3>2. es = [m.drives EXCEPT ![i] = [d EXCEPT !.sent = @ + 1]]
      OBVIOUS
    <3>3. m.drives \in Seq(Drive)
      BY DEF Machines
    <3>4. es \in Seq(Drive) /\ Len(es) = Len(m.drives)
      BY <3>1, <3>2, <3>3
    <3>5. \A j \in 1 .. Len(m.drives) :
            es[j] = IF j = i THEN [d EXCEPT !.sent = @ + 1] ELSE m.drives[j]
      BY <3>2, <3>3
    <3>6. \A j \in 1 .. Len(m.drives) : /\ es[j].bus = m.drives[j].bus
                                        /\ es[j].ns = m.drives[j].ns
                                        /\ es[j].first = m.drives[j].first
      BY <1>1, <3>5 DEF Drive
    <3> QED BY <3>4, <3>6 DEF SameDrives
  <2>2. CASE ~ (lba + count <= DiskBlocks)
    <3>1. r = [m EXCEPT !.drives = es]
      BY <1>3, <2>2, Sizes DEF ReadBlocksNvme
    <3>2. r \in Machines /\ Kept(m, r) /\ r.data = m.data
      BY <2>1, <3>1 DEF Machines, Kept
    <3> HIDE DEF r
    <3> QED BY <2>2, <3>2, Sizes DEF Transferred
  <2>3. CASE lba + count <= DiskBlocks
    <3>1. r = [m EXCEPT !.drives = es, !.strayed = @ \/ p \notin m.held, !.data = written]
      BY <1>3, <2>3, Sizes DEF ReadBlocksNvme
    <3>2. written \in [0 .. NPages -> [0 .. PageBlocks - 1 -> Contents]]
      <4>1. ASSUME NEW q \in 0 .. NPages, NEW s \in 0 .. PageBlocks - 1
            PROVE  written[q][s] \in Contents
        <5>1. m.data[q][s] \in Contents
          BY DataFacts
        <5>2. Block(d, lba + into(q, s)) \in Contents
          BY <1>1, Sizes DEF Block, Contents, Drive
        <5> QED BY <5>1, <5>2
      <4> QED BY <4>1
    <3>3. r \in Machines /\ Kept(m, r) /\ r.data = written
      <4> HIDE DEF written, es
      <4> QED BY <2>1, <3>1, <3>2 DEF Machines, Kept
    <3>4. ASSUME NEW q \in 1 .. NPages, q # p, NEW s \in 0 .. PageBlocks - 1
          PROVE  written[q][s] = m.data[q][s]
      BY <3>4
    <3>5. ASSUME NEW s \in 0 .. PageBlocks - 1, s < count
          PROVE  written[p][s] = Block(d, lba + s)
      BY <1>1, <3>5
    <3> HIDE DEF r, written
    <3> QED BY <3>3, <3>4, <3>5 DEF Transferred
  <2> QED BY <2>2, <2>3
<1> QED
  BY <1>2, <1>3

(* How many blocks every transfer of a read asks for.                       *)
Chunk(count) == IF count < MaxBlocks THEN count ELSE MaxBlocks

(* What the transfers before number n have brought.                         *)
Brought(m, r, i, p, count, lba, n) ==
  \A ct \in 0 .. n - 1 : lba + ct * MaxBlocks + Chunk(count) <= DiskBlocks =>
    \A s \in 0 .. PageBlocks - 1 : s < Chunk(count) =>
      r.data[p + 2 * ct][s] = Block(m.drives[i], lba + ct * MaxBlocks + s)

(* A transfer into its place in the buffer adds what it brings.             *)
LEMMA TransferFacts ==
  ASSUME NEW m \in Machines, NEW i \in 1 .. Len(m.drives), NEW count \in Nat \ {0},
         NEW lba \in Nat, NEW p \in Nat,
         \A j \in 0 .. (count - 1) \div PageBlocks : p + j \in m.held,
         NEW r \in Machines, Kept(m, r),
         NEW ct \in 0 .. TransferCount(count) - 1,
         Running(r) => Brought(m, r, i, p, count, lba, ct)
  PROVE  LET s == Transfer(r, i, p, count, lba, ct)
         IN  /\ s \in Machines /\ Kept(m, s)
             /\ Running(s) => Brought(m, s, i, p, count, lba, ct + 1)
<1> DEFINE s == Transfer(r, i, p, count, lba, ct)
           at == lba + ct * MaxBlocks
<1>1. /\ Chunk(count) \in Nat \ {0} /\ TransferCount(count) \in Nat /\ ct \in Nat
      /\ at \in Nat
      /\ \A k \in 0 .. TransferCount(count) - 1 :
           k \in Nat /\ p + 2 * k \in m.held /\ p + 2 * k \in 1 .. NPages
  <2>1. TransferCount(count) \in Nat
    BY TransferFits
  <2>2. ASSUME NEW k \in 0 .. TransferCount(count) - 1
        PROVE  k \in Nat /\ p + 2 * k \in m.held /\ p + 2 * k \in 1 .. NPages
    <3>1. 2 * k \in 0 .. (count - 1) \div PageBlocks
      BY TransferFits
    <3>2. m.held \subseteq 1 .. NPages
      BY DEF Machines
    <3> QED BY <2>1, <3>1, <3>2
  <2>3. Chunk(count) \in Nat \ {0} /\ ct \in Nat
    BY <2>1, Sizes DEF Chunk
  <2>4. at \in Nat
    BY <2>3, Sizes
  <2> QED BY <2>1, <2>2, <2>3, <2>4
<1>2. s = ReadBlocksNvme(r, i, p + 2 * ct, at, Chunk(count))
  <2>1. MaxBlocks \div PageBlocks = 2 /\ ct * 2 = 2 * ct
    BY <1>1, Sizes
  <2> QED BY <2>1 DEF Transfer, Chunk
<1>3. r.held = m.held /\ Len(r.drives) = Len(m.drives) /\ i \in 1 .. Len(r.drives)
      /\ Block(r.drives[i], at) = Block(m.drives[i], at)
      /\ \A k \in Nat : Block(r.drives[i], at + k) = Block(m.drives[i], at + k)
  BY DEF Kept, SameDrives, Block
<1> HIDE DEF s, at
<1>4. /\ s \in Machines /\ Kept(r, s)
      /\ Running(s) =>
           \A q \in 1 .. NPages : q # p + 2 * ct =>
             \A b \in 0 .. PageBlocks - 1 : s.data[q][b] = r.data[q][b]
      /\ Running(s) /\ at + Chunk(count) <= DiskBlocks =>
           \A b \in 0 .. PageBlocks - 1 : b < Chunk(count) =>
             s.data[p + 2 * ct][b] = Block(r.drives[i], at + b)
  <2> DEFINE page == p + 2 * ct
  <2>1. page \in r.held
    BY <1>1, <1>3
  <2> HIDE DEF page
  <2>2. s = ReadBlocksNvme(r, i, page, at, Chunk(count))
    BY <1>2 DEF page
  <2>3. Transferred(r, s, i, page, at, Chunk(count))
    BY <1>1, <1>3, <2>1, <2>2, ReadBlocksNvmeFacts
  <2> QED BY <2>3 DEF page, Transferred
<1>5. Kept(m, s)
  BY <1>4, KeptTransitive
<1>6. ASSUME Running(s) PROVE Brought(m, s, i, p, count, lba, ct + 1)
  <2>1. Brought(m, r, i, p, count, lba, ct)
    BY <1>4, <1>6 DEF Kept, Running
  <2> SUFFICES ASSUME NEW k \in 0 .. ct + 1 - 1,
                      lba + k * MaxBlocks + Chunk(count) <= DiskBlocks,
                      NEW b \in 0 .. PageBlocks - 1, b < Chunk(count)
               PROVE  s.data[p + 2 * k][b] = Block(m.drives[i], lba + k * MaxBlocks + b)
    BY DEF Brought
  <2>2. CASE k = ct
    <3>1. at + Chunk(count) <= DiskBlocks
      BY <2>2 DEF at
    <3>2. s.data[p + 2 * ct][b] = Block(r.drives[i], at + b)
      BY <1>4, <1>6, <3>1
    <3>3. Block(r.drives[i], at + b) = Block(m.drives[i], at + b)
      BY <1>3, Sizes
    <3> QED BY <2>2, <3>2, <3>3 DEF at
  <2>3. CASE k # ct
    <3>1. k \in 0 .. ct - 1 /\ k \in 0 .. TransferCount(count) - 1
      BY <1>1, <2>3
    <3>2. p + 2 * k \in 1 .. NPages /\ p + 2 * k # p + 2 * ct
      BY <1>1, <2>3, <3>1
    <3>3. s.data[p + 2 * k][b] = r.data[p + 2 * k][b]
      BY <1>4, <1>6, <3>2
    <3> QED BY <2>1, <3>1, <3>3 DEF Brought
  <2> QED BY <2>2, <2>3
<1> QED
  BY <1>4, <1>5, <1>6 DEF s

(* All transfers of a read.                                                 *)
LEMMA ReadBlocksFacts ==
  ASSUME NEW m \in Machines, NEW i \in 1 .. Len(m.drives), NEW count \in Nat \ {0},
         NEW lba \in Nat, NEW p \in Nat,
         \A j \in 0 .. (count - 1) \div PageBlocks : p + j \in m.held
  PROVE  LET r == ReadBlocks(m, i, p, count, lba)
         IN  /\ r \in Machines /\ Kept(m, r)
             /\ Running(r) => Brought(m, r, i, p, count, lba, TransferCount(count))
<1> DEFINE T == TransferCount(count)
           R == {r \in Machines : Kept(m, r)}
           step == [x \in (1 .. T) \X R |-> Transfer(x[2], i, p, count, lba, x[1] - 1)]
           Is(f) == f = [n \in 0 .. T |-> IF n = 0 THEN m
                                         ELSE Transfer(f[n - 1], i, p, count, lba, n - 1)]
           after == CHOOSE f : Is(f)
<1>1. T \in Nat
  BY TransferFits
<1> HIDE DEF T
<1>2. m \in R
  BY DEF Kept, SameDrives
<1>3. step \in [(1 .. T) \X R -> R]
  <2>1. ASSUME NEW n \in 1 .. T, NEW r \in R
        PROVE  Transfer(r, i, p, count, lba, n - 1) \in R
    <3>1. n - 1 \in 0 .. TransferCount(count) - 1
      BY <1>1 DEF T
    <3>2. MaxBlocks \div PageBlocks = 2
      BY Sizes
    <3>3. 2 * (n - 1) \in 0 .. (count - 1) \div PageBlocks
      BY <3>1, TransferFits
    <3>4. p + 2 * (n - 1) \in r.held /\ i \in 1 .. Len(r.drives)
      BY <3>3 DEF Kept, SameDrives
    <3>5. Chunk(count) \in Nat \ {0} /\ lba + (n - 1) * MaxBlocks \in Nat
      BY <1>1, Sizes DEF Chunk
    <3> DEFINE s == ReadBlocksNvme(r, i, p + 2 * (n - 1), lba + (n - 1) * MaxBlocks,
                                   Chunk(count))
    <3>6. Transfer(r, i, p, count, lba, n - 1) = s
      <4>1. (n - 1) * 2 = 2 * (n - 1)
        BY <1>1
      <4> QED BY <3>2, <4>1 DEF Transfer, Chunk
    <3> HIDE DEF s
    <3>7. s \in Machines /\ Kept(r, s)
      <4>1. Transferred(r, s, i, p + 2 * (n - 1), lba + (n - 1) * MaxBlocks, Chunk(count))
        BY <3>4, <3>5, ReadBlocksNvmeFacts DEF s
      <4> QED BY <4>1 DEF Transferred
    <3>8. Kept(m, s)
      BY <3>7, KeptTransitive
    <3> QED BY <3>6, <3>7, <3>8
  <2> HIDE DEF R
  <2>2. \A x \in (1 .. T) \X R : x[1] \in 1 .. T /\ x[2] \in R
    OBVIOUS
  <2>3. \A x \in (1 .. T) \X R : Transfer(x[2], i, p, count, lba, x[1] - 1) \in R
    BY <2>1, <2>2
  <2> QED BY <2>3
<1>4. \E f : Is(f)
  <2> HIDE DEF R
  <2>1. PICK f \in [0 .. T -> R] :
          f[0] = m /\ \A n \in 1 .. T : f[n] = step[<<n, f[n - 1]>>]
    <3> HIDE DEF step
    <3>1. PICK f : Iterates(f, R, m, T, step)
      BY <1>1, <1>2, <1>3, RecursionExists
    <3> QED BY <3>1 DEF Iterates
  <2>2. ASSUME NEW n \in 0 .. T
        PROVE  f[n] = IF n = 0 THEN m ELSE Transfer(f[n - 1], i, p, count, lba, n - 1)
    <3>1. CASE n # 0
      <4>1. n \in 1 .. T /\ n - 1 \in 0 .. T
        BY <1>1, <3>1
      <4>2. <<n, f[n - 1]>> \in (1 .. T) \X R
        BY <2>1, <4>1
      <4> QED BY <2>1, <3>1, <4>1, <4>2
    <3> QED BY <2>1, <3>1
  <2>3. Is(f)
    BY <2>1, <2>2
  <2> QED BY <2>3
<1>5. Is(after)
  BY <1>4
<1>6. ReadBlocks(m, i, p, count, lba) = after[T]
  BY DEF ReadBlocks, T
<1> HIDE DEF after
<1>7. /\ after[0] = m
      /\ \A n \in 1 .. T : after[n] = Transfer(after[n - 1], i, p, count, lba, n - 1)
  BY <1>1, <1>5
<1> DEFINE Right(n) == /\ after[n] \in Machines /\ Kept(m, after[n])
                       /\ Running(after[n]) =>
                            Brought(m, after[n], i, p, count, lba, n)
           Shown == {n \in Nat : n <= T => Right(n)}
<1>8. 0 \in Shown
  BY <1>2, <1>7 DEF Brought
<1>9. ASSUME NEW n \in Nat, n \in Shown PROVE n + 1 \in Shown
  <2> SUFFICES ASSUME n + 1 <= T PROVE Right(n + 1)
    OBVIOUS
  <2>1. Right(n)
    BY <1>1, <1>9
  <2>2. after[n + 1] = Transfer(after[n], i, p, count, lba, n)
    <3>1. n + 1 \in 1 .. T /\ n + 1 - 1 = n
      BY <1>1
    <3> HIDE DEF Right
    <3>2. after[n + 1] = Transfer(after[n + 1 - 1], i, p, count, lba, n + 1 - 1)
      BY <1>7, <3>1
    <3> QED BY <3>1, <3>2
  <2>3. n \in 0 .. TransferCount(count) - 1
    BY <1>1 DEF T
  <2>4. /\ after[n + 1] \in Machines /\ Kept(m, after[n + 1])
        /\ Running(after[n + 1]) => Brought(m, after[n + 1], i, p, count, lba, n + 1)
    <3>1. /\ Transfer(after[n], i, p, count, lba, n) \in Machines
          /\ Kept(m, Transfer(after[n], i, p, count, lba, n))
          /\ Running(Transfer(after[n], i, p, count, lba, n)) =>
               Brought(m, Transfer(after[n], i, p, count, lba, n), i, p, count, lba, n + 1)
      BY <2>1, <2>3, TransferFacts
    <3> QED BY <2>2, <3>1
  <2> QED BY <2>4
<1>10. T \in Shown
  <2> HIDE DEF Shown
  <2> QED BY <1>1, <1>8, <1>9, NatSetInduction
<1> QED
  BY <1>1, <1>6, <1>10 DEF T

-----------------------------------------------------------------------------
(* Pages.                                                                   *)

(* Enough pages that n consecutive ones are free, wherever the others lie.  *)
Room(m, n) == (Cardinality(m.held) + 1) * n <= NPages

(* The pages of a machine can be counted.                                   *)
LEMMA HeldFinite ==
  ASSUME NEW m \in Machines
  PROVE  IsFiniteSet(m.held) /\ Cardinality(m.held) \in Nat
<1>1. m.held \subseteq 1 .. NPages /\ IsFiniteSet(1 .. NPages)
  BY Sizes, FS_Interval DEF Machines
<1> QED
  BY <1>1, FS_Subset, FS_CardinalityType

(* The pages of a run.                                                      *)
LEMMA RunCounted ==
  ASSUME NEW p \in Nat, NEW n \in Nat
  PROVE  IsFiniteSet(RunAt(p, n)) /\ Cardinality(RunAt(p, n)) = n
<1>1. p + n - 1 \in Int /\ p \in Int
  OBVIOUS
<1>2. /\ IsFiniteSet(p .. p + n - 1)
      /\ Cardinality(p .. p + n - 1) = IF p > p + n - 1 THEN 0 ELSE p + n - 1 - p + 1
  BY <1>1, FS_Interval
<1> QED
  BY <1>2 DEF RunAt

(* Of more disjoint runs than there are pages held, one is free.            *)
LEMMA FreeRunExists ==
  ASSUME NEW m \in Machines, NEW n \in Nat \ {0}, Room(m, n)
  PROVE  \E q \in 1 .. NPages - n + 1 : RunAt(q, n) \cap m.held = {}
<1> DEFINE c == Cardinality(m.held)
           at(b) == n * b + 1
<1>1. c \in Nat /\ IsFiniteSet(m.held) /\ (c + 1) * n <= NPages
      /\ m.held \subseteq 1 .. NPages
  BY HeldFinite DEF Room, Machines
<1> HIDE DEF c
<1>2. ASSUME NEW b \in 0 .. c PROVE at(b) \in 1 .. NPages - n + 1
  <2>1. b \in Nat /\ c - b \in Nat /\ n * b \in Nat /\ n * (c - b) \in Nat
    BY <1>1
  <2>2. (c + 1) * n = n * b + n * (c - b) + n
    BY <1>1, <2>1
  <2> QED BY <1>1, <2>1, <2>2, Sizes
<1> SUFFICES ASSUME \A b \in 0 .. c : RunAt(at(b), n) \cap m.held # {}
             PROVE  FALSE
  BY <1>2
<1> DEFINE hit == [b \in 0 .. c |-> CHOOSE p \in m.held : p \in RunAt(at(b), n)]
<1>3. \A b \in 0 .. c : hit[b] \in m.held /\ hit[b] \in RunAt(at(b), n)
  OBVIOUS
<1>4. hit \in [0 .. c -> m.held]
  BY <1>3
<1>5. IsFiniteSet(0 .. c) /\ Cardinality(0 .. c) = c + 1
  <2>1. 0 \in Int /\ c \in Int /\ ~ (0 > c) /\ c - 0 + 1 = c + 1
    BY <1>1
  <2> QED BY <2>1, FS_Interval
<1>6. Cardinality(m.held) < Cardinality(0 .. c)
  BY <1>1, <1>5 DEF c
<1> HIDE DEF hit
<1>7. PICK x, y \in 0 .. c : x # y /\ hit[x] = hit[y]
  BY <1>1, <1>4, <1>5, <1>6, FS_PigeonHole
<1>8. ASSUME NEW b \in 0 .. c PROVE (hit[b] - 1) \div n = b
  <2>1. b \in Nat /\ n * b \in Nat /\ hit[b] \in n * b + 1 .. n * b + 1 + n - 1
    BY <1>1, <1>3 DEF RunAt
  <2>2. PICK r \in 0 .. n - 1 : hit[b] - 1 = n * b + r
    <3>1. hit[b] - 1 - n * b \in 0 .. n - 1
      BY <2>1
    <3>2. hit[b] - 1 = n * b + (hit[b] - 1 - n * b)
      BY <2>1
    <3> QED BY <3>1, <3>2
  <2>3. hit[b] - 1 \in Nat
    BY <2>1
  <2> QED BY <2>1, <2>2, <2>3, DivUnique
<1> QED
  BY <1>7, <1>8

(* What palloc grants: a run of pages nobody holds.                         *)
Granted(m, a, n) ==
  /\ a.m = [m EXCEPT !.held = @ \cup RunAt(a.page, n)] /\ a.m \in Machines
  /\ a.page \in 1 .. NPages /\ a.page \in Nat
  /\ RunAt(a.page, n) \subseteq a.m.held /\ RunAt(a.page, n) \cap m.held = {}
  /\ a.m.held = m.held \cup RunAt(a.page, n)
  /\ Cardinality(a.m.held) = Cardinality(m.held) + n

(* It grants them while there is room.                                      *)
LEMMA PallocFacts ==
  ASSUME NEW m \in Machines, NEW n \in Nat \ {0}, Room(m, n)
  PROVE  Granted(m, Palloc(m, n), n)
<1> DEFINE F == {q \in 1 .. NPages - n + 1 : RunAt(q, n) \cap m.held = {}}
           p == Min(F)
           r == [m EXCEPT !.held = @ \cup RunAt(p, n)]
<1>1. F \in SUBSET Nat /\ F # {}
  BY FreeRunExists
<1>2. p \in F
  <2> HIDE DEF F
  <2> QED BY <1>1, MinIsLeast
<1>3. Palloc(m, n) = [m |-> r, page |-> p]
  BY DEF Palloc
<1>4. p \in 1 .. NPages - n + 1 /\ RunAt(p, n) \cap m.held = {}
  <2> HIDE DEF p
  <2> QED BY <1>2
<1> HIDE DEF p, F
<1>5. p \in Nat /\ p \in 1 .. NPages /\ RunAt(p, n) \subseteq 1 .. NPages
  BY <1>4, Sizes DEF RunAt
<1>6. r.held = m.held \cup RunAt(p, n) /\ r \in Machines
  BY <1>5 DEF Machines
<1>7. Cardinality(r.held) = Cardinality(m.held) + n
  <2>1. IsFiniteSet(RunAt(p, n)) /\ Cardinality(RunAt(p, n)) = n
    BY <1>5, RunCounted
  <2>2. m.held \cap RunAt(p, n) = {}
    BY <1>4
  <2>3. Cardinality(m.held \cup RunAt(p, n)) = Cardinality(m.held) + n - 0
    <3>1. IsFiniteSet(m.held) /\ Cardinality(m.held) \in Nat
      BY HeldFinite
    <3>2. Cardinality(m.held \cup RunAt(p, n)) =
            Cardinality(m.held) + Cardinality(RunAt(p, n)) - Cardinality(m.held \cap RunAt(p, n))
      BY <2>1, <3>1, FS_Union
    <3> QED BY <2>1, <2>2, <3>1, <3>2, FS_EmptySet
  <2> QED BY <1>6, <2>3, HeldFinite
<1> DEFINE a == Palloc(m, n)
<1>8. a.m = r /\ a.page = p
  <2> HIDE DEF r
  <2> QED BY <1>3
<1>9. RunAt(p, n) \subseteq r.held
  BY <1>6
<1> HIDE DEF a
<1>10. a.m = [m EXCEPT !.held = @ \cup RunAt(a.page, n)]
  BY <1>8 DEF r
<1> HIDE DEF r
<1> SUFFICES Granted(m, a, n)
  BY DEF a
<1> QED
  BY <1>4, <1>5, <1>6, <1>7, <1>8, <1>9, <1>10 DEF Granted

(* With room for M pages there is room while fewer are held.                *)
LEMMA RoomBelow ==
  ASSUME NEW m \in Machines, NEW M \in Nat, NEW n \in Nat \ {0}, (M + 1) * n <= NPages,
         Cardinality(m.held) <= M
  PROVE  Room(m, n)
<1> DEFINE c == Cardinality(m.held)
<1>1. c \in Nat /\ M - c \in Nat
  BY HeldFinite
<1> HIDE DEF c
<1>2. (c + 1) * n \in Nat /\ (M - c) * n \in Nat
  BY <1>1
<1>3. (M + 1) * n = (c + 1) * n + (M - c) * n
  BY <1>1
<1>4. (c + 1) * n <= NPages
  BY <1>2, <1>3, Sizes
<1> QED
  BY <1>4 DEF c, Room

-----------------------------------------------------------------------------
(* Reads.                                                                   *)

(* Where drive_read finds byte k of its answer: in which page and block of  *)
(* the buffer, and where in the block.                                      *)
BytePlaced(offset, k, at, b, j) ==
  /\ at \in Nat /\ at \div BlockBytes \in Nat /\ b \in Nat
  /\ at \div BlockBytes = offset \div BlockBytes + b
  /\ j \div PageBytes = b \div PageBlocks
  /\ (j % PageBytes) \div BlockBytes = b % PageBlocks
  /\ j % BlockBytes = at % BlockBytes

(* It is there that the byte is.                                            *)
LEMMA PlaceOfByte ==
  ASSUME NEW offset \in Nat, NEW k \in Nat
  PROVE  BytePlaced(offset, k, offset + k,
                    (offset + k) \div BlockBytes - offset \div BlockBytes,
                    LbaStartOffset(offset) + k)
<1> DEFINE l == offset \div BlockBytes
           z == offset % BlockBytes
           j == z + k
           q == j \div BlockBytes
           r == j % BlockBytes
<1>1. l \in Nat /\ z \in 0 .. BlockBytes - 1 /\ offset = BlockBytes * l + z
  BY Sizes, DivDef
<1> HIDE DEF l, z
<1>2. j \in Nat
  BY <1>1
<1>3. q \in Nat /\ r \in 0 .. BlockBytes - 1 /\ j = BlockBytes * q + r
  <2> HIDE DEF j
  <2> QED BY <1>2, Sizes, DivDef
<1> HIDE DEF q, r
<1> DEFINE at == offset + k
           lq == l + q
<1>4. at = BlockBytes * lq + r /\ at \in Nat /\ lq \in Nat /\ lq - l = q
  <2>1. BlockBytes * (l + q) = BlockBytes * l + BlockBytes * q
    BY <1>1, <1>3, Sizes
  <2>2. BlockBytes * l \in Nat /\ BlockBytes * q \in Nat
    BY <1>1, <1>3, Sizes
  <2> QED BY <1>1, <1>3, <2>1, <2>2
<1> HIDE DEF at, lq
<1>5. at \div BlockBytes = lq /\ at % BlockBytes = r
  <2>1. r \in 0 .. BlockBytes - 1 /\ BlockBytes \in Nat \ {0}
    BY <1>3, Sizes
  <2> QED BY <1>4, <2>1, DivUnique
<1> HIDE DEF j
<1>6. Nested(j, PageBlocks, BlockBytes)
  BY <1>2, Sizes, DivNest
<1>7. j \div PageBytes = q \div PageBlocks
      /\ (j % PageBytes) \div BlockBytes = q % PageBlocks
      /\ j % BlockBytes = r
  BY <1>6 DEF Nested, PageBytes, q, r
<1>8. BytePlaced(offset, k, at, q, j)
  <2>1. at \in Nat /\ at \div BlockBytes \in Nat /\ q \in Nat /\ at \div BlockBytes = l + q
    BY <1>3, <1>4, <1>5 DEF lq
  <2> QED BY <1>5, <1>7, <2>1 DEF BytePlaced, l
<1>9. LbaStartOffset(offset) + k = j /\ at \div BlockBytes - l = q
  BY <1>4, <1>5 DEF j, z, LbaStartOffset
<1> QED
  BY <1>8, <1>9 DEF at, l

(* A reliable block of a read is one that a transfer from the disk has      *)
(* brought into the first of its two pages.                                 *)
LEMMA PlaceOfBlock ==
  ASSUME NEW lba \in Nat, NEW count \in Nat \ {0}, NEW b \in 0 .. count - 1,
         Reliable(lba, b, count)
  PROVE  \E ct \in 0 .. TransferCount(count) - 1, s \in 0 .. PageBlocks - 1 :
           /\ b \div PageBlocks = 2 * ct /\ b % PageBlocks = s
           /\ s < Chunk(count) /\ lba + ct * MaxBlocks + Chunk(count) <= DiskBlocks
           /\ lba + ct * MaxBlocks + s = lba + b
<1> DEFINE ct == b \div MaxBlocks  s == b % MaxBlocks
<1>1. b \in Nat /\ count - 1 \in Nat /\ b <= count - 1
  OBVIOUS
<1>2. ct \in Nat /\ s \in 0 .. MaxBlocks - 1 /\ b = MaxBlocks * ct + s
  BY <1>1, Sizes, DivDef
<1>3. s < PageBlocks /\ lba + ct * MaxBlocks + Chunk(count) <= DiskBlocks
  BY DEF Reliable, Chunk
<1>4. ct <= (count - 1) \div MaxBlocks
  BY <1>1, Sizes, DivMonotone
<1>5. TransferCount(count) = (count - 1) \div MaxBlocks + 1 /\ (count - 1) \div MaxBlocks \in Nat
  BY <1>1, TransferFits, DivDef, Sizes
<1> HIDE DEF ct, s
<1>6. ct \in 0 .. TransferCount(count) - 1
  BY <1>2, <1>4, <1>5
<1>7. s \in 0 .. PageBlocks - 1 /\ MaxBlocks * ct = PageBlocks * (2 * ct) /\ 2 * ct \in Nat
  BY <1>2, <1>3, Sizes
<1>8. b \div PageBlocks = 2 * ct /\ b % PageBlocks = s
  <2>1. b = PageBlocks * (2 * ct) + s
    BY <1>2, <1>7
  <2> QED BY <1>1, <1>7, <2>1, Sizes, DivUnique
<1>9. MaxBlocks * ct \in Nat /\ MaxBlocks * ct = ct * MaxBlocks
  BY <1>2, Sizes
<1>10. s < Chunk(count)
  BY <1>1, <1>2, <1>9, Sizes DEF Chunk
<1>11. lba + ct * MaxBlocks + s = lba + b
  BY <1>2, <1>9
<1> QED
  BY <1>3, <1>6, <1>7, <1>8, <1>10, <1>11

(* What a read leaves and returns.                                          *)
ReadDone(m, rd, i, len, offset) ==
  /\ rd.m \in Machines /\ rd.m.admin_sent = m.admin_sent
  /\ SameDrives(m.drives, rd.m.drives) /\ rd.m.stage \in {m.stage, "hung"}
  /\ Running(rd.m) => rd.m.held = m.held
  /\ Running(rd.m) =>
       \A k \in 0 .. len - 1 :
         Reliable(offset \div BlockBytes,
                  (offset + k) \div BlockBytes - offset \div BlockBytes,
                  BlockCount(len, offset))
           => rd.bytes[k] = <<Block(m.drives[i], (offset + k) \div BlockBytes),
                              (offset + k) % BlockBytes>>

(* With room for its buffer, a read is done.                                *)
LEMMA DriveReadFacts ==
  ASSUME NEW m \in Machines, NEW i \in 1 .. Len(m.drives), NEW len \in Nat \ {0},
         NEW offset \in Nat, Room(m, BufferPages(len, offset))
  PROVE  ReadDone(m, DriveRead(m, i, len, offset), i, len, offset)
<1> DEFINE pages == BufferPages(len, offset)
           count == BlockCount(len, offset)
           lba == offset \div BlockBytes
           buf == Palloc(m, pages)
           done == ReadBlocks(buf.m, i, buf.page, count, lba)
           Byte(k) == <<done.data[buf.page + k \div PageBytes]
                                 [(k % PageBytes) \div BlockBytes], k % BlockBytes>>
           rd == DriveRead(m, i, len, offset)
<1>1. count \in Nat \ {0} /\ lba \in Nat
  BY BlockCountIs
<1>2. pages = (count - 1) \div PageBlocks + 1 /\ (count - 1) \div PageBlocks \in Nat
  BY <1>1, PagesOfBlocks DEF BufferPages
<1>3. rd.m = (IF Running(done) THEN Pfree(done, buf.page, pages) ELSE done)
      /\ rd.bytes = [k \in 0 .. len - 1 |-> Byte(LbaStartOffset(offset) + k)]
  BY DEF DriveRead
<1>4. Granted(m, buf, pages)
  <2>1. pages \in Nat \ {0}
    BY <1>2
  <2> HIDE DEF pages
  <2> QED BY <2>1, PallocFacts DEF pages
<1> HIDE DEF pages, count, lba, buf
<1>5. /\ buf.m \in Machines /\ buf.page \in Nat /\ buf.page \in 1 .. NPages
      /\ buf.m.drives = m.drives /\ buf.m.stage = m.stage
      /\ buf.m.admin_sent = m.admin_sent
      /\ buf.m.held = m.held \cup RunAt(buf.page, pages)
      /\ RunAt(buf.page, pages) \cap m.held = {}
  BY <1>4 DEF Granted, Machines
<1>6. \A j \in 0 .. (count - 1) \div PageBlocks : buf.page + j \in buf.m.held
  <2> DEFINE last == (count - 1) \div PageBlocks
  <2>1. last \in Nat /\ pages = last + 1
    BY <1>2
  <2> HIDE DEF last
  <2>2. \A j \in 0 .. last : buf.page + j \in RunAt(buf.page, pages)
    BY <1>5, <2>1 DEF RunAt
  <2> QED BY <1>5, <2>2 DEF last
<1>7. /\ done \in Machines /\ Kept(buf.m, done)
      /\ Running(done) => Brought(buf.m, done, i, buf.page, count, lba, TransferCount(count))
  BY <1>1, <1>5, <1>6, ReadBlocksFacts
<1> HIDE DEF done
<1>8. Pfree(done, buf.page, pages) \in Machines
      /\ Pfree(done, buf.page, pages).held = m.held
      /\ Pfree(done, buf.page, pages) = [done EXCEPT !.held = m.held]
  <2>1. done.held \ RunAt(buf.page, pages) = m.held
    BY <1>5, <1>7 DEF Kept
  <2>2. Pfree(done, buf.page, pages) = [done EXCEPT !.held = m.held]
    BY <2>1 DEF Pfree
  <2>3. m.held \subseteq 1 .. NPages
    BY DEF Machines
  <2> QED BY <1>7, <2>2, <2>3 DEF Machines
<1>9. /\ rd.m \in Machines /\ rd.m.admin_sent = done.admin_sent
      /\ rd.m.drives = done.drives /\ rd.m.stage = done.stage
      /\ Running(rd.m) => Running(done) /\ rd.m.held = m.held
  BY <1>3, <1>7, <1>8 DEF Machines, Running
<1>10. ASSUME Running(rd.m), NEW k \in 0 .. len - 1,
              Reliable(lba, (offset + k) \div BlockBytes - lba, count)
       PROVE  rd.bytes[k] = <<Block(m.drives[i], (offset + k) \div BlockBytes),
                              (offset + k) % BlockBytes>>
  <2> DEFINE j == LbaStartOffset(offset) + k
             b == (offset + k) \div BlockBytes - lba
  <2>1. b \in 0 .. count - 1
    BY BlockCountIs DEF lba, count
  <2>2. BytePlaced(offset, k, offset + k, b, j)
    BY PlaceOfByte DEF lba
  <2>3. rd.bytes[k] = Byte(j)
    BY <1>3
  <2>4. lba + b = (offset + k) \div BlockBytes
    BY <2>2 DEF BytePlaced, lba
  <2>5. Brought(buf.m, done, i, buf.page, count, lba, TransferCount(count))
    BY <1>7, <1>9, <1>10
  <2> HIDE DEF j, b
  <2>6. PICK ct \in 0 .. TransferCount(count) - 1, s \in 0 .. PageBlocks - 1 :
           /\ b \div PageBlocks = 2 * ct /\ b % PageBlocks = s
           /\ s < Chunk(count) /\ lba + ct * MaxBlocks + Chunk(count) <= DiskBlocks
           /\ lba + ct * MaxBlocks + s = lba + b
    <3>1. Reliable(lba, b, count)
      BY <1>10 DEF b
    <3> QED BY <1>1, <2>1, <3>1, PlaceOfBlock
  <2>7. done.data[buf.page + 2 * ct][s] = Block(buf.m.drives[i], lba + b)
    BY <2>5, <2>6 DEF Brought
  <2>8. Byte(j) = <<done.data[buf.page + 2 * ct][s], (offset + k) % BlockBytes>>
    BY <2>2, <2>6 DEF BytePlaced
  <2> QED BY <1>5, <2>3, <2>4, <2>7, <2>8
<1> HIDE DEF rd
<1>11. /\ rd.m.admin_sent = m.admin_sent /\ rd.m.stage \in {m.stage, "hung"}
       /\ SameDrives(m.drives, rd.m.drives)
  BY <1>5, <1>7, <1>9 DEF Kept
<1>12. ReadDone(m, rd, i, len, offset)
  BY <1>9, <1>10, <1>11 DEF ReadDone, lba, count
<1> QED
  BY <1>12 DEF rd

-----------------------------------------------------------------------------
(* Partition tables.                                                        *)

(* A read of whole blocks.                                                  *)
LEMMA WholeBlocks ==
  ASSUME NEW c \in Nat \ {0}, NEW l \in Nat
  PROVE  /\ BlockBytes * c \in Nat \ {0} /\ BlockBytes * l \in Nat
         /\ BlockCount(BlockBytes * c, BlockBytes * l) = c
         /\ BufferPages(BlockBytes * c, BlockBytes * l) = (c - 1) \div PageBlocks + 1
         /\ (BlockBytes * l) \div BlockBytes = l
<1> DEFINE len == BlockBytes * c  offset == BlockBytes * l  last == offset + len - 1
<1>1. len \in Nat \ {0} /\ offset \in Nat /\ c - 1 \in Nat /\ l + c - 1 \in Nat
      /\ 0 \in 0 .. BlockBytes - 1 /\ BlockBytes - 1 \in 0 .. BlockBytes - 1
  <2>1. len \in Nat /\ offset \in Nat
    BY Sizes
  <2>2. len # 0
    BY Sizes
  <2> QED BY <2>1, <2>2, Sizes
<1>2. offset = BlockBytes * l + 0
  BY <1>1
<1>3. last = BlockBytes * (l + c - 1) + (BlockBytes - 1) /\ last \in Nat
  <2>1. BlockBytes * (l + c - 1) = BlockBytes * l + BlockBytes * c - BlockBytes
    BY Sizes
  <2> QED BY <1>1, <2>1, Sizes
<1> HIDE DEF last, offset
<1>4. offset \div BlockBytes = l
  BY <1>1, <1>2, Sizes, DivUnique
<1>5. last \div BlockBytes = l + c - 1
  <2> DEFINE e == l + c - 1
  <2>1. last = BlockBytes * e + (BlockBytes - 1) /\ e \in Nat
    BY <1>1, <1>3
  <2> HIDE DEF e
  <2>2. last \div BlockBytes = e
    BY <1>1, <1>3, <2>1, Sizes, DivUnique
  <2> QED BY <2>2 DEF e
<1>6. BlockCount(len, offset) = c
  <2>1. BlockCount(len, offset) = last \div BlockBytes - offset \div BlockBytes + 1
    BY DEF BlockCount, last
  <2> QED BY <1>4, <1>5, <2>1
<1>7. BufferPages(len, offset) = (c - 1) \div PageBlocks + 1
  BY <1>6, PagesOfBlocks DEF BufferPages
<1> QED
  BY <1>1, <1>4, <1>6, <1>7 DEF offset

(* The header is a block, and the buffer of the table some pages, of which  *)
(* one is released.                                                         *)
LEMMA TableSizes ==
  /\ TableBytes \in Nat \ {0} /\ TablePages \in Nat \ {0} /\ ReleasedPages = 1
  /\ BufferPages(BlockBytes, BlockBytes) = 1
<1>1. 1 \in Nat \ {0} /\ 2 \in Nat /\ BlockBytes * 1 = BlockBytes /\ 1 - 1 = 0
      /\ 0 \div PageBlocks = 0 /\ TableBlocks \in Nat \ {0}
  <2>1. 0 = PageBlocks * 0 + 0 /\ 0 \in 0 .. PageBlocks - 1 /\ 0 \in Nat
    BY Sizes
  <2>2. 0 \div PageBlocks = 0
    BY <2>1, Sizes, DivUnique
  <2> QED BY <2>2, Sizes
<1>2. BufferPages(BlockBytes, BlockBytes) = 1
  <2>1. BufferPages(BlockBytes * 1, BlockBytes * 1) = (1 - 1) \div PageBlocks + 1
    BY <1>1, WholeBlocks
  <2> QED BY <1>1, <2>1
<1>3. TableBytes \in Nat \ {0}
  BY <1>1, WholeBlocks DEF TableBytes
<1>4. TablePages = (TableBlocks - 1) \div PageBlocks + 1
      /\ (TableBlocks - 1) \div PageBlocks \in Nat
  <2>1. TableBytes = TableBlocks * BlockBytes
    BY Sizes DEF TableBytes
  <2> QED BY <1>1, <2>1, PagesOfBlocks DEF TablePages
<1>5. ReleasedPages = 1
  <2>1. BlockBytes = 1 * BlockBytes
    BY Sizes
  <2> QED BY <1>1, <2>1, PagesOfBlocks DEF ReleasedPages
<1> QED
  BY <1>2, <1>3, <1>4, <1>5

(* The read of a table, wherever the header says it starts.                 *)
LEMMA TableRead ==
  ASSUME gpt \in Gpts
  PROVE  /\ gpt.start \in Nat /\ gpt.count \in Nat /\ gpt.size \in Nat
         /\ TableOffset \in Nat /\ TableOffset = BlockBytes * gpt.start
         /\ BufferPages(TableBytes, TableOffset) = TablePages
         /\ BlockCount(TableBytes, TableOffset) = TableBlocks
         /\ TableOffset \div BlockBytes = gpt.start
<1>1. gpt.start \in Nat /\ gpt.count \in Nat /\ gpt.size \in Nat
  BY GptAssumption
<1>2. TableBlocks \in Nat \ {0}
  BY Sizes
<1>3. BufferPages(TableBytes, TableOffset) = TablePages
  <2>1. TableBytes = TableBlocks * BlockBytes
    BY Sizes DEF TableBytes
  <2>2. TablePages = (TableBlocks - 1) \div PageBlocks + 1
    BY <1>2, <2>1, PagesOfBlocks DEF TablePages
  <2> QED BY <1>1, <1>2, <2>2, WholeBlocks DEF TableOffset, TableBytes
<1> QED
  BY <1>1, <1>2, <1>3, WholeBlocks DEF TableOffset, TableBytes

(* Where an entry lies on the disk, if it lies in the buffer.               *)
LEMMA EntryLies ==
  ASSUME gpt \in Gpts, NEW e \in 0 .. gpt.count - 1, EntryAt(e) < TableBytes
  PROVE  /\ EntryAt(e) \in 0 .. TableBytes - 1 /\ EntryAt(e) \div BlockBytes \in Nat
         /\ (TableOffset + EntryAt(e)) \div BlockBytes
              = gpt.start + EntryAt(e) \div BlockBytes
         /\ (gpt.start + EntryAt(e) \div BlockBytes) * BlockBytes
              + ((TableOffset + EntryAt(e)) % BlockBytes)
              = gpt.start * BlockBytes + e * gpt.size
<1> DEFINE k == EntryAt(e)
           b == k \div BlockBytes
           o == k % BlockBytes
           l == gpt.start + b
           at == TableOffset + k
<1>1. k \in Nat /\ k = e * gpt.size
  BY TableRead DEF EntryAt
<1>2. k \in 0 .. TableBytes - 1
  <2> HIDE DEF k
  <2> QED BY <1>1, TableSizes DEF k
<1> HIDE DEF k
<1>3. b \in Nat /\ o \in 0 .. BlockBytes - 1 /\ k = BlockBytes * b + o
  BY <1>1, Sizes, DivDef
<1> HIDE DEF b, o
<1>4. l \in Nat /\ at \in Nat
  BY <1>1, <1>3, TableRead
<1>5. at = BlockBytes * l + o
  <2> DEFINE a == gpt.start
  <2>1. a \in Nat /\ TableOffset = BlockBytes * a
    BY TableRead
  <2> HIDE DEF a
  <2>2. BlockBytes * (a + b) = BlockBytes * a + BlockBytes * b
    BY <1>3, <2>1, Sizes
  <2> QED BY <1>3, <2>1, <2>2, Sizes DEF a
<1> HIDE DEF l, at
<1>6. at \div BlockBytes = l /\ at % BlockBytes = o
  BY <1>3, <1>4, <1>5, Sizes, DivUnique
<1>7. l * BlockBytes + o = gpt.start * BlockBytes + k
  <2> DEFINE a == gpt.start
  <2>1. a \in Nat
    BY TableRead
  <2> HIDE DEF a
  <2>2. (a + b) * BlockBytes = a * BlockBytes + BlockBytes * b
    BY <1>3, <2>1, Sizes
  <2> QED BY <1>3, <2>1, <2>2, Sizes DEF a, l
<1>8. l * BlockBytes + (at % BlockBytes) = gpt.start * BlockBytes + e * gpt.size
  BY <1>1, <1>6, <1>7 DEF k
<1> QED
  <2>1. EntryAt(e) \in 0 .. TableBytes - 1 /\ EntryAt(e) \div BlockBytes \in Nat
    BY <1>2, <1>3 DEF k, b
  <2>2. /\ (TableOffset + EntryAt(e)) \div BlockBytes
             = gpt.start + EntryAt(e) \div BlockBytes
        /\ (gpt.start + EntryAt(e) \div BlockBytes) * BlockBytes
             + ((TableOffset + EntryAt(e)) % BlockBytes)
             = gpt.start * BlockBytes + e * gpt.size
    BY <1>6, <1>8, Zenon DEF k, b, l, at
  <2> QED BY <2>1, <2>2

(* A table that was found as it is.                                         *)
FoundRight(found) ==
  \A e \in 0 .. gpt.count - 1 :
    /\ EntryAt(e) < TableBytes
    /\ Reliable(gpt.start, EntryAt(e) \div BlockBytes, TableBlocks)
    => (e \in found <=> gpt.start * BlockBytes + e * gpt.size \in gpt.used)

(* What is left of the machine by loading a table, and what is found.       *)
Loaded(m, ld) ==
  /\ ld.m \in Machines /\ SameDrives(m.drives, ld.m.drives)
  /\ ld.m.stage \in {m.stage, "hung", "panic", "astray"}
  /\ Running(ld.m) =>
       /\ m.held \subseteq ld.m.held
       /\ Cardinality(ld.m.held) = Cardinality(m.held) + TablePages - 1
       /\ FoundRight(ld.found)

(* With room for the table and the buffer it is read through, it is loaded. *)
LEMMA PartitionLoadFacts ==
  ASSUME NEW m \in Machines, NEW i \in 1 .. Len(m.drives), gpt \in Gpts,
         Room(m, 1), Room(m, TablePages),
         NEW M \in Nat, Cardinality(m.held) + TablePages <= M, (M + 1) * TablePages <= NPages,
         NEW ld \in PartitionLoadDrive(m, i)
  PROVE  Loaded(m, ld)
<1> DEFINE hdr == DriveRead(m, i, BlockBytes, BlockBytes)
           signature == gpt.signed /\ hdr.bytes[0] = <<Block(m.drives[i], 1), 0>>
           lba2 == Palloc(hdr.m, TablePages)
           entries == DriveRead(lba2.m, i, TableBytes, TableOffset)
           given == Pfree(entries.m, lba2.page, ReleasedPages)
<1>1. /\ ~ Running(hdr.m) => ld.m = hdr.m
      /\ Running(hdr.m) /\ ~ signature => ld.m = [hdr.m EXCEPT !.stage = "panic"]
      /\ Running(hdr.m) /\ signature /\ ~ Running(entries.m) => ld.m = entries.m
      /\ Running(hdr.m) /\ signature /\ Running(entries.m) =>
           \/ ld.m = [entries.m EXCEPT !.stage = "astray"]
           \/ \E found \in Findings(entries.bytes) : ld = [m |-> given, found |-> found]
  <2> HIDE DEF hdr, signature, lba2, entries, given
  <2> DEFINE astray == [entries.m EXCEPT !.stage = "astray"]
             Nothing(n) == [m |-> n, found |-> {}]
  <2>1. ld \in
          IF ~ Running(hdr.m) THEN {Nothing(hdr.m)}
          ELSE IF ~ signature THEN {Nothing([hdr.m EXCEPT !.stage = "panic"])}
          ELSE IF ~ Running(entries.m) THEN {Nothing(entries.m)}
          ELSE {IF Overruns(found) THEN Nothing(astray)
                ELSE [m |-> given, found |-> found] : found \in Findings(entries.bytes)}
               \cup {Nothing(astray) :
                        e \in {e \in 0 .. gpt.count - 1 : EntryAt(e) >= TableBytes}}
    BY DEF PartitionLoadDrive, hdr, signature, lba2, entries, given
  <2> HIDE DEF astray
  <2> QED BY <2>1 DEF astray
<1> SUFFICES Loaded(m, ld)
  OBVIOUS
<1>2. ReadDone(m, hdr, i, BlockBytes, BlockBytes)
  BY Sizes, TableSizes, DriveReadFacts
<1> HIDE DEF hdr
<1>3. /\ hdr.m \in Machines /\ SameDrives(m.drives, hdr.m.drives)
      /\ hdr.m.stage \in {m.stage, "hung"} /\ (Running(hdr.m) => hdr.m.held = m.held)
  BY <1>2 DEF ReadDone
<1>4. CASE ~ Running(hdr.m)
  <2>1. ld.m = hdr.m
    BY <1>1, <1>4
  <2> QED BY <1>3, <1>4, <2>1 DEF Loaded
<1>5. CASE Running(hdr.m) /\ ~ signature
  <2>1. ld.m = [hdr.m EXCEPT !.stage = "panic"]
    BY <1>1, <1>5
  <2>2. ld.m \in Machines /\ ld.m.stage = "panic" /\ ld.m.drives = hdr.m.drives
    BY <1>3, <2>1 DEF Machines, Stages
  <2> QED BY <1>3, <2>2 DEF Loaded, Running
<1>6. CASE Running(hdr.m) /\ signature
  <2>1. hdr.m.held = m.held /\ Room(hdr.m, TablePages)
    BY <1>3, <1>6 DEF Room
  <2>2. Granted(hdr.m, lba2, TablePages)
    BY <1>3, <2>1, TableSizes, PallocFacts
  <2> HIDE DEF lba2
  <2>3. /\ lba2.m \in Machines /\ lba2.page \in Nat
        /\ lba2.m.drives = hdr.m.drives /\ lba2.m.stage = hdr.m.stage
        /\ lba2.m.held = m.held \cup RunAt(lba2.page, TablePages)
        /\ RunAt(lba2.page, TablePages) \cap m.held = {}
        /\ Cardinality(lba2.m.held) = Cardinality(m.held) + TablePages
    BY <1>3, <2>1, <2>2 DEF Granted, Machines
  <2>4. i \in 1 .. Len(lba2.m.drives)
    BY <1>3, <2>3 DEF SameDrives
  <2>5. Room(lba2.m, TablePages)
    BY <2>3, TableSizes, RoomBelow
  <2>6. ReadDone(lba2.m, entries, i, TableBytes, TableOffset)
    BY <2>3, <2>4, <2>5, TableSizes, TableRead, DriveReadFacts
  <2> HIDE DEF entries
  <2>7. /\ entries.m \in Machines /\ SameDrives(m.drives, entries.m.drives)
        /\ entries.m.stage \in {m.stage, "hung"}
        /\ Running(entries.m) => entries.m.held = lba2.m.held
    BY <1>3, <2>3, <2>6 DEF ReadDone, SameDrives
  <2>8. CASE ~ Running(entries.m)
    <3>1. ld.m = entries.m
      BY <1>1, <1>6, <2>8
    <3> QED BY <2>7, <2>8, <3>1 DEF Loaded
  <2>9. CASE Running(entries.m) /\ ld.m = [entries.m EXCEPT !.stage = "astray"]
    <3>1. ld.m \in Machines /\ ld.m.stage = "astray" /\ ld.m.drives = entries.m.drives
      BY <2>7, <2>9 DEF Machines, Stages
    <3> QED BY <2>7, <3>1 DEF Loaded, Running
  <2>10. CASE /\ Running(entries.m)
              /\ \E found \in Findings(entries.bytes) : ld = [m |-> given, found |-> found]
    <3>1. PICK found \in Findings(entries.bytes) : ld.m = given /\ ld.found = found
      BY <2>10
    <3>2. given = [entries.m EXCEPT !.held = @ \ {lba2.page}]
      <4>1. RunAt(lba2.page, 1) = {lba2.page}
        BY <2>3 DEF RunAt
      <4> QED BY <4>1, TableSizes DEF Pfree
    <3>3. /\ given \in Machines /\ given.held = lba2.m.held \ {lba2.page}
          /\ given.drives = entries.m.drives /\ given.stage = entries.m.stage
      BY <2>7, <2>10, <3>2 DEF Machines
    <3>4. lba2.page \in RunAt(lba2.page, TablePages)
      BY <2>3, TableSizes DEF RunAt
    <3>5. Cardinality(given.held) = Cardinality(m.held) + TablePages - 1
      <4>1. lba2.page \in lba2.m.held /\ IsFiniteSet(lba2.m.held)
        BY <2>3, <3>4, HeldFinite
      <4> DEFINE all == lba2.m.held  page == lba2.page
      <4> HIDE DEF all, page
      <4>2. Cardinality(all \ {page}) = Cardinality(all) - 1
        BY <4>1, FS_RemoveElement DEF all, page
      <4>3. Cardinality(m.held) \in Nat
        BY HeldFinite
      <4> QED BY <2>3, <3>3, <4>2, <4>3, TableSizes DEF all, page
    <3>6. m.held \subseteq given.held
      BY <2>3, <3>3, <3>4
    <3>7. FoundRight(found)
      <4> SUFFICES ASSUME NEW e \in 0 .. gpt.count - 1, EntryAt(e) < TableBytes,
                          Reliable(gpt.start, EntryAt(e) \div BlockBytes, TableBlocks)
                   PROVE  e \in found <=> gpt.start * BlockBytes + e * gpt.size \in gpt.used
        BY DEF FoundRight
      <4> DEFINE k == EntryAt(e)
                 l == (TableOffset + k) \div BlockBytes
                 o == (TableOffset + k) % BlockBytes
                 d == lba2.m.drives[i]
      <4>1. /\ k \in 0 .. TableBytes - 1 /\ k \div BlockBytes \in Nat
            /\ l = gpt.start + k \div BlockBytes
            /\ l * BlockBytes + o = gpt.start * BlockBytes + e * gpt.size
        <5>1. l = gpt.start + k \div BlockBytes
          BY EntryLies, Zenon
        <5>2. (gpt.start + k \div BlockBytes) * BlockBytes + o
                = gpt.start * BlockBytes + e * gpt.size
          BY EntryLies, Zenon
        <5>3. k \in 0 .. TableBytes - 1 /\ k \div BlockBytes \in Nat
          BY EntryLies, Zenon
        <5> QED BY <5>1, <5>2, <5>3, Zenon
      <4>2. l - TableOffset \div BlockBytes = k \div BlockBytes
        BY <4>1, TableRead
      <4>3. entries.bytes[k] = <<Block(d, l), o>>
        <5>1. Reliable(TableOffset \div BlockBytes, l - TableOffset \div BlockBytes,
                       BlockCount(TableBytes, TableOffset))
          BY <4>2, TableRead
        <5> HIDE DEF k, l, o, d
        <5> QED BY <2>6, <2>10, <4>1, <5>1 DEF ReadDone, l, o, d
      <4> HIDE DEF k, l, o, d
      <4>4. entries.bytes[k][1] # Junk /\ entries.bytes[k][1][3] = l /\ entries.bytes[k][2] = o
        BY <4>3 DEF Block, Junk
      <4>5. Legible(entries.bytes, e)
        BY <4>4 DEF Legible, k
      <4>6. Used(entries.bytes[EntryAt(e)])
              <=> gpt.start * BlockBytes + e * gpt.size \in gpt.used
        BY <4>1, <4>4 DEF Used, k
      <4>7. e \in found <=> Used(entries.bytes[EntryAt(e)])
        BY <3>1, <4>5 DEF Findings
      <4> QED BY <4>6, <4>7
    <3> HIDE DEF given
    <3> QED BY <2>7, <3>1, <3>3, <3>5, <3>6, <3>7 DEF Loaded
  <2> QED BY <1>1, <1>6, <2>8, <2>9, <2>10
<1> QED
  BY <1>4, <1>5, <1>6

-----------------------------------------------------------------------------
(* The inductive invariant.                                                 *)

MachineInv == Machine \in Machines

BusInv ==
  /\ buses \in Buses /\ gpt \in Gpts /\ bus \in 0 .. Len(buses) - 1
  /\ stage = "list" =>
       /\ bus < Len(buses) - 1 /\ buses[bus + 1] = "nvme"
       /\ nsids.ids \in Seq(Nat) /\ nsids.page \in held

(* The controllers on the first n buses.                                    *)
Controllers(n) == {b \in 0 .. n - 1 : buses[b + 1] = "nvme"}

(* The pages kept for the controllers and drives that are initialized.      *)
KeptPages == 3 * Cardinality(Controllers(bus)) + Len(drives) * (2 + TablePages)

(* While a controller is initialized, its three pages and the list of its   *)
(* namespaces are held as well.                                             *)
PagesInv ==
  /\ stage \in {"pci", "up"} => Cardinality(held) = KeptPages
  /\ stage = "list" => Cardinality(held) = KeptPages + 4

DevicesInv ==
  /\ devices \in [Slots -> 0 .. Len(drives)] /\ kernel_id \in Slots \cup {-1}
  /\ kernel_id # -1 => devices[kernel_id] = 0
  /\ \A i \in 1 .. Len(drives) :
       \E s \in Slots : \A r \in Slots : devices[r] = i <=> r = s

TablesInv ==
  /\ \A s \in Slots : partitions[s] # Free =>
       partitions[s].drive \in 1 .. Len(drives) /\ FoundRight(partitions[s].found)
  /\ \A s, r \in Slots :
       partitions[s].drive = partitions[r].drive /\ partitions[s] # Free => s = r

AnswerInv == answer.len = 0 \/ (answer.drive \in 1 .. Len(drives) /\ ReadsRight)

IInv == MachineInv /\ BusInv /\ PagesInv /\ DevicesInv /\ TablesInv /\ AnswerInv

-----------------------------------------------------------------------------
(* What the invariant says of sizes.                                        *)

(* The table of buses.                                                      *)
LEMMA BusesFacts ==
  ASSUME BusInv
  PROVE  /\ Len(buses) \in Nat \ {0} /\ bus \in Nat
         /\ IsFiniteSet(Controllers(bus)) /\ Cardinality(Controllers(bus)) \in 0 .. bus
         /\ Cardinality(Controllers(bus + 1)) =
              Cardinality(Controllers(bus)) + (IF buses[bus + 1] = "nvme" THEN 1 ELSE 0)
<1>1. buses \in Seq(STRING) /\ buses # << >>
  BY InputAssumption DEF BusInv
<1>2. Len(buses) \in Nat \ {0} /\ bus \in Nat
  BY <1>1 DEF BusInv
<1>3. IsFiniteSet(0 .. bus - 1) /\ Cardinality(0 .. bus - 1) = bus
  <2>1. 0 \in Int /\ bus - 1 \in Int
    BY <1>2
  <2>2. Cardinality(0 .. bus - 1) = IF 0 > bus - 1 THEN 0 ELSE bus - 1 - 0 + 1
    BY <2>1, FS_Interval
  <2> QED BY <1>2, <2>1, <2>2, FS_Interval
<1>4. Controllers(bus) \subseteq 0 .. bus - 1
  BY DEF Controllers
<1>5. IsFiniteSet(Controllers(bus)) /\ Cardinality(Controllers(bus)) \in Nat
      /\ Cardinality(Controllers(bus)) <= bus
  BY <1>3, <1>4, FS_Subset, FS_CardinalityType
<1>6. bus \notin Controllers(bus)
  BY <1>2 DEF Controllers
<1>7. CASE buses[bus + 1] = "nvme"
  <2>1. Controllers(bus + 1) = Controllers(bus) \cup {bus}
    BY <1>2, <1>7 DEF Controllers
  <2> QED BY <1>2, <1>5, <1>6, <1>7, <2>1, FS_AddElement
<1>8. CASE buses[bus + 1] # "nvme"
  <2>1. Controllers(bus + 1) = Controllers(bus)
    BY <1>2, <1>8 DEF Controllers
  <2> QED BY <1>2, <1>5, <1>8, <2>1
<1> QED
  BY <1>7, <1>8

(* Values that each have a slot of their own are no more than the slots.    *)
LEMMA SlotsCount ==
  ASSUME NEW n \in Nat, NEW a \in {0, 1}, NEW of,
         \A i \in a .. n : \E s \in Slots : of[s] = i
  PROVE  n + 1 - a <= Capacity
<1> DEFINE slot == [i \in a .. n |-> CHOOSE s \in Slots : of[s] = i]
<1>1. \A i \in a .. n : slot[i] \in Slots /\ of[slot[i]] = i
  OBVIOUS
<1>2. slot \in [a .. n -> Slots]
  BY <1>1
<1>3. IsFiniteSet(a .. n) /\ Cardinality(a .. n) = n + 1 - a
  <2>1. a \in Int /\ n \in Int /\ (a > n => n = 0 /\ a = 1)
    OBVIOUS
  <2>2. Cardinality(a .. n) = IF a > n THEN 0 ELSE n - a + 1
    BY <2>1, FS_Interval
  <2> QED BY <2>1, <2>2, FS_Interval
<1>4. IsFiniteSet(Slots) /\ Cardinality(Slots) = Capacity
  <2>1. 0 \in Int /\ Capacity - 1 \in Int /\ ~ (0 > Capacity - 1)
    BY Sizes
  <2>2. IsFiniteSet(0 .. Capacity - 1) /\ Cardinality(0 .. Capacity - 1) = Capacity - 1 - 0 + 1
    BY <2>1, FS_Interval
  <2> QED BY <2>2, Sizes DEF Slots
<1> HIDE DEF slot
<1> SUFFICES ASSUME ~ (n + 1 - a <= Capacity) PROVE FALSE
  OBVIOUS
<1>5. Cardinality(Slots) < Cardinality(a .. n)
  BY <1>3, <1>4, Sizes
<1>6. PICK x, y \in a .. n : x # y /\ slot[x] = slot[y]
  BY <1>2, <1>3, <1>4, <1>5, FS_PigeonHole
<1> QED
  BY <1>1, <1>6

(* What is held at most before memory is allocated again.                   *)
LEMMA Budget ==
  ASSUME MachineInv, BusInv, PagesInv, DevicesInv
  PROVE  /\ MostPages(buses) \in Nat /\ Len(drives) \in 0 .. Capacity
         /\ stage = "pci" /\ bus < Len(buses) - 1 => Cardinality(held) + 3 <= MostPages(buses)
         /\ stage = "list" /\ FreeDevices # {} =>
              /\ Cardinality(held) + 3 + TablePages <= MostPages(buses)
              /\ Len(drives) + 1 <= Capacity
         /\ stage = "up" => Cardinality(held) <= MostPages(buses)
<1> DEFINE L == Len(drives)  C == Cardinality(Controllers(bus))  t == TablePages
           B == Len(buses)
<1>1. L \in Nat /\ t \in Nat \ {0} /\ C \in 0 .. bus /\ bus \in 0 .. B - 1 /\ B \in Nat \ {0}
      /\ Capacity \in Nat
  BY BusesFacts, TableSizes, Sizes DEF MachineInv, Machines, Machine, BusInv
<1>2. L <= Capacity
  <2>1. \A i \in 1 .. L : \E s \in Slots : devices[s] = i
    BY DEF DevicesInv
  <2>2. L + 1 - 1 <= Capacity
    BY <1>1, <2>1, SlotsCount
  <2> QED BY <1>1, <2>2
<1>3. FreeDevices # {} => L + 1 <= Capacity
  <2> SUFFICES ASSUME FreeDevices # {} PROVE L + 1 <= Capacity
    OBVIOUS
  <2>1. \A i \in 0 .. L : \E s \in Slots : devices[s] = i
    BY <1>1 DEF DevicesInv, FreeDevices
  <2>2. L + 1 - 0 <= Capacity
    BY <1>1, <2>1, SlotsCount
  <2> QED BY <1>1, <2>2
<1>4. MostPages(buses) = 3 * (B - 1) + 1 + Capacity * (3 + t)
  BY DEF MostPages
<1>5. KeptPages = 3 * C + L * (2 + t)
  BY DEF KeptPages
<1>6. \A l \in Nat : l <= Capacity => l * (3 + t) <= Capacity * (3 + t)
  <2> SUFFICES ASSUME NEW l \in Nat, l <= Capacity
               PROVE  l * (3 + t) <= Capacity * (3 + t)
    OBVIOUS
  <2>1. Capacity - l \in Nat
    BY <1>1
  <2> HIDE DEF t
  <2>2. /\ Capacity * (3 + t) = l * (3 + t) + (Capacity - l) * (3 + t)
        /\ (Capacity - l) * (3 + t) \in Nat /\ l * (3 + t) \in Nat
    BY <1>1, <2>1
  <2> QED BY <2>2
<1> HIDE DEF L, C, t, B
<1>7. L * (3 + t) = L * (2 + t) + L /\ (L + 1) * (3 + t) = L * (2 + t) + L + 3 + t
      /\ L * (2 + t) \in Nat /\ Capacity * (3 + t) \in Nat
  BY <1>1
<1>8. L * (2 + t) <= Capacity * (3 + t)
  <2>1. L * (3 + t) <= Capacity * (3 + t)
    BY <1>1, <1>2, <1>6
  <2> QED BY <1>1, <1>7, <2>1
<1>9. MostPages(buses) \in Nat
  BY <1>1, <1>4, <1>7
<1>10. stage = "pci" /\ bus < B - 1 => Cardinality(held) + 3 <= MostPages(buses)
  BY <1>1, <1>4, <1>5, <1>7, <1>8 DEF PagesInv
<1>11. stage = "list" /\ L + 1 <= Capacity =>
         Cardinality(held) + 3 + t <= MostPages(buses)
  <2> SUFFICES ASSUME stage = "list", L + 1 <= Capacity
               PROVE  Cardinality(held) + 3 + t <= MostPages(buses)
    OBVIOUS
  <2>1. bus < B - 1
    BY DEF BusInv, B
  <2>2. (L + 1) * (3 + t) <= Capacity * (3 + t)
    BY <1>1, <1>6
  <2>3. Cardinality(held) = 3 * C + L * (2 + t) + 4
    BY <1>5 DEF PagesInv
  <2> QED BY <1>1, <1>4, <1>7, <2>1, <2>2, <2>3
<1>12. stage = "up" => Cardinality(held) <= MostPages(buses)
  BY <1>1, <1>4, <1>5, <1>7, <1>8 DEF PagesInv
<1> QED
  BY <1>1, <1>2, <1>3, <1>9, <1>10, <1>11, <1>12 DEF L, t, B

(* The memory assumed is room for runs of each length that is allocated.    *)
LEMMA Spacious ==
  ASSUME BusInv
  PROVE  /\ (MostPages(buses) + 1) * 1 <= NPages
         /\ (MostPages(buses) + 1) * TablePages <= NPages
         /\ \A r \in Reads : (MostPages(buses) + 1) * BufferPages(r.len, r.offset) <= NPages
  BY MemoryAssumption DEF BusInv

-----------------------------------------------------------------------------
(* The invariant holds initially, and every step preserves it.              *)

(* Nothing is held before the first device is found.                        *)
LEMMA IInvInit == Init => IInv
<1> SUFFICES ASSUME Init PROVE IInv
  OBVIOUS
<1>1. Len(drives) = 0 /\ drives \in Seq(Drive)
  BY DEF Init
<1>2. MachineInv
  <2>1. data \in [0 .. NPages -> [0 .. PageBlocks - 1 -> Contents]]
    BY DEF Init, Contents
  <2>2. held \in SUBSET (1 .. NPages) /\ stage \in Stages /\ admin_sent \in 0 .. Size
    BY Sizes DEF Init, Stages
  <2>3. strayed \in {FALSE}
    BY DEF Init
  <2> QED BY <1>1, <2>1, <2>2, <2>3 DEF MachineInv, Machine, Machines
<1>3. BusInv
  <2>1. Len(buses) \in Nat \ {0}
    <3>1. buses \in Seq(STRING) /\ buses # << >>
      BY InputAssumption DEF Init
    <3> QED BY <3>1
  <2> QED BY <2>1 DEF Init, BusInv
<1>4. PagesInv
  <2>1. Controllers(bus) = {} /\ Cardinality({}) = 0
    BY FS_EmptySet DEF Init, Controllers
  <2>2. KeptPages = 0
    BY <1>1, <2>1, TableSizes DEF KeptPages
  <2> QED BY <2>1, <2>2 DEF Init, PagesInv
<1>5. DevicesInv
  BY <1>1 DEF Init, DevicesInv
<1>6. TablesInv
  BY DEF Init, TablesInv
<1>7. AnswerInv
  BY DEF Init, AnswerInv
<1> QED
  BY <1>2, <1>3, <1>4, <1>5, <1>6, <1>7 DEF IInv

(* A machine that becomes the next state.                                   *)
LEMMA BecomesFacts ==
  ASSUME NEW m \in Machines, Becomes(m)
  PROVE  MachineInv'
  BY DEF Becomes, MachineInv, Machine, Machines

(* Drives that are added, or send commands, leave what was answered right.  *)
LEMMA AnswerStays ==
  ASSUME AnswerInv, UNCHANGED answer, Len(drives) \in Nat, Len(drives)' \in Nat,
         Len(drives) <= Len(drives)',
         \A j \in 1 .. Len(drives) :
           drives'[j].bus = drives[j].bus /\ drives'[j].ns = drives[j].ns
  PROVE  AnswerInv'
<1>1. CASE answer.len = 0
  BY <1>1 DEF AnswerInv
<1>2. CASE answer.drive \in 1 .. Len(drives) /\ ReadsRight
  <2>1. answer'.drive \in 1 .. Len(drives)'
    BY <1>2
  <2>2. \A lba : Block(drives[answer.drive], lba) = Block(drives'[answer'.drive], lba)
    BY <1>2 DEF Block
  <2>3. ReadsRight'
    BY <1>2, <2>2 DEF ReadsRight
  <2> QED BY <2>1, <2>3 DEF AnswerInv
<1> QED
  BY <1>1, <1>2 DEF AnswerInv

(* Without a new drive the registry and the tables stay as they are.        *)
LEMMA RegistryStays ==
  ASSUME DevicesInv, TablesInv, AnswerInv, Len(drives) \in Nat, SameDrives(drives, drives'),
         UNCHANGED <<disks, devices, kernel_id, partitions, answer>>
  PROVE  DevicesInv' /\ TablesInv' /\ AnswerInv'
<1>1. Len(drives)' = Len(drives)
  BY DEF SameDrives
<1>2. DevicesInv'
  BY <1>1 DEF DevicesInv, FreeDevices, Slots
<1>3. TablesInv'
  BY <1>1 DEF TablesInv, FoundRight, EntryAt, disks
<1>4. AnswerInv'
  BY <1>1, AnswerStays DEF SameDrives
<1> QED
  BY <1>2, <1>3, <1>4

(* Registering the kernel takes a slot that is free.                        *)
LEMMA KdeviceStep ==
  ASSUME IInv, KdeviceRegisterFunctions
  PROVE  IInv'
<1>1. MachineInv' /\ BusInv' /\ PagesInv' /\ TablesInv'
  BY DEF IInv, KdeviceRegisterFunctions, MachineInv, Machine, BusInv, PagesInv, KeptPages,
         Controllers, TablesInv, FoundRight, EntryAt, disks
<1>2. AnswerInv'
  BY DEF IInv, KdeviceRegisterFunctions, AnswerInv, ReadsRight
<1>3. DevicesInv'
  <2>1. kernel_id' \in Slots /\ devices[kernel_id'] = 0
    BY DEF KdeviceRegisterFunctions, FirstFree, FreeDevices
  <2> QED BY <2>1 DEF IInv, KdeviceRegisterFunctions, DevicesInv
<1> QED
  BY <1>1, <1>2, <1>3 DEF IInv

(* A bus without a controller is passed over.                               *)
LEMMA EnumerateOtherStep ==
  ASSUME IInv, EnumerateOther
  PROVE  IInv'
<1>1. Len(buses) \in Nat /\ bus \in Nat /\ Len(drives) \in Nat
      /\ Cardinality(Controllers(bus + 1)) = Cardinality(Controllers(bus))
  BY BusesFacts DEF IInv, EnumerateOther, MachineInv, Machines, Machine
<1>2. MachineInv' /\ BusInv'
  BY <1>1 DEF IInv, EnumerateOther, MachineInv, Machine, BusInv, disks
<1>3. PagesInv'
  <2>1. Controllers(bus)' = Controllers(bus + 1)
    BY DEF EnumerateOther, Controllers, disks
  <2>2. KeptPages' = KeptPages
    BY <1>1, <2>1 DEF EnumerateOther, KeptPages
  <2> QED BY <2>2 DEF IInv, EnumerateOther, PagesInv
<1>4. DevicesInv' /\ TablesInv' /\ AnswerInv'
  BY <1>1, RegistryStays DEF IInv, EnumerateOther, SameDrives
<1> QED
  BY <1>2, <1>3, <1>4 DEF IInv

(* The end of enumeration.                                                  *)
LEMMA PciDoneStep ==
  ASSUME IInv, PciDone
  PROVE  IInv'
<1>1. Len(drives) \in Nat
  BY DEF IInv, MachineInv, Machines, Machine
<1>2. MachineInv' /\ BusInv' /\ PagesInv'
  BY DEF IInv, PciDone, MachineInv, Machine, Machines, Stages, BusInv, PagesInv, KeptPages,
         Controllers, disks
<1>3. DevicesInv' /\ TablesInv' /\ AnswerInv'
  BY <1>1, RegistryStays DEF IInv, PciDone, SameDrives
<1> QED
  BY <1>2, <1>3 DEF IInv

(* Admin commands change of the machine only what counts them, or hang.     *)
LEMMA AdminFacts ==
  ASSUME NEW m \in Machines, NEW n \in {1, 2}
  PROVE  LET r == AdminCommands(m, n)
         IN  /\ r \in Machines /\ r.held = m.held /\ r.drives = m.drives
             /\ r.stage \in {m.stage, "hung"}
<1> DEFINE r == AdminCommands(m, n)
<1>1. m.admin_sent \in 0 .. Size
  BY DEF Machines
<1>2. CASE m.admin_sent + n > Size
  BY <1>2 DEF AdminCommands, Machines, Stages
<1>3. CASE ~ (m.admin_sent + n > Size)
  <2>1. m.admin_sent + n \in 0 .. Size
    BY <1>1, <1>3, Sizes
  <2> QED BY <1>3, <2>1 DEF AdminCommands, Machines
<1> QED
  BY <1>2, <1>3

(* Three pages for a controller and one for the list of its namespaces.     *)
LEMMA NvmeInitializeStep ==
  ASSUME IInv, NvmeInitializeDevice
  PROVE  IInv'
<1>1. /\ MachineInv /\ BusInv /\ PagesInv /\ DevicesInv /\ TablesInv /\ AnswerInv
      /\ stage = "pci" /\ bus < Len(buses) - 1 /\ buses[bus + 1] = "nvme"
  BY DEF IInv, NvmeInitializeDevice
<1>2. Machine \in Machines /\ Len(drives) \in Nat /\ SameDrives(drives, drives)
  BY <1>1 DEF MachineInv, Machine, Machines, SameDrives
<1>3. CASE /\ stage' \in {"panic", "hung"}
           /\ UNCHANGED <<held, data, admin_sent, drives, strayed, nsids>>
  <2>1. MachineInv' /\ BusInv' /\ PagesInv'
    BY <1>1, <1>3 DEF NvmeInitializeDevice, MachineInv, Machine, Machines, Stages, BusInv,
                      PagesInv, disks
  <2>2. DevicesInv' /\ TablesInv' /\ AnswerInv'
    BY <1>1, <1>2, <1>3, RegistryStays DEF NvmeInitializeDevice
  <2> QED BY <2>1, <2>2 DEF IInv
<1>4. CASE ~ (/\ stage' \in {"panic", "hung"}
              /\ UNCHANGED <<held, data, admin_sent, drives, strayed, nsids>>)
  <2> DEFINE m == [Machine EXCEPT !.stage = "list", !.admin_sent = 0]
             seq == Palloc(m, 1)
             cq == Palloc(seq.m, 1)
             id == Palloc(cq.m, 1)
             list == Palloc(id.m, 1)
             r == AdminCommands(list.m, 2)
             M == MostPages(buses)
  <2>1. Becomes(r) /\ \E l \in NsLists : nsids' = [ids |-> l, page |-> list.page]
    BY <1>4 DEF NvmeInitializeDevice
  <2>2. m \in Machines /\ m.held = held /\ m.drives = drives /\ m.stage = "list"
    <3>1. Machine.held = held /\ Machine.drives = drives
      BY DEF Machine
    <3>2. 0 \in 0 .. Size /\ "list" \in Stages
      BY Sizes DEF Stages
    <3>3. /\ m \in Machines /\ m.held = Machine.held /\ m.drives = Machine.drives
          /\ m.stage = "list"
      BY <1>2, <3>2 DEF Machines
    <3> QED BY <3>1, <3>3
  <2>3. M \in Nat /\ Cardinality(held) + 3 <= M /\ (M + 1) * 1 <= NPages
        /\ Cardinality(held) \in Nat /\ 1 \in Nat \ {0}
    <3>1. Cardinality(held) \in Nat
      BY <2>2, HeldFinite
    <3> QED BY <1>1, <3>1, Budget, Spacious
  <2> HIDE DEF m, M
  <2>4. Granted(m, seq, 1) /\ Cardinality(seq.m.held) = Cardinality(held) + 1
    <3>1. Cardinality(m.held) <= M
      BY <2>2, <2>3
    <3>2. Granted(m, seq, 1)
      BY <2>2, <2>3, <3>1, RoomBelow, PallocFacts
    <3> QED BY <2>2, <2>3, <3>2 DEF Granted
  <2> HIDE DEF seq
  <2>5. Granted(seq.m, cq, 1) /\ Cardinality(cq.m.held) = Cardinality(held) + 2
    <3>1. seq.m \in Machines /\ Cardinality(seq.m.held) <= M
      BY <2>3, <2>4 DEF Granted
    <3>2. Granted(seq.m, cq, 1)
      BY <2>3, <3>1, RoomBelow, PallocFacts
    <3>3. Cardinality(cq.m.held) = Cardinality(seq.m.held) + 1
      BY <3>2 DEF Granted
    <3> QED BY <2>3, <2>4, <3>2, <3>3
  <2> HIDE DEF cq
  <2>6. Granted(cq.m, id, 1) /\ Cardinality(id.m.held) = Cardinality(held) + 3
    <3>1. cq.m \in Machines /\ Cardinality(cq.m.held) <= M
      BY <2>3, <2>5 DEF Granted
    <3>2. Granted(cq.m, id, 1)
      BY <2>3, <3>1, RoomBelow, PallocFacts
    <3>3. Cardinality(id.m.held) = Cardinality(cq.m.held) + 1
      BY <3>2 DEF Granted
    <3> QED BY <2>3, <2>5, <3>2, <3>3
  <2> HIDE DEF id
  <2>7. Granted(id.m, list, 1)
    <3>1. id.m \in Machines /\ Cardinality(id.m.held) <= M
      BY <2>3, <2>6 DEF Granted
    <3> QED BY <2>3, <3>1, RoomBelow, PallocFacts
  <2> HIDE DEF list
  <2>8. /\ list.m \in Machines /\ list.m.drives = drives /\ list.m.stage = "list"
        /\ Cardinality(list.m.held) = Cardinality(held) + 4
        /\ list.page \in list.m.held
    <3>1. list.m.drives = m.drives /\ list.m.stage = m.stage
      BY <2>2, <2>4, <2>5, <2>6, <2>7 DEF Granted, Machines
    <3>2. list.page \in RunAt(list.page, 1)
      BY <2>7 DEF Granted, RunAt
    <3> QED BY <2>2, <2>3, <2>4, <2>5, <2>6, <2>7, <3>1, <3>2 DEF Granted
  <2>9. /\ r \in Machines /\ r.held = list.m.held /\ r.drives = drives
        /\ r.stage \in {"list", "hung"}
    BY <2>8, AdminFacts
  <2> HIDE DEF r
  <2>10. /\ MachineInv' /\ held' = list.m.held /\ stage' \in {"list", "hung"}
         /\ drives' = drives /\ UNCHANGED <<disks, bus, devices, kernel_id, partitions, answer>>
    BY <2>1, <2>9, BecomesFacts DEF Becomes, NvmeInitializeDevice
  <2>11. BusInv'
    <3>1. nsids'.ids \in Seq(Nat) /\ nsids'.page = list.page
      BY <2>1, InputAssumption
    <3> QED BY <1>1, <2>8, <2>10, <3>1 DEF BusInv, disks
  <2>12. PagesInv'
    <3>1. KeptPages' = KeptPages
      BY <2>10 DEF KeptPages, Controllers, disks
    <3> QED BY <1>1, <2>8, <2>10, <3>1 DEF PagesInv
  <2>13. DevicesInv' /\ TablesInv' /\ AnswerInv'
    BY <1>1, <1>2, <2>10, RegistryStays
  <2> QED BY <2>10, <2>11, <2>12, <2>13 DEF IInv
<1> QED
  BY <1>3, <1>4

(* The end of a controller: the list of its namespaces is given back.       *)
LEMMA NamespacesDoneStep ==
  ASSUME IInv, NamespacesDone
  PROVE  IInv'
<1> DEFINE m == [Machine EXCEPT !.stage = "pci"]
           page == nsids.page
           r == Pfree(m, page, 1)
<1>1. /\ MachineInv /\ BusInv /\ PagesInv /\ DevicesInv /\ TablesInv /\ AnswerInv
      /\ stage = "list" /\ Becomes(r) /\ bus' = bus + 1
      /\ UNCHANGED <<disks, devices, kernel_id, partitions, answer>>
  BY DEF IInv, NamespacesDone
<1>2. Machine \in Machines /\ Machine.held = held /\ Machine.drives = drives
      /\ Len(drives) \in Nat /\ SameDrives(drives, drives) /\ drives \in Seq(Drive)
  BY <1>1 DEF MachineInv, Machine, Machines, SameDrives
<1>3. /\ m \in Machines /\ m.held = held /\ m.drives = drives /\ m.stage = "pci"
  <2>1. "pci" \in Stages
    BY DEF Stages
  <2> QED BY <1>2, <2>1 DEF Machines
<1> HIDE DEF m
<1>4. page \in held /\ page \in 1 .. NPages /\ bus < Len(buses) - 1 /\ buses[bus + 1] = "nvme"
  BY <1>1, <1>3 DEF BusInv, Machines
<1>5. r = [m EXCEPT !.held = @ \ {page}]
  <2>1. RunAt(page, 1) = {page}
    BY <1>4 DEF RunAt
  <2> QED BY <2>1 DEF Pfree
<1>6. r \in Machines /\ r.held = held \ {page} /\ r.drives = drives /\ r.stage = "pci"
  <2> HIDE DEF r, page
  <2> QED BY <1>3, <1>5 DEF Machines
<1>7. Cardinality(held \ {page}) = Cardinality(held) - 1
  <2>1. IsFiniteSet(held)
    BY <1>3, HeldFinite
  <2> HIDE DEF page
  <2> QED BY <1>4, <2>1, FS_RemoveElement
<1> HIDE DEF r, page
<1>8. MachineInv' /\ held' = held \ {page} /\ stage' = "pci" /\ drives' = drives
  BY <1>1, <1>6, BecomesFacts DEF Becomes
<1>9. BusInv'
  <2>1. bus + 1 \in 0 .. Len(buses) - 1
    BY <1>1, <1>4, BusesFacts
  <2> QED BY <1>1, <1>8, <2>1 DEF BusInv, disks
<1>10. PagesInv'
  <2>1. /\ Cardinality(Controllers(bus + 1)) = Cardinality(Controllers(bus)) + 1
        /\ Cardinality(Controllers(bus)) \in Nat
    BY <1>1, <1>4, BusesFacts
  <2>2. Controllers(bus)' = Controllers(bus + 1)
    BY <1>1 DEF Controllers, disks
  <2>3. Len(drives) * (2 + TablePages) \in Nat
    BY <1>2, TableSizes
  <2>4. KeptPages' = KeptPages + 3
    BY <1>8, <2>1, <2>2, <2>3 DEF KeptPages
  <2>5. Cardinality(held) = KeptPages + 4 /\ KeptPages \in Nat
    BY <1>1, <2>1, <2>3 DEF PagesInv, KeptPages
  <2> QED BY <1>7, <1>8, <2>4, <2>5 DEF PagesInv
<1>11. DevicesInv' /\ TablesInv' /\ AnswerInv'
  BY <1>1, <1>2, <1>8, RegistryStays
<1> QED
  BY <1>8, <1>9, <1>10, <1>11 DEF IInv

(* A read, and its answer.                                                  *)
LEMMA ReadStep ==
  ASSUME IInv, NEW i \in 1 .. Capacity, NEW q \in Reads, Read(i, q)
  PROVE  IInv'
<1> DEFINE rd == DriveRead(Machine, i, q.len, q.offset)
<1>1. /\ MachineInv /\ BusInv /\ PagesInv /\ DevicesInv /\ TablesInv /\ AnswerInv
      /\ stage = "up" /\ i \in DOMAIN drives /\ Becomes(rd.m)
      /\ answer' = IF Running(rd.m)
                     THEN [len |-> q.len, offset |-> q.offset, drive |-> i, bytes |-> rd.bytes]
                     ELSE answer
      /\ UNCHANGED <<disks, bus, nsids, devices, kernel_id, partitions>>
  BY DEF IInv, Read
<1>2. /\ Machine \in Machines /\ Machine.held = held /\ Machine.drives = drives
      /\ Machine.stage = "up" /\ Len(drives) \in Nat /\ drives \in Seq(Drive)
  BY <1>1 DEF MachineInv, Machine, Machines
<1>3. q.len \in Nat \ {0} /\ q.offset \in Nat /\ i \in 1 .. Len(Machine.drives)
  BY <1>1, <1>2, InputAssumption
<1>4. Room(Machine, BufferPages(q.len, q.offset))
  <2>1. BufferPages(q.len, q.offset) \in Nat \ {0}
    <3>1. BlockCount(q.len, q.offset) \in Nat \ {0}
      BY <1>3, BlockCountIs
    <3> DEFINE c == BlockCount(q.len, q.offset)
    <3> HIDE DEF c
    <3>2. BufferPages(q.len, q.offset) = (c - 1) \div PageBlocks + 1
          /\ (c - 1) \div PageBlocks \in Nat
      BY <3>1, PagesOfBlocks DEF BufferPages, c
    <3> QED BY <3>2
  <2> DEFINE n == BufferPages(q.len, q.offset)
  <2>2. MostPages(buses) \in Nat /\ Cardinality(Machine.held) <= MostPages(buses)
        /\ (MostPages(buses) + 1) * n <= NPages
    BY <1>1, <1>2, Budget, Spacious
  <2> HIDE DEF n
  <2> QED BY <1>2, <2>1, <2>2, RoomBelow DEF n
<1>5. ReadDone(Machine, rd, i, q.len, q.offset)
  BY <1>2, <1>3, <1>4, DriveReadFacts
<1> HIDE DEF rd
<1>6. /\ rd.m \in Machines /\ SameDrives(drives, rd.m.drives) /\ rd.m.stage \in {"up", "hung"}
      /\ Running(rd.m) => rd.m.held = held
  BY <1>2, <1>5 DEF ReadDone
<1>7. /\ MachineInv' /\ held' = rd.m.held /\ stage' = rd.m.stage /\ drives' = rd.m.drives
  BY <1>1, <1>6, BecomesFacts DEF Becomes
<1>8. Len(drives)' = Len(drives) /\ Len(drives') = Len(drives)
      /\ \A j \in 1 .. Len(drives) :
           drives'[j].bus = drives[j].bus /\ drives'[j].ns = drives[j].ns
  BY <1>6, <1>7 DEF SameDrives
<1>9. BusInv'
  BY <1>1, <1>6, <1>7 DEF BusInv, disks
<1>10. PagesInv'
  <2>1. KeptPages' = KeptPages
    BY <1>1, <1>8 DEF KeptPages, Controllers, disks
  <2>2. stage' = "up" => held' = held
    BY <1>6, <1>7 DEF Running
  <2> QED BY <1>1, <1>6, <1>7, <2>1, <2>2 DEF PagesInv
<1>11. DevicesInv'
  BY <1>1, <1>8 DEF DevicesInv, Slots
<1>12. TablesInv'
  BY <1>1, <1>8 DEF TablesInv, FoundRight, EntryAt, disks
<1>13. AnswerInv'
  <2>1. CASE Running(rd.m)
    <3>1. /\ answer'.len = q.len /\ answer'.offset = q.offset /\ answer'.drive = i
          /\ answer'.bytes = rd.bytes
      BY <1>1, <2>1
    <3>2. \A lba : Block(drives'[i], lba) = Block(drives[i], lba)
      BY <1>2, <1>3, <1>8 DEF Block
    <3>3. \A k \in 0 .. q.len - 1 :
            Reliable(q.offset \div BlockBytes,
                     (q.offset + k) \div BlockBytes - q.offset \div BlockBytes,
                     BlockCount(q.len, q.offset))
              => rd.bytes[k] = <<Block(drives[i], (q.offset + k) \div BlockBytes),
                                 (q.offset + k) % BlockBytes>>
      BY <1>2, <1>5, <2>1 DEF ReadDone
    <3>4. ReadsRight'
      BY <3>1, <3>2, <3>3 DEF ReadsRight
    <3>5. answer'.drive \in 1 .. Len(drives)'
      BY <1>2, <1>3, <1>8, <3>1
    <3> QED BY <3>4, <3>5 DEF AnswerInv
  <2>2. CASE ~ Running(rd.m)
    <3>1. UNCHANGED answer /\ Len(drives)' \in Nat /\ Len(drives) <= Len(drives)'
      BY <1>1, <1>2, <1>8, <2>2
    <3> QED BY <1>1, <1>2, <1>8, <3>1, AnswerStays
  <2> QED BY <2>1, <2>2
<1> QED
  BY <1>7, <1>9, <1>10, <1>11, <1>12, <1>13 DEF IInv

(* The first free slot is one slot, if there is any.                        *)
LEMMA FirstFreeIs ==
  ASSUME NEW F \in SUBSET Slots
  PROVE  \/ F = {} /\ FirstFree(F) = {}
         \/ \E s \in F : FirstFree(F) = {s}
<1>1. CASE F = {}
  BY <1>1 DEF FirstFree
<1>2. CASE F # {}
  <2>1. F \in SUBSET Nat
    BY Sizes DEF Slots
  <2>2. PICK s \in F : \A r \in F : s <= r
    BY <1>2, <2>1, LeastElement
  <2>3. ASSUME NEW x \in F, \A r \in F : x <= r PROVE x = s
    <3>1. x \in Nat /\ s \in Nat /\ x <= s /\ s <= x
      BY <2>1, <2>2, <2>3
    <3> QED BY <3>1
  <2>4. FirstFree(F) = {s}
    BY <2>2, <2>3 DEF FirstFree
  <2> QED BY <2>4
<1> QED
  BY <1>1, <1>2

(* A new drive has a slot of its own.                                       *)
LEMMA DeviceRegistered ==
  ASSUME DevicesInv, FreeDevices # {}, Len(drives) \in Nat, Len(drives)' = Len(drives) + 1,
         devices' = DeviceRegister(Len(drives) + 1), UNCHANGED kernel_id
  PROVE  DevicesInv'
<1> DEFINE n == Len(drives) + 1
<1>1. PICK s \in FreeDevices : FirstFree(FreeDevices) = {s}
  BY FirstFreeIs DEF FreeDevices
<1>2. s \in Slots /\ devices[s] = 0 /\ s # kernel_id
  BY DEF FreeDevices
<1>3. devices' = [r \in Slots |-> IF r = s THEN n ELSE devices[r]]
  BY <1>1 DEF DeviceRegister
<1>4. devices' \in [Slots -> 0 .. n]
  BY <1>3 DEF DevicesInv
<1>5. kernel_id' # -1 => devices'[kernel_id'] = 0
  BY <1>2, <1>3 DEF DevicesInv
<1>6. ASSUME NEW i \in 1 .. n
      PROVE  \E x \in Slots : \A r \in Slots : devices'[r] = i <=> r = x
  <2>1. CASE i = n
    <3>1. \A r \in Slots : devices[r] # n
      BY DEF DevicesInv
    <3>2. \A r \in Slots : devices'[r] = i <=> r = s
      BY <1>3, <2>1, <3>1
    <3> QED BY <1>2, <3>2
  <2>2. CASE i # n
    <3>1. i \in 1 .. Len(drives)
      BY <2>2
    <3>2. PICK x \in Slots : \A r \in Slots : devices[r] = i <=> r = x
      BY <3>1 DEF DevicesInv
    <3>3. x # s
      BY <1>2, <3>1, <3>2
    <3>4. \A r \in Slots : devices'[r] = i <=> r = x
      BY <1>2, <1>3, <2>2, <3>2, <3>3
    <3> QED BY <3>4
  <2> QED BY <2>1, <2>2
<1> HIDE DEF n
<1>7. Len(drives)' = n
  BY DEF n
<1> QED
  BY <1>4, <1>5, <1>6, <1>7 DEF DevicesInv, Slots

(* Its partition table has one too, or is forgotten.                        *)
LEMMA PartitionRegistered ==
  ASSUME TablesInv, Len(drives) \in Nat, Len(drives)' = Len(drives) + 1, UNCHANGED gpt,
         NEW found, FoundRight(found),
         partitions' = PartitionRegister(Len(drives) + 1, found)
  PROVE  TablesInv'
<1> DEFINE n == Len(drives) + 1
           new == [drive |-> n, found |-> found]
           free == {s \in Slots : partitions[s] = Free}
<1>1. PICK first \in SUBSET free :
        /\ first = FirstFree(free) /\ \A s, r \in first : s = r
  <2>1. free \in SUBSET Slots
    OBVIOUS
  <2> HIDE DEF free
  <2> QED BY <2>1, FirstFreeIs
<1>2. \A s \in Slots : partitions'[s] = IF s \in first THEN new ELSE partitions[s]
  BY <1>1 DEF PartitionRegister
<1>3. new.drive = n /\ new.found = found /\ n # 0 /\ Free.drive = 0
  BY DEF Free
<1>4. \A s \in Slots : partitions[s].drive # n
  BY <1>3 DEF TablesInv
<1> HIDE DEF new, free
<1>5. ASSUME NEW s \in Slots, partitions'[s] # Free
      PROVE  partitions'[s].drive \in 1 .. Len(drives)' /\ FoundRight(partitions'[s].found)
  <2>1. CASE s \in first
    BY <1>2, <1>3, <2>1
  <2>2. CASE s \notin first
    BY <1>2, <1>5, <2>2 DEF TablesInv
  <2> QED BY <2>1, <2>2
<1>6. ASSUME NEW s \in Slots, NEW r \in Slots, partitions'[s].drive = partitions'[r].drive,
             partitions'[s] # Free
      PROVE  s = r
  <2>1. CASE s \in first /\ r \in first
    BY <1>1, <2>1
  <2>2. CASE s \in first /\ r \notin first
    BY <1>2, <1>3, <1>4, <1>6, <2>2
  <2>3. CASE s \notin first /\ r \in first
    BY <1>2, <1>3, <1>4, <1>6, <2>3
  <2>4. CASE s \notin first /\ r \notin first
    BY <1>2, <1>6, <2>4 DEF TablesInv
  <2> QED BY <2>1, <2>2, <2>3, <2>4
<1>7. \A f : FoundRight(f)' <=> FoundRight(f)
  BY DEF FoundRight, EntryAt
<1> QED
  BY <1>5, <1>6, <1>7 DEF TablesInv, FoundRight, EntryAt

(* A namespace: its drive is registered, its queues and its identify page   *)
(* allocated, and its partition table loaded.                               *)
LEMMA NamespaceIdentifyStep ==
  ASSUME IInv, NamespaceIdentify
  PROVE  IInv'
<1>1. /\ MachineInv /\ BusInv /\ PagesInv /\ DevicesInv /\ TablesInv /\ AnswerInv
      /\ stage = "list" /\ nsids.ids # << >> /\ nsids' = [nsids EXCEPT !.ids = Tail(@)]
      /\ UNCHANGED <<disks, bus, kernel_id, answer>>
  BY DEF IInv, NamespaceIdentify
<1>2. /\ Machine \in Machines /\ Machine.held = held /\ Machine.drives = drives
      /\ Machine.stage = "list" /\ Len(drives) \in Nat /\ drives \in Seq(Drive)
      /\ SameDrives(drives, drives) /\ Cardinality(held) \in Nat
  <2>1. Machine \in Machines /\ Machine.held = held
    BY <1>1 DEF MachineInv, Machine
  <2>2. Cardinality(held) \in Nat
    BY <2>1, HeldFinite
  <2> QED BY <1>1, <2>1, <2>2 DEF Machine, Machines, SameDrives
<1>3. CASE FreeDevices = {}
  <2>1. /\ stage' = "panic"
        /\ UNCHANGED <<held, data, admin_sent, drives, strayed, devices, partitions>>
    BY <1>3 DEF NamespaceIdentify
  <2>2. MachineInv' /\ BusInv' /\ PagesInv'
    BY <1>1, <2>1 DEF MachineInv, Machine, Machines, Stages, BusInv, PagesInv, disks
  <2>3. DevicesInv' /\ TablesInv' /\ AnswerInv'
    BY <1>1, <1>2, <2>1, RegistryStays
  <2> QED BY <2>2, <2>3 DEF IInv
<1>4. CASE FreeDevices # {}
  <2> DEFINE i == Len(drives) + 1
             d == [bus |-> bus, ns |-> Head(nsids.ids), sent |-> 0,
                   first |-> \A j \in DOMAIN drives : drives[j].bus # bus]
             ds == Append(drives, d)
             m == [Machine EXCEPT !.drives = Append(@, d)]
             seq == Palloc(m, 1)
             cq == Palloc(seq.m, 1)
             adm == AdminCommands(cq.m, 2)
             id == Palloc(adm, 1)
             ready == AdminCommands(id.m, 1)
             M == MostPages(buses)
  <2>1. PICK load \in IF Running(ready) THEN PartitionLoadDrive(ready, i)
                      ELSE {[m |-> ready, found |-> {}]} :
          /\ Becomes(load.m)
          /\ partitions' = IF Running(load.m) THEN PartitionRegister(i, load.found)
                           ELSE partitions
    BY <1>4 DEF NamespaceIdentify
  <2>2. devices' = DeviceRegister(i)
    BY <1>4 DEF NamespaceIdentify
  <2>3. m \in Machines /\ m.held = held /\ m.drives = ds /\ m.stage = "list"
    <3>1. d \in Drive
      <4>1. bus \in Nat /\ Head(nsids.ids) \in Nat /\ 0 \in 0 .. Size
        <5>1. nsids.ids \in Seq(Nat) /\ nsids.ids # << >>
          BY <1>1 DEF BusInv
        <5>2. Head(nsids.ids) \in Nat
          BY <5>1
        <5> QED BY <1>1, <5>2, BusesFacts, Sizes
      <4> QED BY <4>1 DEF Drive
    <3> HIDE DEF d
    <3>2. ds \in Seq(Drive)
      BY <1>2, <3>1
    <3>3. m = [Machine EXCEPT !.drives = ds]
      BY <1>2
    <3> HIDE DEF m, ds
    <3> QED BY <1>2, <3>2, <3>3 DEF Machines
  <2>4. Len(ds) = i /\ i \in Nat /\ i \in 1 .. Len(ds)
        /\ \A j \in 1 .. Len(drives) : ds[j] = drives[j]
    BY <1>2
  <2>5. /\ M \in Nat /\ Cardinality(held) + 3 + TablePages <= M
        /\ (M + 1) * 1 <= NPages /\ (M + 1) * TablePages <= NPages
    BY <1>1, <1>4, Budget, Spacious
  <2> HIDE DEF m, M, d, ds, i
  <2>6. Granted(m, seq, 1) /\ Cardinality(seq.m.held) = Cardinality(held) + 1
    <3>1. Cardinality(m.held) = Cardinality(held) /\ Cardinality(held) <= M
      BY <1>2, <2>3, <2>5, TableSizes
    <3>2. Granted(m, seq, 1)
      BY <2>3, <2>5, <3>1, RoomBelow, PallocFacts
    <3> QED BY <3>1, <3>2 DEF Granted
  <2> HIDE DEF seq
  <2>7. Granted(seq.m, cq, 1) /\ Cardinality(cq.m.held) = Cardinality(held) + 2
    <3>1. seq.m \in Machines /\ Cardinality(seq.m.held) <= M
      BY <1>2, <2>5, <2>6, TableSizes DEF Granted
    <3>2. Granted(seq.m, cq, 1)
      BY <2>5, <3>1, RoomBelow, PallocFacts
    <3>3. Cardinality(cq.m.held) = Cardinality(seq.m.held) + 1
      BY <3>2 DEF Granted
    <3> QED BY <1>2, <2>6, <3>2, <3>3
  <2> HIDE DEF cq
  <2>8. /\ adm \in Machines /\ adm.held = cq.m.held /\ adm.drives = cq.m.drives
        /\ adm.stage \in {cq.m.stage, "hung"}
    <3>1. cq.m \in Machines
      BY <2>7 DEF Granted
    <3> QED BY <3>1, AdminFacts
  <2> HIDE DEF adm
  <2>9. Granted(adm, id, 1) /\ Cardinality(id.m.held) = Cardinality(held) + 3
    <3>1. Cardinality(adm.held) <= M
      BY <1>2, <2>5, <2>7, <2>8, TableSizes
    <3>2. Granted(adm, id, 1)
      <4>1. Room(adm, 1) /\ 1 \in Nat \ {0}
        BY <2>5, <2>8, <3>1, RoomBelow
      <4> QED BY <2>8, <4>1, PallocFacts DEF id
    <3>3. Cardinality(id.m.held) = Cardinality(adm.held) + 1
      BY <3>2 DEF Granted
    <3> QED BY <1>2, <2>7, <2>8, <3>2, <3>3
  <2> HIDE DEF id
  <2>10. /\ ready \in Machines /\ ready.held = id.m.held /\ ready.drives = id.m.drives
         /\ ready.stage \in {id.m.stage, "hung"}
    <3>1. id.m \in Machines
      BY <2>9 DEF Granted
    <3> QED BY <3>1, AdminFacts
  <2> HIDE DEF ready
  <2>11. /\ ready.drives = ds /\ ready.stage \in {"list", "hung"}
         /\ held \subseteq ready.held /\ Cardinality(ready.held) = Cardinality(held) + 3
    <3>1. /\ seq.m.drives = m.drives /\ seq.m.stage = m.stage /\ m.held \subseteq seq.m.held
      BY <2>3, <2>6 DEF Granted, Machines
    <3>2. /\ cq.m.drives = seq.m.drives /\ cq.m.stage = seq.m.stage
          /\ seq.m.held \subseteq cq.m.held
      BY <2>6, <2>7 DEF Granted, Machines
    <3>3. /\ id.m.drives = adm.drives /\ id.m.stage = adm.stage
          /\ adm.held \subseteq id.m.held
      BY <2>8, <2>9 DEF Granted, Machines
    <3> QED BY <2>3, <2>8, <2>9, <2>10, <3>1, <3>2, <3>3
  <2> DEFINE ld == load.m
  <2>12. Becomes(ld) /\ partitions' = IF Running(ld) THEN PartitionRegister(i, load.found)
                                      ELSE partitions
    BY <2>1
  <2>13. /\ ld \in Machines /\ SameDrives(ds, ld.drives)
         /\ ld.stage \in {"list", "hung", "panic", "astray"}
         /\ Running(ld) =>
              /\ held \subseteq ld.held
              /\ Cardinality(ld.held) = Cardinality(held) + 2 + TablePages
              /\ FoundRight(load.found)
    <3>1. CASE Running(ready)
      <4>1. Room(ready, 1) /\ Room(ready, TablePages)
            /\ Cardinality(ready.held) + TablePages <= M
        <5>1. Cardinality(ready.held) + TablePages <= M /\ Cardinality(ready.held) <= M
          BY <1>2, <2>5, <2>11, TableSizes
        <5>2. ready \in Machines /\ M \in Nat /\ 1 \in Nat \ {0} /\ TablePages \in Nat \ {0}
          BY <2>5, <2>10, TableSizes
        <5>3. Room(ready, 1)
          BY ONLY <2>5, <5>1, <5>2, RoomBelow
        <5>4. Room(ready, TablePages)
          BY ONLY <2>5, <5>1, <5>2, RoomBelow
        <5> QED BY ONLY <5>1, <5>3, <5>4
      <4>2. i \in 1 .. Len(ready.drives)
        BY <2>4, <2>11
      <4>3. load \in PartitionLoadDrive(ready, i) /\ gpt \in Gpts
        BY <1>1, <2>1, <3>1 DEF BusInv
      <4>5. Loaded(ready, load)
        BY <2>5, <2>10, <4>1, <4>2, <4>3, PartitionLoadFacts
      <4>6. Running(ld) => Cardinality(ld.held) = Cardinality(held) + 2 + TablePages
        BY <1>2, <2>11, <4>5, TableSizes DEF Loaded
      <4> QED BY <2>11, <4>5, <4>6 DEF Loaded, FoundRight
    <3>2. CASE ~ Running(ready)
      <4>1. ld = ready
        BY <2>1, <3>2
      <4> HIDE DEF ld
      <4> QED BY <2>10, <2>11, <3>2, <4>1 DEF SameDrives
    <3> QED BY <3>1, <3>2
  <2> HIDE DEF ld
  <2>14. /\ MachineInv' /\ held' = ld.held /\ stage' = ld.stage /\ drives' = ld.drives
    BY <2>12, <2>13, BecomesFacts DEF Becomes
  <2>15. /\ Len(drives)' = Len(drives) + 1 /\ Len(drives') = Len(drives) + 1
         /\ \A j \in 1 .. Len(drives) :
              drives'[j].bus = drives[j].bus /\ drives'[j].ns = drives[j].ns
    <3>1. Len(drives') = Len(ds) /\ Len(drives)' = Len(drives')
      BY <2>13, <2>14 DEF SameDrives
    <3>2. \A j \in 1 .. Len(drives) : j \in 1 .. Len(ds)
      BY <1>2, <2>4 DEF i
    <3> QED BY <2>4, <2>13, <2>14, <3>1, <3>2 DEF SameDrives, i
  <2>16. BusInv'
    <3>1. stage' = "list" => held \subseteq held'
      BY <2>13, <2>14 DEF Running
    <3>2. nsids'.ids \in Seq(Nat) /\ nsids'.page = nsids.page
      <4>1. nsids.ids \in Seq(Nat)
        BY <1>1 DEF BusInv
      <4> QED BY <1>1, <4>1
    <3> QED BY <1>1, <2>13, <2>14, <3>1, <3>2 DEF BusInv, disks
  <2>17. PagesInv'
    <3>1. Controllers(bus)' = Controllers(bus)
      BY <1>1 DEF Controllers, disks
    <3>2. Cardinality(Controllers(bus)) \in Nat
      BY <1>1, BusesFacts
    <3>3. (Len(drives) + 1) * (2 + TablePages) = Len(drives) * (2 + TablePages) + 2 + TablePages
          /\ Len(drives) * (2 + TablePages) \in Nat
      BY <1>2, TableSizes
    <3>4. KeptPages' = KeptPages + 2 + TablePages /\ KeptPages \in Nat
      <4>1. KeptPages' = 3 * Cardinality(Controllers(bus)) + (Len(drives) + 1) * (2 + TablePages)
        BY <2>15, <3>1 DEF KeptPages
      <4> DEFINE a == (Len(drives) + 1) * (2 + TablePages)
                 b == Len(drives) * (2 + TablePages)
      <4>2. KeptPages' = 3 * Cardinality(Controllers(bus)) + a
            /\ KeptPages = 3 * Cardinality(Controllers(bus)) + b
            /\ a = b + 2 + TablePages /\ b \in Nat
        BY <3>3, <4>1 DEF KeptPages
      <4> HIDE DEF a, b
      <4> QED BY <3>2, <4>2, TableSizes
    <3>5. Cardinality(held) = KeptPages + 4
      BY <1>1 DEF PagesInv
    <3>6. stage' = "list" => Cardinality(held') = Cardinality(held) + 2 + TablePages
      BY <2>13, <2>14 DEF Running
    <3> QED BY <2>13, <2>14, <3>4, <3>5, <3>6, TableSizes DEF PagesInv
  <2>18. DevicesInv'
    BY <1>1, <1>2, <1>4, <2>2, <2>15, DeviceRegistered DEF i
  <2>19. TablesInv'
    <3>1. CASE Running(ld)
      <4>1. FoundRight(load.found) /\ partitions' = PartitionRegister(Len(drives) + 1, load.found)
        BY <2>12, <2>13, <3>1 DEF i
      <4> QED BY <1>1, <1>2, <2>15, <4>1, PartitionRegistered DEF disks
    <3>2. CASE ~ Running(ld)
      <4>1. UNCHANGED <<partitions, gpt>>
        BY <1>1, <2>12, <3>2 DEF disks
      <4>2. \A n \in 1 .. Len(drives) : n \in 1 .. Len(drives)'
        BY <1>2, <2>15
      <4> QED BY <1>1, <4>1, <4>2 DEF TablesInv, FoundRight, EntryAt
    <3> QED BY <3>1, <3>2
  <2>20. AnswerInv'
    <3>1. Len(drives)' \in Nat /\ Len(drives) <= Len(drives)' /\ UNCHANGED answer
      BY <1>1, <1>2, <2>15
    <3> QED BY <1>1, <1>2, <2>15, <3>1, AnswerStays
  <2> QED BY <2>14, <2>16, <2>17, <2>18, <2>19, <2>20 DEF IInv
<1> QED
  BY <1>3, <1>4

(* Every step preserves the invariant.                                      *)
LEMMA IInvNext == IInv /\ [Next]_vars => IInv'
<1> SUFFICES ASSUME IInv, [Next]_vars PROVE IInv'
  OBVIOUS
<1>1. CASE UNCHANGED vars
  <2>1. MachineInv' /\ BusInv' /\ PagesInv' /\ DevicesInv'
    BY <1>1 DEF IInv, vars, disks, MachineInv, Machine, BusInv, PagesInv, KeptPages,
                Controllers, DevicesInv
  <2>2. TablesInv' /\ AnswerInv'
    BY <1>1 DEF IInv, vars, disks, TablesInv, FoundRight, EntryAt, AnswerInv, ReadsRight
  <2> QED BY <2>1, <2>2 DEF IInv
<1>2. CASE Next
  BY <1>2, KdeviceStep, EnumerateOtherStep, NvmeInitializeStep, NamespaceIdentifyStep,
     NamespacesDoneStep, PciDoneStep, ReadStep DEF Next
<1> QED
  BY <1>1, <1>2

(* The invariant holds in every state.                                      *)
THEOREM SpecIInv == Spec => []IInv
  BY IInvInit, IInvNext, PTL DEF Spec

-----------------------------------------------------------------------------
(* The properties.                                                          *)

(* What palloc gave is written by the controller while it is held, and      *)
(* given back: after boot, and after any reads, the pages held are those of *)
(* the queues, the identify commands and the partition tables, no ring is   *)
(* used beyond its first pass, and no released page is written.             *)
THEOREM MemoryRightHolds == Spec => []MemoryRight
<1>1. IInv => MemoryRight
  <2> SUFFICES ASSUME IInv PROVE MemoryRight
    OBVIOUS
  <2>1. /\ Machine \in Machines /\ Machine.held = held /\ Machine.stage = stage
        /\ Machine.admin_sent = admin_sent /\ Machine.drives = drives
        /\ Machine.strayed = strayed
    BY DEF IInv, MachineInv, Machine
  <2>2. TypeOK
    <3>1. \A i \in DOMAIN drives : drives[i].sent \in 0 .. Size
      <4>1. drives \in Seq(Drive)
        BY <2>1 DEF Machines
      <4>2. \A i \in DOMAIN drives : drives[i] \in Drive
        BY <4>1
      <4> QED BY <4>2 DEF Drive
    <3>2. held \subseteq 1 .. NPages /\ stage \in Stages /\ admin_sent \in 0 .. Size
      BY <2>1 DEF Machines
    <3> QED BY <3>1, <3>2 DEF IInv, BusInv, DevicesInv, TypeOK, Stages
  <2>3. NoStrayWrite
    BY <2>1 DEF Machines, NoStrayWrite
  <2>4. PagesAccounted
    <3>1. 3 + TablePages - ReleasedPages = 2 + TablePages
      BY TableSizes
    <3>2. KeptPages = 3 * Cardinality({b \in 0 .. bus - 1 : buses[b + 1] = "nvme"})
                      + Len(drives) * (3 + TablePages - Ceil(BlockBytes, PageBytes))
      BY <3>1 DEF KeptPages, Controllers, ReleasedPages
    <3> QED BY <3>2 DEF IInv, PagesInv, PagesAccounted
  <2> QED BY <2>2, <2>3, <2>4 DEF MemoryRight
<1> QED
  BY <1>1, SpecIInv, PTL

(* drive_read returns the bytes of the disk, from any offset and of any     *)
(* length, where the driver can be relied on.                               *)
THEOREM ReadsRightHolds == Spec => []ReadsRight
<1>1. IInv => ReadsRight
  <2>1. answer.len = 0 => ReadsRight
    BY DEF ReadsRight
  <2> QED BY <2>1 DEF IInv, AnswerInv
<1> QED
  BY <1>1, SpecIInv, PTL

(* Drives and the kernel have each a slot of their own in the registry of   *)
(* devices, and no drive has two partition tables.                          *)
THEOREM SlotsUniqueHolds == Spec => []SlotsUnique
<1>1. IInv => SlotsUnique
  <2> SUFFICES ASSUME IInv PROVE SlotsUnique
    OBVIOUS
  <2>1. DOMAIN drives = 1 .. Len(drives)
    BY DEF IInv, MachineInv, Machines, Machine
  <2>2. ASSUME NEW i \in DOMAIN drives
        PROVE  Cardinality({s \in Slots : devices[s] = i}) = 1
    <3>1. PICK s \in Slots : \A r \in Slots : devices[r] = i <=> r = s
      BY <2>1 DEF IInv, DevicesInv
    <3>2. {r \in Slots : devices[r] = i} = {s}
      BY <3>1
    <3> QED BY <3>2, FS_Singleton
  <2> QED BY <2>2 DEF IInv, DevicesInv, TablesInv, SlotsUnique
<1> QED
  BY <1>1, SpecIInv, PTL

(* The partitions found are those of the table, as far as its blocks can be *)
(* relied on.                                                               *)
THEOREM PartitionsRightHolds == Spec => []PartitionsRight
<1>1. IInv => PartitionsRight
  BY DEF IInv, TablesInv, FoundRight, PartitionsRight
<1> QED
  BY <1>1, SpecIInv, PTL

-----------------------------------------------------------------------------
(* The queues below the drives, for rings of any size of at least two       *)
(* entries and any number of commands.                                      *)

(* A position stays in the ring and never stays where it was. *)
LEMMA WrapMoves ==
  ASSUME NEW i \in RingSlots
  PROVE  Wrap(i) \in RingSlots /\ Wrap(i) # i
BY RingAssumption DEF RingSlots, Wrap

(* The positions of both sides stay within rings of any size.               *)
THEOREM QueueTypeInvariant == QueueSpec => []QueueTypeOK
<1>1. QueueInit => QueueTypeOK
  <2> SUFFICES ASSUME QueueInit PROVE QueueTypeOK
    OBVIOUS
  <2>1. 0 \in RingSlots
    BY RingAssumption DEF RingSlots
  <2>2. /\ sq \in [RingSlots -> Nat] /\ cq_phase \in [RingSlots -> {0, 1}]
        /\ cq_cmd \in [RingSlots -> Nat]
    BY DEF QueueInit
  <2>3. clean \in BOOLEAN /\ waiting \in BOOLEAN
    BY Zenon DEF QueueInit
  <2> QED
    BY <2>1, <2>2, <2>3 DEF QueueInit, QueueTypeOK
<1>2. QueueTypeOK /\ [QueueNext]_queuevars => QueueTypeOK'
  <2> SUFFICES ASSUME QueueTypeOK, [QueueNext]_queuevars PROVE QueueTypeOK'
    OBVIOUS
  <2>1. CASE Submit
    BY <2>1, WrapMoves DEF Submit, QueueTypeOK, ring, device
  <2>2. CASE Execute
    BY <2>2, WrapMoves DEF Execute, QueueTypeOK, ring, driver
  <2>3. CASE Post
    BY <2>3, WrapMoves DEF Post, QueueTypeOK, driver
  <2>4. CASE Take
    BY <2>4, WrapMoves DEF Take, Cleared, HeadBell, QueueTypeOK, device
  <2>5. CASE UNCHANGED queuevars
    BY <2>5 DEF queuevars, QueueTypeOK, ring, driver, device
  <2> QED
    BY <2>1, <2>2, <2>3, <2>4, <2>5 DEF QueueNext
<1> QED
  BY <1>1, <1>2, PTL DEF QueueSpec

-----------------------------------------------------------------------------
(* Each action moves the command from one place to the next. *)
LEMMA SubmitRings == QueueTypeOK /\ RingsAgree /\ Submit => RingsAgree'
<1> SUFFICES ASSUME QueueTypeOK, RingsAgree, Submit, clean PROVE RingsAgree'
  BY DEF Submit, RingsAgree
<1>1. Idle /\ OneCommand /\ FirstPass /\ ~ InCompletionQueue
  BY DEF Submit, RingsAgree, OneCommand, Idle, InSubmissionQueue, InController, InCompletionQueue
<1>2. InSubmissionQueue' /\ ~ InCompletionQueue'
  BY <1>1 DEF Submit, Idle, InSubmissionQueue, InCompletionQueue, QueueTypeOK, ring, device
<1>3. \A i \in RingSlots : cq_phase[i] # 1
  BY <1>1 DEF OneCommand
<1>4. OneCommand'
  BY <1>1, <1>2, <1>3 DEF Submit, OneCommand, ring
<1>5. FirstPass'
  BY <1>1, <1>2 DEF Submit, FirstPass, ring, device
<1> QED
  BY <1>4, <1>5 DEF RingsAgree

LEMMA ExecuteRings == QueueTypeOK /\ RingsAgree /\ Execute => RingsAgree'
<1> SUFFICES ASSUME QueueTypeOK, RingsAgree, Execute, clean PROVE RingsAgree'
  BY DEF Execute, RingsAgree
<1>1. InSubmissionQueue /\ OneCommand /\ FirstPass /\ ~ InCompletionQueue
  BY DEF Execute, RingsAgree, OneCommand, Idle, InSubmissionQueue, InController, InCompletionQueue
<1>2. InController' /\ ~ InCompletionQueue'
  BY <1>1 DEF Execute, InSubmissionQueue, InController, InCompletionQueue, QueueTypeOK, ring, driver
<1>3. \A i \in RingSlots : cq_phase[i] # 1
  BY <1>1 DEF OneCommand
<1>4. OneCommand'
  BY <1>1, <1>2, <1>3 DEF Execute, OneCommand, ring, driver
<1>5. FirstPass'
  BY <1>1, <1>2 DEF Execute, FirstPass, ring, driver
<1> QED
  BY <1>4, <1>5 DEF RingsAgree

LEMMA PostRings == QueueTypeOK /\ RingsAgree /\ Post => RingsAgree'
<1> SUFFICES ASSUME QueueTypeOK, RingsAgree, Post, clean PROVE RingsAgree'
  BY DEF Post, RingsAgree
<1>1. InController /\ OneCommand /\ FirstPass /\ ~ InCompletionQueue
  BY DEF Post, RingsAgree, OneCommand, Idle, InSubmissionQueue, InController, InCompletionQueue
<1>2. InCompletionQueue'
  BY <1>1 DEF Post, InController, InCompletionQueue, QueueTypeOK, driver
<1>3. \A i \in RingSlots : cq_phase[i] # 1
  BY <1>1 DEF OneCommand
<1>4. \A i \in RingSlots : cq_phase'[i] = 1 => i = cq_head'
  BY <1>1, <1>3 DEF Post, InController, QueueTypeOK, driver
<1>5. OneCommand'
  BY <1>1, <1>2, <1>4 DEF Post, OneCommand, driver
<1>6. FirstPass'
  <2>1. /\ taken = (IF phase = 1 THEN cq_tail ELSE RingSize + cq_tail) /\ taken <= RingSize
        /\ cq_head = cq_tail /\ cq_tail \in 0 .. RingSize - 1 /\ phase \in {0, 1} /\ taken \in Nat
        /\ RingSize \in Nat \ {0, 1}
    BY <1>1, RingAssumption DEF FirstPass, InController, QueueTypeOK, RingSlots
  <2>2. /\ taken' = taken /\ cq_head' = cq_head /\ cq_phase'[cq_head] = phase
        /\ cq_tail' = (IF cq_tail + 1 = RingSize THEN 0 ELSE cq_tail + 1)
        /\ phase' = (IF cq_tail + 1 = RingSize THEN 1 - phase ELSE phase)
    BY <2>1 DEF Post, driver, Wrap, QueueTypeOK, RingSlots
  <2>3. taken + 1 = (IF phase' = 1 THEN cq_tail' ELSE RingSize + cq_tail')
    BY <2>1, <2>2
  <2>4. taken = RingSize => phase = 0
    BY <2>1
  <2> QED
    BY <1>2, <2>1, <2>2, <2>3, <2>4 DEF FirstPass
<1> QED
  BY <1>5, <1>6 DEF RingsAgree

LEMMA TakeRings == QueueTypeOK /\ RingsAgree /\ Take => RingsAgree'
<1> SUFFICES ASSUME QueueTypeOK, RingsAgree, Take, clean PROVE RingsAgree'
  BY DEF Take, RingsAgree
<1>1. InCompletionQueue /\ OneCommand /\ FirstPass
  BY DEF Take, RingsAgree, OneCommand, QueueTypeOK
<1>2. Idle' /\ ~ InCompletionQueue'
  BY <1>1 DEF Take, InCompletionQueue, Idle, QueueTypeOK, device
<1>3. \A i \in RingSlots : cq_phase'[i] # 1
  BY <1>1 DEF Take, Cleared, OneCommand, QueueTypeOK
<1>4. OneCommand'
  BY <1>1, <1>2, <1>3 DEF Take, HeadBell, OneCommand
<1>5. taken' = taken + 1 /\ taken # RingSize /\ taken \in Nat
  BY <1>1 DEF Take, InCompletionQueue, FirstPass, QueueTypeOK
<1>6. FirstPass'
  BY <1>1, <1>2, <1>5, RingAssumption DEF Take, FirstPass, device
<1> QED
  BY <1>4, <1>6 DEF RingsAgree

(* The driver and the controller agree on the rings for as long as they     *)
(* answer each other (nvme.c:528-554): on the second pass the controller    *)
(* posts once more, nothing is ever taken, and nothing goes wrong either.   *)
THEOREM RingsAgreeHolds == QueueSpec => []RingsAgree
<1>1. QueueInit => RingsAgree
  <2> SUFFICES ASSUME QueueInit, clean PROVE RingsAgree
    BY DEF RingsAgree
  <2>1. Idle /\ ~ InCompletionQueue
    BY DEF QueueInit, Idle, InCompletionQueue
  <2>2. OneCommand
    BY <2>1 DEF QueueInit, OneCommand
  <2>3. FirstPass
    BY <2>1, RingAssumption DEF QueueInit, FirstPass
  <2> QED
    BY <2>2, <2>3 DEF RingsAgree
<1>2. QueueTypeOK /\ RingsAgree /\ [QueueNext]_queuevars => RingsAgree'
  <2>1. QueueTypeOK /\ RingsAgree /\ UNCHANGED queuevars => RingsAgree'
    BY DEF queuevars, ring, driver, device, RingsAgree, OneCommand, FirstPass, Idle,
           InSubmissionQueue, InController, InCompletionQueue
  <2> QED
    BY <2>1, SubmitRings, ExecuteRings, PostRings, TakeRings DEF QueueNext
<1> QED
  BY <1>1, <1>2, QueueTypeInvariant, PTL DEF QueueSpec

(* A command is executed once, in order, before send_cmd_sync returns.      *)
THEOREM ImplementsChannelHolds == QueueSpec => ImplementsChannel
<1>1. QueueInit => Channel!Init
  BY DEF QueueInit, Channel!Init
<1>2. QueueTypeOK /\ RingsAgree /\ [QueueNext]_queuevars => [Channel!Next]_(Channel!vars)
  <2> SUFFICES ASSUME QueueTypeOK, RingsAgree, [QueueNext]_queuevars
               PROVE  [Channel!Next]_(Channel!vars)
    OBVIOUS
  <2>1. CASE UNCHANGED queuevars
    BY <2>1 DEF queuevars, Channel!vars
  <2>2. CASE ~ clean /\ QueueNext
    BY <2>2 DEF QueueNext, Submit, Execute, Post, Take, Channel!Next
  <2>3. CASE clean /\ Submit
    <3>1. Idle
      BY <2>3 DEF Submit, RingsAgree, OneCommand, InSubmissionQueue, InController, InCompletionQueue
    <3>2. Channel!Submit
      BY <2>3, <3>1 DEF Submit, Idle, Channel!Submit
    <3> QED
      BY <2>3, <3>2 DEF Submit, Channel!Next
  <2>4. CASE clean /\ Execute
    <3>1. InSubmissionQueue
      BY <2>4 DEF Execute, RingsAgree, OneCommand, Idle, InController, InCompletionQueue
    <3>2. Channel!Execute
      BY <2>4, <3>1 DEF Execute, InSubmissionQueue, QueueTypeOK, Channel!Execute
    <3> QED
      BY <2>4, <3>2 DEF Execute, Channel!Next
  <2>5. CASE clean /\ Post
    BY <2>5 DEF Post, Channel!vars
  <2>6. CASE clean /\ Take
    <3>1. InCompletionQueue
      BY <2>6 DEF Take, RingsAgree, OneCommand, QueueTypeOK
    <3>2. Channel!Return
      BY <2>6, <3>1 DEF Take, InCompletionQueue, QueueTypeOK, Channel!Return
    <3> QED
      BY <2>6, <3>2 DEF Take, Channel!Next
  <2> QED
    BY <2>1, <2>2, <2>3, <2>4, <2>5, <2>6 DEF QueueNext, QueueTypeOK
<1> QED
  BY <1>1, <1>2, QueueTypeInvariant, RingsAgreeHolds, PTL
     DEF QueueSpec, ImplementsChannel, Channel!Spec
=============================================================================
