------------------------------- MODULE Storage -------------------------------
(***************************************************************************)
(* From PCI enumeration to partition tables: pci/pci.c, pci/nvme.c above   *)
(* its queues, device/drive, device/device.c, vfs/partition.c, vfs/vfs.c.  *)
(*                                                                         *)
(* Nothing preempts these procedures, so each is one step or, for the      *)
(* loops over buses and namespaces, one step per round.  A command is      *)
(* executed before send_cmd_sync returns (NvmeQueue!ImplementsChannel) as  *)
(* long as its ring is on its first pass; the next one hangs.  Memory is   *)
(* pages of blocks; what a block of a disk holds is its name.              *)
(***************************************************************************)
EXTENDS Integers, FiniteSets, FiniteSetsExt, Sequences

CONSTANTS NPages,      \* bound: physical pages, see MemoryAssumption
          Size,        \* entries of a ring, 256
          Capacity,    \* slots of devices and partitions, 255
          BlockBytes,  \* block_size, 512
          PageBlocks,  \* blocks of a page, 8
          MaxBlocks,   \* blocks of a transfer, 16: two pages
          TableBlocks, \* blocks read of a partition table, 32
          EntryBytes,  \* sizeof(struct gpt_entry), 128
          UInts,       \* 2^32
          DiskBlocks,  \* blocks of a namespace
          Buses,       \* what the functions of each bus are
          NsLists,     \* namespace lists of a controller
          Gpts,        \* what a disk holds of a GPT, see GptAssumption
          Reads        \* [len, offset] of reads after boot

ASSUME SizeAssumption ==
  /\ {NPages, Size, Capacity, BlockBytes, PageBlocks, TableBlocks, EntryBytes, UInts,
      DiskBlocks} \subseteq Nat \ {0}
  /\ MaxBlocks = 2 * PageBlocks

ASSUME InputAssumption ==
  /\ Buses \subseteq Seq(STRING) \ {<< >>} /\ NsLists \subseteq Seq(Nat)
  /\ Reads \subseteq [len : Nat \ {0}, offset : Nat]

(* The header: whether it has the signature, and its pentry_start_lba,      *)
(* pentry_count and pentry_size.  Of the rest of the disk, the positions    *)
(* where an entry would be in use: first_lba, which is read there, is not 0.*)
ASSUME GptAssumption ==
  Gpts \subseteq [signed : BOOLEAN, start : Nat, count : Nat, size : Nat, used : SUBSET Nat]

VARIABLES
  held, data,   \* pages handed out, and what each page holds
  stage,        \* "pci", "list", "up", or for good "hung", "panic", "astray"
  buses,        \* what enumeration finds on each bus
  bus,          \* the bus enumerated next
  nsids,        \* the namespaces of the controller not processed yet
  admin_sent,   \* commands sent on its admin queue
  drives,       \* nvme_drives: controller, namespace, commands sent
  devices,      \* the registry: drives, by their index; 0 is free
  kernel_id,    \* the slot of the kernel's device, -1 if not registered
  partitions,   \* per slot the drive and the partitions found, or Free
  gpt,          \* that of every disk
  answer,       \* ghost: the last read after boot
  strayed       \* ghost: the controller wrote to a page of no buffer

disks == <<buses, gpt>>
vars == <<held, data, stage, disks, bus, nsids, admin_sent, drives, devices,
          kernel_id, partitions, answer, strayed>>

Machine == [held |-> held, data |-> data, stage |-> stage,
            admin_sent |-> admin_sent, drives |-> drives, strayed |-> strayed]
Becomes(m) ==
  /\ held' = m.held /\ data' = m.data /\ stage' = m.stage
  /\ admin_sent' = m.admin_sent /\ drives' = m.drives /\ strayed' = m.strayed

Junk == <<"junk">>
Block(d, lba) == <<d.bus, d.ns, lba>>
Free == [drive |-> 0, found |-> {}]
Running(m) == m.stage \notin {"hung", "panic", "astray"}
Ceil(n, unit) == (n + unit - 1) \div unit
PageBytes == PageBlocks * BlockBytes

-----------------------------------------------------------------------------
(* palloc, the lowest run of n free pages, and pfree *)

RunAt(p, n) == p .. p + n - 1
Palloc(m, n) ==
  LET p == Min({q \in 1 .. NPages - n + 1 : RunAt(q, n) \cap m.held = {}})
  IN  [m |-> [m EXCEPT !.held = @ \cup RunAt(p, n)], page |-> p]
Pfree(m, p, n) == [m EXCEPT !.held = @ \ RunAt(p, n)]

-----------------------------------------------------------------------------
(* nvme.c *)

(* send_cmd_sync on the admin queue; n commands *)
AdminCommands(m, n) ==
  IF m.admin_sent + n > Size THEN [m EXCEPT !.stage = "hung"]
  ELSE [m EXCEPT !.admin_sent = @ + n]

(* read_blocks_nvme.  Every drive rings the doorbells of queue 1; on all    *)
(* but the first of a controller the creation of the queue was refused, and *)
(* the completion never arrives.  Only prp1 is set: the blocks of the       *)
(* second page of a transfer go to physical page 0.  A transfer past the    *)
(* end of the disk is an error, which is printed.                           *)
ReadBlocksNvme(m, i, p, lba, count) ==
  LET d == m.drives[i]
      into(q, s) == IF q = p THEN s ELSE s + PageBlocks
  IN  IF ~ Running(m) \/ ~ d.first \/ d.sent = Size
        THEN [m EXCEPT !.stage = IF Running(m) THEN "hung" ELSE @]
      ELSE IF lba + count > DiskBlocks THEN [m EXCEPT !.drives[i].sent = @ + 1]
      ELSE [m EXCEPT
              !.drives[i].sent = @ + 1,
              !.strayed = @ \/ p \notin m.held,
              !.data = [q \in 0 .. NPages |-> [s \in 0 .. PageBlocks - 1 |->
                 IF q \in {0, p} /\ into(q, s) < count
                   THEN Block(d, lba + into(q, s)) ELSE @[q][s]]]]

TransferCountFloor(count) == count \div MaxBlocks + 1
TransferCount(count) == Ceil(count, MaxBlocks)

(* read_blocks: the count of the last transfer is not what is left *)
Transfer(m, i, p, count, lba, ct) ==
  ReadBlocksNvme(m, i, p + ct * (MaxBlocks \div PageBlocks), lba + ct * MaxBlocks,
                 IF count < MaxBlocks THEN count ELSE MaxBlocks)

ReadBlocks(m, i, p, count, lba) ==
  LET after[n \in 0 .. TransferCount(count)] ==
        IF n = 0 THEN m ELSE Transfer(after[n - 1], i, p, count, lba, n - 1)
  IN  after[TransferCount(count)]

(* drive_read: the bytes copied, each the block it comes from and its place *)
LbaStartOffsetNone(offset) == 0
LbaStartOffset(offset) == offset % BlockBytes

BlockCount(len, offset) ==
  (offset + len - 1) \div BlockBytes - offset \div BlockBytes + 1
BufferPages(len, offset) == Ceil(BlockCount(len, offset) * BlockBytes, PageBytes)

DriveRead(m, i, len, offset) ==
  LET pages == BufferPages(len, offset)
      buf == Palloc(m, pages)
      done == ReadBlocks(buf.m, i, buf.page, BlockCount(len, offset),
                         offset \div BlockBytes)
      Byte(k) == <<done.data[buf.page + k \div PageBytes]
                            [(k % PageBytes) \div BlockBytes], k % BlockBytes>>
  IN  [m |-> IF Running(done) THEN Pfree(done, buf.page, pages) ELSE done,
       bytes |-> [k \in 0 .. len - 1 |-> Byte(LbaStartOffset(offset) + k)]]

-----------------------------------------------------------------------------
(* partition_load_drive.                                                    *)

(* block_size * pentry_start_lba *)
TableOffsetFixed == 2 * BlockBytes     \* "LBA 2..33"
TableOffset == BlockBytes * gpt.start

TableBytes == BlockBytes * TableBlocks
TablePages == Ceil(TableBytes, PageBytes)
ReleasedPages == Ceil(BlockBytes, PageBytes)

(* There is memory for every controller, every drive and the list of name-  *)
(* spaces, and still a run as long as any buffer, wherever those pages lie.  *)
MostPages(b) == 3 * (Len(b) - 1) + 1 + Capacity * (3 + TablePages)

ASSUME MemoryAssumption ==
  \A b \in Buses, n \in {1, TablePages} \cup {BufferPages(r.len, r.offset) : r \in Reads} :
    (MostPages(b) + 1) * n <= NPages

(* A byte that was read, at which an entry is in use *)
Used(byte) == byte[1][3] * BlockBytes + byte[2] \in gpt.used

(* malloc(pentry_count * pentry_size), a product of two uint32_t *)
Overruns(found) ==
  Cardinality(found) * EntryBytes > (gpt.count * gpt.size) % UInts

(* The entries of the table in the pages read for it.  One past the buffer, *)
(* or in a block the controller wrote nothing to, is whatever lies there.   *)
EntryAt(e) == e * gpt.size

Legible(bytes, e) == EntryAt(e) < TableBytes /\ bytes[EntryAt(e)][1] # Junk

Findings(bytes) ==
  LET entries == 0 .. gpt.count - 1
  IN  {{e \in entries : Legible(bytes, e) /\ Used(bytes[EntryAt(e)])} \cup rubbish :
         rubbish \in SUBSET {e \in entries : ~ Legible(bytes, e)}}

(* Each outcome is a machine and what was found.  It goes astray where more *)
(* entries are copied than there is room for, and may where entries are     *)
(* read behind the buffer, which need not be mapped.                        *)
PartitionLoadDrive(m, i) ==
  LET hdr == DriveRead(m, i, BlockBytes, BlockBytes)
      signature == gpt.signed /\ hdr.bytes[0] = <<Block(m.drives[i], 1), 0>>
      lba2 == Palloc(hdr.m, TablePages)
      entries == DriveRead(lba2.m, i, TableBytes, TableOffset)
      astray == [entries.m EXCEPT !.stage = "astray"]
      Nothing(n) == [m |-> n, found |-> {}]
  IN  IF ~ Running(hdr.m) THEN {Nothing(hdr.m)}
      ELSE IF ~ signature THEN {Nothing([hdr.m EXCEPT !.stage = "panic"])}
      ELSE IF ~ Running(entries.m) THEN {Nothing(entries.m)}
      ELSE {IF Overruns(found) THEN Nothing(astray)
            ELSE [m |-> Pfree(entries.m, lba2.page, ReleasedPages), found |-> found] :
              found \in Findings(entries.bytes)}
           \cup {Nothing(astray) :
                    e \in {e \in 0 .. gpt.count - 1 : EntryAt(e) >= TableBytes}}

(* The first free slot of partitions; without one the table is forgotten. *)
Slots == 0 .. Capacity - 1
FirstFree(free) == {s \in free : \A r \in free : s <= r}

PartitionRegister(i, found) ==
  LET free == {s \in Slots : partitions[s] = Free}
  IN  [s \in Slots |-> IF s \in FirstFree(free) THEN [drive |-> i, found |-> found]
                       ELSE partitions[s]]

(* device_register: panics without a free slot *)
FreeDevices == {s \in Slots : devices[s] = 0 /\ s # kernel_id}
RegisterEverywhere(i) ==
  [s \in Slots |-> IF s \in FreeDevices THEN i ELSE devices[s]]
DeviceRegister(i) ==
  [s \in Slots |-> IF s \in FirstFree(FreeDevices) THEN i ELSE devices[s]]

-----------------------------------------------------------------------------
Init ==
  /\ held = {} /\ data = [p \in 0 .. NPages |-> [s \in 0 .. PageBlocks - 1 |-> Junk]]
  /\ stage = "pci" /\ bus = 0 /\ nsids = << >> /\ admin_sent = 0 /\ drives = << >>
  /\ buses \in Buses /\ gpt \in Gpts
  /\ devices = [s \in Slots |-> 0] /\ kernel_id = -1
  /\ partitions = [s \in Slots |-> Free]
  /\ answer = [len |-> 0, offset |-> 0, drive |-> 0, bytes |-> << >>]
  /\ strayed = FALSE

(* kdevice_register_functions *)
KdeviceRegisterFunctions ==
  /\ stage = "pci" /\ bus = 0 /\ kernel_id = -1
  /\ \E s \in FirstFree(FreeDevices) : kernel_id' = s
  /\ UNCHANGED <<held, data, stage, disks, bus, nsids, admin_sent, drives, devices,
                 partitions, answer, strayed>>

(* pci_init and enumerate: the last bus of the table, end_bus_number, is    *)
(* left out.  A function that is no endpoint, or whose header type has the  *)
(* multi-function bit, is passed over.                                      *)
EnumerateOther ==
  /\ stage = "pci" /\ bus < Len(buses) - 1 /\ buses[bus + 1] # "nvme"
  /\ bus' = bus + 1
  /\ UNCHANGED <<held, data, stage, disks, nsids, admin_sent, drives, devices,
                 kernel_id, partitions, answer, strayed>>

(* nvme_initialize_device up to the list of namespaces: a controller that   *)
(* fails an assertion panics, one that never reports to be disabled or      *)
(* enabled is waited for for ever; else the admin queue (two runs of pages, *)
(* here of one page each), the page of ctrl_identify and that of nsids.     *)
NvmeInitializeDevice ==
  /\ stage = "pci" /\ bus < Len(buses) - 1 /\ buses[bus + 1] = "nvme"
  /\ \/ /\ stage' \in {"panic", "hung"}
        /\ UNCHANGED <<held, data, admin_sent, drives, strayed, nsids>>
     \/ LET sq == Palloc([Machine EXCEPT !.stage = "list", !.admin_sent = 0], 1)
            cq == Palloc(sq.m, 1)
            id == Palloc(cq.m, 1)
            list == Palloc(id.m, 1)
        IN  /\ Becomes(AdminCommands(list.m, 2))
            /\ \E l \in NsLists : nsids' = [ids |-> l, page |-> list.page]
  /\ UNCHANGED <<disks, bus, devices, kernel_id, partitions, answer>>

(* A round of namespaces_identify: register the device, create its queues,  *)
(* identify it, and read its partition table.                               *)
NamespaceIdentify ==
  /\ stage = "list" /\ nsids.ids # << >>
  /\ LET i == Len(drives) + 1
         d == [bus |-> bus, ns |-> Head(nsids.ids), sent |-> 0,
               first |-> \A j \in DOMAIN drives : drives[j].bus # bus]
         sq == Palloc([Machine EXCEPT !.drives = Append(@, d)], 1)
         cq == Palloc(sq.m, 1)
         id == Palloc(AdminCommands(cq.m, 2), 1)
         ready == AdminCommands(id.m, 1)
     IN  IF FreeDevices = {}
           THEN stage' = "panic"
                /\ UNCHANGED <<held, data, admin_sent, drives, strayed, devices,
                               partitions>>
           ELSE /\ devices' = DeviceRegister(i)
                /\ \E load \in IF Running(ready) THEN PartitionLoadDrive(ready, i)
                                ELSE {[m |-> ready, found |-> {}]} :
                     /\ Becomes(load.m)
                     /\ partitions' = IF Running(load.m)
                                        THEN PartitionRegister(i, load.found)
                                        ELSE partitions
  /\ nsids' = [nsids EXCEPT !.ids = Tail(@)]
  /\ UNCHANGED <<disks, bus, kernel_id, answer>>

NamespacesDone ==
  /\ stage = "list" /\ nsids.ids = << >>
  /\ Becomes(Pfree([Machine EXCEPT !.stage = "pci"], nsids.page, 1))
  /\ nsids' = << >> /\ bus' = bus + 1
  /\ UNCHANGED <<disks, devices, kernel_id, partitions, answer>>

PciDone ==
  /\ stage = "pci" /\ bus >= Len(buses) - 1
  /\ stage' = "up"
  /\ UNCHANGED <<held, data, disks, bus, nsids, admin_sent, drives, devices, kernel_id,
                 partitions, answer, strayed>>

(* Any later reader *)
Read(i, r) ==
  /\ stage = "up" /\ i \in DOMAIN drives
  /\ LET read == DriveRead(Machine, i, r.len, r.offset)
     IN  /\ Becomes(read.m)
         /\ answer' = IF Running(read.m)
                        THEN [len |-> r.len, offset |-> r.offset, drive |-> i,
                              bytes |-> read.bytes]
                        ELSE answer
  /\ UNCHANGED <<disks, bus, nsids, devices, kernel_id, partitions>>

Next ==
  \/ KdeviceRegisterFunctions
  \/ EnumerateOther
  \/ NvmeInitializeDevice
  \/ NamespaceIdentify
  \/ NamespacesDone
  \/ PciDone
  \/ \E i \in 1 .. Capacity, r \in Reads : Read(i, r)

Spec == Init /\ [][Next]_vars

-----------------------------------------------------------------------------
(* Properties *)

(* Types; no ring is used beyond its first pass.                            *)
TypeOK ==
  /\ held \subseteq 1 .. NPages
  /\ stage \in {"pci", "list", "up", "hung", "panic", "astray"}
  /\ bus \in 0 .. Len(buses) - 1 /\ admin_sent \in 0 .. Size
  /\ \A i \in DOMAIN drives : drives[i].sent \in 0 .. Size
  /\ devices \in [Slots -> 0 .. Len(drives)] /\ kernel_id \in Slots \cup {-1}

(* What a block of a read may be relied on: it lies in the first page of    *)
(* its transfer, and the transfer, which always asks for MaxBlocks of a     *)
(* longer read, ends on the disk.                                           *)
Reliable(lba, k, count) ==
  LET start == lba + (k \div MaxBlocks) * MaxBlocks
      size == IF count < MaxBlocks THEN count ELSE MaxBlocks
  IN  k % MaxBlocks < PageBlocks /\ start + size <= DiskBlocks

(* drive_read returns the bytes of the disk, from any offset and of any     *)
(* length, as far as the two pages of a transfer and the end of the disk    *)
(* allow (drive.c:5, nvme.c:288-294).                                       *)
ReadsRight ==
  LET lba == answer.offset \div BlockBytes
      count == BlockCount(answer.len, answer.offset)
  IN  \A k \in 0 .. answer.len - 1 :
        LET at == answer.offset + k
        IN  Reliable(lba, at \div BlockBytes - lba, count) =>
              answer.bytes[k] = <<Block(drives[answer.drive], at \div BlockBytes),
                                  at % BlockBytes>>

(* The controller writes into the buffer of the read, and to physical page  *)
(* 0, which stands in prp2; never to a page that was released.              *)
NoStrayWrite == ~ strayed

(* Every page palloc'ed is given back but those that are kept: the queues   *)
(* and identify pages of controllers and drives, and the pages of each      *)
(* partition table except one (partition.c:67).                             *)
PagesAccounted ==
  stage \in {"pci", "up"} =>
    Cardinality(held)
      = 3 * Cardinality({b \in 0 .. bus - 1 : buses[b + 1] = "nvme"})
        + Len(drives) * (3 + TablePages - Ceil(BlockBytes, PageBytes))

(* Memory through boot and reads: what palloc gave is written by the        *)
(* controller while it is held, and given back (nvme.c:288, drive.c:21).    *)
MemoryRight == TypeOK /\ NoStrayWrite /\ PagesAccounted

(* A device has one slot, drives are registered in order, and none takes    *)
(* that of the kernel (device.c:9); a drive's partition table has one too.  *)
SlotsUnique ==
  /\ \A i \in DOMAIN drives : Cardinality({s \in Slots : devices[s] = i}) = 1
  /\ kernel_id # -1 => devices[kernel_id] = 0
  /\ \A s, r \in Slots :
       partitions[s].drive = partitions[r].drive /\ partitions[s] # Free => s = r

(* The partitions found are those of the header's table: entry e, of size   *)
(* pentry_size, counted from block pentry_start_lba, for as many as         *)
(* pentry_count - as far as the buffer reaches (partition.c:39) and its     *)
(* blocks can be relied on.  One of the rest may be missed, or be rubbish.  *)
PartitionsRight ==
  \A s \in Slots : partitions[s] # Free =>
    \A e \in 0 .. gpt.count - 1 :
      /\ EntryAt(e) < TableBytes
      /\ Reliable(gpt.start, EntryAt(e) \div BlockBytes, TableBlocks)
      => (e \in partitions[s].found <=> gpt.start * BlockBytes + e * gpt.size \in gpt.used)
=============================================================================
