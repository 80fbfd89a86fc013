------------------------------- MODULE AddrUtil -------------------------------
(***************************************************************************)
(* memory/addrutil.c in words of a few bits: every physical address is     *)
(* mapped a second time in the higher half, from VADDR_HIGHER on.          *)
(***************************************************************************)
EXTENDS Words

CONSTANTS WordBits,    \* bits of an address, 64
          HalfBits,    \* bits of an address of either half, 47
          PageBits     \* bits of an offset in a page, 12

ASSUME AddrAssumption ==
  /\ {WordBits, HalfBits, PageBits} \subseteq Nat
  /\ 4 <= PageBits /\ PageBits < HalfBits /\ HalfBits < WordBits

VADDR_HIGHER == Power(2, WordBits) - Power(2, HalfBits)

OffsetHigher(p) == Word(WordBits, p + VADDR_HIGHER)
OffsetLower(p)  == Word(WordBits, p - VADDR_HIGHER)
EnsureHigher(p) == Or(WordBits, p, VADDR_HIGHER)
EnsureLower(p)  == And(WordBits, p, Not(WordBits, VADDR_HIGHER))

AlignDown(p, a) == And(WordBits, p, Not(WordBits, a - 1))
AlignUpPast(p, a) == And(WordBits, Word(WordBits, p + a), Not(WordBits, a - 1))
AlignUp(p, a)   == And(WordBits, Word(WordBits, p + a - 1), Not(WordBits, a - 1))

PageAlignUp(p)   == AlignUp(p, Power(2, PageBits))
PageAlignDown(p) == AlignDown(p, Power(2, PageBits))

PtrIsUser(p) == p <= Power(2, HalfBits) - 16

VARIABLE addr    \* an address, as the kernel converts it to and fro

AddrInit == addr \in 0 .. Power(2, WordBits) - 1

AddrNext ==
  addr' \in {OffsetHigher(addr), OffsetLower(addr), EnsureHigher(addr),
             EnsureLower(addr), PageAlignUp(addr), PageAlignDown(addr)}

AddrSpec == AddrInit /\ [][AddrNext]_addr
-----------------------------------------------------------------------------
\* addrutil.c:6-24: a physical address goes to the higher half and back the
\* same, by adding or by masking, twice as well as once, and what is in the
\* higher half is never taken for a user's address.
ThereAndBack ==
  /\ addr < Power(2, HalfBits) =>
       /\ EnsureHigher(addr) = OffsetHigher(addr)
       /\ EnsureLower(EnsureHigher(addr)) = addr
       /\ OffsetLower(OffsetHigher(addr)) = addr
  /\ EnsureHigher(EnsureHigher(addr)) = EnsureHigher(addr)
  /\ EnsureLower(addr) < Power(2, HalfBits)
  /\ ~PtrIsUser(EnsureHigher(addr))
  /\ addr % 16 = 0 => (PtrIsUser(addr) <=> addr = EnsureLower(addr))

\* addrutil.c:26-44: alignment gives the nearest multiple above or below,
\* except that past the last page aligning up wraps around to 0.
AlignsNearest ==
  LET page == Power(2, PageBits)
      pages == {n * page : n \in 0 .. Power(2, WordBits - PageBits)}
  IN /\ PageAlignDown(addr) = CHOOSE p \in pages : p <= addr /\ addr < p + page
     /\ PageAlignUp(addr) =
          Word(WordBits, CHOOSE p \in pages : addr <= p /\ p < addr + page)

\* addrutil.c: conversions and alignments of every address.
AddressesRight == ThereAndBack /\ AlignsNearest
=============================================================================
