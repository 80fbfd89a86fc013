------------------------------ MODULE MCPlatform ------------------------------
(* Machines for model-checking Platform: root tables of both widths, short or *)
(* damaged or with a signature twice, MADTs with records of every kind, with  *)
(* too many of one, with none, with a record without length, with interrupts   *)
(* past a byte and with reserved flags; and counters that wrap or do not.      *)
EXTENDS Platform

T(sig, ok) == [sig |-> sig, ok |-> ok]
Tables(ts, width, ok) ==
  [length |-> 36 + width * Len(ts) + 3, tables |-> ts, ok |-> ok]
Good == <<T("FACP", TRUE), T("APIC", TRUE), T("HPET", TRUE), T("MCFG", TRUE),
          T("APIC", TRUE)>>
Bad == <<T("APIC", TRUE), T("HPET", FALSE), T("MCFG", TRUE)>>
Few == <<T("HPET", TRUE), T("APIC", TRUE)>>

E(type, len, gsi, flags) == [type |-> type, len |-> len, gsi |-> gsi, flags |-> flags]
Lapic  == E("lapic", 8, 0, 0)
Ioapic == E("ioapic", 12, 0, 0)
Iso(gsi, flags) == E("iso", 10, gsi, flags)
Nmi    == E("nmi", 6, 0, 0)

Madts ==
  {<<Lapic, Lapic, Nmi, Ioapic, Iso(2, 0), Iso(9, 13), Nmi>>,
   <<Lapic, Ioapic, Iso(2, 5), Iso(2, 7)>>,
   <<Lapic, Ioapic>>,
   <<Lapic, Iso(2, 0)>>,
   <<Ioapic, Iso(2, 0), Iso(5, 15), Iso(9, 13)>>,
   <<Lapic, E("nmi", 0, 0, 0), Ioapic>>,
   <<Lapic, Ioapic, Iso(2, 0), Iso(133, 2)>>,
   <<Lapic, Ioapic, Iso(2, 8), Iso(300, 13)>>}

Machine(tags, revision, rsdp_ok, root, madt, cpus, periodic, wrap, devices) ==
  [tags |-> tags, revision |-> revision, rsdp_ok |-> rsdp_ok,
   xsdt |-> Tables(root, 8, TRUE), rsdt |-> Tables(root, 4, revision = 0),
   madt |-> madt, cpus |-> cpus, periodic |-> periodic, wrap |-> wrap,
   devices |-> devices]

AllTags == <<"epoch", "memmap", "framebuffer", "rsdp", "memmap">>
TwoIsos == <<Lapic, Ioapic, Iso(2, 0), Iso(9, 13)>>

FirmwaresDef ==
  {Machine(AllTags, r, TRUE, Good, m, {0, 1}, TRUE, Longs, {9}) :
       r \in {0, 2}, m \in Madts}
    \cup {Machine(AllTags, 2, TRUE, Good, TwoIsos, {0}, TRUE, 7, {})}
    \cup {Machine(AllTags, 2, ok, root, TwoIsos, {0}, periodic, Longs, {}) :
            ok \in BOOLEAN, root \in {Good, Bad, Few}, periodic \in BOOLEAN}
    \cup {Machine(tags, 0, TRUE, Good, TwoIsos, {0}, TRUE, Longs, {9}) :
            tags \in {<<"memmap", "rsdp">>, <<"framebuffer", "memmap">>, <<"rsdp">>}}
=============================================================================
