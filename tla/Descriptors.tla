----------------------------- MODULE Descriptors ----------------------------
(***************************************************************************)
(* The descriptor tables of the mini kernel (kernel/arch/x86_64/gdt.c and  *)
(* idt.c) as the numbers they store, and what the processor, which is      *)
(* external, makes of them.  A field of n bits is a number below 2^n: a    *)
(* mask of n bits is a remainder, a shift by n bits a quotient by 2^n.     *)
(***************************************************************************)
EXTENDS Integers

M8  == 256                      \* 2^8
M16 == 65536                    \* 2^16

(* enum KX86_GDT_INDEX_*, and the selectors of arch.h                      *)
GdtIndex == [null |-> 0, kernelCode |-> 1, kernelData |-> 2,
             userCode |-> 3, userData |-> 4]
GdtDefaultEntries == 5
IdtDefaultEntries == 256
Selector == [kernelCode |-> GdtIndex.kernelCode * 8,
             kernelData |-> GdtIndex.kernelData * 8,
             userCode   |-> GdtIndex.userCode * 8 + 3,
             userData   |-> GdtIndex.userData * 8 + 3]

RingBits(dpl) == (dpl % 4) * 32

GdtEntrySet(base, limit, access, flags) ==
    [limitLow       |-> limit % M16,
     baseLow        |-> base % M16,
     baseMid        |-> (base \div M16) % M8,
     access         |-> access,
     limitHighFlags |-> ((limit \div M16) % 16) + (flags % 16) * 16,
     baseHigh       |-> ((base \div M16) \div M8) % M8]

NullEntry == [limitLow |-> 0, baseLow |-> 0, baseMid |-> 0, access |-> 0,
              limitHighFlags |-> 0, baseHigh |-> 0]

(* Present (128), the ring, a segment (16), executable (8), readable or    *)
(* writable (2); then 4K granularity (8) with long mode (2) for code and   *)
(* with 32 bits (4) for data.                                              *)
CodeSegment(dpl) ==
    GdtEntrySet(0, 16 * M16 - 1, 128 + RingBits(dpl) + 16 + 8 + 2, 8 + 2)

(* Mutant of DataSegment: the limit counted in bytes.                      *)
DataSegmentInBytes(dpl) ==
    GdtEntrySet(0, 16 * M16 - 1, 128 + RingBits(dpl) + 16 + 2, 4)

DataSegment(dpl) ==
    GdtEntrySet(0, 16 * M16 - 1, 128 + RingBits(dpl) + 16 + 2, 8 + 4)

(* kx86_gdt_default_table of as many entries as it fills                   *)
DefaultTable ==
    [i \in 0..(GdtDefaultEntries - 1) |->
        CASE i = GdtIndex.kernelCode -> CodeSegment(0)
          [] i = GdtIndex.kernelData -> DataSegment(0)
          [] i = GdtIndex.userCode   -> CodeSegment(3)
          [] i = GdtIndex.userData   -> DataSegment(3)
          [] OTHER                   -> NullEntry]

(* kx86_gdtr_make and kx86_idtr_make: entries of 8 and of 16 bytes; the    *)
(* limit, the last byte's offset, is cut to 16 bits.  No entries, limit 0. *)
TableLimit(count, size) == IF count = 0 THEN 0 ELSE (count * size - 1) % M16
GdtrLimit(count) == TableLimit(count, 8)
IdtrLimit(count) == TableLimit(count, 16)

(* kx86_idt_gate_set; the handler is a 64-bit address.                     *)
IdtGateSet(handler, selector, ist, type, dpl) ==
    [offsetLow  |-> handler % M16,
     selector   |-> selector,
     ist        |-> ist % 8,
     typeAttr   |-> 128 + RingBits(dpl) + (type % 16),
     offsetMid  |-> (handler \div M16) % M16,
     offsetHigh |-> ((handler \div M16) \div M16) % (M16 * M16)]
InterruptGate(handler, selector) == IdtGateSet(handler, selector, 0, 14, 0)
TrapGate(handler, selector, dpl) == IdtGateSet(handler, selector, 0, 15, dpl)

-----------------------------------------------------------------------------
(* What the processor reads out of an entry, a gate and a limit            *)
EntryBase(e)  == e.baseLow + e.baseMid * M16 + e.baseHigh * (M16 * M8)
EntryLimit(e) == e.limitLow + (e.limitHighFlags % 16) * M16
EntryFlags(e) == e.limitHighFlags \div 16
Present(e)    == (e.access \div 128) % 2 = 1
Ring(e)       == (e.access \div 32) % 4
IsSegment(e)  == (e.access \div 16) % 2 = 1
Executable(e) == (e.access \div 8) % 2 = 1
ReadWrite(e)  == (e.access \div 2) % 2 = 1
LongMode(e)   == (EntryFlags(e) \div 2) % 2 = 1
Default32(e)  == (EntryFlags(e) \div 4) % 2 = 1
InPages(e)    == (EntryFlags(e) \div 8) % 2 = 1

(* All of the 4 GiB a descriptor can name: 2^20 pages of 4 KiB from 0      *)
CoversMemory(e) == EntryBase(e) = 0 /\ InPages(e) /\ EntryLimit(e) = 16 * M16 - 1

GateOffset(g)  == g.offsetLow + g.offsetMid * M16 + g.offsetHigh * (M16 * M16)
GatePresent(g) == (g.typeAttr \div 128) % 2 = 1
GateRing(g)    == (g.typeAttr \div 32) % 4
GateType(g)    == g.typeAttr % 16

(* A selector can be loaded when its entry lies inside the limit.          *)
InTable(selector, limit) == (selector \div 8) * 8 + 7 <= limit
=============================================================================
