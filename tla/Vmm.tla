-------------------------------- MODULE Vmm --------------------------------
(***************************************************************************)
(* The virtual memory manager (arch/x86_64/vmm.c): four levels of page     *)
(* tables, built on demand from frames of the physical memory manager, and *)
(* the translation cache of the CPU, which may take up any translation at  *)
(* any time and forgets one only when told to.                             *)
(*                                                                         *)
(* A virtual page is the tuple of its four table indices.  Physical memory *)
(* below 1 GB is mapped to itself, so a table is reached by its frame.     *)
(***************************************************************************)
EXTENDS Integers, FiniteSets

CONSTANTS
  TotalFrames,   \* frames of RAM
  Roots,         \* frames of the PML4 tables, taken and cleared beforehand
  Entries,       \* entries of a table (512)
  VirtualPages,  \* the pages callers map
  Mappings       \* records addr, flags: frames callers have and map pages to

ASSUME VmmAssumption ==
  /\ TotalFrames \in Nat /\ Entries \in Nat
  /\ Roots \subseteq 1 .. TotalFrames - 1
  /\ VirtualPages \subseteq [1 .. 4 -> 0 .. Entries - 1]
  /\ \A m \in Mappings : m.addr \in (1 .. TotalFrames - 1) \ Roots

VARIABLES
  mem,     \* contents of the frames, as tables
  frames,  \* frames handed out by the physical memory manager
  cr3,
  tlb      \* translations in the cache

vars == <<mem, frames, cr3, tlb>>

DataFrames == {m.addr : m \in Mappings}

PMM == INSTANCE FrameAllocator WITH allocated <- frames, asked <- 0, reply <- 0, MaxRun <- 1

\* An entry whose PTE_PRESENT bit is 0.
Absent == [addr |-> -1, flags |-> "none"]
Present(entry) == entry # Absent

Indices == 0 .. Entries - 1
ZeroTable == [i \in Indices |-> Absent]

\* What a frame holds before it is cleared, read as a table: an entry of old.
Stale == [i \in Indices |-> [addr |-> 0, flags |-> "stale"]]

TableFlags == "table"   \* PTE_PRESENT | PTE_WRITABLE | PTE_USER
Link(f) == [addr |-> f, flags |-> TableFlags]

\* pmm_alloc_frame: 0 when there is none.
pmm_alloc_frame(taken) ==
  LET free == PMM!Frames \ taken
  IN  IF free = {} THEN 0 ELSE CHOOSE f \in free : PMM!IsLeast(f, free)
-----------------------------------------------------------------------------
\* Mutants: a new table is not cleared; a table that is there is not used.
Descend_NotCleared(w, i) ==
  IF Present(w.mem[w.table][i])
  THEN [w EXCEPT !.table = w.mem[w.table][i].addr]
  ELSE LET f == pmm_alloc_frame(w.frames) IN
       [mem |-> [w.mem EXCEPT ![w.table][i] = Link(f)], frames |-> w.frames \cup {f}, table |-> f]

Descend_AlwaysNew(w, i) ==
  LET f == pmm_alloc_frame(w.frames) IN
  [mem |-> [w.mem EXCEPT ![f] = ZeroTable, ![w.table][i] = Link(f)],
   frames |-> w.frames \cup {f}, table |-> f]

\* One level of vmm_map_page: the table below entry i, made if it is absent.
\* w is the memory, the frames in use and the table reached so far.
Descend(w, i) ==
  IF Present(w.mem[w.table][i])
  THEN [w EXCEPT !.table = w.mem[w.table][i].addr]
  ELSE LET f == pmm_alloc_frame(w.frames) IN
       [mem |-> [w.mem EXCEPT ![f] = ZeroTable, ![w.table][i] = Link(f)],
        frames |-> w.frames \cup {f},
        table |-> f]

\* The page table of v, as vmm_unmap_page and vmm_virt_to_phys look for it.
Below(f, i) == mem[f][i].addr
HasTable(root, v) ==
  /\ Present(mem[root][v[1]])
  /\ Present(mem[Below(root, v[1])][v[2]])
  /\ Present(mem[Below(Below(root, v[1]), v[2])][v[3]])
PageTable(root, v) == Below(Below(Below(root, v[1]), v[2]), v[3])

\* vmm_virt_to_phys, with the flags, which the CPU's own walk finds too.
vmm_virt_to_phys(root, v) ==
  IF HasTable(root, v) THEN mem[PageTable(root, v)][v[4]] ELSE Absent

\* Mutant: the cache is not told.
vmm_invlpg_Skipped(v) == UNCHANGED tlb

vmm_invlpg(v) == tlb' = {t \in tlb : t.page # v}
-----------------------------------------------------------------------------
Init ==
  /\ mem = [f \in PMM!Frames |-> IF f \in Roots THEN ZeroTable ELSE Stale]
  /\ frames = {0} \cup Roots \cup DataFrames
  /\ cr3 \in Roots
  /\ tlb = {}

vmm_map_page(root, v, m) ==
  /\ LET start == [mem |-> mem, frames |-> frames, table |-> root]
         pt == Descend(Descend(Descend(start, v[1]), v[2]), v[3])
     IN  /\ mem' = [pt.mem EXCEPT ![pt.table][v[4]] = m]
         /\ frames' = pt.frames
  /\ vmm_invlpg(v)
  /\ UNCHANGED cr3

vmm_unmap_page(root, v) ==
  /\ HasTable(root, v)
  /\ Present(mem[PageTable(root, v)][v[4]])
  /\ mem' = [mem EXCEPT ![PageTable(root, v)][v[4]] = Absent]
  /\ vmm_invlpg(v)
  /\ UNCHANGED <<frames, cr3>>

vmm_unmap_nothing(root, v) == ~Present(vmm_virt_to_phys(root, v)) /\ UNCHANGED vars

\* Writing CR3 empties the cache.
vmm_switch_pml4(root) ==
  /\ cr3' = root
  /\ tlb' = {}
  /\ UNCHANGED <<mem, frames>>

\* The CPU walks the active tables and keeps what it finds.
TlbFill(v) ==
  /\ Present(vmm_virt_to_phys(cr3, v))
  /\ tlb' = tlb \cup {[page |-> v, entry |-> vmm_virt_to_phys(cr3, v)]}
  /\ UNCHANGED <<mem, frames, cr3>>

Next ==
  \/ \E root \in Roots, v \in VirtualPages :
       \/ \E m \in Mappings : vmm_map_page(root, v, m)
       \/ vmm_unmap_page(root, v)
       \/ vmm_unmap_nothing(root, v)
  \/ \E root \in Roots : vmm_switch_pml4(root)
  \/ \E v \in VirtualPages : TlbFill(v)

Spec == Init /\ [][Next]_vars
-----------------------------------------------------------------------------
\* Type correctness.
TypeOK ==
  /\ \A f \in PMM!Frames, i \in Indices :
       \/ mem[f][i] \in {Absent, Stale[i]} \cup Mappings
       \/ mem[f][i].addr \in PMM!Frames /\ mem[f][i] = Link(mem[f][i].addr)
  /\ Roots \subseteq frames /\ frames \subseteq PMM!Frames
  /\ cr3 \in Roots

Tables == frames \ ({0} \cup DataFrames)

\* The places from which a table is linked.
LinksTo(f) == {e \in Tables \X Indices : mem[e[1]][e[2]] = Link(f)}

\* The tables are trees: each table hangs in one place, the roots in none, and
\* nothing that a frame held before it became a table is left in it.
TablesFormTrees ==
  TypeOK /\ \A f \in Tables :
    /\ Cardinality(LinksTo(f)) = (IF f \in Roots THEN 0 ELSE 1)
    /\ \A i \in Indices : mem[f][i] # Stale[i]

\* The CPU never uses a translation that was changed or taken back.
NoStaleTranslation == \A t \in tlb : t.entry = vmm_virt_to_phys(cr3, t.page)

AS == INSTANCE AddressSpace WITH
        Spaces <- Roots, Unmapped <- Absent, active <- cr3,
        space <- [root \in Roots |-> [v \in VirtualPages |-> vmm_virt_to_phys(root, v)]]

\* The page tables implement the address spaces: a page translates to what it
\* was last mapped to, and mapping one page changes no other page, in this
\* space or another.
RefinesAddressSpace == AS!Spec
=============================================================================
