------------------------------- MODULE MCVmm -------------------------------
(* Two pages that share PDPT and PD but not the page table, or nothing but  *)
(* the PML4; two mappings that differ in frame and flags.                   *)
EXTENDS Vmm

NearPages == {<<0, 0, 0, 0>>, <<0, 0, 1, 1>>}
FarPages == {<<0, 0, 0, 0>>, <<1, 1, 1, 1>>}
DeviceAndData == {[addr |-> 3, flags |-> "cached"], [addr |-> 4, flags |-> "uncached"]}
=============================================================================
