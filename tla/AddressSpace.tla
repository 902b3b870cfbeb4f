---------------------------- MODULE AddressSpace ----------------------------
(***************************************************************************)
(* What the virtual memory manager promises: every address space is a      *)
(* partial function from virtual pages to a frame and its permissions, and *)
(* one of the spaces is active.                                            *)
(***************************************************************************)
CONSTANTS Spaces, VirtualPages, Mappings, Unmapped

VARIABLES space, active

Init == space = [s \in Spaces |-> [v \in VirtualPages |-> Unmapped]] /\ active \in Spaces

Map(s, v, m) == space' = [space EXCEPT ![s][v] = m] /\ active' = active

Unmap(s, v) == space' = [space EXCEPT ![s][v] = Unmapped] /\ active' = active

Switch(s) == active' = s /\ space' = space

Next ==
  \/ \E s \in Spaces, v \in VirtualPages : (\E m \in Mappings : Map(s, v, m)) \/ Unmap(s, v)
  \/ \E s \in Spaces : Switch(s)

Spec == Init /\ [][Next]_<<space, active>>
=============================================================================
