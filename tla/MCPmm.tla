-------------------------------- MODULE MCPmm -------------------------------
(* Pmm for TLC: an address space of a few small pages and memory maps with a
   hole, overlapping descriptors, memory past the last page of the bitmap and
   a boot_info that straddles two pages. *)
EXTENDS Pmm

Desc(type, phys, n) == [Type |-> type, PhysicalStart |-> phys, NumberOfPages |-> n]

Boot(m, kernel, self, mm, size) ==
    [map |-> m, kernel_physical_base |-> kernel, self |-> self,
     memory_map |-> mm, memory_map_size |-> size]

MCBootInfos ==
    {Boot(<<Desc(7, 0, 8)>>, 4, 10, 9, 1),
     Boot(<<Desc(3, 0, 3), Desc(0, 12, 2), Desc(7, 20, 6)>>, 4, 8, 10, 2),
     Boot(<<Desc(7, 8, 4), Desc(2, 12, 4), Desc(11, 24, 1)>>, 4, 2, 9, 2),
     Boot(<<Desc(11, 0, 2)>>, 0, 4, 4, 1)}
=============================================================================
