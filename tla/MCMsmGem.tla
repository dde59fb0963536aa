-------------------------------- MODULE MCMsmGem --------------------------------
(* Small instances of MsmGem.                                              *)
EXTENDS MsmGem

(* This tablet: no IOMMU, all objects in the carve-out.                    *)
Carveout(swap) == [mmu |-> FALSE, vram |-> TRUE, swap |-> swap, sgt_fails |-> TRUE]

(* A device with an IOMMU, with or without a carve-out beside it.          *)
Iommu(vram, swap) == [mmu |-> TRUE, vram |-> vram, swap |-> swap, sgt_fails |-> FALSE]

MCDevices   == {Carveout(FALSE), Iommu(FALSE, TRUE), Iommu(TRUE, FALSE)}
MCSwapping  == {Carveout(TRUE)}
==============================================================================
