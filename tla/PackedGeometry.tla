--------------------------- MODULE PackedGeometry ---------------------------
(***************************************************************************)
(* How many bits an index takes and how many bytes the store reserves for  *)
(* a token: core/quantizer.py, core/triton_kernels.py, runtime/kv_store.py.*)
(***************************************************************************)
EXTENDS Integers

\* _get_packing_params(), which is to match _pack_indices(): an index of three
\* bits takes four, one of more than four a byte.
EffBits(bits) == IF bits \in 3 .. 4 THEN 4 ELSE IF bits > 4 THEN 8 ELSE bits
ValsPerByte(bits) == 8 \div EffBits(bits)

(* Mutant of PackedDMse: three bits are taken to be packed tightly. *)
PackedDMseTight(dim, bits) == (dim * bits) \div 8

(* Mutant of PackedDSigns: a byte more, for a dimension that is not whole. *)
PackedDSignsPadded(dim) == dim \div 8 + 1

\* The bytes of a key's indices and of its signs, and the groups of a value.
PackedDMse(dim, bits) ==
    IF bits = 1 THEN dim \div 8 ELSE IF bits = 2 THEN dim \div 4 ELSE dim \div 2
PackedDSigns(dim) == dim \div 8
NGroups(dim, group) == dim \div group

=============================================================================
