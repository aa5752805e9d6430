------------------------------ MODULE MaskedPtrs -----------------------------
(***************************************************************************)
(* Masked pointer vectors and the struct gather/scatter macros of          *)
(* include/sg_util.h.                                                      *)
(*                                                                         *)
(* A masked pointer is a 64-bit integer; read as signed it is a usable     *)
(* address when positive, and invalid when zero (NULL) or negative (bit 63 *)
(* set).  An array field in memory is a function on element numbers; the   *)
(* element k of an array at base lives at address base + k (the size of    *)
(* the struct and the offset of the field scale both sides alike).         *)
(***************************************************************************)
EXTENDS Lanes

\* mpv | MASK_TO_VEC(lanes): those lanes become -1.
Invalidate(mpv, lanes) ==
  LET ones == MaskToVec(DOMAIN mpv, lanes)
  IN  [l \in DOMAIN mpv |-> IF ones[l] = -1 THEN -1 ELSE mpv[l]]

\* mpv & MASK_TO_VEC(lanes): the other lanes become NULL.
Retain(mpv, lanes) ==
  LET ones == MaskToVec(DOMAIN mpv, lanes)
  IN  [l \in DOMAIN mpv |-> IF ones[l] = 0 THEN 0 ELSE mpv[l]]

\* A lane mpv_8_fixup_mask() leaves valid: a positive pointer.
ValidPtr(p) == p > 0

\* GATHER_u32_8_FROM_STRUCTS: valid lanes load, the others are zero.
Gather(mem, base, mpv) ==
  [l \in DOMAIN mpv |-> IF ValidPtr(mpv[l]) THEN mem[mpv[l] - base] ELSE 0]

\* SCATTER_u32_8_TO_STRUCTS: valid lanes store, from the lowest lane to the
\* highest, so that the highest of several lanes with one address wins.
Scatter(mem, base, mpv, v) ==
  [k \in DOMAIN mem |->
     LET writers == {l \in DOMAIN mpv : ValidPtr(mpv[l]) /\ mpv[l] = base + k}
     IN  IF writers = {} THEN mem[k]
         ELSE v[CHOOSE l \in writers : \A x \in writers : x <= l]]
==============================================================================
