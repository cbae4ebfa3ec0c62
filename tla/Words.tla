------------------------------- MODULE Words -------------------------------
(***************************************************************************)
(* The width of the kernel's u32 arithmetic.  Descriptor numbers and       *)
(* addresses in linear memory are both u32 in the code.                    *)
(***************************************************************************)

CONSTANT U32    \* number of u32 values: u32 arithmetic is modulo U32
============================================================================
