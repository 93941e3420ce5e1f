-------------------------- MODULE MCAttributeDropping --------------------------
(* Three functions that call each other, a declaration, an intrinsic or a pointer. *)
EXTENDS AttributeDropping
CONSTANTS f, g, h, ext, intr
=============================================================================
