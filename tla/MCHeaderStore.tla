--------------------------- MODULE MCHeaderStore ---------------------------
(* A union of two headers and a stack of three, indexed from -1 to 3.       *)
EXTENDS HeaderStore

MCIndex == -1 .. 3
=============================================================================
