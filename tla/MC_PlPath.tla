----------------------------- MODULE MC_PlPath -----------------------------
(* Model-checking instance of PlPath.                                       *)
EXTENDS PlPath

\* A header slot: "MMM\x01", the type, the size in 8-byte slots.
H(t, s) == [magic |-> TRUE, type |-> t, size |-> s]

\* A preloader image: a type-1 header over 16 bytes (itself and one payload
\* slot), then the type-0x12 header.
WellFormed == << H(1, 2), Junk, H(18, 1) >>

\* The same chain whose first header has size 0.
ZeroSize == << H(1, 0), H(18, 1) >>

\* A chain whose last header, of size 8, ends at the end of the device and
\* has no type-0x12 header.
EndsAtEof == << H(1, 1) >>

PlImages == {WellFormed, ZeroSize, EndsAtEof}
=============================================================================
