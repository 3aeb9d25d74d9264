---------------------------- MODULE MCReconstruct ----------------------------
\* Two data nodes and one parity node; two requests, GETs or UPDATEs, of one object, and
\* some of its blocks lost.
EXTENDS Reconstruct

\* In units of half a RECEIVE_BUFFER_SIZE: no multiple of it, two buffers.
MCSizes == {3, 4}
=============================================================================
