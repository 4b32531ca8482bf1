--------------------------- MODULE MCChunkedRead ---------------------------
(* Frame lengths for TLC: every legal one, and those around the boundaries  *)
(* of the first, second and last chunks.                                    *)
EXTENDS ChunkedRead

AllLens == 0 .. OprLenMax
EdgeLens ==
  {0, 1, 505, 506, 507, 1017, 1018, 1019, 1020, 1529, 1530, 2041, 2042, 2043,
   4089, 4090}
=============================================================================
