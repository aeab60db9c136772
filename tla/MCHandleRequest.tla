-------------------------- MODULE MCHandleRequest --------------------------
(* Small instances of HandleRequest: a response limit that is no multiple of *)
(* the chunk, guests that write whole and short chunks.                      *)
EXTENDS HandleRequest

\* Lengths of one write: a short one and the two lengths around a chunk.
MCPieces == {1, 2, 3}
=============================================================================
