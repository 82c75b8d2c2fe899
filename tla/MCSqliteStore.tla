--------------------------- MODULE MCSqliteStore ----------------------------
(***************************************************************************)
(* Instances of SqliteStore for TLC.                                       *)
(***************************************************************************)
EXTENDS SqliteStore, MCChunks, TLC

\* Two chunks of one source in one batch, a replacement of the second of them,
\* a delete that empties the source, and a search.
TornRequests ==
  {Put(1, <<Chunk(NoExt, 1, "a"), Chunk(1, 1, "b")>>),
   Put(1, <<Chunk(1, 1, "c")>>),
   DeleteSource(1, 1),
   Search(1, 2, {}, {1})}

Symmetry == Permutations(Calls)
=============================================================================
