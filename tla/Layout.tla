------------------------------- MODULE Layout -------------------------------
(***************************************************************************)
(* How an arena of the persistent memory file is divided: metadataSize and *)
(* layout of src/src/runtime/pmemMeta.go, and the sizes that sysAlloc      *)
(* (src/src/runtime/malloc.go) and grow (src/src/runtime/mheap.go) compute *)
(* from it.  All quantities are bytes; addresses are offsets from the      *)
(* start of the arena, which is aligned to heapArenaBytes.                 *)
(*                                                                         *)
(* An arena holds, in this order: the file header (first arena only), the  *)
(* arena header, one byte of heap type bits for every 32 bytes of data, 4  *)
(* bytes of span table for every page of data, padding, and the data.      *)
(***************************************************************************)
EXTENDS Integers

CONSTANTS HeapArenaBytes,    \* heapArenaBytes: arena sizes are its multiples
          PallocChunkBytes,  \* pallocChunkBytes: the heap grows in chunks
          PmemHeaderSize,    \* unsafe.Sizeof(pHeader{})
          PArenaHeaderSize   \* unsafe.Sizeof(pArena{})

PageSize           == 8192
BytesPerBitmapByte == 32
SpanBytesPerPage   == 4

ASSUME HeaderAssumption == PmemHeaderSize \in Nat /\ PArenaHeaderSize \in Nat
ASSUME ChunkAssumption == /\ PallocChunkBytes \in Nat \ {0}
                          /\ PallocChunkBytes % PageSize = 0
ASSUME ArenaAssumption == /\ HeapArenaBytes \in Nat
                          /\ \E k \in 1..HeapArenaBytes : HeapArenaBytes = k * PallocChunkBytes

AlignUp(n, a) == ((n + a - 1) \div a) * a

\* The file header takes space in the first arena only.
HeaderOffset(fileOffset) == IF fileOffset = 0 THEN PmemHeaderSize ELSE 0

MetadataSize(size) == PArenaHeaderSize + size \div BytesPerBitmapByte
                                       + (size \div PageSize) * SpanBytesPerPage

\* What sysAlloc asks the system for when the heap needs ask bytes of data.  (With
\* no hint left, sysReserveAligned may by chance return HeapArenaBytes more.)
ArenaSize(ask, fileOffset) ==
  AlignUp(ask + AlignUp(MetadataSize(ask) + HeaderOffset(fileOffset), PageSize), HeapArenaBytes)

\* Variant: layout forgets the file header of the first arena.
NoHeader(size, fileOffset) ==
  (2048 * (size - PArenaHeaderSize)) \div (64 + 1 + 2048)

\* The most data that fits beside its own metadata, before rounding: with
\* ps = PageSize \div SpanBytesPerPage = 2048, the solution Y of
\* Y + MetadataSize(Y) = size - offset.
MaxData(size, fileOffset) ==
  (2048 * (size - HeaderOffset(fileOffset) - PArenaHeaderSize)) \div (64 + 1 + 2048)

\* layout's two results.
MData(size, fileOffset) == AlignUp(size - MaxData(size, fileOffset), PageSize)
Usable(size, fileOffset) == size - MData(size, fileOffset)

------------------------------------------------------------------------------
\* The metadata of the data that layout hands out fits in front of it: the
\* header, the type bits and the span table of an arena never reach into the
\* pages that the allocator uses.
MetadataFits(size, fileOffset) ==
  HeaderOffset(fileOffset) + MetadataSize(Usable(size, fileOffset)) <= MData(size, fileOffset)

\* An arena that sysAlloc sizes for ask bytes has room for ask bytes of data,
\* so grow cannot come back without the pages it was called for ("grew heap,
\* but no adequate free space found").
RoomForAsk(ask, fileOffset) ==
  Usable(ArenaSize(ask, fileOffset), fileOffset) >= ask

\* The first chunk range that grow takes from a new arena, nBase, ends inside
\* the arena.
ChunksFit(ask, fileOffset) ==
  AlignUp(ask + MData(ArenaSize(ask, fileOffset), fileOffset), PallocChunkBytes)
    <= ArenaSize(ask, fileOffset)
==============================================================================
