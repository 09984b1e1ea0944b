----------------------------- MODULE MCCachedRead -----------------------------
(* CachedRead on small files.  d1 and d2 have the same chunk shape; d3 has a *)
(* chunk that does not decompress, d4 an unreadable chunk index, and d5 a    *)
(* chunk that was never written and one larger than the cache.               *)
EXTENDS CachedRead, TLC

A == <<0>>  B == <<4>>  C == <<8>>
MCCoord == {A, B, C}
Entry(c, a) == [offsets |-> c \o <<0>>, address |-> a]
List(entries) == [chunks |-> entries, rank |-> 1]
Index1 == List(<<Entry(A, 1), Entry(B, 2), Entry(C, 3)>>)
Index2 == List(<<Entry(A, 4), Entry(B, 5)>>)
Index3 == List(<<Entry(A, 1), Entry(B, 6)>>)
Index5 == List(<<Entry(B, 7)>>)
MCListing == {Index1, Index2, Index3, Index5}
MCChunkInfo == UNION {{l.chunks[i] : i \in DOMAIN l.chunks} : l \in MCListing}
MCGrid == [d1 |-> {A, B, C}, d2 |-> {A, B}, d3 |-> {A, B}, d4 |-> {A}, d5 |-> {A, B}]
MCScan == [d1 |-> Index1, d2 |-> Index2, d3 |-> Index3, d4 |-> Damaged, d5 |-> Index5]
MCData == {"v", "w", "x", "y", "z"}
MCSize == [v |-> 4, w |-> 1, x |-> 1, y |-> 2, z |-> 1]
MCDecode == <<"w", "x", "y", "z", "x", Damaged, "v">>
===============================================================================
