----------------------------- MODULE MCHlsRelay -----------------------------
(* Playlists of two segments, a cache of two entries, as in the shipped    *)
(* configurations as many as a playlist lists, and a channel and a memory  *)
(* of URLs that overflow.                                                  *)
EXTENDS HlsRelay

CONSTANTS v1, v2

TwoViewers == {v1, v2}
ViewerSymmetry == Permutations(TwoViewers)
=============================================================================
