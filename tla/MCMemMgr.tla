----------------------------- MODULE MCMemMgr -----------------------------
(* mem_mgr scaled down: 36 bytes with an 8-byte header, so the first      *)
(* blocks are split, the last one is taken whole, and requests of zero    *)
(* bytes, of fewer than ALIGNMENT and of a multiple of it all occur.      *)
EXTENDS MemMgr

MCSize == 36
MCHeader == 8
MCAlign == 4
MCSizes == {0, 3, 8}
=============================================================================
