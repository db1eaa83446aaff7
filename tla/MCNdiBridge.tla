----------------------------- MODULE MCNdiBridge -----------------------------
(***************************************************************************)
(* NdiBridge for TLC: a stream with both kinds of frame, an empty frame    *)
(* and a repeated header, which turns into junk.                           *)
(***************************************************************************)
EXTENDS NdiBridge

MCTags == <<"00VD", "TTTS", "00AU", "00VD", "00VD", "junk">>
=============================================================================
