--------------------------- MODULE MCUpstreamCache ---------------------------
(* UpstreamCache on small instances.                                       *)
EXTENDS UpstreamCache
=============================================================================
