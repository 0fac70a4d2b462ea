------------------------------- MODULE MCSlab -------------------------------
(***************************************************************************)
(* A zone of a few pages with one slot of each kind.                       *)
(***************************************************************************)
EXTENDS Slab, TLC

CONSTANTS small, exact, big

MCKind   == small :> "small" @@ exact :> "exact" @@ big :> "big"
MCChunks == small :> 3 @@ exact :> 3 @@ big :> 2
MCBitmap == small :> 1 @@ exact :> 0 @@ big :> 0

=============================================================================
