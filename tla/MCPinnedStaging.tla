---------------------------- MODULE MCPinnedStaging ---------------------------
EXTENDS PinnedStaging, TLC

CONSTANTS main, side

\* One request of both streams, one that differs, one larger than a slot.
MCRequests == (main :> {<<<<1>>>>, <<<<2>>>>}) @@ (side :> {<<<<1>>>>, <<<<3>>, <<4>>>>})

=============================================================================
