------------------------ MODULE CellAcquisitionSpec ------------------------
(***************************************************************************)
(* What cell acquisition promises (spec sections 3 and 4.1): a search is  *)
(* atomic to everyone else.  It either fails and leaves the tracked cell  *)
(* as it was, or it replaces the cell wholesale by a valid cell of the    *)
(* mode the transmitter uses, with the MBSFN PRB count equal to the cell  *)
(* PRB count.  After acquisition the receiver synchronises to a frame     *)
(* start and then processes subframes until it loses sync, which sends it *)
(* back to search.  There is no automatic retry.                          *)
(***************************************************************************)
CONSTANTS
  AcquirableCells,  \* the cells a successful search can produce
  NoCell            \* the zero-initialised cell held before any search

VARIABLES
  state,  \* "searching", "syncing" or "processing"
  cell    \* the cell the receiver tracks

Init ==
  /\ state = "searching"
  /\ cell = NoCell

SearchFails ==
  /\ state = "searching"
  /\ UNCHANGED <<state, cell>>

SearchSucceeds(c) ==
  /\ state = "searching"
  /\ state' = "syncing"
  /\ cell' = c

\* A synchronisation attempt either reaches a frame start or gives up.
Synchronise ==
  /\ state = "syncing"
  /\ state' \in {"processing", "syncing", "searching"}
  /\ UNCHANGED cell

LoseSync ==
  /\ state = "processing"
  /\ state' = "searching"
  /\ UNCHANGED cell

Next ==
  \/ SearchFails
  \/ \E c \in AcquirableCells : SearchSucceeds(c)
  \/ Synchronise
  \/ LoseSync

Spec == Init /\ [][Next]_<<state, cell>>

=============================================================================
