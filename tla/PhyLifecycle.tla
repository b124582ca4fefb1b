--------------------------- MODULE PhyLifecycle ----------------------------
(***************************************************************************)
(* Cell acquisition composed with the MBSFN configuration of class Phy.   *)
(* Acquisition is taken at the level of its abstract specification        *)
(* (CellAcquisitionSpec, which CellAcquisition is checked to implement);  *)
(* the configuration setters and the scheduling engine are those of       *)
(* PhyScheduling.  The receive loop (spec 4.1, not in src/) runs the      *)
(* acquisition, walks the TTIs while processing, and delivers SIB13 and   *)
(* MCCH messages decoded from the current cell.                            *)
(*                                                                         *)
(* cell_search writes _cell and nothing else of the configuration: the    *)
(* SIB13, MCCH table, MCCH message and the two configured flags survive   *)
(* a re-acquisition unless the caller calls Phy::reset.  Whether the loop *)
(* does so on losing sync is the constant ResetOnSearch.                   *)
(*                                                                         *)
(* Epochs make "received from the current cell" observable: cell_epoch    *)
(* counts acquisitions, sib13_epoch and mcch_epoch record the epoch in    *)
(* which the configuration in use was received.                           *)
(***************************************************************************)
EXTENDS Integers

CONSTANTS
  MaxSfn, Cells, Sib13s, McchMsgs, PrbOverrides,  \* as in PhyScheduling
  ResetOnSearch,    \* the loop calls Phy::reset when it goes back to search
  SfnOffsets,       \* sfn_offset values srsran_ue_mib_decode reports
  MaxAcquisitions   \* bound on successful searches

VARIABLES
  main,             \* receive loop: "searching", "syncing", "processing"
  cell, sib13, mcch_table, mcch_configured, mcch, mch_configured,
  decode_mcch, tti, \* the Phy members, as in PhyScheduling
  cell_epoch,       \* number of successful searches so far
  sib13_epoch,      \* cell_epoch when the SIB13 in use was received
  mcch_epoch        \* cell_epoch when the MCCH message in use was received

schedVars == <<cell, sib13, mcch_table, mcch_configured, mcch, mch_configured,
               decode_mcch, tti>>
epochVars == <<cell_epoch, sib13_epoch, mcch_epoch>>
vars == <<main, schedVars, epochVars>>

Sched == INSTANCE PhyScheduling

\* _cell = {} before the first search.
NoCell == [dedicated |-> FALSE, nof_prb |-> 0, mbsfn_prb |-> 0]

\* What a successful cell_search leaves in _cell (lines 165-166).
AcqCells ==
  {[dedicated |-> c.dedicated, nof_prb |-> c.nof_prb, mbsfn_prb |-> c.nof_prb] : c \in Cells}

Acq == INSTANCE CellAcquisitionSpec WITH state <- main, AcquirableCells <- AcqCells

\* Fault: the decoded SFN plus offset is not reduced modulo kMaxSfn.
SyncTtiNoWrap(dedicated, sfn, off) ==
  (sfn + off * (IF dedicated THEN 4 ELSE 1)) * Sched!SubframesPerFrame

\* The TTI synchronize_subframe sets (lines 74-83): the SFN from the MIB
\* plus the decode offset, times kSfnOffset in a dedicated cell, modulo
\* kMaxSfn, times kSubframesPerFrame.
SyncTti(dedicated, sfn, off) ==
  ((sfn + off * (IF dedicated THEN 4 ELSE 1)) % MaxSfn) * Sched!SubframesPerFrame

Init ==
  /\ main = "searching"
  /\ cell = NoCell
  /\ sib13 = Sched!ZeroSib13
  /\ mcch_table = {}
  /\ mcch_configured = FALSE
  /\ mcch = <<>>
  /\ mch_configured = FALSE
  /\ decode_mcch = FALSE
  /\ tti = 0
  /\ cell_epoch = 0
  /\ sib13_epoch = 0
  /\ mcch_epoch = 0

\* cell_search: a failed search changes nothing; a successful one
\* replaces _cell and leaves the rest of the configuration as it was.
Search ==
  \/ Acq!SearchFails /\ UNCHANGED <<schedVars, epochVars>>
  \/ /\ cell_epoch < MaxAcquisitions
     /\ \E c \in AcqCells : Acq!SearchSucceeds(c)
     /\ cell_epoch' = cell_epoch + 1
     /\ UNCHANGED <<sib13, mcch_table, mcch_configured, mcch, mch_configured,
                    decode_mcch, tti, sib13_epoch, mcch_epoch>>

\* synchronize_subframe until it reaches a frame start with a MIB.
Synchronise ==
  /\ Acq!Synchronise
  /\ IF main' = "processing"
       THEN \E sfn \in 0..(MaxSfn - 1), off \in SfnOffsets :
              tti' = SyncTti(cell.dedicated, sfn, off)
       ELSE UNCHANGED tti
  /\ UNCHANGED <<cell, sib13, mcch_table, mcch_configured, mcch, mch_configured,
                 decode_mcch, epochVars>>

\* get_next_frame fails; the loop goes back to search, calling
\* Phy::reset first if ResetOnSearch.
LoseSync ==
  /\ Acq!LoseSync
  /\ IF ResetOnSearch THEN Sched!Reset ELSE UNCHANGED schedVars
  /\ UNCHANGED epochVars

\* A SIB13 decoded from the current cell is handed to
\* set_mch_scheduling_info; it is taken when it has an area info.
ReceiveSib13(s) ==
  /\ main = "processing"
  /\ Sched!SetMchSchedulingInfo(s)
  /\ sib13_epoch' = IF s.nof_mbsfn_area_info > 0 THEN cell_epoch ELSE sib13_epoch
  /\ UNCHANGED <<main, cell_epoch, mcch_epoch>>

\* An MCCH message decoded from the current cell: set_mbsfn_config.
ReceiveMcch(m) ==
  /\ main = "processing"
  /\ Sched!SetMbsfnConfig(m)
  /\ mcch_epoch' = cell_epoch
  /\ UNCHANGED <<main, cell_epoch, sib13_epoch>>

\* The setters the application calls once a cell is tracked.
Control ==
  /\ cell_epoch > 0
  /\ \/ Sched!Reset
     \/ \E d \in BOOLEAN : Sched!SetDecodeMcch(d)
     \/ \E prb \in PrbOverrides : Sched!SetNofMbsfnPrb(prb)
  /\ UNCHANGED <<main, epochVars>>

\* The loop fetches the next subframe while processing.
Subframe ==
  /\ main = "processing"
  /\ Sched!NextSubframe
  /\ UNCHANGED <<main, epochVars>>

Next ==
  \/ Search
  \/ Synchronise
  \/ LoseSync
  \/ \E s \in Sib13s : ReceiveSib13(s)
  \/ \E m \in McchMsgs : ReceiveMcch(m)
  \/ Control
  \/ Subframe

Spec == Init /\ [][Next]_vars

-----------------------------------------------------------------------------
(* Properties.                                                             *)

TypeOK ==
  /\ main \in {"searching", "syncing", "processing"}
  /\ cell \in AcqCells \cup {NoCell}
       \cup {[c EXCEPT !.mbsfn_prb = p] : c \in AcqCells, p \in 0..110}
  /\ tti \in 0..(Sched!NumTtis - 1)
  /\ {cell_epoch, sib13_epoch, mcch_epoch} \subseteq 0..MaxAcquisitions
  /\ sib13_epoch <= cell_epoch /\ mcch_epoch <= cell_epoch

\* Spec 4.1 (no state is preserved across the fall-back to acquisition):
\* every subframe the engine enables while processing is scheduled from a
\* SIB13 received from the current cell, and an MCH subframe also from an
\* MCCH message received from it.  cell_search itself clears nothing, so
\* this rests on Phy::reset being called between losing sync and the next
\* successful search.
ScheduleFromCurrentCell ==
  (main = "processing" /\ Sched!Decision.enable)
    => /\ sib13_epoch = cell_epoch
       /\ ~Sched!Decision.is_mcch => mcch_epoch = cell_epoch

\* Spec 3: once set, the multicast PRB count does not exceed the cell's.
MbsfnPrbWithinCell == cell.mbsfn_prb <= cell.nof_prb

=============================================================================
