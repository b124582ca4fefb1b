-------------------------- MODULE CellAcquisition --------------------------
(***************************************************************************)
(* Cell acquisition and synchronisation of class Phy (Phy::cell_search,   *)
(* Phy::synchronize_subframe, src/Phy.cpp), with the receive loop that    *)
(* calls them (spec 4.1; the loop itself is not in src/) and the REST     *)
(* status handler (RestHandler::get, src/RestHandler.cpp), which reads    *)
(* _phy.cell() from an HTTP listener thread without any lock.             *)
(*                                                                         *)
(* The srsRAN PHY engine is the environment: the PSS/SSS scan, the MIB    *)
(* decoders and the set-cell calls return any of the results they can     *)
(* return.  A MIB decode of the mode the transmitter uses returns 1 (MIB  *)
(* found), 0 (not found) or -1 (error); a decode of the other mode never  *)
(* finds a MIB.                                                            *)
(*                                                                         *)
(* cell_search writes _cell only from line 165 on; the steps before are   *)
(* on the local new_cell and form one action per path.  Lines 165, 166    *)
(* and 168-177 are separate steps, because the REST thread can read _cell *)
(* between them.                                                           *)
(***************************************************************************)
EXTENDS Integers

CONSTANTS
  Transmitters,    \* cells on the air: [id, dedicated, nof_prb]
  Sfns,            \* SFNs a MIB decode can yield
  SetCellCanFail,  \* whether srsran_ue_sync_set_cell / srsran_ue_mib_set_cell can fail
  NoResult         \* a MIB decode not made; no status reply yet

\* The zero-initialised member _cell = {} (Phy.h line 225).
NoCell == [id |-> 0, dedicated |-> FALSE, nof_prb |-> 0, mbsfn_prb |-> 0]

\* srsran_nofprb_isvalid: the PRB counts srsran_cell_isvalid accepts.
ValidPrb == 6..110

VARIABLES
  main,          \* state of the receive loop: "searching", "syncing", "processing"
  phy_pc,        \* where cell_search is after line 164: "idle", "assigned", "prb_set"
  cell,          \* _cell
  sync_cell,     \* the cell _ue_sync and _mib are set to (NoCell after init())
  tti,           \* _tti
  last_search,   \* how the last search went: [fell_back, ded_result]
  rest,          \* the REST status handler: [pc, a, b, after_acq]
  reply,         \* the PRB count in the last status reply, or NoResult
  prev_cell,     \* _cell when the running cell_search started writing it
  acquired_once  \* some cell_search has returned true

vars == <<main, phy_pc, cell, sync_cell, tti, last_search, rest, reply,
          prev_cell, acquired_once>>

phyVars  == <<main, phy_pc, cell, sync_cell, tti, last_search, prev_cell, acquired_once>>
restVars == <<rest, reply>>

\* The cell the decoding of transmitter t's MIB in the given mode yields:
\* srsran_pbch_mib_(mbms_)unpack sets the PRB count; mbsfn_prb keeps the
\* zero of new_cell = {}.
NewCell(t, dedicated) ==
  [id |-> t.id, dedicated |-> dedicated, nof_prb |-> t.nof_prb, mbsfn_prb |-> 0]

\* Results srsran_ue_mib_sync_decode_prb can return for transmitter t when
\* the cell is assumed dedicated (mode = TRUE) or mixed.
MibResults(mode, t) == IF mode = t.dedicated THEN {1, 0, -1} ELSE {0, -1}

SearchGuard == main = "searching" /\ phy_pc = "idle"

-----------------------------------------------------------------------------
Init ==
  /\ main = "searching"
  /\ phy_pc = "idle"
  /\ cell = NoCell
  /\ sync_cell = NoCell
  /\ tti = 0
  /\ last_search = [fell_back |-> FALSE, ded_result |-> NoResult]
  /\ rest = [pc |-> "idle", a |-> 0, b |-> 0, after_acq |-> FALSE]
  /\ reply = NoResult
  /\ prev_cell = NoCell
  /\ acquired_once = FALSE

\* Lines 141-165 once a MIB was decoded in the given mode: a cell that
\* fails srsran_cell_isvalid is dropped ("Detected invalid cell"), a valid
\* one is written to _cell.
StoreCell(t, dedicated) ==
  \/ UNCHANGED <<phy_pc, cell, prev_cell>>
  \/ /\ NewCell(t, dedicated).nof_prb \in ValidPrb
     /\ cell' = NewCell(t, dedicated)
     /\ prev_cell' = cell
     /\ phy_pc' = "assigned"

\* cell_search returns false before any MIB decode: the PSS/SSS scan
\* failed or found no cell (lines 95-103), or setting up the MIB-MBMS
\* decoder failed (lines 123-126).
SearchFindsNoCell ==
  /\ SearchGuard
  /\ last_search' = [fell_back |-> FALSE, ded_result |-> NoResult]
  /\ UNCHANGED <<main, phy_pc, cell, sync_cell, tti, prev_cell, acquired_once>>
  /\ UNCHANGED restVars

\* The MIB-MBMS decode of line 128 returns 1 or -1.  On 1 the cell is
\* dedicated; on -1 "if (!ret)" is false, so the mixed decode is never
\* tried and the search ends with "failed to receive MIB".
SearchDedicatedMib(t) ==
  /\ SearchGuard
  /\ \E dres \in MibResults(TRUE, t) \ {0} :
       /\ last_search' = [fell_back |-> FALSE, ded_result |-> dres]
       /\ IF dres = 1 THEN StoreCell(t, TRUE)
                      ELSE UNCHANGED <<phy_pc, cell, prev_cell>>
  /\ UNCHANGED <<main, sync_cell, tti, acquired_once>>
  /\ UNCHANGED restVars

\* Phy::init, as cell_search calls it at line 131: the cell search,
\* ue_sync, ue_mib_sync and ue_mib objects are created afresh, so _ue_sync
\* and _mib are set to no cell.  A failing init step is only logged
\* (lines 193-219), and line 131 ignores the result.
ReInit == sync_cell' = NoCell

\* The MIB-MBMS decode returns 0: init() re-creates the cell search,
\* ue_sync, ue_mib_sync and ue_mib objects (so _ue_sync is no longer set
\* to any cell; the result of init() is ignored), and the regular MIB is
\* tried (lines 130-139).  Setting up its decoder can fail (line 133).
SearchMixedMib(t) ==
  /\ SearchGuard
  /\ last_search' = [fell_back |-> TRUE, ded_result |-> 0]
  /\ ReInit
  /\ \/ UNCHANGED <<phy_pc, cell, prev_cell>>
     \/ /\ 1 \in MibResults(FALSE, t)
        /\ StoreCell(t, FALSE)
  /\ UNCHANGED <<main, tti, acquired_once>>
  /\ UNCHANGED restVars

\* Fault: line 166 missing, mbsfn_prb keeps the zero of new_cell.
SearchSetMbsfnPrbMissing ==
  /\ phy_pc = "assigned"
  /\ phy_pc' = "prb_set"
  /\ UNCHANGED <<cell, main, sync_cell, tti, last_search, prev_cell, acquired_once>>
  /\ UNCHANGED restVars

\* Line 166: the MBSFN PRB count starts as the cell's.
SearchSetMbsfnPrb ==
  /\ phy_pc = "assigned"
  /\ cell' = [cell EXCEPT !.mbsfn_prb = cell.nof_prb]
  /\ phy_pc' = "prb_set"
  /\ UNCHANGED <<main, sync_cell, tti, last_search, prev_cell, acquired_once>>
  /\ UNCHANGED restVars

\* Lines 168-177: _ue_sync and then _mib are set to the new cell.  If
\* either fails, cell_search returns false with _cell already replaced.
SearchSetCell ==
  /\ phy_pc = "prb_set"
  /\ phy_pc' = "idle"
  /\ \/ /\ sync_cell' = cell
        /\ main' = "syncing"
        /\ acquired_once' = TRUE
     \/ /\ SetCellCanFail
        /\ sync_cell' \in {sync_cell, cell}
        /\ UNCHANGED <<main, acquired_once>>
  /\ UNCHANGED <<cell, tti, last_search, prev_cell>>
  /\ UNCHANGED restVars

\* Fault: the TTI is set to the SFN, not to sfn * kSubframesPerFrame.
SynchronizeSubframeUnscaled ==
  /\ main = "syncing" /\ phy_pc = "idle"
  /\ \/ \E sfn \in Sfns :
          /\ tti' = sfn
          /\ main' = "processing"
     \/ /\ main' \in {"syncing", "searching"}
        /\ UNCHANGED tti
  /\ UNCHANGED <<phy_pc, cell, sync_cell, last_search, prev_cell, acquired_once>>
  /\ UNCHANGED restVars

\* Phy::synchronize_subframe, called by the loop until it returns true.
\* It returns true only on subframe 0 with a decoded MIB; the TTI is then
\* that of the decoded SFN.  Re-unpacking the MIB of the same transmitter
\* into _cell writes the values it already holds.  On false the loop
\* either tries again or goes back to search (the loop is not in src/).
SynchronizeSubframe ==
  /\ main = "syncing" /\ phy_pc = "idle"
  /\ \/ \E sfn \in Sfns :
          /\ tti' = sfn * 10
          /\ main' = "processing"
     \/ /\ main' \in {"syncing", "searching"}
        /\ UNCHANGED tti
  /\ UNCHANGED <<phy_pc, cell, sync_cell, last_search, prev_cell, acquired_once>>
  /\ UNCHANGED restVars

\* Phy::get_next_frame fails: sync is lost and the loop searches again.
LoseSync ==
  /\ main = "processing"
  /\ main' = "searching"
  /\ UNCHANGED <<phy_pc, cell, sync_cell, tti, last_search, prev_cell, acquired_once>>
  /\ UNCHANGED restVars

-----------------------------------------------------------------------------
(* RestHandler::get for "status", lines 104-108: three separate copies of *)
(* _phy.cell(), each modelled as an atomic read of _cell (a torn copy of  *)
(* the racing struct would only add outcomes).                            *)

RestStatusReadNofPrb ==
  /\ rest.pc = "idle"
  /\ rest' = [pc |-> "cmp", a |-> cell.nof_prb, b |-> 0, after_acq |-> acquired_once]
  /\ UNCHANGED reply
  /\ UNCHANGED phyVars

RestStatusReadMbsfnPrb ==
  /\ rest.pc = "cmp"
  /\ rest' = [rest EXCEPT !.pc = "reply", !.b = cell.mbsfn_prb]
  /\ UNCHANGED reply
  /\ UNCHANGED phyVars

RestStatusReply ==
  /\ rest.pc = "reply"
  /\ reply' = [prb |-> IF rest.a = rest.b THEN cell.nof_prb ELSE cell.mbsfn_prb,
               after_acq |-> rest.after_acq]
  /\ rest' = [rest EXCEPT !.pc = "idle"]
  /\ UNCHANGED phyVars

Next ==
  \/ SearchFindsNoCell
  \/ \E t \in Transmitters : SearchDedicatedMib(t)
  \/ \E t \in Transmitters : SearchMixedMib(t)
  \/ SearchSetMbsfnPrb
  \/ SearchSetCell
  \/ SynchronizeSubframe
  \/ LoseSync
  \/ RestStatusReadNofPrb
  \/ RestStatusReadMbsfnPrb
  \/ RestStatusReply

Spec == Init /\ [][Next]_vars

-----------------------------------------------------------------------------
(* Properties.                                                             *)

CellType == [id : Nat, dedicated : BOOLEAN, nof_prb : 0..110, mbsfn_prb : 0..110]

TypeOK ==
  /\ main \in {"searching", "syncing", "processing"}
  /\ phy_pc \in {"idle", "assigned", "prb_set"}
  /\ cell \in CellType /\ prev_cell \in CellType
  /\ sync_cell \in CellType
  /\ tti \in {s * 10 : s \in Sfns} \cup {0}
  /\ last_search \in [fell_back : BOOLEAN, ded_result : {1, 0, -1, NoResult}]
  /\ rest \in [pc : {"idle", "cmp", "reply"}, a : 0..110, b : 0..110, after_acq : BOOLEAN]
  /\ reply \in [prb : 0..110, after_acq : BOOLEAN] \cup {NoResult}
  /\ acquired_once \in BOOLEAN

\* Cell acquisition implements its specification: seen from outside, a
\* search either leaves the tracked cell alone or replaces it by a valid
\* cell of the transmitter's own mode with mbsfn_prb = nof_prb.  The
\* tracked cell is _cell once cell_search has finished with it, and the
\* cell it replaces while lines 165-177 run.
AcquirableCells ==
  {[id |-> t.id, dedicated |-> t.dedicated, nof_prb |-> t.nof_prb,
    mbsfn_prb |-> t.nof_prb] : t \in {u \in Transmitters : u.nof_prb \in ValidPrb}}

TrackedCell == IF phy_pc = "idle" THEN cell ELSE prev_cell

Abstract == INSTANCE CellAcquisitionSpec WITH state <- main, cell <- TrackedCell

AcquisitionRefinesSpec == Abstract!Spec

\* Spec 4.1: if the MIB-MBMS attempt fails, the search retries assuming a
\* mixed cell.  A search that got a result other than 1 from the MIB-MBMS
\* decoder went on to the fallback.
DedicatedFailureFallsBack ==
  last_search.ded_result \in {0, -1} => last_search.fell_back

\* A status request made after a cell was acquired reports the PRB count
\* of a valid cell (the REST handler reads _cell while cell_search may be
\* between writing it at line 165 and fixing mbsfn_prb at line 166).
StatusReportsValidPrb ==
  (reply # NoResult /\ reply.after_acq) => reply.prb \in ValidPrb

=============================================================================
