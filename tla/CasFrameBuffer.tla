--------------------------- MODULE CasFrameBuffer ---------------------------
(***************************************************************************)
(* The sample-buffer hand-off of class CasFrameProcessor                  *)
(* (src/CasFrameProcessor.h): rx_buffer() locks the processor's mutex and *)
(* returns the signal buffer (line 83), unlock() releases it (line 95).    *)
(*                                                                         *)
(* The callers are not in src/; they follow spec 5: the receive loop      *)
(* requests the buffer, has the PHY fill it with the next subframe        *)
(* (Phy::get_next_frame), and hands the subframe to a worker of the       *)
(* thread pool, which processes it and then releases the buffer.  When    *)
(* get_next_frame fails the loop releases the buffer itself and goes back *)
(* to acquisition; once the PHY has a cell again the loop passes it to    *)
(* set_cell (line 78), which takes no lock.  init (line 63) is called     *)
(* once, before anything else.  Subframes are numbered modulo             *)
(* NumSubframes.                                                           *)
(***************************************************************************)
EXTENDS Integers

CONSTANTS
  Workers,       \* threads of the processing pool
  NumSubframes,  \* subframe numbers are counted modulo this
  Cells,         \* cells the PHY can acquire
  NoCell,        \* _cell before the first set_cell
  NoJob          \* a worker without a subframe to process

VARIABLES
  locked,      \* _mutex is held
  loop_pc,     \* receive loop: "init", "search", "setcell", "request",
               \* "fill", "dispatch"
  phy_cell,    \* the cell the PHY is synchronised to (Phy::_cell)
  proc_cell,   \* the processor's _cell
  buffer,      \* what _signal_buffer_rx holds: [sf, cell] of a subframe
  next_sf,     \* the subframe the PHY delivers next
  job,         \* the subframe each worker was handed
  mismatches,  \* workers that processed samples of another subframe
  wrong_cell   \* workers that decoded a subframe with another cell's parameters

vars == <<locked, loop_pc, phy_cell, proc_cell, buffer, next_sf, job, mismatches,
          wrong_cell>>
history == <<mismatches, wrong_cell>>

Init ==
  /\ locked = FALSE
  /\ loop_pc = "init"
  /\ phy_cell = NoCell
  /\ proc_cell = NoCell
  /\ buffer = [sf |-> 0, cell |-> NoCell]
  /\ next_sf = 0
  /\ job = [w \in Workers |-> NoJob]
  /\ mismatches = {}
  /\ wrong_cell = {}

\* CasFrameProcessor::init: buffers and decoder set up, once, before the
\* first process(); the loop then searches for a cell.
ProcInit ==
  /\ loop_pc = "init"
  /\ loop_pc' = "search"
  /\ UNCHANGED <<locked, phy_cell, proc_cell, buffer, next_sf, job, history>>

\* Cell search and synchronisation (CellAcquisition) leave the PHY
\* tracking some cell, and synchronised to some subframe.
Acquire ==
  /\ loop_pc = "search"
  /\ \E c \in Cells : phy_cell' = c
  /\ \E sf \in 0..(NumSubframes - 1) : next_sf' = sf
  /\ loop_pc' = "setcell"
  /\ UNCHANGED <<locked, proc_cell, buffer, job, history>>

\* CasFrameProcessor::set_cell(phy.cell()): the decoder takes the new
\* cell's parameters; _mutex is not taken.
SetCell ==
  /\ loop_pc = "setcell"
  /\ proc_cell' = phy_cell
  /\ loop_pc' = "request"
  /\ UNCHANGED <<locked, phy_cell, buffer, next_sf, job, history>>

\* Fault: rx_buffer hands out the buffer without taking the mutex.
RxBufferNoLock ==
  /\ loop_pc = "request"
  /\ loop_pc' = "fill"
  /\ UNCHANGED <<locked, phy_cell, proc_cell, buffer, next_sf, job, history>>

\* CasFrameProcessor::rx_buffer: _mutex.lock() blocks while the buffer is
\* held; the loop then owns the buffer.
RxBuffer ==
  /\ loop_pc = "request"
  /\ ~locked
  /\ locked' = TRUE
  /\ loop_pc' = "fill"
  /\ UNCHANGED <<phy_cell, proc_cell, buffer, next_sf, job, history>>

\* CasFrameProcessor::unlock
Unlock == locked' = FALSE

\* The samples of the next subframe, received from the cell the PHY tracks.
Received(sf) == [sf |-> sf, cell |-> phy_cell]

\* Fault: the subframe number is not wrapped.
GetNextFrameNoWrap ==
  /\ loop_pc = "fill"
  /\ \/ /\ buffer' = Received(next_sf)
        /\ next_sf' = next_sf + 1
        /\ loop_pc' = "dispatch"
        /\ UNCHANGED locked
     \/ /\ Unlock
        /\ loop_pc' = "search"
        /\ UNCHANGED <<buffer, next_sf>>
  /\ UNCHANGED <<phy_cell, proc_cell, job, history>>

\* Fault: on a failed get_next_frame the loop returns to acquisition
\* without releasing the buffer.
GetNextFrameKeepsLock ==
  /\ loop_pc = "fill"
  /\ \/ /\ buffer' = Received(next_sf)
        /\ next_sf' = (next_sf + 1) % NumSubframes
        /\ loop_pc' = "dispatch"
     \/ /\ loop_pc' = "search"
        /\ UNCHANGED <<buffer, next_sf>>
  /\ UNCHANGED <<locked, phy_cell, proc_cell, job, history>>

\* Phy::get_next_frame writes the next subframe's samples into the buffer;
\* on failure the loop releases the buffer and returns to acquisition.
GetNextFrame ==
  /\ loop_pc = "fill"
  /\ \/ /\ buffer' = Received(next_sf)
        /\ next_sf' = (next_sf + 1) % NumSubframes
        /\ loop_pc' = "dispatch"
        /\ UNCHANGED locked
     \/ /\ Unlock
        /\ loop_pc' = "search"
        /\ UNCHANGED <<buffer, next_sf>>
  /\ UNCHANGED <<phy_cell, proc_cell, job, history>>

\* The loop hands the subframe to an idle worker (process(tti) is queued
\* on the pool) and asks for the next buffer.
Dispatch(w) ==
  /\ loop_pc = "dispatch"
  /\ job[w] = NoJob
  /\ job' = [job EXCEPT ![w] = buffer]
  /\ loop_pc' = "request"
  /\ UNCHANGED <<locked, phy_cell, proc_cell, buffer, next_sf, history>>

\* CasFrameProcessor::process on the worker, then unlock(): the worker
\* decodes whatever the buffer holds, with the processor's current cell.
Process(w) ==
  /\ job[w] # NoJob
  /\ mismatches' = IF buffer.sf # job[w].sf THEN mismatches \cup {w} ELSE mismatches
  /\ wrong_cell' = IF proc_cell # job[w].cell THEN wrong_cell \cup {w} ELSE wrong_cell
  /\ job' = [job EXCEPT ![w] = NoJob]
  /\ Unlock
  /\ UNCHANGED <<loop_pc, phy_cell, proc_cell, buffer, next_sf>>

Next ==
  \/ ProcInit
  \/ Acquire
  \/ SetCell
  \/ RxBuffer
  \/ GetNextFrame
  \/ \E w \in Workers : Dispatch(w) \/ Process(w)

Spec == Init /\ [][Next]_vars

-----------------------------------------------------------------------------
(* Properties.                                                             *)

Subframes == [sf : 0..(NumSubframes - 1), cell : Cells \cup {NoCell}]

TypeOK ==
  /\ locked \in BOOLEAN
  /\ loop_pc \in {"init", "search", "setcell", "request", "fill", "dispatch"}
  /\ phy_cell \in Cells \cup {NoCell} /\ proc_cell \in Cells \cup {NoCell}
  /\ buffer \in Subframes /\ next_sf \in 0..(NumSubframes - 1)
  /\ job \in [Workers -> Subframes \cup {NoJob}]
  /\ mismatches \subseteq Workers /\ wrong_cell \subseteq Workers

\* Spec 5: the buffer is held from the request for samples until the
\* subframe's processing completes, so every worker decodes the samples
\* of the subframe it was handed, although the loop already asks for the
\* next buffer while the worker runs.
ProcessesDispatchedSubframe == mismatches = {}

\* set_cell (line 78) changes the decoder's cell without taking _mutex.
\* Every subframe is still decoded with the parameters of the cell it was
\* received from: the loop only reaches set_cell after a failed
\* get_next_frame, which it called holding the buffer, so no worker is
\* still processing a subframe of the previous cell.
DecodedWithReceivingCell == wrong_cell = {}

\* The mutex is held exactly while someone owns the buffer: the loop
\* between rx_buffer() and handing the subframe on, or a worker until it
\* has processed its subframe.  A path that returns to rx_buffer() still
\* holding it deadlocks the loop on the non-recursive std::mutex, and an
\* unlock() with no owner releases a mutex that is not held.
LockHeldByOwner ==
  locked <=> (loop_pc \in {"fill", "dispatch"} \/ \E w \in Workers : job[w] # NoJob)

=============================================================================
