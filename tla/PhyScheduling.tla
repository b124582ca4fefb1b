--------------------------- MODULE PhyScheduling ---------------------------
(***************************************************************************)
(* The configuration state of class Phy (src/Phy.h, src/Phy.cpp) that the *)
(* scheduling engine reads, the handlers that change it, and the receive   *)
(* loop that walks the TTIs of a synchronised cell and asks the engine     *)
(* for the decoding directive of each subframe.                            *)
(*                                                                         *)
(* The cell has already been acquired (CellAcquisition models how); its   *)
(* mode and PRB count come from Cells.  SIB13 and MCCH messages arrive    *)
(* from the RRC layer at any time and in any order; they are drawn from   *)
(* the small sets Sib13s and McchMsgs.  The MCCH table generators         *)
(* (generate_mcch_table, generate_mcch_table_r16) belong to srsRAN, not   *)
(* to this repository: a SIB13 input carries the table they produce.      *)
(***************************************************************************)
EXTENDS MbsfnSchedule

CONSTANTS
  MaxSfn,         \* kMaxSfn: SFNs are counted modulo MaxSfn.
  Cells,          \* acquired cells: [dedicated, nof_prb]
  Sib13s,         \* SIB13 messages: see Sib13Type
  McchMsgs,       \* MCCH messages: sequences of Pmch records
  PrbOverrides    \* arguments of Phy::set_nof_mbsfn_prb

\* enum_to_number of the SIB13 and MCCH enumerations: the repetition
\* periods (rf32..rf256) and the MCH scheduling periods (rf4..rf1024) both
\* divide 1024, so the schedule is periodic in the SFN.
McchRepeatPeriods == {32, 64, 128, 256}
MchSchedPeriods   == {4, 8, 16, 32, 64, 128, 256, 512, 1024}

Pmch == [mch_sched_period : MchSchedPeriods, sf_alloc_end : 0..1535, data_mcs : 0..28]

\* srsran::sib13_t reduced to the count of area infos and area info 0.
Sib13Type ==
  [nof_mbsfn_area_info : 0..8, pmch_bandwidth : 0..100,
   mcch_repeat_period : McchRepeatPeriods, mcch_offset : 0..10,
   sig_mcs : {2, 7, 13, 19}, mcch_table : SUBSET (0..9)]

ASSUME \A s \in Sib13s : s \in Sib13Type /\ MaxSfn % s.mcch_repeat_period = 0
ASSUME \A m \in McchMsgs : \A i \in 1..Len(m) :
         m[i] \in Pmch /\ MaxSfn % m[i].mch_sched_period = 0

\* The zero-initialised member _sib13 (Phy.h line 235): enumeration index
\* 0 is rf32 for the repetition period and n2 for the signalling MCS.
ZeroSib13 ==
  [nof_mbsfn_area_info |-> 0, pmch_bandwidth |-> 0, mcch_repeat_period |-> 32,
   mcch_offset |-> 0, sig_mcs |-> 2, mcch_table |-> {}]

VARIABLES
  cell,             \* _cell: [dedicated, nof_prb, mbsfn_prb]
  sib13,            \* _sib13
  mcch_table,       \* _mcch_table as the set of subframes marked 1
  mcch_configured,  \* _mcch_configured
  mcch,             \* _mcch.pmch_info_list
  mch_configured,   \* _mch_configured
  decode_mcch,      \* _decode_mcch
  tti               \* the TTI of the subframe being received

vars == <<cell, sib13, mcch_table, mcch_configured, mcch, mch_configured,
          decode_mcch, tti>>

\* The Phy members as the record the scheduling engine reads.
Config ==
  [dedicated |-> cell.dedicated, mcch_configured |-> mcch_configured,
   mch_configured |-> mch_configured, decode_mcch |-> decode_mcch,
   sib13 |-> sib13, mcch_table |-> mcch_table, mcch |-> mcch]

\* Phy::mbsfn_config_for_tti for the current subframe.
Decision == MbsfnConfigForTti(Config, tti)

NumTtis == MaxSfn * SubframesPerFrame

-----------------------------------------------------------------------------
\* After a successful cell_search: _cell is the acquired cell with
\* mbsfn_prb = nof_prb, nothing configured, and the TTI that of subframe 0
\* of the decoded SFN.
Init ==
  /\ cell \in {[dedicated |-> c.dedicated, nof_prb |-> c.nof_prb,
                mbsfn_prb |-> c.nof_prb] : c \in Cells}
  /\ sib13 = ZeroSib13
  /\ mcch_table = {}
  /\ mcch_configured = FALSE
  /\ mcch = <<>>
  /\ mch_configured = FALSE
  /\ decode_mcch = FALSE
  /\ tti \in {sfn * SubframesPerFrame : sfn \in 0..(MaxSfn - 1)}

\* Phy::set_mch_scheduling_info.  The PMCH bandwidth of area info 0 is
\* applied even when the SIB13 carries no area info; the SIB13 and its
\* MCCH table are taken only when it carries at least one.
SetMchSchedulingInfo(s) ==
  /\ cell' = IF s.pmch_bandwidth # 0 THEN [cell EXCEPT !.mbsfn_prb = s.pmch_bandwidth]
                                     ELSE cell
  /\ IF s.nof_mbsfn_area_info > 0
       THEN /\ sib13' = s
            /\ mcch_table' = s.mcch_table
            /\ mcch_configured' = TRUE
       ELSE UNCHANGED <<sib13, mcch_table, mcch_configured>>
  /\ UNCHANGED <<mcch, mch_configured, decode_mcch, tti>>

\* Phy::set_mbsfn_config, the part the scheduling engine reads (the
\* reporting view it rebuilds is modelled in McchRegistry).
SetMbsfnConfig(m) ==
  /\ mcch' = m
  /\ mch_configured' = TRUE
  /\ UNCHANGED <<cell, sib13, mcch_table, mcch_configured, decode_mcch, tti>>

\* Fault: reset clears only the MCH flag.
ResetMchOnly ==
  /\ mch_configured' = FALSE
  /\ UNCHANGED <<cell, sib13, mcch_table, mcch_configured, mcch, decode_mcch, tti>>

\* Phy::reset
Reset ==
  /\ mcch_configured' = FALSE
  /\ mch_configured' = FALSE
  /\ UNCHANGED <<cell, sib13, mcch_table, mcch, decode_mcch, tti>>

\* Phy::set_decode_mcch
SetDecodeMcch(d) ==
  /\ decode_mcch' = d
  /\ UNCHANGED <<cell, sib13, mcch_table, mcch_configured, mcch, mch_configured, tti>>

\* Phy::set_nof_mbsfn_prb
SetNofMbsfnPrb(prb) ==
  /\ cell' = [cell EXCEPT !.mbsfn_prb = prb]
  /\ UNCHANGED <<sib13, mcch_table, mcch_configured, mcch, mch_configured, decode_mcch, tti>>

\* Fault: the TTI is advanced by a frame instead of a subframe.
NextSubframeByFrame ==
  /\ tti' = (tti + SubframesPerFrame) % NumTtis
  /\ UNCHANGED <<cell, sib13, mcch_table, mcch_configured, mcch, mch_configured, decode_mcch>>

\* Fault: the TTI is not wrapped with the SFN.
NextSubframeNoWrap ==
  /\ tti' = tti + 1
  /\ UNCHANGED <<cell, sib13, mcch_table, mcch_configured, mcch, mch_configured, decode_mcch>>

\* The receive loop moves on to the next subframe; the TTI wraps with the
\* SFN.
NextSubframe ==
  /\ tti' = (tti + 1) % NumTtis
  /\ UNCHANGED <<cell, sib13, mcch_table, mcch_configured, mcch, mch_configured, decode_mcch>>

Next ==
  \/ \E s \in Sib13s : SetMchSchedulingInfo(s)
  \/ \E m \in McchMsgs : SetMbsfnConfig(m)
  \/ Reset
  \/ \E d \in BOOLEAN : SetDecodeMcch(d)
  \/ \E prb \in PrbOverrides : SetNofMbsfnPrb(prb)
  \/ NextSubframe

Spec == Init /\ [][Next]_vars

\* While the cell stays synchronised the receive loop fetches one subframe
\* after another (spec 5: one subframe at a time, in increasing TTI
\* order), so the next subframe is always eventually taken.  The RRC
\* handlers get no fairness: a SIB13 or MCCH message need never arrive.
FairSpec == Spec /\ WF_vars(NextSubframe)

-----------------------------------------------------------------------------
(* Properties.                                                             *)

TypeOK ==
  /\ cell \in [dedicated : BOOLEAN, nof_prb : 1..100, mbsfn_prb : 0..100]
  /\ sib13 \in Sib13Type
  /\ mcch_table \subseteq 0..9
  /\ mcch_configured \in BOOLEAN
  /\ mch_configured \in BOOLEAN
  /\ decode_mcch \in BOOLEAN
  /\ mcch \in Seq(Pmch)
  /\ tti \in 0..(NumTtis - 1)

\* The closed-form allocation index of lines 359-363 is, for every MBSFN
\* subframe and every MCH scheduling period, the number of MBSFN subframes
\* that precede the subframe in its period: the "- fn/4 - 1" of a
\* dedicated cell removes exactly the CAS subframes, the "sf - 1 / sf - 3"
\* of a mixed cell exactly the unicast ones.
SfIdxCountsMbsfnSubframes ==
  IsMbsfnSubframe(cell.dedicated, tti) =>
    \A per \in UNION {{m[i].mch_sched_period : i \in DOMAIN m} : m \in McchMsgs} :
      SfIdx(cell.dedicated, (tti \div 10) % per, tti % 10)
        = RefAllocIndex(cell.dedicated, per, tti)

\* With a well-formed MCCH message (one scheduling period, increasing
\* allocation ends) every MBSFN subframe of the period that is not an MCCH
\* subframe goes to the channel whose window holds its index, with the
\* signalling MCS exactly on the window's first subframe, and a subframe
\* past the last window is not decoded (spec 4.4 and the contiguity
\* property of spec 8).
WindowsPartitionPeriod ==
  LET k == RefAllocIndex(cell.dedicated, mcch[1].mch_sched_period, tti)
      owners == RefChannelOf(mcch, k)
  IN
  (/\ mcch_configured /\ mch_configured /\ mcch # <<>>
   /\ WellFormedMcch(mcch)
   /\ IsMbsfnSubframe(cell.dedicated, tti)
   /\ ~IsMcchSlot(Config, tti))
  =>
  IF owners = {}
  THEN ~Decision.enable
  ELSE \E i \in owners :
         /\ Decision.enable /\ ~Decision.is_mcch
         /\ Decision.mch = i - 1
         /\ Decision.mcs = IF k = WindowStart(mcch, i) THEN sib13.sig_mcs
                                                       ELSE mcch[i].data_mcs

\* Channel i (1-based) of the MCCH message in use gets the current subframe.
Served(i) == Decision.enable /\ ~Decision.is_mcch /\ Decision.mch = i - 1

\* Message m is the one the engine schedules from.
ServingConfig(m) == mcch_configured /\ mch_configured /\ mcch = m

\* Spec 4.4: every PMCH of a well-formed MCCH message gets its window of
\* subframes.  As long as m stays configured, the loop walking the TTIs
\* reaches a subframe that mbsfn_config_for_tti gives to each of its
\* channels: no channel is starved by the MCCH subframes, by the first-
\* match scan of lines 364-377 or by the CAS / unicast gaps of sf_idx.
EveryChannelServed ==
  \A m \in {x \in McchMsgs : WellFormedMcch(x)} : \A i \in 1..Len(m) :
    ServingConfig(m) ~> (Served(i) \/ ~ServingConfig(m))

\* The engine hands a subframe to an MCH only if it is an MBSFN subframe.
\* The code does not check this itself: it relies on the receive loop
\* asking only for MBSFN subframes.
MchOnlyOnMbsfnSubframes ==
  (Decision.enable /\ ~Decision.is_mcch) => IsMbsfnSubframe(cell.dedicated, tti)

=============================================================================
