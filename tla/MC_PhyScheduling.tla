------------------------- MODULE MC_PhyScheduling --------------------------
(***************************************************************************)
(* Model-checking instance of PhyScheduling.  32 radio frames are the     *)
(* shortest SFN cycle that holds a full MCCH repetition period (rf32), so *)
(* the TTI walks 320 subframes.  The MCCH messages have scheduling         *)
(* periods rf4 and rf8; the data MCS values differ from every signalling  *)
(* MCS so that a signalling subframe is told apart from a data one.       *)
(***************************************************************************)
EXTENDS PhyScheduling

MCMaxSfn == 32

MCCells ==
  {[dedicated |-> TRUE, nof_prb |-> 25], [dedicated |-> FALSE, nof_prb |-> 25]}

\* An MCCH subframe that takes the first subframe of channel 0, one that
\* falls inside the window of a later channel, and a SIB13 without an area
\* info whose PMCH bandwidth is still applied.
MCSib13s ==
  {[nof_mbsfn_area_info |-> 1, pmch_bandwidth |-> 0, mcch_repeat_period |-> 32,
    mcch_offset |-> 0, sig_mcs |-> 2, mcch_table |-> {1}],
   [nof_mbsfn_area_info |-> 1, pmch_bandwidth |-> 15, mcch_repeat_period |-> 32,
    mcch_offset |-> 1, sig_mcs |-> 2, mcch_table |-> {2, 7}],
   [nof_mbsfn_area_info |-> 0, pmch_bandwidth |-> 15, mcch_repeat_period |-> 32,
    mcch_offset |-> 0, sig_mcs |-> 2, mcch_table |-> {}]}

\* One channel; two channels in a common rf4 period; two channels with
\* different periods (not well formed: the code does not reject it).
MCMcchMsgs ==
  {<<[mch_sched_period |-> 4, sf_alloc_end |-> 11, data_mcs |-> 9]>>,
   <<[mch_sched_period |-> 4, sf_alloc_end |-> 5, data_mcs |-> 9],
     [mch_sched_period |-> 4, sf_alloc_end |-> 20, data_mcs |-> 16]>>,
   <<[mch_sched_period |-> 8, sf_alloc_end |-> 20, data_mcs |-> 9],
     [mch_sched_period |-> 4, sf_alloc_end |-> 30, data_mcs |-> 16]>>}

MCPrbOverrides == {6}

=============================================================================
