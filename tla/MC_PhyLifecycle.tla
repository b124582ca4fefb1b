------------------------- MODULE MC_PhyLifecycle ---------------------------
(***************************************************************************)
(* Model-checking instance of PhyLifecycle: a dedicated and a mixed cell  *)
(* of different PRB counts, so that a re-acquisition can land on the      *)
(* other cell; two SIB13s and two MCCH messages taken from               *)
(* MC_PhyScheduling; up to two successful searches, so that a second cell *)
(* can inherit the first one's configuration.                             *)
(***************************************************************************)
EXTENDS PhyLifecycle

MCMaxSfn == 32

MCCells ==
  {[dedicated |-> TRUE, nof_prb |-> 25], [dedicated |-> FALSE, nof_prb |-> 50]}

MCSib13s ==
  {[nof_mbsfn_area_info |-> 1, pmch_bandwidth |-> 0, mcch_repeat_period |-> 32,
    mcch_offset |-> 0, sig_mcs |-> 2, mcch_table |-> {1}],
   [nof_mbsfn_area_info |-> 1, pmch_bandwidth |-> 15, mcch_repeat_period |-> 32,
    mcch_offset |-> 1, sig_mcs |-> 2, mcch_table |-> {2, 7}]}

\* In addition a SIB13 whose PMCH bandwidth (50) exceeds the 25 PRB of the
\* dedicated cell.
MCSib13sWide ==
  MCSib13s \cup
  {[nof_mbsfn_area_info |-> 1, pmch_bandwidth |-> 50, mcch_repeat_period |-> 32,
    mcch_offset |-> 0, sig_mcs |-> 2, mcch_table |-> {1}]}

MCMcchMsgs ==
  {<<[mch_sched_period |-> 4, sf_alloc_end |-> 11, data_mcs |-> 9]>>,
   <<[mch_sched_period |-> 4, sf_alloc_end |-> 5, data_mcs |-> 9],
     [mch_sched_period |-> 4, sf_alloc_end |-> 20, data_mcs |-> 16]>>}

MCPrbOverrides == {6}

=============================================================================
