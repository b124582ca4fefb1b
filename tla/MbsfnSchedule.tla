--------------------------- MODULE MbsfnSchedule ---------------------------
(***************************************************************************)
(* The pure part of the PHY control logic of src/Phy.cpp: the subframe     *)
(* classifier (Phy::is_cas_subframe, Phy::is_mbsfn_subframe) and the       *)
(* scheduling engine (Phy::mbsfn_config_for_tti), as operators of the      *)
(* configuration they read.                                                *)
(*                                                                         *)
(* A PHY configuration p is a record with the Phy members the engine      *)
(* reads:                                                                  *)
(*   dedicated        _cell.mbms_dedicated                                 *)
(*   mcch_configured  _mcch_configured                                     *)
(*   mch_configured   _mch_configured                                      *)
(*   decode_mcch      _decode_mcch                                         *)
(*   sib13            _sib13.mbsfn_area_info_list[0] (see Sib13 below)     *)
(*   mcch_table       the subframes i with _mcch_table[i] = 1              *)
(*   mcch             _mcch.pmch_info_list as a sequence of Pmch records   *)
(*                                                                         *)
(* Enumerated fields (mcch_repeat_period, mch_sched_period, sig_mcs) are   *)
(* kept as the numbers enum_to_number gives.  The area id and the non-     *)
(* MBSFN region length are copied to the result without being looked at;  *)
(* they are left out.                                                      *)
(***************************************************************************)
EXTENDS Integers, Sequences, FiniteSets, FiniteSetsExt

\* Phy.cpp kSubframesPerFrame
SubframesPerFrame == 10

\* Result field values of a decision whose srsran_mbsfn_cfg_t.mbsfn_mcs is
\* never written, and of a call that leaves the out-parameter area alone.
NoMcs == -1
NoMch == -1

-----------------------------------------------------------------------------
(* Subframe classifier.                                                    *)

\* Phy::is_cas_subframe: a dedicated cell has one CAS subframe every 4
\* radio frames, a mixed cell the unicast subframes 0, 4, 5 and 9.
IsCasSubframe(dedicated, tti) ==
  IF dedicated THEN tti % 40 = 0
               ELSE tti % 10 \in {0, 4, 5, 9}

\* Phy::is_mbsfn_subframe
IsMbsfnSubframe(dedicated, tti) ==
  IF dedicated THEN ~IsCasSubframe(dedicated, tti)
               ELSE /\ ~IsCasSubframe(dedicated, tti)
                    /\ tti % 10 \in {1, 2, 3, 6, 7, 8}

-----------------------------------------------------------------------------
(* Index of a subframe within the subframes allocated in the MCH           *)
(* scheduling period (Phy.cpp lines 357-363).  fn is the frame number in   *)
(* the period and sf the subframe number.  The C computation is unsigned:  *)
(* the only negative mathematical results are -1 (a dedicated cell at      *)
(* fn = 0, sf = 0; a mixed cell at fn = 0, sf = 0), which wrap to 2^32-1.  *)
(* No sf_alloc_end reaches that value (it is below 2^11), so the wrapped   *)
(* value is modelled by keeping it negative and making InAllocation treat  *)
(* a negative index as beyond every allocation end.                        *)

\* Fault: the CAS subframe removed every 4 frames is not compensated.
SfIdxNoCasGap(dedicated, fn, sf) ==
  IF dedicated THEN fn * 10 + sf - 1
               ELSE fn * 6 + (IF sf < 6 THEN sf - 1 ELSE sf - 3)

SfIdx(dedicated, fn, sf) ==
  IF dedicated THEN fn * 10 + sf - (fn \div 4) - 1
               ELSE fn * 6 + (IF sf < 6 THEN sf - 1 ELSE sf - 3)

\* The unsigned comparison sf_idx <= sf_alloc_end (Phy.cpp line 365).
InAllocation(idx, sfAllocEnd) == idx >= 0 /\ idx <= sfAllocEnd

-----------------------------------------------------------------------------
(* Phy::mbsfn_config_for_tti.  The result is a record: enable, is_mcch,   *)
(* the MCS written to mbsfn_mcs, and mch, the value written to the out-    *)
(* parameter area (NoMch when the call leaves it unwritten).  Channels     *)
(* are indexed from 0 as in the code.                                      *)

Disabled == [enable |-> FALSE, is_mcch |-> FALSE, mcs |-> NoMcs, mch |-> NoMch]

\* The MCCH condition of line 344: the frame is an MCCH repetition and the
\* MCCH table marks the subframe.
IsMcchSlot(p, tti) ==
  /\ (tti \div 10) % p.sib13.mcch_repeat_period = p.sib13.mcch_offset
  /\ (tti % 10) \in p.mcch_table

\* Allocation index of tti in the scheduling period of channel i (1-based).
ChannelSfIdx(p, i, tti) ==
  SfIdx(p.dedicated, (tti \div 10) % p.mcch[i].mch_sched_period, tti % 10)

\* The channels (1-based) whose window test of line 365 succeeds.
MatchingChannels(p, tti) ==
  {i \in 1..Len(p.mcch) : InAllocation(ChannelSfIdx(p, i, tti), p.mcch[i].sf_alloc_end)}

\* The tie-break of lines 367-368: the first subframe of channel 0's
\* window, or the subframe after the previous channel's window, carries
\* the channel's signalling and uses the signalling MCS.
IsSignallingSubframe(p, i, tti) ==
  \/ i = 1 /\ (tti \div 10) % p.mcch[i].mch_sched_period = 0 /\ tti % 10 = 1
  \/ i > 1 /\ p.mcch[i - 1].sf_alloc_end + 1 = ChannelSfIdx(p, i, tti)

\* The channel decision of lines 366-376 for the first matching channel i.
ChannelDecision(p, i, tti) ==
  [enable  |-> TRUE,
   is_mcch |-> FALSE,
   mcs     |-> IF IsSignallingSubframe(p, i, tti) THEN p.sib13.sig_mcs
                                                  ELSE p.mcch[i].data_mcs,
   mch     |-> i - 1]

\* Fault: the loop has no break, so the last matching channel wins.
MbsfnConfigForTtiNoBreak(p, tti) ==
  IF ~p.mcch_configured THEN Disabled
  ELSE IF IsMcchSlot(p, tti)
       THEN IF p.decode_mcch
            THEN [enable |-> TRUE, is_mcch |-> TRUE, mcs |-> p.sib13.sig_mcs, mch |-> NoMch]
            ELSE Disabled
  ELSE IF p.mch_configured /\ MatchingChannels(p, tti) # {}
       THEN ChannelDecision(p, Max(MatchingChannels(p, tti)), tti)
  ELSE Disabled

MbsfnConfigForTti(p, tti) ==
  IF ~p.mcch_configured THEN Disabled
  ELSE IF IsMcchSlot(p, tti)
       THEN IF p.decode_mcch
            THEN [enable |-> TRUE, is_mcch |-> TRUE, mcs |-> p.sib13.sig_mcs, mch |-> NoMch]
            ELSE Disabled
  ELSE IF p.mch_configured /\ MatchingChannels(p, tti) # {}
       THEN ChannelDecision(p, Min(MatchingChannels(p, tti)), tti)
  ELSE Disabled

-----------------------------------------------------------------------------
(* Reference definitions, written from the meaning of the schedule rather *)
(* than from the code: the allocation index of an MBSFN subframe is the    *)
(* number of MBSFN subframes before it in its scheduling period, and the   *)
(* channels of a well-formed MCCH message own consecutive windows of       *)
(* those indices.                                                          *)

\* Number of MBSFN subframes from the start of the period of `period`
\* frames that contains tti, up to and excluding tti.
RefAllocIndex(dedicated, period, tti) ==
  LET start == tti - (tti % (period * SubframesPerFrame))
  IN  Cardinality({u \in start..(tti - 1) : IsMbsfnSubframe(dedicated, u)})

\* A well-formed MCCH message: one common scheduling period and strictly
\* increasing allocation ends, so the windows are contiguous and disjoint.
WellFormedMcch(mcch) ==
  /\ \A i, j \in 1..Len(mcch) : mcch[i].mch_sched_period = mcch[j].mch_sched_period
  /\ \A i \in 1..(Len(mcch) - 1) : mcch[i].sf_alloc_end < mcch[i + 1].sf_alloc_end

\* First allocation index of the window of channel i (1-based).
WindowStart(mcch, i) == IF i = 1 THEN 0 ELSE mcch[i - 1].sf_alloc_end + 1

\* The channel whose window holds allocation index k, if any.
RefChannelOf(mcch, k) ==
  {i \in 1..Len(mcch) : WindowStart(mcch, i) <= k /\ k <= mcch[i].sf_alloc_end}

=============================================================================
