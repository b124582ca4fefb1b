-------------------------- MODULE MC_McchRegistry --------------------------
(***************************************************************************)
(* Model-checking instance of McchRegistry: MCCH messages with one and    *)
(* two channels, TMGIs with a 2-digit and a 3-digit MNC (the first is     *)
(* the example of the comment at Phy.cpp lines 274-286: MCC 901, MNC 56), *)
(* and one destination that can be registered for channel 0.              *)
(***************************************************************************)
EXTENDS McchRegistry

TmgiA == [service_id |-> <<0, 0, 1>>, mcc |-> <<9, 0, 1>>, mnc |-> <<5, 6, 0>>,
          nof_mnc_digits |-> 2]
TmgiB == [service_id |-> <<18, 52, 86>>, mcc |-> <<2, 6, 2>>, mnc |-> <<0, 1, 5>>,
          nof_mnc_digits |-> 3]

MCMcchMsgs ==
  {<<>>,
   <<[data_mcs |-> 9, sessions |-> <<[lcid |-> 1, tmgi |-> TmgiA]>>]>>,
   <<[data_mcs |-> 9, sessions |-> <<[lcid |-> 1, tmgi |-> TmgiA],
                                    [lcid |-> 2, tmgi |-> TmgiB]>>],
     [data_mcs |-> 16, sessions |-> <<[lcid |-> 1, tmgi |-> TmgiB]>>]>>}

MCDestNames == {"flute"}

=============================================================================
