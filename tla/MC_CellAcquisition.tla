------------------------ MODULE MC_CellAcquisition -------------------------
(***************************************************************************)
(* Model-checking instance of CellAcquisition: one MBMS-dedicated and one *)
(* mixed transmitter with different PRB counts, so that a search can      *)
(* replace one cell by the other, and two SFNs for synchronisation.       *)
(***************************************************************************)
EXTENDS CellAcquisition

MCTransmitters ==
  {[id |-> 1, dedicated |-> TRUE, nof_prb |-> 25],
   [id |-> 2, dedicated |-> FALSE, nof_prb |-> 50]}

MCSfns == {0, 7}

=============================================================================
