---------------------------- MODULE SdrSettings ----------------------------
(***************************************************************************)
(* What the REST API promises about the SDR settings (spec: the           *)
(* "sdr_params" resource): each accepted PUT sets the settings its JSON   *)
(* body names and leaves the others as they are, as one indivisible       *)
(* update.  Nothing else changes them.                                     *)
(***************************************************************************)

CONSTANTS
  Fields,   \* the settings
  Values,   \* the values a setting can take
  Bodies    \* the bodies of the PUTs that are accepted: [subset of Fields -> Values]

VARIABLE sdr

Init == sdr \in [Fields -> Values]

\* Body b is applied to the settings as they are at that moment.
Put(b) == sdr' = [f \in Fields |-> IF f \in DOMAIN b THEN b[f] ELSE sdr[f]]

Next == \E b \in Bodies : Put(b)

Spec == Init /\ [][Next]_sdr

=============================================================================
