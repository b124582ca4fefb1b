---------------------------- MODULE McchRegistry ----------------------------
(***************************************************************************)
(* The multicast channel registry of class Phy: Phy::set_mbsfn_config     *)
(* (src/Phy.cpp lines 261-302) rebuilds the reporting view _mch_info from  *)
(* each decoded MCCH message, with a TMGI string per session and the       *)
(* destination registered with Phy::set_dest_for_lcid.  The REST handler  *)
(* (RestHandler::get "mch_info", src/RestHandler.cpp lines 150-167) copies *)
(* _mch_info from an HTTP listener thread without any lock.                *)
(*                                                                         *)
(* set_mbsfn_config runs on the processing side; its assignment and        *)
(* clear (lines 262-265) are one step and each push_back of a channel's    *)
(* view (lines 267-300) another, since the REST thread can copy the view   *)
(* between them.                                                           *)
(***************************************************************************)
EXTENDS Integers, Sequences, SequencesExt

CONSTANTS
  McchMsgs,     \* decoded MCCH messages: sequences of [data_mcs, sessions]
  DestNames,    \* destinations set_dest_for_lcid registers
  NoDest,       \* the empty std::string a missing _dests entry yields
  MaxMchIdx     \* channel indices set_dest_for_lcid is called with: 0..MaxMchIdx

-----------------------------------------------------------------------------
(* The TMGI string of lines 287-294, sprintf "%06x%02x%02x%02x", as its    *)
(* sequence of hex digits (values 0..15; the letter case is immaterial).   *)

\* The hex digits of v >= 0, most significant first, without leading zeros
\* (v = 0 gives <<0>>).
RECURSIVE HexDigits(_)
HexDigits(v) == IF v < 16 THEN <<v>> ELSE HexDigits(v \div 16) \o <<v % 16>>

\* printf "%0wx": the digits of v padded with zeros to at least w digits.
HexField(v, w) ==
  LET d == HexDigits(v) IN [k \in 1..(w - Len(d)) |-> 0] \o d

\* The second argument: MCC digit 2 in the high nibble, digit 1 low.
\* Fault: the two MCC digits swapped.
MccOctetSwapped(t) == t.mcc[1] * 16 + t.mcc[2]

MccOctet(t) == t.mcc[2] * 16 + t.mcc[1]

\* A two-digit MNC puts the filler 0xF where MNC digit 3 goes.
MncMccOctet(t) == (IF t.nof_mnc_digits = 2 THEN 15 ELSE t.mnc[3]) * 16 + t.mcc[3]

MncOctet(t) == t.mnc[2] * 16 + t.mnc[1]

\* The service id bytes, serviced_id[0] most significant.
ServiceId(t) == t.service_id[1] * 65536 + t.service_id[2] * 256 + t.service_id[3]

TmgiString(t) ==
  HexField(ServiceId(t), 6) \o HexField(MccOctet(t), 2)
    \o HexField(MncMccOctet(t), 2) \o HexField(MncOctet(t), 2)

-----------------------------------------------------------------------------
(* The view of one MCCH message (lines 266-301).  Phy::mtch_info_t is      *)
(* [tmgi, dest, lcid] and Phy::mch_info_t is [mcs, mtchs].  The lookup     *)
(* _dests[i][lcid] uses std::map::operator[], which inserts an empty       *)
(* entry for a missing key.                                                *)

\* The destination _dests[i][lcid] holds (NoDest when absent).
DestOf(dests, i, lcid) == IF <<i, lcid>> \in DOMAIN dests THEN dests[<<i, lcid>>] ELSE NoDest

\* The channel view pushed for channel index i (0-based) of message m.
ChannelView(m, i, dests) ==
  [mcs   |-> m[i + 1].data_mcs,
   mtchs |-> [j \in DOMAIN m[i + 1].sessions |->
                [tmgi |-> TmgiString(m[i + 1].sessions[j].tmgi),
                 dest |-> DestOf(dests, i, m[i + 1].sessions[j].lcid),
                 lcid |-> m[i + 1].sessions[j].lcid]]]

\* Fault: the lookups use the 1-based position of the channel.
DestsAfterLookupOffByOne(m, i, dests) ==
  LET keys == {<<i + 1, m[i + 1].sessions[j].lcid>> : j \in DOMAIN m[i + 1].sessions}
  IN  [k \in DOMAIN dests \cup keys |-> IF k \in DOMAIN dests THEN dests[k] ELSE NoDest]

\* _dests after the operator[] lookups for channel i: every missing key
\* is inserted with an empty destination.
DestsAfterLookup(m, i, dests) ==
  LET keys == {<<i, m[i + 1].sessions[j].lcid>> : j \in DOMAIN m[i + 1].sessions}
  IN  [k \in DOMAIN dests \cup keys |-> IF k \in DOMAIN dests THEN dests[k] ELSE NoDest]

\* The complete view of message m.
WholeView(m, dests) == [i \in 1..Len(m) |-> ChannelView(m, i - 1, dests)]

-----------------------------------------------------------------------------
VARIABLES
  mcch,            \* _mcch
  mch_configured,  \* _mch_configured
  mch_info,        \* _mch_info
  building,        \* index of the next channel set_mbsfn_config builds, or -1 when idle
  dests,           \* _dests, as a function of <<mch_idx, lcid>>
  rest_reply,      \* the view the last "mch_info" request returned
  whole_views      \* every complete view _mch_info has held

vars == <<mcch, mch_configured, mch_info, building, dests, rest_reply, whole_views>>

Idle == -1

Init ==
  /\ mcch = <<>>
  /\ mch_configured = FALSE
  /\ mch_info = <<>>
  /\ building = Idle
  /\ dests = [k \in {} |-> NoDest]
  /\ rest_reply = <<>>
  /\ whole_views = {<<>>}

\* Lines 262-265: the message is stored and the old view cleared.
SetMbsfnConfigBegin(m) ==
  /\ building = Idle
  /\ mcch' = m
  /\ mch_configured' = TRUE
  /\ mch_info' = <<>>
  /\ building' = 0
  /\ UNCHANGED <<dests, rest_reply, whole_views>>

\* Lines 267-300 for channel `building`: its view is built (inserting the
\* missing _dests entries) and pushed back.  After the last channel the
\* loop ends and the view is whole.
SetMbsfnConfigChannel ==
  /\ building # Idle
  /\ building < Len(mcch)
  /\ mch_info' = Append(mch_info, ChannelView(mcch, building, dests))
  /\ dests' = DestsAfterLookup(mcch, building, dests)
  /\ building' = IF building + 1 = Len(mcch) THEN Idle ELSE building + 1
  /\ whole_views' = IF building + 1 = Len(mcch) THEN whole_views \cup {mch_info'}
                                                ELSE whole_views
  /\ UNCHANGED <<mcch, mch_configured, rest_reply>>

\* A message without channels leaves the loop at once.
SetMbsfnConfigEmpty ==
  /\ building = 0
  /\ Len(mcch) = 0
  /\ building' = Idle
  /\ whole_views' = whole_views \cup {mch_info}
  /\ UNCHANGED <<mcch, mch_configured, mch_info, dests, rest_reply>>

\* Phy::set_dest_for_lcid
SetDestForLcid(i, lcid, d) ==
  /\ dests' = [k \in DOMAIN dests \cup {<<i, lcid>>} |->
                 IF k = <<i, lcid>> THEN d ELSE dests[k]]
  /\ UNCHANGED <<mcch, mch_configured, mch_info, building, rest_reply, whole_views>>

\* RestHandler::get "mch_info": auto mch_info = _phy.mch_info() copies the
\* vector (an atomic copy here; a torn copy would only add outcomes).
RestGetMchInfo ==
  /\ rest_reply' = mch_info
  /\ UNCHANGED <<mcch, mch_configured, mch_info, building, dests, whole_views>>

\* The logical channel ids the messages use.
LcidsOf(m) == UNION {{m[i].sessions[j].lcid : j \in DOMAIN m[i].sessions} : i \in DOMAIN m}
Lcids == UNION {LcidsOf(m) : m \in McchMsgs}

Next ==
  \/ \E m \in McchMsgs : SetMbsfnConfigBegin(m)
  \/ SetMbsfnConfigChannel
  \/ SetMbsfnConfigEmpty
  \/ \E i \in 0..MaxMchIdx, lcid \in Lcids, d \in DestNames : SetDestForLcid(i, lcid, d)
  \/ RestGetMchInfo

Spec == Init /\ [][Next]_vars

-----------------------------------------------------------------------------
(* Properties.                                                             *)

TmgiType ==
  [service_id : [1..3 -> 0..255], mcc : [1..3 -> 0..9], mnc : [1..3 -> 0..9],
   nof_mnc_digits : {2, 3}]

MtchView == [tmgi : Seq(0..15), dest : DestNames \cup {NoDest}, lcid : Nat]

\* The channel indices _dests can be keyed by.
ChannelIdxs == 0..MaxMchIdx \cup UNION {0..(Len(m) - 1) : m \in McchMsgs}

TypeOK ==
  /\ mch_configured \in BOOLEAN
  /\ mch_info \in Seq([mcs : 0..28, mtchs : Seq(MtchView)])
  /\ building \in {Idle} \cup 0..Len(mcch)
  /\ DOMAIN dests \subseteq ChannelIdxs \X Lcids
  /\ rest_reply \in Seq([mcs : 0..28, mtchs : Seq(MtchView)])

\* Reading a TMGI string back with the octet layout of TS 24.008 10.5.6.13
\* quoted at lines 274-286: octet 6 is MCC digit 2 | MCC digit 1, octet 7
\* MNC digit 3 (0xF if absent) | MCC digit 3, octet 8 MNC digit 2 | MNC
\* digit 1, after the 3-octet service id.
DecodeTmgi(s) ==
  [service_id |-> <<s[1] * 16 + s[2], s[3] * 16 + s[4], s[5] * 16 + s[6]>>,
   mcc        |-> <<s[8], s[7], s[10]>>,
   mnc        |-> IF s[9] = 15 THEN <<s[12], s[11]>> ELSE <<s[12], s[11], s[9]>>]

\* The identity a TMGI denotes: an MNC has only its first nof_mnc_digits.
TmgiIdentity(t) ==
  [service_id |-> t.service_id, mcc |-> t.mcc,
   mnc |-> SubSeq(t.mnc, 1, t.nof_mnc_digits)]

\* Every TMGI string in the view is 12 hex digits and reads back, by the
\* TS 24.008 layout, as the TMGI of the session it reports, for 2- and
\* 3-digit MNCs alike.
TmgiDecodesToSession ==
  \A i \in DOMAIN mch_info : \A j \in DOMAIN mch_info[i].mtchs :
    LET s == mch_info[i].mtchs[j].tmgi
    IN  /\ Len(s) = 12
        /\ DecodeTmgi(s) = TmgiIdentity(mcch[i].sessions[j].tmgi)

\* Spec 4.5 and 5: the view is rebuilt in full for each MCCH message and a
\* reader may see a stale view.  Every view the REST handler returns is one
\* that _mch_info held in full (the initial empty one or that of a
\* message).
ReportedViewIsWhole == rest_reply \in whole_views

=============================================================================
