------------------------------ MODULE RestApi ------------------------------
(***************************************************************************)
(* The request handling of class RestHandler (src/RestHandler.cpp): the   *)
(* GET and PUT handlers the cpprest listener calls (lines 69-70) and the   *)
(* CINR window the processing side feeds (add_cinr_value).                 *)
(*                                                                         *)
(* The listener dispatches requests on its thread pool, so several         *)
(* handlers can run at once; each client below is one in-flight request.  *)
(* A GET handler only reads, and is one step.  The PUT handler for         *)
(* "sdr_params" reads the current SDR settings (lines 209-213) and writes  *)
(* them back with the fields of the JSON body applied (line 227): two     *)
(* steps, since another handler can run between them.                      *)
(*                                                                         *)
(* What a GET reply carries is modelled elsewhere (CellAcquisition for    *)
(* "status", McchRegistry for "mch_info"); here a reply is its status     *)
(* code.  A URI path is a sequence of segments (strings).                *)
(***************************************************************************)
EXTENDS Integers, Sequences

CONSTANTS
  Clients,             \* concurrent requests the listener can be handling
  Requests,            \* [method, path, auth, body]: requests clients send
  RequireBearerToken,  \* modem.restful_api.api_key.enabled
  CinrRavgCnt,         \* CINR_RAVG_CNT
  NoReply              \* no reply sent (yet)

\* The SDR settings the handlers read and write, each abstracted to a small
\* set of values (0 is the value at start-up).
SdrFields  == {"antenna", "frequency", "gain", "sample_rate", "filter_bw"}
JsonFields == {"antenna", "frequency", "gain"}
SdrValues  == 0..1

\* The first path segments the GET handler answers (lines 89-189).
GetPaths ==
  {"status", "sdr_params", "ce_values", "pdsch_status", "pdsch_data",
   "mcch_status", "mcch_data", "mch_info", "mch_status", "mch_data", "log"}

\* The GET paths that parse a channel index from the second segment.
IndexedPaths == {"mch_status", "mch_data"}

\* Only antenna, frequency and gain are taken from a PUT body (218-226).
ASSUME \A r \in Requests : DOMAIN r.body \subseteq JsonFields

VARIABLES
  req,        \* the request each client's handler is working on
  pc,         \* "idle", "get", "put" (auth and path checked), "put_read"
  local,      \* the SDR settings a PUT handler read at lines 209-213
  reply,      \* the status code sent for each client's request
  oob,        \* clients whose handler read a path segment the request lacks
  sdr,        \* the SdrReader settings
  cinr_len    \* _cinr_db.size()

vars == <<req, pc, local, reply, oob, sdr, cinr_len>>

\* The bearer token check of lines 80-81 and 196-197.
Authorized(r) == ~RequireBearerToken \/ r.auth

Init ==
  /\ req = [c \in Clients |-> CHOOSE r \in Requests : TRUE]
  /\ pc = [c \in Clients |-> "idle"]
  /\ local = [c \in Clients |-> [f \in SdrFields |-> 0]]
  /\ reply = [c \in Clients |-> NoReply]
  /\ oob = {}
  /\ sdr = [f \in SdrFields |-> 0]
  /\ cinr_len = 0

\* The listener hands request r to a free handler (lines 66-72).
Receive(c, r) ==
  /\ pc[c] = "idle"
  /\ req' = [req EXCEPT ![c] = r]
  /\ pc' = [pc EXCEPT ![c] = IF r.method = "GET" THEN "get" ELSE "put"]
  /\ reply' = [reply EXCEPT ![c] = NoReply]
  /\ UNCHANGED <<local, oob, sdr, cinr_len>>

\* "mch_status" or "mch_data" without a second segment: line 169 or 177
\* reads paths[1] of a one-element vector.
MissingIndex(r) ==
  Authorized(r) /\ r.path # <<>> /\ r.path[1] \in IndexedPaths /\ Len(r.path) < 2

\* What reading past the path can lead to (undefined behaviour): std::stoi
\* throws on whatever it finds, and the listener answers the escaped
\* exception with 500; or it parses an index and the handler replies 200
\* from _mch[idx].
ReadPastPath == {500, 200}

\* The status codes RestHandler::get can send for request r; unknown first
\* segments fall off the if-else chain of lines 89-189 without a reply.
GetReplies(r) ==
  CASE ~Authorized(r)          -> {401}
    [] r.path = <<>>           -> {404}
    [] MissingIndex(r)         -> ReadPastPath
    [] r.path[1] \in GetPaths  -> {200}
    [] OTHER                   -> {NoReply}

\* Fault: an empty path gets no 404.
GetNo404(c) ==
  /\ pc[c] = "get"
  /\ pc' = [pc EXCEPT ![c] = "idle"]
  /\ \E code \in IF req[c].path = <<>> THEN {NoReply} ELSE GetReplies(req[c]) :
       reply' = [reply EXCEPT ![c] = code]
  /\ oob' = IF MissingIndex(req[c]) THEN oob \cup {c} ELSE oob
  /\ UNCHANGED <<req, local, sdr, cinr_len>>

\* RestHandler::get, one step: the token, then the first path segment.
Get(c) ==
  /\ pc[c] = "get"
  /\ pc' = [pc EXCEPT ![c] = "idle"]
  /\ \E code \in GetReplies(req[c]) : reply' = [reply EXCEPT ![c] = code]
  /\ oob' = IF MissingIndex(req[c]) THEN oob \cup {c} ELSE oob
  /\ UNCHANGED <<req, local, sdr, cinr_len>>

\* RestHandler::put up to line 213: the token is checked, then the path;
\* for "sdr_params" the current settings are read into locals.
PutCheck(c) ==
  LET r == req[c] IN
  /\ pc[c] = "put"
  /\ CASE ~Authorized(r) ->
            /\ pc' = [pc EXCEPT ![c] = "idle"]
            /\ reply' = [reply EXCEPT ![c] = 401]
            /\ UNCHANGED local
       [] r.path # <<>> /\ r.path[1] = "sdr_params" ->
            /\ pc' = [pc EXCEPT ![c] = "put_read"]
            /\ local' = [local EXCEPT ![c] = sdr]
            /\ UNCHANGED reply
       [] OTHER ->
            /\ pc' = [pc EXCEPT ![c] = "idle"]
            /\ reply' = [reply EXCEPT ![c] = IF r.path = <<>> THEN 404 ELSE NoReply]
            /\ UNCHANGED local
  /\ UNCHANGED <<req, oob, sdr, cinr_len>>

\* Fault: the handler writes the body over the start-up settings instead of
\* over the settings it read.
AppliedToDefaults(c) ==
  [f \in SdrFields |-> IF f \in DOMAIN req[c].body THEN req[c].body[f] ELSE 0]

\* The settings a PUT writes: what it read, with the body's fields applied.
Applied(c) ==
  [f \in SdrFields |-> IF f \in DOMAIN req[c].body THEN req[c].body[f] ELSE local[c][f]]

\* Lines 215-229: the body is parsed, its fields override the locals, and
\* _set_params writes all five settings.
PutApply(c) ==
  /\ pc[c] = "put_read"
  /\ sdr' = Applied(c)
  /\ pc' = [pc EXCEPT ![c] = "idle"]
  /\ reply' = [reply EXCEPT ![c] = 200]
  /\ UNCHANGED <<req, local, oob, cinr_len>>

\* Fault: the oldest value is never dropped.
AddCinrValueNoErase ==
  /\ cinr_len' = cinr_len + 1
  /\ UNCHANGED <<req, pc, local, reply, oob, sdr>>

\* RestHandler::add_cinr_value, called by the processing side: the oldest
\* value is dropped only when the window already holds more than
\* CINR_RAVG_CNT values.
AddCinrValue ==
  /\ cinr_len' = IF cinr_len > CinrRavgCnt THEN cinr_len ELSE cinr_len + 1
  /\ UNCHANGED <<req, pc, local, reply, oob, sdr>>

Next ==
  \/ \E c \in Clients, r \in Requests : Receive(c, r)
  \/ \E c \in Clients : Get(c) \/ PutCheck(c) \/ PutApply(c)
  \/ AddCinrValue

Spec == Init /\ [][Next]_vars

\* A handler, once called, runs to its end: nothing in get or put blocks
\* (the "log" reply is sent from a continuation, which is the reply step
\* here).  Clients need not send requests.
FairSpec ==
  Spec /\ \A c \in Clients : WF_vars(Get(c)) /\ WF_vars(PutCheck(c)) /\ WF_vars(PutApply(c))

-----------------------------------------------------------------------------
(* Properties.                                                             *)

TypeOK ==
  /\ req \in [Clients -> Requests]
  /\ pc \in [Clients -> {"idle", "get", "put", "put_read"}]
  /\ local \in [Clients -> [SdrFields -> SdrValues]]
  /\ reply \in [Clients -> {NoReply, 200, 401, 404, 500}]
  /\ oob \subseteq Clients
  /\ sdr \in [SdrFields -> SdrValues]
  /\ cinr_len \in 0..(CinrRavgCnt + 1)

\* The bodies of the PUTs of sdr_params the handler accepts.
AcceptedBodies ==
  {r.body : r \in {q \in Requests : /\ q.method = "PUT" /\ Authorized(q)
                                    /\ q.path # <<>> /\ q.path[1] = "sdr_params"}}

Settings == INSTANCE SdrSettings
              WITH Fields <- SdrFields, Values <- SdrValues, Bodies <- AcceptedBodies

\* The PUT handler implements SdrSettings: seen through the SDR settings,
\* each completed PUT of sdr_params that carried the bearer token applies
\* its body to the settings as they are when it writes them (lines
\* 196-227), and the other handler steps change nothing.  With two
\* handlers on the listener's pool it fails when another handler wrote
\* the settings between this one's read (209-213) and its write (227):
\* the write then carries back the values read before.
SdrRefinesAtomicPut == Settings!Spec

\* Every request the listener hands to a handler is answered: the handler
\* finishes and has sent a status code.  A request left without a reply
\* holds the client's connection open until the client gives up.
EveryRequestAnswered ==
  \A c \in Clients : pc[c] # "idle" ~> (pc[c] = "idle" /\ reply[c] # NoReply)

\* No handler reads a path segment beyond the end of the request's path.
PathIndexInRange == oob = {}

\* The CINR running average is taken over at most CINR_RAVG_CNT values.
CinrWindowWithinCount == cinr_len <= CinrRavgCnt

=============================================================================
