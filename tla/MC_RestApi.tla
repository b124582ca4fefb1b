----------------------------- MODULE MC_RestApi -----------------------------
(***************************************************************************)
(* Model-checking instance of RestApi: GET requests for a known path, an   *)
(* unknown path, the empty path, and "mch_status" with and without its    *)
(* index; PUT requests for "sdr_params" that set one or two fields, one  *)
(* without the token whose body no request with the token sends, a PUT   *)
(* for the empty path and one for an unknown path.                        *)
(***************************************************************************)
EXTENDS RestApi

NoBody == [f \in {} |-> 0]

GetReq(path, auth) == [method |-> "GET", path |-> path, auth |-> auth, body |-> NoBody]
PutReq(path, auth, body) == [method |-> "PUT", path |-> path, auth |-> auth, body |-> body]

MCRequests ==
  {GetReq(<<"status">>, TRUE), GetReq(<<"status">>, FALSE), GetReq(<<>>, TRUE),
   GetReq(<<"other">>, TRUE), GetReq(<<"mch_status", "0">>, TRUE),
   GetReq(<<"mch_status">>, TRUE),
   PutReq(<<"sdr_params">>, TRUE, [gain |-> 1]),
   PutReq(<<"sdr_params">>, TRUE, [frequency |-> 1]),
   PutReq(<<"sdr_params">>, TRUE, [gain |-> 0, frequency |-> 0]),
   PutReq(<<"sdr_params">>, FALSE, [antenna |-> 1]),
   PutReq(<<>>, TRUE, NoBody), PutReq(<<"other">>, TRUE, NoBody)}

=============================================================================
