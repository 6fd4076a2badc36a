----------------------------- MODULE SeekQuery -----------------------------
(***************************************************************************)
(* What one seek call reads and returns: the choice of the flow in         *)
(* resolveAndPublishSeek, the profile look-ups of resolveSeekResponse with *)
(* the GraphQL resolvers behind them, and the credential flow of           *)
(* resolveSdjwtSeek.  The ClickHouse tables change while the call runs.    *)
(* A column value is a member of a small set; an attribute list of the     *)
(* service's config is a set of column names.                              *)
(***************************************************************************)
EXTENDS Naturals, FiniteSets, SequencesExt, KeyForms

CONSTANTS
  Rows,         \* for each profile, the rows its table may hold
  Request,      \* the calls considered
  Service,      \* what the admin tables may say of the service
  MaxChanges    \* bound: rows inserted or deleted during the call

Profile == {"farmerData", "landData", "landOwnershipData"}

Null == "null"
NoConfig == [p \in {} |-> {}]

ASSUME QueryAssumption ==
  /\ MaxChanges \in Nat
  /\ DOMAIN Rows = Profile
  /\ \A p \in Profile : \A row \in Rows[p] : "frCentralId" \in DOMAIN row
  /\ \A r \in Request : Len(r.param) \in Nat /\ DOMAIN r.param = 1..Len(r.param)
  /\ \A s \in Service : s.config = NoConfig \/ DOMAIN s.config = Profile

VARIABLES
  request,  \* mode, query_param as a list of [field, value], credential fields
  service,  \* mapped to the sender, flagged for SD-JWT, its config
  tables,   \* the ClickHouse tables
  changes,
  stage,    \* the await the call is at, or how it ended
  status,   \* status_reason_code of the answer
  todo,     \* matched farmers the loop has not reached
  farmer,   \* the one it is at
  item,     \* its entry so far
  items,    \* seek_response: the entry of each farmer
  matched,  \* what the demographic query returned (history)
  reads     \* sources asked for data (history)

inputs   == <<request, service>>
loopVars == <<todo, farmer, item, items, matched>>
vars == <<inputs, tables, changes, stage, status, loopVars, reads>>

Source == Profile \cup {"credential"}

\* A profile the config gives no attributes for is left out.
Configured == {p \in DOMAIN service.config : service.config[p] # {}}

UsesSdjwt == request.mode = "SYNC" /\ service.sdjwt

TypeOK ==
  /\ request \in Request
  /\ service \in Service
  /\ DOMAIN tables = Profile /\ \A p \in Profile : tables[p] \subseteq Rows[p]
  /\ changes \in 0..MaxChanges
  /\ stage \in Source \cup {"flag", "seek", "config", "next", "entry", "sdjwt",
                            "seal", "answered", "thrown"}
  /\ status \in {"none", "NA", "SENDER_NOT_MAPPED_TO_SERVICE", "UNKNOWN_SERVICE_ID",
                 "MISSING_INPUT", "MISSING_FARMER_ID", "MISSING_PUBLIC_KEY",
                 "UNSUPPORTED_ALG", "SDJWT_SERVICE_UNAVAILABLE", "INVALID_PUBLIC_KEY"}
  /\ matched \subseteq Rows["farmerData"]
  /\ todo \subseteq matched /\ farmer \subseteq matched /\ DOMAIN items \subseteq matched
  /\ Cardinality(farmer) <= 1
  /\ todo \cap (farmer \cup DOMAIN items) = {}
  /\ DOMAIN item \subseteq Profile
  /\ reads \subseteq Source

Init ==
  /\ request \in Request
  /\ service \in Service
  /\ tables = Rows
  /\ changes = 0
  /\ stage = "flag"
  /\ status = "none"
  /\ todo = {} /\ farmer = {} /\ matched = {}
  /\ item = NoConfig /\ items = NoConfig
  /\ reads = {}

-----------------------------------------------------------------------------
(* Filters.                                                                *)

\* The search inputs taken from query_param, two of each profile's list.
inputFields ==
  [farmerData        |-> {"frCentralId", "gender"},
   landData          |-> {"frCentralId", "ownerType"},
   landOwnershipData |-> {"frCentralId", "ownerType"}]

\* The columns of each profile, as fieldMap.js and typeDefs.js list them.
fieldMap ==
  [farmerData        |-> {"frCentralId", "gender"},
   landData          |-> {"frCentralId", "ownerType", "surveyNumber"},
   landOwnershipData |-> {"frCentralId", "ownerType"}]

\* Mutant: the first of two entries for a field wins.
NormalizedFirst(param) ==
  [f \in {param[i].field : i \in DOMAIN param} |->
     param[SelectInSeq(param, LAMBDA e : e.field = f)].value]

\* The list as an object: a later entry for the same field replaces an earlier.
Normalized(param) ==
  [f \in {param[i].field : i \in DOMAIN param} |->
     param[SelectLastInSeq(param, LAMBDA e : e.field = f)].value]

PickFilter(p) ==
  LET obj == Normalized(request.param)
  IN  [f \in {g \in inputFields[p] \cap DOMAIN obj : obj[g] # Null} |-> obj[f]]

\* Mutant: the farmer's own id is left out of the land and ownership filters.
RelatedFilterWithoutId(p, id) == PickFilter(p)

\* The caller's fields, then the farmer's id; toFilterObject keeps the last, and
\* knows every field of inputFields.
RelatedFilter(p, id) ==
  [f \in DOMAIN PickFilter(p) \cup {"frCentralId"} |->
     IF f = "frCentralId" THEN id ELSE PickFilter(p)[f]]

-----------------------------------------------------------------------------
(* One GraphQL query: WHERE, SELECT with fr_central_id, projectFields.     *)

\* An attribute the schema does not have fails validation.
Valid(p) == service.config[p] \subseteq fieldMap[p]

Selected(p, filter) ==
  {row \in tables[p] : \A f \in DOMAIN filter : row[f] = filter[f]}

\* Mutant: the row goes out as selected, with the id that is always selected.
ProjectAll(row, p) ==
  [f \in service.config[p] \cup {"frCentralId"} |-> row[f]]

Project(row, p) == [f \in service.config[p] |-> row[f]]

\* The list of rows returned, indexed by the row each comes from.
Returned(p, filter) == [row \in Selected(p, filter) |-> Project(row, p)]

\* The farmer's id is known to the loop only if the config returns it;
\* otherwise the filter entry has no value and fails validation.
Identified == "frCentralId" \in service.config["farmerData"]

-----------------------------------------------------------------------------
(* The call.                                                               *)

End(code) ==
  /\ stage' = "answered"
  /\ status' = code

Goto(s) ==
  /\ stage' = s
  /\ status' = status

\* isSdjwtService is asked only for a synchronous call.
ChooseFlow ==
  /\ stage = "flag"
  /\ Goto(IF UsesSdjwt THEN "sdjwt" ELSE "seek")
  /\ UNCHANGED <<inputs, tables, changes, loopVars, reads>>

Authorize ==
  /\ stage = "seek"
  /\ IF service.mapped THEN Goto("config") ELSE End("SENDER_NOT_MAPPED_TO_SERVICE")
  /\ UNCHANGED <<inputs, tables, changes, loopVars, reads>>

\* The config, and the checks up to the first query.
ReadConfig ==
  /\ stage = "config"
  /\ \/ service.config = NoConfig /\ End("UNKNOWN_SERVICE_ID")
     \/ /\ service.config # NoConfig
        /\ "farmerData" \notin Configured
        /\ Goto("next")
     \/ /\ "farmerData" \in Configured
        /\ IF DOMAIN PickFilter("farmerData") = {}
           THEN End("MISSING_INPUT")
           ELSE Goto("farmerData")
  /\ UNCHANGED <<inputs, tables, changes, loopVars, reads>>

MatchFarmers ==
  /\ stage = "farmerData"
  /\ Valid("farmerData")
  /\ matched' = Selected("farmerData", PickFilter("farmerData"))
  /\ todo' = matched'
  /\ reads' = reads \cup {"farmerData"}
  /\ Goto("next")
  /\ UNCHANGED <<inputs, tables, changes, farmer, item, items>>

\* The profiles still to be fetched for a farmer after p, in the code's order.
After(p) ==
  IF p = "farmerData" /\ "landData" \in Configured THEN "landData"
  ELSE IF p # "landOwnershipData" /\ "landOwnershipData" \in Configured
       THEN "landOwnershipData"
       ELSE "entry"

\* Mutant: the farmer stays in the list it was taken from.
StartFarmerAgain ==
  /\ stage = "next"
  /\ \E f \in todo :
       /\ farmer' = {f}
       /\ item' = [p \in {"farmerData"} |-> Project(f, "farmerData")]
  /\ Goto(After("farmerData"))
  /\ UNCHANGED <<inputs, tables, changes, todo, items, matched, reads>>

StartFarmer ==
  /\ stage = "next"
  /\ \E f \in todo :
       /\ farmer' = {f}
       /\ todo' = todo \ {f}
       /\ item' = [p \in {"farmerData"} |-> Project(f, "farmerData")]
  /\ Goto(After("farmerData"))
  /\ UNCHANGED <<inputs, tables, changes, items, matched, reads>>

\* farmerLand or farmerLandOwnership, for the farmer the loop is at.
FetchRelated(p) ==
  /\ stage = p
  /\ Valid(p) /\ Identified
  /\ \E f \in farmer :
       item' = [q \in DOMAIN item \cup {p} |->
                  IF q = p THEN Returned(p, RelatedFilter(p, f.frCentralId)) ELSE item[q]]
  /\ reads' = reads \cup {p}
  /\ Goto(After(p))
  /\ UNCHANGED <<inputs, tables, changes, todo, farmer, items, matched>>

PushItem ==
  /\ stage = "entry"
  /\ items' = [f \in DOMAIN items \cup farmer |-> IF f \in farmer THEN item ELSE items[f]]
  /\ farmer' = {}
  /\ item' = NoConfig
  /\ Goto("next")
  /\ UNCHANGED <<inputs, tables, changes, todo, matched, reads>>

Succeed ==
  /\ stage = "next"
  /\ todo = {}
  /\ End("NA")
  /\ UNCHANGED <<inputs, tables, changes, loopVars, reads>>

-----------------------------------------------------------------------------
(* The SD-JWT flow.                                                        *)

\* Mutant: the flow that bypasses resolveSeekResponse bypasses its check.
AuthorizeSdjwtMissing ==
  /\ stage = "sdjwt"
  /\ IF request.farmerId = Null THEN End("MISSING_FARMER_ID")
     ELSE IF request.publicKey = NoKey THEN End("MISSING_PUBLIC_KEY")
     ELSE IF request.alg \notin {Null, "RSA-OAEP-256"} THEN End("UNSUPPORTED_ALG")
     ELSE Goto("credential")
  /\ UNCHANGED <<inputs, tables, changes, loopVars, reads>>

\* The mapping, then the fields of query_param, in the code's order.
AuthorizeSdjwt ==
  /\ stage = "sdjwt"
  /\ IF ~service.mapped THEN End("SENDER_NOT_MAPPED_TO_SERVICE")
     ELSE IF request.farmerId = Null THEN End("MISSING_FARMER_ID")
     ELSE IF request.publicKey = NoKey THEN End("MISSING_PUBLIC_KEY")
     ELSE IF request.alg \notin {Null, "RSA-OAEP-256"} THEN End("UNSUPPORTED_ALG")
     ELSE Goto("credential")
  /\ UNCHANGED <<inputs, tables, changes, loopVars, reads>>

ShareCredential ==
  /\ stage = "credential"
  /\ reads' = reads \cup {"credential"}
  /\ Goto("seal")
  /\ UNCHANGED <<inputs, tables, changes, loopVars>>

\* No SDJWT_SHARE_API_URL or no connection; or the credential service was asked
\* and its answer is not ok, not JSON, or has no sdJwt in it.
CredentialUnavailable ==
  /\ stage = "credential"
  /\ End("SDJWT_SERVICE_UNAVAILABLE")
  /\ reads' \in {reads, reads \cup {"credential"}}
  /\ UNCHANGED <<inputs, tables, changes, loopVars>>

\* encryptForAiu throws for a key OpenSSL cannot use.
Seal ==
  /\ stage = "seal"
  /\ End(IF Usable(request.publicKey) THEN "NA" ELSE "INVALID_PUBLIC_KEY")
  /\ UNCHANGED <<inputs, tables, changes, loopVars, reads>>

-----------------------------------------------------------------------------
\* Mutant: callGraphQL returns what there is, errors or not.
CallRejectsQuietly ==
  /\ stage \in {"landData", "landOwnershipData"}
  /\ Goto(After(stage))
  /\ UNCHANGED <<inputs, tables, changes, loopVars, reads>>

\* A lookup in Redis or ClickHouse or a GraphQL call fails, and the call with
\* it: callGraphQL throws on any error, and the handler gets no answer.
CallRejects ==
  /\ stage \in Profile \cup {"flag", "seek", "config", "sdjwt"}
  /\ Goto("thrown")
  /\ reads' = reads \cup ({stage} \cap Source)
  /\ UNCHANGED <<inputs, tables, changes, loopVars>>

\* The data platform inserts or deletes a row.
TableChanges ==
  /\ stage \notin {"answered", "thrown"}
  /\ changes < MaxChanges
  /\ changes' = changes + 1
  /\ \E p \in Profile : \E row \in Rows[p] :
       tables' = [tables EXCEPT ![p] = (@ \ {row}) \cup ({row} \ @)]
  /\ UNCHANGED <<inputs, stage, status, loopVars, reads>>

Next ==
  \/ ChooseFlow \/ Authorize \/ ReadConfig \/ MatchFarmers
  \/ StartFarmer \/ PushItem \/ Succeed
  \/ \E p \in {"landData", "landOwnershipData"} : FetchRelated(p)
  \/ AuthorizeSdjwt \/ ShareCredential \/ CredentialUnavailable \/ Seal
  \/ CallRejects \/ TableChanges

Spec == Init /\ [][Next]_vars

-----------------------------------------------------------------------------
Answered == stage = "answered" /\ status = "NA" /\ ~UsesSdjwt

(***************************************************************************)
(* resolveSdjwtSeek.js:48-52 and resolveSeekResponse.js:59-62: a call      *)
(* reads no farmer's data from any source unless the sender is mapped to   *)
(* the service, then only from the flow and the profiles of that service,  *)
(* and nothing in the answer goes beyond the attributes of its config, the *)
(* id the resolvers always select included.                                *)
(***************************************************************************)
Entitled ==
  /\ reads # {} => service.mapped
  /\ reads \subseteq IF UsesSdjwt THEN {"credential"} ELSE Configured
  /\ \A f \in DOMAIN items :
       /\ DOMAIN items[f].farmerData = service.config["farmerData"]
       /\ \A p \in DOMAIN items[f] \ {"farmerData"} : \A row \in DOMAIN items[f][p] :
            DOMAIN items[f][p][row] = service.config[p]

(***************************************************************************)
(* README.md:103: the land and ownership records in a farmer's entry are   *)
(* that farmer's, whatever query_param asks for and whatever changes in    *)
(* the tables between the three queries.                                   *)
(***************************************************************************)
LandBelongsToFarmer ==
  \A f \in DOMAIN items : \A p \in DOMAIN items[f] \ {"farmerData"} :
    \A row \in DOMAIN items[f][p] : row.frCentralId = f.frCentralId

(***************************************************************************)
(* README.md:100-105: an answer with status succeed has one entry for each *)
(* farmer the demographic query matched and, in each, every profile of the *)
(* config: a query that fails on the way leaves no shorter answer.         *)
(***************************************************************************)
NoPartialAnswer ==
  Answered =>
    /\ DOMAIN items = matched
    /\ \A f \in matched : DOMAIN items[f] = Configured

\* Whether the entries of query_param for these fields, the last one for each,
\* agree with the row; an entry of value null asks nothing.
Agrees(row, fields) ==
  \A i \in DOMAIN request.param :
    LET e == request.param[i]
    IN  /\ e.field \in fields
        /\ ~\E j \in DOMAIN request.param : j > i /\ request.param[j].field = e.field
        /\ e.value # Null
        => row[e.field] = e.value

(***************************************************************************)
(* README.md:99: "All supplied fields are ANDed together".  If no table    *)
(* changes during the call, a successful answer is the join of the tables: *)
(* the farmers that agree with query_param, each with all of their land    *)
(* and ownership records that agree with it, and no others.                *)
(***************************************************************************)
AnswerIsJoin ==
  Answered /\ changes = 0 /\ "farmerData" \in Configured =>
    /\ DOMAIN items = {f \in Rows["farmerData"] : Agrees(f, inputFields["farmerData"])}
    /\ \A f \in DOMAIN items : \A p \in Configured \ {"farmerData"} :
         DOMAIN items[f][p] =
           {row \in Rows[p] : row.frCentralId = f.frCentralId
                                /\ Agrees(row, inputFields[p])}

(***************************************************************************)
(* envelopeEncrypt.js:10-24: a caller who sends a usable key in any of the *)
(* four forms that are listed there gets the credential or an error of the *)
(* service, and is never told that the key is invalid.                     *)
(***************************************************************************)
EveryKeyFormSeals == status = "INVALID_PUBLIC_KEY" => request.publicKey \notin Form
=============================================================================
