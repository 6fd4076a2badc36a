--------------------------- MODULE SeekDisclosure ---------------------------
(***************************************************************************)
(* What the audit trail says a call has disclosed: the event that          *)
(* buildSeekProcessedEvent derives from the answer of SeekQuery, and the   *)
(* farmer_data_sharing_log rows that the telemetry consumer derives from   *)
(* the event.  When and whether they are written is SeekAudit's matter;    *)
(* here the event is taken up once, with telemetry on.                     *)
(***************************************************************************)
EXTENDS SeekQuery

VARIABLES
  event,       \* the sharing part of the SEEK_PROCESSED event
  sharingRows  \* rows of farmer_data_sharing_log, indexed by the farmerIds entry

NoRows  == NoConfig
NoEvent == [status |-> "none", farmerIds |-> NoRows, farmerPayloads |-> NoRows]

auditVars == <<event, sharingRows>>

DisclosureInit == Init /\ event = NoEvent /\ sharingRows = NoRows

\* filter(Boolean), filter((item) => item.farmerData?.frCentralId): entries of
\* the answer that carry their farmer's id.
WithId == {f \in DOMAIN items : "frCentralId" \in DOMAIN items[f].farmerData}

IdOf(f) == items[f].farmerData.frCentralId

\* The event of resolveSeekResponse's answer; a failed one has no seek_response.
FromAnswer ==
  [status         |-> IF status = "NA" THEN "SUCCESS" ELSE "FAILED",
   farmerIds      |-> [f \in WithId |-> IdOf(f)],
   farmerPayloads |-> [f \in WithId |-> items[f]]]

\* auditMeta of resolveSdjwtSeek, which returns it with a credential only.
FromCredential ==
  [status         |-> "SUCCESS",
   farmerIds      |-> [k \in {"credential"} |-> request.farmerId],
   farmerPayloads |-> [k \in {"credential"} |-> "sdJwt"]]

BuildSeekProcessedEvent ==
  /\ stage = "answered"
  /\ event = NoEvent
  /\ event' = IF UsesSdjwt /\ status = "NA" THEN FromCredential ELSE FromAnswer
  /\ UNCHANGED <<vars, sharingRows>>

\* Mutant: every row gets the payload of one of them.
RowsWithOnePayload ==
  \E one \in DOMAIN event.farmerIds :
    sharingRows' = [k \in DOMAIN event.farmerIds |->
                      [frCentralId   |-> event.farmerIds[k],
                       sharedPayload |-> event.farmerPayloads[one]]]

Ids == {event.farmerIds[k] : k \in DOMAIN event.farmerIds}

\* new Map(...) keeps one payload for each id: of several entries with the same
\* id the last, whichever that is in ClickHouse's order.
RowsByFarmer ==
  \E kept \in [Ids -> DOMAIN event.farmerIds] :
    /\ \A id \in Ids : event.farmerIds[kept[id]] = id
    /\ sharingRows' = [k \in DOMAIN event.farmerIds |->
                         [frCentralId   |-> event.farmerIds[k],
                          sharedPayload |-> event.farmerPayloads[kept[event.farmerIds[k]]]]]

WriteFarmerTransparency ==
  /\ event.status = "SUCCESS"
  /\ DOMAIN event.farmerIds # {}
  /\ sharingRows = NoRows
  /\ RowsByFarmer
  /\ UNCHANGED <<vars, event>>

DisclosureNext ==
  \/ Next /\ UNCHANGED auditVars
  \/ BuildSeekProcessedEvent
  \/ WriteFarmerTransparency

DisclosureSpec == DisclosureInit /\ [][DisclosureNext]_<<vars, auditVars>>

-----------------------------------------------------------------------------
Written == DOMAIN sharingRows # {}

(***************************************************************************)
(* eventBuilder.js:33-37, telemetry/consumer.js:120-143: the rows of an    *)
(* answer are those of the farmers in it, one for each entry, with data    *)
(* that this answer gave of that farmer and never another's; the row of a  *)
(* credential is its farmer's, although that answer has no seek_response   *)
(* to derive it from.  That the data is the entry's own, when a farmer has *)
(* two, is EachRowItsOwnPayload.                                           *)
(***************************************************************************)
RowsTellWhatWasShared ==
  Written =>
    IF UsesSdjwt
    THEN \A k \in DOMAIN sharingRows : sharingRows[k].frCentralId = request.farmerId
    ELSE /\ DOMAIN sharingRows = DOMAIN items
         /\ \A f \in DOMAIN items :
              /\ sharingRows[f].frCentralId = f.frCentralId
              /\ \E g \in DOMAIN items :
                   g.frCentralId = f.frCentralId /\ sharingRows[f].sharedPayload = items[g]

(***************************************************************************)
(* telemetry/consumer.js:125-127: "each row gets its own matching payload, *)
(* not a shared/duplicated one".  The code does not keep to it when the    *)
(* demographic query matches two rows of one farmer: the Map keeps one     *)
(* payload for the id, so both rows get it and the other is not logged.    *)
(***************************************************************************)
EachRowItsOwnPayload ==
  Written /\ ~UsesSdjwt => \A f \in DOMAIN items : sharingRows[f].sharedPayload = items[f]
=============================================================================
