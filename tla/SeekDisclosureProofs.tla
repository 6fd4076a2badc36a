------------------------ MODULE SeekDisclosureProofs ------------------------
(***************************************************************************)
(* Theorems about SeekDisclosure, on top of those about SeekQuery: what    *)
(* the transparency rows say agrees with the answer, for any rows of the   *)
(* tables, requests and configs.                                           *)
(***************************************************************************)
EXTENDS SeekDisclosure, SeekQueryProofs

\* The event was derived from the answer as it still is.
EventInv ==
  /\ event.status # "none" => stage = "answered"
  /\ event.status # "none" /\ ~UsesSdjwt =>
       /\ event.farmerIds = [f \in WithId |-> IdOf(f)]
       /\ event.farmerPayloads = [f \in WithId |-> items[f]]
  /\ event.status = "SUCCESS" /\ UsesSdjwt =>
       event.farmerIds = [k \in {"credential"} |-> request.farmerId]

DisclosureInv ==
  /\ EventInv
  /\ Written => stage = "answered"
  /\ RowsTellWhatWasShared

-----------------------------------------------------------------------------
\* The resolution takes no notice of its audit: each of its steps is one of
\* SeekQuery, so what is proved of Spec holds here.
THEOREM DisclosureIsQuery == DisclosureSpec => Spec
<1>1. DisclosureInit => Init
  BY DEF DisclosureInit
<1>2. [DisclosureNext]_<<vars, auditVars>> => [Next]_vars
  BY DEF DisclosureNext, BuildSeekProcessedEvent, WriteFarmerTransparency
<1>3. QED
  BY <1>1, <1>2, PTL DEF DisclosureSpec, Spec

\* A call that has its answer is over.
LEMMA AnsweredIsOver == ASSUME stage = "answered", [Next]_vars PROVE UNCHANGED vars
  BY DEF Next, ChooseFlow, Authorize, ReadConfig, MatchFarmers, StartFarmer, PushItem, Succeed,
         FetchRelated, AuthorizeSdjwt, ShareCredential, CredentialUnavailable, Seal,
         CallRejects, TableChanges, Profile

\* The ids in an answer are those of its farmers, in all entries or in none.
LEMMA AnswerIds ==
  ASSUME QInv
  PROVE  /\ \A f \in WithId : IdOf(f) = f.frCentralId
         /\ WithId # {} => WithId = DOMAIN items
<1>1. \A f \in DOMAIN items : items[f].farmerData = Project(f, "farmerData")
  BY DEF QInv, EntryInv, EntryOf
<1>2. ASSUME NEW f \in DOMAIN items
      PROVE  /\ f \in WithId <=> "frCentralId" \in service.config["farmerData"]
             /\ f \in WithId => IdOf(f) = f["frCentralId"]
  BY <1>1 DEF WithId, IdOf, Project
<1>3. WithId \subseteq DOMAIN items
  BY DEF WithId
<1>4. QED
  BY <1>2, <1>3

\* Of an answer that is not changed, the event and the rows stay true.
LEMMA NothingMoves ==
  ASSUME DisclosureInv, UNCHANGED <<vars, auditVars>>
  PROVE  DisclosureInv'
<1>1. /\ UNCHANGED <<request, service, stage, status, items, event, sharingRows>>
      /\ UsesSdjwt' = UsesSdjwt /\ WithId' = WithId
      /\ \A f : IdOf(f)' = IdOf(f)
  BY DEF vars, auditVars, inputs, loopVars, UsesSdjwt, WithId, IdOf
<1>2. EventInv'
  BY <1>1 DEF DisclosureInv, EventInv
<1>3. Written' = Written /\ RowsTellWhatWasShared'
  BY <1>1 DEF DisclosureInv, RowsTellWhatWasShared, Written
<1>4. QED
  BY <1>1, <1>2, <1>3 DEF DisclosureInv

\* The resolution goes on, or is over and the audit is as it was.
LEMMA ResolutionStep ==
  ASSUME DisclosureInv, Next, UNCHANGED auditVars
  PROVE  DisclosureInv'
<1>1. CASE stage = "answered"
  BY <1>1, AnsweredIsOver, NothingMoves
<1>2. CASE stage # "answered"
  <2>1. event.status = "none" /\ ~Written /\ UNCHANGED <<event, sharingRows>>
    BY <1>2 DEF DisclosureInv, EventInv, auditVars
  <2>2. event'.status = "none" /\ ~Written'
    BY <2>1 DEF Written
  <2>3. QED
    BY <2>2 DEF DisclosureInv, EventInv, RowsTellWhatWasShared
<1>3. QED
  BY <1>1, <1>2

LEMMA BuildStep ==
  ASSUME DisclosureInv, BuildSeekProcessedEvent
  PROVE  DisclosureInv'
<1>1. /\ UNCHANGED <<request, service, stage, status, items, sharingRows>>
      /\ UsesSdjwt' = UsesSdjwt /\ WithId' = WithId
      /\ \A f : IdOf(f)' = IdOf(f)
      /\ stage = "answered"
  BY DEF BuildSeekProcessedEvent, vars, inputs, loopVars, UsesSdjwt, WithId, IdOf
<1>2. Written' = Written /\ RowsTellWhatWasShared'
  BY <1>1 DEF DisclosureInv, RowsTellWhatWasShared, Written
<1>3. event' = IF UsesSdjwt /\ status = "NA" THEN FromCredential ELSE FromAnswer
  BY DEF BuildSeekProcessedEvent
<1>4. CASE UsesSdjwt /\ status = "NA"
  <2>1. event'.farmerIds = [k \in {"credential"} |-> request.farmerId]
    BY <1>3, <1>4 DEF FromCredential
  <2>2. QED
    BY <1>1, <1>2, <1>4, <2>1 DEF DisclosureInv, EventInv
<1>5. CASE ~(UsesSdjwt /\ status = "NA")
  <2>1. /\ event'.status = IF status = "NA" THEN "SUCCESS" ELSE "FAILED"
        /\ event'.farmerIds = [f \in WithId |-> IdOf(f)]
        /\ event'.farmerPayloads = [f \in WithId |-> items[f]]
    BY <1>3, <1>5 DEF FromAnswer
  <2>2. QED
    BY <1>1, <1>2, <1>5, <2>1 DEF DisclosureInv, EventInv
<1>6. QED
  BY <1>4, <1>5

LEMMA WriteStep ==
  ASSUME DisclosureInv, QInv, WriteFarmerTransparency
  PROVE  DisclosureInv'
<1>1. /\ UNCHANGED <<request, service, stage, status, items, event>>
      /\ UsesSdjwt' = UsesSdjwt /\ WithId' = WithId
      /\ \A f : IdOf(f)' = IdOf(f)
  BY DEF WriteFarmerTransparency, vars, inputs, loopVars, UsesSdjwt, WithId, IdOf
<1>2. EventInv' /\ stage = "answered" /\ event.status = "SUCCESS"
  BY <1>1 DEF DisclosureInv, EventInv, WriteFarmerTransparency
<1>3. PICK kept \in [Ids -> DOMAIN event.farmerIds] :
        /\ \A id \in Ids : event.farmerIds[kept[id]] = id
        /\ sharingRows' = [k \in DOMAIN event.farmerIds |->
                             [frCentralId   |-> event.farmerIds[k],
                              sharedPayload |-> event.farmerPayloads[kept[event.farmerIds[k]]]]]
  BY DEF WriteFarmerTransparency, RowsByFarmer
<1>4. DOMAIN sharingRows' = DOMAIN event.farmerIds
      /\ \A k \in DOMAIN event.farmerIds :
           /\ sharingRows'[k].frCentralId = event.farmerIds[k]
           /\ sharingRows'[k].sharedPayload = event.farmerPayloads[kept[event.farmerIds[k]]]
           /\ kept[event.farmerIds[k]] \in DOMAIN event.farmerIds
           /\ event.farmerIds[kept[event.farmerIds[k]]] = event.farmerIds[k]
  BY <1>3 DEF Ids
<1>5. CASE UsesSdjwt
  <2>1. event.farmerIds = [k \in {"credential"} |-> request.farmerId]
    BY <1>2, <1>5 DEF DisclosureInv, EventInv
  <2>2. \A k \in DOMAIN sharingRows' : sharingRows'[k].frCentralId = request.farmerId
    BY <1>4, <2>1
  <2>3. QED
    BY <1>1, <1>2, <1>5, <2>2 DEF DisclosureInv, RowsTellWhatWasShared
<1>6. CASE ~UsesSdjwt
  <2>1. /\ event.farmerIds = [f \in WithId |-> IdOf(f)]
        /\ event.farmerPayloads = [f \in WithId |-> items[f]]
    BY <1>2, <1>6 DEF DisclosureInv, EventInv
  <2>2. /\ DOMAIN event.farmerIds = WithId
        /\ \A f \in WithId : event.farmerIds[f] = f.frCentralId /\ event.farmerPayloads[f] = items[f]
    BY <2>1, AnswerIds
  <2>3. WithId \subseteq DOMAIN items /\ (WithId # {} => WithId = DOMAIN items)
    BY AnswerIds DEF WithId
  <2>4. ASSUME NEW f \in WithId
        PROVE  /\ sharingRows'[f].frCentralId = f.frCentralId
               /\ \E g \in DOMAIN items : /\ g.frCentralId = f.frCentralId
                                          /\ sharingRows'[f].sharedPayload = items[g]
    <3>1. /\ kept[event.farmerIds[f]] \in WithId
          /\ event.farmerIds[kept[event.farmerIds[f]]] = f.frCentralId
          /\ sharingRows'[f].sharedPayload = event.farmerPayloads[kept[event.farmerIds[f]]]
          /\ sharingRows'[f].frCentralId = f.frCentralId
      BY <1>4, <2>2
    <3>2. QED
      BY <2>2, <2>3, <3>1
  <2>5. DOMAIN sharingRows' = WithId
    BY <1>4, <2>2
  <2>6. RowsTellWhatWasShared'
    BY <1>1, <1>6, <2>3, <2>4, <2>5 DEF RowsTellWhatWasShared, Written
  <2>7. QED
    BY <1>1, <1>2, <2>6 DEF DisclosureInv
<1>7. QED
  BY <1>5, <1>6

\* Every transparency row is about a farmer of the answer and carries data that
\* the answer gave of that farmer, whichever of two entries the map kept.
THEOREM RowsAreTrue == DisclosureSpec => []RowsTellWhatWasShared
<1>1. DisclosureInit => DisclosureInv
  BY DEF DisclosureInit, DisclosureInv, EventInv, RowsTellWhatWasShared, Written,
         NoEvent, NoRows, NoConfig
<1>2. DisclosureInv /\ QInv /\ [DisclosureNext]_<<vars, auditVars>> => DisclosureInv'
  BY ResolutionStep, BuildStep, WriteStep, NothingMoves DEF DisclosureNext
<1>3. DisclosureInv => RowsTellWhatWasShared
  BY DEF DisclosureInv
<1>4. QED
  BY <1>1, <1>2, <1>3, DisclosureIsQuery, QueryInvariant, PTL DEF DisclosureSpec
=============================================================================
