-------------------------- MODULE SeekQueryProofs --------------------------
(***************************************************************************)
(* Theorems about SeekQuery: for every set of rows, requests and configs,  *)
(* and any number of changes during the call, nothing is read or returned  *)
(* that the sender is not entitled to, every entry is one farmer's, no     *)
(* answer is partial, an answer given without a change is the join of the  *)
(* tables, and a key in a documented form is never called invalid.         *)
(***************************************************************************)
EXTENDS SeekQuery, FiniteSetTheorems, WellFoundedInduction, TLAPS

InLoop == {"landData", "landOwnershipData", "entry"}

\* What is known of the sender, the flow and the profile at each stage.
FlowInv ==
  /\ service \in Service
  /\ stage \in {"config", "next"} \cup Profile \cup InLoop => service.mapped /\ ~UsesSdjwt
  /\ stage \in {"credential", "seal"} => service.mapped /\ UsesSdjwt
  /\ stage = "seek" => ~UsesSdjwt
  /\ stage = "sdjwt" => UsesSdjwt
  /\ stage \in Profile => stage \in Configured

\* Data is asked for by the sender's own flow and config only.
ReadInv ==
  /\ reads # {} => service.mapped
  /\ reads \subseteq IF UsesSdjwt THEN {"credential"} ELSE Configured

\* Every matched farmer is waiting, in hand, or has an entry.
LoopInv ==
  /\ matched = todo \cup farmer \cup DOMAIN items
  /\ matched # {} => "farmerData" \in Configured
  /\ stage \in InLoop => \E f : farmer = {f}
  /\ stage \notin InLoop \cup {"thrown"} => farmer = {}
  /\ stage \in {"flag", "seek", "config", "farmerData"} => DOMAIN items = {}
  /\ stage # "answered" => status = "none"
  /\ Answered => todo = {}

\* it is an entry for f with the profiles ps, within f's data and the config.
EntryOf(f, it, ps) ==
  /\ DOMAIN it = ps
  /\ it.farmerData = Project(f, "farmerData")
  /\ \A p \in ps \ {"farmerData"} : \A row \in DOMAIN it[p] :
       /\ row.frCentralId = f.frCentralId
       /\ DOMAIN it[p][row] = service.config[p]

\* The profiles in the current entry at a stage of the loop.
Fetched(s) ==
  CASE s = "landData"          -> {"farmerData"}
    [] s = "landOwnershipData" -> {"farmerData"} \cup (Configured \cap {"landData"})
    [] OTHER                   -> {"farmerData"} \cup Configured

EntryInv ==
  /\ \A f \in DOMAIN items : EntryOf(f, items[f], Configured)
  /\ stage \in InLoop => \A f \in farmer : EntryOf(f, item, Fetched(stage))

QInv == FlowInv /\ ReadInv /\ LoopInv /\ EntryInv

-----------------------------------------------------------------------------
\* Only profiles are configured.
LEMMA ConfiguredProfiles == ASSUME service \in Service PROVE Configured \subseteq Profile
  BY QueryAssumption DEF Configured, NoConfig

\* Whatever query_param says, the related records are those of the farmer.
LEMMA RelatedSelected ==
  ASSUME NEW p \in Profile, NEW id, NEW row \in Selected(p, RelatedFilter(p, id))
  PROVE  row.frCentralId = id
<1>1. "frCentralId" \in DOMAIN RelatedFilter(p, id) /\ RelatedFilter(p, id)["frCentralId"] = id
  BY DEF RelatedFilter
<1>2. QED
  BY <1>1 DEF Selected

\* What a query of a profile returns has the attributes of the config.
LEMMA ReturnedShape ==
  ASSUME NEW p, NEW filter
  PROVE  /\ DOMAIN Returned(p, filter) = Selected(p, filter)
         /\ \A row \in Selected(p, filter) :
              DOMAIN Returned(p, filter)[row] = service.config[p]
  BY DEF Returned, Project

\* The loop goes from one configured profile to the next and then to the entry.
LEMMA AfterStages ==
  ASSUME NEW p \in Profile, p \in Configured, Configured \subseteq Profile,
         "farmerData" \in Configured
  PROVE  /\ After(p) \in InLoop
         /\ After(p) \in Profile => After(p) \in Configured
         /\ Fetched(After(p)) = IF p = "farmerData" THEN {"farmerData"} ELSE Fetched(p) \cup {p}
<1>1. CASE p = "farmerData"
  BY <1>1 DEF After, Fetched, InLoop, Profile
<1>2. CASE p = "landData"
  BY <1>2 DEF After, Fetched, InLoop, Profile
<1>3. CASE p = "landOwnershipData"
  BY <1>3 DEF After, Fetched, InLoop, Profile
<1>4. QED
  BY <1>1, <1>2, <1>3 DEF Profile

LEMMA QInit == Init => QInv
<1> SUFFICES ASSUME Init PROVE QInv
  OBVIOUS
<1> USE DEF Init
<1>1. FlowInv /\ ReadInv
  BY DEF FlowInv, ReadInv, Profile, InLoop
<1>2. DOMAIN items = {}
  BY DEF NoConfig
<1>3. LoopInv /\ EntryInv
  BY <1>2 DEF LoopInv, EntryInv, InLoop, Answered
<1>4. QED
  BY <1>1, <1>3 DEF QInv

-----------------------------------------------------------------------------
\* What depends on the request and the service alone does not change.
LEMMA InputsKept ==
  ASSUME UNCHANGED inputs
  PROVE  /\ Configured' = Configured /\ UsesSdjwt' = UsesSdjwt
         /\ service' = service
  BY DEF inputs, Configured, UsesSdjwt

\* Entries already made stay what they are.
LEMMA EntriesKept ==
  ASSUME EntryInv, UNCHANGED <<inputs, items>>
  PROVE  (\A f \in DOMAIN items : EntryOf(f, items[f], Configured))'
  BY InputsKept DEF EntryInv, EntryOf, Project, inputs

\* A step outside the loop that touches neither its variables nor the service.
LEMMA OutsideLoop ==
  ASSUME QInv, UNCHANGED <<inputs, loopVars>>,
         stage \notin InLoop, stage' \notin InLoop
  PROVE  EntryInv'
  BY EntriesKept DEF QInv, EntryInv, loopVars

LEMMA ChoiceSteps ==
  ASSUME QInv, ChooseFlow \/ Authorize \/ ReadConfig \/ Succeed
  PROVE  QInv'
<1> USE DEF QInv, Goto, End
<1>1. UNCHANGED <<inputs, loopVars, reads>>
  BY DEF ChooseFlow, Authorize, ReadConfig, Succeed
<1>2. /\ Configured' = Configured /\ UsesSdjwt' = UsesSdjwt /\ service' = service
      /\ todo' = todo /\ farmer' = farmer /\ items' = items /\ matched' = matched
      /\ reads' = reads
  BY <1>1, InputsKept DEF inputs, loopVars
<1>3. ReadInv'
  BY <1>2 DEF ReadInv
<1>4. CASE ChooseFlow
  <2>1. /\ stage = "flag"
        /\ stage' = IF UsesSdjwt THEN "sdjwt" ELSE "seek"
        /\ status' = status
    BY <1>4 DEF ChooseFlow
  <2>2. FlowInv'
    BY <2>1, <1>2 DEF FlowInv, Profile, InLoop
  <2>3. LoopInv'
    BY <2>1, <1>2 DEF LoopInv, InLoop, Answered
  <2>4. EntryInv'
    BY <2>1, <1>1, OutsideLoop DEF InLoop
  <2>5. QED
    BY <1>3, <2>2, <2>3, <2>4
<1>5. CASE Authorize
  <2>1. /\ stage = "seek"
        /\ \/ service.mapped /\ stage' = "config" /\ status' = status
           \/ stage' = "answered" /\ status' = "SENDER_NOT_MAPPED_TO_SERVICE"
    BY <1>5 DEF Authorize
  <2>2. FlowInv'
    BY <2>1, <1>2 DEF FlowInv, Profile, InLoop
  <2>3. LoopInv'
    BY <2>1, <1>2 DEF LoopInv, InLoop, Answered
  <2>4. EntryInv'
    BY <2>1, <1>1, OutsideLoop DEF InLoop
  <2>5. QED
    BY <1>3, <2>2, <2>3, <2>4
<1>6. CASE ReadConfig
  <2>1. /\ stage = "config"
        /\ \/ stage' = "answered" /\ status' \in {"UNKNOWN_SERVICE_ID", "MISSING_INPUT"}
           \/ stage' = "next" /\ status' = status
           \/ stage' = "farmerData" /\ "farmerData" \in Configured /\ status' = status
    BY <1>6 DEF ReadConfig
  <2>2. FlowInv'
    BY <2>1, <1>2 DEF FlowInv, Profile, InLoop
  <2>3. LoopInv'
    BY <2>1, <1>2 DEF LoopInv, InLoop, Answered
  <2>4. EntryInv'
    BY <2>1, <1>1, OutsideLoop DEF InLoop
  <2>5. QED
    BY <1>3, <2>2, <2>3, <2>4
<1>7. CASE Succeed
  <2>1. stage = "next" /\ todo = {} /\ stage' = "answered" /\ status' = "NA"
    BY <1>7 DEF Succeed
  <2>2. FlowInv'
    BY <2>1, <1>2 DEF FlowInv, Profile, InLoop
  <2>3. LoopInv'
    BY <2>1, <1>2 DEF LoopInv, InLoop, Answered
  <2>4. EntryInv'
    BY <2>1, <1>1, OutsideLoop DEF InLoop
  <2>5. QED
    BY <1>3, <2>2, <2>3, <2>4
<1>8. QED
  BY <1>4, <1>5, <1>6, <1>7

LEMMA SdjwtSteps ==
  ASSUME QInv, AuthorizeSdjwt \/ ShareCredential \/ CredentialUnavailable \/ Seal
  PROVE  QInv'
<1> USE DEF QInv, Goto, End
<1>1. UNCHANGED <<inputs, loopVars>>
  BY DEF AuthorizeSdjwt, ShareCredential, CredentialUnavailable, Seal
<1>2. /\ Configured' = Configured /\ UsesSdjwt' = UsesSdjwt /\ service' = service
      /\ todo' = todo /\ farmer' = farmer /\ items' = items /\ matched' = matched
  BY <1>1, InputsKept DEF inputs, loopVars
<1>3. /\ stage \in {"sdjwt", "credential", "seal"} /\ UsesSdjwt
      /\ \/ stage' = "answered"
         \/ stage' \in {"credential", "seal"} /\ service.mapped /\ status' = status
      /\ \/ reads' = reads
         \/ reads' = reads \cup {"credential"} /\ service.mapped
  BY DEF AuthorizeSdjwt, ShareCredential, CredentialUnavailable, Seal, FlowInv
<1>4. FlowInv'
  BY <1>2, <1>3 DEF FlowInv, Profile, InLoop
<1>5. ReadInv'
  BY <1>2, <1>3 DEF ReadInv
<1>6. LoopInv'
  BY <1>2, <1>3 DEF LoopInv, InLoop, Answered
<1>7. EntryInv'
  BY <1>1, <1>3, OutsideLoop DEF InLoop
<1>8. QED
  BY <1>4, <1>5, <1>6, <1>7

-----------------------------------------------------------------------------
(* The loop.                                                               *)

LEMMA MatchStep == ASSUME QInv, MatchFarmers PROVE QInv'
<1> USE DEF QInv, Goto
<1>1. /\ stage = "farmerData" /\ stage' = "next" /\ status' = status
      /\ todo' = matched' /\ farmer' = farmer /\ items' = items
      /\ reads' = reads \cup {"farmerData"}
      /\ UNCHANGED <<inputs, items>>
  BY DEF MatchFarmers
<1>2. Configured' = Configured /\ UsesSdjwt' = UsesSdjwt /\ service' = service
  BY <1>1, InputsKept
<1>3. "farmerData" \in Configured /\ service.mapped /\ ~UsesSdjwt
  BY <1>1 DEF FlowInv, Profile
<1>4. FlowInv'
  BY <1>1, <1>2, <1>3 DEF FlowInv, Profile, InLoop
<1>5. ReadInv'
  BY <1>1, <1>2, <1>3 DEF ReadInv
<1>6. LoopInv'
  BY <1>1, <1>2, <1>3 DEF LoopInv, InLoop, Answered
<1>7. EntryInv'
  BY <1>1, EntriesKept DEF EntryInv, InLoop
<1>8. QED
  BY <1>4, <1>5, <1>6, <1>7

LEMMA StartStep == ASSUME QInv, StartFarmer PROVE QInv'
<1> USE DEF QInv, Goto
<1>1. PICK f \in todo : /\ farmer' = {f}
                        /\ todo' = todo \ {f}
                        /\ item' = [p \in {"farmerData"} |-> Project(f, "farmerData")]
  BY DEF StartFarmer
<1>2. /\ stage = "next" /\ stage' = After("farmerData") /\ status' = status
      /\ items' = items /\ matched' = matched /\ reads' = reads
      /\ UNCHANGED <<inputs, items>>
  BY DEF StartFarmer
<1>3. Configured' = Configured /\ UsesSdjwt' = UsesSdjwt /\ service' = service
  BY <1>2, InputsKept
<1>4. /\ "farmerData" \in Configured /\ Configured \subseteq Profile
      /\ service.mapped /\ ~UsesSdjwt
  BY <1>1, <1>2, ConfiguredProfiles DEF FlowInv, LoopInv
<1>5. /\ stage' \in InLoop
      /\ stage' \in Profile => stage' \in Configured
      /\ Fetched(stage') = {"farmerData"}
  BY <1>2, <1>4, AfterStages DEF Profile
<1>6. FlowInv'
  BY <1>2, <1>3, <1>4, <1>5 DEF FlowInv, Profile, InLoop
<1>7. ReadInv'
  BY <1>2, <1>3 DEF ReadInv
<1>8. LoopInv'
  BY <1>1, <1>2, <1>3, <1>4, <1>5 DEF LoopInv, InLoop, Answered
<1>9. EntryOf(f, item', {"farmerData"})
  BY <1>1 DEF EntryOf, Project
<1>10. EntryInv'
  <2>1. (\A g \in DOMAIN items : EntryOf(g, items[g], Configured))'
    BY <1>2, EntriesKept
  <2>2. Fetched(stage)' = {"farmerData"}
    BY <1>3, <1>5 DEF Fetched
  <2>3. (\A g \in farmer : EntryOf(g, item, Fetched(stage)))'
    BY <1>1, <1>3, <1>9, <2>2 DEF EntryOf, Project
  <2>4. QED
    BY <2>1, <2>3 DEF EntryInv
<1>11. QED
  BY <1>6, <1>7, <1>8, <1>10

LEMMA FetchStep ==
  ASSUME QInv, NEW p \in {"landData", "landOwnershipData"}, FetchRelated(p)
  PROVE  QInv'
<1> USE DEF QInv, Goto
<1>1. PICK f \in farmer :
        item' = [q \in DOMAIN item \cup {p} |->
                   IF q = p THEN Returned(p, RelatedFilter(p, f.frCentralId)) ELSE item[q]]
  BY DEF FetchRelated
<1>2. /\ stage = p /\ stage' = After(p) /\ status' = status
      /\ items' = items /\ matched' = matched /\ todo' = todo /\ farmer' = farmer
      /\ reads' = reads \cup {p}
      /\ UNCHANGED <<inputs, items>>
  BY DEF FetchRelated
<1>3. Configured' = Configured /\ UsesSdjwt' = UsesSdjwt /\ service' = service
  BY <1>2, InputsKept
<1>4. /\ p \in Profile /\ p \in Configured /\ p # "farmerData" /\ p \in InLoop
      /\ Configured \subseteq Profile
      /\ service.mapped /\ ~UsesSdjwt
  BY <1>2, ConfiguredProfiles DEF FlowInv, Profile, InLoop
<1>5. "farmerData" \in Configured /\ farmer = {f}
  BY <1>1, <1>2, <1>4 DEF LoopInv
<1>6. /\ stage' \in InLoop
      /\ stage' \in Profile => stage' \in Configured
      /\ Fetched(stage') = Fetched(p) \cup {p}
  BY <1>2, <1>4, <1>5, AfterStages
<1>7. FlowInv'
  BY <1>2, <1>3, <1>4, <1>6 DEF FlowInv, Profile, InLoop
<1>8. ReadInv'
  BY <1>2, <1>3, <1>4 DEF ReadInv
<1>9. LoopInv'
  BY <1>2, <1>3, <1>5, <1>6 DEF LoopInv, InLoop, Answered
<1>10. EntryOf(f, item', Fetched(p) \cup {p})
  <2>1. EntryOf(f, item, Fetched(p))
    BY <1>2, <1>4, <1>5 DEF EntryInv
  <2>2. DOMAIN item' = Fetched(p) \cup {p} /\ item'.farmerData = item.farmerData
    BY <1>1, <1>4, <2>1 DEF EntryOf, Fetched
  <2>3. \A q \in Fetched(p) \ {p} : item'[q] = item[q]
    BY <1>1, <2>1 DEF EntryOf
  <2>4. item'[p] = Returned(p, RelatedFilter(p, f.frCentralId))
    BY <1>1
  <2>5. \A row \in DOMAIN item'[p] :
          row.frCentralId = f.frCentralId /\ DOMAIN item'[p][row] = service.config[p]
    BY <1>4, <2>4, RelatedSelected, ReturnedShape
  <2>6. QED
    BY <2>1, <2>2, <2>3, <2>5 DEF EntryOf
<1>11. EntryInv'
  <2>1. (\A g \in DOMAIN items : EntryOf(g, items[g], Configured))'
    BY <1>2, EntriesKept
  <2>2. Fetched(stage)' = Fetched(p) \cup {p}
    BY <1>3, <1>6 DEF Fetched
  <2>3. (\A g \in farmer : EntryOf(g, item, Fetched(stage)))'
    BY <1>2, <1>3, <1>5, <1>10, <2>2 DEF EntryOf, Project
  <2>4. QED
    BY <2>1, <2>3 DEF EntryInv
<1>12. QED
  BY <1>7, <1>8, <1>9, <1>11

LEMMA PushStep == ASSUME QInv, PushItem PROVE QInv'
<1> USE DEF QInv, Goto
<1>1. /\ stage = "entry" /\ stage' = "next" /\ status' = status
      /\ items' = [f \in DOMAIN items \cup farmer |-> IF f \in farmer THEN item ELSE items[f]]
      /\ farmer' = {} /\ todo' = todo /\ matched' = matched /\ reads' = reads
      /\ UNCHANGED inputs
  BY DEF PushItem
<1>2. Configured' = Configured /\ UsesSdjwt' = UsesSdjwt /\ service' = service
  BY <1>1, InputsKept
<1>3. FlowInv'
  BY <1>1, <1>2 DEF FlowInv, Profile, InLoop
<1>4. ReadInv'
  BY <1>1, <1>2 DEF ReadInv
<1>5. LoopInv'
  BY <1>1, <1>2 DEF LoopInv, InLoop, Answered
<1>6. Fetched(stage) = Configured
  BY <1>1 DEF Fetched, LoopInv, InLoop
<1>7. \A f \in DOMAIN items' : EntryOf(f, items'[f], Configured)
  <2>1. \A f \in farmer : EntryOf(f, item, Configured)
    BY <1>1, <1>6 DEF EntryInv, InLoop
  <2>2. \A f \in DOMAIN items : EntryOf(f, items[f], Configured)
    BY DEF EntryInv
  <2>3. QED
    BY <1>1, <2>1, <2>2
<1>8. (\A f \in DOMAIN items : EntryOf(f, items[f], Configured))'
  BY <1>2, <1>7 DEF EntryOf, Project
<1>9. stage' \notin InLoop
  BY <1>1 DEF InLoop
<1>10. EntryInv'
  BY <1>8, <1>9 DEF EntryInv, InLoop
<1>11. QED
  BY <1>3, <1>4, <1>5, <1>10

\* A call that rejects ends the resolution, with whatever it had collected.
LEMMA RejectStep == ASSUME QInv, CallRejects PROVE QInv'
<1> USE DEF QInv, Goto
<1>1. /\ stage \in Profile \cup {"flag", "seek", "config", "sdjwt"}
      /\ stage' = "thrown" /\ status' = status
      /\ reads' = reads \cup ({stage} \cap Source)
      /\ UNCHANGED <<inputs, loopVars, items>>
  BY DEF CallRejects, loopVars
<1>2. /\ Configured' = Configured /\ UsesSdjwt' = UsesSdjwt /\ service' = service
      /\ todo' = todo /\ farmer' = farmer /\ items' = items /\ matched' = matched
  BY <1>1, InputsKept DEF loopVars
<1>3. FlowInv'
  BY <1>1, <1>2 DEF FlowInv, Profile, InLoop
<1>4. \/ reads' = reads
      \/ reads' = reads \cup {stage} /\ stage \in Configured /\ service.mapped /\ ~UsesSdjwt
  BY <1>1 DEF FlowInv, Source, Profile
<1>5. ReadInv'
  BY <1>2, <1>4 DEF ReadInv
<1>6. LoopInv'
  BY <1>1, <1>2 DEF LoopInv, InLoop, Profile, Answered
<1>7. EntryInv'
  BY <1>1, EntriesKept DEF EntryInv, InLoop
<1>8. QED
  BY <1>3, <1>5, <1>6, <1>7

\* What happens in the tables, or nothing at all, keeps the invariant.
LEMMA OutsideStep ==
  ASSUME QInv, UNCHANGED <<inputs, stage, status, loopVars, reads>>
  PROVE  QInv'
<1> USE DEF QInv
<1>1. /\ Configured' = Configured /\ UsesSdjwt' = UsesSdjwt /\ service' = service
      /\ todo' = todo /\ farmer' = farmer /\ item' = item /\ items' = items
      /\ matched' = matched /\ stage' = stage /\ status' = status /\ reads' = reads
  BY InputsKept DEF loopVars
<1>2. FlowInv' /\ ReadInv'
  BY <1>1 DEF FlowInv, ReadInv
<1>3. LoopInv'
  BY <1>1 DEF LoopInv, Answered
<1>4. EntryInv'
  <2>1. (\A f \in DOMAIN items : EntryOf(f, items[f], Configured))'
    BY <1>1, EntriesKept
  <2>2. Fetched(stage)' = Fetched(stage)
    BY <1>1 DEF Fetched
  <2>3. ASSUME stage' \in InLoop
        PROVE  (\A f \in farmer : EntryOf(f, item, Fetched(stage)))'
    <3>1. \A f \in farmer : EntryOf(f, item, Fetched(stage))
      BY <1>1, <2>3 DEF EntryInv, InLoop
    <3>2. QED
      BY <1>1, <2>2, <3>1 DEF EntryOf, Project
  <2>4. QED
    BY <2>1, <2>3 DEF EntryInv, InLoop
<1>5. QED
  BY <1>2, <1>3, <1>4

-----------------------------------------------------------------------------
\* The inductive invariant: what has been read, collected and assembled at
\* each stage of the resolution.
THEOREM QueryInvariant == Spec => []QInv
<1>1. QInv /\ [Next]_vars => QInv'
  <2> SUFFICES ASSUME QInv, [Next]_vars PROVE QInv'
    OBVIOUS
  <2>1. CASE ChooseFlow \/ Authorize \/ ReadConfig \/ Succeed
    BY <2>1, ChoiceSteps
  <2>2. CASE AuthorizeSdjwt \/ ShareCredential \/ CredentialUnavailable \/ Seal
    BY <2>2, SdjwtSteps
  <2>3. CASE MatchFarmers \/ StartFarmer \/ PushItem
    BY <2>3, MatchStep, StartStep, PushStep
  <2>4. CASE \E p \in {"landData", "landOwnershipData"} : FetchRelated(p)
    BY <2>4, FetchStep
  <2>5. CASE CallRejects
    BY <2>5, RejectStep
  <2>6. CASE TableChanges \/ UNCHANGED vars
    BY <2>6, OutsideStep DEF TableChanges, vars, inputs, loopVars
  <2>7. QED
    BY <2>1, <2>2, <2>3, <2>4, <2>5, <2>6 DEF Next
<1>2. QED
  BY QInit, <1>1, PTL DEF Spec

\* No data source is asked, and no attribute returned, beyond what the mapping
\* and the config of the service allow.
THEOREM OnlyEntitled == Spec => []Entitled
<1>1. QInv => Entitled
  <2> SUFFICES ASSUME QInv PROVE Entitled
    OBVIOUS
  <2>1. ASSUME NEW f \in DOMAIN items
        PROVE  EntryOf(f, items[f], Configured) /\ DOMAIN items[f] = Configured
    BY DEF QInv, EntryInv, EntryOf
  <2>2. \A f \in DOMAIN items : DOMAIN items[f].farmerData = service.config["farmerData"]
    BY <2>1 DEF EntryOf, Project
  <2>3. \A f \in DOMAIN items : \A p \in DOMAIN items[f] \ {"farmerData"} :
          \A row \in DOMAIN items[f][p] : DOMAIN items[f][p][row] = service.config[p]
    BY <2>1 DEF EntryOf
  <2>4. QED
    BY <2>2, <2>3 DEF QInv, ReadInv, Entitled
<1>2. QED
  BY QueryInvariant, <1>1, PTL

\* The land and ownership records of an entry are those of its farmer.
THEOREM EntriesAreOneFarmers == Spec => []LandBelongsToFarmer
<1>1. QInv => LandBelongsToFarmer
  BY DEF QInv, EntryInv, EntryOf, LandBelongsToFarmer
<1>2. QED
  BY QueryInvariant, <1>1, PTL

\* A successful answer has every matched farmer, with every configured profile.
THEOREM AnswersAreWhole == Spec => []NoPartialAnswer
<1>1. QInv => NoPartialAnswer
  <2> SUFFICES ASSUME QInv, Answered PROVE DOMAIN items = matched /\
                 \A f \in matched : DOMAIN items[f] = Configured
    BY DEF NoPartialAnswer
  <2>1. todo = {} /\ farmer = {}
    BY DEF QInv, LoopInv, Answered, InLoop
  <2>2. DOMAIN items = matched
    BY <2>1 DEF QInv, LoopInv
  <2>3. QED
    BY <2>2 DEF QInv, EntryInv, EntryOf
<1>2. QED
  BY QueryInvariant, <1>1, PTL

-----------------------------------------------------------------------------
(* Type correctness.                                                       *)

Statuses ==
  {"none", "NA", "SENDER_NOT_MAPPED_TO_SERVICE", "UNKNOWN_SERVICE_ID",
   "MISSING_INPUT", "MISSING_FARMER_ID", "MISSING_PUBLIC_KEY",
   "UNSUPPORTED_ALG", "SDJWT_SERVICE_UNAVAILABLE", "INVALID_PUBLIC_KEY"}

Stages == Source \cup {"flag", "seek", "config", "next", "entry", "sdjwt",
                       "seal", "answered", "thrown"}

LoopType ==
  /\ matched \subseteq Rows["farmerData"]
  /\ todo \subseteq matched /\ farmer \subseteq matched /\ DOMAIN items \subseteq matched
  /\ Cardinality(farmer) <= 1
  /\ todo \cap (farmer \cup DOMAIN items) = {}
  /\ DOMAIN item \subseteq Profile

TablesType == DOMAIN tables = Profile /\ \A p \in Profile : tables[p] \subseteq Rows[p]

LEMMA AfterType == ASSUME NEW p PROVE After(p) \in {"landData", "landOwnershipData", "entry"}
  BY DEF After

\* No step leaves the stages and the codes of the answer.
LEMMA StageType ==
  ASSUME stage \in Stages, status \in Statuses, reads \subseteq Source, [Next]_vars
  PROVE  stage' \in Stages /\ status' \in Statuses /\ reads' \subseteq Source
<1> USE DEF Stages, Statuses, Source, Profile, End, Goto
<1>1. CASE ChooseFlow \/ Authorize \/ ReadConfig \/ Succeed
  BY <1>1 DEF ChooseFlow, Authorize, ReadConfig, Succeed
<1>2. CASE AuthorizeSdjwt \/ ShareCredential \/ CredentialUnavailable \/ Seal
  BY <1>2 DEF AuthorizeSdjwt, ShareCredential, CredentialUnavailable, Seal
<1>3. CASE MatchFarmers \/ StartFarmer \/ PushItem
  BY <1>3, AfterType DEF MatchFarmers, StartFarmer, PushItem
<1>4. CASE \E p \in {"landData", "landOwnershipData"} : FetchRelated(p)
  BY <1>4, AfterType DEF FetchRelated
<1>5. CASE CallRejects \/ TableChanges \/ UNCHANGED vars
  BY <1>5 DEF CallRejects, TableChanges, vars
<1>6. QED
  BY <1>1, <1>2, <1>3, <1>4, <1>5 DEF Next

\* The tables keep to the rows they may hold.
LEMMA TablesStep ==
  ASSUME TablesType, changes \in 0..MaxChanges, [Next]_vars
  PROVE  TablesType' /\ changes' \in 0..MaxChanges
<1>1. CASE TableChanges
  <2>1. PICK p \in Profile : \E row \in Rows[p] :
          tables' = [tables EXCEPT ![p] = (tables[p] \ {row}) \cup ({row} \ tables[p])]
    BY <1>1 DEF TableChanges
  <2>2. changes' \in 0..MaxChanges
    BY <1>1, QueryAssumption DEF TableChanges
  <2>3. QED
    BY <2>1, <2>2 DEF TablesType
<1>2. CASE ~TableChanges
  <2>1. UNCHANGED <<tables, changes>>
    BY <1>2 DEF Next, vars, ChooseFlow, Authorize, ReadConfig, MatchFarmers, StartFarmer,
           PushItem, Succeed, FetchRelated, AuthorizeSdjwt, ShareCredential,
           CredentialUnavailable, Seal, CallRejects
  <2>2. QED
    BY <2>1 DEF TablesType
<1>3. QED
  BY <1>1, <1>2

\* The loop hands each matched farmer from the list to its entry.
LEMMA LoopStep ==
  ASSUME LoopType, TablesType, QInv, [Next]_vars
  PROVE  LoopType'
<1> USE DEF LoopType
<1>1. CASE UNCHANGED loopVars
  BY <1>1 DEF loopVars
<1>2. CASE MatchFarmers
  <2>1. farmer = {} /\ DOMAIN items = {}
    BY <1>2 DEF MatchFarmers, QInv, LoopInv, InLoop
  <2>2. matched' \subseteq Rows["farmerData"] /\ todo' = matched'
        /\ UNCHANGED <<farmer, item, items>>
    BY <1>2 DEF MatchFarmers, Selected, TablesType, Profile
  <2>3. QED
    BY <2>1, <2>2
<1>3. CASE StartFarmer
  <2>1. PICK f \in todo : /\ farmer' = {f} /\ todo' = todo \ {f}
                          /\ item' = [p \in {"farmerData"} |-> Project(f, "farmerData")]
                          /\ UNCHANGED <<items, matched>>
    BY <1>3 DEF StartFarmer
  <2>2. Cardinality(farmer') <= 1
    BY <2>1, FS_Singleton
  <2>3. QED
    BY <2>1, <2>2 DEF Profile
<1>4. CASE \E p \in {"landData", "landOwnershipData"} : FetchRelated(p)
  <2>1. PICK p \in {"landData", "landOwnershipData"} : FetchRelated(p)
    BY <1>4
  <2>2. DOMAIN item' = DOMAIN item \cup {p} /\ UNCHANGED <<todo, farmer, items, matched>>
    BY <2>1 DEF FetchRelated
  <2>3. QED
    BY <2>2 DEF Profile
<1>5. CASE PushItem
  <2>1. /\ DOMAIN items' = DOMAIN items \cup farmer
        /\ farmer' = {} /\ DOMAIN item' = {} /\ UNCHANGED <<todo, matched>>
    BY <1>5 DEF PushItem, NoConfig
  <2>2. Cardinality(farmer') <= 1
    BY <2>1, FS_EmptySet
  <2>3. QED
    BY <2>1, <2>2
<1>6. QED
  BY <1>1, <1>2, <1>3, <1>4, <1>5
     DEF Next, vars, ChooseFlow, Authorize, ReadConfig, Succeed, AuthorizeSdjwt,
         ShareCredential, CredentialUnavailable, Seal, CallRejects, TableChanges

\* Type correctness of a resolution.
THEOREM QueryTypeCorrect == Spec => []TypeOK
<1> DEFINE T == /\ request \in Request /\ service \in Service
                /\ TablesType /\ changes \in 0..MaxChanges
                /\ stage \in Stages /\ status \in Statuses /\ reads \subseteq Source
                /\ LoopType
<1>1. Init => T
  <2> SUFFICES ASSUME Init PROVE T
    OBVIOUS
  <2>1. LoopType
    BY FS_EmptySet DEF Init, LoopType, NoConfig
  <2>2. TablesType /\ changes \in 0..MaxChanges
    BY QueryAssumption DEF Init, TablesType
  <2>3. stage \in Stages /\ status \in Statuses /\ reads \subseteq Source
    BY DEF Init, Stages, Statuses
  <2>4. QED
    BY <2>1, <2>2, <2>3 DEF Init
<1>2. T /\ QInv /\ [Next]_vars => T'
  <2> SUFFICES ASSUME T, QInv, [Next]_vars PROVE T'
    OBVIOUS
  <2>1. request' = request /\ service' = service
    BY DEF Next, vars, inputs, ChooseFlow, Authorize, ReadConfig, MatchFarmers, StartFarmer,
           PushItem, Succeed, FetchRelated, AuthorizeSdjwt, ShareCredential,
           CredentialUnavailable, Seal, CallRejects, TableChanges
  <2>2. QED
    BY <2>1, StageType, TablesStep, LoopStep
<1>3. T => TypeOK
  BY DEF TypeOK, TablesType, Stages, Statuses, LoopType
<1>4. QED
  BY <1>1, <1>2, <1>3, QueryInvariant, PTL DEF Spec

-----------------------------------------------------------------------------
(* The forms of a public key.                                              *)

LEMMA TwoLayers ==
  ASSUME NEW a, NEW b
  PROVE  Head(<<a, b>>) = a /\ Tail(<<a, b>>) = <<b>> /\ Head(<<b>>) = b
  OBVIOUS

LEMMA ThreeLayers ==
  ASSUME NEW a, NEW b, NEW c
  PROVE  Head(<<a, b, c>>) = a /\ Tail(<<a, b, c>>) = <<b, c>>
  OBVIOUS

\* envelopeEncrypt.js:23-24: all four forms resolve to the same valid key.
THEOREM FormsAreUsable == \A text \in Form : Usable(text)
<1> USE DEF IsPem, Decoded, looksLikeBase64Text
<1>1. Peeled(<<"pem", "der">>) = <<"pem", "der">>
  BY TwoLayers DEF Peeled
<1>2. Peeled(<<"b64", "der">>) = <<"b64", "der">> /\ Peeled(<<"lines", "der">>) = <<"lines", "der">>
  BY TwoLayers DEF Peeled
<1>3. Peeled(<<"b64", "pem", "der">>) = <<"pem", "der">>
  BY TwoLayers, ThreeLayers DEF Peeled
<1>4. Peeled(<<"b64", "lines", "der">>) = <<"lines", "der">>
  BY TwoLayers, ThreeLayers DEF Peeled
<1>5. /\ Peeled(Peeled(<<"pem", "der">>)) = <<"pem", "der">>
      /\ Peeled(Peeled(<<"b64", "pem", "der">>)) = <<"pem", "der">>
      /\ Peeled(Peeled(<<"b64", "der">>)) = <<"b64", "der">>
      /\ Peeled(Peeled(<<"b64", "lines", "der">>)) = <<"lines", "der">>
  BY <1>1, <1>2, <1>3, <1>4
<1>6. /\ IsPem(<<"pem", "der">>) /\ Tail(<<"pem", "der">>) = <<"der">>
      /\ ~IsPem(<<"b64", "der">>) /\ Decoded(<<"b64", "der">>) = <<"der">>
      /\ ~IsPem(<<"lines", "der">>) /\ Decoded(<<"lines", "der">>) = <<"der">>
  BY TwoLayers
<1> HIDE DEF IsPem, Decoded, looksLikeBase64Text
<1>7. QED
  BY <1>5, <1>6 DEF Form, Usable, toPemPublicKey

\* A key in one of the forms is never refused: the only step that refuses a
\* key is Seal, and it refuses none that is usable.
THEOREM FormsAreSealed == Spec => []EveryKeyFormSeals
<1> DEFINE Refused == status = "INVALID_PUBLIC_KEY" => ~Usable(request.publicKey)
<1>1. Init => Refused
  BY DEF Init
<1>2. Refused /\ [Next]_vars => Refused'
  <2> SUFFICES ASSUME Refused, [Next]_vars PROVE Refused'
    OBVIOUS
  <2>1. request' = request
    BY DEF Next, vars, inputs, ChooseFlow, Authorize, ReadConfig, MatchFarmers, StartFarmer,
           PushItem, Succeed, FetchRelated, AuthorizeSdjwt, ShareCredential,
           CredentialUnavailable, Seal, CallRejects, TableChanges
  <2>2. CASE Seal
    BY <2>1, <2>2 DEF Seal, End
  <2>3. CASE ~Seal
    <3>1. status' = status \/ status' # "INVALID_PUBLIC_KEY"
      BY <2>3 DEF Next, vars, ChooseFlow, Authorize, ReadConfig, MatchFarmers, StartFarmer,
             PushItem, Succeed, FetchRelated, AuthorizeSdjwt, ShareCredential,
             CredentialUnavailable, CallRejects, TableChanges, End, Goto
    <3>2. QED
      BY <2>1, <3>1
  <2>4. QED
    BY <2>2, <2>3
<1>3. Refused => EveryKeyFormSeals
  BY FormsAreUsable DEF EveryKeyFormSeals
<1>4. QED
  BY <1>1, <1>2, <1>3, PTL DEF Spec

-----------------------------------------------------------------------------
(* query_param as a filter.                                                *)

\* A set of positions in a list has a last one.
LEMMA LastExists ==
  ASSUME NEW n \in Nat, NEW S, S \subseteq 1..n, S # {}
  PROVE  \E x \in S : \A y \in S : x >= y
<1> DEFINE T == {n - i : i \in S}
<1>1. T \subseteq Nat /\ T # {}
  <2>1. \A i \in S : i \in Nat /\ n - i \in Nat
    OBVIOUS
  <2>2. QED
    BY <2>1
<1> HIDE DEF T
<1>2. \E x \in T : \A y \in T : ~ (<<y, x>> \in OpToRel(<, Nat))
  BY <1>1, NatLessThanWellFounded, WFMin
<1>3. \E x \in T : \A y \in T : ~ (y < x)
  BY <1>1, <1>2 DEF OpToRel
<1>4. PICK x \in S : \A y \in S : ~ (n - y < n - x)
  BY <1>3 DEF T
<1>5. \A y \in S : x >= y
  BY <1>4
<1>6. QED
  BY <1>5

\* Normalized keeps the last entry of each field.
LEMMA LastEntryKept ==
  ASSUME NEW param, NEW n \in Nat, Len(param) = n, DOMAIN param = 1..n,
         NEW g, \E i \in 1..n : param[i].field = g
  PROVE  /\ g \in DOMAIN Normalized(param)
         /\ \E k \in 1..n : /\ param[k].field = g
                            /\ \A j \in 1..n : param[j].field = g => j <= k
                            /\ Normalized(param)[g] = param[k].value
<1> DEFINE S == {i \in 1..Len(param) : param[i].field = g}
           k == SelectLastInSeq(param, LAMBDA e : e.field = g)
<1>1. \E x \in S : \A y \in S : x >= y
  BY LastExists
<1>2. Max(S) \in S /\ \A y \in S : Max(S) >= y
  BY <1>1 DEF Max
<1>3. k = Max(S)
  BY <1>1 DEF SelectLastInSeq
<1>4. g \in DOMAIN Normalized(param) /\ Normalized(param)[g] = param[k].value
  BY DEF Normalized
<1> HIDE DEF k
<1>5. QED
  BY <1>2, <1>3, <1>4

\* A field is picked if its last entry has a value.
LEMMA Picked ==
  ASSUME NEW p \in Profile, request \in Request, NEW g \in inputFields[p]
  PROVE  /\ g \in DOMAIN PickFilter(p) <=>
              \E k \in DOMAIN request.param :
                /\ request.param[k].field = g /\ request.param[k].value # Null
                /\ \A j \in DOMAIN request.param : request.param[j].field = g => j <= k
         /\ \A k \in DOMAIN request.param :
              /\ request.param[k].field = g
              /\ \A j \in DOMAIN request.param : request.param[j].field = g => j <= k
              => /\ Normalized(request.param)[g] = request.param[k].value
                 /\ g \in DOMAIN PickFilter(p) => PickFilter(p)[g] = request.param[k].value
<1> DEFINE param == request.param
           n == Len(param)
           Is(k) == /\ param[k].field = g
                    /\ \A j \in DOMAIN param : param[j].field = g => j <= k
<1>1. n \in Nat /\ DOMAIN param = 1..n
  BY QueryAssumption
<1>2. DOMAIN Normalized(param) = {param[i].field : i \in DOMAIN param}
  BY DEF Normalized
<1>3. DOMAIN PickFilter(p) = {h \in inputFields[p] \cap DOMAIN Normalized(param) :
                                Normalized(param)[h] # Null}
      /\ \A h \in DOMAIN PickFilter(p) : PickFilter(p)[h] = Normalized(param)[h]
  BY DEF PickFilter
<1>4. ASSUME NEW k \in DOMAIN param, Is(k)
      PROVE  Normalized(param)[g] = param[k].value /\ g \in DOMAIN Normalized(param)
  <2>1. \E i \in 1..n : param[i].field = g
    BY <1>1, <1>4
  <2>2. PICK l \in 1..n : /\ param[l].field = g
                          /\ \A j \in 1..n : param[j].field = g => j <= l
                          /\ Normalized(param)[g] = param[l].value
    BY <1>1, <2>1, LastEntryKept
  <2>3. l = k
    BY <1>1, <1>4, <2>2
  <2>4. QED
    BY <1>2, <1>4, <2>2, <2>3
<1> HIDE DEF param
<1>5. ASSUME g \in DOMAIN Normalized(param) PROVE \E k \in DOMAIN param : Is(k)
  <2>1. n \in Nat /\ DOMAIN param = 1..n /\ Len(param) = n
    BY <1>1
  <2>2. \E i \in 1..n : param[i].field = g
    BY <1>2, <1>5, <2>1
  <2> HIDE DEF n
  <2>3. \E k \in 1..n : /\ param[k].field = g
                        /\ \A j \in 1..n : param[j].field = g => j <= k
                        /\ Normalized(param)[g] = param[k].value
    BY <2>1, <2>2, LastEntryKept
  <2>4. QED
    BY <2>1, <2>3
<1>6. g \in DOMAIN PickFilter(p) <=> \E k \in DOMAIN param : Is(k) /\ param[k].value # Null
  BY <1>3, <1>4, <1>5
<1>7. QED
  BY <1>3, <1>4, <1>6 DEF param

\* A row passes the filter exactly if it agrees with query_param.
LEMMA FilterMeansAgrees ==
  ASSUME NEW p \in Profile, request \in Request, NEW row
  PROVE  (\A g \in DOMAIN PickFilter(p) : row[g] = PickFilter(p)[g])
           <=> Agrees(row, inputFields[p])
<1> DEFINE param == request.param
           Is(k) == \A j \in DOMAIN param : param[j].field = param[k].field => j <= k
<1>1. Len(param) \in Nat /\ DOMAIN param = 1..Len(param)
  BY QueryAssumption
<1>2. DOMAIN PickFilter(p) \subseteq inputFields[p]
  BY DEF PickFilter
<1>3. Agrees(row, inputFields[p]) <=>
        \A k \in DOMAIN param : param[k].field \in inputFields[p] /\ Is(k) /\ param[k].value # Null
                                => row[param[k].field] = param[k].value
  <2>1. ASSUME NEW k \in DOMAIN param
        PROVE  Is(k) <=> ~\E j \in DOMAIN param : j > k /\ param[j].field = param[k].field
    BY <1>1, <2>1
  <2> DEFINE NoLater(k) == ~\E j \in DOMAIN param : j > k /\ param[j].field = param[k].field
  <2>2. Agrees(row, inputFields[p]) <=>
          \A k \in DOMAIN param : param[k].field \in inputFields[p] /\ NoLater(k)
                                  /\ param[k].value # Null
                                  => row[param[k].field] = param[k].value
    BY DEF Agrees
  <2> HIDE DEF param, Is, NoLater
  <2>3. \A k \in DOMAIN param : Is(k) <=> NoLater(k)
    BY <2>1 DEF NoLater
  <2>4. QED
    BY <2>2, <2>3
<1>4. ASSUME NEW k \in DOMAIN param, param[k].field \in inputFields[p], Is(k), param[k].value # Null
      PROVE  /\ param[k].field \in DOMAIN PickFilter(p)
             /\ PickFilter(p)[param[k].field] = param[k].value
  BY <1>4, Picked
<1>5. ASSUME NEW g \in DOMAIN PickFilter(p)
      PROVE  \E k \in DOMAIN param : /\ param[k].field = g /\ Is(k) /\ param[k].value # Null
                                     /\ PickFilter(p)[g] = param[k].value
  BY <1>2, Picked
<1> HIDE DEF param, Is
<1>6. QED
  BY <1>2, <1>3, <1>4, <1>5

-----------------------------------------------------------------------------
(* The join.                                                               *)

\* The records of profile p that belong in f's entry, if no table changes.
Related(f, p) ==
  {row \in Rows[p] : row.frCentralId = f.frCentralId /\ Agrees(row, inputFields[p])}

Found == {f \in Rows["farmerData"] : Agrees(f, inputFields["farmerData"])}

\* While no table has changed, what is matched and collected is the join.
JoinInv ==
  changes = 0 =>
    /\ tables = Rows
    /\ "farmerData" \in Configured /\ (stage \in {"next"} \cup InLoop \/ Answered)
       => matched = Found
    /\ \A f \in DOMAIN items : \A p \in DOMAIN items[f] \ {"farmerData"} :
         DOMAIN items[f][p] = Related(f, p)
    /\ stage \in InLoop =>
         \A f \in farmer : \A p \in DOMAIN item \ {"farmerData"} : DOMAIN item[p] = Related(f, p)

\* query_param means the same in every step, and the rows stay what they are.
LEMMA RelatedKept ==
  ASSUME request' = request
  PROVE  Found' = Found /\ \A f, p : Related(f, p)' = Related(f, p)
  BY DEF Found, Related, Agrees

\* With the rows unchanged the demographic query finds the farmers that agree.
LEMMA MatchFinds ==
  ASSUME request \in Request, tables = Rows
  PROVE  Selected("farmerData", PickFilter("farmerData")) = Found
<1>1. \A row : (\A g \in DOMAIN PickFilter("farmerData") : row[g] = PickFilter("farmerData")[g])
                 <=> Agrees(row, inputFields["farmerData"])
  BY FilterMeansAgrees DEF Profile
<1>2. QED
  BY <1>1 DEF Selected, Found

\* For a farmer found so, a related query finds the farmer's rows that agree: an
\* id that query_param asks for is the id of that farmer.
LEMMA FetchFinds ==
  ASSUME request \in Request, tables = Rows, NEW f \in Found,
         NEW p \in {"landData", "landOwnershipData"}
  PROVE  Selected(p, RelatedFilter(p, f.frCentralId)) = Related(f, p)
<1> DEFINE F == PickFilter(p)
           R == RelatedFilter(p, f.frCentralId)
<1>1. p \in Profile /\ "farmerData" \in Profile
      /\ "frCentralId" \in inputFields[p] /\ "frCentralId" \in inputFields["farmerData"]
  BY DEF Profile, inputFields
<1>2. \A row : (\A g \in DOMAIN F : row[g] = F[g]) <=> Agrees(row, inputFields[p])
  BY <1>1, FilterMeansAgrees
<1>3. \A g \in DOMAIN PickFilter("farmerData") : f[g] = PickFilter("farmerData")[g]
  BY <1>1, FilterMeansAgrees DEF Found
<1>4. ASSUME "frCentralId" \in DOMAIN F
      PROVE  F["frCentralId"] = f["frCentralId"]
  <2>1. "frCentralId" \in DOMAIN Normalized(request.param)
        /\ Normalized(request.param)["frCentralId"] # Null
        /\ F["frCentralId"] = Normalized(request.param)["frCentralId"]
    BY <1>4 DEF PickFilter
  <2>2. "frCentralId" \in DOMAIN PickFilter("farmerData")
        /\ PickFilter("farmerData")["frCentralId"] = Normalized(request.param)["frCentralId"]
    BY <1>1, <2>1 DEF PickFilter
  <2>3. QED
    BY <1>3, <2>1, <2>2
<1>5. /\ DOMAIN R = DOMAIN F \cup {"frCentralId"} /\ R["frCentralId"] = f.frCentralId
      /\ \A g \in DOMAIN F \ {"frCentralId"} : R[g] = F[g]
  BY DEF RelatedFilter
<1> HIDE DEF F, R
<1>6. ASSUME NEW row
      PROVE  (\A g \in DOMAIN R : row[g] = R[g])
               <=> row["frCentralId"] = f["frCentralId"] /\ \A g \in DOMAIN F : row[g] = F[g]
  BY <1>4, <1>5
<1>7. QED
  BY <1>2, <1>6 DEF Selected, Related, R

\* The join is kept by every step.
LEMMA JoinStep ==
  ASSUME JoinInv, QInv, request \in Request, changes \in Nat, [Next]_vars
  PROVE  JoinInv'
<1> SUFFICES ASSUME changes' = 0 PROVE JoinInv'
  BY DEF JoinInv
<1>1. ~TableChanges /\ changes = 0
  BY DEF TableChanges, Next, vars, ChooseFlow, Authorize, ReadConfig, MatchFarmers, StartFarmer,
         PushItem, Succeed, FetchRelated, AuthorizeSdjwt, ShareCredential,
         CredentialUnavailable, Seal, CallRejects
<1>2. UNCHANGED <<inputs, request, service, tables>>
  BY <1>1 DEF Next, vars, inputs, ChooseFlow, Authorize, ReadConfig, MatchFarmers, StartFarmer,
         PushItem, Succeed, FetchRelated, AuthorizeSdjwt, ShareCredential,
         CredentialUnavailable, Seal, CallRejects
<1>3. /\ Configured' = Configured /\ UsesSdjwt' = UsesSdjwt
      /\ Found' = Found /\ \A f, p : Related(f, p)' = Related(f, p)
  BY <1>2, InputsKept, RelatedKept
<1>4. /\ tables = Rows
      /\ "farmerData" \in Configured /\ (stage \in {"next"} \cup InLoop \/ Answered)
         => matched = Found
      /\ \A f \in DOMAIN items : \A p \in DOMAIN items[f] \ {"farmerData"} :
           DOMAIN items[f][p] = Related(f, p)
      /\ stage \in InLoop =>
           \A f \in farmer : \A p \in DOMAIN item \ {"farmerData"} : DOMAIN item[p] = Related(f, p)
  BY <1>1 DEF JoinInv
<1>5. CASE MatchFarmers
  <2>1. matched' = Found /\ stage' = "next" /\ UNCHANGED items
    BY <1>4, <1>5, MatchFinds DEF MatchFarmers, Goto
  <2>2. QED
    BY <1>2, <1>3, <1>4, <2>1 DEF JoinInv, InLoop
<1>6. CASE StartFarmer
  <2>1. /\ stage = "next" /\ stage' \in InLoop /\ UNCHANGED <<items, matched>>
        /\ DOMAIN item' = {"farmerData"}
    BY <1>6, AfterType DEF StartFarmer, Goto, InLoop
  <2>2. QED
    BY <1>2, <1>3, <1>4, <2>1 DEF JoinInv
<1>7. CASE \E p \in {"landData", "landOwnershipData"} : FetchRelated(p)
  <2>1. PICK p \in {"landData", "landOwnershipData"} : FetchRelated(p)
    BY <1>7
  <2>2. PICK f \in farmer :
          item' = [q \in DOMAIN item \cup {p} |->
                     IF q = p THEN Returned(p, RelatedFilter(p, f.frCentralId)) ELSE item[q]]
    BY <2>1 DEF FetchRelated
  <2>3. /\ stage = p /\ stage \in InLoop /\ stage' \in InLoop
        /\ UNCHANGED <<items, matched, farmer>>
    BY <2>1, AfterType DEF FetchRelated, Goto, InLoop
  <2>4. "farmerData" \in Configured /\ farmer = {f} /\ f \in matched
    BY <2>2, <2>3 DEF QInv, LoopInv
  <2>5. DOMAIN item'[p] = Related(f, p)
    <3>1. f \in Found
      BY <1>4, <2>3, <2>4
    <3>2. item'[p] = Returned(p, RelatedFilter(p, f.frCentralId))
      BY <2>2
    <3>3. QED
      BY <1>4, <3>1, <3>2, FetchFinds, ReturnedShape
  <2>6. \A q \in DOMAIN item' \ {"farmerData"} : DOMAIN item'[q] = Related(f, q)
    <3>1. \A q \in DOMAIN item' : q # p => item'[q] = item[q] /\ q \in DOMAIN item
      BY <2>2
    <3>2. QED
      BY <1>4, <2>3, <2>4, <2>5, <3>1
  <2>7. QED
    BY <1>2, <1>3, <1>4, <2>3, <2>4, <2>6 DEF JoinInv
<1>8. CASE PushItem
  <2>1. /\ stage = "entry" /\ stage' = "next" /\ UNCHANGED matched
        /\ items' = [f \in DOMAIN items \cup farmer |-> IF f \in farmer THEN item ELSE items[f]]
    BY <1>8 DEF PushItem, Goto
  <2>2. \A f \in DOMAIN items' : \A p \in DOMAIN items'[f] \ {"farmerData"} :
          DOMAIN items'[f][p] = Related(f, p)
    <3>1. stage \in InLoop
      BY <2>1 DEF InLoop
    <3>2. ASSUME NEW f \in DOMAIN items'
          PROVE  \/ f \in farmer /\ items'[f] = item
                 \/ f \in DOMAIN items /\ items'[f] = items[f]
      BY <2>1
    <3>3. QED
      BY <1>4, <3>1, <3>2
  <2>3. stage' \notin InLoop /\ "farmerData" \in Configured => matched' = Found
    BY <1>4, <2>1 DEF InLoop
  <2>4. QED
    BY <1>2, <1>3, <1>4, <2>1, <2>2, <2>3 DEF JoinInv, InLoop
<1>9. CASE UNCHANGED <<stage, status, loopVars>>
  <2>1. Answered' = Answered
    BY <1>3, <1>9 DEF Answered
  <2>2. QED
    BY <1>2, <1>3, <1>4, <1>9, <2>1 DEF JoinInv, loopVars
<1>10. CASE Succeed
  <2>1. stage = "next" /\ stage' = "answered" /\ UNCHANGED <<items, matched>>
    BY <1>10 DEF Succeed, End, loopVars
  <2>2. QED
    BY <1>2, <1>3, <1>4, <2>1 DEF JoinInv, InLoop
<1>11. CASE \/ ChooseFlow \/ Authorize \/ ReadConfig \/ CallRejects
            \/ AuthorizeSdjwt \/ ShareCredential \/ CredentialUnavailable \/ Seal
  <2>1. UNCHANGED <<items, matched>>
    BY <1>11 DEF ChooseFlow, Authorize, ReadConfig, CallRejects, AuthorizeSdjwt,
           ShareCredential, CredentialUnavailable, Seal, loopVars
  <2>2. stage' \notin InLoop /\ ~Answered'
    <3>1. CASE ChooseFlow \/ Authorize \/ CallRejects
      BY <3>1 DEF ChooseFlow, Authorize, CallRejects, End, Goto, InLoop, Answered
    <3>2. CASE ReadConfig
      BY <3>2 DEF ReadConfig, End, Goto, InLoop, Answered
    <3>3. CASE AuthorizeSdjwt \/ ShareCredential \/ CredentialUnavailable \/ Seal
      <4>1. UsesSdjwt
        BY <3>3 DEF AuthorizeSdjwt, ShareCredential, CredentialUnavailable, Seal, QInv, FlowInv
      <4>2. QED
        BY <1>3, <3>3, <4>1 DEF AuthorizeSdjwt, ShareCredential, CredentialUnavailable, Seal,
               End, Goto, InLoop, Answered
    <3>4. QED
      BY <1>11, <3>1, <3>2, <3>3
  <2>3. stage' = "next" => "farmerData" \notin Configured
    BY <1>11 DEF ChooseFlow, Authorize, ReadConfig, CallRejects, AuthorizeSdjwt,
           ShareCredential, CredentialUnavailable, Seal, End, Goto
  <2>4. QED
    BY <1>2, <1>3, <1>4, <2>1, <2>2, <2>3 DEF JoinInv
<1>12. QED
  BY <1>1, <1>5, <1>6, <1>7, <1>8, <1>9, <1>10, <1>11 DEF Next, vars

\* Without changes in the tables a successful answer is the join that query_param
\* asks for, whatever the rows, the config and the entries of query_param are.
THEOREM AnswersAreJoins == Spec => []AnswerIsJoin
<1>1. Init => JoinInv
  BY DEF Init, JoinInv, InLoop, Answered, NoConfig
<1>2. JoinInv /\ QInv /\ TypeOK /\ [Next]_vars => JoinInv'
  <2>1. TypeOK => request \in Request /\ changes \in Nat
    BY DEF TypeOK
  <2>2. QED
    BY <2>1, JoinStep
<1>3. JoinInv /\ QInv /\ NoPartialAnswer => AnswerIsJoin
  <2> SUFFICES ASSUME JoinInv, QInv, NoPartialAnswer, Answered, changes = 0,
                      "farmerData" \in Configured
               PROVE  /\ DOMAIN items = Found
                      /\ \A f \in DOMAIN items : \A p \in Configured \ {"farmerData"} :
                           DOMAIN items[f][p] = Related(f, p)
    BY DEF AnswerIsJoin, Found, Related
  <2>1. DOMAIN items = matched /\ \A f \in matched : DOMAIN items[f] = Configured
    BY DEF NoPartialAnswer
  <2>2. QED
    BY <2>1 DEF JoinInv
<1>4. QED
  BY <1>1, <1>2, <1>3, QueryInvariant, QueryTypeCorrect, AnswersAreWhole, PTL DEF Spec
=============================================================================
