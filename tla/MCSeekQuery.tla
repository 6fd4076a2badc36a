---------------------------- MODULE MCSeekQuery ----------------------------
(***************************************************************************)
(* SeekQuery and its audit event for model checking: two farmers, one of   *)
(* them with two rows, three plots, every query_param of up to two entries.*)
(***************************************************************************)
EXTENDS SeekDisclosure

MCRows ==
  [farmerData |->
     {[frCentralId |-> "f1", gender |-> "M"], [frCentralId |-> "f2", gender |-> "M"],
      [frCentralId |-> "f2", gender |-> "F"]},
   landData |->
     {[frCentralId |-> "f1", ownerType |-> "single", surveyNumber |-> "s1"],
      [frCentralId |-> "f1", ownerType |-> "joint", surveyNumber |-> "s2"],
      [frCentralId |-> "f2", ownerType |-> "single", surveyNumber |-> "s3"]},
   landOwnershipData |->
     {[frCentralId |-> "f1", ownerType |-> "single"],
      [frCentralId |-> "f2", ownerType |-> "joint"]}]

Entry == [field : {"frCentralId"}, value : {"f1", "f2", Null}]
         \cup [field : {"gender"}, value : {"M", Null}]
         \cup [field : {"ownerType"}, value : {"single"}]
         \cup [field : {"other"}, value : {"x"}]

\* The four forms, one layer more, one layer too many, and what is no key.
MCKey ==
  Form \cup {NoKey, <<"noise">>, <<"b64", "noise">>, <<"b64", "b64", "lines", "der">>,
            <<"b64", "b64", "b64", "pem", "der">>}

MCRequest ==
  [mode : {"ASYNC"}, param : BoundedSeq(Entry, 2),
   farmerId : {Null}, publicKey : {NoKey}, alg : {Null}]
  \cup
  [mode : {"SYNC"}, param : {<<>>, << [field |-> "gender", value |-> "M"] >>},
   farmerId : {Null, "f1"}, publicKey : MCKey,
   alg : {Null, "RSA-OAEP-256", "RSA1_5"}]

Config(farmerData, landData, landOwnershipData) ==
  [farmerData |-> farmerData, landData |-> landData,
   landOwnershipData |-> landOwnershipData]

MCConfig ==
  {NoConfig,
   Config({"frCentralId", "gender"}, {"surveyNumber"}, {"ownerType"}),
   Config({"frCentralId"}, {"frCentralId", "surveyNumber"}, {}),
   Config({"frCentralId"}, {}, {"ownerType"}),
   Config({"gender"}, {}, {}),
   Config({"gender"}, {"surveyNumber"}, {}),
   Config({}, {"surveyNumber"}, {}),
   Config({"frCentralId"}, {"surveyNumber", "unknown"}, {})}

MCService == [mapped : BOOLEAN, sdjwt : BOOLEAN, config : MCConfig]
=============================================================================
