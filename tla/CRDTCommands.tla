---------------------------- MODULE CRDTCommands -----------------------------
(***************************************************************************)
(* The commands on data types (crdt_commands.go), laid out as in           *)
(* KVCommands.  The operation of a map is the module MapOperation; here a  *)
(* value of WithMapOperation only says whether it has removes.             *)
(***************************************************************************)
EXTENDS Command

DTLocation == [DtFetchReq |-> {"Bucket", "Key"}, DtUpdateReq |-> {"Bucket"}]

\* The fields that proto.Marshal insists on.
DTRequired ==
  [DtFetchReq |-> {"Bucket", "Key", "Type"}, DtUpdateReq |-> {"Bucket", "Type", "Op"}]

\* A body-less answer to an update leaves the Response alone; another one
\* replaces it.
UpdateDtOnSuccess(cmd, msg) ==
  IF msg = Nil THEN Acknowledged(cmd)
  ELSE Succeeds(cmd, Response(FALSE, msg.items, NoPlace))

FetchDtOnSuccess(cmd, msg) ==
  IF msg = Nil THEN Acknowledged(cmd)
  ELSE Succeeds(cmd, Response(msg.items = <<>>, msg.items, NoPlace))

FetchDtOptions ==
  [WithBucketType |-> {"Type"}, WithBucket |-> {"Bucket"}, WithKey |-> {"Key"},
   WithR |-> {"R"}, WithPr |-> {"Pr"}, WithNotFoundOk |-> {"NotfoundOk"},
   WithBasicQuorum |-> {"BasicQuorum"}, WithTimeout |-> {"timeout", "Timeout"}]

FetchDtBuilder == [options |-> FetchDtOptions, new |-> {}, copies |-> {"timeout"}]
FetchDtCommand ==
  [req |-> "DtFetchReq", resp |-> "DtFetchResp", body |-> TRUE,
   impls |-> {"timeout", "retryable"}, isDone |-> "none"]
UpdateDtCommand ==
  [req |-> "DtUpdateReq", resp |-> "DtUpdateResp", body |-> TRUE,
   impls |-> {"timeout", "retryable"}, isDone |-> "none"]
-----------------------------------------------------------------------------
\* The codes of a legacy counter are those of legacyCounterCommand.
UpdateCounterCommand == UpdateDtCommand
legacyCounterCommand ==
  [UpdateDtCommand EXCEPT !.req = "RpbCounterUpdateReq", !.resp = "RpbCounterUpdateResp"]

isLegacy(f) == Get(f, "bucketType") = "default" /\ IsTrue(f, "returnBody")

UpdateCounterOnSuccess(cmd, msg) == UpdateDtOnSuccess(cmd, msg)

\* Bucket, key and timeout are copied by Build, so nothing the message can be told
\* apart by is shared with the builder.  The increment, w, pw, dw and returnBody of the
\* message are pointers to the builder's fields; no step depends on their values.
UpdateCounterCommandBuilder ==
  [options |-> [WithBucketType |-> {"bucketType"}, WithBucket |-> {"bucket"},
     WithKey |-> {"key"}, WithIncrement |-> {"increment"}, WithW |-> {"w"},
     WithPw |-> {"pw"}, WithDw |-> {"dw"}, WithReturnBody |-> {"returnBody"},
     WithTimeout |-> {"timeout"}],
   new |-> {}, copies |-> {"timeout"}]

\* Build makes the message: strings that are empty stay out of it, numbers go in
\* whether they were set or not.  A legacy counter has no timeout.
UpdateCounterMessage(f) ==
  LET named == [bucketType |-> "Type", bucket |-> "Bucket", key |-> "Key"]
      put(xs) == [y \in {named[x] : x \in {z \in xs : Given(f, z)}} |->
                    f[CHOOSE x \in xs : named[x] = y]]
  IN IF isLegacy(f)
       THEN [Amount |-> "v", W |-> "v", Dw |-> "v", Pw |-> "v", Returnvalue |-> "true",
             legacy |-> "true"] ++ put({"bucket", "key"})
       ELSE [W |-> "v", Dw |-> "v", Pw |-> "v", ReturnBody |-> Get(f, "returnBody"),
             Timeout |-> Get(f, "timeout"), timeout |-> Get(f, "timeout"), Op |-> "v"]
            ++ put(DOMAIN named)

UpdateCounterBuild(f) ==
  LET message == UpdateCounterMessage(f)
  IN validateLocatable(IF isLegacy(f) THEN {"Bucket", "Key"} ELSE DTLocation.DtUpdateReq,
                       message)
-----------------------------------------------------------------------------
FetchCounterCommand == FetchDtCommand
FetchCounterOnSuccess(cmd, msg) == FetchDtOnSuccess(cmd, msg)
FetchCounterCommandBuilder == FetchDtBuilder
FetchCounterBuild(f) == validateLocatable(DTLocation.DtFetchReq, f)
-----------------------------------------------------------------------------
UpdateSetCommand == UpdateDtCommand
UpdateSetOnSuccess(cmd, msg) == UpdateDtOnSuccess(cmd, msg)

UpdateSetCommandBuilder ==
  [options |-> [WithBucketType |-> {"Type"}, WithBucket |-> {"Bucket"}, WithKey |-> {"Key"},
     WithContext |-> {"Context"}, WithAdditions |-> {"Adds"}, WithRemovals |-> {"Removes"},
     WithW |-> {"W"}, WithPw |-> {"Pw"}, WithDw |-> {"Dw"}, WithReturnBody |-> {"ReturnBody"},
     WithTimeout |-> {"timeout", "Timeout"}],
   new |-> {"Op"}, copies |-> {"timeout"}]

UpdateSetBuild(f) == validateLocatable(DTLocation.DtUpdateReq, f)
-----------------------------------------------------------------------------
UpdateGSetCommand == UpdateDtCommand
UpdateGSetOnSuccess(cmd, msg) == UpdateDtOnSuccess(cmd, msg)

UpdateGSetCommandBuilder ==
  [options |-> [WithBucketType |-> {"Type"}, WithBucket |-> {"Bucket"}, WithKey |-> {"Key"},
     WithContext |-> {"Context"}, WithAdditions |-> {"Adds"}, WithW |-> {"W"},
     WithPw |-> {"Pw"}, WithDw |-> {"Dw"}, WithReturnBody |-> {"ReturnBody"},
     WithTimeout |-> {"timeout", "Timeout"}],
   new |-> {"Op"}, copies |-> {"timeout"}]

UpdateGSetBuild(f) == validateLocatable(DTLocation.DtUpdateReq, f)
-----------------------------------------------------------------------------
\* The value of a set is read from the field of its type, a set or a grow-only set.
FetchSetCommand == FetchDtCommand
FetchSetOnSuccess(cmd, msg) == FetchDtOnSuccess(cmd, msg)
FetchSetCommandBuilder == FetchDtBuilder
FetchSetBuild(f) == validateLocatable(DTLocation.DtFetchReq, f)
-----------------------------------------------------------------------------
UpdateMapCommand == UpdateDtCommand

\* The operation is put into the message again at every attempt.
UpdateMapConstruct(f) == [Op |-> Get(f, "mapOperation")] ++ f

UpdateMapOnSuccess(cmd, msg) == UpdateDtOnSuccess(cmd, msg)

UpdateMapCommandBuilder ==
  [options |-> [WithBucketType |-> {"Type"}, WithBucket |-> {"Bucket"}, WithKey |-> {"Key"},
     WithContext |-> {"Context"}, WithMapOperation |-> {"mapOperation"}, WithW |-> {"W"},
     WithPw |-> {"Pw"}, WithDw |-> {"Dw"}, WithReturnBody |-> {"ReturnBody"},
     WithTimeout |-> {"timeout", "Timeout"}],
   new |-> {}, copies |-> {"timeout", "mapOperation"}]

\* Mutant: a map operation is not asked for.
UpdateMapBuildUnchecked(f) == validateLocatable(DTLocation.DtUpdateReq, f)

UpdateMapBuild(f) ==
  /\ validateLocatable(DTLocation.DtUpdateReq, f)
  /\ Has(f, "mapOperation")
  /\ Get(f, "mapOperation") = "removes" => Has(f, "Context")
-----------------------------------------------------------------------------
\* A map without a map value counts as not found too.
FetchMapCommand == FetchDtCommand
FetchMapOnSuccess(cmd, msg) == FetchDtOnSuccess(cmd, msg)
FetchMapCommandBuilder == FetchDtBuilder
FetchMapBuild(f) == validateLocatable(DTLocation.DtFetchReq, f)
-----------------------------------------------------------------------------
UpdateHllCommand == UpdateDtCommand
UpdateHllOnSuccess(cmd, msg) == UpdateDtOnSuccess(cmd, msg)

UpdateHllCommandBuilder ==
  [options |-> [WithBucketType |-> {"Type"}, WithBucket |-> {"Bucket"}, WithKey |-> {"Key"},
     WithAdditions |-> {"Adds"}, WithW |-> {"W"}, WithPw |-> {"Pw"}, WithDw |-> {"Dw"},
     WithReturnBody |-> {"ReturnBody"}, WithTimeout |-> {"timeout", "Timeout"}],
   new |-> {"Op"}, copies |-> {"timeout"}]

UpdateHllBuild(f) == validateLocatable(DTLocation.DtUpdateReq, f)
-----------------------------------------------------------------------------
FetchHllCommand == FetchDtCommand
FetchHllOnSuccess(cmd, msg) == FetchDtOnSuccess(cmd, msg)
FetchHllCommandBuilder == FetchDtBuilder
FetchHllBuild(f) == validateLocatable(DTLocation.DtFetchReq, f)
-----------------------------------------------------------------------------
CRDTCommandTable ==
  [UpdateCounter |-> UpdateCounterCommand, FetchCounter |-> FetchCounterCommand,
   UpdateSet |-> UpdateSetCommand, UpdateGSet |-> UpdateGSetCommand,
   FetchSet |-> FetchSetCommand, UpdateMap |-> UpdateMapCommand,
   FetchMap |-> FetchMapCommand, UpdateHll |-> UpdateHllCommand,
   FetchHll |-> FetchHllCommand]

CRDTBuilderTable ==
  [UpdateCounter |-> UpdateCounterCommandBuilder, FetchCounter |-> FetchCounterCommandBuilder,
   UpdateSet |-> UpdateSetCommandBuilder, UpdateGSet |-> UpdateGSetCommandBuilder,
   FetchSet |-> FetchSetCommandBuilder, UpdateMap |-> UpdateMapCommandBuilder,
   FetchMap |-> FetchMapCommandBuilder, UpdateHll |-> UpdateHllCommandBuilder,
   FetchHll |-> FetchHllCommandBuilder]

CRDTBuild(kind, f) ==
  CASE kind = "UpdateCounter" -> UpdateCounterBuild(f)
    [] kind = "FetchCounter"  -> FetchCounterBuild(f)
    [] kind = "UpdateSet"     -> UpdateSetBuild(f)
    [] kind = "UpdateGSet"    -> UpdateGSetBuild(f)
    [] kind = "FetchSet"      -> FetchSetBuild(f)
    [] kind = "UpdateMap"     -> UpdateMapBuild(f)
    [] kind = "FetchMap"      -> FetchMapBuild(f)
    [] kind = "UpdateHll"     -> UpdateHllBuild(f)
    [] kind = "FetchHll"      -> FetchHllBuild(f)

CRDTOnSuccess(kind, cmd, msg) ==
  CASE kind = "UpdateCounter" -> UpdateCounterOnSuccess(cmd, msg)
    [] kind = "FetchCounter"  -> FetchCounterOnSuccess(cmd, msg)
    [] kind = "UpdateSet"     -> UpdateSetOnSuccess(cmd, msg)
    [] kind = "UpdateGSet"    -> UpdateGSetOnSuccess(cmd, msg)
    [] kind = "FetchSet"      -> FetchSetOnSuccess(cmd, msg)
    [] kind = "UpdateMap"     -> UpdateMapOnSuccess(cmd, msg)
    [] kind = "FetchMap"      -> FetchMapOnSuccess(cmd, msg)
    [] kind = "UpdateHll"     -> UpdateHllOnSuccess(cmd, msg)
    [] kind = "FetchHll"      -> FetchHllOnSuccess(cmd, msg)
=============================================================================
