---------------------------- MODULE MiscCommands -----------------------------
(***************************************************************************)
(* Ping, server information, bucket properties and the two commands that   *)
(* secure a connection (misc_commands.go), laid out as in KVCommands.      *)
(* Properties of a bucket and commit hooks are fields of the message.      *)
(***************************************************************************)
EXTENDS Command

\* BucketIsRequired of the bucket messages; none of them has a key.
RiakLocation ==
  [RpbGetBucketReq |-> {"Bucket"}, RpbGetBucketTypeReq |-> {},
   RpbSetBucketReq |-> {"Bucket"}, RpbSetBucketTypeReq |-> {},
   RpbResetBucketReq |-> {"Bucket"}]

\* The fields that proto.Marshal insists on.  A request without a message, such
\* as RpbPingReq, has none.
RiakRequired ==
  [RpbGetBucketReq |-> {"Bucket"}, RpbGetBucketTypeReq |-> {"Type"},
   RpbSetBucketReq |-> {"Bucket", "Props"}, RpbSetBucketTypeReq |-> {"Type", "Props"},
   RpbResetBucketReq |-> {"Bucket"}, RpbAuthReq |-> {"User", "Password"},
   RpbPingReq |-> {}, RpbGetServerInfoReq |-> {}, RpbStartTls |-> {}]

NoOptions == [options |-> [none |-> {}], new |-> {}, copies |-> {}]
-----------------------------------------------------------------------------
PingCommand ==
  [req |-> "RpbPingReq", resp |-> "RpbPingResp", body |-> FALSE,
   impls |-> {"retryable"}, isDone |-> "none"]
PingCommandBuilder == NoOptions
PingOnSuccess(cmd) == Acknowledged(cmd)

\* No answer is no error, but no success either.
GetServerInfoCommand ==
  [req |-> "RpbGetServerInfoReq", resp |-> "RpbGetServerInfoResp", body |-> TRUE,
   impls |-> {}, isDone |-> "none"]
GetServerInfoOnSuccess(cmd, msg) ==
  IF msg = Nil THEN Unsuccessful(cmd)
  ELSE Succeeds(cmd, Response(FALSE, msg.items, NoPlace))

startTlsCommand ==
  [req |-> "RpbStartTls", resp |-> "RpbStartTls", body |-> FALSE,
   impls |-> {}, isDone |-> "none"]
startTlsOnSuccess(cmd) == Acknowledged(cmd)

authCommand ==
  [req |-> "RpbAuthReq", resp |-> "RpbAuthResp", body |-> FALSE,
   impls |-> {}, isDone |-> "none"]
authConstruct(f) == [User |-> "v", Password |-> "v"] ++ f
authOnSuccess(cmd) == Acknowledged(cmd)
-----------------------------------------------------------------------------
\* The properties of the response are the items; hooks and functions that are
\* not there are left out.
processRpbGetBucketResp(cmd, msg) == Succeeds(cmd, Response(FALSE, msg.items, NoPlace))

FetchBucketTypePropsCommand ==
  [req |-> "RpbGetBucketTypeReq", resp |-> "RpbGetBucketResp", body |-> TRUE,
   impls |-> {"retryable"}, isDone |-> "none"]
FetchBucketTypePropsOnSuccess(cmd, msg) ==
  IF msg = Nil THEN Unsuccessful(cmd) ELSE processRpbGetBucketResp(cmd, msg)
FetchBucketTypePropsCommandBuilder ==
  [options |-> [WithBucketType |-> {"Type"}], new |-> {}, copies |-> {}]
FetchBucketTypePropsBuild(f) == validateLocatable(RiakLocation.RpbGetBucketTypeReq, f)

FetchBucketPropsCommand ==
  [req |-> "RpbGetBucketReq", resp |-> "RpbGetBucketResp", body |-> TRUE,
   impls |-> {"retryable"}, isDone |-> "none"]
FetchBucketPropsOnSuccess(cmd, msg) ==
  IF msg = Nil THEN Unsuccessful(cmd) ELSE processRpbGetBucketResp(cmd, msg)
FetchBucketPropsCommandBuilder ==
  [options |-> [WithBucketType |-> {"Type"}, WithBucket |-> {"Bucket"}],
   new |-> {}, copies |-> {}]
FetchBucketPropsBuild(f) == validateLocatable(RiakLocation.RpbGetBucketReq, f)
-----------------------------------------------------------------------------
StoreBucketTypePropsCommand ==
  [req |-> "RpbSetBucketTypeReq", resp |-> "RpbSetBucketResp", body |-> FALSE,
   impls |-> {"retryable"}, isDone |-> "none"]
StoreBucketTypePropsOnSuccess(cmd) == Acknowledged(cmd)

StoreBucketPropsCommand ==
  [req |-> "RpbSetBucketReq", resp |-> "RpbSetBucketResp", body |-> FALSE,
   impls |-> {"retryable"}, isDone |-> "none"]
StoreBucketPropsOnSuccess(cmd) == Acknowledged(cmd)

\* builder.props is the Props of the message; a hook is appended to the hooks.
StoreBucketTypePropsCommandBuilder ==
  [options |-> [WithBucketType |-> {"Type"}, WithNVal |-> {"NVal"},
     WithAllowMult |-> {"AllowMult"}, WithLastWriteWins |-> {"LastWriteWins"},
     WithOldVClock |-> {"OldVclock"}, WithYoungVClock |-> {"YoungVclock"},
     WithBigVClock |-> {"BigVclock"}, WithSmallVClock |-> {"SmallVclock"},
     WithR |-> {"R"}, WithPr |-> {"Pr"}, WithW |-> {"W"}, WithPw |-> {"Pw"},
     WithDw |-> {"Dw"}, WithRw |-> {"Rw"}, WithBasicQuorum |-> {"BasicQuorum"},
     WithNotFoundOk |-> {"NotfoundOk"}, WithSearch |-> {"Search"},
     WithBackend |-> {"Backend"}, WithSearchIndex |-> {"SearchIndex"},
     AddPreCommit |-> {"Precommit"}, AddPostCommit |-> {"Postcommit"},
     WithChashKeyFun |-> {"ChashKeyfun"}, WithHllPrecision |-> {"HllPrecision"}],
   new |-> {"Props"}, copies |-> {}]
StoreBucketTypePropsBuild(f) == validateLocatable(RiakLocation.RpbSetBucketTypeReq, f)

StoreBucketPropsCommandBuilder ==
  [StoreBucketTypePropsCommandBuilder EXCEPT
     !.options = @ ++ [WithBucket |-> {"Bucket"}]]
StoreBucketPropsBuild(f) == validateLocatable(RiakLocation.RpbSetBucketReq, f)
-----------------------------------------------------------------------------
ResetBucketCommandBuilder ==
  [options |-> [WithBucketType |-> {"Type"}, WithBucket |-> {"Bucket"}],
   new |-> {}, copies |-> {}]
ResetBucketBuild(f) == validateLocatable(RiakLocation.RpbResetBucketReq, f)
ResetBucketCommand ==
  [req |-> "RpbResetBucketReq", resp |-> "RpbResetBucketResp", body |-> FALSE,
   impls |-> {"retryable"}, isDone |-> "none"]
ResetBucketOnSuccess(cmd) == Acknowledged(cmd)
-----------------------------------------------------------------------------
MiscCommandTable ==
  [Ping |-> PingCommand, GetServerInfo |-> GetServerInfoCommand,
   StartTls |-> startTlsCommand, Auth |-> authCommand,
   FetchBucketTypeProps |-> FetchBucketTypePropsCommand,
   FetchBucketProps |-> FetchBucketPropsCommand,
   StoreBucketTypeProps |-> StoreBucketTypePropsCommand,
   StoreBucketProps |-> StoreBucketPropsCommand, ResetBucket |-> ResetBucketCommand]

MiscBuilderTable ==
  [Ping |-> PingCommandBuilder, GetServerInfo |-> NoOptions,
   StartTls |-> NoOptions, Auth |-> NoOptions,
   FetchBucketTypeProps |-> FetchBucketTypePropsCommandBuilder,
   FetchBucketProps |-> FetchBucketPropsCommandBuilder,
   StoreBucketTypeProps |-> StoreBucketTypePropsCommandBuilder,
   StoreBucketProps |-> StoreBucketPropsCommandBuilder,
   ResetBucket |-> ResetBucketCommandBuilder]

MiscBuild(kind, f) ==
  CASE kind = "FetchBucketTypeProps" -> FetchBucketTypePropsBuild(f)
    [] kind = "FetchBucketProps"     -> FetchBucketPropsBuild(f)
    [] kind = "StoreBucketTypeProps" -> StoreBucketTypePropsBuild(f)
    [] kind = "StoreBucketProps"     -> StoreBucketPropsBuild(f)
    [] kind = "ResetBucket"          -> ResetBucketBuild(f)
    [] OTHER -> TRUE

MiscOnSuccess(kind, cmd, msg) ==
  CASE kind = "Ping"                 -> PingOnSuccess(cmd)
    [] kind = "GetServerInfo"        -> GetServerInfoOnSuccess(cmd, msg)
    [] kind = "StartTls"             -> startTlsOnSuccess(cmd)
    [] kind = "Auth"                 -> authOnSuccess(cmd)
    [] kind = "FetchBucketTypeProps" -> FetchBucketTypePropsOnSuccess(cmd, msg)
    [] kind = "FetchBucketProps"     -> FetchBucketPropsOnSuccess(cmd, msg)
    [] kind = "StoreBucketTypeProps" -> StoreBucketTypePropsOnSuccess(cmd)
    [] kind = "StoreBucketProps"     -> StoreBucketPropsOnSuccess(cmd)
    [] kind = "ResetBucket"          -> ResetBucketOnSuccess(cmd)
=============================================================================
