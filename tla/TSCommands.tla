----------------------------- MODULE TSCommands ------------------------------
(***************************************************************************)
(* The commands of Riak TS (ts_commands.go), laid out as in KVCommands.    *)
(* Cells and rows are items.                                               *)
(***************************************************************************)
EXTENDS Command

\* The fields that proto.Marshal insists on.  The base of a query is not one.
TSRequired ==
  [TsPutReq |-> {"Table"}, TsGetReq |-> {"Table"}, TsDelReq |-> {"Table"},
   TsQueryReq |-> {}, TsListKeysReq |-> {"Table"}]
-----------------------------------------------------------------------------
TsStoreRowsCommand ==
  [req |-> "TsPutReq", resp |-> "TsPutResp", body |-> FALSE,
   impls |-> {"retryable"}, isDone |-> "none"]
TsStoreRowsOnSuccess(cmd) == Succeeds(cmd, EmptyResponse)
TsStoreRowsCommandBuilder ==
  [options |-> [WithTable |-> {"Table"}, WithRows |-> {"Rows"}], new |-> {}, copies |-> {}]
TsStoreRowsBuild(f) == Given(f, "Table")
-----------------------------------------------------------------------------
TsFetchRowCommand ==
  [req |-> "TsGetReq", resp |-> "TsGetResp", body |-> TRUE,
   impls |-> {"timeout", "retryable"}, isDone |-> "none"]

\* A body without rows leaves the Response alone; of several rows the first is kept.
TsFetchRowOnSuccess(cmd, msg) ==
  IF msg = Nil THEN Succeeds(cmd, Response(TRUE, <<>>, NoPlace))
  ELSE IF msg.items = <<>> THEN Acknowledged(cmd)
  ELSE Succeeds(cmd, Response(FALSE, SubSeq(msg.items, 1, 1), NoPlace))

TsFetchRowCommandBuilder ==
  [options |-> [WithTable |-> {"Table"}, WithKey |-> {"Key"},
     WithTimeout |-> {"timeout", "Timeout"}],
   new |-> {}, copies |-> {"timeout"}]
TsFetchRowBuild(f) == Given(f, "Table") /\ Given(f, "Key")
-----------------------------------------------------------------------------
TsDeleteRowCommand ==
  [req |-> "TsDelReq", resp |-> "TsDelResp", body |-> TRUE,
   impls |-> {"timeout", "retryable"}, isDone |-> "none"]
TsDeleteRowOnSuccess(cmd) == Succeeds(cmd, EmptyResponse)
TsDeleteRowCommandBuilder ==
  [options |-> [WithTable |-> {"Table"}, WithKey |-> {"Key"},
     WithTimeout |-> {"timeout", "Timeout"}],
   new |-> {}, copies |-> {"timeout"}]
TsDeleteRowBuild(f) == Given(f, "Table") /\ Given(f, "Key")
-----------------------------------------------------------------------------
\* The command keeps a done flag but has no isDone: it is no streamingCommand.
TsQueryCommand ==
  [req |-> "TsQueryReq", resp |-> "TsQueryResp", body |-> TRUE,
   impls |-> {}, isDone |-> "none"]

TsQueryOnSuccess(cmd, msg, cbErr) ==
  IF msg = Nil THEN EndOfStream(cmd)
  ELSE IF msg.items = <<>> THEN Returns(Opened(cmd, msg), "nil")
  ELSE Deliver(Opened(cmd, msg), msg.items, IsTrue(cmd.f, "Stream"), cbErr)

TsQueryCommandBuilder ==
  [options |-> [WithQuery |-> {"Query"}, WithStreaming |-> {"Stream"},
     WithCallback |-> {"callback"}],
   new |-> {}, copies |-> {"callback"}]
TsQueryBuild(f) == Given(f, "Query") /\ CallbackIfStreaming(f, "Stream")
-----------------------------------------------------------------------------
TsListKeysCommand ==
  [req |-> "TsListKeysReq", resp |-> "TsListKeysResp", body |-> TRUE,
   impls |-> {"timeout", "listing"}, isDone |-> "always"]

TsListKeysOnSuccess(cmd, msg, cbErr) ==
  IF msg = Nil THEN EndOfStream(cmd)
  ELSE IF msg.items = <<>> THEN Returns(Opened(cmd, msg), "nil")
  ELSE Deliver(Opened(cmd, msg), msg.items, IsTrue(cmd.f, "streaming"), cbErr)

\* Build asks for allowListing and does not copy it.
TsListKeysCommandBuilder ==
  [options |-> [WithAllowListing |-> {"allowListing"}, WithTable |-> {"Table"},
     WithStreaming |-> {"streaming"}, WithCallback |-> {"callback"},
     WithTimeout |-> {"timeout", "Timeout"}],
   new |-> {}, copies |-> {"timeout", "streaming", "callback"}]
TsListKeysBuild(f) ==
  Given(f, "Table") /\ CallbackIfStreaming(f, "streaming") /\ ListingAllowed(f)
-----------------------------------------------------------------------------
TSCommandTable ==
  [TsStoreRows |-> TsStoreRowsCommand, TsFetchRow |-> TsFetchRowCommand,
   TsDeleteRow |-> TsDeleteRowCommand, TsQuery |-> TsQueryCommand,
   TsListKeys |-> TsListKeysCommand]

TSBuilderTable ==
  [TsStoreRows |-> TsStoreRowsCommandBuilder, TsFetchRow |-> TsFetchRowCommandBuilder,
   TsDeleteRow |-> TsDeleteRowCommandBuilder, TsQuery |-> TsQueryCommandBuilder,
   TsListKeys |-> TsListKeysCommandBuilder]

TSBuild(kind, f) ==
  CASE kind = "TsStoreRows" -> TsStoreRowsBuild(f)
    [] kind = "TsFetchRow"  -> TsFetchRowBuild(f)
    [] kind = "TsDeleteRow" -> TsDeleteRowBuild(f)
    [] kind = "TsQuery"     -> TsQueryBuild(f)
    [] kind = "TsListKeys"  -> TsListKeysBuild(f)

TSOnSuccess(kind, cmd, msg, cbErr) ==
  CASE kind = "TsStoreRows" -> TsStoreRowsOnSuccess(cmd)
    [] kind = "TsFetchRow"  -> TsFetchRowOnSuccess(cmd, msg)
    [] kind = "TsDeleteRow" -> TsDeleteRowOnSuccess(cmd)
    [] kind = "TsQuery"     -> TsQueryOnSuccess(cmd, msg, cbErr)
    [] kind = "TsListKeys"  -> TsListKeysOnSuccess(cmd, msg, cbErr)
=============================================================================
