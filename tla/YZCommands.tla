----------------------------- MODULE YZCommands ------------------------------
(***************************************************************************)
(* The commands of Riak Search (yz_commands.go), laid out as in            *)
(* KVCommands.  None of the Build methods validates anything.              *)
(***************************************************************************)
EXTENDS Command

\* The fields that proto.Marshal insists on.
YZRequired ==
  [RpbYokozunaIndexPutReq |-> {"Index", "IndexName"}, RpbYokozunaIndexGetReq |-> {},
   RpbYokozunaIndexDeleteReq |-> {"Name"}, RpbYokozunaSchemaPutReq |-> {"Schema", "SchemaName"},
   RpbYokozunaSchemaGetReq |-> {"Name"}, RpbSearchQueryReq |-> {"Q", "Index"}]
-----------------------------------------------------------------------------
StoreIndexCommand ==
  [req |-> "RpbYokozunaIndexPutReq", resp |-> "RpbPutResp", body |-> FALSE,
   impls |-> {"timeout", "retryable"}, isDone |-> "none"]
StoreIndexOnSuccess(cmd) == Succeeds(cmd, EmptyResponse)
StoreIndexCommandBuilder ==
  [options |-> [WithIndexName |-> {"IndexName"}, WithSchemaName |-> {"IndexSchema"},
     WithNVal |-> {"IndexNVal"}, WithTimeout |-> {"timeout", "Timeout"}],
   new |-> {"Index"}, copies |-> {"timeout"}]
-----------------------------------------------------------------------------
FetchIndexCommand ==
  [req |-> "RpbYokozunaIndexGetReq", resp |-> "RpbYokozunaIndexGetResp", body |-> TRUE,
   impls |-> {"retryable"}, isDone |-> "none"]
FetchIndexOnSuccess(cmd, msg) ==
  IF msg = Nil THEN Acknowledged(cmd)
  ELSE IF msg.items = <<>> THEN Acknowledged(cmd)
  ELSE Succeeds(cmd, Response(FALSE, msg.items, NoPlace))
FetchIndexCommandBuilder ==
  [options |-> [WithIndexName |-> {"Name"}], new |-> {}, copies |-> {}]
-----------------------------------------------------------------------------
DeleteIndexCommand ==
  [req |-> "RpbYokozunaIndexDeleteReq", resp |-> "RpbDelResp", body |-> FALSE,
   impls |-> {"retryable"}, isDone |-> "none"]
DeleteIndexOnSuccess(cmd) == Succeeds(cmd, EmptyResponse)
DeleteIndexCommandBuilder ==
  [options |-> [WithIndexName |-> {"Name"}], new |-> {}, copies |-> {}]
-----------------------------------------------------------------------------
StoreSchemaCommand ==
  [req |-> "RpbYokozunaSchemaPutReq", resp |-> "RpbPutResp", body |-> FALSE,
   impls |-> {"retryable"}, isDone |-> "none"]
StoreSchemaOnSuccess(cmd) == Succeeds(cmd, EmptyResponse)
StoreSchemaCommandBuilder ==
  [options |-> [WithSchemaName |-> {"SchemaName"}, WithSchema |-> {"SchemaContent"}],
   new |-> {"Schema"}, copies |-> {}]
-----------------------------------------------------------------------------
FetchSchemaCommand ==
  [req |-> "RpbYokozunaSchemaGetReq", resp |-> "RpbYokozunaSchemaGetResp", body |-> TRUE,
   impls |-> {"retryable"}, isDone |-> "none"]
FetchSchemaOnSuccess(cmd, msg) ==
  IF msg = Nil THEN Acknowledged(cmd)
  ELSE IF msg.items = <<>> THEN Acknowledged(cmd)
  ELSE Succeeds(cmd, Response(FALSE, msg.items, NoPlace))
FetchSchemaCommandBuilder ==
  [options |-> [WithSchemaName |-> {"Name"}], new |-> {}, copies |-> {}]
-----------------------------------------------------------------------------
\* Documents are items; a search always has a Response.
SearchCommand ==
  [req |-> "RpbSearchQueryReq", resp |-> "RpbSearchQueryResp", body |-> TRUE,
   impls |-> {}, isDone |-> "none"]
SearchOnSuccess(cmd, msg) ==
  Succeeds(cmd, IF msg = Nil THEN EmptyResponse ELSE Response(FALSE, msg.items, NoPlace))
SearchCommandBuilder ==
  [options |-> [WithIndexName |-> {"Index"}, WithQuery |-> {"Q"}, WithNumRows |-> {"Rows"},
     WithStart |-> {"Start"}, WithSortField |-> {"Sort"}, WithFilterQuery |-> {"Filter"},
     WithDefaultField |-> {"Df"}, WithDefaultOperation |-> {"Op"},
     WithReturnFields |-> {"Fl"}, WithPresort |-> {"Presort"}],
   new |-> {}, copies |-> {}]
-----------------------------------------------------------------------------
YZCommandTable ==
  [StoreIndex |-> StoreIndexCommand, FetchIndex |-> FetchIndexCommand,
   DeleteIndex |-> DeleteIndexCommand, StoreSchema |-> StoreSchemaCommand,
   FetchSchema |-> FetchSchemaCommand, Search |-> SearchCommand]

YZBuilderTable ==
  [StoreIndex |-> StoreIndexCommandBuilder, FetchIndex |-> FetchIndexCommandBuilder,
   DeleteIndex |-> DeleteIndexCommandBuilder, StoreSchema |-> StoreSchemaCommandBuilder,
   FetchSchema |-> FetchSchemaCommandBuilder, Search |-> SearchCommandBuilder]

YZOnSuccess(kind, cmd, msg) ==
  CASE kind = "StoreIndex"  -> StoreIndexOnSuccess(cmd)
    [] kind = "FetchIndex"  -> FetchIndexOnSuccess(cmd, msg)
    [] kind = "DeleteIndex" -> DeleteIndexOnSuccess(cmd)
    [] kind = "StoreSchema" -> StoreSchemaOnSuccess(cmd)
    [] kind = "FetchSchema" -> FetchSchemaOnSuccess(cmd, msg)
    [] kind = "Search"      -> SearchOnSuccess(cmd, msg)
=============================================================================
