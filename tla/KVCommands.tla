----------------------------- MODULE KVCommands ------------------------------
(***************************************************************************)
(* The commands of Riak KV (kv_commands.go).  For each one: the command    *)
(* (its codes, whether its response has a body, the interfaces it          *)
(* implements), its onSuccess, its builder (the fields each option sets,   *)
(* those the factory sets and the builder's own fields that Build copies)  *)
(* and what Build accepts.                                                 *)
(* A streaming command is done when its done flag is set ("always"), or    *)
(* only then if the request asks for a stream ("asked").                   *)
(***************************************************************************)
EXTENDS Command

\* The places the requests must name: BucketIsRequired and KeyIsRequired.
KVLocation ==
  [RpbGetReq |-> {"Bucket", "Key"}, RpbPutReq |-> {"Bucket"},
   RpbDelReq |-> {"Bucket", "Key"}, RpbListBucketsReq |-> {},
   RpbListKeysReq |-> {"Bucket"}, RpbGetBucketKeyPreflistReq |-> {"Bucket", "Key"},
   RpbIndexReq |-> {"Bucket"}, RpbCounterUpdateReq |-> {"Bucket", "Key"}]
-----------------------------------------------------------------------------
Tombstone == <<0, 0>>

FetchValueCommand ==
  [req |-> "RpbGetReq", resp |-> "RpbGetResp", body |-> TRUE,
   impls |-> {"timeout", "retryable"}, isDone |-> "none"]

\* A value without contents is a tombstone; siblings go through the resolver,
\* which is taken to keep the first.
Resolved(cmd, items) ==
  IF Has(cmd.f, "resolver") THEN SubSeq(items, 1, 1) ELSE items

FetchValueOnSuccess(cmd, msg) ==
  IF msg = Nil THEN Succeeds(cmd, Response(TRUE, <<>>, NoPlace))
  ELSE IF msg.items = <<>>
    THEN Succeeds(cmd, Response(FALSE, <<Tombstone>>, Place(cmd.f)))
    ELSE Succeeds(cmd, Response(FALSE, Resolved(cmd, msg.items), Place(cmd.f)))

FetchValueCommandBuilder ==
  [options |-> [WithConflictResolver |-> {"resolver"}, WithBucketType |-> {"Type"},
     WithBucket |-> {"Bucket"}, WithKey |-> {"Key"}, WithR |-> {"R"}, WithPr |-> {"Pr"},
     WithNVal |-> {"NVal"}, WithBasicQuorum |-> {"BasicQuorum"},
     WithNotFoundOk |-> {"NotfoundOk"}, WithIfModified |-> {"IfModified"},
     WithHeadOnly |-> {"Head"}, WithReturnDeletedVClock |-> {"Deletedvclock"},
     WithTimeout |-> {"timeout", "Timeout"}, WithSloppyQuorum |-> {"SloppyQuorum"}],
   new |-> {}, copies |-> {"timeout", "resolver"}]

FetchValueBuild(f) == validateLocatable(KVLocation.RpbGetReq, f)
-----------------------------------------------------------------------------
StoreValueCommand ==
  [req |-> "RpbPutReq", resp |-> "RpbPutResp", body |-> TRUE,
   impls |-> {"timeout", "retryable"}, isDone |-> "none"]

\* The object's own place, if it has one, overrides that of the options.
setProtobufFromValue(f, value) ==
  IF value = "located" THEN [Type |-> "o", Bucket |-> "o", Key |-> "o"] ++ f ELSE f

WithContent(f, value) == setProtobufFromValue([value |-> value] ++ f, value)

StoreValueConstruct(f) ==
  [Content |-> Get(f, "value")] ++ setProtobufFromValue(f, Get(f, "value"))

\* Mutant: the generated key becomes the bucket.
StoreValueOnSuccessMisplaces(cmd, msg) ==
  IF msg = Nil THEN Succeeds(cmd, EmptyResponse)
  ELSE Succeeds(cmd, Response(FALSE, msg.items, [Place(cmd.f) EXCEPT !.Bucket = msg.key]))

StoreValueOnSuccess(cmd, msg) ==
  IF msg = Nil THEN Succeeds(cmd, EmptyResponse)
  ELSE IF msg.items = <<>> THEN Succeeds(cmd, EmptyResponse)
  ELSE LET at == IF msg.key = Empty THEN Place(cmd.f)
                                 ELSE [Place(cmd.f) EXCEPT !.Key = msg.key]
       IN Succeeds(cmd, Response(FALSE, Resolved(cmd, msg.items), at))

StoreValueCommandBuilder ==
  [options |-> [WithConflictResolver |-> {"resolver"}, WithBucketType |-> {"Type"},
     WithBucket |-> {"Bucket"}, WithKey |-> {"Key"}, WithVClock |-> {"Vclock"},
     WithContent |-> {"value"}, WithW |-> {"W"}, WithDw |-> {"Dw"}, WithPw |-> {"Pw"},
     WithNVal |-> {"NVal"}, WithReturnBody |-> {"ReturnBody"},
     WithIfNotModified |-> {"IfNotModified"}, WithIfNoneMatch |-> {"IfNoneMatch"},
     WithReturnHead |-> {"ReturnHead"}, WithTimeout |-> {"timeout", "Timeout"},
     WithAsis |-> {"Asis"}, WithSloppyQuorum |-> {"SloppyQuorum"}],
   new |-> {}, copies |-> {"value", "timeout", "resolver"}]

\* Build does not ask for a value.
StoreValueBuild(f) == validateLocatable(KVLocation.RpbPutReq, f)
-----------------------------------------------------------------------------
DeleteValueCommand ==
  [req |-> "RpbDelReq", resp |-> "RpbDelResp", body |-> FALSE,
   impls |-> {"timeout", "retryable"}, isDone |-> "none"]

DeleteValueOnSuccess(cmd) == Succeeds(cmd, EmptyResponse)

DeleteValueCommandBuilder ==
  [options |-> [WithBucketType |-> {"Type"}, WithBucket |-> {"Bucket"},
     WithKey |-> {"Key"}, WithVClock |-> {"Vclock"}, WithR |-> {"R"}, WithW |-> {"W"},
     WithPr |-> {"Pr"}, WithPw |-> {"Pw"}, WithDw |-> {"Dw"}, WithRw |-> {"Rw"},
     WithTimeout |-> {"timeout", "Timeout"}],
   new |-> {}, copies |-> {"timeout"}]

DeleteValueBuild(f) == validateLocatable(KVLocation.RpbDelReq, f)
-----------------------------------------------------------------------------
\* The timeout goes to Riak only: the command has no timeoutImpl.
ListBucketsCommand ==
  [req |-> "RpbListBucketsReq", resp |-> "RpbListBucketsResp", body |-> TRUE,
   impls |-> {"listing"}, isDone |-> "asked"]

ListBucketsOnSuccess(cmd, msg, cbErr) ==
  IF msg = Nil THEN EndOfStream(cmd)
  ELSE IF msg.items = <<>> THEN Returns(Opened(cmd, msg), "nil")
  ELSE Deliver(Opened(cmd, msg), msg.items, IsTrue(cmd.f, "Stream"), cbErr)

ListBucketsCommandBuilder ==
  [options |-> [WithAllowListing |-> {"allowListing"}, WithBucketType |-> {"Type"},
     WithStreaming |-> {"Stream"}, WithCallback |-> {"callback"},
     WithTimeout |-> {"Timeout"}],
   new |-> {}, copies |-> {"allowListing", "callback"}]

ListBucketsBuild(f) ==
  /\ validateLocatable(KVLocation.RpbListBucketsReq, f)
  /\ CallbackIfStreaming(f, "Stream")
  /\ ListingAllowed(f)
-----------------------------------------------------------------------------
ListKeysCommand ==
  [req |-> "RpbListKeysReq", resp |-> "RpbListKeysResp", body |-> TRUE,
   impls |-> {"timeout", "listing"}, isDone |-> "always"]

\* Mutant: a chunk replaces the one before.
ListKeysOnSuccessReplaces(cmd, msg, cbErr) ==
  IF msg = Nil THEN EndOfStream(cmd)
  ELSE Deliver([Opened(cmd, msg) EXCEPT !.Response = EmptyResponse], msg.items,
               IsTrue(cmd.f, "streaming"), cbErr)

ListKeysOnSuccess(cmd, msg, cbErr) ==
  IF msg = Nil THEN EndOfStream(cmd)
  ELSE IF msg.items = <<>> THEN Returns(Opened(cmd, msg), "nil")
  ELSE Deliver(Opened(cmd, msg), msg.items, IsTrue(cmd.f, "streaming"), cbErr)

ListKeysCommandBuilder ==
  [options |-> [WithAllowListing |-> {"allowListing"}, WithBucketType |-> {"Type"},
     WithBucket |-> {"Bucket"}, WithStreaming |-> {"streaming"},
     WithCallback |-> {"callback"}, WithTimeout |-> {"timeout", "Timeout"}],
   new |-> {}, copies |-> {"allowListing", "timeout", "streaming", "callback"}]

ListKeysBuild(f) ==
  /\ validateLocatable(KVLocation.RpbListKeysReq, f)
  /\ CallbackIfStreaming(f, "streaming")
  /\ ListingAllowed(f)
-----------------------------------------------------------------------------
FetchPreflistCommand ==
  [req |-> "RpbGetBucketKeyPreflistReq", resp |-> "RpbGetBucketKeyPreflistResp",
   body |-> TRUE, impls |-> {"retryable"}, isDone |-> "none"]

FetchPreflistOnSuccess(cmd, msg) ==
  Succeeds(cmd, IF msg = Nil THEN EmptyResponse
                             ELSE Response(FALSE, msg.items, NoPlace))

FetchPreflistCommandBuilder ==
  [options |-> [WithBucketType |-> {"Type"}, WithBucket |-> {"Bucket"},
     WithKey |-> {"Key"}],
   new |-> {}, copies |-> {}]

FetchPreflistBuild(f) == validateLocatable(KVLocation.RpbGetBucketKeyPreflistReq, f)
-----------------------------------------------------------------------------
SecondaryIndexQueryCommand ==
  [req |-> "RpbIndexReq", resp |-> "RpbIndexResp", body |-> TRUE,
   impls |-> {"timeout"}, isDone |-> "asked"]

SecondaryIndexQueryConstruct(f) ==
  [Qtype |-> IF Has(f, "Key") THEN "eq" ELSE "range"] ++ f

\* The callback gets empty results too.
SecondaryIndexQueryOnSuccess(cmd, msg, cbErr) ==
  IF msg = Nil THEN EndOfStream(cmd)
  ELSE Deliver(Opened(cmd, msg), msg.items, IsTrue(cmd.f, "Stream"), cbErr)

SecondaryIndexQueryCommandBuilder ==
  [options |-> [WithBucketType |-> {"Type"}, WithBucket |-> {"Bucket"},
     WithIndexName |-> {"Index"}, WithRange |-> {"RangeMin", "RangeMax"},
     WithIntRange |-> {"RangeMin", "RangeMax"}, WithIndexKey |-> {"Key"},
     WithIntIndexKey |-> {"Key"}, WithReturnKeyAndIndex |-> {"ReturnTerms"},
     WithStreaming |-> {"Stream"}, WithCallback |-> {"callback"},
     WithPaginationSort |-> {"PaginationSort"}, WithMaxResults |-> {"MaxResults"},
     WithContinuation |-> {"Continuation"}, WithTermRegex |-> {"TermRegex"},
     WithTimeout |-> {"timeout", "Timeout"}],
   new |-> {}, copies |-> {"timeout", "callback"}]

SecondaryIndexQueryBuild(f) ==
  /\ validateLocatable(KVLocation.RpbIndexReq, f)
  /\ Has(f, "Key") \/ (Has(f, "RangeMin") /\ Has(f, "RangeMax"))
  /\ CallbackIfStreaming(f, "Stream")
-----------------------------------------------------------------------------
NoData == <<0, 1>>

MapReduceCommand ==
  [req |-> "RpbMapRedReq", resp |-> "RpbMapRedResp", body |-> TRUE,
   impls |-> {}, isDone |-> "always"]

\* Every message yields one element, nil if it has no data.  The Response is a
\* slice that exists once something has been appended, and a message without a
\* body does not reset it.
MapReduceOnSuccess(cmd, msg, cbErr) ==
  IF msg = Nil
    THEN Returns([cmd EXCEPT !.success = TRUE, !.done = TRUE], "nil")
    ELSE LET streaming == IsTrue(cmd.f, "streaming")
             opened    == Opened(cmd, msg)
         IN Deliver(IF streaming THEN [opened EXCEPT !.Response = cmd.Response]
                                 ELSE opened,
                    IF msg.items = <<>> THEN <<NoData>> ELSE msg.items,
                    streaming, cbErr)

MapReduceCommandBuilder ==
  [options |-> [WithQuery |-> {"Request"}, WithStreaming |-> {"streaming"},
     WithCallback |-> {"callback"}],
   new |-> {"ContentType"}, copies |-> {"streaming", "callback"}]

MapReduceBuild(f) == CallbackIfStreaming(f, "streaming")
-----------------------------------------------------------------------------
KVCommandTable ==
  [FetchValue |-> FetchValueCommand, StoreValue |-> StoreValueCommand,
   DeleteValue |-> DeleteValueCommand, ListBuckets |-> ListBucketsCommand,
   ListKeys |-> ListKeysCommand, FetchPreflist |-> FetchPreflistCommand,
   SecondaryIndexQuery |-> SecondaryIndexQueryCommand, MapReduce |-> MapReduceCommand]

KVBuilderTable ==
  [FetchValue |-> FetchValueCommandBuilder, StoreValue |-> StoreValueCommandBuilder,
   DeleteValue |-> DeleteValueCommandBuilder, ListBuckets |-> ListBucketsCommandBuilder,
   ListKeys |-> ListKeysCommandBuilder, FetchPreflist |-> FetchPreflistCommandBuilder,
   SecondaryIndexQuery |-> SecondaryIndexQueryCommandBuilder,
   MapReduce |-> MapReduceCommandBuilder]

KVBuild(kind, f) ==
  CASE kind = "FetchValue"    -> FetchValueBuild(f)
    [] kind = "StoreValue"    -> StoreValueBuild(f)
    [] kind = "DeleteValue"   -> DeleteValueBuild(f)
    [] kind = "ListBuckets"   -> ListBucketsBuild(f)
    [] kind = "ListKeys"      -> ListKeysBuild(f)
    [] kind = "FetchPreflist" -> FetchPreflistBuild(f)
    [] kind = "SecondaryIndexQuery" -> SecondaryIndexQueryBuild(f)
    [] kind = "MapReduce"     -> MapReduceBuild(f)

KVOnSuccess(kind, cmd, msg, cbErr) ==
  CASE kind = "FetchValue"    -> FetchValueOnSuccess(cmd, msg)
    [] kind = "StoreValue"    -> StoreValueOnSuccess(cmd, msg)
    [] kind = "DeleteValue"   -> DeleteValueOnSuccess(cmd)
    [] kind = "ListBuckets"   -> ListBucketsOnSuccess(cmd, msg, cbErr)
    [] kind = "ListKeys"      -> ListKeysOnSuccess(cmd, msg, cbErr)
    [] kind = "FetchPreflist" -> FetchPreflistOnSuccess(cmd, msg)
    [] kind = "SecondaryIndexQuery" -> SecondaryIndexQueryOnSuccess(cmd, msg, cbErr)
    [] kind = "MapReduce"     -> MapReduceOnSuccess(cmd, msg, cbErr)

\* The fields that proto.Marshal insists on.
KVRequired ==
  [RpbGetReq |-> {"Bucket", "Key"}, RpbPutReq |-> {"Bucket", "Content"},
   RpbDelReq |-> {"Bucket", "Key"}, RpbListBucketsReq |-> {},
   RpbListKeysReq |-> {"Bucket"}, RpbGetBucketKeyPreflistReq |-> {"Bucket", "Key"},
   RpbIndexReq |-> {"Bucket", "Index", "Qtype"}, RpbMapRedReq |-> {"Request", "ContentType"},
   RpbCounterUpdateReq |-> {"Bucket", "Key", "Amount"}]
=============================================================================
