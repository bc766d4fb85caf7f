------------------------------- MODULE Command -------------------------------
(***************************************************************************)
(* What every command of the client has in common (command.go,             *)
(* locatable.go): the state a command keeps while it is executed, the      *)
(* fields of its request, and what onSuccess and onError make of them.     *)
(*                                                                         *)
(* The fields a builder has been given are a function from field names to  *)
(* values; a field that was never set is not in its domain.  Names in      *)
(* upper case are fields of the protobuf message, which the builder and    *)
(* the command share; names in lower case are fields of the builder, which *)
(* reach the command only if Build copies them.                            *)
(*                                                                         *)
(* A response body is a record with the items that it carries (contents,   *)
(* keys, rows, documents, a data type's value), the done flag of a stream  *)
(* and the key that Riak generated, if any.  Nil stands for a message that *)
(* consists of its code only.                                              *)
(***************************************************************************)
EXTENDS Naturals, Sequences, FiniteSets

\* The fields of f, and those of g that f does not have.
f ++ g == [x \in DOMAIN f \cup DOMAIN g |-> IF x \in DOMAIN f THEN f[x] ELSE g[x]]

\* The empty string: a field, a key or a cause that is not there.
Empty == ""

Nil == [nil |-> TRUE]

\* Bodies of responses.
Body(items, done, key) == [items |-> items, done |-> done, key |-> key]

\* Values of cmd.Response: not set, or found or not with items and the place
\* in Riak the client says they are from.
NoResponse == [set |-> FALSE]
NoPlace    == [Type |-> Empty, Bucket |-> Empty, Key |-> Empty]
Response(notFound, items, at) ==
  [set |-> TRUE, notFound |-> notFound, items |-> items, at |-> at]
EmptyResponse == Response(FALSE, <<>>, NoPlace)

\* The fields of builders that are not fields of the protobuf message.
BuilderFields ==
  {"timeout", "resolver", "value", "allowListing", "callback", "streaming",
   "mapOperation", "bucketType", "bucket", "key", "increment", "w", "pw", "dw",
   "returnBody"}

Has(f, field)    == field \in DOMAIN f
Get(f, field)    == IF Has(f, field) THEN f[field] ELSE Empty
Given(f, field)  == Get(f, field) # Empty
IsTrue(f, field) == Get(f, field) = "true"
Place(f)         == [x \in {"Type", "Bucket", "Key"} |-> Get(f, x)]

\* A command as Build returns it: commandImpl and the state of onSuccess.  given
\* is what the application's callback has received.
NewCommand(f) ==
  [f |-> f, success |-> FALSE, error |-> "nil", done |-> FALSE,
   Response |-> NoResponse, given |-> <<>>]

\* Mutant: the success of an earlier chunk stays.
onErrorKeepsSuccess(cmd, err) == [cmd EXCEPT !.error = err]

onError(cmd, err) == [cmd EXCEPT !.success = FALSE, !.error = err]
onRetry(cmd)      == [cmd EXCEPT !.error = "nil"]
-----------------------------------------------------------------------------
(* The results of onSuccess: the command and the error it returns. *)

Returns(cmd, err) == [cmd |-> cmd, err |-> err]

\* success, with a new Response or with the one there was.
Succeeds(cmd, response) ==
  Returns([cmd EXCEPT !.success = TRUE, !.Response = response], "nil")
Acknowledged(cmd) == Succeeds(cmd, cmd.Response)
Unsuccessful(cmd) == Returns([cmd EXCEPT !.success = FALSE], "nil")

\* A message without a body ends a stream and resets what was collected.
EndOfStream(cmd) ==
  Returns([cmd EXCEPT !.success = TRUE, !.done = TRUE,
                      !.Response = EmptyResponse], "nil")

\* The first message of a stream opens the Response.
Opened(cmd, msg) ==
  [cmd EXCEPT !.success = TRUE, !.done = msg.done,
              !.Response = IF @.set THEN @ ELSE EmptyResponse]

\* A chunk goes to the callback, whose error onSuccess returns after it has
\* dropped the Response, or is appended to the Response.  There is a callback: without
\* one the code panics here, which is CallbackPanics of Connection.
Deliver(cmd, items, streaming, cbErr) ==
  IF streaming
    THEN LET called == [cmd EXCEPT !.given = @ \o items]
         IN IF cbErr = "nil" THEN Returns(called, "nil")
            ELSE Returns([called EXCEPT !.Response = NoResponse], cbErr)
    ELSE Returns([cmd EXCEPT !.Response.items = @ \o items], "nil")
-----------------------------------------------------------------------------
(* The parts of the Build methods. *)

\* A request that names a place: the fields that must not be empty are those of
\* BucketIsRequired and KeyIsRequired.
validateLocatable(required, f) == \A x \in required : Given(f, x)

\* validateLocatable also fills in the bucket type.
WithDefaultType(f) ==
  IF Given(f, "Type") THEN f ELSE [Type |-> "default"] ++ f

\* What the command that Build returns can see: the message and the fields that
\* are copied into the command.
Copied(f, copies) ==
  [x \in {y \in DOMAIN f : y \in BuilderFields => y \in copies} |-> f[x]]

CallbackIfStreaming(f, flag) == IsTrue(f, flag) => Has(f, "callback")
ListingAllowed(f)            == Has(f, "allowListing")
=============================================================================
