----------------------------- MODULE Connection ------------------------------
(***************************************************************************)
(* A command from its builder to its result: the application sets options  *)
(* and calls Build; Cluster.execute tries the command, Node.execute takes  *)
(* a connection from the pool or makes one, connection.execute runs the    *)
(* command on it (connection.go, command.go, rpb.go, error.go), Node       *)
(* decides what becomes of the connection, and Cluster whether to retry.   *)
(* A second command then meets what the first one left on the connection.  *)
(*                                                                         *)
(* The wire is the sequence of the answers Riak has sent and nobody has    *)
(* read.  Riak is a choice among the answers to a request; it may also     *)
(* answer with an error, stop in the middle of a stream or say nothing.    *)
(* Every item it sends is a pair of the attempt it answers and a number.   *)
(***************************************************************************)
EXTENDS KVCommands, CRDTCommands, MiscCommands, TSCommands, YZCommands

CONSTANTS
  Kinds,                \* the commands the application builds first
  Followers,            \* and those it runs afterwards
  MaxPlain,             \* bound on the options that are not Relevant
  MaxReuse,             \* bound on the fields changed through a builder after Build
  MaxChunks,            \* bound on the chunks of a stream and the items of a value
  ExecutionAttempts,    \* executionAttempts of the cluster
  TempNetErrorRetries,  \* tempNetErrorRetries of the connection
  UseAuth               \* the node has authOptions

ASSUME ConnectionAssumption ==
  /\ ExecutionAttempts \in Nat \ {0} /\ TempNetErrorRetries \in Nat
  /\ MaxPlain \in Nat /\ MaxReuse \in Nat /\ MaxChunks \in Nat /\ UseAuth \in BOOLEAN

Commands == KVCommandTable ++ CRDTCommandTable ++ MiscCommandTable
              ++ TSCommandTable ++ YZCommandTable
Builders == KVBuilderTable ++ CRDTBuilderTable ++ MiscBuilderTable
              ++ TSBuilderTable ++ YZBuilderTable
Required == KVRequired ++ DTRequired ++ RiakRequired ++ TSRequired ++ YZRequired

\* The application has no builder for the two commands that secure a connection.
ASSUME KindAssumption == Kinds \cup Followers \subseteq DOMAIN Commands \ {"StartTls", "Auth"}

\* States of a connection, in the order of isStateLessThan.
connCreated     == 0
connTlsStarting == 1
connActive      == 2
connInactive    == 3

VARIABLES
  kind,      \* the application's command
  builder,   \* the fields its builder has been given
  cmd,       \* the command that Build returned
  aux,       \* startTlsCommand or authCommand, while one runs
  running,   \* which command connection.execute runs: "app", "StartTls", "Auth"
  pc,        \* what happens next
  tries,     \* tries left in Cluster.execute
  err,       \* the error of connection.execute: "nil", "riak", "client", "temp",
             \* "net" or "plain" (an error that is none of these)
  conn,      \* the connection of the pool
  wire,      \* answers sent and not read
  try,       \* retries of the read in progress
  answer,    \* what Riak sends in answer to the application's last request
  sentTo,    \* the place that request names
  deadline,  \* the timeout of the last reads: "default" or "long"
  cause,     \* why the last health check was started, Empty if there was none
  reused,    \* the fields of the message changed through the builder after Build
  round,     \* first or second command
  spoilt,    \* why the connection may be out of step with Riak
  panicked

app  == <<kind, builder, reused, round, panicked>>
sock == <<conn, wire, spoilt>>
vars == <<app, cmd, aux, running, pc, tries, err, sock, try, answer,
          sentTo, deadline, cause>>

\* A command without fields: none yet, or one that secures a connection.
NoCommand == NewCommand([none |-> Empty])
NoConn    == [open |-> FALSE, state |-> connCreated, inFlight |-> FALSE, authed |-> FALSE]

available(c) == c.open /\ c.state < connInactive

\* A number for the attempt that is going on.
Attempt == (ExecutionAttempts + 1) * round + tries

RunKind == IF running = "app" THEN kind ELSE running
Current == IF running = "app" THEN cmd ELSE aux

\* The command that connection.execute runs is replaced by c.
SetCurrent(c) ==
  IF running = "app" THEN cmd' = c /\ UNCHANGED aux ELSE aux' = c /\ UNCHANGED cmd

\* Codes and interfaces of the command that runs.
Traits(k, f) ==
  IF k = "UpdateCounter" /\ Has(f, "legacy") THEN legacyCounterCommand ELSE Commands[k]
-----------------------------------------------------------------------------
(* The builder. *)

\* Fields that decide together whether and how a command is executed; of the other
\* options an application uses at most MaxPlain.
Relevant ==
  {"Bucket", "Key", "Table", "Query", "Stream", "streaming", "callback", "allowListing",
   "bucketType", "bucket", "key", "returnBody", "Index", "Request", "Q", "Name",
   "IndexName", "SchemaName", "RangeMin", "RangeMax", "mapOperation", "value"}

\* Arguments of the options.
Values(field) ==
  CASE field \in {"Stream", "streaming", "returnBody"} -> {"true", "false"}
    [] field \in {"Bucket", "Key", "Table", "bucket"}  -> {Empty, "v1"}
    [] field = "bucketType"           -> {"default", "v1"}
    [] field \in {"timeout", "Timeout"} -> {"long"}
    [] field = "value"                -> {"plain", "located"}
    [] field = "mapOperation"         -> {"adds", "removes"}
    [] OTHER                          -> {"v1"}

Options(k) == Builders[k].options

NewBuilder(k) == [x \in Builders[k].new |-> "v1"]

\* An option is called with a value; WithContent also copies the object's place.
WithOption ==
  /\ pc = "building"
  /\ \E o \in DOMAIN Options(kind) :
       LET fields == Options(kind)[o]
       IN /\ fields # {} /\ fields \cap DOMAIN builder = {}
          /\ fields \cap Relevant = {} =>
               Cardinality(DOMAIN builder \ (Relevant \cup Builders[kind].new)) < MaxPlain
          /\ \E v \in UNION {Values(x) : x \in fields} :
               builder' = IF o = "WithContent" THEN WithContent(builder, v)
                          ELSE [x \in fields |-> v] ++ builder
  /\ UNCHANGED <<kind, reused, round, panicked, cmd, aux, running, pc, tries, err, sock,
                 try, answer, sentTo, deadline, cause>>

\* Does Build accept?  The commands of Riak Search are not validated.
Accepts(k, f) ==
  CASE k \in DOMAIN KVBuilderTable   -> KVBuild(k, f)
    [] k \in DOMAIN CRDTBuilderTable -> CRDTBuild(k, f)
    [] k \in DOMAIN MiscBuilderTable -> MiscBuild(k, f)
    [] k \in DOMAIN TSBuilderTable   -> TSBuild(k, f)
    [] OTHER                         -> TRUE

\* Requests whose Build calls validateLocatable, which fills in the bucket type.
Locatable == DOMAIN KVLocation \cup DOMAIN DTLocation \cup DOMAIN RiakLocation

Built(k, f) ==
  LET g == IF k = "UpdateCounter" THEN UpdateCounterMessage(f)
                                  ELSE Copied(f, Builders[k].copies)
  IN IF Commands[k].req \in Locatable /\ ~Has(g, "legacy") THEN WithDefaultType(g) ELSE g

\* Cluster.execute gives a retryable command all attempts and another one a single one.
Attempts(k) == IF "retryable" \in Commands[k].impls THEN ExecutionAttempts ELSE 1

Submit(k, f) ==
  /\ cmd' = NewCommand(Built(k, f))
  /\ tries' = Attempts(k)
  /\ pc' = "cluster"

Build ==
  /\ pc = "building"
  /\ IF Accepts(kind, builder)
       THEN Submit(kind, builder)
       ELSE /\ pc' = "rejected" /\ UNCHANGED <<cmd, tries>>
  /\ UNCHANGED <<app, aux, running, err, sock, try, answer, sentTo, deadline,
                 cause>>

\* The fields of the message that decide where an answer is from, how long Riak may
\* take and how the command reads; Key stands for Bucket and Type as well.
Shared == {"Key", "Timeout", "Stream"}

\* Another value for a field.
Changed(f, field) ==
  CASE field = "Key"     -> "v2"
    [] field = "Timeout" -> "long"
    [] field = "Stream"  -> IF IsTrue(f, "Stream") THEN "false" ELSE "true"

\* The application prepares its next request with the same builder while the
\* command is on its way: the two share the protobuf message, and what Build has
\* copied stays as it was.  At most MaxReuse fields change, each one once.  A command
\* that already reads is out of step with Riak when its message says something else
\* about streaming than the one that was sent.
ReuseBuilder ==
  /\ pc \in {"cluster", "execute", "read"} /\ round = 1 /\ Cardinality(reused) < MaxReuse
  /\ \E o \in DOMAIN Options(kind) : \E x \in Options(kind)[o] \cap (Shared \ reused) :
       /\ reused' = reused \cup {x}
       /\ builder' = [y \in Options(kind)[o] |-> Changed(cmd.f, x)] ++ builder
       /\ cmd' = [cmd EXCEPT !.f = [y \in {x} |-> Changed(cmd.f, x)] ++ @]
       /\ spoilt' = IF x = "Stream" /\ pc = "read" /\ running = "app"
                      THEN spoilt \cup {"reuse"} ELSE spoilt
  /\ UNCHANGED <<kind, round, panicked, aux, running, pc, tries, err, conn, wire, try,
                 answer, sentTo, deadline, cause>>
-----------------------------------------------------------------------------
(* Getting a connection. *)

StartRunning(which, c) ==
  /\ running' = which
  /\ aux' = NoCommand
  /\ conn' = c
  /\ pc' = "execute"

\* The pool has a connection that is available.
GetPooled ==
  /\ pc = "cluster" /\ available(conn)
  /\ StartRunning("app", conn)
  /\ UNCHANGED <<app, cmd, tries, err, wire, spoilt, try, answer, sentTo,
                 deadline, cause>>

\* connect: the dial succeeds, and startTls begins if there are authOptions.
Connect ==
  /\ pc = "cluster" /\ ~available(conn)
  /\ IF UseAuth
       THEN StartRunning("StartTls", [NoConn EXCEPT !.open = TRUE, !.state = connTlsStarting])
       ELSE StartRunning("app", [NoConn EXCEPT !.open = TRUE, !.state = connActive])
  /\ wire' = <<>> /\ spoilt' = {}
  /\ UNCHANGED <<app, cmd, tries, err, try, answer, sentTo, deadline, cause>>

\* Mutant: the tries are not looked at.
RetryForever == tries' = tries - 1 /\ cmd' = onRetry(cmd) /\ pc' = "cluster"

\* Mutant: the tries are not counted.
RetryUncounted == cmd' = onRetry(cmd) /\ pc' = "cluster" /\ UNCHANGED tries

\* The rest of Cluster.execute's loop: no more tries, or another one.
RetryOrGiveUp ==
  /\ tries' = tries - 1
  /\ IF tries > 1 THEN cmd' = onRetry(cmd) /\ pc' = "cluster"
                  ELSE pc' = "finished" /\ UNCHANGED cmd

\* A connection that cannot be made is closed; the command was not executed and
\* the node starts a health check.
NoConnection(e) ==
  /\ conn' = NoConn /\ wire' = <<>> /\ spoilt' = {}
  /\ running' = "app" /\ aux' = NoCommand
  /\ err' = e
  /\ cause' = "connect"
  /\ RetryOrGiveUp

DialFails ==
  /\ pc = "cluster" /\ ~available(conn)
  /\ NoConnection("net")
  /\ UNCHANGED <<app, try, answer, sentTo, deadline>>

\* Mutant: the connection is active once TLS is.
SetupStepNoAuth ==
  /\ pc = "classify" /\ running # "app" /\ err = "nil"
  /\ StartRunning("app", [conn EXCEPT !.state = connActive])
  /\ UNCHANGED <<cmd, tries, err, wire, spoilt, cause, app, try, answer, sentTo, deadline>>

\* After startTlsCommand the handshake; after authCommand the connection is active.
SetupStep ==
  /\ pc = "classify" /\ running # "app" /\ err = "nil"
  /\ \/ /\ running = "StartTls"
        /\ StartRunning("Auth", conn)
        /\ UNCHANGED <<cmd, tries, err, wire, spoilt, cause>>
     \/ /\ running = "StartTls"
        /\ NoConnection("plain")
     \/ /\ running = "Auth"
        /\ StartRunning("app", [conn EXCEPT !.state = connActive, !.authed = TRUE])
        /\ UNCHANGED <<cmd, tries, err, wire, spoilt, cause>>
  /\ UNCHANGED <<app, try, answer, sentTo, deadline>>

SetupFails ==
  /\ pc = "classify" /\ running # "app" /\ err # "nil"
  /\ NoConnection(err)
  /\ UNCHANGED <<app, try, answer, sentTo, deadline>>
-----------------------------------------------------------------------------
(* Riak. *)

Message(code, msg) == [code |-> code, msg |-> msg]
ErrorAnswer        == Message("RpbErrorResp", Nil)

Streams(req, f) ==
  \/ req \in {"RpbListKeysReq", "RpbMapRedReq", "TsListKeysReq"}
  \/ req \in {"RpbListBucketsReq", "RpbIndexReq", "TsQueryReq"} /\ IsTrue(f, "Stream")

Items(a, m, n) == [i \in 1..(n - m + 1) |-> <<a, m + i - 1>>]

\* The first n chunks of a stream, one item each; n is the last one or not.
Chunks(resp, a, n)   == [i \in 1..n |-> Message(resp, Body(Items(a, i, i), FALSE, Empty))]
DoneWith(resp, a, n) == [i \in 1..n |-> Message(resp, Body(Items(a, i, i), i = n, Empty))]

\* A stream: chunks, then done in a message of its own or with the last chunk, or an
\* error.  A chunk with nothing in it has no body.
StreamAnswers(resp, a) ==
  LET done == Message(resp, Body(<<>>, TRUE, Empty)) IN
  {Chunks(resp, a, n) \o <<done>> : n \in 0..(MaxChunks - 1)}
  \cup {Chunks(resp, a, n) \o <<ErrorAnswer>> : n \in 0..(MaxChunks - 1)}
  \cup {DoneWith(resp, a, n) : n \in 1..MaxChunks}
  \cup {Chunks(resp, a, 1) \o <<Message(resp, Nil), done>>}

\* One answer: without a body, with items, with a key that Riak made, an error.
Value(resp, a, n, key) == <<Message(resp, Body(Items(a, 1, n), FALSE, key))>>

SingleAnswers(t, f, a) ==
  {<<Message(t.resp, Nil)>>, <<ErrorAnswer>>}
  \cup (IF t.body THEN {Value(t.resp, a, n, Empty) : n \in 0..MaxChunks} ELSE {})
  \cup (IF t.body /\ ~Has(f, "Key") THEN {Value(t.resp, a, n, "g") : n \in 0..MaxChunks}
                                    ELSE {})

RiakAnswers(t, f, a) ==
  IF Streams(t.req, f) THEN StreamAnswers(t.resp, a) ELSE SingleAnswers(t, f, a)
-----------------------------------------------------------------------------
(* connection.execute up to the write. *)

\* execute returns with error e and command c.
ExecuteReturns(c, e) ==
  /\ SetCurrent(c) /\ err' = e /\ pc' = "classify"

ListingRefused ==
  /\ pc = "execute"
  /\ "listing" \in Traits(RunKind, Current.f).impls /\ ~Has(Current.f, "allowListing")
  /\ ExecuteReturns(onError(Current, "client"), "client")
  /\ UNCHANGED <<app, running, tries, sock, try, answer, sentTo, deadline,
                 cause>>

MayList == "listing" \in Traits(RunKind, Current.f).impls => Has(Current.f, "allowListing")

\* constructPbRequest changes the message that the builder shares.
constructPbRequest(k, f) ==
  CASE k = "StoreValue" -> StoreValueConstruct(f)
    [] k = "SecondaryIndexQuery" -> SecondaryIndexQueryConstruct(f)
    [] k = "UpdateMap"  -> UpdateMapConstruct(f)
    [] k = "Auth"       -> authConstruct(f)
    [] OTHER            -> f

\* StoreValue without a value dereferences nil; so would UpdateMap without a map
\* operation, which Build does not let pass.
Panics(k, f) ==
  \/ k = "StoreValue" /\ ~Has(f, "value")
  \/ k = "UpdateMap" /\ ~Has(f, "mapOperation")

ConstructPanics ==
  /\ pc = "execute" /\ MayList /\ Panics(RunKind, Current.f)
  /\ panicked' = TRUE /\ pc' = "dead"
  /\ UNCHANGED <<kind, builder, reused, round, cmd, aux, running, tries, err, sock, try,
                 answer, sentTo, deadline, cause>>

Marshals(k, f) ==
  Required[Traits(k, f).req] \subseteq DOMAIN constructPbRequest(k, f)

\* getRiakMessage fails; the command does not learn of it.
MarshalFails ==
  /\ pc = "execute" /\ MayList /\ ~Panics(RunKind, Current.f)
  /\ ~Marshals(RunKind, Current.f)
  /\ ExecuteReturns([Current EXCEPT !.f = constructPbRequest(RunKind, @)], "plain")
  /\ UNCHANGED <<app, running, tries, sock, try, answer, sentTo, deadline,
                 cause>>

CanWrite ==
  /\ pc = "execute" /\ MayList /\ ~Panics(RunKind, Current.f)
  /\ Marshals(RunKind, Current.f)

\* Mutant: the command's timeout is not looked at.
ReadTimeoutOfConnection(t, f) == "default"

\* The greater of the connection's and the command's timeout.
ReadTimeout(t, f) ==
  IF "timeout" \in t.impls /\ Get(f, "timeout") = "long" THEN "long" ELSE "default"

Write ==
  /\ CanWrite
  /\ LET f == constructPbRequest(RunKind, Current.f)
         t == Traits(RunKind, f)
     IN /\ SetCurrent([Current EXCEPT !.f = f])
        /\ deadline' = ReadTimeout(t, f)
        /\ sentTo' = Place(f)
        /\ \E a \in RiakAnswers(t, f, Attempt) :
             wire' = wire \o a /\ answer' = IF running = "app" THEN a ELSE <<>>
  /\ conn' = [conn EXCEPT !.inFlight = TRUE]
  /\ try' = 0 /\ err' = "nil"
  /\ pc' = "read"
  /\ UNCHANGED <<app, running, tries, spoilt, cause>>

\* A write that fails makes the connection inactive; onError is not called.
WriteFails ==
  /\ CanWrite
  /\ conn' = [conn EXCEPT !.state = connInactive]
  /\ \E e \in {"temp", "net"} :
       ExecuteReturns([Current EXCEPT !.f = constructPbRequest(RunKind, @)], e)
  /\ UNCHANGED <<app, running, tries, wire, spoilt, try, answer, sentTo,
                 deadline, cause>>
-----------------------------------------------------------------------------
(* connection.execute from the first read. *)

ReadReturns(c, e) == ExecuteReturns(c, e) /\ conn' = [conn EXCEPT !.inFlight = FALSE]

\* Mutant: every command is done after one message.
isDoneAtOnce(k, c) == TRUE

isDone(k, c) ==
  CASE Traits(k, c.f).isDone = "none"   -> TRUE
    [] Traits(k, c.f).isDone = "always" -> c.done
    [] Traits(k, c.f).isDone = "asked"  -> IsTrue(c.f, "Stream") => c.done

onSuccess(k, c, msg, cbErr) ==
  CASE k \in DOMAIN KVCommandTable   -> KVOnSuccess(k, c, msg, cbErr)
    [] k \in DOMAIN CRDTCommandTable -> CRDTOnSuccess(k, c, msg)
    [] k \in DOMAIN MiscCommandTable -> MiscOnSuccess(k, c, msg)
    [] k \in DOMAIN TSCommandTable   -> TSOnSuccess(k, c, msg, cbErr)
    [] k \in DOMAIN YZCommandTable   -> YZOnSuccess(k, c, msg)

\* maybeRiakError, decodeRiakMessage, onSuccess and isDone on one message.
Handle(m, cbErr) ==
  LET k == RunKind
      t == Traits(k, Current.f)
      r == onSuccess(k, Current, IF t.body THEN m.msg ELSE Nil, cbErr)
  IN CASE m.code = "RpbErrorResp" -> ReadReturns(onError(Current, "riak"), "riak")
       [] m.code \notin {"RpbErrorResp", t.resp} ->
            ReadReturns(onError(Current, "client"), "client")
       [] m.code = t.resp /\ r.err # "nil" -> ReadReturns(onError(r.cmd, r.err), r.err)
       [] m.code = t.resp /\ r.err = "nil" /\ isDone(k, r.cmd) -> ReadReturns(r.cmd, "nil")
       [] OTHER -> SetCurrent(r.cmd) /\ UNCHANGED <<pc, err, conn>>

\* What connection.execute itself does to leave a part of an answer on a connection
\* that goes back to the pool: a streamed TsQuery is taken for done after one
\* message; a message without a body in a stream is taken for its end; a RiakError
\* or a ClientError of a callback is taken by Node.execute for one of its own.
Leftover(m, e) ==
  LET f == Current.f
      t == Traits(RunKind, f)
  IN (IF RunKind = "TsQuery" /\ IsTrue(f, "Stream") THEN {"query"} ELSE {})
     \cup (IF Streams(t.req, f) /\ m.msg = Nil /\ m.code # "RpbErrorResp"
             THEN {"empty"} ELSE {})
     \cup (IF e \in {"riak", "client"} /\ m.code = t.resp THEN {"callback"} ELSE {})

\* A callback returns whatever error the application likes; "plain" stands for a
\* network error that is not temporary as well, which Node treats alike.
CallbackErrors ==
  IF Has(Current.f, "callback") THEN {"nil", "plain", "riak", "client", "temp"} ELSE {"nil"}

\* Does the command hand what it reads to its callback?
Streaming(k, f) ==
  \/ k \in {"ListKeys", "MapReduce", "TsListKeys"} /\ IsTrue(f, "streaming")
  \/ k \in {"ListBuckets", "SecondaryIndexQuery", "TsQuery"} /\ IsTrue(f, "Stream")

\* The message is for a callback that the command does not have.
CallbackMissing(m) ==
  LET f == Current.f IN
  /\ m.code = Traits(RunKind, f).resp /\ m.msg # Nil
  /\ Streaming(RunKind, f) /\ ~Has(f, "callback")
  /\ m.msg.items # <<>> \/ RunKind \in {"SecondaryIndexQuery", "MapReduce"}

ReadMessage ==
  /\ pc = "read" /\ wire # <<>> /\ "frame" \notin spoilt
  /\ ~CallbackMissing(Head(wire))
  /\ \E cbErr \in CallbackErrors :
       /\ Handle(Head(wire), cbErr)
       /\ spoilt' = spoilt \cup Leftover(Head(wire), err')
  /\ wire' = Tail(wire)
  /\ try' = 0
  /\ UNCHANGED <<app, running, tries, answer, sentTo, deadline, cause>>

\* A temporary error is retried, from the length on: in the middle of a message
\* the next read takes its bytes for a length.
RetryRead ==
  /\ pc = "read" /\ try < TempNetErrorRetries
  /\ try' = try + 1
  /\ spoilt' \in {spoilt, IF wire = <<>> THEN spoilt ELSE spoilt \cup {"frame"}}
  /\ UNCHANGED <<app, cmd, aux, running, pc, tries, err, conn, wire, answer,
                 sentTo, deadline, cause>>

ReadFails ==
  /\ pc = "read"
  /\ \E e \in {"temp", "net"} :
       /\ e = "temp" => try = TempNetErrorRetries
       /\ ExecuteReturns(onError(Current, e), e)
  /\ conn' = [conn EXCEPT !.state = connInactive, !.inFlight = FALSE]
  /\ UNCHANGED <<app, running, tries, wire, spoilt, try, answer, sentTo,
                 deadline, cause>>

\* What a misframed read takes for a message may have any code and any content,
\* and ends wherever it ends.
Garbage(resp) ==
  {Message(c, Body(<<<<0, 2>>>>, d, Empty)) :
     c \in {"RpbErrorResp", "other", resp}, d \in BOOLEAN}

ReadGarbage ==
  /\ pc = "read" /\ wire # <<>> /\ "frame" \in spoilt
  /\ \/ \E m \in Garbage(Traits(RunKind, Current.f).resp) :
          ~CallbackMissing(m) /\ Handle(m, "nil")
     \/ ReadReturns(onError(Current, "plain"), "plain")   \* proto.Unmarshal fails
  /\ wire' \in {<<>>, Tail(wire)}
  /\ try' = 0
  /\ UNCHANGED <<app, running, tries, spoilt, answer, sentTo, deadline, cause>>

\* A length of zero: maybeRiakError takes the code from an empty buffer.
ReadZeroLength ==
  /\ pc = "read" /\ wire # <<>> /\ "frame" \in spoilt
  /\ panicked' = TRUE /\ pc' = "dead"
  /\ UNCHANGED <<kind, builder, reused, round, cmd, aux, running, tries, err, sock, try,
                 answer, sentTo, deadline, cause>>

\* onSuccess panics when it streams without a callback.
CallbackPanics ==
  /\ pc = "read" /\ wire # <<>>
  /\ \E m \in IF "frame" \in spoilt THEN Garbage(Traits(RunKind, Current.f).resp)
                                     ELSE {Head(wire)} : CallbackMissing(m)
  /\ panicked' = TRUE /\ pc' = "dead"
  /\ UNCHANGED <<kind, builder, reused, round, cmd, aux, running, tries, err, sock, try,
                 answer, sentTo, deadline, cause>>
-----------------------------------------------------------------------------
(* Node.execute after connection.execute, then Cluster.execute. *)

\* What an error that is no Riak, Client or temporary error comes from.
CauseOf(e) == CASE e = "net" -> "network"
                [] e = "plain" /\ cmd.error = "nil" -> "marshal"
                [] e = "plain" /\ cmd.error # "nil" ->
                     IF "frame" \in spoilt THEN "garbage" ELSE "callback"

\* Mutant: the connection is kept after every error.
NodeDoneKeeps ==
  /\ pc = "classify" /\ running = "app"
  /\ IF err = "nil" THEN pc' = "finished" /\ UNCHANGED <<tries, cmd>> ELSE RetryOrGiveUp
  /\ UNCHANGED <<app, aux, running, err, sock, try, answer, sentTo, deadline, cause>>

NodeDone ==
  /\ pc = "classify" /\ running = "app"
  /\ IF err \in {"nil", "riak", "client"}
       THEN UNCHANGED <<sock, cause>>
       ELSE /\ conn' = NoConn /\ wire' = <<>> /\ spoilt' = {}
            /\ cause' = IF err = "temp" THEN cause ELSE CauseOf(err)
  /\ IF err = "nil" THEN pc' = "finished" /\ UNCHANGED <<tries, cmd>> ELSE RetryOrGiveUp
  /\ UNCHANGED <<app, aux, running, err, try, answer, sentTo, deadline>>

\* The application's next command, on the same node.
Canonical(k) ==
  CASE k = "FetchValue"  -> [Bucket |-> "v1", Key |-> "v1"]
    [] k = "ListBuckets" -> [allowListing |-> "v1"]
    [] OTHER             -> NewBuilder(k)

NextCommand ==
  /\ pc \in {"finished", "rejected"} /\ round = 1
  /\ round' = 2 /\ reused' = {}
  /\ \E k \in Followers :
       /\ Accepts(k, Canonical(k))
       /\ kind' = k /\ builder' = Canonical(k)
       /\ Submit(k, Canonical(k))
  /\ err' = "nil" /\ cause' = Empty /\ try' = 0
  /\ answer' = <<>> /\ sentTo' = NoPlace /\ deadline' = "default"
  /\ UNCHANGED <<panicked, aux, running, sock>>

\* The application has no further command, or the program is dead.
Idle ==
  /\ pc \in {"finished", "dead"} /\ (round = 2 \/ panicked)
  /\ UNCHANGED vars
-----------------------------------------------------------------------------
Init ==
  /\ kind \in Kinds
  /\ builder = NewBuilder(kind)
  /\ cmd = NoCommand /\ aux = NoCommand /\ running = "app"
  /\ pc = "building" /\ tries = 0 /\ err = "nil"
  /\ conn = NoConn /\ wire = <<>> /\ try = 0 /\ spoilt = {}
  /\ answer = <<>> /\ sentTo = NoPlace /\ deadline = "default"
  /\ cause = Empty /\ reused = {} /\ round = 1 /\ panicked = FALSE

Next ==
  \/ WithOption \/ Build \/ ReuseBuilder
  \/ GetPooled \/ Connect \/ DialFails \/ SetupStep \/ SetupFails
  \/ ListingRefused \/ ConstructPanics \/ MarshalFails \/ Write \/ WriteFails
  \/ ReadMessage \/ RetryRead \/ ReadFails \/ ReadGarbage \/ ReadZeroLength
  \/ CallbackPanics \/ NodeDone \/ NextCommand \/ Idle

\* An execution always goes on: reads have deadlines, retries are counted.
Client ==
  \/ GetPooled \/ Connect \/ DialFails \/ SetupStep \/ SetupFails
  \/ ListingRefused \/ ConstructPanics \/ MarshalFails \/ Write \/ WriteFails
  \/ ReadMessage \/ RetryRead \/ ReadFails \/ ReadGarbage \/ ReadZeroLength
  \/ CallbackPanics \/ NodeDone

Spec == Init /\ [][Next]_vars /\ WF_vars(Client)
-----------------------------------------------------------------------------
(* Properties. *)

Outcomes == {"nil", "riak", "client", "temp", "net", "plain"}

\* The values of the variables.
TypeOK ==
  /\ kind \in Kinds \cup Followers
  /\ running \in {"app", "StartTls", "Auth"}
  /\ pc \in {"building", "rejected", "cluster", "execute", "read", "classify", "finished",
             "dead"}
  /\ tries \in 0..ExecutionAttempts /\ try \in 0..TempNetErrorRetries
  /\ err \in Outcomes /\ cmd.error \in Outcomes /\ cmd.success \in BOOLEAN
  /\ conn \in [open : BOOLEAN, state : connCreated..connInactive, inFlight : BOOLEAN,
               authed : BOOLEAN]
  /\ spoilt \subseteq {"query", "empty", "callback", "frame", "reuse"}
  /\ cause \in {Empty, "connect", "network", "marshal", "callback", "garbage"}
  /\ round \in {1, 2} /\ deadline \in {"default", "long"}
  /\ reused \subseteq Shared /\ panicked \in BOOLEAN

\* What the application has received: through the callback and in the Response.
Received == IF cmd.Response.set THEN cmd.given \o cmd.Response.items ELSE cmd.given

\* What Riak sent in answer to the last request: its chunks have one item each.
Sent == Items(Attempt, 1, Cardinality({i \in DOMAIN answer : answer[i].msg # Nil
                                                             /\ answer[i].msg.items # <<>>}))

\* A connection that goes back to the pool is in step: the next command finds no
\* part of an earlier answer on it, unless it is spoilt.  There are five ways to
\* spoil one: the three of Leftover, a read retried in the middle of a message
\* (RetryRead) and a stream switched on or off while it is read (ReuseBuilder).
InSync ==
  pc \in {"cluster", "finished"} /\ available(conn) /\ spoilt = {} =>
    wire = <<>> /\ ~conn.inFlight

\* On a connection that is not spoilt a command receives nothing that Riak sent in
\* answer to another command or to an earlier attempt.
NothingForeign ==
  /\ spoilt = {} /\ running = "app"
  /\ pc = "read" \/ (pc = "finished" /\ err = "nil")
  => \A i \in DOMAIN Received :
       Received[i] \in {Tombstone, NoData} \/ Received[i][1] = Attempt

\* A stream that ends without an error has delivered every chunk once, in order; a
\* MapReduce adds an element for a last message without data.  The streams that the
\* code itself cuts short without an error are excepted, and only they: a streamed
\* TsQuery, a stream with a message without a body (which resets what was
\* collected), one on a connection that an earlier command left spoilt, and one
\* whose builder was used again.
StreamComplete ==
  /\ pc = "finished" /\ err = "nil" /\ spoilt = {}
  /\ Streams(Traits(kind, cmd.f).req, cmd.f)
  => Received = Sent \/ (kind = "MapReduce" /\ Received = Append(Sent, NoData))

\* A command that failed does not say it succeeded, one that did not succeed
\* without an error got an answer without a body (on a connection that is in step),
\* and the error of Riak or of the client that Cluster reports is the one the
\* command keeps, except for one that ends the setup of the connection.
FailureVisible ==
  pc = "finished" =>
    /\ err # "nil" => ~cmd.success
    /\ err = "nil" /\ ~cmd.success /\ spoilt = {} => answer[1].msg = Nil
    /\ err \in {"riak", "client"} /\ cause # "connect" => cmd.error = err

\* Requests reach Riak only on connections that have been authenticated, those of
\* the pool included.
Authenticated ==
  UseAuth /\ running = "app" /\ available(conn) => conn.authed

\* The client waits at least as long as it allows Riak to take, except for a
\* ListBuckets, which keeps its timeout to the message, and for a builder whose
\* WithTimeout is called again: the command has its own copy of the timeout.
TimeoutCovers ==
  /\ pc = "read" /\ running = "app" /\ "Timeout" \notin reused
  /\ Get(cmd.f, "Timeout") = "long"
  => deadline = "long" \/ kind = "ListBuckets"

\* The place of a found value is the one that was asked for, or the key that Riak
\* made, unless the builder is given another key while the command is on its way.
ResponseLocated ==
  /\ pc = "finished" /\ err = "nil" /\ "Key" \notin reused
  /\ cmd.Response.set
  => cmd.Response.at \in {NoPlace, sentTo, [sentTo EXCEPT !.Key = "g"]}

\* The program dies of a StoreValue without content, of a misframed read, or of a
\* command without a callback whose builder was told to stream after Build.
PanicExplained ==
  panicked => \/ kind = "StoreValue" /\ ~Has(cmd.f, "value")
              \/ "frame" \in spoilt
              \/ "Stream" \in reused /\ ~Has(cmd.f, "callback")

\* Every execution ends, whatever Riak and the network do.
Terminates == pc = "cluster" ~> pc \in {"finished", "dead"}
=============================================================================
