--------------------------- MODULE CommandProofs -----------------------------
(***************************************************************************)
(* What the commands have in common, proved for each of them: facts about  *)
(* their traits, and what onSuccess makes of a command and a message.  The *)
(* proofs about executions (ConnectionProofs) use only these.              *)
(***************************************************************************)
EXTENDS Connection, FiniteSetTheorems, SequenceTheorems, TLAPS

(* The tables. *)

AlwaysStreamed == {"RpbListKeysReq", "RpbMapRedReq", "TsListKeysReq"}
StreamedIfAsked == {"RpbListBucketsReq", "RpbIndexReq"}

\* What the proofs use of the traits t of command k.
TraitsOf(k, t) ==
  /\ t.resp # "RpbErrorResp"
  /\ t.isDone \in {"none", "always", "asked"}
  /\ t.isDone = "always" <=> t.req \in AlwaysStreamed
  /\ t.isDone = "asked" <=> t.req \in StreamedIfAsked
  /\ t.req = "TsQueryReq" <=> k = "TsQuery"
  /\ "retryable" \in t.impls => t.isDone = "none" /\ k # "TsQuery"
  /\ t.isDone # "none" \/ k = "TsQuery" => t.body = TRUE

LEMMA KVTraits == \A k \in DOMAIN KVCommandTable : TraitsOf(k, KVCommandTable[k])
  BY DEF TraitsOf, AlwaysStreamed, StreamedIfAsked, KVCommandTable, FetchValueCommand,
     StoreValueCommand, DeleteValueCommand, ListBucketsCommand, ListKeysCommand,
     FetchPreflistCommand, SecondaryIndexQueryCommand, MapReduceCommand

LEMMA CRDTTraits ==
  /\ \A k \in DOMAIN CRDTCommandTable : TraitsOf(k, CRDTCommandTable[k])
  /\ TraitsOf("UpdateCounter", legacyCounterCommand)
  BY DEF TraitsOf, AlwaysStreamed, StreamedIfAsked, CRDTCommandTable, UpdateCounterCommand,
     FetchCounterCommand, UpdateSetCommand, UpdateGSetCommand, FetchSetCommand,
     UpdateMapCommand, FetchMapCommand, UpdateHllCommand, FetchHllCommand, UpdateDtCommand,
     FetchDtCommand, legacyCounterCommand

LEMMA MiscTraits == \A k \in DOMAIN MiscCommandTable : TraitsOf(k, MiscCommandTable[k])
  BY DEF TraitsOf, AlwaysStreamed, StreamedIfAsked, MiscCommandTable, PingCommand,
     GetServerInfoCommand, startTlsCommand, authCommand, FetchBucketTypePropsCommand,
     FetchBucketPropsCommand, StoreBucketTypePropsCommand, StoreBucketPropsCommand,
     ResetBucketCommand

LEMMA TSTraits == \A k \in DOMAIN TSCommandTable : TraitsOf(k, TSCommandTable[k])
  BY DEF TraitsOf, AlwaysStreamed, StreamedIfAsked, TSCommandTable, TsStoreRowsCommand,
     TsFetchRowCommand, TsDeleteRowCommand, TsQueryCommand, TsListKeysCommand

LEMMA YZTraits == \A k \in DOMAIN YZCommandTable : TraitsOf(k, YZCommandTable[k])
  BY DEF TraitsOf, AlwaysStreamed, StreamedIfAsked, YZCommandTable, StoreIndexCommand,
     FetchIndexCommand, DeleteIndexCommand, StoreSchemaCommand, FetchSchemaCommand,
     SearchCommand

\* The five tables have no command in common.
LEMMA Disjoint ==
  LET A == DOMAIN KVCommandTable
      B == DOMAIN CRDTCommandTable
      C == DOMAIN MiscCommandTable
      D == DOMAIN TSCommandTable
      E == DOMAIN YZCommandTable
  IN /\ A \cap B = {} /\ A \cap C = {} /\ A \cap D = {} /\ A \cap E = {}
     /\ B \cap C = {} /\ B \cap D = {} /\ B \cap E = {}
     /\ C \cap D = {} /\ C \cap E = {} /\ D \cap E = {}
  BY DEF KVCommandTable, CRDTCommandTable, MiscCommandTable, TSCommandTable, YZCommandTable

\* So each is a part of Commands.
LEMMA Joined ==
  /\ DOMAIN Commands = DOMAIN KVCommandTable \cup DOMAIN CRDTCommandTable
       \cup DOMAIN MiscCommandTable \cup DOMAIN TSCommandTable \cup DOMAIN YZCommandTable
  /\ \A k \in DOMAIN KVCommandTable : Commands[k] = KVCommandTable[k]
  /\ \A k \in DOMAIN CRDTCommandTable : Commands[k] = CRDTCommandTable[k]
  /\ \A k \in DOMAIN MiscCommandTable : Commands[k] = MiscCommandTable[k]
  /\ \A k \in DOMAIN TSCommandTable : Commands[k] = TSCommandTable[k]
  /\ \A k \in DOMAIN YZCommandTable : Commands[k] = YZCommandTable[k]
  BY Disjoint DEF Commands, ++

LEMMA TraitsFacts ==
  ASSUME NEW k \in DOMAIN Commands, NEW f
  PROVE  TraitsOf(k, Traits(k, f)) /\ TraitsOf(k, Commands[k])
<1>1. TraitsOf(k, Commands[k])
  BY Joined, KVTraits, CRDTTraits, MiscTraits, TSTraits, YZTraits
<1> QED BY <1>1, CRDTTraits DEF Traits
-----------------------------------------------------------------------------
(* Commands, messages and what they hold. *)

Item == Nat \X Nat

\* Bodies of messages, and the messages that can be on the wire.
Bodies   == [items : Seq(Item), done : BOOLEAN, key : {Empty, "g"}]
Codes    == {"RpbErrorResp", legacyCounterCommand.resp}
              \cup {Commands[k].resp : k \in DOMAIN Commands}
Messages == [code : Codes, msg : {Nil} \cup Bodies]

IsResponse(r) ==
  \/ r = NoResponse
  \/ /\ DOMAIN r = {"set", "notFound", "items", "at"}
     /\ r.set = TRUE /\ r.items \in Seq(Item)

IsCommand(c) ==
  /\ DOMAIN c = {"f", "success", "error", "done", "Response", "given"}
  /\ c.success \in BOOLEAN /\ c.done \in BOOLEAN /\ c.error \in Outcomes
  /\ c.given \in Seq(Item) /\ IsResponse(c.Response)

\* The items of a body and of a command.
Carries(b) == IF b = Nil THEN {} ELSE Range(b.items)
Got(c)     == Range(c.given) \cup (IF c.Response.set THEN Range(c.Response.items) ELSE {})

\* The places that the Response to c may name.
Places(c) == {NoPlace, Place(c.f), [Place(c.f) EXCEPT !.Key = "g"]}
Located(r, P) == r.set => r.at \in P

LEMMA BodyNotNil == Nil \notin Bodies
  BY DEF Nil, Bodies

LEMMA InConcat ==
  ASSUME NEW S, NEW s \in Seq(S), NEW t \in Seq(S)
  PROVE  s \o t \in Seq(S) /\ Range(s \o t) = Range(s) \cup Range(t)
  BY RangeConcatenation, ConcatProperties

LEMMA InFirst ==
  ASSUME NEW S, NEW s \in Seq(S), s # <<>>
  PROVE  SubSeq(s, 1, 1) \in Seq(S) /\ Range(SubSeq(s, 1, 1)) \subseteq Range(s)
<1>1. 1 \in 1..Len(s) /\ s[1] \in S /\ DOMAIN s = 1..Len(s)
  OBVIOUS
<1>2. SubSeq(s, 1, 1) \in Seq(S)
  BY <1>1
<1>3. DOMAIN SubSeq(s, 1, 1) = 1..1 /\ SubSeq(s, 1, 1)[1] = s[1]
  BY <1>1
<1> QED BY <1>1, <1>2, <1>3 DEF Range
-----------------------------------------------------------------------------
(* What onSuccess makes of a command and a message. *)

\* The result r of onSuccess on command c and body b.
Effect(c, b, cbErr, r) ==
  /\ IsCommand(r.cmd) /\ r.cmd.f = c.f /\ r.cmd.error = c.error
  /\ r.err \in {"nil", cbErr}
  /\ r.cmd.success \/ b = Nil
  /\ Located(r.cmd.Response, Places(c) \cup (IF c.Response.set THEN {c.Response.at} ELSE {}))
  /\ Got(r.cmd) \subseteq Got(c) \cup Carries(b) \cup {Tombstone, NoData}

\* One message, no error, and success.
Simple(r) == r.err = "nil" /\ r.cmd.success = TRUE

LEMMA SucceedsEffect ==
  ASSUME NEW c, IsCommand(c), NEW b \in {Nil} \cup Bodies, NEW cbErr,
         NEW notFound, NEW items \in Seq(Item), NEW at \in Places(c),
         Range(items) \subseteq Got(c) \cup Carries(b) \cup {Tombstone, NoData}
  PROVE  LET r == Succeeds(c, Response(notFound, items, at))
         IN Effect(c, b, cbErr, r) /\ Simple(r)
<1> DEFINE R == Response(notFound, items, at)
           d == [c EXCEPT !.success = TRUE, !.Response = R]
<1>1. IsResponse(R) /\ R.set = TRUE /\ R.items = items /\ R.at = at
  BY DEF IsResponse, Response
<1> HIDE DEF R
<1>2. /\ DOMAIN d = DOMAIN c /\ d.f = c.f /\ d.error = c.error /\ d.success = TRUE
      /\ d.done = c.done /\ d.given = c.given /\ d.Response = R
  BY DEF IsCommand
<1> HIDE DEF d
<1>3. IsCommand(d) /\ Located(d.Response, Places(c))
  BY <1>1, <1>2 DEF IsCommand, Located
<1>4. Got(d) \subseteq Got(c) \cup Carries(b) \cup {Tombstone, NoData}
  BY <1>1, <1>2 DEF Got
<1> QED BY <1>2, <1>3, <1>4 DEF Effect, Simple, Succeeds, Returns, Located, R, d

LEMMA AcknowledgedEffect ==
  ASSUME NEW c, IsCommand(c), NEW b \in {Nil} \cup Bodies, NEW cbErr
  PROVE  Effect(c, b, cbErr, Acknowledged(c)) /\ Simple(Acknowledged(c))
<1> DEFINE d == [c EXCEPT !.success = TRUE, !.Response = c.Response]
<1>1. /\ DOMAIN d = DOMAIN c /\ d.f = c.f /\ d.error = c.error /\ d.success = TRUE
      /\ d.done = c.done /\ d.given = c.given /\ d.Response = c.Response
  BY DEF IsCommand
<1> HIDE DEF d
<1>2. IsCommand(d)
  BY <1>1 DEF IsCommand
<1>3. Got(d) \subseteq Got(c) /\ Located(d.Response, IF c.Response.set THEN {c.Response.at} ELSE {})
  BY <1>1 DEF Got, Located
<1>4. Acknowledged(c) = [cmd |-> d, err |-> "nil"]
  BY DEF Acknowledged, Succeeds, Returns, d
<1> QED BY <1>1, <1>2, <1>3, <1>4 DEF Effect, Simple, Located

LEMMA UnsuccessfulEffect ==
  ASSUME NEW c, IsCommand(c), NEW cbErr
  PROVE  Effect(c, Nil, cbErr, Unsuccessful(c)) /\ Unsuccessful(c).err = "nil"
<1> DEFINE d == [c EXCEPT !.success = FALSE]
<1>1. /\ DOMAIN d = DOMAIN c /\ d.f = c.f /\ d.error = c.error /\ d.success = FALSE
      /\ d.done = c.done /\ d.given = c.given /\ d.Response = c.Response
  BY DEF IsCommand
<1> HIDE DEF d
<1>2. IsCommand(d)
  BY <1>1 DEF IsCommand
<1>3. Got(d) \subseteq Got(c) /\ Located(d.Response, IF c.Response.set THEN {c.Response.at} ELSE {})
  BY <1>1 DEF Got, Located
<1>4. Unsuccessful(c) = [cmd |-> d, err |-> "nil"]
  BY DEF Unsuccessful, Returns, d
<1> QED BY <1>1, <1>2, <1>3, <1>4 DEF Effect, Located

\* What a command has received, through the callback or (not both) in the Response.
Recv(c) == IF c.Response.set THEN c.given \o c.Response.items ELSE c.given
Channel(c, on) == /\ on /\ c.Response.set => c.Response.items = <<>>
                  /\ ~on => c.given = <<>>

\* The result r of onSuccess of a stream: on says whether the application has a
\* callback, items is what the message has for the application.
StreamEffect(c, b, on, items, r) ==
  /\ r.cmd.done = (b = Nil \/ b.done)
  /\ Channel(c, on) /\ b # Nil /\ r.err = "nil" =>
       Channel(r.cmd, on) /\ Recv(r.cmd) = Recv(c) \o items

LEMMA EmptyResponseFacts ==
  IsResponse(EmptyResponse) /\ EmptyResponse.set = TRUE /\ EmptyResponse.items = <<>>
    /\ EmptyResponse.at = NoPlace
  BY DEF IsResponse, EmptyResponse, Response

LEMMA EndOfStreamEffect ==
  ASSUME NEW c, IsCommand(c), NEW cbErr, NEW on, NEW items
  PROVE  /\ Effect(c, Nil, cbErr, EndOfStream(c)) /\ Simple(EndOfStream(c))
         /\ StreamEffect(c, Nil, on, items, EndOfStream(c))
<1> DEFINE R == EmptyResponse
           d == [c EXCEPT !.success = TRUE, !.done = TRUE, !.Response = R]
<1>1. IsResponse(R) /\ R.set = TRUE /\ R.items = <<>> /\ R.at = NoPlace
  BY EmptyResponseFacts
<1> HIDE DEF R
<1>2. /\ DOMAIN d = DOMAIN c /\ d.f = c.f /\ d.error = c.error /\ d.success = TRUE
      /\ d.done = TRUE /\ d.given = c.given /\ d.Response = R
  BY DEF IsCommand
<1> HIDE DEF d
<1>3. IsCommand(d) /\ Located(d.Response, Places(c))
  BY <1>1, <1>2 DEF IsCommand, Located, Places
<1>4. Got(d) \subseteq Got(c)
  BY <1>1, <1>2 DEF Got, Range
<1>5. EndOfStream(c) = [cmd |-> d, err |-> "nil"]
  BY DEF EndOfStream, Returns, d, R
<1>6. Effect(c, Nil, cbErr, EndOfStream(c)) /\ Simple(EndOfStream(c))
  BY <1>2, <1>3, <1>4, <1>5 DEF Effect, Simple, Located
<1>7. StreamEffect(c, Nil, on, items, EndOfStream(c))
  <2>1. EndOfStream(c).cmd.done = TRUE
    BY <1>2, <1>5
  <2> QED BY <2>1 DEF StreamEffect
<1> QED BY <1>6, <1>7

\* A command that has opened its Response for the message b.
IsOpened(c, b, on, d) ==
  /\ IsCommand(d) /\ d.f = c.f /\ d.error = c.error /\ d.success = TRUE
  /\ d.done = b.done /\ d.given = c.given
  /\ d.Response = c.Response \/ (d.Response = EmptyResponse /\ ~c.Response.set)
  /\ ~on => d.Response.set

LEMMA OpenedIsOpened ==
  ASSUME NEW c, IsCommand(c), NEW b \in Bodies, NEW on
  PROVE  IsOpened(c, b, on, Opened(c, b))
<1> DEFINE R == IF c.Response.set THEN c.Response ELSE EmptyResponse
<1>1. IsResponse(R) /\ R.set = TRUE
  BY EmptyResponseFacts DEF IsCommand, IsResponse
<1>2. R = c.Response \/ (R = EmptyResponse /\ ~c.Response.set)
  OBVIOUS
<1>3. b.done \in BOOLEAN
  BY DEF Bodies
<1> HIDE DEF R
<1> DEFINE d == [c EXCEPT !.success = TRUE, !.done = b.done, !.Response = R]
<1>4. /\ DOMAIN d = DOMAIN c /\ d.f = c.f /\ d.error = c.error /\ d.success = TRUE
      /\ d.done = b.done /\ d.given = c.given /\ d.Response = R
  BY DEF IsCommand
<1>5. Opened(c, b) = d
  BY DEF Opened, R
<1> HIDE DEF d
<1>6. IsCommand(d)
  BY <1>1, <1>3, <1>4 DEF IsCommand
<1> QED BY <1>1, <1>2, <1>4, <1>5, <1>6 DEF IsOpened

\* A message whose items nobody is given.
LEMMA OpenEffect ==
  ASSUME NEW c, IsCommand(c), NEW b \in Bodies, NEW cbErr, NEW on, NEW d,
         IsOpened(c, b, on, d), b.items = <<>>
  PROVE  /\ Effect(c, b, cbErr, Returns(d, "nil")) /\ Simple(Returns(d, "nil"))
         /\ StreamEffect(c, b, on, b.items, Returns(d, "nil"))
<1> DEFINE r == Returns(d, "nil")
<1>1. r.cmd = d /\ r.err = "nil"
  BY DEF Returns
<1> HIDE DEF r
<1>2. Got(d) \subseteq Got(c)
  BY EmptyResponseFacts DEF IsOpened, Got, Range
<1>3. Located(d.Response, Places(c) \cup (IF c.Response.set THEN {c.Response.at} ELSE {}))
  BY EmptyResponseFacts DEF IsOpened, Located, Places
<1>4. Effect(c, b, cbErr, r) /\ Simple(r)
  BY <1>1, <1>2, <1>3 DEF Effect, Simple, IsOpened
<1>5. d.done = (b = Nil \/ b.done)
  BY BodyNotNil DEF IsOpened, Bodies
<1>6. Channel(c, on) => Channel(d, on)
  BY EmptyResponseFacts DEF IsOpened, Channel
<1>7. Recv(d) = Recv(c) \o <<>>
  <2>1. c.given \in Seq(Item) /\ (c.Response.set => c.Response.items \in Seq(Item))
    BY DEF IsCommand, IsResponse, NoResponse
  <2>2. Recv(c) \in Seq(Item)
    BY <2>1 DEF Recv
  <2>3. c.given \o <<>> = c.given /\ Recv(c) \o <<>> = Recv(c)
    BY <2>1, <2>2, ConcatEmptySeq
  <2> QED BY <2>3, EmptyResponseFacts DEF IsOpened, Recv
<1>8. StreamEffect(c, b, on, b.items, r)
  BY <1>1, <1>5, <1>6, <1>7 DEF StreamEffect
<1> QED BY <1>4, <1>8 DEF r

\* A message whose items go to the callback or into the Response.
LEMMA DeliverEffect ==
  ASSUME NEW c, IsCommand(c), NEW b \in Bodies, NEW cbErr, NEW on, NEW d,
         IsOpened(c, b, on, d), NEW items \in Seq(Item),
         Range(items) \subseteq Carries(b) \cup {NoData}
  PROVE  /\ Effect(c, b, cbErr, Deliver(d, items, on, cbErr))
         /\ StreamEffect(c, b, on, items, Deliver(d, items, on, cbErr))
<1>1. /\ c.given \in Seq(Item) /\ d.given \in Seq(Item) /\ d.given = c.given
      /\ c.Response.set => c.Response.items \in Seq(Item)
      /\ d.Response.set => d.Response.items \in Seq(Item)
  BY DEF IsOpened, IsCommand, IsResponse, NoResponse
<1>2. /\ Got(d) \subseteq Got(c)
      /\ Located(d.Response, Places(c) \cup (IF c.Response.set THEN {c.Response.at} ELSE {}))
      /\ Channel(c, on) => Channel(d, on)
  BY EmptyResponseFacts DEF IsOpened, Located, Places, Got, Range, Channel
<1>3. Recv(d) = Recv(c) /\ Recv(c) \in Seq(Item)
  <2>1. c.given \o <<>> = c.given
    BY <1>1, ConcatEmptySeq
  <2>2. Recv(c) \in Seq(Item)
    BY <1>1 DEF Recv
  <2>3. Recv(d) = Recv(c)
    BY <2>1, EmptyResponseFacts DEF IsOpened, Recv
  <2> QED BY <2>2, <2>3
<1>4. d.done = (b = Nil \/ b.done) /\ b # Nil
  BY BodyNotNil DEF IsOpened, Bodies
<1>5. CASE on
  <2> DEFINE e == [d EXCEPT !.given = @ \o items]
  <2>1. /\ DOMAIN e = DOMAIN d /\ e.f = d.f /\ e.success = d.success /\ e.error = d.error
        /\ e.done = d.done /\ e.Response = d.Response /\ e.given = d.given \o items
    BY DEF IsOpened, IsCommand
  <2> HIDE DEF e
  <2>2. e.given \in Seq(Item) /\ Range(e.given) = Range(d.given) \cup Range(items)
    BY <2>1, <1>1, InConcat
  <2>3. IsCommand(e) /\ Got(e) \subseteq Got(c) \cup Carries(b) \cup {NoData}
    BY <2>1, <2>2, <1>2 DEF IsOpened, IsCommand, Got
  <2>4. CASE cbErr = "nil"
    <3>1. Deliver(d, items, on, cbErr) = [cmd |-> e, err |-> "nil"]
      BY <1>5, <2>4 DEF Deliver, Returns, e
    <3>2. Effect(c, b, cbErr, [cmd |-> e, err |-> "nil"])
      BY <2>1, <2>3, <1>2 DEF Effect, IsOpened
    <3>3. ASSUME Channel(c, on) PROVE Channel(e, on) /\ Recv(e) = Recv(c) \o items
      <4>1. Channel(d, on) /\ (d.Response.set => d.Response.items = <<>>)
        BY <1>2, <1>5, <3>3 DEF Channel
      <4>2. Recv(d) = d.given
        BY <1>1, <4>1, ConcatEmptySeq DEF Recv
      <4>3. Recv(e) = d.given \o items
        BY <4>1, <2>1, <2>2, ConcatEmptySeq DEF Recv
      <4> QED BY <4>1, <4>2, <4>3, <1>3, <1>5, <2>1 DEF Channel
    <3>4. StreamEffect(c, b, on, items, [cmd |-> e, err |-> "nil"])
      BY <3>3, <2>1, <1>4 DEF StreamEffect
    <3> QED BY <3>1, <3>2, <3>4
  <2>5. CASE cbErr # "nil"
    <3> DEFINE g == [e EXCEPT !.Response = NoResponse]
    <3>1. /\ DOMAIN g = DOMAIN e /\ g.f = e.f /\ g.success = e.success /\ g.error = e.error
          /\ g.done = e.done /\ g.Response = NoResponse /\ g.given = e.given
      BY <2>3 DEF IsCommand
    <3>2. Deliver(d, items, on, cbErr) = [cmd |-> g, err |-> cbErr]
      BY <1>5, <2>5 DEF Deliver, Returns, e
    <3> HIDE DEF g
    <3>3. IsCommand(g) /\ Got(g) \subseteq Got(e) /\ Located(g.Response, {})
      BY <2>3, <3>1 DEF IsCommand, IsResponse, Got, Located, NoResponse
    <3>4. Effect(c, b, cbErr, [cmd |-> g, err |-> cbErr])
      BY <2>1, <2>3, <3>1, <3>3 DEF Effect, IsOpened, Located
    <3>5. StreamEffect(c, b, on, items, [cmd |-> g, err |-> cbErr])
      BY <2>5, <2>1, <3>1, <1>4 DEF StreamEffect
    <3> QED BY <3>2, <3>4, <3>5
  <2> QED BY <2>4, <2>5
<1>6. CASE ~on
  <2> DEFINE R == [d.Response EXCEPT !.items = @ \o items]
             e == [d EXCEPT !.Response.items = @ \o items]
  <2>1. d.Response.set = TRUE /\ DOMAIN d.Response = {"set", "notFound", "items", "at"}
    BY <1>6 DEF IsOpened, IsCommand, IsResponse, NoResponse
  <2>2. /\ DOMAIN R = DOMAIN d.Response /\ R.set = TRUE /\ R.at = d.Response.at
        /\ R.items = d.Response.items \o items
    BY <2>1
  <2>3. /\ DOMAIN e = DOMAIN d /\ e.f = d.f /\ e.success = d.success /\ e.error = d.error
        /\ e.done = d.done /\ e.Response = R /\ e.given = d.given
    BY DEF IsOpened, IsCommand
  <2>4. Deliver(d, items, on, cbErr) = [cmd |-> e, err |-> "nil"]
    BY <1>6 DEF Deliver, Returns
  <2> HIDE DEF R, e
  <2>5. R.items \in Seq(Item) /\ Range(R.items) = Range(d.Response.items) \cup Range(items)
    BY <1>1, <2>1, <2>2, InConcat
  <2>6. IsCommand(e) /\ Got(e) \subseteq Got(c) \cup Carries(b) \cup {NoData}
    BY <2>1, <2>2, <2>3, <2>5, <1>2 DEF IsOpened, IsCommand, IsResponse, Got
  <2>7. Effect(c, b, cbErr, [cmd |-> e, err |-> "nil"])
    BY <2>1, <2>2, <2>3, <2>6, <1>2 DEF Effect, IsOpened, Located
  <2>8. Recv(e) = Recv(c) \o items
    <3>1. Recv(e) = d.given \o (d.Response.items \o items) /\ Recv(d) = d.given \o d.Response.items
      BY <2>1, <2>2, <2>3 DEF Recv
    <3>2. d.given \in Seq(Item) /\ d.Response.items \in Seq(Item)
      BY <1>1, <2>1
    <3>3. \A x, y, z \in Seq(Item) : (x \o y) \o z = x \o (y \o z)
      BY ConcatAssociative
    <3>4. d.given \o (d.Response.items \o items) = (d.given \o d.Response.items) \o items
      BY <3>2, <3>3
    <3> QED BY <3>1, <3>4, <1>3
  <2>9. Channel(c, on) => Channel(e, on)
    BY <1>2, <1>6, <2>3 DEF Channel
  <2>10. StreamEffect(c, b, on, items, [cmd |-> e, err |-> "nil"])
    BY <2>3, <2>8, <2>9, <1>4 DEF StreamEffect
  <2> QED BY <2>4, <2>7, <2>10
<1> QED BY <1>5, <1>6

\* Whether the application has a callback for command k, and what it is given.
On(k, f) ==
  IsTrue(f, IF k \in {"ListKeys", "MapReduce", "TsListKeys"} THEN "streaming" ELSE "Stream")
ItemsFor(k, b) == IF k = "MapReduce" /\ b.items = <<>> THEN <<NoData>> ELSE b.items

\* What is true of every command: t are its traits, r the result of its onSuccess.
OnSuccessFacts(k, t, c, b, cbErr, r) ==
  /\ Effect(c, b, cbErr, r)
  /\ t.isDone # "none" => StreamEffect(c, b, On(k, c.f), ItemsFor(k, b), r)
  /\ t.isDone = "none" /\ k # "TsQuery" => r.err = "nil"
  /\ ~r.cmd.success => t.body = TRUE /\ t.isDone = "none" /\ k # "TsQuery"

\* A stream whose items go through Deliver, with and without a test for no items.
LEMMA StreamOnSuccess ==
  ASSUME NEW c, IsCommand(c), NEW b \in {Nil} \cup Bodies, NEW cbErr, NEW on
  PROVE  LET r == IF b = Nil THEN EndOfStream(c)
                  ELSE IF b.items = <<>> THEN Returns(Opened(c, b), "nil")
                  ELSE Deliver(Opened(c, b), b.items, on, cbErr)
             q == IF b = Nil THEN EndOfStream(c) ELSE Deliver(Opened(c, b), b.items, on, cbErr)
         IN /\ Effect(c, b, cbErr, r) /\ StreamEffect(c, b, on, b.items, r) /\ r.cmd.success
            /\ Effect(c, b, cbErr, q) /\ StreamEffect(c, b, on, b.items, q) /\ q.cmd.success
<1>1. CASE b = Nil
  BY <1>1, EndOfStreamEffect DEF Simple
<1>2. CASE b \in Bodies
  <2>1. b # Nil /\ b.items \in Seq(Item) /\ Range(b.items) \subseteq Carries(b) \cup {NoData}
    BY <1>2, BodyNotNil DEF Bodies, Carries
  <2> DEFINE d == Opened(c, b)
  <2>2. IsOpened(c, b, on, d)
    BY <1>2, OpenedIsOpened
  <2> HIDE DEF d
  <2> DEFINE q == Deliver(d, b.items, on, cbErr)
             r == IF b.items = <<>> THEN Returns(d, "nil") ELSE q
  <2>3. Effect(c, b, cbErr, q) /\ StreamEffect(c, b, on, b.items, q)
    BY <1>2, <2>1, <2>2, DeliverEffect
  <2> HIDE DEF q
  <2>4. q.cmd.success
    BY <2>1, <2>3 DEF Effect
  <2>5. b.items = <<>> => /\ Effect(c, b, cbErr, Returns(d, "nil"))
                          /\ StreamEffect(c, b, on, b.items, Returns(d, "nil"))
                          /\ Returns(d, "nil").cmd.success
    BY <1>2, <2>2, OpenEffect DEF Simple
  <2>6. Effect(c, b, cbErr, r) /\ StreamEffect(c, b, on, b.items, r) /\ r.cmd.success
    BY <2>3, <2>4, <2>5
  <2> QED BY <2>1, <2>3, <2>4, <2>6 DEF d, q
<1> QED BY <1>1, <1>2

LEMMA SimpleFacts ==
  ASSUME NEW k, NEW t, NEW c, NEW b, NEW cbErr, NEW r,
         Effect(c, b, cbErr, r), Simple(r), t.isDone = "none"
  PROVE  OnSuccessFacts(k, t, c, b, cbErr, r)
  BY DEF OnSuccessFacts, Simple

\* An answer with items, from a place or from nowhere in particular.
LEMMA ItemsEffect ==
  ASSUME NEW c, IsCommand(c), NEW b \in Bodies, NEW cbErr, NEW notFound, NEW at \in Places(c)
  PROVE  LET r == Succeeds(c, Response(notFound, b.items, at))
         IN Effect(c, b, cbErr, r) /\ Simple(r)
<1>1. b.items \in Seq(Item) /\ Range(b.items) \subseteq Carries(b)
  BY BodyNotNil DEF Bodies, Carries
<1> QED BY <1>1, SucceedsEffect

\* The first of them only.
LEMMA FirstItemEffect ==
  ASSUME NEW c, IsCommand(c), NEW b \in Bodies, NEW cbErr, NEW notFound, NEW at \in Places(c),
         b.items # <<>>
  PROVE  LET r == Succeeds(c, Response(notFound, SubSeq(b.items, 1, 1), at))
         IN Effect(c, b, cbErr, r) /\ Simple(r)
<1>1. b.items \in Seq(Item) /\ Range(b.items) \subseteq Carries(b)
  BY BodyNotNil DEF Bodies, Carries
<1> DEFINE items == SubSeq(b.items, 1, 1)
<1>2. items \in Seq(Item) /\ Range(items) \subseteq Carries(b)
  BY <1>1, InFirst
<1> HIDE DEF items
<1>3. LET r == Succeeds(c, Response(notFound, items, at)) IN Effect(c, b, cbErr, r) /\ Simple(r)
  BY <1>2, SucceedsEffect
<1> QED BY <1>3 DEF items

\* No items.
LEMMA NothingEffect ==
  ASSUME NEW c, IsCommand(c), NEW b \in {Nil} \cup Bodies, NEW cbErr, NEW notFound
  PROVE  LET r == Succeeds(c, Response(notFound, <<>>, NoPlace))
         IN Effect(c, b, cbErr, r) /\ Simple(r)
<1>1. <<>> \in Seq(Item) /\ Range(<<>>) = {} /\ NoPlace \in Places(c)
  BY DEF Range, Places
<1> QED BY <1>1, SucceedsEffect

LEMMA ResolvedEffect ==
  ASSUME NEW c, IsCommand(c), NEW b \in Bodies, NEW cbErr, NEW at \in Places(c), b.items # <<>>
  PROVE  LET r == Succeeds(c, Response(FALSE, Resolved(c, b.items), at))
         IN Effect(c, b, cbErr, r) /\ Simple(r)
<1>1. CASE Has(c.f, "resolver")
  BY <1>1, FirstItemEffect DEF Resolved
<1>2. CASE ~Has(c.f, "resolver")
  BY <1>2, ItemsEffect DEF Resolved
<1> QED BY <1>1, <1>2

LEMMA FetchValueEffect ==
  ASSUME NEW c, IsCommand(c), NEW b \in {Nil} \cup Bodies, NEW cbErr
  PROVE  OnSuccessFacts("FetchValue", FetchValueCommand, c, b, cbErr, FetchValueOnSuccess(c, b))
<1> DEFINE r == FetchValueOnSuccess(c, b)
<1>1. CASE b = Nil
  BY <1>1, NothingEffect, SimpleFacts DEF FetchValueOnSuccess, FetchValueCommand
<1>2. CASE b \in Bodies /\ b.items = <<>>
  <2>1. <<Tombstone>> \in Seq(Item) /\ Range(<<Tombstone>>) = {Tombstone}
    BY DEF Tombstone, Item, Range
  <2>2. Place(c.f) \in Places(c) /\ b # Nil
    BY <1>2, BodyNotNil DEF Places
  <2>3. Effect(c, b, cbErr, r) /\ Simple(r)
    BY <1>2, <2>1, <2>2, SucceedsEffect DEF FetchValueOnSuccess
  <2> QED BY <2>3, SimpleFacts DEF FetchValueCommand
<1>3. CASE b \in Bodies /\ b.items # <<>>
  <2>1. Place(c.f) \in Places(c) /\ b # Nil
    BY <1>3, BodyNotNil DEF Places
  <2>2. Effect(c, b, cbErr, r) /\ Simple(r)
    BY <1>3, <2>1, ResolvedEffect DEF FetchValueOnSuccess
  <2> QED BY <2>2, SimpleFacts DEF FetchValueCommand
<1> QED BY <1>1, <1>2, <1>3

LEMMA StoreValueEffect ==
  ASSUME NEW c, IsCommand(c), NEW b \in {Nil} \cup Bodies, NEW cbErr
  PROVE  OnSuccessFacts("StoreValue", StoreValueCommand, c, b, cbErr, StoreValueOnSuccess(c, b))
<1> DEFINE r == StoreValueOnSuccess(c, b)
<1>1. CASE b = Nil \/ b.items = <<>>
  BY <1>1, NothingEffect, SimpleFacts DEF StoreValueOnSuccess, StoreValueCommand, EmptyResponse
<1>2. CASE b \in Bodies /\ b.items # <<>>
  <2> DEFINE at == IF b.key = Empty THEN Place(c.f) ELSE [Place(c.f) EXCEPT !.Key = b.key]
  <2>1. b.key \in {Empty, "g"} /\ b # Nil
    BY <1>2, BodyNotNil DEF Bodies
  <2>2. at \in Places(c)
    BY <2>1 DEF Places
  <2> HIDE DEF at
  <2>3. r = Succeeds(c, Response(FALSE, Resolved(c, b.items), at))
    BY <1>2, <2>1 DEF StoreValueOnSuccess, at
  <2>4. Effect(c, b, cbErr, r) /\ Simple(r)
    BY <1>2, <2>2, <2>3, ResolvedEffect
  <2> QED BY <2>4, SimpleFacts DEF StoreValueCommand
<1> QED BY <1>1, <1>2

LEMMA MapReduceEffect ==
  ASSUME NEW c, IsCommand(c), NEW b \in {Nil} \cup Bodies, NEW cbErr
  PROVE  OnSuccessFacts("MapReduce", MapReduceCommand, c, b, cbErr, MapReduceOnSuccess(c, b, cbErr))
<1> DEFINE r     == MapReduceOnSuccess(c, b, cbErr)
           on    == IsTrue(c.f, "streaming")
           items == ItemsFor("MapReduce", b)
<1>1. On("MapReduce", c.f) = on
  BY DEF On
<1>2. ASSUME Effect(c, b, cbErr, r), StreamEffect(c, b, on, items, r), r.cmd.success
      PROVE  OnSuccessFacts("MapReduce", MapReduceCommand, c, b, cbErr, r)
  BY <1>1, <1>2 DEF OnSuccessFacts, MapReduceCommand
<1>3. CASE b = Nil
  <2> DEFINE d == [c EXCEPT !.success = TRUE, !.done = TRUE]
  <2>1. /\ DOMAIN d = DOMAIN c /\ d.f = c.f /\ d.error = c.error /\ d.success = TRUE
        /\ d.done = TRUE /\ d.given = c.given /\ d.Response = c.Response
    BY DEF IsCommand
  <2>2. r = [cmd |-> d, err |-> "nil"]
    BY <1>3 DEF MapReduceOnSuccess, Returns
  <2> HIDE DEF d, r, items
  <2>3. IsCommand(d)
    BY <2>1 DEF IsCommand
  <2>4. Got(d) \subseteq Got(c)
        /\ Located(d.Response, IF c.Response.set THEN {c.Response.at} ELSE {})
    BY <2>1 DEF Got, Located
  <2>5. Effect(c, b, cbErr, r) /\ r.cmd.success
    BY <2>1, <2>2, <2>3, <2>4 DEF Effect, Located
  <2>6. r.cmd.done = TRUE
    BY <2>1, <2>2
  <2>7. StreamEffect(c, b, on, items, r)
    BY <1>3, <2>6 DEF StreamEffect
  <2> QED BY <1>2, <2>5, <2>7 DEF r, items
<1>4. CASE b \in Bodies
  <2> DEFINE d == IF on THEN [Opened(c, b) EXCEPT !.Response = c.Response] ELSE Opened(c, b)
  <2>1. IsOpened(c, b, FALSE, Opened(c, b))
    BY <1>4, OpenedIsOpened
  <2>2. IsOpened(c, b, on, d)
    <3>1. CASE ~on
      BY <2>1, <3>1 DEF IsOpened
    <3>2. CASE on
      <4> DEFINE e == Opened(c, b)
      <4>1. IsCommand(e) /\ e.f = c.f /\ e.error = c.error /\ e.success = TRUE
            /\ e.done = b.done /\ e.given = c.given
        BY <2>1 DEF IsOpened
      <4> HIDE DEF e
      <4>2. d = [e EXCEPT !.Response = c.Response]
        BY <3>2 DEF e
      <4> HIDE DEF d
      <4>3. /\ DOMAIN d = DOMAIN e /\ d.f = e.f /\ d.error = e.error /\ d.success = e.success
            /\ d.done = e.done /\ d.given = e.given /\ d.Response = c.Response
        BY <4>1, <4>2 DEF IsCommand
      <4>4. IsCommand(d)
        BY <4>1, <4>3 DEF IsCommand
      <4> QED BY <3>2, <4>1, <4>3, <4>4 DEF IsOpened
    <3> QED BY <3>1, <3>2
  <2>3. b # Nil /\ b.items \in Seq(Item)
    BY <1>4, BodyNotNil DEF Bodies
  <2>4. items \in Seq(Item) /\ Range(items) \subseteq Carries(b) \cup {NoData}
    <3>1. <<NoData>> \in Seq(Item) /\ Range(<<NoData>>) = {NoData}
      BY DEF NoData, Item, Range
    <3>2. CASE b.items = <<>>
      BY <3>1, <3>2 DEF ItemsFor
    <3>3. CASE b.items # <<>>
      BY <2>3, <3>3 DEF Carries, ItemsFor
    <3> QED BY <3>2, <3>3
  <2>5. r = Deliver(d, items, on, cbErr)
    BY <2>3 DEF MapReduceOnSuccess, ItemsFor
  <2> HIDE DEF d, items, r, on
  <2>6. Effect(c, b, cbErr, r) /\ StreamEffect(c, b, on, items, r)
    BY <1>4, <2>2, <2>4, <2>5, DeliverEffect
  <2>7. r.cmd.success
    BY <2>3, <2>6 DEF Effect
  <2> QED BY <1>2, <2>6, <2>7 DEF r
<1> QED BY <1>3, <1>4

\* onSuccess of every command of Riak KV.
LEMMA KVEffects ==
  ASSUME NEW c, IsCommand(c), NEW b \in {Nil} \cup Bodies, NEW cbErr, NEW k \in DOMAIN KVCommandTable
  PROVE  OnSuccessFacts(k, KVCommandTable[k], c, b, cbErr, KVOnSuccess(k, c, b, cbErr))
<1>1. CASE k = "FetchValue"
  BY <1>1, FetchValueEffect DEF KVOnSuccess, KVCommandTable
<1>2. CASE k = "StoreValue"
  BY <1>2, StoreValueEffect DEF KVOnSuccess, KVCommandTable
<1>3. CASE k = "DeleteValue"
  <2>1. KVOnSuccess(k, c, b, cbErr) = Succeeds(c, Response(FALSE, <<>>, NoPlace))
    BY <1>3 DEF KVOnSuccess, DeleteValueOnSuccess, EmptyResponse
  <2>2. KVCommandTable[k].isDone = "none"
    BY <1>3 DEF KVCommandTable, DeleteValueCommand
  <2> QED BY <2>1, <2>2, NothingEffect, SimpleFacts
<1>4. CASE k = "ListBuckets"
  <2>1. /\ KVCommandTable[k].isDone = "asked" /\ On(k, c.f) = IsTrue(c.f, "Stream")
        /\ ItemsFor(k, b) = b.items
    BY <1>4 DEF KVCommandTable, ListBucketsCommand, On, ItemsFor
  <2>2. KVOnSuccess(k, c, b, cbErr) = ListBucketsOnSuccess(c, b, cbErr)
    BY <1>4 DEF KVOnSuccess
  <2> QED BY <2>1, <2>2, StreamOnSuccess DEF ListBucketsOnSuccess, OnSuccessFacts
<1>5. CASE k = "ListKeys"
  <2>1. /\ KVCommandTable[k].isDone = "always" /\ On(k, c.f) = IsTrue(c.f, "streaming")
        /\ ItemsFor(k, b) = b.items
    BY <1>5 DEF KVCommandTable, ListKeysCommand, On, ItemsFor
  <2>2. KVOnSuccess(k, c, b, cbErr) = ListKeysOnSuccess(c, b, cbErr)
    BY <1>5 DEF KVOnSuccess
  <2> QED BY <2>1, <2>2, StreamOnSuccess DEF ListKeysOnSuccess, OnSuccessFacts
<1>6. CASE k = "FetchPreflist"
  <2>1. KVCommandTable[k].isDone = "none" /\ NoPlace \in Places(c)
    BY <1>6 DEF KVCommandTable, FetchPreflistCommand, Places
  <2>2. KVOnSuccess(k, c, b, cbErr) = IF b = Nil THEN Succeeds(c, Response(FALSE, <<>>, NoPlace))
                                      ELSE Succeeds(c, Response(FALSE, b.items, NoPlace))
    BY <1>6 DEF KVOnSuccess, FetchPreflistOnSuccess, EmptyResponse
  <2> QED BY <2>1, <2>2, NothingEffect, ItemsEffect, SimpleFacts
<1>7. CASE k = "SecondaryIndexQuery"
  <2>1. /\ KVCommandTable[k].isDone = "asked" /\ On(k, c.f) = IsTrue(c.f, "Stream")
        /\ ItemsFor(k, b) = b.items
    BY <1>7 DEF KVCommandTable, SecondaryIndexQueryCommand, On, ItemsFor
  <2>2. KVOnSuccess(k, c, b, cbErr) = SecondaryIndexQueryOnSuccess(c, b, cbErr)
    BY <1>7 DEF KVOnSuccess
  <2> QED BY <2>1, <2>2, StreamOnSuccess DEF SecondaryIndexQueryOnSuccess, OnSuccessFacts
<1>8. CASE k = "MapReduce"
  BY <1>8, MapReduceEffect DEF KVOnSuccess, KVCommandTable
<1> QED BY <1>1, <1>2, <1>3, <1>4, <1>5, <1>6, <1>7, <1>8 DEF KVCommandTable

\* The answers of data types.
LEMMA DtEffects ==
  ASSUME NEW c, IsCommand(c), NEW b \in {Nil} \cup Bodies, NEW cbErr
  PROVE  /\ Effect(c, b, cbErr, UpdateDtOnSuccess(c, b)) /\ Simple(UpdateDtOnSuccess(c, b))
         /\ Effect(c, b, cbErr, FetchDtOnSuccess(c, b)) /\ Simple(FetchDtOnSuccess(c, b))
<1>1. NoPlace \in Places(c)
  BY DEF Places
<1>2. CASE b = Nil
  BY <1>2, AcknowledgedEffect DEF UpdateDtOnSuccess, FetchDtOnSuccess
<1>3. CASE b \in Bodies
  BY <1>1, <1>3, BodyNotNil, ItemsEffect DEF UpdateDtOnSuccess, FetchDtOnSuccess
<1> QED BY <1>2, <1>3

\* onSuccess of every command on data types.
LEMMA CRDTEffects ==
  ASSUME NEW c, IsCommand(c), NEW b \in {Nil} \cup Bodies, NEW cbErr, NEW k \in DOMAIN CRDTCommandTable
  PROVE  OnSuccessFacts(k, CRDTCommandTable[k], c, b, cbErr, CRDTOnSuccess(k, c, b))
<1>1. CRDTCommandTable[k].isDone = "none"
  BY DEF CRDTCommandTable, UpdateCounterCommand, FetchCounterCommand, UpdateSetCommand,
     UpdateGSetCommand, FetchSetCommand, UpdateMapCommand, FetchMapCommand, UpdateHllCommand,
     FetchHllCommand, UpdateDtCommand, FetchDtCommand
<1>2. CRDTOnSuccess(k, c, b) \in {UpdateDtOnSuccess(c, b), FetchDtOnSuccess(c, b)}
  BY DEF CRDTOnSuccess, CRDTCommandTable, UpdateCounterOnSuccess, FetchCounterOnSuccess,
     UpdateSetOnSuccess, UpdateGSetOnSuccess, FetchSetOnSuccess, UpdateMapOnSuccess,
     FetchMapOnSuccess, UpdateHllOnSuccess, FetchHllOnSuccess
<1> QED BY <1>1, <1>2, DtEffects, SimpleFacts

\* onSuccess of the miscellaneous commands.
LEMMA MiscEffects ==
  ASSUME NEW c, IsCommand(c), NEW b \in {Nil} \cup Bodies, NEW cbErr, NEW k \in DOMAIN MiscCommandTable
  PROVE  OnSuccessFacts(k, MiscCommandTable[k], c, b, cbErr, MiscOnSuccess(k, c, b))
<1>1. MiscCommandTable[k].isDone = "none" /\ k # "TsQuery"
  BY DEF MiscCommandTable, PingCommand, GetServerInfoCommand, startTlsCommand, authCommand,
     FetchBucketTypePropsCommand, FetchBucketPropsCommand, StoreBucketTypePropsCommand,
     StoreBucketPropsCommand, ResetBucketCommand
<1>2. CASE k \in {"Ping", "StartTls", "Auth", "StoreBucketTypeProps", "StoreBucketProps",
                  "ResetBucket"}
  <2>1. MiscOnSuccess(k, c, b) = Acknowledged(c)
    BY <1>2 DEF MiscOnSuccess, PingOnSuccess, startTlsOnSuccess, authOnSuccess,
       StoreBucketTypePropsOnSuccess, StoreBucketPropsOnSuccess, ResetBucketOnSuccess
  <2> QED BY <1>1, <2>1, AcknowledgedEffect, SimpleFacts
<1>3. CASE k \in {"GetServerInfo", "FetchBucketTypeProps", "FetchBucketProps"}
  <2>1. MiscCommandTable[k].body = TRUE
    BY <1>3 DEF MiscCommandTable, GetServerInfoCommand, FetchBucketTypePropsCommand,
       FetchBucketPropsCommand
  <2>2. MiscOnSuccess(k, c, b) = IF b = Nil THEN Unsuccessful(c)
                                 ELSE Succeeds(c, Response(FALSE, b.items, NoPlace))
    BY <1>3 DEF MiscOnSuccess, GetServerInfoOnSuccess, FetchBucketTypePropsOnSuccess,
       FetchBucketPropsOnSuccess, processRpbGetBucketResp
  <2>3. CASE b = Nil
    BY <1>1, <2>1, <2>2, <2>3, UnsuccessfulEffect DEF OnSuccessFacts
  <2>4. CASE b \in Bodies
    <3>1. NoPlace \in Places(c) /\ b # Nil
      BY <2>4, BodyNotNil DEF Places
    <3> QED BY <1>1, <2>2, <2>4, <3>1, ItemsEffect, SimpleFacts
  <2> QED BY <2>3, <2>4
<1> QED BY <1>2, <1>3 DEF MiscCommandTable

\* onSuccess of the commands of Riak TS.
LEMMA TSEffects ==
  ASSUME NEW c, IsCommand(c), NEW b \in {Nil} \cup Bodies, NEW cbErr, NEW k \in DOMAIN TSCommandTable
  PROVE  OnSuccessFacts(k, TSCommandTable[k], c, b, cbErr, TSOnSuccess(k, c, b, cbErr))
<1>0. NoPlace \in Places(c)
  BY DEF Places
<1>1. CASE k \in {"TsStoreRows", "TsDeleteRow"}
  <2>1. TSOnSuccess(k, c, b, cbErr) = Succeeds(c, Response(FALSE, <<>>, NoPlace))
    BY <1>1 DEF TSOnSuccess, TsStoreRowsOnSuccess, TsDeleteRowOnSuccess, EmptyResponse
  <2>2. TSCommandTable[k].isDone = "none"
    BY <1>1 DEF TSCommandTable, TsStoreRowsCommand, TsDeleteRowCommand
  <2> QED BY <2>1, <2>2, NothingEffect, SimpleFacts
<1>2. CASE k = "TsFetchRow"
  <2>1. TSCommandTable[k].isDone = "none"
    BY <1>2 DEF TSCommandTable, TsFetchRowCommand
  <2>2. TSOnSuccess(k, c, b, cbErr) = TsFetchRowOnSuccess(c, b)
    BY <1>2 DEF TSOnSuccess
  <2>3. CASE b = Nil
    BY <2>1, <2>2, <2>3, NothingEffect, SimpleFacts DEF TsFetchRowOnSuccess
  <2>4. CASE b \in Bodies /\ b.items = <<>>
    BY <2>1, <2>2, <2>4, BodyNotNil, AcknowledgedEffect, SimpleFacts DEF TsFetchRowOnSuccess
  <2>5. CASE b \in Bodies /\ b.items # <<>>
    BY <1>0, <2>1, <2>2, <2>5, BodyNotNil, FirstItemEffect, SimpleFacts DEF TsFetchRowOnSuccess
  <2> QED BY <2>3, <2>4, <2>5
<1>3. CASE k = "TsQuery"
  <2>1. TSCommandTable[k].isDone = "none"
    BY <1>3 DEF TSCommandTable, TsQueryCommand
  <2>2. TSOnSuccess(k, c, b, cbErr) = TsQueryOnSuccess(c, b, cbErr)
    BY <1>3 DEF TSOnSuccess
  <2> QED BY <1>3, <2>1, <2>2, StreamOnSuccess DEF TsQueryOnSuccess, OnSuccessFacts
<1>4. CASE k = "TsListKeys"
  <2>1. /\ TSCommandTable[k].isDone = "always" /\ On(k, c.f) = IsTrue(c.f, "streaming")
        /\ ItemsFor(k, b) = b.items
    BY <1>4 DEF TSCommandTable, TsListKeysCommand, On, ItemsFor
  <2>2. TSOnSuccess(k, c, b, cbErr) = TsListKeysOnSuccess(c, b, cbErr)
    BY <1>4 DEF TSOnSuccess
  <2> QED BY <2>1, <2>2, StreamOnSuccess DEF TsListKeysOnSuccess, OnSuccessFacts
<1> QED BY <1>1, <1>2, <1>3, <1>4 DEF TSCommandTable

\* onSuccess of the commands of Riak Search.
LEMMA YZEffects ==
  ASSUME NEW c, IsCommand(c), NEW b \in {Nil} \cup Bodies, NEW cbErr, NEW k \in DOMAIN YZCommandTable
  PROVE  OnSuccessFacts(k, YZCommandTable[k], c, b, cbErr, YZOnSuccess(k, c, b))
<1>1. YZCommandTable[k].isDone = "none" /\ NoPlace \in Places(c)
  BY DEF YZCommandTable, StoreIndexCommand, FetchIndexCommand, DeleteIndexCommand,
     StoreSchemaCommand, FetchSchemaCommand, SearchCommand, Places
<1>2. CASE k \in {"StoreIndex", "DeleteIndex", "StoreSchema"}
  <2>1. YZOnSuccess(k, c, b) = Succeeds(c, Response(FALSE, <<>>, NoPlace))
    BY <1>2 DEF YZOnSuccess, StoreIndexOnSuccess, DeleteIndexOnSuccess, StoreSchemaOnSuccess,
       EmptyResponse
  <2> QED BY <1>1, <2>1, NothingEffect, SimpleFacts
<1>3. CASE k \in {"FetchIndex", "FetchSchema"}
  <2>1. YZOnSuccess(k, c, b) = IF b = Nil THEN Acknowledged(c)
                               ELSE IF b.items = <<>> THEN Acknowledged(c)
                               ELSE Succeeds(c, Response(FALSE, b.items, NoPlace))
    BY <1>3 DEF YZOnSuccess, FetchIndexOnSuccess, FetchSchemaOnSuccess
  <2> QED BY <1>1, <2>1, AcknowledgedEffect, ItemsEffect, SimpleFacts
<1>4. CASE k = "Search"
  <2>1. YZOnSuccess(k, c, b) = IF b = Nil THEN Succeeds(c, Response(FALSE, <<>>, NoPlace))
                               ELSE Succeeds(c, Response(FALSE, b.items, NoPlace))
    BY <1>4 DEF YZOnSuccess, SearchOnSuccess, EmptyResponse
  <2> QED BY <1>1, <2>1, NothingEffect, ItemsEffect, SimpleFacts
<1> QED BY <1>2, <1>3, <1>4 DEF YZCommandTable

\* onSuccess of every command there is.
LEMMA OnSuccessEffect ==
  ASSUME NEW k \in DOMAIN Commands, NEW c, IsCommand(c), NEW b \in {Nil} \cup Bodies, NEW cbErr
  PROVE  OnSuccessFacts(k, Traits(k, c.f), c, b, cbErr, onSuccess(k, c, b, cbErr))
<1>1. OnSuccessFacts(k, Commands[k], c, b, cbErr, onSuccess(k, c, b, cbErr))
  <2>1. CASE k \in DOMAIN KVCommandTable
    BY <2>1, Joined, Disjoint, KVEffects DEF onSuccess
  <2>2. CASE k \in DOMAIN CRDTCommandTable
    BY <2>2, Joined, Disjoint, CRDTEffects DEF onSuccess
  <2>3. CASE k \in DOMAIN MiscCommandTable
    BY <2>3, Joined, Disjoint, MiscEffects DEF onSuccess
  <2>4. CASE k \in DOMAIN TSCommandTable
    BY <2>4, Joined, Disjoint, TSEffects DEF onSuccess
  <2>5. CASE k \in DOMAIN YZCommandTable
    BY <2>5, Joined, Disjoint, YZEffects DEF onSuccess
  <2> QED BY <2>1, <2>2, <2>3, <2>4, <2>5, Joined
<1>2. k = "UpdateCounter" => /\ legacyCounterCommand.isDone = Commands[k].isDone
                             /\ legacyCounterCommand.body = Commands[k].body
  BY Joined DEF CRDTCommandTable, legacyCounterCommand, UpdateCounterCommand, UpdateDtCommand
<1> QED BY <1>1, <1>2 DEF Traits, OnSuccessFacts
-----------------------------------------------------------------------------
(* The builders. *)

\* The options of builder b for command c that set a timeout, and what Build copies.
BuilderOf(k, b, c) ==
  /\ "Timeout" \notin b.new
  /\ \A o \in DOMAIN b.options :
       /\ "timeout" \in b.options[o] => b.options[o] \subseteq {"timeout", "Timeout"}
       /\ "Timeout" \in b.options[o] /\ k # "ListBuckets" =>
            /\ b.options[o] = {"timeout", "Timeout"}
            /\ "timeout" \in b.copies /\ "timeout" \in c.impls
  /\ k = "UpdateMap" => "mapOperation" \in b.copies
  /\ k \in {"ListKeys", "MapReduce", "TsListKeys", "ListBuckets", "SecondaryIndexQuery", "TsQuery"}
       => "callback" \in b.copies
  /\ k = "UpdateCounter" => "timeout" \in c.impls

LEMMA KVBuilders ==
  /\ DOMAIN KVBuilderTable = DOMAIN KVCommandTable
  /\ \A k \in DOMAIN KVCommandTable : BuilderOf(k, KVBuilderTable[k], KVCommandTable[k])
<1>1. BuilderOf("FetchValue", FetchValueCommandBuilder, FetchValueCommand)
  BY DEF BuilderOf, FetchValueCommandBuilder, FetchValueCommand
<1>2. BuilderOf("StoreValue", StoreValueCommandBuilder, StoreValueCommand)
  BY DEF BuilderOf, StoreValueCommandBuilder, StoreValueCommand
<1>3. BuilderOf("DeleteValue", DeleteValueCommandBuilder, DeleteValueCommand)
  BY DEF BuilderOf, DeleteValueCommandBuilder, DeleteValueCommand
<1>4. BuilderOf("ListBuckets", ListBucketsCommandBuilder, ListBucketsCommand)
  BY DEF BuilderOf, ListBucketsCommandBuilder, ListBucketsCommand
<1>5. BuilderOf("ListKeys", ListKeysCommandBuilder, ListKeysCommand)
  BY DEF BuilderOf, ListKeysCommandBuilder, ListKeysCommand
<1>6. BuilderOf("FetchPreflist", FetchPreflistCommandBuilder, FetchPreflistCommand)
  BY DEF BuilderOf, FetchPreflistCommandBuilder, FetchPreflistCommand
<1>7. BuilderOf("SecondaryIndexQuery", SecondaryIndexQueryCommandBuilder,
                SecondaryIndexQueryCommand)
  BY DEF BuilderOf, SecondaryIndexQueryCommandBuilder, SecondaryIndexQueryCommand
<1>8. BuilderOf("MapReduce", MapReduceCommandBuilder, MapReduceCommand)
  BY DEF BuilderOf, MapReduceCommandBuilder, MapReduceCommand
<1> QED BY <1>1, <1>2, <1>3, <1>4, <1>5, <1>6, <1>7, <1>8 DEF KVBuilderTable, KVCommandTable

LEMMA CRDTBuilders ==
  /\ DOMAIN CRDTBuilderTable = DOMAIN CRDTCommandTable
  /\ \A k \in DOMAIN CRDTCommandTable : BuilderOf(k, CRDTBuilderTable[k], CRDTCommandTable[k])
<1>1. \A k \in {"FetchCounter", "FetchSet", "FetchMap", "FetchHll"} :
        BuilderOf(k, FetchDtBuilder, FetchDtCommand)
  BY DEF BuilderOf, FetchDtBuilder, FetchDtCommand, FetchDtOptions
<1>2. BuilderOf("UpdateCounter", UpdateCounterCommandBuilder, UpdateDtCommand)
  BY DEF BuilderOf, UpdateCounterCommandBuilder, UpdateDtCommand
<1>3. BuilderOf("UpdateSet", UpdateSetCommandBuilder, UpdateDtCommand)
  BY DEF BuilderOf, UpdateSetCommandBuilder, UpdateDtCommand
<1>4. BuilderOf("UpdateGSet", UpdateGSetCommandBuilder, UpdateDtCommand)
  BY DEF BuilderOf, UpdateGSetCommandBuilder, UpdateDtCommand
<1>5. BuilderOf("UpdateMap", UpdateMapCommandBuilder, UpdateDtCommand)
  BY DEF BuilderOf, UpdateMapCommandBuilder, UpdateDtCommand
<1>6. BuilderOf("UpdateHll", UpdateHllCommandBuilder, UpdateDtCommand)
  BY DEF BuilderOf, UpdateHllCommandBuilder, UpdateDtCommand
<1> QED BY <1>1, <1>2, <1>3, <1>4, <1>5, <1>6
        DEF CRDTBuilderTable, CRDTCommandTable, FetchCounterCommandBuilder, FetchSetCommandBuilder,
            FetchMapCommandBuilder, FetchHllCommandBuilder, UpdateCounterCommand,
            FetchCounterCommand, UpdateSetCommand, UpdateGSetCommand, FetchSetCommand,
            UpdateMapCommand, FetchMapCommand, UpdateHllCommand, FetchHllCommand

LEMMA MiscBuilders ==
  /\ DOMAIN MiscBuilderTable = DOMAIN MiscCommandTable
  /\ \A k \in DOMAIN MiscCommandTable : BuilderOf(k, MiscBuilderTable[k], MiscCommandTable[k])
<1> USE DEF BuilderOf
<1>1. \A k \in {"Ping", "GetServerInfo", "StartTls", "Auth"} : \A c : BuilderOf(k, NoOptions, c)
  BY DEF NoOptions
<1>2. \A c : BuilderOf("FetchBucketTypeProps", FetchBucketTypePropsCommandBuilder, c)
  BY DEF FetchBucketTypePropsCommandBuilder
<1>3. \A c : BuilderOf("FetchBucketProps", FetchBucketPropsCommandBuilder, c)
  BY DEF FetchBucketPropsCommandBuilder
<1>4. \A c : BuilderOf("StoreBucketTypeProps", StoreBucketTypePropsCommandBuilder, c)
  BY DEF StoreBucketTypePropsCommandBuilder
<1>5. \A c : BuilderOf("StoreBucketProps", StoreBucketPropsCommandBuilder, c)
  <2> DEFINE b == StoreBucketTypePropsCommandBuilder
             d == StoreBucketPropsCommandBuilder
             w == [WithBucket |-> {"Bucket"}]
  <2>1. /\ b.new = {"Props"} /\ \A o \in DOMAIN b.options : "timeout" \notin b.options[o]
        /\ \A o \in DOMAIN b.options : "Timeout" \notin b.options[o]
    BY DEF StoreBucketTypePropsCommandBuilder
  <2>2. d.new = b.new /\ d.options = b.options ++ w
    BY DEF StoreBucketPropsCommandBuilder, StoreBucketTypePropsCommandBuilder
  <2> HIDE DEF b, d
  <2>3. DOMAIN w = {"WithBucket"} /\ w["WithBucket"] = {"Bucket"}
    OBVIOUS
  <2> HIDE DEF w
  <2>4. \A o \in DOMAIN d.options : "timeout" \notin d.options[o] /\ "Timeout" \notin d.options[o]
    BY <2>1, <2>2, <2>3 DEF ++
  <2> QED BY <2>1, <2>2, <2>4 DEF d
<1>6. \A c : BuilderOf("ResetBucket", ResetBucketCommandBuilder, c)
  BY DEF ResetBucketCommandBuilder
<1> HIDE DEF BuilderOf
<1> QED BY <1>1, <1>2, <1>3, <1>4, <1>5, <1>6
        DEF MiscBuilderTable, MiscCommandTable, PingCommandBuilder

LEMMA TSBuilders ==
  /\ DOMAIN TSBuilderTable = DOMAIN TSCommandTable
  /\ \A k \in DOMAIN TSCommandTable : BuilderOf(k, TSBuilderTable[k], TSCommandTable[k])
<1>1. BuilderOf("TsStoreRows", TsStoreRowsCommandBuilder, TsStoreRowsCommand)
  BY DEF BuilderOf, TsStoreRowsCommandBuilder, TsStoreRowsCommand
<1>2. BuilderOf("TsFetchRow", TsFetchRowCommandBuilder, TsFetchRowCommand)
  BY DEF BuilderOf, TsFetchRowCommandBuilder, TsFetchRowCommand
<1>3. BuilderOf("TsDeleteRow", TsDeleteRowCommandBuilder, TsDeleteRowCommand)
  BY DEF BuilderOf, TsDeleteRowCommandBuilder, TsDeleteRowCommand
<1>4. BuilderOf("TsQuery", TsQueryCommandBuilder, TsQueryCommand)
  BY DEF BuilderOf, TsQueryCommandBuilder, TsQueryCommand
<1>5. BuilderOf("TsListKeys", TsListKeysCommandBuilder, TsListKeysCommand)
  BY DEF BuilderOf, TsListKeysCommandBuilder, TsListKeysCommand
<1> QED BY <1>1, <1>2, <1>3, <1>4, <1>5 DEF TSBuilderTable, TSCommandTable

LEMMA YZBuilders ==
  /\ DOMAIN YZBuilderTable = DOMAIN YZCommandTable
  /\ \A k \in DOMAIN YZCommandTable : BuilderOf(k, YZBuilderTable[k], YZCommandTable[k])
<1>1. BuilderOf("StoreIndex", StoreIndexCommandBuilder, StoreIndexCommand)
  BY DEF BuilderOf, StoreIndexCommandBuilder, StoreIndexCommand
<1>2. \A c : BuilderOf("FetchIndex", FetchIndexCommandBuilder, c)
  BY DEF BuilderOf, FetchIndexCommandBuilder
<1>3. \A c : BuilderOf("DeleteIndex", DeleteIndexCommandBuilder, c)
  BY DEF BuilderOf, DeleteIndexCommandBuilder
<1>4. \A c : BuilderOf("StoreSchema", StoreSchemaCommandBuilder, c)
  BY DEF BuilderOf, StoreSchemaCommandBuilder
<1>5. \A c : BuilderOf("FetchSchema", FetchSchemaCommandBuilder, c)
  BY DEF BuilderOf, FetchSchemaCommandBuilder
<1>6. \A c : BuilderOf("Search", SearchCommandBuilder, c)
  BY DEF BuilderOf, SearchCommandBuilder
<1> QED BY <1>1, <1>2, <1>3, <1>4, <1>5, <1>6 DEF YZBuilderTable, YZCommandTable

LEMMA BuilderFacts ==
  ASSUME NEW k \in DOMAIN Commands
  PROVE  BuilderOf(k, Builders[k], Commands[k])
<1>1. /\ \A x \in DOMAIN KVCommandTable : Builders[x] = KVBuilderTable[x]
      /\ \A x \in DOMAIN CRDTCommandTable : Builders[x] = CRDTBuilderTable[x]
      /\ \A x \in DOMAIN MiscCommandTable : Builders[x] = MiscBuilderTable[x]
      /\ \A x \in DOMAIN TSCommandTable : Builders[x] = TSBuilderTable[x]
      /\ \A x \in DOMAIN YZCommandTable : Builders[x] = YZBuilderTable[x]
  <2>1. /\ DOMAIN KVBuilderTable = DOMAIN KVCommandTable
        /\ DOMAIN CRDTBuilderTable = DOMAIN CRDTCommandTable
        /\ DOMAIN MiscBuilderTable = DOMAIN MiscCommandTable
        /\ DOMAIN TSBuilderTable = DOMAIN TSCommandTable
        /\ DOMAIN YZBuilderTable = DOMAIN YZCommandTable
    BY KVBuilders, CRDTBuilders, MiscBuilders, TSBuilders, YZBuilders
  <2> QED BY <2>1, Disjoint DEF Builders, ++
<1> QED BY <1>1, Joined, KVBuilders, CRDTBuilders, MiscBuilders, TSBuilders, YZBuilders
=============================================================================
