-------------------------- MODULE ConnectionProofs ---------------------------
(***************************************************************************)
(* Proofs about the execution of commands, for any commands that the       *)
(* application builds and runs afterwards, any numbers of attempts, read   *)
(* retries, chunks and options, with and without authentication.           *)
(***************************************************************************)
EXTENDS CommandProofs

(* The inductive invariant, in parts. *)

\* What a callback may return, and what may spoil a connection.
Verdicts == {"nil", "plain", "riak", "client", "temp"}
Marks    == {"query", "empty", "callback", "frame", "reuse"}

Retryable == "retryable" \in Commands[kind].impls

\* A command that has met no answer yet.
Fresh(c) == c.Response = NoResponse /\ c.given = <<>> /\ ~c.success /\ ~c.done

TypeInv ==
  /\ TypeOK
  /\ IsCommand(cmd) /\ IsCommand(aux)
  /\ wire \in Seq(Messages) /\ answer \in Seq(Messages)
  /\ pc \in {"building", "rejected", "cluster", "finished"} => running = "app"
  /\ pc \in {"cluster", "execute", "read", "classify"} => tries >= 1
  /\ pc = "read" => err = "nil"

\* What the command says of itself.
CommandInv ==
  /\ pc \in {"cluster", "execute"} \/ (pc \in {"read", "classify"} /\ running # "app")
       => Fresh(cmd)
  /\ pc = "read" /\ running = "app" /\ Retryable => Fresh(cmd)
  /\ pc = "classify" /\ running = "app" /\ err # "nil" =>
       /\ ~cmd.success
       /\ err \in {"riak", "client"} => cmd.error = err
       /\ Retryable => Fresh(cmd)
  /\ pc \notin {"building", "rejected"} /\ ~Retryable => tries <= 1
  /\ pc = "finished" =>
       /\ err # "nil" => ~cmd.success
       /\ err \in {"riak", "client"} /\ cause # "connect" => cmd.error = err

\* The message after which Riak sends no more.
Ends(m) == m.code = "RpbErrorResp" \/ (m.msg # Nil /\ m.msg.done)

\* What is on the wire is the rest of the answer to the command that runs.
RestOfAnswer(w, t, f) ==
  /\ \A i \in DOMAIN w : w[i].code \in {t.resp, "RpbErrorResp"}
  /\ Streams(t.req, f) => \A i \in DOMAIN w : Ends(w[i]) => i = Len(w)
  /\ ~Streams(t.req, f) => Len(w) <= 1

Quiet == wire = <<>> /\ ~conn.inFlight

SyncInv ==
  /\ pc \in {"execute", "read"} \/ (pc = "classify" /\ err \in {"nil", "riak", "client"})
       => available(conn)
  /\ spoilt = {} =>
       /\ pc \in {"building", "rejected", "cluster", "finished"} /\ available(conn) => Quiet
       /\ pc = "execute" => Quiet
       /\ pc = "read" => RestOfAnswer(wire, Traits(RunKind, Current.f), Current.f)
       /\ pc = "classify" /\ err \in {"nil", "riak", "client"} => Quiet

\* The items that answer attempt a.
Ours(a) == {x \in Item : x[1] = a}
Own     == Ours(Attempt)

\* A stream s for attempt a is n chunks and perhaps an end.
Shaped(n, s, a) ==
  /\ n <= Len(s)
  /\ \A i \in 1..n : s[i].msg # Nil /\ s[i].msg.items = Items(a, i, i)
  /\ \A i \in (n + 1)..Len(s) : s[i].msg = Nil \/ s[i].msg.items = <<>>
  /\ n < Len(s) => \/ s[n + 1].code = "RpbErrorResp" \/ s[n + 1].msg = Nil
                   \/ n + 1 = Len(s) /\ s[n + 1].msg.done

\* Stream s has n chunks, of which p have been delivered to command c; w is the rest.
Delivered(n, p, s, w, a, on, c) ==
  /\ Shaped(n, s, a) /\ p <= n
  /\ w = SubSeq(s, p + 1, Len(s))
  /\ Channel(c, on) /\ Recv(c) = Items(a, 1, p)
PartlyDelivered(s, w, a, on, c) == \E n, p \in 0..Len(s) : Delivered(n, p, s, w, a, on, c)

\* The application's command while its answer is read, and after that.
InProgress ==
  /\ Got(cmd) \subseteq Own \cup {Tombstone, NoData}
  /\ \A i \in DOMAIN wire : Carries(wire[i].msg) \subseteq Own
  /\ IF Streams(Traits(kind, cmd.f).req, cmd.f)
       THEN PartlyDelivered(answer, wire, Attempt, On(kind, cmd.f), cmd)
       ELSE wire \in {<<>>, answer}
Completed ==
  /\ Got(cmd) \subseteq Own \cup {Tombstone, NoData}
  /\ ~cmd.success => answer[1].msg = Nil
  /\ Streams(Traits(kind, cmd.f).req, cmd.f) =>
       Received = Sent \/ (kind = "MapReduce" /\ Received = Append(Sent, NoData))

AnswerInv ==
  /\ pc = "read" /\ running = "app" /\ spoilt = {} => InProgress
  /\ pc \in {"classify", "finished"} /\ running = "app" /\ err = "nil" /\ spoilt = {} => Completed

AnyPlace == {NoPlace, sentTo, [sentTo EXCEPT !.Key = "g"]}

PlaceInv ==
  /\ pc = "read" /\ running = "app" /\ "Key" \notin reused =>
       Place(cmd.f) = sentTo /\ Located(cmd.Response, AnyPlace)
  /\ pc \in {"classify", "finished"} /\ running = "app" /\ err = "nil" /\ "Key" \notin reused =>
       Located(cmd.Response, AnyPlace)

\* A command whose request has a timeout waits for it.
Timed(k, f) ==
  k = "ListBuckets"
  \/ (Get(f, "Timeout") = "long" => Get(f, "timeout") = "long" /\ "timeout" \in Commands[k].impls)

\* A builder that was given a timeout keeps it where Build finds it.
BuilderTimed(k, f) ==
  k \in {"ListBuckets", "UpdateCounter"}
  \/ (Has(f, "Timeout") => /\ Get(f, "timeout") = "long"
                           /\ "timeout" \in Builders[k].copies /\ "timeout" \in Commands[k].impls)

\* A command as Build leaves it and as its execution must keep it; X are the fields of
\* its message that have been changed through the builder.
WellBuilt(k, f, X) ==
  /\ "Timeout" \in X \/ Timed(k, f)
  /\ k = "UpdateMap" => Has(f, "mapOperation")
  /\ Streaming(k, f) => Has(f, "callback") \/ "Stream" \in X

RequestInv ==
  /\ pc = "building" => BuilderTimed(kind, builder)
  /\ pc \notin {"building", "rejected"} => WellBuilt(kind, cmd.f, reused)
  /\ TimeoutCovers
  /\ panicked => pc = "dead" /\ PanicExplained
-----------------------------------------------------------------------------
(* What the operations on commands do. *)

LEMMA NewCommandFacts ==
  ASSUME NEW f
  PROVE  LET d == NewCommand(f)
         IN IsCommand(d) /\ Fresh(d) /\ d.f = f /\ d.error = "nil"
<1> DEFINE d == NewCommand(f)
<1>1. /\ DOMAIN d = {"f", "success", "error", "done", "Response", "given"}
      /\ d.f = f /\ d.success = FALSE /\ d.error = "nil" /\ d.done = FALSE
      /\ d.Response = NoResponse /\ d.given = <<>>
  BY DEF NewCommand
<1> HIDE DEF d
<1>2. d.given \in Seq(Item)
  BY <1>1
<1>3. IsCommand(d)
  BY <1>1, <1>2 DEF IsCommand, IsResponse, Outcomes
<1>4. Fresh(d)
  BY <1>1 DEF Fresh
<1> QED BY <1>1, <1>3, <1>4 DEF d

LEMMA OnErrorFacts ==
  ASSUME NEW c, IsCommand(c), NEW e \in Outcomes
  PROVE  LET d == onError(c, e)
         IN /\ IsCommand(d) /\ d.f = c.f /\ d.success = FALSE /\ d.error = e
            /\ d.done = c.done /\ d.Response = c.Response /\ d.given = c.given
<1> DEFINE d == onError(c, e)
<1>1. /\ DOMAIN d = DOMAIN c /\ d.f = c.f /\ d.success = FALSE /\ d.error = e
      /\ d.done = c.done /\ d.Response = c.Response /\ d.given = c.given
  BY DEF onError, IsCommand
<1> HIDE DEF d
<1>2. IsCommand(d)
  BY <1>1 DEF IsCommand
<1> QED BY <1>1, <1>2 DEF d

LEMMA OnRetryFacts ==
  ASSUME NEW c, IsCommand(c)
  PROVE  LET d == onRetry(c)
         IN /\ IsCommand(d) /\ d.f = c.f /\ d.success = c.success /\ d.error = "nil"
            /\ d.done = c.done /\ d.Response = c.Response /\ d.given = c.given
<1> DEFINE d == onRetry(c)
<1>1. /\ DOMAIN d = DOMAIN c /\ d.f = c.f /\ d.success = c.success /\ d.error = "nil"
      /\ d.done = c.done /\ d.Response = c.Response /\ d.given = c.given
  BY DEF onRetry, IsCommand
<1> HIDE DEF d
<1>2. IsCommand(d)
  BY <1>1 DEF IsCommand, Outcomes
<1> QED BY <1>1, <1>2 DEF d

\* The message of a command changes.
LEMMA NewFieldsFacts ==
  ASSUME NEW c, IsCommand(c), NEW g
  PROVE  LET d == [c EXCEPT !.f = g]
         IN /\ IsCommand(d) /\ d.f = g /\ d.success = c.success /\ d.error = c.error
            /\ d.done = c.done /\ d.Response = c.Response /\ d.given = c.given
<1> DEFINE d == [c EXCEPT !.f = g]
<1>1. /\ DOMAIN d = DOMAIN c /\ d.f = g /\ d.success = c.success /\ d.error = c.error
      /\ d.done = c.done /\ d.Response = c.Response /\ d.given = c.given
  BY DEF IsCommand
<1> HIDE DEF d
<1>2. IsCommand(d)
  BY <1>1 DEF IsCommand
<1> QED BY <1>1, <1>2 DEF d

LEMMA CurrentFacts ==
  ASSUME TypeInv
  PROVE  /\ RunKind \in DOMAIN Commands /\ IsCommand(Current)
         /\ TraitsOf(RunKind, Traits(RunKind, Current.f))
         /\ kind \in DOMAIN Commands /\ TraitsOf(kind, Traits(kind, cmd.f))
         /\ TraitsOf(kind, Commands[kind])
<1>1. {"StartTls", "Auth"} \subseteq DOMAIN Commands
  BY Joined DEF MiscCommandTable
<1>2. kind \in DOMAIN Commands
  BY KindAssumption DEF TypeInv, TypeOK
<1>3. RunKind \in DOMAIN Commands /\ IsCommand(Current)
  BY <1>1, <1>2 DEF TypeInv, TypeOK, RunKind, Current
<1> QED BY <1>2, <1>3, TraitsFacts

LEMMA AttemptNat ==
  ASSUME TypeInv
  PROVE  Attempt \in Nat
<1>1. round \in {1, 2} /\ tries \in Nat /\ ExecutionAttempts \in Nat
  <2>1. round \in {1, 2} /\ tries \in 0..ExecutionAttempts
    BY DEF TypeInv, TypeOK
  <2>2. ExecutionAttempts \in Nat
    BY ConnectionAssumption
  <2> QED BY <2>1, <2>2
<1>2. CASE round = 1
  <2>1. Attempt = (ExecutionAttempts + 1) * 1 + tries
    BY <1>2 DEF Attempt
  <2> QED BY <1>1, <2>1
<1>3. CASE round = 2
  <2>1. Attempt = (ExecutionAttempts + 1) * 2 + tries
    BY <1>3 DEF Attempt
  <2> QED BY <1>1, <2>1
<1> QED BY <1>1, <1>2, <1>3
-----------------------------------------------------------------------------
(* What Handle makes of a message. *)

Parsed(m) == IF Traits(RunKind, Current.f).body THEN m.msg ELSE Nil

\* Command c and the error that execute returns, if it does.
Outcome(m, cbErr, c) ==
  LET t == Traits(RunKind, Current.f)
      r == onSuccess(RunKind, Current, Parsed(m), cbErr)
  IN \/ /\ m.code # t.resp /\ err' \in {"riak", "client"}
        /\ err' = "riak" <=> m.code = "RpbErrorResp"
        /\ c = onError(Current, err') /\ pc' = "classify"
        /\ conn' = [conn EXCEPT !.inFlight = FALSE]
     \/ /\ m.code = t.resp /\ r.err # "nil" /\ err' = r.err
        /\ c = onError(r.cmd, r.err) /\ pc' = "classify"
        /\ conn' = [conn EXCEPT !.inFlight = FALSE]
     \/ /\ m.code = t.resp /\ r.err = "nil" /\ isDone(RunKind, r.cmd) /\ err' = "nil"
        /\ c = r.cmd /\ pc' = "classify"
        /\ conn' = [conn EXCEPT !.inFlight = FALSE]
     \/ /\ m.code = t.resp /\ r.err = "nil" /\ ~isDone(RunKind, r.cmd)
        /\ c = r.cmd /\ UNCHANGED <<pc, err, conn>>

LEMMA HandleOutcome ==
  ASSUME TypeInv, NEW m, m.msg \in {Nil} \cup Bodies, NEW cbErr \in Verdicts,
         Handle(m, cbErr)
  PROVE  /\ OnSuccessFacts(RunKind, Traits(RunKind, Current.f), Current, Parsed(m), cbErr,
                           onSuccess(RunKind, Current, Parsed(m), cbErr))
         /\ \E c : Outcome(m, cbErr, c) /\ IsCommand(c) /\ c.f = Current.f /\ SetCurrent(c)
<1> DEFINE k == RunKind
           t == Traits(k, Current.f)
           r == onSuccess(k, Current, Parsed(m), cbErr)
<1>1. k \in DOMAIN Commands /\ IsCommand(Current) /\ t.resp # "RpbErrorResp"
  BY CurrentFacts DEF TraitsOf
<1>2. OnSuccessFacts(k, t, Current, Parsed(m), cbErr, r)
  <2>1. Parsed(m) \in {Nil} \cup Bodies
    BY DEF Parsed
  <2> QED BY <1>1, <2>1, OnSuccessEffect
<1>3. CASE m.code = "RpbErrorResp" /\ ReadReturns(onError(Current, "riak"), "riak")
  <2> DEFINE c == onError(Current, "riak")
  <2>1. IsCommand(c) /\ c.f = Current.f
    BY <1>1, OnErrorFacts DEF Outcomes
  <2>2. Outcome(m, cbErr, c) /\ SetCurrent(c)
    BY <1>1, <1>3 DEF Outcome, ReadReturns, ExecuteReturns
  <2> QED BY <1>2, <2>1, <2>2
<1>4. CASE m.code \notin {"RpbErrorResp", t.resp} /\ ReadReturns(onError(Current, "client"), "client")
  <2> DEFINE c == onError(Current, "client")
  <2>1. IsCommand(c) /\ c.f = Current.f
    BY <1>1, OnErrorFacts DEF Outcomes
  <2>2. Outcome(m, cbErr, c) /\ SetCurrent(c)
    BY <1>1, <1>4 DEF Outcome, ReadReturns, ExecuteReturns
  <2> QED BY <1>2, <2>1, <2>2
<1>5. IsCommand(r.cmd) /\ r.cmd.f = Current.f /\ r.err \in Outcomes
  BY <1>2 DEF OnSuccessFacts, Effect, Outcomes, Verdicts
<1>6. CASE m.code = t.resp /\ r.err # "nil" /\ ReadReturns(onError(r.cmd, r.err), r.err)
  <2> DEFINE c == onError(r.cmd, r.err)
  <2>1. IsCommand(c) /\ c.f = Current.f
    BY <1>5, OnErrorFacts
  <2>2. Outcome(m, cbErr, c) /\ SetCurrent(c)
    BY <1>6 DEF Outcome, ReadReturns, ExecuteReturns
  <2> QED BY <1>2, <2>1, <2>2
<1>7. CASE m.code = t.resp /\ r.err = "nil" /\ isDone(k, r.cmd) /\ ReadReturns(r.cmd, "nil")
  <2>1. Outcome(m, cbErr, r.cmd) /\ SetCurrent(r.cmd)
    BY <1>7 DEF Outcome, ReadReturns, ExecuteReturns
  <2> QED BY <1>2, <1>5, <2>1
<1>8. CASE /\ m.code = t.resp /\ r.err = "nil" /\ ~isDone(k, r.cmd)
           /\ SetCurrent(r.cmd) /\ UNCHANGED <<pc, err, conn>>
  <2>1. Outcome(m, cbErr, r.cmd)
    BY <1>8 DEF Outcome
  <2> QED BY <1>2, <1>5, <1>8, <2>1
<1>9. r = onSuccess(k, Current, IF t.body THEN m.msg ELSE Nil, cbErr)
  BY DEF Parsed
<1> HIDE DEF r, t, k
<1> QED BY <1>1, <1>3, <1>4, <1>6, <1>7, <1>8, <1>9 DEF Handle, r, t, k
-----------------------------------------------------------------------------
(* Riak's answers are sequences of messages. *)

\* An answer to attempt a of a command with traits t and fields f.
IsAnswer(t, f, a, s) ==
  /\ s \in Seq(Messages) /\ s # <<>>
  /\ \A i \in DOMAIN s : s[i].code \in {t.resp, "RpbErrorResp"}
                         /\ Carries(s[i].msg) \subseteq Ours(a)
  /\ Streams(t.req, f) => /\ \A i \in DOMAIN s : Ends(s[i]) => i = Len(s)
                          /\ \E n \in 0..Len(s) : Shaped(n, s, a)
  /\ ~Streams(t.req, f) => Len(s) = 1

LEMMA ItemsFacts ==
  ASSUME NEW a \in Nat, NEW m \in Nat, m >= 1, NEW n \in Nat
  PROVE  Items(a, m, n) \in Seq(Item) /\ Range(Items(a, m, n)) \subseteq Ours(a)
<1> DEFINE s == Items(a, m, n)
           l == n - m + 1
<1>1. l \in Int /\ DOMAIN s = 1..l
  BY DEF Items
<1>2. \A i \in 1..l : s[i] \in Ours(a)
  BY DEF Items, Ours, Item
<1>3. s \in Seq(Item)
  <2>1. CASE l < 0
    <3>1. 1..l = 1..0
      BY <1>1, <2>1
    <3> QED BY <1>1, <1>2, <3>1 DEF Items, Ours
  <2>2. CASE l >= 0
    BY <1>1, <1>2, <2>2 DEF Items, Ours
  <2> QED BY <1>1, <2>1, <2>2
<1> QED BY <1>1, <1>2, <1>3 DEF Range

\* A message with a body of items m to n.
LEMMA MessageFacts ==
  ASSUME NEW code \in Codes, NEW a \in Nat, NEW b \in Bodies, Range(b.items) \subseteq Ours(a)
  PROVE  LET x == Message(code, b)
         IN x \in Messages /\ x.code = code /\ x.msg = b /\ x.msg # Nil
            /\ Carries(x.msg) \subseteq Ours(a)
<1>1. Carries(b) \subseteq Ours(a) /\ b # Nil
  BY BodyNotNil DEF Carries
<1> QED BY <1>1 DEF Message, Messages

\* One without items.
LEMMA DoneFacts ==
  ASSUME NEW code \in Codes, NEW a \in Nat
  PROVE  LET x == Message(code, Body(<<>>, TRUE, Empty))
         IN /\ x \in Messages /\ x.code = code /\ Carries(x.msg) \subseteq Ours(a)
            /\ x.msg.items = <<>> /\ x.msg.done = TRUE
<1> DEFINE b == Body(<<>>, TRUE, Empty)
<1>1. b.items = <<>> /\ b.done = TRUE /\ b.key = Empty
  BY DEF Body
<1>2. b \in Bodies
  BY DEF Body, Bodies
<1> HIDE DEF b
<1>3. Range(b.items) \subseteq Ours(a)
  BY <1>1 DEF Range
<1>4. LET x == Message(code, b)
      IN /\ x \in Messages /\ x.code = code /\ Carries(x.msg) \subseteq Ours(a) /\ x.msg = b
  BY <1>2, <1>3, MessageFacts
<1> QED BY <1>1, <1>4 DEF b

LEMMA ErrorAnswerFacts ==
  ErrorAnswer \in Messages /\ ErrorAnswer.code = "RpbErrorResp" /\ ErrorAnswer.msg = Nil
  BY DEF ErrorAnswer, Message, Messages, Codes

LEMMA BareFacts ==
  ASSUME NEW code \in Codes
  PROVE  LET x == Message(code, Nil) IN x \in Messages /\ x.code = code /\ x.msg = Nil
  BY DEF Message, Messages

\* Message number i of a stream.
IsChunk(x, code, a, i) ==
  /\ x \in Messages /\ x.code = code /\ x.msg # Nil /\ Carries(x.msg) \subseteq Ours(a)
  /\ x.msg.items = Items(a, i, i)

LEMMA ChunkFacts ==
  ASSUME NEW code \in Codes, NEW a \in Nat, NEW i \in Nat, i >= 1, NEW b \in Bodies,
         b.items = Items(a, i, i)
  PROVE  IsChunk(Message(code, b), code, a, i) /\ Message(code, b).msg = b
<1>1. Range(b.items) \subseteq Ours(a)
  BY ItemsFacts
<1> QED BY <1>1, MessageFacts DEF IsChunk

LEMMA ChunksFacts ==
  ASSUME NEW code \in Codes, NEW a \in Nat, NEW n \in Nat
  PROVE  LET s == Chunks(code, a, n)
         IN /\ s \in Seq(Messages) /\ Len(s) = n
            /\ \A i \in 1..n : IsChunk(s[i], code, a, i) /\ s[i].msg.done = FALSE
<1> DEFINE b(i) == Body(Items(a, i, i), FALSE, Empty)
           s == Chunks(code, a, n)
<1>1. ASSUME NEW i \in 1..n
      PROVE  IsChunk(Message(code, b(i)), code, a, i) /\ Message(code, b(i)).msg.done = FALSE
  <2>1. Items(a, i, i) \in Seq(Item)
    BY ItemsFacts
  <2>2. b(i) \in Bodies /\ b(i).items = Items(a, i, i) /\ b(i).done = FALSE
    BY <2>1 DEF Body, Bodies
  <2> HIDE DEF b
  <2>3. IsChunk(Message(code, b(i)), code, a, i) /\ Message(code, b(i)).msg = b(i)
    BY <2>2, ChunkFacts
  <2> QED BY <2>2, <2>3
<1>2. s = [i \in 1..n |-> Message(code, b(i))]
  BY DEF Chunks
<1> HIDE DEF b, s
<1>3. \A i \in 1..n : s[i] = Message(code, b(i)) /\ s[i] \in Messages
  BY <1>1, <1>2 DEF IsChunk
<1>4. s \in Seq(Messages) /\ Len(s) = n
  BY <1>2, <1>3
<1> QED BY <1>1, <1>3, <1>4 DEF s

LEMMA DoneWithFacts ==
  ASSUME NEW code \in Codes, NEW a \in Nat, NEW n \in Nat
  PROVE  LET s == DoneWith(code, a, n)
         IN /\ s \in Seq(Messages) /\ Len(s) = n
            /\ \A i \in 1..n : IsChunk(s[i], code, a, i) /\ (i # n => s[i].msg.done = FALSE)
<1> DEFINE b(i) == Body(Items(a, i, i), i = n, Empty)
           s == DoneWith(code, a, n)
<1>1. ASSUME NEW i \in 1..n
      PROVE  /\ IsChunk(Message(code, b(i)), code, a, i)
             /\ i # n => Message(code, b(i)).msg.done = FALSE
  <2>1. Items(a, i, i) \in Seq(Item)
    BY ItemsFacts
  <2>2. b(i) \in Bodies /\ b(i).items = Items(a, i, i) /\ (i # n => b(i).done = FALSE)
    BY <2>1 DEF Body, Bodies
  <2> HIDE DEF b
  <2>3. IsChunk(Message(code, b(i)), code, a, i) /\ Message(code, b(i)).msg = b(i)
    BY <2>2, ChunkFacts
  <2> QED BY <2>2, <2>3
<1>2. s = [i \in 1..n |-> Message(code, b(i))]
  BY DEF DoneWith
<1> HIDE DEF b, s
<1>3. \A i \in 1..n : s[i] = Message(code, b(i)) /\ s[i] \in Messages
  BY <1>1, <1>2 DEF IsChunk
<1>4. s \in Seq(Messages) /\ Len(s) = n
  BY <1>2, <1>3
<1> QED BY <1>1, <1>3, <1>4 DEF s

\* The three kinds of streams.
LEMMA StreamWithEnd ==
  ASSUME NEW t, t.resp \in Codes, t.resp # "RpbErrorResp", NEW f, Streams(t.req, f),
         NEW a \in Nat, NEW n \in Nat,
         NEW last \in {Message(t.resp, Body(<<>>, TRUE, Empty)), ErrorAnswer}
  PROVE  IsAnswer(t, f, a, Chunks(t.resp, a, n) \o <<last>>)
<1> DEFINE u == Chunks(t.resp, a, n)
           s == u \o <<last>>
<1>1. /\ u \in Seq(Messages) /\ Len(u) = n
      /\ \A i \in 1..n : IsChunk(u[i], t.resp, a, i) /\ u[i].msg.done = FALSE
  BY ChunksFacts
<1>2. /\ last \in Messages /\ last.code \in {t.resp, "RpbErrorResp"}
      /\ Carries(last.msg) \subseteq Ours(a)
      /\ last.code = "RpbErrorResp" \/ last.msg.done
      /\ last.msg = Nil \/ last.msg.items = <<>>
  <2>1. CASE last = ErrorAnswer
    BY <2>1, ErrorAnswerFacts DEF Carries
  <2>2. CASE last = Message(t.resp, Body(<<>>, TRUE, Empty))
    BY <2>2, DoneFacts
  <2> QED BY <2>1, <2>2
<1>4. <<last>> \in Seq(Messages) /\ Len(<<last>>) = 1 /\ <<last>>[1] = last
  BY <1>2
<1> HIDE DEF u
<1>5. /\ s \in Seq(Messages) /\ Len(s) = n + 1
      /\ \A i \in 1..(n + 1) : s[i] = IF i <= n THEN u[i] ELSE last
  BY <1>1, <1>4, ConcatProperties
<1> HIDE DEF s
<1>6. \A i \in DOMAIN s : s[i].code \in {t.resp, "RpbErrorResp"}
                          /\ Carries(s[i].msg) \subseteq Ours(a)
  BY <1>1, <1>2, <1>5 DEF IsChunk
<1>7. \A i \in DOMAIN s : Ends(s[i]) => i = Len(s)
  BY <1>1, <1>5 DEF Ends, IsChunk
<1>8. Shaped(n, s, a)
  <2>1. \A i \in 1..n : s[i].msg # Nil /\ s[i].msg.items = Items(a, i, i)
    BY <1>1, <1>5 DEF IsChunk
  <2>2. s[n + 1] = last
    BY <1>5
  <2>3. \A i \in (n + 1)..Len(s) : i = n + 1
    BY <1>5
  <2> QED BY <1>2, <1>5, <2>1, <2>2, <2>3 DEF Shaped
<1>9. s # <<>> /\ n \in 0..Len(s)
  BY <1>5
<1> QED BY <1>5, <1>6, <1>7, <1>8, <1>9 DEF IsAnswer, s, u

LEMMA StreamWithoutEnd ==
  ASSUME NEW t, t.resp \in Codes, t.resp # "RpbErrorResp", NEW f, Streams(t.req, f),
         NEW a \in Nat, NEW n \in Nat, n >= 1
  PROVE  IsAnswer(t, f, a, DoneWith(t.resp, a, n))
<1> DEFINE s == DoneWith(t.resp, a, n)
<1>1. /\ s \in Seq(Messages) /\ Len(s) = n
      /\ \A i \in 1..n : IsChunk(s[i], t.resp, a, i) /\ (i # n => s[i].msg.done = FALSE)
  BY DoneWithFacts
<1> HIDE DEF s
<1>3. \A i \in DOMAIN s : s[i].code \in {t.resp, "RpbErrorResp"}
                          /\ Carries(s[i].msg) \subseteq Ours(a)
  BY <1>1 DEF IsChunk
<1>4. \A i \in DOMAIN s : Ends(s[i]) => i = Len(s)
  BY <1>1 DEF Ends, IsChunk
<1>5. Shaped(n, s, a)
  BY <1>1 DEF Shaped, IsChunk
<1>6. s # <<>> /\ n \in 0..Len(s)
  BY <1>1
<1> QED BY <1>1, <1>3, <1>4, <1>5, <1>6 DEF IsAnswer, s

LEMMA StreamWithGap ==
  ASSUME NEW t, t.resp \in Codes, t.resp # "RpbErrorResp", NEW f, Streams(t.req, f),
         NEW a \in Nat
  PROVE  IsAnswer(t, f, a, Chunks(t.resp, a, 1)
                             \o <<Message(t.resp, Nil), Message(t.resp, Body(<<>>, TRUE, Empty))>>)
<1> DEFINE u == Chunks(t.resp, a, 1)
           y == Message(t.resp, Nil)
           z == Message(t.resp, Body(<<>>, TRUE, Empty))
           s == u \o <<y, z>>
<1>1. u \in Seq(Messages) /\ Len(u) = 1 /\ IsChunk(u[1], t.resp, a, 1) /\ u[1].msg.done = FALSE
  <2>1. /\ u \in Seq(Messages) /\ Len(u) = 1
        /\ \A i \in 1..1 : IsChunk(u[i], t.resp, a, i) /\ u[i].msg.done = FALSE
    BY ChunksFacts
  <2> HIDE DEF u
  <2> QED BY <2>1
<1>2. y \in Messages /\ y.code = t.resp /\ y.msg = Nil /\ Carries(y.msg) \subseteq Ours(a)
  BY BareFacts DEF Carries
<1>3. /\ z \in Messages /\ z.code = t.resp /\ z.msg.items = <<>>
      /\ Carries(z.msg) \subseteq Ours(a)
  BY DoneFacts
<1> HIDE DEF u, y, z
<1>4. <<y, z>> \in Seq(Messages) /\ Len(<<y, z>>) = 2 /\ <<y, z>>[1] = y /\ <<y, z>>[2] = z
  BY <1>2, <1>3
<1>5. s \in Seq(Messages) /\ Len(s) = 3 /\ s[1] = u[1] /\ s[2] = y /\ s[3] = z
  <2> DEFINE v == <<y, z>>
  <2>1. v \in Seq(Messages) /\ Len(v) = 2 /\ v[1] = y /\ v[2] = z
    BY <1>4
  <2> HIDE DEF v
  <2>2. /\ u \o v \in Seq(Messages) /\ Len(u \o v) = 3
        /\ (u \o v)[1] = u[1] /\ (u \o v)[2] = v[1] /\ (u \o v)[3] = v[2]
    <3> DEFINE w == u \o v
    <3>1. /\ w \in Seq(Messages) /\ Len(w) = Len(u) + Len(v)
          /\ \A i \in 1..(Len(u) + Len(v)) :
               w[i] = IF i <= Len(u) THEN u[i] ELSE v[i - Len(u)]
      BY <1>1, <2>1, ConcatProperties
    <3> HIDE DEF w
    <3> QED BY <1>1, <2>1, <3>1 DEF w
  <2> QED BY <2>1, <2>2 DEF v
<1> HIDE DEF s
<1>6. \A i \in DOMAIN s : i \in {1, 2, 3}
  BY <1>5
<1>7. Shaped(1, s, a)
  <2>1. \A i \in 1..1 : i = 1
    OBVIOUS
  <2>2. \A i \in (1 + 1)..Len(s) : i = 2 \/ i = 3
    BY <1>5
  <2> QED BY <1>1, <1>2, <1>3, <1>5, <2>1, <2>2 DEF Shaped, IsChunk
<1>8. \A i \in DOMAIN s : Ends(s[i]) => i = Len(s)
  BY <1>1, <1>2, <1>5, <1>6 DEF Ends, IsChunk
<1>9. s # <<>> /\ 1 \in 0..Len(s)
  BY <1>5
<1>10. \A i \in DOMAIN s : s[i].code \in {t.resp, "RpbErrorResp"}
                           /\ Carries(s[i].msg) \subseteq Ours(a)
  BY <1>1, <1>2, <1>3, <1>5, <1>6 DEF IsChunk
<1> QED BY <1>5, <1>7, <1>8, <1>9, <1>10 DEF IsAnswer, s, u, y, z

LEMMA GarbageFacts ==
  ASSUME NEW resp, NEW m \in Garbage(resp)
  PROVE  m.msg \in Bodies
<1> DEFINE b(d) == Body(<<<<0, 2>>>>, d, Empty)
<1>1. <<<<0, 2>>>> \in Seq(Item)
  BY DEF Item
<1>2. \A d \in BOOLEAN : b(d) \in Bodies
  BY <1>1 DEF Body, Bodies
<1> HIDE DEF b
<1>3. \A c : \A d \in BOOLEAN : Message(c, b(d)).msg \in Bodies
  BY <1>2 DEF Message
<1> QED BY <1>3 DEF Garbage, b

LEMMA SingleFacts ==
  ASSUME NEW t, NEW f, ~Streams(t.req, f), NEW a \in Nat, NEW x \in Messages,
         x.code \in {t.resp, "RpbErrorResp"}, Carries(x.msg) \subseteq Ours(a)
  PROVE  IsAnswer(t, f, a, <<x>>)
<1> DEFINE s == <<x>>
<1>1. s \in Seq(Messages) /\ Len(s) = 1 /\ s[1] = x /\ s # <<>>
  OBVIOUS
<1>2. \A i \in DOMAIN s : i = 1
  OBVIOUS
<1> HIDE DEF s
<1> QED BY <1>1, <1>2 DEF IsAnswer, s

LEMMA StreamAnswersFacts ==
  ASSUME NEW t, t.resp \in Codes, t.resp # "RpbErrorResp", NEW f, Streams(t.req, f),
         NEW a \in Nat, NEW s \in StreamAnswers(t.resp, a)
  PROVE  IsAnswer(t, f, a, s)
<1> DEFINE done == Message(t.resp, Body(<<>>, TRUE, Empty))
<1>1. ASSUME NEW last \in {done, ErrorAnswer},
             \E n \in 0..(MaxChunks - 1) : s = Chunks(t.resp, a, n) \o <<last>>
      PROVE  IsAnswer(t, f, a, s)
  <2>1. PICK n \in 0..(MaxChunks - 1) : s = Chunks(t.resp, a, n) \o <<last>>
    BY <1>1
  <2>2. n \in Nat
    BY ConnectionAssumption
  <2>3. IsAnswer(t, f, a, Chunks(t.resp, a, n) \o <<last>>)
    BY <2>2, StreamWithEnd
  <2> QED BY <2>1, <2>3
<1>2. CASE \E n \in 1..MaxChunks : s = DoneWith(t.resp, a, n)
  <2>1. PICK n \in 1..MaxChunks : s = DoneWith(t.resp, a, n)
    BY <1>2
  <2>2. n \in Nat /\ n >= 1
    BY ConnectionAssumption
  <2>3. IsAnswer(t, f, a, DoneWith(t.resp, a, n))
    BY <2>2, StreamWithoutEnd
  <2> QED BY <2>1, <2>3
<1>3. CASE s = Chunks(t.resp, a, 1) \o <<Message(t.resp, Nil), done>>
  BY <1>3, StreamWithGap
<1> QED BY <1>1, <1>2, <1>3 DEF StreamAnswers

LEMMA SingleAnswersFacts ==
  ASSUME NEW t, t.resp \in Codes, NEW f, ~Streams(t.req, f), NEW a \in Nat,
         NEW s \in SingleAnswers(t, f, a)
  PROVE  IsAnswer(t, f, a, s)
<1>1. CASE s = <<Message(t.resp, Nil)>>
  <2>1. Message(t.resp, Nil) \in Messages /\ Message(t.resp, Nil).code = t.resp
        /\ Carries(Message(t.resp, Nil).msg) \subseteq Ours(a)
    BY BareFacts DEF Carries
  <2> QED BY <1>1, <2>1, SingleFacts
<1>2. CASE s = <<ErrorAnswer>>
  <2>1. Carries(ErrorAnswer.msg) \subseteq Ours(a)
    BY ErrorAnswerFacts DEF Carries
  <2> QED BY <1>2, <2>1, ErrorAnswerFacts, SingleFacts
<1>3. ASSUME NEW key \in {Empty, "g"}, \E n \in 0..MaxChunks : s = Value(t.resp, a, n, key)
      PROVE  IsAnswer(t, f, a, s)
  <2>1. PICK n \in 0..MaxChunks : s = Value(t.resp, a, n, key)
    BY <1>3
  <2> DEFINE b == Body(Items(a, 1, n), FALSE, key)
  <2>2. n \in Nat
    BY ConnectionAssumption
  <2>3. Items(a, 1, n) \in Seq(Item) /\ Range(Items(a, 1, n)) \subseteq Ours(a)
    BY <2>2, ItemsFacts
  <2>4. b \in Bodies /\ b.items = Items(a, 1, n)
    BY <2>3 DEF Body, Bodies
  <2>5. s = <<Message(t.resp, b)>>
    BY <2>1 DEF Value
  <2> HIDE DEF b
  <2>6. /\ Message(t.resp, b) \in Messages /\ Message(t.resp, b).code = t.resp
        /\ Carries(Message(t.resp, b).msg) \subseteq Ours(a)
    BY <2>3, <2>4, MessageFacts
  <2> QED BY <2>5, <2>6, SingleFacts
<1> QED BY <1>1, <1>2, <1>3 DEF SingleAnswers

LEMMA RiakAnswersFacts ==
  ASSUME NEW k \in DOMAIN Commands, NEW g, NEW f, NEW a \in Nat,
         NEW s \in RiakAnswers(Traits(k, g), f, a)
  PROVE  IsAnswer(Traits(k, g), f, a, s)
<1>1. Traits(k, g).resp # "RpbErrorResp" /\ Traits(k, g).resp \in Codes
  BY TraitsFacts DEF TraitsOf, Traits, Codes
<1> QED BY <1>1, StreamAnswersFacts, SingleAnswersFacts DEF RiakAnswers
-----------------------------------------------------------------------------
(* Parts of the actions. *)

LEMMA SetCurrentFacts ==
  ASSUME TypeInv, NEW c, IsCommand(c), SetCurrent(c)
  PROVE  IsCommand(cmd') /\ IsCommand(aux')
  BY DEF TypeInv, SetCurrent

LEMMA NoCommandFacts == IsCommand(NoCommand) /\ Fresh(NoCommand)
  BY NewCommandFacts DEF NoCommand

LEMMA RetryFacts ==
  ASSUME TypeInv, tries >= 1, RetryOrGiveUp
  PROVE  /\ tries' \in 0..ExecutionAttempts /\ tries' = tries - 1
         /\ IsCommand(cmd') /\ cmd'.f = cmd.f /\ cmd'.success = cmd.success
         /\ cmd'.Response = cmd.Response /\ cmd'.given = cmd.given /\ cmd'.done = cmd.done
         /\ pc' \in {"cluster", "finished"}
         /\ pc' = "cluster" => tries > 1
         /\ pc' = "finished" => cmd'.error = cmd.error
<1>1. IsCommand(cmd) /\ tries \in 0..ExecutionAttempts /\ ExecutionAttempts \in Nat
  BY ConnectionAssumption DEF TypeInv, TypeOK
<1>2. CASE tries > 1
  BY <1>1, <1>2, OnRetryFacts DEF RetryOrGiveUp
<1>3. CASE ~(tries > 1)
  BY <1>1, <1>3 DEF RetryOrGiveUp
<1> QED BY <1>2, <1>3

LEMMA SubmitFacts ==
  ASSUME NEW k, NEW f, Submit(k, f)
  PROVE  /\ IsCommand(cmd') /\ Fresh(cmd') /\ cmd'.f = Built(k, f) /\ cmd'.error = "nil"
         /\ tries' \in 0..ExecutionAttempts /\ tries' >= 1 /\ pc' = "cluster"
         /\ "retryable" \notin Commands[k].impls => tries' = 1
  BY NewCommandFacts, ConnectionAssumption DEF Submit, Attempts

\* What reads and writes change of a connection.
ConnStates  == connCreated..connInactive
Connections == [open : BOOLEAN, state : ConnStates, inFlight : BOOLEAN, authed : BOOLEAN]

LEMMA ConnectionFacts ==
  ASSUME TypeInv
  PROVE  /\ NoConn \in Connections
         /\ [conn EXCEPT !.inFlight = FALSE] \in Connections
         /\ [conn EXCEPT !.inFlight = TRUE] \in Connections
         /\ [conn EXCEPT !.state = connInactive] \in Connections
         /\ [conn EXCEPT !.state = connInactive, !.inFlight = FALSE] \in Connections
         /\ [conn EXCEPT !.state = connActive, !.authed = TRUE] \in Connections
         /\ [NoConn EXCEPT !.open = TRUE, !.state = connActive] \in Connections
         /\ [NoConn EXCEPT !.open = TRUE, !.state = connTlsStarting] \in Connections
<1>1. conn \in Connections
  BY DEF TypeInv, TypeOK, Connections, ConnStates
<1>2. {connCreated, connTlsStarting, connActive, connInactive} \subseteq ConnStates
  BY DEF ConnStates, connCreated, connInactive, connActive, connTlsStarting
<1>3. NoConn \in Connections
  BY <1>2 DEF NoConn, Connections
<1> QED BY <1>1, <1>2, <1>3 DEF Connections

LEMMA HeadTail ==
  ASSUME NEW S, NEW s \in Seq(S), s # <<>>
  PROVE  Head(s) \in S /\ Head(s) = s[1] /\ Tail(s) \in Seq(S) /\ Len(s) >= 1
  BY HeadTailProperties, LenProperties
-----------------------------------------------------------------------------
(* Types. *)

\* The next message.
LEMMA WireFacts ==
  ASSUME TypeInv, wire # <<>>
  PROVE  /\ Head(wire) \in Messages /\ Head(wire) = wire[1] /\ Tail(wire) \in Seq(Messages)
         /\ Head(wire).msg \in {Nil} \cup Bodies /\ Len(wire) >= 1
<1>1. /\ Head(wire) \in Messages /\ Head(wire) = wire[1] /\ Tail(wire) \in Seq(Messages)
      /\ Len(wire) >= 1
  BY HeadTail DEF TypeInv
<1> QED BY <1>1 DEF Messages

(* What another call of the builder does. *)

\* f and g agree on the fields that are not in X.
SameBut(f, g, X) ==
  /\ DOMAIN g \ X = DOMAIN f \ X
  /\ \A x \in DOMAIN f \ X : g[x] = f[x]

LEMMA JoinFacts ==
  ASSUME NEW f, NEW g, NEW X, DOMAIN f \subseteq X
  PROVE  SameBut(g, f ++ g, X)
  BY DEF SameBut, ++

LEMMA SameTwice ==
  ASSUME NEW f, NEW g, NEW h, NEW X, SameBut(f, g, X), SameBut(g, h, X)
  PROVE  SameBut(f, h, X)
  BY DEF SameBut

LEMMA SameFacts ==
  ASSUME NEW f, NEW g, NEW X, SameBut(f, g, X), NEW x, x \notin X
  PROVE  (Has(g, x) <=> Has(f, x)) /\ Get(g, x) = Get(f, x)
<1>1. Has(g, x) <=> Has(f, x)
  BY DEF SameBut, Has
<1>2. Has(f, x) => g[x] = f[x]
  BY DEF SameBut, Has
<1> QED BY <1>1, <1>2 DEF Get

LEMMA ReuseFacts ==
  ASSUME TypeInv, ReuseBuilder
  PROVE  /\ SameBut(cmd.f, cmd'.f, Shared) /\ IsCommand(cmd')
         /\ cmd'.success = cmd.success /\ cmd'.error = cmd.error /\ cmd'.done = cmd.done
         /\ cmd'.Response = cmd.Response /\ cmd'.given = cmd.given
         /\ Traits(kind, cmd'.f) = Traits(kind, cmd.f)
         /\ reused \subseteq reused' /\ reused' \subseteq Shared
         /\ "Key" \notin reused' => Place(cmd'.f) = Place(cmd.f)
         /\ "Timeout" \notin reused' => Get(cmd'.f, "Timeout") = Get(cmd.f, "Timeout")
         /\ "Stream" \notin reused' => Get(cmd'.f, "Stream") = Get(cmd.f, "Stream")
         /\ spoilt \subseteq spoilt' /\ spoilt' \subseteq Marks
         /\ pc = "read" /\ running = "app" /\ spoilt' = {} =>
              /\ On(kind, cmd'.f) = On(kind, cmd.f)
              /\ \A req : Streams(req, cmd'.f) <=> Streams(req, cmd.f)
<1>1. PICK x \in Shared \ reused :
        /\ reused' = reused \cup {x}
        /\ cmd' = [cmd EXCEPT !.f = [y \in {x} |-> Changed(cmd.f, x)] ++ @]
        /\ spoilt' = IF x = "Stream" /\ pc = "read" /\ running = "app"
                       THEN spoilt \cup {"reuse"} ELSE spoilt
  BY DEF ReuseBuilder
<1> DEFINE h == [y \in {x} |-> Changed(cmd.f, x)]
           g == h ++ cmd.f
<1>2. IsCommand(cmd) /\ reused \subseteq Shared /\ spoilt \subseteq Marks
  BY DEF TypeInv, TypeOK, Marks
<1>3. cmd' = [cmd EXCEPT !.f = g]
  BY <1>1, <1>2 DEF IsCommand
<1>4. DOMAIN h \subseteq {x}
  OBVIOUS
<1> HIDE DEF h
<1>5. SameBut(cmd.f, g, {x})
  BY <1>4, JoinFacts
<1> HIDE DEF g
<1>6. \A z : z # x => (Has(g, z) <=> Has(cmd.f, z)) /\ Get(g, z) = Get(cmd.f, z)
  BY <1>5, SameFacts
<1>7. /\ IsCommand(cmd') /\ cmd'.f = g /\ cmd'.success = cmd.success /\ cmd'.error = cmd.error
      /\ cmd'.done = cmd.done /\ cmd'.Response = cmd.Response /\ cmd'.given = cmd.given
  BY <1>2, <1>3, NewFieldsFacts
<1>8. SameBut(cmd.f, g, Shared)
  BY <1>5 DEF SameBut
<1>9. x \in {"Key", "Timeout", "Stream"}
  BY DEF Shared
<1>10. Traits(kind, g) = Traits(kind, cmd.f)
  <2>1. Has(g, "legacy") <=> Has(cmd.f, "legacy")
    BY <1>6, <1>9
  <2> QED BY <2>1 DEF Traits
<1>11. "Key" \notin reused' => Place(g) = Place(cmd.f)
  <2> SUFFICES ASSUME x # "Key" PROVE Place(g) = Place(cmd.f)
    BY <1>1
  <2>1. \A z \in {"Type", "Bucket", "Key"} : Get(g, z) = Get(cmd.f, z)
    BY <1>6, <1>9
  <2> QED BY <2>1 DEF Place
<1>12. /\ "Timeout" \notin reused' => Get(g, "Timeout") = Get(cmd.f, "Timeout")
       /\ "Stream" \notin reused' => Get(g, "Stream") = Get(cmd.f, "Stream")
  BY <1>1, <1>6
<1>13. reused \subseteq reused' /\ reused' \subseteq Shared
  BY <1>1, <1>2
<1>14. spoilt \subseteq spoilt' /\ spoilt' \subseteq Marks
  BY <1>1, <1>2 DEF Marks
<1>15. ASSUME pc = "read", running = "app", spoilt' = {}
       PROVE  On(kind, g) = On(kind, cmd.f) /\ \A req : Streams(req, g) <=> Streams(req, cmd.f)
  <2>1. x # "Stream"
    BY <1>1, <1>15
  <2>2. Get(g, "Stream") = Get(cmd.f, "Stream") /\ Get(g, "streaming") = Get(cmd.f, "streaming")
    BY <1>6, <1>9, <2>1
  <2> QED BY <2>2 DEF On, Streams, IsTrue
<1> QED BY <1>7, <1>8, <1>10, <1>11, <1>12, <1>13, <1>14, <1>15
-----------------------------------------------------------------------------
(* Types. *)

LEMMA TypeInit == Init => TypeInv
<1> SUFFICES ASSUME Init PROVE TypeInv
  OBVIOUS
<1>1. IsCommand(cmd) /\ IsCommand(aux)
  BY NoCommandFacts DEF Init
<1>2. cmd.error \in Outcomes /\ cmd.success \in BOOLEAN
  BY <1>1 DEF IsCommand
<1>3. conn \in [open : BOOLEAN, state : connCreated..connInactive, inFlight : BOOLEAN,
               authed : BOOLEAN]
  BY DEF Init, NoConn, connCreated, connInactive
<1>4. tries \in 0..ExecutionAttempts /\ try \in 0..TempNetErrorRetries
  BY ConnectionAssumption DEF Init
<1>5. TypeOK
  BY <1>2, <1>3, <1>4 DEF Init, TypeOK, Outcomes
<1> QED BY <1>1, <1>5 DEF Init, TypeInv

LEMMA TypeStep == TypeInv /\ [Next]_vars => TypeInv'
<1> SUFFICES ASSUME TypeInv, [Next]_vars PROVE TypeInv'
  OBVIOUS
<1>a. /\ conn \in Connections /\ IsCommand(cmd) /\ IsCommand(aux) /\ ExecutionAttempts \in Nat
      /\ TempNetErrorRetries \in Nat
  BY ConnectionAssumption DEF TypeInv, TypeOK, Connections, ConnStates
<1>b. ASSUME IsCommand(cmd') PROVE cmd'.error \in Outcomes /\ cmd'.success \in BOOLEAN
  BY <1>b DEF IsCommand
<1> USE DEF app, sock, Marks, Verdicts
<1>1. CASE WithOption
  BY <1>1 DEF WithOption, TypeInv, TypeOK
<1>2. CASE Build
  BY <1>2, <1>b, SubmitFacts DEF Build, TypeInv, TypeOK
<1>3. CASE ReuseBuilder
  <2>1. IsCommand(cmd') /\ reused' \subseteq Shared /\ spoilt' \subseteq Marks
    BY <1>3, ReuseFacts
  <2>2. UNCHANGED <<kind, round, panicked, aux, running, pc, tries, err, conn, wire, try, answer,
                    deadline, cause>>
    BY <1>3 DEF ReuseBuilder
  <2> QED BY <1>b, <2>1, <2>2 DEF TypeInv, TypeOK, Marks
<1>4. CASE GetPooled
  BY <1>4, <1>b, NoCommandFacts DEF GetPooled, StartRunning, TypeInv, TypeOK
<1>5. CASE Connect
  <2>1. conn' \in Connections /\ IsCommand(aux') /\ wire' \in Seq(Messages)
    BY <1>5, <1>a, ConnectionFacts, NoCommandFacts DEF Connect, StartRunning
  <2> QED BY <1>5, <2>1 DEF Connect, StartRunning, TypeInv, TypeOK, Connections, ConnStates
<1>6. ASSUME NEW e \in Outcomes, NoConnection(e), tries >= 1,
             UNCHANGED <<app, try, answer, sentTo, deadline>>
      PROVE  TypeInv'
  <2>1. conn' \in Connections /\ IsCommand(aux') /\ wire' \in Seq(Messages)
    BY <1>6, <1>a, ConnectionFacts, NoCommandFacts DEF NoConnection
  <2>2. /\ tries' \in 0..ExecutionAttempts /\ IsCommand(cmd') /\ pc' \in {"cluster", "finished"}
        /\ pc' = "cluster" => tries' >= 1
    <3>1. tries \in Nat
      BY <1>a DEF TypeInv, TypeOK
    <3> QED BY <1>6, <3>1, RetryFacts DEF NoConnection
  <2>3. running' = "app" /\ err' = e /\ cause' = "connect" /\ spoilt' = {}
    BY <1>6 DEF NoConnection
  <2> QED BY <1>6, <1>b, <2>1, <2>2, <2>3 DEF TypeInv, TypeOK, Connections, ConnStates
<1>7. CASE DialFails
  BY <1>6, <1>7 DEF DialFails, TypeInv, Outcomes
<1>8. CASE SetupStep
  <2>1. CASE NoConnection("plain")
    BY <1>6, <1>8, <2>1 DEF SetupStep, TypeInv, Outcomes
  <2>2. CASE /\ \E w \in {"Auth", "app"} : StartRunning(w, conn')
             /\ conn' \in Connections /\ UNCHANGED <<cmd, tries, err, wire, spoilt, cause>>
    <3>1. pc = "classify" /\ pc' = "execute" /\ running' \in {"Auth", "app"} /\ IsCommand(aux')
      BY <1>8, <2>2, NoCommandFacts DEF SetupStep, StartRunning
    <3> QED BY <1>8, <2>2, <3>1 DEF SetupStep, TypeInv, TypeOK, Connections, ConnStates
  <2> QED BY <1>8, <1>a, <2>1, <2>2, ConnectionFacts DEF SetupStep, StartRunning
<1>9. CASE SetupFails
  BY <1>6, <1>9 DEF SetupFails, TypeInv, TypeOK
<1>10. ASSUME NEW c, IsCommand(c), NEW e \in Outcomes, ExecuteReturns(c, e),
              pc \in {"execute", "read"}, conn' \in Connections,
              wire' \in Seq(Messages), spoilt' \subseteq Marks,
              try' \in 0..TempNetErrorRetries,
              UNCHANGED <<app, running, tries, answer, sentTo, deadline, cause>>
       PROVE  TypeInv'
  <2>1. IsCommand(cmd') /\ IsCommand(aux') /\ err' = e /\ pc' = "classify"
    BY <1>10, SetCurrentFacts DEF ExecuteReturns
  <2> QED BY <1>10, <1>b, <2>1 DEF TypeInv, TypeOK, Connections, ConnStates
<1>11. IsCommand(Current)
  BY CurrentFacts
<1>12. CASE ListingRefused
  <2>1. IsCommand(onError(Current, "client"))
    BY <1>11, OnErrorFacts DEF Outcomes
  <2> QED BY <1>12, <1>10, <2>1 DEF ListingRefused, TypeInv, TypeOK, Connections, ConnStates, Outcomes
<1>13. CASE ConstructPanics
  BY <1>13 DEF ConstructPanics, TypeInv, TypeOK
<1>14. \A g : IsCommand([Current EXCEPT !.f = g])
  BY <1>11, NewFieldsFacts
<1>15. CASE MarshalFails
  BY <1>15, <1>10, <1>14 DEF MarshalFails, TypeInv, TypeOK, Connections, ConnStates, Outcomes
<1>16. CASE WriteFails
  <2>1. PICK e \in {"temp", "net"} :
          ExecuteReturns([Current EXCEPT !.f = constructPbRequest(RunKind, @)], e)
    BY <1>16 DEF WriteFails
  <2>2. e \in Outcomes
    BY DEF Outcomes
  <2>3. /\ conn' \in Connections /\ pc = "execute" /\ UNCHANGED <<wire, spoilt, try>>
        /\ UNCHANGED <<app, running, tries, answer, sentTo, deadline, cause>>
    BY <1>16, ConnectionFacts DEF WriteFails, CanWrite
  <2> QED BY <1>10, <1>14, <2>1, <2>2, <2>3 DEF TypeInv, TypeOK
<1>17. CASE Write
  <2> DEFINE f == constructPbRequest(RunKind, Current.f)
             t == Traits(RunKind, f)
  <2>1. IsCommand(cmd') /\ IsCommand(aux')
    BY <1>17, <1>14, SetCurrentFacts DEF Write
  <2>2. PICK a \in RiakAnswers(t, f, Attempt) :
          wire' = wire \o a /\ answer' = IF running = "app" THEN a ELSE <<>>
    BY <1>17 DEF Write
  <2>3. a \in Seq(Messages)
    BY CurrentFacts, AttemptNat, RiakAnswersFacts DEF IsAnswer
  <2>4. wire' \in Seq(Messages) /\ answer' \in Seq(Messages)
    BY <2>2, <2>3 DEF TypeInv
  <2>5. conn' \in Connections
    BY <1>17, <1>a, ConnectionFacts DEF Write
  <2>6. deadline' \in {"default", "long"}
    BY <1>17 DEF Write, ReadTimeout
  <2>7. /\ pc = "execute" /\ pc' = "read" /\ err' = "nil" /\ try' = 0
        /\ UNCHANGED <<app, running, tries, spoilt, cause>>
    BY <1>17 DEF Write, CanWrite
  <2> QED BY <1>a, <1>b, <2>1, <2>4, <2>5, <2>6, <2>7 DEF TypeInv, TypeOK, Connections, ConnStates, Outcomes
<1>18. ASSUME NEW m, m.msg \in {Nil} \cup Bodies, NEW cbErr \in Verdicts,
              Handle(m, cbErr), pc = "read", wire' \in Seq(Messages), try' = 0,
              spoilt' \subseteq Marks,
              UNCHANGED <<app, running, tries, answer, sentTo, deadline, cause>>
       PROVE  TypeInv'
  <2>1. PICK c : Outcome(m, cbErr, c) /\ IsCommand(c) /\ SetCurrent(c)
    BY <1>18, HandleOutcome
  <2> DEFINE r == onSuccess(RunKind, Current, Parsed(m), cbErr)
  <2>2. r.err \in Outcomes
    BY <1>18, HandleOutcome DEF OnSuccessFacts, Effect, Outcomes, Verdicts
  <2>3. /\ err' \in Outcomes /\ conn' \in Connections
        /\ pc' = "classify" \/ UNCHANGED <<pc, err, conn>>
    BY <1>a, <2>1, <2>2, ConnectionFacts DEF Outcome, Outcomes, TypeInv, TypeOK
  <2>4. IsCommand(cmd') /\ IsCommand(aux')
    BY <2>1, SetCurrentFacts
  <2> QED BY <1>a, <1>b, <1>18, <2>3, <2>4 DEF TypeInv, TypeOK, Connections, ConnStates
<1>19. wire # <<>> => Head(wire).msg \in {Nil} \cup Bodies /\ Tail(wire) \in Seq(Messages)
  BY WireFacts
<1>20. CASE ReadMessage
  <2>1. PICK cbErr \in CallbackErrors :
          Handle(Head(wire), cbErr) /\ spoilt' = spoilt \cup Leftover(Head(wire), err')
    BY <1>20 DEF ReadMessage
  <2>2. cbErr \in Verdicts
    BY DEF CallbackErrors, Verdicts
  <2>3. spoilt' \subseteq Marks
    <3>1. Leftover(Head(wire), err') \subseteq Marks
      BY DEF Leftover, Marks
    <3> QED BY <2>1, <3>1 DEF TypeInv, TypeOK, Marks
  <2> QED BY <1>18, <1>19, <1>20, <2>1, <2>2, <2>3 DEF ReadMessage
<1>21. CASE RetryRead
  BY <1>21, <1>a DEF RetryRead, TypeInv, TypeOK
<1>22. CASE ReadFails
  <2>1. PICK e \in {"temp", "net"} : ExecuteReturns(onError(Current, e), e)
    BY <1>22 DEF ReadFails
  <2>2. e \in Outcomes /\ IsCommand(onError(Current, e))
    BY <1>11, OnErrorFacts DEF Outcomes
  <2>3. /\ conn' \in Connections /\ pc = "read" /\ UNCHANGED <<wire, spoilt, try>>
        /\ UNCHANGED <<app, running, tries, answer, sentTo, deadline, cause>>
    BY <1>22, <1>a, ConnectionFacts DEF ReadFails
  <2> QED BY <1>10, <2>1, <2>2, <2>3 DEF TypeInv, TypeOK
<1>23. CASE ReadGarbage
  <2>1. /\ wire' \in Seq(Messages) /\ try' = 0 /\ pc = "read" /\ UNCHANGED spoilt
        /\ UNCHANGED <<app, running, tries, answer, sentTo, deadline, cause>>
    <3>1. <<>> \in Seq(Messages)
      OBVIOUS
    <3> QED BY <1>19, <1>23, <3>1 DEF ReadGarbage
  <2>2. CASE ReadReturns(onError(Current, "plain"), "plain")
    <3>1. IsCommand(onError(Current, "plain")) /\ "plain" \in Outcomes
      BY <1>11, OnErrorFacts DEF Outcomes
    <3>2. conn' \in Connections /\ ExecuteReturns(onError(Current, "plain"), "plain")
      BY <1>a, <2>2, ConnectionFacts DEF ReadReturns
    <3> QED BY <1>10, <1>a, <2>1, <3>1, <3>2 DEF TypeInv, TypeOK
  <2>3. CASE \E m \in Garbage(Traits(RunKind, Current.f).resp) : Handle(m, "nil")
    <3>1. PICK m \in Garbage(Traits(RunKind, Current.f).resp) : Handle(m, "nil")
      BY <2>3
    <3>2. m.msg \in Bodies
      BY GarbageFacts
    <3> QED BY <1>18, <2>1, <3>1, <3>2 DEF TypeInv, TypeOK
  <2> QED BY <1>23, <2>2, <2>3 DEF ReadGarbage
<1>24. CASE ReadZeroLength \/ CallbackPanics
  BY <1>24 DEF ReadZeroLength, CallbackPanics, TypeInv, TypeOK
<1>25. CASE NodeDone
  <2>1. conn' \in Connections /\ wire' \in Seq(Messages)
        /\ spoilt' \subseteq Marks
    <3>1. <<>> \in Seq(Messages) /\ wire \in Seq(Messages)
      BY DEF TypeInv
    <3>2. spoilt \subseteq Marks
      BY DEF TypeInv, TypeOK
    <3> QED BY <1>25, <1>a, <3>1, <3>2, ConnectionFacts DEF NodeDone
  <2>2. cause' \in {Empty, "connect", "network", "marshal", "callback", "garbage"}
    BY <1>25 DEF NodeDone, CauseOf, TypeInv, TypeOK, Outcomes
  <2>3. /\ pc = "classify" /\ tries >= 1 /\ running = "app"
        /\ UNCHANGED <<app, aux, running, err, try, answer, sentTo, deadline>>
    BY <1>25 DEF NodeDone, TypeInv
  <2>4. /\ tries' \in 0..ExecutionAttempts /\ IsCommand(cmd') /\ pc' \in {"cluster", "finished"}
        /\ pc' = "cluster" => tries' >= 1
    <3>1. tries \in 0..ExecutionAttempts
      BY DEF TypeInv, TypeOK
    <3> QED BY <1>25, <1>a, <2>3, <3>1, RetryFacts DEF NodeDone
  <2> QED BY <1>b, <2>1, <2>2, <2>3, <2>4 DEF TypeInv, TypeOK, Connections, ConnStates
<1>26. CASE NextCommand
  <2>1. PICK k \in Followers : kind' = k /\ Submit(k, Canonical(k))
    BY <1>26 DEF NextCommand
  <2>2. IsCommand(cmd') /\ tries' \in 0..ExecutionAttempts /\ tries' >= 1 /\ pc' = "cluster"
    BY <2>1, SubmitFacts
  <2>3. /\ pc \in {"finished", "rejected"} /\ round' = 2 /\ reused' = {} /\ err' = "nil"
        /\ cause' = Empty /\ try' = 0 /\ answer' = <<>> /\ deadline' = "default"
        /\ UNCHANGED <<panicked, aux, running, sock>>
    BY <1>26 DEF NextCommand
  <2>4. /\ answer' \in Seq(Messages) /\ try' \in 0..TempNetErrorRetries /\ err' \in Outcomes
        /\ deadline' \in {"default", "long"} /\ round' \in {1, 2} /\ reused' \subseteq Shared
    <3>1. answer' \in Seq(Messages)
      BY <2>3
    <3>2. try' \in 0..TempNetErrorRetries
      BY <1>a, <2>3
    <3> QED BY <2>3, <3>1, <3>2 DEF Outcomes
  <2>5. running' = "app" /\ kind' \in Kinds \cup Followers
    BY <2>1, <2>3 DEF TypeInv
  <2>6. cause' \in {Empty, "connect", "network", "marshal", "callback", "garbage"}
    BY <2>3
  <2>7. TypeOK'
    BY <1>b, <2>2, <2>3, <2>4, <2>5, <2>6 DEF TypeInv, TypeOK
  <2> QED BY <2>2, <2>3, <2>4, <2>5, <2>7 DEF TypeInv
<1>27. CASE UNCHANGED vars
  BY <1>27 DEF vars, TypeInv, TypeOK
<1> QED BY <1>1, <1>2, <1>3, <1>4, <1>5, <1>7, <1>8, <1>9, <1>12, <1>13, <1>15, <1>16, <1>17,
           <1>20, <1>21, <1>22, <1>23, <1>24, <1>25, <1>26, <1>27 DEF Next, Idle

\* TypeOK holds: commands, their errors and results, tries, reads, the connection.
THEOREM ConnectionTypeCorrect == Spec => []TypeOK
<1>1. TypeInv => TypeOK
  BY DEF TypeInv
<1> QED BY <1>1, TypeInit, TypeStep, PTL DEF Spec
-----------------------------------------------------------------------------
(* Authentication. *)

\* What a step that does not make or close a connection does to it.
SameConn == conn'.open = conn.open /\ conn'.authed = conn.authed
            /\ (conn'.state = conn.state \/ conn'.state = connInactive)

LEMMA ReadsKeepConn ==
  ASSUME TypeInv
  PROVE  /\ conn' = [conn EXCEPT !.inFlight = FALSE] => SameConn
         /\ conn' = [conn EXCEPT !.inFlight = TRUE] => SameConn
         /\ conn' = [conn EXCEPT !.state = connInactive] => SameConn
         /\ conn' = [conn EXCEPT !.state = connInactive, !.inFlight = FALSE] => SameConn
         /\ conn' = conn => SameConn
<1>1. conn \in Connections
  BY DEF TypeInv, TypeOK, Connections, ConnStates
<1> QED BY <1>1 DEF SameConn, Connections

LEMMA NotAvailable == ~available(NoConn)
  BY DEF available, NoConn

LEMMA AuthStep == TypeInv /\ Authenticated /\ [Next]_vars => Authenticated'
<1> SUFFICES ASSUME TypeInv, Authenticated, [Next]_vars,
                    UseAuth, running' = "app", available(conn)'
             PROVE  conn'.authed
  BY DEF Authenticated
<1> USE DEF app, sock
<1>1. CASE UNCHANGED <<conn, running>>
  BY <1>1 DEF Authenticated, available
<1>2. CASE UNCHANGED running /\ SameConn
  BY <1>2 DEF Authenticated, available, SameConn, connInactive
<1>3. ASSUME conn' = NoConn PROVE FALSE
  BY <1>3, NotAvailable DEF available
<1>4. CASE WithOption \/ Build \/ ReuseBuilder \/ RetryRead \/ ReadZeroLength \/ CallbackPanics
           \/ NextCommand \/ UNCHANGED vars
  BY <1>1, <1>4 DEF WithOption, Build, ReuseBuilder, RetryRead, ReadZeroLength, CallbackPanics,
                   NextCommand, vars
<1>5. CASE ListingRefused \/ MarshalFails \/ ConstructPanics
  BY <1>1, <1>5 DEF ListingRefused, MarshalFails, ConstructPanics
<1>6. CASE GetPooled
  BY <1>1, <1>6 DEF GetPooled, StartRunning, TypeInv
<1>7. CASE Connect
  BY <1>7 DEF Connect, StartRunning
<1>8. CASE DialFails \/ SetupFails
  BY <1>3, <1>8 DEF DialFails, SetupFails, NoConnection
<1>9. CASE SetupStep
  <2>1. CASE running = "StartTls" /\ StartRunning("Auth", conn)
    BY <2>1 DEF StartRunning
  <2>2. CASE NoConnection("plain")
    BY <1>3, <2>2 DEF NoConnection
  <2>3. CASE StartRunning("app", [conn EXCEPT !.state = connActive, !.authed = TRUE])
    BY <2>3 DEF StartRunning, TypeInv, TypeOK
  <2> QED BY <1>9, <2>1, <2>2, <2>3 DEF SetupStep
<1>10. CASE Write \/ WriteFails \/ ReadFails
  BY <1>2, <1>10, ReadsKeepConn DEF Write, WriteFails, ReadFails
<1>11. ASSUME NEW m, NEW cbErr, Handle(m, cbErr) PROVE SameConn
  BY <1>11, ReadsKeepConn DEF Handle, ReadReturns
<1>12. CASE ReadMessage
  BY <1>2, <1>11, <1>12 DEF ReadMessage
<1>13. CASE ReadGarbage
  <2>1. SameConn
    BY <1>11, <1>13, ReadsKeepConn DEF ReadGarbage, ReadReturns
  <2> QED BY <1>2, <1>13, <2>1 DEF ReadGarbage
<1>14. CASE NodeDone
  BY <1>1, <1>3, <1>14 DEF NodeDone
<1> QED BY <1>4, <1>5, <1>6, <1>7, <1>8, <1>9, <1>10, <1>12, <1>13, <1>14 DEF Next, Idle

\* With authentication, the application's commands run only on authenticated
\* connections: after startTls and auth on a new one, and on every one that the pool
\* hands out, however often connections are lost and made again.
THEOREM AlwaysAuthenticated == Spec => []Authenticated
<1>1. Init => Authenticated
  BY NotAvailable DEF Init, Authenticated
<1> QED BY <1>1, TypeInit, TypeStep, AuthStep, PTL DEF Spec
-----------------------------------------------------------------------------
(* What a command says of itself. *)

\* A command that may be retried is done after one message and has no callback.
LEMMA RetryableFacts ==
  ASSUME NEW k \in DOMAIN Commands, NEW c, "retryable" \in Commands[k].impls
  PROVE  isDone(k, c) /\ Traits(k, c.f).isDone = "none" /\ k # "TsQuery"
<1>1. Commands[k].isDone = "none" /\ k # "TsQuery"
  BY TraitsFacts DEF TraitsOf
<1>2. legacyCounterCommand.isDone = "none"
  BY DEF legacyCounterCommand, UpdateDtCommand
<1>3. Traits(k, c.f).isDone = "none"
  BY <1>1, <1>2 DEF Traits
<1> QED BY <1>1, <1>3 DEF isDone

\* An execution that returns from command c.
LEMMA ReturnsFacts ==
  ASSUME NEW c, NEW e, ExecuteReturns(c, e)
  PROVE  /\ err' = e /\ pc' = "classify"
         /\ running = "app" => cmd' = c /\ UNCHANGED aux
         /\ running # "app" => aux' = c /\ UNCHANGED cmd
  BY DEF ExecuteReturns, SetCurrent

\* After an outcome that is an error, the command has it.
LEMMA OutcomeFacts ==
  ASSUME TypeInv, NEW m, m.msg \in {Nil} \cup Bodies, NEW cbErr \in Verdicts,
         Handle(m, cbErr), running = "app", pc = "read"
  PROVE  /\ UNCHANGED aux /\ cmd'.f = cmd.f /\ IsCommand(cmd')
         /\ pc' = "read" => ~Retryable /\ err' = "nil"
         /\ pc' # "read" /\ err' # "nil" =>
              /\ ~cmd'.success /\ cmd'.error = err'
              /\ Retryable => cmd'.Response = cmd.Response /\ cmd'.given = cmd.given
                              /\ cmd'.done = cmd.done
<1> DEFINE r == onSuccess(RunKind, Current, Parsed(m), cbErr)
           t == Traits(RunKind, Current.f)
<1>1. RunKind = kind /\ Current = cmd /\ IsCommand(cmd) /\ kind \in DOMAIN Commands
  BY CurrentFacts DEF RunKind, Current, TypeInv
<1>2. OnSuccessFacts(kind, t, cmd, Parsed(m), cbErr, r)
  BY <1>1, HandleOutcome
<1>3. PICK c : Outcome(m, cbErr, c) /\ IsCommand(c) /\ c.f = Current.f /\ SetCurrent(c)
  BY HandleOutcome
<1>4. cmd' = c /\ UNCHANGED aux /\ c.f = cmd.f
  BY <1>1, <1>3 DEF SetCurrent
<1>5. Retryable => isDone(RunKind, r.cmd) /\ r.err = "nil"
  <2>1. Retryable => isDone(RunKind, r.cmd)
    BY <1>1, RetryableFacts DEF Retryable
  <2>2. Retryable => t.isDone = "none" /\ kind # "TsQuery"
    BY <1>1, RetryableFacts DEF Retryable
  <2> HIDE DEF t, r
  <2> QED BY <1>2, <2>1, <2>2 DEF OnSuccessFacts
<1>6. IsCommand(r.cmd) /\ r.err \in Outcomes
  BY <1>2 DEF OnSuccessFacts, Effect, Outcomes, Verdicts
<1> HIDE DEF r, t
<1>7. CASE err' \in {"riak", "client"} /\ c = onError(Current, err') /\ pc' = "classify"
  <2>1. PICK e \in {"riak", "client"} : err' = e /\ c = onError(cmd, e)
    BY <1>1, <1>7
  <2>2. /\ IsCommand(c) /\ c.success = FALSE /\ c.error = e
        /\ c.done = cmd.done /\ c.Response = cmd.Response /\ c.given = cmd.given
    <3>1. e \in Outcomes
      BY DEF Outcomes
    <3> QED BY <1>1, <2>1, <3>1, OnErrorFacts
  <2> QED BY <1>4, <1>7, <2>1, <2>2
<1>8. CASE r.err # "nil" /\ err' = r.err /\ c = onError(r.cmd, r.err) /\ pc' = "classify"
  BY <1>4, <1>5, <1>6, <1>8, OnErrorFacts
<1>9. CASE err' = "nil" /\ pc' = "classify"
  BY <1>3, <1>4, <1>9
<1>10. CASE ~isDone(RunKind, r.cmd) /\ UNCHANGED <<pc, err, conn>>
  BY <1>3, <1>4, <1>5, <1>10 DEF TypeInv
<1> QED BY <1>3, <1>7, <1>8, <1>9, <1>10 DEF Outcome, r, t

\* The commands that secure a connection do not touch the application's.
LEMMA SetupOutcome ==
  ASSUME NEW m, NEW cbErr, Handle(m, cbErr), running # "app"
  PROVE  UNCHANGED cmd
  BY DEF Handle, ReadReturns, ExecuteReturns, SetCurrent

LEMMA CommandStep == TypeInv /\ CommandInv /\ [Next]_vars => CommandInv'
<1> SUFFICES ASSUME TypeInv, CommandInv, [Next]_vars PROVE CommandInv'
  OBVIOUS
<1>a. /\ IsCommand(cmd) /\ IsCommand(aux) /\ IsCommand(Current) /\ tries \in Nat
  BY CurrentFacts, ConnectionAssumption DEF TypeInv, TypeOK
<1>b. ASSUME NEW c, NEW d, Fresh(c), d.Response = c.Response, d.given = c.given,
             d.success = FALSE, d.done = c.done
      PROVE  Fresh(d)
  BY <1>b DEF Fresh
<1> USE DEF app, sock
<1>1. CASE UNCHANGED <<cmd, pc, running, kind, err, tries, cause>>
  BY <1>1 DEF CommandInv, Retryable
<1>2. CASE WithOption \/ RetryRead \/ UNCHANGED vars
  BY <1>1, <1>2 DEF WithOption, RetryRead, vars
<1>3. CASE ConstructPanics \/ ReadZeroLength \/ CallbackPanics
  BY <1>3 DEF ConstructPanics, ReadZeroLength, CallbackPanics, CommandInv, Retryable
<1>4. CASE Build
  BY <1>4, SubmitFacts DEF Build, CommandInv, Retryable
<1>5. CASE NextCommand
  <2>1. PICK k \in Followers : kind' = k /\ Submit(k, Canonical(k))
    BY <1>5 DEF NextCommand
  <2> QED BY <2>1, SubmitFacts DEF CommandInv, Retryable
<1>6. CASE ReuseBuilder
  <2>1. LET d == cmd'
        IN /\ d.success = cmd.success /\ d.error = cmd.error /\ d.done = cmd.done
           /\ d.Response = cmd.Response /\ d.given = cmd.given
    BY <1>6, ReuseFacts
  <2>2. pc \in {"cluster", "execute", "read"} /\ UNCHANGED <<pc, running, kind, err, tries, cause>>
    BY <1>6 DEF ReuseBuilder
  <2>3. Fresh(cmd) => Fresh(cmd')
    BY <2>1 DEF Fresh
  <2> QED BY <2>2, <2>3 DEF CommandInv, Retryable
<1>7. CASE GetPooled \/ Connect
  BY <1>7 DEF GetPooled, Connect, StartRunning, CommandInv, Retryable
<1>8. ASSUME NEW e, NoConnection(e), tries >= 1, Fresh(cmd), ~Retryable => tries <= 1,
             UNCHANGED kind
      PROVE  CommandInv'
  <2>1. RetryOrGiveUp /\ running' = "app" /\ cause' = "connect" /\ err' = e
    BY <1>8 DEF NoConnection
  <2>2. Fresh(cmd') /\ tries' = tries - 1 /\ pc' \in {"cluster", "finished"}
        /\ (pc' = "cluster" => tries > 1)
    BY <1>8, <2>1, RetryFacts DEF Fresh
  <2>3. ~cmd'.success
    BY <2>2 DEF Fresh
  <2> QED BY <1>8, <1>a, <2>1, <2>2, <2>3 DEF CommandInv, Retryable
<1>9. CASE DialFails
  BY <1>8, <1>9 DEF DialFails, CommandInv, TypeInv
<1>10. CASE SetupFails
  BY <1>8, <1>10 DEF SetupFails, CommandInv, TypeInv
<1>11. CASE SetupStep
  <2>1. pc = "classify" /\ running # "app" /\ Fresh(cmd) /\ tries >= 1 /\ UNCHANGED kind
    BY <1>11 DEF SetupStep, CommandInv, TypeInv
  <2>2. CASE NoConnection("plain")
    BY <1>8, <2>1, <2>2 DEF CommandInv
  <2>3. CASE pc' = "execute" /\ UNCHANGED <<cmd, tries, err, cause>>
    BY <2>1, <2>3 DEF CommandInv, Retryable
  <2> QED BY <1>11, <2>2, <2>3 DEF SetupStep, StartRunning
<1>12. ASSUME NEW c, NEW e, ExecuteReturns(c, e), pc = "execute",
              e \in {"riak", "client"} => c.error = e, c.success = Current.success \/ ~c.success,
              c.Response = Current.Response, c.given = Current.given, c.done = Current.done,
              UNCHANGED <<running, kind, tries>>
       PROVE  CommandInv'
  <2>1. Fresh(cmd')
    <3>1. CASE running = "app"
      BY <1>12, <3>1, ReturnsFacts DEF Current, CommandInv, Fresh
    <3>2. CASE running # "app"
      BY <1>12, <3>2, ReturnsFacts DEF CommandInv, Fresh
    <3> QED BY <3>1, <3>2
  <2>2. err' = e /\ pc' = "classify" /\ (running = "app" => cmd' = c)
    BY <1>12, ReturnsFacts
  <2>3. ~cmd'.success
    BY <2>1 DEF Fresh
  <2> QED BY <1>12, <2>1, <2>2, <2>3 DEF CommandInv, Retryable
<1>13. CASE ListingRefused
  <2>1. LET c == onError(Current, "client")
        IN /\ c.success = FALSE /\ c.error = "client" /\ c.Response = Current.Response
           /\ c.given = Current.given /\ c.done = Current.done
    BY <1>a, OnErrorFacts DEF Outcomes
  <2> QED BY <1>12, <1>13, <2>1 DEF ListingRefused
<1>14. ASSUME NEW e \in {"plain", "temp", "net"}, pc = "execute", UNCHANGED <<running, kind, tries>>,
              ExecuteReturns([Current EXCEPT !.f = constructPbRequest(RunKind, @)], e)
       PROVE  CommandInv'
  <2> DEFINE c == [Current EXCEPT !.f = constructPbRequest(RunKind, @)]
  <2>1. /\ c.success = Current.success /\ c.Response = Current.Response
        /\ c.given = Current.given /\ c.done = Current.done
    BY <1>a, NewFieldsFacts
  <2> QED BY <1>12, <1>14, <2>1
<1>15. CASE MarshalFails
  BY <1>14, <1>15 DEF MarshalFails
<1>16. CASE WriteFails
  BY <1>14, <1>16 DEF WriteFails, CanWrite
<1>17. CASE Write
  <2> DEFINE g == constructPbRequest(RunKind, Current.f)
             c == [Current EXCEPT !.f = g]
  <2>1. SetCurrent(c) /\ pc = "execute" /\ pc' = "read" /\ UNCHANGED <<running, kind, tries>>
    BY <1>17 DEF Write, CanWrite
  <2>2. /\ c.success = Current.success /\ c.Response = Current.Response
        /\ c.given = Current.given /\ c.done = Current.done
    BY <1>a, NewFieldsFacts
  <2> HIDE DEF c
  <2>3. Fresh(cmd')
    BY <2>1, <2>2 DEF SetCurrent, Current, CommandInv, Fresh
  <2> QED BY <2>1, <2>3 DEF CommandInv, Retryable
<1>18. ASSUME pc = "read", running # "app", UNCHANGED <<cmd, running, kind, tries>>,
              pc' \in {"read", "classify"}
       PROVE  CommandInv'
  BY <1>18 DEF CommandInv, Retryable
<1>19. ASSUME NEW m, m.msg \in {Nil} \cup Bodies, NEW cbErr \in Verdicts,
              Handle(m, cbErr), pc = "read", UNCHANGED <<kind, running, tries>>
       PROVE  CommandInv'
  <2>1. pc' \in {"read", "classify"}
    BY <1>19, HandleOutcome DEF Outcome
  <2>2. CASE running # "app"
    BY <1>18, <1>19, <2>1, <2>2, SetupOutcome
  <2>3. CASE running = "app"
    <3>1. /\ pc' = "read" => ~Retryable /\ err' = "nil"
          /\ pc' # "read" /\ err' # "nil" =>
               /\ ~cmd'.success /\ cmd'.error = err'
               /\ Retryable => cmd'.Response = cmd.Response /\ cmd'.given = cmd.given
                               /\ cmd'.done = cmd.done
      BY <1>19, <2>3, OutcomeFacts
    <3>2. Retryable /\ pc' # "read" /\ err' # "nil" => Fresh(cmd')
      BY <1>19, <2>3, <3>1 DEF CommandInv, Fresh
    <3> QED BY <1>19, <2>1, <2>3, <3>1, <3>2 DEF CommandInv, Retryable
  <2> QED BY <2>2, <2>3
<1>20. CASE ReadMessage
  <2>1. PICK cbErr \in CallbackErrors : Handle(Head(wire), cbErr)
    BY <1>20 DEF ReadMessage
  <2>2. cbErr \in Verdicts
    BY DEF CallbackErrors, Verdicts
  <2>3. Head(wire).msg \in {Nil} \cup Bodies
    BY <1>20, WireFacts DEF ReadMessage
  <2> QED BY <1>19, <1>20, <2>1, <2>2, <2>3 DEF ReadMessage
<1>21. ASSUME NEW e \in Outcomes, ExecuteReturns(onError(Current, e), e), pc = "read",
              UNCHANGED <<kind, running, tries>>
       PROVE  CommandInv'
  <2> DEFINE c == onError(Current, e)
  <2>1. /\ c.success = FALSE /\ c.error = e /\ c.done = Current.done
        /\ c.Response = Current.Response /\ c.given = Current.given
    BY <1>a, OnErrorFacts
  <2>2. err' = e /\ pc' = "classify" /\ (running = "app" => cmd' = c)
        /\ (running # "app" => UNCHANGED cmd)
    BY <1>21, ReturnsFacts
  <2> HIDE DEF c
  <2>3. CASE running # "app"
    BY <1>18, <1>21, <2>2, <2>3
  <2>4. CASE running = "app"
    <3>1. Retryable => Fresh(cmd')
      BY <1>21, <2>1, <2>2, <2>4 DEF CommandInv, Current, Fresh
    <3> QED BY <1>21, <2>1, <2>2, <2>4, <3>1 DEF CommandInv, Retryable
  <2> QED BY <2>3, <2>4
<1>22. CASE ReadFails
  <2>1. PICK e \in {"temp", "net"} : ExecuteReturns(onError(Current, e), e)
    BY <1>22 DEF ReadFails
  <2> QED BY <1>21, <1>22, <2>1 DEF ReadFails, Outcomes
<1>23. CASE ReadGarbage
  <2>1. CASE ReadReturns(onError(Current, "plain"), "plain")
    BY <1>21, <1>23, <2>1 DEF ReadGarbage, ReadReturns, Outcomes
  <2>2. CASE \E m \in Garbage(Traits(RunKind, Current.f).resp) : Handle(m, "nil")
    <3>1. PICK m \in Garbage(Traits(RunKind, Current.f).resp) : Handle(m, "nil")
      BY <2>2
    <3>2. m.msg \in Bodies
      BY GarbageFacts
    <3> QED BY <1>19, <1>23, <3>1, <3>2 DEF ReadGarbage, Verdicts
  <2> QED BY <1>23, <2>1, <2>2 DEF ReadGarbage
<1>24. CASE NodeDone
  <2>1. /\ pc = "classify" /\ running = "app" /\ tries >= 1 /\ UNCHANGED <<kind, running, err>>
    BY <1>24 DEF NodeDone, TypeInv
  <2>2. CASE err = "nil"
    BY <1>24, <2>1, <2>2 DEF NodeDone, CommandInv, Retryable
  <2>3. CASE err # "nil"
    <3>1. RetryOrGiveUp
      BY <1>24, <2>3 DEF NodeDone
    <3>2. /\ tries' = tries - 1 /\ cmd'.success = cmd.success /\ cmd'.Response = cmd.Response
          /\ cmd'.given = cmd.given /\ cmd'.done = cmd.done /\ pc' \in {"cluster", "finished"}
          /\ pc' = "cluster" => tries > 1
          /\ pc' = "finished" => cmd'.error = cmd.error
      BY <2>1, <3>1, RetryFacts
    <3>3. pc' = "cluster" => Fresh(cmd')
      BY <1>a, <2>1, <2>3, <3>2 DEF CommandInv, Fresh
    <3> QED BY <1>a, <2>1, <2>3, <3>2, <3>3 DEF CommandInv, Retryable
  <2> QED BY <2>2, <2>3
<1> QED BY <1>2, <1>3, <1>4, <1>5, <1>6, <1>7, <1>9, <1>10, <1>11, <1>13, <1>15, <1>16, <1>17,
           <1>20, <1>22, <1>23, <1>24 DEF Next, Idle
-----------------------------------------------------------------------------
(* The connection stays in step with Riak. *)

\* Whether a message ends a stream: t are the traits of command k with the fields f,
\* d is the command that onSuccess has made of it.
LEMMA StreamDone ==
  ASSUME NEW k \in DOMAIN Commands, NEW f, NEW d, d.f = f
  PROVE  LET t == Traits(k, f)
         IN /\ isDone(k, d) /\ Streams(t.req, f) =>
                 (t.isDone # "none" /\ d.done) \/ (k = "TsQuery" /\ IsTrue(f, "Stream"))
            /\ ~isDone(k, d) => Streams(t.req, f) /\ t.isDone # "none" /\ ~d.done
            /\ Streams(t.req, f) => t.body = TRUE
<1> DEFINE t == Traits(k, f)
<1>1. TraitsOf(k, t)
  BY TraitsFacts
<1>2. /\ t.isDone = "none" => isDone(k, d)
      /\ t.isDone = "always" => (isDone(k, d) <=> d.done)
      /\ t.isDone = "asked" => (isDone(k, d) <=> (IsTrue(f, "Stream") => d.done))
  BY DEF isDone
<1> HIDE DEF t
<1>3. /\ isDone(k, d) /\ Streams(t.req, f) =>
           (t.isDone # "none" /\ d.done) \/ (k = "TsQuery" /\ IsTrue(f, "Stream"))
      /\ ~isDone(k, d) => Streams(t.req, f) /\ t.isDone # "none" /\ ~d.done
  BY <1>1, <1>2 DEF TraitsOf, Streams, AlwaysStreamed, StreamedIfAsked
<1>4. Streams(t.req, f) => t.body = TRUE
  BY <1>1 DEF TraitsOf, Streams, AlwaysStreamed, StreamedIfAsked
<1> QED BY <1>3, <1>4 DEF t

\* A read that leaves nothing behind.
LEMMA CleanRead ==
  ASSUME TypeInv, pc = "read", NEW m, m.msg \in {Nil} \cup Bodies,
         NEW cbErr \in Verdicts, Handle(m, cbErr), Leftover(m, err') = {},
         m.code \in {Traits(RunKind, Current.f).resp, "RpbErrorResp"}
  PROVE  LET t == Traits(RunKind, Current.f)
             r == onSuccess(RunKind, Current, Parsed(m), cbErr)
         IN \/ /\ m.code = "RpbErrorResp" /\ err' = "riak" /\ pc' = "classify"
               /\ conn' = [conn EXCEPT !.inFlight = FALSE]
            \/ err' \in {"plain", "temp"} /\ pc' = "classify"
            \/ /\ m.code = t.resp /\ r.err = "nil" /\ SetCurrent(r.cmd) /\ err' = "nil"
               /\ pc' = "classify" /\ conn' = [conn EXCEPT !.inFlight = FALSE]
               /\ Streams(t.req, Current.f) => m.msg \in Bodies /\ m.msg.done /\ t.isDone # "none"
            \/ /\ m.code = t.resp /\ r.err = "nil" /\ SetCurrent(r.cmd)
               /\ UNCHANGED <<pc, err, conn>> /\ Streams(t.req, Current.f)
               /\ m.msg \in Bodies /\ ~m.msg.done /\ t.isDone # "none"
<1> DEFINE k == RunKind
           t == Traits(k, Current.f)
           r == onSuccess(k, Current, Parsed(m), cbErr)
           d == r.cmd
<1>1. PICK c : Outcome(m, cbErr, c) /\ SetCurrent(c)
  BY HandleOutcome
<1>2. OnSuccessFacts(k, t, Current, Parsed(m), cbErr, r)
  BY HandleOutcome
<1>3. k \in DOMAIN Commands /\ t.resp # "RpbErrorResp"
  BY CurrentFacts DEF TraitsOf
<1>4. d.f = Current.f /\ r.err \in {"nil", cbErr}
  BY <1>2 DEF OnSuccessFacts, Effect
<1>5. /\ isDone(k, d) /\ Streams(t.req, Current.f) =>
           (t.isDone # "none" /\ d.done) \/ (k = "TsQuery" /\ IsTrue(Current.f, "Stream"))
      /\ ~isDone(k, d) => Streams(t.req, Current.f) /\ t.isDone # "none" /\ ~d.done
      /\ Streams(t.req, Current.f) => t.body = TRUE
  <2>1. k \in DOMAIN Commands /\ d.f = Current.f
    BY <1>3, <1>4
  <2> HIDE DEF d, k
  <2> QED BY <2>1, StreamDone
<1>6. Streams(t.req, Current.f) => Parsed(m) = m.msg
  BY <1>5 DEF Parsed
<1>7. t.isDone # "none" => (d.done <=> Parsed(m) = Nil \/ Parsed(m).done)
  BY <1>2 DEF OnSuccessFacts, StreamEffect
<1>8. /\ ~(k = "TsQuery" /\ IsTrue(Current.f, "Stream"))
      /\ Streams(t.req, Current.f) => m.msg # Nil \/ m.code = "RpbErrorResp"
      /\ err' \in {"riak", "client"} => m.code # t.resp
  BY DEF Leftover
<1> HIDE DEF k, t, r, d
<1>9. CASE m.code # t.resp
  BY <1>1, <1>3, <1>9 DEF Outcome, t, k
<1>10. CASE m.code = t.resp /\ r.err # "nil" /\ err' = r.err /\ pc' = "classify"
  BY <1>4, <1>8, <1>10 DEF Verdicts
<1>11. CASE /\ m.code = t.resp /\ r.err = "nil" /\ isDone(k, d) /\ err' = "nil"
            /\ c = d /\ pc' = "classify" /\ conn' = [conn EXCEPT !.inFlight = FALSE]
  <2>1. Streams(t.req, Current.f) => m.msg \in Bodies /\ m.msg.done /\ t.isDone # "none"
    BY <1>3, <1>5, <1>6, <1>7, <1>8, <1>11
  <2> QED BY <1>1, <1>11, <2>1 DEF t, k, r, d
<1>12. CASE m.code = t.resp /\ r.err = "nil" /\ ~isDone(k, d) /\ c = d /\ UNCHANGED <<pc, err, conn>>
  <2>1. /\ Streams(t.req, Current.f) /\ m.msg \in Bodies /\ ~m.msg.done /\ t.isDone # "none"
    BY <1>3, <1>5, <1>6, <1>7, <1>8, <1>12
  <2> QED BY <1>1, <1>12, <2>1 DEF t, k, r, d
<1> QED BY <1>1, <1>9, <1>10, <1>11, <1>12 DEF Outcome, k, t, r, d

LEMMA CurrentNext ==
  ASSUME NEW c, SetCurrent(c), UNCHANGED <<running, kind>>
  PROVE  Current' = c /\ RunKind' = RunKind
  BY DEF SetCurrent, Current, RunKind

\* What is left of an answer after a message, and after the last one.
LEMMA TailRest ==
  ASSUME NEW w \in Seq(Messages), w # <<>>, NEW t, NEW f, RestOfAnswer(w, t, f)
  PROVE  /\ RestOfAnswer(Tail(w), t, f)
         /\ ~Streams(t.req, f) \/ Ends(Head(w)) => Tail(w) = <<>>
<1>1. /\ Tail(w) \in Seq(Messages) /\ Len(Tail(w)) = Len(w) - 1 /\ Len(w) \in Nat /\ Len(w) >= 1
      /\ DOMAIN Tail(w) = 1..(Len(w) - 1) /\ DOMAIN w = 1..Len(w) /\ Head(w) = w[1]
  OBVIOUS
<1>2. \A i \in DOMAIN Tail(w) : i + 1 \in DOMAIN w /\ Tail(w)[i] = w[i + 1]
  BY <1>1
<1>3. \A i \in DOMAIN Tail(w) : Tail(w)[i].code \in {t.resp, "RpbErrorResp"}
  BY <1>2 DEF RestOfAnswer
<1>4. Streams(t.req, f) => \A i \in DOMAIN Tail(w) : Ends(Tail(w)[i]) => i = Len(Tail(w))
  <2> SUFFICES ASSUME Streams(t.req, f), NEW i \in DOMAIN Tail(w), Ends(Tail(w)[i])
               PROVE  i = Len(Tail(w))
    OBVIOUS
  <2>1. i + 1 = Len(w)
    BY <1>2 DEF RestOfAnswer
  <2> QED BY <1>1, <2>1
<1>5. ~Streams(t.req, f) \/ Ends(Head(w)) => Len(w) = 1
  BY <1>1 DEF RestOfAnswer
<1>6. Len(w) = 1 => Tail(w) = <<>>
  BY <1>1
<1> QED BY <1>1, <1>3, <1>4, <1>5, <1>6 DEF RestOfAnswer

LEMMA AnswerRest ==
  ASSUME NEW t, NEW f, NEW a, NEW s, IsAnswer(t, f, a, s)
  PROVE  RestOfAnswer(s, t, f)
<1>1. ~Streams(t.req, f) => Len(s) = 1
  BY DEF IsAnswer
<1>2. ~Streams(t.req, f) => Len(s) <= 1
  BY <1>1
<1> QED BY <1>2 DEF IsAnswer, RestOfAnswer

LEMMA AvailableFacts ==
  ASSUME TypeInv
  PROVE  LET closed == [conn EXCEPT !.inFlight = FALSE]
             opened == [conn EXCEPT !.inFlight = TRUE]
             active == [conn EXCEPT !.state = connActive]
             authed == [conn EXCEPT !.state = connActive, !.authed = TRUE]
         IN /\ available(closed) <=> available(conn)
            /\ available(opened) <=> available(conn)
            /\ available(conn) => available(active) /\ available(authed)
            /\ closed.inFlight = FALSE /\ active.inFlight = conn.inFlight
            /\ authed.inFlight = conn.inFlight
<1>1. conn \in Connections
  BY DEF TypeInv, TypeOK, Connections, ConnStates
<1> QED BY <1>1 DEF Connections, available, connActive, connInactive

LEMMA SyncStep == TypeInv /\ SyncInv /\ [Next]_vars => SyncInv'
<1> SUFFICES ASSUME TypeInv, SyncInv, [Next]_vars PROVE SyncInv'
  OBVIOUS
<1>a. ~available(NoConn) /\ NoConn.inFlight = FALSE
  BY NotAvailable DEF NoConn
<1> USE DEF app, sock
<1>1. CASE WithOption \/ Build
  BY <1>1 DEF WithOption, Build, Submit, SyncInv, Quiet, available
<1>2. CASE UNCHANGED vars
  BY <1>2 DEF vars, SyncInv, Quiet, available, Current, RunKind
<1>3. CASE ReuseBuilder
  <2>1. UNCHANGED <<kind, aux, running, pc, err, conn, wire>> /\ (spoilt' = {} => spoilt = {})
    BY <1>3, ReuseFacts DEF ReuseBuilder
  <2>2. ASSUME pc = "read", spoilt' = {}
        PROVE  RestOfAnswer(wire', Traits(RunKind', Current'.f), Current'.f)
    <3>1. RestOfAnswer(wire, Traits(RunKind, Current.f), Current.f)
      BY <2>1, <2>2 DEF SyncInv
    <3>2. CASE running # "app"
      <4>1. Current' = Current /\ RunKind' = RunKind
        BY <2>1, <3>2 DEF Current, RunKind
      <4> QED BY <2>1, <3>1, <4>1
    <3>3. CASE running = "app"
      <4>1. Current' = cmd' /\ Current = cmd /\ RunKind' = kind /\ RunKind = kind
        BY <2>1, <3>3 DEF Current, RunKind
      <4>2. /\ Traits(kind, cmd'.f) = Traits(kind, cmd.f)
            /\ \A req : Streams(req, cmd'.f) <=> Streams(req, cmd.f)
        BY <1>3, <2>2, <3>3, ReuseFacts
      <4> QED BY <2>1, <3>1, <4>1, <4>2 DEF RestOfAnswer
    <3> QED BY <3>2, <3>3
  <2> QED BY <2>1, <2>2 DEF SyncInv, Quiet, available
<1>4. CASE GetPooled
  BY <1>4 DEF GetPooled, StartRunning, SyncInv, Quiet, available
<1>5. CASE Connect
  <2>1. /\ available([NoConn EXCEPT !.open = TRUE, !.state = connTlsStarting])
        /\ available([NoConn EXCEPT !.open = TRUE, !.state = connActive])
        /\ [NoConn EXCEPT !.open = TRUE, !.state = connTlsStarting].inFlight = FALSE
        /\ [NoConn EXCEPT !.open = TRUE, !.state = connActive].inFlight = FALSE
    BY DEF available, NoConn, connTlsStarting, connActive, connInactive
  <2>2. available(conn') /\ conn'.inFlight = FALSE /\ wire' = <<>> /\ pc' = "execute"
    BY <1>5, <2>1 DEF Connect, StartRunning
  <2> QED BY <2>2 DEF SyncInv, Quiet, available
<1>6. ASSUME NEW e, NoConnection(e) PROVE SyncInv'
  <2>1. conn' = NoConn /\ pc' \in {"cluster", "finished"}
    BY <1>6 DEF NoConnection, RetryOrGiveUp
  <2> QED BY <1>a, <2>1 DEF SyncInv, Quiet, available
<1>7. CASE DialFails
  BY <1>6, <1>7 DEF DialFails
<1>8. CASE SetupFails
  BY <1>6, <1>8 DEF SetupFails
<1>9. CASE SetupStep
  <2>1. available(conn) /\ (spoilt = {} => Quiet)
    BY <1>9 DEF SetupStep, SyncInv
  <2>2. CASE NoConnection("plain")
    BY <1>6, <2>2
  <2>3. CASE /\ pc' = "execute" /\ available(conn') /\ conn'.inFlight = conn.inFlight
             /\ UNCHANGED <<wire, spoilt>>
    BY <2>1, <2>3 DEF SyncInv, Quiet, available
  <2>4. CASE StartRunning("Auth", conn) /\ UNCHANGED <<wire, spoilt>>
    BY <2>1, <2>3, <2>4 DEF StartRunning
  <2>5. CASE /\ StartRunning("app", [conn EXCEPT !.state = connActive, !.authed = TRUE])
             /\ UNCHANGED <<wire, spoilt>>
    BY <2>1, <2>3, <2>5, AvailableFacts DEF StartRunning
  <2> QED BY <1>9, <2>2, <2>4, <2>5 DEF SetupStep
<1>10. CASE ListingRefused
  <2>1. pc = "execute" /\ pc' = "classify" /\ UNCHANGED sock
    BY <1>10 DEF ListingRefused, ExecuteReturns
  <2> QED BY <2>1 DEF SyncInv, Quiet, available
<1>11. CASE ConstructPanics \/ ReadZeroLength \/ CallbackPanics
  BY <1>11 DEF ConstructPanics, ReadZeroLength, CallbackPanics, SyncInv
<1>12. CASE MarshalFails \/ WriteFails \/ ReadFails
  <2>1. pc' = "classify" /\ err' \in {"plain", "temp", "net"}
    BY <1>12 DEF MarshalFails, WriteFails, ReadFails, ExecuteReturns
  <2> QED BY <2>1 DEF SyncInv
<1>13. CASE Write
  <2> DEFINE f == constructPbRequest(RunKind, Current.f)
             t == Traits(RunKind, f)
  <2>1. PICK a \in RiakAnswers(t, f, Attempt) : wire' = wire \o a
    BY <1>13 DEF Write
  <2>2. IsAnswer(t, f, Attempt, a)
    BY CurrentFacts, AttemptNat, RiakAnswersFacts
  <2>3. RestOfAnswer(a, t, f)
    BY <2>2, AnswerRest
  <2>4. spoilt = {} => wire' = a
    <3>1. spoilt = {} => wire = <<>>
      BY <1>13 DEF Write, CanWrite, SyncInv, Quiet
    <3>2. <<>> \o a = a
      BY <2>2, ConcatEmptySeq DEF IsAnswer
    <3> QED BY <2>1, <3>1, <3>2
  <2>5. Current'.f = f /\ RunKind' = RunKind
    <3>1. SetCurrent([Current EXCEPT !.f = f]) /\ UNCHANGED <<running, kind>>
      BY <1>13 DEF Write
    <3>2. IsCommand(Current) /\ [Current EXCEPT !.f = f].f = f
      BY CurrentFacts, NewFieldsFacts
    <3> QED BY <3>1, <3>2, CurrentNext
  <2>6. spoilt = {} => RestOfAnswer(wire', Traits(RunKind', Current'.f), Current'.f)
    BY <2>3, <2>4, <2>5
  <2>7. available(conn') /\ pc' = "read" /\ UNCHANGED spoilt
    BY <1>13, AvailableFacts DEF Write, CanWrite, SyncInv
  <2> QED BY <2>6, <2>7 DEF SyncInv, available
<1>14. ASSUME NEW m, NEW cbErr, Handle(m, cbErr), pc = "read"
       PROVE  available(conn')
  BY <1>14, AvailableFacts DEF Handle, ReadReturns, SyncInv
<1>15. CASE ReadMessage
  <2>1. PICK cbErr \in CallbackErrors :
          Handle(Head(wire), cbErr) /\ spoilt' = spoilt \cup Leftover(Head(wire), err')
    BY <1>15 DEF ReadMessage
  <2>2. available(conn')
    BY <1>14, <1>15, <2>1 DEF ReadMessage
  <2>3. CASE spoilt' # {}
    BY <2>2, <2>3 DEF SyncInv, available
  <2>4. CASE spoilt' = {}
    <3> DEFINE m == Head(wire)
               t == Traits(RunKind, Current.f)
    <3>1. /\ spoilt = {} /\ Leftover(m, err') = {} /\ wire # <<>> /\ pc = "read"
          /\ wire' = Tail(wire) /\ UNCHANGED <<running, kind>>
      BY <1>15, <2>1, <2>4 DEF ReadMessage
    <3>2. RestOfAnswer(wire, t, Current.f)
      BY <3>1 DEF SyncInv
    <3>3. /\ m \in Messages /\ m = wire[1] /\ m.msg \in {Nil} \cup Bodies
          /\ wire \in Seq(Messages) /\ 1 \in DOMAIN wire
      BY <3>1, WireFacts DEF TypeInv
    <3>4. m.code \in {t.resp, "RpbErrorResp"}
      BY <3>2, <3>3 DEF RestOfAnswer
    <3>5. /\ RestOfAnswer(wire', t, Current.f)
          /\ ~Streams(t.req, Current.f) \/ Ends(m) => wire' = <<>>
      BY <3>1, <3>2, <3>3, TailRest
    <3>6. cbErr \in Verdicts
      BY DEF CallbackErrors, Verdicts
    <3>7. PICK c : SetCurrent(c) /\ c.f = Current.f
      BY <2>1, <3>3, <3>6, HandleOutcome
    <3>8. Current'.f = Current.f /\ RunKind' = RunKind
      BY <3>1, <3>7, CurrentNext
    <3>9. \/ /\ m.code = "RpbErrorResp" /\ err' = "riak" /\ pc' = "classify"
             /\ conn' = [conn EXCEPT !.inFlight = FALSE]
          \/ err' \in {"plain", "temp"} /\ pc' = "classify"
          \/ /\ err' = "nil" /\ pc' = "classify" /\ conn' = [conn EXCEPT !.inFlight = FALSE]
             /\ Streams(t.req, Current.f) => m.msg \in Bodies /\ m.msg.done
          \/ UNCHANGED <<pc, err, conn>>
      BY <2>1, <3>1, <3>3, <3>4, <3>6, CleanRead
    <3> HIDE DEF m
    <3>10. CASE err' \in {"plain", "temp"} /\ pc' = "classify"
      BY <3>10 DEF SyncInv
    <3>11. CASE UNCHANGED <<pc, err, conn>>
      <4>1. RestOfAnswer(wire', Traits(RunKind', Current'.f), Current'.f)
        BY <3>5, <3>8
      <4> QED BY <2>2, <3>1, <3>11, <4>1 DEF SyncInv, available
    <3>12. CASE /\ pc' = "classify" /\ conn' = [conn EXCEPT !.inFlight = FALSE]
                /\ ~Streams(t.req, Current.f) \/ Ends(m)
      <4>1. conn'.inFlight = FALSE
        BY <3>12, AvailableFacts
      <4> QED BY <2>2, <3>5, <3>12, <4>1 DEF SyncInv, Quiet, available
    <3>13. m.msg \in Bodies /\ m.msg.done => Ends(m)
      BY BodyNotNil DEF Ends
    <3> QED BY <3>9, <3>10, <3>11, <3>12, <3>13 DEF Ends
  <2> QED BY <2>3, <2>4
<1>16. CASE RetryRead
  <2>1. /\ pc = "read" /\ UNCHANGED <<cmd, aux, running, kind, pc, err, conn, wire>>
        /\ spoilt' = {} => spoilt = {}
    BY <1>16 DEF RetryRead
  <2>2. Current' = Current /\ RunKind' = RunKind
    BY <2>1 DEF Current, RunKind
  <2>3. spoilt' = {} => RestOfAnswer(wire', Traits(RunKind', Current'.f), Current'.f)
    BY <2>1, <2>2 DEF SyncInv
  <2> QED BY <2>1, <2>3 DEF SyncInv, available
<1>17. CASE ReadGarbage
  <2>1. available(conn')
    BY <1>14, <1>17, AvailableFacts DEF ReadGarbage, ReadReturns, SyncInv
  <2> QED BY <1>17, <2>1 DEF ReadGarbage, SyncInv, available
<1>18. CASE NodeDone
  <2>1. pc = "classify" /\ pc' \in {"cluster", "finished"}
    BY <1>18 DEF NodeDone, RetryOrGiveUp
  <2>2. CASE err \in {"nil", "riak", "client"}
    BY <1>18, <2>1, <2>2 DEF NodeDone, SyncInv, Quiet, available
  <2>3. CASE err \notin {"nil", "riak", "client"}
    <3>1. conn' = NoConn
      BY <1>18, <2>3 DEF NodeDone
    <3> QED BY <1>a, <2>1, <3>1 DEF SyncInv, Quiet, available
  <2> QED BY <2>2, <2>3
<1>19. CASE NextCommand
  <2>1. pc \in {"finished", "rejected"} /\ pc' = "cluster" /\ UNCHANGED sock
    BY <1>19 DEF NextCommand, Submit
  <2> QED BY <2>1 DEF SyncInv, Quiet, available
<1> QED BY <1>1, <1>2, <1>3, <1>4, <1>5, <1>7, <1>8, <1>9, <1>10, <1>11, <1>12, <1>13, <1>15,
           <1>16, <1>17, <1>18, <1>19 DEF Next, Idle

LEMMA SyncInit == Init => SyncInv
  BY NotAvailable DEF Init, SyncInv

\* A connection that the pool hands out, or that goes back to it, has no part of an
\* earlier answer on it and no command in flight, unless it is spoilt in one of the
\* five ways of InSync (a streamed TsQuery, a message without a body in a stream, a
\* RiakError or ClientError of a callback, a read retried in the middle of a message, a
\* stream switched on or off while it is read): whatever commands ran on it, however
\* their streams ended, were refused or failed.
THEOREM PooledInSync == Spec => []InSync
<1>1. SyncInv => InSync
  BY DEF SyncInv, InSync, Quiet
<1> QED BY <1>1, TypeInit, TypeStep, SyncInit, SyncStep, PTL DEF Spec
-----------------------------------------------------------------------------
(* The place of a value. *)

\* A read without an error leaves the application's command as onSuccess made it.
LEMMA NilOutcome ==
  ASSUME TypeInv, pc = "read", NEW m, m.msg \in {Nil} \cup Bodies,
         NEW cbErr \in Verdicts, Handle(m, cbErr), running = "app", err' = "nil"
  PROVE  LET r == onSuccess(kind, cmd, Parsed(m), cbErr)
         IN /\ cmd' = r.cmd /\ r.err = "nil"
            /\ OnSuccessFacts(kind, Traits(kind, cmd.f), cmd, Parsed(m), cbErr, r)
<1>1. RunKind = kind /\ Current = cmd
  BY DEF RunKind, Current
<1> DEFINE r == onSuccess(kind, cmd, Parsed(m), cbErr)
<1>2. OnSuccessFacts(kind, Traits(kind, cmd.f), cmd, Parsed(m), cbErr, r)
  BY <1>1, HandleOutcome
<1>3. PICK c : Outcome(m, cbErr, c) /\ SetCurrent(c)
  BY HandleOutcome
<1>4. c = r.cmd /\ r.err = "nil"
  BY <1>1, <1>3 DEF Outcome
<1>5. cmd' = c
  BY <1>3 DEF SetCurrent
<1> QED BY <1>2, <1>4, <1>5

LEMMA PlaceStep == TypeInv /\ CommandInv /\ PlaceInv /\ [Next]_vars => PlaceInv'
<1> SUFFICES ASSUME TypeInv, CommandInv, PlaceInv, [Next]_vars PROVE PlaceInv'
  OBVIOUS
<1> USE DEF app, sock
<1>1. CASE pc' \in {"building", "rejected", "cluster", "execute", "dead"}
  BY <1>1 DEF PlaceInv
<1>2. CASE err' # "nil" /\ pc' # "read"
  BY <1>2 DEF PlaceInv
<1>3. CASE running' # "app"
  BY <1>3 DEF PlaceInv
<1>4. CASE UNCHANGED <<pc, running, err, cmd, reused, sentTo>>
  BY <1>4 DEF PlaceInv, AnyPlace
<1>5. CASE WithOption \/ Build \/ NextCommand
  BY <1>1, <1>5 DEF WithOption, Build, NextCommand, Submit
<1>6. CASE ReuseBuilder
  <2>1. /\ pc \in {"cluster", "execute", "read"} /\ UNCHANGED <<pc, running, err, sentTo>>
        /\ cmd'.Response = cmd.Response /\ reused \subseteq reused'
        /\ "Key" \notin reused' => Place(cmd'.f) = Place(cmd.f)
    BY <1>6, ReuseFacts DEF ReuseBuilder
  <2>2. AnyPlace' = AnyPlace
    BY <2>1 DEF AnyPlace
  <2> QED BY <2>1, <2>2 DEF PlaceInv
<1>7. CASE GetPooled \/ Connect \/ ConstructPanics \/ ReadZeroLength \/ CallbackPanics
  BY <1>1, <1>7 DEF GetPooled, Connect, StartRunning, ConstructPanics, ReadZeroLength, CallbackPanics
<1>8. CASE DialFails \/ SetupFails
  <2>1. err' # "nil" /\ pc' # "read"
    BY <1>8 DEF DialFails, SetupFails, NoConnection, RetryOrGiveUp
  <2> QED BY <1>2, <2>1
<1>9. CASE SetupStep
  <2>1. pc' = "execute" \/ (err' = "plain" /\ pc' # "read")
    BY <1>9 DEF SetupStep, StartRunning, NoConnection, RetryOrGiveUp
  <2> QED BY <1>1, <1>2, <2>1
<1>10. CASE ListingRefused \/ MarshalFails \/ WriteFails \/ ReadFails
  <2>1. err' # "nil" /\ pc' # "read"
    BY <1>10 DEF ListingRefused, MarshalFails, WriteFails, ReadFails, ExecuteReturns
  <2> QED BY <1>2, <2>1
<1>11. CASE Write
  <2> DEFINE f == constructPbRequest(RunKind, Current.f)
             c == [Current EXCEPT !.f = f]
  <2>1. SetCurrent(c) /\ sentTo' = Place(f) /\ pc' = "read" /\ UNCHANGED running /\ pc = "execute"
    BY <1>11 DEF Write, CanWrite
  <2>2. IsCommand(Current)
    BY CurrentFacts
  <2>3. c.f = f /\ c.Response = Current.Response
    BY <2>2, NewFieldsFacts
  <2> HIDE DEF c, f
  <2>4. CASE running = "app"
    <3>1. cmd' = c /\ cmd.Response = NoResponse /\ Current = cmd
      BY <2>1, <2>4 DEF SetCurrent, CommandInv, Fresh, Current
    <3>2. cmd'.Response.set = FALSE
      BY <2>3, <3>1 DEF NoResponse
    <3> QED BY <2>1, <2>3, <3>1, <3>2 DEF PlaceInv, Located
  <2> QED BY <1>3, <2>1, <2>4
<1>12. ASSUME NEW m, m.msg \in {Nil} \cup Bodies, NEW cbErr \in Verdicts,
              Handle(m, cbErr), pc = "read", UNCHANGED <<running, reused, sentTo>>
       PROVE  PlaceInv'
  <2>1. pc' \in {"read", "classify"} /\ (pc' = "read" => err' = "nil")
    BY <1>12, HandleOutcome DEF Outcome, TypeInv
  <2> SUFFICES ASSUME running = "app", err' = "nil", "Key" \notin reused PROVE PlaceInv'
    BY <1>2, <1>3, <1>12, <2>1 DEF PlaceInv
  <2> DEFINE r == onSuccess(kind, cmd, Parsed(m), cbErr)
  <2>2. cmd' = r.cmd /\ Effect(cmd, Parsed(m), cbErr, r)
    BY <1>12, NilOutcome DEF OnSuccessFacts
  <2> HIDE DEF r
  <2>3. Place(cmd.f) = sentTo /\ Located(cmd.Response, AnyPlace)
    BY <1>12 DEF PlaceInv
  <2>4. Places(cmd) = AnyPlace
    BY <2>3 DEF Places, AnyPlace
  <2>5. Located(cmd'.Response, AnyPlace) /\ cmd'.f = cmd.f
    BY <2>2, <2>3, <2>4 DEF Effect, Located
  <2>6. AnyPlace' = AnyPlace
    BY <1>12 DEF AnyPlace
  <2>7. Place(cmd'.f) = sentTo'
    BY <1>12, <2>3, <2>5
  <2>8. Located(cmd'.Response, AnyPlace')
    BY <2>5, <2>6
  <2> QED BY <2>1, <2>7, <2>8 DEF PlaceInv
<1>13. CASE ReadMessage
  <2>1. PICK cbErr \in CallbackErrors : Handle(Head(wire), cbErr)
    BY <1>13 DEF ReadMessage
  <2>2. cbErr \in Verdicts
    BY DEF CallbackErrors, Verdicts
  <2>3. Head(wire).msg \in {Nil} \cup Bodies
    BY <1>13, WireFacts DEF ReadMessage
  <2> QED BY <1>12, <1>13, <2>1, <2>2, <2>3 DEF ReadMessage
<1>14. CASE ReadGarbage
  <2>1. CASE ReadReturns(onError(Current, "plain"), "plain")
    BY <1>2, <2>1 DEF ReadReturns, ExecuteReturns
  <2>2. CASE \E m \in Garbage(Traits(RunKind, Current.f).resp) : Handle(m, "nil")
    <3>1. PICK m \in Garbage(Traits(RunKind, Current.f).resp) : Handle(m, "nil")
      BY <2>2
    <3>2. m.msg \in Bodies
      BY GarbageFacts
    <3> QED BY <1>12, <1>14, <3>1, <3>2 DEF ReadGarbage, Verdicts
  <2> QED BY <1>14, <2>1, <2>2 DEF ReadGarbage
<1>15. CASE RetryRead \/ UNCHANGED vars
  BY <1>4, <1>15 DEF RetryRead, vars
<1>16. CASE NodeDone
  <2>1. pc = "classify" /\ running = "app" /\ UNCHANGED <<running, err, reused, sentTo>>
    BY <1>16 DEF NodeDone
  <2>2. CASE err = "nil"
    <3>1. pc' = "finished" /\ UNCHANGED cmd
      BY <1>16, <2>2 DEF NodeDone
    <3> QED BY <2>1, <2>2, <3>1 DEF PlaceInv, AnyPlace
  <2>3. CASE err # "nil"
    <3>1. pc' # "read"
      BY <1>16, <2>3 DEF NodeDone, RetryOrGiveUp
    <3> QED BY <1>2, <2>1, <2>3, <3>1
  <2> QED BY <2>2, <2>3
<1> QED BY <1>5, <1>6, <1>7, <1>8, <1>9, <1>10, <1>11, <1>13, <1>14, <1>15, <1>16 DEF Next, Idle

LEMMA CommandInit == Init => CommandInv
  BY DEF Init, CommandInv

\* The place that a finished command's value names is the one the request went to, or
\* that place with the key that Riak made, unless the application gave the builder,
\* which shares the message, another key while the command was on its way.
THEOREM ValuesLocated == Spec => []ResponseLocated
<1>1. Init => PlaceInv
  BY DEF Init, PlaceInv
<1>2. TypeInv /\ PlaceInv => ResponseLocated
  BY DEF TypeInv, PlaceInv, ResponseLocated, Located, AnyPlace
<1> QED BY <1>1, <1>2, TypeInit, TypeStep, CommandInit, CommandStep, PlaceStep, PTL DEF Spec
-----------------------------------------------------------------------------
(* What the application receives. *)

LEMMA LenOfDomain ==
  ASSUME NEW S, NEW s \in Seq(S), NEW n \in Nat, DOMAIN s = 1..n
  PROVE  Len(s) = n
<1>1. Len(s) \in Nat /\ 1..Len(s) = 1..n
  BY LenProperties
<1>2. Len(s) <= n
  <2>1. Len(s) >= 1 => Len(s) \in 1..n
    BY <1>1
  <2> QED BY <1>1, <2>1
<1>3. n <= Len(s)
  <2>1. n >= 1 => n \in 1..Len(s)
    BY <1>1
  <2> QED BY <1>1, <2>1
<1> QED BY <1>1, <1>2, <1>3

LEMMA ItemsAppend ==
  ASSUME NEW a \in Nat, NEW p \in Nat
  PROVE  /\ Items(a, 1, p) \in Seq(Item) /\ Items(a, 1, 0) = <<>>
         /\ Items(a, p + 1, p + 1) # <<>>
         /\ Items(a, 1, p) \o Items(a, p + 1, p + 1) = Items(a, 1, p + 1)
<1> DEFINE u == Items(a, 1, p)
           v == Items(a, p + 1, p + 1)
           z == Items(a, 1, p + 1)
<1>1. u \in Seq(Item) /\ v \in Seq(Item) /\ z \in Seq(Item)
  BY ItemsFacts
<1>2. /\ DOMAIN u = 1..p /\ \A i \in 1..p : u[i] = <<a, i>>
  BY DEF Items
<1>3. DOMAIN v = 1..1 /\ v[1] = <<a, p + 1>>
  BY DEF Items
<1>4. DOMAIN z = 1..(p + 1) /\ \A i \in 1..(p + 1) : z[i] = <<a, i>>
  BY DEF Items
<1>5. Items(a, 1, 0) = <<>>
  BY DEF Items
<1> HIDE DEF u, v, z
<1>6. Len(u) = p /\ Len(v) = 1 /\ Len(z) = p + 1
  <2>1. 1 \in Nat /\ p + 1 \in Nat
    OBVIOUS
  <2>2. Len(u) = p
    BY <1>1, <1>2, LenOfDomain
  <2>3. Len(v) = 1
    BY <1>1, <1>3, <2>1, LenOfDomain
  <2>4. Len(z) = p + 1
    BY <1>1, <1>4, <2>1, LenOfDomain
  <2> QED BY <2>2, <2>3, <2>4
<1>7. v # <<>>
  <2>1. Len(<<>>) = 0
    OBVIOUS
  <2> QED BY <1>6, <2>1
<1>8. u \o v = z
  <2> DEFINE x == u \o v
  <2>1. /\ x \in Seq(Item) /\ Len(x) = Len(u) + Len(v)
        /\ \A i \in 1..(Len(u) + Len(v)) : x[i] = IF i <= Len(u) THEN u[i] ELSE v[i - Len(u)]
    BY <1>1, ConcatProperties
  <2> HIDE DEF x
  <2>2. Len(x) = p + 1 /\ \A i \in 1..(p + 1) : x[i] = IF i <= p THEN u[i] ELSE v[i - p]
    BY <1>6, <2>1
  <2>3. \A i \in 1..(p + 1) : x[i] = z[i]
    <3> TAKE i \in 1..(p + 1)
    <3>1. CASE i <= p
      <4>1. i \in 1..p
        BY <3>1
      <4>2. u[i] = <<a, i>> /\ z[i] = <<a, i>>
        BY <1>2, <1>4, <4>1
      <4> QED BY <2>2, <3>1, <4>2
    <3>2. CASE ~(i <= p)
      <4>1. i = p + 1 /\ i - p = 1
        BY <3>2
      <4>2. x[i] = v[1] /\ z[i] = <<a, p + 1>>
        BY <1>4, <2>2, <3>2, <4>1
      <4> QED BY <1>3, <4>2
    <3> QED BY <3>1, <3>2
  <2>4. x = z
    BY <1>1, <1>6, <2>1, <2>2, <2>3, SeqEqual
  <2> QED BY <2>4 DEF x
<1> QED BY <1>1, <1>5, <1>7, <1>8 DEF u, v, z

\* All that Riak sends in stream s.
Whole(s, a) == Items(a, 1, Cardinality({i \in DOMAIN s : s[i].msg # Nil
                                                         /\ s[i].msg.items # <<>>}))

LEMMA WholeFacts ==
  ASSUME NEW s \in Seq(Messages), NEW a \in Nat, NEW n \in 0..Len(s), Shaped(n, s, a)
  PROVE  Whole(s, a) = Items(a, 1, n)
<1> DEFINE C == {i \in DOMAIN s : s[i].msg # Nil /\ s[i].msg.items # <<>>}
<1>1. n \in Nat /\ Len(s) \in Nat /\ n <= Len(s) /\ DOMAIN s = 1..Len(s)
  OBVIOUS
<1>2. \A i \in 1..n : Items(a, i, i) # <<>>
  <2> TAKE i \in 1..n
  <2>1. i - 1 \in Nat /\ (i - 1) + 1 = i
    BY <1>1
  <2> QED BY <2>1, ItemsAppend
<1>3. \A i \in 1..n : i \in C
  <2> TAKE i \in 1..n
  <2>1. i \in DOMAIN s
    BY <1>1
  <2>2. s[i].msg # Nil /\ s[i].msg.items = Items(a, i, i)
    BY DEF Shaped
  <2> QED BY <1>2, <2>1, <2>2
<1>4. \A i \in C : i \in 1..n
  <2> SUFFICES ASSUME NEW i \in C, i \notin 1..n PROVE FALSE
    OBVIOUS
  <2>1. i \in (n + 1)..Len(s)
    BY <1>1
  <2> QED BY <2>1 DEF Shaped
<1>5. C = 1..n
  BY <1>3, <1>4
<1>6. Cardinality(1..n) = n
  BY <1>1, FS_Interval
<1> QED BY <1>5, <1>6 DEF Whole

\* Before the first message.
LEMMA DeliveredFirst ==
  ASSUME NEW s \in Seq(Messages), NEW a \in Nat, NEW n \in 0..Len(s), Shaped(n, s, a), NEW on,
         NEW c, c.Response = NoResponse, c.given = <<>>
  PROVE  PartlyDelivered(s, s, a, on, c)
<1>1. s = SubSeq(s, 0 + 1, Len(s))
  BY SubSeqFull
<1>2. Channel(c, on) /\ Recv(c) = <<>>
  BY DEF Channel, Recv, NoResponse
<1>3. Items(a, 1, 0) = <<>>
  BY ItemsAppend
<1>4. Delivered(n, 0, s, s, a, on, c)
  BY <1>1, <1>2, <1>3 DEF Delivered
<1>5. 0 \in 0..Len(s)
  OBVIOUS
<1> QED BY <1>4, <1>5 DEF PartlyDelivered

\* A message with a body arrives, and command c becomes d.
Arrives(s, w, a, on, k, c, d) ==
  /\ s \in Seq(Messages) /\ a \in Nat /\ w # <<>>
  /\ PartlyDelivered(s, w, a, on, c)
  /\ Head(w).code # "RpbErrorResp" /\ Head(w).msg # Nil
  /\ Channel(d, on) /\ Recv(d) = Recv(c) \o ItemsFor(k, Head(w).msg)

Arrived(s, w, a, on, k, d) ==
  /\ ~Head(w).msg.done => PartlyDelivered(s, Tail(w), a, on, d)
  /\ Tail(w) = <<>> => \/ Recv(d) = Whole(s, a)
                       \/ k = "MapReduce" /\ Recv(d) = Append(Whole(s, a), NoData)

LEMMA DeliveredNext ==
  ASSUME NEW s, NEW w, NEW a, NEW on, NEW k, NEW c, NEW d, Arrives(s, w, a, on, k, c, d)
  PROVE  Arrived(s, w, a, on, k, d)
<1> USE DEF Arrives, Arrived
<1>1. PICK n \in 0..Len(s), p \in 0..Len(s) : Delivered(n, p, s, w, a, on, c)
  BY DEF PartlyDelivered
<1>2. n \in Nat /\ p \in Nat /\ Len(s) \in Nat /\ p <= n /\ n <= Len(s)
  BY <1>1 DEF Delivered
<1>3. Shaped(n, s, a) /\ w = SubSeq(s, p + 1, Len(s)) /\ Recv(c) = Items(a, 1, p)
  BY <1>1 DEF Delivered
<1>4. p + 1 <= Len(s)
  <2> SUFFICES ASSUME Len(s) < p + 1 PROVE FALSE
    BY <1>2
  <2>1. w = <<>>
    BY <1>2, <1>3, SubSeqEmpty
  <2> QED BY <2>1
<1>5. Head(w) = s[p + 1] /\ Tail(w) = SubSeq(s, (p + 1) + 1, Len(s))
  BY <1>2, <1>3, <1>4, HeadTailOfSubSeq
<1>6. Whole(s, a) = Items(a, 1, n)
  BY <1>3, WholeFacts
<1>7. CASE p < n
  <2>1. Head(w).msg.items = Items(a, p + 1, p + 1)
    BY <1>2, <1>3, <1>5, <1>7 DEF Shaped
  <2>2. ItemsFor(k, Head(w).msg) = Items(a, p + 1, p + 1)
    BY <1>2, <2>1, ItemsAppend DEF ItemsFor
  <2>3. Recv(d) = Items(a, 1, p + 1)
    BY <1>2, <1>3, <2>2, ItemsAppend
  <2>4. Delivered(n, p + 1, s, Tail(w), a, on, d)
    <3>1. p + 1 <= n
      BY <1>2, <1>7
    <3> QED BY <1>3, <1>5, <2>3, <3>1 DEF Delivered
  <2>5. p + 1 \in 0..Len(s)
    BY <1>2, <1>4
  <2>6. PartlyDelivered(s, Tail(w), a, on, d)
    BY <2>4, <2>5 DEF PartlyDelivered
  <2>7. Tail(w) = <<>> => p + 1 = n
    <3> SUFFICES ASSUME Tail(w) = <<>>, p + 1 < n PROVE FALSE
      BY <1>2, <1>7
    <3> DEFINE m == (p + 1) + 1
    <3>1. m \in 1..Len(s) /\ Len(s) \in m..Len(s)
      BY <1>2
    <3>2. SubSeq(s, m, Len(s)) # <<>>
      <4> HIDE DEF m
      <4>1. \A i \in m..Len(s) : s[i] \in Messages
        BY <3>1
      <4>2. Len(SubSeq(s, m, Len(s))) = Len(s) - m + 1
        BY <3>1, <4>1, SubSeqProperties
      <4>3. Len(s) - m + 1 # 0
        BY <3>1
      <4>4. Len(<<>>) = 0
        OBVIOUS
      <4>5. Len(SubSeq(s, m, Len(s))) # 0
        BY <4>2, <4>3
      <4> QED BY ONLY <4>4, <4>5, Zenon
    <3> QED BY <1>5, <3>2
  <2> QED BY <1>6, <2>3, <2>6, <2>7
<1>8. CASE p = n
  <2>1. Head(w).msg.items = <<>> /\ Head(w).msg.done
    BY <1>2, <1>3, <1>4, <1>5, <1>8 DEF Shaped
  <2>2. Items(a, 1, n) \in Seq(Item)
    BY <1>2, ItemsAppend
  <2>3. CASE k = "MapReduce"
    <3>1. Recv(d) = Items(a, 1, n) \o <<NoData>>
      BY <1>3, <1>8, <2>1, <2>3 DEF ItemsFor
    <3>2. Items(a, 1, n) \o <<NoData>> = Append(Items(a, 1, n), NoData)
      <4>1. NoData \in Item
        BY DEF NoData, Item
      <4> QED BY <2>2, <4>1, AppendIsConcat
    <3> QED BY <1>6, <2>1, <2>3, <3>1, <3>2
  <2>4. CASE k # "MapReduce"
    <3>1. Recv(d) = Items(a, 1, n) \o <<>>
      BY <1>3, <1>8, <2>1, <2>4 DEF ItemsFor
    <3>2. Items(a, 1, n) \o <<>> = Items(a, 1, n)
      BY <2>2, ConcatEmptySeq
    <3> QED BY <1>6, <2>1, <3>1, <3>2
  <2> QED BY <2>3, <2>4
<1>9. p < n \/ p = n
  BY <1>2
<1> QED BY <1>7, <1>8, <1>9

LEMMA GotNothing ==
  ASSUME NEW c, c.Response = NoResponse, c.given = <<>>
  PROVE  Got(c) = {}
  BY DEF Got, Range, NoResponse

LEMMA AnswerWrite ==
  ASSUME TypeInv, CommandInv, SyncInv, Write, running = "app", spoilt = {}
  PROVE  InProgress'
<1> DEFINE f == constructPbRequest(kind, cmd.f)
           t == Traits(kind, f)
           c == [cmd EXCEPT !.f = f]
<1>1. RunKind = kind /\ Current = cmd /\ IsCommand(cmd) /\ kind \in DOMAIN Commands
  BY CurrentFacts DEF RunKind, Current, TypeInv
<1>2. PICK a \in RiakAnswers(t, f, Attempt) : wire' = wire \o a /\ answer' = a
  BY <1>1 DEF Write
<1>3. cmd' = c /\ pc = "execute" /\ UNCHANGED <<kind, round, tries>>
  BY <1>1 DEF Write, CanWrite, SetCurrent, app
<1>4. c.f = f /\ c.Response = cmd.Response /\ c.given = cmd.given
  BY <1>1, NewFieldsFacts
<1>5. cmd.Response = NoResponse /\ cmd.given = <<>>
  BY <1>3 DEF CommandInv, Fresh
<1>6. IsAnswer(t, f, Attempt, a)
  BY <1>1, AttemptNat, RiakAnswersFacts
<1> HIDE DEF c, t
<1>7. wire' = a
  <2>1. wire = <<>>
    BY <1>3 DEF SyncInv, Quiet
  <2> QED BY <1>2, <1>6, <2>1, ConcatEmptySeq DEF IsAnswer
<1>8. Attempt' = Attempt
  BY <1>3 DEF Attempt
<1>9. Got(cmd') = {}
  BY <1>3, <1>4, <1>5, GotNothing
<1>10. \A i \in DOMAIN a : Carries(a[i].msg) \subseteq Ours(Attempt)
  BY <1>6 DEF IsAnswer
<1>11. Streams(t.req, f) => PartlyDelivered(a, a, Attempt, On(kind, f), c)
  <2> SUFFICES ASSUME Streams(t.req, f) PROVE PartlyDelivered(a, a, Attempt, On(kind, f), c)
    OBVIOUS
  <2>1. a \in Seq(Messages)
    BY <1>6 DEF IsAnswer
  <2>2. PICK n \in 0..Len(a) : Shaped(n, a, Attempt)
    BY <1>6 DEF IsAnswer
  <2> QED BY <1>4, <1>5, <2>1, <2>2, AttemptNat, DeliveredFirst
<1>12. Traits(kind', cmd'.f) = t /\ cmd'.f = f /\ On(kind', cmd'.f) = On(kind, f)
  BY <1>3, <1>4 DEF t
<1>13. IF Streams(Traits(kind', cmd'.f).req, cmd'.f)
         THEN PartlyDelivered(answer', wire', Attempt', On(kind', cmd'.f), cmd')
         ELSE wire' \in {<<>>, answer'}
  BY <1>2, <1>3, <1>7, <1>8, <1>11, <1>12
<1>14. \A i \in DOMAIN wire' : Carries(wire'[i].msg) \subseteq Ours(Attempt')
  BY <1>7, <1>8, <1>10
<1> QED BY <1>9, <1>13, <1>14 DEF InProgress, Own

LEMMA AnswerRead ==
  ASSUME TypeInv, SyncInv, AnswerInv, ReadMessage, running = "app", spoilt' = {}
  PROVE  AnswerInv'
<1> USE DEF app
<1> DEFINE m == Head(wire)
           t == Traits(kind, cmd.f)
           on == On(kind, cmd.f)
<1>1. PICK cbErr \in CallbackErrors :
        Handle(m, cbErr) /\ spoilt' = spoilt \cup Leftover(m, err')
  BY DEF ReadMessage
<1> DEFINE r == onSuccess(kind, cmd, Parsed(m), cbErr)
<1>2. /\ cbErr \in Verdicts /\ spoilt = {} /\ Leftover(m, err') = {}
      /\ wire # <<>> /\ pc = "read" /\ wire' = Tail(wire)
      /\ UNCHANGED <<kind, running, round, tries, answer>>
  BY <1>1 DEF ReadMessage, CallbackErrors, Verdicts
<1>3. RunKind = kind /\ Current = cmd
  BY DEF RunKind, Current
<1>4. /\ m \in Messages /\ m = wire[1] /\ m.msg \in {Nil} \cup Bodies
      /\ wire \in Seq(Messages) /\ 1 \in DOMAIN wire /\ answer \in Seq(Messages)
  BY <1>2, WireFacts DEF TypeInv
<1>5. RestOfAnswer(wire, t, cmd.f)
  BY <1>2, <1>3 DEF SyncInv
<1>6. m.code \in {t.resp, "RpbErrorResp"}
  BY <1>4, <1>5 DEF RestOfAnswer
<1>7. ~Streams(t.req, cmd.f) \/ Ends(m) => wire' = <<>>
  BY <1>2, <1>4, <1>5, TailRest
<1>8. InProgress
  BY <1>2 DEF AnswerInv
<1>9. t.resp # "RpbErrorResp"
  BY CurrentFacts DEF TraitsOf
<1>10. \/ err' \in {"riak", "plain", "temp"} /\ pc' = "classify"
       \/ /\ m.code = t.resp /\ err' = "nil" /\ pc' = "classify"
          /\ Streams(t.req, cmd.f) => m.msg \in Bodies /\ m.msg.done /\ t.isDone # "none"
       \/ /\ m.code = t.resp /\ UNCHANGED <<pc, err, conn>> /\ Streams(t.req, cmd.f)
          /\ m.msg \in Bodies /\ ~m.msg.done /\ t.isDone # "none"
  BY <1>1, <1>2, <1>3, <1>4, <1>6, CleanRead
<1>11. CASE err' \in {"riak", "plain", "temp"} /\ pc' = "classify"
  BY <1>11 DEF AnswerInv
<1>12. ASSUME err' = "nil"
       PROVE  /\ cmd' = r.cmd /\ r.err = "nil" /\ cmd'.f = cmd.f
              /\ OnSuccessFacts(kind, t, cmd, Parsed(m), cbErr, r)
  <2>1. /\ cmd' = r.cmd /\ r.err = "nil"
        /\ OnSuccessFacts(kind, t, cmd, Parsed(m), cbErr, r)
    BY <1>1, <1>2, <1>4, <1>12, NilOutcome
  <2> QED BY <2>1 DEF OnSuccessFacts, Effect
<1>13. Parsed(m) = IF t.body THEN m.msg ELSE Nil
  BY <1>3 DEF Parsed
<1> HIDE DEF r, t, on, m
<1>14. ASSUME err' = "nil"
       PROVE  Got(cmd') \subseteq Own \cup {Tombstone, NoData}
  <2>1. Got(cmd') \subseteq Got(cmd) \cup Carries(Parsed(m)) \cup {Tombstone, NoData}
    BY <1>12, <1>14 DEF OnSuccessFacts, Effect
  <2>2. Carries(m.msg) \subseteq Own
    BY <1>4, <1>8 DEF InProgress
  <2>3. Carries(Nil) = {}
    BY DEF Carries
  <2> QED BY <1>8, <1>13, <2>1, <2>2, <2>3 DEF InProgress
<1>15. ASSUME err' = "nil", m.code = t.resp, Streams(t.req, cmd.f), m.msg \in Bodies,
              t.isDone # "none"
       PROVE  /\ ~m.msg.done => PartlyDelivered(answer, wire', Attempt, on, cmd')
              /\ wire' = <<>> => \/ Recv(cmd') = Whole(answer, Attempt)
                                 \/ /\ kind = "MapReduce"
                                    /\ Recv(cmd') = Append(Whole(answer, Attempt), NoData)
  <2>1. PartlyDelivered(answer, wire, Attempt, on, cmd)
    BY <1>8, <1>15 DEF InProgress, t, on
  <2>2. Channel(cmd, on)
    BY <2>1 DEF PartlyDelivered, Delivered
  <2>3. Parsed(m) = m.msg /\ m.msg # Nil
    <3>1. kind \in DOMAIN Commands
      BY CurrentFacts
    <3>2. Streams(t.req, cmd.f) => t.body = TRUE
      BY <3>1, StreamDone DEF t
    <3> QED BY <1>13, <1>15, <3>2, BodyNotNil
  <2>4. Channel(cmd', on) /\ Recv(cmd') = Recv(cmd) \o ItemsFor(kind, m.msg)
    BY <1>12, <1>15, <2>2, <2>3 DEF OnSuccessFacts, StreamEffect, on
  <2>5. m.code # "RpbErrorResp"
    BY <1>9, <1>15
  <2>6. Attempt \in Nat /\ answer \in Seq(Messages) /\ wire # <<>>
    BY <1>2, <1>4, AttemptNat
  <2>7. /\ ~m.msg.done => PartlyDelivered(answer, Tail(wire), Attempt, on, cmd')
        /\ Tail(wire) = <<>> => \/ Recv(cmd') = Whole(answer, Attempt)
                               \/ /\ kind = "MapReduce"
                                  /\ Recv(cmd') = Append(Whole(answer, Attempt), NoData)
    <3>1. Arrives(answer, wire, Attempt, on, kind, cmd, cmd')
      BY <2>1, <2>3, <2>4, <2>5, <2>6 DEF Arrives, m
    <3>2. Arrived(answer, wire, Attempt, on, kind, cmd')
      BY ONLY <3>1, DeliveredNext, Zenon
    <3> QED BY <3>2 DEF Arrived, m
  <2> QED BY <1>2, <2>7
<1>16. Attempt' = Attempt /\ Own' = Own
  BY <1>2 DEF Attempt, Own
<1>17. Sent = Whole(answer, Attempt) /\ Sent' = Sent /\ Received' = Recv(cmd')
  BY <1>2, <1>16 DEF Sent, Whole, Received, Recv
<1>18. ASSUME err' = "nil"
       PROVE  Traits(kind', cmd'.f) = t /\ On(kind', cmd'.f) = on /\ cmd'.f = cmd.f
  BY <1>2, <1>12, <1>18 DEF t, on
<1>19. CASE /\ m.code = t.resp /\ err' = "nil" /\ pc' = "classify"
            /\ Streams(t.req, cmd.f) => m.msg \in Bodies /\ m.msg.done /\ t.isDone # "none"
  <2>1. Streams(t.req, cmd.f) => wire' = <<>>
    BY <1>7, <1>19, BodyNotNil DEF Ends
  <2>2. Streams(t.req, cmd.f) =>
          Recv(cmd') = Whole(answer, Attempt)
          \/ (kind = "MapReduce" /\ Recv(cmd') = Append(Whole(answer, Attempt), NoData))
    BY <1>15, <1>19, <2>1
  <2>3. Streams(Traits(kind', cmd'.f).req, cmd'.f) =>
          Received' = Sent' \/ (kind' = "MapReduce" /\ Received' = Append(Sent', NoData))
    BY <1>2, <1>17, <1>18, <1>19, <2>2
  <2>4. ~cmd'.success => answer'[1].msg = Nil
    <3> SUFFICES ASSUME ~cmd'.success PROVE answer[1].msg = Nil
      BY <1>2
    <3>1. Parsed(m) = Nil /\ t.body = TRUE /\ t.isDone = "none"
      BY <1>12, <1>19 DEF OnSuccessFacts, Effect
    <3>2. ~Streams(t.req, cmd.f)
      BY <1>19, <3>1
    <3>3. wire = answer
      BY <1>2, <1>8, <3>2 DEF InProgress, t
    <3> QED BY <1>4, <1>13, <3>1, <3>3
  <2>5. Got(cmd') \subseteq Own' \cup {Tombstone, NoData}
    BY <1>14, <1>16, <1>19
  <2>6. Completed'
    BY <2>3, <2>4, <2>5 DEF Completed
  <2> QED BY <1>19, <2>6 DEF AnswerInv
<1>20. CASE /\ m.code = t.resp /\ UNCHANGED <<pc, err, conn>> /\ Streams(t.req, cmd.f)
            /\ m.msg \in Bodies /\ ~m.msg.done /\ t.isDone # "none"
  <2>1. err' = "nil" /\ pc' = "read"
    BY <1>2, <1>20 DEF TypeInv
  <2>2. PartlyDelivered(answer, wire', Attempt, on, cmd')
    BY <1>15, <1>20, <2>1
  <2>3. PartlyDelivered(answer', wire', Attempt', On(kind', cmd'.f), cmd')
        /\ Streams(Traits(kind', cmd'.f).req, cmd'.f)
    BY <1>2, <1>16, <1>18, <1>20, <2>1, <2>2
  <2>4. Got(cmd') \subseteq Own' \cup {Tombstone, NoData}
    BY <1>14, <1>16, <2>1
  <2>5. \A i \in DOMAIN wire' : Carries(wire'[i].msg) \subseteq Own'
    <3>1. \A i \in DOMAIN Tail(wire) : i + 1 \in DOMAIN wire /\ Tail(wire)[i] = wire[i + 1]
      BY <1>2, <1>4
    <3> QED BY <1>2, <1>8, <1>16, <3>1 DEF InProgress
  <2>6. InProgress'
    BY <2>3, <2>4, <2>5 DEF InProgress
  <2> QED BY <2>1, <2>6 DEF AnswerInv
<1> QED BY <1>10, <1>11, <1>19, <1>20

LEMMA AnswerStep == TypeInv /\ CommandInv /\ SyncInv /\ AnswerInv /\ [Next]_vars => AnswerInv'
<1> SUFFICES ASSUME TypeInv, CommandInv, SyncInv, AnswerInv, [Next]_vars PROVE AnswerInv'
  OBVIOUS
<1> USE DEF app, sock
<1>1. CASE pc' \in {"building", "rejected", "cluster", "execute", "dead"}
  BY <1>1 DEF AnswerInv
<1>2. CASE err' # "nil" /\ pc' # "read"
  BY <1>2 DEF AnswerInv
<1>3. CASE running' # "app"
  BY <1>3 DEF AnswerInv
<1>4. CASE spoilt' # {}
  BY <1>4 DEF AnswerInv
<1>5. CASE WithOption \/ Build \/ NextCommand
  BY <1>1, <1>5 DEF WithOption, Build, NextCommand, Submit
<1>6. CASE ReuseBuilder
  <2>1. /\ UNCHANGED <<kind, round, running, pc, tries, err, wire, answer>>
        /\ spoilt' = {} => spoilt = {}
    BY <1>6, ReuseFacts DEF ReuseBuilder
  <2>2. Attempt' = Attempt /\ Own' = Own
    BY <2>1 DEF Attempt, Own
  <2> SUFFICES ASSUME pc = "read", running = "app", spoilt' = {} PROVE InProgress'
    BY <1>6, <2>1 DEF AnswerInv, ReuseBuilder
  <2>3. InProgress
    BY <2>1 DEF AnswerInv
  <2>4. /\ Got(cmd') = Got(cmd) /\ Recv(cmd') = Recv(cmd)
        /\ \A on : Channel(cmd', on) <=> Channel(cmd, on)
    BY <1>6, ReuseFacts DEF Got, Recv, Channel
  <2>5. /\ Traits(kind', cmd'.f) = Traits(kind, cmd.f) /\ On(kind', cmd'.f) = On(kind, cmd.f)
        /\ \A req : Streams(req, cmd'.f) <=> Streams(req, cmd.f)
    BY <1>6, <2>1, ReuseFacts
  <2>6. ASSUME NEW on, PartlyDelivered(answer, wire, Attempt, on, cmd)
        PROVE  PartlyDelivered(answer, wire, Attempt, on, cmd')
    BY <2>4, <2>6 DEF PartlyDelivered, Delivered
  <2>7. Got(cmd') \subseteq Own' \cup {Tombstone, NoData}
        /\ \A i \in DOMAIN wire' : Carries(wire'[i].msg) \subseteq Own'
    BY <2>1, <2>2, <2>3, <2>4 DEF InProgress
  <2>8. IF Streams(Traits(kind', cmd'.f).req, cmd'.f)
          THEN PartlyDelivered(answer', wire', Attempt', On(kind', cmd'.f), cmd')
          ELSE wire' \in {<<>>, answer'}
    BY <2>1, <2>2, <2>3, <2>5, <2>6 DEF InProgress
  <2> QED BY <2>7, <2>8 DEF InProgress
<1>7. CASE GetPooled \/ Connect \/ ConstructPanics \/ ReadZeroLength \/ CallbackPanics
  BY <1>1, <1>7 DEF GetPooled, Connect, StartRunning, ConstructPanics, ReadZeroLength, CallbackPanics
<1>8. CASE DialFails \/ SetupFails
  <2>1. err' # "nil" /\ pc' # "read"
    BY <1>8 DEF DialFails, SetupFails, NoConnection, RetryOrGiveUp
  <2> QED BY <1>2, <2>1
<1>9. CASE SetupStep
  <2>1. pc' = "execute" \/ (err' = "plain" /\ pc' # "read")
    BY <1>9 DEF SetupStep, StartRunning, NoConnection, RetryOrGiveUp
  <2> QED BY <1>1, <1>2, <2>1
<1>10. CASE ListingRefused \/ MarshalFails \/ WriteFails \/ ReadFails
  <2>1. err' # "nil" /\ pc' # "read"
    BY <1>10 DEF ListingRefused, MarshalFails, WriteFails, ReadFails, ExecuteReturns
  <2> QED BY <1>2, <2>1
<1>11. CASE Write
  <2>1. pc' = "read" /\ UNCHANGED <<running, spoilt>>
    BY <1>11 DEF Write
  <2>2. CASE running = "app" /\ spoilt = {}
    <3>1. InProgress'
      BY <1>11, <2>2, AnswerWrite
    <3> QED BY <2>1, <3>1 DEF AnswerInv
  <2> QED BY <1>3, <1>4, <2>1, <2>2
<1>12. CASE ReadMessage
  <2>1. UNCHANGED running
    BY <1>12 DEF ReadMessage
  <2>2. CASE running = "app" /\ spoilt' = {}
    BY <1>12, <2>2, AnswerRead
  <2> QED BY <1>3, <1>4, <2>1, <2>2
<1>13. CASE ReadGarbage
  <2>1. "frame" \in spoilt'
    BY <1>13 DEF ReadGarbage
  <2> QED BY <1>4, <2>1
<1>14. ASSUME UNCHANGED <<kind, cmd, running, err, wire, answer, round, tries>>
       PROVE  (InProgress => InProgress') /\ (Completed => Completed')
  <2>1. Attempt' = Attempt
    BY <1>14 DEF Attempt
  <2>2. Own' = Own /\ Sent' = Sent /\ Received' = Received
    BY <1>14, <2>1 DEF Own, Sent, Received
  <2> QED BY <1>14, <2>1, <2>2 DEF InProgress, Completed
<1>15. CASE RetryRead \/ UNCHANGED vars
  <2>1. UNCHANGED <<kind, cmd, running, pc, err, wire, answer, round, tries>>
    BY <1>15 DEF RetryRead, vars
  <2>2. spoilt' = {} => spoilt = {}
    BY <1>15 DEF RetryRead, vars
  <2> QED BY <1>14, <2>1, <2>2 DEF AnswerInv
<1>16. CASE NodeDone
  <2>1. pc = "classify" /\ running = "app"
        /\ UNCHANGED <<running, err, kind, round, answer>>
    BY <1>16 DEF NodeDone
  <2>2. CASE err = "nil"
    <3>1. pc' = "finished" /\ UNCHANGED <<cmd, tries, wire, spoilt>>
      BY <1>16, <2>2 DEF NodeDone
    <3> QED BY <1>14, <2>1, <2>2, <3>1 DEF AnswerInv
  <2>3. CASE err # "nil"
    <3>1. pc' # "read"
      BY <1>16, <2>3 DEF NodeDone, RetryOrGiveUp
    <3> QED BY <1>2, <2>1, <2>3, <3>1
  <2> QED BY <2>2, <2>3
<1> QED BY <1>5, <1>6, <1>7, <1>8, <1>9, <1>10, <1>11, <1>12, <1>13, <1>15, <1>16 DEF Next, Idle

LEMMA AnswerInit == Init => AnswerInv
  BY DEF Init, AnswerInv

\* Each of the application's items comes through the callback or in the Response.
LEMMA ReceivedIsGot ==
  ASSUME TypeInv
  PROVE  \A i \in DOMAIN Received : Received[i] \in Got(cmd)
<1>1. IsCommand(cmd)
  BY DEF TypeInv
<1>2. cmd.given \in Seq(Item)
  BY <1>1 DEF IsCommand
<1>3. cmd.Response.set => cmd.Response.items \in Seq(Item)
  BY <1>1 DEF IsCommand, IsResponse, NoResponse
<1>4. CASE ~cmd.Response.set
  BY <1>2, <1>4 DEF Received, Got, Range
<1>5. CASE cmd.Response.set
  <2>1. Received = cmd.given \o cmd.Response.items
    BY <1>5 DEF Received
  <2>2. Range(cmd.given \o cmd.Response.items) \subseteq Range(cmd.given) \cup Range(cmd.Response.items)
    BY <1>2, <1>3, <1>5, InConcat
  <2> QED BY <1>5, <2>1, <2>2 DEF Got, Range
<1> QED BY <1>4, <1>5

\* A command that is being answered, or that finished without an error, on a connection
\* that is not spoilt has received nothing but what Riak sent in answer to this attempt of
\* this command: nothing of an earlier attempt, of another command or of the setup.
THEOREM NothingForeignReceived == Spec => []NothingForeign
<1>1. ASSUME TypeInv, AnswerInv PROVE NothingForeign
  <2> SUFFICES ASSUME spoilt = {}, running = "app",
                      pc = "read" \/ (pc = "finished" /\ err = "nil"),
                      NEW i \in DOMAIN Received
               PROVE  Received[i] \in {Tombstone, NoData} \/ Received[i][1] = Attempt
    BY DEF NothingForeign
  <2>1. Got(cmd) \subseteq Own \cup {Tombstone, NoData}
    BY <1>1 DEF AnswerInv, InProgress, Completed
  <2>2. Received[i] \in Got(cmd)
    BY <1>1, ReceivedIsGot
  <2> QED BY <2>1, <2>2 DEF Own, Ours
<1> QED BY <1>1, TypeInit, TypeStep, CommandInit, CommandStep, SyncInit, SyncStep, AnswerInit,
           AnswerStep, PTL DEF Spec

\* A stream that ends without an error on a connection that is not spoilt has given the
\* application every chunk that Riak sent, once and in order.  The streams that the code
\* cuts short without an error spoil their connection: of a streamed TsQuery, and of a
\* stream with a message without a body, nothing is claimed.
THEOREM StreamsComplete == Spec => []StreamComplete
<1>1. ASSUME TypeInv, AnswerInv PROVE StreamComplete
  <2>1. pc = "finished" => running = "app"
    BY <1>1 DEF TypeInv
  <2> QED BY <1>1, <2>1 DEF StreamComplete, AnswerInv, Completed
<1> QED BY <1>1, TypeInit, TypeStep, CommandInit, CommandStep, SyncInit, SyncStep, AnswerInit,
           AnswerStep, PTL DEF Spec

\* What a finished command says of itself agrees with the error that Cluster.execute
\* returns: failed commands do not report success, and keep the error that is reported.
THEOREM FailuresVisible == Spec => []FailureVisible
<1>1. ASSUME TypeInv, CommandInv, AnswerInv PROVE FailureVisible
  <2>1. pc = "finished" => running = "app"
    BY <1>1 DEF TypeInv
  <2> QED BY <1>1, <2>1 DEF FailureVisible, CommandInv, AnswerInv, Completed
<1> QED BY <1>1, TypeInit, TypeStep, CommandInit, CommandStep, SyncInit, SyncStep, AnswerInit,
           AnswerStep, PTL DEF Spec
-----------------------------------------------------------------------------
(* What becomes of the fields of a request. *)

\* The fields that execution itself writes to a message.
Made == {"Type", "Bucket", "Key", "Content", "Qtype", "Op", "User", "Password"}

LEMMA ConstructFacts ==
  ASSUME NEW k, NEW f
  PROVE  SameBut(f, constructPbRequest(k, f), Made)
<1>1. SameBut(f, f, Made)
  BY DEF SameBut
<1>2. SameBut(f, StoreValueConstruct(f), Made)
  <2> DEFINE v == Get(f, "value")
             g == setProtobufFromValue(f, v)
             c == [Content |-> v]
             place == [Type |-> "o", Bucket |-> "o", Key |-> "o"]
  <2>1. DOMAIN place \subseteq Made /\ DOMAIN c \subseteq Made
    BY DEF Made
  <2>2. g = f \/ g = place ++ f
    BY DEF setProtobufFromValue
  <2>3. StoreValueConstruct(f) = c ++ g
    BY DEF StoreValueConstruct
  <2> HIDE DEF c, place, g
  <2>4. SameBut(f, g, Made)
    BY <1>1, <2>1, <2>2, JoinFacts
  <2>5. SameBut(g, c ++ g, Made)
    BY <2>1, JoinFacts
  <2> QED BY <2>3, <2>4, <2>5, SameTwice
<1>3. SameBut(f, SecondaryIndexQueryConstruct(f), Made)
  <2> DEFINE c == [Qtype |-> IF Has(f, "Key") THEN "eq" ELSE "range"]
  <2>1. DOMAIN c \subseteq Made
    BY DEF Made
  <2> QED BY <2>1, JoinFacts DEF SecondaryIndexQueryConstruct
<1>4. SameBut(f, UpdateMapConstruct(f), Made)
  <2> DEFINE c == [Op |-> Get(f, "mapOperation")]
  <2>1. DOMAIN c \subseteq Made
    BY DEF Made
  <2> QED BY <2>1, JoinFacts DEF UpdateMapConstruct
<1>5. SameBut(f, authConstruct(f), Made)
  <2> DEFINE c == [User |-> "v", Password |-> "v"]
  <2>1. DOMAIN c \subseteq Made
    BY DEF Made
  <2> QED BY <2>1, JoinFacts DEF authConstruct
<1> QED BY <1>1, <1>2, <1>3, <1>4, <1>5 DEF constructPbRequest

LEMMA WellBuiltSame ==
  ASSUME NEW k, NEW f, NEW g, NEW X, SameBut(f, g, Made), WellBuilt(k, f, X)
  PROVE  WellBuilt(k, g, X)
<1>1. \A x \in {"timeout", "Timeout", "mapOperation", "Stream", "streaming", "callback"} :
        x \notin Made
  BY DEF Made
<1>2. \A x \in {"timeout", "Timeout", "mapOperation", "Stream", "streaming", "callback"} :
        (Has(g, x) <=> Has(f, x)) /\ Get(g, x) = Get(f, x)
  BY <1>1, SameFacts
<1> QED BY <1>2 DEF WellBuilt, Timed, Streaming, IsTrue

LEMMA EmptyNotLong == Empty # "long"
  BY Zenon DEF Empty

LEMMA NewBuilderFacts ==
  ASSUME NEW k \in DOMAIN Commands
  PROVE  BuilderTimed(k, NewBuilder(k)) /\ BuilderTimed(k, Canonical(k))
<1>1. ~Has(NewBuilder(k), "Timeout")
  BY BuilderFacts DEF BuilderOf, NewBuilder, Has
<1>2. ~Has(Canonical(k), "Timeout")
  BY <1>1 DEF Canonical, Has
<1> QED BY <1>1, <1>2 DEF BuilderTimed

LEMMA CopiedFacts ==
  ASSUME NEW f, NEW copies, NEW x
  PROVE  LET g == Copied(f, copies)
             kept == Has(f, x) /\ (x \in BuilderFields => x \in copies)
         IN (Has(g, x) <=> kept) /\ (kept => Get(g, x) = Get(f, x))
  BY DEF Copied, Has, Get

LEMMA UpdateCounterFacts ==
  ASSUME NEW f
  PROVE  LET g == UpdateCounterMessage(f)
         IN Get(g, "Timeout") = "long" => Get(g, "timeout") = "long"
<1> DEFINE named == [bucketType |-> "Type", bucket |-> "Bucket", key |-> "Key"]
           put(xs) == [y \in {named[x] : x \in {z \in xs : Given(f, z)}} |->
                         f[CHOOSE x \in xs : named[x] = y]]
           old == [Amount |-> "v", W |-> "v", Dw |-> "v", Pw |-> "v", Returnvalue |-> "true",
                   legacy |-> "true"]
           new == [W |-> "v", Dw |-> "v", Pw |-> "v", ReturnBody |-> Get(f, "returnBody"),
                   Timeout |-> Get(f, "timeout"), timeout |-> Get(f, "timeout"), Op |-> "v"]
<1>1. UpdateCounterMessage(f) = IF isLegacy(f) THEN old ++ put({"bucket", "key"})
                                               ELSE new ++ put(DOMAIN named)
  BY DEF UpdateCounterMessage
<1>2. "Timeout" \notin DOMAIN put({"bucket", "key"})
  OBVIOUS
<1>3. "Timeout" \notin DOMAIN old
  OBVIOUS
<1>4. /\ DOMAIN new = {"W", "Dw", "Pw", "ReturnBody", "Timeout", "timeout", "Op"}
      /\ new["Timeout"] = Get(f, "timeout") /\ new["timeout"] = Get(f, "timeout")
  OBVIOUS
<1> HIDE DEF named, put, old, new
<1>5. ~Has(old ++ put({"bucket", "key"}), "Timeout")
  BY <1>2, <1>3 DEF Has, ++
<1>6. Get(new ++ put(DOMAIN named), "Timeout") = Get(new ++ put(DOMAIN named), "timeout")
  BY <1>4 DEF Has, Get, ++
<1> QED BY <1>1, <1>5, <1>6, EmptyNotLong DEF Get

\* Build asks for a callback if the command is to stream.
LEMMA CallbackAsked ==
  ASSUME NEW k, NEW f, Accepts(k, f), Streaming(k, f)
  PROVE  Has(f, "callback")
<1>1. CASE k \in {"ListKeys", "MapReduce", "ListBuckets", "SecondaryIndexQuery"}
  <2>0. /\ k \in DOMAIN KVBuilderTable /\ k \notin DOMAIN TSBuilderTable
        /\ k \notin DOMAIN CRDTBuilderTable /\ k \notin DOMAIN MiscBuilderTable
    BY <1>1 DEF CRDTBuilderTable, KVBuilderTable, MiscBuilderTable, TSBuilderTable
  <2>1. KVBuild(k, f)
    BY <2>0 DEF Accepts
  <2>2. CASE k = "ListKeys"
    BY <2>1, <2>2 DEF KVBuild, ListKeysBuild, CallbackIfStreaming, Streaming
  <2>3. CASE k = "MapReduce"
    BY <2>1, <2>3 DEF KVBuild, MapReduceBuild, CallbackIfStreaming, Streaming
  <2>4. CASE k = "ListBuckets"
    BY <2>1, <2>4 DEF KVBuild, ListBucketsBuild, CallbackIfStreaming, Streaming
  <2>5. CASE k = "SecondaryIndexQuery"
    BY <2>1, <2>5 DEF KVBuild, SecondaryIndexQueryBuild, CallbackIfStreaming, Streaming
  <2> QED BY <1>1, <2>2, <2>3, <2>4, <2>5
<1>2. CASE k \in {"TsListKeys", "TsQuery"}
  <2>1. /\ k \in DOMAIN TSBuilderTable /\ k \notin DOMAIN KVBuilderTable
        /\ k \notin DOMAIN CRDTBuilderTable /\ k \notin DOMAIN MiscBuilderTable
    BY <1>2 DEF CRDTBuilderTable, KVBuilderTable, MiscBuilderTable, TSBuilderTable
  <2>2. TSBuild(k, f)
    BY <2>1 DEF Accepts
  <2> QED BY <1>2, <2>2 DEF TSBuild, TsListKeysBuild, TsQueryBuild, CallbackIfStreaming, Streaming
<1> QED BY <1>1, <1>2 DEF Streaming

LEMMA BuiltFacts ==
  ASSUME NEW k \in DOMAIN Commands, NEW f, BuilderTimed(k, f), Accepts(k, f), NEW X
  PROVE  WellBuilt(k, Built(k, f), X)
<1> DEFINE g == IF k = "UpdateCounter" THEN UpdateCounterMessage(f)
                                       ELSE Copied(f, Builders[k].copies)
           type == [Type |-> "default"]
<1>1. BuilderOf(k, Builders[k], Commands[k])
  BY BuilderFacts
<1>2. SameBut(g, Built(k, f), Made)
  <2>1. Built(k, f) \in {g, WithDefaultType(g)}
    BY DEF Built
  <2> HIDE DEF g
  <2>2. WithDefaultType(g) = g \/ WithDefaultType(g) = type ++ g
    BY DEF WithDefaultType
  <2>3. DOMAIN type \subseteq Made
    BY DEF Made
  <2> HIDE DEF type
  <2>4. SameBut(g, g, Made)
    BY DEF SameBut
  <2> QED BY <2>1, <2>2, <2>3, <2>4, JoinFacts
<1>3. CASE k = "UpdateCounter"
  <2>1. "timeout" \in Commands[k].impls
    BY <1>1, <1>3 DEF BuilderOf
  <2>2. WellBuilt(k, g, X)
    BY <1>3, <2>1, UpdateCounterFacts DEF WellBuilt, Timed, Streaming
  <2> QED BY <1>2, <2>2, WellBuiltSame
<1>4. CASE k # "UpdateCounter"
  <2>1. g = Copied(f, Builders[k].copies)
    BY <1>4
  <2> HIDE DEF g
  <2>2. /\ "Timeout" \notin BuilderFields /\ "timeout" \in BuilderFields
    BY DEF BuilderFields
  <2>3. Timed(k, g)
    <3> SUFFICES ASSUME k # "ListBuckets", Get(g, "Timeout") = "long"
                 PROVE  Get(g, "timeout") = "long" /\ "timeout" \in Commands[k].impls
      BY DEF Timed
    <3>1. Has(g, "Timeout")
      BY EmptyNotLong DEF Get
    <3>2. Has(f, "Timeout")
      BY <2>1, <3>1, CopiedFacts
    <3>3. Get(f, "timeout") = "long" /\ "timeout" \in Builders[k].copies
          /\ "timeout" \in Commands[k].impls
      BY <1>4, <3>2 DEF BuilderTimed
    <3>4. Has(f, "timeout")
      BY <3>3, EmptyNotLong DEF Get
    <3> QED BY <2>1, <3>3, <3>4, CopiedFacts
  <2>4. k = "UpdateMap" => Has(g, "mapOperation")
    <3> SUFFICES ASSUME k = "UpdateMap" PROVE Has(g, "mapOperation")
      OBVIOUS
    <3>1. /\ k \in DOMAIN CRDTBuilderTable /\ k \notin DOMAIN KVBuilderTable
          /\ k \notin DOMAIN MiscBuilderTable /\ k \notin DOMAIN TSBuilderTable
      BY DEF CRDTBuilderTable, KVBuilderTable, MiscBuilderTable, TSBuilderTable
    <3>2. Has(f, "mapOperation")
      <4>1. CRDTBuild(k, f)
        BY <3>1 DEF Accepts
      <4>2. UpdateMapBuild(f)
        BY <4>1 DEF CRDTBuild
      <4> QED BY <4>2 DEF UpdateMapBuild
    <3>3. "mapOperation" \in Builders[k].copies
      BY <1>1 DEF BuilderOf
    <3> QED BY <2>1, <3>2, <3>3, CopiedFacts
  <2>5. Streaming(k, g) => Has(g, "callback")
    <3> SUFFICES ASSUME Streaming(k, g) PROVE Has(g, "callback")
      OBVIOUS
    <3>1. \A x : IsTrue(g, x) => IsTrue(f, x)
      <4>1. Empty # "true"
        BY Zenon DEF Empty
      <4> QED BY <2>1, <4>1, CopiedFacts DEF IsTrue, Get
    <3>2. Streaming(k, f)
      BY <3>1 DEF Streaming
    <3>3. Has(f, "callback")
      BY <3>2, CallbackAsked
    <3>4. "callback" \in Builders[k].copies
      BY <1>1, <3>2 DEF BuilderOf, Streaming
    <3> QED BY <2>1, <3>3, <3>4, CopiedFacts
  <2> QED BY <1>2, <2>3, <2>4, <2>5, WellBuiltSame DEF WellBuilt
<1> QED BY <1>3, <1>4

\* Every option keeps the timeout where Build finds it.
LEMMA OptionFacts ==
  ASSUME TypeInv, BuilderTimed(kind, builder), WithOption
  PROVE  BuilderTimed(kind, builder')
<1>1. PICK o \in DOMAIN Builders[kind].options :
        LET fields == Builders[kind].options[o]
        IN \E v \in UNION {Values(x) : x \in fields} :
             builder' = IF o = "WithContent" THEN WithContent(builder, v)
                        ELSE [x \in fields |-> v] ++ builder
  BY DEF WithOption, Options
<1> DEFINE fields == Builders[kind].options[o]
<1>2. PICK v \in UNION {Values(x) : x \in fields} :
        builder' = IF o = "WithContent" THEN WithContent(builder, v)
                   ELSE [x \in fields |-> v] ++ builder
  BY <1>1
<1>3. kind \in DOMAIN Commands
  BY CurrentFacts
<1>4. /\ "timeout" \in fields => fields \subseteq {"timeout", "Timeout"}
      /\ "Timeout" \in fields /\ kind # "ListBuckets" =>
           /\ fields = {"timeout", "Timeout"}
           /\ "timeout" \in Builders[kind].copies /\ "timeout" \in Commands[kind].impls
  BY <1>3, BuilderFacts DEF BuilderOf
<1> HIDE DEF fields
<1>5. "timeout" \in fields => v = "long"
  <2> SUFFICES ASSUME "timeout" \in fields PROVE v = "long"
    OBVIOUS
  <2>1. PICK x \in fields : v \in Values(x)
    BY <1>2
  <2>2. Values("timeout") = {"long"} /\ Values("Timeout") = {"long"}
    BY DEF Values
  <2> QED BY <1>4, <2>1, <2>2
<1>6. CASE o = "WithContent"
  <2> DEFINE c == [value |-> v]
             place == [Type |-> "o", Bucket |-> "o", Key |-> "o"]
             X == {"value", "Type", "Bucket", "Key"}
  <2>1. DOMAIN c \subseteq X /\ DOMAIN place \subseteq X
    OBVIOUS
  <2>2. builder' = c ++ builder \/ builder' = place ++ (c ++ builder)
    BY <1>2, <1>6 DEF WithContent, setProtobufFromValue
  <2> HIDE DEF c, place, X
  <2>3. SameBut(builder, c ++ builder, X) /\ SameBut(c ++ builder, place ++ (c ++ builder), X)
    BY <2>1, JoinFacts
  <2>4. SameBut(builder, builder', X)
    BY <2>2, <2>3, SameTwice
  <2>5. "timeout" \notin X /\ "Timeout" \notin X
    BY DEF X
  <2> QED BY <2>4, <2>5, SameFacts DEF BuilderTimed
<1>7. CASE o # "WithContent"
  <2> DEFINE h == [x \in fields |-> v]
  <2>1. builder' = h ++ builder
    BY <1>2, <1>7
  <2>2. DOMAIN h = fields /\ \A x \in fields : h[x] = v
    OBVIOUS
  <2> HIDE DEF h
  <2>3. \A x : Has(builder', x) <=> x \in fields \/ Has(builder, x)
    BY <2>1, <2>2 DEF Has, ++
  <2>4. \A x \in fields : Has(builder', x) /\ Get(builder', x) = v
    BY <2>1, <2>2 DEF Has, Get, ++
  <2>5. \A x : x \notin fields => Get(builder', x) = Get(builder, x)
    BY <2>1, <2>2 DEF Has, Get, ++
  <2> SUFFICES ASSUME kind \notin {"ListBuckets", "UpdateCounter"}, Has(builder', "Timeout")
               PROVE  /\ Get(builder', "timeout") = "long"
                      /\ "timeout" \in Builders[kind].copies
                      /\ "timeout" \in Commands[kind].impls
    BY DEF BuilderTimed
  <2>6. CASE "Timeout" \in fields
    BY <1>4, <1>5, <2>4, <2>6
  <2>7. CASE "Timeout" \notin fields
    <3>1. /\ Get(builder, "timeout") = "long"
          /\ "timeout" \in Builders[kind].copies /\ "timeout" \in Commands[kind].impls
      BY <2>3, <2>7 DEF BuilderTimed
    <3>2. CASE "timeout" \in fields
      BY <1>5, <2>4, <3>1, <3>2
    <3>3. CASE "timeout" \notin fields
      BY <2>5, <3>1, <3>3
    <3> QED BY <3>2, <3>3
  <2> QED BY <2>6, <2>7
<1> QED BY <1>6, <1>7

\* A command that Build made well waits for the timeout in its message.
LEMMA WaitsLongEnough ==
  ASSUME NEW k \in DOMAIN Commands, NEW f, Timed(k, f), Get(f, "Timeout") = "long",
         k # "ListBuckets"
  PROVE  ReadTimeout(Traits(k, f), f) = "long"
<1>1. Get(f, "timeout") = "long" /\ "timeout" \in Commands[k].impls
  BY DEF Timed
<1>2. k = "UpdateCounter" => legacyCounterCommand.impls = Commands[k].impls
  BY Joined DEF CRDTCommandTable, legacyCounterCommand, UpdateCounterCommand, UpdateDtCommand
<1>3. "timeout" \in Traits(k, f).impls
  BY <1>1, <1>2 DEF Traits
<1> QED BY <1>1, <1>3 DEF ReadTimeout

LEMMA RequestStep == TypeInv /\ RequestInv /\ [Next]_vars => RequestInv'
<1> SUFFICES ASSUME TypeInv, RequestInv, [Next]_vars PROVE RequestInv'
  OBVIOUS
<1> USE DEF app, sock
<1>a. /\ kind \in DOMAIN Commands /\ IsCommand(cmd) /\ IsCommand(Current)
      /\ pc \in {"building", "rejected", "cluster", "execute", "read", "classify", "finished",
                 "dead"}
      /\ panicked => pc = "dead"
  BY CurrentFacts DEF TypeInv, TypeOK, RequestInv
\* The command keeps what is well built, and nothing is being read.
<1>b. ASSUME UNCHANGED <<kind, panicked>>, ~panicked, WellBuilt(kind', cmd'.f, reused'),
             pc' \notin {"building", "read"}
      PROVE  RequestInv'
  BY <1>b DEF RequestInv, TimeoutCovers, PanicExplained
<1>c. ASSUME UNCHANGED <<kind, panicked, reused>>, pc \notin {"building", "rejected", "dead"},
             pc' \notin {"building", "read"}, SameBut(cmd.f, cmd'.f, Made)
      PROVE  RequestInv'
  <2>1. WellBuilt(kind, cmd'.f, reused')
    BY <1>c, WellBuiltSame DEF RequestInv
  <2> QED BY <1>a, <1>b, <1>c, <2>1
<1>d. \A f : SameBut(f, f, Made)
  BY DEF SameBut
<1>1. CASE WithOption
  <2>1. pc = "building" /\ UNCHANGED <<kind, cmd, pc, panicked, reused>>
    BY <1>1 DEF WithOption
  <2>2. BuilderTimed(kind, builder')
    BY <1>1, <2>1, OptionFacts DEF RequestInv
  <2> QED BY <1>a, <2>1, <2>2 DEF RequestInv, TimeoutCovers
<1>2. CASE Build
  <2>1. pc = "building" /\ UNCHANGED <<kind, panicked>>
    BY <1>2 DEF Build
  <2>2. CASE Accepts(kind, builder)
    <3>1. cmd'.f = Built(kind, builder) /\ pc' = "cluster"
      BY <1>2, <2>2, SubmitFacts DEF Build
    <3>2. WellBuilt(kind, cmd'.f, reused')
      BY <1>a, <2>1, <2>2, <3>1, BuiltFacts DEF RequestInv
    <3> QED BY <1>a, <1>b, <2>1, <3>1, <3>2
  <2>3. CASE ~Accepts(kind, builder)
    <3>1. pc' = "rejected"
      BY <1>2, <2>3 DEF Build
    <3> QED BY <1>a, <2>1, <3>1 DEF RequestInv, TimeoutCovers
  <2> QED BY <2>2, <2>3
<1>3. CASE NextCommand
  <2>1. PICK k \in Followers : Accepts(k, Canonical(k)) /\ kind' = k /\ Submit(k, Canonical(k))
    BY <1>3 DEF NextCommand
  <2>2. k \in DOMAIN Commands
    BY KindAssumption
  <2>3. cmd'.f = Built(k, Canonical(k)) /\ pc' = "cluster"
    BY <2>1, SubmitFacts
  <2>4. WellBuilt(k, cmd'.f, reused')
    BY <2>1, <2>2, <2>3, NewBuilderFacts, BuiltFacts
  <2>5. ~panicked'
    BY <1>3, <1>a DEF NextCommand
  <2> QED BY <2>1, <2>3, <2>4, <2>5 DEF RequestInv, TimeoutCovers
<1>4. CASE ReuseBuilder
  <2>1. pc \in {"cluster", "execute", "read"} /\ UNCHANGED <<kind, panicked, pc, running, deadline>>
    BY <1>4 DEF ReuseBuilder
  <2>2. /\ SameBut(cmd.f, cmd'.f, Shared) /\ reused \subseteq reused'
        /\ "Timeout" \notin reused' => Get(cmd'.f, "Timeout") = Get(cmd.f, "Timeout")
        /\ "Stream" \notin reused' => Get(cmd'.f, "Stream") = Get(cmd.f, "Stream")
    BY <1>4, ReuseFacts
  <2>3. \A x \in {"timeout", "mapOperation", "streaming", "callback"} :
          (Has(cmd'.f, x) <=> Has(cmd.f, x)) /\ Get(cmd'.f, x) = Get(cmd.f, x)
    <3>1. \A x \in {"timeout", "mapOperation", "streaming", "callback"} : x \notin Shared
      BY DEF Shared
    <3> QED BY <2>2, <3>1, SameFacts
  <2>4. WellBuilt(kind, cmd.f, reused)
    BY <2>1 DEF RequestInv
  <2>5. WellBuilt(kind, cmd'.f, reused')
    BY <2>2, <2>3, <2>4 DEF WellBuilt, Timed, Streaming, IsTrue
  <2>6. TimeoutCovers'
    BY <2>1, <2>2 DEF RequestInv, TimeoutCovers
  <2> QED BY <1>a, <2>1, <2>5, <2>6 DEF RequestInv
<1>5. CASE GetPooled \/ Connect
  <2>1. pc = "cluster" /\ UNCHANGED <<kind, panicked, cmd, reused>> /\ pc' = "execute"
    BY <1>5 DEF GetPooled, Connect, StartRunning
  <2> QED BY <1>c, <1>d, <2>1
<1>6. CASE DialFails \/ SetupFails \/ SetupStep \/ NodeDone
  <2>1. pc \in {"cluster", "classify"} /\ UNCHANGED <<kind, panicked, reused>>
    BY <1>6 DEF DialFails, SetupFails, SetupStep, NodeDone
  <2>2. RetryOrGiveUp \/ (UNCHANGED cmd /\ pc' \in {"execute", "finished"})
    <3>1. CASE DialFails \/ SetupFails
      BY <3>1 DEF DialFails, SetupFails, NoConnection
    <3>2. CASE SetupStep
      BY <3>2 DEF SetupStep, NoConnection, StartRunning
    <3>3. CASE NodeDone
      BY <3>3 DEF NodeDone
    <3> QED BY <1>6, <3>1, <3>2, <3>3
  <2>3. tries >= 1
    BY <2>1 DEF TypeInv
  <2>4. cmd'.f = cmd.f /\ pc' \in {"cluster", "execute", "finished"}
    BY <2>2, <2>3, RetryFacts
  <2> QED BY <1>c, <1>d, <2>1, <2>4
<1>7. CASE ListingRefused \/ ReadFails
  <2>1. PICK e \in Outcomes : ExecuteReturns(onError(Current, e), e)
    BY <1>7 DEF ListingRefused, ReadFails, Outcomes
  <2>2. pc \in {"execute", "read"} /\ UNCHANGED <<kind, panicked, reused>> /\ pc' = "classify"
    BY <1>7, <2>1 DEF ListingRefused, ReadFails, ExecuteReturns
  <2>3. cmd'.f = cmd.f
    <3>1. onError(Current, e).f = Current.f
      BY <1>a, OnErrorFacts
    <3>2. running = "app" => cmd' = onError(Current, e) /\ Current = cmd
      BY <2>1 DEF ExecuteReturns, SetCurrent, Current
    <3>3. running # "app" => cmd' = cmd
      BY <2>1 DEF ExecuteReturns, SetCurrent
    <3> QED BY <3>1, <3>2, <3>3
  <2> QED BY <1>c, <1>d, <2>2, <2>3
\* The command whose message has been made.
<1>e. ASSUME SetCurrent([Current EXCEPT !.f = constructPbRequest(RunKind, @)])
      PROVE  /\ SameBut(cmd.f, cmd'.f, Made)
             /\ running = "app" => cmd'.f = constructPbRequest(kind, cmd.f)
  <2> DEFINE g == constructPbRequest(RunKind, Current.f)
             c == [Current EXCEPT !.f = g]
  <2>1. SetCurrent(c)
    BY <1>e
  <2>2. c.f = g
    BY <1>a, NewFieldsFacts
  <2> HIDE DEF c
  <2>3. CASE running = "app"
    <3>1. cmd' = c /\ Current = cmd /\ RunKind = kind
      BY <2>1, <2>3 DEF SetCurrent, Current, RunKind
    <3> QED BY <2>2, <3>1, ConstructFacts
  <2>4. CASE running # "app"
    <3>1. cmd' = cmd
      BY <2>1, <2>4 DEF SetCurrent
    <3> QED BY <1>d, <2>4, <3>1
  <2> QED BY <2>3, <2>4
<1>8. CASE MarshalFails \/ WriteFails
  <2>1. pc = "execute" /\ UNCHANGED <<kind, panicked, reused>> /\ pc' = "classify"
    BY <1>8 DEF MarshalFails, WriteFails, CanWrite, ExecuteReturns
  <2>2. SetCurrent([Current EXCEPT !.f = constructPbRequest(RunKind, @)])
    BY <1>8 DEF MarshalFails, WriteFails, ExecuteReturns
  <2> QED BY <1>c, <1>e, <2>1, <2>2
<1>9. CASE Write
  <2>1. pc = "execute" /\ UNCHANGED <<kind, panicked, running, reused>> /\ pc' = "read"
    BY <1>9 DEF Write, CanWrite
  <2>2. SetCurrent([Current EXCEPT !.f = constructPbRequest(RunKind, @)])
    BY <1>9, <1>a DEF Write, IsCommand
  <2>3. WellBuilt(kind, cmd'.f, reused')
    BY <1>e, <2>1, <2>2, WellBuiltSame DEF RequestInv
  <2>4. TimeoutCovers'
    <3> SUFFICES ASSUME running = "app", "Timeout" \notin reused,
                        Get(cmd'.f, "Timeout") = "long", kind # "ListBuckets"
                 PROVE  deadline' = "long"
      BY <2>1 DEF TimeoutCovers
    <3>1. cmd'.f = constructPbRequest(kind, cmd.f)
      BY <1>e, <2>2
    <3>2. deadline' = ReadTimeout(Traits(kind, cmd'.f), cmd'.f)
      BY <1>9, <3>1 DEF Write, RunKind, Current
    <3>3. Timed(kind, cmd'.f)
      BY <2>1, <2>3 DEF WellBuilt
    <3> QED BY <1>a, <3>2, <3>3, WaitsLongEnough
  <2> QED BY <1>a, <2>1, <2>3, <2>4 DEF RequestInv
<1>10. CASE ConstructPanics
  <2>1. pc = "execute" /\ pc' = "dead" /\ UNCHANGED <<kind, cmd, reused>> /\ Panics(RunKind, Current.f)
    BY <1>10 DEF ConstructPanics
  <2>2. RunKind \in {"StoreValue", "UpdateMap"}
    BY <2>1 DEF Panics
  <2>3. running = "app"
    BY <2>2 DEF RunKind, TypeInv, TypeOK
  <2>4. WellBuilt(kind, cmd.f, reused)
    BY <2>1 DEF RequestInv
  <2>5. kind = "StoreValue" /\ ~Has(cmd.f, "value")
    BY <2>1, <2>3, <2>4 DEF Panics, RunKind, Current, WellBuilt
  <2> QED BY <2>1, <2>4, <2>5 DEF RequestInv, TimeoutCovers, PanicExplained
<1>11. ASSUME NEW m, m.msg \in {Nil} \cup Bodies, NEW cbErr \in Verdicts,
              Handle(m, cbErr), pc = "read", UNCHANGED <<kind, panicked, running, deadline, reused>>
       PROVE  RequestInv'
  <2>1. cmd'.f = cmd.f
    BY <1>11, OutcomeFacts, SetupOutcome
  <2>2. pc' \in {"read", "classify"}
    BY <1>11, HandleOutcome DEF Outcome
  <2> QED BY <1>11, <1>a, <2>1, <2>2 DEF RequestInv, TimeoutCovers
<1>12. CASE ReadMessage
  <2>1. PICK cbErr \in CallbackErrors : Handle(Head(wire), cbErr)
    BY <1>12 DEF ReadMessage
  <2>2. cbErr \in Verdicts
    BY DEF CallbackErrors, Verdicts
  <2>3. Head(wire).msg \in {Nil} \cup Bodies
    BY <1>12, WireFacts DEF ReadMessage
  <2> QED BY <1>11, <1>12, <2>1, <2>2, <2>3 DEF ReadMessage
<1>13. CASE ReadGarbage
  <2>1. CASE ReadReturns(onError(Current, "plain"), "plain")
    <3>1. pc = "read" /\ pc' = "classify" /\ UNCHANGED <<kind, panicked, reused>>
      BY <1>13, <2>1 DEF ReadGarbage, ReadReturns, ExecuteReturns
    <3>2. onError(Current, "plain").f = Current.f
      <4>1. "plain" \in Outcomes
        BY DEF Outcomes
      <4> QED BY <1>a, <4>1, OnErrorFacts
    <3>3. cmd'.f = cmd.f
      <4>1. CASE running = "app"
        BY <2>1, <3>2, <4>1 DEF ReadReturns, ExecuteReturns, SetCurrent, Current
      <4>2. CASE running # "app"
        BY <2>1, <4>2 DEF ReadReturns, ExecuteReturns, SetCurrent
      <4> QED BY <4>1, <4>2
    <3> QED BY <1>c, <1>d, <3>1, <3>3
  <2>2. CASE \E m \in Garbage(Traits(RunKind, Current.f).resp) : Handle(m, "nil")
    <3>1. PICK m \in Garbage(Traits(RunKind, Current.f).resp) : Handle(m, "nil")
      BY <2>2
    <3>2. m.msg \in Bodies
      BY GarbageFacts
    <3> QED BY <1>11, <1>13, <3>1, <3>2 DEF ReadGarbage, Verdicts
  <2> QED BY <1>13, <2>1, <2>2 DEF ReadGarbage
<1>14. CASE ReadZeroLength
  <2>1. pc = "read" /\ pc' = "dead" /\ UNCHANGED <<kind, cmd, spoilt, reused>> /\ "frame" \in spoilt
    BY <1>14 DEF ReadZeroLength
  <2> QED BY <2>1 DEF RequestInv, TimeoutCovers, PanicExplained
<1>15. CASE RetryRead
  <2>1. pc = "read" /\ UNCHANGED <<kind, cmd, panicked, running, deadline, pc, reused>>
    BY <1>15 DEF RetryRead
  <2> QED BY <1>a, <2>1 DEF RequestInv, TimeoutCovers
<1>16. CASE UNCHANGED vars
  BY <1>16 DEF vars, RequestInv, TimeoutCovers, PanicExplained
<1>17. CASE CallbackPanics
  <2>1. pc = "read" /\ pc' = "dead" /\ UNCHANGED <<kind, cmd, reused>>
    BY <1>17 DEF CallbackPanics
  <2>2. Streaming(RunKind, Current.f) /\ ~Has(Current.f, "callback")
    BY <1>17 DEF CallbackPanics, CallbackMissing
  <2>3. running = "app"
    BY <2>2 DEF Streaming, RunKind, TypeInv, TypeOK
  <2>4. WellBuilt(kind, cmd.f, reused)
    BY <2>1 DEF RequestInv
  <2>5. "Stream" \in reused /\ ~Has(cmd.f, "callback")
    BY <2>2, <2>3, <2>4 DEF WellBuilt, RunKind, Current
  <2> QED BY <2>1, <2>4, <2>5 DEF RequestInv, TimeoutCovers, PanicExplained
<1> QED BY <1>1, <1>2, <1>3, <1>4, <1>5, <1>6, <1>7, <1>8, <1>9, <1>10, <1>12, <1>13, <1>14,
           <1>15, <1>16, <1>17 DEF Next, Idle

LEMMA RequestInit == Init => RequestInv
<1> SUFFICES ASSUME Init PROVE RequestInv
  OBVIOUS
<1>1. kind \in DOMAIN Commands /\ builder = NewBuilder(kind) /\ pc = "building" /\ ~panicked
  BY KindAssumption DEF Init
<1> QED BY <1>1, NewBuilderFacts DEF RequestInv, TimeoutCovers

\* A request that allows Riak a long time is also waited for that long by the client,
\* except for a ListBuckets and for a builder that is given a timeout after Build: every
\* other Build copies the timeout that its builder puts into the message, and nothing on
\* the way to the read loses it.
THEOREM TimeoutsCovered == Spec => []TimeoutCovers
<1>1. RequestInv => TimeoutCovers
  BY DEF RequestInv
<1> QED BY <1>1, TypeInit, TypeStep, RequestInit, RequestStep, PTL DEF Spec

\* The program dies only of a StoreValue that Build let pass without a value, of a length
\* of zero read in the middle of a message, or of a builder told to stream after it had
\* built a command without a callback: an UpdateMap always has its operation, and Build
\* lets no other command stream without a callback.
THEOREM PanicsExplained == Spec => []PanicExplained
<1>1. RequestInv => PanicExplained
  BY DEF RequestInv, PanicExplained
<1> QED BY <1>1, TypeInit, TypeStep, RequestInit, RequestStep, PTL DEF Spec
=============================================================================
