-------------------------- MODULE ImageSourceProofs --------------------------
(***************************************************************************)
(* Proofs about ImageSource, for any directories, links, registries, tags  *)
(* and numbers of requests.                                                *)
(*                                                                         *)
(* A fetch works its id out in one step, looks for it in the graph in      *)
(* another and reads the source in a third, while the source changes.      *)
(* Three invariants, each resting on those before it, say what the steps   *)
(* in between still know: CauseInv, what a call has learnt of its source   *)
(* and lost of its attempts; LinkInv, that a call that saw one state of    *)
(* its source has the id of that state; ContentInv, that it has seen       *)
(* whatever is, or is being, registered under its id.                      *)
(***************************************************************************)
EXTENDS ImageSource, TLAPS

\* The fields of a call under way.
Fields == {"pc", "url", "creds", "attempt", "lost", "path", "idPath", "id", "read",
           "plain", "seen", "answer"}

\* The statements that only requests come to, and those of the two fetchers.
Asking == {"ready", "lock", "register", "layers", "done"}
LocalSteps == {"id", "stat", "lock", "register"}
RemoteSteps == {"manifest", "layers"}

Underway(a) == ~Idle(a) /\ ~At(a, "done")

\* TypeInv holds the types of the variables as far as the proofs need them.
CallType(a) ==
    /\ call[a].pc \in {"idle", "attempt", "retain"} \cup Asking \cup LocalSteps \cup RemoteSteps
    /\ call[a].pc \in Asking => a \in Requests
    /\ At(a, "retain") => a = Retainer
    /\ ~At(a, "idle") => call[a].url \in Urls
    /\ ~Idle(a) => DOMAIN call[a] = Fields /\ call[a].attempt \in 1..MaxAttempts

TypeInv ==
    /\ now \in 1..MaxTime
    /\ time \in [Dirs -> 0..now]
    /\ tag \in [Tags -> Manifests]
    /\ todo \in Seq(Urls)
    /\ call = [a \in Actors |-> call[a]]
    /\ \A a \in Actors : CallType(a)

----------------------------------------------------------------------------
(***************************************************************************)
(* What the statements of a Fetch make of its call, field by field.        *)
(***************************************************************************)
OnlyOf(a) == call' = [b \in Actors |-> IF b = a THEN call'[a] ELSE call[b]]

\* c and n are the same call, as its caller sees it; in the same attempt.
Keeps(c, n) ==
    DOMAIN n = Fields /\ n.url = c.url /\ n.creds = c.creds /\ n.seen = c.seen

Tries(c, n) == n.attempt = c.attempt /\ n.lost = c.lost

\* The call goes to another statement.
GoesTo(c, n, there) ==
    /\ Keeps(c, n) /\ Tries(c, n) /\ n.pc = there
    /\ n.path = c.path /\ n.idPath = c.idPath /\ n.id = c.id
    /\ n.read = c.read /\ n.plain = c.plain

\* The attempt fails, with these attempts lost so far.
FailsTo(a, c, lost, n) ==
    \/ /\ c.attempt < MaxAttempts /\ Keeps(c, n) /\ n.pc = "attempt"
       /\ n.attempt = c.attempt + 1 /\ n.lost = lost /\ n.plain = FALSE
    \/ ~(c.attempt < MaxAttempts) /\ a = Retainer /\ n = NoCall
    \/ /\ ~(c.attempt < MaxAttempts) /\ a # Retainer /\ Keeps(c, n) /\ n.pc = "done"
       /\ n.attempt = c.attempt /\ n.lost = lost /\ n.answer = Failure

Lost(c) == c.lost \cup {c.attempt}

\* Ending an attempt changes nothing but the attempt's own variables.
LEMMA ResetFields ==
    ASSUME NEW c, DOMAIN c = Fields
    PROVE  LET n == Reset(c) IN Keeps(c, n) /\ Tries(c, n) /\ n.pc = c.pc /\ n.answer = c.answer
                           /\ n.plain = FALSE
  BY DEF Reset, Fields, Keeps, Tries

\* Fail begins the next attempt, or ends the call.
LEMMA FailEffect ==
    ASSUME TypeInv, NEW a \in Actors, NEW c, DOMAIN c = Fields, Fail(a, c)
    PROVE  OnlyOf(a) /\ FailsTo(a, c, c.lost, call'[a])
<1> DEFINE again == [c EXCEPT !.pc = "attempt", !.attempt = c.attempt + 1]
           over == [c EXCEPT !.pc = "done", !.answer = Failure]
<1>1. /\ Keeps(c, again) /\ again.pc = "attempt" /\ again.attempt = c.attempt + 1
      /\ again.lost = c.lost
  BY DEF Keeps, Fields
<1>2. Keeps(c, over) /\ Tries(c, over) /\ over.pc = "done" /\ over.answer = Failure
  BY DEF Keeps, Tries, Fields
<1>3. call' = [call EXCEPT ![a] =
         IF c.attempt < MaxAttempts THEN Reset(again)
         ELSE IF a = Retainer THEN NoCall ELSE Reset(over)]
  BY DEF Fail
<1> HIDE DEF again, over
<1>4. OnlyOf(a) /\ call'[a] = IF c.attempt < MaxAttempts THEN Reset(again)
                    ELSE IF a = Retainer THEN NoCall ELSE Reset(over)
  BY <1>3 DEF OnlyOf, TypeInv
<1>5. LET n == Reset(again)
      IN  Keeps(again, n) /\ Tries(again, n) /\ n.pc = again.pc /\ n.plain = FALSE
  BY <1>1, ResetFields DEF Keeps
<1>6. LET n == Reset(over)
      IN  /\ Keeps(over, n) /\ Tries(over, n)
          /\ n.pc = over.pc /\ n.answer = over.answer
  BY <1>2, ResetFields DEF Keeps
<1> QED
  BY <1>1, <1>2, <1>4, <1>5, <1>6 DEF FailsTo, Keeps, Tries

\* Goto changes the program counter and nothing else.
LEMMA GotoEffect ==
    ASSUME TypeInv, NEW a \in Actors, NEW c, DOMAIN c = Fields, NEW there, Goto(a, c, there)
    PROVE  OnlyOf(a) /\ GoesTo(c, call'[a], there)
<1> DEFINE n == [c EXCEPT !.pc = there]
<1>1. GoesTo(c, n, there)
  BY DEF GoesTo, Keeps, Tries, Fields
<1>2. call' = [call EXCEPT ![a] = n]
  BY DEF Goto
<1> HIDE DEF n
<1>3. OnlyOf(a) /\ call'[a] = n
  BY <1>2 DEF OnlyOf, TypeInv
<1> QED
  BY <1>1, <1>3

\* The call is over, with an answer.
Answers(c, n, id) == Keeps(c, n) /\ Tries(c, n) /\ n.pc = "done" /\ n.answer = id

\* Answer ends the call with an answer.
LEMMA AnswerEffect ==
    ASSUME TypeInv, NEW a \in Actors, DOMAIN call[a] = Fields, NEW id, Answer(a, id)
    PROVE  OnlyOf(a) /\ Answers(call[a], call'[a], id)
<1> DEFINE over == [call[a] EXCEPT !.pc = "done", !.answer = id]
<1>1. Keeps(call[a], over) /\ Tries(call[a], over) /\ over.pc = "done" /\ over.answer = id
  BY DEF Keeps, Tries, Fields
<1>2. call' = [call EXCEPT ![a] = Reset(over)]
  BY DEF Answer
<1> HIDE DEF over
<1>3. OnlyOf(a) /\ call'[a] = Reset(over)
  BY <1>2 DEF OnlyOf, TypeInv
<1>4. LET n == Reset(over)
      IN  /\ Keeps(over, n) /\ Tries(over, n)
          /\ n.pc = over.pc /\ n.answer = over.answer
  BY <1>1, ResetFields DEF Keeps
<1> QED
  BY <1>1, <1>3, <1>4 DEF Answers, Keeps, Tries

\* Lose fails, and remembers the attempt.
LEMMA LoseEffect ==
    ASSUME TypeInv, NEW a \in Actors, DOMAIN call[a] = Fields, NEW fault, Lose(a, fault)
    PROVE  OnlyOf(a) /\ FailsTo(a, call[a], Lost(call[a]), call'[a])
<1> DEFINE d == [call[a] EXCEPT !.lost = call[a].lost \cup {call[a].attempt}]
<1>1. Keeps(call[a], d) /\ d.attempt = call[a].attempt /\ d.lost = Lost(call[a])
  BY DEF Keeps, Fields, Lost
<1>2. Fail(a, d)
  BY DEF Lose
<1> HIDE DEF d
<1>3. OnlyOf(a) /\ FailsTo(a, d, d.lost, call'[a])
  BY <1>1, <1>2, FailEffect DEF Keeps
<1> QED
  BY <1>1, <1>3 DEF FailsTo, Keeps

FetchLocalEffect(a, c, n) ==
    LET p == PathOf(c.url)
    IN  \/ /\ p # NoPath /\ Exists(p) /\ Keeps(c, n) /\ Tries(c, n)
           /\ n.pc = "id" /\ n.path = Target(p) /\ n.idPath = Target(p)
        \/ (p = NoPath \/ ~Exists(p)) /\ FailsTo(a, c, c.lost, n)

\* The path is resolved, or the attempt fails.
LEMMA FetchLocalDoes ==
    ASSUME TypeInv, NEW a \in Actors, FetchLocal(a)
    PROVE  OnlyOf(a) /\ FetchLocalEffect(a, call[a], call'[a])
<1> DEFINE c == call[a]
           p == PathOf(c.url)
           d == [c EXCEPT !.path = Target(p), !.idPath = Target(p)]
<1>1. DOMAIN c = Fields
  BY DEF TypeInv, CallType, FetchLocal, At, Idle
<1>2. IF p # NoPath /\ Exists(p) THEN Goto(a, d, "id") ELSE Fail(a, c)
  BY DEF FetchLocal
<1>3. Keeps(c, d) /\ Tries(c, d) /\ d.path = Target(p) /\ d.idPath = Target(p)
  BY <1>1 DEF Keeps, Tries, Fields
<1> HIDE DEF c, d, p
<1>4. CASE p # NoPath /\ Exists(p)
  <2>1. OnlyOf(a) /\ GoesTo(d, call'[a], "id")
    BY <1>2, <1>3, <1>4, GotoEffect DEF Keeps
  <2> QED
    BY <1>3, <1>4, <2>1 DEF FetchLocalEffect, GoesTo, Keeps, Tries, c, p
<1>5. CASE ~(p # NoPath /\ Exists(p))
  BY <1>1, <1>2, <1>5, FailEffect DEF FetchLocalEffect, c, p
<1> QED
  BY <1>4, <1>5

ProvideIDEffect(a, c, n) ==
    /\ Keeps(c, n) /\ Tries(c, n) /\ n.path = c.path
    /\ \/ Exists(c.idPath) /\ n.pc = "stat" /\ n.idPath = Target(c.idPath)
       \/ ~Exists(c.idPath) /\ n.pc = AfterID(a) /\ n.id = Unresolved

\* The path is resolved once more, or its id is Unresolved.
LEMMA ProvideIDDoes ==
    ASSUME TypeInv, NEW a \in Actors, ProvideID(a)
    PROVE  OnlyOf(a) /\ ProvideIDEffect(a, call[a], call'[a])
<1> DEFINE c == call[a]
           d == [c EXCEPT !.idPath = Target(c.idPath)]
           e == [c EXCEPT !.id = Unresolved]
<1>1. DOMAIN c = Fields
  BY DEF TypeInv, CallType, ProvideID, At, Idle
<1>2. IF Exists(c.idPath) THEN Goto(a, d, "stat") ELSE Goto(a, e, AfterID(a))
  BY DEF ProvideID
<1>3. Keeps(c, d) /\ Tries(c, d) /\ d.path = c.path /\ d.idPath = Target(c.idPath)
  BY <1>1 DEF Keeps, Tries, Fields
<1>4. Keeps(c, e) /\ Tries(c, e) /\ e.path = c.path /\ e.id = Unresolved
  BY <1>1 DEF Keeps, Tries, Fields
<1> HIDE DEF c, d, e
<1>5. CASE Exists(c.idPath)
  <2>1. OnlyOf(a) /\ GoesTo(d, call'[a], "stat")
    BY <1>2, <1>3, <1>5, GotoEffect DEF Keeps
  <2> QED
    BY <1>3, <1>5, <2>1 DEF ProvideIDEffect, GoesTo, Keeps, Tries, c
<1>6. CASE ~Exists(c.idPath)
  <2>1. OnlyOf(a) /\ GoesTo(e, call'[a], AfterID(a))
    BY <1>2, <1>4, <1>6, GotoEffect DEF Keeps
  <2> QED
    BY <1>4, <1>6, <2>1 DEF ProvideIDEffect, GoesTo, Keeps, Tries, c
<1> QED
  BY <1>5, <1>6

StatEffect(a, c, n) ==
    /\ Keeps(c, n) /\ Tries(c, n) /\ n.path = c.path
    /\ n.pc = AfterID(a) /\ n.id = LocalImageID(c.idPath, Nanosecond(c.idPath))

\* The id is made of path and modification time.
LEMMA StatDoes ==
    ASSUME TypeInv, NEW a \in Actors, StatForID(a)
    PROVE  OnlyOf(a) /\ StatEffect(a, call[a], call'[a])
<1> DEFINE c == call[a]
           d == [c EXCEPT !.id = LocalImageID(c.idPath, Nanosecond(c.idPath))]
<1>1. DOMAIN c = Fields
  BY DEF TypeInv, CallType, StatForID, At, Idle
<1>2. Goto(a, d, AfterID(a))
  BY DEF StatForID
<1>3. /\ Keeps(c, d) /\ Tries(c, d) /\ d.path = c.path
      /\ d.id = LocalImageID(c.idPath, Nanosecond(c.idPath))
  BY <1>1 DEF Keeps, Tries, Fields
<1> HIDE DEF c, d
<1>4. OnlyOf(a) /\ GoesTo(d, call'[a], AfterID(a))
  BY <1>2, <1>3, GotoEffect DEF Keeps
<1> QED
  BY <1>3, <1>4 DEF StatEffect, GoesTo, Keeps, Tries, c

LockEffect(a, c, n) ==
    \/ c.id \in DOMAIN graph /\ Answers(c, n, c.id)
    \/ /\ c.id \notin DOMAIN graph /\ Keeps(c, n) /\ Tries(c, n) /\ n.pc = "register"
       /\ n.path = c.path /\ n.id = c.id /\ n.read = TarOf(c.path, time)

\* The layer is there, or its tar is started.
LEMMA LockDoes ==
    ASSUME TypeInv, NEW a \in Actors, LockLocal(a)
    PROVE  OnlyOf(a) /\ LockEffect(a, call[a], call'[a])
<1> DEFINE c == call[a]
           d == [c EXCEPT !.read = TarOf(c.path, time)]
<1>1. DOMAIN c = Fields
  BY DEF TypeInv, CallType, LockLocal, At, Idle
<1>2. IF c.id \in DOMAIN graph THEN Answer(a, c.id) ELSE Goto(a, d, "register")
  BY DEF LockLocal
<1>3. /\ Keeps(c, d) /\ Tries(c, d) /\ d.path = c.path /\ d.id = c.id
      /\ d.read = TarOf(c.path, time)
  BY <1>1 DEF Keeps, Tries, Fields
<1>4. CASE c.id \in DOMAIN graph
  BY <1>1, <1>2, <1>4, AnswerEffect DEF LockEffect
<1> HIDE DEF c, d
<1>5. CASE c.id \notin DOMAIN graph
  <2>1. OnlyOf(a) /\ GoesTo(d, call'[a], "register")
    BY <1>2, <1>3, <1>5, GotoEffect DEF Keeps
  <2> QED
    BY <1>3, <1>5, <2>1 DEF LockEffect, GoesTo, Keeps, Tries, c
<1> QED
  BY <1>4, <1>5

\* Either the layer is registered, or the attempt is lost.
RegisterEffect(a, c, n) ==
    \/ graph' = WithLayer(c.id, c.read) /\ Answers(c, n, c.id)
    \/ graph' = graph /\ FailsTo(a, c, Lost(c), n)

\* The layer is registered, or the attempt is lost.
LEMMA RegisterDoes ==
    ASSUME TypeInv, NEW a \in Actors, RegisterLocal(a) \/ FetchLayers(a)
    PROVE  OnlyOf(a) /\ RegisterEffect(a, call[a], call'[a])
<1>1. DOMAIN call[a] = Fields
  BY DEF TypeInv, CallType, RegisterLocal, FetchLayers, At, Idle
<1>2. \/ graph' = WithLayer(call[a].id, call[a].read) /\ Answer(a, call[a].id)
      \/ graph' = graph /\ (Lose(a, "disk") \/ Lose(a, "network"))
  BY DEF RegisterLocal, FetchLayers
<1> QED
  BY <1>1, <1>2, AnswerEffect, LoseEffect DEF RegisterEffect

AnswersPing(u) ==
    \/ Hosts[u.host].https = "verified"
    \/ Hosts[u.host].https = "selfsigned" /\ AllowInsecure(u.host)

DialEffect(a, c, n) ==
    LET open == AllowInsecure(c.url.host) /\ Hosts[c.url.host].http
    IN  \/ AnswersPing(c.url) /\ GoesTo(c, n, "manifest")
        \/ /\ open /\ Keeps(c, n) /\ n.pc = "manifest" /\ n.plain = TRUE /\ n.attempt = c.attempt
           /\ (~AnswersPing(c.url) /\ n.lost = c.lost) \/ n.lost = Lost(c)
        \/ ~AnswersPing(c.url) /\ ~open /\ FailsTo(a, c, c.lost, n)
        \/ FailsTo(a, c, Lost(c), n)

\* The registry answers over https or, where that is allowed, over http.
LEMMA DialDoes ==
    ASSUME TypeInv, NEW a \in Actors, Dial(a)
    PROVE  OnlyOf(a) /\ DialEffect(a, call[a], call'[a])
<1> DEFINE c == call[a]
           l == [c EXCEPT !.lost = c.lost \cup {c.attempt}]
           plain == [c EXCEPT !.plain = TRUE]
           both == [l EXCEPT !.plain = TRUE]
           open == AllowInsecure(c.url.host) /\ Hosts[c.url.host].http
<1>1. DOMAIN c = Fields
  BY DEF TypeInv, CallType, Dial, At, Idle
<1>2. Keeps(c, l) /\ l.attempt = c.attempt /\ l.lost = Lost(c)
  BY <1>1 DEF Keeps, Lost, Fields
<1>3. Keeps(c, plain) /\ Tries(c, plain) /\ plain.plain = TRUE
  BY <1>1 DEF Keeps, Tries, Fields
<1>4. Keeps(c, both) /\ both.attempt = c.attempt /\ both.lost = Lost(c) /\ both.plain = TRUE
  BY <1>1 DEF Keeps, Lost, Fields
<1>5. \/ AnswersPing(c.url) /\ Goto(a, c, "manifest")
      \/ ~AnswersPing(c.url) /\ open /\ Goto(a, plain, "manifest")
      \/ ~AnswersPing(c.url) /\ ~open /\ Fail(a, c)
      \/ open /\ Goto(a, both, "manifest")
      \/ Fail(a, l)
      \/ Lose(a, "network")
  BY DEF Dial, AnswersPing
<1> HIDE DEF c, l, plain, both
<1>6. CASE AnswersPing(c.url) /\ Goto(a, c, "manifest")
  BY <1>1, <1>6, GotoEffect DEF DialEffect, c
<1>7. CASE ~AnswersPing(c.url) /\ open /\ Goto(a, plain, "manifest")
  <2>1. OnlyOf(a) /\ GoesTo(plain, call'[a], "manifest")
    BY <1>3, <1>7, GotoEffect DEF Keeps
  <2> QED
    BY <1>3, <1>7, <2>1 DEF DialEffect, GoesTo, Keeps, Tries, c
<1>8. CASE ~AnswersPing(c.url) /\ ~open /\ Fail(a, c)
  BY <1>1, <1>8, FailEffect DEF DialEffect, c
<1>9. CASE open /\ Goto(a, both, "manifest")
  <2>1. OnlyOf(a) /\ GoesTo(both, call'[a], "manifest")
    BY <1>4, <1>9, GotoEffect DEF Keeps
  <2> QED
    BY <1>4, <1>9, <2>1 DEF DialEffect, GoesTo, Keeps, Tries, c
<1>10. CASE Fail(a, l)
  <2>1. OnlyOf(a) /\ FailsTo(a, l, l.lost, call'[a])
    BY <1>2, <1>10, FailEffect DEF Keeps
  <2>2. FailsTo(a, c, Lost(c), call'[a])
    BY <1>2, <2>1 DEF FailsTo, Keeps
  <2> QED
    BY <2>1, <2>2 DEF DialEffect, c
<1>11. CASE Lose(a, "network")
  BY <1>1, <1>11, LoseEffect DEF DialEffect, c
<1> QED
  BY <1>5, <1>6, <1>7, <1>8, <1>9, <1>10, <1>11

ManifestEffect(a, c, n) ==
    LET allowed == Hosts[c.url.host].private => c.creds /\ ~c.plain
    IN  \/ /\ allowed /\ Keeps(c, n) /\ Tries(c, n)
           /\ n.pc = (IF a = Retainer THEN "retain" ELSE "layers")
           /\ n.id = DockerImageID(tag[c.url]) /\ n.read = {tag[c.url]}
        \/ ~allowed /\ FailsTo(a, c, c.lost, n)
        \/ FailsTo(a, c, Lost(c), n)

\* The id is that of the manifest the tag points to.
LEMMA ManifestDoes ==
    ASSUME TypeInv, NEW a \in Actors, GetManifest(a)
    PROVE  OnlyOf(a) /\ ManifestEffect(a, call[a], call'[a])
<1> DEFINE c == call[a]
           there == IF a = Retainer THEN "retain" ELSE "layers"
           d == [c EXCEPT !.id = DockerImageID(tag[c.url]), !.read = {tag[c.url]}]
           allowed == Hosts[c.url.host].private => c.creds /\ ~c.plain
<1>1. DOMAIN c = Fields
  BY DEF TypeInv, CallType, GetManifest, At, Idle
<1>2. \/ allowed /\ Goto(a, d, there)
      \/ ~allowed /\ Fail(a, c)
      \/ Lose(a, "network")
  BY DEF GetManifest
<1>3. /\ Keeps(c, d) /\ Tries(c, d)
      /\ d.id = DockerImageID(tag[c.url]) /\ d.read = {tag[c.url]}
  BY <1>1 DEF Keeps, Tries, Fields
<1> HIDE DEF c, d, there
<1>4. CASE allowed /\ Goto(a, d, there)
  <2>1. OnlyOf(a) /\ GoesTo(d, call'[a], there)
    BY <1>3, <1>4, GotoEffect DEF Keeps
  <2> QED
    BY <1>3, <1>4, <2>1 DEF ManifestEffect, GoesTo, Keeps, Tries, c, there
<1>5. CASE ~allowed /\ Fail(a, c)
  BY <1>1, <1>5, FailEffect DEF ManifestEffect, c
<1>6. CASE Lose(a, "network")
  BY <1>1, <1>6, LoseEffect DEF ManifestEffect, c
<1> QED
  BY <1>2, <1>4, <1>5, <1>6

\* A new call, of a request or of the retainer.
Begins(n, u) ==
    /\ DOMAIN n = Fields /\ n.url = u /\ n.attempt = 1 /\ n.lost = {} /\ n.plain = FALSE
    /\ n.seen = {SourceOf(u, time, tag)}

\* A new call has lost nothing.
LEMMA BeginFields ==
    ASSUME NEW u, NEW creds
    PROVE  LET n == Begin(u, creds) IN Begins(n, u) /\ n.creds = creds /\ n.pc = "attempt"
  BY DEF Begin, Begins, Fields

\* A request begins its call.
LEMMA FetchDoes ==
    ASSUME TypeInv, NEW r \in Requests, Fetch(r)
    PROVE  OnlyOf(r) /\ Begins(call'[r], call[r].url) /\ call'[r].pc = "attempt"
<1> DEFINE n == Begin(call[r].url, call[r].creds)
<1>1. call' = [call EXCEPT ![r] = n]
  BY DEF Fetch
<1> HIDE DEF n
<1>2. OnlyOf(r) /\ call'[r] = n
  BY <1>1 DEF OnlyOf, TypeInv, Actors
<1> QED
  BY <1>2, BeginFields DEF n

RetainNextEffect(n) ==
    LET u == Head(todo)
    IN  /\ Begins(n, u)
        /\ \/ IsDocker(u) /\ n.pc = "attempt"
           \/ ~IsDocker(u) /\ n.pc = "id" /\ n.idPath = u.path

\* The retainer begins with the next image.
LEMMA RetainNextDoes ==
    ASSUME TypeInv, RetainNext
    PROVE  OnlyOf(Retainer) /\ RetainNextEffect(call'[Retainer])
<1> DEFINE u == Head(todo)
           b == Begin(u, FALSE)
           d == [b EXCEPT !.pc = "id", !.idPath = u.path]
<1>1. call' = [call EXCEPT ![Retainer] = IF IsDocker(u) THEN b ELSE d]
  BY DEF RetainNext
<1>2. Begins(b, u) /\ b.pc = "attempt"
  BY BeginFields
<1> HIDE DEF b
<1>3. Begins(d, u) /\ d.pc = "id" /\ d.idPath = u.path
  BY <1>2 DEF Begins, Fields
<1> HIDE DEF d
<1>4. OnlyOf(Retainer) /\ call'[Retainer] = IF IsDocker(u) THEN b ELSE d
  BY <1>1 DEF OnlyOf, TypeInv, Actors
<1> QED
  BY <1>2, <1>3, <1>4 DEF RetainNextEffect

\* A call that is over leaves nothing.
LEMMA IdleDoes ==
    ASSUME TypeInv, NEW a \in Actors, call' = [call EXCEPT ![a] = NoCall]
    PROVE  OnlyOf(a) /\ call'[a] = NoCall
  BY DEF OnlyOf, TypeInv

\* A change of the world, and what a call makes of it.
NoticeEffect(a, c, n) ==
    IF Idle(a) THEN n = c
    ELSE /\ DOMAIN n = Fields /\ n.pc = c.pc /\ n.url = c.url /\ n.creds = c.creds
         /\ n.attempt = c.attempt /\ n.lost = c.lost /\ n.path = c.path /\ n.idPath = c.idPath
         /\ n.id = c.id /\ n.plain = c.plain /\ n.answer = c.answer
         /\ n.seen = IF At(a, "done") THEN c.seen
                     ELSE c.seen \cup {SourceOf(c.url, time', tag')}
         /\ n.read = IF At(a, "register") THEN c.read \cup TarOf(c.path, time') ELSE c.read

\* Everybody under way sees a change.
LEMMA NoticeDoes ==
    ASSUME TypeInv, Notice
    PROVE  /\ call' = [a \in Actors |-> call'[a]]
           /\ \A a \in Actors : NoticeEffect(a, call[a], call'[a])
<1>1. ASSUME NEW a \in Actors PROVE NoticeEffect(a, call[a], call'[a])
  <2> DEFINE c == call[a]
             seen == IF At(a, "done") THEN c.seen ELSE c.seen \cup {SourceOf(c.url, time', tag')}
             read == IF At(a, "register") THEN c.read \cup TarOf(c.path, time') ELSE c.read
             d == [c EXCEPT !.seen = seen, !.read = read]
  <2>1. call'[a] = IF Idle(a) THEN c ELSE d
    BY DEF Notice
  <2> HIDE DEF seen, read
  <2>2. ~Idle(a) => DOMAIN c = Fields
    BY DEF TypeInv, CallType
  <2>3. CASE ~Idle(a)
    <3>1. /\ DOMAIN d = Fields /\ d.pc = c.pc /\ d.url = c.url /\ d.creds = c.creds
          /\ d.attempt = c.attempt /\ d.lost = c.lost /\ d.path = c.path /\ d.idPath = c.idPath
          /\ d.id = c.id /\ d.plain = c.plain /\ d.answer = c.answer
          /\ d.seen = seen /\ d.read = read
      BY <2>2, <2>3 DEF Fields
    <3> HIDE DEF d
    <3> QED
      BY <2>1, <2>3, <3>1 DEF NoticeEffect, seen, read
  <2> QED
    BY <2>1, <2>3 DEF NoticeEffect
<1>2. call' = [a \in Actors |-> call'[a]]
  BY DEF Notice
<1> QED
  BY <1>1, <1>2

----------------------------------------------------------------------------
\* A call that fails is tried again, or over.
LEMMA FailType ==
    ASSUME TypeInv, NEW a \in Actors, ~Idle(a), NEW lost, FailsTo(a, call[a], lost, call'[a])
    PROVE  CallType(a)'
<1>1. MaxAttempts \in Nat \ {0} /\ call[a].attempt \in 1..MaxAttempts /\ call[a].url \in Urls
  BY TimeAssumption DEF TypeInv, CallType, Idle, At
<1>2. a # Retainer => a \in Requests
  BY DEF Actors
<1> QED
  BY <1>1, <1>2 DEF FailsTo, Keeps, CallType, Idle, At, NoCall, Asking, LocalSteps, RemoteSteps

\* Statements change nothing but their own call, the graph and the mutex.
Alone(a) == /\ UNCHANGED <<world, retained, todo, held>>
            /\ OnlyOf(a)

\* Every statement of a Fetch leaves the other calls alone.
LEMMA StepAlone ==
    ASSUME TypeInv, NEW a \in Actors, Step(a)
    PROVE  Alone(a)
<1>1. UNCHANGED <<world, retained, todo, held>>
  BY DEF Step, FetchLocal, ProvideID, StatForID, LockLocal, RegisterLocal, Dial, GetManifest,
         FetchLayers
<1>2. OnlyOf(a)
  BY FetchLocalDoes, ProvideIDDoes, StatDoes, LockDoes, RegisterDoes, DialDoes, ManifestDoes
  DEF Step
<1> QED
  BY <1>1, <1>2 DEF Alone

\* Every statement of a Fetch keeps its call's type.
LEMMA StepType ==
    ASSUME TypeInv, NEW a \in Actors, Step(a)
    PROVE  CallType(a)'
<1> USE DEF CallType, Idle, At, Asking, LocalSteps, RemoteSteps, Keeps, Tries, AfterID
<1> DEFINE c == call[a]
           n == call'[a]
<1>1. ~Idle(a) /\ CallType(a) /\ c.attempt \in 1..MaxAttempts /\ c.url \in Urls
  BY DEF TypeInv, Step, FetchLocal, ProvideID, StatForID, LockLocal, RegisterLocal, Dial,
         GetManifest, FetchLayers
<1>2. a # Retainer <=> a \in Requests
  BY UrlsAssumption DEF Actors
<1>3. CASE FetchLocal(a)
  BY <1>1, <1>2, <1>3, FetchLocalDoes, FailType DEF FetchLocalEffect
<1>4. CASE ProvideID(a)
  BY <1>1, <1>2, <1>4, ProvideIDDoes DEF ProvideIDEffect
<1>5. CASE StatForID(a)
  BY <1>1, <1>2, <1>5, StatDoes DEF StatEffect
<1>6. CASE LockLocal(a)
  BY <1>1, <1>2, <1>6, LockDoes DEF LockEffect, Answers, LockLocal
<1>7. CASE RegisterLocal(a) \/ FetchLayers(a)
  BY <1>1, <1>2, <1>7, RegisterDoes, FailType
  DEF RegisterEffect, Answers, RegisterLocal, FetchLayers
<1>8. CASE Dial(a)
  BY <1>1, <1>2, <1>8, DialDoes, FailType DEF DialEffect, GoesTo
<1>9. CASE GetManifest(a)
  BY <1>1, <1>2, <1>9, ManifestDoes, FailType DEF ManifestEffect
<1> QED
  BY <1>3, <1>4, <1>5, <1>6, <1>7, <1>8, <1>9 DEF Step

\* The parts of Next, by what they may change.
Worldly ==
    \/ \E d \in Dirs : Edit(d) \/ Unlink(d)
    \/ \E u \in Tags, m \in Manifests : Push(u, m)

\* A change of the world is that of a directory or of a tag, at a new time.
LEMMA WorldlyDoes ==
    ASSUME TypeInv, Worldly
    PROVE  /\ now' = now + 1 /\ now < MaxTime
           /\ \/ /\ tag' = tag
                 /\ \E d \in Dirs : \E t \in {0, now + 1} : time' = [time EXCEPT ![d] = t]
              \/ time' = time /\ \E u \in Tags, m \in Manifests : tag' = [tag EXCEPT ![u] = m]
           /\ Notice /\ UNCHANGED <<graph, retained, todo, mu, held>>
  BY DEF Worldly, Edit, Unlink, Push

\* A step that changes one call keeps the types, if that call keeps its.
LEMMA TypeFrame ==
    ASSUME TypeInv, NEW a \in Actors, OnlyOf(a), UNCHANGED world, todo' \in Seq(Urls), CallType(a)'
    PROVE  TypeInv'
<1>1. \A b \in Actors \ {a} : call'[b] = call[b]
  BY DEF OnlyOf
<1>2. \A b \in Actors : CallType(b)'
  BY <1>1 DEF TypeInv, CallType, Idle, At
<1>3. call' = [b \in Actors |-> call'[b]]
  BY DEF OnlyOf
<1> QED
  BY <1>2, <1>3 DEF TypeInv, world

\* Every step keeps the types.
LEMMA NextTypeInv == TypeInv /\ [Next]_vars => TypeInv'
<1> SUFFICES ASSUME TypeInv, [Next]_vars
             PROVE  TypeInv'
  OBVIOUS
<1>1. ASSUME NEW a \in Actors, Step(a) PROVE TypeInv'
  BY <1>1, StepAlone, StepType, TypeFrame DEF Alone, TypeInv
<1>2. CASE RetainNext
  <2>1. /\ todo' = Tail(todo) /\ todo # <<>> /\ UNCHANGED world
        /\ todo' \in Seq(Urls) /\ Head(todo) \in Urls
    BY <1>2 DEF RetainNext, TypeInv
  <2>2. OnlyOf(Retainer) /\ RetainNextEffect(call'[Retainer])
    BY <1>2, RetainNextDoes
  <2>3. CallType(Retainer)'
    BY <2>1, <2>2, TimeAssumption DEF RetainNextEffect, Begins, CallType, Idle, At, Asking,
       LocalSteps, RemoteSteps
  <2> QED
    BY <2>1, <2>2, <2>3, TypeFrame DEF Actors
<1>3. ASSUME NEW a \in Actors, call' = [call EXCEPT ![a] = NoCall], UNCHANGED <<world, todo>>
      PROVE  TypeInv'
  <2>1. OnlyOf(a) /\ call'[a] = NoCall
    BY <1>3, IdleDoes
  <2>2. CallType(a)'
    BY <2>1 DEF CallType, NoCall, Idle, At, Asking, LocalSteps, RemoteSteps
  <2> QED
    BY <1>3, <2>1, <2>2, TypeFrame DEF TypeInv
<1>4. CASE Retain
  BY <1>3, <1>4 DEF Retain, Actors
<1>5. ASSUME NEW r \in Requests, Return(r) PROVE TypeInv'
  BY <1>3, <1>5 DEF Return, Actors
<1>6. ASSUME NEW r \in Requests, Fetch(r) PROVE TypeInv'
  <2>1. OnlyOf(r) /\ Begins(call'[r], call[r].url) /\ call'[r].pc = "attempt"
    BY <1>6, FetchDoes
  <2>2. call[r].url \in Urls /\ r \in Actors
    BY <1>6 DEF Fetch, TypeInv, CallType, At, Actors
  <2>3. CallType(r)'
    BY <2>1, <2>2, TimeAssumption DEF Begins, CallType, Idle, At, Asking, LocalSteps, RemoteSteps
  <2> QED
    BY <1>6, <2>1, <2>2, <2>3, TypeFrame DEF Fetch, TypeInv
<1>7. CASE Worldly
  <2>1. call' = [a \in Actors |-> call'[a]] /\ \A a \in Actors : NoticeEffect(a, call[a], call'[a])
    BY <1>7, WorldlyDoes, NoticeDoes
  <2>2. \A a \in Actors : CallType(a)'
    BY <2>1 DEF TypeInv, CallType, NoticeEffect, Idle, At
  <2>3. now' \in 1..MaxTime /\ now' = now + 1 /\ now \in Nat /\ todo' = todo
    BY <1>7, WorldlyDoes, TimeAssumption DEF TypeInv
  <2>4. time' \in [Dirs -> 0..now'] /\ tag' \in [Tags -> Manifests]
    <3>1. 0..now \subseteq 0..now' /\ 0 \in 0..now' /\ now + 1 \in 0..now'
      BY <2>3
    <3> HIDE DEF Tags
    <3>2. CASE tag' = tag /\ \E d \in Dirs : \E t \in {0, now + 1} : time' = [time EXCEPT ![d] = t]
      BY <3>1, <3>2 DEF TypeInv
    <3>3. CASE time' = time /\ \E u \in Tags, m \in Manifests : tag' = [tag EXCEPT ![u] = m]
      BY <3>1, <3>3 DEF TypeInv
    <3> QED
      BY <1>7, WorldlyDoes, <3>2, <3>3
  <2> QED
    BY <2>1, <2>2, <2>3, <2>4 DEF TypeInv
<1>8. CASE Collect
  BY <1>8 DEF Collect, TypeInv, CallType, world, Idle, At
<1>9. CASE UNCHANGED vars
  BY <1>9 DEF vars, TypeInv, CallType, world, Idle, At
<1> QED
  BY <1>1, <1>2, <1>4, <1>5, <1>6, <1>7, <1>8, <1>9 DEF Next, Worldly

\* The types are right initially.
LEMMA InitTypeInv == Init => TypeInv
<1> SUFFICES ASSUME Init
             PROVE  TypeInv
  OBVIOUS
<1>1. now \in 1..MaxTime /\ time \in [Dirs -> 0..now] /\ tag \in [Tags -> Manifests]
  BY TimeAssumption, RegistryAssumption DEF Init
<1>2. PICK w \in Workloads :
        /\ todo = w.persistent
        /\ call = [a \in Actors |->
            IF a \in DOMAIN w.calls
            THEN [pc |-> "ready", url |-> w.calls[a].url, creds |-> w.calls[a].creds]
            ELSE NoCall]
  BY DEF Init
<1>3. /\ todo \in Seq(Urls) /\ DOMAIN w.calls \subseteq Requests
      /\ \A r \in DOMAIN w.calls : w.calls[r].url \in Urls
  BY <1>2, UrlsAssumption
<1>4. ASSUME NEW a \in Actors PROVE CallType(a)
  <2>1. CASE a \in DOMAIN w.calls
    <3>1. call[a].pc = "ready" /\ call[a].url \in Urls /\ a \in Requests
      BY <1>2, <1>3, <2>1
    <3> QED
      BY <3>1 DEF CallType, Idle, At, Asking, LocalSteps, RemoteSteps
  <2>2. CASE a \notin DOMAIN w.calls
    <3>1. call[a].pc = "idle"
      BY <1>2, <2>2 DEF NoCall
    <3> QED
      BY <3>1 DEF CallType, Idle, At, Asking, LocalSteps, RemoteSteps
  <2> QED
    BY <2>1, <2>2
<1>5. call = [a \in Actors |-> call[a]]
  BY <1>2
<1> QED
  BY <1>1, <1>3, <1>4, <1>5 DEF TypeInv

----------------------------------------------------------------------------
\* CompositeFetcher's choice.  (The retainer may be looking for the path of a URL
\* with another scheme.)
KindInv(a) ==
    /\ (call[a].pc \in LocalSteps /\ a \in Requests) => IsLocal(call[a].url)
    /\ call[a].pc \in RemoteSteps => ~IsLocal(call[a].url)

\* A call has seen what its source holds now.
SeenInv(a) == Underway(a) => SourceOf(call[a].url, time, tag) \in call[a].seen

\* The attempts before this one were lost, if the source could be had.
Available(c) == IF IsLocal(c.url) THEN Absent \notin c.seen ELSE MayFetch(c.url, c.creds)

LostInv(a) == LET c == call[a] IN Underway(a) =>
    /\ c.lost \subseteq 1..c.attempt
    /\ Available(c) => 1..(c.attempt - 1) \subseteq c.lost

\* What is known of the source once it has been reached.
ReachInv(a) ==
    LET c == call[a]
    IN  /\ c.pc = "attempt" => c.plain = FALSE
        /\ c.pc = "manifest" => c.plain \in BOOLEAN
        /\ (c.pc \in LocalSteps /\ a \in Requests /\ c.url.path \in Dirs) => c.seen # {Absent}
        /\ (c.pc = "manifest" /\ c.plain = FALSE) => AnswersPing(c.url)
        /\ (c.pc = "manifest" /\ c.plain = TRUE) =>
             /\ AllowInsecure(c.url.host) /\ Hosts[c.url.host].http
             /\ c.attempt \in c.lost \/ ~AnswersPing(c.url)
        /\ c.pc = "layers" => MayFetch(c.url, c.creds)
        /\ c.pc \in {"lock", "register", "layers"} => c.id # Failure

\* FailuresHaveCauses, for one call.
OverInv(a) ==
    LET c == call[a]
    IN  At(a, "done") =>
        /\ c.answer = Failure => ~Available(c) \/ c.lost = 1..MaxAttempts
        /\ c.answer # Failure =>
             IF IsLocal(c.url) THEN c.url.path \in Dirs => c.seen # {Absent} ELSE Available(c)

OwnCause(a) == KindInv(a) /\ SeenInv(a) /\ LostInv(a) /\ ReachInv(a) /\ OverInv(a)
CauseInv == \A a \in Actors : OwnCause(a)

\* An attempt fails for a reason, or is lost.
LEMMA FailCause ==
    ASSUME TypeInv, NEW a \in Actors, OwnCause(a), Underway(a), UNCHANGED world,
           NEW lost, FailsTo(a, call[a], lost, call'[a]), lost \subseteq 1..call[a].attempt,
           Available(call[a]) => 1..call[a].attempt \subseteq lost
    PROVE  OwnCause(a)'
<1> DEFINE c == call[a]
           n == call'[a]
<1>1. c.attempt \in 1..MaxAttempts /\ MaxAttempts \in Nat
  BY TimeAssumption DEF TypeInv, CallType, Underway
<1>2. CASE n = NoCall
  BY <1>2 DEF OwnCause, KindInv, SeenInv, LostInv, ReachInv, OverInv, NoCall, LocalSteps,
              RemoteSteps, Underway, Idle, At
<1>3. CASE n # NoCall
  <2>4. Keeps(c, n)
    BY <1>3 DEF FailsTo
  <2>1. /\ Available(n) <=> Available(c)
        /\ SourceOf(n.url, time', tag') \in n.seen
    BY <2>4 DEF Keeps, Available, OwnCause, SeenInv, world
  <2>2. CASE /\ n.pc = "attempt" /\ n.attempt = c.attempt + 1 /\ n.lost = lost /\ n.plain = FALSE
    <3>1. n.lost \subseteq 1..n.attempt /\ (Available(n) => 1..(n.attempt - 1) \subseteq n.lost)
      BY <1>1, <2>1, <2>2
    <3> QED
      BY <2>1, <2>2, <3>1 DEF OwnCause, KindInv, SeenInv, LostInv, ReachInv, OverInv, LocalSteps,
                              RemoteSteps, Underway, Idle, At
  <2>3. CASE ~(c.attempt < MaxAttempts) /\ n.pc = "done" /\ n.lost = lost /\ n.answer = Failure
    <3>1. Available(n) => n.lost = 1..MaxAttempts
      <4>1. c.attempt = MaxAttempts
        BY <1>1, <2>3
      <4>2. Available(c) => lost = 1..c.attempt
        OBVIOUS
      <4> QED
        BY <2>1, <2>3, <4>1, <4>2
    <3> QED
      BY <2>3, <3>1 DEF OwnCause, KindInv, SeenInv, LostInv, ReachInv, OverInv, LocalSteps,
                        RemoteSteps, Underway, Idle, At
  <2> QED
    BY <1>3, <2>2, <2>3 DEF FailsTo
<1> QED
  BY <1>2, <1>3

\* An attempt that is lost counts.
LEMMA LoseCause ==
    ASSUME TypeInv, NEW a \in Actors, OwnCause(a), Underway(a), UNCHANGED world,
           FailsTo(a, call[a], Lost(call[a]), call'[a])
    PROVE  OwnCause(a)'
<1>1. /\ Lost(call[a]) \subseteq 1..call[a].attempt
      /\ Available(call[a]) => 1..call[a].attempt \subseteq Lost(call[a])
  <2>1. call[a].attempt \in Nat \ {0} /\ LostInv(a)
    BY TimeAssumption DEF TypeInv, CallType, Underway, OwnCause
  <2>2. 1..call[a].attempt = 1..(call[a].attempt - 1) \cup {call[a].attempt}
    BY <2>1
  <2> QED
    BY <2>1, <2>2 DEF Lost, LostInv
<1> QED
  BY <1>1, FailCause

\* The attempt has been lost already, or the source cannot be had.
LEMMA RefuseCause ==
    ASSUME TypeInv, NEW a \in Actors, OwnCause(a), Underway(a), UNCHANGED world,
           FailsTo(a, call[a], call[a].lost, call'[a]),
           Available(call[a]) => call[a].attempt \in call[a].lost
    PROVE  OwnCause(a)'
<1>1. Available(call[a]) => 1..call[a].attempt \subseteq call[a].lost
  <2>1. call[a].attempt \in Nat \ {0} /\ LostInv(a)
    BY TimeAssumption DEF TypeInv, CallType, Underway, OwnCause
  <2>2. 1..call[a].attempt = 1..(call[a].attempt - 1) \cup {call[a].attempt}
    BY <2>1
  <2> QED
    BY <2>1, <2>2 DEF LostInv
<1> QED
  BY <1>1, FailCause DEF OwnCause, LostInv

\* A call that goes on, as its caller sees it the same.
LEMMA GoCause ==
    ASSUME TypeInv, NEW a \in Actors, OwnCause(a), Underway(a), UNCHANGED world,
           Keeps(call[a], call'[a]), Tries(call[a], call'[a]), CallType(a)'
    PROVE  SeenInv(a)' /\ LostInv(a)'
<1> DEFINE c == call[a]
           n == call'[a]
<1>1. /\ Available(n) <=> Available(c)
      /\ SourceOf(n.url, time', tag') \in n.seen
  BY DEF Keeps, Available, OwnCause, SeenInv, world
<1> QED
  BY <1>1 DEF OwnCause, SeenInv, LostInv, Keeps, Tries

\* A path that is not there, or not given, leads to nothing.
LEMMA NothingThere ==
    ASSUME TypeInv, NEW u \in Urls, IsLocal(u), PathOf(u) = NoPath \/ ~Exists(PathOf(u))
    PROVE  SourceOf(u, time, tag) = Absent
<1>1. PathOf(u) \in Paths \cup {NoPath} /\ NoPath \notin Paths
  BY PathsAssumption, UrlsAssumption DEF PathOf, IsLocal, IsDocker
<1>2. CASE PathOf(u) = NoPath
  BY <1>1, <1>2 DEF SourceOf, Source, RootOf, Target, Paths
<1>3. CASE PathOf(u) \in Paths /\ ~Exists(PathOf(u))
  <2>1. PathOf(u) \in Dirs \ Links /\ time[PathOf(u)] = 0
    BY <1>3 DEF Exists, Paths, TypeInv
  <2> QED
    BY <2>1 DEF SourceOf, Source, RootOf, Target, StateAt
<1> QED
  BY <1>1, <1>2, <1>3

\* A directory that is there leads to itself.
LEMMA SomethingThere ==
    ASSUME TypeInv, NEW u \in Urls, IsLocal(u), u.path \in Dirs, Exists(PathOf(u))
    PROVE  SourceOf(u, time, tag) # Absent
<1>1. PathOf(u) = u.path /\ u.path \notin Links
  BY PathsAssumption DEF PathOf, Paths
<1>2. time[u.path] \in Nat /\ time[u.path] > 0
  BY <1>1 DEF Exists, TypeInv
<1> QED
  BY <1>1, <1>2 DEF SourceOf, Source, RootOf, Target, StateAt, Absent

\* What a ping over https, or over http, says of the registry.
LEMMA PingOrPlain ==
    ASSUME NEW u \in Tags, NEW creds
    PROVE  /\ (AnswersPing(u) /\ (Hosts[u.host].private => creds)) => MayFetch(u, creds)
           /\ (AllowInsecure(u.host) /\ Hosts[u.host].http /\ ~Hosts[u.host].private)
                => MayFetch(u, creds)
           /\ MayFetch(u, creds) =>
                /\ Hosts[u.host].private => creds
                /\ AnswersPing(u) \/ (AllowInsecure(u.host) /\ Hosts[u.host].http
                                        /\ ~Hosts[u.host].private)
<1>1. /\ Hosts[u.host].https \in {"verified", "selfsigned", "none"}
      /\ Hosts[u.host].http \in BOOLEAN /\ Hosts[u.host].private \in BOOLEAN
  BY UrlsAssumption, RegistryAssumption DEF Tags
<1> QED
  BY <1>1 DEF MayFetch, AnswersPing

\* Every statement of a Fetch keeps what is known of its call.
LEMMA StepCause ==
    ASSUME TypeInv, NEW a \in Actors, OwnCause(a), Step(a)
    PROVE  OwnCause(a)'
<1> DEFINE c == call[a]
           n == call'[a]
<1>1. /\ Underway(a) /\ UNCHANGED world /\ c.url \in Urls /\ CallType(a)'
  BY StepAlone, StepType
  DEF Alone, TypeInv, CallType, Step, FetchLocal, ProvideID, StatForID, LockLocal,
      RegisterLocal, Dial, GetManifest, FetchLayers, Underway, Idle, At
<1>2. ASSUME Keeps(c, n), Tries(c, n), KindInv(a)', ReachInv(a)', OverInv(a)'
      PROVE  OwnCause(a)'
  BY <1>1, <1>2, GoCause DEF OwnCause
<1>3. ASSUME Keeps(c, n), Tries(c, n), c.pc \in LocalSteps, n.pc \in LocalSteps \cup {"retain"},
             n.pc \in {"lock", "register"} => n.id # Failure
      PROVE  OwnCause(a)'
  <2>1. KindInv(a)' /\ OverInv(a)'
    BY <1>3 DEF OwnCause, KindInv, OverInv, Keeps, LocalSteps, RemoteSteps, At
  <2>2. ReachInv(a)'
    BY <1>3 DEF OwnCause, ReachInv, Keeps, LocalSteps, RemoteSteps
  <2> QED
    BY <1>2, <1>3, <2>1, <2>2
<1>4. ASSUME Answers(c, n, c.id), c.pc \in {"lock", "register", "layers"}
      PROVE  OwnCause(a)'
  <2>1. KindInv(a)' /\ ReachInv(a)'
    BY <1>4 DEF KindInv, ReachInv, Answers, LocalSteps, RemoteSteps
  <2>2. OverInv(a)'
    <3>1. a \in Requests
      BY <1>4 DEF TypeInv, CallType, Asking
    <3> QED
      BY <1>4, <3>1 DEF OwnCause, KindInv, ReachInv, OverInv, Answers, Keeps, Available, LocalSteps,
                RemoteSteps
  <2> QED
    BY <1>2, <1>4, <2>1, <2>2 DEF Answers
<1>5. CASE FetchLocal(a)
  <2>1. FetchLocalEffect(a, c, n) /\ IsLocal(c.url) /\ c.pc = "attempt"
    BY <1>5, FetchLocalDoes DEF FetchLocal, At
  <2>2. CASE /\ PathOf(c.url) # NoPath /\ Exists(PathOf(c.url)) /\ Keeps(c, n) /\ Tries(c, n)
             /\ n.pc = "id"
    <3>1. KindInv(a)' /\ OverInv(a)'
      BY <2>1, <2>2 DEF KindInv, OverInv, Keeps, RemoteSteps, At
    <3>2. c.url.path \in Dirs => SourceOf(c.url, time, tag) # Absent
      BY <1>1, <2>1, <2>2, SomethingThere
    <3>3. SourceOf(c.url, time, tag) \in c.seen
      BY <1>1 DEF OwnCause, SeenInv
    <3>4. ReachInv(a)'
      BY <2>2, <3>2, <3>3 DEF ReachInv, Keeps
    <3> QED
      BY <1>2, <2>2, <3>1, <3>4
  <2>3. CASE (PathOf(c.url) = NoPath \/ ~Exists(PathOf(c.url))) /\ FailsTo(a, c, c.lost, n)
    <3>1. ~Available(c)
      BY <1>1, <2>1, <2>3, NothingThere DEF OwnCause, SeenInv, Available
    <3> QED
      BY <1>1, <2>3, <3>1, RefuseCause
  <2> QED
    BY <2>1, <2>2, <2>3 DEF FetchLocalEffect
<1>6. CASE ProvideID(a)
  <2>1. n.id = Unresolved => n.id # Failure
    BY DEF Unresolved, LocalImageID, Failure
  <2> QED
    BY <1>3, <1>6, <2>1, ProvideIDDoes DEF ProvideID, At, ProvideIDEffect, AfterID, LocalSteps
<1>7. CASE StatForID(a)
  <2>1. StatEffect(a, c, n) /\ c.pc = "stat"
    BY <1>7, StatDoes DEF StatForID, At
  <2>2. n.id # Failure
    BY <2>1 DEF StatEffect, LocalImageID, Failure
  <2> QED
    BY <1>3, <2>1, <2>2 DEF StatEffect, AfterID, LocalSteps
<1>8. CASE LockLocal(a)
  <2>1. LockEffect(a, c, n) /\ c.pc = "lock"
    BY <1>8, LockDoes DEF LockLocal, At
  <2>2. c.id # Failure
    BY <2>1 DEF OwnCause, ReachInv
  <2> QED
    BY <1>3, <1>4, <2>1, <2>2 DEF LockEffect, LocalSteps
<1>9. CASE RegisterLocal(a) \/ FetchLayers(a)
  <2>1. RegisterEffect(a, c, n) /\ c.pc \in {"register", "layers"}
    BY <1>9, RegisterDoes DEF RegisterLocal, FetchLayers, At
  <2> QED
    BY <1>1, <1>4, <2>1, LoseCause DEF RegisterEffect
<1>10. CASE Dial(a)
  <2>1. /\ DialEffect(a, c, n) /\ c.pc = "attempt" /\ c.plain = FALSE
        /\ ~IsLocal(c.url) /\ c.url \in Tags
    BY <1>1, <1>10, DialDoes DEF Dial, At, Tags, OwnCause, ReachInv
  <2>2. ASSUME Keeps(c, n), n.pc = "manifest" PROVE KindInv(a)' /\ OverInv(a)'
    BY <2>1, <2>2 DEF KindInv, OverInv, Keeps, LocalSteps, At
  <2>3. CASE AnswersPing(c.url) /\ GoesTo(c, n, "manifest")
    <3>1. ReachInv(a)'
      BY <2>1, <2>3 DEF ReachInv, GoesTo, Keeps, LocalSteps
    <3> QED
      BY <1>2, <2>2, <2>3, <3>1 DEF GoesTo
  <2>4. CASE /\ AllowInsecure(c.url.host) /\ Hosts[c.url.host].http /\ Keeps(c, n)
             /\ n.pc = "manifest" /\ n.plain = TRUE /\ n.attempt = c.attempt
             /\ (~AnswersPing(c.url) /\ n.lost = c.lost) \/ n.lost = Lost(c)
    <3>1. ReachInv(a)'
      BY <2>1, <2>4 DEF ReachInv, Keeps, LocalSteps, Lost
    <3>2. SeenInv(a)'
      BY <1>1, <2>4 DEF OwnCause, SeenInv, Keeps, world
    <3>3. Lost(c) \subseteq 1..c.attempt /\ c.lost \subseteq Lost(c)
      BY <1>1 DEF TypeInv, CallType, Underway, OwnCause, LostInv, Lost
    <3>4. Available(n) <=> Available(c)
      BY <2>4 DEF Available, Keeps
    <3>5. LostInv(a)'
      BY <1>1, <2>4, <3>3, <3>4 DEF OwnCause, LostInv
    <3> QED
      BY <2>2, <2>4, <3>1, <3>2, <3>5 DEF OwnCause
  <2>5. CASE /\ ~AnswersPing(c.url) /\ ~(AllowInsecure(c.url.host) /\ Hosts[c.url.host].http)
             /\ FailsTo(a, c, c.lost, n)
    <3>1. ~Available(c)
      BY <2>1, <2>5, PingOrPlain DEF Available
    <3> QED
      BY <1>1, <2>5, <3>1, RefuseCause
  <2>6. CASE FailsTo(a, c, Lost(c), n)
    BY <1>1, <2>6, LoseCause
  <2> QED
    BY <2>1, <2>3, <2>4, <2>5, <2>6 DEF DialEffect
<1>11. CASE GetManifest(a)
  <2>1. ManifestEffect(a, c, n) /\ c.pc = "manifest" /\ ~IsLocal(c.url) /\ c.url \in Tags
    BY <1>1, <1>11, ManifestDoes DEF GetManifest, At, Tags, OwnCause, KindInv, RemoteSteps
  <2>2. CASE /\ Hosts[c.url.host].private => c.creds /\ ~c.plain
             /\ Keeps(c, n) /\ Tries(c, n) /\ n.pc = (IF a = Retainer THEN "retain" ELSE "layers")
             /\ n.id = DockerImageID(tag[c.url])
    <3>1. KindInv(a)' /\ OverInv(a)'
      BY <2>1, <2>2 DEF KindInv, OverInv, Keeps, LocalSteps, At
    <3>2. MayFetch(c.url, c.creds)
      <4>1. c.plain = FALSE \/ (c.plain = TRUE /\ ~Hosts[c.url.host].private)
        BY <2>1, <2>2 DEF OwnCause, ReachInv
      <4> QED
        BY <2>1, <2>2, <4>1, PingOrPlain DEF OwnCause, ReachInv
    <3>3. n.id # Failure
      BY <2>2 DEF DockerImageID, Failure
    <3>4. ReachInv(a)'
      BY <2>1, <2>2, <3>2, <3>3 DEF ReachInv, Keeps, LocalSteps
    <3> QED
      BY <1>2, <2>2, <3>1, <3>4
  <2>3. CASE ~(Hosts[c.url.host].private => c.creds /\ ~c.plain) /\ FailsTo(a, c, c.lost, n)
    <3>1. Available(c) => c.attempt \in c.lost
      <4>1. c.plain = FALSE \/ c.plain = TRUE
        BY <2>1 DEF OwnCause, ReachInv
      <4> QED
        BY <2>1, <2>3, <4>1, PingOrPlain DEF Available, OwnCause, ReachInv
    <3> QED
      BY <1>1, <2>3, <3>1, RefuseCause
  <2>4. CASE FailsTo(a, c, Lost(c), n)
    BY <1>1, <2>4, LoseCause
  <2> QED
    BY <2>1, <2>2, <2>3, <2>4 DEF ManifestEffect
<1> QED
  BY <1>5, <1>6, <1>7, <1>8, <1>9, <1>10, <1>11 DEF Step

\* What a call has learnt outlasts the steps of the others ...
LEMMA CauseFrame ==
    ASSUME NEW a, OwnCause(a), UNCHANGED world, call'[a] = call[a]
    PROVE  OwnCause(a)'
  BY DEF OwnCause, KindInv, SeenInv, LostInv, ReachInv, OverInv, Underway, Idle, At,
         Available, world

\* ... and the changes of the world.
LEMMA CauseNotice ==
    ASSUME TypeInv, NEW a \in Actors, OwnCause(a), NoticeEffect(a, call[a], call'[a])
    PROVE  OwnCause(a)'
<1> DEFINE c == call[a]
           n == call'[a]
<1>1. CASE Idle(a)
  BY <1>1 DEF NoticeEffect, Idle, At, OwnCause, KindInv, SeenInv, LostInv, ReachInv, OverInv,
              Underway, LocalSteps, RemoteSteps
<1>2. CASE At(a, "done")
  <2>1. n.pc = "done" /\ n.url = c.url /\ n.creds = c.creds /\ n.seen = c.seen /\ n.lost = c.lost
        /\ n.answer = c.answer
    BY <1>2 DEF NoticeEffect, Idle, At
  <2> QED
    BY <1>2, <2>1 DEF At, OwnCause, KindInv, SeenInv, LostInv, ReachInv, OverInv, Underway, Idle,
                      Available, LocalSteps, RemoteSteps
<1>3. CASE Underway(a)
  <2>1. /\ n.pc = c.pc /\ n.url = c.url /\ n.creds = c.creds /\ n.attempt = c.attempt
        /\ n.lost = c.lost /\ n.id = c.id /\ n.plain = c.plain
        /\ n.seen = c.seen \cup {SourceOf(c.url, time', tag')}
    BY <1>3 DEF NoticeEffect, Underway
  <2>2. Available(n) => Available(c)
    BY <2>1 DEF Available
  <2>3. KindInv(a)' /\ SeenInv(a)' /\ LostInv(a)' /\ OverInv(a)'
    BY <1>3, <2>1, <2>2 DEF OwnCause, KindInv, SeenInv, LostInv, OverInv, Underway, At
  <2>4. c.seen # {Absent} => n.seen # {Absent}
    <3>1. SourceOf(c.url, time, tag) \in c.seen
      BY <1>3 DEF OwnCause, SeenInv
    <3> QED
      BY <2>1, <3>1
  <2>5. ReachInv(a)'
    BY <2>1, <2>4 DEF OwnCause, ReachInv
  <2> QED
    BY <2>3, <2>5 DEF OwnCause
<1> QED
  BY <1>1, <1>2, <1>3 DEF Underway

\* A call that begins has seen its source, and lost nothing.
LEMMA BeginCause ==
    ASSUME NEW a \in Actors, UNCHANGED world, Begins(call'[a], call'[a].url),
           \/ call'[a].pc = "attempt"
           \/ call'[a].pc = "id" /\ a = Retainer
    PROVE  OwnCause(a)'
<1>1. Retainer \notin Requests
  BY UrlsAssumption
<1> DEFINE n == call'[a]
<1>2. /\ n.attempt = 1 /\ n.lost = {} /\ n.plain = FALSE
      /\ n.seen = {SourceOf(n.url, time', tag')}
  BY DEF Begins, world
<1>3. n.lost \subseteq 1..n.attempt /\ 1..(n.attempt - 1) \subseteq n.lost
  BY <1>2
<1> QED
  BY <1>1, <1>2, <1>3 DEF OwnCause, KindInv, SeenInv, LostInv, ReachInv, OverInv, LocalSteps,
                          RemoteSteps, At

\* Of a goroutine that is not calling nothing is known.
LEMMA IdleCause ==
    ASSUME NEW a \in Actors, call'[a] = NoCall
    PROVE  OwnCause(a)'
  BY DEF OwnCause, KindInv, SeenInv, LostInv, ReachInv, OverInv, NoCall, LocalSteps, RemoteSteps,
         Underway, Idle, At

\* Every step keeps what is known of the calls.
LEMMA NextCauseInv == TypeInv /\ CauseInv /\ [Next]_vars => CauseInv'
<1> SUFFICES ASSUME TypeInv, CauseInv, [Next]_vars
             PROVE  CauseInv'
  OBVIOUS
<1>1. ASSUME NEW a \in Actors, OnlyOf(a), UNCHANGED world, OwnCause(a)'
      PROVE  CauseInv'
  <2>1. ASSUME NEW b \in Actors, b # a PROVE OwnCause(b)'
    <3>1. call'[b] = call[b] /\ OwnCause(b)
      BY <1>1, <2>1 DEF OnlyOf, CauseInv
    <3> QED
      BY <1>1, <3>1, CauseFrame
  <2> QED
    BY <1>1, <2>1 DEF CauseInv
<1>2. ASSUME NEW a \in Actors, Step(a) PROVE CauseInv'
  BY <1>1, <1>2, StepAlone, StepCause DEF Alone, CauseInv
<1>3. CASE RetainNext
  <2>1. OnlyOf(Retainer) /\ RetainNextEffect(call'[Retainer]) /\ UNCHANGED world
    BY <1>3, RetainNextDoes DEF RetainNext
  <2>2. Retainer \in Actors
    BY DEF Actors
  <2>3. OwnCause(Retainer)'
    BY <2>1, <2>2, BeginCause DEF RetainNextEffect, Begins
  <2> QED
    BY <1>1, <2>1, <2>2, <2>3
<1>4. ASSUME NEW a \in Actors, call' = [call EXCEPT ![a] = NoCall], UNCHANGED world
      PROVE  CauseInv'
  BY <1>1, <1>4, IdleDoes, IdleCause
<1>5. CASE Retain
  BY <1>4, <1>5 DEF Retain, Actors
<1>6. ASSUME NEW r \in Requests, Return(r) PROVE CauseInv'
  BY <1>4, <1>6 DEF Return, Actors
<1>7. ASSUME NEW r \in Requests, Fetch(r) PROVE CauseInv'
  <2>1. /\ OnlyOf(r) /\ Begins(call'[r], call[r].url) /\ call'[r].pc = "attempt"
        /\ UNCHANGED world /\ r \in Actors
    BY <1>7, FetchDoes DEF Fetch, Actors
  <2>2. OwnCause(r)'
    BY <2>1, BeginCause DEF Begins
  <2> QED
    BY <1>1, <2>1, <2>2
<1>8. CASE Worldly
  BY <1>8, WorldlyDoes, NoticeDoes, CauseNotice DEF CauseInv
<1>9. ASSUME UNCHANGED <<world, call>> PROVE CauseInv'
  BY <1>9, CauseFrame DEF CauseInv
<1>10. CASE Collect
  BY <1>9, <1>10 DEF Collect
<1>11. CASE UNCHANGED vars
  BY <1>9, <1>11 DEF vars
<1> QED
  BY <1>2, <1>3, <1>5, <1>6, <1>7, <1>8, <1>10, <1>11 DEF Next, Worldly

\* Nobody has called yet.
LEMMA InitIdle == Init => \A a \in Actors : Idle(a)
<1> SUFFICES ASSUME Init, NEW a \in Actors
             PROVE  Idle(a)
  OBVIOUS
<1>1. PICK w \in Workloads : call = [b \in Actors |->
            IF b \in DOMAIN w.calls
            THEN [pc |-> "ready", url |-> w.calls[b].url, creds |-> w.calls[b].creds]
            ELSE NoCall]
  BY DEF Init
<1> QED
  BY <1>1 DEF Idle, NoCall

\* Nobody is calling initially.
LEMMA InitCauseInv == Init => CauseInv
<1> SUFFICES ASSUME Init, NEW a \in Actors
             PROVE  OwnCause(a)
  BY DEF CauseInv
<1>1. call[a].pc \in {"idle", "ready"}
  BY InitIdle DEF Idle
<1> QED
  BY <1>1 DEF OwnCause, KindInv, SeenInv, LostInv, ReachInv, OverInv, LocalSteps, RemoteSteps,
              Underway, Idle, At

(***************************************************************************)
(* A Fetch fails only if its source cannot be had or every attempt was     *)
(* lost, and succeeds only if it can, for any registries, lists of         *)
(* insecure ones and credentials: the fallback to http, the challenge that *)
(* is only remembered over https and the retries together give what        *)
(* MayFetch says (retryable.go 17-55, distclient/client.go 121-186).       *)
(***************************************************************************)
THEOREM FailuresAreJustified == Spec => []FailuresHaveCauses
<1>1. TypeInv /\ CauseInv => FailuresHaveCauses
  BY DEF CauseInv, OwnCause, OverInv, FailuresHaveCauses, Available, Actors
<1> QED
  BY <1>1, InitTypeInv, NextTypeInv, InitCauseInv, NextCauseInv, PTL DEF Spec

----------------------------------------------------------------------------
\* Every link leads to a directory, not to another link.
LinksEnd == LinkTo \in [Links -> Dirs]

\* Every persistent image is a docker image or a path.
IsNamed(u) == IsDocker(u) \/ (IsLocal(u) /\ u.path # NoPath)
NamedImages == \A w \in Workloads : \A i \in DOMAIN w.persistent : IsNamed(w.persistent[i])

\* The id of a source that holds s.
IdOf(u, s) == IF IsLocal(u) THEN LocalImageID(Source(u), NanoOf[s[1]]) ELSE DockerImageID(s)

TodoInv == \A i \in DOMAIN todo : IsNamed(todo[i])

\* Both ways to resolve a path lead to the same directory.
PathInv(a) ==
    LET c == call[a]
    IN  /\ c.pc \in LocalSteps => IsLocal(c.url) /\ Source(c.url) \in Dirs
        /\ c.pc = "id" => c.idPath \in Paths /\ Target(c.idPath) = Source(c.url)
        /\ c.pc = "stat" => c.idPath = Source(c.url)
        /\ (c.pc \in LocalSteps /\ a \in Requests) => c.path = Source(c.url)

\* A call that has seen one state of its source has the id of that state.
SameID(c, id) == \A s \in c.seen \ {Absent} : c.seen = {s} => id = IdOf(c.url, s)

IdInv(a) ==
    LET c == call[a]
    IN  /\ c.pc \in {"lock", "register", "layers", "retain"} => SameID(c, c.id)
        /\ (c.pc = "done" /\ c.answer # Failure) => SameID(c, c.answer)

\* What Retain has looked at is held.
HeldInv == \A u \in Urls : \A h \in held :
    (h[1] = Source(u) /\ h[2] # Absent) => IdOf(u, h[2]) \in retained

OwnLink(a) == PathInv(a) /\ IdInv(a)

\* What Retain does with images that have no name concerns no Fetch.
Follows(a) == a \in Requests \/ NamedImages
LinkInv ==
    /\ NamedImages => TodoInv /\ HeldInv
    /\ \A a \in Actors : Follows(a) => OwnLink(a)

\* Resolving twice is resolving once.
LEMMA TargetIsDir ==
    ASSUME LinksEnd, NEW p \in Paths
    PROVE  Target(p) \in Dirs /\ Target(Target(p)) = Target(p) /\ RootOf(p) = Target(p)
  BY PathsAssumption DEF LinksEnd, Paths, Target, RootOf

\* A path leads to a path.
LEMMA SourceOfLocal ==
    ASSUME NEW u \in Urls, IsLocal(u)
    PROVE  Source(u) \in Paths \cup {NoPath}
<1>1. PathOf(u) \in Paths \cup {NoPath}
  BY PathsAssumption, UrlsAssumption DEF PathOf, IsLocal, IsDocker
<1>2. \A p \in Paths \cup {NoPath} : Target(p) \in Paths \cup {NoPath}
  BY PathsAssumption DEF Target
<1> QED
  BY <1>1, <1>2 DEF Source, RootOf

\* One source has one id for what it holds, whatever URL it is called by.
LEMMA SameSource ==
    ASSUME NEW u \in Urls, NEW v \in Urls, Source(u) = Source(v), NEW s
    PROVE  IdOf(u, s) = IdOf(v, s)
<1>1. Urls \cap (Paths \cup {NoPath}) = {}
  BY UrlsAssumption
<1>2. CASE IsLocal(u) <=> IsLocal(v)
  BY <1>2 DEF IdOf, Source
<1>3. CASE IsLocal(u) /\ ~IsLocal(v)
  BY <1>1, <1>3, SourceOfLocal DEF Source
<1>4. CASE ~IsLocal(u) /\ IsLocal(v)
  BY <1>1, <1>4, SourceOfLocal DEF Source
<1> QED
  BY <1>2, <1>3, <1>4

\* An attempt that fails has no id.
LEMMA FailLink ==
    ASSUME NEW a \in Actors, NEW lost, FailsTo(a, call[a], lost, call'[a])
    PROVE  OwnLink(a)'
  BY DEF FailsTo, NoCall, OwnLink, PathInv, IdInv, LocalSteps

\* An id stays the one of the state that was seen.
LEMMA SameIDKept ==
    ASSUME NEW c, NEW n, NEW id, SameID(c, id), Keeps(c, n)
    PROVE  SameID(n, id)
  BY DEF SameID, Keeps

\* Every statement of a Fetch keeps path and id those of its source.
LEMMA StepLink ==
    ASSUME LinksEnd, TypeInv, NEW a \in Actors, OwnCause(a), OwnLink(a), Step(a)
    PROVE  OwnLink(a)'
<1> DEFINE c == call[a]
           n == call'[a]
<1>1. Underway(a) /\ UNCHANGED world /\ c.url \in Urls
  BY StepAlone
  DEF Alone, TypeInv, CallType, Step, FetchLocal, ProvideID, StatForID, LockLocal,
      RegisterLocal, Dial, GetManifest, FetchLayers, Underway, Idle, At
<1>2. SourceOf(c.url, time, tag) \in c.seen
  BY <1>1 DEF OwnCause, SeenInv
<1>3. ASSUME Answers(c, n, c.id), c.pc \in {"lock", "register", "layers"}
      PROVE  OwnLink(a)'
  <2>1. SameID(n, c.id)
    BY <1>3, SameIDKept DEF OwnLink, IdInv, Answers
  <2> QED
    BY <1>3, <2>1 DEF Answers, OwnLink, PathInv, IdInv, LocalSteps
<1>4. CASE FetchLocal(a)
  <2>1. FetchLocalEffect(a, c, n) /\ IsLocal(c.url)
    BY <1>4, FetchLocalDoes DEF FetchLocal
  <2> DEFINE p == PathOf(c.url)
  <2>2. CASE /\ p # NoPath /\ Keeps(c, n) /\ n.pc = "id" /\ n.path = Target(p)
             /\ n.idPath = Target(p)
    <3>1. p \in Paths
      BY <1>1, <2>1, <2>2, PathsAssumption, UrlsAssumption DEF PathOf, IsLocal, IsDocker
    <3>2. /\ Source(n.url) = Target(p) /\ Target(p) \in Dirs /\ Target(Target(p)) = Target(p)
          /\ IsLocal(n.url)
      BY <2>1, <2>2, <3>1, TargetIsDir DEF Source, Keeps
    <3> HIDE DEF p
    <3> QED
      BY <2>2, <3>2 DEF OwnLink, PathInv, IdInv, LocalSteps, Paths
  <2> QED
    BY <2>1, <2>2, FailLink DEF FetchLocalEffect
<1>5. CASE ProvideID(a)
  <2>1. ProvideIDEffect(a, c, n) /\ c.pc = "id"
    BY <1>5, ProvideIDDoes DEF ProvideID, At
  <2>2. /\ Source(n.url) = Source(c.url) /\ Source(c.url) \in Dirs /\ c.idPath \in Paths
        /\ IsLocal(c.url) /\ IsLocal(n.url)
        /\ Target(c.idPath) = Source(c.url) /\ n.path = c.path /\ n.seen = c.seen
        /\ a \in Requests => c.path = Source(c.url)
    BY <2>1 DEF ProvideIDEffect, Keeps, OwnLink, PathInv, LocalSteps
  <2>3. CASE n.pc = "stat" /\ n.idPath = Target(c.idPath)
    BY <2>2, <2>3 DEF OwnLink, PathInv, IdInv, LocalSteps
  <2>4. CASE ~Exists(c.idPath) /\ n.pc = AfterID(a)
    <3>1. c.idPath = Source(c.url) /\ time[c.idPath] = 0
      BY <2>2, <2>4 DEF Exists, Paths, Target, TypeInv
    <3>2. Absent \in c.seen
      BY <1>2, <2>1, <2>2, <3>1 DEF SourceOf, StateAt, OwnCause, KindInv, LocalSteps
    <3>3. SameID(n, n.id)
      BY <2>2, <3>2 DEF SameID
    <3> QED
      BY <2>2, <2>4, <3>3 DEF AfterID, OwnLink, PathInv, IdInv, LocalSteps
  <2> QED
    BY <2>1, <2>3, <2>4 DEF ProvideIDEffect
<1>6. CASE StatForID(a)
  <2>1. StatEffect(a, c, n) /\ c.pc = "stat"
    BY <1>6, StatDoes DEF StatForID, At
  <2>2. /\ n.url = c.url /\ Source(c.url) \in Dirs /\ IsLocal(c.url)
        /\ c.idPath = Source(c.url) /\ n.path = c.path /\ n.seen = c.seen
        /\ n.pc = AfterID(a) /\ n.id = LocalImageID(Source(c.url), Nanosecond(Source(c.url)))
        /\ a \in Requests => c.path = Source(c.url)
    BY <2>1 DEF StatEffect, Keeps, OwnLink, PathInv, LocalSteps, OwnCause, KindInv
  <2>3. SameID(n, n.id)
    <3> SUFFICES ASSUME NEW s \in c.seen \ {Absent}, c.seen = {s}
                 PROVE  n.id = IdOf(c.url, s)
      BY <2>2 DEF SameID
    <3>1. s = StateAt(time[Source(c.url)]) /\ time[Source(c.url)] \in Nat
      BY <1>2, <2>2 DEF SourceOf, TypeInv
    <3>2. time[Source(c.url)] > 0 /\ s[1] = time[Source(c.url)]
      BY <3>1 DEF StateAt
    <3> QED
      BY <2>2, <3>2 DEF IdOf, Nanosecond
  <2> QED
    BY <2>2, <2>3 DEF AfterID, OwnLink, PathInv, IdInv, LocalSteps
<1>7. CASE LockLocal(a)
  <2>1. LockEffect(a, c, n) /\ c.pc = "lock"
    BY <1>7, LockDoes DEF LockLocal, At
  <2>2. CASE /\ Keeps(c, n) /\ n.pc = "register" /\ n.path = c.path /\ n.id = c.id
    <3>1. SameID(n, n.id)
      BY <2>1, <2>2, SameIDKept DEF OwnLink, IdInv
    <3> QED
      BY <2>1, <2>2, <3>1 DEF Keeps, OwnLink, PathInv, IdInv, LocalSteps
  <2> QED
    BY <1>3, <2>1, <2>2 DEF LockEffect
<1>8. CASE RegisterLocal(a) \/ FetchLayers(a)
  <2>1. RegisterEffect(a, c, n) /\ c.pc \in {"register", "layers"}
    BY <1>8, RegisterDoes DEF RegisterLocal, FetchLayers, At
  <2> QED
    BY <1>3, <2>1, FailLink DEF RegisterEffect
<1>9. CASE Dial(a)
  BY <1>9, DialDoes, FailLink DEF DialEffect, GoesTo, OwnLink, PathInv, IdInv, LocalSteps
<1>10. CASE GetManifest(a)
  <2>1. ManifestEffect(a, c, n) /\ ~IsLocal(c.url)
    BY <1>10, ManifestDoes DEF GetManifest, At, OwnCause, KindInv, RemoteSteps
  <2>2. CASE /\ Keeps(c, n) /\ n.pc = (IF a = Retainer THEN "retain" ELSE "layers")
             /\ n.id = DockerImageID(tag[c.url])
    <3>1. tag[c.url] \in c.seen
      BY <1>2, <2>1 DEF SourceOf
    <3>2. SameID(n, n.id)
      BY <2>1, <2>2, <3>1 DEF SameID, IdOf, Keeps
    <3> QED
      BY <2>2, <3>2 DEF OwnLink, PathInv, IdInv, LocalSteps
  <2> QED
    BY <2>1, <2>2, FailLink DEF ManifestEffect
<1> QED
  BY <1>4, <1>5, <1>6, <1>7, <1>8, <1>9, <1>10 DEF Step

\* A call that sees a change has seen two states.
LEMMA LinkNotice ==
    ASSUME TypeInv, NEW a \in Actors, OwnCause(a), OwnLink(a), NoticeEffect(a, call[a], call'[a])
    PROVE  OwnLink(a)'
<1> DEFINE c == call[a]
           n == call'[a]
<1>1. CASE Idle(a)
  BY <1>1 DEF NoticeEffect, Idle, At, OwnLink, PathInv, IdInv, LocalSteps
<1>2. CASE At(a, "done")
  BY <1>2 DEF NoticeEffect, Idle, At, OwnLink, PathInv, IdInv, LocalSteps, SameID
<1>3. CASE Underway(a)
  <2>1. /\ n.pc = c.pc /\ n.url = c.url /\ n.path = c.path /\ n.idPath = c.idPath /\ n.id = c.id
        /\ n.seen = c.seen \cup {SourceOf(c.url, time', tag')}
        /\ SourceOf(c.url, time, tag) \in c.seen
    BY <1>3 DEF NoticeEffect, Underway, OwnCause, SeenInv
  <2>2. SameID(c, c.id) => SameID(n, n.id)
    BY <2>1 DEF SameID
  <2> QED
    BY <1>3, <2>1, <2>2 DEF OwnLink, PathInv, IdInv, Underway, At
<1> QED
  BY <1>1, <1>2, <1>3 DEF Underway

\* The steps of the others do not matter.
LEMMA LinkFrame ==
    ASSUME NEW a, OwnLink(a), call'[a] = call[a]
    PROVE  OwnLink(a)'
  BY DEF OwnLink, PathInv, IdInv

\* Every step keeps paths and ids those of the sources.
LEMMA NextLinkInv ==
    LinksEnd /\ TypeInv /\ CauseInv /\ LinkInv /\ [Next]_vars => LinkInv'
<1> SUFFICES ASSUME LinksEnd, TypeInv, CauseInv, LinkInv, [Next]_vars
             PROVE  LinkInv'
  OBVIOUS
<1> DEFINE Links2 == \A a \in Actors : Follows(a) => OwnLink(a)
<1>0. NamedImages' = NamedImages /\ \A a \in Actors : Follows(a)' = Follows(a)
  BY DEF NamedImages, Follows
<1>1. ASSUME NEW a \in Actors, OnlyOf(a), Follows(a) => OwnLink(a)' PROVE Links2'
  <2>1. ASSUME NEW b \in Actors, b # a, Follows(b) PROVE OwnLink(b)'
    BY <1>1, <2>1, LinkFrame DEF OnlyOf, LinkInv
  <2> QED
    BY <1>0, <1>1, <2>1
<1>2. ASSUME UNCHANGED <<retained, held>> PROVE NamedImages => HeldInv'
  BY <1>2 DEF LinkInv, HeldInv
<1>3. ASSUME UNCHANGED todo PROVE NamedImages => TodoInv'
  BY <1>3 DEF LinkInv, TodoInv
<1>4. ASSUME NEW a \in Actors, call'[a] = NoCall PROVE OwnLink(a)'
  BY <1>4 DEF NoCall, OwnLink, PathInv, IdInv, LocalSteps
<1>5. ASSUME NEW a \in Actors, call' = [call EXCEPT ![a] = NoCall] PROVE Links2'
  BY <1>1, <1>4, <1>5, IdleDoes
<1>6. ASSUME NEW a \in Actors, Step(a) PROVE LinkInv'
  BY <1>0, <1>1, <1>2, <1>3, <1>6, StepAlone, StepLink DEF Alone, LinkInv, CauseInv
<1>7. CASE RetainNext
  <2>1. /\ OnlyOf(Retainer) /\ RetainNextEffect(call'[Retainer]) /\ Retainer \in Actors
        /\ todo' = Tail(todo) /\ todo # <<>> /\ todo \in Seq(Urls) /\ UNCHANGED <<retained, held>>
    BY <1>7, RetainNextDoes DEF RetainNext, Actors, TypeInv
  <2>2. NamedImages => TodoInv'
    BY <2>1 DEF LinkInv, TodoInv
  <2>3. /\ Head(todo) \in Urls
        /\ NamedImages => IsNamed(Head(todo))
    BY <2>1 DEF LinkInv, TodoInv
  <2> DEFINE n == call'[Retainer]
  <2>4. CASE n.pc = "attempt"
    BY <1>0, <1>1, <1>2, <2>1, <2>2, <2>4 DEF LinkInv, OwnLink, PathInv, IdInv, LocalSteps
  <2>5. CASE ~IsDocker(n.url) /\ n.url = Head(todo) /\ n.pc = "id" /\ n.idPath = Head(todo).path
    <3>1. NamedImages => /\ n.idPath \in Paths /\ Target(n.idPath) = Source(n.url)
                         /\ IsLocal(n.url) /\ Source(n.url) \in Dirs
      BY <2>3, <2>5, UrlsAssumption, TargetIsDir DEF Source, PathOf, IsNamed
    <3>2. Follows(Retainer) => OwnLink(Retainer)'
      BY <2>5, <3>1, UrlsAssumption DEF Follows, OwnLink, PathInv, IdInv, LocalSteps
    <3> QED
      BY <1>0, <1>1, <1>2, <2>1, <2>2, <3>2 DEF LinkInv
  <2> QED
    BY <2>1, <2>4, <2>5 DEF RetainNextEffect, Begins
<1>8. CASE Retain
  <2> DEFINE c == call[Retainer]
  <2>1. /\ Retainer \in Actors /\ c.pc = "retain" /\ c.url \in Urls
        /\ retained' = retained \cup {c.id, NamespacedID(c.id)}
        /\ held' = held \cup {<<Source(c.url), s>> : s \in {s \in c.seen : c.seen = {s}}}
    BY <1>8 DEF Retain, Actors, TypeInv, CallType, At
  <2>2. NamedImages => SameID(c, c.id)
    BY <2>1 DEF LinkInv, Follows, OwnLink, IdInv
  <2>3. ASSUME NamedImages, NEW u \in Urls, NEW h \in held', h[1] = Source(u), h[2] # Absent
        PROVE  IdOf(u, h[2]) \in retained'
    <3>1. CASE h \in held
      BY <2>1, <2>3, <3>1 DEF LinkInv, HeldInv
    <3>2. CASE h \notin held
      <4>1. PICK s \in c.seen : c.seen = {s} /\ h = <<Source(c.url), s>>
        BY <2>1, <3>2
      <4>2. c.id = IdOf(c.url, s) /\ h[2] = s /\ Source(u) = Source(c.url)
        BY <2>2, <2>3, <4>1 DEF SameID
      <4> QED
        BY <2>1, <4>2, SameSource
    <3> QED
      BY <3>1, <3>2
  <2>4. NamedImages => HeldInv'
    BY <2>3 DEF HeldInv
  <2> QED
    BY <1>0, <1>3, <1>5, <1>8, <2>1, <2>4 DEF Retain, LinkInv
<1>9. ASSUME NEW r \in Requests, Return(r) PROVE LinkInv'
  BY <1>0, <1>2, <1>3, <1>5, <1>9 DEF Return, Actors, LinkInv
<1>10. ASSUME NEW r \in Requests, Fetch(r) PROVE LinkInv'
  <2>1. OnlyOf(r) /\ call'[r].pc = "attempt" /\ r \in Actors
    BY <1>10, FetchDoes DEF Actors
  <2>2. OwnLink(r)'
    BY <2>1 DEF OwnLink, PathInv, IdInv, LocalSteps
  <2> QED
    BY <1>0, <1>1, <1>2, <1>3, <1>10, <2>1, <2>2 DEF Fetch, LinkInv
<1>11. CASE Worldly
  BY <1>0, <1>2, <1>3, <1>11, WorldlyDoes, NoticeDoes, LinkNotice DEF LinkInv, CauseInv
<1>12. ASSUME UNCHANGED <<call, todo, retained, held>> PROVE LinkInv'
  BY <1>0, <1>2, <1>3, <1>12, LinkFrame DEF LinkInv
<1>13. CASE Collect
  BY <1>12, <1>13 DEF Collect
<1>14. CASE UNCHANGED vars
  BY <1>12, <1>14 DEF vars
<1> QED
  BY <1>6, <1>7, <1>8, <1>9, <1>10, <1>11, <1>13, <1>14 DEF Next, Worldly

\* Nothing is held initially.
LEMMA InitLinkInv == Init => LinkInv
<1> SUFFICES ASSUME Init
             PROVE  LinkInv
  OBVIOUS
<1>1. NamedImages => TodoInv /\ HeldInv
  BY DEF Init, NamedImages, TodoInv, HeldInv
<1>2. ASSUME NEW a \in Actors PROVE OwnLink(a)
  <2>1. call[a].pc \in {"idle", "ready"}
    BY InitIdle DEF Idle
  <2> QED
    BY <2>1 DEF OwnLink, PathInv, IdInv, LocalSteps
<1> QED
  BY <1>1, <1>2 DEF LinkInv

(***************************************************************************)
(* A Fetch answers with a layer that is held if Retain has looked at its   *)
(* source in the one state the Fetch has seen: ImageRetainer and Local     *)
(* work out the same id on different ways (image_retainer.go 24-60,        *)
(* local.go 30-120).  A link to a link is resolved once by one and twice   *)
(* by the other; an image without a name means the default rootfs to Local *)
(* only, and a URL with a scheme other than docker's a registry to Fetch   *)
(* only: hence the hypotheses.                                             *)
(***************************************************************************)
THEOREM RetainedImagesAreFetched ==
    ASSUME LinksEnd, NamedImages
    PROVE  Spec => []RetainedIsFetched
<1>1. TypeInv /\ LinkInv => RetainedIsFetched
  <2> SUFFICES ASSUME TypeInv, LinkInv, NEW r \in Requests, Answered(r),
                      NEW s \in call[r].seen \ {Absent}, call[r].seen = {s},
                      <<Source(call[r].url), s>> \in held
               PROVE  call[r].answer \in retained
    BY DEF RetainedIsFetched
  <2>1. call[r].answer = IdOf(call[r].url, s) /\ call[r].url \in Urls
    BY DEF Answered, At, LinkInv, Follows, OwnLink, IdInv, SameID, TypeInv, CallType, Actors
  <2> QED
    BY <2>1 DEF LinkInv, HeldInv
<1>2. Init => LinkInv
  BY InitLinkInv
<1>3. TypeInv /\ CauseInv /\ LinkInv /\ [Next]_vars => LinkInv'
  BY NextLinkInv
<1> QED
  BY <1>1, <1>2, <1>3, InitTypeInv, NextTypeInv, InitCauseInv, NextCauseInv, PTL DEF Spec

----------------------------------------------------------------------------
\* Nanoseconds tell the modification times apart, but for those that are zero.
TimesDiffer == \A t, u \in 1..MaxTime : (NanoOf[t] # 0 /\ NanoOf[t] = NanoOf[u]) => t = u

TimeID(d, t) == LocalImageID(d, NanoOf[t])

\* A layer with the id of the directory's present time holds its present state.
DatedInv == \A d \in Dirs, t \in 1..MaxTime :
    (NanoOf[t] # 0 /\ TimeID(d, t) \in DOMAIN graph) =>
        /\ t \in 1..now
        /\ time[d] = t => graph[TimeID(d, t)] \subseteq {StateAt(t)}

TaggedInv == \A m \in Manifests :
    DockerImageID(m) \in DOMAIN graph => graph[DockerImageID(m)] \subseteq {m}

\* The id of a call under way is of a time its source has had.
TimeInv(a) ==
    LET c == call[a]
    IN  c.pc \in {"lock", "register"} =>
            HasNoTime(c.id) \/ \E t \in 1..now : c.id = TimeID(Source(c.url), t)

\* What a call reads it has seen, and what it reads of the present time is of it.
ReadInv(a) ==
    LET c == call[a]
    IN  /\ c.pc = "register" =>
            /\ c.read \subseteq c.seen
            /\ \A d \in Dirs, t \in 1..MaxTime :
                (NanoOf[t] # 0 /\ c.id = TimeID(d, t) /\ time[d] = t)
                    => c.read \subseteq {StateAt(t)}
        /\ c.pc = "layers" =>
            \E m \in c.seen \cap Manifests : c.id = DockerImageID(m) /\ c.read = {m}

\* A call has seen what is, or is being, registered under its id.
FreshInv(a) ==
    LET c == call[a]
    IN  /\ (c.pc \in {"lock", "register"} /\ ~HasNoTime(c.id)) =>
            /\ c.id \in DOMAIN graph => graph[c.id] \subseteq c.seen
            /\ \A b \in Actors :
                (call[b].pc = "register" /\ call[b].id = c.id) => call[b].read \subseteq c.seen
        /\ (c.pc = "done" /\ c.answer # Failure) =>
            /\ c.answer \in DOMAIN graph
            /\ ~HasNoTime(c.answer) => graph[c.answer] \subseteq c.seen

OwnFresh(a) == TimeInv(a) /\ ReadInv(a) /\ FreshInv(a)
ContentInv == DatedInv /\ TaggedInv /\ \A a \in Actors : OwnFresh(a)

\* A tar of a directory holds what the directory does.
LEMMA TarOfSource ==
    ASSUME NEW u \in Urls, IsLocal(u), Source(u) \in Dirs, NEW t, NEW g
    PROVE  /\ TarOf(Source(u), t) \subseteq {SourceOf(u, t, g)}
           /\ SourceOf(u, t, g) = StateAt(t[Source(u)])
<1>1. Source(u) \notin Links
  BY PathsAssumption
<1> QED
  BY <1>1 DEF TarOf, SourceOf

\* Ids of different directories or times differ.
LEMMA TimeIDInjective ==
    ASSUME TimesDiffer, NEW d, NEW e, NEW t \in 1..MaxTime, NEW u \in 1..MaxTime,
           NanoOf[t] # 0, TimeID(d, t) = TimeID(e, u)
    PROVE  d = e /\ t = u
<1>1. d = e /\ NanoOf[t] = NanoOf[u]
  BY DEF TimeID, LocalImageID
<1> QED
  BY <1>1 DEF TimesDiffer

\* A timed id is of one directory and one time.
LEMMA TimeOfID ==
    ASSUME TimesDiffer, TypeInv, NEW c,
           HasNoTime(c.id) \/ \E t \in 1..now : c.id = TimeID(Source(c.url), t),
           NEW d, NEW t \in 1..MaxTime, NanoOf[t] # 0, c.id = TimeID(d, t)
    PROVE  d = Source(c.url) /\ t \in 1..now
<1>1. ~HasNoTime(c.id)
  BY DEF HasNoTime, TimeID, LocalImageID
<1>2. PICK u \in 1..now : c.id = TimeID(Source(c.url), u)
  BY <1>1
<1>3. u \in 1..MaxTime
  BY TimeAssumption DEF TypeInv
<1>4. TimeID(d, t) = TimeID(Source(c.url), u)
  BY <1>2
<1>5. d = Source(c.url) /\ t = u
  BY <1>3, <1>4, TimeIDInjective
<1> QED
  BY <1>5

\* The id of a docker image is that of its manifest.
LEMMA DockerIDInjective ==
    ASSUME NEW m \in Manifests, NEW k \in Manifests, DockerImageID(m) = DockerImageID(k)
    PROVE  m = k
<1>1. ASSUME NEW s \in Manifests PROVE DockerImageID(s) = <<"docker", Reverse(s)>>
  <2>1. s \in Seq(Nat) /\ s # <<>> /\ Len(s) \in Nat \ {0} /\ DOMAIN s = 1..Len(s)
    BY RegistryAssumption
  <2>2. Reverse(s) \in Seq(Nat) /\ Len(Reverse(s)) = Len(s)
    BY <2>1 DEF Reverse
  <2>3. SubSeq(Reverse(s), 1, Len(s)) = Reverse(s)
    BY <2>1, <2>2
  <2>4. Len(StrongIDs(s)) = Len(s)
    BY <2>1 DEF StrongIDs
  <2>5. Last(StrongIDs(s)) = SubSeq(Reverse(s), 1, Len(s))
    BY <2>1, <2>4 DEF StrongIDs, Last
  <2> QED
    BY <2>3, <2>5 DEF DockerImageID
<1>2. Reverse(m) = Reverse(k)
  <2>1. <<"docker", Reverse(m)>> = <<"docker", Reverse(k)>>
    BY <1>1
  <2> QED
    BY <2>1
<1>3. m \in Seq(Nat) /\ k \in Seq(Nat)
  BY RegistryAssumption
<1>4. Len(m) = Len(k)
  <2>1. Len(Reverse(m)) = Len(m) /\ Len(Reverse(k)) = Len(k)
    BY <1>3 DEF Reverse
  <2> QED
    BY <1>2, <2>1
<1>5. ASSUME NEW i \in 1..Len(m) PROVE m[i] = k[i]
  <2>1. (Len(m) - i) + 1 \in 1..Len(m) /\ Len(m) - ((Len(m) - i) + 1) + 1 = i
    BY <1>3
  <2>2. Reverse(m)[(Len(m) - i) + 1] = m[i] /\ Reverse(k)[(Len(m) - i) + 1] = k[i]
    BY <1>3, <1>4, <2>1 DEF Reverse
  <2> QED
    BY <1>2, <2>2
<1> QED
  BY <1>3, <1>4, <1>5

\* A docker image has not the id of a directory.
LEMMA IDsDiffer ==
    ASSUME NEW m, NEW d, NEW t
    PROVE  DockerImageID(m) # LocalImageID(d, t) /\ ~HasNoTime(DockerImageID(m))
  BY DEF DockerImageID, LocalImageID, HasNoTime

\* The others see a step that registers nothing only if it starts a tar.
LEMMA FreshFrame ==
    ASSUME ContentInv, NEW a \in Actors, OnlyOf(a), UNCHANGED <<world, graph>>,
           call'[a].pc # "register", OwnFresh(a)'
    PROVE  ContentInv'
<1>1. DatedInv' /\ TaggedInv'
  BY DEF ContentInv, DatedInv, TaggedInv, world
<1>2. ASSUME NEW b \in Actors, b # a PROVE OwnFresh(b)'
  <2>1. call'[b] = call[b] /\ OwnFresh(b)
    BY <1>2 DEF OnlyOf, ContentInv
  <2>2. TimeInv(b)' /\ ReadInv(b)'
    BY <2>1 DEF OwnFresh, TimeInv, ReadInv, world
  <2>3. \A d \in Actors : call'[d].pc = "register" => call'[d] = call[d]
    BY DEF OnlyOf
  <2>4. FreshInv(b)'
    BY <2>1, <2>3 DEF OwnFresh, FreshInv
  <2> QED
    BY <2>2, <2>4 DEF OwnFresh
<1> QED
  BY <1>1, <1>2 DEF ContentInv

\* An attempt that fails reads nothing.
LEMMA FailFresh ==
    ASSUME NEW a \in Actors, NEW lost, FailsTo(a, call[a], lost, call'[a])
    PROVE  call'[a].pc # "register" /\ OwnFresh(a)'
  BY DEF FailsTo, NoCall, OwnFresh, TimeInv, ReadInv, FreshInv

\* A layer that is registered is added, unless it is there.
LEMMA WithLayerIs ==
    ASSUME NEW id, NEW content, graph' = WithLayer(id, content)
    PROVE  /\ DOMAIN graph' = DOMAIN graph \cup {id}
           /\ \A i \in DOMAIN graph : graph'[i] = graph[i]
           /\ id \notin DOMAIN graph => graph'[id] = content
  BY DEF WithLayer

\* Registering keeps the layers of present times present, and the others'
\* layers among what they have seen.
LEMMA RegisterFresh ==
    ASSUME TimesDiffer, TypeInv, CauseInv, ContentInv, NEW a \in Actors,
           call[a].pc \in {"register", "layers"}, OnlyOf(a), UNCHANGED world,
           graph' = WithLayer(call[a].id, call[a].read), Answers(call[a], call'[a], call[a].id)
    PROVE  ContentInv'
<1> DEFINE c == call[a]
           n == call'[a]
<1>1. /\ DOMAIN graph' = DOMAIN graph \cup {c.id}
      /\ \A i \in DOMAIN graph : graph'[i] = graph[i]
      /\ c.id \notin DOMAIN graph => graph'[c.id] = c.read
  BY WithLayerIs
<1>2. n.pc = "done" /\ n.answer = c.id /\ n.seen = c.seen /\ n.url = c.url
  BY DEF Answers, Keeps
<1>3. OwnFresh(a)
  BY DEF ContentInv
<1>4. c.pc = "layers" => \E m \in c.seen \cap Manifests : c.id = DockerImageID(m) /\ c.read = {m}
  BY <1>3 DEF OwnFresh, ReadInv
<1>5. c.pc = "register" => HasNoTime(c.id) \/ \E t \in 1..now : c.id = TimeID(Source(c.url), t)
  BY <1>3 DEF OwnFresh, TimeInv
<1>6. c.pc = "register" => \A m : c.id # DockerImageID(m)
  BY <1>5, IDsDiffer DEF TimeID
<1>7. DatedInv'
  <2> SUFFICES ASSUME NEW d \in Dirs, NEW t \in 1..MaxTime, NanoOf[t] # 0,
                      TimeID(d, t) \in DOMAIN graph'
               PROVE  t \in 1..now /\ (time[d] = t => graph'[TimeID(d, t)] \subseteq {StateAt(t)})
    BY DEF DatedInv, world
  <2>1. CASE TimeID(d, t) \in DOMAIN graph
    BY <1>1, <2>1 DEF ContentInv, DatedInv
  <2>2. CASE TimeID(d, t) \notin DOMAIN graph
    <3>1. c.id = TimeID(d, t) /\ graph'[c.id] = c.read
      BY <1>1, <2>2
    <3>2. c.pc = "register"
      BY <1>4, <3>1, IDsDiffer DEF TimeID
    <3>3. t \in 1..now
      BY <1>5, <3>1, <3>2, TimeOfID
    <3> QED
      BY <1>3, <3>1, <3>2, <3>3 DEF OwnFresh, ReadInv
  <2> QED
    BY <2>1, <2>2
<1>8. TaggedInv'
  <2> SUFFICES ASSUME NEW m \in Manifests, DockerImageID(m) \in DOMAIN graph'
               PROVE  graph'[DockerImageID(m)] \subseteq {m}
    BY DEF TaggedInv
  <2>1. CASE DockerImageID(m) \in DOMAIN graph
    BY <1>1, <2>1 DEF ContentInv, TaggedInv
  <2>2. CASE DockerImageID(m) \notin DOMAIN graph
    <3>1. c.id = DockerImageID(m) /\ graph'[c.id] = c.read
      BY <1>1, <2>2
    <3>2. c.pc = "layers"
      BY <1>6, <3>1
    <3>3. PICK k \in c.seen \cap Manifests : c.id = DockerImageID(k) /\ c.read = {k}
      BY <1>4, <3>2
    <3>4. k = m
      BY <3>1, <3>3, DockerIDInjective
    <3> QED
      BY <3>1, <3>3, <3>4
  <2> QED
    BY <2>1, <2>2
<1>9. OwnFresh(a)'
  <2>1. ~HasNoTime(c.id) => graph'[c.id] \subseteq c.seen
    <3>1. CASE c.pc = "register"
      BY <1>1, <1>3, <3>1 DEF OwnFresh, FreshInv, ReadInv
    <3>2. CASE c.pc = "layers"
      <4>1. PICK m \in c.seen \cap Manifests : c.id = DockerImageID(m)
        BY <1>4, <3>2
      <4>2. graph'[c.id] \subseteq {m}
        BY <1>1, <1>8, <4>1 DEF TaggedInv
      <4> QED
        BY <4>1, <4>2
    <3> QED
      BY <3>1, <3>2
  <2> QED
    BY <1>1, <1>2, <2>1 DEF OwnFresh, TimeInv, ReadInv, FreshInv
<1>10. ASSUME NEW b \in Actors, b # a PROVE OwnFresh(b)'
  <2>1. call'[b] = call[b] /\ OwnFresh(b)
    BY <1>10 DEF OnlyOf, ContentInv
  <2>2. TimeInv(b)' /\ ReadInv(b)'
    BY <2>1 DEF OwnFresh, TimeInv, ReadInv, world
  <2>3. \A d \in Actors : call'[d].pc = "register" => call'[d] = call[d]
    BY <1>2 DEF OnlyOf
  <2>4. ASSUME call[b].pc \in {"lock", "register"}, ~HasNoTime(call[b].id),
               call[b].id \in DOMAIN graph'
        PROVE  graph'[call[b].id] \subseteq call[b].seen
    <3>1. CASE call[b].id \in DOMAIN graph
      BY <1>1, <2>1, <2>4, <3>1 DEF OwnFresh, FreshInv
    <3>2. CASE call[b].id \notin DOMAIN graph
      <4>1. call[b].id = c.id /\ graph'[c.id] = c.read
        BY <1>1, <2>4, <3>2
      <4>2. \E t \in 1..now : c.id = TimeID(Source(call[b].url), t)
        BY <2>1, <2>4, <4>1 DEF OwnFresh, TimeInv
      <4>3. c.pc = "register"
        BY <1>4, <4>2, IDsDiffer DEF TimeID
      <4> QED
        BY <2>1, <2>4, <4>1, <4>3 DEF OwnFresh, FreshInv
    <3> QED
      BY <3>1, <3>2
  <2>5. FreshInv(b)'
    BY <1>1, <2>1, <2>3, <2>4 DEF OwnFresh, FreshInv
  <2> QED
    BY <2>2, <2>5 DEF OwnFresh
<1> QED
  BY <1>7, <1>8, <1>9, <1>10 DEF ContentInv

\* A tar is started: everybody with the same id has seen what it reads.
LEMMA TarFresh ==
    ASSUME TimesDiffer, TypeInv, CauseInv, LinkInv, ContentInv, NEW a \in Requests,
           call[a].pc = "lock", OnlyOf(a), UNCHANGED <<world, graph>>,
           call[a].id \notin DOMAIN graph, Keeps(call[a], call'[a]), call'[a].pc = "register",
           call'[a].id = call[a].id, call'[a].read = TarOf(call[a].path, time)
    PROVE  ContentInv'
<1> DEFINE c == call[a]
           n == call'[a]
<1>1. /\ a \in Actors /\ OwnFresh(a) /\ c.url \in Urls /\ IsLocal(c.url)
      /\ Source(c.url) \in Dirs /\ c.path = Source(c.url) /\ Underway(a)
  BY DEF Actors, ContentInv, TypeInv, CallType, LinkInv, Follows, OwnLink, PathInv, LocalSteps,
         At, Idle, Underway, CauseInv, OwnCause, KindInv
<1>2. n.read \subseteq {StateAt(time[Source(c.url)])} /\ n.url = c.url /\ n.seen = c.seen
  BY <1>1, TarOfSource DEF Keeps
<1>3. ASSUME NEW b \in Actors, Underway(b), IsLocal(call[b].url),
             Source(call[b].url) = Source(c.url)
      PROVE  n.read \subseteq call[b].seen
  <2>1. SourceOf(call[b].url, time, tag) = StateAt(time[Source(c.url)])
    BY <1>1, <1>3 DEF SourceOf
  <2> QED
    BY <1>2, <1>3, <2>1 DEF CauseInv, OwnCause, SeenInv
<1>4. DatedInv' /\ TaggedInv'
  BY DEF ContentInv, DatedInv, TaggedInv, world
<1>5. \A t \in 1..now : t \in 1..MaxTime
  BY TimeAssumption DEF TypeInv
<1>6. ASSUME NEW b \in Actors, call[b].pc \in {"lock", "register"}, call[b].id = c.id,
             ~HasNoTime(c.id)
      PROVE  n.read \subseteq call[b].seen
  <2>1. OwnFresh(b) /\ IsLocal(call[b].url) /\ Underway(b)
    BY <1>6 DEF ContentInv, TypeInv, CallType, Asking, CauseInv, OwnCause, KindInv, LocalSteps,
                Underway, Idle, At
  <2>2. PICK t \in 1..now : c.id = TimeID(Source(c.url), t)
    BY <1>1, <1>6 DEF OwnFresh, TimeInv
  <2>3. PICK u \in 1..now : c.id = TimeID(Source(call[b].url), u)
    BY <1>6, <2>1 DEF OwnFresh, TimeInv
  <2>4. Source(call[b].url) = Source(c.url)
    <3>1. TimeID(Source(c.url), t) = TimeID(Source(call[b].url), u)
      BY <2>2, <2>3
    <3> QED
      BY <3>1 DEF TimeID, LocalImageID
  <2> QED
    BY <1>3, <2>1, <2>4
<1>7. TimeInv(a)' /\ ReadInv(a)'
  <2>1. TimeInv(a)'
    BY <1>1, <1>2 DEF OwnFresh, TimeInv, world
  <2>2. n.read \subseteq n.seen
    BY <1>1, <1>2, <1>3
  <2>3. ASSUME NEW d \in Dirs, NEW t \in 1..MaxTime, NanoOf[t] # 0, n.id = TimeID(d, t), time[d] = t
        PROVE  n.read \subseteq {StateAt(t)}
    <3>1. d = Source(c.url)
      <4>1. HasNoTime(c.id) \/ \E u \in 1..now : c.id = TimeID(Source(c.url), u)
        BY <1>1 DEF OwnFresh, TimeInv
      <4>2. c.id = TimeID(d, t)
        BY <2>3
      <4> HIDE DEF c
      <4> QED
        BY <2>3, <4>1, <4>2, TimeOfID
    <3> QED
      BY <1>2, <2>3, <3>1
  <2> QED
    BY <2>1, <2>2, <2>3 DEF ReadInv, world
<1>8. \A b \in Actors \ {a} : call'[b] = call[b]
  BY DEF OnlyOf
<1>9. ASSUME NEW b \in Actors PROVE FreshInv(b)'
  <2>1. CASE b = a
    <3>1. ASSUME ~HasNoTime(n.id), NEW d \in Actors, call'[d].pc = "register", call'[d].id = n.id
          PROVE  call'[d].read \subseteq n.seen
      BY <1>1, <1>2, <1>6, <1>8, <3>1 DEF OwnFresh, FreshInv
    <3> QED
      BY <2>1, <3>1 DEF FreshInv
  <2>2. CASE b # a
    <3>1. call'[b] = call[b] /\ FreshInv(b)
      BY <1>8, <2>2 DEF ContentInv, OwnFresh
    <3> QED
      BY <1>6, <1>8, <3>1 DEF FreshInv
  <2> QED
    BY <2>1, <2>2
<1>10. ASSUME NEW b \in Actors, b # a PROVE TimeInv(b)' /\ ReadInv(b)'
  <2>1. call'[b] = call[b] /\ OwnFresh(b)
    BY <1>8, <1>10 DEF ContentInv
  <2> QED
    BY <2>1 DEF OwnFresh, TimeInv, ReadInv, world
<1> QED
  BY <1>4, <1>7, <1>9, <1>10 DEF ContentInv, OwnFresh

\* Every statement of a Fetch keeps the layers among what the calls have seen.
LEMMA StepFresh ==
    ASSUME LinksEnd, TimesDiffer, TypeInv, CauseInv, LinkInv, ContentInv,
           NEW a \in Actors, Step(a)
    PROVE  ContentInv'
<1> DEFINE c == call[a]
           n == call'[a]
<1>1. /\ OnlyOf(a) /\ UNCHANGED world /\ c.url \in Urls /\ OwnFresh(a) /\ Underway(a)
      /\ SourceOf(c.url, time, tag) \in c.seen
  <2>1. OnlyOf(a) /\ UNCHANGED world
    BY StepAlone DEF Alone
  <2>2. Underway(a) /\ c.url \in Urls
    BY DEF TypeInv, CallType, Step, FetchLocal, ProvideID, StatForID, LockLocal,
      RegisterLocal, Dial, GetManifest, FetchLayers, Underway, Idle, At
  <2> QED
    BY <2>1, <2>2 DEF ContentInv, CauseInv, OwnCause, SeenInv
<1>2. ASSUME n.pc \in {"id", "stat", "attempt", "manifest", "retain"} PROVE OwnFresh(a)'
  BY <1>2 DEF OwnFresh, TimeInv, ReadInv, FreshInv
<1>3. ASSUME n.pc \in {"id", "stat", "manifest", "retain"}, graph' = graph PROVE ContentInv'
  BY <1>1, <1>2, <1>3, FreshFrame
<1>4. ASSUME NEW lost, FailsTo(a, c, lost, n), graph' = graph PROVE ContentInv'
  BY <1>1, <1>4, FailFresh, FreshFrame
<1>5. CASE FetchLocal(a)
  BY <1>3, <1>4, <1>5, FetchLocalDoes DEF FetchLocalEffect, FetchLocal
<1>6. CASE ProvideID(a)
  <2>1. ProvideIDEffect(a, c, n) /\ graph' = graph
    BY <1>6, ProvideIDDoes DEF ProvideID
  <2>2. CASE n.pc = "lock" /\ n.id = Unresolved
    <3>1. HasNoTime(n.id)
      BY <2>2 DEF Unresolved, LocalImageID, HasNoTime
    <3>2. OwnFresh(a)'
      BY <2>2, <3>1 DEF OwnFresh, TimeInv, ReadInv, FreshInv
    <3> QED
      BY <1>1, <2>1, <2>2, <3>2, FreshFrame
  <2> QED
    BY <1>3, <2>1, <2>2 DEF ProvideIDEffect, AfterID
<1>7. CASE StatForID(a)
  <2>1. StatEffect(a, c, n) /\ c.pc = "stat" /\ graph' = graph
    BY <1>7, StatDoes DEF StatForID, At
  <2> DEFINE d == Source(c.url)
             t == time[d]
  <2>2. n.pc = AfterID(a)
    BY <2>1 DEF StatEffect
  <2>3. CASE n.pc = "lock"
    <3>1. /\ n.url = c.url /\ d \in Dirs /\ IsLocal(c.url) /\ n.seen = c.seen
          /\ n.id = LocalImageID(d, Nanosecond(d))
      BY <2>1, <2>2, <2>3 DEF StatEffect, AfterID, Actors, Keeps, LinkInv, Follows, OwnLink,
                              PathInv, LocalSteps, CauseInv, OwnCause, KindInv
    <3>2. CASE HasNoTime(n.id)
      <4>1. OwnFresh(a)'
        BY <2>3, <3>2 DEF OwnFresh, TimeInv, ReadInv, FreshInv
      <4> QED
        BY <1>1, <2>1, <2>3, <4>1, FreshFrame
    <3>3. CASE ~HasNoTime(n.id)
      <4>1. n.id = TimeID(d, t) /\ NanoOf[t] # 0 /\ t \in 1..now /\ t \in 1..MaxTime
        <5>1. Nanosecond(d) # 0
          BY <3>1, <3>3 DEF HasNoTime, LocalImageID
        <5>2. t > 0 /\ Nanosecond(d) = NanoOf[t]
          BY <5>1 DEF Nanosecond
        <5>3. t \in 0..now /\ now \in 1..MaxTime
          BY <3>1 DEF TypeInv
        <5> QED
          BY <3>1, <5>1, <5>2, <5>3, TimeAssumption DEF TimeID
      <4>2. StateAt(t) \in c.seen
        BY <1>1, <3>1 DEF SourceOf
      <4> HIDE DEF t, d
      <4>3. n.id \in DOMAIN graph => graph[n.id] \subseteq {StateAt(t)}
        BY <3>1, <4>1 DEF ContentInv, DatedInv, t
      <4>4. ASSUME NEW b \in Actors, call[b].pc = "register", call[b].id = n.id
            PROVE  call[b].read \subseteq {StateAt(t)}
        BY <3>1, <4>1, <4>4 DEF ContentInv, OwnFresh, ReadInv, t
      <4>5. \A b \in Actors : call'[b].pc = "register" => call'[b] = call[b]
        BY <1>1, <2>3 DEF OnlyOf
      <4>6. TimeInv(a)'
        BY <3>1, <4>1, <1>1 DEF TimeInv, world, d
      <4>7. ReadInv(a)'
        BY <2>3 DEF ReadInv
      <4>8. FreshInv(a)'
        BY <2>1, <3>1, <2>3, <4>2, <4>3, <4>4, <4>5 DEF FreshInv
      <4> QED
        BY <1>1, <2>1, <2>3, <4>6, <4>7, <4>8, FreshFrame DEF OwnFresh
    <3> QED
      BY <3>2, <3>3
  <2> QED
    BY <1>3, <2>1, <2>2, <2>3 DEF StatEffect, AfterID
<1>8. CASE LockLocal(a)
  <2>1. LockEffect(a, c, n) /\ c.pc = "lock" /\ graph' = graph
    BY <1>8, LockDoes DEF LockLocal, At
  <2>2. a \in Requests
    BY <2>1 DEF TypeInv, CallType, Asking
  <2>3. CASE c.id \in DOMAIN graph /\ Answers(c, n, c.id)
    <3>1. n.pc = "done" /\ n.answer = c.id /\ n.seen = c.seen
      BY <2>3 DEF Answers, Keeps
    <3>2. OwnFresh(a)'
      BY <1>1, <2>1, <2>3, <3>1 DEF OwnFresh, TimeInv, ReadInv, FreshInv
    <3> QED
      BY <1>1, <2>1, <3>1, <3>2, FreshFrame
  <2>4. CASE /\ c.id \notin DOMAIN graph /\ Keeps(c, n) /\ n.pc = "register" /\ n.id = c.id
             /\ n.read = TarOf(c.path, time)
    BY <1>1, <2>1, <2>2, <2>4, TarFresh
  <2> QED
    BY <2>1, <2>3, <2>4 DEF LockEffect
<1>9. CASE RegisterLocal(a) \/ FetchLayers(a)
  <2>1. RegisterEffect(a, c, n) /\ c.pc \in {"register", "layers"}
    BY <1>9, RegisterDoes DEF RegisterLocal, FetchLayers, At
  <2> QED
    BY <1>1, <1>4, <2>1, RegisterFresh DEF RegisterEffect
<1>10. CASE Dial(a)
  BY <1>3, <1>4, <1>10, DialDoes DEF DialEffect, GoesTo, Dial
<1>11. CASE GetManifest(a)
  <2>1. ManifestEffect(a, c, n) /\ ~IsLocal(c.url) /\ graph' = graph
    BY <1>11, ManifestDoes DEF GetManifest, At, CauseInv, OwnCause, KindInv, RemoteSteps
  <2>2. CASE /\ Keeps(c, n) /\ n.pc = "layers" /\ n.id = DockerImageID(tag[c.url])
             /\ n.read = {tag[c.url]}
    <3>1. tag[c.url] \in c.seen /\ tag[c.url] \in Manifests
      BY <1>1, <2>1 DEF SourceOf, TypeInv, Tags
    <3>2. OwnFresh(a)'
      BY <2>2, <3>1 DEF OwnFresh, TimeInv, ReadInv, FreshInv, Keeps
    <3> QED
      BY <1>1, <2>1, <2>2, <3>2, FreshFrame
  <2> QED
    BY <1>3, <1>4, <2>1, <2>2 DEF ManifestEffect
<1> QED
  BY <1>5, <1>6, <1>7, <1>8, <1>9, <1>10, <1>11 DEF Step

\* The world moves on: no time comes back, and everybody notices.
LEMMA WorldlyFresh ==
    ASSUME LinksEnd, TimesDiffer, TypeInv, CauseInv, LinkInv, ContentInv, Worldly
    PROVE  ContentInv'
<1>1. /\ now' = now + 1 /\ now \in 1..MaxTime /\ graph' = graph
      /\ \A a \in Actors : NoticeEffect(a, call[a], call'[a])
  BY WorldlyDoes, NoticeDoes DEF TypeInv
<1>2. ASSUME NEW d \in Dirs, NEW t \in 1..now, time'[d] = t PROVE time[d] = t
  <2>1. t # 0 /\ t # now + 1
    BY <1>1
  <2> QED
    BY <1>2, <2>1, WorldlyDoes DEF TypeInv
<1>3. 1..now \subseteq 1..now' /\ 1..now \subseteq 1..MaxTime
  BY <1>1, TimeAssumption
<1>4. DatedInv'
  BY <1>1, <1>2, <1>3 DEF ContentInv, DatedInv
<1>5. TaggedInv'
  BY <1>1 DEF ContentInv, TaggedInv
<1>6. ASSUME NEW a \in Actors, call[a].pc = "register"
      PROVE  /\ call'[a].read \subseteq call[a].read \cup {StateAt(time'[Source(call[a].url)])}
             /\ a \in Requests /\ Source(call[a].url) \in Dirs
  <2>1. /\ a \in Requests /\ Source(call[a].url) \in Dirs /\ IsLocal(call[a].url)
        /\ call[a].path = Source(call[a].url) /\ call[a].url \in Urls
    BY <1>6 DEF TypeInv, CallType, Asking, LinkInv, Follows, OwnLink, PathInv, LocalSteps,
                CauseInv, OwnCause, KindInv, At
  <2>2. call'[a].read = call[a].read \cup TarOf(call[a].path, time')
    BY <1>1, <1>6 DEF NoticeEffect, At, Idle
  <2>3. TarOf(call[a].path, time') \subseteq {StateAt(time'[Source(call[a].url)])}
    BY <2>1, TarOfSource
  <2> QED
    BY <2>1, <2>2, <2>3
<1>7. ASSUME NEW a \in Actors, call[a].pc \in {"lock", "register"}
      PROVE  StateAt(time'[Source(call[a].url)]) \in call'[a].seen
  <2>1. IsLocal(call[a].url) /\ Source(call[a].url) \in Dirs
    BY <1>7 DEF TypeInv, CallType, Asking, LinkInv, Follows, OwnLink, PathInv, LocalSteps,
                CauseInv, OwnCause, KindInv
  <2>2. call'[a].seen = call[a].seen \cup {SourceOf(call[a].url, time', tag')}
    BY <1>1, <1>7 DEF NoticeEffect, At, Idle, LocalSteps
  <2> QED
    BY <2>1, <2>2 DEF SourceOf
<1>8. \A a \in Actors : /\ call'[a].pc = call[a].pc
                        /\ ~Idle(a) => /\ call'[a].url = call[a].url /\ call'[a].id = call[a].id
                                       /\ call'[a].answer = call[a].answer
                                       /\ call[a].seen \subseteq call'[a].seen
                                       /\ At(a, "done") => call'[a].seen = call[a].seen
                                       /\ At(a, "layers") => call'[a].read = call[a].read
  BY <1>1 DEF NoticeEffect, At, Idle
<1>9. ASSUME NEW a \in Actors PROVE OwnFresh(a)'
  <2> DEFINE c == call[a]
             n == call'[a]
  <2>1. OwnFresh(a)
    BY DEF ContentInv
  <2>2. TimeInv(a)'
    BY <1>3, <1>8, <2>1 DEF OwnFresh, TimeInv, Idle
  <2>3. ReadInv(a)'
    <3>1. CASE n.pc = "layers"
      BY <1>8, <2>1, <3>1 DEF OwnFresh, ReadInv, Idle, At
    <3>2. CASE n.pc = "register"
      <4>1. c.pc = "register" /\ n.id = c.id /\ n.url = c.url /\ c.seen \subseteq n.seen
        BY <1>8, <3>2 DEF Idle
      <4>2. n.read \subseteq n.seen
        BY <1>6, <1>7, <2>1, <4>1 DEF OwnFresh, ReadInv, LocalSteps
      <4>3. ASSUME NEW d \in Dirs, NEW t \in 1..MaxTime, NanoOf[t] # 0, n.id = TimeID(d, t),
                   time'[d] = t
            PROVE  n.read \subseteq {StateAt(t)}
        <5>1. d = Source(c.url) /\ t \in 1..now
          <6>1. HasNoTime(c.id) \/ \E u \in 1..now : c.id = TimeID(Source(c.url), u)
            BY <2>1, <4>1 DEF OwnFresh, TimeInv
          <6>2. c.id = TimeID(d, t)
            BY <4>1, <4>3
          <6> HIDE DEF c
          <6> QED
            BY <4>3, <6>1, <6>2, TimeOfID
        <5>2. c.read \subseteq {StateAt(t)}
          BY <1>2, <2>1, <4>1, <4>3, <5>1 DEF OwnFresh, ReadInv
        <5> QED
          BY <1>6, <4>1, <4>3, <5>1, <5>2
      <4> QED
        BY <3>2, <4>2, <4>3 DEF ReadInv
    <3> QED
      BY <3>1, <3>2 DEF ReadInv
  <2>4. FreshInv(a)'
    <3>1. CASE n.pc = "done"
      BY <1>1, <1>8, <2>1, <3>1 DEF OwnFresh, FreshInv, Idle, At
    <3>2. CASE n.pc \in {"lock", "register"} /\ ~HasNoTime(n.id)
      <4>1. c.pc = n.pc /\ n.id = c.id /\ n.url = c.url /\ c.seen \subseteq n.seen
        BY <1>8, <3>2 DEF Idle
      <4>2. n.id \in DOMAIN graph' => graph'[n.id] \subseteq n.seen
        BY <1>1, <2>1, <3>2, <4>1 DEF OwnFresh, FreshInv
      <4>3. ASSUME NEW b \in Actors, call'[b].pc = "register", call'[b].id = n.id
            PROVE  call'[b].read \subseteq n.seen
        <5>1. call[b].pc = "register" /\ call[b].id = c.id
          BY <1>8, <4>1, <4>3 DEF Idle
        <5>2. call[b].read \subseteq c.seen
          BY <2>1, <3>2, <4>1, <5>1 DEF OwnFresh, FreshInv
        <5>3. Source(call[b].url) = Source(c.url)
          <6>1. PICK t \in 1..now : c.id = TimeID(Source(c.url), t)
            BY <2>1, <3>2, <4>1 DEF OwnFresh, TimeInv
          <6>2. PICK u \in 1..now : c.id = TimeID(Source(call[b].url), u)
            BY <3>2, <4>1, <5>1 DEF ContentInv, OwnFresh, TimeInv
          <6>3. TimeID(Source(c.url), t) = TimeID(Source(call[b].url), u)
            BY <6>1, <6>2
          <6> QED
            BY <6>3 DEF TimeID, LocalImageID
        <5> QED
          BY <1>6, <1>7, <3>2, <4>1, <5>1, <5>2, <5>3 DEF LocalSteps
      <4> QED
        BY <3>2, <4>2, <4>3 DEF FreshInv
    <3> QED
      BY <3>1, <3>2 DEF FreshInv
  <2> QED
    BY <2>2, <2>3, <2>4 DEF OwnFresh
<1> QED
  BY <1>4, <1>5, <1>9 DEF ContentInv

\* The cleaner comes when no request is there to notice.
LEMMA CollectFresh ==
    ASSUME TypeInv, ContentInv, Collect
    PROVE  ContentInv'
<1>1. UNCHANGED <<world, call>> /\ \A r \in Requests : Idle(r)
  BY DEF Collect
<1>2. PICK id \in DOMAIN graph \ retained : graph' = [i \in DOMAIN graph \ {id} |-> graph[i]]
  BY DEF Collect
<1>3. DatedInv' /\ TaggedInv'
  BY <1>1, <1>2 DEF ContentInv, DatedInv, TaggedInv, world
<1>4. ASSUME NEW a \in Actors PROVE OwnFresh(a)'
  <2>1. call[a].pc \notin Asking \/ call[a].pc = "ready"
    BY <1>1 DEF TypeInv, CallType, Idle, Asking
  <2> QED
    BY <1>1, <2>1 DEF OwnFresh, TimeInv, ReadInv, FreshInv, Asking
<1> QED
  BY <1>3, <1>4 DEF ContentInv

\* Every step keeps the layers among what the calls have seen.
LEMMA NextContentInv ==
    LinksEnd /\ TimesDiffer /\ TypeInv /\ CauseInv /\ LinkInv /\ ContentInv /\ [Next]_vars
      => ContentInv'
<1> SUFFICES ASSUME LinksEnd, TimesDiffer, TypeInv, CauseInv, LinkInv, ContentInv, [Next]_vars
             PROVE  ContentInv'
  OBVIOUS
<1>1. ASSUME NEW a \in Actors, OnlyOf(a), UNCHANGED <<world, graph>>,
             call'[a].pc \in {"idle", "attempt", "id"}
      PROVE  ContentInv'
  <2>1. OwnFresh(a)'
    BY <1>1 DEF OwnFresh, TimeInv, ReadInv, FreshInv
  <2> QED
    BY <1>1, <2>1, FreshFrame
<1>2. CASE RetainNext
  BY <1>1, <1>2, RetainNextDoes DEF RetainNext, RetainNextEffect, Actors
<1>3. ASSUME NEW a \in Actors, call' = [call EXCEPT ![a] = NoCall], UNCHANGED <<world, graph>>
      PROVE  ContentInv'
  <2>1. OnlyOf(a) /\ call'[a] = NoCall
    BY <1>3, IdleDoes
  <2> QED
    BY <1>1, <1>3, <2>1 DEF NoCall
<1>4. CASE Retain
  BY <1>3, <1>4 DEF Retain, Actors
<1>5. ASSUME NEW r \in Requests, Return(r) PROVE ContentInv'
  BY <1>3, <1>5 DEF Return, Actors
<1>6. ASSUME NEW r \in Requests, Fetch(r) PROVE ContentInv'
  BY <1>1, <1>6, FetchDoes DEF Fetch, Actors
<1>7. CASE UNCHANGED vars
  BY <1>7 DEF vars, world, ContentInv, DatedInv, TaggedInv, OwnFresh, TimeInv, ReadInv, FreshInv
<1> QED
  BY <1>2, <1>4, <1>5, <1>6, <1>7, StepFresh, WorldlyFresh, CollectFresh DEF Next, Worldly

\* The graph is empty initially.
LEMMA InitContentInv == Init => ContentInv
<1> SUFFICES ASSUME Init
             PROVE  ContentInv
  OBVIOUS
<1>1. DOMAIN graph = {}
  BY DEF Init
<1>2. ASSUME NEW a \in Actors PROVE OwnFresh(a)
  <2>1. call[a].pc \in {"idle", "ready"}
    BY InitIdle DEF Idle
  <2> QED
    BY <2>1 DEF OwnFresh, TimeInv, ReadInv, FreshInv
<1> QED
  BY <1>1, <1>2 DEF ContentInv, DatedInv, TaggedInv

(***************************************************************************)
(* The layer a Fetch answers with holds what its source held at some time  *)
(* during the call, although the id is worked out before the lock is taken *)
(* and before the directory is read (local.go 30-120), if nanoseconds tell *)
(* modification times apart: the run LocalStale shows what happens         *)
(* otherwise.  Of a link to a link the tar has the second link only.       *)
(***************************************************************************)
THEOREM FetchedImagesAreFresh ==
    ASSUME LinksEnd, TimesDiffer
    PROVE  Spec => []AnswersAreFresh
<1>1. ContentInv => AnswersAreFresh
  BY DEF ContentInv, OwnFresh, FreshInv, AnswersAreFresh, Answered, At, Actors
<1>2. Init => LinkInv
  BY InitLinkInv
<1>3. TypeInv /\ CauseInv /\ LinkInv /\ [Next]_vars => LinkInv'
  BY NextLinkInv
<1>4. TypeInv /\ CauseInv /\ LinkInv /\ ContentInv /\ [Next]_vars => ContentInv'
  BY NextContentInv
<1> QED
  BY <1>1, <1>2, <1>3, <1>4, InitTypeInv, NextTypeInv, InitCauseInv, NextCauseInv,
     InitContentInv, PTL DEF Spec
=============================================================================
