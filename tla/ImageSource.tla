---------------------------- MODULE ImageSource ----------------------------
(***************************************************************************)
(* Where rootfs images come from and what identifies them:                 *)
(* repository_fetcher.Retryable around CompositeFetcher, which sends a URL *)
(* without a scheme to Local and any other to Remote, and ImageRetainer,   *)
(* which works out the ids of the persistent images on its own, in a       *)
(* goroutine started by Wire.                                              *)
(*                                                                         *)
(* Nothing keeps a directory still while it is stat'ed, stat'ed again and  *)
(* tarred, nor a tag while it is fetched.  The content of a layer is what  *)
(* its source held while it was read, as modification times (directories)  *)
(* or manifests (tags).  Fetching the layers of a manifest is module       *)
(* RemoteFetch; here it is one step.                                       *)
(***************************************************************************)
EXTENDS Integers, Sequences, SequencesExt

CONSTANTS
    Requests,     \* the goroutines that call Fetch
    Retainer,     \* the goroutine that runs ImageRetainer.Retain
    Dirs, Links,  \* paths: directories, and symbolic links
    LinkTo,       \* what os.Readlink says of a link
    NoPath,       \* the empty path
    Default,      \* DefaultRootFSPath, or NoPath
    Hosts,        \* registries: how they answer over https and http, if they want credentials
    Listed, Networks, AddressOf,   \* InsecureRegistryList, and the addresses of hosts
    Manifests,    \* fsLayers: sequences of blobs, top first
    Urls,         \* what Fetch may be called with
    Workloads,    \* the calls the goroutines make, and the persistentImages
    NanoOf,       \* the nanoseconds within the second of a modification time
    MaxTime,      \* bound: how often directories and tags change
    MaxAttempts,  \* MAX_ATTEMPTS
    Faults        \* subset of {"network", "disk"}

Paths == Dirs \cup Links
IsLocal(u) == u.scheme = ""
IsDocker(u) == u.scheme = "docker"
Tags == {u \in Urls : ~IsLocal(u)}
Actors == Requests \cup {Retainer}

ASSUME PathsAssumption ==
    /\ NoPath \notin Paths /\ Dirs \cap Links = {}
    /\ LinkTo \in [Links -> Paths]
    /\ Default \in Paths \cup {NoPath}
ASSUME UrlsAssumption ==
    /\ \A u \in Urls :
        /\ IsLocal(u) \/ u.host \in DOMAIN Hosts
        /\ IsDocker(u) \/ u.path \in Paths \cup {NoPath}
    /\ \A w \in Workloads :
        /\ DOMAIN w.calls \subseteq Requests
        /\ \A r \in DOMAIN w.calls : w.calls[r] \in [url : Urls, creds : BOOLEAN]
        /\ w.persistent \in Seq(Urls)
    /\ Retainer \notin Requests /\ Urls \cap (Paths \cup {NoPath}) = {}
ASSUME RegistryAssumption ==
    /\ \A h \in DOMAIN Hosts :
        Hosts[h] \in [https : {"verified", "selfsigned", "none"}, http : BOOLEAN, private : BOOLEAN]
    /\ Listed \subseteq DOMAIN Hosts
    \* A manifest without layers would make remote.go panic, and so would an empty
    \* repository name.
    /\ Manifests # {} /\ \A m \in Manifests : m \in Seq(Nat) /\ m # <<>>
ASSUME TimeAssumption ==
    MaxTime \in Nat \ {0} /\ MaxAttempts \in Nat \ {0} /\ NanoOf \in [1..MaxTime -> Nat]

VARIABLES
    time,       \* time[d]: the modification time of a directory, 0 if it is not there
    now,        \* the time of the latest change
    tag,        \* tag[u]: the manifest a tag points to
    graph,      \* the registered layers, by id: what was read of their source
    retained,   \* ids held by the graph's retainer
    todo,       \* the persistent images Retain has not looked at yet
    mu,         \* Local.mu: the goroutine that holds it, or Nobody
    call,       \* call[a]: the call goroutine a is making
    held        \* history: the sources Retain has held, with what they held then

world == <<time, now, tag>>
vars == <<world, graph, retained, todo, mu, call, held>>

----------------------------------------------------------------------------
(* Ids.  A graph id is a digest: equal exactly when its inputs are. *)

\* Mutant: the id is made of the path alone.
PathOnlyID(path, nano) == <<"local", path, 1>>

LocalImageID(path, nano) == <<"local", path, nano>>

NamespacedID(id) == <<"namespaced", id>>

\* An error of resolve loses the path: every path that cannot be resolved has
\* the id of the empty path at the zero time.
Unresolved == LocalImageID(NoPath, 0)

\* toLayers walks the manifest from the bottom; the strong id of a layer digests
\* its configuration, its blob and its parent's id: the blobs up to it.
StrongIDs(manifest) == [i \in DOMAIN manifest |-> SubSeq(Reverse(manifest), 1, i)]
DockerImageID(manifest) == <<"docker", Last(StrongIDs(manifest))>>

(* The filesystem. *)

Exists(p) == p \in Links \/ (p \in Dirs /\ time[p] > 0)
Target(p) == IF p \in Links THEN LinkTo[p] ELSE p
Nanosecond(p) == IF p \in Dirs /\ time[p] > 0 THEN NanoOf[time[p]] ELSE 0

\* What a tar of the path holds now: a link is archived as a link, and the tar
\* of a path that is not there is empty.
Absent == <<>>
LinkOnly == <<0>>
StateAt(t) == IF t = 0 THEN Absent ELSE <<t>>
TarOf(p, t) == IF p \in Links THEN {LinkOnly} ELSE {StateAt(t[d]) : d \in {d \in Dirs : d = p /\ t[d] > 0}}

(* The registry. *)

\* The list holds hosts and networks; a port is not looked at for a network.
AllowInsecure(h) == h \in Listed \/ \E n \in Networks : AddressOf[h] \in n

\* What the source of a URL holds, links followed to their end.
RootOf(p) == LET one == Target(p) IN Target(one)
PathOf(u) == IF u.path = NoPath THEN Default ELSE u.path
Source(u) == IF IsLocal(u) THEN RootOf(PathOf(u)) ELSE u
SourceOf(u, t, g) ==
    IF ~IsLocal(u) THEN g[u] ELSE IF Source(u) \in Dirs THEN StateAt(t[Source(u)]) ELSE Absent

----------------------------------------------------------------------------
Nobody == "nobody"
NoCall == [pc |-> "idle"]
Failure == <<"error">>
Idle(a) == call[a].pc \in {"idle", "ready"}
At(a, here) == call[a].pc = here

Begin(u, creds) ==
    [pc |-> "attempt", url |-> u, creds |-> creds, attempt |-> 1, lost |-> {},
     path |-> NoPath, idPath |-> NoPath, id |-> Unresolved, read |-> {},
     plain |-> FALSE, seen |-> {SourceOf(u, time, tag)}, answer |-> <<>>]

Init ==
    /\ time = [d \in Dirs |-> 1] /\ now = 1
    /\ tag = [u \in Tags |-> CHOOSE m \in Manifests : TRUE]
    /\ graph = <<>> /\ retained = {} /\ held = {}
    /\ mu = Nobody
    /\ \E w \in Workloads :
        /\ todo = w.persistent
        /\ call = [a \in Actors |->
            IF a \in DOMAIN w.calls
            THEN [pc |-> "ready", url |-> w.calls[a].url, creds |-> w.calls[a].creds]
            ELSE NoCall]

\* The variables of an attempt end with it.
Reset(c) == [c EXCEPT !.path = NoPath, !.idPath = NoPath, !.id = Unresolved, !.read = {}, !.plain = FALSE]

\* Retryable.Fetch and FetchID: an error is retried until MAX_ATTEMPTS.  Retain
\* only logs the error it gets in the end.
Fail(a, c) ==
    call' = [call EXCEPT ![a] =
        IF c.attempt < MaxAttempts THEN Reset([c EXCEPT !.pc = "attempt", !.attempt = @ + 1])
        ELSE IF a = Retainer THEN NoCall
        ELSE Reset([c EXCEPT !.pc = "done", !.answer = Failure])]

\* A fault of the network or the disk: the attempt is lost.
Lose(a, fault) ==
    /\ fault \in Faults
    /\ Fail(a, [call[a] EXCEPT !.lost = @ \cup {call[a].attempt}])

Goto(a, c, there) == call' = [call EXCEPT ![a] = [c EXCEPT !.pc = there]]
Answer(a, id) == call' = [call EXCEPT ![a] = Reset([call[a] EXCEPT !.pc = "done", !.answer = id])]

Fetch(r) ==
    /\ At(r, "ready")
    /\ call' = [call EXCEPT ![r] = Begin(@.url, @.creds)]
    /\ UNCHANGED <<world, graph, retained, todo, mu, held>>

\* The caller takes the answer (bound: a goroutine makes one call).
Return(r) ==
    /\ At(r, "done")
    /\ call' = [call EXCEPT ![r] = NoCall]
    /\ UNCHANGED <<world, graph, retained, todo, mu, held>>

----------------------------------------------------------------------------
(* Local.Fetch: CompositeFetcher gives it the URLs without a scheme. *)

FetchLocal(a) ==
    /\ At(a, "attempt") /\ IsLocal(call[a].url)
    /\ LET c == call[a]
           p == PathOf(c.url)
       IN  IF p # NoPath /\ Exists(p)
           THEN Goto(a, [c EXCEPT !.path = Target(p), !.idPath = Target(p)], "id")
           ELSE Fail(a, c)
    /\ UNCHANGED <<world, graph, retained, todo, mu, held>>

AfterID(a) == IF a = Retainer THEN "retain" ELSE "lock"

\* Mutant: the id is made of the path as it was given.
ProvideIDOfPath(a) ==
    /\ At(a, "id")
    /\ Goto(a, call[a], "stat")
    /\ UNCHANGED <<world, graph, retained, todo, mu, held>>

\* LayerIDProvider.ProvideID resolves the path it is given once more ...
ProvideID(a) ==
    /\ At(a, "id")
    /\ LET c == call[a]
       IN  IF Exists(c.idPath)
           THEN Goto(a, [c EXCEPT !.idPath = Target(@)], "stat")
           ELSE Goto(a, [c EXCEPT !.id = Unresolved], AfterID(a))
    /\ UNCHANGED <<world, graph, retained, todo, mu, held>>

\* ... and takes the modification time of what it finds.
StatForID(a) ==
    /\ At(a, "stat")
    /\ LET c == call[a]
       IN  Goto(a, [c EXCEPT !.id = LocalImageID(c.idPath, Nanosecond(c.idPath))], AfterID(a))
    /\ UNCHANGED <<world, graph, retained, todo, mu, held>>

\* Under the lock: the layer is there, or a tar is started, which is made while
\* Register reads it.
LockLocal(a) ==
    /\ At(a, "lock") /\ mu = Nobody
    /\ IF call[a].id \in DOMAIN graph
       THEN Answer(a, call[a].id) /\ UNCHANGED mu
       ELSE /\ mu' = a
            /\ Goto(a, [call[a] EXCEPT !.read = TarOf(call[a].path, time)], "register")
    /\ UNCHANGED <<world, graph, retained, todo, held>>

WithLayer(id, content) ==
    [i \in DOMAIN graph \cup {id} |-> IF i \in DOMAIN graph THEN graph[i] ELSE content]

\* Mutant: the mutex is not unlocked when Register fails.
RegisterKeepsLock(a) ==
    /\ At(a, "register")
    /\ \/ graph' = WithLayer(call[a].id, call[a].read) /\ Answer(a, call[a].id) /\ mu' = Nobody
       \/ Lose(a, "disk") /\ UNCHANGED <<graph, mu>>
    /\ UNCHANGED <<world, retained, todo, held>>

RegisterLocal(a) ==
    /\ At(a, "register")
    /\ \/ graph' = WithLayer(call[a].id, call[a].read) /\ Answer(a, call[a].id)
       \/ Lose(a, "disk") /\ UNCHANGED graph
    /\ mu' = Nobody
    /\ UNCHANGED <<world, retained, todo, held>>

----------------------------------------------------------------------------
(* Remote.manifest: dial, then ask for the tag. *)

\* Mutant: every host is tried over http.
DialAnyway(a) ==
    /\ At(a, "attempt") /\ ~IsLocal(call[a].url)
    /\ LET c == call[a]
           h == Hosts[c.url.host]
           answers == h.https = "verified" \/ (h.https = "selfsigned" /\ AllowInsecure(c.url.host))
       IN  \/ IF answers THEN Goto(a, c, "manifest")
              ELSE IF h.http THEN Goto(a, [c EXCEPT !.plain = TRUE], "manifest") ELSE Fail(a, c)
           \/ Lose(a, "network")
    /\ UNCHANGED <<world, graph, retained, todo, mu, held>>

\* newTransport: the certificate is not verified for a host that may be
\* insecure, and only such a host is tried over http, after any error.
Dial(a) ==
    /\ At(a, "attempt") /\ ~IsLocal(call[a].url)
    /\ LET c == call[a]
           h == Hosts[c.url.host]
           listed == AllowInsecure(c.url.host)
           answers == h.https = "verified" \/ (h.https = "selfsigned" /\ listed)
           overHTTP(d) == IF listed /\ h.http
                          THEN Goto(a, [d EXCEPT !.plain = TRUE], "manifest") ELSE Fail(a, d)
       IN  \/ IF answers THEN Goto(a, c, "manifest") ELSE overHTTP(c)
           \/ "network" \in Faults /\ overHTTP([c EXCEPT !.lost = @ \cup {c.attempt}])
           \/ Lose(a, "network")
    /\ UNCHANGED <<world, graph, retained, todo, mu, held>>

\* Only the answer to the https ping is remembered as a challenge: without it
\* the credentials are never sent.
GetManifest(a) ==
    /\ At(a, "manifest")
    /\ LET c == call[a]
       IN  \/ IF Hosts[c.url.host].private => c.creds /\ ~c.plain
              THEN Goto(a, [c EXCEPT !.id = DockerImageID(tag[c.url]), !.read = {tag[c.url]}],
                        IF a = Retainer THEN "retain" ELSE "layers")
              ELSE Fail(a, c)
           \/ Lose(a, "network")
    /\ UNCHANGED <<world, graph, retained, todo, mu, held>>

FetchLayers(a) ==
    /\ At(a, "layers")
    /\ \/ graph' = WithLayer(call[a].id, call[a].read) /\ Answer(a, call[a].id)
       \/ Lose(a, "network") /\ UNCHANGED graph
    /\ UNCHANGED <<world, retained, todo, mu, held>>

----------------------------------------------------------------------------
(* ImageRetainer.Retain *)

\* toID: a docker image is asked for, without credentials; the path of a URL with
\* any other scheme, or none, is given to ProvideID as it is.
RetainNext ==
    /\ Idle(Retainer) /\ todo # <<>>
    /\ todo' = Tail(todo)
    /\ LET u == Head(todo)
           c == Begin(u, FALSE)
       IN  call' = [call EXCEPT ![Retainer] =
               IF IsDocker(u) THEN c ELSE [c EXCEPT !.pc = "id", !.idPath = u.path]]
    /\ UNCHANGED <<world, graph, retained, mu, held>>

Retain ==
    /\ At(Retainer, "retain")
    /\ LET c == call[Retainer]
       IN  /\ retained' = retained \cup {c.id, NamespacedID(c.id)}
           /\ held' = held \cup {<<Source(c.url), s>> : s \in {s \in c.seen : c.seen = {s}}}
    /\ call' = [call EXCEPT ![Retainer] = NoCall]
    /\ UNCHANGED <<world, graph, todo, mu>>

----------------------------------------------------------------------------
(* The environment. *)

\* The calls under way see what their source has become, and a tar being made
\* picks it up.
Notice ==
    call' = [a \in Actors |->
        IF Idle(a) THEN call[a]
        ELSE [call[a] EXCEPT
            !.seen = IF At(a, "done") THEN @ ELSE @ \cup {SourceOf(call[a].url, time', tag')},
            !.read = IF At(a, "register") THEN @ \cup TarOf(call[a].path, time') ELSE @]]

\* Bound: only what somebody asks for, or is going to, changes.
Wanted(u) ==
    \/ \E a \in Actors : ~At(a, "idle") /\ ~At(a, "done") /\ call[a].url = u
    \/ \E i \in DOMAIN todo : todo[i] = u
Dependents(d) == {u \in Urls : IsLocal(u) /\ Source(u) = d}

\* A directory is made, or changed at its top: it has a new modification time.
Edit(d) ==
    /\ now < MaxTime /\ \E u \in Dependents(d) : Wanted(u)
    /\ now' = now + 1 /\ time' = [time EXCEPT ![d] = now + 1]
    /\ UNCHANGED tag
    /\ Notice
    /\ UNCHANGED <<graph, retained, todo, mu, held>>

Unlink(d) ==
    /\ now < MaxTime /\ time[d] > 0 /\ \E u \in Dependents(d) : Wanted(u)
    /\ now' = now + 1 /\ time' = [time EXCEPT ![d] = 0]
    /\ UNCHANGED tag
    /\ Notice
    /\ UNCHANGED <<graph, retained, todo, mu, held>>

Push(u, m) ==
    /\ now < MaxTime /\ m # tag[u] /\ Wanted(u)
    /\ now' = now + 1 /\ tag' = [tag EXCEPT ![u] = m]
    /\ UNCHANGED time
    /\ Notice
    /\ UNCHANGED <<graph, retained, todo, mu, held>>

\* A garbage collection excludes the creations, of which Fetch is a part.
Collect ==
    /\ \A r \in Requests : Idle(r)
    /\ \E id \in DOMAIN graph \ retained :
        graph' = [i \in DOMAIN graph \ {id} |-> graph[i]]
    /\ UNCHANGED <<world, retained, todo, mu, call, held>>

Step(a) ==
    \/ FetchLocal(a) \/ ProvideID(a) \/ StatForID(a) \/ LockLocal(a) \/ RegisterLocal(a)
    \/ Dial(a) \/ GetManifest(a) \/ FetchLayers(a)

Next ==
    \/ \E a \in Actors : Step(a)
    \/ RetainNext \/ Retain
    \/ \E r \in Requests : Fetch(r) \/ Return(r)
    \/ \E d \in Dirs : Edit(d) \/ Unlink(d)
    \/ \E u \in Tags, m \in Manifests : Push(u, m)
    \/ Collect

\* The goroutines are scheduled; mu goes to whoever waits for it in turn.
Fairness ==
    /\ \A a \in Actors : WF_vars(Step(a)) /\ SF_vars(LockLocal(a))
    /\ WF_vars(RetainNext \/ Retain)

Spec == Init /\ [][Next]_vars
FairSpec == Spec /\ Fairness

----------------------------------------------------------------------------
(* Properties. *)

HasNoTime(id) == id[1] = "local" /\ id[3] = 0
Answered(r) == At(r, "done") /\ call[r].answer # Failure

\* The layer Fetch answers with holds what its source held at some time during
\* the call, and nothing else: an id made of the modification time, computed
\* before the lock is taken and before the directory is read, never leads to a
\* layer cached from an older state of the directory.  (An answer without a
\* time, for a directory that vanished during the call, is left out.)
AnswersAreFresh ==
    \A r \in Requests : Answered(r) /\ ~HasNoTime(call[r].answer) =>
        graph[call[r].answer] \subseteq call[r].seen

\* Retain and Fetch work out the same id for the same state of a source, one
\* from the path as it is given, the other from a path it has resolved, and by
\* way of a link or not: what a Fetch answers with is held if Retain has looked
\* at the source in that state.  (Not so of a URL with a scheme of another kind:
\* Fetch asks a registry for it, Retain looks for a directory.)
RetainedIsFetched ==
    \A r \in Requests : Answered(r) /\ (IsLocal(call[r].url) \/ IsDocker(call[r].url)) =>
        \A s \in call[r].seen \ {Absent} :
            call[r].seen = {s} /\ <<Source(call[r].url), s>> \in held => call[r].answer \in retained

\* The registries a Fetch may get an image from: over https with a certificate
\* that can be verified, or must not be; over http, without credentials, only if
\* the host is listed as insecure.
MayFetch(u, creds) ==
    LET h == Hosts[u.host]
    IN  /\ h.private => creds /\ h.https # "none"
        /\ h.https = "verified" \/ (AllowInsecure(u.host) /\ (h.https = "selfsigned" \/ h.http))

\* A Fetch fails only if its source cannot be had, or every attempt was lost to
\* the network or the disk; and a registry is not asked for what it may not be:
\* the fallback to http, the challenge that is only remembered over https and
\* the retries together give exactly what MayFetch says.
FailuresHaveCauses ==
    \A r \in Requests : At(r, "done") =>
        LET c == call[r]
            available == IF IsLocal(c.url) THEN Absent \notin c.seen ELSE MayFetch(c.url, c.creds)
        IN  /\ c.answer = Failure => ~available \/ c.lost = 1..MaxAttempts
            /\ c.answer # Failure =>
                IF IsLocal(c.url) THEN c.url.path \in Dirs => c.seen # {Absent} ELSE available

\* Every Fetch returns, and Retain gets through its list, whatever fails: no
\* error path keeps Local's mutex.
CallsReturn ==
    /\ \A r \in Requests : At(r, "attempt") ~> At(r, "done")
    /\ <>(todo = <<>> /\ Idle(Retainer))
=============================================================================
