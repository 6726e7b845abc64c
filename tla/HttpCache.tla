------------------------------ MODULE HttpCache ------------------------------
(***************************************************************************)
(* The interceptor that answers GET requests from Redis.  A GET that finds *)
(* no answer runs its handler and stores what it read, without waiting for *)
(* the store; a request of another method that succeeds removes, again     *)
(* without waiting, what is stored for the resource of its path.  Redis    *)
(* may fail at any of this and nobody notices; every stored answer expires *)
(* after five minutes.                                                     *)
(***************************************************************************)
EXTENDS Integers

CONSTANTS
    Nothing,        \* no answer stored
    Resources,      \* first segments of the paths; each has a table of its own
    Readers,        \* the identities answers are stored for
    ReadsOf,        \* ReadsOf[p]: the tables a GET of p reads
    WritesOf,       \* WritesOf[p]: the tables another request of p changes
    MaxVersion,     \* bound: MaxVersion[t] is how often table t changes
    WebRequests     \* identities of the requests that are made

Keys == Resources \X Readers

\* What a handler read: a version of each table.
Answer == [Resources -> Nat]

WebPhases == {"idle", "looking", "read", "committed", "scanning"}

\* left are the keys a scan is still to come to; outrun is history: a table the answer
\* shows has changed since it was read.
WebCall == [phase : WebPhases, resource : Resources \cup {Nothing},
            reader : Readers \cup {Nothing}, answer : Answer \cup {Nothing},
            left : SUBSET Keys, outrun : BOOLEAN]

ASSUME CacheAssumption ==
    /\ ReadsOf \in [Resources -> SUBSET Resources]
    /\ WritesOf \in [Resources -> SUBSET Resources]
    /\ MaxVersion \in [Resources -> Nat]
    /\ Nothing \notin Resources \cup Readers \cup Answer

VARIABLES
    version,    \* version[t]: the changes of table t that have been committed
    cached,     \* cached[k]: the answer stored under key k
    outrun,     \* history: the keys whose answer a change has outrun, see Outruns
    web         \* web[r]: the state of request r

cacheVars == <<version, cached, outrun, web>>

IdleWebCall == [phase |-> "idle", resource |-> Nothing, reader |-> Nothing,
                answer |-> Nothing, left |-> {}, outrun |-> FALSE]

CacheTypeOK ==
    /\ version \in Answer
    /\ cached \in [Keys -> Answer \cup {Nothing}]
    /\ outrun \subseteq Keys
    /\ web \in [WebRequests -> WebCall]

Stored == {k \in Keys : cached[k] # Nothing}
Fresh(k) == \A t \in ReadsOf[k[1]] : cached[k][t] = version[t]

\* A change that a request of resource p has committed and not removed answers for.
Invalidating(p) ==
    \E r \in WebRequests : /\ web[r].phase \in {"committed", "scanning"}
                           /\ web[r].resource = p

\* A stored answer shows every change made through the endpoints of its own resource,
\* but for the changes that are just being followed by the removal of answers, and for
\* the answers a change has outrun: read before the change and stored after it, changed
\* through another resource, or left over by a removal that did not take place.
StaleOnlyIfOutrun ==
    \A k \in Stored : Fresh(k) \/ k \in outrun \/ Invalidating(k[1])

CacheInit ==
    /\ version = [t \in Resources |-> 0]
    /\ cached = [k \in Keys |-> Nothing]
    /\ outrun = {}
    /\ web = [r \in WebRequests |-> IdleWebCall]

(***************************************************************************)
(* GET                                                                     *)
(***************************************************************************)
KeyOf(r) == <<web[r].resource, web[r].reader>>

Get(r) ==
    /\ web[r].phase = "idle"
    /\ \E p \in Resources, i \in Readers :
          web' = [web EXCEPT ![r] = [IdleWebCall EXCEPT !.phase = "looking",
                                         !.resource = p, !.reader = i]]
    /\ UNCHANGED <<version, cached, outrun>>

\* The stored answer is served; the request is over.
Hit(r) ==
    /\ web[r].phase = "looking" /\ KeyOf(r) \in Stored
    /\ web' = [web EXCEPT ![r] = IdleWebCall]
    /\ UNCHANGED <<version, cached, outrun>>

\* The tables a GET of p reads, as they are now; what it does not read does not matter.
Shown(p) == [t \in Resources |-> IF t \in ReadsOf[p] THEN version[t] ELSE 0]

\* Nothing is stored, or Redis does not answer: the handler reads its tables, and the
\* client is served while the answer is still to be stored.
ReadTables(r) ==
    /\ web[r].phase = "looking"
    /\ web' = [web EXCEPT ![r].phase = "read", ![r].answer = Shown(web[r].resource)]
    /\ UNCHANGED <<version, cached, outrun>>

\* Redis takes the answer, over whatever is stored by now.
Store(r) ==
    LET k == KeyOf(r)
    IN  /\ web[r].phase = "read"
        /\ cached' = [cached EXCEPT ![k] = web[r].answer]
        /\ outrun' = IF web[r].outrun THEN outrun \cup {k} ELSE outrun \ {k}
        /\ web' = [web EXCEPT ![r] = IdleWebCall]
        /\ UNCHANGED version

\* The read or the store fails, and only a log line says so.
LoseAnswer(r) ==
    /\ web[r].phase \in {"looking", "read"}
    /\ web' = [web EXCEPT ![r] = IdleWebCall]
    /\ UNCHANGED <<version, cached, outrun>>

\* Slip: stored without a time to live.
NeverExpire(k) == k \in Stored /\ UNCHANGED <<version, cached, outrun, web>>

\* The time to live of an answer is over.
Expire(k) ==
    /\ k \in Stored
    /\ cached' = [cached EXCEPT ![k] = Nothing]
    /\ outrun' = outrun \ {k}
    /\ UNCHANGED <<version, web>>

(***************************************************************************)
(* POST, PUT, PATCH and DELETE                                             *)
(***************************************************************************)
\* The tables a request of p changes are shown by the answers of resource q.
Shows(q, p) == ReadsOf[q] \cap WritesOf[p] # {}

\* The handler of a request of resource p commits its changes.  One that fails before
\* that changes nothing and removes nothing.
CommitWrite(r, p) ==
    /\ web[r].phase = "idle"
    /\ \A t \in WritesOf[p] : version[t] < MaxVersion[t]
    /\ version' = [t \in Resources |-> IF t \in WritesOf[p] THEN version[t] + 1
                                       ELSE version[t]]
    /\ web' = [q \in WebRequests |->
                  IF q = r
                  THEN [IdleWebCall EXCEPT !.phase = "committed", !.resource = p]
                  ELSE IF web[q].phase = "read" /\ Shows(web[q].resource, p)
                       THEN [web[q] EXCEPT !.outrun = TRUE] ELSE web[q]]
    /\ outrun' = outrun \cup {k \in Stored : k[1] # p /\ Shows(k[1], p)}
    /\ UNCHANGED cached

KeysOf(p) == {k \in Stored : k[1] = p}

\* The handler has succeeded, and the scan for the resource's prefix starts.
StartScan(r) ==
    /\ web[r].phase = "committed"
    /\ web' = [web EXCEPT ![r].phase = "scanning", ![r].left = KeysOf(web[r].resource)]
    /\ UNCHANGED <<version, cached, outrun>>

\* Slip: one page of the scan is removed and the cursor is not followed.
RemoveFirstPage(r) ==
    /\ web[r].phase = "scanning"
    /\ \E k \in KeysOf(web[r].resource) :
          /\ cached' = [cached EXCEPT ![k] = Nothing]
          /\ outrun' = outrun \ {k}
          /\ web' = [web EXCEPT ![r] = IdleWebCall]
    /\ UNCHANGED version

\* The scan comes to a key and unlinks it: to every key it found at the start, and to
\* one stored since only perhaps.
Remove(r) ==
    /\ web[r].phase = "scanning"
    /\ \E k \in web[r].left \cup KeysOf(web[r].resource) :
          /\ cached' = [cached EXCEPT ![k] = Nothing]
          /\ outrun' = outrun \ {k}
          /\ web' = [web EXCEPT ![r].left = @ \ {k}]
    /\ UNCHANGED version

EndScan(r) ==
    /\ web[r].phase = "scanning" /\ web[r].left = {}
    /\ web' = [web EXCEPT ![r] = IdleWebCall]
    /\ UNCHANGED <<version, cached, outrun>>

\* The handler fails after its commit, Redis fails, or the process stops: the answers
\* that are left stay.
LoseRemoval(r) ==
    /\ web[r].phase \in {"committed", "scanning"}
    /\ outrun' = outrun \cup KeysOf(web[r].resource)
    /\ web' = [web EXCEPT ![r] = IdleWebCall]
    /\ UNCHANGED <<version, cached>>

WebStep(r) ==
    \/ Get(r) \/ Hit(r) \/ ReadTables(r) \/ Store(r) \/ LoseAnswer(r)
    \/ (\E p \in Resources : CommitWrite(r, p))
    \/ StartScan(r) \/ Remove(r) \/ EndScan(r) \/ LoseRemoval(r)

CacheNext == (\E r \in WebRequests : WebStep(r)) \/ (\E k \in Keys : Expire(k))

\* Requests come to an end, and answers expire.
CacheFairness ==
    /\ \A r \in WebRequests : WF_cacheVars(Store(r) \/ LoseAnswer(r))
    /\ \A k \in Keys : WF_cacheVars(Expire(k))

CacheSpec == CacheInit /\ [][CacheNext]_cacheVars /\ CacheFairness

\* When the tables have changed for the last time, the answers served from the store are
\* up to date some time later and from then on, whatever was outrun, lost or left over.
EventuallyFresh == <>[](\A k \in Stored : Fresh(k))
=============================================================================
