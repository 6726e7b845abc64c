------------------------- MODULE WorkScheduleProofs -------------------------
(***************************************************************************)
(* Proofs about WorkSchedule for every number of schedules, companies,     *)
(* users and calls.  What may overlap is a parameter (Apart): a theorem    *)
(* that needs endpoints kept apart says so in its assumptions.             *)
(***************************************************************************)
EXTENDS WorkSchedule, TLAPS

(***************************************************************************)
(* Lemmas about the operators.                                             *)
(***************************************************************************)
LEMMA IdleType == Idle \in Call
BY DEF Idle, Call, Phases, AllKinds

\* What a call that starts is.
Sent(kind, s, c, u, default) == [About(kind, s, c, u, default) EXCEPT !.phase = "started"]

LEMMA SentType ==
    ASSUME NEW kind \in AllKinds, NEW s \in Schedules \cup {None, Absent},
           NEW c \in Companies \cup {None, Absent}, NEW u \in People \cup {None},
           NEW default \in BOOLEAN
    PROVE  /\ Sent(kind, s, c, u, default) \in Call
           /\ Sent(kind, s, c, u, default).kind = kind
           /\ Sent(kind, s, c, u, default).schedule = s
           /\ Sent(kind, s, c, u, default).company = c
           /\ Sent(kind, s, c, u, default).user = u
           /\ Sent(kind, s, c, u, default).isDefault = default
           /\ Sent(kind, s, c, u, default).phase = "started"
           /\ Sent(kind, s, c, u, default).seen = {}
           /\ About(kind, s, c, u, default).kind = kind
BY IdleType DEF Sent, About, Idle, Call, Phases

\* A call that is over keeps its kind and its user, and nothing it relied on.
LEMMA LeftFacts ==
    ASSUME NEW c \in Call, NEW phase \in {"done", "refused"}
    PROVE  /\ Left(c, phase) \in Call
           /\ Left(c, phase).phase = phase
           /\ Left(c, phase).kind = c.kind
           /\ Left(c, phase).user = c.user
           /\ Left(c, phase).seen = {}
BY IdleType DEF Left, Idle, Call, Phases

\* Clearing takes the mark off some of the company's attachments and touches no other.
LEMMA ClearedFacts ==
    ASSUME TypeOK, NEW c \in Call
    PROVE  /\ Cleared(c) \in [Schedules -> [Companies -> Link \cup {None}]]
           /\ \A s \in Schedules, d \in Companies :
                 /\ (Cleared(c)[s][d] = None) <=> (link[s][d] = None)
                 /\ link[s][d] # None => Cleared(c)[s][d].id = link[s][d].id
                 /\ d # c.company => Cleared(c)[s][d] = link[s][d]
                 /\ Cleared(c)[s][d] # None /\ Cleared(c)[s][d].isDefault =>
                        /\ link[s][d].isDefault
                        /\ d = c.company => <<s, link[s][d].id>> \notin c.seen
<1>1. ASSUME NEW s \in Schedules, NEW d \in Companies
      PROVE  link[s][d] \in Link \cup {None}
    BY DEF TypeOK
<1>2. ASSUME NEW x \in Link
      PROVE  /\ [x EXCEPT !.isDefault = FALSE] \in Link
             /\ [x EXCEPT !.isDefault = FALSE] # None
             /\ [x EXCEPT !.isDefault = FALSE].id = x.id
             /\ ~[x EXCEPT !.isDefault = FALSE].isDefault
    <2>1. [x EXCEPT !.isDefault = FALSE] \in Link
        BY DEF Link
    <2>2. QED
        BY <2>1, NoneIsNoLink DEF Link
<1>3. ASSUME NEW s \in Schedules, NEW d \in Companies
      PROVE  Cleared(c)[s][d] =
                IF d = c.company /\ link[s][d] # None /\ <<s, link[s][d].id>> \in c.seen
                THEN [link[s][d] EXCEPT !.isDefault = FALSE] ELSE link[s][d]
    BY DEF Cleared
<1>4. Cleared(c) \in [Schedules -> [Companies -> Link \cup {None}]]
    <2>1. \A s \in Schedules, d \in Companies :
             (IF d = c.company /\ link[s][d] # None /\ <<s, link[s][d].id>> \in c.seen
              THEN [link[s][d] EXCEPT !.isDefault = FALSE] ELSE link[s][d]) \in Link \cup {None}
        BY <1>1, <1>2
    <2>2. QED
        BY <2>1 DEF Cleared
<1>5. ASSUME NEW s \in Schedules, NEW d \in Companies
      PROVE  /\ (Cleared(c)[s][d] = None) <=> (link[s][d] = None)
             /\ link[s][d] # None => Cleared(c)[s][d].id = link[s][d].id
             /\ d # c.company => Cleared(c)[s][d] = link[s][d]
             /\ Cleared(c)[s][d] # None /\ Cleared(c)[s][d].isDefault =>
                    /\ link[s][d].isDefault
                    /\ d = c.company => <<s, link[s][d].id>> \notin c.seen
    <2>1. CASE d = c.company /\ link[s][d] # None /\ <<s, link[s][d].id>> \in c.seen
        <3>1. link[s][d] \in Link /\ Cleared(c)[s][d] = [link[s][d] EXCEPT !.isDefault = FALSE]
            BY <1>1, <1>3, <2>1
        <3>2. QED
            BY <1>2, <2>1, <3>1
    <2>2. CASE ~(d = c.company /\ link[s][d] # None /\ <<s, link[s][d].id>> \in c.seen)
        <3>1. Cleared(c)[s][d] = link[s][d]
            BY <1>3, <2>2
        <3>2. QED
            BY <2>2, <3>1
    <2>3. QED
        BY <2>1, <2>2
<1>6. QED
    BY <1>4, <1>5

\* A mark set on one attachment changes no other.
LEMMA PutFacts ==
    ASSUME NEW f \in [Schedules -> [Companies -> Link \cup {None}]],
           NEW s \in Schedules, NEW c \in Companies, NEW x \in Link \cup {None}
    PROVE  LET g == [f EXCEPT ![s][c] = x]
           IN  /\ g \in [Schedules -> [Companies -> Link \cup {None}]]
               /\ g[s][c] = x
               /\ \A t \in Schedules, d \in Companies :
                     t # s \/ d # c => g[t][d] = f[t][d]
OBVIOUS

\* A mark is a link.
LEMMA LinkType ==
    ASSUME NEW s \in Schedules, NEW default \in BOOLEAN
    PROVE  /\ [id |-> s, isDefault |-> default] \in Link
           /\ [id |-> s, isDefault |-> default] # None
BY NoneIsNoLink DEF Link

(***************************************************************************)
(* Type correctness and soundness of the calls.                            *)
(***************************************************************************)
TypeInv == TypeOK /\ CallsSound

LEMMA TypeInvInit == Init => TypeInv
<1> SUFFICES ASSUME Init PROVE TypeInv
    OBVIOUS
<1>1. owner \in [Schedules -> Companies \cup {None}] /\ \A r \in Requests : owner[r] = None
    <2>1. PICK o \in [Seeds -> Companies \cup {None}] :
             owner = [s \in Schedules |-> IF s \in Seeds THEN o[s] ELSE None]
        BY DEF Init
    <2>2. QED
        BY <2>1, WorkScheduleAssumption DEF Schedules
<1>2. link \in [Schedules -> [Companies -> Link \cup {None}]]
    <2>1. PICK a \in SUBSET (Seeds \X Companies) : \E b \in SUBSET a :
             link = [s \in Schedules |-> [c \in Companies |->
                        IF <<s, c>> \in a
                        THEN [id |-> s, isDefault |-> <<s, c>> \in b] ELSE None]]
        BY DEF Init
    <2>2. PICK b \in SUBSET a :
             link = [s \in Schedules |-> [c \in Companies |->
                        IF <<s, c>> \in a
                        THEN [id |-> s, isDefault |-> <<s, c>> \in b] ELSE None]]
        BY <2>1
    <2>3. \A s \in Schedules, c \in Companies :
             (IF <<s, c>> \in a
              THEN [id |-> s, isDefault |-> <<s, c>> \in b] ELSE None) \in Link \cup {None}
        BY DEF Link
    <2>4. QED
        BY <2>2, <2>3
<1>3. call \in [Requests -> Call] /\ \A r \in Requests : call[r].phase = "idle" /\ call[r].seen = {}
    BY IdleType DEF Init, Idle
<1>4. TypeOK
    <2>1. PICK staff \in [Users -> User] :
             user = [u \in People |-> IF u \in Users THEN staff[u] ELSE Nobody]
        BY DEF Init
    <2>2. Nobody \in User
        BY DEF Nobody, User
    <2>3. user \in [People -> User]
        BY <2>1, <2>2
    <2>4. QED
        BY <1>1, <1>2, <1>3, <2>3 DEF TypeOK
<1>5. QED
    BY <1>1, <1>3, <1>4 DEF TypeInv, CallsSound, SoundCall, InFlightPhases

\* A step of one call that writes no row.
LEMMA TypeInvRead ==
    ASSUME TypeInv, NEW r \in Requests, call[r].phase # "done", NEW c \in Call,
           call' = [call EXCEPT ![r] = c], UNCHANGED <<owner, link, user>>,
           SoundCall(r)'
    PROVE  TypeInv'
<1>1. TypeOK'
    BY DEF TypeInv, TypeOK
<1>2. ASSUME NEW q \in Requests, q # r PROVE SoundCall(q)'
    <2>1. SoundCall(q) /\ call'[q] = call[q]
        BY <1>2 DEF TypeInv, TypeOK, CallsSound
    <2>2. \A t \in Requests : call[t].phase = "done" => call'[t] = call[t]
        BY DEF TypeInv, TypeOK
    <2>3. QED
        BY <2>1, <2>2 DEF SoundCall
<1>3. QED
    BY <1>1, <1>2 DEF TypeInv, CallsSound

\* The start of a call.
LEMMA TypeInvStart ==
    ASSUME TypeInv, NEW r \in Requests, NEW c \in Call, c.phase = "started",
           call[r].phase = "idle",
           call' = [call EXCEPT ![r] = c], UNCHANGED <<owner, link, user>>,
           c.kind = "create" => c.schedule = r /\ (c.user # None => ~c.isDefault),
           c.kind \in OnSchedule => c.schedule \in Present,
           c.kind \in {"create", "attach", "detach", "setDefault"} => c.company \in Companies,
           c.kind \in {"assign", "unassign", "editUser", "createUser"} => c.user \in People,
           c.kind = "setDefault" => c.isDefault,
           c.seen = {}
    PROVE  TypeInv'
<1>1. \A t \in Requests : t \in Present => call[t].phase = "done" /\ t # r
    BY DEF TypeInv, CallsSound, SoundCall, Present
<1>2. call'[r] = c /\ \A t \in Requests : t # r => call'[t] = call[t]
    BY DEF TypeInv, TypeOK
<1>3. SoundCall(r)'
    <2>1. owner'[r] = None
        BY DEF TypeInv, CallsSound, SoundCall
    <2>2. c.kind \in OnSchedule =>
             /\ c.schedule \in Schedules
             /\ c.schedule \in Requests => call'[c.schedule].phase = "done"
        BY <1>1, <1>2 DEF Present
    <2>3. "create" \notin OnSchedule
        BY DEF OnSchedule
    <2>4. QED
        BY <1>2, <2>1, <2>2 DEF SoundCall, InFlightPhases
<1>4. QED
    BY <1>3, TypeInvRead

\* The start of a call, by what the client sent.
LEMMA TypeInvAbout ==
    ASSUME TypeInv, NEW r \in Requests,
           NEW kind \in AllKinds, NEW s \in Schedules \cup {None, Absent},
           NEW c \in Companies \cup {None, Absent}, NEW u \in People \cup {None},
           NEW default \in BOOLEAN, Start(r, About(kind, s, c, u, default)),
           kind = "create" => s = r /\ (u # None => ~default),
           kind \in OnSchedule => s \in Present,
           kind \in {"create", "attach", "detach", "setDefault"} => c \in Companies,
           kind \in {"assign", "unassign", "editUser", "createUser"} => u \in People,
           kind = "setDefault" => default
    PROVE  TypeInv'
<1> DEFINE sent == Sent(kind, s, c, u, default)
<1>1. /\ sent \in Call
      /\ sent.kind = kind /\ sent.schedule = s /\ sent.company = c
      /\ sent.user = u /\ sent.isDefault = default /\ sent.phase = "started"
      /\ sent.seen = {}
    <2>1. Sent(kind, s, c, u, default) \in Call
        BY SentType
    <2>2. /\ Sent(kind, s, c, u, default).kind = kind
          /\ Sent(kind, s, c, u, default).schedule = s
          /\ Sent(kind, s, c, u, default).company = c
          /\ Sent(kind, s, c, u, default).user = u
        BY DEF Sent, About, Idle
    <2>3. /\ Sent(kind, s, c, u, default).isDefault = default
          /\ Sent(kind, s, c, u, default).phase = "started"
          /\ Sent(kind, s, c, u, default).seen = {}
        BY DEF Sent, About, Idle
    <2>4. QED
        BY <2>1, <2>2, <2>3
<1>2. call' = [call EXCEPT ![r] = sent] /\ call[r].phase = "idle"
      /\ UNCHANGED <<owner, link, user>>
    BY DEF Start, MayStart, Sent
<1> HIDE DEF sent
<1>3. QED
    BY <1>1, <1>2, TypeInvStart

\* A call goes on to a later phase with what it has read.
LEMMA TypeInvNext ==
    ASSUME TypeInv, NEW r \in Requests, InFlight(r), NEW c \in Call,
           c.phase \in {"loaded", "ready", "open"},
           call' = [call EXCEPT ![r] = c], UNCHANGED <<owner, link, user>>,
           c.kind = call[r].kind, c.schedule = call[r].schedule,
           c.company = call[r].company, c.user = call[r].user,
           c.isDefault = call[r].isDefault, c.seen # {} => c.isDefault,
           c.phase = "loaded" => c.kind \in {"assign", "unassign"},
           c.phase \in {"ready", "open"} /\ c.kind \in {"detach", "setDefault"} =>
               c.id \in Schedules /\ (c.kind = "detach" => owner[c.schedule] # c.company)
    PROVE  TypeInv'
<1>1. SoundCall(r) /\ call[r].phase # "done"
    BY DEF TypeInv, CallsSound, InFlight, InFlightPhases
<1>2. call'[r] = c /\ \A t \in Requests : call[t].phase = "done" => call'[t] = call[t]
    BY <1>1 DEF TypeInv, TypeOK
<1>3. SoundCall(r)'
    BY <1>1, <1>2 DEF SoundCall, InFlight, InFlightPhases, OnSchedule
<1>4. QED
    BY <1>1, <1>3, TypeInvRead

\* A call that ends without writing.
LEMMA TypeInvLeave ==
    ASSUME TypeInv, NEW r \in Requests, InFlight(r),
           call' = [call EXCEPT ![r] = Left(call[r], "refused")],
           UNCHANGED <<owner, link, user>>
    PROVE  TypeInv'
<1>1. call[r] \in Call /\ call[r].phase # "done" /\ SoundCall(r)
    BY DEF TypeInv, TypeOK, CallsSound, InFlight, InFlightPhases
<1>2. Left(call[r], "refused") \in Call /\ Left(call[r], "refused").phase = "refused"
      /\ Left(call[r], "refused").seen = {}
    BY <1>1, LeftFacts
<1>3. call'[r] = Left(call[r], "refused")
    BY DEF TypeInv, TypeOK
<1>4. SoundCall(r)'
    BY <1>1, <1>2, <1>3 DEF SoundCall, InFlightPhases
<1>5. QED
    BY <1>1, <1>2, <1>4, TypeInvRead

\* A call that reads and goes on, or is refused.
LEMMA TypeInvCheck ==
    ASSUME TypeInv, NEW r \in Requests, InFlight(r), NEW permits \in BOOLEAN, NEW c,
           Read(r, permits, c),
           permits =>
               /\ c \in Call /\ c.phase \in {"loaded", "ready"}
               /\ c.kind = call[r].kind /\ c.schedule = call[r].schedule
               /\ c.company = call[r].company /\ c.user = call[r].user
               /\ c.isDefault = call[r].isDefault /\ c.seen = call[r].seen
               /\ c.phase = "loaded" => c.kind \in {"assign", "unassign"}
               /\ c.phase = "ready" /\ c.kind \in {"detach", "setDefault"} =>
                      c.id \in Schedules /\ (c.kind = "detach" => owner[c.schedule] # c.company)
    PROVE  TypeInv'
<1>1. CASE permits
    <2>1. SoundCall(r)
        BY DEF TypeInv, CallsSound
    <2>2. QED
        BY <1>1, <2>1, TypeInvNext DEF Read, SoundCall
<1>2. CASE ~permits
    BY <1>2, TypeInvLeave DEF Read
<1>3. QED
    BY <1>1, <1>2

\* A call whose statements went through: schedules are deleted, or the call's own
\* is created.
LEMMA TypeInvCommit ==
    ASSUME TypeInv, NEW r \in Requests, call[r].phase \in {"ready", "open"},
           call' = [call EXCEPT ![r] = Left(call[r], "done")],
           owner' \in [Schedules -> Companies \cup {None}],
           link' \in [Schedules -> [Companies -> Link \cup {None}]],
           user' \in [People -> User],
           \A s \in Schedules : s # r => owner'[s] \in {owner[s], None}
    PROVE  TypeInv'
<1>1. call[r] \in Call
    BY DEF TypeInv, TypeOK
<1>2. Left(call[r], "done") \in Call /\ Left(call[r], "done").phase = "done"
      /\ Left(call[r], "done").seen = {}
    BY <1>1, LeftFacts
<1>3. call'[r].phase = "done" /\ call'[r].seen = {} /\ \A t \in Requests : t # r => call'[t] = call[t]
    BY <1>2 DEF TypeInv, TypeOK
<1>4. TypeOK'
    BY <1>2 DEF TypeInv, TypeOK
<1>5. ASSUME NEW q \in Requests, q # r PROVE SoundCall(q)'
    <2>1. SoundCall(q) /\ call'[q] = call[q] /\ call[q] \in Call /\ call[r].phase # "done"
        BY <1>3, <1>5 DEF TypeInv, TypeOK, CallsSound
    <2>2. \A t \in Requests : call[t].phase = "done" => call'[t].phase = "done"
        BY <1>3
    <2>3. owner'[q] # None => owner[q] # None
        BY <1>5 DEF Schedules
    <2>4. ASSUME call[q].phase \in {"ready", "open"}, call[q].kind = "detach"
          PROVE  owner'[call[q].schedule] # call[q].company
        <3>1. /\ call[q].schedule \in Schedules /\ call[q].schedule # r
              /\ owner[call[q].schedule] # call[q].company /\ call[q].company \in Companies
            BY <2>1, <2>4 DEF SoundCall, InFlightPhases, OnSchedule
        <3>2. QED
            BY <3>1, WorkScheduleAssumption
    <2>5. QED
        BY <2>1, <2>2, <2>3, <2>4 DEF SoundCall
<1>6. SoundCall(r)'
    BY <1>3 DEF SoundCall, InFlightPhases
<1>7. QED
    BY <1>4, <1>5, <1>6 DEF TypeInv, CallsSound

\* Opening a transaction picks rows and touches none.
LEMMA OpenFacts ==
    ASSUME TypeInv, NEW r \in Requests, Open(r)
    PROVE  \E c \in Call :
              /\ call' = [call EXCEPT ![r] = c] /\ UNCHANGED <<owner, link, user>>
              /\ InFlight(r) /\ c.phase = "open" /\ PicksRows(call[r])
              /\ c.kind = call[r].kind /\ c.schedule = call[r].schedule
              /\ c.company = call[r].company /\ c.user = call[r].user
              /\ c.isDefault = call[r].isDefault /\ c.id = call[r].id
              /\ ClearsDefaults(call[r]) => c.seen = DefaultRows(call[r])
              /\ c.seen # {} => c.isDefault
<1> DEFINE b == call[r]
           seen == IF ClearsDefaults(b) THEN DefaultRows(b) ELSE {}
           staff == IF b.kind = "detach" THEN Staff(b) ELSE {}
           c == [b EXCEPT !.phase = "open", !.seen = seen, !.staff = staff]
<1>1. b \in Call /\ SoundCall(r) /\ b.phase = "ready" /\ PicksRows(b)
    BY DEF TypeInv, TypeOK, CallsSound, Open
<1>2. call' = [call EXCEPT ![r] = c] /\ UNCHANGED <<owner, link, user>>
    BY DEF Open, TypeInv, TypeOK
<1>3. staff \in SUBSET People
    BY DEF Staff
<1>4. seen \in SUBSET (Schedules \X Schedules)
    <2>1. CASE ClearsDefaults(b)
        <3>1. b.company \in Companies
            BY <1>1, <2>1 DEF ClearsDefaults, SoundCall, InFlightPhases
        <3>2. ASSUME NEW s \in Defaults(b.company)
              PROVE  <<s, link[s][b.company].id>> \in Schedules \X Schedules
            <4>1. s \in Schedules /\ link[s][b.company] # None
                BY DEF Defaults, IsDefault
            <4>2. link[s][b.company] \in Link
                BY <3>1, <4>1 DEF TypeInv, TypeOK
            <4>3. QED
                BY <4>1, <4>2 DEF Link
        <3>3. QED
            BY <2>1, <3>2 DEF DefaultRows
    <2>2. QED
        BY <2>1
<1>5. b.phase \in InFlightPhases
    BY <1>1 DEF InFlightPhases
<1> HIDE DEF seen, staff
<1>6. /\ c \in Call /\ c.phase = "open" /\ c.kind = b.kind /\ c.schedule = b.schedule
      /\ c.company = b.company /\ c.user = b.user /\ c.isDefault = b.isDefault
      /\ c.id = b.id /\ c.seen = seen
    BY <1>1, <1>3, <1>4 DEF Call, Phases
<1>7. /\ ClearsDefaults(b) => seen = DefaultRows(b)
      /\ seen # {} => b.isDefault
    BY DEF seen, ClearsDefaults
<1> HIDE DEF c
<1>8. QED
    BY <1>1, <1>2, <1>5, <1>6, <1>7 DEF InFlight

Writes(r) ==
    \/ Create(r) \/ Attach(r) \/ SetDefault(r) \/ Detach(r) \/ Assign(r) \/ Delete(r)
    \/ EditUser(r) \/ CreateUser(r)

\* What a call about to write is about.
LEMMA CommitSound ==
    ASSUME TypeInv, NEW r \in Requests, NEW kinds, Commit(r, kinds)
    PROVE  LET c == call[r]
           IN  /\ c \in Call /\ c.kind \in kinds
               /\ c.phase \in {"ready", "open"} /\ InFlight(r)
               /\ call' = [call EXCEPT ![r] = Left(c, "done")]
               /\ call'[r] = Left(c, "done")
               /\ c.kind = "create" =>
                      c.schedule = r /\ c.company \in Companies /\ (c.user # None => ~c.isDefault)
               /\ c.kind \in OnSchedule => c.schedule \in Schedules
               /\ c.kind \in {"attach", "detach", "setDefault"} =>
                      c.schedule \in Schedules /\ c.company \in Companies
               /\ c.kind = "setDefault" => c.isDefault
               /\ c.kind \in {"detach", "setDefault"} => c.id \in Schedules
               /\ c.kind = "detach" => owner[c.schedule] # c.company
               /\ c.kind \in {"assign", "unassign", "editUser", "createUser"} => c.user \in People
               /\ c.kind \in {"assign", "delete"} => c.schedule \in Schedules
<1>1. call[r] \in Call /\ SoundCall(r)
    BY DEF TypeInv, TypeOK, CallsSound
<1>2. call[r].phase \in {"ready", "open"} /\ InFlight(r)
    BY DEF Commit, InFlight, InFlightPhases
<1>3. call' = [call EXCEPT ![r] = Left(call[r], "done")] /\ call'[r] = Left(call[r], "done")
    BY DEF Commit, TypeInv, TypeOK
<1>4. QED
    BY <1>1, <1>2, <1>3 DEF Commit, SoundCall, InFlight, OnSchedule

\* A write leaves the rows well formed, and creates no schedule but the call's own.
LEMMA WritesTypes ==
    ASSUME TypeInv, NEW r \in Requests, Writes(r)
    PROVE  /\ call[r].phase \in {"ready", "open"}
           /\ call' = [call EXCEPT ![r] = Left(call[r], "done")]
           /\ owner' \in [Schedules -> Companies \cup {None}]
           /\ link' \in [Schedules -> [Companies -> Link \cup {None}]]
           /\ user' \in [People -> User]
           /\ \A s \in Schedules : s # r => owner'[s] \in {owner[s], None}
<1> DEFINE c == call[r]
           Links == [Schedules -> [Companies -> Link \cup {None}]]
<1>1. owner \in [Schedules -> Companies \cup {None}] /\ link \in Links /\ user \in [People -> User]
    BY DEF TypeInv, TypeOK
<1>2. \A u \in People, s \in Schedules \cup {None} : [user[u] EXCEPT !.schedule = s] \in User
    BY <1>1 DEF User
<1>3. r \in Schedules
    BY DEF Schedules
<1>4. c \in Call => Cleared(c) \in Links
    BY ClearedFacts DEF TypeInv
<1> HIDE DEF Links
<1>5. ASSUME NEW f \in Links, NEW s \in Schedules, NEW d \in Companies, NEW x \in Link \cup {None}
      PROVE  [f EXCEPT ![s][d] = x] \in Links
    BY PutFacts DEF Links
<1>6. CASE Create(r)
    <2>1. c \in Call /\ c.company \in Companies /\ c.isDefault \in BOOLEAN
          /\ c.phase \in {"ready", "open"} /\ call' = [call EXCEPT ![r] = Left(c, "done")]
        BY <1>6, CommitSound DEF Create, Call
    <2>2. link' \in Links
        BY <1>3, <1>4, <1>5, <1>6, <2>1, LinkType DEF Create
    <2>3. user' \in [People -> User]
        BY <1>1, <1>2, <1>3, <1>6 DEF Create
    <2>4. QED
        BY <1>1, <1>3, <1>6, <2>1, <2>2, <2>3 DEF Create, Links
<1>7. CASE Attach(r)
    <2>1. c \in Call /\ c.schedule \in Schedules /\ c.company \in Companies
          /\ c.isDefault \in BOOLEAN /\ c.phase \in {"ready", "open"}
          /\ call' = [call EXCEPT ![r] = Left(c, "done")]
        BY <1>7, CommitSound DEF Attach, Call
    <2>2. link' \in Links
        BY <1>3, <1>4, <1>5, <1>7, <2>1, LinkType DEF Attach
    <2>3. QED
        BY <1>1, <1>7, <2>1, <2>2 DEF Attach, Links
<1>8. CASE SetDefault(r)
    <2>1. c \in Call /\ c.schedule \in Schedules /\ c.company \in Companies
          /\ c.id \in Schedules /\ c.phase \in {"ready", "open"}
          /\ call' = [call EXCEPT ![r] = Left(c, "done")]
        BY <1>8, CommitSound DEF SetDefault
    <2>2. link' \in Links
        BY <1>4, <1>5, <1>8, <2>1, LinkType DEF SetDefault
    <2>3. QED
        BY <1>1, <1>8, <2>1, <2>2 DEF SetDefault, Links
<1>9. CASE Detach(r)
    <2>1. c.schedule \in Schedules /\ c.company \in Companies
          /\ c.phase \in {"ready", "open"} /\ call' = [call EXCEPT ![r] = Left(c, "done")]
        BY <1>9, CommitSound DEF Detach
    <2>2. link' \in Links
        BY <1>1, <1>5, <1>9, <2>1 DEF Detach
    <2>3. user' \in [People -> User]
        BY <1>1, <1>2, <1>9 DEF Detach
    <2>4. QED
        BY <1>1, <1>9, <2>1, <2>2, <2>3 DEF Detach, Links
<1>10. CASE Assign(r)
    <2>1. c.user \in People /\ (c.kind = "assign" => c.schedule \in Schedules)
          /\ c.phase \in {"ready", "open"} /\ call' = [call EXCEPT ![r] = Left(c, "done")]
        BY <1>10, CommitSound DEF Assign
    <2>2. user' \in [People -> User]
        <3> DEFINE s == IF c.kind = "assign" THEN c.schedule ELSE None
        <3>1. s \in Schedules \cup {None}
            BY <2>1
        <3>2. user' = [user EXCEPT ![c.user].schedule = s]
            BY <1>10 DEF Assign
        <3> HIDE DEF s
        <3>3. user' = [user EXCEPT ![c.user] = [user[c.user] EXCEPT !.schedule = s]]
            BY <3>2
        <3>4. QED
            BY <1>1, <1>2, <2>1, <3>1, <3>3
    <2>3. QED
        BY <1>1, <1>10, <2>1, <2>2 DEF Assign, Links
<1>11. CASE Delete(r)
    <2>1. c.schedule \in Schedules
          /\ c.phase \in {"ready", "open"} /\ call' = [call EXCEPT ![r] = Left(c, "done")]
        BY <1>11, CommitSound DEF Delete
    <2>2. link' \in Links
        BY <1>1, <1>11, <2>1 DEF Delete, Links
    <2>3. user' \in [People -> User]
        BY <1>1, <1>2, <1>11 DEF Delete
    <2>4. QED
        BY <1>1, <1>11, <2>1, <2>2, <2>3 DEF Delete, Links
<1>12. CASE EditUser(r) \/ CreateUser(r)
    <2>1. c \in Call /\ c.user \in People /\ c.schedule \in Present \cup {None, Absent}
          /\ c.phase \in {"ready", "open"} /\ call' = [call EXCEPT ![r] = Left(c, "done")]
        BY <1>12, CommitSound DEF EditUser, CreateUser
    <2>2. PICK company, schedule :
             /\ company \in {user[c.user].company, c.company, None} /\ company # Absent
             /\ schedule \in {user[c.user].schedule, c.schedule, None} /\ schedule # Absent
             /\ user' = [user EXCEPT ![c.user] = [company |-> company, schedule |-> schedule]]
        <3>1. user[c.user] \in User
            BY <1>1, <2>1
        <3>2. user[c.user].company # Absent /\ user[c.user].schedule # Absent
            BY <3>1, WorkScheduleAssumption DEF User
        <3>3. CASE EditUser(r)
            BY <3>2, <3>3 DEF EditUser, Given
        <3>4. CASE CreateUser(r)
            BY <3>2, <3>4, WorkScheduleAssumption DEF CreateUser, Given
        <3>5. QED
            BY <1>12, <3>3, <3>4
    <2>3. company \in Companies \cup {None} /\ schedule \in Schedules \cup {None}
        BY <1>1, <2>1, <2>2 DEF Call, User
    <2>4. user' \in [People -> User]
        BY <1>1, <2>1, <2>2, <2>3 DEF User
    <2>5. QED
        BY <1>1, <1>12, <2>1, <2>4 DEF EditUser, CreateUser, Links
<1>13. QED
    BY <1>6, <1>7, <1>8, <1>9, <1>10, <1>11, <1>12 DEF Writes

LEMMA TypeInvNextStep == TypeInv /\ [Next]_vars => TypeInv'
<1> SUFFICES ASSUME TypeInv, [Next]_vars PROVE TypeInv'
    OBVIOUS
<1>1. CASE UNCHANGED vars
    BY <1>1 DEF vars, TypeInv, TypeOK, CallsSound, SoundCall
<1>2. CASE Next
    <2>1. PICK r \in Requests :
             \/ StartCreate(r) \/ StartAttach(r) \/ StartDetach(r) \/ StartSetDefault(r)
             \/ StartAssign(r) \/ StartDelete(r) \/ StartEditUser(r) \/ StartCreateUser(r)
             \/ CheckCreate(r) \/ CheckAttach(r) \/ LoadLink(r) \/ LoadSchedule(r)
             \/ LoadUser(r) \/ CheckDelete(r) \/ CheckUser(r)
             \/ Open(r)
             \/ Writes(r)
             \/ Fail(r)
        BY <1>2 DEF Next, Writes
    <2> DEFINE c == call[r]
    <2>2. c \in Call /\ SoundCall(r)
        BY DEF TypeInv, TypeOK, CallsSound
    <2>3. r \in Schedules /\ r \notin {None, Absent}
        BY WorkScheduleAssumption DEF Schedules
    <2>4. Present \subseteq Schedules /\ Hired \subseteq People /\ r \in People
        BY DEF Present, Hired, People
    <2>5. CASE StartCreate(r)
        <3>1. PICK d \in Companies, u \in People \cup {None} :
                 Start(r, About("create", r, d, u, u = None))
            BY <2>4, <2>5 DEF StartCreate
        <3>2. "create" \in AllKinds /\ "create" \notin OnSchedule /\ (u = None) \in BOOLEAN
            BY DEF AllKinds, OnSchedule
        <3>3. r \in Schedules \cup {None, Absent} /\ d \in Companies \cup {None, Absent}
            BY <2>3
        <3>4. QED
            BY <3>1, <3>2, <3>3, TypeInvAbout
    <2>6. CASE StartAttach(r)
        <3>1. PICK s \in Present, d \in Companies, default \in BOOLEAN :
                 Start(r, About("attach", s, d, None, default))
            BY <2>6 DEF StartAttach
        <3>2. QED
            BY <2>4, <3>1, TypeInvAbout DEF AllKinds, OnSchedule
    <2>7. CASE StartDetach(r)
        <3>1. PICK s \in Present, d \in Companies : Start(r, About("detach", s, d, None, FALSE))
            BY <2>7 DEF StartDetach
        <3>2. QED
            BY <2>4, <3>1, TypeInvAbout DEF AllKinds, OnSchedule
    <2>8. CASE StartSetDefault(r)
        <3>1. PICK s \in Present, d \in Companies :
                 Start(r, About("setDefault", s, d, None, TRUE))
            BY <2>8 DEF StartSetDefault
        <3>2. QED
            BY <2>4, <3>1, TypeInvAbout DEF AllKinds, OnSchedule
    <2>9. CASE StartAssign(r)
        <3>1. PICK s \in Present, u \in People, kind \in {"assign", "unassign"} :
                 Start(r, About(kind, s, None, u, FALSE))
            BY <2>4, <2>9 DEF StartAssign
        <3>2. QED
            BY <2>4, <3>1, TypeInvAbout DEF AllKinds, OnSchedule
    <2>10. CASE StartDelete(r)
        <3>1. PICK s \in Present : Start(r, About("delete", s, None, None, FALSE))
            BY <2>10 DEF StartDelete
        <3>2. QED
            BY <2>4, <3>1, TypeInvAbout DEF AllKinds, OnSchedule
    <2>11. CASE StartEditUser(r)
        <3>1. PICK s \in Present \cup {None, Absent}, d \in Companies \cup {None, Absent},
                   u \in People : Start(r, About("editUser", s, d, u, FALSE))
            BY <2>4, <2>11 DEF StartEditUser
        <3>2. "editUser" \in AllKinds /\ "editUser" \notin OnSchedule
            BY DEF AllKinds, OnSchedule
        <3>3. /\ s \in Schedules \cup {None, Absent}
              /\ d \in Companies \cup {None, Absent} /\ u \in People \cup {None}
            BY <2>4, <3>1
        <3>4. QED
            BY <3>1, <3>2, <3>3, TypeInvAbout
    <2>23. CASE StartCreateUser(r)
        <3>1. PICK s \in Present \cup {None, Absent}, d \in Companies \cup {None, Absent} :
                 Start(r, About("createUser", s, d, r, FALSE))
            BY <2>23 DEF StartCreateUser
        <3>2. "createUser" \in AllKinds /\ "createUser" \notin OnSchedule
            BY DEF AllKinds, OnSchedule
        <3>3. /\ s \in Schedules \cup {None, Absent}
              /\ d \in Companies \cup {None, Absent} /\ r \in People \cup {None}
            BY <2>4, <3>1
        <3>4. QED
            BY <2>4, <3>1, <3>2, <3>3, TypeInvAbout
    <2>12. CASE CheckCreate(r)
        <3> DEFINE n == [c EXCEPT !.phase = "ready"]
                   permits == c.user = None \/ user[c.user].company \in {None, c.company}
        <3>1. InFlight(r) /\ c.kind = "create" /\ Read(r, permits, n)
            BY <2>12 DEF CheckCreate, InFlight, InFlightPhases
        <3>2. /\ n \in Call /\ n.phase = "ready" /\ n.kind = c.kind /\ n.schedule = c.schedule
              /\ n.company = c.company /\ n.user = c.user /\ n.isDefault = c.isDefault
              /\ n.seen = c.seen
            BY <2>2 DEF Call, Phases
        <3>3. permits \in BOOLEAN
            OBVIOUS
        <3> HIDE DEF n, permits
        <3>4. QED
            BY <3>1, <3>2, <3>3, TypeInvCheck
    <2>13. CASE CheckAttach(r)
        <3> DEFINE n == [c EXCEPT !.phase = "ready"]
                   permits == c.schedule \in Present /\ link[c.schedule][c.company] = None
        <3>1. InFlight(r) /\ c.kind = "attach" /\ Read(r, permits, n)
            BY <2>13 DEF CheckAttach, InFlight, InFlightPhases
        <3>2. /\ n \in Call /\ n.phase = "ready" /\ n.kind = c.kind /\ n.schedule = c.schedule
              /\ n.company = c.company /\ n.user = c.user /\ n.isDefault = c.isDefault
              /\ n.seen = c.seen
            BY <2>2 DEF Call, Phases
        <3>3. permits \in BOOLEAN
            OBVIOUS
        <3> HIDE DEF n, permits
        <3>4. QED
            BY <3>1, <3>2, <3>3, TypeInvCheck
    <2>14. CASE LoadLink(r)
        <3> DEFINE row == link[c.schedule][c.company]
                   n == [c EXCEPT !.phase = "ready", !.id = row.id]
                   permits == row # None /\ (c.kind = "detach" => owner[c.schedule] # c.company)
        <3>1. InFlight(r) /\ c.kind \in {"detach", "setDefault"} /\ Read(r, permits, n)
            BY <2>14 DEF LoadLink, InFlight, InFlightPhases
        <3>2. c.schedule \in Schedules /\ c.company \in Companies
            BY <2>2, <3>1 DEF SoundCall, InFlight, OnSchedule
        <3>3. row \in Link \cup {None}
            BY <3>2 DEF TypeInv, TypeOK
        <3>4. permits => row.id \in Schedules
            BY <3>3 DEF Link
        <3> HIDE DEF row
        <3>5. permits =>
                 /\ n \in Call /\ n.phase = "ready" /\ n.id = row.id /\ n.kind = c.kind
                 /\ n.schedule = c.schedule /\ n.company = c.company /\ n.user = c.user
                 /\ n.isDefault = c.isDefault /\ n.seen = c.seen
            BY <2>2, <3>4 DEF Call, Phases
        <3>6. permits \in BOOLEAN
            OBVIOUS
        <3>7. permits => (n.kind = "detach" => owner[n.schedule] # n.company)
            BY <3>5
        <3> HIDE DEF n, permits
        <3>8. QED
            BY <3>1, <3>4, <3>5, <3>6, <3>7, TypeInvCheck
    <2>15. CASE LoadSchedule(r)
        <3> DEFINE attached == {d \in Companies : link[c.schedule][d] # None}
                   n == [c EXCEPT !.phase = "loaded", !.attached = attached]
                   permits == c.schedule \in Present
        <3>1. InFlight(r) /\ c.kind \in {"assign", "unassign"} /\ Read(r, permits, n)
            BY <2>15 DEF LoadSchedule, InFlight, InFlightPhases
        <3>2. attached \in SUBSET Companies
            OBVIOUS
        <3> HIDE DEF attached
        <3>3. /\ n \in Call /\ n.phase = "loaded" /\ n.kind = c.kind /\ n.schedule = c.schedule
              /\ n.company = c.company /\ n.user = c.user /\ n.isDefault = c.isDefault
              /\ n.seen = c.seen
            BY <2>2, <3>2 DEF Call, Phases
        <3>4. permits \in BOOLEAN
            OBVIOUS
        <3> HIDE DEF n, permits
        <3>5. QED
            BY <3>1, <3>3, <3>4, TypeInvCheck
    <2>16. CASE LoadUser(r)
        <3> DEFINE n == [c EXCEPT !.phase = "ready"]
                   permits == c.kind = "assign" => user[c.user].company \in c.attached
        <3>1. InFlight(r) /\ c.kind \in {"assign", "unassign"} /\ Read(r, permits, n)
            BY <2>2, <2>16 DEF LoadUser, SoundCall, InFlight, InFlightPhases
        <3>2. /\ n \in Call /\ n.phase = "ready" /\ n.kind = c.kind /\ n.schedule = c.schedule
              /\ n.company = c.company /\ n.user = c.user /\ n.isDefault = c.isDefault
              /\ n.seen = c.seen
            BY <2>2 DEF Call, Phases
        <3>3. permits \in BOOLEAN
            OBVIOUS
        <3> HIDE DEF n, permits
        <3>4. QED
            BY <3>1, <3>2, <3>3, TypeInvCheck
    <2>17. CASE CheckDelete(r)
        <3> DEFINE n == [c EXCEPT !.phase = "ready"]
                   permits == c.schedule \in Present
        <3>1. InFlight(r) /\ c.kind = "delete" /\ Read(r, permits, n)
            BY <2>17 DEF CheckDelete, InFlight, InFlightPhases
        <3>2. /\ n \in Call /\ n.phase = "ready" /\ n.kind = c.kind /\ n.schedule = c.schedule
              /\ n.company = c.company /\ n.user = c.user /\ n.isDefault = c.isDefault
              /\ n.seen = c.seen
            BY <2>2 DEF Call, Phases
        <3>3. permits \in BOOLEAN
            OBVIOUS
        <3> HIDE DEF n, permits
        <3>4. QED
            BY <3>1, <3>2, <3>3, TypeInvCheck
    <2>18. CASE CheckUser(r)
        <3> DEFINE n == [c EXCEPT !.phase = "ready"]
                   permits == c.schedule \in Present \cup {None, Absent}
        <3>1. InFlight(r) /\ c.kind \in {"editUser", "createUser"} /\ Read(r, permits, n)
            BY <2>18 DEF CheckUser, InFlight, InFlightPhases
        <3>2. /\ n \in Call /\ n.phase = "ready" /\ n.kind = c.kind /\ n.schedule = c.schedule
              /\ n.company = c.company /\ n.user = c.user /\ n.isDefault = c.isDefault
              /\ n.seen = c.seen
            BY <2>2 DEF Call, Phases
        <3>3. permits \in BOOLEAN
            OBVIOUS
        <3> HIDE DEF n, permits
        <3>4. QED
            BY <3>1, <3>2, <3>3, TypeInvCheck
    <2>19. CASE Open(r)
        <3>1. PICK n \in Call :
                 /\ call' = [call EXCEPT ![r] = n] /\ UNCHANGED <<owner, link, user>>
                 /\ InFlight(r) /\ n.phase = "open"
                 /\ n.kind = c.kind /\ n.schedule = c.schedule /\ n.company = c.company
                 /\ n.user = c.user /\ n.isDefault = c.isDefault /\ n.id = c.id
                 /\ n.seen # {} => c.isDefault
            BY <2>19, OpenFacts
        <3>2. n.kind \in {"detach", "setDefault"} =>
                 n.id \in Schedules /\ (n.kind = "detach" => owner[n.schedule] # n.company)
            BY <2>2, <2>19, <3>1 DEF Open, SoundCall
        <3>3. QED
            BY <3>1, <3>2, TypeInvNext
    <2>20. CASE Writes(r)
        BY <2>20, TypeInvCommit, WritesTypes
    <2>21. CASE Fail(r)
        BY <2>21, TypeInvLeave DEF Fail
    <2>22. QED
        BY <2>1, <2>5, <2>6, <2>7, <2>8, <2>9, <2>10, <2>11, <2>12, <2>13, <2>14, <2>15,
           <2>16, <2>17, <2>18, <2>19, <2>20, <2>21, <2>23
<1>3. QED
    BY <1>1, <1>2

\* The rows and the calls are well formed whatever overlaps: schedules appear only
\* through the call that creates them, what a call in flight knows to be there was
\* created by a call that is done, and no detachment in flight is of the owner.
THEOREM TypeCorrect == Spec => [](TypeOK /\ CallsSound)
<1>1. TypeInv <=> TypeOK /\ CallsSound
    BY DEF TypeInv
<1>2. Spec => []TypeInv
    BY TypeInvInit, TypeInvNextStep, PTL DEF Spec
<1>3. QED
    BY <1>1, <1>2, PTL

(***************************************************************************)
(* What the writes do to the rows.                                         *)
(***************************************************************************)

\* A step of the system is a write, or leaves the rows alone.
LEMMA StepKinds ==
    ASSUME [Next]_vars
    PROVE  (\E r \in Requests : Writes(r)) \/ UNCHANGED <<owner, link, user>>
<1>1. CASE UNCHANGED vars
    BY <1>1 DEF vars
<1>2. ASSUME NEW r \in Requests,
             \/ StartCreate(r) \/ StartAttach(r) \/ StartDetach(r) \/ StartSetDefault(r)
             \/ StartAssign(r) \/ StartDelete(r) \/ StartEditUser(r) \/ StartCreateUser(r)
      PROVE  UNCHANGED <<owner, link, user>>
    BY <1>2 DEF StartCreate, StartAttach, StartDetach, StartSetDefault, StartAssign,
                StartDelete, StartEditUser, StartCreateUser, Start
<1>3. ASSUME NEW r \in Requests,
             \/ CheckCreate(r) \/ CheckAttach(r) \/ LoadLink(r) \/ LoadSchedule(r)
             \/ LoadUser(r) \/ CheckDelete(r) \/ CheckUser(r) \/ Open(r) \/ Fail(r)
      PROVE  UNCHANGED <<owner, link, user>>
    BY <1>3 DEF CheckCreate, CheckAttach, LoadLink, LoadSchedule, LoadUser, CheckDelete,
                CheckUser, Read, Open, Fail
<1>4. QED
    BY <1>1, <1>2, <1>3 DEF Next, Writes

\* The calls that write an attachment write their own as they were asked, and do to
\* the others what clearing does.
LEMMA MarkFacts ==
    ASSUME TypeInv, NEW r \in Requests, Create(r) \/ Attach(r) \/ SetDefault(r)
    PROVE  LET c == call[r]
           IN  /\ c \in Call /\ c.schedule \in Schedules /\ c.company \in Companies
               /\ link'[c.schedule][c.company] # None
               /\ link'[c.schedule][c.company].isDefault = c.isDefault
               /\ \A t \in Schedules, d \in Companies :
                     t # c.schedule \/ d # c.company => link'[t][d] = Cleared(c)[t][d]
               /\ Create(r) => c.schedule = r /\ c.kind = "create"
<1> DEFINE c == call[r]
<1>1. r \in Schedules
    BY DEF Schedules
<1>2. /\ c \in Call /\ c.schedule \in Schedules /\ c.company \in Companies
      /\ (Create(r) => c.schedule = r /\ c.kind = "create")
      /\ SetDefault(r) => c.id \in Schedules /\ c.isDefault
    BY <1>1, CommitSound DEF Create, Attach, SetDefault
<1>3. c.isDefault \in BOOLEAN
    BY <1>2 DEF Call
<1>4. Cleared(c) \in [Schedules -> [Companies -> Link \cup {None}]]
    BY <1>2, ClearedFacts DEF TypeInv
<1>5. PICK x \in Link : /\ link' = [Cleared(c) EXCEPT ![c.schedule][c.company] = x]
                        /\ x.isDefault = c.isDefault
    <2>1. CASE Create(r)
        BY <1>1, <1>2, <1>3, <2>1, LinkType DEF Create
    <2>2. CASE Attach(r)
        BY <1>1, <1>2, <1>3, <2>2, LinkType DEF Attach
    <2>3. CASE SetDefault(r)
        BY <1>2, <2>3, LinkType DEF SetDefault
    <2>4. QED
        BY <2>1, <2>2, <2>3
<1>6. link'[c.schedule][c.company] = x
      /\ \A t \in Schedules, d \in Companies :
             t # c.schedule \/ d # c.company => link'[t][d] = Cleared(c)[t][d]
    BY <1>2, <1>4, <1>5, PutFacts
<1>7. QED
    BY <1>2, <1>5, <1>6, NoneIsNoLink

\* A schedule that a call is yet to create has no attachment and no user.
LEMMA NotYetCreated ==
    ASSUME TypeInv, Wired, NEW r \in Requests, call[r].phase # "done"
    PROVE  /\ r \in Schedules /\ r \notin Present
           /\ \A d \in Companies : link[r][d] = None
           /\ \A u \in People : user[u].schedule # r
<1>1. r \in Schedules /\ r \notin Present
    BY DEF TypeInv, CallsSound, SoundCall, Present, Schedules
<1>2. r # None
    BY <1>1, WorkScheduleAssumption
<1>3. QED
    BY <1>1, <1>2 DEF Wired

(***************************************************************************)
(* Every schedule is attached to its owner, nothing refers to a schedule   *)
(* that is gone.                                                           *)
(***************************************************************************)
LEMMA WiredWrites ==
    ASSUME TypeInv, Wired, NEW r \in Requests, Writes(r)
    PROVE  Wired'
<1> DEFINE c == call[r]
<1>1. /\ owner \in [Schedules -> Companies \cup {None}]
      /\ link \in [Schedules -> [Companies -> Link \cup {None}]]
      /\ user \in [People -> User]
    BY DEF TypeInv, TypeOK
<1>2. Present \subseteq Schedules /\ \A s \in Schedules : s \in Present <=> owner[s] # None
    BY DEF Present
<1>3. \A s \in Schedules : s \in Present' <=> owner'[s] # None
    BY DEF Present
<1>4. Present' \subseteq Schedules
    BY DEF Present
<1>5. /\ \A s \in Present : link[s][owner[s]] # None /\ owner[s] \in Companies
      /\ \A s \in Schedules, d \in Companies : link[s][d] # None => s \in Present
      /\ \A u \in People : user[u].schedule # None => user[u].schedule \in Present
    BY <1>1, <1>2 DEF Wired
<1>6. CASE Create(r)
    <2>1. c \in Call /\ c.schedule = r /\ c.company \in Companies /\ call[r].phase # "done"
          /\ link'[r][c.company] # None
          /\ \A t \in Schedules, d \in Companies :
                t # r \/ d # c.company => link'[t][d] = Cleared(c)[t][d]
        <3>1. c \in Call /\ call[r].phase \in {"ready", "open"}
            BY <1>6, CommitSound DEF Create
        <3>2. QED
            BY <1>6, <3>1, MarkFacts
    <2>2. r \in Schedules /\ r \notin Present /\ c.company # None
        BY <2>1, NotYetCreated, WorkScheduleAssumption
    <2>3. owner'[r] = c.company /\ \A s \in Schedules : s # r => owner'[s] = owner[s]
        BY <1>1, <1>6, <2>2 DEF Create
    <2>4. \A s \in Schedules : s \in Present' <=> s \in Present \/ s = r
        BY <1>2, <1>3, <2>2, <2>3
    <2>5. \A t \in Schedules, d \in Companies : t # r => (link'[t][d] = None <=> link[t][d] = None)
        <3>1. \A t \in Schedules, d \in Companies : Cleared(c)[t][d] = None <=> link[t][d] = None
            BY <2>1, ClearedFacts DEF TypeInv
        <3>2. QED
            BY <2>1, <3>1
    <2>6. \A u \in People : user'[u].schedule \in {user[u].schedule, r}
        BY <1>1, <1>6 DEF Create, User
    <2>7. \A s \in Present' : link'[s][owner'[s]] # None
        BY <1>4, <1>5, <2>1, <2>3, <2>4, <2>5
    <2>8. \A s \in Schedules, d \in Companies : link'[s][d] # None => s \in Present'
        BY <1>5, <2>4, <2>5
    <2>9. \A u \in People : user'[u].schedule # None => user'[u].schedule \in Present'
        BY <1>2, <1>5, <2>2, <2>4, <2>6
    <2>10. QED
        BY <2>7, <2>8, <2>9 DEF Wired
<1>7. CASE Attach(r) \/ SetDefault(r)
    <2>1. c.schedule \in Present
        BY <1>5, <1>7, MarkFacts DEF Attach, SetDefault, LinkStands
    <2>2. \A s \in Schedules, d \in Companies :
             /\ link[s][d] # None => link'[s][d] # None
             /\ link'[s][d] # None => link[s][d] # None \/ s = c.schedule
        <3>1. c \in Call /\ link'[c.schedule][c.company] # None
              /\ \A t \in Schedules, d \in Companies :
                    t # c.schedule \/ d # c.company => link'[t][d] = Cleared(c)[t][d]
            BY <1>7, MarkFacts
        <3>2. \A t \in Schedules, d \in Companies : Cleared(c)[t][d] = None <=> link[t][d] = None
            BY <3>1, ClearedFacts DEF TypeInv
        <3>3. QED
            BY <3>1, <3>2
    <2>3. owner' = owner /\ user' = user /\ Present' = Present
        BY <1>7 DEF Attach, SetDefault, Present
    <2>4. QED
        BY <1>2, <1>5, <2>1, <2>2, <2>3 DEF Wired
<1>8. CASE Detach(r)
    <2>1. c.schedule \in Schedules /\ c.company \in Companies /\ owner[c.schedule] # c.company
        BY <1>8, CommitSound DEF Detach
    <2>2. link' = [link EXCEPT ![c.schedule][c.company] = None]
        BY <1>8 DEF Detach
    <2>3. /\ link'[c.schedule][c.company] = None
          /\ \A s \in Schedules, d \in Companies :
                s # c.schedule \/ d # c.company => link'[s][d] = link[s][d]
        BY <1>1, <2>1, <2>2, PutFacts
    <2>4. \A u \in People : user'[u].schedule \in {user[u].schedule, None}
        BY <1>1, <1>8 DEF Detach, User
    <2>5. owner' = owner /\ Present' = Present
        BY <1>8 DEF Detach, Present
    <2>6. \A s \in Present : link'[s][owner[s]] # None
        BY <1>2, <1>5, <2>1, <2>3
    <2>7. \A s \in Schedules, d \in Companies : link'[s][d] # None => s \in Present
        BY <1>5, <2>3
    <2>8. QED
        BY <1>5, <2>4, <2>5, <2>6, <2>7 DEF Wired
<1>9. CASE Assign(r)
    <2>1. \A u \in People :
             user'[u].schedule = user[u].schedule \/ user'[u].schedule = None
             \/ user'[u].schedule \in Present
        BY <1>1, <1>9 DEF Assign, User
    <2>2. owner' = owner /\ link' = link /\ Present' = Present
        BY <1>9 DEF Assign, Present
    <2>3. QED
        BY <1>5, <2>1, <2>2 DEF Wired
<1>10. CASE Delete(r)
    <2> DEFINE s0 == call[r].schedule
    <2>1. s0 \in Schedules
        BY <1>10, CommitSound DEF Delete
    <2>2. owner'[s0] = None /\ \A s \in Schedules : s # s0 => owner'[s] = owner[s]
        BY <1>1, <1>10, <2>1 DEF Delete
    <2>3. \A s \in Schedules : s \in Present' <=> s \in Present /\ s # s0
        BY <1>2, <1>3, <2>1, <2>2
    <2>4. \A s \in Schedules, d \in Companies :
             link'[s][d] = IF s = s0 THEN None ELSE link[s][d]
        BY <1>1, <1>10, <2>1 DEF Delete
    <2>5. \A u \in People :
             user'[u].schedule = None
             \/ (user'[u].schedule = user[u].schedule /\ user[u].schedule # s0)
        BY <1>1, <1>10 DEF Delete, User
    <2>6. QED
        BY <1>2, <1>4, <1>5, <2>2, <2>3, <2>4, <2>5 DEF Wired
<1>11. CASE EditUser(r) \/ CreateUser(r)
    <2>1. c.user \in People /\ c.schedule \in Present \cup {None, Absent}
        BY <1>11, CommitSound DEF EditUser, CreateUser
    <2>2. \A u \in People :
             user'[u].schedule = user[u].schedule \/ user'[u].schedule = None
             \/ user'[u].schedule \in Present
        BY <1>1, <1>11, <2>1, WorkScheduleAssumption DEF EditUser, CreateUser, Given, User
    <2>3. owner' = owner /\ link' = link /\ Present' = Present
        BY <1>11 DEF EditUser, CreateUser, Present
    <2>4. QED
        BY <1>5, <2>2, <2>3 DEF Wired
<1>12. QED
    BY <1>6, <1>7, <1>8, <1>9, <1>10, <1>11 DEF Writes

LEMMA WiredStep == TypeInv /\ Wired /\ [Next]_vars => Wired'
<1> SUFFICES ASSUME TypeInv, Wired, [Next]_vars PROVE Wired'
    OBVIOUS
<1>1. CASE UNCHANGED <<owner, link, user>>
    BY <1>1 DEF Wired, Present
<1>2. QED
    BY <1>1, StepKinds, WiredWrites

\* The referential promises hold whatever calls overlap: a schedule stays attached to
\* its owner, and no attachment and no user refers to a schedule that is gone.
THEOREM WiredCorrect == Spec => []Wired
<1>1. Init => TypeInv /\ Wired
    BY TypeInvInit DEF Init
<1>2. TypeInv /\ Wired /\ [Next]_vars => (TypeInv /\ Wired)'
    BY TypeInvNextStep, WiredStep
<1>3. QED
    BY <1>1, <1>2, PTL DEF Spec

(***************************************************************************)
(* A default gives way only to another one, or goes with its attachment.   *)
(***************************************************************************)
LEMMA KeepsWrites ==
    ASSUME TypeInv, Wired, NEW r \in Requests, Writes(r),
           NEW d \in Companies, NEW s \in Defaults(d), link'[s][d] # None
    PROVE  Defaults(d)' # {}
<1> DEFINE c == call[r]
<1>1. s \in Schedules /\ link[s][d] # None /\ link[s][d].isDefault
    BY DEF Defaults, IsDefault
<1>2. SUFFICES \E t \in Schedules : link'[t][d] # None /\ link'[t][d].isDefault
    BY DEF Defaults, IsDefault
<1>3. link \in [Schedules -> [Companies -> Link \cup {None}]]
    BY DEF TypeInv, TypeOK
<1>4. CASE Create(r) \/ Attach(r) \/ SetDefault(r)
    <2>1. /\ c \in Call /\ c.schedule \in Schedules /\ c.company \in Companies
          /\ link'[c.schedule][c.company] # None
          /\ link'[c.schedule][c.company].isDefault = c.isDefault
          /\ \A t \in Schedules, e \in Companies :
                t # c.schedule \/ e # c.company => link'[t][e] = Cleared(c)[t][e]
        BY <1>4, MarkFacts
    <2>2. CASE d # c.company
        <3>1. link'[s][d] = link[s][d]
            BY <1>1, <2>1, <2>2, ClearedFacts DEF TypeInv
        <3>2. QED
            BY <1>1, <3>1
    <2>3. CASE d = c.company /\ c.isDefault
        BY <2>1, <2>3
    <2>4. CASE d = c.company /\ ~c.isDefault
        <3>1. c.seen = {}
            BY <2>4 DEF TypeInv, CallsSound, SoundCall
        <3>2. link[c.schedule][c.company] = None
            <4>1. CASE Create(r)
                <5>1. Commit(r, {"create"})
                    BY <4>1 DEF Create
                <5>2. c.schedule = r /\ call[r].phase \in {"ready", "open"}
                    BY <5>1, CommitSound
                <5>3. link[r][c.company] = None
                    BY <2>1, <5>2, NotYetCreated
                <5>4. QED
                    BY <5>2, <5>3
            <4>2. CASE Attach(r)
                BY <4>2 DEF Attach
            <4>3. CASE SetDefault(r)
                BY <2>4, <4>3, CommitSound DEF SetDefault
            <4>4. QED
                BY <1>4, <4>1, <4>2, <4>3
        <3>3. link'[s][d] = Cleared(c)[s][d]
            BY <1>1, <2>1, <2>4, <3>2
        <3>4. Cleared(c)[s][d] = link[s][d]
            BY <1>1, <3>1 DEF Cleared
        <3>5. QED
            BY <1>1, <3>3, <3>4
    <2>5. QED
        BY <2>2, <2>3, <2>4
<1>5. CASE Detach(r)
    <2>1. c.schedule \in Schedules /\ c.company \in Companies
        BY <1>5, CommitSound DEF Detach
    <2>2. link' = [link EXCEPT ![c.schedule][c.company] = None]
        BY <1>5 DEF Detach
    <2>3. link'[s][d] = link[s][d]
        BY <1>1, <1>3, <2>1, <2>2, PutFacts
    <2>4. QED
        BY <1>1, <2>3
<1>6. CASE Assign(r) \/ EditUser(r) \/ CreateUser(r)
    BY <1>1, <1>6 DEF Assign, EditUser, CreateUser
<1>7. CASE Delete(r)
    <2> DEFINE s0 == call[r].schedule
    <2>1. link' = [link EXCEPT ![s0] = [e \in Companies |-> None]] /\ s0 \in Schedules
        BY <1>7, CommitSound DEF Delete
    <2>2. s # s0
        BY <1>1, <1>3, <2>1
    <2>3. link'[s][d] = link[s][d]
        BY <1>1, <1>3, <2>1, <2>2
    <2>4. QED
        BY <1>1, <2>3
<1>8. QED
    BY <1>4, <1>5, <1>6, <1>7 DEF Writes

KeepsADefaultStep ==
    \A c \in Companies :
        Defaults(c) # {} /\ Defaults(c)' = {} => \E s \in Defaults(c) : link'[s][c] = None

\* A company that has a default schedule never loses it to a promotion that fails or
\* is overtaken, whatever calls overlap: it goes only with its attachment.
THEOREM KeepsADefaultCorrect == Spec => KeepsADefault
<1>1. Init => TypeInv /\ Wired
    BY TypeInvInit DEF Init
<1>2. TypeInv /\ Wired /\ [Next]_vars => (TypeInv /\ Wired)'
    BY TypeInvNextStep, WiredStep
<1>3. TypeInv /\ Wired /\ [Next]_vars => [KeepsADefaultStep]_link
    <2> SUFFICES ASSUME TypeInv, Wired, [Next]_vars, link' # link PROVE KeepsADefaultStep
        OBVIOUS
    <2>1. PICK r \in Requests : Writes(r)
        BY StepKinds
    <2>2. QED
        BY <2>1, KeepsWrites DEF KeepsADefaultStep
<1>4. QED
    BY <1>1, <1>2, <1>3, PTL DEF Spec, KeepsADefault, KeepsADefaultStep

(***************************************************************************)
(* How the calls advance.                                                  *)
(***************************************************************************)

\* A read loads the schedule, checks the user or the new schedule, or is of another
\* kind of call; it never opens a transaction.
LEMMA ReadNext ==
    ASSUME TypeInv, NEW r \in Requests,
           \/ CheckCreate(r) \/ CheckAttach(r) \/ LoadLink(r) \/ LoadSchedule(r)
           \/ LoadUser(r) \/ CheckDelete(r) \/ CheckUser(r)
    PROVE  \E permits, n :
              /\ Read(r, permits, n) /\ n.kind = call[r].kind
              /\ n.company = call[r].company /\ n.schedule = call[r].schedule
              /\ \/ n.phase = "loaded" /\ LoadSchedule(r)
                 \/ /\ n.phase = "ready"
                    /\ n.kind = "assign" => LoadUser(r)
                    /\ n.kind = "create" => CheckCreate(r)
<1> DEFINE b == call[r]
<1>1. b \in Call /\ SoundCall(r)
    BY DEF TypeInv, TypeOK, CallsSound
<1>2. CASE CheckCreate(r)
    <2> DEFINE p == b.user = None \/ user[b.user].company \in {None, b.company}
               n == [b EXCEPT !.phase = "ready"]
    <2>1. Read(r, p, n) /\ b.kind = "create"
        BY <1>1, <1>2 DEF CheckCreate
    <2> HIDE DEF p
    <2>2. /\ n.kind = b.kind /\ n.phase = "ready"
          /\ n.company = b.company /\ n.schedule = b.schedule
        BY <1>1 DEF Call
    <2> HIDE DEF n
    <2>3. QED
        BY <1>2, <2>1, <2>2
<1>3. CASE CheckAttach(r)
    <2> DEFINE p == b.schedule \in Present /\ link[b.schedule][b.company] = None
               n == [b EXCEPT !.phase = "ready"]
    <2>1. Read(r, p, n) /\ b.kind = "attach"
        BY <1>1, <1>3 DEF CheckAttach
    <2> HIDE DEF p
    <2>2. /\ n.kind = b.kind /\ n.phase = "ready"
          /\ n.company = b.company /\ n.schedule = b.schedule
        BY <1>1 DEF Call
    <2> HIDE DEF n
    <2>3. QED
        BY <1>3, <2>1, <2>2
<1>4. CASE LoadLink(r)
    <2> DEFINE row == link[b.schedule][b.company]
               p == row # None /\ (b.kind = "detach" => owner[b.schedule] # b.company)
               n == [b EXCEPT !.phase = "ready", !.id = row.id]
    <2>1. Read(r, p, n) /\ b.kind \in {"detach", "setDefault"}
        BY <1>1, <1>4 DEF LoadLink
    <2> HIDE DEF p, row
    <2>2. /\ n.kind = b.kind /\ n.phase = "ready"
          /\ n.company = b.company /\ n.schedule = b.schedule
        BY <1>1 DEF Call
    <2> HIDE DEF n
    <2>3. QED
        BY <1>4, <2>1, <2>2
<1>5. CASE LoadSchedule(r)
    <2> DEFINE attached == {d \in Companies : link[b.schedule][d] # None}
               p == b.schedule \in Present
               n == [b EXCEPT !.phase = "loaded", !.attached = attached]
    <2>1. Read(r, p, n) /\ b.phase = "started"
        BY <1>1, <1>5 DEF LoadSchedule
    <2> HIDE DEF p, attached
    <2>2. /\ n.kind = b.kind /\ n.phase = "loaded"
          /\ n.company = b.company /\ n.schedule = b.schedule
        BY <1>1 DEF Call
    <2> HIDE DEF n
    <2>3. QED
        BY <1>5, <2>1, <2>2
<1>6. CASE LoadUser(r)
    <2> DEFINE p == b.kind = "assign" => user[b.user].company \in b.attached
               n == [b EXCEPT !.phase = "ready"]
    <2>1. Read(r, p, n) /\ b.kind \in {"assign", "unassign"}
        BY <1>1, <1>6 DEF LoadUser, SoundCall
    <2> HIDE DEF p
    <2>2. /\ n.kind = b.kind /\ n.phase = "ready"
          /\ n.company = b.company /\ n.schedule = b.schedule
        BY <1>1 DEF Call
    <2> HIDE DEF n
    <2>3. QED
        BY <1>6, <2>1, <2>2
<1>7. CASE CheckDelete(r)
    <2> DEFINE p == b.schedule \in Present
               n == [b EXCEPT !.phase = "ready"]
    <2>1. Read(r, p, n) /\ b.kind = "delete"
        BY <1>1, <1>7 DEF CheckDelete
    <2> HIDE DEF p
    <2>2. /\ n.kind = b.kind /\ n.phase = "ready"
          /\ n.company = b.company /\ n.schedule = b.schedule
        BY <1>1 DEF Call
    <2> HIDE DEF n
    <2>3. QED
        BY <1>7, <2>1, <2>2
<1>8. CASE CheckUser(r)
    <2> DEFINE p == b.schedule \in Present \cup {None, Absent}
               n == [b EXCEPT !.phase = "ready"]
    <2>1. Read(r, p, n) /\ b.kind \in {"editUser", "createUser"}
        BY <1>1, <1>8 DEF CheckUser
    <2> HIDE DEF p
    <2>2. /\ n.kind = b.kind /\ n.phase = "ready"
          /\ n.company = b.company /\ n.schedule = b.schedule
        BY <1>1 DEF Call
    <2> HIDE DEF n
    <2>3. QED
        BY <1>8, <2>1, <2>2
<1>9. QED
    BY <1>2, <1>3, <1>4, <1>5, <1>6, <1>7, <1>8

\* A call that starts is what was sent.
LEMMA StartFacts ==
    ASSUME TypeInv, NEW r \in Requests,
           NEW kind \in AllKinds, NEW s \in Schedules \cup {None, Absent},
           NEW c \in Companies \cup {None, Absent}, NEW u \in People \cup {None},
           NEW default \in BOOLEAN, Start(r, About(kind, s, c, u, default))
    PROVE  /\ \A q \in Requests : q # r => call'[q] = call[q]
           /\ MayStart(r, call'[r]) /\ call'[r].phase = "started"
           /\ UNCHANGED <<owner, link, user>>
<1> DEFINE sent == Sent(kind, s, c, u, default)
           asked == About(kind, s, c, u, default)
<1>1. /\ sent.kind = kind /\ sent.phase = "started"
      /\ sent.company = c /\ sent.schedule = s
    BY DEF Sent, About, Idle
<1>2. asked.kind = kind /\ asked.company = c /\ asked.schedule = s
    BY DEF About, Idle
<1>3. /\ call' = [call EXCEPT ![r] = sent] /\ UNCHANGED <<owner, link, user>>
      /\ MayStart(r, asked)
    BY DEF Start, Sent
<1>4. call \in [Requests -> Call]
    BY DEF TypeInv, TypeOK
<1> HIDE DEF sent, asked
<1>5. MayStart(r, sent)
    BY <1>1, <1>2, <1>3 DEF MayStart, Related
<1>6. QED
    BY <1>1, <1>3, <1>4, <1>5

\* A call that stays in flight is still of the same endpoint, company and schedule.
KeepsSubject(r) ==
    InFlight(r)' => /\ call'[r].kind = call[r].kind
                    /\ call'[r].company = call[r].company
                    /\ call'[r].schedule = call[r].schedule

\* A step is of one call: it starts when it may, or goes on as what it is, or is over.
LEMMA OneCall ==
    ASSUME TypeInv, Next
    PROVE  \E r \in Requests :
              /\ \A q \in Requests : q # r => call'[q] = call[q]
              /\ \/ /\ MayStart(r, call'[r]) /\ call'[r].phase = "started"
                    /\ UNCHANGED <<owner, link, user>>
                 \/ /\ InFlight(r) /\ call'[r] = Left(call[r], "refused")
                    /\ UNCHANGED <<owner, link, user>>
                 \/ /\ InFlight(r) /\ KeepsSubject(r)
                    /\ \/ CheckCreate(r) \/ CheckAttach(r) \/ LoadLink(r) \/ LoadSchedule(r)
                       \/ LoadUser(r) \/ CheckDelete(r) \/ CheckUser(r)
                    /\ UNCHANGED <<owner, link, user>>
                 \/ /\ InFlight(r) /\ KeepsSubject(r) /\ Open(r)
                    /\ UNCHANGED <<owner, link, user>>
                 \/ /\ InFlight(r) /\ call'[r] = Left(call[r], "done") /\ Writes(r)
<1>1. call \in [Requests -> Call]
    BY DEF TypeInv, TypeOK
<1>2. ASSUME NEW r \in Requests, NEW kind \in AllKinds,
             NEW s \in Schedules \cup {None, Absent}, NEW c \in Companies \cup {None, Absent},
             NEW u \in People \cup {None}, NEW default \in BOOLEAN,
             Start(r, About(kind, s, c, u, default))
      PROVE  /\ \A q \in Requests : q # r => call'[q] = call[q]
             /\ MayStart(r, call'[r]) /\ call'[r].phase = "started"
             /\ UNCHANGED <<owner, link, user>>
    BY <1>1, <1>2, StartFacts
<1>3. ASSUME NEW r \in Requests,
             \/ StartCreate(r) \/ StartAttach(r) \/ StartDetach(r) \/ StartSetDefault(r)
             \/ StartAssign(r) \/ StartDelete(r) \/ StartEditUser(r) \/ StartCreateUser(r)
      PROVE  /\ \A q \in Requests : q # r => call'[q] = call[q]
             /\ MayStart(r, call'[r]) /\ call'[r].phase = "started"
             /\ UNCHANGED <<owner, link, user>>
    <2>1. /\ r \in Schedules /\ Present \subseteq Schedules
          /\ r \in People /\ Hired \subseteq People
        BY DEF Schedules, Present, People, Hired
    <2>2. CASE StartCreate(r)
        BY <1>2, <2>1, <2>2 DEF StartCreate, AllKinds
    <2>3. CASE StartAttach(r)
        BY <1>2, <2>1, <2>3 DEF StartAttach, AllKinds
    <2>4. CASE StartDetach(r)
        BY <1>2, <2>1, <2>4 DEF StartDetach, AllKinds
    <2>5. CASE StartSetDefault(r)
        BY <1>2, <2>1, <2>5 DEF StartSetDefault, AllKinds
    <2>6. CASE StartAssign(r)
        BY <1>2, <2>1, <2>6 DEF StartAssign, AllKinds
    <2>7. CASE StartDelete(r)
        BY <1>2, <2>1, <2>7 DEF StartDelete, AllKinds
    <2>8. CASE StartEditUser(r)
        BY <1>2, <2>1, <2>8 DEF StartEditUser, AllKinds
    <2>9. CASE StartCreateUser(r)
        BY <1>2, <2>1, <2>9 DEF StartCreateUser, AllKinds
    <2>10. QED
        BY <1>3, <2>2, <2>3, <2>4, <2>5, <2>6, <2>7, <2>8, <2>9
<1>4. ASSUME NEW r \in Requests,
             \/ CheckCreate(r) \/ CheckAttach(r) \/ LoadLink(r) \/ LoadSchedule(r)
             \/ LoadUser(r) \/ CheckDelete(r) \/ CheckUser(r)
      PROVE  /\ InFlight(r) /\ UNCHANGED <<owner, link, user>>
             /\ \A q \in Requests : q # r => call'[q] = call[q]
             /\ KeepsSubject(r)
    <2>1. call[r] \in Call /\ InFlight(r)
        BY <1>1, <1>4 DEF CheckCreate, CheckAttach, LoadLink, LoadSchedule, LoadUser,
                          CheckDelete, CheckUser, InFlight, InFlightPhases
    <2>2. PICK permits, n :
             /\ Read(r, permits, n) /\ n.kind = call[r].kind
             /\ n.company = call[r].company /\ n.schedule = call[r].schedule
        BY <1>4, ReadNext
    <2>3. Left(call[r], "refused").phase = "refused"
        BY <2>1, LeftFacts
    <2>4. QED
        BY <1>1, <2>1, <2>2, <2>3 DEF Read, KeepsSubject, InFlight, InFlightPhases
<1>5. ASSUME NEW r \in Requests, Open(r)
      PROVE  /\ InFlight(r) /\ UNCHANGED <<owner, link, user>>
             /\ \A q \in Requests : q # r => call'[q] = call[q]
             /\ KeepsSubject(r)
    BY <1>1, <1>5, OpenFacts DEF KeepsSubject
<1>6. ASSUME NEW r \in Requests, Fail(r)
      PROVE  /\ InFlight(r) /\ UNCHANGED <<owner, link, user>>
             /\ \A q \in Requests : q # r => call'[q] = call[q]
             /\ call'[r] = Left(call[r], "refused")
    BY <1>1, <1>6 DEF Fail
<1>7. ASSUME NEW r \in Requests, Writes(r)
      PROVE  /\ InFlight(r)
             /\ \A q \in Requests : q # r => call'[q] = call[q]
             /\ call'[r] = Left(call[r], "done")
    BY <1>1, <1>7, WritesTypes DEF InFlight, InFlightPhases
<1>8. PICK r \in Requests :
         \/ StartCreate(r) \/ StartAttach(r) \/ StartDetach(r) \/ StartSetDefault(r)
         \/ StartAssign(r) \/ StartDelete(r) \/ StartEditUser(r) \/ StartCreateUser(r)
         \/ CheckCreate(r) \/ CheckAttach(r) \/ LoadLink(r) \/ LoadSchedule(r)
         \/ LoadUser(r) \/ CheckDelete(r) \/ CheckUser(r)
         \/ Open(r) \/ Writes(r) \/ Fail(r)
    BY DEF Next, Writes
<1>9. QED
    BY <1>3, <1>4, <1>5, <1>6, <1>7, <1>8

\* A read never opens a transaction; what it leaves ready or loaded it has checked.
LEMMA ReadPhases ==
    ASSUME TypeInv, NEW r \in Requests,
           \/ CheckCreate(r) \/ CheckAttach(r) \/ LoadLink(r) \/ LoadSchedule(r)
           \/ LoadUser(r) \/ CheckDelete(r) \/ CheckUser(r)
    PROVE  /\ call'[r].phase \in {"loaded", "ready", "refused"}
           /\ call'[r].phase = "loaded" => LoadSchedule(r)
           /\ call'[r].phase = "ready" /\ call'[r].kind = "assign" => LoadUser(r)
           /\ call'[r].phase = "ready" /\ call'[r].kind = "create" => CheckCreate(r)
<1> DEFINE b == call[r]
<1>1. call \in [Requests -> Call] /\ b \in Call
    BY DEF TypeInv, TypeOK
<1>2. Left(b, "refused").phase = "refused"
    BY <1>1, LeftFacts
<1>3. PICK permits, n :
         /\ Read(r, permits, n) /\ n.kind = b.kind
         /\ \/ n.phase = "loaded" /\ LoadSchedule(r)
            \/ /\ n.phase = "ready"
               /\ n.kind = "assign" => LoadUser(r)
               /\ n.kind = "create" => CheckCreate(r)
    BY ReadNext
<1>4. call'[r] = n \/ call'[r].phase = "refused"
    BY <1>1, <1>2, <1>3 DEF Read
<1>5. QED
    BY <1>3, <1>4

\* Only Open opens a transaction; a write closes one.
LEMMA StepPhases ==
    ASSUME TypeInv, Next
    PROVE  \E r \in Requests :
              /\ \A q \in Requests : q # r => call'[q] = call[q]
              /\ \/ call'[r].phase # "open" /\ UNCHANGED <<owner, link, user>>
                 \/ Open(r) /\ UNCHANGED <<owner, link, user>>
                 \/ /\ InFlight(r) /\ call'[r].phase # "open" /\ Writes(r)
                    /\ call'[r] = Left(call[r], "done")
<1>1. PICK r \in Requests :
         /\ \A q \in Requests : q # r => call'[q] = call[q]
         /\ \/ /\ call'[r].phase = "started"
               /\ UNCHANGED <<owner, link, user>>
            \/ /\ call'[r] = Left(call[r], "refused")
               /\ UNCHANGED <<owner, link, user>>
            \/ /\ \/ CheckCreate(r) \/ CheckAttach(r) \/ LoadLink(r) \/ LoadSchedule(r)
                  \/ LoadUser(r) \/ CheckDelete(r) \/ CheckUser(r)
               /\ UNCHANGED <<owner, link, user>>
            \/ Open(r) /\ UNCHANGED <<owner, link, user>>
            \/ InFlight(r) /\ call'[r] = Left(call[r], "done") /\ Writes(r)
    BY OneCall
<1>2. call[r] \in Call
    BY DEF TypeInv, TypeOK
<1>3. Left(call[r], "refused").phase = "refused" /\ Left(call[r], "done").phase = "done"
    BY <1>2, LeftFacts
<1>4. ASSUME \/ CheckCreate(r) \/ CheckAttach(r) \/ LoadLink(r) \/ LoadSchedule(r)
             \/ LoadUser(r) \/ CheckDelete(r) \/ CheckUser(r)
      PROVE  call'[r].phase # "open"
    BY <1>4, ReadPhases
<1>5. QED
    BY <1>1, <1>3, <1>4

LEMMA CallsApartStep == TypeInv /\ CallsApart /\ [Next]_vars => CallsApart'
<1> SUFFICES ASSUME TypeInv, CallsApart, [Next]_vars PROVE CallsApart'
    OBVIOUS
<1>1. CASE UNCHANGED vars
    BY <1>1 DEF vars, CallsApart, InFlight, Related
<1>2. CASE Next
    <2>1. PICK r \in Requests :
             /\ \A q \in Requests : q # r => call'[q] = call[q]
             /\ \/ MayStart(r, call'[r]) /\ call'[r].phase = "started"
                \/ InFlight(r) /\ KeepsSubject(r)
                \/ ~InFlight(r)'
        <3>1. \A q \in Requests, phase \in {"done", "refused"} : call[q] \in Call =>
                 Left(call[q], phase).phase \notin InFlightPhases
            BY LeftFacts DEF InFlightPhases
        <3>2. \A q \in Requests : call[q] \in Call
            BY DEF TypeInv, TypeOK
        <3>3. QED
            BY <1>2, <3>1, <3>2, OneCall DEF InFlight
    <2>2. ASSUME NEW q \in Requests \ {r}, InFlight(r)', InFlight(q),
                 Related(call'[r], call[q])
          PROVE  /\ {call'[r].kind, call[q].kind} \notin Apart
                 /\ {call[q].kind, call'[r].kind} \notin Apart
        <3>1. {call'[r].kind, call[q].kind} \notin Apart
            BY <2>1, <2>2 DEF MayStart, CallsApart, KeepsSubject, Related
        <3>2. \A k, l : {k, l} = {l, k}
            OBVIOUS
        <3>3. QED
            BY <3>1, <3>2
    <2>3. \A q \in Requests \ {r} : InFlight(q)' = InFlight(q) /\ call'[q] = call[q]
        BY <2>1 DEF InFlight
    <2>4. \A c, d : Related(c, d) => Related(d, c)
        BY DEF Related
    <2>5. SUFFICES ASSUME NEW q \in Requests, NEW t \in Requests, q # t,
                          InFlight(q)', InFlight(t)', Related(call'[q], call'[t])
                   PROVE  {call'[q].kind, call'[t].kind} \notin Apart
        BY DEF CallsApart, Related
    <2>6. CASE q = r
        BY <2>2, <2>3, <2>5, <2>6
    <2>7. CASE t = r
        BY <2>2, <2>3, <2>4, <2>5, <2>7
    <2>8. CASE q # r /\ t # r
        BY <2>3, <2>5, <2>8 DEF CallsApart
    <2>9. QED
        BY <2>6, <2>7, <2>8
<1>3. QED
    BY <1>1, <1>2

(***************************************************************************)
(* One default a company, while the calls that make a default of it do not *)
(* overlap.                                                                *)
(***************************************************************************)

\* A write other than a default-making one marks nothing and renames nothing.
LEMMA UnmarkedWrites ==
    ASSUME TypeInv, NEW r \in Requests,
           Detach(r) \/ Assign(r) \/ Delete(r) \/ EditUser(r) \/ CreateUser(r),
           NEW s \in Schedules, NEW d \in Companies
    PROVE  link'[s][d] = link[s][d] \/ link'[s][d] = None
<1> DEFINE c == call[r]
<1>1. link \in [Schedules -> [Companies -> Link \cup {None}]]
    BY DEF TypeInv, TypeOK
<1>2. CASE Detach(r)
    <2>1. c.schedule \in Schedules /\ c.company \in Companies
        BY <1>2, CommitSound DEF Detach
    <2>2. link' = [link EXCEPT ![c.schedule][c.company] = None]
        BY <1>2 DEF Detach
    <2>3. QED
        BY <1>1, <2>1, <2>2, PutFacts
<1>3. CASE Assign(r) \/ EditUser(r) \/ CreateUser(r)
    BY <1>3 DEF Assign, EditUser, CreateUser
<1>4. CASE Delete(r)
    <2> DEFINE s0 == call[r].schedule
    <2>1. link' = [link EXCEPT ![s0] = [e \in Companies |-> None]] /\ s0 \in Schedules
        BY <1>4, CommitSound DEF Delete
    <2>2. QED
        BY <1>1, <2>1
<1>5. QED
    BY <1>2, <1>3, <1>4

LEMMA SeenAllStep ==
    ASSUME TypeInv, CallsApart, SeenAll, [Next]_vars,
           \A k, l \in {"create", "attach", "setDefault"} : {k, l} \in Apart
    PROVE  SeenAll'
<1>1. CASE UNCHANGED vars
    BY <1>1 DEF vars, SeenAll, Defaults, IsDefault
<1>2. CASE Next
    <2>1. PICK r \in Requests :
             /\ \A q \in Requests : q # r => call'[q] = call[q]
             /\ \/ call'[r].phase # "open" /\ UNCHANGED <<owner, link, user>>
                \/ Open(r) /\ UNCHANGED <<owner, link, user>>
                \/ InFlight(r) /\ call'[r].phase # "open" /\ Writes(r)
        BY <1>2, StepPhases
    <2>2. ASSUME NEW q \in Requests, (call[q].phase = "open")', ClearsDefaults(call[q])',
                 NEW s \in Defaults(call[q].company)'
          PROVE  (<<s, link[s][call[q].company].id>> \in call[q].seen)'
        <3> DEFINE d == call'[q].company
        <3>1. s \in Schedules /\ link'[s][d] # None /\ link'[s][d].isDefault
            BY <2>2 DEF Defaults, IsDefault
        <3>2. CASE q = r
            <4>1. Open(r) /\ UNCHANGED <<owner, link, user>>
                BY <2>1, <2>2, <3>2
            <4>2. PICK n \in Call :
                     /\ call' = [call EXCEPT ![r] = n]
                     /\ n.kind = call[r].kind /\ n.company = call[r].company
                     /\ n.isDefault = call[r].isDefault
                     /\ ClearsDefaults(call[r]) => n.seen = DefaultRows(call[r])
                BY <4>1, OpenFacts
            <4>3. call'[q] = n
                BY <3>2, <4>2 DEF TypeInv, TypeOK
            <4>4. ClearsDefaults(call[r])
                BY <2>2, <4>2, <4>3 DEF ClearsDefaults
            <4>5. call'[q].seen = DefaultRows(call[r]) /\ d = call[r].company
                BY <4>2, <4>3, <4>4
            <4>6. s \in Defaults(d)
                BY <3>1, <4>1 DEF Defaults, IsDefault
            <4>7. QED
                BY <4>1, <4>5, <4>6 DEF DefaultRows
        <3>3. CASE q # r
            <4>1. call'[q] = call[q] /\ call[q].phase = "open" /\ ClearsDefaults(call[q])
                BY <2>1, <2>2, <3>3
            <4>2. \A t \in Defaults(call[q].company) :
                     <<t, link[t][call[q].company].id>> \in call[q].seen
                BY <4>1 DEF SeenAll
            <4>3. CASE UNCHANGED <<owner, link, user>>
                <5>1. s \in Defaults(call[q].company)
                    BY <3>1, <4>1, <4>3 DEF Defaults, IsDefault
                <5>2. QED
                    BY <4>1, <4>2, <4>3, <5>1
            <4>4. CASE InFlight(r) /\ Writes(r)
                <5>1. InFlight(q) /\ call[q].kind \in {"create", "attach", "setDefault"}
                    BY <4>1 DEF InFlight, InFlightPhases, ClearsDefaults
                <5>2. call[q].company \in Companies
                    BY <5>1 DEF TypeInv, CallsSound, SoundCall, InFlight
                <5>3. ASSUME Detach(r) \/ Assign(r) \/ Delete(r) \/ EditUser(r) \/ CreateUser(r)
                      PROVE  link'[s][d] = link[s][d]
                    BY <3>1, <4>1, <5>2, <5>3, UnmarkedWrites
                <5>4. ASSUME Create(r) \/ Attach(r) \/ SetDefault(r)
                      PROVE  link'[s][d] = link[s][d]
                    <6>1. call[r].kind \in {"create", "attach", "setDefault"}
                        BY <5>4 DEF Create, Attach, SetDefault, Commit
                    <6>2. call[r].company # call[q].company
                        BY <3>3, <4>4, <5>1, <6>1 DEF CallsApart, Related
                    <6>3. link'[s][d] = Cleared(call[r])[s][d] /\ call[r] \in Call
                        BY <3>1, <4>1, <5>2, <5>4, <6>2, MarkFacts
                    <6>4. \A e \in Companies : e # call[r].company =>
                              Cleared(call[r])[s][e] = link[s][e]
                        BY <3>1, <6>3, ClearedFacts DEF TypeInv
                    <6>5. QED
                        BY <4>1, <5>2, <6>2, <6>3, <6>4
                <5>5. link'[s][d] = link[s][d]
                    BY <4>4, <5>3, <5>4 DEF Writes
                <5>6. s \in Defaults(call[q].company)
                    BY <3>1, <4>1, <5>5 DEF Defaults, IsDefault
                <5>7. QED
                    BY <4>1, <4>2, <5>5, <5>6
            <4>5. QED
                BY <2>1, <4>3, <4>4
        <3>4. QED
            BY <3>2, <3>3
    <2>3. QED
        BY <2>2 DEF SeenAll
<1>3. QED
    BY <1>1, <1>2

LEMMA AtMostOneStep ==
    ASSUME TypeInv, SeenAll, AtMostOneDefault, Wired, [Next]_vars
    PROVE  AtMostOneDefault'
<1>1. ASSUME NEW d \in Companies, NEW s \in Schedules, NEW t \in Schedules,
             link[s][d] # None, link[s][d].isDefault,
             link[t][d] # None, link[t][d].isDefault
      PROVE  s = t
    <2>1. s \in Defaults(d) /\ t \in Defaults(d)
        BY <1>1 DEF Defaults, IsDefault
    <2>2. QED
        BY <2>1 DEF AtMostOneDefault
<1>2. SUFFICES ASSUME NEW d \in Companies, NEW s \in Schedules, NEW t \in Schedules,
                      link'[s][d] # None, link'[s][d].isDefault,
                      link'[t][d] # None, link'[t][d].isDefault
               PROVE  s = t
    BY DEF AtMostOneDefault, Defaults, IsDefault
<1>3. CASE UNCHANGED <<owner, link, user>>
    BY <1>1, <1>2, <1>3
<1>4. CASE \E r \in Requests : Writes(r)
    <2>1. PICK r \in Requests : Writes(r)
        BY <1>4
    <2> DEFINE c == call[r]
    <2>2. CASE Detach(r) \/ Assign(r) \/ Delete(r) \/ EditUser(r) \/ CreateUser(r)
        <3>1. link'[s][d] = link[s][d] /\ link'[t][d] = link[t][d]
            BY <1>2, <2>2, UnmarkedWrites
        <3>2. QED
            BY <1>1, <1>2, <3>1
    <2>3. CASE Create(r) \/ Attach(r) \/ SetDefault(r)
        <3>1. /\ c \in Call /\ c.schedule \in Schedules /\ c.company \in Companies
              /\ link'[c.schedule][c.company].isDefault = c.isDefault
              /\ \A u \in Schedules, e \in Companies :
                    u # c.schedule \/ e # c.company => link'[u][e] = Cleared(c)[u][e]
            BY <2>3, MarkFacts
        <3>2. \A u \in Schedules, e \in Companies :
                 Cleared(c)[u][e] # None /\ Cleared(c)[u][e].isDefault =>
                    /\ link[u][e] # None /\ link[u][e].isDefault
                    /\ e = c.company => <<u, link[u][e].id>> \notin c.seen
            BY <3>1, ClearedFacts DEF TypeInv
        <3>3. CASE d # c.company \/ ~c.isDefault
            <4>1. link'[s][d] = Cleared(c)[s][d] /\ link'[t][d] = Cleared(c)[t][d]
                BY <1>2, <3>1, <3>3
            <4>2. QED
                BY <1>1, <1>2, <3>2, <4>1
        <3>4. CASE d = c.company /\ c.isDefault
            <4>1. c.phase = "open" /\ ClearsDefaults(c)
                BY <2>3, <3>4 DEF Create, Attach, SetDefault, Commit, PicksRows, ClearsDefaults
            <4>2. ASSUME NEW u \in Schedules, u # c.schedule
                  PROVE  ~(link'[u][d] # None /\ link'[u][d].isDefault)
                <5> SUFFICES ASSUME link'[u][d] # None, link'[u][d].isDefault PROVE FALSE
                    OBVIOUS
                <5>1. link'[u][d] = Cleared(c)[u][d]
                    BY <3>1, <4>2
                <5>2. /\ link[u][d] # None /\ link[u][d].isDefault
                      /\ <<u, link[u][d].id>> \notin c.seen
                    BY <3>2, <3>4, <5>1
                <5>3. u \in Defaults(c.company)
                    BY <3>4, <5>2 DEF Defaults, IsDefault
                <5>4. QED
                    BY <3>4, <4>1, <5>2, <5>3 DEF SeenAll
            <4>3. QED
                BY <1>2, <4>2
        <3>5. QED
            BY <3>3, <3>4
    <2>4. QED
        BY <2>1, <2>2, <2>3 DEF Writes
<1>5. QED
    BY <1>3, <1>4, StepKinds

LEMMA InitCalls == Init => CallsApart /\ SeenAll /\ AssignmentsHold /\ StaffAll
<1> SUFFICES ASSUME Init PROVE CallsApart /\ SeenAll /\ AssignmentsHold /\ StaffAll
    OBVIOUS
<1>1. \A r \in Requests : call[r].phase = "idle"
    BY DEF Init, Idle
<1>2. QED
    BY <1>1 DEF CallsApart, SeenAll, AssignmentsHold, AssignmentHolds, StaffAll, InFlight,
                InFlightPhases

\* A company has at most one default schedule, as long as no two calls that make a
\* default of one company or schedule overlap, whatever other calls do meanwhile.
THEOREM AtMostOneDefaultCorrect ==
    ASSUME \A k, l \in {"create", "attach", "setDefault"} : {k, l} \in Apart
    PROVE  Spec => []AtMostOneDefault
<1> DEFINE Inv == TypeInv /\ Wired /\ CallsApart /\ SeenAll /\ AtMostOneDefault
<1>1. Init => Inv
    BY TypeInvInit, InitCalls DEF Init
<1>2. Inv /\ [Next]_vars => Inv'
    BY TypeInvNextStep, WiredStep, CallsApartStep, SeenAllStep, AtMostOneStep
<1>3. Inv => AtMostOneDefault
    OBVIOUS
<1> HIDE DEF Inv
<1>4. QED
    BY <1>1, <1>2, <1>3, PTL DEF Spec

(***************************************************************************)
(* Users follow schedules attached to their company, while no assignment   *)
(* to a schedule overlaps a detachment from it.                            *)
(***************************************************************************)

\* What the office entered on a user's page stays entered.
LEMMA EditedStays ==
    ASSUME TypeInv, [Next]_vars, NEW u, Edited(u)
    PROVE  Edited(u)'
<1>1. PICK q \in Requests :
         /\ call[q].phase = "done" /\ call[q].kind \in {"createUser", "editUser"}
         /\ call[q].user = u
    BY DEF Edited
<1>2. CASE UNCHANGED vars
    BY <1>1, <1>2 DEF vars, Edited
<1>3. CASE Next
    <2>1. PICK r \in Requests :
             /\ \A p \in Requests : p # r => call'[p] = call[p]
             /\ call[r].phase = "idle" \/ InFlight(r)
        BY <1>3, OneCall DEF MayStart
    <2>2. q # r
        BY <1>1, <2>1 DEF InFlight, InFlightPhases
    <2>3. QED
        BY <1>1, <2>1, <2>2 DEF Edited
<1>4. QED
    BY <1>2, <1>3

\* A user's company changes only by an edit that is then accepted; the schedule
\* changes to the new one, the assigned one or none unless by such an edit.
LEMMA UsersWritten ==
    ASSUME TypeInv, NEW r \in Requests, Writes(r),
           call'[r] = Left(call[r], "done"), NEW u \in People, ~Edited(u)'
    PROVE  LET c == call[r]
           IN  /\ user'[u].company = user[u].company
               /\ \/ user'[u].schedule = user[u].schedule
                  \/ user'[u].schedule = None
                  \/ Create(r) /\ u = c.user /\ user'[u].schedule = r
                  \/ Assign(r) /\ c.kind = "assign" /\ u = c.user
                     /\ user'[u].schedule = c.schedule
<1> DEFINE c == call[r]
<1>1. user \in [People -> User] /\ c \in Call
    BY DEF TypeInv, TypeOK
<1>2. user[u] \in User
    BY <1>1
<1>3. CASE Create(r)
    BY <1>1, <1>2, <1>3 DEF Create, User
<1>4. CASE Attach(r) \/ SetDefault(r)
    BY <1>4 DEF Attach, SetDefault
<1>5. CASE Detach(r)
    BY <1>1, <1>2, <1>5 DEF Detach, User
<1>6. CASE Assign(r)
    <2> DEFINE s == IF c.kind = "assign" THEN c.schedule ELSE None
    <2>1. user' = [user EXCEPT ![c.user].schedule = s]
        BY <1>6 DEF Assign
    <2>2. user'[u].company = user[u].company
          /\ user'[u].schedule = IF u = c.user THEN s ELSE user[u].schedule
        BY <1>1, <1>2, <2>1 DEF User
    <2>3. QED
        BY <1>6, <2>2
<1>7. CASE Delete(r)
    BY <1>1, <1>2, <1>7 DEF Delete, User
<1>8. CASE EditUser(r) \/ CreateUser(r)
    <2>1. /\ call'[r].phase = "done" /\ call'[r].kind \in {"createUser", "editUser"}
          /\ call'[r].user = c.user
        BY <1>1, <1>8, LeftFacts DEF EditUser, CreateUser, Commit
    <2>2. u # c.user
        BY <2>1 DEF Edited
    <2>3. user'[u] = user[u]
        BY <1>1, <1>8, <2>2 DEF EditUser, CreateUser
    <2>4. QED
        BY <2>3
<1>9. QED
    BY <1>3, <1>4, <1>5, <1>6, <1>7, <1>8 DEF Writes

\* An attachment of a schedule that stays goes only by a detachment of it.
LEMMA LinkStays ==
    ASSUME TypeInv, NEW r \in Requests, Writes(r),
           NEW s \in Schedules, NEW d \in Companies, link[s][d] # None,
           s \in Present', link'[s][d] = None
    PROVE  Detach(r) /\ s = call[r].schedule /\ d = call[r].company
<1> DEFINE c == call[r]
<1>1. link \in [Schedules -> [Companies -> Link \cup {None}]]
      /\ owner \in [Schedules -> Companies \cup {None}]
    BY DEF TypeInv, TypeOK
<1>2. CASE Create(r) \/ Attach(r) \/ SetDefault(r)
    <2>1. /\ c \in Call /\ link'[c.schedule][c.company] # None
          /\ \A t \in Schedules, e \in Companies :
                t # c.schedule \/ e # c.company => link'[t][e] = Cleared(c)[t][e]
        BY <1>2, MarkFacts
    <2>2. Cleared(c)[s][d] # None
        BY <2>1, ClearedFacts DEF TypeInv
    <2>3. QED
        BY <2>1, <2>2
<1>3. CASE Detach(r)
    <2>1. c.schedule \in Schedules /\ c.company \in Companies
        BY <1>3, CommitSound DEF Detach
    <2>2. link' = [link EXCEPT ![c.schedule][c.company] = None]
        BY <1>3 DEF Detach
    <2>3. s = c.schedule /\ d = c.company
        BY <1>1, <2>1, <2>2, PutFacts
    <2>4. QED
        BY <1>3, <2>3
<1>4. CASE Assign(r) \/ EditUser(r) \/ CreateUser(r)
    BY <1>4 DEF Assign, EditUser, CreateUser
<1>5. CASE Delete(r)
    <2> DEFINE s0 == call[r].schedule
    <2>1. /\ s0 \in Schedules /\ owner' = [owner EXCEPT ![s0] = None]
          /\ link' = [link EXCEPT ![s0] = [e \in Companies |-> None]]
        BY <1>5, CommitSound DEF Delete
    <2>2. s # s0
        BY <1>1, <2>1 DEF Present
    <2>3. QED
        BY <1>1, <2>1, <2>2
<1>6. QED
    BY <1>2, <1>3, <1>4, <1>5 DEF Writes

\* A schedule that a call knows of appears with no write: it is there or is gone.
LEMMA PresentWas ==
    ASSUME TypeInv, NEW r \in Requests, Writes(r), NEW s \in Schedules, s # r, s \in Present'
    PROVE  s \in Present
<1>1. owner'[s] \in {owner[s], None} /\ owner'[s] # None
    BY WritesTypes DEF Present
<1>2. QED
    BY <1>1 DEF Present

LEMMA StaffAllStep ==
    ASSUME TypeInv, Wired, CallsApart, StaffAll, [Next]_vars, {"assign", "detach"} \in Apart
    PROVE  StaffAll'
<1>1. CASE UNCHANGED vars
    BY <1>1 DEF vars, StaffAll, Staff, Edited
<1>2. CASE Next
    <2>1. PICK r \in Requests :
             /\ \A q \in Requests : q # r => call'[q] = call[q]
             /\ \/ call'[r].phase # "open" /\ UNCHANGED <<owner, link, user>>
                \/ Open(r) /\ UNCHANGED <<owner, link, user>>
                \/ /\ InFlight(r) /\ call'[r].phase # "open" /\ Writes(r)
                   /\ call'[r] = Left(call[r], "done")
        BY <1>2, StepPhases
    <2>2. ASSUME NEW q \in Requests, (call[q].phase = "open")', (call[q].kind = "detach")',
                 NEW u \in People, (u \in Staff(call[q]))', ~Edited(u)'
          PROVE  u \in call'[q].staff
        <3>1. ~Edited(u)
            BY <2>2, EditedStays
        <3>2. user'[u] = [company |-> call'[q].company, schedule |-> call'[q].schedule]
            BY <2>2 DEF Staff
        <3>3. CASE q = r
            <4>1. Open(r) /\ UNCHANGED <<owner, link, user>>
                BY <2>1, <2>2, <3>3
            <4>2. call[r] \in Call /\ call \in [Requests -> Call]
                BY DEF TypeInv, TypeOK
            <4>3. PICK seen, staff :
                     /\ call' = [call EXCEPT ![r].phase = "open", ![r].seen = seen,
                                             ![r].staff = staff]
                     /\ staff = IF call[r].kind = "detach" THEN Staff(call[r]) ELSE {}
                BY <4>1 DEF Open
            <4>4. /\ call'[r].kind = call[r].kind /\ call'[r].company = call[r].company
                  /\ call'[r].schedule = call[r].schedule /\ call'[r].staff = staff
                BY <4>2, <4>3 DEF Call
            <4>5. u \in Staff(call[r])
                BY <3>2, <3>3, <4>1, <4>4 DEF Staff
            <4>6. QED
                BY <2>2, <3>3, <4>3, <4>4, <4>5
        <3>4. CASE q # r
            <4>1. call'[q] = call[q] /\ call[q].phase = "open" /\ call[q].kind = "detach"
                BY <2>1, <2>2, <3>4
            <4>2. \A v \in Staff(call[q]) : v \in call[q].staff \/ Edited(v)
                BY <4>1 DEF StaffAll
            <4>3. CASE UNCHANGED <<owner, link, user>>
                <5>1. u \in Staff(call[q])
                    BY <3>2, <4>1, <4>3 DEF Staff
                <5>2. QED
                    BY <3>1, <4>1, <4>2, <5>1
            <4>4. CASE InFlight(r) /\ Writes(r) /\ call'[r] = Left(call[r], "done")
                <5>1. InFlight(q) /\ call[q].schedule \in Schedules
                      /\ (call[q].schedule \in Requests => call[call[q].schedule].phase = "done")
                    BY <4>1 DEF TypeInv, CallsSound, SoundCall, InFlight, InFlightPhases, OnSchedule
                <5>2. call[r].kind = "assign" => call[r].schedule # call[q].schedule
                    BY <3>4, <4>1, <4>4, <5>1 DEF CallsApart, Related
                <5>3. call[q].schedule # r /\ call[q].schedule # None
                    BY <4>4, <5>1, WorkScheduleAssumption DEF InFlight, InFlightPhases
                <5>4. user'[u].company = call[q].company /\ user'[u].schedule = call[q].schedule
                    BY <3>2, <4>1
                <5>5. user[u].company = user'[u].company /\ user[u].schedule = user'[u].schedule
                    BY <2>2, <4>4, <5>2, <5>3, <5>4, UsersWritten
                <5>6. user[u] \in User
                    BY DEF TypeInv, TypeOK
                <5>7. u \in Staff(call[q])
                    BY <5>4, <5>5, <5>6 DEF Staff, User
                <5>8. QED
                    BY <3>1, <4>1, <4>2, <5>7
            <4>5. QED
                BY <2>1, <4>3, <4>4
        <3>5. QED
            BY <3>3, <3>4
    <2>3. QED
        BY <2>2 DEF StaffAll, Staff
<1>3. QED
    BY <1>1, <1>2

\* The read that makes a call ready, or loads the attachments, makes it hold.
LEMMA HoldsAfterRead ==
    ASSUME TypeInv, NEW r \in Requests, AssignmentHolds(r), UNCHANGED <<owner, link, user>>,
           \/ CheckCreate(r) \/ CheckAttach(r) \/ LoadLink(r) \/ LoadSchedule(r)
           \/ LoadUser(r) \/ CheckDelete(r) \/ CheckUser(r)
    PROVE  AssignmentHolds(r)'
<1> DEFINE b == call[r]
<1>1. b \in Call /\ SoundCall(r) /\ call \in [Requests -> Call]
    BY DEF TypeInv, TypeOK, CallsSound
<1>2. Present' = Present
    BY DEF Present
<1>3. Left(b, "refused").phase = "refused"
    BY <1>1, LeftFacts
<1>4. /\ call'[r].phase \in {"loaded", "ready", "refused"}
      /\ call'[r].phase = "loaded" => LoadSchedule(r)
      /\ call'[r].phase = "ready" /\ call'[r].kind = "assign" => LoadUser(r)
      /\ call'[r].phase = "ready" /\ call'[r].kind = "create" => CheckCreate(r)
    BY ReadPhases
<1>5. ASSUME call'[r].phase = "loaded"
      PROVE  \A d \in call'[r].attached : link[call'[r].schedule][d] # None
    <2> DEFINE attached == {d \in Companies : link[b.schedule][d] # None}
               n == [b EXCEPT !.phase = "loaded", !.attached = attached]
    <2>1. call' = [call EXCEPT ![r] = n] \/ call' = [call EXCEPT ![r] = Left(b, "refused")]
        BY <1>4, <1>5 DEF LoadSchedule, Read
    <2>2. \A d \in attached : link[b.schedule][d] # None
        OBVIOUS
    <2> HIDE DEF attached
    <2>3. n.attached = attached /\ n.schedule = b.schedule
        BY <1>1 DEF Call
    <2> HIDE DEF n
    <2>4. call'[r] = n
        BY <1>1, <1>3, <1>5, <2>1
    <2>5. QED
        BY <2>2, <2>3, <2>4
<1>6. ASSUME call'[r].phase = "ready", call'[r].kind = "assign"
      PROVE  /\ b.kind = "assign" /\ b.phase = "loaded"
             /\ call'[r].schedule = b.schedule /\ call'[r].user = b.user
             /\ user[b.user].company \in b.attached
    <2> DEFINE n == [b EXCEPT !.phase = "ready"]
    <2>1. /\ b.phase = "loaded"
          /\ \/ /\ call' = [call EXCEPT ![r] = n]
                /\ b.kind = "assign" => user[b.user].company \in b.attached
             \/ call' = [call EXCEPT ![r] = Left(b, "refused")]
        BY <1>4, <1>6 DEF LoadUser, Read
    <2>2. n.schedule = b.schedule /\ n.user = b.user /\ n.kind = b.kind
        BY <1>1 DEF Call
    <2> HIDE DEF n
    <2>3. call'[r] = n
        BY <1>1, <1>3, <1>6, <2>1
    <2>4. b.kind = "assign"
        BY <1>6, <2>2, <2>3
    <2>5. call' = [call EXCEPT ![r] = n] => user[b.user].company \in b.attached
        BY <1>1, <1>3, <2>1, <2>4, <1>6
    <2>6. call' # [call EXCEPT ![r] = Left(b, "refused")]
        BY <1>1, <1>3, <1>6
    <2>7. QED
        BY <2>1, <2>2, <2>3, <2>4, <2>5, <2>6
<1>7. ASSUME call'[r].phase = "ready", call'[r].kind = "create"
      PROVE  /\ call'[r].company = b.company /\ call'[r].user = b.user
             /\ b.user = None \/ user[b.user].company \in {None, b.company}
    <2> DEFINE n == [b EXCEPT !.phase = "ready"]
    <2>1. \/ /\ call' = [call EXCEPT ![r] = n]
             /\ b.user = None \/ user[b.user].company \in {None, b.company}
          \/ call' = [call EXCEPT ![r] = Left(b, "refused")]
        BY <1>4, <1>7 DEF CheckCreate, Read
    <2>2. n.company = b.company /\ n.user = b.user
        BY <1>1 DEF Call
    <2> HIDE DEF n
    <2>3. call' # [call EXCEPT ![r] = Left(b, "refused")]
        BY <1>1, <1>3, <1>7
    <2>4. QED
        BY <1>1, <2>1, <2>2, <2>3
<1>8. ASSUME (call[r].phase = "ready")', (call[r].kind = "assign")'
      PROVE  \/ (call[r].schedule \notin Present)'
             \/ (link[call[r].schedule][user[call[r].user].company] # None)'
    <2>1. b.schedule \in Present => link[b.schedule][user[b.user].company] # None
        BY <1>6, <1>8 DEF AssignmentHolds
    <2>2. QED
        BY <1>2, <1>6, <1>8, <2>1
<1>9. QED
    BY <1>2, <1>5, <1>7, <1>8 DEF AssignmentHolds

\* The writes of other calls leave it so, but for detachments from that schedule.
LEMMA HoldsAfterWrite ==
    ASSUME TypeInv, [Next]_vars, NEW q \in Requests, AssignmentHolds(q), call'[q] = call[q],
           NEW r \in Requests, r # q, Writes(r), call'[r] = Left(call[r], "done"),
           call[q].kind = "assign" /\ InFlight(q) /\ Detach(r) =>
               call[r].schedule # call[q].schedule
    PROVE  AssignmentHolds(q)'
<1> DEFINE c == call[q]
<1>1. c \in Call /\ SoundCall(q) /\ user \in [People -> User]
    BY DEF TypeInv, TypeOK, CallsSound
<1>2. call[r].phase \in {"ready", "open"}
    BY WritesTypes
<1>3. ASSUME c.kind = "assign", c.phase \in {"loaded", "ready"}
      PROVE  /\ c.schedule \in Schedules /\ c.user \in People
             /\ c.schedule \in Present' => c.schedule \in Present
             /\ \A d \in Companies :
                   c.schedule \in Present' /\ link[c.schedule][d] # None =>
                       link'[c.schedule][d] # None
    <2>1. /\ c.schedule \in Schedules /\ c.user \in People /\ InFlight(q)
          /\ c.schedule \in Requests => call[c.schedule].phase = "done"
        BY <1>1, <1>3 DEF SoundCall, InFlight, InFlightPhases, OnSchedule
    <2>2. c.schedule # r
        BY <1>2, <2>1
    <2>3. QED
        BY <1>3, <2>1, <2>2, PresentWas, LinkStays
<1>4. \A u \in People : Edited(u)' \/ user'[u].company = user[u].company
    BY UsersWritten
<1>5. \A u : Edited(u) => Edited(u)'
    BY EditedStays
<1>6. ASSUME c.kind = "assign", c.phase = "loaded", NEW d \in c.attached, c.schedule \in Present'
      PROVE  link'[c.schedule][d] # None
    <2>1. d \in Companies
        BY <1>1, <1>6 DEF Call
    <2>2. QED
        BY <1>3, <1>6, <2>1 DEF AssignmentHolds
<1>7. ASSUME c.kind = "assign", c.phase = "ready", ~Edited(c.user)', c.schedule \in Present',
             user'[c.user].company # None
      PROVE  link'[c.schedule][user'[c.user].company] # None
    <2>1. c.user \in People /\ c.schedule \in Present
        BY <1>3, <1>7
    <2>2. user'[c.user].company = user[c.user].company /\ ~Edited(c.user)
        BY <1>4, <1>5, <1>7, <2>1
    <2>3. user[c.user].company \in Companies
        BY <1>1, <1>7, <2>1, <2>2 DEF User
    <2>4. link[c.schedule][user[c.user].company] # None
        BY <1>7, <2>1, <2>2 DEF AssignmentHolds
    <2>5. QED
        BY <1>3, <1>7, <2>2, <2>3, <2>4
<1>8. ASSUME c.kind = "create", c.phase = "ready", c.user # None, ~Edited(c.user)'
      PROVE  user'[c.user].company \in {None, c.company}
    <2>1. c.user \in People
        BY <1>1, <1>8 DEF Call
    <2>2. QED
        BY <1>4, <1>5, <1>8, <2>1 DEF AssignmentHolds
<1>9. QED
    BY <1>6, <1>7, <1>8 DEF AssignmentHolds

LEMMA AssignmentsHoldStep ==
    ASSUME TypeInv, CallsApart, AssignmentsHold, [Next]_vars, {"assign", "detach"} \in Apart
    PROVE  AssignmentsHold'
<1>1. \A r \in Requests : AssignmentHolds(r)
    BY DEF AssignmentsHold
<1>2. \A u : Edited(u) => Edited(u)'
    BY EditedStays
<1>3. ASSUME NEW q \in Requests, call'[q] = call[q], UNCHANGED <<owner, link, user>>
      PROVE  AssignmentHolds(q)'
    <2>1. AssignmentHolds(q) /\ Present' = Present
        BY <1>1, <1>3 DEF Present
    <2>2. QED
        BY <1>2, <1>3, <2>1 DEF AssignmentHolds
<1>4. CASE UNCHANGED vars
    BY <1>3, <1>4 DEF vars, AssignmentsHold
<1>5. CASE Next
    <2>1. PICK r \in Requests :
             /\ \A q \in Requests : q # r => call'[q] = call[q]
             /\ \/ /\ call'[r].phase = "started"
                   /\ UNCHANGED <<owner, link, user>>
                \/ /\ call'[r] = Left(call[r], "refused")
                   /\ UNCHANGED <<owner, link, user>>
                \/ /\ \/ CheckCreate(r) \/ CheckAttach(r) \/ LoadLink(r) \/ LoadSchedule(r)
                      \/ LoadUser(r) \/ CheckDelete(r) \/ CheckUser(r)
                   /\ UNCHANGED <<owner, link, user>>
                \/ Open(r) /\ UNCHANGED <<owner, link, user>>
                \/ InFlight(r) /\ call'[r] = Left(call[r], "done") /\ Writes(r)
        BY <1>5, OneCall
    <2>2. call[r] \in Call
        BY DEF TypeInv, TypeOK
    <2>3. Left(call[r], "refused").phase = "refused" /\ Left(call[r], "done").phase = "done"
        BY <2>2, LeftFacts
    <2>4. Open(r) => call'[r].phase = "open"
        BY OpenFacts DEF TypeInv, TypeOK
    <2>5. ASSUME NEW q \in Requests, q # r PROVE AssignmentHolds(q)'
        <3>1. CASE UNCHANGED <<owner, link, user>>
            BY <1>3, <2>1, <2>5, <3>1
        <3>2. CASE InFlight(r) /\ call'[r] = Left(call[r], "done") /\ Writes(r)
            <4>1. call[q].kind = "assign" /\ InFlight(q) /\ Detach(r) =>
                      call[r].schedule # call[q].schedule
                <5>1. Detach(r) => call[r].kind = "detach"
                    BY DEF Detach, Commit
                <5>2. QED
                    BY <2>5, <3>2, <5>1 DEF CallsApart, Related
            <4>2. QED
                BY <1>1, <2>1, <2>5, <3>2, <4>1, HoldsAfterWrite
        <3>3. QED
            BY <2>1, <3>1, <3>2
    <2>6. AssignmentHolds(r)'
        <3>1. CASE call'[r].phase \notin {"loaded", "ready"}
            BY <3>1 DEF AssignmentHolds
        <3>2. CASE /\ \/ CheckCreate(r) \/ CheckAttach(r) \/ LoadLink(r) \/ LoadSchedule(r)
                      \/ LoadUser(r) \/ CheckDelete(r) \/ CheckUser(r)
                   /\ UNCHANGED <<owner, link, user>>
            BY <1>1, <3>2, HoldsAfterRead
        <3>3. QED
            BY <2>1, <2>3, <2>4, <3>1, <3>2
    <2>7. QED
        BY <2>5, <2>6 DEF AssignmentsHold
<1>6. QED
    BY <1>4, <1>5

LEMMA ScheduleAttachedStep ==
    ASSUME TypeInv, Wired, Wired', StaffAll, AssignmentsHold, ScheduleAttached, [Next]_vars
    PROVE  ScheduleAttached'
<1>1. \A u : Edited(u) => Edited(u)'
    BY EditedStays
<1>2. CASE UNCHANGED <<owner, link, user>>
    BY <1>1, <1>2 DEF ScheduleAttached
<1>3. CASE Next /\ ~UNCHANGED <<owner, link, user>>
    <2>1. PICK r \in Requests : Writes(r) /\ call'[r] = Left(call[r], "done")
        BY <1>3, OneCall
    <2> DEFINE c == call[r]
    <2>2. SUFFICES ASSUME NEW u \in People, user'[u].schedule # None, user'[u].company # None,
                          ~Edited(u)'
                   PROVE  link'[user'[u].schedule][user'[u].company] # None
        BY DEF ScheduleAttached
    <2> DEFINE d == user[u].company
               s == user'[u].schedule
    <2>3. /\ user'[u].company = d /\ ~Edited(u)
          /\ \/ s = user[u].schedule
             \/ Create(r) /\ u = c.user /\ s = r
             \/ Assign(r) /\ c.kind = "assign" /\ u = c.user /\ s = c.schedule
        BY <1>1, <2>1, <2>2, UsersWritten
    <2>4. user[u] \in User /\ d \in Companies /\ s \in Present' /\ s \in Schedules
        <3>1. user[u] \in User
            BY DEF TypeInv, TypeOK
        <3>2. s \in Present' /\ s \in Schedules
            BY <2>2 DEF Wired, Present
        <3>3. QED
            BY <2>2, <2>3, <3>1, <3>2 DEF User
    <2>5. CASE s = user[u].schedule
        <3>1. link[s][d] # None
            BY <2>2, <2>3, <2>4, <2>5 DEF ScheduleAttached
        <3>2. SUFFICES ASSUME link'[s][d] = None PROVE FALSE
            BY <2>3
        <3>3. Detach(r) /\ s = c.schedule /\ d = c.company
            BY <2>1, <2>4, <3>1, <3>2, LinkStays
        <3>4. u \in Staff(c)
            BY <2>4, <2>5, <3>3 DEF Staff, User
        <3>5. u \in c.staff
            BY <2>3, <3>3, <3>4 DEF StaffAll, Detach, Commit, PicksRows
        <3>6. user'[u].schedule = None
            BY <2>4, <3>3, <3>4, <3>5 DEF Detach, User
        <3>7. QED
            BY <2>2, <3>6
    <2>6. CASE Create(r) /\ u = c.user /\ s = r
        <3>1. c.user # None
            BY <2>6, WorkScheduleAssumption
        <3>2. /\ c.kind = "create" /\ c.company \in Companies /\ ~c.isDefault
              /\ link'[r][c.company] # None
            <4>1. c.kind = "create" /\ ~c.isDefault
                BY <2>6, <3>1, CommitSound DEF Create
            <4>2. c.company \in Companies /\ c.schedule = r /\ link'[c.schedule][c.company] # None
                BY <2>6, MarkFacts
            <4>3. QED
                BY <4>1, <4>2
        <3>3. c.phase = "ready"
            BY <2>6, <3>2 DEF Create, Commit, PicksRows, ClearsDefaults
        <3>4. d \in {None, c.company}
            BY <2>3, <2>6, <3>1, <3>2, <3>3 DEF AssignmentsHold, AssignmentHolds
        <3>5. QED
            BY <2>3, <2>4, <2>6, <3>2, <3>4, WorkScheduleAssumption
    <2>7. CASE Assign(r) /\ c.kind = "assign" /\ u = c.user /\ s = c.schedule
        <3>1. c.phase = "ready" /\ s \in Present /\ link' = link
            BY <2>7 DEF Assign, Commit, PicksRows, ClearsDefaults
        <3>2. link[s][d] # None
            BY <2>2, <2>3, <2>7, <3>1 DEF AssignmentsHold, AssignmentHolds
        <3>3. QED
            BY <2>3, <3>1, <3>2
    <2>8. QED
        BY <2>3, <2>5, <2>6, <2>7
<1>4. QED
    BY <1>2, <1>3 DEF vars

\* A user's schedule is attached to the user's company, as long as no assignment to
\* a schedule overlaps a detachment from it and the user has not been edited.
THEOREM ScheduleAttachedCorrect ==
    ASSUME {"assign", "detach"} \in Apart
    PROVE  Spec => []ScheduleAttached
<1> DEFINE Inv == TypeInv /\ Wired /\ CallsApart /\ StaffAll /\ AssignmentsHold /\ ScheduleAttached
<1>1. Init => Inv
    BY TypeInvInit, InitCalls DEF Init
<1>2. Inv /\ [Next]_vars => Inv'
    BY TypeInvNextStep, WiredStep, CallsApartStep, StaffAllStep, AssignmentsHoldStep,
       ScheduleAttachedStep
<1>3. Inv => ScheduleAttached
    OBVIOUS
<1> HIDE DEF Inv
<1>4. QED
    BY <1>1, <1>2, <1>3, PTL DEF Spec

=============================================================================
